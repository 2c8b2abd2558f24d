----------------------------- MODULE Conexiones -----------------------------
(***************************************************************************)
(* The modules of the system connect to memoria (utils/conexion.c): they   *)
(* retry until it listens, exchange a HANDSHAKE and then send one request  *)
(* at a time.  memoria serves each connection with a thread                *)
(* (memoria.c:43, atender_cliente) and keeps the descriptors that did the  *)
(* handshake in a list that all threads use without a mutex.               *)
(*                                                                         *)
(* A descriptor is a number that accept uses again as soon as it is free:  *)
(* what recv, send and close reach is what the number means at that time.  *)
(* The modules are numbered in the order in which they are started; one    *)
(* that is started again has another number.  A request is one that is     *)
(* answered (FIN_PROCESO is not).  Left out: the descriptors of files and  *)
(* logs, which only shift the numbers; a send to a module that is gone,    *)
(* which may end memoria (SIGPIPE); of two list_adds at once, all but the  *)
(* lost element.                                                           *)
(***************************************************************************)
EXTENDS Integers, SequencesExt

CONSTANTS
    MaxModulos, \* bound: kernel, CPU and devices, each with one connection
    MaxLibres,  \* bound on them when they are not started one at a time
    MaxAccesos  \* bound: requests of a module

ASSUME ConexionesAssumption ==
    /\ MaxModulos \in Nat /\ MaxLibres \in Nat
    /\ MaxAccesos \in Nat

VARIABLES
    calma,      \* are modules started and stopped one at a time?
    escucha,    \* iniciar_servidor is done
    por_aceptar,\* the connections accept has not returned yet
    modulo,     \* what each module is doing
    accesos,    \* requests it has sent
    ida,        \* packets on their way to memoria
    vuelta,     \* replies on their way back: the module whose packet they answer
    tabla_fd,   \* the connection of each descriptor of memoria
    atencion,   \* the thread of each connection: its place and *socket_cliente,
                \* the connection it is blocked in recv on, and the packet it has
    lista_sockets_conectados  \* which list it points to, and what is in it

con_vars == <<calma, escucha, por_aceptar, modulo, accesos, ida, vuelta,
              tabla_fd, atencion, lista_sockets_conectados>>

Modulos == 1..MaxModulos
Ninguno == 0
Fds == 1..MaxModulos
Operaciones == {"HANDSHAKE", "SOLICITUD", "DESCONEXION"}
Etapas == {"apagado", "conecta", "handshake", "listo", "solicita", "cortado", "salio"}
Lugares == {"no", "recibe", "recv", "close", "valida", "lista", "crea",
            "agrega", "enlaza", "retardo", "fin"}

(* Each list_create gives another list; the pointer is NULL before.  An    *)
(* element is the copy of a number that a thread made.                     *)
Listas == [num : Nat, sockets : Seq([hilo : Modulos, fd : Fds])]
NULL == [num |-> 0, sockets |-> <<>>]

ConTypeOK ==
    /\ calma \in BOOLEAN /\ escucha \in BOOLEAN
    /\ por_aceptar \in Seq(Modulos)
    /\ modulo \in [Modulos -> Etapas]
    /\ accesos \in [Modulos -> 0..MaxAccesos]
    /\ \A m \in Modulos : ida[m] \in Seq(Operaciones) /\ vuelta[m] \in Seq(Modulos)
    /\ tabla_fd \in [Fds -> Modulos \union {Ninguno}]
    /\ atencion \in [Modulos ->
           [lugar : Lugares, fd : {0} \union Fds, con : Modulos \union {Ninguno},
            paquete : Operaciones, vista : Listas]]
    /\ lista_sockets_conectados \in Listas

ConInit ==
    /\ calma \in BOOLEAN
    /\ escucha = FALSE
    /\ por_aceptar = <<>>
    /\ modulo = [m \in Modulos |-> "apagado"]
    /\ accesos = [m \in Modulos |-> 0]
    /\ ida = [m \in Modulos |-> <<>>]
    /\ vuelta = [m \in Modulos |-> <<>>]
    /\ tabla_fd = [f \in Fds |-> Ninguno]
    /\ atencion = [m \in Modulos |->
           [lugar |-> "no", fd |-> 0, con |-> Ninguno,
            paquete |-> "DESCONEXION", vista |-> NULL]]
    /\ lista_sockets_conectados = NULL

-----------------------------------------------------------------------------
(* The end of a connection in memoria is open while a descriptor or a      *)
(* thread inside recv refers to it.                                        *)
Abierta(m) ==
    \/ \E k \in 1..Len(por_aceptar) : por_aceptar[k] = m
    \/ \E f \in Fds : tabla_fd[f] = m
    \/ \E t \in Modulos : atencion[t].con = m

(* validar_socket_conectado *)
EnLista(f) ==
    \E k \in 1..Len(lista_sockets_conectados.sockets) :
        lista_sockets_conectados.sockets[k].fd = f

(* Nobody is connecting, and memoria is done with whoever was. *)
Quieto == \A m \in Modulos :
    /\ modulo[m] \notin {"conecta", "handshake"}
    /\ modulo[m] = "salio" => atencion[m].lugar \in {"no", "fin"} /\ ~Abierta(m)
    /\ atencion[m].lugar \notin {"lista", "crea", "agrega", "enlaza"}

Etapa(m, desde, hasta) ==
    modulo[m] = desde /\ modulo' = [modulo EXCEPT ![m] = hasta]

vServidor == <<tabla_fd, atencion, lista_sockets_conectados>>

(* The modules *)

Arranca(m) ==
    /\ IF calma THEN Quieto
       ELSE m <= MaxLibres
    /\ \A n \in 1..(m - 1) : modulo[n] # "apagado"
    /\ Etapa(m, "apagado", "conecta")
    /\ UNCHANGED <<calma, escucha, por_aceptar, accesos, ida, vuelta, vServidor>>

(* crear_conexion returns, and client_handshake sends. *)
CrearConexion(m) ==
    /\ escucha
    /\ Etapa(m, "conecta", "handshake")
    /\ por_aceptar' = Append(por_aceptar, m)
    /\ ida' = [ida EXCEPT ![m] = Append(@, "HANDSHAKE")]
    /\ UNCHANGED <<calma, escucha, accesos, vuelta, vServidor>>

Solicita(m) ==
    /\ accesos[m] < MaxAccesos
    /\ Etapa(m, "listo", "solicita")
    /\ accesos' = [accesos EXCEPT ![m] = @ + 1]
    /\ ida' = [ida EXCEPT ![m] = Append(@, "SOLICITUD")]
    /\ UNCHANGED <<calma, escucha, por_aceptar, vuelta, vServidor>>

(* recibir_paquete in the module: the reply it waits for... *)
RecibeRespuesta(m) ==
    /\ vuelta[m] # <<>>
    /\ Etapa(m, "handshake", "listo") \/ Etapa(m, "solicita", "listo")
    /\ vuelta' = [vuelta EXCEPT ![m] = Tail(@)]
    /\ UNCHANGED <<calma, escucha, por_aceptar, accesos, ida, vServidor>>

(* ...or DESCONEXION. *)
RecibeCorte(m) ==
    /\ vuelta[m] = <<>>
    /\ ~Abierta(m)
    /\ Etapa(m, "handshake", "cortado") \/ Etapa(m, "solicita", "cortado")
    /\ UNCHANGED <<calma, escucha, por_aceptar, accesos, ida, vuelta, vServidor>>

(* The program ends; what it has just sent may be lost with it. *)
TerminaModulo(m) ==
    /\ calma => Quieto
    /\ modulo[m] \notin {"apagado", "salio"}
    /\ modulo' = [modulo EXCEPT ![m] = "salio"]
    /\ \/ UNCHANGED ida
       \/ ida' = [ida EXCEPT ![m] = <<>>]
    /\ vuelta' = [vuelta EXCEPT ![m] = <<>>]
    /\ UNCHANGED <<calma, escucha, por_aceptar, accesos, vServidor>>

ModuloNext(m) ==
    \/ Arranca(m) \/ CrearConexion(m) \/ Solicita(m)
    \/ RecibeRespuesta(m) \/ RecibeCorte(m) \/ TerminaModulo(m)

-----------------------------------------------------------------------------
(* memoria: the main thread *)

IniciarServidor ==
    /\ ~escucha
    /\ escucha' = TRUE
    /\ UNCHANGED <<calma, por_aceptar, modulo, accesos, ida, vuelta, vServidor>>

(* accept takes the lowest free number. *)
NumeroLibre(f) ==
    tabla_fd[f] = Ninguno /\ \A g \in Fds : tabla_fd[g] = Ninguno => f <= g

(* Mutant: the threads share one socket_cliente. *)
EsperarClienteSinCopia ==
    /\ por_aceptar # <<>>
    /\ LET m == Head(por_aceptar) IN
       \E f \in Fds :
        /\ NumeroLibre(f)
        /\ tabla_fd' = [tabla_fd EXCEPT ![f] = m]
        /\ atencion' = [t \in Modulos |-> [atencion[t] EXCEPT !.fd = f,
                           !.lugar = IF t = m THEN "recibe" ELSE @]]
    /\ por_aceptar' = Tail(por_aceptar)
    /\ UNCHANGED <<calma, escucha, modulo, accesos, ida, vuelta,
                   lista_sockets_conectados>>

(* esperar_cliente; the new thread has its own copy of the number. *)
EsperarCliente ==
    /\ por_aceptar # <<>>
    /\ LET m == Head(por_aceptar) IN
       \E f \in Fds :
        /\ NumeroLibre(f)
        /\ tabla_fd' = [tabla_fd EXCEPT ![f] = m]
        /\ atencion' = [atencion EXCEPT ![m].lugar = "recibe", ![m].fd = f]
    /\ por_aceptar' = Tail(por_aceptar)
    /\ UNCHANGED <<calma, escucha, modulo, accesos, ida, vuelta,
                   lista_sockets_conectados>>

-----------------------------------------------------------------------------
(* memoria: atender_cliente *)

vModulos == <<calma, escucha, por_aceptar, modulo, accesos>>

Pasa(t, desde, hasta) ==
    /\ atencion[t].lugar = desde
    /\ atencion' = [atencion EXCEPT ![t].lugar = hasta]

(* recv fails at once on a number that is closed, else it waits. *)
LlamaRecv(t) ==
    LET con == tabla_fd[atencion[t].fd] IN
    /\ atencion[t].lugar = "recibe"
    /\ atencion' = [atencion EXCEPT
           ![t].lugar = IF con = Ninguno THEN "close" ELSE "recv",
           ![t].con = con]
    /\ UNCHANGED <<vModulos, ida, vuelta, tabla_fd, lista_sockets_conectados>>

Recibe(t) ==
    LET con == atencion[t].con IN
    /\ atencion[t].lugar = "recv"
    /\ \/ /\ ida[con] # <<>>
          /\ ida' = [ida EXCEPT ![con] = Tail(@)]
          /\ atencion' = [atencion EXCEPT ![t].lugar = "valida",
                 ![t].con = Ninguno, ![t].paquete = Head(ida[con])]
       \/ /\ ida[con] = <<>>
          /\ modulo[con] \in {"salio", "cortado"}
          /\ atencion' = [atencion EXCEPT ![t].lugar = "close", ![t].con = Ninguno]
          /\ UNCHANGED ida
    /\ UNCHANGED <<vModulos, vuelta, tabla_fd, lista_sockets_conectados>>

Cierra(f) == tabla_fd' = [tabla_fd EXCEPT ![f] = Ninguno]

(* The close of deserializar_paquete: DESCONEXION. *)
CierraDeserializar(t) ==
    /\ atencion[t].lugar = "close"
    /\ atencion' = [atencion EXCEPT ![t].lugar = "valida",
                                    ![t].paquete = "DESCONEXION"]
    /\ Cierra(atencion[t].fd)
    /\ UNCHANGED <<vModulos, ida, vuelta, lista_sockets_conectados>>

(* A reply is lost if the number is closed or nobody is at the other end. *)
Responde(t) ==
    LET con == tabla_fd[atencion[t].fd] IN
    vuelta' = IF con = Ninguno \/ modulo[con] \in {"salio", "cortado"}
              THEN vuelta ELSE [vuelta EXCEPT ![con] = Append(@, t)]

(* Mutant: the handshake has to be in the list too. *)
RechazaTodo(t) == ~EnLista(atencion[t].fd)

(* "Debes hacer el handshake", and out of the loop. *)
Rechaza(t) ==
    /\ atencion[t].paquete # "HANDSHAKE"
    /\ ~EnLista(atencion[t].fd)

ValidaYCorta(t) ==
    /\ Rechaza(t)
    /\ Pasa(t, "valida", "retardo")
    /\ UNCHANGED <<vModulos, ida, vuelta, tabla_fd, lista_sockets_conectados>>

(* server_handshake; agregar_socket_conectado comes after the reply. *)
AtiendeHandshake(t) ==
    /\ atencion[t].paquete = "HANDSHAKE"
    /\ Pasa(t, "valida", "lista")
    /\ Responde(t)
    /\ UNCHANGED <<vModulos, ida, tabla_fd, lista_sockets_conectados>>

AtiendeSolicitud(t) ==
    /\ atencion[t].paquete = "SOLICITUD"
    /\ ~Rechaza(t)
    /\ Pasa(t, "valida", "recibe")
    /\ Responde(t)
    /\ UNCHANGED <<vModulos, ida, tabla_fd, lista_sockets_conectados>>

(* list_remove_element compares addresses and finds nothing; the usleep,   *)
(* and the thread leaves its loop.                                         *)
AtiendeDesconexion(t) ==
    /\ atencion[t].paquete = "DESCONEXION"
    /\ ~Rechaza(t)
    /\ Pasa(t, "valida", "retardo")
    /\ UNCHANGED <<vModulos, ida, vuelta, tabla_fd, lista_sockets_conectados>>

(* Mutant: agregar_socket_conectado always makes a new list. *)
MiraListaSiempreCrea(t) ==
    /\ Pasa(t, "lista", "crea")
    /\ UNCHANGED <<vModulos, ida, vuelta, tabla_fd, lista_sockets_conectados>>

(* agregar_socket_conectado: is there a list... *)
MiraLista(t) ==
    /\ Pasa(t, "lista", IF lista_sockets_conectados = NULL THEN "crea" ELSE "agrega")
    /\ UNCHANGED <<vModulos, ida, vuelta, tabla_fd, lista_sockets_conectados>>

CreaLista(t) ==
    /\ Pasa(t, "crea", "agrega")
    /\ lista_sockets_conectados' =
           [num |-> lista_sockets_conectados.num + 1, sockets |-> <<>>]
    /\ UNCHANGED <<vModulos, ida, vuelta, tabla_fd>>

(* ...and list_add, which finds the end of that list and then links the    *)
(* new element there: of two at a time one is lost, and so is one that is  *)
(* linked to a lost element or to a list nobody points to any more.        *)
AgregaSocket(t) ==
    /\ atencion[t].lugar = "agrega"
    /\ atencion' = [atencion EXCEPT ![t].lugar = "enlaza",
                                    ![t].vista = lista_sockets_conectados]
    /\ UNCHANGED <<vModulos, ida, vuelta, tabla_fd, lista_sockets_conectados>>

EnlazaSocket(t) ==
    /\ atencion[t].lugar = "enlaza"
    /\ atencion' = [atencion EXCEPT ![t].lugar = "recibe", ![t].vista = NULL]
    /\ LET vista == atencion[t].vista
           nuevo == [hilo |-> t, fd |-> atencion[t].fd]
       IN lista_sockets_conectados' =
              IF /\ vista.num = lista_sockets_conectados.num
                 /\ IsPrefix(vista.sockets, lista_sockets_conectados.sockets)
              THEN [vista EXCEPT !.sockets = Append(@, nuevo)]
              ELSE lista_sockets_conectados
    /\ UNCHANGED <<vModulos, ida, vuelta, tabla_fd>>

(* The liberar_conexion at the end of the thread, after the retardo. *)
LiberaConexion(t) ==
    /\ Pasa(t, "retardo", "fin")
    /\ Cierra(atencion[t].fd)
    /\ UNCHANGED <<vModulos, ida, vuelta, lista_sockets_conectados>>

AtiendeNext(t) ==
    \/ LlamaRecv(t) \/ Recibe(t) \/ CierraDeserializar(t)
    \/ ValidaYCorta(t) \/ AtiendeHandshake(t) \/ AtiendeSolicitud(t)
    \/ AtiendeDesconexion(t)
    \/ MiraLista(t) \/ CreaLista(t) \/ AgregaSocket(t) \/ EnlazaSocket(t)
    \/ LiberaConexion(t)

ConNext ==
    \/ IniciarServidor \/ EsperarCliente
    \/ \E m \in Modulos : ModuloNext(m) \/ AtiendeNext(m)

ConSpec == ConInit /\ [][ConNext]_con_vars

-----------------------------------------------------------------------------
(***************************************************************************)
(* Fairness: memoria is started and its threads run, and a module that     *)
(* connects or waits in recv goes on.  Nobody has to start a module.       *)
(***************************************************************************)
ConAvanza(m) == CrearConexion(m) \/ RecibeRespuesta(m) \/ RecibeCorte(m)

(***************************************************************************)
(* Two threads have one number: the thread of a module that has gone has   *)
(* closed it once, accept has given it to a new connection, and the second *)
(* close is still to come (conexion.c:162, memoria-utils.c:189).           *)
(***************************************************************************)
Vivo(t) == atencion[t].lugar \notin {"no", "fin"}
Comparten(m) == \E t \in Modulos \ {m} : Vivo(t) /\ atencion[t].fd = atencion[m].fd

(* The handshake of m is over and its number is not in the list: another   *)
(* thread wrote the list at the same time.                                 *)
Olvidado(m) ==
    /\ atencion[m].lugar \in {"valida", "retardo"}
    /\ modulo[m] # "handshake"
    /\ ~EnLista(atencion[m].fd)

TieneNumero(m) == \E f \in Fds : tabla_fd[f] = m

(***************************************************************************)
(* memoria closes the connection of a module that is still there in these  *)
(* two cases only, and never when modules come and go one at a time, the   *)
(* numbers being used again or not.                                        *)
(***************************************************************************)
CorteExplicado ==
    [][\A m \in Modulos :
          TieneNumero(m) /\ ~TieneNumero(m)' /\ modulo[m] \notin {"salio", "cortado"}
              => ~calma /\ (Comparten(m) \/ Olvidado(m))]_con_vars

(***************************************************************************)
(* A module reads the reply to its own packet: threads that answer at the  *)
(* same time never answer each other's modules, unless they share a number.*)
(***************************************************************************)
RespuestaPropia ==
    [][\A m, t \in Modulos :
          vuelta'[m] = Append(vuelta[m], t) /\ t # m => ~calma /\ Comparten(t)]_con_vars

(* Who connects, or asks, while the others are quiet is served, whichever  *)
(* modules were there before.                                              *)
TodosAtendidos ==
    \A m \in Modulos :
        calma /\ modulo[m] \in {"conecta", "handshake", "solicita"}
            ~> modulo[m] \in {"listo", "salio"}

=============================================================================
