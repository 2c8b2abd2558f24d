-------------------------- MODULE Conexiones_proofs --------------------------
(***************************************************************************)
(* Proofs about Conexiones, for any number of modules, of requests and of  *)
(* modules that come and go at once.                                       *)
(*                                                                         *)
(* The inductive invariant has two layers.  The first one holds however    *)
(* modules come and go: the number of a connection belongs to one thread,  *)
(* a thread that is about to close it has a reason, and a handshake is the *)
(* first packet.  The second one holds when they come and go one at a      *)
(* time: no two threads have a number, and one module at most is at its    *)
(* start or at its end.                                                    *)
(***************************************************************************)
EXTENDS Conexiones, Colas_lemas, FiniteSetTheorems

Hay(s, e) == \E k \in 1..Len(s) : s[k] = e

Numeros(lista) == {lista.sockets[k].fd : k \in 1..Len(lista.sockets)}

(* A handshake is nowhere but at the head. *)
AlPrincipio(s) == \A k \in 1..Len(s) : s[k] = "HANDSHAKE" => k = 1

Distintos(s) == \A j, k \in 1..Len(s) : s[j] = s[k] => j = k

(* The threads, field by field. *)
Lugar == [m \in Modulos |-> atencion[m].lugar]
Numero == [m \in Modulos |-> atencion[m].fd]
Con == [m \in Modulos |-> atencion[m].con]
Paquete == [m \in Modulos |-> atencion[m].paquete]
Vista == [m \in Modulos |-> atencion[m].vista]

Vivos == {m \in Modulos : Lugar[m] \notin {"no", "fin"}}

(* The modules whose number still means their connection. *)
Suyos == {m \in Vivos : tabla_fd[Numero[m]] = m}

Enlazan == {m \in Modulos : Lugar[m] \in {"lista", "crea", "agrega", "enlaza"}}

(* The connections memoria still has an end of. *)
Abiertas ==
    {m \in Modulos :
        \/ Hay(por_aceptar, m)
        \/ \E f \in Fds : tabla_fd[f] = m
        \/ \E t \in Modulos : Con[t] = m}

Anotados == {m \in Modulos : Numero[m] \in Numeros(lista_sockets_conectados)}

Repetidos == {m \in Modulos : \E t \in Vivos \ {m} : Numero[t] = Numero[m]}

Hilos == [lugar : Lugares, fd : {0} \union Fds, con : Modulos \union {Ninguno},
          paquete : Operaciones, vista : Listas]

ConTipo ==
    /\ calma \in BOOLEAN /\ escucha \in BOOLEAN
    /\ por_aceptar \in Seq(Modulos)
    /\ modulo \in [Modulos -> Etapas]
    /\ accesos \in [Modulos -> 0..MaxAccesos]
    /\ ida \in [Modulos -> Seq({"HANDSHAKE", "SOLICITUD"})]
    /\ vuelta \in [Modulos -> Seq(Modulos)]
    /\ tabla_fd \in [Fds -> Modulos \union {Ninguno}]
    /\ atencion \in [Modulos -> Hilos]
    /\ lista_sockets_conectados \in Listas

(* A number belongs to the thread that serves its connection. *)
DuenioVivo ==
    \A f \in Fds, m \in Modulos :
        tabla_fd[f] = m => m \in Vivos /\ Numero[m] = f

HiloConNumero ==
    \A t \in Modulos :
        /\ Lugar[t] # "no" => Numero[t] \in Fds
        /\ Lugar[t] = "recv" <=> Con[t] # Ninguno

(* Each connection is accepted once, before anybody answers it. *)
ColaNueva ==
    /\ Distintos(por_aceptar)
    /\ \A m \in Modulos : Hay(por_aceptar, m) =>
           /\ Lugar[m] = "no"
           /\ modulo[m] \in {"handshake", "salio"}
           /\ vuelta[m] = <<>>
           /\ ~Hay(ida[m], "SOLICITUD")

SinConectar ==
    \A m \in Modulos : modulo[m] \in {"apagado", "conecta"} =>
        /\ Lugar[m] = "no" /\ ~Hay(por_aceptar, m)
        /\ ida[m] = <<>> /\ vuelta[m] = <<>>

HandshakePrimero ==
    \A m \in Modulos :
        /\ AlPrincipio(ida[m])
        /\ modulo[m] = "handshake" => ~Hay(ida[m], "SOLICITUD")

(* What a thread that still owns its number does with it. *)
CierraConMotivo ==
    \A m \in Suyos :
        /\ Lugar[m] = "recv" => Con[m] = m
        /\ Lugar[m] = "close" => modulo[m] \in {"salio", "cortado"}
        /\ Lugar[m] = "valida" => Paquete[m] # "DESCONEXION"
        /\ Lugar[m] = "retardo" => m \notin Anotados \/ m \in Repetidos
        /\ modulo[m] = "handshake" =>
               /\ Lugar[m] # "retardo"
               /\ Lugar[m] = "valida" => Paquete[m] # "SOLICITUD"

ConInvLibre ==
    /\ ConTipo /\ DuenioVivo /\ HiloConNumero /\ ColaNueva /\ SinConectar
    /\ HandshakePrimero /\ CierraConMotivo

-----------------------------------------------------------------------------
(* One at a time.  A module is busy at its start and at its end. *)
Ocupados ==
    {m \in Modulos :
        \/ modulo[m] \in {"conecta", "handshake"}
        \/ modulo[m] = "salio" /\ m \in Vivos \union Abiertas
        \/ m \in Enlazan}

UnoOcupado == \A m, n \in Ocupados : m = n

SinCompartir == \A m, t \in Vivos : Numero[m] = Numero[t] => m = t

(* A module that is there has its connection. *)
Conectado ==
    \A m \in Modulos :
        /\ modulo[m] # "cortado"
        /\ modulo[m] \in {"handshake", "listo", "solicita"} =>
               Hay(por_aceptar, m) \/ m \in Suyos
        /\ m \in Vivos /\ modulo[m] # "salio" => m \in Suyos

SinHandshake ==
    \A m \in Modulos :
        /\ \/ Hay(ida[m], "HANDSHAKE")
           \/ Lugar[m] = "valida" /\ Paquete[m] = "HANDSHAKE"
           => modulo[m] \in {"handshake", "salio"} /\ vuelta[m] = <<>>
        /\ Lugar[m] = "valida" /\ Paquete[m] # "DESCONEXION"
               => ~Hay(ida[m], "HANDSHAKE")

CierraSiSalio ==
    \A m \in Modulos :
        /\ Lugar[m] \in {"close", "retardo"} => modulo[m] = "salio"
        /\ Lugar[m] = "valida" /\ Paquete[m] = "DESCONEXION" => modulo[m] = "salio"
        /\ Lugar[m] = "recv" => Con[m] = m

(* Who was answered is in the list, or its thread is about to put it there.*)
Atendidos ==
    {m \in Modulos :
        \/ modulo[m] \in {"listo", "solicita"} \/ vuelta[m] # <<>>
        \/ Hay(ida[m], "SOLICITUD")
        \/ Lugar[m] = "valida" /\ Paquete[m] = "SOLICITUD"}

AtendidoEnLista == Atendidos \subseteq Enlazan \union Anotados

ListaDeUno ==
    \A m \in Modulos :
        /\ Lugar[m] = "crea" => lista_sockets_conectados = NULL
        /\ Lugar[m] = "enlaza" => Vista[m] = lista_sockets_conectados

ConInvCalma ==
    /\ UnoOcupado /\ SinCompartir /\ Conectado /\ SinHandshake /\ CierraSiSalio
    /\ AtendidoEnLista /\ ListaDeUno

ConInv == ConInvLibre /\ (calma => ConInvCalma)

-----------------------------------------------------------------------------
(* Sequences that grow at the end and are read at the head. *)
LEMMA HayAppend ==
  ASSUME NEW S, NEW s \in Seq(S), NEW e \in S
  PROVE  /\ \A x : Hay(Append(s, e), x) <=> (Hay(s, x) \/ x = e)
         /\ Append(s, e) # <<>>
         /\ Append(s, e) \in Seq(S)
<1>1. /\ Len(Append(s, e)) = Len(s) + 1 /\ Len(s) \in Nat
      /\ \A k \in 1..Len(s) : Append(s, e)[k] = s[k]
      /\ Append(s, e)[Len(s) + 1] = e
      /\ Append(s, e) \in Seq(S)
  OBVIOUS
<1>2. ASSUME NEW x, Hay(s, x) PROVE Hay(Append(s, e), x)
  BY <1>1, <1>2 DEF Hay
<1>3. Hay(Append(s, e), e)
  BY <1>1 DEF Hay
<1>4. ASSUME NEW x, Hay(Append(s, e), x), x # e PROVE Hay(s, x)
  BY <1>1, <1>4 DEF Hay
<1>5. Append(s, e) # <<>>
  BY <1>1
<1> QED
  BY <1>1, <1>2, <1>3, <1>4, <1>5

LEMMA HayTail ==
  ASSUME NEW S, NEW s \in Seq(S), s # <<>>
  PROVE  /\ \A x : Hay(Tail(s), x) => Hay(s, x)
         /\ \A x : Hay(s, x) => x = Head(s) \/ Hay(Tail(s), x)
         /\ Hay(s, Head(s)) /\ Head(s) \in S
         /\ Tail(s) \in Seq(S)
<1>1. /\ Len(s) \in Nat \ {0} /\ Len(Tail(s)) = Len(s) - 1
      /\ \A k \in 1..Len(Tail(s)) : Tail(s)[k] = s[k + 1]
      /\ Head(s) = s[1] /\ Head(s) \in S /\ Tail(s) \in Seq(S)
  OBVIOUS
<1>2. ASSUME NEW x, Hay(Tail(s), x) PROVE Hay(s, x)
  BY <1>1, <1>2 DEF Hay
<1>3. ASSUME NEW x, Hay(s, x), x # s[1] PROVE Hay(Tail(s), x)
  <2>1. PICK k \in 1..Len(s) : s[k] = x
    BY <1>3 DEF Hay
  <2>2. k - 1 \in 1..Len(Tail(s)) /\ Tail(s)[k - 1] = x
    BY <1>1, <1>3, <2>1
  <2> QED
    BY <2>2 DEF Hay
<1>4. Hay(s, s[1])
  BY <1>1 DEF Hay
<1> QED
  BY <1>1, <1>2, <1>3, <1>4

LEMMA HayVacia == (\A x : ~Hay(<<>>, x)) /\ AlPrincipio(<<>>) /\ Distintos(<<>>)
  BY DEF Hay, AlPrincipio, Distintos

LEMMA HayEnSeq ==
  ASSUME NEW S, NEW s \in Seq(S), NEW x, Hay(s, x)
  PROVE  x \in S /\ s # <<>>
  BY DEF Hay

LEMMA AlPrincipioHechos ==
  ASSUME NEW S, NEW s \in Seq(S)
  PROVE  /\ ~Hay(s, "HANDSHAKE") => AlPrincipio(s)
         /\ s # <<>> /\ AlPrincipio(s) =>
                ~Hay(Tail(s), "HANDSHAKE") /\ AlPrincipio(Tail(s))
         /\ "SOLICITUD" \in S /\ AlPrincipio(s) =>
                AlPrincipio(Append(s, "SOLICITUD"))
<1>1. ~Hay(s, "HANDSHAKE") => AlPrincipio(s)
  BY DEF Hay, AlPrincipio
<1>2. ASSUME s # <<>>, AlPrincipio(s) PROVE ~Hay(Tail(s), "HANDSHAKE")
  <2>1. /\ Len(s) \in Nat \ {0} /\ Len(Tail(s)) = Len(s) - 1
        /\ \A k \in 1..Len(Tail(s)) : Tail(s)[k] = s[k + 1]
    BY <1>2
  <2> QED
    BY <1>2, <2>1 DEF Hay, AlPrincipio
<1>3. ASSUME "SOLICITUD" \in S, AlPrincipio(s)
      PROVE  AlPrincipio(Append(s, "SOLICITUD"))
  <2>1. /\ Len(Append(s, "SOLICITUD")) = Len(s) + 1 /\ Len(s) \in Nat
        /\ \A k \in 1..Len(s) : Append(s, "SOLICITUD")[k] = s[k]
        /\ Append(s, "SOLICITUD")[Len(s) + 1] = "SOLICITUD"
    BY <1>3
  <2> QED
    BY <1>3, <2>1 DEF AlPrincipio
<1>4. ASSUME s # <<>>, ~Hay(Tail(s), "HANDSHAKE") PROVE AlPrincipio(Tail(s))
  BY <1>4 DEF Hay, AlPrincipio
<1> QED
  BY <1>1, <1>2, <1>3, <1>4

LEMMA AlPrincipioUno == AlPrincipio(Append(<<>>, "HANDSHAKE"))
  BY DEF AlPrincipio

LEMMA DistintosHechos ==
  ASSUME NEW S, NEW s \in Seq(S), Distintos(s)
  PROVE  /\ \A e \in S : ~Hay(s, e) => Distintos(Append(s, e))
         /\ s # <<>> => Distintos(Tail(s)) /\ ~Hay(Tail(s), Head(s))
<1>1. ASSUME NEW e \in S, ~Hay(s, e) PROVE Distintos(Append(s, e))
  <2>1. /\ Len(Append(s, e)) = Len(s) + 1 /\ Len(s) \in Nat
        /\ \A k \in 1..Len(s) : Append(s, e)[k] = s[k]
        /\ Append(s, e)[Len(s) + 1] = e
    OBVIOUS
  <2>2. \A k \in 1..Len(s) : s[k] # e
    BY <1>1 DEF Hay
  <2> QED
    BY <2>1, <2>2 DEF Distintos
<1>2. ASSUME s # <<>> PROVE Distintos(Tail(s)) /\ ~Hay(Tail(s), Head(s))
  <2>1. /\ Len(s) \in Nat \ {0} /\ Len(Tail(s)) = Len(s) - 1
        /\ \A k \in 1..Len(Tail(s)) : Tail(s)[k] = s[k + 1]
        /\ Head(s) = s[1]
    BY <1>2
  <2> QED
    BY <2>1 DEF Distintos, Hay
<1> QED
  BY <1>1, <1>2

LEMMA EnListaNumeros ==
  ASSUME NEW f
  PROVE  EnLista(f) <=> f \in Numeros(lista_sockets_conectados)
  BY DEF EnLista, Numeros

-----------------------------------------------------------------------------
LEMMA CamposTipo ==
  ASSUME ConTipo
  PROVE  /\ Lugar \in [Modulos -> Lugares]
         /\ Numero \in [Modulos -> {0} \union Fds]
         /\ Con \in [Modulos -> Modulos \union {Ninguno}]
         /\ Paquete \in [Modulos -> Operaciones]
         /\ Vista \in [Modulos -> Listas]
         /\ Ninguno \notin Modulos
  BY ConexionesAssumption
     DEF ConTipo, Hilos, Lugar, Numero, Con, Paquete, Vista, Modulos, Ninguno

LEMMA Campos ==
  ASSUME NEW m \in Modulos
  PROVE  /\ atencion[m].lugar = Lugar[m] /\ atencion[m].fd = Numero[m]
         /\ atencion[m].con = Con[m] /\ atencion[m].paquete = Paquete[m]
         /\ atencion[m].vista = Vista[m]
  BY DEF Lugar, Numero, Con, Paquete, Vista

(* A thread that goes on. *)
LEMMA CambiaHilo ==
  ASSUME ConTipo, NEW t \in Modulos, NEW h \in Hilos,
         atencion' = [atencion EXCEPT ![t] = h]
  PROVE  /\ Lugar' = [Lugar EXCEPT ![t] = h.lugar]
         /\ Numero' = [Numero EXCEPT ![t] = h.fd]
         /\ Con' = [Con EXCEPT ![t] = h.con]
         /\ Paquete' = [Paquete EXCEPT ![t] = h.paquete]
         /\ Vista' = [Vista EXCEPT ![t] = h.vista]
         /\ atencion' \in [Modulos -> Hilos]
<1>1. atencion \in [Modulos -> Hilos]
  BY DEF ConTipo
<1>2. \A m \in Modulos : atencion'[m] = IF m = t THEN h ELSE atencion[m]
  BY <1>1
<1>3. Lugar' = [Lugar EXCEPT ![t] = h.lugar]
  <2>1. Lugar' = [m \in Modulos |-> IF m = t THEN h.lugar ELSE Lugar[m]]
    BY <1>2 DEF Lugar
  <2> QED
    BY <2>1 DEF Lugar
<1>4. Numero' = [Numero EXCEPT ![t] = h.fd]
  <2>1. Numero' = [m \in Modulos |-> IF m = t THEN h.fd ELSE Numero[m]]
    BY <1>2 DEF Numero
  <2> QED
    BY <2>1 DEF Numero
<1>5. Con' = [Con EXCEPT ![t] = h.con]
  <2>1. Con' = [m \in Modulos |-> IF m = t THEN h.con ELSE Con[m]]
    BY <1>2 DEF Con
  <2> QED
    BY <2>1 DEF Con
<1>6. Paquete' = [Paquete EXCEPT ![t] = h.paquete]
  <2>1. Paquete' = [m \in Modulos |-> IF m = t THEN h.paquete ELSE Paquete[m]]
    BY <1>2 DEF Paquete
  <2> QED
    BY <2>1 DEF Paquete
<1>7. Vista' = [Vista EXCEPT ![t] = h.vista]
  <2>1. Vista' = [m \in Modulos |-> IF m = t THEN h.vista ELSE Vista[m]]
    BY <1>2 DEF Vista
  <2> QED
    BY <2>1 DEF Vista
<1>8. atencion' \in [Modulos -> Hilos]
  BY <1>1
<1> QED
  BY <1>3, <1>4, <1>5, <1>6, <1>7, <1>8

(* ...and nothing but its place is another. *)
LEMMA CambiaLugar ==
  ASSUME ConTipo, NEW t \in Modulos, NEW l \in Lugares,
         atencion' = [atencion EXCEPT ![t].lugar = l]
  PROVE  /\ Lugar' = [Lugar EXCEPT ![t] = l]
         /\ UNCHANGED <<Numero, Con, Paquete, Vista>>
         /\ atencion' \in [Modulos -> Hilos]
<1> DEFINE h == [atencion[t] EXCEPT !.lugar = l]
<1>1. /\ h \in Hilos /\ h.lugar = l /\ h.fd = atencion[t].fd
      /\ h.con = atencion[t].con /\ h.paquete = atencion[t].paquete
      /\ h.vista = atencion[t].vista
  BY DEF ConTipo, Hilos
<1>2. atencion' = [atencion EXCEPT ![t] = h]
  OBVIOUS
<1> HIDE DEF h
<1>3. /\ Lugar' = [Lugar EXCEPT ![t] = h.lugar]
      /\ Numero' = [Numero EXCEPT ![t] = h.fd]
      /\ Con' = [Con EXCEPT ![t] = h.con]
      /\ Paquete' = [Paquete EXCEPT ![t] = h.paquete]
      /\ Vista' = [Vista EXCEPT ![t] = h.vista]
      /\ atencion' \in [Modulos -> Hilos]
  BY <1>1, <1>2, CambiaHilo
<1>4. /\ h.lugar = l /\ h.fd = Numero[t] /\ h.con = Con[t]
      /\ h.paquete = Paquete[t] /\ h.vista = Vista[t]
  BY <1>1, Campos
<1> QED
  BY <1>3, <1>4, CamposTipo

(* While no thread comes or goes and no number is closed... *)
LEMMA MismosHilos ==
  ASSUME UNCHANGED <<Numero, tabla_fd>>, Vivos' = Vivos
  PROVE  UNCHANGED <<Suyos, Repetidos>>
  BY DEF Suyos, Repetidos

LEMMA MismosHilosLista ==
  ASSUME UNCHANGED <<Numero, lista_sockets_conectados>>
  PROVE  UNCHANGED Anotados
  BY DEF Anotados

(* A thread that goes on from one place to the next. *)
LEMMA SigueVivo ==
  ASSUME ConTipo, NEW t \in Modulos, NEW l \in Lugares,
         Lugar' = [Lugar EXCEPT ![t] = l], Lugar[t] \notin {"no", "fin"},
         l \notin {"no", "fin"}
  PROVE  Vivos' = Vivos
  BY CamposTipo DEF Vivos

LEMMA SigueEnlazan ==
  ASSUME ConTipo, NEW t \in Modulos, NEW l \in Lugares,
         Lugar' = [Lugar EXCEPT ![t] = l]
  PROVE  Enlazan' = IF l \in {"lista", "crea", "agrega", "enlaza"}
                    THEN Enlazan \union {t} ELSE Enlazan \ {t}
  BY CamposTipo DEF Enlazan

LEMMA AbiertasDef == ASSUME NEW m \in Modulos PROVE Abierta(m) <=> m \in Abiertas
  BY DEF Abiertas, Abierta, Hay, Con

(* A step of a module. *)
LEMMA SoloModulo ==
  ASSUME UNCHANGED <<por_aceptar, tabla_fd, lista_sockets_conectados,
                     Lugar, Numero, Con>>
  PROVE  UNCHANGED <<Vivos, Suyos, Enlazan, Abiertas, Anotados, Repetidos>>
  BY DEF Vivos, Suyos, Enlazan, Abiertas, Anotados, Repetidos

(* Nobody is busy. *)
LEMMA QuietoDef ==
  ASSUME ConTipo, Quieto
  PROVE  Ocupados = {}
<1>1. SUFFICES ASSUME NEW m \in Ocupados PROVE FALSE
  OBVIOUS
<1>2. m \in Modulos
  BY <1>1 DEF Ocupados
<1> QED
  BY <1>1, <1>2, AbiertasDef DEF Quieto, Ocupados, Vivos, Enlazan, Lugar

-----------------------------------------------------------------------------
(* The numbers in a list. *)
Socket == [hilo : Modulos, fd : Fds]

LEMMA ListasHechos ==
  ASSUME NEW l \in Listas
  PROVE  l.num \in Nat /\ l.sockets \in Seq(Socket)
  BY DEF Listas, Socket

LEMMA NULLHechos == NULL \in Listas /\ Numeros(NULL) = {}
<1>1. <<>> \in Seq(Socket) /\ Len(<<>>) = 0
  OBVIOUS
<1> QED
  BY <1>1 DEF NULL, Listas, Socket, Numeros

LEMMA NumerosAppend ==
  ASSUME NEW l \in Listas, NEW m \in Listas, NEW s \in Socket,
         IsPrefix(m.sockets, l.sockets)
  PROVE  LET nueva == [m EXCEPT !.sockets = Append(@, s)]
         IN  /\ nueva \in Listas
             /\ Numeros(nueva) \subseteq Numeros(l) \union {s.fd}
             /\ l = m => Numeros(nueva) = Numeros(l) \union {s.fd}
<1> DEFINE nueva == [m EXCEPT !.sockets = Append(@, s)]
           v == m.sockets
           w == Append(v, s)
<1>1. v \in Seq(Socket) /\ l.sockets \in Seq(Socket) /\ m.num \in Nat
  BY ListasHechos
<1>2. /\ Len(w) = Len(v) + 1 /\ Len(v) \in Nat /\ w \in Seq(Socket)
      /\ \A k \in 1..Len(v) : w[k] = v[k]
      /\ w[Len(v) + 1] = s
  BY <1>1
<1>3. nueva \in Listas /\ nueva.sockets = w
  BY <1>1, <1>2 DEF Listas, Socket
<1>4. \A k \in 1..Len(v) : k \in 1..Len(l.sockets) /\ v[k] = l.sockets[k]
  <2>1. /\ Len(v) <= Len(l.sockets)
        /\ SubSeq(v, 1, Len(v)) = SubSeq(l.sockets, 1, Len(v))
    BY DEF IsPrefix
  <2>2. Len(l.sockets) \in Nat
    BY <1>1
  <2>3. \A k \in 1..Len(v) : SubSeq(v, 1, Len(v))[k] = v[k]
                             /\ SubSeq(l.sockets, 1, Len(v))[k] = l.sockets[k]
    BY <1>1, <1>2, <2>1, <2>2
  <2> QED
    BY <1>2, <2>1, <2>2, <2>3
<1>5. Numeros(nueva) = {v[k].fd : k \in 1..Len(v)} \union {s.fd}
  <2>1. Numeros(nueva) = {w[k].fd : k \in 1..(Len(v) + 1)}
    BY <1>2, <1>3 DEF Numeros
  <2>2. ASSUME NEW k \in 1..(Len(v) + 1)
        PROVE  w[k].fd \in {v[j].fd : j \in 1..Len(v)} \union {s.fd}
    <3>1. CASE k = Len(v) + 1
      BY <1>2, <3>1
    <3>2. CASE k # Len(v) + 1
      BY <1>2, <3>2
    <3> QED
      BY <3>1, <3>2
  <2>3. /\ \A k \in 1..Len(v) : k \in 1..(Len(v) + 1) /\ w[k].fd = v[k].fd
        /\ Len(v) + 1 \in 1..(Len(v) + 1) /\ w[Len(v) + 1].fd = s.fd
    BY <1>2
  <2> HIDE DEF v, w, nueva
  <2> QED
    BY <2>1, <2>2, <2>3
<1>6. {v[k].fd : k \in 1..Len(v)} \subseteq Numeros(l)
  BY <1>4 DEF Numeros
<1>7. l = m => {v[k].fd : k \in 1..Len(v)} = Numeros(l)
  BY DEF Numeros
<1> QED
  BY <1>3, <1>5, <1>6, <1>7

LEMMA IniciarServidorConserva ==
  ASSUME ConInv, IniciarServidor
  PROVE  ConInv'
<1>0. /\ ConInvLibre /\ ConTipo /\ (calma => ConInvCalma)
      /\ DuenioVivo /\ HiloConNumero /\ ColaNueva /\ SinConectar
      /\ HandshakePrimero /\ CierraConMotivo
  BY DEF ConInv, ConInvLibre
<1>01. /\ modulo \in [Modulos -> Etapas]
      /\ ida \in [Modulos -> Seq({"HANDSHAKE", "SOLICITUD"})]
      /\ vuelta \in [Modulos -> Seq(Modulos)]
      /\ tabla_fd \in [Fds -> Modulos \union {Ninguno}]
      /\ por_aceptar \in Seq(Modulos)
      /\ Lugar \in [Modulos -> Lugares]
      /\ Numero \in [Modulos -> {0} \union Fds]
      /\ Con \in [Modulos -> Modulos \union {Ninguno}]
      /\ Paquete \in [Modulos -> Operaciones]
      /\ Vista \in [Modulos -> Listas]
      /\ Ninguno \notin Modulos
  BY <1>0, CamposTipo DEF ConTipo
<1>1. /\ UNCHANGED <<calma, por_aceptar, modulo, ida, vuelta, tabla_fd,
                   lista_sockets_conectados, Lugar, Numero, Con, Paquete,
                   Vista>>
  BY DEF IniciarServidor, vServidor, Lugar, Numero, Con, Paquete, Vista
<1>2. ConTipo'
  BY <1>0, <1>1 DEF IniciarServidor, ConTipo, vServidor
<1>3. /\ UNCHANGED <<Vivos, Suyos, Enlazan, Abiertas, Anotados, Repetidos>>
  BY <1>1, SoloModulo
<1>4. DuenioVivo'
  BY <1>0, <1>01, <1>1, <1>3 DEF DuenioVivo
<1>5. HiloConNumero'
  BY <1>0, <1>01, <1>1, <1>3 DEF HiloConNumero
<1>6. ColaNueva'
  BY <1>0, <1>01, <1>1, <1>3 DEF ColaNueva
<1>7. SinConectar'
  BY <1>0, <1>01, <1>1, <1>3 DEF SinConectar
<1>8. HandshakePrimero'
  BY <1>0, <1>01, <1>1, <1>3 DEF HandshakePrimero
<1>9. CierraConMotivo'
  BY <1>0, <1>01, <1>1, <1>3 DEF CierraConMotivo
<1>10. ConInvLibre'
  BY <1>2, <1>4, <1>5, <1>6, <1>7, <1>8, <1>9 DEF ConInvLibre
<1>11. ASSUME calma PROVE ConInvCalma'
  <2>0. /\ UnoOcupado /\ SinCompartir /\ Conectado /\ SinHandshake
        /\ CierraSiSalio /\ AtendidoEnLista /\ ListaDeUno
    BY <1>0, <1>11 DEF ConInvCalma
  <2>1. UnoOcupado'
    BY <1>0, <1>01, <1>1, <1>3, <2>0 DEF UnoOcupado, Ocupados
  <2>2. SinCompartir'
    BY <1>0, <1>01, <1>1, <1>3, <2>0 DEF SinCompartir
  <2>3. Conectado'
    BY <1>0, <1>01, <1>1, <1>3, <2>0 DEF Conectado
  <2>4. SinHandshake'
    BY <1>0, <1>01, <1>1, <1>3, <2>0 DEF SinHandshake
  <2>5. CierraSiSalio'
    BY <1>0, <1>01, <1>1, <1>3, <2>0 DEF CierraSiSalio
  <2>6. AtendidoEnLista'
    BY <1>0, <1>01, <1>1, <1>3, <2>0 DEF AtendidoEnLista, Atendidos
  <2>7. ListaDeUno'
    BY <1>0, <1>01, <1>1, <1>3, <2>0 DEF ListaDeUno
  <2> QED
    BY <2>1, <2>2, <2>3, <2>4, <2>5, <2>6, <2>7 DEF ConInvCalma
<1> QED
  BY <1>1, <1>10, <1>11 DEF ConInv

LEMMA ArrancaConserva ==
  ASSUME ConInv, NEW m \in Modulos, Arranca(m)
  PROVE  ConInv'
<1>0. /\ ConInvLibre /\ ConTipo /\ (calma => ConInvCalma)
      /\ DuenioVivo /\ HiloConNumero /\ ColaNueva /\ SinConectar
      /\ HandshakePrimero /\ CierraConMotivo
  BY DEF ConInv, ConInvLibre
<1>01. /\ modulo \in [Modulos -> Etapas]
      /\ ida \in [Modulos -> Seq({"HANDSHAKE", "SOLICITUD"})]
      /\ vuelta \in [Modulos -> Seq(Modulos)]
      /\ tabla_fd \in [Fds -> Modulos \union {Ninguno}]
      /\ por_aceptar \in Seq(Modulos)
      /\ Lugar \in [Modulos -> Lugares]
      /\ Numero \in [Modulos -> {0} \union Fds]
      /\ Con \in [Modulos -> Modulos \union {Ninguno}]
      /\ Paquete \in [Modulos -> Operaciones]
      /\ Vista \in [Modulos -> Listas]
      /\ Ninguno \notin Modulos
  BY <1>0, CamposTipo DEF ConTipo
<1>1. /\ UNCHANGED <<calma, por_aceptar, ida, vuelta, tabla_fd, lista_sockets_conectados,
                   Lugar, Numero, Con, Paquete, Vista>>
      /\ modulo[m] = "apagado"
      /\ calma => Quieto
      /\ modulo' = [modulo EXCEPT ![m] = "conecta"]
  BY <1>0 DEF Arranca, Etapa, vServidor, Lugar, Numero, Con, Paquete, Vista, ConTipo
<1>2. ConTipo'
  BY <1>0, <1>1 DEF Arranca, ConTipo, Etapas, Etapa, vServidor
<1>3. /\ UNCHANGED <<Vivos, Suyos, Enlazan, Abiertas, Anotados, Repetidos>>
  BY <1>1, SoloModulo
<1>4. DuenioVivo'
  BY <1>0, <1>01, <1>1, <1>3 DEF DuenioVivo
<1>5. HiloConNumero'
  BY <1>0, <1>01, <1>1, <1>3 DEF HiloConNumero
<1>6. ColaNueva'
  BY <1>0, <1>01, <1>1, <1>3 DEF ColaNueva
<1>7. SinConectar'
  BY <1>0, <1>01, <1>1, <1>3 DEF SinConectar
<1>8. HandshakePrimero'
  BY <1>0, <1>01, <1>1, <1>3 DEF HandshakePrimero
<1>9. CierraConMotivo'
  BY <1>0, <1>01, <1>1, <1>3 DEF CierraConMotivo
<1>10. ConInvLibre'
  BY <1>2, <1>4, <1>5, <1>6, <1>7, <1>8, <1>9 DEF ConInvLibre
<1>11. ASSUME calma PROVE ConInvCalma'
  <2>0. /\ UnoOcupado /\ SinCompartir /\ Conectado /\ SinHandshake
        /\ CierraSiSalio /\ AtendidoEnLista /\ ListaDeUno
    BY <1>0, <1>11 DEF ConInvCalma
  <2>01. Ocupados = {}
    BY <1>0, <1>1, <1>11, QuietoDef
  <2>1. UnoOcupado'
    <3>1. Ocupados' \subseteq {m}
      BY <1>01, <1>1, <1>3, <2>01 DEF Ocupados
    <3> QED
      BY <3>1 DEF UnoOcupado
  <2>2. SinCompartir'
    BY <1>0, <1>01, <1>1, <1>3, <2>0 DEF SinCompartir
  <2>3. Conectado'
    BY <1>0, <1>01, <1>1, <1>3, <2>0 DEF Conectado
  <2>4. SinHandshake'
    BY <1>0, <1>01, <1>1, <1>3, <2>0 DEF SinHandshake
  <2>5. CierraSiSalio'
    BY <1>0, <1>01, <1>1, <1>3, <2>0 DEF CierraSiSalio
  <2>6. AtendidoEnLista'
    BY <1>0, <1>01, <1>1, <1>3, <2>0 DEF AtendidoEnLista, Atendidos
  <2>7. ListaDeUno'
    BY <1>0, <1>01, <1>1, <1>3, <2>0 DEF ListaDeUno
  <2> QED
    BY <2>1, <2>2, <2>3, <2>4, <2>5, <2>6, <2>7 DEF ConInvCalma
<1> QED
  BY <1>1, <1>10, <1>11 DEF ConInv

LEMMA CrearConexionConserva ==
  ASSUME ConInv, NEW m \in Modulos, CrearConexion(m)
  PROVE  ConInv'
<1>0. /\ ConInvLibre /\ ConTipo /\ (calma => ConInvCalma)
      /\ DuenioVivo /\ HiloConNumero /\ ColaNueva /\ SinConectar
      /\ HandshakePrimero /\ CierraConMotivo
  BY DEF ConInv, ConInvLibre
<1>01. /\ modulo \in [Modulos -> Etapas]
      /\ ida \in [Modulos -> Seq({"HANDSHAKE", "SOLICITUD"})]
      /\ vuelta \in [Modulos -> Seq(Modulos)]
      /\ tabla_fd \in [Fds -> Modulos \union {Ninguno}]
      /\ por_aceptar \in Seq(Modulos)
      /\ Lugar \in [Modulos -> Lugares]
      /\ Numero \in [Modulos -> {0} \union Fds]
      /\ Con \in [Modulos -> Modulos \union {Ninguno}]
      /\ Paquete \in [Modulos -> Operaciones]
      /\ Vista \in [Modulos -> Listas]
      /\ Ninguno \notin Modulos
  BY <1>0, CamposTipo DEF ConTipo
<1>1. /\ UNCHANGED <<calma, vuelta, tabla_fd, lista_sockets_conectados, Lugar, Numero,
                   Con, Paquete, Vista>>
      /\ modulo[m] = "conecta"
      /\ modulo' = [modulo EXCEPT ![m] = "handshake"]
      /\ por_aceptar' = Append(por_aceptar, m)
      /\ ida' = [ida EXCEPT ![m] = Append(@, "HANDSHAKE")]
  BY <1>0 DEF CrearConexion, Etapa, vServidor, Lugar, Numero, Con, Paquete, Vista, ConTipo
<1>2. ConTipo'
  BY <1>0, <1>1 DEF CrearConexion, ConTipo, Etapas, Etapa, vServidor
<1>3. /\ UNCHANGED <<Vivos, Suyos, Enlazan, Anotados, Repetidos>>
      /\ Abiertas' \subseteq Abiertas \union {m}
  <2>1. /\ UNCHANGED <<Vivos, Suyos, Enlazan, Anotados, Repetidos>>
    BY <1>1 DEF Vivos, Suyos, Enlazan, Anotados, Repetidos
  <2>2. \A x : Hay(por_aceptar', x) <=> Hay(por_aceptar, x) \/ x = m
    BY <1>01, <1>1, HayAppend
  <2>3. Abiertas' \subseteq Abiertas \union {m}
    BY <1>1, <2>2 DEF Abiertas
  <2> QED
    BY <2>1, <2>3
<1>31. /\ ida[m] = <<>> /\ vuelta[m] = <<>> /\ Lugar[m] = "no"
       /\ ~Hay(por_aceptar, m)
  BY <1>0, <1>1 DEF SinConectar
<1>32. /\ \A x : Hay(por_aceptar', x) <=> (Hay(por_aceptar, x) \/ x = m)
       /\ Distintos(por_aceptar')
  BY <1>0, <1>01, <1>1, <1>31, HayAppend, DistintosHechos DEF ColaNueva
<1>33. /\ \A x \in Modulos : x # m => ida'[x] = ida[x]
       /\ \A op : Hay(ida'[m], op) <=> op = "HANDSHAKE"
       /\ AlPrincipio(ida'[m]) /\ ida'[m] # <<>>
  <2>1. ida'[m] = Append(<<>>, "HANDSHAKE")
    BY <1>01, <1>1, <1>31
  <2>2. <<>> \in Seq({"HANDSHAKE"})
    OBVIOUS
  <2> QED
    BY <1>01, <1>1, <2>1, <2>2, HayAppend, HayVacia, AlPrincipioUno
<1>34. m \notin Vivos /\ m \notin Suyos
  BY <1>31 DEF Vivos, Suyos
<1>4. DuenioVivo'
  BY <1>0, <1>01, <1>1, <1>3 DEF DuenioVivo
<1>5. HiloConNumero'
  BY <1>0, <1>01, <1>1, <1>3 DEF HiloConNumero
<1>6. ColaNueva'
  BY <1>0, <1>01, <1>1, <1>3, <1>31, <1>32, <1>33, <1>34 DEF ColaNueva
<1>7. SinConectar'
  BY <1>0, <1>01, <1>1, <1>3, <1>31, <1>32, <1>33, <1>34 DEF SinConectar
<1>8. HandshakePrimero'
  BY <1>0, <1>01, <1>1, <1>3, <1>31, <1>32, <1>33, <1>34 DEF HandshakePrimero
<1>9. CierraConMotivo'
  BY <1>0, <1>01, <1>1, <1>3, <1>31, <1>32, <1>33, <1>34 DEF CierraConMotivo
<1>10. ConInvLibre'
  BY <1>2, <1>4, <1>5, <1>6, <1>7, <1>8, <1>9 DEF ConInvLibre
<1>11. ASSUME calma PROVE ConInvCalma'
  <2>0. /\ UnoOcupado /\ SinCompartir /\ Conectado /\ SinHandshake
        /\ CierraSiSalio /\ AtendidoEnLista /\ ListaDeUno
    BY <1>0, <1>11 DEF ConInvCalma
  <2>1. UnoOcupado'
    BY <1>0, <1>01, <1>1, <1>3, <2>0 DEF UnoOcupado, Ocupados
  <2>2. SinCompartir'
    BY <1>0, <1>01, <1>1, <1>3, <2>0 DEF SinCompartir
  <2>3. Conectado'
    BY <1>0, <1>01, <1>1, <1>3, <1>31, <1>32, <1>33, <1>34, <2>0
       DEF Conectado
  <2>4. SinHandshake'
    BY <1>0, <1>01, <1>1, <1>3, <1>31, <1>32, <1>33, <1>34, <2>0
       DEF SinHandshake
  <2>5. CierraSiSalio'
    BY <1>0, <1>01, <1>1, <1>3, <2>0 DEF CierraSiSalio
  <2>6. AtendidoEnLista'
    BY <1>0, <1>01, <1>1, <1>3, <1>31, <1>32, <1>33, <1>34, <2>0
       DEF AtendidoEnLista, Atendidos
  <2>7. ListaDeUno'
    BY <1>0, <1>01, <1>1, <1>3, <2>0 DEF ListaDeUno
  <2> QED
    BY <2>1, <2>2, <2>3, <2>4, <2>5, <2>6, <2>7 DEF ConInvCalma
<1> QED
  BY <1>1, <1>10, <1>11 DEF ConInv

LEMMA SolicitaConserva ==
  ASSUME ConInv, NEW m \in Modulos, Solicita(m)
  PROVE  ConInv'
<1>0. /\ ConInvLibre /\ ConTipo /\ (calma => ConInvCalma)
      /\ DuenioVivo /\ HiloConNumero /\ ColaNueva /\ SinConectar
      /\ HandshakePrimero /\ CierraConMotivo
  BY DEF ConInv, ConInvLibre
<1>01. /\ modulo \in [Modulos -> Etapas]
      /\ ida \in [Modulos -> Seq({"HANDSHAKE", "SOLICITUD"})]
      /\ vuelta \in [Modulos -> Seq(Modulos)]
      /\ tabla_fd \in [Fds -> Modulos \union {Ninguno}]
      /\ por_aceptar \in Seq(Modulos)
      /\ Lugar \in [Modulos -> Lugares]
      /\ Numero \in [Modulos -> {0} \union Fds]
      /\ Con \in [Modulos -> Modulos \union {Ninguno}]
      /\ Paquete \in [Modulos -> Operaciones]
      /\ Vista \in [Modulos -> Listas]
      /\ Ninguno \notin Modulos
  BY <1>0, CamposTipo DEF ConTipo
<1>1. /\ UNCHANGED <<calma, por_aceptar, vuelta, tabla_fd, lista_sockets_conectados,
                   Lugar, Numero, Con, Paquete, Vista>>
      /\ modulo[m] = "listo"
      /\ modulo' = [modulo EXCEPT ![m] = "solicita"]
      /\ ida' = [ida EXCEPT ![m] = Append(@, "SOLICITUD")]
  BY <1>0 DEF Solicita, Etapa, vServidor, Lugar, Numero, Con, Paquete, Vista, ConTipo
<1>2. ConTipo'
  <2>1. accesos' \in [Modulos -> 0..MaxAccesos]
    BY <1>0, ConexionesAssumption DEF Solicita, ConTipo
  <2>2. ida' \in [Modulos -> Seq({"HANDSHAKE", "SOLICITUD"})]
    BY <1>01, <1>1, HayAppend
  <2>3. modulo' \in [Modulos -> Etapas]
    BY <1>01, <1>1 DEF Etapas
  <2> QED
    BY <1>0, <1>1, <2>1, <2>2, <2>3 DEF Solicita, ConTipo, vServidor
<1>3. /\ UNCHANGED <<Vivos, Suyos, Enlazan, Abiertas, Anotados, Repetidos>>
  BY <1>1, SoloModulo
<1>31. /\ \A x \in Modulos : x # m => ida'[x] = ida[x]
       /\ \A op : Hay(ida'[m], op) <=> (Hay(ida[m], op) \/ op = "SOLICITUD")
       /\ AlPrincipio(ida'[m]) /\ ida'[m] # <<>>
  <2>1. ida'[m] = Append(ida[m], "SOLICITUD") /\ AlPrincipio(ida[m])
    BY <1>0, <1>01, <1>1 DEF HandshakePrimero
  <2> QED
    <3>1. \A x \in Modulos : x # m => ida'[x] = ida[x]
      BY <1>01, <1>1
    <3>2. ida[m] \in Seq({"HANDSHAKE", "SOLICITUD"})
      BY <1>01
    <3>3. AlPrincipio(ida'[m])
      BY <2>1, <3>2, AlPrincipioHechos
    <3> QED
      BY <2>1, <3>1, <3>2, <3>3, HayAppend
<1>32. ~Hay(por_aceptar, m)
  BY <1>0, <1>1 DEF ColaNueva
<1>4. DuenioVivo'
  BY <1>0, <1>01, <1>1, <1>3 DEF DuenioVivo
<1>5. HiloConNumero'
  BY <1>0, <1>01, <1>1, <1>3 DEF HiloConNumero
<1>6. ColaNueva'
  BY <1>0, <1>01, <1>1, <1>31, <1>32 DEF ColaNueva
<1>7. SinConectar'
  BY <1>0, <1>01, <1>1, <1>3 DEF SinConectar
<1>8. HandshakePrimero'
  BY <1>0, <1>01, <1>1, <1>31 DEF HandshakePrimero
<1>9. CierraConMotivo'
  BY <1>0, <1>01, <1>1, <1>3 DEF CierraConMotivo
<1>10. ConInvLibre'
  BY <1>2, <1>4, <1>5, <1>6, <1>7, <1>8, <1>9 DEF ConInvLibre
<1>11. ASSUME calma PROVE ConInvCalma'
  <2>0. /\ UnoOcupado /\ SinCompartir /\ Conectado /\ SinHandshake
        /\ CierraSiSalio /\ AtendidoEnLista /\ ListaDeUno
    BY <1>0, <1>11 DEF ConInvCalma
  <2>1. UnoOcupado'
    BY <1>0, <1>01, <1>1, <1>3, <2>0 DEF UnoOcupado, Ocupados
  <2>2. SinCompartir'
    BY <1>0, <1>01, <1>1, <1>3, <2>0 DEF SinCompartir
  <2>3. Conectado'
    BY <1>0, <1>01, <1>1, <1>3, <2>0 DEF Conectado
  <2>4. SinHandshake'
    BY <1>0, <1>01, <1>1, <1>31, <2>0 DEF SinHandshake
  <2>5. CierraSiSalio'
    BY <1>0, <1>01, <1>1, <1>3, <2>0 DEF CierraSiSalio
  <2>6. AtendidoEnLista'
    BY <1>0, <1>01, <1>1, <1>3, <1>31, <2>0 DEF AtendidoEnLista, Atendidos
  <2>7. ListaDeUno'
    BY <1>0, <1>01, <1>1, <1>3, <2>0 DEF ListaDeUno
  <2> QED
    BY <2>1, <2>2, <2>3, <2>4, <2>5, <2>6, <2>7 DEF ConInvCalma
<1> QED
  BY <1>1, <1>10, <1>11 DEF ConInv

LEMMA RecibeRespuestaConserva ==
  ASSUME ConInv, NEW m \in Modulos, RecibeRespuesta(m)
  PROVE  ConInv'
<1>0. /\ ConInvLibre /\ ConTipo /\ (calma => ConInvCalma)
      /\ DuenioVivo /\ HiloConNumero /\ ColaNueva /\ SinConectar
      /\ HandshakePrimero /\ CierraConMotivo
  BY DEF ConInv, ConInvLibre
<1>01. /\ modulo \in [Modulos -> Etapas]
      /\ ida \in [Modulos -> Seq({"HANDSHAKE", "SOLICITUD"})]
      /\ vuelta \in [Modulos -> Seq(Modulos)]
      /\ tabla_fd \in [Fds -> Modulos \union {Ninguno}]
      /\ por_aceptar \in Seq(Modulos)
      /\ Lugar \in [Modulos -> Lugares]
      /\ Numero \in [Modulos -> {0} \union Fds]
      /\ Con \in [Modulos -> Modulos \union {Ninguno}]
      /\ Paquete \in [Modulos -> Operaciones]
      /\ Vista \in [Modulos -> Listas]
      /\ Ninguno \notin Modulos
  BY <1>0, CamposTipo DEF ConTipo
<1>1. /\ UNCHANGED <<calma, por_aceptar, ida, tabla_fd, lista_sockets_conectados, Lugar,
                   Numero, Con, Paquete, Vista>>
      /\ modulo[m] \in {"handshake", "solicita"}
      /\ vuelta[m] # <<>>
      /\ modulo' = [modulo EXCEPT ![m] = "listo"]
      /\ vuelta' = [vuelta EXCEPT ![m] = Tail(@)]
  BY <1>0 DEF RecibeRespuesta, Etapa, vServidor, Lugar, Numero, Con, Paquete, Vista, ConTipo
<1>2. ConTipo'
  BY <1>0, <1>1 DEF RecibeRespuesta, ConTipo, Etapas, Etapa, vServidor
<1>3. /\ UNCHANGED <<Vivos, Suyos, Enlazan, Abiertas, Anotados, Repetidos>>
  BY <1>1, SoloModulo
<1>4. DuenioVivo'
  BY <1>0, <1>01, <1>1, <1>3 DEF DuenioVivo
<1>5. HiloConNumero'
  BY <1>0, <1>01, <1>1, <1>3 DEF HiloConNumero
<1>6. ColaNueva'
  BY <1>0, <1>01, <1>1, <1>3 DEF ColaNueva
<1>7. SinConectar'
  BY <1>0, <1>01, <1>1, <1>3 DEF SinConectar
<1>8. HandshakePrimero'
  BY <1>0, <1>01, <1>1, <1>3 DEF HandshakePrimero
<1>9. CierraConMotivo'
  BY <1>0, <1>01, <1>1, <1>3 DEF CierraConMotivo
<1>10. ConInvLibre'
  BY <1>2, <1>4, <1>5, <1>6, <1>7, <1>8, <1>9 DEF ConInvLibre
<1>11. ASSUME calma PROVE ConInvCalma'
  <2>0. /\ UnoOcupado /\ SinCompartir /\ Conectado /\ SinHandshake
        /\ CierraSiSalio /\ AtendidoEnLista /\ ListaDeUno
    BY <1>0, <1>11 DEF ConInvCalma
  <2>1. UnoOcupado'
    BY <1>0, <1>01, <1>1, <1>3, <2>0 DEF UnoOcupado, Ocupados
  <2>2. SinCompartir'
    BY <1>0, <1>01, <1>1, <1>3, <2>0 DEF SinCompartir
  <2>3. Conectado'
    BY <1>0, <1>01, <1>1, <1>3, <2>0 DEF Conectado
  <2>4. SinHandshake'
    BY <1>0, <1>01, <1>1, <1>3, <2>0 DEF SinHandshake
  <2>5. CierraSiSalio'
    BY <1>0, <1>01, <1>1, <1>3, <2>0 DEF CierraSiSalio
  <2>6. AtendidoEnLista'
    BY <1>0, <1>01, <1>1, <1>3, <2>0 DEF AtendidoEnLista, Atendidos
  <2>7. ListaDeUno'
    BY <1>0, <1>01, <1>1, <1>3, <2>0 DEF ListaDeUno
  <2> QED
    BY <2>1, <2>2, <2>3, <2>4, <2>5, <2>6, <2>7 DEF ConInvCalma
<1> QED
  BY <1>1, <1>10, <1>11 DEF ConInv

LEMMA RecibeCorteConserva ==
  ASSUME ConInv, NEW m \in Modulos, RecibeCorte(m)
  PROVE  ConInv'
<1>0. /\ ConInvLibre /\ ConTipo /\ (calma => ConInvCalma)
      /\ DuenioVivo /\ HiloConNumero /\ ColaNueva /\ SinConectar
      /\ HandshakePrimero /\ CierraConMotivo
  BY DEF ConInv, ConInvLibre
<1>01. /\ modulo \in [Modulos -> Etapas]
      /\ ida \in [Modulos -> Seq({"HANDSHAKE", "SOLICITUD"})]
      /\ vuelta \in [Modulos -> Seq(Modulos)]
      /\ tabla_fd \in [Fds -> Modulos \union {Ninguno}]
      /\ por_aceptar \in Seq(Modulos)
      /\ Lugar \in [Modulos -> Lugares]
      /\ Numero \in [Modulos -> {0} \union Fds]
      /\ Con \in [Modulos -> Modulos \union {Ninguno}]
      /\ Paquete \in [Modulos -> Operaciones]
      /\ Vista \in [Modulos -> Listas]
      /\ Ninguno \notin Modulos
  BY <1>0, CamposTipo DEF ConTipo
<1>1. /\ UNCHANGED <<calma, por_aceptar, ida, vuelta, tabla_fd, lista_sockets_conectados,
                   Lugar, Numero, Con, Paquete, Vista>>
      /\ modulo[m] \in {"handshake", "solicita"}
      /\ ~Abierta(m)
      /\ modulo' = [modulo EXCEPT ![m] = "cortado"]
  BY <1>0 DEF RecibeCorte, Etapa, vServidor, Lugar, Numero, Con, Paquete, Vista, ConTipo
<1>2. ConTipo'
  BY <1>0, <1>1 DEF RecibeCorte, ConTipo, Etapas, Etapa, vServidor
<1>3. /\ UNCHANGED <<Vivos, Suyos, Enlazan, Abiertas, Anotados, Repetidos>>
  BY <1>1, SoloModulo
<1>31. m \notin Abiertas /\ ~Hay(por_aceptar, m) /\ m \notin Suyos
  <2>1. m \notin Abiertas
    BY <1>1, AbiertasDef
  <2>2. m \in Suyos => \E f \in Fds : tabla_fd[f] = m
    BY <1>0 DEF Suyos, Vivos, HiloConNumero
  <2> QED
    BY <2>1, <2>2 DEF Abiertas
<1>4. DuenioVivo'
  BY <1>0, <1>01, <1>1, <1>3 DEF DuenioVivo
<1>5. HiloConNumero'
  BY <1>0, <1>01, <1>1, <1>3 DEF HiloConNumero
<1>6. ColaNueva'
  BY <1>0, <1>01, <1>1, <1>31 DEF ColaNueva
<1>7. SinConectar'
  BY <1>0, <1>01, <1>1, <1>3 DEF SinConectar
<1>8. HandshakePrimero'
  BY <1>0, <1>01, <1>1, <1>3 DEF HandshakePrimero
<1>9. CierraConMotivo'
  BY <1>0, <1>01, <1>1, <1>3 DEF CierraConMotivo
<1>10. ConInvLibre'
  BY <1>2, <1>4, <1>5, <1>6, <1>7, <1>8, <1>9 DEF ConInvLibre
<1>11. ASSUME calma PROVE ConInvCalma'
  <2>0. /\ UnoOcupado /\ SinCompartir /\ Conectado /\ SinHandshake
        /\ CierraSiSalio /\ AtendidoEnLista /\ ListaDeUno
    BY <1>0, <1>11 DEF ConInvCalma
  <2>1. UnoOcupado'
    BY <1>0, <1>01, <1>1, <1>3, <2>0 DEF UnoOcupado, Ocupados
  <2>2. SinCompartir'
    BY <1>0, <1>01, <1>1, <1>3, <2>0 DEF SinCompartir
  <2>3. Conectado'
    BY <1>1, <1>31, <2>0 DEF Conectado
  <2>4. SinHandshake'
    BY <1>1, <1>31, <2>0 DEF Conectado
  <2>5. CierraSiSalio'
    BY <1>0, <1>01, <1>1, <1>3, <2>0 DEF CierraSiSalio
  <2>6. AtendidoEnLista'
    BY <1>0, <1>01, <1>1, <1>3, <2>0 DEF AtendidoEnLista, Atendidos
  <2>7. ListaDeUno'
    BY <1>0, <1>01, <1>1, <1>3, <2>0 DEF ListaDeUno
  <2> QED
    BY <2>1, <2>2, <2>3, <2>4, <2>5, <2>6, <2>7 DEF ConInvCalma
<1> QED
  BY <1>1, <1>10, <1>11 DEF ConInv

LEMMA TerminaModuloConserva ==
  ASSUME ConInv, NEW m \in Modulos, TerminaModulo(m)
  PROVE  ConInv'
<1>0. /\ ConInvLibre /\ ConTipo /\ (calma => ConInvCalma)
      /\ DuenioVivo /\ HiloConNumero /\ ColaNueva /\ SinConectar
      /\ HandshakePrimero /\ CierraConMotivo
  BY DEF ConInv, ConInvLibre
<1>01. /\ modulo \in [Modulos -> Etapas]
      /\ ida \in [Modulos -> Seq({"HANDSHAKE", "SOLICITUD"})]
      /\ vuelta \in [Modulos -> Seq(Modulos)]
      /\ tabla_fd \in [Fds -> Modulos \union {Ninguno}]
      /\ por_aceptar \in Seq(Modulos)
      /\ Lugar \in [Modulos -> Lugares]
      /\ Numero \in [Modulos -> {0} \union Fds]
      /\ Con \in [Modulos -> Modulos \union {Ninguno}]
      /\ Paquete \in [Modulos -> Operaciones]
      /\ Vista \in [Modulos -> Listas]
      /\ Ninguno \notin Modulos
  BY <1>0, CamposTipo DEF ConTipo
<1>1. /\ UNCHANGED <<calma, por_aceptar, tabla_fd, lista_sockets_conectados, Lugar,
                   Numero, Con, Paquete, Vista>>
      /\ modulo[m] \notin {"apagado", "salio"}
      /\ calma => Quieto
      /\ modulo' = [modulo EXCEPT ![m] = "salio"]
      /\ ida' = ida \/ ida' = [ida EXCEPT ![m] = <<>>]
      /\ vuelta' = [vuelta EXCEPT ![m] = <<>>]
  BY <1>0 DEF TerminaModulo, Etapa, vServidor, Lugar, Numero, Con, Paquete, Vista, ConTipo
<1>2. ConTipo'
  <2>1. <<>> \in Seq({"HANDSHAKE", "SOLICITUD"}) /\ <<>> \in Seq(Modulos)
    OBVIOUS
  <2>2. /\ ida' \in [Modulos -> Seq({"HANDSHAKE", "SOLICITUD"})]
        /\ vuelta' \in [Modulos -> Seq(Modulos)]
        /\ modulo' \in [Modulos -> Etapas]
    <3>1. /\ vuelta' \in [Modulos -> Seq(Modulos)]
          /\ modulo' \in [Modulos -> Etapas]
      BY <1>01, <1>1, <2>1 DEF Etapas
    <3>2. CASE ida' = ida
      BY <1>01, <3>1, <3>2
    <3>3. CASE ida' = [ida EXCEPT ![m] = <<>>]
      BY <1>01, <2>1, <3>1, <3>3
    <3> QED
      BY <1>1, <3>1, <3>2, <3>3
  <2> QED
    BY <1>0, <1>1, <2>2 DEF TerminaModulo, ConTipo, vServidor
<1>3. /\ UNCHANGED <<Vivos, Suyos, Enlazan, Abiertas, Anotados, Repetidos>>
  BY <1>1, SoloModulo
<1>31. /\ modulo'[m] = "salio" /\ vuelta'[m] = <<>>
       /\ \A x \in Modulos : x # m =>
              modulo'[x] = modulo[x] /\ vuelta'[x] = vuelta[x] /\ ida'[x] = ida[x]
       /\ ida'[m] = ida[m] \/ ida'[m] = <<>>
  BY <1>01, <1>1
<1>32. \A x \in Modulos :
         /\ \A op : Hay(ida'[x], op) => Hay(ida[x], op)
         /\ AlPrincipio(ida[x]) => AlPrincipio(ida'[x])
  BY <1>31, HayVacia
<1>33. modulo[m] = "handshake" => ~Hay(ida[m], "SOLICITUD")
  BY <1>0 DEF HandshakePrimero
<1>4. DuenioVivo'
  BY <1>0, <1>01, <1>1, <1>3 DEF DuenioVivo
<1>5. HiloConNumero'
  BY <1>0, <1>01, <1>1, <1>3 DEF HiloConNumero
<1>6. ColaNueva'
  BY <1>0, <1>1, <1>31, <1>32 DEF ColaNueva
<1>7. SinConectar'
  BY <1>0, <1>1, <1>31, <1>32 DEF SinConectar
<1>8. HandshakePrimero'
  BY <1>0, <1>1, <1>31, <1>32 DEF HandshakePrimero
<1>9. CierraConMotivo'
  BY <1>0, <1>01, <1>1, <1>3 DEF CierraConMotivo
<1>10. ConInvLibre'
  BY <1>2, <1>4, <1>5, <1>6, <1>7, <1>8, <1>9 DEF ConInvLibre
<1>11. ASSUME calma PROVE ConInvCalma'
  <2>0. /\ UnoOcupado /\ SinCompartir /\ Conectado /\ SinHandshake
        /\ CierraSiSalio /\ AtendidoEnLista /\ ListaDeUno
    BY <1>0, <1>11 DEF ConInvCalma
  <2>01. Ocupados = {}
    BY <1>0, <1>1, <1>11, QuietoDef
  <2>1. UnoOcupado'
    <3>1. Ocupados' \subseteq {m}
      BY <1>01, <1>3, <1>31, <2>01 DEF Ocupados
    <3> QED
      BY <3>1 DEF UnoOcupado
  <2>2. SinCompartir'
    BY <1>0, <1>01, <1>1, <1>3, <2>0 DEF SinCompartir
  <2>3. Conectado'
    BY <1>0, <1>01, <1>1, <1>3, <2>0 DEF Conectado
  <2>4. SinHandshake'
    BY <1>1, <1>3, <1>31, <1>32, <2>0 DEF SinHandshake
  <2>5. CierraSiSalio'
    BY <1>0, <1>01, <1>1, <1>3, <2>0 DEF CierraSiSalio
  <2>6. AtendidoEnLista'
    BY <1>1, <1>3, <1>31, <1>32, <2>0 DEF AtendidoEnLista, Atendidos
  <2>7. ListaDeUno'
    BY <1>0, <1>01, <1>1, <1>3, <2>0 DEF ListaDeUno
  <2> QED
    BY <2>1, <2>2, <2>3, <2>4, <2>5, <2>6, <2>7 DEF ConInvCalma
<1> QED
  BY <1>1, <1>10, <1>11 DEF ConInv

LEMMA LlamaRecvConserva ==
  ASSUME ConInv, NEW t \in Modulos, LlamaRecv(t)
  PROVE  ConInv'
<1>0. /\ ConInvLibre /\ ConTipo /\ (calma => ConInvCalma)
      /\ DuenioVivo /\ HiloConNumero /\ ColaNueva /\ SinConectar
      /\ HandshakePrimero /\ CierraConMotivo
  BY DEF ConInv, ConInvLibre
<1>01. /\ modulo \in [Modulos -> Etapas]
      /\ ida \in [Modulos -> Seq({"HANDSHAKE", "SOLICITUD"})]
      /\ vuelta \in [Modulos -> Seq(Modulos)]
      /\ tabla_fd \in [Fds -> Modulos \union {Ninguno}]
      /\ por_aceptar \in Seq(Modulos)
      /\ Lugar \in [Modulos -> Lugares]
      /\ Numero \in [Modulos -> {0} \union Fds]
      /\ Con \in [Modulos -> Modulos \union {Ninguno}]
      /\ Paquete \in [Modulos -> Operaciones]
      /\ Vista \in [Modulos -> Listas]
      /\ Ninguno \notin Modulos
  BY <1>0, CamposTipo DEF ConTipo
<1>02. Lugar[t] = "recibe" /\ Numero[t] \in Fds /\ t \in Vivos
  BY <1>0, Campos DEF LlamaRecv, HiloConNumero, Vivos
<1>1. /\ UNCHANGED <<calma, por_aceptar, modulo, ida, vuelta, tabla_fd,
                   lista_sockets_conectados, Numero, Paquete, Vista>>
      /\ Lugar[t] = "recibe"
      /\ Con' = [Con EXCEPT ![t] = tabla_fd[Numero[t]]]
      /\ Lugar' = [Lugar EXCEPT ![t] =
                      IF tabla_fd[Numero[t]] = Ninguno THEN "close" ELSE "recv"]
      /\ atencion' \in [Modulos -> Hilos]
  <2> DEFINE con == tabla_fd[atencion[t].fd]
             l == IF con = Ninguno THEN "close" ELSE "recv"
             h == [atencion[t] EXCEPT !.lugar = l, !.con = con]
  <2>1. atencion[t].lugar = "recibe" /\ atencion[t].fd \in Fds
    BY <1>02, Campos
  <2>2. /\ h \in Hilos /\ h.lugar = l /\ h.con = con /\ h.fd = atencion[t].fd
        /\ h.paquete = atencion[t].paquete /\ h.vista = atencion[t].vista
    BY <1>0, <2>1 DEF ConTipo, Hilos, Lugares
  <2>3. atencion' = [atencion EXCEPT ![t] = h]
    BY DEF LlamaRecv
  <2> HIDE DEF h
  <2>4. /\ Lugar' = [Lugar EXCEPT ![t] = h.lugar]
        /\ Numero' = [Numero EXCEPT ![t] = h.fd]
        /\ Con' = [Con EXCEPT ![t] = h.con]
        /\ Paquete' = [Paquete EXCEPT ![t] = h.paquete]
        /\ Vista' = [Vista EXCEPT ![t] = h.vista]
        /\ atencion' \in [Modulos -> Hilos]
    BY <1>0, <2>2, <2>3, CambiaHilo
  <2>5. /\ UNCHANGED <<calma, por_aceptar, modulo, ida, vuelta, tabla_fd,
                       lista_sockets_conectados>>
    BY DEF LlamaRecv, vModulos
  <2> QED
    <3>1. /\ h.lugar = IF tabla_fd[Numero[t]] = Ninguno THEN "close" ELSE "recv"
          /\ h.con = tabla_fd[Numero[t]] /\ h.fd = Numero[t]
          /\ h.paquete = Paquete[t] /\ h.vista = Vista[t]
      BY <2>2, Campos
    <3>2. UNCHANGED <<Numero, Paquete, Vista>>
      BY <1>01, <2>4, <3>1
    <3> QED
      BY <1>02, <2>4, <2>5, <3>1, <3>2
<1>2. ConTipo'
  BY <1>0, <1>1 DEF LlamaRecv, ConTipo, vModulos
<1>3. /\ UNCHANGED <<Vivos, Suyos, Enlazan, Anotados, Repetidos>>
      /\ Abiertas' \subseteq Abiertas
  <2>1. UNCHANGED <<Vivos, Enlazan>>
    BY <1>01, <1>02, <1>1 DEF Vivos, Enlazan
  <2>2. Abiertas' \subseteq Abiertas
    BY <1>01, <1>02, <1>1 DEF Abiertas
  <2> QED
    BY <1>1, <2>1, <2>2, MismosHilos, MismosHilosLista
<1>31. \/ /\ t \notin Suyos /\ Con'[t] = Ninguno /\ Lugar'[t] = "close"
       \/ /\ tabla_fd[Numero[t]] \in Modulos /\ Con'[t] = tabla_fd[Numero[t]]
          /\ Lugar'[t] = "recv"
  BY <1>01, <1>02, <1>1 DEF Suyos, Vivos
<1>32. \A x \in Modulos : x # t => Lugar'[x] = Lugar[x] /\ Con'[x] = Con[x]
  BY <1>01, <1>1
<1>4. DuenioVivo'
  BY <1>0, <1>01, <1>1, <1>3 DEF DuenioVivo
<1>5. HiloConNumero'
  BY <1>0, <1>01, <1>02, <1>1, <1>31, <1>32 DEF HiloConNumero
<1>6. ColaNueva'
  BY <1>0, <1>01, <1>1, <1>3 DEF ColaNueva
<1>7. SinConectar'
  BY <1>0, <1>01, <1>1, <1>3 DEF SinConectar
<1>8. HandshakePrimero'
  BY <1>0, <1>01, <1>1, <1>3 DEF HandshakePrimero
<1>9. CierraConMotivo'
  BY <1>0, <1>02, <1>1, <1>3, <1>31, <1>32
     DEF CierraConMotivo, Suyos, Vivos
<1>10. ConInvLibre'
  BY <1>2, <1>4, <1>5, <1>6, <1>7, <1>8, <1>9 DEF ConInvLibre
<1>11. ASSUME calma PROVE ConInvCalma'
  <2>0. /\ UnoOcupado /\ SinCompartir /\ Conectado /\ SinHandshake
        /\ CierraSiSalio /\ AtendidoEnLista /\ ListaDeUno
    BY <1>0, <1>11 DEF ConInvCalma
  <2>01. Lugar'[t] = "close" => modulo[t] = "salio"
    BY <1>01, <1>02, <1>31, <2>0 DEF Conectado
  <2>02. Lugar'[t] = "recv" => Con'[t] = t
    BY <1>0, <1>02, <1>31, <2>0 DEF DuenioVivo, SinCompartir
  <2>1. UnoOcupado'
    BY <1>0, <1>01, <1>1, <1>3, <2>0 DEF UnoOcupado, Ocupados
  <2>2. SinCompartir'
    BY <1>0, <1>01, <1>1, <1>3, <2>0 DEF SinCompartir
  <2>3. Conectado'
    BY <1>0, <1>01, <1>1, <1>3, <2>0 DEF Conectado
  <2>4. SinHandshake'
    BY <1>0, <1>01, <1>1, <1>3, <2>0 DEF SinHandshake
  <2>5. CierraSiSalio'
    BY <1>1, <1>31, <1>32, <2>0, <2>01, <2>02 DEF CierraSiSalio
  <2>6. AtendidoEnLista'
    BY <1>0, <1>01, <1>1, <1>3, <2>0 DEF AtendidoEnLista, Atendidos
  <2>7. ListaDeUno'
    BY <1>0, <1>01, <1>1, <1>3, <2>0 DEF ListaDeUno
  <2> QED
    BY <2>1, <2>2, <2>3, <2>4, <2>5, <2>6, <2>7 DEF ConInvCalma
<1> QED
  BY <1>1, <1>10, <1>11 DEF ConInv

LEMMA RecibeConserva ==
  ASSUME ConInv, NEW t \in Modulos, Recibe(t)
  PROVE  ConInv'
<1>0. /\ ConInvLibre /\ ConTipo /\ (calma => ConInvCalma)
      /\ DuenioVivo /\ HiloConNumero /\ ColaNueva /\ SinConectar
      /\ HandshakePrimero /\ CierraConMotivo
  BY DEF ConInv, ConInvLibre
<1>01. /\ modulo \in [Modulos -> Etapas]
      /\ ida \in [Modulos -> Seq({"HANDSHAKE", "SOLICITUD"})]
      /\ vuelta \in [Modulos -> Seq(Modulos)]
      /\ tabla_fd \in [Fds -> Modulos \union {Ninguno}]
      /\ por_aceptar \in Seq(Modulos)
      /\ Lugar \in [Modulos -> Lugares]
      /\ Numero \in [Modulos -> {0} \union Fds]
      /\ Con \in [Modulos -> Modulos \union {Ninguno}]
      /\ Paquete \in [Modulos -> Operaciones]
      /\ Vista \in [Modulos -> Listas]
      /\ Ninguno \notin Modulos
  BY <1>0, CamposTipo DEF ConTipo
<1>02. Lugar[t] = "recv" /\ Con[t] \in Modulos /\ t \in Vivos
  BY <1>0, <1>01, Campos DEF Recibe, HiloConNumero, Vivos
<1>1. /\ UNCHANGED <<calma, por_aceptar, modulo, vuelta, tabla_fd,
                   lista_sockets_conectados, Numero, Vista>>
      /\ Lugar[t] = "recv"
      /\ Con' = [Con EXCEPT ![t] = Ninguno]
      /\ \/ /\ ida[Con[t]] # <<>>
            /\ ida' = [ida EXCEPT ![Con[t]] = Tail(@)]
            /\ Lugar' = [Lugar EXCEPT ![t] = "valida"]
            /\ Paquete' = [Paquete EXCEPT ![t] = Head(ida[Con[t]])]
         \/ /\ modulo[Con[t]] \in {"salio", "cortado"}
            /\ UNCHANGED <<ida, Paquete>>
            /\ Lugar' = [Lugar EXCEPT ![t] = "close"]
      /\ atencion' \in [Modulos -> Hilos]
  <2> DEFINE con == Con[t]
  <2>0. con = atencion[t].con
    BY Campos
  <2>1. UNCHANGED <<calma, por_aceptar, modulo, vuelta, tabla_fd,
                    lista_sockets_conectados>>
    BY DEF Recibe, vModulos
  <2>2. CASE /\ ida[con] # <<>>
             /\ ida' = [ida EXCEPT ![con] = Tail(@)]
             /\ atencion' = [atencion EXCEPT ![t].lugar = "valida",
                    ![t].con = Ninguno, ![t].paquete = Head(ida[con])]
    <3> DEFINE h == [atencion[t] EXCEPT !.lugar = "valida", !.con = Ninguno,
                                        !.paquete = Head(ida[con])]
    <3>0. Head(ida[con]) \in {"HANDSHAKE", "SOLICITUD"}
      BY <1>01, <1>02, <2>2
    <3>1. /\ h \in Hilos /\ h.lugar = "valida" /\ h.fd = atencion[t].fd
          /\ h.con = Ninguno /\ h.paquete = Head(ida[con])
          /\ h.vista = atencion[t].vista
      BY <1>0, <3>0 DEF ConTipo, Hilos, Lugares, Operaciones
    <3>2. atencion' = [atencion EXCEPT ![t] = h]
      BY <2>2
    <3> HIDE DEF h
    <3>3. /\ Lugar' = [Lugar EXCEPT ![t] = h.lugar]
          /\ Numero' = [Numero EXCEPT ![t] = h.fd]
          /\ Con' = [Con EXCEPT ![t] = h.con]
          /\ Paquete' = [Paquete EXCEPT ![t] = h.paquete]
          /\ Vista' = [Vista EXCEPT ![t] = h.vista]
          /\ atencion' \in [Modulos -> Hilos]
      BY <1>0, <3>1, <3>2, CambiaHilo
    <3> QED
      BY <1>01, <1>02, <2>1, <2>2, <3>1, <3>3, Campos
  <2>3. CASE /\ ida[con] = <<>> /\ modulo[con] \in {"salio", "cortado"}
             /\ atencion' = [atencion EXCEPT ![t].lugar = "close",
                                             ![t].con = Ninguno]
             /\ UNCHANGED ida
    <3> DEFINE h == [atencion[t] EXCEPT !.lugar = "close", !.con = Ninguno]
    <3>1. /\ h \in Hilos /\ h.lugar = "close" /\ h.fd = atencion[t].fd
          /\ h.con = Ninguno /\ h.paquete = atencion[t].paquete
          /\ h.vista = atencion[t].vista
      BY <1>0 DEF ConTipo, Hilos, Lugares
    <3>2. atencion' = [atencion EXCEPT ![t] = h]
      BY <2>3
    <3> HIDE DEF h
    <3>3. /\ Lugar' = [Lugar EXCEPT ![t] = h.lugar]
          /\ Numero' = [Numero EXCEPT ![t] = h.fd]
          /\ Con' = [Con EXCEPT ![t] = h.con]
          /\ Paquete' = [Paquete EXCEPT ![t] = h.paquete]
          /\ Vista' = [Vista EXCEPT ![t] = h.vista]
          /\ atencion' \in [Modulos -> Hilos]
      BY <1>0, <3>1, <3>2, CambiaHilo
    <3> QED
      BY <1>01, <1>02, <2>1, <2>3, <3>1, <3>3, Campos
  <2> QED
    BY <2>0, <2>2, <2>3 DEF Recibe
<1>2. ConTipo'
  <2>1. ida' \in [Modulos -> Seq({"HANDSHAKE", "SOLICITUD"})]
    <3>1. CASE ida' = ida
      BY <1>01, <3>1
    <3>2. CASE /\ ida[Con[t]] # <<>>
               /\ ida' = [ida EXCEPT ![Con[t]] = Tail(@)]
      <4>1. Tail(ida[Con[t]]) \in Seq({"HANDSHAKE", "SOLICITUD"})
        BY <1>01, <1>02, <3>2, HayTail
      <4> QED
        BY <1>01, <1>02, <3>2, <4>1
    <3> QED
      BY <1>1, <3>1, <3>2
  <2> QED
    BY <1>0, <1>1, <2>1 DEF Recibe, ConTipo, vModulos
<1>3. /\ UNCHANGED <<Vivos, Suyos, Enlazan, Anotados, Repetidos>>
      /\ Abiertas' \subseteq Abiertas
  <2>1. UNCHANGED <<Vivos, Enlazan>>
    BY <1>01, <1>02, <1>1 DEF Vivos, Enlazan
  <2>2. Abiertas' \subseteq Abiertas
    BY <1>01, <1>02, <1>1 DEF Abiertas
  <2> QED
    BY <1>1, <2>1, <2>2, MismosHilos, MismosHilosLista
<1>31. /\ \A x \in Modulos : x # t => /\ Lugar'[x] = Lugar[x] /\ Con'[x] = Con[x]
                                      /\ Paquete'[x] = Paquete[x]
       /\ \A x \in Modulos : x # Con[t] => ida'[x] = ida[x]
       /\ Con'[t] = Ninguno
  BY <1>01, <1>02, <1>1
<1>32. \/ /\ Lugar'[t] = "valida"
          /\ Hay(ida[Con[t]], Paquete'[t])
          /\ Paquete'[t] \in {"HANDSHAKE", "SOLICITUD"}
          /\ ida[Con[t]] # <<>> /\ ~Hay(ida'[Con[t]], "HANDSHAKE")
       \/ /\ Lugar'[t] = "close" /\ modulo[Con[t]] \in {"salio", "cortado"}
          /\ ida' = ida /\ Paquete'[t] = Paquete[t]
  <2>1. AlPrincipio(ida[Con[t]])
    BY <1>0, <1>02 DEF HandshakePrimero
  <2>2. ida[Con[t]] \in Seq({"HANDSHAKE", "SOLICITUD"})
    BY <1>01, <1>02
  <2>3. CASE Lugar' = [Lugar EXCEPT ![t] = "valida"] /\ ida[Con[t]] # <<>>
             /\ ida' = [ida EXCEPT ![Con[t]] = Tail(@)]
             /\ Paquete' = [Paquete EXCEPT ![t] = Head(ida[Con[t]])]
    <3>1. /\ Lugar'[t] = "valida" /\ ida'[Con[t]] = Tail(ida[Con[t]])
          /\ Paquete'[t] = Head(ida[Con[t]]) /\ ida[Con[t]] # <<>>
      BY <1>01, <1>02, <2>3
    <3> QED
      BY <2>1, <2>2, <3>1, HayTail, AlPrincipioHechos
  <2>4. CASE /\ modulo[Con[t]] \in {"salio", "cortado"}
             /\ UNCHANGED <<ida, Paquete>>
             /\ Lugar' = [Lugar EXCEPT ![t] = "close"]
    BY <1>01, <2>4
  <2> QED
    BY <1>1, <2>3, <2>4
<1>33. \A x \in Modulos : /\ \A op : Hay(ida'[x], op) => Hay(ida[x], op)
                          /\ AlPrincipio(ida'[x])
                          /\ ida[x] = <<>> => ida'[x] = <<>>
  <2> SUFFICES ASSUME NEW x \in Modulos
               PROVE  /\ \A op : Hay(ida'[x], op) => Hay(ida[x], op)
                      /\ AlPrincipio(ida'[x])
                      /\ ida[x] = <<>> => ida'[x] = <<>>
    OBVIOUS
  <2>1. AlPrincipio(ida[x]) /\ ida[x] \in Seq({"HANDSHAKE", "SOLICITUD"})
    BY <1>0, <1>01 DEF HandshakePrimero
  <2>2. ida'[x] = ida[x] \/ (ida[x] # <<>> /\ ida'[x] = Tail(ida[x]))
    BY <1>01, <1>02, <1>1
  <2> QED
    BY <2>1, <2>2, HayTail, AlPrincipioHechos
<1>4. DuenioVivo'
  BY <1>0, <1>01, <1>1, <1>3 DEF DuenioVivo
<1>5. HiloConNumero'
  BY <1>0, <1>02, <1>1, <1>31, <1>32, <1>33 DEF HiloConNumero
<1>6. ColaNueva'
  BY <1>0, <1>02, <1>1, <1>31, <1>32, <1>33 DEF ColaNueva
<1>7. SinConectar'
  BY <1>0, <1>02, <1>1, <1>31, <1>32, <1>33 DEF SinConectar
<1>8. HandshakePrimero'
  BY <1>0, <1>02, <1>1, <1>31, <1>32, <1>33 DEF HandshakePrimero
<1>9. CierraConMotivo'
  <2> SUFFICES ASSUME NEW m \in Suyos, m \in Modulos
               PROVE  /\ Lugar'[m] = "recv" => Con'[m] = m
                      /\ Lugar'[m] = "close" => modulo[m] \in {"salio", "cortado"}
                      /\ Lugar'[m] = "valida" => Paquete'[m] # "DESCONEXION"
                      /\ Lugar'[m] = "retardo" => m \notin Anotados \/ m \in Repetidos
                      /\ modulo[m] = "handshake" =>
                             /\ Lugar'[m] # "retardo"
                             /\ Lugar'[m] = "valida" => Paquete'[m] # "SOLICITUD"
    BY <1>1, <1>3 DEF CierraConMotivo, Suyos, Vivos
  <2>1. CASE m = t
    <3>1. Con[t] = t
      BY <1>0, <1>02, <2>1 DEF CierraConMotivo
    <3>2. modulo[t] = "handshake" => ~Hay(ida[t], "SOLICITUD")
      BY <1>0 DEF HandshakePrimero
    <3> QED
      BY <1>32, <2>1, <3>1, <3>2
  <2>2. CASE m # t
    BY <1>0, <1>31, <2>2 DEF CierraConMotivo
  <2> QED
    BY <2>1, <2>2
<1>10. ConInvLibre'
  BY <1>2, <1>4, <1>5, <1>6, <1>7, <1>8, <1>9 DEF ConInvLibre
<1>11. ASSUME calma PROVE ConInvCalma'
  <2>0. /\ UnoOcupado /\ SinCompartir /\ Conectado /\ SinHandshake
        /\ CierraSiSalio /\ AtendidoEnLista /\ ListaDeUno
    BY <1>0, <1>11 DEF ConInvCalma
  <2>01. Con[t] = t
    BY <1>02, <2>0 DEF CierraSiSalio
  <2>1. UnoOcupado'
    BY <1>0, <1>01, <1>1, <1>3, <2>0 DEF UnoOcupado, Ocupados
  <2>2. SinCompartir'
    BY <1>0, <1>01, <1>1, <1>3, <2>0 DEF SinCompartir
  <2>3. Conectado'
    BY <1>0, <1>01, <1>1, <1>3, <2>0 DEF Conectado
  <2>4. SinHandshake'
    BY <1>1, <1>31, <1>32, <1>33, <2>0, <2>01 DEF SinHandshake
  <2>5. CierraSiSalio'
    BY <1>1, <1>31, <1>32, <2>0, <2>01 DEF CierraSiSalio, Conectado
  <2>6. AtendidoEnLista'
    <3>1. Atendidos' \subseteq Atendidos
      <4> SUFFICES ASSUME NEW m \in Modulos, m \in Atendidos' PROVE m \in Atendidos
        BY DEF Atendidos
      <4>1. CASE m = t
        BY <1>1, <1>32, <1>33, <2>01, <4>1 DEF Atendidos
      <4>2. CASE m # t
        BY <1>1, <1>31, <1>33, <4>2 DEF Atendidos
      <4> QED
        BY <4>1, <4>2
    <3> QED
      BY <1>3, <2>0, <3>1 DEF AtendidoEnLista
  <2>7. ListaDeUno'
    BY <1>1, <1>31, <1>32, <2>0 DEF ListaDeUno
  <2> QED
    BY <2>1, <2>2, <2>3, <2>4, <2>5, <2>6, <2>7 DEF ConInvCalma
<1> QED
  BY <1>1, <1>10, <1>11 DEF ConInv

LEMMA CierraDeserializarConserva ==
  ASSUME ConInv, NEW t \in Modulos, CierraDeserializar(t)
  PROVE  ConInv'
<1>0. /\ ConInvLibre /\ ConTipo /\ (calma => ConInvCalma)
      /\ DuenioVivo /\ HiloConNumero /\ ColaNueva /\ SinConectar
      /\ HandshakePrimero /\ CierraConMotivo
  BY DEF ConInv, ConInvLibre
<1>01. /\ modulo \in [Modulos -> Etapas]
      /\ ida \in [Modulos -> Seq({"HANDSHAKE", "SOLICITUD"})]
      /\ vuelta \in [Modulos -> Seq(Modulos)]
      /\ tabla_fd \in [Fds -> Modulos \union {Ninguno}]
      /\ por_aceptar \in Seq(Modulos)
      /\ Lugar \in [Modulos -> Lugares]
      /\ Numero \in [Modulos -> {0} \union Fds]
      /\ Con \in [Modulos -> Modulos \union {Ninguno}]
      /\ Paquete \in [Modulos -> Operaciones]
      /\ Vista \in [Modulos -> Listas]
      /\ Ninguno \notin Modulos
  BY <1>0, CamposTipo DEF ConTipo
<1>1. /\ UNCHANGED <<calma, por_aceptar, modulo, ida, vuelta, lista_sockets_conectados,
                   Numero, Con, Vista>>
      /\ Lugar[t] = "close"
      /\ Lugar' = [Lugar EXCEPT ![t] = "valida"]
      /\ Paquete' = [Paquete EXCEPT ![t] = "DESCONEXION"]
      /\ tabla_fd' = [tabla_fd EXCEPT ![Numero[t]] = Ninguno]
      /\ atencion' \in [Modulos -> Hilos]
  <2> DEFINE h == [atencion[t] EXCEPT !.lugar = "valida", !.paquete = "DESCONEXION"]
  <2>1. /\ Lugar[t] = "close"
        /\ tabla_fd' = [tabla_fd EXCEPT ![Numero[t]] = Ninguno]
    BY Campos DEF CierraDeserializar, Cierra
  <2>2. /\ h \in Hilos
        /\ h.lugar = "valida"
        /\ h.fd = atencion[t].fd
        /\ h.con = atencion[t].con
        /\ h.paquete = "DESCONEXION"
        /\ h.vista = atencion[t].vista
    BY <1>0 DEF ConTipo, Hilos, Lugares, Operaciones
  <2>3. atencion' = [atencion EXCEPT ![t] = h]
    BY DEF CierraDeserializar
  <2> HIDE DEF h
  <2>4. /\ Lugar' = [Lugar EXCEPT ![t] = h.lugar]
        /\ Numero' = [Numero EXCEPT ![t] = h.fd]
        /\ Con' = [Con EXCEPT ![t] = h.con]
        /\ Paquete' = [Paquete EXCEPT ![t] = h.paquete]
        /\ Vista' = [Vista EXCEPT ![t] = h.vista]
        /\ atencion' \in [Modulos -> Hilos]
    BY <1>0, <2>2, <2>3, CambiaHilo
  <2>5. UNCHANGED <<calma, por_aceptar, modulo, ida, vuelta, lista_sockets_conectados>>
    BY DEF CierraDeserializar, vModulos
  <2> QED
    BY <1>01, <2>1, <2>2, <2>4, <2>5, Campos
<1>2. ConTipo'
  <2>1. tabla_fd' \in [Fds -> Modulos \union {Ninguno}]
    BY <1>01, <1>1
  <2> QED
    BY <1>0, <1>1, <2>1 DEF CierraDeserializar, ConTipo, vModulos
<1>3. /\ UNCHANGED <<Vivos, Enlazan, Anotados, Repetidos>>
      /\ Suyos' \subseteq Suyos \ {t}
      /\ Abiertas' \subseteq Abiertas
  <2>1. t \in Vivos /\ Numero[t] \in Fds
    BY <1>0, <1>1 DEF Vivos, HiloConNumero
  <2>2. Vivos' = Vivos
    BY <1>01, <1>1 DEF Vivos
  <2>3. Enlazan' = Enlazan /\ Anotados' = Anotados
    BY <1>01, <1>1 DEF Enlazan, Anotados
  <2>4. /\ \A f \in Fds : tabla_fd'[f] \in {tabla_fd[f], Ninguno}
        /\ tabla_fd'[Numero[t]] = Ninguno
    BY <1>01, <1>1, <2>1
  <2>5. Abiertas' \subseteq Abiertas
    BY <1>01, <1>1, <2>4 DEF Abiertas
  <2>6. \A m \in Suyos' : m \in Suyos /\ m # t /\ Numero[m] # Numero[t]
    <3> SUFFICES ASSUME NEW m \in Suyos'
                 PROVE  m \in Suyos /\ m # t /\ Numero[m] # Numero[t]
      OBVIOUS
    <3>1. m \in Vivos /\ tabla_fd'[Numero[m]] = m /\ m # Ninguno
      BY <1>01, <1>1, <2>2 DEF Suyos, Vivos
    <3>2. Numero[m] \in Fds
      BY <1>0, <3>1 DEF Vivos, HiloConNumero
    <3> QED
      BY <2>4, <3>1, <3>2 DEF Suyos
  <2>7. Repetidos' = Repetidos
    BY <1>1, <2>2 DEF Repetidos
  <2> QED
    BY <2>2, <2>3, <2>5, <2>6, <2>7
<1>31. /\ \A x \in Modulos : x # t =>
              Lugar'[x] = Lugar[x] /\ Paquete'[x] = Paquete[x]
       /\ Lugar'[t] = "valida" /\ Paquete'[t] = "DESCONEXION"
  BY <1>01, <1>1
<1>4. DuenioVivo'
  BY <1>0, <1>01, <1>1, <1>3 DEF DuenioVivo
<1>5. HiloConNumero'
  BY <1>0, <1>01, <1>1, <1>3 DEF HiloConNumero
<1>6. ColaNueva'
  BY <1>0, <1>01, <1>1, <1>3 DEF ColaNueva
<1>7. SinConectar'
  BY <1>0, <1>01, <1>1, <1>3 DEF SinConectar
<1>8. HandshakePrimero'
  BY <1>0, <1>01, <1>1, <1>3 DEF HandshakePrimero
<1>9. CierraConMotivo'
  BY <1>0, <1>1, <1>3, <1>31 DEF CierraConMotivo, Suyos, Vivos
<1>10. ConInvLibre'
  BY <1>2, <1>4, <1>5, <1>6, <1>7, <1>8, <1>9 DEF ConInvLibre
<1>11. ASSUME calma PROVE ConInvCalma'
  <2>0. /\ UnoOcupado /\ SinCompartir /\ Conectado /\ SinHandshake
        /\ CierraSiSalio /\ AtendidoEnLista /\ ListaDeUno
    BY <1>0, <1>11 DEF ConInvCalma
  <2>01. modulo[t] = "salio"
    BY <1>1, <2>0 DEF CierraSiSalio
  <2>02. \A m \in Suyos : Numero[m] # Numero[t] => m \in Suyos'
    <3> SUFFICES ASSUME NEW m \in Suyos, Numero[m] # Numero[t]
                 PROVE  m \in Suyos'
      OBVIOUS
    <3>1. m \in Vivos /\ t \in Vivos /\ tabla_fd[Numero[m]] = m
      BY <1>1 DEF Suyos, Vivos
    <3> QED
      BY <1>0, <1>01, <1>1, <1>3, <3>1 DEF Suyos, Vivos, HiloConNumero
  <2>03. t \in Vivos
    BY <1>1 DEF Vivos
  <2>1. UnoOcupado'
    BY <1>0, <1>01, <1>1, <1>3, <2>0 DEF UnoOcupado, Ocupados
  <2>2. SinCompartir'
    BY <1>0, <1>01, <1>1, <1>3, <2>0 DEF SinCompartir
  <2>3. Conectado'
    BY <1>01, <1>1, <1>3, <2>0, <2>01, <2>02, <2>03
       DEF Conectado, SinCompartir, Suyos
  <2>4. SinHandshake'
    BY <1>1, <1>31, <2>0, <2>01 DEF SinHandshake
  <2>5. CierraSiSalio'
    BY <1>1, <1>31, <2>0, <2>01 DEF CierraSiSalio
  <2>6. AtendidoEnLista'
    BY <1>1, <1>3, <1>31, <2>0 DEF AtendidoEnLista, Atendidos
  <2>7. ListaDeUno'
    BY <1>0, <1>01, <1>1, <1>3, <2>0 DEF ListaDeUno
  <2> QED
    BY <2>1, <2>2, <2>3, <2>4, <2>5, <2>6, <2>7 DEF ConInvCalma
<1> QED
  BY <1>1, <1>10, <1>11 DEF ConInv

LEMMA ValidaYCortaConserva ==
  ASSUME ConInv, NEW t \in Modulos, ValidaYCorta(t)
  PROVE  ConInv'
<1>0. /\ ConInvLibre /\ ConTipo /\ (calma => ConInvCalma)
      /\ DuenioVivo /\ HiloConNumero /\ ColaNueva /\ SinConectar
      /\ HandshakePrimero /\ CierraConMotivo
  BY DEF ConInv, ConInvLibre
<1>01. /\ modulo \in [Modulos -> Etapas]
      /\ ida \in [Modulos -> Seq({"HANDSHAKE", "SOLICITUD"})]
      /\ vuelta \in [Modulos -> Seq(Modulos)]
      /\ tabla_fd \in [Fds -> Modulos \union {Ninguno}]
      /\ por_aceptar \in Seq(Modulos)
      /\ Lugar \in [Modulos -> Lugares]
      /\ Numero \in [Modulos -> {0} \union Fds]
      /\ Con \in [Modulos -> Modulos \union {Ninguno}]
      /\ Paquete \in [Modulos -> Operaciones]
      /\ Vista \in [Modulos -> Listas]
      /\ Ninguno \notin Modulos
  BY <1>0, CamposTipo DEF ConTipo
<1>1. /\ UNCHANGED <<calma, por_aceptar, modulo, ida, vuelta, tabla_fd,
                   lista_sockets_conectados, Numero, Con, Paquete, Vista>>
      /\ Lugar[t] = "valida"
      /\ Paquete[t] # "HANDSHAKE"
      /\ t \notin Anotados
      /\ Lugar' = [Lugar EXCEPT ![t] = "retardo"]
  <2>1. /\ Lugar[t] = "valida" /\ Paquete[t] # "HANDSHAKE" /\ t \notin Anotados
        /\ atencion' = [atencion EXCEPT ![t].lugar = "retardo"]
    BY Campos, EnListaNumeros DEF ValidaYCorta, Rechaza, Pasa, Anotados
  <2>2. /\ Lugar' = [Lugar EXCEPT ![t] = "retardo"]
        /\ UNCHANGED <<Numero, Con, Paquete, Vista>>
    BY <1>0, <2>1, CambiaLugar DEF Lugares
  <2> QED
    BY <2>1, <2>2 DEF ValidaYCorta, vModulos
<1>2. ConTipo'
  BY <1>0, CambiaLugar DEF ValidaYCorta, Pasa, vModulos, Lugares, ConTipo
<1>3. /\ UNCHANGED <<Vivos, Suyos, Abiertas, Repetidos, Enlazan, Anotados>>
  BY <1>0, <1>01, <1>1, MismosHilos, MismosHilosLista
     DEF Vivos, Enlazan, Abiertas
<1>31. t \in Vivos /\ t \notin Enlazan
  BY <1>1 DEF Vivos, Enlazan
<1>4. DuenioVivo'
  BY <1>0, <1>01, <1>1, <1>3 DEF DuenioVivo
<1>5. HiloConNumero'
  BY <1>0, <1>01, <1>1, <1>3 DEF HiloConNumero
<1>6. ColaNueva'
  BY <1>0, <1>01, <1>1, <1>3 DEF ColaNueva
<1>7. SinConectar'
  BY <1>0, <1>01, <1>1, <1>3 DEF SinConectar
<1>8. HandshakePrimero'
  BY <1>0, <1>01, <1>1, <1>3 DEF HandshakePrimero
<1>9. CierraConMotivo'
  BY <1>0, <1>01, <1>1, <1>3 DEF CierraConMotivo, Operaciones
<1>10. ConInvLibre'
  BY <1>2, <1>4, <1>5, <1>6, <1>7, <1>8, <1>9 DEF ConInvLibre
<1>11. ASSUME calma PROVE ConInvCalma'
  <2>0. /\ UnoOcupado /\ SinCompartir /\ Conectado /\ SinHandshake
        /\ CierraSiSalio /\ AtendidoEnLista /\ ListaDeUno
    BY <1>0, <1>11 DEF ConInvCalma
  <2>01. modulo[t] = "salio"
    <3>1. Paquete[t] # "SOLICITUD"
      BY <1>1, <1>31, <2>0 DEF AtendidoEnLista, Atendidos
    <3>2. Paquete[t] = "DESCONEXION"
      BY <1>01, <1>1, <3>1 DEF Operaciones
    <3> QED
      BY <1>1, <3>2, <2>0 DEF CierraSiSalio
  <2>1. UnoOcupado'
    BY <1>0, <1>01, <1>1, <1>3, <2>0 DEF UnoOcupado, Ocupados
  <2>2. SinCompartir'
    BY <1>0, <1>01, <1>1, <1>3, <2>0 DEF SinCompartir
  <2>3. Conectado'
    BY <1>0, <1>01, <1>1, <1>3, <2>0 DEF Conectado
  <2>4. SinHandshake'
    BY <1>0, <1>01, <1>1, <1>3, <2>0 DEF SinHandshake
  <2>5. CierraSiSalio'
    BY <1>01, <1>1, <2>0, <2>01 DEF CierraSiSalio
  <2>6. AtendidoEnLista'
    BY <1>0, <1>01, <1>1, <1>3, <2>0 DEF AtendidoEnLista, Atendidos
  <2>7. ListaDeUno'
    BY <1>0, <1>01, <1>1, <1>3, <2>0 DEF ListaDeUno
  <2> QED
    BY <2>1, <2>2, <2>3, <2>4, <2>5, <2>6, <2>7 DEF ConInvCalma
<1> QED
  BY <1>1, <1>10, <1>11 DEF ConInv

LEMMA AtiendeHandshakeConserva ==
  ASSUME ConInv, NEW t \in Modulos, AtiendeHandshake(t)
  PROVE  ConInv'
<1>0. /\ ConInvLibre /\ ConTipo /\ (calma => ConInvCalma)
      /\ DuenioVivo /\ HiloConNumero /\ ColaNueva /\ SinConectar
      /\ HandshakePrimero /\ CierraConMotivo
  BY DEF ConInv, ConInvLibre
<1>01. /\ modulo \in [Modulos -> Etapas]
      /\ ida \in [Modulos -> Seq({"HANDSHAKE", "SOLICITUD"})]
      /\ vuelta \in [Modulos -> Seq(Modulos)]
      /\ tabla_fd \in [Fds -> Modulos \union {Ninguno}]
      /\ por_aceptar \in Seq(Modulos)
      /\ Lugar \in [Modulos -> Lugares]
      /\ Numero \in [Modulos -> {0} \union Fds]
      /\ Con \in [Modulos -> Modulos \union {Ninguno}]
      /\ Paquete \in [Modulos -> Operaciones]
      /\ Vista \in [Modulos -> Listas]
      /\ Ninguno \notin Modulos
  BY <1>0, CamposTipo DEF ConTipo
<1>1. /\ UNCHANGED <<calma, por_aceptar, modulo, ida, tabla_fd, lista_sockets_conectados,
                   Numero, Con, Paquete, Vista>>
      /\ Lugar[t] = "valida"
      /\ Paquete[t] = "HANDSHAKE"
      /\ Lugar' = [Lugar EXCEPT ![t] = "lista"]
      /\ \A x \in Modulos : \/ vuelta'[x] = vuelta[x]
                               \/ /\ vuelta'[x] = Append(vuelta[x], t)
                                  /\ x = tabla_fd[Numero[t]]
  <2>1. /\ Lugar[t] = "valida" /\ Paquete[t] = "HANDSHAKE"
        /\ atencion' = [atencion EXCEPT ![t].lugar = "lista"]
    BY Campos DEF AtiendeHandshake, Pasa
  <2>2. /\ Lugar' = [Lugar EXCEPT ![t] = "lista"]
        /\ UNCHANGED <<Numero, Con, Paquete, Vista>>
    BY <1>0, <2>1, CambiaLugar DEF Lugares
  <2>3. \A x \in Modulos : \/ vuelta'[x] = vuelta[x]
                           \/ /\ vuelta'[x] = Append(vuelta[x], t)
                              /\ x = tabla_fd[Numero[t]]
    BY <1>01, Campos DEF AtiendeHandshake, Responde
  <2> QED
    BY <2>1, <2>2, <2>3 DEF AtiendeHandshake, vModulos
<1>2. ConTipo'
  <2> DEFINE con == tabla_fd[atencion[t].fd]
  <2>1. vuelta' = vuelta \/ vuelta' = [vuelta EXCEPT ![con] = Append(@, t)]
    BY DEF AtiendeHandshake, Responde
  <2>2. ASSUME vuelta' # vuelta PROVE con \in Modulos
    <3>1. Lugar[t] = "valida" /\ atencion[t].fd = Numero[t]
      BY <1>1, Campos
    <3>2. con # Ninguno
      BY <2>2 DEF AtiendeHandshake, Responde
    <3> QED
      BY <1>0, <1>01, <3>1, <3>2 DEF HiloConNumero
  <2>3. vuelta' \in [Modulos -> Seq(Modulos)]
    <3> HIDE DEF con
    <3>1. CASE vuelta' = vuelta
      BY <1>01, <3>1
    <3>2. CASE vuelta' # vuelta
      <4>1. con \in Modulos /\ Append(vuelta[con], t) \in Seq(Modulos)
        BY <1>01, <2>2, <3>2, HayAppend
      <4> QED
        BY <1>01, <2>1, <3>2, <4>1
    <3> QED
      BY <3>1, <3>2
  <2> QED
    BY <1>0, <2>3, CambiaLugar DEF AtiendeHandshake, Pasa, vModulos, Lugares, ConTipo
<1>3. /\ UNCHANGED <<Vivos, Suyos, Abiertas, Repetidos, Anotados>>
      /\ Enlazan' = Enlazan \union {t}
  BY <1>0, <1>01, <1>1, MismosHilos, MismosHilosLista
     DEF Vivos, Enlazan, Abiertas
<1>31. /\ \A x \in Modulos : x # t => Lugar'[x] = Lugar[x]
       /\ Lugar'[t] = "lista" /\ t \in Vivos /\ t \notin Enlazan
  BY <1>01, <1>1 DEF Vivos, Enlazan
<1>32. \A x \in Modulos :
         \/ vuelta'[x] = vuelta[x]
         \/ x \in Vivos /\ Numero[x] = Numero[t] /\ Lugar[x] # "no"
  BY <1>0, <1>1, <1>31 DEF DuenioVivo, HiloConNumero, Vivos
<1>4. DuenioVivo'
  BY <1>0, <1>1, <1>3 DEF DuenioVivo
<1>5. HiloConNumero'
  BY <1>0, <1>1, <1>31 DEF HiloConNumero
<1>6. ColaNueva'
  BY <1>0, <1>1, <1>31, <1>32 DEF ColaNueva, Vivos
<1>7. SinConectar'
  BY <1>0, <1>1, <1>31, <1>32 DEF SinConectar, Vivos
<1>8. HandshakePrimero'
  BY <1>0, <1>01, <1>1, <1>3 DEF HandshakePrimero
<1>9. CierraConMotivo'
  BY <1>0, <1>1, <1>3, <1>31 DEF CierraConMotivo, Suyos, Vivos
<1>10. ConInvLibre'
  BY <1>2, <1>4, <1>5, <1>6, <1>7, <1>8, <1>9 DEF ConInvLibre
<1>11. ASSUME calma PROVE ConInvCalma'
  <2>0. /\ UnoOcupado /\ SinCompartir /\ Conectado /\ SinHandshake
        /\ CierraSiSalio /\ AtendidoEnLista /\ ListaDeUno
    BY <1>0, <1>11 DEF ConInvCalma
  <2>01. \A x \in Modulos : x # t => vuelta'[x] = vuelta[x]
    BY <1>31, <1>32, <2>0 DEF SinCompartir
  <2>02. ~Hay(ida[t], "HANDSHAKE")
    BY <1>1, <2>0 DEF SinHandshake
  <2>1. UnoOcupado'
    <3>1. t \in Ocupados
      BY <1>1, <1>31, <2>0 DEF SinHandshake, Ocupados
    <3>2. Ocupados' \subseteq Ocupados
      BY <1>1, <1>3, <3>1 DEF Ocupados
    <3> QED
      BY <2>0, <3>2 DEF UnoOcupado
  <2>2. SinCompartir'
    BY <1>1, <1>3, <2>0 DEF SinCompartir
  <2>3. Conectado'
    BY <1>1, <1>3, <2>0 DEF Conectado
  <2>4. SinHandshake'
    BY <1>1, <1>31, <2>0, <2>01, <2>02 DEF SinHandshake
  <2>5. CierraSiSalio'
    BY <1>1, <1>31, <2>0 DEF CierraSiSalio
  <2>6. AtendidoEnLista'
    <3>1. Atendidos' \subseteq Atendidos \union {t}
      BY <1>1, <1>31, <2>01 DEF Atendidos
    <3> QED
      BY <1>3, <2>0, <3>1 DEF AtendidoEnLista
  <2>7. ListaDeUno'
    BY <1>1, <1>31, <2>0 DEF ListaDeUno
  <2> QED
    BY <2>1, <2>2, <2>3, <2>4, <2>5, <2>6, <2>7 DEF ConInvCalma
<1> QED
  BY <1>1, <1>10, <1>11 DEF ConInv

LEMMA AtiendeSolicitudConserva ==
  ASSUME ConInv, NEW t \in Modulos, AtiendeSolicitud(t)
  PROVE  ConInv'
<1>0. /\ ConInvLibre /\ ConTipo /\ (calma => ConInvCalma)
      /\ DuenioVivo /\ HiloConNumero /\ ColaNueva /\ SinConectar
      /\ HandshakePrimero /\ CierraConMotivo
  BY DEF ConInv, ConInvLibre
<1>01. /\ modulo \in [Modulos -> Etapas]
      /\ ida \in [Modulos -> Seq({"HANDSHAKE", "SOLICITUD"})]
      /\ vuelta \in [Modulos -> Seq(Modulos)]
      /\ tabla_fd \in [Fds -> Modulos \union {Ninguno}]
      /\ por_aceptar \in Seq(Modulos)
      /\ Lugar \in [Modulos -> Lugares]
      /\ Numero \in [Modulos -> {0} \union Fds]
      /\ Con \in [Modulos -> Modulos \union {Ninguno}]
      /\ Paquete \in [Modulos -> Operaciones]
      /\ Vista \in [Modulos -> Listas]
      /\ Ninguno \notin Modulos
  BY <1>0, CamposTipo DEF ConTipo
<1>1. /\ UNCHANGED <<calma, por_aceptar, modulo, ida, tabla_fd, lista_sockets_conectados,
                   Numero, Con, Paquete, Vista>>
      /\ Lugar[t] = "valida"
      /\ Paquete[t] = "SOLICITUD"
      /\ Lugar' = [Lugar EXCEPT ![t] = "recibe"]
      /\ \A x \in Modulos : \/ vuelta'[x] = vuelta[x]
                               \/ /\ vuelta'[x] = Append(vuelta[x], t)
                                  /\ x = tabla_fd[Numero[t]]
  <2>1. /\ Lugar[t] = "valida" /\ Paquete[t] = "SOLICITUD"
        /\ atencion' = [atencion EXCEPT ![t].lugar = "recibe"]
    BY Campos DEF AtiendeSolicitud, Pasa
  <2>2. /\ Lugar' = [Lugar EXCEPT ![t] = "recibe"]
        /\ UNCHANGED <<Numero, Con, Paquete, Vista>>
    BY <1>0, <2>1, CambiaLugar DEF Lugares
  <2>3. \A x \in Modulos : \/ vuelta'[x] = vuelta[x]
                           \/ /\ vuelta'[x] = Append(vuelta[x], t)
                              /\ x = tabla_fd[Numero[t]]
    BY <1>01, Campos DEF AtiendeSolicitud, Responde
  <2> QED
    BY <2>1, <2>2, <2>3 DEF AtiendeSolicitud, vModulos
<1>2. ConTipo'
  <2> DEFINE con == tabla_fd[atencion[t].fd]
  <2>1. vuelta' = vuelta \/ vuelta' = [vuelta EXCEPT ![con] = Append(@, t)]
    BY DEF AtiendeSolicitud, Responde
  <2>2. ASSUME vuelta' # vuelta PROVE con \in Modulos
    <3>1. Lugar[t] = "valida" /\ atencion[t].fd = Numero[t]
      BY <1>1, Campos
    <3>2. con # Ninguno
      BY <2>2 DEF AtiendeSolicitud, Responde
    <3> QED
      BY <1>0, <1>01, <3>1, <3>2 DEF HiloConNumero
  <2>3. vuelta' \in [Modulos -> Seq(Modulos)]
    <3> HIDE DEF con
    <3>1. CASE vuelta' = vuelta
      BY <1>01, <3>1
    <3>2. CASE vuelta' # vuelta
      <4>1. con \in Modulos /\ Append(vuelta[con], t) \in Seq(Modulos)
        BY <1>01, <2>2, <3>2, HayAppend
      <4> QED
        BY <1>01, <2>1, <3>2, <4>1
    <3> QED
      BY <3>1, <3>2
  <2> QED
    BY <1>0, <2>3, CambiaLugar DEF AtiendeSolicitud, Pasa, vModulos, Lugares, ConTipo
<1>3. /\ UNCHANGED <<Vivos, Suyos, Abiertas, Repetidos, Enlazan, Anotados>>
  BY <1>0, <1>01, <1>1, MismosHilos, MismosHilosLista
     DEF Vivos, Enlazan, Abiertas
<1>31. /\ \A x \in Modulos : x # t => Lugar'[x] = Lugar[x]
       /\ Lugar'[t] = "recibe" /\ t \in Vivos /\ t \notin Enlazan
  BY <1>01, <1>1 DEF Vivos, Enlazan
<1>32. \A x \in Modulos :
         \/ vuelta'[x] = vuelta[x]
         \/ x \in Vivos /\ Numero[x] = Numero[t] /\ Lugar[x] # "no"
  BY <1>0, <1>1, <1>31 DEF DuenioVivo, HiloConNumero, Vivos
<1>4. DuenioVivo'
  BY <1>0, <1>1, <1>3 DEF DuenioVivo
<1>5. HiloConNumero'
  BY <1>0, <1>1, <1>31 DEF HiloConNumero
<1>6. ColaNueva'
  BY <1>0, <1>1, <1>31, <1>32 DEF ColaNueva, Vivos
<1>7. SinConectar'
  BY <1>0, <1>1, <1>31, <1>32 DEF SinConectar, Vivos
<1>8. HandshakePrimero'
  BY <1>0, <1>01, <1>1, <1>3 DEF HandshakePrimero
<1>9. CierraConMotivo'
  BY <1>0, <1>1, <1>3, <1>31 DEF CierraConMotivo, Suyos, Vivos
<1>10. ConInvLibre'
  BY <1>2, <1>4, <1>5, <1>6, <1>7, <1>8, <1>9 DEF ConInvLibre
<1>11. ASSUME calma PROVE ConInvCalma'
  <2>0. /\ UnoOcupado /\ SinCompartir /\ Conectado /\ SinHandshake
        /\ CierraSiSalio /\ AtendidoEnLista /\ ListaDeUno
    BY <1>0, <1>11 DEF ConInvCalma
  <2>01. \A x \in Modulos : x # t => vuelta'[x] = vuelta[x]
    BY <1>31, <1>32, <2>0 DEF SinCompartir
  <2>02. ~Hay(ida[t], "HANDSHAKE")
    BY <1>1, <2>0 DEF SinHandshake
  <2>1. UnoOcupado'
    BY <1>1, <1>3, <2>0 DEF UnoOcupado, Ocupados
  <2>2. SinCompartir'
    BY <1>1, <1>3, <2>0 DEF SinCompartir
  <2>3. Conectado'
    BY <1>1, <1>3, <2>0 DEF Conectado
  <2>4. SinHandshake'
    BY <1>1, <1>31, <2>0, <2>01, <2>02 DEF SinHandshake
  <2>5. CierraSiSalio'
    BY <1>1, <1>31, <2>0 DEF CierraSiSalio
  <2>6. AtendidoEnLista'
    <3>1. Atendidos' \subseteq Atendidos
      BY <1>1, <1>31, <2>01 DEF Atendidos
    <3> QED
      BY <1>3, <2>0, <3>1 DEF AtendidoEnLista
  <2>7. ListaDeUno'
    BY <1>1, <1>31, <2>0 DEF ListaDeUno
  <2> QED
    BY <2>1, <2>2, <2>3, <2>4, <2>5, <2>6, <2>7 DEF ConInvCalma
<1> QED
  BY <1>1, <1>10, <1>11 DEF ConInv

LEMMA AtiendeDesconexionConserva ==
  ASSUME ConInv, NEW t \in Modulos, AtiendeDesconexion(t)
  PROVE  ConInv'
<1>0. /\ ConInvLibre /\ ConTipo /\ (calma => ConInvCalma)
      /\ DuenioVivo /\ HiloConNumero /\ ColaNueva /\ SinConectar
      /\ HandshakePrimero /\ CierraConMotivo
  BY DEF ConInv, ConInvLibre
<1>01. /\ modulo \in [Modulos -> Etapas]
      /\ ida \in [Modulos -> Seq({"HANDSHAKE", "SOLICITUD"})]
      /\ vuelta \in [Modulos -> Seq(Modulos)]
      /\ tabla_fd \in [Fds -> Modulos \union {Ninguno}]
      /\ por_aceptar \in Seq(Modulos)
      /\ Lugar \in [Modulos -> Lugares]
      /\ Numero \in [Modulos -> {0} \union Fds]
      /\ Con \in [Modulos -> Modulos \union {Ninguno}]
      /\ Paquete \in [Modulos -> Operaciones]
      /\ Vista \in [Modulos -> Listas]
      /\ Ninguno \notin Modulos
  BY <1>0, CamposTipo DEF ConTipo
<1>1. /\ UNCHANGED <<calma, por_aceptar, modulo, ida, vuelta, tabla_fd,
                   lista_sockets_conectados, Numero, Con, Paquete, Vista>>
      /\ Lugar[t] = "valida"
      /\ Paquete[t] = "DESCONEXION"
      /\ Lugar' = [Lugar EXCEPT ![t] = "retardo"]
  BY <1>0, Campos, CambiaLugar DEF AtiendeDesconexion, Pasa, vModulos, Lugares
<1>2. ConTipo'
  BY <1>0, CambiaLugar DEF AtiendeDesconexion, Pasa, vModulos, Lugares, ConTipo
<1>3. /\ UNCHANGED <<Vivos, Suyos, Abiertas, Repetidos, Enlazan, Anotados>>
  BY <1>0, <1>01, <1>1, MismosHilos, MismosHilosLista
     DEF Vivos, Enlazan, Abiertas
<1>4. DuenioVivo'
  BY <1>0, <1>01, <1>1, <1>3 DEF DuenioVivo
<1>5. HiloConNumero'
  BY <1>0, <1>01, <1>1, <1>3 DEF HiloConNumero
<1>6. ColaNueva'
  BY <1>0, <1>01, <1>1, <1>3 DEF ColaNueva
<1>7. SinConectar'
  BY <1>0, <1>01, <1>1, <1>3 DEF SinConectar
<1>8. HandshakePrimero'
  BY <1>0, <1>01, <1>1, <1>3 DEF HandshakePrimero
<1>9. CierraConMotivo'
  BY <1>0, <1>01, <1>1, <1>3 DEF CierraConMotivo
<1>10. ConInvLibre'
  BY <1>2, <1>4, <1>5, <1>6, <1>7, <1>8, <1>9 DEF ConInvLibre
<1>11. ASSUME calma PROVE ConInvCalma'
  <2>0. /\ UnoOcupado /\ SinCompartir /\ Conectado /\ SinHandshake
        /\ CierraSiSalio /\ AtendidoEnLista /\ ListaDeUno
    BY <1>0, <1>11 DEF ConInvCalma
  <2>1. UnoOcupado'
    BY <1>0, <1>01, <1>1, <1>3, <2>0 DEF UnoOcupado, Ocupados
  <2>2. SinCompartir'
    BY <1>0, <1>01, <1>1, <1>3, <2>0 DEF SinCompartir
  <2>3. Conectado'
    BY <1>0, <1>01, <1>1, <1>3, <2>0 DEF Conectado
  <2>4. SinHandshake'
    BY <1>0, <1>01, <1>1, <1>3, <2>0 DEF SinHandshake
  <2>5. CierraSiSalio'
    BY <1>0, <1>01, <1>1, <1>3, <2>0 DEF CierraSiSalio
  <2>6. AtendidoEnLista'
    BY <1>0, <1>01, <1>1, <1>3, <2>0 DEF AtendidoEnLista, Atendidos
  <2>7. ListaDeUno'
    BY <1>0, <1>01, <1>1, <1>3, <2>0 DEF ListaDeUno
  <2> QED
    BY <2>1, <2>2, <2>3, <2>4, <2>5, <2>6, <2>7 DEF ConInvCalma
<1> QED
  BY <1>1, <1>10, <1>11 DEF ConInv

LEMMA MiraListaConserva ==
  ASSUME ConInv, NEW t \in Modulos, MiraLista(t)
  PROVE  ConInv'
<1>0. /\ ConInvLibre /\ ConTipo /\ (calma => ConInvCalma)
      /\ DuenioVivo /\ HiloConNumero /\ ColaNueva /\ SinConectar
      /\ HandshakePrimero /\ CierraConMotivo
  BY DEF ConInv, ConInvLibre
<1>01. /\ modulo \in [Modulos -> Etapas]
      /\ ida \in [Modulos -> Seq({"HANDSHAKE", "SOLICITUD"})]
      /\ vuelta \in [Modulos -> Seq(Modulos)]
      /\ tabla_fd \in [Fds -> Modulos \union {Ninguno}]
      /\ por_aceptar \in Seq(Modulos)
      /\ Lugar \in [Modulos -> Lugares]
      /\ Numero \in [Modulos -> {0} \union Fds]
      /\ Con \in [Modulos -> Modulos \union {Ninguno}]
      /\ Paquete \in [Modulos -> Operaciones]
      /\ Vista \in [Modulos -> Listas]
      /\ Ninguno \notin Modulos
  BY <1>0, CamposTipo DEF ConTipo
<1>1. /\ UNCHANGED <<calma, por_aceptar, modulo, ida, vuelta, tabla_fd,
                   lista_sockets_conectados, Numero, Con, Paquete, Vista>>
      /\ Lugar[t] = "lista"
      /\ \/ Lugar' = [Lugar EXCEPT ![t] = "crea"] /\ lista_sockets_conectados = NULL
         \/ Lugar' = [Lugar EXCEPT ![t] = "agrega"]
  BY <1>0, Campos, CambiaLugar DEF MiraLista, Pasa, vModulos, Lugares
<1>2. ConTipo'
  BY <1>0, CambiaLugar DEF MiraLista, Pasa, vModulos, Lugares, ConTipo
<1>3. /\ UNCHANGED <<Vivos, Suyos, Enlazan, Abiertas, Anotados, Repetidos>>
  BY <1>0, <1>01, <1>1, MismosHilos, MismosHilosLista
     DEF Vivos, Enlazan, Abiertas
<1>31. /\ \A x \in Modulos : x # t => Lugar'[x] = Lugar[x]
       /\ Lugar'[t] \in {"crea", "agrega"}
  BY <1>01, <1>1
<1>4. DuenioVivo'
  BY <1>0, <1>01, <1>1, <1>3 DEF DuenioVivo
<1>5. HiloConNumero'
  BY <1>0, <1>01, <1>1, <1>3 DEF HiloConNumero
<1>6. ColaNueva'
  BY <1>0, <1>01, <1>1, <1>3 DEF ColaNueva
<1>7. SinConectar'
  BY <1>0, <1>01, <1>1, <1>3 DEF SinConectar
<1>8. HandshakePrimero'
  BY <1>0, <1>01, <1>1, <1>3 DEF HandshakePrimero
<1>9. CierraConMotivo'
  BY <1>0, <1>1, <1>3, <1>31 DEF CierraConMotivo, Suyos, Vivos
<1>10. ConInvLibre'
  BY <1>2, <1>4, <1>5, <1>6, <1>7, <1>8, <1>9 DEF ConInvLibre
<1>11. ASSUME calma PROVE ConInvCalma'
  <2>0. /\ UnoOcupado /\ SinCompartir /\ Conectado /\ SinHandshake
        /\ CierraSiSalio /\ AtendidoEnLista /\ ListaDeUno
    BY <1>0, <1>11 DEF ConInvCalma
  <2>1. UnoOcupado'
    BY <1>0, <1>01, <1>1, <1>3, <2>0 DEF UnoOcupado, Ocupados
  <2>2. SinCompartir'
    BY <1>0, <1>01, <1>1, <1>3, <2>0 DEF SinCompartir
  <2>3. Conectado'
    BY <1>0, <1>01, <1>1, <1>3, <2>0 DEF Conectado
  <2>4. SinHandshake'
    BY <1>0, <1>01, <1>1, <1>3, <2>0 DEF SinHandshake
  <2>5. CierraSiSalio'
    BY <1>0, <1>01, <1>1, <1>3, <2>0 DEF CierraSiSalio
  <2>6. AtendidoEnLista'
    BY <1>0, <1>01, <1>1, <1>3, <2>0 DEF AtendidoEnLista, Atendidos
  <2>7. ListaDeUno'
    BY <1>0, <1>01, <1>1, <1>3, <2>0 DEF ListaDeUno
  <2> QED
    BY <2>1, <2>2, <2>3, <2>4, <2>5, <2>6, <2>7 DEF ConInvCalma
<1> QED
  BY <1>1, <1>10, <1>11 DEF ConInv

LEMMA CreaListaConserva ==
  ASSUME ConInv, NEW t \in Modulos, CreaLista(t)
  PROVE  ConInv'
<1>0. /\ ConInvLibre /\ ConTipo /\ (calma => ConInvCalma)
      /\ DuenioVivo /\ HiloConNumero /\ ColaNueva /\ SinConectar
      /\ HandshakePrimero /\ CierraConMotivo
  BY DEF ConInv, ConInvLibre
<1>01. /\ modulo \in [Modulos -> Etapas]
      /\ ida \in [Modulos -> Seq({"HANDSHAKE", "SOLICITUD"})]
      /\ vuelta \in [Modulos -> Seq(Modulos)]
      /\ tabla_fd \in [Fds -> Modulos \union {Ninguno}]
      /\ por_aceptar \in Seq(Modulos)
      /\ Lugar \in [Modulos -> Lugares]
      /\ Numero \in [Modulos -> {0} \union Fds]
      /\ Con \in [Modulos -> Modulos \union {Ninguno}]
      /\ Paquete \in [Modulos -> Operaciones]
      /\ Vista \in [Modulos -> Listas]
      /\ Ninguno \notin Modulos
  BY <1>0, CamposTipo DEF ConTipo
<1>1. /\ UNCHANGED <<calma, por_aceptar, modulo, ida, vuelta, tabla_fd, Numero, Con,
                   Paquete, Vista>>
      /\ Lugar[t] = "crea"
      /\ Lugar' = [Lugar EXCEPT ![t] = "agrega"]
      /\ Numeros(lista_sockets_conectados') = {}
      /\ atencion' \in [Modulos -> Hilos]
  <2>1. /\ Lugar[t] = "crea"
        /\ atencion' = [atencion EXCEPT ![t].lugar = "agrega"]
    BY Campos DEF CreaLista, Pasa
  <2>2. /\ Lugar' = [Lugar EXCEPT ![t] = "agrega"]
        /\ UNCHANGED <<Numero, Con, Paquete, Vista>>
        /\ atencion' \in [Modulos -> Hilos]
    BY <1>0, <2>1, CambiaLugar DEF Lugares
  <2>3. Numeros(lista_sockets_conectados') = {}
    BY DEF CreaLista, Numeros
  <2> QED
    BY <2>1, <2>2, <2>3 DEF CreaLista, vModulos
<1>2. ConTipo'
  <2>1. lista_sockets_conectados' \in Listas
    <3>1. lista_sockets_conectados.num \in Nat
      BY <1>0, ListasHechos DEF ConTipo
    <3>2. <<>> \in Seq([hilo : Modulos, fd : Fds])
      OBVIOUS
    <3> QED
      BY <3>1, <3>2 DEF CreaLista, Listas
  <2> QED
    BY <1>0, <1>1, <2>1 DEF CreaLista, ConTipo, vModulos
<1>3. /\ UNCHANGED <<Vivos, Suyos, Abiertas, Repetidos, Enlazan>>
      /\ Anotados' = {}
  <2>1. UNCHANGED <<Vivos, Enlazan, Abiertas>> /\ Anotados' = {}
    BY <1>01, <1>1 DEF Vivos, Enlazan, Abiertas, Anotados
  <2> QED
    BY <1>1, <2>1, MismosHilos
<1>4. DuenioVivo'
  BY <1>0, <1>01, <1>1, <1>3 DEF DuenioVivo
<1>5. HiloConNumero'
  BY <1>0, <1>01, <1>1, <1>3 DEF HiloConNumero
<1>6. ColaNueva'
  BY <1>0, <1>01, <1>1, <1>3 DEF ColaNueva
<1>7. SinConectar'
  BY <1>0, <1>01, <1>1, <1>3 DEF SinConectar
<1>8. HandshakePrimero'
  BY <1>0, <1>01, <1>1, <1>3 DEF HandshakePrimero
<1>9. CierraConMotivo'
  BY <1>0, <1>01, <1>1, <1>3 DEF CierraConMotivo
<1>10. ConInvLibre'
  BY <1>2, <1>4, <1>5, <1>6, <1>7, <1>8, <1>9 DEF ConInvLibre
<1>11. ASSUME calma PROVE ConInvCalma'
  <2>0. /\ UnoOcupado /\ SinCompartir /\ Conectado /\ SinHandshake
        /\ CierraSiSalio /\ AtendidoEnLista /\ ListaDeUno
    BY <1>0, <1>11 DEF ConInvCalma
  <2>01. \A m \in Enlazan : m = t
    BY <1>1, <2>0 DEF UnoOcupado, Ocupados, Enlazan
  <2>02. Anotados = {}
    BY <1>1, <2>0, NULLHechos DEF ListaDeUno, Anotados
  <2>1. UnoOcupado'
    BY <1>0, <1>01, <1>1, <1>3, <2>0 DEF UnoOcupado, Ocupados
  <2>2. SinCompartir'
    BY <1>0, <1>01, <1>1, <1>3, <2>0 DEF SinCompartir
  <2>3. Conectado'
    BY <1>0, <1>01, <1>1, <1>3, <2>0 DEF Conectado
  <2>4. SinHandshake'
    BY <1>0, <1>01, <1>1, <1>3, <2>0 DEF SinHandshake
  <2>5. CierraSiSalio'
    BY <1>0, <1>01, <1>1, <1>3, <2>0 DEF CierraSiSalio
  <2>6. AtendidoEnLista'
    BY <1>01, <1>1, <1>3, <2>0, <2>02 DEF AtendidoEnLista, Atendidos
  <2>7. ListaDeUno'
    BY <1>01, <1>1, <2>0, <2>01 DEF ListaDeUno, Enlazan
  <2> QED
    BY <2>1, <2>2, <2>3, <2>4, <2>5, <2>6, <2>7 DEF ConInvCalma
<1> QED
  BY <1>1, <1>10, <1>11 DEF ConInv

LEMMA AgregaSocketConserva ==
  ASSUME ConInv, NEW t \in Modulos, AgregaSocket(t)
  PROVE  ConInv'
<1>0. /\ ConInvLibre /\ ConTipo /\ (calma => ConInvCalma)
      /\ DuenioVivo /\ HiloConNumero /\ ColaNueva /\ SinConectar
      /\ HandshakePrimero /\ CierraConMotivo
  BY DEF ConInv, ConInvLibre
<1>01. /\ modulo \in [Modulos -> Etapas]
      /\ ida \in [Modulos -> Seq({"HANDSHAKE", "SOLICITUD"})]
      /\ vuelta \in [Modulos -> Seq(Modulos)]
      /\ tabla_fd \in [Fds -> Modulos \union {Ninguno}]
      /\ por_aceptar \in Seq(Modulos)
      /\ Lugar \in [Modulos -> Lugares]
      /\ Numero \in [Modulos -> {0} \union Fds]
      /\ Con \in [Modulos -> Modulos \union {Ninguno}]
      /\ Paquete \in [Modulos -> Operaciones]
      /\ Vista \in [Modulos -> Listas]
      /\ Ninguno \notin Modulos
  BY <1>0, CamposTipo DEF ConTipo
<1>1. /\ UNCHANGED <<calma, por_aceptar, modulo, ida, vuelta, tabla_fd,
                   lista_sockets_conectados, Numero, Con, Paquete>>
      /\ Lugar[t] = "agrega"
      /\ Lugar' = [Lugar EXCEPT ![t] = "enlaza"]
      /\ Vista' = [Vista EXCEPT ![t] = lista_sockets_conectados]
      /\ atencion' \in [Modulos -> Hilos]
  <2> DEFINE h == [atencion[t] EXCEPT !.lugar = "enlaza", !.vista = lista_sockets_conectados]
  <2>1. Lugar[t] = "agrega" /\ lista_sockets_conectados \in Listas
    BY <1>0, Campos DEF AgregaSocket, ConTipo
  <2>2. /\ h \in Hilos
        /\ h.lugar = "enlaza"
        /\ h.fd = atencion[t].fd
        /\ h.con = atencion[t].con
        /\ h.paquete = atencion[t].paquete
        /\ h.vista = lista_sockets_conectados
    BY <1>0, <2>1 DEF ConTipo, Hilos, Lugares
  <2>3. atencion' = [atencion EXCEPT ![t] = h]
    BY DEF AgregaSocket
  <2> HIDE DEF h
  <2>4. /\ Lugar' = [Lugar EXCEPT ![t] = h.lugar]
        /\ Numero' = [Numero EXCEPT ![t] = h.fd]
        /\ Con' = [Con EXCEPT ![t] = h.con]
        /\ Paquete' = [Paquete EXCEPT ![t] = h.paquete]
        /\ Vista' = [Vista EXCEPT ![t] = h.vista]
        /\ atencion' \in [Modulos -> Hilos]
    BY <1>0, <2>2, <2>3, CambiaHilo
  <2>5. UNCHANGED <<calma, por_aceptar, modulo, ida, vuelta, tabla_fd,
                    lista_sockets_conectados>>
    BY DEF AgregaSocket, vModulos
  <2> QED
    BY <1>01, <2>1, <2>2, <2>4, <2>5, Campos
<1>2. ConTipo'
  BY <1>0, <1>1 DEF AgregaSocket, ConTipo, vModulos
<1>3. /\ UNCHANGED <<Vivos, Suyos, Enlazan, Abiertas, Anotados, Repetidos>>
  BY <1>0, <1>01, <1>1, MismosHilos, MismosHilosLista
     DEF Vivos, Enlazan, Abiertas
<1>4. DuenioVivo'
  BY <1>0, <1>01, <1>1, <1>3 DEF DuenioVivo
<1>5. HiloConNumero'
  BY <1>0, <1>01, <1>1, <1>3 DEF HiloConNumero
<1>6. ColaNueva'
  BY <1>0, <1>01, <1>1, <1>3 DEF ColaNueva
<1>7. SinConectar'
  BY <1>0, <1>01, <1>1, <1>3 DEF SinConectar
<1>8. HandshakePrimero'
  BY <1>0, <1>01, <1>1, <1>3 DEF HandshakePrimero
<1>9. CierraConMotivo'
  BY <1>0, <1>01, <1>1, <1>3 DEF CierraConMotivo
<1>10. ConInvLibre'
  BY <1>2, <1>4, <1>5, <1>6, <1>7, <1>8, <1>9 DEF ConInvLibre
<1>11. ASSUME calma PROVE ConInvCalma'
  <2>0. /\ UnoOcupado /\ SinCompartir /\ Conectado /\ SinHandshake
        /\ CierraSiSalio /\ AtendidoEnLista /\ ListaDeUno
    BY <1>0, <1>11 DEF ConInvCalma
  <2>1. UnoOcupado'
    BY <1>0, <1>01, <1>1, <1>3, <2>0 DEF UnoOcupado, Ocupados
  <2>2. SinCompartir'
    BY <1>0, <1>01, <1>1, <1>3, <2>0 DEF SinCompartir
  <2>3. Conectado'
    BY <1>0, <1>01, <1>1, <1>3, <2>0 DEF Conectado
  <2>4. SinHandshake'
    BY <1>0, <1>01, <1>1, <1>3, <2>0 DEF SinHandshake
  <2>5. CierraSiSalio'
    BY <1>0, <1>01, <1>1, <1>3, <2>0 DEF CierraSiSalio
  <2>6. AtendidoEnLista'
    BY <1>0, <1>01, <1>1, <1>3, <2>0 DEF AtendidoEnLista, Atendidos
  <2>7. ListaDeUno'
    BY <1>0, <1>01, <1>1, <1>3, <2>0 DEF ListaDeUno
  <2> QED
    BY <2>1, <2>2, <2>3, <2>4, <2>5, <2>6, <2>7 DEF ConInvCalma
<1> QED
  BY <1>1, <1>10, <1>11 DEF ConInv

LEMMA EnlazaSocketConserva ==
  ASSUME ConInv, NEW t \in Modulos, EnlazaSocket(t)
  PROVE  ConInv'
<1>0. /\ ConInvLibre /\ ConTipo /\ (calma => ConInvCalma)
      /\ DuenioVivo /\ HiloConNumero /\ ColaNueva /\ SinConectar
      /\ HandshakePrimero /\ CierraConMotivo
  BY DEF ConInv, ConInvLibre
<1>01. /\ modulo \in [Modulos -> Etapas]
      /\ ida \in [Modulos -> Seq({"HANDSHAKE", "SOLICITUD"})]
      /\ vuelta \in [Modulos -> Seq(Modulos)]
      /\ tabla_fd \in [Fds -> Modulos \union {Ninguno}]
      /\ por_aceptar \in Seq(Modulos)
      /\ Lugar \in [Modulos -> Lugares]
      /\ Numero \in [Modulos -> {0} \union Fds]
      /\ Con \in [Modulos -> Modulos \union {Ninguno}]
      /\ Paquete \in [Modulos -> Operaciones]
      /\ Vista \in [Modulos -> Listas]
      /\ Ninguno \notin Modulos
  BY <1>0, CamposTipo DEF ConTipo
<1>02. /\ Lugar[t] = "enlaza" /\ Numero[t] \in Fds /\ t \in Vivos /\ t \in Enlazan
       /\ Vista[t] \in Listas /\ lista_sockets_conectados \in Listas
  BY <1>0, <1>01, Campos DEF EnlazaSocket, HiloConNumero, Vivos, Enlazan, ConTipo
<1>03. /\ lista_sockets_conectados' \in Listas
       /\ Numeros(lista_sockets_conectados')
              \subseteq Numeros(lista_sockets_conectados) \union {Numero[t]}
       /\ Vista[t] = lista_sockets_conectados =>
              Numeros(lista_sockets_conectados')
                  = Numeros(lista_sockets_conectados) \union {Numero[t]}
  <2> DEFINE nuevo == [hilo |-> t, fd |-> Numero[t]]
             lista == [Vista[t] EXCEPT !.sockets = Append(@, nuevo)]
             cabe == /\ Vista[t].num = lista_sockets_conectados.num
                     /\ IsPrefix(Vista[t].sockets, lista_sockets_conectados.sockets)
  <2>1. lista_sockets_conectados' = IF cabe THEN lista ELSE lista_sockets_conectados
    BY Campos DEF EnlazaSocket
  <2>2. nuevo \in Socket /\ nuevo.fd = Numero[t]
    BY <1>02 DEF Socket
  <2>3. Vista[t] = lista_sockets_conectados => cabe
    BY DEF IsPrefix
  <2>4. ASSUME cabe
        PROVE  /\ lista \in Listas
               /\ Numeros(lista) \subseteq
                      Numeros(lista_sockets_conectados) \union {Numero[t]}
               /\ lista_sockets_conectados = Vista[t] =>
                      Numeros(lista) =
                          Numeros(lista_sockets_conectados) \union {Numero[t]}
    BY <1>02, <2>2, <2>4, NumerosAppend
  <2> HIDE DEF lista, cabe, nuevo
  <2> QED
    BY <1>02, <2>1, <2>3, <2>4
<1>1. /\ UNCHANGED <<calma, por_aceptar, modulo, ida, vuelta, tabla_fd, Numero, Con,
                   Paquete>>
      /\ Lugar[t] = "enlaza"
      /\ Lugar' = [Lugar EXCEPT ![t] = "recibe"]
      /\ \A x \in Modulos : x # t => Vista'[x] = Vista[x]
      /\ Numeros(lista_sockets_conectados') \subseteq Numeros(lista_sockets_conectados) \union {Numero[t]}
      /\ Vista[t] = lista_sockets_conectados =>
             Numeros(lista_sockets_conectados') = Numeros(lista_sockets_conectados) \union {Numero[t]}
      /\ atencion' \in [Modulos -> Hilos]
  <2> DEFINE h == [atencion[t] EXCEPT !.lugar = "recibe", !.vista = NULL]
  <2>1. UNCHANGED <<calma, por_aceptar, modulo, ida, vuelta, tabla_fd>>
    BY DEF EnlazaSocket, vModulos
  <2>2. /\ h \in Hilos
        /\ h.lugar = "recibe"
        /\ h.fd = atencion[t].fd
        /\ h.con = atencion[t].con
        /\ h.paquete = atencion[t].paquete
        /\ h.vista = NULL
    BY <1>0, NULLHechos DEF ConTipo, Hilos, Lugares
  <2>3. atencion' = [atencion EXCEPT ![t] = h]
    BY DEF EnlazaSocket
  <2> HIDE DEF h
  <2>4. /\ Lugar' = [Lugar EXCEPT ![t] = h.lugar]
        /\ Numero' = [Numero EXCEPT ![t] = h.fd]
        /\ Con' = [Con EXCEPT ![t] = h.con]
        /\ Paquete' = [Paquete EXCEPT ![t] = h.paquete]
        /\ Vista' = [Vista EXCEPT ![t] = h.vista]
        /\ atencion' \in [Modulos -> Hilos]
    BY <1>0, <2>2, <2>3, CambiaHilo
  <2>5. \A x \in Modulos : x # t => Vista'[x] = Vista[x]
    BY <1>01, <2>4
  <2> QED
    <3>1. Numero' = Numero /\ Con' = Con /\ Paquete' = Paquete
      <4>1. h.fd = Numero[t] /\ h.con = Con[t] /\ h.paquete = Paquete[t]
        BY <2>2, Campos
      <4> QED
        BY <1>01, <2>4, <4>1
    <3> QED
      BY <1>02, <1>03, <2>1, <2>2, <2>4, <2>5, <3>1
<1>2. ConTipo'
  BY <1>0, <1>03, <1>1 DEF EnlazaSocket, ConTipo, vModulos
<1>3. /\ UNCHANGED <<Vivos, Suyos, Abiertas, Repetidos>>
      /\ Enlazan' = Enlazan \ {t}
      /\ \A m \in Modulos : m \in Anotados' =>
             m \in Anotados \/ Numero[m] = Numero[t]
      /\ Vista[t] = lista_sockets_conectados =>
             Anotados \union {t} \subseteq Anotados'
  <2>1. UNCHANGED <<Vivos, Abiertas>> /\ Enlazan' = Enlazan \ {t}
    BY <1>01, <1>1 DEF Vivos, Enlazan, Abiertas
  <2>2. /\ \A m \in Modulos : m \in Anotados' =>
               m \in Anotados \/ Numero[m] = Numero[t]
        /\ Vista[t] = lista_sockets_conectados =>
               Anotados \union {t} \subseteq Anotados'
    BY <1>1 DEF Anotados
  <2> QED
    BY <1>1, <2>1, <2>2, MismosHilos
<1>31. Lugar'[t] = "recibe" /\ \A x \in Modulos : x # t => Lugar'[x] = Lugar[x]
  BY <1>01, <1>1
<1>4. DuenioVivo'
  BY <1>0, <1>01, <1>1, <1>3 DEF DuenioVivo
<1>5. HiloConNumero'
  BY <1>0, <1>01, <1>1, <1>3 DEF HiloConNumero
<1>6. ColaNueva'
  BY <1>0, <1>01, <1>1, <1>3 DEF ColaNueva
<1>7. SinConectar'
  BY <1>0, <1>01, <1>1, <1>3 DEF SinConectar
<1>8. HandshakePrimero'
  BY <1>0, <1>01, <1>1, <1>3 DEF HandshakePrimero
<1>9. CierraConMotivo'
  <2>1. \A m \in Suyos : Lugar'[m] = "retardo" =>
            m \notin Anotados' \/ m \in Repetidos
    BY <1>0, <1>02, <1>3, <1>31 DEF CierraConMotivo, Suyos, Vivos, Repetidos
  <2> QED
    BY <1>0, <1>1, <1>3, <1>31, <2>1 DEF CierraConMotivo, Suyos, Vivos
<1>10. ConInvLibre'
  BY <1>2, <1>4, <1>5, <1>6, <1>7, <1>8, <1>9 DEF ConInvLibre
<1>11. ASSUME calma PROVE ConInvCalma'
  <2>0. /\ UnoOcupado /\ SinCompartir /\ Conectado /\ SinHandshake
        /\ CierraSiSalio /\ AtendidoEnLista /\ ListaDeUno
    BY <1>0, <1>11 DEF ConInvCalma
  <2>01. \A m \in Enlazan : m = t
    BY <1>02, <2>0 DEF UnoOcupado, Ocupados, Enlazan
  <2>02. Vista[t] = lista_sockets_conectados
    BY <1>02, <2>0 DEF ListaDeUno
  <2>1. UnoOcupado'
    BY <1>0, <1>01, <1>1, <1>3, <2>0 DEF UnoOcupado, Ocupados
  <2>2. SinCompartir'
    BY <1>0, <1>01, <1>1, <1>3, <2>0 DEF SinCompartir
  <2>3. Conectado'
    BY <1>0, <1>01, <1>1, <1>3, <2>0 DEF Conectado
  <2>4. SinHandshake'
    BY <1>0, <1>01, <1>1, <1>3, <2>0 DEF SinHandshake
  <2>5. CierraSiSalio'
    BY <1>0, <1>01, <1>1, <1>3, <2>0 DEF CierraSiSalio
  <2>6. AtendidoEnLista'
    <3>1. Atendidos' = Atendidos
      BY <1>1, <1>31 DEF Atendidos
    <3> QED
      BY <1>3, <2>0, <2>02, <3>1 DEF AtendidoEnLista
  <2>7. ListaDeUno'
    BY <1>1, <1>31, <2>01 DEF ListaDeUno, Enlazan
  <2> QED
    BY <2>1, <2>2, <2>3, <2>4, <2>5, <2>6, <2>7 DEF ConInvCalma
<1> QED
  BY <1>1, <1>10, <1>11 DEF ConInv

LEMMA LiberaConexionConserva ==
  ASSUME ConInv, NEW t \in Modulos, LiberaConexion(t)
  PROVE  ConInv'
<1>0. /\ ConInvLibre /\ ConTipo /\ (calma => ConInvCalma)
      /\ DuenioVivo /\ HiloConNumero /\ ColaNueva /\ SinConectar
      /\ HandshakePrimero /\ CierraConMotivo
  BY DEF ConInv, ConInvLibre
<1>01. /\ modulo \in [Modulos -> Etapas]
      /\ ida \in [Modulos -> Seq({"HANDSHAKE", "SOLICITUD"})]
      /\ vuelta \in [Modulos -> Seq(Modulos)]
      /\ tabla_fd \in [Fds -> Modulos \union {Ninguno}]
      /\ por_aceptar \in Seq(Modulos)
      /\ Lugar \in [Modulos -> Lugares]
      /\ Numero \in [Modulos -> {0} \union Fds]
      /\ Con \in [Modulos -> Modulos \union {Ninguno}]
      /\ Paquete \in [Modulos -> Operaciones]
      /\ Vista \in [Modulos -> Listas]
      /\ Ninguno \notin Modulos
  BY <1>0, CamposTipo DEF ConTipo
<1>1. /\ UNCHANGED <<calma, por_aceptar, modulo, ida, vuelta, lista_sockets_conectados,
                   Numero, Con, Paquete, Vista>>
      /\ Lugar[t] = "retardo"
      /\ Lugar' = [Lugar EXCEPT ![t] = "fin"]
      /\ tabla_fd' = [tabla_fd EXCEPT ![Numero[t]] = Ninguno]
  BY <1>0, Campos, CambiaLugar DEF LiberaConexion, Pasa, Cierra, vModulos, Lugares
<1>2. ConTipo'
  BY <1>0, <1>1, CambiaLugar
     DEF LiberaConexion, Pasa, Cierra, vModulos, Lugares, ConTipo
<1>3. /\ UNCHANGED <<Enlazan, Anotados>>
      /\ Vivos' = Vivos \ {t}
      /\ Suyos' \subseteq Suyos \ {t}
      /\ Abiertas' \subseteq Abiertas
      /\ \A m \in Suyos' : m \in Repetidos => m \in Repetidos'
  <2>1. t \in Vivos /\ Numero[t] \in Fds
    BY <1>0, <1>1 DEF Vivos, HiloConNumero
  <2>2. Vivos' = Vivos \ {t}
    BY <1>01, <1>1 DEF Vivos
  <2>3. Enlazan' = Enlazan /\ Anotados' = Anotados
    BY <1>01, <1>1 DEF Enlazan, Anotados
  <2>4. /\ \A f \in Fds : tabla_fd'[f] \in {tabla_fd[f], Ninguno}
        /\ tabla_fd'[Numero[t]] = Ninguno
    BY <1>01, <1>1, <2>1
  <2>5. Abiertas' \subseteq Abiertas
    BY <1>01, <1>1, <2>4 DEF Abiertas
  <2>6. \A m \in Suyos' : m \in Suyos /\ m # t /\ Numero[m] # Numero[t]
    <3> SUFFICES ASSUME NEW m \in Suyos'
                 PROVE  m \in Suyos /\ m # t /\ Numero[m] # Numero[t]
      OBVIOUS
    <3>1. m \in Vivos /\ m # t /\ tabla_fd'[Numero[m]] = m /\ m # Ninguno
      BY <1>01, <1>1, <2>2 DEF Suyos, Vivos
    <3>2. Numero[m] \in Fds
      BY <1>0, <3>1 DEF Vivos, HiloConNumero
    <3> QED
      BY <2>4, <3>1, <3>2 DEF Suyos
  <2>7. \A m \in Suyos' : m \in Repetidos => m \in Repetidos'
    BY <1>1, <2>2, <2>6 DEF Repetidos
  <2> QED
    BY <2>2, <2>3, <2>5, <2>6, <2>7
<1>4. DuenioVivo'
  BY <1>0, <1>01, <1>1, <1>3 DEF DuenioVivo
<1>5. HiloConNumero'
  BY <1>0, <1>01, <1>1, <1>3 DEF HiloConNumero
<1>6. ColaNueva'
  BY <1>0, <1>01, <1>1, <1>3 DEF ColaNueva
<1>7. SinConectar'
  BY <1>0, <1>01, <1>1, <1>3 DEF SinConectar
<1>8. HandshakePrimero'
  BY <1>0, <1>01, <1>1, <1>3 DEF HandshakePrimero
<1>9. CierraConMotivo'
  BY <1>0, <1>01, <1>1, <1>3 DEF CierraConMotivo
<1>10. ConInvLibre'
  BY <1>2, <1>4, <1>5, <1>6, <1>7, <1>8, <1>9 DEF ConInvLibre
<1>11. ASSUME calma PROVE ConInvCalma'
  <2>0. /\ UnoOcupado /\ SinCompartir /\ Conectado /\ SinHandshake
        /\ CierraSiSalio /\ AtendidoEnLista /\ ListaDeUno
    BY <1>0, <1>11 DEF ConInvCalma
  <2>01. modulo[t] = "salio"
    BY <1>1, <2>0 DEF CierraSiSalio
  <2>02. \A m \in Suyos : m # t => m \in Suyos'
    <3> SUFFICES ASSUME NEW m \in Suyos, m # t PROVE m \in Suyos'
      OBVIOUS
    <3>1. m \in Vivos /\ t \in Vivos /\ tabla_fd[Numero[m]] = m
      BY <1>1 DEF Suyos, Vivos
    <3>2. Numero[m] # Numero[t]
      BY <2>0, <3>1 DEF SinCompartir
    <3> QED
      BY <1>0, <1>01, <1>1, <1>3, <3>1, <3>2 DEF Suyos, Vivos, HiloConNumero
  <2>1. UnoOcupado'
    BY <1>0, <1>01, <1>1, <1>3, <2>0 DEF UnoOcupado, Ocupados
  <2>2. SinCompartir'
    BY <1>0, <1>01, <1>1, <1>3, <2>0 DEF SinCompartir
  <2>3. Conectado'
    BY <1>0, <1>01, <1>1, <1>3, <2>0, <2>01, <2>02 DEF Conectado
  <2>4. SinHandshake'
    BY <1>0, <1>01, <1>1, <1>3, <2>0 DEF SinHandshake
  <2>5. CierraSiSalio'
    BY <1>0, <1>01, <1>1, <1>3, <2>0 DEF CierraSiSalio
  <2>6. AtendidoEnLista'
    BY <1>0, <1>01, <1>1, <1>3, <2>0 DEF AtendidoEnLista, Atendidos
  <2>7. ListaDeUno'
    BY <1>0, <1>01, <1>1, <1>3, <2>0 DEF ListaDeUno
  <2> QED
    BY <2>1, <2>2, <2>3, <2>4, <2>5, <2>6, <2>7 DEF ConInvCalma
<1> QED
  BY <1>1, <1>10, <1>11 DEF ConInv

LEMMA EsperarClienteConserva ==
  ASSUME ConInv, EsperarCliente
  PROVE  ConInv'
<1>0. /\ ConInvLibre /\ ConTipo /\ (calma => ConInvCalma)
      /\ DuenioVivo /\ HiloConNumero /\ ColaNueva /\ SinConectar
      /\ HandshakePrimero /\ CierraConMotivo
  BY DEF ConInv, ConInvLibre
<1>01. /\ modulo \in [Modulos -> Etapas]
      /\ ida \in [Modulos -> Seq({"HANDSHAKE", "SOLICITUD"})]
      /\ vuelta \in [Modulos -> Seq(Modulos)]
      /\ tabla_fd \in [Fds -> Modulos \union {Ninguno}]
      /\ por_aceptar \in Seq(Modulos)
      /\ Lugar \in [Modulos -> Lugares]
      /\ Numero \in [Modulos -> {0} \union Fds]
      /\ Con \in [Modulos -> Modulos \union {Ninguno}]
      /\ Paquete \in [Modulos -> Operaciones]
      /\ Vista \in [Modulos -> Listas]
      /\ Ninguno \notin Modulos
  BY <1>0, CamposTipo DEF ConTipo
<1> DEFINE m == Head(por_aceptar)
<1>02. PICK f \in Fds :
         /\ NumeroLibre(f)
         /\ tabla_fd' = [tabla_fd EXCEPT ![f] = m]
         /\ atencion' = [atencion EXCEPT ![m].lugar = "recibe", ![m].fd = f]
  BY DEF EsperarCliente
<1>03. /\ m \in Modulos /\ Hay(por_aceptar, m) /\ por_aceptar # <<>>
       /\ \A x : Hay(Tail(por_aceptar), x) => Hay(por_aceptar, x)
       /\ \A x : Hay(por_aceptar, x) => x = m \/ Hay(Tail(por_aceptar), x)
       /\ ~Hay(Tail(por_aceptar), m) /\ Distintos(Tail(por_aceptar))
       /\ Tail(por_aceptar) \in Seq(Modulos)
  BY <1>0, <1>01, HayTail, DistintosHechos DEF EsperarCliente, ColaNueva
<1> HIDE DEF m
<1>04. /\ Lugar[m] = "no" /\ modulo[m] \in {"handshake", "salio"}
       /\ vuelta[m] = <<>> /\ ~Hay(ida[m], "SOLICITUD") /\ Con[m] = Ninguno
       /\ m \notin Vivos /\ m \notin Suyos
  BY <1>0, <1>03 DEF ColaNueva, HiloConNumero, Vivos, Suyos
<1>1. /\ UNCHANGED <<calma, modulo, ida, vuelta, lista_sockets_conectados, Con, Paquete,
                   Vista>>
      /\ por_aceptar # <<>> /\ f \in Fds /\ tabla_fd[f] = Ninguno
      /\ por_aceptar' = Tail(por_aceptar)
      /\ tabla_fd' = [tabla_fd EXCEPT ![f] = m]
      /\ Lugar' = [Lugar EXCEPT ![m] = "recibe"]
      /\ Numero' = [Numero EXCEPT ![m] = f]
      /\ atencion' \in [Modulos -> Hilos]
  <2> DEFINE h == [atencion[m] EXCEPT !.lugar = "recibe", !.fd = f]
  <2>1. /\ UNCHANGED <<calma, modulo, ida, vuelta, lista_sockets_conectados>>
        /\ por_aceptar' = Tail(por_aceptar) /\ tabla_fd[f] = Ninguno
    BY <1>02 DEF EsperarCliente, NumeroLibre
  <2>2. /\ h \in Hilos /\ h.lugar = "recibe" /\ h.fd = f
        /\ h.con = atencion[m].con /\ h.paquete = atencion[m].paquete
        /\ h.vista = atencion[m].vista
    BY <1>0, <1>03 DEF ConTipo, Hilos, Lugares
  <2>3. atencion' = [atencion EXCEPT ![m] = h]
    BY <1>02
  <2> HIDE DEF h
  <2>4. /\ Lugar' = [Lugar EXCEPT ![m] = h.lugar]
        /\ Numero' = [Numero EXCEPT ![m] = h.fd]
        /\ Con' = [Con EXCEPT ![m] = h.con]
        /\ Paquete' = [Paquete EXCEPT ![m] = h.paquete]
        /\ Vista' = [Vista EXCEPT ![m] = h.vista]
        /\ atencion' \in [Modulos -> Hilos]
    BY <1>0, <1>03, <2>2, <2>3, CambiaHilo
  <2>5. UNCHANGED <<Con, Paquete, Vista>>
    <3>1. h.con = Con[m] /\ h.paquete = Paquete[m] /\ h.vista = Vista[m]
      BY <1>03, <2>2, Campos
    <3> QED
      BY <1>01, <2>4, <3>1
  <2> QED
    BY <1>02, <1>03, <2>1, <2>2, <2>4, <2>5
<1>2. ConTipo'
  <2>1. tabla_fd' \in [Fds -> Modulos \union {Ninguno}]
    BY <1>01, <1>03, <1>1
  <2> QED
    BY <1>0, <1>03, <1>1, <2>1 DEF EsperarCliente, ConTipo
<1>3. /\ UNCHANGED <<Enlazan>>
      /\ Vivos' = Vivos \union {m} /\ Suyos' = Suyos \union {m}
      /\ \A x \in Abiertas' : x \in Abiertas
      /\ \A x \in Modulos : x # m =>
             /\ x \in Anotados' <=> x \in Anotados
             /\ x \in Repetidos => x \in Repetidos'
  <2>1. Vivos' = Vivos \union {m} /\ Enlazan' = Enlazan
    BY <1>01, <1>03, <1>04, <1>1 DEF Vivos, Enlazan
  <2>2. /\ \A x \in Modulos : x # m => Numero'[x] = Numero[x]
        /\ Numero'[m] = f
        /\ \A g \in Fds : g # f => tabla_fd'[g] = tabla_fd[g]
        /\ tabla_fd'[f] = m /\ tabla_fd[f] = Ninguno
    BY <1>01, <1>02, <1>03, <1>1
  <2>3. ASSUME NEW x \in Vivos, x # m
        PROVE  tabla_fd'[Numero'[x]] = x <=> tabla_fd[Numero[x]] = x
    <3>1. x \in Modulos /\ Numero[x] \in Fds
      BY <1>0, <2>3 DEF Vivos, HiloConNumero
    <3> QED
      BY <1>01, <2>2, <2>3, <3>1
  <2>4. Suyos' = Suyos \union {m}
    BY <1>04, <2>1, <2>2, <2>3 DEF Suyos
  <2>5. \A x \in Abiertas' : x \in Abiertas
    BY <1>01, <1>03, <1>1, <2>2 DEF Abiertas
  <2>6. \A x \in Modulos : x # m =>
            /\ x \in Anotados' <=> x \in Anotados
            /\ x \in Repetidos => x \in Repetidos'
    BY <1>1, <1>04, <2>1, <2>2 DEF Anotados, Repetidos, Vivos
  <2> QED
    BY <2>1, <2>4, <2>5, <2>6
<1>31. /\ \A x \in Modulos : x # m => Lugar'[x] = Lugar[x] /\ Numero'[x] = Numero[x]
       /\ Lugar'[m] = "recibe" /\ Numero'[m] = f
       /\ \A g \in Fds : g # f => tabla_fd'[g] = tabla_fd[g]
       /\ tabla_fd'[f] = m
  BY <1>01, <1>02, <1>03, <1>1
<1>4. DuenioVivo'
  BY <1>0, <1>04, <1>1, <1>3, <1>31 DEF DuenioVivo
<1>5. HiloConNumero'
  BY <1>0, <1>02, <1>04, <1>1, <1>31 DEF HiloConNumero
<1>6. ColaNueva'
  BY <1>0, <1>03, <1>04, <1>1, <1>31 DEF ColaNueva
<1>7. SinConectar'
  BY <1>0, <1>03, <1>04, <1>1, <1>31 DEF SinConectar
<1>8. HandshakePrimero'
  BY <1>0, <1>01, <1>1, <1>3 DEF HandshakePrimero
<1>9. CierraConMotivo'
  BY <1>0, <1>03, <1>04, <1>1, <1>3, <1>31
     DEF CierraConMotivo, Suyos, Vivos
<1>10. ConInvLibre'
  BY <1>2, <1>4, <1>5, <1>6, <1>7, <1>8, <1>9 DEF ConInvLibre
<1>11. ASSUME calma PROVE ConInvCalma'
  <2>0. /\ UnoOcupado /\ SinCompartir /\ Conectado /\ SinHandshake
        /\ CierraSiSalio /\ AtendidoEnLista /\ ListaDeUno
    BY <1>0, <1>11 DEF ConInvCalma
  <2>01. m \in Ocupados
    BY <1>03, <1>04 DEF Ocupados, Abiertas
  <2>02. \A x \in Vivos : Numero[x] # f
    <3> SUFFICES ASSUME NEW x \in Vivos, Numero[x] = f PROVE FALSE
      OBVIOUS
    <3>1. x \in Modulos /\ x \notin Suyos /\ x # m
      BY <1>01, <1>04, <1>1 DEF Suyos, Vivos
    <3>2. x \in Ocupados
      BY <3>1, <2>0 DEF Conectado, Ocupados
    <3> QED
      BY <2>0, <2>01, <3>1, <3>2 DEF UnoOcupado
  <2>1. UnoOcupado'
    <3>1. Ocupados' \subseteq Ocupados
      BY <1>1, <1>3, <2>01 DEF Ocupados
    <3> QED
      BY <2>0, <3>1 DEF UnoOcupado
  <2>2. SinCompartir'
    BY <1>3, <1>04, <1>31, <2>0, <2>02 DEF SinCompartir, Vivos
  <2>3. Conectado'
    BY <1>03, <1>1, <1>3, <2>0 DEF Conectado
  <2>4. SinHandshake'
    BY <1>1, <1>31, <2>0 DEF SinHandshake
  <2>5. CierraSiSalio'
    BY <1>1, <1>31, <2>0 DEF CierraSiSalio
  <2>6. AtendidoEnLista'
    <3>1. Atendidos' \subseteq Atendidos /\ m \notin Atendidos'
      BY <1>04, <1>1, <1>31 DEF Atendidos
    <3>2. Atendidos' \subseteq Modulos
      BY DEF Atendidos
    <3> QED
      BY <1>3, <2>0, <3>1, <3>2 DEF AtendidoEnLista
  <2>7. ListaDeUno'
    BY <1>1, <1>31, <2>0 DEF ListaDeUno
  <2> QED
    BY <2>1, <2>2, <2>3, <2>4, <2>5, <2>6, <2>7 DEF ConInvCalma
<1> QED
  BY <1>1, <1>10, <1>11 DEF ConInv

-----------------------------------------------------------------------------
LEMMA ConInitInv == ConInit => ConInv
<1> SUFFICES ASSUME ConInit PROVE ConInv
  OBVIOUS
<1>1. /\ Len(<<>>) = 0 /\ (\A S : <<>> \in Seq(S)) /\ \A x : ~Hay(<<>>, x)
      /\ AlPrincipio(<<>>) /\ Distintos(<<>>)
  BY HayVacia
<1>2. ConTipo
  <2>1. NULL \in Listas
    BY NULLHechos
  <2>2. [lugar |-> "no", fd |-> 0, con |-> Ninguno, paquete |-> "DESCONEXION",
         vista |-> NULL] \in Hilos
    BY <2>1 DEF Hilos, Lugares, Operaciones
  <2>3. atencion \in [Modulos -> Hilos]
    BY <2>2 DEF ConInit
  <2>4. /\ por_aceptar \in Seq(Modulos)
        /\ ida \in [Modulos -> Seq({"HANDSHAKE", "SOLICITUD"})]
        /\ vuelta \in [Modulos -> Seq(Modulos)]
    BY <1>1, Zenon DEF ConInit
  <2>5. accesos \in [Modulos -> 0..MaxAccesos]
    BY ConexionesAssumption DEF ConInit
  <2>6. /\ modulo \in [Modulos -> Etapas]
        /\ tabla_fd \in [Fds -> Modulos \union {Ninguno}]
        /\ lista_sockets_conectados \in Listas
    BY <2>1 DEF ConInit, Etapas
  <2> QED
    BY <2>3, <2>4, <2>5, <2>6 DEF ConInit, ConTipo
<1>3. /\ por_aceptar = <<>> /\ Ninguno \notin Modulos
      /\ \A f \in Fds : tabla_fd[f] = Ninguno
      /\ lista_sockets_conectados = NULL
      /\ \A m \in Modulos :
             /\ Lugar[m] = "no" /\ Numero[m] = 0 /\ Con[m] = Ninguno
             /\ modulo[m] = "apagado" /\ ida[m] = <<>> /\ vuelta[m] = <<>>
  BY <1>2, CamposTipo DEF ConInit, Lugar, Numero, Con
<1>4. Vivos = {} /\ Suyos = {} /\ Enlazan = {} /\ Ocupados = {} /\ Atendidos = {}
  BY <1>1, <1>3 DEF Vivos, Suyos, Enlazan, Ocupados, Atendidos
<1>5. ConInvLibre
  BY <1>1, <1>2, <1>3, <1>4
     DEF ConInvLibre, DuenioVivo, HiloConNumero, ColaNueva, SinConectar,
         HandshakePrimero, CierraConMotivo
<1>6. ConInvCalma
  BY <1>1, <1>3, <1>4
     DEF ConInvCalma, UnoOcupado, SinCompartir, Conectado, SinHandshake,
         CierraSiSalio, AtendidoEnLista, ListaDeUno
<1> QED
  BY <1>5, <1>6 DEF ConInv

LEMMA ConQuietoInv == ASSUME ConInv, UNCHANGED con_vars PROVE ConInv'
<1>1. /\ UNCHANGED <<calma, escucha, por_aceptar, modulo, accesos, ida, vuelta,
                     tabla_fd, atencion, lista_sockets_conectados>>
      /\ UNCHANGED <<Lugar, Numero, Con, Paquete, Vista>>
  BY DEF con_vars, Lugar, Numero, Con, Paquete, Vista
<1>2. UNCHANGED <<Vivos, Suyos, Enlazan, Abiertas, Anotados, Repetidos>>
  BY <1>1, SoloModulo
<1>3. UNCHANGED <<Ocupados, Atendidos>>
  BY <1>1, <1>2 DEF Ocupados, Atendidos
<1>4. ConInvLibre'
  BY <1>1, <1>2
     DEF ConInv, ConInvLibre, ConTipo, DuenioVivo, HiloConNumero, ColaNueva,
         SinConectar, HandshakePrimero, CierraConMotivo
<1>5. calma => ConInvCalma'
  BY <1>1, <1>2, <1>3
     DEF ConInv, ConInvCalma, UnoOcupado, SinCompartir, Conectado, SinHandshake,
         CierraSiSalio, AtendidoEnLista, ListaDeUno
<1> QED
  BY <1>1, <1>4, <1>5 DEF ConInv

LEMMA ConPaso == ConInv /\ [ConNext]_con_vars => ConInv'
<1> SUFFICES ASSUME ConInv, [ConNext]_con_vars PROVE ConInv'
  OBVIOUS
<1>1. CASE UNCHANGED con_vars
  BY <1>1, ConQuietoInv
<1>2. CASE IniciarServidor \/ EsperarCliente
  BY <1>2, IniciarServidorConserva, EsperarClienteConserva
<1>3. ASSUME NEW m \in Modulos, ModuloNext(m) PROVE ConInv'
  BY <1>3, ArrancaConserva, CrearConexionConserva, SolicitaConserva,
     RecibeRespuestaConserva, RecibeCorteConserva, TerminaModuloConserva
     DEF ModuloNext
<1>4. ASSUME NEW m \in Modulos, AtiendeNext(m) PROVE ConInv'
  BY <1>4, LlamaRecvConserva, RecibeConserva, CierraDeserializarConserva,
     ValidaYCortaConserva, AtiendeHandshakeConserva, AtiendeSolicitudConserva,
     AtiendeDesconexionConserva, MiraListaConserva, CreaListaConserva,
     AgregaSocketConserva, EnlazaSocketConserva, LiberaConexionConserva
     DEF AtiendeNext
<1> QED
  BY <1>1, <1>2, <1>3, <1>4 DEF ConNext

LEMMA CompartenDef ==
  ASSUME NEW m \in Modulos
  PROVE  Comparten(m) <=> m \in Repetidos
  BY DEF Comparten, Vivo, Repetidos, Vivos, Lugar, Numero

(* Only two steps close a number. *)
LEMMA QuienCierra ==
  ASSUME [ConNext]_con_vars
  PROVE  \/ UNCHANGED tabla_fd
         \/ \E f \in Fds : tabla_fd[f] = Ninguno
                           /\ \E x : tabla_fd' = [tabla_fd EXCEPT ![f] = x]
         \/ \E t \in Modulos : CierraDeserializar(t) \/ LiberaConexion(t)
<1>1. CASE UNCHANGED con_vars
  BY <1>1 DEF con_vars
<1>2. CASE IniciarServidor
  BY <1>2 DEF IniciarServidor, vServidor
<1>3. CASE EsperarCliente
  BY <1>3 DEF EsperarCliente, NumeroLibre
<1>4. ASSUME NEW m \in Modulos, ModuloNext(m) PROVE UNCHANGED tabla_fd
  BY <1>4 DEF ModuloNext, Arranca, CrearConexion, Solicita, RecibeRespuesta,
              RecibeCorte, TerminaModulo, vServidor
<1>5. ASSUME NEW t \in Modulos, AtiendeNext(t), ~CierraDeserializar(t),
             ~LiberaConexion(t)
      PROVE  UNCHANGED tabla_fd
  BY <1>5 DEF AtiendeNext, LlamaRecv, Recibe, ValidaYCorta, AtiendeHandshake,
              AtiendeSolicitud, AtiendeDesconexion, MiraLista, CreaLista,
              AgregaSocket, EnlazaSocket
<1> QED
  BY <1>1, <1>2, <1>3, <1>4, <1>5 DEF ConNext

LEMMA CortePaso ==
  ASSUME ConInv, [ConNext]_con_vars, NEW m \in Modulos,
         TieneNumero(m), ~TieneNumero(m)', modulo[m] \notin {"salio", "cortado"}
  PROVE  ~calma /\ (Comparten(m) \/ Olvidado(m))
<1>0. /\ ConTipo /\ DuenioVivo /\ HiloConNumero /\ CierraConMotivo
      /\ (calma => SinCompartir /\ CierraSiSalio)
      /\ tabla_fd \in [Fds -> Modulos \union {Ninguno}] /\ Ninguno \notin Modulos
  BY CamposTipo DEF ConInv, ConInvLibre, ConInvCalma, ConTipo
<1>1. PICK f \in Fds : tabla_fd[f] = m /\ tabla_fd'[f] # m
  BY DEF TieneNumero
<1>2. m \in Vivos /\ Numero[m] = f /\ m \in Suyos
  BY <1>0, <1>1 DEF DuenioVivo, Suyos
<1>3. PICK t \in Modulos : CierraDeserializar(t) \/ LiberaConexion(t)
  BY <1>0, <1>1, QuienCierra
<1>4. /\ t \in Vivos /\ tabla_fd' = [tabla_fd EXCEPT ![Numero[t]] = Ninguno]
      /\ \/ Lugar[t] = "close"
         \/ Lugar[t] = "retardo"
  BY <1>3, Campos DEF CierraDeserializar, LiberaConexion, Pasa, Cierra, Vivos
<1>5. Numero[t] = f
  BY <1>0, <1>1, <1>4
<1>6. CASE t # m
  BY <1>0, <1>2, <1>4, <1>5, <1>6, CompartenDef DEF Repetidos, SinCompartir
<1>7. CASE t = m
  <2>1. Lugar[m] = "retardo" /\ modulo[m] # "handshake"
    BY <1>0, <1>2, <1>4, <1>7 DEF CierraConMotivo
  <2>2. m \notin Anotados \/ m \in Repetidos
    BY <1>0, <1>2, <2>1 DEF CierraConMotivo
  <2>3. ~calma
    BY <1>0, <2>1 DEF CierraSiSalio
  <2>4. m \notin Anotados => Olvidado(m)
    BY <2>1, Campos, EnListaNumeros DEF Olvidado, Anotados
  <2> QED
    BY <2>2, <2>3, <2>4, CompartenDef
<1> QED
  BY <1>6, <1>7

(* Only three steps touch the replies. *)
LEMMA QuienResponde ==
  ASSUME [ConNext]_con_vars
  PROVE  \/ UNCHANGED vuelta
         \/ \E x \in Modulos : RecibeRespuesta(x) \/ TerminaModulo(x)
         \/ \E x \in Modulos : atencion[x].lugar = "valida" /\ Responde(x)
<1>1. CASE UNCHANGED con_vars
  BY <1>1 DEF con_vars
<1>2. CASE IniciarServidor \/ EsperarCliente
  BY <1>2 DEF IniciarServidor, EsperarCliente
<1>3. ASSUME NEW m \in Modulos, ModuloNext(m), ~RecibeRespuesta(m),
             ~TerminaModulo(m)
      PROVE  UNCHANGED vuelta
  BY <1>3 DEF ModuloNext, Arranca, CrearConexion, Solicita, RecibeCorte
<1>4. ASSUME NEW t \in Modulos, AtiendeNext(t), ~AtiendeHandshake(t),
             ~AtiendeSolicitud(t)
      PROVE  UNCHANGED vuelta
  BY <1>4 DEF AtiendeNext, LlamaRecv, Recibe, CierraDeserializar, ValidaYCorta,
              AtiendeDesconexion, MiraLista, CreaLista, AgregaSocket,
              EnlazaSocket, LiberaConexion
<1>5. ASSUME NEW t \in Modulos, AtiendeHandshake(t) \/ AtiendeSolicitud(t)
      PROVE  atencion[t].lugar = "valida" /\ Responde(t)
  BY <1>5 DEF AtiendeHandshake, AtiendeSolicitud, Pasa
<1> QED
  BY <1>1, <1>2, <1>3, <1>4, <1>5 DEF ConNext

LEMMA AppendUnico ==
  ASSUME NEW S, NEW s \in Seq(S), NEW t \in S
  PROVE  /\ Append(s, t) # s /\ Append(s, t) # <<>>
         /\ s # <<>> => Append(s, t) # Tail(s)
         /\ \A x \in S : Append(s, x) = Append(s, t) => x = t
<1>1. /\ Len(s) \in Nat /\ Len(Append(s, t)) = Len(s) + 1
      /\ Append(s, t)[Len(s) + 1] = t
      /\ \A x \in S : Append(s, x)[Len(s) + 1] = x
  OBVIOUS
<1>2. s # <<>> => Len(Tail(s)) = Len(s) - 1
  OBVIOUS
<1> QED
  BY <1>1, <1>2

LEMMA RespuestaPaso ==
  ASSUME ConInv, [ConNext]_con_vars, NEW m \in Modulos, NEW t \in Modulos,
         vuelta'[m] = Append(vuelta[m], t), t # m
  PROVE  ~calma /\ Comparten(t)
<1>0. /\ DuenioVivo /\ HiloConNumero /\ (calma => SinCompartir)
      /\ vuelta \in [Modulos -> Seq(Modulos)] /\ Ninguno \notin Modulos
  BY CamposTipo DEF ConInv, ConInvLibre, ConInvCalma, ConTipo
<1>1. /\ vuelta'[m] # vuelta[m] /\ vuelta'[m] # <<>>
      /\ vuelta[m] # <<>> => vuelta'[m] # Tail(vuelta[m])
  BY <1>0, AppendUnico
<1>2. ASSUME NEW x \in Modulos, RecibeRespuesta(x) \/ TerminaModulo(x) PROVE FALSE
  BY <1>0, <1>1, <1>2 DEF RecibeRespuesta, TerminaModulo
<1>3. PICK x \in Modulos : atencion[x].lugar = "valida" /\ Responde(x)
  BY <1>1, <1>2, QuienResponde
<1>4. tabla_fd[Numero[x]] = m /\ vuelta'[m] = Append(vuelta[m], x)
  BY <1>0, <1>1, <1>3, Campos DEF Responde
<1>5. x = t
  BY <1>0, <1>4, AppendUnico
<1>6. t \in Vivos /\ Numero[t] \in Fds
  BY <1>0, <1>3, <1>5, Campos DEF Vivos, HiloConNumero
<1>7. m \in Vivos /\ Numero[m] = Numero[t]
  BY <1>0, <1>4, <1>5, <1>6 DEF DuenioVivo
<1> QED
  BY <1>0, <1>6, <1>7, CompartenDef DEF Repetidos, SinCompartir

LEMMA ConInvTipo == ConInv => ConTypeOK
<1> SUFFICES ASSUME ConInv PROVE ConTypeOK
  OBVIOUS
<1>1. ConTipo
  BY DEF ConInv, ConInvLibre
<1>2. Seq({"HANDSHAKE", "SOLICITUD"}) \subseteq Seq(Operaciones)
  BY DEF Operaciones
<1> QED
  BY <1>1, <1>2 DEF ConTipo, ConTypeOK, Hilos

(***************************************************************************)
(* The threads, the descriptors, the packets and the list have values of   *)
(* their types, and a thread that waits in recv does it on a connection    *)
(* (atender_cliente).                                                      *)
(***************************************************************************)
THEOREM ConTypeOKSiempre == ConSpec => []ConTypeOK
<1> QED
  BY ConInitInv, ConPaso, ConInvTipo, PTL DEF ConSpec

(***************************************************************************)
(* For any number of modules, started, stopped and connected in any order: *)
(* memoria closes the connection of a module that is still there only if   *)
(* two threads have its number or the list of handshakes lost it, and      *)
(* never when modules come and go one at a time (conexion.c:162,           *)
(* memoria-utils.c:189 and 287).                                           *)
(***************************************************************************)
THEOREM CorteExplicadoSiempre == ConSpec => CorteExplicado
<1>1. ConInv /\ [ConNext]_con_vars =>
        [\A m \in Modulos :
            TieneNumero(m) /\ ~TieneNumero(m)' /\ modulo[m] \notin {"salio", "cortado"}
                => ~calma /\ (Comparten(m) \/ Olvidado(m))]_con_vars
  BY CortePaso
<1> QED
  BY <1>1, ConInitInv, ConPaso, PTL DEF ConSpec, CorteExplicado

(***************************************************************************)
(* The reply to a module is that of the thread of its own connection,      *)
(* unless two threads have one number, which does not happen when modules  *)
(* come and go one at a time (responder_rta_ok_error, server_handshake).   *)
(***************************************************************************)
THEOREM RespuestaPropiaSiempre == ConSpec => RespuestaPropia
<1>1. ConInv /\ [ConNext]_con_vars =>
        [\A m, t \in Modulos :
            vuelta'[m] = Append(vuelta[m], t) /\ t # m => ~calma /\ Comparten(t)]_con_vars
  BY RespuestaPaso
<1> QED
  BY <1>1, ConInitInv, ConPaso, PTL DEF ConSpec, RespuestaPropia

=============================================================================
