----------------------------- MODULE Interfaces -----------------------------
(***************************************************************************)
(* The I/O interfaces as the kernel serves them (kernel/src/interfaces.c): *)
(* for each one a thread IN that reads its socket and a thread OUT that    *)
(* hands it one process at a time; and, at the other end of the socket,    *)
(* the device (entradasalida/src/main.c), which answers each request with  *)
(* IO_FIN or goes away.                                                    *)
(*                                                                         *)
(* A process in a device keeps its mx_PCB taken: OUT takes it and IN gives *)
(* it back when the answer comes.                                          *)
(***************************************************************************)
EXTENDS KernelEstado

VARIABLES
    occupant,       \* interface->occupant
    sem_occupied,   \* interface->sem_occupied
    pc_in,          \* where atender_interface_IN is
    pc_out,         \* where atender_interface_OUT is
    pid_out,        \* the PID it took from cola_blocked
    a_disp,         \* requests in the socket to the device
    de_disp,        \* answers in the socket from it
    disp            \* the device: "apagado", "libre", "operando", "caido"

vIfaceHilos == <<occupant, sem_occupied, pc_in, pc_out, pid_out,
                 a_disp, de_disp, disp>>

InterfacesInit ==
    /\ occupant = [i \in Ifaces |-> Nadie]
    /\ sem_occupied = [i \in Ifaces |-> 0]
    /\ pc_in = [i \in Ifaces |-> "fuera"]
    /\ pc_out = [i \in Ifaces |-> "fuera"]
    /\ pid_out = [i \in Ifaces |-> Nadie]
    /\ a_disp = [i \in Ifaces |-> <<>>]
    /\ de_disp = [i \in Ifaces |-> <<>>]
    /\ disp = [i \in Ifaces |-> "apagado"]

(* What no thread of this module touches. *)
vResto == <<vNew, vProg, vPausa, vRec, mx_recurso, vCpu,
            memoria, pc, actual, otro, vElim, vPlan>>

SinCambioPCB == UNCHANGED <<estado, quantum, retorno, mx_PCB, vReady, vExit>>

-----------------------------------------------------------------------------
(* The device connects and gives its name and type: ENVIO_NOMBRE_INTERFAZ  *)
(* makes the t_interface usable and starts OUT.                            *)
Conecta(i) ==
    /\ disp[i] = "apagado"
    /\ SinPausa
    /\ disp' = [disp EXCEPT ![i] = "libre"]
    /\ en_lista' = [en_lista EXCEPT ![i] = TRUE]
    /\ conectada' = [conectada EXCEPT ![i] = TRUE]
    /\ sem_occupied' = [sem_occupied EXCEPT ![i] = 1]
    /\ pc_in' = [pc_in EXCEPT ![i] = "lee"]
    /\ pc_out' = [pc_out EXCEPT ![i] = "espera"]
    /\ SinCambioPCB
    /\ UNCHANGED <<vResto, cola_io, sem_cola_io, mx_interface, occupant, pid_out,
                   a_disp, de_disp>>

-----------------------------------------------------------------------------
(* recibir_paquete and check_pause of IN. *)
InRecibe(i) ==
    /\ pc_in[i] = "lee"
    /\ de_disp[i] # <<>>
    /\ SinPausa
    /\ pc_in' = [pc_in EXCEPT ![i] = Head(de_disp[i])]
    /\ de_disp' = [de_disp EXCEPT ![i] = Tail(@)]
    /\ SinCambioPCB
    /\ UNCHANGED <<vResto, vIface, occupant, sem_occupied, pc_out, pid_out,
                   a_disp, disp>>

(* IO_FIN: the occupant is unblocked and its mx_PCB, taken by OUT, posted. *)
InIOFin(i) ==
    LET p == occupant[i] IN
    /\ pc_in[i] = "IO_FIN"
    /\ Libre(mx_interface, i)
    /\ p # Nadie
    /\ Desbloquear(p)
    /\ mx_PCB' = Soltado(mx_PCB, p)
    /\ occupant' = [occupant EXCEPT ![i] = Nadie]
    /\ sem_occupied' = [sem_occupied EXCEPT ![i] = @ + 1]
    /\ pc_in' = [pc_in EXCEPT ![i] = "lee"]
    /\ UNCHANGED <<retorno, vNew, vExit, vProg, vPausa, vRec, mx_recurso, vCpu,
                   memoria, pc, actual, otro, vElim, vPlan, vIface, pc_out,
                   pid_out, a_disp, de_disp, disp>>

(* Mutant: the PCB of the occupant stays locked. *)
InDesconexionSinPost(i) ==
    LET p == occupant[i] IN
    /\ pc_in[i] = "DESCONEXION"
    /\ Libre(mx_interface, i)
    /\ conectada' = [conectada EXCEPT ![i] = FALSE]
    /\ IF p # Nadie
       THEN /\ EnviarAExit(p, "INVALID_INTERFACE")
            /\ occupant' = [occupant EXCEPT ![i] = Nadie]
            /\ sem_occupied' = [sem_occupied EXCEPT ![i] = @ + 1]
       ELSE UNCHANGED <<estado, retorno, vExit, occupant, sem_occupied>>
    /\ cola_io' = [cola_io EXCEPT ![i] = Append(@, FinCola)]
    /\ sem_cola_io' = [sem_cola_io EXCEPT ![i] = @ + 1]
    /\ pc_in' = [pc_in EXCEPT ![i] = "fuera"]
    /\ UNCHANGED <<quantum, mx_PCB, vNew, vReady, vProg, vPausa, vRec, mx_recurso,
                   vCpu, memoria, pc, actual, otro, vElim, vPlan, en_lista,
                   mx_interface, pc_out, pid_out, a_disp, de_disp, disp>>

(* DESCONEXION: the occupant, if any, ends; the entry -1 will end OUT. *)
InDesconexion(i) ==
    LET p == occupant[i] IN
    /\ pc_in[i] = "DESCONEXION"
    /\ Libre(mx_interface, i)
    /\ conectada' = [conectada EXCEPT ![i] = FALSE]
    /\ IF p # Nadie
       THEN /\ EnviarAExit(p, "INVALID_INTERFACE")
            /\ mx_PCB' = Soltado(mx_PCB, p)
            /\ occupant' = [occupant EXCEPT ![i] = Nadie]
            /\ sem_occupied' = [sem_occupied EXCEPT ![i] = @ + 1]
       ELSE UNCHANGED <<estado, retorno, vExit, mx_PCB, occupant, sem_occupied>>
    /\ cola_io' = [cola_io EXCEPT ![i] = Append(@, FinCola)]
    /\ sem_cola_io' = [sem_cola_io EXCEPT ![i] = @ + 1]
    /\ pc_in' = [pc_in EXCEPT ![i] = "fuera"]
    /\ UNCHANGED <<quantum, vNew, vReady, vProg, vPausa, vRec, mx_recurso, vCpu,
                   memoria, pc, actual, otro, vElim, vPlan, en_lista,
                   mx_interface, pc_out, pid_out, a_disp, de_disp, disp>>

-----------------------------------------------------------------------------
(* The queue_pop of OUT, whose only reader this is, and check_pause. *)
OutToma(i) ==
    /\ pc_out[i] = "espera"
    /\ sem_cola_io[i] > 0
    /\ SinPausa
    /\ sem_cola_io' = [sem_cola_io EXCEPT ![i] = @ - 1]
    /\ cola_io' = [cola_io EXCEPT ![i] = Tail(@)]
    /\ IF Head(cola_io[i]) = FinCola
       THEN /\ pc_out' = [pc_out EXCEPT ![i] = "fuera"]
            /\ en_lista' = [en_lista EXCEPT ![i] = FALSE]
            /\ UNCHANGED pid_out
       ELSE /\ pc_out' = [pc_out EXCEPT ![i] = "sem_occupied"]
            /\ pid_out' = [pid_out EXCEPT ![i] = Head(cola_io[i])]
            /\ UNCHANGED en_lista
    /\ SinCambioPCB
    /\ UNCHANGED <<vResto, conectada, mx_interface, occupant, sem_occupied,
                   pc_in, a_disp, de_disp, disp>>

(* sem_occupied and then mx_interface, which only OUT keeps for long. *)
OutOcupa(i) ==
    /\ pc_out[i] = "sem_occupied"
    /\ sem_occupied[i] > 0
    /\ Libre(mx_interface, i)
    /\ sem_occupied' = [sem_occupied EXCEPT ![i] = @ - 1]
    /\ mx_interface' = Tomado(mx_interface, i)
    /\ pc_out' = [pc_out EXCEPT ![i] = "mx_PCB"]
    /\ SinCambioPCB
    /\ UNCHANGED <<vResto, en_lista, conectada, cola_io, sem_cola_io, occupant,
                   pc_in, pid_out, a_disp, de_disp, disp>>

(* The PCB is locked at last: the process goes to the device... *)
OutConPCB(i) ==
    /\ pc_out[i] = "mx_PCB"
    /\ Libre(mx_PCB, pid_out[i])
    /\ mx_interface' = Soltado(mx_interface, i)
    /\ pc_out' = [pc_out EXCEPT ![i] = "espera"]
    /\ pid_out' = [pid_out EXCEPT ![i] = Nadie]
    /\ UNCHANGED <<quantum, vReady, vResto, en_lista, conectada, cola_io,
                   sem_cola_io, pc_in, de_disp, disp>>

(* Mutant: interface->occupant is not set. *)
OutEntregaSinOcupante(i) ==
    LET p == pid_out[i] IN
    /\ OutConPCB(i)
    /\ estado[p] = "BLOCKED"
    /\ conectada[i]
    /\ mx_PCB' = Tomado(mx_PCB, p)
    /\ a_disp' = [a_disp EXCEPT ![i] = Append(@, p)]
    /\ UNCHANGED <<estado, retorno, vExit, sem_occupied, occupant>>

OutEntrega(i) ==
    LET p == pid_out[i] IN
    /\ OutConPCB(i)
    /\ estado[p] = "BLOCKED"
    /\ conectada[i]
    /\ occupant' = [occupant EXCEPT ![i] = p]
    /\ mx_PCB' = Tomado(mx_PCB, p)
    /\ a_disp' = [a_disp EXCEPT ![i] = Append(@, p)]
    /\ UNCHANGED <<estado, retorno, vExit, sem_occupied>>

(* ...or the interface has gone and the process ends... *)
OutRechaza(i) ==
    LET p == pid_out[i] IN
    /\ OutConPCB(i)
    /\ estado[p] = "BLOCKED"
    /\ ~conectada[i]
    /\ EnviarAExit(p, "INVALID_INTERFACE")
    /\ sem_occupied' = [sem_occupied EXCEPT ![i] = @ + 1]
    /\ UNCHANGED <<mx_PCB, occupant, a_disp>>

(* Mutant: the early way out does not post sem_occupied. *)
OutSalteaSinPost(i) ==
    /\ OutConPCB(i)
    /\ estado[pid_out[i]] # "BLOCKED"
    /\ UNCHANGED <<estado, retorno, vExit, mx_PCB, sem_occupied, occupant, a_disp>>

(* ...or the process was ended while it waited. *)
OutSaltea(i) ==
    /\ OutConPCB(i)
    /\ estado[pid_out[i]] # "BLOCKED"
    /\ sem_occupied' = [sem_occupied EXCEPT ![i] = @ + 1]
    /\ UNCHANGED <<estado, retorno, vExit, mx_PCB, occupant, a_disp>>

-----------------------------------------------------------------------------
(* The device takes a request, and answers it; it may go away at any time. *)
DispToma(i) ==
    /\ disp[i] = "libre"
    /\ a_disp[i] # <<>>
    /\ a_disp' = [a_disp EXCEPT ![i] = Tail(@)]
    /\ disp' = [disp EXCEPT ![i] = "operando"]
    /\ SinCambioPCB
    /\ UNCHANGED <<vResto, vIface, occupant, sem_occupied, pc_in, pc_out,
                   pid_out, de_disp>>

DispTermina(i) ==
    /\ disp[i] = "operando"
    /\ de_disp' = [de_disp EXCEPT ![i] = Append(@, "IO_FIN")]
    /\ disp' = [disp EXCEPT ![i] = "libre"]
    /\ SinCambioPCB
    /\ UNCHANGED <<vResto, vIface, occupant, sem_occupied, pc_in, pc_out,
                   pid_out, a_disp>>

DispCae(i) ==
    /\ disp[i] \in {"libre", "operando"}
    /\ de_disp' = [de_disp EXCEPT ![i] = Append(@, "DESCONEXION")]
    /\ disp' = [disp EXCEPT ![i] = "caido"]
    /\ SinCambioPCB
    /\ UNCHANGED <<vResto, vIface, occupant, sem_occupied, pc_in, pc_out,
                   pid_out, a_disp>>

InNext(i) == InRecibe(i) \/ InIOFin(i) \/ InDesconexion(i)
OutNext(i) == OutToma(i) \/ OutOcupa(i) \/ OutEntrega(i) \/ OutRechaza(i)
                \/ OutSaltea(i)
DispNext(i) == Conecta(i) \/ DispToma(i) \/ DispTermina(i) \/ DispCae(i)

InterfacesNext == \E i \in Ifaces : InNext(i) \/ OutNext(i) \/ DispNext(i)

=============================================================================
