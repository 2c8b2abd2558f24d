---------------------------- MODULE KernelEstado ----------------------------
(***************************************************************************)
(* The state the threads of the kernel share, and the operations several   *)
(* of them call: cambio_estado with enviar_a_exit (largo_plazo.c) and      *)
(* desbloquear (recursos.c).  The threads are in LargoPlazo, CortoPlazo,   *)
(* Interfaces and Consola; Kernel puts them together with the CPU.         *)
(*                                                                         *)
(* Granularity.  The mutexes held for straight-line code only (mx_cola_*,  *)
(* mx_lista_PCB, mx_lista_interfaces, prog.mx) disappear: what they        *)
(* protect is part of one action, and so is a queue_push with the sem_post *)
(* that announces it.  The ones held across a wait are explicit 0/1        *)
(* semaphores: mx_PCB of each process, mx_recurso of each resource,        *)
(* mx_interface of each interface and mx_pause.                            *)
(***************************************************************************)
EXTENDS Integers, Sequences, SequencesExt

CONSTANTS
    PID,                  \* the PIDs proc_start may hand out
    Nadie,                \* no process (NULL)
    Algoritmo,            \* ALGORITMO_PLANIFICACION
    QUANTUM,              \* QUANTUM, in ticks
    GradoInicial,         \* GRADO_MULTIPROGRAMACION
    Grados,               \* the arguments of MULTIPROGRAMACION
    CantRecursos,         \* number of RECURSOS
    InstanciasIniciales,  \* INSTANCIAS_RECURSOS
    Ifaces,               \* the interfaces that may connect
    FinCola,              \* the entry -1 that ends atender_interface_OUT
    MaxFichas, MaxTenencia, MaxInstancias

ASSUME KernelAssumption ==
    /\ Nadie \notin PID
    /\ FinCola \notin PID
    /\ Algoritmo \in {"FIFO", "RR", "VRR"}
    /\ QUANTUM \in Nat \ {0}
    /\ GradoInicial \in Nat /\ Grados \subseteq Int
    /\ CantRecursos \in Nat
    /\ InstanciasIniciales \in [1..CantRecursos -> Nat]

VARIABLES
    \* t_PCB
    estado, quantum, retorno, mx_PCB,
    \* queues of PIDs and the semaphores that count them
    cola_new, sem_cola_new,
    cola_ready, cola_priority_ready, sem_cola_ready,
    cola_exit, sem_cola_exit,
    \* multiprogramacion.c
    prog_running, prog_grado, prog_sem, admision, paused, mx_pause,
    \* recursos.c
    instancias, cola_rec, asignados, mx_recurso,
    \* t_interface, as far as corto_plazo.c sees it
    en_lista, conectada, cola_io, sem_cola_io, mx_interface,
    \* sockets: to and from the dispatch port of the CPU, the messages in
    \* flight to its interrupt port, the processes memoria has
    a_cpu, de_cpu, irq, memoria,
    \* threads: program counter, PCB at hand, process to wake up, loop
    \* variables of eliminar_proceso, paquete of the planificador,
    \* and the process whose quantum thread sleeps
    pc, actual, otro, idx_elim, veces_elim, paquete, reloj

M == INSTANCE Multiprogramacion
R == INSTANCE Recursos

vPCB    == <<estado, quantum, retorno>>
vNew    == <<cola_new, sem_cola_new>>
vReady  == <<cola_ready, cola_priority_ready, sem_cola_ready>>
vExit   == <<cola_exit, sem_cola_exit>>
vProg   == <<prog_running, prog_grado, prog_sem, admision>>
vPausa  == <<paused, mx_pause>>
vRec    == <<instancias, cola_rec, asignados>>
vIface  == <<en_lista, conectada, cola_io, sem_cola_io, mx_interface>>
vCpu    == <<a_cpu, de_cpu, irq>>
vElim   == <<idx_elim, veces_elim>>
vPlan   == <<paquete, reloj>>

kernel_vars == <<vPCB, mx_PCB, vNew, vReady, vExit, vProg, vPausa, vRec,
                 mx_recurso, vIface, vCpu, memoria, pc, actual, otro, vElim,
                 vPlan>>

-----------------------------------------------------------------------------
Hilos == {"crear_proceso", "eliminar_proceso", "planificador", "consola"}

(* estado_proceso; INEXISTENTE before proc_start, when list_find is NULL. *)
Estados == {"INEXISTENTE", "NEW", "READY", "BLOCKED", "EXEC", "EXIT", "DELETED"}

(* exit_reasons, as far as the kernel stores or compares them *)
Motivos == {"NONE", "INTERRUPT", "CPU_IO", "END", "ERROR", "OUT_OF_MEMORY",
            "SUCCESS", "INVALID_RESOURCE", "INVALID_INTERFACE",
            "INTERRUPTED_BY_USER"}

(***************************************************************************)
(* The packets of the dispatch socket, from the CPU: DEVOLUCION_PCB with   *)
(* its t_contexto, and the system call that may follow it.  The argument   *)
(* of WAIT and SIGNAL is a resource index, 0 for a name that is not in     *)
(* RECURSOS; that of an I/O operation is the interface it names.           *)
(***************************************************************************)
Devolucion(p, motivo) ==
    [op |-> "DEVOLUCION_PCB", pid |-> p, motivo |-> motivo, arg |-> 0]
Syscall(op, p, arg) == [op |-> op, pid |-> p, motivo |-> "NONE", arg |-> arg]
SinPaquete == Devolucion(Nadie, "NONE")

Recursos == R!IndicesRecursos
OpsRecurso == {"WAIT", "SIGNAL"}
OpsIO == {"IO", "IO_NO_ADMITIDA"}
Syscalls(p) ==
    {Syscall(op, p, r) : op \in OpsRecurso, r \in {0} \union Recursos}
        \union {Syscall(op, p, i) : op \in OpsIO, i \in Ifaces}
Paquetes ==
    {Devolucion(p, m) : p \in PID \union {Nadie}, m \in Motivos}
        \union UNION {Syscalls(p) : p \in PID}

KernelInit ==
    /\ estado = [p \in PID |-> "INEXISTENTE"]
    /\ quantum = [p \in PID |-> -1]
    /\ retorno = [p \in PID |-> "NONE"]
    /\ mx_PCB = [p \in PID |-> 1]
    /\ cola_new = <<>> /\ sem_cola_new = 0
    /\ cola_ready = <<>> /\ cola_priority_ready = <<>> /\ sem_cola_ready = 0
    /\ cola_exit = <<>> /\ sem_cola_exit = 0
    /\ M!ProgInit
    /\ paused = FALSE /\ mx_pause = 1
    /\ R!RecInit
    /\ mx_recurso = [r \in Recursos |-> 1]
    /\ en_lista = [i \in Ifaces |-> FALSE]
    /\ conectada = [i \in Ifaces |-> FALSE]
    /\ cola_io = [i \in Ifaces |-> <<>>]
    /\ sem_cola_io = [i \in Ifaces |-> 0]
    /\ mx_interface = [i \in Ifaces |-> 1]
    /\ a_cpu = <<>> /\ de_cpu = <<>> /\ irq = 0
    /\ memoria = [p \in PID |-> "ausente"]
    /\ pc = [h \in Hilos |-> "espera"]
    /\ actual = [h \in Hilos |-> Nadie]
    /\ otro = [h \in Hilos |-> Nadie]
    /\ idx_elim = 1 /\ veces_elim = 0
    /\ paquete = SinPaquete /\ reloj = Nadie

-----------------------------------------------------------------------------
(* Semaphores: s is a 0/1 semaphore per process, resource or interface. *)
Libre(s, x) == s[x] = 1
Tomado(s, x) == [s EXCEPT ![x] = 0]
Soltado(s, x) == [s EXCEPT ![x] = 1]

(* check_pause *)
SinPausa == mx_pause = 1

Va(h, lugar) == pc' = [pc EXCEPT ![h] = lugar]
EnLugar(h, lugar) == pc[h] = lugar

(* Back to the sem_wait at the top of the loop; the local PCB is dead. *)
VuelveAEsperar(h) ==
    /\ Va(h, "espera")
    /\ actual' = [actual EXCEPT ![h] = Nadie]

CambioEstado(p, e) == estado' = [estado EXCEPT ![p] = e]

(* queue_push and sem_post of cola_ready *)
PushReady(p) ==
    /\ cola_ready' = Append(cola_ready, p)
    /\ sem_cola_ready' = sem_cola_ready + 1
    /\ UNCHANGED cola_priority_ready

PushPriority(p) ==
    /\ cola_priority_ready' = Append(cola_priority_ready, p)
    /\ sem_cola_ready' = sem_cola_ready + 1
    /\ UNCHANGED cola_ready

(* Mutant: queue_push without sem_post. *)
PushExitSinPost(p) ==
    cola_exit' = Append(cola_exit, p) /\ UNCHANGED sem_cola_exit

PushExit(p) ==
    /\ cola_exit' = Append(cola_exit, p)
    /\ sem_cola_exit' = sem_cola_exit + 1

(* Mutant: the process is marked but not queued. *)
EnviarAExitSinCola(p, motivo) ==
    /\ CambioEstado(p, "EXIT")
    /\ retorno' = [retorno EXCEPT ![p] = motivo]
    /\ UNCHANGED vExit

(* enviar_a_exit *)
EnviarAExit(p, motivo) ==
    /\ CambioEstado(p, "EXIT")
    /\ retorno' = [retorno EXCEPT ![p] = motivo]
    /\ PushExit(p)

(* Mutant: >= for >. *)
ConPrioridadAgotado(p) == quantum[p] >= 0 /\ Algoritmo = "VRR"

(* The branch of desbloquear for a process that keeps part of its quantum. *)
ConPrioridad(p) == quantum[p] > 0 /\ Algoritmo = "VRR"

(* Mutant: without the else, the process goes to both queues. *)
DesbloquearDosColas(p) ==
    IF estado[p] # "BLOCKED"
    THEN UNCHANGED <<estado, quantum, vReady>>
    ELSE /\ CambioEstado(p, "READY")
         /\ cola_priority_ready' = Append(cola_priority_ready, p)
         /\ cola_ready' = Append(cola_ready, p)
         /\ sem_cola_ready' = sem_cola_ready + 1
         /\ UNCHANGED quantum

(* desbloquear: nothing if the process is no longer BLOCKED. *)
Desbloquear(p) ==
    IF estado[p] # "BLOCKED"
    THEN UNCHANGED <<estado, quantum, vReady>>
    ELSE /\ CambioEstado(p, "READY")
         /\ IF ConPrioridad(p)
            THEN PushPriority(p) /\ UNCHANGED quantum
            ELSE /\ PushReady(p)
                 /\ quantum' = [quantum EXCEPT ![p] =
                                  IF @ >= 0 THEN QUANTUM ELSE @]

=============================================================================
