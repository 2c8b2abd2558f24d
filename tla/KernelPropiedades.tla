-------------------------- MODULE KernelPropiedades --------------------------
(***************************************************************************)
(* What has to hold of the kernel.  The runs say under which programs,     *)
(* commands and algorithms each property is checked.                       *)
(***************************************************************************)
EXTENDS Kernel, FiniteSets

ColaDe(X) == Seq(X)
OpcionalDe(X) == X \union {Nadie}

LugaresCrear   == {"espera", "add_prog", "mx_PCB", "memoria"}
LugaresElim    == {"espera", "mx_PCB", "recursos", "libera", "despierta"}
LugaresPlan    == {"espera", "pausa", "mx_PCB", "recibe", "actualiza",
                   "procesa", "syscall", "WAIT", "SIGNAL", "IO", "despierta",
                   "cierre"}
LugaresConsola == {"espera", "proc_end"}

PcTypeOK ==
    /\ pc \in [Hilos -> LugaresCrear \union LugaresElim \union LugaresPlan
                          \union LugaresConsola]
    /\ pc[Crear] \in LugaresCrear /\ pc[Elim] \in LugaresElim
    /\ pc[Plan] \in LugaresPlan /\ pc[HiloConsola] \in LugaresConsola

PCBTypeOK ==
    /\ estado \in [PID -> Estados]
    /\ quantum \in [PID -> -1..QUANTUM]
    /\ retorno \in [PID -> Motivos]
    /\ mx_PCB \in [PID -> 0..1]
    /\ memoria \in [PID -> {"ausente", "presente", "borrado"}]

ColasTypeOK ==
    /\ cola_new \in ColaDe(PID) /\ sem_cola_new \in Nat
    /\ cola_ready \in ColaDe(PID) /\ cola_priority_ready \in ColaDe(PID)
    /\ sem_cola_ready \in Nat
    /\ cola_exit \in ColaDe(PID) /\ sem_cola_exit \in Nat
    /\ cola_io \in [Ifaces -> ColaDe(PID \union {FinCola})]
    /\ sem_cola_io \in [Ifaces -> Nat]

RecursosTypeOK ==
    /\ R!RecTypeOK
    /\ mx_recurso \in [Recursos -> 0..1]
    /\ idx_elim \in 1..(CantRecursos + 1) /\ veces_elim \in Nat

ManosTypeOK ==
    /\ actual \in [Hilos -> OpcionalDe(PID)]
    /\ otro \in [Hilos -> OpcionalDe(PID)]

SocketsTypeOK ==
    /\ a_cpu \in ColaDe(PID) /\ de_cpu \in ColaDe(Paquetes) /\ irq \in Nat
    /\ paquete \in Paquetes /\ reloj \in OpcionalDe(PID)

KernelTypeOK ==
    /\ PCBTypeOK /\ ColasTypeOK /\ PcTypeOK /\ ManosTypeOK
    /\ M!ProgTypeOK /\ RecursosTypeOK /\ SocketsTypeOK
    /\ paused \in BOOLEAN /\ mx_pause \in 0..1

InterfacesTypeOK ==
    /\ en_lista \in [Ifaces -> BOOLEAN] /\ conectada \in [Ifaces -> BOOLEAN]
    /\ mx_interface \in [Ifaces -> 0..1]
    /\ occupant \in [Ifaces -> OpcionalDe(PID)]
    /\ sem_occupied \in [Ifaces -> 0..1]
    /\ pc_in \in [Ifaces -> {"fuera", "lee", "IO_FIN", "DESCONEXION"}]
    /\ pc_out \in [Ifaces -> {"fuera", "espera", "sem_occupied", "mx_PCB"}]
    /\ pid_out \in [Ifaces -> OpcionalDe(PID)]
    /\ a_disp \in [Ifaces -> ColaDe(PID)]
    /\ de_disp \in [Ifaces -> ColaDe({"IO_FIN", "DESCONEXION"})]
    /\ disp \in [Ifaces -> {"apagado", "libre", "operando", "caido"}]

CpuTypeOK ==
    /\ cpu_pc \in {"tope", "recibe", "ciclo", "devuelve"}
    /\ cpu_pid \in OpcionalDe(PID)
    /\ cpu_motivo \in Motivos
    /\ cpu_io \in Paquetes
    /\ interrupt \in 0..1
    /\ restan \in [PID -> 0..MaxSyscalls]

TypeOK == KernelTypeOK /\ InterfacesTypeOK /\ CpuTypeOK

-----------------------------------------------------------------------------
(* Mutexes and queues *)

Como(b) == IF b THEN 1 ELSE 0

TieneElPCB(h, p) ==
    /\ actual[h] = p
    /\ \/ h = Crear /\ pc[h] = "memoria"
       \/ h = Elim /\ pc[h] \in {"recursos", "libera", "despierta"}
       \/ h = Plan /\ pc[h] \in {"procesa", "syscall", "WAIT", "SIGNAL", "IO",
                                 "despierta", "cierre"}

(***************************************************************************)
(* mx_PCB passes from thread to thread (OUT takes it, IN posts it after    *)
(* the I/O): whenever it is taken exactly one thread or device has it, and *)
(* whenever it is free nobody does.  A post too many would let two threads *)
(* change one PCB (interfaces.c:45, :55, :103-123).                        *)
(***************************************************************************)
MutexPCB ==
    \A p \in PID :
        mx_PCB[p] + Cardinality({h \in Hilos : TieneElPCB(h, p)})
                  + Cardinality({i \in Ifaces : occupant[i] = p}) = 1

(***************************************************************************)
(* Each counting semaphore counts its queue (both ready queues share one), *)
(* so that no queue_pop finds its queue empty.  The PID crear_proceso has  *)
(* been woken for stays in cola_new until add_prog returns                 *)
(* (largo_plazo.c:5-10), while eliminar_proceso may have deleted it.       *)
(***************************************************************************)
ColasContadas ==
    /\ Len(cola_new) = sem_cola_new + Como(pc[Crear] = "add_prog")
    /\ Len(cola_ready) + Len(cola_priority_ready) = sem_cola_ready
    /\ Len(cola_exit) = sem_cola_exit
    /\ \A i \in Ifaces : Len(cola_io[i]) = sem_cola_io[i]

(***************************************************************************)
(* One token of sem_occupied per usable interface: in the semaphore, with  *)
(* OUT, or standing for the occupant that IN will give it back for         *)
(* (interfaces.c:40-58, :101-123).  It survives a device that goes away    *)
(* and processes killed in its queue.                                      *)
(***************************************************************************)
OcupacionDe(i) ==
    sem_occupied[i] + Como(pc_out[i] = "mx_PCB") + Como(occupant[i] # Nadie)
        = Como(disp[i] # "apagado")

OcupacionExacta == \A i \in Ifaces : OcupacionDe(i)

(* IN never handles an IO_FIN without an occupant, whose PCB it would      *)
(* dereference (interfaces.c:44).                                          *)
OcupanteEnFin == \A i \in Ifaces : pc_in[i] = "IO_FIN" => occupant[i] # Nadie

-----------------------------------------------------------------------------
(* Nobody is forgotten *)

Veces(p, s) == Cardinality({k \in 1..Len(s) : s[k] = p})

(***************************************************************************)
(* A READY process is once, and only once, in a ready queue or in the      *)
(* hands of the planificador: each of the four pushes (largo_plazo.c:34,   *)
(* corto_plazo.c:114, recursos.c:94, :103) comes with the change of state, *)
(* and none is made again before the process has been dispatched.          *)
(***************************************************************************)
EnReady(p) ==
    Veces(p, cola_ready) + Veces(p, cola_priority_ready)
        + Como(actual[Plan] = p /\ pc[Plan] \in {"pausa", "mx_PCB"})

ReadyEnCola ==
    \A p \in PID : /\ estado[p] = "READY" => EnReady(p) = 1
                   /\ EnReady(p) <= 1

(* A NEW process is in cola_new or with crear_proceso.                     *)
NewAtendido ==
    \A p \in PID : estado[p] = "NEW" =>
        \/ Contains(cola_new, p)
        \/ actual[Crear] = p /\ pc[Crear] \in {"mx_PCB", "memoria"}

ReadyAtendido == \A p \in PID : estado[p] = "READY" => EnReady(p) = 1

(* A process in EXEC is the one the planificador dispatched and has not    *)
(* let go of: it waits for it, or acts on what it came back with.          *)
ExecAtendido ==
    \A p \in PID : estado[p] = "EXEC" =>
        actual[Plan] = p /\ pc[Plan] \notin {"espera", "pausa", "mx_PCB"}

(***************************************************************************)
(* A BLOCKED process is in exactly one place somebody will take it from:   *)
(* the queue of a resource, the hands of the thread that popped it, the    *)
(* queue of an interface whose OUT lives, OUT itself, or the device.       *)
(***************************************************************************)
Esperas(p) ==
    Cardinality({r \in Recursos : R!EnCola(p, r)})
        + Cardinality({h \in Hilos : otro[h] = p})
        + Cardinality({i \in Ifaces : /\ Contains(cola_io[i], p)
                                      /\ pc_out[i] # "fuera"})
        + Cardinality({i \in Ifaces : pid_out[i] = p})
        + Cardinality({i \in Ifaces : occupant[i] = p})

BloqueadoAtendido == \A p \in PID : estado[p] = "BLOCKED" => Esperas(p) = 1

(***************************************************************************)
(* A process in EXIT is in cola_exit, with eliminar_proceso, or in the CPU *)
(* with the planificador about to send it to cola_exit (corto_plazo.c:73). *)
(***************************************************************************)
ExitAtendido ==
    \A p \in PID : estado[p] = "EXIT" =>
        \/ Contains(cola_exit, p)
        \/ actual[Elim] = p
        \/ actual[Plan] = p /\ pc[Plan] \in {"recibe", "actualiza"}

(***************************************************************************)
(* No process that was created and not deleted is left where no thread     *)
(* looks: each is in the queue, the CPU, the device or the hands that go   *)
(* with its state, READY and BLOCKED ones in one place only.               *)
(***************************************************************************)
NadieOlvidado ==
    /\ NewAtendido /\ ReadyAtendido /\ ExecAtendido
    /\ BloqueadoAtendido /\ ExitAtendido

-----------------------------------------------------------------------------
(* Degree of multiprogramming *)

ConPlaza == {p \in PID : estado[p] \in {"READY", "EXEC", "BLOCKED", "EXIT"}}

(***************************************************************************)
(* prog.running is the number of processes that were admitted and not yet  *)
(* deleted, plus the admission in hand: every path by which a process ends *)
(* calls remove_prog once (largo_plazo.c:42, :107, and not at :66).        *)
(***************************************************************************)
GradoExacto == prog_running = Cardinality(ConPlaza) + Como(admision = "admitido")

(* The kernel uses multiprogramacion.c as Multiprogramacion says. *)
UsaMultiprogramacion == M!ProgInit /\ [][M!ProgPaso]_(M!prog_vars)

(* And recursos.c as Recursos says: no process WAITs while it waits, and   *)
(* eliminar_proceso releases only what the process has.                    *)
UsaRecursos == R!RecInit /\ [][R!RecPaso]_(R!rec_vars)

-----------------------------------------------------------------------------
(* Quantum *)

EnColaConQuantum(p) ==
    /\ Contains(cola_priority_ready, p) => quantum[p] \in 1..QUANTUM
    /\ Contains(cola_ready, p) => quantum[p] = QUANTUM

(***************************************************************************)
(* A process waiting in cola_ready has a full quantum, one in the priority *)
(* queue what its I/O left of it, never 0; and a quantum thread sleeps     *)
(* only for the process in the CPU (corto_plazo.c:19, :68, :109;           *)
(* recursos.c:92-110).                                                     *)
(***************************************************************************)
QuantumCoherente ==
    /\ Algoritmo # "FIFO" => \A p \in PID :
           estado[p] = "READY" => EnColaConQuantum(p)
    /\ reloj # Nadie => /\ reloj = actual[Plan]
                        /\ pc[Plan] \in {"recibe", "actualiza"}

-----------------------------------------------------------------------------
(* Kernel and CPU *)

(* The process the CPU is at, or has in its socket. *)
EnCpu(p) == Veces(p, a_cpu) + Como(cpu_pid = p)
DeVuelta(p) == Cardinality({k \in 1..Len(de_cpu) :
                              /\ de_cpu[k].op = "DEVOLUCION_PCB"
                              /\ de_cpu[k].pid = p})

(***************************************************************************)
(* The planificador waits for the process it dispatched and for no other:  *)
(* there is one dispatch outstanding while it is at recibir_paquete, and   *)
(* none while it chooses the next process.                                 *)
(***************************************************************************)
RespuestaEsperada ==
    \A p \in PID :
        EnCpu(p) + DeVuelta(p) = Como(pc[Plan] = "recibe" /\ actual[Plan] = p)

(* memoria is never asked for an instruction of a process it has deleted,  *)
(* or has not created: buscar_proceso would return NULL.                   *)
MemoriaVigente == cpu_pc = "ciclo" => memoria[cpu_pid] = "presente"

(* The packet actualizar_contexto looks at is the one it waits for: errors *)
(* (1) and (2) of corto_plazo.c:83 and :91 never happen.                   *)
DevolucionValida == pc[Plan] = "procesa" => EsDevolucion

(* Error (3) of corto_plazo.c:104 never happens to a program that ends.    *)
SinError == \A p \in PID : retorno[p] # "ERROR"

-----------------------------------------------------------------------------
(***************************************************************************)
(* A cycle of mutexes between the planificador, which holds mx_recurso and *)
(* waits for the PCB it took from the queue, and eliminar_proceso, which   *)
(* holds that PCB and waits for mx_recurso.                                *)
(***************************************************************************)
SinAbrazo ==
    ~ /\ pc[Plan] = "despierta"
      /\ pc[Elim] = "recursos"
      /\ otro[Plan] = actual[Elim]
      /\ idx_elim = paquete.arg

-----------------------------------------------------------------------------
CV == INSTANCE CicloDeVida

(***************************************************************************)
(* The threads together take each process along the state diagram, one at  *)
(* a time in the CPU: a PID queued twice, or looked at without its mutex,  *)
(* never brings a process back (largo_plazo.c:65-111, corto_plazo.c:47).   *)
(***************************************************************************)
RespetaCiclo == CV!CVSeguro

(***************************************************************************)
(* And with the threads running they also go on: a free CPU gets a READY   *)
(* process and a process in EXIT is deleted.                               *)
(***************************************************************************)
ImplementaCiclo == CV!CVSpec

(***************************************************************************)
(* Every process ends, the ones that wait for a resource included: what    *)
(* the others held is released to them when they are deleted.              *)
(***************************************************************************)
TodosTerminan == \A p \in PID : estado[p] = "NEW" ~> estado[p] = "DELETED"

=============================================================================
