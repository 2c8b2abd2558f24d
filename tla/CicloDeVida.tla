---------------------------- MODULE CicloDeVida ----------------------------
(***************************************************************************)
(* What the kernel promises about the states of processes, without queues, *)
(* mutexes, sockets or threads: the state diagram of estado_proceso        *)
(* (utils/estructuras.h), one processor, and the duty to go on with a      *)
(* process that is READY and to delete one that has ended.                 *)
(***************************************************************************)
EXTENDS Integers

CONSTANT PID

VARIABLE estado

CVInit == estado = [p \in PID |-> "INEXISTENTE"]

Pasa(p, desde, hasta) ==
    /\ estado[p] \in desde
    /\ \E e \in hasta : estado' = [estado EXCEPT ![p] = e]

CpuLibre == \A p \in PID : estado[p] # "EXEC"

Crear(p)     == Pasa(p, {"INEXISTENTE"}, {"NEW"})
Admitir(p)   == Pasa(p, {"NEW"}, {"READY"})
Despachar(p) == CpuLibre /\ Pasa(p, {"READY"}, {"EXEC"})
Dejar(p)     == Pasa(p, {"EXEC"}, {"READY", "BLOCKED"})
Despertar(p) == Pasa(p, {"BLOCKED"}, {"READY"})
Terminar(p)  == Pasa(p, {"READY", "EXEC", "BLOCKED"}, {"EXIT"})
Borrar(p)    == Pasa(p, {"NEW", "EXIT"}, {"DELETED"})

CVNext == \E p \in PID :
    \/ Crear(p) \/ Admitir(p) \/ Despachar(p) \/ Dejar(p)
    \/ Despertar(p) \/ Terminar(p) \/ Borrar(p)

CVSeguro == CVInit /\ [][CVNext]_estado

Despacho == \E p \in PID : Despachar(p)
Retiro(p) == estado[p] = "EXIT" /\ Borrar(p)

CVSpec == CVSeguro /\ WF_estado(Despacho) /\ \A p \in PID : WF_estado(Retiro(p))

=============================================================================
