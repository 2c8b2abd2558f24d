------------------------------ MODULE Recursos ------------------------------
(***************************************************************************)
(* The resources of the kernel (kernel/src/recursos.c): a counter of       *)
(* instances that goes negative while processes wait, the queue of the     *)
(* waiting ones, and what each process has been assigned.  WAIT assigns    *)
(* before it blocks, so a process in the queue counts as holding the       *)
(* instance it waits for, and ending it gives that instance back.          *)
(*                                                                         *)
(* Each operation runs inside recurso->mx_recurso and is one action; waking *)
(* the process taken from the queue is its caller's business.              *)
(***************************************************************************)
EXTENDS Integers, Sequences, SequencesExt

CONSTANTS
    PID,                  \* the processes
    CantRecursos,         \* length of RECURSOS in the config file
    InstanciasIniciales,  \* INSTANCIAS_RECURSOS, by resource index
    MaxTenencia,          \* bound on the WAITs of one process on one resource
    MaxInstancias         \* bound on what SIGNALs without a WAIT may add

(* t_recurso.index *)
IndicesRecursos == 1..CantRecursos

ASSUME RecursosAssumption ==
    /\ CantRecursos \in Nat
    /\ InstanciasIniciales \in [IndicesRecursos -> Nat]
    /\ MaxTenencia \in Nat
    /\ MaxInstancias \in Nat

VARIABLES
    instancias,   \* recurso->instancias
    cola_rec,     \* recurso->cola_blocked
    asignados     \* PCB->recursos_asignados

rec_vars == <<instancias, cola_rec, asignados>>

RecTypeOK ==
    /\ instancias \in [IndicesRecursos -> Int]
    /\ cola_rec \in [IndicesRecursos -> Seq(PID)]
    /\ asignados \in [PID -> [IndicesRecursos -> Nat]]

EnCola(p, r) == Contains(cola_rec[r], p)

-----------------------------------------------------------------------------
(* iniciar_recursos, and recusos_init for every process *)
RecInit ==
    /\ instancias = InstanciasIniciales
    /\ cola_rec = [r \in IndicesRecursos |-> <<>>]
    /\ asignados = [p \in PID |-> [r \in IndicesRecursos |-> 0]]

(* asignar_recurso leaves no instance for p: the caller blocks it. *)
Agotado(r) == instancias[r] - 1 < 0

(* Mutant: an instance is assigned only to who does not wait for it. *)
AsignarRecursoAlLibre(p, r) ==
    /\ instancias' = [instancias EXCEPT ![r] = @ - 1]
    /\ asignados' = [asignados EXCEPT ![p][r] = IF Agotado(r) THEN @ ELSE @ + 1]
    /\ cola_rec' = [cola_rec EXCEPT ![r] = IF Agotado(r) THEN Append(@, p) ELSE @]

(* WAIT: asignar_recurso, and the queue_push of bloquear_proceso_rec. *)
AsignarRecurso(p, r) ==
    /\ instancias' = [instancias EXCEPT ![r] = @ - 1]
    /\ asignados' = [asignados EXCEPT ![p][r] = @ + 1]
    /\ cola_rec' = [cola_rec EXCEPT ![r] = IF Agotado(r) THEN Append(@, p) ELSE @]

(* Mutant: the counter is compared with 0 instead of 1. *)
HayEsperaTarde(r) == instancias[r] + 1 < 0

(* After desasignar_recurso somebody is still waiting. *)
HayEspera(r) == instancias[r] + 1 < 1

(* desbloquear_proceso_rec wakes the head unless p itself was waiting. *)
DespiertaOtro(p, r) == HayEspera(r) /\ ~EnCola(p, r)

(* Mutant: without the test *asignados > 0. *)
DesasignarRecursoSinPiso(p, r) ==
    /\ instancias' = [instancias EXCEPT ![r] = @ + 1]
    /\ asignados' = [asignados EXCEPT ![p][r] = @ - 1]
    /\ cola_rec' = [cola_rec EXCEPT ![r] =
                      IF ~HayEspera(r) THEN @
                      ELSE IF EnCola(p, r) THEN RemoveFirst(@, p) ELSE Tail(@)]

(* Mutant: without queue_pop_element, the head is always taken. *)
DesasignarRecursoCabeza(p, r) ==
    /\ instancias' = [instancias EXCEPT ![r] = @ + 1]
    /\ asignados' = [asignados EXCEPT ![p][r] = IF @ > 0 THEN @ - 1 ELSE @]
    /\ cola_rec' = [cola_rec EXCEPT ![r] = IF HayEspera(r) THEN Tail(@) ELSE @]

(* SIGNAL, or one turn of the release loop of eliminar_proceso:            *)
(* desasignar_recurso and the queue part of desbloquear_proceso_rec.       *)
DesasignarRecurso(p, r) ==
    /\ instancias' = [instancias EXCEPT ![r] = @ + 1]
    /\ asignados' = [asignados EXCEPT ![p][r] = IF @ > 0 THEN @ - 1 ELSE @]
    /\ cola_rec' = [cola_rec EXCEPT ![r] =
                      IF ~HayEspera(r) THEN @
                      ELSE IF EnCola(p, r) THEN RemoveFirst(@, p) ELSE Tail(@)]

-----------------------------------------------------------------------------
(***************************************************************************)
(* The discipline of the callers: running processes WAIT and SIGNAL, and   *)
(* processes that end (waiting or not) release what they were assigned.  A *)
(* waiting process runs nothing.                                           *)
(***************************************************************************)
Libre(p) == \A r \in IndicesRecursos : ~EnCola(p, r)

Wait(p, r) == Libre(p) /\ AsignarRecurso(p, r)

Signal(p, r) == Libre(p) /\ DesasignarRecurso(p, r)

Libera(p, r) ==
    /\ asignados[p][r] > 0
    /\ DesasignarRecurso(p, r)

RecPaso == \E p \in PID, r \in IndicesRecursos :
    Wait(p, r) \/ Signal(p, r) \/ Libera(p, r)

(* The component on its own, with the bounds that make it finite. *)
WaitAcotado(p, r) == asignados[p][r] < MaxTenencia /\ Wait(p, r)

SignalAcotado(p, r) ==
    /\ asignados[p][r] = 0 => instancias[r] < MaxInstancias
    /\ Signal(p, r)

RecNext == \E p \in PID, r \in IndicesRecursos :
    WaitAcotado(p, r) \/ SignalAcotado(p, r) \/ Libera(p, r)

RecSpec == RecInit /\ [][RecNext]_rec_vars

-----------------------------------------------------------------------------
(***************************************************************************)
(* A negative counter is exactly the number of processes in the queue, so  *)
(* the queue_pop of desbloquear_proceso_rec (recursos.c:38), reached when  *)
(* the counter is below 1 after the increment, never finds it empty: a NULL *)
(* there is dereferenced.                                                  *)
(***************************************************************************)
ColaSegunInstancias ==
    \A r \in IndicesRecursos :
        Len(cola_rec[r]) = IF instancias[r] < 0 THEN -instancias[r] ELSE 0

(***************************************************************************)
(* Whoever waits has the instance it waits for in recursos_asignados, once *)
(* in the queue: the release loop of eliminar_proceso then takes it out of *)
(* the queue, and no dead process stays ahead of the live ones.            *)
(***************************************************************************)
EsperaAsignada ==
    \A p \in PID, r \in IndicesRecursos :
        /\ EnCola(p, r) => asignados[p][r] > 0
        /\ IsInjective(cola_rec[r])

SumaAsignados(r) == FoldFunction(+, 0, [p \in PID |-> asignados[p][r]])

(***************************************************************************)
(* No instance is lost: what is free plus what is assigned is at least     *)
(* what the config file gives, whoever is killed while waiting or holding. *)
(***************************************************************************)
SinInstanciaPerdida ==
    \A r \in IndicesRecursos :
        instancias[r] + SumaAsignados(r) >= InstanciasIniciales[r]

=============================================================================
