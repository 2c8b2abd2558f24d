------------------------------ MODULE Consola ------------------------------
(***************************************************************************)
(* The console thread of the kernel (kernel/src/consola.c): the commands   *)
(* that change state, typed or read from a script by EJECUTAR_SCRIPT.      *)
(***************************************************************************)
EXTENDS KernelEstado

CONSTANTS
    Comandos,   \* the commands the user gives
    MaxFin,     \* bound on FINALIZAR_PROCESO per process...
    MaxFines    \* ...and in all

VARIABLE fines  \* how many FINALIZAR_PROCESO each process has had

ASSUME ConsolaAssumption == MaxFin \in Nat /\ MaxFines \in Nat

HiloConsola == "consola"

(* The FINALIZAR_PROCESO given so far. *)
FinesDados == FoldFunction(+, 0, fines)

ConsolaInit == fines = [p \in PID |-> 0]

Lee(comando) == EnLugar(HiloConsola, "espera") /\ comando \in Comandos

(* proc_start: the next PID is one nobody has. *)
ProcStart(p) ==
    /\ Lee("INICIAR_PROCESO")
    /\ estado[p] = "INEXISTENTE"
    /\ CambioEstado(p, "NEW")
    /\ quantum' = [quantum EXCEPT ![p] = IF Algoritmo = "FIFO" THEN -1 ELSE QUANTUM]
    /\ cola_new' = Append(cola_new, p)
    /\ sem_cola_new' = sem_cola_new + 1
    /\ UNCHANGED <<retorno, mx_PCB, vReady, vExit, vProg, vPausa, vRec,
                   mx_recurso, vIface, vCpu, memoria, pc, actual, otro, vElim,
                   vPlan, fines>>

(* proc_end reads the state without mx_PCB... *)
ProcEnd(p) ==
    /\ Lee("FINALIZAR_PROCESO")
    /\ estado[p] \notin {"INEXISTENTE", "EXIT", "DELETED"}
    /\ fines[p] < MaxFin
    /\ FinesDados < MaxFines
    /\ fines' = [fines EXCEPT ![p] = @ + 1]
    /\ actual' = [actual EXCEPT ![HiloConsola] = p]
    /\ Va(HiloConsola, "proc_end")
    /\ UNCHANGED <<vPCB, mx_PCB, vNew, vReady, vExit, vProg, vPausa, vRec,
                   mx_recurso, vIface, vCpu, memoria, otro, vElim, vPlan>>

(* ...and puts the PID in cola_exit, whatever its state is by then. *)
ProcEndEncola ==
    /\ EnLugar(HiloConsola, "proc_end")
    /\ PushExit(actual[HiloConsola])
    /\ VuelveAEsperar(HiloConsola)
    /\ UNCHANGED <<vPCB, mx_PCB, vNew, vReady, vProg, vPausa, vRec, mx_recurso,
                   vIface, vCpu, memoria, otro, vElim, vPlan, fines>>

(* Mutant: the degree is assigned without modificar_grado. *)
MultiprogSinFichas(valor) ==
    /\ Lee("MULTIPROGRAMACION")
    /\ prog_grado' = valor
    /\ UNCHANGED <<vPCB, mx_PCB, vNew, vReady, vExit, prog_running, prog_sem,
                   admision, vPausa, vRec, mx_recurso, vIface, vCpu, memoria, pc,
                   actual, otro, vElim, vPlan, fines>>

(* multiprog; bounded so that every deletion can still add its token. *)
Multiprog(valor) ==
    /\ Lee("MULTIPROGRAMACION")
    /\ prog_sem + (valor - prog_grado) <= MaxFichas - Cardinality(PID)
    /\ M!ModificarGrado(valor)
    /\ UNCHANGED <<vPCB, mx_PCB, vNew, vReady, vExit, vPausa, vRec, mx_recurso,
                   vIface, vCpu, memoria, pc, actual, otro, vElim, vPlan, fines>>

(* plan_end: detener_planificacion *)
PlanEnd ==
    /\ Lee("DETENER_PLANIFICACION")
    /\ ~paused
    /\ mx_pause = 1
    /\ paused' = TRUE
    /\ mx_pause' = 0
    /\ UNCHANGED <<vPCB, mx_PCB, vNew, vReady, vExit, vProg, vRec, mx_recurso,
                   vIface, vCpu, memoria, pc, actual, otro, vElim, vPlan, fines>>

(* plan_start: iniciar_planificacion *)
PlanStart ==
    /\ EnLugar(HiloConsola, "espera")
    /\ paused
    /\ paused' = FALSE
    /\ mx_pause' = mx_pause + 1
    /\ UNCHANGED <<vPCB, mx_PCB, vNew, vReady, vExit, vProg, vRec, mx_recurso,
                   vIface, vCpu, memoria, pc, actual, otro, vElim, vPlan, fines>>

ConsolaNext == \/ \E p \in PID : ProcStart(p) \/ ProcEnd(p)
               \/ ProcEndEncola
               \/ \E valor \in Grados : Multiprog(valor)
               \/ PlanEnd \/ PlanStart

=============================================================================
