----------------------------- MODULE LargoPlazo -----------------------------
(***************************************************************************)
(* The long term scheduler (kernel/src/largo_plazo.c): the thread          *)
(* crear_proceso admits NEW processes, the thread eliminar_proceso carries *)
(* out every PID that anybody puts in cola_exit.                           *)
(***************************************************************************)
EXTENDS KernelEstado

Crear == "crear_proceso"
Elim  == "eliminar_proceso"

-----------------------------------------------------------------------------
(* sem_wait(&sem_cola_new), and add_prog is called. *)
CrearDespierta ==
    /\ EnLugar(Crear, "espera")
    /\ sem_cola_new > 0
    /\ sem_cola_new' = sem_cola_new - 1
    /\ M!LlamaAddProg
    /\ Va(Crear, "add_prog")
    /\ UNCHANGED <<vPCB, mx_PCB, cola_new, vReady, vExit, vPausa, vRec,
                   mx_recurso, vIface, vCpu, memoria, actual, otro, vElim, vPlan>>

(* The steps of add_prog. *)
CrearEnAddProg ==
    /\ EnLugar(Crear, "add_prog")
    /\ M!TomaFicha \/ M!AddProg \/ M!ReintentaAddProg
    /\ UNCHANGED <<vPCB, mx_PCB, vNew, vReady, vExit, vPausa, vRec, mx_recurso,
                   vIface, vCpu, memoria, pc, actual, otro, vElim, vPlan>>

(* check_pause and the queue_pop of cola_new, whose only reader this is. *)
CrearToma ==
    /\ EnLugar(Crear, "add_prog")
    /\ admision = "admitido"
    /\ SinPausa
    /\ actual' = [actual EXCEPT ![Crear] = Head(cola_new)]
    /\ cola_new' = Tail(cola_new)
    /\ Va(Crear, "mx_PCB")
    /\ UNCHANGED <<vPCB, mx_PCB, sem_cola_new, vReady, vExit, vProg, vPausa,
                   vRec, mx_recurso, vIface, vCpu, memoria, otro, vElim, vPlan>>

(* Still NEW: CREAR_PROCESO goes to memoria, mx_PCB is kept for the reply. *)
CrearPide ==
    LET p == actual[Crear] IN
    /\ EnLugar(Crear, "mx_PCB")
    /\ Libre(mx_PCB, p)
    /\ estado[p] = "NEW"
    /\ mx_PCB' = Tomado(mx_PCB, p)
    /\ Va(Crear, "memoria")
    /\ UNCHANGED <<vPCB, vNew, vReady, vExit, vProg, vPausa, vRec, mx_recurso,
                   vIface, vCpu, memoria, actual, otro, vElim, vPlan>>

(* Mutant: remove_prog forgotten. *)
CrearDescartaSinSalir ==
    LET p == actual[Crear] IN
    /\ EnLugar(Crear, "mx_PCB")
    /\ Libre(mx_PCB, p)
    /\ estado[p] # "NEW"
    /\ M!Sigue
    /\ VuelveAEsperar(Crear)
    /\ UNCHANGED <<vPCB, mx_PCB, vNew, vReady, vExit, vPausa, vRec, mx_recurso,
                   vIface, vCpu, memoria, otro, vElim, vPlan>>

(* Killed while NEW: the slot is given back. *)
CrearDescarta ==
    LET p == actual[Crear] IN
    /\ EnLugar(Crear, "mx_PCB")
    /\ Libre(mx_PCB, p)
    /\ estado[p] # "NEW"
    /\ M!RemoveProg
    /\ admision' = "fuera"
    /\ VuelveAEsperar(Crear)
    /\ UNCHANGED <<vPCB, mx_PCB, vNew, vReady, vExit, vPausa, vRec, mx_recurso,
                   vIface, vCpu, memoria, otro, vElim, vPlan>>

(* memoria has created the process and answers: NEW -> READY. *)
CrearAdmite ==
    LET p == actual[Crear] IN
    /\ EnLugar(Crear, "memoria")
    /\ memoria' = [memoria EXCEPT ![p] = "presente"]
    /\ CambioEstado(p, "READY")
    /\ PushReady(p)
    /\ mx_PCB' = Soltado(mx_PCB, p)
    /\ M!Sigue
    /\ VuelveAEsperar(Crear)
    /\ UNCHANGED <<quantum, retorno, vNew, vExit, vPausa, vRec, mx_recurso,
                   vIface, vCpu, otro, vElim, vPlan>>

CrearNext == \/ CrearDespierta \/ CrearEnAddProg \/ CrearToma
             \/ CrearPide \/ CrearDescarta \/ CrearAdmite

-----------------------------------------------------------------------------
(* The queue_pop of cola_exit, whose only reader this is, and check_pause. *)
ElimToma ==
    /\ EnLugar(Elim, "espera")
    /\ sem_cola_exit > 0
    /\ SinPausa
    /\ sem_cola_exit' = sem_cola_exit - 1
    /\ actual' = [actual EXCEPT ![Elim] = Head(cola_exit)]
    /\ cola_exit' = Tail(cola_exit)
    /\ Va(Elim, "mx_PCB")
    /\ UNCHANGED <<vPCB, mx_PCB, vNew, vReady, vProg, vPausa, vRec, mx_recurso,
                   vIface, vCpu, memoria, otro, vElim, vPlan>>

(* What the cases of the switch that keep no mutex have in common. *)
ElimCaso(p, e) ==
    /\ EnLugar(Elim, "mx_PCB")
    /\ Libre(mx_PCB, p)
    /\ estado[p] \in e
    /\ VuelveAEsperar(Elim)
    /\ UNCHANGED <<quantum, mx_PCB, vNew, vReady, vProg, vPausa, vRec,
                   mx_recurso, vIface, a_cpu, de_cpu, memoria, otro,
                   vElim, vPlan>>

(* case NEW: it never had a slot; crear_proceso will find it DELETED. *)
ElimNew ==
    LET p == actual[Elim] IN
    /\ ElimCaso(p, {"NEW"})
    /\ CambioEstado(p, "DELETED")
    /\ retorno' = [retorno EXCEPT ![p] = "INTERRUPTED_BY_USER"]
    /\ UNCHANGED <<vExit, irq>>

(* case EXEC: EXIT at once, and the CPU is told to stop. *)
ElimExec ==
    LET p == actual[Elim] IN
    /\ ElimCaso(p, {"EXEC"})
    /\ CambioEstado(p, "EXIT")
    /\ irq' = irq + 1
    /\ UNCHANGED <<retorno, vExit>>

(* case READY, case BLOCKED: back to cola_exit as EXIT. *)
ElimVivo ==
    LET p == actual[Elim] IN
    /\ ElimCaso(p, {"READY", "BLOCKED"})
    /\ EnviarAExit(p, "INTERRUPTED_BY_USER")
    /\ UNCHANGED irq

(* default: it was already DELETED. *)
ElimNada ==
    /\ ElimCaso(actual[Elim], {"DELETED"})
    /\ UNCHANGED <<estado, retorno, vExit, irq>>

(* case EXIT: FIN_PROCESO to memoria, then the resources one by one. *)
ElimExit ==
    LET p == actual[Elim] IN
    /\ EnLugar(Elim, "mx_PCB")
    /\ Libre(mx_PCB, p)
    /\ estado[p] = "EXIT"
    /\ mx_PCB' = Tomado(mx_PCB, p)
    /\ memoria' = [memoria EXCEPT ![p] = "borrado"]
    /\ idx_elim' = 1
    /\ Va(Elim, "recursos")
    /\ UNCHANGED <<vPCB, vNew, vReady, vExit, vProg, vPausa, vRec, mx_recurso,
                   vIface, vCpu, actual, otro, veces_elim, vPlan>>

(* sem_wait(&recurso->mx_recurso); rec_asing is read once. *)
ElimTomaRecurso ==
    /\ EnLugar(Elim, "recursos")
    /\ idx_elim \in Recursos
    /\ Libre(mx_recurso, idx_elim)
    /\ mx_recurso' = Tomado(mx_recurso, idx_elim)
    /\ veces_elim' = asignados[actual[Elim]][idx_elim]
    /\ Va(Elim, "libera")
    /\ UNCHANGED <<vPCB, mx_PCB, vNew, vReady, vExit, vProg, vPausa, vRec,
                   vIface, vCpu, memoria, actual, otro, idx_elim, vPlan>>

(* Mutant: who is taken from the queue is not woken. *)
ElimLiberaSinDespertar ==
    /\ EnLugar(Elim, "libera")
    /\ veces_elim > 0
    /\ veces_elim' = veces_elim - 1
    /\ R!DesasignarRecurso(actual[Elim], idx_elim)
    /\ UNCHANGED <<vPCB, mx_PCB, vNew, vReady, vExit, vProg, vPausa, mx_recurso,
                   vIface, vCpu, memoria, pc, actual, otro, idx_elim, vPlan>>

(* One turn of the loop over j: desasignar_recurso and, if somebody waits, *)
(* the queue part of desbloquear_proceso_rec.                              *)
ElimLibera ==
    LET p == actual[Elim] IN
    /\ EnLugar(Elim, "libera")
    /\ veces_elim > 0
    /\ veces_elim' = veces_elim - 1
    /\ R!DesasignarRecurso(p, idx_elim)
    /\ IF R!DespiertaOtro(p, idx_elim)
       THEN /\ otro' = [otro EXCEPT ![Elim] = Head(cola_rec[idx_elim])]
            /\ Va(Elim, "despierta")
       ELSE UNCHANGED <<otro, pc>>
    /\ UNCHANGED <<vPCB, mx_PCB, vNew, vReady, vExit, vProg, vPausa,
                   mx_recurso, vIface, vCpu, memoria, actual, idx_elim, vPlan>>

(* The rest of desbloquear_proceso_rec, under the mx_PCB of the process    *)
(* taken from the queue; mx_PCB of the dead one and mx_recurso are held.   *)
ElimDespierta ==
    /\ EnLugar(Elim, "despierta")
    /\ Libre(mx_PCB, otro[Elim])
    /\ Desbloquear(otro[Elim])
    /\ otro' = [otro EXCEPT ![Elim] = Nadie]
    /\ Va(Elim, "libera")
    /\ UNCHANGED <<retorno, mx_PCB, vNew, vExit, vProg, vPausa, vRec,
                   mx_recurso, vIface, vCpu, memoria, actual, vElim, vPlan>>

(* sem_post(&recurso->mx_recurso), next resource. *)
ElimSuelta ==
    /\ EnLugar(Elim, "libera")
    /\ veces_elim = 0
    /\ mx_recurso' = Soltado(mx_recurso, idx_elim)
    /\ idx_elim' = idx_elim + 1
    /\ Va(Elim, "recursos")
    /\ UNCHANGED <<vPCB, mx_PCB, vNew, vReady, vExit, vProg, vPausa, vRec,
                   vIface, vCpu, memoria, actual, otro, veces_elim, vPlan>>

(* All released: DELETED and remove_prog. *)
ElimBorra ==
    LET p == actual[Elim] IN
    /\ EnLugar(Elim, "recursos")
    /\ idx_elim \notin Recursos
    /\ CambioEstado(p, "DELETED")
    /\ M!RemoveProg
    /\ mx_PCB' = Soltado(mx_PCB, p)
    /\ idx_elim' = 1
    /\ VuelveAEsperar(Elim)
    /\ UNCHANGED <<quantum, retorno, vNew, vReady, vExit, admision, vPausa,
                   vRec, mx_recurso, vIface, vCpu, memoria, otro,
                   veces_elim, vPlan>>

ElimNext == \/ ElimToma \/ ElimNew \/ ElimExec \/ ElimVivo \/ ElimNada
            \/ ElimExit \/ ElimTomaRecurso \/ ElimLibera \/ ElimDespierta
            \/ ElimSuelta \/ ElimBorra

=============================================================================
