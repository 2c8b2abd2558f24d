------------------------- MODULE KernelCiclo_proofs -------------------------
(***************************************************************************)
(* Proofs about the processes as a whole: the diagram of their states, the *)
(* degree of multiprogramming and the threads that count it, that nobody   *)
(* who waits or ends is forgotten, how the threads use the resources, and  *)
(* the dispatch socket between the planificador and the CPU.               *)
(*                                                                         *)
(* The diagram and the degree hold as long as the console asks only once   *)
(* to end each process (UnFin): a second FINALIZAR_PROCESO of a process in *)
(* EXEC is queued twice, and the process can go from DELETED back to EXIT  *)
(* and give its slot back twice.  Two requests may be pending for one      *)
(* process even so, that of the console and its own; Fin says when.  The   *)
(* dispatch socket is as it should be while the console ends no process    *)
(* (SinFines).  The rest needs no such hypothesis.                         *)
(***************************************************************************)
EXTENDS KernelEstados_proofs

USE KernelAssumption DEF ColaDe, OpcionalDe, Crear, Elim, Plan, HiloConsola,
    EnLugar, Va, Libre, Tomado, Soltado, SinPausa, Como, VuelveAEsperar,
    CambioEstado, vPCB, vNew, vReady, vExit, vProg, vPausa, vRec, vIface, vCpu,
    vElim, vPlan, vIfaceHilos, cpu_vars

(* Whom eliminar_proceso and proc_end have at hand, and who is in the CPU. *)
EnElim(p) == pc[Elim] # "espera" /\ actual[Elim] = p
EnConsola(p) == pc[HiloConsola] = "proc_end" /\ actual[HiloConsola] = p
EnElCpu(p) == pc[Plan] \in EnLaCpu /\ actual[Plan] = p

(* The requests to end p that nobody has served yet. *)
Pendientes(p) == Veces(p, cola_exit) + Como(EnElim(p)) + Como(EnConsola(p))

(* For a process in state e that the console ended f times, with n requests *)
(* pending, and c when it is in the CPU.                                    *)
Fin(e, f, n, c) ==
    /\ f \in 0..1
    /\ f = 0 => n = Como(e = "EXIT")
    /\ f = 1 => /\ e # "INEXISTENTE"
                /\ e \in {"NEW", "READY", "EXEC", "BLOCKED"} => n = 1
                /\ e = "EXIT" /\ ~c => n \in {1, 2}
                /\ e = "DELETED" => n \in {0, 1}
    /\ c => /\ e \in {"EXEC", "EXIT"}
            /\ e = "EXIT" => f = 1 /\ n = 0

FinOK == \A p \in PID : Fin(estado[p], fines[p], Pendientes(p), EnElCpu(p))

(* How many requests to end a process are pending is a natural number. *)
LEMMA PendientesTipo ==
  ASSUME ColaExitOK, NEW p
  PROVE  /\ Pendientes(p) = Veces(p, cola_exit) + Como(EnElim(p))
                              + Como(EnConsola(p))
         /\ Veces(p, cola_exit) \in Nat
         /\ Pendientes(p) \in Nat
<1>1. Veces(p, cola_exit) \in Nat
  BY VecesHechos DEF ColaExitOK
<1> QED
  BY <1>1 DEF Pendientes

(* A step that leaves cola_exit alone and takes or drops no request. *)
LEMMA PendientesIgual ==
  ASSUME UNCHANGED vExit, NEW p,
         EnElim(p)' <=> EnElim(p), EnConsola(p)' <=> EnConsola(p)
  PROVE  Pendientes(p)' = Pendientes(p)
  BY DEF Pendientes, EnElim, EnConsola, Veces

(* A push in cola_exit. *)
LEMMA VecesPushExit ==
  ASSUME ColaExitOK, NEW q \in PID, PushExit(q), NEW p
  PROVE  Veces(p, cola_exit)' = Veces(p, cola_exit) + Como(q = p)
<1>1. Veces(p, cola_exit)' = Veces(p, cola_exit')
  BY DEF Veces
<1>2. cola_exit \in Seq(PID) /\ cola_exit' = Append(cola_exit, q)
  BY DEF ColaExitOK, PushExit
<1> QED
  BY <1>1, <1>2, VecesAppend

(* A request is pushed while nobody takes or drops one. *)
LEMMA PendientesPush ==
  ASSUME ColaExitOK, NEW q \in PID, PushExit(q), NEW p,
         EnElim(p)' <=> EnElim(p), EnConsola(p)' <=> EnConsola(p)
  PROVE  Pendientes(p)' = Pendientes(p) + Como(q = p)
<1>1. Pendientes(p)' = Veces(p, cola_exit)' + Como(EnElim(p))
                         + Como(EnConsola(p))
  BY DEF Pendientes, EnElim, EnConsola
<1>2. Veces(p, cola_exit)' = Veces(p, cola_exit) + Como(q = p)
  BY VecesPushExit
<1> QED
  BY <1>1, <1>2, PendientesTipo

(* What eliminar_proceso takes from cola_exit it has in hand. *)
LEMMA PendientesToma ==
  ASSUME KInv, ElimToma, NEW p, EnConsola(p)' <=> EnConsola(p)
  PROVE  Pendientes(p)' = Pendientes(p)
<1>0. /\ ColaExitOK /\ PcTypeOK /\ ManosTypeOK /\ Elim \in Hilos
  BY DEF KInv, Hilos
<1>1. /\ cola_exit \in Seq(PID) /\ cola_exit # <<>>
      /\ cola_exit' = Tail(cola_exit)
      /\ ~EnElim(p) /\ pc'[Elim] = "mx_PCB" /\ actual'[Elim] = Head(cola_exit)
  BY <1>0, LenProperties, EmptySeq DEF ElimToma, ColaExitOK, EnElim, PcTypeOK,
     ManosTypeOK
<1>2. Veces(p, cola_exit) = Veces(p, Tail(cola_exit))
                              + Como(Head(cola_exit) = p)
  BY <1>1, VecesTail
<1>3. Veces(p, Tail(cola_exit)) \in Nat
  BY <1>1, HeadTailProperties, VecesHechos
<1>4. Veces(p, cola_exit)' = Veces(p, Tail(cola_exit))
  BY <1>1 DEF Veces
<1>5. EnElim(p)' <=> Head(cola_exit) = p
  BY <1>1 DEF EnElim
<1> QED
  BY <1>0, <1>1, <1>2, <1>3, <1>4, <1>5, PendientesTipo DEF Pendientes

(* And it is done with it when it goes back to wait. *)
LEMMA PendientesMenos ==
  ASSUME ColaExitOK, UNCHANGED vExit, NEW q \in PID, EnElim(q),
         pc'[Elim] = "espera", NEW p, EnConsola(p)' <=> EnConsola(p)
  PROVE  /\ Pendientes(p) \in Nat
         /\ p = q => Pendientes(p) >= 1 /\ Pendientes(p)' = Pendientes(p) - 1
         /\ p # q => Pendientes(p)' = Pendientes(p)
<1>1. /\ Pendientes(p)' = Veces(p, cola_exit) + Como(EnElim(p)')
                            + Como(EnConsola(p))
      /\ ~EnElim(p)' /\ (EnElim(p) <=> p = q)
  BY DEF Pendientes, EnElim, EnConsola, Veces
<1>2. /\ Pendientes(p) = Veces(p, cola_exit) + Como(EnElim(p))
                            + Como(EnConsola(p))
      /\ Veces(p, cola_exit) \in Nat /\ Pendientes(p) \in Nat
  BY PendientesTipo
<1>3. CASE p = q
  BY <1>1, <1>2, <1>3
<1>4. CASE p # q
  BY <1>1, <1>2, <1>4
<1> QED
  BY <1>3, <1>4

(* Nothing changes for a process. *)
LEMMA FinMismo ==
  ASSUME FinOK, NEW p \in PID, estado'[p] = estado[p], fines'[p] = fines[p],
         Pendientes(p)' = Pendientes(p), EnElCpu(p)' <=> EnElCpu(p)
  PROVE  Fin(estado'[p], fines'[p], Pendientes(p)', EnElCpu(p)')
<1>1. Fin(estado[p], fines[p], Pendientes(p), EnElCpu(p))
  BY DEF FinOK
<1> QED
  BY <1>1 DEF Fin

(* A change of state without a PID in cola_exit. *)
ParesSinFin == {<<"INEXISTENTE", "NEW">>, <<"NEW", "READY">>,
                <<"BLOCKED", "READY">>, <<"EXEC", "BLOCKED">>,
                <<"EXEC", "READY">>}

(* A process changes state and no request to end one comes or goes. *)
LEMMA FinMuda ==
  ASSUME FinOK, PCBTypeOK, NEW q \in PID, NEW e, NEW f, Muda(q, e, f),
         <<e, f>> \in ParesSinFin, ~EnElCpu(q),
         UNCHANGED <<vExit, fines>>,
         \A p \in PID : EnElim(p)' <=> EnElim(p),
         \A p \in PID : EnConsola(p)' <=> EnConsola(p),
         \A p \in PID : EnElCpu(p)' <=> EnElCpu(p)
  PROVE  FinOK'
<1> SUFFICES ASSUME NEW p \in PID
             PROVE  Fin(estado'[p], fines'[p], Pendientes(p)', EnElCpu(p)')
  BY DEF FinOK
<1>1. Pendientes(p)' = Pendientes(p)
  BY PendientesIgual
<1>2. CASE p = q
  <2>1. estado[p] = e /\ estado'[p] = f
    BY <1>2 DEF Muda, PCBTypeOK
  <2>2. Fin(e, fines[p], Pendientes(p), FALSE)
    BY <1>2, <2>1 DEF FinOK, Fin
  <2>3. Fin(f, fines[p], Pendientes(p), FALSE)
    BY <2>2 DEF Fin, ParesSinFin
  <2> QED
    BY <1>1, <1>2, <2>1, <2>3 DEF Fin
<1>3. CASE p # q
  <2>1. estado'[p] = estado[p]
    BY <1>3 DEF Muda, PCBTypeOK
  <2> QED
    BY <1>1, <2>1, FinMismo
<1> QED
  BY <1>2, <1>3

(* enviar_a_exit by a thread other than eliminar_proceso. *)
LEMMA FinEntra ==
  ASSUME FinOK, PCBTypeOK, ColaExitOK, NEW q \in PID,
         NEW e \in {"EXEC", "BLOCKED"}, Muda(q, e, "EXIT"), PushExit(q),
         ~EnElCpu(q), UNCHANGED fines,
         \A p \in PID : EnElim(p)' <=> EnElim(p),
         \A p \in PID : EnConsola(p)' <=> EnConsola(p),
         \A p \in PID : EnElCpu(p)' <=> EnElCpu(p)
  PROVE  FinOK'
<1> SUFFICES ASSUME NEW p \in PID
             PROVE  Fin(estado'[p], fines'[p], Pendientes(p)', EnElCpu(p)')
  BY DEF FinOK
<1>1. Pendientes(p)' = Pendientes(p) + Como(q = p) /\ Pendientes(p) \in Nat
  BY PendientesPush, PendientesTipo
<1>2. CASE p = q
  <2>1. estado[p] = e /\ estado'[p] = "EXIT"
    BY <1>2 DEF Muda, PCBTypeOK
  <2>2. Fin(e, fines[p], Pendientes(p), FALSE)
    BY <1>2, <2>1 DEF FinOK, Fin
  <2>3. Pendientes(p)' = Pendientes(p) + 1
    BY <1>1, <1>2
  <2>4. ~EnElCpu(p)'
    BY <1>2
  <2> QED
    BY <1>1, <2>1, <2>2, <2>3, <2>4 DEF Fin
<1>3. CASE p # q
  <2>1. estado'[p] = estado[p] /\ Pendientes(p)' = Pendientes(p)
    BY <1>1, <1>3 DEF Muda, PCBTypeOK
  <2> QED
    BY <2>1, FinMismo
<1> QED
  BY <1>2, <1>3

(* FinOK, thread by thread. *)
LEMMA FinPasoCrear ==
  ASSUME KInv, EstadosOK, FinOK, DelCrear
  PROVE  FinOK'
<1>0. /\ PcTypeOK /\ ManosTypeOK /\ PCBTypeOK /\ ManosCrear /\ EstadoCrear
  BY DEF KInv, EstadosOK
<1>1. \A p \in PID : /\ EnElim(p)' <=> EnElim(p)
                     /\ EnConsola(p)' <=> EnConsola(p)
                     /\ EnElCpu(p)' <=> EnElCpu(p)
  BY <1>0, OtrosHilosCrear DEF EnElim, EnConsola, EnElCpu, Hilos
<1>2. UNCHANGED <<vExit, fines>>
  BY HuellaCrear
<1>3. CASE CrearAdmite
  <2>1. PICK q \in PID : q = actual[Crear]
    BY <1>0, <1>3 DEF CrearAdmite, ManosCrear
  <2>2. Muda(q, "NEW", "READY") /\ <<"NEW", "READY">> \in ParesSinFin
    BY <1>0, <1>3, <2>1 DEF CrearAdmite, Muda, EstadoCrear, ParesSinFin
  <2>3. ~EnElCpu(q)
    BY <2>2 DEF FinOK, Fin, Muda
  <2> QED
    BY <1>0, <1>1, <1>2, <2>2, <2>3, FinMuda
<1>4. CASE UNCHANGED estado
  BY <1>1, <1>2, <1>4, PendientesIgual, FinMismo DEF FinOK
<1> QED
  BY <1>3, <1>4, HuellaCrear

(* desbloquear *)
LEMMA FinDesbloquear ==
  ASSUME FinOK, PCBTypeOK, NEW q \in PID, Desbloquear(q),
         UNCHANGED <<vExit, fines>>,
         \A p \in PID : EnElim(p)' <=> EnElim(p),
         \A p \in PID : EnConsola(p)' <=> EnConsola(p),
         \A p \in PID : EnElCpu(p)' <=> EnElCpu(p)
  PROVE  FinOK'
<1>1. CASE UNCHANGED estado
  BY <1>1, PendientesIgual, FinMismo DEF FinOK
<1>2. CASE Muda(q, "BLOCKED", "READY")
  <2>1. <<"BLOCKED", "READY">> \in ParesSinFin
    BY DEF ParesSinFin
  <2>2. ~EnElCpu(q)
    BY <1>2 DEF FinOK, Fin, Muda
  <2> QED
    BY <1>2, <2>1, <2>2, FinMuda
<1> QED
  BY <1>1, <1>2, DesbloquearMuda

(* eliminar_proceso is done with a process. *)
LEMMA FinRetira ==
  ASSUME KInv, MutexOK, EstadosOK, FinOK, DelElim,
         ElimNew \/ ElimExec \/ ElimNada \/ ElimBorra
  PROVE  FinOK'
<1>0. /\ PcTypeOK /\ ManosTypeOK /\ PCBTypeOK /\ ManosElim /\ ColaExitOK
      /\ EstadoElim /\ UnoEnExec /\ Elim \in Hilos /\ Plan \in Hilos
  BY DEF KInv, EstadosOK, Hilos
<1>1. \A p \in PID : /\ EnConsola(p)' <=> EnConsola(p)
                     /\ EnElCpu(p)' <=> EnElCpu(p)
  BY <1>0, OtrosHilosElim DEF EnConsola, EnElCpu, Hilos
<1>2. PICK q \in PID : q = actual[Elim]
  BY <1>0 DEF ElimNew, ElimExec, ElimNada, ElimBorra, ElimCaso, ManosElim
<1>3. EnElim(q) /\ pc'[Elim] = "espera"
  BY <1>0, <1>2 DEF ElimNew, ElimExec, ElimNada, ElimBorra, ElimCaso, EnElim,
     PcTypeOK
<1>4. UNCHANGED <<vExit, fines>>
  BY HuellaElim DEF ElimNew, ElimExec, ElimNada, ElimBorra, ElimCaso
<1>5. \A p \in PID : p # q =>
        estado'[p] = estado[p] /\ Pendientes(p)' = Pendientes(p)
  BY <1>0, <1>1, <1>2, <1>3, <1>4, PendientesMenos
     DEF ElimNew, ElimExec, ElimNada, ElimBorra, PCBTypeOK
<1>6. /\ Pendientes(q) \in Nat /\ Pendientes(q) >= 1
      /\ Pendientes(q)' = Pendientes(q) - 1
  BY <1>0, <1>1, <1>3, <1>4, PendientesMenos
<1>7. Fin(estado[q], fines[q], Pendientes(q), EnElCpu(q))
  BY DEF FinOK
<1>8. \/ /\ estado[q] = "NEW" /\ estado'[q] = "DELETED"
      \/ /\ estado[q] = "EXEC" /\ estado'[q] = "EXIT" /\ EnElCpu(q)
      \/ /\ estado[q] = "DELETED" /\ estado'[q] = "DELETED"
      \/ /\ estado[q] = "EXIT" /\ estado'[q] = "DELETED"
  <2>1. CASE ElimNew
    BY <1>0, <1>2, <2>1 DEF ElimNew, ElimCaso, PCBTypeOK
  <2>2. CASE ElimExec
    <3>1. estado[q] = "EXEC" /\ estado'[q] = "EXIT" /\ Libre(mx_PCB, q)
      BY <1>0, <1>2, <2>2 DEF ElimExec, ElimCaso, PCBTypeOK
    <3>2. ~TieneElPCB(Plan, q)
      BY <1>0, <3>1, LibreNadie DEF NadieLoTiene
    <3>3. EnElCpu(q)
      BY <1>0, <3>1, <3>2 DEF UnoEnExec, TieneElPCB, ConElPCB, EnElCpu
    <3> QED
      BY <3>1, <3>3
  <2>3. CASE ElimNada
    BY <1>0, <1>2, <2>3 DEF ElimNada, ElimCaso, PCBTypeOK
  <2>4. CASE ElimBorra
    BY <1>0, <1>2, <2>4 DEF ElimBorra, EstadoElim, PCBTypeOK
  <2> QED
    BY <2>1, <2>2, <2>3, <2>4
<1>9. Fin(estado'[q], fines'[q], Pendientes(q)', EnElCpu(q)')
  <2>1. fines'[q] = fines[q] /\ (EnElCpu(q)' <=> EnElCpu(q))
    BY <1>1, <1>4
  <2>2. Fin(estado'[q], fines[q], Pendientes(q) - 1, EnElCpu(q))
    BY <1>6, <1>7, <1>8 DEF Fin
  <2> QED
    BY <1>6, <2>1, <2>2 DEF Fin
<1>10. \A p \in PID : p # q =>
         Fin(estado'[p], fines'[p], Pendientes(p)', EnElCpu(p)')
  BY <1>1, <1>4, <1>5, FinMismo
<1> QED
  BY <1>9, <1>10 DEF FinOK

(* case READY, case BLOCKED: taken from cola_exit and put back. *)
LEMMA FinVivo ==
  ASSUME KInv, FinOK, DelElim, ElimVivo
  PROVE  FinOK'
<1>0. /\ PcTypeOK /\ ManosTypeOK /\ PCBTypeOK /\ ManosElim /\ ColaExitOK
      /\ Elim \in Hilos
  BY DEF KInv, Hilos
<1>1. \A p \in PID : /\ EnConsola(p)' <=> EnConsola(p)
                     /\ EnElCpu(p)' <=> EnElCpu(p)
  BY <1>0, OtrosHilosElim DEF EnConsola, EnElCpu, Hilos
<1>2. PICK q \in PID : q = actual[Elim]
  BY <1>0 DEF ElimVivo, ElimCaso, ManosElim
<1>3. /\ EnElim(q) /\ pc'[Elim] = "espera" /\ PushExit(q)
      /\ estado[q] \in {"READY", "BLOCKED"}
      /\ estado' = [estado EXCEPT ![q] = "EXIT"]
  BY <1>0, <1>2 DEF ElimVivo, EnviarAExit, ElimCaso, EnElim, PcTypeOK
<1>4. UNCHANGED fines
  BY HuellaElim
<1>5. ASSUME NEW p \in PID PROVE Pendientes(p)' = Pendientes(p)
  <2>1. Veces(p, cola_exit)' = Veces(p, cola_exit) + Como(q = p)
    BY <1>0, <1>3, VecesPushExit
  <2>2. ~EnElim(p)' /\ (EnElim(p) <=> p = q)
    BY <1>2, <1>3 DEF EnElim
  <2>3. Pendientes(p)' = Veces(p, cola_exit)' + Como(EnElim(p)')
                           + Como(EnConsola(p)')
    BY DEF Pendientes
  <2> QED
    BY <1>0, <1>1, <2>1, <2>2, <2>3, PendientesTipo
<1>6. \A p \in PID : p # q => estado'[p] = estado[p]
  BY <1>0, <1>3 DEF PCBTypeOK
<1>7. Fin(estado[q], fines[q], Pendientes(q), EnElCpu(q))
  BY DEF FinOK
<1>8. Pendientes(q) >= 1 /\ Pendientes(q) \in Nat
  BY <1>0, <1>3, PendientesTipo
<1>9. Fin(estado'[q], fines'[q], Pendientes(q)', EnElCpu(q)')
  <2>1. estado'[q] = "EXIT"
    BY <1>0, <1>3 DEF PCBTypeOK
  <2>2. fines'[q] = fines[q] /\ (EnElCpu(q)' <=> EnElCpu(q))
    BY <1>1, <1>4
  <2>3. Fin("EXIT", fines[q], Pendientes(q), EnElCpu(q))
    BY <1>3, <1>7, <1>8 DEF Fin
  <2> QED
    BY <1>5, <2>1, <2>2, <2>3 DEF Fin
<1>10. \A p \in PID : p # q =>
         Fin(estado'[p], fines'[p], Pendientes(p)', EnElCpu(p)')
  BY <1>1, <1>4, <1>5, <1>6, FinMismo
<1> QED
  BY <1>9, <1>10 DEF FinOK

(* eliminar_proceso takes a request out of cola_exit and, one way or *)
(* another,                                                          *)
(* is done with it.                                                  *)
LEMMA FinPasoElim ==
  ASSUME KInv, MutexOK, EstadosOK, FinOK, DelElim
  PROVE  FinOK'
<1>0. /\ PcTypeOK /\ ManosTypeOK /\ PCBTypeOK /\ ManosElim /\ ColaExitOK
      /\ Elim \in Hilos
  BY DEF KInv, Hilos
<1>1. \A p \in PID : /\ EnConsola(p)' <=> EnConsola(p)
                     /\ EnElCpu(p)' <=> EnElCpu(p)
  BY <1>0, OtrosHilosElim DEF EnConsola, EnElCpu, Hilos
<1>2. UNCHANGED fines
  BY HuellaElim
<1>3. CASE ElimToma
  <2>1. UNCHANGED estado /\ \A p \in PID : Pendientes(p)' = Pendientes(p)
    BY <1>1, <1>3, PendientesToma DEF ElimToma
  <2> QED
    BY <1>1, <1>2, <2>1, FinMismo DEF FinOK
<1>4. CASE ElimExit \/ ElimTomaRecurso \/ ElimLibera \/ ElimSuelta
  <2>1. /\ UNCHANGED <<estado, vExit, actual>>
        /\ pc[Elim] # "espera" /\ pc'[Elim] # "espera"
    BY <1>0, <1>4 DEF ElimExit, ElimTomaRecurso, ElimLibera, ElimSuelta,
       PcTypeOK
  <2> QED
    BY <1>1, <1>2, <2>1, PendientesIgual, FinMismo DEF FinOK, EnElim
<1>5. CASE ElimDespierta
  <2>1. /\ UNCHANGED <<vExit, actual>>
        /\ pc[Elim] # "espera" /\ pc'[Elim] # "espera"
        /\ otro[Elim] \in PID /\ Desbloquear(otro[Elim])
    BY <1>0, <1>5 DEF ElimDespierta, ManosElim, PcTypeOK
  <2> QED
    BY <1>0, <1>1, <1>2, <2>1, FinDesbloquear DEF EnElim
<1> QED
  BY <1>3, <1>4, <1>5, FinRetira, FinVivo DEF DelElim, ElimNext

(* The console gives no FINALIZAR_PROCESO, or gives one per process. *)
SinFines == "FINALIZAR_PROCESO" \notin Comandos
UnFin == SinFines \/ MaxFin <= 1
FinesOK == fines \in [PID -> 0..1]

(* It stays so. *)
LEMMA FinesPaso ==
  ASSUME FinesOK, UnFin, [Next]_vars
  PROVE  FinesOK'
<1>1. ASSUME NEW q \in PID, ProcEnd(q) PROVE FinesOK'
  <2>1. /\ fines' = [fines EXCEPT ![q] = @ + 1]
        /\ fines[q] < MaxFin /\ MaxFin <= 1
    BY <1>1 DEF ProcEnd, Lee, UnFin, SinFines
  <2> QED
    BY <2>1, ConsolaAssumption DEF FinesOK
<1>2. CASE UNCHANGED fines
  BY <1>2 DEF FinesOK
<1> QED
  BY <1>1, <1>2, HuellaCrear, HuellaElim, HuellaPlan, HuellaReloj,
     HuellaConsola, HuellaIfaces, HuellaCpu DEF Next, vars

(* proc_end and plan commands. *)
LEMMA FinPasoConsola ==
  ASSUME KInv, FinesOK, FinOK, UnFin, DeConsola
  PROVE  FinOK'
<1>0. /\ PcTypeOK /\ ManosTypeOK /\ PCBTypeOK /\ ManosConsola /\ ColaExitOK
      /\ HiloConsola \in Hilos
  BY DEF KInv, Hilos
<1>1. \A p \in PID : /\ EnElim(p)' <=> EnElim(p)
                     /\ EnElCpu(p)' <=> EnElCpu(p)
  BY <1>0, OtrosHilosConsola DEF EnElim, EnElCpu, Hilos
<1>2. ASSUME NEW q \in PID, ProcStart(q) PROVE FinOK'
  <2>1. UNCHANGED <<vExit, fines, pc, actual>>
    BY <1>2 DEF ProcStart
  <2>2. /\ Muda(q, "INEXISTENTE", "NEW")
        /\ <<"INEXISTENTE", "NEW">> \in ParesSinFin
    BY <1>2 DEF ProcStart, Muda, ParesSinFin
  <2>3. ~EnElCpu(q)
    BY <2>2 DEF FinOK, Fin, Muda
  <2> QED
    BY <1>0, <1>1, <2>1, <2>2, <2>3, FinMuda DEF EnConsola
<1>3. ASSUME NEW q \in PID, ProcEnd(q) PROVE FinOK'
  <2>1. /\ UNCHANGED <<estado, vExit>>
        /\ pc[HiloConsola] = "espera" /\ pc'[HiloConsola] = "proc_end"
        /\ actual'[HiloConsola] = q
        /\ estado[q] \in {"NEW", "READY", "EXEC", "BLOCKED"}
    BY <1>0, <1>3 DEF ProcEnd, Lee, PcTypeOK, ManosTypeOK, PCBTypeOK, Estados
  <2>2. /\ fines' = [fines EXCEPT ![q] = @ + 1]
        /\ fines[q] < MaxFin /\ MaxFin <= 1
    BY <1>3 DEF ProcEnd, Lee, UnFin, SinFines
  <2>3. \A p \in PID : ~EnConsola(p) /\ (EnConsola(p)' <=> p = q)
    BY <2>1 DEF EnConsola
  <2>4. ASSUME NEW p \in PID
        PROVE  Pendientes(p)' = Pendientes(p) + Como(p = q)
    <3>1. Pendientes(p)' = Veces(p, cola_exit) + Como(EnElim(p))
                             + Como(p = q)
      BY <1>1, <2>1, <2>3 DEF Pendientes, Veces
    <3> QED
      BY <1>0, <2>3, <3>1, PendientesTipo
  <2>5. Fin(estado[q], fines[q], Pendientes(q), EnElCpu(q))
    BY DEF FinOK
  <2>6. /\ fines[q] = 0 /\ fines'[q] = 1
        /\ \A p \in PID \ {q} : fines'[p] = fines[p]
    BY <2>2, ConsolaAssumption DEF FinesOK
  <2>7. Pendientes(q) = 0 /\ Pendientes(q)' = 1
    BY <2>1, <2>4, <2>5, <2>6 DEF Fin
  <2>8. Fin(estado'[q], fines'[q], Pendientes(q)', EnElCpu(q)')
    <3>1. Fin(estado[q], 1, 1, EnElCpu(q))
      BY <2>1, <2>5 DEF Fin
    <3> QED
      BY <1>1, <2>1, <2>6, <2>7, <3>1 DEF Fin
  <2>9. ASSUME NEW p \in PID, p # q
        PROVE  Fin(estado'[p], fines'[p], Pendientes(p)', EnElCpu(p)')
    <3>1. Pendientes(p)' = Pendientes(p)
      BY <1>0, <2>4, <2>9, PendientesTipo
    <3> QED
      BY <1>1, <2>1, <2>6, <2>9, <3>1, FinMismo
  <2> QED
    BY <2>8, <2>9 DEF FinOK
<1>4. CASE ProcEndEncola
  <2>1. PICK q \in PID : q = actual[HiloConsola]
    BY <1>0, <1>4 DEF ProcEndEncola, ManosConsola
  <2>2. /\ UNCHANGED <<estado, fines>> /\ PushExit(q)
        /\ pc[HiloConsola] = "proc_end" /\ pc'[HiloConsola] = "espera"
    BY <1>0, <1>4, <2>1 DEF ProcEndEncola, PcTypeOK
  <2>3. ASSUME NEW p \in PID PROVE Pendientes(p)' = Pendientes(p)
    <3>1. Veces(p, cola_exit)' = Veces(p, cola_exit) + Como(q = p)
      BY <1>0, <2>2, VecesPushExit
    <3>2. ~EnConsola(p)' /\ (EnConsola(p) <=> p = q)
      BY <2>1, <2>2 DEF EnConsola
    <3>3. Pendientes(p)' = Veces(p, cola_exit)' + Como(EnElim(p)')
                             + Como(EnConsola(p)')
      BY DEF Pendientes
    <3> QED
      BY <1>0, <1>1, <3>1, <3>2, <3>3, PendientesTipo
  <2> QED
    BY <1>1, <2>2, <2>3, FinMismo DEF FinOK
<1>5. CASE UNCHANGED <<estado, vExit, fines, pc, actual>>
  BY <1>1, <1>5, PendientesIgual, FinMismo DEF FinOK, EnConsola
<1> QED
  BY <1>2, <1>3, <1>4, <1>5
     DEF DeConsola, ConsolaNext, Multiprog, PlanEnd, PlanStart

(* IN and OUT end a process through enviar_a_exit. *)
LEMMA FinPasoIfaces ==
  ASSUME KInv, EstadosOK, FinOK, DeIfaces
  PROVE  FinOK'
<1>0. /\ PCBTypeOK /\ ManosOut /\ ColaExitOK /\ EstadoDisp /\ InterfacesTypeOK
  BY DEF KInv, EstadosOK
<1>1. \A p \in PID : /\ EnElim(p)' <=> EnElim(p)
                     /\ EnConsola(p)' <=> EnConsola(p)
                     /\ EnElCpu(p)' <=> EnElCpu(p)
  BY HuellaIfaces DEF EnElim, EnConsola, EnElCpu
<1>2. UNCHANGED fines
  BY HuellaIfaces
<1>3. ASSUME NEW q \in PID, Muda(q, "BLOCKED", "EXIT"), PushExit(q)
      PROVE  FinOK'
  <2>1. ~EnElCpu(q)
    BY <1>3 DEF FinOK, Fin, Muda
  <2> QED
    BY <1>0, <1>1, <1>2, <1>3, <2>1, FinEntra
<1>4. CASE UNCHANGED <<estado, vExit>>
  BY <1>1, <1>2, <1>4, PendientesIgual, FinMismo DEF FinOK
<1>5. ASSUME NEW i \in Ifaces, InIOFin(i) PROVE FinOK'
  <2>1. occupant[i] \in PID /\ Desbloquear(occupant[i]) /\ UNCHANGED vExit
    BY <1>0, <1>5 DEF InIOFin, InterfacesTypeOK
  <2> QED
    BY <1>0, <1>1, <1>2, <2>1, FinDesbloquear
<1>6. ASSUME NEW i \in Ifaces, InDesconexion(i) PROVE FinOK'
  <2>1. CASE occupant[i] = Nadie
    BY <1>4, <1>6, <2>1 DEF InDesconexion
  <2>2. CASE occupant[i] # Nadie
    <3>1. PICK q \in PID : q = occupant[i]
      BY <1>0, <2>2 DEF InterfacesTypeOK
    <3>2. Muda(q, "BLOCKED", "EXIT") /\ PushExit(q)
      BY <1>0, <1>6, <2>2, <3>1 DEF InDesconexion, EnviarAExit, EstadoDisp,
             Muda
    <3> QED
      BY <1>3, <3>2
  <2> QED
    BY <2>1, <2>2
<1>7. ASSUME NEW i \in Ifaces, OutRechaza(i) PROVE FinOK'
  <2>1. PICK q \in PID : q = pid_out[i]
    BY <1>0, <1>7 DEF OutRechaza, OutConPCB, ManosOut
  <2>2. Muda(q, "BLOCKED", "EXIT") /\ PushExit(q)
    BY <1>7, <2>1 DEF OutRechaza, EnviarAExit, Muda
  <2> QED
    BY <1>3, <2>2
<1>8. CASE ~\E i \in Ifaces : InIOFin(i) \/ InDesconexion(i) \/ OutRechaza(i)
  BY <1>4, <1>8, HuellaIfaces
<1> QED
  BY <1>5, <1>6, <1>7, <1>8

(* The planificador ends who exits, fails, or is already ended when it comes *)
(* back from the CPU.                                                        *)
LEMMA FinPasoPlan ==
  ASSUME KInv, MutexOK, EstadosOK, FinOK, DelPlan
  PROVE  FinOK'
<1>0. /\ PcTypeOK /\ ManosTypeOK /\ PCBTypeOK /\ ManosPlan /\ ColaExitOK
      /\ EstadoPlan /\ EstadoCpu /\ Plan \in Hilos
  BY DEF KInv, EstadosOK, Hilos
<1>1. \A p \in PID : /\ EnElim(p)' <=> EnElim(p)
                     /\ EnConsola(p)' <=> EnConsola(p)
  BY <1>0, OtrosHilosPlan DEF EnElim, EnConsola, Hilos
<1>2. UNCHANGED fines
  BY HuellaPlan
<1>3. ASSUME pc[Plan] \notin EnLaCpu, pc'[Plan] \notin EnLaCpu
      PROVE  \A p \in PID : ~EnElCpu(p) /\ ~EnElCpu(p)'
  BY <1>3 DEF EnElCpu
(* Steps that neither change a state nor use cola_exit. *)
<1>4. ASSUME UNCHANGED <<estado, vExit>>,
             \A p \in PID : EnElCpu(p)' <=> EnElCpu(p)
      PROVE  FinOK'
  BY <1>1, <1>2, <1>4, PendientesIgual, FinMismo DEF FinOK
<1>5. CASE PlanToma \/ PlanPasaPausa \/ PlanDescarta
  <2>1. /\ UNCHANGED <<estado, vExit>> /\ pc[Plan] \notin EnLaCpu
        /\ pc'[Plan] \notin EnLaCpu
    BY <1>0, <1>5 DEF PlanToma, PlanPasaPausa, PlanDescarta, PcTypeOK, EnLaCpu
  <2> QED
    BY <1>3, <1>4, <2>1
<1>6. CASE PlanInterrumpido \/ PlanPideSyscall \/ PlanSignal \/ PlanSuelta
  <2>1. /\ UNCHANGED <<estado, vExit>> /\ pc[Plan] \notin EnLaCpu
        /\ pc'[Plan] \notin EnLaCpu
    BY <1>0, <1>6 DEF PlanInterrumpido, PlanPideSyscall, PlanSignal,
       PlanSuelta, PlanProcesa, PlanSinCambio, PcTypeOK, EnLaCpu
  <2> QED
    BY <1>3, <1>4, <2>1
<1>7. CASE PlanRecibe
  <2>1. UNCHANGED <<estado, vExit, actual>> /\ pc[Plan] \in EnLaCpu
        /\ pc'[Plan] \in EnLaCpu
    BY <1>0, <1>7 DEF PlanRecibe, PcTypeOK, EnLaCpu
  <2> QED
    BY <1>4, <2>1 DEF EnElCpu
(* It goes to the CPU... *)
<1>8. CASE PlanDespacha \/ PlanRedespacha
  <2>1. PICK q \in PID : q = actual[Plan]
    BY <1>0, <1>8 DEF PlanDespacha, PlanRedespacha, ManosPlan
  <2>2. /\ UNCHANGED <<vExit, actual>> /\ pc[Plan] \notin EnLaCpu
        /\ pc'[Plan] \in EnLaCpu /\ estado[q] \in {"READY", "EXEC"}
        /\ estado' = [estado EXCEPT ![q] = "EXEC"]
    BY <1>0, <1>8, <2>1 DEF PlanDespacha, PlanRedespacha, EjecutarProceso,
       PcTypeOK, EnLaCpu
  <2>3. \A p \in PID : Pendientes(p)' = Pendientes(p)
    BY <1>1, <2>2, PendientesIgual
  <2>4. \A p \in PID : ~EnElCpu(p) /\ (EnElCpu(p)' <=> p = q)
    BY <2>1, <2>2 DEF EnElCpu
  <2>5. ASSUME NEW p \in PID
        PROVE  Fin(estado'[p], fines'[p], Pendientes(p)', EnElCpu(p)')
    <3>1. CASE p = q
      <4>1. estado'[p] = "EXEC" /\ fines'[p] = fines[p]
        BY <1>0, <1>2, <2>2, <3>1 DEF PCBTypeOK
      <4>2. Fin(estado[p], fines[p], Pendientes(p), FALSE)
        BY <2>4 DEF FinOK, Fin
      <4>3. Fin("EXEC", fines[p], Pendientes(p), TRUE)
        BY <2>2, <3>1, <4>2 DEF Fin
      <4> QED
        BY <2>3, <2>4, <3>1, <4>1, <4>3 DEF Fin
    <3>2. CASE p # q
      BY <1>0, <1>2, <2>2, <2>3, <2>4, <3>2, FinMismo DEF PCBTypeOK
    <3> QED
      BY <3>1, <3>2
  <2> QED
    BY <2>5 DEF FinOK
(* ...and comes back: killed, and only now put in cola_exit, or not. *)
<1>9. CASE PlanMatado \/ PlanActualiza
  <2>1. PICK q \in PID : q = actual[Plan]
    BY <1>0, <1>9 DEF PlanMatado, PlanActualiza, ManosPlan
  <2>2. /\ pc[Plan] \in EnLaCpu /\ pc'[Plan] \notin EnLaCpu /\ EnElCpu(q)
    BY <1>0, <1>9, <2>1 DEF PlanMatado, PlanActualiza, PcTypeOK, EnLaCpu,
       EnElCpu
  <2>3. \A p \in PID : (EnElCpu(p) <=> p = q) /\ ~EnElCpu(p)'
    BY <2>1, <2>2 DEF EnElCpu
  <2>4. Fin(estado[q], fines[q], Pendientes(q), TRUE)
    BY <2>2 DEF FinOK, Fin
  <2>5. CASE PlanActualiza
    <3>1. UNCHANGED <<estado, vExit>> /\ estado[q] = "EXEC"
      BY <2>1, <2>5 DEF PlanActualiza
    <3>2. \A p \in PID : Pendientes(p)' = Pendientes(p)
      BY <1>1, <3>1, PendientesIgual
    <3>3. Fin(estado'[q], fines'[q], Pendientes(q)', EnElCpu(q)')
      BY <1>2, <2>3, <2>4, <3>1, <3>2 DEF Fin
    <3>4. \A p \in PID : p # q =>
            Fin(estado'[p], fines'[p], Pendientes(p)', EnElCpu(p)')
      BY <1>2, <2>3, <3>1, <3>2, FinMismo
    <3> QED
      BY <3>3, <3>4 DEF FinOK
  <2>6. CASE PlanMatado
    <3>1. /\ PushExit(q) /\ estado[q] # "EXEC"
          /\ estado' = [estado EXCEPT ![q] = "EXIT"]
      BY <2>1, <2>6 DEF PlanMatado, EnviarAExit
    <3>2. \A p \in PID : /\ Pendientes(p)' = Pendientes(p) + Como(q = p)
                         /\ Pendientes(p) \in Nat
      BY <1>0, <1>1, <3>1, PendientesPush, PendientesTipo
    <3>3. /\ estado'[q] = "EXIT" /\ fines'[q] = 1 /\ Pendientes(q)' = 1
          /\ ~EnElCpu(q)'
      BY <1>0, <1>2, <2>3, <2>4, <3>1, <3>2 DEF Fin, PCBTypeOK
    <3>4. Fin(estado'[q], fines'[q], Pendientes(q)', EnElCpu(q)')
      BY <3>3 DEF Fin
    <3>5. \A p \in PID : p # q =>
            Fin(estado'[p], fines'[p], Pendientes(p)', EnElCpu(p)')
      BY <1>0, <1>2, <2>3, <3>1, <3>2, FinMismo DEF PCBTypeOK
    <3> QED
      BY <3>4, <3>5 DEF FinOK
  <2> QED
    BY <1>9, <2>5, <2>6
(* The ends a process finds by itself. *)
<1>10. ASSUME NEW q \in PID, q = actual[Plan], Muda(q, "EXEC", "EXIT"),
              PushExit(q), pc[Plan] \notin EnLaCpu, pc'[Plan] \notin EnLaCpu
       PROVE  FinOK'
  BY <1>0, <1>1, <1>2, <1>3, <1>10, FinEntra
<1>11. CASE PlanInvalida \/ PlanTermina \/ PlanInterfazInvalida
  <2>1. PICK q \in PID : q = actual[Plan]
    BY <1>0, <1>11 DEF PlanInvalida, PlanTermina, PlanInterfazInvalida,
       PlanProcesa, ManosPlan
  <2>2. /\ PushExit(q) /\ pc[Plan] \in {"procesa", "IO"}
        /\ pc'[Plan] = "cierre" /\ estado' = [estado EXCEPT ![q] = "EXIT"]
    BY <1>0, <1>11, <2>1 DEF PlanInvalida, PlanTermina, PlanInterfazInvalida,
       PlanProcesa, PlanEnviarAExit, EnviarAExit, PcTypeOK
  <2>3. Muda(q, "EXEC", "EXIT")
    BY <1>0, <2>1, <2>2 DEF Muda, EstadoPlan, ConElPCB
  <2> QED
    BY <1>10, <2>1, <2>2, <2>3 DEF EnLaCpu
<1>12. CASE PlanLeeSyscall
  <2>1. PICK q \in PID : q = actual[Plan]
    BY <1>0, <1>12 DEF PlanLeeSyscall, ManosPlan
  <2>2. /\ pc[Plan] = "syscall" /\ pc'[Plan] \notin EnLaCpu
    BY <1>0, <1>12 DEF PlanLeeSyscall, PlanSinCambio, PlanEnviarAExit,
       PcTypeOK, EnLaCpu, OpsRecurso
  <2>3. CASE PlanEnviarAExit("INVALID_RESOURCE")
    <3>1. Muda(q, "EXEC", "EXIT") /\ PushExit(q)
      BY <1>0, <2>1, <2>2, <2>3 DEF PlanEnviarAExit, EnviarAExit, Muda,
         EstadoPlan, ConElPCB
    <3> QED
      BY <1>10, <2>1, <2>2, <3>1 DEF EnLaCpu
  <2>4. CASE UNCHANGED <<estado, vExit>>
    BY <1>3, <1>4, <2>2, <2>4 DEF EnLaCpu
  <2> QED
    BY <1>12, <2>3, <2>4 DEF PlanLeeSyscall, PlanSinCambio
<1>13. CASE PlanWait \/ PlanBloqueaIO
  <2>1. PICK q \in PID : q = actual[Plan]
    BY <1>0, <1>13 DEF PlanWait, PlanBloqueaIO, ManosPlan
  <2>2. /\ UNCHANGED vExit /\ pc[Plan] \in {"WAIT", "IO"}
        /\ pc'[Plan] = "cierre"
        /\ UNCHANGED estado \/ estado' = [estado EXCEPT ![q] = "BLOCKED"]
    BY <1>0, <1>13, <2>1 DEF PlanWait, PlanBloqueaIO, PcTypeOK
  <2>3. UNCHANGED estado \/ Muda(q, "EXEC", "BLOCKED")
    BY <1>0, <2>1, <2>2 DEF Muda, EstadoPlan, ConElPCB
  <2>4. \A p \in PID : ~EnElCpu(p) /\ ~EnElCpu(p)'
    BY <1>3, <2>2 DEF EnLaCpu
  <2>5. <<"EXEC", "BLOCKED">> \in ParesSinFin
    BY DEF ParesSinFin
  <2>6. CASE UNCHANGED estado
    BY <1>4, <2>2, <2>4, <2>6
  <2>7. CASE Muda(q, "EXEC", "BLOCKED")
    BY <1>0, <1>1, <1>2, <2>2, <2>4, <2>5, <2>7, FinMuda
  <2> QED
    BY <2>3, <2>6, <2>7
<1>14. CASE PlanDesaloja
  <2>1. PICK q \in PID : q = actual[Plan]
    BY <1>0, <1>14 DEF PlanDesaloja, ManosPlan
  <2>2. /\ UNCHANGED vExit /\ pc[Plan] = "cierre" /\ pc'[Plan] = "espera"
        /\ Muda(q, "EXEC", "READY")
    BY <1>0, <1>14, <2>1 DEF PlanDesaloja, PcTypeOK, Muda
  <2>3. \A p \in PID : ~EnElCpu(p) /\ ~EnElCpu(p)'
    BY <1>3, <2>2 DEF EnLaCpu
  <2>4. <<"EXEC", "READY">> \in ParesSinFin
    BY DEF ParesSinFin
  <2> QED
    BY <1>0, <1>1, <1>2, <2>2, <2>3, <2>4, FinMuda
<1>15. CASE PlanDespierta
  <2>1. /\ UNCHANGED vExit /\ pc[Plan] = "despierta" /\ pc'[Plan] = "cierre"
        /\ otro[Plan] \in PID /\ Desbloquear(otro[Plan])
    BY <1>0, <1>15 DEF PlanDespierta, PcTypeOK, ManosPlan
  <2>2. \A p \in PID : ~EnElCpu(p) /\ ~EnElCpu(p)'
    BY <1>3, <2>1 DEF EnLaCpu
  <2> QED
    BY <1>0, <1>1, <1>2, <2>1, <2>2, FinDesbloquear
<1> QED
  BY <1>5, <1>6, <1>7, <1>8, <1>9, <1>11, <1>12, <1>13, <1>14, <1>15
     DEF DelPlan, PlanNext

(* At the start nothing is pending. *)
LEMMA FinInit == Init => FinesOK /\ FinOK
<1> SUFFICES ASSUME Init PROVE FinesOK /\ FinOK
  OBVIOUS
<1>1. FinesOK /\ cola_exit = <<>>
  BY DEF Init, KernelInit, ConsolaInit, FinesOK
<1>2. ASSUME NEW p \in PID
      PROVE  Fin(estado[p], fines[p], Pendientes(p), EnElCpu(p))
  <2>1. <<>> \in Seq(PID) /\ ~Contains(<<>>, p)
    BY EmptySeq DEF Contains
  <2>2. Veces(p, cola_exit) = 0
    BY <1>1, <2>1, VecesHechos
  <2>3. ~EnElim(p) /\ ~EnConsola(p) /\ ~EnElCpu(p)
        /\ estado[p] = "INEXISTENTE" /\ fines[p] = 0
    BY DEF Init, KernelInit, ConsolaInit, EnElim, EnConsola, EnElCpu, EnLaCpu,
       Hilos
  <2>4. Pendientes(p) = 0
    BY <2>2, <2>3 DEF Pendientes
  <2> QED
    BY <2>3, <2>4 DEF Fin
<1> QED
  BY <1>1, <1>2 DEF FinOK

(* The inductive invariant of this module. *)
CicloInv == EstadosInv /\ FinesOK /\ FinOK

(* Every step keeps it. *)
LEMMA CicloInvPaso ==
  ASSUME CicloInv, UnFin, [Next]_vars
  PROVE  CicloInv'
<1>1. EstadosInv /\ KInv /\ MutexOK /\ EstadosOK /\ FinesOK /\ FinOK
  BY DEF CicloInv, EstadosInv
<1>2. EstadosInv' /\ FinesOK'
  BY <1>1, EstadosInvPaso, FinesPaso
<1>3. CASE DelReloj \/ DeCpu \/ UNCHANGED vars
  <2>1. UNCHANGED <<estado, vExit, fines, pc, actual>>
    BY <1>3, HuellaReloj, HuellaCpu DEF vars, kernel_vars, vKernelAjeno
  <2> QED
    BY <1>1, <1>2, <2>1, PendientesIgual, FinMismo
       DEF FinOK, EnElim, EnConsola, EnElCpu, CicloInv
<1>4. CASE ~(DelReloj \/ DeCpu \/ UNCHANGED vars)
  BY <1>1, <1>2, <1>4, FinPasoCrear, FinPasoElim, FinPasoPlan, FinPasoConsola,
     FinPasoIfaces DEF Next, CicloInv
<1> QED
  BY <1>3, <1>4

(* It always holds while the console ends a process only once. *)
LEMMA CicloInvSiempre ==
  ASSUME UnFin
  PROVE  Spec => []CicloInv
<1>1. Init => CicloInv
  BY KernelInitInv, MutexInit, EstadosInit, ReadyInit, FinInit
     DEF CicloInv, EstadosInv
<1>2. CicloInv /\ [Next]_vars => CicloInv'
  BY CicloInvPaso
<1> QED
  BY <1>1, <1>2, PTL DEF Spec

-----------------------------------------------------------------------------
(***************************************************************************)
(* The threads implement the state diagram of CicloDeVida.                 *)
(***************************************************************************)
ParesCiclo == {<<"INEXISTENTE", "NEW">>, <<"NEW", "READY">>,
               <<"EXEC", "READY">>, <<"EXEC", "BLOCKED">>,
               <<"BLOCKED", "READY">>, <<"READY", "EXIT">>,
               <<"EXEC", "EXIT">>, <<"BLOCKED", "EXIT">>,
               <<"NEW", "DELETED">>, <<"EXIT", "DELETED">>}

(* A change that is in the diagram. *)
LEMMA CiclaPar ==
  ASSUME NEW q \in PID, NEW e, NEW f, Muda(q, e, f), <<e, f>> \in ParesCiclo
  PROVE  CV!CVNext
<1>1. estado[q] = e /\ estado' = [estado EXCEPT ![q] = f]
  BY DEF Muda
<1>2. \/ CV!Crear(q) \/ CV!Admitir(q) \/ CV!Dejar(q) \/ CV!Despertar(q)
      \/ CV!Terminar(q) \/ CV!Borrar(q)
  BY <1>1 DEF ParesCiclo, CV!Crear, CV!Admitir, CV!Dejar, CV!Despertar,
         CV!Terminar,
     CV!Borrar, CV!Pasa
<1> QED
  BY <1>2 DEF CV!CVNext

(***************************************************************************)
(* The process that goes to the CPU finds it free: after the step it is    *)
(* the only one in EXEC (UnoEnExec), and no other left EXEC in that step.  *)
(***************************************************************************)
LEMMA CiclaDespacho ==
  ASSUME PCBTypeOK, UnoEnExec', NEW q \in PID, Muda(q, "READY", "EXEC")
  PROVE  CV!CVNext
<1>1. \A p \in PID : p # q => estado'[p] = estado[p]
  BY DEF Muda, PCBTypeOK
<1>2. estado[q] = "READY" /\ estado'[q] = "EXEC"
  BY DEF Muda, PCBTypeOK
<1>3. \A p \in PID : estado'[p] = "EXEC" => p = q
  BY <1>2 DEF UnoEnExec
<1>4. CV!CpuLibre
  BY <1>1, <1>2, <1>3 DEF CV!CpuLibre
<1>5. CV!Despachar(q)
  BY <1>2, <1>4 DEF Muda, CV!Despachar, CV!Pasa
<1> QED
  BY <1>5 DEF CV!CVNext

(***************************************************************************)
(* A step of the planificador.  A second FINALIZAR_PROCESO could have the  *)
(* process it takes out of the CPU already DELETED (corto_plazo.c:47);     *)
(* with at most one per process it is in EXIT, where it stays.             *)
(***************************************************************************)
LEMMA CiclaPlan ==
  ASSUME CicloInv, DelPlan, UnoEnExec'
  PROVE  UNCHANGED estado \/ CV!CVNext
<1>0. /\ KInv /\ MutexOK /\ EstadosOK /\ FinOK /\ PCBTypeOK /\ ManosPlan
      /\ EstadoPlan /\ EstadoCpu
  BY DEF CicloInv, EstadosInv, EstadosOK, KInv
<1>1. CASE PlanMatado
  <2>1. PICK q \in PID : q = actual[Plan]
    BY <1>0, <1>1 DEF PlanMatado, ManosPlan
  <2>2. /\ pc[Plan] = "actualiza" /\ estado[q] # "EXEC"
        /\ estado' = [estado EXCEPT ![q] = "EXIT"]
    BY <1>1, <2>1 DEF PlanMatado, EnviarAExit
  <2>3. estado[q] = "EXIT"
    BY <1>0, <2>1, <2>2 DEF FinOK, Fin, EnElCpu, EnLaCpu
  <2> QED
    BY <1>0, <2>2, <2>3 DEF PCBTypeOK
<1>2. CASE ~PlanMatado
  <2>1. \/ UNCHANGED estado
        \/ \E q \in PID, e, f \in Estados :
             Muda(q, e, f) /\ <<e, f>> \in ParesPlan
    BY <1>0, <1>2, MudaPlan
  <2>2. ASSUME NEW q \in PID, NEW e, NEW f,
               Muda(q, e, f), <<e, f>> \in ParesPlan
        PROVE  UNCHANGED estado \/ CV!CVNext
    <3>1. CASE e = "EXEC" /\ f = "EXEC"
      BY <1>0, <2>2, <3>1 DEF Muda, PCBTypeOK
    <3>2. CASE e = "READY" /\ f = "EXEC"
      BY <1>0, <2>2, <3>2, CiclaDespacho
    <3>3. CASE <<e, f>> \in ParesCiclo
      BY <2>2, <3>3, CiclaPar
    <3> QED
      BY <2>2, <3>1, <3>2, <3>3 DEF ParesPlan, ParesCiclo
  <2> QED
    BY <2>1, <2>2
<1> QED
  BY <1>1, <1>2

(* Every step is one of the diagram, or changes no state. *)
LEMMA CicloPaso ==
  ASSUME CicloInv, UnFin, [Next]_vars
  PROVE  [CV!CVNext]_estado
<1>0. /\ KInv /\ MutexOK /\ EstadosOK
      /\ EstadoCrear /\ EstadoElim /\ EstadoDisp
      /\ UnoEnExec'
  BY CicloInvPaso DEF CicloInv, EstadosInv, EstadosOK
<1>1. CASE DelCrear
  <2>1. <<"NEW", "READY">> \in ParesCiclo
    BY DEF ParesCiclo
  <2> QED
    BY <1>0, <1>1, <2>1, MudaCrear, CiclaPar
<1>2. CASE DelElim
  <2>1. ParesElim \subseteq ParesCiclo
    BY DEF ParesElim, ParesCiclo
  <2> QED
    BY <1>0, <1>2, <2>1, MudaElim, CiclaPar
<1>3. CASE DelPlan
  BY <1>0, <1>3, CiclaPlan
<1>4. CASE DeConsola
  <2>1. <<"INEXISTENTE", "NEW">> \in ParesCiclo
    BY DEF ParesCiclo
  <2> QED
    BY <1>4, <2>1, MudaConsola, CiclaPar
<1>5. CASE DeIfaces
  <2>1. \A f \in {"READY", "EXIT"} : <<"BLOCKED", f>> \in ParesCiclo
    BY DEF ParesCiclo
  <2> QED
    BY <1>0, <1>5, <2>1, MudaIfaces, CiclaPar
<1>6. CASE DelReloj \/ DeCpu \/ UNCHANGED vars
  BY <1>6, HuellaReloj, HuellaCpu DEF vars, kernel_vars, vKernelAjeno
<1> QED
  BY <1>1, <1>2, <1>3, <1>4, <1>5, <1>6 DEF Next

(***************************************************************************)
(* The threads of the kernel take every process along the diagram of       *)
(* estado_proceso, one at a time in the CPU: they implement the safety     *)
(* part of CicloDeVida, whatever the number of processes, of resources and *)
(* of interfaces, with at most one FINALIZAR_PROCESO per process           *)
(* (largo_plazo.c:65-111, corto_plazo.c:39-76).                            *)
(***************************************************************************)
THEOREM RespetaCicloSiempre ==
  ASSUME UnFin
  PROVE  Spec => RespetaCiclo
<1>1. Init => CV!CVInit
  BY DEF Init, KernelInit, CV!CVInit
<1>2. CicloInv /\ [Next]_vars => [CV!CVNext]_estado
  BY CicloPaso
<1> QED
  BY <1>1, <1>2, CicloInvSiempre, PTL DEF Spec, RespetaCiclo, CV!CVSeguro

-----------------------------------------------------------------------------
(***************************************************************************)
(* The degree of multiprogramming.  The slots in use are a finite set,     *)
(* even if there were PIDs without end: one more is used by an admission.  *)
(***************************************************************************)
GradoOK == IsFiniteSet(ConPlaza) /\ GradoExacto

(* The states that count in the degree. *)
Plazas == {"READY", "EXEC", "BLOCKED", "EXIT"}

(* What a change of state does to the slots. *)
LEMMA PlazaDe ==
  ASSUME PCBTypeOK, NEW q \in PID, NEW f,
         estado' = [estado EXCEPT ![q] = f]
  PROVE  /\ estado[q] \notin Plazas /\ f \in Plazas =>
              q \notin ConPlaza /\ ConPlaza' = ConPlaza \union {q}
         /\ estado[q] \in Plazas /\ f \notin Plazas =>
              q \in ConPlaza /\ ConPlaza' = ConPlaza \ {q}
         /\ (estado[q] \in Plazas <=> f \in Plazas) => ConPlaza' = ConPlaza
<1>1. /\ estado'[q] = f
      /\ \A p \in PID : p # q => estado'[p] = estado[p]
  BY DEF PCBTypeOK
<1>2. /\ \A p : p \in ConPlaza <=> p \in PID /\ estado[p] \in Plazas
      /\ \A p : p \in ConPlaza' <=> p \in PID /\ estado'[p] \in Plazas
  BY DEF ConPlaza, Plazas
<1>3. CASE estado[q] \notin Plazas /\ f \in Plazas
  BY <1>1, <1>2, <1>3
<1>4. CASE estado[q] \in Plazas /\ f \notin Plazas
  BY <1>1, <1>2, <1>4
<1>5. CASE estado[q] \in Plazas <=> f \in Plazas
  BY <1>1, <1>2, <1>5
<1> QED
  BY <1>3, <1>4, <1>5

(* Steps in which nobody gets a slot or gives one back. *)
LEMMA GradoQuieto ==
  ASSUME GradoOK, ConPlaza' = ConPlaza, prog_running' = prog_running,
         admision' = "admitido" <=> admision = "admitido"
  PROVE  GradoOK'
BY DEF GradoOK, GradoExacto

(* crear_proceso: what add_prog counted is the slot of the new process, or *)
(* remove_prog takes it back (largo_plazo.c:41-43).                        *)
LEMMA GradoPasoCrear ==
  ASSUME KInv, EstadosOK, GradoOK, DelCrear
  PROVE  GradoOK'
<1>0. /\ PCBTypeOK /\ ManosCrear /\ EstadoCrear /\ AdmisionOK
      /\ prog_running \in Int
      /\ IsFiniteSet(ConPlaza) /\ Cardinality(ConPlaza) \in Nat
      /\ prog_running = Cardinality(ConPlaza) + Como(admision = "admitido")
  BY FS_CardinalityType DEF KInv, EstadosOK, GradoOK, GradoExacto, M!ProgTypeOK
<1>1. CASE CrearAdmite
  <2>1. PICK q \in PID : q = actual[Crear]
    BY <1>0, <1>1 DEF CrearAdmite, ManosCrear
  <2>2. /\ estado[q] = "NEW" /\ estado' = [estado EXCEPT ![q] = "READY"]
        /\ admision = "admitido" /\ admision' = "fuera"
        /\ prog_running' = prog_running
    BY <1>0, <1>1, <2>1 DEF CrearAdmite, EstadoCrear, M!Sigue
  <2>3. q \notin ConPlaza /\ ConPlaza' = ConPlaza \union {q}
    BY <1>0, <2>2, PlazaDe DEF Plazas
  <2>4. /\ IsFiniteSet(ConPlaza')
        /\ Cardinality(ConPlaza') = Cardinality(ConPlaza) + 1
    BY <1>0, <2>3, FS_AddElement
  <2> QED
    BY <1>0, <2>2, <2>4 DEF GradoOK, GradoExacto
<1>2. CASE CrearDescarta
  <2>1. /\ UNCHANGED estado /\ admision = "admitido" /\ admision' = "fuera"
        /\ prog_running' = prog_running - 1
    BY <1>0, <1>2 DEF CrearDescarta, AdmisionOK, M!RemoveProg
  <2>2. ConPlaza' = ConPlaza
    BY <2>1 DEF ConPlaza
  <2> QED
    BY <1>0, <2>1, <2>2 DEF GradoOK, GradoExacto
<1>3. CASE CrearEnAddProg
  <2>1. ConPlaza' = ConPlaza
    BY <1>3 DEF CrearEnAddProg, ConPlaza
  <2>2. CASE M!AddProg
    BY <1>0, <2>1, <2>2 DEF M!AddProg, GradoOK, GradoExacto
  <2>3. CASE M!TomaFicha \/ M!ReintentaAddProg
    BY <2>1, <2>3, GradoQuieto DEF M!TomaFicha, M!ReintentaAddProg
  <2> QED
    BY <1>3, <2>2, <2>3 DEF CrearEnAddProg
<1>4. CASE CrearDespierta \/ CrearToma \/ CrearPide
  <2>1. /\ UNCHANGED <<estado, prog_running>>
        /\ admision' = "admitido" <=> admision = "admitido"
    BY <1>4 DEF CrearDespierta, CrearToma, CrearPide, M!LlamaAddProg
  <2> QED
    BY <2>1, GradoQuieto DEF ConPlaza
<1> QED
  BY <1>1, <1>2, <1>3, <1>4 DEF DelCrear, CrearNext

(* eliminar_proceso: only a process that got to EXIT gives a slot back, in *)
(* the step that deletes it (largo_plazo.c:66, :107).                      *)
LEMMA GradoPasoElim ==
  ASSUME KInv, EstadosOK, GradoOK, DelElim
  PROVE  GradoOK'
<1>0. /\ PCBTypeOK /\ ManosElim /\ EstadoElim /\ prog_running \in Int
      /\ IsFiniteSet(ConPlaza) /\ Cardinality(ConPlaza) \in Nat
      /\ prog_running = Cardinality(ConPlaza) + Como(admision = "admitido")
  BY FS_CardinalityType DEF KInv, EstadosOK, GradoOK, GradoExacto, M!ProgTypeOK
<1>1. CASE ElimBorra
  <2>1. PICK q \in PID : q = actual[Elim]
    BY <1>0, <1>1 DEF ElimBorra, ManosElim
  <2>2. /\ estado[q] = "EXIT" /\ estado' = [estado EXCEPT ![q] = "DELETED"]
        /\ prog_running' = prog_running - 1 /\ admision' = admision
    BY <1>0, <1>1, <2>1 DEF ElimBorra, EstadoElim, M!RemoveProg
  <2>3. q \in ConPlaza /\ ConPlaza' = ConPlaza \ {q}
    BY <1>0, <2>2, PlazaDe DEF Plazas
  <2>4. /\ IsFiniteSet(ConPlaza')
        /\ Cardinality(ConPlaza') = Cardinality(ConPlaza) - 1
    BY <1>0, <2>3, FS_RemoveElement
  <2> QED
    BY <1>0, <2>2, <2>4 DEF GradoOK, GradoExacto
<1>2. CASE ~ElimBorra
  <2>1. UNCHANGED vProg
    BY <1>2, HuellaElim
  <2>2. CASE UNCHANGED estado
    BY <2>1, <2>2, GradoQuieto DEF ConPlaza
  <2>3. CASE ElimNew
    <3>1. PICK q \in PID : q = actual[Elim]
      BY <1>0, <2>3 DEF ElimNew, ElimCaso, ManosElim
    <3>2. /\ estado[q] \notin Plazas /\ "DELETED" \notin Plazas
          /\ estado' = [estado EXCEPT ![q] = "DELETED"]
      BY <2>3, <3>1 DEF ElimNew, ElimCaso, Plazas
    <3>3. ConPlaza' = ConPlaza
      BY <1>0, <3>2, PlazaDe
    <3> QED
      BY <2>1, <3>3, GradoQuieto
  <2>4. CASE ElimExec \/ ElimVivo
    <3>1. /\ actual[Elim] \in PID
          /\ estado[actual[Elim]] \in {"EXEC", "READY", "BLOCKED"}
          /\ estado' = [estado EXCEPT ![actual[Elim]] = "EXIT"]
      BY <1>0, <2>4 DEF ElimExec, ElimVivo, EnviarAExit, ElimCaso, ManosElim
    <3>2. estado[actual[Elim]] \in Plazas /\ "EXIT" \in Plazas
      BY <3>1 DEF Plazas
    <3>3. ConPlaza' = ConPlaza
      BY <1>0, <3>1, <3>2, PlazaDe
    <3> QED
      BY <2>1, <3>3, GradoQuieto
  <2>5. CASE ElimDespierta
    <3>1. /\ otro[Elim] \in PID
          /\ UNCHANGED estado \/ Muda(otro[Elim], "BLOCKED", "READY")
      BY <1>0, <2>5, DesbloquearMuda DEF ElimDespierta, ManosElim
    <3>2. ConPlaza' = ConPlaza
      BY <1>0, <3>1, PlazaDe DEF Plazas, Muda, ConPlaza
    <3> QED
      BY <2>1, <3>2, GradoQuieto
  <2> QED
    BY <1>2, <2>2, <2>3, <2>4, <2>5, HuellaElim
<1> QED
  BY <1>1, <1>2

(* The planificador moves a process between states with a slot; the one it *)
(* finds killed in the CPU is in EXIT (FinOK) and stays there.             *)
LEMMA GradoPasoPlan ==
  ASSUME KInv, EstadosOK, FinOK, GradoOK, DelPlan
  PROVE  GradoOK'
<1>0. /\ PCBTypeOK /\ ManosPlan /\ EstadoPlan /\ EstadoCpu
  BY DEF KInv, EstadosOK
<1>1. UNCHANGED vProg
  BY HuellaPlan
<1>2. ConPlaza' = ConPlaza
  <2>1. CASE PlanMatado
    <3>1. PICK q \in PID : q = actual[Plan]
      BY <1>0, <2>1 DEF PlanMatado, ManosPlan
    <3>2. /\ pc[Plan] = "actualiza" /\ estado[q] # "EXEC"
          /\ estado' = [estado EXCEPT ![q] = "EXIT"]
      BY <2>1, <3>1 DEF PlanMatado, EnviarAExit
    <3>3. estado[q] = "EXIT"
      BY <1>0, <3>1, <3>2 DEF FinOK, Fin, EnElCpu, EnLaCpu
    <3> QED
      BY <1>0, <3>2, <3>3, PlazaDe
  <2>2. CASE ~PlanMatado
    <3>1. \/ UNCHANGED estado
          \/ \E q \in PID, e, f \in Estados :
               Muda(q, e, f) /\ <<e, f>> \in ParesPlan
      BY <1>0, <2>2, MudaPlan
    <3>2. ASSUME NEW q \in PID, NEW e, NEW f,
                 Muda(q, e, f), <<e, f>> \in ParesPlan
          PROVE  ConPlaza' = ConPlaza
      <4>1. /\ estado[q] \in Plazas /\ f \in Plazas
            /\ estado' = [estado EXCEPT ![q] = f]
        BY <3>2 DEF Muda, ParesPlan, Plazas
      <4> QED
        BY <1>0, <4>1, PlazaDe
    <3> QED
      BY <3>1, <3>2 DEF ConPlaza
  <2> QED
    BY <2>1, <2>2
<1> QED
  BY <1>1, <1>2, GradoQuieto

(* Every step keeps the processes counted by the degree. *)
LEMMA GradoPaso ==
  ASSUME CicloInv, GradoOK, [Next]_vars
  PROVE  GradoOK'
<1>0. /\ KInv /\ EstadosOK /\ FinOK /\ PCBTypeOK /\ EstadoDisp
  BY DEF CicloInv, EstadosInv, KInv, EstadosOK
<1>1. CASE DeConsola
  <2>1. prog_running' = prog_running /\ admision' = admision
    BY <1>1, HuellaConsola DEF Multiprog, M!ModificarGrado
  <2>2. ASSUME NEW q \in PID, Muda(q, "INEXISTENTE", "NEW")
        PROVE  ConPlaza' = ConPlaza
    BY <1>0, <2>2, PlazaDe DEF Muda, Plazas
  <2>3. ConPlaza' = ConPlaza
    BY <1>1, <2>2, MudaConsola DEF ConPlaza
  <2> QED
    BY <2>1, <2>3, GradoQuieto
<1>2. CASE DeIfaces
  <2>1. UNCHANGED vProg
    BY <1>2, HuellaIfaces
  <2>2. UNCHANGED estado \/ \E q \in PID, f \in {"READY", "EXIT"} :
                              Muda(q, "BLOCKED", f)
    BY <1>0, <1>2, MudaIfaces
  <2>3. ConPlaza' = ConPlaza
    BY <1>0, <2>2, PlazaDe DEF Muda, Plazas, ConPlaza
  <2> QED
    BY <2>1, <2>3, GradoQuieto
<1>3. CASE DelReloj \/ DeCpu \/ UNCHANGED vars
  <2>1. UNCHANGED <<estado, vProg>>
    BY <1>3, HuellaReloj, HuellaCpu DEF vars, kernel_vars, vKernelAjeno
  <2> QED
    BY <2>1, GradoQuieto DEF ConPlaza
<1> QED
  BY <1>0, <1>1, <1>2, <1>3, GradoPasoCrear, GradoPasoElim, GradoPasoPlan
     DEF Next

(* At the start the degree is whole. *)
LEMMA GradoInit == Init => GradoOK
<1> SUFFICES ASSUME Init PROVE GradoOK
  OBVIOUS
<1>1. ConPlaza = {} /\ prog_running = 0 /\ admision = "fuera"
  BY DEF Init, KernelInit, ConPlaza, M!ProgInit
<1> QED
  BY <1>1, FS_EmptySet DEF GradoOK, GradoExacto

(***************************************************************************)
(* prog.running is the number of processes admitted and not yet deleted,   *)
(* plus the admission in hand, on whichever of its ways each process ends  *)
(* (largo_plazo.c:42, :66, :107), with at most one FINALIZAR_PROCESO per   *)
(* process: with two the slot could be given back twice.                   *)
(***************************************************************************)
THEOREM GradoExactoSiempre ==
  ASSUME UnFin
  PROVE  Spec => []GradoExacto
<1>1. CicloInv /\ GradoOK /\ [Next]_vars => GradoOK'
  BY GradoPaso
<1>2. GradoOK => GradoExacto
  BY DEF GradoOK
<1> QED
  BY <1>1, <1>2, CicloInvSiempre, GradoInit, PTL DEF Spec

(***************************************************************************)
(* Who is in EXIT: in cola_exit, with eliminar_proceso, or in the CPU with *)
(* the planificador waiting for it.                                        *)
(***************************************************************************)
EnSalida(p) == Contains(cola_exit, p) \/ EnElim(p) \/ EnElCpu(p)
SalidaOK == \A p \in PID : estado[p] = "EXIT" => EnSalida(p)

(* enviar_a_exit, or a PID put back in cola_exit. *)
LEMMA SalidaPush ==
  ASSUME ColaExitOK, NEW q \in PID, PushExit(q), NEW p
  PROVE  Contains(cola_exit', p) <=> Contains(cola_exit, p) \/ q = p
<1>1. cola_exit \in Seq(PID) /\ cola_exit' = Append(cola_exit, q)
  BY DEF ColaExitOK, PushExit
<1> QED
  BY <1>1, ContainsAppend

(* A process nobody takes out of where it is. *)
LEMMA SalidaMisma ==
  ASSUME SalidaOK, NEW p \in PID, estado'[p] = "EXIT" => estado[p] = "EXIT",
         Contains(cola_exit, p) => Contains(cola_exit', p),
         EnElim(p) => EnElim(p)', EnElCpu(p) => EnElCpu(p)'
  PROVE  estado'[p] = "EXIT" => EnSalida(p)'
<1>1. Contains(cola_exit, p)' <=> Contains(cola_exit', p)
  BY DEF Contains
<1> QED
  BY <1>1 DEF SalidaOK, EnSalida

(* One process changes, and goes to cola_exit if it is to end. *)
LEMMA SalidaCambia ==
  ASSUME SalidaOK, PCBTypeOK, ColaExitOK, NEW q \in PID, NEW f,
         estado' = [estado EXCEPT ![q] = f],
         PushExit(q) \/ (UNCHANGED vExit /\ f # "EXIT"),
         \A p \in PID \ {q} : /\ EnElim(p) => EnElim(p)'
                              /\ EnElCpu(p) => EnElCpu(p)'
  PROVE  SalidaOK'
<1> SUFFICES ASSUME NEW p \in PID PROVE estado'[p] = "EXIT" => EnSalida(p)'
  BY DEF SalidaOK
<1>1. Contains(cola_exit, p)' <=> Contains(cola_exit', p)
  BY DEF Contains
<1>2. CASE p = q
  BY <1>1, <1>2, SalidaPush DEF EnSalida, PCBTypeOK
<1>3. CASE p # q
  <2>1. estado'[p] = estado[p]
    BY <1>3 DEF PCBTypeOK
  <2>2. Contains(cola_exit, p) => Contains(cola_exit', p)
    BY SalidaPush
  <2> QED
    BY <1>3, <2>1, <2>2, SalidaMisma
<1> QED
  BY <1>2, <1>3

(* Nobody is taken anywhere and nobody ends. *)
LEMMA SalidaSigue ==
  ASSUME SalidaOK, PCBTypeOK, UNCHANGED vExit,
         \/ UNCHANGED estado
         \/ \E q \in PID, e \in Estados, f \in Estados \ {"EXIT"} :
               Muda(q, e, f),
         \A p \in PID : /\ EnElim(p) => EnElim(p)'
                        /\ EnElCpu(p) => EnElCpu(p)'
  PROVE  SalidaOK'
<1> SUFFICES ASSUME NEW p \in PID PROVE estado'[p] = "EXIT" => EnSalida(p)'
  BY DEF SalidaOK
<1>1. estado'[p] = "EXIT" => estado[p] = "EXIT"
  BY DEF Muda, PCBTypeOK
<1> QED
  BY <1>1, SalidaMisma

(* eliminar_proceso takes the head of cola_exit, and is done with a process *)
(* that is no longer in EXIT, is with the planificador or is queued again.  *)
LEMMA SalidaPasoElim ==
  ASSUME KInv, MutexOK, EstadosOK, SalidaOK, DelElim
  PROVE  SalidaOK'
<1>0. /\ PcTypeOK /\ ManosTypeOK /\ PCBTypeOK /\ ManosElim /\ ColaExitOK
      /\ EstadoElim /\ UnoEnExec /\ Elim \in Hilos /\ Plan \in Hilos
  BY DEF KInv, EstadosOK, Hilos
<1>1. \A p \in PID : EnElCpu(p)' <=> EnElCpu(p)
  BY <1>0, OtrosHilosElim DEF EnElCpu, Hilos
<1>2. CASE ElimToma
  <2>1. /\ UNCHANGED estado /\ pc[Elim] = "espera" /\ pc'[Elim] # "espera"
        /\ actual'[Elim] = Head(cola_exit) /\ cola_exit' = Tail(cola_exit)
        /\ sem_cola_exit > 0
    BY <1>0, <1>2 DEF ElimToma, PcTypeOK, ManosTypeOK
  <2>2. cola_exit \in Seq(PID) /\ cola_exit # <<>>
    BY <1>0, <2>1, EmptySeq DEF ColaExitOK
  <2> SUFFICES ASSUME NEW p \in PID, estado[p] = "EXIT" PROVE EnSalida(p)'
    BY <2>1 DEF SalidaOK
  <2>3. Contains(cola_exit, p)' <=> Contains(cola_exit', p)
    BY DEF Contains
  <2>4. ~EnElim(p)
    BY <2>1 DEF EnElim
  <2>5. Contains(cola_exit, p) => Contains(cola_exit', p) \/ EnElim(p)'
    BY <2>1, <2>2, ContainsTail DEF EnElim
  <2> QED
    BY <1>1, <2>3, <2>4, <2>5 DEF SalidaOK, EnSalida
<1>3. CASE ElimNew \/ ElimVivo \/ ElimBorra
  <2>1. PICK q \in PID : q = actual[Elim]
    BY <1>0, <1>3 DEF ElimNew, ElimVivo, ElimBorra, ElimCaso, ManosElim
  <2>2. PICK f : /\ estado' = [estado EXCEPT ![q] = f]
                 /\ PushExit(q) \/ (UNCHANGED vExit /\ f # "EXIT")
    BY <1>3, <2>1 DEF ElimNew, ElimVivo, ElimBorra, EnviarAExit
  <2>3. \A p \in PID \ {q} : ~EnElim(p)
    BY <2>1 DEF EnElim
  <2> QED
    BY <1>0, <1>1, <2>2, <2>3, SalidaCambia
<1>4. CASE ElimExec
  <2>1. PICK q \in PID : q = actual[Elim]
    BY <1>0, <1>4 DEF ElimExec, ElimCaso, ManosElim
  <2>2. /\ estado' = [estado EXCEPT ![q] = "EXIT"] /\ estado[q] = "EXEC"
        /\ Libre(mx_PCB, q) /\ UNCHANGED vExit
    BY <1>4, <2>1 DEF ElimExec, ElimCaso
  <2>3. EnElCpu(q)
    <3>1. actual[Plan] = q
          /\ pc[Plan] \in EnLaCpu \union ConElPCB \union {"cierre"}
      BY <1>0, <2>2 DEF UnoEnExec
    <3>2. ~TieneElPCB(Plan, q)
      BY <1>0, <2>2, LibreNadie DEF NadieLoTiene
    <3> QED
      BY <3>1, <3>2 DEF EnElCpu, ConElPCB, EnLaCpu, TieneElPCB
  <2>4. \A p \in PID \ {q} : ~EnElim(p)
    BY <2>1 DEF EnElim
  <2> SUFFICES ASSUME NEW p \in PID PROVE estado'[p] = "EXIT" => EnSalida(p)'
    BY DEF SalidaOK
  <2>5. CASE p = q
    BY <1>1, <2>3, <2>5 DEF EnSalida
  <2>6. CASE p # q
    <3>1. estado'[p] = estado[p]
      BY <1>0, <2>2, <2>6 DEF PCBTypeOK
    <3> QED
      BY <1>1, <2>2, <2>4, <2>6, <3>1, SalidaMisma
  <2> QED
    BY <2>5, <2>6
<1>5. CASE ElimNada
  <2>1. /\ estado[actual[Elim]] = "DELETED" /\ UNCHANGED <<estado, vExit>>
    BY <1>5 DEF ElimNada, ElimCaso
  <2> SUFFICES ASSUME NEW p \in PID, estado[p] = "EXIT" PROVE EnSalida(p)'
    BY <2>1 DEF SalidaOK
  <2>2. ~EnElim(p)
    BY <2>1 DEF EnElim
  <2> QED
    BY <1>1, <2>1, <2>2, SalidaMisma
<1>6. CASE ElimExit \/ ElimTomaRecurso \/ ElimLibera \/ ElimDespierta
             \/ ElimSuelta
  <2>1. UNCHANGED <<vExit, actual>> /\ pc'[Elim] # "espera"
    BY <1>0, <1>6 DEF ElimExit, ElimTomaRecurso, ElimLibera, ElimDespierta,
       ElimSuelta, PcTypeOK
  <2>2. \A p \in PID : EnElim(p) => EnElim(p)'
    BY <2>1 DEF EnElim
  <2>3. CASE UNCHANGED estado
    BY <1>0, <1>1, <2>1, <2>2, <2>3, SalidaSigue
  <2>4. CASE ElimDespierta
    <3>1. otro[Elim] \in PID /\ Desbloquear(otro[Elim])
      BY <1>0, <2>4 DEF ElimDespierta, ManosElim
    <3>2. UNCHANGED estado \/ Muda(otro[Elim], "BLOCKED", "READY")
      BY <3>1, DesbloquearMuda
    <3>3. "BLOCKED" \in Estados /\ "READY" \in Estados \ {"EXIT"}
      BY DEF Estados
    <3> QED
      BY <1>0, <1>1, <2>1, <2>2, <3>1, <3>2, <3>3, SalidaSigue
  <2> QED
    BY <1>6, <2>3, <2>4 DEF ElimExit, ElimTomaRecurso, ElimLibera, ElimSuelta
<1> QED
  BY <1>2, <1>3, <1>4, <1>5, <1>6 DEF DelElim, ElimNext

(* The planificador lets go of the process in the CPU when it is still in   *)
(* EXEC, or puts it in cola_exit.                                           *)
LEMMA SalidaPasoPlan ==
  ASSUME KInv, MutexOK, EstadosOK, SalidaOK, DelPlan
  PROVE  SalidaOK'
<1>0. /\ PcTypeOK /\ ManosTypeOK /\ PCBTypeOK /\ ManosPlan /\ ColaExitOK
      /\ EstadoPlan /\ EstadoCpu /\ Plan \in Hilos
  BY DEF KInv, EstadosOK, Hilos
<1>1. \A p \in PID : EnElim(p)' <=> EnElim(p)
  BY <1>0, OtrosHilosPlan DEF EnElim, Hilos
<1>2. CASE PlanMatado \/ PlanInvalida \/ PlanTermina \/ PlanInterfazInvalida
             \/ (PlanLeeSyscall /\ PlanEnviarAExit("INVALID_RESOURCE"))
  <2>1. PICK q \in PID : q = actual[Plan]
    BY <1>0, <1>2 DEF PlanMatado, PlanInvalida, PlanTermina,
       PlanInterfazInvalida, PlanLeeSyscall, PlanProcesa, ManosPlan
  <2>2. estado' = [estado EXCEPT ![q] = "EXIT"] /\ PushExit(q)
    BY <1>2, <2>1 DEF PlanMatado, PlanInvalida, PlanTermina,
       PlanInterfazInvalida, PlanEnviarAExit, EnviarAExit
  <2>3. \A p \in PID \ {q} : ~EnElCpu(p)
    BY <2>1 DEF EnElCpu
  <2> QED
    BY <1>0, <1>1, <2>2, <2>3, SalidaCambia
<1>3. CASE PlanActualiza
  <2>1. estado[actual[Plan]] = "EXEC" /\ UNCHANGED <<estado, vExit>>
    BY <1>3 DEF PlanActualiza
  <2> SUFFICES ASSUME NEW p \in PID, estado[p] = "EXIT" PROVE EnSalida(p)'
    BY <2>1 DEF SalidaOK
  <2>2. ~EnElCpu(p)
    BY <2>1 DEF EnElCpu
  <2> QED
    BY <1>1, <2>1, <2>2, SalidaMisma
<1>4. ASSUME ~PlanMatado, ~PlanInvalida, ~PlanTermina, ~PlanInterfazInvalida,
             ~(PlanLeeSyscall /\ PlanEnviarAExit("INVALID_RESOURCE")),
             ~PlanActualiza
      PROVE  SalidaOK'
  <2>1. UNCHANGED vExit
    BY <1>4, HuellaPlan DEF PlanLeeSyscall, PlanSinCambio
  <2>2. \A p \in PID : EnElCpu(p) => EnElCpu(p)'
    <3>1. pc[Plan] \in EnLaCpu => PlanRecibe
      BY <1>0, <1>4 DEF DelPlan, PlanNext, PlanToma, PlanPasaPausa,
         PlanDescarta, PlanDespacha, PlanInterrumpido, PlanPideSyscall,
         PlanProcesa, PlanLeeSyscall, PlanWait, PlanSignal, PlanDespierta,
         PlanBloqueaIO, PlanDesaloja, PlanRedespacha, PlanSuelta, EnLaCpu
    <3>2. PlanRecibe => pc'[Plan] \in EnLaCpu /\ UNCHANGED actual
      BY <1>0 DEF PlanRecibe, PcTypeOK, EnLaCpu
    <3> QED
      BY <3>1, <3>2 DEF EnElCpu
  <2>3. \/ UNCHANGED estado
        \/ \E q \in PID, e \in Estados, f \in Estados \ {"EXIT"} :
               Muda(q, e, f)
    <3>1. CASE PlanDespacha \/ PlanRedespacha \/ PlanDesaloja
      <4>1. PICK q \in PID : q = actual[Plan]
        BY <1>0, <3>1 DEF PlanDespacha, PlanRedespacha, PlanDesaloja, ManosPlan
      <4>2. Muda(q, estado[q], "EXEC") \/ Muda(q, estado[q], "READY")
        BY <3>1, <4>1 DEF PlanDespacha, PlanRedespacha, PlanDesaloja,
           EjecutarProceso, Muda
      <4>3. /\ estado[q] \in Estados /\ "EXEC" \in Estados \ {"EXIT"}
            /\ "READY" \in Estados \ {"EXIT"}
        BY <1>0 DEF PCBTypeOK, Estados
      <4> QED
        BY <4>2, <4>3
    <3>2. CASE PlanWait \/ PlanBloqueaIO
      <4>1. PICK q \in PID : q = actual[Plan]
        BY <1>0, <3>2 DEF PlanWait, PlanBloqueaIO, ManosPlan
      <4>2. UNCHANGED estado \/ Muda(q, estado[q], "BLOCKED")
        BY <3>2, <4>1 DEF PlanWait, PlanBloqueaIO, Muda
      <4>3. estado[q] \in Estados /\ "BLOCKED" \in Estados \ {"EXIT"}
        BY <1>0 DEF PCBTypeOK, Estados
      <4> QED
        BY <4>2, <4>3
    <3>3. CASE PlanDespierta
      <4>1. otro[Plan] \in PID /\ Desbloquear(otro[Plan])
        BY <1>0, <3>3 DEF PlanDespierta, ManosPlan
      <4>2. UNCHANGED estado \/ Muda(otro[Plan], "BLOCKED", "READY")
        BY <4>1, DesbloquearMuda
      <4>3. "BLOCKED" \in Estados /\ "READY" \in Estados \ {"EXIT"}
        BY DEF Estados
      <4> QED
        BY <4>1, <4>2, <4>3
    <3>4. PlanLeeSyscall => UNCHANGED estado
      BY <1>4 DEF PlanLeeSyscall, PlanSinCambio
    <3> QED
      BY <1>4, <3>1, <3>2, <3>3, <3>4, HuellaPlan
  <2> QED
    BY <1>0, <1>1, <2>1, <2>2, <2>3, SalidaSigue
<1> QED
  BY <1>2, <1>3, <1>4

(* The other threads take nobody out of where they end. *)
LEMMA SalidaPasoResto ==
  ASSUME KInv, EstadosOK, SalidaOK, [Next]_vars, ~DelElim, ~DelPlan
  PROVE  SalidaOK'
<1>0. /\ PcTypeOK /\ ManosTypeOK /\ PCBTypeOK /\ ManosConsola /\ ColaExitOK
      /\ EstadoCrear /\ EstadoDisp /\ InterfacesTypeOK /\ ManosOut
      /\ Elim \in Hilos /\ Plan \in Hilos
  BY DEF KInv, EstadosOK, Hilos
<1>1. \A p \in PID : /\ EnElim(p)' <=> EnElim(p)
                     /\ EnElCpu(p)' <=> EnElCpu(p)
  BY <1>0, OtrosHilos DEF EnElim, EnElCpu
<1>2. CASE DelCrear
  <2>1. UNCHANGED vExit
    BY <1>2, HuellaCrear
  <2>2. UNCHANGED estado \/ (actual[Crear] \in PID
                               /\ Muda(actual[Crear], "NEW", "READY"))
    BY <1>0, <1>2, MudaCrear DEF KInv
  <2>3. "NEW" \in Estados /\ "READY" \in Estados \ {"EXIT"}
    BY DEF Estados
  <2> QED
    BY <1>0, <1>1, <2>1, <2>2, <2>3, SalidaSigue
<1>3. CASE DeConsola
  <2>1. CASE ProcEndEncola
    <3>1. /\ actual[HiloConsola] \in PID /\ PushExit(actual[HiloConsola])
          /\ UNCHANGED estado
      BY <1>0, <2>1 DEF ProcEndEncola, ManosConsola
    <3>2. \A p \in PID : Contains(cola_exit, p) => Contains(cola_exit', p)
      BY <1>0, <3>1, SalidaPush
    <3> QED
      BY <1>1, <3>1, <3>2, SalidaMisma DEF SalidaOK
  <2>2. CASE ~ProcEndEncola
    <3>1. UNCHANGED vExit
      BY <1>3, <2>2, HuellaConsola
    <3>2. UNCHANGED estado \/ \E q \in PID : Muda(q, "INEXISTENTE", "NEW")
      BY <1>3, MudaConsola
    <3>3. "INEXISTENTE" \in Estados /\ "NEW" \in Estados \ {"EXIT"}
      BY DEF Estados
    <3> QED
      BY <1>0, <1>1, <3>1, <3>2, <3>3, SalidaSigue
  <2> QED
    BY <2>1, <2>2
<1>4. CASE DeIfaces
  <2>1. ASSUME NEW i \in Ifaces, InIOFin(i) PROVE SalidaOK'
    <3>1. occupant[i] \in PID /\ Desbloquear(occupant[i]) /\ UNCHANGED vExit
      BY <1>0, <2>1 DEF InIOFin, InterfacesTypeOK
    <3>2. UNCHANGED estado \/ Muda(occupant[i], "BLOCKED", "READY")
      BY <3>1, DesbloquearMuda
    <3>3. "BLOCKED" \in Estados /\ "READY" \in Estados \ {"EXIT"}
      BY DEF Estados
    <3> QED
      BY <1>0, <1>1, <3>1, <3>2, <3>3, SalidaSigue
  <2>2. ASSUME NEW i \in Ifaces, InDesconexion(i), occupant[i] # Nadie
        PROVE  SalidaOK'
    <3>1. /\ occupant[i] \in PID /\ PushExit(occupant[i])
          /\ estado' = [estado EXCEPT ![occupant[i]] = "EXIT"]
      BY <1>0, <2>2 DEF InDesconexion, EnviarAExit, InterfacesTypeOK
    <3> QED
      BY <1>0, <1>1, <3>1, SalidaCambia
  <2>3. ASSUME NEW i \in Ifaces, OutRechaza(i) PROVE SalidaOK'
    <3>1. /\ pid_out[i] \in PID /\ PushExit(pid_out[i])
          /\ estado' = [estado EXCEPT ![pid_out[i]] = "EXIT"]
      BY <1>0, <2>3 DEF OutRechaza, OutConPCB, EnviarAExit, ManosOut
    <3> QED
      BY <1>0, <1>1, <3>1, SalidaCambia
  <2>4. ASSUME UNCHANGED <<estado, vExit>> PROVE SalidaOK'
    BY <1>0, <1>1, <2>4, SalidaSigue
  <2>5. ASSUME NEW i \in Ifaces, InDesconexion(i), occupant[i] = Nadie
        PROVE  UNCHANGED <<estado, vExit>>
    BY <2>5 DEF InDesconexion
  <2> QED
    BY <1>4, <2>1, <2>2, <2>3, <2>4, <2>5, HuellaIfaces
<1>5. CASE DelReloj \/ DeCpu \/ UNCHANGED vars
  <2>1. UNCHANGED <<estado, vExit>>
    BY <1>5, HuellaReloj, HuellaCpu DEF vars, kernel_vars, vKernelAjeno
  <2> QED
    BY <1>0, <1>1, <2>1, SalidaSigue
<1> QED
  BY <1>2, <1>3, <1>4, <1>5 DEF Next

(* At the start nobody is in EXIT. *)
LEMMA SalidaInit == Init => SalidaOK
  BY DEF Init, KernelInit, SalidaOK

-----------------------------------------------------------------------------
(***************************************************************************)
(* Who is NEW: in cola_new, or with crear_proceso.  NewAtendido is         *)
(* inductive as it stands, given what each thread does to a state.         *)
(***************************************************************************)
EnCrear(p) == actual[Crear] = p /\ pc[Crear] \in {"mx_PCB", "memoria"}

(* Only proc_start makes a process NEW. *)
LEMMA SoloProcStart ==
  ASSUME KInv, EstadosOK, [Next]_vars, ~DeConsola,
         NEW p \in PID, estado'[p] = "NEW"
  PROVE  estado[p] = "NEW"
<1>0. PCBTypeOK /\ EstadoCrear /\ EstadoElim /\ EstadoDisp /\ EstadoPlan
      /\ EstadoCpu
  BY DEF KInv, EstadosOK
<1>1. ASSUME NEW q, NEW f, f # "NEW", estado' = [estado EXCEPT ![q] = f]
      PROVE  estado[p] = "NEW"
  BY <1>0, <1>1 DEF PCBTypeOK
<1>2. CASE UNCHANGED estado
  BY <1>2
<1>3. CASE DelCrear
  BY <1>0, <1>1, <1>2, <1>3, MudaCrear DEF Muda
<1>4. CASE DelElim
  <2>1. \A e, f \in Estados : <<e, f>> \in ParesElim => f # "NEW"
    BY DEF ParesElim
  <2> QED
    BY <1>0, <1>1, <1>2, <1>4, <2>1, MudaElim DEF Muda
<1>5. CASE DelPlan
  <2>1. \A e, f \in Estados : <<e, f>> \in ParesPlan => f # "NEW"
    BY DEF ParesPlan
  <2> QED
    BY <1>0, <1>1, <1>2, <1>5, <2>1, MudaPlan DEF Muda
<1>6. CASE DeIfaces
  BY <1>0, <1>1, <1>2, <1>6, MudaIfaces DEF Muda
<1>7. CASE DelReloj \/ DeCpu \/ UNCHANGED vars
  BY <1>2, <1>7, HuellaReloj, HuellaCpu DEF vars, kernel_vars, vKernelAjeno
<1> QED
  BY <1>3, <1>4, <1>5, <1>6, <1>7 DEF Next

(* crear_proceso takes the head of cola_new, and lets go of a process that  *)
(* is READY, or that somebody ended before it was admitted.                 *)
LEMMA NewPasoCrear ==
  ASSUME KInv, EstadosOK, NewAtendido, DelCrear, [Next]_vars
  PROVE  NewAtendido'
<1>0. /\ PcTypeOK /\ ManosTypeOK /\ PCBTypeOK /\ ManosCrear /\ ColaNewOK
      /\ EstadoCrear /\ Crear \in Hilos
  BY DEF KInv, EstadosOK, Hilos
<1> SUFFICES ASSUME NEW p \in PID, estado'[p] = "NEW"
             PROVE  Contains(cola_new', p) \/ EnCrear(p)'
  BY DEF NewAtendido, EnCrear, Contains
<1>1. /\ estado[p] = "NEW"
      /\ Contains(cola_new, p) \/ EnCrear(p)
  <2>1. \/ UNCHANGED estado
        \/ estado' = [estado EXCEPT ![actual[Crear]] = "READY"]
    BY <1>0, MudaCrear DEF KInv, Muda
  <2> QED
    BY <1>0, <2>1 DEF NewAtendido, EnCrear, PCBTypeOK
<1>2. CASE CrearToma
  <2>1. /\ pc[Crear] = "add_prog" /\ cola_new' = Tail(cola_new)
        /\ actual'[Crear] = Head(cola_new) /\ pc'[Crear] = "mx_PCB"
    BY <1>0, <1>2 DEF CrearToma, PcTypeOK, ManosTypeOK
  <2>2. cola_new \in Seq(PID) /\ cola_new # <<>>
    BY <1>0, <2>1, EmptySeq DEF ColaNewOK
  <2> QED
    BY <1>1, <2>1, <2>2, ContainsTail DEF EnCrear
<1>3. CASE CrearDescarta \/ CrearAdmite
  <2>1. UNCHANGED cola_new /\ ~EnCrear(p)
    <3>1. CASE CrearDescarta
      BY <1>1, <3>1 DEF CrearDescarta, EnCrear
    <3>2. CASE CrearAdmite
      <4>1. actual[Crear] \in PID /\ estado'[actual[Crear]] = "READY"
        BY <1>0, <3>2 DEF CrearAdmite, ManosCrear, PCBTypeOK
      <4> QED
        BY <3>2, <4>1 DEF CrearAdmite, EnCrear
    <3> QED
      BY <1>3, <3>1, <3>2
  <2> QED
    BY <1>1, <2>1
<1>4. CASE CrearDespierta \/ CrearEnAddProg \/ CrearPide
  <2>1. UNCHANGED <<cola_new, actual>>
    BY <1>4 DEF CrearDespierta, CrearEnAddProg, CrearPide
  <2>2. EnCrear(p) => pc'[Crear] \in {"mx_PCB", "memoria"}
    BY <1>0, <1>4 DEF CrearDespierta, CrearEnAddProg, CrearPide, EnCrear, PcTypeOK
  <2> QED
    BY <1>1, <2>1, <2>2 DEF EnCrear
<1> QED
  BY <1>2, <1>3, <1>4 DEF DelCrear, CrearNext

(* proc_start puts the new process in cola_new, and no other thread than    *)
(* crear_proceso takes it from there.                                       *)
LEMMA NewPaso ==
  ASSUME KInv, EstadosOK, NewAtendido, [Next]_vars
  PROVE  NewAtendido'
<1>0. /\ PcTypeOK /\ ManosTypeOK /\ PCBTypeOK /\ ColaNewOK
  BY DEF KInv
<1>1. CASE DelCrear
  BY <1>1, NewPasoCrear
<1>2. CASE ~DelCrear
  <2> SUFFICES ASSUME NEW p \in PID, estado'[p] = "NEW"
               PROVE  Contains(cola_new', p) \/ EnCrear(p)'
    BY DEF NewAtendido, EnCrear, Contains
  <2>1. EnCrear(p) => EnCrear(p)'
    BY <1>0, <1>2, OtrosHilos DEF EnCrear
  <2>2. ASSUME NEW q \in PID, ProcStart(q)
        PROVE  Contains(cola_new', p) \/ EnCrear(p)'
    <3>1. /\ cola_new \in Seq(PID) /\ cola_new' = Append(cola_new, q)
          /\ p # q => estado[p] = "NEW"
      BY <1>0, <2>2 DEF ProcStart, ColaNewOK, PCBTypeOK
    <3> QED
      BY <2>1, <3>1, ContainsAppend DEF NewAtendido, EnCrear
  <2>3. CASE UNCHANGED cola_new /\ estado[p] = "NEW"
    BY <2>1, <2>3 DEF NewAtendido, EnCrear
  <2>4. CASE DeConsola
    BY <2>2, <2>3, <2>4, HuellaConsola
  <2>5. CASE ~DeConsola
    <3>1. UNCHANGED cola_new
      BY <1>2, <2>5, HuellaElim, HuellaPlan, HuellaReloj, HuellaIfaces,
         HuellaCpu DEF Next, vars, kernel_vars, vKernelAjeno
    <3> QED
      BY <2>3, <2>5, <3>1, SoloProcStart
  <2> QED
    BY <2>4, <2>5
<1> QED
  BY <1>1, <1>2

(* At the start there is no process. *)
LEMMA NewInit == Init => NewAtendido
  BY DEF Init, KernelInit, NewAtendido

(***************************************************************************)
(* Where a process that is not running waits.  Lug(p) is the set of those  *)
(* places: the queues of the resources, the hands of the threads that took *)
(* somebody from one, the queues of the interfaces, their OUT threads and  *)
(* their devices.  A process that was ended while it waited stays in its   *)
(* place until somebody finds it there, so Esp speaks of every state.      *)
(***************************************************************************)
EnRecursos(p) ==
    {<<"rec", r>> : r \in {r \in Recursos : Contains(cola_rec[r], p)}}
EnManosDe(p)     == {<<"mano", h>> : h \in {h \in Hilos : otro[h] = p}}
EnColasIO(p) ==
    {<<"io", i>> : i \in {i \in Ifaces : Contains(cola_io[i], p)}}
EnOut(p)         == {<<"out", i>> : i \in {i \in Ifaces : pid_out[i] = p}}
EnDispositivo(p) == {<<"disp", i>> : i \in {i \in Ifaces : occupant[i] = p}}

Lug(p) == EnRecursos(p) \union EnManosDe(p) \union EnColasIO(p)
            \union EnOut(p) \union EnDispositivo(p)

Esp(e, L) ==
    /\ \A a, b \in L : a = b
    /\ e = "BLOCKED" => L # {}
    /\ e \in {"INEXISTENTE", "NEW", "READY", "EXEC"} => L = {}

EsperaOK == \A p \in PID : Esp(estado[p], Lug(p))

(* No queue holds a process twice. *)
SinRepetir ==
    /\ \A r \in Recursos : IsInjective(cola_rec[r])
    /\ \A i \in Ifaces : IsInjective(cola_io[i])

(* A thread has somebody to wake up only while it wakes them up. *)
OtroOK == \A h \in Hilos : otro[h] # Nadie => pc[h] = "despierta"

(***************************************************************************)
(* OUT lives from the connection of its interface until it takes the entry *)
(* -1 that IN leaves last in the queue: nobody is queued behind it.        *)
(***************************************************************************)
OutVivo(i) ==
    /\ pc_out[i] \in {"fuera", "espera"} => pid_out[i] = Nadie
    /\ disp[i] = "apagado" => pc_out[i] = "fuera"
    /\ pc_out[i] = "fuera" => cola_io[i] = <<>> /\ ~conectada[i]
    /\ \A k \in 1..Len(cola_io[i]) : cola_io[i][k] = FinCola =>
          k = Len(cola_io[i]) /\ ~conectada[i]
OutOK == \A i \in Ifaces : OutVivo(i)

(* The places have different names. *)
LEMMA Etiquetas ==
  ASSUME NEW p, NEW x
  PROVE  /\ <<"rec", x>> \notin EnManosDe(p) \union EnColasIO(p)
                                  \union EnOut(p) \union EnDispositivo(p)
         /\ <<"mano", x>> \notin EnRecursos(p) \union EnColasIO(p)
                                  \union EnOut(p) \union EnDispositivo(p)
         /\ <<"io", x>> \notin EnRecursos(p) \union EnManosDe(p)
                                  \union EnOut(p) \union EnDispositivo(p)
         /\ <<"out", x>> \notin EnRecursos(p) \union EnManosDe(p)
                                  \union EnColasIO(p) \union EnDispositivo(p)
         /\ <<"disp", x>> \notin EnRecursos(p) \union EnManosDe(p)
                                  \union EnColasIO(p) \union EnOut(p)
<1>1. /\ \A a \in EnRecursos(p) : a[1] = "rec"
      /\ \A a \in EnManosDe(p) : a[1] = "mano"
      /\ \A a \in EnColasIO(p) : a[1] = "io"
      /\ \A a \in EnOut(p) : a[1] = "out"
      /\ \A a \in EnDispositivo(p) : a[1] = "disp"
  BY DEF EnRecursos, EnManosDe, EnColasIO, EnOut, EnDispositivo
<1>2. /\ <<"rec", x>>[1] = "rec" /\ <<"mano", x>>[1] = "mano"
      /\ <<"io", x>>[1] = "io" /\ <<"out", x>>[1] = "out"
      /\ <<"disp", x>>[1] = "disp"
  OBVIOUS
<1> QED
  BY <1>1, <1>2

(* A step that touches none of the places. *)
LEMMA LugIgual ==
  ASSUME UNCHANGED <<cola_rec, otro, cola_io, pid_out, occupant>>, NEW p
  PROVE  Lug(p)' = Lug(p)
  BY DEF Lug, EnRecursos, EnManosDe, EnColasIO, EnOut, EnDispositivo, Contains

(* A process is put in one of the queues or taken out of it. *)
LEMMA RecAgrega ==
  ASSUME NEW r \in Recursos, NEW q,
         \A s \in Recursos \ {r} : cola_rec'[s] = cola_rec[s],
         \A p : Contains(cola_rec'[r], p) <=>
                  Contains(cola_rec[r], p) \/ p = q,
         NEW p
  PROVE  EnRecursos(p)' = EnRecursos(p)
                            \union (IF p = q THEN {<<"rec", r>>} ELSE {})
<1>1. EnRecursos(p)' =
        {<<"rec", s>> : s \in {s \in Recursos : Contains(cola_rec'[s], p)}}
  BY DEF EnRecursos, Contains
<1>2. {s \in Recursos : Contains(cola_rec'[s], p)} =
        {s \in Recursos : Contains(cola_rec[s], p)}
          \union (IF p = q THEN {r} ELSE {})
  OBVIOUS
<1> QED
  BY <1>1, <1>2 DEF EnRecursos

(* ...or is taken out of the queue of a resource. *)
LEMMA RecQuita ==
  ASSUME NEW r \in Recursos, NEW q,
         \A s \in Recursos \ {r} : cola_rec'[s] = cola_rec[s],
         \A p : Contains(cola_rec'[r], p) <=>
                  Contains(cola_rec[r], p) /\ p # q,
         NEW p
  PROVE  EnRecursos(p)' = EnRecursos(p)
                            \ (IF p = q THEN {<<"rec", r>>} ELSE {})
<1>1. EnRecursos(p)' =
        {<<"rec", s>> : s \in {s \in Recursos : Contains(cola_rec'[s], p)}}
  BY DEF EnRecursos, Contains
<1>2. {s \in Recursos : Contains(cola_rec'[s], p)} =
        {s \in Recursos : Contains(cola_rec[s], p)}
          \ (IF p = q THEN {r} ELSE {})
  OBVIOUS
<1>3. \A s \in Recursos : <<"rec", s>> = <<"rec", r>> => s = r
  OBVIOUS
<1> QED
  BY <1>1, <1>2, <1>3 DEF EnRecursos

(* The same with the queues of the interfaces. *)
LEMMA IOAgrega ==
  ASSUME NEW i \in Ifaces, NEW q,
         \A j \in Ifaces \ {i} : cola_io'[j] = cola_io[j],
         \A p : Contains(cola_io'[i], p) <=>
                  Contains(cola_io[i], p) \/ p = q,
         NEW p
  PROVE  EnColasIO(p)' = EnColasIO(p)
                           \union (IF p = q THEN {<<"io", i>>} ELSE {})
<1>1. EnColasIO(p)' =
        {<<"io", j>> : j \in {j \in Ifaces : Contains(cola_io'[j], p)}}
  BY DEF EnColasIO, Contains
<1>2. {j \in Ifaces : Contains(cola_io'[j], p)} =
        {j \in Ifaces : Contains(cola_io[j], p)}
          \union (IF p = q THEN {i} ELSE {})
  OBVIOUS
<1> QED
  BY <1>1, <1>2 DEF EnColasIO

(* A process leaves the queue of an interface. *)
LEMMA IOQuita ==
  ASSUME NEW i \in Ifaces, NEW q,
         \A j \in Ifaces \ {i} : cola_io'[j] = cola_io[j],
         \A p : Contains(cola_io'[i], p) <=>
                  Contains(cola_io[i], p) /\ p # q,
         NEW p
  PROVE  EnColasIO(p)' = EnColasIO(p)
                           \ (IF p = q THEN {<<"io", i>>} ELSE {})
<1>1. EnColasIO(p)' =
        {<<"io", j>> : j \in {j \in Ifaces : Contains(cola_io'[j], p)}}
  BY DEF EnColasIO, Contains
<1>2. {j \in Ifaces : Contains(cola_io'[j], p)} =
        {j \in Ifaces : Contains(cola_io[j], p)}
          \ (IF p = q THEN {i} ELSE {})
  OBVIOUS
<1>3. \A j \in Ifaces : <<"io", j>> = <<"io", i>> => j = i
  OBVIOUS
<1> QED
  BY <1>1, <1>2, <1>3 DEF EnColasIO

(* A thread or a device gets a process, or is rid of it. *)
LEMMA ManoPone ==
  ASSUME ManosTypeOK, NEW h \in Hilos, otro[h] = Nadie, NEW q,
         otro' = [otro EXCEPT ![h] = q], NEW p \in PID
  PROVE  EnManosDe(p)' = EnManosDe(p)
                           \union (IF p = q THEN {<<"mano", h>>} ELSE {})
<1>1. \A g \in Hilos : otro'[g] = IF g = h THEN q ELSE otro[g]
  BY DEF ManosTypeOK
<1> QED
  BY <1>1 DEF EnManosDe

(* A thread is rid of the process it wakes up. *)
LEMMA ManoSaca ==
  ASSUME ManosTypeOK, NEW h \in Hilos,
         otro' = [otro EXCEPT ![h] = Nadie], NEW p \in PID
  PROVE  EnManosDe(p)' = EnManosDe(p)
                           \ (IF p = otro[h] THEN {<<"mano", h>>} ELSE {})
<1>1. \A g \in Hilos : otro'[g] = IF g = h THEN Nadie ELSE otro[g]
  BY DEF ManosTypeOK
<1>2. \A g \in Hilos : <<"mano", g>> = <<"mano", h>> => g = h
  OBVIOUS
<1> QED
  BY <1>1, <1>2 DEF EnManosDe

(* OUT takes a process... *)
LEMMA OutPone ==
  ASSUME InterfacesTypeOK, NEW i \in Ifaces, pid_out[i] = Nadie, NEW q,
         pid_out' = [pid_out EXCEPT ![i] = q], NEW p \in PID
  PROVE  EnOut(p)' = EnOut(p) \union (IF p = q THEN {<<"out", i>>} ELSE {})
<1>1. \A j \in Ifaces : pid_out'[j] = IF j = i THEN q ELSE pid_out[j]
  BY DEF InterfacesTypeOK
<1> QED
  BY <1>1 DEF EnOut

(* ...and hands it over, or drops it. *)
LEMMA OutSaca ==
  ASSUME InterfacesTypeOK, NEW i \in Ifaces,
         pid_out' = [pid_out EXCEPT ![i] = Nadie], NEW p \in PID
  PROVE  EnOut(p)' = EnOut(p)
                       \ (IF p = pid_out[i] THEN {<<"out", i>>} ELSE {})
<1>1. \A j \in Ifaces : pid_out'[j] = IF j = i THEN Nadie ELSE pid_out[j]
  BY DEF InterfacesTypeOK
<1>2. \A j \in Ifaces : <<"out", j>> = <<"out", i>> => j = i
  OBVIOUS
<1> QED
  BY <1>1, <1>2 DEF EnOut

(* A free device gets an occupant... *)
LEMMA DispPone ==
  ASSUME InterfacesTypeOK, NEW i \in Ifaces, occupant[i] = Nadie, NEW q,
         occupant' = [occupant EXCEPT ![i] = q], NEW p \in PID
  PROVE  EnDispositivo(p)' = EnDispositivo(p)
                               \union (IF p = q THEN {<<"disp", i>>} ELSE {})
<1>1. \A j \in Ifaces : occupant'[j] = IF j = i THEN q ELSE occupant[j]
  BY DEF InterfacesTypeOK
<1> QED
  BY <1>1 DEF EnDispositivo

(* ...and is free again. *)
LEMMA DispSaca ==
  ASSUME InterfacesTypeOK, NEW i \in Ifaces,
         occupant' = [occupant EXCEPT ![i] = Nadie], NEW p \in PID
  PROVE  EnDispositivo(p)' = EnDispositivo(p)
                               \ (IF p = occupant[i] THEN {<<"disp", i>>}
                                  ELSE {})
<1>1. \A j \in Ifaces : occupant'[j] = IF j = i THEN Nadie ELSE occupant[j]
  BY DEF InterfacesTypeOK
<1>2. \A j \in Ifaces : <<"disp", j>> = <<"disp", i>> => j = i
  OBVIOUS
<1> QED
  BY <1>1, <1>2 DEF EnDispositivo

(* Places and states, one process at a time. *)
Vacios == {"INEXISTENTE", "NEW", "READY", "EXEC"}

(* A process in its place may end there; only BLOCKED needs a place. *)
LEMMA EspMuda ==
  ASSUME NEW e, NEW f, NEW L, Esp(e, L), f # "BLOCKED" \/ f = e,
         f \in Vacios => e \in Vacios
  PROVE  Esp(f, L)
  BY DEF Esp, Vacios

(* From one place to another it is still in one. *)
LEMMA EspMueve ==
  ASSUME NEW e, NEW L, NEW a \in L, NEW b, Esp(e, L)
  PROVE  Esp(e, (L \ {a}) \union {b})
  BY DEF Esp

(* Out of its only place it may be anything but BLOCKED. *)
LEMMA EspSale ==
  ASSUME NEW e, NEW f, NEW L, NEW a \in L, Esp(e, L), f # "BLOCKED"
  PROVE  Esp(f, L \ {a})
  BY DEF Esp

(* Who runs is nowhere, and blocks in one place. *)
LEMMA EspEntra ==
  ASSUME NEW L, NEW b, Esp("EXEC", L)
  PROVE  Esp("BLOCKED", L \union {b})
  BY DEF Esp

(* One process moves from a to b; the others stay where they are. *)
Mueve(q, a, b) ==
    /\ a \in Lug(q)
    /\ \A p \in PID : Lug(p)' =
          (Lug(p) \ (IF p = q THEN {a} ELSE {}))
            \union (IF p = q THEN {b} ELSE {})

(* One process starts to wait in b, or stops waiting in a. *)
Entra(q, b) ==
    \A p \in PID : Lug(p)' = Lug(p) \union (IF p = q THEN {b} ELSE {})
Sale(q, a) ==
    /\ a \in Lug(q)
    /\ \A p \in PID : Lug(p)' = Lug(p) \ (IF p = q THEN {a} ELSE {})

(* Each of the three keeps everybody where somebody will look. *)
LEMMA EsperaMueve ==
  ASSUME EsperaOK, UNCHANGED estado, NEW q \in PID, NEW a, NEW b,
         Mueve(q, a, b)
  PROVE  EsperaOK'
<1> SUFFICES ASSUME NEW p \in PID PROVE Esp(estado[p], Lug(p)')
  BY DEF EsperaOK, Esp
<1>1. Esp(estado[p], Lug(p))
  BY DEF EsperaOK
<1>2. CASE p = q
  <2>1. Lug(p)' = (Lug(p) \ {a}) \union {b} /\ a \in Lug(p)
    BY <1>2 DEF Mueve
  <2>2. Esp(estado[p], (Lug(p) \ {a}) \union {b})
    BY <1>1, <2>1, EspMueve
  <2> QED
    BY <2>1, <2>2
<1>3. CASE p # q
  <2>1. Lug(p)' = Lug(p)
    BY <1>3 DEF Mueve
  <2> QED
    BY <1>1, <2>1
<1> QED
  BY <1>2, <1>3

(* A process that leaves its place is not BLOCKED any more. *)
LEMMA EsperaSale ==
  ASSUME EsperaOK, PCBTypeOK, NEW q \in PID, NEW a, Sale(q, a),
         \/ UNCHANGED estado /\ estado[q] # "BLOCKED"
         \/ \E e, f \in Estados : Muda(q, e, f) /\ f # "BLOCKED"
  PROVE  EsperaOK'
<1> SUFFICES ASSUME NEW p \in PID PROVE Esp(estado'[p], Lug(p)')
  BY DEF EsperaOK, Esp
<1>1. Esp(estado[p], Lug(p))
  BY DEF EsperaOK
<1>2. CASE p = q
  <2>1. Lug(p)' = Lug(p) \ {a} /\ a \in Lug(p)
    BY <1>2 DEF Sale
  <2>2. estado'[p] # "BLOCKED"
    BY <1>2 DEF Muda, PCBTypeOK
  <2>3. Esp(estado'[p], Lug(p) \ {a})
    BY <1>1, <2>1, <2>2, EspSale
  <2> QED
    BY <2>1, <2>3
<1>3. CASE p # q
  <2>1. Lug(p)' = Lug(p)
    BY <1>3 DEF Sale
  <2>2. estado'[p] = estado[p]
    BY <1>3 DEF Muda, PCBTypeOK
  <2> QED
    BY <1>1, <2>1, <2>2
<1> QED
  BY <1>2, <1>3

(* A process that starts to wait was running. *)
LEMMA EsperaEntra ==
  ASSUME EsperaOK, PCBTypeOK, NEW q \in PID, NEW b, Entra(q, b),
         Muda(q, "EXEC", "BLOCKED")
  PROVE  EsperaOK'
<1> SUFFICES ASSUME NEW p \in PID PROVE Esp(estado'[p], Lug(p)')
  BY DEF EsperaOK, Esp
<1>1. Esp(estado[p], Lug(p))
  BY DEF EsperaOK
<1>2. CASE p = q
  <2>1. Lug(p)' = Lug(p) \union {b}
    BY <1>2 DEF Entra
  <2>2. estado[p] = "EXEC" /\ estado'[p] = "BLOCKED"
    BY <1>2 DEF Muda, PCBTypeOK
  <2>3. Esp("BLOCKED", Lug(p) \union {b})
    BY <1>1, <2>2, EspEntra
  <2> QED
    BY <2>1, <2>2, <2>3
<1>3. CASE p # q
  <2>1. Lug(p)' = Lug(p) /\ estado'[p] = estado[p]
    BY <1>3 DEF Entra, Muda, PCBTypeOK
  <2> QED
    BY <1>1, <2>1
<1> QED
  BY <1>2, <1>3

(* Nobody goes anywhere, and nobody starts to wait or stops. *)
LEMMA EsperaQuieta ==
  ASSUME EsperaOK, PCBTypeOK, \A p \in PID : Lug(p)' = Lug(p),
         \/ UNCHANGED estado
         \/ \E q \in PID, f \in Estados :
              /\ estado' = [estado EXCEPT ![q] = f]
              /\ f # "BLOCKED" /\ (f \in Vacios => estado[q] \in Vacios)
  PROVE  EsperaOK'
<1> SUFFICES ASSUME NEW p \in PID PROVE Esp(estado'[p], Lug(p)')
  BY DEF EsperaOK, Esp
<1>1. Esp(estado[p], Lug(p))
  BY DEF EsperaOK
<1>2. \/ estado'[p] = estado[p]
      \/ estado'[p] # "BLOCKED"
         /\ (estado'[p] \in Vacios => estado[p] \in Vacios)
  BY DEF PCBTypeOK
<1>3. Esp(estado'[p], Lug(p))
  BY <1>1, <1>2, EspMuda
<1> QED
  BY <1>3

(* A thread has somebody to wake up only while it does. *)
LEMMA OtroPaso ==
  ASSUME KInv, OtroOK, [Next]_vars
  PROVE  OtroOK'
<1>0. PcTypeOK /\ ManosTypeOK /\ Elim \in Hilos /\ Plan \in Hilos
  BY DEF KInv, Hilos
<1> SUFFICES ASSUME NEW h \in Hilos, otro'[h] # Nadie
             PROVE  pc'[h] = "despierta"
  BY DEF OtroOK
<1>1. CASE h = Elim /\ DelElim
  <2>1. CASE ElimLibera
    BY <1>0, <1>1, <2>1 DEF ElimLibera, PcTypeOK, ManosTypeOK, OtroOK
  <2>2. CASE ElimDespierta
    BY <1>0, <1>1, <2>2 DEF ElimDespierta, ManosTypeOK
  <2>3. CASE ~ElimLibera /\ ~ElimDespierta
    <3>1. UNCHANGED otro
      BY <1>1, <2>3, HuellaElim
    <3>2. pc[Elim] # "despierta"
      BY <1>1, <2>3 DEF DelElim, ElimNext, ElimToma, ElimCaso, ElimNew,
         ElimExec, ElimVivo, ElimNada, ElimExit, ElimTomaRecurso, ElimSuelta,
         ElimBorra
    <3> QED
      BY <1>1, <3>1, <3>2 DEF OtroOK
  <2> QED
    BY <2>1, <2>2, <2>3
<1>2. CASE h = Plan /\ DelPlan
  <2>1. CASE PlanSignal
    BY <1>0, <1>2, <2>1 DEF PlanSignal, PcTypeOK, ManosTypeOK, OtroOK
  <2>2. CASE PlanDespierta
    BY <1>0, <1>2, <2>2 DEF PlanDespierta, ManosTypeOK
  <2>3. CASE ~PlanSignal /\ ~PlanDespierta
    <3>1. UNCHANGED otro
      BY <1>2, <2>3, HuellaPlanManos
    <3>2. pc[Plan] # "despierta"
      BY <1>2, <2>3 DEF DelPlan, PlanNext, PlanToma, PlanPasaPausa,
         PlanDescarta, PlanDespacha, PlanRecibe, PlanMatado, PlanActualiza,
         PlanInvalida, PlanTermina, PlanInterrumpido, PlanPideSyscall,
         PlanProcesa, PlanLeeSyscall, PlanWait, PlanInterfazInvalida,
         PlanBloqueaIO, PlanDesaloja, PlanRedespacha, PlanSuelta
    <3> QED
      BY <1>2, <3>1, <3>2 DEF OtroOK
  <2> QED
    BY <2>1, <2>2, <2>3
<1>3. CASE ~(h = Elim /\ DelElim) /\ ~(h = Plan /\ DelPlan)
  <2>1. otro'[h] = otro[h]
    <3>1. CASE DelElim \/ DelPlan
      BY <1>0, <1>3, <3>1, OtrosHilosElim, OtrosHilosPlan
    <3>2. CASE ~DelElim /\ ~DelPlan
      BY <3>2, HuellaCrear, HuellaConsola, HuellaIfaces, HuellaReloj,
         HuellaCpu DEF Next, vars, kernel_vars, vKernelAjeno
    <3> QED
      BY <3>1, <3>2
  <2>2. pc[h] = "despierta"
    BY <2>1 DEF OtroOK
  <2>3. h \in {Elim, Plan}
    BY <1>0, <2>2 DEF PcTypeOK, Hilos, LugaresCrear, LugaresConsola
  <2> QED
    BY <1>0, <1>3, <2>2, <2>3, OtrosHilos
<1> QED
  BY <1>1, <1>2, <1>3

(* An interface nobody touches. *)
LEMMA OutMismo ==
  ASSUME NEW j \in Ifaces, OutVivo(j),
         UNCHANGED <<pc_out[j], pid_out[j], disp[j], cola_io[j], conectada[j]>>
  PROVE  OutVivo(j)'
  BY DEF OutVivo

(* The -1 is nowhere in the queue of a connected interface, and a PID that *)
(* is queued there does not change that.                                   *)
LEMMA OutBloquea ==
  ASSUME KInv, OutOK, DelPlan, PlanBloqueaIO
  PROVE  OutOK'
<1>0. ColasIOOK /\ InterfacesTypeOK /\ ManosPlan
  BY DEF KInv
<1>1. PICK q \in PID : q = actual[Plan]
  BY <1>0 DEF PlanBloqueaIO, ManosPlan
<1>2. PICK i \in Ifaces : i = paquete.arg
  BY DEF PlanBloqueaIO, Listada
<1>3. /\ conectada[i] /\ UNCHANGED <<conectada, vIfaceHilos>>
      /\ cola_io' = [cola_io EXCEPT ![i] = Append(@, q)]
  BY <1>1, <1>2, HuellaPlan DEF PlanBloqueaIO
<1>4. \A j \in Ifaces : cola_io'[j] = IF j = i THEN Append(cola_io[i], q)
                                       ELSE cola_io[j]
  BY <1>0, <1>3 DEF ColasIOOK
<1>5. ASSUME NEW j \in Ifaces \ {i} PROVE OutVivo(j)'
  BY <1>3, <1>4, <1>5, OutMismo DEF OutOK
<1>6. OutVivo(i)'
  <2>1. OutVivo(i)
    BY DEF OutOK
  <2>2. cola_io[i] \in Seq(PID \union {FinCola}) /\ Len(cola_io[i]) \in Nat
    BY <1>0, LenProperties DEF ColasIOOK
  <2>3. pc_out[i] # "fuera" /\ \A k \in 1..Len(cola_io[i]) :
                                 cola_io[i][k] # FinCola
    BY <1>3, <2>1 DEF OutVivo
  <2>4. /\ Len(cola_io'[i]) = Len(cola_io[i]) + 1
        /\ \A k \in 1..Len(cola_io[i]) : cola_io'[i][k] = cola_io[i][k]
        /\ cola_io'[i][Len(cola_io[i]) + 1] = q
    <3> DEFINE s == cola_io[i]
               S == PID \union {FinCola}
    <3>1. s \in Seq(S) /\ q \in S
      BY <1>1, <2>2
    <3> HIDE DEF s, S
    <3>2. /\ Len(Append(s, q)) = Len(s) + 1
          /\ \A k \in 1..Len(s) : Append(s, q)[k] = s[k]
          /\ Append(s, q)[Len(s) + 1] = q
      BY <3>1, AppendProperties
    <3>3. cola_io'[i] = Append(s, q)
      BY <1>4 DEF s
    <3> QED
      BY <3>2, <3>3 DEF s
  <2>5. \A k \in 1..Len(cola_io'[i]) : cola_io'[i][k] # FinCola
    <3> SUFFICES ASSUME NEW k \in 1..(Len(cola_io[i]) + 1)
                 PROVE  cola_io'[i][k] # FinCola
      BY <2>4
    <3>1. CASE k = Len(cola_io[i]) + 1
      BY <1>1, <2>4, <3>1
    <3>2. CASE k # Len(cola_io[i]) + 1
      <4>1. k \in 1..Len(cola_io[i])
        BY <2>2, <3>2
      <4> QED
        BY <2>3, <2>4, <4>1
    <3> QED
      BY <3>1, <3>2
  <2> QED
    BY <1>3, <2>1, <2>3, <2>5 DEF OutVivo
<1> QED
  BY <1>5, <1>6 DEF OutOK

(* Of the steps of IN, OUT and the devices... *)
LEMMA OutIfaces ==
  ASSUME KInv, DispositivoOK, OutOK, NEW i \in Ifaces,
         InNext(i) \/ OutNext(i) \/ DispNext(i)
  PROVE  OutOK'
<1>0. ColasIOOK /\ InterfacesTypeOK
  BY DEF KInv
<1>1. ASSUME NEW j \in Ifaces \ {i} PROVE OutVivo(j)'
  <2>1. UNCHANGED <<pc_out[j], pid_out[j], disp[j], cola_io[j], conectada[j]>>
    BY <1>0, <1>1 DEF InNext, OutNext, DispNext, InRecibe, InIOFin,
       InDesconexion, OutToma, OutOcupa, OutEntrega, OutRechaza, OutSaltea,
       OutConPCB, Conecta, DispToma, DispTermina, DispCae, InterfacesTypeOK,
       ColasIOOK
  <2> QED
    BY <2>1, OutMismo DEF OutOK
<1>2. OutVivo(i)
  BY DEF OutOK
<1>3. cola_io[i] \in Seq(PID \union {FinCola}) /\ Len(cola_io[i]) \in Nat
  BY <1>0, LenProperties DEF ColasIOOK
<1>4. ASSUME Conecta(i)
      PROVE  OutVivo(i)'
  <2>1. /\ disp[i] = "apagado" /\ disp'[i] = "libre" /\ pc_out'[i] = "espera"
        /\ UNCHANGED <<pid_out, cola_io>>
    BY <1>0, <1>4 DEF Conecta, InterfacesTypeOK
  <2>2. cola_io[i] = <<>> /\ pid_out[i] = Nadie
    BY <1>2, <2>1 DEF OutVivo
  <2>3. Len(cola_io'[i]) = 0
    BY <2>1, <2>2
  <2> QED
    BY <2>1, <2>2, <2>3 DEF OutVivo
<1>5. ASSUME InDesconexion(i)
      PROVE  OutVivo(i)'
  <2>1. /\ pc_in[i] = "DESCONEXION" /\ ~conectada'[i]
        /\ cola_io'[i] = Append(cola_io[i], FinCola)
        /\ UNCHANGED <<pc_out, pid_out, disp>>
    BY <1>0, <1>5 DEF InDesconexion, InterfacesTypeOK, ColasIOOK
  <2>2. conectada[i] /\ disp[i] # "apagado"
    BY <2>1 DEF DispositivoOK, ConectadoOK, DesconectadoOK
  <2>3. pc_out[i] # "fuera" /\ \A k \in 1..Len(cola_io[i]) :
                                 cola_io[i][k] # FinCola
    BY <1>2, <2>2 DEF OutVivo
  <2>4. /\ Len(cola_io'[i]) = Len(cola_io[i]) + 1
        /\ \A k \in 1..Len(cola_io[i]) : cola_io'[i][k] = cola_io[i][k]
    BY <1>3, <2>1, AppendProperties
  <2>5. \A k \in 1..Len(cola_io'[i]) : cola_io'[i][k] = FinCola =>
          k = Len(cola_io'[i])
    BY <1>3, <2>3, <2>4
  <2> QED
    BY <1>2, <2>1, <2>2, <2>3, <2>5 DEF OutVivo
<1>6. ASSUME OutToma(i)
      PROVE  OutVivo(i)'
  <2>1. /\ pc_out[i] = "espera" /\ cola_io'[i] = Tail(cola_io[i])
        /\ sem_cola_io[i] > 0
        /\ UNCHANGED <<disp, conectada>>
        /\ \/ /\ Head(cola_io[i]) = FinCola /\ pc_out'[i] = "fuera"
              /\ UNCHANGED pid_out
           \/ Head(cola_io[i]) # FinCola /\ pc_out'[i] = "sem_occupied"
    BY <1>0, <1>6 DEF OutToma, InterfacesTypeOK, ColasIOOK
  <2>2. Len(cola_io[i]) > 0
    BY <1>0, <2>1 DEF ColasIOOK
  <2>3. /\ Head(cola_io[i]) = cola_io[i][1]
        /\ Len(cola_io'[i]) = Len(cola_io[i]) - 1
        /\ \A k \in 1..Len(cola_io'[i]) : cola_io'[i][k] = cola_io[i][k + 1]
        /\ cola_io'[i] \in Seq(PID \union {FinCola})
    BY <1>3, <2>1, <2>2, HeadTailProperties, EmptySeq
  <2>4. \A k \in 1..Len(cola_io'[i]) : cola_io'[i][k] = FinCola =>
          k = Len(cola_io'[i]) /\ ~conectada'[i]
    <3> SUFFICES ASSUME NEW k \in 1..Len(cola_io'[i]), cola_io'[i][k] = FinCola
                 PROVE  k = Len(cola_io'[i]) /\ ~conectada'[i]
      OBVIOUS
    <3>1. k + 1 \in 1..Len(cola_io[i]) /\ cola_io[i][k + 1] = FinCola
      BY <1>3, <2>3
    <3>2. k + 1 = Len(cola_io[i]) /\ ~conectada[i]
      BY <1>2, <3>1 DEF OutVivo
    <3> QED
      BY <1>3, <2>1, <2>3, <3>2
  <2>5. disp[i] # "apagado" /\ pid_out[i] = Nadie
    BY <1>2, <2>1 DEF OutVivo
  <2>6. CASE Head(cola_io[i]) = FinCola
    <3>1. Len(cola_io[i]) = 1 /\ ~conectada[i]
      <4>1. 1 \in 1..Len(cola_io[i]) /\ cola_io[i][1] = FinCola
        BY <1>3, <2>2, <2>3, <2>6
      <4> QED
        BY <1>2, <4>1 DEF OutVivo
    <3>2. cola_io'[i] = <<>>
      BY <2>3, <3>1, EmptySeq
    <3> QED
      BY <2>1, <2>4, <2>5, <2>6, <3>1, <3>2 DEF OutVivo
  <2>7. CASE Head(cola_io[i]) # FinCola
    BY <2>1, <2>4, <2>5, <2>7 DEF OutVivo
  <2> QED
    BY <2>6, <2>7
<1>7. ASSUME OutOcupa(i)
      PROVE  OutVivo(i)'
  <2>1. /\ pc_out[i] = "sem_occupied" /\ pc_out'[i] = "mx_PCB"
        /\ UNCHANGED <<pid_out, disp, cola_io, conectada>>
    BY <1>0, <1>7 DEF OutOcupa, InterfacesTypeOK
  <2> QED
    BY <1>2, <2>1 DEF OutVivo
<1>8. ASSUME OutEntrega(i) \/ OutRechaza(i) \/ OutSaltea(i)
      PROVE  OutVivo(i)'
  <2>1. /\ pc_out[i] = "mx_PCB" /\ pc_out'[i] = "espera" /\ pid_out'[i] = Nadie
        /\ UNCHANGED <<disp, cola_io, conectada>>
    BY <1>0, <1>8 DEF OutEntrega, OutRechaza, OutSaltea, OutConPCB,
       InterfacesTypeOK
  <2> QED
    BY <1>2, <2>1 DEF OutVivo
<1>9. ASSUME InRecibe(i) \/ InIOFin(i)
      PROVE  OutVivo(i)'
  <2>1. UNCHANGED <<pc_out, pid_out, disp, cola_io, conectada>>
    BY <1>9 DEF InRecibe, InIOFin
  <2> QED
    BY <1>2, <2>1, OutMismo
<1>10. ASSUME DispToma(i) \/ DispTermina(i) \/ DispCae(i)
      PROVE  OutVivo(i)'
  <2>1. /\ UNCHANGED <<pc_out, pid_out, cola_io, conectada>>
        /\ disp'[i] # "apagado"
    BY <1>0, <1>10 DEF DispToma, DispTermina, DispCae, InterfacesTypeOK
  <2> QED
    BY <1>2, <2>1 DEF OutVivo
<1>11. OutVivo(i)'
  BY <1>4, <1>5, <1>6, <1>7, <1>8, <1>9, <1>10 DEF InNext, OutNext, DispNext
<1> QED
  BY <1>1, <1>11 DEF OutOK

(* Every step keeps the life of the OUT threads. *)
LEMMA OutPaso ==
  ASSUME KInv, DispositivoOK, OutOK, [Next]_vars
  PROVE  OutOK'
<1>1. CASE DeIfaces
  BY <1>1, OutIfaces DEF DeIfaces, InterfacesNext
<1>2. CASE DelPlan /\ PlanBloqueaIO
  BY <1>2, OutBloquea
<1>3. CASE ~DeIfaces /\ ~(DelPlan /\ PlanBloqueaIO)
  <2>1. UNCHANGED <<cola_io, conectada, vIfaceHilos>>
    BY <1>3, HuellaCrear, HuellaElim, HuellaPlan, HuellaPlanColas,
       HuellaConsola, HuellaReloj, HuellaCpu
       DEF Next, vars, kernel_vars, vKernelAjeno
  <2> QED
    BY <2>1, OutMismo DEF OutOK
<1> QED
  BY <1>1, <1>2, <1>3

(* What is taken out of a queue without repetitions is no longer in it, and *)
(* the others are.                                                          *)
LEMMA SacaCabeza ==
  ASSUME NEW S, NEW s \in Seq(S), s # <<>>, IsInjective(s), NEW p
  PROVE  Contains(Tail(s), p) <=> Contains(s, p) /\ p # Head(s)
<1>1. /\ Len(s) \in Nat \ {0} /\ Len(Tail(s)) = Len(s) - 1
      /\ Head(s) = s[1] /\ \A k \in 1..Len(Tail(s)) : Tail(s)[k] = s[k + 1]
  BY HeadTailProperties, EmptySeq, LenProperties
<1>2. \A i, j \in 1..Len(s) : s[i] = s[j] => i = j
  BY SinRepetidosDef
<1> DEFINE t == Tail(s)
<1> HIDE DEF t
<1>3. ~Contains(t, Head(s))
  <2> SUFFICES ASSUME NEW k \in 1..Len(t), t[k] = Head(s) PROVE FALSE
    BY DEF Contains
  <2>1. k + 1 \in 1..Len(s) /\ 1 \in 1..Len(s) /\ s[k + 1] = s[1]
    BY <1>1 DEF t
  <2> QED
    BY <1>1, <1>2, <2>1
<1>4. /\ Contains(t, p) => Contains(s, p)
      /\ Contains(s, p) => Head(s) = p \/ Contains(t, p)
  BY ContainsTail DEF t
<1> QED
  BY <1>3, <1>4 DEF t

(* The same when it is not the head that is taken. *)
LEMMA SacaElemento ==
  ASSUME NEW S, NEW s \in Seq(S), NEW e, Contains(s, e), IsInjective(s), NEW p
  PROVE  Contains(RemoveFirst(s, e), p) <=> Contains(s, p) /\ p # e
<1>1. PICK k \in 1..Len(s) : s[k] = e /\ RemoveFirst(s, e) = RemoveAt(s, k)
  BY RemoveFirstPosicion
<1> DEFINE t == RemoveAt(s, k)
<1>2. /\ t \in Seq(S)
      /\ Len(t) = Len(s) - 1
      /\ \A i \in 1..(Len(s) - 1) : t[i] = IF i < k THEN s[i] ELSE s[i + 1]
  BY RemoveAtHechos
<1>3. Len(s) \in Nat
  BY LenProperties
<1> HIDE DEF t
<1>4. ASSUME NEW j \in 1..Len(s), s[j] = p, p # e PROVE Contains(t, p)
  <2>1. CASE j < k
    <3>1. j \in 1..Len(t) /\ t[j] = p
      BY <1>2, <1>3, <1>4, <2>1
    <3> QED
      BY <3>1 DEF Contains
  <2>2. CASE j > k
    <3>1. j - 1 \in 1..Len(t) /\ t[j - 1] = p
      BY <1>2, <1>3, <1>4, <2>2
    <3> QED
      BY <3>1 DEF Contains
  <2> QED
    BY <1>1, <1>4, <2>1, <2>2
<1>5. Contains(t, p) => Contains(s, p) /\ p # e
  BY <1>1, RemoveFirstHechos DEF t
<1> QED
  BY <1>1, <1>4, <1>5 DEF t, Contains

(* A SIGNAL, or a release of eliminar_proceso, takes one process at most    *)
(* out of the queue: itself when it was waiting, or else the head.          *)
LEMMA DesasignaQuita ==
  ASSUME RecursosTypeOK, R!ColaSegunInstancias, SinRepetir, NEW q \in PID,
         NEW r \in Recursos, R!DesasignarRecurso(q, r)
  PROVE  /\ \A s \in Recursos : IsInjective(cola_rec'[s])
         /\ \A s \in Recursos \ {r} : cola_rec'[s] = cola_rec[s]
         /\ ~R!HayEspera(r) => cola_rec'[r] = cola_rec[r]
         /\ R!HayEspera(r) /\ Contains(cola_rec[r], q) =>
              \A p : Contains(cola_rec'[r], p) <=>
                      Contains(cola_rec[r], p) /\ p # q
         /\ R!DespiertaOtro(q, r) =>
              /\ Head(cola_rec[r]) \in PID
              /\ Contains(cola_rec[r], Head(cola_rec[r]))
              /\ \A p : Contains(cola_rec'[r], p) <=>
                          Contains(cola_rec[r], p) /\ p # Head(cola_rec[r])
         /\ R!DespiertaOtro(q, r) <=>
              R!HayEspera(r) /\ ~Contains(cola_rec[r], q)
<1> DEFINE c == cola_rec[r]
<1>1. c \in Seq(PID) /\ Len(c) \in Nat /\ IsInjective(c)
  BY LenProperties DEF RecursosTypeOK, R!RecTypeOK, Recursos, SinRepetir
<1>2. R!HayEspera(r) => c # <<>>
  BY <1>1 DEF R!ColaSegunInstancias, R!HayEspera, Recursos, RecursosTypeOK,
     R!RecTypeOK
<1>3. R!EnCola(q, r) = Contains(c, q)
  BY MismasColas DEF R!EnCola
<1>4. \A s \in Recursos : cola_rec'[s] =
        IF s # r THEN cola_rec[s]
        ELSE IF ~R!HayEspera(r) THEN c
        ELSE IF Contains(c, q) THEN RemoveFirst(c, q) ELSE Tail(c)
  BY <1>3, MismasColas DEF R!DesasignarRecurso, RecursosTypeOK, R!RecTypeOK,
     Recursos
<1>5. R!DespiertaOtro(q, r) <=> R!HayEspera(r) /\ ~Contains(c, q)
  BY <1>3 DEF R!DespiertaOtro
<1>6. /\ Contains(c, q) => /\ IsInjective(RemoveFirst(c, q))
                           /\ \A p : Contains(RemoveFirst(c, q), p) <=>
                                       Contains(c, p) /\ p # q
      /\ c # <<>> => /\ IsInjective(Tail(c))
                     /\ Head(c) \in PID /\ Contains(c, Head(c))
                     /\ \A p : Contains(Tail(c), p) <=>
                                 Contains(c, p) /\ p # Head(c)
  <2>1. c # <<>> => Contains(c, Head(c))
    BY <1>1, HeadTailProperties, EmptySeq DEF Contains
  <2> HIDE DEF c
  <2> QED
    BY <1>1, <2>1, RemoveFirstHechos, TailHechos, SacaCabeza, SacaElemento
<1>7. \A s \in Recursos : IsInjective(cola_rec[s])
  BY DEF SinRepetir
<1>8. ASSUME NEW s \in Recursos PROVE IsInjective(cola_rec'[s])
  BY <1>1, <1>2, <1>4, <1>6, <1>7
<1> HIDE DEF c
<1>9. cola_rec'[r] = IF ~R!HayEspera(r) THEN c
        ELSE IF Contains(c, q) THEN RemoveFirst(c, q) ELSE Tail(c)
  BY <1>4
<1> QED
  BY <1>2, <1>4, <1>5, <1>6, <1>8, <1>9 DEF c

(* Who runs waits nowhere. *)
LEMMA EnExecNoEspera ==
  ASSUME EsperaOK, NEW q \in PID, estado[q] = "EXEC"
  PROVE  /\ \A r \in Recursos : ~Contains(cola_rec[r], q)
         /\ \A i \in Ifaces : ~Contains(cola_io[i], q)
<1>1. Lug(q) = {}
  BY DEF EsperaOK, Esp
<1>2. EnRecursos(q) = {} /\ EnColasIO(q) = {}
  BY <1>1 DEF Lug
<1>3. ASSUME NEW r \in Recursos, Contains(cola_rec[r], q) PROVE FALSE
  <2>1. <<"rec", r>> \in EnRecursos(q)
    BY <1>3 DEF EnRecursos
  <2> QED
    BY <1>2, <2>1
<1>4. ASSUME NEW i \in Ifaces, Contains(cola_io[i], q) PROVE FALSE
  <2>1. <<"io", i>> \in EnColasIO(q)
    BY <1>4 DEF EnColasIO
  <2> QED
    BY <1>2, <2>1
<1> QED
  BY <1>3, <1>4

(* WAIT puts a process in the queue of the resource at most once. *)
LEMMA AsignaAgrega ==
  ASSUME RecursosTypeOK, SinRepetir, NEW q \in PID, NEW r \in Recursos,
         ~Contains(cola_rec[r], q), R!AsignarRecurso(q, r)
  PROVE  /\ \A s \in Recursos : IsInjective(cola_rec'[s])
         /\ \A s \in Recursos \ {r} : cola_rec'[s] = cola_rec[s]
         /\ ~R!Agotado(r) => cola_rec'[r] = cola_rec[r]
         /\ R!Agotado(r) =>
              \A p : Contains(cola_rec'[r], p) <=>
                      Contains(cola_rec[r], p) \/ p = q
<1> DEFINE c == cola_rec[r]
<1>1. c \in Seq(PID) /\ \A s \in Recursos : IsInjective(cola_rec[s])
  BY DEF RecursosTypeOK, R!RecTypeOK, Recursos, SinRepetir
<1>2. \A s \in Recursos : cola_rec'[s] =
        IF s # r THEN cola_rec[s] ELSE IF R!Agotado(r) THEN Append(c, q) ELSE c
  BY DEF R!AsignarRecurso, RecursosTypeOK, R!RecTypeOK, Recursos
<1>3. /\ IsInjective(Append(c, q))
      /\ \A p : Contains(Append(c, q), p) <=> Contains(c, p) \/ p = q
  BY <1>1, AppendHechos, ContainsAppend
<1>4. ASSUME NEW s \in Recursos PROVE IsInjective(cola_rec'[s])
  BY <1>1, <1>2, <1>3
<1> HIDE DEF c
<1>5. cola_rec'[r] = IF R!Agotado(r) THEN Append(c, q) ELSE c
  BY <1>2
<1> QED
  BY <1>2, <1>3, <1>4, <1>5 DEF c

(* The queues of the interfaces. *)
LEMMA BloqueaAgrega ==
  ASSUME ColasIOOK, SinRepetir, NEW i \in Ifaces,
         NEW q \in PID \union {FinCola},
         ~Contains(cola_io[i], q),
         cola_io' = [cola_io EXCEPT ![i] = Append(@, q)]
  PROVE  /\ \A j \in Ifaces : IsInjective(cola_io'[j])
         /\ \A j \in Ifaces \ {i} : cola_io'[j] = cola_io[j]
         /\ \A p : Contains(cola_io'[i], p) <=>
                    Contains(cola_io[i], p) \/ p = q
<1> DEFINE c == cola_io[i]
           S == PID \union {FinCola}
<1>1. c \in Seq(S) /\ \A j \in Ifaces : IsInjective(cola_io[j])
  BY DEF ColasIOOK, SinRepetir
<1>2. \A j \in Ifaces : cola_io'[j] = IF j = i THEN Append(c, q)
                                      ELSE cola_io[j]
  BY DEF ColasIOOK
<1>3. /\ IsInjective(Append(c, q))
      /\ \A p : Contains(Append(c, q), p) <=> Contains(c, p) \/ p = q
  <2>1. c \in Seq(S) /\ q \in S /\ IsInjective(c) /\ ~Contains(c, q)
    BY <1>1
  <2> HIDE DEF c, S
  <2> QED
    BY <2>1, AppendHechos, ContainsAppend
<1>4. ASSUME NEW j \in Ifaces PROVE IsInjective(cola_io'[j])
  BY <1>1, <1>2, <1>3
<1> QED
  BY <1>2, <1>3, <1>4

(* OUT takes the head of the queue, which is nowhere else in it. *)
LEMMA TomaQuita ==
  ASSUME ColasIOOK, SinRepetir, NEW i \in Ifaces, OutToma(i)
  PROVE  /\ \A j \in Ifaces : IsInjective(cola_io'[j])
         /\ \A j \in Ifaces \ {i} : cola_io'[j] = cola_io[j]
         /\ Contains(cola_io[i], Head(cola_io[i]))
         /\ \A p : Contains(cola_io'[i], p) <=>
                     Contains(cola_io[i], p) /\ p # Head(cola_io[i])
<1> DEFINE c == cola_io[i]
           S == PID \union {FinCola}
<1>1. c \in Seq(S) /\ \A j \in Ifaces : IsInjective(cola_io[j])
  BY DEF ColasIOOK, SinRepetir
<1>2. Len(c) > 0 /\ Len(c) \in Nat
  BY <1>1, LenProperties DEF OutToma, ColasIOOK
<1>3. \A j \in Ifaces : cola_io'[j] = IF j = i THEN Tail(c) ELSE cola_io[j]
  BY DEF ColasIOOK, OutToma
<1>4. /\ IsInjective(Tail(c)) /\ Contains(c, Head(c))
      /\ \A p : Contains(Tail(c), p) <=> Contains(c, p) /\ p # Head(c)
  <2>1. c \in Seq(S) /\ IsInjective(c) /\ c # <<>>
    BY <1>1, <1>2, EmptySeq
  <2> HIDE DEF c, S
  <2>2. Contains(c, Head(c))
    BY <1>2, <2>1, HeadTailProperties DEF Contains
  <2> QED
    BY <2>1, <2>2, TailHechos, SacaCabeza
<1>5. ASSUME NEW j \in Ifaces PROVE IsInjective(cola_io'[j])
  BY <1>1, <1>3, <1>4
<1> QED
  BY <1>3, <1>4, <1>5

(* At every step no queue holds a process twice. *)
LEMMA RepetirPaso ==
  ASSUME KInv, EstadoPlan, DispositivoOK, OutOK, SinRepetir, EsperaOK,
         [Next]_vars
  PROVE  SinRepetir'
<1>0. /\ RecursosTypeOK /\ R!ColaSegunInstancias /\ ColasIOOK /\ ManosPlan
      /\ ManosElim /\ InterfacesTypeOK
  BY DEF KInv
<1>1. ASSUME UNCHANGED cola_rec, \A i \in Ifaces : IsInjective(cola_io'[i])
      PROVE  SinRepetir'
  BY <1>1 DEF SinRepetir, IsInjective
<1>2. ASSUME UNCHANGED cola_io, \A r \in Recursos : IsInjective(cola_rec'[r])
      PROVE  SinRepetir'
  BY <1>2 DEF SinRepetir, IsInjective
<1>3. CASE DelElim
  <2>1. UNCHANGED cola_io
    BY <1>3, HuellaElim
  <2>2. CASE ElimLibera
    <3>1. /\ actual[Elim] \in PID /\ idx_elim \in Recursos
          /\ R!DesasignarRecurso(actual[Elim], idx_elim)
      BY <1>0, <2>2 DEF ElimLibera, ManosElim
    <3> QED
      BY <1>0, <1>2, <2>1, <3>1, DesasignaQuita
  <2>3. CASE ~ElimLibera
    BY <1>3, <2>1, <2>3, HuellaElim DEF SinRepetir, IsInjective
  <2> QED
    BY <2>2, <2>3
<1>4. CASE DelPlan
  <2>1. CASE PlanWait
    <3>1. /\ actual[Plan] \in PID /\ paquete.arg \in Recursos
          /\ estado[actual[Plan]] = "EXEC"
          /\ R!AsignarRecurso(actual[Plan], paquete.arg) /\ UNCHANGED cola_io
      BY <1>0, <2>1 DEF PlanWait, ManosPlan, EstadoPlan, ConElPCB
    <3>2. ~Contains(cola_rec[paquete.arg], actual[Plan])
      BY <3>1, EnExecNoEspera
    <3> QED
      BY <1>0, <1>2, <3>1, <3>2, AsignaAgrega
  <2>2. CASE PlanSignal
    <3>1. /\ actual[Plan] \in PID /\ paquete.arg \in Recursos
          /\ UNCHANGED cola_io
          /\ R!DesasignarRecurso(actual[Plan], paquete.arg)
      BY <1>0, <2>2 DEF PlanSignal, ManosPlan
    <3> QED
      BY <1>0, <1>2, <3>1, DesasignaQuita
  <2>3. CASE PlanBloqueaIO
    <3>1. /\ actual[Plan] \in PID /\ paquete.arg \in Ifaces
          /\ estado[actual[Plan]] = "EXEC" /\ UNCHANGED cola_rec
          /\ cola_io' =
               [cola_io EXCEPT ![paquete.arg] = Append(@, actual[Plan])]
      BY <1>0, <2>3 DEF PlanBloqueaIO, Listada, ManosPlan, EstadoPlan, ConElPCB
    <3>2. ~Contains(cola_io[paquete.arg], actual[Plan])
      BY <3>1, EnExecNoEspera
    <3> QED
      BY <1>0, <1>1, <3>1, <3>2, BloqueaAgrega
  <2>4. CASE ~PlanWait /\ ~PlanSignal /\ ~PlanBloqueaIO
    BY <1>4, <2>4, HuellaPlanColas DEF SinRepetir, IsInjective
  <2> QED
    BY <2>1, <2>2, <2>3, <2>4
<1>5. CASE DeIfaces
  <2>1. UNCHANGED cola_rec
    BY <1>5, HuellaIfaces
  <2>2. ASSUME NEW i \in Ifaces, InDesconexion(i) PROVE SinRepetir'
    <3>1. /\ pc_in[i] = "DESCONEXION" /\ FinCola \in PID \union {FinCola}
          /\ cola_io' = [cola_io EXCEPT ![i] = Append(@, FinCola)]
      BY <2>2 DEF InDesconexion
    <3>2. conectada[i]
      BY <3>1 DEF DispositivoOK, DesconectadoOK
    <3>3. ~Contains(cola_io[i], FinCola)
      BY <3>2 DEF OutOK, OutVivo, Contains
    <3> QED
      BY <1>0, <1>1, <2>1, <3>1, <3>3, BloqueaAgrega
  <2>3. ASSUME NEW i \in Ifaces, OutToma(i) PROVE SinRepetir'
    BY <1>0, <1>1, <2>1, <2>3, TomaQuita
  <2>4. CASE UNCHANGED cola_io
    BY <2>1, <2>4 DEF SinRepetir, IsInjective
  <2> QED
    BY <1>5, <2>2, <2>3, <2>4, HuellaIfacesColas DEF DeIfaces
<1>6. CASE ~DelElim /\ ~DelPlan /\ ~DeIfaces
  <2>1. UNCHANGED <<cola_rec, cola_io>>
    BY <1>6, HuellaCrear, HuellaConsola, HuellaReloj, HuellaCpu
       DEF Next, vars, kernel_vars, vKernelAjeno
  <2> QED
    BY <2>1 DEF SinRepetir, IsInjective
<1> QED
  BY <1>3, <1>4, <1>5, <1>6

(* Each kind of place depends on one variable. *)
LEMMA LugaresIguales ==
  ASSUME NEW p
  PROVE  /\ UNCHANGED cola_rec => EnRecursos(p)' = EnRecursos(p)
         /\ UNCHANGED otro => EnManosDe(p)' = EnManosDe(p)
         /\ UNCHANGED cola_io => EnColasIO(p)' = EnColasIO(p)
         /\ UNCHANGED pid_out => EnOut(p)' = EnOut(p)
         /\ UNCHANGED occupant => EnDispositivo(p)' = EnDispositivo(p)
  BY DEF EnRecursos, EnManosDe, EnColasIO, EnOut, EnDispositivo, Contains

(* What the threads do with the places: WAIT and an I/O operation put a     *)
(* process in a queue...                                                    *)
LEMMA EntraRec ==
  ASSUME UNCHANGED <<otro, cola_io, pid_out, occupant>>,
         NEW r \in Recursos, NEW q,
         \A s \in Recursos \ {r} : cola_rec'[s] = cola_rec[s],
         \A p : Contains(cola_rec'[r], p) <=> Contains(cola_rec[r], p) \/ p = q
  PROVE  Entra(q, <<"rec", r>>)
<1> SUFFICES ASSUME NEW p \in PID
             PROVE  Lug(p)' = Lug(p)
                         \union (IF p = q THEN {<<"rec", r>>} ELSE {})
  BY DEF Entra
<1>1. EnRecursos(p)' = EnRecursos(p)
                         \union (IF p = q THEN {<<"rec", r>>} ELSE {})
  BY RecAgrega
<1>2. Lug(p)' = EnRecursos(p)' \union EnManosDe(p) \union EnColasIO(p)
                  \union EnOut(p) \union EnDispositivo(p)
  BY LugaresIguales DEF Lug
<1> QED
  BY <1>1, <1>2 DEF Lug

(* A process is put in the queue of an interface. *)
LEMMA EntraIO ==
  ASSUME UNCHANGED <<cola_rec, otro, pid_out, occupant>>,
         NEW i \in Ifaces, NEW q,
         \A j \in Ifaces \ {i} : cola_io'[j] = cola_io[j],
         \A p : Contains(cola_io'[i], p) <=> Contains(cola_io[i], p) \/ p = q
  PROVE  Entra(q, <<"io", i>>)
<1> SUFFICES ASSUME NEW p \in PID
             PROVE  Lug(p)' = Lug(p)
                         \union (IF p = q THEN {<<"io", i>>} ELSE {})
  BY DEF Entra
<1>1. EnColasIO(p)' = EnColasIO(p) \union (IF p = q THEN {<<"io", i>>} ELSE {})
  BY IOAgrega
<1>2. Lug(p)' = EnRecursos(p) \union EnManosDe(p) \union EnColasIO(p)'
                  \union EnOut(p) \union EnDispositivo(p)
  BY LugaresIguales DEF Lug
<1> QED
  BY <1>1, <1>2 DEF Lug

(* ...who is taken from a queue of a resource goes nowhere, when it is the  *)
(* process that ends, or into the hands of the thread that took it...       *)
LEMMA SaleRec ==
  ASSUME UNCHANGED <<otro, cola_io, pid_out, occupant>>,
         NEW r \in Recursos, NEW q, Contains(cola_rec[r], q),
         \A s \in Recursos \ {r} : cola_rec'[s] = cola_rec[s],
         \A p : Contains(cola_rec'[r], p) <=> Contains(cola_rec[r], p) /\ p # q
  PROVE  Sale(q, <<"rec", r>>)
<1>1. <<"rec", r>> \in Lug(q)
  BY DEF Lug, EnRecursos
<1> SUFFICES ASSUME NEW p \in PID
             PROVE  Lug(p)' = Lug(p) \ (IF p = q THEN {<<"rec", r>>} ELSE {})
  BY <1>1 DEF Sale
<1>2. EnRecursos(p)' = EnRecursos(p) \ (IF p = q THEN {<<"rec", r>>} ELSE {})
  BY RecQuita
<1>3. Lug(p)' = EnRecursos(p)' \union EnManosDe(p) \union EnColasIO(p)
                  \union EnOut(p) \union EnDispositivo(p)
  BY LugaresIguales DEF Lug
<1>4. <<"rec", r>> \notin EnManosDe(p) \union EnColasIO(p)
                            \union EnOut(p) \union EnDispositivo(p)
  BY Etiquetas
<1> QED
  BY <1>2, <1>3, <1>4 DEF Lug

(* From the queue of a resource into the hands of a thread. *)
LEMMA MueveRecMano ==
  ASSUME ManosTypeOK, UNCHANGED <<cola_io, pid_out, occupant>>,
         NEW r \in Recursos, NEW q, Contains(cola_rec[r], q),
         \A s \in Recursos \ {r} : cola_rec'[s] = cola_rec[s],
         \A p : Contains(cola_rec'[r], p) <=>
                  Contains(cola_rec[r], p) /\ p # q,
         NEW h \in Hilos, otro[h] = Nadie, otro' = [otro EXCEPT ![h] = q]
  PROVE  Mueve(q, <<"rec", r>>, <<"mano", h>>)
<1>1. <<"rec", r>> \in Lug(q)
  BY DEF Lug, EnRecursos
<1> SUFFICES ASSUME NEW p \in PID
             PROVE  Lug(p)' = (Lug(p) \ (IF p = q THEN {<<"rec", r>>} ELSE {}))
                                \union (IF p = q THEN {<<"mano", h>>} ELSE {})
  BY <1>1 DEF Mueve
<1>2. EnRecursos(p)' = EnRecursos(p) \ (IF p = q THEN {<<"rec", r>>} ELSE {})
  BY RecQuita
<1>3. EnManosDe(p)' = EnManosDe(p) \union (IF p = q THEN {<<"mano", h>>}
                                           ELSE {})
  BY ManoPone
<1>4. Lug(p)' = EnRecursos(p)' \union EnManosDe(p)' \union EnColasIO(p)
                  \union EnOut(p) \union EnDispositivo(p)
  BY LugaresIguales DEF Lug
<1>5. <<"rec", r>> \notin EnManosDe(p) \union EnColasIO(p)
                            \union EnOut(p) \union EnDispositivo(p)
  BY Etiquetas
<1> QED
  BY <1>2, <1>3, <1>4, <1>5 DEF Lug

(* ...which wakes it up... *)
LEMMA SaleMano ==
  ASSUME ManosTypeOK, UNCHANGED <<cola_rec, cola_io, pid_out, occupant>>,
         NEW h \in Hilos, NEW q \in PID, otro[h] = q,
         otro' = [otro EXCEPT ![h] = Nadie]
  PROVE  Sale(q, <<"mano", h>>)
<1>1. <<"mano", h>> \in Lug(q)
  BY DEF Lug, EnManosDe
<1> SUFFICES ASSUME NEW p \in PID
             PROVE  Lug(p)' = Lug(p) \ (IF p = q THEN {<<"mano", h>>} ELSE {})
  BY <1>1 DEF Sale
<1>2. EnManosDe(p)' = EnManosDe(p) \ (IF p = q THEN {<<"mano", h>>} ELSE {})
  BY ManoSaca
<1>3. Lug(p)' = EnRecursos(p) \union EnManosDe(p)' \union EnColasIO(p)
                  \union EnOut(p) \union EnDispositivo(p)
  BY LugaresIguales DEF Lug
<1>4. <<"mano", h>> \notin EnRecursos(p) \union EnColasIO(p)
                             \union EnOut(p) \union EnDispositivo(p)
  BY Etiquetas
<1> QED
  BY <1>2, <1>3, <1>4 DEF Lug

(* ...and who is taken from the queue of an interface goes with OUT to the  *)
(* device, unless it is left on the way.                                    *)
LEMMA MueveIOOut ==
  ASSUME InterfacesTypeOK, UNCHANGED <<cola_rec, otro, occupant>>,
         NEW i \in Ifaces, NEW q, Contains(cola_io[i], q),
         \A j \in Ifaces \ {i} : cola_io'[j] = cola_io[j],
         \A p : Contains(cola_io'[i], p) <=>
                  Contains(cola_io[i], p) /\ p # q,
         pid_out[i] = Nadie, pid_out' = [pid_out EXCEPT ![i] = q]
  PROVE  Mueve(q, <<"io", i>>, <<"out", i>>)
<1>1. <<"io", i>> \in Lug(q)
  BY DEF Lug, EnColasIO
<1> SUFFICES ASSUME NEW p \in PID
             PROVE  Lug(p)' = (Lug(p) \ (IF p = q THEN {<<"io", i>>} ELSE {}))
                                \union (IF p = q THEN {<<"out", i>>} ELSE {})
  BY <1>1 DEF Mueve
<1>2. EnColasIO(p)' = EnColasIO(p) \ (IF p = q THEN {<<"io", i>>} ELSE {})
  BY IOQuita
<1>3. EnOut(p)' = EnOut(p) \union (IF p = q THEN {<<"out", i>>} ELSE {})
  BY OutPone
<1>4. Lug(p)' = EnRecursos(p) \union EnManosDe(p) \union EnColasIO(p)'
                  \union EnOut(p)' \union EnDispositivo(p)
  BY LugaresIguales DEF Lug
<1>5. <<"io", i>> \notin EnRecursos(p) \union EnManosDe(p)
                           \union EnOut(p) \union EnDispositivo(p)
  BY Etiquetas
<1> QED
  BY <1>2, <1>3, <1>4, <1>5 DEF Lug

(* OUT drops a process that ended, or ends one it cannot serve. *)
LEMMA SaleOut ==
  ASSUME InterfacesTypeOK, UNCHANGED <<cola_rec, otro, cola_io, occupant>>,
         NEW i \in Ifaces, NEW q \in PID, pid_out[i] = q,
         pid_out' = [pid_out EXCEPT ![i] = Nadie]
  PROVE  Sale(q, <<"out", i>>)
<1>1. <<"out", i>> \in Lug(q)
  BY DEF Lug, EnOut
<1> SUFFICES ASSUME NEW p \in PID
             PROVE  Lug(p)' = Lug(p) \ (IF p = q THEN {<<"out", i>>} ELSE {})
  BY <1>1 DEF Sale
<1>2. EnOut(p)' = EnOut(p) \ (IF p = q THEN {<<"out", i>>} ELSE {})
  BY OutSaca
<1>3. Lug(p)' = EnRecursos(p) \union EnManosDe(p) \union EnColasIO(p)
                  \union EnOut(p)' \union EnDispositivo(p)
  BY LugaresIguales DEF Lug
<1>4. <<"out", i>> \notin EnRecursos(p) \union EnManosDe(p)
                            \union EnColasIO(p) \union EnDispositivo(p)
  BY Etiquetas
<1> QED
  BY <1>2, <1>3, <1>4 DEF Lug

(* From OUT to the device. *)
LEMMA MueveOutDisp ==
  ASSUME InterfacesTypeOK, UNCHANGED <<cola_rec, otro, cola_io>>,
         NEW i \in Ifaces, NEW q \in PID, pid_out[i] = q,
         pid_out' = [pid_out EXCEPT ![i] = Nadie],
         occupant[i] = Nadie, occupant' = [occupant EXCEPT ![i] = q]
  PROVE  Mueve(q, <<"out", i>>, <<"disp", i>>)
<1>1. <<"out", i>> \in Lug(q)
  BY DEF Lug, EnOut
<1> SUFFICES ASSUME NEW p \in PID
             PROVE  Lug(p)' = (Lug(p) \ (IF p = q THEN {<<"out", i>>} ELSE {}))
                                \union (IF p = q THEN {<<"disp", i>>} ELSE {})
  BY <1>1 DEF Mueve
<1>2. EnOut(p)' = EnOut(p) \ (IF p = q THEN {<<"out", i>>} ELSE {})
  BY OutSaca
<1>3. EnDispositivo(p)' = EnDispositivo(p)
                            \union (IF p = q THEN {<<"disp", i>>} ELSE {})
  BY DispPone
<1>4. Lug(p)' = EnRecursos(p) \union EnManosDe(p) \union EnColasIO(p)
                  \union EnOut(p)' \union EnDispositivo(p)'
  BY LugaresIguales DEF Lug
<1>5. <<"out", i>> \notin EnRecursos(p) \union EnManosDe(p)
                            \union EnColasIO(p) \union EnDispositivo(p)
  BY Etiquetas
<1> QED
  BY <1>2, <1>3, <1>4, <1>5 DEF Lug

(* IN takes the occupant out of the device. *)
LEMMA SaleDisp ==
  ASSUME InterfacesTypeOK, UNCHANGED <<cola_rec, otro, pid_out>>,
         \A p \in PID : EnColasIO(p)' = EnColasIO(p),
         NEW i \in Ifaces, NEW q \in PID, occupant[i] = q,
         occupant' = [occupant EXCEPT ![i] = Nadie]
  PROVE  Sale(q, <<"disp", i>>)
<1>1. <<"disp", i>> \in Lug(q)
  BY DEF Lug, EnDispositivo
<1> SUFFICES ASSUME NEW p \in PID
             PROVE  Lug(p)' = Lug(p) \ (IF p = q THEN {<<"disp", i>>} ELSE {})
  BY <1>1 DEF Sale
<1>2. EnDispositivo(p)' = EnDispositivo(p)
                            \ (IF p = q THEN {<<"disp", i>>} ELSE {})
  BY DispSaca
<1>3. Lug(p)' = EnRecursos(p) \union EnManosDe(p) \union EnColasIO(p)
                  \union EnOut(p) \union EnDispositivo(p)'
  BY LugaresIguales DEF Lug
<1>4. <<"disp", i>> \notin EnRecursos(p) \union EnManosDe(p)
                             \union EnColasIO(p) \union EnOut(p)
  BY Etiquetas
<1> QED
  BY <1>2, <1>3, <1>4 DEF Lug

(* Waking a process that was taken from where it waited. *)
LEMMA EsperaDespierta ==
  ASSUME EsperaOK, PCBTypeOK, NEW q \in PID, NEW a, Sale(q, a), Desbloquear(q)
  PROVE  EsperaOK'
<1>1. "BLOCKED" \in Estados /\ "READY" \in Estados
  BY DEF Estados
<1>2. \/ UNCHANGED estado /\ estado[q] # "BLOCKED"
      \/ Muda(q, "BLOCKED", "READY")
  BY DEF Desbloquear, Muda
<1> QED
  BY <1>1, <1>2, EsperaSale

(* A release or a SIGNAL takes the process itself out of the queue, or the  *)
(* head into the hands of the thread.                                       *)
LEMMA EsperaDesasigna ==
  ASSUME KInv, OtroOK, SinRepetir, EsperaOK,
         NEW h \in Hilos, pc[h] # "despierta",
         NEW q \in PID, estado[q] # "BLOCKED",
         NEW r \in Recursos, R!DesasignarRecurso(q, r),
         UNCHANGED <<estado, cola_io, pid_out, occupant>>,
         IF R!DespiertaOtro(q, r)
         THEN otro' = [otro EXCEPT ![h] = Head(cola_rec[r])]
         ELSE UNCHANGED otro
  PROVE  EsperaOK'
<1>0. /\ RecursosTypeOK /\ R!ColaSegunInstancias /\ ManosTypeOK /\ PCBTypeOK
      /\ otro[h] = Nadie
  BY DEF KInv, OtroOK
<1>1. /\ \A s \in Recursos \ {r} : cola_rec'[s] = cola_rec[s]
      /\ ~R!HayEspera(r) => cola_rec'[r] = cola_rec[r]
      /\ R!HayEspera(r) /\ Contains(cola_rec[r], q) =>
           \A p : Contains(cola_rec'[r], p) <=>
                   Contains(cola_rec[r], p) /\ p # q
      /\ R!DespiertaOtro(q, r) =>
           /\ Head(cola_rec[r]) \in PID
           /\ Contains(cola_rec[r], Head(cola_rec[r]))
           /\ \A p : Contains(cola_rec'[r], p) <=>
                       Contains(cola_rec[r], p) /\ p # Head(cola_rec[r])
      /\ R!DespiertaOtro(q, r) <=>
           R!HayEspera(r) /\ ~Contains(cola_rec[r], q)
  BY <1>0, DesasignaQuita
<1>2. CASE R!DespiertaOtro(q, r)
  <2>1. PICK x \in PID : x = Head(cola_rec[r])
    BY <1>1, <1>2
  <2>2. /\ Contains(cola_rec[r], x) /\ otro' = [otro EXCEPT ![h] = x]
        /\ \A p : Contains(cola_rec'[r], p) <=>
                   Contains(cola_rec[r], p) /\ p # x
    BY <1>1, <1>2, <2>1
  <2>3. Mueve(x, <<"rec", r>>, <<"mano", h>>)
    BY <1>0, <1>1, <2>2, MueveRecMano
  <2> QED
    BY <2>3, EsperaMueve
<1>3. CASE ~R!DespiertaOtro(q, r) /\ R!HayEspera(r)
  <2>1. /\ Contains(cola_rec[r], q) /\ UNCHANGED otro
        /\ \A p : Contains(cola_rec'[r], p) <=>
                   Contains(cola_rec[r], p) /\ p # q
    BY <1>1, <1>3
  <2>2. Sale(q, <<"rec", r>>)
    BY <1>1, <2>1, SaleRec
  <2> QED
    BY <1>0, <2>2, EsperaSale
<1>4. CASE ~R!DespiertaOtro(q, r) /\ ~R!HayEspera(r)
  <2>1. \A s \in Recursos : cola_rec'[s] = cola_rec[s]
    BY <1>1, <1>4
  <2>2. ASSUME NEW p \in PID PROVE EnRecursos(p)' = EnRecursos(p)
    <3>1. EnRecursos(p)' =
            {<<"rec", s>> : s \in {s \in Recursos : Contains(cola_rec'[s], p)}}
      BY DEF EnRecursos, Contains
    <3>2. {s \in Recursos : Contains(cola_rec'[s], p)} =
            {s \in Recursos : Contains(cola_rec[s], p)}
      BY <2>1
    <3> QED
      BY <3>1, <3>2 DEF EnRecursos
  <2>3. \A p \in PID : Lug(p)' = Lug(p)
    BY <1>4, <2>2, LugaresIguales DEF Lug
  <2> QED
    BY <1>0, <2>3, EsperaQuieta
<1> QED
  BY <1>2, <1>3, <1>4

(* eliminar_proceso takes a process that ends out of the queues in which it *)
(* waited, and hands the instance on.                                       *)
LEMMA EsperaPasoElim ==
  ASSUME KInv, EstadosOK, OtroOK, SinRepetir, EsperaOK, DelElim
  PROVE  EsperaOK'
<1>0. /\ ManosTypeOK /\ PCBTypeOK /\ ManosElim /\ EstadoElim /\ Elim \in Hilos
      /\ UNCHANGED <<cola_io, pid_out, occupant>>
  BY HuellaElim DEF KInv, EstadosOK, Hilos
<1>1. CASE ElimLibera
  <2>1. /\ actual[Elim] \in PID /\ idx_elim \in Recursos
        /\ estado[actual[Elim]] # "BLOCKED" /\ pc[Elim] # "despierta"
        /\ R!DesasignarRecurso(actual[Elim], idx_elim) /\ UNCHANGED estado
    BY <1>0, <1>1 DEF ElimLibera, ManosElim, EstadoElim
  <2>2. IF R!DespiertaOtro(actual[Elim], idx_elim)
        THEN otro' = [otro EXCEPT ![Elim] = Head(cola_rec[idx_elim])]
        ELSE UNCHANGED otro
    BY <1>1 DEF ElimLibera
  <2> QED
    BY <1>0, <2>1, <2>2, EsperaDesasigna
<1>2. CASE ElimDespierta
  <2>1. /\ otro[Elim] \in PID /\ Desbloquear(otro[Elim])
        /\ otro' = [otro EXCEPT ![Elim] = Nadie] /\ UNCHANGED cola_rec
    BY <1>0, <1>2 DEF ElimDespierta, ManosElim
  <2>2. Sale(otro[Elim], <<"mano", Elim>>)
    BY <1>0, <2>1, SaleMano
  <2> QED
    BY <1>0, <2>1, <2>2, EsperaDespierta
<1>3. CASE ~ElimLibera /\ ~ElimDespierta
  <2>1. \A p \in PID : Lug(p)' = Lug(p)
    BY <1>0, <1>3, HuellaElim, LugIgual
  <2>2. CASE UNCHANGED estado
    BY <1>0, <2>1, <2>2, EsperaQuieta
  <2>3. CASE ElimNew \/ ElimExec \/ ElimVivo \/ ElimBorra
    <3>1. PICK q \in PID : q = actual[Elim]
      BY <1>0, <2>3 DEF ElimNew, ElimExec, ElimVivo, ElimBorra, ElimCaso,
         ManosElim
    <3>2. PICK f \in {"DELETED", "EXIT"} : estado' = [estado EXCEPT ![q] = f]
      BY <2>3, <3>1 DEF ElimNew, ElimExec, ElimVivo, ElimBorra, EnviarAExit
    <3>3. f \in Estados /\ f # "BLOCKED" /\ f \notin Vacios
      BY <3>2 DEF Estados, Vacios
    <3> QED
      BY <1>0, <2>1, <3>2, <3>3, EsperaQuieta
  <2> QED
    BY <1>3, <2>2, <2>3, HuellaElim
<1> QED
  BY <1>1, <1>2, <1>3

(* The planificador makes a process wait, or takes one from a queue.        *)
LEMMA EsperaPasoPlan ==
  ASSUME KInv, EstadosOK, OtroOK, SinRepetir, EsperaOK, DelPlan
  PROVE  EsperaOK'
<1>0. /\ ManosTypeOK /\ PCBTypeOK /\ ManosPlan /\ EstadoPlan /\ EstadoCpu
      /\ Plan \in Hilos /\ RecursosTypeOK /\ ColasIOOK
      /\ UNCHANGED <<pid_out, occupant>>
  BY HuellaPlan DEF KInv, EstadosOK, Hilos
<1>1. CASE PlanWait
  <2>1. PICK q \in PID : q = actual[Plan]
    BY <1>0, <1>1 DEF PlanWait, ManosPlan
  <2>2. PICK r \in Recursos : r = paquete.arg
    BY <1>0, <1>1 DEF PlanWait, ManosPlan
  <2>3. /\ estado[q] = "EXEC" /\ R!AsignarRecurso(q, r)
        /\ IF R!Agotado(r) THEN CambioEstado(q, "BLOCKED")
           ELSE UNCHANGED estado
        /\ UNCHANGED <<otro, cola_io>>
    BY <1>0, <1>1, <2>1, <2>2 DEF PlanWait, EstadoPlan, ConElPCB
  <2>4. ~Contains(cola_rec[r], q)
    BY <2>3, EnExecNoEspera
  <2>5. /\ \A s \in Recursos \ {r} : cola_rec'[s] = cola_rec[s]
        /\ ~R!Agotado(r) => cola_rec'[r] = cola_rec[r]
        /\ R!Agotado(r) =>
             \A p : Contains(cola_rec'[r], p) <=>
                     Contains(cola_rec[r], p) \/ p = q
    BY <1>0, <2>3, <2>4, AsignaAgrega
  <2>6. CASE R!Agotado(r)
    <3>1. Entra(q, <<"rec", r>>)
      BY <1>0, <2>3, <2>5, <2>6, EntraRec
    <3>2. Muda(q, "EXEC", "BLOCKED")
      BY <2>3, <2>6 DEF Muda
    <3> QED
      BY <1>0, <3>1, <3>2, EsperaEntra
  <2>7. CASE ~R!Agotado(r)
    <3>1. UNCHANGED <<cola_rec, estado>>
      <4>1. /\ cola_rec' = [s \in Recursos |-> cola_rec'[s]]
            /\ cola_rec = [s \in Recursos |-> cola_rec[s]]
        BY <1>0, <2>3 DEF R!AsignarRecurso, RecursosTypeOK, R!RecTypeOK,
               Recursos
      <4>2. \A s \in Recursos : cola_rec'[s] = cola_rec[s]
        BY <2>5, <2>7
      <4> QED
        BY <2>3, <2>7, <4>1, <4>2
    <3>2. \A p \in PID : Lug(p)' = Lug(p)
      BY <1>0, <2>3, <3>1, LugIgual
    <3> QED
      BY <1>0, <3>1, <3>2, EsperaQuieta
  <2> QED
    BY <2>6, <2>7
<1>2. CASE PlanSignal
  <2>1. /\ actual[Plan] \in PID /\ paquete.arg \in Recursos
        /\ estado[actual[Plan]] # "BLOCKED" /\ pc[Plan] # "despierta"
        /\ R!DesasignarRecurso(actual[Plan], paquete.arg)
        /\ UNCHANGED <<estado, cola_io>>
    BY <1>0, <1>2 DEF PlanSignal, ManosPlan, EstadoPlan, ConElPCB
  <2>2. IF R!DespiertaOtro(actual[Plan], paquete.arg)
        THEN otro' = [otro EXCEPT ![Plan] = Head(cola_rec[paquete.arg])]
        ELSE UNCHANGED otro
    BY <1>2 DEF PlanSignal
  <2> QED
    BY <1>0, <2>1, <2>2, EsperaDesasigna
<1>3. CASE PlanDespierta
  <2>1. /\ otro[Plan] \in PID /\ Desbloquear(otro[Plan])
        /\ otro' = [otro EXCEPT ![Plan] = Nadie]
        /\ UNCHANGED <<cola_rec, cola_io>>
    BY <1>0, <1>3 DEF PlanDespierta, ManosPlan
  <2>2. Sale(otro[Plan], <<"mano", Plan>>)
    BY <1>0, <2>1, SaleMano
  <2> QED
    BY <1>0, <2>1, <2>2, EsperaDespierta
<1>4. CASE PlanBloqueaIO
  <2>1. PICK q \in PID : q = actual[Plan]
    BY <1>0, <1>4 DEF PlanBloqueaIO, ManosPlan
  <2>2. PICK i \in Ifaces : i = paquete.arg
    BY <1>4 DEF PlanBloqueaIO, Listada
  <2>3. /\ estado[q] = "EXEC" /\ CambioEstado(q, "BLOCKED")
        /\ cola_io' = [cola_io EXCEPT ![i] = Append(@, q)]
        /\ UNCHANGED <<otro, cola_rec>>
    BY <1>0, <1>4, <2>1, <2>2 DEF PlanBloqueaIO, EstadoPlan, ConElPCB
  <2>4. ~Contains(cola_io[i], q)
    BY <2>3, EnExecNoEspera
  <2>5. /\ \A j \in Ifaces \ {i} : cola_io'[j] = cola_io[j]
        /\ \A p : Contains(cola_io'[i], p) <=> Contains(cola_io[i], p) \/ p = q
    <3>1. q \in PID \union {FinCola}
      OBVIOUS
    <3> QED
      BY <1>0, <2>3, <2>4, <3>1, BloqueaAgrega
  <2>6. Entra(q, <<"io", i>>)
    BY <1>0, <2>3, <2>5, EntraIO
  <2>7. Muda(q, "EXEC", "BLOCKED")
    BY <2>3 DEF Muda
  <2> QED
    BY <1>0, <2>6, <2>7, EsperaEntra
<1>5. ASSUME ~PlanWait, ~PlanSignal, ~PlanDespierta, ~PlanBloqueaIO
      PROVE  EsperaOK'
  <2>1. \A p \in PID : Lug(p)' = Lug(p)
    BY <1>0, <1>5, HuellaPlanColas, HuellaPlanManos, LugIgual
  <2>2. CASE UNCHANGED estado
    BY <1>0, <2>1, <2>2, EsperaQuieta
  <2>3. CASE PlanMatado \/ PlanInvalida \/ PlanTermina \/ PlanInterfazInvalida
               \/ (PlanLeeSyscall /\ PlanEnviarAExit("INVALID_RESOURCE"))
    <3>1. PICK q \in PID : q = actual[Plan]
      BY <1>0, <2>3 DEF PlanMatado, PlanInvalida, PlanTermina,
         PlanInterfazInvalida, PlanLeeSyscall, PlanProcesa, ManosPlan
    <3>2. estado' = [estado EXCEPT ![q] = "EXIT"]
      BY <2>3, <3>1 DEF PlanMatado, PlanInvalida, PlanTermina,
         PlanInterfazInvalida, PlanEnviarAExit, EnviarAExit
    <3>3. "EXIT" \in Estados \ ({"BLOCKED"} \union Vacios)
      BY DEF Estados, Vacios
    <3> QED
      BY <1>0, <2>1, <3>2, <3>3, EsperaQuieta
  <2>4. CASE PlanDespacha \/ PlanRedespacha \/ PlanDesaloja
    <3>1. PICK q \in PID : q = actual[Plan]
      BY <1>0, <2>4 DEF PlanDespacha, PlanRedespacha, PlanDesaloja, ManosPlan
    <3>2. estado[q] \in Vacios
      BY <2>4, <3>1 DEF PlanDespacha, PlanRedespacha, PlanDesaloja, Vacios
    <3>3. PICK f \in {"EXEC", "READY"} : estado' = [estado EXCEPT ![q] = f]
      BY <2>4, <3>1 DEF PlanDespacha, PlanRedespacha, PlanDesaloja,
         EjecutarProceso
    <3>4. f \in Estados /\ f # "BLOCKED"
      BY <3>3 DEF Estados
    <3> QED
      BY <1>0, <2>1, <3>2, <3>3, <3>4, EsperaQuieta
  <2>5. PlanLeeSyscall => UNCHANGED estado
                            \/ PlanEnviarAExit("INVALID_RESOURCE")
    BY DEF PlanLeeSyscall, PlanSinCambio
  <2> QED
    BY <1>5, <2>2, <2>3, <2>4, <2>5, HuellaPlan
<1> QED
  BY <1>1, <1>2, <1>3, <1>4, <1>5

(* IN and OUT take a process from the queue to the device and back.         *)
LEMMA EsperaPasoIfaces ==
  ASSUME KInv, EstadosOK, DispositivoOK, OutOK, SinRepetir, EsperaOK,
         UNCHANGED <<cola_rec, otro>>,
         NEW i \in Ifaces, InNext(i) \/ OutNext(i) \/ DispNext(i)
  PROVE  EsperaOK'
<1>0. /\ PCBTypeOK /\ InterfacesTypeOK /\ ColasIOOK /\ ManosOut
      /\ OcupacionExacta /\ EstadoDisp
  BY DEF KInv, EstadosOK
<1>1. CASE InIOFin(i)
  <2>1. /\ occupant[i] \in PID /\ Desbloquear(occupant[i])
        /\ occupant' = [occupant EXCEPT ![i] = Nadie]
        /\ UNCHANGED <<cola_io, pid_out>>
    BY <1>0, <1>1 DEF InIOFin, InterfacesTypeOK
  <2>2. \A p \in PID : EnColasIO(p)' = EnColasIO(p)
    BY <2>1, LugaresIguales
  <2>3. Sale(occupant[i], <<"disp", i>>)
    BY <1>0, <2>1, <2>2, SaleDisp
  <2> QED
    BY <1>0, <2>1, <2>3, EsperaDespierta
<1>2. CASE InDesconexion(i)
  <2>1. /\ pc_in[i] = "DESCONEXION" /\ FinCola \in PID \union {FinCola}
        /\ cola_io' = [cola_io EXCEPT ![i] = Append(@, FinCola)]
        /\ UNCHANGED pid_out
    BY <1>2 DEF InDesconexion
  <2>2. conectada[i]
    BY <2>1 DEF DispositivoOK, DesconectadoOK
  <2>3. ~Contains(cola_io[i], FinCola)
    BY <2>2 DEF OutOK, OutVivo, Contains
  <2>4. /\ \A j \in Ifaces \ {i} : cola_io'[j] = cola_io[j]
        /\ \A p : Contains(cola_io'[i], p) <=>
                    Contains(cola_io[i], p) \/ p = FinCola
    BY <1>0, <2>1, <2>3, BloqueaAgrega
  <2>5. ASSUME NEW p \in PID PROVE EnColasIO(p)' = EnColasIO(p)
    <3>1. EnColasIO(p)' = EnColasIO(p)
                            \union (IF p = FinCola THEN {<<"io", i>>} ELSE {})
      BY <2>4, IOAgrega
    <3> QED
      BY <3>1
  <2>6. CASE occupant[i] = Nadie
    <3>1. UNCHANGED <<estado, occupant>>
      BY <1>2, <2>6 DEF InDesconexion
    <3>2. \A p \in PID : Lug(p)' = Lug(p)
      BY <2>1, <2>5, <3>1, LugaresIguales DEF Lug
    <3> QED
      BY <1>0, <3>1, <3>2, EsperaQuieta
  <2>7. CASE occupant[i] # Nadie
    <3>1. /\ occupant[i] \in PID /\ estado[occupant[i]] = "BLOCKED"
          /\ estado' = [estado EXCEPT ![occupant[i]] = "EXIT"]
          /\ occupant' = [occupant EXCEPT ![i] = Nadie]
      BY <1>0, <1>2, <2>7 DEF InDesconexion, EnviarAExit, InterfacesTypeOK,
         EstadoDisp
    <3>2. Sale(occupant[i], <<"disp", i>>)
      BY <1>0, <2>1, <2>5, <3>1, SaleDisp
    <3>3. Muda(occupant[i], "BLOCKED", "EXIT")
      BY <3>1 DEF Muda
    <3>4. "BLOCKED" \in Estados /\ "EXIT" \in Estados
      BY DEF Estados
    <3> QED
      BY <1>0, <3>1, <3>2, <3>3, <3>4, EsperaSale
  <2> QED
    BY <2>6, <2>7
<1>3. CASE OutToma(i)
  <2>1. /\ pc_out[i] = "espera" /\ UNCHANGED <<estado, occupant>>
    BY <1>3 DEF OutToma, SinCambioPCB
  <2>2. pid_out[i] = Nadie
    BY <2>1 DEF OutOK, OutVivo
  <2>3. /\ \A j \in Ifaces \ {i} : cola_io'[j] = cola_io[j]
        /\ Contains(cola_io[i], Head(cola_io[i]))
        /\ \A p : Contains(cola_io'[i], p) <=>
                    Contains(cola_io[i], p) /\ p # Head(cola_io[i])
    BY <1>0, <1>3, TomaQuita
  <2>4. CASE Head(cola_io[i]) = FinCola
    <3>1. ASSUME NEW p \in PID PROVE EnColasIO(p)' = EnColasIO(p)
      <4>1. \A x : Contains(cola_io'[i], x) <=>
                    Contains(cola_io[i], x) /\ x # FinCola
        BY <2>3, <2>4
      <4>2. EnColasIO(p)' = EnColasIO(p) \
              (IF p = FinCola THEN {<<"io", i>>} ELSE {})
        BY <2>3, <4>1, IOQuita
      <4> QED
        BY <4>2
    <3>2. UNCHANGED pid_out
      BY <1>3, <2>4 DEF OutToma
    <3>3. \A p \in PID : Lug(p)' = Lug(p)
      BY <2>1, <3>1, <3>2, LugaresIguales DEF Lug
    <3> QED
      BY <1>0, <2>1, <3>3, EsperaQuieta
  <2>5. CASE Head(cola_io[i]) # FinCola
    <3>1. Head(cola_io[i]) \in PID \union {FinCola}
      BY <1>0, <1>3, CabezasSon DEF OutToma, KInv, Cabezas
    <3>2. PICK q \in PID : q = Head(cola_io[i])
      BY <2>5, <3>1
    <3>3. pid_out' = [pid_out EXCEPT ![i] = q]
      BY <1>3, <2>5, <3>2 DEF OutToma
    <3>4. Mueve(q, <<"io", i>>, <<"out", i>>)
      BY <1>0, <2>1, <2>2, <2>3, <3>2, <3>3, MueveIOOut
    <3> QED
      BY <2>1, <3>4, EsperaMueve
  <2> QED
    BY <2>4, <2>5
<1>4. CASE OutEntrega(i)
  <2>1. PICK q \in PID : q = pid_out[i]
    BY <1>0, <1>4 DEF OutEntrega, OutConPCB, ManosOut
  <2>2. /\ pc_out[i] = "mx_PCB" /\ UNCHANGED <<estado, cola_io>>
        /\ pid_out' = [pid_out EXCEPT ![i] = Nadie]
        /\ occupant' = [occupant EXCEPT ![i] = q]
    BY <1>4, <2>1 DEF OutEntrega, OutConPCB
  <2>3. occupant[i] = Nadie
    BY <1>0, <2>2, SinOcupante
  <2>4. Mueve(q, <<"out", i>>, <<"disp", i>>)
    BY <1>0, <2>1, <2>2, <2>3, MueveOutDisp
  <2> QED
    BY <2>2, <2>4, EsperaMueve
<1>5. CASE OutRechaza(i)
  <2>1. PICK q \in PID : q = pid_out[i]
    BY <1>0, <1>5 DEF OutRechaza, OutConPCB, ManosOut
  <2>2. /\ Muda(q, "BLOCKED", "EXIT") /\ UNCHANGED <<cola_io, occupant>>
        /\ pid_out' = [pid_out EXCEPT ![i] = Nadie]
    BY <1>5, <2>1 DEF OutRechaza, OutConPCB, EnviarAExit, Muda
  <2>3. Sale(q, <<"out", i>>)
    BY <1>0, <2>1, <2>2, SaleOut
  <2>4. "BLOCKED" \in Estados /\ "EXIT" \in Estados
    BY DEF Estados
  <2> QED
    BY <1>0, <2>2, <2>3, <2>4, EsperaSale
<1>6. CASE OutSaltea(i)
  <2>1. PICK q \in PID : q = pid_out[i]
    BY <1>0, <1>6 DEF OutSaltea, OutConPCB, ManosOut
  <2>2. /\ estado[q] # "BLOCKED" /\ UNCHANGED <<estado, cola_io, occupant>>
        /\ pid_out' = [pid_out EXCEPT ![i] = Nadie]
    BY <1>6, <2>1 DEF OutSaltea, OutConPCB
  <2>3. Sale(q, <<"out", i>>)
    BY <1>0, <2>1, <2>2, SaleOut
  <2> QED
    BY <1>0, <2>2, <2>3, EsperaSale
<1>7. CASE InRecibe(i) \/ OutOcupa(i) \/ DispNext(i)
  <2>1. UNCHANGED <<estado, cola_io, pid_out, occupant>>
    BY <1>7 DEF InRecibe, OutOcupa, DispNext, Conecta, DispToma, DispTermina,
       DispCae, SinCambioPCB
  <2>2. \A p \in PID : Lug(p)' = Lug(p)
    BY <2>1, LugIgual
  <2> QED
    BY <1>0, <2>1, <2>2, EsperaQuieta
<1> QED
  BY <1>1, <1>2, <1>3, <1>4, <1>5, <1>6, <1>7 DEF InNext, OutNext

(* Every step keeps each process where somebody will look for it.           *)
LEMMA EsperaPaso ==
  ASSUME KInv, EstadosOK, DispositivoOK, OtroOK, OutOK, SinRepetir, EsperaOK,
         [Next]_vars
  PROVE  EsperaOK'
<1>0. PCBTypeOK /\ EstadoCrear
  BY DEF KInv, EstadosOK
<1>1. CASE DeIfaces
  BY <1>1, HuellaIfaces, EsperaPasoIfaces DEF DeIfaces, InterfacesNext
<1>2. CASE DelCrear
  <2>1. \A p \in PID : Lug(p)' = Lug(p)
    BY <1>2, HuellaCrear, LugIgual
  <2>2. UNCHANGED estado \/ (actual[Crear] \in PID
                               /\ Muda(actual[Crear], "NEW", "READY"))
    BY <1>0, <1>2, MudaCrear
  <2>3. "READY" \in Estados /\ "READY" # "BLOCKED" /\ "NEW" \in Vacios
    BY DEF Estados, Vacios
  <2> QED
    BY <1>0, <2>1, <2>2, <2>3, EsperaQuieta DEF Muda
<1>3. CASE DeConsola
  <2>1. \A p \in PID : Lug(p)' = Lug(p)
    BY <1>3, HuellaConsola, LugIgual
  <2>2. UNCHANGED estado \/ \E q \in PID : Muda(q, "INEXISTENTE", "NEW")
    BY <1>3, MudaConsola
  <2>3. "NEW" \in Estados /\ "NEW" # "BLOCKED" /\ "INEXISTENTE" \in Vacios
    BY DEF Estados, Vacios
  <2> QED
    BY <1>0, <2>1, <2>2, <2>3, EsperaQuieta DEF Muda
<1>4. CASE DelReloj \/ DeCpu \/ UNCHANGED vars
  <2>1. UNCHANGED <<estado, cola_rec, otro, cola_io, pid_out, occupant>>
    BY <1>4, HuellaReloj, HuellaCpu DEF vars, kernel_vars, vKernelAjeno
  <2>2. \A p \in PID : Lug(p)' = Lug(p)
    BY <2>1, LugIgual
  <2> QED
    BY <1>0, <2>1, <2>2, EsperaQuieta
<1> QED
  BY <1>1, <1>2, <1>3, <1>4, EsperaPasoElim, EsperaPasoPlan DEF Next

(* What keeps every process in sight of some thread.                        *)
OlvidoInv ==
    /\ EstadosInv /\ DispositivoOK /\ NewAtendido /\ SalidaOK
    /\ OtroOK /\ OutOK /\ SinRepetir /\ EsperaOK

(* Nobody is in an empty queue. *)
LEMMA VacioHechos ==
  Len(<<>>) = 0 /\ IsInjective(<<>>) /\ \A p : ~Contains(<<>>, p)
<1> DEFINE s == <<>>
<1>1. s \in Seq(PID) /\ Len(s) = 0 /\ 1..Len(s) = {}
  OBVIOUS
<1> HIDE DEF s
<1>2. IsInjective(s) /\ \A p : ~Contains(s, p)
  BY <1>1, SinRepetidosDef DEF Contains
<1> QED
  BY <1>1, <1>2 DEF s

(* At the start nobody waits and nobody ends. *)
LEMMA OlvidoInit == Init => OlvidoInv
<1> SUFFICES ASSUME Init PROVE OlvidoInv
  OBVIOUS
<1>1. /\ \A p \in PID : estado[p] = "INEXISTENTE"
      /\ \A r \in Recursos : cola_rec[r] = <<>>
      /\ \A h \in Hilos : otro[h] = Nadie
      /\ \A i \in Ifaces : /\ cola_io[i] = <<>> /\ pid_out[i] = Nadie
                           /\ occupant[i] = Nadie /\ pc_out[i] = "fuera"
                           /\ ~conectada[i]
  BY DEF Init, KernelInit, R!RecInit, Recursos, InterfacesInit
<1>2. Len(<<>>) = 0 /\ IsInjective(<<>>) /\ \A p : ~Contains(<<>>, p)
  BY VacioHechos
<1>3. SinRepetir /\ OtroOK /\ OutOK
  BY <1>1, <1>2 DEF SinRepetir, OtroOK, OutOK, OutVivo
<1>4. EsperaOK
  <2> SUFFICES ASSUME NEW p \in PID PROVE Lug(p) = {} /\ estado[p] # "BLOCKED"
    BY DEF EsperaOK, Esp
  <2> QED
    BY <1>1, <1>2 DEF Lug, EnRecursos, EnManosDe, EnColasIO, EnOut,
       EnDispositivo
<1> QED
  BY <1>3, <1>4, KernelInitInv, MutexInit, EstadosInit, ReadyInit,
     DispositivoInit, NewInit, SalidaInit DEF EstadosInv, OlvidoInv

(* Every step keeps it. *)
LEMMA OlvidoPaso == OlvidoInv /\ [Next]_vars => OlvidoInv'
<1> SUFFICES ASSUME OlvidoInv, [Next]_vars PROVE OlvidoInv'
  OBVIOUS
<1>1. /\ EstadosInv /\ KInv /\ MutexOK /\ EstadosOK /\ EstadoPlan
      /\ DispositivoOK /\ NewAtendido /\ SalidaOK
      /\ OtroOK /\ OutOK /\ SinRepetir /\ EsperaOK
  BY DEF OlvidoInv, EstadosInv, EstadosOK
<1>2. EstadosInv' /\ DispositivoOK' /\ OtroOK' /\ OutOK'
  BY <1>1, EstadosInvPaso, DispositivoPaso, OtroPaso, OutPaso
<1>3. NewAtendido' /\ SalidaOK'
  BY <1>1, NewPaso, SalidaPasoElim, SalidaPasoPlan, SalidaPasoResto
<1>4. SinRepetir' /\ EsperaOK'
  BY <1>1, RepetirPaso, EsperaPaso
<1> QED
  BY <1>2, <1>3, <1>4 DEF OlvidoInv

(* Where a BLOCKED process is counted once, over the five kinds of place.   *)
LEMMA UnSoloLugar ==
  ASSUME EsperaOK, NEW p \in PID, estado[p] = "BLOCKED"
  PROVE  Cardinality({r \in Recursos : Contains(cola_rec[r], p)})
           + Cardinality({h \in Hilos : otro[h] = p})
           + Cardinality({i \in Ifaces : Contains(cola_io[i], p)})
           + Cardinality({i \in Ifaces : pid_out[i] = p})
           + Cardinality({i \in Ifaces : occupant[i] = p}) = 1
<1> DEFINE A == {r \in Recursos : Contains(cola_rec[r], p)}
           B == {h \in Hilos : otro[h] = p}
           C == {i \in Ifaces : Contains(cola_io[i], p)}
           D == {i \in Ifaces : pid_out[i] = p}
           E == {i \in Ifaces : occupant[i] = p}
<1>1. PICK a \in Lug(p) : \A b \in Lug(p) : b = a
  BY DEF EsperaOK, Esp
<1>2. /\ \A x : x \in A <=> <<"rec", x>> \in EnRecursos(p)
      /\ \A x : x \in B <=> <<"mano", x>> \in EnManosDe(p)
      /\ \A x : x \in C <=> <<"io", x>> \in EnColasIO(p)
      /\ \A x : x \in D <=> <<"out", x>> \in EnOut(p)
      /\ \A x : x \in E <=> <<"disp", x>> \in EnDispositivo(p)
  BY DEF EnRecursos, EnManosDe, EnColasIO, EnOut, EnDispositivo
<1>3. /\ \A x : x \in A => <<"rec", x>> = a
      /\ \A x : x \in B => <<"mano", x>> = a
      /\ \A x : x \in C => <<"io", x>> = a
      /\ \A x : x \in D => <<"out", x>> = a
      /\ \A x : x \in E => <<"disp", x>> = a
  BY <1>1, <1>2 DEF Lug
<1>4. \/ \E x : x \in A
      \/ \E x : x \in B
      \/ \E x : x \in C
      \/ \E x : x \in D
      \/ \E x : x \in E
  BY <1>1 DEF Lug, EnRecursos, EnManosDe, EnColasIO, EnOut, EnDispositivo
<1> HIDE DEF A, B, C, D, E
<1>5. Cardinality({}) = 0 /\ \A x : Cardinality({x}) = 1
  BY FS_EmptySet, FS_Singleton
<1> DEFINE Suma == Cardinality(A) + Cardinality(B) + Cardinality(C)
                     + Cardinality(D) + Cardinality(E)
<1>6. ASSUME NEW x, x \in A PROVE Suma = 1
  <2>1. A = {x} /\ B = {} /\ C = {} /\ D = {} /\ E = {}
    BY <1>3, <1>6
  <2>2. /\ Cardinality(A) = 1
        /\ Cardinality(B) = 0 /\ Cardinality(C) = 0
        /\ Cardinality(D) = 0 /\ Cardinality(E) = 0
    BY <1>5, <2>1
  <2> QED
    BY <2>2
<1>7. ASSUME NEW x, x \in B PROVE Suma = 1
  <2>1. A = {} /\ B = {x} /\ C = {} /\ D = {} /\ E = {}
    BY <1>3, <1>7
  <2>2. /\ Cardinality(B) = 1
        /\ Cardinality(A) = 0 /\ Cardinality(C) = 0
        /\ Cardinality(D) = 0 /\ Cardinality(E) = 0
    BY <1>5, <2>1
  <2> QED
    BY <2>2
<1>8. ASSUME NEW x, x \in C PROVE Suma = 1
  <2>1. A = {} /\ B = {} /\ C = {x} /\ D = {} /\ E = {}
    BY <1>3, <1>8
  <2>2. /\ Cardinality(C) = 1
        /\ Cardinality(A) = 0 /\ Cardinality(B) = 0
        /\ Cardinality(D) = 0 /\ Cardinality(E) = 0
    BY <1>5, <2>1
  <2> QED
    BY <2>2
<1>9. ASSUME NEW x, x \in D PROVE Suma = 1
  <2>1. A = {} /\ B = {} /\ C = {} /\ D = {x} /\ E = {}
    BY <1>3, <1>9
  <2>2. /\ Cardinality(D) = 1
        /\ Cardinality(A) = 0 /\ Cardinality(B) = 0
        /\ Cardinality(C) = 0 /\ Cardinality(E) = 0
    BY <1>5, <2>1
  <2> QED
    BY <2>2
<1>10. ASSUME NEW x, x \in E PROVE Suma = 1
  <2>1. A = {} /\ B = {} /\ C = {} /\ D = {} /\ E = {x}
    BY <1>3, <1>10
  <2>2. /\ Cardinality(E) = 1
        /\ Cardinality(A) = 0 /\ Cardinality(B) = 0 /\ Cardinality(C) = 0
        /\ Cardinality(D) = 0
    BY <1>5, <2>1
  <2> QED
    BY <2>2
<1>11. Suma = 1
  <2> HIDE DEF Suma
  <2> QED
    BY <1>4, <1>6, <1>7, <1>8, <1>9, <1>10
<1> QED
  BY <1>11 DEF A, B, C, D, E

(***************************************************************************)
(* No process that was created and not deleted is left where no thread     *)
(* looks, for any number of processes, resources, interfaces and commands: *)
(* a NEW one is in cola_new or with crear_proceso, a READY one once in a   *)
(* ready queue or with the planificador, one in EXEC with the planificador *)
(* until it is let go of, a BLOCKED one in one place that wakes it, one in *)
(* EXIT on its way through cola_exit (largo_plazo.c:3-47, :65;             *)
(* corto_plazo.c:31-55, :73; recursos.c:38, :66; interfaces.c:63, :101).   *)
(***************************************************************************)
THEOREM NadieOlvidadoSiempre == Spec => []NadieOlvidado
<1>1. OlvidoInv => NadieOlvidado
  <2> SUFFICES ASSUME OlvidoInv PROVE NadieOlvidado
    OBVIOUS
  <2>1. /\ EsperaOK /\ OutOK /\ NewAtendido /\ SalidaOK /\ ReadyOK
        /\ UnoEnExec /\ Plan \in Hilos
    BY DEF OlvidoInv, EstadosInv, EstadosOK, Hilos
  <2>2. BloqueadoAtendido
    <3> SUFFICES ASSUME NEW p \in PID, estado[p] = "BLOCKED"
                 PROVE Esperas(p) = 1
      BY DEF BloqueadoAtendido
    <3>1. {i \in Ifaces : Contains(cola_io[i], p) /\ pc_out[i] # "fuera"} =
            {i \in Ifaces : Contains(cola_io[i], p)}
      BY <2>1, VacioHechos DEF OutOK, OutVivo, Contains
    <3>2. {r \in Recursos : R!EnCola(p, r)} =
            {r \in Recursos : Contains(cola_rec[r], p)}
      BY MismasColas DEF R!EnCola
    <3> QED
      BY <2>1, <3>1, <3>2, UnSoloLugar DEF Esperas
  <2>3. ExitAtendido
    BY <2>1 DEF ExitAtendido, SalidaOK, EnSalida, EnElim, EnElCpu, EnLaCpu
  <2>4. ReadyAtendido /\ ExecAtendido
    BY <2>1 DEF ReadyAtendido, ExecAtendido, ReadyOK, Rdy, UnoEnExec, EnLaCpu,
       ConElPCB
  <2> QED
    BY <2>1, <2>2, <2>3, <2>4 DEF NadieOlvidado
<1>2. OlvidoInv /\ [Next]_vars => OlvidoInv'
  BY OlvidoPaso
<1> QED
  BY <1>1, <1>2, OlvidoInit, PTL DEF Spec

-----------------------------------------------------------------------------
(***************************************************************************)
(* The loop of eliminar_proceso releases no more than the process has: the *)
(* count it read once, under mx_recurso, is not stale, since nobody else   *)
(* releases for a process in EXIT.                                         *)
(***************************************************************************)
LiberaOK ==
    pc[Elim] \in {"libera", "despierta"} =>
        veces_elim <= asignados[actual[Elim]][idx_elim]

(* What WAIT and SIGNAL do to the assignments. *)
LEMMA AsignadosHechos ==
  ASSUME RecursosTypeOK, NEW q \in PID, NEW r \in Recursos
  PROVE  /\ R!AsignarRecurso(q, r) => \A p \in PID, s \in Recursos :
              asignados'[p][s] >= asignados[p][s]
         /\ R!DesasignarRecurso(q, r) =>
              /\ \A p \in PID \ {q}, s \in Recursos :
                   asignados'[p][s] = asignados[p][s]
              /\ asignados'[q][r] = IF asignados[q][r] > 0
                                    THEN asignados[q][r] - 1 ELSE 0
<1>1. asignados \in [PID -> [Recursos -> Nat]]
  BY DEF RecursosTypeOK, R!RecTypeOK, Recursos
<1>2. ASSUME R!AsignarRecurso(q, r), NEW p \in PID, NEW s \in Recursos
      PROVE  asignados'[p][s] >= asignados[p][s]
  <2>1. asignados[p][s] \in Nat
    BY <1>1
  <2>2. asignados'[p][s] = asignados[p][s]
          \/ asignados'[p][s] = asignados[p][s] + 1
    BY <1>1, <1>2 DEF R!AsignarRecurso
  <2> QED
    BY <2>1, <2>2
<1>3. ASSUME R!DesasignarRecurso(q, r)
      PROVE  /\ \A p \in PID \ {q}, s \in Recursos :
                  asignados'[p][s] = asignados[p][s]
             /\ asignados'[q][r] = IF asignados[q][r] > 0
                                   THEN asignados[q][r] - 1 ELSE 0
  <2>1. asignados[q][r] \in Nat
    BY <1>1
  <2> QED
    BY <1>1, <1>3, <2>1 DEF R!DesasignarRecurso
<1> QED
  BY <1>2, <1>3

(* Every step keeps the count of the release loop.                         *)
LEMMA LiberaPaso ==
  ASSUME KInv, EstadosOK, LiberaOK, [Next]_vars
  PROVE  LiberaOK'
<1>0. /\ PcTypeOK /\ ManosTypeOK /\ ManosElim /\ ManosPlan /\ RecursosTypeOK
      /\ EstadoElim /\ EstadoPlan /\ Elim \in Hilos
      /\ asignados \in [PID -> [Recursos -> Nat]] /\ veces_elim \in Nat
  BY DEF KInv, EstadosOK, Hilos, RecursosTypeOK, R!RecTypeOK, Recursos
<1>1. CASE DelElim
  <2>1. CASE ElimTomaRecurso
    <3>1. /\ veces_elim' = asignados[actual[Elim]][idx_elim]
          /\ UNCHANGED <<actual, idx_elim, asignados>>
          /\ actual[Elim] \in PID /\ idx_elim \in Recursos
      BY <1>0, <2>1 DEF ElimTomaRecurso, ManosElim
    <3>2. asignados[actual[Elim]][idx_elim] \in Nat
      BY <1>0, <3>1
    <3> QED
      BY <3>1, <3>2 DEF LiberaOK
  <2>2. CASE ElimLibera
    <3>1. /\ pc[Elim] = "libera" /\ veces_elim > 0
          /\ veces_elim' = veces_elim - 1 /\ UNCHANGED <<actual, idx_elim>>
          /\ actual[Elim] \in PID /\ idx_elim \in Recursos
          /\ R!DesasignarRecurso(actual[Elim], idx_elim)
      BY <1>0, <2>2 DEF ElimLibera, ManosElim
    <3>2. PICK q \in PID, r \in Recursos : q = actual[Elim] /\ r = idx_elim
      BY <3>1
    <3>3. /\ veces_elim <= asignados[q][r] /\ asignados[q][r] \in Nat
          /\ asignados'[q][r] = IF asignados[q][r] > 0
                                THEN asignados[q][r] - 1 ELSE 0
      BY <1>0, <3>1, <3>2, AsignadosHechos DEF LiberaOK
    <3> QED
      BY <1>0, <3>1, <3>2, <3>3 DEF LiberaOK
  <2>3. CASE ElimDespierta
    BY <1>0, <2>3 DEF ElimDespierta, LiberaOK
  <2>4. CASE ~ElimTomaRecurso /\ ~ElimLibera /\ ~ElimDespierta
    <3>1. pc'[Elim] \notin {"libera", "despierta"}
      BY <1>0, <1>1, <2>4 DEF DelElim, ElimNext, ElimToma, ElimNew, ElimExec,
         ElimVivo, ElimNada, ElimExit, ElimSuelta, ElimBorra, ElimCaso,
         PcTypeOK
    <3> QED
      BY <3>1 DEF LiberaOK
  <2> QED
    BY <2>1, <2>2, <2>3, <2>4
<1>2. CASE DelPlan
  <2> SUFFICES ASSUME pc'[Elim] \in {"libera", "despierta"}
               PROVE  veces_elim' <= asignados'[actual'[Elim]][idx_elim']
    BY DEF LiberaOK
  <2>1. /\ pc'[Elim] = pc[Elim] /\ actual'[Elim] = actual[Elim]
        /\ veces_elim' = veces_elim /\ idx_elim' = idx_elim
    BY <1>0, <1>2, OtrosHilosPlan, HuellaPlan DEF Hilos
  <2>2. PICK p \in PID, s \in Recursos : p = actual[Elim] /\ s = idx_elim
    BY <1>0, <2>1 DEF ManosElim
  <2>3. /\ veces_elim <= asignados[p][s] /\ asignados[p][s] \in Nat
        /\ estado[p] = "EXIT"
    BY <1>0, <2>1, <2>2 DEF LiberaOK, EstadoElim
  <2>4. CASE PlanWait
    <3>1. /\ actual[Plan] \in PID /\ paquete.arg \in Recursos
          /\ R!AsignarRecurso(actual[Plan], paquete.arg)
      BY <1>0, <2>4 DEF PlanWait, ManosPlan
    <3>2. asignados'[p][s] >= asignados[p][s]
      BY <1>0, <3>1, AsignadosHechos
    <3>3. asignados'[p][s] \in Nat
      BY <1>0, <3>1 DEF R!AsignarRecurso
    <3> QED
      BY <1>0, <2>1, <2>2, <2>3, <3>2, <3>3
  <2>5. CASE PlanSignal
    <3>1. /\ actual[Plan] \in PID /\ paquete.arg \in Recursos
          /\ estado[actual[Plan]] = "EXEC"
          /\ R!DesasignarRecurso(actual[Plan], paquete.arg)
      BY <1>0, <2>5 DEF PlanSignal, ManosPlan, EstadoPlan, ConElPCB
    <3>2. p # actual[Plan]
      BY <2>3, <3>1
    <3>3. asignados'[p][s] = asignados[p][s]
      BY <1>0, <3>1, <3>2, AsignadosHechos
    <3> QED
      BY <2>1, <2>2, <2>3, <3>3
  <2>6. CASE UNCHANGED vRec
    BY <2>1, <2>2, <2>3, <2>6
  <2> QED
    BY <1>2, <2>4, <2>5, <2>6, HuellaPlanColas
<1>3. CASE ~DelElim /\ ~DelPlan
  <2>1. UNCHANGED vRec
    BY <1>3, HuellaCrear, HuellaReloj, HuellaConsola, HuellaIfaces, HuellaCpu
       DEF Next, vars, kernel_vars, vKernelAjeno
  <2> QED
    BY <1>0, <1>3, <2>1, OtrosHilos DEF LiberaOK
<1> QED
  BY <1>1, <1>2, <1>3

(* Who takes part in a step of the resources, and with what right.         *)
LEMMA RecursosUsados ==
  ASSUME OlvidoInv, LiberaOK, [Next]_vars
  PROVE  [R!RecPaso]_(R!rec_vars)
<1>0. /\ ManosTypeOK /\ ManosElim /\ ManosPlan /\ EstadoPlan /\ RecursosTypeOK
      /\ EsperaOK /\ veces_elim \in Nat
      /\ asignados \in [PID -> [Recursos -> Nat]]
  BY DEF OlvidoInv, EstadosInv, KInv, EstadosOK, RecursosTypeOK, R!RecTypeOK,
     Recursos
<1>1. ASSUME NEW q \in PID, estado[q] = "EXEC" PROVE R!Libre(q)
  <2>1. \A r \in Recursos : ~Contains(cola_rec[r], q)
    BY <1>0, <1>1, EnExecNoEspera
  <2>2. \A r \in Recursos : ~R!EnCola(q, r)
    BY <2>1, MismasColas DEF R!EnCola
  <2> QED
    BY <2>2 DEF R!Libre, Recursos
<1>2. ASSUME NEW q \in PID, NEW r \in Recursos,
             R!Wait(q, r) \/ R!Signal(q, r) \/ R!Libera(q, r)
      PROVE  R!RecPaso
  BY <1>2 DEF R!RecPaso, Recursos
<1>3. CASE ElimLibera
  <2>1. PICK q \in PID, r \in Recursos : q = actual[Elim] /\ r = idx_elim
    BY <1>0, <1>3 DEF ElimLibera, ManosElim
  <2>2. /\ veces_elim > 0 /\ veces_elim <= asignados[q][r]
        /\ R!DesasignarRecurso(q, r)
    BY <1>3, <2>1 DEF ElimLibera, LiberaOK
  <2>3. asignados[q][r] > 0
    BY <1>0, <2>2
  <2>4. R!Libera(q, r)
    BY <2>2, <2>3 DEF R!Libera
  <2> QED
    BY <1>2, <2>4
<1>4. CASE PlanWait
  <2>1. PICK q \in PID, r \in Recursos : q = actual[Plan] /\ r = paquete.arg
    BY <1>0, <1>4 DEF PlanWait, ManosPlan
  <2>2. estado[q] = "EXEC" /\ R!AsignarRecurso(q, r)
    BY <1>0, <1>4, <2>1 DEF PlanWait, EstadoPlan, ConElPCB
  <2>3. R!Wait(q, r)
    BY <1>1, <2>2 DEF R!Wait
  <2> QED
    BY <1>2, <2>3
<1>5. CASE PlanSignal
  <2>1. PICK q \in PID, r \in Recursos : q = actual[Plan] /\ r = paquete.arg
    BY <1>0, <1>5 DEF PlanSignal, ManosPlan
  <2>2. estado[q] = "EXEC" /\ R!DesasignarRecurso(q, r)
    BY <1>0, <1>5, <2>1 DEF PlanSignal, EstadoPlan, ConElPCB
  <2>3. R!Signal(q, r)
    BY <1>1, <2>2 DEF R!Signal
  <2> QED
    BY <1>2, <2>3
<1>6. CASE UNCHANGED vRec
  BY <1>6 DEF R!rec_vars
<1>7. ElimLibera \/ PlanWait \/ PlanSignal \/ UNCHANGED vRec
  BY HuellaCrear, HuellaElim, HuellaPlanColas, HuellaReloj, HuellaConsola,
     HuellaIfaces, HuellaCpu DEF Next, vars, kernel_vars, vKernelAjeno
<1> QED
  BY <1>3, <1>4, <1>5, <1>6, <1>7

(***************************************************************************)
(* The kernel uses recursos.c as Recursos says (RecPaso): only a process   *)
(* in no queue makes WAIT and SIGNAL, and eliminar_proceso releases only   *)
(* what the process was assigned.  What is proved of Recursos, that a      *)
(* queue_pop never finds the queue empty and that whoever waits is in it   *)
(* once and assigned, is therefore true of the kernel, kills included.     *)
(***************************************************************************)
THEOREM UsaRecursosSiempre == Spec => UsaRecursos
<1>1. Init => R!RecInit /\ OlvidoInv /\ LiberaOK
  BY OlvidoInit DEF Init, KernelInit, LiberaOK, Hilos
<1>2. OlvidoInv /\ LiberaOK /\ [Next]_vars =>
        LiberaOK' /\ OlvidoInv' /\ [R!RecPaso]_(R!rec_vars)
  BY OlvidoPaso, LiberaPaso, RecursosUsados DEF OlvidoInv, EstadosInv
<1> QED
  BY <1>1, <1>2, PTL DEF Spec, UsaRecursos

-----------------------------------------------------------------------------
(* Whoever gives a slot back has one: the counter is not 0. *)
LEMMA PlazaOcupada ==
  ASSUME GradoOK, M!ProgTypeOK,
         admision = "admitido"
           \/ \E q \in PID : estado[q] \in Plazas
  PROVE  prog_running > 0
<1>0. /\ IsFiniteSet(ConPlaza) /\ Cardinality(ConPlaza) \in Nat
      /\ prog_running = Cardinality(ConPlaza) + Como(admision = "admitido")
  BY FS_CardinalityType DEF GradoOK, GradoExacto
<1>1. CASE admision = "admitido"
  BY <1>0, <1>1
<1>2. CASE \E q \in PID : estado[q] \in Plazas
  <2>1. ConPlaza # {}
    BY <1>2 DEF ConPlaza, Plazas
  <2>2. Cardinality(ConPlaza) # 0
    BY <1>0, <2>1, FS_EmptySet
  <2> QED
    BY <1>0, <2>2
<1> QED
  BY <1>1, <1>2

(* Each step of the kernel that touches prog is one its callers may take.  *)
LEMMA MultiprogramacionUsada ==
  ASSUME CicloInv, GradoOK, [Next]_vars
  PROVE  [M!ProgPaso]_(M!prog_vars)
<1>0. /\ M!ProgTypeOK /\ ManosCrear /\ ManosElim /\ EstadoElim /\ AdmisionOK
  BY DEF CicloInv, EstadosInv, KInv, EstadosOK
<1>1. CASE CrearDespierta \/ CrearEnAddProg \/ CrearAdmite
  BY <1>1 DEF CrearDespierta, CrearEnAddProg, CrearAdmite, M!ProgPaso,
     M!Pedido
<1>2. CASE CrearDescarta
  <2>1. admision = "admitido" /\ M!RemoveProg /\ admision' = "fuera"
    BY <1>0, <1>2 DEF CrearDescarta, AdmisionOK
  <2>2. prog_running > 0
    BY <1>0, <2>1, PlazaOcupada
  <2>3. M!CrearSale
    BY <2>1, <2>2 DEF M!CrearSale
  <2> QED
    BY <2>3 DEF M!ProgPaso
<1>3. CASE ElimBorra
  <2>1. PICK q \in PID : q = actual[Elim]
    BY <1>0, <1>3 DEF ElimBorra, ManosElim
  <2>2. estado[q] \in Plazas /\ M!RemoveProg /\ UNCHANGED admision
    BY <1>0, <1>3, <2>1 DEF ElimBorra, EstadoElim, Plazas
  <2>3. prog_running > 0
    BY <1>0, <2>2, PlazaOcupada
  <2>4. M!Sale
    BY <2>2, <2>3 DEF M!Sale
  <2> QED
    BY <2>4 DEF M!ProgPaso
<1>4. CASE \E valor \in Grados : Multiprog(valor)
  BY <1>4 DEF Multiprog, M!ProgPaso, M!Consola
<1>5. CASE UNCHANGED vProg
  BY <1>5 DEF M!prog_vars
<1>6. DelCrear => \/ CrearDespierta \/ CrearEnAddProg \/ CrearAdmite
                  \/ CrearDescarta \/ UNCHANGED vProg
  BY DEF DelCrear, CrearNext, CrearToma, CrearPide
<1> QED
  BY <1>1, <1>2, <1>3, <1>4, <1>5, <1>6, HuellaElim, HuellaPlan, HuellaReloj,
     HuellaConsola, HuellaIfaces, HuellaCpu
     DEF Next, vars, kernel_vars, vKernelAjeno

(***************************************************************************)
(* The kernel uses multiprogramacion.c as Multiprogramacion says           *)
(* (ProgPaso): it calls remove_prog once per slot taken, never for a       *)
(* process without one.  So what is proved of Multiprogramacion, that no   *)
(* free slot is lost and the degree is exceeded only by lowering it, is    *)
(* true of the kernel, with at most one FINALIZAR_PROCESO per process.     *)
(***************************************************************************)
THEOREM UsaMultiprogramacionSiempre ==
  ASSUME UnFin
  PROVE  Spec => UsaMultiprogramacion
<1>1. Init => M!ProgInit
  BY DEF Init, KernelInit
<1>2. CicloInv /\ GradoOK /\ [Next]_vars =>
        GradoOK' /\ [M!ProgPaso]_(M!prog_vars)
  BY GradoPaso, MultiprogramacionUsada
<1> QED
  BY <1>1, <1>2, CicloInvSiempre, GradoInit, PTL DEF Spec, UsaMultiprogramacion

-----------------------------------------------------------------------------
(***************************************************************************)
(* The dispatch socket, when the console ends no process.  While it waits  *)
(* (recibe) the planificador is owed exactly one answer; afterwards the    *)
(* only packet left in the socket is the system call that goes with it.    *)
(***************************************************************************)
(* The CPU has no process. *)
CpuOciosa ==
    cpu_pc \in {"tope", "recibe"} /\ cpu_pid = Nadie /\ cpu_io = SinPaquete

(* The n packets at the front of s are system calls, and the only ones. *)
SoloLlamadas(s, n) ==
    Len(s) = n /\ \A k \in 1..n : s[k].op # "DEVOLUCION_PCB"

(* A process comes back alone, or with the system call it asks for. *)
Acompanan(motivo) == IF motivo = "CPU_IO" THEN 1 ELSE 0

EnViaje ==
    /\ Len(a_cpu) = 1 /\ a_cpu[1] = actual[Plan]
    /\ CpuOciosa /\ de_cpu = <<>>
EnCurso ==
    /\ cpu_pc \in {"ciclo", "devuelve"} /\ cpu_pid = actual[Plan]
    /\ IF cpu_motivo = "CPU_IO"
       THEN /\ cpu_io.op # "DEVOLUCION_PCB"
            /\ cpu_pc = "ciclo" => interrupt = 0
       ELSE cpu_io = SinPaquete
    /\ a_cpu = <<>> /\ de_cpu = <<>>
DeRegreso ==
    /\ de_cpu # <<>>
    /\ Head(de_cpu).op = "DEVOLUCION_PCB" /\ Head(de_cpu).pid = actual[Plan]
    /\ SoloLlamadas(Tail(de_cpu), Acompanan(Head(de_cpu).motivo))
    /\ CpuOciosa /\ a_cpu = <<>>

LineaOK ==
    /\ pc[Plan] = "recibe" => EnViaje \/ EnCurso \/ DeRegreso
    /\ pc[Plan] # "recibe" => CpuOciosa /\ a_cpu = <<>>
    /\ pc[Plan] \in {"actualiza", "procesa"} =>
         EsDevolucion /\ SoloLlamadas(de_cpu, Acompanan(paquete.motivo))
    /\ pc[Plan] = "syscall" => SoloLlamadas(de_cpu, 1)
    /\ pc[Plan] \notin {"recibe", "actualiza", "procesa", "syscall"} =>
         de_cpu = <<>>

(* memoria has the processes that may run. *)
MemoriaOK ==
    \A p \in PID : estado[p] \in {"READY", "EXEC", "BLOCKED"} =>
                     memoria[p] = "presente"

(* Nobody is killed, so nobody ends in the CPU behind the planificador.    *)
SinMatar == \A p \in PID : fines[p] = 0

(* No packets, and one packet. *)
LEMMA SoloLlamadasHechos ==
  /\ SoloLlamadas(<<>>, 0)
  /\ \A x : x.op # "DEVOLUCION_PCB" => SoloLlamadas(<<x>>, 1)
<1>1. SoloLlamadas(<<>>, 0)
  BY DEF SoloLlamadas
<1>2. ASSUME NEW x, x.op # "DEVOLUCION_PCB" PROVE SoloLlamadas(<<x>>, 1)
  <2> DEFINE t == <<x>>
  <2>1. Len(t) = 1 /\ t[1] = x
    OBVIOUS
  <2> HIDE DEF t
  <2>2. \A k \in 1..1 : k = 1
    OBVIOUS
  <2>3. SoloLlamadas(t, 1)
    BY <1>2, <2>1, <2>2 DEF SoloLlamadas
  <2> QED
    BY <2>3 DEF t
<1> QED
  BY <1>1, <1>2

(* Nothing the link is made of changes. *)
LEMMA LineaMisma ==
  ASSUME LineaOK,
         UNCHANGED <<pc[Plan], actual[Plan], paquete, a_cpu, de_cpu, cpu_pc,
                     cpu_pid, cpu_motivo, cpu_io>>,
         interrupt' = interrupt \/ interrupt' = 0
  PROVE  LineaOK'
<1>1. /\ CpuOciosa' = CpuOciosa /\ EnViaje' = EnViaje /\ (EnCurso => EnCurso')
      /\ DeRegreso' = DeRegreso /\ EsDevolucion' = EsDevolucion
  BY DEF CpuOciosa, EnViaje, EnCurso, DeRegreso, EsDevolucion
<1>2. \A n \in 0..1 : SoloLlamadas(de_cpu, n)' = SoloLlamadas(de_cpu, n)
  BY DEF SoloLlamadas
<1> QED
  BY <1>1, <1>2 DEF LineaOK, SoloLlamadas

(* The CPU takes the process from the socket, runs it and gives it back.   *)
LEMMA LineaPasoCpu ==
  ASSUME KInv, LineaOK, DeCpu
  PROVE  LineaOK'
<1>0. /\ a_cpu \in Seq(PID) /\ de_cpu \in Seq(Paquetes) /\ ManosPlan
      /\ UNCHANGED <<pc, actual, paquete>> /\ Nadie \notin PID
  BY HuellaCpu DEF KInv, SocketsTypeOK, vKernelAjeno
<1> SUFFICES ASSUME ~ UNCHANGED <<a_cpu, de_cpu, cpu_pc, cpu_pid, cpu_motivo,
                                  cpu_io>>
             PROVE  LineaOK'
  BY <1>0, LineaMisma DEF DeCpu, CpuNext, CpuTope, CpuRecibe, CpuEjecuta,
     CpuNormal, CpuCorta, CpuExit, CpuSinMemoria, CpuSyscall, CpuWait,
     CpuSignal, CpuRecursoAjeno, CpuIO, CpuSinInstruccion, CpuSaleDelCiclo,
     CpuDevuelve, CpuInterrupcion
<1>1. CASE CpuTope
  <2>1. /\ cpu_pc = "tope" /\ cpu_pc' = "recibe"
        /\ UNCHANGED <<a_cpu, de_cpu, cpu_pid, cpu_motivo, cpu_io>>
    BY <1>1 DEF CpuTope
  <2>2. /\ CpuOciosa => CpuOciosa'
        /\ EnViaje => EnViaje'
        /\ ~EnCurso
        /\ DeRegreso => DeRegreso'
        /\ EsDevolucion' = EsDevolucion
    BY <1>0, <2>1 DEF CpuOciosa, EnViaje, EnCurso, DeRegreso, EsDevolucion,
       SoloLlamadas
  <2>3. \A n : SoloLlamadas(de_cpu', n) = SoloLlamadas(de_cpu, n)
    BY <2>1
  <2> QED
    BY <1>0, <2>1, <2>2, <2>3 DEF LineaOK
<1>2. CASE CpuRecibe
  <2>1. /\ cpu_pc = "recibe" /\ a_cpu # <<>> /\ a_cpu' = Tail(a_cpu)
        /\ cpu_pid' = Head(a_cpu) /\ cpu_motivo' = "NONE" /\ cpu_pc' = "ciclo"
        /\ UNCHANGED <<de_cpu, cpu_io>>
    BY <1>2 DEF CpuRecibe
  <2>2. pc[Plan] = "recibe" /\ EnViaje
    BY <2>1 DEF LineaOK, EnCurso, DeRegreso
  <2>3. /\ a_cpu' = <<>> /\ cpu_pid' = actual[Plan]
    BY <1>0, <2>1, <2>2 DEF EnViaje
  <2>4. EnCurso'
    BY <1>0, <2>1, <2>2, <2>3 DEF EnViaje, EnCurso, CpuOciosa
  <2> QED
    BY <1>0, <2>2, <2>4 DEF LineaOK
<1>3. CASE cpu_pc = "ciclo" /\ ~CpuInterrupcion
  <2>1. pc[Plan] = "recibe" /\ EnCurso
    BY <1>3 DEF LineaOK, CpuOciosa, EnViaje, DeRegreso
  <2>2. /\ UNCHANGED <<a_cpu, de_cpu, cpu_pid>>
        /\ cpu_pc' \in {"ciclo", "devuelve"}
    BY <1>3 DEF DeCpu, CpuNext, CpuTope, CpuRecibe, CpuEjecuta, CpuNormal,
       CpuCorta, CpuExit, CpuSinMemoria, CpuSyscall, CpuWait, CpuSignal,
       CpuRecursoAjeno, CpuIO, CpuSinInstruccion, CpuSaleDelCiclo, CpuDevuelve
  <2>3. \/ /\ interrupt = 1 /\ cpu_io' = cpu_io
           /\ cpu_motivo' \in {"INTERRUPT", "END", "OUT_OF_MEMORY"}
        \/ /\ interrupt' = 0 /\ cpu_motivo' = "CPU_IO"
           /\ cpu_io'.op # "DEVOLUCION_PCB"
        \/ UNCHANGED <<cpu_motivo, cpu_io, interrupt>>
    <3>1. \A op, p, r : Syscall(op, p, r).op = op
      BY DEF Syscall
    <3> QED
      BY <1>3, <3>1 DEF DeCpu, CpuNext, CpuTope, CpuRecibe, CpuEjecuta,
       CpuNormal,
       CpuCorta, CpuExit, CpuSinMemoria, CpuSyscall, CpuWait, CpuSignal,
       CpuRecursoAjeno, CpuIO, CpuSinInstruccion, CpuSaleDelCiclo, CpuDevuelve,
       OpsRecurso, OpsIO
  <2>4. EnCurso'
    BY <1>0, <1>3, <2>1, <2>2, <2>3 DEF EnCurso
  <2> QED
    BY <1>0, <2>1, <2>4 DEF LineaOK
<1>4. CASE CpuDevuelve
  <2>1. /\ cpu_pc = "devuelve" /\ cpu_pid' = Nadie /\ cpu_io' = SinPaquete
        /\ cpu_pc' = "tope" /\ UNCHANGED a_cpu
        /\ de_cpu' = de_cpu \o
                       (IF cpu_io = SinPaquete
                        THEN <<Devolucion(cpu_pid, cpu_motivo)>>
                        ELSE <<Devolucion(cpu_pid, cpu_motivo), cpu_io>>)
    BY <1>4 DEF CpuDevuelve
  <2>2. pc[Plan] = "recibe" /\ EnCurso
    BY <2>1 DEF LineaOK, CpuOciosa, EnViaje, DeRegreso
  <2>3. CpuOciosa' /\ a_cpu' = <<>> /\ cpu_pid = actual[Plan]
    BY <2>1, <2>2 DEF EnCurso, CpuOciosa
  <2>4. de_cpu' = IF cpu_motivo = "CPU_IO"
                  THEN <<Devolucion(cpu_pid, cpu_motivo), cpu_io>>
                  ELSE <<Devolucion(cpu_pid, cpu_motivo)>>
    <3>1. SinPaquete.op = "DEVOLUCION_PCB"
      BY DEF SinPaquete, Devolucion
    <3>2. de_cpu = <<>> /\ (cpu_motivo = "CPU_IO" <=> cpu_io # SinPaquete)
      BY <2>2, <3>1 DEF EnCurso
    <3>3. \A x : <<>> \o <<x>> = <<x>>
      OBVIOUS
    <3>4. \A x, y : <<>> \o <<x, y>> = <<x, y>>
      OBVIOUS
    <3> QED
      BY <2>1, <3>2, <3>3, <3>4
  <2>5. DeRegreso'
    <3>1. /\ Devolucion(cpu_pid, cpu_motivo).op = "DEVOLUCION_PCB"
          /\ Devolucion(cpu_pid, cpu_motivo).pid = cpu_pid
          /\ Devolucion(cpu_pid, cpu_motivo).motivo = cpu_motivo
      BY DEF Devolucion
    <3> DEFINE d == Devolucion(cpu_pid, cpu_motivo)
    <3>2. /\ d.op = "DEVOLUCION_PCB" /\ d.pid = cpu_pid
          /\ d.motivo = cpu_motivo
          /\ de_cpu' = IF cpu_motivo = "CPU_IO" THEN <<d, cpu_io>> ELSE <<d>>
      BY <2>4, <3>1
    <3> HIDE DEF d
    <3>3. CASE cpu_motivo = "CPU_IO"
      <4>1. /\ de_cpu' # <<>> /\ Head(de_cpu') = d
            /\ Tail(de_cpu') = <<cpu_io>>
        BY <3>2, <3>3
      <4>2. SoloLlamadas(Tail(de_cpu'), 1)
        BY <2>2, <3>3, <4>1, SoloLlamadasHechos DEF EnCurso
      <4>3. Acompanan(Head(de_cpu').motivo) = 1
        BY <3>2, <3>3, <4>1 DEF Acompanan
      <4> QED
        BY <1>0, <2>3, <3>2, <4>1, <4>2, <4>3
           DEF DeRegreso, SoloLlamadas, Acompanan
    <3>4. CASE cpu_motivo # "CPU_IO"
      <4>1. /\ de_cpu' # <<>> /\ Head(de_cpu') = d /\ Tail(de_cpu') = <<>>
        BY <3>2, <3>4
      <4>2. SoloLlamadas(Tail(de_cpu'), 0)
        BY <4>1, SoloLlamadasHechos
      <4>3. Acompanan(Head(de_cpu').motivo) = 0
        BY <3>2, <3>4, <4>1 DEF Acompanan
      <4> QED
        BY <1>0, <2>3, <3>2, <4>1, <4>2, <4>3
           DEF DeRegreso, SoloLlamadas, Acompanan
    <3> QED
      BY <3>3, <3>4
  <2> QED
    BY <1>0, <2>2, <2>5 DEF LineaOK
<1>5. CASE CpuInterrupcion
  BY <1>5 DEF CpuInterrupcion
<1>6. DeCpu /\ cpu_pc # "ciclo" => \/ CpuTope \/ CpuRecibe \/ CpuDevuelve
                                   \/ CpuInterrupcion
  BY DEF DeCpu, CpuNext, CpuEjecuta, CpuNormal, CpuCorta, CpuExit,
     CpuSinMemoria, CpuSyscall, CpuWait, CpuSignal, CpuRecursoAjeno, CpuIO,
     CpuSinInstruccion, CpuSaleDelCiclo
<1> QED
  BY <1>1, <1>2, <1>3, <1>4, <1>5, <1>6

(* Where the planificador has nothing to read. *)
ConRespuesta == {"recibe", "actualiza", "procesa", "syscall"}

(* It stays there and sends nothing. *)
LEMMA LineaReposo ==
  ASSUME LineaOK, UNCHANGED <<a_cpu, cpu_vars>>,
         de_cpu = <<>> => de_cpu' = <<>>,
         \/ pc[Plan] \notin ConRespuesta
         \/ pc[Plan] # "recibe" /\ de_cpu' = <<>>,
         pc'[Plan] \notin ConRespuesta
  PROVE  LineaOK'
<1>1. pc[Plan] # "recibe" /\ CpuOciosa /\ a_cpu = <<>> /\ de_cpu' = <<>>
  BY DEF LineaOK, ConRespuesta
<1>2. CpuOciosa' /\ a_cpu' = <<>>
  BY <1>1 DEF CpuOciosa
<1> QED
  BY <1>1, <1>2 DEF LineaOK, ConRespuesta

(* A process goes to the CPU. *)
LEMMA LineaDespacha ==
  ASSUME PcTypeOK, LineaOK, NEW q \in PID, q = actual[Plan],
         UNCHANGED <<actual, de_cpu, cpu_vars>>, a_cpu' = Append(a_cpu, q),
         pc[Plan] \notin ConRespuesta, pc' = [pc EXCEPT ![Plan] = "recibe"]
  PROVE  LineaOK'
<1>1. CpuOciosa /\ a_cpu = <<>> /\ de_cpu = <<>>
  BY DEF LineaOK, ConRespuesta
<1>2. Len(a_cpu') = 1 /\ a_cpu'[1] = q
  BY <1>1
<1>3. EnViaje'
  BY <1>1, <1>2 DEF EnViaje, CpuOciosa
<1>4. pc'[Plan] = "recibe"
  BY DEF PcTypeOK, Hilos
<1> QED
  BY <1>3, <1>4 DEF LineaOK

(* The planificador sends a process, waits for it, and reads the system     *)
(* call when the answer says there is one.                                  *)
LEMMA LineaPasoPlan ==
  ASSUME KInv, FinOK, SinMatar, LineaOK, DelPlan
  PROVE  LineaOK'
<1>0. /\ PcTypeOK /\ ManosTypeOK /\ ManosPlan /\ Plan \in Hilos
      /\ a_cpu \in Seq(PID) /\ de_cpu \in Seq(Paquetes)
      /\ UNCHANGED cpu_vars
  BY HuellaPlan DEF KInv, SocketsTypeOK, Hilos
<1>1. CASE PlanToma \/ PlanPasaPausa \/ PlanDescarta \/ PlanWait \/ PlanSignal
             \/ PlanDespierta \/ PlanInterfazInvalida \/ PlanBloqueaIO
             \/ PlanDesaloja \/ PlanSuelta
  <2>1. UNCHANGED <<a_cpu, de_cpu>>
    BY <1>1 DEF PlanToma, PlanPasaPausa, PlanDescarta, PlanWait, PlanSignal,
       PlanDespierta, PlanInterfazInvalida, PlanBloqueaIO, PlanDesaloja,
       PlanSuelta, PlanEnviarAExit
  <2>2. pc[Plan] \notin ConRespuesta
    BY <1>1 DEF PlanToma, PlanPasaPausa, PlanDescarta, PlanWait, PlanSignal,
       PlanDespierta, PlanInterfazInvalida, PlanBloqueaIO, PlanDesaloja,
       PlanSuelta, ConRespuesta
  <2>3. pc'[Plan] \notin ConRespuesta
    BY <1>0, <1>1 DEF PlanToma, PlanPasaPausa, PlanDescarta, PlanWait,
       PlanSignal, PlanDespierta, PlanInterfazInvalida, PlanBloqueaIO,
       PlanDesaloja, PlanSuelta, PlanEnviarAExit, ConRespuesta, PcTypeOK
  <2> QED
    BY <1>0, <2>1, <2>2, <2>3, LineaReposo
<1>2. CASE PlanDespacha \/ PlanRedespacha
  <2>1. PICK q \in PID : q = actual[Plan]
    BY <1>0, <1>2 DEF PlanDespacha, PlanRedespacha, ManosPlan
  <2>2. /\ pc[Plan] \notin ConRespuesta /\ pc' = [pc EXCEPT ![Plan] = "recibe"]
        /\ UNCHANGED <<actual, de_cpu>> /\ a_cpu' = Append(a_cpu, q)
    BY <1>2, <2>1 DEF PlanDespacha, PlanRedespacha, EjecutarProceso,
       ConRespuesta
  <2> QED
    BY <1>0, <2>1, <2>2, LineaDespacha
<1>3. CASE PlanRecibe
  <2>1. /\ pc[Plan] = "recibe" /\ pc'[Plan] = "actualiza" /\ de_cpu # <<>>
        /\ paquete' = Head(de_cpu) /\ de_cpu' = Tail(de_cpu)
        /\ UNCHANGED <<actual, a_cpu>>
    BY <1>0, <1>3 DEF PlanRecibe, PcTypeOK
  <2>2. DeRegreso
    BY <2>1 DEF LineaOK, EnViaje, EnCurso
  <2>3. CpuOciosa' /\ a_cpu' = <<>>
    BY <1>0, <2>1, <2>2 DEF DeRegreso, CpuOciosa
  <2>4. EsDevolucion' /\ SoloLlamadas(de_cpu', Acompanan(paquete'.motivo))
    BY <2>1, <2>2 DEF DeRegreso, EsDevolucion
  <2> QED
    BY <2>1, <2>3, <2>4 DEF LineaOK
<1>4. CASE PlanMatado
  <2>1. PICK q \in PID : q = actual[Plan]
    BY <1>0, <1>4 DEF PlanMatado, ManosPlan
  <2>2. EnElCpu(q) /\ estado[q] # "EXEC" /\ fines[q] = 0
    BY <1>4, <2>1 DEF PlanMatado, EnElCpu, EnLaCpu, SinMatar
  <2> QED
    BY <2>2 DEF FinOK, Fin
<1>5. CASE PlanActualiza
  <2>1. /\ pc[Plan] = "actualiza" /\ pc'[Plan] = "procesa"
        /\ UNCHANGED <<actual, a_cpu, de_cpu, paquete>>
    BY <1>0, <1>5 DEF PlanActualiza, PcTypeOK
  <2>2. /\ CpuOciosa' = CpuOciosa /\ EsDevolucion' = EsDevolucion
        /\ SoloLlamadas(de_cpu', Acompanan(paquete'.motivo))
             = SoloLlamadas(de_cpu, Acompanan(paquete.motivo))
    BY <1>0, <2>1 DEF CpuOciosa, EsDevolucion
  <2> QED
    BY <2>1, <2>2 DEF LineaOK
<1>6. CASE PlanInvalida \/ PlanTermina \/ PlanInterrumpido
  <2>1. /\ pc[Plan] = "procesa" /\ pc'[Plan] = "cierre"
        /\ UNCHANGED <<a_cpu, de_cpu>>
        /\ EsDevolucion => paquete.motivo # "CPU_IO"
    BY <1>0, <1>6 DEF PlanInvalida, PlanTermina, PlanInterrumpido, PlanProcesa,
       PlanEnviarAExit, PlanSinCambio, PcTypeOK
  <2>2. SoloLlamadas(de_cpu, 0)
    BY <2>1 DEF LineaOK, Acompanan
  <2>3. de_cpu = <<>>
    BY <1>0, <2>2 DEF SoloLlamadas
  <2> QED
    BY <1>0, <2>1, <2>3, LineaReposo DEF ConRespuesta
<1>7. CASE PlanPideSyscall
  <2>1. /\ pc[Plan] = "procesa" /\ pc'[Plan] = "syscall"
        /\ UNCHANGED <<a_cpu, de_cpu>>
        /\ EsDevolucion /\ paquete.motivo = "CPU_IO"
    BY <1>0, <1>7 DEF PlanPideSyscall, PlanProcesa, PlanSinCambio, PcTypeOK
  <2>2. SoloLlamadas(de_cpu', 1) /\ CpuOciosa' /\ a_cpu' = <<>>
    BY <1>0, <2>1 DEF LineaOK, Acompanan, CpuOciosa
  <2> QED
    BY <2>1, <2>2 DEF LineaOK
<1>8. CASE PlanLeeSyscall
  <2>1. /\ pc[Plan] = "syscall"
        /\ pc'[Plan] \in {"WAIT", "SIGNAL", "cierre", "IO"}
        /\ UNCHANGED a_cpu /\ de_cpu' = Tail(de_cpu)
    BY <1>0, <1>8 DEF PlanLeeSyscall, PlanEnviarAExit, PlanSinCambio,
       OpsRecurso,
       PcTypeOK
  <2>2. Len(de_cpu) = 1
    BY <2>1 DEF LineaOK, SoloLlamadas
  <2>3. de_cpu' = <<>>
    BY <1>0, <2>1, <2>2
  <2> QED
    BY <1>0, <2>1, <2>3, LineaReposo DEF ConRespuesta
<1> QED
  BY <1>1, <1>2, <1>3, <1>4, <1>5, <1>6, <1>7, <1>8 DEF DelPlan, PlanNext

(* Every step keeps the link.                                              *)
LEMMA LineaPaso ==
  ASSUME KInv, FinOK, SinMatar, LineaOK, [Next]_vars
  PROVE  LineaOK'
<1>1. CASE ~DelPlan /\ ~DeCpu
  <2>1. UNCHANGED <<pc[Plan], actual[Plan], paquete>>
    BY <1>1, OtrosHilos DEF KInv
  <2>2. UNCHANGED <<a_cpu, de_cpu, cpu_vars>>
    BY <1>1, HuellaCrear, HuellaElim, HuellaReloj, HuellaConsola, HuellaIfaces
       DEF Next, vars, kernel_vars
  <2> QED
    BY <2>1, <2>2, LineaMisma
<1> QED
  BY <1>1, LineaPasoPlan, LineaPasoCpu DEF Next

(* Nobody asks to end a process.                                           *)
LEMMA SinMatarPaso ==
  ASSUME SinFines, SinMatar, FinesOK, [Next]_vars
  PROVE  SinMatar'
<1>1. \A q \in PID : ~ProcEnd(q)
  BY DEF ProcEnd, Lee, SinFines
<1>2. UNCHANGED fines
  BY <1>1, HuellaCrear, HuellaElim, HuellaPlan, HuellaReloj, HuellaConsola,
     HuellaIfaces, HuellaCpu DEF Next, vars
<1> QED
  BY <1>2 DEF SinMatar

(* memoria creates a process before it is READY and ends it after EXIT.    *)
LEMMA MemoriaPaso ==
  ASSUME KInv, MutexOK, EstadosOK, FinOK, MemoriaOK, [Next]_vars
  PROVE  MemoriaOK'
<1>0. /\ PCBTypeOK /\ ManosCrear /\ ManosElim /\ ManosPlan /\ EstadoCrear
      /\ EstadoElim /\ EstadoPlan /\ EstadoCpu /\ EstadoDisp
      /\ InterfacesTypeOK
  BY DEF KInv, EstadosOK
<1> DEFINE Vivos == {"READY", "EXEC", "BLOCKED"}
<1>1. ASSUME UNCHANGED memoria,
             \A p \in PID : estado'[p] \in Vivos => estado[p] \in Vivos
      PROVE  MemoriaOK'
  BY <1>1 DEF MemoriaOK
<1>2. CASE CrearAdmite
  <2>1. PICK q \in PID : q = actual[Crear]
    BY <1>0, <1>2 DEF CrearAdmite, ManosCrear
  <2>2. /\ memoria' = [memoria EXCEPT ![q] = "presente"]
        /\ estado' = [estado EXCEPT ![q] = "READY"]
    BY <1>2, <2>1 DEF CrearAdmite
  <2> QED
    BY <1>0, <2>2 DEF MemoriaOK, PCBTypeOK
<1>3. CASE ElimExit
  <2>1. PICK q \in PID : q = actual[Elim]
    BY <1>0, <1>3 DEF ElimExit, ManosElim
  <2>2. /\ memoria' = [memoria EXCEPT ![q] = "borrado"] /\ estado[q] = "EXIT"
        /\ UNCHANGED estado
    BY <1>3, <2>1 DEF ElimExit
  <2> QED
    BY <1>0, <2>2 DEF MemoriaOK, PCBTypeOK
<1>4. ASSUME NEW q \in PID, NEW e, NEW f, Muda(q, e, f),
             f \in Vivos => e \in Vivos
      PROVE  \A p \in PID : estado'[p] \in Vivos => estado[p] \in Vivos
  BY <1>0, <1>4 DEF Muda, PCBTypeOK
<1>5. CASE ~CrearAdmite /\ ~ElimExit
  <2>1. UNCHANGED memoria
    BY <1>5, HuellaCrear, HuellaElim, HuellaPlan, HuellaReloj, HuellaConsola,
       HuellaIfaces, HuellaCpu DEF Next, vars, kernel_vars, vKernelAjeno
  <2>2. CASE UNCHANGED estado
    BY <1>1, <2>1, <2>2
  <2>3. CASE DelElim
    <3>1. \/ UNCHANGED estado
          \/ \E q \in PID, e, f \in Estados :
               Muda(q, e, f) /\ <<e, f>> \in ParesElim
      BY <1>0, <2>3, MudaElim
    <3>2. ASSUME NEW q \in PID, NEW e, NEW f, Muda(q, e, f),
                 <<e, f>> \in ParesElim
          PROVE  f \in Vivos => e \in Vivos
      BY <3>2 DEF ParesElim
    <3>3. CASE \E q \in PID, e, f \in Estados :
                 Muda(q, e, f) /\ <<e, f>> \in ParesElim
      <4>1. PICK q \in PID, e \in Estados, f \in Estados :
              Muda(q, e, f) /\ <<e, f>> \in ParesElim
        BY <3>3
      <4> QED
        BY <1>1, <1>4, <2>1, <3>2, <4>1
    <3> QED
      BY <2>2, <3>1, <3>3
  <2>4. CASE DelPlan
    <3>1. CASE PlanMatado
      <4>1. PICK q \in PID : q = actual[Plan]
        BY <1>0, <3>1 DEF PlanMatado, ManosPlan
      <4>2. estado' = [estado EXCEPT ![q] = "EXIT"]
        BY <3>1, <4>1 DEF PlanMatado, EnviarAExit
      <4>3. \A p \in PID : estado'[p] \in Vivos => estado[p] \in Vivos
        BY <1>0, <4>2 DEF PCBTypeOK
      <4> QED
        BY <1>1, <2>1, <4>3
    <3>2. CASE \E q \in PID, e, f \in Estados :
                 Muda(q, e, f) /\ <<e, f>> \in ParesPlan
      <4>1. PICK q \in PID, e \in Estados, f \in Estados :
              Muda(q, e, f) /\ <<e, f>> \in ParesPlan
        BY <3>2
      <4>2. f \in Vivos => e \in Vivos
        BY <4>1 DEF ParesPlan
      <4> QED
        BY <1>1, <1>4, <2>1, <4>1, <4>2
    <3> QED
      BY <1>0, <2>2, <2>4, <3>1, <3>2, MudaPlan
  <2>5. CASE DeConsola
    <3>1. UNCHANGED estado \/ \E q \in PID : Muda(q, "INEXISTENTE", "NEW")
      BY <2>5, MudaConsola
    <3>2. ASSUME NEW q \in PID, Muda(q, "INEXISTENTE", "NEW") PROVE MemoriaOK'
      BY <1>1, <1>4, <2>1, <3>2
    <3> QED
      BY <2>2, <3>1, <3>2
  <2>6. CASE DeIfaces
    <3>1. UNCHANGED estado \/ \E q \in PID, f \in {"READY", "EXIT"} :
                                Muda(q, "BLOCKED", f)
      BY <1>0, <2>6, MudaIfaces
    <3>2. ASSUME NEW q \in PID, NEW f, Muda(q, "BLOCKED", f) PROVE MemoriaOK'
      BY <1>1, <1>4, <2>1, <3>2
    <3> QED
      BY <2>2, <3>1, <3>2
  <2>7. CASE DelCrear \/ DelReloj \/ DeCpu \/ UNCHANGED vars
    <3>1. UNCHANGED estado
      BY <1>5, <2>7, HuellaCrear, HuellaReloj, HuellaCpu DEF vars, kernel_vars,
         vKernelAjeno
    <3> QED
      BY <2>2, <3>1
  <2> QED
    BY <2>3, <2>4, <2>5, <2>6, <2>7 DEF Next
<1> QED
  BY <1>2, <1>3, <1>5

(* With nobody to kill, who is in the CPU is in EXEC. *)
LEMMA EnExecEnElCpu ==
  ASSUME KInv, EstadosOK, FinOK, SinMatar, pc[Plan] = "recibe"
  PROVE  actual[Plan] \in PID /\ estado[actual[Plan]] = "EXEC"
<1>1. PICK q \in PID : q = actual[Plan]
  BY DEF KInv, ManosPlan
<1>2. Fin(estado[q], fines[q], Pendientes(q), EnElCpu(q)) /\ fines[q] = 0
  BY DEF FinOK, SinMatar
<1>3. EnElCpu(q) /\ estado[q] \in {"EXEC", "EXIT", "DELETED"}
  BY <1>1 DEF EnElCpu, EnLaCpu, EstadosOK, EstadoCpu
<1> QED
  BY <1>1, <1>2, <1>3 DEF Fin

(* The inductive invariant of the link. *)
LineaInv == CicloInv /\ SinMatar /\ LineaOK /\ MemoriaOK

(* It always holds when the console ends no process. *)
LEMMA LineaInvSiempre ==
  ASSUME SinFines
  PROVE  Spec => []LineaInv
<1>1. Init => SinMatar /\ LineaOK /\ MemoriaOK
  <2> SUFFICES ASSUME Init PROVE SinMatar /\ LineaOK /\ MemoriaOK
    OBVIOUS
  <2>1. /\ pc[Plan] = "espera" /\ cpu_pc = "tope" /\ cpu_pid = Nadie
        /\ cpu_io = SinPaquete /\ a_cpu = <<>> /\ de_cpu = <<>>
    BY DEF Init, KernelInit, CpuInit, Hilos
  <2>2. \A p \in PID : fines[p] = 0 /\ estado[p] = "INEXISTENTE"
    BY DEF Init, KernelInit, ConsolaInit
  <2> QED
    BY <2>1, <2>2 DEF SinMatar, LineaOK, MemoriaOK, CpuOciosa
<1>2. LineaInv /\ [Next]_vars /\ CicloInv' => LineaInv'
  <2> SUFFICES ASSUME LineaInv, [Next]_vars, CicloInv' PROVE LineaInv'
    OBVIOUS
  <2>1. KInv /\ MutexOK /\ EstadosOK /\ FinesOK /\ FinOK
    BY DEF LineaInv, CicloInv, EstadosInv
  <2>2. SinMatar' /\ LineaOK'
    BY <2>1, SinMatarPaso, LineaPaso DEF LineaInv
  <2>3. MemoriaOK'
    BY <2>1, MemoriaPaso DEF LineaInv
  <2> QED
    BY <2>2, <2>3 DEF LineaInv
<1>3. UnFin
  BY DEF UnFin
<1>4. Spec => []CicloInv
  BY <1>3, CicloInvSiempre
<1>5. Init /\ CicloInv => LineaInv
  BY <1>1 DEF LineaInv
<1> QED
  BY <1>2, <1>4, <1>5, PTL DEF Spec

(* What comes back, counted. *)
LEMMA DeVueltaHechos ==
  ASSUME NEW p
  PROVE  /\ \A n \in Nat : SoloLlamadas(de_cpu, n) => DeVuelta(p) = 0
         /\ DeRegreso /\ de_cpu \in Seq(Paquetes) =>
              DeVuelta(p) = Como(actual[Plan] = p)
<1> DEFINE I == {k \in 1..Len(de_cpu) : /\ de_cpu[k].op = "DEVOLUCION_PCB"
                                        /\ de_cpu[k].pid = p}
<1>0. DeVuelta(p) = Cardinality(I)
  BY DEF DeVuelta
<1>1. ASSUME NEW n \in Nat, SoloLlamadas(de_cpu, n) PROVE DeVuelta(p) = 0
  <2>1. I = {}
    BY <1>1 DEF SoloLlamadas
  <2> QED
    BY <1>0, <2>1, FS_EmptySet
<1>2. ASSUME DeRegreso, de_cpu \in Seq(Paquetes)
      PROVE  DeVuelta(p) = Como(actual[Plan] = p)
  <2> DEFINE t == Tail(de_cpu)
             n == Acompanan(Head(de_cpu).motivo)
  <2>1. /\ de_cpu # <<>> /\ de_cpu[1].op = "DEVOLUCION_PCB"
        /\ de_cpu[1].pid = actual[Plan] /\ SoloLlamadas(t, n)
    BY <1>2 DEF DeRegreso
  <2>2. /\ Len(de_cpu) \in Nat /\ Len(de_cpu) >= 1 /\ Len(t) = Len(de_cpu) - 1
        /\ \A k \in 1..Len(t) : t[k] = de_cpu[k + 1]
    BY <1>2, <2>1
  <2>3. n \in Nat
    BY DEF Acompanan
  <2> HIDE DEF t, n
  <2>4. ASSUME NEW k \in 1..Len(de_cpu), k # 1
        PROVE  de_cpu[k].op # "DEVOLUCION_PCB"
    <3>1. k - 1 \in 1..Len(t) /\ t[k - 1] = de_cpu[k]
      BY <2>2, <2>4
    <3> QED
      BY <2>1, <2>3, <3>1 DEF SoloLlamadas
  <2>5. I = IF actual[Plan] = p THEN {1} ELSE {}
    BY <2>1, <2>2, <2>4
  <2> HIDE DEF I
  <2>6. CASE actual[Plan] = p
    <3>1. Cardinality(I) = 1
      BY <2>5, <2>6, FS_Singleton
    <3> QED
      BY <1>0, <2>6, <3>1
  <2>7. CASE actual[Plan] # p
    <3>1. Cardinality(I) = 0
      BY <2>5, <2>7, FS_EmptySet
    <3> QED
      BY <1>0, <2>7, <3>1
  <2> QED
    BY <2>6, <2>7
<1> QED
  BY <1>1, <1>2

(* Who goes to the CPU, counted. *)
LEMMA EnCpuHechos ==
  ASSUME NEW p \in PID
  PROVE  /\ a_cpu = <<>> => EnCpu(p) = Como(cpu_pid = p)
         /\ EnViaje => EnCpu(p) = Como(actual[Plan] = p)
<1> DEFINE I == {k \in 1..Len(a_cpu) : a_cpu[k] = p}
<1>0. EnCpu(p) = Cardinality(I) + Como(cpu_pid = p)
  BY DEF EnCpu, Veces
<1>1. CASE a_cpu = <<>>
  <2>1. I = {}
    BY <1>1
  <2>2. a_cpu # <<actual[Plan]>> /\ ~EnViaje
    BY <1>1 DEF EnViaje
  <2> QED
    BY <1>0, <2>1, <2>2, FS_EmptySet
<1>2. ASSUME a_cpu # <<>>, EnViaje PROVE EnCpu(p) = Como(actual[Plan] = p)
  <2>1. Len(a_cpu) = 1 /\ a_cpu[1] = actual[Plan] /\ cpu_pid = Nadie
    BY <1>2 DEF EnViaje, CpuOciosa
  <2>2. I = IF actual[Plan] = p THEN {1} ELSE {}
    BY <2>1
  <2>3. cpu_pid # p
    BY <2>1
  <2>4. Cardinality(I) = Como(actual[Plan] = p)
    <3>1. CASE actual[Plan] = p
      BY <2>2, <3>1, FS_Singleton
    <3>2. CASE actual[Plan] # p
      BY <2>2, <3>2, FS_EmptySet
    <3> QED
      BY <3>1, <3>2
  <2> HIDE DEF I
  <2> QED
    BY <1>0, <2>3, <2>4
<1> QED
  BY <1>1, <1>2

(***************************************************************************)
(* The planificador that waits for the CPU is owed exactly one answer, and *)
(* the answer of nobody else is on its way (ejecutar_proceso,              *)
(* interrupcion_quantum and the loop of the CPU), while nobody is ended by *)
(* the console.                                                            *)
(***************************************************************************)
THEOREM RespuestaEsperadaSiempre ==
  ASSUME SinFines
  PROVE  Spec => []RespuestaEsperada
<1>1. LineaInv => RespuestaEsperada
  <2> SUFFICES ASSUME LineaInv, NEW p \in PID
               PROVE  EnCpu(p) + DeVuelta(p) =
                        Como(pc[Plan] = "recibe" /\ actual[Plan] = p)
    BY DEF RespuestaEsperada
  <2>0. LineaOK /\ de_cpu \in Seq(Paquetes) /\ p # Nadie
    BY DEF LineaInv, CicloInv, EstadosInv, KInv, SocketsTypeOK
  <2>1. de_cpu = <<>> => DeVuelta(p) = 0
    BY SoloLlamadasHechos, DeVueltaHechos
  <2>2. CASE pc[Plan] = "recibe" /\ EnViaje
    BY <2>1, <2>2, EnCpuHechos DEF EnViaje
  <2>3. CASE pc[Plan] = "recibe" /\ EnCurso
    BY <2>1, <2>3, EnCpuHechos DEF EnCurso
  <2>4. CASE pc[Plan] = "recibe" /\ DeRegreso
    BY <2>0, <2>4, EnCpuHechos, DeVueltaHechos DEF DeRegreso, CpuOciosa
  <2>5. CASE pc[Plan] # "recibe"
    <3>1. EnCpu(p) = 0
      BY <2>0, <2>5, EnCpuHechos DEF LineaOK, CpuOciosa
    <3>2. de_cpu = <<>> \/ \E n \in 0..1 : SoloLlamadas(de_cpu, n)
      BY <2>0, <2>5 DEF LineaOK, Acompanan
    <3>3. DeVuelta(p) = 0
      BY <2>1, <3>2, DeVueltaHechos
    <3> QED
      BY <2>5, <3>1, <3>3
  <2> QED
    BY <2>0, <2>2, <2>3, <2>4, <2>5 DEF LineaOK
<1> QED
  BY <1>1, LineaInvSiempre, PTL

(***************************************************************************)
(* What the planificador takes from the socket for the process it          *)
(* dispatched is that process, given back: never a system call left there  *)
(* by the one before (procesar_pcb), while nobody is ended by the console. *)
(***************************************************************************)
THEOREM DevolucionValidaSiempre ==
  ASSUME SinFines
  PROVE  Spec => []DevolucionValida
<1>1. LineaInv => DevolucionValida
  BY DEF LineaInv, LineaOK, DevolucionValida
<1> QED
  BY <1>1, LineaInvSiempre, PTL

(***************************************************************************)
(* The CPU never fetches an instruction of a process that memoria has not  *)
(* got: crear_proceso creates it there before it can be READY, and         *)
(* eliminar_proceso ends it there once it is in EXIT, while nobody is      *)
(* ended by the console behind the back of the CPU.                        *)
(***************************************************************************)
THEOREM MemoriaVigenteSiempre ==
  ASSUME SinFines
  PROVE  Spec => []MemoriaVigente
<1>1. LineaInv => MemoriaVigente
  <2> SUFFICES ASSUME LineaInv, cpu_pc = "ciclo"
               PROVE  memoria[cpu_pid] = "presente"
    BY DEF MemoriaVigente
  <2>1. pc[Plan] = "recibe" /\ cpu_pid = actual[Plan]
    BY DEF LineaInv, LineaOK, EnViaje, EnCurso, DeRegreso, CpuOciosa
  <2>2. actual[Plan] \in PID /\ estado[actual[Plan]] = "EXEC"
    BY <2>1, EnExecEnElCpu DEF LineaInv, CicloInv, EstadosInv
  <2> QED
    BY <2>1, <2>2 DEF LineaInv, MemoriaOK
<1> QED
  BY <1>1, LineaInvSiempre, PTL

=============================================================================
