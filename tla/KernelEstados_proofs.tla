------------------------ MODULE KernelEstados_proofs ------------------------
(***************************************************************************)
(* Proofs about the states of the processes: which thread may change the   *)
(* state of which process (EstadosOK, by the rule of mx_PCB), where a      *)
(* process in each state is in the ready queues (ReadyOK) and what is left *)
(* of its quantum there (QuantumOK).                                       *)
(*                                                                         *)
(* The states matter through their pairs <<before, after>>: each thread    *)
(* has its set Pares... of the changes it makes, and what a step does to   *)
(* queues and quanta is argued pair by pair.                               *)
(***************************************************************************)
EXTENDS Kernel_proofs, FunctionTheorems

USE KernelAssumption DEF ColaDe, OpcionalDe, Crear, Elim, Plan, HiloConsola,
    EnLugar, Va, Libre, Tomado, Soltado, SinPausa, Como, VuelveAEsperar,
    CambioEstado, vPCB, vNew, vReady, vExit, vProg, vPausa, vRec, vIface, vCpu,
    vElim, vPlan, vIfaceHilos, cpu_vars

(* How many times a process is in a queue is a natural number, positive *)
(* when the queue holds it.                                             *)
LEMMA VecesHechos ==
  ASSUME NEW S, NEW s \in Seq(S), NEW p
  PROVE  /\ IsFiniteSet({k \in 1..Len(s) : s[k] = p})
         /\ Veces(p, s) \in Nat
         /\ Veces(p, s) = 0 <=> ~Contains(s, p)
<1> DEFINE K == {k \in 1..Len(s) : s[k] = p}
<1>1. Len(s) \in Nat
  BY LenProperties
<1>2. IsFiniteSet(1..Len(s))
  BY <1>1, FS_Interval
<1>3. IsFiniteSet(K)
  BY <1>2, FS_Subset
<1>4. Cardinality(K) \in Nat
  BY <1>3, FS_CardinalityType
<1>5. Cardinality(K) = 0 <=> K = {}
  BY <1>3, FS_EmptySet
<1>6. K = {} <=> ~Contains(s, p)
  BY DEF Contains
<1> QED
  BY <1>3, <1>4, <1>5, <1>6 DEF Veces

(* A push adds one for the process pushed and none for the others. *)
LEMMA VecesAppend ==
  ASSUME NEW S, NEW s \in Seq(S), NEW e \in S, NEW p
  PROVE  Veces(p, Append(s, e)) = Veces(p, s) + Como(e = p)
<1> DEFINE K == {k \in 1..Len(s) : s[k] = p}
           t == Append(s, e)
           L == {k \in 1..Len(t) : t[k] = p}
<1>1. /\ Len(s) \in Nat /\ Len(t) = Len(s) + 1 /\ t[Len(s) + 1] = e
      /\ \A k \in 1..Len(s) : t[k] = s[k]
  BY LenProperties, AppendProperties
<1>2. IsFiniteSet(K) /\ Veces(p, s) = Cardinality(K) /\ Veces(p, s) \in Nat
  <2>1. IsFiniteSet(K) /\ Veces(p, s) \in Nat
    BY VecesHechos
  <2>2. Veces(p, s) = Cardinality(K)
    BY DEF Veces
  <2> QED
    BY <2>1, <2>2
<1>3. Veces(p, t) = Cardinality(L)
  BY DEF Veces
<1> HIDE DEF t
<1>4. CASE e = p
  <2>1. L = K \union {Len(s) + 1} /\ Len(s) + 1 \notin K
    BY <1>1, <1>4
  <2>2. Cardinality(K \union {Len(s) + 1}) = Cardinality(K) + 1
    BY <1>2, <2>1, FS_AddElement
  <2> QED
    BY <1>2, <1>3, <1>4, <2>1, <2>2 DEF t
<1>5. CASE e # p
  <2>1. L = K
    BY <1>1, <1>5
  <2>2. Veces(p, t) = Veces(p, s)
    BY <1>2, <1>3, <2>1, Zenon
  <2> QED
    BY <1>2, <1>5, <2>2 DEF t
<1> QED
  BY <1>4, <1>5

(* A pop takes one from the head and none from the others. *)
LEMMA VecesTail ==
  ASSUME NEW S, NEW s \in Seq(S), s # <<>>, NEW p
  PROVE  Veces(p, s) = Veces(p, Tail(s)) + Como(Head(s) = p)
<1> DEFINE K == {k \in 1..Len(s) : s[k] = p}
           t == Tail(s)
           L == {k \in 1..Len(t) : t[k] = p}
           f == [k \in L |-> k + 1]
<1>1. /\ Len(s) \in Nat \ {0} /\ Len(t) = Len(s) - 1 /\ t \in Seq(S)
      /\ Head(s) = s[1] /\ \A k \in 1..Len(t) : t[k] = s[k + 1]
  BY HeadTailProperties, EmptySeq, LenProperties
<1>2. IsFiniteSet(K) /\ Veces(p, s) = Cardinality(K) /\ Veces(p, s) \in Nat
  <2>1. IsFiniteSet(K) /\ Veces(p, s) \in Nat
    BY VecesHechos
  <2>2. Veces(p, s) = Cardinality(K)
    BY DEF Veces
  <2> QED
    BY <2>1, <2>2
<1>3. IsFiniteSet(L) /\ Veces(p, t) = Cardinality(L) /\ Veces(p, t) \in Nat
  <2>1. IsFiniteSet(L) /\ Veces(p, t) \in Nat
    <3>1. t \in Seq(S)
      BY <1>1
    <3> HIDE DEF t
    <3> QED
      BY <3>1, VecesHechos
  <2>2. Veces(p, t) = Cardinality(L)
    BY DEF Veces
  <2> QED
    BY <2>1, <2>2
<1> HIDE DEF t
<1>4. f \in Bijection(L, K \ {1})
  <2>1. \A k \in L : k + 1 \in K \ {1}
    BY <1>1
  <2>2. \A k \in K \ {1} : k - 1 \in L /\ (k - 1) + 1 = k
    BY <1>1
  <2>3. f \in [L -> K \ {1}]
    BY <2>1
  <2>4. \A a, b \in L : f[a] = f[b] => a = b
    OBVIOUS
  <2>5. \A k \in K \ {1} : \E a \in L : f[a] = k
    BY <2>2
  <2> HIDE DEF f, K, L
  <2> QED
    BY <2>3, <2>4, <2>5, Fun_IsBij
<1>5. Cardinality(K \ {1}) = Cardinality(L)
  BY <1>3, <1>4, FS_Bijection DEF ExistsBijection
<1>6. Cardinality(K \ {1})
        = IF 1 \in K THEN Cardinality(K) - 1 ELSE Cardinality(K)
  BY <1>2, FS_RemoveElement
<1>7. 1 \in K <=> Head(s) = p
  BY <1>1
<1> HIDE DEF K, L, f
<1> QED
  BY <1>2, <1>3, <1>5, <1>6, <1>7 DEF t

(* Only the head leaves the queue. *)
LEMMA ContainsTail ==
  ASSUME NEW S, NEW s \in Seq(S), s # <<>>, NEW p
  PROVE  /\ Contains(Tail(s), p) => Contains(s, p)
         /\ Contains(s, p) => Head(s) = p \/ Contains(Tail(s), p)
<1>1. /\ Len(s) \in Nat \ {0} /\ Len(Tail(s)) = Len(s) - 1
      /\ Head(s) = s[1] /\ \A k \in 1..Len(Tail(s)) : Tail(s)[k] = s[k + 1]
  BY HeadTailProperties, EmptySeq, LenProperties
<1> DEFINE t == Tail(s)
<1> HIDE DEF t
<1>2. ASSUME NEW k \in 1..Len(s), s[k] = p PROVE Head(s) = p \/ Contains(t, p)
  <2>1. CASE k = 1
    BY <1>1, <1>2, <2>1
  <2>2. CASE k # 1
    <3>1. k - 1 \in 1..Len(t) /\ t[k - 1] = s[(k - 1) + 1] /\ (k - 1) + 1 = k
      BY <1>1, <2>2 DEF t
    <3> QED
      BY <1>2, <3>1 DEF Contains
  <2> QED
    BY <2>1, <2>2
<1> QED
  BY <1>2, TailHechos DEF Contains, t

(* A push adds the process pushed and no other. *)
LEMMA ContainsAppend ==
  ASSUME NEW S, NEW s \in Seq(S), NEW e \in S, NEW p
  PROVE  Contains(Append(s, e), p) <=> Contains(s, p) \/ e = p
<1>1. /\ Len(s) \in Nat /\ Len(Append(s, e)) = Len(s) + 1
      /\ Append(s, e)[Len(s) + 1] = e
      /\ \A k \in 1..Len(s) : Append(s, e)[k] = s[k]
  BY LenProperties, AppendProperties
<1> DEFINE t == Append(s, e)
<1> HIDE DEF t
<1>2. ASSUME Contains(t, p) PROVE Contains(s, p) \/ e = p
  BY <1>2, AppendHechos DEF t
<1>3. ASSUME Contains(s, p) PROVE Contains(t, p)
  <2>1. PICK k \in 1..Len(s) : s[k] = p
    BY <1>3 DEF Contains
  <2>2. k \in 1..Len(t) /\ t[k] = p
    BY <1>1, <2>1 DEF t
  <2> QED
    BY <2>2 DEF Contains
<1>4. Contains(t, e)
  <2>1. Len(s) + 1 \in 1..Len(t) /\ t[Len(s) + 1] = e
    BY <1>1 DEF t
  <2> QED
    BY <2>1 DEF Contains
<1> QED
  BY <1>2, <1>3, <1>4 DEF t

(***************************************************************************)
(* The state of the process each holder of a mx_PCB has, and of the one in *)
(* the CPU, whose mx_PCB is free.                                          *)
(***************************************************************************)
ConElPCB == {"procesa", "syscall", "WAIT", "SIGNAL", "IO", "despierta"}
EnLaCpu == {"recibe", "actualiza"}

EstadoCrear == pc[Crear] = "memoria" => estado[actual[Crear]] = "NEW"
EstadoElim ==
    pc[Elim] \in {"recursos", "libera", "despierta"} =>
        estado[actual[Elim]] = "EXIT"
EstadoPlan ==
    /\ pc[Plan] \in ConElPCB => estado[actual[Plan]] = "EXEC"
    /\ pc[Plan] = "cierre" => estado[actual[Plan]] \in {"EXEC", "BLOCKED", "EXIT"}
EstadoDisp ==
    \A i \in Ifaces : occupant[i] # Nadie => estado[occupant[i]] = "BLOCKED"
EstadoCpu ==
    pc[Plan] \in EnLaCpu => estado[actual[Plan]] \in {"EXEC", "EXIT", "DELETED"}
UnoEnExec ==
    \A p \in PID : estado[p] = "EXEC" =>
        actual[Plan] = p /\ pc[Plan] \in EnLaCpu \union ConElPCB \union {"cierre"}

EstadosOK ==
    /\ EstadoCrear /\ EstadoElim /\ EstadoPlan /\ EstadoDisp
    /\ EstadoCpu /\ UnoEnExec

(* A process moves from one state to another, and no other process does. *)
Muda(q, e, f) == estado[q] = e /\ estado' = [estado EXCEPT ![q] = f]

(* What each thread does to the states, and with what right. *)
LEMMA MudaCrear ==
  ASSUME KInv, EstadoCrear, DelCrear
  PROVE  \/ UNCHANGED estado
         \/ /\ CrearAdmite /\ actual[Crear] \in PID
            /\ TieneElPCB(Crear, actual[Crear])
            /\ Muda(actual[Crear], "NEW", "READY")
<1>1. CASE CrearAdmite
  BY <1>1 DEF CrearAdmite, KInv, ManosCrear, TieneElPCB, Muda, EstadoCrear
<1> QED
  BY <1>1, HuellaCrear

(* desbloquear makes a BLOCKED process READY, or does nothing. *)
LEMMA DesbloquearMuda ==
  ASSUME NEW p \in PID, Desbloquear(p)
  PROVE  UNCHANGED estado \/ Muda(p, "BLOCKED", "READY")
  BY DEF Desbloquear, Muda

(* The changes of state of eliminar_proceso. *)
ParesElim == {<<"NEW", "DELETED">>, <<"EXEC", "EXIT">>, <<"READY", "EXIT">>,
              <<"BLOCKED", "EXIT">>, <<"EXIT", "DELETED">>,
              <<"BLOCKED", "READY">>}

(* eliminar_proceso changes a state under the mx_PCB it finds free or, when *)
(* it deletes, under the one it holds.                                      *)
LEMMA MudaElim ==
  ASSUME KInv, EstadoElim, DelElim
  PROVE  \/ UNCHANGED estado
         \/ \E q \in PID, e, f \in Estados :
              /\ Muda(q, e, f) /\ <<e, f>> \in ParesElim
              /\ \/ Libre(mx_PCB, q)
                 \/ ElimBorra /\ q = actual[Elim]
<1> USE DEF ParesElim, Muda, Estados
<1>0. ManosElim /\ PCBTypeOK
  BY DEF KInv
<1>1. CASE ElimNew
  BY <1>0, <1>1 DEF ElimNew, ElimCaso, ManosElim
<1>2. CASE ElimExec
  BY <1>0, <1>2 DEF ElimExec, ElimCaso, ManosElim
<1>3. CASE ElimVivo
  <2>1. /\ actual[Elim] \in PID /\ Libre(mx_PCB, actual[Elim])
        /\ estado[actual[Elim]] \in {"READY", "BLOCKED"}
        /\ estado' = [estado EXCEPT ![actual[Elim]] = "EXIT"]
    BY <1>0, <1>3 DEF ElimVivo, ElimCaso, ManosElim, EnviarAExit
  <2> QED
    BY <2>1
<1>4. CASE ElimDespierta
  <2>1. otro[Elim] \in PID /\ Libre(mx_PCB, otro[Elim]) /\ Desbloquear(otro[Elim])
    BY <1>0, <1>4 DEF ElimDespierta, ManosElim
  <2>2. \/ UNCHANGED estado
        \/ /\ estado[otro[Elim]] = "BLOCKED"
           /\ estado' = [estado EXCEPT ![otro[Elim]] = "READY"]
    BY <2>1 DEF Desbloquear
  <2>3. CASE /\ estado[otro[Elim]] = "BLOCKED"
             /\ estado' = [estado EXCEPT ![otro[Elim]] = "READY"]
    <3> DEFINE q == otro[Elim]
    <3>1. /\ q \in PID /\ Libre(mx_PCB, q) /\ Muda(q, "BLOCKED", "READY")
          /\ "BLOCKED" \in Estados /\ "READY" \in Estados
          /\ <<"BLOCKED", "READY">> \in ParesElim
      BY <2>1, <2>3
    <3> HIDE DEF q, Muda, Estados, ParesElim
    <3> QED
      BY <3>1, Zenon
  <2> QED
    BY <2>2, <2>3
<1>5. CASE ElimBorra
  BY <1>0, <1>5 DEF ElimBorra, ManosElim, EstadoElim
<1> QED
  BY <1>1, <1>2, <1>3, <1>4, <1>5, HuellaElim

(* Of the commands, only proc_start changes a state. *)
LEMMA MudaConsola ==
  ASSUME DeConsola
  PROVE  UNCHANGED estado \/ \E q \in PID : Muda(q, "INEXISTENTE", "NEW")
<1>1. ASSUME NEW p \in PID, ProcStart(p) PROVE Muda(p, "INEXISTENTE", "NEW")
  BY <1>1 DEF ProcStart, Muda
<1> QED
  BY <1>1, HuellaConsola

(* IN unblocks or ends its occupant, and OUT ends the process it refuses. *)
LEMMA MudaIfaces ==
  ASSUME KInv, EstadoDisp, DeIfaces
  PROVE  \/ UNCHANGED estado
         \/ \E q \in PID, f \in {"READY", "EXIT"}, i \in Ifaces :
              /\ Muda(q, "BLOCKED", f)
              /\ \/ Libre(mx_PCB, q) /\ OutRechaza(i)
                 \/ occupant[i] = q /\ (InIOFin(i) \/ InDesconexion(i))
<1>0. ManosOut /\ InterfacesTypeOK
  BY DEF KInv
<1>1. ASSUME NEW i \in Ifaces, InIOFin(i)
      PROVE  \/ UNCHANGED estado
             \/ occupant[i] \in PID /\ Muda(occupant[i], "BLOCKED", "READY")
  BY <1>0, <1>1, DesbloquearMuda DEF InIOFin, InterfacesTypeOK
<1>2. ASSUME NEW i \in Ifaces, InDesconexion(i)
      PROVE  \/ UNCHANGED estado
             \/ occupant[i] \in PID /\ Muda(occupant[i], "BLOCKED", "EXIT")
  <2>1. CASE occupant[i] = Nadie
    BY <1>2, <2>1 DEF InDesconexion
  <2>2. CASE occupant[i] # Nadie
    <3>1. /\ occupant[i] \in PID
          /\ estado' = [estado EXCEPT ![occupant[i]] = "EXIT"]
      BY <1>0, <1>2, <2>2 DEF InDesconexion, EnviarAExit, InterfacesTypeOK
    <3> QED
      BY <2>2, <3>1 DEF Muda, EstadoDisp
  <2> QED
    BY <2>1, <2>2
<1>3. ASSUME NEW i \in Ifaces, OutRechaza(i)
      PROVE  /\ pid_out[i] \in PID /\ Muda(pid_out[i], "BLOCKED", "EXIT")
             /\ Libre(mx_PCB, pid_out[i])
  BY <1>0, <1>3 DEF OutRechaza, OutConPCB, EnviarAExit, ManosOut, Muda
<1>4. CASE \E i \in Ifaces : InIOFin(i)
  BY <1>1, <1>4
<1>5. CASE \E i \in Ifaces : InDesconexion(i)
  BY <1>2, <1>5
<1>6. CASE \E i \in Ifaces : OutRechaza(i)
  BY <1>3, <1>6
<1> QED
  BY <1>4, <1>5, <1>6, HuellaIfaces

(* The changes of state of the planificador. *)
ParesPlan == {<<"READY", "EXEC">>, <<"EXEC", "EXEC">>, <<"EXEC", "BLOCKED">>,
              <<"EXEC", "READY">>, <<"EXEC", "EXIT">>, <<"BLOCKED", "READY">>}

(* The planificador changes a state under a mx_PCB it finds free or has. *)
LEMMA MudaPlan ==
  ASSUME KInv, EstadoPlan, EstadoCpu, DelPlan
  PROVE  \/ UNCHANGED estado
         \/ \E q \in PID, e, f \in Estados :
              /\ Muda(q, e, f) /\ <<e, f>> \in ParesPlan
              /\ Libre(mx_PCB, q) \/ TieneElPCB(Plan, q)
         \/ /\ PlanMatado /\ actual[Plan] \in PID
            /\ Libre(mx_PCB, actual[Plan])
            /\ estado[actual[Plan]] \in {"EXIT", "DELETED"}
            /\ estado' = [estado EXCEPT ![actual[Plan]] = "EXIT"]
<1> USE DEF ParesPlan, Muda, Estados
<1>0. ManosPlan /\ PCBTypeOK
  BY DEF KInv
<1> DEFINE p == actual[Plan]
           Meta == \E q \in PID, e, f \in Estados :
              /\ Muda(q, e, f) /\ <<e, f>> \in ParesPlan
              /\ Libre(mx_PCB, q) \/ TieneElPCB(Plan, q)
<1>1. ASSUME NEW q \in PID, NEW e \in Estados, NEW f \in Estados,
             <<e, f>> \in ParesPlan, Muda(q, e, f),
             Libre(mx_PCB, q) \/ TieneElPCB(Plan, q)
      PROVE  Meta
  BY <1>1
<1> HIDE DEF Meta
<1>2. CASE PlanDespacha
  <2>1. p \in PID /\ Libre(mx_PCB, p) /\ Muda(p, "READY", "EXEC")
    BY <1>0, <1>2 DEF PlanDespacha, EjecutarProceso, ManosPlan
  <2> QED
    BY <1>1, <2>1 DEF Meta
<1>3. CASE PlanMatado
  BY <1>0, <1>3 DEF PlanMatado, EnviarAExit, ManosPlan, EstadoCpu, EnLaCpu
<1>4. ASSUME pc[Plan] \in ConElPCB \union {"cierre"}
      PROVE  p \in PID /\ TieneElPCB(Plan, p)
  BY <1>0, <1>4 DEF ConElPCB, ManosPlan, TieneElPCB
<1>5. CASE PlanInvalida \/ PlanTermina
  <2>1. pc[Plan] = "procesa" /\ estado' = [estado EXCEPT ![p] = "EXIT"]
    BY <1>5 DEF PlanInvalida, PlanTermina, PlanProcesa, PlanEnviarAExit,
       EnviarAExit
  <2>2. p \in PID /\ TieneElPCB(Plan, p) /\ Muda(p, "EXEC", "EXIT")
    BY <1>4, <2>1 DEF EstadoPlan, ConElPCB
  <2> QED
    BY <1>1, <2>2 DEF Meta
<1>6. CASE PlanLeeSyscall
  <2>1. CASE UNCHANGED estado
    BY <2>1
  <2>2. CASE ~UNCHANGED estado
    <3>1. pc[Plan] = "syscall" /\ estado' = [estado EXCEPT ![p] = "EXIT"]
      BY <1>6, <2>2 DEF PlanLeeSyscall, PlanSinCambio, PlanEnviarAExit,
         EnviarAExit
    <3>2. p \in PID /\ TieneElPCB(Plan, p) /\ Muda(p, "EXEC", "EXIT")
      BY <1>4, <3>1 DEF EstadoPlan, ConElPCB
    <3> QED
      BY <1>1, <3>2 DEF Meta
  <2> QED
    BY <2>1, <2>2
<1>7. CASE PlanInterfazInvalida
  <2>1. pc[Plan] = "IO" /\ estado' = [estado EXCEPT ![p] = "EXIT"]
    BY <1>7 DEF PlanInterfazInvalida, PlanEnviarAExit, EnviarAExit
  <2>2. p \in PID /\ TieneElPCB(Plan, p) /\ Muda(p, "EXEC", "EXIT")
    BY <1>4, <2>1 DEF EstadoPlan, ConElPCB
  <2> QED
    BY <1>1, <2>2 DEF Meta
<1>8. CASE PlanWait
  <2>1. CASE UNCHANGED estado
    BY <2>1
  <2>2. CASE ~UNCHANGED estado
    <3>1. pc[Plan] = "WAIT" /\ estado' = [estado EXCEPT ![p] = "BLOCKED"]
      BY <1>8, <2>2 DEF PlanWait
    <3>2. p \in PID /\ TieneElPCB(Plan, p) /\ Muda(p, "EXEC", "BLOCKED")
      BY <1>4, <3>1 DEF EstadoPlan, ConElPCB
    <3> QED
      BY <1>1, <3>2 DEF Meta
  <2> QED
    BY <2>1, <2>2
<1>9. CASE PlanBloqueaIO
  <2>1. pc[Plan] = "IO" /\ estado' = [estado EXCEPT ![p] = "BLOCKED"]
    BY <1>9 DEF PlanBloqueaIO
  <2>2. p \in PID /\ TieneElPCB(Plan, p) /\ Muda(p, "EXEC", "BLOCKED")
    BY <1>4, <2>1 DEF EstadoPlan, ConElPCB
  <2> QED
    BY <1>1, <2>2 DEF Meta
<1>10. CASE PlanDespierta
  <2>1. /\ otro[Plan] \in PID /\ Libre(mx_PCB, otro[Plan])
        /\ Desbloquear(otro[Plan])
    BY <1>0, <1>10 DEF PlanDespierta, ManosPlan
  <2>2. \/ UNCHANGED estado
        \/ /\ estado[otro[Plan]] = "BLOCKED"
           /\ estado' = [estado EXCEPT ![otro[Plan]] = "READY"]
    BY <2>1 DEF Desbloquear
  <2> QED
    BY <1>1, <2>1, <2>2 DEF Meta
<1>11. CASE PlanDesaloja
  <2>1. p \in PID /\ TieneElPCB(Plan, p) /\ Muda(p, "EXEC", "READY")
    BY <1>4, <1>11 DEF PlanDesaloja
  <2> QED
    BY <1>1, <2>1 DEF Meta
<1>12. CASE PlanRedespacha
  <2>1. p \in PID /\ TieneElPCB(Plan, p) /\ Muda(p, "EXEC", "EXEC")
    BY <1>4, <1>12 DEF PlanRedespacha, EjecutarProceso
  <2> QED
    BY <1>1, <2>1 DEF Meta
<1>13. CASE PlanToma \/ PlanPasaPausa \/ PlanDescarta \/ PlanRecibe
              \/ PlanActualiza \/ PlanInterrumpido \/ PlanPideSyscall
              \/ PlanSignal \/ PlanSuelta
  BY <1>13 DEF PlanToma, PlanPasaPausa, PlanDescarta, PlanRecibe,
     PlanActualiza, PlanInterrumpido, PlanPideSyscall, PlanSignal, PlanSuelta,
     PlanSinCambio
<1> QED
  BY <1>2, <1>3, <1>5, <1>6, <1>7, <1>8, <1>9, <1>10, <1>11, <1>12, <1>13
     DEF DelPlan, PlanNext, Meta

(* While a thread or a device has the PCB of a process, only it changes the *)
(* state of that process.                                                   *)
LEMMA LibreNadie ==
  ASSUME MutexOK, NEW q \in PID, Libre(mx_PCB, q)
  PROVE  NadieLoTiene(q)
  BY DEF MutexOK

(* A taken mx_PCB has one owner. *)
LEMMA DuenioUnico ==
  ASSUME MutexOK, NEW q \in PID
  PROVE  /\ \A g, h \in Hilos : TieneElPCB(g, q) /\ TieneElPCB(h, q) => g = h
         /\ \A i, j \in Ifaces : occupant[i] = q /\ occupant[j] = q => i = j
         /\ \A h \in Hilos, i \in Ifaces : ~ (TieneElPCB(h, q) /\ occupant[i] = q)
  BY DEF MutexOK, NadieLoTiene, LoTieneUno

(* The states a process is in while somebody has its PCB. *)
LEMMA EstadoDeTenido ==
  ASSUME KInv, EstadosOK, NEW h \in Hilos, NEW p \in PID, TieneElPCB(h, p)
  PROVE  estado[p] # "INEXISTENTE"
  BY DEF EstadosOK, EstadoCrear, EstadoElim, EstadoPlan, TieneElPCB, ConElPCB

(* Some process and no other may have changed its state. *)
Cambia(q) == \E f \in Estados : estado' = [estado EXCEPT ![q] = f]

(* What a change of one process leaves alone. *)
LEMMA CambiaHechos ==
  ASSUME NEW q \in PID
  PROVE  /\ \A e, f \in Estados : Muda(q, e, f) => Cambia(q)
         /\ PCBTypeOK /\ Cambia(q) =>
              \A p \in PID \ {q} : estado'[p] = estado[p]
  BY DEF Muda, Cambia, PCBTypeOK

(* The rule of mx_PCB: a step of anybody else leaves alone the state of the *)
(* process whose PCB a thread or a device has.                              *)
LEMMA EstadoProtegido ==
  ASSUME KInv, MutexOK, EstadosOK, [Next]_vars, NEW p \in PID
  PROVE  /\ TieneElPCB(Crear, p) /\ ~DelCrear => estado'[p] = estado[p]
         /\ TieneElPCB(Elim, p) /\ ~ElimBorra => estado'[p] = estado[p]
         /\ TieneElPCB(Plan, p) /\ ~DelPlan => estado'[p] = estado[p]
         /\ \A i \in Ifaces :
              occupant[i] = p /\ ~InIOFin(i) /\ ~InDesconexion(i) =>
                estado'[p] = estado[p]
<1>0. /\ PCBTypeOK /\ InterfacesTypeOK /\ EstadoCrear /\ EstadoElim
      /\ EstadoPlan /\ EstadoCpu /\ EstadoDisp
      /\ Crear \in Hilos /\ Elim \in Hilos /\ Plan \in Hilos
  BY DEF KInv, EstadosOK, Hilos
<1>1. ASSUME NEW q \in PID, q # p, Cambia(q)
      PROVE  estado'[p] = estado[p]
  BY <1>0, <1>1, CambiaHechos
<1>a. /\ "NEW" \in Estados /\ "READY" \in Estados /\ "INEXISTENTE" \in Estados
      /\ "EXIT" \in Estados /\ "BLOCKED" \in Estados
  BY DEF Estados
<1>2. CASE DelCrear
  <2>1. \/ UNCHANGED estado
        \/ /\ TieneElPCB(Crear, actual[Crear]) /\ actual[Crear] \in PID
           /\ Cambia(actual[Crear])
    BY <1>0, <1>2, <1>a, MudaCrear, CambiaHechos
  <2> QED
    BY <1>0, <1>1, <1>2, <2>1, DuenioUnico
<1>3. CASE DelElim
  <2>1. \/ UNCHANGED estado
        \/ \E q \in PID : Cambia(q) /\ (Libre(mx_PCB, q)
                                          \/ (ElimBorra /\ q = actual[Elim]))
    BY <1>0, <1>3, MudaElim, CambiaHechos
  <2>2. ElimBorra => TieneElPCB(Elim, actual[Elim])
    BY DEF ElimBorra, TieneElPCB
  <2>3. CASE \E q \in PID : Cambia(q) /\ Libre(mx_PCB, q)
    BY <1>0, <1>1, <2>3, LibreNadie DEF NadieLoTiene
  <2>4. CASE \E q \in PID : Cambia(q) /\ ElimBorra /\ q = actual[Elim]
    BY <1>0, <1>1, <2>2, <2>4, DuenioUnico
  <2> QED
    BY <2>1, <2>3, <2>4
<1>4. CASE DelPlan
  <2>1. \/ UNCHANGED estado
        \/ \E q \in PID :
             Cambia(q) /\ (Libre(mx_PCB, q) \/ TieneElPCB(Plan, q))
    <3>1. CASE PlanMatado /\ actual[Plan] \in PID /\ Libre(mx_PCB, actual[Plan])
               /\ estado' = [estado EXCEPT ![actual[Plan]] = "EXIT"]
      BY <1>a, <3>1 DEF Cambia
    <3> QED
      BY <1>0, <1>4, <3>1, MudaPlan, CambiaHechos
  <2>3. CASE \E q \in PID : Cambia(q) /\ Libre(mx_PCB, q)
    BY <1>0, <1>1, <2>3, LibreNadie DEF NadieLoTiene
  <2>4. CASE \E q \in PID : Cambia(q) /\ TieneElPCB(Plan, q)
    BY <1>0, <1>1, <1>4, <2>4, DuenioUnico
  <2> QED
    BY <2>1, <2>3, <2>4
<1>5. CASE DeConsola
  <2>1. \/ UNCHANGED estado
        \/ \E q \in PID : Cambia(q) /\ estado[q] = "INEXISTENTE"
    BY <1>5, <1>a, MudaConsola, CambiaHechos DEF Muda
  <2>2. \A i \in Ifaces : occupant[i] = p => estado[p] # "INEXISTENTE"
    BY <1>0 DEF EstadoDisp
  <2>3. \A h \in Hilos : TieneElPCB(h, p) => estado[p] # "INEXISTENTE"
    BY EstadoDeTenido
  <2> QED
    BY <1>0, <1>1, <2>1, <2>2, <2>3
<1>6. CASE DeIfaces
  <2>1. \/ UNCHANGED estado
        \/ \E q \in PID, i \in Ifaces :
             Cambia(q) /\ (Libre(mx_PCB, q)
               \/ (occupant[i] = q /\ (InIOFin(i) \/ InDesconexion(i))))
    BY <1>0, <1>6, <1>a, MudaIfaces, CambiaHechos
  <2>3. CASE \E q \in PID : Cambia(q) /\ Libre(mx_PCB, q)
    BY <1>0, <1>1, <2>3, LibreNadie DEF NadieLoTiene
  <2>4. CASE \E q \in PID, i \in Ifaces :
               Cambia(q) /\ occupant[i] = q /\ (InIOFin(i) \/ InDesconexion(i))
    BY <1>0, <1>1, <2>4, DuenioUnico
  <2> QED
    BY <2>1, <2>3, <2>4
<1>7. CASE DelReloj \/ DeCpu \/ UNCHANGED vars
  BY <1>7, HuellaReloj, HuellaCpu DEF vars, kernel_vars, vKernelAjeno
<1> QED
  BY <1>2, <1>3, <1>4, <1>5, <1>6, <1>7 DEF Next

(* What any thread but the planificador may do to the state of a process. *)
ParesAjenos == {<<"INEXISTENTE", "NEW">>, <<"NEW", "READY">>,
                <<"NEW", "DELETED">>, <<"EXEC", "EXIT">>, <<"READY", "EXIT">>,
                <<"BLOCKED", "EXIT">>, <<"BLOCKED", "READY">>,
                <<"EXIT", "DELETED">>}

(* A pair of one thread is a pair of all but the planificador. *)
LEMMA MudaPares ==
  ASSUME PCBTypeOK, NEW q \in PID, NEW e \in Estados, NEW f \in Estados,
         Muda(q, e, f), <<e, f>> \in ParesAjenos, NEW p \in PID
  PROVE  estado'[p] = estado[p] \/ <<estado[p], estado'[p]>> \in ParesAjenos
<1>1. CASE p = q
  <2>1. estado[p] = e /\ estado'[p] = f
    BY <1>1 DEF Muda, PCBTypeOK
  <2> QED
    BY <2>1
<1>2. CASE p # q
  BY <1>2 DEF Muda, PCBTypeOK
<1> QED
  BY <1>1, <1>2

(* What a step that is not of the planificador may do to a state. *)
LEMMA EstadoAjeno ==
  ASSUME KInv, EstadosOK, [Next]_vars, ~DelPlan, NEW p \in PID
  PROVE  estado'[p] = estado[p] \/ <<estado[p], estado'[p]>> \in ParesAjenos
<1>0. /\ PCBTypeOK /\ EstadoCrear /\ EstadoElim /\ EstadoDisp
      /\ "NEW" \in Estados /\ "READY" \in Estados /\ "INEXISTENTE" \in Estados
      /\ "EXIT" \in Estados /\ "BLOCKED" \in Estados
  BY DEF KInv, EstadosOK, Estados
<1>1. CASE DelCrear
  <2>1. <<"NEW", "READY">> \in ParesAjenos
    BY DEF ParesAjenos
  <2> QED
    BY <1>0, <1>1, <2>1, MudaCrear, MudaPares
<1>2. CASE DelElim
  <2>1. ParesElim \subseteq ParesAjenos
    BY DEF ParesElim, ParesAjenos
  <2> QED
    BY <1>0, <1>2, <2>1, MudaElim, MudaPares
<1>3. CASE DeConsola
  <2>1. <<"INEXISTENTE", "NEW">> \in ParesAjenos
    BY DEF ParesAjenos
  <2> QED
    BY <1>0, <1>3, <2>1, MudaConsola, MudaPares
<1>4. CASE DeIfaces
  <2>1. \A f \in {"READY", "EXIT"} : <<"BLOCKED", f>> \in ParesAjenos
    BY DEF ParesAjenos
  <2> QED
    BY <1>0, <1>4, <2>1, MudaIfaces, MudaPares
<1>5. CASE DelReloj \/ DeCpu \/ UNCHANGED vars
  BY <1>5, HuellaReloj, HuellaCpu DEF vars, kernel_vars, vKernelAjeno
<1> QED
  BY <1>1, <1>2, <1>3, <1>4, <1>5 DEF Next

(* EstadosOK, part by part. *)
LEMMA EstadoCrearPaso ==
  ASSUME KInv, MutexOK, EstadosOK, [Next]_vars
  PROVE  EstadoCrear'
<1> SUFFICES ASSUME pc'[Crear] = "memoria"
             PROVE  estado'[actual'[Crear]] = "NEW"
  BY DEF EstadoCrear
<1>0. /\ PcTypeOK /\ ManosTypeOK /\ PCBTypeOK /\ ManosCrear /\ EstadoCrear
      /\ Crear \in Hilos
  BY DEF KInv, EstadosOK, Hilos
<1>1. CASE DelCrear
  <2>1. CASE CrearPide
    BY <2>1, <1>0, HuellaCrear DEF CrearPide, CrearAdmite, PCBTypeOK
  <2>2. CASE CrearDespierta \/ CrearEnAddProg \/ CrearToma \/ CrearDescarta
             \/ CrearAdmite
    BY <2>2, <1>0 DEF CrearDespierta, CrearEnAddProg, CrearToma,
       CrearDescarta, CrearAdmite, PcTypeOK
  <2> QED
    BY <1>1, <2>1, <2>2 DEF DelCrear, CrearNext
<1>2. CASE ~DelCrear
  <2>1. UNCHANGED <<pc[Crear], actual[Crear]>>
    BY <1>0, <1>2, OtrosHilos
  <2>2. actual[Crear] \in PID /\ estado[actual[Crear]] = "NEW"
        /\ TieneElPCB(Crear, actual[Crear])
    BY <1>0, <2>1 DEF EstadoCrear, ManosCrear, TieneElPCB
  <2> QED
    BY <1>2, <2>1, <2>2, EstadoProtegido
<1> QED
  BY <1>1, <1>2

(* While eliminar_proceso has a PCB its process stays EXIT. *)
LEMMA EstadoElimPaso ==
  ASSUME KInv, MutexOK, EstadosOK, [Next]_vars
  PROVE  EstadoElim'
<1> DEFINE Dentro == {"recursos", "libera", "despierta"}
<1> SUFFICES ASSUME pc'[Elim] \in Dentro
             PROVE  estado'[actual'[Elim]] = "EXIT"
  BY DEF EstadoElim
<1>0. /\ PcTypeOK /\ ManosTypeOK /\ PCBTypeOK /\ ManosElim /\ EstadoElim
      /\ Elim \in Hilos
  BY DEF KInv, EstadosOK, Hilos
<1>1. CASE pc[Elim] \in Dentro /\ ~ElimBorra
           /\ UNCHANGED actual[Elim]
  <2>1. actual[Elim] \in PID /\ estado[actual[Elim]] = "EXIT"
        /\ TieneElPCB(Elim, actual[Elim])
    BY <1>0, <1>1 DEF EstadoElim, ManosElim, TieneElPCB
  <2> QED
    BY <1>1, <2>1, EstadoProtegido
<1>2. CASE DelElim
  <2>1. CASE ElimExit
    BY <2>1, <1>0 DEF ElimExit, PCBTypeOK
  <2>2. CASE ElimToma \/ ElimNew \/ ElimExec \/ ElimVivo \/ ElimNada \/ ElimBorra
    <3>1. pc'[Elim] \in {"mx_PCB", "espera"}
      BY <2>2, <1>0 DEF ElimToma, ElimNew, ElimExec, ElimVivo, ElimNada,
         ElimBorra, ElimCaso, PcTypeOK
    <3> QED
      BY <3>1
  <2>3. CASE (ElimTomaRecurso \/ ElimLibera \/ ElimDespierta \/ ElimSuelta)
             /\ ~ElimBorra
    BY <2>3, <1>1 DEF ElimTomaRecurso, ElimLibera, ElimDespierta, ElimSuelta
  <2> QED
    BY <1>2, <2>1, <2>2, <2>3 DEF DelElim, ElimNext
<1>3. CASE ~DelElim
  <2>1. UNCHANGED <<pc[Elim], actual[Elim]>>
    BY <1>0, <1>3, OtrosHilos
  <2>2. CASE ~ElimBorra
    BY <1>1, <2>1, <2>2
  <2>3. CASE ElimBorra
    BY <2>1, <2>3, <1>0 DEF ElimBorra, PcTypeOK
  <2> QED
    BY <2>2, <2>3
<1> QED
  BY <1>2, <1>3

(* While a device has a PCB its process stays BLOCKED. *)
LEMMA EstadoDispPaso ==
  ASSUME KInv, MutexOK, EstadosOK, [Next]_vars
  PROVE  EstadoDisp'
<1> SUFFICES ASSUME NEW i \in Ifaces, occupant'[i] # Nadie
             PROVE  estado'[occupant'[i]] = "BLOCKED"
  BY DEF EstadoDisp
<1>0. InterfacesTypeOK /\ PCBTypeOK /\ ManosOut /\ EstadoDisp
  BY DEF KInv, EstadosOK
<1>1. CASE UNCHANGED occupant[i] /\ ~InIOFin(i) /\ ~InDesconexion(i)
  <2>1. occupant[i] \in PID /\ estado[occupant[i]] = "BLOCKED"
    BY <1>0, <1>1 DEF InterfacesTypeOK, EstadoDisp
  <2> QED
    BY <1>1, <2>1, EstadoProtegido
<1>2. CASE ~DeIfaces
  <2>1. UNCHANGED vIfaceHilos
    BY <1>2, HuellaCrear, HuellaElim, HuellaPlan, HuellaReloj, HuellaConsola,
       HuellaCpu DEF Next, vars
  <2>2. ~InIOFin(i)
    BY <2>1, <1>0 DEF InIOFin, InterfacesTypeOK
  <2>3. ~InDesconexion(i)
    BY <2>1, <1>0 DEF InDesconexion, InterfacesTypeOK
  <2> QED
    BY <1>1, <2>1, <2>2, <2>3
<1>3. CASE DeIfaces
  <2>1. CASE InIOFin(i) \/ InDesconexion(i)
    BY <2>1, <1>0 DEF InIOFin, InDesconexion, InterfacesTypeOK
  <2>2. CASE OutEntrega(i)
    BY <2>2, <1>0 DEF OutEntrega, InterfacesTypeOK, PCBTypeOK
  <2>3. CASE UNCHANGED occupant[i] /\ ~InIOFin(i) /\ ~InDesconexion(i)
    BY <1>1, <2>3
  <2>4. UNCHANGED occupant[i] \/ InIOFin(i) \/ InDesconexion(i) \/ OutEntrega(i)
    <3>1. CASE UNCHANGED occupant
      BY <3>1
    <3>2. ASSUME NEW j \in Ifaces, j # i,
                 InIOFin(j) \/ InDesconexion(j) \/ OutEntrega(j)
          PROVE  UNCHANGED occupant[i]
      BY <3>2, <1>0 DEF InIOFin, InDesconexion, OutEntrega, InterfacesTypeOK
    <3> QED
      BY <1>3, <3>1, <3>2, HuellaIfacesPCB
  <2> QED
    BY <2>1, <2>2, <2>3, <2>4
<1> QED
  BY <1>2, <1>3

(* While the planificador has a PCB its process stays as it found it. *)
LEMMA EstadoPlanPaso ==
  ASSUME KInv, MutexOK, EstadosOK, [Next]_vars
  PROVE  EstadoPlan'
<1>0. /\ PcTypeOK /\ ManosTypeOK /\ PCBTypeOK /\ ManosPlan /\ EstadoPlan
      /\ Plan \in Hilos
  BY DEF KInv, EstadosOK, Hilos
<1> DEFINE p == actual[Plan]
           Tiene == ConElPCB \union {"cierre"}
<1>1. pc[Plan] \in Tiene => p \in PID /\ TieneElPCB(Plan, p)
  BY <1>0 DEF ManosPlan, TieneElPCB, ConElPCB
<1>2. CASE ~DelPlan
  <2>1. UNCHANGED <<pc[Plan], actual[Plan]>>
    BY <1>0, <1>2, OtrosHilos
  <2>2. pc[Plan] \in Tiene => estado'[p] = estado[p]
    BY <1>1, <1>2, EstadoProtegido
  <2> QED
    BY <1>0, <2>1, <2>2 DEF EstadoPlan
<1>3. CASE DelPlan
  <2>1. CASE PlanActualiza
    BY <2>1, <1>0 DEF PlanActualiza, EstadoPlan, PcTypeOK, ConElPCB
  <2>2. CASE PlanInvalida \/ PlanTermina \/ PlanInterfazInvalida
    <3>1. /\ pc'[Plan] = "cierre" /\ UNCHANGED actual
          /\ estado' = [estado EXCEPT ![p] = "EXIT"]
          /\ pc[Plan] \in {"procesa", "IO"}
      BY <2>2, <1>0 DEF PlanInvalida, PlanTermina, PlanInterfazInvalida,
         PlanProcesa, PlanEnviarAExit, EnviarAExit, PcTypeOK
    <3> QED
      BY <1>0, <1>1, <3>1 DEF EstadoPlan, PCBTypeOK, ConElPCB
  <2>3. CASE PlanInterrumpido \/ PlanPideSyscall
    BY <2>3, <1>0 DEF PlanInterrumpido, PlanPideSyscall, PlanProcesa,
       PlanSinCambio, PcTypeOK, EstadoPlan, ConElPCB
  <2>4. CASE PlanLeeSyscall
    <3>1. pc[Plan] = "syscall" /\ UNCHANGED actual
      BY <2>4 DEF PlanLeeSyscall
    <3>2. CASE PlanEnviarAExit("INVALID_RESOURCE")
      <4>1. pc'[Plan] = "cierre" /\ estado' = [estado EXCEPT ![p] = "EXIT"]
        BY <3>2, <1>0 DEF PlanEnviarAExit, EnviarAExit, PcTypeOK
      <4> QED
        BY <1>0, <1>1, <3>1, <4>1 DEF EstadoPlan, PCBTypeOK, ConElPCB
    <3>3. CASE UNCHANGED estado
      BY <1>0, <3>1, <3>3 DEF EstadoPlan, ConElPCB
    <3> QED
      BY <2>4, <3>2, <3>3 DEF PlanLeeSyscall, PlanSinCambio
  <2>5. CASE PlanWait
    <3>1. /\ pc[Plan] = "WAIT" /\ pc'[Plan] = "cierre" /\ UNCHANGED actual
          /\ UNCHANGED estado \/ estado' = [estado EXCEPT ![p] = "BLOCKED"]
      BY <2>5, <1>0 DEF PlanWait, PcTypeOK
    <3> QED
      BY <1>0, <1>1, <3>1 DEF EstadoPlan, PCBTypeOK, ConElPCB
  <2>6. CASE PlanSignal
    <3>1. /\ pc[Plan] = "SIGNAL" /\ UNCHANGED <<actual, estado>>
      BY <2>6, <1>0 DEF PlanSignal
    <3> QED
      BY <1>0, <1>1, <3>1 DEF EstadoPlan, ConElPCB
  <2>7. CASE PlanDespierta
    <3>1. /\ pc[Plan] = "despierta" /\ UNCHANGED actual
          /\ pc'[Plan] = "cierre"
          /\ otro[Plan] \in PID /\ Libre(mx_PCB, otro[Plan])
          /\ Desbloquear(otro[Plan])
      BY <2>7, <1>0 DEF PlanDespierta, PcTypeOK, ManosPlan
    <3>2. otro[Plan] # p
      BY <1>0, <1>1, <3>1, LibreNadie DEF NadieLoTiene, ConElPCB
    <3>3. UNCHANGED estado \/ estado' = [estado EXCEPT ![otro[Plan]] = "READY"]
      BY <3>1 DEF Desbloquear
    <3>4. p \in PID
      BY <1>1, <3>1 DEF ConElPCB
    <3>5. estado'[p] = estado[p]
      BY <1>0, <3>1, <3>2, <3>3, <3>4 DEF PCBTypeOK
    <3> QED
      BY <1>0, <3>1, <3>5 DEF EstadoPlan, ConElPCB
  <2>8. CASE PlanBloqueaIO
    <3>1. /\ pc[Plan] = "IO" /\ pc'[Plan] = "cierre" /\ UNCHANGED actual
          /\ estado' = [estado EXCEPT ![p] = "BLOCKED"]
      BY <2>8, <1>0 DEF PlanBloqueaIO, PcTypeOK
    <3> QED
      BY <1>0, <1>1, <3>1 DEF EstadoPlan, PCBTypeOK, ConElPCB
  <2>9. CASE PlanToma \/ PlanPasaPausa \/ PlanDescarta \/ PlanDespacha
             \/ PlanRecibe \/ PlanMatado
    <3>1. pc'[Plan] \in {"pausa", "mx_PCB", "espera", "recibe", "actualiza"}
      BY <2>9, <1>0 DEF PlanToma, PlanPasaPausa, PlanDescarta, PlanDespacha,
         PlanRecibe, PlanMatado, PcTypeOK
    <3> QED
      BY <3>1 DEF EstadoPlan, ConElPCB
  <2>10. CASE PlanDesaloja \/ PlanRedespacha \/ PlanSuelta
    <3>1. pc'[Plan] \in {"espera", "recibe"}
      BY <2>10, <1>0 DEF PlanDesaloja, PlanRedespacha, PlanSuelta, PcTypeOK
    <3> QED
      BY <3>1 DEF EstadoPlan, ConElPCB
  <2> QED
    BY <1>3, <2>1, <2>2, <2>3, <2>4, <2>5, <2>6, <2>7, <2>8, <2>9, <2>10
       DEF DelPlan, PlanNext
<1> QED
  BY <1>2, <1>3

(* The process in the CPU, whose mx_PCB is free, can only be ended *)
(* meanwhile.                                                      *)
LEMMA EstadoCpuPaso ==
  ASSUME KInv, MutexOK, EstadosOK, [Next]_vars
  PROVE  EstadoCpu'
<1>0. /\ PcTypeOK /\ ManosTypeOK /\ PCBTypeOK /\ ManosPlan /\ EstadoPlan
      /\ EstadoCpu /\ Plan \in Hilos
  BY DEF KInv, EstadosOK, Hilos
<1> DEFINE p == actual[Plan]
<1>2. CASE ~DelPlan
  <2>1. UNCHANGED <<pc[Plan], actual[Plan]>>
    BY <1>0, <1>2, OtrosHilos
  <2>2. CASE pc[Plan] \in EnLaCpu
    <3>1. p \in PID /\ estado[p] \in {"EXEC", "EXIT", "DELETED"}
      BY <1>0, <2>2 DEF EstadoCpu, ManosPlan, EnLaCpu
    <3>2. estado'[p] = estado[p] \/ <<estado[p], estado'[p]>> \in ParesAjenos
      BY <1>2, <3>1, EstadoAjeno
    <3>3. estado'[p] \in {"EXEC", "EXIT", "DELETED"}
      BY <3>1, <3>2 DEF ParesAjenos
    <3> QED
      BY <2>1, <3>3 DEF EstadoCpu
  <2> QED
    BY <2>1, <2>2 DEF EstadoCpu
<1>3. CASE DelPlan
  <2>1. CASE PlanDespacha \/ PlanRedespacha
    <3>1. /\ UNCHANGED actual /\ p \in PID
          /\ estado' = [estado EXCEPT ![p] = "EXEC"]
      BY <2>1, <1>0 DEF PlanDespacha, PlanRedespacha, EjecutarProceso,
             ManosPlan
    <3> QED
      BY <1>0, <3>1 DEF EstadoCpu, PCBTypeOK
  <2>2. CASE PlanRecibe
    BY <2>2, <1>0 DEF PlanRecibe, EstadoCpu, EnLaCpu
  <2>3. CASE PlanToma \/ PlanPasaPausa \/ PlanDescarta \/ PlanMatado
             \/ PlanActualiza
    <3>1. pc'[Plan] \notin EnLaCpu
      BY <2>3, <1>0 DEF PlanToma, PlanPasaPausa, PlanDescarta, PlanMatado,
         PlanActualiza, PcTypeOK, EnLaCpu
    <3> QED
      BY <3>1 DEF EstadoCpu
  <2>4. CASE PlanInvalida \/ PlanTermina \/ PlanInterrumpido \/ PlanPideSyscall
             \/ PlanInterfazInvalida \/ PlanBloqueaIO \/ PlanDesaloja
             \/ PlanSuelta
    <3>1. pc'[Plan] \notin EnLaCpu
      BY <2>4, <1>0 DEF PlanInvalida, PlanTermina, PlanInterrumpido,
         PlanPideSyscall, PlanInterfazInvalida, PlanBloqueaIO, PlanDesaloja,
         PlanSuelta, PlanProcesa, PlanEnviarAExit, PlanSinCambio, PcTypeOK,
         EnLaCpu
    <3> QED
      BY <3>1 DEF EstadoCpu
  <2>5. CASE PlanLeeSyscall \/ PlanWait \/ PlanSignal \/ PlanDespierta
    <3>1. pc'[Plan] \notin EnLaCpu
      BY <2>5, <1>0 DEF PlanLeeSyscall, PlanWait, PlanSignal, PlanDespierta,
         PlanEnviarAExit, PlanSinCambio, PcTypeOK, EnLaCpu, OpsRecurso
    <3> QED
      BY <3>1 DEF EstadoCpu
  <2> QED
    BY <1>3, <2>1, <2>2, <2>3, <2>4, <2>5 DEF DelPlan, PlanNext
<1> QED
  BY <1>2, <1>3

(* At most one process is EXEC, and it is the one the planificador has. *)
LEMMA UnoEnExecPaso ==
  ASSUME KInv, MutexOK, EstadosOK, [Next]_vars
  PROVE  UnoEnExec'
<1> DEFINE Lugares == EnLaCpu \union ConElPCB \union {"cierre"}
<1> SUFFICES ASSUME NEW p \in PID, estado'[p] = "EXEC"
             PROVE  actual'[Plan] = p /\ pc'[Plan] \in Lugares
  BY DEF UnoEnExec
<1>0. /\ PcTypeOK /\ ManosTypeOK /\ PCBTypeOK /\ ManosPlan /\ EstadoPlan
      /\ EstadoCpu /\ UnoEnExec /\ Plan \in Hilos
  BY DEF KInv, EstadosOK, Hilos
<1>1. estado[p] = "EXEC" => actual[Plan] = p /\ pc[Plan] \in Lugares
  BY <1>0 DEF UnoEnExec
<1>2. CASE ~DelPlan
  <2>1. UNCHANGED <<pc[Plan], actual[Plan]>>
    BY <1>0, <1>2, OtrosHilos
  <2>2. estado'[p] = estado[p] \/ <<estado[p], estado'[p]>> \in ParesAjenos
    BY <1>2, EstadoAjeno
  <2>3. estado[p] = "EXEC"
    BY <2>2 DEF ParesAjenos
  <2> QED
    BY <1>1, <2>1, <2>3
<1>3. CASE DelPlan
  <2> HIDE <1>0
  <2>a. /\ PcTypeOK /\ ManosTypeOK /\ PCBTypeOK /\ ManosPlan /\ Plan \in Hilos
    BY <1>0
  <2>1. CASE PlanDespacha \/ PlanRedespacha
    <3>1. /\ UNCHANGED actual /\ actual[Plan] \in PID /\ pc'[Plan] = "recibe"
          /\ estado' = [estado EXCEPT ![actual[Plan]] = "EXEC"]
          /\ pc[Plan] = "mx_PCB" \/ pc[Plan] = "cierre"
      BY <2>1, <2>a DEF PlanDespacha, PlanRedespacha, EjecutarProceso,
         ManosPlan, PcTypeOK
    <3>2. p = actual[Plan]
      BY <1>1, <2>a, <3>1 DEF PCBTypeOK
    <3> QED
      BY <3>1, <3>2 DEF EnLaCpu
  <2>2. CASE PlanToma \/ PlanPasaPausa \/ PlanDescarta
    <3>1. UNCHANGED estado /\ pc[Plan] \notin Lugares
      BY <2>2 DEF PlanToma, PlanPasaPausa, PlanDescarta, EnLaCpu, ConElPCB
    <3> QED
      BY <1>1, <3>1
  <2>3. CASE PlanRecibe \/ PlanActualiza
    <3>1. /\ UNCHANGED <<estado, actual>> /\ pc'[Plan] \in Lugares
      BY <2>3, <2>a DEF PlanRecibe, PlanActualiza, PcTypeOK, EnLaCpu, ConElPCB
    <3> QED
      BY <1>1, <3>1
  <2>4. CASE PlanMatado
    <3>1. /\ actual[Plan] \in PID /\ estado[actual[Plan]] # "EXEC"
          /\ estado' = [estado EXCEPT ![actual[Plan]] = "EXIT"]
      BY <2>4, <2>a DEF PlanMatado, EnviarAExit, ManosPlan
    <3>2. estado[p] = "EXEC"
      BY <2>a, <3>1 DEF PCBTypeOK
    <3> QED
      BY <1>1, <3>1, <3>2
  <2>5. CASE PlanInvalida \/ PlanTermina \/ PlanInterfazInvalida
    <3>1. /\ pc[Plan] # "espera" /\ pc'[Plan] = "cierre" /\ UNCHANGED actual
          /\ estado' = [estado EXCEPT ![actual[Plan]] = "EXIT"]
      BY <2>5, <2>a DEF PlanInvalida, PlanTermina, PlanInterfazInvalida,
         PlanProcesa, PlanEnviarAExit, EnviarAExit, PcTypeOK
    <3>2. estado[p] = "EXEC"
      BY <2>a, <3>1 DEF PCBTypeOK, ManosPlan
    <3> QED
      BY <1>1, <3>1, <3>2
  <2>6. CASE PlanInterrumpido \/ PlanPideSyscall
    <3>1. /\ UNCHANGED <<estado, actual>> /\ pc'[Plan] \in Lugares
      BY <2>6, <2>a DEF PlanInterrumpido, PlanPideSyscall, PlanProcesa,
         PlanSinCambio, PcTypeOK, ConElPCB
    <3> QED
      BY <1>1, <3>1
  <2>7. CASE PlanLeeSyscall
    <3>1. pc'[Plan] \in Lugares /\ UNCHANGED actual /\ pc[Plan] # "espera"
      BY <2>7, <2>a DEF PlanLeeSyscall, PlanSinCambio, PlanEnviarAExit,
         PcTypeOK, ConElPCB, OpsRecurso
    <3>2. UNCHANGED estado \/ estado' = [estado EXCEPT ![actual[Plan]] = "EXIT"]
      BY <2>7 DEF PlanLeeSyscall, PlanSinCambio, PlanEnviarAExit, EnviarAExit
    <3>3. estado[p] = "EXEC"
      BY <2>a, <3>1, <3>2 DEF PCBTypeOK, ManosPlan
    <3> QED
      BY <1>1, <3>1, <3>3
  <2>8. CASE PlanWait \/ PlanBloqueaIO
    <3>1. /\ pc[Plan] # "espera" /\ pc'[Plan] = "cierre" /\ UNCHANGED actual
          /\ UNCHANGED estado
             \/ estado' = [estado EXCEPT ![actual[Plan]] = "BLOCKED"]
      BY <2>8, <2>a DEF PlanWait, PlanBloqueaIO, PcTypeOK
    <3>2. estado[p] = "EXEC"
      BY <2>a, <3>1 DEF PCBTypeOK, ManosPlan
    <3> QED
      BY <1>1, <3>1, <3>2
  <2>9. CASE PlanSignal \/ PlanDespierta
    <3>1. /\ pc'[Plan] \in Lugares /\ UNCHANGED actual
      BY <2>9, <2>a DEF PlanSignal, PlanDespierta, PcTypeOK, ConElPCB
    <3>2. \/ UNCHANGED estado
          \/ /\ otro[Plan] \in PID
             /\ estado' = [estado EXCEPT ![otro[Plan]] = "READY"]
      BY <2>9, <2>a DEF PlanSignal, PlanDespierta, Desbloquear, ManosPlan
    <3>3. estado[p] = "EXEC"
      BY <2>a, <3>2 DEF PCBTypeOK
    <3> QED
      BY <1>1, <3>1, <3>3
  <2>10. CASE PlanDesaloja
    <3>1. /\ actual[Plan] \in PID
          /\ estado' = [estado EXCEPT ![actual[Plan]] = "READY"]
      BY <2>10, <2>a DEF PlanDesaloja, ManosPlan
    <3>2. estado[p] = "EXEC" /\ p # actual[Plan]
      BY <2>a, <3>1 DEF PCBTypeOK
    <3> QED
      BY <1>1, <3>2
  <2>11. CASE PlanSuelta
    <3>1. UNCHANGED estado /\ estado[actual[Plan]] # "EXEC"
      BY <2>11 DEF PlanSuelta
    <3> QED
      BY <1>1, <3>1
  <2> QED
    BY <1>3, <2>1, <2>2, <2>3, <2>4, <2>5, <2>6, <2>7, <2>8, <2>9, <2>10,
       <2>11 DEF DelPlan, PlanNext
<1> QED
  BY <1>2, <1>3

(* Every step keeps EstadosOK. *)
LEMMA EstadosPaso ==
  ASSUME KInv, MutexOK, EstadosOK, [Next]_vars
  PROVE  EstadosOK'
  BY EstadoCrearPaso, EstadoElimPaso, EstadoPlanPaso, EstadoDispPaso,
     EstadoCpuPaso, UnoEnExecPaso DEF EstadosOK

(* At the start no process exists. *)
LEMMA EstadosInit == Init => EstadosOK
  BY DEF Init, KernelInit, InterfacesInit, EstadosOK, EstadoCrear, EstadoElim,
     EstadoPlan, EstadoDisp, EstadoCpu, UnoEnExec, ConElPCB, EnLaCpu, Hilos

-----------------------------------------------------------------------------
(***************************************************************************)
(* The ready queues.  ReadyEnCola is not inductive: that a process which   *)
(* is made READY is pushed for the only time follows from where a process  *)
(* in each other state is, which Rdy says.  One that ends while it is in a *)
(* queue stays there until the planificador throws it away.                *)
(***************************************************************************)
EnMano(p) == actual[Plan] = p /\ pc[Plan] \in {"pausa", "mx_PCB"}

Rdy(e, n) ==
    /\ n \in 0..1
    /\ e = "READY" => n = 1
    /\ e \in {"INEXISTENTE", "NEW", "EXEC", "BLOCKED"} => n = 0

ReadyOK == \A p \in PID : Rdy(estado[p], EnReady(p))

(* The changes of state that go with no change of the queues. *)
ParesQuietos == {<<"INEXISTENTE", "NEW">>, <<"NEW", "DELETED">>,
                 <<"EXEC", "EXIT">>, <<"READY", "EXIT">>, <<"BLOCKED", "EXIT">>,
                 <<"EXIT", "DELETED">>, <<"EXEC", "BLOCKED">>,
                 <<"EXEC", "EXEC">>, <<"EXIT", "EXIT">>, <<"DELETED", "EXIT">>}

(* The times a process is in the ready queues, and in hand, is a natural. *)
LEMMA EnReadyTipo ==
  ASSUME ColasReadyOK, NEW p
  PROVE  /\ EnReady(p) = Veces(p, cola_ready) + Veces(p, cola_priority_ready)
                           + Como(EnMano(p))
         /\ Veces(p, cola_ready) \in Nat /\ Veces(p, cola_priority_ready) \in Nat
         /\ EnReady(p) \in Nat
<1>1. Veces(p, cola_ready) \in Nat /\ Veces(p, cola_priority_ready) \in Nat
  BY VecesHechos DEF ColasReadyOK
<1> QED
  BY <1>1 DEF EnReady, EnMano

(* A push in either queue counts for the process pushed. *)
LEMMA EnReadyPush ==
  ASSUME ColasReadyOK, NEW q \in PID, PushReady(q) \/ PushPriority(q),
         NEW p, EnMano(p)' <=> EnMano(p)
  PROVE  EnReady(p)' = EnReady(p) + Como(q = p)
<1>1. /\ cola_ready \in Seq(PID) /\ cola_priority_ready \in Seq(PID)
      /\ Veces(p, cola_ready) \in Nat /\ Veces(p, cola_priority_ready) \in Nat
  BY VecesHechos DEF ColasReadyOK
<1>2. EnReady(p)' = Veces(p, cola_ready') + Veces(p, cola_priority_ready')
                      + Como(EnMano(p))
  BY DEF EnReady, EnMano, Veces
<1>3. EnReady(p) = Veces(p, cola_ready) + Veces(p, cola_priority_ready)
                      + Como(EnMano(p))
  BY DEF EnReady, EnMano
<1>4. CASE PushReady(q)
  <2>1. /\ Veces(p, cola_ready') = Veces(p, cola_ready) + Como(q = p)
        /\ cola_priority_ready' = cola_priority_ready
    BY <1>1, <1>4, VecesAppend DEF PushReady
  <2> QED
    BY <1>1, <1>2, <1>3, <2>1
<1>5. CASE PushPriority(q)
  <2>1. /\ Veces(p, cola_priority_ready')
             = Veces(p, cola_priority_ready) + Como(q = p)
        /\ cola_ready' = cola_ready
    BY <1>1, <1>5, VecesAppend DEF PushPriority
  <2> QED
    BY <1>1, <1>2, <1>3, <2>1
<1> QED
  BY <1>4, <1>5

(* A step that touches neither the queues nor what the planificador holds. *)
LEMMA EnReadyIgual ==
  ASSUME UNCHANGED vReady, NEW p, EnMano(p)' <=> EnMano(p)
  PROVE  EnReady(p)' = EnReady(p)
  BY DEF EnReady, EnMano, Veces

(* A process is made READY and pushed, in one step. *)
LEMMA ReadyEntra ==
  ASSUME ReadyOK, ColasReadyOK, PCBTypeOK, NEW q \in PID,
         NEW e \in {"NEW", "EXEC", "BLOCKED"}, Muda(q, e, "READY"),
         PushReady(q) \/ PushPriority(q),
         \A p \in PID : EnMano(p)' <=> EnMano(p)
  PROVE  ReadyOK'
<1> SUFFICES ASSUME NEW p \in PID PROVE Rdy(estado'[p], EnReady(p)')
  BY DEF ReadyOK
<1>1. EnReady(p)' = EnReady(p) + Como(q = p)
  BY EnReadyPush
<1>2. Rdy(estado[p], EnReady(p)) /\ EnReady(p) \in Nat
  BY EnReadyTipo DEF ReadyOK
<1>3. CASE p = q
  <2>1. estado[p] = e /\ estado'[p] = "READY"
    BY <1>3 DEF Muda, PCBTypeOK
  <2> QED
    BY <1>1, <1>2, <1>3, <2>1 DEF Rdy
<1>4. CASE p # q
  <2>1. estado'[p] = estado[p]
    BY <1>4 DEF Muda, PCBTypeOK
  <2> QED
    BY <1>1, <1>2, <1>4, <2>1
<1> QED
  BY <1>3, <1>4

(* desbloquear, whoever calls it. *)
LEMMA ReadyDesbloquear ==
  ASSUME ReadyOK, ColasReadyOK, PCBTypeOK, NEW q \in PID, Desbloquear(q),
         \A p \in PID : EnMano(p)' <=> EnMano(p)
  PROVE  ReadyOK'
<1>1. CASE estado[q] = "BLOCKED"
  <2>1. Muda(q, "BLOCKED", "READY") /\ (PushReady(q) \/ PushPriority(q))
    BY <1>1 DEF Desbloquear, Muda
  <2> QED
    BY <2>1, ReadyEntra
<1>2. CASE estado[q] # "BLOCKED"
  BY <1>2, EnReadyIgual DEF Desbloquear, ReadyOK
<1> QED
  BY <1>1, <1>2

(* A step that leaves the queues alone. *)
LEMMA ReadyQuieto ==
  ASSUME ReadyOK, PCBTypeOK, UNCHANGED vReady,
         \A p \in PID : EnMano(p)' <=> EnMano(p),
         \A p \in PID : \/ estado'[p] = estado[p]
                        \/ <<estado[p], estado'[p]>> \in ParesQuietos
  PROVE  ReadyOK'
<1> SUFFICES ASSUME NEW p \in PID PROVE Rdy(estado'[p], EnReady(p)')
  BY DEF ReadyOK
<1>1. EnReady(p)' = EnReady(p) /\ Rdy(estado[p], EnReady(p))
  BY EnReadyIgual DEF ReadyOK
<1>2. \/ estado'[p] = estado[p]
      \/ <<estado[p], estado'[p]>> \in ParesQuietos
  OBVIOUS
<1> QED
  BY <1>1, <1>2 DEF Rdy, ParesQuietos

(* A change of state that goes with no change of the queues. *)
LEMMA MudaQuieta ==
  ASSUME PCBTypeOK, NEW q \in PID, NEW e, NEW f,
         Muda(q, e, f), <<e, f>> \in ParesQuietos, NEW p \in PID
  PROVE  estado'[p] = estado[p] \/ <<estado[p], estado'[p]>> \in ParesQuietos
<1>1. CASE p = q
  <2>1. estado[p] = e /\ estado'[p] = f
    BY <1>1 DEF Muda, PCBTypeOK
  <2> QED
    BY <2>1
<1>2. CASE p # q
  BY <1>2 DEF Muda, PCBTypeOK
<1> QED
  BY <1>1, <1>2

(* crear_proceso pushes the process it makes READY. *)
LEMMA ReadyPasoCrear ==
  ASSUME KInv, EstadosOK, ReadyOK, [Next]_vars, DelCrear
  PROVE  ReadyOK'
<1>0. /\ PcTypeOK /\ ManosTypeOK /\ PCBTypeOK /\ ColasReadyOK /\ EstadoCrear
  BY DEF KInv, EstadosOK
<1>1. \A p \in PID : EnMano(p)' <=> EnMano(p)
  BY <1>0, OtrosHilosCrear DEF EnMano, Hilos
<1>2. CASE CrearAdmite
  <2>1. actual[Crear] \in PID /\ Muda(actual[Crear], "NEW", "READY")
    BY <1>0, <1>2 DEF CrearAdmite, Muda, EstadoCrear, KInv, ManosCrear
  <2>2. PushReady(actual[Crear])
    BY <1>2 DEF CrearAdmite
  <2> QED
    BY <1>0, <1>1, <2>1, <2>2, ReadyEntra
<1>3. CASE UNCHANGED <<estado, vReady>>
  BY <1>0, <1>1, <1>3, ReadyQuieto
<1> QED
  BY <1>2, <1>3, HuellaCrear

(* eliminar_proceso pushes whom it wakes up, and leaves in its queue a READY *)
(* process it ends.                                                          *)
LEMMA ReadyPasoElim ==
  ASSUME KInv, EstadosOK, ReadyOK, [Next]_vars, DelElim
  PROVE  ReadyOK'
<1>0. /\ PcTypeOK /\ ManosTypeOK /\ PCBTypeOK /\ ColasReadyOK /\ EstadoElim
      /\ ManosElim
  BY DEF KInv, EstadosOK
<1>1. \A p \in PID : EnMano(p)' <=> EnMano(p)
  BY <1>0, OtrosHilosElim DEF EnMano, Hilos
<1>2. CASE ElimDespierta
  <2>1. otro[Elim] \in PID /\ Desbloquear(otro[Elim])
    BY <1>0, <1>2 DEF ElimDespierta, ManosElim
  <2> QED
    BY <1>0, <1>1, <2>1, ReadyDesbloquear
<1>3. CASE ~ElimDespierta
  <2>1. UNCHANGED vReady
    BY <1>3, HuellaElim
  <2>2. CASE ElimNew
    <3>1. actual[Elim] \in PID /\ Muda(actual[Elim], "NEW", "DELETED")
      BY <1>0, <2>2 DEF ElimNew, ElimCaso, ManosElim, Muda
    <3>2. <<"NEW", "DELETED">> \in ParesQuietos
      BY DEF ParesQuietos
    <3> QED
      BY <1>0, <1>1, <2>1, <3>1, <3>2, MudaQuieta, ReadyQuieto
  <2>3. CASE ElimExec \/ ElimVivo
    <3>1. /\ actual[Elim] \in PID
          /\ Muda(actual[Elim], estado[actual[Elim]], "EXIT")
          /\ estado[actual[Elim]] \in {"EXEC", "READY", "BLOCKED"}
      BY <1>0, <2>3 DEF ElimExec, ElimVivo, EnviarAExit, ElimCaso, ManosElim,
         Muda
    <3>2. <<estado[actual[Elim]], "EXIT">> \in ParesQuietos
      BY <3>1 DEF ParesQuietos
    <3> QED
      BY <1>0, <1>1, <2>1, <3>1, <3>2, MudaQuieta, ReadyQuieto
  <2>4. CASE ElimBorra
    <3>1. actual[Elim] \in PID /\ Muda(actual[Elim], "EXIT", "DELETED")
      BY <1>0, <2>4 DEF ElimBorra, EstadoElim, ManosElim, Muda
    <3>2. <<"EXIT", "DELETED">> \in ParesQuietos
      BY DEF ParesQuietos
    <3> QED
      BY <1>0, <1>1, <2>1, <3>1, <3>2, MudaQuieta, ReadyQuieto
  <2>5. CASE UNCHANGED estado
    BY <1>0, <1>1, <2>1, <2>5, ReadyQuieto
  <2> QED
    BY <1>3, <2>2, <2>3, <2>4, <2>5, HuellaElim
<1> QED
  BY <1>2, <1>3

(* The console, the interfaces, the quantum thread and the CPU. *)
LEMMA ReadyPasoResto ==
  ASSUME KInv, EstadosOK, ReadyOK, [Next]_vars,
         DeConsola \/ DeIfaces \/ DelReloj \/ DeCpu \/ UNCHANGED vars
  PROVE  ReadyOK'
<1>0. /\ PcTypeOK /\ ManosTypeOK /\ PCBTypeOK /\ ColasReadyOK /\ EstadoDisp
      /\ InterfacesTypeOK
  BY DEF KInv, EstadosOK
<1>1. CASE DeConsola
  <2>1. \A p \in PID : EnMano(p)' <=> EnMano(p)
    BY <1>0, <1>1, OtrosHilosConsola DEF EnMano, Hilos
  <2>2. <<"INEXISTENTE", "NEW">> \in ParesQuietos
    BY DEF ParesQuietos
  <2> QED
    BY <1>0, <1>1, <2>1, <2>2, HuellaConsola, MudaConsola, MudaQuieta,
       ReadyQuieto
<1>2. CASE DeIfaces
  <2>1. \A p \in PID : EnMano(p)' <=> EnMano(p)
    BY <1>2, HuellaIfaces DEF EnMano
  <2>2. ASSUME NEW i \in Ifaces, InIOFin(i) PROVE ReadyOK'
    <3>1. occupant[i] \in PID /\ Desbloquear(occupant[i])
      BY <1>0, <2>2 DEF InIOFin, InterfacesTypeOK
    <3> QED
      BY <1>0, <2>1, <3>1, ReadyDesbloquear
  <2>3. CASE ~\E i \in Ifaces : InIOFin(i)
    <3>1. UNCHANGED vReady
      BY <1>2, <2>3, HuellaIfaces
    <3>2. \/ UNCHANGED estado
          \/ \E q \in PID, f \in {"READY", "EXIT"} :
               Muda(q, "BLOCKED", f)
      BY <1>0, <1>2, MudaIfaces
    <3>3. \/ UNCHANGED estado
          \/ \E q \in PID : Muda(q, "BLOCKED", "EXIT")
      <4>1. CASE UNCHANGED estado
        BY <4>1
      <4>2. ASSUME NEW i \in Ifaces, InDesconexion(i)
            PROVE  \/ UNCHANGED estado
                   \/ \E q \in PID : Muda(q, "BLOCKED", "EXIT")
        <5>1. CASE occupant[i] = Nadie
          BY <4>2, <5>1 DEF InDesconexion
        <5>2. CASE occupant[i] # Nadie
          BY <1>0, <4>2, <5>2 DEF InDesconexion, EnviarAExit, InterfacesTypeOK,
             EstadoDisp, Muda
        <5> QED
          BY <5>1, <5>2
      <4>3. ASSUME NEW i \in Ifaces, OutRechaza(i)
            PROVE  \E q \in PID : Muda(q, "BLOCKED", "EXIT")
        BY <4>3 DEF OutRechaza, OutConPCB, EnviarAExit, KInv, ManosOut, Muda
      <4> QED
        BY <1>2, <2>3, <4>1, <4>2, <4>3, HuellaIfaces
    <3>4. <<"BLOCKED", "EXIT">> \in ParesQuietos
      BY DEF ParesQuietos
    <3> QED
      BY <1>0, <2>1, <3>1, <3>3, <3>4, MudaQuieta, ReadyQuieto
  <2> QED
    BY <2>2, <2>3
<1>3. CASE DelReloj \/ DeCpu \/ UNCHANGED vars
  <2>1. UNCHANGED <<estado, vReady, pc, actual>>
    BY <1>3, HuellaReloj, HuellaCpu DEF vars, kernel_vars, vKernelAjeno
  <2> QED
    BY <1>0, <2>1, ReadyQuieto DEF EnMano
<1> QED
  BY <1>1, <1>2, <1>3

(* The queue_pop of the planificador takes the process in hand. *)
LEMMA EnReadyToma ==
  ASSUME KInv, PlanToma, NEW p
  PROVE  EnReady(p)' = EnReady(p)
<1>0. /\ PcTypeOK /\ ManosTypeOK /\ ColasReadyOK /\ Plan \in Hilos
  BY DEF KInv, Hilos
<1>1. EnReady(p)' = Veces(p, cola_ready') + Veces(p, cola_priority_ready')
                      + Como(EnMano(p)')
  BY DEF EnReady, EnMano, Veces
<1>2. ~EnMano(p)
  BY DEF PlanToma, EnMano
<1>3. /\ Veces(p, cola_ready) \in Nat /\ Veces(p, cola_priority_ready) \in Nat
      /\ EnReady(p) = Veces(p, cola_ready) + Veces(p, cola_priority_ready)
  BY <1>0, <1>2, EnReadyTipo
<1>4. /\ cola_ready \in Seq(PID) /\ cola_priority_ready \in Seq(PID)
      /\ Len(cola_ready) \in Nat /\ Len(cola_priority_ready) \in Nat
      /\ Len(cola_ready) + Len(cola_priority_ready) = sem_cola_ready
  BY <1>0, LenProperties DEF ColasReadyOK
<1>5. CASE cola_priority_ready = <<>>
  <2>1. cola_ready # <<>>
    BY <1>4, <1>5 DEF PlanToma
  <2>2. /\ Veces(p, cola_ready) = Veces(p, Tail(cola_ready))
                                    + Como(Head(cola_ready) = p)
        /\ Veces(p, Tail(cola_ready)) \in Nat
    BY <1>4, <2>1, VecesTail, VecesHechos, HeadTailProperties
  <2>3. /\ cola_ready' = Tail(cola_ready)
        /\ cola_priority_ready' = cola_priority_ready
        /\ actual'[Plan] = Head(cola_ready) /\ pc'[Plan] = "pausa"
    BY <1>0, <1>5 DEF PlanToma, ManosTypeOK, PcTypeOK
  <2>4. EnMano(p)' <=> Head(cola_ready) = p
    BY <2>3 DEF EnMano
  <2> QED
    BY <1>1, <1>3, <2>2, <2>3, <2>4
<1>6. CASE cola_priority_ready # <<>>
  <2>2. /\ Veces(p, cola_priority_ready)
             = Veces(p, Tail(cola_priority_ready))
                 + Como(Head(cola_priority_ready) = p)
        /\ Veces(p, Tail(cola_priority_ready)) \in Nat
    BY <1>4, <1>6, VecesTail, VecesHechos, HeadTailProperties
  <2>3. /\ cola_priority_ready' = Tail(cola_priority_ready)
        /\ cola_ready' = cola_ready
        /\ actual'[Plan] = Head(cola_priority_ready) /\ pc'[Plan] = "pausa"
    BY <1>0, <1>6 DEF PlanToma, ManosTypeOK, PcTypeOK
  <2>4. EnMano(p)' <=> Head(cola_priority_ready) = p
    BY <2>3 DEF EnMano
  <2> QED
    BY <1>1, <1>3, <2>2, <2>3, <2>4
<1> QED
  BY <1>5, <1>6

(* The process in hand leaves the ready queues for good. *)
LEMMA EnReadySale ==
  ASSUME ColasReadyOK, UNCHANGED vReady, NEW p, NEW q \in PID,
         EnMano(q), ~EnMano(q)', p # q => (EnMano(p)' <=> EnMano(p))
  PROVE  /\ EnReady(p) \in Nat
         /\ p = q => EnReady(p) >= 1 /\ EnReady(p)' = EnReady(p) - 1
         /\ p # q => EnReady(p)' = EnReady(p)
<1>1. /\ EnReady(p) = Veces(p, cola_ready) + Veces(p, cola_priority_ready)
                        + Como(EnMano(p))
      /\ Veces(p, cola_ready) \in Nat /\ Veces(p, cola_priority_ready) \in Nat
      /\ EnReady(p) \in Nat
  BY EnReadyTipo
<1>2. EnReady(p)' = Veces(p, cola_ready) + Veces(p, cola_priority_ready)
                      + Como(EnMano(p)')
  BY DEF EnReady, EnMano, Veces
<1>3. CASE p = q
  BY <1>1, <1>2, <1>3
<1>4. CASE p # q
  BY <1>1, <1>2, <1>4
<1> QED
  BY <1>3, <1>4

(* The planificador pops the head, throws it away when it is no longer READY *)
(* and pushes who gives up the CPU.                                          *)
LEMMA ReadyPasoPlan ==
  ASSUME KInv, EstadosOK, ReadyOK, [Next]_vars, DelPlan
  PROVE  ReadyOK'
<1>0. /\ PcTypeOK /\ ManosTypeOK /\ PCBTypeOK /\ ColasReadyOK /\ EstadoPlan
      /\ EstadoCpu /\ ManosPlan /\ Plan \in Hilos
  BY DEF KInv, EstadosOK, Hilos
<1> DEFINE p == actual[Plan]
           EnJuego == {"pausa", "mx_PCB"}
<1>1. CASE PlanToma
  <2>1. UNCHANGED estado
    BY <1>1 DEF PlanToma
  <2> QED
    BY <1>1, <2>1, EnReadyToma DEF ReadyOK
<1>2. CASE PlanPasaPausa
  <2>1. UNCHANGED <<estado, vReady, actual>>
    BY <1>2 DEF PlanPasaPausa
  <2>2. pc[Plan] \in EnJuego /\ pc'[Plan] \in EnJuego
    BY <1>0, <1>2 DEF PlanPasaPausa, PcTypeOK
  <2> QED
    BY <1>0, <2>1, <2>2, ReadyQuieto DEF EnMano
<1>3. CASE PlanDescarta \/ PlanDespacha
  <2>0. PICK r \in PID : r = p
    BY <1>0, <1>3 DEF PlanDescarta, PlanDespacha, ManosPlan
  <2>1. /\ UNCHANGED vReady /\ pc[Plan] = "mx_PCB"
        /\ pc'[Plan] \in {"espera", "recibe"}
    BY <1>0, <1>3 DEF PlanDescarta, PlanDespacha, PcTypeOK
  <2>2. EnMano(r) /\ \A q \in PID : ~EnMano(q)'
    BY <2>0, <2>1 DEF EnMano
  <2>3. \A q \in PID \ {r} : ~EnMano(q)
    BY <2>0 DEF EnMano
  <2>4. estado'[r] # "READY"
    BY <1>0, <1>3, <2>0, <2>1 DEF PlanDescarta, PlanDespacha, EjecutarProceso,
       PCBTypeOK
  <2>5. \A q \in PID \ {r} : estado'[q] = estado[q]
    BY <1>0, <1>3, <2>0, <2>1 DEF PlanDescarta, PlanDespacha, EjecutarProceso,
       PCBTypeOK
  <2>6. /\ EnReady(r) \in Nat /\ EnReady(r) >= 1
        /\ EnReady(r)' = EnReady(r) - 1
    BY <1>0, <2>1, <2>2, EnReadySale
  <2>7. \A q \in PID \ {r} : EnReady(q)' = EnReady(q)
    BY <1>0, <2>1, <2>2, <2>3, EnReadySale
  <2>8. Rdy(estado'[r], EnReady(r)')
    BY <2>1, <2>4, <2>6 DEF ReadyOK, Rdy
  <2>9. \A q \in PID \ {r} : Rdy(estado'[q], EnReady(q)')
    BY <2>5, <2>7 DEF ReadyOK
  <2> QED
    BY <2>8, <2>9 DEF ReadyOK
<1>4. CASE PlanDespierta
  <2>1. otro[Plan] \in PID /\ Desbloquear(otro[Plan]) /\ UNCHANGED actual
    BY <1>0, <1>4 DEF PlanDespierta, ManosPlan
  <2>2. pc[Plan] \notin EnJuego /\ pc'[Plan] \notin EnJuego
    BY <1>0, <1>4 DEF PlanDespierta, PcTypeOK
  <2> QED
    BY <1>0, <2>1, <2>2, ReadyDesbloquear DEF EnMano
<1>5. CASE PlanDesaloja
  <2>1. p \in PID /\ Muda(p, "EXEC", "READY") /\ PushReady(p)
    BY <1>0, <1>5 DEF PlanDesaloja, ManosPlan, Muda
  <2>2. pc[Plan] \notin EnJuego /\ pc'[Plan] \notin EnJuego
    BY <1>0, <1>5 DEF PlanDesaloja, PcTypeOK
  <2> QED
    BY <1>0, <2>1, <2>2, ReadyEntra DEF EnMano
<1>6. ASSUME UNCHANGED vReady, pc[Plan] \notin EnJuego, pc'[Plan] \notin EnJuego,
             UNCHANGED estado
               \/ \E e, f \in Estados : p \in PID /\ Muda(p, e, f)
                                          /\ <<e, f>> \in ParesQuietos
      PROVE  ReadyOK'
  <2>1. \A q \in PID : EnMano(q)' <=> EnMano(q)
    BY <1>6 DEF EnMano
  <2>2. \A q \in PID : \/ estado'[q] = estado[q]
                       \/ <<estado[q], estado'[q]>> \in ParesQuietos
    BY <1>0, <1>6, MudaQuieta
  <2> QED
    BY <1>0, <1>6, <2>1, <2>2, ReadyQuieto
<1>a. /\ <<"EXEC", "EXIT">> \in ParesQuietos
      /\ <<"EXEC", "BLOCKED">> \in ParesQuietos
      /\ <<"EXEC", "EXEC">> \in ParesQuietos
      /\ <<"EXIT", "EXIT">> \in ParesQuietos
      /\ <<"DELETED", "EXIT">> \in ParesQuietos
      /\ {"EXEC", "EXIT", "DELETED", "BLOCKED"} \subseteq Estados
  BY DEF ParesQuietos, Estados
<1>7. CASE PlanMatado
  <2>1. /\ UNCHANGED vReady /\ p \in PID /\ pc[Plan] = "actualiza"
        /\ pc'[Plan] = "espera" /\ estado[p] \in {"EXIT", "DELETED"}
        /\ Muda(p, estado[p], "EXIT")
    BY <1>0, <1>7 DEF PlanMatado, EnviarAExit, ManosPlan, Muda, EstadoCpu,
       EnLaCpu, PcTypeOK
  <2> QED
    BY <1>6, <1>a, <2>1
<1>8. CASE PlanInvalida \/ PlanTermina \/ PlanInterfazInvalida
  <2>1. /\ UNCHANGED vReady /\ p \in PID /\ pc[Plan] \in {"procesa", "IO"}
        /\ pc'[Plan] = "cierre"
        /\ Muda(p, "EXEC", "EXIT")
    BY <1>0, <1>8 DEF PlanInvalida, PlanTermina, PlanInterfazInvalida,
       PlanProcesa, PlanEnviarAExit, EnviarAExit, ManosPlan, Muda, EstadoPlan,
       ConElPCB, PcTypeOK
  <2> QED
    BY <1>6, <1>a, <2>1
<1>9. CASE PlanLeeSyscall
  <2>1. /\ p \in PID /\ pc[Plan] = "syscall" /\ estado[p] = "EXEC"
    BY <1>0, <1>9 DEF PlanLeeSyscall, ManosPlan, EstadoPlan, ConElPCB
  <2>2. pc'[Plan] \in {"WAIT", "SIGNAL", "IO", "cierre"}
    BY <1>0, <1>9 DEF PlanLeeSyscall, PlanSinCambio, PlanEnviarAExit, PcTypeOK,
       OpsRecurso
  <2>3. UNCHANGED vReady /\ (UNCHANGED estado \/ Muda(p, "EXEC", "EXIT"))
    BY <1>9, <2>1 DEF PlanLeeSyscall, PlanSinCambio, PlanEnviarAExit,
       EnviarAExit, Muda
  <2> QED
    BY <1>6, <1>a, <2>1, <2>2, <2>3
<1>10. CASE PlanWait \/ PlanBloqueaIO
  <2>1. /\ UNCHANGED vReady /\ p \in PID /\ pc[Plan] \in {"WAIT", "IO"}
        /\ pc'[Plan] = "cierre" /\ estado[p] = "EXEC"
        /\ UNCHANGED estado \/ estado' = [estado EXCEPT ![p] = "BLOCKED"]
    BY <1>0, <1>10 DEF PlanWait, PlanBloqueaIO, ManosPlan, EstadoPlan,
       ConElPCB, PcTypeOK
  <2> QED
    BY <1>6, <1>a, <2>1 DEF Muda
<1>11. CASE PlanRedespacha
  <2>1. /\ UNCHANGED vReady /\ p \in PID /\ pc[Plan] = "cierre"
        /\ pc'[Plan] = "recibe" /\ Muda(p, "EXEC", "EXEC")
    BY <1>0, <1>11 DEF PlanRedespacha, EjecutarProceso, ManosPlan, Muda,
       PcTypeOK
  <2> QED
    BY <1>6, <1>a, <2>1
<1>12. CASE PlanRecibe \/ PlanActualiza \/ PlanInterrumpido \/ PlanPideSyscall
  <2>1. /\ UNCHANGED <<estado, vReady>> /\ pc[Plan] \notin EnJuego
        /\ pc'[Plan] \notin EnJuego
    BY <1>0, <1>12 DEF PlanRecibe, PlanActualiza, PlanInterrumpido,
       PlanPideSyscall, PlanProcesa, PlanSinCambio, PcTypeOK
  <2> QED
    BY <1>6, <2>1
<1>13. CASE PlanSignal \/ PlanSuelta
  <2>1. /\ UNCHANGED <<estado, vReady>> /\ pc[Plan] \notin EnJuego
        /\ pc'[Plan] \notin EnJuego
    BY <1>0, <1>13 DEF PlanSignal, PlanSuelta, PcTypeOK
  <2> QED
    BY <1>6, <2>1
<1> QED
  BY <1>1, <1>2, <1>3, <1>4, <1>5, <1>7, <1>8, <1>9, <1>10, <1>11, <1>12,
     <1>13 DEF DelPlan, PlanNext

(* At the start the queues are empty. *)
LEMMA ReadyInit == Init => ReadyOK
<1> SUFFICES ASSUME Init, NEW p \in PID PROVE Rdy(estado[p], EnReady(p))
  BY DEF ReadyOK
<1>1. cola_ready = <<>> /\ cola_priority_ready = <<>> /\ ~EnMano(p)
      /\ estado[p] = "INEXISTENTE"
  BY DEF Init, KernelInit, EnMano, Hilos
<1>2. <<>> \in Seq(PID) /\ ~Contains(<<>>, p)
  BY EmptySeq DEF Contains
<1>3. Veces(p, <<>>) = 0
  BY <1>2, VecesHechos
<1> QED
  BY <1>1, <1>3 DEF EnReady, EnMano, Rdy

(* The states and the ready queues, together. *)
EstadosInv == KInv /\ MutexOK /\ EstadosOK /\ ReadyOK

(* Every step keeps the states and the ready queues as they should be. *)
LEMMA EstadosInvPaso == EstadosInv /\ [Next]_vars => EstadosInv'
<1> SUFFICES ASSUME EstadosInv, [Next]_vars PROVE EstadosInv'
  OBVIOUS
<1>1. KInv /\ MutexOK /\ EstadosOK /\ ReadyOK
  BY DEF EstadosInv
<1>2. KInv' /\ MutexOK' /\ EstadosOK'
  BY <1>1, KernelNextInv, MutexPaso, EstadosPaso
<1>3. ReadyOK'
  BY <1>1, ReadyPasoCrear, ReadyPasoElim, ReadyPasoPlan, ReadyPasoResto
         DEF Next
<1> QED
  BY <1>2, <1>3 DEF EstadosInv

(* They always are. *)
LEMMA EstadosInvSiempre == Spec => []EstadosInv
<1>1. Init => EstadosInv
  BY KernelInitInv, MutexInit, EstadosInit, ReadyInit DEF EstadosInv
<1> QED
  BY <1>1, EstadosInvPaso, PTL DEF Spec

(***************************************************************************)
(* A READY process is once, and only once, where the planificador will     *)
(* find it.                                                                *)
(***************************************************************************)
THEOREM ReadyEnColaSiempre == Spec => []ReadyEnCola
<1>1. EstadosInv => ReadyEnCola
  <2> SUFFICES ASSUME EstadosInv, NEW p \in PID
               PROVE  /\ estado[p] = "READY" => EnReady(p) = 1
                      /\ EnReady(p) <= 1
    BY DEF ReadyEnCola
  <2>1. Rdy(estado[p], EnReady(p))
    BY DEF EstadosInv, ReadyOK
  <2> QED
    BY <2>1 DEF Rdy
<1> QED
  BY <1>1, EstadosInvSiempre, PTL

-----------------------------------------------------------------------------
(***************************************************************************)
(* The quantum.  QuantumCoherente is not inductive either: the quantum of  *)
(* a process that becomes READY is what it was when NEW, or BLOCKED, or    *)
(* what the quantum thread left, so Qtm follows it from state to state.    *)
(* rd and pr say whether the process is in cola_ready and in the priority  *)
(* queue.                                                                  *)
(***************************************************************************)
Qtm(e, q, rd, pr) ==
    /\ e = "NEW" => q = QUANTUM
    /\ e = "READY" => /\ pr => q \in 1..QUANTUM
                      /\ rd => q = QUANTUM
    /\ e # "INEXISTENTE" => q >= 0

QuantumOK ==
    Algoritmo # "FIFO" =>
        \A p \in PID : Qtm(estado[p], quantum[p], Contains(cola_ready, p),
                           Contains(cola_priority_ready, p))

(* A quantum thread sleeps for the process in the CPU. *)
RelojOK == reloj # Nadie => reloj = actual[Plan] /\ pc[Plan] \in EnLaCpu

(* A process that is in no ready queue. *)
LEMMA ReadyFuera ==
  ASSUME ReadyOK, ColasReadyOK, NEW p \in PID,
         estado[p] \in {"INEXISTENTE", "NEW", "EXEC", "BLOCKED"}
  PROVE  ~Contains(cola_ready, p) /\ ~Contains(cola_priority_ready, p)
<1>1. EnReady(p) = 0
  BY DEF ReadyOK, Rdy
<1>2. Veces(p, cola_ready) = 0 /\ Veces(p, cola_priority_ready) = 0
  BY <1>1, EnReadyTipo
<1> QED
  BY <1>2, VecesHechos DEF ColasReadyOK

(* A process whose quantum stays, and which is not made NEW or READY. *)
LEMMA QtmMismo ==
  ASSUME QuantumOK, Algoritmo # "FIFO", NEW p \in PID,
         quantum'[p] = quantum[p],
         Contains(cola_ready', p) => Contains(cola_ready, p),
         Contains(cola_priority_ready', p) => Contains(cola_priority_ready, p),
         \/ estado'[p] = estado[p]
         \/ estado'[p] \notin {"NEW", "READY"} /\ estado[p] # "INEXISTENTE"
  PROVE  Qtm(estado'[p], quantum'[p], Contains(cola_ready', p),
             Contains(cola_priority_ready', p))
<1>1. Qtm(estado[p], quantum[p], Contains(cola_ready, p),
          Contains(cola_priority_ready, p))
  BY DEF QuantumOK
<1> QED
  BY <1>1 DEF Qtm

(* Nothing about quanta or queues changes, and nobody becomes READY. *)
LEMMA QuantumQuieto ==
  ASSUME QuantumOK, UNCHANGED <<quantum, vReady>>,
         \A p \in PID :
            \/ estado'[p] = estado[p]
            \/ estado'[p] \notin {"NEW", "READY"} /\ estado[p] # "INEXISTENTE"
  PROVE  QuantumOK'
<1> SUFFICES ASSUME Algoritmo # "FIFO", NEW p \in PID
             PROVE  Qtm(estado'[p], quantum'[p], Contains(cola_ready', p),
                        Contains(cola_priority_ready', p))
  BY DEF QuantumOK
<1> QED
  BY QtmMismo

(* A process that was READY or in the CPU goes on, queues untouched. *)
LEMMA QuantumSale ==
  ASSUME QuantumOK, PCBTypeOK, UNCHANGED <<quantum, vReady>>, NEW q \in PID,
         estado[q] \in {"READY", "EXEC"}, NEW f \in {"EXEC", "BLOCKED", "EXIT"},
         estado' = [estado EXCEPT ![q] = f]
  PROVE  QuantumOK'
<1>1. ASSUME NEW p \in PID
      PROVE  \/ estado'[p] = estado[p]
             \/ estado'[p] \notin {"NEW", "READY"} /\ estado[p] # "INEXISTENTE"
  BY DEF PCBTypeOK
<1> QED
  BY <1>1, QuantumQuieto

(* A process becomes READY and goes to one of the queues. *)
LEMMA QuantumEntra ==
  ASSUME QuantumOK, ReadyOK, ColasReadyOK, PCBTypeOK, NEW q \in PID,
         NEW e \in {"NEW", "EXEC", "BLOCKED"}, Muda(q, e, "READY"),
         \A p \in PID : p # q => quantum'[p] = quantum[p],
         Algoritmo # "FIFO" =>
           \/ PushReady(q) /\ quantum'[q] = QUANTUM
           \/ PushPriority(q) /\ quantum'[q] \in 1..QUANTUM,
         PushReady(q) \/ PushPriority(q)
  PROVE  QuantumOK'
<1> SUFFICES ASSUME Algoritmo # "FIFO", NEW p \in PID
             PROVE  Qtm(estado'[p], quantum'[p], Contains(cola_ready', p),
                        Contains(cola_priority_ready', p))
  BY DEF QuantumOK
<1>1. /\ cola_ready \in Seq(PID) /\ cola_priority_ready \in Seq(PID)
      /\ estado[q] = e
  BY DEF ColasReadyOK, Muda
<1>2. CASE p = q
  <2>1. ~Contains(cola_ready, q) /\ ~Contains(cola_priority_ready, q)
    BY <1>1, ReadyFuera
  <2>2. estado'[q] = "READY"
    BY DEF Muda, PCBTypeOK
  <2>3. CASE PushReady(q) /\ quantum'[q] = QUANTUM
    <3>1. ~Contains(cola_priority_ready', q)
      BY <2>1, <2>3 DEF PushReady
    <3> QED
      BY <1>2, <2>2, <2>3, <3>1 DEF Qtm
  <2>4. CASE PushPriority(q) /\ quantum'[q] \in 1..QUANTUM
    <3>1. ~Contains(cola_ready', q)
      BY <2>1, <2>4 DEF PushPriority
    <3> QED
      BY <1>2, <2>2, <2>4, <3>1 DEF Qtm
  <2> QED
    BY <2>3, <2>4
<1>3. CASE p # q
  <2>1. /\ Contains(cola_ready', p) => Contains(cola_ready, p)
        /\ Contains(cola_priority_ready', p) => Contains(cola_priority_ready, p)
    <3>1. CASE PushReady(q)
      <4>1. Contains(Append(cola_ready, q), p) <=> Contains(cola_ready, p)
        BY <1>1, <1>3, ContainsAppend
      <4> QED
        BY <3>1, <4>1 DEF PushReady
    <3>2. CASE PushPriority(q)
      <4>1. Contains(Append(cola_priority_ready, q), p)
              <=> Contains(cola_priority_ready, p)
        BY <1>1, <1>3, ContainsAppend
      <4> QED
        BY <3>2, <4>1 DEF PushPriority
    <3> QED
      BY <3>1, <3>2
  <2>2. estado'[p] = estado[p]
    BY <1>3 DEF Muda, PCBTypeOK
  <2> QED
    BY <1>3, <2>1, <2>2, QtmMismo
<1> QED
  BY <1>2, <1>3

(* desbloquear: with part of its quantum to the priority queue, with none  *)
(* of it to the ordinary one with a full quantum (recursos.c:92-110).      *)
LEMMA QuantumDesbloquear ==
  ASSUME QuantumOK, ReadyOK, ColasReadyOK, PCBTypeOK, NEW q \in PID,
         Desbloquear(q)
  PROVE  QuantumOK'
<1>1. CASE estado[q] # "BLOCKED"
  BY <1>1, QuantumQuieto DEF Desbloquear
<1>2. CASE estado[q] = "BLOCKED"
  <2>1. /\ Muda(q, "BLOCKED", "READY") /\ quantum[q] \in -1..QUANTUM
        /\ \A p \in PID : p # q => quantum'[p] = quantum[p]
        /\ PushReady(q) \/ PushPriority(q)
    BY <1>2 DEF Desbloquear, Muda, PCBTypeOK
  <2>2. Algoritmo # "FIFO" => quantum[q] >= 0
    BY <1>2 DEF QuantumOK, Qtm
  <2>3. CASE ConPrioridad(q)
    <3>1. PushPriority(q) /\ quantum'[q] \in 1..QUANTUM
      BY <1>2, <2>1, <2>3 DEF Desbloquear, ConPrioridad
    <3> QED
      BY <2>1, <3>1, QuantumEntra
  <2>4. CASE ~ConPrioridad(q)
    <3>1. /\ PushReady(q)
          /\ Algoritmo # "FIFO" => quantum'[q] = QUANTUM
      BY <1>2, <2>1, <2>2, <2>4 DEF Desbloquear, PCBTypeOK
    <3> QED
      BY <2>1, <3>1, QuantumEntra
  <2> QED
    BY <2>3, <2>4
<1> QED
  BY <1>1, <1>2

(* crear_proceso puts in cola_ready a process that still has the quantum of *)
(* its creation.                                                            *)
LEMMA QuantumPasoCrear ==
  ASSUME KInv, EstadosOK, ReadyOK, QuantumOK, DelCrear
  PROVE  QuantumOK'
<1>0. PCBTypeOK /\ ColasReadyOK /\ ManosCrear /\ EstadoCrear
  BY DEF KInv, EstadosOK
<1>1. CASE CrearAdmite
  <2>1. PICK q \in PID : q = actual[Crear]
    BY <1>0, <1>1 DEF CrearAdmite, ManosCrear
  <2>2. Muda(q, "NEW", "READY") /\ PushReady(q) /\ UNCHANGED quantum
    BY <1>0, <1>1, <2>1 DEF CrearAdmite, Muda, EstadoCrear
  <2>3. Algoritmo # "FIFO" => quantum'[q] = QUANTUM
    BY <2>2 DEF QuantumOK, Qtm, Muda
  <2> QED
    BY <1>0, <2>2, <2>3, QuantumEntra
<1>2. CASE ~CrearAdmite
  BY <1>2, QuantumQuieto, HuellaCrear
<1> QED
  BY <1>1, <1>2

(* eliminar_proceso wakes up who waits for the resource it gives back. *)
LEMMA QuantumPasoElim ==
  ASSUME KInv, EstadosOK, ReadyOK, QuantumOK, DelElim
  PROVE  QuantumOK'
<1>0. PCBTypeOK /\ ColasReadyOK /\ ManosElim /\ EstadoElim
  BY DEF KInv, EstadosOK
<1>1. CASE ElimDespierta
  BY <1>0, <1>1, QuantumDesbloquear DEF ElimDespierta, ManosElim
<1>2. CASE ~ElimDespierta
  <2>1. UNCHANGED <<quantum, vReady>>
    BY <1>2, HuellaElim
  <2>2. CASE UNCHANGED estado
    BY <2>1, <2>2, QuantumQuieto
  <2>3. CASE ElimNew \/ ElimExec \/ ElimVivo \/ ElimBorra
    <3>1. PICK q \in PID : q = actual[Elim]
      BY <1>0, <2>3 DEF ElimNew, ElimExec, ElimVivo, ElimBorra, ElimCaso,
         ManosElim
    <3>2. /\ estado[q] \in {"NEW", "EXEC", "READY", "BLOCKED", "EXIT"}
          /\ \E f \in {"EXIT", "DELETED"} : estado' = [estado EXCEPT ![q] = f]
      BY <1>0, <2>3, <3>1 DEF ElimNew, ElimExec, ElimVivo, ElimBorra,
         ElimCaso, EnviarAExit, EstadoElim
    <3> QED
      BY <1>0, <2>1, <3>2, QuantumQuieto DEF PCBTypeOK
  <2> QED
    BY <1>2, <2>2, <2>3, HuellaElim
<1> QED
  BY <1>1, <1>2

(* proc_start gives a new process a full quantum. *)
LEMMA QuantumPasoConsola ==
  ASSUME KInv, QuantumOK, ReadyOK, DeConsola
  PROVE  QuantumOK'
<1>0. PCBTypeOK /\ UNCHANGED vReady
  BY HuellaConsola DEF KInv
<1>1. ASSUME NEW q \in PID, ProcStart(q) PROVE QuantumOK'
  <2> SUFFICES ASSUME Algoritmo # "FIFO", NEW p \in PID
               PROVE  Qtm(estado'[p], quantum'[p], Contains(cola_ready', p),
                          Contains(cola_priority_ready', p))
    BY DEF QuantumOK
  <2>1. CASE p = q
    <3>1. estado'[p] = "NEW" /\ quantum'[p] = QUANTUM
      BY <1>0, <1>1, <2>1 DEF ProcStart, PCBTypeOK
    <3> QED
      BY <3>1 DEF Qtm
  <2>2. CASE p # q
    <3>1. estado'[p] = estado[p] /\ quantum'[p] = quantum[p]
      BY <1>0, <1>1, <2>2 DEF ProcStart, PCBTypeOK
    <3> QED
      BY <1>0, <3>1, QtmMismo
  <2> QED
    BY <2>1, <2>2
<1>2. CASE UNCHANGED <<estado, quantum>>
  BY <1>0, <1>2, QuantumQuieto
<1> QED
  BY <1>1, <1>2, HuellaConsola

(* IN unblocks the process whose I/O ended. *)
LEMMA QuantumPasoIfaces ==
  ASSUME KInv, EstadosOK, ReadyOK, QuantumOK, DeIfaces
  PROVE  QuantumOK'
<1>0. PCBTypeOK /\ ColasReadyOK /\ EstadoDisp /\ InterfacesTypeOK
  BY DEF KInv, EstadosOK
<1>1. ASSUME NEW i \in Ifaces, InIOFin(i) PROVE QuantumOK'
  <2>1. occupant[i] \in PID /\ Desbloquear(occupant[i])
    BY <1>0, <1>1 DEF InIOFin, InterfacesTypeOK
  <2> QED
    BY <1>0, <2>1, QuantumDesbloquear
<1>2. CASE ~\E i \in Ifaces : InIOFin(i)
  <2>1. UNCHANGED <<quantum, vReady>>
    BY <1>2, HuellaIfaces
  <2>2. UNCHANGED estado \/ \E q \in PID, f \in {"READY", "EXIT"}, i \in Ifaces :
          /\ Muda(q, "BLOCKED", f)
          /\ OutRechaza(i) \/ InDesconexion(i)
    BY <1>0, <1>2, MudaIfaces
  <2>4. ASSUME NEW i \in Ifaces, OutRechaza(i) PROVE QuantumOK'
    <3>1. /\ estado[pid_out[i]] = "BLOCKED"
          /\ estado' = [estado EXCEPT ![pid_out[i]] = "EXIT"]
      BY <2>4 DEF OutRechaza, OutConPCB, EnviarAExit
    <3> QED
      BY <1>0, <2>1, <3>1, QuantumQuieto DEF PCBTypeOK
  <2>5. ASSUME NEW i \in Ifaces, InDesconexion(i) PROVE QuantumOK'
    <3>1. \/ UNCHANGED estado
          \/ /\ estado[occupant[i]] = "BLOCKED"
             /\ estado' = [estado EXCEPT ![occupant[i]] = "EXIT"]
      BY <1>0, <2>5 DEF InDesconexion, EnviarAExit, EstadoDisp
    <3> QED
      BY <1>0, <2>1, <3>1, QuantumQuieto DEF PCBTypeOK
  <2>6. CASE UNCHANGED estado
    BY <2>1, <2>6, QuantumQuieto
  <2> QED
    BY <2>2, <2>4, <2>5, <2>6
<1> QED
  BY <1>1, <1>2

(* The planificador: what the quantum thread left, when the process comes  *)
(* back (interruptor.c:16-27), and a full quantum when it was used up.     *)
LEMMA QuantumPasoPlan ==
  ASSUME KInv, EstadosOK, ReadyOK, QuantumOK, DelPlan
  PROVE  QuantumOK'
<1>0. /\ PCBTypeOK /\ ColasReadyOK /\ ManosPlan /\ EstadoPlan /\ EstadoCpu
      /\ PcTypeOK /\ QUANTUM \in Nat
  BY DEF KInv, EstadosOK
<1>1. CASE PlanToma
  <2>1. /\ cola_ready \in Seq(PID) /\ cola_priority_ready \in Seq(PID)
        /\ sem_cola_ready > 0 /\ UNCHANGED <<estado, quantum>>
        /\ Len(cola_ready) + Len(cola_priority_ready) = sem_cola_ready
    BY <1>0, <1>1 DEF PlanToma, ColasReadyOK
  <2>2. \/ /\ cola_ready # <<>> /\ cola_ready' = Tail(cola_ready)
           /\ UNCHANGED cola_priority_ready
        \/ /\ cola_priority_ready # <<>> /\ UNCHANGED cola_ready
           /\ cola_priority_ready' = Tail(cola_priority_ready)
    BY <1>1, <2>1, EmptySeq, LenProperties DEF PlanToma
  <2>3. \A p \in PID :
          /\ Contains(cola_ready', p) => Contains(cola_ready, p)
          /\ Contains(cola_priority_ready', p) => Contains(cola_priority_ready, p)
    BY <2>1, <2>2, ContainsTail
  <2> QED
    BY <2>1, <2>3, QtmMismo DEF QuantumOK
<1>2. CASE PlanDespierta
  BY <1>0, <1>2, QuantumDesbloquear DEF PlanDespierta, ManosPlan
<1>3. CASE PlanDesaloja
  <2>1. PICK q \in PID : q = actual[Plan]
    BY <1>0, <1>3 DEF PlanDesaloja, ManosPlan
  <2>2. /\ Muda(q, "EXEC", "READY") /\ PushReady(q)
        /\ quantum' = [quantum EXCEPT ![q] = QUANTUM]
    BY <1>3, <2>1 DEF PlanDesaloja, Muda
  <2>3. quantum'[q] = QUANTUM /\ \A p \in PID : p # q => quantum'[p] = quantum[p]
    BY <1>0, <2>2 DEF PCBTypeOK
  <2> QED
    BY <1>0, <2>2, <2>3, QuantumEntra
<1>4. CASE PlanMatado \/ PlanActualiza
  <2>1. PICK q \in PID : q = actual[Plan]
    BY <1>0, <1>4 DEF PlanMatado, PlanActualiza, ManosPlan
  <2>2. /\ UNCHANGED vReady /\ pc[Plan] = "actualiza" /\ CancelaReloj(q)
        /\ \/ estado' = [estado EXCEPT ![q] = "EXIT"]
           \/ UNCHANGED estado /\ estado[q] = "EXEC"
    BY <1>4, <2>1 DEF PlanMatado, PlanActualiza, EnviarAExit
  <2>3. /\ estado[q] \in {"EXEC", "EXIT", "DELETED"}
        /\ estado'[q] \in {"EXEC", "EXIT"}
        /\ \A p \in PID : p # q => estado'[p] = estado[p]
    BY <1>0, <2>1, <2>2 DEF EstadoCpu, EnLaCpu, PCBTypeOK
  <2>4. /\ quantum'[q] = quantum[q] \/ quantum'[q] >= 0
        /\ \A p \in PID : p # q => quantum'[p] = quantum[p]
    BY <1>0, <2>2 DEF CancelaReloj, PCBTypeOK
  <2> SUFFICES ASSUME Algoritmo # "FIFO", NEW p \in PID
               PROVE  Qtm(estado'[p], quantum'[p], Contains(cola_ready', p),
                          Contains(cola_priority_ready', p))
    BY DEF QuantumOK
  <2>5. CASE p = q
    <3>1. quantum[q] >= 0
      BY <2>3 DEF QuantumOK, Qtm
    <3> QED
      BY <2>3, <2>4, <2>5, <3>1 DEF Qtm
  <2>6. CASE p # q
    BY <2>2, <2>3, <2>4, <2>6, QtmMismo
  <2> QED
    BY <2>5, <2>6
(* Any other step of it. *)
<1>5. CASE ~ (PlanToma \/ PlanDespierta \/ PlanDesaloja \/ PlanMatado
                \/ PlanActualiza)
  <2>1. UNCHANGED <<quantum, vReady>>
    BY <1>5, HuellaPlan, HuellaPlanColas
  <2>2. CASE UNCHANGED estado
    BY <2>1, <2>2, QuantumQuieto
  <2>4. CASE PlanDespacha \/ PlanRedespacha
    BY <1>0, <2>1, <2>4, QuantumSale DEF PlanDespacha, PlanRedespacha,
           EjecutarProceso,
       ManosPlan
  <2>5. CASE \/ PlanInvalida \/ PlanTermina \/ PlanLeeSyscall
             \/ PlanInterfazInvalida
    <3>1. /\ UNCHANGED estado \/ estado' = [estado EXCEPT ![actual[Plan]] = "EXIT"]
          /\ pc[Plan] \in {"procesa", "syscall", "IO"}
      BY <2>5 DEF PlanInvalida, PlanTermina, PlanLeeSyscall,
         PlanInterfazInvalida, PlanProcesa, PlanEnviarAExit, PlanSinCambio,
         EnviarAExit
    <3>2. actual[Plan] \in PID /\ estado[actual[Plan]] = "EXEC"
      BY <1>0, <3>1 DEF ManosPlan, EstadoPlan, ConElPCB
    <3>3. CASE estado' = [estado EXCEPT ![actual[Plan]] = "EXIT"]
      <4>1. PICK q \in PID : q = actual[Plan]
        BY <3>2
      <4>2. /\ estado[q] \in {"READY", "EXEC"}
            /\ estado' = [estado EXCEPT ![q] = "EXIT"]
        BY <3>2, <3>3, <4>1
      <4> QED
        BY <1>0, <2>1, <4>2, QuantumSale
    <3> QED
      BY <2>2, <3>1, <3>3
  <2>6. CASE PlanWait \/ PlanBloqueaIO
    <3>1. /\ \/ UNCHANGED estado
             \/ estado' = [estado EXCEPT ![actual[Plan]] = "BLOCKED"]
          /\ pc[Plan] \in {"WAIT", "IO"}
      BY <2>6 DEF PlanWait, PlanBloqueaIO
    <3>2. actual[Plan] \in PID /\ estado[actual[Plan]] = "EXEC"
      BY <1>0, <3>1 DEF ManosPlan, EstadoPlan, ConElPCB
    <3>3. CASE estado' = [estado EXCEPT ![actual[Plan]] = "BLOCKED"]
      <4>1. PICK q \in PID : q = actual[Plan]
        BY <3>2
      <4>2. /\ estado[q] \in {"READY", "EXEC"}
            /\ estado' = [estado EXCEPT ![q] = "BLOCKED"]
        BY <3>2, <3>3, <4>1
      <4> QED
        BY <1>0, <2>1, <4>2, QuantumSale
    <3> QED
      BY <2>2, <3>1, <3>3
  <2> QED
    BY <1>5, <2>2, <2>4, <2>5, <2>6, HuellaPlan
<1> QED
  BY <1>1, <1>2, <1>3, <1>4, <1>5

(* The quantum thread sets to 0 the quantum of the process in the CPU,     *)
(* without its mx_PCB: that process is neither NEW nor READY.              *)
LEMMA QuantumPasoReloj ==
  ASSUME KInv, EstadosOK, QuantumOK, RelojOK, DelReloj
  PROVE  QuantumOK'
<1>0. PCBTypeOK /\ ManosPlan /\ EstadoCpu /\ EstadoPlan
  BY DEF KInv, EstadosOK
<1>1. PICK q \in PID : q = reloj
  BY <1>0 DEF DelReloj, VenceQuantum, RelojOK, ManosPlan, EnLaCpu
<1>2. /\ quantum' = [quantum EXCEPT ![q] = 0]
      /\ UNCHANGED <<estado, vReady>>
      /\ estado[q] \in {"EXEC", "EXIT", "DELETED"}
  BY <1>0, <1>1 DEF DelReloj, VenceQuantum, RelojOK, EstadoCpu
<1>3. quantum'[q] = 0 /\ \A p \in PID : p # q => quantum'[p] = quantum[p]
  BY <1>0, <1>2 DEF PCBTypeOK
<1> SUFFICES ASSUME Algoritmo # "FIFO", NEW p \in PID
             PROVE  Qtm(estado'[p], quantum'[p], Contains(cola_ready', p),
                        Contains(cola_priority_ready', p))
  BY DEF QuantumOK
<1>4. CASE p = q
  BY <1>2, <1>3, <1>4 DEF Qtm
<1>5. CASE p # q
  BY <1>2, <1>3, <1>5, QtmMismo
<1> QED
  BY <1>4, <1>5

(* The quantum thread starts and is cancelled with the time in the CPU. *)
LEMMA RelojPaso ==
  ASSUME KInv, RelojOK, [Next]_vars
  PROVE  RelojOK'
<1>0. PcTypeOK /\ ManosTypeOK /\ ManosPlan
  BY DEF KInv
<1>1. CASE DelPlan
  <2>1. CASE PlanDespacha \/ PlanRedespacha
    BY <1>0, <2>1 DEF PlanDespacha, PlanRedespacha, EjecutarProceso, RelojOK,
       EnLaCpu, PcTypeOK, Hilos
  <2>2. CASE PlanMatado \/ PlanActualiza
    BY <2>2 DEF PlanMatado, PlanActualiza, CancelaReloj, RelojOK
  <2>3. CASE PlanRecibe
    BY <1>0, <2>3 DEF PlanRecibe, RelojOK, EnLaCpu, PcTypeOK, Hilos
  <2>4. CASE ~ (PlanDespacha \/ PlanRedespacha \/ PlanMatado \/ PlanActualiza
                  \/ PlanRecibe)
    <3>1. pc[Plan] \notin EnLaCpu
      BY <1>1, <2>4 DEF DelPlan, PlanNext, PlanToma, PlanPasaPausa,
         PlanDescarta, PlanInvalida, PlanTermina, PlanInterrumpido,
         PlanPideSyscall, PlanLeeSyscall, PlanWait, PlanSignal, PlanDespierta,
         PlanInterfazInvalida, PlanBloqueaIO, PlanDesaloja, PlanSuelta,
         PlanProcesa, EnLaCpu
    <3>2. UNCHANGED reloj
      BY <1>1, <2>4, HuellaPlanPaquete
    <3> QED
      BY <3>1, <3>2 DEF RelojOK
  <2> QED
    BY <2>1, <2>2, <2>3, <2>4
<1>2. CASE ~DelPlan
  <2>1. UNCHANGED <<pc[Plan], actual[Plan]>>
    BY <1>0, <1>2, OtrosHilos
  <2>2. UNCHANGED reloj \/ reloj' = Nadie
    BY <1>2, HuellaCrear, HuellaElim, HuellaConsola, HuellaIfaces, HuellaCpu
       DEF Next, vars, kernel_vars, vKernelAjeno, DelReloj, VenceQuantum
  <2> QED
    BY <2>1, <2>2 DEF RelojOK
<1> QED
  BY <1>1, <1>2

(* Everything about quanta, with the states and queues it rests on. *)
QuantumInv == EstadosInv /\ QuantumOK /\ RelojOK

(* Every step keeps it. *)
LEMMA QuantumPaso ==
  ASSUME QuantumInv, [Next]_vars
  PROVE  QuantumInv'
<1>1. KInv /\ EstadosOK /\ ReadyOK /\ EstadosInv /\ QuantumOK /\ RelojOK
  BY DEF QuantumInv, EstadosInv
<1>2. EstadosInv' /\ RelojOK'
  BY <1>1, EstadosInvPaso, RelojPaso
<1>3. CASE DeCpu \/ UNCHANGED vars
  <2>1. UNCHANGED <<estado, quantum, vReady>>
    BY <1>3, HuellaCpu DEF vars, kernel_vars, vKernelAjeno
  <2> QED
    BY <1>1, <1>2, <2>1, QuantumQuieto DEF QuantumInv
<1>4. CASE ~(DeCpu \/ UNCHANGED vars)
  BY <1>1, <1>2, <1>4, QuantumPasoCrear, QuantumPasoElim, QuantumPasoPlan,
     QuantumPasoReloj, QuantumPasoConsola, QuantumPasoIfaces
     DEF Next, QuantumInv
<1> QED
  BY <1>3, <1>4

(* At the start no process exists and no quantum runs. *)
LEMMA QuantumInit == Init => QuantumOK /\ RelojOK
<1> SUFFICES ASSUME Init PROVE QuantumOK /\ RelojOK
  OBVIOUS
<1> QED
  BY DEF Init, KernelInit, QuantumOK, Qtm, RelojOK

(***************************************************************************)
(* Whatever the number of processes and devices and however the quantum    *)
(* thread, the I/O and the planificador interleave, a process waits in     *)
(* cola_ready with a full quantum and in the priority queue with what its  *)
(* I/O left of it, never 0; and a quantum thread sleeps only for the       *)
(* process in the CPU (corto_plazo.c:19, :68, :109; recursos.c:92-110).    *)
(***************************************************************************)
THEOREM QuantumCoherenteSiempre == Spec => []QuantumCoherente
<1>1. Init => QuantumInv
  BY KernelInitInv, MutexInit, EstadosInit, ReadyInit, QuantumInit
     DEF EstadosInv, QuantumInv
<1>2. QuantumInv /\ [Next]_vars => QuantumInv'
  BY QuantumPaso
<1>3. QuantumInv => QuantumCoherente
  BY DEF QuantumInv, QuantumOK, Qtm, RelojOK, EnLaCpu, QuantumCoherente,
     EnColaConQuantum
<1> QED
  BY <1>1, <1>2, <1>3, PTL DEF Spec
=============================================================================
