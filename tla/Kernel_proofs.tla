--------------------------- MODULE Kernel_proofs ---------------------------
(***************************************************************************)
(* Proofs about the kernel with all its threads, its CPU and its devices:  *)
(* the inductive invariant KInv and the properties that follow from it.    *)
(*                                                                         *)
(* TypeOK is not inductive.  That a thread never uses the PCB NULL follows *)
(* from where it is in its code (the parts Manos...), that from the heads  *)
(* of the queues it pops, those from the semaphores that count them and,   *)
(* for resources, from their instances.  So the parts hold together or not *)
(* at all.  There is one lemma per part, one step per action that part can *)
(* be disturbed by, and the frames of the threads answer for the others.   *)
(* The last part of the module adds to it who has the PCB of each process. *)
(***************************************************************************)
EXTENDS KernelPropiedades, Colas_lemas, FiniteSetTheorems

(* Who has a process at hand where a thread uses one. *)
ManosCrear ==
    pc[Crear] \in {"mx_PCB", "memoria"} => actual[Crear] \in PID
ManosElim ==
    /\ pc[Elim] # "espera" => actual[Elim] \in PID
    /\ pc[Elim] \in {"libera", "despierta"} => idx_elim \in Recursos
    /\ pc[Elim] = "despierta" => otro[Elim] \in PID
ManosPlan ==
    /\ pc[Plan] # "espera" => actual[Plan] \in PID
    /\ pc[Plan] = "despierta" => otro[Plan] \in PID
    /\ pc[Plan] \in {"WAIT", "SIGNAL", "despierta"} => paquete.arg \in Recursos
ManosConsola ==
    pc[HiloConsola] = "proc_end" => actual[HiloConsola] \in PID
ManosOut ==
    \A i \in Ifaces :
        pc_out[i] \in {"sem_occupied", "mx_PCB"} => pid_out[i] \in PID
ManosCpu == cpu_pc \in {"ciclo", "devuelve"} => cpu_pid \in PID

(* mx_pause is a mutex that PlanEnd keeps and PlanStart gives back. *)
PausaOK == paused \in BOOLEAN /\ mx_pause = IF paused THEN 0 ELSE 1

(* Where crear_proceso is in its loop and where in add_prog. *)
AdmisionOK ==
    /\ pc[Crear] = "espera" => admision = "fuera"
    /\ pc[Crear] = "add_prog" => admision # "fuera"
    /\ pc[Crear] \in {"mx_PCB", "memoria"} => admision = "admitido"

(* Each queue with the semaphore that counts it. *)
ColaNewOK ==
    /\ cola_new \in Seq(PID) /\ sem_cola_new \in Nat
    /\ Len(cola_new) = sem_cola_new + Como(pc[Crear] = "add_prog")
ColasReadyOK ==
    /\ cola_ready \in Seq(PID) /\ cola_priority_ready \in Seq(PID)
    /\ sem_cola_ready \in Nat
    /\ Len(cola_ready) + Len(cola_priority_ready) = sem_cola_ready
ColaExitOK ==
    /\ cola_exit \in Seq(PID) /\ sem_cola_exit \in Nat
    /\ Len(cola_exit) = sem_cola_exit
ColasIOOK ==
    /\ cola_io \in [Ifaces -> Seq(PID \union {FinCola})]
    /\ sem_cola_io \in [Ifaces -> Nat]
    /\ \A i \in Ifaces : Len(cola_io[i]) = sem_cola_io[i]

(* The inductive invariant. *)
KInv ==
    /\ PCBTypeOK /\ PcTypeOK
    /\ ManosTypeOK /\ ManosCrear /\ ManosElim /\ ManosPlan /\ ManosConsola
    /\ ColaNewOK /\ ColasReadyOK /\ ColaExitOK /\ ColasIOOK
    /\ M!ProgTypeOK /\ AdmisionOK /\ PausaOK
    /\ RecursosTypeOK /\ R!ColaSegunInstancias
    /\ SocketsTypeOK /\ CpuTypeOK /\ ManosCpu
    /\ InterfacesTypeOK /\ ManosOut /\ OcupacionExacta

(* What the threads find at the head of the queues they pop. *)
Cabezas ==
    /\ pc[Crear] = "add_prog" => Head(cola_new) \in PID
    /\ sem_cola_ready > 0 => Head(IF cola_priority_ready = <<>> THEN cola_ready ELSE cola_priority_ready) \in PID
    /\ sem_cola_exit > 0 => Head(cola_exit) \in PID
    /\ \A i \in Ifaces : sem_cola_io[i] > 0 => Head(cola_io[i]) \in PID \union {FinCola}
    /\ \A r \in Recursos : \A p : R!DespiertaOtro(p, r) => Head(cola_rec[r]) \in PID

USE KernelAssumption DEF ColaDe, OpcionalDe, Crear, Elim, Plan, HiloConsola,
    EnLugar,
    Va, Libre, Tomado, Soltado, SinPausa, Como, VuelveAEsperar, CambioEstado,
    vPCB, vNew, vReady, vExit, vProg, vPausa, vRec, vIface, vCpu, vElim, vPlan,
    vIfaceHilos, cpu_vars

(* The packets the CPU builds are packets.                                  *)
LEMMA PaquetesHechos ==
  /\ \A p \in PID \union {Nadie}, m \in Motivos : Devolucion(p, m) \in Paquetes
  /\ \A p \in PID, op \in OpsRecurso, r \in {0} \union Recursos :
        Syscall(op, p, r) \in Paquetes
  /\ \A p \in PID, op \in OpsIO, i \in Ifaces : Syscall(op, p, i) \in Paquetes
  BY DEF Paquetes, Syscalls


(* What a step of crear_proceso leaves alone.  The lemmas Huella... are the *)
(* frame of each thread: with them a step that a part of the invariant does *)
(* not read needs no look at the action.                                    *)
LEMMA HuellaCrear ==
  ASSUME DelCrear
  PROVE  /\ UNCHANGED <<quantum, retorno, vExit, vPausa, vRec, mx_recurso, vIface,
                        vCpu, otro, vElim, vPlan, fines, vIfaceHilos, cpu_vars>>
         /\ UNCHANGED <<estado, memoria, vReady>> \/ CrearAdmite
         /\ UNCHANGED mx_PCB \/ CrearPide \/ CrearAdmite
         /\ UNCHANGED vNew \/ CrearDespierta \/ CrearToma
         /\ UNCHANGED actual \/ CrearToma \/ CrearDescarta \/ CrearAdmite
  BY DEF DelCrear, CrearNext, CrearDespierta, CrearEnAddProg, CrearToma,
         CrearPide, CrearDescarta, CrearAdmite

(* What a step of eliminar_proceso leaves alone.                            *)
LEMMA HuellaElim ==
  ASSUME DelElim
  PROVE  /\ UNCHANGED <<vNew, vPausa, vIface, a_cpu, de_cpu, vPlan, fines,
                        vIfaceHilos, cpu_vars>>
         /\ UNCHANGED estado \/ ElimNew \/ ElimExec \/ ElimVivo \/ ElimDespierta
              \/ ElimBorra
         /\ UNCHANGED <<quantum, vReady>> \/ ElimDespierta
         /\ UNCHANGED retorno \/ ElimNew \/ ElimVivo
         /\ UNCHANGED vExit \/ ElimToma \/ ElimVivo
         /\ UNCHANGED mx_PCB \/ ElimExit \/ ElimBorra
         /\ UNCHANGED memoria \/ ElimExit
         /\ UNCHANGED vProg \/ ElimBorra
         /\ UNCHANGED vRec \/ ElimLibera
         /\ UNCHANGED mx_recurso \/ ElimTomaRecurso \/ ElimSuelta
         /\ UNCHANGED otro \/ ElimLibera \/ ElimDespierta
         /\ UNCHANGED irq \/ ElimExec
         /\ UNCHANGED idx_elim \/ ElimExit \/ ElimSuelta \/ ElimBorra
         /\ UNCHANGED veces_elim \/ ElimTomaRecurso \/ ElimLibera
  BY ZenonT(30) DEF DelElim, ElimNext, ElimToma, ElimCaso, ElimNew, ElimExec, ElimVivo,
         ElimNada, ElimExit, ElimTomaRecurso, ElimLibera, ElimDespierta,
         ElimSuelta, ElimBorra

(* What a step of the planificador leaves alone; the three lemmas after it  *)
(* say which of its actions change who it has at hand, the queues, and the  *)
(* packet.                                                                  *)
LEMMA HuellaPlan ==
  ASSUME DelPlan
  PROVE  /\ UNCHANGED <<vNew, vProg, vPausa, memoria, vElim, en_lista, conectada,
                        mx_interface, irq, fines, vIfaceHilos, cpu_vars>>
         /\ UNCHANGED estado \/ PlanDespacha \/ PlanMatado \/ PlanInvalida
              \/ PlanTermina \/ PlanLeeSyscall \/ PlanWait \/ PlanDespierta
              \/ PlanInterfazInvalida \/ PlanBloqueaIO \/ PlanDesaloja
              \/ PlanRedespacha
         /\ UNCHANGED quantum \/ PlanMatado \/ PlanActualiza \/ PlanDespierta
              \/ PlanDesaloja
         /\ UNCHANGED <<retorno, vExit>> \/ PlanMatado \/ PlanInvalida \/ PlanTermina
              \/ PlanLeeSyscall \/ PlanInterfazInvalida
  BY ZenonT(30) DEF DelPlan, PlanNext, PlanToma, PlanPasaPausa, PlanDescarta,
         PlanDespacha,
         PlanRecibe, PlanMatado, PlanActualiza, PlanInvalida, PlanTermina,
         PlanInterrumpido, PlanPideSyscall, PlanLeeSyscall, PlanWait,
         PlanSignal,
         PlanDespierta, PlanInterfazInvalida, PlanBloqueaIO, PlanDesaloja,
         PlanRedespacha, PlanSuelta, PlanProcesa, PlanEnviarAExit,
         PlanSinCambio,
         EjecutarProceso

(* Most steps of the planificador keep its process at hand.                 *)
LEMMA HuellaPlanManos ==
  ASSUME DelPlan
  PROVE  /\ UNCHANGED mx_PCB \/ PlanActualiza \/ PlanDesaloja \/ PlanRedespacha
              \/ PlanSuelta
         /\ UNCHANGED otro \/ PlanSignal \/ PlanDespierta
         /\ UNCHANGED actual \/ PlanToma \/ PlanDescarta \/ PlanMatado
              \/ PlanDesaloja \/ PlanSuelta
  BY ZenonT(30) DEF DelPlan, PlanNext, PlanToma, PlanPasaPausa, PlanDescarta,
         PlanDespacha,
         PlanRecibe, PlanMatado, PlanActualiza, PlanInvalida, PlanTermina,
         PlanInterrumpido, PlanPideSyscall, PlanLeeSyscall, PlanWait,
         PlanSignal,
         PlanDespierta, PlanInterfazInvalida, PlanBloqueaIO, PlanDesaloja,
         PlanRedespacha, PlanSuelta, PlanProcesa, PlanEnviarAExit,
         PlanSinCambio,
         EjecutarProceso

(* Most steps of the planificador touch neither the queues nor the states.  *)
LEMMA HuellaPlanColas ==
  ASSUME DelPlan
  PROVE  /\ UNCHANGED vReady \/ PlanToma \/ PlanDespierta \/ PlanDesaloja
         /\ UNCHANGED vRec \/ PlanWait \/ PlanSignal
         /\ UNCHANGED mx_recurso \/ PlanSignal \/ PlanDespierta
         /\ UNCHANGED <<cola_io, sem_cola_io>> \/ PlanBloqueaIO
         /\ UNCHANGED a_cpu \/ PlanDespacha \/ PlanRedespacha
         /\ UNCHANGED de_cpu \/ PlanRecibe \/ PlanLeeSyscall
  BY ZenonT(30) DEF DelPlan, PlanNext, PlanToma, PlanPasaPausa, PlanDescarta,
         PlanDespacha,
         PlanRecibe, PlanMatado, PlanActualiza, PlanInvalida, PlanTermina,
         PlanInterrumpido, PlanPideSyscall, PlanLeeSyscall, PlanWait,
         PlanSignal,
         PlanDespierta, PlanInterfazInvalida, PlanBloqueaIO, PlanDesaloja,
         PlanRedespacha, PlanSuelta, PlanProcesa, PlanEnviarAExit,
         PlanSinCambio,
         EjecutarProceso

(* Most steps of the planificador neither read a packet nor drop it.        *)
LEMMA HuellaPlanPaquete ==
  ASSUME DelPlan
  PROVE  /\ UNCHANGED paquete \/ PlanRecibe \/ PlanMatado \/ PlanLeeSyscall
              \/ PlanDesaloja \/ PlanRedespacha \/ PlanSuelta
         /\ UNCHANGED reloj \/ PlanDespacha \/ PlanMatado \/ PlanActualiza
              \/ PlanRedespacha
  BY DEF DelPlan, PlanNext, PlanToma, PlanPasaPausa, PlanDescarta,
         PlanDespacha,
         PlanRecibe, PlanMatado, PlanActualiza, PlanInvalida, PlanTermina,
         PlanInterrumpido, PlanPideSyscall, PlanLeeSyscall, PlanWait,
         PlanSignal,
         PlanDespierta, PlanInterfazInvalida, PlanBloqueaIO, PlanDesaloja,
         PlanRedespacha, PlanSuelta, PlanProcesa, PlanEnviarAExit,
         PlanSinCambio,
         EjecutarProceso

(* What a command of the console leaves alone.                              *)
LEMMA HuellaConsola ==
  ASSUME DeConsola
  PROVE  /\ UNCHANGED <<retorno, mx_PCB, vReady, vRec, mx_recurso, vIface, vCpu,
                        memoria, otro, vElim, vPlan, vIfaceHilos, cpu_vars>>
         /\ UNCHANGED <<estado, quantum, vNew>> \/ \E p \in PID : ProcStart(p)
         /\ UNCHANGED vExit \/ ProcEndEncola
         /\ UNCHANGED vProg \/ \E valor \in Grados : Multiprog(valor)
         /\ UNCHANGED vPausa \/ PlanEnd \/ PlanStart
         /\ UNCHANGED fines \/ \E p \in PID : ProcEnd(p)
         /\ UNCHANGED <<pc, actual>> \/ ProcEndEncola \/ \E p \in PID : ProcEnd(p)
  BY DEF DeConsola, ConsolaNext, ProcStart, ProcEnd, ProcEndEncola, Multiprog,
         PlanEnd, PlanStart, M!ModificarGrado

(* What IN, OUT and the devices leave alone.                                *)
LEMMA HuellaIfaces ==
  ASSUME DeIfaces
  PROVE  /\ UNCHANGED <<vNew, vProg, vPausa, vRec, mx_recurso, vCpu, memoria, pc,
                        actual, otro, vElim, vPlan, fines, cpu_vars>>
         /\ UNCHANGED <<quantum, vReady>> \/ \E i \in Ifaces : InIOFin(i)
         /\ UNCHANGED <<retorno, vExit>>
              \/ \E i \in Ifaces : InDesconexion(i) \/ OutRechaza(i)
         /\ UNCHANGED estado \/ \E i \in Ifaces : InIOFin(i) \/ InDesconexion(i)
                                                   \/ OutRechaza(i)
<1>1. PICK i \in Ifaces : InNext(i) \/ OutNext(i) \/ DispNext(i)
  BY DEF DeIfaces, InterfacesNext
<1>2. UNCHANGED <<fines, cpu_vars>>
  BY DEF DeIfaces
<1>3. UNCHANGED <<vNew, vProg, vPausa, vRec, mx_recurso, vCpu, memoria, pc,
                  actual, otro, vElim, vPlan>>
  BY <1>1 DEF InNext, OutNext, DispNext, Conecta, InRecibe, InIOFin,
     InDesconexion, OutToma, OutOcupa, OutConPCB, OutEntrega, OutRechaza,
     OutSaltea, DispToma, DispTermina, DispCae, vResto
<1>4. UNCHANGED <<quantum, vReady>> \/ InIOFin(i)
  BY <1>1 DEF InNext, OutNext, DispNext, Conecta, InRecibe, InDesconexion,
     OutToma, OutOcupa, OutConPCB, OutEntrega, OutRechaza, OutSaltea, DispToma,
     DispTermina, DispCae, SinCambioPCB
<1>5. UNCHANGED <<retorno, vExit>> \/ InDesconexion(i) \/ OutRechaza(i)
  BY <1>1 DEF InNext, OutNext, DispNext, Conecta, InRecibe, InIOFin, OutToma,
     OutOcupa, OutEntrega, OutSaltea, DispToma, DispTermina, DispCae,
     SinCambioPCB
<1>6. UNCHANGED estado \/ InIOFin(i) \/ InDesconexion(i) \/ OutRechaza(i)
  BY <1>1 DEF InNext, OutNext, DispNext, Conecta, InRecibe, OutToma, OutOcupa,
     OutEntrega, OutSaltea, DispToma, DispTermina, DispCae, SinCambioPCB
<1> QED
  BY <1>2, <1>3, <1>4, <1>5, <1>6

(* Of the interfaces, the steps that leave the queues alone.                *)
LEMMA HuellaIfacesColas ==
  ASSUME DeIfaces
  PROVE  UNCHANGED <<cola_io, sem_cola_io>>
           \/ \E i \in Ifaces : InDesconexion(i) \/ OutToma(i)
  BY DEF DeIfaces, InterfacesNext, InNext, OutNext, DispNext, Conecta,
         InRecibe, InIOFin, OutOcupa, OutConPCB, OutEntrega, OutRechaza,
         OutSaltea, DispToma, DispTermina, DispCae, SinCambioPCB,
         vResto

(* Of the interfaces, the steps that look at no PCB.                        *)
LEMMA HuellaIfacesPCB ==
  ASSUME DeIfaces
  PROVE  UNCHANGED <<mx_PCB, occupant>>
           \/ \E i \in Ifaces : InIOFin(i) \/ InDesconexion(i) \/ OutEntrega(i)
  BY DEF DeIfaces, InterfacesNext, InNext, OutNext, DispNext, Conecta,
         InRecibe,
         OutToma, OutOcupa, OutConPCB, OutRechaza, OutSaltea, DispToma,
         DispTermina, DispCae, SinCambioPCB, vResto

(* What the end of a quantum leaves alone.                                  *)
LEMMA HuellaReloj ==
  ASSUME DelReloj
  PROVE  UNCHANGED <<estado, retorno, mx_PCB, vNew, vReady, vExit, vProg, vPausa,
                     vRec, mx_recurso, vIface, a_cpu, de_cpu, memoria, pc, actual,
                     otro, vElim, paquete, fines, vIfaceHilos, cpu_vars>>
  BY DEF DelReloj, VenceQuantum

(* What the CPU leaves alone.                                               *)
LEMMA HuellaCpu ==
  ASSUME DeCpu
  PROVE  UNCHANGED <<vKernelAjeno, fines, vIfaceHilos>>
  BY DEF DeCpu, CpuNext, CpuTope, CpuRecibe, CpuEjecuta, CpuNormal, CpuCorta,
         CpuExit, CpuSinMemoria, CpuSyscall, CpuWait, CpuSignal,
         CpuRecursoAjeno,
         CpuIO, CpuSinInstruccion, CpuSaleDelCiclo, CpuDevuelve,
         CpuInterrupcion,
         vKernelAjeno

(* A thread's program counter, the PCB it has at hand and the process it is *)
(* to wake up are changed by that thread alone.                             *)
LEMMA OtrosHilosCrear ==
  ASSUME PcTypeOK, ManosTypeOK, DelCrear, NEW h \in Hilos \ {Crear}
  PROVE  pc'[h] = pc[h] /\ actual'[h] = actual[h] /\ otro'[h] = otro[h]
  BY DEF PcTypeOK, ManosTypeOK, DelCrear, CrearNext, CrearDespierta,
         CrearEnAddProg, CrearToma, CrearPide, CrearDescarta, CrearAdmite

(* The same, for a step of eliminar_proceso.                                *)
LEMMA OtrosHilosElim ==
  ASSUME PcTypeOK, ManosTypeOK, DelElim, NEW h \in Hilos \ {Elim}
  PROVE  pc'[h] = pc[h] /\ actual'[h] = actual[h] /\ otro'[h] = otro[h]
  BY DEF PcTypeOK, ManosTypeOK, DelElim, ElimNext, ElimToma, ElimCaso, ElimNew,
         ElimExec, ElimVivo, ElimNada, ElimExit, ElimTomaRecurso, ElimLibera,
         ElimDespierta, ElimSuelta, ElimBorra

(* The same, for a step of the planificador.                                *)
LEMMA OtrosHilosPlan ==
  ASSUME PcTypeOK, ManosTypeOK, DelPlan, NEW h \in Hilos \ {Plan}
  PROVE  pc'[h] = pc[h] /\ actual'[h] = actual[h] /\ otro'[h] = otro[h]
<1> USE DEF DelPlan, PlanNext, PlanToma, PlanPasaPausa, PlanDescarta,
    PlanDespacha, PlanRecibe, PlanMatado, PlanActualiza, PlanInvalida,
    PlanTermina, PlanInterrumpido, PlanPideSyscall, PlanLeeSyscall, PlanWait,
    PlanSignal, PlanDespierta, PlanInterfazInvalida, PlanBloqueaIO,
    PlanDesaloja, PlanRedespacha, PlanSuelta, PlanProcesa, PlanEnviarAExit,
    PlanSinCambio
<1>1. pc'[h] = pc[h]
  BY DEF PcTypeOK
<1>2. actual'[h] = actual[h]
  BY DEF ManosTypeOK
<1>3. otro'[h] = otro[h]
  BY DEF ManosTypeOK
<1> QED
  BY <1>1, <1>2, <1>3

(* The same, for a command of the console.                                  *)
LEMMA OtrosHilosConsola ==
  ASSUME PcTypeOK, ManosTypeOK, DeConsola, NEW h \in Hilos \ {HiloConsola}
  PROVE  pc'[h] = pc[h] /\ actual'[h] = actual[h] /\ otro'[h] = otro[h]
  BY DEF PcTypeOK, ManosTypeOK, DeConsola, ConsolaNext, ProcStart, ProcEnd,
         ProcEndEncola, Multiprog, PlanEnd, PlanStart

(* Together: a step moves one thread, and loop variables and the packet     *)
(* belong to theirs.                                                        *)
LEMMA OtrosHilos ==
  ASSUME PcTypeOK, ManosTypeOK, [Next]_vars
  PROVE  /\ DelCrear \/ UNCHANGED <<pc[Crear], actual[Crear], otro[Crear]>>
         /\ DelElim \/ UNCHANGED <<pc[Elim], actual[Elim], otro[Elim], vElim>>
         /\ DelPlan \/ UNCHANGED <<pc[Plan], actual[Plan], otro[Plan], paquete>>
         /\ DeConsola \/ UNCHANGED <<pc[HiloConsola], actual[HiloConsola],
                                     otro[HiloConsola]>>
<1>1. CASE DelCrear
  BY <1>1, OtrosHilosCrear, HuellaCrear DEF Hilos
<1>2. CASE DelElim
  BY <1>2, OtrosHilosElim, HuellaElim DEF Hilos
<1>3. CASE DelPlan
  BY <1>3, OtrosHilosPlan, HuellaPlan DEF Hilos
<1>4. CASE DeConsola
  BY <1>4, OtrosHilosConsola, HuellaConsola DEF Hilos
<1>5. CASE DelReloj \/ DeIfaces \/ DeCpu \/ UNCHANGED vars
  BY <1>5, HuellaReloj, HuellaIfaces, HuellaCpu DEF vars, kernel_vars,
         vKernelAjeno
<1> QED
  BY <1>1, <1>2, <1>3, <1>4, <1>5 DEF Next

(* desbloquear keeps the PCBs well formed.                                  *)
LEMMA DesbloquearPCB ==
  ASSUME PCBTypeOK, NEW p \in PID, Desbloquear(p)
  PROVE  estado' \in [PID -> Estados] /\ quantum' \in [PID -> -1..QUANTUM]
<1>1. estado' \in [PID -> Estados]
  BY DEF Desbloquear, Estados, PCBTypeOK
<1>2. QUANTUM \in -1..QUANTUM
  OBVIOUS
<1>3. quantum' \in [PID -> -1..QUANTUM]
  BY <1>2 DEF Desbloquear, PCBTypeOK
<1> QED
  BY <1>1, <1>3

(* What remains of a quantum is a quantum.                                  *)
LEMMA CancelaRelojPCB ==
  ASSUME PCBTypeOK, NEW p \in PID, CancelaReloj(p)
  PROVE  quantum' \in [PID -> -1..QUANTUM]
  BY DEF CancelaReloj, PCBTypeOK

(* enviar_a_exit keeps the PCBs well formed.                                *)
LEMMA EnviarAExitPCB ==
  ASSUME PCBTypeOK, NEW p \in PID, NEW m \in Motivos, EnviarAExit(p, m)
  PROVE  estado' \in [PID -> Estados] /\ retorno' \in [PID -> Motivos]
  BY DEF EnviarAExit, Estados, PCBTypeOK

(* Every step keeps the PCBs well formed: in particular no thread writes the*)
(* state of NULL, which is why it needs to know who each thread has at hand.*)
LEMMA PCBPaso ==
  ASSUME PCBTypeOK, ManosCrear, ManosElim, ManosPlan, ManosOut, reloj \in
         OpcionalDe(PID), occupant \in [Ifaces -> OpcionalDe(PID)],
         [Next]_vars
  PROVE  PCBTypeOK'
<1> USE DEF PCBTypeOK, Estados, Motivos
<1>1. CASE DelCrear
  <2>1. CASE CrearPide
    BY <2>1 DEF CrearPide, ManosCrear
  <2>2. CASE CrearAdmite
    BY <2>2 DEF CrearAdmite, PushReady, M!Sigue, ManosCrear
  <2> QED
    BY <1>1, <2>1, <2>2, HuellaCrear
<1>2. CASE DelElim
  <2>1. CASE ElimNew
    BY <2>1 DEF ElimNew, ElimCaso, ManosElim
  <2>2. CASE ElimExec
    BY <2>2 DEF ElimExec, ElimCaso, ManosElim
  <2>3. CASE ElimVivo
    BY <2>3 DEF ElimVivo, ElimCaso, EnviarAExit, PushExit, ManosElim
  <2>4. CASE ElimExit
    BY <2>4 DEF ElimExit, ManosElim
  <2>5. CASE ElimDespierta
    BY <2>5, DesbloquearPCB DEF ElimDespierta, ManosElim
  <2>6. CASE ElimBorra
    BY <2>6 DEF ElimBorra, M!RemoveProg, ManosElim
  <2> QED
    BY <1>2, <2>1, <2>2, <2>3, <2>4, <2>5, <2>6, HuellaElim
<1>3. CASE DelPlan
  <2>1. CASE PlanDespacha
    BY <2>1 DEF PlanDespacha, EjecutarProceso, ManosPlan
  <2>2. CASE PlanMatado
    BY <2>2, CancelaRelojPCB, EnviarAExitPCB DEF PlanMatado, ManosPlan
  <2>3. CASE PlanActualiza
    BY <2>3, CancelaRelojPCB DEF PlanActualiza, ManosPlan
  <2>4. CASE PlanInvalida
    BY <2>4, EnviarAExitPCB DEF PlanInvalida, PlanProcesa, PlanEnviarAExit,
           ManosPlan
  <2>5. CASE PlanTermina
    BY <2>5, EnviarAExitPCB DEF PlanTermina, PlanProcesa, PlanEnviarAExit,
           ManosPlan
  <2>6. CASE PlanLeeSyscall
    BY <2>6, EnviarAExitPCB DEF PlanLeeSyscall, PlanSinCambio,
           PlanEnviarAExit, ManosPlan
  <2>7. CASE PlanWait
    BY <2>7 DEF PlanWait, R!AsignarRecurso, R!Agotado, ManosPlan
  <2>8. CASE PlanDespierta
    BY <2>8, DesbloquearPCB DEF PlanDespierta, ManosPlan
  <2>9. CASE PlanInterfazInvalida
    BY <2>9, EnviarAExitPCB DEF PlanInterfazInvalida, PlanEnviarAExit,
           ManosPlan
  <2>10. CASE PlanBloqueaIO
    BY <2>10 DEF PlanBloqueaIO, Listada, ManosPlan
  <2>11. CASE PlanDesaloja
    BY <2>11 DEF PlanDesaloja, PushReady, ManosPlan
  <2>12. CASE PlanRedespacha
    BY <2>12 DEF PlanRedespacha, EjecutarProceso, ManosPlan
  <2>13. CASE PlanSuelta
    BY <2>13 DEF PlanSuelta, ManosPlan
  <2> QED
    BY <1>3, <2>1, <2>2, <2>3, <2>4, <2>5, <2>6, <2>7, <2>8, <2>9, <2>10,
        <2>11, <2>12, <2>13, HuellaPlan, HuellaPlanManos
<1>4. CASE DelReloj
  <2>1. CASE VenceQuantum
    BY <2>1 DEF VenceQuantum
  <2> QED
    BY <1>4, <2>1, HuellaReloj DEF DelReloj
<1>5. CASE DeConsola
  <2>1. ASSUME NEW p \in PID, ProcStart(p) PROVE PCBTypeOK'
    BY <2>1 DEF ProcStart, Lee
  <2> QED
    BY <1>5, <2>1, HuellaConsola
<1>6. CASE DeIfaces
  <2>1. ASSUME NEW i \in Ifaces, InIOFin(i) PROVE PCBTypeOK'
    BY <2>1, DesbloquearPCB DEF InIOFin
  <2>2. ASSUME NEW i \in Ifaces, InDesconexion(i) PROVE PCBTypeOK'
    <3>1. CASE occupant[i] = Nadie
      BY <2>2, <3>1 DEF InDesconexion
    <3>2. CASE occupant[i] # Nadie
      <4>1. occupant[i] \in PID
        BY <3>2
      <4>2. EnviarAExit(occupant[i], "INVALID_INTERFACE")
        BY <2>2, <3>2 DEF InDesconexion
      <4>3. /\ mx_PCB' = Soltado(mx_PCB, occupant[i])
            /\ UNCHANGED <<quantum, memoria>>
        BY <2>2, <3>2 DEF InDesconexion
      <4> QED
        BY <4>1, <4>2, <4>3, EnviarAExitPCB
    <3> QED
      BY <3>1, <3>2
  <2>3. ASSUME NEW i \in Ifaces, OutEntrega(i) PROVE PCBTypeOK'
    BY <2>3 DEF OutEntrega, OutConPCB, vResto, ManosOut
  <2>4. ASSUME NEW i \in Ifaces, OutRechaza(i) PROVE PCBTypeOK'
    BY <2>4, EnviarAExitPCB DEF OutRechaza, OutConPCB, vResto, ManosOut
  <2> QED
    BY <1>6, <2>1, <2>2, <2>3, <2>4, HuellaIfaces, HuellaIfacesPCB
<1>7. CASE DeCpu \/ UNCHANGED vars
  BY <1>7, HuellaCpu DEF vars, kernel_vars, vKernelAjeno
<1> QED
  BY <1>1, <1>2, <1>3, <1>4, <1>5, <1>6, <1>7 DEF Next

(* Every step keeps each thread at a place of its own code.                 *)
LEMMA PcPaso ==
  ASSUME PcTypeOK, ManosTypeOK, [Next]_vars
  PROVE  PcTypeOK'
<1> USE DEF PcTypeOK, LugaresCrear, LugaresElim, LugaresPlan, LugaresConsola,
    Hilos
<1>1. CASE DelCrear
  BY <1>1 DEF DelCrear, CrearNext, CrearDespierta, CrearEnAddProg, CrearToma,
              CrearPide, CrearDescarta, CrearAdmite
<1>2. CASE DelElim
  BY <1>2 DEF DelElim, ElimNext, ElimToma, ElimCaso, ElimNew, ElimExec,
         ElimVivo,
         ElimNada, ElimExit, ElimTomaRecurso, ElimLibera, ElimDespierta,
         ElimSuelta, ElimBorra
<1>3. CASE DelPlan
  <2> USE DEF PlanEnviarAExit, PlanSinCambio, OpsRecurso
  <2>1. CASE PlanToma \/ PlanPasaPausa \/ PlanDescarta \/ PlanDespacha
                \/ PlanRecibe \/ PlanMatado \/ PlanActualiza
    BY <2>1 DEF PlanToma, PlanPasaPausa, PlanDescarta, PlanDespacha, PlanRecibe,
                PlanMatado, PlanActualiza
  <2>2. CASE PlanInvalida \/ PlanTermina \/ PlanInterrumpido
                \/ PlanPideSyscall \/ PlanLeeSyscall
    BY <2>2 DEF PlanInvalida, PlanTermina, PlanInterrumpido, PlanPideSyscall,
                PlanLeeSyscall, PlanProcesa
  <2>3. CASE PlanWait \/ PlanSignal \/ PlanDespierta
                \/ PlanInterfazInvalida \/ PlanBloqueaIO
    BY <2>3 DEF PlanWait, PlanSignal, PlanDespierta, PlanInterfazInvalida,
                PlanBloqueaIO
  <2>4. CASE PlanDesaloja \/ PlanRedespacha \/ PlanSuelta
    BY <2>4 DEF PlanDesaloja, PlanRedespacha, PlanSuelta
  <2> QED
    BY <1>3, <2>1, <2>2, <2>3, <2>4 DEF DelPlan, PlanNext
<1>4. CASE DeConsola
  BY <1>4, HuellaConsola DEF ProcEnd, ProcEndEncola
<1>5. CASE DelReloj \/ DeIfaces \/ DeCpu \/ UNCHANGED vars
  BY <1>5, HuellaReloj, HuellaIfaces, HuellaCpu DEF vars, kernel_vars,
         vKernelAjeno
<1> QED
  BY <1>1, <1>2, <1>3, <1>4, <1>5 DEF Next

(* Every step keeps the state of multiprogramacion.c well formed, and       *)
(* add_prog entered exactly while crear_proceso is in it.                   *)
LEMMA ProgPaso ==
  ASSUME PcTypeOK, M!ProgTypeOK, AdmisionOK, [Next]_vars
  PROVE  M!ProgTypeOK' /\ AdmisionOK'
<1> USE DEF M!ProgTypeOK, AdmisionOK, PcTypeOK, Hilos
<1>1. CASE DelCrear
  BY <1>1 DEF DelCrear, CrearNext, CrearDespierta, CrearEnAddProg, CrearToma,
              CrearPide, CrearDescarta, CrearAdmite, M!LlamaAddProg,
              M!TomaFicha, M!AddProg, M!ReintentaAddProg, M!RemoveProg, M!Sigue
<1>2. CASE DelElim
  BY <1>2 DEF DelElim, ElimNext, ElimToma, ElimCaso, ElimNew, ElimExec,
         ElimVivo,
         ElimNada, ElimExit, ElimTomaRecurso, ElimLibera, ElimDespierta,
         ElimSuelta, ElimBorra, M!RemoveProg
<1>3. CASE DelPlan
  BY <1>3 DEF DelPlan, PlanNext, PlanToma, PlanPasaPausa, PlanDescarta,
         PlanDespacha,
         PlanRecibe, PlanMatado, PlanActualiza, PlanInvalida, PlanTermina,
         PlanInterrumpido, PlanPideSyscall, PlanLeeSyscall, PlanWait,
         PlanSignal,
         PlanDespierta, PlanInterfazInvalida, PlanBloqueaIO, PlanDesaloja,
         PlanRedespacha, PlanSuelta, PlanProcesa, PlanEnviarAExit,
         PlanSinCambio
<1>4. CASE DeConsola
  BY <1>4 DEF DeConsola, ConsolaNext, ProcStart, ProcEnd, ProcEndEncola,
              Multiprog, PlanEnd, PlanStart, Lee, M!ModificarGrado
<1>5. CASE DelReloj \/ DeIfaces \/ DeCpu \/ UNCHANGED vars
  BY <1>5, HuellaReloj, HuellaIfaces, HuellaCpu DEF vars, kernel_vars,
         vKernelAjeno
<1> QED
  BY <1>1, <1>2, <1>3, <1>4, <1>5 DEF Next

(* mx_pause is taken exactly while the planning is paused, so that          *)
(* plan_start never posts it twice.                                         *)
LEMMA PausaPaso ==
  ASSUME PausaOK, [Next]_vars
  PROVE  PausaOK'
<1>1. CASE DeConsola
  <2>1. CASE PlanEnd
    BY <2>1 DEF PlanEnd, PausaOK
  <2>2. CASE PlanStart
    <3>1. mx_pause = 0
      BY <2>2 DEF PlanStart, PausaOK
    <3>2. mx_pause' = 1 /\ paused' = FALSE
      BY <2>2, <3>1 DEF PlanStart
    <3> QED
      BY <3>2 DEF PausaOK
  <2> QED
    BY <1>1, <2>1, <2>2, HuellaConsola DEF PausaOK
<1>2. CASE DelCrear \/ DelElim \/ DelPlan
  BY <1>2, HuellaCrear, HuellaElim, HuellaPlan DEF PausaOK
<1>3. CASE DelReloj \/ DeIfaces \/ DeCpu \/ UNCHANGED vars
  BY <1>3, HuellaReloj, HuellaIfaces, HuellaCpu DEF PausaOK, vars,
         kernel_vars, vKernelAjeno
<1> QED
  BY <1>1, <1>2, <1>3 DEF Next

(* desbloquear puts the process in one of the two ready queues and counts   *)
(* it.                                                                      *)
LEMMA DesbloquearColas ==
  ASSUME ColasReadyOK, NEW p \in PID, Desbloquear(p)
  PROVE  ColasReadyOK'
<1>1. UNCHANGED vReady \/ PushReady(p) \/ PushPriority(p)
  BY DEF Desbloquear
<1>2. CASE UNCHANGED vReady
  BY <1>2 DEF ColasReadyOK
<1>3. CASE PushReady(p)
  BY <1>3 DEF ColasReadyOK, PushReady
<1>4. CASE PushPriority(p)
  <2>1. Len(cola_ready) \in Nat /\ Len(cola_priority_ready) \in Nat
    BY LenProperties DEF ColasReadyOK
  <2>2. /\ Append(cola_priority_ready, p) \in Seq(PID)
        /\ Len(Append(cola_priority_ready, p)) = Len(cola_priority_ready) + 1
    BY AppendProperties DEF ColasReadyOK
  <2>3. /\ cola_priority_ready' = Append(cola_priority_ready, p)
        /\ cola_ready' = cola_ready
        /\ sem_cola_ready' = sem_cola_ready + 1
    BY <1>4 DEF PushPriority
  <2> QED
    BY <2>1, <2>2, <2>3 DEF ColasReadyOK
<1> QED
  BY <1>1, <1>2, <1>3, <1>4

(* enviar_a_exit counts the process it puts in cola_exit.                   *)
LEMMA EnviarAExitColas ==
  ASSUME ColaExitOK, NEW p \in PID, NEW m, EnviarAExit(p, m)
  PROVE  ColaExitOK'
  BY DEF ColaExitOK, EnviarAExit, PushExit

(* sem_cola_new counts cola_new at every step.                              *)
LEMMA ColaNewPaso ==
  ASSUME ColaNewOK, PcTypeOK, ManosTypeOK, [Next]_vars
  PROVE  ColaNewOK'
<1> USE DEF ColaNewOK
<1>1. CASE DelCrear
  <2>1. CASE CrearDespierta
    BY <2>1 DEF CrearDespierta, M!LlamaAddProg, PcTypeOK, Hilos
  <2>2. CASE CrearEnAddProg
    BY <2>2 DEF CrearEnAddProg, M!TomaFicha, M!AddProg, M!ReintentaAddProg
  <2>3. CASE CrearToma
    BY <2>3 DEF CrearToma, PcTypeOK, Hilos
  <2>4. CASE CrearPide
    BY <2>4 DEF CrearPide, PcTypeOK, Hilos
  <2>5. CASE CrearDescarta
    BY <2>5 DEF CrearDescarta, M!RemoveProg, PcTypeOK, Hilos
  <2>6. CASE CrearAdmite
    BY <2>6 DEF CrearAdmite, PushReady, M!Sigue, PcTypeOK, Hilos
  <2> QED
    BY <1>1, <2>1, <2>2, <2>3, <2>4, <2>5, <2>6, HuellaCrear DEF DelCrear,
           CrearNext
<1>2. CASE DeConsola
  <2>1. ASSUME NEW p \in PID, ProcStart(p) PROVE ColaNewOK'
    BY <2>1 DEF ProcStart, Lee
  <2> QED
    BY <1>2, <2>1, HuellaConsola, OtrosHilosConsola DEF Hilos
<1>3. CASE DelElim \/ DelPlan \/ DelReloj \/ DeIfaces \/ DeCpu
           \/ UNCHANGED vars
  BY <1>3, HuellaElim, OtrosHilosElim, HuellaPlan, OtrosHilosPlan,
         HuellaReloj, HuellaIfaces, HuellaCpu DEF vars, kernel_vars,
         vKernelAjeno, Hilos
<1> QED
  BY <1>1, <1>2, <1>3 DEF Next

(* sem_cola_ready counts both ready queues at every step.                   *)
LEMMA ColasReadyPaso ==
  ASSUME ColasReadyOK, ManosCrear, ManosElim, ManosPlan, occupant \in [Ifaces
         -> OpcionalDe(PID)], [Next]_vars
  PROVE  ColasReadyOK'
<1> USE DEF ColasReadyOK
<1>1. CASE DelCrear
  <2>1. CASE CrearAdmite
    BY <2>1 DEF CrearAdmite, PushReady, ManosCrear
  <2> QED
    BY <1>1, <2>1, HuellaCrear
<1>2. CASE DelElim
  <2>1. CASE ElimDespierta
    BY <2>1, DesbloquearColas DEF ElimDespierta, ManosElim
  <2> QED
    BY <1>2, <2>1, HuellaElim
<1>3. CASE DelPlan
  <2>1. CASE PlanToma
    <3>1. Len(cola_ready) \in Nat /\ Len(cola_priority_ready) \in Nat
      BY LenProperties
    <3>2. CASE cola_priority_ready = <<>>
      <4>1. cola_ready # <<>>
        BY <2>1, <3>1, <3>2 DEF PlanToma
      <4>2. Tail(cola_ready) \in Seq(PID) /\ Len(Tail(cola_ready)) = Len(cola_ready) - 1
        BY <4>1, HeadTailProperties
      <4>3. /\ cola_ready' = Tail(cola_ready)
            /\ cola_priority_ready' = cola_priority_ready
            /\ sem_cola_ready' = sem_cola_ready - 1
        BY <2>1, <3>2 DEF PlanToma
      <4> QED
        BY <3>1, <4>2, <4>3
    <3>3. CASE cola_priority_ready # <<>>
      <4>1. /\ Tail(cola_priority_ready) \in Seq(PID)
            /\ Len(Tail(cola_priority_ready)) = Len(cola_priority_ready) - 1
        BY <3>3, HeadTailProperties
      <4>2. /\ cola_priority_ready' = Tail(cola_priority_ready)
            /\ cola_ready' = cola_ready
            /\ sem_cola_ready' = sem_cola_ready - 1
        BY <2>1, <3>3 DEF PlanToma
      <4> QED
        BY <3>1, <4>1, <4>2
    <3> QED
      BY <3>2, <3>3
  <2>2. CASE PlanDespierta
    BY <2>2, DesbloquearColas DEF PlanDespierta, ManosPlan
  <2>3. CASE PlanDesaloja
    BY <2>3 DEF PlanDesaloja, PushReady, ManosPlan
  <2> QED
    BY <1>3, <2>1, <2>2, <2>3, HuellaPlanColas
<1>4. CASE DeIfaces
  <2>1. ASSUME NEW i \in Ifaces, InIOFin(i) PROVE ColasReadyOK'
    BY <2>1, DesbloquearColas DEF InIOFin
  <2> QED
    BY <1>4, <2>1, HuellaIfaces
<1>5. CASE DelReloj \/ DeConsola \/ DeCpu \/ UNCHANGED vars
  BY <1>5, HuellaReloj, HuellaConsola, HuellaCpu DEF vars, kernel_vars,
         vKernelAjeno
<1> QED
  BY <1>1, <1>2, <1>3, <1>4, <1>5 DEF Next

(* sem_cola_exit counts cola_exit at every step.                            *)
LEMMA ColaExitPaso ==
  ASSUME ColaExitOK, ManosElim, ManosPlan, ManosConsola, ManosOut, occupant
         \in [Ifaces -> OpcionalDe(PID)], [Next]_vars
  PROVE  ColaExitOK'
<1> USE DEF ColaExitOK
<1>1. CASE DelElim
  <2>1. CASE ElimToma
    BY <2>1 DEF ElimToma
  <2>2. CASE ElimVivo
    BY <2>2, EnviarAExitColas DEF ElimVivo, ElimCaso, ManosElim
  <2> QED
    BY <1>1, <2>1, <2>2, HuellaElim
<1>2. CASE DelPlan
  <2>1. CASE PlanMatado
    BY <2>1, EnviarAExitColas DEF PlanMatado, ManosPlan
  <2>2. CASE PlanInvalida
    BY <2>2, EnviarAExitColas DEF PlanInvalida, PlanProcesa, PlanEnviarAExit,
           ManosPlan
  <2>3. CASE PlanTermina
    BY <2>3, EnviarAExitColas DEF PlanTermina, PlanProcesa, PlanEnviarAExit,
           ManosPlan
  <2>4. CASE PlanLeeSyscall
    BY <2>4, EnviarAExitColas DEF PlanLeeSyscall, PlanSinCambio,
           PlanEnviarAExit, ManosPlan
  <2>5. CASE PlanInterfazInvalida
    BY <2>5, EnviarAExitColas DEF PlanInterfazInvalida, PlanEnviarAExit,
           ManosPlan
  <2> QED
    BY <1>2, <2>1, <2>2, <2>3, <2>4, <2>5, HuellaPlan
<1>3. CASE DeConsola
  <2>1. CASE ProcEndEncola
    BY <2>1 DEF ProcEndEncola, PushExit, ManosConsola
  <2> QED
    BY <1>3, <2>1, HuellaConsola
<1>4. CASE DeIfaces
  <2>1. ASSUME NEW i \in Ifaces, InDesconexion(i) PROVE ColaExitOK'
    BY <2>1, EnviarAExitColas DEF InDesconexion
  <2>2. ASSUME NEW i \in Ifaces, OutRechaza(i) PROVE ColaExitOK'
    BY <2>2, EnviarAExitColas DEF OutRechaza, ManosOut, OutConPCB
  <2> QED
    BY <1>4, <2>1, <2>2, HuellaIfaces
<1>5. CASE DelCrear \/ DelReloj \/ DeCpu \/ UNCHANGED vars
  BY <1>5, HuellaCrear, HuellaReloj, HuellaCpu DEF vars, kernel_vars,
         vKernelAjeno
<1> QED
  BY <1>1, <1>2, <1>3, <1>4, <1>5 DEF Next

(* Each sem_cola_io counts its queue at every step.                         *)
LEMMA ColasIOPaso ==
  ASSUME ColasIOOK, ManosPlan, [Next]_vars
  PROVE  ColasIOOK'
<1> USE DEF ColasIOOK
<1>1. CASE DelPlan
  <2>1. CASE PlanBloqueaIO
    BY <2>1 DEF PlanBloqueaIO, Listada, ManosPlan
  <2> QED
    BY <1>1, <2>1, HuellaPlanColas
<1>2. CASE DeIfaces
  <2>1. ASSUME NEW i \in Ifaces, InDesconexion(i) PROVE ColasIOOK'
    BY <2>1 DEF InDesconexion
  <2>2. ASSUME NEW i \in Ifaces, OutToma(i) PROVE ColasIOOK'
    BY <2>2 DEF OutToma, SinCambioPCB
  <2> QED
    BY <1>2, <2>1, <2>2, HuellaIfacesColas
<1>3. CASE DelCrear \/ DelElim \/ DelReloj \/ DeConsola \/ DeCpu
           \/ UNCHANGED vars
  BY <1>3, HuellaCrear, HuellaElim, HuellaReloj, HuellaConsola, HuellaCpu DEF
         vars, kernel_vars, vKernelAjeno
<1> QED
  BY <1>1, <1>2, <1>3 DEF Next

(* No queue_pop that is reached finds its queue empty. *)
LEMMA CabezasSon ==
  ASSUME ColaNewOK, ColasReadyOK, ColaExitOK, ColasIOOK, RecursosTypeOK,
         R!ColaSegunInstancias
  PROVE  Cabezas
<1>1. pc[Crear] = "add_prog" => Head(cola_new) \in PID
  BY HeadTailProperties DEF ColaNewOK
<1>2. sem_cola_ready > 0 =>
        Head(IF cola_priority_ready = <<>> THEN cola_ready
             ELSE cola_priority_ready) \in PID
  <2>1. Len(cola_ready) \in Nat /\ Len(cola_priority_ready) \in Nat
    BY LenProperties DEF ColasReadyOK
  <2> QED
    BY <2>1, HeadTailProperties DEF ColasReadyOK
<1>3. sem_cola_exit > 0 => Head(cola_exit) \in PID
  BY HeadTailProperties DEF ColaExitOK
<1>4. \A i \in Ifaces :
        sem_cola_io[i] > 0 => Head(cola_io[i]) \in PID \union {FinCola}
  BY HeadTailProperties DEF ColasIOOK
<1>5. \A r \in Recursos : \A p :
        R!DespiertaOtro(p, r) => Head(cola_rec[r]) \in PID
  BY HeadTailProperties DEF RecursosTypeOK, R!RecTypeOK, R!ColaSegunInstancias,
     R!DespiertaOtro, R!HayEspera, Recursos
<1> QED
  BY <1>1, <1>2, <1>3, <1>4, <1>5 DEF Cabezas

(* Recursos sees the same operators on queues as the lemmas do. *)
LEMMA MismasColas ==
  /\ \A s, e : R!Contains(s, e) = Contains(s, e)
  /\ \A s, e : R!RemoveFirst(s, e) = RemoveFirst(s, e)
<1>1. \A s, e : R!Contains(s, e) = Contains(s, e)
  BY DEF R!Contains, Contains
<1>2. \A s, e : R!RemoveFirst(s, e) = RemoveFirst(s, e)
  BY DEF R!RemoveFirst, RemoveFirst, R!SelectInSeq, SelectInSeq, R!RemoveAt,
         RemoveAt, R!Min, Min
<1> QED
  BY <1>1, <1>2

(* WAIT keeps the queue of a resource as long as its instances are short,   *)
(* whoever calls it.                                                        *)
LEMMA AsignarCola ==
  ASSUME R!RecTypeOK, R!ColaSegunInstancias, NEW p \in PID, NEW r \in Recursos,
         R!AsignarRecurso(p, r)
  PROVE  R!RecTypeOK' /\ R!ColaSegunInstancias'
<1> DEFINE q == IF R!Agotado(r) THEN Append(cola_rec[r], p) ELSE cola_rec[r]
<1>1. /\ cola_rec[r] \in Seq(PID) /\ Len(cola_rec[r]) \in Nat
      /\ instancias[r] \in Int
  BY LenProperties DEF R!RecTypeOK, Recursos
<1>2. /\ q \in Seq(PID)
      /\ Len(q) = IF R!Agotado(r) THEN Len(cola_rec[r]) + 1 ELSE Len(cola_rec[r])
  BY <1>1, AppendProperties
<1>3. /\ cola_rec' = [cola_rec EXCEPT ![r] = q]
      /\ instancias' = [instancias EXCEPT ![r] = @ - 1]
      /\ asignados' = [asignados EXCEPT ![p][r] = @ + 1]
  BY DEF R!AsignarRecurso
<1> HIDE DEF q
<1>4. R!RecTypeOK'
  BY <1>2, <1>3 DEF R!RecTypeOK, Recursos
<1>5. R!ColaSegunInstancias'
  <2> SUFFICES ASSUME NEW s \in Recursos
               PROVE  Len(cola_rec'[s]) = IF instancias'[s] < 0
                                          THEN -instancias'[s] ELSE 0
    BY DEF R!ColaSegunInstancias, Recursos
  <2>1. Len(cola_rec[s]) = IF instancias[s] < 0 THEN -instancias[s] ELSE 0
    BY DEF R!ColaSegunInstancias, Recursos
  <2>2. cola_rec'[s] = IF s = r THEN q ELSE cola_rec[s]
    BY <1>3 DEF R!RecTypeOK, Recursos
  <2>3. instancias'[s] = (IF s = r THEN instancias[s] - 1 ELSE instancias[s])
        /\ instancias[s] \in Int
    BY <1>3 DEF R!RecTypeOK, Recursos
  <2> QED
    BY <1>1, <1>2, <2>1, <2>2, <2>3 DEF R!Agotado
<1> QED
  BY <1>4, <1>5

(* SIGNAL, and each release of eliminar_proceso, does too.                  *)
LEMMA DesasignarCola ==
  ASSUME R!RecTypeOK, R!ColaSegunInstancias, NEW p \in PID, NEW r \in Recursos,
         R!DesasignarRecurso(p, r)
  PROVE  R!RecTypeOK' /\ R!ColaSegunInstancias'
<1> DEFINE c == cola_rec[r]
           q == IF ~R!HayEspera(r) THEN c
                ELSE IF R!EnCola(p, r) THEN R!RemoveFirst(c, p) ELSE Tail(c)
<1>1. c \in Seq(PID) /\ Len(c) \in Nat /\ instancias[r] \in Int
  BY LenProperties DEF R!RecTypeOK, Recursos
<1>2. Len(c) = IF instancias[r] < 0 THEN -instancias[r] ELSE 0
  BY DEF R!ColaSegunInstancias, Recursos
<1>3. R!HayEspera(r) => c # <<>>
  BY <1>1, <1>2 DEF R!HayEspera
<1>4. /\ q \in Seq(PID)
      /\ Len(q) = IF R!HayEspera(r) THEN Len(c) - 1 ELSE Len(c)
  BY <1>1, <1>3, RemoveFirstHechos, TailHechos, MismasColas DEF R!EnCola
<1>5. /\ cola_rec' = [cola_rec EXCEPT ![r] = q]
      /\ instancias' = [instancias EXCEPT ![r] = @ + 1]
      /\ asignados' = [asignados EXCEPT ![p][r] = IF @ > 0 THEN @ - 1 ELSE @]
  BY DEF R!DesasignarRecurso
<1> HIDE DEF q
<1>6. R!RecTypeOK'
  BY <1>4, <1>5 DEF R!RecTypeOK, Recursos
<1>7. R!ColaSegunInstancias'
  <2> SUFFICES ASSUME NEW s \in Recursos
               PROVE  Len(cola_rec'[s]) = IF instancias'[s] < 0
                                          THEN -instancias'[s] ELSE 0
    BY DEF R!ColaSegunInstancias, Recursos
  <2>1. Len(cola_rec[s]) = IF instancias[s] < 0 THEN -instancias[s] ELSE 0
    BY DEF R!ColaSegunInstancias, Recursos
  <2>2. cola_rec'[s] = IF s = r THEN q ELSE cola_rec[s]
    BY <1>5 DEF R!RecTypeOK, Recursos
  <2>3. instancias'[s] = (IF s = r THEN instancias[s] + 1 ELSE instancias[s])
        /\ instancias[s] \in Int
    BY <1>5 DEF R!RecTypeOK, Recursos
  <2> QED
    BY <1>1, <1>2, <1>4, <2>1, <2>2, <2>3 DEF R!HayEspera
<1> QED
  BY <1>6, <1>7

(* Every step of the kernel keeps the resources well formed and their queues*)
(* as long as the instances are short.                                      *)
LEMMA RecursosPaso ==
  ASSUME RecursosTypeOK, R!ColaSegunInstancias, ManosElim, ManosPlan,
         [Next]_vars
  PROVE  RecursosTypeOK' /\ R!ColaSegunInstancias'
<1> USE DEF RecursosTypeOK
<1>1. CASE DelElim
  <2>1. CASE ElimExit
    BY <2>1 DEF ElimExit, R!RecTypeOK, R!ColaSegunInstancias
  <2>2. CASE ElimTomaRecurso
    <3>1. actual[Elim] \in PID /\ idx_elim \in Recursos
      BY <2>2 DEF ElimTomaRecurso, ManosElim
    <3>2. asignados[actual[Elim]][idx_elim] \in Nat
      BY <3>1 DEF R!RecTypeOK, Recursos
    <3>3. R!RecTypeOK' /\ R!ColaSegunInstancias'
      BY <2>2 DEF ElimTomaRecurso, R!RecTypeOK, R!ColaSegunInstancias
    <3> QED
      BY <2>2, <3>1, <3>2, <3>3 DEF ElimTomaRecurso
  <2>3. CASE ElimLibera
    <3>1. actual[Elim] \in PID /\ idx_elim \in Recursos
      BY <2>3 DEF ElimLibera, ManosElim
    <3>2. R!RecTypeOK' /\ R!ColaSegunInstancias'
      BY <2>3, <3>1, DesasignarCola DEF ElimLibera
    <3> QED
      BY <2>3, <3>2 DEF ElimLibera
  <2>4. CASE ElimSuelta
    BY <2>4 DEF ElimSuelta, R!RecTypeOK, R!ColaSegunInstancias, ManosElim,
           Recursos, R!IndicesRecursos
  <2>5. CASE ElimBorra
    BY <2>5 DEF ElimBorra, R!RecTypeOK, R!ColaSegunInstancias
  <2> QED
    BY <1>1, <2>1, <2>2, <2>3, <2>4, <2>5, HuellaElim DEF R!RecTypeOK,
           R!ColaSegunInstancias
<1>2. CASE DelPlan
  <2>1. CASE PlanWait
    <3>1. actual[Plan] \in PID /\ paquete.arg \in Recursos
      BY <2>1 DEF PlanWait, ManosPlan
    <3>2. R!RecTypeOK' /\ R!ColaSegunInstancias'
      BY <2>1, <3>1, AsignarCola DEF PlanWait
    <3> QED
      BY <2>1, <3>2 DEF PlanWait
  <2>2. CASE PlanSignal
    <3>1. actual[Plan] \in PID /\ paquete.arg \in Recursos
      BY <2>2 DEF PlanSignal, ManosPlan
    <3>2. R!RecTypeOK' /\ R!ColaSegunInstancias'
      BY <2>2, <3>1, DesasignarCola DEF PlanSignal
    <3> QED
      BY <2>2, <3>1, <3>2 DEF PlanSignal
  <2>3. CASE PlanDespierta
    BY <2>3 DEF PlanDespierta, R!RecTypeOK, R!ColaSegunInstancias, ManosPlan
  <2> QED
    BY <1>2, <2>1, <2>2, <2>3, HuellaPlan, HuellaPlanColas DEF R!RecTypeOK,
           R!ColaSegunInstancias
<1>3. CASE DelCrear \/ DelReloj \/ DeConsola \/ DeIfaces \/ DeCpu
           \/ UNCHANGED vars
  BY <1>3, HuellaCrear, HuellaReloj, HuellaConsola, HuellaIfaces, HuellaCpu
         DEF vars, kernel_vars, vKernelAjeno, R!RecTypeOK,
         R!ColaSegunInstancias
<1> QED
  BY <1>1, <1>2, <1>3 DEF Next

(* crear_proceso has a process at hand where it uses one.                   *)
LEMMA ManosCrearPaso ==
  ASSUME PcTypeOK, ManosTypeOK, ManosCrear, Cabezas, [Next]_vars
  PROVE  ManosCrear'
<1> USE DEF ManosCrear, PcTypeOK, ManosTypeOK, Hilos
<1>1. CASE DelCrear
  <2>1. CASE CrearDespierta
    BY <2>1 DEF CrearDespierta, M!LlamaAddProg
  <2>2. CASE CrearEnAddProg
    BY <2>2 DEF CrearEnAddProg, M!TomaFicha, M!AddProg, M!ReintentaAddProg
  <2>3. CASE CrearToma
    BY <2>3 DEF CrearToma, Cabezas
  <2>4. CASE CrearPide
    BY <2>4 DEF CrearPide
  <2>5. CASE CrearDescarta
    BY <2>5 DEF CrearDescarta, M!RemoveProg
  <2>6. CASE CrearAdmite
    BY <2>6 DEF CrearAdmite, PushReady, M!Sigue
  <2> QED
    BY <1>1, <2>1, <2>2, <2>3, <2>4, <2>5, <2>6 DEF DelCrear, CrearNext
<1>2. CASE ~DelCrear
  BY <1>2, OtrosHilos
<1> QED
  BY <1>1, <1>2

(* The console has the process it read between the two halves of proc_end.  *)
LEMMA ManosConsolaPaso ==
  ASSUME PcTypeOK, ManosTypeOK, ManosConsola, [Next]_vars
  PROVE  ManosConsola'
<1> USE DEF ManosConsola, PcTypeOK, ManosTypeOK, Hilos
<1>1. CASE DeConsola
  <2>1. ASSUME NEW p \in PID, ProcEnd(p) PROVE ManosConsola'
    BY <2>1 DEF ProcEnd, Lee
  <2>2. CASE ProcEndEncola
    BY <2>2 DEF ProcEndEncola, PushExit
  <2> QED
    BY <1>1, <2>1, <2>2, HuellaConsola
<1>2. CASE ~DeConsola
  BY <1>2, OtrosHilos
<1> QED
  BY <1>1, <1>2

(* eliminar_proceso has a process at hand, a resource while it releases one,*)
(* and whom to wake up while it wakes somebody up.                          *)
LEMMA ManosElimPaso ==
  ASSUME PcTypeOK, ManosTypeOK, ManosElim, Cabezas, [Next]_vars
  PROVE  ManosElim'
<1> USE DEF ManosElim, PcTypeOK, ManosTypeOK, Hilos
<1>1. CASE DelElim
  <2>1. CASE ElimToma
    BY <2>1 DEF ElimToma, Cabezas
  <2>2. CASE ElimNew
    BY <2>2 DEF ElimNew, ElimCaso
  <2>3. CASE ElimExec
    BY <2>3 DEF ElimExec, ElimCaso
  <2>4. CASE ElimVivo
    BY <2>4 DEF ElimVivo, ElimCaso, EnviarAExit, PushExit
  <2>5. CASE ElimNada
    BY <2>5 DEF ElimNada, ElimCaso
  <2>6. CASE ElimExit
    BY <2>6 DEF ElimExit
  <2>7. CASE ElimTomaRecurso
    BY <2>7 DEF ElimTomaRecurso, Recursos, R!IndicesRecursos
  <2>8. CASE ElimLibera
    <3>1. R!DespiertaOtro(actual[Elim], idx_elim) => Head(cola_rec[idx_elim]) \in PID
      BY <2>8 DEF ElimLibera, Cabezas, ManosElim
    <3> QED
      BY <2>8, <3>1 DEF ElimLibera
  <2>9. CASE ElimDespierta
    BY <2>9 DEF ElimDespierta, Desbloquear, PushReady, PushPriority
  <2>10. CASE ElimSuelta
    BY <2>10 DEF ElimSuelta
  <2>11. CASE ElimBorra
    BY <2>11 DEF ElimBorra, M!RemoveProg
  <2> QED
    BY <1>1, <2>1, <2>2, <2>3, <2>4, <2>5, <2>6, <2>7, <2>8, <2>9, <2>10,
           <2>11 DEF DelElim, ElimNext
<1>2. CASE ~DelElim
  BY <1>2, OtrosHilos
<1> QED
  BY <1>1, <1>2

(* The planificador has a process at hand, the resource its packet names    *)
(* while it serves WAIT or SIGNAL, and whom to wake up.                     *)
LEMMA ManosPlanPaso ==
  ASSUME PcTypeOK, ManosTypeOK, ManosPlan, Cabezas, [Next]_vars
  PROVE  ManosPlan'
<1> USE DEF ManosPlan, PcTypeOK, ManosTypeOK, Hilos
<1>1. CASE DelPlan
  <2>1. CASE PlanToma
    BY <2>1 DEF PlanToma, Cabezas
  <2>2. CASE PlanPasaPausa
    BY <2>2 DEF PlanPasaPausa
  <2>3. CASE PlanDescarta
    BY <2>3 DEF PlanDescarta
  <2>4. CASE PlanDespacha
    BY <2>4 DEF PlanDespacha, EjecutarProceso
  <2>5. CASE PlanRecibe
    BY <2>5 DEF PlanRecibe
  <2>6. CASE PlanMatado
    BY <2>6 DEF PlanMatado, CancelaReloj, EnviarAExit, PushExit
  <2>7. CASE PlanActualiza
    BY <2>7 DEF PlanActualiza, CancelaReloj
  <2>8. CASE PlanInvalida
    BY <2>8 DEF PlanInvalida, PlanProcesa, PlanEnviarAExit, EnviarAExit,
           PushExit
  <2>9. CASE PlanTermina
    BY <2>9 DEF PlanTermina, PlanProcesa, PlanEnviarAExit, EnviarAExit,
           PushExit
  <2>10. CASE PlanInterrumpido
    BY <2>10 DEF PlanInterrumpido, PlanProcesa, PlanSinCambio
  <2>11. CASE PlanPideSyscall
    BY <2>11 DEF PlanPideSyscall, PlanProcesa, PlanSinCambio
  <2>12. CASE PlanLeeSyscall
    BY <2>12 DEF PlanLeeSyscall, PlanSinCambio, PlanEnviarAExit, EnviarAExit,
           PushExit, OpsRecurso
  <2>13. CASE PlanWait
    BY <2>13 DEF PlanWait, R!AsignarRecurso, R!Agotado
  <2>14. CASE PlanSignal
    <3>1. R!DespiertaOtro(actual[Plan], paquete.arg) => Head(cola_rec[paquete.arg]) \in PID
      BY <2>14 DEF PlanSignal, Cabezas, ManosPlan
    <3> QED
      BY <2>14, <3>1 DEF PlanSignal
  <2>15. CASE PlanDespierta
    BY <2>15 DEF PlanDespierta, Desbloquear, PushReady, PushPriority
  <2>16. CASE PlanInterfazInvalida
    BY <2>16 DEF PlanInterfazInvalida, PlanEnviarAExit, EnviarAExit, PushExit
  <2>17. CASE PlanBloqueaIO
    BY <2>17 DEF PlanBloqueaIO, Listada
  <2>18. CASE PlanDesaloja
    BY <2>18 DEF PlanDesaloja, PushReady
  <2>19. CASE PlanRedespacha
    BY <2>19 DEF PlanRedespacha, EjecutarProceso
  <2>20. CASE PlanSuelta
    BY <2>20 DEF PlanSuelta
  <2> QED
    BY <1>1, <2>1, <2>2, <2>3, <2>4, <2>5, <2>6, <2>7, <2>8, <2>9, <2>10,
           <2>11, <2>12, <2>13, <2>14, <2>15, <2>16, <2>17, <2>18, <2>19,
           <2>20 DEF DelPlan, PlanNext
<1>2. CASE ~DelPlan
  BY <1>2, OtrosHilos
<1> QED
  BY <1>1, <1>2

(* What the threads have at hand is a process or nothing.                   *)
LEMMA ManosTypePaso ==
  ASSUME PcTypeOK, ManosTypeOK, ManosElim, ManosPlan, ManosConsola, Cabezas,
         [Next]_vars
  PROVE  ManosTypeOK'
<1> USE DEF ManosTypeOK, Hilos
<1>1. CASE DelCrear
  <2>1. CASE CrearToma
    BY <2>1 DEF CrearToma, Cabezas
  <2>2. CASE CrearDescarta
    BY <2>2 DEF CrearDescarta, M!RemoveProg
  <2>3. CASE CrearAdmite
    BY <2>3 DEF CrearAdmite, PushReady, M!Sigue
  <2> QED
    BY <1>1, <2>1, <2>2, <2>3, HuellaCrear
<1>2. CASE DelElim
  <2>1. CASE ElimToma
    BY <2>1 DEF ElimToma, Cabezas
  <2>2. CASE ElimNew
    BY <2>2 DEF ElimNew, ElimCaso
  <2>3. CASE ElimExec
    BY <2>3 DEF ElimExec, ElimCaso
  <2>4. CASE ElimVivo
    BY <2>4 DEF ElimVivo, ElimCaso, EnviarAExit, PushExit
  <2>5. CASE ElimNada
    BY <2>5 DEF ElimNada, ElimCaso
  <2>6. CASE ElimExit
    BY <2>6 DEF ElimExit
  <2>7. CASE ElimTomaRecurso
    BY <2>7 DEF ElimTomaRecurso, Cabezas
  <2>8. CASE ElimLibera
    <3>1. R!DespiertaOtro(actual[Elim], idx_elim) => Head(cola_rec[idx_elim]) \in PID
      BY <2>8 DEF ElimLibera, Cabezas, ManosElim
    <3> QED
      BY <2>8, <3>1 DEF ElimLibera
  <2>9. CASE ElimDespierta
    BY <2>9 DEF ElimDespierta, Desbloquear, PushReady, PushPriority
  <2>10. CASE ElimSuelta
    BY <2>10 DEF ElimSuelta
  <2>11. CASE ElimBorra
    BY <2>11 DEF ElimBorra, M!RemoveProg
  <2> QED
    BY <1>2, <2>1, <2>2, <2>3, <2>4, <2>5, <2>6, <2>7, <2>8, <2>9, <2>10,
           <2>11 DEF DelElim, ElimNext
<1>3. CASE DelPlan
  <2>1. CASE PlanToma
    BY <2>1 DEF PlanToma, Cabezas
  <2>2. CASE PlanDescarta
    BY <2>2 DEF PlanDescarta
  <2>3. CASE PlanMatado
    BY <2>3 DEF PlanMatado, CancelaReloj, EnviarAExit, PushExit
  <2>4. CASE PlanSignal
    <3>1. R!DespiertaOtro(actual[Plan], paquete.arg) => Head(cola_rec[paquete.arg]) \in PID
      BY <2>4 DEF PlanSignal, Cabezas, ManosPlan
    <3> QED
      BY <2>4, <3>1 DEF PlanSignal
  <2>5. CASE PlanDespierta
    BY <2>5 DEF PlanDespierta, Desbloquear, PushReady, PushPriority
  <2>6. CASE PlanDesaloja
    BY <2>6 DEF PlanDesaloja, PushReady
  <2>7. CASE PlanSuelta
    BY <2>7 DEF PlanSuelta
  <2> QED
    BY <1>3, <2>1, <2>2, <2>3, <2>4, <2>5, <2>6, <2>7, HuellaPlanManos
<1>4. CASE DeConsola
  <2>1. ASSUME NEW p \in PID, ProcEnd(p) PROVE ManosTypeOK'
    BY <2>1 DEF ProcEnd, Lee
  <2>2. CASE ProcEndEncola
    BY <2>2 DEF ProcEndEncola, PushExit
  <2> QED
    BY <1>4, <2>1, <2>2, HuellaConsola
<1>5. CASE DelReloj \/ DeIfaces \/ DeCpu \/ UNCHANGED vars
  BY <1>5, HuellaReloj, HuellaIfaces, HuellaCpu DEF vars, kernel_vars,
         vKernelAjeno
<1> QED
  BY <1>1, <1>2, <1>3, <1>4, <1>5 DEF Next

(* What travels in the sockets of the CPU is well formed, and the CPU has a *)
(* process while it is in its loop.                                         *)
LEMMA SocketsPaso ==
  ASSUME SocketsTypeOK, CpuTypeOK, ManosCpu, ManosPlan, [Next]_vars
  PROVE  SocketsTypeOK' /\ CpuTypeOK' /\ ManosCpu'
<1> USE PaquetesHechos, CpuAssumption DEF SocketsTypeOK, CpuTypeOK, ManosCpu,
    Motivos
<1>1. CASE DelElim
  <2>1. CASE ElimExec
    BY <1>1, <2>1 DEF ElimExec, ElimCaso, DelElim
  <2> QED
    BY <1>1, <2>1, HuellaElim
<1>2. CASE DelPlan
  <2>1. CASE PlanDespacha
    BY <1>2, <2>1 DEF PlanDespacha, EjecutarProceso, DelPlan, ManosPlan
  <2>2. CASE PlanRecibe
    BY <1>2, <2>2 DEF PlanRecibe, DelPlan
  <2>3. CASE PlanMatado
    BY <1>2, <2>3 DEF PlanMatado, CancelaReloj, DelPlan, SinPaquete
  <2>4. CASE PlanActualiza
    BY <1>2, <2>4 DEF PlanActualiza, CancelaReloj, DelPlan
  <2>5. CASE PlanLeeSyscall
    BY <1>2, <2>5 DEF PlanLeeSyscall, PlanSinCambio, PlanEnviarAExit, DelPlan
  <2>6. CASE PlanDesaloja
    BY <1>2, <2>6 DEF PlanDesaloja, DelPlan, SinPaquete
  <2>7. CASE PlanRedespacha
    BY <1>2, <2>7 DEF PlanRedespacha, EjecutarProceso, DelPlan, SinPaquete,
           ManosPlan
  <2>8. CASE PlanSuelta
    BY <1>2, <2>8 DEF PlanSuelta, SinPaquete, DelPlan
  <2> QED
    BY <1>2, <2>1, <2>2, <2>3, <2>4, <2>5, <2>6, <2>7, <2>8, HuellaPlan,
        HuellaPlanColas, HuellaPlanPaquete
<1>3. CASE DelReloj
  <2>1. CASE VenceQuantum
    BY <1>3, <2>1 DEF VenceQuantum, DelReloj
  <2> QED
    BY <1>3, <2>1, HuellaReloj DEF DelReloj
<1>4. CASE DeCpu
  <2>1. CASE CpuTope
    BY <1>4, <2>1 DEF CpuTope, vKernelAjeno, DeCpu
  <2>2. CASE CpuRecibe
    BY <1>4, <2>2 DEF CpuRecibe, vKernelAjeno, DeCpu
  <2>3. CASE CpuNormal
    BY <1>4, <2>3 DEF CpuNormal, CpuEjecuta, vKernelAjeno, DeCpu
  <2>4. CASE CpuExit
    BY <1>4, <2>4 DEF CpuExit, CpuCorta, CpuEjecuta, vKernelAjeno, DeCpu
  <2>5. CASE CpuSinMemoria
    BY <1>4, <2>5 DEF CpuSinMemoria, CpuCorta, CpuEjecuta, vKernelAjeno,
           DeCpu
  <2>6. CASE CpuWait
    <3>1. PICK r \in Recursos :
            CpuSyscall("WAIT", Syscall("WAIT", cpu_pid, r))
      BY <2>6 DEF CpuWait
    <3>2. cpu_pid \in PID
      BY <3>1 DEF CpuSyscall, CpuEjecuta
    <3>3. Syscall("WAIT", cpu_pid, r) \in Paquetes
      BY <3>2 DEF OpsRecurso
    <3> QED
      BY <3>1, <3>2, <3>3 DEF CpuSyscall, CpuEjecuta, vKernelAjeno
  <2>7. CASE CpuSignal
    <3>1. PICK r \in Recursos :
            CpuSyscall("SIGNAL", Syscall("SIGNAL", cpu_pid, r))
      BY <2>7 DEF CpuSignal
    <3>2. cpu_pid \in PID
      BY <3>1 DEF CpuSyscall, CpuEjecuta
    <3>3. Syscall("SIGNAL", cpu_pid, r) \in Paquetes
      BY <3>2 DEF OpsRecurso
    <3> QED
      BY <3>1, <3>2, <3>3 DEF CpuSyscall, CpuEjecuta, vKernelAjeno
  <2>8. CASE CpuRecursoAjeno
    <3>1. cpu_pid \in PID
      BY <2>8 DEF CpuRecursoAjeno, CpuSyscall, CpuEjecuta
    <3> QED
      BY <2>8, <3>1 DEF CpuRecursoAjeno, CpuSyscall, CpuEjecuta,
             vKernelAjeno, OpsRecurso, Motivos
  <2>9. CASE CpuIO
    <3>1. cpu_pid \in PID
      BY <2>9 DEF CpuIO, CpuSyscall, CpuEjecuta
    <3> QED
      BY <2>9, <3>1 DEF CpuIO, CpuSyscall, CpuEjecuta, vKernelAjeno, OpsIO,
             Motivos
  <2>10. CASE CpuSinInstruccion
    BY <1>4, <2>10 DEF CpuSinInstruccion, CpuEjecuta, vKernelAjeno, DeCpu
  <2>11. CASE CpuSaleDelCiclo
    BY <1>4, <2>11 DEF CpuSaleDelCiclo, vKernelAjeno, DeCpu
  <2>12. CASE CpuDevuelve
    <3> DEFINE m == Devolucion(cpu_pid, cpu_motivo)
               s == IF cpu_io = SinPaquete THEN <<m>> ELSE <<m, cpu_io>>
    <3>1. m \in Paquetes /\ SinPaquete \in Paquetes
      BY <2>12 DEF CpuDevuelve, SinPaquete
    <3>2. s \in Seq(Paquetes)
      BY <3>1
    <3>3. de_cpu' = de_cpu \o s
      BY <2>12 DEF CpuDevuelve
    <3> HIDE DEF s, m
    <3>4. de_cpu' \in Seq(Paquetes)
      BY <3>2, <3>3
    <3> QED
      BY <2>12, <3>1, <3>4 DEF CpuDevuelve, vKernelAjeno
  <2>13. CASE CpuInterrupcion
    BY <1>4, <2>13 DEF CpuInterrupcion, vKernelAjeno, DeCpu
  <2> QED
    BY <1>4, <2>1, <2>2, <2>3, <2>4, <2>5, <2>6, <2>7, <2>8, <2>9, <2>10,
           <2>11, <2>12, <2>13, HuellaCpu DEF DeCpu, CpuNext
<1>5. CASE DelCrear \/ DeConsola \/ DeIfaces \/ UNCHANGED vars
  BY <1>5, HuellaCrear, HuellaConsola, HuellaIfaces, SMTT(30) DEF vars, kernel_vars
<1> QED
  BY <1>1, <1>2, <1>3, <1>4, <1>5 DEF Next

(* The token of sem_occupied is given back only when it was taken.          *)
LEMMA FichaUnica ==
  ASSUME InterfacesTypeOK, OcupacionExacta, NEW i \in Ifaces
  PROVE  /\ sem_occupied[i] > 0 => /\ sem_occupied[i] = 1 /\ pc_out[i] # "mx_PCB"
                                   /\ occupant[i] = Nadie /\ disp[i] # "apagado"
         /\ pc_out[i] = "mx_PCB" => /\ sem_occupied[i] = 0
                                    /\ occupant[i] = Nadie /\ disp[i] # "apagado"
         /\ occupant[i] # Nadie => /\ sem_occupied[i] = 0
                                   /\ pc_out[i] # "mx_PCB" /\ disp[i] # "apagado"
         /\ disp[i] = "apagado" => /\ sem_occupied[i] = 0 /\ occupant[i] = Nadie
                                   /\ pc_out[i] # "mx_PCB"
<1>1. sem_occupied[i] = 0 \/ sem_occupied[i] = 1
  BY DEF InterfacesTypeOK
<1>2. OcupacionDe(i)
  BY DEF OcupacionExacta
<1>3. CASE sem_occupied[i] = 0
  BY <1>2, <1>3 DEF OcupacionDe
<1>4. CASE sem_occupied[i] = 1
  BY <1>2, <1>4 DEF OcupacionDe
<1> QED
  BY <1>1, <1>3, <1>4

(* Every step keeps the threads of the interfaces well formed and the token *)
(* of each interface in one place.                                          *)
LEMMA InterfacesPaso ==
  ASSUME InterfacesTypeOK, ManosOut, OcupacionExacta, Cabezas, [Next]_vars
  PROVE  InterfacesTypeOK' /\ ManosOut' /\ OcupacionExacta'
<1> USE DEF InterfacesTypeOK
<1>1. CASE DeIfaces
  <2>1. ASSUME NEW i \in Ifaces, Conecta(i)
        PROVE  InterfacesTypeOK' /\ ManosOut' /\ OcupacionExacta'
    <3>1. sem_occupied[i] = 0 /\ occupant[i] = Nadie /\ pc_out[i] # "mx_PCB"
      BY <2>1, FichaUnica DEF Conecta
    <3>2. InterfacesTypeOK'
      BY <2>1, <3>1 DEF Conecta, SinCambioPCB, vResto
    <3>3. ManosOut'
      BY <2>1 DEF Conecta, SinCambioPCB, vResto, ManosOut
    <3>4. OcupacionExacta'
      <4> SUFFICES ASSUME NEW j \in Ifaces PROVE OcupacionDe(j)'
        BY DEF OcupacionExacta
      <4>0. OcupacionDe(j)
        BY DEF OcupacionExacta
      <4>1. CASE j = i
        BY <2>1, <3>1, <4>0, <4>1 DEF Conecta, SinCambioPCB, vResto,
               OcupacionDe
      <4>2. CASE j # i
        BY <2>1, <4>0, <4>2 DEF Conecta, SinCambioPCB, vResto, OcupacionDe
      <4> QED
        BY <4>1, <4>2
    <3> QED
      BY <3>2, <3>3, <3>4
  <2>2. ASSUME NEW i \in Ifaces, InRecibe(i)
        PROVE  InterfacesTypeOK' /\ ManosOut' /\ OcupacionExacta'
    <3>2. InterfacesTypeOK'
      BY <2>2 DEF InRecibe, SinCambioPCB, vResto
    <3>3. ManosOut'
      BY <2>2 DEF InRecibe, SinCambioPCB, vResto, ManosOut
    <3>4. OcupacionExacta'
      BY <2>2 DEF InRecibe, SinCambioPCB, vResto, OcupacionExacta, OcupacionDe
    <3> QED
      BY <3>2, <3>3, <3>4
  <2>3. ASSUME NEW i \in Ifaces, InIOFin(i)
        PROVE  InterfacesTypeOK' /\ ManosOut' /\ OcupacionExacta'
    <3>1. sem_occupied[i] = 0 /\ pc_out[i] # "mx_PCB"
      BY <2>3, FichaUnica DEF InIOFin
    <3>2. InterfacesTypeOK'
      BY <2>3, <3>1 DEF InIOFin
    <3>3. ManosOut'
      BY <2>3 DEF InIOFin, ManosOut
    <3>4. OcupacionExacta'
      <4> SUFFICES ASSUME NEW j \in Ifaces PROVE OcupacionDe(j)'
        BY DEF OcupacionExacta
      <4>0. OcupacionDe(j)
        BY DEF OcupacionExacta
      <4>1. CASE j = i
        BY <2>3, <3>1, <4>0, <4>1 DEF InIOFin, OcupacionDe
      <4>2. CASE j # i
        BY <2>3, <4>0, <4>2 DEF InIOFin, OcupacionDe
      <4> QED
        BY <4>1, <4>2
    <3> QED
      BY <3>2, <3>3, <3>4
  <2>4. ASSUME NEW i \in Ifaces, InDesconexion(i)
        PROVE  InterfacesTypeOK' /\ ManosOut' /\ OcupacionExacta'
    <3>1. occupant[i] # Nadie => sem_occupied[i] = 0
      BY <2>4, FichaUnica DEF InDesconexion
    <3>2. InterfacesTypeOK'
      <4>1. CASE occupant[i] = Nadie
        BY <2>4, <4>1 DEF InDesconexion
      <4>2. CASE occupant[i] # Nadie
        <5>1. sem_occupied' = [sem_occupied EXCEPT ![i] = 1]
          BY <2>4, <3>1, <4>2 DEF InDesconexion
        <5>2. /\ occupant' = [occupant EXCEPT ![i] = Nadie]
              /\ conectada' = [conectada EXCEPT ![i] = FALSE]
              /\ pc_in' = [pc_in EXCEPT ![i] = "fuera"]
              /\ UNCHANGED <<en_lista, mx_interface, pc_out, pid_out, a_disp,
                             de_disp, disp>>
          BY <2>4, <4>2 DEF InDesconexion
        <5> QED
          BY <5>1, <5>2
      <4> QED
        BY <4>1, <4>2
    <3>3. ManosOut'
      BY <2>4 DEF InDesconexion, ManosOut
    <3>4. OcupacionExacta'
      <4> SUFFICES ASSUME NEW j \in Ifaces PROVE OcupacionDe(j)'
        BY DEF OcupacionExacta
      <4>0. OcupacionDe(j)
        BY DEF OcupacionExacta
      <4>1. CASE j = i
        BY <2>4, <3>1, <4>0, <4>1 DEF InDesconexion, OcupacionDe
      <4>2. CASE j # i
        BY <2>4, <4>0, <4>2 DEF InDesconexion, OcupacionDe
      <4> QED
        BY <4>1, <4>2
    <3> QED
      BY <3>2, <3>3, <3>4
  <2>5. ASSUME NEW i \in Ifaces, OutToma(i)
        PROVE  InterfacesTypeOK' /\ ManosOut' /\ OcupacionExacta'
    <3>2. InterfacesTypeOK'
      BY <2>5, ZenonT(30) DEF OutToma, SinCambioPCB, vResto, Cabezas
    <3>3. ManosOut'
      BY <2>5 DEF OutToma, SinCambioPCB, vResto, ManosOut, Cabezas
    <3>4. OcupacionExacta'
      BY <2>5, ZenonT(30) DEF OutToma, SinCambioPCB, vResto, OcupacionExacta, OcupacionDe
    <3> QED
      BY <3>2, <3>3, <3>4
  <2>6. ASSUME NEW i \in Ifaces, OutOcupa(i)
        PROVE  InterfacesTypeOK' /\ ManosOut' /\ OcupacionExacta'
    <3>1. sem_occupied[i] = 1 /\ occupant[i] = Nadie
      BY <2>6, FichaUnica DEF OutOcupa
    <3>2. InterfacesTypeOK'
      BY <2>6, <3>1 DEF OutOcupa, SinCambioPCB, vResto
    <3>3. ManosOut'
      BY <2>6 DEF OutOcupa, SinCambioPCB, vResto, ManosOut
    <3>4. OcupacionExacta'
      <4> SUFFICES ASSUME NEW j \in Ifaces PROVE OcupacionDe(j)'
        BY DEF OcupacionExacta
      <4>0. OcupacionDe(j)
        BY DEF OcupacionExacta
      <4>1. CASE j = i
        BY <2>6, <3>1, <4>0, <4>1 DEF OutOcupa, SinCambioPCB, vResto,
               OcupacionDe
      <4>2. CASE j # i
        BY <2>6, <4>0, <4>2 DEF OutOcupa, SinCambioPCB, vResto, OcupacionDe
      <4> QED
        BY <4>1, <4>2
    <3> QED
      BY <3>2, <3>3, <3>4
  <2>7. ASSUME NEW i \in Ifaces, OutEntrega(i)
        PROVE  InterfacesTypeOK' /\ ManosOut' /\ OcupacionExacta'
    <3>1. sem_occupied[i] = 0 /\ occupant[i] = Nadie
      BY <2>7, FichaUnica DEF OutEntrega, OutConPCB
    <3>2. InterfacesTypeOK'
      BY <2>7, <3>1 DEF OutEntrega, OutConPCB, vResto, ManosOut
    <3>3. ManosOut'
      BY <2>7 DEF OutEntrega, OutConPCB, vResto, ManosOut
    <3>4. OcupacionExacta'
      <4> SUFFICES ASSUME NEW j \in Ifaces PROVE OcupacionDe(j)'
        BY DEF OcupacionExacta
      <4>0. OcupacionDe(j)
        BY DEF OcupacionExacta
      <4>1. CASE j = i
        BY <2>7, <3>1, <4>0, <4>1 DEF OutEntrega, OutConPCB, vResto,
               OcupacionDe, ManosOut
      <4>2. CASE j # i
        BY <2>7, <4>0, <4>2 DEF OutEntrega, OutConPCB, vResto, OcupacionDe
      <4> QED
        BY <4>1, <4>2
    <3> QED
      BY <3>2, <3>3, <3>4
  <2>8. ASSUME NEW i \in Ifaces, OutRechaza(i)
        PROVE  InterfacesTypeOK' /\ ManosOut' /\ OcupacionExacta'
    <3>1. sem_occupied[i] = 0 /\ occupant[i] = Nadie
      BY <2>8, FichaUnica DEF OutRechaza, OutConPCB
    <3>2. InterfacesTypeOK'
      BY <2>8, <3>1 DEF OutRechaza, OutConPCB, vResto
    <3>3. ManosOut'
      BY <2>8 DEF OutRechaza, OutConPCB, vResto, ManosOut
    <3>4. OcupacionExacta'
      <4> SUFFICES ASSUME NEW j \in Ifaces PROVE OcupacionDe(j)'
        BY DEF OcupacionExacta
      <4>0. OcupacionDe(j)
        BY DEF OcupacionExacta
      <4>1. CASE j = i
        BY <2>8, <3>1, <4>0, <4>1 DEF OutRechaza, OutConPCB, vResto,
               OcupacionDe
      <4>2. CASE j # i
        BY <2>8, <4>0, <4>2 DEF OutRechaza, OutConPCB, vResto, OcupacionDe
      <4> QED
        BY <4>1, <4>2
    <3> QED
      BY <3>2, <3>3, <3>4
  <2>9. ASSUME NEW i \in Ifaces, OutSaltea(i)
        PROVE  InterfacesTypeOK' /\ ManosOut' /\ OcupacionExacta'
    <3>1. sem_occupied[i] = 0 /\ occupant[i] = Nadie
      BY <2>9, FichaUnica DEF OutSaltea, OutConPCB
    <3>2. InterfacesTypeOK'
      BY <2>9, <3>1 DEF OutSaltea, OutConPCB, vResto
    <3>3. ManosOut'
      BY <2>9 DEF OutSaltea, OutConPCB, vResto, ManosOut
    <3>4. OcupacionExacta'
      <4> SUFFICES ASSUME NEW j \in Ifaces PROVE OcupacionDe(j)'
        BY DEF OcupacionExacta
      <4>0. OcupacionDe(j)
        BY DEF OcupacionExacta
      <4>1. CASE j = i
        BY <2>9, <3>1, <4>0, <4>1 DEF OutSaltea, OutConPCB, vResto, OcupacionDe
      <4>2. CASE j # i
        BY <2>9, <4>0, <4>2 DEF OutSaltea, OutConPCB, vResto, OcupacionDe
      <4> QED
        BY <4>1, <4>2
    <3> QED
      BY <3>2, <3>3, <3>4
  <2>10. ASSUME NEW i \in Ifaces, DispToma(i)
         PROVE  InterfacesTypeOK' /\ ManosOut' /\ OcupacionExacta'
    <3>2. InterfacesTypeOK'
      BY <2>10 DEF DispToma, SinCambioPCB, vResto
    <3>3. ManosOut'
      BY <2>10 DEF DispToma, SinCambioPCB, vResto, ManosOut
    <3>4. OcupacionExacta'
      BY <2>10 DEF DispToma, SinCambioPCB, vResto, OcupacionExacta, OcupacionDe
    <3> QED
      BY <3>2, <3>3, <3>4
  <2>11. ASSUME NEW i \in Ifaces, DispTermina(i)
         PROVE  InterfacesTypeOK' /\ ManosOut' /\ OcupacionExacta'
    <3>2. InterfacesTypeOK'
      BY <2>11 DEF DispTermina, SinCambioPCB, vResto
    <3>3. ManosOut'
      BY <2>11 DEF DispTermina, SinCambioPCB, vResto, ManosOut
    <3>4. OcupacionExacta'
      BY <2>11 DEF DispTermina, SinCambioPCB, vResto, OcupacionExacta,
             OcupacionDe
    <3> QED
      BY <3>2, <3>3, <3>4
  <2>12. ASSUME NEW i \in Ifaces, DispCae(i)
         PROVE  InterfacesTypeOK' /\ ManosOut' /\ OcupacionExacta'
    <3>2. InterfacesTypeOK'
      BY <2>12 DEF DispCae, SinCambioPCB, vResto
    <3>3. ManosOut'
      BY <2>12 DEF DispCae, SinCambioPCB, vResto, ManosOut
    <3>4. OcupacionExacta'
      BY <2>12 DEF DispCae, SinCambioPCB, vResto, OcupacionExacta, OcupacionDe
    <3> QED
      BY <3>2, <3>3, <3>4
  <2> QED
    BY <1>1, <2>1, <2>2, <2>3, <2>4, <2>5, <2>6, <2>7, <2>8, <2>9, <2>10,
           <2>11, <2>12, HuellaIfaces DEF DeIfaces, InterfacesNext, InNext,
           OutNext, DispNext
<1>2. CASE DelCrear \/ DelElim \/ DelPlan \/ DelReloj \/ DeConsola \/ DeCpu
           \/ UNCHANGED vars
  BY <1>2, HuellaCrear, HuellaElim, HuellaPlan, HuellaReloj, HuellaConsola,
         HuellaCpu, SMTT(30) DEF vars, kernel_vars, vKernelAjeno, ManosOut,
         OcupacionExacta, OcupacionDe
<1> QED
  BY <1>1, <1>2 DEF Next

(* The invariant holds when the threads start.                              *)
LEMMA KernelInitInv == Init => KInv
<1> SUFFICES ASSUME Init PROVE KInv
  OBVIOUS
<1> USE DEF Init, KernelInit
<1>1. PCBTypeOK
  BY DEF PCBTypeOK, Estados, Motivos
<1>2. PcTypeOK /\ ManosTypeOK
  BY DEF PcTypeOK, ManosTypeOK, Hilos, LugaresCrear, LugaresElim, LugaresPlan,
         LugaresConsola
<1>3. ManosCrear /\ ManosElim /\ ManosPlan /\ ManosConsola
  BY DEF ManosCrear, ManosElim, ManosPlan, ManosConsola, Hilos
<1>4. ColaNewOK /\ ColasReadyOK /\ ColaExitOK /\ ColasIOOK
  BY DEF ColaNewOK, ColasReadyOK, ColaExitOK, ColasIOOK, Hilos
<1>5. M!ProgTypeOK /\ AdmisionOK /\ PausaOK
  <2>1. M!ProgTypeOK
    <3>1. /\ prog_running = 0 /\ prog_grado = GradoInicial
          /\ prog_sem = GradoInicial /\ admision = "fuera"
      BY DEF M!ProgInit
    <3> QED
      BY <3>1 DEF M!ProgTypeOK
  <2>2. AdmisionOK
    <3>1. pc[Crear] = "espera" /\ admision = "fuera"
      BY DEF M!ProgInit, Hilos
    <3> QED
      BY <3>1 DEF AdmisionOK
  <2>3. PausaOK
    BY DEF PausaOK
  <2> QED
    BY <2>1, <2>2, <2>3
<1>6. RecursosTypeOK /\ R!ColaSegunInstancias
  <2>1. R!RecTypeOK /\ R!ColaSegunInstancias
    BY DEF R!RecInit, R!RecTypeOK, R!ColaSegunInstancias, R!IndicesRecursos
  <2> QED
    BY <2>1 DEF RecursosTypeOK
<1>7. SocketsTypeOK
  BY PaquetesHechos DEF SocketsTypeOK, SinPaquete, Motivos
<1>8. CpuTypeOK /\ ManosCpu
  BY PaquetesHechos, CpuAssumption DEF CpuInit, CpuTypeOK, ManosCpu,
         SinPaquete,
     Motivos
<1>9. InterfacesTypeOK /\ ManosOut /\ OcupacionExacta
  BY DEF InterfacesInit, InterfacesTypeOK, ManosOut, OcupacionExacta,
         OcupacionDe
<1> QED
  BY <1>1, <1>2, <1>3, <1>4, <1>5, <1>6, <1>7, <1>8, <1>9 DEF KInv

(* And every step of every thread keeps it.                                 *)
LEMMA KernelNextInv == KInv /\ [Next]_vars => KInv'
<1> SUFFICES ASSUME KInv, [Next]_vars PROVE KInv'
  OBVIOUS
<1>0. Cabezas
  BY CabezasSon DEF KInv
<1>1. PCBTypeOK' /\ PcTypeOK'
  BY PCBPaso, PcPaso DEF KInv, SocketsTypeOK, InterfacesTypeOK
<1>2. ManosTypeOK' /\ ManosCrear' /\ ManosElim' /\ ManosPlan' /\ ManosConsola'
  BY <1>0, ManosTypePaso, ManosCrearPaso, ManosElimPaso, ManosPlanPaso,
     ManosConsolaPaso DEF KInv
<1>3. ColaNewOK' /\ ColasReadyOK' /\ ColaExitOK' /\ ColasIOOK'
  BY ColaNewPaso, ColasReadyPaso, ColaExitPaso, ColasIOPaso
     DEF KInv, InterfacesTypeOK
<1>4. M!ProgTypeOK' /\ AdmisionOK' /\ PausaOK'
  BY ProgPaso, PausaPaso DEF KInv
<1>5. RecursosTypeOK' /\ R!ColaSegunInstancias'
  BY RecursosPaso DEF KInv
<1>6. SocketsTypeOK' /\ CpuTypeOK' /\ ManosCpu'
  BY SocketsPaso DEF KInv
<1>7. InterfacesTypeOK' /\ ManosOut' /\ OcupacionExacta'
  BY <1>0, InterfacesPaso DEF KInv
<1> QED
  BY <1>1, <1>2, <1>3, <1>4, <1>5, <1>6, <1>7 DEF KInv

(* The invariant holds of every behaviour of the kernel, for any processes, *)
(* interfaces, resources, algorithm, quantum, degree and commands.          *)
THEOREM KernelInvSiempre == Spec => []KInv
  BY KernelInitInv, KernelNextInv, PTL DEF Spec

(* Every variable keeps its type: no thread dereferences a NULL PCB         *)
(* (largo_plazo.c, corto_plazo.c, interfaces.c) nor leaves its own code.    *)
THEOREM TypeOKSiempre == Spec => []TypeOK
<1>1. KInv => TypeOK
  BY DEF KInv, TypeOK, KernelTypeOK, ColasTypeOK, ColaNewOK, ColasReadyOK,
         ColaExitOK, ColasIOOK, PausaOK
<1> QED
  BY <1>1, KernelInvSiempre, PTL

(* Each semaphore counts its queue: no queue_pop of crear_proceso,          *)
(* eliminar_proceso, the planificador or OUT finds its queue empty.         *)
THEOREM ColasContadasSiempre == Spec => []ColasContadas
<1>1. KInv => ColasContadas
  BY DEF KInv, ColasContadas, ColaNewOK, ColasReadyOK, ColaExitOK, ColasIOOK
<1> QED
  BY <1>1, KernelInvSiempre, PTL

(* The token of sem_occupied of each usable interface is in exactly one     *)
(* place, whatever is killed in its queue and whenever the device goes away.*)
THEOREM OcupacionExactaSiempre == Spec => []OcupacionExacta
<1>1. KInv => OcupacionExacta
  BY DEF KInv
<1> QED
  BY <1>1, KernelInvSiempre, PTL

(***************************************************************************)
(* Who has each mx_PCB, and what travels between the kernel and the device *)
(* that occupies one.                                                      *)
(*                                                                         *)
(* OUT takes the mx_PCB of a process when it hands it to a device and IN   *)
(* posts it when the answer comes, so the mutex has an owner that is not a *)
(* thread.  MutexOK names the owner, DispositivoOK says that an occupied   *)
(* device owes exactly one answer: IN never posts a mutex twice.           *)
(***************************************************************************)
(* Nobody has the PCB of p, or exactly one thread or device has it. *)
NadieLoTiene(p) ==
    /\ \A h \in Hilos : ~TieneElPCB(h, p)
    /\ \A i \in Ifaces : occupant[i] # p
LoTieneUno(p) ==
    \/ \E h \in Hilos :
          /\ TieneElPCB(h, p)
          /\ \A g \in Hilos \ {h} : ~TieneElPCB(g, p)
          /\ \A i \in Ifaces : occupant[i] # p
    \/ \E i \in Ifaces :
          /\ occupant[i] = p
          /\ \A j \in Ifaces \ {i} : occupant[j] # p
          /\ \A h \in Hilos : ~TieneElPCB(h, p)
MutexOK ==
    \A p \in PID : IF mx_PCB[p] = 1 THEN NadieLoTiene(p) ELSE LoTieneUno(p)

(* The sum of MutexPCB counts what MutexOK says. *)
LEMMA MutexOKEsMutexPCB ==
  ASSUME PCBTypeOK, MutexOK
  PROVE  MutexPCB
<1> SUFFICES ASSUME NEW p \in PID
             PROVE  mx_PCB[p] + Cardinality({h \in Hilos : TieneElPCB(h, p)})
                      + Cardinality({i \in Ifaces : occupant[i] = p}) = 1
  BY DEF MutexPCB
<1> DEFINE H == {h \in Hilos : TieneElPCB(h, p)}
           O == {i \in Ifaces : occupant[i] = p}
<1> HIDE DEF H, O
<1> SUFFICES mx_PCB[p] + Cardinality(H) + Cardinality(O) = 1
  BY Zenon DEF H, O
<1>0. Cardinality({}) = 0 /\ \A x : Cardinality({x}) = 1
  BY FS_EmptySet, FS_Singleton, Zenon
<1>1. mx_PCB[p] \in 0..1
  BY DEF PCBTypeOK
<1>2. CASE mx_PCB[p] = 1
  <2>1. H = {} /\ O = {}
    BY <1>2 DEF MutexOK, NadieLoTiene, H, O
  <2> QED
    BY <1>0, <1>2, <2>1
<1>3. CASE mx_PCB[p] = 0
  <2>1. LoTieneUno(p)
    BY <1>3 DEF MutexOK
  <2>2. CASE \E h \in Hilos :
               /\ TieneElPCB(h, p)
               /\ \A g \in Hilos \ {h} : ~TieneElPCB(g, p)
               /\ \A i \in Ifaces : occupant[i] # p
    <3>1. PICK h \in Hilos : /\ TieneElPCB(h, p)
                             /\ \A g \in Hilos \ {h} : ~TieneElPCB(g, p)
                             /\ \A i \in Ifaces : occupant[i] # p
      BY <2>2
    <3>2. H = {h} /\ O = {}
      BY <3>1 DEF H, O
    <3>3. Cardinality(H) = 1 /\ Cardinality(O) = 0
      BY <1>0, <3>2, Zenon
    <3> QED
      BY <1>3, <3>3
  <2>3. CASE \E i \in Ifaces :
               /\ occupant[i] = p
               /\ \A j \in Ifaces \ {i} : occupant[j] # p
               /\ \A h \in Hilos : ~TieneElPCB(h, p)
    <3>1. PICK i \in Ifaces : /\ occupant[i] = p
                              /\ \A j \in Ifaces \ {i} : occupant[j] # p
                              /\ \A h \in Hilos : ~TieneElPCB(h, p)
      BY <2>3
    <3>2. H = {} /\ O = {i}
      BY <3>1 DEF H, O
    <3>3. Cardinality(O) = 1 /\ Cardinality(H) = 0
      BY <1>0, <3>2, Zenon
    <3> QED
      BY <1>3, <3>3
  <2> QED
    BY <2>1, <2>2, <2>3 DEF LoTieneUno
<1> QED
  BY <1>1, <1>2, <1>3

(* A thread that neither takes nor posts a mx_PCB. *)
LEMMA MutexIgual ==
  ASSUME MutexOK, UNCHANGED <<mx_PCB, occupant>>,
         \A h \in Hilos, p \in PID : TieneElPCB(h, p)' <=> TieneElPCB(h, p)
  PROVE  MutexOK'
<1> SUFFICES ASSUME NEW p \in PID
             PROVE  IF mx_PCB'[p] = 1 THEN NadieLoTiene(p)' ELSE LoTieneUno(p)'
  BY DEF MutexOK
<1>1. NadieLoTiene(p) => NadieLoTiene(p)'
  BY DEF NadieLoTiene
<1>2. LoTieneUno(p) => LoTieneUno(p)'
  BY DEF LoTieneUno
<1> QED
  BY <1>1, <1>2 DEF MutexOK

(* A thread takes the mx_PCB of p... *)
LEMMA MutexToma ==
  ASSUME MutexOK, PCBTypeOK, NEW h \in Hilos, NEW p \in PID,
         Libre(mx_PCB, p), mx_PCB' = Tomado(mx_PCB, p), UNCHANGED occupant,
         \A g \in Hilos \ {h}, q \in PID : TieneElPCB(g, q)' <=> TieneElPCB(g, q),
         \A q \in PID : ~TieneElPCB(h, q),
         \A q \in PID : TieneElPCB(h, q)' <=> q = p
  PROVE  MutexOK'
<1> SUFFICES ASSUME NEW q \in PID
             PROVE  IF mx_PCB'[q] = 1 THEN NadieLoTiene(q)' ELSE LoTieneUno(q)'
  BY DEF MutexOK
<1>1. mx_PCB'[q] = IF q = p THEN 0 ELSE mx_PCB[q]
  BY DEF PCBTypeOK
<1>2. CASE q = p
  <2>1. NadieLoTiene(p)
    BY DEF MutexOK
  <2>2. LoTieneUno(p)'
    BY <2>1 DEF NadieLoTiene, LoTieneUno
  <2> QED
    BY <1>1, <1>2, <2>2
<1>3. CASE q # p
  <2>1. NadieLoTiene(q) => NadieLoTiene(q)'
    BY <1>3 DEF NadieLoTiene
  <2>2. LoTieneUno(q) => LoTieneUno(q)'
    BY <1>3 DEF LoTieneUno
  <2> QED
    BY <1>1, <1>3, <2>1, <2>2 DEF MutexOK
<1> QED
  BY <1>2, <1>3

(* ...and posts it. *)
LEMMA MutexSuelta ==
  ASSUME MutexOK, PCBTypeOK, NEW h \in Hilos, NEW p \in PID,
         mx_PCB' = Soltado(mx_PCB, p), UNCHANGED occupant,
         \A g \in Hilos \ {h}, q \in PID : TieneElPCB(g, q)' <=> TieneElPCB(g, q),
         \A q \in PID : TieneElPCB(h, q) <=> q = p,
         \A q \in PID : ~TieneElPCB(h, q)'
  PROVE  MutexOK'
<1> SUFFICES ASSUME NEW q \in PID
             PROVE  IF mx_PCB'[q] = 1 THEN NadieLoTiene(q)' ELSE LoTieneUno(q)'
  BY DEF MutexOK
<1>1. mx_PCB'[q] = IF q = p THEN 1 ELSE mx_PCB[q]
  BY DEF PCBTypeOK
<1>2. CASE q = p
  <2>1. LoTieneUno(p)
    BY DEF MutexOK, NadieLoTiene
  <2>2. NadieLoTiene(p)'
    BY <2>1 DEF NadieLoTiene, LoTieneUno
  <2> QED
    BY <1>1, <1>2, <2>2
<1>3. CASE q # p
  <2>1. NadieLoTiene(q) => NadieLoTiene(q)'
    BY <1>3 DEF NadieLoTiene
  <2>2. LoTieneUno(q) => LoTieneUno(q)'
    BY <1>3 DEF LoTieneUno
  <2> QED
    BY <1>1, <1>3, <2>1, <2>2 DEF MutexOK
<1> QED
  BY <1>2, <1>3

(* OUT takes the mx_PCB of the process it gives to the device... *)
LEMMA MutexOcupa ==
  ASSUME MutexOK, PCBTypeOK, InterfacesTypeOK, NEW i \in Ifaces, NEW p \in PID,
         Libre(mx_PCB, p), mx_PCB' = Tomado(mx_PCB, p),
         occupant[i] = Nadie, occupant' = [occupant EXCEPT ![i] = p],
         \A h \in Hilos, q \in PID : TieneElPCB(h, q)' <=> TieneElPCB(h, q)
  PROVE  MutexOK'
<1> SUFFICES ASSUME NEW q \in PID
             PROVE  IF mx_PCB'[q] = 1 THEN NadieLoTiene(q)' ELSE LoTieneUno(q)'
  BY DEF MutexOK
<1>1. mx_PCB'[q] = IF q = p THEN 0 ELSE mx_PCB[q]
  BY DEF PCBTypeOK
<1>2. \A j \in Ifaces : occupant'[j] = IF j = i THEN p ELSE occupant[j]
  BY DEF InterfacesTypeOK
<1>3. CASE q = p
  <2>1. NadieLoTiene(p)
    BY DEF MutexOK
  <2>2. LoTieneUno(p)'
    BY <1>2, <2>1 DEF NadieLoTiene, LoTieneUno
  <2> QED
    BY <1>1, <1>3, <2>2
<1>4. CASE q # p
  <2>1. NadieLoTiene(q) => NadieLoTiene(q)'
    BY <1>2, <1>4 DEF NadieLoTiene
  <2>2. LoTieneUno(q) => LoTieneUno(q)'
    BY <1>2, <1>4 DEF LoTieneUno
  <2> QED
    BY <1>1, <1>4, <2>1, <2>2 DEF MutexOK
<1> QED
  BY <1>3, <1>4

(* ...and IN posts it when the device has done, or has gone. *)
LEMMA MutexDesocupa ==
  ASSUME MutexOK, PCBTypeOK, InterfacesTypeOK, NEW i \in Ifaces, NEW p \in PID,
         mx_PCB' = Soltado(mx_PCB, p),
         occupant[i] = p, occupant' = [occupant EXCEPT ![i] = Nadie],
         \A h \in Hilos, q \in PID : TieneElPCB(h, q)' <=> TieneElPCB(h, q)
  PROVE  MutexOK'
<1> SUFFICES ASSUME NEW q \in PID
             PROVE  IF mx_PCB'[q] = 1 THEN NadieLoTiene(q)' ELSE LoTieneUno(q)'
  BY DEF MutexOK
<1>1. mx_PCB'[q] = IF q = p THEN 1 ELSE mx_PCB[q]
  BY DEF PCBTypeOK
<1>2. \A j \in Ifaces : occupant'[j] = IF j = i THEN Nadie ELSE occupant[j]
  BY DEF InterfacesTypeOK
<1>3. CASE q = p
  <2>1. LoTieneUno(p)
    BY DEF MutexOK, NadieLoTiene
  <2>2. NadieLoTiene(p)'
    BY <1>2, <2>1 DEF NadieLoTiene, LoTieneUno
  <2> QED
    BY <1>1, <1>3, <2>2
<1>4. CASE q # p
  <2>1. NadieLoTiene(q) => NadieLoTiene(q)'
    BY <1>2, <1>4 DEF NadieLoTiene
  <2>2. LoTieneUno(q) => LoTieneUno(q)'
    BY <1>2, <1>4 DEF LoTieneUno
  <2> QED
    BY <1>1, <1>4, <2>1, <2>2 DEF MutexOK
<1> QED
  BY <1>3, <1>4

(* What a thread has of PCBs is a matter of its own pc and actual. *)
LEMMA OtrosNoTienen ==
  ASSUME NEW h \in Hilos, UNCHANGED <<pc[h], actual[h]>>
  PROVE  \A p : TieneElPCB(h, p)' <=> TieneElPCB(h, p)
  BY DEF TieneElPCB

(* crear_proceso takes mx_PCB for the reply of memoria and posts it. *)
LEMMA CrearMutexPaso ==
  ASSUME MutexOK, PCBTypeOK, PcTypeOK, ManosTypeOK, ManosCrear, DelCrear
  PROVE  MutexOK'
<1>1. \A g \in Hilos \ {Crear}, q \in PID :
        TieneElPCB(g, q)' <=> TieneElPCB(g, q)
  BY OtrosHilosCrear, OtrosNoTienen
<1>2. UNCHANGED occupant
  BY HuellaCrear
<1>3. Crear \in Hilos
  BY DEF Hilos
<1>4. CASE CrearPide
  <2>1. actual[Crear] \in PID
    BY <1>4 DEF CrearPide, ManosCrear
  <2>2. /\ Libre(mx_PCB, actual[Crear])
        /\ mx_PCB' = Tomado(mx_PCB, actual[Crear])
    BY <1>4 DEF CrearPide
  <2>3. \A q \in PID : ~TieneElPCB(Crear, q)
    BY <1>4 DEF CrearPide, TieneElPCB
  <2>4. \A q \in PID : TieneElPCB(Crear, q)' <=> q = actual[Crear]
    BY <1>3, <1>4 DEF CrearPide, TieneElPCB, PcTypeOK
  <2> QED
    BY <1>1, <1>2, <1>3, <2>1, <2>2, <2>3, <2>4, MutexToma
<1>5. CASE CrearAdmite
  <2>1. actual[Crear] \in PID
    BY <1>5 DEF CrearAdmite, ManosCrear
  <2>2. mx_PCB' = Soltado(mx_PCB, actual[Crear])
    BY <1>5 DEF CrearAdmite
  <2>3. \A q \in PID : TieneElPCB(Crear, q) <=> q = actual[Crear]
    BY <1>5 DEF CrearAdmite, TieneElPCB
  <2>4. \A q \in PID : ~TieneElPCB(Crear, q)'
    BY <1>3, <1>5 DEF CrearAdmite, TieneElPCB, PcTypeOK
  <2> QED
    BY <1>1, <1>2, <1>3, <2>1, <2>2, <2>3, <2>4, MutexSuelta
<1>6. CASE CrearDespierta \/ CrearEnAddProg \/ CrearToma \/ CrearDescarta
  <2>1. UNCHANGED mx_PCB
    BY <1>6 DEF CrearDespierta, CrearEnAddProg, CrearToma, CrearDescarta
  <2>2. pc[Crear] # "memoria" /\ pc'[Crear] # "memoria"
    BY <1>3, <1>6 DEF CrearDespierta, CrearEnAddProg, CrearToma, CrearDescarta,
       PcTypeOK
  <2>3. \A q \in PID : TieneElPCB(Crear, q)' <=> TieneElPCB(Crear, q)
    BY <2>2 DEF TieneElPCB
  <2> QED
    BY <1>1, <1>2, <2>1, <2>3, MutexIgual
<1> QED
  BY <1>4, <1>5, <1>6 DEF DelCrear, CrearNext

(* eliminar_proceso has mx_PCB from ElimExit to ElimBorra. *)
LEMMA ElimMutexPaso ==
  ASSUME MutexOK, PCBTypeOK, PcTypeOK, ManosTypeOK, ManosElim, DelElim
  PROVE  MutexOK'
<1> DEFINE Dentro == {"recursos", "libera", "despierta"}
<1>1. \A g \in Hilos \ {Elim}, q \in PID :
        TieneElPCB(g, q)' <=> TieneElPCB(g, q)
  BY OtrosHilosElim, OtrosNoTienen
<1>2. UNCHANGED occupant
  BY HuellaElim
<1>3. Elim \in Hilos
  BY DEF Hilos
<1>4. CASE ElimExit
  <2>1. actual[Elim] \in PID
    BY <1>4 DEF ElimExit, ManosElim
  <2>2. /\ Libre(mx_PCB, actual[Elim])
        /\ mx_PCB' = Tomado(mx_PCB, actual[Elim])
    BY <1>4 DEF ElimExit
  <2>3. \A q \in PID : ~TieneElPCB(Elim, q)
    BY <1>4 DEF ElimExit, TieneElPCB
  <2>4. \A q \in PID : TieneElPCB(Elim, q)' <=> q = actual[Elim]
    BY <1>3, <1>4 DEF ElimExit, TieneElPCB, PcTypeOK
  <2> QED
    BY <1>1, <1>2, <1>3, <2>1, <2>2, <2>3, <2>4, MutexToma
<1>5. CASE ElimBorra
  <2>1. actual[Elim] \in PID
    BY <1>5 DEF ElimBorra, ManosElim
  <2>2. mx_PCB' = Soltado(mx_PCB, actual[Elim])
    BY <1>5 DEF ElimBorra
  <2>3. \A q \in PID : TieneElPCB(Elim, q) <=> q = actual[Elim]
    BY <1>5 DEF ElimBorra, TieneElPCB
  <2>4. \A q \in PID : ~TieneElPCB(Elim, q)'
    BY <1>3, <1>5 DEF ElimBorra, TieneElPCB, PcTypeOK
  <2> QED
    BY <1>1, <1>2, <1>3, <2>1, <2>2, <2>3, <2>4, MutexSuelta
<1>6. CASE ElimToma \/ ElimNew \/ ElimExec \/ ElimVivo \/ ElimNada
  <2>1. UNCHANGED mx_PCB
    BY <1>6 DEF ElimToma, ElimNew, ElimExec, ElimVivo, ElimNada, ElimCaso
  <2>2. pc[Elim] \notin Dentro /\ pc'[Elim] \notin Dentro
    BY <1>3, <1>6 DEF ElimToma, ElimNew, ElimExec, ElimVivo, ElimNada,
       ElimCaso, PcTypeOK
  <2>3. \A q \in PID : TieneElPCB(Elim, q)' <=> TieneElPCB(Elim, q)
    BY <2>2 DEF TieneElPCB
  <2> QED
    BY <1>1, <1>2, <2>1, <2>3, MutexIgual
<1>7. CASE ElimTomaRecurso \/ ElimLibera \/ ElimDespierta \/ ElimSuelta
  <2>1. UNCHANGED <<mx_PCB, actual>>
    BY <1>7 DEF ElimTomaRecurso, ElimLibera, ElimDespierta, ElimSuelta
  <2>2. pc[Elim] \in Dentro /\ pc'[Elim] \in Dentro
    BY <1>3, <1>7 DEF ElimTomaRecurso, ElimLibera, ElimDespierta, ElimSuelta,
       PcTypeOK
  <2>3. \A q \in PID : TieneElPCB(Elim, q)' <=> TieneElPCB(Elim, q)
    BY <2>1, <2>2 DEF TieneElPCB
  <2> QED
    BY <1>1, <1>2, <2>1, <2>3, MutexIgual
<1> QED
  BY <1>4, <1>5, <1>6, <1>7 DEF DelElim, ElimNext

(* The planificador has it from PlanActualiza to the end of the turn. *)
LEMMA PlanMutexPaso ==
  ASSUME MutexOK, PCBTypeOK, PcTypeOK, ManosTypeOK, ManosPlan, DelPlan
  PROVE  MutexOK'
<1> DEFINE Dentro == {"procesa", "syscall", "WAIT", "SIGNAL", "IO", "despierta",
                      "cierre"}
<1>1. \A g \in Hilos \ {Plan}, q \in PID :
        TieneElPCB(g, q)' <=> TieneElPCB(g, q)
  BY OtrosHilosPlan, OtrosNoTienen
<1>2. UNCHANGED occupant
  BY HuellaPlan
<1>3. Plan \in Hilos
  BY DEF Hilos
<1>4. CASE PlanActualiza
  <2>1. actual[Plan] \in PID
    BY <1>4 DEF PlanActualiza, ManosPlan
  <2>2. /\ Libre(mx_PCB, actual[Plan])
        /\ mx_PCB' = Tomado(mx_PCB, actual[Plan])
    BY <1>4 DEF PlanActualiza
  <2>3. \A q \in PID : ~TieneElPCB(Plan, q)
    BY <1>4 DEF PlanActualiza, TieneElPCB
  <2>4. \A q \in PID : TieneElPCB(Plan, q)' <=> q = actual[Plan]
    BY <1>3, <1>4 DEF PlanActualiza, TieneElPCB, PcTypeOK
  <2> QED
    BY <1>1, <1>2, <1>3, <2>1, <2>2, <2>3, <2>4, MutexToma
<1>5. CASE PlanDesaloja \/ PlanRedespacha \/ PlanSuelta
  <2>0. pc[Plan] = "cierre"
    BY <1>5 DEF PlanDesaloja, PlanRedespacha, PlanSuelta
  <2>1. actual[Plan] \in PID
    BY <2>0 DEF ManosPlan
  <2>2. mx_PCB' = Soltado(mx_PCB, actual[Plan])
    BY <1>5 DEF PlanDesaloja, PlanRedespacha, PlanSuelta
  <2>3. \A q \in PID : TieneElPCB(Plan, q) <=> q = actual[Plan]
    BY <2>0 DEF TieneElPCB
  <2>4. pc'[Plan] \in {"espera", "recibe"}
    BY <1>3, <1>5 DEF PlanDesaloja, PlanRedespacha, PlanSuelta, PcTypeOK
  <2>5. \A q \in PID : ~TieneElPCB(Plan, q)'
    BY <2>4 DEF TieneElPCB
  <2> QED
    BY <1>1, <1>2, <1>3, <2>1, <2>2, <2>3, <2>5, MutexSuelta
<1>6. CASE PlanToma \/ PlanPasaPausa \/ PlanDescarta \/ PlanDespacha
             \/ PlanRecibe \/ PlanMatado
  <2>1. UNCHANGED mx_PCB
    BY <1>6 DEF PlanToma, PlanPasaPausa, PlanDescarta, PlanDespacha,
       PlanRecibe, PlanMatado
  <2>2. pc[Plan] \notin Dentro
    BY <1>6 DEF PlanToma, PlanPasaPausa, PlanDescarta, PlanDespacha,
       PlanRecibe, PlanMatado
  <2>3. pc'[Plan] \notin Dentro
    BY <1>3, <1>6 DEF PlanToma, PlanPasaPausa, PlanDescarta, PlanDespacha,
       PlanRecibe, PlanMatado, PcTypeOK
  <2>4. \A q \in PID : TieneElPCB(Plan, q)' <=> TieneElPCB(Plan, q)
    BY <2>2, <2>3 DEF TieneElPCB
  <2> QED
    BY <1>1, <1>2, <2>1, <2>4, MutexIgual
<1>7. CASE PlanInvalida \/ PlanTermina \/ PlanInterrumpido \/ PlanPideSyscall
             \/ PlanInterfazInvalida
  <2>1. UNCHANGED <<mx_PCB, actual>>
    BY <1>7 DEF PlanInvalida, PlanTermina, PlanInterrumpido, PlanPideSyscall,
       PlanInterfazInvalida, PlanProcesa, PlanEnviarAExit, PlanSinCambio
  <2>2. pc[Plan] \in Dentro
    BY <1>7 DEF PlanInvalida, PlanTermina, PlanInterrumpido, PlanPideSyscall,
       PlanInterfazInvalida, PlanProcesa
  <2>3. pc'[Plan] \in Dentro
    BY <1>3, <1>7 DEF PlanInvalida, PlanTermina, PlanInterrumpido,
       PlanPideSyscall, PlanInterfazInvalida, PlanEnviarAExit, PlanSinCambio,
       PcTypeOK
  <2>4. \A q \in PID : TieneElPCB(Plan, q)' <=> TieneElPCB(Plan, q)
    BY <2>1, <2>2, <2>3 DEF TieneElPCB
  <2> QED
    BY <1>1, <1>2, <2>1, <2>4, MutexIgual
<1>8. CASE PlanLeeSyscall \/ PlanWait \/ PlanSignal \/ PlanDespierta
             \/ PlanBloqueaIO
  <2>1. UNCHANGED <<mx_PCB, actual>>
    BY <1>8 DEF PlanLeeSyscall, PlanWait, PlanSignal, PlanDespierta,
       PlanBloqueaIO, PlanEnviarAExit, PlanSinCambio
  <2>2. pc[Plan] \in Dentro
    BY <1>8 DEF PlanLeeSyscall, PlanWait, PlanSignal, PlanDespierta,
       PlanBloqueaIO
  <2>3. pc'[Plan] \in Dentro
    BY <1>3, <1>8 DEF PlanLeeSyscall, PlanWait, PlanSignal, PlanDespierta,
       PlanBloqueaIO, PlanEnviarAExit, PlanSinCambio, PcTypeOK, OpsRecurso
  <2>4. \A q \in PID : TieneElPCB(Plan, q)' <=> TieneElPCB(Plan, q)
    BY <2>1, <2>2, <2>3 DEF TieneElPCB
  <2> QED
    BY <1>1, <1>2, <2>1, <2>4, MutexIgual
<1> QED
  BY <1>4, <1>5, <1>6, <1>7, <1>8 DEF DelPlan, PlanNext

(* OUT has the token of sem_occupied: the device is free. *)
LEMMA SinOcupante ==
  ASSUME InterfacesTypeOK, OcupacionExacta, NEW i \in Ifaces,
         pc_out[i] = "mx_PCB"
  PROVE  occupant[i] = Nadie
<1>1. sem_occupied[i] \in 0..1
  BY DEF InterfacesTypeOK
<1>2. sem_occupied[i] + 1 + Como(occupant[i] # Nadie)
        = Como(disp[i] # "apagado")
  BY DEF OcupacionExacta, OcupacionDe
<1> QED
  BY <1>1, <1>2

(* Between OUT and IN the device's process keeps its PCB taken. *)
LEMMA IfacesMutexPaso ==
  ASSUME MutexOK, PCBTypeOK, InterfacesTypeOK, ManosOut, OcupacionExacta,
         DeIfaces
  PROVE  MutexOK'
<1>1. UNCHANGED <<pc, actual>>
  BY HuellaIfaces
<1>2. \A h \in Hilos, q \in PID : TieneElPCB(h, q)' <=> TieneElPCB(h, q)
  BY <1>1 DEF TieneElPCB
<1>3. ASSUME NEW i \in Ifaces, InIOFin(i) PROVE MutexOK'
  BY <1>2, <1>3, MutexDesocupa DEF InIOFin, InterfacesTypeOK
<1>4. ASSUME NEW i \in Ifaces, InDesconexion(i) PROVE MutexOK'
  <2>1. CASE occupant[i] = Nadie
    <3>1. UNCHANGED <<mx_PCB, occupant>>
      BY <1>4, <2>1 DEF InDesconexion
    <3> QED
      BY <1>2, <3>1, MutexIgual
  <2>2. CASE occupant[i] # Nadie
    <3>1. /\ occupant[i] \in PID
          /\ mx_PCB' = Soltado(mx_PCB, occupant[i])
          /\ occupant' = [occupant EXCEPT ![i] = Nadie]
      BY <1>4, <2>2 DEF InDesconexion, InterfacesTypeOK
    <3> QED
      BY <1>2, <3>1, MutexDesocupa
  <2> QED
    BY <2>1, <2>2
<1>5. ASSUME NEW i \in Ifaces, OutEntrega(i) PROVE MutexOK'
  <2>1. pc_out[i] = "mx_PCB"
    BY <1>5 DEF OutEntrega, OutConPCB
  <2>2. pid_out[i] \in PID
    BY <2>1 DEF ManosOut
  <2>3. occupant[i] = Nadie
    BY <2>1, SinOcupante
  <2>4. /\ Libre(mx_PCB, pid_out[i])
        /\ mx_PCB' = Tomado(mx_PCB, pid_out[i])
        /\ occupant' = [occupant EXCEPT ![i] = pid_out[i]]
    BY <1>5 DEF OutEntrega, OutConPCB
  <2> QED
    BY <1>2, <2>2, <2>3, <2>4, MutexOcupa
<1>6. CASE UNCHANGED <<mx_PCB, occupant>>
  BY <1>2, <1>6, MutexIgual
<1> QED
  BY <1>3, <1>4, <1>5, <1>6, HuellaIfacesPCB

(* Every step keeps each mx_PCB with nobody or with exactly one, thread or *)
(* device.                                                                 *)
LEMMA MutexPaso ==
  ASSUME KInv, MutexOK, [Next]_vars
  PROVE  MutexOK'
<1>1. CASE DelCrear \/ DelElim \/ DelPlan \/ DeIfaces
  BY <1>1, CrearMutexPaso, ElimMutexPaso, PlanMutexPaso, IfacesMutexPaso
     DEF KInv
<1>2. CASE DeConsola
  <2>1. UNCHANGED <<mx_PCB, occupant>>
    BY <1>2, HuellaConsola
  <2>2. \A h \in Hilos \ {HiloConsola}, q \in PID :
          TieneElPCB(h, q)' <=> TieneElPCB(h, q)
    BY <1>2, OtrosHilosConsola, OtrosNoTienen DEF KInv
  <2>3. \A q \in PID : TieneElPCB(HiloConsola, q)' <=> TieneElPCB(HiloConsola, q)
    BY DEF TieneElPCB
  <2> QED
    BY <2>1, <2>2, <2>3, MutexIgual
<1>3. CASE DelReloj \/ DeCpu \/ UNCHANGED vars
  <2>1. UNCHANGED <<mx_PCB, occupant, pc, actual>>
    BY <1>3, HuellaReloj, HuellaCpu DEF vars, kernel_vars, vKernelAjeno
  <2>2. \A h \in Hilos, q \in PID : TieneElPCB(h, q)' <=> TieneElPCB(h, q)
    BY <2>1 DEF TieneElPCB
  <2> QED
    BY <2>1, <2>2, MutexIgual
<1> QED
  BY <1>1, <1>2, <1>3 DEF Next

(* At the start every mx_PCB is free. *)
LEMMA MutexInit == Init => MutexOK
<1> SUFFICES ASSUME Init, NEW p \in PID
             PROVE  mx_PCB[p] = 1 /\ NadieLoTiene(p)
  BY DEF MutexOK
<1> QED
  BY DEF Init, KernelInit, InterfacesInit, NadieLoTiene, TieneElPCB, Hilos

(* Whenever mx_PCB is taken one thread or device has it, and whenever it is *)
(* free nobody does, although OUT takes it and IN posts it                  *)
(* (interfaces.c:45, :55, :103-123).                                        *)
THEOREM MutexPCBSiempre == Spec => []MutexPCB
<1>1. KInv /\ MutexOK => MutexPCB
  BY MutexOKEsMutexPCB DEF KInv
<1>2. KInv /\ MutexOK /\ [Next]_vars => MutexOK'
  BY MutexPaso
<1> QED
  BY <1>1, <1>2, MutexInit, KernelInvSiempre, PTL DEF Spec

(***************************************************************************)
(* What travels between the kernel and a device: one request at most, in   *)
(* the socket, in the device, in its answer or in the hands of IN, and     *)
(* only while there is an occupant; a DESCONEXION comes last, and once.    *)
(***************************************************************************)
FinPendiente(i) == Len(de_disp[i]) > 0 /\ de_disp[i][1] = "IO_FIN"
Despedida(i) ==
    \/ pc_in[i] = "DESCONEXION"
    \/ Len(de_disp[i]) > 0 /\ de_disp[i][Len(de_disp[i])] = "DESCONEXION"
UnPedido(i) ==
    /\ occupant[i] = Nadie => /\ Len(a_disp[i]) = 0 /\ disp[i] # "operando"
                              /\ ~FinPendiente(i) /\ pc_in[i] # "IO_FIN"
    /\ Len(a_disp[i]) > 0 => /\ Len(a_disp[i]) = 1 /\ disp[i] # "operando"
                             /\ ~FinPendiente(i) /\ pc_in[i] # "IO_FIN"
    /\ disp[i] = "operando" => ~FinPendiente(i) /\ pc_in[i] # "IO_FIN"
    /\ FinPendiente(i) => pc_in[i] # "IO_FIN"

ConectadoOK(i) ==
    /\ pc_in[i] # "fuera" /\ disp[i] # "apagado"
    /\ \A k \in 1..Len(de_disp[i]) :
          /\ de_disp[i][k] = "IO_FIN" => k = 1
          /\ de_disp[i][k] = "DESCONEXION" => k = Len(de_disp[i])
    /\ pc_in[i] = "DESCONEXION" => Len(de_disp[i]) = 0
    /\ Despedida(i) <=> disp[i] = "caido"
    /\ UnPedido(i)

DesconectadoOK(i) ==
    /\ pc_in[i] = "fuera" /\ occupant[i] = Nadie
    /\ disp[i] \in {"apagado", "caido"}
    /\ disp[i] = "apagado" => Len(a_disp[i]) = 0 /\ Len(de_disp[i]) = 0

DispositivoOK ==
    \A i \in Ifaces : IF conectada[i] THEN ConectadoOK(i) ELSE DesconectadoOK(i)

(* A device nobody touches. *)
LEMMA OtroDispositivo ==
  ASSUME NEW j \in Ifaces,
         UNCHANGED <<conectada[j], pc_in[j], disp[j], occupant[j], a_disp[j],
                     de_disp[j]>>
  PROVE  /\ ConectadoOK(j)' <=> ConectadoOK(j)
         /\ DesconectadoOK(j)' <=> DesconectadoOK(j)
  BY DEF ConectadoOK, DesconectadoOK, Despedida, UnPedido, FinPendiente

(* Requests and answers in the sockets are sequences. *)
LEMMA SocketsDisp ==
  ASSUME InterfacesTypeOK, NEW i \in Ifaces
  PROVE  /\ a_disp[i] \in Seq(PID) /\ Len(a_disp[i]) \in Nat
         /\ de_disp[i] \in Seq({"IO_FIN", "DESCONEXION"})
         /\ Len(de_disp[i]) \in Nat
         /\ \A k \in 1..Len(de_disp[i]) :
              de_disp[i][k] \in {"IO_FIN", "DESCONEXION"}
  BY LenProperties, ElementOfSeq DEF InterfacesTypeOK

(* Only IN, OUT and the device of i change what DispositivoOK says of i. *)
LEMMA DispositivoConecta ==
  ASSUME InterfacesTypeOK, NEW i \in Ifaces, DispositivoOK, Conecta(i)
  PROVE  DispositivoOK'
<1>1. ASSUME NEW j \in Ifaces \ {i}
      PROVE  IF conectada'[j] THEN ConectadoOK(j)' ELSE DesconectadoOK(j)'
  BY <1>1, OtroDispositivo DEF Conecta, InterfacesTypeOK, DispositivoOK
<1>2. /\ conectada'[i] = TRUE /\ pc_in'[i] = "lee" /\ disp'[i] = "libre"
      /\ UNCHANGED <<a_disp, de_disp, occupant>>
      /\ disp[i] = "apagado"
  BY DEF Conecta, InterfacesTypeOK
<1>3. DesconectadoOK(i)
  BY <1>2 DEF DispositivoOK, ConectadoOK
<1>4. ConectadoOK(i)'
  BY <1>2, <1>3, SocketsDisp
     DEF DesconectadoOK, ConectadoOK, Despedida, UnPedido, FinPendiente
<1> QED
  BY <1>1, <1>2, <1>4 DEF DispositivoOK

(* IN receives an answer or the farewell of its device. *)
LEMMA DispositivoInRecibe ==
  ASSUME InterfacesTypeOK, NEW i \in Ifaces, DispositivoOK, InRecibe(i)
  PROVE  DispositivoOK'
<1>1. ASSUME NEW j \in Ifaces \ {i}
      PROVE  IF conectada'[j] THEN ConectadoOK(j)' ELSE DesconectadoOK(j)'
  BY <1>1, OtroDispositivo DEF InRecibe, InterfacesTypeOK, DispositivoOK
<1> DEFINE s == de_disp[i]
           t == Tail(s)
<1>2. /\ pc_in'[i] = Head(s) /\ de_disp'[i] = t
      /\ UNCHANGED <<a_disp, occupant, conectada, disp>>
      /\ pc_in[i] = "lee" /\ s # <<>>
  BY DEF InRecibe, InterfacesTypeOK
<1>3. conectada[i] /\ ConectadoOK(i)
  BY <1>2 DEF DispositivoOK, DesconectadoOK
<1>4. /\ Len(s) \in Nat \ {0} /\ Len(t) = Len(s) - 1
      /\ Head(s) = s[1] /\ \A k \in 1..Len(t) : t[k] = s[k + 1]
      /\ \A k \in 1..Len(s) : s[k] \in {"IO_FIN", "DESCONEXION"}
  BY <1>2, SocketsDisp, HeadTailProperties, EmptySeq
<1>5. Len(a_disp[i]) \in Nat
  BY SocketsDisp
<1> HIDE DEF s, t
<1>6. /\ \A k \in 1..Len(s) : /\ s[k] = "IO_FIN" => k = 1
                              /\ s[k] = "DESCONEXION" => k = Len(s)
      /\ disp[i] # "apagado"
      /\ disp[i] = "caido" <=> s[Len(s)] = "DESCONEXION"
      /\ UnPedido(i) /\ (FinPendiente(i) <=> s[1] = "IO_FIN")
  BY <1>2, <1>3, <1>4, <1>5
     DEF ConectadoOK, Despedida, UnPedido, FinPendiente, s
<1>9. FinPendiente(i)' <=> Len(t) > 0 /\ t[1] = "IO_FIN"
  BY <1>2 DEF FinPendiente
<1>7. CASE s[1] = "IO_FIN"
  <2>1. ~ (Len(t) > 0 /\ t[1] = "IO_FIN")
    BY <1>4, <1>6
  <2>2. pc_in'[i] = "IO_FIN"
    BY <1>2, <1>4, <1>7
  <2>3. UnPedido(i)'
    BY <1>2, <1>5, <1>6, <1>7, <2>1, <2>2, <1>9 DEF UnPedido
  <2>4. Despedida(i)' <=> disp'[i] = "caido"
    BY <1>2, <1>4, <1>6, <1>7, <2>2 DEF Despedida
  <2>5. \A k \in 1..Len(t) : /\ t[k] = "IO_FIN" => k = 1
                             /\ t[k] = "DESCONEXION" => k = Len(t)
    BY <1>4, <1>6
  <2> QED
    BY <1>1, <1>2, <1>3, <1>6, <2>2, <2>3, <2>4, <2>5
       DEF DispositivoOK, ConectadoOK
<1>8. CASE s[1] = "DESCONEXION"
  <2>1. Len(s) = 1 /\ Len(t) = 0
    BY <1>4, <1>6, <1>8
  <2>2. pc_in'[i] = "DESCONEXION"
    BY <1>2, <1>4, <1>8
  <2>3. UnPedido(i)'
    BY <1>2, <1>5, <1>6, <1>8, <2>1, <2>2, <1>9 DEF UnPedido
  <2>4. Despedida(i)' <=> disp'[i] = "caido"
    BY <1>2, <1>4, <1>6, <1>8, <2>1, <2>2 DEF Despedida
  <2> QED
    BY <1>1, <1>2, <1>3, <1>6, <2>1, <2>2, <2>3, <2>4
       DEF DispositivoOK, ConectadoOK
<1> QED
  BY <1>4, <1>7, <1>8

(* IN handles IO_FIN: the request is over and nobody occupies the device. *)
LEMMA DispositivoInIOFin ==
  ASSUME InterfacesTypeOK, NEW i \in Ifaces, DispositivoOK, InIOFin(i)
  PROVE  DispositivoOK'
<1>1. ASSUME NEW j \in Ifaces \ {i}
      PROVE  IF conectada'[j] THEN ConectadoOK(j)' ELSE DesconectadoOK(j)'
  BY <1>1, OtroDispositivo DEF InIOFin, InterfacesTypeOK, DispositivoOK
<1>2. /\ pc_in'[i] = "lee" /\ occupant'[i] = Nadie /\ occupant[i] # Nadie
      /\ UNCHANGED <<a_disp, de_disp, conectada, disp>>
      /\ pc_in[i] = "IO_FIN"
  BY DEF InIOFin, InterfacesTypeOK
<1>3. conectada[i] /\ ConectadoOK(i)
  BY <1>2 DEF DispositivoOK, DesconectadoOK
<1>4. Len(a_disp[i]) \in Nat
  BY SocketsDisp
<1>5. UnPedido(i)'
  BY <1>2, <1>3, <1>4 DEF ConectadoOK, UnPedido, FinPendiente
<1>6. ConectadoOK(i)'
  BY <1>2, <1>3, <1>5 DEF ConectadoOK, Despedida
<1> QED
  BY <1>1, <1>2, <1>3, <1>6 DEF DispositivoOK

(* IN handles DESCONEXION: the device is gone and nobody occupies it. *)
LEMMA DispositivoInDesconexion ==
  ASSUME InterfacesTypeOK, NEW i \in Ifaces, DispositivoOK, InDesconexion(i)
  PROVE  DispositivoOK'
<1>1. ASSUME NEW j \in Ifaces \ {i}
      PROVE  IF conectada'[j] THEN ConectadoOK(j)' ELSE DesconectadoOK(j)'
  <2>1. UNCHANGED <<conectada[j], pc_in[j], disp[j], occupant[j], a_disp[j],
                    de_disp[j]>>
    BY <1>1 DEF InDesconexion, InterfacesTypeOK
  <2> QED
    BY <1>1, <2>1, OtroDispositivo DEF DispositivoOK
<1>2. /\ pc_in'[i] = "fuera" /\ occupant'[i] = Nadie /\ ~conectada'[i]
      /\ UNCHANGED disp
      /\ pc_in[i] = "DESCONEXION"
  BY DEF InDesconexion, InterfacesTypeOK
<1>3. ConectadoOK(i)
  BY <1>2 DEF DispositivoOK, DesconectadoOK
<1>4. disp[i] = "caido"
  BY <1>2, <1>3 DEF ConectadoOK, Despedida
<1> QED
  BY <1>1, <1>2, <1>4 DEF DispositivoOK, DesconectadoOK

(* OUT sends a request to a device that nobody occupied. *)
LEMMA DispositivoOutEntrega ==
  ASSUME InterfacesTypeOK, NEW i \in Ifaces, DispositivoOK, ManosOut,
         OcupacionExacta, OutEntrega(i)
  PROVE  DispositivoOK'
<1>1. ASSUME NEW j \in Ifaces \ {i}
      PROVE  IF conectada'[j] THEN ConectadoOK(j)' ELSE DesconectadoOK(j)'
  BY <1>1, OtroDispositivo
     DEF OutEntrega, OutConPCB, InterfacesTypeOK, DispositivoOK
<1>2. /\ pid_out[i] \in PID /\ conectada[i]
      /\ occupant'[i] = pid_out[i]
      /\ a_disp'[i] = Append(a_disp[i], pid_out[i])
      /\ UNCHANGED <<de_disp, conectada, disp, pc_in>>
  BY DEF OutEntrega, OutConPCB, InterfacesTypeOK, ManosOut
<1>3. ConectadoOK(i)
  BY <1>2 DEF DispositivoOK
<1>4. occupant[i] = Nadie
  BY SinOcupante DEF OutEntrega, OutConPCB
<1>5. Len(a_disp[i]) = 0 /\ Len(a_disp'[i]) = 1
  <2>1. Len(a_disp[i]) = 0
    BY <1>3, <1>4 DEF ConectadoOK, UnPedido
  <2>2. Len(a_disp'[i]) = Len(a_disp[i]) + 1
    BY <1>2, SocketsDisp, AppendProperties
  <2> QED
    BY <2>1, <2>2
<1>6. UnPedido(i)'
  <2>1. /\ disp[i] # "operando" /\ ~FinPendiente(i) /\ pc_in[i] # "IO_FIN"
    BY <1>3, <1>4 DEF ConectadoOK, UnPedido
  <2>2. ~FinPendiente(i)'
    BY <1>2, <2>1 DEF FinPendiente
  <2>3. occupant'[i] # Nadie
    BY <1>2
  <2> QED
    BY <1>2, <1>5, <2>1, <2>2, <2>3 DEF UnPedido
<1>7. ConectadoOK(i)'
  BY <1>2, <1>3, <1>6 DEF ConectadoOK, Despedida
<1> QED
  BY <1>1, <1>2, <1>7 DEF DispositivoOK

(* The device takes the request that is in the socket... *)
LEMMA DispositivoDispToma ==
  ASSUME InterfacesTypeOK, NEW i \in Ifaces, DispositivoOK, DispToma(i)
  PROVE  DispositivoOK'
<1>1. ASSUME NEW j \in Ifaces \ {i}
      PROVE  IF conectada'[j] THEN ConectadoOK(j)' ELSE DesconectadoOK(j)'
  BY <1>1, OtroDispositivo DEF DispToma, InterfacesTypeOK, DispositivoOK,
         vIface
<1>2. /\ disp[i] = "libre" /\ disp'[i] = "operando" /\ a_disp[i] # <<>>
      /\ a_disp'[i] = Tail(a_disp[i])
      /\ UNCHANGED <<de_disp, conectada, occupant, pc_in>>
  BY DEF DispToma, InterfacesTypeOK
<1>3. conectada[i] /\ ConectadoOK(i)
  BY <1>2 DEF DispositivoOK, DesconectadoOK
<1>4. Len(a_disp[i]) \in Nat \ {0} /\ Len(a_disp'[i]) = Len(a_disp[i]) - 1
  BY <1>2, SocketsDisp, HeadTailProperties, EmptySeq
<1>5. Len(a_disp'[i]) = 0
  BY <1>3, <1>4 DEF ConectadoOK, UnPedido
<1>6. UnPedido(i)'
  <2>1. ~FinPendiente(i) /\ pc_in[i] # "IO_FIN" /\ occupant[i] # Nadie
    BY <1>3, <1>4 DEF ConectadoOK, UnPedido
  <2>2. ~FinPendiente(i)'
    BY <1>2, <2>1 DEF FinPendiente
  <2>3. occupant'[i] # Nadie /\ pc_in'[i] # "IO_FIN"
    BY <1>2, <2>1
  <2>4. ~ (Len(a_disp'[i]) > 0)
    BY <1>5
  <2> QED
    BY <2>2, <2>3, <2>4 DEF UnPedido
<1>7. ConectadoOK(i)'
  BY <1>2, <1>3, <1>6 DEF ConectadoOK, Despedida
<1> QED
  BY <1>1, <1>2, <1>3, <1>7 DEF DispositivoOK

(* ...answers it with IO_FIN... *)
LEMMA DispositivoDispTermina ==
  ASSUME InterfacesTypeOK, NEW i \in Ifaces, DispositivoOK, DispTermina(i)
  PROVE  DispositivoOK'
<1>1. ASSUME NEW j \in Ifaces \ {i}
      PROVE  IF conectada'[j] THEN ConectadoOK(j)' ELSE DesconectadoOK(j)'
  BY <1>1, OtroDispositivo
     DEF DispTermina, InterfacesTypeOK, DispositivoOK, vIface
<1> DEFINE s == de_disp[i]
           t == Append(s, "IO_FIN")
<1>2. /\ disp[i] = "operando" /\ disp'[i] = "libre" /\ de_disp'[i] = t
      /\ UNCHANGED <<a_disp, conectada, occupant, pc_in>>
  BY DEF DispTermina, InterfacesTypeOK
<1>3. conectada[i] /\ ConectadoOK(i)
  BY <1>2 DEF DispositivoOK, DesconectadoOK
<1>4. /\ Len(s) \in Nat /\ Len(t) = Len(s) + 1
      /\ t[Len(s) + 1] = "IO_FIN"
      /\ \A k \in 1..Len(s) : s[k] \in {"IO_FIN", "DESCONEXION"}
  BY SocketsDisp, AppendProperties
<1>5. Len(s) = 0
  <2>1. ~FinPendiente(i) /\ ~Despedida(i)
    BY <1>2, <1>3 DEF ConectadoOK, UnPedido
  <2>2. \A k \in 1..Len(s) : s[k] = "IO_FIN" => k = 1
    BY <1>3 DEF ConectadoOK
  <2>3. Len(s) > 0 => s[Len(s)] = "IO_FIN"
    BY <1>4, <2>1 DEF Despedida
  <2>4. ~ (Len(s) > 0 /\ s[1] = "IO_FIN")
    BY <2>1 DEF FinPendiente
  <2> HIDE DEF s
  <2> QED
    BY <1>4, <2>2, <2>3, <2>4
<1> HIDE DEF s, t
<1>6. /\ Len(t) = 1 /\ t[1] = "IO_FIN"
      /\ \A k \in 1..Len(t) : /\ t[k] = "IO_FIN" => k = 1
                              /\ t[k] = "DESCONEXION" => k = Len(t)
  BY <1>4, <1>5
<1>7. UnPedido(i)'
  BY <1>2, <1>3, <1>6 DEF ConectadoOK, UnPedido, FinPendiente
<1>8. pc_in[i] # "DESCONEXION"
  BY <1>2, <1>3 DEF ConectadoOK, Despedida
<1>9. ConectadoOK(i)'
  BY <1>2, <1>3, <1>6, <1>7, <1>8 DEF ConectadoOK, Despedida
<1> QED
  BY <1>1, <1>2, <1>3, <1>9 DEF DispositivoOK

(* ...or goes away, and says nothing after that. *)
LEMMA DispositivoDispCae ==
  ASSUME InterfacesTypeOK, NEW i \in Ifaces, DispositivoOK, DispCae(i)
  PROVE  DispositivoOK'
<1>1. ASSUME NEW j \in Ifaces \ {i}
      PROVE  IF conectada'[j] THEN ConectadoOK(j)' ELSE DesconectadoOK(j)'
  BY <1>1, OtroDispositivo DEF DispCae, InterfacesTypeOK, DispositivoOK, vIface
<1> DEFINE s == de_disp[i]
           t == Append(s, "DESCONEXION")
<1>2. /\ disp[i] \in {"libre", "operando"} /\ disp'[i] = "caido"
      /\ de_disp'[i] = t
      /\ UNCHANGED <<a_disp, conectada, occupant, pc_in>>
  BY DEF DispCae, InterfacesTypeOK
<1>3. conectada[i] /\ ConectadoOK(i)
  BY <1>2 DEF DispositivoOK, DesconectadoOK
<1>4. /\ Len(s) \in Nat /\ Len(t) = Len(s) + 1
      /\ t[Len(s) + 1] = "DESCONEXION"
      /\ \A k \in 1..Len(s) : t[k] = s[k]
      /\ \A k \in 1..Len(s) : s[k] \in {"IO_FIN", "DESCONEXION"}
  BY SocketsDisp, AppendProperties
<1>5. ~Despedida(i)
  BY <1>2, <1>3 DEF ConectadoOK
<1>6. /\ pc_in[i] # "DESCONEXION"
      /\ \A k \in 1..Len(s) : s[k] = "IO_FIN" => k = 1
      /\ \A k \in 1..Len(s) : s[k] = "DESCONEXION" => k = Len(s)
      /\ Len(s) > 0 => s[Len(s)] # "DESCONEXION"
  BY <1>3, <1>5 DEF ConectadoOK, Despedida
<1>7. FinPendiente(i) <=> Len(s) > 0 /\ s[1] = "IO_FIN"
  BY DEF FinPendiente
<1>8. FinPendiente(i)' <=> Len(t) > 0 /\ t[1] = "IO_FIN"
  BY <1>2 DEF FinPendiente
<1>9. Despedida(i)' <=> Len(t) > 0 /\ t[Len(t)] = "DESCONEXION"
  BY <1>2, <1>6 DEF Despedida
<1> HIDE DEF s, t
<1>10. FinPendiente(i)' <=> FinPendiente(i)
  BY <1>4, <1>7, <1>8
<1>11. /\ \A k \in 1..Len(t) : t[k] = "IO_FIN" => k = 1
       /\ \A k \in 1..Len(t) : t[k] = "DESCONEXION" => k = Len(t)
       /\ Len(t) > 0 /\ t[Len(t)] = "DESCONEXION"
  BY <1>4, <1>6
<1>12. UnPedido(i)'
  BY <1>2, <1>3, <1>10 DEF ConectadoOK, UnPedido
<1>13. ConectadoOK(i)'
  BY <1>2, <1>3, <1>6, <1>9, <1>11, <1>12 DEF ConectadoOK
<1> QED
  BY <1>1, <1>2, <1>3, <1>13 DEF DispositivoOK

(* Every step of the system keeps what is between the kernel and each *)
(* device.                                                            *)
LEMMA DispositivoPaso ==
  ASSUME KInv, DispositivoOK, [Next]_vars
  PROVE  DispositivoOK'
<1>0. InterfacesTypeOK /\ ManosOut /\ OcupacionExacta
  BY DEF KInv
<1>1. CASE DeIfaces
  <2>1. ASSUME NEW i \in Ifaces, InNext(i) PROVE DispositivoOK'
    BY <1>0, <2>1, DispositivoInRecibe, DispositivoInIOFin,
       DispositivoInDesconexion DEF InNext
  <2>2. ASSUME NEW i \in Ifaces, DispNext(i) PROVE DispositivoOK'
    BY <1>0, <2>2, DispositivoConecta, DispositivoDispToma,
       DispositivoDispTermina, DispositivoDispCae DEF DispNext
  <2>3. ASSUME NEW i \in Ifaces, OutNext(i) PROVE DispositivoOK'
    <3>1. CASE OutEntrega(i)
      BY <1>0, <3>1, DispositivoOutEntrega
    <3>2. CASE OutToma(i) \/ OutOcupa(i) \/ OutRechaza(i) \/ OutSaltea(i)
      <4>1. UNCHANGED <<conectada, pc_in, disp, occupant, a_disp, de_disp>>
        BY <3>2 DEF OutToma, OutOcupa, OutRechaza, OutSaltea, OutConPCB
      <4> QED
        BY <4>1, OtroDispositivo DEF DispositivoOK
    <3> QED
      BY <2>3, <3>1, <3>2 DEF OutNext
  <2> QED
    BY <1>1, <2>1, <2>2, <2>3 DEF DeIfaces, InterfacesNext
<1>2. CASE DelCrear \/ DelElim \/ DelPlan \/ DelReloj \/ DeConsola \/ DeCpu
             \/ UNCHANGED vars
  <2>1. UNCHANGED <<vIfaceHilos, conectada>>
    BY <1>2, HuellaReloj, HuellaCpu, HuellaCrear, HuellaElim, HuellaPlan,
       HuellaConsola DEF vars, kernel_vars, vKernelAjeno
  <2> QED
    BY <2>1, OtroDispositivo DEF DispositivoOK
<1> QED
  BY <1>1, <1>2 DEF Next

(* At the start every device is off and nothing has been sent. *)
LEMMA DispositivoInit == Init => DispositivoOK
  BY DEF Init, KernelInit, InterfacesInit, DispositivoOK, DesconectadoOK

(* IN never handles an IO_FIN without an occupant, whose PCB it would       *)
(* dereference (interfaces.c:44): the device answers once per request and   *)
(* the occupant stays until the answer.                                     *)
THEOREM OcupanteEnFinSiempre == Spec => []OcupanteEnFin
<1>1. KInv /\ DispositivoOK => OcupanteEnFin
  BY DEF OcupanteEnFin, DispositivoOK, ConectadoOK, DesconectadoOK, UnPedido
<1>2. KInv /\ DispositivoOK /\ [Next]_vars => DispositivoOK'
  BY DispositivoPaso
<1> QED
  BY <1>1, <1>2, DispositivoInit, KernelInvSiempre, PTL DEF Spec

=============================================================================
