------------------------------- MODULE Kernel -------------------------------
(***************************************************************************)
(* The kernel with its threads, the CPU it dispatches to and the devices   *)
(* that connect to it.                                                     *)
(***************************************************************************)
EXTENDS LargoPlazo, CortoPlazo, Consola, Interfaces, Cpu

vars == <<kernel_vars, fines, vIfaceHilos, cpu_vars>>

Init == KernelInit /\ ConsolaInit /\ InterfacesInit /\ CpuInit

DelCrear  == CrearNext /\ UNCHANGED <<fines, vIfaceHilos, cpu_vars>>
DelElim   == ElimNext /\ UNCHANGED <<fines, vIfaceHilos, cpu_vars>>
DelPlan   == PlanNext /\ UNCHANGED <<fines, vIfaceHilos, cpu_vars>>
DelReloj  == VenceQuantum /\ UNCHANGED <<fines, vIfaceHilos, cpu_vars>>
DeConsola == ConsolaNext /\ UNCHANGED <<vIfaceHilos, cpu_vars>>
DeIfaces  == InterfacesNext /\ UNCHANGED <<fines, cpu_vars>>
DeCpu     == CpuNext /\ UNCHANGED <<fines, vIfaceHilos>>

Next == DelCrear \/ DelElim \/ DelPlan \/ DelReloj \/ DeConsola \/ DeIfaces
          \/ DeCpu

Spec == Init /\ [][Next]_vars

-----------------------------------------------------------------------------
(***************************************************************************)
(* Fairness.  Every thread of the kernel and of the CPU is a loop that the *)
(* operating system goes on running.  The quantum thread wakes up some     *)
(* day.  A program is finite: a process that is in the CPU again and again *)
(* gets to its EXIT.  A device that has work does it.  Nobody has to give  *)
(* a command, connect a device or take one away.                           *)
(***************************************************************************)
CpuAvanza ==
    /\ CpuTope \/ CpuRecibe \/ CpuSaleDelCiclo \/ CpuDevuelve
    /\ UNCHANGED <<fines, vIfaceHilos>>

CpuAtiende == CpuInterrupcion /\ UNCHANGED <<fines, vIfaceHilos>>

LlegaAlFin(p) ==
    cpu_pid = p /\ CpuExit /\ UNCHANGED <<fines, vIfaceHilos>>

EquidadIface(i) ==
    /\ WF_vars(InNext(i) /\ UNCHANGED <<fines, cpu_vars>>)
    /\ WF_vars(OutNext(i) /\ UNCHANGED <<fines, cpu_vars>>)
    /\ WF_vars((DispToma(i) \/ DispTermina(i)) /\ UNCHANGED <<fines, cpu_vars>>)

Equidad ==
    /\ WF_vars(DelCrear) /\ WF_vars(DelElim) /\ WF_vars(DelPlan)
    /\ WF_vars(DelReloj) /\ WF_vars(CpuAvanza) /\ WF_vars(CpuAtiende)
    /\ \A p \in PID : SF_vars(LlegaAlFin(p))
    /\ \A i \in Ifaces : EquidadIface(i)

SpecJusta == Spec /\ Equidad

=============================================================================
