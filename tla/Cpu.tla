-------------------------------- MODULE Cpu --------------------------------
(***************************************************************************)
(* The CPU at the other end of the dispatch and interrupt sockets          *)
(* (cpu/src/cpu.c and the loop of cpu/src/instruction_processor.c): the    *)
(* main thread runs a process while the global variable interrupt is 1,    *)
(* and a second thread sets it to 0 for every INTERRUPCION, whatever the   *)
(* main thread is doing.                                                   *)
(*                                                                         *)
(* The program of a process is any sequence of instructions with at most   *)
(* MaxSyscalls system calls.                                               *)
(***************************************************************************)
EXTENDS KernelEstado

CONSTANTS
    MaxSyscalls,    \* bound on the system calls of a process
    Instrucciones,  \* what programs are made of: NORMAL, WAIT, SIGNAL, IO,
                    \* IO_NO_ADMITIDA, RECURSO_AJENO, EXIT, SIN_MEMORIA, FIN
    SenalLibre      \* may a program SIGNAL what it does not hold?

ASSUME CpuAssumption == MaxSyscalls \in Nat /\ SenalLibre \in BOOLEAN

VARIABLES
    cpu_pc,       \* "tope", "recibe", "ciclo" or "devuelve"
    cpu_pid,      \* contexto.PID
    cpu_motivo,   \* contexto.motivo
    cpu_io,       \* paquete_a_kernel_io
    interrupt,    \* the variable of cpu.c
    restan        \* system calls each program has left

cpu_vars == <<cpu_pc, cpu_pid, cpu_motivo, cpu_io, interrupt, restan>>

(* What the CPU does not touch. *)
vKernelAjeno == <<vPCB, mx_PCB, vNew, vReady, vExit, vProg, vPausa, vRec,
                  mx_recurso, vIface, memoria, pc, actual, otro, vElim, vPlan>>

CpuInit ==
    /\ cpu_pc = "tope"
    /\ cpu_pid = Nadie
    /\ cpu_motivo = "NONE"
    /\ cpu_io = SinPaquete
    /\ interrupt = 1
    /\ restan = [p \in PID |-> MaxSyscalls]

-----------------------------------------------------------------------------
(* interrupt = 1, at the top of the main loop *)
CpuTope ==
    /\ cpu_pc = "tope"
    /\ interrupt' = 1
    /\ cpu_pc' = "recibe"
    /\ UNCHANGED <<vKernelAjeno, vCpu, cpu_pid, cpu_motivo, cpu_io, restan>>

(* EJECUTAR_PROCESO: the motivo of the new context is NONE. *)
CpuRecibe ==
    /\ cpu_pc = "recibe"
    /\ a_cpu # <<>>
    /\ a_cpu' = Tail(a_cpu)
    /\ cpu_pid' = Head(a_cpu)
    /\ cpu_motivo' = "NONE"
    /\ cpu_pc' = "ciclo"
    /\ UNCHANGED <<vKernelAjeno, de_cpu, irq, cpu_io, interrupt, restan>>

(* The while(interrupt) of instruction_process, with interrupt still 1. *)
CpuEjecuta(instruccion) ==
    /\ cpu_pc = "ciclo"
    /\ interrupt = 1
    /\ instruccion \in Instrucciones
    /\ UNCHANGED <<vKernelAjeno, vCpu, cpu_pid>>

(* instruction_execute of an instruction that leaves the loop running. *)
CpuNormal ==
    /\ CpuEjecuta("NORMAL")
    /\ cpu_motivo' = "INTERRUPT"
    /\ UNCHANGED <<cpu_pc, cpu_io, interrupt, restan>>

(* EXIT, or a RESIZE or a write that memoria refuses. *)
CpuCorta(instruccion, motivo) ==
    /\ CpuEjecuta(instruccion)
    /\ cpu_motivo' = motivo
    /\ interrupt' = 0
    /\ UNCHANGED <<cpu_pc, cpu_io, restan>>

CpuExit == CpuCorta("EXIT", "END")
CpuSinMemoria == CpuCorta("SIN_MEMORIA", "OUT_OF_MEMORY")

(* WAIT, SIGNAL and the I/O instructions. *)
CpuSyscall(instruccion, m) ==
    /\ CpuEjecuta(instruccion)
    /\ restan[cpu_pid] > 0
    /\ restan' = [restan EXCEPT ![cpu_pid] = @ - 1]
    /\ cpu_motivo' = "CPU_IO"
    /\ cpu_io' = m
    /\ interrupt' = 0
    /\ UNCHANGED cpu_pc

CpuWait == \E r \in Recursos :
    CpuSyscall("WAIT", Syscall("WAIT", cpu_pid, r))

CpuSignal == \E r \in Recursos :
    /\ CpuSyscall("SIGNAL", Syscall("SIGNAL", cpu_pid, r))
    /\ SenalLibre \/ asignados[cpu_pid][r] > 0
    /\ instancias[r] < MaxInstancias

CpuRecursoAjeno == \E op \in OpsRecurso :
    CpuSyscall("RECURSO_AJENO", Syscall(op, cpu_pid, 0))

CpuIO == \E op \in OpsIO, i \in Ifaces : CpuSyscall(op, Syscall(op, cpu_pid, i))

(* memoria has no instruction at this PC: the loop ends with the motivo of *)
(* the last instruction executed, NONE if there was none.                  *)
CpuSinInstruccion ==
    /\ CpuEjecuta("FIN")
    /\ cpu_pc' = "devuelve"
    /\ UNCHANGED <<cpu_motivo, cpu_io, interrupt, restan>>

(* interrupt is 0 when the loop looks at it. *)
CpuSaleDelCiclo ==
    /\ cpu_pc = "ciclo"
    /\ interrupt = 0
    /\ cpu_pc' = "devuelve"
    /\ UNCHANGED <<vKernelAjeno, vCpu, cpu_pid, cpu_motivo, cpu_io, interrupt, restan>>

(* Mutant: the packet of the system call is not cleared. *)
CpuDevuelveDeNuevo ==
    /\ cpu_pc = "devuelve"
    /\ de_cpu' = de_cpu \o
                   (IF cpu_io = SinPaquete
                    THEN <<Devolucion(cpu_pid, cpu_motivo)>>
                    ELSE <<Devolucion(cpu_pid, cpu_motivo), cpu_io>>)
    /\ cpu_pid' = Nadie
    /\ cpu_motivo' = "NONE"
    /\ cpu_pc' = "tope"
    /\ UNCHANGED <<vKernelAjeno, a_cpu, irq, interrupt, cpu_io, restan>>

(* DEVOLUCION_PCB, and the system call behind it in the same socket. *)
CpuDevuelve ==
    /\ cpu_pc = "devuelve"
    /\ de_cpu' = de_cpu \o
                   (IF cpu_io = SinPaquete
                    THEN <<Devolucion(cpu_pid, cpu_motivo)>>
                    ELSE <<Devolucion(cpu_pid, cpu_motivo), cpu_io>>)
    /\ cpu_pid' = Nadie
    /\ cpu_motivo' = "NONE"
    /\ cpu_io' = SinPaquete
    /\ cpu_pc' = "tope"
    /\ UNCHANGED <<vKernelAjeno, a_cpu, irq, interrupt, restan>>

(* The interrupt thread: INTERRUPCION. *)
CpuInterrupcion ==
    /\ irq > 0
    /\ irq' = irq - 1
    /\ interrupt' = 0
    /\ UNCHANGED <<vKernelAjeno, a_cpu, de_cpu, cpu_pc, cpu_pid, cpu_motivo,
                   cpu_io, restan>>

CpuNext == \/ CpuTope \/ CpuRecibe
           \/ CpuNormal \/ CpuExit \/ CpuSinMemoria
           \/ CpuWait \/ CpuSignal \/ CpuRecursoAjeno \/ CpuIO
           \/ CpuSinInstruccion \/ CpuSaleDelCiclo
           \/ CpuDevuelve \/ CpuInterrupcion

=============================================================================
