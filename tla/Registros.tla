----------------------------- MODULE Registros -----------------------------
(***************************************************************************)
(* The registers of a process on their way between the PCB of the kernel   *)
(* (ejecutar_proceso, actualizar_contexto), the packets of the dispatch    *)
(* socket (serialize.c, deserialize.c) and the global variable contexto of *)
(* the CPU, and the instructions that change them there                    *)
(* (instruction_processor.c, registrosCpu.c).  A process that is killed    *)
(* while it runs leaves a packet in the socket, and the answers that come  *)
(* after it are those of other processes.                                  *)
(*                                                                         *)
(* A register is kept as its unsigned value; RegByte stands for AX..DX and *)
(* RegInt for PC, EAX..EDX, SI and DI, with BitsByte for 8 and BitsInt for *)
(* 32.  A MOV_IN is the SET it ends with.                                  *)
(***************************************************************************)
EXTENDS Integers, Sequences

CONSTANTS
    Programas,          \* the processes
    Nadie,
    RegByte, RegInt,    \* the names of the registers
    BitsByte, BitsInt,
    Inmediatos,         \* the numbers in programs (atoi) or read by MOV_IN
    MaxEjecutadas       \* bound: instructions in a behaviour

ASSUME RegistrosAssumption ==
    /\ BitsByte \in Nat /\ BitsInt \in Nat /\ 0 < BitsByte /\ BitsByte <= BitsInt
    /\ "PC" \in RegInt /\ RegByte \intersect RegInt = {}
    /\ Nadie \notin Programas
    /\ Inmediatos \subseteq Int /\ MaxEjecutadas \in Nat

VARIABLES
    registro_cpu,  \* PCB->registro_cpu
    vivos,         \* the processes that are not in EXIT
    en_exec,       \* the process whose answer the planificador waits for
    despachado,    \* the EJECUTAR_PROCESO packets on their way to the CPU
    devuelto,      \* the packets on their way back
    en_cpu,        \* contexto.PID
    registros,     \* contexto.registros
    ejecutadas     \* instructions executed so far

reg_vars == <<registro_cpu, vivos, en_exec, despachado, devuelto,
              en_cpu, registros, ejecutadas>>

NombresReg == RegByte \union RegInt
Bits(r) == IF r \in RegByte THEN BitsByte ELSE BitsInt

RegInit ==
    /\ registro_cpu = [p \in Programas |-> [r \in NombresReg |-> 0]]
    /\ vivos = Programas
    /\ en_exec = Nadie
    /\ despachado = <<>>
    /\ devuelto = <<>>
    /\ en_cpu = Nadie
    /\ registros = [r \in NombresReg |-> 0]
    /\ ejecutadas = 0

(* What buffer_add_t_contexto puts in a packet, field by field. *)
Contexto(p, regs) == [pid |-> p, registros |-> regs]

-----------------------------------------------------------------------------
(* Casts *)

(* (uint8_t) and (uint32_t): the low bits *)
Trunca(v, r) == v % 2^Bits(r)

(* Mutant: the byte is taken without its sign. *)
ExtiendeConCeros(v) == v

(* A byte read through an int8_t pointer and then made a uint32_t: its     *)
(* sign goes to all the upper bits.                                        *)
ExtiendeSigno(v) ==
    IF v < 2^(BitsByte - 1) THEN v ELSE v + 2^BitsInt - 2^BitsByte

(* The origin of SUM and SUB as an operand of the width of the destination. *)
Operando(d, o) ==
    IF d \in RegInt /\ o \in RegByte THEN ExtiendeSigno(registros[o])
    ELSE Trunca(registros[o], d)

-----------------------------------------------------------------------------
(* The CPU: the registers an instruction leaves... *)

SET(r, valor) == [registros EXCEPT ![r] = Trunca(valor, r)]

SUM(d, o) == SET(d, registros[d] + Operando(d, o))

SUB(d, o) == SET(d, registros[d] - Operando(d, o))

(* The register itself, when it is zero, gets the number.  The comment of  *)
(* instruction_processor.h tells of a jump when it is not.                 *)
JNZ(r, instruccion) ==
    IF registros[r] = 0 THEN SET(r, instruccion) ELSE registros

(* ...and the INCREMENTAR_PC that ends instruction_execute. *)
InstructionExecute(regs) ==
    /\ en_cpu # Nadie
    /\ ejecutadas < MaxEjecutadas
    /\ ejecutadas' = ejecutadas + 1
    /\ registros' = [regs EXCEPT !["PC"] = Trunca(@ + 1, "PC")]
    /\ UNCHANGED <<registro_cpu, vivos, en_exec, despachado, devuelto, en_cpu>>

Ejecuta ==
    \/ \E r \in NombresReg, n \in Inmediatos :
           InstructionExecute(SET(r, n)) \/ InstructionExecute(JNZ(r, n))
    \/ \E d, o \in NombresReg :
           InstructionExecute(SUM(d, o)) \/ InstructionExecute(SUB(d, o))

(* instruction_process takes the context of the packet... *)
TomaContexto ==
    /\ en_cpu = Nadie
    /\ despachado # <<>>
    /\ en_cpu' = Head(despachado).pid
    /\ registros' = Head(despachado).registros
    /\ despachado' = Tail(despachado)
    /\ UNCHANGED <<registro_cpu, vivos, en_exec, devuelto, ejecutadas>>

Devolucion(p, regs, io) ==
    [op |-> "DEVOLUCION_PCB", io |-> io, pid |-> p, registros |-> regs]
Syscall == [op |-> "SYSCALL"]

(* ...and gives it back, with a second packet when it is a system call.    *)
DevuelveContexto ==
    /\ en_cpu # Nadie
    /\ \E io \in BOOLEAN :
        devuelto' = devuelto \o <<Devolucion(en_cpu, registros, io)>>
                             \o (IF io THEN <<Syscall>> ELSE <<>>)
    /\ en_cpu' = Nadie
    /\ UNCHANGED <<registro_cpu, vivos, en_exec, despachado, registros, ejecutadas>>

-----------------------------------------------------------------------------
(* The kernel *)

EjecutarProceso(p) ==
    /\ en_exec = Nadie
    /\ p \in vivos
    /\ en_exec' = p
    /\ despachado' = Append(despachado, Contexto(p, registro_cpu[p]))
    /\ UNCHANGED <<registro_cpu, vivos, devuelto, en_cpu, registros, ejecutadas>>

(* FINALIZAR_PROCESO, in any state of the process. *)
FinalizarProceso(p) ==
    /\ p \in vivos
    /\ vivos' = vivos \ {p}
    /\ UNCHANGED <<registro_cpu, en_exec, despachado, devuelto,
                   en_cpu, registros, ejecutadas>>

(* Mutant: the PID of the answer is not compared. *)
EsRespuestaDeCualquiera(paquete) == paquete.op = "DEVOLUCION_PCB"

(* The two tests of actualizar_contexto that end in "Devolucion de CPU     *)
(* invalida".                                                              *)
EsRespuesta(paquete) == paquete.op = "DEVOLUCION_PCB" /\ paquete.pid = en_exec

(* actualizar_contexto; atender_syscall reads the packet that follows. *)
ActualizarContexto ==
    /\ en_exec # Nadie
    /\ devuelto # <<>>
    /\ LET paquete == Head(devuelto) IN
       IF en_exec \in vivos /\ EsRespuesta(paquete)
       THEN /\ registro_cpu' = [registro_cpu EXCEPT ![en_exec] = paquete.registros]
            /\ devuelto' = IF paquete.io THEN Tail(Tail(devuelto)) ELSE Tail(devuelto)
            /\ UNCHANGED vivos
       ELSE /\ vivos' = vivos \ {en_exec}
            /\ devuelto' = Tail(devuelto)
            /\ UNCHANGED registro_cpu
    /\ en_exec' = Nadie
    /\ UNCHANGED <<despachado, en_cpu, registros, ejecutadas>>

RegNext ==
    \/ \E p \in Programas : EjecutarProceso(p) \/ FinalizarProceso(p)
    \/ TomaContexto \/ Ejecuta \/ DevuelveContexto
    \/ ActualizarContexto

RegSpec == RegInit /\ [][RegNext]_reg_vars

-----------------------------------------------------------------------------
Registros8y32 == [NombresReg -> 0..(2^BitsInt - 1)]

RegTypeOK ==
    /\ registro_cpu \in [Programas -> Registros8y32]
    /\ vivos \subseteq Programas
    /\ {en_exec, en_cpu} \subseteq Programas \union {Nadie}
    /\ \A k \in DOMAIN despachado : despachado[k].registros \in Registros8y32
    /\ \A k \in DOMAIN devuelto :
           devuelto[k] = Syscall \/ devuelto[k].registros \in Registros8y32
    /\ registros \in Registros8y32
    /\ \A r \in RegByte : registros[r] < 2^BitsByte
    /\ ejecutadas \in 0..MaxEjecutadas

(* The registers of a process are in the CPU, in a packet or in its PCB. *)
Actuales(p) ==
    IF p = en_cpu THEN registros
    ELSE LET enViaje ==
               {despachado[k].registros : k \in
                   {k \in DOMAIN despachado : despachado[k].pid = p}} \union
               {devuelto[k].registros : k \in
                   {k \in DOMAIN devuelto :
                       devuelto[k].op = "DEVOLUCION_PCB" /\ devuelto[k].pid = p}}
         IN IF enViaje = {} THEN registro_cpu[p] ELSE CHOOSE regs \in enViaje : TRUE

Maquinas == INSTANCE MaquinasPrivadas WITH
    maquina <- [p \in Programas |->
                   IF p \in vivos THEN Actuales(p) ELSE [r \in NombresReg |-> 0]],
    activos <- vivos

(***************************************************************************)
(* Dispatches, answers out of step after a kill, and casts together give   *)
(* each process a machine of its own: as long as it lives it goes on with  *)
(* the registers it had, and SUM and SUB are additions and subtractions of *)
(* numbers with sign whatever the widths.                                  *)
(***************************************************************************)
RegistrosPrivados == Maquinas!MaqSpec

=============================================================================
