-------------------------- MODULE MaquinasPrivadas --------------------------
(***************************************************************************)
(* What the kernel and the CPU promise to a program: registers of its own, *)
(* of two widths, on which its instructions work one after the other with  *)
(* the arithmetic of the integers modulo the width, whoever runs in        *)
(* between, until it ends.                                                 *)
(***************************************************************************)
EXTENDS Integers

CONSTANTS Programas, RegByte, RegInt, BitsByte, BitsInt, Inmediatos

VARIABLES
    maquina,  \* the registers of each program, PC among them
    activos   \* the programs that have not ended

Nombres8y32 == RegByte \union RegInt
Ancho(r) == IF r \in RegByte THEN 2^BitsByte ELSE 2^BitsInt

(* A register read as a number with sign. *)
ConSigno(r, v) == IF 2 * v >= Ancho(r) THEN v - Ancho(r) ELSE v

EnCero == [r \in Nombres8y32 |-> 0]

MaqInit ==
    /\ maquina = [p \in Programas |-> EnCero]
    /\ activos = Programas

(* r becomes n, modulo its width, and then the PC goes on. *)
Queda(regs, r, n) ==
    LET hecho == [regs EXCEPT ![r] = n % Ancho(r)]
    IN [hecho EXCEPT !["PC"] = (@ + 1) % Ancho("PC")]

(* Where each instruction leads from the registers regs, whatever its      *)
(* operands are.                                                           *)
SET(regs) == {Queda(regs, r, n) : r \in Nombres8y32, n \in Inmediatos}

(* A register that holds 0 gets the operand; the others stay as they are.  *)
JNZ(regs) ==
    {Queda(regs, r, IF regs[r] = 0 THEN n ELSE regs[r]) :
        r \in Nombres8y32, n \in Inmediatos}

SUM(regs) ==
    {Queda(regs, d, regs[d] + ConSigno(o, regs[o])) : d, o \in Nombres8y32}

SUB(regs) ==
    {Queda(regs, d, regs[d] - ConSigno(o, regs[o])) : d, o \in Nombres8y32}

Siguientes(regs) == SET(regs) \union JNZ(regs) \union SUM(regs) \union SUB(regs)

Instruccion(p) ==
    /\ \E regs \in Siguientes(maquina[p]) : maquina' = [maquina EXCEPT ![p] = regs]
    /\ UNCHANGED activos

(* A program that has ended has no registers any more. *)
Finaliza(p) ==
    /\ maquina' = [maquina EXCEPT ![p] = EnCero]
    /\ activos' = activos \ {p}

MaqNext == \E p \in activos : Instruccion(p) \/ Finaliza(p)

MaqSpec == MaqInit /\ [][MaqNext]_<<maquina, activos>>

=============================================================================
