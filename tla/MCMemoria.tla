------------------------------ MODULE MCMemoria ------------------------------
(***************************************************************************)
(* SistemaMemoria for TLC.                                                 *)
(***************************************************************************)
EXTENDS MemoriaPropiedades, TLC

Config(entradas, algoritmo, dispositivo, achica, ajusta_con_io) ==
    [cantidad_entradas_tlb |-> entradas, algoritmo_tlb |-> algoritmo,
     dispositivo |-> dispositivo, achica |-> achica, ajusta_con_io |-> ajusta_con_io]

(* The combinations in which memory stays private. *)
ConfigsSeguras ==
    {Config(0, "FIFO", "STDOUT", TRUE, TRUE),
     Config(2, "LRU", "STDOUT", FALSE, TRUE),
     Config(1, "FIFO", "STDIN", FALSE, FALSE)}

(* A TLB and programs that give memory back. *)
ConfigsTLB == {Config(2, "FIFO", "STDOUT", TRUE, TRUE)}

(* A RESIZE while a device writes. *)
ConfigsSTDIN == {Config(0, "FIFO", "STDIN", TRUE, TRUE)}

MemSimetria == Permutations(PID)

=============================================================================
