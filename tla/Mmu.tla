--------------------------------- MODULE Mmu ---------------------------------
(***************************************************************************)
(* The MMU of the CPU (cpu/src/mmu.c): how a logical access is cut at page *)
(* boundaries, and the TLB.  The TLB is a list searched from its head;     *)
(* FIFO and LRU both drop the head, LRU moves what it finds to the end.    *)
(* RESIZE and the end of a process leave it as it is.                      *)
(***************************************************************************)
EXTENDS Paginacion

VARIABLES
    config,  \* the cpu.config of the run: cantidad_entradas_tlb, algoritmo_tlb
    tlb      \* tlb.l_registro_tlb

mmu_vars == <<config, tlb>>

RegistrosTLB == [pid : PID, pagina : Nat, marco : Marcos]

-----------------------------------------------------------------------------
(* convertirDL *)
Pagina(dl) == dl \div TamPagina
Desplazamiento(dl) == dl % TamPagina

(* The bytes the next turn of listaDireccionesFisicas takes. *)
TamFragmento(dl, resta) ==
    LET disponible == TamPagina - Desplazamiento(dl) IN
    IF disponible < resta THEN disponible ELSE resta

-----------------------------------------------------------------------------
(* Mutant: the pid of the entry is not compared. *)
EntradasSinPid(p, pagina) == {k \in 1..Len(tlb) : tlb[k].pagina = pagina}

(* marcoEncontrado *)
Entradas(p, pagina) ==
    {k \in 1..Len(tlb) : tlb[k].pid = p /\ tlb[k].pagina = pagina}

(* consultar_TLB, on a hit *)
ConsultarTLB(p, pagina) ==
    LET k == Min(Entradas(p, pagina)) IN
    tlb' = IF config.algoritmo_tlb = "LRU"
           THEN Append(RemoveAt(tlb, k), tlb[k]) ELSE tlb

(* Mutant: the TLB grows for ever. *)
AgregarTLBSinLugar(p, pagina, marco) ==
    tlb' = Append(tlb, [pid |-> p, pagina |-> pagina, marco |-> marco])

(* agregar_TLB *)
AgregarTLB(p, pagina, marco) ==
    LET registro == [pid |-> p, pagina |-> pagina, marco |-> marco]
        lleno == Len(tlb) = config.cantidad_entradas_tlb IN
    tlb' = Append(IF lleno THEN Tail(tlb) ELSE tlb, registro)

(***************************************************************************)
(* solicitar_marco: the frame, and what the search does to the TLB.  On a  *)
(* miss ACCESO_TABLA_PAGINAS asks memoria for the frame of the page; the   *)
(* answer -1 is given back and not put in the TLB.                         *)
(***************************************************************************)
SolicitarMarco(p, pagina, marco) ==
    \/ /\ Entradas(p, pagina) # {}
       /\ marco = tlb[Min(Entradas(p, pagina))].marco
       /\ ConsultarTLB(p, pagina)
    \/ /\ Entradas(p, pagina) = {}
       /\ marco = ObtenerMarcoPagina(p, pagina)
       /\ IF marco # SinMarco /\ config.cantidad_entradas_tlb > 0
          THEN AgregarTLB(p, pagina, marco) ELSE UNCHANGED tlb

=============================================================================
