------------------------- MODULE MemoriaPropiedades -------------------------
(***************************************************************************)
(* What has to be true of CPU, memoria and device together.                *)
(***************************************************************************)
EXTENDS SistemaMemoria

Paginas(p) == 1..Len(tabla[p])

(* A frame belongs to one page of one process: asignar_pagina_a_marco and  *)
(* reducir_tam_proceso keep the tables apart over any sequence of RESIZEs, *)
(* when no device write overlaps one.  The byte of the bitmap such a write *)
(* puts back may free a frame in use, which the next RESIZE takes again.   *)
TablasDisjuntas ==
    \A p, q \in PID : \A i \in Paginas(p), j \in Paginas(q) :
        tabla[p][i] = tabla[q][j] => p = q /\ i = j

(* "Marcar el marco como ocupado": the frame of every page has its bit set *)
(* (paginacion.c).                                                         *)
MarcosMarcados == \A p \in PID : \A i \in Paginas(p) : tabla[p][i] \in ocupados

Vale(p, f) ==
    /\ Pagina(f.dl) < Len(tabla[p])
    /\ f.df = tabla[p][Pagina(f.dl) + 1] * TamPagina + Desplazamiento(f.dl)
    /\ Desplazamiento(f.dl) + f.tam <= TamPagina

(***************************************************************************)
(* A physical address that the CPU or the device still has to use is the   *)
(* one the page table gives now for the logical address it came from, and  *)
(* does not leave its page; nor does the TLB keep a frame that is not the  *)
(* one "correspondiente a la pagina" (mmu.c and the queues of a device).   *)
(***************************************************************************)
TraduccionVigente ==
    /\ "dfs" \in DOMAIN acceso =>
           \A k \in 1..Len(acceso.dfs) : Vale(corre, acceso.dfs[k])
    /\ \A i \in 1..Len(cola_io) : \A k \in 1..Len(cola_io[i].dfs) :
           Vale(cola_io[i].pid, cola_io[i].dfs[k])
    /\ \A k \in 1..Len(tlb) : LET r == tlb[k] IN
           r.pagina < Len(tabla[r.pid]) => r.marco = tabla[r.pid][r.pagina + 1]

(* RESIZE grants all the pages or none: the frames counted by              *)
(* hay_n_marcos_disponibles are still there when they are taken.           *)
ResizeTodoONada ==
    acceso.op = "RESIZE" =>
        Cardinality(Libres) >= acceso.paginas - Len(tabla[corre])

-----------------------------------------------------------------------------
(* The memory of a process as its program sees it. *)
EspacioDe(p) ==
    [k \in 1..Tamanio(p) |->
        fisica[tabla[p][Pagina(k - 1) + 1] * TamPagina + Desplazamiento(k - 1)]]

(* What MOV_IN and COPY_STRING have read is what the process holds at those *)
(* addresses, up to the zeros that cut the reply of memoria (leerMemoria).  *)
LecturaPropia ==
    acceso.op \in Lectoras =>
        \A k \in 1..Len(acceso.dato) :
            \/ acceso.dato[k] = EspacioDe(corre)[acceso.inicio + k]
            \/ /\ acceso.dato[k] = 0
               /\ \E j \in 1..(k - 1) : EspacioDe(corre)[acceso.inicio + j] = 0

(* The writes that are in course, of the CPU and of a STDIN device. *)
PedidoCPU ==
    [d \in acceso.inicio..(acceso.inicio + Len(acceso.dato) - 1) |->
        acceso.dato[d - acceso.inicio + 1]]

PedidoDisp ==
    LET dfs == Head(cola_io).dfs
        resto == IF escrito = SinMarca THEN dfs ELSE Tail(dfs)
        dl == resto[1].dl
    IN [d \in dl..(dl + Len(teclado) - 1) |-> teclado[d - dl + 1]]

PedidoDe(p) ==
    IF corre = p /\ acceso.op \in Escritoras THEN PedidoCPU
    ELSE IF teclado # <<>> /\ Head(cola_io).pid = p THEN PedidoDisp
    ELSE <<>>

Privado == INSTANCE EspacioPrivado WITH
    espacio <- [p \in PID |-> EspacioDe(p)],
    pedido <- [p \in PID |-> PedidoDe(p)]

(* Paging, MMU and devices together implement private memories: a write    *)
(* lands where the program asked, in its own memory and in no other.       *)
EspaciosPrivados == Privado!EPSpec

=============================================================================
