--------------------------- MODULE EspacioPrivado ---------------------------
(***************************************************************************)
(* What memoria and the MMU promise a program, without frames, pages or    *)
(* TLB: each process has a memory of its own, addressed from 0, that only  *)
(* changes where and to what that process, or the device that works for    *)
(* it, asked; no step touches the memory of two processes.                 *)
(***************************************************************************)
EXTENDS Integers, Sequences

CONSTANTS PID, Bytes

VARIABLES
    espacio,  \* the bytes of each process
    pedido    \* the writes in course: the byte asked for at each address

EPInit ==
    /\ espacio = [p \in PID |-> <<>>]
    /\ pedido = [p \in PID |-> <<>>]

Direccion(p) == 0..(Len(espacio[p]) - 1)

(* A write begins: some addresses of p, and a byte for each. *)
Pide(p) ==
    /\ DOMAIN pedido[p] = {}
    /\ \E ds \in SUBSET Direccion(p) : \E w \in [ds -> Bytes] :
           pedido' = [pedido EXCEPT ![p] = w]
    /\ UNCHANGED espacio

(* Part of a write reaches memory. *)
Escribe(p) ==
    \E ds \in SUBSET DOMAIN pedido[p] :
        /\ espacio' = [espacio EXCEPT ![p] =
               [k \in 1..Len(@) |-> IF k - 1 \in ds THEN pedido[p][k - 1] ELSE @[k]]]
        /\ pedido' = [pedido EXCEPT ![p] = [d \in DOMAIN @ \ ds |-> @[d]]]

(* A change of size keeps what stays; new memory may hold anything. *)
Ajusta(p) ==
    /\ DOMAIN pedido[p] = {}
    /\ DOMAIN espacio' = PID
    /\ LET viejo == espacio[p]
           nuevo == espacio'[p]
       IN \A k \in 1..Len(viejo) : k <= Len(nuevo) => nuevo[k] = viejo[k]
    /\ \A q \in PID \ {p} : espacio'[q] = espacio[q]
    /\ UNCHANGED pedido

EPNext == \E p \in PID : Pide(p) \/ Escribe(p) \/ Ajusta(p)

EPSpec == EPInit /\ [][EPNext]_<<espacio, pedido>>

=============================================================================
