-------------------------- MODULE ControlAdmision --------------------------
(***************************************************************************)
(* What multiprogramacion.c promises to the rest of the kernel, without    *)
(* tokens or retries: a request is admitted only into a free slot, and a   *)
(* request that keeps seeing a free slot is admitted.                      *)
(***************************************************************************)
EXTENDS Integers

CONSTANTS GradoInicial, Grados

VARIABLES
    ocupadas,   \* slots in use
    grado,      \* the current limit
    pedido      \* "no", "pendiente" or "admitido"

ca_vars == <<ocupadas, grado, pedido>>

CAInit ==
    /\ ocupadas = 0
    /\ grado = GradoInicial
    /\ pedido = "no"

Pedir ==
    /\ pedido = "no"
    /\ pedido' = "pendiente"
    /\ UNCHANGED <<ocupadas, grado>>

Admitir ==
    /\ pedido = "pendiente"
    /\ ocupadas < grado
    /\ ocupadas' = ocupadas + 1
    /\ pedido' = "admitido"
    /\ UNCHANGED grado

Liberar ==
    /\ ocupadas > 0
    /\ ocupadas' = ocupadas - 1
    /\ \/ UNCHANGED pedido
       \/ pedido = "admitido" /\ pedido' = "no"
    /\ UNCHANGED grado

Seguir ==
    /\ pedido = "admitido"
    /\ pedido' = "no"
    /\ UNCHANGED <<ocupadas, grado>>

Limitar ==
    /\ grado' \in Grados
    /\ UNCHANGED <<ocupadas, pedido>>

CANext == Pedir \/ Admitir \/ Liberar \/ Seguir \/ Limitar

CASpec == CAInit /\ [][CANext]_ca_vars /\ WF_ca_vars(Admitir)

=============================================================================
