------------------------- MODULE Multiprogramacion -------------------------
(***************************************************************************)
(* The degree of multiprogramming of the kernel                            *)
(* (kernel/src/multiprogramacion.c): the counter prog.running of processes *)
(* that occupy a slot, the limit prog.grado the console may change at any  *)
(* time, and the semaphore prog.sem that makes add_prog wait for a slot.   *)
(*                                                                         *)
(* prog.sem is NOT the number of free slots: it is a supply of tokens that *)
(* lets add_prog look at the counter again.  A token that finds no slot is *)
(* thrown away (the loop of add_prog), and lowering the degree takes no    *)
(* token back.  What has to hold is that tokens never run out while there  *)
(* is a slot, for otherwise crear_proceso sleeps beside a free slot.       *)
(*                                                                         *)
(* prog.mx is held for straight-line code only, so what it protects is one *)
(* atomic action.  There is one caller of add_prog, the thread             *)
(* crear_proceso.                                                          *)
(***************************************************************************)
EXTENDS Integers

CONSTANTS
    GradoInicial,   \* GRADO_MULTIPROGRAMACION of the config file
    Grados,         \* the values the console passes to modificar_grado
    MaxFichas       \* bound on prog.sem (SEM_VALUE_MAX in the program)

ASSUME GradosAssumption ==
    /\ GradoInicial \in Nat
    /\ Grados \subseteq Int
    /\ MaxFichas \in Nat
    /\ MaxFichas >= GradoInicial

VARIABLES
    prog_running,   \* prog.running
    prog_grado,     \* prog.grado
    prog_sem,       \* the value of prog.sem
    admision        \* where crear_proceso is with respect to add_prog:
                    \*   "fuera"   not in add_prog
                    \*   "espera"  at sem_wait(&prog.sem)
                    \*   "ficha"   past it, waiting for prog.mx
                    \*   "admitido" add_prog returned

prog_vars == <<prog_running, prog_grado, prog_sem, admision>>

ProgTypeOK ==
    /\ prog_running \in Int
    /\ prog_grado \in Int
    /\ prog_sem \in Nat
    /\ admision \in {"fuera", "espera", "ficha", "admitido"}

-----------------------------------------------------------------------------
(* iniciar_multiprogramacion *)
ProgInit ==
    /\ prog_running = 0
    /\ prog_grado = GradoInicial
    /\ prog_sem = GradoInicial
    /\ admision = "fuera"

(* crear_proceso calls add_prog. *)
LlamaAddProg ==
    /\ admision = "fuera"
    /\ admision' = "espera"
    /\ UNCHANGED <<prog_running, prog_grado, prog_sem>>

(* Mutant: a failed wait on prog.sem is not noticed. *)
TomaFichaSinEspera ==
    /\ admision = "espera"
    /\ prog_sem' = prog_sem - 1
    /\ admision' = "ficha"
    /\ UNCHANGED <<prog_running, prog_grado>>

(* sem_wait(&prog.sem) returns: a token is consumed. *)
TomaFicha ==
    /\ admision = "espera"
    /\ prog_sem > 0
    /\ prog_sem' = prog_sem - 1
    /\ admision' = "ficha"
    /\ UNCHANGED <<prog_running, prog_grado>>

(* Mutant: >= for >. *)
AddProgUnaMas ==
    /\ admision = "ficha"
    /\ prog_grado >= prog_running
    /\ prog_running' = prog_running + 1
    /\ admision' = "admitido"
    /\ UNCHANGED <<prog_grado, prog_sem>>

(* Under prog.mx there is a slot: add_prog takes it and returns. *)
AddProg ==
    /\ admision = "ficha"
    /\ prog_grado > prog_running
    /\ prog_running' = prog_running + 1
    /\ admision' = "admitido"
    /\ UNCHANGED <<prog_grado, prog_sem>>

(* Under prog.mx there is no slot: the token is lost, add_prog loops. *)
ReintentaAddProg ==
    /\ admision = "ficha"
    /\ prog_grado <= prog_running
    /\ admision' = "espera"
    /\ UNCHANGED <<prog_running, prog_grado, prog_sem>>

(* Mutant: the degree is compared before the decrement. *)
RemoveProgAntes ==
    /\ prog_running' = prog_running - 1
    /\ prog_sem' = IF prog_grado > prog_running THEN prog_sem + 1 ELSE prog_sem
    /\ UNCHANGED prog_grado

(* remove_prog *)
RemoveProg ==
    /\ prog_running' = prog_running - 1
    /\ prog_sem' = IF prog_grado > prog_running - 1 THEN prog_sem + 1 ELSE prog_sem
    /\ UNCHANGED prog_grado

(* Mutant: raising the degree posts nothing. *)
ModificarGradoSinFichas(valor) ==
    /\ prog_grado' = valor
    /\ UNCHANGED <<prog_running, prog_sem, admision>>

(* modificar_grado(valor), called by the console. *)
ModificarGrado(valor) ==
    /\ prog_sem' = IF valor > prog_grado
                   THEN prog_sem + (valor - prog_grado) ELSE prog_sem
    /\ prog_grado' = valor
    /\ UNCHANGED <<prog_running, admision>>

-----------------------------------------------------------------------------
(***************************************************************************)
(* The discipline of the callers.  The one that was admitted goes on with  *)
(* its process; a process that occupies a slot may leave at any time, its  *)
(* remove_prog being called by eliminar_proceso or, for a process deleted  *)
(* while it was NEW, by crear_proceso.                                     *)
(***************************************************************************)
Sigue ==
    /\ admision = "admitido"
    /\ admision' = "fuera"
    /\ UNCHANGED <<prog_running, prog_grado, prog_sem>>

Sale ==
    /\ prog_running > 0
    /\ RemoveProg
    /\ UNCHANGED admision

CrearSale ==
    /\ admision = "admitido"
    /\ prog_running > 0
    /\ RemoveProg
    /\ admision' = "fuera"

Consola == \E valor \in Grados : ModificarGrado(valor)

Pedido == LlamaAddProg \/ TomaFicha \/ AddProg \/ ReintentaAddProg

ProgPaso == Pedido \/ Sigue \/ Sale \/ CrearSale \/ Consola

(* The component on its own, with the bound that makes it finite. *)
SaleAcotado == prog_sem < MaxFichas /\ (Sale \/ CrearSale)

ConsolaAcotada == \E valor \in Grados :
    /\ prog_sem + (valor - prog_grado) <= MaxFichas
    /\ ModificarGrado(valor)

ProgNext == Pedido \/ Sigue \/ SaleAcotado \/ ConsolaAcotada

(* crear_proceso is a thread that loops forever; the other two never have  *)
(* to act.                                                                 *)
ProgSpec ==
    /\ ProgInit
    /\ [][ProgNext]_prog_vars
    /\ WF_prog_vars(TomaFicha)
    /\ WF_prog_vars(AddProg)
    /\ WF_prog_vars(ReintentaAddProg)

-----------------------------------------------------------------------------
(* Tokens in the semaphore and in the hand of add_prog. *)
FichasVivas == prog_sem + (IF admision = "ficha" THEN 1 ELSE 0)

(***************************************************************************)
(* There is at least one live token per free slot: whatever order the      *)
(* console, the deletions and the admissions take, no slot is lost to a    *)
(* token thrown away by the loop of add_prog (multiprogramacion.c:18-51).  *)
(***************************************************************************)
SinPlazaPerdida == FichasVivas >= prog_grado - prog_running

(***************************************************************************)
(* The degree is exceeded only because the console lowered it: no step     *)
(* takes prog.running above prog.grado, or further above it.               *)
(***************************************************************************)
NoExcedeGrado ==
    [][prog_running' > prog_grado' =>
         prog_running' <= prog_running]_prog_vars

-----------------------------------------------------------------------------
Abstracto == INSTANCE ControlAdmision WITH
    ocupadas <- prog_running,
    grado    <- prog_grado,
    pedido   <- IF admision = "fuera" THEN "no"
                ELSE IF admision = "admitido" THEN "admitido"
                ELSE "pendiente"

(***************************************************************************)
(* The token protocol implements ControlAdmision: every step is a step of  *)
(* it or a stutter, and a request that keeps seeing a free slot is         *)
(* admitted, so that no wakeup of add_prog is lost.                        *)
(***************************************************************************)
ImplementaAdmision == Abstracto!CASpec

(* Its safety part: admissions only into free slots, one per request. *)
ImplementaAdmisionSeguro ==
    Abstracto!CAInit /\ [][Abstracto!CANext]_(Abstracto!ca_vars)

=============================================================================
