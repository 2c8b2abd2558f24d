------------------------------ MODULE MCPiezas ------------------------------
(***************************************************************************)
(* Five parts that share no variable, for TLC: a behaviour is one of them. *)
(***************************************************************************)
EXTENDS Multiprogramacion, Recursos, DialFS, Conexiones, Registros

(* The degrees the console may ask for; atoi gives 0 for a non-number. *)
MCGrados == {-1, 0, 2}

(* One exclusive resource. *)
MCInstancias == <<1>>

MCInmediatos == {-1}

VARIABLE pieza  \* the part that runs

piezas_vars == <<prog_vars, rec_vars, dial_vars, con_vars, reg_vars, pieza>>

(* The choices of an initial state are those of the part that runs. *)
PiezasInit ==
    /\ pieza \in {"grado", "recursos", "dialfs", "conexiones", "registros"}
    /\ ProgInit /\ RecInit /\ DialInit /\ ConInit /\ RegInit
    /\ pieza # "dialfs" => \A b \in Bloques : disco[b] = 0
    /\ pieza # "conexiones" => calma

EnGrado ==
    pieza = "grado" /\ UNCHANGED <<rec_vars, dial_vars, con_vars, reg_vars, pieza>>
EnRecursos ==
    pieza = "recursos" /\ UNCHANGED <<prog_vars, dial_vars, con_vars, reg_vars, pieza>>
EnDialFS ==
    pieza = "dialfs" /\ UNCHANGED <<prog_vars, rec_vars, con_vars, reg_vars, pieza>>
EnConexiones ==
    pieza = "conexiones" /\ UNCHANGED <<prog_vars, rec_vars, dial_vars, reg_vars, pieza>>
EnRegistros ==
    pieza = "registros" /\ UNCHANGED <<prog_vars, rec_vars, dial_vars, con_vars, pieza>>

PiezasNext ==
    \/ EnGrado /\ ProgNext
    \/ EnRecursos /\ RecNext
    \/ EnDialFS /\ DialNext
    \/ EnConexiones /\ ConNext
    \/ EnRegistros /\ RegNext

PiezasSpec ==
    /\ PiezasInit
    /\ [][PiezasNext]_piezas_vars
    /\ WF_piezas_vars(EnGrado /\ TomaFicha)
    /\ WF_piezas_vars(EnGrado /\ AddProg)
    /\ WF_piezas_vars(EnGrado /\ ReintentaAddProg)
    /\ WF_piezas_vars(EnConexiones /\ IniciarServidor)
    /\ WF_piezas_vars(EnConexiones /\ EsperarCliente)
    /\ \A m \in Modulos :
        /\ WF_piezas_vars(EnConexiones /\ ConAvanza(m))
        /\ WF_piezas_vars(EnConexiones /\ AtiendeNext(m))

(***************************************************************************)
(* Every variable of the five parts has a value of its type; what could be *)
(* wrong is in the bounds: no count of multiprogramacion.c or recursos.c   *)
(* is negative, no block number is past the end of a device, no register   *)
(* is wider than its field.                                                *)
(***************************************************************************)
TiposOK == ProgTypeOK /\ RecTypeOK /\ DialTypeOK /\ ConTypeOK /\ RegTypeOK

=============================================================================
