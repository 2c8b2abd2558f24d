----------------------------- MODULE Paginacion -----------------------------
(***************************************************************************)
(* memoria's side of the paging: the list of processes with their page     *)
(* tables (memoria-utils.c), the bitmap of frames and the user memory      *)
(* (paginacion.c).                                                         *)
(*                                                                         *)
(* A thread of memoria serves each connection: the kernel's, the CPU's and *)
(* one per device.  Pages and frames are numbered from 0, as in the code.  *)
(***************************************************************************)
EXTENDS Integers, FiniteSets, SequencesExt

CONSTANTS
    PID,         \* the processes the kernel may create
    CantMarcos,  \* CANTIDAD_MARCOS
    TamPagina,   \* TAMANIO_PAGINA
    Bytes        \* the values of a byte the programs use, 0 among them

ASSUME PaginacionAssumption ==
    /\ CantMarcos \in Nat
    /\ TamPagina \in Nat \ {0}
    /\ 0 \in Bytes

VARIABLES
    vida,      \* is the process in lista_procesos, not yet, or no longer
    tabla,     \* proceso->tabla_paginas: the frame of page k is tabla[p][k + 1]
    ocupados,  \* marcos_libres: the frames whose bit is 1
    fisica     \* memoria_fisica->memoria, by physical address

pag_vars == <<vida, tabla, ocupados, fisica>>

Marcos == 0..(CantMarcos - 1)
Direcciones == 0..(CantMarcos * TamPagina - 1)

PagTypeOK ==
    /\ vida \in [PID -> {"ausente", "presente", "borrado"}]
    /\ tabla \in [PID -> Seq(Marcos)]
    /\ ocupados \in SUBSET Marcos
    /\ fisica \in [Direcciones -> Bytes]

-----------------------------------------------------------------------------
(* inicializar_memoria_fisica: calloc, and a bitmap of zeros. *)
PagInit ==
    /\ vida = [p \in PID |-> "ausente"]
    /\ tabla = [p \in PID |-> <<>>]
    /\ ocupados = {}
    /\ fisica = [d \in Direcciones |-> 0]

(* CREAR_PROCESO: a process starts without pages. *)
CrearProceso(p) ==
    /\ vida[p] = "ausente"
    /\ vida' = [vida EXCEPT ![p] = "presente"]
    /\ tabla' = [tabla EXCEPT ![p] = <<>>]
    /\ UNCHANGED <<ocupados, fisica>>

(* FIN_PROCESO: finalizar_proceso frees the table; no bit goes back to 0. *)
FinProceso(p) ==
    /\ vida[p] = "presente"
    /\ vida' = [vida EXCEPT ![p] = "borrado"]
    /\ tabla' = [tabla EXCEPT ![p] = <<>>]
    /\ UNCHANGED <<ocupados, fisica>>

-----------------------------------------------------------------------------
(* Frames *)

Libres == Marcos \ ocupados

(* Mutant: one frame short is enough. *)
HayNMarcosMenosUno(n) == Cardinality(Libres) >= n - 1

(* hay_n_marcos_disponibles *)
HayNMarcos(n) == Cardinality(Libres) >= n

(* Mutant: the bit is not set. *)
AsignarMarcoSinMarcar(p) ==
    \E marco \in Libres :
        /\ \A otro \in Libres : marco <= otro
        /\ tabla' = [tabla EXCEPT ![p] = Append(@, marco)]
        /\ UNCHANGED <<vida, ocupados, fisica>>

(* asignar_pagina_a_marco, the first free frame, and the list_add of       *)
(* aumentar_tam_proceso: the bit is tested and set under mx_memoria.       *)
AsignarMarco(p) ==
    \E marco \in Libres :
        /\ \A otro \in Libres : marco <= otro
        /\ tabla' = [tabla EXCEPT ![p] = Append(@, marco)]
        /\ ocupados' = ocupados \union {marco}
        /\ UNCHANGED <<vida, fisica>>

(* Mutant: the first page is taken away instead of the last. *)
QuitarPrimeraPagina(p) ==
    /\ tabla[p] # <<>>
    /\ ocupados' = ocupados \ {Head(tabla[p])}
    /\ tabla' = [tabla EXCEPT ![p] = Tail(@)]
    /\ UNCHANGED <<vida, fisica>>

(* Mutant: the bit of the page is cleared, not the one of its frame. *)
QuitarPaginaPorIndice(p) ==
    /\ tabla[p] # <<>>
    /\ ocupados' = ocupados \ {Len(tabla[p]) - 1}
    /\ tabla' = [tabla EXCEPT ![p] = Front(@)]
    /\ UNCHANGED <<vida, fisica>>

(* One turn of the loop of reducir_tam_proceso, which goes from the end. *)
QuitarPagina(p) ==
    /\ tabla[p] # <<>>
    /\ ocupados' = ocupados \ {Last(tabla[p])}
    /\ tabla' = [tabla EXCEPT ![p] = Front(@)]
    /\ UNCHANGED <<vida, fisica>>

(* obtener_marco_pagina: -1 when the process is not there or has no such   *)
(* page; a process that is not there has an empty table.                   *)
SinMarco == -1
Respuestas == Marcos \union {SinMarco}
ObtenerMarcoPagina(p, pagina) ==
    IF pagina < Len(tabla[p]) THEN tabla[p][pagina + 1] ELSE SinMarco

(* The ceil of resize_proceso. *)
PaginasPara(tamanio) == (tamanio + TamPagina - 1) \div TamPagina

-----------------------------------------------------------------------------
(* User memory *)

MarcoDe(df) == df \div TamPagina

(* Mutant: the displacement inside the frame is forgotten. *)
LeerDesdeMarco(df, tam) ==
    [k \in 1..tam |-> fisica[MarcoDe(df) * TamPagina + k - 1]]

(* leer_de_memoria, whose NULL past the end no translated access reaches   *)
LeerDeMemoria(df, tam) == [k \in 1..tam |-> fisica[df + k - 1]]

(* The reply goes through buffer_add_string and is padded by the reader    *)
(* (string_substring_until): what follows a 0 arrives as 0.                *)
EnviarDatoLeido(dato) ==
    [k \in DOMAIN dato |-> IF \E j \in 1..k : dato[j] = 0 THEN 0 ELSE dato[k]]

(* The memcpy of escribir_en_memoria, under mx_memoria. *)
MemoriaCon(df, dato) ==
    [d \in Direcciones |-> IF d \in df..(df + Len(dato) - 1)
                           THEN dato[d - df + 1] ELSE fisica[d]]

(* The bits of the byte of marcos_libres that holds the bit of marco. *)
ByteDe(marco) == {otro \in Marcos : otro \div 8 = marco \div 8}

(***************************************************************************)
(* escribir_en_memoria for the CPU, which waits for the answer: no RESIZE  *)
(* is in course, and the bit it sets outside mx_memoria is set already.    *)
(***************************************************************************)
EscribirEnMemoria(df, dato) ==
    /\ fisica' = MemoriaCon(df, dato)
    /\ ocupados' = ocupados \union {MarcoDe(df)}
    /\ UNCHANGED <<vida, tabla>>

(***************************************************************************)
(* escribir_en_memoria for a device, in its three steps: the memcpy under  *)
(* mx_memoria, then outside of it the byte of the bitmap is read, and      *)
(* written back with the bit set.                                          *)
(***************************************************************************)
CopiarEnMemoria(df, dato) ==
    /\ fisica' = MemoriaCon(df, dato)
    /\ UNCHANGED <<vida, tabla, ocupados>>

MarcarConByte(marco, byte) ==
    /\ ocupados' = (ocupados \ ByteDe(marco)) \union byte \union {marco}
    /\ UNCHANGED <<vida, tabla, fisica>>

=============================================================================
