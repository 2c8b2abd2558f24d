--------------------------- MODULE SistemaMemoria ---------------------------
(***************************************************************************)
(* The CPU, memoria and one device at work on the same memory.  The CPU    *)
(* runs one process at a time and leaves it between two instructions; the  *)
(* device serves the requests the kernel hands to it, one after another,   *)
(* with the physical addresses the CPU translated for it.  Of the kernel   *)
(* only its discipline is kept: a process is in the CPU, or waits for the  *)
(* device, or neither, and only in the last case is it dispatched or ended *)
(* (mx_PCB and the states of Kernel.tla).                                  *)
(***************************************************************************)
EXTENDS Mmu

CONSTANTS
    Configs,           \* the configurations of a run, see ConfigsValidas
    Tamanios,          \* the sizes of registers and strings
    MaxInstrucciones,  \* bound: memory instructions in a behaviour
    Nadie

ConfigsValidas ==
    [cantidad_entradas_tlb : Nat,
     algoritmo_tlb : {"FIFO", "LRU"},
     dispositivo : {"STDIN", "STDOUT"},
     achica : BOOLEAN,       \* do programs give memory back
     ajusta_con_io : BOOLEAN \* may RESIZE run while the device works
    ]

ASSUME SistemaAssumption ==
    /\ Configs \subseteq ConfigsValidas
    /\ Nadie \notin PID
    /\ Tamanios \subseteq Nat \ {0}
    /\ MaxInstrucciones \in Nat

VARIABLES
    corre,     \* contexto.PID: the process in the CPU
    acceso,    \* the instruction in course, SinAcceso between two
    hechas,    \* instructions begun so far
    acabado,   \* the processes that left with OUT_OF_MEMORY
    cola_io,   \* the requests of the device, the head is being served
    escrito,   \* the frame and the byte of the bitmap escribir_en_memoria read
    teclado    \* what leer_de_consola gave for the head, <<>> before it

cpu_vars == <<corre, acceso, hechas, acabado>>
io_vars == <<cola_io, escrito, teclado>>
mem_vars == <<pag_vars, mmu_vars, cpu_vars, io_vars>>

SinAcceso == [op |-> "NINGUNA"]
SinMarca == [marco |-> Nadie]

Lectoras == {"MOV_IN", "COPY_LEE"}
Escritoras == {"MOV_OUT", "COPY_ESCRIBE"}

Tamanio(p) == Len(tabla[p]) * TamPagina
EnIO(p) == \E k \in 1..Len(cola_io) : cola_io[k].pid = p

Fragmento == [dl : Nat, df : Direcciones, tam : Nat \ {0}]

(* A translation of tam bytes from dl, for op: dl and resta are the cursor *)
(* of listaDireccionesFisicas; inicio is the address of the first byte not *)
(* yet read or written, dato what was read or is to be written, di the     *)
(* register DI of COPY_STRING.                                             *)
Acceso(op, dl, tam, dato, di) ==
    [op |-> op, dl |-> dl, resta |-> tam, dfs |-> <<>>,
     inicio |-> dl, dato |-> dato, di |-> di, tam |-> tam]

MemTypeOK ==
    /\ PagTypeOK
    /\ config \in Configs
    /\ tlb \in Seq(RegistrosTLB)
    /\ Len(tlb) <= config.cantidad_entradas_tlb
    /\ corre \in PID \union {Nadie}
    /\ acceso.op \in {"NINGUNA", "RESIZE", "IO"} \union Lectoras \union Escritoras
    /\ hechas \in 0..MaxInstrucciones
    /\ acabado \subseteq PID
    /\ \A k \in 1..Len(cola_io) :
           cola_io[k] \in [pid : PID, dfs : Seq(Fragmento)]
    /\ escrito = SinMarca \/ escrito \in [marco : Marcos, byte : SUBSET Marcos]
    /\ teclado \in Seq(Bytes)

-----------------------------------------------------------------------------
MemInit ==
    /\ PagInit
    /\ config \in Configs
    /\ tlb = <<>>
    /\ corre = Nadie
    /\ acceso = SinAcceso
    /\ hechas = 0
    /\ acabado = {}
    /\ cola_io = <<>>
    /\ escrito = SinMarca
    /\ teclado = <<>>

(* The kernel *)

Crear(p) == CrearProceso(p) /\ UNCHANGED <<mmu_vars, cpu_vars, io_vars>>

Fin(p) ==
    /\ corre # p
    /\ ~EnIO(p)
    /\ FinProceso(p)
    /\ UNCHANGED <<mmu_vars, cpu_vars, io_vars>>

Despacha(p) ==
    /\ corre = Nadie
    /\ vida[p] = "presente"
    /\ ~EnIO(p)
    /\ p \notin acabado
    /\ corre' = p
    /\ UNCHANGED <<pag_vars, mmu_vars, acceso, hechas, acabado, io_vars>>

(* DEVOLUCION_PCB: an interrupt is only looked at between instructions. *)
Deja ==
    /\ corre # Nadie
    /\ acceso = SinAcceso
    /\ corre' = Nadie
    /\ UNCHANGED <<pag_vars, mmu_vars, acceso, hechas, acabado, io_vars>>

-----------------------------------------------------------------------------
(* The CPU: an instruction begins.  Programs only use memory they have.    *)

Empieza(a) ==
    /\ corre # Nadie
    /\ acceso = SinAcceso
    /\ hechas < MaxInstrucciones
    /\ hechas' = hechas + 1
    /\ acceso' = a
    /\ UNCHANGED <<pag_vars, mmu_vars, corre, acabado, io_vars>>

Desde(tam) == {dl \in 0..(CantMarcos * TamPagina) :
                  corre # Nadie /\ dl + tam <= Tamanio(corre)}

MOV_IN == \E tam \in Tamanios : \E dl \in Desde(tam) :
    Empieza(Acceso("MOV_IN", dl, tam, <<>>, 0))

MOV_OUT == \E tam \in Tamanios : \E dl \in Desde(tam) : \E dato \in [1..tam -> Bytes] :
    Empieza(Acceso("MOV_OUT", dl, tam, dato, 0))

COPY_STRING == \E tam \in Tamanios : \E si, di \in Desde(tam) :
    Empieza(Acceso("COPY_LEE", si, tam, <<>>, di))

(* generic_stdin_stdout *)
IO == \E tam \in Tamanios : \E dl \in Desde(tam) :
    Empieza(Acceso("IO", dl, tam, <<>>, 0))

(* The instruction ends with OUT_OF_MEMORY and the process leaves the CPU. *)
SinMemoria ==
    /\ acceso' = SinAcceso
    /\ acabado' = acabado \union {corre}
    /\ corre' = Nadie

-----------------------------------------------------------------------------
(* RESIZE *)

(***************************************************************************)
(* resize_proceso: the frames are counted here and taken one by one in     *)
(* AjustaPagina.  A process without pages cannot be made smaller, nor be   *)
(* left without pages: reducir_tam_proceso answers with an error.          *)
(***************************************************************************)
RESIZE(tamanio) ==
    /\ corre # Nadie
    /\ acceso = SinAcceso
    /\ hechas < MaxInstrucciones
    /\ config.ajusta_con_io \/ cola_io = <<>>
    /\ LET actuales == Len(tabla[corre])
           finales == PaginasPara(tamanio)
           puede == IF finales > actuales THEN HayNMarcos(finales - actuales)
                    ELSE actuales > 0
       IN /\ config.achica \/ finales >= actuales
          /\ hechas' = hechas + 1
          /\ \/ /\ puede
                /\ acceso' = [op |-> "RESIZE", paginas |-> finales]
                /\ UNCHANGED <<corre, acabado>>
             \/ /\ ~puede
                /\ SinMemoria
    /\ UNCHANGED <<pag_vars, mmu_vars, io_vars>>

(* A turn of the loop of aumentar_tam_proceso or of reducir_tam_proceso;   *)
(* no answer but OK is possible while the count of RESIZE holds.           *)
AjustaPagina ==
    /\ acceso.op = "RESIZE"
    /\ \/ /\ Len(tabla[corre]) < acceso.paginas
          /\ IF Libres # {} THEN AsignarMarco(corre) /\ UNCHANGED cpu_vars
             ELSE SinMemoria /\ UNCHANGED <<pag_vars, hechas>>
       \/ /\ Len(tabla[corre]) > acceso.paginas
          /\ QuitarPagina(corre)
          /\ UNCHANGED cpu_vars
    /\ UNCHANGED <<mmu_vars, io_vars>>

RespuestaResize ==
    /\ acceso.op = "RESIZE"
    /\ Len(tabla[corre]) = acceso.paginas
    /\ acceso' = SinAcceso
    /\ UNCHANGED <<pag_vars, mmu_vars, corre, hechas, acabado, io_vars>>

-----------------------------------------------------------------------------
(* Reads and writes *)

Traduciendo ==
    /\ acceso.op \in Lectoras \union Escritoras \union {"IO"}
    /\ acceso.resta > 0

Traducida ==
    /\ acceso.op \in Lectoras \union Escritoras \union {"IO"}
    /\ acceso.resta = 0

(* A turn of the loop of listaDireccionesFisicas, which does not look at   *)
(* the frame it gets.                                                      *)
Traduce ==
    /\ Traduciendo
    /\ \E marco \in Respuestas :
        LET dl == acceso.dl
            tam == TamFragmento(dl, acceso.resta)
            df == marco * TamPagina + Desplazamiento(dl)
        IN /\ SolicitarMarco(corre, Pagina(dl), marco)
           /\ acceso' = [acceso EXCEPT
                !.dl = @ + tam, !.resta = @ - tam,
                !.dfs = Append(@, [dl |-> dl, df |-> df, tam |-> tam])]
    /\ UNCHANGED <<pag_vars, config, corre, hechas, acabado, io_vars>>

(* A turn of the loop of leerMemoria. *)
Lee ==
    /\ Traducida
    /\ acceso.op \in Lectoras
    /\ acceso.dfs # <<>>
    /\ LET f == Head(acceso.dfs)
           leido == EnviarDatoLeido(LeerDeMemoria(f.df, f.tam))
       IN acceso' = [acceso EXCEPT !.dfs = Tail(@), !.dato = @ \o leido]
    /\ UNCHANGED <<pag_vars, mmu_vars, corre, hechas, acabado, io_vars>>

(* MOV_IN has its value; COPY_STRING goes on with the addresses from DI. *)
TerminaLectura ==
    /\ Traducida
    /\ acceso.dfs = <<>>
    /\ \/ acceso.op = "MOV_IN" /\ acceso' = SinAcceso
       \/ /\ acceso.op = "COPY_LEE"
          /\ acceso' = Acceso("COPY_ESCRIBE", acceso.di, acceso.tam, acceso.dato, 0)
    /\ UNCHANGED <<pag_vars, mmu_vars, corre, hechas, acabado, io_vars>>

(* A turn of the loop of escribirMemoria. *)
Escribe ==
    /\ Traducida
    /\ acceso.op \in Escritoras
    /\ LET f == Head(acceso.dfs) IN
       /\ EscribirEnMemoria(f.df, SubSeq(acceso.dato, 1, f.tam))
       /\ acceso' = IF Len(acceso.dfs) = 1 THEN SinAcceso
                    ELSE [acceso EXCEPT !.dfs = Tail(@), !.inicio = @ + f.tam,
                          !.dato = SubSeq(@, f.tam + 1, Len(@))]
    /\ UNCHANGED <<mmu_vars, corre, hechas, acabado, io_vars>>

(* The process leaves the CPU; its addresses go to the device's queue. *)
Bloquea ==
    /\ Traducida
    /\ acceso.op = "IO"
    /\ cola_io' = Append(cola_io, [pid |-> corre, dfs |-> acceso.dfs])
    /\ corre' = Nadie
    /\ acceso' = SinAcceso
    /\ UNCHANGED <<pag_vars, mmu_vars, hechas, acabado, escrito, teclado>>

-----------------------------------------------------------------------------
(* The device: leer_de_memoria for STDOUT, enviar_para_escribir for STDIN. *)

(* The request without its first fragment, IO_FIN after the last one. *)
Siguiente ==
    LET dfs == Tail(Head(cola_io).dfs) IN
    IF dfs = <<>> THEN Tail(cola_io)
    ELSE <<[Head(cola_io) EXCEPT !.dfs = dfs]>> \o Tail(cola_io)

DispLee ==
    /\ cola_io # <<>>
    /\ config.dispositivo = "STDOUT"
    /\ cola_io' = Siguiente
    /\ UNCHANGED <<pag_vars, mmu_vars, cpu_vars, escrito, teclado>>

(* determinar_tamanio_a_escribir: the running total of the fragments. *)
Pendientes(dfs) ==
    LET hasta[k \in 0..Len(dfs)] == IF k = 0 THEN 0 ELSE hasta[k - 1] + dfs[k].tam
    IN hasta[Len(dfs)]

(* leer_de_consola: any bytes, since what follows a line that is too short *)
(* is read past its end.                                                   *)
DispTeclado ==
    /\ cola_io # <<>>
    /\ config.dispositivo = "STDIN"
    /\ teclado = <<>>
    /\ escrito = SinMarca
    /\ \E linea \in [1..Pendientes(Head(cola_io).dfs) -> Bytes] : teclado' = linea
    /\ UNCHANGED <<pag_vars, mmu_vars, cpu_vars, cola_io, escrito>>

(* SOLICITUD_ESCRITURA_MEMORIA of a fragment, up to the read of the byte. *)
DispEscribe ==
    /\ cola_io # <<>>
    /\ config.dispositivo = "STDIN"
    /\ teclado # <<>>
    /\ escrito = SinMarca
    /\ LET f == Head(Head(cola_io).dfs)
           marco == MarcoDe(f.df)
       IN /\ CopiarEnMemoria(f.df, SubSeq(teclado, 1, f.tam))
          /\ teclado' = SubSeq(teclado, f.tam + 1, Len(teclado))
          /\ escrito' = [marco |-> marco, byte |-> ocupados \intersect ByteDe(marco)]
    /\ UNCHANGED <<mmu_vars, cpu_vars, cola_io>>

DispMarca ==
    /\ escrito # SinMarca
    /\ MarcarConByte(escrito.marco, escrito.byte)
    /\ escrito' = SinMarca
    /\ cola_io' = Siguiente
    /\ UNCHANGED <<mmu_vars, cpu_vars, teclado>>

-----------------------------------------------------------------------------
MemNext ==
    \/ \E p \in PID : Crear(p) \/ Fin(p) \/ Despacha(p)
    \/ Deja
    \/ MOV_IN \/ MOV_OUT \/ COPY_STRING \/ IO
    \/ \E tamanio \in 0..((CantMarcos + 1) * TamPagina) : RESIZE(tamanio)
    \/ AjustaPagina \/ RespuestaResize
    \/ Traduce \/ Lee \/ TerminaLectura \/ Escribe \/ Bloquea
    \/ DispLee \/ DispTeclado \/ DispEscribe \/ DispMarca

MemSpec == MemInit /\ [][MemNext]_mem_vars

=============================================================================
