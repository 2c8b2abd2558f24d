----------------------- MODULE SistemaMemoria_proofs -----------------------
(***************************************************************************)
(* Proofs about CPU, memoria and device together, for any number of        *)
(* processes and frames, any page size and any TLB: types and bounds       *)
(* (MemTypeOK), page tables that share no frame (TablasDisjuntas), counts  *)
(* of frames that hold (ResizeTodoONada), translations that stay valid     *)
(* (TraduccionVigente), reads of one's own bytes (LecturaPropia) and, from *)
(* all of these, that paging implements private memories                   *)
(* (EspaciosPrivados).                                                     *)
(***************************************************************************)
EXTENDS MemoriaPropiedades, Colas_lemas, FiniteSetTheorems

(* The precondition: configurations in which the bitmap has no race. *)
SinCarrera == \A c \in Configs : c.dispositivo = "STDIN" => ~c.ajusta_con_io

TablasTipadas == tabla \in [PID -> Seq(Marcos)]

AccesoOK ==
    /\ config \in Configs
    /\ corre \in PID \union {Nadie}
    /\ "op" \in DOMAIN acceso
    /\ acceso.op = "RESIZE" => corre \in PID

(* A RESIZE that has begun found the queue of a STDIN device empty, and    *)
(* nobody can fill it before its answer.                                   *)
ResizeSinIO ==
    acceso.op = "RESIZE" /\ config.dispositivo = "STDIN" => cola_io = <<>>

(* The byte of the bitmap a device is about to write back still has the    *)
(* bits of every page.                                                     *)
ByteVigente ==
    escrito # SinMarca =>
        /\ cola_io # <<>>
        /\ config.dispositivo = "STDIN"
        /\ \A p \in PID : \A i \in Paginas(p) :
               tabla[p][i] \in ByteDe(escrito.marco)
                   => tabla[p][i] \in escrito.byte \union {escrito.marco}

MarcosInv ==
    /\ TablasTipadas
    /\ AccesoOK
    /\ ResizeSinIO
    /\ ByteVigente
    /\ MarcosMarcados
    /\ TablasDisjuntas

LEMMA MarcosInicial == ASSUME MemInit PROVE MarcosInv
<1>1. tabla = [p \in PID |-> <<>>] /\ \A p \in PID : Paginas(p) = {}
  BY DEF MemInit, PagInit, Paginas
<1>2. TablasTipadas
  BY <1>1 DEF TablasTipadas
<1>3. AccesoOK /\ ResizeSinIO /\ ByteVigente
  BY DEF MemInit, AccesoOK, ResizeSinIO, ByteVigente, SinAcceso
<1>4. MarcosMarcados /\ TablasDisjuntas
  BY <1>1 DEF MarcosMarcados, TablasDisjuntas
<1> QED
  BY <1>2, <1>3, <1>4 DEF MarcosInv

-----------------------------------------------------------------------------
(* Steps that leave tables and bitmap alone *)

LEMMA SinTocarMarcos ==
  ASSUME MarcosInv, UNCHANGED <<tabla, ocupados, config>>, AccesoOK', ResizeSinIO',
         \/ escrito' = SinMarca
         \/ escrito' = escrito /\ cola_io' # <<>>
  PROVE  MarcosInv'
<1>1. TablasTipadas' /\ MarcosMarcados' /\ TablasDisjuntas'
  BY DEF MarcosInv, TablasTipadas, MarcosMarcados, TablasDisjuntas, Paginas
<1>2. ByteVigente'
  BY DEF MarcosInv, ByteVigente, Paginas, ByteDe, SinMarca
<1> QED
  BY <1>1, <1>2 DEF MarcosInv

(* The end or the creation of a process empties its table. *)
LEMMA VaciaTabla ==
  ASSUME MarcosInv, NEW p \in PID, tabla' = [tabla EXCEPT ![p] = <<>>],
         UNCHANGED <<ocupados, mmu_vars, cpu_vars, io_vars>>
  PROVE  MarcosInv'
<1>1. \A q \in PID : tabla'[q] = IF q = p THEN <<>> ELSE tabla[q]
  BY DEF MarcosInv, TablasTipadas
<1>2. TablasTipadas'
  BY DEF MarcosInv, TablasTipadas
<1>3. \A q \in PID : \A i \in 1..Len(tabla'[q]) : i \in Paginas(q) /\ tabla'[q][i] = tabla[q][i]
  BY <1>1 DEF Paginas
<1>4. MarcosMarcados' /\ TablasDisjuntas'
  BY <1>3 DEF MarcosInv, MarcosMarcados, TablasDisjuntas, Paginas
<1>5. AccesoOK' /\ ResizeSinIO'
  BY DEF MarcosInv, AccesoOK, ResizeSinIO, mmu_vars, cpu_vars, io_vars
<1>6. ByteVigente'
  BY <1>3 DEF MarcosInv, ByteVigente, ByteDe, Paginas, SinMarca, mmu_vars, io_vars
<1> QED
  BY <1>2, <1>4, <1>5, <1>6 DEF MarcosInv

-----------------------------------------------------------------------------
(* RESIZE *)

(* A page gets a frame that was free, so that it was in no table. *)
LEMMA AsignarInv ==
  ASSUME SinCarrera, MarcosInv, acceso.op = "RESIZE", AsignarMarco(corre),
         UNCHANGED <<mmu_vars, cpu_vars, io_vars>>
  PROVE  MarcosInv'
<1> DEFINE p == corre
<1>1. p \in PID /\ tabla[p] \in Seq(Marcos)
  BY DEF MarcosInv, AccesoOK, TablasTipadas
<1>2. PICK m \in Libres :
         tabla' = [tabla EXCEPT ![p] = Append(@, m)] /\ ocupados' = ocupados \union {m}
  BY DEF AsignarMarco
<1>3. m \in Marcos /\ m \notin ocupados
  BY DEF Libres
<1> DEFINE n == Len(tabla[p]) + 1
           t == Append(tabla[p], m)
<1>4. /\ t \in Seq(Marcos)
      /\ Len(t) = n
      /\ \A i \in 1..Len(tabla[p]) : t[i] = tabla[p][i]
      /\ t[n] = m
      /\ Len(tabla[p]) \in Nat
  BY <1>1, <1>3, AppendProperties, LenProperties
<1> HIDE DEF t
<1>5. tabla' = [tabla EXCEPT ![p] = t]
  BY <1>2 DEF t
<1>6. /\ TablasTipadas'
      /\ \A q \in PID : tabla'[q] = IF q = p THEN t ELSE tabla[q]
  BY <1>1, <1>4, <1>5 DEF MarcosInv, TablasTipadas
<1>7. \A q \in PID : \A i \in 1..Len(tabla'[q]) :
         \/ q = p /\ i = n /\ tabla'[q][i] = m
         \/ i \in Paginas(q) /\ tabla'[q][i] = tabla[q][i]
  <2> SUFFICES ASSUME NEW q \in PID, NEW i \in 1..Len(tabla'[q])
               PROVE  \/ q = p /\ i = n /\ tabla'[q][i] = m
                      \/ i \in Paginas(q) /\ tabla'[q][i] = tabla[q][i]
    OBVIOUS
  <2>1. CASE q = p
    BY <1>4, <1>6, <2>1 DEF Paginas
  <2>2. CASE q # p
    BY <1>6, <2>2 DEF Paginas
  <2> QED
    BY <2>1, <2>2
<1>8. MarcosMarcados'
  <2> SUFFICES ASSUME NEW q \in PID, NEW i \in 1..Len(tabla'[q])
               PROVE  tabla'[q][i] \in ocupados'
    BY DEF MarcosMarcados, Paginas
  <2> QED
    BY <1>2, <1>7 DEF MarcosInv, MarcosMarcados
<1>9. TablasDisjuntas'
  <2> SUFFICES ASSUME NEW q \in PID, NEW s \in PID, NEW i \in 1..Len(tabla'[q]),
                      NEW j \in 1..Len(tabla'[s]), tabla'[q][i] = tabla'[s][j]
               PROVE  q = s /\ i = j
    BY DEF TablasDisjuntas, Paginas
  <2>1. \A x \in PID : \A k \in Paginas(x) : tabla[x][k] # m
    BY <1>3 DEF MarcosInv, MarcosMarcados
  <2>2. \/ q = p /\ i = n /\ tabla'[q][i] = m
        \/ i \in Paginas(q) /\ tabla'[q][i] = tabla[q][i]
    BY <1>7
  <2>3. \/ s = p /\ j = n /\ tabla'[s][j] = m
        \/ j \in Paginas(s) /\ tabla'[s][j] = tabla[s][j]
    BY <1>7
  <2>4. i \in Paginas(q) /\ j \in Paginas(s) /\ tabla[q][i] = tabla[s][j]
          => q = s /\ i = j
    BY DEF MarcosInv, TablasDisjuntas
  <2> QED
    BY <2>1, <2>2, <2>3, <2>4
<1>10. AccesoOK' /\ ResizeSinIO'
  BY DEF MarcosInv, AccesoOK, ResizeSinIO, mmu_vars, cpu_vars, io_vars
<1>11. ByteVigente'
  BY DEF MarcosInv, ByteVigente, ResizeSinIO, SinMarca, mmu_vars, io_vars
<1> HIDE DEF p, n
<1> QED
  BY <1>6, <1>8, <1>9, <1>10, <1>11 DEF MarcosInv

(* The frame of a page that goes away is in no other place of the tables. *)
LEMMA QuitarInv ==
  ASSUME SinCarrera, MarcosInv, acceso.op = "RESIZE", QuitarPagina(corre),
         UNCHANGED <<mmu_vars, cpu_vars, io_vars>>
  PROVE  MarcosInv'
<1> DEFINE p == corre
           n == Len(tabla[p])
           t == SubSeq(tabla[p], 1, n - 1)
<1>1. p \in PID /\ tabla[p] \in Seq(Marcos) /\ tabla[p] # <<>>
  BY DEF MarcosInv, AccesoOK, TablasTipadas, QuitarPagina
<1>2. n \in Nat /\ n > 0 /\ \A i \in 1..n : tabla[p][i] \in Marcos
  BY <1>1, EmptySeq, LenProperties, ElementOfSeq
<1>3. /\ tabla' = [tabla EXCEPT ![p] = t]
      /\ ocupados' = ocupados \ {tabla[p][n]}
  BY DEF QuitarPagina, Front, Last
<1>4. /\ t \in Seq(Marcos)
      /\ Len(t) = n - 1
      /\ \A i \in 1..(n - 1) : t[i] = tabla[p][i]
  <2>1. \A i \in 1..(n - 1) : tabla[p][i] \in Marcos
    BY <1>2
  <2>2. 1 \in Int /\ n - 1 \in Int
    BY <1>2
  <2> QED
    BY <1>2, <2>1, <2>2, SubSeqProperties
<1> HIDE DEF t
<1>5. \A q \in PID : tabla'[q] = IF q = p THEN t ELSE tabla[q]
  BY <1>1, <1>3 DEF MarcosInv, TablasTipadas
<1>6. TablasTipadas'
  BY <1>1, <1>3, <1>4 DEF MarcosInv, TablasTipadas
<1>7. \A q \in PID : \A i \in 1..Len(tabla'[q]) :
         i \in Paginas(q) /\ tabla'[q][i] = tabla[q][i] /\ (q = p => i # n)
  <2> SUFFICES ASSUME NEW q \in PID, NEW i \in 1..Len(tabla'[q])
               PROVE  i \in Paginas(q) /\ tabla'[q][i] = tabla[q][i] /\ (q = p => i # n)
    OBVIOUS
  <2>1. CASE q = p
    BY <1>2, <1>4, <1>5, <2>1 DEF Paginas
  <2>2. CASE q # p
    BY <1>5, <2>2 DEF Paginas
  <2> QED
    BY <2>1, <2>2
<1>8. n \in Paginas(p)
  BY <1>2 DEF Paginas
<1>9. TablasDisjuntas'
  BY <1>7 DEF MarcosInv, TablasDisjuntas, Paginas
<1>10. MarcosMarcados'
  <2> SUFFICES ASSUME NEW q \in PID, NEW i \in 1..Len(tabla'[q])
               PROVE  tabla'[q][i] \in ocupados'
    BY DEF MarcosMarcados, Paginas
  <2>1. tabla[q][i] # tabla[p][n]
    BY <1>1, <1>7, <1>8 DEF MarcosInv, TablasDisjuntas
  <2> QED
    BY <1>3, <1>7, <2>1 DEF MarcosInv, MarcosMarcados
<1>11. AccesoOK' /\ ResizeSinIO'
  BY DEF MarcosInv, AccesoOK, ResizeSinIO, mmu_vars, cpu_vars, io_vars
<1>12. ByteVigente'
  BY DEF MarcosInv, ByteVigente, ResizeSinIO, SinMarca, mmu_vars, io_vars
<1> HIDE DEF p, n
<1> QED
  BY <1>6, <1>9, <1>10, <1>11, <1>12 DEF MarcosInv

-----------------------------------------------------------------------------
(* Writes: a bit may be set, none of a page is cleared *)

LEMMA MarcarInv ==
  ASSUME MarcosInv, UNCHANGED <<tabla, config>>, AccesoOK', ResizeSinIO',
         \A p \in PID : \A i \in Paginas(p) : tabla[p][i] \in ocupados',
         \/ escrito' = SinMarca
         \/ escrito' = escrito /\ cola_io' # <<>>
  PROVE  MarcosInv'
<1>1. TablasTipadas' /\ MarcosMarcados' /\ TablasDisjuntas'
  BY DEF MarcosInv, TablasTipadas, MarcosMarcados, TablasDisjuntas, Paginas
<1>2. ByteVigente'
  BY DEF MarcosInv, ByteVigente, Paginas, ByteDe, SinMarca
<1> QED
  BY <1>1, <1>2 DEF MarcosInv

(* The device reads the byte after its memcpy. *)
LEMMA DispEscribeInv == ASSUME MarcosInv, DispEscribe PROVE MarcosInv'
<1>1. UNCHANGED <<tabla, ocupados, config, acceso, corre, cola_io>>
  BY DEF DispEscribe, CopiarEnMemoria, mmu_vars, cpu_vars
<1>2. TablasTipadas' /\ MarcosMarcados' /\ TablasDisjuntas' /\ AccesoOK' /\ ResizeSinIO'
  BY <1>1 DEF MarcosInv, TablasTipadas, MarcosMarcados, TablasDisjuntas, Paginas,
              AccesoOK, ResizeSinIO
<1>3. PICK marco : escrito' = [marco |-> marco, byte |-> ocupados \intersect ByteDe(marco)]
  BY DEF DispEscribe
<1>4. cola_io # <<>> /\ config.dispositivo = "STDIN"
  BY DEF DispEscribe
<1>5. ByteVigente'
  <2> SUFFICES ASSUME NEW p \in PID, NEW i \in 1..Len(tabla[p]), tabla[p][i] \in ByteDe(marco)
               PROVE  tabla[p][i] \in ocupados \intersect ByteDe(marco)
    BY <1>1, <1>3, <1>4 DEF ByteVigente, Paginas, ByteDe
  <2> QED
    BY DEF MarcosInv, MarcosMarcados, Paginas
<1> QED
  BY <1>2, <1>5 DEF MarcosInv

(* The device writes the byte back: nothing has changed in between. *)
LEMMA DispMarcaInv == ASSUME MarcosInv, DispMarca PROVE MarcosInv'
<1>1. /\ UNCHANGED <<tabla, config, acceso, corre>>
      /\ escrito' = SinMarca
      /\ escrito # SinMarca
      /\ ocupados' = (ocupados \ ByteDe(escrito.marco)) \union escrito.byte
                       \union {escrito.marco}
  BY DEF DispMarca, MarcarConByte, mmu_vars, cpu_vars
<1>2. \A p \in PID : \A i \in Paginas(p) : tabla[p][i] \in ocupados'
  BY <1>1 DEF MarcosInv, ByteVigente, MarcosMarcados
<1>3. AccesoOK'
  BY <1>1 DEF MarcosInv, AccesoOK
<1>4. ResizeSinIO'
  BY <1>1 DEF MarcosInv, ResizeSinIO, ByteVigente
<1> QED
  BY <1>1, <1>2, <1>3, <1>4, MarcarInv

-----------------------------------------------------------------------------
(* The CPU *)

(* A step of the CPU that is not part of RESIZE and writes nothing. *)
LEMMA SinResizeInv ==
  ASSUME MarcosInv, UNCHANGED <<tabla, ocupados, config, escrito>>,
         cola_io # <<>> => cola_io' # <<>>,
         corre' \in PID \union {Nadie},
         "op" \in DOMAIN acceso', acceso'.op # "RESIZE"
  PROVE  MarcosInv'
<1>1. AccesoOK' /\ ResizeSinIO'
  BY DEF MarcosInv, AccesoOK, ResizeSinIO
<1>2. escrito' = SinMarca \/ (escrito' = escrito /\ cola_io' # <<>>)
  BY DEF MarcosInv, ByteVigente
<1> QED
  BY <1>1, <1>2, SinTocarMarcos

LEMMA EmpiezaInv ==
  ASSUME MarcosInv, NEW op, op # "RESIZE", NEW dl, NEW tam, NEW dato, NEW di,
         Empieza(Acceso(op, dl, tam, dato, di))
  PROVE  MarcosInv'
<1>1. /\ UNCHANGED <<tabla, ocupados, config, corre, escrito, cola_io>>
      /\ acceso' = Acceso(op, dl, tam, dato, di)
  BY DEF Empieza, pag_vars, mmu_vars, io_vars
<1>2. "op" \in DOMAIN acceso' /\ acceso'.op = op
  BY <1>1 DEF Acceso
<1>3. corre' \in PID \union {Nadie}
  BY <1>1 DEF MarcosInv, AccesoOK
<1> QED
  BY <1>1, <1>2, <1>3, SinResizeInv

LEMMA SinAccesoInv ==
  ASSUME MarcosInv, UNCHANGED <<tabla, ocupados, config, escrito>>,
         cola_io # <<>> => cola_io' # <<>>,
         corre' \in PID \union {Nadie}, acceso' = SinAcceso
  PROVE  MarcosInv'
<1>1. "op" \in DOMAIN acceso' /\ acceso'.op # "RESIZE"
  BY DEF SinAcceso
<1> QED
  BY <1>1, SinResizeInv

LEMMA RESIZEInv ==
  ASSUME SinCarrera, MarcosInv, NEW tamanio, RESIZE(tamanio)
  PROVE  MarcosInv'
<1>1. UNCHANGED <<tabla, ocupados, config, escrito, cola_io>>
  BY DEF RESIZE, pag_vars, mmu_vars, io_vars
<1>2. corre \in PID /\ (config.dispositivo = "STDIN" => cola_io = <<>>)
  BY DEF RESIZE, MarcosInv, AccesoOK, SinCarrera
<1>3. \/ acceso' = [op |-> "RESIZE", paginas |-> PaginasPara(tamanio)] /\ corre' = corre
      \/ acceso' = SinAcceso /\ corre' = Nadie
  BY DEF RESIZE, SinMemoria
<1>4. AccesoOK' /\ ResizeSinIO'
  BY <1>1, <1>2, <1>3 DEF MarcosInv, AccesoOK, ResizeSinIO, SinAcceso
<1>5. escrito' = SinMarca \/ (escrito' = escrito /\ cola_io' # <<>>)
  BY <1>1 DEF MarcosInv, ByteVigente
<1> QED
  BY <1>1, <1>4, <1>5, SinTocarMarcos

LEMMA AjustaPaginaInv == ASSUME SinCarrera, MarcosInv, AjustaPagina PROVE MarcosInv'
<1>1. acceso.op = "RESIZE" /\ UNCHANGED <<mmu_vars, io_vars>>
  BY DEF AjustaPagina
<1>2. CASE AsignarMarco(corre) /\ UNCHANGED cpu_vars
  BY <1>1, <1>2, AsignarInv
<1>3. CASE QuitarPagina(corre) /\ UNCHANGED cpu_vars
  BY <1>1, <1>3, QuitarInv
<1>4. CASE SinMemoria /\ UNCHANGED <<pag_vars, hechas>>
  BY <1>1, <1>4, SinAccesoInv DEF SinMemoria, pag_vars, mmu_vars, io_vars
<1> QED
  BY <1>2, <1>3, <1>4 DEF AjustaPagina

(* An instruction in course keeps its name. *)
LEMMA SigueInv ==
  ASSUME MarcosInv, UNCHANGED <<tabla, ocupados, config, escrito, corre, cola_io>>,
         acceso.op # "RESIZE", DOMAIN acceso' = DOMAIN acceso, acceso'.op = acceso.op
  PROVE  MarcosInv'
<1>1. corre' \in PID \union {Nadie} /\ "op" \in DOMAIN acceso' /\ acceso'.op # "RESIZE"
  BY DEF MarcosInv, AccesoOK
<1> QED
  BY <1>1, SinResizeInv

LEMMA TraduceInv == ASSUME MarcosInv, Traduce PROVE MarcosInv'
<1>1. UNCHANGED <<tabla, ocupados, config, escrito, corre, cola_io>>
  BY DEF Traduce, pag_vars, io_vars
<1>2. acceso.op # "RESIZE" /\ "op" \in DOMAIN acceso
  BY DEF Traduce, Traduciendo, Lectoras, Escritoras, MarcosInv, AccesoOK
<1>3. PICK x, y, z : acceso' = [acceso EXCEPT !.dl = x, !.resta = y, !.dfs = z]
  BY DEF Traduce
<1>4. DOMAIN acceso' = DOMAIN acceso /\ acceso'.op = acceso.op
  BY <1>2, <1>3
<1> QED
  BY <1>1, <1>2, <1>4, SigueInv

LEMMA LeeInv == ASSUME MarcosInv, Lee PROVE MarcosInv'
<1>1. UNCHANGED <<tabla, ocupados, config, escrito, corre, cola_io>>
  BY DEF Lee, pag_vars, mmu_vars, io_vars
<1>2. acceso.op # "RESIZE" /\ "op" \in DOMAIN acceso
  BY DEF Lee, Lectoras, MarcosInv, AccesoOK
<1>3. PICK x, y : acceso' = [acceso EXCEPT !.dfs = x, !.dato = y]
  BY DEF Lee
<1>4. DOMAIN acceso' = DOMAIN acceso /\ acceso'.op = acceso.op
  BY <1>2, <1>3
<1> QED
  BY <1>1, <1>2, <1>4, SigueInv

LEMMA TerminaLecturaInv == ASSUME MarcosInv, TerminaLectura PROVE MarcosInv'
<1>1. UNCHANGED <<tabla, ocupados, config, escrito, corre, cola_io>>
  BY DEF TerminaLectura, pag_vars, mmu_vars, io_vars
<1>2. corre' \in PID \union {Nadie}
  BY <1>1 DEF MarcosInv, AccesoOK
<1>3. "op" \in DOMAIN acceso' /\ acceso'.op # "RESIZE"
  BY DEF TerminaLectura, Acceso, SinAcceso
<1> QED
  BY <1>1, <1>2, <1>3, SinResizeInv

LEMMA EscribeInv == ASSUME MarcosInv, Escribe PROVE MarcosInv'
<1>1. UNCHANGED <<tabla, config, escrito, corre, cola_io>>
  BY DEF Escribe, EscribirEnMemoria, mmu_vars, io_vars
<1>2. acceso.op # "RESIZE" /\ "op" \in DOMAIN acceso
  BY DEF Escribe, Escritoras, MarcosInv, AccesoOK
<1>3. \A p \in PID : \A i \in Paginas(p) : tabla[p][i] \in ocupados'
  BY DEF Escribe, EscribirEnMemoria, MarcosInv, MarcosMarcados
<1>4. PICK x, y, z :
         \/ acceso' = SinAcceso
         \/ acceso' = [acceso EXCEPT !.dfs = x, !.inicio = y, !.dato = z]
  BY DEF Escribe
<1>5. "op" \in DOMAIN acceso' /\ acceso'.op # "RESIZE"
  <2>1. CASE acceso' = SinAcceso
    BY <2>1 DEF SinAcceso
  <2>2. CASE acceso' = [acceso EXCEPT !.dfs = x, !.inicio = y, !.dato = z]
    BY <1>2, <2>2
  <2> QED
    BY <1>4, <2>1, <2>2
<1>6. AccesoOK' /\ ResizeSinIO'
  BY <1>1, <1>5 DEF MarcosInv, AccesoOK, ResizeSinIO
<1>7. escrito' = SinMarca \/ (escrito' = escrito /\ cola_io' # <<>>)
  BY <1>1 DEF MarcosInv, ByteVigente
<1> QED
  BY <1>1, <1>3, <1>6, <1>7, MarcarInv

LEMMA BloqueaInv == ASSUME MarcosInv, Bloquea PROVE MarcosInv'
<1>1. UNCHANGED <<tabla, ocupados, config, escrito>> /\ corre' = Nadie /\ acceso' = SinAcceso
  BY DEF Bloquea, pag_vars, mmu_vars
<1>2. PICK x : cola_io' = Append(cola_io, x)
  BY DEF Bloquea
<1>3. cola_io # <<>> => cola_io' # <<>>
  BY <1>2
<1> QED
  BY <1>1, <1>3, SinAccesoInv

LEMMA DespachaInv == ASSUME MarcosInv, NEW p \in PID, Despacha(p) PROVE MarcosInv'
<1>1. UNCHANGED <<tabla, ocupados, config, escrito, cola_io, acceso>> /\ corre' = p
  BY DEF Despacha, pag_vars, mmu_vars, io_vars
<1>2. AccesoOK' /\ ResizeSinIO'
  BY <1>1 DEF MarcosInv, AccesoOK, ResizeSinIO
<1>3. escrito' = SinMarca \/ (escrito' = escrito /\ cola_io' # <<>>)
  BY <1>1 DEF MarcosInv, ByteVigente
<1> QED
  BY <1>1, <1>2, <1>3, SinTocarMarcos

LEMMA DejaInv == ASSUME MarcosInv, Deja PROVE MarcosInv'
<1>1. /\ UNCHANGED <<tabla, ocupados, config, escrito, cola_io>>
      /\ corre' = Nadie /\ acceso' = SinAcceso
  BY DEF Deja, pag_vars, mmu_vars, io_vars
<1> QED
  BY <1>1, SinAccesoInv

LEMMA RespuestaInv == ASSUME MarcosInv, RespuestaResize PROVE MarcosInv'
<1>1. /\ UNCHANGED <<tabla, ocupados, config, escrito, cola_io, corre>>
      /\ acceso' = SinAcceso
  BY DEF RespuestaResize, pag_vars, mmu_vars, io_vars
<1>2. corre' \in PID \union {Nadie}
  BY <1>1 DEF MarcosInv, AccesoOK
<1> QED
  BY <1>1, <1>2, SinAccesoInv

LEMMA SigueIgual ==
  ASSUME MarcosInv, UNCHANGED <<tabla, ocupados, config, corre, acceso, escrito, cola_io>>
  PROVE  MarcosInv'
<1>1. AccesoOK' /\ ResizeSinIO'
  BY DEF MarcosInv, AccesoOK, ResizeSinIO
<1>2. escrito' = SinMarca \/ (escrito' = escrito /\ cola_io' # <<>>)
  BY DEF MarcosInv, ByteVigente
<1> QED
  BY <1>1, <1>2, SinTocarMarcos

LEMMA DispTecladoInv == ASSUME MarcosInv, DispTeclado PROVE MarcosInv'
  BY SigueIgual DEF DispTeclado, pag_vars, mmu_vars, cpu_vars

(* A STDOUT device never marks. *)
LEMMA DispLeeInv == ASSUME MarcosInv, DispLee PROVE MarcosInv'
<1>1. UNCHANGED <<tabla, ocupados, config, escrito, corre, acceso>>
  BY DEF DispLee, pag_vars, mmu_vars, cpu_vars
<1>2. config.dispositivo # "STDIN"
  BY DEF DispLee
<1>3. AccesoOK' /\ ResizeSinIO'
  BY <1>1, <1>2 DEF MarcosInv, AccesoOK, ResizeSinIO
<1>4. escrito' = SinMarca
  BY <1>1, <1>2 DEF MarcosInv, ByteVigente
<1> QED
  BY <1>1, <1>3, <1>4, SinTocarMarcos

-----------------------------------------------------------------------------
LEMMA MarcosPaso ==
  ASSUME SinCarrera, MarcosInv, [MemNext]_mem_vars
  PROVE  MarcosInv'
<1>1. CASE UNCHANGED mem_vars
  BY <1>1, SigueIgual DEF mem_vars, pag_vars, mmu_vars, cpu_vars, io_vars
<1>2. ASSUME NEW p \in PID, Crear(p) PROVE MarcosInv'
  BY <1>2, VaciaTabla DEF Crear, CrearProceso
<1>3. ASSUME NEW p \in PID, Fin(p) PROVE MarcosInv'
  BY <1>3, VaciaTabla DEF Fin, FinProceso
<1>4. ASSUME NEW p \in PID, Despacha(p) PROVE MarcosInv'
  BY <1>4, DespachaInv
<1>5. CASE Deja
  BY <1>5, DejaInv
<1>6. CASE MOV_IN
  BY <1>6, EmpiezaInv DEF MOV_IN
<1>7. CASE MOV_OUT
  BY <1>7, EmpiezaInv DEF MOV_OUT
<1>8. CASE COPY_STRING
  BY <1>8, EmpiezaInv DEF COPY_STRING
<1>9. CASE IO
  BY <1>9, EmpiezaInv DEF IO
<1>10. ASSUME NEW tamanio, RESIZE(tamanio) PROVE MarcosInv'
  BY <1>10, RESIZEInv
<1>11. CASE AjustaPagina
  BY <1>11, AjustaPaginaInv
<1>12. CASE RespuestaResize
  BY <1>12, RespuestaInv
<1>13. CASE Traduce \/ Lee \/ TerminaLectura \/ Escribe \/ Bloquea
  BY <1>13, TraduceInv, LeeInv, TerminaLecturaInv, EscribeInv, BloqueaInv
<1>14. CASE DispLee \/ DispTeclado
  BY <1>14, DispLeeInv, DispTecladoInv
<1>15. CASE DispEscribe \/ DispMarca
  BY <1>15, DispEscribeInv, DispMarcaInv
<1> QED
  BY <1>1, <1>2, <1>3, <1>4, <1>5, <1>6, <1>7, <1>8, <1>9, <1>10, <1>11, <1>12, <1>13,
     <1>14, <1>15 DEF MemNext

(* No two pages of any processes have the same frame: the bitmap protocol   *)
(* of paginacion.c is enough while no device writes during a RESIZE.        *)
THEOREM TablasDisjuntasSiempre ==
  ASSUME SinCarrera PROVE MemSpec => []TablasDisjuntas
<1>1. MemInit => MarcosInv
  BY MarcosInicial
<1>2. MarcosInv /\ [MemNext]_mem_vars => MarcosInv'
  BY MarcosPaso
<1>3. MarcosInv => TablasDisjuntas
  BY DEF MarcosInv
<1> QED
  BY <1>1, <1>2, <1>3, PTL DEF MemSpec

(* Under the same precondition every page's frame is marked as occupied.    *)
THEOREM MarcosMarcadosSiempre ==
  ASSUME SinCarrera PROVE MemSpec => []MarcosMarcados
<1>1. MemInit => MarcosInv
  BY MarcosInicial
<1>2. MarcosInv /\ [MemNext]_mem_vars => MarcosInv'
  BY MarcosPaso
<1>3. MarcosInv => MarcosMarcados
  BY DEF MarcosInv
<1> QED
  BY <1>1, <1>2, <1>3, PTL DEF MemSpec

-----------------------------------------------------------------------------
(* The quotient and the remainder of a logical or physical address. *)
LEMMA DivMod ==
  ASSUME NEW d \in Nat
  PROVE  /\ Pagina(d) \in Nat /\ MarcoDe(d) = Pagina(d)
         /\ Desplazamiento(d) \in 0..(TamPagina - 1)
         /\ d = Pagina(d) * TamPagina + Desplazamiento(d)
BY PaginacionAssumption DEF Pagina, Desplazamiento, MarcoDe

(* They are the only ones. *)
LEMMA DivModUnico ==
  ASSUME NEW q \in Nat, NEW r \in 0..(TamPagina - 1)
  PROVE  Pagina(q * TamPagina + r) = q /\ Desplazamiento(q * TamPagina + r) = r
BY PaginacionAssumption DEF Pagina, Desplazamiento

(* An address inside n pages is in one of them. *)
LEMMA PaginaMenor ==
  ASSUME NEW d \in Nat, NEW n \in Nat, d < n * TamPagina
  PROVE  Pagina(d) < n
BY PaginacionAssumption DEF Pagina

-----------------------------------------------------------------------------
(***************************************************************************)
(* The fragments of an access follow one another: they go from the logical *)
(* address ini to fin without holes (listaDireccionesFisicas).             *)
(***************************************************************************)
Cadena(dfs, ini, fin) ==
    /\ ini \in Nat /\ fin \in Nat /\ ini <= fin
    /\ dfs = <<>> => ini = fin
    /\ dfs # <<>> => /\ dfs[1].dl = ini
                     /\ dfs[Len(dfs)].dl + dfs[Len(dfs)].tam = fin
    /\ \A i \in 1..Len(dfs) : dfs[i].dl + dfs[i].tam <= fin
    /\ \A i \in 1..(Len(dfs) - 1) : dfs[i + 1].dl = dfs[i].dl + dfs[i].tam

(* The fields of a fragment. *)
LEMMA Fragmentos ==
  ASSUME NEW dfs \in Seq(Fragmento), NEW k \in 1..Len(dfs)
  PROVE  /\ dfs[k] \in Fragmento /\ dfs[k].dl \in Nat
         /\ dfs[k].tam \in Nat \ {0} /\ dfs[k].df \in Direcciones
<1>1. dfs[k] \in Fragmento
  BY ElementOfSeq
<1> QED
  BY <1>1 DEF Fragmento

(* One more fragment. *)
LEMMA CadenaAppend ==
  ASSUME NEW dfs \in Seq(Fragmento), NEW ini, NEW fin, Cadena(dfs, ini, fin),
         NEW f \in Fragmento, f.dl = fin
  PROVE  Cadena(Append(dfs, f), ini, fin + f.tam)
<1> DEFINE n == Len(dfs)
           t == Append(dfs, f)
<1>1. /\ n \in Nat /\ f.tam \in Nat \ {0} /\ ini \in Nat /\ fin \in Nat
      /\ ini <= fin
  BY LenProperties DEF Fragmento, Cadena
<1>2. /\ Len(t) = n + 1 /\ t # <<>> /\ t[n + 1] = f
      /\ \A i \in 1..n :
           t[i] = dfs[i] /\ dfs[i].dl \in Nat /\ dfs[i].tam \in Nat
  BY <1>1, Fragmentos
<1> HIDE DEF t
<1>3. t[1].dl = ini
  <2>1. CASE dfs = <<>>
    BY <1>2, <2>1 DEF Cadena
  <2>2. CASE dfs # <<>>
    <3>1. n > 0
      BY <1>1, <2>2
    <3> QED
      BY <1>2, <2>2, <3>1 DEF Cadena
  <2> QED
    BY <2>1, <2>2
<1>4. ASSUME NEW i \in 1..(n + 1) PROVE t[i].dl + t[i].tam <= fin + f.tam
  <2>1. CASE i = n + 1
    BY <1>1, <1>2, <2>1
  <2>2. CASE i \in 1..n
    <3>1. dfs[i].dl + dfs[i].tam <= fin
      BY <2>2 DEF Cadena
    <3> QED
      BY <1>1, <1>2, <2>2, <3>1
  <2> QED
    BY <1>1, <2>1, <2>2
<1>5. ASSUME NEW i \in 1..n PROVE t[i + 1].dl = t[i].dl + t[i].tam
  <2>1. CASE i = n
    <3>1. dfs # <<>> /\ t[i] = dfs[n] /\ t[i + 1] = f
      BY <1>1, <1>2, <2>1
    <3> QED
      BY <2>1, <3>1 DEF Cadena
  <2>2. CASE i # n
    <3>1. i \in 1..(n - 1) /\ t[i] = dfs[i] /\ t[i + 1] = dfs[i + 1]
      BY <1>1, <1>2, <2>2
    <3> QED
      BY <3>1 DEF Cadena
  <2> QED
    BY <2>1, <2>2
<1>6. Cadena(t, ini, fin + f.tam)
  BY <1>1, <1>2, <1>3, <1>4, <1>5 DEF Cadena
<1> QED
  BY <1>6 DEF t

(* The first fragment goes. *)
LEMMA CadenaTail ==
  ASSUME NEW dfs \in Seq(Fragmento), NEW ini, NEW fin, Cadena(dfs, ini, fin),
         dfs # <<>>
  PROVE  /\ Head(dfs) \in Fragmento /\ Tail(dfs) \in Seq(Fragmento)
         /\ Head(dfs).dl = ini /\ ini + Head(dfs).tam <= fin
         /\ Cadena(Tail(dfs), ini + Head(dfs).tam, fin)
<1> DEFINE n == Len(dfs)
           f == Head(dfs)
           t == Tail(dfs)
<1>1. /\ n \in Nat /\ n > 0 /\ f \in Fragmento /\ f = dfs[1]
      /\ t \in Seq(Fragmento)
  OBVIOUS
<1>2. /\ Len(t) = n - 1 /\ (t = <<>> <=> n = 1)
      /\ \A i \in 1..(n - 1) : t[i] = dfs[i + 1]
  <2>1. /\ Len(t) = n - 1
        /\ \A i \in 1..(n - 1) : t[i] = dfs[i + 1]
    BY HeadTailProperties
  <2>2. t = <<>> <=> Len(t) = 0
    BY <1>1, EmptySeq
  <2> QED
    BY <1>1, <2>1, <2>2
<1>3. /\ f.tam \in Nat /\ f.dl = ini /\ ini \in Nat /\ fin \in Nat
      /\ ini + f.tam <= fin
  BY <1>1 DEF Cadena, Fragmento
<1> HIDE DEF f, t
<1>4. n = 1 => ini + f.tam = fin
  BY <1>1, <1>3 DEF Cadena
<1>5. n > 1 => t[1].dl = ini + f.tam /\ t[n - 1].dl + t[n - 1].tam = fin
  <2> SUFFICES ASSUME n > 1
               PROVE  t[1].dl = ini + f.tam /\ t[n - 1].dl + t[n - 1].tam = fin
    OBVIOUS
  <2>1. t[1] = dfs[2] /\ t[n - 1] = dfs[n]
    BY <1>1, <1>2
  <2>2. dfs[1 + 1].dl = dfs[1].dl + dfs[1].tam
    BY <1>1 DEF Cadena
  <2> QED
    BY <1>1, <1>3, <2>1, <2>2 DEF Cadena
<1>6. \A i \in 1..(n - 1) : t[i].dl + t[i].tam <= fin
  BY <1>1, <1>2 DEF Cadena
<1>7. ASSUME NEW i \in 1..(n - 2) PROVE t[i + 1].dl = t[i].dl + t[i].tam
  <2>1. /\ i + 1 \in 1..(n - 1) /\ t[i + 1] = dfs[(i + 1) + 1]
        /\ t[i] = dfs[i + 1]
    BY <1>1, <1>2
  <2> QED
    BY <2>1 DEF Cadena
<1>8. Cadena(t, ini + f.tam, fin)
  BY <1>1, <1>2, <1>3, <1>4, <1>5, <1>6, <1>7 DEF Cadena
<1> QED
  BY <1>1, <1>3, <1>8 DEF f, t

(* Where the last fragment ends. *)
Final(dfs) == dfs[Len(dfs)].dl + dfs[Len(dfs)].tam

(* The running total of determinar_tamanio_a_escribir, at its end, is the  *)
(* length of the access: a chain of fragments has no holes.                *)
LEMMA PendientesLargo ==
  ASSUME NEW dfs \in Seq(Fragmento), NEW ini, NEW fin, Cadena(dfs, ini, fin)
  PROVE  Pendientes(dfs) = fin - ini
<1> DEFINE n == Len(dfs)
           H == CHOOSE f : f = [k \in 0..Len(dfs) |->
                                  IF k = 0 THEN 0 ELSE f[k - 1] + dfs[k].tam]
           G == [k \in 0..n |-> IF k = 0 THEN 0
                                ELSE dfs[k].dl + dfs[k].tam - ini]
<1>0. /\ n \in Nat /\ ini \in Nat /\ fin \in Nat
      /\ \A k \in 1..n : dfs[k].dl \in Nat /\ dfs[k].tam \in Nat
  BY LenProperties, Fragmentos DEF Cadena
<1>1. Pendientes(dfs) = H[n]
  BY DEF Pendientes
<1>2. ASSUME NEW k \in 1..n
      PROVE  G[k] = G[k - 1] + dfs[k].tam /\ k - 1 \in 0..n
  <2>1. k - 1 \in 0..n /\ G[k] = dfs[k].dl + dfs[k].tam - ini
    BY <1>0
  <2>2. CASE k = 1
    <3>1. G[k - 1] = 0 /\ dfs # <<>>
      BY <1>0, <2>2
    <3> QED
      BY <1>0, <2>1, <2>2, <3>1 DEF Cadena
  <2>3. CASE k # 1
    <3>1. /\ k - 1 \in 1..(n - 1)
          /\ G[k - 1] = dfs[k - 1].dl + dfs[k - 1].tam - ini
      BY <1>0, <2>3
    <3>2. dfs[(k - 1) + 1].dl = dfs[k - 1].dl + dfs[k - 1].tam
      BY <3>1 DEF Cadena
    <3>3. (k - 1) + 1 = k /\ dfs[k - 1].dl \in Nat /\ dfs[k - 1].tam \in Nat
      BY <1>0, <3>1
    <3> HIDE DEF G
    <3>5. dfs[k].dl = dfs[k - 1].dl + dfs[k - 1].tam /\ dfs[k].tam \in Nat
      BY <1>0, <3>2, <3>3
    <3>6. G[k] = (dfs[k - 1].dl + dfs[k - 1].tam) + dfs[k].tam - ini
      BY <2>1, <3>5
    <3>7. ini \in Nat
      BY <1>0
    <3>8. G[k] = (dfs[k - 1].dl + dfs[k - 1].tam - ini) + dfs[k].tam
      <4> DEFINE u == dfs[k - 1].dl
                 v == dfs[k - 1].tam
                 x == dfs[k].tam
      <4>1. u \in Nat /\ v \in Nat /\ x \in Nat
        BY <3>3, <3>5
      <4> HIDE DEF u, v, x
      <4>2. (u + v) + x - ini = (u + v - ini) + x
        BY <3>7, <4>1
      <4> QED
        BY <3>6, <4>2 DEF u, v, x
    <3> QED
      BY <2>1, <3>1, <3>8
  <2> QED
    BY <2>2, <2>3
<1>3. G = [k \in 0..n |-> IF k = 0 THEN 0 ELSE G[k - 1] + dfs[k].tam]
  <2>0. G[0] = 0
    BY <1>0
  <2>1. G[0] = 0 /\ \A k \in 1..n : G[k] = G[k - 1] + dfs[k].tam
    <3> HIDE DEF G, H
    <3> QED
      BY <1>2, <2>0
  <2>2. G = [k \in 0..n |-> G[k]]
    OBVIOUS
  <2> HIDE DEF G, H
  <2>3. \A k \in 0..n : k = 0 \/ k \in 1..n
    BY <1>0
  <2> QED
    BY <2>1, <2>2, <2>3
<1>4. G[0] = 0 /\ G[n] = fin - ini
  <2>1. CASE n = 0
    BY <1>0, <2>1 DEF Cadena
  <2>2. CASE n # 0
    <3>1. dfs # <<>> /\ n \in 1..n
      BY <1>0, <2>2
    <3> DEFINE e == dfs[n].dl + dfs[n].tam
    <3>2. e = fin
      BY <3>1 DEF Cadena
    <3>3. G[0] = 0 /\ G[n] = e - ini
      BY <1>0, <2>2
    <3> HIDE DEF G, H, n, e
    <3> QED
      BY <3>2, <3>3
  <2> QED
    BY <2>1, <2>2
<1> HIDE DEF G
<1>5. H = [k \in 0..n |-> IF k = 0 THEN 0 ELSE H[k - 1] + dfs[k].tam]
  BY <1>3
<1> HIDE DEF H
<1>6. H[n] = G[n]
  <2> DEFINE Malos == {k \in 0..n : H[k] # G[k]}
  <2> SUFFICES ASSUME Malos # {} PROVE FALSE
    BY <1>0
  <2>0. Malos \in SUBSET Nat
    BY <1>0
  <2>1. Min(Malos) \in Malos /\ \A k \in Malos : Min(Malos) <= k
    BY <2>0, MinimoExiste
  <2> DEFINE m == Min(Malos)
  <2>2. m \in Malos /\ \A k \in Malos : m <= k
    BY <2>1
  <2> HIDE DEF m
  <2>3. H[0] = 0
    BY <1>0, <1>5
  <2>4. m \in 1..n
    BY <1>0, <1>4, <2>2, <2>3
  <2>5. m - 1 \in 0..n /\ m - 1 \notin Malos
    BY <1>0, <2>2, <2>4
  <2>6. H[m] = H[m - 1] + dfs[m].tam
    BY <1>5, <2>4
  <2>7. G[m] = G[m - 1] + dfs[m].tam
    BY <1>2, <2>4
  <2> QED
    BY <2>2, <2>5, <2>6, <2>7
<1> QED
  BY <1>1, <1>4, <1>6

-----------------------------------------------------------------------------
(***************************************************************************)
(* The invariant behind MemTypeOK.  An access has a chain of fragments     *)
(* that covers what was translated and is still to be used, and as many    *)
(* bytes as it still has to write; a device has as many as its fragments   *)
(* ask for.  Who is in the CPU or waits for the device is alive.           *)
(***************************************************************************)
Accesos ==
    [op : Lectoras \union Escritoras \union {"IO"}, dl : Nat, resta : Nat,
     dfs : Seq(Fragmento), inicio : Nat, dato : Seq(Bytes), di : Nat,
     tam : Nat \ {0}]

(* A request in the device's queue. *)
Pedidos == [pid : PID, dfs : Seq(Fragmento)]

(* A fragment ends before memoria does. *)
Entera(f) == f.df + f.tam <= CantMarcos * TamPagina

(* All the fragments of an access do. *)
Enteras(dfs) == \A k \in 1..Len(dfs) : Entera(dfs[k])

(* An access of a process with so many bytes. *)
AccesoBien(a, bytes) ==
    /\ Cadena(a.dfs, IF a.op \in Lectoras THEN a.inicio + Len(a.dato)
                                          ELSE a.inicio, a.dl)
    /\ Enteras(a.dfs)
    /\ a.dl + a.resta <= bytes
    /\ a.op \in Lectoras => a.inicio + a.tam = a.dl + a.resta
    /\ a.op \notin Lectoras => a.inicio < a.dl + a.resta
    /\ a.op \in Escritoras => a.inicio + Len(a.dato) = a.dl + a.resta
    /\ a.op = "COPY_LEE" => a.di + a.tam <= bytes

(* The fragments of a request: one at least, without holes. *)
PedidoBien(dfs) ==
    /\ dfs # <<>>
    /\ Cadena(dfs, dfs[1].dl, Final(dfs))
    /\ Enteras(dfs)

(* The TLB never has more entries than configured. *)
TlbOK ==
    /\ config \in Configs
    /\ tlb \in Seq(RegistrosTLB)
    /\ Len(tlb) <= config.cantidad_entradas_tlb

(* The CPU is between two instructions, in a RESIZE or in an access. *)
CpuOK ==
    /\ corre \in PID \union {Nadie}
    /\ hechas \in 0..MaxInstrucciones
    /\ acabado \subseteq PID
    /\ \/ acceso = SinAcceso
       \/ corre \in PID /\ acceso \in [op : {"RESIZE"}, paginas : Nat]
       \/ corre \in PID /\ acceso \in Accesos /\ AccesoBien(acceso, Tamanio(corre))

(* The device's queue. *)
ColaOK ==
    /\ cola_io \in Seq(Pedidos)
    /\ \A k \in 1..Len(cola_io) : PedidoBien(cola_io[k].dfs)

(* The bytes of the console that are left. *)
TecladoOK ==
    /\ teclado \in Seq(Bytes)
    /\ escrito = SinMarca \/ escrito \in [marco : Marcos, byte : SUBSET Marcos]
    /\ escrito # SinMarca \/ teclado # <<>> =>
         /\ cola_io # <<>> /\ config.dispositivo = "STDIN"
         /\ LET dfs == Head(cola_io).dfs IN
            Len(teclado) = Final(dfs) - dfs[1].dl
                             - (IF escrito = SinMarca THEN 0 ELSE dfs[1].tam)

(* Who runs or waits for the device is alive, and does only one of them. *)
VivosOK ==
    /\ corre \in PID => vida[corre] = "presente"
    /\ \A k \in 1..Len(cola_io) :
         cola_io[k].pid # corre /\ vida[cola_io[k].pid] = "presente"

(* The parts, together. *)
TipoInv == PagTypeOK /\ TlbOK /\ CpuOK /\ ColaOK /\ TecladoOK /\ VivosOK

(* What the MMU adds to an access lies in its page, and in memoria. *)
LEMMA FragmentoDe ==
  ASSUME NEW marco \in Marcos, NEW dl \in Nat, NEW resta \in Nat \ {0}
  PROVE  LET tam == TamFragmento(dl, resta)
             df == marco * TamPagina + Desplazamiento(dl)
         IN /\ tam \in Nat \ {0} /\ tam <= resta
            /\ Desplazamiento(dl) + tam <= TamPagina
            /\ df \in Direcciones /\ df + tam <= CantMarcos * TamPagina
<1> DEFINE tam == TamFragmento(dl, resta)
           df == marco * TamPagina + Desplazamiento(dl)
<1>1. Desplazamiento(dl) \in 0..(TamPagina - 1) /\ TamPagina \in Nat \ {0}
      /\ CantMarcos \in Nat
  BY DivMod, PaginacionAssumption
<1>2. /\ tam \in Nat \ {0} /\ tam <= resta
      /\ Desplazamiento(dl) + tam <= TamPagina
  BY <1>1 DEF TamFragmento
<1>3. marco \in Nat /\ marco + 1 <= CantMarcos
  BY <1>1 DEF Marcos
<1>4. (marco + 1) * TamPagina <= CantMarcos * TamPagina
      /\ (marco + 1) * TamPagina = marco * TamPagina + TamPagina
      /\ marco * TamPagina \in Nat /\ CantMarcos * TamPagina \in Nat
  BY <1>1, <1>3
<1> DEFINE a == marco * TamPagina
           b == CantMarcos * TamPagina
<1>5. a \in Nat /\ b \in Nat /\ a + TamPagina <= b
  BY <1>1, <1>4
<1>6. Direcciones = 0..(b - 1) /\ df = a + Desplazamiento(dl)
  BY DEF Direcciones
<1> HIDE DEF a, b, tam, df
<1>7. df \in Direcciones /\ df + tam <= b
  BY <1>1, <1>2, <1>5, <1>6
<1> QED
  BY <1>2, <1>7 DEF tam, df, b

(* A read of a fragment gives its bytes. *)
LEMMA LeidoTipo ==
  ASSUME PagTypeOK, NEW f \in Fragmento, Entera(f)
  PROVE  LET leido == EnviarDatoLeido(LeerDeMemoria(f.df, f.tam))
         IN  leido \in Seq(Bytes) /\ Len(leido) = f.tam
<1> DEFINE l == LeerDeMemoria(f.df, f.tam)
           leido == EnviarDatoLeido(l)
<1>1. /\ f.df \in Nat /\ f.tam \in Nat \ {0}
      /\ f.df + f.tam <= CantMarcos * TamPagina
      /\ CantMarcos * TamPagina \in Nat
  BY PaginacionAssumption DEF Fragmento, Direcciones, Entera
<1>2. \A k \in 1..f.tam : f.df + k - 1 \in Direcciones
  BY <1>1 DEF Direcciones
<1>3. DOMAIN l = 1..f.tam /\ \A k \in 1..f.tam : l[k] \in Bytes
  BY <1>2 DEF LeerDeMemoria, PagTypeOK
<1> HIDE DEF l
<1>4. leido \in [1..f.tam -> Bytes]
  BY <1>3, PaginacionAssumption DEF EnviarDatoLeido
<1> HIDE DEF leido
<1>5. leido \in Seq(Bytes) /\ Len(leido) = f.tam
  BY <1>1, <1>4
<1> QED
  BY <1>5 DEF leido, l

(* The part of a text that goes to a fragment, and the part that is left. *)
LEMMA TextoPartido ==
  ASSUME NEW s \in Seq(Bytes), NEW n \in Nat \ {0}, n <= Len(s)
  PROVE  /\ SubSeq(s, 1, n) \in Seq(Bytes) /\ Len(SubSeq(s, 1, n)) = n
         /\ \A k \in 1..n : SubSeq(s, 1, n)[k] = s[k]
         /\ SubSeq(s, n + 1, Len(s)) \in Seq(Bytes)
         /\ Len(SubSeq(s, n + 1, Len(s))) = Len(s) - n
         /\ \A k \in 1..(Len(s) - n) : SubSeq(s, n + 1, Len(s))[k] = s[n + k]
<1>1. Len(s) \in Nat /\ \A k \in 1..Len(s) : s[k] \in Bytes
  BY LenProperties, ElementOfSeq
<1>2. \A k \in 1..n : s[k] \in Bytes
  BY <1>1
<1>3. \A k \in (n + 1)..Len(s) : s[k] \in Bytes
  BY <1>1
<1>4. /\ SubSeq(s, 1, n) \in Seq(Bytes) /\ Len(SubSeq(s, 1, n)) = n
      /\ \A k \in 1..n : SubSeq(s, 1, n)[k] = s[k]
  BY <1>1, <1>2, SubSeqProperties
<1>5. /\ SubSeq(s, n + 1, Len(s)) \in Seq(Bytes)
      /\ Len(SubSeq(s, n + 1, Len(s))) = Len(s) - n
      /\ \A k \in 1..(Len(s) - n) : SubSeq(s, n + 1, Len(s))[k] = s[n + k]
  BY <1>1, <1>3, SubSeqProperties
<1> QED
  BY <1>4, <1>5

(* A write of a text at an address. *)
LEMMA MemoriaConTipo ==
  ASSUME PagTypeOK, NEW df \in Nat, NEW s \in Seq(Bytes)
  PROVE  MemoriaCon(df, s) \in [Direcciones -> Bytes]
<1>1. \A k \in 1..Len(s) : s[k] \in Bytes
  BY ElementOfSeq
<1>2. ASSUME NEW d \in Direcciones, d \in df..(df + Len(s) - 1)
      PROVE  s[d - df + 1] \in Bytes
  <2>1. d - df + 1 \in 1..Len(s)
    BY <1>2, LenProperties
  <2> QED
    BY <1>1, <2>1
<1> QED
  BY <1>2 DEF MemoriaCon, PagTypeOK

(* It holds at the beginning. *)
LEMMA TipoInicial == ASSUME MemInit PROVE TipoInv
<1>1. PagTypeOK
  BY PaginacionAssumption, EmptySeq DEF MemInit, PagInit, PagTypeOK
<1>2. TlbOK
  <2>1. config.cantidad_entradas_tlb \in Nat
    BY SistemaAssumption DEF MemInit, ConfigsValidas
  <2>2. tlb = <<>> /\ <<>> \in Seq(RegistrosTLB) /\ Len(<<>>) = 0
    BY EmptySeq DEF MemInit
  <2> QED
    BY <2>1, <2>2 DEF MemInit, TlbOK
<1>3. CpuOK
  BY SistemaAssumption DEF MemInit, CpuOK
<1>4. ColaOK /\ TecladoOK
  BY EmptySeq DEF MemInit, ColaOK, TecladoOK
<1>5. VivosOK
  BY SistemaAssumption DEF MemInit, VivosOK
<1> QED
  BY <1>1, <1>2, <1>3, <1>4, <1>5 DEF TipoInv

-----------------------------------------------------------------------------
(* Steps of the kernel *)

(* The fields of a request. *)
LEMMA UnPedido ==
  ASSUME ColaOK, NEW k \in 1..Len(cola_io)
  PROVE  /\ cola_io[k] \in Pedidos /\ cola_io[k].pid \in PID
         /\ cola_io[k].dfs \in Seq(Fragmento) /\ PedidoBien(cola_io[k].dfs)
<1>1. cola_io[k] \in Pedidos
  BY ElementOfSeq DEF ColaOK
<1> QED
  BY <1>1 DEF ColaOK, Pedidos

(* A process begins or ends: nobody in the CPU, nobody in the device. *)
LEMMA VidaTipo ==
  ASSUME TipoInv, NEW p \in PID, NEW v \in {"presente", "borrado"}, p # corre,
         vida' = [vida EXCEPT ![p] = v], tabla' = [tabla EXCEPT ![p] = <<>>],
         v = "presente" \/ ~EnIO(p),
         UNCHANGED <<ocupados, fisica, mmu_vars, cpu_vars, io_vars>>
  PROVE  TipoInv'
<1>0. PagTypeOK /\ TlbOK /\ CpuOK /\ ColaOK /\ TecladoOK /\ VivosOK
  BY DEF TipoInv
<1>1. \A q \in PID : /\ vida'[q] = IF q = p THEN v ELSE vida[q]
                     /\ tabla'[q] = IF q = p THEN <<>> ELSE tabla[q]
  BY <1>0 DEF PagTypeOK
<1>2. PagTypeOK'
  BY <1>0, EmptySeq DEF PagTypeOK
<1>3. TlbOK' /\ ColaOK' /\ TecladoOK'
  BY <1>0 DEF TlbOK, ColaOK, TecladoOK, mmu_vars, io_vars
<1>4. CpuOK'
  <2>1. corre \in PID => Tamanio(corre)' = Tamanio(corre)
    BY <1>1 DEF Tamanio, cpu_vars
  <2> QED
    BY <1>0, <2>1 DEF CpuOK, cpu_vars
<1>5. VivosOK'
  <2>1. ASSUME NEW k \in 1..Len(cola_io)
        PROVE  vida'[cola_io[k].pid] = "presente"
    <3>1. cola_io[k].pid \in PID /\ vida[cola_io[k].pid] = "presente"
      BY <1>0, UnPedido DEF VivosOK
    <3> QED
      BY <1>1, <3>1 DEF EnIO
  <2> QED
    BY <1>0, <1>1, <2>1 DEF VivosOK, cpu_vars, io_vars
<1> QED
  BY <1>2, <1>3, <1>4, <1>5 DEF TipoInv

(* The CPU is given to a process, or left. *)
LEMMA DespachaTipo ==
  ASSUME TipoInv, NEW p \in PID, Despacha(p)
  PROVE  TipoInv'
<1>0. PagTypeOK /\ TlbOK /\ CpuOK /\ ColaOK /\ TecladoOK /\ VivosOK
  BY DEF TipoInv
<1>1. /\ UNCHANGED <<pag_vars, mmu_vars, acceso, hechas, acabado, io_vars>>
      /\ corre = Nadie /\ corre' = p /\ vida[p] = "presente" /\ ~EnIO(p)
  BY DEF Despacha
<1>2. acceso = SinAcceso
  BY <1>0, <1>1, SistemaAssumption DEF CpuOK
<1>3. PagTypeOK' /\ TlbOK' /\ ColaOK' /\ TecladoOK'
  BY <1>0, <1>1 DEF PagTypeOK, TlbOK, ColaOK, TecladoOK, pag_vars, mmu_vars,
         io_vars
<1>4. CpuOK'
  BY <1>0, <1>1, <1>2 DEF CpuOK
<1>5. VivosOK'
  BY <1>0, <1>1 DEF VivosOK, EnIO, pag_vars, io_vars
<1> QED
  BY <1>3, <1>4, <1>5 DEF TipoInv

(* A step that ends the instruction, in memory untouched. *)
LEMMA TerminaTipo ==
  ASSUME TipoInv, UNCHANGED <<mmu_vars, io_vars, vida, tabla>>, PagTypeOK',
         acceso' = SinAcceso, hechas' \in 0..MaxInstrucciones,
         acabado' \subseteq PID, corre' \in {corre, Nadie}
  PROVE  TipoInv'
<1>0. PagTypeOK /\ TlbOK /\ CpuOK /\ ColaOK /\ TecladoOK /\ VivosOK
  BY DEF TipoInv
<1>3. TlbOK' /\ ColaOK' /\ TecladoOK'
  BY <1>0 DEF TlbOK, ColaOK, TecladoOK, mmu_vars, io_vars
<1>4. CpuOK'
  BY <1>0 DEF CpuOK
<1>5. VivosOK'
  <2>1. ASSUME NEW k \in 1..Len(cola_io) PROVE cola_io[k].pid # Nadie
    BY <1>0, <2>1, UnPedido, SistemaAssumption
  <2> QED
    BY <1>0, <2>1, SistemaAssumption DEF VivosOK, io_vars
<1> QED
  BY <1>3, <1>4, <1>5 DEF TipoInv

(* The instruction goes on, or another begins. *)
LEMMA SigueTipo ==
  ASSUME TipoInv, UNCHANGED <<config, io_vars, vida, tabla, corre, acabado>>,
         PagTypeOK', TlbOK', hechas' \in 0..MaxInstrucciones, corre \in PID,
         \/ acceso' \in [op : {"RESIZE"}, paginas : Nat]
         \/ acceso' \in Accesos /\ AccesoBien(acceso', Tamanio(corre))
  PROVE  TipoInv'
<1>0. PagTypeOK /\ TlbOK /\ CpuOK /\ ColaOK /\ TecladoOK /\ VivosOK
  BY DEF TipoInv
<1>1. Tamanio(corre)' = Tamanio(corre)
  BY DEF Tamanio
<1>2. AccesoBien(acceso', Tamanio(corre)) =>
           AccesoBien(acceso, Tamanio(corre))'
  BY <1>1 DEF AccesoBien, Cadena, Enteras, Entera
<1>3. ColaOK' /\ TecladoOK' /\ VivosOK'
  BY <1>0 DEF ColaOK, TecladoOK, VivosOK, io_vars
<1>4. CpuOK'
  BY <1>0, <1>2 DEF CpuOK
<1> QED
  BY <1>3, <1>4 DEF TipoInv

-----------------------------------------------------------------------------
(* The CPU *)

(* The first step of an instruction. *)
LEMMA EmpiezaTipo ==
  ASSUME TipoInv, NEW op \in {"MOV_IN", "COPY_LEE", "MOV_OUT", "IO"},
         NEW tam \in Nat \ {0}, NEW dl \in Desde(tam), NEW dato \in Seq(Bytes),
         NEW di \in Nat, op = "COPY_LEE" => di \in Desde(tam),
         Len(dato) = IF op = "MOV_OUT" THEN tam ELSE 0,
         Empieza(Acceso(op, dl, tam, dato, di))
  PROVE  TipoInv'
<1>0. PagTypeOK /\ TlbOK /\ CpuOK
  BY DEF TipoInv
<1>1. /\ corre # Nadie /\ hechas < MaxInstrucciones /\ hechas' = hechas + 1
      /\ acceso' = Acceso(op, dl, tam, dato, di)
      /\ UNCHANGED <<pag_vars, mmu_vars, corre, acabado, io_vars>>
  BY DEF Empieza
<1>2. PagTypeOK' /\ TlbOK' /\ hechas' \in 0..MaxInstrucciones /\ corre \in PID
  BY <1>0, <1>1, SistemaAssumption DEF PagTypeOK, TlbOK, CpuOK, pag_vars,
         mmu_vars
<1>3. /\ dl \in Nat /\ dl + tam <= Tamanio(corre)
      /\ op = "COPY_LEE" => di + tam <= Tamanio(corre)
  BY PaginacionAssumption DEF Desde
<1> DEFINE a == Acceso(op, dl, tam, dato, di)
<1>4. /\ a \in Accesos /\ a.op = op /\ a.dl = dl /\ a.resta = tam
      /\ a.dfs = <<>> /\ a.inicio = dl /\ a.dato = dato /\ a.di = di
      /\ a.tam = tam
  BY <1>3, EmptySeq DEF Acceso, Accesos, Lectoras, Escritoras
<1> HIDE DEF a
<1>5. Cadena(<<>>, dl, dl) /\ Enteras(<<>>)
  BY <1>3, EmptySeq DEF Cadena, Enteras
<1>6. AccesoBien(a, Tamanio(corre))
  BY <1>3, <1>4, <1>5 DEF AccesoBien, Lectoras, Escritoras
<1>7. acceso' \in Accesos /\ AccesoBien(acceso', Tamanio(corre))
  BY <1>1, <1>4, <1>6 DEF a
<1>8. UNCHANGED <<config, io_vars, vida, tabla, corre, acabado>>
  BY <1>1 DEF pag_vars, mmu_vars
<1> QED
  BY <1>2, <1>7, <1>8, SigueTipo

(* The count of RESIZE, and its answer when there is no room. *)
LEMMA RESIZETipo ==
  ASSUME TipoInv, NEW tamanio \in Nat, RESIZE(tamanio)
  PROVE  TipoInv'
<1>0. PagTypeOK /\ TlbOK /\ CpuOK
  BY DEF TipoInv
<1>1. /\ corre # Nadie /\ hechas < MaxInstrucciones /\ hechas' = hechas + 1
      /\ UNCHANGED <<pag_vars, mmu_vars, io_vars>>
  BY DEF RESIZE
<1>2. PagTypeOK' /\ TlbOK' /\ hechas' \in 0..MaxInstrucciones /\ corre \in PID
  BY <1>0, <1>1, SistemaAssumption DEF PagTypeOK, TlbOK, CpuOK, pag_vars,
         mmu_vars
<1>3. \/ acceso' = [op |-> "RESIZE", paginas |-> PaginasPara(tamanio)]
         /\ UNCHANGED <<corre, acabado>>
      \/ acceso' = SinAcceso /\ acabado' = acabado \union {corre} /\ corre' = Nadie
  BY DEF RESIZE, SinMemoria
<1>4. PaginasPara(tamanio) \in Nat
  <2>1. tamanio + TamPagina - 1 \in Nat
    BY PaginacionAssumption
  <2> QED
    BY <2>1, PaginacionAssumption DEF PaginasPara
<1>5. CASE acceso' = SinAcceso
  <2>1. acabado' \subseteq PID /\ corre' \in {corre, Nadie}
    BY <1>0, <1>2, <1>3 DEF CpuOK
  <2> QED
    BY <1>1, <1>2, <1>5, <2>1, TerminaTipo DEF pag_vars
<1>6. CASE acceso' = [op |-> "RESIZE", paginas |-> PaginasPara(tamanio)]
             /\ UNCHANGED <<corre, acabado>>
  <2>1. acceso' \in [op : {"RESIZE"}, paginas : Nat]
    BY <1>4, <1>6
  <2> QED
    BY <1>1, <1>2, <1>6, <2>1, SigueTipo DEF pag_vars, mmu_vars
<1> QED
  BY <1>3, <1>5, <1>6

(* A page more, a page less. *)
LEMMA AsignarTipo ==
  ASSUME TipoInv, acceso.op = "RESIZE", AsignarMarco(corre),
         UNCHANGED <<mmu_vars, cpu_vars, io_vars>>
  PROVE  TipoInv'
<1>0. PagTypeOK /\ TlbOK /\ CpuOK /\ ColaOK /\ TecladoOK /\ VivosOK
  BY DEF TipoInv
<1>1. corre \in PID /\ acceso \in [op : {"RESIZE"}, paginas : Nat]
  BY <1>0 DEF CpuOK, SinAcceso, Accesos, Lectoras, Escritoras
<1>2. PICK m \in Libres :
         /\ tabla' = [tabla EXCEPT ![corre] = Append(@, m)]
         /\ ocupados' = ocupados \union {m} /\ UNCHANGED <<vida, fisica>>
  BY DEF AsignarMarco
<1>3. Append(tabla[corre], m) \in Seq(Marcos) /\ m \in Marcos
  <2>1. tabla[corre] \in Seq(Marcos) /\ m \in Marcos
    BY <1>0, <1>1 DEF PagTypeOK, Libres
  <2> QED
    BY <2>1, AppendProperties
<1>4. PagTypeOK'
  BY <1>0, <1>2, <1>3 DEF PagTypeOK
<1>5. TlbOK' /\ ColaOK' /\ TecladoOK' /\ VivosOK'
  BY <1>0, <1>2 DEF TlbOK, ColaOK, TecladoOK, VivosOK, mmu_vars, cpu_vars,
         io_vars
<1>6. CpuOK'
  BY <1>0, <1>1 DEF CpuOK, cpu_vars
<1> QED
  BY <1>4, <1>5, <1>6 DEF TipoInv

(* A process gives back its last page. *)
LEMMA QuitarTipo ==
  ASSUME TipoInv, acceso.op = "RESIZE", QuitarPagina(corre),
         UNCHANGED <<mmu_vars, cpu_vars, io_vars>>
  PROVE  TipoInv'
<1>0. PagTypeOK /\ TlbOK /\ CpuOK /\ ColaOK /\ TecladoOK /\ VivosOK
  BY DEF TipoInv
<1>1. corre \in PID /\ acceso \in [op : {"RESIZE"}, paginas : Nat]
  BY <1>0 DEF CpuOK, SinAcceso, Accesos, Lectoras, Escritoras
<1> DEFINE t == SubSeq(tabla[corre], 1, Len(tabla[corre]) - 1)
<1>2. /\ tabla' = [tabla EXCEPT ![corre] = t]
      /\ ocupados' \subseteq ocupados /\ UNCHANGED <<vida, fisica>>
  BY DEF QuitarPagina, Front
<1>3. t \in Seq(Marcos)
  <2>1. tabla[corre] \in Seq(Marcos) /\ tabla[corre] # <<>>
    BY <1>0, <1>1 DEF PagTypeOK, QuitarPagina
  <2>2. Len(tabla[corre]) \in Nat /\ Len(tabla[corre]) > 0
        /\ \A i \in 1..Len(tabla[corre]) : tabla[corre][i] \in Marcos
    BY <2>1, EmptySeq, LenProperties, ElementOfSeq
  <2> QED
    BY <2>1, <2>2, SubSeqProperties
<1> HIDE DEF t
<1>4. PagTypeOK'
  BY <1>0, <1>2, <1>3 DEF PagTypeOK
<1>5. TlbOK' /\ ColaOK' /\ TecladoOK' /\ VivosOK'
  BY <1>0, <1>2 DEF TlbOK, ColaOK, TecladoOK, VivosOK, mmu_vars, cpu_vars,
         io_vars
<1>6. CpuOK'
  BY <1>0, <1>1 DEF CpuOK, cpu_vars
<1> QED
  BY <1>4, <1>5, <1>6 DEF TipoInv

(* A turn of aumentar_tam_proceso or reducir_tam_proceso. *)
LEMMA AjustaTipo == ASSUME TipoInv, AjustaPagina PROVE TipoInv'
<1>1. acceso.op = "RESIZE" /\ UNCHANGED <<mmu_vars, io_vars>>
  BY DEF AjustaPagina
<1>2. CASE AsignarMarco(corre) /\ UNCHANGED cpu_vars
  BY <1>1, <1>2, AsignarTipo
<1>3. CASE QuitarPagina(corre) /\ UNCHANGED cpu_vars
  BY <1>1, <1>3, QuitarTipo
<1>4. CASE SinMemoria /\ UNCHANGED <<pag_vars, hechas>>
  <2>1. PagTypeOK' /\ hechas' \in 0..MaxInstrucciones
    BY <1>4 DEF TipoInv, PagTypeOK, CpuOK, pag_vars
  <2>2. corre \in PID
    BY <1>1 DEF TipoInv, CpuOK, SinAcceso
  <2>3. acceso' = SinAcceso /\ acabado' \subseteq PID /\ corre' = Nadie
    BY <1>4, <2>2 DEF SinMemoria, TipoInv, CpuOK
  <2> QED
    BY <1>1, <1>4, <2>1, <2>3, TerminaTipo DEF pag_vars
<1> QED
  BY <1>2, <1>3, <1>4 DEF AjustaPagina

(* What an instruction that uses memory has. *)
LEMMA EnAcceso ==
  ASSUME CpuOK, acceso.op \in Lectoras \union Escritoras \union {"IO"}
  PROVE  /\ corre \in PID /\ acceso \in Accesos
         /\ AccesoBien(acceso, Tamanio(corre))
BY DEF CpuOK, SinAcceso, Lectoras, Escritoras

(* The TLB after a translation, and the frame it gives. *)
LEMMA SolicitarTipo ==
  ASSUME PagTypeOK, TlbOK, NEW p \in PID, NEW pagina \in Nat,
         NEW marco \in Marcos, SolicitarMarco(p, pagina, marco),
         UNCHANGED config
  PROVE  TlbOK'
<1>1. /\ config.cantidad_entradas_tlb \in Nat
      /\ tlb \in Seq(RegistrosTLB) /\ Len(tlb) \in Nat
      /\ Len(tlb) <= config.cantidad_entradas_tlb
  BY SistemaAssumption, LenProperties DEF TlbOK, ConfigsValidas
<1>2. CASE tlb' = tlb
  BY <1>2 DEF TlbOK
<1>3. ASSUME NEW k \in 1..Len(tlb), tlb' = Append(RemoveAt(tlb, k), tlb[k])
      PROVE  TlbOK'
  <2>1. /\ RemoveAt(tlb, k) \in Seq(RegistrosTLB)
        /\ Len(RemoveAt(tlb, k)) = Len(tlb) - 1
    BY <1>1, RemoveAtHechos
  <2>2. tlb[k] \in RegistrosTLB
    BY <1>1, ElementOfSeq
  <2>3. tlb' \in Seq(RegistrosTLB) /\ Len(tlb') = Len(tlb)
    BY <1>1, <1>3, <2>1, <2>2, AppendProperties
  <2> QED
    BY <1>1, <2>3 DEF TlbOK
<1>4. ASSUME tlb' = Append(IF Len(tlb) = config.cantidad_entradas_tlb THEN Tail(tlb)
                           ELSE tlb, [pid |-> p, pagina |-> pagina, marco |-> marco]),
             config.cantidad_entradas_tlb > 0
      PROVE  TlbOK'
  <2>1. [pid |-> p, pagina |-> pagina, marco |-> marco] \in RegistrosTLB
    BY DEF RegistrosTLB
  <2>2. CASE Len(tlb) = config.cantidad_entradas_tlb
    <3>1. Tail(tlb) \in Seq(RegistrosTLB) /\ Len(Tail(tlb)) = Len(tlb) - 1
      BY <1>1, <1>4, <2>2, EmptySeq, HeadTailProperties
    <3>2. tlb' \in Seq(RegistrosTLB) /\ Len(tlb') = Len(tlb)
      BY <1>1, <1>4, <2>1, <2>2, <3>1, AppendProperties
    <3> QED
      BY <1>1, <3>2 DEF TlbOK
  <2>3. CASE Len(tlb) # config.cantidad_entradas_tlb
    <3>1. tlb' \in Seq(RegistrosTLB) /\ Len(tlb') = Len(tlb) + 1
      BY <1>1, <1>4, <2>1, <2>3, AppendProperties
    <3> QED
      BY <1>1, <2>3, <3>1 DEF TlbOK
  <2> QED
    BY <2>2, <2>3
<1>5. CASE Entradas(p, pagina) # {}
  <2>1. Entradas(p, pagina) \in SUBSET Nat
    BY <1>1 DEF Entradas
  <2>2. Min(Entradas(p, pagina)) \in 1..Len(tlb)
    BY <1>5, <2>1, MinimoExiste DEF Entradas
  <2>3. \/ tlb' = tlb
        \/ tlb' = Append(RemoveAt(tlb, Min(Entradas(p, pagina))),
                         tlb[Min(Entradas(p, pagina))])
    BY <1>5 DEF SolicitarMarco, ConsultarTLB
  <2> QED
    BY <1>2, <1>3, <2>2, <2>3
<1>6. CASE Entradas(p, pagina) = {}
  BY <1>1, <1>2, <1>4, <1>6 DEF SolicitarMarco, AgregarTLB
<1> QED
  BY <1>5, <1>6

(* What a turn of listaDireccionesFisicas does with the frame it gets.      *)
Turno(marco) ==
    LET dl == acceso.dl
        tam == TamFragmento(dl, acceso.resta)
    IN /\ SolicitarMarco(corre, Pagina(dl), marco)
       /\ acceso' = [acceso EXCEPT
            !.dl = @ + tam, !.resta = @ - tam,
            !.dfs = Append(@, [dl |-> dl, tam |-> tam,
                      df |-> marco * TamPagina + Desplazamiento(dl)])]

(* A program only uses memory it has, so the frame is never -1.             *)
LEMMA TraduceMarco ==
  ASSUME TipoInv, Traduce
  PROVE  /\ Pagina(acceso.dl) \in Nat
         /\ Pagina(acceso.dl) < Len(tabla[corre])
         /\ \E marco \in Marcos : Turno(marco)
<1>0. PagTypeOK /\ TlbOK /\ CpuOK
  BY DEF TipoInv
<1> DEFINE a == acceso
           pagina == Pagina(a.dl)
<1>1. a.op \in Lectoras \union Escritoras \union {"IO"} /\ a.resta > 0
  BY DEF Traduce, Traduciendo
<1>2. corre \in PID /\ a \in Accesos /\ AccesoBien(a, Tamanio(corre))
  BY <1>0, <1>1, EnAcceso
<1>3. a.dl \in Nat /\ a.resta \in Nat \ {0}
  BY <1>1, <1>2 DEF Accesos
<1>4. pagina \in Nat /\ pagina < Len(tabla[corre])
  <2>1. Len(tabla[corre]) \in Nat
    BY <1>0, <1>2, LenProperties DEF PagTypeOK
  <2>2. a.dl < Len(tabla[corre]) * TamPagina
    <3>1. Tamanio(corre) \in Nat
      BY <2>1, PaginacionAssumption DEF Tamanio
    <3>2. a.dl + a.resta <= Tamanio(corre)
      BY <1>2 DEF AccesoBien
    <3>3. a.dl < Tamanio(corre)
      BY <1>3, <3>1, <3>2
    <3> QED
      BY <3>3 DEF Tamanio
  <2> QED
    BY <1>3, <2>1, <2>2, DivMod, PaginaMenor
<1>5. PICK marco \in Respuestas : Turno(marco)
  BY DEF Traduce, Turno
<1>a. SolicitarMarco(corre, pagina, marco)
  BY <1>5 DEF Turno
<1> HIDE DEF pagina
<1>6. marco \in Marcos
  <2>1. CASE Entradas(corre, pagina) # {}
    <3> DEFINE k == Min(Entradas(corre, pagina))
    <3>1. tlb \in Seq(RegistrosTLB) /\ Len(tlb) \in Nat
      BY <1>0, LenProperties DEF TlbOK
    <3>2. k \in 1..Len(tlb)
      <4>1. Entradas(corre, pagina) \in SUBSET Nat
        BY <3>1 DEF Entradas
      <4>2. k \in Entradas(corre, pagina)
        BY <2>1, <4>1, MinimoExiste
      <4> QED
        BY <4>2 DEF Entradas
    <3>3. marco = tlb[k].marco
      BY <1>a, <2>1 DEF SolicitarMarco
    <3> HIDE DEF k
    <3>4. tlb[k] \in RegistrosTLB
      BY <3>1, <3>2, ElementOfSeq
    <3> QED
      BY <3>3, <3>4 DEF RegistrosTLB
  <2>2. CASE Entradas(corre, pagina) = {}
    <3>1. marco = tabla[corre][pagina + 1]
      BY <1>4, <1>a, <2>2 DEF SolicitarMarco, ObtenerMarcoPagina
    <3>2. tabla[corre] \in Seq(Marcos) /\ pagina + 1 \in 1..Len(tabla[corre])
      BY <1>0, <1>2, <1>4, LenProperties DEF PagTypeOK
    <3> QED
      BY <3>1, <3>2, ElementOfSeq
  <2> QED
    BY <2>1, <2>2
<1> QED
  BY <1>4, <1>5, <1>6 DEF pagina

(* A turn of listaDireccionesFisicas. *)
LEMMA TraduceTipo == ASSUME TipoInv, Traduce PROVE TipoInv'
<1>0. PagTypeOK /\ TlbOK /\ CpuOK
  BY DEF TipoInv
<1> DEFINE a == acceso
           tam == TamFragmento(a.dl, a.resta)
<1>1. /\ a.op \in Lectoras \union Escritoras \union {"IO"} /\ a.resta > 0
      /\ UNCHANGED <<pag_vars, config, corre, hechas, acabado, io_vars>>
  BY DEF Traduce, Traduciendo
<1>2. corre \in PID /\ a \in Accesos /\ AccesoBien(a, Tamanio(corre))
  BY <1>0, <1>1, EnAcceso
<1>3. a.dl \in Nat /\ a.resta \in Nat \ {0} /\ a.dfs \in Seq(Fragmento)
      /\ a.inicio \in Nat /\ a.dato \in Seq(Bytes) /\ a.di \in Nat
      /\ a.tam \in Nat
  BY <1>1, <1>2 DEF Accesos
<1>t. PICK marco \in Marcos : Turno(marco)
  BY TraduceMarco
<1>4. /\ SolicitarMarco(corre, Pagina(a.dl), marco)
      /\ acceso' = [a EXCEPT !.dl = @ + tam, !.resta = @ - tam,
           !.dfs = Append(@, [dl |-> a.dl, tam |-> tam,
                     df |-> marco * TamPagina + Desplazamiento(a.dl)])]
  BY <1>t DEF Turno
<1> DEFINE f == [dl |-> a.dl, df |-> marco * TamPagina + Desplazamiento(a.dl),
                 tam |-> tam]
           b == acceso'
<1>5. f \in Fragmento /\ Entera(f) /\ f.dl = a.dl /\ f.tam = tam
      /\ tam \in Nat \ {0} /\ tam <= a.resta
  BY <1>3, FragmentoDe DEF Fragmento, Entera
<1>6. b = [a EXCEPT !.dl = a.dl + tam, !.resta = a.resta - tam,
                    !.dfs = Append(a.dfs, f)]
  BY <1>4
<1> HIDE DEF f, tam
<1>7. Cadena(Append(a.dfs, f), IF a.op \in Lectoras THEN a.inicio + Len(a.dato)
                               ELSE a.inicio, a.dl + tam)
  BY <1>2, <1>3, <1>5, CadenaAppend DEF AccesoBien
<1>8. Append(a.dfs, f) \in Seq(Fragmento) /\ Enteras(Append(a.dfs, f))
  <2>1. /\ Append(a.dfs, f) \in Seq(Fragmento) /\ Len(a.dfs) \in Nat
        /\ Len(Append(a.dfs, f)) = Len(a.dfs) + 1
        /\ \A k \in 1..Len(a.dfs) : Append(a.dfs, f)[k] = a.dfs[k]
        /\ Append(a.dfs, f)[Len(a.dfs) + 1] = f
    BY <1>3, <1>5, AppendProperties, LenProperties
  <2>2. \A k \in 1..(Len(a.dfs) + 1) :
             k \in 1..Len(a.dfs) \/ k = Len(a.dfs) + 1
    BY <2>1
  <2> QED
    BY <1>2, <1>5, <2>1, <2>2 DEF AccesoBien, Enteras
<1> DEFINE g == Append(a.dfs, f)
<1> HIDE DEF g
<1>9. /\ b \in Accesos /\ b.op = a.op /\ b.dl = a.dl + tam
      /\ b.resta = a.resta - tam /\ b.dfs = g /\ b.inicio = a.inicio
      /\ b.dato = a.dato /\ b.di = a.di /\ b.tam = a.tam
  <2>1. b = [a EXCEPT !.dl = a.dl + tam, !.resta = a.resta - tam, !.dfs = g]
    BY <1>6 DEF g
  <2>2. g \in Seq(Fragmento) /\ a.dl + tam \in Nat /\ a.resta - tam \in Nat
    BY <1>3, <1>5, <1>8 DEF g
  <2> HIDE DEF b
  <2> QED
    BY <1>2, <2>1, <2>2 DEF Accesos
<1>10. AccesoBien(b, Tamanio(corre))
  <2> HIDE DEF b
  <2>1. Cadena(g, IF a.op \in Lectoras THEN a.inicio + Len(a.dato) ELSE a.inicio,
               a.dl + tam) /\ Enteras(g)
    BY <1>7, <1>8 DEF g
  <2>2. b.dl + b.resta = a.dl + a.resta
    BY <1>3, <1>5, <1>9
  <2> QED
    BY <1>2, <1>9, <2>1, <2>2 DEF AccesoBien
<1>11. TlbOK' /\ PagTypeOK'
  <2>1. Pagina(a.dl) \in Nat
    BY <1>3, DivMod
  <2> QED
    BY <1>0, <1>1, <1>2, <1>4, <2>1, SolicitarTipo DEF PagTypeOK, pag_vars
<1>12. hechas' \in 0..MaxInstrucciones
       /\ UNCHANGED <<config, io_vars, vida, tabla, corre, acabado>>
  BY <1>0, <1>1 DEF CpuOK, pag_vars
<1> QED
  BY <1>2, <1>9, <1>10, <1>11, <1>12, SigueTipo

(* A turn of leerMemoria. *)
LEMMA LeeTipo == ASSUME TipoInv, Lee PROVE TipoInv'
<1>0. PagTypeOK /\ TlbOK /\ CpuOK
  BY DEF TipoInv
<1> DEFINE a == acceso
           f == Head(a.dfs)
           leido == EnviarDatoLeido(LeerDeMemoria(f.df, f.tam))
           b == acceso'
<1>1. /\ a.op \in Lectoras /\ a.dfs # <<>>
      /\ b = [a EXCEPT !.dfs = Tail(a.dfs), !.dato = a.dato \o leido]
      /\ UNCHANGED <<pag_vars, mmu_vars, corre, hechas, acabado, io_vars>>
  BY DEF Lee
<1>2. corre \in PID /\ a \in Accesos /\ AccesoBien(a, Tamanio(corre))
  BY <1>0, <1>1, EnAcceso
<1>3. a.dfs \in Seq(Fragmento) /\ a.inicio \in Nat /\ a.dato \in Seq(Bytes)
      /\ Len(a.dato) \in Nat /\ a.dl \in Nat /\ a.tam \in Nat
      /\ a.resta \in Nat
  BY <1>2, LenProperties DEF Accesos
<1>4. /\ f \in Fragmento /\ Tail(a.dfs) \in Seq(Fragmento)
      /\ Cadena(Tail(a.dfs), (a.inicio + Len(a.dato)) + f.tam, a.dl)
  BY <1>1, <1>2, <1>3, CadenaTail DEF AccesoBien
<1>5. Entera(f) /\ Enteras(Tail(a.dfs))
  <2>1. /\ Len(a.dfs) \in Nat /\ Len(a.dfs) > 0 /\ f = a.dfs[1]
        /\ Len(Tail(a.dfs)) = Len(a.dfs) - 1
        /\ \A k \in 1..(Len(a.dfs) - 1) : Tail(a.dfs)[k] = a.dfs[k + 1]
    BY <1>1, <1>3
  <2> QED
    BY <1>2, <2>1 DEF AccesoBien, Enteras
<1>6. leido \in Seq(Bytes) /\ Len(leido) = f.tam /\ f.tam \in Nat
  BY <1>0, <1>4, <1>5, LeidoTipo DEF Fragmento
<1> HIDE DEF f, leido
<1>7. a.dato \o leido \in Seq(Bytes)
      /\ Len(a.dato \o leido) = Len(a.dato) + f.tam
  <2> DEFINE u == a.dato
  <2>1. u \in Seq(Bytes)
    BY <1>3
  <2> HIDE DEF u
  <2>2. u \o leido \in Seq(Bytes) /\ Len(u \o leido) = Len(u) + Len(leido)
    BY <1>6, <2>1, ConcatProperties
  <2> QED
    BY <1>6, <2>2 DEF u
<1> DEFINE t == Tail(a.dfs)
           d == a.dato \o leido
<1> HIDE DEF t, d
<1>8. /\ b \in Accesos /\ b.op = a.op /\ b.dl = a.dl /\ b.resta = a.resta
      /\ b.dfs = t /\ b.inicio = a.inicio /\ b.dato = d
      /\ b.di = a.di /\ b.tam = a.tam
  <2>1. /\ b = [a EXCEPT !.dfs = t, !.dato = d] /\ t \in Seq(Fragmento)
        /\ d \in Seq(Bytes)
    BY <1>1, <1>4, <1>7 DEF t, d
  <2> HIDE DEF b
  <2> QED
    BY <1>2, <2>1 DEF Accesos
<1>9. AccesoBien(b, Tamanio(corre))
  <2> HIDE DEF b
  <2>1. Cadena(t, a.inicio + Len(d), a.dl) /\ Enteras(t)
    <3>1. (a.inicio + Len(a.dato)) + f.tam = a.inicio + Len(d)
      BY <1>3, <1>6, <1>7 DEF d
    <3> QED
      BY <1>4, <1>5, <3>1 DEF t
  <2>2. b.op \in Lectoras /\ b.op \notin Escritoras /\ b.op = a.op
    BY <1>1, <1>8 DEF Lectoras, Escritoras
  <2>3. /\ a.dl + a.resta <= Tamanio(corre)
        /\ a.inicio + a.tam = a.dl + a.resta
        /\ a.op = "COPY_LEE" => a.di + a.tam <= Tamanio(corre)
    BY <1>1, <1>2 DEF AccesoBien
  <2> QED
    BY <1>8, <2>1, <2>2, <2>3 DEF AccesoBien
<1>10. /\ hechas' \in 0..MaxInstrucciones /\ PagTypeOK' /\ TlbOK'
       /\ UNCHANGED <<config, io_vars, vida, tabla, corre, acabado>>
  BY <1>0, <1>1 DEF CpuOK, PagTypeOK, TlbOK, pag_vars, mmu_vars
<1> QED
  BY <1>2, <1>8, <1>9, <1>10, SigueTipo

(* MOV_IN is over; COPY_STRING goes on with what it read. *)
LEMMA TerminaLecturaTipo == ASSUME TipoInv, TerminaLectura PROVE TipoInv'
<1>0. PagTypeOK /\ TlbOK /\ CpuOK
  BY DEF TipoInv
<1>1. /\ acceso.resta = 0 /\ acceso.dfs = <<>>
      /\ UNCHANGED <<pag_vars, mmu_vars, corre, hechas, acabado, io_vars>>
  BY DEF TerminaLectura, Traducida
<1>2. /\ hechas' \in 0..MaxInstrucciones /\ PagTypeOK' /\ TlbOK'
      /\ UNCHANGED <<config, io_vars, vida, tabla, corre, acabado>>
      /\ acabado' \subseteq PID /\ corre' \in {corre, Nadie}
  BY <1>0, <1>1 DEF CpuOK, PagTypeOK, TlbOK, pag_vars, mmu_vars
<1>3. CASE acceso.op = "MOV_IN" /\ acceso' = SinAcceso
  BY <1>1, <1>2, <1>3, TerminaTipo
<1>4. CASE /\ acceso.op = "COPY_LEE"
           /\ acceso' =
                Acceso("COPY_ESCRIBE", acceso.di, acceso.tam, acceso.dato, 0)
  <2>1. /\ corre \in PID /\ acceso \in Accesos
        /\ AccesoBien(acceso, Tamanio(corre))
    BY <1>0, <1>4, EnAcceso DEF Lectoras
  <2>2. /\ acceso.dl \in Nat /\ acceso.inicio \in Nat
        /\ acceso.tam \in Nat \ {0}
        /\ acceso.dato \in Seq(Bytes) /\ Len(acceso.dato) \in Nat
        /\ acceso.di \in Nat
    BY <2>1, LenProperties DEF Accesos
  <2>3. /\ Len(acceso.dato) = acceso.tam
        /\ acceso.di + acceso.tam <= Tamanio(corre)
    BY <1>1, <1>4, <2>1, <2>2 DEF AccesoBien, Cadena, Lectoras
  <2> DEFINE b == Acceso("COPY_ESCRIBE", acceso.di, acceso.tam, acceso.dato, 0)
  <2>4. /\ b \in Accesos /\ b.op = "COPY_ESCRIBE" /\ b.dl = acceso.di
        /\ b.resta = acceso.tam /\ b.dfs = <<>> /\ b.inicio = acceso.di
        /\ b.dato = acceso.dato
    BY <2>2, EmptySeq DEF Acceso, Accesos, Escritoras
  <2> HIDE DEF b
  <2>5. Cadena(<<>>, acceso.di, acceso.di) /\ Enteras(<<>>)
    BY <2>2, EmptySeq DEF Cadena, Enteras
  <2>6. AccesoBien(b, Tamanio(corre))
    BY <2>2, <2>3, <2>4, <2>5 DEF AccesoBien, Lectoras, Escritoras
  <2>7. acceso' \in Accesos /\ AccesoBien(acceso', Tamanio(corre))
    BY <1>4, <2>4, <2>6 DEF b
  <2> QED
    BY <1>2, <2>1, <2>7, SigueTipo
<1> QED
  BY <1>3, <1>4 DEF TerminaLectura

(* A turn of escribirMemoria. *)
LEMMA EscribeTipo == ASSUME TipoInv, Escribe PROVE TipoInv'
<1>0. PagTypeOK /\ TlbOK /\ CpuOK
  BY DEF TipoInv
<1> DEFINE a == acceso
           f == Head(a.dfs)
           b == acceso'
<1>1. /\ a.op \in Escritoras /\ a.resta = 0
      /\ EscribirEnMemoria(f.df, SubSeq(a.dato, 1, f.tam))
      /\ b = IF Len(a.dfs) = 1 THEN SinAcceso
             ELSE [a EXCEPT !.dfs = Tail(a.dfs), !.inicio = a.inicio + f.tam,
                            !.dato = SubSeq(a.dato, f.tam + 1, Len(a.dato))]
      /\ UNCHANGED <<mmu_vars, corre, hechas, acabado, io_vars>>
  BY DEF Escribe, Traducida
<1>2. corre \in PID /\ a \in Accesos /\ AccesoBien(a, Tamanio(corre))
  BY <1>0, <1>1, EnAcceso
<1>3. a.dfs \in Seq(Fragmento) /\ a.inicio \in Nat /\ a.dato \in Seq(Bytes)
      /\ Len(a.dato) \in Nat /\ a.dl \in Nat /\ a.tam \in Nat
  BY <1>2, LenProperties DEF Accesos
<1>4. /\ a.op \notin Lectoras /\ a.inicio < a.dl
      /\ a.inicio + Len(a.dato) = a.dl
      /\ Cadena(a.dfs, a.inicio, a.dl)
  BY <1>1, <1>2, <1>3 DEF AccesoBien, Lectoras, Escritoras
<1>5. a.dfs # <<>> /\ Len(a.dfs) \in Nat /\ Len(a.dfs) > 0
  BY <1>3, <1>4 DEF Cadena
<1>6. /\ f \in Fragmento /\ Tail(a.dfs) \in Seq(Fragmento)
      /\ a.inicio + f.tam <= a.dl
      /\ Cadena(Tail(a.dfs), a.inicio + f.tam, a.dl)
  BY <1>3, <1>4, <1>5, CadenaTail
<1>7. /\ f.tam \in Nat \ {0} /\ f.df \in Nat /\ f.df \in Direcciones
      /\ f.tam <= Len(a.dato)
  <2>1. f.tam \in Nat \ {0} /\ f.df \in Nat /\ f.df \in Direcciones
    BY <1>6 DEF Fragmento, Direcciones
  <2> HIDE DEF f, a, b
  <2> QED
    BY <1>3, <1>4, <1>6, <2>1
<1> DEFINE s == SubSeq(a.dato, 1, f.tam)
           d == SubSeq(a.dato, f.tam + 1, Len(a.dato))
           t == Tail(a.dfs)
<1>8. s \in Seq(Bytes) /\ d \in Seq(Bytes) /\ Len(d) = Len(a.dato) - f.tam
  BY <1>3, <1>7, TextoPartido
<1>9. PagTypeOK'
  <2>1. MemoriaCon(f.df, s) \in [Direcciones -> Bytes]
    BY <1>0, <1>7, <1>8, MemoriaConTipo
  <2>2. MarcoDe(f.df) \in Marcos
    <3>1. f.df < CantMarcos * TamPagina /\ CantMarcos \in Nat
      BY <1>7, PaginacionAssumption DEF Direcciones
    <3>2. /\ Pagina(f.df) < CantMarcos /\ Pagina(f.df) \in Nat
          /\ MarcoDe(f.df) = Pagina(f.df)
      <4> HIDE DEF f
      <4> QED
        BY <1>7, <3>1, DivMod, PaginaMenor
    <3> HIDE DEF f
    <3> QED
      BY <3>1, <3>2 DEF Marcos
  <2> QED
    BY <1>0, <1>1, <2>1, <2>2 DEF EscribirEnMemoria, PagTypeOK
<1>10. /\ hechas' \in 0..MaxInstrucciones /\ TlbOK' /\ acabado' \subseteq PID
       /\ UNCHANGED <<config, io_vars, vida, tabla, corre, acabado, mmu_vars>>
  BY <1>0, <1>1 DEF CpuOK, TlbOK, EscribirEnMemoria, mmu_vars
<1>11. CASE Len(a.dfs) = 1
  BY <1>1, <1>9, <1>10, <1>11, TerminaTipo
<1>12. CASE Len(a.dfs) # 1
  <2>1. Enteras(t) /\ t # <<>>
    <3>1. /\ Len(t) = Len(a.dfs) - 1
          /\ \A k \in 1..(Len(a.dfs) - 1) : t[k] = a.dfs[k + 1]
      BY <1>3, <1>5
    <3>2. Enteras(t)
      BY <1>2, <1>5, <3>1 DEF AccesoBien, Enteras
    <3>3. Len(t) # 0
      BY <1>5, <1>12, <3>1
    <3> HIDE DEF t
    <3> QED
      BY <3>2, <3>3, EmptySeq
  <2>2. /\ b = [a EXCEPT !.dfs = t, !.inicio = a.inicio + f.tam, !.dato = d]
        /\ a.inicio + f.tam \in Nat
        /\ Cadena(t, a.inicio + f.tam, a.dl) /\ t \in Seq(Fragmento)
    BY <1>1, <1>3, <1>6, <1>7, <1>12
  <2>3. a.inicio + f.tam < a.dl
    <3>1. t[1].dl = a.inicio + f.tam /\ t[1].dl + t[1].tam <= a.dl
          /\ t[1].tam \in Nat \ {0}
      <4> HIDE DEF t
      <4>1. 1 \in 1..Len(t)
        BY <2>1, <2>2, EmptySeq, LenProperties
      <4> QED
        BY <2>1, <2>2, <4>1, Fragmentos DEF Cadena
    <3> DEFINE u == a.inicio + f.tam
               v == t[1].tam
    <3>2. v \in Nat \ {0} /\ u + v <= a.dl
      <4> HIDE DEF t, f, a
      <4> QED
        BY <3>1
    <3>3. u \in Nat /\ a.dl \in Nat
      BY <1>3, <1>7
    <3> HIDE DEF u, v, a
    <3> QED
      BY <3>2, <3>3 DEF u
  <2> HIDE DEF t, d, f, s
  <2>4. /\ b \in Accesos /\ b.op = a.op /\ b.dl = a.dl /\ b.resta = 0
        /\ b.dfs = t /\ b.inicio = a.inicio + f.tam /\ b.dato = d
    <3> HIDE DEF b
    <3> QED
      BY <1>1, <1>2, <1>8, <2>2 DEF Accesos
  <2>5. AccesoBien(b, Tamanio(corre))
    <3> HIDE DEF b
    <3>1. b.op \notin Lectoras /\ b.op \in Escritoras /\ b.op # "COPY_LEE"
      BY <1>1, <1>4, <2>4 DEF Lectoras, Escritoras
    <3>2. a.dl <= Tamanio(corre)
      BY <1>1, <1>2, <1>3 DEF AccesoBien
    <3>3. (a.inicio + f.tam) + Len(d) = a.dl + 0 /\ a.dl + 0 = a.dl
      <4>1. Len(d) = Len(a.dato) - f.tam
        BY <1>8
      <4>2. f.tam \in Nat /\ f.tam <= Len(a.dato)
        BY <1>7
      <4> HIDE DEF a
      <4> QED
        BY <1>3, <1>4, <4>1, <4>2
    <3> QED
      BY <2>1, <2>2, <2>3, <2>4, <3>1, <3>2, <3>3 DEF AccesoBien
  <2> QED
    BY <1>2, <1>9, <1>10, <2>4, <2>5, SigueTipo
<1> QED
  BY <1>11, <1>12

(* The addresses of an access go to the queue of the device. *)
LEMMA BloqueaTipo == ASSUME TipoInv, Bloquea PROVE TipoInv'
<1>0. PagTypeOK /\ TlbOK /\ CpuOK /\ ColaOK /\ TecladoOK /\ VivosOK
  BY DEF TipoInv
<1> DEFINE x == [pid |-> corre, dfs |-> acceso.dfs]
<1>1. /\ acceso.op = "IO" /\ acceso.resta = 0 /\ cola_io' = Append(cola_io, x)
      /\ corre' = Nadie /\ acceso' = SinAcceso
      /\ UNCHANGED <<pag_vars, mmu_vars, hechas, acabado, escrito, teclado>>
  BY DEF Bloquea, Traducida
<1>2. corre \in PID /\ acceso \in Accesos /\ AccesoBien(acceso, Tamanio(corre))
  BY <1>0, <1>1, EnAcceso
<1>3. /\ acceso.dfs \in Seq(Fragmento) /\ acceso.inicio \in Nat
      /\ acceso.dl \in Nat
  BY <1>2 DEF Accesos
<1>4. /\ Cadena(acceso.dfs, acceso.inicio, acceso.dl) /\ Enteras(acceso.dfs)
      /\ acceso.inicio < acceso.dl
  BY <1>1, <1>2, <1>3 DEF AccesoBien, Lectoras
<1>5. PedidoBien(acceso.dfs)
  <2>1. acceso.dfs # <<>>
    BY <1>3, <1>4 DEF Cadena
  <2>2. acceso.dfs[1].dl = acceso.inicio /\ Final(acceso.dfs) = acceso.dl
    BY <1>4, <2>1 DEF Cadena, Final
  <2> QED
    BY <1>4, <2>1, <2>2 DEF PedidoBien
<1>6. /\ x \in Pedidos /\ cola_io \in Seq(Pedidos) /\ x.pid = corre
      /\ PedidoBien(x.dfs)
  BY <1>0, <1>2, <1>3, <1>5 DEF Pedidos, ColaOK
<1> HIDE DEF x
<1>7. /\ cola_io' \in Seq(Pedidos) /\ Len(cola_io) \in Nat
      /\ Len(cola_io') = Len(cola_io) + 1
      /\ cola_io'[Len(cola_io) + 1] = x
      /\ \A k \in 1..Len(cola_io) : cola_io'[k] = cola_io[k]
  BY <1>1, <1>6, AppendProperties, LenProperties
<1>8. \A k \in 1..Len(cola_io') :
           \/ k \in 1..Len(cola_io) /\ cola_io'[k] = cola_io[k]
           \/ cola_io'[k] = x
  BY <1>7
<1>9. PagTypeOK' /\ TlbOK' /\ CpuOK'
  BY <1>0, <1>1 DEF PagTypeOK, TlbOK, CpuOK, pag_vars, mmu_vars
<1>10. ColaOK'
  BY <1>0, <1>6, <1>7, <1>8 DEF ColaOK
<1>11. TecladoOK'
  <2>1. cola_io # <<>> => cola_io' # <<>> /\ Head(cola_io') = Head(cola_io)
    BY <1>6, <1>1
  <2> QED
    BY <1>0, <1>1, <2>1 DEF TecladoOK, mmu_vars
<1>12. VivosOK'
  <2>1. \A k \in 1..Len(cola_io) : cola_io[k].pid \in PID
    BY <1>0, UnPedido
  <2> QED
    BY <1>0, <1>1, <1>2, <1>6, <1>8, <2>1, SistemaAssumption DEF VivosOK,
           pag_vars
<1> QED
  BY <1>9, <1>10, <1>11, <1>12 DEF TipoInv

-----------------------------------------------------------------------------
(* The device *)

(* The list of a request without its first fragment. *)
LEMMA PedidoTail ==
  ASSUME NEW dfs \in Seq(Fragmento), PedidoBien(dfs)
  PROVE  /\ dfs # <<>> /\ Len(dfs) \in Nat \ {0}
         /\ Tail(dfs) \in Seq(Fragmento)
         /\ Head(dfs) = dfs[1] /\ dfs[1] \in Fragmento /\ Entera(dfs[1])
         /\ dfs[1].dl + dfs[1].tam <= Final(dfs) /\ Final(dfs) \in Nat
         /\ \A k \in 1..Len(Tail(dfs)) :
              k + 1 \in 1..Len(dfs) /\ Tail(dfs)[k] = dfs[k + 1]
         /\ Tail(dfs) = <<>> => Final(dfs) = dfs[1].dl + dfs[1].tam
         /\ Tail(dfs) # <<>> => /\ PedidoBien(Tail(dfs))
                                /\ Tail(dfs)[1].dl = dfs[1].dl + dfs[1].tam
                                /\ Final(Tail(dfs)) = Final(dfs)
<1> DEFINE t == Tail(dfs)
<1>1. dfs # <<>> /\ Cadena(dfs, dfs[1].dl, Final(dfs)) /\ Enteras(dfs)
  BY DEF PedidoBien
<1>2. Len(dfs) \in Nat \ {0} /\ Head(dfs) = dfs[1] /\ 1 \in 1..Len(dfs)
  BY <1>1, LenProperties, EmptySeq
<1>3. /\ dfs[1] \in Fragmento /\ t \in Seq(Fragmento)
      /\ dfs[1].dl + dfs[1].tam <= Final(dfs)
      /\ Cadena(t, dfs[1].dl + dfs[1].tam, Final(dfs))
  BY <1>1, <1>2, CadenaTail
<1>4. /\ Len(t) = Len(dfs) - 1
      /\ \A k \in 1..Len(t) : t[k] = dfs[k + 1]
  BY <1>1, HeadTailProperties
<1>5. \A k \in 1..Len(t) : k + 1 \in 1..Len(dfs)
  BY <1>2, <1>4
<1>6. Final(dfs) \in Nat /\ Entera(dfs[1])
  BY <1>1, <1>2 DEF Cadena, Enteras
<1> HIDE DEF t
<1>7. t = <<>> => Final(dfs) = dfs[1].dl + dfs[1].tam
  BY <1>3 DEF Cadena
<1>8. t # <<>> => /\ t[1].dl = dfs[1].dl + dfs[1].tam
                  /\ Final(t) = Final(dfs)
  BY <1>3 DEF Cadena, Final
<1>9. Enteras(t)
  BY <1>1, <1>4, <1>5 DEF Enteras
<1>10. t # <<>> => PedidoBien(t)
  BY <1>3, <1>8, <1>9 DEF PedidoBien
<1> QED
  BY <1>1, <1>2, <1>3, <1>4, <1>5, <1>6, <1>7, <1>8, <1>10 DEF t

(* The queue after the answer for a fragment. *)
LEMMA SiguienteHechos ==
  ASSUME ColaOK, cola_io # <<>>
  PROVE  /\ Siguiente \in Seq(Pedidos)
         /\ \A k \in 1..Len(Siguiente) : PedidoBien(Siguiente[k].dfs)
         /\ \A k \in 1..Len(Siguiente) : \E j \in 1..Len(cola_io) :
              /\ Siguiente[k].pid = cola_io[j].pid
              /\ \A i \in 1..Len(Siguiente[k].dfs) :
                   \E l \in 1..Len(cola_io[j].dfs) :
                    Siguiente[k].dfs[i] = cola_io[j].dfs[l]
         /\ Tail(Head(cola_io).dfs) # <<>> =>
              /\ Siguiente # <<>> /\ Head(Siguiente).pid = Head(cola_io).pid
              /\ Head(Siguiente).dfs = Tail(Head(cola_io).dfs)
<1> DEFINE n == Len(cola_io)
           h == Head(cola_io)
           t == Tail(h.dfs)
           r == Tail(cola_io)
           x == [h EXCEPT !.dfs = t]
           De(e, j) == /\ e.pid = cola_io[j].pid
                       /\ \A i \in 1..Len(e.dfs) :
                            \E l \in 1..Len(cola_io[j].dfs) :
                             e.dfs[i] = cola_io[j].dfs[l]
<1>1. /\ cola_io \in Seq(Pedidos) /\ n \in Nat /\ n > 0 /\ h = cola_io[1]
      /\ 1 \in 1..n
  BY LenProperties, EmptySeq DEF ColaOK
<1>2. /\ h \in Pedidos /\ h.pid \in PID /\ h.dfs \in Seq(Fragmento)
      /\ PedidoBien(h.dfs)
  BY <1>1, UnPedido
<1>3. /\ r \in Seq(Pedidos) /\ Len(r) = n - 1
      /\ \A k \in 1..(n - 1) : r[k] = cola_io[k + 1] /\ k + 1 \in 1..n
  BY <1>1, HeadTailProperties
<1>4. \A k \in 1..(n - 1) : PedidoBien(r[k].dfs)
  BY <1>3, UnPedido
<1>5. /\ t \in Seq(Fragmento) /\ (t # <<>> => PedidoBien(t))
      /\ \A k \in 1..Len(t) : k + 1 \in 1..Len(h.dfs) /\ t[k] = h.dfs[k + 1]
  BY <1>2, PedidoTail
<1>6. Siguiente = IF t = <<>> THEN r ELSE <<x>> \o r
  BY DEF Siguiente
<1> HIDE DEF h, t, r
<1>7. x \in Pedidos /\ x.pid = h.pid /\ x.dfs = t
  BY <1>2, <1>5 DEF Pedidos
<1> HIDE DEF x
<1>8. ASSUME NEW k \in 1..(n - 1)
      PROVE  \E j \in 1..n : De(r[k], j)
  <2>1. k + 1 \in 1..n /\ r[k] = cola_io[k + 1]
    BY <1>3
  <2>2. De(cola_io[k + 1], k + 1)
    OBVIOUS
  <2> HIDE DEF De
  <2> QED
    BY <2>1, <2>2
<1>9. CASE t = <<>>
  <2>1. Siguiente = r /\ Len(Siguiente) = n - 1
    BY <1>3, <1>6, <1>9
  <2>2. \A k \in 1..Len(Siguiente) : PedidoBien(Siguiente[k].dfs)
    BY <1>4, <2>1
  <2>3. \A k \in 1..Len(Siguiente) : \E j \in 1..n : De(Siguiente[k], j)
    <3> HIDE DEF De
    <3> QED
      BY <1>8, <2>1
  <2> HIDE DEF n
  <2> QED
    BY <1>3, <1>9, <2>1, <2>2, <2>3 DEF h, t, n
<1>10. CASE t # <<>>
  <2> DEFINE s == <<x>> \o r
  <2>1. /\ <<x>> \in Seq(Pedidos) /\ Len(<<x>>) = 1 /\ <<x>>[1] = x
    BY <1>7
  <2>2. /\ s \in Seq(Pedidos) /\ Len(s) = n
        /\ s[1] = x /\ \A k \in 2..n : s[k] = r[k - 1] /\ k - 1 \in 1..(n - 1)
    <3> HIDE DEF x
    <3>1. s \in Seq(Pedidos) /\ Len(s) = 1 + Len(r)
      BY <1>3, <2>1, ConcatProperties
    <3>2. s[1] = x
      BY <1>1, <1>3, <2>1
    <3>3. ASSUME NEW k \in 2..n PROVE s[k] = r[k - 1] /\ k - 1 \in 1..(n - 1)
      BY <1>1, <1>3, <2>1
    <3> QED
      BY <1>1, <1>3, <3>1, <3>2, <3>3
  <2>3. s = Siguiente
    BY <1>6, <1>10
  <2> HIDE DEF s
  <2>4. s # <<>> /\ Head(s) = x
    BY <1>1, <2>2, EmptySeq
  <2>5. \A k \in 1..n : k = 1 \/ k \in 2..n
    BY <1>1
  <2>6. \A k \in 1..n : PedidoBien(s[k].dfs)
    BY <1>4, <1>5, <1>7, <1>10, <2>2, <2>5
  <2>7. ASSUME NEW k \in 1..n
        PROVE  \E j \in 1..n : De(s[k], j)
    <3>1. CASE k = 1
      BY <1>1, <1>5, <1>7, <2>2, <3>1
    <3>2. CASE k \in 2..n
      <4>1. s[k] = r[k - 1] /\ k - 1 \in 1..(n - 1)
        BY <2>2, <3>2
      <4> HIDE DEF De
      <4>2. \E j \in 1..n : De(r[k - 1], j)
        BY <1>8, <4>1
      <4> QED
        BY <4>1, <4>2
    <3> QED
      BY <2>5, <3>1, <3>2
  <2> QED
    <3>1. Len(Siguiente) = n
      BY <2>2, <2>3
    <3>2. \A k \in 1..Len(Siguiente) : PedidoBien(Siguiente[k].dfs)
      BY <2>3, <2>6, <3>1
    <3>3. \A k \in 1..Len(Siguiente) : \E j \in 1..n : De(Siguiente[k], j)
      <4> HIDE DEF De
      <4> QED
        BY <2>3, <2>7, <3>1
    <3>4. /\ Siguiente # <<>> /\ Head(Siguiente).pid = h.pid
          /\ Head(Siguiente).dfs = t
      BY <1>7, <2>3, <2>4
    <3>5. Siguiente \in Seq(Pedidos)
      BY <2>2, <2>3
    <3> HIDE DEF n
    <3> QED
      BY <3>2, <3>3, <3>4, <3>5 DEF h, t, n
<1> QED
  BY <1>9, <1>10

(* What the device does to the queue is well formed. *)
LEMMA SiguienteTipo ==
  ASSUME TipoInv, cola_io # <<>>, cola_io' = Siguiente, TecladoOK', PagTypeOK',
         UNCHANGED <<mmu_vars, cpu_vars, vida, tabla>>
  PROVE  TipoInv'
<1>0. PagTypeOK /\ TlbOK /\ CpuOK /\ ColaOK /\ VivosOK
  BY DEF TipoInv
<1>1. /\ cola_io' \in Seq(Pedidos)
      /\ \A k \in 1..Len(cola_io') : PedidoBien(cola_io'[k].dfs)
      /\ \A k \in 1..Len(cola_io') : \E j \in 1..Len(cola_io) :
            cola_io'[k].pid = cola_io[j].pid
  BY <1>0, SiguienteHechos
<1>2. ColaOK'
  BY <1>1 DEF ColaOK
<1>3. TlbOK'
  BY <1>0 DEF TlbOK, mmu_vars
<1>4. CpuOK'
  <2>1. Tamanio(corre)' = Tamanio(corre)
    BY DEF Tamanio, cpu_vars
  <2>2. AccesoBien(acceso, Tamanio(corre))' <=>
             AccesoBien(acceso, Tamanio(corre))
    BY <2>1 DEF AccesoBien, Cadena, Enteras, Entera, cpu_vars
  <2> QED
    BY <1>0, <2>2 DEF CpuOK, cpu_vars
<1>5. VivosOK'
  BY <1>0, <1>1 DEF VivosOK, cpu_vars
<1> QED
  BY <1>2, <1>3, <1>4, <1>5 DEF TipoInv

(* A STDOUT device has read a fragment. *)
LEMMA DispLeeTipo == ASSUME TipoInv, DispLee PROVE TipoInv'
<1>0. PagTypeOK /\ TecladoOK
  BY DEF TipoInv
<1>1. /\ cola_io # <<>> /\ config.dispositivo = "STDOUT"
      /\ cola_io' = Siguiente
      /\ UNCHANGED <<pag_vars, mmu_vars, cpu_vars, escrito, teclado>>
  BY DEF DispLee
<1>2. TecladoOK'
  BY <1>0, <1>1 DEF TecladoOK
<1>3. PagTypeOK' /\ UNCHANGED <<vida, tabla>>
  BY <1>0, <1>1 DEF PagTypeOK, pag_vars
<1> QED
  BY <1>1, <1>2, <1>3, SiguienteTipo

(* Steps that only move the bytes of the console. *)
LEMMA TecladoTipo ==
  ASSUME TipoInv, UNCHANGED <<mmu_vars, cpu_vars, vida, tabla, cola_io>>,
         PagTypeOK', TecladoOK'
  PROVE  TipoInv'
<1>0. TlbOK /\ CpuOK /\ ColaOK /\ VivosOK
  BY DEF TipoInv
<1>1. TlbOK' /\ ColaOK' /\ VivosOK'
  BY <1>0 DEF TlbOK, ColaOK, VivosOK, mmu_vars, cpu_vars
<1>2. CpuOK'
  <2>1. Tamanio(corre)' = Tamanio(corre)
    BY DEF Tamanio, cpu_vars
  <2>2. AccesoBien(acceso, Tamanio(corre))' <=>
             AccesoBien(acceso, Tamanio(corre))
    BY <2>1 DEF AccesoBien, Cadena, Enteras, Entera, cpu_vars
  <2> QED
    BY <1>0, <2>2 DEF CpuOK, cpu_vars
<1> QED
  BY <1>1, <1>2 DEF TipoInv

(* leer_de_consola gives as many bytes as the fragments ask for. *)
LEMMA DispTecladoTipo == ASSUME TipoInv, DispTeclado PROVE TipoInv'
<1>0. PagTypeOK /\ TecladoOK /\ ColaOK
  BY DEF TipoInv
<1> DEFINE dfs == Head(cola_io).dfs
<1>1. /\ cola_io # <<>> /\ config.dispositivo = "STDIN" /\ escrito = SinMarca
      /\ UNCHANGED <<pag_vars, mmu_vars, cpu_vars, cola_io, escrito>>
  BY DEF DispTeclado
<1>2. PICK linea \in [1..Pendientes(dfs) -> Bytes] : teclado' = linea
  BY DEF DispTeclado
<1>3. dfs \in Seq(Fragmento) /\ PedidoBien(dfs)
  <2>1. Head(cola_io) = cola_io[1] /\ 1 \in 1..Len(cola_io)
    BY <1>0, <1>1, EmptySeq, LenProperties DEF ColaOK
  <2> QED
    BY <1>0, <2>1, UnPedido
<1> HIDE DEF dfs
<1>4. Pendientes(dfs) = Final(dfs) - dfs[1].dl
  BY <1>3, PendientesLargo DEF PedidoBien
<1>5. Pendientes(dfs) \in Nat
  BY <1>3, <1>4 DEF PedidoBien, Cadena
<1>6. teclado' \in Seq(Bytes) /\ Len(teclado') = Final(dfs) - dfs[1].dl
  BY <1>2, <1>4, <1>5
<1>7. TecladoOK'
  BY <1>0, <1>1, <1>3, <1>6 DEF TecladoOK, dfs, mmu_vars, PedidoBien, Cadena
<1>8. PagTypeOK' /\ UNCHANGED <<vida, tabla>>
  BY <1>0, <1>1 DEF PagTypeOK, pag_vars
<1> QED
  BY <1>1, <1>7, <1>8, TecladoTipo

(* The write of a fragment takes its bytes. *)
LEMMA DispEscribeTipo == ASSUME TipoInv, DispEscribe PROVE TipoInv'
<1>0. PagTypeOK /\ TecladoOK /\ ColaOK
  BY DEF TipoInv
<1> DEFINE dfs == Head(cola_io).dfs
           f == Head(dfs)
           m == MarcoDe(f.df)
           s == SubSeq(teclado, 1, f.tam)
<1>1. /\ cola_io # <<>> /\ config.dispositivo = "STDIN" /\ escrito = SinMarca
      /\ teclado # <<>> /\ CopiarEnMemoria(f.df, s)
      /\ teclado' = SubSeq(teclado, f.tam + 1, Len(teclado))
      /\ escrito' = [marco |-> m, byte |-> ocupados \intersect ByteDe(m)]
      /\ UNCHANGED <<mmu_vars, cpu_vars, cola_io>>
  BY DEF DispEscribe
<1>2. dfs \in Seq(Fragmento) /\ PedidoBien(dfs)
  <2>1. Head(cola_io) = cola_io[1] /\ 1 \in 1..Len(cola_io)
    BY <1>0, <1>1, EmptySeq, LenProperties DEF ColaOK
  <2> QED
    BY <1>0, <2>1, UnPedido
<1>3. /\ teclado \in Seq(Bytes)
      /\ Len(teclado) = Final(dfs) - dfs[1].dl - 0
  BY <1>0, <1>1 DEF TecladoOK
<1> HIDE DEF dfs
<1>4. /\ f = dfs[1] /\ f \in Fragmento /\ f.dl + f.tam <= Final(dfs)
      /\ Final(dfs) \in Nat
  BY <1>2, PedidoTail
<1>5. /\ f.tam \in Nat \ {0} /\ f.df \in Nat /\ f.df < CantMarcos * TamPagina
      /\ f.dl \in Nat /\ CantMarcos \in Nat
  BY <1>4, PaginacionAssumption DEF Fragmento, Direcciones
<1> HIDE DEF f
<1>6. f.tam <= Len(teclado) /\ Len(teclado) \in Nat
  BY <1>3, <1>4, <1>5
<1>7. m \in Marcos
  <2>1. m = Pagina(f.df) /\ Pagina(f.df) < CantMarcos /\ Pagina(f.df) \in Nat
    BY <1>5, DivMod, PaginaMenor
  <2> QED
    BY <1>5, <2>1 DEF Marcos
<1>8. /\ s \in Seq(Bytes) /\ teclado' \in Seq(Bytes)
      /\ Len(teclado') = Len(teclado) - f.tam
  BY <1>1, <1>3, <1>5, <1>6, TextoPartido
<1>9. PagTypeOK' /\ UNCHANGED <<vida, tabla>>
  <2>1. MemoriaCon(f.df, s) \in [Direcciones -> Bytes]
    BY <1>0, <1>5, <1>8, MemoriaConTipo
  <2> QED
    BY <1>0, <1>1, <2>1 DEF CopiarEnMemoria, PagTypeOK
<1> HIDE DEF m, s
<1>10. /\ escrito' \in [marco : Marcos, byte : SUBSET Marcos]
       /\ escrito' # SinMarca
  <2>1. ocupados \intersect ByteDe(m) \in SUBSET Marcos
    BY DEF ByteDe
  <2>2. escrito'.marco # Nadie \/ Nadie \in Marcos
    BY <1>1, <1>7
  <2>3. "byte" \in DOMAIN escrito' /\ "byte" \notin DOMAIN SinMarca
    BY <1>1 DEF SinMarca
  <2> QED
    BY <1>1, <1>7, <2>1, <2>3
<1>11. Len(teclado') = Final(dfs) - dfs[1].dl - dfs[1].tam
  BY <1>3, <1>4, <1>5, <1>6, <1>8
<1>12. TecladoOK'
  BY <1>1, <1>8, <1>10, <1>11 DEF TecladoOK, dfs, mmu_vars
<1> QED
  BY <1>1, <1>9, <1>12, TecladoTipo

(* The bit of the frame, and the answer. *)
LEMMA DispMarcaTipo == ASSUME TipoInv, DispMarca PROVE TipoInv'
<1>0. PagTypeOK /\ TecladoOK /\ ColaOK
  BY DEF TipoInv
<1> DEFINE dfs == Head(cola_io).dfs
           t == Tail(dfs)
<1>1. /\ escrito # SinMarca /\ MarcarConByte(escrito.marco, escrito.byte)
      /\ escrito' = SinMarca /\ cola_io' = Siguiente
      /\ UNCHANGED <<mmu_vars, cpu_vars, teclado>>
  BY DEF DispMarca
<1>2. /\ cola_io # <<>> /\ config.dispositivo = "STDIN"
      /\ teclado \in Seq(Bytes)
      /\ escrito \in [marco : Marcos, byte : SUBSET Marcos]
      /\ Len(teclado) = Final(dfs) - dfs[1].dl - dfs[1].tam
  BY <1>0, <1>1 DEF TecladoOK
<1>3. dfs \in Seq(Fragmento) /\ PedidoBien(dfs)
  <2>1. Head(cola_io) = cola_io[1] /\ 1 \in 1..Len(cola_io)
    BY <1>0, <1>2, EmptySeq, LenProperties DEF ColaOK
  <2> QED
    BY <1>0, <2>1, UnPedido
<1>4. t # <<>> => /\ cola_io' # <<>> /\ Head(cola_io').dfs = t
  BY <1>0, <1>1, <1>2, SiguienteHechos
<1> HIDE DEF dfs
<1>5. /\ dfs[1] \in Fragmento /\ Final(dfs) \in Nat
      /\ t = <<>> => Final(dfs) = dfs[1].dl + dfs[1].tam
      /\ t # <<>> => /\ t[1].dl = dfs[1].dl + dfs[1].tam
                     /\ Final(t) = Final(dfs)
  BY <1>3, PedidoTail
<1>6. dfs[1].dl \in Nat /\ dfs[1].tam \in Nat
  BY <1>5 DEF Fragmento
<1> HIDE DEF t
<1>7. t = <<>> => Len(teclado) = 0
  BY <1>2, <1>5, <1>6
<1>8. t = <<>> => teclado = <<>>
  BY <1>2, <1>7, EmptySeq
<1>9. t # <<>> => Len(teclado) = Final(t) - t[1].dl
  <2> DEFINE x == Final(dfs)
             u == dfs[1].dl
             v == dfs[1].tam
  <2>1. x \in Nat /\ u \in Nat /\ v \in Nat
    BY <1>5, <1>6
  <2>2. /\ Len(teclado) = x - u - v
        /\ t # <<>> => t[1].dl = u + v /\ Final(t) = x
    BY <1>2, <1>5
  <2> HIDE DEF x, u, v
  <2>3. x - u - v = x - (u + v)
    BY <2>1
  <2> QED
    BY <2>2, <2>3
<1>10. t # <<>> => Len(teclado) = Final(t) - t[1].dl - 0
  <2> SUFFICES ASSUME t # <<>> PROVE Len(teclado) = Final(t) - t[1].dl - 0
    OBVIOUS
  <2>1. Len(teclado) \in Nat
    BY <1>2, LenProperties
  <2>2. Final(t) - t[1].dl \in Nat
    BY <1>9, <2>1
  <2> QED
    BY <1>9, <2>2
<1>11. TecladoOK'
  BY <1>1, <1>2, <1>4, <1>8, <1>10 DEF TecladoOK, mmu_vars
<1>12. PagTypeOK' /\ UNCHANGED <<vida, tabla>>
  BY <1>0, <1>1, <1>2 DEF MarcarConByte, PagTypeOK
<1> QED
  BY <1>1, <1>2, <1>11, <1>12, SiguienteTipo

-----------------------------------------------------------------------------

(* An instruction begins. *)
LEMMA EmpiezanTipo ==
  ASSUME TipoInv, MOV_IN \/ MOV_OUT \/ COPY_STRING \/ IO PROVE TipoInv'
<1> DEFINE nada == <<>>
<1>0. Tamanios \subseteq Nat \ {0} /\ nada \in Seq(Bytes) /\ Len(nada) = 0
  BY SistemaAssumption, EmptySeq
<1>1. CASE MOV_IN
  <2>1. PICK tam \in Tamanios : \E dl \in Desde(tam) :
           Empieza(Acceso("MOV_IN", dl, tam, <<>>, 0))
    BY <1>1 DEF MOV_IN
  <2>2. tam \in Nat \ {0} /\ 0 \in Nat
    BY <1>0
  <2>3. PICK dl \in Desde(tam) : Empieza(Acceso("MOV_IN", dl, tam, nada, 0))
    BY <2>1
  <2> HIDE DEF nada
  <2> QED
    BY <1>0, <2>2, <2>3, EmpiezaTipo
<1>2. CASE MOV_OUT
  <2>1. PICK tam \in Tamanios : \E dl \in Desde(tam) :
             \E dato \in [1..tam -> Bytes] :
           Empieza(Acceso("MOV_OUT", dl, tam, dato, 0))
    BY <1>2 DEF MOV_OUT
  <2>2. PICK dl \in Desde(tam), dato \in [1..tam -> Bytes] :
           Empieza(Acceso("MOV_OUT", dl, tam, dato, 0))
    BY <2>1
  <2>3. /\ tam \in Nat \ {0} /\ 0 \in Nat /\ dato \in Seq(Bytes)
        /\ Len(dato) = tam
    BY <1>0
  <2> QED
    BY <2>2, <2>3, EmpiezaTipo
<1>3. CASE COPY_STRING
  <2>1. PICK tam \in Tamanios : \E si, di \in Desde(tam) :
           Empieza(Acceso("COPY_LEE", si, tam, <<>>, di))
    BY <1>3 DEF COPY_STRING
  <2>2. PICK si \in Desde(tam), di \in Desde(tam) :
           Empieza(Acceso("COPY_LEE", si, tam, nada, di))
    BY <2>1
  <2>3. tam \in Nat \ {0} /\ di \in Nat
    BY <1>0, PaginacionAssumption DEF Desde
  <2> HIDE DEF nada
  <2> QED
    BY <1>0, <2>2, <2>3, EmpiezaTipo
<1>4. CASE IO
  <2>1. PICK tam \in Tamanios : \E dl \in Desde(tam) :
           Empieza(Acceso("IO", dl, tam, <<>>, 0))
    BY <1>4 DEF IO
  <2>2. tam \in Nat \ {0} /\ 0 \in Nat
    BY <1>0
  <2>3. PICK dl \in Desde(tam) : Empieza(Acceso("IO", dl, tam, nada, 0))
    BY <2>1
  <2> HIDE DEF nada
  <2> QED
    BY <1>0, <2>2, <2>3, EmpiezaTipo
<1> QED
  BY <1>1, <1>2, <1>3, <1>4

(* The process leaves the CPU, or its RESIZE is answered. *)
LEMMA TerminanTipo ==
  ASSUME TipoInv, Deja \/ RespuestaResize PROVE TipoInv'
<1>1. /\ UNCHANGED <<pag_vars, mmu_vars, hechas, acabado, io_vars>>
      /\ corre' \in {corre, Nadie} /\ acceso' = SinAcceso
  BY DEF Deja, RespuestaResize
<1>2. PagTypeOK' /\ hechas' \in 0..MaxInstrucciones /\ acabado' \subseteq PID
  BY <1>1 DEF TipoInv, PagTypeOK, CpuOK, pag_vars
<1> QED
  BY <1>1, <1>2, TerminaTipo DEF pag_vars

(* Every step. *)
LEMMA TipoPaso == ASSUME TipoInv, [MemNext]_mem_vars PROVE TipoInv'
<1>1. CASE UNCHANGED mem_vars
  <2>1. PagTypeOK' /\ TecladoOK'
    BY <1>1 DEF TipoInv, PagTypeOK, TecladoOK, mem_vars, pag_vars, mmu_vars,
           io_vars
  <2> QED
    BY <1>1, <2>1, TecladoTipo DEF mem_vars, pag_vars, io_vars
<1>2. ASSUME NEW p \in PID, Crear(p) PROVE TipoInv'
  <2>1. p # corre
    BY <1>2 DEF Crear, CrearProceso, TipoInv, VivosOK
  <2> QED
    BY <1>2, <2>1, VidaTipo DEF Crear, CrearProceso
<1>3. ASSUME NEW p \in PID, Fin(p) PROVE TipoInv'
  BY <1>3, VidaTipo DEF Fin, FinProceso
<1>4. ASSUME NEW p \in PID, Despacha(p) PROVE TipoInv'
  BY <1>4, DespachaTipo
<1>5. CASE Deja \/ RespuestaResize
  BY <1>5, TerminanTipo
<1>6. CASE MOV_IN \/ MOV_OUT \/ COPY_STRING \/ IO
  BY <1>6, EmpiezanTipo
<1>7. ASSUME NEW tamanio \in 0..((CantMarcos + 1) * TamPagina), RESIZE(tamanio)
      PROVE  TipoInv'
  BY <1>7, RESIZETipo, PaginacionAssumption
<1>8. CASE AjustaPagina
  BY <1>8, AjustaTipo
<1>9. CASE Traduce \/ Lee \/ TerminaLectura \/ Escribe \/ Bloquea
  BY <1>9, TraduceTipo, LeeTipo, TerminaLecturaTipo, EscribeTipo, BloqueaTipo
<1>10. CASE DispLee \/ DispTeclado \/ DispEscribe \/ DispMarca
  BY <1>10, DispLeeTipo, DispTecladoTipo, DispEscribeTipo, DispMarcaTipo
<1> QED
  BY <1>1, <1>2, <1>3, <1>4, <1>5, <1>6, <1>7, <1>8, <1>9, <1>10 DEF MemNext

(* It is an invariant. *)
LEMMA TipoSiempre == MemSpec => []TipoInv
<1>1. MemInit => TipoInv
  BY TipoInicial
<1>2. TipoInv /\ [MemNext]_mem_vars => TipoInv'
  BY TipoPaso
<1> QED
  BY <1>1, <1>2, PTL DEF MemSpec

(* The state of CPU, memoria and device is well formed whatever they do: no *)
(* fragment leaves memoria, the TLB keeps its size, and the bytes a console *)
(* gave are as many as the fragments that wait for them                     *)
(* (determinar_tamanio_a_escribir).                                         *)
THEOREM MemTypeOKSiempre == MemSpec => []MemTypeOK
<1>1. TipoInv => MemTypeOK
  <2> SUFFICES ASSUME TipoInv PROVE MemTypeOK
    OBVIOUS
  <2>0. PagTypeOK /\ TlbOK /\ CpuOK /\ ColaOK /\ TecladoOK
    BY DEF TipoInv
  <2>1. acceso.op \in {"NINGUNA", "RESIZE", "IO"} \union Lectoras \union Escritoras
    BY <2>0 DEF CpuOK, SinAcceso, Accesos
  <2>2. \A k \in 1..Len(cola_io) :
             cola_io[k] \in [pid : PID, dfs : Seq(Fragmento)]
    BY <2>0, UnPedido DEF Pedidos
  <2> QED
    BY <2>0, <2>1, <2>2 DEF MemTypeOK, TlbOK, CpuOK, TecladoOK
<1> QED
  BY <1>1, TipoSiempre, PTL

-----------------------------------------------------------------------------
(* RESIZE, all or nothing *)

LEMMA LibresFinito ==
  ASSUME PagTypeOK
  PROVE  /\ IsFiniteSet(Libres) /\ Cardinality(Libres) \in Nat
         /\ \A m \in Libres :
              Cardinality(Libres \ {m}) = Cardinality(Libres) - 1
<1>1. IsFiniteSet(Marcos)
  BY FS_Interval, PaginacionAssumption DEF Marcos
<1>2. IsFiniteSet(Libres)
  BY <1>1, FS_Subset DEF Libres
<1> QED
  BY <1>2, FS_CardinalityType, FS_RemoveElement

(* Nothing that RESIZE counted changes. *)
LEMMA CuentaIgual ==
  ASSUME ResizeTodoONada,
         \/ acceso'.op # "RESIZE"
         \/ UNCHANGED <<acceso, corre, ocupados>> /\ tabla'[corre] = tabla[corre]
  PROVE  ResizeTodoONada'
BY DEF ResizeTodoONada, Libres, Marcos

(* hay_n_marcos_disponibles counts before the answer. *)
LEMMA CuentaRESIZE ==
  ASSUME TipoInv, NEW tamanio \in Nat, RESIZE(tamanio)
  PROVE  ResizeTodoONada'
<1> DEFINE actuales == Len(tabla[corre])
           finales == PaginasPara(tamanio)
<1>1. /\ corre # Nadie /\ UNCHANGED <<pag_vars, mmu_vars, io_vars>>
      /\ \/ /\ IF finales > actuales THEN HayNMarcos(finales - actuales)
               ELSE actuales > 0
            /\ acceso' = [op |-> "RESIZE", paginas |-> finales]
            /\ corre' = corre
         \/ acceso' = SinAcceso
  BY DEF RESIZE, SinMemoria
<1>2. corre \in PID /\ PagTypeOK
  BY <1>1 DEF TipoInv, CpuOK
<1>3. actuales \in Nat /\ finales \in Nat /\ Cardinality(Libres) \in Nat
  <2>1. tabla[corre] \in Seq(Marcos)
    BY <1>2 DEF PagTypeOK
  <2>2. tamanio + TamPagina - 1 \in Nat
    BY PaginacionAssumption
  <2> QED
    BY <1>2, <2>1, <2>2, LenProperties, LibresFinito,
           PaginacionAssumption DEF PaginasPara
<1>4. Libres' = Libres /\ tabla' = tabla
  BY <1>1 DEF pag_vars, Libres, Marcos
<1>5. CASE acceso' = SinAcceso
  BY <1>5 DEF ResizeTodoONada, SinAcceso
<1>6. CASE acceso' # SinAcceso
  <2>1. /\ IF finales > actuales THEN Cardinality(Libres) >= finales - actuales
           ELSE actuales > 0
        /\ acceso' = [op |-> "RESIZE", paginas |-> finales] /\ corre' = corre
    BY <1>1, <1>6 DEF HayNMarcos
  <2>2. acceso'.paginas = finales /\ Len(tabla'[corre']) = actuales
    BY <1>4, <2>1
  <2> HIDE DEF finales, actuales
  <2>3. Cardinality(Libres) >= finales - actuales
    BY <1>3, <2>1
  <2> QED
    BY <1>4, <2>2, <2>3 DEF ResizeTodoONada
<1> QED
  BY <1>5, <1>6

(* Each turn takes one of the frames that were counted. *)
LEMMA CuentaAjusta ==
  ASSUME TipoInv, ResizeTodoONada, AjustaPagina PROVE ResizeTodoONada'
<1>1. acceso.op = "RESIZE" /\ PagTypeOK
  BY DEF AjustaPagina, TipoInv
<1>2. corre \in PID /\ acceso.paginas \in Nat
  BY <1>1 DEF TipoInv, CpuOK, SinAcceso, Accesos, Lectoras, Escritoras
<1>3. /\ tabla[corre] \in Seq(Marcos) /\ Len(tabla[corre]) \in Nat
      /\ tabla \in [PID -> Seq(Marcos)] /\ Cardinality(Libres) \in Nat
      /\ Cardinality(Libres) >= acceso.paginas - Len(tabla[corre])
  BY <1>1, <1>2, LenProperties, LibresFinito DEF PagTypeOK, ResizeTodoONada
<1>4. CASE Len(tabla[corre]) < acceso.paginas /\ Libres # {}
  <2>1. AsignarMarco(corre) /\ UNCHANGED cpu_vars
    BY <1>2, <1>3, <1>4 DEF AjustaPagina
  <2>2. PICK m \in Libres :
           /\ tabla' = [tabla EXCEPT ![corre] = Append(@, m)]
           /\ ocupados' = ocupados \union {m}
    BY <2>1 DEF AsignarMarco
  <2>3. Libres' = Libres \ {m} /\ m \in Marcos
    BY <2>2 DEF Libres, Marcos
  <2>4. Cardinality(Libres') = Cardinality(Libres) - 1
    BY <1>1, <2>2, <2>3, LibresFinito
  <2>5. Len(tabla'[corre]) = Len(tabla[corre]) + 1
    BY <1>2, <1>3, <2>2, <2>3, AppendProperties
  <2>6. corre' = corre /\ acceso' = acceso
    BY <2>1 DEF cpu_vars
  <2> QED
    BY <1>2, <1>3, <2>4, <2>5, <2>6 DEF ResizeTodoONada
<1>5. CASE Len(tabla[corre]) < acceso.paginas /\ Libres = {}
  BY <1>2, <1>3, <1>5 DEF AjustaPagina, SinMemoria, SinAcceso, ResizeTodoONada
<1>6. CASE Len(tabla[corre]) > acceso.paginas
  <2>1. QuitarPagina(corre) /\ UNCHANGED cpu_vars
    BY <1>2, <1>3, <1>6 DEF AjustaPagina
  <2>2. tabla' = [tabla EXCEPT ![corre] = SubSeq(@, 1, Len(@) - 1)]
    BY <2>1 DEF QuitarPagina, Front
  <2>3. Len(tabla'[corre]) = Len(tabla[corre]) - 1
    <3>1. \A i \in 1..(Len(tabla[corre]) - 1) : tabla[corre][i] \in Marcos
      BY <1>3, ElementOfSeq
    <3>2. Len(tabla[corre]) - 1 \in Nat
      BY <1>2, <1>3, <1>6
    <3>3. Len(SubSeq(tabla[corre], 1, Len(tabla[corre]) - 1)) =
               Len(tabla[corre]) - 1
      BY <1>3, <3>1, <3>2, SubSeqProperties
    <3>4. tabla'[corre] = SubSeq(tabla[corre], 1, Len(tabla[corre]) - 1)
      BY <1>2, <1>3, <2>2
    <3> QED
      BY <3>3, <3>4
  <2>4. corre' = corre /\ acceso' = acceso
    BY <2>1 DEF cpu_vars
  <2>5. Cardinality(Libres') \in Nat
    <3>1. PagTypeOK'
      BY AjustaTipo DEF TipoInv
    <3>2. IsFiniteSet(Libres')
      <4>1. IsFiniteSet(Marcos) /\ Libres' \subseteq Marcos
        BY FS_Interval, PaginacionAssumption DEF Marcos, Libres
      <4> QED
        BY <4>1, FS_Subset
    <3> QED
      BY <3>2, FS_CardinalityType
  <2> QED
    BY <1>2, <1>3, <1>6, <2>3, <2>4, <2>5 DEF ResizeTodoONada
<1> QED
  BY <1>4, <1>5, <1>6 DEF AjustaPagina

(* What the count rests on. *)
ResizeInv == TipoInv /\ MarcosInv /\ ResizeTodoONada

(* Every step. *)
LEMMA ResizePaso ==
  ASSUME SinCarrera, ResizeInv, [MemNext]_mem_vars
  PROVE  ResizeTodoONada'
<1>0. TipoInv /\ MarcosInv /\ ResizeTodoONada
  BY DEF ResizeInv
<1>1. CASE UNCHANGED mem_vars
  BY <1>0, <1>1, CuentaIgual DEF mem_vars, pag_vars, cpu_vars
<1>2. ASSUME NEW p \in PID, Crear(p) \/ Fin(p) PROVE ResizeTodoONada'
  <2>1. UNCHANGED <<cpu_vars, ocupados>> /\ tabla' = [tabla EXCEPT ![p] = <<>>]
    BY <1>2 DEF Crear, Fin, CrearProceso, FinProceso
  <2>2. CASE acceso.op = "RESIZE"
    <3>1. corre \in PID /\ vida[corre] = "presente"
      BY <1>0, <2>2 DEF TipoInv, CpuOK, SinAcceso, Accesos, Lectoras,
             Escritoras, VivosOK
    <3>2. p # corre
      BY <1>2, <3>1 DEF Crear, CrearProceso, Fin
    <3>3. tabla'[corre] = tabla[corre]
      BY <1>0, <2>1, <3>1, <3>2 DEF TipoInv, PagTypeOK
    <3> QED
      BY <1>0, <2>1, <3>3, CuentaIgual DEF cpu_vars
  <2>3. CASE acceso.op # "RESIZE"
    BY <1>0, <2>1, <2>3, CuentaIgual DEF cpu_vars
  <2> QED
    BY <2>2, <2>3
<1>3. ASSUME NEW p \in PID, Despacha(p) PROVE ResizeTodoONada'
  <2>1. acceso.op # "RESIZE"
    BY <1>0, <1>3, SistemaAssumption DEF Despacha, TipoInv, CpuOK, SinAcceso
  <2> QED
    BY <1>0, <1>3, <2>1, CuentaIgual DEF Despacha
<1>4. CASE Deja \/ RespuestaResize
  BY <1>0, <1>4, CuentaIgual DEF Deja, RespuestaResize, SinAcceso
<1>5. CASE MOV_IN \/ MOV_OUT \/ COPY_STRING \/ IO
  <2>1. acceso'.op \in {"MOV_IN", "MOV_OUT", "COPY_LEE", "IO"}
    BY <1>5 DEF MOV_IN, MOV_OUT, COPY_STRING, IO, Empieza, Acceso
  <2> QED
    BY <1>0, <2>1, CuentaIgual
<1>6. ASSUME NEW tamanio \in 0..((CantMarcos + 1) * TamPagina), RESIZE(tamanio)
      PROVE  ResizeTodoONada'
  BY <1>0, <1>6, CuentaRESIZE, PaginacionAssumption
<1>7. CASE AjustaPagina
  BY <1>0, <1>7, CuentaAjusta
<1>8. CASE Traduce \/ Lee \/ TerminaLectura \/ Escribe \/ Bloquea
  <2>1. acceso.op \in Lectoras \union Escritoras \union {"IO"}
    BY <1>8 DEF Traduce, Traduciendo, Lee, TerminaLectura, Escribe, Bloquea,
           Traducida
  <2>2. acceso \in Accesos
    BY <1>0, <2>1, EnAcceso DEF TipoInv
  <2>3. acceso'.op \in {acceso.op, "NINGUNA", "COPY_ESCRIBE"}
    <3>1. CASE Traduce
      BY <2>2, <3>1 DEF Traduce, Accesos
    <3>2. CASE Lee
      BY <2>2, <3>2 DEF Lee, Accesos
    <3>3. CASE Escribe
      BY <2>2, <3>3 DEF Escribe, Accesos, SinAcceso
    <3>4. CASE TerminaLectura \/ Bloquea
      BY <3>4 DEF TerminaLectura, Bloquea, SinAcceso, Acceso
    <3> QED
      BY <1>8, <3>1, <3>2, <3>3, <3>4
  <2>4. acceso'.op # "RESIZE"
    BY <2>1, <2>3 DEF Lectoras, Escritoras
  <2> QED
    BY <1>0, <2>4, CuentaIgual
<1>9. CASE DispLee \/ DispTeclado \/ DispEscribe
  BY <1>0, <1>9, CuentaIgual
    DEF DispLee, DispTeclado, DispEscribe, CopiarEnMemoria, pag_vars, cpu_vars
<1>10. CASE DispMarca
  <2>1. /\ escrito # SinMarca /\ UNCHANGED <<acceso, corre>>
    BY <1>10 DEF DispMarca, cpu_vars
  <2>2. cola_io # <<>> /\ config.dispositivo = "STDIN"
    BY <1>0, <2>1 DEF TipoInv, TecladoOK
  <2>3. acceso.op # "RESIZE"
    BY <1>0, <2>2 DEF MarcosInv, ResizeSinIO
  <2> QED
    BY <1>0, <2>1, <2>3, CuentaIgual
<1> QED
  BY <1>1, <1>2, <1>3, <1>4, <1>5, <1>6, <1>7, <1>8, <1>9, <1>10 DEF MemNext

(* The frames that hay_n_marcos_disponibles counted are there when          *)
(* aumentar_tam_proceso takes them, so that RESIZE grants all the pages or  *)
(* none: nobody else takes a frame between the count and the last turn.     *)
THEOREM ResizeTodoONadaSiempre ==
  ASSUME SinCarrera PROVE MemSpec => []ResizeTodoONada
<1>1. MemInit => ResizeInv
  <2>1. MemInit => ResizeTodoONada
    BY DEF MemInit, ResizeTodoONada, SinAcceso
  <2> QED
    BY <2>1, TipoInicial, MarcosInicial DEF ResizeInv
<1>2. ResizeInv /\ [MemNext]_mem_vars => ResizeInv'
  BY TipoPaso, MarcosPaso, ResizePaso DEF ResizeInv
<1>3. ResizeInv => ResizeTodoONada
  BY DEF ResizeInv
<1> QED
  BY <1>1, <1>2, <1>3, PTL DEF MemSpec

-----------------------------------------------------------------------------
(***************************************************************************)
(* Translations.  The precondition: no TLB with programs that give memory  *)
(* back, for RESIZE leaves the entries of the pages it took in the TLB.    *)
(***************************************************************************)
SinTLBVieja == \A c \in Configs : c.cantidad_entradas_tlb = 0 \/ ~c.achica

(* An access that has fragments. *)
EnMemoria(a) == a.op \in Lectoras \union Escritoras \union {"IO"}

(* All its fragments are what the page table of p gives. *)
ValeTodo(p, dfs) == \A k \in 1..Len(dfs) : Vale(p, dfs[k])

(* The page table gives the frame of the entry, or the process is over. *)
EntradaBien(r) ==
    \/ vida[r.pid] = "borrado"
    \/ /\ vida[r.pid] = "presente"
       /\ r.pagina < Len(tabla[r.pid])
       /\ r.marco = tabla[r.pid][r.pagina + 1]

(* The invariant behind TraduccionVigente. *)
VigenteInv ==
    /\ \A p \in PID : vida[p] # "presente" => tabla[p] = <<>>
    /\ \A k \in 1..Len(tlb) : EntradaBien(tlb[k])
    /\ EnMemoria(acceso) => ValeTodo(corre, acceso.dfs)
    /\ \A k \in 1..Len(cola_io) : ValeTodo(cola_io[k].pid, cola_io[k].dfs)
    /\ ~config.achica /\ acceso.op = "RESIZE" =>
         Len(tabla[corre]) <= acceso.paginas

(* The fields of an entry of the TLB. *)
LEMMA UnaEntrada ==
  ASSUME TlbOK, NEW k \in 1..Len(tlb)
  PROVE  /\ tlb[k] \in RegistrosTLB /\ tlb[k].pid \in PID
         /\ tlb[k].pagina \in Nat /\ tlb[k].marco \in Marcos
<1>1. tlb[k] \in RegistrosTLB
  BY ElementOfSeq DEF TlbOK
<1> QED
  BY <1>1 DEF RegistrosTLB

(* It holds at the beginning. *)
LEMMA VigenteInicial == ASSUME MemInit PROVE VigenteInv
BY EmptySeq DEF MemInit, PagInit, VigenteInv, SinAcceso, EnMemoria, Lectoras,
       Escritoras

(* A step of no page table: the addresses it keeps are addresses it had. *)
LEMMA VigenteQuieta ==
  ASSUME VigenteInv, UNCHANGED <<vida, tabla, config>>,
         tlb' = tlb \/ \A k \in 1..Len(tlb') : EntradaBien(tlb'[k]),
         EnMemoria(acceso') => ValeTodo(corre', acceso'.dfs),
         \A k \in 1..Len(cola_io') :
              ValeTodo(cola_io'[k].pid, cola_io'[k].dfs),
         \/ acceso'.op # "RESIZE"
         \/ UNCHANGED <<acceso, corre>>
         \/ config.achica \/ Len(tabla[corre']) <= acceso'.paginas
  PROVE  VigenteInv'
<1>1. \A k \in 1..Len(tlb') : EntradaBien(tlb'[k])
  BY DEF VigenteInv
<1>2. \A k \in 1..Len(tlb') : EntradaBien(tlb[k])'
  BY <1>1 DEF EntradaBien
<1>3. EnMemoria(acceso)' => ValeTodo(corre, acceso.dfs)'
  BY DEF ValeTodo, Vale, EnMemoria
<1>4. \A k \in 1..Len(cola_io') : ValeTodo(cola_io[k].pid, cola_io[k].dfs)'
  BY DEF ValeTodo, Vale
<1>5. (~config.achica /\ acceso.op = "RESIZE" => Len(tabla[corre]) <= acceso.paginas)'
  BY DEF VigenteInv
<1>6. \A p \in PID : vida'[p] # "presente" => tabla'[p] = <<>>
  BY DEF VigenteInv
<1> QED
  BY <1>2, <1>3, <1>4, <1>5, <1>6 DEF VigenteInv

(* The addresses of the device, when its queue does not grow. *)
LEMMA ColaVigente ==
  ASSUME TipoInv, VigenteInv,
         cola_io' = cola_io \/ (cola_io # <<>> /\ cola_io' = Siguiente)
  PROVE  \A k \in 1..Len(cola_io') : ValeTodo(cola_io'[k].pid, cola_io'[k].dfs)
<1>0. /\ ColaOK
      /\ \A k \in 1..Len(cola_io) : ValeTodo(cola_io[k].pid, cola_io[k].dfs)
  BY DEF VigenteInv, TipoInv
<1>1. CASE cola_io # <<>> /\ cola_io' = Siguiente
  <2> SUFFICES ASSUME NEW k \in 1..Len(cola_io'),
                      NEW i \in 1..Len(cola_io'[k].dfs)
               PROVE  Vale(cola_io'[k].pid, cola_io'[k].dfs[i])
    BY DEF ValeTodo
  <2>1. PICK j \in 1..Len(cola_io) :
              /\ cola_io'[k].pid = cola_io[j].pid
              /\ \A n \in 1..Len(cola_io'[k].dfs) :
                   \E l \in 1..Len(cola_io[j].dfs) :
                    cola_io'[k].dfs[n] = cola_io[j].dfs[l]
    BY <1>0, <1>1, SiguienteHechos
  <2>2. PICK l \in 1..Len(cola_io[j].dfs) :
             cola_io'[k].dfs[i] = cola_io[j].dfs[l]
    BY <2>1
  <2>3. Vale(cola_io[j].pid, cola_io[j].dfs[l])
    BY <1>0 DEF ValeTodo
  <2> QED
    BY <2>1, <2>2, <2>3
<1> QED
  BY <1>0, <1>1

-----------------------------------------------------------------------------
(* Steps that change the table of a process that no address is of *)

(* The addresses of the others stay. *)
LEMMA VigenteDeOtros ==
  ASSUME TipoInv, VigenteInv, NEW p \in PID, NEW t, ~EnIO(p),
         tabla' = [tabla EXCEPT ![p] = t],
         UNCHANGED <<config, cpu_vars, cola_io>>,
         EnMemoria(acceso) => p # corre
  PROVE  /\ (EnMemoria(acceso) => ValeTodo(corre, acceso.dfs))'
         /\ (\A k \in 1..Len(cola_io) : ValeTodo(cola_io[k].pid, cola_io[k].dfs))'
<1>0. PagTypeOK /\ ColaOK /\ CpuOK
  BY DEF TipoInv
<1>1. \A q \in PID \ {p} : tabla'[q] = tabla[q]
  BY <1>0 DEF PagTypeOK
<1>2. EnMemoria(acceso) => corre \in PID \ {p}
  BY <1>0, EnAcceso DEF EnMemoria
<1>3. \A k \in 1..Len(cola_io) : cola_io[k].pid \in PID \ {p}
  BY <1>0, UnPedido DEF EnIO
<1>4. (EnMemoria(acceso) => ValeTodo(corre, acceso.dfs))'
  BY <1>1, <1>2 DEF VigenteInv, ValeTodo, Vale, EnMemoria, cpu_vars
<1>5. (\A k \in 1..Len(cola_io) : ValeTodo(cola_io[k].pid, cola_io[k].dfs))'
  <2> SUFFICES ASSUME NEW k \in 1..Len(cola_io),
                      NEW i \in 1..Len(cola_io[k].dfs)
               PROVE  Vale(cola_io[k].pid, cola_io[k].dfs[i])'
    BY DEF ValeTodo
  <2>1. Vale(cola_io[k].pid, cola_io[k].dfs[i])
    BY DEF VigenteInv, ValeTodo
  <2> QED
    BY <1>1, <1>3, <2>1 DEF Vale
<1> QED
  BY <1>4, <1>5

(* A process begins or ends. *)
LEMMA VidaVigente ==
  ASSUME TipoInv, VigenteInv, NEW p \in PID, Crear(p) \/ Fin(p)
  PROVE  VigenteInv'
<1>0. PagTypeOK /\ TlbOK /\ CpuOK /\ VivosOK
  BY DEF TipoInv
<1>1. /\ UNCHANGED <<mmu_vars, cpu_vars, io_vars>>
      /\ tabla' = [tabla EXCEPT ![p] = <<>>]
      /\ \/ vida[p] = "ausente" /\ vida' = [vida EXCEPT ![p] = "presente"]
         \/ vida[p] = "presente" /\ vida' = [vida EXCEPT ![p] = "borrado"]
  BY DEF Crear, Fin, CrearProceso, FinProceso
<1>2. p # corre /\ ~EnIO(p)
  <2>1. CASE vida[p] = "ausente"
    BY <1>0, <2>1 DEF VivosOK, EnIO
  <2>2. CASE Fin(p)
    BY <2>2 DEF Fin
  <2> QED
    BY <2>1, <2>2 DEF Crear, CrearProceso
<1>3. /\ (EnMemoria(acceso) => ValeTodo(corre, acceso.dfs))'
      /\ (\A k \in 1..Len(cola_io) : ValeTodo(cola_io[k].pid, cola_io[k].dfs))'
  BY <1>1, <1>2, VigenteDeOtros DEF mmu_vars, io_vars
<1>4. \A q \in PID : /\ tabla'[q] = IF q = p THEN <<>> ELSE tabla[q]
                     /\ q # p => vida'[q] = vida[q]
                     /\ q = p => vida'[q] = "presente" \/ vida'[q] = "borrado"
                     /\ q = p /\ vida[p] = "presente" => vida'[q] = "borrado"
  BY <1>0, <1>1 DEF PagTypeOK
<1>5. \A q \in PID : vida'[q] # "presente" => tabla'[q] = <<>>
  BY <1>4 DEF VigenteInv
<1>6. ASSUME NEW k \in 1..Len(tlb) PROVE EntradaBien(tlb[k])'
  <2>1. tlb' = tlb /\ tlb[k].pid \in PID
    BY <1>0, <1>1, UnaEntrada DEF mmu_vars
  <2>2. EntradaBien(tlb[k])
    BY DEF VigenteInv
  <2>3. CASE tlb[k].pid = p
    BY <1>1, <1>4, <2>1, <2>2, <2>3 DEF EntradaBien
  <2>4. CASE tlb[k].pid # p
    BY <1>4, <2>1, <2>2, <2>4 DEF EntradaBien
  <2> QED
    BY <2>3, <2>4
<1>7. (~config.achica /\ acceso.op = "RESIZE" => Len(tabla[corre]) <= acceso.paginas)'
  <2>1. acceso.op = "RESIZE" => corre \in PID
    BY <1>0 DEF CpuOK, SinAcceso
  <2> QED
    BY <1>1, <1>2, <1>4, <2>1 DEF VigenteInv, cpu_vars, mmu_vars
<1> QED
  BY <1>1, <1>3, <1>5, <1>6, <1>7 DEF VigenteInv, mmu_vars

(* RESIZE gives a page, or takes one when there is no TLB. *)
LEMMA AjustaVigente ==
  ASSUME SinTLBVieja, TipoInv, VigenteInv, AjustaPagina
  PROVE  VigenteInv'
<1>0. PagTypeOK /\ TlbOK /\ CpuOK /\ VivosOK
  BY DEF TipoInv
<1>1. acceso.op = "RESIZE" /\ UNCHANGED <<mmu_vars, io_vars>>
  BY DEF AjustaPagina
<1>2. /\ corre \in PID /\ acceso.paginas \in Nat /\ vida[corre] = "presente"
      /\ ~EnMemoria(acceso) /\ ~EnIO(corre)
  BY <1>0, <1>1 DEF CpuOK, SinAcceso, Accesos, Lectoras, Escritoras, VivosOK,
         EnIO,
                    EnMemoria
<1>3. /\ tabla[corre] \in Seq(Marcos) /\ Len(tabla[corre]) \in Nat
      /\ tabla \in [PID -> Seq(Marcos)]
  BY <1>0, <1>2, LenProperties DEF PagTypeOK
<1>4. CASE Len(tabla[corre]) < acceso.paginas /\ Libres # {}
  <2>1. AsignarMarco(corre) /\ UNCHANGED cpu_vars
    BY <1>2, <1>3, <1>4 DEF AjustaPagina
  <2>2. PICK m \in Libres :
           tabla' = [tabla EXCEPT ![corre] = Append(@, m)] /\ vida' = vida
    BY <2>1 DEF AsignarMarco
  <2>3. /\ Len(tabla'[corre]) = Len(tabla[corre]) + 1
        /\ \A i \in 1..Len(tabla[corre]) : tabla'[corre][i] = tabla[corre][i]
        /\ \A q \in PID \ {corre} : tabla'[q] = tabla[q]
    <3>1. m \in Marcos /\ tabla'[corre] = Append(tabla[corre], m)
          /\ \A q \in PID \ {corre} : tabla'[q] = tabla[q]
      BY <1>2, <1>3, <2>2 DEF Libres
    <3> QED
      BY <1>3, <3>1, AppendProperties
  <2>4. /\ (EnMemoria(acceso) => ValeTodo(corre, acceso.dfs))'
        /\ (\A k \in 1..Len(cola_io) : ValeTodo(cola_io[k].pid, cola_io[k].dfs))'
    BY <1>1, <1>2, <2>1, <2>2, VigenteDeOtros DEF mmu_vars, io_vars
  <2>5. ASSUME NEW k \in 1..Len(tlb) PROVE EntradaBien(tlb[k])'
    <3>1. tlb' = tlb /\ tlb[k].pid \in PID /\ tlb[k].pagina \in Nat
      BY <1>0, <1>1, UnaEntrada DEF mmu_vars
    <3>2. EntradaBien(tlb[k])
      BY DEF VigenteInv
    <3>3. CASE tlb[k].pid = corre
      <4>1. /\ tlb[k].pagina < Len(tabla[corre])
            /\ tlb[k].marco = tabla[corre][tlb[k].pagina + 1]
        BY <1>2, <3>2, <3>3 DEF EntradaBien
      <4>2. tlb[k].pagina + 1 \in 1..Len(tabla[corre])
        BY <1>3, <3>1, <4>1
      <4>3. /\ tlb[k].pagina < Len(tabla'[corre])
            /\ tlb[k].marco = tabla'[corre][tlb[k].pagina + 1]
        <5>1. tabla'[corre][tlb[k].pagina + 1] = tabla[corre][tlb[k].pagina + 1]
          BY <2>3, <4>2
        <5>2. Len(tabla[corre]) \in Nat
          BY <1>3, LenProperties
        <5> QED
          BY <2>3, <3>1, <4>1, <5>1, <5>2
      <4> QED
        BY <1>2, <2>2, <3>1, <3>3, <4>3 DEF EntradaBien
    <3>4. CASE tlb[k].pid # corre
      BY <2>2, <2>3, <3>1, <3>2, <3>4 DEF EntradaBien
    <3> QED
      BY <3>3, <3>4
  <2>6. \A q \in PID : vida'[q] # "presente" => tabla'[q] = <<>>
    BY <1>2, <2>2, <2>3 DEF VigenteInv
  <2>7. Len(tabla'[corre']) <= acceso'.paginas
    BY <1>2, <1>3, <1>4, <2>1, <2>3 DEF cpu_vars
  <2> QED
    BY <1>1, <2>4, <2>5, <2>6, <2>7 DEF VigenteInv, mmu_vars
<1>5. CASE Len(tabla[corre]) < acceso.paginas /\ Libres = {}
  <2>1. acceso' = SinAcceso /\ UNCHANGED pag_vars
    BY <1>2, <1>3, <1>5 DEF AjustaPagina, SinMemoria
  <2>2. \A k \in 1..Len(cola_io') : ValeTodo(cola_io'[k].pid, cola_io'[k].dfs)
    <3>1. cola_io' = cola_io
      BY <1>1 DEF io_vars
    <3>2. \A k \in 1..Len(cola_io) : ValeTodo(cola_io[k].pid, cola_io[k].dfs)
      BY DEF VigenteInv
    <3> QED
      BY <3>1, <3>2
  <2>3. ~EnMemoria(acceso') /\ acceso'.op # "RESIZE"
    BY <2>1 DEF SinAcceso, EnMemoria, Lectoras, Escritoras
  <2> QED
    BY <1>1, <2>1, <2>2, <2>3, VigenteQuieta DEF pag_vars, mmu_vars
<1>6. CASE Len(tabla[corre]) > acceso.paginas
  <2>1. QuitarPagina(corre) /\ UNCHANGED cpu_vars
    BY <1>2, <1>3, <1>6 DEF AjustaPagina
  <2>2. /\ vida' = vida
        /\ tabla' = [tabla EXCEPT ![corre] = SubSeq(@, 1, Len(@) - 1)]
    BY <2>1 DEF QuitarPagina, Front
  <2>3. config.achica
    BY <1>1, <1>2, <1>3, <1>6 DEF VigenteInv
  <2>4. tlb = <<>> /\ Len(tlb) = 0 /\ tlb' = tlb /\ config' = config
    <3>1. config \in Configs /\ tlb \in Seq(RegistrosTLB)
          /\ Len(tlb) <= config.cantidad_entradas_tlb
      BY <1>0 DEF TlbOK
    <3>2. Len(tlb) <= 0
      BY <2>3, <3>1 DEF SinTLBVieja
    <3> QED
      BY <1>1, <3>1, <3>2, LenProperties, EmptySeq DEF mmu_vars
  <2>5. /\ (EnMemoria(acceso) => ValeTodo(corre, acceso.dfs))'
        /\ (\A k \in 1..Len(cola_io) : ValeTodo(cola_io[k].pid, cola_io[k].dfs))'
    BY <1>1, <1>2, <2>1, <2>2, VigenteDeOtros DEF mmu_vars, io_vars
  <2>6. \A q \in PID : vida'[q] # "presente" => tabla'[q] = <<>>
    BY <1>2, <1>3, <2>2 DEF VigenteInv
  <2> QED
    BY <2>3, <2>4, <2>5, <2>6 DEF VigenteInv
<1> QED
  BY <1>4, <1>5, <1>6 DEF AjustaPagina

-----------------------------------------------------------------------------
(* The elements of a sequence with one more. *)
LEMMA AppendElementos ==
  ASSUME NEW S, NEW s \in Seq(S), NEW e \in S
  PROVE  \A k \in 1..Len(Append(s, e)) :
            \/ Append(s, e)[k] = e
            \/ k \in 1..Len(s) /\ Append(s, e)[k] = s[k]
<1>1. /\ Len(Append(s, e)) = Len(s) + 1 /\ Len(s) \in Nat
      /\ Append(s, e)[Len(s) + 1] = e
      /\ \A k \in 1..Len(s) : Append(s, e)[k] = s[k]
  BY AppendProperties, LenProperties
<1>2. \A k \in 1..(Len(s) + 1) : k \in 1..Len(s) \/ k = Len(s) + 1
  BY <1>1
<1> QED
  BY <1>1, <1>2

(* What the TLB gives is right, and so is what is put in it. *)
LEMMA SolicitarVigente ==
  ASSUME TipoInv, VigenteInv, corre \in PID, NEW pagina \in Nat,
         NEW marco \in Marcos,
         pagina < Len(tabla[corre]), SolicitarMarco(corre, pagina, marco)
  PROVE  /\ marco = tabla[corre][pagina + 1]
         /\ \A k \in 1..Len(tlb') : EntradaBien(tlb'[k])
<1>0. /\ TlbOK /\ vida[corre] = "presente"
      /\ \A k \in 1..Len(tlb) : EntradaBien(tlb[k])
  BY DEF TipoInv, VivosOK, VigenteInv
<1>1. tlb \in Seq(RegistrosTLB) /\ Len(tlb) \in Nat
  BY <1>0, LenProperties DEF TlbOK
<1>2. CASE Entradas(corre, pagina) # {}
  <2> DEFINE k == Min(Entradas(corre, pagina))
  <2>1. Entradas(corre, pagina) \in SUBSET Nat
    BY <1>1 DEF Entradas
  <2>2. k \in Entradas(corre, pagina)
    BY <1>2, <2>1, MinimoExiste
  <2>3. k \in 1..Len(tlb) /\ tlb[k].pid = corre /\ tlb[k].pagina = pagina
    BY <2>2 DEF Entradas
  <2>4. marco = tlb[k].marco /\ \/ tlb' = tlb
                                \/ tlb' = Append(RemoveAt(tlb, k), tlb[k])
    BY <1>2 DEF SolicitarMarco, ConsultarTLB
  <2> HIDE DEF k
  <2>5. marco = tabla[corre][pagina + 1]
    BY <1>0, <2>3, <2>4 DEF EntradaBien
  <2>6. CASE tlb' = Append(RemoveAt(tlb, k), tlb[k])
    <3> DEFINE r == RemoveAt(tlb, k)
    <3>1. /\ r \in Seq(RegistrosTLB) /\ Len(r) = Len(tlb) - 1
          /\ \A i \in 1..(Len(tlb) - 1) :
               r[i] = IF i < k THEN tlb[i] ELSE tlb[i + 1]
      BY <1>1, <2>3, RemoveAtHechos
    <3>2. tlb[k] \in RegistrosTLB /\ tlb' = Append(r, tlb[k])
      BY <1>0, <2>3, <2>6, UnaEntrada
    <3> HIDE DEF r
    <3>3. \A i \in 1..Len(r) : i \in 1..Len(tlb) /\ i + 1 \in 1..Len(tlb)
      BY <1>1, <3>1
    <3>4. \A i \in 1..Len(r) : EntradaBien(r[i])
      BY <1>0, <3>1, <3>3
    <3>5. \A i \in 1..Len(tlb') : \/ tlb'[i] = tlb[k]
                                  \/ i \in 1..Len(r) /\ tlb'[i] = r[i]
      BY <3>1, <3>2, AppendElementos
    <3> QED
      BY <1>0, <2>3, <2>5, <3>4, <3>5
  <2> QED
    BY <1>0, <2>4, <2>5, <2>6
<1>3. CASE Entradas(corre, pagina) = {}
  <2> DEFINE e == [pid |-> corre, pagina |-> pagina, marco |-> marco]
  <2>1. marco = tabla[corre][pagina + 1]
    BY <1>3 DEF SolicitarMarco, ObtenerMarcoPagina
  <2>2. e \in RegistrosTLB /\ EntradaBien(e)
    BY <1>0, <2>1 DEF RegistrosTLB, EntradaBien
  <2>3. CASE tlb' = tlb
    BY <1>0, <2>1, <2>3
  <2>4. CASE config.cantidad_entradas_tlb > 0 /\ tlb' # tlb
    <3> DEFINE s == IF Len(tlb) =
                    config.cantidad_entradas_tlb THEN Tail(tlb) ELSE tlb
    <3>1. tlb' = Append(s, e)
      BY <1>3, <2>4 DEF SolicitarMarco, AgregarTLB
    <3>2. s \in Seq(RegistrosTLB) /\ \A i \in 1..Len(s) : EntradaBien(s[i])
      <4>1. CASE Len(tlb) = config.cantidad_entradas_tlb
        <5>1. /\ Tail(tlb) \in Seq(RegistrosTLB)
              /\ Len(Tail(tlb)) = Len(tlb) - 1
              /\ \A i \in 1..(Len(tlb) - 1) : Tail(tlb)[i] = tlb[i + 1]
          BY <1>1, <2>4, <4>1, EmptySeq, HeadTailProperties
        <5>2. \A i \in 1..(Len(tlb) - 1) : i + 1 \in 1..Len(tlb)
          BY <1>1
        <5> QED
          BY <1>0, <4>1, <5>1, <5>2
      <4>2. CASE Len(tlb) # config.cantidad_entradas_tlb
        BY <1>0, <1>1, <4>2
      <4> QED
        BY <4>1, <4>2
    <3> HIDE DEF s, e
    <3>3. \A i \in 1..Len(tlb') : \/ tlb'[i] = e
                                  \/ i \in 1..Len(s) /\ tlb'[i] = s[i]
      BY <2>2, <3>1, <3>2, AppendElementos
    <3> QED
      BY <2>1, <2>2, <3>2, <3>3
  <2> QED
    BY <1>3, <2>3, <2>4 DEF SolicitarMarco
<1> QED
  BY <1>2, <1>3

(* A turn of listaDireccionesFisicas. *)
LEMMA TraduceVigente ==
  ASSUME TipoInv, VigenteInv, Traduce PROVE VigenteInv'
<1>0. PagTypeOK /\ TlbOK /\ CpuOK
  BY DEF TipoInv
<1> DEFINE a == acceso
           tam == TamFragmento(a.dl, a.resta)
<1>1. /\ EnMemoria(a) /\ a.resta > 0
      /\ UNCHANGED <<pag_vars, config, corre, hechas, acabado, io_vars>>
  BY DEF Traduce, Traduciendo, EnMemoria
<1>2. corre \in PID /\ a \in Accesos /\ AccesoBien(a, Tamanio(corre))
  BY <1>0, <1>1, EnAcceso DEF EnMemoria
<1>3. a.dl \in Nat /\ a.resta \in Nat \ {0} /\ a.dfs \in Seq(Fragmento)
  BY <1>1, <1>2 DEF Accesos
<1>t. PICK marco \in Marcos : Turno(marco)
  BY TraduceMarco
<1>4. /\ SolicitarMarco(corre, Pagina(a.dl), marco)
      /\ acceso' = [a EXCEPT !.dl = @ + tam, !.resta = @ - tam,
           !.dfs = Append(@, [dl |-> a.dl, tam |-> tam,
                     df |-> marco * TamPagina + Desplazamiento(a.dl)])]
  BY <1>t DEF Turno
<1> DEFINE f == [dl |-> a.dl, df |-> marco * TamPagina + Desplazamiento(a.dl),
                 tam |-> tam]
<1>5. Pagina(a.dl) \in Nat /\ Pagina(a.dl) < Len(tabla[corre])
  BY TraduceMarco
<1>6. /\ marco = tabla[corre][Pagina(a.dl) + 1]
      /\ \A k \in 1..Len(tlb') : EntradaBien(tlb'[k])
  BY <1>2, <1>4, <1>5, SolicitarVigente
<1>7. f \in Fragmento /\ Vale(corre, f)
  <2>1. /\ tam \in Nat \ {0} /\ Desplazamiento(a.dl) + tam <= TamPagina
        /\ marco * TamPagina + Desplazamiento(a.dl) \in Direcciones
    BY <1>3, FragmentoDe
  <2> HIDE DEF tam
  <2> QED
    BY <1>3, <1>5, <1>6, <2>1 DEF Vale, Fragmento
<1>8. acceso'.dfs = Append(a.dfs, f) /\ acceso'.op = a.op
  BY <1>2, <1>4 DEF Accesos
<1> HIDE DEF f
<1>9. ValeTodo(corre', acceso'.dfs)
  <2>1. \A k \in 1..Len(a.dfs) : Vale(corre, a.dfs[k])
    BY <1>1 DEF VigenteInv, ValeTodo
  <2>2. \A k \in 1..Len(Append(a.dfs, f)) :
           \/ Append(a.dfs, f)[k] = f
           \/ k \in 1..Len(a.dfs) /\ Append(a.dfs, f)[k] = a.dfs[k]
    BY <1>3, <1>7, AppendElementos
  <2> QED
    BY <1>1, <1>7, <1>8, <2>1, <2>2 DEF ValeTodo
<1>10. acceso'.op # "RESIZE"
  BY <1>1, <1>8 DEF EnMemoria, Lectoras, Escritoras
<1>11. \A k \in 1..Len(cola_io') : ValeTodo(cola_io'[k].pid, cola_io'[k].dfs)
  BY <1>1 DEF VigenteInv, io_vars
<1> QED
  BY <1>1, <1>6, <1>9, <1>10, <1>11, VigenteQuieta DEF pag_vars

(* The rest of the addresses. *)
LEMMA ValeTail ==
  ASSUME NEW dfs \in Seq(Fragmento), dfs # <<>>, NEW p, ValeTodo(p, dfs)
  PROVE  ValeTodo(p, Tail(dfs))
<1>1. /\ Len(Tail(dfs)) = Len(dfs) - 1 /\ Len(dfs) \in Nat
      /\ \A k \in 1..Len(Tail(dfs)) : Tail(dfs)[k] = dfs[k + 1]
  BY HeadTailProperties, LenProperties
<1>2. \A k \in 1..Len(Tail(dfs)) : k + 1 \in 1..Len(dfs)
  BY <1>1
<1> QED
  BY <1>1, <1>2 DEF ValeTodo

(* A turn of leerMemoria or of escribirMemoria, and the ends of both. *)
LEMMA UsaVigente ==
  ASSUME TipoInv, VigenteInv, Lee \/ TerminaLectura \/ Escribe
  PROVE  VigenteInv'
<1>1. /\ acceso.op \in Lectoras \union Escritoras \union {"IO"}
      /\ UNCHANGED <<vida, tabla, mmu_vars, corre, io_vars>>
  BY DEF Lee, TerminaLectura, Escribe, Traducida, pag_vars, EscribirEnMemoria
<1>2. acceso \in Accesos /\ AccesoBien(acceso, Tamanio(corre))
  BY <1>1, EnAcceso DEF TipoInv
<1>3. acceso.dfs \in Seq(Fragmento) /\ ValeTodo(corre, acceso.dfs)
  BY <1>1, <1>2 DEF Accesos, VigenteInv, EnMemoria
<1>4. EnMemoria(acceso') => ValeTodo(corre', acceso'.dfs)
  <2>1. CASE acceso' = SinAcceso
    BY <2>1 DEF EnMemoria, SinAcceso, Lectoras, Escritoras
  <2>2. CASE acceso'.dfs = Tail(acceso.dfs) /\ acceso.dfs # <<>>
    BY <1>1, <1>3, <2>2, ValeTail
  <2>3. CASE acceso'.dfs = <<>>
    BY <2>3, EmptySeq DEF ValeTodo
  <2>4. CASE Lee
    <3>1. acceso'.dfs = Tail(acceso.dfs) /\ acceso.dfs # <<>>
      BY <1>2, <2>4 DEF Lee, Accesos
    <3> QED
      BY <3>1, <2>2
  <2>5. CASE TerminaLectura
    BY <2>1, <2>3, <2>5 DEF TerminaLectura, Acceso
  <2>6. CASE Escribe
    <3>1. /\ acceso.op \notin Lectoras /\ acceso.op \in Escritoras
          /\ acceso.resta = 0
      BY <2>6 DEF Escribe, Traducida, Lectoras, Escritoras
    <3>2. acceso.dl \in Nat /\ acceso.inicio \in Nat
      BY <1>2 DEF Accesos
    <3>3. acceso.dfs # <<>>
      BY <1>2, <3>1, <3>2 DEF AccesoBien, Cadena
    <3>4. acceso' = SinAcceso \/ acceso'.dfs = Tail(acceso.dfs)
      BY <1>2, <2>6 DEF Escribe, Accesos
    <3> QED
      BY <3>3, <3>4, <2>1, <2>2
  <2> QED
    BY <2>4, <2>5, <2>6
<1>5. acceso'.op # "RESIZE"
  <2>1. acceso'.op \in {acceso.op, "NINGUNA", "COPY_ESCRIBE"}
    <3>1. CASE Lee
      BY <1>2, <3>1 DEF Lee, Accesos
    <3>2. CASE Escribe
      BY <1>2, <3>2 DEF Escribe, Accesos, SinAcceso
    <3>3. CASE TerminaLectura
      BY <3>3 DEF TerminaLectura, SinAcceso, Acceso
    <3> QED
      BY <3>1, <3>2, <3>3
  <2> QED
    BY <1>1, <2>1 DEF Lectoras, Escritoras
<1>6. \A k \in 1..Len(cola_io') : ValeTodo(cola_io'[k].pid, cola_io'[k].dfs)
  BY <1>1 DEF VigenteInv, io_vars
<1> QED
  BY <1>1, <1>4, <1>5, <1>6, VigenteQuieta DEF mmu_vars

(* The fragments go from the CPU to the device. *)
LEMMA BloqueaVigente ==
  ASSUME TipoInv, VigenteInv, Bloquea
  PROVE  VigenteInv'
<1> DEFINE x == [pid |-> corre, dfs |-> acceso.dfs]
<1>1. /\ EnMemoria(acceso) /\ cola_io' = Append(cola_io, x)
      /\ acceso' = SinAcceso
      /\ UNCHANGED <<vida, tabla, config, tlb>>
  BY DEF Bloquea, Traducida, EnMemoria, pag_vars, mmu_vars
<1>2. corre \in PID /\ acceso \in Accesos
  BY <1>1, EnAcceso DEF TipoInv, EnMemoria
<1>3. /\ x \in Pedidos /\ cola_io \in Seq(Pedidos)
      /\ ValeTodo(x.pid, x.dfs)
  BY <1>1, <1>2 DEF Pedidos, Accesos, TipoInv, ColaOK, VigenteInv
<1> HIDE DEF x
<1>4. \A k \in 1..Len(cola_io') : \/ cola_io'[k] = x
                                  \/ k \in 1..Len(cola_io) /\ cola_io'[k] = cola_io[k]
  BY <1>1, <1>3, AppendElementos
<1>5. \A k \in 1..Len(cola_io') : ValeTodo(cola_io'[k].pid, cola_io'[k].dfs)
  BY <1>3, <1>4 DEF VigenteInv
<1>6. ~EnMemoria(acceso') /\ acceso'.op # "RESIZE"
  BY <1>1 DEF SinAcceso, EnMemoria, Lectoras, Escritoras
<1> QED
  BY <1>1, <1>5, <1>6, VigenteQuieta

(* Steps of the CPU between two instructions, and the count of RESIZE. *)
LEMMA CpuVigente ==
  ASSUME TipoInv, VigenteInv,
         \/ \E p \in PID : Despacha(p)
         \/ Deja \/ RespuestaResize \/ MOV_IN \/ MOV_OUT \/ COPY_STRING \/ IO
         \/ \E tamanio \in Nat : RESIZE(tamanio)
  PROVE  VigenteInv'
<1>1. UNCHANGED <<vida, tabla, mmu_vars, io_vars>>
  BY DEF Despacha, Deja, RespuestaResize, MOV_IN, MOV_OUT, COPY_STRING, IO,
         Empieza,
         RESIZE, pag_vars
<1>2. \A k \in 1..Len(cola_io') : ValeTodo(cola_io'[k].pid, cola_io'[k].dfs)
  BY <1>1 DEF VigenteInv, io_vars
<1>3. \/ acceso' = SinAcceso
      \/ acceso'.dfs = <<>> /\ acceso'.op \in {"MOV_IN", "MOV_OUT", "COPY_LEE", "IO"}
      \/ /\ acceso'.op = "RESIZE" /\ corre' = corre
         /\ config.achica \/ Len(tabla[corre]) <= acceso'.paginas
  <2>1. CASE \E p \in PID : Despacha(p)
    BY <2>1, SistemaAssumption DEF Despacha, TipoInv, CpuOK
  <2>2. CASE Deja \/ RespuestaResize
    BY <2>2 DEF Deja, RespuestaResize
  <2>3. CASE MOV_IN \/ MOV_OUT \/ COPY_STRING \/ IO
    BY <2>3 DEF MOV_IN, MOV_OUT, COPY_STRING, IO, Empieza, Acceso
  <2>4. ASSUME NEW tamanio \in Nat, RESIZE(tamanio)
        PROVE  \/ acceso' = SinAcceso
               \/ /\ acceso'.op = "RESIZE" /\ corre' = corre
                  /\ config.achica \/ Len(tabla[corre]) <= acceso'.paginas
    <3>1. \/ acceso' = SinAcceso
          \/ acceso' = [op |-> "RESIZE", paginas |-> PaginasPara(tamanio)] /\ corre' = corre
      BY <2>4 DEF RESIZE, SinMemoria
    <3>2. config.achica \/ PaginasPara(tamanio) >= Len(tabla[corre])
      BY <2>4 DEF RESIZE
    <3>3. PaginasPara(tamanio) >= Len(tabla[corre])
             => Len(tabla[corre]) <= PaginasPara(tamanio)
      OBVIOUS
    <3> QED
      BY <3>1, <3>2, <3>3
  <2> QED
    BY <2>1, <2>2, <2>3, <2>4
<1>4. EnMemoria(acceso') => ValeTodo(corre', acceso'.dfs)
  BY <1>3, EmptySeq DEF ValeTodo, EnMemoria, SinAcceso, Lectoras, Escritoras
<1>5. \/ acceso'.op # "RESIZE"
      \/ config.achica \/ Len(tabla[corre']) <= acceso'.paginas
  BY <1>3 DEF SinAcceso
<1> QED
  BY <1>1, <1>2, <1>4, <1>5, VigenteQuieta DEF mmu_vars

(* Steps of the device. *)
LEMMA DispVigente ==
  ASSUME TipoInv, VigenteInv,
         DispLee \/ DispTeclado \/ DispEscribe \/ DispMarca \/ UNCHANGED mem_vars
  PROVE  VigenteInv'
<1>1. UNCHANGED <<vida, tabla, mmu_vars, cpu_vars>>
  BY DEF DispLee, DispTeclado, DispEscribe, CopiarEnMemoria, DispMarca,
         MarcarConByte,
         mem_vars, pag_vars
<1>2. cola_io' = cola_io \/ (cola_io # <<>> /\ cola_io' = Siguiente)
  <2>1. CASE DispMarca
    BY <2>1 DEF DispMarca, TipoInv, TecladoOK
  <2>2. CASE DispLee
    BY <2>2 DEF DispLee
  <2>3. CASE DispTeclado
    BY <2>3 DEF DispTeclado
  <2>4. CASE DispEscribe
    BY <2>4 DEF DispEscribe
  <2>5. CASE UNCHANGED mem_vars
    BY <2>5 DEF mem_vars, io_vars
  <2> QED
    BY <2>1, <2>2, <2>3, <2>4, <2>5
<1>3. \A k \in 1..Len(cola_io') : ValeTodo(cola_io'[k].pid, cola_io'[k].dfs)
  BY <1>2, ColaVigente
<1>4. EnMemoria(acceso') => ValeTodo(corre', acceso'.dfs)
  BY <1>1 DEF VigenteInv, cpu_vars
<1> QED
  BY <1>1, <1>3, <1>4, VigenteQuieta DEF mmu_vars, cpu_vars

(* Every step. *)
LEMMA VigentePaso ==
  ASSUME SinTLBVieja, TipoInv, VigenteInv, [MemNext]_mem_vars
  PROVE  VigenteInv'
<1>1. ASSUME NEW p \in PID, Crear(p) \/ Fin(p) PROVE VigenteInv'
  BY <1>1, VidaVigente
<1>2. CASE \/ \E p \in PID : Despacha(p)
           \/ Deja \/ RespuestaResize \/ MOV_IN \/ MOV_OUT \/ COPY_STRING \/ IO
  BY <1>2, CpuVigente
<1>3. ASSUME NEW tamanio \in 0..((CantMarcos + 1) * TamPagina), RESIZE(tamanio)
      PROVE  VigenteInv'
  BY <1>3, CpuVigente, PaginacionAssumption
<1>4. CASE AjustaPagina
  BY <1>4, AjustaVigente
<1>5. CASE Traduce \/ Lee \/ TerminaLectura \/ Escribe \/ Bloquea
  BY <1>5, TraduceVigente, UsaVigente, BloqueaVigente
<1>6. CASE DispLee \/ DispTeclado \/ DispEscribe \/ DispMarca \/ UNCHANGED mem_vars
  BY <1>6, DispVigente
<1> QED
  BY <1>1, <1>2, <1>3, <1>4, <1>5, <1>6 DEF MemNext

(* A physical address still to be used is the one the page table gives, in  *)
(* the CPU, in the queue of the device and in the TLB: RESIZE and the end   *)
(* of a process do not touch the pages of an access in course, and without  *)
(* programs that give memory back no entry of the TLB grows old (mmu.c).    *)
THEOREM TraduccionVigenteSiempre ==
  ASSUME SinTLBVieja PROVE MemSpec => []TraduccionVigente
<1>1. MemInit => TipoInv /\ VigenteInv
  BY TipoInicial, VigenteInicial
<1>2. TipoInv /\ VigenteInv /\ [MemNext]_mem_vars => TipoInv' /\ VigenteInv'
  BY TipoPaso, VigentePaso
<1>3. TipoInv /\ VigenteInv => TraduccionVigente
  <2> SUFFICES ASSUME TipoInv, VigenteInv PROVE TraduccionVigente
    OBVIOUS
  <2>1. "dfs" \in DOMAIN acceso => EnMemoria(acceso)
    BY DEF TipoInv, CpuOK, SinAcceso, Accesos, EnMemoria
  <2>2. ASSUME NEW k \in 1..Len(tlb), tlb[k].pagina < Len(tabla[tlb[k].pid])
        PROVE  tlb[k].marco = tabla[tlb[k].pid][tlb[k].pagina + 1]
    <3>1. tlb[k].pid \in PID /\ tlb[k].pagina \in Nat
      BY UnaEntrada DEF TipoInv
    <3>2. vida[tlb[k].pid] # "borrado"
      <4>1. tabla[tlb[k].pid] # <<>>
        BY <2>2, <3>1, EmptySeq
      <4> QED
        BY <3>1, <4>1 DEF VigenteInv
    <3> QED
      BY <3>2 DEF VigenteInv, EntradaBien
  <2>3. \A i \in 1..Len(cola_io) : \A k \in 1..Len(cola_io[i].dfs) :
           Vale(cola_io[i].pid, cola_io[i].dfs[k])
    BY DEF VigenteInv, ValeTodo
  <2> QED
    BY <2>1, <2>2, <2>3 DEF TraduccionVigente, VigenteInv, ValeTodo
<1> QED
  BY <1>1, <1>2, <1>3, PTL DEF MemSpec

-----------------------------------------------------------------------------
(***************************************************************************)
(* The memory of a process as its program sees it, byte by byte.           *)
(***************************************************************************)
Fisica(p, d) == tabla[p][Pagina(d) + 1] * TamPagina + Desplazamiento(d)

(* Where a byte of a process is. *)
LEMMA DondeEsta ==
  ASSUME PagTypeOK, NEW p \in PID, NEW d \in Nat, d < Tamanio(p)
  PROVE  /\ Pagina(d) + 1 \in Paginas(p) /\ tabla[p][Pagina(d) + 1] \in Marcos
         /\ Fisica(p, d) \in Direcciones
<1>1. tabla[p] \in Seq(Marcos) /\ Len(tabla[p]) \in Nat
  BY LenProperties DEF PagTypeOK
<1>2. Pagina(d) \in Nat /\ Pagina(d) < Len(tabla[p])
  BY <1>1, DivMod, PaginaMenor DEF Tamanio
<1>3. Pagina(d) + 1 \in 1..Len(tabla[p])
  BY <1>1, <1>2
<1>4. tabla[p][Pagina(d) + 1] \in Marcos
  BY <1>1, <1>3, ElementOfSeq
<1> DEFINE m == tabla[p][Pagina(d) + 1]
           r == Desplazamiento(d)
<1>5. /\ r \in 0..(TamPagina - 1) /\ TamPagina \in Nat \ {0}
      /\ CantMarcos \in Nat
  BY DivMod, PaginacionAssumption
<1>6. m \in Nat /\ m + 1 <= CantMarcos
  BY <1>4, <1>5 DEF Marcos
<1> HIDE DEF m, r
<1>7. (m + 1) * TamPagina <= CantMarcos * TamPagina
      /\ (m + 1) * TamPagina = m * TamPagina + TamPagina
      /\ m * TamPagina \in Nat /\ CantMarcos * TamPagina \in Nat
  BY <1>5, <1>6
<1> DEFINE a == m * TamPagina
           b == CantMarcos * TamPagina
<1>8. a \in Nat /\ b \in Nat /\ a + TamPagina <= b
  BY <1>5, <1>7
<1> HIDE DEF a, b
<1>9. a + r \in 0..(b - 1)
  BY <1>5, <1>8
<1> QED
  BY <1>3, <1>4, <1>9 DEF Fisica, a, b, m, r, Paginas, Direcciones

(* The bytes of a fragment follow one another in memoria too. *)
LEMMA FragmentoPlano ==
  ASSUME PagTypeOK, NEW p \in PID, NEW f \in Fragmento, Vale(p, f),
         NEW i \in 0..(f.tam - 1)
  PROVE  /\ Pagina(f.dl + i) = Pagina(f.dl)
         /\ Desplazamiento(f.dl + i) = Desplazamiento(f.dl) + i
         /\ Fisica(p, f.dl + i) = f.df + i
<1> DEFINE q == Pagina(f.dl)
           r == Desplazamiento(f.dl)
           m == tabla[p][q + 1]
<1>1. /\ f.dl \in Nat /\ f.tam \in Nat \ {0} /\ f.df \in Nat
      /\ TamPagina \in Nat \ {0}
  BY PaginacionAssumption DEF Fragmento, Direcciones
<1>2. /\ q \in Nat /\ r \in 0..(TamPagina - 1) /\ f.dl = q * TamPagina + r
  BY <1>1, DivMod
<1>3. /\ f.df = m * TamPagina + r /\ r + f.tam <= TamPagina
  BY DEF Vale
<1> DEFINE t == q * TamPagina
<1>4. t \in Nat /\ m \in Nat
  <2>1. t \in Nat
    BY <1>1, <1>2
  <2>2. tabla[p] \in Seq(Marcos) /\ Len(tabla[p]) \in Nat
    BY LenProperties DEF PagTypeOK
  <2>3. q + 1 \in 1..Len(tabla[p])
    BY <1>2, <2>2 DEF Vale
  <2>4. m \in Marcos
    BY <2>2, <2>3, ElementOfSeq
  <2> QED
    BY <2>1, <2>4 DEF Marcos
<1> HIDE DEF q, r, m
<1>5. r + i \in 0..(TamPagina - 1) /\ f.dl + i = q * TamPagina + (r + i)
  <2>1. f.dl = t + r
    BY <1>2
  <2> HIDE DEF t
  <2>2. r + i \in 0..(TamPagina - 1) /\ f.dl + i = t + (r + i)
    BY <1>1, <1>2, <1>3, <1>4, <2>1
  <2> QED
    BY <2>2 DEF t
<1>6. Pagina(f.dl + i) = q /\ Desplazamiento(f.dl + i) = r + i
  BY <1>2, <1>5, DivModUnico
<1>7. Fisica(p, f.dl + i) = m * TamPagina + (r + i)
  BY <1>6 DEF Fisica, m
<1>8. m * TamPagina + (r + i) = (m * TamPagina + r) + i
  <2> DEFINE u == m * TamPagina
  <2>1. f.df = u + r /\ u \in Nat
    BY <1>1, <1>3, <1>4
  <2> HIDE DEF u
  <2>2. u + (r + i) = (u + r) + i
    BY <1>1, <1>2, <2>1
  <2> QED
    BY <2>2 DEF u
<1> QED
  BY <1>3, <1>6, <1>7, <1>8 DEF q, r

(* A write of a fragment changes its bytes in its process, and no other. *)
LEMMA EscrituraPropia ==
  ASSUME PagTypeOK, TablasDisjuntas, NEW q \in PID, NEW f \in Fragmento,
         Vale(q, f),
         NEW s \in Seq(Bytes), Len(s) = f.tam,
         NEW p \in PID, NEW d \in Nat, d < Tamanio(p)
  PROVE  MemoriaCon(f.df, s)[Fisica(p, d)] =
            IF p = q /\ d \in f.dl..(f.dl + f.tam - 1)
            THEN s[d - f.dl + 1] ELSE fisica[Fisica(p, d)]
<1> DEFINE a == Fisica(p, d)
<1>1. a \in Direcciones /\ a \in Nat
  BY DondeEsta DEF Direcciones
<1>2. /\ f.dl \in Nat /\ f.tam \in Nat \ {0} /\ f.df \in Nat
      /\ TamPagina \in Nat \ {0}
  BY PaginacionAssumption DEF Fragmento, Direcciones
<1>3. MemoriaCon(f.df, s)[a] = IF a \in f.df..(f.df + f.tam - 1)
                               THEN s[a - f.df + 1] ELSE fisica[a]
  BY <1>1 DEF MemoriaCon
<1>4. ASSUME p = q, d \in f.dl..(f.dl + f.tam - 1)
      PROVE  a \in f.df..(f.df + f.tam - 1) /\ a - f.df + 1 = d - f.dl + 1
  <2> DEFINE i == d - f.dl
  <2>1. i \in 0..(f.tam - 1) /\ d = f.dl + i
    BY <1>2, <1>4
  <2> HIDE DEF i
  <2>2. a = f.df + i
    BY <1>4, <2>1, FragmentoPlano
  <2> QED
    <3> HIDE DEF a
    <3>1. /\ i \in Nat /\ i <= f.tam - 1 /\ f.dl \in Nat /\ f.df \in Nat
          /\ f.tam \in Nat
      BY <1>2, <2>1
    <3>2. a - f.df + 1 = i + 1 /\ d - f.dl + 1 = i + 1
      <4> DEFINE u == f.df
                 v == f.dl
      <4>1. u \in Nat /\ v \in Nat /\ a = u + i /\ d = v + i
        BY <2>1, <2>2, <3>1
      <4> HIDE DEF u, v
      <4>2. a - u = i /\ d - v = i
        BY <3>1, <4>1
      <4> QED
        BY <4>2 DEF u, v
    <3>3. a \in f.df..(f.df + f.tam - 1)
      BY <2>2, <3>1
    <3> QED
      BY <3>2, <3>3
<1>5. ASSUME a \in f.df..(f.df + f.tam - 1)
      PROVE  p = q /\ d \in f.dl..(f.dl + f.tam - 1)
  <2> DEFINE i == a - f.df
  <2>1. i \in 0..(f.tam - 1) /\ a = f.df + i
    <3> DEFINE u == f.df
               v == f.tam
    <3>1. a \in Nat /\ u \in Nat /\ v \in Nat /\ a \in u..(u + v - 1)
      BY <1>1, <1>2, <1>5
    <3> HIDE DEF a, u, v
    <3>2. a - u \in 0..(v - 1) /\ a = u + (a - u)
      BY <3>1
    <3> QED
      BY <3>2 DEF u, v
  <2> HIDE DEF i
  <2>2. /\ a = Fisica(q, f.dl + i) /\ Pagina(f.dl + i) = Pagina(f.dl)
        /\ Pagina(f.dl) < Len(tabla[q])
    BY <2>1, FragmentoPlano DEF Vale
  <2> DEFINE e == f.dl + i
             m == tabla[p][Pagina(d) + 1]
             n == tabla[q][Pagina(e) + 1]
  <2>3. e \in Nat /\ e \in f.dl..(f.dl + f.tam - 1)
    BY <1>2, <2>1
  <2>4. e < Tamanio(q)
    <3> DEFINE l == Len(tabla[q])
               g == Pagina(e)
               r == Desplazamiento(e)
    <3>1. l \in Nat
      BY LenProperties DEF PagTypeOK
    <3>2. /\ g \in Nat /\ r \in 0..(TamPagina - 1) /\ e = g * TamPagina + r
          /\ g < l
      BY <2>2, <2>3, DivMod
    <3> HIDE DEF l, g, r, e
    <3>3. g + 1 <= l /\ (g + 1) * TamPagina = g * TamPagina + TamPagina
      BY <1>2, <3>1, <3>2
    <3>4. (g + 1) * TamPagina <= l * TamPagina
      BY <1>2, <3>1, <3>2, <3>3
    <3> DEFINE gt == g * TamPagina
               lt == l * TamPagina
    <3>5. gt \in Nat /\ lt \in Nat /\ gt + TamPagina <= lt /\ e = gt + r
      BY <1>2, <3>1, <3>2, <3>3, <3>4
    <3> HIDE DEF gt, lt
    <3>6. e < lt
      BY <1>2, <3>2, <3>5
    <3> QED
      BY <3>6 DEF lt, l, e, Tamanio
  <2>5. /\ Pagina(d) + 1 \in Paginas(p) /\ Pagina(e) + 1 \in Paginas(q)
        /\ m \in Nat /\ n \in Nat
    BY <2>3, <2>4, DondeEsta DEF Marcos
  <2>6. /\ Pagina(d) \in Nat /\ Desplazamiento(d) \in 0..(TamPagina - 1)
        /\ Pagina(e) \in Nat /\ Desplazamiento(e) \in 0..(TamPagina - 1)
        /\ d = Pagina(d) * TamPagina + Desplazamiento(d)
        /\ e = Pagina(e) * TamPagina + Desplazamiento(e)
    BY <2>3, DivMod
  <2>7. /\ a = m * TamPagina + Desplazamiento(d)
        /\ a = n * TamPagina + Desplazamiento(e)
    BY <2>2 DEF Fisica
  <2> HIDE DEF a, m, n, e
  <2>8. m = n /\ Desplazamiento(d) = Desplazamiento(e)
    <3>1. Pagina(a) = m /\ Desplazamiento(a) = Desplazamiento(d)
      BY <2>5, <2>6, <2>7, DivModUnico
    <3>2. Pagina(a) = n /\ Desplazamiento(a) = Desplazamiento(e)
      BY <2>5, <2>6, <2>7, DivModUnico
    <3> QED
      BY <3>1, <3>2
  <2>9. p = q /\ Pagina(d) + 1 = Pagina(e) + 1
    BY <2>5, <2>8 DEF TablasDisjuntas, m, n
  <2>10. Pagina(d) = Pagina(e)
    BY <2>6, <2>9
  <2>11. d = e
    BY <2>6, <2>8, <2>10
  <2> QED
    BY <2>3, <2>9, <2>11
<1> HIDE DEF a
<1>6. MemoriaCon(f.df, s)[a] = IF p = q /\ d \in f.dl..(f.dl + f.tam - 1)
                               THEN s[d - f.dl + 1] ELSE fisica[a]
  BY <1>3, <1>4, <1>5
<1> QED
  BY <1>6 DEF a

(* The bytes of a process are those of its pages. *)
LEMMA EspacioEs ==
  ASSUME PagTypeOK, NEW p \in PID
  PROVE  /\ Tamanio(p) \in Nat /\ EspacioDe(p) \in Seq(Bytes)
         /\ Len(EspacioDe(p)) = Tamanio(p)
         /\ EspacioDe(p) = [k \in 1..Tamanio(p) |-> fisica[Fisica(p, k - 1)]]
         /\ \A d \in Nat : d < Tamanio(p) =>
              EspacioDe(p)[d + 1] = fisica[Fisica(p, d)]
<1>1. Tamanio(p) \in Nat
  BY LenProperties, PaginacionAssumption DEF PagTypeOK, Tamanio
<1>2. EspacioDe(p) = [k \in 1..Tamanio(p) |-> fisica[Fisica(p, k - 1)]]
  BY DEF EspacioDe, Fisica
<1>3. ASSUME NEW k \in 1..Tamanio(p) PROVE fisica[Fisica(p, k - 1)] \in Bytes
  <2>1. k - 1 \in Nat /\ k - 1 < Tamanio(p)
    BY <1>1
  <2>2. Fisica(p, k - 1) \in Direcciones
    BY <2>1, DondeEsta
  <2> QED
    BY <2>2 DEF PagTypeOK
<1>4. EspacioDe(p) \in [1..Tamanio(p) -> Bytes]
  BY <1>2, <1>3
<1>5. EspacioDe(p) \in Seq(Bytes) /\ Len(EspacioDe(p)) = Tamanio(p)
  BY <1>1, <1>4
<1>6. ASSUME NEW d \in Nat, d < Tamanio(p)
      PROVE  EspacioDe(p)[d + 1] = fisica[Fisica(p, d)]
  <2>1. d + 1 \in 1..Tamanio(p) /\ (d + 1) - 1 = d
    BY <1>1, <1>6
  <2> QED
    BY <1>2, <2>1
<1> QED
  BY <1>1, <1>2, <1>5, <1>6

-----------------------------------------------------------------------------
(* What is read *)

LEMMA EspacioIgual ==
  ASSUME fisica' = fisica, NEW p \in PID, tabla'[p] = tabla[p]
  PROVE  EspacioDe(p)' = EspacioDe(p)
BY DEF EspacioDe, Tamanio

(* Nothing is read, or nothing more of a memory that stays. *)
LEMMA LecturaIgual ==
  ASSUME LecturaPropia,
         \/ acceso'.op \notin Lectoras
         \/ acceso'.dato = <<>>
         \/ /\ acceso.op \in Lectoras /\ corre' = corre
            /\ acceso'.dato = acceso.dato /\ acceso'.inicio = acceso.inicio
            /\ \A p \in PID : p = corre => EspacioDe(p)' = EspacioDe(p)
            /\ corre \in PID
  PROVE  LecturaPropia'
<1>1. CASE acceso'.op \notin Lectoras \/ acceso'.dato = <<>>
  BY <1>1, EmptySeq DEF LecturaPropia, Lectoras
<1>2. CASE /\ acceso.op \in Lectoras /\ corre' = corre
           /\ acceso'.dato = acceso.dato /\ acceso'.inicio = acceso.inicio
           /\ \A p \in PID : p = corre => EspacioDe(p)' = EspacioDe(p)
           /\ corre \in PID
  <2>1. PICK p \in PID : p = corre
    BY <1>2
  <2>2. /\ EspacioDe(p)' = EspacioDe(p) /\ EspacioDe(corre) = EspacioDe(p)
        /\ EspacioDe(corre)' = EspacioDe(p)'
    BY <1>2, <2>1
  <2> QED
    BY <1>2, <2>2 DEF LecturaPropia
<1> QED
  BY <1>1, <1>2

(* A turn of leerMemoria brings the bytes of its fragment. *)
LEMMA LecturaLee ==
  ASSUME TipoInv, VigenteInv, LecturaPropia, Lee PROVE LecturaPropia'
<1>0. PagTypeOK /\ CpuOK
  BY DEF TipoInv
<1> DEFINE a == acceso
           f == Head(a.dfs)
           l == LeerDeMemoria(f.df, f.tam)
           leido == EnviarDatoLeido(l)
           n == Len(a.dato)
           e == EspacioDe(corre)
<1>1. /\ a.op \in Lectoras /\ a.dfs # <<>>
      /\ acceso' = [a EXCEPT !.dfs = Tail(a.dfs), !.dato = a.dato \o leido]
      /\ UNCHANGED <<pag_vars, corre>>
  BY DEF Lee
<1>2. corre \in PID /\ a \in Accesos /\ AccesoBien(a, Tamanio(corre))
  BY <1>0, <1>1, EnAcceso
<1>3. /\ a.dfs \in Seq(Fragmento) /\ a.dato \in Seq(Bytes) /\ n \in Nat
      /\ a.inicio \in Nat /\ a.dl \in Nat /\ a.resta \in Nat
      /\ acceso'.dato = a.dato \o leido /\ acceso'.inicio = a.inicio
  BY <1>1, <1>2, LenProperties DEF Accesos
<1>4. /\ f \in Fragmento /\ f = a.dfs[1] /\ 1 \in 1..Len(a.dfs)
      /\ f.dl = a.inicio + n /\ f.dl + f.tam <= a.dl
  <2>1. Cadena(a.dfs, a.inicio + n, a.dl)
    BY <1>1, <1>2 DEF AccesoBien
  <2>2. 1 \in 1..Len(a.dfs) /\ f = a.dfs[1]
    BY <1>1, <1>3, EmptySeq, LenProperties
  <2> QED
    BY <1>1, <1>3, <2>1, <2>2, CadenaTail
<1>5. Entera(f) /\ Vale(corre, f)
  <2>1. ValeTodo(corre, a.dfs) /\ Enteras(a.dfs)
    BY <1>1, <1>2 DEF VigenteInv, EnMemoria, AccesoBien
  <2> QED
    BY <1>4, <2>1 DEF ValeTodo, Enteras
<1>6. leido \in Seq(Bytes) /\ Len(leido) = f.tam
  BY <1>0, <1>4, <1>5, LeidoTipo
<1>7. f.tam \in Nat \ {0} /\ f.dl \in Nat /\ f.df \in Nat
  BY <1>4 DEF Fragmento, Direcciones
<1>8. ASSUME NEW i \in 1..f.tam PROVE l[i] = e[a.inicio + n + i]
  <2>1. i - 1 \in 0..(f.tam - 1)
    BY <1>7
  <2>2. Fisica(corre, f.dl + (i - 1)) = f.df + (i - 1)
    BY <1>0, <1>2, <1>4, <1>5, <2>1, FragmentoPlano
  <2>3. f.dl + (i - 1) \in Nat /\ f.dl + (i - 1) < Tamanio(corre)
    <3>1. a.dl + a.resta <= Tamanio(corre) /\ Tamanio(corre) \in Nat
      BY <1>0, <1>2, EspacioEs DEF AccesoBien
    <3>2. \A x, y, z, u, v \in Nat :
             x + y <= z /\ z + u <= v /\ i - 1 \in 0..(y - 1) =>
                x + (i - 1) \in Nat /\ x + (i - 1) < v
      BY <1>7
    <3> HIDE DEF f, a, n
    <3> QED
      BY <1>3, <1>4, <1>7, <2>1, <3>1, <3>2
  <2>4. e[f.dl + (i - 1) + 1] = fisica[f.df + (i - 1)]
    BY <1>0, <1>2, <2>2, <2>3, EspacioEs
  <2>5. l[i] = fisica[f.df + i - 1]
    BY DEF LeerDeMemoria
  <2>6. f.df + i - 1 = f.df + (i - 1) /\ f.dl + (i - 1) + 1 = a.inicio + n + i
    <3>1. i \in Nat
      BY <1>7
    <3>2. \A x \in Nat : x + i - 1 = x + (i - 1)
      BY <3>1
    <3>3. \A x, y, z \in Nat : y = x + z => y + (i - 1) + 1 = x + z + i
      BY <3>1
    <3>4. a.inicio \in Nat /\ n \in Nat /\ f.dl = a.inicio + n /\ f.dl \in Nat
          /\ f.df \in Nat
      BY <1>3, <1>4, <1>7
    <3>5. f.df + i - 1 = f.df + (i - 1)
      BY <3>2, <3>4
    <3>6. f.dl + (i - 1) + 1 = a.inicio + n + i
      <4> HIDE DEF n, f, a
      <4> QED
        BY <3>3, <3>4
    <3> QED
      BY <3>5, <3>6
  <2> QED
    BY <2>4, <2>5, <2>6
<1>9. ASSUME NEW i \in 1..f.tam
      PROVE  leido[i] = IF \E j \in 1..i : l[j] = 0 THEN 0 ELSE l[i]
  <2>1. DOMAIN l = 1..f.tam
    BY DEF LeerDeMemoria
  <2> QED
    BY <2>1 DEF EnviarDatoLeido
<1>10. /\ Len(acceso'.dato) = n + f.tam
       /\ \A k \in 1..n : acceso'.dato[k] = a.dato[k]
       /\ \A i \in 1..f.tam : acceso'.dato[n + i] = leido[i]
  <2> HIDE DEF leido, f
  <2>1. /\ Len(a.dato \o leido) = n + f.tam
        /\ \A k \in 1..(n + f.tam) : (a.dato \o leido)[k] =
              IF k <= n THEN a.dato[k] ELSE leido[k - n]
    <3>1. /\ Len(a.dato \o leido) = Len(a.dato) + Len(leido)
          /\ \A k \in 1..(Len(a.dato) + Len(leido)) : (a.dato \o leido)[k] =
                IF k <= Len(a.dato) THEN a.dato[k] ELSE leido[k - Len(a.dato)]
      BY <1>3, <1>6, ConcatProperties
    <3> QED
      BY <1>6, <3>1
  <2>2. \A k \in 1..n : k \in 1..(n + f.tam) /\ k <= n
    BY <1>3, <1>7
  <2>3. \A i \in 1..f.tam :
             n + i \in 1..(n + f.tam) /\ ~(n + i <= n) /\ (n + i) - n = i
    BY <1>3, <1>7
  <2> DEFINE d == a.dato \o leido
  <2>4. acceso'.dato = d
    BY <1>3
  <2>5. /\ Len(d) = n + f.tam
        /\ \A k \in 1..n : d[k] = a.dato[k]
        /\ \A i \in 1..f.tam : d[n + i] = leido[i]
    BY <2>1, <2>2, <2>3
  <2> HIDE DEF d
  <2> QED
    BY <2>4, <2>5
<1>11. EspacioDe(corre)' = e
  <2>1. PICK p \in PID : p = corre
    BY <1>2
  <2>2. EspacioDe(p)' = EspacioDe(p)
    BY <1>1, EspacioIgual DEF pag_vars
  <2> QED
    BY <1>1, <2>1, <2>2
<1> DEFINE b == acceso'.dato
<1> HIDE DEF e, l, leido, f
<1>12. ASSUME NEW k \in 1..Len(b)
       PROVE  \/ b[k] = e[a.inicio + k]
              \/ /\ b[k] = 0
                 /\ \E j \in 1..(k - 1) : e[a.inicio + j] = 0
  <2>1. CASE k \in 1..n
    BY <1>1, <1>10, <2>1 DEF LecturaPropia, e
  <2>2. CASE k \notin 1..n
    <3> DEFINE i == k - n
    <3>1. i \in 1..f.tam /\ k = n + i
      <4>1. Len(b) = n + f.tam
        BY <1>10
      <4> HIDE DEF b, n
      <4> QED
        BY <1>3, <1>7, <2>2, <4>1
    <3> HIDE DEF i
    <3>2. b[k] = IF \E j \in 1..i : l[j] = 0 THEN 0 ELSE l[i]
      BY <1>9, <1>10, <3>1
    <3>3. l[i] = e[a.inicio + k]
      <4>1. a.inicio + n + i = a.inicio + k
        BY <1>3, <1>7, <3>1
      <4> QED
        BY <1>8, <3>1, <4>1
    <3>4. CASE \E j \in 1..(i - 1) : l[j] = 0
      <4>1. PICK j \in 1..(i - 1) : l[j] = 0
        BY <3>4
      <4>2. j \in 1..f.tam /\ j \in 1..i /\ n + j \in 1..(k - 1)
            /\ a.inicio + (n + j) = a.inicio + n + j
        <5> HIDE DEF n, a
        <5> QED
          BY <1>3, <1>7, <3>1
      <4>3. e[a.inicio + (n + j)] = 0
        BY <1>8, <4>1, <4>2
      <4> QED
        BY <3>2, <4>1, <4>2, <4>3
    <3>5. CASE ~\E j \in 1..(i - 1) : l[j] = 0
      <4>1. \A j \in 1..i : j = i \/ j \in 1..(i - 1)
        BY <1>7, <3>1
      <4>2. b[k] = l[i]
        BY <3>2, <3>5, <4>1
      <4> QED
        BY <3>3, <4>2
    <3> QED
      BY <3>4, <3>5
  <2> QED
    BY <2>1, <2>2
<1> QED
  BY <1>3, <1>11, <1>12 DEF LecturaPropia

(* The device writes in another memory. *)
LEMMA LecturaDispEscribe ==
  ASSUME TipoInv, VigenteInv, TablasDisjuntas, LecturaPropia, DispEscribe
  PROVE  LecturaPropia'
<1>0. PagTypeOK /\ ColaOK /\ TecladoOK /\ CpuOK /\ VivosOK
  BY DEF TipoInv
<1>1. CASE acceso'.op \notin Lectoras
  BY <1>1, LecturaIgual
<1>2. CASE acceso'.op \in Lectoras
  <2>1. UNCHANGED <<acceso, corre, tabla>>
    BY DEF DispEscribe, CopiarEnMemoria, cpu_vars
  <2>2. corre \in PID
    BY <1>0, <1>2, <2>1, EnAcceso
  <2>3. ASSUME NEW p \in PID, p = corre PROVE EspacioDe(p)' = EspacioDe(p)
    <3> DEFINE h == Head(cola_io)
               f == Head(h.dfs)
               s == SubSeq(teclado, 1, f.tam)
    <3>1. /\ cola_io # <<>> /\ escrito = SinMarca /\ teclado # <<>>
          /\ fisica' = MemoriaCon(f.df, s)
      BY DEF DispEscribe, CopiarEnMemoria
    <3>2. h = cola_io[1] /\ 1 \in 1..Len(cola_io)
      BY <1>0, <3>1, EmptySeq, LenProperties DEF ColaOK
    <3>3. /\ h.pid \in PID /\ h.dfs \in Seq(Fragmento) /\ PedidoBien(h.dfs)
          /\ h.pid # p
      BY <1>0, <2>3, <3>2, UnPedido DEF VivosOK
    <3>4. /\ f \in Fragmento /\ f = h.dfs[1] /\ 1 \in 1..Len(h.dfs)
          /\ f.dl + f.tam <= Final(h.dfs) /\ Final(h.dfs) \in Nat
      BY <3>3, PedidoTail
    <3>5. Vale(h.pid, f)
      BY <3>2, <3>4 DEF VigenteInv, ValeTodo
    <3>6. s \in Seq(Bytes) /\ Len(s) = f.tam
      <4>1. /\ teclado \in Seq(Bytes) /\ Len(teclado) \in Nat
            /\ Len(teclado) = Final(h.dfs) - h.dfs[1].dl - 0
        BY <1>0, <3>1, LenProperties DEF TecladoOK
      <4>2. f.tam \in Nat \ {0} /\ f.dl \in Nat
        BY <3>4 DEF Fragmento
      <4>3. f.tam <= Len(teclado)
        <5> HIDE DEF f, h
        <5> QED
          BY <3>4, <4>1, <4>2
      <4> QED
        BY <4>1, <4>2, <4>3, TextoPartido
    <3> HIDE DEF s, f, h
    <3>7. EspacioDe(p)' =
               [k \in 1..Tamanio(p) |-> MemoriaCon(f.df, s)[Fisica(p, k - 1)]]
      BY <2>1, <3>1 DEF EspacioDe, Tamanio, Fisica
    <3>8. ASSUME NEW k \in 1..Tamanio(p)
          PROVE  MemoriaCon(f.df, s)[Fisica(p, k - 1)] =
                      fisica[Fisica(p, k - 1)]
      <4>1. k - 1 \in Nat /\ k - 1 < Tamanio(p)
        BY <1>0, EspacioEs
      <4> QED
        BY <1>0, <3>3, <3>4, <3>5, <3>6, <4>1, EscrituraPropia
    <3> QED
      BY <1>0, <3>7, <3>8, EspacioEs
  <2> QED
    BY <1>2, <2>1, <2>2, <2>3, LecturaIgual
<1> QED
  BY <1>1, <1>2

(* Every step. *)
LEMMA LecturaPaso ==
  ASSUME TipoInv, VigenteInv, TablasDisjuntas, LecturaPropia,
         [MemNext]_mem_vars
  PROVE  LecturaPropia'
<1>0. PagTypeOK /\ CpuOK /\ VivosOK
  BY DEF TipoInv
<1>1. acceso.op \in Lectoras => /\ corre \in PID /\ acceso \in Accesos
                                /\ vida[corre] = "presente"
                                /\ acceso # SinAcceso
                                /\ acceso.op # "RESIZE" /\ acceso.op # "IO"
                                /\ acceso.op \notin Escritoras
  BY <1>0, EnAcceso DEF Lectoras, Escritoras, VivosOK, SinAcceso
<1>2. CASE /\ UNCHANGED <<acceso, corre, fisica>>
           /\ corre \in PID => tabla'[corre] = tabla[corre]
  <2>1. \A p \in PID : p = corre => EspacioDe(p)' = EspacioDe(p)
    BY <1>2, EspacioIgual
  <2> QED
    BY <1>1, <1>2, <2>1, LecturaIgual
<1>3. CASE acceso'.op \notin Lectoras
  BY <1>3, LecturaIgual
<1>4. ASSUME NEW p \in PID, Crear(p) \/ Fin(p) PROVE LecturaPropia'
  <2>1. /\ UNCHANGED <<acceso, corre, fisica>>
        /\ tabla' = [tabla EXCEPT ![p] = <<>>]
    BY <1>4 DEF Crear, Fin, CrearProceso, FinProceso, cpu_vars
  <2>2. p # corre
    BY <1>0, <1>4 DEF Crear, Fin, CrearProceso, VivosOK
  <2>3. corre \in PID => tabla'[corre] = tabla[corre]
    BY <1>0, <2>1, <2>2 DEF PagTypeOK
  <2> QED
    BY <1>2, <2>1, <2>3
<1>5. CASE (\E p \in PID : Despacha(p)) \/ Deja
  <2>1. acceso' = SinAcceso
    BY <1>0, <1>5, SistemaAssumption DEF Despacha, Deja, CpuOK
  <2> QED
    BY <1>3, <2>1 DEF SinAcceso, Lectoras
<1>6. CASE MOV_IN \/ MOV_OUT \/ COPY_STRING \/ IO
  <2>1. acceso'.op \notin Lectoras \/ acceso'.dato = <<>>
    BY <1>6 DEF MOV_IN, MOV_OUT, COPY_STRING, IO, Empieza, Acceso, Lectoras
  <2> QED
    BY <2>1, LecturaIgual
<1>7. ASSUME NEW tamanio, RESIZE(tamanio) PROVE LecturaPropia'
  BY <1>3, <1>7 DEF RESIZE, SinMemoria, SinAcceso, Lectoras
<1>8. CASE AjustaPagina \/ RespuestaResize
  <2>1. acceso'.op \notin Lectoras
    BY <1>8 DEF AjustaPagina, SinMemoria, cpu_vars, RespuestaResize,
           SinAcceso, Lectoras
  <2> QED
    BY <1>3, <2>1
<1>9. CASE Traduce
  <2>1. /\ EnMemoria(acceso) /\ UNCHANGED <<pag_vars, corre>>
        /\ \E tam, df :
             acceso' = [acceso EXCEPT !.dl = @ + tam, !.resta = @ - tam,
                !.dfs = Append(@, [dl |-> acceso.dl, df |-> df, tam |-> tam])]
    BY <1>9 DEF Traduce, Traduciendo, EnMemoria
  <2>2. corre \in PID /\ acceso \in Accesos
    BY <1>0, <2>1, EnAcceso DEF EnMemoria
  <2>3. /\ acceso'.op = acceso.op /\ acceso'.dato = acceso.dato
        /\ acceso'.inicio = acceso.inicio
    BY <2>1, <2>2 DEF Accesos
  <2>4. \A p \in PID : p = corre => EspacioDe(p)' = EspacioDe(p)
    BY <2>1, EspacioIgual DEF pag_vars
  <2> QED
    BY <2>1, <2>2, <2>3, <2>4, LecturaIgual
<1>10. CASE Lee
  BY <1>10, LecturaLee
<1>11. CASE TerminaLectura \/ Escribe \/ Bloquea
  <2>1. CASE Escribe
    <3>1. acceso.op \in Escritoras /\ acceso \in Accesos
      BY <1>0, <2>1, EnAcceso DEF Escribe
    <3>2. acceso'.op \in {acceso.op, "NINGUNA"}
      BY <2>1, <3>1 DEF Escribe, Accesos, SinAcceso
    <3> QED
      BY <1>3, <3>1, <3>2 DEF Lectoras, Escritoras
  <2>2. CASE TerminaLectura \/ Bloquea
    BY <1>3, <2>2 DEF TerminaLectura, Bloquea, SinAcceso, Acceso, Lectoras
  <2> QED
    BY <1>11, <2>1, <2>2
<1>12. CASE DispLee \/ DispTeclado \/ DispMarca \/ UNCHANGED mem_vars
  BY <1>2, <1>12 DEF DispLee, DispTeclado, DispMarca, MarcarConByte,
         mem_vars, pag_vars,
                     cpu_vars
<1>13. CASE DispEscribe
  BY <1>13, LecturaDispEscribe
<1> QED
  BY <1>4, <1>5, <1>6, <1>7, <1>8, <1>9, <1>10, <1>11, <1>12, <1>13 DEF MemNext

(* What holds of the memory as a whole, with both preconditions. *)
MemoriaInv == TipoInv /\ MarcosInv /\ VigenteInv

(* The invariant of the whole memory is inductive. *)
LEMMA MemoriaInvSiempre ==
  ASSUME SinCarrera, SinTLBVieja
  PROVE  /\ MemInit => MemoriaInv
         /\ MemoriaInv /\ [MemNext]_mem_vars => MemoriaInv'
BY TipoInicial, MarcosInicial, VigenteInicial, TipoPaso, MarcosPaso,
       VigentePaso
   DEF MemoriaInv

(* MOV_IN and COPY_STRING read what the process holds at those addresses,   *)
(* up to the zeros that cut the reply: whatever the other processes, the    *)
(* device and the TLB did meanwhile.                                        *)
THEOREM LecturaPropiaSiempre ==
  ASSUME SinCarrera, SinTLBVieja PROVE MemSpec => []LecturaPropia
<1>1. MemInit => MemoriaInv /\ LecturaPropia
  <2>1. MemInit => LecturaPropia
    BY DEF MemInit, LecturaPropia, SinAcceso, Lectoras
  <2> QED
    BY <2>1, MemoriaInvSiempre
<1>2. MemoriaInv /\ LecturaPropia /\ [MemNext]_mem_vars =>
           MemoriaInv' /\ LecturaPropia'
  BY MemoriaInvSiempre, LecturaPaso DEF MemoriaInv, MarcosInv
<1> QED
  BY <1>1, <1>2, PTL DEF MemSpec

-----------------------------------------------------------------------------
(***************************************************************************)
(* Private memories: what each step is, seen from the programs.            *)
(***************************************************************************)
Espacios == [p \in PID |-> EspacioDe(p)]

(* The writes in course of the programs. *)
Escrituras == [p \in PID |-> PedidoDe(p)]

(* A step of the private memories, or none. *)
PasoPrivado == [Privado!EPNext]_<<Espacios, Escrituras>>

(* Nothing happens to any of them. *)
LEMMA EsQuieto ==
  ASSUME \A p \in PID : EspacioDe(p)' = EspacioDe(p),
         \A p \in PID : PedidoDe(p)' = PedidoDe(p)
  PROVE  PasoPrivado
BY DEF PasoPrivado, Espacios, Escrituras

(* A write of p begins. *)
LEMMA EsPide ==
  ASSUME NEW p \in PID, PedidoDe(p) = <<>>,
         \A q \in PID : EspacioDe(q)' = EspacioDe(q),
         \A q \in PID \ {p} : PedidoDe(q)' = PedidoDe(q),
         NEW ds \in SUBSET (0..(Len(EspacioDe(p)) - 1)),
         PedidoDe(p)' \in [ds -> Bytes]
  PROVE  PasoPrivado
<1>1. Escrituras' = [Escrituras EXCEPT ![p] = PedidoDe(p)']
  BY DEF Escrituras
<1>2. Espacios' = Espacios
  BY DEF Espacios
<1>3. DOMAIN Escrituras[p] = {}
  BY DEF Escrituras
<1>4. ds \in SUBSET (0..(Len(Espacios[p]) - 1))
  BY DEF Espacios
<1>5. Privado!Pide(p)
  BY <1>1, <1>2, <1>3, <1>4 DEF Privado!Pide, Privado!Direccion, Espacios,
         Escrituras
<1> QED
  BY <1>5 DEF PasoPrivado, Privado!EPNext

(* Some bytes of a write of p reach memory. *)
LEMMA EsEscribe ==
  ASSUME NEW p \in PID, NEW ds \in SUBSET DOMAIN PedidoDe(p),
         EspacioDe(p)' = [k \in 1..Len(EspacioDe(p)) |->
                            IF k - 1 \in ds THEN PedidoDe(p)[k - 1] ELSE EspacioDe(p)[k]],
         PedidoDe(p)' = [d \in DOMAIN PedidoDe(p) \ ds |-> PedidoDe(p)[d]],
         \A q \in PID \ {p} : EspacioDe(q)' = EspacioDe(q),
         \A q \in PID \ {p} : PedidoDe(q)' = PedidoDe(q)
  PROVE  PasoPrivado
<1>1. Escrituras' = [Escrituras EXCEPT ![p] = PedidoDe(p)']
  BY DEF Escrituras
<1>2. Espacios' = [Espacios EXCEPT ![p] = EspacioDe(p)']
  BY DEF Espacios
<1>3. Espacios[p] = EspacioDe(p) /\ Escrituras[p] = PedidoDe(p)
  BY DEF Espacios, Escrituras
<1>4. Privado!Escribe(p)
  <2>1. Espacios' = [Espacios EXCEPT ![p] =
           [k \in 1..Len(Espacios[p]) |->
              IF k - 1 \in ds THEN Escrituras[p][k - 1] ELSE Espacios[p][k]]]
    BY <1>2, <1>3
  <2>2. Escrituras' = [Escrituras EXCEPT ![p] =
           [d \in DOMAIN Escrituras[p] \ ds |-> Escrituras[p][d]]]
    BY <1>1, <1>3
  <2>3. ds \in SUBSET DOMAIN Escrituras[p]
    BY <1>3
  <2>4. \E s \in SUBSET DOMAIN Escrituras[p] :
           /\ Espacios' = [Espacios EXCEPT ![p] =
                [k \in 1..Len(Espacios[p]) |->
                   IF k - 1 \in s THEN Escrituras[p][k - 1] ELSE Espacios[p][k]]]
           /\ Escrituras' = [Escrituras EXCEPT ![p] =
                [d \in DOMAIN Escrituras[p] \ s |-> Escrituras[p][d]]]
    BY <2>1, <2>2, <2>3
  <2> QED
    BY <2>4 DEF Privado!Escribe, Espacios, Escrituras
<1> QED
  BY <1>4 DEF PasoPrivado, Privado!EPNext

(* The memory of p grows or shrinks. *)
LEMMA EsAjusta ==
  ASSUME NEW p \in PID, PedidoDe(p) = <<>>,
         \A k \in 1..Len(EspacioDe(p)) :
            k <= Len(EspacioDe(p)') => EspacioDe(p)'[k] = EspacioDe(p)[k],
         \A q \in PID \ {p} : EspacioDe(q)' = EspacioDe(q),
         \A q \in PID : PedidoDe(q)' = PedidoDe(q)
  PROVE  PasoPrivado
<1>1. Escrituras' = Escrituras /\ DOMAIN Escrituras[p] = {}
  BY DEF Escrituras
<1>2. /\ DOMAIN Espacios' = PID
      /\ Espacios[p] = EspacioDe(p) /\ Espacios'[p] = EspacioDe(p)'
      /\ \A q \in PID \ {p} : Espacios'[q] = Espacios[q]
  BY DEF Espacios
<1>3. Privado!Ajusta(p)
  BY <1>1, <1>2 DEF Privado!Ajusta, Espacios, Escrituras
<1> QED
  BY <1>3 DEF PasoPrivado, Privado!EPNext

-----------------------------------------------------------------------------
(* The writes that are in course *)

EscribeCPU(p) == corre = p /\ acceso.op \in Escritoras

(* The device has bytes to write for p. *)
EscribeDisp(p) == teclado # <<>> /\ Head(cola_io).pid = p

(* A write in course is not touched by what others do. *)
LEMMA PedidoQuieto ==
  ASSUME NEW p \in PID,
         \/ ~EscribeCPU(p) /\ ~EscribeCPU(p)'
         \/ UNCHANGED <<corre, acceso>>
         \/ /\ EscribeCPU(p) /\ EscribeCPU(p)'
            /\ acceso'.inicio = acceso.inicio /\ acceso'.dato = acceso.dato,
         teclado' = teclado,
         \/ teclado = <<>>
         \/ Head(cola_io').pid = Head(cola_io).pid /\ PedidoDisp' = PedidoDisp
  PROVE  PedidoDe(p)' = PedidoDe(p)
<1>1. EscribeCPU(p)' = EscribeCPU(p)
  BY DEF EscribeCPU
<1>2. EscribeCPU(p) => PedidoCPU' = PedidoCPU
  BY DEF EscribeCPU, PedidoCPU
<1>3. PedidoDe(p) = IF EscribeCPU(p) THEN PedidoCPU
                    ELSE IF EscribeDisp(p) THEN PedidoDisp ELSE <<>>
  BY DEF PedidoDe, EscribeCPU, EscribeDisp
<1>4. PedidoDe(p)' = IF EscribeCPU(p)' THEN PedidoCPU'
                     ELSE IF EscribeDisp(p)' THEN PedidoDisp' ELSE <<>>
  BY DEF PedidoDe, EscribeCPU, EscribeDisp
<1>5. /\ EscribeDisp(p)' = EscribeDisp(p)
      /\ (EscribeDisp(p) => PedidoDisp' = PedidoDisp)
  BY DEF EscribeDisp
<1> QED
  BY <1>1, <1>2, <1>3, <1>4, <1>5

(* The same, when the device and its queue do nothing. *)
LEMMA PedidosSinDisp ==
  ASSUME UNCHANGED io_vars, NEW p \in PID,
         \/ ~EscribeCPU(p) /\ ~EscribeCPU(p)'
         \/ UNCHANGED <<corre, acceso>>
         \/ /\ EscribeCPU(p) /\ EscribeCPU(p)'
            /\ acceso'.inicio = acceso.inicio /\ acceso'.dato = acceso.dato
  PROVE  PedidoDe(p)' = PedidoDe(p)
<1>1. UNCHANGED <<teclado, cola_io, escrito>>
  BY DEF io_vars
<1>2. Head(cola_io').pid = Head(cola_io).pid /\ PedidoDisp' = PedidoDisp
  BY <1>1 DEF PedidoDisp
<1> QED
  BY <1>1, <1>2, PedidoQuieto

(* Who is in the CPU has nothing in the device, and the other way round. *)
LEMMA UnoEscribe ==
  ASSUME TipoInv, NEW p \in PID
  PROVE  /\ p = corre => ~EscribeDisp(p)
         /\ ~EnIO(p) => ~EscribeDisp(p)
         /\ EscribeDisp(p) => p # corre
         /\ ~EscribeDisp(p) /\ ~EscribeCPU(p) => PedidoDe(p) = <<>>
<1>1. ColaOK /\ TecladoOK /\ VivosOK
  BY DEF TipoInv
<1>2. EscribeDisp(p) => p # corre /\ EnIO(p)
  <2> SUFFICES ASSUME EscribeDisp(p) PROVE p # corre /\ EnIO(p)
    OBVIOUS
  <2>1. cola_io # <<>>
    BY <1>1 DEF EscribeDisp, TecladoOK
  <2>2. Head(cola_io) = cola_io[1] /\ 1 \in 1..Len(cola_io)
    BY <1>1, <2>1, EmptySeq, LenProperties DEF ColaOK
  <2> QED
    BY <1>1, <2>2 DEF EscribeDisp, VivosOK, EnIO
<1> QED
  BY <1>2 DEF PedidoDe, EscribeCPU, EscribeDisp

(* A function of nothing. *)
LEMMA FuncionVacia ==
  ASSUME NEW f, NEW S, S = {}, f = [d \in S |-> f[d]]
  PROVE  f = <<>>
<1>1. f \in [1..0 -> {}]
  <2>1. S = 1..0
    OBVIOUS
  <2> QED
    BY <2>1
<1>2. f \in Seq({}) /\ Len(f) = 0
  BY <1>1
<1> QED
  BY <1>2, EmptySeq

(* The length of a function on 1..n. *)
LEMMA LargoFuncion ==
  ASSUME NEW n \in Nat, NEW f, f = [k \in 1..n |-> f[k]]
  PROVE  Len(f) = n
<1> DEFINE S == {f[k] : k \in 1..n}
<1>1. f \in [1..n -> S]
  OBVIOUS
<1> HIDE DEF S
<1>2. f \in Seq(S) /\ Len(f) = n
  BY <1>1
<1> QED
  BY <1>2

(* The memory of a process after a change of its table. *)
LEMMA EspacioPrima ==
  ASSUME NEW p \in PID, NEW n \in Nat, Len(tabla'[p]) = n
  PROVE  /\ n * TamPagina \in Nat /\ Len(EspacioDe(p)') = n * TamPagina
         /\ \A k \in 1..(n * TamPagina) : EspacioDe(p)'[k] =
               fisica'[tabla'[p][Pagina(k - 1) + 1] * TamPagina + Desplazamiento(k - 1)]
<1> DEFINE f == EspacioDe(p)'
<1>1. n * TamPagina \in Nat
  BY PaginacionAssumption
<1>2. f = [k \in 1..(n * TamPagina) |->
             fisica'[tabla'[p][Pagina(k - 1) + 1] * TamPagina + Desplazamiento(k - 1)]]
  BY DEF EspacioDe, Tamanio
<1> HIDE DEF f
<1>3. f = [k \in 1..(n * TamPagina) |-> f[k]]
  BY <1>2
<1>4. Len(f) = n * TamPagina
  BY <1>1, <1>3, LargoFuncion
<1> QED
  BY <1>1, <1>2, <1>4 DEF f

(* A process without pages begins, or one loses them all. *)
LEMMA PrivadoVida ==
  ASSUME TipoInv, VigenteInv, NEW p \in PID, Crear(p) \/ Fin(p)
  PROVE  PasoPrivado
<1>0. PagTypeOK /\ VivosOK
  BY DEF TipoInv
<1>1. /\ UNCHANGED <<cpu_vars, io_vars, fisica>>
      /\ tabla' = [tabla EXCEPT ![p] = <<>>]
  BY DEF Crear, Fin, CrearProceso, FinProceso
<1>2. \A q \in PID : PedidoDe(q)' = PedidoDe(q)
  BY <1>1, PedidosSinDisp DEF cpu_vars
<1>3. \A q \in PID \ {p} : EspacioDe(q)' = EspacioDe(q)
  <2>1. \A q \in PID \ {p} : tabla'[q] = tabla[q]
    BY <1>0, <1>1 DEF PagTypeOK
  <2> QED
    BY <1>1, <2>1, EspacioIgual
<1>4. CASE Crear(p)
  <2>1. tabla[p] = <<>>
    BY <1>4 DEF Crear, CrearProceso, VigenteInv
  <2>2. tabla'[p] = tabla[p]
    BY <1>0, <1>1, <2>1 DEF PagTypeOK
  <2>3. EspacioDe(p)' = EspacioDe(p)
    BY <1>1, <2>2, EspacioIgual
  <2> QED
    BY <1>2, <1>3, <2>3, EsQuieto
<1>5. CASE Fin(p)
  <2>1. corre # p /\ ~EnIO(p)
    BY <1>5 DEF Fin
  <2>2. PedidoDe(p) = <<>>
    BY <2>1, UnoEscribe DEF EscribeCPU
  <2>3. Len(tabla'[p]) = 0
    BY <1>0, <1>1, EmptySeq DEF PagTypeOK
  <2>4. Len(EspacioDe(p)') = 0
    <3>1. Len(EspacioDe(p)') = 0 * TamPagina
      BY <2>3, EspacioPrima
    <3> QED
      BY <3>1, PaginacionAssumption
  <2>5. \A k \in 1..Len(EspacioDe(p)) :
           k <= Len(EspacioDe(p)') => EspacioDe(p)'[k] = EspacioDe(p)[k]
    <3>1. Len(EspacioDe(p)) \in Nat
      BY <1>0, EspacioEs
    <3> QED
      BY <2>4, <3>1
  <2> QED
    BY <1>2, <1>3, <2>2, <2>5, EsAjusta
<1> QED
  BY <1>4, <1>5

(* RESIZE: what is left of the memory of the process keeps its bytes. *)
LEMMA PrivadoAjusta ==
  ASSUME TipoInv, AjustaPagina PROVE PasoPrivado
<1>0. PagTypeOK /\ CpuOK
  BY DEF TipoInv
<1>1. acceso.op = "RESIZE" /\ UNCHANGED <<mmu_vars, io_vars>>
  BY DEF AjustaPagina
<1>2. /\ corre \in PID /\ acceso.paginas \in Nat
      /\ acceso.op \notin Escritoras
  BY <1>0, <1>1 DEF CpuOK, SinAcceso, Accesos, Lectoras, Escritoras
<1>3. PICK p \in PID : p = corre
  BY <1>2
<1>4. /\ tabla[p] \in Seq(Marcos) /\ Len(tabla[p]) \in Nat
      /\ tabla \in [PID -> Seq(Marcos)]
  BY <1>0, LenProperties DEF PagTypeOK
<1>5. \A q \in PID : PedidoDe(q)' = PedidoDe(q)
  <2>1. \A q \in PID : ~EscribeCPU(q)
    BY <1>2 DEF EscribeCPU
  <2>2. \A q \in PID : ~EscribeCPU(q)'
    BY <1>2 DEF EscribeCPU, AjustaPagina, SinMemoria, cpu_vars, SinAcceso,
           Escritoras
  <2> QED
    BY <1>1, <2>1, <2>2, PedidosSinDisp
<1>6. CASE UNCHANGED <<tabla, fisica>>
  BY <1>5, <1>6, EspacioIgual, EsQuieto
<1>7. ASSUME fisica' = fisica, NEW n \in Nat, Len(tabla'[p]) = n,
             \A q \in PID \ {p} : tabla'[q] = tabla[q],
             \A i \in 1..Len(tabla[p]) : i <= n => tabla'[p][i] = tabla[p][i]
      PROVE  PasoPrivado
  <2> DEFINE l == Len(tabla[p])
  <2>1. /\ Len(EspacioDe(p)) = l * TamPagina /\ l * TamPagina \in Nat
        /\ EspacioDe(p) =
             [k \in 1..(l * TamPagina) |-> fisica[Fisica(p, k - 1)]]
    BY <1>0, EspacioEs DEF Tamanio
  <2>2. /\ Len(EspacioDe(p)') = n * TamPagina /\ n * TamPagina \in Nat
        /\ \A k \in 1..(n * TamPagina) : EspacioDe(p)'[k] =
             fisica'[tabla'[p][Pagina(k - 1) + 1] * TamPagina + Desplazamiento(k - 1)]
    BY <1>7, EspacioPrima
  <2>3. ASSUME NEW k \in 1..Len(EspacioDe(p)), k <= Len(EspacioDe(p)')
        PROVE  EspacioDe(p)'[k] = EspacioDe(p)[k]
    <3>1. /\ k - 1 \in Nat /\ k \in 1..(n * TamPagina)
          /\ k \in 1..(l * TamPagina)
          /\ k - 1 < l * TamPagina /\ k - 1 < n * TamPagina
      BY <2>1, <2>2, <2>3
    <3>2. Pagina(k - 1) < l /\ Pagina(k - 1) < n /\ Pagina(k - 1) \in Nat
      BY <1>4, <3>1, DivMod, PaginaMenor
    <3>3. Pagina(k - 1) + 1 \in 1..l /\ Pagina(k - 1) + 1 <= n
      BY <1>4, <3>2
    <3>4. tabla'[p][Pagina(k - 1) + 1] = tabla[p][Pagina(k - 1) + 1]
      BY <1>7, <3>3
    <3> QED
      BY <1>7, <2>1, <2>2, <3>1, <3>4 DEF Fisica
  <2>4. \A q \in PID \ {p} : EspacioDe(q)' = EspacioDe(q)
    BY <1>7, EspacioIgual
  <2>5. PedidoDe(p) = <<>>
    BY <1>2, <1>3, UnoEscribe DEF EscribeCPU
  <2> QED
    BY <1>5, <2>3, <2>4, <2>5, EsAjusta
<1>8. CASE \E m \in Libres : /\ tabla' = [tabla EXCEPT ![corre] = Append(@, m)]
                             /\ fisica' = fisica
  <2>1. PICK m \in Libres : tabla' = [tabla EXCEPT ![corre] = Append(@, m)]
    BY <1>8
  <2>2. m \in Marcos /\ tabla'[p] = Append(tabla[p], m)
        /\ \A q \in PID \ {p} : tabla'[q] = tabla[q]
    BY <1>3, <1>4, <2>1 DEF Libres
  <2>3. /\ Len(tabla'[p]) = Len(tabla[p]) + 1 /\ Len(tabla[p]) + 1 \in Nat
        /\ \A i \in 1..Len(tabla[p]) : tabla'[p][i] = tabla[p][i]
    BY <1>4, <2>2, AppendProperties
  <2> QED
    BY <1>7, <1>8, <2>2, <2>3
<1>9. CASE QuitarPagina(corre)
  <2> DEFINE l == Len(tabla[p])
             s == SubSeq(tabla[p], 1, l - 1)
  <2>1. /\ fisica' = fisica
        /\ tabla' = [tabla EXCEPT ![corre] = SubSeq(@, 1, Len(@) - 1)]
        /\ tabla[p] # <<>>
    BY <1>3, <1>9 DEF QuitarPagina, Front
  <2>2. l - 1 \in Nat /\ \A i \in 1..(l - 1) : tabla[p][i] \in Marcos
    BY <1>4, <2>1, EmptySeq, ElementOfSeq
  <2>3. Len(s) = l - 1 /\ \A i \in 1..(l - 1) : s[i] = tabla[p][i]
    <3>1. /\ Len(s) = IF 1 <= l - 1 THEN (l - 1) - 1 + 1 ELSE 0
          /\ \A i \in 1..((l - 1) - 1 + 1) : s[i] = tabla[p][1 + i - 1]
      BY <1>4, <2>2, SubSeqProperties
    <3> HIDE DEF s
    <3>2. (l - 1) - 1 + 1 = l - 1 /\ \A i \in 1..(l - 1) : 1 + i - 1 = i
      BY <2>2
    <3> HIDE DEF l
    <3> QED
      BY <2>2, <3>1, <3>2
  <2>4. tabla'[p] = s /\ \A q \in PID \ {p} : tabla'[q] = tabla[q]
    BY <1>3, <1>4, <2>1
  <2> HIDE DEF s
  <2>5. \A i \in 1..l : i <= l - 1 => i \in 1..(l - 1)
    BY <2>2
  <2> QED
    BY <1>7, <2>1, <2>2, <2>3, <2>4, <2>5
<1> QED
  BY <1>6, <1>8, <1>9 DEF AjustaPagina, AsignarMarco, pag_vars

(* The bytes of a text, each at its address. *)
Texto(dl, t) == [d \in dl..(dl + Len(t) - 1) |-> t[d - dl + 1]]

(* What is left of it after its first n bytes. *)
LEMMA TextoResto ==
  ASSUME NEW dl \in Nat, NEW t \in Seq(Bytes), NEW n \in Nat \ {0}, n <= Len(t)
  PROVE  LET w == Texto(dl, t)
             ds == dl..(dl + n - 1)
             r == SubSeq(t, n + 1, Len(t))
             w1 == [d \in DOMAIN w \ ds |-> w[d]]
         IN /\ ds \in SUBSET DOMAIN w
            /\ \A d \in ds : w[d] = SubSeq(t, 1, n)[d - dl + 1]
            /\ w1 = Texto(dl + n, r)
            /\ n = Len(t) => w1 = <<>>
<1> DEFINE w == Texto(dl, t)
           ds == dl..(dl + n - 1)
           r == SubSeq(t, n + 1, Len(t))
           w1 == [d \in DOMAIN w \ ds |-> w[d]]
           x == SubSeq(t, 1, n)
           l == Len(t)
<1>1. l \in Nat /\ n <= l
  BY LenProperties
<1>2. /\ DOMAIN w = dl..(dl + l - 1)
      /\ \A d \in dl..(dl + l - 1) : w[d] = t[d - dl + 1]
  BY DEF Texto
<1>3. /\ \A k \in 1..n : x[k] = t[k]
      /\ Len(r) = l - n /\ \A k \in 1..(l - n) : r[k] = t[n + k]
  BY TextoPartido
<1> HIDE DEF w, r, x, l
<1>4. ds \in SUBSET DOMAIN w
  BY <1>1, <1>2
<1>5. ASSUME NEW d \in ds PROVE w[d] = x[d - dl + 1]
  <2>1. d - dl + 1 \in 1..n /\ d \in dl..(dl + l - 1)
    BY <1>1
  <2> QED
    BY <1>2, <1>3, <2>1
<1>6. DOMAIN w \ ds = (dl + n)..((dl + n) + Len(r) - 1)
  BY <1>1, <1>2, <1>3
<1>7. ASSUME NEW d \in DOMAIN w \ ds PROVE w[d] = r[d - (dl + n) + 1]
  <2>1. /\ d \in dl..(dl + l - 1) /\ d - (dl + n) + 1 \in 1..(l - n)
        /\ n + (d - (dl + n) + 1) = d - dl + 1
    BY <1>1, <1>2, <1>3, <1>6
  <2>2. w[d] = t[d - dl + 1]
    BY <1>2, <2>1
  <2>3. r[d - (dl + n) + 1] = t[n + (d - (dl + n) + 1)]
    BY <1>3, <2>1
  <2> QED
    BY <2>1, <2>2, <2>3
<1>8. w1 = Texto(dl + n, r)
  BY <1>6, <1>7 DEF Texto
<1>9. n = l => w1 = <<>>
  <2> SUFFICES ASSUME n = l PROVE w1 = <<>>
    OBVIOUS
  <2>1. DOMAIN w \ ds = {}
    BY <1>1, <1>2
  <2>2. w1 = [d \in DOMAIN w \ ds |-> w1[d]]
    OBVIOUS
  <2> HIDE DEF w1, ds
  <2> QED
    BY <2>1, <2>2, FuncionVacia
<1> QED
  BY <1>4, <1>5, <1>8, <1>9 DEF w, r, x, l

(* A write of a fragment is a step of its process only. *)
LEMMA EscrituraPaso ==
  ASSUME PagTypeOK, TablasDisjuntas, NEW q \in PID, NEW f \in Fragmento,
         Vale(q, f),
         NEW s \in Seq(Bytes), Len(s) = f.tam,
         fisica' = MemoriaCon(f.df, s), tabla' = tabla,
         LET w == PedidoDe(q)
             ds == f.dl..(f.dl + f.tam - 1)
         IN /\ ds \in SUBSET DOMAIN w
            /\ \A d \in ds : w[d] = s[d - f.dl + 1]
            /\ PedidoDe(q)' = [d \in DOMAIN w \ ds |-> w[d]],
         \A p \in PID \ {q} : PedidoDe(p)' = PedidoDe(p)
  PROVE  PasoPrivado
<1> DEFINE ds == f.dl..(f.dl + f.tam - 1)
           w == PedidoDe(q)
<1>1. \A p \in PID : EspacioDe(p)' =
         [k \in 1..Tamanio(p) |-> MemoriaCon(f.df, s)[Fisica(p, k - 1)]]
  BY DEF EspacioDe, Tamanio, Fisica
<1>2. ASSUME NEW p \in PID, NEW k \in 1..Tamanio(p)
      PROVE  /\ EspacioDe(p)[k] = fisica[Fisica(p, k - 1)]
             /\ MemoriaCon(f.df, s)[Fisica(p, k - 1)] =
                  IF p = q /\ k - 1 \in ds THEN s[(k - 1) - f.dl + 1]
                  ELSE fisica[Fisica(p, k - 1)]
  <2>1. k - 1 \in Nat /\ k - 1 < Tamanio(p)
    BY EspacioEs
  <2> QED
    BY <2>1, EscrituraPropia, EspacioEs
<1>3. ASSUME NEW p \in PID \ {q} PROVE EspacioDe(p)' = EspacioDe(p)
  <2>1. EspacioDe(p)' = [k \in 1..Tamanio(p) |-> fisica[Fisica(p, k - 1)]]
    BY <1>1, <1>2
  <2> QED
    BY <2>1, EspacioEs
<1>4. Len(EspacioDe(q)) = Tamanio(q)
  BY EspacioEs
<1>5. EspacioDe(q)' = [k \in 1..Len(EspacioDe(q)) |->
         IF k - 1 \in ds THEN w[k - 1] ELSE EspacioDe(q)[k]]
  <2>1. \A k \in 1..Tamanio(q) : k - 1 \in ds =>
             w[k - 1] = s[(k - 1) - f.dl + 1]
    OBVIOUS
  <2> HIDE DEF ds, w
  <2> QED
    BY <1>1, <1>2, <1>4, <2>1
<1> QED
  BY <1>3, <1>5, EsEscribe

-----------------------------------------------------------------------------
(* Steps of the CPU *)

(* A step that writes nothing and begins no write. *)
LEMMA PrivadoQuieto ==
  ASSUME UNCHANGED <<tabla, fisica, io_vars>>,
         \/ acceso.op \notin Escritoras /\ acceso'.op \notin Escritoras
         \/ UNCHANGED <<corre, acceso>>
         \/ /\ corre' = corre /\ acceso'.op = acceso.op
            /\ acceso'.inicio = acceso.inicio /\ acceso'.dato = acceso.dato
  PROVE  PasoPrivado
<1>1. \A p \in PID : EspacioDe(p)' = EspacioDe(p)
  BY EspacioIgual
<1>2. ASSUME NEW p \in PID PROVE PedidoDe(p)' = PedidoDe(p)
  <2>1. \/ ~EscribeCPU(p) /\ ~EscribeCPU(p)'
        \/ UNCHANGED <<corre, acceso>>
        \/ /\ EscribeCPU(p) /\ EscribeCPU(p)'
           /\ acceso'.inicio = acceso.inicio /\ acceso'.dato = acceso.dato
    BY DEF EscribeCPU
  <2> QED
    BY <2>1, PedidosSinDisp
<1> QED
  BY <1>1, <1>2, EsQuieto

(* A write begins: MOV_OUT, and COPY_STRING once it has read. *)
LEMMA PrivadoPide ==
  ASSUME TipoInv, UNCHANGED <<tabla, fisica, io_vars, corre>>, corre \in PID,
         acceso.op \notin Escritoras, acceso'.op \in Escritoras,
         acceso'.inicio \in Nat, acceso'.dato \in Seq(Bytes),
         acceso'.inicio + Len(acceso'.dato) <= Tamanio(corre)
  PROVE  PasoPrivado
<1>1. PICK p \in PID : p = corre
  OBVIOUS
<1> DEFINE i == acceso'.inicio
           l == Len(acceso'.dato)
           ds == i..(i + l - 1)
<1>2. PedidoDe(p) = <<>>
  BY <1>1, UnoEscribe DEF EscribeCPU
<1>3. \A q \in PID : EspacioDe(q)' = EspacioDe(q)
  BY EspacioIgual
<1>4. ASSUME NEW q \in PID \ {p} PROVE PedidoDe(q)' = PedidoDe(q)
  <2>1. ~EscribeCPU(q) /\ ~EscribeCPU(q)'
    BY <1>1 DEF EscribeCPU
  <2> QED
    BY <2>1, PedidosSinDisp
<1>5. PedidoDe(p)' = [d \in ds |-> acceso'.dato[d - i + 1]]
  BY <1>1 DEF PedidoDe, PedidoCPU
<1>6. l \in Nat /\ \A k \in 1..l : acceso'.dato[k] \in Bytes
  BY LenProperties, ElementOfSeq
<1>7. Len(EspacioDe(p)) = Tamanio(p) /\ Tamanio(p) \in Nat
  BY EspacioEs DEF TipoInv
<1>8. \A d \in ds : d - i + 1 \in 1..l
  BY <1>6
<1>9. PedidoDe(p)' \in [ds -> Bytes]
  BY <1>5, <1>6, <1>8
<1>10. ds \in SUBSET (0..(Len(EspacioDe(p)) - 1))
  BY <1>1, <1>6, <1>7
<1> HIDE DEF ds
<1> QED
  BY <1>2, <1>3, <1>4, <1>9, <1>10, EsPide

(* The first bytes of a text that is being written reach memory. *)
LEMMA EscribeTexto ==
  ASSUME PagTypeOK, TablasDisjuntas, NEW q \in PID, NEW f \in Fragmento,
         Vale(q, f),
         NEW t \in Seq(Bytes), f.tam <= Len(t),
         fisica' = MemoriaCon(f.df, SubSeq(t, 1, f.tam)), tabla' = tabla,
         PedidoDe(q) = Texto(f.dl, t),
         \/ PedidoDe(q)' = Texto(f.dl + f.tam, SubSeq(t, f.tam + 1, Len(t)))
         \/ f.tam = Len(t) /\ PedidoDe(q)' = <<>>,
         \A p \in PID \ {q} : PedidoDe(p)' = PedidoDe(p)
  PROVE  PasoPrivado
<1> DEFINE w == Texto(f.dl, t)
           s == SubSeq(t, 1, f.tam)
           ds == f.dl..(f.dl + f.tam - 1)
           r == SubSeq(t, f.tam + 1, Len(t))
           w1 == [d \in DOMAIN w \ ds |-> w[d]]
<1>1. f.dl \in Nat /\ f.tam \in Nat \ {0}
  BY DEF Fragmento
<1>2. /\ ds \in SUBSET DOMAIN w
      /\ \A d \in ds : w[d] = s[d - f.dl + 1]
      /\ w1 = Texto(f.dl + f.tam, r)
      /\ f.tam = Len(t) => w1 = <<>>
  <2>1. \A dl \in Nat : \A n \in Nat \ {0} : n <= Len(t) =>
           LET v == Texto(dl, t)
               es == dl..(dl + n - 1)
               x == SubSeq(t, n + 1, Len(t))
               v1 == [d \in DOMAIN v \ es |-> v[d]]
           IN /\ es \in SUBSET DOMAIN v
              /\ \A d \in es : v[d] = SubSeq(t, 1, n)[d - dl + 1]
              /\ v1 = Texto(dl + n, x)
              /\ n = Len(t) => v1 = <<>>
    BY TextoResto, Zenon
  <2> QED
    BY <1>1, <2>1, Zenon
<1>3. s \in Seq(Bytes) /\ Len(s) = f.tam
  BY <1>1, TextoPartido
<1> HIDE DEF s, ds, r, w1
<1>4. PedidoDe(q)' = w1
  BY <1>2 DEF r
<1>5. PedidoDe(q)' = [d \in DOMAIN w \ ds |-> w[d]]
  BY <1>4 DEF w1
<1> HIDE DEF w
<1>6. PedidoDe(q) = w
  BY DEF w
<1>7. LET v == PedidoDe(q)
          es == f.dl..(f.dl + f.tam - 1)
      IN /\ es \in SUBSET DOMAIN v
         /\ \A d \in es : v[d] = s[d - f.dl + 1]
         /\ PedidoDe(q)' = [d \in DOMAIN v \ es |-> v[d]]
  BY <1>2, <1>5, <1>6 DEF ds
<1>8. fisica' = MemoriaCon(f.df, s)
  BY DEF s
<1> QED
  BY <1>3, <1>7, <1>8, EscrituraPaso

(* A turn of escribirMemoria. *)
LEMMA PrivadoEscribe ==
  ASSUME TipoInv, VigenteInv, TablasDisjuntas, Escribe
  PROVE  PasoPrivado
<1>0. PagTypeOK /\ CpuOK
  BY DEF TipoInv
<1> DEFINE a == acceso
           f == Head(a.dfs)
           s == SubSeq(a.dato, 1, f.tam)
           r == SubSeq(a.dato, f.tam + 1, Len(a.dato))
<1>1. /\ a.op \in Escritoras /\ a.resta = 0
      /\ EscribirEnMemoria(f.df, s)
      /\ acceso' = IF Len(a.dfs) = 1 THEN SinAcceso
                   ELSE [a EXCEPT !.dfs = Tail(a.dfs), !.inicio = a.inicio + f.tam,
                                  !.dato = r]
      /\ UNCHANGED <<mmu_vars, corre, hechas, acabado, io_vars>>
  BY DEF Escribe, Traducida
<1>2. corre \in PID /\ a \in Accesos /\ AccesoBien(a, Tamanio(corre))
  BY <1>0, <1>1, EnAcceso
<1>3. PICK p \in PID : p = corre
  BY <1>2
<1>4. a.dfs \in Seq(Fragmento) /\ a.inicio \in Nat /\ a.dato \in Seq(Bytes)
      /\ Len(a.dato) \in Nat /\ a.dl \in Nat
  BY <1>2, LenProperties DEF Accesos
<1>5. /\ a.inicio < a.dl /\ a.inicio + Len(a.dato) = a.dl
      /\ Cadena(a.dfs, a.inicio, a.dl)
  BY <1>1, <1>2, <1>4 DEF AccesoBien, Lectoras, Escritoras
<1>6. a.dfs # <<>> /\ 1 \in 1..Len(a.dfs) /\ f = a.dfs[1]
  <2>1. a.dfs # <<>>
    BY <1>4, <1>5 DEF Cadena
  <2> QED
    BY <1>4, <2>1, EmptySeq, LenProperties
<1>7. f \in Fragmento /\ f.dl = a.inicio /\ a.inicio + f.tam <= a.dl
  BY <1>4, <1>5, <1>6, CadenaTail
<1>8. Vale(p, f)
  <2>1. ValeTodo(corre, a.dfs)
    BY <1>1 DEF VigenteInv, EnMemoria
  <2> QED
    BY <1>3, <1>6, <2>1 DEF ValeTodo
<1>9. f.tam \in Nat \ {0} /\ f.dl \in Nat /\ f.tam <= Len(a.dato)
  <2>1. f.tam \in Nat \ {0} /\ f.dl \in Nat
    BY <1>7 DEF Fragmento
  <2> HIDE DEF f, a
  <2> QED
    BY <1>4, <1>5, <1>7, <2>1
<1>10. s \in Seq(Bytes) /\ Len(s) = f.tam
  BY <1>4, <1>9, TextoPartido
<1>11. fisica' = MemoriaCon(f.df, s) /\ tabla' = tabla
  BY <1>1 DEF EscribirEnMemoria
<1>12. PedidoDe(p) = Texto(f.dl, a.dato)
  BY <1>1, <1>3, <1>7 DEF PedidoDe, PedidoCPU, Texto
<1>13. \A q \in PID \ {p} : PedidoDe(q)' = PedidoDe(q)
  <2>1. \A q \in PID \ {p} : ~EscribeCPU(q) /\ ~EscribeCPU(q)'
    BY <1>1, <1>3 DEF EscribeCPU
  <2> QED
    BY <1>1, <2>1, PedidosSinDisp
<1>14. \/ PedidoDe(p)' = Texto(f.dl + f.tam, r)
       \/ f.tam = Len(a.dato) /\ PedidoDe(p)' = <<>>
  <2>1. CASE Len(a.dfs) = 1
    <3>1. acceso'.op \notin Escritoras
      BY <1>1, <2>1 DEF SinAcceso, Escritoras
    <3>2. ~EscribeDisp(p)'
      BY <1>1, <1>3, UnoEscribe DEF EscribeDisp, io_vars
    <3>3. PedidoDe(p)' = <<>>
      BY <3>1, <3>2 DEF PedidoDe, EscribeDisp
    <3>4. a.dfs[1].dl + a.dfs[1].tam = a.dl
      BY <1>5, <1>6, <2>1 DEF Cadena
    <3>5. f.tam = Len(a.dato)
      <4>1. f.dl + f.tam = a.dl
        BY <1>6, <3>4
      <4> HIDE DEF f, a
      <4> QED
        BY <1>4, <1>5, <1>7, <1>9, <4>1
    <3> QED
      BY <3>3, <3>5
  <2>2. CASE Len(a.dfs) # 1
    <3>1. /\ acceso'.op \in Escritoras /\ acceso'.inicio = a.inicio + f.tam
          /\ acceso'.dato = r
      BY <1>1, <1>2, <2>2 DEF Accesos
    <3>2. PedidoDe(p)' = PedidoCPU'
      BY <1>1, <1>3, <3>1 DEF PedidoDe
    <3> QED
      BY <1>7, <3>1, <3>2 DEF PedidoCPU, Texto
  <2> QED
    BY <2>1, <2>2
<1> HIDE DEF f, a, s, r
<1>15. /\ s = SubSeq(a.dato, 1, f.tam)
       /\ r = SubSeq(a.dato, f.tam + 1, Len(a.dato))
  BY DEF s, r
<1> QED
  BY <1>0, <1>4, <1>7, <1>8, <1>9, <1>11, <1>12, <1>13, <1>14, <1>15,
         EscribeTexto

(* MOV_IN ends, or COPY_STRING begins to write what it read. *)
LEMMA PrivadoTermina ==
  ASSUME TipoInv, TerminaLectura PROVE PasoPrivado
<1>0. PagTypeOK /\ CpuOK
  BY DEF TipoInv
<1> DEFINE a == acceso
<1>1. /\ a.op \in {"MOV_IN", "COPY_LEE"} /\ a.resta = 0 /\ a.dfs = <<>>
      /\ UNCHANGED <<pag_vars, io_vars, corre>>
      /\ \/ acceso' = SinAcceso
         \/ /\ a.op = "COPY_LEE"
            /\ acceso' = Acceso("COPY_ESCRIBE", a.di, a.tam, a.dato, 0)
  BY DEF TerminaLectura, Traducida
<1>2. a.op \in Lectoras /\ a.op \notin Escritoras
  BY <1>1 DEF Lectoras, Escritoras
<1>3. CASE acceso' = SinAcceso
  <2>1. acceso'.op \notin Escritoras
    BY <1>3 DEF SinAcceso, Escritoras
  <2> QED
    BY <1>1, <1>2, <2>1, PrivadoQuieto DEF pag_vars
<1>4. CASE /\ a.op = "COPY_LEE"
           /\ acceso' = Acceso("COPY_ESCRIBE", a.di, a.tam, a.dato, 0)
  <2>1. corre \in PID /\ a \in Accesos /\ AccesoBien(a, Tamanio(corre))
    BY <1>0, <1>2, EnAcceso
  <2>2. /\ a.dato \in Seq(Bytes) /\ a.di \in Nat /\ a.tam \in Nat
        /\ a.inicio \in Nat
        /\ a.dl \in Nat /\ Len(a.dato) \in Nat
    BY <2>1, LenProperties DEF Accesos
  <2>3. /\ a.inicio + Len(a.dato) = a.dl /\ a.inicio + a.tam = a.dl + a.resta
        /\ a.di + a.tam <= Tamanio(corre)
    BY <1>1, <1>2, <1>4, <2>1 DEF AccesoBien, Cadena
  <2>4. Len(a.dato) = a.tam
    <3> HIDE DEF a
    <3> QED
      BY <1>1, <2>2, <2>3
  <2>5. /\ acceso'.op \in Escritoras /\ acceso'.inicio = a.di
        /\ acceso'.dato = a.dato
    BY <1>4 DEF Acceso, Escritoras
  <2> QED
    BY <1>1, <1>2, <2>1, <2>2, <2>3, <2>4, <2>5, PrivadoPide DEF pag_vars
<1> QED
  BY <1>1, <1>3, <1>4

(* MOV_OUT begins to write a register. *)
LEMMA PrivadoMovOut ==
  ASSUME TipoInv, MOV_OUT PROVE PasoPrivado
<1>1. PICK tam \in Tamanios : \E dl \in Desde(tam) :
           \E dato \in [1..tam -> Bytes] :
         Empieza(Acceso("MOV_OUT", dl, tam, dato, 0))
  BY DEF MOV_OUT
<1>2. PICK dl \in Desde(tam), dato \in [1..tam -> Bytes] :
         Empieza(Acceso("MOV_OUT", dl, tam, dato, 0))
  BY <1>1
<1>3. tam \in Nat /\ dato \in Seq(Bytes) /\ Len(dato) = tam
  BY SistemaAssumption
<1>4. dl \in Nat /\ dl + tam <= Tamanio(corre)
  BY PaginacionAssumption DEF Desde
<1>5. /\ acceso = SinAcceso /\ corre # Nadie
      /\ UNCHANGED <<pag_vars, mmu_vars, corre, acabado, io_vars>>
      /\ acceso' = Acceso("MOV_OUT", dl, tam, dato, 0)
  BY <1>2 DEF Empieza
<1>6. /\ acceso.op \notin Escritoras /\ acceso'.op \in Escritoras
      /\ acceso'.inicio = dl /\ acceso'.dato = dato /\ corre \in PID
  BY <1>5 DEF SinAcceso, Acceso, Escritoras, TipoInv, CpuOK
<1> QED
  BY <1>3, <1>4, <1>5, <1>6, PrivadoPide DEF pag_vars

-----------------------------------------------------------------------------
(* Steps of the device *)

(* No process but the head of the queue has a write in the device. *)
LEMMA CabezaDisp ==
  ASSUME TipoInv, cola_io # <<>>
  PROVE  /\ Head(cola_io).pid \in PID /\ Head(cola_io).pid # corre
         /\ Head(cola_io).dfs \in Seq(Fragmento)
         /\ PedidoBien(Head(cola_io).dfs)
<1>1. ColaOK /\ VivosOK
  BY DEF TipoInv
<1>2. 1 \in 1..Len(cola_io) /\ Head(cola_io) = cola_io[1]
  BY <1>1, EmptySeq, LenProperties DEF ColaOK
<1> QED
  BY <1>1, <1>2, UnPedido DEF VivosOK

(* A process leaves the CPU with its request behind the others. *)
LEMMA PrivadoBloquea == ASSUME TipoInv, Bloquea PROVE PasoPrivado
<1>0. ColaOK /\ TecladoOK /\ CpuOK
  BY DEF TipoInv
<1>1. /\ acceso.op = "IO" /\ acceso' = SinAcceso
      /\ cola_io' = Append(cola_io, [pid |-> corre, dfs |-> acceso.dfs])
      /\ UNCHANGED <<tabla, fisica, escrito, teclado>>
  BY DEF Bloquea, pag_vars
<1>2. \A p \in PID : ~EscribeCPU(p) /\ ~EscribeCPU(p)'
  BY <1>1 DEF EscribeCPU, SinAcceso, Escritoras
<1>3. teclado # <<>> => Head(cola_io') = Head(cola_io)
  <2> SUFFICES ASSUME teclado # <<>> PROVE Head(cola_io') = Head(cola_io)
    OBVIOUS
  <2>1. cola_io # <<>> /\ cola_io \in Seq(Pedidos)
    BY <1>0 DEF TecladoOK, ColaOK
  <2>2. [pid |-> corre, dfs |-> acceso.dfs] \in Pedidos
    BY <1>0, <1>1, EnAcceso DEF Accesos, Pedidos
  <2> QED
    BY <1>1, <2>1, <2>2, AppendProperties, EmptySeq, LenProperties
<1>4. teclado # <<>> =>
           Head(cola_io').pid = Head(cola_io).pid /\ PedidoDisp' = PedidoDisp
  BY <1>1, <1>3 DEF PedidoDisp
<1>5. \A p \in PID : PedidoDe(p)' = PedidoDe(p)
  BY <1>1, <1>2, <1>4, PedidoQuieto
<1>6. \A p \in PID : EspacioDe(p)' = EspacioDe(p)
  BY <1>1, EspacioIgual
<1> QED
  BY <1>5, <1>6, EsQuieto

(* The request goes to its next fragment: DispLee and DispMarca. *)
LEMMA PrivadoSiguiente ==
  ASSUME TipoInv, DispLee \/ DispMarca PROVE PasoPrivado
<1>0. ColaOK /\ TecladoOK /\ CpuOK
  BY DEF TipoInv
<1>1. /\ cola_io' = Siguiente
      /\ UNCHANGED <<tabla, fisica, corre, acceso, teclado>>
      /\ escrito' = SinMarca /\ cola_io # <<>>
  <2>1. CASE DispLee
    BY <1>0, <2>1 DEF DispLee, pag_vars, cpu_vars, TecladoOK
  <2>2. CASE DispMarca
    BY <1>0, <2>2 DEF DispMarca, MarcarConByte, cpu_vars, TecladoOK
  <2> QED
    BY <2>1, <2>2
<1>2. teclado # <<>> =>
           Head(cola_io').pid = Head(cola_io).pid /\ PedidoDisp' = PedidoDisp
  <2> SUFFICES ASSUME teclado # <<>>
               PROVE  /\ Head(cola_io').pid = Head(cola_io).pid
                      /\ PedidoDisp' = PedidoDisp
    OBVIOUS
  <2> DEFINE dfs == Head(cola_io).dfs
  <2>1. config.dispositivo = "STDIN"
    BY <1>0 DEF TecladoOK
  <2>2. escrito # SinMarca
    BY <2>1 DEF DispLee, DispMarca
  <2>3. dfs \in Seq(Fragmento) /\ PedidoBien(dfs)
    BY <1>1, CabezaDisp
  <2>4. Len(teclado) = Final(dfs) - dfs[1].dl - dfs[1].tam
    BY <1>0, <2>2 DEF TecladoOK
  <2>5. Tail(dfs) # <<>>
    <3> SUFFICES ASSUME Tail(dfs) = <<>> PROVE FALSE
      OBVIOUS
    <3>1. Final(dfs) = dfs[1].dl + dfs[1].tam /\ dfs[1] \in Fragmento
      BY <2>3, PedidoTail
    <3>2. dfs[1].dl \in Nat /\ dfs[1].tam \in Nat
      BY <3>1 DEF Fragmento
    <3>3. Len(teclado) = 0
      BY <2>4, <3>1, <3>2
    <3> QED
      BY <1>0, <3>3, EmptySeq DEF TecladoOK
  <2>6. /\ Head(Siguiente).pid = Head(cola_io).pid
        /\ Head(Siguiente).dfs = Tail(dfs)
    BY <1>0, <1>1, <2>5, SiguienteHechos
  <2> HIDE DEF dfs
  <2>7. Head(cola_io').dfs = Tail(dfs) /\ Head(cola_io).dfs = dfs
    BY <1>1, <2>6 DEF dfs
  <2>8. PedidoDisp' = PedidoDisp
    BY <1>1, <2>2, <2>7 DEF PedidoDisp
  <2> QED
    BY <1>1, <2>6, <2>8
<1>3. \A p \in PID : PedidoDe(p)' = PedidoDe(p)
  BY <1>1, <1>2, PedidoQuieto
<1>4. \A p \in PID : EspacioDe(p)' = EspacioDe(p)
  BY <1>1, EspacioIgual
<1> QED
  BY <1>3, <1>4, EsQuieto

(* A fragment that is valid lies inside its process. *)
LEMMA ValeLimite ==
  ASSUME PagTypeOK, NEW p \in PID, NEW f \in Fragmento, Vale(p, f)
  PROVE  f.dl + f.tam <= Tamanio(p)
<1> DEFINE l == Len(tabla[p])
           q == Pagina(f.dl)
           r == Desplazamiento(f.dl)
<1>1. f.dl \in Nat /\ f.tam \in Nat /\ l \in Nat /\ TamPagina \in Nat
  BY PaginacionAssumption, LenProperties DEF Fragmento, PagTypeOK
<1>2. q \in Nat /\ r \in Nat /\ f.dl = q * TamPagina + r
  <2>1. PICK d \in Nat : d = f.dl
    BY <1>1
  <2>2. Desplazamiento(d) \in Nat
    <3>1. Desplazamiento(d) \in 0..(TamPagina - 1)
      BY DivMod
    <3> HIDE DEF r
    <3> QED
      BY <1>1, <3>1
  <2>3. Pagina(d) \in Nat /\ d = Pagina(d) * TamPagina + Desplazamiento(d)
    BY DivMod
  <2> QED
    BY <2>1, <2>2, <2>3
<1>3. q < l /\ r + f.tam <= TamPagina
  BY DEF Vale
<1> HIDE DEF l, q, r
<1>4. /\ (q + 1) * TamPagina <= l * TamPagina
      /\ (q + 1) * TamPagina = q * TamPagina + TamPagina
  <2>1. q + 1 <= l
    BY <1>1, <1>2, <1>3
  <2> QED
    BY <1>1, <1>2, <2>1
<1>5. q * TamPagina \in Nat /\ l * TamPagina \in Nat
  BY <1>1, <1>2
<1> DEFINE a == q * TamPagina
           b == l * TamPagina
<1>6. a \in Nat /\ b \in Nat /\ a + TamPagina <= b /\ f.dl = a + r
  BY <1>1, <1>2, <1>4, <1>5
<1>7. Tamanio(p) = b
  BY DEF Tamanio, l
<1> HIDE DEF a, b
<1> QED
  BY <1>1, <1>2, <1>3, <1>6, <1>7

(* What the device has to write for the head of its queue. *)
LEMMA PedidoCabeza ==
  ASSUME TipoInv, NEW h \in PID, cola_io # <<>>, h = Head(cola_io).pid
  PROVE  PedidoDe(h) = IF teclado # <<>> THEN PedidoDisp ELSE <<>>
BY CabezaDisp DEF PedidoDe

(* leer_de_consola: the device has a text for the head of its queue. *)
LEMMA PrivadoDispTeclado ==
  ASSUME TipoInv, VigenteInv, DispTeclado PROVE PasoPrivado
<1> DEFINE dfs == Head(cola_io).dfs
           dl == dfs[1].dl
           l == Len(teclado')
           ds == dl..(dl + l - 1)
<1>0. PagTypeOK /\ ColaOK
  BY DEF TipoInv
<1>1. /\ cola_io # <<>> /\ teclado = <<>> /\ escrito = SinMarca
      /\ UNCHANGED <<tabla, fisica, corre, acceso, cola_io, escrito>>
      /\ teclado' \in [1..Pendientes(dfs) -> Bytes]
  BY DEF DispTeclado, pag_vars, cpu_vars
<1>2. dfs \in Seq(Fragmento) /\ PedidoBien(dfs)
  BY <1>1, CabezaDisp
<1>3. PICK h \in PID : h = Head(cola_io).pid
  BY <1>1, CabezaDisp
<1>4. dfs # <<>> /\ Len(dfs) \in Nat \ {0} /\ dfs[1] \in Fragmento
      /\ dl \in Nat /\ Final(dfs) \in Nat /\ dl < Final(dfs)
  <2>1. /\ dfs # <<>> /\ Len(dfs) \in Nat \ {0} /\ dfs[1] \in Fragmento
        /\ dfs[1].dl + dfs[1].tam <= Final(dfs) /\ Final(dfs) \in Nat
    BY <1>2, PedidoTail
  <2>2. dfs[1].dl \in Nat /\ dfs[1].tam \in Nat \ {0}
    BY <2>1 DEF Fragmento
  <2> QED
    BY <2>1, <2>2
<1>5. Pendientes(dfs) = Final(dfs) - dl
  BY <1>2, PendientesLargo DEF PedidoBien
<1>6. l = Final(dfs) - dl /\ l > 0 /\ \A k \in 1..l : teclado'[k] \in Bytes
  <2>1. PICK n \in Nat : n = Final(dfs) - dl
    BY <1>4
  <2>2. teclado' \in [1..n -> Bytes]
    BY <1>1, <1>5, <2>1
  <2>3. Len(teclado') = n
    BY <2>2
  <2> HIDE DEF dl
  <2> QED
    BY <1>4, <2>1, <2>2, <2>3
<1>7. Final(dfs) <= Tamanio(h)
  <2> DEFINE f == dfs[Len(dfs)]
  <2>1. Len(dfs) \in 1..Len(dfs)
    BY <1>4
  <2>2. f \in Fragmento
    BY <1>2, <2>1, Fragmentos
  <2>3. Vale(h, f)
    <3>1. 1 \in 1..Len(cola_io) /\ Head(cola_io) = cola_io[1]
      BY <1>0, <1>1, EmptySeq, LenProperties DEF ColaOK
    <3>2. ValeTodo(cola_io[1].pid, cola_io[1].dfs)
      BY <3>1 DEF VigenteInv
    <3>3. ValeTodo(h, dfs)
      BY <1>3, <3>1, <3>2
    <3> QED
      BY <2>1, <3>3 DEF ValeTodo
  <2> QED
    BY <1>0, <2>2, <2>3, ValeLimite DEF Final
<1>8. PedidoDe(h) = <<>>
  BY <1>1, <1>3, PedidoCabeza
<1>9. \A q \in PID \ {h} : PedidoDe(q)' = PedidoDe(q)
  BY <1>1, <1>3 DEF PedidoDe, PedidoCPU
<1>10. PedidoDe(h)' = [d \in ds |-> teclado'[d - dl + 1]]
  <2>1. h # corre
    BY <1>1, <1>3, CabezaDisp
  <2>2. teclado' # <<>>
    <3>1. teclado' = <<>> => l = 0
      OBVIOUS
    <3> QED
      BY <1>6, <3>1
  <2> QED
    BY <1>1, <1>3, <2>1, <2>2 DEF PedidoDe, PedidoDisp
<1>11. \A q \in PID : EspacioDe(q)' = EspacioDe(q)
  BY <1>1, EspacioIgual
<1>12. Len(EspacioDe(h)) = Tamanio(h) /\ Tamanio(h) \in Nat
  BY <1>0, EspacioEs
<1> DEFINE e == Final(dfs)
<1>13. e \in Nat /\ dl + l = e /\ e <= Tamanio(h) /\ l \in Nat /\ dl \in Nat
  <2> HIDE DEF l, dl
  <2> QED
    BY <1>4, <1>6, <1>7
<1> HIDE DEF e, l, dl
<1>14. \A d \in ds : d - dl + 1 \in 1..l
  BY <1>13
<1>15. PedidoDe(h)' \in [ds -> Bytes]
  BY <1>6, <1>10, <1>14
<1>16. ds \in SUBSET (0..(Len(EspacioDe(h)) - 1))
  BY <1>12, <1>13
<1> HIDE DEF ds
<1> QED
  BY <1>8, <1>9, <1>11, <1>15, <1>16, EsPide

(* SOLICITUD_ESCRITURA_MEMORIA of a fragment of the head. *)
LEMMA PrivadoDispEscribe ==
  ASSUME TipoInv, VigenteInv, TablasDisjuntas, DispEscribe PROVE PasoPrivado
<1> DEFINE dfs == Head(cola_io).dfs
           f == Head(dfs)
           r == SubSeq(teclado, f.tam + 1, Len(teclado))
<1>0. PagTypeOK /\ ColaOK /\ TecladoOK
  BY DEF TipoInv
<1>1. /\ cola_io # <<>> /\ teclado # <<>> /\ escrito = SinMarca
      /\ UNCHANGED <<tabla, corre, acceso, cola_io>>
      /\ fisica' = MemoriaCon(f.df, SubSeq(teclado, 1, f.tam))
      /\ teclado' = r
      /\ escrito' =
           [marco |-> MarcoDe(f.df), byte |-> ocupados \intersect ByteDe(MarcoDe(f.df))]
  BY DEF DispEscribe, CopiarEnMemoria, cpu_vars
<1>2. dfs \in Seq(Fragmento) /\ PedidoBien(dfs)
  BY <1>1, CabezaDisp
<1>3. PICK h \in PID : h = Head(cola_io).pid /\ h # corre
  BY <1>1, CabezaDisp
<1>4. /\ dfs # <<>> /\ f = dfs[1] /\ f \in Fragmento /\ Final(dfs) \in Nat
      /\ f.dl + f.tam <= Final(dfs)
      /\ Tail(dfs) # <<>> => Tail(dfs)[1].dl = f.dl + f.tam
      /\ Tail(dfs) = <<>> => Final(dfs) = f.dl + f.tam
  BY <1>2, PedidoTail
<1>5. f.dl \in Nat /\ f.tam \in Nat
  BY <1>4 DEF Fragmento
<1>6. /\ teclado \in Seq(Bytes) /\ Len(teclado) \in Nat
      /\ Len(teclado) = Final(dfs) - f.dl
  <2>1. Len(teclado) = Final(dfs) - dfs[1].dl - 0
    BY <1>0, <1>1 DEF TecladoOK
  <2>2. teclado \in Seq(Bytes) /\ Len(teclado) \in Nat
    BY <1>0, LenProperties DEF TecladoOK
  <2> HIDE DEF f, dfs
  <2> QED
    BY <1>4, <1>5, <2>1, <2>2
<1>7. Vale(h, f)
  <2>1. 1 \in 1..Len(cola_io) /\ Head(cola_io) = cola_io[1]
    BY <1>0, <1>1, EmptySeq, LenProperties DEF ColaOK
  <2>2. ValeTodo(cola_io[1].pid, cola_io[1].dfs)
    BY <2>1 DEF VigenteInv
  <2>3. ValeTodo(h, dfs)
    BY <1>3, <2>1, <2>2
  <2>4. 1 \in 1..Len(dfs)
    BY <1>2, <1>4, EmptySeq, LenProperties
  <2> QED
    BY <1>4, <2>3, <2>4 DEF ValeTodo
<1>8. \A q \in PID \ {h} : PedidoDe(q)' = PedidoDe(q)
  BY <1>1, <1>3 DEF PedidoDe, PedidoCPU
<1>9. PedidoDe(h) = Texto(f.dl, teclado)
  BY <1>1, <1>3, <1>4, PedidoCabeza DEF PedidoDisp, Texto
<1>10. escrito' # SinMarca
  <2>1. DOMAIN escrito' = {"marco", "byte"} /\ DOMAIN SinMarca = {"marco"}
    BY <1>1 DEF SinMarca
  <2> QED
    BY <2>1
<1>11. PedidoDe(h)' = IF r # <<>> THEN Texto(Tail(dfs)[1].dl, r) ELSE <<>>
  BY <1>1, <1>3, <1>10 DEF PedidoDe, PedidoDisp, Texto
<1>12. f.tam <= Len(teclado) /\ (Tail(dfs) = <<>> => f.tam = Len(teclado))
       /\ Len(r) = Len(teclado) - f.tam
  <2>1. f.tam <= Len(teclado) /\ (Tail(dfs) = <<>> => f.tam = Len(teclado))
    <3> DEFINE x == Final(dfs)
               u == f.dl
               v == f.tam
               l == Len(teclado)
    <3>1. /\ x \in Nat /\ u \in Nat /\ v \in Nat /\ l \in Nat
          /\ u + v <= x /\ l = x - u
          /\ Tail(dfs) = <<>> => x = u + v
      BY <1>4, <1>5, <1>6
    <3> HIDE DEF f, dfs, x, u, v, l
    <3>2. v <= l /\ (x = u + v => v = l)
      BY <3>1
    <3> QED
      BY <3>1, <3>2 DEF v, l
  <2>2. f.tam \in Nat \ {0}
    BY <1>4 DEF Fragmento
  <2> QED
    BY <1>6, <2>1, <2>2, TextoPartido
<1>13. \/ PedidoDe(h)' = Texto(f.dl + f.tam, r)
       \/ f.tam = Len(teclado) /\ PedidoDe(h)' = <<>>
  <2>1. CASE Tail(dfs) = <<>>
    <3>1. Len(r) = 0
      <4> HIDE DEF r, f
      <4> QED
        BY <1>5, <1>12, <2>1
    <3>2. r = <<>>
      <4>1. r \in Seq(Bytes)
        <5>1. f.tam \in Nat \ {0}
          BY <1>4 DEF Fragmento
        <5> QED
          BY <1>6, <1>12, <5>1, TextoPartido
      <4> QED
        BY <3>1, <4>1, EmptySeq
    <3> QED
      BY <1>11, <1>12, <2>1, <3>2
  <2>2. CASE Tail(dfs) # <<>> /\ r # <<>>
    BY <1>4, <1>11, <2>2
  <2>3. CASE Tail(dfs) # <<>> /\ r = <<>>
    <3> HIDE DEF r, f
    <3>1. Len(r) = 0
      BY <2>3
    <3>2. f.tam = Len(teclado)
      BY <1>5, <1>6, <1>12, <3>1
    <3> QED
      BY <1>11, <2>3, <3>2
  <2> QED
    BY <2>1, <2>2, <2>3
<1> HIDE DEF dfs, f
<1>14. /\ fisica' = MemoriaCon(f.df, SubSeq(teclado, 1, f.tam))
       /\ tabla' = tabla
       /\ f \in Fragmento
  BY <1>1, <1>4
<1> QED
  BY <1>0, <1>6, <1>7, <1>8, <1>9, <1>12, <1>13, <1>14, EscribeTexto

-----------------------------------------------------------------------------
(* Every step, and the beginning *)

(* The steps that only move the process or the cursor of an access. *)
LEMMA PrivadoCpu ==
  ASSUME TipoInv,
         \/ \E p \in PID : Despacha(p)
         \/ Deja \/ RespuestaResize \/ MOV_IN \/ COPY_STRING \/ IO
         \/ \E tamanio \in Nat : RESIZE(tamanio)
         \/ UNCHANGED mem_vars
  PROVE  PasoPrivado
<1>0. SinAcceso.op \notin Escritoras
  BY DEF SinAcceso, Escritoras
<1>1. ASSUME NEW p \in PID, Despacha(p) PROVE PasoPrivado
  <2>1. /\ acceso' = acceso /\ UNCHANGED <<tabla, fisica, io_vars>>
        /\ corre = Nadie
    BY <1>1 DEF Despacha, pag_vars
  <2>2. acceso = SinAcceso
    BY <2>1, SistemaAssumption DEF TipoInv, CpuOK
  <2> QED
    BY <1>0, <2>1, <2>2, PrivadoQuieto
<1>2. CASE Deja
  <2>1. /\ acceso' = SinAcceso /\ acceso = SinAcceso
        /\ UNCHANGED <<tabla, fisica, io_vars>>
    BY <1>2 DEF Deja, pag_vars
  <2> QED
    BY <1>0, <2>1, PrivadoQuieto
<1>3. CASE RespuestaResize
  <2>1. /\ acceso' = SinAcceso /\ acceso.op = "RESIZE"
        /\ UNCHANGED <<tabla, fisica, io_vars>>
    BY <1>3 DEF RespuestaResize, pag_vars
  <2>2. acceso.op \notin Escritoras
    BY <2>1 DEF Escritoras
  <2> QED
    BY <1>0, <2>1, <2>2, PrivadoQuieto
<1>4. ASSUME NEW op \in {"MOV_IN", "COPY_LEE", "IO"}, NEW dl, NEW tam, NEW di,
             Empieza(Acceso(op, dl, tam, <<>>, di))
      PROVE  PasoPrivado
  <2>1. /\ acceso = SinAcceso /\ acceso' = Acceso(op, dl, tam, <<>>, di)
        /\ UNCHANGED <<tabla, fisica, io_vars>>
    BY <1>4 DEF Empieza, pag_vars
  <2>2. acceso'.op \notin Escritoras
    BY <2>1 DEF Acceso, Escritoras
  <2> QED
    BY <1>0, <2>1, <2>2, PrivadoQuieto
<1>5. CASE MOV_IN
  BY <1>4, <1>5 DEF MOV_IN
<1>6. CASE COPY_STRING
  BY <1>4, <1>6 DEF COPY_STRING
<1>7. CASE IO
  BY <1>4, <1>7 DEF IO
<1>8. ASSUME NEW tamanio \in Nat, RESIZE(tamanio) PROVE PasoPrivado
  <2>1. acceso = SinAcceso /\ UNCHANGED <<tabla, fisica, io_vars>>
    BY <1>8 DEF RESIZE, pag_vars
  <2>2. acceso'.op \notin Escritoras
    BY <1>0, <1>8 DEF RESIZE, SinMemoria, Escritoras
  <2> QED
    BY <1>0, <2>1, <2>2, PrivadoQuieto
<1>9. CASE UNCHANGED mem_vars
  BY <1>9, PrivadoQuieto DEF mem_vars, pag_vars, cpu_vars
<1> QED
  BY <1>1, <1>2, <1>3, <1>5, <1>6, <1>7, <1>8, <1>9

(* The translation and the reads. *)
LEMMA PrivadoTraduce == ASSUME TipoInv, Traduce \/ Lee PROVE PasoPrivado
<1>0. CpuOK
  BY DEF TipoInv
<1>1. /\ acceso.op \in Lectoras \union Escritoras \union {"IO"}
      /\ UNCHANGED <<tabla, fisica, io_vars, corre>>
  BY DEF Traduce, Lee, Traduciendo, Traducida, pag_vars
<1>2. acceso \in Accesos
  BY <1>0, <1>1, EnAcceso
<1>3. CASE Traduce
  <2>1. PICK dl, tam, df : acceso' = [acceso EXCEPT
             !.dl = @ + tam, !.resta = @ - tam,
             !.dfs = Append(@, [dl |-> dl, df |-> df, tam |-> tam])]
    BY <1>3 DEF Traduce
  <2>2. /\ acceso'.op = acceso.op
        /\ acceso'.inicio = acceso.inicio /\ acceso'.dato = acceso.dato
    BY <1>2, <2>1 DEF Accesos
  <2> QED
    BY <1>1, <2>2, PrivadoQuieto
<1>4. CASE Lee
  <2>1. PICK leido :
             acceso' = [acceso EXCEPT !.dfs = Tail(@), !.dato = @ \o leido]
    BY <1>4 DEF Lee
  <2>2. acceso'.op = acceso.op
    BY <1>2, <2>1 DEF Accesos
  <2>3. acceso.op \notin Escritoras
    BY <1>4 DEF Lee, Lectoras, Escritoras
  <2> QED
    BY <1>1, <2>2, <2>3, PrivadoQuieto
<1> QED
  BY <1>3, <1>4

(* Every step of memory, CPU and device is one of the private memories. *)
LEMMA PrivadoPaso ==
  ASSUME TipoInv, VigenteInv, TablasDisjuntas, [MemNext]_mem_vars
  PROVE  PasoPrivado
<1>1. ASSUME NEW p \in PID, Crear(p) \/ Fin(p) \/ Despacha(p) PROVE PasoPrivado
  BY <1>1, PrivadoVida, PrivadoCpu
<1>2. CASE \/ Deja \/ MOV_IN \/ COPY_STRING \/ IO \/ RespuestaResize
           \/ UNCHANGED mem_vars
  BY <1>2, PrivadoCpu
<1>3. ASSUME NEW tamanio \in 0..((CantMarcos + 1) * TamPagina), RESIZE(tamanio)
      PROVE  PasoPrivado
  <2>1. tamanio \in Nat
    BY PaginacionAssumption
  <2> QED
    BY <1>3, <2>1, PrivadoCpu
<1>4. CASE MOV_OUT \/ AjustaPagina \/ TerminaLectura
  BY <1>4, PrivadoMovOut, PrivadoAjusta, PrivadoTermina
<1>5. CASE Traduce \/ Lee \/ Escribe
  BY <1>5, PrivadoTraduce, PrivadoEscribe
<1>6. CASE Bloquea \/ DispLee \/ DispTeclado \/ DispEscribe \/ DispMarca
  BY <1>6, PrivadoBloquea, PrivadoSiguiente, PrivadoDispTeclado,
         PrivadoDispEscribe
<1> QED
  BY <1>1, <1>2, <1>3, <1>4, <1>5, <1>6 DEF MemNext

(* At the beginning nobody has memory. *)
LEMMA PrivadoInicial == ASSUME MemInit PROVE Privado!EPInit
<1>1. \A p \in PID : tabla[p] = <<>>
  BY DEF MemInit, PagInit
<1>2. \A p \in PID : PedidoDe(p) = <<>>
  <2>1. acceso.op \notin Escritoras /\ teclado = <<>>
    BY DEF MemInit, SinAcceso, Escritoras
  <2> QED
    BY <2>1 DEF PedidoDe
<1>3. ASSUME NEW p \in PID PROVE EspacioDe(p) = <<>>
  <2>1. Tamanio(p) = 0
    <3>1. Len(tabla[p]) = 0
      BY <1>1
    <3> QED
      BY <3>1, PaginacionAssumption DEF Tamanio
  <2>2. EspacioDe(p) = [k \in 1..Tamanio(p) |-> EspacioDe(p)[k]]
    BY DEF EspacioDe
  <2>3. 1..Tamanio(p) = {}
    BY <2>1
  <2> QED
    BY <2>2, <2>3, FuncionVacia
<1> QED
  BY <1>2, <1>3 DEF Privado!EPInit

(***************************************************************************)
(* Paging, MMU and the device implement private memories: a write lands    *)
(* where the program asked, in its own memory and in no other (cpu/mmu.c,  *)
(* memoria and the loops of leerMemoria and escribirMemoria), as long as   *)
(* RESIZE and a device do not race for a byte of the bitmap and no         *)
(* process that has entries in the TLB gives pages back.                   *)
(***************************************************************************)
THEOREM EspaciosPrivadosSiempre ==
  ASSUME SinCarrera, SinTLBVieja PROVE MemSpec => EspaciosPrivados
<1>1. MemInit => Privado!EPInit
  BY PrivadoInicial
<1>2. MemoriaInv /\ [MemNext]_mem_vars => PasoPrivado
  BY PrivadoPaso DEF MemoriaInv, MarcosInv
<1>3. MemoriaInv /\ [MemNext]_mem_vars =>
           [Privado!EPNext]_<<Espacios, Escrituras>>
  BY <1>2 DEF PasoPrivado
<1> QED
  BY <1>1, <1>3, MemoriaInvSiempre, PTL
     DEF MemSpec, EspaciosPrivados, Privado!EPSpec, Espacios, Escrituras

=============================================================================
