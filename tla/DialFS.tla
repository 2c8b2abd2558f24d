------------------------------- MODULE DialFS -------------------------------
(***************************************************************************)
(* The DialFS device (entradasalida/src/filesystem.c and the IO_FS_* cases *)
(* of main.c): contiguous files on a disk of blocks, a bitmap of blocks    *)
(* and a metadata file (FCB) for each file.  The device serves one request *)
(* at a time; a compaction takes one step per file it moves.  The three    *)
(* are files of the host: a device that ends in the middle of a request    *)
(* finds them as they are when it is started again.                        *)
(*                                                                         *)
(* The content of a block is one value, sizes are in bytes, and a metadata *)
(* file is written in one piece.  IO_FS_READ changes nothing here and is   *)
(* left out.                                                               *)
(***************************************************************************)
EXTENDS Integers, SequencesExt, FiniteSetsExt

CONSTANTS
    Nombres,     \* the names programs give to files
    CantBloques, \* config->block_count
    TamBloque,   \* config->block_size
    TamMaximo,   \* bound: the largest size a program asks for
    Datos,       \* the contents of a block
    MaxPedidos,  \* bound: requests in a behaviour
    MaxReinicios \* bound: times the device is started again

ASSUME DialAssumption ==
    /\ CantBloques \in Nat \ {0} /\ TamBloque \in Nat \ {0} /\ TamMaximo \in Nat
    /\ MaxPedidos \in Nat /\ MaxReinicios \in Nat

VARIABLES
    fcb,     \* the metadata: of each file, bloque_inicial and size
    bitmap,  \* the blocks marked as occupied, bits past the end included
    disco,   \* bloques.dat
    trabajo, \* the growth that is compacting, SinTrabajo otherwise
    pedidos, \* requests so far
    reinicios \* times the device was started again

dial_vars == <<fcb, bitmap, disco, trabajo, pedidos, reinicios>>

Bloques == 0..(CantBloques - 1)
SinTrabajo == [archivo |-> "", lista |-> <<>>]
Archivos == DOMAIN fcb

(* calcular_bloques_necesarios *)
Necesarios(size) == Max({1, (size + TamBloque - 1) \div TamBloque})

Cantidad(f) == Necesarios(f.size)
BloquesDe(f) == f.bloque_inicial..(f.bloque_inicial + Cantidad(f) - 1)

DialTypeOK ==
    /\ Archivos \subseteq Nombres
    /\ \A n \in Archivos : fcb[n] \in [bloque_inicial : Bloques, size : 0..TamMaximo]
    /\ bitmap \subseteq Nat
    /\ disco \in [Bloques -> Datos]
    /\ pedidos \in 0..MaxPedidos
    /\ reinicios \in 0..MaxReinicios

(* crear_bitmap and generar_archivo_bloques: bloques.dat may be an old one. *)
DialInit ==
    /\ fcb = <<>>
    /\ bitmap = {}
    /\ disco \in [Bloques -> Datos]
    /\ trabajo = SinTrabajo
    /\ pedidos = 0
    /\ reinicios = 0

(* The files are apart, inside the disk and marked in the bitmap. *)
Consistente ==
    /\ \A n \in Archivos : BloquesDe(fcb[n]) \subseteq Bloques \intersect bitmap
    /\ \A n, m \in Archivos :
           n # m => BloquesDe(fcb[n]) \intersect BloquesDe(fcb[m]) = {}

Ocioso == trabajo = SinTrabajo /\ pedidos < MaxPedidos

(* bitmap_encontrar_bloque_libre looks for the first of these. *)
Libres == Bloques \ bitmap

(* crear_archivo: the metadata file is written anew. *)
ConFCB(n, bloque, size) ==
    [m \in Archivos \union {n} |->
        IF m = n THEN [bloque_inicial |-> bloque, size |-> size] ELSE fcb[m]]

-----------------------------------------------------------------------------
(* IO_FS_CREATE: a file without bytes has a block.  The code has no check  *)
(* for a full disk or an existing name: programs avoid both.               *)
IO_FS_CREATE(n) ==
    /\ Ocioso
    /\ n \notin Archivos
    /\ Libres # {}
    /\ LET bloque == Min(Libres) IN
       /\ bitmap' = bitmap \union {bloque}
       /\ fcb' = ConFCB(n, bloque, 0)
    /\ pedidos' = pedidos + 1
    /\ UNCHANGED <<disco, trabajo, reinicios>>

(* IO_FS_DELETE *)
IO_FS_DELETE(n) ==
    /\ Ocioso
    /\ n \in Archivos
    /\ bitmap' = bitmap \ BloquesDe(fcb[n])
    /\ fcb' = [m \in Archivos \ {n} |-> fcb[m]]
    /\ pedidos' = pedidos + 1
    /\ UNCHANGED <<disco, trabajo, reinicios>>

(* IO_FS_WRITE of one block of a file, inside the file and the disk. *)
IO_FS_WRITE(n, k, dato) ==
    /\ Ocioso
    /\ n \in Archivos
    /\ k \in BloquesDe(fcb[n]) \intersect Bloques
    /\ disco' = [disco EXCEPT ![k] = dato]
    /\ pedidos' = pedidos + 1
    /\ UNCHANGED <<fcb, bitmap, trabajo, reinicios>>

(* Mutant: the last block that stays is given back too. *)
SobrantesUnoMas(f, tamanio) ==
    {f.bloque_inicial + k : k \in (Necesarios(tamanio) - 1)..(Cantidad(f) - 1)}

(* The blocks achicar_archivo gives back. *)
Sobrantes(f, tamanio) ==
    {f.bloque_inicial + k : k \in Necesarios(tamanio)..(Cantidad(f) - 1)}

(* IO_FS_TRUNCATE, achicar_archivo *)
Achica(n, tamanio) ==
    /\ Ocioso
    /\ n \in Archivos
    /\ fcb[n].size >= tamanio
    /\ bitmap' = bitmap \ Sobrantes(fcb[n], tamanio)
    /\ fcb' = ConFCB(n, fcb[n].bloque_inicial, tamanio)
    /\ pedidos' = pedidos + 1
    /\ UNCHANGED <<disco, trabajo, reinicios>>

-----------------------------------------------------------------------------
(* IO_FS_TRUNCATE, agrandar_archivo *)

(* The blocks agrandar_archivo marks, counted from where the file was. *)
Nuevos(f, tamanio) ==
    {f.bloque_inicial + k : k \in Cantidad(f)..(Necesarios(tamanio) - 1)}

(* hay_espacio_contiguo; bits past the end of the disk begin as 0. *)
HayEspacioContiguo(f, tamanio) == Nuevos(f, tamanio) \intersect bitmap = {}

(* Mutant: tamanio is taken for what the file grows by. *)
AgrandaEnLugarSuma(n, tamanio) ==
    /\ Ocioso
    /\ n \in Archivos
    /\ fcb[n].size < tamanio
    /\ HayEspacioContiguo(fcb[n], tamanio)
    /\ bitmap' = bitmap \union Nuevos(fcb[n], tamanio)
    /\ fcb' = ConFCB(n, 0, fcb[n].size + tamanio)
    /\ pedidos' = pedidos + 1
    /\ UNCHANGED <<disco, trabajo, reinicios>>

(* Growth in place: nuevo_bloque_inicial is the 0 it was declared with. *)
AgrandaEnLugar(n, tamanio) ==
    /\ Ocioso
    /\ n \in Archivos
    /\ fcb[n].size < tamanio
    /\ HayEspacioContiguo(fcb[n], tamanio)
    /\ bitmap' = bitmap \union Nuevos(fcb[n], tamanio)
    /\ fcb' = ConFCB(n, 0, tamanio)
    /\ pedidos' = pedidos + 1
    /\ UNCHANGED <<disco, trabajo, reinicios>>

(* leer_directorio: by first block; files with the same one in any order. *)
LeerDirectorio(nombres) ==
    {lista \in Bijection(1..Cardinality(nombres), nombres) :
        \A j, k \in DOMAIN lista : j < k =>
            fcb[lista[j]].bloque_inicial <= fcb[lista[k]].bloque_inicial}

(* Bound: the files fit in the disk once n has grown, and none of them is  *)
(* past its end, where the code would read what was never written.         *)
Entra(n, tamanio) ==
    /\ FoldSet(LAMBDA m, s : s + Cantidad(fcb[m]), Necesarios(tamanio), Archivos \ {n})
           <= CantBloques
    /\ \A m \in Archivos : BloquesDe(fcb[m]) \subseteq Bloques

(* A sound disk in which the files to be moved have one block each. *)
Sano(n) == Consistente /\ \A m \in Archivos \ {n} : Cantidad(fcb[m]) = 1

(***************************************************************************)
(* compactar begins: the content of the file is read, its blocks are free, *)
(* and the files with another first block will be moved.  buscar_fcb finds *)
(* some file with the same first block, in a sound disk the file itself.   *)
(***************************************************************************)
EmpiezaCompactar(n, tamanio) ==
    /\ Ocioso
    /\ n \in Archivos
    /\ fcb[n].size < tamanio
    /\ ~HayEspacioContiguo(fcb[n], tamanio)
    /\ Entra(n, tamanio)
    /\ \E m \in Archivos :
        LET f == fcb[m]
            otros == {x \in Archivos : fcb[x].bloque_inicial # f.bloque_inicial}
        IN /\ f.bloque_inicial = fcb[n].bloque_inicial
           /\ bitmap' = bitmap \ BloquesDe(f)
           /\ \E lista \in LeerDirectorio(otros) :
                trabajo' = [archivo |-> n, tamanio |-> tamanio, sano |-> Sano(n),
                            lista |-> lista,
                            contenido |-> [k \in 1..Cantidad(f) |->
                                              disco[f.bloque_inicial + k - 1]]]
    /\ pedidos' = pedidos + 1
    /\ UNCHANGED <<fcb, disco, reinicios>>

(* buscar_contenido_de *)
Contenido(n) ==
    [k \in 1..Cantidad(fcb[n]) |-> disco[fcb[n].bloque_inicial + k - 1]]

(* escribir_en_archivo of whole blocks from bloque; past the end it grows  *)
(* the file bloques.dat, which nobody reads.                               *)
DiscoCon(bloque, contenido) ==
    [b \in Bloques |-> IF b \in bloque..(bloque + Len(contenido) - 1)
                       THEN contenido[b - bloque + 1] ELSE disco[b]]

(* The blocks copiar_contenido_a marks: bitmap_marcar_bloques_ocupados     *)
(* gets a number of blocks where it takes the last block.                  *)
MarcasDe(bloque, cantidad) ==
    IF cantidad = 1 THEN {bloque} ELSE bloque..cantidad

(* Mutant: the marks are made before the old blocks are freed. *)
MueveArchivoMarcaAntes ==
    /\ trabajo # SinTrabajo
    /\ trabajo.lista # <<>>
    /\ LET n == Head(trabajo.lista)
           contenido == Contenido(n)
           libres == Libres \union BloquesDe(fcb[n])
           bloque == Min(libres)
       IN /\ disco' = DiscoCon(bloque, contenido)
          /\ bitmap' = (bitmap \union MarcasDe(bloque, Len(contenido))) \ BloquesDe(fcb[n])
          /\ fcb' = ConFCB(n, bloque, fcb[n].size)
    /\ trabajo' = [trabajo EXCEPT !.lista = Tail(@)]
    /\ UNCHANGED <<pedidos, reinicios>>

(* A turn of the loop of compactar. *)
MueveArchivo ==
    /\ trabajo # SinTrabajo
    /\ trabajo.lista # <<>>
    /\ LET n == Head(trabajo.lista)
           contenido == Contenido(n)
           libres == Libres \union BloquesDe(fcb[n])
           bloque == Min(libres)
       IN /\ disco' = DiscoCon(bloque, contenido)
          /\ bitmap' = (bitmap \ BloquesDe(fcb[n])) \union MarcasDe(bloque, Len(contenido))
          /\ fcb' = ConFCB(n, bloque, fcb[n].size)
    /\ trabajo' = [trabajo EXCEPT !.lista = Tail(@)]
    /\ UNCHANGED <<pedidos, reinicios>>

(* The file that grows is copied last; the marks of its new blocks go      *)
(* where it was before, for fcb->bloque_inicial still has the old value.   *)
(* Behaviours end where no block is free: the copy would go to block -1.   *)
TerminaCompactar ==
    /\ trabajo # SinTrabajo
    /\ trabajo.lista = <<>>
    /\ Libres # {}
    /\ LET bloque == Min(Libres)
           viejo == fcb[trabajo.archivo]
       IN /\ disco' = DiscoCon(bloque, trabajo.contenido)
          /\ bitmap' = bitmap \union MarcasDe(bloque, Len(trabajo.contenido))
                              \union Nuevos(viejo, trabajo.tamanio)
          /\ fcb' = ConFCB(trabajo.archivo, bloque, trabajo.tamanio)
    /\ trabajo' = SinTrabajo
    /\ UNCHANGED <<pedidos, reinicios>>

-----------------------------------------------------------------------------
(***************************************************************************)
(* The device ends in the middle of a request and is started again:        *)
(* crear_bitmap and generar_archivo_bloques keep what they find.           *)
(***************************************************************************)

Reinicia ==
    /\ reinicios < MaxReinicios
    /\ reinicios' = reinicios + 1

(* Mutant: IO_FS_CREATE writes the metadata before it marks the block. *)
CaeEntreMarcasMetadataAntes ==
    /\ Ocioso
    /\ Reinicia
    /\ \E n \in Nombres \ Archivos :
        /\ Libres # {}
        /\ fcb' = ConFCB(n, Min(Libres), 0)
    /\ pedidos' = pedidos + 1
    /\ UNCHANGED <<bitmap, disco, trabajo>>

(* After some of the marks of a request in the bitmap, each with its       *)
(* msync, and before the metadata: IO_FS_CREATE, IO_FS_DELETE (from the    *)
(* first block on), achicar_archivo (from the last), agrandar_archivo.     *)
CaeEntreMarcas ==
    /\ Ocioso
    /\ Reinicia
    /\ \E n \in Nombres :
        \/ /\ n \notin Archivos
           /\ Libres # {}
           /\ bitmap' = bitmap \union {Min(Libres)}
        \/ /\ n \in Archivos
           /\ \E k \in BloquesDe(fcb[n]) :
                  bitmap' = bitmap \ (fcb[n].bloque_inicial..k)
        \/ /\ n \in Archivos
           /\ \E tamanio \in 0..fcb[n].size :
              LET sobrantes == Sobrantes(fcb[n], tamanio) IN
              \E k \in sobrantes : bitmap' = bitmap \ {s \in sobrantes : s >= k}
        \/ /\ n \in Archivos
           /\ \E tamanio \in (fcb[n].size + 1)..TamMaximo :
              LET nuevos == Nuevos(fcb[n], tamanio) IN
              /\ HayEspacioContiguo(fcb[n], tamanio)
              /\ \E k \in nuevos : bitmap' = bitmap \union {s \in nuevos : s <= k}
    /\ pedidos' = pedidos + 1
    /\ UNCHANGED <<fcb, disco, trabajo>>

(* Inside compactar: before a turn, or in it after the old blocks are      *)
(* free, after the copy, or after its marks, the metadata still being old. *)
CaeCompactando ==
    /\ trabajo # SinTrabajo
    /\ Reinicia
    /\ \/ UNCHANGED <<bitmap, disco>>
       \/ \E copiado, marcado \in BOOLEAN :
           LET ultimo == trabajo.lista = <<>>
               viejos == IF ultimo THEN {} ELSE BloquesDe(fcb[Head(trabajo.lista)])
               contenido == IF ultimo THEN trabajo.contenido
                            ELSE Contenido(Head(trabajo.lista))
               bloque == Min(Libres \union viejos)
           IN /\ Libres \union viejos # {}
              /\ marcado => copiado
              /\ disco' = IF copiado THEN DiscoCon(bloque, contenido) ELSE disco
              /\ bitmap' = (bitmap \ viejos) \union
                    (IF marcado THEN MarcasDe(bloque, Len(contenido)) ELSE {})
    /\ trabajo' = SinTrabajo
    /\ UNCHANGED <<fcb, pedidos>>

-----------------------------------------------------------------------------
DialNext ==
    \/ \E n \in Nombres : IO_FS_CREATE(n) \/ IO_FS_DELETE(n)
    \/ \E n \in Nombres, k \in Bloques, dato \in Datos : IO_FS_WRITE(n, k, dato)
    \/ \E n \in Nombres, tamanio \in 0..TamMaximo :
           Achica(n, tamanio) \/ AgrandaEnLugar(n, tamanio) \/ EmpiezaCompactar(n, tamanio)
    \/ MueveArchivo
    \/ TerminaCompactar
    \/ CaeEntreMarcas
    \/ CaeCompactando

DialSpec == DialInit /\ [][DialNext]_dial_vars

-----------------------------------------------------------------------------
(***************************************************************************)
(* A compaction that begins in a sound disk keeps the content of the files *)
(* of one block that it moves, and of the file that grows: leer_directorio *)
(* gives them by place, each one is read before it is written, and what is *)
(* marked after a copy is not written again.  If the device ends before    *)
(* the compaction does, the file that grows may lose its content, for only *)
(* the device had it, and the others still do not.  Of a moved file of     *)
(* several blocks this is not so, see MarcasDe.                            *)
(***************************************************************************)
CompactarConserva ==
    [][ trabajo # SinTrabajo /\ trabajo.sano =>
            /\ \A n \in Archivos \ {trabajo.archivo} :
                   /\ n \in DOMAIN fcb'
                   /\ fcb'[n].size = fcb[n].size
                   /\ Contenido(n)' = Contenido(n)
            /\ \A n \in DOMAIN fcb' :
                   /\ n = trabajo.archivo
                   /\ trabajo' = SinTrabajo
                   /\ reinicios' = reinicios
                   /\ (BloquesDe(fcb[n]) \subseteq Bloques)'
                   => SubSeq(Contenido(n)', 1, Len(trabajo.contenido)) = trabajo.contenido
      ]_dial_vars

Marcados == UNION {BloquesDe(fcb[n]) : n \in Archivos}

Crece == \E n \in Archivos \intersect DOMAIN fcb' : fcb'[n].size > fcb[n].size

(* Until a file grows, requests keep a sound disk sound, and no block is   *)
(* left marked without a file (marcar_bloques_libres, achicar_archivo).    *)
SinBloquePerdido ==
    [][ Ocioso /\ Consistente /\ trabajo' = SinTrabajo /\ ~Crece
            /\ reinicios' = reinicios =>
            /\ Consistente'
            /\ bitmap = Marcados => bitmap' = Marcados' ]_dial_vars

(* A device that ends in the middle of a request and is started again may  *)
(* leave a sound disk unsound only where blocks are given back, for they   *)
(* are free before the metadata forgets them (main.c:138, filesystem.c:298):*)
(* then a later file takes them too.  Where blocks are taken it never does.*)
CaidaSana ==
    [][ Ocioso /\ Consistente /\ reinicios' # reinicios =>
            Consistente' \/ (bitmap' # bitmap /\ bitmap' \subseteq bitmap) ]_dial_vars

=============================================================================
