---------------------------- MODULE DialFS_proofs ----------------------------
(***************************************************************************)
(* Proofs about DialFS, for any names, contents, sizes of the disk and of  *)
(* its blocks, and any number of requests and restarts.                    *)
(*                                                                         *)
(* The inductive invariant has a part about types and a part about a       *)
(* compaction that began in a sound disk: the files that are yet to be     *)
(* moved are in the order of their blocks, and every file that was moved   *)
(* lies before all of them and before all free blocks.  This is what lets  *)
(* the file that grows be copied, in one go, over the blocks from the      *)
(* first free one on.                                                      *)
(***************************************************************************)
EXTENDS DialFS, Colas_lemas, FiniteSetTheorems

FCBs == [bloque_inicial : Bloques, size : 0..TamMaximo]

Trabajos ==
    [archivo : Nombres, tamanio : 0..TamMaximo, sano : BOOLEAN,
     lista : Seq(Nombres), contenido : Seq(Datos)]

Compacta == trabajo # SinTrabajo

DialTipo ==
    /\ Archivos \subseteq Nombres /\ IsFiniteSet(Archivos)
    /\ \A n \in Archivos : fcb[n] \in FCBs
    /\ bitmap \subseteq Nat
    /\ disco \in [Bloques -> Datos]
    /\ Compacta => trabajo \in Trabajos
    /\ pedidos \in 0..MaxPedidos
    /\ reinicios \in 0..MaxReinicios

Pendientes == 1..Len(trabajo.lista)

(* The files to be moved are there, once each, and end inside the disk. *)
ListaOK ==
    /\ trabajo.archivo \in Archivos
    /\ \A k \in Pendientes :
           /\ trabajo.lista[k] \in Archivos
           /\ BloquesDe(fcb[trabajo.lista[k]]) \subseteq Bloques
    /\ \A j, k \in Pendientes : trabajo.lista[j] = trabajo.lista[k] => j = k

Otros == Archivos \ {trabajo.archivo}

Inicio(n) == fcb[n].bloque_inicial

(* The files but the one that grows have a block each, a marked one. *)
OtrosApartados ==
    /\ \A n \in Otros : Cantidad(fcb[n]) = 1 /\ Inicio(n) \in bitmap
    /\ \A n, m \in Otros : Inicio(n) = Inicio(m) => n = m

Movido(n) == \A k \in Pendientes : trabajo.lista[k] # n

EnOrden ==
    /\ \A k \in Pendientes : trabajo.lista[k] # trabajo.archivo
    /\ \A j, k \in Pendientes :
           j < k => Inicio(trabajo.lista[j]) < Inicio(trabajo.lista[k])
    /\ \A n \in Otros : Movido(n) =>
           /\ \A b \in Libres : Inicio(n) < b
           /\ \A k \in Pendientes : Inicio(n) < Inicio(trabajo.lista[k])

(* What the device holds of the file that grows is all of it. *)
Guardado ==
    /\ Len(trabajo.contenido) = Cantidad(fcb[trabajo.archivo])
    /\ fcb[trabajo.archivo].size < trabajo.tamanio

DialInv ==
    /\ DialTipo
    /\ Compacta => ListaOK
    /\ Compacta /\ trabajo.sano => OtrosApartados /\ EnOrden /\ Guardado

-----------------------------------------------------------------------------
(* How many blocks a size needs. *)
LEMMA Maximo ==
  ASSUME NEW a \in Int, NEW b \in Int
  PROVE  Max({a, b}) = IF a >= b THEN a ELSE b
<1> DEFINE M == IF a >= b THEN a ELSE b
<1>1. M \in {a, b} /\ \A y \in {a, b} : M >= y
  OBVIOUS
<1>2. \A x \in {a, b} : (\A y \in {a, b} : x >= y) => x = M
  OBVIOUS
<1>3. (CHOOSE x \in {a, b} : \A y \in {a, b} : x >= y) = M
  <2> HIDE DEF M
  <2> QED
    BY <1>1, <1>2
<1> QED
  BY <1>3 DEF Max

LEMMA CocienteMonotono ==
  ASSUME NEW T \in Nat \ {0}, NEW a \in Nat, NEW b \in Nat, a <= b
  PROVE  a \div T \in Nat /\ a \div T <= b \div T
<1>1. /\ a \div T \in Int /\ a = ((a \div T) * T) + (a % T) /\ a % T \in 0..(T - 1)
      /\ b \div T \in Int /\ b = ((b \div T) * T) + (b % T) /\ b % T \in 0..(T - 1)
  OBVIOUS
<1> DEFINE q == a \div T
           r == b \div T
<1>2. q \in Int /\ r \in Int /\ q * T <= b /\ b < (r * T) + T /\ q * T > -T
  BY <1>1
<1> HIDE DEF q, r
<1>3. q <= r
  <2>1. ASSUME r + 1 <= q PROVE FALSE
    <3>1. (q - (r + 1)) * T >= 0
      BY <1>2, <2>1
    <3>2. (q - (r + 1)) * T = (q * T) - ((r * T) + T)
      BY <1>2
    <3> QED
      BY <1>2, <3>1, <3>2
  <2> QED
    BY <1>2, <2>1
<1>4. q >= 0
  <2>1. ASSUME q <= -1 PROVE FALSE
    <3>1. (-1 - q) * T >= 0
      BY <1>2, <2>1
    <3>2. (-1 - q) * T = -T - (q * T)
      BY <1>2
    <3> QED
      BY <1>2, <3>1, <3>2
  <2> QED
    BY <1>2, <2>1
<1> QED
  BY <1>2, <1>3, <1>4 DEF q, r

(* Any size needs a block, a greater one no fewer, and none needs one. *)
LEMMA NecesariosHechos ==
  /\ \A t \in Nat : Necesarios(t) \in Nat \ {0}
  /\ \A s, t \in Nat : s <= t => Necesarios(s) <= Necesarios(t)
  /\ Necesarios(0) = 1
<1> DEFINE C(t) == (t + TamBloque - 1) \div TamBloque
<1>0. TamBloque \in Nat \ {0}
  BY DialAssumption
<1>1. ASSUME NEW s \in Nat, NEW t \in Nat, s <= t
      PROVE  C(s) \in Nat /\ C(s) <= C(t)
  <2>1. /\ s + TamBloque - 1 \in Nat /\ t + TamBloque - 1 \in Nat
        /\ s + TamBloque - 1 <= t + TamBloque - 1
    BY <1>0, <1>1
  <2> QED
    BY <1>0, <2>1, CocienteMonotono
<1>2. C(0) = 0
  <2> DEFINE x == 0 + TamBloque - 1
  <2>1. x \in Nat /\ x <= TamBloque - 1
    BY <1>0
  <2>2. x \div TamBloque \in Nat
    BY <1>0, <2>1, CocienteMonotono
  <2>3. x = ((x \div TamBloque) * TamBloque) + (x % TamBloque) /\ x % TamBloque >= 0
    BY <1>0, <2>1
  <2> DEFINE q == x \div TamBloque
  <2>4. q * TamBloque <= TamBloque - 1
    BY <1>0, <2>1, <2>3
  <2>5. ASSUME q >= 1 PROVE FALSE
    <3>1. (q - 1) * TamBloque >= 0 /\ (q - 1) * TamBloque = (q * TamBloque) - TamBloque
      BY <1>0, <2>2, <2>5
    <3> QED
      BY <1>0, <2>4, <3>1
  <2> QED
    BY <2>2, <2>5
<1>3. ASSUME NEW t \in Nat
      PROVE  /\ C(t) \in Nat
             /\ Necesarios(t) = IF 1 >= C(t) THEN 1 ELSE C(t)
  <2>1. C(t) \in Nat
    BY <1>1
  <2> HIDE DEF C
  <2>2. Max({1, C(t)}) = IF 1 >= C(t) THEN 1 ELSE C(t)
    BY <2>1, Maximo
  <2> QED
    BY <2>1, <2>2 DEF Necesarios, C
<1> HIDE DEF C
<1>4. \A t \in Nat : Necesarios(t) \in Nat \ {0}
  BY <1>3
<1>5. ASSUME NEW s \in Nat, NEW t \in Nat, s <= t
      PROVE  Necesarios(s) <= Necesarios(t)
  BY <1>1, <1>3, <1>5
<1>6. Necesarios(0) = 1
  BY <1>2, <1>3
<1> QED
  BY <1>4, <1>5, <1>6

LEMMA BloquesHechos ==
  ASSUME NEW f \in FCBs
  PROVE  /\ Cantidad(f) \in Nat \ {0}
         /\ f.bloque_inicial \in Nat /\ f.bloque_inicial < CantBloques
         /\ f.size \in Nat /\ f.size <= TamMaximo
         /\ BloquesDe(f) \subseteq Nat
         /\ f.bloque_inicial \in BloquesDe(f)
         /\ Cantidad(f) = 1 => BloquesDe(f) = {f.bloque_inicial}
<1>1. /\ f.bloque_inicial \in Nat /\ f.bloque_inicial < CantBloques
      /\ f.size \in Nat /\ f.size <= TamMaximo
  BY DialAssumption DEF FCBs, Bloques
<1>2. Cantidad(f) \in Nat \ {0}
  BY <1>1, NecesariosHechos DEF Cantidad
<1> QED
  BY <1>1, <1>2 DEF BloquesDe

(* What ConFCB gives. *)
LEMMA ConFCBTipo ==
  ASSUME DialTipo, NEW n \in Nombres, NEW b \in Bloques, NEW s \in 0..TamMaximo,
         fcb' = ConFCB(n, b, s)
  PROVE  /\ Archivos' = Archivos \union {n}
         /\ fcb'[n] = [bloque_inicial |-> b, size |-> s]
         /\ \A m \in Archivos : m # n => fcb'[m] = fcb[m]
         /\ Archivos' \subseteq Nombres /\ IsFiniteSet(Archivos')
         /\ \A m \in Archivos' : fcb'[m] \in FCBs
<1>1. /\ Archivos' = Archivos \union {n}
      /\ fcb'[n] = [bloque_inicial |-> b, size |-> s]
      /\ \A m \in Archivos : m # n => fcb'[m] = fcb[m]
  BY DEF ConFCB, Archivos
<1>2. IsFiniteSet(Archivos) /\ Archivos \subseteq Nombres
  BY DEF DialTipo
<1>3. IsFiniteSet(Archivos')
  BY <1>1, <1>2, FS_AddElement
<1>4. \A m \in Archivos' : fcb'[m] \in FCBs
  <2>1. [bloque_inicial |-> b, size |-> s] \in FCBs
    BY DEF FCBs
  <2>2. \A m \in Archivos : fcb[m] \in FCBs
    BY DEF DialTipo
  <2> QED
    BY <1>1, <2>1, <2>2
<1> QED
  BY <1>1, <1>2, <1>3, <1>4

(* DiscoCon writes blocks of the disk and no others. *)
LEMMA DiscoConHechos ==
  ASSUME DialTipo, NEW bloque \in Nat, NEW contenido \in Seq(Datos)
  PROVE  /\ DiscoCon(bloque, contenido) \in [Bloques -> Datos]
         /\ \A b \in Bloques :
                DiscoCon(bloque, contenido)[b] =
                    IF b \in bloque..(bloque + Len(contenido) - 1)
                    THEN contenido[b - bloque + 1] ELSE disco[b]
<1>1. Len(contenido) \in Nat /\ \A k \in 1..Len(contenido) : contenido[k] \in Datos
  BY LenProperties, ElementOfSeq
<1>2. Bloques \subseteq Nat /\ disco \in [Bloques -> Datos]
  BY DialAssumption DEF Bloques, DialTipo
<1>3. \A b \in Bloques : b \in bloque..(bloque + Len(contenido) - 1) =>
          contenido[b - bloque + 1] \in Datos
  <2> SUFFICES ASSUME NEW b \in Bloques, b \in bloque..(bloque + Len(contenido) - 1)
               PROVE  contenido[b - bloque + 1] \in Datos
    OBVIOUS
  <2>1. b - bloque + 1 \in 1..Len(contenido)
    BY <1>1, <1>2
  <2> QED
    BY <1>1, <2>1
<1> QED
  BY <1>2, <1>3 DEF DiscoCon

(* The content of a file that ends inside the disk. *)
LEMMA ContenidoHechos ==
  ASSUME DialTipo, NEW n \in Archivos, BloquesDe(fcb[n]) \subseteq Bloques
  PROVE  /\ Contenido(n) \in Seq(Datos)
         /\ Len(Contenido(n)) = Cantidad(fcb[n])
<1>1. fcb[n] \in FCBs /\ disco \in [Bloques -> Datos]
  BY DEF DialTipo
<1>2. Cantidad(fcb[n]) \in Nat /\ fcb[n].bloque_inicial \in Nat
  BY <1>1, BloquesHechos
<1>3. ASSUME NEW k \in 1..Cantidad(fcb[n])
      PROVE  disco[fcb[n].bloque_inicial + k - 1] \in Datos
  <2>1. fcb[n].bloque_inicial + k - 1 \in Bloques
    BY <1>2 DEF BloquesDe
  <2> QED
    BY <1>1, <2>1
<1>4. Contenido(n) \in [1..Cantidad(fcb[n]) -> Datos]
  BY <1>3 DEF Contenido
<1> QED
  BY <1>2, <1>4, LenProperties

(* bitmap_encontrar_bloque_libre *)
LEMMA PrimeroLibre ==
  ASSUME NEW S, S \subseteq Nat, S # {}
  PROVE  Min(S) \in S /\ Min(S) \in Nat /\ \A b \in S : Min(S) <= b
  BY MinimoExiste

LEMMA LibresHechos ==
  /\ Libres \subseteq Bloques /\ Bloques \subseteq Nat
  /\ \A b \in Bloques : b \in Libres <=> b \notin bitmap
  BY DialAssumption DEF Libres, Bloques

-----------------------------------------------------------------------------
(* The requests that do not compact. *)
LEMMA DialInitInv == DialInit => DialInv
<1> SUFFICES ASSUME DialInit PROVE DialInv
  OBVIOUS
<1>1. Archivos = {} /\ ~Compacta
  BY DEF DialInit, Archivos, Compacta
<1>2. IsFiniteSet({})
  BY FS_EmptySet
<1>3. DialTipo
  BY <1>1, <1>2, DialAssumption DEF DialInit, DialTipo
<1> QED
  BY <1>1, <1>3 DEF DialInv

LEMMA PideTipo ==
  ASSUME DialTipo, Ocioso, pedidos' = pedidos + 1, reinicios' = reinicios
  PROVE  pedidos' \in 0..MaxPedidos /\ reinicios' \in 0..MaxReinicios
  BY DialAssumption DEF DialTipo, Ocioso

LEMMA OciosoInv ==
  ASSUME trabajo' = SinTrabajo,
         Archivos' \subseteq Nombres, IsFiniteSet(Archivos'),
         \A n \in Archivos' : fcb'[n] \in FCBs,
         bitmap' \subseteq Nat, disco' \in [Bloques -> Datos],
         pedidos' \in 0..MaxPedidos, reinicios' \in 0..MaxReinicios
  PROVE  DialInv'
<1>1. DialTipo'
  BY DEF DialTipo, Compacta
<1> QED
  BY <1>1 DEF DialInv, Compacta

LEMMA IO_FS_CREATEInv ==
  ASSUME DialInv, NEW n \in Nombres, IO_FS_CREATE(n)
  PROVE  DialInv'
<1>0. /\ DialTipo /\ Ocioso /\ trabajo' = SinTrabajo /\ Libres # {}
      /\ bitmap' = bitmap \union {Min(Libres)} /\ fcb' = ConFCB(n, Min(Libres), 0)
      /\ pedidos' = pedidos + 1 /\ reinicios' = reinicios /\ disco' = disco
  BY DEF DialInv, IO_FS_CREATE, Ocioso
<1>1. Min(Libres) \in Bloques /\ Min(Libres) \in Nat
  BY <1>0, LibresHechos, PrimeroLibre
<1>2. 0 \in 0..TamMaximo
  BY DialAssumption
<1>3. /\ Archivos' \subseteq Nombres /\ IsFiniteSet(Archivos')
      /\ \A m \in Archivos' : fcb'[m] \in FCBs
  BY <1>0, <1>1, <1>2, ConFCBTipo
<1>4. bitmap' \subseteq Nat /\ disco' \in [Bloques -> Datos]
  BY <1>0, <1>1 DEF DialTipo
<1> QED
  BY <1>0, <1>3, <1>4, PideTipo, OciosoInv

LEMMA IO_FS_DELETEInv ==
  ASSUME DialInv, NEW n \in Nombres, IO_FS_DELETE(n)
  PROVE  DialInv'
<1>0. /\ DialTipo /\ Ocioso /\ trabajo' = SinTrabajo
      /\ bitmap' = bitmap \ BloquesDe(fcb[n])
      /\ fcb' = [m \in Archivos \ {n} |-> fcb[m]]
      /\ pedidos' = pedidos + 1 /\ reinicios' = reinicios /\ disco' = disco
  BY DEF DialInv, IO_FS_DELETE, Ocioso
<1>1. Archivos' = Archivos \ {n} /\ \A m \in Archivos' : fcb'[m] = fcb[m]
  BY <1>0 DEF Archivos
<1>2. IsFiniteSet(Archivos')
  BY <1>0, <1>1, FS_RemoveElement DEF DialTipo
<1>3. Archivos' \subseteq Nombres /\ \A m \in Archivos' : fcb'[m] \in FCBs
  BY <1>0, <1>1 DEF DialTipo
<1>4. bitmap' \subseteq Nat /\ disco' \in [Bloques -> Datos]
  BY <1>0 DEF DialTipo
<1> QED
  BY <1>0, <1>2, <1>3, <1>4, PideTipo, OciosoInv

LEMMA IO_FS_WRITEInv ==
  ASSUME DialInv, NEW n \in Nombres, NEW k \in Bloques, NEW dato \in Datos,
         IO_FS_WRITE(n, k, dato)
  PROVE  DialInv'
<1>0. /\ DialTipo /\ Ocioso /\ trabajo' = SinTrabajo /\ UNCHANGED <<fcb, bitmap>>
      /\ disco' = [disco EXCEPT ![k] = dato]
      /\ pedidos' = pedidos + 1 /\ reinicios' = reinicios
  BY DEF DialInv, IO_FS_WRITE, Ocioso
<1>1. /\ Archivos' \subseteq Nombres /\ IsFiniteSet(Archivos')
      /\ \A m \in Archivos' : fcb'[m] \in FCBs
  BY <1>0 DEF DialTipo, Archivos
<1>2. bitmap' \subseteq Nat /\ disco' \in [Bloques -> Datos]
  BY <1>0 DEF DialTipo
<1> QED
  BY <1>0, <1>1, <1>2, PideTipo, OciosoInv

LEMMA AchicaInv ==
  ASSUME DialInv, NEW n \in Nombres, NEW tamanio \in 0..TamMaximo, Achica(n, tamanio)
  PROVE  DialInv'
<1>0. /\ DialTipo /\ Ocioso /\ trabajo' = SinTrabajo /\ n \in Archivos
      /\ bitmap' = bitmap \ Sobrantes(fcb[n], tamanio)
      /\ fcb' = ConFCB(n, fcb[n].bloque_inicial, tamanio)
      /\ pedidos' = pedidos + 1 /\ reinicios' = reinicios /\ disco' = disco
  BY DEF DialInv, Achica, Ocioso
<1>1. fcb[n].bloque_inicial \in Bloques
  BY <1>0 DEF DialTipo, FCBs
<1>2. /\ Archivos' \subseteq Nombres /\ IsFiniteSet(Archivos')
      /\ \A m \in Archivos' : fcb'[m] \in FCBs
  BY <1>0, <1>1, ConFCBTipo
<1>3. bitmap' \subseteq Nat /\ disco' \in [Bloques -> Datos]
  BY <1>0 DEF DialTipo
<1> QED
  BY <1>0, <1>2, <1>3, PideTipo, OciosoInv

LEMMA NuevosHechos ==
  ASSUME NEW f \in FCBs, NEW tamanio \in 0..TamMaximo
  PROVE  Nuevos(f, tamanio) \subseteq Nat
  BY BloquesHechos, NecesariosHechos, DialAssumption DEF Nuevos

LEMMA AgrandaEnLugarInv ==
  ASSUME DialInv, NEW n \in Nombres, NEW tamanio \in 0..TamMaximo,
         AgrandaEnLugar(n, tamanio)
  PROVE  DialInv'
<1>0. /\ DialTipo /\ Ocioso /\ trabajo' = SinTrabajo /\ n \in Archivos
      /\ bitmap' = bitmap \union Nuevos(fcb[n], tamanio)
      /\ fcb' = ConFCB(n, 0, tamanio)
      /\ pedidos' = pedidos + 1 /\ reinicios' = reinicios /\ disco' = disco
  BY DEF DialInv, AgrandaEnLugar, Ocioso
<1>1. fcb[n] \in FCBs /\ 0 \in Bloques
  BY <1>0, DialAssumption DEF DialTipo, Bloques
<1>2. /\ Archivos' \subseteq Nombres /\ IsFiniteSet(Archivos')
      /\ \A m \in Archivos' : fcb'[m] \in FCBs
  BY <1>0, <1>1, ConFCBTipo
<1>3. bitmap' \subseteq Nat /\ disco' \in [Bloques -> Datos]
  BY <1>0, <1>1, NuevosHechos DEF DialTipo
<1> QED
  BY <1>0, <1>2, <1>3, PideTipo, OciosoInv

LEMMA CaeEntreMarcasInv ==
  ASSUME DialInv, CaeEntreMarcas
  PROVE  DialInv'
<1>0. /\ DialTipo /\ trabajo = SinTrabajo /\ trabajo' = SinTrabajo
      /\ UNCHANGED <<fcb, disco>>
      /\ reinicios' = reinicios + 1 /\ reinicios < MaxReinicios
      /\ pedidos' = pedidos + 1 /\ pedidos < MaxPedidos
  BY DEF DialInv, CaeEntreMarcas, Ocioso, Reinicia
<1>1. bitmap' \subseteq Nat
  <2>1. \A n \in Archivos, tamanio \in 0..TamMaximo : Nuevos(fcb[n], tamanio) \subseteq Nat
    BY <1>0, NuevosHechos DEF DialTipo
  <2>2. \A n \in Archivos : fcb[n].size \in 0..TamMaximo
    BY <1>0 DEF DialTipo, FCBs
  <2>3. \A n \in Archivos : \A tamanio \in (fcb[n].size + 1)..TamMaximo :
            tamanio \in 0..TamMaximo
    BY <2>2, DialAssumption
  <2>4. Libres # {} => Min(Libres) \in Nat
    BY LibresHechos, PrimeroLibre
  <2> QED
    BY <1>0, <2>1, <2>3, <2>4 DEF DialTipo, CaeEntreMarcas
<1>2. /\ Archivos' \subseteq Nombres /\ IsFiniteSet(Archivos')
      /\ \A m \in Archivos' : fcb'[m] \in FCBs
      /\ disco' \in [Bloques -> Datos]
  BY <1>0 DEF DialTipo, Archivos
<1>3. pedidos' \in 0..MaxPedidos /\ reinicios' \in 0..MaxReinicios
  BY <1>0, DialAssumption DEF DialTipo
<1> QED
  BY <1>0, <1>1, <1>2, <1>3, OciosoInv

-----------------------------------------------------------------------------
(* The compaction. *)
LEMMA DirectorioHechos ==
  ASSUME DialTipo, NEW S, S \subseteq Archivos, NEW lista \in LeerDirectorio(S)
  PROVE  /\ lista \in Seq(S)
         /\ \A k \in 1..Len(lista) : lista[k] \in S
         /\ \A j, k \in 1..Len(lista) : lista[j] = lista[k] => j = k
         /\ \A x \in S : \E k \in 1..Len(lista) : lista[k] = x
         /\ \A j, k \in 1..Len(lista) : j < k => Inicio(lista[j]) <= Inicio(lista[k])
<1>1. IsFiniteSet(S)
  BY FS_Subset DEF DialTipo
<1>2. Cardinality(S) \in Nat
  BY <1>1, FS_CardinalityType
<1>3. /\ lista \in Bijection(1..Cardinality(S), S)
      /\ \A j, k \in DOMAIN lista : j < k => Inicio(lista[j]) <= Inicio(lista[k])
  BY DEF LeerDirectorio, Inicio
<1>4. /\ lista \in [1..Cardinality(S) -> S]
      /\ \A j, k \in DOMAIN lista : lista[j] = lista[k] => j = k
      /\ \A x \in S : \E k \in 1..Cardinality(S) : lista[k] = x
  BY <1>3, Zenon DEF Bijection, Injection, Surjection, IsInjective
<1>5. lista \in Seq(S) /\ Len(lista) = Cardinality(S) /\ DOMAIN lista = 1..Len(lista)
  BY <1>2, <1>4
<1> QED
  BY <1>3, <1>4, <1>5

LEMMA EmpiezaCompactarInv ==
  ASSUME DialInv, NEW n \in Nombres, NEW tamanio \in 0..TamMaximo,
         EmpiezaCompactar(n, tamanio)
  PROVE  DialInv'
<1>0. /\ DialTipo /\ trabajo = SinTrabajo
      /\ n \in Archivos /\ fcb[n].size < tamanio
      /\ UNCHANGED <<fcb, disco, reinicios>>
      /\ pedidos' = pedidos + 1 /\ pedidos < MaxPedidos
      /\ \A m \in Archivos : BloquesDe(fcb[m]) \subseteq Bloques
  BY DEF DialInv, EmpiezaCompactar, Ocioso, Entra
<1> DEFINE S(m) == {x \in Archivos : fcb[x].bloque_inicial # fcb[m].bloque_inicial}
<1>1. PICK m \in Archivos :
          /\ fcb[m].bloque_inicial = fcb[n].bloque_inicial
          /\ bitmap' = bitmap \ BloquesDe(fcb[m])
          /\ \E lista \in LeerDirectorio(S(m)) :
              trabajo' = [archivo |-> n, tamanio |-> tamanio, sano |-> Sano(n),
                          lista |-> lista, contenido |-> Contenido(m)]
  BY DEF EmpiezaCompactar, Contenido
<1>2. PICK lista \in LeerDirectorio(S(m)) :
          /\ fcb[m].bloque_inicial = fcb[n].bloque_inicial
          /\ bitmap' = bitmap \ BloquesDe(fcb[m])
          /\ trabajo' = [archivo |-> n, tamanio |-> tamanio, sano |-> Sano(n),
                         lista |-> lista, contenido |-> Contenido(m)]
  BY <1>1
<1>3. /\ lista \in Seq(S(m))
      /\ \A k \in 1..Len(lista) : lista[k] \in S(m)
      /\ \A j, k \in 1..Len(lista) : lista[j] = lista[k] => j = k
      /\ \A x \in S(m) : \E k \in 1..Len(lista) : lista[k] = x
      /\ \A j, k \in 1..Len(lista) : j < k => Inicio(lista[j]) <= Inicio(lista[k])
  BY <1>0, DirectorioHechos, S(m) \subseteq Archivos
<1>4. /\ trabajo'.archivo = n /\ trabajo'.tamanio = tamanio
      /\ trabajo'.sano = Sano(n) /\ trabajo'.lista = lista
      /\ trabajo'.contenido = Contenido(m)
  BY <1>2
<1>5. Contenido(m) \in Seq(Datos) /\ Len(Contenido(m)) = Cantidad(fcb[m])
  BY <1>0, ContenidoHechos
<1>6. DialTipo'
  <2>1. lista \in Seq(Nombres)
    <3>1. S(m) \subseteq Nombres
      BY <1>0 DEF DialTipo
    <3> HIDE DEF S
    <3> QED
      BY <1>3, <3>1
  <2>2. trabajo' \in Trabajos
    BY <1>2, <1>5, <2>1 DEF Trabajos, Sano, Consistente
  <2>3. bitmap' \subseteq Nat
    BY <1>0, <1>2 DEF DialTipo
  <2>4. pedidos' \in 0..MaxPedidos /\ reinicios' \in 0..MaxReinicios
    BY <1>0, DialAssumption DEF DialTipo
  <2> QED
    BY <1>0, <2>2, <2>3, <2>4 DEF DialTipo, Archivos
<1>7. ListaOK'
  BY <1>0, <1>3, <1>4 DEF ListaOK, Pendientes, Archivos, BloquesDe, Cantidad
<1>8. ASSUME Sano(n) PROVE OtrosApartados' /\ EnOrden' /\ Guardado'
  <2>1. /\ \A x \in Archivos : fcb[x] \in FCBs /\ Inicio(x) \in BloquesDe(fcb[x])
        /\ \A x \in Archivos : Inicio(x) \in Nat
    BY <1>0, BloquesHechos DEF DialTipo, Inicio
  <2>2. /\ \A x \in Archivos : BloquesDe(fcb[x]) \subseteq bitmap
        /\ \A x, y \in Archivos :
               x # y => BloquesDe(fcb[x]) \intersect BloquesDe(fcb[y]) = {}
        /\ \A x \in Archivos \ {n} : Cantidad(fcb[x]) = 1
    BY <1>8 DEF Sano, Consistente
  <2>3. \A x, y \in Archivos : Inicio(x) = Inicio(y) => x = y
    BY <2>1, <2>2
  <2>4. m = n
    BY <1>0, <1>2, <2>3 DEF Inicio
  <2>5. S(m) = Archivos \ {n}
    BY <1>0, <2>3, <2>4 DEF Inicio
  <2>6. Archivos' = Archivos /\ Otros' = Archivos \ {n} /\ Pendientes' = 1..Len(lista)
    BY <1>0, <1>4 DEF Archivos, Otros, Pendientes
  <2>7. \A x : Inicio(x)' = Inicio(x)
    BY <1>0 DEF Inicio
  <2>8. OtrosApartados'
    <3>1. \A x \in Archivos \ {n} : Inicio(x) \in bitmap'
      BY <1>0, <1>2, <2>1, <2>2, <2>4
    <3>2. \A x \in Archivos \ {n} : Cantidad(fcb[x])' = 1
      BY <1>0, <2>2
    <3> QED
      BY <2>3, <2>6, <2>7, <3>1, <3>2 DEF OtrosApartados
  <2>9. EnOrden'
    <3>1. \A k \in 1..Len(lista) : lista[k] # n
      BY <1>3, <2>5
    <3>2. \A j, k \in 1..Len(lista) : j < k => Inicio(lista[j]) < Inicio(lista[k])
      <4> SUFFICES ASSUME NEW j \in 1..Len(lista), NEW k \in 1..Len(lista), j < k
                   PROVE  Inicio(lista[j]) < Inicio(lista[k])
        OBVIOUS
      <4>0. lista[j] \in Archivos /\ lista[k] \in Archivos
        BY <1>3
      <4>1. lista[j] \in Archivos /\ lista[k] \in Archivos /\ lista[j] # lista[k]
        <5>1. j # k
          BY <1>3
        <5>2. lista[j] = lista[k] => j = k
          BY <1>3, Zenon
        <5> QED
          BY <4>0, <5>1, <5>2
      <4>2. Inicio(lista[j]) # Inicio(lista[k])
        BY <2>3, <4>1
      <4>3. Inicio(lista[j]) <= Inicio(lista[k])
        BY <1>3
      <4>4. Inicio(lista[j]) \in Nat /\ Inicio(lista[k]) \in Nat
        BY <2>1, <4>1
      <4> QED
        BY <4>2, <4>3, <4>4
    <3>3. \A x \in Otros' : \E k \in Pendientes' : trabajo'.lista[k] = x
      BY <1>3, <1>4, <2>5, <2>6
    <3> QED
      BY <1>4, <2>6, <2>7, <3>1, <3>2, <3>3 DEF EnOrden, Movido
  <2>10. Guardado'
    BY <1>0, <1>4, <1>5, <2>4 DEF Guardado
  <2> QED
    BY <2>8, <2>9, <2>10
<1> QED
  BY <1>4, <1>6, <1>7, <1>8 DEF DialInv

(***************************************************************************)
(* A turn of the loop of compactar, whole or cut short: the file at the    *)
(* head of the list, the block it goes to, and what that does to the disk. *)
(***************************************************************************)
Cabeza == trabajo.lista[1]
Destino == Min(Libres \union BloquesDe(fcb[Cabeza]))

LEMMA CompactaTipo ==
  ASSUME DialTipo, Compacta
  PROVE  /\ trabajo.lista \in Seq(Nombres) /\ trabajo.contenido \in Seq(Datos)
         /\ trabajo.archivo \in Nombres /\ trabajo.tamanio \in 0..TamMaximo
         /\ trabajo.sano \in BOOLEAN
         /\ Len(trabajo.lista) \in Nat /\ Len(trabajo.contenido) \in Nat
         /\ trabajo.lista # <<>> =>
                1 \in Pendientes /\ Head(trabajo.lista) = Cabeza
  BY DEF DialTipo, Trabajos, Pendientes, Cabeza

LEMMA MueveHechos ==
  ASSUME DialInv, Compacta, trabajo.lista # <<>>
  PROVE  /\ Cabeza \in Archivos /\ Cabeza \in Nombres
         /\ fcb[Cabeza] \in FCBs /\ fcb[Cabeza].size \in 0..TamMaximo
         /\ BloquesDe(fcb[Cabeza]) \subseteq Bloques
         /\ Libres \union BloquesDe(fcb[Cabeza]) # {}
         /\ Destino \in Libres \union BloquesDe(fcb[Cabeza])
         /\ \A b \in Libres \union BloquesDe(fcb[Cabeza]) : Destino <= b
         /\ Destino \in Bloques /\ Destino \in Nat
         /\ Contenido(Cabeza) \in Seq(Datos)
         /\ Len(Contenido(Cabeza)) = Cantidad(fcb[Cabeza])
         /\ DiscoCon(Destino, Contenido(Cabeza)) \in [Bloques -> Datos]
         /\ MarcasDe(Destino, Len(Contenido(Cabeza))) \subseteq Nat
<1>1. /\ Cabeza \in Archivos /\ BloquesDe(fcb[Cabeza]) \subseteq Bloques
      /\ DialTipo
  BY CompactaTipo DEF DialInv, ListaOK, Cabeza
<1>2. /\ fcb[Cabeza] \in FCBs /\ fcb[Cabeza].size \in 0..TamMaximo /\ Cabeza \in Nombres
      /\ Cantidad(fcb[Cabeza]) \in Nat
      /\ fcb[Cabeza].bloque_inicial \in BloquesDe(fcb[Cabeza])
  BY <1>1, BloquesHechos DEF DialTipo, FCBs
<1>3. /\ Libres \union BloquesDe(fcb[Cabeza]) \subseteq Bloques
      /\ Libres \union BloquesDe(fcb[Cabeza]) # {} /\ Bloques \subseteq Nat
  BY <1>1, <1>2, LibresHechos
<1>4. /\ Destino \in Libres \union BloquesDe(fcb[Cabeza]) /\ Destino \in Nat
      /\ \A b \in Libres \union BloquesDe(fcb[Cabeza]) : Destino <= b
  <2>1. Libres \union BloquesDe(fcb[Cabeza]) \subseteq Nat
    BY <1>3
  <2> QED
    BY <1>3, <2>1, PrimeroLibre DEF Destino
<1>5. /\ Contenido(Cabeza) \in Seq(Datos)
      /\ Len(Contenido(Cabeza)) = Cantidad(fcb[Cabeza])
  BY <1>1, ContenidoHechos
<1>6. DiscoCon(Destino, Contenido(Cabeza)) \in [Bloques -> Datos]
  BY <1>1, <1>4, <1>5, DiscoConHechos
<1>7. MarcasDe(Destino, Len(Contenido(Cabeza))) \subseteq Nat
  BY <1>2, <1>4, <1>5 DEF MarcasDe
<1> QED
  BY <1>1, <1>2, <1>3, <1>4, <1>5, <1>6, <1>7

(* In a sound disk the turn moves one block, over no other file. *)
LEMMA MueveSano ==
  ASSUME DialInv, Compacta, trabajo.sano, trabajo.lista # <<>>
  PROVE  /\ Cabeza \in Otros
         /\ BloquesDe(fcb[Cabeza]) = {Inicio(Cabeza)}
         /\ Len(Contenido(Cabeza)) = 1
         /\ MarcasDe(Destino, Len(Contenido(Cabeza))) = {Destino}
         /\ Inicio(Cabeza) \in Bloques
         /\ DiscoCon(Destino, Contenido(Cabeza))[Destino] = disco[Inicio(Cabeza)]
         /\ \A b \in Bloques : b # Destino =>
                DiscoCon(Destino, Contenido(Cabeza))[b] = disco[b]
         /\ \A m \in Otros : m # Cabeza => Inicio(m) # Destino
<1>1. /\ OtrosApartados /\ EnOrden /\ DialTipo
      /\ 1 \in Pendientes
  BY CompactaTipo DEF DialInv
<1>2. Cabeza \in Otros
  BY <1>1, MueveHechos DEF EnOrden, Cabeza, Otros
<1>3. Cantidad(fcb[Cabeza]) = 1 /\ BloquesDe(fcb[Cabeza]) = {Inicio(Cabeza)}
  BY <1>1, <1>2, MueveHechos, BloquesHechos DEF OtrosApartados, Inicio
<1>4. Len(Contenido(Cabeza)) = 1
  BY <1>3, MueveHechos
<1>5. MarcasDe(Destino, Len(Contenido(Cabeza))) = {Destino}
  BY <1>4 DEF MarcasDe
<1>6. Inicio(Cabeza) \in Bloques /\ Inicio(Cabeza) \in Nat
  BY <1>3, MueveHechos, LibresHechos
<1>7. Contenido(Cabeza)[1] = disco[Inicio(Cabeza)]
  BY <1>3, <1>6 DEF Contenido, Inicio
<1>8. /\ Destino \in Bloques /\ Destino \in Nat /\ Contenido(Cabeza) \in Seq(Datos)
      /\ Bloques \subseteq Nat
  BY MueveHechos, LibresHechos
<1>9. \A b \in Bloques :
          DiscoCon(Destino, Contenido(Cabeza))[b] =
              IF b \in Destino..(Destino + 1 - 1)
              THEN Contenido(Cabeza)[b - Destino + 1] ELSE disco[b]
  BY <1>1, <1>4, <1>8, DiscoConHechos
<1>10. /\ DiscoCon(Destino, Contenido(Cabeza))[Destino] = disco[Inicio(Cabeza)]
       /\ \A b \in Bloques : b # Destino =>
              DiscoCon(Destino, Contenido(Cabeza))[b] = disco[b]
  <2>1. /\ Destino \in Destino..(Destino + 1 - 1) /\ Destino - Destino + 1 = 1
        /\ \A b \in Bloques : b # Destino => b \notin Destino..(Destino + 1 - 1)
    BY <1>8
  <2> QED
    BY <1>7, <1>8, <1>9, <2>1
<1>11. ASSUME NEW m \in Otros, m # Cabeza PROVE Inicio(m) # Destino
  <2>1. Inicio(m) \in bitmap /\ Inicio(m) # Inicio(Cabeza)
    BY <1>1, <1>2, <1>11 DEF OtrosApartados
  <2>2. Destino \in Libres \/ Destino = Inicio(Cabeza)
    BY <1>3, MueveHechos
  <2> QED
    BY <2>1, <2>2 DEF Libres
<1> QED
  BY <1>2, <1>3, <1>4, <1>5, <1>6, <1>10, <1>11

LEMMA MueveArchivoInv ==
  ASSUME DialInv, MueveArchivo
  PROVE  DialInv'
<1>0. /\ DialTipo /\ Compacta /\ trabajo.lista # <<>> /\ ListaOK
      /\ disco' = DiscoCon(Destino, Contenido(Cabeza))
      /\ bitmap' = (bitmap \ BloquesDe(fcb[Cabeza]))
                       \union MarcasDe(Destino, Len(Contenido(Cabeza)))
      /\ fcb' = ConFCB(Cabeza, Destino, fcb[Cabeza].size)
      /\ trabajo' = [trabajo EXCEPT !.lista = Tail(@)]
      /\ UNCHANGED <<pedidos, reinicios>>
  <2>1. DialTipo /\ Compacta /\ trabajo.lista # <<>> /\ ListaOK
    BY DEF DialInv, MueveArchivo, Compacta
  <2>2. Head(trabajo.lista) = Cabeza
    BY <2>1, CompactaTipo
  <2> QED
    BY <2>1, <2>2 DEF MueveArchivo, Destino
<1>1. /\ trabajo' \in Trabajos
      /\ trabajo'.archivo = trabajo.archivo /\ trabajo'.tamanio = trabajo.tamanio
      /\ trabajo'.sano = trabajo.sano /\ trabajo'.contenido = trabajo.contenido
      /\ trabajo'.lista = Tail(trabajo.lista)
  <2>1. trabajo \in Trabajos /\ Tail(trabajo.lista) \in Seq(Nombres)
    BY <1>0, CompactaTipo DEF DialTipo
  <2> QED
    BY <1>0, <2>1 DEF Trabajos
<1>2. /\ Pendientes' = 1..(Len(trabajo.lista) - 1)
      /\ \A k \in Pendientes' :
             /\ k \in Nat /\ k + 1 \in Pendientes /\ k + 1 # 1
             /\ trabajo'.lista[k] = trabajo.lista[k + 1]
  BY <1>0, <1>1, CompactaTipo DEF Pendientes
<1>3. /\ Archivos' = Archivos
      /\ fcb'[Cabeza] = [bloque_inicial |-> Destino, size |-> fcb[Cabeza].size]
      /\ \A m \in Archivos : m # Cabeza => fcb'[m] = fcb[m]
      /\ Archivos' \subseteq Nombres /\ IsFiniteSet(Archivos')
      /\ \A m \in Archivos' : fcb'[m] \in FCBs
  <2>1. /\ Cabeza \in Nombres /\ Cabeza \in Archivos /\ Destino \in Bloques
        /\ fcb[Cabeza].size \in 0..TamMaximo
    BY <1>0, MueveHechos
  <2> QED
    BY <1>0, <2>1, ConFCBTipo
<1>4. bitmap' \subseteq Nat /\ disco' \in [Bloques -> Datos]
  BY <1>0, MueveHechos DEF DialTipo
<1>5. DialTipo'
  BY <1>0, <1>1, <1>3, <1>4 DEF DialTipo
<1>6. ASSUME NEW k \in Pendientes'
      PROVE  trabajo'.lista[k] \in Archivos /\ trabajo'.lista[k] # Cabeza
  <2>1. /\ trabajo'.lista[k] = trabajo.lista[k + 1]
        /\ k + 1 \in Pendientes /\ k + 1 # 1 /\ 1 \in Pendientes
    BY <1>0, <1>2, CompactaTipo
  <2> QED
    BY <1>0, <2>1 DEF ListaOK, Cabeza
<1>7. ListaOK'
  <2>1. trabajo'.archivo \in Archivos'
    BY <1>0, <1>1, <1>3 DEF ListaOK
  <2>2. ASSUME NEW k \in Pendientes'
        PROVE  trabajo'.lista[k] \in Archivos' /\ BloquesDe(fcb[trabajo.lista[k]])' \subseteq Bloques
    <3>1. /\ k + 1 \in Pendientes /\ trabajo'.lista[k] = trabajo.lista[k + 1]
          /\ fcb'[trabajo'.lista[k]] = fcb[trabajo.lista[k + 1]]
      BY <1>2, <1>3, <1>6
    <3>2. BloquesDe(fcb[trabajo.lista[k + 1]]) \subseteq Bloques
      BY <1>0, <3>1 DEF ListaOK
    <3> QED
      BY <1>3, <1>6, <3>1, <3>2 DEF BloquesDe, Cantidad
  <2>3. ASSUME NEW j \in Pendientes', NEW k \in Pendientes',
               trabajo'.lista[j] = trabajo'.lista[k]
        PROVE  j = k
    <3>1. /\ j + 1 \in Pendientes /\ k + 1 \in Pendientes /\ j \in Nat /\ k \in Nat
          /\ trabajo.lista[j + 1] = trabajo.lista[k + 1]
      BY <1>2, <2>3
    <3>2. j + 1 = k + 1
      BY <1>0, <3>1 DEF ListaOK
    <3> QED
      BY <3>1, <3>2
  <2> QED
    BY <2>1, <2>2, <2>3 DEF ListaOK
<1>8. ASSUME trabajo.sano PROVE OtrosApartados' /\ EnOrden' /\ Guardado'
  <2>0. OtrosApartados /\ EnOrden /\ Guardado
    BY <1>0, <1>8 DEF DialInv
  <2>1. /\ Cabeza \in Otros /\ BloquesDe(fcb[Cabeza]) = {Inicio(Cabeza)}
        /\ bitmap' = (bitmap \ {Inicio(Cabeza)}) \union {Destino}
        /\ \A m \in Otros : m # Cabeza => Inicio(m) # Destino
    BY <1>0, <1>8, MueveSano
  <2>2. /\ Otros' = Otros
        /\ \A m \in Archivos : m = Cabeza => Inicio(m)' = Destino
        /\ \A m \in Archivos : m # Cabeza => Inicio(m)' = Inicio(m)
        /\ \A m \in Archivos : Cantidad(fcb[m])' = Cantidad(fcb[m])
    BY <1>1, <1>3 DEF Otros, Inicio, Cantidad
  <2>3. /\ Destino \in Libres \union {Inicio(Cabeza)}
        /\ \A b \in Libres \union {Inicio(Cabeza)} : Destino <= b
        /\ Destino \in Nat /\ Inicio(Cabeza) \in Nat
    BY <1>0, <2>1, MueveHechos, BloquesHechos DEF Inicio
  <2>4. OtrosApartados'
    <3>1. \A m \in Otros : Cantidad(fcb[m])' = 1
      BY <2>0, <2>2 DEF OtrosApartados, Otros
    <3>2. \A m \in Otros : m # Cabeza => Inicio(m)' = Inicio(m) /\ Inicio(m) \in bitmap
                                          /\ Inicio(m) # Inicio(Cabeza)
      BY <2>0, <2>1, <2>2 DEF OtrosApartados, Otros
    <3>3. \A m \in Otros : Inicio(m)' \in bitmap'
      BY <2>1, <2>2, <3>2 DEF Otros
    <3>4. \A m, n \in Otros : Inicio(m)' = Inicio(n)' => m = n
      <4> SUFFICES ASSUME NEW m \in Otros, NEW n \in Otros, Inicio(m)' = Inicio(n)'
                   PROVE  m = n
        OBVIOUS
      <4>1. CASE m = Cabeza
        BY <2>1, <2>2, <3>2, <4>1 DEF Otros
      <4>2. CASE n = Cabeza
        BY <2>1, <2>2, <3>2, <4>2 DEF Otros
      <4>3. CASE m # Cabeza /\ n # Cabeza
        BY <2>0, <3>2, <4>3 DEF OtrosApartados
      <4> QED
        BY <4>1, <4>2, <4>3
    <3> QED
      BY <2>2, <3>1, <3>3, <3>4 DEF OtrosApartados
  <2>5. EnOrden'
    <3>1. \A k \in Pendientes' : /\ trabajo'.lista[k] # trabajo'.archivo
                                 /\ Inicio(trabajo.lista[k])' = Inicio(trabajo.lista[k + 1])
                                 /\ Inicio(Cabeza) < Inicio(trabajo.lista[k + 1])
      <4> SUFFICES ASSUME NEW k \in Pendientes'
                   PROVE  /\ trabajo'.lista[k] # trabajo'.archivo
                          /\ Inicio(trabajo.lista[k])' = Inicio(trabajo.lista[k + 1])
                          /\ Inicio(Cabeza) < Inicio(trabajo.lista[k + 1])
        OBVIOUS
      <4>1. /\ k + 1 \in Pendientes /\ 1 < k + 1 /\ 1 \in Pendientes
            /\ trabajo'.lista[k] = trabajo.lista[k + 1]
        BY <1>0, <1>2, CompactaTipo
      <4>2. fcb'[trabajo'.lista[k]] = fcb[trabajo.lista[k + 1]]
        BY <1>3, <1>6, <4>1
      <4> QED
        BY <1>1, <2>0, <4>1, <4>2 DEF EnOrden, Inicio, Cabeza
    <3>2. \A j, k \in Pendientes' : j < k =>
              Inicio(trabajo.lista[j])' < Inicio(trabajo.lista[k])'
      <4> SUFFICES ASSUME NEW j \in Pendientes', NEW k \in Pendientes', j < k
                   PROVE  Inicio(trabajo.lista[j])' < Inicio(trabajo.lista[k])'
        OBVIOUS
      <4>0. j \in Nat /\ k \in Nat /\ j + 1 \in Pendientes /\ k + 1 \in Pendientes
        BY <1>2
      <4>1. j + 1 \in Pendientes /\ k + 1 \in Pendientes /\ j + 1 < k + 1
        BY <4>0
      <4>2. Inicio(trabajo.lista[j + 1]) < Inicio(trabajo.lista[k + 1])
        BY <2>0, <4>1 DEF EnOrden
      <4> QED
        BY <3>1, <4>2
    <3>3. ASSUME NEW n \in Otros, Movido(n)'
          PROVE  /\ \A b \in Libres' : Inicio(n)' < b
                 /\ \A k \in Pendientes' : Inicio(n)' < Inicio(trabajo.lista[k])'
      <4>1. \A b \in Libres' : b \in Libres \union {Inicio(Cabeza)} /\ b # Destino
                               /\ b \in Nat
        BY <2>1, LibresHechos DEF Libres
      <4>2. \A k \in Pendientes' : k + 1 \in Pendientes
        BY <1>2
      <4>3. CASE n = Cabeza
        <5>1. \A b \in Libres' : Destino < b
          BY <2>3, <4>1
        <5>2. \A k \in Pendientes' : Destino < Inicio(trabajo.lista[k + 1])
          <6>1. \A k \in Pendientes' : Inicio(trabajo.lista[k + 1]) \in Nat
            <7>1. \A k \in Pendientes' : trabajo.lista[k + 1] \in Archivos
              BY <1>0, <4>2 DEF ListaOK
            <7> QED
              BY <1>0, <7>1, BloquesHechos DEF DialTipo, Inicio
          <6> QED
            BY <2>3, <3>1, <6>1
        <5> QED
          BY <2>2, <3>1, <4>3, <5>1, <5>2 DEF Otros
      <4>4. CASE n # Cabeza
        <5>1. Movido(n)
          <6> SUFFICES ASSUME NEW k \in Pendientes, trabajo.lista[k] = n PROVE FALSE
            BY DEF Movido
          <6>1. k # 1
            BY <4>4 DEF Cabeza
          <6>2. k - 1 \in Pendientes' /\ (k - 1) + 1 = k
            BY <1>0, <1>2, <6>1, CompactaTipo DEF Pendientes
          <6> QED
            BY <1>2, <3>3, <6>2 DEF Movido
        <5>2. /\ \A b \in Libres : Inicio(n) < b
              /\ \A k \in Pendientes : Inicio(n) < Inicio(trabajo.lista[k])
          BY <2>0, <5>1 DEF EnOrden
        <5>3. Inicio(n) < Inicio(Cabeza)
          BY <1>0, <5>2, CompactaTipo DEF Cabeza
        <5>4. Inicio(n)' = Inicio(n)
          BY <2>2, <4>4 DEF Otros
        <5> QED
          BY <3>1, <4>1, <4>2, <5>2, <5>3, <5>4
      <4> QED
        BY <4>3, <4>4
    <3> QED
      BY <2>2, <3>1, <3>2, <3>3 DEF EnOrden
  <2>6. Guardado'
    <3>1. trabajo.archivo \in Archivos /\ trabajo.archivo # Cabeza
      BY <1>0, <2>1 DEF ListaOK, Otros
    <3> QED
      BY <1>1, <1>3, <2>0, <3>1 DEF Guardado
  <2> QED
    BY <2>4, <2>5, <2>6
<1> QED
  BY <1>1, <1>5, <1>7, <1>8 DEF DialInv

LEMMA TerminaCompactarInv ==
  ASSUME DialInv, TerminaCompactar
  PROVE  DialInv'
<1>0. /\ DialTipo /\ Compacta /\ ListaOK /\ trabajo' = SinTrabajo /\ Libres # {}
      /\ disco' = DiscoCon(Min(Libres), trabajo.contenido)
      /\ bitmap' = bitmap \union MarcasDe(Min(Libres), Len(trabajo.contenido))
                          \union Nuevos(fcb[trabajo.archivo], trabajo.tamanio)
      /\ fcb' = ConFCB(trabajo.archivo, Min(Libres), trabajo.tamanio)
      /\ UNCHANGED <<pedidos, reinicios>>
  BY DEF DialInv, TerminaCompactar, Compacta
<1>1. /\ trabajo.archivo \in Archivos /\ trabajo.archivo \in Nombres
      /\ fcb[trabajo.archivo] \in FCBs
      /\ trabajo.contenido \in Seq(Datos) /\ trabajo.tamanio \in 0..TamMaximo
      /\ Len(trabajo.contenido) \in Nat
  BY <1>0, CompactaTipo DEF ListaOK, DialTipo
<1>2. Min(Libres) \in Bloques /\ Min(Libres) \in Nat
  BY <1>0, LibresHechos, PrimeroLibre
<1>3. /\ Archivos' \subseteq Nombres /\ IsFiniteSet(Archivos')
      /\ \A m \in Archivos' : fcb'[m] \in FCBs
  BY <1>0, <1>1, <1>2, ConFCBTipo
<1>4. disco' \in [Bloques -> Datos]
  BY <1>0, <1>1, <1>2, DiscoConHechos
<1>5. bitmap' \subseteq Nat
  <2>1. MarcasDe(Min(Libres), Len(trabajo.contenido)) \subseteq Nat
    BY <1>1, <1>2 DEF MarcasDe
  <2>2. Nuevos(fcb[trabajo.archivo], trabajo.tamanio) \subseteq Nat
    BY <1>1, NuevosHechos
  <2> QED
    BY <1>0, <2>1, <2>2 DEF DialTipo
<1>6. pedidos' \in 0..MaxPedidos /\ reinicios' \in 0..MaxReinicios
  BY <1>0 DEF DialTipo
<1> QED
  BY <1>0, <1>3, <1>4, <1>5, <1>6, OciosoInv

(* What a crash in compactar leaves of the disk and of the bitmap. *)
LEMMA CaeCompactandoHechos ==
  ASSUME DialInv, CaeCompactando
  PROVE  /\ DialTipo /\ Compacta /\ ListaOK /\ trabajo' = SinTrabajo
         /\ UNCHANGED <<fcb, pedidos>>
         /\ reinicios' = reinicios + 1 /\ reinicios < MaxReinicios
         /\ \/ UNCHANGED <<bitmap, disco>>
            \/ /\ trabajo.lista = <<>> /\ Libres # {}
               /\ disco' \in {disco, DiscoCon(Min(Libres), trabajo.contenido)}
               /\ bitmap' \subseteq
                      bitmap \union MarcasDe(Min(Libres), Len(trabajo.contenido))
            \/ /\ trabajo.lista # <<>>
               /\ disco' \in {disco, DiscoCon(Destino, Contenido(Cabeza))}
               /\ bitmap' \subseteq
                      bitmap \union MarcasDe(Destino, Len(Contenido(Cabeza)))
<1>0. /\ DialTipo /\ Compacta /\ ListaOK /\ trabajo' = SinTrabajo
      /\ UNCHANGED <<fcb, pedidos>>
      /\ reinicios' = reinicios + 1 /\ reinicios < MaxReinicios
  BY DEF DialInv, CaeCompactando, Compacta, Reinicia
<1>1. CASE UNCHANGED <<bitmap, disco>>
  BY <1>0, <1>1
<1>2. CASE ~UNCHANGED <<bitmap, disco>>
  <2>1. CASE trabajo.lista = <<>>
    <3>1. Libres \union {} = Libres /\ bitmap \ {} = bitmap
      OBVIOUS
    <3>2. PICK copiado \in BOOLEAN, marcado \in BOOLEAN :
              /\ Libres # {}
              /\ disco' = IF copiado THEN DiscoCon(Min(Libres), trabajo.contenido)
                                     ELSE disco
              /\ bitmap' = bitmap \union
                     (IF marcado THEN MarcasDe(Min(Libres), Len(trabajo.contenido))
                                 ELSE {})
      BY <1>2, <2>1, <3>1 DEF CaeCompactando
    <3> QED
      BY <1>0, <2>1, <3>2
  <2>2. CASE trabajo.lista # <<>>
    <3>1. Head(trabajo.lista) = Cabeza
      BY <1>0, <2>2, CompactaTipo
    <3>2. PICK copiado \in BOOLEAN, marcado \in BOOLEAN :
              /\ disco' = IF copiado THEN DiscoCon(Destino, Contenido(Cabeza))
                                     ELSE disco
              /\ bitmap' = (bitmap \ BloquesDe(fcb[Cabeza])) \union
                     (IF marcado THEN MarcasDe(Destino, Len(Contenido(Cabeza)))
                                 ELSE {})
      BY <1>2, <2>2, <3>1 DEF CaeCompactando, Destino
    <3> QED
      BY <1>0, <2>2, <3>2
  <2> QED
    BY <2>1, <2>2
<1> QED
  BY <1>1, <1>2

LEMMA CaeCompactandoInv ==
  ASSUME DialInv, CaeCompactando
  PROVE  DialInv'
<1>0. /\ DialTipo /\ Compacta /\ ListaOK /\ trabajo' = SinTrabajo
      /\ UNCHANGED <<fcb, pedidos>>
      /\ reinicios' = reinicios + 1 /\ reinicios < MaxReinicios
  BY CaeCompactandoHechos
<1>1. bitmap \subseteq Nat /\ disco \in [Bloques -> Datos]
  BY <1>0 DEF DialTipo
<1>2. /\ \A c \in Seq(Datos) : Len(c) \in Nat
      /\ trabajo.contenido \in Seq(Datos)
  BY <1>0, CompactaTipo
<1>3. ASSUME Libres # {}
      PROVE  /\ MarcasDe(Min(Libres), Len(trabajo.contenido)) \subseteq Nat
             /\ DiscoCon(Min(Libres), trabajo.contenido) \in [Bloques -> Datos]
  <2>1. Min(Libres) \in Nat
    BY <1>3, LibresHechos, PrimeroLibre
  <2> QED
    BY <1>0, <1>2, <2>1, DiscoConHechos DEF MarcasDe
<1>4. bitmap' \subseteq Nat /\ disco' \in [Bloques -> Datos]
  BY <1>0, <1>1, <1>3, CaeCompactandoHechos, MueveHechos
<1>5. /\ Archivos' \subseteq Nombres /\ IsFiniteSet(Archivos')
      /\ \A m \in Archivos' : fcb'[m] \in FCBs
  BY <1>0 DEF DialTipo, Archivos
<1>6. pedidos' \in 0..MaxPedidos /\ reinicios' \in 0..MaxReinicios
  BY <1>0, DialAssumption DEF DialTipo
<1> QED
  BY <1>0, <1>4, <1>5, <1>6, OciosoInv

-----------------------------------------------------------------------------
LEMMA DialQuietoInv == DialInv /\ UNCHANGED dial_vars => DialInv'
<1> SUFFICES ASSUME DialInv, UNCHANGED dial_vars PROVE DialInv'
  OBVIOUS
<1>1. UNCHANGED <<fcb, bitmap, disco, trabajo, pedidos, reinicios>>
  BY DEF dial_vars
<1>2. DialTipo'
  BY <1>1 DEF DialInv, DialTipo, Archivos, Compacta
<1>3. Compacta' => Compacta /\ ListaOK'
  BY <1>1 DEF DialInv, ListaOK, Archivos, Compacta, Pendientes, BloquesDe, Cantidad
<1>4. Compacta' /\ trabajo'.sano => OtrosApartados' /\ EnOrden' /\ Guardado'
  BY <1>1 DEF DialInv, OtrosApartados, EnOrden, Guardado, Archivos, Compacta, Otros,
              Pendientes, BloquesDe, Cantidad, Inicio, Movido, Libres
<1> QED
  BY <1>2, <1>3, <1>4 DEF DialInv

LEMMA DialPasoInv == DialInv /\ [DialNext]_dial_vars => DialInv'
<1> SUFFICES ASSUME DialInv, [DialNext]_dial_vars PROVE DialInv'
  OBVIOUS
<1>1. CASE \E n \in Nombres : IO_FS_CREATE(n) \/ IO_FS_DELETE(n)
  BY <1>1, IO_FS_CREATEInv, IO_FS_DELETEInv
<1>2. CASE \E n \in Nombres, k \in Bloques, dato \in Datos : IO_FS_WRITE(n, k, dato)
  BY <1>2, IO_FS_WRITEInv
<1>3. CASE \E n \in Nombres, tamanio \in 0..TamMaximo : Achica(n, tamanio)
  BY <1>3, AchicaInv
<1>4. CASE \E n \in Nombres, tamanio \in 0..TamMaximo : AgrandaEnLugar(n, tamanio)
  BY <1>4, AgrandaEnLugarInv
<1>5. CASE \E n \in Nombres, tamanio \in 0..TamMaximo : EmpiezaCompactar(n, tamanio)
  BY <1>5, EmpiezaCompactarInv
<1>6. CASE MueveArchivo
  BY <1>6, MueveArchivoInv
<1>7. CASE TerminaCompactar
  BY <1>7, TerminaCompactarInv
<1>8. CASE CaeEntreMarcas
  BY <1>8, CaeEntreMarcasInv
<1>9. CASE CaeCompactando
  BY <1>9, CaeCompactandoInv
<1>10. CASE UNCHANGED dial_vars
  BY <1>10, DialQuietoInv
<1> QED
  BY <1>1, <1>2, <1>3, <1>4, <1>5, <1>6, <1>7, <1>8, <1>9, <1>10 DEF DialNext

LEMMA DialInvTipo == DialInv => DialTypeOK
  BY DEF DialInv, DialTipo, DialTypeOK, FCBs

(***************************************************************************)
(* No metadata file of the device names a first block past the end of the  *)
(* disk, whatever was compacted and wherever the device ended.             *)
(***************************************************************************)
THEOREM DialTypeOKSiempre == DialSpec => []DialTypeOK
<1> QED
  BY DialInitInv, DialPasoInv, DialInvTipo, PTL DEF DialSpec

-----------------------------------------------------------------------------
(* The requests in a sound disk. *)
LEMMA TrabajoHay == ASSUME NEW t \in Trabajos PROVE t # SinTrabajo
<1>1. "tamanio" \in DOMAIN t
  BY DEF Trabajos
<1>2. "tamanio" \notin DOMAIN SinTrabajo
  BY DEF SinTrabajo
<1> QED
  BY <1>1, <1>2

LEMMA EnSobrantes ==
  ASSUME NEW f \in FCBs, NEW tamanio \in 0..TamMaximo, tamanio <= f.size,
         NEW g \in FCBs, g.bloque_inicial = f.bloque_inicial, g.size = tamanio
  PROVE  BloquesDe(g) = BloquesDe(f) \ Sobrantes(f, tamanio)
<1>1. /\ f.bloque_inicial \in Nat
      /\ Cantidad(f) \in Nat \ {0} /\ Cantidad(g) \in Nat \ {0}
      /\ Cantidad(g) = Necesarios(tamanio) /\ Cantidad(g) <= Cantidad(f)
  BY BloquesHechos, NecesariosHechos DEF Cantidad
<1> DEFINE i == f.bloque_inicial
           c == Cantidad(f)
           d == Cantidad(g)
<1>2. \A b : b \in Sobrantes(f, tamanio) <=> b \in Int /\ i + d <= b /\ b < i + c
  <2>1. \A b : b \in Sobrantes(f, tamanio) => b \in Int /\ i + d <= b /\ b < i + c
    BY <1>1 DEF Sobrantes
  <2>2. ASSUME NEW b \in Int, i + d <= b, b < i + c PROVE b \in Sobrantes(f, tamanio)
    <3>1. b - i \in d..(c - 1) /\ b = i + (b - i)
      BY <1>1, <2>2
    <3> QED
      BY <1>1, <3>1 DEF Sobrantes
  <2> QED
    BY <2>1, <2>2
<1>3. \A b : b \in BloquesDe(f) <=> b \in Int /\ i <= b /\ b < i + c
  BY <1>1 DEF BloquesDe
<1>4. \A b : b \in BloquesDe(g) <=> b \in Int /\ i <= b /\ b < i + d
  BY <1>1 DEF BloquesDe
<1> QED
  BY <1>1, <1>2, <1>3, <1>4

LEMMA EnMarcados ==
  \A b : b \in Marcados <=> \E n \in Archivos : b \in BloquesDe(fcb[n])
  BY DEF Marcados

(* A block given to a new file was free, so no file had it. *)
LEMMA CreaSano ==
  ASSUME DialInv, Consistente, NEW n \in Nombres, IO_FS_CREATE(n)
  PROVE  Consistente' /\ (bitmap = Marcados => bitmap' = Marcados')
<1> DEFINE bloque == Min(Libres)
<1>0. /\ DialTipo /\ n \notin Archivos /\ Libres # {}
      /\ bitmap' = bitmap \union {bloque} /\ fcb' = ConFCB(n, bloque, 0)
  BY DEF DialInv, IO_FS_CREATE
<1>1. bloque \in Libres /\ bloque \in Bloques /\ bloque \notin bitmap /\ bloque \in Nat
  BY <1>0, LibresHechos, PrimeroLibre
<1> HIDE DEF bloque
<1>2. /\ Archivos' = Archivos \union {n}
      /\ fcb'[n] = [bloque_inicial |-> bloque, size |-> 0] /\ fcb'[n] \in FCBs
      /\ \A m \in Archivos : fcb'[m] = fcb[m]
  <2>1. 0 \in 0..TamMaximo
    BY DialAssumption
  <2> QED
    BY <1>0, <1>1, <2>1, ConFCBTipo
<1>3. BloquesDe(fcb'[n]) = {bloque}
  BY <1>1, <1>2, NecesariosHechos, BloquesHechos DEF Cantidad
<1>4. \A m \in Archivos : BloquesDe(fcb'[m]) = BloquesDe(fcb[m])
  BY <1>2
<1>5. \A m \in Archivos : bloque \notin BloquesDe(fcb[m])
  BY <1>1 DEF Consistente
<1>6. Consistente'
  <2>1. \A m \in Archivos' : BloquesDe(fcb'[m]) \subseteq Bloques \intersect bitmap'
    BY <1>0, <1>1, <1>2, <1>3, <1>4 DEF Consistente
  <2>2. \A m, p \in Archivos' : m # p => BloquesDe(fcb'[m]) \intersect BloquesDe(fcb'[p]) = {}
    BY <1>2, <1>3, <1>4, <1>5 DEF Consistente
  <2> QED
    BY <2>1, <2>2 DEF Consistente
<1>7. \A b : b \in Marcados' <=> b \in Marcados \/ b = bloque
  <2>1. \A b : b \in Marcados' <=> \E m \in Archivos' : b \in BloquesDe(fcb'[m])
    BY DEF Marcados
  <2> QED
    BY <1>2, <1>3, <1>4, <2>1, EnMarcados
<1> QED
  BY <1>0, <1>6, <1>7

LEMMA BorraSano ==
  ASSUME DialInv, Consistente, NEW n \in Nombres, IO_FS_DELETE(n)
  PROVE  Consistente' /\ (bitmap = Marcados => bitmap' = Marcados')
<1>0. /\ n \in Archivos /\ bitmap' = bitmap \ BloquesDe(fcb[n])
      /\ fcb' = [m \in Archivos \ {n} |-> fcb[m]]
  BY DEF IO_FS_DELETE
<1>1. Archivos' = Archivos \ {n} /\ \A m \in Archivos' : fcb'[m] = fcb[m]
  BY <1>0 DEF Archivos
<1>2. \A m \in Archivos' : BloquesDe(fcb'[m]) = BloquesDe(fcb[m])
  BY <1>1
<1>3. \A m \in Archivos' : BloquesDe(fcb[m]) \intersect BloquesDe(fcb[n]) = {}
  BY <1>0, <1>1 DEF Consistente
<1>4. Consistente'
  <2>1. \A m \in Archivos' : BloquesDe(fcb'[m]) \subseteq Bloques \intersect bitmap'
    BY <1>0, <1>1, <1>2, <1>3 DEF Consistente
  <2>2. \A m, p \in Archivos' : m # p => BloquesDe(fcb'[m]) \intersect BloquesDe(fcb'[p]) = {}
    BY <1>1, <1>2 DEF Consistente
  <2> QED
    BY <2>1, <2>2 DEF Consistente
<1>5. \A b : b \in Marcados' <=> b \in Marcados /\ b \notin BloquesDe(fcb[n])
  <2>1. \A b : b \in Marcados' <=> \E m \in Archivos' : b \in BloquesDe(fcb'[m])
    BY DEF Marcados
  <2> QED
    BY <1>0, <1>1, <1>2, <1>3, <2>1, EnMarcados
<1> QED
  BY <1>0, <1>4, <1>5

LEMMA AchicaSano ==
  ASSUME DialInv, Consistente, NEW n \in Nombres, NEW tamanio \in 0..TamMaximo,
         Achica(n, tamanio)
  PROVE  Consistente' /\ (bitmap = Marcados => bitmap' = Marcados')
<1> DEFINE S == Sobrantes(fcb[n], tamanio)
<1>0. /\ DialTipo /\ n \in Archivos /\ fcb[n].size >= tamanio
      /\ bitmap' = bitmap \ S
      /\ fcb' = ConFCB(n, fcb[n].bloque_inicial, tamanio)
  BY DEF DialInv, Achica
<1>1. /\ fcb[n] \in FCBs /\ fcb[n].bloque_inicial \in Bloques
      /\ fcb[n].size \in Nat /\ tamanio <= fcb[n].size
  BY <1>0, DialAssumption DEF DialTipo, FCBs
<1>2. /\ Archivos' = Archivos
      /\ fcb'[n] = [bloque_inicial |-> fcb[n].bloque_inicial, size |-> tamanio]
      /\ fcb'[n] \in FCBs
      /\ \A m \in Archivos : m # n => fcb'[m] = fcb[m]
  BY <1>0, <1>1, ConFCBTipo
<1>3. BloquesDe(fcb'[n]) = BloquesDe(fcb[n]) \ S
  BY <1>1, <1>2, EnSobrantes
<1>4. S \subseteq BloquesDe(fcb[n])
  <2>1. /\ Necesarios(tamanio) \in Nat /\ Cantidad(fcb[n]) \in Nat
        /\ fcb[n].bloque_inicial \in Nat
    BY <1>1, NecesariosHechos, BloquesHechos
  <2> QED
    BY <2>1 DEF Sobrantes, BloquesDe
<1> HIDE DEF S
<1>5. \A m \in Archivos : m # n => BloquesDe(fcb'[m]) = BloquesDe(fcb[m])
  BY <1>2
<1>6. \A m \in Archivos : m # n => BloquesDe(fcb[m]) \intersect S = {}
  BY <1>0, <1>4 DEF Consistente
<1>7. Consistente'
  <2>1. \A m \in Archivos' : BloquesDe(fcb'[m]) \subseteq Bloques \intersect bitmap'
    BY <1>0, <1>2, <1>3, <1>5, <1>6 DEF Consistente
  <2>2. \A m, p \in Archivos' : m # p => BloquesDe(fcb'[m]) \intersect BloquesDe(fcb'[p]) = {}
    BY <1>0, <1>2, <1>3, <1>5 DEF Consistente
  <2> QED
    BY <2>1, <2>2 DEF Consistente
<1>8. \A b : b \in Marcados' <=> b \in Marcados /\ b \notin S
  <2>1. \A b : b \in Marcados' <=> \E m \in Archivos' : b \in BloquesDe(fcb'[m])
    BY DEF Marcados
  <2> QED
    BY <1>0, <1>2, <1>3, <1>4, <1>5, <1>6, <2>1, EnMarcados
<1> QED
  BY <1>0, <1>7, <1>8

(* Which requests end at once and make no file grow. *)
LEMMA PideSinCrecer ==
  ASSUME DialInv, DialNext, Ocioso, trabajo' = SinTrabajo, ~Crece,
         reinicios' = reinicios
  PROVE  \/ \E n \in Nombres : IO_FS_CREATE(n) \/ IO_FS_DELETE(n)
         \/ \E n \in Nombres, k \in Bloques, dato \in Datos : IO_FS_WRITE(n, k, dato)
         \/ \E n \in Nombres, tamanio \in 0..TamMaximo : Achica(n, tamanio)
<1>0. DialTipo /\ trabajo = SinTrabajo /\ reinicios \in Nat
  BY DialAssumption DEF DialInv, DialTipo, Ocioso
<1>1. ASSUME NEW n \in Nombres, NEW tamanio \in 0..TamMaximo, AgrandaEnLugar(n, tamanio)
      PROVE  FALSE
  <2>1. n \in Archivos /\ fcb[n].size < tamanio /\ fcb' = ConFCB(n, 0, tamanio)
    BY <1>1 DEF AgrandaEnLugar
  <2>2. n \in DOMAIN fcb' /\ fcb'[n].size = tamanio
    BY <2>1 DEF ConFCB
  <2>3. fcb[n].size \in Nat /\ tamanio \in Nat
    BY <1>0, <2>1, BloquesHechos, DialAssumption DEF DialTipo
  <2> QED
    BY <2>1, <2>2, <2>3 DEF Crece
<1>2. ASSUME NEW n \in Nombres, NEW tamanio \in 0..TamMaximo, EmpiezaCompactar(n, tamanio)
      PROVE  FALSE
  <2>1. "tamanio" \in DOMAIN trabajo'
    BY <1>2 DEF EmpiezaCompactar
  <2>2. "tamanio" \notin DOMAIN SinTrabajo
    BY DEF SinTrabajo
  <2> QED
    BY <2>1, <2>2
<1>3. ~MueveArchivo /\ ~TerminaCompactar /\ ~CaeCompactando /\ ~CaeEntreMarcas
  BY <1>0 DEF MueveArchivo, TerminaCompactar, CaeCompactando, CaeEntreMarcas, Reinicia
<1> QED
  BY <1>1, <1>2, <1>3 DEF DialNext

LEMMA PasoSinBloquePerdido ==
  ASSUME DialInv, DialNext, Ocioso, Consistente, trabajo' = SinTrabajo, ~Crece,
         reinicios' = reinicios
  PROVE  Consistente' /\ (bitmap = Marcados => bitmap' = Marcados')
<1>1. CASE \E n \in Nombres : IO_FS_CREATE(n) \/ IO_FS_DELETE(n)
  BY <1>1, CreaSano, BorraSano
<1>2. CASE \E n \in Nombres, k \in Bloques, dato \in Datos : IO_FS_WRITE(n, k, dato)
  <2>1. UNCHANGED <<fcb, bitmap>>
    BY <1>2 DEF IO_FS_WRITE
  <2> QED
    BY <2>1 DEF Consistente, Marcados, Archivos, BloquesDe, Cantidad
<1>3. CASE \E n \in Nombres, tamanio \in 0..TamMaximo : Achica(n, tamanio)
  BY <1>3, AchicaSano
<1> QED
  BY <1>1, <1>2, <1>3, PideSinCrecer

(***************************************************************************)
(* While no file grows, the requests of the programs keep a sound disk     *)
(* sound and lose no block, for every size of the disk and of its blocks.  *)
(***************************************************************************)
THEOREM SinBloquePerdidoSiempre == DialSpec => SinBloquePerdido
<1>1. DialInv /\ [DialNext]_dial_vars =>
      [ Ocioso /\ Consistente /\ trabajo' = SinTrabajo /\ ~Crece
            /\ reinicios' = reinicios =>
            /\ Consistente'
            /\ bitmap = Marcados => bitmap' = Marcados' ]_dial_vars
  BY PasoSinBloquePerdido
<1> QED
  BY <1>1, DialInitInv, DialPasoInv, PTL DEF DialSpec, SinBloquePerdido

-----------------------------------------------------------------------------
(* The device ends between two marks. *)
LEMMA PasoCaidaSana ==
  ASSUME DialInv, DialNext, Ocioso, Consistente, reinicios' # reinicios
  PROVE  Consistente' \/ (bitmap' # bitmap /\ bitmap' \subseteq bitmap)
<1>0. DialTipo /\ trabajo = SinTrabajo
  BY DEF DialInv, Ocioso
<1>1. CaeEntreMarcas
  BY <1>0 DEF DialNext, IO_FS_CREATE, IO_FS_DELETE, IO_FS_WRITE, Achica,
     AgrandaEnLugar, EmpiezaCompactar, MueveArchivo, TerminaCompactar, CaeCompactando
<1>2. ASSUME bitmap \subseteq bitmap' PROVE Consistente'
  <2>1. UNCHANGED fcb
    BY <1>1 DEF CaeEntreMarcas
  <2> QED
    BY <1>2, <2>1 DEF Consistente, Archivos, BloquesDe, Cantidad
<1>3. \A n \in Archivos :
          /\ fcb[n] \in FCBs /\ fcb[n].bloque_inicial \in Nat
          /\ fcb[n].size \in Nat /\ fcb[n].size <= TamMaximo
          /\ Cantidad(fcb[n]) \in Nat
          /\ BloquesDe(fcb[n]) \subseteq bitmap
          /\ fcb[n].bloque_inicial \in bitmap
  BY <1>0, BloquesHechos DEF DialTipo, Consistente
<1>4. CASE \E n \in Archivos : \E k \in BloquesDe(fcb[n]) :
               bitmap' = bitmap \ (fcb[n].bloque_inicial..k)
  <2>1. PICK n \in Archivos, k \in Int :
            /\ k \in BloquesDe(fcb[n])
            /\ bitmap' = bitmap \ (fcb[n].bloque_inicial..k)
    BY <1>4 DEF BloquesDe
  <2>2. fcb[n].bloque_inicial \in fcb[n].bloque_inicial..k
    BY <1>3, <2>1 DEF BloquesDe
  <2> QED
    BY <1>3, <2>1, <2>2
<1>5. CASE \E n \in Archivos : \E tamanio \in 0..fcb[n].size :
               \E k \in Sobrantes(fcb[n], tamanio) :
                   bitmap' = bitmap \ {s \in Sobrantes(fcb[n], tamanio) : s >= k}
  <2>1. PICK n \in Archivos : \E tamanio \in 0..fcb[n].size :
               \E k \in Sobrantes(fcb[n], tamanio) :
                   bitmap' = bitmap \ {s \in Sobrantes(fcb[n], tamanio) : s >= k}
    BY <1>5
  <2>2. PICK tamanio \in 0..fcb[n].size : \E k \in Sobrantes(fcb[n], tamanio) :
                   bitmap' = bitmap \ {s \in Sobrantes(fcb[n], tamanio) : s >= k}
    BY <2>1
  <2>3. PICK k \in Sobrantes(fcb[n], tamanio) :
                   bitmap' = bitmap \ {s \in Sobrantes(fcb[n], tamanio) : s >= k}
    BY <2>2
  <2>4. Necesarios(tamanio) \in Nat
    BY <1>3, NecesariosHechos
  <2>5. k \in BloquesDe(fcb[n]) /\ k \in Int
    BY <1>3, <2>4 DEF Sobrantes, BloquesDe
  <2>6. k \in bitmap /\ k \notin bitmap'
    BY <1>3, <2>3, <2>5
  <2> QED
    BY <2>3, <2>6
<1>6. CASE bitmap \subseteq bitmap'
  BY <1>2, <1>6
<1> QED
  BY <1>1, <1>4, <1>5, <1>6 DEF CaeEntreMarcas

(***************************************************************************)
(* A device that ends in the middle of a request leaves a sound disk       *)
(* unsound only where blocks are given back.                               *)
(***************************************************************************)
THEOREM CaidaSanaSiempre == DialSpec => CaidaSana
<1>1. DialInv /\ [DialNext]_dial_vars =>
      [ Ocioso /\ Consistente /\ reinicios' # reinicios =>
            Consistente' \/ (bitmap' # bitmap /\ bitmap' \subseteq bitmap) ]_dial_vars
  BY PasoCaidaSana
<1> QED
  BY <1>1, DialInitInv, DialPasoInv, PTL DEF DialSpec, CaidaSana

-----------------------------------------------------------------------------
(* The contents while a compaction runs. *)

(* A file of one block keeps its content when its block has it. *)
LEMMA UnBloqueConserva ==
  ASSUME NEW n, Inicio(n) \in Nat, Cantidad(fcb[n]) = 1,
         fcb'[n].size = fcb[n].size, fcb'[n].bloque_inicial \in Nat,
         disco'[fcb'[n].bloque_inicial] = disco[Inicio(n)]
  PROVE  Contenido(n)' = Contenido(n)
<1>1. Cantidad(fcb'[n]) = 1
  BY DEF Cantidad
<1>2. \A k \in 1..1 : /\ Inicio(n) + k - 1 = Inicio(n)
                      /\ fcb'[n].bloque_inicial + k - 1 = fcb'[n].bloque_inicial
  OBVIOUS
<1>3. Contenido(n) = [k \in 1..1 |-> disco[Inicio(n)]]
  BY <1>2 DEF Contenido, Inicio
<1>4. Contenido(n)' = [k \in 1..1 |-> disco'[fcb'[n].bloque_inicial]]
  BY <1>1, <1>2 DEF Contenido
<1> QED
  BY <1>3, <1>4

LEMMA SanoHechos ==
  ASSUME DialInv, Compacta, trabajo.sano
  PROVE  /\ DialTipo /\ ListaOK /\ OtrosApartados /\ EnOrden /\ Guardado
         /\ \A n \in Otros : /\ n \in Archivos /\ Cantidad(fcb[n]) = 1
                             /\ Inicio(n) \in Nat /\ Inicio(n) \in Bloques
                             /\ Inicio(n) \in bitmap
<1>1. DialTipo /\ ListaOK /\ OtrosApartados /\ EnOrden /\ Guardado
  BY DEF DialInv
<1> QED
  BY <1>1, LibresHechos DEF DialTipo, FCBs, Otros, OtrosApartados, Inicio

(* The copy of the file that grows, when all others have been moved. *)
LEMMA CopiaUltima ==
  ASSUME DialInv, Compacta, trabajo.sano, trabajo.lista = <<>>, Libres # {}
  PROVE  /\ Min(Libres) \in Nat /\ trabajo.contenido \in Seq(Datos)
         /\ \A n \in Otros :
                DiscoCon(Min(Libres), trabajo.contenido)[Inicio(n)] = disco[Inicio(n)]
         /\ \A k \in 1..Len(trabajo.contenido) : Min(Libres) + k - 1 \in Bloques =>
                DiscoCon(Min(Libres), trabajo.contenido)[Min(Libres) + k - 1] =
                    trabajo.contenido[k]
<1> DEFINE bloque == Min(Libres)
           c == trabajo.contenido
<1>1. bloque \in Libres /\ bloque \in Nat
  BY LibresHechos, PrimeroLibre
<1>2. c \in Seq(Datos) /\ Len(c) \in Nat /\ DialTipo
  BY CompactaTipo, SanoHechos
<1> HIDE DEF bloque
<1>3. \A b \in Bloques :
          DiscoCon(bloque, c)[b] = IF b \in bloque..(bloque + Len(c) - 1)
                                   THEN c[b - bloque + 1] ELSE disco[b]
  BY <1>1, <1>2, DiscoConHechos
<1> HIDE DEF c
<1>4. ASSUME NEW n \in Otros PROVE DiscoCon(bloque, c)[Inicio(n)] = disco[Inicio(n)]
  <2>1. Movido(n)
    BY DEF Movido, Pendientes
  <2>2. Inicio(n) < bloque
    BY <1>1, <2>1, SanoHechos DEF EnOrden
  <2>3. Inicio(n) \in Bloques /\ Inicio(n) \in Nat
    BY SanoHechos
  <2>4. Inicio(n) \notin bloque..(bloque + Len(c) - 1)
    BY <1>1, <1>2, <2>2, <2>3
  <2> QED
    BY <1>3, <2>3, <2>4
<1>5. ASSUME NEW k \in 1..Len(c), bloque + k - 1 \in Bloques
      PROVE  DiscoCon(bloque, c)[bloque + k - 1] = c[k]
  <2>1. /\ bloque + k - 1 \in bloque..(bloque + Len(c) - 1)
        /\ (bloque + k - 1) - bloque + 1 = k
    BY <1>1, <1>2
  <2> QED
    BY <1>3, <1>5, <2>1
<1> QED
  BY <1>1, <1>2, <1>4, <1>5 DEF bloque, c

(* The others keep their content in each step of a compaction. *)
LEMMA OtrosConservan ==
  ASSUME DialInv, Compacta, trabajo.sano, NEW n \in Otros,
         MueveArchivo \/ TerminaCompactar \/ CaeCompactando
  PROVE  /\ n \in DOMAIN fcb'
         /\ fcb'[n].size = fcb[n].size
         /\ Contenido(n)' = Contenido(n)
<1>0. /\ DialTipo /\ n \in Archivos /\ Cantidad(fcb[n]) = 1
      /\ Inicio(n) \in Nat /\ Inicio(n) \in Bloques /\ n # trabajo.archivo
  BY SanoHechos DEF Otros
<1>1. CASE MueveArchivo
  <2>1. trabajo.lista # <<>>
    BY <1>1 DEF MueveArchivo
  <2>2. Head(trabajo.lista) = Cabeza
    BY <1>0, <2>1, CompactaTipo
  <2>3. /\ disco' = DiscoCon(Destino, Contenido(Cabeza))
        /\ fcb' = ConFCB(Cabeza, Destino, fcb[Cabeza].size)
    BY <1>1, <2>2 DEF MueveArchivo, Destino
  <2>4. Cabeza \in Archivos /\ Destino \in Nat /\ Destino \in Bloques
    BY <2>1, MueveHechos
  <2>5. CASE n = Cabeza
    <3>1. /\ n \in DOMAIN fcb'
          /\ fcb'[n] = [bloque_inicial |-> Destino, size |-> fcb[n].size]
      BY <1>0, <2>3, <2>5 DEF ConFCB
    <3>2. disco'[Destino] = disco[Inicio(n)]
      BY <2>1, <2>3, <2>5, MueveSano
    <3> QED
      BY <1>0, <2>4, <3>1, <3>2, UnBloqueConserva
  <2>6. CASE n # Cabeza
    <3>1. n \in DOMAIN fcb' /\ fcb'[n] = fcb[n]
      BY <1>0, <2>3, <2>6 DEF ConFCB
    <3>2. disco'[Inicio(n)] = disco[Inicio(n)]
      BY <1>0, <2>1, <2>3, <2>6, MueveSano
    <3> QED
      BY <1>0, <3>1, <3>2, UnBloqueConserva DEF Inicio
  <2> QED
    BY <2>5, <2>6
<1>2. CASE TerminaCompactar
  <2>1. /\ trabajo.lista = <<>> /\ Libres # {}
        /\ disco' = DiscoCon(Min(Libres), trabajo.contenido)
        /\ fcb' = ConFCB(trabajo.archivo, Min(Libres), trabajo.tamanio)
    BY <1>2 DEF TerminaCompactar
  <2>2. n \in DOMAIN fcb' /\ fcb'[n] = fcb[n]
    BY <1>0, <2>1 DEF ConFCB
  <2>3. disco'[Inicio(n)] = disco[Inicio(n)]
    BY <2>1, CopiaUltima
  <2> QED
    BY <1>0, <2>2, <2>3, UnBloqueConserva DEF Inicio
<1>3. CASE CaeCompactando
  <2>1. UNCHANGED fcb
    BY <1>3, CaeCompactandoHechos
  <2>2. disco'[Inicio(n)] = disco[Inicio(n)]
    <3>1. CASE disco' = disco
      BY <3>1
    <3>2. CASE /\ trabajo.lista = <<>> /\ Libres # {}
               /\ disco' = DiscoCon(Min(Libres), trabajo.contenido)
      BY <3>2, CopiaUltima
    <3>3. CASE /\ trabajo.lista # <<>>
               /\ disco' = DiscoCon(Destino, Contenido(Cabeza))
      BY <1>0, <3>3, MueveSano
    <3> QED
      BY <1>3, <3>1, <3>2, <3>3, CaeCompactandoHechos
  <2> QED
    BY <1>0, <2>1, <2>2, UnBloqueConserva DEF Inicio, Archivos
<1> QED
  BY <1>1, <1>2, <1>3

(* The file that grew begins with what it had. *)
LEMMA CrecidoConserva ==
  ASSUME DialInv, Compacta, trabajo.sano, TerminaCompactar,
         NEW n, n = trabajo.archivo, (BloquesDe(fcb[n]) \subseteq Bloques)'
  PROVE  SubSeq(Contenido(n)', 1, Len(trabajo.contenido)) = trabajo.contenido
<1> DEFINE bloque == Min(Libres)
           c == trabajo.contenido
           t == trabajo.tamanio
           s == Contenido(n)'
<1>1. /\ trabajo.lista = <<>> /\ Libres # {}
      /\ disco' = DiscoCon(bloque, c) /\ fcb' = ConFCB(n, bloque, t)
  BY DEF TerminaCompactar
<1>2. /\ DialTipo /\ Guardado /\ n \in Archivos
      /\ t \in 0..TamMaximo /\ c \in Seq(Datos) /\ Len(c) \in Nat
      /\ bloque \in Nat /\ bloque \in Bloques
  BY <1>1, SanoHechos, CompactaTipo, CopiaUltima, LibresHechos, PrimeroLibre DEF ListaOK
<1>3. fcb[n] \in FCBs /\ fcb[n].size \in Nat /\ t \in Nat
  BY <1>2, BloquesHechos, DialAssumption DEF DialTipo
<1>4. /\ fcb'[n].bloque_inicial = bloque /\ fcb'[n].size = t
      /\ Cantidad(fcb'[n]) = Necesarios(t) /\ Necesarios(t) \in Nat
      /\ BloquesDe(fcb'[n]) \subseteq Bloques
  BY <1>1, <1>2, <1>3, NecesariosHechos DEF ConFCB, Cantidad
<1>5. Len(c) <= Necesarios(t)
  <2>1. Len(c) = Necesarios(fcb[n].size) /\ fcb[n].size < t
    BY <1>2 DEF Guardado, Cantidad
  <2>2. fcb[n].size <= t
    BY <1>3, <2>1
  <2> QED
    BY <1>3, <2>1, <2>2, NecesariosHechos
<1>6. \A k \in 1..Necesarios(t) : bloque + k - 1 \in Bloques
  BY <1>2, <1>4 DEF BloquesDe
<1>7. s = [k \in 1..Necesarios(t) |-> disco'[bloque + k - 1]]
  BY <1>4 DEF Contenido
<1>8. disco' \in [Bloques -> Datos]
  BY <1>1, <1>2, DiscoConHechos
<1> HIDE DEF bloque, t
<1>9. s \in Seq(Datos) /\ Len(s) = Necesarios(t)
  BY <1>4, <1>6, <1>7, <1>8
<1>10. ASSUME NEW k \in 1..Len(c) PROVE s[k] = c[k]
  <2>1. k \in 1..Necesarios(t)
    BY <1>2, <1>4, <1>5
  <2>2. disco'[bloque + k - 1] = c[k]
    BY <1>1, <1>6, <2>1, CopiaUltima DEF bloque
  <2> QED
    BY <1>7, <2>1, <2>2
<1>11. /\ SubSeq(s, 1, Len(c)) \in Seq(Datos)
       /\ Len(SubSeq(s, 1, Len(c))) = Len(c)
       /\ \A k \in 1..Len(c) : SubSeq(s, 1, Len(c))[k] = s[k]
  <2> HIDE DEF s, c
  <2> QED
    BY <1>2, <1>4, <1>5, <1>9
<1> HIDE DEF s, c
<1> QED
  BY <1>2, <1>10, <1>11, SeqEqual DEF s, c

LEMMA PasoCompactarConserva ==
  ASSUME DialInv, DialNext, trabajo # SinTrabajo, trabajo.sano
  PROVE  /\ \A n \in Archivos \ {trabajo.archivo} :
                /\ n \in DOMAIN fcb'
                /\ fcb'[n].size = fcb[n].size
                /\ Contenido(n)' = Contenido(n)
         /\ \A n \in DOMAIN fcb' :
                /\ n = trabajo.archivo
                /\ trabajo' = SinTrabajo
                /\ reinicios' = reinicios
                /\ (BloquesDe(fcb[n]) \subseteq Bloques)'
                => SubSeq(Contenido(n)', 1, Len(trabajo.contenido)) = trabajo.contenido
<1>0. Compacta /\ DialTipo
  BY DEF DialInv, Compacta
<1>1. MueveArchivo \/ TerminaCompactar \/ CaeCompactando
  BY DEF DialNext, Ocioso, IO_FS_CREATE, IO_FS_DELETE, IO_FS_WRITE, Achica,
         AgrandaEnLugar, EmpiezaCompactar, CaeEntreMarcas
<1>2. \A n \in Otros : /\ n \in DOMAIN fcb'
                       /\ fcb'[n].size = fcb[n].size
                       /\ Contenido(n)' = Contenido(n)
  BY <1>0, <1>1, OtrosConservan
<1>3. ASSUME NEW n \in DOMAIN fcb', n = trabajo.archivo, trabajo' = SinTrabajo,
             reinicios' = reinicios, (BloquesDe(fcb[n]) \subseteq Bloques)'
      PROVE  SubSeq(Contenido(n)', 1, Len(trabajo.contenido)) = trabajo.contenido
  <2>1. ~MueveArchivo
    <3>1. ASSUME MueveArchivo PROVE trabajo' \in Trabajos
      <4>1. trabajo \in Trabajos /\ Tail(trabajo.lista) \in Seq(Nombres)
        BY <1>0, <3>1, CompactaTipo DEF DialTipo, MueveArchivo
      <4>2. trabajo' = [trabajo EXCEPT !.lista = Tail(@)]
        BY <3>1 DEF MueveArchivo
      <4> QED
        BY <4>1, <4>2 DEF Trabajos
    <3> QED
      BY <1>3, <3>1, TrabajoHay
  <2>2. ~CaeCompactando
    <3>1. reinicios \in Nat
      BY <1>0, DialAssumption DEF DialTipo
    <3> QED
      BY <1>3, <3>1 DEF CaeCompactando, Reinicia
  <2> QED
    BY <1>0, <1>1, <1>3, <2>1, <2>2, CrecidoConserva
<1> QED
  BY <1>2, <1>3 DEF Otros

(***************************************************************************)
(* A compaction that begins in a sound disk loses no content of the files  *)
(* of one block that it moves, nor of the file that grows.                 *)
(***************************************************************************)
THEOREM CompactarConservaSiempre == DialSpec => CompactarConserva
<1>1. DialInv /\ [DialNext]_dial_vars =>
      [ trabajo # SinTrabajo /\ trabajo.sano =>
            /\ \A n \in Archivos \ {trabajo.archivo} :
                   /\ n \in DOMAIN fcb'
                   /\ fcb'[n].size = fcb[n].size
                   /\ Contenido(n)' = Contenido(n)
            /\ \A n \in DOMAIN fcb' :
                   /\ n = trabajo.archivo
                   /\ trabajo' = SinTrabajo
                   /\ reinicios' = reinicios
                   /\ (BloquesDe(fcb[n]) \subseteq Bloques)'
                   => SubSeq(Contenido(n)', 1, Len(trabajo.contenido)) = trabajo.contenido
      ]_dial_vars
  BY PasoCompactarConserva
<1> QED
  BY <1>1, DialInitInv, DialPasoInv, PTL DEF DialSpec, CompactarConserva

=============================================================================
