---------------------------- MODULE Piezas_proofs ----------------------------
(***************************************************************************)
(* Proofs about the parts of the system that are small machines of their   *)
(* own: Multiprogramacion, for every initial degree and every set of       *)
(* degrees the console may ask for; Recursos, for any processes, any       *)
(* number of resources and any instances; Registros, for any programs and  *)
(* any widths of the registers.  Each has its inductive invariant: for the *)
(* first one the count of tokens, for the second one the queues, what the  *)
(* processes in them hold and, apart, the sum of what is assigned, and for *)
(* the third one that each context is in exactly one place.  The last      *)
(* section puts them together with Conexiones and DialFS as MCPiezas does. *)
(***************************************************************************)
EXTENDS MCPiezas, Conexiones_proofs, DialFS_proofs

-----------------------------------------------------------------------------
(***************************************************************************)
(* The degree of multiprogramming.                                         *)
(*                                                                         *)
(* The inductive invariant: the token count alone is inductive once the    *)
(* counters are known to be numbers.                                       *)
(***************************************************************************)
ProgInv == ProgTypeOK /\ SinPlazaPerdida

LEMMA ProgInitInv == ProgInit => ProgInv
  BY GradosAssumption
     DEF ProgInit, ProgInv, ProgTypeOK, SinPlazaPerdida, FichasVivas

(* remove_prog gives a token back whenever it leaves a free slot. *)
LEMMA RemoveProgInv ==
  ASSUME ProgInv, RemoveProg,
         \/ UNCHANGED admision
         \/ admision = "admitido" /\ admision' = "fuera"
  PROVE  ProgInv'
  BY DEF ProgInv, ProgTypeOK, SinPlazaPerdida, FichasVivas, RemoveProg

(* modificar_grado gives one token per slot it adds. *)
LEMMA ModificarGradoInv ==
  ASSUME ProgInv, NEW valor \in Int, ModificarGrado(valor)
  PROVE  ProgInv'
  BY DEF ProgInv, ProgTypeOK, SinPlazaPerdida, FichasVivas, ModificarGrado

(* Every step of the callers preserves it, whatever the bound. *)
LEMMA ProgPasoInv == ProgInv /\ [ProgPaso]_prog_vars => ProgInv'
<1> SUFFICES ASSUME ProgInv, [ProgPaso]_prog_vars PROVE ProgInv'
  OBVIOUS
<1> USE DEF ProgInv, ProgTypeOK, SinPlazaPerdida, FichasVivas
<1>1. CASE LlamaAddProg
  BY <1>1 DEF LlamaAddProg
<1>2. CASE TomaFicha
  BY <1>2 DEF TomaFicha
<1>3. CASE AddProg
  BY <1>3 DEF AddProg
<1>4. CASE ReintentaAddProg
  BY <1>4 DEF ReintentaAddProg
<1>5. CASE Sigue
  BY <1>5 DEF Sigue
<1>6. CASE Sale
  BY <1>6, RemoveProgInv DEF Sale
<1>7. CASE CrearSale
  BY <1>7, RemoveProgInv DEF CrearSale
<1>8. CASE Consola
  <2>1. PICK valor \in Grados : ModificarGrado(valor)
    BY <1>8 DEF Consola
  <2>2. valor \in Int
    BY GradosAssumption
  <2> QED
    BY <2>1, <2>2, ModificarGradoInv
<1>9. CASE UNCHANGED prog_vars
  BY <1>9 DEF prog_vars
<1> QED
  BY <1>1, <1>2, <1>3, <1>4, <1>5, <1>6, <1>7, <1>8, <1>9
     DEF ProgPaso, Pedido

(* The bound only leaves steps out. *)
LEMMA ProgNextPaso == ProgNext => ProgPaso
  BY DEF ProgNext, ProgPaso, SaleAcotado, ConsolaAcotada, Consola

LEMMA ProgNextInv == ProgInv /\ [ProgNext]_prog_vars => ProgInv'
  BY ProgNextPaso, ProgPasoInv

(* No free slot of the degree of multiprogramming is ever lost. *)
THEOREM SinPlazaPerdidaSiempre == ProgSpec => [](ProgTypeOK /\ SinPlazaPerdida)
<1>1. ProgInv => ProgTypeOK /\ SinPlazaPerdida
  BY DEF ProgInv
<1> QED
  BY <1>1, ProgInitInv, ProgNextInv, PTL DEF ProgSpec

(* prog.running passes prog.grado only by the console lowering the latter. *)
THEOREM NoExcedeGradoSiempre == ProgSpec => NoExcedeGrado
<1>1. ASSUME ProgInv, [ProgNext]_prog_vars
      PROVE  [prog_running' > prog_grado' => prog_running' <= prog_running]_prog_vars
  BY <1>1, GradosAssumption, ProgNextPaso
     DEF ProgInv, ProgTypeOK, ProgPaso, Pedido, LlamaAddProg, TomaFicha, AddProg,
         ReintentaAddProg, Sigue, Sale, CrearSale, RemoveProg, Consola,
         ModificarGrado, prog_vars
<1> QED
  BY <1>1, SinPlazaPerdidaSiempre, ProgInitInv, ProgNextInv, PTL
     DEF ProgSpec, NoExcedeGrado

(***************************************************************************)
(* Every behaviour of the token protocol is one of ControlAdmision:        *)
(* taking a token and throwing it away are stutters, AddProg is Admitir.   *)
(***************************************************************************)
THEOREM ImplementaAdmisionSiempre == ProgSpec => ImplementaAdmisionSeguro
<1> USE DEF Abstracto!CANext, Abstracto!Pedir, Abstracto!Admitir,
            Abstracto!Liberar, Abstracto!Seguir, Abstracto!Limitar,
            Abstracto!ca_vars
<1>1. ProgInit => Abstracto!CAInit
  BY DEF ProgInit, Abstracto!CAInit
<1>2. ASSUME ProgInv, [ProgNext]_prog_vars
      PROVE  [Abstracto!CANext]_(Abstracto!ca_vars)
  <2>0. ProgTypeOK
    BY <1>2 DEF ProgInv
  <2>1. CASE LlamaAddProg
    BY <2>1 DEF LlamaAddProg
  <2>2. CASE TomaFicha
    BY <2>2 DEF TomaFicha
  <2>3. CASE AddProg
    BY <2>0, <2>3 DEF AddProg, ProgTypeOK
  <2>4. CASE ReintentaAddProg
    BY <2>4 DEF ReintentaAddProg
  <2>5. CASE Sigue
    BY <2>5 DEF Sigue
  <2>6. CASE Sale
    BY <2>0, <2>6 DEF Sale, RemoveProg, ProgTypeOK
  <2>7. CASE CrearSale
    BY <2>0, <2>7 DEF CrearSale, RemoveProg, ProgTypeOK
  <2>8. CASE Consola
    BY <2>0, <2>8 DEF Consola, ModificarGrado, ProgTypeOK
  <2>9. CASE UNCHANGED prog_vars
    BY <2>9 DEF prog_vars
  <2> QED
    BY <1>2, <2>1, <2>2, <2>3, <2>4, <2>5, <2>6, <2>7, <2>8, <2>9, ProgNextPaso
       DEF ProgPaso, Pedido
<1> QED
  BY <1>1, <1>2, ProgInitInv, ProgNextInv, PTL
     DEF ProgSpec, ImplementaAdmisionSeguro

-----------------------------------------------------------------------------
(***************************************************************************)
(* The resources.                                                          *)
(***************************************************************************)
RecInv == RecTypeOK /\ ColaSegunInstancias /\ EsperaAsignada

LEMMA RecInitInv == RecInit => RecInv
<1> SUFFICES ASSUME RecInit PROVE RecInv
  OBVIOUS
<1>1. RecTypeOK
  BY RecursosAssumption DEF RecInit, RecTypeOK
<1>2. ColaSegunInstancias
  BY RecursosAssumption DEF RecInit, ColaSegunInstancias
<1>3. EsperaAsignada
  BY DEF RecInit, EsperaAsignada, EnCola, Contains, IsInjective
<1> QED
  BY <1>1, <1>2, <1>3 DEF RecInv

(* WAIT by a process that waits for nothing. *)
LEMMA AsignarInv ==
  ASSUME RecInv, NEW p \in PID, NEW r \in IndicesRecursos,
         ~EnCola(p, r), AsignarRecurso(p, r)
  PROVE  RecInv'
<1>1. RecTypeOK /\ ColaSegunInstancias /\ EsperaAsignada
  BY DEF RecInv
<1> DEFINE q == IF Agotado(r) THEN Append(cola_rec[r], p) ELSE cola_rec[r]
<1>2. cola_rec[r] \in Seq(PID) /\ Len(cola_rec[r]) \in Nat
  BY <1>1, LenProperties DEF RecTypeOK
<1>3. /\ q \in Seq(PID)
      /\ Len(q) = IF Agotado(r) THEN Len(cola_rec[r]) + 1 ELSE Len(cola_rec[r])
      /\ \A x : Contains(q, x) => x = p \/ Contains(cola_rec[r], x)
      /\ IsInjective(q)
  BY <1>1, <1>2, AppendHechos DEF EsperaAsignada, EnCola
<1>4. /\ cola_rec' = [cola_rec EXCEPT ![r] = q]
      /\ instancias' = [instancias EXCEPT ![r] = @ - 1]
      /\ asignados' = [asignados EXCEPT ![p][r] = @ + 1]
  BY DEF AsignarRecurso
<1> HIDE DEF q
<1>5. RecTypeOK'
  BY <1>1, <1>3, <1>4 DEF RecTypeOK
<1>6. ColaSegunInstancias'
  <2> SUFFICES ASSUME NEW s \in IndicesRecursos
               PROVE  Len(cola_rec'[s]) = IF instancias'[s] < 0
                                          THEN -instancias'[s] ELSE 0
    BY DEF ColaSegunInstancias
  <2>1. Len(cola_rec[s]) = IF instancias[s] < 0 THEN -instancias[s] ELSE 0
    BY <1>1 DEF ColaSegunInstancias
  <2>2. cola_rec'[s] = IF s = r THEN q ELSE cola_rec[s]
    BY <1>1, <1>4 DEF RecTypeOK
  <2>3. instancias'[s] = (IF s = r THEN instancias[s] - 1 ELSE instancias[s])
        /\ instancias[s] \in Int
    BY <1>1, <1>4 DEF RecTypeOK
  <2> QED
    BY <1>2, <1>3, <2>1, <2>2, <2>3 DEF Agotado
<1>7. EsperaAsignada'
  <2> SUFFICES ASSUME NEW x \in PID, NEW s \in IndicesRecursos
               PROVE  /\ Contains(cola_rec'[s], x) => asignados'[x][s] > 0
                      /\ IsInjective(cola_rec'[s])
    BY DEF EsperaAsignada, EnCola
  <2>1. /\ Contains(cola_rec[s], x) => asignados[x][s] > 0
        /\ IsInjective(cola_rec[s])
    BY <1>1 DEF EsperaAsignada, EnCola
  <2>2. cola_rec'[s] = IF s = r THEN q ELSE cola_rec[s]
    BY <1>1, <1>4 DEF RecTypeOK
  <2>3. /\ asignados[x][s] \in Nat
        /\ asignados'[x][s] = IF x = p /\ s = r THEN asignados[x][s] + 1
                              ELSE asignados[x][s]
    BY <1>1, <1>4 DEF RecTypeOK
  <2> QED
    BY <1>3, <2>1, <2>2, <2>3
<1> QED
  BY <1>5, <1>6, <1>7 DEF RecInv

(* SIGNAL, or one turn of the release loop, by any process: a waiting one  *)
(* leaves the queue, otherwise the head does.                              *)
LEMMA DesasignarInv ==
  ASSUME RecInv, NEW p \in PID, NEW r \in IndicesRecursos,
         DesasignarRecurso(p, r)
  PROVE  RecInv'
<1>1. RecTypeOK /\ ColaSegunInstancias /\ EsperaAsignada
  BY DEF RecInv
<1> DEFINE c == cola_rec[r]
           q == IF ~HayEspera(r) THEN c
                ELSE IF EnCola(p, r) THEN RemoveFirst(c, p) ELSE Tail(c)
<1>2. c \in Seq(PID) /\ Len(c) \in Nat /\ instancias[r] \in Int
  BY <1>1, LenProperties DEF RecTypeOK
<1>3. Len(c) = IF instancias[r] < 0 THEN -instancias[r] ELSE 0
  BY <1>1 DEF ColaSegunInstancias
<1>4. IsInjective(c)
  BY <1>1 DEF EsperaAsignada
<1>5. HayEspera(r) => c # <<>>
  BY <1>2, <1>3 DEF HayEspera
<1>6. /\ q \in Seq(PID)
      /\ Len(q) = IF HayEspera(r) THEN Len(c) - 1 ELSE Len(c)
      /\ \A x : Contains(q, x) => Contains(c, x)
      /\ IsInjective(q)
  BY <1>2, <1>4, <1>5, RemoveFirstHechos, TailHechos DEF EnCola
<1>7. ~Contains(q, p)
  <2>1. Contains(c, p) => HayEspera(r)
    BY <1>2, <1>3 DEF Contains, HayEspera
  <2>2. Contains(c, p) => ~Contains(RemoveFirst(c, p), p)
    BY <1>2, <1>4, RemoveFirstHechos
  <2> QED
    BY <1>6, <2>1, <2>2 DEF EnCola
<1>8. /\ cola_rec' = [cola_rec EXCEPT ![r] = q]
      /\ instancias' = [instancias EXCEPT ![r] = @ + 1]
      /\ asignados' = [asignados EXCEPT ![p][r] = IF @ > 0 THEN @ - 1 ELSE @]
  BY DEF DesasignarRecurso
<1> HIDE DEF q
<1>9. RecTypeOK'
  BY <1>1, <1>6, <1>8 DEF RecTypeOK
<1>10. ColaSegunInstancias'
  <2> SUFFICES ASSUME NEW s \in IndicesRecursos
               PROVE  Len(cola_rec'[s]) = IF instancias'[s] < 0
                                          THEN -instancias'[s] ELSE 0
    BY DEF ColaSegunInstancias
  <2>1. Len(cola_rec[s]) = IF instancias[s] < 0 THEN -instancias[s] ELSE 0
    BY <1>1 DEF ColaSegunInstancias
  <2>2. cola_rec'[s] = IF s = r THEN q ELSE cola_rec[s]
    BY <1>1, <1>8 DEF RecTypeOK
  <2>3. instancias'[s] = (IF s = r THEN instancias[s] + 1 ELSE instancias[s])
        /\ instancias[s] \in Int
    BY <1>1, <1>8 DEF RecTypeOK
  <2> QED
    BY <1>2, <1>3, <1>6, <2>1, <2>2, <2>3 DEF HayEspera
<1>11. EsperaAsignada'
  <2> SUFFICES ASSUME NEW x \in PID, NEW s \in IndicesRecursos
               PROVE  /\ Contains(cola_rec'[s], x) => asignados'[x][s] > 0
                      /\ IsInjective(cola_rec'[s])
    BY DEF EsperaAsignada, EnCola
  <2>1. /\ Contains(cola_rec[s], x) => asignados[x][s] > 0
        /\ IsInjective(cola_rec[s])
    BY <1>1 DEF EsperaAsignada, EnCola
  <2>2. cola_rec'[s] = IF s = r THEN q ELSE cola_rec[s]
    BY <1>1, <1>8 DEF RecTypeOK
  <2>3. x # p \/ s # r => asignados'[x][s] = asignados[x][s]
    BY <1>1, <1>8 DEF RecTypeOK
  <2> QED
    BY <1>6, <1>7, <2>1, <2>2, <2>3
<1> QED
  BY <1>9, <1>10, <1>11 DEF RecInv

(* Every step of a caller that keeps to the discipline preserves it. *)
LEMMA RecPasoInv == RecInv /\ [RecPaso]_rec_vars => RecInv'
<1> SUFFICES ASSUME RecInv, [RecPaso]_rec_vars PROVE RecInv'
  OBVIOUS
<1>1. CASE RecPaso
  <2>1. PICK p \in PID, r \in IndicesRecursos :
          Wait(p, r) \/ Signal(p, r) \/ Libera(p, r)
    BY <1>1 DEF RecPaso
  <2>2. CASE Wait(p, r)
    BY <2>2, AsignarInv DEF Wait, Libre
  <2>3. CASE Signal(p, r)
    BY <2>3, DesasignarInv DEF Signal
  <2>4. CASE Libera(p, r)
    BY <2>4, DesasignarInv DEF Libera
  <2> QED
    BY <2>1, <2>2, <2>3, <2>4
<1>2. CASE UNCHANGED rec_vars
  BY <1>2 DEF rec_vars, RecInv, RecTypeOK, ColaSegunInstancias,
              EsperaAsignada, EnCola
<1> QED
  BY <1>1, <1>2

(* The bounds only leave steps out. *)
LEMMA RecNextInv == RecInv /\ [RecNext]_rec_vars => RecInv'
<1>1. RecNext => RecPaso
  BY DEF RecNext, RecPaso, WaitAcotado, SignalAcotado
<1> QED
  BY <1>1, RecPasoInv

(***************************************************************************)
(* The queue_pop of desbloquear_proceso_rec never finds the queue empty.   *)
(***************************************************************************)
THEOREM ColaSegunInstanciasSiempre == RecSpec => []ColaSegunInstancias
<1>1. RecInv => ColaSegunInstancias
  BY DEF RecInv
<1> QED
  BY <1>1, RecInitInv, RecNextInv, PTL DEF RecSpec

(* A process in a queue holds what it waits for and is there once. *)
THEOREM EsperaAsignadaSiempre == RecSpec => []EsperaAsignada
<1>1. RecInv => EsperaAsignada
  BY DEF RecInv
<1> QED
  BY <1>1, RecInitInv, RecNextInv, PTL DEF RecSpec

-----------------------------------------------------------------------------
(***************************************************************************)
(* Sums over a finite set, as FoldFunction makes them: by recursion on an  *)
(* element that CHOOSE gives.  Induction over the set is had from a set of *)
(* counterexamples and a smallest one in it.                               *)
(***************************************************************************)
Elegido(s) == CHOOSE x \in s : TRUE

(* g is the recursive function inside FoldFunction(+, 0, f). *)
SumaDe(f, g, s) == IF s = {} THEN 0 ELSE f[Elegido(s)] + g[s \ {Elegido(s)}]
EsSuma(f, D, g) == g = [s \in SUBSET D |-> SumaDe(f, g, s)]

(* The element a sum takes next. *)
LEMMA ElegidoEsta == ASSUME NEW s, s # {} PROVE Elegido(s) \in s
  BY DEF Elegido

(* A set of subsets of a finite set has one that is no longer in it        *)
(* whatever element is taken away.                                         *)
LEMMA MenorConjunto ==
  ASSUME NEW D, IsFiniteSet(D), NEW T \in SUBSET SUBSET D, T # {}
  PROVE  \E s \in T : \A x \in s : s \ {x} \notin T
<1> DEFINE N == {Cardinality(s) : s \in T}
<1>1. \A s \in SUBSET D : IsFiniteSet(s) /\ Cardinality(s) \in Nat
  BY FS_Subset, FS_CardinalityType
<1>2. N \in SUBSET Nat /\ N # {}
  BY <1>1
<1>3. Min(N) \in N /\ \A y \in N : Min(N) <= y
  BY <1>2, MinimoExiste
<1>4. PICK s \in T : Cardinality(s) = Min(N)
  BY <1>3
<1>5. ASSUME NEW x \in s, s \ {x} \in T PROVE FALSE
  <2>1. Cardinality(s \ {x}) = Cardinality(s) - 1
    BY <1>1, FS_RemoveElement
  <2>2. Min(N) <= Cardinality(s \ {x})
    BY <1>3, <1>5
  <2> QED
    BY <1>1, <1>4, <2>1, <2>2
<1> QED
  BY <1>5

(* The recursion of a sum has a solution. *)
LEMMA SumaExiste ==
  ASSUME NEW D, IsFiniteSet(D), NEW f \in [D -> Nat]
  PROVE  \E g \in [SUBSET D -> Nat] : EsSuma(f, D, g)
<1> DEFINE Hasta(n, g) ==
             \A s \in SUBSET D : Cardinality(s) <= n => g[s] = SumaDe(f, g, s)
           T == {n \in Nat : ~ \E g \in [SUBSET D -> Nat] : Hasta(n, g)}
<1>1. \A s \in SUBSET D : IsFiniteSet(s) /\ Cardinality(s) \in Nat
  BY FS_Subset, FS_CardinalityType
<1>2. ASSUME NEW g \in [SUBSET D -> Nat], NEW s \in SUBSET D
      PROVE  SumaDe(f, g, s) \in Nat
  BY ElegidoEsta DEF SumaDe
<1>3. 0 \notin T
  <2> DEFINE g == [s \in SUBSET D |-> 0]
  <2>1. g \in [SUBSET D -> Nat]
    OBVIOUS
  <2>2. ASSUME NEW s \in SUBSET D, Cardinality(s) <= 0
        PROVE  g[s] = SumaDe(f, g, s)
    <3>1. s = {}
      BY <1>1, <2>2, FS_EmptySet
    <3> QED
      BY <3>1 DEF SumaDe
  <2> HIDE DEF g
  <2> QED
    BY <2>1, <2>2
<1>4. ASSUME NEW m \in Nat \ {0}, m \in T PROVE m - 1 \in T
  <2> SUFFICES ASSUME m - 1 \notin T PROVE FALSE
    OBVIOUS
  <2>1. PICK g \in [SUBSET D -> Nat] : Hasta(m - 1, g)
    <3>1. m - 1 \in Nat
      OBVIOUS
    <3> HIDE DEF Hasta
    <3> QED
      BY <3>1
  <2> DEFINE h == [s \in SUBSET D |-> SumaDe(f, g, s)]
  <2>2. h \in [SUBSET D -> Nat]
    BY <1>2
  <2>3. ASSUME NEW s \in SUBSET D, Cardinality(s) <= m
        PROVE  h[s] = SumaDe(f, h, s)
    <3>1. CASE s = {}
      BY <3>1 DEF SumaDe
    <3>2. CASE s # {}
      <4> DEFINE e == Elegido(s)
                 t == s \ {e}
      <4>1. e \in s
        BY <3>2, ElegidoEsta
      <4>2. t \in SUBSET D /\ Cardinality(t) = Cardinality(s) - 1
        BY <1>1, <4>1, FS_RemoveElement
      <4>3. Cardinality(t) <= m - 1
        BY <1>1, <2>3, <4>2
      <4>4. g[t] = h[t]
        BY <2>1, <4>2, <4>3
      <4>5. h[s] = f[e] + g[t]
        BY <3>2 DEF SumaDe
      <4> QED
        BY <3>2, <4>4, <4>5 DEF SumaDe
    <3> QED
      BY <3>1, <3>2
  <2> HIDE DEF h
  <2>4. Hasta(m, h)
    BY <2>3
  <2> HIDE DEF Hasta
  <2> QED
    BY <1>4, <2>2, <2>4
<1>5. T = {}
  <2> SUFFICES ASSUME T # {} PROVE FALSE
    OBVIOUS
  <2>1. Min(T) \in T /\ \A y \in T : Min(T) <= y
    BY MinimoExiste
  <2>2. Min(T) \in Nat \ {0}
    BY <1>3, <2>1
  <2> HIDE DEF T
  <2>3. Min(T) - 1 \in T
    BY <1>4, <2>1, <2>2
  <2> QED
    BY <2>1, <2>2, <2>3
<1>6. Cardinality(D) \in Nat
  BY <1>1
<1>7. PICK g \in [SUBSET D -> Nat] : Hasta(Cardinality(D), g)
  BY <1>5, <1>6
<1>8. ASSUME NEW s \in SUBSET D PROVE g[s] = SumaDe(f, g, s)
  <2>1. Cardinality(s) <= Cardinality(D)
    BY FS_Subset
  <2> QED
    BY <1>7, <2>1
<1>9. g = [s \in SUBSET D |-> SumaDe(f, g, s)]
  BY <1>8
<1> QED
  BY <1>9 DEF EsSuma

(* A sum of naturals is one. *)
LEMMA SumaEnNat ==
  ASSUME NEW D, IsFiniteSet(D), NEW f \in [D -> Nat], NEW g, EsSuma(f, D, g)
  PROVE  \A s \in SUBSET D : g[s] \in Nat
<1> DEFINE T == {s \in SUBSET D : g[s] \notin Nat}
<1> SUFFICES ASSUME T # {} PROVE FALSE
  OBVIOUS
<1>1. PICK s \in T : \A x \in s : s \ {x} \notin T
  BY MenorConjunto, Zenon
<1>2. g[s] = SumaDe(f, g, s)
  BY DEF EsSuma
<1>3. CASE s = {}
  BY <1>2, <1>3 DEF SumaDe
<1>4. CASE s # {}
  <2>1. Elegido(s) \in s
    BY <1>4, ElegidoEsta
  <2>2. g[s \ {Elegido(s)}] \in Nat /\ f[Elegido(s)] \in Nat
    BY <1>1, <2>1
  <2> QED
    BY <1>2, <1>4, <2>2 DEF SumaDe
<1> QED
  BY <1>3, <1>4

(* Changing one of the numbers changes the sum by the same. *)
LEMMA SumaCambia ==
  ASSUME NEW D, IsFiniteSet(D), NEW f \in [D -> Nat], NEW h \in [D -> Nat],
         NEW p \in D, \A q \in D \ {p} : h[q] = f[q],
         NEW g, EsSuma(f, D, g), NEW k, EsSuma(h, D, k)
  PROVE  \A s \in SUBSET D : k[s] = g[s] + (IF p \in s THEN h[p] - f[p] ELSE 0)
<1> DEFINE Bien(s) == k[s] = g[s] + (IF p \in s THEN h[p] - f[p] ELSE 0)
           T == {s \in SUBSET D : ~Bien(s)}
<1> SUFFICES ASSUME T # {} PROVE FALSE
  OBVIOUS
<1>1. PICK s \in T : \A x \in s : s \ {x} \notin T
  BY MenorConjunto, Zenon
<1>2. g[s] = SumaDe(f, g, s) /\ k[s] = SumaDe(h, k, s)
  BY DEF EsSuma
<1>3. CASE s = {}
  BY <1>2, <1>3 DEF SumaDe
<1>4. CASE s # {}
  <2> DEFINE e == Elegido(s)
             t == s \ {e}
  <2>1. e \in s
    BY <1>4, ElegidoEsta
  <2>2. t \in SUBSET D /\ Bien(t)
    BY <1>1, <2>1
  <2>3. g[t] \in Nat /\ k[t] \in Nat
    BY <2>2, SumaEnNat
  <2>4. g[s] = f[e] + g[t] /\ k[s] = h[e] + k[t]
    BY <1>2, <1>4 DEF SumaDe
  <2>5. f[e] \in Nat /\ h[e] \in Nat /\ f[p] \in Nat /\ h[p] \in Nat
    BY <2>1
  <2>6. p \in t <=> p \in s /\ p # e
    OBVIOUS
  <2>7. e # p => h[e] = f[e]
    BY <2>1
  <2>8. k[t] = g[t] + (IF p \in t THEN h[p] - f[p] ELSE 0)
    BY <2>2
  <2>9. Bien(s)
    <3> HIDE DEF e, t
    <3>1. CASE e = p
      BY <2>1, <2>3, <2>4, <2>5, <2>6, <2>8, <3>1
    <3>2. CASE e # p
      BY <2>3, <2>4, <2>5, <2>6, <2>7, <2>8, <3>2
    <3> QED
      BY <3>1, <3>2
  <2> QED
    BY <2>9
<1> QED
  BY <1>3, <1>4

(* FoldFunction(+, 0, f) is what its recursive function gives for the      *)
(* whole domain.                                                           *)
LEMMA FoldEsSuma ==
  ASSUME NEW D, IsFiniteSet(D), NEW f \in [D -> Nat]
  PROVE  \E g : EsSuma(f, D, g) /\ FoldFunction(+, 0, f) = g[D]
<1> DEFINE iter == CHOOSE g : g = [s \in SUBSET D |->
                     IF s = {} THEN 0
                     ELSE f[CHOOSE x \in s : TRUE] + g[s \ {CHOOSE x \in s : TRUE}]]
<1>1. iter = CHOOSE g : EsSuma(f, D, g)
  BY DEF EsSuma, SumaDe, Elegido
<1>2. EsSuma(f, D, iter)
  BY <1>1, SumaExiste
<1>3. DOMAIN f = D
  OBVIOUS
<1>4. FoldFunction(+, 0, f) = iter[D]
  BY <1>3 DEF FoldFunction, FoldFunctionOnSet, MapThenFoldSet
<1> QED
  BY <1>2, <1>4

(* A sum of naturals is a natural, and it changes as much as the only term *)
(* that changes.                                                           *)
SumaSobre(f) == FoldFunction(+, 0, f)

LEMMA SumaSobreEnNat ==
  ASSUME NEW D, IsFiniteSet(D), NEW f \in [D -> Nat]
  PROVE  SumaSobre(f) \in Nat
<1>1. PICK g : EsSuma(f, D, g) /\ SumaSobre(f) = g[D]
  BY FoldEsSuma DEF SumaSobre
<1>2. D \in SUBSET D /\ EsSuma(f, D, g)
  BY <1>1
<1>3. g[D] \in Nat
  BY <1>2, SumaEnNat
<1> QED
  BY <1>1, <1>3

LEMMA SumaSobreCambia ==
  ASSUME NEW D, IsFiniteSet(D), NEW f \in [D -> Nat], NEW h \in [D -> Nat],
         NEW p \in D, \A q \in D \ {p} : h[q] = f[q]
  PROVE  SumaSobre(h) = SumaSobre(f) + (h[p] - f[p])
<1>1. PICK g : EsSuma(f, D, g) /\ SumaSobre(f) = g[D]
  BY FoldEsSuma DEF SumaSobre
<1>2. PICK k : EsSuma(h, D, k) /\ SumaSobre(h) = k[D]
  BY FoldEsSuma DEF SumaSobre
<1>3. EsSuma(f, D, g) /\ EsSuma(h, D, k) /\ D \in SUBSET D
  BY <1>1, <1>2
<1>4. k[D] = g[D] + (IF p \in D THEN h[p] - f[p] ELSE 0)
  BY <1>3, SumaCambia
<1> QED
  BY <1>1, <1>2, <1>4

LEMMA SumaAsignadosEs ==
  ASSUME NEW r
  PROVE  /\ SumaAsignados(r) = SumaSobre([q \in PID |-> asignados[q][r]])
         /\ SumaAsignados(r)' = SumaSobre([q \in PID |-> asignados'[q][r]])
<1>1. SumaAsignados(r) = SumaSobre([q \in PID |-> asignados[q][r]])
  BY DEF SumaAsignados, SumaSobre
<1>2. SumaAsignados(r)' = SumaSobre([q \in PID |-> asignados'[q][r]])
  BY DEF SumaAsignados, SumaSobre, FoldFunction, FoldFunctionOnSet,
         MapThenFoldSet
<1> QED
  BY <1>1, <1>2

(* What is assigned of r when only what p has of it changes. *)
LEMMA SumaAsignadosCambia ==
  ASSUME IsFiniteSet(PID), RecTypeOK, RecTypeOK', NEW p \in PID,
         NEW r \in IndicesRecursos,
         \A q \in PID \ {p} : asignados'[q][r] = asignados[q][r]
  PROVE  /\ SumaAsignados(r) \in Nat
         /\ SumaAsignados(r)' =
              SumaAsignados(r) + (asignados'[p][r] - asignados[p][r])
<1> DEFINE f == [q \in PID |-> asignados[q][r]]
           h == [q \in PID |-> asignados'[q][r]]
<1>1. f \in [PID -> Nat] /\ h \in [PID -> Nat]
  BY DEF RecTypeOK
<1>2. \A q \in PID \ {p} : h[q] = f[q]
  OBVIOUS
<1>3. f[p] = asignados[p][r] /\ h[p] = asignados'[p][r]
  OBVIOUS
<1>4. SumaAsignados(r) = SumaSobre(f) /\ SumaAsignados(r)' = SumaSobre(h)
  BY SumaAsignadosEs
<1> HIDE DEF f, h
<1>5. SumaSobre(f) \in Nat /\ SumaSobre(h) = SumaSobre(f) + (h[p] - f[p])
  BY <1>1, <1>2, SumaSobreEnNat, SumaSobreCambia
<1> QED
  BY <1>3, <1>4, <1>5

(* A step on r by p that lowers what p has by no more than it adds to the  *)
(* counter loses no instance, of r or of another resource.                 *)
LEMMA SinPerdidaPaso ==
  ASSUME IsFiniteSet(PID), RecTypeOK, RecTypeOK', SinInstanciaPerdida,
         NEW p \in PID, NEW r \in IndicesRecursos,
         \A q \in PID, s \in IndicesRecursos :
            q # p \/ s # r => asignados'[q][s] = asignados[q][s],
         \A s \in IndicesRecursos \ {r} : instancias'[s] = instancias[s],
         instancias'[r] + asignados'[p][r] >= instancias[r] + asignados[p][r]
  PROVE  SinInstanciaPerdida'
<1> SUFFICES ASSUME NEW s \in IndicesRecursos
             PROVE  instancias'[s] + SumaAsignados(s)' >= InstanciasIniciales[s]
  BY DEF SinInstanciaPerdida
<1>1. InstanciasIniciales[s] \in Nat
  BY RecursosAssumption
<1>2. /\ instancias[s] \in Int /\ instancias'[s] \in Int
      /\ asignados[p][s] \in Nat /\ asignados'[p][s] \in Nat
  BY DEF RecTypeOK
<1>3. instancias[s] + SumaAsignados(s) >= InstanciasIniciales[s]
  BY DEF SinInstanciaPerdida
<1>4. \A q \in PID \ {p} : asignados'[q][s] = asignados[q][s]
  OBVIOUS
<1>5. /\ SumaAsignados(s) \in Nat
      /\ SumaAsignados(s)' =
           SumaAsignados(s) + (asignados'[p][s] - asignados[p][s])
  BY <1>4, SumaAsignadosCambia
<1>6. instancias'[s] + asignados'[p][s] >= instancias[s] + asignados[p][s]
  <2>1. CASE s = r
    BY <2>1
  <2>2. CASE s # r
    BY <1>2, <2>2
  <2> QED
    BY <2>1, <2>2
<1> QED
  BY <1>1, <1>2, <1>3, <1>5, <1>6

LEMMA SinPerdidaInit ==
  ASSUME IsFiniteSet(PID), RecInit PROVE SinInstanciaPerdida
<1> SUFFICES ASSUME NEW r \in IndicesRecursos
             PROVE  instancias[r] + SumaAsignados(r) >= InstanciasIniciales[r]
  BY DEF SinInstanciaPerdida
<1> DEFINE f == [p \in PID |-> asignados[p][r]]
<1>1. f \in [PID -> Nat]
  BY DEF RecInit
<1>2. SumaSobre(f) \in Nat
  BY <1>1, SumaSobreEnNat
<1>3. SumaAsignados(r) \in Nat
  BY <1>2, SumaAsignadosEs
<1>4. instancias[r] = InstanciasIniciales[r] /\ InstanciasIniciales[r] \in Nat
  BY RecursosAssumption DEF RecInit
<1> QED
  BY <1>3, <1>4

LEMMA SinPerdidaNext ==
  ASSUME IsFiniteSet(PID), RecInv, SinInstanciaPerdida, [RecNext]_rec_vars
  PROVE  SinInstanciaPerdida'
<1>1. RecTypeOK /\ RecTypeOK'
  BY RecNextInv DEF RecInv
<1>2. CASE RecNext
  <2>1. PICK p \in PID, r \in IndicesRecursos :
          AsignarRecurso(p, r) \/ DesasignarRecurso(p, r)
    BY <1>2 DEF RecNext, WaitAcotado, SignalAcotado, Wait, Signal, Libera
  <2>2. /\ \A q \in PID, s \in IndicesRecursos :
             q # p \/ s # r => asignados'[q][s] = asignados[q][s]
        /\ \A s \in IndicesRecursos \ {r} : instancias'[s] = instancias[s]
    <3>1. CASE AsignarRecurso(p, r)
      BY <1>1, <3>1 DEF AsignarRecurso, RecTypeOK
    <3>2. CASE DesasignarRecurso(p, r)
      BY <1>1, <3>2 DEF DesasignarRecurso, RecTypeOK
    <3> QED
      BY <2>1, <3>1, <3>2
  <2>3. asignados[p][r] \in Nat /\ instancias[r] \in Int
    BY <1>1 DEF RecTypeOK
  <2>4. instancias'[r] + asignados'[p][r] >= instancias[r] + asignados[p][r]
    <3>1. CASE AsignarRecurso(p, r)
      <4>1. /\ instancias'[r] = instancias[r] - 1
            /\ asignados'[p][r] = asignados[p][r] + 1
        BY <1>1, <3>1 DEF AsignarRecurso, RecTypeOK
      <4> QED
        BY <2>3, <4>1
    <3>2. CASE DesasignarRecurso(p, r)
      <4>1. /\ instancias'[r] = instancias[r] + 1
            /\ asignados'[p][r] = IF asignados[p][r] > 0
                                  THEN asignados[p][r] - 1 ELSE asignados[p][r]
        BY <1>1, <3>2 DEF DesasignarRecurso, RecTypeOK
      <4> QED
        BY <2>3, <4>1
    <3> QED
      BY <2>1, <3>1, <3>2
  <2> QED
    BY <1>1, <2>2, <2>4, SinPerdidaPaso
<1>3. CASE UNCHANGED rec_vars
  <2>1. instancias' = instancias /\ asignados' = asignados
    BY <1>3 DEF rec_vars
  <2>2. \A r : SumaAsignados(r)' = SumaAsignados(r)
    BY <2>1, SumaAsignadosEs
  <2> QED
    BY <2>1, <2>2 DEF SinInstanciaPerdida
<1> QED
  BY <1>2, <1>3

(***************************************************************************)
(* No instance of a resource is lost, whoever is killed while it waits or  *)
(* holds (asignar_recurso, desasignar_recurso): the counter plus what all  *)
(* processes are assigned never goes below what the config file gives.     *)
(* That there are finitely many processes is what a PID being an int gives.*)
(***************************************************************************)
THEOREM SinInstanciaPerdidaSiempre ==
  ASSUME IsFiniteSet(PID)
  PROVE  RecSpec => []SinInstanciaPerdida
<1>1. RecInit => RecInv /\ SinInstanciaPerdida
  BY RecInitInv, SinPerdidaInit
<1>2. RecInv /\ SinInstanciaPerdida /\ [RecNext]_rec_vars
        => RecInv' /\ SinInstanciaPerdida'
  BY RecNextInv, SinPerdidaNext
<1> QED
  BY <1>1, <1>2, PTL DEF RecSpec

-----------------------------------------------------------------------------
(***************************************************************************)
(* Powers of two.  The provers know nothing of ^ but a few numerals: that  *)
(* 2^n is a number and doubles comes from FS_SUBSET, for 2^n counts the    *)
(* subsets of a set of n elements.                                         *)
(***************************************************************************)
Potencia(n) == 2^n

LEMMA PotenciaEnNat == ASSUME NEW n \in Nat PROVE Potencia(n) \in Nat \ {0}
<1> DEFINE S == 1..n
<1>1. IsFiniteSet(S) /\ Cardinality(S) = n
  BY FS_Interval
<1>2. IsFiniteSet(SUBSET S) /\ Cardinality(SUBSET S) = Potencia(n)
  BY <1>1, FS_SUBSET DEF Potencia
<1>3. SUBSET S # {}
  OBVIOUS
<1> HIDE DEF S
<1>4. Cardinality(SUBSET S) \in Nat /\ Cardinality(SUBSET S) # 0
  BY <1>2, <1>3, FS_CardinalityType, FS_EmptySet
<1> QED
  BY <1>2, <1>4

LEMMA PotenciaDoble == ASSUME NEW n \in Nat 
  PROVE  Potencia(n + 1) = 2 * Potencia(n)
<1> DEFINE A == 1..n
           x == n + 1
           Ax == {B \union {x} : B \in SUBSET A}
           f == [B \in SUBSET A |-> B \union {x}]
<1>1. IsFiniteSet(A) /\ Cardinality(A) = n /\ x \notin A
  BY FS_Interval
<1>2. IsFiniteSet(A \union {x}) /\ Cardinality(A \union {x}) = n + 1
  BY <1>1, FS_AddElement
<1>3. IsFiniteSet(SUBSET A) /\ Cardinality(SUBSET A) = Potencia(n)
  BY <1>1, FS_SUBSET DEF Potencia
<1>4. Cardinality(SUBSET (A \union {x})) = Potencia(n + 1)
  BY <1>2, FS_SUBSET DEF Potencia
<1> HIDE DEF A, x
<1>5. SUBSET (A \union {x}) = (SUBSET A) \union Ax
  <2>1. ASSUME NEW C \in SUBSET (A \union {x}) PROVE C \in (SUBSET A) \union Ax
    <3>1. CASE x \in C
      <4>1. C \ {x} \in SUBSET A /\ C = (C \ {x}) \union {x}
        BY <3>1
      <4> QED
        BY <4>1
    <3>2. CASE x \notin C
      BY <3>2
    <3> QED
      BY <3>1, <3>2
  <2> QED
    BY <2>1
<1>6. (SUBSET A) \intersect Ax = {}
  BY <1>1
<1>7. ExistsBijection(SUBSET A, Ax)
  <2>1. f \in [SUBSET A -> Ax]
    OBVIOUS
  <2>2. ASSUME NEW B \in SUBSET A, NEW C \in SUBSET A, f[B] = f[C] PROVE B = C
    <3>1. B \union {x} = C \union {x}
      BY <2>2
    <3> QED
      BY <1>1, <3>1
  <2>3. \A y \in Ax : \E B \in SUBSET A : f[B] = y
    OBVIOUS
  <2> HIDE DEF f, Ax
  <2>4. f \in Bijection(SUBSET A, Ax)
    <3>1. DOMAIN f = SUBSET A
      BY <2>1
    <3>2. f \in Injection(SUBSET A, Ax)
      BY <2>1, <2>2, <3>1, Zenon DEF Injection, IsInjective
    <3>3. f \in Surjection(SUBSET A, Ax)
      BY <2>1, <2>3, Zenon DEF Surjection
    <3> QED
      BY <3>2, <3>3, Zenon DEF Bijection
  <2> QED
    BY <2>4 DEF ExistsBijection
<1>8. IsFiniteSet(Ax) /\ Cardinality(Ax) = Potencia(n)
  BY <1>3, <1>7, FS_Bijection
<1> HIDE DEF Ax
<1>9. Cardinality((SUBSET A) \union Ax)
        = Potencia(n) + Potencia(n) - Cardinality((SUBSET A) \intersect Ax)
  BY <1>3, <1>8, FS_Union
<1>10. Cardinality((SUBSET A) \union Ax) = Potencia(n) + Potencia(n)
  <2>1. Cardinality((SUBSET A) \intersect Ax) = 0
    BY <1>6, FS_EmptySet
  <2> QED
    BY <1>9, <2>1, PotenciaEnNat
<1>11. Potencia(n + 1) = Potencia(n) + Potencia(n)
  BY <1>4, <1>5, <1>10, Zenon
<1> QED
  BY <1>11, PotenciaEnNat

(* A power of two divides a greater one. *)
LEMMA PotenciaDivide ==
  ASSUME NEW a \in Nat, NEW b \in Nat, a <= b
  PROVE  \E k \in Nat \ {0} : Potencia(b) = k * Potencia(a)
<1> DEFINE Divide(d) == \E k \in Nat \ {0} : Potencia(a + d) = k * Potencia(a)
           T == {d \in Nat : ~Divide(d)}
<1>0. Potencia(a) \in Nat
  BY PotenciaEnNat
<1>1. ASSUME T # {} PROVE FALSE
  <2>1. Min(T) \in T /\ \A y \in T : Min(T) <= y
    BY <1>1, MinimoExiste
  <2>2. Divide(0)
    <3>1. a + 0 = a /\ Potencia(a) = 1 * Potencia(a)
      BY <1>0
    <3> QED
      BY <3>1
  <2>3. Min(T) \in Nat \ {0}
    BY <2>1, <2>2
  <2> DEFINE d == Min(T) - 1
  <2>4. d \in Nat /\ Divide(d)
    <3>1. d \in Nat /\ ~(Min(T) <= d)
      BY <2>3
    <3>2. d \notin T
      BY <2>1, <3>1
    <3> HIDE DEF Divide, d
    <3> QED
      BY <3>1, <3>2
  <2>5. PICK k \in Nat \ {0} : Potencia(a + d) = k * Potencia(a)
    BY <2>4
  <2>6. Potencia((a + d) + 1) = 2 * Potencia(a + d)
    BY <2>4, PotenciaDoble
  <2>7. (a + d) + 1 = a + Min(T)
    BY <2>3
  <2> HIDE DEF T, d
  <2>8. Potencia(a + Min(T)) = (2 * k) * Potencia(a)
    BY <1>0, <2>5, <2>6, <2>7
  <2>9. Divide(Min(T))
    BY <2>8
  <2> QED
    BY <2>1, <2>9 DEF T
<1>2. b - a \in Nat /\ a + (b - a) = b
  OBVIOUS
<1>3. Divide(b - a)
  BY <1>1, <1>2
<1> QED
  BY <1>2, <1>3

(* What % does. *)
LEMMA ModuloHechos ==
  ASSUME NEW M \in Nat \ {0}, NEW x \in Int
  PROVE  /\ x % M \in 0..(M - 1)
         /\ \E q \in Int : x = (q * M) + (x % M)
         /\ x \in 0..(M - 1) => x % M = x
<1>1. x % M \in 0..(M - 1)
  OBVIOUS
<1>2. x \div M \in Int /\ x = ((x \div M) * M) + (x % M)
  OBVIOUS
<1>3. x \in 0..(M - 1) => x % M = x
  OBVIOUS
<1> QED
  BY <1>1, <1>2, <1>3

LEMMA ModuloSuma ==
  ASSUME NEW M \in Nat \ {0}, NEW x \in Int, NEW k \in Int
  PROVE  (x + k * M) % M = x % M
<1> DEFINE y == x + k * M
           r == x % M
           s == y % M
<1>0. y \in Int
  OBVIOUS
<1>1. PICK q \in Int : x = q * M + r
  BY ModuloHechos
<1>2. PICK p \in Int : y = p * M + s
  BY <1>0, ModuloHechos
<1>3. r \in 0..(M - 1) /\ s \in 0..(M - 1)
  BY <1>0, ModuloHechos
<1> DEFINE e == p - q - k
<1> HIDE DEF r, s
<1>4. e \in Int /\ e * M = r - s
  <2>1. p * M + s = q * M + r + k * M
    BY <1>1, <1>2
  <2>2. e * M = p * M - q * M - k * M
    OBVIOUS
  <2>3. p * M \in Int /\ q * M \in Int /\ k * M \in Int
    OBVIOUS
  <2> QED
    BY <1>3, <2>1, <2>2, <2>3
<1> HIDE DEF e
<1>5. e = 0
  <2>1. CASE e > 0
    <3>1. e * M >= M
      BY <1>4, <2>1
    <3> QED
      BY <1>3, <1>4, <3>1
  <2>2. CASE e < 0
    <3>1. e * M <= -M
      BY <1>4, <2>2
    <3> QED
      BY <1>3, <1>4, <3>1
  <2> QED
    BY <1>4, <2>1, <2>2
<1>6. r = s
  BY <1>3, <1>4, <1>5
<1> QED
  BY <1>6 DEF r, s

-----------------------------------------------------------------------------
(* The values a register takes, by its name. *)
Valores(r) == IF r \in RegByte THEN Potencia(BitsByte) ELSE Potencia(BitsInt)

RegsValidos ==
    {regs \in [NombresReg -> Nat] :
        \A r \in NombresReg : regs[r] \in 0..(Valores(r) - 1)}

LEMMA ValoresHechos ==
  ASSUME NEW r
  PROVE  /\ Valores(r) \in Nat \ {0}
         /\ 2^Bits(r) = Valores(r)
         /\ Maquinas!Ancho(r) = Valores(r)
  BY RegistrosAssumption, PotenciaEnNat
     DEF Valores, Bits, Maquinas!Ancho, Potencia

LEMMA TruncaHechos ==
  ASSUME NEW r, NEW v \in Int
  PROVE  /\ Trunca(v, r) = v % Valores(r)
         /\ Trunca(v, r) \in 0..(Valores(r) - 1)
         /\ v \in 0..(Valores(r) - 1) => Trunca(v, r) = v
<1>1. Trunca(v, r) = v % Valores(r) /\ Valores(r) \in Nat \ {0}
  BY ValoresHechos DEF Trunca
<1>2. /\ v % Valores(r) \in 0..(Valores(r) - 1)
      /\ v \in 0..(Valores(r) - 1) => v % Valores(r) = v
  <2> DEFINE w == Valores(r)
  <2>1. w \in Nat \ {0}
    BY <1>1
  <2> HIDE DEF w
  <2>2. v % w \in 0..(w - 1) /\ (v \in 0..(w - 1) => v % w = v)
    BY <2>1, ModuloHechos
  <2> QED
    BY <2>2 DEF w
<1> QED
  BY <1>1, <1>2

(* A byte is half as wide as it needs for a sign, and divides an integer.  *)
LEMMA AnchosHechos ==
  /\ Potencia(BitsByte) = 2 * Potencia(BitsByte - 1)
  /\ Potencia(BitsByte - 1) \in Nat
  /\ \E j \in Nat \ {0} : Potencia(BitsInt) = j * Potencia(BitsByte)
<1>1. BitsByte - 1 \in Nat /\ (BitsByte - 1) + 1 = BitsByte
  BY RegistrosAssumption
<1>2. Potencia((BitsByte - 1) + 1) = 2 * Potencia(BitsByte - 1)
  BY <1>1, PotenciaDoble
<1>3. \E j \in Nat \ {0} : Potencia(BitsInt) = j * Potencia(BitsByte)
  BY RegistrosAssumption, PotenciaDivide
<1> QED
  BY <1>1, <1>2, <1>3, PotenciaEnNat

(* The operand the casts make is the number with sign, modulo the width of *)
(* the destination.                                                        *)
LEMMA OperandoHechos ==
  ASSUME registros \in RegsValidos, NEW d \in NombresReg, NEW o \in NombresReg
  PROVE  \E k \in Int : Operando(d, o)
           = Maquinas!ConSigno(o, registros[o]) + (k * Valores(d))
<1> DEFINE v == registros[o]
           B == Potencia(BitsByte)
           I == Potencia(BitsInt)
           M == Valores(d)
           N == Valores(o)
           h == Potencia(BitsByte - 1)
           s == Maquinas!ConSigno(o, v)
<1>1. v \in Nat /\ v \in 0..(N - 1)
  BY DEF RegsValidos
<1>2. M \in Nat \ {0} /\ N \in Nat \ {0}
  BY ValoresHechos
<1>3. B = 2 * h /\ h \in Nat /\ B \in Nat /\ I \in Nat
  BY AnchosHechos, RegistrosAssumption, PotenciaEnNat
<1>4. s = IF 2 * v >= N THEN v - N ELSE v
  BY ValoresHechos DEF Maquinas!ConSigno
<1>5. CASE d \in RegInt /\ o \in RegByte
  <2>1. Operando(d, o) = ExtiendeSigno(v)
    BY <1>5 DEF Operando
  <2>2. ExtiendeSigno(v) = IF v < h THEN v ELSE v + I - B
    BY DEF ExtiendeSigno, Potencia
  <2>3. M = I /\ N = B
    BY <1>5, RegistrosAssumption DEF Valores
  <2> HIDE DEF v, B, I, M, N, h, s
  <2>4. CASE v < h
    <3>1. Operando(d, o) = s + (0 * M)
      BY <1>1, <1>2, <1>3, <1>4, <2>1, <2>2, <2>3, <2>4
    <3> QED
      BY <3>1 DEF M, s, v
  <2>5. CASE ~(v < h)
    <3>1. Operando(d, o) = s + (1 * M)
      BY <1>1, <1>2, <1>3, <1>4, <2>1, <2>2, <2>3, <2>5
    <3> QED
      BY <3>1 DEF M, s, v
  <2> QED
    BY <2>4, <2>5
<1>6. CASE ~(d \in RegInt /\ o \in RegByte)
  <2>1. Operando(d, o) = v % M
    BY <1>1, <1>6, TruncaHechos DEF Operando
  <2>2. PICK q \in Int : v = (q * M) + (v % M)
    <3>1. v \in Int
      BY <1>1
    <3> HIDE DEF v, M
    <3> QED
      BY <1>2, <3>1, ModuloHechos
  <2>3. PICK j \in Int : N = j * M
    <3>1. CASE d \in RegByte /\ o \notin RegByte
      <4>1. M = B /\ N = I
        BY <3>1 DEF Valores
      <4> QED
        BY <4>1, AnchosHechos
    <3>2. CASE ~(d \in RegByte /\ o \notin RegByte)
      <4>1. M = N
        BY <1>6, <3>2 DEF Valores, NombresReg
      <4>2. N = 1 * M
        BY <1>2, <4>1
      <4> QED
        BY <4>2
    <3> QED
      BY <3>1, <3>2
  <2> DEFINE w == v % M
  <2>4. w \in Int
    BY <1>1, <1>2
  <2> HIDE DEF v, M, N, s, w
  <2>5. w = v + ((-q) * M)
    <3>1. q * M \in Int /\ (-q) * M = -(q * M)
      BY <1>2
    <3> QED
      BY <1>1, <2>2, <2>4, <3>1 DEF w
  <2>6. CASE 2 * v >= N
    <3>1. w = s + ((j - q) * M)
      <4>1. (j - q) * M = (j * M) + ((-q) * M)
        BY <1>2
      <4>2. (-q) * M \in Int
        BY <1>2
      <4> QED
        BY <1>1, <1>2, <1>4, <2>3, <2>5, <2>6, <4>1, <4>2
    <3>2. j - q \in Int
      OBVIOUS
    <3>3. Operando(d, o) = s + ((j - q) * M)
      BY <2>1, <3>1 DEF w
    <3> QED
      BY <3>2, <3>3 DEF M, s, v
  <2>7. CASE ~(2 * v >= N)
    <3>1. Operando(d, o) = s + ((-q) * M)
      BY <1>4, <2>1, <2>5, <2>7 DEF w
    <3>2. -q \in Int
      OBVIOUS
    <3> QED
      BY <3>1, <3>2 DEF M, s, v
  <2> QED
    BY <2>6, <2>7
<1> QED
  BY <1>5, <1>6

(* SUM and SUB are the sum and the difference of numbers with sign. *)
LEMMA SumaRestaHechos ==
  ASSUME registros \in RegsValidos, NEW d \in NombresReg, NEW o \in NombresReg
  PROVE  LET s == Maquinas!ConSigno(o, registros[o]) IN
         /\ registros[d] + Operando(d, o) \in Int /\ registros[d] + s \in Int
         /\ registros[d] - Operando(d, o) \in Int /\ registros[d] - s \in Int
         /\ (registros[d] + Operando(d, o)) % Valores(d)
              = (registros[d] + s) % Valores(d)
         /\ (registros[d] - Operando(d, o)) % Valores(d)
              = (registros[d] - s) % Valores(d)
<1> DEFINE s == Maquinas!ConSigno(o, registros[o])
           x == registros[d]
           y == Operando(d, o)
           M == Valores(d)
<1>1. x \in Nat /\ registros[o] \in Nat /\ M \in Nat \ {0}
  BY ValoresHechos DEF RegsValidos
<1>2. s \in Int
  BY <1>1, ValoresHechos DEF Maquinas!ConSigno
<1>3. PICK k \in Int : y = s + (k * M)
  BY OperandoHechos
<1> HIDE DEF s, x, y, M
<1>4. k * M \in Int /\ (-k) * M = -(k * M) /\ -k \in Int
  BY <1>1
<1>5. y \in Int /\ x + y = (x + s) + (k * M) /\ x - y = (x - s) + ((-k) * M)
  BY <1>1, <1>2, <1>3, <1>4
<1>6. (x + s) \in Int /\ (x - s) \in Int /\ x + y \in Int /\ x - y \in Int
  BY <1>1, <1>2, <1>5
<1>7. (x + y) % M = (x + s) % M
  <2>1. ((x + s) + (k * M)) % M = (x + s) % M
    BY <1>1, <1>6, ModuloSuma, Zenon
  <2> QED
    BY <1>5, <2>1, Zenon
<1>8. (x - y) % M = (x - s) % M
  <2>1. ((x - s) + ((-k) * M)) % M = (x - s) % M
    BY <1>1, <1>4, <1>6, ModuloSuma, Zenon
  <2> QED
    BY <1>5, <2>1, Zenon
<1> QED
  BY <1>6, <1>7, <1>8 DEF s, x, y, M


(* The instruction that leaves n in r, and the PC that goes on. *)
LEMMA QuedaHechos ==
  ASSUME NEW regs \in RegsValidos, NEW r \in NombresReg, NEW n \in Int
  PROVE  LET hecho == [regs EXCEPT ![r] = Trunca(n, r)]
             listo == [hecho EXCEPT !["PC"] = Trunca(@ + 1, "PC")]
         IN  listo = Maquinas!Queda(regs, r, n) /\ listo \in RegsValidos
<1> DEFINE hecho == [regs EXCEPT ![r] = Trunca(n, r)]
           listo == [hecho EXCEPT !["PC"] = Trunca(@ + 1, "PC")]
<1>1. "PC" \in NombresReg
  BY RegistrosAssumption DEF NombresReg
<1>2. Trunca(n, r) = n % Valores(r) /\ Trunca(n, r) \in 0..(Valores(r) - 1)
  BY TruncaHechos
<1>3. \A s \in NombresReg : Valores(s) \in Nat \ {0}
  BY ValoresHechos
<1>4. hecho \in RegsValidos
  BY <1>2, <1>3 DEF RegsValidos
<1>5. hecho["PC"] \in Nat
  BY <1>1, <1>4 DEF RegsValidos
<1>6. /\ Trunca(hecho["PC"] + 1, "PC") = (hecho["PC"] + 1) % Valores("PC")
      /\ Trunca(hecho["PC"] + 1, "PC") \in 0..(Valores("PC") - 1)
  BY <1>5, TruncaHechos
<1>7. listo = Maquinas!Queda(regs, r, n)
  BY <1>2, <1>6, ValoresHechos DEF Maquinas!Queda
<1> HIDE DEF hecho
<1>8. listo \in RegsValidos
  BY <1>1, <1>3, <1>4, <1>6 DEF RegsValidos
<1> QED
  BY <1>7, <1>8 DEF hecho

(* Every instruction takes the registers where MaquinasPrivadas says. *)
LEMMA EjecutaHechos ==
  ASSUME registros \in RegsValidos, Ejecuta
  PROVE  /\ registros' \in RegsValidos
         /\ registros' \in Maquinas!Siguientes(registros)
<1> DEFINE Listo(r, n) == [[registros EXCEPT ![r] = Trunca(n, r)]
                             EXCEPT !["PC"] = Trunca(@ + 1, "PC")]
<1>0. /\ NombresReg = Maquinas!Nombres8y32
      /\ \A r \in NombresReg : registros[r] \in Int
  BY DEF NombresReg, Maquinas!Nombres8y32, RegsValidos
<1>1. \A r \in NombresReg, n \in Int :
        Listo(r, n) = Maquinas!Queda(registros, r, n) /\ Listo(r, n) \in RegsValidos
  BY QuedaHechos
<1> HIDE DEF Listo
<1>2. CASE \E r \in NombresReg, n \in Inmediatos : InstructionExecute(SET(r, n))
  <2>1. PICK r \in NombresReg, n \in Inmediatos : InstructionExecute(SET(r, n))
    BY <1>2
  <2>2. registros' = Listo(r, n) /\ n \in Int
    BY <2>1, RegistrosAssumption DEF InstructionExecute, SET, Listo
  <2> QED
    BY <1>0, <1>1, <2>2 DEF Maquinas!Siguientes, Maquinas!SET
<1>3. CASE \E r \in NombresReg, n \in Inmediatos : InstructionExecute(JNZ(r, n))
  <2>1. PICK r \in NombresReg, n \in Inmediatos : InstructionExecute(JNZ(r, n))
    BY <1>3
  <2> DEFINE v == IF registros[r] = 0 THEN n ELSE registros[r]
  <2>2. v \in Int
    BY <1>0, RegistrosAssumption
  <2>3. JNZ(r, n) = [registros EXCEPT ![r] = Trunca(v, r)]
    <3>1. CASE registros[r] = 0
      BY <3>1 DEF JNZ, SET
    <3>2. CASE registros[r] # 0
      <4>1. Trunca(v, r) = registros[r]
        BY <1>0, <3>2, TruncaHechos DEF RegsValidos
      <4> QED
        BY <3>2, <4>1 DEF JNZ, RegsValidos
    <3> QED
      BY <3>1, <3>2
  <2>4. registros' = Listo(r, v)
    BY <2>1, <2>3 DEF InstructionExecute, Listo
  <2>5. /\ Listo(r, v) \in RegsValidos
        /\ registros' = Maquinas!Queda(registros, r,
                          IF registros[r] = 0 THEN n ELSE registros[r])
    BY <1>1, <2>2, <2>4
  <2> QED
    BY <1>0, <2>4, <2>5 DEF Maquinas!Siguientes, Maquinas!JNZ
<1>4. CASE \E d, o \in NombresReg : InstructionExecute(SUM(d, o))
  <2>1. PICK d, o \in NombresReg : InstructionExecute(SUM(d, o))
    BY <1>4
  <2> DEFINE s == registros[d] + Operando(d, o)
             t == registros[d] + Maquinas!ConSigno(o, registros[o])
  <2>2. s \in Int /\ t \in Int /\ s % Valores(d) = t % Valores(d)
    BY SumaRestaHechos
  <2>3. SUM(d, o) = [registros EXCEPT ![d] = Trunca(t, d)]
    <3>1. Trunca(s, d) = Trunca(t, d)
      <4> HIDE DEF s, t
      <4> QED
        BY <2>2, TruncaHechos
    <3> QED
      BY <3>1 DEF SUM, SET
  <2>4. registros' = Listo(d, t)
    BY <2>1, <2>3 DEF InstructionExecute, Listo
  <2>5. Listo(d, t) \in RegsValidos /\ registros' = Maquinas!Queda(registros, d, t)
    BY <1>1, <2>2, <2>4
  <2> QED
    BY <1>0, <2>4, <2>5 DEF Maquinas!Siguientes, Maquinas!SUM
<1>5. CASE \E d, o \in NombresReg : InstructionExecute(SUB(d, o))
  <2>1. PICK d, o \in NombresReg : InstructionExecute(SUB(d, o))
    BY <1>5
  <2> DEFINE s == registros[d] - Operando(d, o)
             t == registros[d] - Maquinas!ConSigno(o, registros[o])
  <2>2. s \in Int /\ t \in Int /\ s % Valores(d) = t % Valores(d)
    BY SumaRestaHechos
  <2>3. SUB(d, o) = [registros EXCEPT ![d] = Trunca(t, d)]
    <3>1. Trunca(s, d) = Trunca(t, d)
      <4> HIDE DEF s, t
      <4> QED
        BY <2>2, TruncaHechos
    <3> QED
      BY <3>1 DEF SUB, SET
  <2>4. registros' = Listo(d, t)
    BY <2>1, <2>3 DEF InstructionExecute, Listo
  <2>5. Listo(d, t) \in RegsValidos /\ registros' = Maquinas!Queda(registros, d, t)
    BY <1>1, <2>2, <2>4
  <2> QED
    BY <1>0, <2>4, <2>5 DEF Maquinas!Siguientes, Maquinas!SUB
<1> QED
  BY <1>2, <1>3, <1>4, <1>5 DEF Ejecuta


-----------------------------------------------------------------------------
(***************************************************************************)
(* Where the registers of a process are.  A living process that is not in  *)
(* EXEC has them in its PCB only; that of EXEC has them in the packet that *)
(* goes to the CPU, in the CPU, or in the packet that comes back, and in   *)
(* one of them only.  A process that was killed may have left its packet   *)
(* anywhere, before or after that one.                                     *)
(***************************************************************************)
NoSale(salen, p) == \A k \in 1..Len(salen) : salen[k].pid # p

SaleUna(salen, p, k) ==
    /\ k \in 1..Len(salen) /\ salen[k].pid = p
    /\ \A j \in 1..Len(salen) : j # k => salen[j].pid # p

Suyo(paquete, p) == paquete.op = "DEVOLUCION_PCB" /\ paquete.pid = p

NoVuelve(vuelven, p) == \A k \in 1..Len(vuelven) : ~Suyo(vuelven[k], p)

VuelveUna(vuelven, p, k) ==
    /\ k \in 1..Len(vuelven) /\ Suyo(vuelven[k], p)
    /\ \A j \in 1..Len(vuelven) : j # k => ~Suyo(vuelven[j], p)

EnCasa(p, cpu, salen, vuelven) ==
    cpu # p /\ NoSale(salen, p) /\ NoVuelve(vuelven, p)

(* p is on its way and its registers are x. *)
EnVuelo(p, cpu, regs, salen, vuelven, x) ==
    \/ cpu = p /\ NoSale(salen, p) /\ NoVuelve(vuelven, p) /\ x = regs
    \/ /\ cpu # p /\ NoVuelve(vuelven, p)
       /\ \E k \in 1..Len(salen) : SaleUna(salen, p, k) /\ x = salen[k].registros
    \/ /\ cpu # p /\ NoSale(salen, p)
       /\ \E k \in 1..Len(vuelven) :
              VuelveUna(vuelven, p, k) /\ x = vuelven[k].registros

Paquetes == [pid : Programas, registros : RegsValidos]
Vueltas == {Syscall} \union
    [op : {"DEVOLUCION_PCB"}, io : BOOLEAN, pid : Programas, registros : RegsValidos]

RegsTipo ==
    /\ registro_cpu \in [Programas -> RegsValidos]
    /\ vivos \subseteq Programas
    /\ en_exec \in Programas \union {Nadie}
    /\ en_cpu \in Programas \union {Nadie}
    /\ despachado \in Seq(Paquetes)
    /\ devuelto \in Seq(Vueltas)
    /\ registros \in RegsValidos
    /\ ejecutadas \in 0..MaxEjecutadas

(* The packet of a system call follows the context that announces it. *)
SyscallSigue ==
    \A k \in 1..Len(devuelto) :
        devuelto[k] # Syscall /\ devuelto[k].io => k < Len(devuelto)

EnUnLugar ==
    \A p \in vivos :
        IF p = en_exec
        THEN \E x \in RegsValidos :
                 EnVuelo(p, en_cpu, registros, despachado, devuelto, x)
        ELSE EnCasa(p, en_cpu, despachado, devuelto)

RegsInv == RegsTipo /\ SyscallSigue /\ EnUnLugar


(* Actuales, as a function of the state. *)
ActualesDe(p, cpu, regs, salen, vuelven, pcb) ==
    IF p = cpu THEN regs
    ELSE LET enViaje ==
               {salen[k].registros : k \in {k \in DOMAIN salen : salen[k].pid = p}} \union
               {vuelven[k].registros : k \in {k \in DOMAIN vuelven :
                       vuelven[k].op = "DEVOLUCION_PCB" /\ vuelven[k].pid = p}}
         IN IF enViaje = {} THEN pcb[p] ELSE CHOOSE r \in enViaje : TRUE

LEMMA ActualesEs ==
  ASSUME NEW p
  PROVE  /\ Actuales(p) = ActualesDe(p, en_cpu, registros, despachado,
                                     devuelto, registro_cpu)
         /\ Actuales(p)' = ActualesDe(p, en_cpu', registros', despachado',
                                      devuelto', registro_cpu')
  BY DEF Actuales, ActualesDe

LEMMA ActualesVuelo ==
  ASSUME NEW p, NEW cpu, NEW regs, NEW pcb, NEW x,
         NEW salen \in Seq(Paquetes), NEW vuelven \in Seq(Vueltas),
         EnVuelo(p, cpu, regs, salen, vuelven, x)
  PROVE  ActualesDe(p, cpu, regs, salen, vuelven, pcb) = x
<1> DEFINE I == {k \in DOMAIN salen : salen[k].pid = p}
           V == {k \in DOMAIN vuelven :
                    vuelven[k].op = "DEVOLUCION_PCB" /\ vuelven[k].pid = p}
           viaje == {salen[k].registros : k \in I}
                      \union {vuelven[k].registros : k \in V}
<1>0. DOMAIN salen = 1..Len(salen) /\ DOMAIN vuelven = 1..Len(vuelven)
  BY LenProperties
<1>1. ActualesDe(p, cpu, regs, salen, vuelven, pcb) =
        IF p = cpu THEN regs
        ELSE IF viaje = {} THEN pcb[p] ELSE CHOOSE r \in viaje : TRUE
  BY DEF ActualesDe
<1>2. CASE cpu = p
  BY <1>1, <1>2 DEF EnVuelo
<1>3. CASE cpu # p
  <2>1. viaje = {x}
    <3>1. CASE NoVuelve(vuelven, p)
      <4>1. PICK k \in 1..Len(salen) : SaleUna(salen, p, k) /\ x = salen[k].registros
        BY <1>3, <3>1 DEF EnVuelo, NoVuelve, VuelveUna
      <4>2. I = {k}
        BY <1>0, <4>1 DEF SaleUna
      <4>3. V = {}
        BY <1>0, <3>1 DEF NoVuelve, Suyo
      <4> HIDE DEF I, V
      <4> QED
        BY <4>1, <4>2, <4>3
    <3>2. CASE ~NoVuelve(vuelven, p)
      <4>1. NoSale(salen, p)
        BY <1>3, <3>2 DEF EnVuelo
      <4>2. PICK k \in 1..Len(vuelven) :
              VuelveUna(vuelven, p, k) /\ x = vuelven[k].registros
        BY <1>3, <3>2 DEF EnVuelo
      <4>3. V = {k}
        BY <1>0, <4>2 DEF VuelveUna, Suyo
      <4>4. I = {}
        BY <1>0, <4>1 DEF NoSale
      <4> HIDE DEF I, V
      <4> QED
        BY <4>2, <4>3, <4>4
    <3> QED
      BY <3>1, <3>2
  <2> HIDE DEF viaje
  <2> QED
    BY <1>1, <1>3, <2>1
<1> QED
  BY <1>2, <1>3

LEMMA ActualesCasa ==
  ASSUME NEW p, NEW cpu, NEW regs, NEW pcb,
         NEW salen \in Seq(Paquetes), NEW vuelven \in Seq(Vueltas),
         EnCasa(p, cpu, salen, vuelven)
  PROVE  ActualesDe(p, cpu, regs, salen, vuelven, pcb) = pcb[p]
<1> DEFINE I == {k \in DOMAIN salen : salen[k].pid = p}
           V == {k \in DOMAIN vuelven :
                    vuelven[k].op = "DEVOLUCION_PCB" /\ vuelven[k].pid = p}
<1>0. DOMAIN salen = 1..Len(salen) /\ DOMAIN vuelven = 1..Len(vuelven)
  BY LenProperties
<1>1. I = {} /\ V = {} /\ p # cpu
  BY <1>0 DEF EnCasa, NoSale, NoVuelve, Suyo
<1>2. {salen[k].registros : k \in I} \union {vuelven[k].registros : k \in V} = {}
  BY <1>1
<1> QED
  BY <1>1, <1>2 DEF ActualesDe

(* Queues of packets: one more at the end, or without the first. *)
LEMMA IdaAgrega ==
  ASSUME NEW salen \in Seq(Paquetes), NEW c \in Paquetes, NEW p
  PROVE  /\ NoSale(salen, p) /\ c.pid # p => NoSale(Append(salen, c), p)
         /\ NoSale(salen, p) /\ c.pid = p =>
              /\ Len(salen) + 1 \in 1..Len(Append(salen, c))
              /\ SaleUna(Append(salen, c), p, Len(salen) + 1)
              /\ Append(salen, c)[Len(salen) + 1] = c
  BY LenProperties DEF NoSale, SaleUna

LEMMA IdaTail ==
  ASSUME NEW salen \in Seq(Paquetes), salen # <<>>, NEW p
  PROVE  /\ Tail(salen) \in Seq(Paquetes)
         /\ NoSale(salen, p) => NoSale(Tail(salen), p) /\ Head(salen).pid # p
         /\ \A k \in 1..Len(salen) : SaleUna(salen, p, k) =>
              IF k = 1
              THEN NoSale(Tail(salen), p) /\ Head(salen).pid = p /\ Head(salen) = salen[k]
              ELSE /\ Head(salen).pid # p
                   /\ k - 1 \in 1..Len(Tail(salen))
                   /\ SaleUna(Tail(salen), p, k - 1)
                   /\ Tail(salen)[k - 1] = salen[k]
<1>1. /\ Len(salen) \in Nat \ {0}
      /\ Head(salen) = salen[1]
      /\ Tail(salen) \in Seq(Paquetes)
      /\ Len(Tail(salen)) = Len(salen) - 1
      /\ \A i \in 1..(Len(salen) - 1) : Tail(salen)[i] = salen[i + 1]
  BY LenProperties, EmptySeq, HeadTailProperties
<1>2. NoSale(salen, p) => NoSale(Tail(salen), p) /\ Head(salen).pid # p
  BY <1>1 DEF NoSale
<1>3. ASSUME NEW k \in 1..Len(salen), SaleUna(salen, p, k), k = 1
      PROVE  NoSale(Tail(salen), p) /\ Head(salen).pid = p /\ Head(salen) = salen[k]
  BY <1>1, <1>3 DEF NoSale, SaleUna
<1>4. ASSUME NEW k \in 1..Len(salen), SaleUna(salen, p, k), k # 1
      PROVE  /\ Head(salen).pid # p
             /\ k - 1 \in 1..Len(Tail(salen))
             /\ SaleUna(Tail(salen), p, k - 1)
             /\ Tail(salen)[k - 1] = salen[k]
  BY <1>1, <1>4 DEF SaleUna
<1> QED
  BY <1>1, <1>2, <1>3, <1>4

LEMMA VueltaTail ==
  ASSUME NEW vuelven \in Seq(Vueltas), vuelven # <<>>, NEW p
  PROVE  /\ Tail(vuelven) \in Seq(Vueltas)
         /\ Len(Tail(vuelven)) = Len(vuelven) - 1
         /\ \A i \in 1..(Len(vuelven) - 1) : Tail(vuelven)[i] = vuelven[i + 1]
         /\ Head(vuelven) = vuelven[1]
         /\ NoVuelve(vuelven, p) => NoVuelve(Tail(vuelven), p)
         /\ VuelveUna(vuelven, p, 1) => NoVuelve(Tail(vuelven), p)
<1>1. /\ Len(vuelven) \in Nat \ {0}
      /\ Head(vuelven) = vuelven[1]
      /\ Tail(vuelven) \in Seq(Vueltas)
      /\ Len(Tail(vuelven)) = Len(vuelven) - 1
      /\ \A i \in 1..(Len(vuelven) - 1) : Tail(vuelven)[i] = vuelven[i + 1]
  BY LenProperties, EmptySeq, HeadTailProperties
<1>2. NoVuelve(vuelven, p) => NoVuelve(Tail(vuelven), p)
  BY <1>1 DEF NoVuelve
<1>3. VuelveUna(vuelven, p, 1) => NoVuelve(Tail(vuelven), p)
  BY <1>1 DEF NoVuelve, VuelveUna
<1> QED
  BY <1>1, <1>2, <1>3


-----------------------------------------------------------------------------
(* Types, and that the packet of a system call has not been lost. *)
TipoInv == RegsTipo /\ SyscallSigue

LEMMA CeroValido == [r \in NombresReg |-> 0] \in RegsValidos
  BY ValoresHechos DEF RegsValidos

LEMMA RegInitTipo == ASSUME RegInit PROVE TipoInv
<1>1. RegsTipo
  BY CeroValido, RegistrosAssumption DEF RegInit, RegsTipo
<1>2. SyscallSigue
  BY DEF RegInit, SyscallSigue
<1> QED
  BY <1>1, <1>2 DEF TipoInv

LEMMA EjecutarTipo ==
  ASSUME TipoInv, NEW p \in Programas, EjecutarProceso(p) PROVE TipoInv'
<1>1. Contexto(p, registro_cpu[p]) \in Paquetes
  BY DEF TipoInv, RegsTipo, Contexto, Paquetes
<1>2. despachado' \in Seq(Paquetes)
  BY <1>1, AppendProperties DEF TipoInv, RegsTipo, EjecutarProceso
<1> QED
  BY <1>2 DEF TipoInv, RegsTipo, SyscallSigue, EjecutarProceso

LEMMA FinalizarTipo ==
  ASSUME TipoInv, NEW p \in Programas, FinalizarProceso(p) PROVE TipoInv'
  BY DEF TipoInv, RegsTipo, SyscallSigue, FinalizarProceso

LEMMA TomaTipo == ASSUME TipoInv, TomaContexto PROVE TipoInv'
<1>1. Tail(despachado) \in Seq(Paquetes) /\ Head(despachado) \in Paquetes
  BY HeadTailProperties DEF TipoInv, RegsTipo, TomaContexto
<1>2. Head(despachado).pid \in Programas /\ Head(despachado).registros \in RegsValidos
  BY <1>1 DEF Paquetes
<1> QED
  BY <1>1, <1>2 DEF TipoInv, RegsTipo, SyscallSigue, TomaContexto

LEMMA EjecutaTipo == ASSUME TipoInv, Ejecuta PROVE TipoInv'
<1>1. registros' \in RegsValidos
  BY EjecutaHechos DEF TipoInv, RegsTipo
<1>2. /\ ejecutadas < MaxEjecutadas /\ ejecutadas' = ejecutadas + 1
      /\ UNCHANGED <<registro_cpu, vivos, en_exec, despachado, devuelto, en_cpu>>
  BY DEF Ejecuta, InstructionExecute
<1> QED
  BY <1>1, <1>2, RegistrosAssumption DEF TipoInv, RegsTipo, SyscallSigue

(* What DevuelveContexto adds. *)
LEMMA DevuelveAgrega ==
  ASSUME TipoInv, NEW io \in BOOLEAN, en_cpu # Nadie,
         NEW v, v = devuelto \o <<Devolucion(en_cpu, registros, io)>>
                             \o (IF io THEN <<Syscall>> ELSE <<>>)
  PROVE  /\ v \in Seq(Vueltas)
         /\ Len(v) = Len(devuelto) + (IF io THEN 2 ELSE 1)
         /\ \A k \in 1..Len(devuelto) : v[k] = devuelto[k]
         /\ v[Len(devuelto) + 1] = Devolucion(en_cpu, registros, io)
         /\ io => v[Len(devuelto) + 2] = Syscall
<1> DEFINE d == Devolucion(en_cpu, registros, io)
           n == Len(devuelto)
<1>1. d \in Vueltas /\ Syscall \in Vueltas
  BY DEF TipoInv, RegsTipo, Devolucion, Vueltas
<1>2. devuelto \in Seq(Vueltas) /\ n \in Nat
  BY LenProperties DEF TipoInv, RegsTipo
<1> HIDE DEF d
<1>3. /\ devuelto \o <<d>> \in Seq(Vueltas)
      /\ Len(devuelto \o <<d>>) = n + 1
      /\ \A k \in 1..n : (devuelto \o <<d>>)[k] = devuelto[k]
      /\ (devuelto \o <<d>>)[n + 1] = d
  BY <1>1, <1>2
<1> DEFINE u == devuelto \o <<d>>
<1> HIDE DEF u
<1>4. CASE io
  <2>1. v = u \o <<Syscall>>
    BY <1>4 DEF d, u
  <2>2. /\ u \o <<Syscall>> \in Seq(Vueltas)
        /\ Len(u \o <<Syscall>>) = Len(u) + 1
        /\ \A k \in 1..Len(u) : (u \o <<Syscall>>)[k] = u[k]
        /\ (u \o <<Syscall>>)[Len(u) + 1] = Syscall
    BY <1>1, <1>3 DEF u
  <2>3. Len(u) = n + 1 /\ (\A k \in 1..n : u[k] = devuelto[k]) /\ u[n + 1] = d
    BY <1>3 DEF u
  <2> HIDE DEF n
  <2>4. v \in Seq(Vueltas) /\ Len(v) = n + 2
    BY <1>2, <2>1, <2>2, <2>3
  <2>5. (\A k \in 1..n : v[k] = devuelto[k]) /\ v[n + 1] = d
    BY <1>2, <2>1, <2>2, <2>3
  <2>6. v[n + 2] = Syscall
    <3>1. n \in Nat /\ Len(u) + 1 = n + 2
      BY <1>2, <2>3
    <3> QED
      BY <2>1, <2>2, <3>1
  <2> QED
    BY <1>4, <2>4, <2>5, <2>6 DEF d, n
<1>5. CASE ~io
  <2>1. v = u \o <<>>
    BY <1>5 DEF d, u
  <2>2. v = u
    BY <1>3, <2>1 DEF u
  <2> QED
    BY <1>2, <1>3, <1>5, <2>2 DEF d, u
<1> QED
  BY <1>4, <1>5

LEMMA DevuelveTipo == ASSUME TipoInv, DevuelveContexto PROVE TipoInv'
<1>1. PICK io \in BOOLEAN :
        devuelto' = devuelto \o <<Devolucion(en_cpu, registros, io)>>
                             \o (IF io THEN <<Syscall>> ELSE <<>>)
  BY DEF DevuelveContexto
<1> DEFINE n == Len(devuelto)
<1>2. /\ devuelto' \in Seq(Vueltas)
      /\ Len(devuelto') = n + (IF io THEN 2 ELSE 1)
      /\ \A k \in 1..n : devuelto'[k] = devuelto[k]
      /\ devuelto'[n + 1] = Devolucion(en_cpu, registros, io)
      /\ io => devuelto'[n + 2] = Syscall
  BY <1>1, DevuelveAgrega DEF DevuelveContexto
<1>3. n \in Nat
  BY LenProperties DEF TipoInv, RegsTipo
<1>4. SyscallSigue'
  <2> SUFFICES ASSUME NEW k \in 1..Len(devuelto'), devuelto'[k] # Syscall,
                      devuelto'[k].io
               PROVE  k < Len(devuelto')
    BY DEF SyscallSigue
  <2>1. CASE k \in 1..n
    BY <1>2, <1>3, <2>1
  <2>2. CASE k = n + 1
    <3>1. devuelto'[k] = Devolucion(en_cpu, registros, io)
      BY <1>2, <2>2
    <3>2. devuelto'[k].io = io
      BY <3>1 DEF Devolucion
    <3> QED
      BY <1>2, <1>3, <2>2, <3>2
  <2>3. CASE k = n + 2
    BY <1>2, <1>3, <2>3
  <2> QED
    BY <1>2, <1>3, <2>1, <2>2, <2>3
<1>5. RegsTipo'
  BY <1>2 DEF TipoInv, RegsTipo, DevuelveContexto
<1> QED
  BY <1>4, <1>5 DEF TipoInv

(* The head of devuelto, when it is the answer that was waited for. *)
LEMMA RespuestaHechos ==
  ASSUME TipoInv, devuelto # <<>>, en_exec # Nadie, EsRespuesta(Head(devuelto))
  PROVE  /\ Head(devuelto) = devuelto[1] /\ Len(devuelto) \in Nat \ {0}
         /\ Suyo(devuelto[1], en_exec) /\ en_exec \in Programas
         /\ devuelto[1].registros \in RegsValidos
         /\ devuelto[1] # Syscall
         /\ devuelto[1].io => Tail(devuelto) # <<>>
<1>1. /\ Head(devuelto) = devuelto[1] /\ Len(devuelto) \in Nat \ {0}
      /\ devuelto[1] \in Vueltas /\ Len(Tail(devuelto)) = Len(devuelto) - 1
  BY LenProperties, EmptySeq, HeadTailProperties, ElementOfSeq
     DEF TipoInv, RegsTipo
<1>2. Suyo(devuelto[1], en_exec) /\ en_exec \in Programas
  BY <1>1 DEF EsRespuesta, Suyo, TipoInv, RegsTipo
<1>3. devuelto[1] # Syscall
  BY <1>2 DEF Suyo, Syscall
<1>4. devuelto[1].registros \in RegsValidos
  BY <1>1, <1>3 DEF Vueltas
<1>5. devuelto[1].io => 1 < Len(devuelto)
  BY <1>1, <1>3 DEF TipoInv, SyscallSigue
<1>6. Len(Tail(devuelto)) # 0 => Tail(devuelto) # <<>>
  <2>1. Len(<<>>) = 0
    OBVIOUS
  <2> QED
    BY <2>1, Zenon
<1>7. devuelto[1].io => Tail(devuelto) # <<>>
  BY <1>1, <1>5, <1>6
<1> QED
  BY <1>1, <1>2, <1>3, <1>4, <1>7

LEMMA SyscallSigueTail ==
  ASSUME NEW s \in Seq(Vueltas), s # <<>>,
         \A k \in 1..Len(s) : s[k] # Syscall /\ s[k].io => k < Len(s)
  PROVE  /\ Tail(s) \in Seq(Vueltas)
         /\ \A k \in 1..Len(Tail(s)) :
              Tail(s)[k] # Syscall /\ Tail(s)[k].io => k < Len(Tail(s))
<1>1. /\ Tail(s) \in Seq(Vueltas) /\ Len(s) \in Nat
      /\ Len(Tail(s)) = Len(s) - 1
      /\ \A i \in 1..(Len(s) - 1) : Tail(s)[i] = s[i + 1]
  BY VueltaTail, LenProperties
<1> QED
  BY <1>1

LEMMA ActualizarTipo == ASSUME TipoInv, ActualizarContexto PROVE TipoInv'
<1> DEFINE paquete == Head(devuelto)
           Bien(s) == \A k \in 1..Len(s) : s[k] # Syscall /\ s[k].io => k < Len(s)
<1>0. /\ devuelto \in Seq(Vueltas) /\ Bien(devuelto) /\ devuelto # <<>>
      /\ en_exec # Nadie
  BY DEF TipoInv, RegsTipo, SyscallSigue, ActualizarContexto
<1>1. Tail(devuelto) \in Seq(Vueltas) /\ Bien(Tail(devuelto))
  BY <1>0, SyscallSigueTail
<1>2. CASE en_exec \in vivos /\ EsRespuesta(paquete)
  <2>1. /\ registro_cpu' = [registro_cpu EXCEPT ![en_exec] = paquete.registros]
        /\ devuelto' = IF paquete.io THEN Tail(Tail(devuelto)) ELSE Tail(devuelto)
        /\ vivos' = vivos
    BY <1>2 DEF ActualizarContexto
  <2>2. /\ paquete = devuelto[1] /\ en_exec \in Programas
        /\ devuelto[1].registros \in RegsValidos
        /\ devuelto[1].io => Tail(devuelto) # <<>>
    BY <1>0, <1>2, RespuestaHechos
  <2>3. devuelto' \in Seq(Vueltas) /\ Bien(devuelto')
    <3> HIDE DEF paquete
    <3>1. CASE paquete.io
      <4>1. Tail(devuelto) # <<>> /\ devuelto' = Tail(Tail(devuelto))
        BY <2>1, <2>2, <3>1
      <4>2. Tail(Tail(devuelto)) \in Seq(Vueltas) /\ Bien(Tail(Tail(devuelto)))
        BY <1>1, <4>1, SyscallSigueTail
      <4> QED
        BY <4>1, <4>2
    <3>2. CASE ~paquete.io
      BY <1>1, <2>1, <3>2
    <3> QED
      BY <3>1, <3>2
  <2>4. registro_cpu' \in [Programas -> RegsValidos]
    BY <2>1, <2>2 DEF TipoInv, RegsTipo
  <2> QED
    BY <2>1, <2>3, <2>4 DEF TipoInv, RegsTipo, SyscallSigue, ActualizarContexto
<1>3. CASE ~(en_exec \in vivos /\ EsRespuesta(paquete))
  <2>1. /\ vivos' = vivos \ {en_exec} /\ devuelto' = Tail(devuelto)
        /\ registro_cpu' = registro_cpu
    BY <1>3 DEF ActualizarContexto
  <2>2. Bien(devuelto') /\ devuelto' \in Seq(Vueltas)
    BY <1>1, <2>1
  <2> QED
    BY <2>1, <2>2 DEF TipoInv, RegsTipo, SyscallSigue, ActualizarContexto
<1> QED
  BY <1>2, <1>3

LEMMA TipoPaso == TipoInv /\ [RegNext]_reg_vars => TipoInv'
<1> SUFFICES ASSUME TipoInv, [RegNext]_reg_vars PROVE TipoInv'
  OBVIOUS
<1>1. CASE RegNext
  BY <1>1, EjecutarTipo, FinalizarTipo, TomaTipo, EjecutaTipo, DevuelveTipo,
     ActualizarTipo DEF RegNext
<1>2. CASE UNCHANGED reg_vars
  BY <1>2 DEF reg_vars, TipoInv, RegsTipo, SyscallSigue
<1> QED
  BY <1>1, <1>2


-----------------------------------------------------------------------------
(***************************************************************************)
(* The refinement: maquina and activos of MaquinasPrivadas.                *)
(***************************************************************************)
Maquina == [p \in Programas |->
               IF p \in vivos THEN Actuales(p) ELSE [r \in NombresReg |-> 0]]

LEMMA RegsInvEs == RegsInv <=> TipoInv /\ EnUnLugar
  BY DEF RegsInv, TipoInv

(* The registers of p do not change if p stays, or is on its way with the  *)
(* same ones, or comes and goes with those of its PCB.                     *)
LEMMA MismosRegistros ==
  ASSUME RegsTipo, RegsTipo', NEW p, NEW x,
         \/ EnCasa(p, en_cpu, despachado, devuelto) /\ x = registro_cpu[p]
         \/ EnVuelo(p, en_cpu, registros, despachado, devuelto, x),
         \/ EnCasa(p, en_cpu', despachado', devuelto') /\ x = registro_cpu'[p]
         \/ EnVuelo(p, en_cpu', registros', despachado', devuelto', x)
  PROVE  Actuales(p)' = Actuales(p)
<1>1. /\ despachado \in Seq(Paquetes) /\ devuelto \in Seq(Vueltas)
      /\ despachado' \in Seq(Paquetes) /\ devuelto' \in Seq(Vueltas)
  BY DEF RegsTipo
<1>2. Actuales(p) = x
  <2>1. ActualesDe(p, en_cpu, registros, despachado, devuelto, registro_cpu) = x
    BY <1>1, ActualesCasa, ActualesVuelo
  <2> QED
    BY <2>1, ActualesEs
<1>3. Actuales(p)' = x
  <2>1. ActualesDe(p, en_cpu', registros', despachado', devuelto', registro_cpu')
          = x
    BY <1>1, ActualesCasa, ActualesVuelo
  <2> QED
    BY <2>1, ActualesEs
<1> QED
  BY <1>2, <1>3

(* No machine changes. *)
LEMMA Ninguna ==
  ASSUME vivos' = vivos, \A q \in vivos : Actuales(q)' = Actuales(q)
  PROVE  Maquina' = Maquina
  BY DEF Maquina

(* A process ends. *)
LEMMA UnaTermina ==
  ASSUME NEW p \in vivos, vivos' = vivos \ {p},
         \A q \in vivos' : Actuales(q)' = Actuales(q)
  PROVE  Maquinas!MaqNext
<1>1. Maquina' = [Maquina EXCEPT ![p] = [r \in NombresReg |-> 0]]
  BY DEF Maquina
<1> QED
  BY <1>1 DEF Maquina, Maquinas!MaqNext, Maquinas!Finaliza, Maquinas!EnCero,
              Maquinas!Nombres8y32, NombresReg

(* A process executes an instruction. *)
LEMMA UnaInstruye ==
  ASSUME NEW p \in vivos, vivos \subseteq Programas, vivos' = vivos,
         Actuales(p)' \in Maquinas!Siguientes(Actuales(p)),
         \A q \in vivos \ {p} : Actuales(q)' = Actuales(q)
  PROVE  Maquinas!MaqNext
<1>1. Maquina' = [Maquina EXCEPT ![p] = Actuales(p)'] /\ Maquina[p] = Actuales(p)
  BY DEF Maquina
<1>2. \E regs \in Maquinas!Siguientes(Maquina[p]) :
          Maquina' = [Maquina EXCEPT ![p] = regs]
  BY <1>1
<1>3. Maquinas!Instruccion(p)
  BY <1>2, Zenon DEF Maquina, Maquinas!Instruccion
<1> QED
  BY <1>3 DEF Maquinas!MaqNext

LEMMA RegInitLugar == ASSUME RegInit PROVE EnUnLugar /\ Maquinas!MaqInit
<1>1. \A p \in vivos : EnCasa(p, en_cpu, despachado, devuelto)
  <2>1. \A p : NoSale(<<>>, p) /\ NoVuelve(<<>>, p)
    BY DEF NoSale, NoVuelve
  <2>2. /\ vivos = Programas /\ despachado = <<>> /\ devuelto = <<>>
        /\ en_cpu = Nadie /\ Nadie \notin Programas
    BY RegistrosAssumption DEF RegInit
  <2> QED
    BY <2>1, <2>2 DEF EnCasa
<1>2. EnUnLugar
  BY <1>1, RegistrosAssumption DEF RegInit, EnUnLugar
<1>3. \A p \in Programas : Actuales(p) = registro_cpu[p]
  <2> SUFFICES ASSUME NEW p \in Programas PROVE Actuales(p) = registro_cpu[p]
    OBVIOUS
  <2>1. /\ EnCasa(p, en_cpu, despachado, devuelto)
        /\ despachado \in Seq(Paquetes) /\ devuelto \in Seq(Vueltas)
    BY <1>1 DEF RegInit
  <2> QED
    BY <2>1, ActualesCasa, ActualesEs
<1>4. Maquina = [p \in Programas |-> [r \in NombresReg |-> 0]]
  BY <1>3 DEF Maquina, RegInit
<1>5. vivos = Programas
  BY DEF RegInit
<1> QED
  BY <1>2, <1>4, <1>5 DEF Maquina, Maquinas!MaqInit, Maquinas!EnCero,
                          Maquinas!Nombres8y32, NombresReg

(* What each step has to do. *)
Bien == EnUnLugar' /\ [Maquinas!MaqNext]_<<Maquina, vivos>>

LEMMA EjecutarLugar ==
  ASSUME RegsInv, RegsTipo', NEW p \in Programas, EjecutarProceso(p)
  PROVE  Bien
<1>0. RegsTipo /\ EnUnLugar
  BY DEF RegsInv
<1> DEFINE c == Contexto(p, registro_cpu[p])
<1>1. /\ en_exec = Nadie /\ p \in vivos /\ en_exec' = p
      /\ despachado' = Append(despachado, c)
      /\ UNCHANGED <<registro_cpu, vivos, devuelto, en_cpu, registros>>
  BY DEF EjecutarProceso
<1>2. /\ c \in Paquetes /\ c.pid = p /\ c.registros = registro_cpu[p]
      /\ despachado \in Seq(Paquetes) /\ registro_cpu[p] \in RegsValidos
  BY <1>0 DEF RegsTipo, Contexto, Paquetes
<1> HIDE DEF c
<1>3. \A q \in vivos : EnCasa(q, en_cpu, despachado, devuelto)
  BY <1>0, <1>1, RegistrosAssumption DEF EnUnLugar, RegsTipo
<1>4. EnVuelo(p, en_cpu', registros', despachado', devuelto', registro_cpu[p])
  <2>1. EnCasa(p, en_cpu, despachado, devuelto)
    BY <1>1, <1>3
  <2>2. /\ Len(despachado) + 1 \in 1..Len(despachado')
        /\ SaleUna(despachado', p, Len(despachado) + 1)
        /\ despachado'[Len(despachado) + 1] = c
    BY <1>1, <1>2, <2>1, IdaAgrega DEF EnCasa
  <2> QED
    BY <1>1, <1>2, <2>1, <2>2 DEF EnCasa, EnVuelo
<1>5. ASSUME NEW q \in vivos, q # p
      PROVE  EnCasa(q, en_cpu', despachado', devuelto')
  BY <1>1, <1>2, <1>3, <1>5, IdaAgrega DEF EnCasa
<1>6. EnUnLugar'
  BY <1>1, <1>2, <1>4, <1>5 DEF EnUnLugar
<1>7. \A q \in vivos : Actuales(q)' = Actuales(q)
  <2>1. Actuales(p)' = Actuales(p)
    BY <1>0, <1>1, <1>3, <1>4, MismosRegistros
  <2>2. ASSUME NEW q \in vivos, q # p PROVE Actuales(q)' = Actuales(q)
    BY <1>0, <1>1, <1>3, <1>5, <2>2, MismosRegistros
  <2> QED
    BY <2>1, <2>2
<1> QED
  BY <1>1, <1>6, <1>7, Ninguna DEF Bien

LEMMA FinalizarLugar ==
  ASSUME RegsInv, NEW p \in Programas, FinalizarProceso(p)
  PROVE  Bien
<1>1. /\ p \in vivos /\ vivos' = vivos \ {p}
      /\ UNCHANGED <<registro_cpu, en_exec, despachado, devuelto, en_cpu, registros>>
  BY DEF FinalizarProceso
<1>2. EnUnLugar'
  BY <1>1 DEF RegsInv, EnUnLugar
<1>3. \A q : Actuales(q)' = Actuales(q)
  BY <1>1, ActualesEs
<1> QED
  BY <1>1, <1>2, <1>3, UnaTermina DEF Bien

LEMMA TomaLugar ==
  ASSUME RegsInv, RegsTipo', TomaContexto
  PROVE  Bien
<1> DEFINE c == Head(despachado)
<1>0. RegsTipo /\ EnUnLugar /\ despachado \in Seq(Paquetes) /\ vivos \subseteq Programas
  BY DEF RegsInv, RegsTipo
<1>1. /\ en_cpu = Nadie /\ despachado # <<>>
      /\ en_cpu' = c.pid /\ registros' = c.registros
      /\ despachado' = Tail(despachado)
      /\ UNCHANGED <<registro_cpu, vivos, en_exec, devuelto>>
  BY DEF TomaContexto
<1> HIDE DEF c
<1>2. ASSUME NEW q \in vivos, EnCasa(q, en_cpu, despachado, devuelto)
      PROVE  EnCasa(q, en_cpu', despachado', devuelto')
  BY <1>0, <1>1, <1>2, IdaTail DEF EnCasa, c
<1>3. ASSUME NEW q \in vivos, NEW x,
             EnVuelo(q, en_cpu, registros, despachado, devuelto, x)
      PROVE  EnVuelo(q, en_cpu', registros', despachado', devuelto', x)
  <2>0. en_cpu # q
    BY <1>0, <1>1, RegistrosAssumption
  <2>1. CASE NoSale(despachado, q)
    <3>1. \E k \in 1..Len(devuelto) :
            VuelveUna(devuelto, q, k) /\ x = devuelto[k].registros
      BY <1>3, <2>0, <2>1 DEF EnVuelo, NoSale, SaleUna
    <3>2. NoSale(despachado', q) /\ en_cpu' # q
      BY <1>0, <1>1, <2>1, IdaTail DEF c
    <3> QED
      BY <1>1, <3>1, <3>2 DEF EnVuelo
  <2>2. CASE ~NoSale(despachado, q)
    <3>1. NoVuelve(devuelto, q)
      BY <1>3, <2>0, <2>2 DEF EnVuelo
    <3>2. PICK k \in 1..Len(despachado) :
            SaleUna(despachado, q, k) /\ x = despachado[k].registros
      BY <1>3, <2>0, <2>2 DEF EnVuelo
    <3>3. CASE k = 1
      <4>1. NoSale(despachado', q) /\ en_cpu' = q /\ registros' = x
        BY <1>0, <1>1, <3>2, <3>3, IdaTail DEF c
      <4> QED
        BY <1>1, <3>1, <4>1 DEF EnVuelo
    <3>4. CASE k # 1
      <4>1. /\ en_cpu' # q /\ k - 1 \in 1..Len(despachado')
            /\ SaleUna(despachado', q, k - 1)
            /\ despachado'[k - 1] = despachado[k]
        <5>1. SaleUna(despachado, q, k) =>
                IF k = 1
                THEN /\ NoSale(Tail(despachado), q) /\ Head(despachado).pid = q
                     /\ Head(despachado) = despachado[k]
                ELSE /\ Head(despachado).pid # q
                     /\ k - 1 \in 1..Len(Tail(despachado))
                     /\ SaleUna(Tail(despachado), q, k - 1)
                     /\ Tail(despachado)[k - 1] = despachado[k]
          BY <1>0, <1>1, IdaTail
        <5> QED
          BY <1>1, <3>2, <3>4, <5>1 DEF c
      <4> QED
        BY <1>1, <3>1, <3>2, <4>1 DEF EnVuelo
    <3> QED
      BY <3>3, <3>4
  <2> QED
    BY <2>1, <2>2
<1>4. EnUnLugar'
  BY <1>0, <1>1, <1>2, <1>3 DEF EnUnLugar
<1>5. \A q \in vivos : Actuales(q)' = Actuales(q)
  <2> SUFFICES ASSUME NEW q \in vivos PROVE Actuales(q)' = Actuales(q)
    OBVIOUS
  <2>1. CASE q = en_exec
    <3>1. PICK x : EnVuelo(q, en_cpu, registros, despachado, devuelto, x)
      BY <1>0, <2>1 DEF EnUnLugar
    <3> QED
      BY <1>0, <1>3, <3>1, MismosRegistros
  <2>2. CASE q # en_exec
    <3>1. EnCasa(q, en_cpu, despachado, devuelto)
      BY <1>0, <2>2 DEF EnUnLugar
    <3> QED
      BY <1>0, <1>1, <1>2, <3>1, MismosRegistros
  <2> QED
    BY <2>1, <2>2
<1> QED
  BY <1>1, <1>4, <1>5, Ninguna DEF Bien

LEMMA EjecutaLugar ==
  ASSUME RegsInv, RegsTipo', Ejecuta
  PROVE  Bien
<1>0. RegsTipo /\ EnUnLugar /\ vivos \subseteq Programas
  BY DEF RegsInv, RegsTipo
<1>1. UNCHANGED <<registro_cpu, vivos, en_exec, despachado, devuelto, en_cpu>>
  BY DEF Ejecuta, InstructionExecute
<1>2. /\ registros' \in RegsValidos
      /\ registros' \in Maquinas!Siguientes(registros)
  BY <1>0, EjecutaHechos DEF RegsTipo
<1>3. ASSUME NEW q, NEW x, q # en_cpu,
             EnVuelo(q, en_cpu, registros, despachado, devuelto, x)
      PROVE  EnVuelo(q, en_cpu', registros', despachado', devuelto', x)
  BY <1>1, <1>3 DEF EnVuelo
<1>4. ASSUME NEW x, EnVuelo(en_cpu, en_cpu, registros, despachado, devuelto, x)
      PROVE  /\ x = registros
             /\ EnVuelo(en_cpu, en_cpu', registros', despachado', devuelto',
                        registros')
  BY <1>1, <1>4 DEF EnVuelo
<1>5. EnUnLugar'
  <2> SUFFICES ASSUME NEW q \in vivos
               PROVE  IF q = en_exec
                      THEN \E x \in RegsValidos : EnVuelo(q, en_cpu', registros',
                                           despachado', devuelto', x)
                      ELSE EnCasa(q, en_cpu', despachado', devuelto')
    BY <1>1 DEF EnUnLugar
  <2>1. CASE q = en_exec
    <3>1. PICK x \in RegsValidos :
            EnVuelo(q, en_cpu, registros, despachado, devuelto, x)
      BY <1>0, <2>1 DEF EnUnLugar
    <3>2. CASE q = en_cpu
      BY <1>2, <1>4, <2>1, <3>1, <3>2
    <3>3. CASE q # en_cpu
      BY <1>3, <2>1, <3>1, <3>3
    <3> QED
      BY <3>2, <3>3
  <2>2. CASE q # en_exec
    BY <1>0, <1>1, <2>2 DEF EnUnLugar
  <2> QED
    BY <2>1, <2>2
<1>6. ASSUME NEW q \in vivos, q # en_cpu PROVE Actuales(q)' = Actuales(q)
  <2>1. CASE q = en_exec
    <3>1. PICK x : EnVuelo(q, en_cpu, registros, despachado, devuelto, x)
      BY <1>0, <2>1 DEF EnUnLugar
    <3> QED
      BY <1>0, <1>3, <1>6, <3>1, MismosRegistros
  <2>2. CASE q # en_exec
    <3>1. EnCasa(q, en_cpu, despachado, devuelto)
      BY <1>0, <2>2 DEF EnUnLugar
    <3>2. EnCasa(q, en_cpu', despachado', devuelto')
      BY <1>1, <3>1
    <3> QED
      BY <1>0, <1>1, <3>1, <3>2, MismosRegistros
  <2> QED
    BY <2>1, <2>2
<1>7. CASE en_cpu \in vivos
  <2>1. Actuales(en_cpu) = registros /\ Actuales(en_cpu)' = registros'
    BY <1>1, ActualesEs DEF ActualesDe
  <2>2. Maquinas!MaqNext
    BY <1>0, <1>1, <1>2, <1>6, <1>7, <2>1, UnaInstruye
  <2> QED
    BY <1>5, <2>2 DEF Bien
<1>8. CASE en_cpu \notin vivos
  <2>1. \A q \in vivos : Actuales(q)' = Actuales(q)
    BY <1>6, <1>8
  <2> QED
    BY <1>1, <1>5, <2>1, Ninguna DEF Bien
<1> QED
  BY <1>7, <1>8

LEMMA DevuelveLugar ==
  ASSUME RegsInv, RegsTipo', DevuelveContexto
  PROVE  Bien
<1>0. /\ RegsTipo /\ EnUnLugar /\ TipoInv /\ vivos \subseteq Programas
      /\ Len(devuelto) \in Nat
  BY LenProperties DEF RegsInv, RegsTipo, TipoInv
<1>1. /\ en_cpu # Nadie /\ en_cpu' = Nadie /\ Nadie \notin vivos
      /\ UNCHANGED <<registro_cpu, vivos, en_exec, despachado, registros>>
  BY <1>0, RegistrosAssumption DEF DevuelveContexto
<1>2. PICK io \in BOOLEAN :
        devuelto' = devuelto \o <<Devolucion(en_cpu, registros, io)>>
                             \o (IF io THEN <<Syscall>> ELSE <<>>)
  BY DEF DevuelveContexto
<1> DEFINE n == Len(devuelto)
<1>3. /\ Len(devuelto') = n + (IF io THEN 2 ELSE 1)
      /\ \A k \in 1..n : devuelto'[k] = devuelto[k]
      /\ devuelto'[n + 1] = Devolucion(en_cpu, registros, io)
      /\ io => devuelto'[n + 2] = Syscall
  BY <1>0, <1>1, <1>2, DevuelveAgrega
<1> HIDE DEF n
<1>4. /\ \A q : Suyo(devuelto'[n + 1], q) <=> q = en_cpu
      /\ devuelto'[n + 1].registros = registros
      /\ \A q : io => ~Suyo(devuelto'[n + 2], q)
  <2>1. \A q : Suyo(devuelto'[n + 1], q) <=> q = en_cpu
    BY <1>3 DEF Suyo, Devolucion
  <2>2. devuelto'[n + 1].registros = registros
    BY <1>3 DEF Devolucion
  <2>3. \A q : io => ~Suyo(devuelto'[n + 2], q)
    BY <1>3 DEF Suyo, Syscall
  <2> QED
    BY <2>1, <2>2, <2>3
<1>5. n \in Nat /\ \A k \in 1..Len(devuelto') :
                     k \in 1..n \/ k = n + 1 \/ (io /\ k = n + 2)
  BY <1>0, <1>3 DEF n
<1>6. ASSUME NEW q, q # en_cpu
      PROVE  /\ NoVuelve(devuelto, q) => NoVuelve(devuelto', q)
             /\ \A k \in 1..n : VuelveUna(devuelto, q, k) =>
                    /\ k \in 1..Len(devuelto')
                    /\ VuelveUna(devuelto', q, k)
                    /\ devuelto'[k] = devuelto[k]
  <2>1. NoVuelve(devuelto, q) => NoVuelve(devuelto', q)
    BY <1>3, <1>4, <1>5, <1>6 DEF NoVuelve, n
  <2>2. ASSUME NEW k \in 1..n, VuelveUna(devuelto, q, k)
        PROVE  /\ k \in 1..Len(devuelto')
               /\ VuelveUna(devuelto', q, k)
               /\ devuelto'[k] = devuelto[k]
    <3>1. k \in 1..Len(devuelto') /\ devuelto'[k] = devuelto[k]
      BY <1>3, <1>5
    <3>2. ASSUME NEW j \in 1..Len(devuelto'), j # k PROVE ~Suyo(devuelto'[j], q)
      <4>1. CASE j \in 1..n
        BY <1>3, <2>2, <3>2, <4>1 DEF VuelveUna, n
      <4>2. CASE j = n + 1
        BY <1>4, <1>6, <4>2
      <4>3. CASE io /\ j = n + 2
        BY <1>4, <4>3
      <4> QED
        BY <1>5, <4>1, <4>2, <4>3
    <3> QED
      BY <2>2, <3>1, <3>2 DEF VuelveUna
  <2> QED
    BY <2>1, <2>2
<1>7. ASSUME NEW q, q # en_cpu, q # Nadie,
             EnCasa(q, en_cpu, despachado, devuelto)
      PROVE  EnCasa(q, en_cpu', despachado', devuelto')
  BY <1>1, <1>6, <1>7 DEF EnCasa
<1>8. ASSUME NEW q \in vivos, NEW x,
             EnVuelo(q, en_cpu, registros, despachado, devuelto, x)
      PROVE  EnVuelo(q, en_cpu', registros', despachado', devuelto', x)
  <2>0. en_cpu' # q
    BY <1>1
  <2>1. CASE q = en_cpu
    <3>1. NoSale(despachado, q) /\ NoVuelve(devuelto, q) /\ x = registros
      BY <1>8, <2>1 DEF EnVuelo
    <3>2. n + 1 \in 1..Len(devuelto')
      BY <1>3, <1>5
    <3>3. ASSUME NEW j \in 1..Len(devuelto'), j # n + 1 PROVE ~Suyo(devuelto'[j], q)
      <4>1. CASE j \in 1..n
        BY <1>3, <3>1, <4>1 DEF NoVuelve, n
      <4>2. CASE io /\ j = n + 2
        BY <1>4, <4>2
      <4> QED
        BY <1>5, <3>3, <4>1, <4>2
    <3>4. VuelveUna(devuelto', q, n + 1) /\ x = devuelto'[n + 1].registros
      BY <1>4, <2>1, <3>1, <3>2, <3>3 DEF VuelveUna
    <3> QED
      BY <1>1, <2>0, <3>1, <3>2, <3>4 DEF EnVuelo
  <2>2. CASE q # en_cpu /\ NoVuelve(devuelto, q)
    <3>1. \E k \in 1..Len(despachado) :
            SaleUna(despachado, q, k) /\ x = despachado[k].registros
      BY <1>8, <2>2 DEF EnVuelo, NoVuelve, VuelveUna
    <3>2. NoVuelve(devuelto', q)
      BY <1>6, <2>2
    <3> QED
      BY <1>1, <2>0, <3>1, <3>2 DEF EnVuelo
  <2>3. CASE q # en_cpu /\ ~NoVuelve(devuelto, q)
    <3>1. NoSale(despachado, q)
      BY <1>8, <2>3 DEF EnVuelo
    <3>2. PICK k \in 1..n : VuelveUna(devuelto, q, k) /\ x = devuelto[k].registros
      BY <1>8, <2>3 DEF EnVuelo, n
    <3>3. /\ k \in 1..Len(devuelto') /\ VuelveUna(devuelto', q, k)
          /\ x = devuelto'[k].registros
      BY <1>6, <2>3, <3>2
    <3> QED
      BY <1>1, <2>0, <3>1, <3>3 DEF EnVuelo
  <2> QED
    BY <2>1, <2>2, <2>3
<1>9. ASSUME NEW q \in vivos
      PROVE  /\ IF q = en_exec
                THEN \E x \in RegsValidos : EnVuelo(q, en_cpu', registros',
                                     despachado', devuelto', x)
                ELSE EnCasa(q, en_cpu', despachado', devuelto')
             /\ Actuales(q)' = Actuales(q)
  <2>1. CASE q = en_exec
    <3>1. PICK x \in RegsValidos :
            EnVuelo(q, en_cpu, registros, despachado, devuelto, x)
      BY <1>0, <2>1 DEF EnUnLugar
    <3>2. EnVuelo(q, en_cpu', registros', despachado', devuelto', x)
      BY <1>8, <3>1
    <3> QED
      BY <1>0, <2>1, <3>1, <3>2, MismosRegistros
  <2>2. CASE q # en_exec
    <3>1. EnCasa(q, en_cpu, despachado, devuelto)
      BY <1>0, <2>2 DEF EnUnLugar
    <3>2. EnCasa(q, en_cpu', despachado', devuelto')
      BY <1>1, <1>7, <3>1 DEF EnCasa
    <3> QED
      BY <1>0, <1>1, <2>2, <3>1, <3>2, MismosRegistros
  <2> QED
    BY <2>1, <2>2
<1>10. EnUnLugar'
  BY <1>1, <1>9 DEF EnUnLugar
<1> QED
  BY <1>1, <1>9, <1>10, Ninguna DEF Bien

LEMMA ActualizarLugar ==
  ASSUME RegsInv, RegsTipo', ActualizarContexto
  PROVE  Bien
<1> DEFINE paquete == Head(devuelto)
           e == en_exec
<1>0. /\ RegsTipo /\ EnUnLugar /\ TipoInv /\ vivos \subseteq Programas
      /\ devuelto \in Seq(Vueltas)
  BY DEF RegsInv, RegsTipo, TipoInv
<1>1. /\ e # Nadie /\ devuelto # <<>> /\ en_exec' = Nadie /\ Nadie \notin vivos
      /\ UNCHANGED <<despachado, en_cpu, registros>>
  BY <1>0, RegistrosAssumption DEF ActualizarContexto
<1>2. CASE e \in vivos /\ EsRespuesta(paquete)
  <2>1. /\ registro_cpu' = [registro_cpu EXCEPT ![e] = paquete.registros]
        /\ devuelto' = IF paquete.io THEN Tail(Tail(devuelto)) ELSE Tail(devuelto)
        /\ vivos' = vivos
    BY <1>2 DEF ActualizarContexto
  <2>2. /\ paquete = devuelto[1] /\ Len(devuelto) \in Nat \ {0}
        /\ Suyo(devuelto[1], e)
        /\ devuelto[1].io => Tail(devuelto) # <<>>
    BY <1>0, <1>1, <1>2, RespuestaHechos
  <2>3. PICK x \in RegsValidos :
          EnVuelo(e, en_cpu, registros, despachado, devuelto, x)
    BY <1>0, <1>2 DEF EnUnLugar
  <2>22. 1 \in 1..Len(devuelto) /\ Suyo(devuelto[1], e)
    BY <2>2
  <2>4. ~NoVuelve(devuelto, e)
    BY <2>22, Zenon DEF NoVuelve
  <2>5. /\ en_cpu # e /\ NoSale(despachado, e)
        /\ VuelveUna(devuelto, e, 1) /\ x = devuelto[1].registros
    <3>1. PICK k \in 1..Len(devuelto) :
            VuelveUna(devuelto, e, k) /\ x = devuelto[k].registros
      BY <2>3, <2>4 DEF EnVuelo
    <3>2. k = 1
      BY <2>22, <3>1, Zenon DEF VuelveUna
    <3> QED
      BY <2>3, <2>4, <3>1, <3>2 DEF EnVuelo
  <2>6. \A q : NoVuelve(Tail(devuelto), q) => NoVuelve(devuelto', q)
    <3> SUFFICES ASSUME NEW q, NoVuelve(Tail(devuelto), q)
                 PROVE  NoVuelve(devuelto', q)
      OBVIOUS
    <3>1. Tail(devuelto) \in Seq(Vueltas)
      BY <1>0, <1>1, VueltaTail
    <3> HIDE DEF paquete
    <3>2. CASE paquete.io
      <4>1. Tail(devuelto) # <<>> /\ devuelto' = Tail(Tail(devuelto))
        <5>1. paquete = devuelto[1] /\ (devuelto[1].io => Tail(devuelto) # <<>>)
          BY <2>2
        <5> QED
          BY <2>1, <3>2, <5>1
      <4> QED
        BY <3>1, <4>1, VueltaTail
    <3>3. CASE ~paquete.io
      BY <2>1, <3>3
    <3> QED
      BY <3>2, <3>3
  <2>7. EnCasa(e, en_cpu', despachado', devuelto')
    BY <1>0, <1>1, <2>5, <2>6, VueltaTail DEF EnCasa
  <2>8. ASSUME NEW q \in vivos, q # e
        PROVE  /\ EnCasa(q, en_cpu, despachado, devuelto)
               /\ EnCasa(q, en_cpu', despachado', devuelto')
    <3>1. EnCasa(q, en_cpu, despachado, devuelto)
      BY <1>0, <2>8 DEF EnUnLugar
    <3> QED
      BY <1>0, <1>1, <2>6, <3>1, VueltaTail DEF EnCasa
  <2>9. EnUnLugar'
    <3>1. \A q \in vivos' :
            q # en_exec' /\ EnCasa(q, en_cpu', despachado', devuelto')
      BY <1>1, <2>1, <2>7, <2>8
    <3> QED
      BY <3>1 DEF EnUnLugar
  <2>10. ASSUME NEW q \in vivos PROVE Actuales(q)' = Actuales(q)
    <3>1. CASE q = e
      <4>1. registro_cpu'[e] = x
        BY <1>0, <1>2, <2>1, <2>2, <2>5 DEF RegsTipo
      <4> QED
        BY <1>0, <2>3, <2>7, <3>1, <4>1, MismosRegistros
    <3>2. CASE q # e
      <4>1. registro_cpu'[q] = registro_cpu[q]
        BY <1>0, <2>1, <3>2 DEF RegsTipo
      <4> QED
        BY <1>0, <2>8, <3>2, <4>1, MismosRegistros
    <3> QED
      BY <3>1, <3>2
  <2> QED
    BY <2>1, <2>9, <2>10, Ninguna DEF Bien
<1>3. CASE ~(e \in vivos /\ EsRespuesta(paquete))
  <2>1. /\ vivos' = vivos \ {e} /\ devuelto' = Tail(devuelto)
        /\ registro_cpu' = registro_cpu
    BY <1>3 DEF ActualizarContexto
  <2>2. ASSUME NEW q \in vivos'
        PROVE  /\ EnCasa(q, en_cpu, despachado, devuelto)
               /\ EnCasa(q, en_cpu', despachado', devuelto')
    <3>1. EnCasa(q, en_cpu, despachado, devuelto)
      BY <1>0, <2>1, <2>2 DEF EnUnLugar
    <3> QED
      BY <1>0, <1>1, <2>1, <3>1, VueltaTail DEF EnCasa
  <2>3. EnUnLugar'
    <3>1. \A q \in vivos' : q # en_exec'
      BY <1>1, <2>1
    <3> QED
      BY <2>2, <3>1 DEF EnUnLugar
  <2>4. \A q \in vivos' : Actuales(q)' = Actuales(q)
    BY <1>0, <2>1, <2>2, MismosRegistros
  <2>5. CASE e \in vivos
    BY <2>1, <2>3, <2>4, <2>5, UnaTermina DEF Bien
  <2>6. CASE e \notin vivos
    <3>1. vivos' = vivos
      BY <2>1, <2>6
    <3> QED
      BY <2>3, <2>4, <3>1, Ninguna DEF Bien
  <2> QED
    BY <2>5, <2>6
<1> QED
  BY <1>2, <1>3

LEMMA RegsPaso ==
  ASSUME RegsInv, [RegNext]_reg_vars PROVE RegsInv' /\ Bien
<1>1. TipoInv' /\ RegsTipo' /\ TipoInv
  BY TipoPaso DEF RegsInv, TipoInv
<1>2. Bien
  <2>1. CASE RegNext
    BY <1>1, <2>1, EjecutarLugar, FinalizarLugar, TomaLugar, EjecutaLugar,
       DevuelveLugar, ActualizarLugar DEF RegNext
  <2>2. CASE UNCHANGED reg_vars
    <3>1. UNCHANGED <<registro_cpu, vivos, en_exec, despachado, devuelto,
                      en_cpu, registros>>
      BY <2>2 DEF reg_vars
    <3>2. \A q \in vivos : Actuales(q)' = Actuales(q)
      BY <3>1, ActualesEs
    <3>3. EnUnLugar'
      BY <3>1 DEF RegsInv, EnUnLugar
    <3> QED
      BY <3>1, <3>2, <3>3, Ninguna DEF Bien
  <2> QED
    BY <2>1, <2>2
<1> QED
  BY <1>1, <1>2, RegsInvEs DEF Bien, RegsInv, TipoInv

LEMMA RegsInit == ASSUME RegInit PROVE RegsInv /\ Maquinas!MaqInit
  BY RegInitTipo, RegInitLugar, RegsInvEs

(* No register is wider than its field, wherever it is. *)
LEMMA RegsInvTipo == ASSUME RegsInv PROVE RegTypeOK
<1>1. RegsTipo
  BY DEF RegsInv
<1>2. RegsValidos \subseteq Registros8y32
  <2> SUFFICES ASSUME NEW regs \in RegsValidos, NEW r \in NombresReg
               PROVE  regs[r] \in 0..(Potencia(BitsInt) - 1)
    BY DEF RegsValidos, Registros8y32, Potencia
  <2>1. regs[r] \in 0..(Valores(r) - 1)
    BY DEF RegsValidos
  <2>2. Potencia(BitsByte) <= Potencia(BitsInt)
    <3>1. PICK j \in Nat \ {0} : Potencia(BitsInt) = j * Potencia(BitsByte)
      BY AnchosHechos
    <3>2. Potencia(BitsByte) \in Nat
      BY RegistrosAssumption, PotenciaEnNat
    <3> QED
      BY <3>1, <3>2
  <2>3. Potencia(BitsByte) \in Nat /\ Potencia(BitsInt) \in Nat
    BY RegistrosAssumption, PotenciaEnNat
  <2> QED
    BY <2>1, <2>2, <2>3 DEF Valores
<1>3. \A k \in DOMAIN despachado : despachado[k].registros \in Registros8y32
  <2>1. \A k \in DOMAIN despachado : despachado[k] \in Paquetes
    BY <1>1, LenProperties, ElementOfSeq DEF RegsTipo
  <2> QED
    BY <1>2, <2>1 DEF Paquetes
<1>4. \A k \in DOMAIN devuelto :
        devuelto[k] = Syscall \/ devuelto[k].registros \in Registros8y32
  <2>1. \A k \in DOMAIN devuelto : devuelto[k] \in Vueltas
    BY <1>1, LenProperties, ElementOfSeq DEF RegsTipo
  <2> QED
    BY <1>2, <2>1 DEF Vueltas
<1>5. \A r \in RegByte : registros[r] < 2^BitsByte
  <2> SUFFICES ASSUME NEW r \in RegByte PROVE registros[r] < Potencia(BitsByte)
    BY DEF Potencia
  <2>1. registros[r] \in 0..(Potencia(BitsByte) - 1)
    BY <1>1 DEF RegsTipo, RegsValidos, Valores, NombresReg
  <2> QED
    BY <2>1, RegistrosAssumption, PotenciaEnNat
<1> QED
  BY <1>1, <1>2, <1>3, <1>4, <1>5 DEF RegTypeOK, RegsTipo

(***************************************************************************)
(* No register of a PCB, of a packet or of the CPU is ever wider than its  *)
(* field (the casts of instruction_processor.c).                           *)
(***************************************************************************)
THEOREM RegTypeOKSiempre == RegSpec => []RegTypeOK
<1>1. RegInit => RegsInv
  BY RegsInit
<1>2. RegsInv /\ [RegNext]_reg_vars => RegsInv'
  BY RegsPaso
<1>3. RegsInv => RegTypeOK
  BY RegsInvTipo
<1> QED
  BY <1>1, <1>2, <1>3, PTL DEF RegSpec

(***************************************************************************)
(* Every behaviour of the dispatch, of the answers out of step that a kill *)
(* leaves behind and of the casts is one of MaquinasPrivadas: a living     *)
(* process goes on with the registers it had, and SUM and SUB are the      *)
(* operations of the integers with sign, for any widths.                   *)
(***************************************************************************)
THEOREM RegistrosPrivadosSiempre == RegSpec => RegistrosPrivados
<1>1. RegInit => RegsInv /\ Maquinas!MaqInit
  BY RegsInit
<1>2. RegsInv /\ [RegNext]_reg_vars
        => RegsInv' /\ [Maquinas!MaqNext]_<<Maquina, vivos>>
  BY RegsPaso DEF Bien
<1> QED
  BY <1>1, <1>2, PTL DEF RegSpec, RegistrosPrivados, Maquinas!MaqSpec, Maquina

-----------------------------------------------------------------------------
(***************************************************************************)
(* The five parts together.                                                *)
(***************************************************************************)
PiezasInv == ProgInv /\ RecInv /\ DialInv /\ ConInv /\ RegsInv

LEMMA PiezasInitInv == PiezasInit => PiezasInv
  BY ProgInitInv, RecInitInv, DialInitInv, ConInitInv, RegsInit
     DEF PiezasInit, PiezasInv

LEMMA PiezasPaso ==
  ASSUME PiezasInv, [PiezasNext]_piezas_vars
  PROVE  PiezasInv'
<1>1. /\ [ProgNext]_prog_vars /\ [RecNext]_rec_vars /\ [DialNext]_dial_vars
      /\ [ConNext]_con_vars /\ [RegNext]_reg_vars
  BY DEF PiezasNext, piezas_vars, EnGrado, EnRecursos, EnDialFS, EnConexiones,
         EnRegistros
<1> QED
  BY <1>1, ProgNextInv, RecNextInv, DialPasoInv, ConPaso, RegsPaso DEF PiezasInv

(***************************************************************************)
(* In every behaviour of the five parts no count of multiprogramacion.c or *)
(* recursos.c is negative, no block number is past the end of a device, no *)
(* descriptor is one that accept does not give, and no register is wider   *)
(* than its field.                                                         *)
(***************************************************************************)
THEOREM TiposOKSiempre == PiezasSpec => []TiposOK
<1>1. PiezasInv => TiposOK
  BY DialInvTipo, ConInvTipo, RegsInvTipo DEF PiezasInv, ProgInv, RecInv, TiposOK
<1>2. PiezasInv /\ [PiezasNext]_piezas_vars => PiezasInv'
  BY PiezasPaso
<1>3. PiezasSpec => PiezasInit /\ [][PiezasNext]_piezas_vars
  BY PTL DEF PiezasSpec
<1> QED
  BY <1>1, <1>2, <1>3, PiezasInitInv, PTL

=============================================================================
