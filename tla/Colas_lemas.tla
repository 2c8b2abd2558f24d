---------------------------- MODULE Colas_lemas ----------------------------
(* Facts about the queues of the models: what Append, Tail and RemoveFirst *)
(* (queue_push, queue_pop and list_remove_element of the commons library)  *)
(* do to the length and to the elements of a sequence without repetitions. *)
EXTENDS Integers, Sequences, SequencesExt, SequenceTheorems,
        WellFoundedInduction, TLAPS

(* IsInjective of a sequence: no element is in it twice. *)
LEMMA SinRepetidosDef ==
  ASSUME NEW S, NEW s \in Seq(S)
  PROVE  IsInjective(s) <=> \A i, j \in 1..Len(s) : s[i] = s[j] => i = j
<1>1. DOMAIN s = 1..Len(s)
  BY LenProperties
<1> QED
  BY <1>1 DEF IsInjective

LEMMA MinimoExiste ==
  ASSUME NEW T \in SUBSET Nat, T # {}
  PROVE  Min(T) \in T /\ \A y \in T : Min(T) <= y
<1> DEFINE Menor == {ss \in Nat \X Nat : ss[1] < ss[2]}
<1>0. Menor = OpToRel(<, Nat)
  BY Zenon DEF OpToRel
<1>1. PICK x \in T : \A y \in T : ~ (<<y, x>> \in Menor)
  <2>1. IsWellFoundedOn(Menor, Nat)
    BY <1>0, NatLessThanWellFounded, Zenon
  <2> HIDE DEF Menor
  <2> QED
    BY <2>1, WFMin
<1>2. ASSUME NEW y \in T PROVE x <= y
  <2>1. <<y, x>> \in Nat \X Nat /\ <<y, x>>[1] = y /\ <<y, x>>[2] = x
    OBVIOUS
  <2>2. ~ (<<y, x>>[1] < <<y, x>>[2])
    BY <1>1, <2>1, Zenon
  <2> QED
    BY <2>1, <2>2
<1> QED
  BY <1>2 DEF Min

LEMMA RemoveFirstPosicion ==
  ASSUME NEW S, NEW s \in Seq(S), NEW e, Contains(s, e)
  PROVE  \E k \in 1..Len(s) : s[k] = e /\ RemoveFirst(s, e) = RemoveAt(s, k)
<1> DEFINE I == {i \in 1..Len(s) : s[i] = e}
<1>1. I # {} /\ I \in SUBSET Nat
  BY DEF Contains
<1>2. Min(I) \in I
  BY <1>1, MinimoExiste
<1>3. RemoveFirst(s, e) = RemoveAt(s, Min(I))
  BY <1>1 DEF RemoveFirst, SelectInSeq, Contains
<1> QED
  BY <1>2, <1>3

LEMMA RemoveAtHechos ==
  ASSUME NEW S, NEW s \in Seq(S), NEW k \in 1..Len(s)
  PROVE  /\ RemoveAt(s, k) \in Seq(S)
         /\ Len(RemoveAt(s, k)) = Len(s) - 1
         /\ \A i \in 1..(Len(s) - 1) :
              RemoveAt(s, k)[i] = IF i < k THEN s[i] ELSE s[i + 1]
<1> DEFINE a == SubSeq(s, 1, k - 1)
           b == SubSeq(s, k + 1, Len(s))
<1>0. /\ Len(s) \in Nat
      /\ \A i \in 1..(k - 1) : s[i] \in S
      /\ \A i \in (k + 1)..Len(s) : s[i] \in S
  BY LenProperties, ElementOfSeq
<1>1. /\ a \in Seq(S)
      /\ Len(a) = k - 1
      /\ \A i \in 1..(k - 1) : a[i] = s[i]
  BY <1>0, SubSeqProperties
<1>2. /\ b \in Seq(S)
      /\ Len(b) = Len(s) - k
      /\ \A i \in 1..(Len(s) - k) : b[i] = s[k + i]
  <2>1. /\ b \in Seq(S)
        /\ Len(b) = IF k + 1 <= Len(s) THEN Len(s) - (k + 1) + 1 ELSE 0
        /\ \A i \in 1..(Len(s) - (k + 1) + 1) : b[i] = s[(k + 1) + i - 1]
    BY <1>0, SubSeqProperties
  <2> QED
    BY <1>0, <2>1
<1>3. /\ a \o b \in Seq(S)
      /\ Len(a \o b) = Len(a) + Len(b)
      /\ \A i \in 1..(Len(a) + Len(b)) :
           (a \o b)[i] = IF i <= Len(a) THEN a[i] ELSE b[i - Len(a)]
  BY <1>1, <1>2, ConcatProperties
<1> HIDE DEF a, b
<1>4. /\ a \o b \in Seq(S)
      /\ Len(a \o b) = Len(s) - 1
      /\ \A i \in 1..(Len(s) - 1) :
           (a \o b)[i] = IF i < k THEN s[i] ELSE s[i + 1]
  BY <1>0, <1>1, <1>2, <1>3
<1> QED
  BY <1>4 DEF RemoveAt, a, b

(* list_remove_element takes one entry out, and the rest stay distinct. *)
LEMMA RemoveFirstHechos ==
  ASSUME NEW S, NEW s \in Seq(S), NEW e, Contains(s, e)
  PROVE  /\ RemoveFirst(s, e) \in Seq(S)
         /\ Len(RemoveFirst(s, e)) = Len(s) - 1
         /\ \A x : Contains(RemoveFirst(s, e), x) => Contains(s, x)
         /\ IsInjective(s) => /\ IsInjective(RemoveFirst(s, e))
                               /\ ~Contains(RemoveFirst(s, e), e)
<1>1. PICK k \in 1..Len(s) : s[k] = e /\ RemoveFirst(s, e) = RemoveAt(s, k)
  BY RemoveFirstPosicion
<1> DEFINE t == RemoveAt(s, k)
<1>2. /\ t \in Seq(S)
      /\ Len(t) = Len(s) - 1
      /\ \A i \in 1..(Len(s) - 1) : t[i] = IF i < k THEN s[i] ELSE s[i + 1]
  BY RemoveAtHechos
<1>3. Len(s) \in Nat
  BY LenProperties
<1> HIDE DEF t
<1>4. \A x : Contains(t, x) => Contains(s, x)
  BY <1>2, <1>3 DEF Contains
<1>5. ASSUME IsInjective(s) PROVE IsInjective(t) /\ ~Contains(t, e)
  <2>1. \A i, j \in 1..Len(s) : s[i] = s[j] => i = j
    BY <1>5, SinRepetidosDef
  <2>2. ASSUME NEW i \in 1..Len(t) PROVE t[i] # e
    BY <1>1, <1>2, <1>3, <2>1
  <2>3. ASSUME NEW i \in 1..Len(t), NEW j \in 1..Len(t), t[i] = t[j]
        PROVE  i = j
    BY <1>1, <1>2, <1>3, <2>1, <2>3
  <2>4. IsInjective(t)
    BY <1>2, <2>3, SinRepetidosDef
  <2> QED
    BY <2>2, <2>4 DEF Contains
<1> QED
  BY <1>1, <1>2, <1>4, <1>5 DEF t

(* queue_pop *)
LEMMA TailHechos ==
  ASSUME NEW S, NEW s \in Seq(S), s # <<>>
  PROVE  /\ Tail(s) \in Seq(S)
         /\ Head(s) \in S
         /\ Len(Tail(s)) = Len(s) - 1
         /\ \A x : Contains(Tail(s), x) => Contains(s, x)
         /\ IsInjective(s) => IsInjective(Tail(s))
<1>1. Len(s) \in Nat
  BY LenProperties
<1>2. /\ Head(s) \in S
      /\ Tail(s) \in Seq(S)
      /\ Len(Tail(s)) = Len(s) - 1
      /\ \A i \in 1..Len(Tail(s)) : Tail(s)[i] = s[i + 1]
  BY HeadTailProperties
<1>3. ASSUME IsInjective(s) PROVE IsInjective(Tail(s))
  <2>1. \A i, j \in 1..Len(s) : s[i] = s[j] => i = j
    BY <1>3, SinRepetidosDef
  <2>2. ASSUME NEW i \in 1..Len(Tail(s)), NEW j \in 1..Len(Tail(s)),
               Tail(s)[i] = Tail(s)[j]
        PROVE  i = j
    BY <1>1, <1>2, <2>1, <2>2
  <2> QED
    BY <1>2, <2>2, SinRepetidosDef
<1> QED
  BY <1>1, <1>2, <1>3 DEF Contains

(* queue_push of somebody who is not in the queue *)
LEMMA AppendHechos ==
  ASSUME NEW S, NEW s \in Seq(S), NEW e \in S
  PROVE  /\ Append(s, e) \in Seq(S)
         /\ Len(Append(s, e)) = Len(s) + 1
         /\ \A x : Contains(Append(s, e), x) => x = e \/ Contains(s, x)
         /\ IsInjective(s) /\ ~Contains(s, e) => IsInjective(Append(s, e))
<1>1. Len(s) \in Nat
  BY LenProperties
<1>2. /\ Append(s, e) \in Seq(S)
      /\ Len(Append(s, e)) = Len(s) + 1
      /\ \A i \in 1..Len(s) : Append(s, e)[i] = s[i]
      /\ Append(s, e)[Len(s) + 1] = e
  BY AppendProperties
<1>3. ASSUME IsInjective(s), ~Contains(s, e)
      PROVE  IsInjective(Append(s, e))
  <2>1. \A i, j \in 1..Len(s) : s[i] = s[j] => i = j
    BY <1>3, SinRepetidosDef
  <2>2. ASSUME NEW i \in 1..Len(Append(s, e)), NEW j \in 1..Len(Append(s, e)),
               Append(s, e)[i] = Append(s, e)[j]
        PROVE  i = j
    BY <1>1, <1>2, <1>3, <2>1, <2>2 DEF Contains
  <2> QED
    BY <1>2, <2>2, SinRepetidosDef
<1> QED
  BY <1>1, <1>2, <1>3 DEF Contains

=============================================================================
