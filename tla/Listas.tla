------------------------------- MODULE Listas -------------------------------
(***************************************************************************)
(* What the list operations of the kernel do to a list of processes, the   *)
(* lemmas that the proofs about Planificacion cite: list_remove_element    *)
(* (RemoveFirst), list_add (Append), list_remove of the first (Tail) and   *)
(* list_sort (a permutation).                                              *)
(***************************************************************************)
EXTENDS Integers, SequencesExt, SequenceTheorems, FunctionTheorems,
        WellFoundedInduction, TLAPS

\* A non-empty set of naturals has a least element, which is Min of the set.
LEMMA MinEsta ==
  ASSUME NEW S \in SUBSET Nat, S # {}
  PROVE  Min(S) \in S /\ \A y \in S : Min(S) <= y
<1> DEFINE R == {ss \in Nat \X Nat : ss[1] < ss[2]}
<1>1. IsWellFoundedOn(R, Nat)
  <2>1. R = OpToRel(<, Nat)
    BY DEF OpToRel
  <2> QED BY <2>1, NatLessThanWellFounded
<1>2. PICK x \in S : \A y \in S : <<y, x>> \notin R
  BY <1>1, WFMin
<1>3. ASSUME NEW y \in S PROVE x <= y
  <2>1. x \in Nat /\ y \in Nat
    OBVIOUS
  <2>2. ~(y < x)
    BY <2>1, <1>2, Zenon
  <2> QED BY <2>1, <2>2
<1> QED BY <1>3 DEF Min

\* list_remove at a position.
LEMMA RemoveAtPropiedades ==
  ASSUME NEW S, NEW s \in Seq(S), NEW i \in 1..Len(s)
  PROVE  /\ RemoveAt(s, i) \in Seq(S)
         /\ Len(RemoveAt(s, i)) = Len(s) - 1
         /\ \A j \in 1..(Len(s) - 1) :
              RemoveAt(s, i)[j] = IF j < i THEN s[j] ELSE s[j + 1]
<1> DEFINE a == SubSeq(s, 1, i - 1)
           b == SubSeq(s, i + 1, Len(s))
<1>1. a \in Seq(S) /\ Len(a) = i - 1 /\ \A j \in 1..(i - 1) : a[j] = s[j]
  BY SubSeqProperties, ElementOfSeq
<1>2. b \in Seq(S) /\ Len(b) = Len(s) - i /\ \A j \in 1..(Len(s) - i) : b[j] = s[i + j]
  BY SubSeqProperties, ElementOfSeq
<1>3. /\ a \o b \in Seq(S)
      /\ Len(a \o b) = Len(a) + Len(b)
      /\ \A j \in 1..(Len(a) + Len(b)) :
           (a \o b)[j] = IF j <= Len(a) THEN a[j] ELSE b[j - Len(a)]
  BY <1>1, <1>2, ConcatProperties
<1>4. RemoveAt(s, i) = a \o b
  BY DEF RemoveAt
<1>5. Len(s) \in Nat
  BY LenProperties
<1> DEFINE r == RemoveAt(s, i)
<1> HIDE DEF a, b, r
<1>6. r \in Seq(S) /\ Len(r) = Len(s) - 1
  BY <1>1, <1>2, <1>3, <1>4, <1>5 DEF r
<1>7. ASSUME NEW j \in 1..(Len(s) - 1)
      PROVE  r[j] = IF j < i THEN s[j] ELSE s[j + 1]
  <2>1. j \in 1..(Len(a) + Len(b))
    BY <1>1, <1>2, <1>5
  <2>2. r[j] = IF j <= Len(a) THEN a[j] ELSE b[j - Len(a)]
    BY <2>1, <1>3, <1>4 DEF r
  <2>3. CASE j < i
    BY <2>2, <2>3, <1>1
  <2>4. CASE ~(j < i)
    <3>1. j - Len(a) \in 1..(Len(s) - i) /\ i + (j - Len(a)) = j + 1
      BY <2>4, <1>1, <1>5
    <3>2. b[j - Len(a)] = s[i + (j - Len(a))]
      BY <3>1, <1>2
    <3> QED BY <2>2, <2>4, <3>1, <3>2, <1>1
  <2> QED BY <2>3, <2>4
<1> QED BY <1>6, <1>7 DEF r

\* list_remove_element of what is not in the list.
LEMMA RemoveFirstAusente ==
  ASSUME NEW S, NEW s \in Seq(S), NEW p, p \notin Range(s)
  PROVE  RemoveFirst(s, p) = s
BY LenProperties DEF RemoveFirst, Range

\* list_remove_element of a member takes out one position that holds it.
LEMMA RemoveFirstPresente ==
  ASSUME NEW S, NEW s \in Seq(S), NEW p, p \in Range(s)
  PROVE  \E i \in 1..Len(s) : s[i] = p /\ RemoveFirst(s, p) = RemoveAt(s, i)
<1> DEFINE I == {i \in 1..Len(s) : s[i] = p}
<1>1. DOMAIN s = 1..Len(s) /\ Len(s) \in Nat
  BY LenProperties
<1>2. I # {} /\ I \in SUBSET Nat
  BY <1>1 DEF Range
<1>3. SelectInSeq(s, LAMBDA v : v = p) = Min(I)
  BY <1>2 DEF SelectInSeq
<1>4. Min(I) \in I
  BY <1>2, MinEsta
<1> QED BY <1>2, <1>3, <1>4 DEF RemoveFirst

\* What list_remove_element leaves of a list without repetitions.
LEMMA RemoveFirstPropiedades ==
  ASSUME NEW S, NEW s \in Seq(S), NEW p
  PROVE  /\ RemoveFirst(s, p) \in Seq(S)
         /\ IsInjective(s) => /\ IsInjective(RemoveFirst(s, p))
                              /\ Range(RemoveFirst(s, p)) = Range(s) \ {p}
<1>1. CASE p \notin Range(s)
  BY <1>1, RemoveFirstAusente
<1>2. CASE p \in Range(s)
  <2>1. PICK i \in 1..Len(s) : s[i] = p /\ RemoveFirst(s, p) = RemoveAt(s, i)
    BY <1>2, RemoveFirstPresente
  <2> DEFINE r == RemoveFirst(s, p)
  <2>2. /\ r \in Seq(S) /\ Len(r) = Len(s) - 1
        /\ \A j \in 1..(Len(s) - 1) : r[j] = IF j < i THEN s[j] ELSE s[j + 1]
    BY <2>1, RemoveAtPropiedades
  <2>3. /\ DOMAIN s = 1..Len(s) /\ Len(s) \in Nat
        /\ DOMAIN r = 1..(Len(s) - 1)
    BY <2>2, LenProperties
  <2> HIDE DEF r
  <2>4. ASSUME IsInjective(s) PROVE IsInjective(r)
    <3> SUFFICES ASSUME NEW a \in 1..(Len(s) - 1), NEW b \in 1..(Len(s) - 1), r[a] = r[b]
                 PROVE  a = b
      BY <2>3 DEF IsInjective
    <3> DEFINE x == IF a < i THEN a ELSE a + 1
               y == IF b < i THEN b ELSE b + 1
    <3>1. r[a] = s[x] /\ r[b] = s[y] /\ x \in 1..Len(s) /\ y \in 1..Len(s)
      BY <2>2, <2>3
    <3>2. x = y
      BY <3>1, <2>3, <2>4 DEF IsInjective
    <3> QED BY <3>2
  <2>5. ASSUME IsInjective(s) PROVE Range(r) \subseteq Range(s) \ {p}
    <3> SUFFICES ASSUME NEW a \in 1..(Len(s) - 1)
                 PROVE  r[a] \in Range(s) \ {p}
      BY <2>3 DEF Range
    <3> DEFINE x == IF a < i THEN a ELSE a + 1
    <3>1. r[a] = s[x] /\ x \in 1..Len(s) /\ x # i
      BY <2>2, <2>3
    <3> QED BY <3>1, <2>1, <2>3, <2>5 DEF IsInjective, Range
  <2>6. Range(s) \ {p} \subseteq Range(r)
    <3> SUFFICES ASSUME NEW k \in 1..Len(s), s[k] # p
                 PROVE  s[k] \in Range(r)
      BY <2>3 DEF Range
    <3> DEFINE a == IF k < i THEN k ELSE k - 1
    <3>1. k # i
      BY <2>1
    <3>2. a \in 1..(Len(s) - 1) /\ r[a] = s[k]
      BY <3>1, <2>2, <2>3
    <3> QED BY <3>2, <2>3 DEF Range
  <2> QED BY <2>2, <2>4, <2>5, <2>6 DEF r
<1> QED BY <1>1, <1>2

\* list_add.
LEMMA AppendPropiedades ==
  ASSUME NEW S, NEW s \in Seq(S), NEW p \in S
  PROVE  /\ Append(s, p) \in Seq(S)
         /\ Range(Append(s, p)) = Range(s) \cup {p}
         /\ IsInjective(s) /\ p \notin Range(s) => IsInjective(Append(s, p))
<1> DEFINE r == Append(s, p)
<1>1. /\ r \in Seq(S) /\ Len(r) = Len(s) + 1
      /\ \A i \in 1..Len(s) : r[i] = s[i]
      /\ r[Len(s) + 1] = p
  BY AppendProperties
<1>2. /\ Len(s) \in Nat /\ DOMAIN s = 1..Len(s)
      /\ DOMAIN r = 1..(Len(s) + 1)
  BY <1>1, LenProperties
<1> HIDE DEF r
<1>3. Range(r) = Range(s) \cup {p}
  <2>1. Range(r) \subseteq Range(s) \cup {p}
    BY <1>1, <1>2 DEF Range
  <2>2. Range(s) \subseteq Range(r)
    BY <1>1, <1>2 DEF Range
  <2>3. p \in Range(r)
    BY <1>1, <1>2 DEF Range
  <2> QED BY <2>1, <2>2, <2>3
<1>4. ASSUME IsInjective(s), p \notin Range(s) PROVE IsInjective(r)
  <2> SUFFICES ASSUME NEW a \in 1..(Len(s) + 1), NEW b \in 1..(Len(s) + 1), r[a] = r[b]
               PROVE  a = b
    BY <1>2 DEF IsInjective
  <2>1. \A k \in 1..Len(s) : s[k] # p
    BY <1>2, <1>4 DEF Range
  <2>2. CASE a \in 1..Len(s) /\ b \in 1..Len(s)
    BY <2>2, <1>1, <1>2, <1>4 DEF IsInjective
  <2>3. CASE a \notin 1..Len(s) \/ b \notin 1..Len(s)
    BY <2>1, <2>3, <1>1, <1>2
  <2> QED BY <2>2, <2>3
<1> QED BY <1>1, <1>3, <1>4 DEF r

\* list_sort: the same processes, in another order.
LEMMA PermutacionPropiedades ==
  ASSUME NEW S, NEW s \in Seq(S), NEW f \in Bijection(DOMAIN s, DOMAIN s)
  PROVE  LET t == [i \in DOMAIN s |-> s[f[i]]]
         IN /\ t \in Seq(S)
            /\ Range(t) = Range(s)
            /\ IsInjective(s) => IsInjective(t)
<1> DEFINE t == [i \in DOMAIN s |-> s[f[i]]]
<1>1. DOMAIN s = 1..Len(s) /\ Len(s) \in Nat /\ \A i \in DOMAIN s : s[i] \in S
  BY LenProperties, ElementOfSeq
<1>2. /\ f \in [DOMAIN s -> DOMAIN s]
      /\ \A j \in DOMAIN s : \E i \in DOMAIN s : f[i] = j
      /\ \A a, b \in DOMAIN s : f[a] = f[b] => a = b
  BY DEF Bijection, Injection, Surjection, IsInjective
<1>3. t \in Seq(S)
  <2>1. t \in [1..Len(s) -> S]
    BY <1>1, <1>2
  <2> QED BY <2>1, <1>1, SeqDef
<1>4. Range(t) = Range(s)
  BY <1>2 DEF Range
<1>5. IsInjective(s) => IsInjective(t)
  BY <1>2 DEF IsInjective
<1> QED BY <1>3, <1>4, <1>5

=============================================================================
