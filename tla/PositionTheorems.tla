------------------------- MODULE PositionTheorems -------------------------
(***************************************************************************)
(* What TLAPS proves of Positions and of sequences built by numbers: a     *)
(* filter leaves the elements at the positions it chooses, each once and   *)
(* in their order.                                                         *)
(***************************************************************************)
EXTENDS Positions, SequencesExt, FiniteSetTheorems, SequenceTheorems,
        WellFoundedInduction, TLAPS

\* A sequence, of whatever it holds.
IsSeq(s) == s \in Seq(ToSet(s))

----------------------------------------------------------------------------
(* Positions.                                                              *)

\* A set of numbers that is not empty has a least one, a bounded one a greatest.
LEMMA LeastOne ==
  ASSUME NEW S \in SUBSET Nat, S # {}
  PROVE  \E m \in S : \A k \in S : m <= k
<1>1. IsWellFoundedOn(OpToRel(<, Nat), Nat)
  BY NatLessThanWellFounded
<1>2. PICK m \in S : \A k \in S : ~(<<k, m>> \in OpToRel(<, Nat))
  BY <1>1, WFMin
<1>3. \A k \in S : ~(k < m)
  BY <1>2 DEF OpToRel
<1> QED
  BY <1>3

LEMMA GreatestOne ==
  ASSUME NEW n \in Nat, NEW S \in SUBSET (1..n), S # {}
  PROVE  \E m \in S : \A k \in S : k <= m
<1> DEFINE Bounds == {b \in Nat : \A j \in S : j <= b}
<1>1. n \in Bounds /\ Bounds \in SUBSET Nat
  OBVIOUS
<1>2. PICK m \in Bounds : \A b \in Bounds : m <= b
  BY <1>1, LeastOne
<1>3. m \in S
  <2> SUFFICES ASSUME m \notin S PROVE FALSE
    OBVIOUS
  <2>1. PICK j \in S : TRUE
    OBVIOUS
  <2>2. m \in Nat /\ j \in 1..n /\ j <= m
    BY <1>2, <2>1
  <2>3. m - 1 \in Nat /\ \A x \in S : x \in Int /\ x <= m - 1
    BY <1>2, <2>2
  <2>4. m - 1 \in Bounds
    BY <2>3
  <2> QED
    BY <1>2, <2>2, <2>4
<1> QED
  BY <1>2, <1>3

\* Below a bound, a set of positions has the k-th for every k up to its size.
LEMMA NthIn ==
  ASSUME NEW n \in Nat, NEW S \in SUBSET (1..n), NEW k \in 1..Cardinality(S)
  PROVE  Nth(S, k) \in S /\ Cardinality({j \in S : j <= Nth(S, k)}) = k
<1>1. IsFiniteSet(S) /\ Cardinality(S) \in Nat
  <2>1. IsFiniteSet(1..n)
    BY FS_Interval
  <2>2. IsFiniteSet(S)
    BY <2>1, FS_Subset
  <2> QED
    BY <2>2, FS_CardinalityType
<1> DEFINE Upto(i) == {j \in S : j <= i}
<1>2. \A i \in Nat : IsFiniteSet(Upto(i)) /\ Cardinality(Upto(i)) \in Nat
  <2> TAKE i \in Nat
  <2>1. Upto(i) \in SUBSET S
    OBVIOUS
  <2>2. IsFiniteSet(Upto(i))
    BY <2>1, <1>1, FS_Subset
  <2> QED
    BY <2>2, FS_CardinalityType
<1> DEFINE Many == {i \in S : Cardinality(Upto(i)) >= k}
<1>3. Many # {}
  <2>1. S # {}
    BY <1>1, FS_EmptySet
  <2>2. PICK top \in S : \A j \in S : j <= top
    BY <2>1, GreatestOne
  <2>3. Upto(top) = S
    BY <2>2
  <2> HIDE DEF Upto
  <2> QED
    BY <2>2, <2>3, <1>1
<1>4. Many \in SUBSET Nat
  <2>1. Many \in SUBSET S
    OBVIOUS
  <2> HIDE DEF Many
  <2> QED
    BY <2>1
<1>5. PICK i \in Many : \A j \in Many : i <= j
  BY <1>3, <1>4, LeastOne
<1>6. i \in S /\ i \in Nat /\ i \in Upto(i) /\ Cardinality(Upto(i)) >= k
  BY <1>5
<1>7. PICK Under : Under = Upto(i) \ {i}
  OBVIOUS
<1>8. Under \in SUBSET (1..n) /\ \A j \in Under : j \in S /\ j < i
  <2>1. \A j \in S : j \in 1..n
    OBVIOUS
  <2>2. \A j \in Under : j \in Upto(i) /\ j # i
    BY <1>7
  <2>3. \A j \in Upto(i) : j \in S /\ j <= i
    OBVIOUS
  <2>4. i \in Int
    BY <1>6
  <2> HIDE DEF Upto, Many
  <2>5. ASSUME NEW j \in Under PROVE j \in 1..n /\ j \in S /\ j < i
    <3>1. j \in S /\ j \in 1..n /\ j # i /\ j <= i
      BY <2>1, <2>2, <2>3
    <3>2. j \in Int
      BY <3>1
    <3> QED
      BY <3>1, <3>2, <2>4
  <2> QED
    BY <2>5
<1>9. \A j \in S : Cardinality(Upto(j)) >= k => i <= j
  BY <1>5
<1>10. Cardinality(Under) = Cardinality(Upto(i)) - 1 /\ Cardinality(Upto(i)) \in Nat
  <2> HIDE DEF Upto
  <2> QED
    BY <1>2, <1>6, <1>7, FS_RemoveElement
<1>11. Cardinality(Upto(i)) = k
  <2>1. CASE Under = {}
    <3>1. Cardinality(Under) = 0
      BY <2>1, FS_EmptySet
    <3> HIDE DEF Upto
    <3> QED
      BY <3>1, <1>10, <1>6
  <2>2. CASE Under # {}
    <3>1. PICK b \in Under : \A j \in Under : j <= b
      BY <1>8, <2>2, GreatestOne
    <3>2. b \in S /\ b < i /\ b \in Nat
      BY <3>1, <1>8
    <3>3. Upto(b) = Under
      <4>1. \A j \in S : j \in Int /\ (j <= b => j <= i /\ j # i)
        BY <3>2, <1>6
      <4>2. \A j \in Upto(b) : j \in Under
        BY <4>1, <1>7
      <4>3. \A j \in Under : j \in Upto(b)
        BY <3>1, <1>8
      <4> QED
        BY <4>2, <4>3
    <3>4. Cardinality(Upto(b)) \in Nat /\ ~(Cardinality(Upto(b)) >= k)
      BY <3>2, <1>9, <1>2, <1>6
    <3> HIDE DEF Upto
    <3> QED
      BY <3>3, <3>4, <1>10, <1>6
  <2> QED
    BY <2>1, <2>2
<1>12. \E x \in S : Cardinality({j \in S : j <= x}) = k
  BY <1>6, <1>11
<1> QED
  BY <1>12 DEF Nth

----------------------------------------------------------------------------
(* Positions and lists.                                                    *)

LEMMA Elements ==
  ASSUME NEW s, IsSeq(s)
  PROVE  /\ Len(s) \in Nat /\ DOMAIN s = 1..Len(s)
         /\ \A i \in 1..Len(s) : s[i] \in ToSet(s)
         /\ \A m \in ToSet(s) : \E i \in 1..Len(s) : m = s[i]
  BY DEF IsSeq, ToSet

\* What is listed under the numbers up to one is a sequence.
LEMMA Listed ==
  ASSUME NEW n \in Nat, NEW s, s = [i \in 1..n |-> s[i]]
  PROVE  /\ IsSeq(s) /\ Len(s) = n /\ DOMAIN s = 1..n
         /\ \A m \in ToSet(s) : \E i \in 1..n : m = s[i]
<1>1. DOMAIN s = 1..n
  OBVIOUS
<1>2. \A i \in 1..n : s[i] \in ToSet(s)
  BY <1>1 DEF ToSet
<1>3. s \in [1..n -> ToSet(s)]
  BY <1>2
<1>4. s \in Seq(ToSet(s)) /\ Len(s) = n
  <2>1. s \in Seq(ToSet(s))
    BY <1>3
  <2>2. Len(s) \in Nat /\ 1..Len(s) = 1..n
    BY <2>1, <1>1
  <2> QED
    BY <2>1, <2>2
<1> QED
  BY <1>1, <1>4 DEF IsSeq, ToSet

LEMMA EmptyListed ==
  ASSUME NEW e, e = <<>>
  PROVE  ToSet(e) = {} /\ IsSeq(e) /\ DOMAIN e = {} /\ Len(e) = 0
<1>1. Len(e) = 0 /\ e \in Seq({})
  OBVIOUS
<1>2. DOMAIN e = {}
  BY <1>1
<1>3. ToSet(e) = {}
  BY <1>2 DEF ToSet
<1>4. PICK R : R = ToSet(e)
  OBVIOUS
<1>5. e \in Seq(R)
  BY <1>1, <1>3, <1>4
<1>6. IsSeq(e)
  BY <1>4, <1>5 DEF IsSeq
<1> QED
  BY <1>1, <1>2, <1>3, <1>6

\* Elements at chosen positions form a sequence of them.
LEMMA Chosen ==
  ASSUME NEW s, IsSeq(s), NEW S \in SUBSET (1..Len(s))
  PROVE  /\ IsSeq(At(s, S)) /\ ToSet(At(s, S)) \subseteq ToSet(s)
<1>1. Len(s) \in Nat /\ \A i \in 1..Len(s) : s[i] \in ToSet(s)
  BY Elements
<1>2. Cardinality(S) \in Nat
  <2>1. IsFiniteSet(1..Len(s))
    BY <1>1, FS_Interval
  <2>2. IsFiniteSet(S)
    BY <2>1, FS_Subset
  <2> QED
    BY <2>2, FS_CardinalityType
<1>3. \A k \in 1..Cardinality(S) : Nth(S, k) \in 1..Len(s)
  BY <1>1, NthIn
<1>4. PICK t : t = At(s, S)
  OBVIOUS
<1>5. t = [k \in 1..Cardinality(S) |-> s[Nth(S, k)]]
  BY <1>4 DEF At
<1>6. t = [k \in 1..Cardinality(S) |-> t[k]]
  BY <1>5
<1>7. IsSeq(t) /\ \A m \in ToSet(t) : \E k \in 1..Cardinality(S) : m = t[k]
  BY <1>2, <1>6, Listed
<1> QED
  BY <1>1, <1>3, <1>4, <1>5, <1>7

\* The positions are counted without gap or repetition.
LEMMA NthCounts ==
  ASSUME NEW n \in Nat, NEW S \in SUBSET (1..n)
  PROVE  /\ Cardinality(S) \in Nat
         /\ \A k \in 1..Cardinality(S) : Nth(S, k) \in S
         /\ \A k, l \in 1..Cardinality(S) : Nth(S, k) = Nth(S, l) => k = l
         /\ \A i \in S : \E k \in 1..Cardinality(S) : i = Nth(S, k)
<1>1. IsFiniteSet(S) /\ Cardinality(S) \in Nat
  <2>1. IsFiniteSet(1..n)
    BY FS_Interval
  <2>2. IsFiniteSet(S)
    BY <2>1, FS_Subset
  <2> QED
    BY <2>2, FS_CardinalityType
<1>2. \A k \in 1..Cardinality(S) :
        Nth(S, k) \in S /\ Cardinality({j \in S : j <= Nth(S, k)}) = k
  BY NthIn
<1> DEFINE Upto(i) == {j \in S : j <= i}
<1>3. ASSUME NEW i \in S PROVE \E k \in 1..Cardinality(S) : i = Nth(S, k)
  <2>1. Upto(i) \in SUBSET S /\ i \in Upto(i) /\ i \in Int
    OBVIOUS
  <2>2. IsFiniteSet(Upto(i)) /\ Cardinality(Upto(i)) <= Cardinality(S)
    <3> HIDE DEF Upto
    <3> QED
      BY <1>1, <2>1, FS_Subset
  <2>3. Cardinality(Upto(i)) \in Nat
    <3> HIDE DEF Upto
    <3> QED
      BY <2>2, FS_CardinalityType
  <2>4. Cardinality(Upto(i)) # 0
    <3> HIDE DEF Upto
    <3> QED
      BY <2>1, <2>2, FS_EmptySet
  <2>5. PICK k : k = Cardinality(Upto(i))
    OBVIOUS
  <2>6. k \in 1..Cardinality(S)
    <3> HIDE DEF Upto
    <3> QED
      BY <1>1, <2>2, <2>3, <2>4, <2>5
  <2>7. PICK m : m = Nth(S, k)
    OBVIOUS
  <2>8. m \in S /\ Cardinality(Upto(m)) = k /\ m \in Int
    <3>1. m \in S
      BY <1>2, <2>6, <2>7
    <3>2. Cardinality({j \in S : j <= m}) = k
      BY <1>2, <2>6, <2>7
    <3> QED
      BY <3>1, <3>2
  <2>9. \A a, b \in S : a < b => Cardinality(Upto(a)) # Cardinality(Upto(b))
    <3> SUFFICES ASSUME NEW a \in S, NEW b \in S, a < b,
                        Cardinality(Upto(a)) = Cardinality(Upto(b))
                 PROVE  FALSE
      OBVIOUS
    <3>1. a \in Int /\ b \in Int
      OBVIOUS
    <3>2. \A j \in S : j \in Int
      OBVIOUS
    <3>3. \A j \in S : j <= a => j <= b
      BY <3>1, <3>2
    <3>4. Upto(b) \in SUBSET S /\ Upto(a) \in SUBSET Upto(b)
      BY <3>3
    <3>5. b \in Upto(b) /\ b \notin Upto(a)
      BY <3>1
    <3> HIDE DEF Upto
    <3>6. IsFiniteSet(Upto(b))
      BY <1>1, <3>4, FS_Subset
    <3> QED
      BY <3>4, <3>5, <3>6, FS_Subset
  <2>10. ~(m < i) /\ ~(i < m)
    BY <2>5, <2>8, <2>9
  <2> QED
    BY <2>1, <2>6, <2>7, <2>8, <2>10
<1>4. ASSUME NEW k \in 1..Cardinality(S), NEW l \in 1..Cardinality(S), Nth(S, k) = Nth(S, l)
      PROVE  k = l
  BY <1>2, <1>4
<1> QED
  BY <1>1, <1>2, <1>3, <1>4

\* Two messages more.
Joined(s, q, a) == s \o <<q, a>>

LEMMA TwoMore ==
  ASSUME NEW s, IsSeq(s), NEW q, NEW a, NEW t, t = Joined(s, q, a)
  PROVE  IsSeq(t) /\ ToSet(t) = ToSet(s) \cup {q, a}
<1>1. /\ Len(s) \in Nat /\ DOMAIN s = 1..Len(s) /\ s \in Seq(ToSet(s))
      /\ \A i \in 1..Len(s) : s[i] \in ToSet(s)
      /\ \A m \in ToSet(s) : \E i \in 1..Len(s) : m = s[i]
  BY Elements DEF IsSeq
<1>2. t \in Seq(ToSet(s) \cup {q, a}) /\ Len(t) = Len(s) + 2
  BY <1>1 DEF Joined
<1>3. \A i \in 1..Len(s) : t[i] = s[i]
  BY <1>1 DEF Joined
<1>4. t[Len(s) + 1] = q /\ t[Len(s) + 2] = a
  BY <1>1 DEF Joined
<1>5. \A i \in 1..Len(t) : i \in 1..Len(s) \/ i = Len(s) + 1 \/ i = Len(s) + 2
  BY <1>1, <1>2
<1>6. ToSet(t) = ToSet(s) \cup {q, a}
  <2>1. DOMAIN t = 1..Len(t)
    BY <1>2
  <2>2. \A x \in ToSet(t) : x \in ToSet(s) \cup {q, a}
    BY <2>1, <1>1, <1>3, <1>4, <1>5 DEF ToSet
  <2>3. \A i \in 1..Len(s) : i \in DOMAIN t
    BY <2>1, <1>1, <1>2
  <2>4. Len(s) + 1 \in DOMAIN t /\ Len(s) + 2 \in DOMAIN t
    BY <2>1, <1>1, <1>2
  <2>5. \A i \in DOMAIN t : t[i] \in ToSet(t)
    BY DEF ToSet
  <2>6. \A x \in ToSet(s) : x \in ToSet(t)
    BY <2>3, <2>5, <1>1, <1>3
  <2> QED
    BY <2>2, <2>4, <2>5, <2>6, <1>4
<1> QED
  BY <1>2, <1>6 DEF IsSeq

=============================================================================
