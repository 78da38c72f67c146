------------------------ MODULE LibraryStreamProofs ------------------------
(***************************************************************************)
(* What TLAPS proves of LibraryStream, for every text of any length, cut   *)
(* in any way.                                                             *)
(***************************************************************************)
EXTENDS LibraryStream, SequenceTheorems, NaturalsInduction, WellFoundedInduction, TLAPS

MarkerOf == {Marker.BEFORE_TITLE, Marker.IN_TITLE, Marker.IN_CONTENT}

\* A marker stands at i.
At(s, i, m) == i + 2 <= Len(s) /\ s[i] = m[1] /\ s[i + 1] = m[2] /\ s[i + 2] = m[3]

\* From i on there is a marker, or as much of one as there is text.
Open(s, i, m) ==
  /\ i <= Len(s) /\ s[i] = m[1]
  /\ i + 1 <= Len(s) => s[i + 1] = m[2]
  /\ i + 2 <= Len(s) => s[i + 2] = m[3]

\* A set of numbers that is not empty has a least one.
LEMMA Least ==
  ASSUME NEW T \in SUBSET Nat, T # {}
  PROVE  \E x \in T : \A y \in T : x <= y
<1>1. IsWellFoundedOn(OpToRel(<, Nat), Nat)
  BY NatLessThanWellFounded
<1>2. PICK x \in T : \A y \in T : ~(<<y, x>> \in OpToRel(<, Nat))
  BY <1>1, WFMin
<1>3. \A y \in T : ~(y < x)
  BY <1>2 DEF OpToRel
<1> QED BY <1>3

LEMMA MinIs ==
  ASSUME NEW T \in SUBSET Nat, T # {}
  PROVE  Min(T) \in T /\ \A y \in T : Min(T) <= y
BY Least DEF Min

LEMMA MaxIs ==
  ASSUME NEW n \in Nat, NEW T \in SUBSET (0..n), T # {}
  PROVE  Max(T) \in T /\ \A y \in T : y <= Max(T)
<1>1. \A x \in T : n - x \in Nat /\ n - (n - x) = x
  OBVIOUS
<1> DEFINE U == {n - x : x \in T}
<1>2. U \in SUBSET Nat /\ U # {}
  BY <1>1
<1>3. PICK u \in U : \A y \in U : u <= y
  BY <1>2, Least
<1>4. PICK x \in T : u = n - x
  OBVIOUS
<1>5. \A y \in T : n - y \in U
  OBVIOUS
<1> HIDE DEF U
<1>6. \A y \in T : y <= x
  BY <1>3, <1>4, <1>5
<1> QED BY <1>6 DEF Max

-----------------------------------------------------------------------------
(* Pieces of a text                                                         *)

LEMMA Piece ==
  ASSUME NEW S, NEW s \in Seq(S), NEW a \in Nat \ {0}, NEW b \in 0..Len(s)
  PROVE  /\ SubSeq(s, a, b) \in Seq(S)
         /\ Len(SubSeq(s, a, b)) = IF a <= b THEN b - a + 1 ELSE 0
         /\ \A i \in 1..(b - a + 1) : SubSeq(s, a, b)[i] = s[a + i - 1]
<1>1. \A i \in a..b : s[i] \in S
  BY ElementOfSeq
<1> QED BY <1>1, SubSeqProperties

LEMMA Rest ==
  ASSUME NEW S, NEW s \in Seq(S), NEW a \in 1..(Len(s) + 1)
  PROVE  /\ From(s, a) \in Seq(S) /\ Len(From(s, a)) = Len(s) - a + 1
         /\ \A i \in 1..(Len(s) - a + 1) : From(s, a)[i] = s[a + i - 1]
<1>1. Len(s) \in Nat
  BY LenProperties
<1> QED BY <1>1, Piece DEF From

\* A piece of a text is the same piece of the longer text.
LEMMA Longer ==
  ASSUME NEW S, NEW s \in Seq(S), NEW x \in Seq(S)
  PROVE  /\ s \o x \in Seq(S) /\ Len(s \o x) = Len(s) + Len(x)
         /\ \A i \in 1..Len(s) : (s \o x)[i] = s[i]
         /\ \A a \in Nat \ {0} : \A b \in 0..Len(s) :
              SubSeq(s \o x, a, b) = SubSeq(s, a, b)
<1>1. /\ Len(s) \in Nat /\ Len(x) \in Nat
      /\ s \o x \in Seq(S) /\ Len(s \o x) = Len(s) + Len(x)
      /\ \A i \in 1..Len(s) : (s \o x)[i] = s[i]
  BY LenProperties, ConcatProperties
<1>2. ASSUME NEW a \in Nat \ {0}, NEW b \in 0..Len(s)
      PROVE  SubSeq(s \o x, a, b) = SubSeq(s, a, b)
  <2>1. b \in 0..Len(s \o x)
    BY <1>1
  <2>2. /\ SubSeq(s, a, b) \in Seq(S) /\ SubSeq(s \o x, a, b) \in Seq(S)
        /\ Len(SubSeq(s, a, b)) = Len(SubSeq(s \o x, a, b))
    BY <1>1, <2>1, Piece
  <2>3. \A i \in 1..Len(SubSeq(s, a, b)) : SubSeq(s, a, b)[i] = SubSeq(s \o x, a, b)[i]
    <3> TAKE i \in 1..Len(SubSeq(s, a, b))
    <3>1. i \in 1..(b - a + 1) /\ a + i - 1 \in 1..Len(s)
      BY <1>1, Piece
    <3> QED BY <1>1, <2>1, <3>1, Piece
  <2> QED BY <2>2, <2>3, SeqEqual
<1> QED BY <1>1, <1>2

-----------------------------------------------------------------------------
(* strip                                                                    *)

\* The first letter that is not blank stands at k, or none does.
FirstInk(s, k) ==
  /\ k \in 1..(Len(s) + 1) /\ \A i \in 1..(k - 1) : s[i] = Blank
  /\ k <= Len(s) => s[k] # Blank

LEMMA LStripIs ==
  ASSUME NEW S, NEW s \in Seq(S)
  PROVE  /\ \E k \in Nat : FirstInk(s, k)
         /\ \A k \in Nat : FirstInk(s, k) => LStrip(s) = From(s, k)
<1> DEFINE T == {i \in 1..Len(s) : s[i] # Blank} \cup {Len(s) + 1}
<1>1. Len(s) \in Nat
  BY LenProperties
<1>2. T \in SUBSET Nat /\ T # {}
  BY <1>1
<1>3. Min(T) \in T /\ \A y \in T : Min(T) <= y
  BY <1>2, MinIs
<1>4. FirstInk(s, Min(T)) /\ Min(T) \in Nat
  <2>1. Min(T) \in 1..(Len(s) + 1)
    BY <1>1, <1>3
  <2>2. ASSUME NEW i \in 1..(Min(T) - 1) PROVE s[i] = Blank
    <3>1. i \in 1..Len(s) /\ ~(Min(T) <= i)
      BY <1>1, <2>1
    <3>2. i \notin T
      BY <1>3, <3>1
    <3> QED BY <3>1, <3>2
  <2>3. Min(T) <= Len(s) => s[Min(T)] # Blank
    BY <1>1, <1>3
  <2> QED BY <1>1, <2>1, <2>2, <2>3 DEF FirstInk
<1>5. ASSUME NEW k \in Nat, FirstInk(s, k)
      PROVE  k = Min(T)
  <2>1. k \in T
    BY <1>1, <1>5 DEF FirstInk
  <2>2. Min(T) <= k
    BY <1>3, <2>1
  <2>3. ~(Min(T) < k)
    BY <1>1, <1>3, <1>5 DEF FirstInk
  <2> QED BY <1>4, <2>2, <2>3
<1> QED BY <1>4, <1>5 DEF LStrip

\* What str.lstrip leaves is empty or begins with a letter that is not blank.
LEMMA Stripped ==
  ASSUME NEW S, NEW s \in Seq(S)
  PROVE  LStrip(s) \in Seq(S) /\ (LStrip(s) # <<>> => Len(LStrip(s)) >= 1 /\ LStrip(s)[1] # Blank)
<1>1. PICK k \in Nat : FirstInk(s, k)
  BY LStripIs
<1>2. LStrip(s) = From(s, k) /\ k \in 1..(Len(s) + 1) /\ Len(s) \in Nat
  BY <1>1, LStripIs, LenProperties DEF FirstInk
<1>3. LStrip(s) \in Seq(S) /\ Len(LStrip(s)) = Len(s) - k + 1
  BY <1>2, Rest
<1>4. ASSUME LStrip(s) # <<>>
      PROVE  Len(LStrip(s)) >= 1 /\ LStrip(s)[1] # Blank
  <2>1. Len(LStrip(s)) >= 1
    BY <1>3, <1>4, EmptySeq
  <2>2. k <= Len(s) /\ 1 \in 1..(Len(s) - k + 1) /\ k + 1 - 1 = k
    BY <1>2, <1>3, <2>1
  <2>3. From(s, k)[1] = s[k + 1 - 1]
    BY <1>2, <2>2, Rest
  <2>4. LStrip(s)[1] = s[k]
    BY <1>2, <2>2, <2>3
  <2> QED BY <1>1, <2>1, <2>2, <2>4 DEF FirstInk
<1> QED BY <1>3, <1>4

LEMMA StripNothing == LStrip(<<>>) = <<>> /\ RStrip(<<>>) = <<>>
<1>1. <<>> \in Seq({}) /\ Len(<<>>) = 0
  BY EmptySeq
<1>2. FirstInk(<<>>, 1)
  BY <1>1 DEF FirstInk
<1>3. LStrip(<<>>) = From(<<>>, 1)
  BY <1>1, <1>2, LStripIs
<1>4. From(<<>>, 1) = <<>>
  BY <1>1, SubSeqEmpty DEF From
<1>5. RStrip(<<>>) = <<>>
  <2>1. {i \in 1..Len(<<>>) : <<>>[i] # Blank} \cup {0} = {0}
    BY <1>1
  <2>2. Max({0}) = 0
    BY MaxIs
  <2> QED BY <2>1, <2>2, SubSeqEmpty DEF RStrip
<1> QED BY <1>3, <1>4, <1>5

\* str.rstrip leaves something of a text that begins with a letter that is not
\* blank.
LEMMA Kept ==
  ASSUME NEW S, NEW s \in Seq(S), Len(s) >= 1, s[1] # Blank
  PROVE  RStrip(s) # <<>> /\ (Len(s) = 1 => RStrip(s) = s)
<1> DEFINE T == {i \in 1..Len(s) : s[i] # Blank} \cup {0}
<1>1. Len(s) \in Nat /\ 1 \in T
  BY LenProperties
<1>2. T \in SUBSET (0..Len(s)) /\ T # {}
  BY <1>1
<1>3. Max(T) \in T /\ 1 <= Max(T)
  BY <1>1, <1>2, MaxIs
<1>4. Max(T) \in 1..Len(s) /\ RStrip(s) = SubSeq(s, 1, Max(T))
  BY <1>1, <1>3 DEF RStrip
<1> HIDE DEF T
<1>5. Len(SubSeq(s, 1, Max(T))) = Max(T)
  BY <1>1, <1>4, Piece
<1>6. RStrip(s) # <<>>
  BY <1>4, <1>5, EmptySeq
<1>7. ASSUME Len(s) = 1 PROVE RStrip(s) = s
  <2>1. Max(T) = Len(s)
    BY <1>4, <1>7
  <2> QED BY <1>4, <2>1, SubSeqFull
<1> QED BY <1>6, <1>7

\* A text that goes on is stripped at its beginning only.
LEMMA GoesOn ==
  ASSUME NEW S, NEW x \in Seq(S), NEW y \in Seq(S)
  PROVE  LStrip(x \o y) = IF LStrip(x) = <<>> THEN LStrip(y) ELSE LStrip(x) \o y

<1> DEFINE z == x \o y
<1>1. /\ Len(x) \in Nat /\ Len(y) \in Nat /\ z \in Seq(S)
      /\ Len(z) = Len(x) + Len(y)
      /\ \A i \in 1..Len(z) : z[i] = IF i <= Len(x) THEN x[i] ELSE y[i - Len(x)]
  BY LenProperties, ConcatProperties
<1>2. PICK k \in Nat : FirstInk(x, k)
  BY LStripIs
<1>3. LStrip(x) = From(x, k) /\ k \in 1..(Len(x) + 1)
  BY <1>2, LStripIs DEF FirstInk
<1>4. LStrip(x) \in Seq(S) /\ Len(LStrip(x)) = Len(x) - k + 1
      /\ \A i \in 1..(Len(x) - k + 1) : LStrip(x)[i] = x[k + i - 1]
  BY <1>3, Rest
<1> HIDE DEF z
<1>5. CASE LStrip(x) = <<>>
  <2>1. k = Len(x) + 1
    BY <1>1, <1>3, <1>4, <1>5, EmptySeq
  <2>2. PICK l \in Nat : FirstInk(y, l)
    BY LStripIs
  <2>3. LStrip(y) = From(y, l) /\ l \in 1..(Len(y) + 1)
    BY <2>2, LStripIs DEF FirstInk
  <2>4. LStrip(y) \in Seq(S) /\ Len(LStrip(y)) = Len(y) - l + 1
        /\ \A i \in 1..(Len(y) - l + 1) : LStrip(y)[i] = y[l + i - 1]
    BY <2>3, Rest
  <2>5. FirstInk(z, Len(x) + l)
    <3>1. Len(x) + l \in 1..(Len(z) + 1)
      BY <1>1, <2>3
    <3>2. ASSUME NEW i \in 1..(Len(x) + l - 1) PROVE z[i] = Blank
      <4>1. i \in 1..Len(z)
        BY <1>1, <2>3
      <4>2. CASE i <= Len(x)
        BY <1>1, <1>2, <2>1, <4>1, <4>2 DEF FirstInk
      <4>3. CASE i > Len(x)
        <5>1. i - Len(x) \in 1..(l - 1)
          BY <1>1, <4>3
        <5> QED BY <1>1, <2>2, <4>1, <4>3, <5>1 DEF FirstInk
      <4> QED BY <1>1, <4>2, <4>3
    <3>3. ASSUME Len(x) + l <= Len(z) PROVE z[Len(x) + l] # Blank
      <4>1. /\ l <= Len(y) /\ Len(x) + l \in 1..Len(z)
            /\ ~(Len(x) + l <= Len(x)) /\ Len(x) + l - Len(x) = l
        BY <1>1, <2>3, <3>1, <3>3
      <4>2. z[Len(x) + l] = y[l]
        BY <1>1, <4>1
      <4> QED BY <2>2, <4>1, <4>2 DEF FirstInk
    <3> QED BY <3>1, <3>2, <3>3 DEF FirstInk
  <2>6. LStrip(z) = From(z, Len(x) + l)
    BY <1>1, <2>5, LStripIs
  <2>7. /\ Len(x) + l \in 1..(Len(z) + 1)
        /\ Len(z) - (Len(x) + l) + 1 = Len(y) - l + 1
    BY <1>1, <2>3
  <2>8. From(z, Len(x) + l) \in Seq(S) /\ Len(From(z, Len(x) + l)) = Len(y) - l + 1
        /\ \A i \in 1..(Len(y) - l + 1) : From(z, Len(x) + l)[i] = z[Len(x) + l + i - 1]
    BY <1>1, <2>7, Rest
  <2>9. ASSUME NEW i \in 1..(Len(y) - l + 1)
        PROVE  z[Len(x) + l + i - 1] = y[l + i - 1]
    BY <1>1, <2>3
  <2> QED BY <1>5, <2>4, <2>6, <2>8, <2>9, SeqEqual DEF z
<1>6. CASE LStrip(x) # <<>>
  <2>1. k <= Len(x)
    BY <1>1, <1>3, <1>4, <1>6, EmptySeq
  <2>2. FirstInk(z, k)
    BY <1>1, <1>2, <2>1 DEF FirstInk
  <2>3. LStrip(z) = From(z, k) /\ k \in 1..(Len(z) + 1)
    BY <1>1, <2>2, LStripIs DEF FirstInk
  <2>4. From(z, k) \in Seq(S) /\ Len(From(z, k)) = Len(z) - k + 1
        /\ \A i \in 1..(Len(z) - k + 1) : From(z, k)[i] = z[k + i - 1]
    BY <1>1, <2>3, Rest
  <2>5. LStrip(x) \o y \in Seq(S) /\ Len(LStrip(x) \o y) = Len(z) - k + 1
        /\ \A i \in 1..(Len(z) - k + 1) : (LStrip(x) \o y)[i] =
             IF i <= Len(x) - k + 1 THEN LStrip(x)[i] ELSE y[i - (Len(x) - k + 1)]
    BY <1>1, <1>3, <1>4, ConcatProperties
  <2>6. ASSUME NEW i \in 1..(Len(z) - k + 1)
        PROVE  z[k + i - 1] = (LStrip(x) \o y)[i]
    <3>1. k + i - 1 \in 1..Len(z)
      BY <1>1, <1>3
    <3>2. CASE i <= Len(x) - k + 1
      <4>1. i \in 1..(Len(x) - k + 1) /\ k + i - 1 <= Len(x)
        BY <1>1, <1>3, <3>2
      <4>2. z[k + i - 1] = x[k + i - 1]
        BY <1>1, <3>1, <4>1
      <4>3. (LStrip(x) \o y)[i] = LStrip(x)[i]
        BY <2>5, <3>2
      <4>4. LStrip(x)[i] = x[k + i - 1]
        BY <1>4, <4>1
      <4> QED BY <4>2, <4>3, <4>4
    <3>3. CASE ~(i <= Len(x) - k + 1)
      <4>1. ~(k + i - 1 <= Len(x)) /\ (k + i - 1) - Len(x) = i - (Len(x) - k + 1)
        BY <1>1, <1>3, <3>3
      <4>2. z[k + i - 1] = y[(k + i - 1) - Len(x)]
        BY <1>1, <3>1, <4>1
      <4>3. (LStrip(x) \o y)[i] = y[i - (Len(x) - k + 1)]
        BY <2>5, <3>3
      <4> QED BY <4>1, <4>2, <4>3
    <3> QED BY <3>2, <3>3
  <2> QED BY <1>6, <2>3, <2>4, <2>5, <2>6, SeqEqual DEF z
<1> QED BY <1>5, <1>6

-----------------------------------------------------------------------------
(* Markers                                                                  *)

MarkerLetters == {"<", "T", "C", "M"}

LEMMA MarkerParts ==
  /\ \A m \in MarkerOf :
       m \in Seq(MarkerLetters) /\ Len(m) = 3 /\ m[2] = m[1] /\ m[3] # m[1]
  /\ \A m, n \in MarkerOf : m[1] = n[1] /\ (m # n => m[3] # n[3])
<1>1. \A m \in MarkerOf : Len(m) = 3 /\ m[1] = "<" /\ m[2] = "<" /\ m[3] \in {"T", "C", "M"}
  BY DEF MarkerOf, Marker
<1>2. \A m, n \in MarkerOf : m # n => m[3] # n[3]
  BY DEF MarkerOf, Marker
<1>3. \A m \in MarkerOf : m \in Seq(MarkerLetters)
  <2>1. \A a, b, c \in MarkerLetters : <<a, b, c>> \in Seq(MarkerLetters)
    OBVIOUS
  <2>3. \A m \in MarkerOf :
          \E c \in {"T", "C", "M"} : m = <<"<", "<", c>>
    BY DEF MarkerOf, Marker
  <2> TAKE m \in MarkerOf
  <2>4. PICK c \in {"T", "C", "M"} : m = <<"<", "<", c>>
    BY <2>3
  <2>5. "<" \in MarkerLetters /\ c \in MarkerLetters
    BY DEF MarkerLetters
  <2>6. <<"<", "<", c>> \in Seq(MarkerLetters)
    BY <2>1, <2>5
  <2> QED BY <2>4, <2>6
<1> QED BY <1>1, <1>2, <1>3

\* Two markers in a text do not overlap.
LEMMA Apart ==
  ASSUME NEW m \in MarkerOf, NEW n \in MarkerOf, NEW s, Len(s) \in Nat,
         NEW i \in Nat, NEW j \in Nat, At(s, i, m), At(s, j, n)
  PROVE  (i < j => i + 3 <= j) /\ (m # n => i # j)
<1>1. m[2] = m[1] /\ m[3] # m[1] /\ n[2] = n[1] /\ m[1] = n[1] /\ (m # n => m[3] # n[3])
  BY MarkerParts
<1>2. j # i + 2
  BY <1>1 DEF At
<1>3. j # i + 1
  <2>1. SUFFICES ASSUME j = i + 1 PROVE FALSE
    OBVIOUS
  <2>2. j + 1 = i + 2
    BY <2>1
  <2> QED BY <1>1, <2>2 DEF At
<1>4. m # n => i # j
  BY <1>1 DEF At
<1> QED BY <1>2, <1>3, <1>4

\* The letters of a marker's beginning are that beginning.
LEMMA Begins ==
  ASSUME NEW S, NEW s \in Seq(S), NEW m \in MarkerOf, NEW i \in Nat \ {0}, NEW k \in 0..3,
         i + k - 1 <= Len(s), \A j \in 1..k : s[i + j - 1] = m[j]
  PROVE  SubSeq(s, i, i + k - 1) = SubSeq(m, 1, k)
<1> DEFINE S2 == S \cup MarkerLetters
<1>1. Len(s) \in Nat /\ m \in Seq(MarkerLetters) /\ Len(m) = 3
  BY LenProperties, MarkerParts
<1>2. s \in Seq(S2) /\ m \in Seq(S2)
  BY <1>1, SeqMonotonic
<1> HIDE DEF S2
<1>3. i + k - 1 \in 0..Len(s) /\ k \in 0..Len(m)
  BY <1>1
<1>4. /\ SubSeq(s, i, i + k - 1) \in Seq(S2)
      /\ Len(SubSeq(s, i, i + k - 1)) = k
      /\ \A j \in 1..(i + k - 1 - i + 1) : SubSeq(s, i, i + k - 1)[j] = s[i + j - 1]
  BY <1>2, <1>3, Piece
<1>5. /\ SubSeq(m, 1, k) \in Seq(S2) /\ Len(SubSeq(m, 1, k)) = k
      /\ \A j \in 1..(k - 1 + 1) : SubSeq(m, 1, k)[j] = m[1 + j - 1]
  BY <1>2, <1>3, Piece
<1>6. ASSUME NEW j \in 1..k PROVE SubSeq(s, i, i + k - 1)[j] = SubSeq(m, 1, k)[j]
  <2>1. j \in 1..(i + k - 1 - i + 1) /\ j \in 1..(k - 1 + 1) /\ 1 + j - 1 = j
    BY <1>1
  <2>2. SubSeq(s, i, i + k - 1)[j] = s[i + j - 1]
    BY <1>4, <2>1
  <2>3. SubSeq(m, 1, k)[j] = m[j]
    BY <1>5, <2>1
  <2> QED BY <2>2, <2>3
<1> QED BY <1>4, <1>5, <1>6, SeqEqual

\* str.find finds the first marker, or there is none.
LEMMA FindIs ==
  ASSUME NEW S, NEW s \in Seq(S), NEW m \in MarkerOf
  PROVE  \/ Find(s, m) = 0 /\ \A j \in Nat \ {0} : ~At(s, j, m)
         \/ /\ Find(s, m) \in 1..Len(s) /\ At(s, Find(s, m), m)
            /\ \A j \in 1..(Find(s, m) - 1) : ~At(s, j, m)
<1> DEFINE T == {i \in 1..(Len(s) - Len(m) + 1) : SubSeq(s, i, i + Len(m) - 1) = m}
<1>1. /\ Len(s) \in Nat /\ Len(m) = 3 /\ m \in Seq(MarkerLetters)
  BY LenProperties, MarkerParts
<1>2. ASSUME NEW i \in Nat \ {0}
      PROVE  i \in T <=> At(s, i, m)
  <2>1. CASE ~(i + 2 <= Len(s))
    BY <1>1, <2>1 DEF At
  <2>2. CASE i + 2 <= Len(s)
    <3>1. i + 2 \in 0..Len(s) /\ i + 2 - i + 1 = 3 /\ i + Len(m) - 1 = i + 2
          /\ i \in 1..(Len(s) - Len(m) + 1)
      BY <1>1, <2>2
    <3>2. \A j \in 1..3 : SubSeq(s, i, i + 2)[j] = s[i + j - 1]
      BY <3>1, Piece
    <3>3. /\ SubSeq(s, i, i + 2)[1] = s[i] /\ SubSeq(s, i, i + 2)[2] = s[i + 1]
          /\ SubSeq(s, i, i + 2)[3] = s[i + 2]
      <4>1. i + 1 - 1 = i /\ i + 2 - 1 = i + 1 /\ i + 3 - 1 = i + 2
        OBVIOUS
      <4> QED BY <3>2, <4>1
    <3>4. SubSeq(s, i, i + 2) = m => At(s, i, m)
      BY <2>2, <3>3 DEF At
    <3>5. ASSUME At(s, i, m) PROVE SubSeq(s, i, i + 2) = m
      <4>1. s[i + 1 - 1] = m[1] /\ s[i + 2 - 1] = m[2] /\ s[i + 3 - 1] = m[3]
        <5>1. i + 1 - 1 = i /\ i + 2 - 1 = i + 1 /\ i + 3 - 1 = i + 2
          OBVIOUS
        <5> QED BY <3>5, <5>1 DEF At
      <4>2. \A j \in 1..3 : s[i + j - 1] = m[j]
        BY <4>1
      <4>3. 3 \in 0..3 /\ i + 3 - 1 = i + 2
        OBVIOUS
      <4>4. SubSeq(s, i, i + 3 - 1) = SubSeq(m, 1, 3)
        BY <2>2, <4>2, <4>3, Begins
      <4>5. SubSeq(m, 1, 3) = m
        BY <1>1, SubSeqFull
      <4> QED BY <4>3, <4>4, <4>5
    <3> QED BY <3>1, <3>4, <3>5
  <2> QED BY <2>1, <2>2
<1>3. T \in SUBSET Nat /\ \A i \in T : i \in 1..Len(s)
  BY <1>1
<1>4. Find(s, m) = IF T = {} THEN 0 ELSE Min(T)
  BY DEF Find
<1> HIDE DEF T
<1>5. CASE T = {}
  BY <1>2, <1>4, <1>5
<1>6. CASE T # {}
  <2>1. Find(s, m) \in T /\ \A y \in T : Find(s, m) <= y
    <3>1. Min(T) \in T /\ \A y \in T : Min(T) <= y
      BY <1>3, <1>6, MinIs
    <3> QED BY <1>4, <1>6, <3>1
  <2>2. Find(s, m) \in 1..Len(s)
    BY <1>3, <2>1
  <2>3. At(s, Find(s, m), m)
    BY <1>2, <2>1, <2>2
  <2>4. ASSUME NEW j \in 1..(Find(s, m) - 1) PROVE ~At(s, j, m)
    <3>1. j \in Nat \ {0} /\ ~(Find(s, m) <= j)
      BY <2>2
    <3> QED BY <1>2, <2>1, <3>1
  <2> QED BY <2>2, <2>3, <2>4
<1> QED BY <1>5, <1>6

\* _find_held_back: no marker begins in what is sent, and may end in what is held.
LEMMA Held ==
  ASSUME NEW S, NEW s \in Seq(S), NEW m \in MarkerOf, \A j \in Nat \ {0} : ~At(s, j, m)
  PROVE  /\ HeldBack(s, m) \in 0..Len(s)
         /\ \A i \in 1..(Len(s) - HeldBack(s, m)) : ~Open(s, i, m)
<1> DEFINE n == Min({Len(s), Len(m) - 1})
           T == {k \in 0..n : From(s, Len(s) - k + 1) = SubSeq(m, 1, k)}
<1>1. /\ Len(s) \in Nat /\ Len(m) = 3 /\ m \in Seq(MarkerLetters)
  BY LenProperties, MarkerParts
<1>2. {Len(s), Len(m) - 1} \in SUBSET Nat /\ {Len(s), Len(m) - 1} # {}
  BY <1>1
<1>3. /\ n \in {Len(s), Len(m) - 1} /\ n <= Len(s) /\ n <= Len(m) - 1
  BY <1>2, MinIs
<1> HIDE DEF n
<1>4. n \in Nat /\ n <= Len(s) /\ n <= 2 /\ (n = Len(s) \/ n = 2)
  BY <1>1, <1>3
<1>5. ASSUME NEW k \in 0..n, \A j \in 1..k : s[(Len(s) - k + 1) + j - 1] = m[j]
      PROVE  k \in T
  <2>1. /\ Len(s) - k + 1 \in Nat \ {0} /\ k \in 0..3
        /\ (Len(s) - k + 1) + k - 1 = Len(s)
    BY <1>1, <1>4
  <2>2. SubSeq(s, Len(s) - k + 1, (Len(s) - k + 1) + k - 1) = SubSeq(m, 1, k)
    BY <1>5, <2>1, Begins
  <2> QED BY <2>1, <2>2 DEF From
<1>6. 0 \in T
  BY <1>4, <1>5
<1>7. T \in SUBSET (0..n) /\ T # {}
  BY <1>6
<1>8. HeldBack(s, m) = Max(T)
  BY DEF HeldBack, n
<1> HIDE DEF T
<1>9. /\ HeldBack(s, m) \in 0..n /\ \A k \in T : k <= HeldBack(s, m)
  BY <1>4, <1>7, <1>8, MaxIs
<1>10. ASSUME NEW i \in 1..(Len(s) - HeldBack(s, m)), Open(s, i, m)
       PROVE  FALSE
  <2>1. i \in Nat \ {0} /\ i <= Len(s) /\ ~(i + 2 <= Len(s))
    BY <1>1, <1>4, <1>9, <1>10 DEF At, Open
  <2>2. CASE i = Len(s)
    <3>1. 1 \in 0..n /\ ~(1 <= HeldBack(s, m)) /\ (Len(s) - 1 + 1) + 1 - 1 = i
      BY <1>1, <1>4, <1>9, <2>1, <2>2
    <3>2. s[(Len(s) - 1 + 1) + 1 - 1] = m[1]
      BY <1>10, <3>1 DEF Open
    <3>3. \A j \in 1..1 : s[(Len(s) - 1 + 1) + j - 1] = m[j]
      BY <3>2
    <3> QED BY <1>5, <1>9, <3>1, <3>3
  <2>3. CASE i = Len(s) - 1
    <3>1. /\ 2 \in 0..n /\ ~(2 <= HeldBack(s, m))
          /\ (Len(s) - 2 + 1) + 1 - 1 = i /\ (Len(s) - 2 + 1) + 2 - 1 = i + 1
          /\ i + 1 <= Len(s)
      BY <1>1, <1>4, <1>9, <2>1, <2>3
    <3>2. /\ s[(Len(s) - 2 + 1) + 1 - 1] = m[1]
          /\ s[(Len(s) - 2 + 1) + 2 - 1] = m[2]
      BY <1>10, <3>1 DEF Open
    <3>3. \A j \in 1..2 : s[(Len(s) - 2 + 1) + j - 1] = m[j]
      BY <3>2
    <3> QED BY <1>5, <1>9, <3>1, <3>3
  <2> QED BY <1>1, <2>1, <2>2, <2>3
<1> QED BY <1>1, <1>4, <1>9, <1>10

-----------------------------------------------------------------------------
(* The invariant                                                            *)

TitleMark == Marker.BEFORE_TITLE
ContentMark == Marker.IN_TITLE
CommentMark == Marker.IN_CONTENT

\* The first marker from f on stands at i.
First(r, m, f, i) ==
  i \in f..Len(r) /\ At(r, i, m) /\ \A j \in f..(i - 1) : ~At(r, j, m)

\* No marker from f to p; while more text may come, none that may still grow.
Clear(r, m, f, p, mode) ==
  \A i \in f..p : ~At(r, i, m) /\ (mode = "open" => ~Open(r, i, m))

\* A piece of the text as it is sent.
Said(r, f, p) == LStrip(SubSeq(r, f, p))

InContent(r, out, t, c) ==
  /\ First(r, TitleMark, 1, t) /\ First(r, ContentMark, t + 3, c)
  /\ out.title = Said(r, t + 3, c - 1)

InComment(r, out, t, c, m) ==
  /\ InContent(r, out, t, c) /\ First(r, CommentMark, c + 3, m)
  /\ out.content = Said(r, c + 3, m - 1)

BeforeTitle(r, p, out, mode) ==
  /\ Clear(r, TitleMark, 1, p, mode)
  /\ out.title = <<>> /\ out.content = <<>> /\ out.comment = <<>>

TitleGrows(r, p, out, mode) ==
  \E t \in 1..Len(r) :
    /\ First(r, TitleMark, 1, t) /\ t + 2 <= p /\ Clear(r, ContentMark, t + 3, p, mode)
    /\ out.title = Said(r, t + 3, p) /\ out.content = <<>> /\ out.comment = <<>>

ContentGrows(r, p, out, mode) ==
  \E t, c \in 1..Len(r) :
    /\ InContent(r, out, t, c) /\ c + 2 <= p /\ Clear(r, CommentMark, c + 3, p, mode)
    /\ out.content = Said(r, c + 3, p) /\ out.comment = <<>>

CommentGrows(r, p, out) ==
  \E t, c, m \in 1..Len(r) :
    InComment(r, out, t, c, m) /\ m + 2 <= p /\ out.comment = Said(r, m + 3, p)

\* Of the text r, what comes up to p has been sent: the section is the one that
\* the first markers, each after the one before it, have opened, and every
\* section has got its piece of the text.
Routed(r, p, sec, out, mode) ==
  \/ sec = "BEFORE_TITLE" /\ BeforeTitle(r, p, out, mode)
  \/ sec = "IN_TITLE" /\ TitleGrows(r, p, out, mode)
  \/ sec = "IN_CONTENT" /\ ContentGrows(r, p, out, mode)
  \/ sec = "IN_COMMENT" /\ CommentGrows(r, p, out)

StreamStates == {"BEFORE_TITLE", "IN_TITLE", "IN_CONTENT", "IN_COMMENT"}

LibraryTypeOK ==
  /\ raw \in Seq(Letters) /\ rest \in Seq(Letters) /\ pending \in Seq(Letters)
  /\ section \in StreamStates
  /\ sent \in [Sections -> Seq(Letters)]
  /\ process \in {"none", "feed", "flush"}

\* How much of the text has been sent.
Place == Len(raw) - Len(pending)

\* What is pending is the end of the text.
PendingEnds == Len(pending) <= Len(raw) /\ pending = From(raw, Place + 1)

\* What is stored is read from the whole text, which has all been sent.
Stored ==
  library # <<>> =>
    /\ process = "none" /\ Place = Len(raw)
    /\ library = [title |-> Cut(OrDefault(final_title)), content |-> final_content,
                  answer |-> OrDefault(sent.comment)]

IInv ==
  /\ LibraryTypeOK /\ PendingEnds /\ Stored
  /\ Routed(raw, Place, section, sent, IF library = <<>> THEN "open" ELSE "all")

-----------------------------------------------------------------------------
(* A delta comes: what was found stays the first                            *)

LEMMA MarkersAre == TitleMark \in MarkerOf /\ ContentMark \in MarkerOf /\ CommentMark \in MarkerOf
  BY DEF TitleMark, ContentMark, CommentMark, MarkerOf

LEMMA MarkKept ==
  ASSUME NEW S, NEW r \in Seq(S), NEW x \in Seq(S), NEW m, NEW j \in Nat \ {0}
  PROVE  /\ j + 2 <= Len(r) => (At(r \o x, j, m) <=> At(r, j, m))
         /\ j <= Len(r) /\ Open(r \o x, j, m) => Open(r, j, m)
<1> DEFINE z == r \o x
<1>1. /\ Len(r) \in Nat /\ Len(x) \in Nat /\ Len(z) = Len(r) + Len(x)
      /\ \A i \in 1..Len(r) : z[i] = r[i]
  BY LenProperties, Longer
<1> HIDE DEF z
<1>2. ASSUME j + 2 <= Len(r) PROVE At(z, j, m) <=> At(r, j, m)
  <2>1. j \in 1..Len(r) /\ j + 1 \in 1..Len(r) /\ j + 2 \in 1..Len(r) /\ j + 2 <= Len(z)
    BY <1>1, <1>2
  <2>2. z[j] = r[j] /\ z[j + 1] = r[j + 1] /\ z[j + 2] = r[j + 2]
    BY <1>1, <2>1
  <2> QED BY <1>2, <2>1, <2>2 DEF At
<1>3. ASSUME j <= Len(r), Open(z, j, m) PROVE Open(r, j, m)
  <2>1. j \in 1..Len(r) /\ r[j] = m[1]
    BY <1>1, <1>3 DEF Open
  <2>2. ASSUME j + 1 <= Len(r) PROVE r[j + 1] = m[2]
    <3>1. j + 1 \in 1..Len(r) /\ j + 1 <= Len(z)
      BY <1>1, <2>2
    <3> QED BY <1>1, <1>3, <3>1 DEF Open
  <2>3. ASSUME j + 2 <= Len(r) PROVE r[j + 2] = m[3]
    <3>1. j + 2 \in 1..Len(r) /\ j + 2 <= Len(z)
      BY <1>1, <2>3
    <3> QED BY <1>1, <1>3, <3>1 DEF Open
  <2> QED BY <2>1, <2>2, <2>3 DEF Open
<1> QED BY <1>2, <1>3 DEF z

\* A marker is an open one.
LEMMA OpenMark ==
  ASSUME NEW r, Len(r) \in Nat, NEW m, NEW j \in Nat \ {0}, At(r, j, m)
  PROVE  Open(r, j, m)
BY DEF At, Open

LEMMA FirstKept ==
  ASSUME NEW S, NEW r \in Seq(S), NEW x \in Seq(S), NEW m,
         NEW f \in Nat \ {0}, NEW i \in Nat, First(r, m, f, i)
  PROVE  First(r \o x, m, f, i) /\ i \in 1..Len(r) /\ i + 2 <= Len(r)
<1>1. Len(r) \in Nat /\ Len(x) \in Nat /\ Len(r \o x) = Len(r) + Len(x)
  BY LenProperties, Longer
<1>2. i \in 1..Len(r) /\ i >= f /\ i + 2 <= Len(r)
  BY <1>1 DEF First, At
<1>3. At(r \o x, i, m)
  BY <1>2, MarkKept DEF First
<1>4. ASSUME NEW j \in f..(i - 1) PROVE ~At(r \o x, j, m)
  <2>1. j \in Nat \ {0} /\ j + 2 <= Len(r)
    BY <1>1, <1>2
  <2> QED BY <2>1, MarkKept DEF First
<1> QED BY <1>1, <1>2, <1>3, <1>4 DEF First

LEMMA ClearKept ==
  ASSUME NEW S, NEW r \in Seq(S), NEW x \in Seq(S), NEW m,
         NEW f \in Nat \ {0}, NEW p \in 0..Len(r), Clear(r, m, f, p, "open")
  PROVE  Clear(r \o x, m, f, p, "open")
<1>1. Len(r) \in Nat /\ Len(r \o x) \in Nat
  BY LenProperties, Longer
<1>2. ASSUME NEW i \in f..p PROVE ~Open(r \o x, i, m)
  <2>1. i \in Nat \ {0} /\ i <= Len(r)
    BY <1>1
  <2> QED BY <2>1, MarkKept DEF Clear
<1>3. ASSUME NEW i \in f..p PROVE ~At(r \o x, i, m)
  <2>1. i \in Nat \ {0}
    BY <1>1
  <2> QED BY <1>1, <1>2, <2>1, OpenMark
<1> QED BY <1>2, <1>3 DEF Clear

LEMMA SaidKept ==
  ASSUME NEW S, NEW r \in Seq(S), NEW x \in Seq(S), NEW f \in Nat \ {0}, NEW p \in 0..Len(r)
  PROVE  Said(r \o x, f, p) = Said(r, f, p)
BY Longer DEF Said

LEMMA RoutedKept ==
  ASSUME NEW S, NEW r \in Seq(S), NEW x \in Seq(S), NEW p \in 0..Len(r),
         NEW sec, NEW out, Routed(r, p, sec, out, "open")
  PROVE  Routed(r \o x, p, sec, out, "open")
<1> DEFINE z == r \o x
<1>1. Len(r) \in Nat /\ Len(x) \in Nat /\ Len(z) = Len(r) + Len(x)
  BY LenProperties, Longer
<1>2. ASSUME NEW t \in 1..Len(r), NEW c \in 1..Len(r), InContent(r, out, t, c)
      PROVE  InContent(z, out, t, c) /\ c >= t + 3
  <2>1. /\ First(z, TitleMark, 1, t) /\ First(z, ContentMark, t + 3, c)
    BY <1>1, <1>2, FirstKept DEF InContent
  <2>2. c - 1 \in 0..Len(r) /\ t + 3 \in Nat \ {0} /\ c >= t + 3
    BY <1>1, <1>2 DEF InContent, First
  <2> QED BY <1>2, <2>1, <2>2, SaidKept DEF InContent
<1>3. CASE sec = "BEFORE_TITLE" /\ BeforeTitle(r, p, out, "open")
  <2>1. Clear(r, TitleMark, 1, p, "open")
    BY <1>3 DEF BeforeTitle
  <2>2. Clear(r \o x, TitleMark, 1, p, "open")
    BY <2>1, 1 \in Nat \ {0}, ClearKept
  <2>3. BeforeTitle(r \o x, p, out, "open")
    BY <1>3, <2>2 DEF BeforeTitle
  <2> QED BY <1>3, <2>3 DEF Routed
<1>4. CASE sec = "IN_TITLE" /\ TitleGrows(r, p, out, "open")
  <2>1. PICK t \in 1..Len(r) :
          /\ First(r, TitleMark, 1, t) /\ t + 2 <= p /\ Clear(r, ContentMark, t + 3, p, "open")
          /\ out.title = Said(r, t + 3, p) /\ out.content = <<>> /\ out.comment = <<>>
    BY <1>4 DEF TitleGrows
  <2>2. t \in 1..Len(z) /\ t + 3 \in Nat \ {0}
    BY <1>1
  <2>3. /\ First(z, TitleMark, 1, t) /\ Clear(z, ContentMark, t + 3, p, "open")
        /\ Said(z, t + 3, p) = Said(r, t + 3, p)
    <3>1. First(z, TitleMark, 1, t)
      BY <2>1, 1 \in Nat \ {0}, FirstKept
    <3>2. Clear(z, ContentMark, t + 3, p, "open")
      BY <2>1, <2>2, ClearKept
    <3> QED BY <2>2, <3>1, <3>2, SaidKept
  <2>4. TitleGrows(z, p, out, "open")
    BY <2>1, <2>2, <2>3 DEF TitleGrows
  <2> QED BY <1>4, <2>4 DEF Routed
<1>5. CASE sec = "IN_CONTENT" /\ ContentGrows(r, p, out, "open")
  <2>1. PICK t \in 1..Len(r), c \in 1..Len(r) :
          /\ InContent(r, out, t, c) /\ c + 2 <= p /\ Clear(r, CommentMark, c + 3, p, "open")
          /\ out.content = Said(r, c + 3, p) /\ out.comment = <<>>
    BY <1>5 DEF ContentGrows
  <2>2. t \in 1..Len(z) /\ c \in 1..Len(z) /\ c + 3 \in Nat \ {0}
    BY <1>1
  <2>3. /\ InContent(z, out, t, c) /\ Clear(z, CommentMark, c + 3, p, "open")
        /\ Said(z, c + 3, p) = Said(r, c + 3, p)
    BY <1>1, <1>2, <2>1, <2>2, ClearKept, SaidKept
  <2>4. ContentGrows(z, p, out, "open")
    BY <2>1, <2>2, <2>3 DEF ContentGrows
  <2> QED BY <1>5, <2>4 DEF Routed
<1>6. CASE sec = "IN_COMMENT" /\ CommentGrows(r, p, out)
  <2>1. PICK t \in 1..Len(r), c \in 1..Len(r), m \in 1..Len(r) :
          InComment(r, out, t, c, m) /\ m + 2 <= p /\ out.comment = Said(r, m + 3, p)
    BY <1>6 DEF CommentGrows
  <2>2. /\ t \in 1..Len(z) /\ c \in 1..Len(z) /\ m \in 1..Len(z)
        /\ c + 3 \in Nat \ {0} /\ m + 3 \in Nat \ {0} /\ m - 1 \in 0..Len(r)
    BY <1>1
  <2>3. InContent(z, out, t, c) /\ First(z, CommentMark, c + 3, m)
    BY <1>1, <1>2, <2>1, <2>2, FirstKept DEF InComment
  <2>4. Said(z, m + 3, p) = Said(r, m + 3, p) /\ Said(z, c + 3, m - 1) = Said(r, c + 3, m - 1)
    BY <2>2, SaidKept
  <2>5. CommentGrows(z, p, out)
    BY <2>1, <2>2, <2>3, <2>4 DEF CommentGrows, InComment
  <2> QED BY <1>6, <2>5 DEF Routed
<1> QED BY <1>3, <1>4, <1>5, <1>6 DEF Routed

-----------------------------------------------------------------------------
(* A round of the loop                                                      *)

\* What _emit adds to what was sent of a section.
More(old, s) == old \o (IF old = <<>> THEN LStrip(s) ELSE s)

Emitted(sec, out, s) ==
  IF sec = "BEFORE_TITLE" THEN out ELSE [out EXCEPT ![KindOf[sec]] = More(@, s)]

Adds(sec, out, s, o) ==
  /\ sec = "BEFORE_TITLE" => o = out
  /\ sec = "IN_TITLE" =>
       o.title = More(out.title, s) /\ o.content = out.content /\ o.comment = out.comment
  /\ sec = "IN_CONTENT" =>
       o.content = More(out.content, s) /\ o.title = out.title /\ o.comment = out.comment
  /\ sec = "IN_COMMENT" =>
       o.comment = More(out.comment, s) /\ o.title = out.title /\ o.content = out.content

LEMMA EmittedIs ==
  ASSUME NEW S, NEW out \in [Sections -> Seq(S)], NEW s \in Seq(S),
         NEW sec \in StreamStates,
         NEW o, o = Emitted(sec, out, s)
  PROVE  o \in [Sections -> Seq(S)] /\ Adds(sec, out, s, o)
<1>1. \A k \in Sections : More(out[k], s) \in Seq(S)
  <2> TAKE k \in Sections
  <2>1. out[k] \in Seq(S) /\ (IF out[k] = <<>> THEN LStrip(s) ELSE s) \in Seq(S)
    BY Stripped
  <2> QED BY <2>1, ConcatProperties DEF More
<1>2. "title" \in Sections /\ "content" \in Sections /\ "comment" \in Sections
  BY DEF Sections
<1>3. CASE sec = "BEFORE_TITLE"
  BY <1>3 DEF Emitted, Adds
<1>4. CASE sec = "IN_TITLE"
  <2>1. o = [out EXCEPT !["title"] = More(out["title"], s)]
    BY <1>4 DEF Emitted, KindOf
  <2> QED BY <1>1, <1>2, <1>4, <2>1 DEF Adds
<1>5. CASE sec = "IN_CONTENT"
  <2>1. o = [out EXCEPT !["content"] = More(out["content"], s)]
    BY <1>5 DEF Emitted, KindOf
  <2> QED BY <1>1, <1>2, <1>5, <2>1 DEF Adds
<1>6. CASE sec = "IN_COMMENT"
  <2>1. o = [out EXCEPT !["comment"] = More(out["comment"], s)]
    BY <1>6 DEF Emitted, KindOf
  <2> QED BY <1>1, <1>2, <1>6, <2>1 DEF Adds
<1> QED BY <1>3, <1>4, <1>5, <1>6 DEF StreamStates

\* What is sent of the text up to q, when it was sent up to p.
LEMMA SaidMore ==
  ASSUME NEW S, NEW r \in Seq(S), NEW p \in 0..Len(r), NEW q \in p..Len(r),
         NEW f \in 1..(p + 1)
  PROVE  More(Said(r, f, p), SubSeq(r, p + 1, q)) = Said(r, f, q)
<1> DEFINE x == SubSeq(r, f, p)
           y == SubSeq(r, p + 1, q)
<1>1. /\ Len(r) \in Nat /\ f \in Nat \ {0} /\ p + 1 \in Nat \ {0} /\ q \in 0..Len(r)
      /\ f \in 1..(Len(r) + 1) /\ p \in (f - 1)..Len(r)
  BY LenProperties
<1>2. x \in Seq(S) /\ y \in Seq(S)
  BY <1>1, Piece
<1>3. x \o y = SubSeq(r, f, q)
  BY <1>1, ConcatAdjacentSubSeq
<1>4. LStrip(x) \in Seq(S) /\ LStrip(y) \in Seq(S)
  BY <1>2, Stripped
<1> HIDE DEF x, y
<1>5. LStrip(x \o y) = IF LStrip(x) = <<>> THEN LStrip(y) ELSE LStrip(x) \o y
  BY <1>2, GoesOn
<1>6. LStrip(x) = <<>> => LStrip(x) \o LStrip(y) = LStrip(y)
  BY <1>4, ConcatEmptySeq
<1>7. LStrip(x) \o (IF LStrip(x) = <<>> THEN LStrip(y) ELSE y) = LStrip(x \o y)
  BY <1>5, <1>6
<1> QED BY <1>3, <1>7 DEF More, Said, x, y

LEMMA ClearMore ==
  ASSUME NEW r, NEW m, NEW f \in Nat, NEW p \in Nat, NEW q \in Nat, NEW mode,
         Clear(r, m, f, p, "open"), Clear(r, m, p + 1, q, mode)
  PROVE  Clear(r, m, f, q, mode)
<1> SUFFICES ASSUME NEW i \in f..q PROVE ~At(r, i, m) /\ (mode = "open" => ~Open(r, i, m))
  BY DEF Clear
<1>1. CASE i <= p
  <2>1. i \in f..p
    BY <1>1
  <2> QED BY <2>1 DEF Clear
<1>2. CASE ~(i <= p)
  <2>1. i \in (p + 1)..q
    BY <1>2
  <2> QED BY <2>1 DEF Clear
<1> QED BY <1>1, <1>2

LEMMA FirstFound ==
  ASSUME NEW r, NEW m, NEW f \in Nat, NEW p \in Nat, NEW i \in (p + 1)..Len(r),
         f <= p + 1, Clear(r, m, f, p, "open"),
         At(r, i, m), \A j \in (p + 1)..(i - 1) : ~At(r, j, m), Len(r) \in Nat
  PROVE  First(r, m, f, i)
<1>1. i \in f..Len(r)
  OBVIOUS
<1>2. ASSUME NEW j \in f..(i - 1) PROVE ~At(r, j, m)
  <2>1. j \in f..p \/ j \in (p + 1)..(i - 1)
    OBVIOUS
  <2> QED BY <2>1 DEF Clear
<1> QED BY <1>1, <1>2 DEF First

\* A section that opens has nothing yet.
LEMMA Opens ==
  ASSUME NEW r, NEW m, NEW i \in Nat, NEW mode
  PROVE  Clear(r, m, i + 3, i + 2, mode) /\ Said(r, i + 3, i + 2) = <<>>
<1>1. (i + 3)..(i + 2) = {}
  OBVIOUS
<1>2. SubSeq(r, i + 3, i + 2) = <<>>
  BY SubSeqEmpty
<1> QED BY <1>1, <1>2, StripNothing DEF Clear, Said

\* A round that finds no marker sends the text up to q.
LEMMA RoundLast ==
  ASSUME NEW S, NEW r \in Seq(S), NEW p \in 0..Len(r), NEW q \in p..Len(r),
         NEW sec \in StreamStates,
         NEW out \in [Sections -> Seq(S)], NEW mode,
         Routed(r, p, sec, out, "open"),
         sec # "IN_COMMENT" => Clear(r, Marker[sec], p + 1, q, mode)
  PROVE  Routed(r, q, sec, Emitted(sec, out, SubSeq(r, p + 1, q)), mode)
<1>0. PICK s, o : s = SubSeq(r, p + 1, q) /\ o = Emitted(sec, out, s)
  OBVIOUS
<1>1. Len(r) \in Nat /\ p \in Nat /\ q \in Nat /\ p <= q /\ s \in Seq(S)
  <2>1. Len(r) \in Nat /\ p + 1 \in Nat \ {0} /\ q \in 0..Len(r)
    BY LenProperties
  <2> QED BY <1>0, <2>1, Piece
<1>2. Adds(sec, out, s, o)
  <2>1. s \in Seq(S) /\ o = Emitted(sec, out, s)
    BY <1>0, <1>1
  <2> QED BY <2>1, EmittedIs
<1> SUFFICES Routed(r, q, sec, o, mode)
  BY <1>0
<1>3. CASE sec = "BEFORE_TITLE" /\ BeforeTitle(r, p, out, "open")
  <2>1. o = out
    BY <1>3, <1>2 DEF Adds
  <2>2. Clear(r, TitleMark, p + 1, q, mode) /\ Clear(r, TitleMark, 1, p, "open")
    BY <1>3 DEF BeforeTitle, TitleMark
  <2>3. Clear(r, TitleMark, 1, q, mode)
    BY <1>1, <2>2, ClearMore
  <2>4. BeforeTitle(r, q, o, mode)
    BY <1>3, <2>1, <2>3 DEF BeforeTitle
  <2> QED BY <1>3, <2>4 DEF Routed
<1>4. CASE sec = "IN_TITLE" /\ TitleGrows(r, p, out, "open")
  <2>1. PICK t \in 1..Len(r) :
          /\ First(r, TitleMark, 1, t) /\ t + 2 <= p /\ Clear(r, ContentMark, t + 3, p, "open")
          /\ out.title = Said(r, t + 3, p) /\ out.content = <<>> /\ out.comment = <<>>
    BY <1>4 DEF TitleGrows
  <2>2. t + 3 \in Nat /\ t + 3 \in 1..(p + 1) /\ t + 2 <= q
    BY <1>1, <2>1
  <2>3. Clear(r, ContentMark, p + 1, q, mode)
    BY <1>4 DEF ContentMark
  <2>4. Clear(r, ContentMark, t + 3, q, mode)
    BY <1>1, <2>1, <2>2, <2>3, ClearMore
  <2>5. /\ o.title = More(out.title, s)
        /\ o.content = out.content /\ o.comment = out.comment
    BY <1>4, <1>2 DEF Adds
  <2>6. o.title = Said(r, t + 3, q)
    BY <2>1, <2>2, <2>5, <1>0, SaidMore
  <2>7. TitleGrows(r, q, o, mode)
    BY <2>1, <2>2, <2>4, <2>5, <2>6 DEF TitleGrows
  <2> QED BY <1>4, <2>7 DEF Routed
<1>5. CASE sec = "IN_CONTENT" /\ ContentGrows(r, p, out, "open")
  <2>1. PICK t \in 1..Len(r), c \in 1..Len(r) :
          /\ InContent(r, out, t, c) /\ c + 2 <= p /\ Clear(r, CommentMark, c + 3, p, "open")
          /\ out.content = Said(r, c + 3, p) /\ out.comment = <<>>
    BY <1>5 DEF ContentGrows
  <2>2. c + 3 \in Nat /\ c + 3 \in 1..(p + 1) /\ c + 2 <= q
    BY <1>1, <2>1
  <2>3. Clear(r, CommentMark, p + 1, q, mode)
    BY <1>5 DEF CommentMark
  <2>4. Clear(r, CommentMark, c + 3, q, mode)
    BY <1>1, <2>1, <2>2, <2>3, ClearMore
  <2>5. /\ o.content = More(out.content, s)
        /\ o.title = out.title /\ o.comment = out.comment
    BY <1>5, <1>2 DEF Adds
  <2>6. o.content = Said(r, c + 3, q)
    BY <2>1, <2>2, <2>5, <1>0, SaidMore
  <2>7. InContent(r, o, t, c)
    BY <2>1, <2>5 DEF InContent
  <2>8. ContentGrows(r, q, o, mode)
    BY <2>1, <2>2, <2>4, <2>5, <2>6, <2>7 DEF ContentGrows
  <2> QED BY <1>5, <2>8 DEF Routed
<1>6. CASE sec = "IN_COMMENT" /\ CommentGrows(r, p, out)
  <2>1. PICK t \in 1..Len(r), c \in 1..Len(r), m \in 1..Len(r) :
          InComment(r, out, t, c, m) /\ m + 2 <= p /\ out.comment = Said(r, m + 3, p)
    BY <1>6 DEF CommentGrows
  <2>2. m + 3 \in 1..(p + 1) /\ m + 2 <= q
    BY <1>1, <2>1
  <2>3. /\ o.comment = More(out.comment, s)
        /\ o.title = out.title /\ o.content = out.content
    BY <1>6, <1>2 DEF Adds
  <2>4. o.comment = Said(r, m + 3, q)
    BY <2>1, <2>2, <2>3, <1>0, SaidMore
  <2>5. InComment(r, o, t, c, m)
    BY <2>1, <2>3 DEF InComment, InContent
  <2>6. CommentGrows(r, q, o)
    BY <2>2, <2>4, <2>5 DEF CommentGrows
  <2> QED BY <1>6, <2>6 DEF Routed
<1> QED BY <1>3, <1>4, <1>5, <1>6 DEF Routed

\* A round that finds the marker awaited at i opens the next section.
LEMMA RoundMarker ==
  ASSUME NEW S, NEW r \in Seq(S), NEW p \in 0..Len(r), NEW i \in (p + 1)..Len(r),
         NEW sec \in StreamStates, sec # "IN_COMMENT",
         NEW out \in [Sections -> Seq(S)], Routed(r, p, sec, out, "open"),
         At(r, i, Marker[sec]), \A j \in (p + 1)..(i - 1) : ~At(r, j, Marker[sec])
  PROVE  Routed(r, i + 2, NextSection[sec], Emitted(sec, out, SubSeq(r, p + 1, i - 1)), "open")
<1>0. PICK s, o : s = SubSeq(r, p + 1, i - 1) /\ o = Emitted(sec, out, s)
  OBVIOUS
<1>1. /\ Len(r) \in Nat /\ p \in Nat /\ i \in Nat /\ i \in 1..Len(r) /\ i - 1 \in p..Len(r)
      /\ i - 1 \in 0..Len(r) /\ p + 1 \in Nat \ {0} /\ i + 2 <= Len(r)
  BY LenProperties DEF At
<1>2. Adds(sec, out, s, o)
  <2>1. s \in Seq(S) /\ o = Emitted(sec, out, s)
    BY <1>0, <1>1, Piece
  <2> QED BY <2>1, EmittedIs
<1> SUFFICES Routed(r, i + 2, NextSection[sec], o, "open")
  BY <1>0
<1>3. CASE sec = "BEFORE_TITLE" /\ BeforeTitle(r, p, out, "open")
  <2>1. NextSection[sec] = "IN_TITLE" /\ Marker[sec] = TitleMark
    BY <1>3 DEF NextSection, TitleMark
  <2>2. First(r, TitleMark, 1, i)
    <3>1. Clear(r, TitleMark, 1, p, "open") /\ 1 <= p + 1 /\ 1 \in Nat
      BY <1>1, <1>3 DEF BeforeTitle
    <3> QED BY <1>1, <2>1, <3>1, FirstFound
  <2>3. Clear(r, ContentMark, i + 3, i + 2, "open") /\ Said(r, i + 3, i + 2) = <<>>
    BY <1>1, Opens
  <2>4. o.title = <<>> /\ o.content = <<>> /\ o.comment = <<>>
    BY <1>2, <1>3 DEF Adds, BeforeTitle
  <2>5. i + 2 <= i + 2
    BY <1>1
  <2>6. TitleGrows(r, i + 2, o, "open")
    BY <1>1, <2>2, <2>3, <2>4, <2>5 DEF TitleGrows
  <2> QED BY <2>1, <2>6 DEF Routed
<1>4. CASE sec = "IN_TITLE" /\ TitleGrows(r, p, out, "open")
  <2>1. PICK t \in 1..Len(r) :
          /\ First(r, TitleMark, 1, t) /\ t + 2 <= p /\ Clear(r, ContentMark, t + 3, p, "open")
          /\ out.title = Said(r, t + 3, p) /\ out.content = <<>> /\ out.comment = <<>>
    BY <1>4 DEF TitleGrows
  <2>2. NextSection[sec] = "IN_CONTENT" /\ Marker[sec] = ContentMark
    BY <1>4 DEF NextSection, ContentMark
  <2>3. t + 3 \in Nat /\ t + 3 <= p + 1 /\ t + 3 \in 1..(p + 1)
    BY <1>1, <2>1
  <2>4. First(r, ContentMark, t + 3, i)
    BY <1>1, <2>1, <2>2, <2>3, FirstFound
  <2>5. Clear(r, CommentMark, i + 3, i + 2, "open") /\ Said(r, i + 3, i + 2) = <<>>
    BY <1>1, Opens
  <2>6. o.title = More(out.title, s) /\ o.content = <<>> /\ o.comment = <<>>
    BY <1>2, <1>4, <2>1 DEF Adds
  <2>7. o.title = Said(r, t + 3, i - 1)
    <3>1. More(Said(r, t + 3, p), SubSeq(r, p + 1, i - 1)) = Said(r, t + 3, i - 1)
      BY <1>1, <2>3, SaidMore
    <3> QED BY <1>0, <2>1, <2>6, <3>1
  <2>8. InContent(r, o, t, i)
    BY <2>1, <2>4, <2>7 DEF InContent
  <2>9. i + 2 <= i + 2
    BY <1>1
  <2>10. ContentGrows(r, i + 2, o, "open")
    BY <1>1, <2>5, <2>6, <2>8, <2>9 DEF ContentGrows
  <2> QED BY <2>2, <2>10 DEF Routed
<1>5. CASE sec = "IN_CONTENT" /\ ContentGrows(r, p, out, "open")
  <2>1. PICK t \in 1..Len(r), c \in 1..Len(r) :
          /\ InContent(r, out, t, c) /\ c + 2 <= p /\ Clear(r, CommentMark, c + 3, p, "open")
          /\ out.content = Said(r, c + 3, p) /\ out.comment = <<>>
    BY <1>5 DEF ContentGrows
  <2>2. NextSection[sec] = "IN_COMMENT" /\ Marker[sec] = CommentMark
    BY <1>5 DEF NextSection, CommentMark
  <2>3. c + 3 \in Nat /\ c + 3 <= p + 1 /\ c + 3 \in 1..(p + 1)
    BY <1>1, <2>1
  <2>4. First(r, CommentMark, c + 3, i)
    BY <1>1, <2>1, <2>2, <2>3, FirstFound
  <2>5. Said(r, i + 3, i + 2) = <<>>
    BY <1>1, Opens
  <2>6. o.content = More(out.content, s) /\ o.title = out.title /\ o.comment = <<>>
    BY <1>2, <1>5, <2>1 DEF Adds
  <2>7. o.content = Said(r, c + 3, i - 1)
    <3>1. More(Said(r, c + 3, p), SubSeq(r, p + 1, i - 1)) = Said(r, c + 3, i - 1)
      BY <1>1, <2>3, SaidMore
    <3> QED BY <1>0, <2>1, <2>6, <3>1
  <2>8. InComment(r, o, t, c, i)
    BY <2>1, <2>4, <2>6, <2>7 DEF InContent, InComment
  <2>9. i + 2 <= i + 2
    BY <1>1
  <2>10. CommentGrows(r, i + 2, o)
    BY <1>1, <2>5, <2>6, <2>8, <2>9 DEF CommentGrows
  <2> QED BY <2>2, <2>10 DEF Routed
<1> QED BY <1>3, <1>4, <1>5 DEF Routed

-----------------------------------------------------------------------------
(* The steps                                                                *)

\* The end of a text that goes on.
LEMMA RestLonger ==
  ASSUME NEW S, NEW r \in Seq(S), NEW x \in Seq(S), NEW a \in 1..(Len(r) + 1)
  PROVE  From(r \o x, a) = From(r, a) \o x
<1>1. /\ Len(r) \in Nat /\ Len(x) \in Nat
      /\ r \o x \in Seq(S) /\ Len(r \o x) = Len(r) + Len(x)
      /\ \A i \in 1..(Len(r) + Len(x)) :
           (r \o x)[i] = IF i <= Len(r) THEN r[i] ELSE x[i - Len(r)]
  BY LenProperties, ConcatProperties
<1>2. a \in 1..(Len(r \o x) + 1)
  BY <1>1
<1>3. /\ From(r \o x, a) \in Seq(S) /\ Len(From(r \o x, a)) = Len(r) + Len(x) - a + 1
      /\ \A i \in 1..(Len(r) + Len(x) - a + 1) : From(r \o x, a)[i] = (r \o x)[a + i - 1]
  <2>1. /\ From(r \o x, a) \in Seq(S) /\ Len(From(r \o x, a)) = Len(r \o x) - a + 1
        /\ \A i \in 1..(Len(r \o x) - a + 1) : From(r \o x, a)[i] = (r \o x)[a + i - 1]
    BY <1>1, <1>2, Rest
  <2> QED BY <1>1, <2>1
<1>4. /\ From(r, a) \in Seq(S) /\ Len(From(r, a)) = Len(r) - a + 1
      /\ \A i \in 1..(Len(r) - a + 1) : From(r, a)[i] = r[a + i - 1]
  BY Rest
<1>5. /\ From(r, a) \o x \in Seq(S) /\ Len(From(r, a) \o x) = Len(r) + Len(x) - a + 1
      /\ \A i \in 1..(Len(r) + Len(x) - a + 1) : (From(r, a) \o x)[i] =
           IF i <= Len(r) - a + 1 THEN From(r, a)[i] ELSE x[i - (Len(r) - a + 1)]
  <2>1. /\ From(r, a) \o x \in Seq(S) /\ Len(From(r, a) \o x) = Len(From(r, a)) + Len(x)
        /\ \A i \in 1..(Len(From(r, a)) + Len(x)) : (From(r, a) \o x)[i] =
             IF i <= Len(From(r, a)) THEN From(r, a)[i] ELSE x[i - Len(From(r, a))]
    BY <1>4, ConcatProperties
  <2>2. Len(r) - a + 1 + Len(x) = Len(r) + Len(x) - a + 1
    BY <1>1
  <2> QED BY <1>4, <2>1, <2>2
<1>6. ASSUME NEW i \in 1..(Len(r) + Len(x) - a + 1)
      PROVE  From(r \o x, a)[i] = (From(r, a) \o x)[i]
  <2>1. a + i - 1 \in 1..(Len(r) + Len(x))
    BY <1>1
  <2>2. From(r \o x, a)[i] = (r \o x)[a + i - 1]
    BY <1>3
  <2>3. CASE i <= Len(r) - a + 1
    <3>1. i \in 1..(Len(r) - a + 1) /\ a + i - 1 <= Len(r)
      BY <1>1, <2>3
    <3>2. (r \o x)[a + i - 1] = r[a + i - 1]
      BY <1>1, <2>1, <3>1
    <3>3. (From(r, a) \o x)[i] = From(r, a)[i]
      BY <1>5, <2>3
    <3>4. From(r, a)[i] = r[a + i - 1]
      BY <1>4, <3>1
    <3> QED BY <2>2, <3>2, <3>3, <3>4
  <2>4. CASE ~(i <= Len(r) - a + 1)
    <3>1. ~(a + i - 1 <= Len(r)) /\ (a + i - 1) - Len(r) = i - (Len(r) - a + 1)
      BY <1>1, <2>4
    <3>2. (r \o x)[a + i - 1] = x[(a + i - 1) - Len(r)]
      BY <1>1, <2>1, <3>1
    <3>3. (From(r, a) \o x)[i] = x[i - (Len(r) - a + 1)]
      BY <1>5, <2>4
    <3> QED BY <2>2, <3>1, <3>2, <3>3
  <2> QED BY <2>3, <2>4
<1> QED BY <1>3, <1>5, <1>6, SeqEqual

\* What stands in the end of a text, by its place in the text.
LEMMA Shift ==
  ASSUME NEW S, NEW r \in Seq(S), NEW p \in 0..Len(r), NEW d, d = From(r, p + 1)
  PROVE  /\ d \in Seq(S) /\ Len(d) = Len(r) - p
         /\ \A m : \A j \in Nat \ {0} :
              (At(d, j, m) <=> At(r, p + j, m)) /\ (j <= Len(d) => (Open(d, j, m) <=> Open(r, p + j, m)))
         /\ \A b \in 0..Len(d) : SubSeq(d, 1, b) = SubSeq(r, p + 1, p + b)
         /\ \A k \in 1..(Len(d) + 1) : From(d, k) = From(r, p + k)
<1>1. /\ Len(r) \in Nat /\ p + 1 \in 1..(Len(r) + 1) /\ Len(r) - (p + 1) + 1 = Len(r) - p
      /\ p \in Nat
  BY LenProperties
<1>2. /\ d \in Seq(S) /\ Len(d) = Len(r) - p
      /\ \A i \in 1..(Len(r) - p) : d[i] = r[p + 1 + i - 1]
  BY <1>1, Rest
<1>3. \A i \in 1..(Len(r) - p) : d[i] = r[p + i]
  <2> TAKE i \in 1..(Len(r) - p)
  <2>1. p + 1 + i - 1 = p + i
    BY <1>1
  <2> QED BY <1>2, <2>1
<1>4. ASSUME NEW m, NEW j \in Nat \ {0}
      PROVE  (At(d, j, m) <=> At(r, p + j, m)) /\ (j <= Len(d) => (Open(d, j, m) <=> Open(r, p + j, m)))
  <2>1. /\ (j <= Len(d)) = (p + j <= Len(r))
        /\ (j + 1 <= Len(d)) = (p + j + 1 <= Len(r))
        /\ (j + 2 <= Len(d)) = (p + j + 2 <= Len(r))
    BY <1>1, <1>2
  <2>2. j <= Len(d) => d[j] = r[p + j]
    BY <1>1, <1>2, <1>3
  <2>3. j + 1 <= Len(d) => d[j + 1] = r[p + j + 1]
    <3>1. SUFFICES ASSUME j + 1 <= Len(d) PROVE d[j + 1] = r[p + j + 1]
      OBVIOUS
    <3>2. j + 1 \in 1..(Len(r) - p) /\ p + (j + 1) = p + j + 1
      BY <1>1, <1>2, <3>1
    <3>3. d[j + 1] = r[p + (j + 1)]
      BY <1>3, <3>2
    <3> QED BY <3>2, <3>3
  <2>4. j + 2 <= Len(d) => d[j + 2] = r[p + j + 2]
    <3>1. SUFFICES ASSUME j + 2 <= Len(d) PROVE d[j + 2] = r[p + j + 2]
      OBVIOUS
    <3>2. j + 2 \in 1..(Len(r) - p) /\ p + (j + 2) = p + j + 2
      BY <1>1, <1>2, <3>1
    <3>3. d[j + 2] = r[p + (j + 2)]
      BY <1>3, <3>2
    <3> QED BY <3>2, <3>3
  <2>5. j + 2 <= Len(d) => j + 1 <= Len(d) /\ j <= Len(d)
    BY <1>1, <1>2
  <2>6. At(d, j, m) <=> At(r, p + j, m)
    BY <2>1, <2>2, <2>3, <2>4, <2>5 DEF At
  <2>7. j <= Len(d) => (Open(d, j, m) <=> Open(r, p + j, m))
    BY <2>1, <2>2, <2>3, <2>4 DEF Open
  <2> QED BY <2>6, <2>7
<1>5. ASSUME NEW a \in 1..(Len(d) + 1), NEW b \in 0..Len(d)
      PROVE  SubSeq(d, a, b) = SubSeq(r, p + a, p + b)
  <2>1. /\ p + a \in Nat \ {0} /\ p + b \in 0..Len(r) /\ a \in Nat \ {0}
        /\ (p + a <= p + b) = (a <= b) /\ (p + b) - (p + a) + 1 = b - a + 1
    BY <1>1, <1>2
  <2>2. /\ SubSeq(d, a, b) \in Seq(S) /\ Len(SubSeq(d, a, b)) = IF a <= b THEN b - a + 1 ELSE 0
        /\ \A i \in 1..(b - a + 1) : SubSeq(d, a, b)[i] = d[a + i - 1]
    BY <1>2, <2>1, Piece
  <2>3. /\ SubSeq(r, p + a, p + b) \in Seq(S)
        /\ Len(SubSeq(r, p + a, p + b)) = IF a <= b THEN b - a + 1 ELSE 0
        /\ \A i \in 1..(b - a + 1) : SubSeq(r, p + a, p + b)[i] = r[p + a + i - 1]
    <3>1. /\ SubSeq(r, p + a, p + b) \in Seq(S)
          /\ Len(SubSeq(r, p + a, p + b))
               = IF p + a <= p + b THEN (p + b) - (p + a) + 1 ELSE 0
          /\ \A i \in 1..((p + b) - (p + a) + 1) :
               SubSeq(r, p + a, p + b)[i] = r[p + a + i - 1]
      BY <2>1, Piece
    <3> QED BY <2>1, <3>1
  <2>4. ASSUME NEW i \in 1..Len(SubSeq(d, a, b))
        PROVE  SubSeq(d, a, b)[i] = SubSeq(r, p + a, p + b)[i]
    <3>1. i \in 1..(b - a + 1)
      BY <2>2
    <3>2. a + i - 1 \in 1..(Len(r) - p) /\ p + (a + i - 1) = p + a + i - 1
      BY <1>1, <1>2, <3>1
    <3>3. d[a + i - 1] = r[p + (a + i - 1)]
      BY <1>3, <3>2
    <3> QED BY <2>2, <2>3, <3>1, <3>2, <3>3
  <2> QED BY <2>2, <2>3, <2>4, SeqEqual
<1>6. ASSUME NEW b \in 0..Len(d) PROVE SubSeq(d, 1, b) = SubSeq(r, p + 1, p + b)
  <2>1. 1 \in 1..(Len(d) + 1)
    BY <1>1, <1>2
  <2> QED BY <1>5, <2>1
<1>7. ASSUME NEW k \in 1..(Len(d) + 1) PROVE From(d, k) = From(r, p + k)
  <2>1. Len(d) \in 0..Len(d) /\ p + Len(d) = Len(r)
    BY <1>1, <1>2
  <2>2. SubSeq(d, k, Len(d)) = SubSeq(r, p + k, p + Len(d))
    BY <1>5, <2>1
  <2> QED BY <2>1, <2>2 DEF From
<1> QED BY <1>2, <1>4, <1>6, <1>7

\* What the invariant says of the text and its place.
LEMMA Placed ==
  ASSUME IInv
  PROVE  /\ raw \in Seq(Letters) /\ pending \in Seq(Letters) /\ Len(raw) \in Nat
         /\ Place \in 0..Len(raw) /\ pending = From(raw, Place + 1)
         /\ Len(pending) = Len(raw) - Place /\ Len(pending) \in Nat
<1>1. raw \in Seq(Letters) /\ pending \in Seq(Letters)
  BY DEF IInv, LibraryTypeOK
<1>2. Len(raw) \in Nat /\ Len(pending) \in Nat
  BY <1>1, LenProperties
<1> QED BY <1>1, <1>2 DEF IInv, PendingEnds, Place

LEMMA ShiftPlaced ==
  ASSUME IInv
  PROVE  \A b \in 0..Len(pending) : SubSeq(pending, 1, b) = SubSeq(raw, Place + 1, Place + b)
<1>1. PICK p : p = Place
  OBVIOUS
<1>2. raw \in Seq(Letters) /\ p \in 0..Len(raw) /\ pending = From(raw, p + 1)
  BY <1>1, Placed
<1>3. \A b \in 0..Len(pending) : SubSeq(pending, 1, b) = SubSeq(raw, p + 1, p + b)
  BY <1>2, Shift
<1> QED BY <1>1, <1>3

LEMMA Initially ==
  ASSUME LibraryInit
  PROVE  IInv
<1>1. <<>> \in Seq(Letters) /\ Len(<<>>) = 0 /\ rest \in Seq(Letters)
  BY LibraryAssumption, EmptySeq DEF LibraryInit
<1>2. LibraryTypeOK
  BY <1>1 DEF LibraryInit, LibraryTypeOK, StreamStates
<1>3. Place = 0 /\ Len(raw) = 0 /\ Len(pending) = 0
  BY <1>1 DEF LibraryInit, Place
<1>4. PendingEnds
  <2>1. From(<<>>, 1) = <<>>
    BY <1>1, SubSeqEmpty DEF From
  <2>2. Place + 1 = 1
    BY <1>3
  <2> QED BY <1>3, <2>1, <2>2 DEF LibraryInit, PendingEnds
<1>5. Stored
  BY DEF LibraryInit, Stored
<1>6. BeforeTitle(raw, Place, sent, "open")
  <2>1. sent.title = <<>> /\ sent.content = <<>> /\ sent.comment = <<>>
    BY DEF LibraryInit, Sections
  <2>2. 1..Place = {}
    BY <1>3
  <2> QED BY <2>1, <2>2 DEF BeforeTitle, Clear
<1>7. Routed(raw, Place, section, sent, IF library = <<>> THEN "open" ELSE "all")
  BY <1>6 DEF LibraryInit, Routed
<1> QED BY <1>2, <1>4, <1>5, <1>7 DEF IInv

LEMMA FeedKeeps ==
  ASSUME IInv, Feed
  PROVE  IInv'
<1>1. PICK n \in 1..Len(rest) :
        /\ raw' = raw \o SubSeq(rest, 1, n) /\ pending' = pending \o SubSeq(rest, 1, n)
        /\ rest' = From(rest, n + 1)
  BY DEF Feed
<1>2. PICK x : x = SubSeq(rest, 1, n)
  OBVIOUS
<1>3. rest \in Seq(Letters) /\ Len(rest) \in Nat
  BY LenProperties DEF IInv, LibraryTypeOK
<1>4. x \in Seq(Letters) /\ rest' \in Seq(Letters)
  <2>1. n \in 0..Len(rest) /\ n + 1 \in 1..(Len(rest) + 1)
    BY <1>3
  <2> QED BY <1>1, <1>2, <1>3, <2>1, Piece, Rest
<1>5. /\ raw \in Seq(Letters) /\ pending \in Seq(Letters) /\ Len(raw) \in Nat
      /\ Place \in 0..Len(raw) /\ pending = From(raw, Place + 1)
      /\ Len(pending) = Len(raw) - Place /\ Len(pending) \in Nat
  BY Placed
<1>6. /\ raw' \in Seq(Letters) /\ Len(raw') = Len(raw) + Len(x)
      /\ pending' \in Seq(Letters) /\ Len(pending') = Len(pending) + Len(x) /\ Len(x) \in Nat
  BY <1>1, <1>2, <1>4, <1>5, Longer, LenProperties
<1>7. /\ section' = section /\ sent' = sent /\ library = <<>> /\ library' = <<>>
      /\ process' = "feed"
  BY DEF Feed
<1>8. LibraryTypeOK'
  BY <1>4, <1>6, <1>7 DEF IInv, LibraryTypeOK
<1>9. Place' = Place
  BY <1>5, <1>6 DEF Place
<1>10. PendingEnds'
  <2>1. Place + 1 \in 1..(Len(raw) + 1)
    BY <1>5
  <2>2. pending' = From(raw', Place + 1)
    BY <1>1, <1>2, <1>4, <1>5, <2>1, RestLonger
  <2> QED BY <1>5, <1>6, <1>9, <2>2 DEF PendingEnds
<1>11. Stored'
  BY <1>7 DEF Stored
<1>12. Routed(raw, Place, section, sent, "open")
  BY <1>7 DEF IInv
<1>13. Routed(raw \o x, Place, section, sent, "open")
  BY <1>4, <1>5, <1>12, RoutedKept
<1>14. Routed(raw', Place', section', sent', "open")
  BY <1>1, <1>2, <1>7, <1>9, <1>13
<1> QED BY <1>7, <1>8, <1>10, <1>11, <1>14 DEF IInv

LEMMA FlushKeeps ==
  ASSUME IInv, Flush
  PROVE  IInv'
<1>1. /\ raw' = raw /\ rest' = rest /\ pending' = pending /\ section' = section
      /\ sent' = sent /\ library = <<>> /\ library' = <<>> /\ process' = "flush"
  BY DEF Flush
<1>2. Place' = Place
  BY <1>1 DEF Place
<1>3. LibraryTypeOK' /\ PendingEnds' /\ Stored'
  BY <1>1, <1>2 DEF IInv, LibraryTypeOK, PendingEnds, Stored
<1>4. Routed(raw, Place, section, sent, "open")
  BY <1>1 DEF IInv
<1>5. Routed(raw', Place', section', sent', "open")
  BY <1>1, <1>2, <1>4
<1> QED BY <1>1, <1>3, <1>5 DEF IInv

\* What is sent in a round.
LEMMA RoundSent ==
  ASSUME IInv, NEW s \in Seq(Letters), Emit(s)
  PROVE  sent' = Emitted(section, sent, s) /\ sent' \in [Sections -> Seq(Letters)]
<1>1. sent' = Emitted(section, sent, s)
  BY DEF Emit, Emitted, More
<1> QED BY <1>1, EmittedIs DEF IInv, LibraryTypeOK

\* The marker awaited is one of the three.
LEMMA Awaited ==
  ASSUME section \in StreamStates, section # "IN_COMMENT"
  PROVE  /\ Marker[section] \in MarkerOf /\ Len(Marker[section]) = 3
         /\ NextSection[section] \in StreamStates
<1>1. Marker[section] \in MarkerOf /\ NextSection[section] \in StreamStates
  BY DEF StreamStates, Marker, MarkerOf, NextSection
<1> QED BY <1>1, MarkerParts

LEMMA NextMarkerKeeps ==
  ASSUME IInv, NextMarker
  PROVE  IInv'
<1>1. PICK m, i :
        /\ m = Marker[section] /\ i = Find(pending, m)
        /\ Emit(SubSeq(pending, 1, i - 1)) /\ pending' = From(pending, i + Len(m))
  BY DEF NextMarker
<1>2. /\ raw' = raw /\ rest' = rest /\ process' = process /\ library' = library
      /\ section' = NextSection[section] /\ process # "none" /\ section # "IN_COMMENT"
      /\ i # 0
  BY <1>1 DEF NextMarker, Marked
<1>3. library = <<>> /\ section \in StreamStates
  BY <1>2 DEF IInv, Stored, LibraryTypeOK
<1>4. /\ raw \in Seq(Letters) /\ pending \in Seq(Letters) /\ Len(raw) \in Nat
      /\ Place \in 0..Len(raw) /\ pending = From(raw, Place + 1)
      /\ Len(pending) = Len(raw) - Place /\ Len(pending) \in Nat
  BY Placed
<1>5. m \in MarkerOf /\ Len(m) = 3 /\ NextSection[section] \in StreamStates
  BY <1>1, <1>2, <1>3, Awaited
<1>6. /\ i \in 1..Len(pending) /\ At(pending, i, m)
      /\ \A j \in 1..(i - 1) : ~At(pending, j, m)
  BY <1>1, <1>2, <1>4, <1>5, FindIs
<1> DEFINE k == Place + i
<1>7. /\ k \in (Place + 1)..Len(raw) /\ i \in Nat \ {0} /\ i - 1 \in 0..Len(pending)
      /\ i + 3 \in 1..(Len(pending) + 1) /\ Place + (i - 1) = k - 1 /\ Place + (i + 3) = k + 3
      /\ k \in Nat
  BY <1>4, <1>6 DEF At
<1>8. At(raw, k, m)
  BY <1>4, <1>6, <1>7, Shift
<1>9. ASSUME NEW j \in (Place + 1)..(k - 1) PROVE ~At(raw, j, m)
  <2>1. j - Place \in 1..(i - 1) /\ j - Place \in Nat \ {0} /\ Place + (j - Place) = j
    BY <1>4, <1>7
  <2>2. At(pending, j - Place, m) <=> At(raw, Place + (j - Place), m)
    BY <1>4, <2>1, Shift
  <2> QED BY <1>6, <2>1, <2>2
<1>10. SubSeq(pending, 1, i - 1) = SubSeq(raw, Place + 1, k - 1)
  <2>1. \A b \in 0..Len(pending) : SubSeq(pending, 1, b) = SubSeq(raw, Place + 1, Place + b)
    BY ShiftPlaced
  <2> QED BY <1>7, <2>1
<1>11. pending' = From(raw, k + 3)
  <2>1. From(pending, i + 3) = From(raw, Place + (i + 3))
    BY <1>4, <1>7, Shift
  <2> QED BY <1>1, <1>5, <1>7, <2>1
<1>12. k + 2 <= Len(raw) /\ k + 3 \in 1..(Len(raw) + 1)
  <2>1. k + 2 <= Len(raw)
    BY <1>8 DEF At
  <2> QED BY <1>4, <1>7, <2>1
<1>13. pending' \in Seq(Letters) /\ Len(pending') = Len(raw) - (k + 3) + 1
  BY <1>4, <1>11, <1>12, Rest
<1>14. Place' = k + 2
  BY <1>2, <1>4, <1>7, <1>13 DEF Place
<1>15. /\ sent' = Emitted(section, sent, SubSeq(raw, Place + 1, k - 1))
       /\ sent' \in [Sections -> Seq(Letters)]
  <2>1. SubSeq(pending, 1, i - 1) \in Seq(Letters)
    BY <1>4, <1>7, Piece
  <2> QED BY <1>1, <1>10, <2>1, RoundSent
<1> HIDE DEF k
<1>16. LibraryTypeOK'
  BY <1>2, <1>5, <1>13, <1>15 DEF IInv, LibraryTypeOK
<1>17. PendingEnds'
  <2>1. k + 2 + 1 = k + 3 /\ Len(pending') <= Len(raw)
    BY <1>4, <1>7, <1>12, <1>13
  <2> QED BY <1>2, <1>11, <1>14, <2>1 DEF PendingEnds
<1>18. Stored'
  BY <1>2, <1>3 DEF Stored
<1>19. Routed(raw, Place, section, sent, "open") /\ sent \in [Sections -> Seq(Letters)]
  BY <1>3 DEF IInv, LibraryTypeOK
<1>20. Routed(raw, k + 2, NextSection[section],
              Emitted(section, sent, SubSeq(raw, Place + 1, k - 1)), "open")
  BY <1>1, <1>2, <1>3, <1>4, <1>7, <1>8, <1>9, <1>19, RoundMarker
<1>21. Routed(raw', Place', section', sent', "open")
  BY <1>2, <1>14, <1>15, <1>20
<1> QED BY <1>2, <1>3, <1>16, <1>17, <1>18, <1>21 DEF IInv

LEMMA LastRoundKeeps ==
  ASSUME IInv, LastRound
  PROVE  IInv'
<1> DEFINE hold == IF process = "flush" \/ section = "IN_COMMENT" THEN 0
                   ELSE HeldBack(pending, Marker[section])
           keep == Len(pending) - hold
           q == Place + keep
           mode == IF process = "feed" THEN "open" ELSE "all"
<1>1. /\ raw' = raw /\ rest' = rest /\ section' = section /\ process # "none"
      /\ process' = "none" /\ Emit(SubSeq(pending, 1, keep))
      /\ pending' = From(pending, keep + 1)
      /\ section = "IN_COMMENT" \/ Find(pending, Marker[section]) = 0
      /\ library' = IF process = "feed" THEN library
                    ELSE [title |-> Cut(OrDefault(final_title)), content |-> final_content,
                          answer |-> OrDefault(sent'["comment"])]
  BY DEF LastRound, Marked
<1>2. library = <<>> /\ section \in StreamStates /\ process \in {"feed", "flush"}
  BY <1>1 DEF IInv, Stored, LibraryTypeOK
<1>3. /\ raw \in Seq(Letters) /\ pending \in Seq(Letters) /\ Len(raw) \in Nat
      /\ Place \in 0..Len(raw) /\ pending = From(raw, Place + 1)
      /\ Len(pending) = Len(raw) - Place /\ Len(pending) \in Nat
  BY Placed
<1>4. section # "IN_COMMENT" => \A j \in Nat \ {0} : ~At(pending, j, Marker[section])
  <2>1. SUFFICES ASSUME section # "IN_COMMENT"
                 PROVE  \A j \in Nat \ {0} : ~At(pending, j, Marker[section])
    OBVIOUS
  <2>2. Marker[section] \in MarkerOf
    BY <1>2, <2>1, Awaited
  <2>3. 0 \notin 1..Len(pending)
    BY <1>3
  <2> QED BY <1>1, <1>3, <2>1, <2>2, <2>3, FindIs
<1>5. /\ hold \in 0..Len(pending)
      /\ section # "IN_COMMENT" /\ mode = "open" =>
           \A i \in 1..(Len(pending) - hold) : ~Open(pending, i, Marker[section])
  <2>1. CASE process = "flush" \/ section = "IN_COMMENT"
    BY <1>2, <1>3, <2>1
  <2>2. CASE ~(process = "flush" \/ section = "IN_COMMENT")
    <3>1. Marker[section] \in MarkerOf
      BY <1>2, <2>2, Awaited
    <3>2. hold = HeldBack(pending, Marker[section])
      BY <2>2
    <3>3. /\ HeldBack(pending, Marker[section]) \in 0..Len(pending)
          /\ \A i \in 1..(Len(pending) - HeldBack(pending, Marker[section])) :
               ~Open(pending, i, Marker[section])
      BY <1>3, <1>4, <2>2, <3>1, Held
    <3> QED BY <3>2, <3>3
  <2> QED BY <2>1, <2>2
<1>6. mode = "all" => hold = 0
  BY <1>2
<1> HIDE DEF hold
<1>7. /\ keep \in 0..Len(pending) /\ keep + 1 \in 1..(Len(pending) + 1)
      /\ q \in Place..Len(raw) /\ q \in Nat /\ Place \in Nat /\ q + 1 \in 1..(Len(raw) + 1)
      /\ Place + (keep + 1) = q + 1 /\ (hold = 0 => q = Len(raw))
  BY <1>3, <1>5
<1>8. SubSeq(pending, 1, keep) = SubSeq(raw, Place + 1, q)
  <2>1. \A b \in 0..Len(pending) : SubSeq(pending, 1, b) = SubSeq(raw, Place + 1, Place + b)
    BY ShiftPlaced
  <2> QED BY <1>7, <2>1
<1>9. pending' = From(raw, q + 1)
  <2>1. From(pending, keep + 1) = From(raw, Place + (keep + 1))
    BY <1>3, <1>7, Shift
  <2> QED BY <1>1, <1>7, <2>1
<1>10. /\ sent' = Emitted(section, sent, SubSeq(raw, Place + 1, q))
       /\ sent' \in [Sections -> Seq(Letters)]
  <2>1. SubSeq(pending, 1, keep) \in Seq(Letters)
    BY <1>3, <1>7, Piece
  <2> QED BY <1>1, <1>8, <2>1, RoundSent
<1>11. section # "IN_COMMENT" => Clear(raw, Marker[section], Place + 1, q, mode)
  <2>1. SUFFICES ASSUME section # "IN_COMMENT", NEW i \in (Place + 1)..q
                 PROVE  /\ ~At(raw, i, Marker[section])
                        /\ mode = "open" => ~Open(raw, i, Marker[section])
    BY DEF Clear
  <2>2. /\ i - Place \in 1..keep /\ i - Place \in Nat \ {0} /\ i - Place <= Len(pending)
        /\ Place + (i - Place) = i
    BY <1>3, <1>7
  <2>3. /\ At(pending, i - Place, Marker[section]) <=> At(raw, Place + (i - Place), Marker[section])
        /\ Open(pending, i - Place, Marker[section])
             <=> Open(raw, Place + (i - Place), Marker[section])
    BY <1>3, <2>2, Shift
  <2> QED BY <1>4, <1>5, <2>1, <2>2, <2>3
<1> HIDE DEF keep, q
<1>12. pending' \in Seq(Letters) /\ Len(pending') = Len(raw) - (q + 1) + 1
  BY <1>3, <1>7, <1>9, Rest
<1>13. Place' = q
  BY <1>1, <1>3, <1>7, <1>12 DEF Place
<1>14. LibraryTypeOK'
  BY <1>1, <1>10, <1>12 DEF IInv, LibraryTypeOK
<1>15. PendingEnds'
  <2>1. Len(pending') <= Len(raw)
    BY <1>3, <1>7, <1>12
  <2> QED BY <1>1, <1>9, <1>13, <2>1 DEF PendingEnds
<1>16. Routed(raw, Place, section, sent, "open") /\ sent \in [Sections -> Seq(Letters)]
  BY <1>2 DEF IInv, LibraryTypeOK
<1>17. Routed(raw, q, section, Emitted(section, sent, SubSeq(raw, Place + 1, q)), mode)
  BY <1>2, <1>3, <1>7, <1>11, <1>16, RoundLast
<1>18. Routed(raw', Place', section', sent', mode)
  BY <1>1, <1>10, <1>13, <1>17
<1>19. CASE process = "feed"
  <2>1. library' = <<>> /\ mode = "open"
    BY <1>1, <1>2, <1>19
  <2>2. Stored'
    BY <2>1 DEF Stored
  <2> QED BY <1>14, <1>15, <1>18, <2>1, <2>2 DEF IInv
<1>20. CASE process = "flush"
  <2>1. /\ library' = [title |-> Cut(OrDefault(final_title)), content |-> final_content,
                       answer |-> OrDefault(sent'["comment"])]
        /\ mode = "all"
    BY <1>1, <1>20
  <2>2. library' # <<>>
    <3>1. "title" \in DOMAIN library' /\ DOMAIN <<>> = {}
      BY <2>1
    <3> QED BY <3>1
  <2>3. final_title' = final_title /\ final_content' = final_content
    BY <1>1 DEF final_title, final_content
  <2>4. Stored'
    BY <1>1, <1>6, <1>7, <1>13, <2>1, <2>3 DEF Stored
  <2> QED BY <1>14, <1>15, <1>18, <2>1, <2>2, <2>4 DEF IInv
<1> QED BY <1>2, <1>19, <1>20

LEMMA Step ==
  ASSUME IInv, [LibraryNext]_libraryVars
  PROVE  IInv'
<1>1. CASE UNCHANGED libraryVars
  <2>1. /\ raw' = raw /\ rest' = rest /\ pending' = pending /\ section' = section
        /\ sent' = sent /\ process' = process /\ library' = library
    BY <1>1 DEF libraryVars
  <2>2. Place' = Place /\ final_title' = final_title /\ final_content' = final_content
    BY <2>1 DEF Place, final_title, final_content
  <2>3. LibraryTypeOK' /\ PendingEnds' /\ Stored'
    BY <2>1, <2>2 DEF IInv, LibraryTypeOK, PendingEnds, Stored
  <2>4. Routed(raw', Place', section', sent', IF library' = <<>> THEN "open" ELSE "all")
    BY <2>1, <2>2 DEF IInv
  <2> QED BY <2>3, <2>4 DEF IInv
<1> QED BY <1>1, FeedKeeps, FlushKeeps, NextMarkerKeeps, LastRoundKeeps DEF LibraryNext

\* The text is routed in order, whatever it says and wherever it is cut: the type
\* invariant, where the text stands, and what every section has got.
THEOREM Invariance == LibrarySpec => []IInv
<1>1. LibraryInit => IInv
  BY Initially
<1>2. IInv /\ [LibraryNext]_libraryVars => IInv'
  BY Step
<1> QED BY <1>1, <1>2, PTL DEF LibrarySpec

-----------------------------------------------------------------------------
(* What is stored is what was sent                                          *)

LEMMA FirstOnce ==
  ASSUME NEW r, NEW m, NEW f \in Nat, NEW i \in Nat, NEW j \in Nat,
         First(r, m, f, i), First(r, m, f, j)
  PROVE  i = j
<1>1. ~(i < j) /\ ~(j < i)
  BY DEF First
<1> QED BY <1>1

\* A blank comment is replaced by the one that names the title.
LEMMA AnswerWhole ==
  ASSUME NEW S, NEW x \in Seq(S)
  PROVE  RStrip(OrDefault(LStrip(x))) = OrDefault(Strip(x))
<1>1. CASE LStrip(x) = <<>>
  <2>1. PICK d : d = <<Default>>
    OBVIOUS
  <2>2. d \in Seq({Default}) /\ Len(d) = 1 /\ Len(d) >= 1 /\ d[1] = Default
    BY <2>1
  <2>3. d[1] # Blank
    BY <2>2, LibraryAssumption
  <2>4. RStrip(d) = d
    BY <2>2, <2>3, Kept
  <2> QED BY <1>1, <2>1, <2>4, StripNothing DEF OrDefault, Strip
<1>2. CASE LStrip(x) # <<>>
  <2>1. LStrip(x) \in Seq(S) /\ Len(LStrip(x)) >= 1 /\ LStrip(x)[1] # Blank
    BY <1>2, Stripped
  <2>2. RStrip(LStrip(x)) # <<>>
    BY <2>1, Kept
  <2> QED BY <1>2, <2>2 DEF OrDefault, Strip
<1> QED BY <1>1, <1>2

\* When the markers are in order, every section was sent its piece of the text.
LEMMA SentWhole ==
  ASSUME IInv, library # <<>>, InOrder,
         NEW t, t = Find(raw, TitleMark), NEW c, c = Find(raw, ContentMark),
         NEW m, m = Find(raw, CommentMark)
  PROVE  /\ t # 0 /\ c > t /\ c # 0 /\ (m = 0 \/ m > c)
         /\ t \in Nat /\ c \in Nat /\ m \in Nat /\ Len(raw) \in Nat
         /\ sent.title = Said(raw, t + 3, c - 1)
         /\ sent.content = Said(raw, c + 3, IF m > c THEN m - 1 ELSE Len(raw))
         /\ sent.comment = IF m = 0 THEN <<>> ELSE LStrip(From(raw, m + 3))
<1>1. raw \in Seq(Letters) /\ Len(raw) \in Nat /\ Place = Len(raw)
  BY Placed DEF IInv, Stored
<1>2. Routed(raw, Len(raw), section, sent, "all")
  BY <1>1 DEF IInv
<1>3. t # 0 /\ c > t /\ (m = 0 \/ m > c)
  BY DEF InOrder, TitleMark, ContentMark, CommentMark
<1>4. /\ t \in 1..Len(raw) /\ At(raw, t, TitleMark)
      /\ \A j \in 1..(t - 1) : ~At(raw, j, TitleMark)
  BY <1>1, <1>3, MarkersAre, FindIs
<1>5. c \in Nat
  BY <1>1, MarkersAre, FindIs
<1>6. c # 0
  BY <1>3, <1>4, <1>5
<1>7. /\ c \in 1..Len(raw) /\ At(raw, c, ContentMark)
      /\ \A j \in 1..(c - 1) : ~At(raw, j, ContentMark)
  BY <1>1, <1>6, MarkersAre, FindIs
<1>8. \/ m = 0 /\ \A j \in Nat \ {0} : ~At(raw, j, CommentMark)
      \/ /\ m \in 1..Len(raw) /\ At(raw, m, CommentMark)
         /\ \A j \in 1..(m - 1) : ~At(raw, j, CommentMark)
  BY <1>1, MarkersAre, FindIs
<1>9. t + 3 <= c
  <2>1. t \in Nat /\ c \in Nat /\ t < c
    BY <1>3, <1>4, <1>7
  <2> QED BY <1>1, <1>4, <1>7, <2>1, MarkersAre, Apart
<1>10. m # 0 => m \in 1..Len(raw) /\ c + 3 <= m
  <2>1. SUFFICES ASSUME m # 0 PROVE m \in 1..Len(raw) /\ c + 3 <= m
    OBVIOUS
  <2>2. c \in Nat /\ m \in Nat /\ c < m /\ m \in 1..Len(raw)
    BY <1>3, <1>7, <1>8, <2>1
  <2>3. At(raw, m, CommentMark)
    BY <1>8, <2>1
  <2> QED BY <1>1, <1>7, <2>2, <2>3, MarkersAre, Apart
<1>11. First(raw, TitleMark, 1, t)
  BY <1>4 DEF First
<1>12. First(raw, ContentMark, t + 3, c)
  <2>1. c \in (t + 3)..Len(raw) /\ \A j \in (t + 3)..(c - 1) : j \in 1..(c - 1)
    BY <1>1, <1>4, <1>7, <1>9
  <2> QED BY <1>7, <2>1 DEF First
<1>13. m # 0 => First(raw, CommentMark, c + 3, m)
  <2>1. SUFFICES ASSUME m # 0 PROVE First(raw, CommentMark, c + 3, m)
    OBVIOUS
  <2>2. m \in (c + 3)..Len(raw) /\ \A j \in (c + 3)..(m - 1) : j \in 1..(m - 1)
    BY <1>1, <1>7, <1>10, <2>1
  <2> QED BY <1>8, <2>1, <2>2 DEF First
<1>14. t \in Nat /\ c \in Nat /\ m \in Nat /\ t + 3 \in Nat /\ c + 3 \in Nat /\ 1 \in Nat
  BY <1>4, <1>7, <1>8
<1>15. section # "BEFORE_TITLE"
  <2>1. SUFFICES ASSUME section = "BEFORE_TITLE" PROVE FALSE
    OBVIOUS
  <2>2. Clear(raw, TitleMark, 1, Len(raw), "all")
    BY <1>2, <2>1 DEF Routed, BeforeTitle
  <2> QED BY <1>4, <2>2 DEF Clear
<1>16. section # "IN_TITLE"
  <2>1. SUFFICES ASSUME section = "IN_TITLE" PROVE FALSE
    OBVIOUS
  <2>2. TitleGrows(raw, Len(raw), sent, "all")
    BY <1>2, <2>1 DEF Routed
  <2>3. PICK t1 \in 1..Len(raw) :
          First(raw, TitleMark, 1, t1) /\ Clear(raw, ContentMark, t1 + 3, Len(raw), "all")
    BY <2>2 DEF TitleGrows
  <2>4. t1 = t
    BY <1>11, <1>14, <2>3, FirstOnce
  <2>5. c \in (t + 3)..Len(raw)
    BY <1>1, <1>7, <1>9, <1>14
  <2> QED BY <1>7, <2>3, <2>4, <2>5 DEF Clear
<1>17. CASE section = "IN_CONTENT"
  <2>1. ContentGrows(raw, Len(raw), sent, "all")
    BY <1>2, <1>17 DEF Routed
  <2>2. PICK t1 \in 1..Len(raw), c1 \in 1..Len(raw) :
          /\ InContent(raw, sent, t1, c1) /\ Clear(raw, CommentMark, c1 + 3, Len(raw), "all")
          /\ sent.content = Said(raw, c1 + 3, Len(raw)) /\ sent.comment = <<>>
    BY <2>1 DEF ContentGrows
  <2>3. t1 = t
    <3>1. First(raw, TitleMark, 1, t1) /\ t1 \in Nat
      BY <2>2 DEF InContent
    <3> QED BY <1>11, <1>14, <3>1, FirstOnce
  <2>4. c1 = c
    <3>1. First(raw, ContentMark, t + 3, c1) /\ c1 \in Nat
      BY <2>2, <2>3 DEF InContent
    <3> QED BY <1>12, <1>14, <3>1, FirstOnce
  <2>5. m = 0
    <3>1. SUFFICES ASSUME m # 0 PROVE FALSE
      OBVIOUS
    <3>2. m \in (c + 3)..Len(raw) /\ At(raw, m, CommentMark)
      BY <1>1, <1>8, <1>10, <1>14, <3>1
    <3> QED BY <2>2, <2>4, <3>2 DEF Clear
  <2>6. ~(m > c)
    BY <1>14, <2>5
  <2>7. sent.title = Said(raw, t + 3, c - 1)
    BY <2>2, <2>3, <2>4 DEF InContent
  <2> QED BY <1>1, <1>3, <1>6, <1>14, <2>2, <2>4, <2>5, <2>6, <2>7
<1>18. CASE section = "IN_COMMENT"
  <2>1. CommentGrows(raw, Len(raw), sent)
    BY <1>2, <1>18 DEF Routed
  <2>2. PICK t1 \in 1..Len(raw), c1 \in 1..Len(raw), m1 \in 1..Len(raw) :
          InComment(raw, sent, t1, c1, m1) /\ sent.comment = Said(raw, m1 + 3, Len(raw))
    BY <2>1 DEF CommentGrows
  <2>3. t1 = t
    <3>1. First(raw, TitleMark, 1, t1) /\ t1 \in Nat
      BY <2>2 DEF InContent, InComment
    <3> QED BY <1>11, <1>14, <3>1, FirstOnce
  <2>4. c1 = c
    <3>1. First(raw, ContentMark, t + 3, c1) /\ c1 \in Nat
      BY <2>2, <2>3 DEF InContent, InComment
    <3> QED BY <1>12, <1>14, <3>1, FirstOnce
  <2>5. m # 0
    BY <1>8, <2>2 DEF InComment, First
  <2>6. m1 = m
    BY <1>13, <1>14, <2>2, <2>4, <2>5, FirstOnce DEF InComment
  <2>7. m > c
    BY <1>3, <2>5
  <2>8. /\ sent.title = Said(raw, t + 3, c - 1) /\ sent.content = Said(raw, c + 3, m - 1)
        /\ sent.comment = LStrip(From(raw, m + 3))
    BY <2>2, <2>3, <2>4, <2>6 DEF InContent, InComment, Said, From
  <2> QED BY <1>1, <1>3, <1>6, <1>14, <2>5, <2>7, <2>8
<1> QED BY <1>2, <1>15, <1>16, <1>17, <1>18 DEF Routed

LEMMA WholeAtLast ==
  ASSUME IInv
  PROVE  SectionsWhole
<1> SUFFICES ASSUME library # <<>>, InOrder
             PROVE  /\ library.title = Cut(OrDefault(RStrip(sent.title)))
                    /\ library.content = RStrip(sent.content)
                    /\ RStrip(library.answer) = OrDefault(final_comment)
  BY DEF SectionsWhole
<1>1. PICK t, c, m : /\ t = Find(raw, TitleMark) /\ c = Find(raw, ContentMark)
                     /\ m = Find(raw, CommentMark)
  OBVIOUS
<1>2. /\ t # 0 /\ c > t /\ c # 0 /\ (m = 0 \/ m > c)
      /\ t \in Nat /\ c \in Nat /\ m \in Nat /\ Len(raw) \in Nat
      /\ sent.title = Said(raw, t + 3, c - 1)
      /\ sent.content = Said(raw, c + 3, IF m > c THEN m - 1 ELSE Len(raw))
      /\ sent.comment = IF m = 0 THEN <<>> ELSE LStrip(From(raw, m + 3))
  BY <1>1, SentWhole
<1>3. /\ library.title = Cut(OrDefault(final_title)) /\ library.content = final_content
      /\ library.answer = OrDefault(sent.comment)
  BY DEF IInv, Stored
<1>4. final_title = RStrip(sent.title)
  BY <1>1, <1>2 DEF final_title, TitleMark, ContentMark, Said, Strip
<1>5. final_content = RStrip(sent.content)
  BY <1>1, <1>2 DEF final_content, ContentMark, CommentMark, Said, Strip
<1>6. RStrip(OrDefault(sent.comment)) = OrDefault(final_comment)
  <2>1. CASE m = 0
    <3>1. final_comment = <<>> /\ sent.comment = <<>>
      BY <1>1, <1>2, <2>1 DEF final_comment, CommentMark
    <3>2. <<>> \in Seq({}) /\ Strip(<<>>) = <<>> /\ LStrip(<<>>) = <<>>
      BY EmptySeq, StripNothing DEF Strip
    <3> QED BY <3>1, <3>2, AnswerWhole
  <2>2. CASE m # 0
    <3>1. final_comment = Strip(From(raw, m + 3))
      BY <1>1, <2>2 DEF final_comment, CommentMark
    <3>2. From(raw, m + 3) \in Seq(Letters)
      <4>1. raw \in Seq(Letters) /\ m + 3 \in Nat \ {0} /\ Len(raw) \in 0..Len(raw)
        BY <1>2, Placed
      <4> QED BY <4>1, Piece DEF From
    <3> QED BY <1>2, <2>2, <3>1, <3>2, AnswerWhole
  <2> QED BY <2>1, <2>2
<1> QED BY <1>3, <1>4, <1>5, <1>6

\* However the text is cut, what the client was sent of a library is what is
\* stored (LibraryStreamRouter.feed and flush against final_title, final_content
\* and final_comment).
THEOREM WholeSections == LibrarySpec => []SectionsWhole
<1>1. IInv => SectionsWhole
  BY WholeAtLast
<1> QED BY <1>1, Invariance, PTL

=============================================================================
