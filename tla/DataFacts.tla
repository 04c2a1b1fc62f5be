----------------------------- MODULE DataFacts ------------------------------
(***************************************************************************)
(* What the proofs share: what Append and Tail do to a queue in which each *)
(* element is once, which a proof about an event loop, a timer or a socket *)
(* needs; and recursion and induction on the subsets of a finite set,      *)
(* which is how the folds of a search are defined.                         *)
(***************************************************************************)
EXTENDS Integers, Sequences, FiniteSets, SequenceTheorems, FiniteSetTheorems,
        WellFoundedInduction, TLAPS

Has(q, x) == \E i \in 1 .. Len(q) : q[i] = x
OnceIn(q, x) == \A i, j \in 1 .. Len(q) : q[i] = x /\ q[j] = x => i = j
OnceEach(q) == \A i, j \in 1 .. Len(q) : q[i] = q[j] => i = j

(* Nothing is in the empty queue. *)
LEMMA EmptyHasNone ==
  /\ \A x : ~Has(<<>>, x)
  /\ OnceEach(<<>>)
BY DEF Has, OnceEach

(* A queue that has nothing is empty. *)
LEMMA NonEmptyHasHead ==
  ASSUME NEW S, NEW q \in Seq(S), q # <<>>
  PROVE  Has(q, Head(q)) /\ Head(q) \in S
<1>1. Len(q) \in Nat \ {0}
  BY EmptySeq
<1> QED BY <1>1 DEF Has

(* Append adds its element, once if it was not there. *)
LEMMA AppendHas ==
  ASSUME NEW S, NEW q \in Seq(S), NEW x \in S
  PROVE  /\ Append(q, x) \in Seq(S)
         /\ \A y : Has(Append(q, x), y) <=> Has(q, y) \/ y = x
         /\ OnceEach(q) /\ ~Has(q, x) => OnceEach(Append(q, x))
<1>1. /\ Append(q, x) \in Seq(S)
      /\ Len(q) \in Nat
      /\ Len(Append(q, x)) = Len(q) + 1
      /\ Append(q, x)[Len(q) + 1] = x
      /\ \A i \in 1 .. Len(q) : Append(q, x)[i] = q[i]
  BY AppendProperties, LenProperties
<1>2. ASSUME NEW y PROVE Has(Append(q, x), y) <=> Has(q, y) \/ y = x
  <2>1. ASSUME Has(q, y) PROVE Has(Append(q, x), y)
    <3>1. PICK i \in 1 .. Len(q) : q[i] = y
      BY <2>1 DEF Has
    <3>2. i \in 1 .. Len(Append(q, x)) /\ Append(q, x)[i] = y
      BY <1>1, <3>1
    <3> QED BY <3>2 DEF Has
  <2>2. ASSUME y = x PROVE Has(Append(q, x), y)
    <3>1. Len(q) + 1 \in 1 .. Len(Append(q, x)) /\ Append(q, x)[Len(q) + 1] = y
      BY <1>1, <2>2
    <3> QED BY <3>1 DEF Has
  <2>3. ASSUME Has(Append(q, x), y), y # x PROVE Has(q, y)
    <3>1. PICK i \in 1 .. Len(q) + 1 : Append(q, x)[i] = y
      BY <1>1, <2>3 DEF Has
    <3>2. i \in 1 .. Len(q) /\ q[i] = y
      BY <1>1, <2>3, <3>1
    <3> QED BY <3>2 DEF Has
  <2> QED BY <2>1, <2>2, <2>3
<1>3. ASSUME OnceEach(q), ~Has(q, x) PROVE OnceEach(Append(q, x))
  <2> SUFFICES ASSUME NEW i \in 1 .. Len(q) + 1, NEW j \in 1 .. Len(q) + 1,
                      Append(q, x)[i] = Append(q, x)[j]
               PROVE  i = j
    BY <1>1 DEF OnceEach
  <2>1. CASE i \in 1 .. Len(q) /\ j \in 1 .. Len(q)
    BY <1>1, <1>3, <2>1 DEF OnceEach
  <2>2. CASE i = Len(q) + 1 /\ j \in 1 .. Len(q)
    BY <1>1, <1>3, <2>2 DEF Has
  <2>3. CASE j = Len(q) + 1 /\ i \in 1 .. Len(q)
    BY <1>1, <1>3, <2>3 DEF Has
  <2>4. i \in 1 .. Len(q) \/ i = Len(q) + 1
    BY <1>1
  <2>5. j \in 1 .. Len(q) \/ j = Len(q) + 1
    BY <1>1
  <2> QED BY <2>1, <2>2, <2>3, <2>4, <2>5
<1> QED BY <1>1, <1>2, <1>3

(* Tail takes the head away, for good if it was there once. *)
LEMMA TailHas ==
  ASSUME NEW S, NEW q \in Seq(S), q # <<>>, OnceEach(q)
  PROVE  /\ Tail(q) \in Seq(S) /\ Head(q) \in S
         /\ \A y : Has(Tail(q), y) <=> Has(q, y) /\ y # Head(q)
         /\ OnceEach(Tail(q))
<1>1. /\ Tail(q) \in Seq(S) /\ Head(q) \in S
      /\ Len(q) \in Nat \ {0}
      /\ Len(Tail(q)) = Len(q) - 1
      /\ \A i \in 1 .. Len(q) - 1 : Tail(q)[i] = q[i + 1]
      /\ Head(q) = q[1]
  BY HeadTailProperties, EmptySeq
<1>2. ASSUME NEW y, Has(Tail(q), y) PROVE Has(q, y) /\ y # Head(q)
  <2>1. PICK i \in 1 .. Len(q) - 1 : Tail(q)[i] = y
    BY <1>1, <1>2 DEF Has
  <2>2. i + 1 \in 1 .. Len(q) /\ q[i + 1] = y /\ i + 1 # 1 /\ 1 \in 1 .. Len(q)
    BY <1>1, <2>1
  <2> QED BY <1>1, <2>2 DEF Has, OnceEach
<1>3. ASSUME NEW y, Has(q, y), y # Head(q) PROVE Has(Tail(q), y)
  <2>1. PICK i \in 1 .. Len(q) : q[i] = y
    BY <1>3 DEF Has
  <2>2. i # 1
    BY <1>1, <1>3, <2>1
  <2>3. i - 1 \in 1 .. Len(q) - 1 /\ (i - 1) + 1 = i
    BY <1>1, <2>1, <2>2
  <2>4. Tail(q)[i - 1] = y
    BY <1>1, <2>1, <2>3
  <2> QED BY <1>1, <2>3, <2>4 DEF Has
<1>4. OnceEach(Tail(q))
  <2> SUFFICES ASSUME NEW i \in 1 .. Len(q) - 1, NEW j \in 1 .. Len(q) - 1,
                      Tail(q)[i] = Tail(q)[j]
               PROVE  i = j
    BY <1>1 DEF OnceEach
  <2>1. i + 1 \in 1 .. Len(q) /\ j + 1 \in 1 .. Len(q) /\ q[i + 1] = q[j + 1]
    BY <1>1
  <2>2. i + 1 = j + 1
    BY <2>1 DEF OnceEach
  <2> QED BY <1>1, <2>2
<1> QED BY <1>1, <1>2, <1>3, <1>4

(* A head that goes to the end leaves the queue with what it had. *)
LEMMA RotateHas ==
  ASSUME NEW S, NEW q \in Seq(S), q # <<>>, OnceEach(q)
  PROVE  /\ Append(Tail(q), Head(q)) \in Seq(S)
         /\ \A y : Has(Append(Tail(q), Head(q)), y) <=> Has(q, y)
         /\ OnceEach(Append(Tail(q), Head(q)))
<1>1. PICK r \in Seq(S) : r = Tail(q)
  BY TailHas
<1>2. PICK x \in S : x = Head(q)
  BY TailHas
<1>3. Has(q, x) /\ OnceEach(r) /\ \A y : Has(r, y) <=> Has(q, y) /\ y # x
  BY <1>1, <1>2, TailHas, NonEmptyHasHead
<1>4. /\ Append(r, x) \in Seq(S)
      /\ \A y : Has(Append(r, x), y) <=> Has(r, y) \/ y = x
      /\ OnceEach(Append(r, x))
  BY <1>3, AppendHas
<1>5. \A y : Has(Append(r, x), y) <=> Has(q, y)
  BY <1>3, <1>4
<1> QED BY <1>1, <1>2, <1>4, <1>5

(* Append adds one place to those of an element. *)
LEMMA AppendOnceIn ==
  ASSUME NEW S, NEW q \in Seq(S), NEW x \in S
  PROVE  /\ \A y : OnceIn(q, y) /\ y # x => OnceIn(Append(q, x), y)
         /\ ~Has(q, x) => OnceIn(Append(q, x), x)
<1>1. /\ Len(q) \in Nat
      /\ Len(Append(q, x)) = Len(q) + 1
      /\ Append(q, x)[Len(q) + 1] = x
      /\ \A i \in 1 .. Len(q) : Append(q, x)[i] = q[i]
  BY AppendProperties, LenProperties
<1>2. ASSUME NEW y, OnceIn(q, y), y # x PROVE OnceIn(Append(q, x), y)
  <2>1. \A i \in 1 .. Len(q) + 1 : Append(q, x)[i] = y => i \in 1 .. Len(q) /\ q[i] = y
    BY <1>1, <1>2
  <2> QED BY <1>1, <1>2, <2>1 DEF OnceIn
<1>3. ASSUME ~Has(q, x) PROVE OnceIn(Append(q, x), x)
  <2>1. \A i \in 1 .. Len(q) + 1 : Append(q, x)[i] = x => i = Len(q) + 1
    BY <1>1, <1>3 DEF Has
  <2> QED BY <1>1, <2>1 DEF OnceIn
<1> QED BY <1>2, <1>3

(* What is taken from the end of a stack leaves the rest as it was. *)
LEMMA PopHas ==
  ASSUME NEW S, NEW q \in Seq(S), q # <<>>
  PROVE  LET r == SubSeq(q, 1, Len(q) - 1) IN
         /\ r \in Seq(S)
         /\ Has(q, q[Len(q)])
         /\ \A y : Has(r, y) => Has(q, y)
         /\ \A y : OnceIn(q, y) => OnceIn(r, y)
         /\ OnceIn(q, q[Len(q)]) => ~Has(r, q[Len(q)])
<1> DEFINE r == SubSeq(q, 1, Len(q) - 1)
<1>1. /\ Len(q) \in Nat \ {0} /\ r \in Seq(S) /\ Len(r) = Len(q) - 1
      /\ \A i \in 1 .. Len(q) - 1 : r[i] = q[i]
  <2>1. PICK n \in Nat : n = Len(q) - 1
    BY EmptySeq
  <2>2. \A i \in 1 .. n : q[i] \in S
    BY <2>1, ElementOfSeq, LenProperties
  <2>3. /\ SubSeq(q, 1, n) \in Seq(S)
        /\ Len(SubSeq(q, 1, n)) = IF 1 <= n THEN n - 1 + 1 ELSE 0
        /\ \A i \in 1 .. n - 1 + 1 : SubSeq(q, 1, n)[i] = q[1 + i - 1]
    BY <2>2, SubSeqProperties
  <2> QED BY <2>1, <2>3, EmptySeq
<1> HIDE DEF r
<1>2. Has(q, q[Len(q)])
  BY <1>1 DEF Has
<1>3. ASSUME NEW y, Has(r, y) PROVE Has(q, y)
  <2>1. PICK i \in 1 .. Len(q) - 1 : r[i] = y
    BY <1>1, <1>3 DEF Has
  <2>2. i \in 1 .. Len(q) /\ q[i] = y
    BY <1>1, <2>1
  <2> QED BY <2>2 DEF Has
<1>4. ASSUME NEW y, OnceIn(q, y) PROVE OnceIn(r, y)
  <2> SUFFICES ASSUME NEW i \in 1 .. Len(q) - 1, NEW j \in 1 .. Len(q) - 1, r[i] = y, r[j] = y
               PROVE  i = j
    BY <1>1 DEF OnceIn
  <2>1. i \in 1 .. Len(q) /\ j \in 1 .. Len(q) /\ q[i] = y /\ q[j] = y
    BY <1>1
  <2> QED BY <1>4, <2>1 DEF OnceIn
<1>5. ASSUME OnceIn(q, q[Len(q)]), Has(r, q[Len(q)]) PROVE FALSE
  <2>1. PICK i \in 1 .. Len(q) - 1 : r[i] = q[Len(q)]
    BY <1>1, <1>5 DEF Has
  <2>2. i \in 1 .. Len(q) /\ Len(q) \in 1 .. Len(q) /\ q[i] = q[Len(q)] /\ i # Len(q)
    BY <1>1, <2>1
  <2> QED BY <1>5, <2>2 DEF OnceIn
<1> QED BY <1>1, <1>2, <1>3, <1>4, <1>5 DEF r

-----------------------------------------------------------------------------
(* A finite set of numbers has a smallest: of the sets of those up to one  *)
(* of them, one is within all the others.                                  *)
LEMMA Smallest ==
  ASSUME NEW S, S \subseteq Nat, IsFiniteSet(S), S # {}
  PROVE  \E m \in S : \A x \in S : m <= x
<1> DEFINE Upto(m) == {x \in S : x <= m}
           T == {Upto(m) : m \in S}
<1>1. IsWellFoundedOn(StrictSubsetOrdering(S), FiniteSubsetsOf(S))
  BY FS_StrictSubsetOrderingWellFounded
<1>2. T \subseteq FiniteSubsetsOf(S) /\ T # {}
  <2>1. ASSUME NEW m \in S PROVE Upto(m) \in FiniteSubsetsOf(S)
    <3>1. Upto(m) \subseteq S
      OBVIOUS
    <3> QED BY <3>1, FS_Subset DEF FiniteSubsetsOf
  <2> HIDE DEF Upto
  <2> QED BY <2>1
<1>3. PICK t \in T : \A u \in T : ~(<<u, t>> \in StrictSubsetOrdering(S))
  BY <1>1, <1>2, WFMin
<1>4. PICK m \in S : t = Upto(m)
  OBVIOUS
<1>5. ASSUME NEW x \in S PROVE m <= x
  <2>0. m \in Nat /\ x \in Nat
    OBVIOUS
  <2>1. SUFFICES ASSUME x < m PROVE FALSE
    BY <2>0, <2>1
  <2>2. Upto(x) \subseteq t /\ m \in t /\ m \notin Upto(x) /\ Upto(x) \in T
    <3>1. m \in Nat /\ x \in Nat
      OBVIOUS
    <3>2. \A y \in Nat : y <= x => y <= m
      BY <2>1, <3>1
    <3>3. m <= m /\ ~(m <= x)
      BY <2>1, <3>1
    <3>4. Upto(x) \in T
      OBVIOUS
    <3> HIDE DEF T
    <3> QED BY <1>4, <3>2, <3>3, <3>4
  <2>3. <<Upto(x), t>> \in StrictSubsetOrdering(S)
    <3>1. Upto(x) \in SUBSET S /\ t \in SUBSET S /\ Upto(x) # t
      BY <1>4, <2>2
    <3> HIDE DEF Upto, T
    <3> QED BY <2>2, <3>1 DEF StrictSubsetOrdering
  <2> HIDE DEF Upto, T
  <2> QED BY <1>3, <2>2, <2>3
<1> QED BY <1>5

(* Induction on the subsets of a finite set: if each exception is above a  *)
(* smaller one, there is none.                                             *)
LEMMA SubsetInduction ==
  ASSUME NEW D, IsFiniteSet(D), NEW Bad, Bad \subseteq SUBSET D,
         \A s \in Bad : \E r \in Bad : r \subseteq s /\ r # s
  PROVE  Bad = {}
<1>1. IsWellFoundedOn(StrictSubsetOrdering(D), FiniteSubsetsOf(D))
  BY FS_StrictSubsetOrderingWellFounded
<1>2. Bad \subseteq FiniteSubsetsOf(D)
  BY FS_Subset DEF FiniteSubsetsOf
<1> SUFFICES ASSUME Bad # {} PROVE FALSE
  OBVIOUS
<1>3. PICK s \in Bad : \A r \in Bad : ~(<<r, s>> \in StrictSubsetOrdering(D))
  BY <1>1, <1>2, WFMin
<1>4. PICK r \in Bad : r \subseteq s /\ r # s
  OBVIOUS
<1>5. <<r, s>> \in StrictSubsetOrdering(D)
  BY <1>4 DEF StrictSubsetOrdering
<1> QED BY <1>3, <1>5

(* A nonempty set of numbers up to n has a greatest, which Max chooses.    *)
LEMMA Greatest ==
  ASSUME NEW n \in Nat, NEW S, S \subseteq 1 .. n, S # {}
  PROVE  \E m \in S : \A x \in S : m >= x
<1> DEFINE T == {n - x : x \in S}
<1>1. T \subseteq 0 .. n /\ T # {}
  <2>1. ASSUME NEW x \in S PROVE n - x \in 0 .. n
    <3>1. x \in 1 .. n
      OBVIOUS
    <3> QED BY <3>1
  <2> QED BY <2>1
<1>2. IsFiniteSet(T)
  <2>1. 0 \in Int /\ n \in Int
    OBVIOUS
  <2>2. IsFiniteSet(0 .. n)
    BY <2>1, FS_Interval
  <2> QED BY <1>1, <2>2, FS_Subset
<1>3. T \subseteq Nat
  BY <1>1
<1>4. PICK d \in T : \A e \in T : d <= e
  <2> HIDE DEF T
  <2> QED BY <1>1, <1>2, <1>3, Smallest
<1>5. PICK m \in S : d = n - m
  OBVIOUS
<1>6. ASSUME NEW x \in S PROVE m >= x
  <2>1. n - x \in T
    OBVIOUS
  <2>2. d <= n - x
    BY <1>4, <2>1
  <2> QED BY <1>5, <2>2
<1> QED BY <1>6

(* Recursion on the subsets of a finite set: there is a function that is b *)
(* on the empty set, and on each other what step makes of its value on the *)
(* set without the element that pick names.                                *)
Picks(pick, D) == \A s \in SUBSET D : s # {} => pick[s] \in s

Unfolds(h, D, b, pick, step) ==
  \A s \in SUBSET D : h[s] = IF s = {} THEN b ELSE step[<<s, h[s \ {pick[s]}]>>]

LEMMA SubsetRecursion ==
  ASSUME NEW D, IsFiniteSet(D), NEW X, NEW b \in X, NEW pick, Picks(pick, D),
         NEW step \in [(SUBSET D) \X X -> X]
  PROVE  \E h \in [SUBSET D -> X] : Unfolds(h, D, b, pick, step)
<1> DEFINE Next(h, s) == IF s = {} THEN b ELSE step[<<s, h[s \ {pick[s]}]>>]
           Upto(h, n) == \A s \in SUBSET D : Cardinality(s) <= n => h[s] = Next(h, s)
           Missing == {n \in 0 .. Cardinality(D) : ~\E h \in [SUBSET D -> X] : Upto(h, n)}
<1>0. \A s \in SUBSET D : s # {} => pick[s] \in s
  BY DEF Picks
<1>1. Cardinality(D) \in Nat
  BY FS_CardinalityType
<1>2. ASSUME NEW s \in SUBSET D
      PROVE  IsFiniteSet(s) /\ Cardinality(s) \in Nat /\ Cardinality(s) <= Cardinality(D)
  BY FS_Subset, FS_CardinalityType
<1>3. ASSUME NEW h \in [SUBSET D -> X], NEW s \in SUBSET D
      PROVE  Next(h, s) \in X
  <2>1. CASE s = {}
    BY <2>1
  <2>2. CASE s # {}
    <3>1. s \ {pick[s]} \in SUBSET D
      OBVIOUS
    <3>2. <<s, h[s \ {pick[s]}]>> \in (SUBSET D) \X X
      BY <3>1
    <3> QED BY <2>2, <3>2
  <2> QED BY <2>1, <2>2
<1>4. Missing = {}
  <2> SUFFICES ASSUME Missing # {} PROVE FALSE
    OBVIOUS
  <2>1. Missing \subseteq Nat /\ IsFiniteSet(Missing)
    <3>1. 0 \in Int /\ Cardinality(D) \in Int
      BY <1>1
    <3>2. IsFiniteSet(0 .. Cardinality(D))
      BY <3>1, FS_Interval
    <3>3. Missing \subseteq 0 .. Cardinality(D)
      OBVIOUS
    <3>4. Missing \subseteq Nat
      BY <1>1
    <3> HIDE DEF Missing
    <3> QED BY <3>2, <3>3, <3>4, FS_Subset
  <2>2. PICK n \in Missing : \A m \in Missing : n <= m
    <3> HIDE DEF Missing
    <3> QED BY <2>1, Smallest
  <2>3. n \in 0 .. Cardinality(D) /\ ~\E h \in [SUBSET D -> X] : Upto(h, n)
    BY <2>2
  <2>4. CASE n = 0
    <3> DEFINE h == [s \in SUBSET D |-> b]
    <3>1. h \in [SUBSET D -> X]
      OBVIOUS
    <3>2. ASSUME NEW s \in SUBSET D, Cardinality(s) <= 0 PROVE h[s] = Next(h, s)
      <4>1. s = {}
        BY <1>2, <3>2, FS_EmptySet
      <4> QED BY <4>1
    <3>3. Upto(h, 0)
      BY <3>2
    <3> HIDE DEF h, Upto
    <3> QED BY <2>3, <2>4, <3>1, <3>3
  <2>5. CASE n # 0
    <3>1. n - 1 \in 0 .. Cardinality(D) /\ n \in Nat
      BY <1>1, <2>3, <2>5
    <3>2. n - 1 \notin Missing
      <4>1. n \in Nat /\ ~(n <= n - 1)
        BY <3>1
      <4> HIDE DEF Missing
      <4> QED BY <2>2, <4>1
    <3>3. PICK g \in [SUBSET D -> X] : Upto(g, n - 1)
      BY <3>1, <3>2
    <3> DEFINE h == [s \in SUBSET D |-> IF Cardinality(s) <= n - 1 THEN g[s] ELSE Next(g, s)]
    <3>4. h \in [SUBSET D -> X]
      <4> HIDE DEF Next
      <4> QED BY <1>3
    <3>5. ASSUME NEW s \in SUBSET D, Cardinality(s) <= n PROVE h[s] = Next(h, s)
      <4>1. h[s] = Next(g, s)
        <5>1. CASE Cardinality(s) <= n - 1
          BY <3>3, <5>1
        <5>2. CASE ~(Cardinality(s) <= n - 1)
          BY <5>2
        <5> HIDE DEF Next, Upto
        <5> QED BY <5>1, <5>2
      <4>2. CASE s = {}
        BY <4>1, <4>2
      <4>3. CASE s # {}
        <5>1. pick[s] \in s
          BY <1>0, <4>3
        <5>2. Cardinality(s \ {pick[s]}) = Cardinality(s) - 1
          BY <1>2, <5>1, FS_RemoveElement
        <5>3. s \ {pick[s]} \in SUBSET D
          OBVIOUS
        <5>4. Cardinality(s \ {pick[s]}) <= n - 1
          BY <1>2, <3>1, <3>5, <5>2
        <5>5. h[s \ {pick[s]}] = g[s \ {pick[s]}]
          BY <5>3, <5>4
        <5> HIDE DEF h
        <5> QED BY <4>1, <4>3, <5>5
      <4> QED BY <4>2, <4>3
    <3>6. Upto(h, n)
      BY <3>5
    <3> HIDE DEF h, Upto
    <3> QED BY <2>3, <3>4, <3>6
  <2> QED BY <2>4, <2>5
<1>5. PICK h \in [SUBSET D -> X] : Upto(h, Cardinality(D))
  <2>1. Cardinality(D) \in 0 .. Cardinality(D)
    BY <1>1
  <2> HIDE DEF Upto
  <2> QED BY <1>4, <2>1
<1>6. \A s \in SUBSET D : h[s] = Next(h, s)
  BY <1>2, <1>5
<1> QED BY <1>6 DEF Unfolds
=============================================================================
