------------------------- MODULE ModuleLoaderProofs -------------------------
(***************************************************************************)
(* Proofs about the resolver and the loader, for any files, links,         *)
(* specifiers and capacity of the caches.                                  *)
(*                                                                         *)
(* Each search is a fold over what it tries, defined by recursion on the   *)
(* subsets of its indexes: SubsetRecursion shows that there is such a      *)
(* function, SubsetInduction what holds of all its values.  The searches   *)
(* keep the caches sound, and each has a condition, which does not mention *)
(* the caches, for there being nothing to find: NoFile, NoneAt, NoMain,    *)
(* NothingUp, NothingFor.  The invariant of the loader is that its caches  *)
(* are sound.                                                              *)
(***************************************************************************)
EXTENDS MCModuleLoader, DataFacts

-----------------------------------------------------------------------------
(* Paths *)

LEMMA FrontFits ==
  ASSUME NEW S, NEW seq \in Seq(S)
  PROVE  Front(seq) \in Seq(S)
<1>1. 1 \in Int /\ Len(seq) - 1 \in Int
  OBVIOUS
<1>2. \A i \in 1 .. Len(seq) - 1 : seq[i] \in S
  OBVIOUS
<1> QED BY <1>1, <1>2, SubSeqProperties DEF Front

LEMMA LastFits ==
  ASSUME NEW S, NEW seq \in Seq(S), seq # <<>>
  PROVE  Last(seq) \in S
<1>1. Len(seq) \in 1 .. Len(seq)
  BY EmptySeq
<1> QED BY <1>1 DEF Last

LEMMA AppendFits ==
  ASSUME NEW S, NEW seq \in Seq(S), NEW x \in S
  PROVE  Append(seq, x) \in Seq(S)
OBVIOUS

LEMMA PairFits ==
  ASSUME NEW S, NEW x \in S, NEW y \in S
  PROVE  <<x, y>> \in Seq(S)
OBVIOUS

LEMMA SingleFits ==
  ASSUME NEW S, NEW x \in S
  PROVE  <<x>> \in Seq(S)
OBVIOUS

LEMMA NamesFit ==
  /\ Up \in Seq(Part) /\ PackageJson \in Seq(Part) /\ NodeModules \in Seq(Part)
  /\ <<>> \in Path
<1>1. /\ ".." \in Part /\ "package" \in Part /\ "json" \in Part
      /\ "node_modules" \in Part
  BY NamesAssumption
<1>2. <<>> \in Path
  BY DEF Path
<1> QED BY <1>1, <1>2 DEF Up, PackageJson, NodeModules

(* A path without ".." is plain, and so is what is made of plain ones.     *)
Plain(path) == \A i \in 1 .. Len(path) : path[i] # Up

LEMMA PlainFits ==
  ASSUME NEW path \in Path, Plain(path)
  PROVE  /\ Plain(Front(path))
         /\ \A name \in Seq(Part) : name # Up => Plain(Append(path, name))
         /\ \A n \in 0 .. Len(path) : Plain(SubSeq(path, 1, n))
         /\ \A more \in Path : Plain(more) => Plain(path \o more)
<1>1. Len(path) \in Nat /\ path \in Seq(Seq(Part))
  BY DEF Path
<1>2. ASSUME NEW n \in Int, n <= Len(path) PROVE Plain(SubSeq(path, 1, n))
  <2>1. 1 \in Int /\ \A i \in 1 .. n : path[i] \in Seq(Part)
    BY <1>1, <1>2
  <2>2. /\ Len(SubSeq(path, 1, n)) = IF 1 <= n THEN n - 1 + 1 ELSE 0
        /\ \A i \in 1 .. n - 1 + 1 : SubSeq(path, 1, n)[i] = path[1 + i - 1]
    BY <2>1, SubSeqProperties
  <2> SUFFICES ASSUME NEW i \in 1 .. Len(SubSeq(path, 1, n)) PROVE SubSeq(path, 1, n)[i] # Up
    BY DEF Plain
  <2>3. i \in 1 .. n - 1 + 1 /\ 1 + i - 1 = i /\ i \in 1 .. Len(path)
    BY <1>1, <1>2, <2>2
  <2> QED BY <2>2, <2>3 DEF Plain
<1>3. Plain(Front(path))
  <2>1. Len(path) - 1 \in Int /\ Len(path) - 1 <= Len(path)
    BY <1>1
  <2> QED BY <1>2, <2>1 DEF Front
<1>4. ASSUME NEW name \in Seq(Part), name # Up PROVE Plain(Append(path, name))
  BY <1>1, <1>4, AppendProperties DEF Plain
<1>5. ASSUME NEW more \in Path, Plain(more) PROVE Plain(path \o more)
  BY <1>1, <1>5, ConcatProperties DEF Plain, Path
<1> QED BY <1>1, <1>2, <1>3, <1>4, <1>5

LEMMA IndexesFit ==
  ASSUME NEW dir \in Path
  PROVE  /\ Indexes(dir) \in Seq(Path)
         /\ Plain(dir) => \A n \in DOMAIN Indexes(dir) : Plain(Indexes(dir)[n])
<1>1. Len(Extensions) \in Nat /\ \A n \in 1 .. Len(Extensions) : Extensions[n] \in Part
  BY PathsAssumption
<1>2. ASSUME NEW n \in 1 .. Len(Extensions)
      PROVE  /\ Append(dir, <<"index", Extensions[n]>>) \in Path
             /\ Plain(dir) => Plain(Append(dir, <<"index", Extensions[n]>>))
  <2>1. Extensions[n] \in Part /\ "index" \in Part
    BY <1>1, NamesAssumption
  <2>2. <<"index", Extensions[n]>> \in Seq(Part)
    BY <2>1
  <2>3. <<"index", Extensions[n]>> # Up
    BY DEF Up
  <2> QED BY <2>2, <2>3, AppendFits, PlainFits DEF Path
<1> QED BY <1>1, <1>2 DEF Indexes

LEMMA ExtendedFits ==
  ASSUME NEW path \in Path
  PROVE  /\ Extended(path) \in Seq(Path)
         /\ Plain(path) => \A n \in DOMAIN Extended(path) : Plain(Extended(path)[n])
<1>1. /\ Len(Extensions) \in Nat
      /\ \A n \in 1 .. Len(Extensions) : Extensions[n] \in Part /\ Extensions[n] # ".."
  BY PathsAssumption
<1>2. ASSUME NEW ext \in Part, ext # "..", path # <<>>
      PROVE  /\ WithExtension(path, ext) \in Path /\ AppendExtension(path, ext) \in Path
             /\ Plain(path) => Plain(WithExtension(path, ext)) /\ Plain(AppendExtension(path, ext))
  <2>1. Front(path) \in Path /\ Last(path) \in Seq(Part)
    BY <1>2, FrontFits, LastFits DEF Path
  <2>2. Front(Last(path)) \in Seq(Part)
    BY <2>1, FrontFits
  <2>3. ASSUME NEW stem \in Seq(Part)
        PROVE  /\ Append(stem, ext) \in Seq(Part) /\ Append(stem, ext) # Up
               /\ Append(Front(path), Append(stem, ext)) \in Path
               /\ Plain(path) => Plain(Append(Front(path), Append(stem, ext)))
    <3>1. Append(stem, ext) \in Seq(Part)
      BY AppendFits
    <3>2. Append(stem, ext)[Len(Append(stem, ext))] = ext
      OBVIOUS
    <3>3. Up[Len(Up)] = ".."
      BY DEF Up
    <3>4. Append(stem, ext) # Up
      BY <1>2, <3>2, <3>3
    <3>5. Append(Front(path), Append(stem, ext)) \in Path
      BY <2>1, <3>1, AppendFits DEF Path
    <3>6. Plain(path) => Plain(Append(Front(path), Append(stem, ext)))
      BY <2>1, <3>1, <3>4, PlainFits
    <3> QED BY <3>1, <3>4, <3>5, <3>6
  <2> QED BY <1>2, <2>1, <2>2, <2>3 DEF WithExtension, AppendExtension
<1>3. ASSUME NEW ext \in Part, path = <<>>
      PROVE  /\ WithExtension(path, ext) \in Path /\ AppendExtension(path, ext) \in Path
             /\ Plain(WithExtension(path, ext)) /\ Plain(AppendExtension(path, ext))
  <2>1. ext \in Part /\ "" \in Part
    BY NamesAssumption
  <2>2. <<<<"", ext>>>> \in Path
    <3>1. <<"", ext>> \in Seq(Part)
      BY <2>1, PairFits
    <3> QED BY <3>1, SingleFits DEF Path
  <2>3. Plain(<<<<"", ext>>>>)
    <3>1. <<"", ext>> # Up
      BY DEF Up
    <3>2. PICK name : name = <<"", ext>>
      OBVIOUS
    <3>3. Plain(<<name>>)
      <4>1. name # Up
        BY <3>1, <3>2
      <4>2. Len(<<name>>) = 1 /\ <<name>>[1] = name
        OBVIOUS
      <4> QED BY <4>1, <4>2 DEF Plain
    <3> QED BY <3>2, <3>3
  <2>4. Plain(<<>>)
    BY DEF Plain
  <2> QED BY <1>3, <2>2, <2>3, <2>4 DEF WithExtension, AppendExtension
<1>4. ASSUME NEW n \in 1 .. 2 * Len(Extensions)
      PROVE  Extended(path)[n] \in Path /\ (Plain(path) => Plain(Extended(path)[n]))
  <2>1. (n + 1) \div 2 \in 1 .. Len(Extensions)
    BY <1>1
  <2>2. PICK ext \in Part : ext = Extensions[(n + 1) \div 2] /\ ext # ".."
    BY <1>1, <2>1
  <2>3. Extended(path)[n] \in {WithExtension(path, ext), AppendExtension(path, ext)}
    BY <2>2 DEF Extended
  <2> QED BY <1>2, <1>3, <2>2, <2>3
<1>5. 2 * Len(Extensions) \in Nat
  BY <1>1
<1>6. Extended(path) = [n \in 1 .. 2 * Len(Extensions) |-> Extended(path)[n]]
  BY DEF Extended
<1> QED BY <1>4, <1>5, <1>6

LEMMA CandidatesFit ==
  ASSUME NEW path \in Path
  PROVE  /\ Candidates(path) \in Seq(Path)
         /\ Plain(path) => \A n \in DOMAIN Candidates(path) : Plain(Candidates(path)[n])
<1> DEFINE Each(paths) == paths \in Seq(Path) /\ \A n \in DOMAIN paths : Plain(path) => Plain(paths[n])
<1>1. Each(<<path>>) /\ Each(Extended(path))
  <2>1. <<path>> \in Seq(Path) /\ DOMAIN <<path>> = {1} /\ <<path>>[1] = path
    OBVIOUS
  <2> QED BY <2>1, ExtendedFits
<1>2. Each(IF DirExists(path) THEN Indexes(path) ELSE <<>>)
  BY IndexesFit
<1>3. ASSUME NEW s, NEW t, Each(s), Each(t) PROVE Each(s \o t)
  <2>1. /\ s \in Seq(Path) /\ t \in Seq(Path) /\ s \o t \in Seq(Path)
        /\ DOMAIN s = 1 .. Len(s) /\ DOMAIN t = 1 .. Len(t) /\ DOMAIN (s \o t) = 1 .. Len(s) + Len(t)
        /\ Len(s) \in Nat /\ Len(t) \in Nat
    BY <1>3
  <2>2. \A i \in 1 .. Len(s) + Len(t) : (s \o t)[i] = IF i <= Len(s) THEN s[i] ELSE t[i - Len(s)]
    BY <2>1, ConcatProperties
  <2> SUFFICES ASSUME NEW n \in 1 .. Len(s) + Len(t), Plain(path) PROVE Plain((s \o t)[n])
    BY <2>1
  <2>3. CASE n <= Len(s)
    BY <1>3, <2>1, <2>2, <2>3
  <2>4. CASE ~(n <= Len(s))
    <3>1. n - Len(s) \in 1 .. Len(t)
      BY <2>1, <2>4
    <3> QED BY <1>3, <2>1, <2>2, <2>4, <3>1
  <2> QED BY <2>3, <2>4
<1>4. Each(Candidates(path))
  <2> HIDE DEF Each
  <2> QED BY <1>1, <1>2, <1>3 DEF Candidates
<1> QED BY <1>4

(* A fold takes the indexes of a sequence from the greatest.               *)
LEMMA MaxPicks ==
  ASSUME NEW S, NEW seq \in Seq(S)
  PROVE  /\ IsFiniteSet(DOMAIN seq)
         /\ \A s \in SUBSET DOMAIN seq : s # {} => Max(s) \in s /\ seq[Max(s)] \in S
         /\ Picks([s \in SUBSET DOMAIN seq |-> Max(s)], DOMAIN seq)
<1>1. DOMAIN seq = 1 .. Len(seq) /\ Len(seq) \in Nat /\ \A i \in DOMAIN seq : seq[i] \in S
  OBVIOUS
<1>2. IsFiniteSet(DOMAIN seq)
  <2>1. 1 \in Int /\ Len(seq) \in Int
    BY <1>1
  <2> QED BY <1>1, <2>1, FS_Interval
<1>3. ASSUME NEW s \in SUBSET DOMAIN seq, s # {} PROVE Max(s) \in s
  <2>1. \E m \in s : \A x \in s : m >= x
    BY <1>1, <1>3, Greatest
  <2> QED BY <2>1 DEF Max
<1>4. Picks([s \in SUBSET DOMAIN seq |-> Max(s)], DOMAIN seq)
  BY <1>3 DEF Picks
<1> QED BY <1>1, <1>2, <1>3, <1>4

(* A normalized path is plain, or None.                                    *)
LEMMA NormalizeFits ==
  ASSUME NEW path \in Path
  PROVE  Normalize(path) \in {p \in Path : Plain(p)} \cup {None}
<1> DEFINE D == DOMAIN path
           X == {p \in Path : Plain(p)} \cup {None}
           After(p, name) == IF p = None \/ (name = Up /\ p = <<>>) THEN None
                             ELSE IF name = Up THEN Front(p) ELSE Append(p, name)
           After2(s, p) == IF s = {} THEN None ELSE After(p, path[Max(s)])
           Good(iter) == iter = [s \in SUBSET D |-> IF s = {} THEN <<>>
                                                    ELSE After(iter[s \ {Max(s)}], path[Max(s)])]
           walked == CHOOSE iter : Good(iter)
<1>1. Normalize(path) = walked[D]
  BY DEF Normalize, FoldLeft, MapThenFoldSet
<1>2. /\ IsFiniteSet(D) /\ Picks([s \in SUBSET D |-> Max(s)], D)
      /\ \A s \in SUBSET D : s # {} => Max(s) \in s /\ path[Max(s)] \in Seq(Part)
  BY MaxPicks DEF Path
<1>0. <<>> \in X
  BY NamesFit DEF Plain
<1>3. ASSUME NEW s \in SUBSET D, NEW p \in X PROVE After2(s, p) \in X
  <2>1. CASE s = {} \/ p = None
    BY <2>1
  <2>2. CASE s # {} /\ p # None
    <3>1. Front(p) \in Path /\ Append(p, path[Max(s)]) \in Path
      BY <1>2, <2>2, FrontFits, AppendFits DEF Path
    <3>2. Plain(Front(p)) /\ (path[Max(s)] # Up => Plain(Append(p, path[Max(s)])))
      BY <1>2, <2>2, PlainFits
    <3> QED BY <3>1, <3>2
  <2> QED BY <2>1, <2>2
<1>4. \E iter : Good(iter)
  <2> DEFINE step == [a \in (SUBSET D) \X X |-> After2(a[1], a[2])]
             pick == [s \in SUBSET D |-> Max(s)]
  <2>1. step \in [(SUBSET D) \X X -> X]
    <3> HIDE DEF After2
    <3> QED BY <1>3
  <2>2. PICK root \in X : root = <<>>
    BY <1>0
  <2>3. Picks(pick, D)
    BY <1>2
  <2>4. PICK h \in [SUBSET D -> X] : Unfolds(h, D, root, pick, step)
    <3>1. IsFiniteSet(D)
      BY <1>2
    <3> HIDE DEF D, X, step, pick
    <3> QED BY <2>1, <2>3, <3>1, SubsetRecursion
  <2>5. ASSUME NEW s \in SUBSET D, s # {}
        PROVE  h[s] = After(h[s \ {Max(s)}], path[Max(s)])
    <3>1. s \ {Max(s)} \in SUBSET D /\ pick[s] = Max(s)
      BY <2>5
    <3>2. <<s, h[s \ {Max(s)}]>> \in (SUBSET D) \X X
      BY <3>1
    <3>3. h[s] = step[<<s, h[s \ {Max(s)}]>>]
      BY <2>4, <2>5, <3>1 DEF Unfolds
    <3> HIDE DEF D, X, After, pick
    <3> QED BY <2>5, <3>2, <3>3
  <2>6. Good(h)
    <3> HIDE DEF After, step, pick, D, X
    <3> QED BY <2>2, <2>4, <2>5 DEF Unfolds
  <2> QED BY <2>6
<1>5. Good(walked)
  <2> HIDE DEF Good
  <2> QED BY <1>4
<1> HIDE DEF walked
<1>6. ASSUME NEW s \in SUBSET D
      PROVE  walked[s] = IF s = {} THEN <<>> ELSE After(walked[s \ {Max(s)}], path[Max(s)])
  <2> HIDE DEF D, After
  <2> QED BY <1>5
<1>7. {s \in SUBSET D : walked[s] \notin X} = {}
  <2> DEFINE Bad == {s \in SUBSET D : walked[s] \notin X}
  <2>1. ASSUME NEW s \in Bad PROVE \E r \in Bad : r \subseteq s /\ r # s
    <3>1. s # {}
      BY <1>0, <1>6, <2>1
    <3>2. Max(s) \in s /\ s \ {Max(s)} \in SUBSET D
      BY <1>2, <2>1, <3>1
    <3>3. walked[s] = After2(s, walked[s \ {Max(s)}])
      <4> HIDE DEF After
      <4> QED BY <1>6, <2>1, <3>1
    <3>4. walked[s \ {Max(s)}] \notin X
      <4> HIDE DEF After2, X
      <4> QED BY <1>3, <2>1, <3>2, <3>3
    <3> QED BY <3>2, <3>4
  <2> HIDE DEF Bad
  <2>2. Bad \subseteq SUBSET D
    BY DEF Bad
  <2>3. Bad = {}
    <3>1. IsFiniteSet(D)
      BY <1>2
    <3> HIDE DEF D
    <3> QED BY <2>1, <2>2, <3>1, SubsetInduction
  <2> QED BY <2>3 DEF Bad
<1> QED BY <1>1, <1>7

(* Without links, the canonical path of a plain path is the path itself.   *)
LEMMA RealIsItself ==
  ASSUME NEW path \in Path, Plain(path), DOMAIN Link = {}
  PROVE  Real(path) = path
<1> DEFINE D == DOMAIN path
           X == Path
           After(p, name) == LET q == Append(p, name)
                             IN  IF name = Up THEN (IF p = <<>> THEN p ELSE Front(p))
                                 ELSE IF q \in DOMAIN Link THEN Link[q] ELSE q
           After2(s, p) == IF s = {} THEN <<>> ELSE After(p, path[Max(s)])
           Good(iter) == iter = [s \in SUBSET D |-> IF s = {} THEN <<>>
                                                    ELSE After(iter[s \ {Max(s)}], path[Max(s)])]
           walked == CHOOSE iter : Good(iter)
<1>1. Real(path) = walked[D]
  BY DEF Real, FoldLeft, MapThenFoldSet
<1>2. /\ IsFiniteSet(D) /\ Picks([s \in SUBSET D |-> Max(s)], D)
      /\ \A s \in SUBSET D : s # {} => Max(s) \in s /\ path[Max(s)] \in Seq(Part)
  BY MaxPicks DEF Path
<1>3. ASSUME NEW s \in SUBSET D, s # {}, NEW p
      PROVE  After(p, path[Max(s)]) = Append(p, path[Max(s)])
  <2>1. path[Max(s)] # Up
    BY <1>2, <1>3 DEF Plain, Path
  <2>2. Append(p, path[Max(s)]) \notin DOMAIN Link
    OBVIOUS
  <2> QED BY <2>1, <2>2
<1>4. ASSUME NEW s \in SUBSET D, NEW p \in X PROVE After2(s, p) \in X
  <2>1. CASE s = {}
    BY <2>1, NamesFit
  <2>2. CASE s # {}
    <3>1. Append(p, path[Max(s)]) \in Path
      BY <1>2, <2>2, AppendFits DEF Path
    <3> HIDE DEF After
    <3> QED BY <1>3, <2>2, <3>1
  <2> QED BY <2>1, <2>2
<1>5. \E iter : Good(iter)
  <2> DEFINE step == [a \in (SUBSET D) \X X |-> After2(a[1], a[2])]
             pick == [s \in SUBSET D |-> Max(s)]
  <2>1. step \in [(SUBSET D) \X X -> X]
    <3> HIDE DEF After2
    <3> QED BY <1>4
  <2>2. PICK root \in X : root = <<>>
    BY NamesFit
  <2>3. Picks(pick, D)
    BY <1>2
  <2>4. PICK h \in [SUBSET D -> X] : Unfolds(h, D, root, pick, step)
    <3>1. IsFiniteSet(D)
      BY <1>2
    <3> HIDE DEF D, X, step, pick
    <3> QED BY <2>1, <2>3, <3>1, SubsetRecursion
  <2>5. ASSUME NEW s \in SUBSET D, s # {}
        PROVE  h[s] = After(h[s \ {Max(s)}], path[Max(s)])
    <3>1. s \ {Max(s)} \in SUBSET D /\ pick[s] = Max(s)
      BY <2>5
    <3>2. <<s, h[s \ {Max(s)}]>> \in (SUBSET D) \X X
      BY <3>1
    <3>3. h[s] = step[<<s, h[s \ {Max(s)}]>>]
      BY <2>4, <2>5, <3>1 DEF Unfolds
    <3> HIDE DEF D, X, After, pick
    <3> QED BY <2>5, <3>2, <3>3
  <2>6. Good(h)
    <3> HIDE DEF After, step, pick, D, X
    <3> QED BY <2>2, <2>4, <2>5 DEF Unfolds
  <2> QED BY <2>6
<1>6. Good(walked)
  <2> HIDE DEF Good
  <2> QED BY <1>5
<1> HIDE DEF walked
<1>7. /\ walked[{}] = <<>>
      /\ \A s \in SUBSET D : s # {} => walked[s] = Append(walked[s \ {Max(s)}], path[Max(s)])
  <2>1. ASSUME NEW s \in SUBSET D
        PROVE  walked[s] = IF s = {} THEN <<>> ELSE After(walked[s \ {Max(s)}], path[Max(s)])
    <3> HIDE DEF D, After
    <3> QED BY <1>6
  <2>2. walked[{}] = <<>>
    BY <2>1
  <2>3. ASSUME NEW s \in SUBSET D, s # {}
        PROVE  walked[s] = Append(walked[s \ {Max(s)}], path[Max(s)])
    <3> HIDE DEF D, After
    <3> QED BY <1>3, <2>1, <2>3
  <2> QED BY <2>2, <2>3
<1>8. Len(path) \in Nat /\ D = 1 .. Len(path)
  BY DEF Path
<1>9. {s \in SUBSET D : \E n \in 0 .. Len(path) : s = 1 .. n /\ walked[s] # SubSeq(path, 1, n)} = {}
  <2> DEFINE Bad == {s \in SUBSET D : \E n \in 0 .. Len(path) : s = 1 .. n /\ walked[s] # SubSeq(path, 1, n)}
  <2>1. ASSUME NEW s \in Bad PROVE \E r \in Bad : r \subseteq s /\ r # s
    <3>1. PICK n \in 0 .. Len(path) : s = 1 .. n /\ walked[s] # SubSeq(path, 1, n)
      BY <2>1
    <3>2. n # 0
      <4>1. SubSeq(path, 1, 0) = <<>>
        BY SubSeqEmpty
      <4>2. n = 0 => s = {}
        BY <3>1
      <4> QED BY <1>7, <3>1, <4>1, <4>2
    <3>3. s # {} /\ Max(s) = n /\ s \ {Max(s)} = 1 .. n - 1 /\ n - 1 \in 0 .. Len(path)
      <4>1. n \in 1 .. n /\ n \in Nat /\ \A i \in 1 .. n : n >= i
        BY <1>8, <3>2
      <4>2. Max(s) \in 1 .. n /\ \A i \in 1 .. n : Max(s) >= i
        <5>1. \E m \in s : \A x \in s : m >= x
          BY <3>1, <4>1
        <5> QED BY <3>1, <5>1 DEF Max
      <4>3. Max(s) = n
        BY <4>1, <4>2
      <4>4. (1 .. n) \ {n} = 1 .. n - 1
        BY <4>1
      <4>5. s \ {Max(s)} = 1 .. n - 1
        BY <3>1, <4>3, <4>4
      <4>6. n - 1 \in 0 .. Len(path) /\ s # {}
        BY <1>8, <3>1, <4>1
      <4> QED BY <4>3, <4>5, <4>6
    <3>4. SubSeq(path, 1, n) = Append(SubSeq(path, 1, n - 1), path[n])
      <4> DEFINE front == SubSeq(path, 1, n - 1)
      <4>1. 1 \in Int /\ n \in Int /\ n - 1 \in Int /\ n \in 1 .. Len(path)
        BY <1>8, <3>2
      <4>2. \A i \in 1 .. Len(path) : path[i] \in Seq(Part)
        BY DEF Path
      <4>3. /\ front \in Seq(Seq(Part)) /\ Len(front) = n - 1
            /\ \A i \in 1 .. n - 1 : front[i] = path[i]
        <5>1. \A i \in 1 .. n - 1 : path[i] \in Seq(Part)
          BY <1>8, <4>1, <4>2
        <5>2. /\ front \in Seq(Seq(Part))
              /\ Len(front) = IF 1 <= n - 1 THEN n - 1 - 1 + 1 ELSE 0
              /\ \A i \in 1 .. n - 1 - 1 + 1 : front[i] = path[1 + i - 1]
          BY <4>1, <5>1, SubSeqProperties
        <5> HIDE DEF front
        <5> QED BY <4>1, <5>2
      <4>4. /\ SubSeq(path, 1, n) \in Seq(Seq(Part)) /\ Len(SubSeq(path, 1, n)) = n
            /\ \A i \in 1 .. n : SubSeq(path, 1, n)[i] = path[i]
        <5>1. \A i \in 1 .. n : path[i] \in Seq(Part)
          BY <1>8, <4>1, <4>2
        <5>2. /\ SubSeq(path, 1, n) \in Seq(Seq(Part))
              /\ Len(SubSeq(path, 1, n)) = IF 1 <= n THEN n - 1 + 1 ELSE 0
              /\ \A i \in 1 .. n - 1 + 1 : SubSeq(path, 1, n)[i] = path[1 + i - 1]
          BY <4>1, <5>1, SubSeqProperties
        <5> QED BY <4>1, <5>2
      <4> HIDE DEF front
      <4>5. /\ Append(front, path[n]) \in Seq(Seq(Part)) /\ Len(Append(front, path[n])) = n
            /\ \A i \in 1 .. n - 1 : Append(front, path[n])[i] = path[i]
            /\ Append(front, path[n])[n] = path[n]
        BY <4>1, <4>2, <4>3, AppendProperties
      <4>6. \A i \in 1 .. n : SubSeq(path, 1, n)[i] = Append(front, path[n])[i]
        <5>1. \A i \in 1 .. n : i = n \/ i \in 1 .. n - 1
          BY <4>1
        <5> QED BY <4>4, <4>5, <5>1
      <4> QED BY <4>4, <4>5, <4>6, SeqEqual DEF front
    <3>5. walked[1 .. n - 1] # SubSeq(path, 1, n - 1)
      BY <1>7, <2>1, <3>1, <3>3, <3>4
    <3>6. 1 .. n - 1 \in SUBSET D
      BY <1>8, <3>3
    <3> QED BY <3>1, <3>3, <3>5, <3>6
  <2> HIDE DEF Bad
  <2>2. Bad \subseteq SUBSET D
    BY DEF Bad
  <2>3. Bad = {}
    <3>1. IsFiniteSet(D)
      BY <1>2
    <3> HIDE DEF D
    <3> QED BY <2>1, <2>2, <3>1, SubsetInduction
  <2> QED BY <2>3 DEF Bad
<1>10. walked[D] = SubSeq(path, 1, Len(path))
  BY <1>8, <1>9
<1>11. SubSeq(path, 1, Len(path)) = path
  BY <1>8 DEF Path
<1> QED BY <1>1, <1>10, <1>11

-----------------------------------------------------------------------------
(* Nothing leads to a file by another name: there are no links, and no ".." *)
(* in what is not normalized.                                              *)
NoOtherNames ==
  /\ DOMAIN Link = {} /\ Plain(Root) /\ Plain(Entry) /\ Plain(Stdlib)
  /\ \A spec \in Specifier : spec.package # Up /\ (spec \in Embedded => Plain(spec.parts))

Place == {path \in Path : NoOtherNames => Plain(path)}

LEMMA IndexesPlaced ==
  ASSUME NEW dir \in Place
  PROVE  Indexes(dir) \in Seq(Place)
<1>1. /\ Indexes(dir) \in Seq(Path)
      /\ \A n \in DOMAIN Indexes(dir) : Indexes(dir)[n] \in Place
  BY IndexesFit DEF Place
<1> QED BY <1>1

LEMMA CandidatesPlaced ==
  ASSUME NEW path \in Path, Plain(path)
  PROVE  Candidates(path) \in Seq(Place)
<1>1. /\ Candidates(path) \in Seq(Path)
      /\ \A n \in DOMAIN Candidates(path) : Candidates(path)[n] \in Place
  BY CandidatesFit DEF Place
<1> QED BY <1>1

-----------------------------------------------------------------------------
(* The caches.  What each may hold, and what is true of it: found and      *)
(* absent have nothing in common and all fit, a remembered main field is   *)
(* the one of its package.json, and until a file is removed what was found *)
(* is there.                                                               *)
Partial(K, V) == UNION {[D -> V] : D \in SUBSET K}

IsAnswer(path) == path = None \/ IsPrefix(Stdlib, path) \/ IsFile(path)

Fits(S, n) == IsFiniteSet(S) /\ Cardinality(S) <= n

Small(c) ==
  /\ c.found \cap c.absent = {} /\ Fits(c.found \cup c.absent, 4 * CacheCap)
  /\ Fits(DOMAIN c.resolved, CacheCap) /\ Fits(DOMAIN c.mains, CacheCap)

MainsAreRead(c) ==
  \A dir \in DOMAIN c.mains : c.mains[dir] # None => dir \in DOMAIN Main /\ c.mains[dir] = Main[dir]

FoundIsThere(c) == \A p \in c.found : IsFile(p)
ResolvedIsThere(c) == \A key \in DOMAIN c.resolved : IsAnswer(c.resolved[key])

CacheShape ==
  [resolved : Partial(Specifier \X Path, Place), found : SUBSET Path,
   absent : SUBSET Path, mains : Partial(Path, Path \cup {None})]

Sound(c) ==
  /\ Small(c) /\ MainsAreRead(c)
  /\ ~removed => FoundIsThere(c) /\ ResolvedIsThere(c)

Caches == {c \in CacheShape : Sound(c)}

(* A set that has room takes one more, and one that has none is emptied.   *)
LEMMA OneMoreFits ==
  ASSUME NEW S, NEW n \in Nat, Fits(S, n), NEW x
  PROVE  x \in S \/ Cardinality(S) < n => Fits(S \cup {x}, n)
<1>1. Cardinality(S) \in Nat /\ IsFiniteSet(S \cup {x})
  BY FS_AddElement, FS_CardinalityType DEF Fits
<1>2. Cardinality(S \cup {x}) = IF x \in S THEN Cardinality(S) ELSE Cardinality(S) + 1
  BY FS_AddElement DEF Fits
<1>3. CASE x \in S
  <2>1. S \cup {x} = S
    BY <1>3
  <2> QED BY <2>1
<1>4. CASE x \notin S
  BY <1>1, <1>2, <1>4 DEF Fits
<1> QED BY <1>3, <1>4

LEMMA OneFits ==
  ASSUME NEW n \in Nat \ {0}, NEW x
  PROVE  Fits({x}, n)
<1>1. IsFiniteSet({x}) /\ Cardinality({x}) = 1
  BY FS_Singleton
<1> QED BY <1>1 DEF Fits

LEMMA CachedFits ==
  ASSUME NEW K, NEW V, NEW function \in Partial(K, V), Fits(DOMAIN function, CacheCap),
         NEW key \in K, NEW value \in V
  PROVE  /\ Cached(function, key, value) \in Partial(K, V)
         /\ Fits(DOMAIN Cached(function, key, value), CacheCap)
         /\ \A k \in DOMAIN Cached(function, key, value) :
              \/ k = key /\ Cached(function, key, value)[k] = value
              \/ k \in DOMAIN function /\ Cached(function, key, value)[k] = function[k]
<1> DEFINE new == Cached(function, key, value)
<1>1. PICK D \in SUBSET K : function \in [D -> V]
  BY DEF Partial
<1>2. CacheCap \in Nat \ {0}
  BY CapAssumption
<1>3. CASE Cardinality(D) < CacheCap
  <2>1. new = [k \in D \cup {key} |-> IF k = key THEN value ELSE function[k]]
    BY <1>1, <1>3 DEF Cached
  <2>2. Fits(D \cup {key}, CacheCap)
    <3>1. Fits(D, CacheCap)
      BY <1>1
    <3> QED BY <1>2, <1>3, <3>1, OneMoreFits
  <2>3. new \in [D \cup {key} -> V] /\ D \cup {key} \in SUBSET K
    <3> HIDE DEF new
    <3> QED BY <1>1, <2>1
  <2> HIDE DEF new
  <2>4. new \in Partial(K, V)
    BY <2>3 DEF Partial
  <2>5. DOMAIN new = D \cup {key} /\ \A k \in D \cup {key} : new[k] = IF k = key THEN value ELSE function[k]
    BY <2>1
  <2> QED BY <1>1, <2>2, <2>4, <2>5 DEF new
<1>4. CASE ~(Cardinality(D) < CacheCap)
  <2>1. new = [k \in {key} |-> value]
    BY <1>1, <1>4 DEF Cached
  <2>2. new \in [{key} -> V] /\ {key} \in SUBSET K
    <3> HIDE DEF new
    <3> QED BY <2>1
  <2> HIDE DEF new
  <2>3. new \in Partial(K, V)
    BY <2>2 DEF Partial
  <2> QED BY <1>2, <2>1, <2>3, OneFits DEF new
<1> QED BY <1>3, <1>4

LEMMA NoCacheFits ==
  /\ NoCache \in Caches
  /\ FoundIsThere(NoCache) /\ DOMAIN NoCache.mains = {}
<1>1. DOMAIN <<>> = {} /\ \A k \in DOMAIN <<>> : FALSE
  OBVIOUS
<1>2. /\ NoCache.resolved = <<>> /\ NoCache.found = {} /\ NoCache.absent = {} /\ NoCache.mains = <<>>
  BY DEF NoCache
<1>3. ASSUME NEW K, NEW V PROVE <<>> \in Partial(K, V)
  <2>1. <<>> \in [{} -> V]
    OBVIOUS
  <2> QED BY <2>1 DEF Partial
<1>4. NoCache \in CacheShape
  BY <1>3 DEF NoCache, CacheShape
<1>5. Fits({}, CacheCap) /\ Fits({}, 4 * CacheCap)
  BY CapAssumption, FS_EmptySet DEF Fits
<1>6. Small(NoCache)
  BY <1>1, <1>2, <1>5 DEF Small
<1>7. MainsAreRead(NoCache) /\ FoundIsThere(NoCache) /\ ResolvedIsThere(NoCache)
  BY <1>1, <1>2 DEF MainsAreRead, FoundIsThere, ResolvedIsThere
<1> QED BY <1>1, <1>2, <1>4, <1>6, <1>7 DEF Caches, Sound

(* A probe keeps the caches sound and what they say of resolutions and of  *)
(* main fields; what it takes to be there is there.                        *)
LEMMA ProbeKeeps ==
  ASSUME NEW c \in Caches, NEW path \in Path
  PROVE  /\ Probe(c, path) \in Caches
         /\ Probe(c, path).mains = c.mains /\ Probe(c, path).resolved = c.resolved
         /\ FoundIsThere(c) => FoundIsThere(Probe(c, path))
         /\ FoundIsThere(c) => (Exists(c, path) <=> IsFile(path))
<1> DEFINE known == c.found \cup c.absent
           there == path \in known \/ Cardinality(known) < 4 * CacheCap
           found == IF there THEN c.found ELSE {}
           absent == IF there THEN c.absent ELSE {}
           new == Probe(c, path)
<1>1. /\ c \in CacheShape /\ Small(c) /\ MainsAreRead(c)
      /\ ~removed => FoundIsThere(c) /\ ResolvedIsThere(c)
  BY DEF Caches, Sound
<1>2. c = [resolved |-> c.resolved, found |-> c.found, absent |-> c.absent, mains |-> c.mains]
  BY <1>1 DEF CacheShape
<1>3. new = [resolved |-> c.resolved, mains |-> c.mains,
             found |-> IF Exists(c, path) THEN found \cup {path} ELSE found,
             absent |-> IF Exists(c, path) THEN absent \ {path} ELSE absent \cup {path}]
  <2>1. CASE there
    BY <1>2, <2>1 DEF Probe
  <2>2. CASE ~there
    BY <1>2, <2>2 DEF Probe
  <2> QED BY <2>1, <2>2
<1>4. /\ new.resolved = c.resolved /\ new.mains = c.mains
      /\ new.found = IF Exists(c, path) THEN found \cup {path} ELSE found
      /\ new.absent = IF Exists(c, path) THEN absent \ {path} ELSE absent \cup {path}
  <2> HIDE DEF new, found, absent
  <2> QED BY <1>3
<1>5. c.resolved \in Partial(Specifier \X Path, Place) /\ c.mains \in Partial(Path, Path \cup {None})
  BY <1>1 DEF CacheShape
<1>6. c.found \subseteq Path /\ c.absent \subseteq Path
  BY <1>1 DEF CacheShape
<1>7. new \in CacheShape
  <2>1. new.found \in SUBSET Path /\ new.absent \in SUBSET Path
    <3> HIDE DEF new, there
    <3> QED BY <1>4, <1>6
  <2> HIDE DEF found, absent, new
  <2>2. new = [resolved |-> c.resolved, found |-> new.found, absent |-> new.absent, mains |-> c.mains]
    BY <1>3, <1>4
  <2> QED BY <1>5, <2>1, <2>2 DEF CacheShape
<1>8. Small(new)
  <2>1. 4 * CacheCap \in Nat \ {0}
    BY CapAssumption
  <2>2. ~Exists(c, path) => path \notin c.found
    BY DEF Exists
  <2>3. new.found \cap new.absent = {}
    <3> HIDE DEF new, there
    <3> QED BY <1>1, <1>4, <2>2 DEF Small
  <2>4. new.found \cup new.absent = (IF there THEN known ELSE {}) \cup {path}
    <3> HIDE DEF new, there
    <3> QED BY <1>4
  <2>5. Fits((IF there THEN known ELSE {}) \cup {path}, 4 * CacheCap)
    <3>1. Fits(known, 4 * CacheCap)
      BY <1>1 DEF Small
    <3>2. CASE there
      BY <2>1, <3>1, <3>2, OneMoreFits
    <3>3. CASE ~there
      <4>1. {} \cup {path} = {path}
        OBVIOUS
      <4>2. Fits({path}, 4 * CacheCap)
        BY <2>1, OneFits
      <4> QED BY <3>3, <4>1, <4>2
    <3> QED BY <3>2, <3>3
  <2> HIDE DEF new, known, there
  <2> QED BY <1>1, <1>4, <2>3, <2>4, <2>5 DEF Small
<1>9. /\ FoundIsThere(c) => FoundIsThere(new)
      /\ FoundIsThere(c) => (Exists(c, path) <=> IsFile(path))
  <2>1. FoundIsThere(c) => (Exists(c, path) <=> IsFile(path))
    BY DEF Exists, FoundIsThere
  <2>2. \A p \in new.found : p \in c.found \/ (p = path /\ Exists(c, path))
    <3> HIDE DEF new, there
    <3> QED BY <1>4
  <2> HIDE DEF new
  <2> QED BY <2>1, <2>2 DEF FoundIsThere
<1>10. MainsAreRead(new) /\ (ResolvedIsThere(c) => ResolvedIsThere(new))
  <2> HIDE DEF new
  <2> QED BY <1>1, <1>4 DEF MainsAreRead, ResolvedIsThere
<1> HIDE DEF new
<1> QED BY <1>1, <1>4, <1>7, <1>8, <1>9, <1>10 DEF Caches, Sound, new

-----------------------------------------------------------------------------
(* Searches.  An outcome is sound caches and, until a file is removed, an  *)
(* answer; a search of files leaves the main fields alone.                 *)
Outs == {a \in [cache : Caches, path : Place \cup {None}] : removed \/ IsAnswer(a.path)}

Tried(c) == {a \in Outs : /\ a.cache.mains = c.mains
                          /\ FoundIsThere(c) => FoundIsThere(a.cache)}

NoFile(paths) == \A i \in DOMAIN paths : ~IsFile(paths[i])

(* A search of files finds nothing only if none of them is there, and finds *)
(* nothing then if what the caches found is there.                         *)
LEMMA FirstFileFits ==
  ASSUME NEW c \in Caches, NEW paths \in Seq(Place), NEW a \in FirstFile(c, paths)
  PROVE  /\ a \in Tried(c)
         /\ a.path = None => NoFile(paths)
         /\ FoundIsThere(c) /\ NoFile(paths) => a.path = None
<1> DEFINE D == DOMAIN paths
           Next1(b, p) == IF b.path # None THEN b
                          ELSE Outcome(Probe(b.cache, p), IF Exists(b.cache, p) THEN p ELSE None)
           After(s, T) == {Next1(b, paths[Max(s)]) : b \in T}
           Start == {Outcome(c, None)}
           Good(iter) == iter = [s \in SUBSET D |-> IF s = {} THEN Start ELSE After(s, iter[s \ {Max(s)}])]
           tried == CHOOSE iter : Good(iter)
           X == SUBSET Tried(c)
           Held(s) == {b \in Tried(c) : /\ b.path = None => \A i \in s : ~IsFile(paths[i])
                                        /\ FoundIsThere(c) /\ b.path # None => \E i \in s : IsFile(paths[i])}
<1>1. FirstFile(c, paths) = tried[D]
  BY DEF FirstFile, FoldLeft, MapThenFoldSet
<1>2. /\ IsFiniteSet(D) /\ Picks([s \in SUBSET D |-> Max(s)], D)
      /\ \A s \in SUBSET D : s # {} => Max(s) \in s /\ paths[Max(s)] \in Place
  BY MaxPicks
<1>3. Outcome(c, None) \in Tried(c) /\ Outcome(c, None).path = None
  BY DEF Tried, Outs, Outcome, IsAnswer
<1>4. ASSUME NEW b \in Tried(c), NEW p \in Place
      PROVE  /\ Next1(b, p) \in Tried(c)
             /\ b.path # None => Next1(b, p) = b
             /\ b.path = None /\ Next1(b, p).path = None => ~IsFile(p)
             /\ b.path = None /\ Next1(b, p).path # None /\ FoundIsThere(c) => IsFile(p)
  <2>1. CASE b.path # None
    BY <2>1
  <2>2. CASE b.path = None
    <3> DEFINE new == Next1(b, p)
    <3>1. b.cache \in Caches /\ b.cache.mains = c.mains /\ (FoundIsThere(c) => FoundIsThere(b.cache))
      BY DEF Tried, Outs
    <3>2. /\ Probe(b.cache, p) \in Caches /\ Probe(b.cache, p).mains = c.mains
          /\ FoundIsThere(c) => FoundIsThere(Probe(b.cache, p))
          /\ FoundIsThere(b.cache) => (Exists(b.cache, p) <=> IsFile(p))
      BY <3>1, ProbeKeeps DEF Place
    <3>3. new = [cache |-> Probe(b.cache, p), path |-> IF Exists(b.cache, p) THEN p ELSE None]
      BY <2>2 DEF Outcome
    <3>4. new.cache = Probe(b.cache, p) /\ new.path = IF Exists(b.cache, p) THEN p ELSE None
      BY <3>3
    <3>5. removed \/ IsAnswer(new.path)
      <4>1. ~removed => FoundIsThere(b.cache)
        BY <3>1 DEF Caches, Sound
      <4> HIDE DEF new
      <4> QED BY <3>2, <3>4, <4>1 DEF IsAnswer
    <3>6. new \in [cache : Caches, path : Place \cup {None}]
      BY <3>2, <3>3
    <3>7. new \in Tried(c)
      <4> HIDE DEF new
      <4> QED BY <3>2, <3>4, <3>5, <3>6 DEF Tried, Outs
    <3>8. IsFile(p) => Exists(b.cache, p)
      BY DEF Exists
    <3>9. p # None
      BY PathsAssumption DEF Place
    <3> HIDE DEF new
    <3> QED BY <2>2, <3>1, <3>2, <3>4, <3>7, <3>8, <3>9 DEF new
  <2> QED BY <2>1, <2>2
<1> HIDE DEF Next1
<1>5. \E iter : Good(iter)
  <2> DEFINE step == [x \in (SUBSET D) \X X |-> IF x[1] = {} THEN Start ELSE After(x[1], x[2])]
             pick == [s \in SUBSET D |-> Max(s)]
  <2>0. Start \in X
    BY <1>3
  <2>1. step \in [(SUBSET D) \X X -> X]
    <3>1. ASSUME NEW s \in SUBSET D, NEW T \in X PROVE s # {} => After(s, T) \in X
      BY <1>2, <1>4
    <3> HIDE DEF After, Start, X
    <3> QED BY <2>0, <3>1
  <2>2. PICK h \in [SUBSET D -> X] : Unfolds(h, D, Start, pick, step)
    <3>1. IsFiniteSet(D) /\ Picks(pick, D)
      BY <1>2
    <3> HIDE DEF D, X, step, pick, Start
    <3> QED BY <2>0, <2>1, <3>1, SubsetRecursion
  <2>3. ASSUME NEW s \in SUBSET D, s # {} PROVE h[s] = After(s, h[s \ {Max(s)}])
    <3>1. s \ {Max(s)} \in SUBSET D /\ pick[s] = Max(s)
      BY <2>3
    <3>2. <<s, h[s \ {Max(s)}]>> \in (SUBSET D) \X X
      BY <3>1
    <3>3. h[s] = step[<<s, h[s \ {Max(s)}]>>]
      BY <2>2, <2>3, <3>1 DEF Unfolds
    <3> HIDE DEF D, X, After, pick, Start
    <3> QED BY <2>3, <3>2, <3>3
  <2>4. Good(h)
    <3> HIDE DEF After, step, pick, D, X, Start
    <3> QED BY <2>2, <2>3 DEF Unfolds
  <2> QED BY <2>4
<1>6. Good(tried)
  <2> HIDE DEF Good
  <2> QED BY <1>5
<1> HIDE DEF tried
<1>7. ASSUME NEW s \in SUBSET D
      PROVE  tried[s] = IF s = {} THEN Start ELSE After(s, tried[s \ {Max(s)}])
  <2> HIDE DEF D, After, Start
  <2> QED BY <1>6
<1>8. ASSUME NEW s \in SUBSET D, s # {}, tried[s \ {Max(s)}] \subseteq Held(s \ {Max(s)})
      PROVE  tried[s] \subseteq Held(s)
  <2>1. Max(s) \in s /\ paths[Max(s)] \in Place
    BY <1>2, <1>8
  <2>0. tried[s] = {Next1(b, paths[Max(s)]) : b \in tried[s \ {Max(s)}]}
    BY <1>7, <1>8
  <2> SUFFICES ASSUME NEW b \in tried[s \ {Max(s)}]
               PROVE  Next1(b, paths[Max(s)]) \in Held(s)
    <3> HIDE DEF Held
    <3> QED BY <2>0
  <2>2. b \in Held(s \ {Max(s)})
    BY <1>8
  <2>3. /\ Next1(b, paths[Max(s)]) \in Tried(c)
        /\ b.path # None => Next1(b, paths[Max(s)]) = b
        /\ b.path = None /\ Next1(b, paths[Max(s)]).path = None => ~IsFile(paths[Max(s)])
        /\ b.path = None /\ Next1(b, paths[Max(s)]).path # None /\ FoundIsThere(c) => IsFile(paths[Max(s)])
    BY <1>4, <2>1, <2>2
  <2>4. \A i \in s : i = Max(s) \/ i \in s \ {Max(s)}
    OBVIOUS
  <2> QED BY <2>1, <2>2, <2>3, <2>4
<1>9. tried[{}] \subseteq Held({})
  BY <1>3, <1>7
<1>10. {s \in SUBSET D : ~(tried[s] \subseteq Held(s))} = {}
  <2> DEFINE Bad == {s \in SUBSET D : ~(tried[s] \subseteq Held(s))}
  <2> HIDE DEF Held, Start, After
  <2>1. ASSUME NEW s \in Bad PROVE \E r \in Bad : r \subseteq s /\ r # s
    <3>1. s # {}
      BY <1>9
    <3>2. Max(s) \in s /\ s \ {Max(s)} \in SUBSET D
      BY <1>2, <2>1, <3>1
    <3>3. s \ {Max(s)} \in Bad
      BY <1>8, <3>1, <3>2
    <3> QED BY <3>2, <3>3
  <2> HIDE DEF Bad
  <2>2. Bad \subseteq SUBSET D
    BY DEF Bad
  <2>3. Bad = {}
    <3>1. IsFiniteSet(D)
      BY <1>2
    <3> HIDE DEF D
    <3> QED BY <2>1, <2>2, <3>1, SubsetInduction
  <2> QED BY <2>3 DEF Bad
<1>11. a \in Held(D)
  <2> HIDE DEF Held
  <2> QED BY <1>1, <1>10
<1> QED BY <1>11 DEF NoFile

(* The files of a relative or absolute search are not there.               *)
NoneAt(dir, parts) ==
  LET path == Normalize(dir \o parts)
  IN  path # None => NoFile(Candidates(path))

LEMMA ResolvePathFits ==
  ASSUME NEW c \in Caches, NEW dir \in Path, NEW parts \in Path, NEW a \in ResolvePath(c, dir, parts)
  PROVE  /\ a \in Tried(c)
         /\ a.path = None => NoneAt(dir, parts)
         /\ FoundIsThere(c) /\ NoneAt(dir, parts) => a.path = None
<1> DEFINE path == Normalize(dir \o parts)
<1>1. path \in {p \in Path : Plain(p)} \cup {None}
  <2>1. dir \o parts \in Path
    BY ConcatProperties DEF Path
  <2> QED BY <2>1, NormalizeFits
<1> HIDE DEF path
<1>2. CASE path = None
  <2>1. a = Outcome(c, None)
    BY <1>2 DEF ResolvePath, path
  <2>2. Outcome(c, None) \in Tried(c) /\ Outcome(c, None).path = None
    BY DEF Tried, Outs, Outcome, IsAnswer
  <2> QED BY <1>2, <2>1, <2>2 DEF NoneAt, path
<1>3. CASE path # None
  <2>1. a \in FirstFile(c, Candidates(path))
    BY <1>3 DEF ResolvePath, path
  <2>2. Candidates(path) \in Seq(Place)
    BY <1>1, <1>3, CandidatesPlaced
  <2>3. NoneAt(dir, parts) <=> NoFile(Candidates(path))
    BY <1>3 DEF NoneAt, path
  <2> QED BY <2>1, <2>2, <2>3, FirstFileFits
<1> QED BY <1>2, <1>3

(* A missing main field that is remembered is still missing, and one that  *)
(* is remembered is still there.                                           *)
Json(dir) == Append(dir, PackageJson)

NotStale(c) ==
  \A dir \in DOMAIN c.mains : c.mains[dir] = None => ~(IsFile(Json(dir)) /\ dir \in DOMAIN Main)

Fresh(c) ==
  /\ FoundIsThere(c)
  /\ \A dir \in DOMAIN c.mains : c.mains[dir] # None => IsFile(Json(dir))

LEMMA SameMains ==
  ASSUME NEW c, NEW a \in Tried(c)
  PROVE  /\ a \in Outs /\ a.cache \in Caches
         /\ NotStale(c) => NotStale(a.cache)
         /\ Fresh(c) => Fresh(a.cache)
BY DEF Tried, Outs, NotStale, Fresh

LEMMA ReadMainFits ==
  ASSUME NEW c \in Caches, NEW dir \in Path, NEW m, m = ReadMain(c, dir)
  PROVE  /\ m.cache \in Caches
         /\ m.path = None \/ (dir \in DOMAIN Main /\ m.path = Main[dir])
         /\ m.path = None => m \in Outs
         /\ NotStale(c) => /\ NotStale(m.cache)
                           /\ m.path = None => ~(IsFile(Json(dir)) /\ dir \in DOMAIN Main)
         /\ Fresh(c) => Fresh(m.cache) /\ (m.path # None => IsFile(Json(dir)))
<1>1. /\ c \in CacheShape /\ Small(c) /\ MainsAreRead(c)
      /\ ~removed => FoundIsThere(c) /\ ResolvedIsThere(c)
  BY DEF Caches, Sound
<1>2. CASE dir \in DOMAIN c.mains
  <2>1. m = [cache |-> c, path |-> c.mains[dir]]
    BY <1>2 DEF ReadMain, Outcome
  <2>2. m.cache = c /\ m.path = c.mains[dir]
    BY <2>1
  <2>3. m.path = None => m \in Outs
    BY <2>1 DEF Outs, IsAnswer
  <2> HIDE <2>1
  <2> QED BY <1>1, <1>2, <2>2, <2>3 DEF MainsAreRead, NotStale, Fresh
<1>3. CASE dir \notin DOMAIN c.mains
  <2> DEFINE main == IF Exists(c, Json(dir)) /\ IsFile(Json(dir)) /\ dir \in DOMAIN Main
                     THEN Main[dir] ELSE None
             d == Probe(c, Json(dir))
             mains == Cached(d.mains, dir, main)
             new == [d EXCEPT !.mains = mains]
  <2>1. Json(dir) \in Path
    BY NamesFit, AppendFits DEF Json, Path
  <2>2. /\ d \in Caches /\ d.mains = c.mains
        /\ FoundIsThere(c) => FoundIsThere(d)
    BY <2>1, ProbeKeeps
  <2>3. m = [cache |-> new, path |-> main]
    BY <1>3 DEF ReadMain, Outcome, Json
  <2>4. main \in Path \cup {None} /\ (main # None => dir \in DOMAIN Main /\ main = Main[dir])
    BY PathsAssumption
  <2>5. main # None => IsFile(Json(dir))
    OBVIOUS
  <2>6. main = None => ~(IsFile(Json(dir)) /\ dir \in DOMAIN Main)
    BY PathsAssumption DEF Exists
  <2> HIDE DEF d, main
  <2>7. /\ d \in CacheShape /\ Small(d) /\ MainsAreRead(d)
        /\ ~removed => FoundIsThere(d) /\ ResolvedIsThere(d)
    BY <2>2 DEF Caches, Sound
  <2>8. /\ mains \in Partial(Path, Path \cup {None}) /\ Fits(DOMAIN mains, CacheCap)
        /\ \A k \in DOMAIN mains : \/ k = dir /\ mains[k] = main
                                   \/ k \in DOMAIN d.mains /\ mains[k] = d.mains[k]
    <3>1. d.mains \in Partial(Path, Path \cup {None}) /\ Fits(DOMAIN d.mains, CacheCap)
      BY <2>7 DEF CacheShape, Small
    <3>2. PICK V : V = Path \cup {None}
      OBVIOUS
    <3> HIDE DEF mains
    <3>3. mains = Cached(d.mains, dir, main)
      BY DEF mains
    <3> QED BY <2>4, <3>1, <3>2, <3>3, CachedFits
  <2> HIDE DEF mains
  <2>9. /\ new \in CacheShape
        /\ new.mains = mains /\ new.found = d.found /\ new.absent = d.absent /\ new.resolved = d.resolved
    BY <2>7, <2>8 DEF CacheShape
  <2> HIDE DEF new
  <2>10. Small(new) /\ (FoundIsThere(d) => FoundIsThere(new)) /\ (ResolvedIsThere(d) => ResolvedIsThere(new))
    BY <2>7, <2>8, <2>9 DEF Small, FoundIsThere, ResolvedIsThere
  <2>11. MainsAreRead(new)
    BY <2>4, <2>7, <2>8, <2>9 DEF MainsAreRead
  <2>12. new \in Caches
    BY <2>7, <2>9, <2>10, <2>11 DEF Caches, Sound
  <2>13. NotStale(c) => NotStale(new)
    BY <2>2, <2>6, <2>8, <2>9 DEF NotStale
  <2>14. Fresh(c) => Fresh(new)
    BY <2>2, <2>5, <2>8, <2>9, <2>10 DEF Fresh
  <2>15. m.cache = new /\ m.path = main
    BY <2>3
  <2>16. m.path = None => m \in Outs
    BY <2>3, <2>12 DEF Outs, IsAnswer
  <2> HIDE <2>3
  <2> QED BY <2>4, <2>5, <2>6, <2>12, <2>13, <2>14, <2>15, <2>16
<1> QED BY <1>2, <1>3

(* What a search of outcome a, from the caches c, says of whether there is *)
(* nothing to find.                                                        *)
Searched(c, a, nothing) ==
  /\ a \in Outs
  /\ NotStale(c) => NotStale(a.cache) /\ (a.path = None => nothing)
  /\ Fresh(c) => Fresh(a.cache) /\ (nothing => a.path = None)

NoMain(dir) ==
  /\ NoFile(Indexes(dir))
  /\ IsFile(Json(dir)) /\ dir \in DOMAIN Main => NoneAt(dir, Main[dir])

LEMMA ResolveMainFits ==
  ASSUME NEW c \in Caches, NEW dir \in Place, NEW a \in ResolveMain(c, dir)
  PROVE  Searched(c, a, NoMain(dir))
<1>1. PICK m : m = ReadMain(c, dir)
  OBVIOUS
<1>2. PICK b : /\ b \in IF m.path = None THEN {m} ELSE ResolvePath(m.cache, dir, m.path)
               /\ a \in IF b.path # None THEN {b} ELSE FirstFile(b.cache, Indexes(dir))
  BY <1>1 DEF ResolveMain
<1>3. /\ m.cache \in Caches
      /\ m.path = None \/ (dir \in DOMAIN Main /\ m.path = Main[dir])
      /\ m.path = None => m \in Outs
      /\ NotStale(c) => /\ NotStale(m.cache)
                        /\ m.path = None => ~(IsFile(Json(dir)) /\ dir \in DOMAIN Main)
      /\ Fresh(c) => Fresh(m.cache) /\ (m.path # None => IsFile(Json(dir)))
  BY <1>1, ReadMainFits DEF Place
<1>4. /\ b \in Outs /\ b.cache \in Caches
      /\ NotStale(c) => NotStale(b.cache)
      /\ Fresh(c) => Fresh(b.cache)
      /\ NotStale(c) /\ b.path = None => (IsFile(Json(dir)) /\ dir \in DOMAIN Main => NoneAt(dir, Main[dir]))
      /\ Fresh(c) /\ NoMain(dir) => b.path = None
  <2>1. CASE m.path = None
    <3>1. b = m
      BY <1>2, <2>1
    <3> QED BY <1>3, <2>1, <3>1
  <2>2. CASE m.path # None
    <3>1. m.path \in Path /\ m.path = Main[dir] /\ dir \in DOMAIN Main
      BY <1>3, <2>2, PathsAssumption
    <3>2. b \in ResolvePath(m.cache, dir, m.path)
      BY <1>2, <2>2
    <3>3. /\ b \in Tried(m.cache)
          /\ b.path = None => NoneAt(dir, m.path)
          /\ FoundIsThere(m.cache) /\ NoneAt(dir, m.path) => b.path = None
      BY <1>3, <3>1, <3>2, ResolvePathFits DEF Place
    <3>4. /\ b \in Outs /\ b.cache \in Caches
          /\ NotStale(m.cache) => NotStale(b.cache)
          /\ Fresh(m.cache) => Fresh(b.cache)
      BY <3>3, SameMains
    <3> QED BY <1>3, <2>2, <3>1, <3>3, <3>4 DEF NoMain, Fresh
  <2> QED BY <2>1, <2>2
<1>5. CASE b.path # None
  <2>1. a = b
    BY <1>2, <1>5
  <2> QED BY <1>4, <1>5, <2>1 DEF Searched
<1>6. CASE b.path = None
  <2>1. a \in FirstFile(b.cache, Indexes(dir)) /\ Indexes(dir) \in Seq(Place)
    BY <1>2, <1>6, IndexesPlaced
  <2>2. /\ a \in Tried(b.cache)
        /\ a.path = None => NoFile(Indexes(dir))
        /\ FoundIsThere(b.cache) /\ NoFile(Indexes(dir)) => a.path = None
    BY <1>4, <2>1, FirstFileFits
  <2>3. /\ a \in Outs
        /\ NotStale(b.cache) => NotStale(a.cache)
        /\ Fresh(b.cache) => Fresh(a.cache)
    BY <2>2, SameMains
  <2> QED BY <1>4, <1>6, <2>2, <2>3 DEF Searched, NoMain, Fresh
<1> QED BY <1>5, <1>6

(* The packages of a name, from the directory up.                          *)
PackageAt(spec, dir, up) == SubSeq(dir, 1, Len(dir) - up) \o <<NodeModules, spec.package>>

WithinPackage(c, spec, package) ==
  IF spec.parts = <<>> THEN ResolveMain(c, package) ELSE ResolvePath(c, package, spec.parts)

NothingIn(spec, package) ==
  IF spec.parts = <<>> THEN NoMain(package) ELSE NoneAt(package, spec.parts)

NothingUp(spec, dir, up) ==
  DirExists(PackageAt(spec, dir, up)) => NothingIn(spec, PackageAt(spec, dir, up))

LEMMA WithinFits ==
  ASSUME NEW c \in Caches, NEW spec \in Specifier, NEW package \in Place,
         NEW a \in WithinPackage(c, spec, package)
  PROVE  Searched(c, a, NothingIn(spec, package))
<1>1. CASE spec.parts = <<>>
  <2>1. a \in ResolveMain(c, package)
    BY <1>1 DEF WithinPackage
  <2>2. Searched(c, a, NoMain(package))
    BY <2>1, ResolveMainFits
  <2> QED BY <1>1, <2>2 DEF Searched, NothingIn
<1>2. CASE spec.parts # <<>>
  <2>1. a \in ResolvePath(c, package, spec.parts) /\ spec.parts \in Path
    BY <1>2, PathsAssumption DEF WithinPackage
  <2>2. /\ a \in Tried(c)
        /\ a.path = None => NoneAt(package, spec.parts)
        /\ FoundIsThere(c) /\ NoneAt(package, spec.parts) => a.path = None
    BY <2>1, ResolvePathFits DEF Place
  <2>3. /\ a \in Outs
        /\ NotStale(c) => NotStale(a.cache)
        /\ Fresh(c) => Fresh(a.cache)
    BY <2>2, SameMains
  <2> QED BY <1>2, <2>2, <2>3 DEF Searched, NothingIn, Fresh
<1> QED BY <1>1, <1>2

LEMMA PackageFits ==
  ASSUME NEW spec \in Specifier, NEW dir \in Place, NEW up \in 0 .. Len(dir)
  PROVE  PackageAt(spec, dir, up) \in Place
<1>1. Len(dir) \in Nat /\ \A i \in 1 .. Len(dir) : dir[i] \in Seq(Part)
  BY DEF Path, Place
<1>2. 1 \in Int /\ Len(dir) - up \in Int /\ \A i \in 1 .. Len(dir) - up : dir[i] \in Seq(Part)
  BY <1>1
<1>3. SubSeq(dir, 1, Len(dir) - up) \in Path
  BY <1>2, SubSeqProperties DEF Path
<1>4. <<NodeModules, spec.package>> \in Path
  BY NamesFit, PathsAssumption, PairFits DEF Path
<1>5. ASSUME NoOtherNames
      PROVE  Plain(SubSeq(dir, 1, Len(dir) - up)) /\ Plain(<<NodeModules, spec.package>>)
  <2>1. Len(dir) - up \in 0 .. Len(dir)
    BY <1>1
  <2>2. Plain(SubSeq(dir, 1, Len(dir) - up))
    BY <1>5, <2>1, PlainFits DEF Place
  <2>3. NodeModules # Up /\ spec.package # Up
    BY <1>5 DEF NoOtherNames, NodeModules, Up
  <2>4. PICK package : package = spec.package
    OBVIOUS
  <2>5. Plain(<<NodeModules, package>>)
    BY <2>3, <2>4 DEF Plain
  <2> QED BY <2>2, <2>4, <2>5
<1>6. PackageAt(spec, dir, up) \in Path
  BY <1>3, <1>4, ConcatProperties DEF PackageAt, Path
<1>7. NoOtherNames => Plain(PackageAt(spec, dir, up))
  BY <1>3, <1>4, <1>5, PlainFits DEF PackageAt
<1> QED BY <1>6, <1>7 DEF Place

LEMMA ResolveNodeModulesFits ==
  ASSUME NEW c \in Caches, NEW spec \in Specifier, NEW dir \in Place,
         NEW a \in ResolveNodeModules(c, spec, dir)
  PROVE  Searched(c, a, \A up \in 0 .. Len(dir) : NothingUp(spec, dir, up))
<1> DEFINE ups == [n \in 1 .. Len(dir) + 1 |-> n - 1]
           D == DOMAIN ups
           Next1(b, up) == IF b.path # None \/ ~DirExists(PackageAt(spec, dir, up)) THEN {b}
                           ELSE WithinPackage(b.cache, spec, PackageAt(spec, dir, up))
           After(s, T) == UNION {Next1(b, ups[Max(s)]) : b \in T}
           Start == {Outcome(c, None)}
           Good(iter) == iter = [s \in SUBSET D |-> IF s = {} THEN Start ELSE After(s, iter[s \ {Max(s)}])]
           tried == CHOOSE iter : Good(iter)
           X == SUBSET Outs
           Held(s) == {b \in Outs :
                         /\ NotStale(c) => /\ NotStale(b.cache)
                                           /\ b.path = None => \A i \in s : NothingUp(spec, dir, ups[i])
                         /\ Fresh(c) => /\ Fresh(b.cache)
                                        /\ b.path # None => \E i \in s : ~NothingUp(spec, dir, ups[i])}
<1>1. ResolveNodeModules(c, spec, dir) = tried[D]
  BY DEF ResolveNodeModules, FoldLeft, MapThenFoldSet, PackageAt, WithinPackage
<1>2. /\ IsFiniteSet(D) /\ Picks([s \in SUBSET D |-> Max(s)], D)
      /\ \A s \in SUBSET D : s # {} => Max(s) \in s /\ ups[Max(s)] \in 0 .. Len(dir)
  <2>1. Len(dir) \in Nat
    BY DEF Path, Place
  <2>2. ups \in Seq(0 .. Len(dir))
    BY <2>1
  <2> HIDE DEF ups
  <2> QED BY <2>2, MaxPicks
<1>3. Outcome(c, None) \in Outs /\ Outcome(c, None).path = None /\ Outcome(c, None).cache = c
  BY DEF Outs, Outcome, IsAnswer
<1>4. ASSUME NEW b \in Outs, NEW up \in 0 .. Len(dir), NEW o \in Next1(b, up)
      PROVE  /\ o \in Outs
             /\ b.path # None => o = b
             /\ b.path = None /\ NotStale(b.cache) =>
                  NotStale(o.cache) /\ (o.path = None => NothingUp(spec, dir, up))
             /\ b.path = None /\ Fresh(b.cache) =>
                  Fresh(o.cache) /\ (o.path # None => ~NothingUp(spec, dir, up))
  <2> DEFINE package == PackageAt(spec, dir, up)
  <2>1. CASE b.path # None
    <3>1. o = b
      BY <2>1
    <3> QED BY <2>1, <3>1
  <2>2. CASE b.path = None /\ ~DirExists(package)
    <3>1. o = b
      BY <2>2
    <3> QED BY <2>2, <3>1 DEF NothingUp
  <2>3. CASE b.path = None /\ DirExists(package)
    <3>1. package \in Place /\ b.cache \in Caches
      BY PackageFits DEF Outs
    <3>2. o \in WithinPackage(b.cache, spec, package)
      BY <2>3
    <3> HIDE DEF package
    <3>3. Searched(b.cache, o, NothingIn(spec, package))
      BY <3>1, <3>2, WithinFits
    <3>4. NothingUp(spec, dir, up) <=> NothingIn(spec, package)
      BY <2>3 DEF NothingUp, package
    <3> QED BY <2>3, <3>3, <3>4 DEF Searched
  <2> QED BY <2>1, <2>2, <2>3
<1> HIDE DEF Next1, ups
<1>5. \E iter : Good(iter)
  <2> DEFINE step == [x \in (SUBSET D) \X X |-> IF x[1] = {} THEN Start ELSE After(x[1], x[2])]
             pick == [s \in SUBSET D |-> Max(s)]
  <2>0. Start \in X
    BY <1>3
  <2>1. step \in [(SUBSET D) \X X -> X]
    <3>1. ASSUME NEW s \in SUBSET D, NEW T \in X PROVE s # {} => After(s, T) \in X
      BY <1>2, <1>4
    <3> HIDE DEF After, Start, X
    <3> QED BY <2>0, <3>1
  <2>2. PICK h \in [SUBSET D -> X] : Unfolds(h, D, Start, pick, step)
    <3>1. IsFiniteSet(D) /\ Picks(pick, D)
      BY <1>2
    <3> HIDE DEF D, X, step, pick, Start
    <3> QED BY <2>0, <2>1, <3>1, SubsetRecursion
  <2>3. ASSUME NEW s \in SUBSET D, s # {} PROVE h[s] = After(s, h[s \ {Max(s)}])
    <3>1. s \ {Max(s)} \in SUBSET D /\ pick[s] = Max(s)
      BY <2>3
    <3>2. <<s, h[s \ {Max(s)}]>> \in (SUBSET D) \X X
      BY <3>1
    <3>3. h[s] = step[<<s, h[s \ {Max(s)}]>>]
      BY <2>2, <2>3, <3>1 DEF Unfolds
    <3> HIDE DEF D, X, After, pick, Start
    <3> QED BY <2>3, <3>2, <3>3
  <2>4. Good(h)
    <3> HIDE DEF After, step, pick, D, X, Start
    <3> QED BY <2>2, <2>3 DEF Unfolds
  <2> QED BY <2>4
<1>6. Good(tried)
  <2> HIDE DEF Good
  <2> QED BY <1>5
<1> HIDE DEF tried
<1>7. ASSUME NEW s \in SUBSET D
      PROVE  tried[s] = IF s = {} THEN Start ELSE After(s, tried[s \ {Max(s)}])
  <2> HIDE DEF D, After, Start
  <2> QED BY <1>6
<1>8. ASSUME NEW s \in SUBSET D, s # {}, tried[s \ {Max(s)}] \subseteq Held(s \ {Max(s)}),
             NEW o \in tried[s]
      PROVE  o \in Held(s)
  <2>1. Max(s) \in s /\ ups[Max(s)] \in 0 .. Len(dir)
    BY <1>2, <1>8
  <2>0. tried[s] = UNION {Next1(b, ups[Max(s)]) : b \in tried[s \ {Max(s)}]}
    BY <1>7, <1>8
  <2>2. PICK b \in tried[s \ {Max(s)}] : o \in Next1(b, ups[Max(s)])
    <3> HIDE DEF Held
    <3> QED BY <1>8, <2>0
  <2>3. b \in Held(s \ {Max(s)})
    BY <1>8
  <2>4. /\ o \in Outs
        /\ b.path # None => o = b
        /\ b.path = None /\ NotStale(b.cache) =>
             NotStale(o.cache) /\ (o.path = None => NothingUp(spec, dir, ups[Max(s)]))
        /\ b.path = None /\ Fresh(b.cache) =>
             Fresh(o.cache) /\ (o.path # None => ~NothingUp(spec, dir, ups[Max(s)]))
    BY <1>4, <2>1, <2>2, <2>3
  <2>5. \A i \in s : i = Max(s) \/ i \in s \ {Max(s)}
    OBVIOUS
  <2> QED BY <2>1, <2>3, <2>4, <2>5
<1>9. tried[{}] \subseteq Held({})
  BY <1>3, <1>7
<1>10. {s \in SUBSET D : ~(tried[s] \subseteq Held(s))} = {}
  <2> DEFINE Bad == {s \in SUBSET D : ~(tried[s] \subseteq Held(s))}
  <2> HIDE DEF Held, Start, After
  <2>1. ASSUME NEW s \in Bad PROVE \E r \in Bad : r \subseteq s /\ r # s
    <3>1. s # {}
      BY <1>9
    <3>2. Max(s) \in s /\ s \ {Max(s)} \in SUBSET D
      BY <1>2, <2>1, <3>1
    <3>3. s \ {Max(s)} \in Bad
      BY <1>8, <3>1, <3>2
    <3> QED BY <3>2, <3>3
  <2> HIDE DEF Bad
  <2>2. Bad \subseteq SUBSET D
    BY DEF Bad
  <2>3. Bad = {}
    <3>1. IsFiniteSet(D)
      BY <1>2
    <3> HIDE DEF D
    <3> QED BY <2>1, <2>2, <3>1, SubsetInduction
  <2> QED BY <2>3 DEF Bad
<1>11. a \in Held(D)
  <2> HIDE DEF Held
  <2> QED BY <1>1, <1>10
<1>12. /\ \A i \in D : ups[i] \in 0 .. Len(dir)
       /\ \A up \in 0 .. Len(dir) : \E i \in D : ups[i] = up
  <2>1. Len(dir) \in Nat
    BY DEF Path, Place
  <2>2. ASSUME NEW up \in 0 .. Len(dir) PROVE up + 1 \in D /\ ups[up + 1] = up
    BY <2>1 DEF ups
  <2>3. \A i \in D : ups[i] \in 0 .. Len(dir)
    BY <2>1 DEF ups
  <2> QED BY <2>2, <2>3
<1>13. (\A i \in D : NothingUp(spec, dir, ups[i])) <=> \A up \in 0 .. Len(dir) : NothingUp(spec, dir, up)
  <2> HIDE DEF D
  <2> QED BY <1>12
<1> HIDE DEF D
<1> QED BY <1>11, <1>13 DEF Searched

-----------------------------------------------------------------------------
(* Resolution *)
NothingFor(spec, dir) ==
  /\ spec.kind = "relative" => NoneAt(dir, spec.parts)
  /\ spec.kind = "absolute" => NoneAt(<<>>, spec.parts)
  /\ spec.kind \in {"node", "bare"} => spec \notin Embedded
  /\ spec.kind = "bare" => \A up \in 0 .. Len(dir) : NothingUp(spec, dir, up)

LEMMA PrefixOf ==
  ASSUME NEW S, NEW s \in Seq(S), NEW t \in Seq(S)
  PROVE  IsPrefix(s, s \o t)
<1>1. /\ Len(s) \in Nat /\ Len(t) \in Nat
      /\ Len(s \o t) = Len(s) + Len(t) /\ Len(s) <= Len(s \o t)
  OBVIOUS
<1>2. SubSeq(s, 1, Len(s)) = SubSeq(s \o t, 1, Len(s))
  BY <1>1
<1> QED BY <1>1, <1>2 DEF IsPrefix

LEMMA SearchFits ==
  ASSUME NEW c \in Caches, NEW spec \in Specifier, NEW dir \in Place, NEW a \in Search(c, spec, dir)
  PROVE  Searched(c, a, NothingFor(spec, dir))
<1>1. spec.kind \in {"relative", "absolute", "node", "bare"} /\ spec.parts \in Path /\ <<>> \in Path
  BY NamesFit, PathsAssumption
<1>2. ASSUME NEW at \in Path, a \in ResolvePath(c, at, spec.parts)
      PROVE  Searched(c, a, NoneAt(at, spec.parts))
  <2>1. /\ a \in Tried(c)
        /\ a.path = None => NoneAt(at, spec.parts)
        /\ FoundIsThere(c) /\ NoneAt(at, spec.parts) => a.path = None
    BY <1>1, <1>2, ResolvePathFits
  <2>2. /\ a \in Outs
        /\ NotStale(c) => NotStale(a.cache)
        /\ Fresh(c) => Fresh(a.cache)
    BY <2>1, SameMains
  <2> QED BY <2>1, <2>2 DEF Searched, Fresh
<1>3. CASE spec.kind = "relative"
  <2>1. a \in ResolvePath(c, dir, spec.parts) /\ dir \in Path
    BY <1>3 DEF Search, Place
  <2>2. NothingFor(spec, dir) <=> NoneAt(dir, spec.parts)
    BY <1>3 DEF NothingFor
  <2> QED BY <1>2, <2>1, <2>2 DEF Searched
<1>4. CASE spec.kind = "absolute"
  <2>1. a \in ResolvePath(c, <<>>, spec.parts)
    BY <1>4 DEF Search
  <2>2. NothingFor(spec, dir) <=> NoneAt(<<>>, spec.parts)
    BY <1>4 DEF NothingFor
  <2> QED BY <1>1, <1>2, <2>1, <2>2 DEF Searched
<1>5. CASE spec.kind \in {"node", "bare"} /\ spec \in Embedded
  <2> DEFINE path == Stdlib \o <<spec.package>> \o spec.parts
  <2>1. a = [cache |-> c, path |-> path]
    BY <1>5 DEF Search, Outcome
  <2>2. path \in Place /\ IsPrefix(Stdlib, path)
    <3>1. Stdlib \in Path /\ <<spec.package>> \in Path
      BY PathsAssumption, SingleFits DEF Path
    <3>2. /\ <<spec.package>> \o spec.parts \in Path
          /\ path = Stdlib \o (<<spec.package>> \o spec.parts)
      <4>1. PICK name : name = <<spec.package>>
        OBVIOUS
      <4>2. PICK parts : parts = spec.parts
        OBVIOUS
      <4>3. Stdlib \in Seq(Seq(Part)) /\ name \in Seq(Seq(Part)) /\ parts \in Seq(Seq(Part))
        BY <1>1, <3>1, <4>1, <4>2 DEF Path
      <4>4. name \o parts \in Seq(Seq(Part))
        BY <4>3, ConcatProperties
      <4>5. (Stdlib \o name) \o parts = Stdlib \o (name \o parts)
        <5>1. PICK T : T = Seq(Part)
          OBVIOUS
        <5>2. Stdlib \in Seq(T) /\ name \in Seq(T) /\ parts \in Seq(T)
          BY <4>3, <5>1
        <5> QED BY <5>2, ConcatAssociative
      <4> QED BY <4>1, <4>2, <4>4, <4>5 DEF Path
    <3>3. Stdlib \o (<<spec.package>> \o spec.parts) \in Path
      BY <3>1, <3>2, ConcatProperties DEF Path
    <3>4. IsPrefix(Stdlib, Stdlib \o (<<spec.package>> \o spec.parts))
      BY <3>1, <3>2, PrefixOf DEF Path
    <3>5. ASSUME NoOtherNames PROVE Plain(Stdlib \o (<<spec.package>> \o spec.parts))
      <4>1. Plain(Stdlib) /\ Plain(spec.parts) /\ spec.package # Up
        BY <1>5, <3>5 DEF NoOtherNames
      <4>2. PICK name : name = spec.package
        OBVIOUS
      <4>3. Plain(<<name>>)
        <5>1. Len(<<name>>) = 1 /\ <<name>>[1] = name
          OBVIOUS
        <5> QED BY <4>1, <4>2, <5>1 DEF Plain
      <4>4. Plain(<<name>> \o spec.parts)
        BY <1>1, <3>1, <4>1, <4>2, <4>3, PlainFits
      <4> QED BY <3>1, <3>2, <4>1, <4>2, <4>4, PlainFits
    <3> HIDE DEF path
    <3> QED BY <3>2, <3>3, <3>4, <3>5 DEF Place
  <2>3. ~NothingFor(spec, dir)
    BY <1>5 DEF NothingFor
  <2> HIDE DEF path
  <2>4. a \in Outs /\ a.cache = c /\ a.path # None
    BY <2>1, <2>2, PathsAssumption DEF Outs, IsAnswer, Place
  <2> QED BY <2>3, <2>4 DEF Searched
<1>6. CASE spec.kind = "node" /\ spec \notin Embedded
  <2>1. a = [cache |-> c, path |-> None]
    BY <1>6 DEF Search, Outcome
  <2>2. a \in Outs /\ a.cache = c /\ a.path = None
    BY <2>1 DEF Outs, IsAnswer
  <2>3. NothingFor(spec, dir)
    BY <1>6 DEF NothingFor
  <2> QED BY <2>2, <2>3 DEF Searched
<1>7. CASE spec.kind = "bare" /\ spec \notin Embedded
  <2>1. a \in ResolveNodeModules(c, spec, dir)
    BY <1>7 DEF Search
  <2>2. NothingFor(spec, dir) <=> \A up \in 0 .. Len(dir) : NothingUp(spec, dir, up)
    BY <1>7 DEF NothingFor
  <2>3. Searched(c, a, \A up \in 0 .. Len(dir) : NothingUp(spec, dir, up))
    BY <2>1, ResolveNodeModulesFits
  <2> QED BY <2>2, <2>3 DEF Searched
<1> QED BY <1>1, <1>3, <1>4, <1>5, <1>6, <1>7

(* A resolution is an answer, from sound caches to sound caches, and finds *)
(* nothing only where there is nothing to find.                            *)
LEMMA ResolveFits ==
  ASSUME NEW c \in Caches, NEW spec \in Specifier, NEW dir \in Place, NEW a \in Resolve(c, spec, dir)
  PROVE  a \in Outs /\ (a.path = None /\ NotStale(c) => NothingFor(spec, dir))
<1> DEFINE key == <<spec, dir>>
<1>1. /\ c \in CacheShape /\ Small(c) /\ MainsAreRead(c)
      /\ ~removed => FoundIsThere(c) /\ ResolvedIsThere(c)
      /\ c.resolved \in Partial(Specifier \X Path, Place)
  BY DEF Caches, Sound, CacheShape
<1>2. key \in Specifier \X Path
  BY DEF Place
<1>3. CASE key \in DOMAIN c.resolved
  <2>1. a = [cache |-> c, path |-> c.resolved[key]]
    BY <1>3 DEF Resolve, Outcome
  <2>2. c.resolved[key] \in Place
    BY <1>1, <1>3 DEF Partial
  <2>3. removed \/ IsAnswer(c.resolved[key])
    BY <1>1, <1>3 DEF ResolvedIsThere
  <2> HIDE DEF key
  <2> QED BY <2>1, <2>2, <2>3, PathsAssumption DEF Outs, Place
<1>4. CASE key \notin DOMAIN c.resolved
  <2>1. PICK b \in Search(c, spec, dir) :
          a = IF b.path = None THEN b
              ELSE Outcome([b.cache EXCEPT !.resolved = Cached(@, key, b.path)], b.path)
    BY <1>4 DEF Resolve
  <2>2. Searched(c, b, NothingFor(spec, dir))
    BY SearchFits
  <2>3. b \in Outs /\ b.cache \in Caches /\ b.path \in Place \cup {None} /\ (removed \/ IsAnswer(b.path))
    BY <2>2 DEF Searched, Outs
  <2>4. CASE b.path = None
    BY <2>1, <2>2, <2>4 DEF Searched
  <2>5. CASE b.path # None
    <3> DEFINE d == b.cache
               resolved == Cached(d.resolved, key, b.path)
               new == [d EXCEPT !.resolved = resolved]
    <3>1. /\ d \in CacheShape /\ Small(d) /\ MainsAreRead(d)
          /\ ~removed => FoundIsThere(d) /\ ResolvedIsThere(d)
      BY <2>3 DEF Caches, Sound
    <3>2. a = [cache |-> new, path |-> b.path]
      BY <2>1, <2>5 DEF Outcome
    <3> HIDE DEF d
    <3>3. /\ resolved \in Partial(Specifier \X Path, Place) /\ Fits(DOMAIN resolved, CacheCap)
          /\ \A k \in DOMAIN resolved : \/ k = key /\ resolved[k] = b.path
                                        \/ k \in DOMAIN d.resolved /\ resolved[k] = d.resolved[k]
      <4>1. /\ d.resolved \in Partial(Specifier \X Path, Place)
            /\ Fits(DOMAIN d.resolved, CacheCap) /\ b.path \in Place
        BY <2>3, <2>5, <3>1 DEF CacheShape, Small
      <4>2. PICK K : K = Specifier \X Path
        OBVIOUS
      <4>3. resolved = Cached(d.resolved, key, b.path)
        OBVIOUS
      <4> HIDE DEF resolved, key
      <4> QED BY <1>2, <4>1, <4>2, <4>3, CachedFits
    <3> HIDE DEF resolved, key
    <3>4. /\ new \in CacheShape
          /\ new.resolved = resolved /\ new.found = d.found /\ new.absent = d.absent /\ new.mains = d.mains
      BY <3>1, <3>3 DEF CacheShape
    <3> HIDE DEF new
    <3>5. /\ Small(new) /\ MainsAreRead(new) /\ (FoundIsThere(d) => FoundIsThere(new))
      BY <3>1, <3>3, <3>4 DEF Small, MainsAreRead, FoundIsThere
    <3>6. ~removed => ResolvedIsThere(new)
      BY <2>3, <3>1, <3>3, <3>4 DEF ResolvedIsThere
    <3>7. new \in Caches
      BY <3>1, <3>4, <3>5, <3>6 DEF Caches, Sound
    <3> QED BY <2>3, <2>5, <3>2, <3>7 DEF Outs
  <2> QED BY <2>4, <2>5
<1> QED BY <1>3, <1>4

-----------------------------------------------------------------------------
(* The loader.  The caches are sound, and a module is a path that answered *)
(* an import, inside the root or of the library.                           *)
LoaderInv ==
  /\ files \in SUBSET (Fixed \cup File) /\ Fixed \subseteq files
  /\ cache \in Caches
  /\ removed \in BOOLEAN
  /\ instances \in SUBSET Place /\ InstancesInsideRoot

LEMMA DirsFit ==
  ASSUME NEW dir \in Dirs
  PROVE  dir \in Place
<1>1. Front(Entry) \in Path /\ Root \in Path /\ Entry \in Path
  BY PathsAssumption, FrontFits DEF Path
<1>2. NoOtherNames => Plain(Front(Entry)) /\ Plain(Root)
  BY <1>1, PlainFits DEF NoOtherNames
<1> QED BY <1>1, <1>2 DEF Dirs, ReferrerDir, Parent, Place

(* Sound caches stay so while the files only grow, and when one is removed. *)
LEMMA SoundStays ==
  ASSUME NEW c \in Caches, files \subseteq files' \/ removed' = TRUE,
         removed => removed', removed' \in BOOLEAN
  PROVE  c \in Caches'
<1>1. c \in CacheShape /\ Small(c) /\ MainsAreRead(c) /\ (~removed => FoundIsThere(c) /\ ResolvedIsThere(c))
  BY DEF Caches, Sound
<1>2. ASSUME ~removed' PROVE FoundIsThere(c)' /\ ResolvedIsThere(c)'
  <2>1. files \subseteq files' /\ FoundIsThere(c) /\ ResolvedIsThere(c)
    BY <1>1, <1>2
  <2>2. ASSUME NEW p, IsFile(p) PROVE IsFile(p)'
    BY <2>1, <2>2 DEF IsFile
  <2>3. \A p : IsAnswer(p) => IsAnswer(p)'
    BY <2>2 DEF IsAnswer
  <2> QED BY <2>1, <2>2, <2>3 DEF FoundIsThere, ResolvedIsThere
<1>3. CacheShape' = CacheShape /\ Small(c)' = Small(c) /\ MainsAreRead(c)' = MainsAreRead(c)
  BY DEF CacheShape, Small, MainsAreRead
<1> QED BY <1>1, <1>2, <1>3 DEF Caches, Sound

LEMMA LoaderInit == Init => LoaderInv
<1> SUFFICES ASSUME Init PROVE LoaderInv
  OBVIOUS
<1>1. cache \in Caches
  BY NoCacheFits DEF Init
<1>2. files \in SUBSET (Fixed \cup File) /\ Fixed \subseteq files /\ removed \in BOOLEAN
  BY DEF Init
<1>3. instances \in SUBSET Place /\ InstancesInsideRoot
  BY DEF Init, InstancesInsideRoot
<1> QED BY <1>1, <1>2, <1>3 DEF LoaderInv

LEMMA LoaderStep == LoaderInv /\ [Next]_vars => LoaderInv'
<1> SUFFICES ASSUME LoaderInv, [Next]_vars PROVE LoaderInv'
  OBVIOUS
<1> USE DEF LoaderInv
<1>1. ASSUME NEW dir \in Dirs, NEW spec \in Specifier, Import(dir, spec)
      PROVE  LoaderInv'
  <2>1. PICK a \in Resolve(cache, spec, dir) :
          /\ cache' = a.cache
          /\ \/ UNCHANGED instances
             \/ /\ a.path \notin instances \cup {None} /\ Loadable(a.path)
                /\ instances' = instances \cup {a.path}
          /\ UNCHANGED <<files, removed>>
    BY <1>1 DEF Import
  <2>2. a.cache \in Caches /\ a.path \in Place \cup {None}
    BY <2>1, DirsFit, ResolveFits DEF Outs
  <2>3. cache' \in Caches'
    BY <2>1, <2>2, SoundStays
  <2>4. InstancesInsideRoot'
    BY <2>1 DEF InstancesInsideRoot, Loadable, Verified
  <2>5. instances' \in SUBSET Place
    BY <2>1, <2>2
  <2> QED BY <2>1, <2>3, <2>4, <2>5
<1>2. ASSUME NEW f \in File, FileAppears(f)
      PROVE  LoaderInv'
  <2>1. cache \in Caches'
    BY <1>2, SoundStays DEF FileAppears
  <2>2. InstancesInsideRoot'
    BY <1>2 DEF FileAppears, InstancesInsideRoot
  <2> QED BY <1>2, <2>1, <2>2 DEF FileAppears
<1>3. ASSUME NEW f \in File, FileGoes(f)
      PROVE  LoaderInv'
  <2>1. cache \in Caches'
    BY <1>3, SoundStays DEF FileGoes
  <2>2. InstancesInsideRoot'
    BY <1>3 DEF FileGoes, InstancesInsideRoot
  <2>3. Fixed \subseteq files'
    BY <1>3, FilesAssumption DEF FileGoes
  <2> QED BY <1>3, <2>1, <2>2, <2>3 DEF FileGoes
<1>4. CASE UNCHANGED vars
  <2>1. cache \in Caches'
    BY <1>4, SoundStays DEF vars
  <2>2. InstancesInsideRoot'
    BY <1>4 DEF vars, InstancesInsideRoot
  <2> QED BY <1>4, <2>1, <2>2 DEF vars
<1> QED BY <1>1, <1>2, <1>3, <1>4 DEF Next

LEMMA LoaderIsSound == Spec => []LoaderInv
BY LoaderInit, LoaderStep, PTL DEF Spec

(* A module is a file under the root, symbolic links followed, or one of   *)
(* the library, for any files, links and specifiers: what verify_module_path*)
(* lets through, whatever the resolver and its caches answered.            *)
THEOREM ModulesAreInsideRoot == Spec => []InstancesInsideRoot
<1>1. LoaderInv => InstancesInsideRoot
  BY DEF LoaderInv
<1> QED BY <1>1, LoaderIsSound, PTL

(* As long as no file is removed an import resolves to a file that is there *)
(* or to a module of the library, and the caches keep to their capacity,   *)
(* for any capacity: file_exists, read_package_main and resolve.           *)
THEOREM AnswersAreThere == Spec => []AnswersFit
<1>1. ASSUME LoaderInv PROVE AnswersFit
  <2>1. Small(cache)
    BY <1>1 DEF LoaderInv, Caches, Sound
  <2>2. TypeOK
    BY <1>1, <2>1 DEF LoaderInv, TypeOK, Small, Fits
  <2>3. AnswersExist
    <3> SUFFICES ASSUME ~removed, NEW spec \in Specifier, NEW dir \in Dirs,
                        NEW a \in Resolve(cache, spec, dir)
                 PROVE  a.path = None \/ IsPrefix(Stdlib, a.path) \/ IsFile(a.path)
      BY DEF AnswersExist
    <3>1. a \in Outs
      BY <1>1, DirsFit, ResolveFits DEF LoaderInv
    <3> QED BY <3>1 DEF Outs, IsAnswer
  <2> QED BY <2>2, <2>3 DEF AnswersFit
<1> QED BY <1>1, LoaderIsSound, PTL

(* An import that finds nothing would find nothing with empty caches,      *)
(* unless a package.json appeared in a directory that was looked at without *)
(* it: file_exists looks again for what was absent.                        *)
THEOREM NothingThereIsMissed == Spec => []NothingIsMissed
<1>1. ASSUME LoaderInv PROVE NothingIsMissed
  <2> SUFFICES ASSUME NEW spec \in Specifier, NEW dir \in Dirs, NEW a \in Resolve(cache, spec, dir),
                      a.path = None, ~StaleMain, NEW b \in Search(NoCache, spec, dir)
               PROVE  b.path = None
    BY DEF NothingIsMissed
  <2>1. NotStale(cache)
    BY DEF NotStale, StaleMain, Json
  <2>2. NothingFor(spec, dir)
    BY <1>1, <2>1, DirsFit, ResolveFits DEF LoaderInv
  <2>3. Fresh(NoCache) /\ NoCache \in Caches
    BY NoCacheFits DEF Fresh
  <2>4. Searched(NoCache, b, NothingFor(spec, dir))
    BY <2>3, DirsFit, SearchFits
  <2> QED BY <2>2, <2>3, <2>4 DEF Searched
<1> QED BY <1>1, LoaderIsSound, PTL

(* Without symbolic links, and without ".." in what the resolver does not  *)
(* normalize, a file is one module, however its importers spell it: the keys *)
(* of module_map are normalized paths.                                     *)
THEOREM FilesAreOneModule ==
  ASSUME NoOtherNames
  PROVE  Spec => []OneInstancePerFile
<1>1. ASSUME LoaderInv PROVE OneInstancePerFile
  <2>1. \A p \in instances : Real(p) = p
    BY <1>1, RealIsItself DEF LoaderInv, Place, NoOtherNames
  <2> QED BY <2>1 DEF OneInstancePerFile
<1> QED BY <1>1, LoaderIsSound, PTL
=============================================================================
