-------------------------------- MODULE Paths --------------------------------
(***************************************************************************)
(* koss:path (src/src/js_shims/koss_shim/path.js): the functions of        *)
(* path.posix and of path.win32 over two paths that a script puts          *)
(* together.                                                               *)
(*                                                                         *)
(* A text is what split gives of it at its separators, a sequence of       *)
(* segments that is never empty: <<"">> is the empty text, <<"", "">> the  *)
(* root, and joining two texts by a separator is \o.                       *)
(***************************************************************************)
EXTENDS Naturals, Sequences, SequencesExt

CONSTANTS
  Name,    \* segments that are names
  Drive,   \* a segment like C:
  MaxLen   \* bound: segments of a path

VARIABLES
  p, q     \* two paths

vars == <<p, q>>

Here == "."
Up == ".."
Segment == {"", Here, Up, Drive} \cup Name

Empty == <<"">>
Root == <<"", "">>

TypeOK == p \in Seq(Segment) /\ q \in Seq(Segment) /\ p # <<>> /\ q # <<>>

Init == p = Empty /\ q = Empty

-----------------------------------------------------------------------------
(* Separators taken from the end, or from the beginning, of a text.        *)
StripEnd(s) ==
  LET used == {i \in DOMAIN s : s[i] # ""}
  IN IF used = {} THEN Empty ELSE SubSeq(s, 1, CHOOSE i \in used : \A j \in used : j <= i)
StripStart(s) ==
  LET used == {i \in DOMAIN s : s[i] # ""}
  IN IF used = {} THEN Empty ELSE SubSeq(s, CHOOSE i \in used : \A j \in used : i <= j, Len(s))

(* The segments as a text.                                                 *)
Text(list) == IF list = <<>> THEN Empty ELSE list

StartsAtRoot(s) == Len(s) > 1 /\ s[1] = ""
Trails(s) == Len(s) > 1 /\ Last(s) = ""

Steps(s) == SelectSeq(s, LAMBDA x : x \notin {"", Here})

(* Mistake: ".." takes away a ".." that had to stay.                       *)
ReducedPopping(steps, rooted) ==
  FoldLeft(LAMBDA done, x :
             IF x # Up THEN Append(done, x)
             ELSE IF done # <<>> THEN Front(done)
             ELSE IF rooted THEN done ELSE Append(done, Up),
           <<>>, steps)

(* A name is taken away by the ".." after it; ".." stays at the beginning  *)
(* of a path that does not start at the root.                              *)
Reduced(steps, rooted) ==
  FoldLeft(LAMBDA done, x :
             IF x # Up THEN Append(done, x)
             ELSE IF done # <<>> /\ Last(done) # Up THEN Front(done)
             ELSE IF rooted THEN done ELSE Append(done, Up),
           <<>>, steps)

Normalize(s) ==
  LET list == Reduced(Steps(s), StartsAtRoot(s))
      joined == IF StartsAtRoot(s) THEN Empty \o Text(list)
                ELSE IF list = <<>> THEN <<Here>> ELSE list
  IN IF s = Empty THEN <<Here>>
     ELSE IF Trails(s) /\ joined # Root THEN Append(joined, "") ELSE joined

(* join: the arguments one after the other, without separators between.    *)
Glued(s, t) ==
  IF t = Empty THEN s ELSE IF s = Empty THEN t ELSE StripEnd(s) \o StripStart(t)
Join(s, t) == IF Glued(s, t) = Empty THEN <<Here>> ELSE Normalize(Glued(s, t))

(* resolve: from the last argument back to one that starts at the root;    *)
(* what is before the first separator is a segment like any other, and     *)
(* stays in the text or is taken away by a "..".                           *)
Resolve(args) ==
  LET texts == SelectSeq(args, LAMBDA t : t # Empty)
      from == {i \in DOMAIN texts : StartsAtRoot(texts[i])}
      first == IF from = {} THEN 1 ELSE CHOOSE i \in from : \A j \in from : j <= i
      joined == FlattenSeq(SubSeq(texts, first, Len(texts)))
      segs == IF from = {} THEN Empty \o Text(joined) ELSE joined
      kept == <<Head(segs)>> \o SelectSeq(Tail(segs), LAMBDA x : x # "")
      stack == FoldLeft(LAMBDA done, x :
                          IF x = Here THEN done
                          ELSE IF x # Up THEN Append(done, x)
                          ELSE IF done = <<>> THEN done ELSE Front(done),
                        <<>>, kept)
  IN Empty \o Text(stack)

(* relative: up from where the two part, and down again.                   *)
Relative(from, to) ==
  LET here == Tail(Resolve(<<from>>))
      there == Tail(Resolve(<<to>>))
      parted == {i \in 1 .. Len(here) + 1 :
                   i > Len(here) \/ i > Len(there) \/ here[i] # there[i]}
      at == CHOOSE i \in parted : \A j \in parted : i <= j
      list == [i \in 1 .. Len(here) + 1 - at |-> Up] \o SubSeq(there, at, Len(there))
  IN IF here = there THEN Empty ELSE list

Dirname(s) ==
  IF s = Empty \/ s = <<Here>> THEN <<Here>>
  ELSE IF s = Root THEN Root
  ELSE IF Len(s) = 1 THEN <<Here>>
  ELSE IF Front(s) = Empty THEN Root ELSE Front(s)

Basename(s) ==
  IF s = Empty THEN Empty
  ELSE IF StripEnd(s) = Empty THEN Root ELSE <<Last(StripEnd(s))>>

(* parse and format, through root, dir and base: the separator before an   *)
(* absolute directory is written once more.                                *)
Parse(s) ==
  IF s = Empty THEN [dir |-> Empty, base |-> Empty]
  ELSE IF s = Root THEN [dir |-> Root, base |-> Root]
  ELSE [base |-> <<Last(s)>>,
        dir |-> IF Len(s) = 1 THEN <<Here>>
                ELSE IF StartsAtRoot(s) THEN Empty \o Front(s) ELSE Front(s)]
Format(o) ==
  IF o.base # Empty THEN o.dir \o o.base
  ELSE IF o.dir # Empty THEN o.dir ELSE <<Here>>

-----------------------------------------------------------------------------
(* win32 *)

(* A run of separators is one separator.                                   *)
Collapsed(s) ==
  IF Len(s) = 1 THEN s
  ELSE <<Head(s)>> \o SelectSeq(SubSeq(s, 2, Len(s) - 1), LAMBDA x : x # "") \o <<Last(s)>>
WinAbsolute(s) == StartsAtRoot(s) \/ s[1] = Drive

WinNormalize(s) ==
  LET steps == Steps(s)
      driven == steps # <<>> /\ steps[1] = Drive
      list == Reduced(IF driven THEN Tail(steps) ELSE steps, WinAbsolute(s) \/ driven)
      joined == IF driven THEN <<Drive>> \o Text(list)
                ELSE IF WinAbsolute(s) THEN Empty \o Text(list)
                ELSE IF list = <<>> THEN <<Here>> ELSE list
  IN IF s = Empty THEN <<Here>>
     ELSE IF Trails(s) /\ ~Trails(joined) THEN Append(joined, "") ELSE joined

WinJoin(s, t) == IF Glued(s, t) = Empty THEN <<Here>> ELSE WinNormalize(Glued(s, t))

WinDirname(s) ==
  LET t == Collapsed(StripEnd(s))
      u == Front(t)
  IN IF t = Empty THEN <<Here>>
     ELSE IF t = <<Drive>> THEN <<Drive, "">>
     ELSE IF Len(t) = 1 THEN <<Here>>
     ELSE IF u = Empty THEN Root
     ELSE IF u = <<Drive>> THEN <<Drive, "">> ELSE u

-----------------------------------------------------------------------------
(* A script puts two paths together, segment by segment.                   *)
Extend(s) == Len(s) < MaxLen /\ \E x \in Segment : s' = Append(s, x)
Begin(s) == s = Empty /\ \E x \in Segment \ {""} : s' = <<x>>

Next ==
  \/ (Extend(p) \/ Begin(p)) /\ UNCHANGED q
  \/ (Extend(q) \/ Begin(q)) /\ UNCHANGED p

Spec == Init /\ [][Next]_vars

-----------------------------------------------------------------------------
(* What the functions are for: where a path leads from a directory, walked *)
(* segment by segment.                                                     *)
Lead(dir, s) ==
  FoldLeft(LAMBDA at, x : IF x \in {"", Here} THEN at
                          ELSE IF x # Up THEN Append(at, x)
                          ELSE IF at = <<>> THEN at ELSE Front(at),
           IF StartsAtRoot(s) THEN <<>> ELSE dir, s)

WinLead(dir, s) ==
  IF Head(s) = Drive THEN <<Drive>> \o Lead(<<>>, Tail(s)) ELSE Lead(dir, s)

(* At the root, and deeper than any path goes up.                          *)
Places == {<<>>, [i \in 1 .. 2 * MaxLen |-> "dir"]}

(* A path normalised, joined or taken apart and put together again leads   *)
(* where it led before, from the root and from elsewhere, and normalising  *)
(* it once more changes nothing.                                           *)
NormalLeadsTheSame ==
  /\ Normalize(Normalize(p)) = Normalize(p)
  /\ \A dir \in Places :
       /\ Lead(dir, Normalize(p)) = Lead(dir, p)
       /\ Lead(dir, Format(Parse(p))) = Lead(dir, p)
       /\ Trails(p) \/ Lead(dir, Join(Dirname(p), Basename(p))) = Lead(dir, p)
       /\ Lead(dir, Join(p, q)) =
            IF p = Empty THEN Lead(dir, q) ELSE Lead(Lead(dir, p), StripStart(q))

(* resolve leads where the two paths lead one after the other from the     *)
(* root (it takes the root for the working directory), and relative leads  *)
(* from the place of the one to the place of the other.                    *)
RelativeLeadsThere ==
  /\ Lead(<<>>, Resolve(<<p, q>>)) = Lead(Lead(<<>>, p), q)
  /\ Lead(Lead(<<>>, p), Relative(p, q)) = Lead(<<>>, q)

(* With a drive a path is normalised and joined without leaving the drive, *)
(* and what lies in its directory under its last name is the path.         *)
DriveIsKept ==
  (\A i \in 2 .. Len(p \o q) : (p \o q)[i] # Drive) =>
    /\ WinNormalize(WinNormalize(p)) = WinNormalize(p)
    /\ \A dir \in Places :
         /\ WinLead(dir, WinNormalize(p)) = WinLead(dir, p)
         /\ p # Empty => WinLead(dir, WinJoin(p, q)) = WinLead(dir, p \o StripStart(q))
         /\ ~Trails(p) /\ Last(p) # Drive =>
              WinLead(dir, WinJoin(WinDirname(p), <<Last(p)>>)) = WinLead(dir, p)
=============================================================================
