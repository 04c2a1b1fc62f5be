--------------------------- MODULE LibrariesProofs ---------------------------
(***************************************************************************)
(* Proofs about the libraries that run inside a script, for any paths,     *)
(* listeners, timers and bounds.                                           *)
(*                                                                         *)
(* CommonJS: each frame is tied to the one around it, whose module is the  *)
(* global one it saved, and each live instance to its entry.               *)
(* Events: a wrapper of once() is in one list at one place until it ran,   *)
(* and what the iterator answered is counted off against what was sent.    *)
(* Timers: an object stands for one armed number at most.                  *)
(* Streams: the calls still to be made (`agenda`) fit the stream they are  *)
(* for, the lengths fit the buffers, and a chunk is in one place.          *)
(***************************************************************************)
EXTENDS ScriptLibraries, DataFacts

(* The instances that loaded or whose code runs. *)
Alive(i) == instances[i].loaded \/ i \in Loading

(* A frame belongs to one unloaded instance, and saved the globals of the  *)
(* code around it.                                                         *)
FramesNest ==
  \A k \in 1 .. Len(stack) :
    /\ stack[k].instance \in 1 .. Len(instances)
    /\ ~instances[stack[k].instance].loaded
    /\ stack[k].module = IF k = 1 THEN Main ELSE stack[k - 1].instance
    /\ stack[k].Buffer \in IF k = 1 THEN {Main} ELSE {None, stack[k - 1].instance}
    /\ \A l \in 1 .. Len(stack) : stack[l].instance = stack[k].instance => l = k

(* Until the cache is replaced, a live instance is the one in the cache. *)
LiveIsCached ==
  resets = 0 => \A i \in 1 .. Len(instances) :
                  Alive(i) /\ instances[i].path \notin forgotten
                    => cache[instances[i].path] = i

CommonJsInv ==
  /\ TypeOK
  /\ CachedIsLive
  /\ GlobalsFollowStack
  /\ FramesNest
  /\ LiveIsCached

(* The calls around the innermost one keep their places. *)
LEMMA OuterCalls ==
  ASSUME TypeOK, stack # <<>>
  PROVE  /\ Len(stack) \in Nat \ {0}
         /\ Top \in Frame
         /\ Outer \in Seq(Frame)
         /\ Len(Outer) = Len(stack) - 1
         /\ \A k \in 1 .. Len(Outer) : Outer[k] = stack[k]
<1>1. Len(stack) \in Nat \ {0} /\ Top \in Frame
  BY EmptySeq DEF TypeOK, Top
<1>2. PICK n \in Nat : n = Len(stack) - 1
  BY <1>1
<1>3. \A k \in 1 .. n : stack[k] \in Frame
  BY <1>1, <1>2 DEF TypeOK
<1>4. /\ SubSeq(stack, 1, n) \in Seq(Frame)
      /\ Len(SubSeq(stack, 1, n)) = IF 1 <= n THEN n - 1 + 1 ELSE 0
      /\ \A k \in 1 .. n - 1 + 1 : SubSeq(stack, 1, n)[k] = stack[1 + k - 1]
  BY <1>3, SubSeqProperties
<1> QED BY <1>1, <1>2, <1>4 DEF Outer

(* Every module object has a path. *)
LEMMA InstanceType ==
  ASSUME TypeOK
  PROVE  \A i \in 1 .. Len(instances) :
           /\ instances[i] \in [path : Path, loaded : BOOLEAN]
           /\ instances[i].path \in Path
<1>1. instances \in Seq([path : Path, loaded : BOOLEAN])
  BY DEF TypeOK
<1>2. \A i \in 1 .. Len(instances) : instances[i] \in [path : Path, loaded : BOOLEAN]
  BY <1>1, ElementOfSeq
<1> QED BY <1>2

(* The innermost call is that of an unloaded instance. *)
LEMMA InnermostCall ==
  ASSUME CommonJsInv, stack # <<>>
  PROVE  /\ Top.instance \in 1 .. Len(instances)
         /\ ~instances[Top.instance].loaded
<1>1. Len(stack) \in 1 .. Len(stack)
  BY OuterCalls DEF CommonJsInv
<1> QED BY <1>1 DEF CommonJsInv, FramesNest, Top

(* A call returns or throws: its instance is no longer loading, the others *)
(* still are, and the code around it has its globals back.                 *)
LEMMA Leave ==
  ASSUME CommonJsInv, stack # <<>>, stack' = Outer, RestoreGlobals,
         Len(instances') = Len(instances),
         \A i \in 1 .. Len(instances) : i # Top.instance => instances'[i] = instances[i]
  PROVE  /\ stack' \in Seq(Frame)
         /\ module' \in Instance \cup {Main} /\ Buffer' \in Instance \cup {Main, None}
         /\ Top.instance \in 1 .. Len(instances) /\ Top.instance \in Loading
         /\ Loading' = Loading \ {Top.instance}
         /\ FramesNest'
         /\ GlobalsFollowStack'
<1> USE DEF CommonJsInv
<1>1. /\ Len(stack) \in Nat \ {0} /\ Top \in Frame /\ stack' \in Seq(Frame)
      /\ Len(stack') = Len(stack) - 1
      /\ \A k \in 1 .. Len(stack') : stack'[k] = stack[k]
  BY OuterCalls
<1>2. /\ Top.instance \in 1 .. Len(instances) /\ Top.instance \in Loading
      /\ \A k \in 1 .. Len(stack) : stack[k].instance = Top.instance => k = Len(stack)
  <2>1. Len(stack) \in 1 .. Len(stack) /\ Top = stack[Len(stack)]
    BY <1>1 DEF Top
  <2>2. Top.instance \in 1 .. Len(instances)
    BY <2>1 DEF FramesNest
  <2>3. Top.instance \in Loading
    BY <2>1 DEF Loading
  <2>4. \A k \in 1 .. Len(stack) : stack[k].instance = Top.instance => k = Len(stack)
    BY <2>1 DEF FramesNest
  <2> QED BY <2>2, <2>3, <2>4
<1>3. Loading' = Loading \ {Top.instance}
  <2>1. ASSUME NEW i \in Loading' PROVE i \in Loading \ {Top.instance}
    <3>1. PICK k \in 1 .. Len(stack') : i = stack'[k].instance
      BY DEF Loading
    <3>2. k \in 1 .. Len(stack) /\ k # Len(stack) /\ stack'[k] = stack[k]
      BY <1>1
    <3> QED BY <1>2, <3>1, <3>2 DEF Loading
  <2>2. ASSUME NEW i \in Loading, i # Top.instance PROVE i \in Loading'
    <3>1. PICK k \in 1 .. Len(stack) : i = stack[k].instance
      BY DEF Loading
    <3>2. k # Len(stack)
      BY <2>2, <3>1 DEF Top
    <3>3. k \in 1 .. Len(stack') /\ stack'[k] = stack[k]
      BY <1>1, <3>2
    <3> QED BY <3>1, <3>3 DEF Loading
  <2> QED BY <2>1, <2>2
<1>4. FramesNest'
  <2> SUFFICES ASSUME NEW k \in 1 .. Len(stack')
               PROVE  /\ stack'[k].instance \in 1 .. Len(instances')
                      /\ ~instances'[stack'[k].instance].loaded
                      /\ stack'[k].module = IF k = 1 THEN Main ELSE stack'[k - 1].instance
                      /\ stack'[k].Buffer \in IF k = 1 THEN {Main}
                                              ELSE {None, stack'[k - 1].instance}
                      /\ \A l \in 1 .. Len(stack') :
                           stack'[l].instance = stack'[k].instance => l = k
    BY DEF FramesNest
  <2>1. k \in 1 .. Len(stack) /\ k # Len(stack) /\ stack'[k] = stack[k]
    BY <1>1
  <2>2. k # 1 => k - 1 \in 1 .. Len(stack') /\ stack'[k - 1] = stack[k - 1]
    BY <1>1
  <2>3. stack[k].instance # Top.instance
    BY <1>2, <2>1
  <2>4. \A l \in 1 .. Len(stack') : l \in 1 .. Len(stack) /\ stack'[l] = stack[l]
    BY <1>1
  <2>5. stack[k].instance \in 1 .. Len(instances) /\ ~instances[stack[k].instance].loaded
    BY <2>1 DEF FramesNest
  <2>6. stack'[k].instance \in 1 .. Len(instances') /\ ~instances'[stack'[k].instance].loaded
    BY <2>1, <2>3, <2>5
  <2>7. stack'[k].module = IF k = 1 THEN Main ELSE stack'[k - 1].instance
    BY <2>1, <2>2 DEF FramesNest
  <2>8. stack'[k].Buffer \in IF k = 1 THEN {Main} ELSE {None, stack'[k - 1].instance}
    BY <2>1, <2>2 DEF FramesNest
  <2>9. \A l \in 1 .. Len(stack') : stack'[l].instance = stack'[k].instance => l = k
    <3> TAKE l \in 1 .. Len(stack')
    <3>1. l \in 1 .. Len(stack) /\ stack'[l] = stack[l]
      BY <2>4
    <3> QED BY <2>1, <3>1 DEF FramesNest
  <2> QED BY <2>6, <2>7, <2>8, <2>9
<1>5. /\ module' = IF Len(stack) = 1 THEN Main ELSE stack[Len(stack) - 1].instance
      /\ Buffer' \in IF Len(stack) = 1 THEN {Main}
                     ELSE {None, stack[Len(stack) - 1].instance}
  <2>1. Len(stack) \in 1 .. Len(stack)
    BY <1>1
  <2>2. module' = stack[Len(stack)].module /\ Buffer' = stack[Len(stack)].Buffer
    BY DEF RestoreGlobals, Top
  <2> QED BY <2>1, <2>2 DEF FramesNest
<1>6. GlobalsFollowStack'
  <2>1. CASE Len(stack) = 1
    <3>1. stack' = <<>>
      BY <1>1, <2>1, EmptySeq
    <3> QED BY <1>5, <2>1, <3>1 DEF GlobalsFollowStack
  <2>2. CASE Len(stack) # 1
    <3>1. Len(stack') # 0 /\ stack'[Len(stack')] = stack[Len(stack) - 1]
      BY <1>1, <2>2
    <3>2. stack' # <<>>
      BY <3>1, EmptySeq
    <3> QED BY <1>5, <2>2, <3>1, <3>2 DEF GlobalsFollowStack, Top
  <2> QED BY <2>1, <2>2
<1>7. module' \in Instance \cup {Main} /\ Buffer' \in Instance \cup {Main, None}
  BY <1>1 DEF Frame, RestoreGlobals
<1> QED BY <1>1, <1>2, <1>3, <1>4, <1>6, <1>7

(* What Create does: no live instance had the path, the others keep their  *)
(* number and their entry.                                                 *)
Made(file, isLoaded) ==
  /\ Len(instances) \in Nat /\ Len(instances') = Len(instances) + 1
  /\ Len(instances') \in Instance /\ Len(instances') <= MaxInstances
  /\ instances' \in Seq([path : Path, loaded : BOOLEAN])
  /\ \A i \in 1 .. Len(instances) : instances'[i] = instances[i]
  /\ instances'[Len(instances')] = [path |-> file, loaded |-> isLoaded]
  /\ cache' = [cache EXCEPT ![file] = Len(instances')]
  /\ cache' \in [Path -> 1 .. Len(instances') \cup {None}]
  /\ published' \in [Path -> 1 .. Len(instances') \cup {None}]
  /\ resets' = resets /\ forgotten' = forgotten
  /\ resets' = 0 => cache' = published'
  /\ \A i \in 1 .. Len(instances) :
       resets = 0 /\ Alive(i) /\ instances[i].path = file => file \in forgotten

LEMMA Created ==
  ASSUME CommonJsInv, NEW file \in Path, NEW isLoaded \in BOOLEAN, Create(file, isLoaded)
  PROVE  Made(file, isLoaded)
<1> USE DEF CommonJsInv
<1>1. Len(instances) \in Nat /\ MaxInstances \in Nat
  BY BoundAssumption DEF TypeOK
<1>2. /\ Len(instances') = Len(instances) + 1
      /\ instances' \in Seq([path : Path, loaded : BOOLEAN])
      /\ \A i \in 1 .. Len(instances) : instances'[i] = instances[i]
      /\ instances'[Len(instances')] = [path |-> file, loaded |-> isLoaded]
  <2>1. PICK new \in [path : Path, loaded : BOOLEAN] :
          new = [path |-> file, loaded |-> isLoaded]
    OBVIOUS
  <2> QED BY <2>1, AppendProperties DEF Create, TypeOK
<1>3. Len(instances') \in Instance /\ Len(instances') <= MaxInstances
  BY <1>1, <1>2 DEF Create, Instance
<1>4. cache' = [cache EXCEPT ![file] = Len(instances')]
  BY <1>2 DEF Create, SetEntry
<1>5. /\ cache' \in [Path -> 1 .. Len(instances') \cup {None}]
      /\ published' \in [Path -> 1 .. Len(instances') \cup {None}]
      /\ resets' = resets /\ forgotten' = forgotten
      /\ resets' = 0 => cache' = published'
  <2>1. Len(instances') \in 1 .. Len(instances')
    BY <1>1, <1>2
  <2>2. 1 .. Len(instances) \subseteq 1 .. Len(instances')
    BY <1>1, <1>2
  <2>3. cache' \in [Path -> 1 .. Len(instances') \cup {None}]
    BY <1>4, <2>1, <2>2 DEF TypeOK
  <2>4. /\ resets' = resets /\ forgotten' = forgotten
        /\ published' = IF resets = 0 THEN cache' ELSE published
    BY DEF Create, SetEntry
  <2>5. published \in [Path -> 1 .. Len(instances') \cup {None}]
    BY <2>2 DEF TypeOK
  <2> QED BY <2>3, <2>4, <2>5
<1>6. ASSUME NEW i \in 1 .. Len(instances), resets = 0, Alive(i), instances[i].path = file
      PROVE  file \in forgotten
  <2>1. None \notin 1 .. Len(instances)
    BY <1>1, PathAssumption DEF TypeOK
  <2> QED BY <1>6, <2>1 DEF Create, LiveIsCached
<1> QED BY <1>1, <1>2, <1>3, <1>4, <1>5, <1>6 DEF Made

(* The cache, its instances and the stack stay as they are. *)
LEMMA NothingMoves ==
  ASSUME CommonJsInv, UNCHANGED <<instances, cache, stack, resets, forgotten>>
  PROVE  CachedIsLive' /\ FramesNest' /\ LiveIsCached'
<1>1. Loading' = Loading
  BY DEF Loading
<1>2. CachedIsLive'
  BY <1>1 DEF CommonJsInv, CachedIsLive
<1>3. FramesNest'
  BY DEF CommonJsInv, FramesNest
<1>4. LiveIsCached'
  BY <1>1 DEF CommonJsInv, LiveIsCached, Alive
<1> QED BY <1>2, <1>3, <1>4

(* It holds at first and every step keeps it. *)
LEMMA CommonJsStarts == ASSUME Init PROVE CommonJsInv
<1>1. Len(instances) = 0 /\ Len(stack) = 0
  BY DEF Init
<1>2. TypeOK
  BY <1>1, BoundAssumption, EmptySeq DEF Init, TypeOK, Empty
<1> QED BY <1>1, <1>2 DEF Init, CommonJsInv, CachedIsLive, GlobalsFollowStack, FramesNest,
                       LiveIsCached, Empty

LEMMA CommonJsStep == ASSUME CommonJsInv, [Next]_vars PROVE CommonJsInv'
<1> USE DEF CommonJsInv
<1>1. ASSUME NEW file \in Path, BeginRequire(file) PROVE CommonJsInv'
  <2> DEFINE n == Len(instances')
  <2>1. PICK frame : frame = [instance |-> n, module |-> module, Buffer |-> Buffer]
    OBVIOUS
  <2>11. Made(file, FALSE)
    BY <1>1, Created DEF BeginRequire
  <2>2. stack' = Append(stack, frame) /\ module' = n /\ Buffer' = None
    BY <1>1, <2>1, <2>11 DEF BeginRequire, Create, Made
  <2> USE <2>11
  <2>3. frame \in Frame /\ n \in 1 .. n /\ n \notin 1 .. Len(instances)
    BY <2>1, <2>2 DEF Made, Frame, TypeOK
  <2>4. /\ stack' \in Seq(Frame) /\ Len(stack) \in Nat /\ Len(stack') = Len(stack) + 1
        /\ \A k \in 1 .. Len(stack) : stack'[k] = stack[k]
        /\ stack'[Len(stack')] = frame
    BY <2>2, <2>3, AppendProperties DEF TypeOK
  <2>5. \A i : i \in Loading' <=> i \in Loading \/ i = n
    <3>1. ASSUME NEW i \in Loading' PROVE i \in Loading \/ i = n
      <4>1. PICK k \in 1 .. Len(stack') : i = stack'[k].instance
        BY DEF Loading
      <4>2. k \in 1 .. Len(stack) \/ k = Len(stack')
        BY <2>4
      <4> QED BY <2>1, <2>4, <4>1, <4>2 DEF Loading
    <3>2. ASSUME NEW i \in Loading PROVE i \in Loading'
      <4>1. PICK k \in 1 .. Len(stack) : i = stack[k].instance
        BY DEF Loading
      <4>2. k \in 1 .. Len(stack')
        BY <2>4
      <4> QED BY <2>4, <4>1, <4>2 DEF Loading
    <3>3. Len(stack') \in 1 .. Len(stack')
      BY <2>4
    <3> QED BY <2>1, <2>4, <3>1, <3>2, <3>3 DEF Loading
  <2>6. TypeOK'
    BY <2>2, <2>4 DEF TypeOK, Made
  <2>7. CachedIsLive'
    BY <2>2, <2>5 DEF Made, CachedIsLive, TypeOK
  <2>8. GlobalsFollowStack'
    <3>1. stack' # <<>>
      BY <2>4, EmptySeq
    <3> QED BY <2>1, <2>2, <2>4, <3>1 DEF GlobalsFollowStack, Top
  <2>9. FramesNest'
    <3> SUFFICES ASSUME NEW k \in 1 .. Len(stack')
                 PROVE  /\ stack'[k].instance \in 1 .. n
                        /\ ~instances'[stack'[k].instance].loaded
                        /\ stack'[k].module = IF k = 1 THEN Main ELSE stack'[k - 1].instance
                        /\ stack'[k].Buffer \in IF k = 1 THEN {Main}
                                                ELSE {None, stack'[k - 1].instance}
                        /\ \A l \in 1 .. Len(stack') :
                             stack'[l].instance = stack'[k].instance => l = k
      BY DEF FramesNest
    <3>1. \A l \in 1 .. Len(stack') : l \in 1 .. Len(stack) \/ l = Len(stack')
      BY <2>4
    <3>2. \A l \in 1 .. Len(stack) : /\ stack'[l] = stack[l]
                                    /\ stack[l].instance \in 1 .. Len(instances)
                                    /\ stack[l].instance # n
      BY <2>3, <2>4 DEF FramesNest
    <3>3. stack'[Len(stack')] = frame /\ frame.instance = n
      BY <2>1, <2>4
    <3>4. CASE k \in 1 .. Len(stack)
      <4>1. stack[k].instance \in 1 .. Len(instances) /\ ~instances[stack[k].instance].loaded
        BY <3>4 DEF FramesNest
      <4>2. stack'[k].instance \in 1 .. n /\ ~instances'[stack'[k].instance].loaded
        BY <3>2, <3>4, <4>1 DEF Made
      <4>3. k # 1 => k - 1 \in 1 .. Len(stack)
        BY <2>4, <3>4
      <4>4. k # 1 => stack'[k - 1] = stack[k - 1]
        BY <2>4, <4>3
      <4>5. /\ stack'[k].module = IF k = 1 THEN Main ELSE stack'[k - 1].instance
            /\ stack'[k].Buffer \in IF k = 1 THEN {Main} ELSE {None, stack'[k - 1].instance}
        BY <3>2, <3>4, <4>4 DEF FramesNest
      <4>6. \A l \in 1 .. Len(stack') : stack'[l].instance = stack'[k].instance => l = k
        <5> TAKE l \in 1 .. Len(stack')
        <5>1. l \in 1 .. Len(stack) => (stack[l].instance = stack[k].instance => l = k)
          BY <3>4 DEF FramesNest
        <5> QED BY <3>1, <3>2, <3>3, <3>4, <5>1
      <4> QED BY <4>2, <4>5, <4>6
    <3>5. CASE k = Len(stack')
      <4>1. stack'[k].instance \in 1 .. n /\ ~instances'[stack'[k].instance].loaded
        BY <2>3, <3>3, <3>5 DEF Made
      <4>2. \A l \in 1 .. Len(stack') : stack'[l].instance = stack'[k].instance => l = k
        BY <3>1, <3>2, <3>3, <3>5
      <4>3. CASE Len(stack) = 0
        <5>1. stack = <<>> /\ k = 1
          BY <2>4, <3>5, <4>3, EmptySeq DEF TypeOK
        <5>2. frame.module = Main /\ frame.Buffer = Main
          BY <2>1, <5>1 DEF GlobalsFollowStack
        <5> QED BY <3>3, <3>5, <4>1, <4>2, <5>1, <5>2
      <4>4. CASE Len(stack) # 0
        <5>1. stack # <<>> /\ k # 1 /\ stack'[k - 1] = Top
          BY <2>4, <3>5, <4>4, EmptySeq DEF Top
        <5>2. frame.module = Top.instance /\ frame.Buffer \in {None, Top.instance}
          BY <2>1, <5>1 DEF GlobalsFollowStack
        <5> QED BY <3>3, <3>5, <4>1, <4>2, <5>1, <5>2
      <4> QED BY <4>3, <4>4
    <3> QED BY <3>1, <3>4, <3>5
  <2>10. LiveIsCached'
    <3> SUFFICES ASSUME NEW i \in 1 .. n, resets' = 0, Alive(i)', instances'[i].path \notin forgotten'
                 PROVE  cache'[instances'[i].path] = i
      BY DEF LiveIsCached
    <3>1. CASE i = n
      BY <2>2, <3>1 DEF Made, TypeOK
    <3>2. CASE i # n
      <4>1. i \in 1 .. Len(instances) /\ instances'[i] = instances[i]
        BY <2>2, <3>2 DEF Made
      <4>2. Alive(i)
        BY <2>5, <3>2, <4>1 DEF Alive
      <4>3. instances[i].path \in Path /\ resets = 0
        BY <4>1, InstanceType DEF Made
      <4>4. instances[i].path \notin forgotten
        BY <4>1 DEF Made
      <4>5. instances[i].path # file /\ cache[instances[i].path] = i
        BY <4>1, <4>2, <4>3, <4>4 DEF Made, LiveIsCached
      <4> QED BY <4>1, <4>3, <4>5 DEF Made, TypeOK
    <3> QED BY <3>1, <3>2
  <2> QED BY <2>6, <2>7, <2>8, <2>9, <2>10
<1>2. ASSUME NEW file \in Path, RequireWithoutCode(file) PROVE CommonJsInv'
  <2>1. UNCHANGED <<stack, module, Buffer>> /\ Loading' = Loading
    BY <1>2 DEF RequireWithoutCode, Loading
  <2>11. Made(file, TRUE)
    BY <1>2, Created DEF RequireWithoutCode
  <2> USE <2>11
  <2>2. TypeOK'
    BY <2>1 DEF TypeOK, Made
  <2>3. CachedIsLive'
    BY <2>1 DEF Made, CachedIsLive, TypeOK
  <2>4. GlobalsFollowStack'
    BY <2>1 DEF GlobalsFollowStack, Top
  <2>5. FramesNest'
    <3>1. \A k \in 1 .. Len(stack) :
            /\ stack[k].instance \in 1 .. Len(instances')
            /\ ~instances'[stack[k].instance].loaded
      <4> TAKE k \in 1 .. Len(stack)
      <4>1. stack[k].instance \in 1 .. Len(instances) /\ ~instances[stack[k].instance].loaded
        BY DEF FramesNest
      <4> QED BY <2>1, <4>1 DEF Made
    <3> QED BY <2>1, <3>1 DEF FramesNest
  <2>6. LiveIsCached'
    <3> SUFFICES ASSUME NEW i \in 1 .. Len(instances'), resets' = 0, Alive(i)',
                        instances'[i].path \notin forgotten'
                 PROVE  cache'[instances'[i].path] = i
      BY DEF LiveIsCached
    <3>1. CASE i = Len(instances')
      BY <2>1, <3>1 DEF Made, TypeOK
    <3>2. CASE i # Len(instances')
      <4>1. i \in 1 .. Len(instances) /\ instances'[i] = instances[i]
        BY <2>1, <3>2 DEF Made
      <4>2. Alive(i)
        BY <2>1, <4>1 DEF Alive
      <4>3. instances[i].path \in Path /\ resets = 0
        BY <4>1, InstanceType DEF Made
      <4>4. instances[i].path \notin forgotten
        BY <4>1 DEF Made
      <4>5. instances[i].path # file /\ cache[instances[i].path] = i
        BY <4>1, <4>2, <4>3, <4>4 DEF Made, LiveIsCached
      <4> QED BY <4>1, <4>3, <4>5 DEF Made, TypeOK
    <3> QED BY <3>1, <3>2
  <2> QED BY <2>2, <2>3, <2>4, <2>5, <2>6
<1>3. CASE EndRequire
  <2>1. PICK done : done = [instances[Top.instance] EXCEPT !.loaded = TRUE]
    OBVIOUS
  <2>2. Top.instance \in 1 .. Len(instances)
    BY <1>3, InnermostCall DEF EndRequire
  <2>3. done \in [path : Path, loaded : BOOLEAN]
        /\ done.path = instances[Top.instance].path /\ done.loaded
    BY <2>1, <2>2, InstanceType
  <2>4. /\ instances' \in Seq([path : Path, loaded : BOOLEAN])
        /\ Len(instances') = Len(instances)
        /\ \A i \in 1 .. Len(instances) :
             instances'[i] = IF i = Top.instance THEN done ELSE instances[i]
    <3>1. instances' = [instances EXCEPT ![Top.instance] = done]
      BY <1>3, <2>1 DEF EndRequire
    <3> QED BY <2>2, <2>3, <3>1, ExceptSeq DEF TypeOK
  <2>5. /\ stack' \in Seq(Frame)
        /\ module' \in Instance \cup {Main} /\ Buffer' \in Instance \cup {Main, None}
        /\ Loading' = Loading \ {Top.instance} /\ Top.instance \in Loading
        /\ FramesNest' /\ GlobalsFollowStack'
    BY <1>3, <2>4, Leave DEF EndRequire
  <2>6. TypeOK'
    BY <1>3, <2>4, <2>5 DEF EndRequire, TypeOK
  <2>7. CachedIsLive'
    <3> SUFFICES ASSUME NEW file \in Path, cache[file] # None
                 PROVE  /\ instances'[cache[file]].path = file
                        /\ instances'[cache[file]].loaded \/ cache[file] \in Loading'
      BY <1>3 DEF EndRequire, CachedIsLive
    <3>1. cache[file] \in 1 .. Len(instances)
      BY DEF TypeOK
    <3> QED BY <2>3, <2>4, <2>5, <3>1 DEF CachedIsLive
  <2>8. LiveIsCached'
    <3> SUFFICES ASSUME NEW i \in 1 .. Len(instances), resets = 0, Alive(i)',
                        instances'[i].path \notin forgotten
                 PROVE  cache[instances'[i].path] = i
      BY <1>3, <2>4 DEF EndRequire, LiveIsCached
    <3>1. Alive(i) /\ instances'[i].path = instances[i].path
      BY <2>3, <2>4, <2>5 DEF Alive
    <3> QED BY <3>1 DEF LiveIsCached
  <2> QED BY <2>5, <2>6, <2>7, <2>8
<1>4. CASE Throw
  <2>1. /\ stack' \in Seq(Frame)
        /\ module' \in Instance \cup {Main} /\ Buffer' \in Instance \cup {Main, None}
        /\ Loading' = Loading \ {Top.instance}
        /\ Top.instance \in Loading /\ Top.instance \in 1 .. Len(instances)
        /\ FramesNest' /\ GlobalsFollowStack'
    BY <1>4, Leave DEF Throw
  <2>2. PICK file \in Path : file = instances[Top.instance].path
    BY <2>1, InstanceType
  <2>3. /\ cache' = [cache EXCEPT ![file] = None]
        /\ published' = IF resets = 0 THEN cache' ELSE published
        /\ UNCHANGED <<instances, resets, forgotten>>
    BY <1>4, <2>2 DEF Throw, SetEntry
  <2>4. TypeOK'
    BY <2>1, <2>3 DEF TypeOK
  <2>5. CachedIsLive'
    <3> SUFFICES ASSUME NEW key \in Path, cache'[key] # None
                 PROVE  /\ instances[cache'[key]].path = key
                        /\ instances[cache'[key]].loaded \/ cache'[key] \in Loading'
      BY <2>3 DEF CachedIsLive
    <3>1. key # file /\ cache'[key] = cache[key]
      BY <2>3 DEF TypeOK
    <3>2. cache[key] # Top.instance
      BY <2>2, <3>1 DEF CachedIsLive
    <3> QED BY <2>1, <3>1, <3>2 DEF CachedIsLive
  <2>6. LiveIsCached'
    <3> SUFFICES ASSUME NEW i \in 1 .. Len(instances), resets = 0, Alive(i)',
                        instances[i].path \notin forgotten
                 PROVE  cache'[instances[i].path] = i
      BY <2>3 DEF LiveIsCached
    <3>1. Alive(i) /\ i # Top.instance
      <4>1. ~instances[Top.instance].loaded
        BY <1>4, InnermostCall DEF Throw
      <4> QED BY <2>1, <2>3, <4>1 DEF Alive
    <3>2. cache[instances[i].path] = i /\ instances[i].path \in Path
      BY <3>1, InstanceType DEF LiveIsCached
    <3>3. instances[i].path # file
      <4>1. SUFFICES ASSUME instances[i].path = file PROVE FALSE
        OBVIOUS
      <4>2. Alive(Top.instance)
        BY <2>1 DEF Alive
      <4>3. cache[file] = Top.instance
        BY <2>1, <2>2, <4>1, <4>2 DEF LiveIsCached
      <4> QED BY <3>1, <3>2, <4>1, <4>3
    <3> QED BY <2>3, <3>2, <3>3 DEF TypeOK
  <2> QED BY <2>1, <2>4, <2>5, <2>6
<1>5. CASE AssignMainExports
  <2>1. resets' # 0 /\ resets' \in 0 .. MaxResets
    BY <1>5, BoundAssumption DEF AssignMainExports, TypeOK
  <2> QED BY <1>5, <2>1 DEF AssignMainExports, Empty, TypeOK, CachedIsLive,
              GlobalsFollowStack, Top, FramesNest, LiveIsCached
<1>6. ASSUME NEW file \in Path, Forget(file) PROVE CommonJsInv'
  <2>1. /\ UNCHANGED <<instances, stack, module, Buffer, resets>>
        /\ forgotten' = forgotten \cup {file}
        /\ \A key \in Path : cache'[key] \in {cache[key], None}
        /\ \A key \in Path : key # file => cache'[key] = cache[key]
        /\ TypeOK'
    BY <1>6 DEF Forget, TypeOK
  <2>2. LiveIsCached'
    <3> SUFFICES ASSUME NEW i \in 1 .. Len(instances), resets = 0, Alive(i),
                        instances[i].path \notin forgotten, instances[i].path # file
                 PROVE  cache'[instances[i].path] = i
      BY <2>1 DEF LiveIsCached, Alive, Loading
    <3>1. instances[i].path \in Path
      BY InstanceType
    <3> QED BY <2>1, <3>1 DEF LiveIsCached
  <2>3. CachedIsLive'
    BY <2>1 DEF CachedIsLive, Loading
  <2>4. GlobalsFollowStack' /\ FramesNest'
    BY <2>1 DEF GlobalsFollowStack, Top, FramesNest
  <2> QED BY <2>1, <2>2, <2>3, <2>4
<1>7. CASE SetBuffer
  <2>1. Top.instance \in Instance
    BY <1>7, OuterCalls DEF SetBuffer, Frame
  <2>2. /\ TypeOK' /\ GlobalsFollowStack'
        /\ UNCHANGED <<instances, cache, stack, resets, forgotten>>
    BY <1>7, <2>1 DEF SetBuffer, TypeOK, GlobalsFollowStack, Top
  <2> QED BY <2>2, NothingMoves
<1>8. CASE Finished \/ UNCHANGED vars
  <2>1. UNCHANGED vars
    BY <1>8 DEF Finished
  <2>2. TypeOK' /\ GlobalsFollowStack'
    BY <2>1 DEF vars, TypeOK, GlobalsFollowStack, Top
  <2> QED BY <2>1, <2>2, NothingMoves DEF vars
<1> QED BY <1>1, <1>2, <1>3, <1>4, <1>5, <1>6, <1>7, <1>8 DEF Next

(***************************************************************************)
(* CommonJsInv is an invariant of the specification.                       *)
(***************************************************************************)
THEOREM Inductive == Spec => []CommonJsInv
<1>1. Init => CommonJsInv
  BY CommonJsStarts
<1>2. CommonJsInv /\ [Next]_vars => CommonJsInv'
  BY CommonJsStep
<1> QED BY <1>1, <1>2, PTL DEF Spec

(* The variables keep their types. *)
THEOREM TypeCorrect == Spec => []TypeOK
  BY Inductive, PTL DEF CommonJsInv

(* What require finds in the cache has loaded or is part of a cycle. *)
THEOREM CachedStaysLive == Spec => []CachedIsLive
  BY Inductive, PTL DEF CommonJsInv

(* Code sees its own module, and the main script gets its globals back. *)
THEOREM GlobalsAlwaysFollow == Spec => []GlobalsFollowStack
  BY Inductive, PTL DEF CommonJsInv

(* Without an assignment to the exports of the main script a path is       *)
(* evaluated at most once, unless it fails or is forgotten.                *)
THEOREM EvaluatedOnce == Spec => []OnceUntilReset
<1>1. CommonJsInv => OnceUntilReset
  BY DEF CommonJsInv, LiveIsCached, Alive, OnceUntilReset
<1> QED BY <1>1, Inductive, PTL

-----------------------------------------------------------------------------
(* Events: the lists of listeners. *)

(* A wrapper is at one place of a list at most. *)
Distinct(list) ==
  \A i, j \in 1 .. Len(list) :
    list[i].wrapper = list[j].wrapper /\ list[i].wrapper # 0 => i = j

LEMMA WrapperIsNat ==
  ASSUME NEW l \in E!Listener PROVE l.wrapper \in Nat
<1>1. CASE l \in [fn : E!Plain, wrapper : {0}]
  BY <1>1
<1>2. CASE l \in [fn : E!Wrapped, wrapper : 1 .. MaxOnce]
  BY <1>2, LibraryBounds
<1> QED BY <1>1, <1>2 DEF E!Listener

(* The first place of a list with some property. *)
LEMMA FirstPlace ==
  ASSUME NEW n \in Nat, NEW I, I \subseteq 1 .. n, I # {}
  PROVE  /\ E!Min(I) \in I
         /\ \A i \in I : E!Min(I) <= i
<1>1. I \subseteq Nat
  OBVIOUS
<1>2. IsFiniteSet(I)
  <2>1. 1 \in Int /\ n \in Int
    OBVIOUS
  <2>2. IsFiniteSet(1 .. n)
    BY <2>1, FS_Interval
  <2> QED BY <2>2, FS_Subset
<1>3. \E m \in I : \A x \in I : m <= x
  BY <1>1, <1>2, Smallest
<1> QED BY <1>3 DEF E!Min

(* removeListener takes one place out, the first that is this listener. *)
LEMMA WithoutHas ==
  ASSUME NEW list \in Seq(E!Listener), NEW l \in E!Listener
  PROVE  /\ E!Without(list, l) \in Seq(E!Listener)
         /\ \A x : Has(E!Without(list, l), x) => Has(list, x)
         /\ Distinct(list) => Distinct(E!Without(list, l))
         /\ Distinct(list) /\ l.wrapper # 0 => ~Has(E!Without(list, l), l)
<1> DEFINE r == E!Without(list, l)
           I == {i \in 1 .. Len(list) : list[i] = l}
           n == Len(list)
           m == E!Min(I)
<1>1. n \in Nat /\ DOMAIN list = 1 .. n /\ \A i \in 1 .. n : list[i] \in E!Listener
  BY LenProperties, ElementOfSeq
<1>2. CASE I = {}
  <2>1. r = list
    BY <1>1, <1>2 DEF E!Without
  <2>2. ~Has(list, l)
    BY <1>2 DEF Has
  <2> QED BY <2>1, <2>2
<1>3. CASE I # {}
  <2>1. m \in 1 .. n /\ list[m] = l /\ m \in Int /\ n \in Int
    <3>1. m \in I
      BY <1>1, <1>3, FirstPlace
    <3> QED BY <1>1, <3>1
  <2>2. r = SubSeq(list, 1, m - 1) \o SubSeq(list, m + 1, n)
    <3>1. r = E!RemoveFirst(list, l)
      BY <1>1, <2>1 DEF E!Without
    <3>2. E!SelectInSeq(list, LAMBDA v : v = l) = m
      BY <1>3 DEF E!SelectInSeq
    <3>3. r = E!RemoveAt(list, m)
      BY <2>1, <3>1, <3>2 DEF E!RemoveFirst
    <3> QED BY <3>3 DEF E!RemoveAt
  <2> DEFINE x1 == SubSeq(list, 1, m - 1)
             x2 == SubSeq(list, m + 1, n)
             m0 == m - 1
             m1 == m + 1
  <2> HIDE DEF r, I, m, n
  <2>3. /\ x1 \in Seq(E!Listener) /\ Len(x1) = m - 1
        /\ \A i \in 1 .. m - 1 : x1[i] = list[i]
    <3>1. m0 \in Int /\ 1 \in Int /\ m0 = m - 1 /\ (1 <= m0 => m0 - 1 + 1 = m - 1) /\ (~(1 <= m0) => m - 1 = 0)
      BY <2>1
    <3>2. \A i \in 1 .. m0 : list[i] \in E!Listener
      BY <1>1, <2>1
    <3> HIDE DEF m0
    <3>3. /\ SubSeq(list, 1, m0) \in Seq(E!Listener)
          /\ Len(SubSeq(list, 1, m0)) = IF 1 <= m0 THEN m0 - 1 + 1 ELSE 0
          /\ \A i \in 1 .. m0 - 1 + 1 : SubSeq(list, 1, m0)[i] = list[1 + i - 1]
      BY <3>1, <3>2, SubSeqProperties
    <3>4. \A i \in 1 .. m0 : i \in 1 .. m0 - 1 + 1 /\ 1 + i - 1 = i
      BY <3>1
    <3> QED BY <3>1, <3>3, <3>4
  <2>4. /\ x2 \in Seq(E!Listener) /\ Len(x2) = n - m
        /\ \A i \in 1 .. n - m : x2[i] = list[m + i]
    <3>1. m1 \in Int /\ m1 = m + 1 /\ (m1 <= n => n - m1 + 1 = n - m) /\ (~(m1 <= n) => n - m = 0)
      BY <2>1
    <3>2. \A i \in m1 .. n : list[i] \in E!Listener
      BY <1>1, <2>1
    <3>3. \A i \in 1 .. n - m : i \in 1 .. n - m1 + 1 /\ m1 + i - 1 = m + i
      BY <2>1
    <3> HIDE DEF m1
    <3>4. /\ SubSeq(list, m1, n) \in Seq(E!Listener)
          /\ Len(SubSeq(list, m1, n)) = IF m1 <= n THEN n - m1 + 1 ELSE 0
          /\ \A i \in 1 .. n - m1 + 1 : SubSeq(list, m1, n)[i] = list[m1 + i - 1]
      BY <2>1, <3>1, <3>2, SubSeqProperties
    <3> QED BY <3>1, <3>3, <3>4
  <2> HIDE DEF x1, x2
  <2>5. /\ r \in Seq(E!Listener) /\ Len(r) = n - 1
        /\ \A i \in 1 .. n - 1 : r[i] = list[IF i < m THEN i ELSE i + 1]
    <3>1. r = x1 \o x2
      BY <2>2 DEF x1, x2
    <3>2. /\ r \in Seq(E!Listener) /\ Len(r) = Len(x1) + Len(x2)
          /\ \A i \in 1 .. Len(x1) + Len(x2) :
               r[i] = IF i <= Len(x1) THEN x1[i] ELSE x2[i - Len(x1)]
      BY <2>3, <2>4, <3>1, ConcatProperties
    <3>3. Len(x1) + Len(x2) = n - 1
      BY <2>1, <2>3, <2>4
    <3>4. ASSUME NEW i \in 1 .. n - 1 PROVE r[i] = list[IF i < m THEN i ELSE i + 1]
      <4>1. CASE i < m
        <5>1. i <= m - 1 /\ i \in 1 .. m - 1
          BY <2>1, <4>1
        <5> QED BY <2>3, <3>2, <3>3, <4>1, <5>1
      <4>2. CASE ~(i < m)
        <5>1. ~(i <= m - 1) /\ i - (m - 1) \in 1 .. n - m /\ m + (i - (m - 1)) = i + 1
          BY <2>1, <4>2
        <5> QED BY <2>3, <2>4, <3>2, <3>3, <4>2, <5>1
      <4> QED BY <4>1, <4>2
    <3> QED BY <3>2, <3>3, <3>4
  <2>6. \A x : Has(r, x) => \E i \in 1 .. n : list[i] = x /\ i # m
    <3> SUFFICES ASSUME NEW x, Has(r, x) PROVE \E i \in 1 .. n : list[i] = x /\ i # m
      OBVIOUS
    <3>1. PICK i \in 1 .. n - 1 : r[i] = x
      BY <2>5 DEF Has
    <3>2. (IF i < m THEN i ELSE i + 1) \in 1 .. n /\ (IF i < m THEN i ELSE i + 1) # m
      BY <2>1
    <3> QED BY <2>5, <3>1, <3>2
  <2>7. ASSUME Distinct(list) PROVE Distinct(r)
    <3> SUFFICES ASSUME NEW i \in 1 .. n - 1, NEW j \in 1 .. n - 1,
                        r[i].wrapper = r[j].wrapper, r[i].wrapper # 0
                 PROVE  i = j
      BY <2>5 DEF Distinct
    <3> DEFINE i1 == IF i < m THEN i ELSE i + 1
               j1 == IF j < m THEN j ELSE j + 1
    <3>1. i1 \in 1 .. n /\ j1 \in 1 .. n /\ (i1 = j1 => i = j)
      BY <2>1
    <3>2. r[i] = list[i1] /\ r[j] = list[j1]
      BY <2>5
    <3> HIDE DEF i1, j1
    <3>3. \A k, k2 \in 1 .. n : list[k].wrapper = list[k2].wrapper /\ list[k].wrapper # 0 => k = k2
      BY <2>7 DEF Distinct, n
    <3>4. i1 = j1
      BY <3>1, <3>2, <3>3
    <3> QED BY <3>1, <3>4
  <2>8. ASSUME Distinct(list), l.wrapper # 0 PROVE ~Has(r, l)
    BY <2>1, <2>6, <2>8 DEF Distinct, n
  <2>9. \A x : Has(r, x) => Has(list, x)
    BY <2>6 DEF Has, n
  <2> QED BY <2>5, <2>7, <2>8, <2>9 DEF r
<1> QED BY <1>2, <1>3

(* addListener puts one listener at an end of the list. *)
LEMMA AppendKeeps ==
  ASSUME NEW list \in Seq(E!Listener), NEW l \in E!Listener
  PROVE  /\ Append(list, l) \in Seq(E!Listener)
         /\ \A x : Has(Append(list, l), x) <=> Has(list, x) \/ x = l
         /\ Distinct(list) /\ (l.wrapper # 0 => \A x : Has(list, x) => x.wrapper # l.wrapper)
              => Distinct(Append(list, l))
<1> DEFINE r == Append(list, l)
<1>1. /\ r \in Seq(E!Listener)
      /\ \A x : Has(r, x) <=> Has(list, x) \/ x = l
  BY AppendHas
<1>2. /\ Len(list) \in Nat /\ Len(r) = Len(list) + 1
      /\ r[Len(list) + 1] = l
      /\ \A i \in 1 .. Len(list) : r[i] = list[i]
  BY AppendProperties, LenProperties
<1> HIDE DEF r
<1>3. ASSUME Distinct(list), l.wrapper # 0 => \A x : Has(list, x) => x.wrapper # l.wrapper
      PROVE  Distinct(r)
  <2> SUFFICES ASSUME NEW i \in 1 .. Len(list) + 1, NEW j \in 1 .. Len(list) + 1,
                      r[i].wrapper = r[j].wrapper, r[i].wrapper # 0
               PROVE  i = j
    BY <1>2 DEF Distinct
  <2>1. CASE i \in 1 .. Len(list) /\ j \in 1 .. Len(list)
    BY <1>2, <1>3, <2>1 DEF Distinct
  <2>2. CASE i = Len(list) + 1 /\ j \in 1 .. Len(list)
    BY <1>2, <1>3, <2>2 DEF Has
  <2>3. CASE i \in 1 .. Len(list) /\ j = Len(list) + 1
    BY <1>2, <1>3, <2>3 DEF Has
  <2> QED BY <1>2, <2>1, <2>2, <2>3
<1> QED BY <1>1, <1>3 DEF r

LEMMA InsertKeeps ==
  ASSUME NEW list \in Seq(E!Listener), NEW l \in E!Listener, NEW front \in BOOLEAN
  PROVE  /\ E!Insert(list, l, front) \in Seq(E!Listener)
         /\ \A x : Has(E!Insert(list, l, front), x) <=> Has(list, x) \/ x = l
         /\ Distinct(list) /\ (l.wrapper # 0 => \A x : Has(list, x) => x.wrapper # l.wrapper)
              => Distinct(E!Insert(list, l, front))
<1>1. CASE ~front
  BY <1>1, AppendKeeps DEF E!Insert
<1>2. CASE front
  <2> DEFINE r == <<l>> \o list
             s == <<l>>
  <2>1. s \in Seq(E!Listener) /\ Len(s) = 1 /\ s[1] = l
    OBVIOUS
  <2> HIDE DEF s
  <2>2. /\ r \in Seq(E!Listener) /\ Len(r) = 1 + Len(list)
        /\ \A i \in 1 .. 1 + Len(list) : r[i] = IF i <= 1 THEN s[i] ELSE list[i - 1]
    <3>1. /\ s \o list \in Seq(E!Listener) /\ Len(s \o list) = Len(s) + Len(list)
          /\ \A i \in 1 .. Len(s) + Len(list) :
               (s \o list)[i] = IF i <= Len(s) THEN s[i] ELSE list[i - Len(s)]
      BY <2>1, ConcatProperties
    <3> QED BY <2>1, <3>1 DEF s
  <2>3. Len(list) \in Nat
    BY LenProperties
  <2> HIDE DEF r
  <2>4. r[1] = l /\ \A i \in 1 .. Len(list) : r[i + 1] = list[i]
    <3>1. r[1] = l
      BY <2>1, <2>2, <2>3
    <3>2. ASSUME NEW i \in 1 .. Len(list) PROVE r[i + 1] = list[i]
      <4>1. i + 1 \in 1 .. 1 + Len(list) /\ ~(i + 1 <= 1) /\ i + 1 - 1 = i
        BY <2>3
      <4> QED BY <2>2, <4>1
    <3> QED BY <3>1, <3>2
  <2>5. \A j \in 1 .. 1 + Len(list) : j = 1 \/ (\E i \in 1 .. Len(list) : j = i + 1)
    <3> SUFFICES ASSUME NEW j \in 1 .. 1 + Len(list), j # 1
                 PROVE  \E i \in 1 .. Len(list) : j = i + 1
      OBVIOUS
    <3>1. j - 1 \in 1 .. Len(list) /\ j = (j - 1) + 1
      BY <2>3
    <3> QED BY <3>1
  <2>6. ASSUME NEW x PROVE Has(r, x) <=> Has(list, x) \/ x = l
    <3>1. ASSUME Has(r, x) PROVE Has(list, x) \/ x = l
      BY <2>2, <2>4, <2>5, <3>1 DEF Has
    <3>2. ASSUME Has(list, x) PROVE Has(r, x)
      <4>1. PICK i \in 1 .. Len(list) : list[i] = x
        BY <3>2 DEF Has
      <4>2. i + 1 \in 1 .. Len(r)
        BY <2>2, <2>3
      <4> QED BY <2>4, <4>1, <4>2 DEF Has
    <3>3. Has(r, l)
      BY <2>2, <2>3, <2>4 DEF Has
    <3> QED BY <3>1, <3>2, <3>3
  <2>7. ASSUME Distinct(list), l.wrapper # 0 => \A x : Has(list, x) => x.wrapper # l.wrapper
        PROVE  Distinct(r)
    <3> SUFFICES ASSUME NEW i \in 1 .. 1 + Len(list), NEW j \in 1 .. 1 + Len(list),
                        r[i].wrapper = r[j].wrapper, r[i].wrapper # 0
                 PROVE  i = j
      BY <2>2 DEF Distinct
    <3>1. \A k, k2 \in 1 .. Len(list) : r[k + 1].wrapper = r[k2 + 1].wrapper /\ r[k + 1].wrapper # 0
                                      => k = k2
      BY <2>4, <2>7 DEF Distinct
    <3>2. \A k \in 1 .. Len(list) : r[k + 1].wrapper # 0 => r[k + 1].wrapper # l.wrapper
      BY <2>4, <2>7 DEF Has
    <3> QED BY <2>4, <2>5, <3>1, <3>2
  <2> QED BY <1>2, <2>2, <2>6, <2>7 DEF E!Insert, r
<1> QED BY <1>1, <1>2

-----------------------------------------------------------------------------
(* A listener is on the list of an event, or in an emission of it. *)
Occurs(e, l) ==
  \/ Has(listeners[e], l)
  \/ \E k \in 1 .. Len(emitting) : emitting[k].event = e /\ Has(emitting[k].rest, l)

Emission == [event : E!Event, value : Nat, rest : Seq(E!Listener), running : BOOLEAN]

EmitterTypes ==
  /\ listeners \in [E!Event -> Seq(E!Listener)]
  /\ emitting \in Seq(Emission)
  /\ wrappers \in Nat /\ emitted \in Nat
  /\ runs \in [1 .. MaxOnce -> Nat]

(* Wrappers are numbered as they are made; one is for one event, and is    *)
(* at one place of a list.                                                 *)
WrappersApart ==
  /\ \A e \in E!Event, l \in E!Listener : Occurs(e, l) => l.wrapper <= wrappers
  /\ \A e, f \in E!Event, l, m \in E!Listener :
       Occurs(e, l) /\ Occurs(f, m) /\ l.wrapper = m.wrapper /\ l.wrapper # 0 => l = m /\ e = f
  /\ \A e \in E!Event : Distinct(listeners[e])
  /\ \A k \in 1 .. Len(emitting) : Distinct(emitting[k].rest)

(* A wrapper that ran was made and is on no list; and unless an event was  *)
(* emitted inside itself, no other emission goes on to call it.            *)
RunOnce ==
  /\ \A w \in 1 .. MaxOnce : w > wrappers => runs[w] = 0
  /\ \A e \in E!Event, l \in E!Listener :
       Has(listeners[e], l) /\ l.wrapper # 0 => runs[l.wrapper] = 0
  /\ nested = {} =>
       /\ \A i, j \in 1 .. Len(emitting) : emitting[i].event = emitting[j].event => i = j
       /\ \A w \in 1 .. MaxOnce : runs[w] <= 1
       /\ \A e \in E!Event, l \in E!Listener : Occurs(e, l) /\ l.wrapper # 0 => runs[l.wrapper] = 0

EmitterInv == EmitterTypes /\ WrappersApart /\ RunOnce

LEMMA RunsAtMostOnce == ASSUME EmitterInv PROVE E!OnceRunsOnce
<1> SUFFICES ASSUME NEW w \in 1 .. MaxOnce
             PROVE  /\ runs[w] > 1 => nested # {}
                    /\ runs[w] > 0 => \A e \in E!Event : \A i \in DOMAIN listeners[e] :
                                        listeners[e][i].wrapper # w
  BY DEF E!OnceRunsOnce
<1>1. runs[w] \in Nat
  BY DEF EmitterInv, EmitterTypes
<1>2. runs[w] > 1 => nested # {}
  BY <1>1 DEF EmitterInv, RunOnce
<1>3. ASSUME runs[w] > 0, NEW e \in E!Event, NEW i \in DOMAIN listeners[e]
      PROVE  listeners[e][i].wrapper # w
  <2>1. listeners[e] \in Seq(E!Listener)
    BY DEF EmitterInv, EmitterTypes
  <2>2. i \in 1 .. Len(listeners[e]) /\ listeners[e][i] \in E!Listener
    BY <2>1, LenProperties, ElementOfSeq
  <2>3. Has(listeners[e], listeners[e][i])
    BY <2>2 DEF Has
  <2>4. w # 0
    OBVIOUS
  <2> QED BY <1>1, <1>3, <2>2, <2>3, <2>4 DEF EmitterInv, RunOnce
<1> QED BY <1>2, <1>3

LEMMA EmitterStarts == ASSUME E!Init PROVE EmitterInv
<1> USE DEF E!Init
<1>1. \A e \in E!Event : listeners[e] = <<>>
  OBVIOUS
<1>2. <<>> \in Seq(E!Listener) /\ <<>> \in Seq(Emission) /\ Len(<<>>) = 0
  BY EmptySeq
<1>3. EmitterTypes
  BY <1>2 DEF EmitterTypes
<1>4. \A l : ~Has(<<>>, l)
  BY EmptyHasNone
<1>5. \A e \in E!Event : \A l : ~Occurs(e, l)
  BY <1>1, <1>2, <1>4 DEF Occurs
<1>6. WrappersApart
  BY <1>1, <1>2, <1>5 DEF WrappersApart, Distinct
<1>7. RunOnce
  BY <1>1, <1>2, <1>4, <1>5 DEF RunOnce
<1> QED BY <1>3, <1>6, <1>7 DEF EmitterInv

(* A step that makes no wrapper, and puts none where it was not. *)
LEMMA NoneMade ==
  ASSUME EmitterInv, EmitterTypes', UNCHANGED <<wrappers, runs>>,
         nested' = {} => nested = {},
         \A e \in E!Event, l \in E!Listener :
           l.wrapper # 0 /\ Has(listeners'[e], l) => Has(listeners[e], l),
         \A e \in E!Event, l \in E!Listener : l.wrapper # 0 /\ Occurs(e, l)' => Occurs(e, l),
         \A e \in E!Event : Distinct(listeners'[e]),
         \A k \in 1 .. Len(emitting') : Distinct(emitting'[k].rest),
         nested' = {} => \A i, j \in 1 .. Len(emitting') :
                           emitting'[i].event = emitting'[j].event => i = j
  PROVE  EmitterInv'
<1> USE DEF EmitterInv
<1>1. WrappersApart'
  <2>1. \A e \in E!Event, l \in E!Listener : Occurs(e, l)' => l.wrapper <= wrappers
    <3> SUFFICES ASSUME NEW e \in E!Event, NEW l \in E!Listener, Occurs(e, l)'
                 PROVE  l.wrapper <= wrappers
      OBVIOUS
    <3>1. CASE l.wrapper = 0
      BY <3>1 DEF EmitterTypes
    <3>2. CASE l.wrapper # 0
      BY <3>2 DEF WrappersApart
    <3> QED BY <3>1, <3>2
  <2>2. \A e, f \in E!Event, l, m \in E!Listener :
          Occurs(e, l)' /\ Occurs(f, m)' /\ l.wrapper = m.wrapper /\ l.wrapper # 0
            => l = m /\ e = f
    BY DEF WrappersApart
  <2> QED BY <2>1, <2>2 DEF WrappersApart, Distinct
<1>2. RunOnce'
  <2>1. \A w \in 1 .. MaxOnce : w > wrappers => runs[w] = 0
    BY DEF RunOnce
  <2>2. \A e \in E!Event, l \in E!Listener :
          Has(listeners'[e], l) /\ l.wrapper # 0 => runs[l.wrapper] = 0
    BY DEF RunOnce
  <2>3. ASSUME nested' = {}
        PROVE  /\ \A w \in 1 .. MaxOnce : runs[w] <= 1
               /\ \A e \in E!Event, l \in E!Listener :
                    Occurs(e, l)' /\ l.wrapper # 0 => runs[l.wrapper] = 0
    BY <2>3 DEF RunOnce
  <2> QED BY <2>1, <2>2, <2>3 DEF RunOnce, Has
<1> QED BY <1>1, <1>2

(* A step that makes wrappers, each for the list of one event. *)
LEMMA SomeMade ==
  ASSUME EmitterInv, EmitterTypes', wrappers' >= wrappers,
         UNCHANGED <<emitting, runs, nested>>,
         \A e \in E!Event : Distinct(listeners'[e]),
         \A e \in E!Event, l \in E!Listener : Has(listeners'[e], l) =>
           Has(listeners[e], l) \/ (l.wrapper > wrappers /\ l.wrapper <= wrappers'),
         \A e, f \in E!Event, l, m \in E!Listener :
           /\ Has(listeners'[e], l) /\ Has(listeners'[f], m)
           /\ l.wrapper = m.wrapper /\ l.wrapper > wrappers
           => l = m /\ e = f
  PROVE  EmitterInv'
<1> USE DEF EmitterInv
<1>1. wrappers \in Nat /\ wrappers' \in Nat /\ \A l \in E!Listener : l.wrapper \in Nat
  BY WrapperIsNat DEF EmitterTypes
<1>2. \A e \in E!Event, l \in E!Listener : Occurs(e, l)' =>
        Occurs(e, l) \/ (l.wrapper > wrappers /\ l.wrapper <= wrappers' /\ Has(listeners'[e], l))
  BY DEF Occurs
<1>3. \A e \in E!Event, l \in E!Listener : Occurs(e, l) => l.wrapper <= wrappers
  BY DEF WrappersApart
<1>4. WrappersApart'
  <2>1. \A e \in E!Event, l \in E!Listener : Occurs(e, l)' => l.wrapper <= wrappers'
    BY <1>1, <1>2, <1>3
  <2>2. ASSUME NEW e \in E!Event, NEW f \in E!Event, NEW l \in E!Listener, NEW m \in E!Listener,
               Occurs(e, l)', Occurs(f, m)', l.wrapper = m.wrapper, l.wrapper # 0
        PROVE  l = m /\ e = f
    <3>1. CASE Occurs(e, l)
      <4>1. Occurs(f, m)
        BY <1>1, <1>2, <1>3, <2>2, <3>1
      <4> QED BY <2>2, <3>1, <4>1 DEF WrappersApart
    <3>2. CASE ~Occurs(e, l)
      <4>1. Has(listeners'[e], l) /\ Has(listeners'[f], m) /\ l.wrapper > wrappers
        BY <1>1, <1>2, <1>3, <2>2, <3>2
      <4> QED BY <2>2, <4>1
    <3> QED BY <3>1, <3>2
  <2>3. \A k \in 1 .. Len(emitting) : Distinct(emitting[k].rest)
    BY DEF WrappersApart
  <2> QED BY <2>1, <2>2, <2>3 DEF WrappersApart, Distinct
<1>5. RunOnce'
  <2>1. \A w \in 1 .. MaxOnce : w > wrappers => runs[w] = 0
    BY DEF RunOnce
  <2>2. ASSUME NEW w \in 1 .. MaxOnce, w > wrappers' PROVE runs[w] = 0
    <3>1. w > wrappers
      BY <1>1, <2>2, LibraryBounds
    <3> QED BY <2>1, <3>1
  <2>3. ASSUME NEW l \in E!Listener, l.wrapper > wrappers PROVE runs[l.wrapper] = 0
    <3>1. l.wrapper \in 1 .. MaxOnce
      <4>1. CASE l \in [fn : E!Plain, wrapper : {0}]
        BY <1>1, <2>3, <4>1
      <4>2. CASE l \in [fn : E!Wrapped, wrapper : 1 .. MaxOnce]
        BY <4>2
      <4> QED BY <4>1, <4>2 DEF E!Listener
    <3> QED BY <2>1, <2>3, <3>1
  <2>4. \A e \in E!Event, l \in E!Listener :
          Has(listeners'[e], l) /\ l.wrapper # 0 => runs[l.wrapper] = 0
    BY <2>3 DEF RunOnce
  <2>5. ASSUME nested' = {}
        PROVE  /\ \A i, j \in 1 .. Len(emitting) : emitting[i].event = emitting[j].event => i = j
               /\ \A w \in 1 .. MaxOnce : runs[w] <= 1
               /\ \A e \in E!Event, l \in E!Listener :
                    Occurs(e, l)' /\ l.wrapper # 0 => runs[l.wrapper] = 0
    BY <1>2, <2>3, <2>5 DEF RunOnce
  <2> QED BY <2>2, <2>4, <2>5 DEF RunOnce, Has
<1> QED BY <1>4, <1>5

(* The innermost emission. *)
LEMMA Innermost ==
  ASSUME EmitterTypes, emitting # <<>>
  PROVE  /\ Len(emitting) \in 1 .. Len(emitting) /\ Len(emitting) \in Nat \ {0}
         /\ E!Last(emitting) = emitting[Len(emitting)]
         /\ E!Last(emitting) \in Emission
         /\ \A k \in 1 .. Len(emitting) : emitting[k] \in Emission
<1>1. Len(emitting) \in Nat \ {0} /\ emitting \in Seq(Emission)
  BY EmptySeq DEF EmitterTypes
<1>2. \A k \in 1 .. Len(emitting) : emitting[k] \in Emission
  BY <1>1, ElementOfSeq
<1>3. Len(emitting) \in 1 .. Len(emitting)
  BY <1>1
<1> QED BY <1>1, <1>2, <1>3 DEF E!Last

LEMMA EmissionFields ==
  ASSUME NEW h \in Emission
  PROVE  h.event \in E!Event /\ h.value \in Nat /\ h.rest \in Seq(E!Listener)
BY DEF Emission

(* Another emission in the place of the innermost. *)
LEMMA InnermostBecomes ==
  ASSUME EmitterTypes, emitting # <<>>, NEW h \in Emission,
         emitting' = [emitting EXCEPT ![Len(emitting)] = h]
  PROVE  /\ emitting' \in Seq(Emission) /\ Len(emitting') = Len(emitting)
         /\ emitting'[Len(emitting)] = h
         /\ \A k \in 1 .. Len(emitting) : k # Len(emitting) => emitting'[k] = emitting[k]
<1>1. Len(emitting) \in 1 .. Len(emitting)
  BY Innermost
<1> QED BY <1>1, ExceptSeq DEF EmitterTypes

(* The innermost emission ends. *)
LEMMA InnermostEnds ==
  ASSUME EmitterInv, emitting # <<>>, emitting' = E!Front(emitting),
         UNCHANGED <<listeners, wrappers, runs, nested, emitted>>
  PROVE  EmitterInv'
<1> USE DEF EmitterInv
<1>1. /\ emitting' \in Seq(Emission) /\ Len(emitting') = Len(emitting) - 1
      /\ \A k \in 1 .. Len(emitting') : k \in 1 .. Len(emitting) /\ emitting'[k] = emitting[k]
  <2> DEFINE n == Len(emitting) - 1
  <2>1. /\ n \in Int /\ 1 \in Int /\ n \in Nat /\ n + 1 = Len(emitting)
        /\ \A k \in 1 .. n : emitting[k] \in Emission /\ k \in 1 .. Len(emitting)
    BY Innermost
  <2>2. emitting' = SubSeq(emitting, 1, n)
    BY DEF E!Front
  <2> HIDE DEF n
  <2>3. /\ SubSeq(emitting, 1, n) \in Seq(Emission)
        /\ Len(SubSeq(emitting, 1, n)) = IF 1 <= n THEN n - 1 + 1 ELSE 0
        /\ \A k \in 1 .. n - 1 + 1 : SubSeq(emitting, 1, n)[k] = emitting[1 + k - 1]
    BY <2>1, SubSeqProperties
  <2>4. Len(emitting') = n /\ emitting' \in Seq(Emission)
    BY <2>1, <2>2, <2>3
  <2>5. \A k \in 1 .. n : k \in 1 .. n - 1 + 1 /\ 1 + k - 1 = k
    BY <2>1
  <2> QED BY <2>1, <2>2, <2>3, <2>4, <2>5 DEF n
<1>2. EmitterTypes'
  BY <1>1 DEF EmitterTypes
<1>3. \A e \in E!Event, l \in E!Listener : Occurs(e, l)' => Occurs(e, l)
  BY <1>1 DEF Occurs, Has
<1>4. \A k \in 1 .. Len(emitting') : Distinct(emitting'[k].rest)
  BY <1>1 DEF WrappersApart
<1>5. \A e \in E!Event : Distinct(listeners[e])
  BY DEF WrappersApart
<1>6. nested' = {} => \A i, j \in 1 .. Len(emitting') : emitting'[i].event = emitting'[j].event => i = j
  BY <1>1 DEF RunOnce
<1> QED BY <1>2, <1>3, <1>4, <1>5, <1>6, NoneMade

(* The lists change by plain listeners, or by what is taken out. *)
LEMMA ListsChange ==
  ASSUME EmitterInv, UNCHANGED <<emitting, wrappers, runs, nested, emitted>>,
         listeners' \in [E!Event -> Seq(E!Listener)],
         \A e \in E!Event, l \in E!Listener :
           l.wrapper # 0 /\ Has(listeners'[e], l) => Has(listeners[e], l),
         \A e \in E!Event : Distinct(listeners'[e])
  PROVE  EmitterInv'
<1> USE DEF EmitterInv
<1>1. EmitterTypes'
  BY DEF EmitterTypes
<1>2. \A e \in E!Event, l \in E!Listener : l.wrapper # 0 /\ Occurs(e, l)' => Occurs(e, l)
  BY DEF Occurs
<1>3. \A k \in 1 .. Len(emitting) : Distinct(emitting[k].rest)
  BY DEF WrappersApart
<1>4. nested = {} => \A i, j \in 1 .. Len(emitting) : emitting[i].event = emitting[j].event => i = j
  BY DEF RunOnce
<1> QED BY <1>1, <1>2, <1>3, <1>4, NoneMade

LEMMA PlainIsListener ==
  /\ \A f \in Fn : E!PlainOf(f) \in E!Listener
  /\ E!PlainOf("eventHandler") \in E!Listener /\ E!PlainOf("errorHandler") \in E!Listener
  /\ \A f : E!PlainOf(f).wrapper = 0
<1>1. \A f \in E!Plain : E!PlainOf(f) \in E!Listener
  BY DEF E!PlainOf, E!Listener
<1> QED BY <1>1 DEF E!PlainOf, E!Plain

LEMMA WrapperIsListener ==
  ASSUME NEW w \in 1 .. MaxOnce
  PROVE  /\ \A f \in Fn : E!WrapperOf(f, w) \in E!Listener
         /\ E!WrapperOf("onceEvent", w) \in E!Listener
         /\ E!WrapperOf("onceError", w) \in E!Listener
         /\ \A f : E!WrapperOf(f, w).wrapper = w
<1>1. \A f \in E!Wrapped : E!WrapperOf(f, w) \in E!Listener
  BY DEF E!WrapperOf, E!Listener
<1> QED BY <1>1 DEF E!WrapperOf, E!Wrapped

LEMMA AddListenerKeeps ==
  ASSUME EmitterInv, NEW e \in E!Event, NEW f \in Fn, NEW front \in BOOLEAN,
         E!AddListener(e, f, front)
  PROVE  EmitterInv'
<1> DEFINE x == E!PlainOf(f)
           r == E!Insert(listeners[e], x, front)
<1>1. /\ listeners' = [listeners EXCEPT ![e] = r]
      /\ UNCHANGED <<emitting, wrappers, runs, nested, emitted>>
  BY DEF E!AddListener
<1>2. /\ listeners \in [E!Event -> Seq(E!Listener)] /\ listeners[e] \in Seq(E!Listener)
      /\ x \in E!Listener /\ x.wrapper = 0
      /\ \A d \in E!Event : Distinct(listeners[d])
  BY PlainIsListener DEF EmitterInv, EmitterTypes, WrappersApart
<1>3. /\ r \in Seq(E!Listener) /\ Distinct(r)
      /\ \A l : Has(r, l) <=> Has(listeners[e], l) \/ l = x
  <2> HIDE DEF x
  <2> QED BY <1>2, InsertKeeps
<1> HIDE DEF x, r
<1>4. \A d \in E!Event : listeners'[d] = IF d = e THEN r ELSE listeners[d]
  BY <1>1, <1>2
<1>5. \A d \in E!Event, l \in E!Listener :
        l.wrapper # 0 /\ Has(listeners'[d], l) => Has(listeners[d], l)
  BY <1>2, <1>3, <1>4
<1>6. \A d \in E!Event : Distinct(listeners'[d])
  BY <1>2, <1>3, <1>4
<1>7. listeners' \in [E!Event -> Seq(E!Listener)]
  BY <1>1, <1>2, <1>3
<1> QED BY <1>1, <1>5, <1>6, <1>7, ListsChange

LEMMA OnceKeeps ==
  ASSUME EmitterInv, NEW e \in E!Event, NEW f \in Fn, NEW front \in BOOLEAN,
         E!Once(e, f, front)
  PROVE  EmitterInv'
<1> DEFINE w == wrappers + 1
           x == E!WrapperOf(f, w)
           r == E!Insert(listeners[e], x, front)
<1>1. /\ wrappers < MaxOnce /\ wrappers' = w
      /\ listeners' = [listeners EXCEPT ![e] = r]
      /\ UNCHANGED <<emitting, runs, nested, emitted>>
  BY DEF E!Once
<1>2. /\ listeners \in [E!Event -> Seq(E!Listener)] /\ listeners[e] \in Seq(E!Listener)
      /\ wrappers \in Nat
      /\ \A d \in E!Event : Distinct(listeners[d])
      /\ \A d \in E!Event, l \in E!Listener : Has(listeners[d], l) => l.wrapper <= wrappers
  BY DEF EmitterInv, EmitterTypes, WrappersApart, Occurs
<1>3. w \in 1 .. MaxOnce /\ w > wrappers /\ w \in Nat
  BY <1>1, <1>2, LibraryBounds
<1>4. x \in E!Listener /\ x.wrapper = w
  <2> HIDE DEF w
  <2> QED BY <1>3, WrapperIsListener
<1>5. \A l : Has(listeners[e], l) => l \in E!Listener
  BY <1>2, ElementOfSeq DEF Has
<1> HIDE DEF w, x
<1>6. \A l : Has(listeners[e], l) => l.wrapper # w
  BY <1>2, <1>3, <1>5, WrapperIsNat
<1>7. /\ r \in Seq(E!Listener) /\ Distinct(r)
      /\ \A l : Has(r, l) <=> Has(listeners[e], l) \/ l = x
  BY <1>2, <1>4, <1>6, InsertKeeps
<1> HIDE DEF r
<1>8. \A d \in E!Event : listeners'[d] = IF d = e THEN r ELSE listeners[d]
  BY <1>1, <1>2
<1>9. EmitterTypes'
  BY <1>1, <1>2, <1>3, <1>7 DEF EmitterInv, EmitterTypes
<1>10. \A d \in E!Event : Distinct(listeners'[d])
  BY <1>2, <1>7, <1>8
<1>11. \A d \in E!Event, l \in E!Listener : Has(listeners'[d], l) =>
         Has(listeners[d], l) \/ (l.wrapper > wrappers /\ l.wrapper <= wrappers')
  <2>1. w <= w
    BY <1>3
  <2> QED BY <1>1, <1>3, <1>4, <1>7, <1>8, <2>1
<1>12. \A d \in E!Event, l \in E!Listener :
         Has(listeners'[d], l) /\ l.wrapper > wrappers => d = e /\ l = x
  BY <1>2, <1>7, <1>8, WrapperIsNat
<1>13. wrappers' >= wrappers
  BY <1>1, <1>2, <1>3
<1> QED BY <1>1, <1>9, <1>10, <1>11, <1>12, <1>13, SomeMade

LEMMA RemoveListenerKeeps ==
  ASSUME EmitterInv, NEW e \in E!Event, NEW f \in Fn, E!RemoveListener(e, f)
  PROVE  EmitterInv'
<1> DEFINE x == E!PlainOf(f)
           r == E!Without(listeners[e], x)
<1>1. /\ listeners' = [listeners EXCEPT ![e] = r]
      /\ UNCHANGED <<emitting, wrappers, runs, nested, emitted>>
  BY DEF E!RemoveListener
<1>2. /\ listeners \in [E!Event -> Seq(E!Listener)] /\ listeners[e] \in Seq(E!Listener)
      /\ x \in E!Listener
      /\ \A d \in E!Event : Distinct(listeners[d])
  BY PlainIsListener DEF EmitterInv, EmitterTypes, WrappersApart
<1>3. /\ r \in Seq(E!Listener) /\ Distinct(r) /\ \A l : Has(r, l) => Has(listeners[e], l)
  <2> HIDE DEF x
  <2> QED BY <1>2, WithoutHas
<1> HIDE DEF x, r
<1>4. \A d \in E!Event : listeners'[d] = IF d = e THEN r ELSE listeners[d]
  BY <1>1, <1>2
<1>5. \A d \in E!Event, l \in E!Listener :
        l.wrapper # 0 /\ Has(listeners'[d], l) => Has(listeners[d], l)
  BY <1>3, <1>4
<1>6. \A d \in E!Event : Distinct(listeners'[d])
  BY <1>2, <1>3, <1>4
<1>7. listeners' \in [E!Event -> Seq(E!Listener)]
  BY <1>1, <1>2, <1>3
<1> QED BY <1>1, <1>5, <1>6, <1>7, ListsChange

LEMMA RemoveAllKeeps ==
  ASSUME EmitterInv, NEW es, E!RemoveAllListeners(es)
  PROVE  EmitterInv'
<1>1. /\ listeners' = [e \in E!Event |-> IF e \in es THEN <<>> ELSE listeners[e]]
      /\ UNCHANGED <<emitting, wrappers, runs, nested, emitted>>
  BY DEF E!RemoveAllListeners
<1>2. /\ listeners \in [E!Event -> Seq(E!Listener)]
      /\ \A d \in E!Event : Distinct(listeners[d])
  BY DEF EmitterInv, EmitterTypes, WrappersApart
<1>3. <<>> \in Seq(E!Listener) /\ Len(<<>>) = 0 /\ \A l : ~Has(<<>>, l)
  BY EmptySeq, EmptyHasNone
<1>4. \A d \in E!Event : listeners'[d] = <<>> \/ listeners'[d] = listeners[d]
  BY <1>1
<1>5. listeners' \in [E!Event -> Seq(E!Listener)]
  BY <1>1, <1>2, <1>3
<1>6. \A d \in E!Event : Distinct(listeners'[d])
  BY <1>2, <1>3, <1>4 DEF Distinct
<1>7. \A d \in E!Event, l \in E!Listener :
        l.wrapper # 0 /\ Has(listeners'[d], l) => Has(listeners[d], l)
  BY <1>3, <1>4
<1> QED BY <1>1, <1>5, <1>6, <1>7, ListsChange

LEMMA OpenIteratorKeeps ==
  ASSUME EmitterInv, E!OpenIterator
  PROVE  EmitterInv'
<1> DEFINE x(e) == E!PlainOf(IF e = "error" THEN "errorHandler" ELSE "eventHandler")
           r(e) == Append(listeners[e], x(e))
<1>1. /\ listeners' = [e \in E!Event |-> r(e)]
      /\ UNCHANGED <<emitting, wrappers, runs, nested, emitted>>
  BY DEF E!OpenIterator
<1>2. ASSUME NEW e \in E!Event
      PROVE  /\ r(e) \in Seq(E!Listener) /\ Distinct(r(e))
             /\ \A l \in E!Listener : l.wrapper # 0 /\ Has(r(e), l) => Has(listeners[e], l)
  <2>1. listeners[e] \in Seq(E!Listener) /\ Distinct(listeners[e])
    BY DEF EmitterInv, EmitterTypes, WrappersApart
  <2>2. x(e) \in E!Listener /\ x(e).wrapper = 0
    BY PlainIsListener
  <2> DEFINE y == x(e)
  <2> HIDE DEF x
  <2>3. /\ Append(listeners[e], y) \in Seq(E!Listener) /\ Distinct(Append(listeners[e], y))
        /\ \A l : Has(Append(listeners[e], y), l) <=> Has(listeners[e], l) \/ l = y
    <3>1. y \in E!Listener /\ y.wrapper = 0
      BY <2>2
    <3> HIDE DEF y
    <3> QED BY <2>1, <3>1, AppendKeeps
  <2> QED BY <2>2, <2>3
<1> HIDE DEF x, r
<1>3. \A e \in E!Event : listeners'[e] = r(e)
  BY <1>1
<1>4. listeners' \in [E!Event -> Seq(E!Listener)]
  BY <1>1, <1>2
<1>5. \A e \in E!Event : Distinct(listeners'[e])
  BY <1>2, <1>3
<1>6. \A e \in E!Event, l \in E!Listener :
        l.wrapper # 0 /\ Has(listeners'[e], l) => Has(listeners[e], l)
  BY <1>2, <1>3
<1> QED BY <1>1, <1>4, <1>5, <1>6, ListsChange

LEMMA ReturnIteratorKeeps ==
  ASSUME EmitterInv, E!ReturnIterator
  PROVE  EmitterInv'
<1> DEFINE x(e) == E!PlainOf(IF e = "error" THEN "errorHandler" ELSE "eventHandler")
           r(e) == E!Without(listeners[e], x(e))
<1>1. /\ listeners' = [e \in E!Event |-> r(e)]
      /\ UNCHANGED <<emitting, wrappers, runs, nested, emitted>>
  BY DEF E!ReturnIterator
<1>2. ASSUME NEW e \in E!Event
      PROVE  /\ r(e) \in Seq(E!Listener) /\ Distinct(r(e))
             /\ \A l \in E!Listener : l.wrapper # 0 /\ Has(r(e), l) => Has(listeners[e], l)
  <2>1. listeners[e] \in Seq(E!Listener) /\ Distinct(listeners[e])
    BY DEF EmitterInv, EmitterTypes, WrappersApart
  <2>2. x(e) \in E!Listener
    BY PlainIsListener
  <2> DEFINE y == x(e)
  <2> HIDE DEF x
  <2>3. /\ E!Without(listeners[e], y) \in Seq(E!Listener)
        /\ Distinct(E!Without(listeners[e], y))
        /\ \A l : Has(E!Without(listeners[e], y), l) => Has(listeners[e], l)
    <3>1. y \in E!Listener
      BY <2>2
    <3> HIDE DEF y
    <3> QED BY <2>1, <3>1, WithoutHas
  <2> QED BY <2>3
<1> HIDE DEF x, r
<1>3. \A e \in E!Event : listeners'[e] = r(e)
  BY <1>1
<1>4. listeners' \in [E!Event -> Seq(E!Listener)]
  BY <1>1, <1>2
<1>5. \A e \in E!Event : Distinct(listeners'[e])
  BY <1>2, <1>3
<1>6. \A e \in E!Event, l \in E!Listener :
        l.wrapper # 0 /\ Has(listeners'[e], l) => Has(listeners[e], l)
  BY <1>2, <1>3
<1> QED BY <1>1, <1>4, <1>5, <1>6, ListsChange

LEMMA AwaitOnceKeeps ==
  ASSUME EmitterInv, E!AwaitOnce
  PROVE  EmitterInv'
<1> DEFINE n(e) == IF e = "error" THEN wrappers + 1 ELSE wrappers + 2
           x(e) == IF e = "error" THEN E!WrapperOf("onceError", wrappers + 1)
                   ELSE E!WrapperOf("onceEvent", wrappers + 2)
           r(e) == Append(listeners[e], x(e))
<1>1. /\ listeners' = [e \in E!Event |-> r(e)]
      /\ wrappers' = wrappers + 2 /\ wrappers + 2 <= MaxOnce
      /\ UNCHANGED <<emitting, runs, nested, emitted>>
  BY DEF E!AwaitOnce
<1>2. /\ wrappers \in Nat /\ wrappers' >= wrappers /\ wrappers' \in Nat
      /\ wrappers + 1 \in 1 .. MaxOnce /\ wrappers + 2 \in 1 .. MaxOnce
  BY <1>1, LibraryBounds DEF EmitterInv, EmitterTypes
<1>3. ASSUME NEW e \in E!Event
      PROVE  /\ r(e) \in Seq(E!Listener) /\ Distinct(r(e))
             /\ n(e) > wrappers /\ n(e) <= wrappers' /\ x(e).wrapper = n(e)
             /\ \A l \in E!Listener : Has(r(e), l) =>
                  (Has(listeners[e], l) /\ l.wrapper <= wrappers) \/ l = x(e)
  <2>1. listeners[e] \in Seq(E!Listener) /\ Distinct(listeners[e])
    BY DEF EmitterInv, EmitterTypes, WrappersApart
  <2>2. x(e) \in E!Listener /\ x(e).wrapper = n(e) /\ n(e) > wrappers /\ n(e) <= wrappers'
    <3>1. CASE e = "error"
      <4>1. E!WrapperOf("onceError", wrappers + 1) \in E!Listener
            /\ E!WrapperOf("onceError", wrappers + 1).wrapper = wrappers + 1
        BY <1>2, WrapperIsListener
      <4> QED BY <1>1, <1>2, <3>1, <4>1
    <3>2. CASE e # "error"
      <4>1. E!WrapperOf("onceEvent", wrappers + 2) \in E!Listener
            /\ E!WrapperOf("onceEvent", wrappers + 2).wrapper = wrappers + 2
        BY <1>2, WrapperIsListener
      <4> QED BY <1>1, <1>2, <3>2, <4>1
    <3> QED BY <3>1, <3>2
  <2>3. \A l \in E!Listener : Has(listeners[e], l) => l.wrapper <= wrappers
    BY DEF EmitterInv, WrappersApart, Occurs
  <2> DEFINE y == x(e)
  <2>4. y \in E!Listener /\ y.wrapper > wrappers
    BY <2>2
  <2> HIDE DEF x, n, y
  <2>5. \A l : Has(listeners[e], l) => l.wrapper # y.wrapper
    <3>1. \A l : Has(listeners[e], l) => l \in E!Listener
      BY <2>1, ElementOfSeq DEF Has
    <3> QED BY <1>2, <2>3, <2>4, <3>1, WrapperIsNat
  <2>6. /\ Append(listeners[e], y) \in Seq(E!Listener) /\ Distinct(Append(listeners[e], y))
        /\ \A l : Has(Append(listeners[e], y), l) <=> Has(listeners[e], l) \/ l = y
    BY <2>1, <2>4, <2>5, AppendKeeps
  <2> QED BY <2>2, <2>3, <2>6 DEF y
<1>4. \A e, f \in E!Event : n(e) = n(f) => e = f
  <2>1. wrappers + 1 # wrappers + 2
    BY <1>2
  <2> QED BY <2>1 DEF E!Event
<1> HIDE DEF n, x, r
<1>5. \A e \in E!Event : listeners'[e] = r(e)
  BY <1>1
<1>6. listeners' \in [E!Event -> Seq(E!Listener)]
  BY <1>1, <1>3
<1>7. EmitterTypes'
  BY <1>1, <1>2, <1>6 DEF EmitterInv, EmitterTypes
<1>8. \A e \in E!Event : Distinct(listeners'[e])
  BY <1>3, <1>5
<1>9. \A e \in E!Event, l \in E!Listener : Has(listeners'[e], l) =>
        Has(listeners[e], l) \/ (l.wrapper > wrappers /\ l.wrapper <= wrappers')
  BY <1>3, <1>5
<1>10. \A e \in E!Event, l \in E!Listener :
         Has(listeners'[e], l) /\ l.wrapper > wrappers => l = x(e) /\ l.wrapper = n(e)
  <2>1. \A l \in E!Listener : l.wrapper > wrappers => ~(l.wrapper <= wrappers)
    BY <1>2, WrapperIsNat
  <2> QED BY <1>3, <1>5, <2>1
<1>11. \A e, f \in E!Event, l, m \in E!Listener :
         /\ Has(listeners'[e], l) /\ Has(listeners'[f], m)
         /\ l.wrapper = m.wrapper /\ l.wrapper > wrappers
         => l = m /\ e = f
  BY <1>4, <1>10
<1> QED BY <1>1, <1>2, <1>7, <1>8, <1>9, <1>11, SomeMade

(* An emission has its copy of the list. *)
LEMMA EmitKeeps ==
  ASSUME EmitterInv, NEW e \in E!Event, NEW v \in 0 .. MaxEmits, E!Emit(e, v)
  PROVE  EmitterInv'
<1> USE DEF EmitterInv
<1> DEFINE h == [event |-> e, value |-> v, rest |-> listeners[e], running |-> FALSE]
<1>1. /\ emitted' = emitted + 1
      /\ emitting' = IF listeners[e] = <<>> THEN emitting ELSE Append(emitting, h)
      /\ nested' = IF \E i \in DOMAIN emitting : emitting[i].event = e
                   THEN nested \cup {e} ELSE nested
      /\ UNCHANGED <<listeners, wrappers, runs>>
  BY DEF E!Emit
<1>2. /\ emitting \in Seq(Emission) /\ Len(emitting) \in Nat
      /\ DOMAIN emitting = 1 .. Len(emitting)
      /\ listeners[e] \in Seq(E!Listener) /\ Distinct(listeners[e])
  BY LenProperties DEF EmitterTypes, WrappersApart
<1>3. h \in Emission
  BY <1>2, LibraryBounds DEF Emission
<1>4. h.event = e /\ h.rest = listeners[e]
  OBVIOUS
<1> HIDE DEF h
<1>5. CASE emitting' = emitting
  <2>1. EmitterTypes'
    BY <1>1, <1>5 DEF EmitterTypes
  <2>2. \A d \in E!Event, l \in E!Listener : Occurs(d, l)' => Occurs(d, l)
    BY <1>1, <1>5 DEF Occurs
  <2>3. \A d \in E!Event : Distinct(listeners'[d])
    BY <1>1 DEF WrappersApart
  <2>4. \A k \in 1 .. Len(emitting') : Distinct(emitting'[k].rest)
    BY <1>5 DEF WrappersApart
  <2>5. nested' = {} => /\ nested = {}
                        /\ \A i, j \in 1 .. Len(emitting') :
                             emitting'[i].event = emitting'[j].event => i = j
    BY <1>1, <1>5 DEF RunOnce
  <2> QED BY <1>1, <2>1, <2>2, <2>3, <2>4, <2>5, NoneMade
<1>6. CASE emitting' = Append(emitting, h)
  <2>1. /\ emitting' \in Seq(Emission) /\ Len(emitting') = Len(emitting) + 1
        /\ emitting'[Len(emitting) + 1] = h
        /\ \A k \in 1 .. Len(emitting) : emitting'[k] = emitting[k]
    BY <1>2, <1>3, <1>6, AppendProperties
  <2>2. \A k \in 1 .. Len(emitting') : k \in 1 .. Len(emitting) \/ k = Len(emitting) + 1
    BY <1>2, <2>1
  <2>3. EmitterTypes'
    BY <1>1, <2>1 DEF EmitterTypes
  <2>4. \A d \in E!Event, l \in E!Listener : Occurs(d, l)' => Occurs(d, l)
    BY <1>1, <1>4, <2>1, <2>2 DEF Occurs
  <2>5. \A d \in E!Event : Distinct(listeners'[d])
    BY <1>1 DEF WrappersApart
  <2>6. \A k \in 1 .. Len(emitting') : Distinct(emitting'[k].rest)
    BY <1>2, <1>4, <2>1, <2>2 DEF WrappersApart
  <2>7. nested' = {} => /\ nested = {}
                        /\ \A i, j \in 1 .. Len(emitting') :
                             emitting'[i].event = emitting'[j].event => i = j
    <3>1. nested' = {} => nested = {} /\ \A i \in 1 .. Len(emitting) : emitting[i].event # e
      BY <1>1, <1>2
    <3> QED BY <1>4, <2>1, <2>2, <3>1 DEF RunOnce
  <2> QED BY <1>1, <2>3, <2>4, <2>5, <2>6, <2>7, NoneMade
<1> QED BY <1>1, <1>5, <1>6

LEMMA ListenerReturnsKeeps ==
  ASSUME EmitterInv, E!ListenerReturns
  PROVE  EmitterInv'
<1> USE DEF EmitterInv
<1> DEFINE n == Len(emitting)
           top == emitting[n]
           h == [top EXCEPT !.running = FALSE]
<1>1. /\ emitting # <<>> /\ emitting' = [emitting EXCEPT ![n] = h]
      /\ UNCHANGED <<listeners, wrappers, runs, nested, emitted>>
  BY DEF E!ListenerReturns
<1>2. n \in 1 .. n /\ n \in Nat /\ top \in Emission
  BY <1>1, Innermost
<1>3. h \in Emission /\ h.event = top.event /\ h.rest = top.rest
  <2> HIDE DEF top
  <2> QED BY <1>2 DEF Emission
<1> HIDE DEF h
<1>4. /\ emitting' \in Seq(Emission) /\ Len(emitting') = n /\ emitting'[n] = h
      /\ \A k \in 1 .. n : k # n => emitting'[k] = emitting[k]
  BY <1>1, <1>3, InnermostBecomes
<1>5. \A k \in 1 .. n : emitting'[k].event = emitting[k].event /\ emitting'[k].rest = emitting[k].rest
  BY <1>3, <1>4
<1> HIDE DEF top, n
<1>6. EmitterTypes'
  BY <1>1, <1>4 DEF EmitterTypes
<1>7. \A d \in E!Event, l \in E!Listener : Occurs(d, l)' => Occurs(d, l)
  BY <1>1, <1>4, <1>5 DEF Occurs, n
<1>8. \A d \in E!Event : Distinct(listeners'[d])
  BY <1>1 DEF WrappersApart
<1>9. \A k \in 1 .. Len(emitting') : Distinct(emitting'[k].rest)
  BY <1>4, <1>5 DEF WrappersApart, n
<1>10. nested' = {} => \A i, j \in 1 .. Len(emitting') :
                         emitting'[i].event = emitting'[j].event => i = j
  BY <1>1, <1>4, <1>5 DEF RunOnce, n
<1> QED BY <1>1, <1>6, <1>7, <1>8, <1>9, <1>10, NoneMade

(* A listener is called: a wrapper takes itself off its list and runs. *)
LEMMA CallListenerKeeps ==
  ASSUME EmitterInv, E!CallListener
  PROVE  EmitterInv'
<1> USE DEF EmitterInv
<1> DEFINE n == Len(emitting)
           top == emitting[n]
           e == top.event
           l == Head(top.rest)
           w == l.wrapper
           h == [top EXCEPT !.rest = Tail(top.rest), !.running = l.fn \in Fn]
           r == E!Without(listeners[e], l)
<1>1. /\ emitting # <<>> /\ top.rest # <<>>
      /\ emitting' = [emitting EXCEPT ![n] = h]
      /\ listeners' = IF w = 0 THEN listeners ELSE [listeners EXCEPT ![e] = r]
      /\ runs' = IF w = 0 THEN runs ELSE [runs EXCEPT ![w] = runs[w] + 1]
      /\ UNCHANGED <<wrappers, nested, emitted>>
  <2>1. emitting # <<>> /\ E!Last(emitting).rest # <<>> /\ UNCHANGED <<wrappers, nested, emitted>>
    BY DEF E!CallListener
  <2>2. E!Last(emitting) = top
    BY <2>1, Innermost
  <2>3. /\ emitting' = [emitting EXCEPT ![n] = h]
        /\ listeners' = IF w = 0 THEN listeners ELSE [listeners EXCEPT ![e] = r]
        /\ runs' = IF w = 0 THEN runs ELSE [runs EXCEPT ![w] = runs[w] + 1]
    BY <2>2 DEF E!CallListener, E!TakeOffWrapper
  <2> QED BY <2>1, <2>2, <2>3
<1>2. /\ n \in 1 .. n /\ n \in Nat /\ top \in Emission /\ emitting \in Seq(Emission)
  BY <1>1, Innermost DEF EmitterTypes
<1>3. e \in E!Event /\ top.rest \in Seq(E!Listener)
  <2> HIDE DEF top
  <2> QED BY <1>2, EmissionFields
<1>4. /\ l \in E!Listener /\ w \in Nat /\ Has(top.rest, l)
      /\ Tail(top.rest) \in Seq(E!Listener) /\ Len(Tail(top.rest)) = Len(top.rest) - 1
      /\ Len(top.rest) \in Nat \ {0} /\ l = top.rest[1]
      /\ \A i \in 1 .. Len(top.rest) - 1 : Tail(top.rest)[i] = top.rest[i + 1]
  <2> DEFINE q1 == top.rest
  <2>1. q1 \in Seq(E!Listener) /\ q1 # <<>>
    BY <1>1, <1>3
  <2> HIDE DEF q1
  <2>2. /\ Head(q1) \in E!Listener /\ Has(q1, Head(q1)) /\ Head(q1) = q1[1]
        /\ Tail(q1) \in Seq(E!Listener) /\ Len(Tail(q1)) = Len(q1) - 1
        /\ Len(q1) \in Nat \ {0}
        /\ \A i \in 1 .. Len(q1) - 1 : Tail(q1)[i] = q1[i + 1]
    BY <2>1, NonEmptyHasHead, HeadTailProperties, EmptySeq
  <2> QED BY <2>2, WrapperIsNat DEF q1
<1>5. h \in Emission /\ h.event = e /\ h.rest = Tail(top.rest)
  <2> DEFINE t1 == Tail(top.rest)
             t2 == l.fn \in Fn
  <2>1. t1 \in Seq(E!Listener) /\ t2 \in BOOLEAN /\ h = [top EXCEPT !.rest = t1, !.running = t2]
    BY <1>4
  <2> HIDE DEF t1, t2, h, top, l
  <2>2. h \in Emission /\ h.event = top.event /\ h.rest = t1
    BY <1>2, <2>1 DEF Emission
  <2> QED BY <2>2 DEF t1
<1> HIDE DEF h
<1>6. /\ emitting' \in Seq(Emission) /\ Len(emitting') = n /\ emitting'[n] = h
      /\ \A k \in 1 .. n : k # n => emitting'[k] = emitting[k]
  BY <1>1, <1>5, InnermostBecomes
<1>7. /\ Occurs(e, l)
      /\ Distinct(top.rest)
      /\ \A d \in E!Event : listeners[d] \in Seq(E!Listener) /\ Distinct(listeners[d])
  <2>1. Occurs(e, l)
    BY <1>2, <1>4 DEF Occurs
  <2> QED BY <1>2, <2>1 DEF WrappersApart, EmitterTypes
<1>8. /\ r \in Seq(E!Listener) /\ Distinct(r) /\ \A x : Has(r, x) => Has(listeners[e], x)
      /\ w # 0 => ~Has(r, l)
  <2> HIDE DEF l, e, top
  <2> QED BY <1>3, <1>4, <1>7, WithoutHas DEF w
<1> DEFINE t1 == top.rest
           t2 == Tail(top.rest)
<1>9. /\ Distinct(t2)
      /\ \A x : Has(t2, x) => Has(t1, x)
      /\ \A x : Has(t2, x) /\ w # 0 => x.wrapper # w
  <2>1. /\ Len(t2) = Len(t1) - 1 /\ Len(t1) \in Nat \ {0} /\ t1[1].wrapper = w
        /\ \A i \in 1 .. Len(t1) - 1 : t2[i] = t1[i + 1]
        /\ \A i, j \in 1 .. Len(t1) : t1[i].wrapper = t1[j].wrapper /\ t1[i].wrapper # 0 => i = j
    BY <1>4, <1>7 DEF Distinct
  <2> HIDE DEF t1, t2, w
  <2>2. \A i \in 1 .. Len(t1) - 1 : i + 1 \in 1 .. Len(t1) /\ i + 1 # 1 /\ i \in Nat
    BY <2>1
  <2>3. 1 \in 1 .. Len(t1)
    BY <2>1
  <2>4. \A i \in 1 .. Len(t1) - 1 : t2[i].wrapper = w => w = 0
    BY <2>1, <2>2, <2>3
  <2>5. Distinct(t2)
    <3> SUFFICES ASSUME NEW i \in 1 .. Len(t1) - 1, NEW j \in 1 .. Len(t1) - 1,
                        t2[i].wrapper = t2[j].wrapper, t2[i].wrapper # 0
                 PROVE  i = j
      BY <2>1 DEF Distinct
    <3>1. i + 1 = j + 1
      BY <2>1, <2>2
    <3> QED BY <2>2, <3>1
  <2>6. \A x : Has(t2, x) => Has(t1, x)
    BY <2>1, <2>2 DEF Has
  <2>7. \A x : Has(t2, x) /\ w # 0 => x.wrapper # w
    BY <2>1, <2>4 DEF Has
  <2> QED BY <2>5, <2>6, <2>7
<1>10. \A d \in E!Event : listeners'[d] = IF d = e /\ w # 0 THEN r ELSE listeners[d]
  BY <1>1, <1>3 DEF EmitterTypes
<1>11. w # 0 => w \in 1 .. MaxOnce /\ w <= wrappers
  <2>1. CASE l \in [fn : E!Plain, wrapper : {0}]
    BY <2>1
  <2>2. CASE l \in [fn : E!Wrapped, wrapper : 1 .. MaxOnce]
    BY <1>3, <1>4, <1>7, <2>2 DEF WrappersApart
  <2> QED BY <1>4, <2>1, <2>2 DEF E!Listener
<1>12. runs \in [1 .. MaxOnce -> Nat] /\ runs' \in [1 .. MaxOnce -> Nat]
  <2>1. runs \in [1 .. MaxOnce -> Nat]
    BY DEF EmitterTypes
  <2>2. CASE w = 0
    BY <1>1, <2>1, <2>2
  <2>3. CASE w # 0
    <3>1. runs[w] + 1 \in Nat
      BY <1>11, <2>1, <2>3
    <3> HIDE DEF w
    <3> QED BY <1>1, <1>11, <2>1, <2>3, <3>1
  <2> QED BY <2>2, <2>3, <2>1
<1>13. EmitterTypes'
  <2>1. listeners' \in [E!Event -> Seq(E!Listener)]
    <3> HIDE DEF w, r, e
    <3> QED BY <1>1, <1>3, <1>8 DEF EmitterTypes
  <2> QED BY <1>1, <1>6, <1>12, <2>1 DEF EmitterTypes
<1>14. \A d \in E!Event, x \in E!Listener : Has(listeners'[d], x) => Has(listeners[d], x)
  BY <1>8, <1>10
<1> DEFINE Elsewhere(d, x) ==
             \E k \in 1 .. n : k # n /\ emitting[k].event = d /\ Has(emitting[k].rest, x)
<1>15. \A d \in E!Event, x \in E!Listener : Occurs(d, x)' =>
         \/ Has(listeners'[d], x)
         \/ d = e /\ Has(t2, x)
         \/ Elsewhere(d, x)
  BY <1>5, <1>6 DEF Occurs
<1>16. \A d \in E!Event, x \in E!Listener : Occurs(d, x)' => Occurs(d, x)
  BY <1>2, <1>9, <1>14, <1>15 DEF Occurs
<1>17. \A d \in E!Event : Distinct(listeners'[d])
  BY <1>7, <1>8, <1>10
<1>18. \A k \in 1 .. Len(emitting') : Distinct(emitting'[k].rest)
  BY <1>5, <1>6, <1>9 DEF WrappersApart
<1>19. nested = {} => \A i, j \in 1 .. Len(emitting') : emitting'[i].event = emitting'[j].event => i = j
  <2>1. \A k \in 1 .. n : emitting'[k].event = emitting[k].event
    BY <1>5, <1>6
  <2> QED BY <1>6, <2>1 DEF RunOnce
<1> HIDE DEF Elsewhere, t1, t2
<1>20. CASE w = 0
  <2>1. UNCHANGED runs
    BY <1>1, <1>20
  <2> HIDE DEF w, l, e, r, top, n
  <2> QED BY <1>1, <1>13, <1>14, <1>16, <1>17, <1>18, <1>19, <2>1, NoneMade
<1>21. CASE w # 0
  <2>1. WrappersApart'
    <3>1. \A d \in E!Event, x \in E!Listener : Occurs(d, x)' => x.wrapper <= wrappers
      BY <1>16 DEF WrappersApart
    <3>2. \A d, f \in E!Event, x, m \in E!Listener :
            Occurs(d, x)' /\ Occurs(f, m)' /\ x.wrapper = m.wrapper /\ x.wrapper # 0
              => x = m /\ d = f
      BY <1>16 DEF WrappersApart
    <3> HIDE DEF w, l, e, r, top, n
    <3> QED BY <1>1, <1>17, <1>18, <3>1, <3>2 DEF WrappersApart, Distinct
  <2>2. \A d \in E!Event, x \in E!Listener : Has(listeners'[d], x) => x.wrapper # w
    <3> SUFFICES ASSUME NEW d \in E!Event, NEW x \in E!Listener, Has(listeners'[d], x),
                        x.wrapper = w
                 PROVE  FALSE
      OBVIOUS
    <3>1. Occurs(d, x)
      BY <1>14 DEF Occurs
    <3>2. x = l /\ d = e
      BY <1>3, <1>4, <1>7, <1>21, <3>1 DEF WrappersApart
    <3> QED BY <1>8, <1>10, <1>21, <3>2
  <2>3. /\ runs'[w] = runs[w] + 1
        /\ \A v \in 1 .. MaxOnce : v # w => runs'[v] = runs[v]
    <3> HIDE DEF w
    <3> QED BY <1>1, <1>11, <1>12, <1>21
  <2>4. \A x \in E!Listener : x.wrapper # 0 => x.wrapper \in 1 .. MaxOnce
    BY DEF E!Listener
  <2>5. \A v \in 1 .. MaxOnce : v > wrappers => runs'[v] = 0
    <3>1. \A v \in 1 .. MaxOnce : v > wrappers => v # w
      BY <1>11, <1>21 DEF EmitterTypes
    <3> QED BY <2>3, <3>1 DEF RunOnce
  <2>6. \A d \in E!Event, x \in E!Listener :
          Has(listeners'[d], x) /\ x.wrapper # 0 => runs'[x.wrapper] = 0
    BY <1>14, <2>2, <2>3, <2>4 DEF RunOnce
  <2>7. ASSUME nested = {}
        PROVE  /\ \A v \in 1 .. MaxOnce : runs'[v] <= 1
               /\ \A d \in E!Event, x \in E!Listener :
                    Occurs(d, x)' /\ x.wrapper # 0 => runs'[x.wrapper] = 0
    <3>1. runs[w] = 0
      BY <1>3, <1>4, <1>7, <1>21, <2>7 DEF RunOnce
    <3>2. \A v \in 1 .. MaxOnce : runs'[v] <= 1
      BY <2>3, <2>7, <3>1 DEF RunOnce
    <3>3. \A d \in E!Event, x \in E!Listener : Occurs(d, x)' => x.wrapper # w
      <4> SUFFICES ASSUME NEW d \in E!Event, NEW x \in E!Listener, Occurs(d, x)', x.wrapper = w
                   PROVE  FALSE
        OBVIOUS
      <4>1. x = l /\ d = e
        BY <1>3, <1>4, <1>7, <1>16, <1>21 DEF WrappersApart
      <4>2. Elsewhere(d, x)
        BY <1>9, <1>15, <1>21, <2>2
      <4>3. PICK k \in 1 .. n : k # n /\ emitting[k].event = e
        BY <4>1, <4>2 DEF Elsewhere
      <4> QED BY <1>2, <2>7, <4>3 DEF RunOnce
    <3> QED BY <1>16, <2>3, <2>4, <2>7, <3>2, <3>3 DEF RunOnce
  <2>8. RunOnce'
    <3> HIDE DEF w, l, e, r, top, n
    <3> QED BY <1>1, <1>19, <2>5, <2>6, <2>7 DEF RunOnce, Has
  <2> HIDE DEF w, l, e, r, top, n
  <2> QED BY <1>13, <2>1, <2>8
<1> QED BY <1>20, <1>21

LEMMA EmitterStep == ASSUME EmitterInv, [E!Next]_(E!vars) PROVE EmitterInv'
<1>1. ASSUME UNCHANGED <<listeners, emitting, wrappers, emitted, runs, nested>>
      PROVE  EmitterInv'
  <2>1. EmitterTypes'
    BY <1>1 DEF EmitterInv, EmitterTypes
  <2>2. \A e \in E!Event, l \in E!Listener : Occurs(e, l)' <=> Occurs(e, l)
    BY <1>1 DEF Occurs
  <2>3. WrappersApart'
    BY <1>1, <2>2 DEF EmitterInv, WrappersApart
  <2>4. RunOnce'
    BY <1>1, <2>2 DEF EmitterInv, RunOnce
  <2> QED BY <2>1, <2>3, <2>4 DEF EmitterInv
<1>2. CASE UNCHANGED E!vars
  BY <1>1, <1>2 DEF E!vars
<1>3. CASE E!IteratorNext
  BY <1>1, <1>3 DEF E!IteratorNext
<1>4. CASE E!ListenerThrows \/ E!EmitReturns
  <2>1. /\ emitting # <<>> /\ emitting' = E!Front(emitting)
        /\ UNCHANGED <<listeners, wrappers, runs, nested, emitted>>
    BY <1>4 DEF E!ListenerThrows, E!EmitReturns
  <2> QED BY <2>1, InnermostEnds
<1> QED BY <1>2, <1>3, <1>4, AddListenerKeeps, OnceKeeps, RemoveListenerKeeps, RemoveAllKeeps,
         EmitKeeps, AwaitOnceKeeps, OpenIteratorKeeps, ReturnIteratorKeeps, CallListenerKeeps,
         ListenerReturnsKeeps DEF E!Next

-----------------------------------------------------------------------------
(* Events: the iterator of on(). *)
Reply == [how : {"pending", "value", "done", "rejected"}, value : Nat]

IteratorTypes ==
  /\ values \in Seq(Nat) /\ seen \in Seq(Nat) /\ answers \in Seq(Reply)
  /\ blank \in BOOLEAN

Given == {i \in 1 .. Len(answers) : answers[i].how = "value"}

(* What was seen is what was given and what is queued; a call of next that *)
(* waits came after those that were given a value.                         *)
InOrder ==
  /\ Len(seen) = Cardinality(Given) + Len(values)
  /\ \A i \in Given : answers[i].value = seen[Cardinality({j \in Given : j <= i})]
  /\ \A i \in 1 .. Len(values) : values[i] = seen[Cardinality(Given) + i] /\ values[i] # 0
  /\ values # <<>> => \A i \in 1 .. Len(answers) : answers[i].how # "pending"
  /\ \A i \in Given : \A j \in 1 .. Len(answers) : answers[j].how = "pending" => i < j

IteratorInv == IteratorTypes /\ (blank \/ InOrder)

(* A set of places counts as many up to one of them as there are. *)
LEMMA Counted ==
  ASSUME NEW n \in Nat, NEW H \in SUBSET (1 .. n)
  PROVE  /\ IsFiniteSet(H) /\ Cardinality(H) \in Nat
         /\ \A i \in H : Cardinality({j \in H : j <= i}) \in 1 .. Cardinality(H)
<1>1. IsFiniteSet(1 .. n)
  <2>1. 1 \in Int /\ n \in Int
    OBVIOUS
  <2> QED BY <2>1, FS_Interval
<1>2. IsFiniteSet(H) /\ Cardinality(H) \in Nat
  BY <1>1, FS_Subset, FS_CardinalityType
<1>3. ASSUME NEW i \in H PROVE Cardinality({j \in H : j <= i}) \in 1 .. Cardinality(H)
  <2> DEFINE U == {j \in H : j <= i}
  <2>1. U \subseteq H /\ i \in U
    BY <1>3
  <2> HIDE DEF U
  <2>2. IsFiniteSet(U) /\ Cardinality(U) \in Nat /\ Cardinality(U) <= Cardinality(H)
    BY <1>2, <2>1, FS_Subset, FS_CardinalityType
  <2>3. Cardinality(U) # 0
    BY <2>1, <2>2, FS_EmptySet
  <2>4. Cardinality(U) \in 1 .. Cardinality(H)
    BY <1>2, <2>2, <2>3
  <2> QED BY <2>4 DEF U
<1> QED BY <1>2, <1>3

(* One more place, after the others. *)
LEMMA CountedAfter ==
  ASSUME NEW n \in Nat, NEW H \in SUBSET (1 .. n), NEW x \in Nat, x \notin H,
         \A i \in H : i < x
  PROVE  /\ Cardinality(H \cup {x}) = Cardinality(H) + 1
         /\ \A i \in H : {j \in H \cup {x} : j <= i} = {j \in H : j <= i}
         /\ {j \in H \cup {x} : j <= x} = H \cup {x}
<1>1. Cardinality(H \cup {x}) = Cardinality(H) + 1
  BY Counted, FS_AddElement
<1>2. \A i \in H : {j \in H \cup {x} : j <= i} = {j \in H : j <= i}
  <2>1. \A i \in H : i \in Nat /\ ~(x <= i)
    OBVIOUS
  <2> QED BY <2>1
<1>3. {j \in H \cup {x} : j <= x} = H \cup {x}
  <2>1. \A i \in H : i \in Nat /\ i <= x
    OBVIOUS
  <2>2. x <= x
    OBVIOUS
  <2> QED BY <2>1, <2>2
<1> QED BY <1>1, <1>2, <1>3

LEMMA ReplyType ==
  ASSUME NEW s \in Seq(Reply), NEW i \in 1 .. Len(s)
  PROVE  s[i] \in Reply
BY ElementOfSeq

(* The first call of next that waits. *)
LEMMA WhoWaits ==
  ASSUME IteratorTypes
  PROVE  /\ Len(answers) \in Nat
         /\ E!FirstPending = 0 => \A i \in 1 .. Len(answers) : answers[i].how # "pending"
         /\ (\A i \in 1 .. Len(answers) : answers[i].how # "pending") => E!FirstPending = 0
         /\ E!FirstPending # 0 =>
              /\ E!FirstPending \in 1 .. Len(answers)
              /\ answers[E!FirstPending].how = "pending"
              /\ \A i \in 1 .. Len(answers) : answers[i].how = "pending" => E!FirstPending <= i
<1> DEFINE I == {i \in 1 .. Len(answers) : answers[i].how = "pending"}
<1>1. Len(answers) \in Nat
  BY LenProperties DEF IteratorTypes
<1>2. E!FirstPending = IF I # {} THEN E!Min(I) ELSE 0
  BY DEF E!FirstPending, E!SelectInSeq
<1>3. I # {} => E!Min(I) \in I /\ \A i \in I : E!Min(I) <= i
  BY <1>1, FirstPlace
<1> QED BY <1>1, <1>2, <1>3

LEMMA IteratorAnswers == ASSUME IteratorInv PROVE E!IteratorInOrder
<1>1. /\ DOMAIN answers = 1 .. Len(answers) /\ DOMAIN values = 1 .. Len(values)
  BY LenProperties DEF IteratorInv, IteratorTypes
<1>2. E!Handed = Given
  BY <1>1 DEF E!Handed, Given
<1>3. \A X : E!Cardinality(X) = Cardinality(X)
  BY DEF E!Cardinality, Cardinality
<1>4. CASE blank
  BY <1>4 DEF E!IteratorInOrder
<1>5. CASE InOrder
  <2>1. E!FirstPending = 0 \/ values = <<>>
    BY <1>5, WhoWaits DEF IteratorInv, InOrder
  <2> QED BY <1>1, <1>2, <1>3, <1>5, <2>1 DEF E!IteratorInOrder, InOrder
<1> QED BY <1>4, <1>5 DEF IteratorInv

LEMMA IteratorStarts == ASSUME E!Init PROVE IteratorInv
<1>1. values = <<>> /\ seen = <<>> /\ answers = <<>> /\ blank = FALSE
  BY DEF E!Init
<1>2. <<>> \in Seq(Nat) /\ <<>> \in Seq(Reply) /\ Len(<<>>) = 0
  BY EmptySeq
<1>3. Given = {}
  BY <1>1, <1>2 DEF Given
<1>4. Cardinality(Given) = 0
  BY <1>3, FS_EmptySet
<1>5. IteratorTypes
  BY <1>1, <1>2 DEF IteratorTypes
<1>6. Len(seen) = 0 /\ Len(values) = 0 /\ values = <<>> /\ 0 = 0 + 0
  BY <1>1, <1>2
<1>7. InOrder
  BY <1>3, <1>4, <1>6 DEF InOrder
<1> QED BY <1>5, <1>7 DEF IteratorInv

(* A value comes: the first who waits has it, or it is queued. *)
LEMMA ValueComes ==
  ASSUME IteratorInv, NEW v \in Nat, E!EventHandler(v)
  PROVE  IteratorInv'
<1> USE DEF IteratorInv
<1>1. /\ seen \in Seq(Nat) /\ values \in Seq(Nat) /\ answers \in Seq(Reply)
      /\ seen' = Append(seen, v) /\ seen' \in Seq(Nat) /\ Len(seen') = Len(seen) + 1
      /\ seen'[Len(seen) + 1] = v
      /\ \A i \in 1 .. Len(seen) : seen'[i] = seen[i]
      /\ Len(seen) \in Nat /\ Len(values) \in Nat /\ Len(answers) \in Nat
  <2>1. seen \in Seq(Nat) /\ values \in Seq(Nat) /\ answers \in Seq(Reply) /\ seen' = Append(seen, v)
    BY DEF E!EventHandler, IteratorTypes
  <2> QED BY <2>1, AppendProperties, LenProperties
<1>2. Given \in SUBSET (1 .. Len(answers))
  BY DEF Given
<1>3. /\ Cardinality(Given) \in Nat
      /\ \A i \in Given : Cardinality({j \in Given : j <= i}) \in 1 .. Cardinality(Given)
  BY <1>1, <1>2, Counted
<1> DEFINE w == E!FirstPending
<1>4. CASE w # 0
  <2>1. /\ answers' = [answers EXCEPT ![w] = E!Value(v)]
        /\ UNCHANGED <<values, blank>>
    BY <1>4 DEF E!EventHandler
  <2>2. /\ w \in 1 .. Len(answers) /\ answers[w].how = "pending"
        /\ \A i \in 1 .. Len(answers) : answers[i].how = "pending" => w <= i
    BY <1>4, WhoWaits
  <2>3. E!Value(v) \in Reply /\ E!Value(v).how = "value" /\ E!Value(v).value = v
    BY DEF E!Value, Reply
  <2> DEFINE z == E!Value(v)
  <2> HIDE DEF w, z
  <2>4. /\ answers' \in Seq(Reply) /\ Len(answers') = Len(answers) /\ answers'[w] = z
        /\ \A i \in 1 .. Len(answers) : i # w => answers'[i] = answers[i]
    <3>1. z \in Reply /\ answers' = [answers EXCEPT ![w] = z]
      BY <2>1, <2>3 DEF z
    <3> QED BY <1>1, <2>2, <3>1, ExceptSeq
  <2>5. IteratorTypes'
    BY <1>1, <2>1, <2>4 DEF IteratorTypes
  <2>6. Given' = Given \cup {w} /\ w \notin Given
    BY <2>2, <2>3, <2>4 DEF Given, z
  <2>7. ASSUME InOrder PROVE InOrder'
    <3>1. values = <<>> /\ Len(values) = 0 /\ \A i \in Given : i < w
      BY <2>2, <2>7, EmptySeq DEF InOrder
    <3>2. w \in Nat
      BY <2>2
    <3>3. /\ Cardinality(Given \cup {w}) = Cardinality(Given) + 1
          /\ \A i \in Given : {j \in Given \cup {w} : j <= i} = {j \in Given : j <= i}
          /\ {j \in Given \cup {w} : j <= w} = Given \cup {w}
      <4> DEFINE n == Len(answers)
                 g == Given
      <4>1. n \in Nat /\ g \in SUBSET (1 .. n) /\ w \notin g /\ \A i \in g : i < w
        BY <1>1, <1>2, <2>6, <3>1
      <4> HIDE DEF n, g
      <4>2. /\ Cardinality(g \cup {w}) = Cardinality(g) + 1
            /\ \A i \in g : {j \in g \cup {w} : j <= i} = {j \in g : j <= i}
            /\ {j \in g \cup {w} : j <= w} = g \cup {w}
        BY ONLY <3>2, <4>1, CountedAfter
      <4> QED BY <4>2 DEF g
    <3>4. Cardinality(Given') = Cardinality(Given) + 1 /\ Len(seen) = Cardinality(Given)
      BY <1>1, <1>3, <2>6, <2>7, <3>1, <3>3 DEF InOrder
    <3>5. Len(seen') = Cardinality(Given') + Len(values')
      BY <1>1, <1>3, <2>1, <3>1, <3>4
    <3>6. ASSUME NEW i \in Given'
          PROVE  answers'[i].value = seen'[Cardinality({j \in Given' : j <= i})]
      <4>1. CASE i = w
        <5>1. {j \in Given' : j <= i} = Given'
          BY <2>6, <3>3, <4>1
        <5> QED BY <1>1, <2>3, <2>4, <3>4, <4>1, <5>1 DEF z
      <4>2. CASE i # w
        <5>1. i \in Given /\ i \in 1 .. Len(answers)
          BY <1>2, <2>6, <4>2
        <5>2. {j \in Given' : j <= i} = {j \in Given : j <= i}
          BY <2>6, <3>3, <5>1
        <5>3. Cardinality({j \in Given : j <= i}) \in 1 .. Len(seen)
          BY <1>3, <3>4, <5>1
        <5>4. answers[i].value = seen[Cardinality({j \in Given : j <= i})]
          BY <2>7, <5>1 DEF InOrder
        <5> QED BY <1>1, <2>4, <4>2, <5>1, <5>2, <5>3, <5>4
      <4> QED BY <4>1, <4>2
    <3>7. \A i \in Given' : \A j \in 1 .. Len(answers') : answers'[j].how = "pending" => i < j
      <4> SUFFICES ASSUME NEW i \in Given', NEW j \in 1 .. Len(answers), answers'[j].how = "pending"
                   PROVE  i < j
        BY <2>4
      <4>1. j # w /\ answers[j].how = "pending"
        BY <2>3, <2>4 DEF z
      <4>2. w < j
        BY <2>2, <4>1
      <4> QED BY <2>6, <2>7, <4>1, <4>2 DEF InOrder
    <3>8. \A i \in 1 .. Len(values') : values'[i] = seen'[Cardinality(Given') + i] /\ values'[i] # 0
      BY <2>1, <3>1
    <3> QED BY <2>1, <3>1, <3>5, <3>6, <3>7, <3>8 DEF InOrder
  <2> QED BY <2>1, <2>5, <2>7
<1>5. CASE w = 0
  <2>1. values' = Append(values, v) /\ blank' = (blank \/ v = 0) /\ UNCHANGED answers
    BY <1>5 DEF E!EventHandler
  <2>2. \A i \in 1 .. Len(answers) : answers[i].how # "pending"
    BY <1>5, WhoWaits
  <2>3. /\ values' \in Seq(Nat) /\ Len(values') = Len(values) + 1
        /\ values'[Len(values) + 1] = v
        /\ \A i \in 1 .. Len(values) : values'[i] = values[i]
    BY <1>1, <2>1, AppendProperties
  <2>4. IteratorTypes'
    BY <1>1, <2>1, <2>3 DEF IteratorTypes
  <2>5. Given' = Given
    BY <2>1 DEF Given
  <2>6. ASSUME InOrder, v # 0 PROVE InOrder'
    <3> DEFINE k == Cardinality(Given)
    <3>1. k \in Nat /\ Len(seen) = k + Len(values)
      BY <1>3, <2>6 DEF InOrder
    <3>2. \A i \in Given : Cardinality({j \in Given : j <= i}) \in 1 .. Len(seen)
      <4>1. \A x \in 1 .. k : x \in 1 .. Len(seen)
        BY <1>1, <3>1
      <4> QED BY <1>3, <4>1
    <3>3. \A i \in Given : answers[i].value = seen'[Cardinality({j \in Given : j <= i})]
      BY <1>1, <2>6, <3>2 DEF InOrder
    <3> HIDE DEF k
    <3>4. ASSUME NEW i \in 1 .. Len(values') PROVE values'[i] = seen'[k + i] /\ values'[i] # 0
      <4>1. CASE i \in 1 .. Len(values)
        <5>1. k + i \in 1 .. Len(seen)
          BY <1>1, <3>1, <4>1
        <5> QED BY <1>1, <2>3, <2>6, <4>1, <5>1 DEF InOrder, k
      <4>2. CASE i = Len(values) + 1
        <5>1. k + i = Len(seen) + 1
          BY <1>1, <3>1, <4>2
        <5> QED BY <1>1, <2>3, <2>6, <4>2, <5>1
      <4>3. i \in 1 .. Len(values) \/ i = Len(values) + 1
        BY <1>1, <2>3
      <4> QED BY <4>1, <4>2, <4>3
    <3>5. Len(seen') = k + Len(values')
      BY <1>1, <2>3, <3>1
    <3>6. \A i \in Given' : \A j \in 1 .. Len(answers') : answers'[j].how = "pending" => i < j
      BY <2>1, <2>2
    <3> QED BY <2>1, <2>2, <2>5, <3>3, <3>4, <3>5, <3>6 DEF InOrder, k
  <2> QED BY <2>1, <2>4, <2>6
<1> QED BY <1>4, <1>5

(* An error comes: the first who waits has it. *)
LEMMA ErrorComes ==
  ASSUME IteratorInv, E!ErrorHandler
  PROVE  IteratorInv'
<1> USE DEF IteratorInv
<1>1. UNCHANGED <<values, seen, blank>>
  BY DEF E!ErrorHandler
<1> DEFINE w == E!FirstPending
           z == E!Answer("rejected")
<1>2. CASE w # 0
  <2>1. answers' = [answers EXCEPT ![w] = z]
    BY <1>2 DEF E!ErrorHandler
  <2>2. w \in 1 .. Len(answers) /\ answers[w].how = "pending" /\ answers \in Seq(Reply)
    BY <1>2, WhoWaits DEF IteratorTypes
  <2>3. z \in Reply /\ z.how = "rejected"
    BY DEF E!Answer, Reply
  <2> HIDE DEF w, z
  <2>4. /\ answers' \in Seq(Reply) /\ Len(answers') = Len(answers) /\ answers'[w] = z
        /\ \A i \in 1 .. Len(answers) : i # w => answers'[i] = answers[i]
    BY <2>1, <2>2, <2>3, ExceptSeq
  <2>5. IteratorTypes'
    BY <1>1, <2>4 DEF IteratorTypes
  <2>6. Given' = Given
    BY <2>2, <2>3, <2>4 DEF Given
  <2>7. /\ \A i \in Given : answers'[i] = answers[i]
        /\ \A i \in 1 .. Len(answers') : answers'[i].how = "pending" =>
             i \in 1 .. Len(answers) /\ answers[i].how = "pending"
    BY <2>2, <2>3, <2>4 DEF Given
  <2>8. ASSUME InOrder PROVE InOrder'
    BY <1>1, <2>4, <2>6, <2>7, <2>8 DEF InOrder
  <2> QED BY <1>1, <2>5, <2>8
<1>3. CASE w = 0
  <2>1. UNCHANGED answers
    BY <1>3 DEF E!ErrorHandler
  <2> QED BY <1>1, <2>1 DEF IteratorTypes, InOrder, Given
<1> QED BY <1>2, <1>3

(* next() is answered. *)
LEMMA NextIsAnswered ==
  ASSUME IteratorInv, E!TakeValue, UNCHANGED <<seen, blank>>
  PROVE  IteratorInv'
<1> USE DEF IteratorInv
<1> DEFINE z == IF values # <<>> /\ Head(values) # 0 THEN E!Value(Head(values))
                ELSE E!Answer(IF iterator = "finished" THEN "done" ELSE "pending")
           n == Len(answers)
           g == Given
           k == Cardinality(Given)
<1>1. /\ answers' = Append(answers, z)
      /\ values' = IF values = <<>> THEN values ELSE Tail(values)
  BY DEF E!TakeValue
<1>2. /\ seen \in Seq(Nat) /\ values \in Seq(Nat) /\ answers \in Seq(Reply)
      /\ Len(seen) \in Nat /\ Len(values) \in Nat /\ n \in Nat
  BY LenProperties DEF IteratorTypes
<1>3. values # <<>> =>
        /\ Len(values) \in Nat \ {0} /\ Head(values) \in Nat /\ Head(values) = values[1]
        /\ Tail(values) \in Seq(Nat) /\ Len(Tail(values)) = Len(values) - 1
        /\ \A i \in 1 .. Len(values) - 1 : Tail(values)[i] = values[i + 1]
  BY <1>2, EmptySeq, HeadTailProperties
<1>4. z \in Reply
  BY <1>3 DEF E!Value, E!Answer, Reply
<1>5. /\ values # <<>> /\ Head(values) # 0 => z.how = "value" /\ z.value = Head(values)
      /\ values = <<>> => z.how # "value"
  BY DEF E!Value, E!Answer
<1> HIDE DEF z
<1>6. /\ answers' \in Seq(Reply) /\ Len(answers') = n + 1 /\ answers'[n + 1] = z
      /\ \A i \in 1 .. n : answers'[i] = answers[i]
  BY <1>1, <1>2, <1>4, AppendProperties
<1>7. values' \in Seq(Nat)
  BY <1>1, <1>2, <1>3
<1>8. IteratorTypes'
  BY <1>2, <1>6, <1>7 DEF IteratorTypes
<1>9. g \in SUBSET (1 .. n) /\ k \in Nat
      /\ \A i \in g : Cardinality({j \in g : j <= i}) \in 1 .. k
  <2>1. g \in SUBSET (1 .. n)
    BY DEF Given
  <2> HIDE DEF g, n
  <2> QED BY <1>2, <2>1, Counted DEF g
<1>10. \A i \in 1 .. n + 1 : i \in 1 .. n \/ i = n + 1
  BY <1>2
<1>11. CASE values = <<>>
  <2>1. values' = values
    BY <1>1, <1>11
  <2>2. Given' = Given
    BY <1>2, <1>5, <1>6, <1>10, <1>11 DEF Given
  <2>3. ASSUME InOrder PROVE InOrder'
    <3>1. \A i \in Given : answers'[i] = answers[i]
      BY <1>6, <1>9
    <3>2. \A i \in Given' : \A j \in 1 .. Len(answers') : answers'[j].how = "pending" => i < j
      <4> SUFFICES ASSUME NEW i \in Given, NEW j \in 1 .. n + 1, answers'[j].how = "pending"
                   PROVE  i < j
        BY <1>6, <2>2
      <4>1. CASE j \in 1 .. n
        BY <1>6, <2>3, <4>1 DEF InOrder
      <4>2. CASE j = n + 1
        <5>1. i \in 1 .. n
          BY <1>9
        <5> QED BY <1>2, <4>2, <5>1
      <4> QED BY <1>10, <4>1, <4>2
    <3> HIDE DEF g, k, n
    <3> QED BY <1>11, <2>1, <2>2, <2>3, <3>1, <3>2 DEF InOrder
  <2> QED BY <1>8, <2>3
<1>12. CASE values # <<>>
  <2>1. /\ values' = Tail(values) /\ Len(values') = Len(values) - 1
        /\ \A i \in 1 .. Len(values) - 1 : values'[i] = values[i + 1]
        /\ Len(values) \in Nat \ {0} /\ 1 \in 1 .. Len(values)
    BY <1>1, <1>3, <1>12
  <2>2. ASSUME InOrder PROVE InOrder'
    <3>1. Head(values) # 0 /\ z.how = "value" /\ z.value = values[1] /\ values[1] = seen[k + 1]
      BY <1>3, <1>5, <1>12, <2>1, <2>2 DEF InOrder
    <3>2. Given' = g \cup {n + 1} /\ n + 1 \notin g
      BY <1>2, <1>6, <1>9, <1>10, <3>1 DEF Given
    <3>3. n + 1 \in Nat /\ \A i \in g : i < n + 1
      BY <1>2, <1>9
    <3>4. /\ Cardinality(g \cup {n + 1}) = k + 1
          /\ \A i \in g : {j \in g \cup {n + 1} : j <= i} = {j \in g : j <= i}
          /\ {j \in g \cup {n + 1} : j <= n + 1} = g \cup {n + 1}
      <4> DEFINE x == n + 1
      <4>1. n \in Nat /\ g \in SUBSET (1 .. n) /\ x \in Nat /\ x \notin g /\ \A i \in g : i < x
        BY <1>2, <1>9, <3>2, <3>3
      <4> HIDE DEF n, g, x
      <4>2. /\ Cardinality(g \cup {x}) = Cardinality(g) + 1
            /\ \A i \in g : {j \in g \cup {x} : j <= i} = {j \in g : j <= i}
            /\ {j \in g \cup {x} : j <= x} = g \cup {x}
        BY ONLY <4>1, CountedAfter
      <4> QED BY <4>2 DEF x, g
    <3>5. Len(seen) = k + Len(values)
      BY <2>2 DEF InOrder
    <3>6. Len(seen) = Cardinality(Given') + Len(values')
      <4>1. Cardinality(Given') = k + 1
        BY <3>2, <3>4
      <4> HIDE DEF k, g, n
      <4> QED BY <1>9, <2>1, <3>5, <4>1
    <3>7. ASSUME NEW i \in Given'
          PROVE  answers'[i].value = seen[Cardinality({j \in Given' : j <= i})]
      <4>1. CASE i = n + 1
        <5>1. {j \in Given' : j <= i} = Given'
          BY <3>2, <3>4, <4>1
        <5> QED BY <1>6, <3>1, <3>2, <3>4, <4>1, <5>1
      <4>2. CASE i # n + 1
        <5>1. i \in g /\ i \in 1 .. n
          BY <1>9, <3>2, <4>2
        <5>2. {j \in Given' : j <= i} = {j \in g : j <= i}
          BY <3>2, <3>4, <5>1
        <5>3. answers[i].value = seen[Cardinality({j \in g : j <= i})]
          BY <2>2, <5>1 DEF InOrder
        <5> QED BY <1>6, <5>1, <5>2, <5>3
      <4> QED BY <4>1, <4>2
    <3>8. ASSUME NEW i \in 1 .. Len(values')
          PROVE  values'[i] = seen[Cardinality(Given') + i] /\ values'[i] # 0
      <4>1. i + 1 \in 1 .. Len(values) /\ values'[i] = values[i + 1]
        BY <2>1
      <4>2. values[i + 1] = seen[k + (i + 1)] /\ values[i + 1] # 0
        BY <2>2, <4>1 DEF InOrder
      <4>3. Cardinality(Given') + i = k + (i + 1)
        <5>1. Cardinality(Given') = k + 1
          BY <3>2, <3>4
        <5> HIDE DEF k, g, n
        <5> QED BY <1>9, <2>1, <5>1
      <4> QED BY <4>1, <4>2, <4>3
    <3>9. \A j \in 1 .. Len(answers') : answers'[j].how # "pending"
      <4>1. \A j \in 1 .. n : answers[j].how # "pending"
        BY <1>12, <2>2 DEF InOrder
      <4> QED BY <1>6, <1>10, <3>1, <4>1
    <3> HIDE DEF k, g, n
    <3> QED BY <3>6, <3>7, <3>8, <3>9 DEF InOrder
  <2> QED BY <1>8, <2>2
<1> QED BY <1>11, <1>12

LEMMA IteratorStep == ASSUME EmitterInv, IteratorInv, [E!Next]_(E!vars) PROVE IteratorInv'
<1>1. ASSUME UNCHANGED <<values, answers, seen, blank>> PROVE IteratorInv'
  BY <1>1 DEF IteratorInv, IteratorTypes, InOrder, Given
<1>2. CASE UNCHANGED E!vars
  BY <1>1, <1>2 DEF E!vars
<1>3. CASE E!IteratorNext
  BY <1>3, NextIsAnswered DEF E!IteratorNext
<1>4. CASE E!CallListener
  <2> DEFINE top == E!Last(emitting)
             l == Head(top.rest)
             v == top.value
  <2>1. emitting # <<>> /\ E!RunHandler(l.fn, v)
    BY <1>4 DEF E!CallListener
  <2>2. v \in Nat
    BY <2>1, Innermost, EmissionFields DEF EmitterInv
  <2>3. \/ E!EventHandler(v) \/ E!ErrorHandler
        \/ UNCHANGED <<values, answers, seen, blank>>
    BY <2>1 DEF E!RunHandler, E!Settle, E!iteratorVars
  <2> HIDE DEF v
  <2> QED BY <1>1, <2>2, <2>3, ValueComes, ErrorComes
<1>5. CASE E!OpenIterator \/ E!ReturnIterator
  BY <1>1, <1>5 DEF E!OpenIterator, E!ReturnIterator
<1>6. CASE E!AwaitOnce \/ E!ListenerReturns \/ E!ListenerThrows \/ E!EmitReturns
  BY <1>1, <1>6 DEF E!AwaitOnce, E!ListenerReturns, E!ListenerThrows, E!EmitReturns, E!iteratorVars
<1>7. ASSUME NEW e \in E!Event, NEW v \in 0 .. MaxEmits, E!Emit(e, v) PROVE IteratorInv'
  BY <1>1, <1>7 DEF E!Emit, E!iteratorVars
<1>8. ASSUME NEW es, E!RemoveAllListeners(es) PROVE IteratorInv'
  BY <1>1, <1>8 DEF E!RemoveAllListeners, E!iteratorVars
<1>9. ASSUME NEW e \in E!Event, NEW f \in Fn, E!RemoveListener(e, f) PROVE IteratorInv'
  BY <1>1, <1>9 DEF E!RemoveListener, E!iteratorVars
<1>10. ASSUME NEW e \in E!Event, NEW f \in Fn, NEW front \in BOOLEAN,
              E!AddListener(e, f, front) \/ E!Once(e, f, front)
       PROVE  IteratorInv'
  BY <1>1, <1>10 DEF E!AddListener, E!Once, E!iteratorVars
<1> QED BY <1>2, <1>3, <1>4, <1>5, <1>6, <1>7, <1>8, <1>9, <1>10 DEF E!Next

-----------------------------------------------------------------------------
(* Timers: an object stands for one armed number at most. *)
TimerTypes ==
  /\ kind \in [Timer -> T!Kind \cup {"none"}]
  /\ entry \in [Timer -> T!Id \cup {0}]
  /\ timerDestroyed \subseteq Timer /\ armed \subseteq T!Armed
  /\ lastId \in Nat /\ running \in T!Armed \cup {None}
  /\ timerPromise \in [Timer -> {"none", "pending", "resolved", "rejected"}]

(* Numbers are given out once, an entry is of the object it was made for,  *)
(* and only objects that were made have any of this.                       *)
NumbersFit ==
  /\ \A g \in armed : g.id <= lastId /\ kind[g.of] # "none"
  /\ \A t \in Timer : entry[t] <= lastId
  /\ \A g \in armed, t \in Timer : entry[t] = g.id => g.of = t
  /\ \A t \in Timer : entry[t] # 0 => kind[t] # "none"

(* What was cleared through its object has no entry. *)
DestroyedHasNone == \A t \in timerDestroyed : entry[t] = 0 /\ kind[t] # "none"

PromisesAreMade == \A t \in Timer : timerPromise[t] # "none" => kind[t] = "promise"

TimersInv ==
  /\ TimerTypes /\ NumbersFit /\ DestroyedHasNone /\ PromisesAreMade
  /\ T!EveryTimerCanBeCleared /\ T!WaitingIsArmed

(* A timer of the global object has a number and an object. *)
LEMMA ArmedType ==
  ASSUME TimerTypes, NEW g \in armed
  PROVE  g.id \in T!Id /\ g.of \in Timer /\ g.id \in Nat \ {0} /\ g \in T!Armed
<1>1. g \in T!Armed
  BY DEF TimerTypes
<1>2. g.id \in T!Id /\ g.of \in Timer
  BY <1>1 DEF T!Armed
<1> QED BY <1>1, <1>2, LibraryBounds DEF T!Id

LEMMA TimersStart == ASSUME T!Init PROVE TimersInv
<1>1. TimerTypes
  BY DEF T!Init, TimerTypes, T!Kind
<1>2. NumbersFit /\ DestroyedHasNone /\ PromisesAreMade
  BY DEF T!Init, NumbersFit, DestroyedHasNone, PromisesAreMade
<1>3. T!EveryTimerCanBeCleared /\ T!WaitingIsArmed
  BY DEF T!Init, T!EveryTimerCanBeCleared, T!WaitingIsArmed
<1> QED BY <1>1, <1>2, <1>3 DEF TimersInv

(* What was cleared is silent: it has no entry. *)
LEMMA SilentWhenCleared == ASSUME TimersInv PROVE T!ClearedIsSilent
<1> SUFFICES ASSUME NEW g \in armed, g.of \in timerDestroyed PROVE g.id \in orphans
  BY DEF T!ClearedIsSilent
<1>1. g.id # 0
  BY ArmedType DEF TimersInv
<1> QED BY <1>1 DEF TimersInv, DestroyedHasNone, T!EveryTimerCanBeCleared

(* Arming again in place of what the object stood for. *)
LEMMA Armed ==
  ASSUME TimersInv, NEW t \in Timer, NEW d \in BOOLEAN,
         T!Arm(t, T!Without({entry[t]}), d),
         t \notin timerDestroyed, UNCHANGED <<timerDestroyed, running, orphans, wiped>>,
         kind' \in [Timer -> T!Kind \cup {"none"}], kind'[t] # "none",
         \A u \in Timer : u # t => kind'[u] = kind[u],
         timerPromise' \in [Timer -> {"none", "pending", "resolved", "rejected"}],
         \A u \in Timer : u # t => timerPromise'[u] = timerPromise[u],
         timerPromise'[t] # "none" => kind'[t] = "promise"
  PROVE  TimersInv'
<1> DEFINE n == lastId + 1
           new == [id |-> n, of |-> t, deletes |-> d]
<1> USE DEF TimersInv
<1>1. n \in T!Id /\ lastId' = n /\ lastId \in Nat /\ n \in Nat \ {0} /\ n > lastId
  BY LibraryBounds DEF T!Arm, TimerTypes, T!Id
<1>2. new \in T!Armed /\ new.id = n /\ new.of = t
  BY <1>1 DEF T!Armed
<1>3. /\ entry' \in [Timer -> T!Id \cup {0}] /\ entry'[t] = n
      /\ \A u \in Timer : u # t => entry'[u] = entry[u]
  BY <1>1 DEF T!Arm, TimerTypes
<1>4. \A g : g \in armed' <=> g = new \/ (g \in armed /\ g.id # entry[t])
  BY DEF T!Arm, T!Without
<1> HIDE DEF new, n
<1>5. TimerTypes'
  BY <1>1, <1>2, <1>3, <1>4 DEF TimerTypes
<1>6. \A u \in Timer : entry[u] \in Nat /\ entry[u] <= lastId
  BY <1>1, LibraryBounds DEF TimerTypes, NumbersFit, T!Id
<1>7. \A g \in armed : g.id \in Nat /\ g.id <= lastId /\ g.id # n /\ g.of \in Timer
  BY <1>1, ArmedType DEF NumbersFit
<1>8. NumbersFit'
  <2>1. \A g \in armed' : g.id <= n /\ kind'[g.of] # "none"
    BY <1>1, <1>2, <1>4, <1>7 DEF NumbersFit
  <2>2. \A u \in Timer : entry'[u] <= n
    BY <1>1, <1>3, <1>6
  <2>3. \A g \in armed', u \in Timer : entry'[u] = g.id => g.of = u
    <3> SUFFICES ASSUME NEW g \in armed', NEW u \in Timer, entry'[u] = g.id PROVE g.of = u
      OBVIOUS
    <3>1. CASE u = t
      BY <1>2, <1>3, <1>4, <1>7, <3>1
    <3>2. CASE u # t
      <4>1. entry[u] = g.id /\ g # new
        BY <1>1, <1>2, <1>3, <1>6, <3>2
      <4> QED BY <1>4, <4>1 DEF NumbersFit
    <3> QED BY <3>1, <3>2
  <2>4. \A u \in Timer : entry'[u] # 0 => kind'[u] # "none"
    BY <1>3 DEF NumbersFit
  <2> QED BY <1>1, <2>1, <2>2, <2>3, <2>4 DEF NumbersFit
<1>9. DestroyedHasNone' /\ PromisesAreMade'
  BY <1>3 DEF DestroyedHasNone, PromisesAreMade, TimerTypes
<1>10. T!EveryTimerCanBeCleared'
  <2> SUFFICES ASSUME NEW g \in armed' PROVE g.id \in orphans \/ entry'[g.of] = g.id
    BY DEF T!EveryTimerCanBeCleared
  <2>1. CASE g = new
    BY <1>2, <1>3, <2>1
  <2>2. CASE g # new
    <3>1. g \in armed /\ g.id # entry[t] /\ g.of \in Timer
      BY <1>4, <1>7, <2>2
    <3>2. g.id \in orphans \/ entry[g.of] = g.id
      BY <3>1 DEF T!EveryTimerCanBeCleared
    <3> QED BY <1>3, <3>1, <3>2
  <2> QED BY <2>1, <2>2
<1>11. T!WaitingIsArmed'
  <2> SUFFICES ASSUME NEW u \in Timer, timerPromise'[u] = "pending", u \notin wiped
               PROVE  \E g \in armed' : g.of = u
    BY DEF T!WaitingIsArmed
  <2>1. CASE u = t
    BY <1>2, <1>4, <2>1
  <2>2. CASE u # t
    <3>1. PICK g \in armed : g.of = u
      BY <2>2 DEF T!WaitingIsArmed
    <3>2. g.id # entry[t]
      BY <2>2, <3>1 DEF NumbersFit
    <3> QED BY <1>4, <3>1, <3>2
  <2> QED BY <2>1, <2>2
<1> QED BY <1>5, <1>8, <1>9, <1>10, <1>11

(* Forgetting some objects disarms them and nothing else. *)
LEMMA Forgotten ==
  ASSUME TimersInv, NEW ts \in SUBSET Timer, T!Forget(ts), UNCHANGED <<kind, lastId, running, orphans>>
  PROVE  /\ entry' \in [Timer -> T!Id \cup {0}] /\ armed' \subseteq armed
         /\ \A u \in ts : entry'[u] = 0
         /\ \A u \in Timer : entry'[u] = entry[u] \/ u \in ts
         /\ \A g \in armed : g \in armed' \/ g.of \in ts
         /\ NumbersFit' /\ T!EveryTimerCanBeCleared'
<1> USE DEF TimersInv
<1>1. /\ entry' \in [Timer -> T!Id \cup {0}]
      /\ \A u \in Timer : entry'[u] = IF u \in ts THEN 0 ELSE entry[u]
  BY DEF T!Forget, TimerTypes
<1>2. \A g : g \in armed' <=> g \in armed /\ \A u \in ts : g.id # entry[u]
  BY DEF T!Forget, T!Without
<1>3. \A g \in armed : g \in armed' \/ g.of \in ts
  BY <1>2 DEF NumbersFit
<1>4. \A g \in armed : g.id \in Nat \ {0} /\ g.of \in Timer
  BY ArmedType
<1>5. NumbersFit'
  <2>1. \A g \in armed' : g.id <= lastId /\ kind[g.of] # "none"
    BY <1>2 DEF NumbersFit
  <2>2. \A u \in Timer : entry'[u] <= lastId
    BY <1>1 DEF NumbersFit, TimerTypes
  <2>3. \A g \in armed', u \in Timer : entry'[u] = g.id => g.of = u
    BY <1>1, <1>2, <1>4 DEF NumbersFit
  <2>4. \A u \in Timer : entry'[u] # 0 => kind[u] # "none"
    BY <1>1 DEF NumbersFit
  <2> QED BY <2>1, <2>2, <2>3, <2>4 DEF NumbersFit
<1>6. T!EveryTimerCanBeCleared'
  <2> SUFFICES ASSUME NEW g \in armed' PROVE g.id \in orphans \/ entry'[g.of] = g.id
    BY DEF T!EveryTimerCanBeCleared
  <2>1. g \in armed /\ g.of \in Timer /\ \A u \in ts : g.id # entry[u]
    BY <1>2, <1>4
  <2> QED BY <1>1, <2>1 DEF T!EveryTimerCanBeCleared
<1> QED BY <1>1, <1>2, <1>3, <1>5, <1>6

LEMMA TimersStep == ASSUME TimersInv, [T!Next]_(T!vars) PROVE TimersInv'
<1> USE DEF TimersInv
<1>1. CASE UNCHANGED T!vars
  BY <1>1 DEF T!vars, TimerTypes, NumbersFit, DestroyedHasNone, PromisesAreMade,
     T!EveryTimerCanBeCleared, T!WaitingIsArmed
<1>2. ASSUME NEW t \in Timer, NEW k \in T!Kind, T!Create(t, k) PROVE TimersInv'
  <2>1. /\ kind[t] = "none" /\ kind' = [kind EXCEPT ![t] = k]
        /\ UNCHANGED <<timerDestroyed, running, aborted, orphans, wiped>>
    BY <1>2 DEF T!Create
  <2>2. /\ kind' \in [Timer -> T!Kind \cup {"none"}] /\ kind'[t] = k /\ k # "none"
        /\ \A u \in Timer : u # t => kind'[u] = kind[u]
    BY <2>1 DEF TimerTypes, T!Kind
  <2>3. entry[t] = 0 /\ t \notin timerDestroyed /\ timerPromise[t] = "none"
    BY <2>1 DEF TimerTypes, NumbersFit, DestroyedHasNone, PromisesAreMade
  <2>4. CASE k = "promise" /\ aborted
    <3>1. /\ timerPromise' = [timerPromise EXCEPT ![t] = "rejected"]
          /\ UNCHANGED <<armed, entry, lastId>>
      BY <1>2, <2>4 DEF T!Create
    <3>2. TimerTypes'
      BY <2>1, <2>2, <3>1 DEF TimerTypes
    <3>3. NumbersFit'
      <4>1. \A g \in armed : g.of \in Timer /\ g.of # t
        BY <2>1, ArmedType DEF NumbersFit
      <4> QED BY <2>2, <2>3, <3>1, <4>1 DEF NumbersFit
    <3>4. DestroyedHasNone' /\ PromisesAreMade'
      BY <2>1, <2>2, <2>3, <2>4, <3>1 DEF DestroyedHasNone, PromisesAreMade, TimerTypes
    <3>5. T!EveryTimerCanBeCleared' /\ T!WaitingIsArmed'
      BY <2>1, <3>1 DEF T!EveryTimerCanBeCleared, T!WaitingIsArmed, TimerTypes
    <3> QED BY <3>2, <3>3, <3>4, <3>5
  <2>5. CASE ~(k = "promise" /\ aborted)
    <3>1. /\ T!Arm(t, armed, FALSE)
          /\ timerPromise' = IF k = "promise" THEN [timerPromise EXCEPT ![t] = "pending"]
                             ELSE timerPromise
      BY <1>2, <2>5 DEF T!Create
    <3>2. T!Without({entry[t]}) = armed
      BY <2>3, ArmedType DEF T!Without
    <3>3. /\ timerPromise' \in [Timer -> {"none", "pending", "resolved", "rejected"}]
          /\ \A u \in Timer : u # t => timerPromise'[u] = timerPromise[u]
          /\ timerPromise'[t] # "none" => k = "promise"
      BY <2>3, <3>1 DEF TimerTypes
    <3>4. FALSE \in BOOLEAN /\ T!Arm(t, T!Without({entry[t]}), FALSE)
      BY <3>1, <3>2
    <3> QED BY <2>1, <2>2, <2>3, <3>3, <3>4, Armed
  <2> QED BY <2>4, <2>5
<1>3. ASSUME NEW t \in Timer, T!Refresh(t) PROVE TimersInv'
  <2>1. /\ kind[t] \in {"timeout", "interval"} /\ t \notin timerDestroyed
        /\ T!Arm(t, T!Without({entry[t]}), kind[t] = "timeout")
        /\ UNCHANGED <<kind, timerDestroyed, running, timerPromise, orphans, wiped>>
    BY <1>3 DEF T!Refresh
  <2>2. (kind[t] = "timeout") \in BOOLEAN
    OBVIOUS
  <2>3. /\ kind' \in [Timer -> T!Kind \cup {"none"}] /\ kind'[t] # "none"
        /\ \A u \in Timer : u # t => kind'[u] = kind[u]
        /\ timerPromise' \in [Timer -> {"none", "pending", "resolved", "rejected"}]
        /\ \A u \in Timer : u # t => timerPromise'[u] = timerPromise[u]
        /\ timerPromise'[t] # "none" => kind'[t] = "promise"
    BY <2>1 DEF TimerTypes, PromisesAreMade
  <2> QED BY <2>1, <2>2, <2>3, Armed
<1>4. ASSUME NEW t \in Timer, T!Clear(t) PROVE TimersInv'
  <2>1. /\ kind[t] \in {"timeout", "interval"} /\ T!Forget({t})
        /\ timerDestroyed' = timerDestroyed \cup {t}
        /\ UNCHANGED <<kind, lastId, running, timerPromise, orphans, wiped>>
    BY <1>4 DEF T!Clear
  <2>2. /\ entry' \in [Timer -> T!Id \cup {0}] /\ armed' \subseteq armed /\ entry'[t] = 0
        /\ \A u \in Timer : entry'[u] = entry[u] \/ u = t
        /\ \A g \in armed : g \in armed' \/ g.of = t
        /\ NumbersFit' /\ T!EveryTimerCanBeCleared'
    BY <2>1, Forgotten
  <2>3. TimerTypes'
    BY <2>1, <2>2 DEF TimerTypes
  <2>4. DestroyedHasNone' /\ PromisesAreMade'
    BY <2>1, <2>2 DEF DestroyedHasNone, PromisesAreMade, TimerTypes
  <2>5. T!WaitingIsArmed'
    BY <2>1, <2>2 DEF T!WaitingIsArmed, PromisesAreMade
  <2> QED BY <2>2, <2>3, <2>4, <2>5
<1>5. ASSUME NEW t \in Timer, T!ClearNumber(t) PROVE TimersInv'
  <2>1. PICK u \in T!Made : T!Forget({u}) /\ wiped' = wiped \cup {u}
    BY <1>5 DEF T!ClearNumber
  <2>2. UNCHANGED <<kind, timerDestroyed, lastId, running, timerPromise, orphans>> /\ u \in Timer
    BY <1>5 DEF T!ClearNumber, T!Made
  <2>3. /\ entry' \in [Timer -> T!Id \cup {0}] /\ armed' \subseteq armed /\ entry'[u] = 0
        /\ \A v \in Timer : entry'[v] = entry[v] \/ v = u
        /\ \A g \in armed : g \in armed' \/ g.of = u
        /\ NumbersFit' /\ T!EveryTimerCanBeCleared'
    BY <2>1, <2>2, Forgotten
  <2>4. TimerTypes'
    BY <2>2, <2>3 DEF TimerTypes
  <2>5. DestroyedHasNone' /\ PromisesAreMade'
    BY <2>2, <2>3 DEF DestroyedHasNone, PromisesAreMade, TimerTypes
  <2>6. T!WaitingIsArmed'
    BY <2>1, <2>2, <2>3 DEF T!WaitingIsArmed
  <2> QED BY <2>3, <2>4, <2>5, <2>6
<1>6. ASSUME T!ClearAllTimers PROVE TimersInv'
  <2>1. /\ T!Forget(Timer) /\ wiped' = wiped \cup T!Made
        /\ UNCHANGED <<kind, timerDestroyed, lastId, running, timerPromise, orphans>>
    BY <1>6 DEF T!ClearAllTimers
  <2>2. /\ entry' \in [Timer -> T!Id \cup {0}] /\ armed' \subseteq armed
        /\ \A u \in Timer : entry'[u] = 0
        /\ NumbersFit' /\ T!EveryTimerCanBeCleared'
    BY <2>1, Forgotten
  <2>3. TimerTypes' /\ DestroyedHasNone' /\ PromisesAreMade'
    BY <2>1, <2>2 DEF TimerTypes, DestroyedHasNone, PromisesAreMade
  <2>4. T!WaitingIsArmed'
    BY <2>1 DEF T!WaitingIsArmed, PromisesAreMade, T!Made
  <2> QED BY <2>2, <2>3, <2>4
<1>7. ASSUME T!Abort PROVE TimersInv'
  <2> DEFINE listening == {t \in Timer : timerPromise[t] \in {"pending", "resolved"}}
  <2>1. /\ T!Forget(listening)
        /\ timerDestroyed' = timerDestroyed \cup {t \in listening : entry[t] # 0}
        /\ timerPromise' = [t \in Timer |-> IF timerPromise[t] = "pending" THEN "rejected"
                                            ELSE timerPromise[t]]
        /\ UNCHANGED <<kind, lastId, running, orphans, wiped>>
    BY <1>7 DEF T!Abort
  <2>2. listening \in SUBSET Timer /\ \A t \in listening : kind[t] # "none"
    BY DEF PromisesAreMade
  <2> HIDE DEF listening
  <2>3. /\ entry' \in [Timer -> T!Id \cup {0}] /\ armed' \subseteq armed
        /\ \A u \in listening : entry'[u] = 0
        /\ \A u \in Timer : entry'[u] = entry[u] \/ u \in listening
        /\ NumbersFit' /\ T!EveryTimerCanBeCleared'
    BY <2>1, <2>2, Forgotten
  <2>4. TimerTypes'
    BY <2>1, <2>2, <2>3 DEF TimerTypes
  <2>5. DestroyedHasNone' /\ PromisesAreMade'
    BY <2>1, <2>2, <2>3 DEF DestroyedHasNone, PromisesAreMade, TimerTypes
  <2>6. T!WaitingIsArmed'
    BY <2>1 DEF T!WaitingIsArmed
  <2> QED BY <2>3, <2>4, <2>5, <2>6
<1>8. ASSUME NEW g \in armed, T!Fire(g) PROVE TimersInv'
  <2>1. /\ armed' \subseteq armed
        /\ \A h \in armed : h \in armed' \/ h = g
        /\ UNCHANGED <<kind, entry, timerDestroyed, lastId, orphans, wiped>>
    BY <1>8 DEF T!Fire
  <2>2. g \in T!Armed /\ g.of \in Timer
    BY ArmedType
  <2>3. CASE kind[g.of] = "promise"
    <3> DEFINE v == IF timerPromise[g.of] = "pending" THEN "resolved" ELSE timerPromise[g.of]
    <3>1. timerPromise' = [timerPromise EXCEPT ![g.of] = v] /\ UNCHANGED running
      BY <1>8, <2>3 DEF T!Fire
    <3>2. v \in {"none", "pending", "resolved", "rejected"} /\ v # "pending"
      BY <2>2 DEF TimerTypes
    <3> HIDE DEF v
    <3>3. TimerTypes'
      BY <2>1, <2>2, <3>1, <3>2 DEF TimerTypes
    <3>4. NumbersFit' /\ T!EveryTimerCanBeCleared'
      BY <2>1 DEF NumbersFit, T!EveryTimerCanBeCleared
    <3>5. DestroyedHasNone' /\ PromisesAreMade'
      BY <2>1, <2>2, <2>3, <3>1 DEF DestroyedHasNone, PromisesAreMade, TimerTypes
    <3>6. T!WaitingIsArmed'
      <4> SUFFICES ASSUME NEW u \in Timer, timerPromise'[u] = "pending", u \notin wiped
                   PROVE  \E h \in armed' : h.of = u
        BY <2>1 DEF T!WaitingIsArmed
      <4>1. u # g.of /\ timerPromise[u] = "pending"
        BY <2>2, <3>1, <3>2 DEF TimerTypes
      <4>2. PICK h \in armed : h.of = u
        BY <4>1 DEF T!WaitingIsArmed
      <4> QED BY <2>1, <4>1, <4>2
    <3> QED BY <3>3, <3>4, <3>5, <3>6
  <2>4. CASE kind[g.of] # "promise"
    <3>1. running' = g /\ UNCHANGED timerPromise
      BY <1>8, <2>4 DEF T!Fire
    <3>2. TimerTypes'
      BY <2>1, <2>2, <3>1 DEF TimerTypes
    <3>3. NumbersFit' /\ T!EveryTimerCanBeCleared' /\ DestroyedHasNone' /\ PromisesAreMade'
      BY <2>1, <3>1 DEF NumbersFit, T!EveryTimerCanBeCleared, DestroyedHasNone, PromisesAreMade
    <3>4. T!WaitingIsArmed'
      BY <2>1, <2>4, <3>1 DEF T!WaitingIsArmed, PromisesAreMade
    <3> QED BY <3>2, <3>3, <3>4
  <2> QED BY <2>3, <2>4
<1>9. ASSUME T!FunctionReturns PROVE TimersInv'
  <2>1. /\ running # None /\ running' = None
        /\ UNCHANGED <<kind, timerDestroyed, armed, lastId, timerPromise, wiped>>
    BY <1>9 DEF T!FunctionReturns
  <2>2. CASE running.deletes
    <3> DEFINE t == running.of
    <3>1. /\ entry' = [entry EXCEPT ![t] = 0]
          /\ orphans' = orphans \cup ({entry[t]} \cap {g.id : g \in armed})
      BY <1>9, <2>2 DEF T!FunctionReturns
    <3>2. t \in Timer
      BY <2>1 DEF TimerTypes, T!Armed
    <3> HIDE DEF t
    <3>3. TimerTypes'
      BY <2>1, <3>1, <3>2 DEF TimerTypes
    <3>4. NumbersFit'
      <4>1. \A g \in armed, u \in Timer : entry'[u] = g.id => g.of = u
        <5>1. \A g \in armed : g.id # 0
          BY ArmedType
        <5> QED BY <3>1, <3>2, <5>1 DEF NumbersFit, TimerTypes
      <4> QED BY <2>1, <3>1, <3>2, <4>1 DEF NumbersFit, TimerTypes
    <3>5. DestroyedHasNone' /\ PromisesAreMade' /\ T!WaitingIsArmed'
      BY <2>1, <3>1, <3>2 DEF DestroyedHasNone, PromisesAreMade, T!WaitingIsArmed, TimerTypes
    <3>6. T!EveryTimerCanBeCleared'
      <4> SUFFICES ASSUME NEW g \in armed PROVE g.id \in orphans' \/ entry'[g.of] = g.id
        BY <2>1 DEF T!EveryTimerCanBeCleared
      <4>1. g.of \in Timer
        BY ArmedType
      <4> QED BY <3>1, <3>2, <4>1 DEF T!EveryTimerCanBeCleared, TimerTypes
    <3> QED BY <3>3, <3>4, <3>5, <3>6
  <2>3. CASE ~running.deletes
    <3>1. UNCHANGED <<entry, orphans>>
      BY <1>9, <2>3 DEF T!FunctionReturns
    <3> QED BY <2>1, <3>1 DEF TimerTypes, NumbersFit, DestroyedHasNone, PromisesAreMade,
              T!EveryTimerCanBeCleared, T!WaitingIsArmed
  <2> QED BY <2>2, <2>3
<1>10. ASSUME T!FunctionThrows PROVE TimersInv'
  BY <1>10 DEF T!FunctionThrows, TimerTypes, NumbersFit, DestroyedHasNone, PromisesAreMade,
     T!EveryTimerCanBeCleared, T!WaitingIsArmed
<1> QED BY <1>1, <1>2, <1>3, <1>4, <1>5, <1>6, <1>7, <1>8, <1>9, <1>10 DEF T!Next

-----------------------------------------------------------------------------
(* Streams: what the calls in progress still have to do. *)
Item == [do : {"emit", "tick", "push", "pause", "resume", "destroy", "end", "write",
               "data", "listener"},
         of : S!Stream, event : {"", "data", "end", "error", "finish"}, chunk : Nat]

(* An item that carries a chunk. *)
Carrier(x) == x.do \in {"push", "data", "write"} \/ (x.do = "emit" /\ x.event = "data")

Fits(x, n) ==
  /\ x \in Item
  /\ Carrier(x) => x.chunk \in 1 .. n
  /\ x.do = "emit" /\ x.event # "data" => x.chunk = 0
  /\ x.do \in {"push", "data", "pause", "resume", "tick"} \/ (x.do = "emit" /\ x.event = "data")
       => x.of \in S!Readable
  /\ x.do = "write" => x.of \in S!Writable
ItemFits(x) == Fits(x, pushed)

(* What becomes of the chunks a transform had kept. *)
Flows(x) ==
  \/ x.do = "emit" /\ x.event = "data" /\ x.of = "mid"
  \/ x.do \in {"data", "pause"} /\ x.of = "mid"
  \/ x.do = "write" /\ x.of = "dst"
InBatch(x) == Flows(x) \/ (x.do = "push" /\ x.of = "mid")

ItemsFit == agenda \in Seq(Item) /\ \A i \in 1 .. Len(agenda) : ItemFits(agenda[i])

(* One chunk is on its way, at the head; or those a transform had kept are. *)
OneMoves ==
  \/ \A i \in 1 .. Len(agenda) : i # 1 => ~Carrier(agenda[i])
  \/ \A i \in 1 .. Len(agenda) : InBatch(agenda[i])

(* Without a listener of the script, a push of the script and a resume are *)
(* alone, and what empties a buffer ends what is to do.                    *)
QuietItem(i) ==
  /\ agenda[i].do # "listener"
  /\ agenda[i].do = "resume" \/ (agenda[i].do = "push" /\ agenda[i].of = "src") => Len(agenda) = 1
  /\ agenda[i].do = "tick" =>
       /\ i = Len(agenda)
       /\ agenda[i].of = "mid" => \A j \in 1 .. Len(agenda) : j < i => Flows(agenda[j])
Quiet == ~watched => \A i \in 1 .. Len(agenda) : QuietItem(i)

AgendaInv == pushed \in Nat /\ ItemsFit /\ OneMoves /\ Quiet

Carried(m) == \E i \in 1 .. Len(agenda) : Carrier(agenda[i]) /\ agenda[i].chunk = m
CarriedOn(m) == \E i \in 1 .. Len(agenda) : i # 1 /\ Carrier(agenda[i]) /\ agenda[i].chunk = m
Ticking(s) == \E i \in 1 .. Len(agenda) : agenda[i].do = "tick" /\ agenda[i].of = s
TickingOn(s) == \E i \in 1 .. Len(agenda) : i # 1 /\ agenda[i].do = "tick" /\ agenda[i].of = s
CarriedOnce ==
  \A i, j \in 1 .. Len(agenda) :
    Carrier(agenda[i]) /\ Carrier(agenda[j]) /\ agenda[i].chunk = agenda[j].chunk => i = j

(* The item at the head. *)
LEMMA HeadItem ==
  ASSUME AgendaInv, agenda # <<>>
  PROVE  /\ agenda \in Seq(Item) /\ Len(agenda) \in Nat \ {0} /\ 1 \in 1 .. Len(agenda)
         /\ Head(agenda) = agenda[1] /\ Head(agenda) \in Item /\ ItemFits(Head(agenda))
         /\ S!Of = Head(agenda).of /\ S!Ch = Head(agenda).chunk
         /\ \A m : Carried(m) <=> (Carrier(Head(agenda)) /\ Head(agenda).chunk = m) \/ CarriedOn(m)
         /\ \A s : Ticking(s) <=> (Head(agenda).do = "tick" /\ Head(agenda).of = s) \/ TickingOn(s)
<1>1. agenda \in Seq(Item) /\ Len(agenda) \in Nat \ {0} /\ Head(agenda) = agenda[1]
  BY EmptySeq DEF AgendaInv, ItemsFit
<1>2. 1 \in 1 .. Len(agenda)
  BY <1>1
<1>3. ItemFits(Head(agenda)) /\ Head(agenda) \in Item
  BY <1>1, <1>2 DEF AgendaInv, ItemsFit, ItemFits, Fits
<1>4. S!Of = Head(agenda).of /\ S!Ch = Head(agenda).chunk
  BY DEF S!Of, S!Ch
<1>5. \A m : Carried(m) <=> (Carrier(Head(agenda)) /\ Head(agenda).chunk = m) \/ CarriedOn(m)
  BY <1>1, <1>2 DEF Carried, CarriedOn
<1>6. \A s : Ticking(s) <=> (Head(agenda).do = "tick" /\ Head(agenda).of = s) \/ TickingOn(s)
  BY <1>1, <1>2 DEF Ticking, TickingOn
<1> QED BY <1>1, <1>2, <1>3, <1>4, <1>5, <1>6

(* A chunk whose carrier is at the head is on no other item. *)
LEMMA HeadCarriesAlone ==
  ASSUME AgendaInv, agenda # <<>>, CarriedOnce, Carrier(Head(agenda))
  PROVE  ~CarriedOn(Head(agenda).chunk)
BY HeadItem DEF CarriedOnce, CarriedOn

(* The head is done. *)
LEMMA ThenNothing ==
  ASSUME AgendaInv, agenda # <<>>, agenda' = <<>> \o Tail(agenda), UNCHANGED <<pushed, watched>>
  PROVE  /\ AgendaInv'
         /\ \A m : Carried(m)' <=> CarriedOn(m)
         /\ \A s : Ticking(s)' <=> TickingOn(s)
         /\ CarriedOnce => CarriedOnce'
<1> DEFINE n == Len(agenda)
<1>1. /\ agenda \in Seq(Item) /\ n \in Nat \ {0}
      /\ agenda' \in Seq(Item) /\ Len(agenda') = n - 1
      /\ \A i \in 1 .. n - 1 : agenda'[i] = agenda[i + 1]
  <2>1. Tail(agenda) \in Seq(Item) /\ Len(Tail(agenda)) = n - 1 /\ n \in Nat \ {0}
        /\ \A i \in 1 .. n - 1 : Tail(agenda)[i] = agenda[i + 1]
    BY HeadItem, HeadTailProperties
  <2>2. agenda' = Tail(agenda)
    BY <2>1, ConcatEmptySeq
  <2> QED BY <2>1, <2>2, HeadItem
<1> HIDE DEF n
<1>2. /\ \A i \in 1 .. n - 1 : i + 1 \in 1 .. n /\ i + 1 # 1 /\ i \in Nat
      /\ \A k \in 1 .. n : k # 1 => k - 1 \in 1 .. n - 1 /\ (k - 1) + 1 = k
      /\ \A i, j \in 1 .. n - 1 : (i + 1 = j + 1 => i = j) /\ (j < i => j + 1 < i + 1)
      /\ \A i \in 1 .. n - 1 : i + 1 = n => i = n - 1
  BY <1>1
<1>3. \A k \in 1 .. n : k # 1 => \E i \in 1 .. n - 1 : k = i + 1 /\ agenda'[i] = agenda[k]
  BY <1>1, <1>2
<1>4. ItemsFit'
  <2>1. \A i \in 1 .. n - 1 : ItemFits(agenda[i + 1]) /\ agenda'[i] = agenda[i + 1]
    BY <1>1, <1>2 DEF AgendaInv, ItemsFit, n
  <2> QED BY <1>1, <2>1 DEF ItemsFit, ItemFits, Fits
<1>5. OneMoves'
  BY <1>1, <1>2 DEF AgendaInv, OneMoves, n
<1>6. Quiet'
  <2> SUFFICES ASSUME ~watched, NEW i \in 1 .. n - 1 PROVE QuietItem(i)'
    BY <1>1 DEF Quiet
  <2>1. QuietItem(i + 1) /\ agenda'[i] = agenda[i + 1] /\ i + 1 \in 1 .. n
    BY <1>1, <1>2 DEF AgendaInv, Quiet, n
  <2>2. n # 1
    BY <1>1
  <2>3. agenda'[i].do = "tick" /\ agenda'[i].of = "mid" =>
          \A j \in 1 .. n - 1 : j < i => Flows(agenda'[j])
    BY <1>1, <1>2, <2>1 DEF QuietItem, n
  <2> QED BY <1>1, <1>2, <2>1, <2>2, <2>3 DEF QuietItem, n
<1>7. ASSUME NEW m PROVE Carried(m)' <=> CarriedOn(m)
  <2> DEFINE G(z) == Carrier(z) /\ z.chunk = m
  <2>1. Carried(m)' <=> \E j \in 1 .. n - 1 : G(agenda'[j])
    BY <1>1 DEF Carried, Carrier
  <2>2. CarriedOn(m) <=> \E k \in 1 .. n : k # 1 /\ G(agenda[k])
    BY DEF CarriedOn, n
  <2> HIDE DEF G
  <2>3. (\E j \in 1 .. n - 1 : G(agenda'[j])) <=> \E k \in 1 .. n : k # 1 /\ G(agenda[k])
    BY <1>1, <1>2, <1>3
  <2> QED BY <2>1, <2>2, <2>3
<1>8. ASSUME NEW s PROVE Ticking(s)' <=> TickingOn(s)
  <2> DEFINE G(z) == z.do = "tick" /\ z.of = s
  <2>1. Ticking(s)' <=> \E j \in 1 .. n - 1 : G(agenda'[j])
    BY <1>1 DEF Ticking
  <2>2. TickingOn(s) <=> \E k \in 1 .. n : k # 1 /\ G(agenda[k])
    BY DEF TickingOn, n
  <2> HIDE DEF G
  <2>3. (\E j \in 1 .. n - 1 : G(agenda'[j])) <=> \E k \in 1 .. n : k # 1 /\ G(agenda[k])
    BY <1>1, <1>2, <1>3
  <2> QED BY <2>1, <2>2, <2>3
<1>9. ASSUME CarriedOnce PROVE CarriedOnce'
  <2> SUFFICES ASSUME NEW i \in 1 .. n - 1, NEW j \in 1 .. n - 1,
                      Carrier(agenda'[i]), Carrier(agenda'[j]), agenda'[i].chunk = agenda'[j].chunk
               PROVE  i = j
    BY <1>1 DEF CarriedOnce
  <2>1. /\ i + 1 \in 1 .. n /\ j + 1 \in 1 .. n
        /\ agenda'[i] = agenda[i + 1] /\ agenda'[j] = agenda[j + 1]
    BY <1>1, <1>2
  <2>2. i + 1 = j + 1
    BY <1>9, <2>1 DEF CarriedOnce, n
  <2> QED BY <1>2, <2>2
<1> QED BY <1>4, <1>5, <1>6, <1>7, <1>8, <1>9 DEF AgendaInv

(* Another item takes the place of the head. *)
LEMMA ThenOne ==
  ASSUME AgendaInv, agenda # <<>>, NEW x, agenda' = <<x>> \o Tail(agenda),
         UNCHANGED <<pushed, watched>>, ItemFits(x),
         InBatch(Head(agenda)) => InBatch(x),
         Flows(Head(agenda)) => Flows(x),
         ~watched => /\ x.do \notin {"listener", "resume"}
                     /\ ~(x.do = "push" /\ x.of = "src")
                     /\ x.do = "tick" => Len(agenda) = 1
  PROVE  /\ AgendaInv' /\ Len(agenda') = Len(agenda)
         /\ \A m : Carried(m)' <=> (Carrier(x) /\ x.chunk = m) \/ CarriedOn(m)
         /\ \A s : Ticking(s)' <=> (x.do = "tick" /\ x.of = s) \/ TickingOn(s)
         /\ CarriedOnce /\ (Carrier(x) => ~CarriedOn(x.chunk)) => CarriedOnce'
<1> DEFINE n == Len(agenda)
<1>1. /\ agenda \in Seq(Item) /\ n \in Nat \ {0} /\ 1 \in 1 .. n /\ Head(agenda) = agenda[1]
      /\ agenda' \in Seq(Item) /\ Len(agenda') = n /\ agenda'[1] = x
      /\ \A i \in 1 .. n : i # 1 => agenda'[i] = agenda[i]
  <2> DEFINE y == <<x>>
             z == Tail(agenda)
  <2>1. z \in Seq(Item) /\ Len(z) = n - 1 /\ n \in Nat \ {0}
        /\ \A i \in 1 .. n - 1 : z[i] = agenda[i + 1]
    BY HeadItem, HeadTailProperties
  <2>2. y \in Seq(Item) /\ Len(y) = 1 /\ y[1] = x
    BY DEF ItemFits, Fits
  <2>3. agenda' = y \o z
    OBVIOUS
  <2> HIDE DEF y, z, n
  <2>4. /\ agenda' \in Seq(Item) /\ Len(agenda') = 1 + (n - 1)
        /\ \A i \in 1 .. 1 + (n - 1) : agenda'[i] = IF i <= 1 THEN y[i] ELSE z[i - 1]
    <3>1. /\ y \o z \in Seq(Item) /\ Len(y \o z) = Len(y) + Len(z)
          /\ \A i \in 1 .. Len(y) + Len(z) :
               (y \o z)[i] = IF i <= Len(y) THEN y[i] ELSE z[i - Len(y)]
      BY <2>1, <2>2, ConcatProperties
    <3> QED BY <2>1, <2>2, <2>3, <3>1
  <2>5. 1 + (n - 1) = n /\ 1 \in 1 .. n
    BY <2>1
  <2>6. \A i \in 1 .. n : i # 1 => i - 1 \in 1 .. n - 1 /\ (i - 1) + 1 = i /\ ~(i <= 1)
    BY <2>1
  <2>7. agenda'[1] = x
    BY <2>2, <2>4, <2>5
  <2>8. \A i \in 1 .. n : i # 1 => agenda'[i] = agenda[i]
    BY <2>1, <2>4, <2>5, <2>6
  <2> QED BY <2>1, <2>4, <2>5, <2>7, <2>8, HeadItem DEF n
<1> HIDE DEF n
<1>4. ItemsFit'
  BY <1>1 DEF AgendaInv, ItemsFit, ItemFits, Fits, n
<1>5. OneMoves'
  BY <1>1 DEF AgendaInv, OneMoves, n
<1>6. Quiet'
  <2> SUFFICES ASSUME ~watched, NEW i \in 1 .. n PROVE QuietItem(i)'
    BY <1>1 DEF Quiet
  <2>1. CASE i = 1
    <3>1. \A j \in 1 .. n : ~(j < i)
      BY <1>1, <2>1
    <3> QED BY <1>1, <2>1, <3>1 DEF QuietItem, n
  <2>2. CASE i # 1
    <3>1. QuietItem(i) /\ agenda'[i] = agenda[i]
      BY <1>1, <2>2 DEF AgendaInv, Quiet, n
    <3>2. agenda[i].do = "tick" /\ agenda[i].of = "mid" =>
            \A j \in 1 .. n : j < i => Flows(agenda'[j])
      BY <1>1, <2>2, <3>1 DEF QuietItem, n
    <3> QED BY <1>1, <3>1, <3>2 DEF QuietItem, n
  <2> QED BY <2>1, <2>2
<1>7. ASSUME NEW m PROVE Carried(m)' <=> (Carrier(x) /\ x.chunk = m) \/ CarriedOn(m)
  BY <1>1 DEF Carried, CarriedOn, n
<1>8. ASSUME NEW s PROVE Ticking(s)' <=> (x.do = "tick" /\ x.of = s) \/ TickingOn(s)
  BY <1>1 DEF Ticking, TickingOn, n
<1>9. ASSUME CarriedOnce, Carrier(x) => ~CarriedOn(x.chunk) PROVE CarriedOnce'
  BY <1>1, <1>9 DEF CarriedOnce, CarriedOn, n
<1> QED BY <1>1, <1>4, <1>5, <1>6, <1>7, <1>8, <1>9 DEF AgendaInv, n

(* Two items take the place of the head. *)
LEMMA ThenTwo ==
  ASSUME AgendaInv, agenda # <<>>, NEW x, NEW y, agenda' = <<x, y>> \o Tail(agenda),
         UNCHANGED <<pushed, watched>>, ItemFits(x), ItemFits(y), ~Carrier(y),
         ~InBatch(Head(agenda)),
         ~watched => /\ x.do \notin {"listener", "resume", "tick", "push"}
                     /\ y.do = "tick" /\ Len(agenda) = 1
                     /\ y.of = "mid" => Flows(x)
  PROVE  /\ AgendaInv'
         /\ \A m : Carried(m)' <=> (Carrier(x) /\ x.chunk = m) \/ CarriedOn(m)
         /\ \A s : Ticking(s)' <=>
              (x.do = "tick" /\ x.of = s) \/ (y.do = "tick" /\ y.of = s) \/ TickingOn(s)
         /\ CarriedOnce /\ (Carrier(x) => ~CarriedOn(x.chunk)) => CarriedOnce'
<1> DEFINE n == Len(agenda)
           l == n + 1
<1>1. /\ agenda \in Seq(Item) /\ n \in Nat \ {0} /\ 1 \in 1 .. n /\ Head(agenda) = agenda[1]
      /\ agenda' \in Seq(Item) /\ Len(agenda') = l /\ agenda'[1] = x /\ agenda'[2] = y
      /\ \A i \in 1 .. n : i # 1 => agenda'[i + 1] = agenda[i]
  <2> DEFINE z1 == <<x, y>>
             z == Tail(agenda)
  <2>1. z \in Seq(Item) /\ Len(z) = n - 1 /\ n \in Nat \ {0}
        /\ \A i \in 1 .. n - 1 : z[i] = agenda[i + 1]
    BY HeadItem, HeadTailProperties
  <2>2. z1 \in Seq(Item) /\ Len(z1) = 2 /\ z1[1] = x /\ z1[2] = y
    BY DEF ItemFits, Fits
  <2>3. agenda' = z1 \o z
    OBVIOUS
  <2> HIDE DEF z1, z, n
  <2>4. /\ agenda' \in Seq(Item) /\ Len(agenda') = 2 + (n - 1)
        /\ \A i \in 1 .. 2 + (n - 1) : agenda'[i] = IF i <= 2 THEN z1[i] ELSE z[i - 2]
    <3>1. /\ z1 \o z \in Seq(Item) /\ Len(z1 \o z) = Len(z1) + Len(z)
          /\ \A i \in 1 .. Len(z1) + Len(z) :
               (z1 \o z)[i] = IF i <= Len(z1) THEN z1[i] ELSE z[i - Len(z1)]
      <4>1. z1 \in Seq(Item) /\ z \in Seq(Item)
        BY <2>1, <2>2
      <4> QED BY ONLY <4>1, ConcatProperties
    <3> QED BY <2>1, <2>2, <2>3, <3>1
  <2>5. 2 + (n - 1) = l /\ 1 \in 1 .. l /\ 2 \in 1 .. l
    BY <2>1
  <2>6. agenda'[1] = x /\ agenda'[2] = y
    BY <2>2, <2>4, <2>5
  <2>7. ASSUME NEW i \in 1 .. n, i # 1 PROVE agenda'[i + 1] = agenda[i]
    <3>1. i + 1 \in 1 .. l /\ ~(i + 1 <= 2) /\ (i + 1) - 2 = i - 1 /\ i - 1 \in 1 .. n - 1
          /\ (i - 1) + 1 = i
      BY <2>1, <2>7
    <3> QED BY <2>1, <2>4, <2>5, <3>1
  <2> QED BY <2>1, <2>4, <2>5, <2>6, <2>7, HeadItem DEF n
<1> HIDE DEF n
<1>2. /\ l \in Nat /\ 1 \in 1 .. l /\ 2 \in 1 .. l
      /\ \A i \in 1 .. n : i # 1 => i + 1 \in 1 .. l /\ i + 1 # 1 /\ i + 1 # 2
      /\ \A i, j \in 1 .. n : i + 1 = j + 1 => i = j
  BY <1>1
<1>3. \A j \in 1 .. l : j = 1 \/ j = 2 \/ (\E i \in 1 .. n : i # 1 /\ j = i + 1)
  <2> SUFFICES ASSUME NEW j \in 1 .. l, j # 1, j # 2 PROVE \E i \in 1 .. n : i # 1 /\ j = i + 1
    OBVIOUS
  <2>1. j - 1 \in 1 .. n /\ j - 1 # 1 /\ j = (j - 1) + 1
    BY <1>1
  <2> QED BY <2>1
<1>0. n = 1 => l = 2
  BY <1>1
<1> HIDE DEF l
<1>4. ItemsFit'
  BY <1>1, <1>2, <1>3 DEF AgendaInv, ItemsFit, ItemFits, Fits, n
<1>5. OneMoves'
  <2>1. \A i \in 1 .. n : i # 1 => ~Carrier(agenda[i])
    BY <1>1 DEF AgendaInv, OneMoves, n
  <2> QED BY <1>1, <1>2, <1>3, <2>1 DEF OneMoves, n
<1>6. Quiet'
  <2> SUFFICES ASSUME ~watched, NEW i \in 1 .. l PROVE QuietItem(i)'
    BY <1>1 DEF Quiet
  <2>1. n = 1 /\ l = 2
    BY <1>0 DEF n
  <2>2. CASE i = 1
    BY <1>1, <2>2 DEF QuietItem
  <2>3. CASE i = 2
    <3>1. \A j \in 1 .. 2 : j < 2 => j = 1
      OBVIOUS
    <3> QED BY <1>1, <2>1, <2>3, <3>1 DEF QuietItem
  <2>4. i = 1 \/ i = 2
    BY <2>1
  <2> QED BY <2>2, <2>3, <2>4
<1>7. ASSUME NEW m PROVE Carried(m)' <=> (Carrier(x) /\ x.chunk = m) \/ CarriedOn(m)
  <2> DEFINE G(z) == Carrier(z) /\ z.chunk = m
  <2>1. Carried(m)' <=> \E j \in 1 .. l : G(agenda'[j])
    BY <1>1 DEF Carried, Carrier
  <2>2. CarriedOn(m) <=> \E k \in 1 .. n : k # 1 /\ G(agenda[k])
    BY DEF CarriedOn, n
  <2>3. ~G(y)
    OBVIOUS
  <2> HIDE DEF G
  <2>4. (\E j \in 1 .. l : G(agenda'[j])) <=>
          G(x) \/ \E k \in 1 .. n : k # 1 /\ G(agenda[k])
    <3>1. ASSUME NEW j \in 1 .. l, G(agenda'[j])
          PROVE  G(x) \/ \E k \in 1 .. n : k # 1 /\ G(agenda[k])
      BY <1>1, <1>3, <2>3, <3>1
    <3>2. G(x) => \E j \in 1 .. l : G(agenda'[j])
      BY <1>1, <1>2
    <3>3. ASSUME NEW k \in 1 .. n, k # 1, G(agenda[k]) PROVE \E j \in 1 .. l : G(agenda'[j])
      BY <1>1, <1>2, <3>3
    <3> QED BY <3>1, <3>2, <3>3
  <2> QED BY <2>1, <2>2, <2>4 DEF G
<1>8. ASSUME NEW s
      PROVE  Ticking(s)' <=>
               (x.do = "tick" /\ x.of = s) \/ (y.do = "tick" /\ y.of = s) \/ TickingOn(s)
  <2> DEFINE G(z) == z.do = "tick" /\ z.of = s
  <2>1. Ticking(s)' <=> \E j \in 1 .. l : G(agenda'[j])
    BY <1>1 DEF Ticking
  <2>2. TickingOn(s) <=> \E k \in 1 .. n : k # 1 /\ G(agenda[k])
    BY DEF TickingOn, n
  <2> HIDE DEF G
  <2>3. (\E j \in 1 .. l : G(agenda'[j])) <=>
          G(x) \/ G(y) \/ \E k \in 1 .. n : k # 1 /\ G(agenda[k])
    <3>1. ASSUME NEW j \in 1 .. l, G(agenda'[j])
          PROVE  G(x) \/ G(y) \/ \E k \in 1 .. n : k # 1 /\ G(agenda[k])
      BY <1>1, <1>3, <3>1
    <3>2. G(x) \/ G(y) => \E j \in 1 .. l : G(agenda'[j])
      BY <1>1, <1>2
    <3>3. ASSUME NEW k \in 1 .. n, k # 1, G(agenda[k]) PROVE \E j \in 1 .. l : G(agenda'[j])
      BY <1>1, <1>2, <3>3
    <3> QED BY <3>1, <3>2, <3>3
  <2> QED BY <2>1, <2>2, <2>3 DEF G
<1>9. ASSUME CarriedOnce, Carrier(x) => ~CarriedOn(x.chunk) PROVE CarriedOnce'
  <2> SUFFICES ASSUME NEW i \in 1 .. l, NEW j \in 1 .. l,
                      Carrier(agenda'[i]), Carrier(agenda'[j]), agenda'[i].chunk = agenda'[j].chunk
               PROVE  i = j
    BY <1>1 DEF CarriedOnce
  <2>1. \A k \in 1 .. n : k # 1 /\ Carrier(agenda[k]) /\ Carrier(x) => agenda[k].chunk # x.chunk
    BY <1>9 DEF CarriedOn, n
  <2>2. \A k, k2 \in 1 .. n : Carrier(agenda[k]) /\ Carrier(agenda[k2])
                              /\ agenda[k].chunk = agenda[k2].chunk => k = k2
    BY <1>9 DEF CarriedOnce, n
  <2>3. i # 2 /\ j # 2
    BY <1>1
  <2>4. CASE i = 1 /\ j = 1
    BY <2>4
  <2>5. CASE i = 1 /\ j # 1
    BY <1>1, <1>3, <2>1, <2>3, <2>5
  <2>6. CASE i # 1 /\ j = 1
    BY <1>1, <1>3, <2>1, <2>3, <2>6
  <2>7. CASE i # 1 /\ j # 1
    BY <1>1, <1>3, <2>2, <2>3, <2>7
  <2> QED BY <2>4, <2>5, <2>6, <2>7
<1> QED BY <1>4, <1>5, <1>6, <1>7, <1>8, <1>9 DEF AgendaInv

(* The script calls from outside every call or from its listener. *)
LEMMA WhoCalls ==
  ASSUME AgendaInv, S!ScriptRuns
  PROVE  /\ ~watched => agenda = <<>>
         /\ \A i \in 1 .. Len(agenda) : ~Carrier(agenda[i])
         /\ \A m : ~Carried(m)
<1>1. CASE agenda = <<>>
  <2>1. Len(agenda) = 0
    BY <1>1, EmptySeq
  <2> QED BY <1>1, <2>1 DEF Carried
<1>2. CASE agenda # <<>>
  <2>1. Head(agenda).do = "listener"
    BY <1>2 DEF S!ScriptRuns
  <2>2. /\ Head(agenda) = agenda[1] /\ 1 \in 1 .. Len(agenda)
    BY <1>2, HeadItem
  <2>3. ~Carrier(agenda[1]) /\ ~InBatch(agenda[1])
    BY <2>1, <2>2 DEF Carrier, InBatch, Flows
  <2>4. \A i \in 1 .. Len(agenda) : ~Carrier(agenda[i])
    BY <2>2, <2>3 DEF AgendaInv, OneMoves
  <2>5. watched
    BY <2>1, <2>2 DEF AgendaInv, Quiet, QuietItem
  <2> QED BY <2>4, <2>5 DEF Carried
<1> QED BY <1>1, <1>2

(* A call that has nothing to do. *)
LEMMA CallNothing ==
  ASSUME AgendaInv, S!ScriptRuns, agenda' = <<>> \o agenda, UNCHANGED <<pushed, watched>>
  PROVE  /\ AgendaInv' /\ \A m : ~Carried(m)'
         /\ \A s : Ticking(s)' <=> Ticking(s)
         /\ CarriedOnce'
<1>1. agenda' = agenda
  BY ConcatEmptySeq DEF AgendaInv, ItemsFit
<1>2. AgendaInv'
  BY <1>1 DEF AgendaInv, ItemsFit, ItemFits, OneMoves, Quiet, QuietItem
<1>3. \A m : ~Carried(m)'
  BY <1>1, WhoCalls DEF Carried
<1>4. \A s : Ticking(s)' <=> Ticking(s)
  BY <1>1 DEF Ticking
<1>5. CarriedOnce'
  BY <1>1, WhoCalls DEF CarriedOnce
<1> QED BY <1>2, <1>3, <1>4, <1>5

LEMMA CallOne ==
  ASSUME AgendaInv, S!ScriptRuns, NEW x, agenda' = <<x>> \o agenda, UNCHANGED watched,
         pushed' \in Nat, pushed' >= pushed, Fits(x, pushed'), x.do \notin {"listener", "tick"}
  PROVE  /\ AgendaInv'
         /\ \A m : Carried(m)' <=> Carrier(x) /\ x.chunk = m
         /\ \A s : Ticking(s)' <=> Ticking(s)
         /\ CarriedOnce'
         /\ ~watched => Len(agenda') = 1 /\ \A s : ~Ticking(s)
<1> DEFINE n == Len(agenda)
           l == n + 1
<1>1. /\ agenda \in Seq(Item) /\ n \in Nat
      /\ agenda' \in Seq(Item) /\ Len(agenda') = l /\ agenda'[1] = x
      /\ \A i \in 1 .. n : agenda'[i + 1] = agenda[i]
  <2> DEFINE y == <<x>>
  <2>1. agenda \in Seq(Item) /\ n \in Nat
    BY LenProperties DEF AgendaInv, ItemsFit
  <2>2. y \in Seq(Item) /\ Len(y) = 1 /\ y[1] = x
    BY DEF Fits
  <2>3. agenda' = y \o agenda
    OBVIOUS
  <2> HIDE DEF y, n
  <2>4. /\ agenda' \in Seq(Item) /\ Len(agenda') = 1 + n
        /\ \A i \in 1 .. 1 + n : agenda'[i] = IF i <= 1 THEN y[i] ELSE agenda[i - 1]
    <3>1. /\ y \o agenda \in Seq(Item) /\ Len(y \o agenda) = Len(y) + Len(agenda)
          /\ \A i \in 1 .. Len(y) + Len(agenda) :
               (y \o agenda)[i] = IF i <= Len(y) THEN y[i] ELSE agenda[i - Len(y)]
      BY <2>1, <2>2, ConcatProperties
    <3> QED BY <2>1, <2>2, <2>3, <3>1 DEF n
  <2>5. 1 + n = l /\ 1 \in 1 .. l
    BY <2>1
  <2>6. agenda'[1] = x
    BY <2>2, <2>4, <2>5
  <2>7. ASSUME NEW i \in 1 .. n PROVE agenda'[i + 1] = agenda[i]
    <3>1. i + 1 \in 1 .. l /\ ~(i + 1 <= 1) /\ (i + 1) - 1 = i
      BY <2>1
    <3> QED BY <2>1, <2>4, <2>5, <3>1
  <2> QED BY <2>1, <2>4, <2>5, <2>6, <2>7 DEF n
<1> HIDE DEF n
<1>2. /\ l \in Nat /\ 1 \in 1 .. l
      /\ \A i \in 1 .. n : i + 1 \in 1 .. l /\ i + 1 # 1
  BY <1>1
<1>3. \A j \in 1 .. l : j = 1 \/ (\E i \in 1 .. n : j = i + 1)
  <2> SUFFICES ASSUME NEW j \in 1 .. l, j # 1 PROVE \E i \in 1 .. n : j = i + 1
    OBVIOUS
  <2>1. j - 1 \in 1 .. n /\ j = (j - 1) + 1
    BY <1>1
  <2> QED BY <2>1
<1>0. n = 0 => l = 1
  BY <1>1
<1> HIDE DEF l
<1>4. ItemsFit'
  <2>1. \A m \in 1 .. pushed : m \in 1 .. pushed'
    BY DEF AgendaInv
  <2>2. ASSUME NEW i \in 1 .. n PROVE Fits(agenda[i], pushed')
    <3>1. Fits(agenda[i], pushed)
      BY DEF AgendaInv, ItemsFit, ItemFits, n
    <3> QED BY <2>1, <3>1 DEF Fits
  <2>3. \A j \in 1 .. l : Fits(agenda'[j], pushed')
    BY <1>1, <1>3, <2>2
  <2> QED BY <1>1, <2>3 DEF ItemsFit, ItemFits
<1>5. \A i \in 1 .. n : ~Carrier(agenda[i])
  BY WhoCalls DEF n
<1>6. OneMoves'
  BY <1>1, <1>3, <1>5 DEF OneMoves
<1>7. ~watched => n = 0 /\ l = 1
  <2>1. agenda = <<>> => n = 0
    BY EmptySeq DEF n
  <2> QED BY <1>0, <2>1, WhoCalls
<1>8. Quiet'
  <2> SUFFICES ASSUME ~watched, NEW i \in 1 .. l PROVE QuietItem(i)'
    BY <1>1 DEF Quiet
  <2>1. i = 1 /\ l = 1
    BY <1>7
  <2> QED BY <1>1, <2>1 DEF QuietItem
<1>9. ASSUME NEW m PROVE Carried(m)' <=> Carrier(x) /\ x.chunk = m
  <2>1. \A j \in 1 .. l : j = 1 \/ ~Carrier(agenda'[j])
    BY <1>1, <1>3, <1>5
  <2> QED BY <1>1, <1>2, <2>1 DEF Carried, Carrier
<1>10. ASSUME NEW s PROVE Ticking(s)' <=> Ticking(s)
  <2> DEFINE G(z) == z.do = "tick" /\ z.of = s
  <2>1. Ticking(s)' <=> \E j \in 1 .. l : G(agenda'[j])
    BY <1>1 DEF Ticking
  <2>2. Ticking(s) <=> \E k \in 1 .. n : G(agenda[k])
    BY DEF Ticking, n
  <2>3. ~G(x)
    OBVIOUS
  <2> HIDE DEF G
  <2>4. (\E j \in 1 .. l : G(agenda'[j])) <=> \E k \in 1 .. n : G(agenda[k])
    BY <1>1, <1>2, <1>3, <2>3
  <2> QED BY <2>1, <2>2, <2>4
<1>11. CarriedOnce'
  <2>1. \A j \in 1 .. l : j = 1 \/ ~Carrier(agenda'[j])
    BY <1>1, <1>3, <1>5
  <2> QED BY <1>1, <2>1 DEF CarriedOnce, Carrier
<1>12. ~watched => Len(agenda') = 1 /\ \A s : ~Ticking(s)
  BY <1>1, <1>7 DEF Ticking, n
<1> QED BY <1>4, <1>6, <1>8, <1>9, <1>10, <1>11, <1>12 DEF AgendaInv

(* The listener of the script returns, or throws: nothing was carried. *)
LEMMA ListenerLeaves ==
  ASSUME AgendaInv, S!ListenerReturns \/ S!ListenerThrows
  PROVE  /\ AgendaInv' /\ watched /\ UNCHANGED <<pushed, watched>>
         /\ \A m : ~Carried(m)
<1>1. /\ agenda # <<>> /\ Head(agenda).do = "listener" /\ UNCHANGED <<pushed, watched>>
  BY DEF S!ListenerReturns, S!ListenerThrows, S!scriptVars
<1>2. /\ Head(agenda) = agenda[1] /\ 1 \in 1 .. Len(agenda) /\ Len(agenda) \in Nat \ {0}
      /\ agenda \in Seq(Item)
  BY <1>1, HeadItem
<1>3. ~Carrier(agenda[1]) /\ ~InBatch(agenda[1])
  BY <1>1, <1>2 DEF Carrier, InBatch, Flows
<1>4. \A i \in 1 .. Len(agenda) : ~Carrier(agenda[i])
  BY <1>2, <1>3 DEF AgendaInv, OneMoves
<1>5. watched
  BY <1>1, <1>2 DEF AgendaInv, Quiet, QuietItem
<1>6. \A m : ~Carried(m)
  BY <1>4 DEF Carried
<1>7. CASE S!ListenerReturns
  <2>1. agenda' = <<>> \o Tail(agenda)
    <3>1. Tail(agenda) \in Seq(Item)
      BY <1>1, <1>2, HeadTailProperties
    <3> QED BY <1>7, <3>1, ConcatEmptySeq DEF S!ListenerReturns
  <2>2. AgendaInv'
    BY <1>1, <2>1, ThenNothing
  <2> QED BY <1>1, <1>5, <1>6, <2>2
<1>8. CASE S!ListenerThrows
  <2> DEFINE r == Tail(agenda)
             I == {i \in 1 .. Len(r) : r[i].do = "listener"}
             k == IF I # {} THEN S!Min(I) ELSE 0
             k1 == k + 1
  <2>1. agenda' = IF k = 0 THEN <<>> ELSE SubSeq(agenda, k1, Len(agenda))
    BY <1>8 DEF S!ListenerThrows, S!SelectInSeq
  <2>2. r \in Seq(Item) /\ Len(r) = Len(agenda) - 1
    BY <1>1, <1>2, HeadTailProperties
  <2>3. k = 0 \/ k \in 1 .. Len(r)
    <3>1. ASSUME I # {} PROVE S!Min(I) \in I
      <4>1. Len(r) \in Nat /\ I \subseteq 1 .. Len(r)
        BY <1>2, <2>2
      <4>2. E!Min(I) \in I
        <5> HIDE DEF r
        <5> QED BY <3>1, <4>1, FirstPlace
      <4>3. S!Min(I) = E!Min(I)
        BY DEF S!Min, E!Min
      <4> QED BY <4>2, <4>3
    <3> QED BY <3>1
  <2> HIDE DEF k, r
  <2>4. /\ agenda' \in Seq(Item)
        /\ \A j \in 1 .. Len(agenda') : \E i \in 1 .. Len(agenda) : agenda'[j] = agenda[i]
    <3>1. CASE k = 0
      BY <2>1, <3>1, EmptySeq
    <3>2. CASE k # 0
      <4> DEFINE n == Len(agenda)
      <4>1. k1 \in 2 .. n /\ k1 \in Int /\ n \in Int
        BY <1>2, <2>2, <2>3, <3>2
      <4>2. \A i \in k1 .. n : agenda[i] \in Item
        <5>1. \A i \in k1 .. n : i \in 1 .. Len(agenda)
          BY <4>1
        <5> QED BY <1>2, <5>1, ElementOfSeq
      <4> HIDE DEF k1, n
      <4>3. /\ SubSeq(agenda, k1, n) \in Seq(Item)
            /\ Len(SubSeq(agenda, k1, n)) = IF k1 <= n THEN n - k1 + 1 ELSE 0
            /\ \A i \in 1 .. n - k1 + 1 : SubSeq(agenda, k1, n)[i] = agenda[k1 + i - 1]
        BY <4>1, <4>2, SubSeqProperties
      <4>4. agenda' = SubSeq(agenda, k1, n)
        BY <2>1, <3>2 DEF n
      <4>5. \A i \in 1 .. n - k1 + 1 : k1 + i - 1 \in 1 .. n
        BY <4>1
      <4>6. Len(agenda') = n - k1 + 1
        BY <4>1, <4>3, <4>4
      <4> QED BY <4>3, <4>4, <4>5, <4>6 DEF n
    <3> QED BY <3>1, <3>2
  <2>5. \A j \in 1 .. Len(agenda') : ItemFits(agenda'[j]) /\ ~Carrier(agenda'[j])
    BY <1>4, <2>4 DEF AgendaInv, ItemsFit
  <2>6. AgendaInv'
    <3>1. ItemsFit'
      BY <1>1, <2>4, <2>5 DEF ItemsFit, ItemFits
    <3>2. OneMoves'
      BY <2>5 DEF OneMoves
    <3>3. Quiet'
      BY <1>1, <1>5 DEF Quiet
    <3> QED BY <1>1, <3>1, <3>2, <3>3 DEF AgendaInv
  <2> QED BY <1>1, <1>5, <1>6, <2>6
<1> QED BY <1>7, <1>8

(* The item that pushes a chunk into mid. *)
LEMMA PushOfMid ==
  ASSUME NEW m \in Nat, m \in 1 .. pushed
  PROVE  LET x == S!DoChunk("push", "mid", m) IN
         /\ x \in Item /\ Fits(x, pushed) /\ InBatch(x) /\ Carrier(x)
         /\ x.chunk = m /\ x.do = "push" /\ x.of = "mid"
<1> DEFINE x == S!DoChunk("push", "mid", m)
<1>1. x \in Item
  BY DEF Item, S!Stream, S!DoChunk
<1>2. x.chunk = m /\ x.do = "push" /\ x.of = "mid"
  BY DEF S!DoChunk
<1> HIDE DEF x
<1>3. Carrier(x) /\ InBatch(x)
  BY <1>2 DEF Carrier, InBatch
<1>4. Fits(x, pushed)
  BY <1>1, <1>2 DEF Fits, S!Readable
<1> QED BY <1>1, <1>2, <1>3, <1>4 DEF x

(* A transform calls back while its stream flows: all it kept is pushed. *)
LEMMA KeptArePushed ==
  ASSUME AgendaInv, agenda = <<>>, NEW list \in Seq(Nat),
         \A m : Has(list, m) => m \in 1 .. pushed,
         agenda' = [i \in DOMAIN list |-> S!DoChunk("push", "mid", list[i])] \o agenda,
         UNCHANGED <<pushed, watched>>
  PROVE  /\ AgendaInv'
         /\ \A m : Carried(m)' <=> Has(list, m)
         /\ \A s : ~Ticking(s)'
         /\ OnceEach(list) => CarriedOnce'
<1> DEFINE f == [i \in DOMAIN list |-> S!DoChunk("push", "mid", list[i])]
           n == Len(list)
<1>1. n \in Nat /\ DOMAIN list = 1 .. n /\ \A i \in 1 .. n : list[i] \in Nat
  BY LenProperties, ElementOfSeq
<1>2. \A i \in 1 .. n : f[i] = S!DoChunk("push", "mid", list[i])
  BY <1>1
<1>3. ASSUME NEW i \in 1 .. n
      PROVE  /\ f[i] \in Item /\ Fits(f[i], pushed) /\ InBatch(f[i]) /\ Carrier(f[i])
             /\ f[i].chunk = list[i] /\ f[i].do = "push" /\ f[i].of = "mid"
  <2>1. list[i] \in 1 .. pushed /\ list[i] \in Nat
    BY <1>1 DEF Has
  <2>2. f[i] = S!DoChunk("push", "mid", list[i])
    BY <1>2
  <2> HIDE DEF f
  <2> QED BY <2>1, <2>2, PushOfMid
<1>4. f \in Seq(Item) /\ Len(f) = n
  <2>1. f \in [1 .. n -> Item]
    BY <1>1, <1>3
  <2> HIDE DEF f
  <2> QED BY <1>1, <2>1
<1>5. agenda' = f
  BY <1>4, ConcatEmptySeq
<1>6. AgendaInv'
  <2> HIDE DEF f, n
  <2>1. ItemsFit'
    BY <1>3, <1>4, <1>5 DEF ItemsFit, ItemFits
  <2>2. OneMoves'
    BY <1>3, <1>4, <1>5 DEF OneMoves
  <2>3. Quiet'
    BY <1>3, <1>4, <1>5 DEF Quiet, QuietItem
  <2> QED BY <2>1, <2>2, <2>3 DEF AgendaInv
<1> HIDE DEF f
<1>7. \A m : Carried(m)' <=> Has(list, m)
  BY <1>3, <1>4, <1>5 DEF Carried, Has
<1>8. \A s : ~Ticking(s)'
  BY <1>3, <1>4, <1>5 DEF Ticking
<1>9. OnceEach(list) => CarriedOnce'
  BY <1>3, <1>4, <1>5 DEF OnceEach, CarriedOnce
<1> QED BY <1>6, <1>7, <1>8, <1>9

(* The rest of the state: its types, the lengths, what was closed, and who  *)
(* flows was resumed.                                                      *)
StreamTypes ==
  /\ buffer \in [S!Readable -> Seq(Nat)] /\ length \in [S!Readable -> Nat]
  /\ writing \in [S!Writable -> Seq(Nat)]
  /\ held \in Seq(Nat) /\ arrived \in Seq(Nat) /\ wlength \in Nat /\ skimmed \in Nat
  /\ resumes \in [S!Readable -> Nat] /\ closes \in [S!Stream -> Nat]
  /\ flowing \in [S!Readable -> {"null", "on", "off"}]
ClosedOnce == \A s \in S!Stream : closes[s] = IF s \in destroyed THEN 1 ELSE 0
FlowsResumed == \A s \in S!Readable : flowing[s] = "on" => resumes[s] >= 1
CountsInv == StreamTypes /\ S!LengthsAgree /\ ClosedOnce /\ FlowsResumed

LEMMA CountsStart == S!Init => CountsInv
BY EmptySeq DEF S!Init, CountsInv, StreamTypes, S!LengthsAgree, ClosedOnce, FlowsResumed, S!Readable,
   S!Writable, S!Stream

(* What one number more, or one less, makes of a queue.                    *)
LEMMA QueueGrows ==
  ASSUME NEW list \in Seq(Nat), NEW m \in Nat
  PROVE  Append(list, m) \in Seq(Nat) /\ Len(Append(list, m)) = Len(list) + 1 /\ Len(list) \in Nat
BY AppendProperties, LenProperties

LEMMA QueueShrinks ==
  ASSUME NEW list \in Seq(Nat), list # <<>>
  PROVE  /\ Tail(list) \in Seq(Nat) /\ Len(list) = Len(Tail(list)) + 1 /\ Len(Tail(list)) \in Nat
         /\ Head(list) \in Nat
<1>1. Len(list) \in Nat \ {0} /\ Tail(list) \in Seq(Nat) /\ Len(Tail(list)) = Len(list) - 1
      /\ Head(list) \in Nat
  BY HeadTailProperties, EmptySeq
<1> QED BY <1>1

(* LengthsAgree, one stream at a time.                                     *)
Taken(s) == IF s = "src" THEN skimmed ELSE 0
LengthOn(s) == length[s] = Len(buffer[s]) + Taken(s)

LEMMA LengthsOfEach ==
  ASSUME buffer \in [S!Readable -> Seq(Nat)]
  PROVE  S!LengthsAgree <=> wlength >= Len(writing["dst"]) /\ \A s \in S!Readable : LengthOn(s)
<1>1. Len(buffer["mid"]) \in Nat
  BY LenProperties DEF S!Readable
<1>2. Len(buffer["mid"]) + 0 = Len(buffer["mid"])
  BY <1>1
<1>3. LengthOn("mid") <=> length["mid"] = Len(buffer["mid"])
  BY <1>2 DEF LengthOn, Taken
<1>4. LengthOn("src") <=> length["src"] = Len(buffer["src"]) + skimmed
  BY DEF LengthOn, Taken
<1> QED BY <1>3, <1>4 DEF S!LengthsAgree, S!Readable

(* One chunk leaves the buffer of s, and its length goes down; or one      *)
(* comes, and it goes up.                                                  *)
LEMMA LengthsMove ==
  ASSUME StreamTypes, S!LengthsAgree, NEW s \in S!Readable, NEW list \in Seq(Nat), NEW l \in Int,
         \/ Len(buffer[s]) = Len(list) + 1 /\ l = length[s] - 1
         \/ Len(list) = Len(buffer[s]) + 1 /\ l = length[s] + 1,
         buffer' = [buffer EXCEPT ![s] = list], length' = [length EXCEPT ![s] = l],
         UNCHANGED <<skimmed, wlength, writing>>
  PROVE  length' \in [S!Readable -> Nat] /\ S!LengthsAgree'
<1>1. buffer' \in [S!Readable -> Seq(Nat)] /\ buffer'[s] = list
      /\ \A t \in S!Readable : t # s => buffer'[t] = buffer[t]
  BY DEF StreamTypes
<1>2. /\ length' \in [S!Readable -> Int] /\ length'[s] = l
      /\ \A t \in S!Readable : t # s => length'[t] = length[t]
  BY DEF StreamTypes
<1>3. Len(list) \in Nat /\ Len(buffer[s]) \in Nat /\ length[s] \in Nat /\ Taken(s) \in Nat
  BY LenProperties DEF StreamTypes, Taken
<1>4. LengthOn(s) /\ (\A t \in S!Readable : LengthOn(t)) /\ wlength >= Len(writing["dst"])
  BY LengthsOfEach DEF StreamTypes
<1>5. l = Len(list) + Taken(s)
  <2> DEFINE n1 == Len(list)
             n0 == Len(buffer[s])
             l0 == length[s]
             k == Taken(s)
  <2>1. n1 \in Nat /\ n0 \in Nat /\ l0 \in Nat /\ k \in Nat
    BY <1>3
  <2>2. l0 = n0 + k
    BY <1>4 DEF LengthOn
  <2>3. (n0 = n1 + 1 /\ l = l0 - 1) \/ (n1 = n0 + 1 /\ l = l0 + 1)
    OBVIOUS
  <2> HIDE DEF n1, n0, l0, k
  <2>4. l = n1 + k
    BY <2>1, <2>2, <2>3
  <2> QED BY <2>4 DEF n1, k
<1>6. Taken(s)' = Taken(s)
  BY DEF Taken
<1>7. \A t \in S!Readable : LengthOn(t)'
  BY <1>1, <1>2, <1>4, <1>5 DEF LengthOn, Taken
<1>8. S!LengthsAgree'
  BY <1>1, <1>4, <1>7, LengthsOfEach DEF S!LengthsAgree, LengthOn, Taken, S!Readable
<1>9. length' \in [S!Readable -> Nat]
  <2>1. l \in Nat
    BY <1>3, <1>5
  <2> QED BY <1>2, <2>1 DEF StreamTypes
<1> QED BY <1>8, <1>9

(* The chunk of the item at the head, and whose it is.                     *)
LEMMA HeadOf ==
  ASSUME AgendaInv, agenda # <<>>
  PROVE  /\ S!Ch \in Nat /\ S!Of \in S!Stream
         /\ Head(agenda).do \in {"push", "data", "pause", "resume", "tick"} => S!Of \in S!Readable
         /\ Head(agenda).do = "write" => S!Of \in S!Writable
         /\ Carrier(Head(agenda)) => S!Ch \in 1 .. pushed
BY HeadItem DEF ItemFits, Fits, Item

LEMMA CountsStep == AgendaInv /\ CountsInv /\ [S!Next]_(S!vars) => CountsInv'
<1> SUFFICES ASSUME AgendaInv, CountsInv, [S!Next]_(S!vars) PROVE CountsInv'
  OBVIOUS
<1> USE DEF CountsInv
<1>0. /\ "src" \in S!Readable /\ "mid" \in S!Readable /\ "mid" \in S!Writable /\ "dst" \in S!Writable
      /\ \A s \in S!Readable : s # "src" => s = "mid"
      /\ \A s \in S!Writable : s # "dst" => s = "mid"
      /\ "src" # "mid" /\ "dst" # "mid"
  BY DEF S!Readable, S!Writable
<1> DEFINE Same == UNCHANGED <<flowing, buffer, length, held, writing, wlength, destroyed,
                               arrived, skimmed, closes, resumes>>
<1>1. ASSUME Same PROVE CountsInv'
  BY <1>1 DEF StreamTypes, S!LengthsAgree, ClosedOnce, FlowsResumed
<1>2. CASE UNCHANGED S!vars
  BY <1>1, <1>2 DEF S!vars, S!readVars, S!writeVars, S!scriptVars, S!history
<1>3. CASE S!Push \/ S!Control \/ S!Pipeline \/ S!ListenerReturns \/ S!ListenerThrows
           \/ S!DoEnd \/ S!DoEmit \/ S!DoData \/ S!WriteThrows \/ S!TransformPushes
           \/ \E s \in S!Readable : S!PushNull(s)
  BY <1>1, <1>3 DEF S!Push, S!Control, S!Pipeline, S!ListenerReturns, S!ListenerThrows, S!DoEnd,
     S!DoEmit, S!DoData, S!WriteThrows, S!TransformPushes, S!PushNull, S!readVars, S!writeVars,
     S!scriptVars, S!history
<1>4. CASE S!IteratorNext
  <2>1. UNCHANGED <<flowing, length, held, writing, wlength, destroyed, arrived, closes, resumes>>
    BY <1>4 DEF S!IteratorNext, S!writeVars
  <2>2. CASE buffer["src"] # <<>>
    <3>1. buffer' = [buffer EXCEPT !["src"] = Tail(@)] /\ skimmed' = skimmed + 1
      BY <1>4, <2>2 DEF S!IteratorNext
    <3>2. /\ Tail(buffer["src"]) \in Seq(Nat) /\ Len(Tail(buffer["src"])) \in Nat
          /\ Len(buffer["src"]) = Len(Tail(buffer["src"])) + 1
      BY <1>0, <2>2, QueueShrinks DEF StreamTypes
    <3>3. StreamTypes'
      BY <1>0, <2>1, <3>1, <3>2 DEF StreamTypes
    <3>4. S!LengthsAgree'
      <4>1. buffer'["src"] = Tail(buffer["src"]) /\ buffer'["mid"] = buffer["mid"]
        BY <1>0, <3>1 DEF StreamTypes
      <4>2. Len(buffer["src"]) + skimmed = Len(Tail(buffer["src"])) + (skimmed + 1)
        <5> DEFINE n1 == Len(Tail(buffer["src"]))
        <5>1. n1 \in Nat /\ skimmed \in Nat
          BY <3>2 DEF StreamTypes
        <5>2. Len(buffer["src"]) = n1 + 1
          BY <3>2
        <5> HIDE DEF n1
        <5>3. (n1 + 1) + skimmed = n1 + (skimmed + 1)
          BY <5>1
        <5> QED BY <5>2, <5>3 DEF n1
      <4> QED BY <2>1, <3>1, <4>1, <4>2 DEF S!LengthsAgree
    <3> QED BY <2>1, <3>3, <3>4 DEF ClosedOnce, FlowsResumed
  <2>3. CASE buffer["src"] = <<>>
    <3>1. Same
      BY <1>4, <2>1, <2>3 DEF S!IteratorNext
    <3> QED BY <1>1, <3>1
  <2> QED BY <2>2, <2>3
<1>5. ASSUME NEW s \in S!Readable, S!Read(s) PROVE CountsInv'
  <2>1. UNCHANGED <<flowing, writing, wlength, destroyed, arrived, skimmed, closes, resumes>>
    BY <1>5 DEF S!Read, S!writeVars
  <2>2. CASE buffer[s] # <<>>
    <3>1. /\ buffer' = [buffer EXCEPT ![s] = Tail(@)] /\ length' = [length EXCEPT ![s] = @ - 1]
          /\ held' = held
      BY <1>5, <2>2 DEF S!Read
    <3>2. /\ Tail(buffer[s]) \in Seq(Nat) /\ Len(Tail(buffer[s])) \in Nat
          /\ Len(buffer[s]) = Len(Tail(buffer[s])) + 1 /\ length[s] \in Nat /\ skimmed \in Nat
      BY <2>2, QueueShrinks DEF StreamTypes
    <3>3. length[s] - 1 \in Int
      BY <3>2
    <3>4. length' \in [S!Readable -> Nat] /\ S!LengthsAgree'
      BY <2>1, <3>1, <3>2, <3>3, LengthsMove
    <3>5. StreamTypes'
      BY <2>1, <3>1, <3>2, <3>4 DEF StreamTypes
    <3> QED BY <2>1, <3>4, <3>5 DEF ClosedOnce, FlowsResumed
  <2>3. CASE buffer[s] = <<>>
    <3>1. UNCHANGED <<buffer, length>> /\ S!ReadEmpty(s)
      BY <1>5, <2>3 DEF S!Read
    <3>2. held' \in Seq(Nat)
      <4>1. held' = held \/ (held # <<>> /\ held' = Tail(held))
        BY <3>1 DEF S!ReadEmpty
      <4>2. held # <<>> => Tail(held) \in Seq(Nat)
        BY QueueShrinks DEF StreamTypes
      <4> QED BY <4>1, <4>2 DEF StreamTypes
    <3> QED BY <2>1, <3>1, <3>2 DEF StreamTypes, S!LengthsAgree, ClosedOnce, FlowsResumed
  <2> QED BY <2>2, <2>3
<1>6. CASE S!DoPush
  <2> DEFINE s == S!Of
             m == S!Ch
  <2>1. s \in S!Readable /\ m \in Nat
    BY <1>6, HeadOf DEF S!DoPush, S!Turn
  <2>2. /\ buffer' = [buffer EXCEPT ![s] = Append(@, m)] /\ length' = [length EXCEPT ![s] = @ + 1]
        /\ UNCHANGED <<flowing, held, writing, wlength, destroyed, arrived, skimmed, closes, resumes>>
    BY <1>6 DEF S!DoPush, S!writeVars, S!history
  <2> HIDE DEF s, m
  <2>3. /\ Append(buffer[s], m) \in Seq(Nat) /\ Len(buffer[s]) \in Nat
        /\ Len(Append(buffer[s], m)) = Len(buffer[s]) + 1 /\ length[s] \in Nat /\ skimmed \in Nat
    BY <2>1, QueueGrows DEF StreamTypes
  <2>6. length[s] + 1 \in Int
    BY <2>3
  <2>5. length' \in [S!Readable -> Nat] /\ S!LengthsAgree'
    BY <2>1, <2>2, <2>3, <2>6, LengthsMove
  <2>4. StreamTypes'
    BY <2>1, <2>2, <2>3, <2>5 DEF StreamTypes
  <2> QED BY <2>2, <2>4, <2>5 DEF ClosedOnce, FlowsResumed
<1>7. CASE S!DoPause \/ S!DoResume
  <2> DEFINE s == S!Of
  <2>1. s \in S!Readable
    BY <1>7, HeadOf DEF S!DoPause, S!DoResume, S!Turn
  <2>2. /\ UNCHANGED <<buffer, length, held, writing, wlength, destroyed, arrived, skimmed, closes>>
        /\ \/ flowing' = [flowing EXCEPT ![s] = "off"] /\ UNCHANGED resumes
           \/ flowing' = [flowing EXCEPT ![s] = "on"] /\ resumes' = [resumes EXCEPT ![s] = @ + 1]
    BY <1>7 DEF S!DoPause, S!DoResume, S!writeVars, S!history
  <2> HIDE DEF s
  <2>3. StreamTypes'
    <3>1. resumes[s] + 1 \in Nat
      BY <2>1 DEF StreamTypes
    <3>2. resumes' \in [S!Readable -> Nat] /\ flowing' \in [S!Readable -> {"null", "on", "off"}]
      BY <2>1, <2>2, <3>1 DEF StreamTypes
    <3> QED BY <2>2, <3>2 DEF StreamTypes
  <2>4. S!LengthsAgree' /\ ClosedOnce'
    BY <2>2 DEF S!LengthsAgree, ClosedOnce
  <2>5. FlowsResumed'
    BY <2>1, <2>2 DEF FlowsResumed, StreamTypes
  <2> QED BY <2>3, <2>4, <2>5
<1>8. CASE S!DoTick
  <2> DEFINE s == S!Of
  <2>1. s \in S!Readable
    BY <1>8, HeadOf DEF S!DoTick, S!Turn
  <2>2. UNCHANGED <<flowing, held, writing, wlength, destroyed, arrived, skimmed, closes, resumes>>
    BY <1>8 DEF S!DoTick, S!writeVars, S!history
  <2>3. \/ /\ buffer[s] # <<>>
           /\ buffer' = [buffer EXCEPT ![s] = Tail(@)] /\ length' = [length EXCEPT ![s] = @ - 1]
        \/ UNCHANGED <<buffer, length>>
    BY <1>8 DEF S!DoTick
  <2> HIDE DEF s
  <2>4. CASE UNCHANGED <<buffer, length>>
    BY <1>1, <2>2, <2>4
  <2>5. CASE /\ buffer[s] # <<>>
             /\ buffer' = [buffer EXCEPT ![s] = Tail(@)] /\ length' = [length EXCEPT ![s] = @ - 1]
    <3>2. /\ Tail(buffer[s]) \in Seq(Nat) /\ Len(Tail(buffer[s])) \in Nat
          /\ Len(buffer[s]) = Len(Tail(buffer[s])) + 1 /\ length[s] \in Nat /\ skimmed \in Nat
      BY <2>1, <2>5, QueueShrinks DEF StreamTypes
    <3>3. length[s] - 1 \in Int
      BY <3>2
    <3>4. length' \in [S!Readable -> Nat] /\ S!LengthsAgree'
      BY <2>1, <2>2, <2>5, <3>2, <3>3, LengthsMove
    <3>5. StreamTypes'
      BY <2>1, <2>2, <2>5, <3>2, <3>4 DEF StreamTypes
    <3> QED BY <2>2, <3>4, <3>5 DEF ClosedOnce, FlowsResumed
  <2> QED BY <2>3, <2>4, <2>5
<1>9. CASE S!DoDestroy
  <2> DEFINE s == S!Of
  <2>1. s \in S!Stream
    BY <1>9, HeadOf DEF S!DoDestroy, S!Turn
  <2>2. /\ UNCHANGED <<flowing, buffer, length, held, writing, wlength, arrived, skimmed, resumes>>
        /\ \/ UNCHANGED <<destroyed, closes>>
           \/ /\ s \notin destroyed
              /\ destroyed' = destroyed \cup {s} /\ closes' = [closes EXCEPT ![s] = @ + 1]
    BY <1>9 DEF S!DoDestroy, S!readVars, S!writeVars
  <2> HIDE DEF s
  <2>3. closes' \in [S!Stream -> Nat] /\ ClosedOnce'
    BY <2>1, <2>2 DEF StreamTypes, ClosedOnce
  <2> QED BY <2>2, <2>3 DEF StreamTypes, S!LengthsAgree, FlowsResumed
<1>10. CASE S!WriteLater
  <2> DEFINE s == S!Of
             m == S!Ch
  <2>1. s \in S!Writable /\ m \in Nat
    BY <1>10, HeadOf DEF S!WriteLater, S!Turn
  <2>2. /\ UNCHANGED <<flowing, buffer, length, held, destroyed, skimmed, closes, resumes>>
        /\ writing' = [writing EXCEPT ![s] = Append(@, m)]
        /\ wlength' = IF s = "dst" THEN wlength + 1 ELSE wlength
        /\ arrived' = IF s = "dst" THEN Append(arrived, m) ELSE arrived
    BY <1>10 DEF S!WriteLater, S!readVars
  <2> HIDE DEF s, m
  <2>3. /\ Append(writing[s], m) \in Seq(Nat) /\ Len(writing[s]) \in Nat
        /\ Len(Append(writing[s], m)) = Len(writing[s]) + 1
    BY <2>1, QueueGrows DEF StreamTypes
  <2>4. Append(arrived, m) \in Seq(Nat)
    BY <2>1, QueueGrows DEF StreamTypes
  <2>5. StreamTypes'
    BY <2>1, <2>2, <2>3, <2>4 DEF StreamTypes
  <2>6. S!LengthsAgree'
    BY <1>0, <2>1, <2>2, <2>3 DEF S!LengthsAgree, StreamTypes
  <2> QED BY <2>2, <2>5, <2>6 DEF ClosedOnce, FlowsResumed
<1>11. CASE S!WriteAtOnce
  <2> DEFINE m == S!Ch
  <2>1. m \in Nat
    BY <1>11, HeadOf DEF S!WriteAtOnce, S!Turn
  <2>2. /\ UNCHANGED <<flowing, buffer, length, held, writing, destroyed, skimmed, closes, resumes>>
        /\ wlength' = (IF wlength = 0 THEN 0 ELSE wlength - 1) + 1
        /\ arrived' = Append(arrived, m)
    BY <1>11 DEF S!WriteAtOnce, S!readVars
  <2> HIDE DEF m
  <2>3. Append(arrived, m) \in Seq(Nat) /\ wlength' \in Nat /\ wlength' >= wlength
    BY <2>1, <2>2, QueueGrows DEF StreamTypes
  <2>4. StreamTypes'
    BY <2>2, <2>3 DEF StreamTypes
  <2>5. Len(writing["dst"]) \in Nat /\ wlength \in Nat
    BY <1>0, LenProperties DEF StreamTypes
  <2>6. S!LengthsAgree'
    BY <2>2, <2>3, <2>5 DEF S!LengthsAgree
  <2> QED BY <2>2, <2>4, <2>6 DEF ClosedOnce, FlowsResumed
<1>12. CASE S!WriteCallsBack
  <2>1. /\ UNCHANGED <<flowing, buffer, length, held, destroyed, arrived, skimmed, closes, resumes>>
        /\ writing["dst"] # <<>> /\ writing' = [writing EXCEPT !["dst"] = Tail(@)]
        /\ wlength' = wlength - 1
    BY <1>12 DEF S!WriteCallsBack, S!readVars, S!history
  <2>2. /\ Tail(writing["dst"]) \in Seq(Nat) /\ Len(Tail(writing["dst"])) \in Nat
        /\ Len(writing["dst"]) = Len(Tail(writing["dst"])) + 1
    BY <1>0, <2>1, QueueShrinks DEF StreamTypes
  <2>3. wlength' \in Nat /\ wlength' >= Len(Tail(writing["dst"]))
    BY <2>1, <2>2 DEF S!LengthsAgree, StreamTypes
  <2>4. StreamTypes'
    BY <1>0, <2>1, <2>2, <2>3 DEF StreamTypes
  <2>5. S!LengthsAgree'
    BY <1>0, <2>1, <2>3 DEF S!LengthsAgree, StreamTypes
  <2> QED BY <2>1, <2>4, <2>5 DEF ClosedOnce, FlowsResumed
<1>13. ASSUME NEW result, S!TransformCallsBack(result) PROVE CountsInv'
  <2>1. /\ UNCHANGED <<flowing, buffer, length, wlength, destroyed, arrived, skimmed, closes, resumes>>
        /\ writing["mid"] # <<>> /\ writing' = [writing EXCEPT !["mid"] = Tail(@)]
        /\ \/ UNCHANGED held
           \/ held' = <<>>
           \/ held' = Append(held, Head(writing["mid"]))
    BY <1>13 DEF S!TransformCallsBack, S!EmitReadable
  <2>2. Tail(writing["mid"]) \in Seq(Nat) /\ Head(writing["mid"]) \in Nat
    BY <1>0, <2>1, QueueShrinks DEF StreamTypes
  <2>3. held' \in Seq(Nat)
    <3>1. Append(held, Head(writing["mid"])) \in Seq(Nat)
      BY <2>2, QueueGrows DEF StreamTypes
    <3> QED BY <2>1, <3>1, EmptySeq DEF StreamTypes
  <2>4. StreamTypes'
    BY <1>0, <2>1, <2>2, <2>3 DEF StreamTypes
  <2>5. S!LengthsAgree'
    BY <1>0, <2>1 DEF S!LengthsAgree, StreamTypes
  <2> QED BY <2>1, <2>4, <2>5 DEF ClosedOnce, FlowsResumed
<1> QED BY <1>2, <1>3, <1>4, <1>5, <1>6, <1>7, <1>8, <1>9, <1>10, <1>11, <1>12, <1>13 DEF S!Next

LEMMA ClosedOnceEach == CountsInv => S!LengthsAgree /\ S!ClosesOnce
BY DEF CountsInv, ClosedOnce, S!ClosesOnce

(* Where the chunks are.  resume empties a buffer chunk by chunk, and once it *)
(* is done the chunks of the buffer are those that were emitted as well: a    *)
(* buffer counts as long as nobody resumed its stream, or its tick goes on.   *)
Live(s) == resumes[s] = 0 \/ Ticking(s)
At(w, m) ==
  \/ w = "agenda" /\ Carried(m)
  \/ w \in S!Readable /\ Live(w) /\ Has(buffer[w], m)
  \/ w = "held" /\ Has(held, m)
  \/ w = "writing" /\ Has(writing["mid"], m)
  \/ w = "arrived" /\ Has(arrived, m)
InQueue(m) ==
  \/ \E s \in S!Readable : Has(buffer[s], m)
  \/ Has(held, m) \/ Has(writing["mid"], m) \/ Has(arrived, m)
Accounted(m) == InQueue(m) \/ Carried(m) \/ m \in taken \/ m \in dropped

Bounded == \A m : InQueue(m) => m \in 1 .. pushed
Kept == \A m \in 1 .. pushed : Accounted(m)
Calm == ~watched /\ \A s \in S!Readable : resumes[s] <= 1
Apart == \A m, v, w : At(v, m) /\ At(w, m) => v = w
Once ==
  /\ OnceEach(held) /\ OnceEach(writing["mid"]) /\ OnceEach(arrived) /\ CarriedOnce
  /\ \A s \in S!Readable : Live(s) => OnceEach(buffer[s])
ChunksInv == Bounded /\ Kept /\ (Calm => Apart /\ Once)

LEMMA ChunksStart == S!Init => AgendaInv /\ ChunksInv
<1> SUFFICES ASSUME S!Init PROVE AgendaInv /\ ChunksInv
  OBVIOUS
<1>1. /\ agenda = <<>> /\ pushed = 0 /\ Len(agenda) = 0 /\ held = <<>> /\ arrived = <<>>
      /\ writing["mid"] = <<>> /\ \A s \in S!Readable : buffer[s] = <<>>
  BY EmptySeq DEF S!Init, S!Writable
<1>2. AgendaInv
  BY <1>1, EmptySeq DEF AgendaInv, ItemsFit, OneMoves, Quiet
<1>3. (\A m : ~InQueue(m) /\ ~Carried(m)) /\ CarriedOnce
  BY <1>1, EmptyHasNone DEF InQueue, Carried, CarriedOnce
<1>4. \A m, v : ~At(v, m)
  BY <1>3 DEF At, InQueue
<1>5. Once
  BY <1>1, <1>3, EmptyHasNone DEF Once
<1>6. Kept
  BY <1>1 DEF Kept
<1> QED BY <1>2, <1>3, <1>4, <1>5, <1>6 DEF ChunksInv, Bounded, Apart

(* What a step has to keep: every chunk where it was, or at one place.       *)
LEMMA ChunksKept ==
  ASSUME ChunksInv, Calm' => Calm,
         \A m : InQueue(m)' => InQueue(m) \/ m \in 1 .. pushed',
         \A m \in 1 .. pushed : m \in 1 .. pushed',
         \A m \in 1 .. pushed' : Accounted(m)',
         Calm' => Once',
         Calm' => \A m : \/ \A v : At(v, m)' => At(v, m)
                         \/ \E w : \A v : At(v, m)' => v = w
  PROVE  ChunksInv'
<1>1. Bounded'
  BY DEF ChunksInv, Bounded
<1>2. Kept'
  BY DEF Kept
<1>3. ASSUME Calm' PROVE Apart'
  <2>1. Apart
    BY <1>3 DEF ChunksInv
  <2> SUFFICES ASSUME NEW m, NEW v, NEW w, At(v, m)', At(w, m)' PROVE v = w
    BY DEF Apart
  <2> QED BY <1>3, <2>1 DEF Apart
<1> QED BY <1>1, <1>2, <1>3 DEF ChunksInv

(* A step that moves no chunk between the queues.                           *)
LEMMA ChunksRest ==
  ASSUME ChunksInv, StreamTypes, StreamTypes',
         UNCHANGED <<buffer, held, arrived, pushed, watched>>, writing'["mid"] = writing["mid"],
         \A s \in S!Readable : resumes'[s] >= resumes[s],
         \A m \in taken : m \in taken', \A m \in dropped : m \in dropped',
         \A m : Carried(m) => Carried(m)' \/ m \in taken' \/ m \in dropped',
         Calm' => /\ \A m : Carried(m)' => Carried(m)
                  /\ CarriedOnce => CarriedOnce'
                  /\ \A s \in S!Readable : Live(s)' => Live(s)
  PROVE  ChunksInv'
<1>1. Calm' => Calm
  <2>1. \A s \in S!Readable : resumes[s] \in Nat /\ resumes'[s] \in Nat
    BY DEF StreamTypes
  <2> QED BY <2>1 DEF Calm
<1>2. \A m : InQueue(m)' <=> InQueue(m)
  BY DEF InQueue
<1>3. \A m \in 1 .. pushed' : Accounted(m)'
  BY <1>2 DEF ChunksInv, Kept, Accounted
<1>4. Calm' => Once'
  BY <1>1 DEF ChunksInv, Once
<1>5. Calm' => \A m, v : At(v, m)' => At(v, m)
  BY DEF At
<1> QED BY <1>1, <1>2, <1>3, <1>4, <1>5, ChunksKept

(* A step that leaves the agenda as it is.                                  *)
LEMMA AgendaRests ==
  ASSUME AgendaInv, UNCHANGED <<agenda, pushed, watched>>
  PROVE  /\ AgendaInv' /\ (CarriedOnce => CarriedOnce')
         /\ \A m : Carried(m)' <=> Carried(m)
         /\ \A s : Ticking(s)' <=> Ticking(s)
<1>1. AgendaInv'
  BY DEF AgendaInv, ItemsFit, ItemFits, OneMoves, Quiet, QuietItem
<1>2. CarriedOnce => CarriedOnce'
  BY DEF CarriedOnce
<1>3. \A m : Carried(m)' <=> Carried(m)
  BY DEF Carried
<1>4. \A s : Ticking(s)' <=> Ticking(s)
  BY DEF Ticking
<1> QED BY <1>1, <1>2, <1>3, <1>4

(* The queues, and what was resumed, stay.                                  *)
Still ==
  /\ UNCHANGED <<buffer, held, arrived, pushed, watched, resumes>>
  /\ writing'["mid"] = writing["mid"]
  /\ \A m \in taken : m \in taken'
  /\ \A m \in dropped : m \in dropped'

LEMMA StillChunks ==
  ASSUME ChunksInv, StreamTypes, StreamTypes', Still,
         \A m : Carried(m) => Carried(m)' \/ m \in taken' \/ m \in dropped',
         Calm' => /\ \A m : Carried(m)' => Carried(m)
                  /\ CarriedOnce => CarriedOnce'
                  /\ \A s \in S!Readable : Ticking(s)' => Ticking(s)
  PROVE  ChunksInv'
<1>1. \A s \in S!Readable : resumes'[s] >= resumes[s]
  BY DEF Still, StreamTypes
<1>2. Calm' => \A s \in S!Readable : Live(s)' => Live(s)
  BY DEF Live, Still
<1> QED BY <1>1, <1>2, ChunksRest DEF Still

(* The items that the actions put on the agenda.                            *)
LEMMA DoFits ==
  ASSUME NEW what \in {"pause", "resume", "tick", "destroy", "end", "listener"}, NEW s \in S!Stream,
         what \in {"pause", "resume", "tick"} => s \in S!Readable, NEW n \in Nat
  PROVE  LET x == S!Do(what, s) IN
         Fits(x, n) /\ x.do = what /\ x.of = s /\ ~Carrier(x)
<1> DEFINE x == S!Do(what, s)
<1>1. x.do = what /\ x.of = s /\ x.event = "" /\ x.chunk = 0 /\ x \in Item
  BY DEF S!Do, S!Nothing, Item
<1> HIDE DEF x
<1>2. Fits(x, n) /\ ~Carrier(x)
  BY <1>1 DEF Fits, Carrier
<1> QED BY <1>1, <1>2 DEF x

LEMMA DoChunkFits ==
  ASSUME NEW what \in {"push", "data", "write"}, NEW s \in S!Stream, NEW n \in Nat, NEW m \in 1 .. n,
         IF what = "write" THEN s \in S!Writable ELSE s \in S!Readable
  PROVE  LET x == S!DoChunk(what, s, m) IN
         Fits(x, n) /\ x.do = what /\ x.of = s /\ x.chunk = m /\ Carrier(x)
<1> DEFINE x == S!DoChunk(what, s, m)
<1>1. m \in Nat
  OBVIOUS
<1>2. x.do = what /\ x.of = s /\ x.event = "" /\ x.chunk = m /\ x \in Item
  BY <1>1 DEF S!DoChunk, Item
<1> HIDE DEF x
<1>3. Fits(x, n) /\ Carrier(x)
  BY <1>2 DEF Fits, Carrier
<1> QED BY <1>2, <1>3 DEF x

LEMMA DestroyFits ==
  ASSUME NEW s \in S!Stream, NEW n \in Nat
  PROVE  LET x == S!DoChunk("destroy", s, 1) IN
         Fits(x, n) /\ x.do = "destroy" /\ x.of = s /\ ~Carrier(x)
<1> DEFINE x == S!DoChunk("destroy", s, 1)
<1>1. x.do = "destroy" /\ x.of = s /\ x.event = "" /\ x.chunk = 1 /\ x \in Item
  BY DEF S!DoChunk, Item
<1> HIDE DEF x
<1>2. Fits(x, n) /\ ~Carrier(x)
  BY <1>1 DEF Fits, Carrier
<1> QED BY <1>1, <1>2 DEF x

LEMMA EmitFits ==
  ASSUME NEW s \in S!Stream, NEW e \in {"end", "error", "finish"}, NEW n \in Nat
  PROVE  LET x == S!Emit(s, e, 0) IN
         Fits(x, n) /\ x.do = "emit" /\ x.event = e /\ x.of = s /\ ~Carrier(x)
<1> DEFINE x == S!Emit(s, e, 0)
<1>1. x.do = "emit" /\ x.of = s /\ x.event = e /\ x.chunk = 0 /\ x \in Item
  BY DEF S!Emit, Item
<1> HIDE DEF x
<1>2. Fits(x, n) /\ ~Carrier(x)
  BY <1>1 DEF Fits, Carrier
<1> QED BY <1>1, <1>2 DEF x

LEMMA EmitDataFits ==
  ASSUME NEW s \in S!Readable, NEW n \in Nat, NEW m \in 1 .. n
  PROVE  LET x == S!Emit(s, "data", m) IN
         /\ Fits(x, n) /\ x.do = "emit" /\ x.event = "data" /\ x.of = s /\ x.chunk = m /\ Carrier(x)
<1> DEFINE x == S!Emit(s, "data", m)
<1>1. m \in Nat /\ s \in S!Stream
  BY DEF S!Readable, S!Stream
<1>2. x.do = "emit" /\ x.of = s /\ x.event = "data" /\ x.chunk = m /\ x \in Item
  BY <1>1 DEF S!Emit, Item
<1> HIDE DEF x
<1>3. Fits(x, n) /\ Carrier(x)
  BY <1>2 DEF Fits, Carrier
<1> QED BY <1>2, <1>3 DEF x

(* The script's calls that move no chunk.                                   *)
LEMMA ControlStep ==
  ASSUME AgendaInv, ChunksInv, StreamTypes, StreamTypes',
         S!Control \/ S!Pipeline \/ \E s \in S!Readable : S!PushNull(s)
  PROVE  AgendaInv' /\ ChunksInv'
<1>1. S!ScriptRuns /\ Still
  BY DEF S!Control, S!Pipeline, S!PushNull, S!Pause, S!Resume, S!Destroy, S!Close, S!End,
     S!readVars, S!writeVars, S!history, Still
<1>2. pushed \in Nat /\ pushed' = pushed /\ watched' = watched /\ pushed >= pushed
  BY <1>1 DEF AgendaInv, Still
<1>3. \A s \in S!Readable : s \in S!Stream
  BY DEF S!Readable, S!Stream
<1>4. \/ agenda' = <<>> \o agenda
      \/ \E x : /\ agenda' = <<x>> \o agenda /\ Fits(x, pushed') /\ ~Carrier(x)
                /\ x.do \notin {"listener", "tick"}
  <2> DEFINE G(x) == /\ agenda' = <<x>> \o agenda /\ Fits(x, pushed') /\ ~Carrier(x)
                     /\ x.do \notin {"listener", "tick"}
             N == agenda' = <<>> \o agenda
  <2>1. ASSUME S!Pipeline PROVE N
    BY <2>1 DEF S!Pipeline, S!Call
  <2>2. ASSUME NEW s \in S!Readable, S!PushNull(s) PROVE \E x : G(x)
    <3> DEFINE x == S!Emit(s, "end", 0)
    <3>1. agenda' = <<x>> \o agenda
      BY <2>2 DEF S!PushNull, S!Call, S!Nothing
    <3>2. Fits(x, pushed') /\ x.do = "emit" /\ ~Carrier(x)
      BY <1>2, <1>3, EmitFits
    <3> HIDE DEF x
    <3>3. G(x)
      BY <3>1, <3>2
    <3> QED BY <3>3
  <2>3. ASSUME NEW s \in S!Readable, S!Pause(s) \/ S!Resume(s) PROVE \E x : G(x)
    <3>1. PICK what \in {"pause", "resume"} : agenda' = <<S!Do(what, s)>> \o agenda
      BY <2>3 DEF S!Pause, S!Resume, S!Call
    <3> DEFINE x == S!Do(what, s)
    <3>2. Fits(x, pushed') /\ x.do = what /\ ~Carrier(x)
      BY <1>2, <1>3, DoFits
    <3> HIDE DEF x
    <3>3. G(x)
      BY <3>1, <3>2 DEF x
    <3> QED BY <3>3
  <2>4. ASSUME NEW s \in S!Stream, S!Destroy(s) PROVE \E x : G(x)
    <3> DEFINE x == S!DoChunk("destroy", s, 1)
    <3>1. agenda' = <<x>> \o agenda
      BY <2>4 DEF S!Destroy, S!Call
    <3>2. Fits(x, pushed') /\ x.do = "destroy" /\ ~Carrier(x)
      BY <1>2, DestroyFits
    <3> HIDE DEF x
    <3>3. G(x)
      BY <3>1, <3>2
    <3> QED BY <3>3
  <2>5. ASSUME NEW s \in S!Stream, S!Close(s) \/ S!End(s) PROVE \E x : G(x)
    <3>1. PICK what \in {"destroy", "end"} : agenda' = <<S!Do(what, s)>> \o agenda
      BY <2>5 DEF S!Close, S!End, S!Call
    <3> DEFINE x == S!Do(what, s)
    <3>2. Fits(x, pushed') /\ x.do = what /\ ~Carrier(x)
      BY <1>2, DoFits
    <3> HIDE DEF x
    <3>3. G(x)
      BY <3>1, <3>2 DEF x
    <3> QED BY <3>3
  <2>6. \A s \in S!Writable : s \in S!Stream
    BY DEF S!Writable, S!Stream
  <2> HIDE DEF G, N
  <2>7. N \/ \E x : G(x)
    <3>1. CASE S!Control
      <4>1. \/ \E s \in S!Readable : S!Pause(s) \/ S!Resume(s)
            \/ \E s \in S!Stream : S!Destroy(s) \/ S!Close(s)
            \/ \E s \in S!Writable : S!End(s)
        BY <3>1 DEF S!Control
      <4>2. CASE \E s \in S!Readable : S!Pause(s) \/ S!Resume(s)
        BY <2>3, <4>2
      <4>3. CASE \E s \in S!Stream : S!Destroy(s) \/ S!Close(s)
        BY <2>4, <2>5, <4>3
      <4>4. CASE \E s \in S!Writable : S!End(s)
        BY <2>5, <2>6, <4>4
      <4> QED BY <4>1, <4>2, <4>3, <4>4
    <3>2. CASE \E s \in S!Readable : S!PushNull(s)
      BY <2>2, <3>2
    <3>3. CASE S!Pipeline
      BY <2>1, <3>3
    <3> QED BY <3>1, <3>2, <3>3
  <2> QED BY <2>7 DEF G, N
<1>5. CASE agenda' = <<>> \o agenda
  <2>1. /\ AgendaInv' /\ CarriedOnce' /\ \A m : ~Carried(m)'
        /\ \A s : Ticking(s)' <=> Ticking(s)
    BY <1>1, <1>2, <1>5, CallNothing
  <2>2. \A m : ~Carried(m)
    BY <1>1, WhoCalls
  <2> QED BY <1>1, <2>1, <2>2, StillChunks
<1>6. ASSUME NEW x, agenda' = <<x>> \o agenda, Fits(x, pushed'), ~Carrier(x),
             x.do \notin {"listener", "tick"}
      PROVE  AgendaInv' /\ ChunksInv'
  <2>1. /\ AgendaInv' /\ CarriedOnce' /\ \A m : ~Carried(m)'
        /\ \A s : Ticking(s)' <=> Ticking(s)
    BY <1>1, <1>2, <1>6, CallOne
  <2>2. \A m : ~Carried(m)
    BY <1>1, WhoCalls
  <2> QED BY <1>1, <2>1, <2>2, StillChunks
<1> QED BY <1>4, <1>5, <1>6

(* The listener of the script returns, or throws.                           *)
LEMMA ListenerStep ==
  ASSUME AgendaInv, ChunksInv, StreamTypes, StreamTypes', S!ListenerReturns \/ S!ListenerThrows
  PROVE  AgendaInv' /\ ChunksInv'
<1>1. Still
  BY DEF S!ListenerReturns, S!ListenerThrows, S!readVars, S!writeVars, S!scriptVars, S!history, Still
<1>2. AgendaInv' /\ watched' /\ \A m : ~Carried(m)
  BY ListenerLeaves
<1>3. ~Calm'
  BY <1>2 DEF Calm
<1> QED BY <1>1, <1>2, <1>3, StillChunks

(* The head is done, and carried nothing that is not taken or dropped.       *)
LEMMA HeadIsDone ==
  ASSUME AgendaInv, ChunksInv, StreamTypes, StreamTypes', Still, agenda # <<>>,
         agenda' = <<>> \o Tail(agenda),
         Carrier(Head(agenda)) => S!Ch \in taken' \/ S!Ch \in dropped'
  PROVE  AgendaInv' /\ ChunksInv'
<1>1. /\ AgendaInv' /\ (CarriedOnce => CarriedOnce')
      /\ \A m : Carried(m)' <=> CarriedOn(m)
      /\ \A s : Ticking(s)' <=> TickingOn(s)
  BY ThenNothing DEF Still
<1>2. /\ \A m : Carried(m) <=> (Carrier(Head(agenda)) /\ S!Ch = m) \/ CarriedOn(m)
      /\ \A s : Ticking(s) <=> (Head(agenda).do = "tick" /\ Head(agenda).of = s) \/ TickingOn(s)
  BY HeadItem
<1> QED BY <1>1, <1>2, StillChunks

(* Another item takes its place, with the same chunk or none.               *)
LEMMA HeadIsReplaced ==
  ASSUME AgendaInv, ChunksInv, StreamTypes, StreamTypes', Still, agenda # <<>>,
         NEW x, agenda' = <<x>> \o Tail(agenda), Fits(x, pushed),
         InBatch(Head(agenda)) => InBatch(x), Flows(Head(agenda)) => Flows(x),
         x.do \notin {"resume", "tick"}, ~(x.do = "push" /\ x.of = "src"),
         x.do = "listener" => watched,
         Carrier(x) => Carrier(Head(agenda)) /\ x.chunk = S!Ch,
         Carrier(Head(agenda)) => Carrier(x) \/ S!Ch \in taken' \/ S!Ch \in dropped'
  PROVE  AgendaInv' /\ ChunksInv'
<1>1. /\ AgendaInv'
      /\ \A m : Carried(m)' <=> (Carrier(x) /\ x.chunk = m) \/ CarriedOn(m)
      /\ \A s : Ticking(s)' <=> (x.do = "tick" /\ x.of = s) \/ TickingOn(s)
      /\ CarriedOnce /\ (Carrier(x) => ~CarriedOn(x.chunk)) => CarriedOnce'
  <2>1. ItemFits(x)
    BY DEF ItemFits
  <2> QED BY <2>1, ThenOne DEF Still
<1>2. /\ \A m : Carried(m) <=> (Carrier(Head(agenda)) /\ S!Ch = m) \/ CarriedOn(m)
      /\ \A s : Ticking(s) <=> (Head(agenda).do = "tick" /\ Head(agenda).of = s) \/ TickingOn(s)
      /\ S!Ch = Head(agenda).chunk
  BY HeadItem
<1>3. CarriedOnce => CarriedOnce'
  BY <1>1, <1>2, HeadCarriesAlone
<1> QED BY <1>1, <1>2, <1>3, StillChunks

(* pause, resume, destroy and end.                                          *)
LEMMA PauseStep ==
  ASSUME AgendaInv, ChunksInv, StreamTypes, StreamTypes', S!DoPause
  PROVE  AgendaInv' /\ ChunksInv'
<1>1. Still
  BY DEF S!DoPause, S!writeVars, S!scriptVars, S!history, Still
<1>2. agenda # <<>> /\ Head(agenda).do = "pause" /\ agenda' = <<>> \o Tail(agenda)
  BY DEF S!DoPause, S!Turn, S!Then
<1>3. ~Carrier(Head(agenda))
  BY <1>2 DEF Carrier
<1> QED BY <1>1, <1>2, <1>3, HeadIsDone

LEMMA ResumeStep ==
  ASSUME AgendaInv, ChunksInv, StreamTypes, StreamTypes', S!DoResume
  PROVE  AgendaInv' /\ ChunksInv'
<1> DEFINE s == S!Of
           x == S!Do("tick", s)
<1>1. /\ agenda # <<>> /\ Head(agenda).do = "resume" /\ agenda' = <<x>> \o Tail(agenda)
      /\ resumes' = [resumes EXCEPT ![s] = @ + 1]
      /\ UNCHANGED <<buffer, held, arrived, pushed, watched, writing, taken, dropped>>
  BY DEF S!DoResume, S!Turn, S!Then, S!writeVars, S!scriptVars
<1>2. s \in S!Readable /\ s \in S!Stream /\ pushed \in Nat /\ Head(agenda).of = s
  BY <1>1, HeadOf, HeadItem DEF AgendaInv
<1> HIDE DEF s
<1>3. Fits(x, pushed) /\ x.do = "tick" /\ x.of = s /\ ~Carrier(x)
  BY <1>2, DoFits
<1> HIDE DEF x
<1>4. ~watched => Len(agenda) = 1
  BY <1>1, HeadItem DEF AgendaInv, Quiet, QuietItem
<1>5. ~InBatch(Head(agenda)) /\ ~Flows(Head(agenda)) /\ ~Carrier(Head(agenda))
  BY <1>1 DEF InBatch, Flows, Carrier
<1>6. /\ AgendaInv'
      /\ \A m : Carried(m)' <=> (Carrier(x) /\ x.chunk = m) \/ CarriedOn(m)
      /\ \A t : Ticking(t)' <=> (x.do = "tick" /\ x.of = t) \/ TickingOn(t)
      /\ CarriedOnce /\ (Carrier(x) => ~CarriedOn(x.chunk)) => CarriedOnce'
  <2>1. ItemFits(x) /\ x.do \notin {"listener", "resume"} /\ ~(x.do = "push" /\ x.of = "src")
    BY <1>3 DEF ItemFits
  <2> QED BY <1>1, <1>4, <1>5, <2>1, ThenOne
<1>7. /\ \A m : Carried(m) <=> CarriedOn(m)
      /\ \A t : Ticking(t) <=> TickingOn(t)
  <2>1. Head(agenda).do # "tick"
    BY <1>1
  <2> QED BY <1>1, <1>5, <2>1, HeadItem
<1>10. resumes \in [S!Readable -> Nat]
  BY DEF StreamTypes
<1>8. ASSUME NEW t \in S!Readable PROVE resumes'[t] >= resumes[t]
  <2>1. resumes[t] \in Nat
    BY <1>10
  <2>2. resumes'[t] = resumes[t] \/ resumes'[t] = resumes[t] + 1
    BY <1>1, <1>10
  <2> QED BY <2>1, <2>2
<1>9. Calm' => \A t \in S!Readable : Live(t)' => Live(t)
  <2> SUFFICES ASSUME Calm', NEW t \in S!Readable, Live(t)' PROVE Live(t)
    OBVIOUS
  <2>1. CASE t = s
    <3>1. resumes'[s] <= 1 /\ resumes'[s] = resumes[s] + 1 /\ resumes[s] \in Nat
      BY <1>1, <1>2 DEF Calm, StreamTypes
    <3>2. resumes[s] = 0
      BY <3>1
    <3> QED BY <2>1, <3>2 DEF Live
  <2>2. CASE t # s
    BY <1>1, <1>3, <1>6, <1>7, <2>2 DEF Live, StreamTypes
  <2> QED BY <2>1, <2>2
<1> QED BY <1>1, <1>3, <1>6, <1>7, <1>8, <1>9, ChunksRest

LEMMA DestroyStep ==
  ASSUME AgendaInv, ChunksInv, StreamTypes, StreamTypes', S!DoDestroy
  PROVE  AgendaInv' /\ ChunksInv'
<1> DEFINE s == S!Of
           x == S!Emit(s, "error", 0)
<1>1. Still
  BY DEF S!DoDestroy, S!readVars, S!writeVars, S!scriptVars, Still
<1>2. /\ agenda # <<>> /\ Head(agenda).do = "destroy"
      /\ (agenda' = <<>> \o Tail(agenda)) \/ (agenda' = <<x>> \o Tail(agenda))
  BY DEF S!DoDestroy, S!Turn, S!Then, S!When, S!Nothing
<1>3. s \in S!Stream /\ pushed \in Nat
  BY <1>2, HeadOf DEF AgendaInv
<1>4. ~InBatch(Head(agenda)) /\ ~Flows(Head(agenda)) /\ ~Carrier(Head(agenda))
  BY <1>2 DEF InBatch, Flows, Carrier
<1>5. Fits(x, pushed) /\ x.do = "emit" /\ ~Carrier(x)
  BY <1>3, EmitFits
<1> HIDE DEF x
<1>6. CASE agenda' = <<>> \o Tail(agenda)
  BY <1>1, <1>2, <1>4, <1>6, HeadIsDone
<1>7. CASE agenda' = <<x>> \o Tail(agenda)
  BY <1>1, <1>2, <1>4, <1>5, <1>7, HeadIsReplaced
<1> QED BY <1>2, <1>6, <1>7

LEMMA EndStep ==
  ASSUME AgendaInv, ChunksInv, StreamTypes, StreamTypes', S!DoEnd
  PROVE  AgendaInv' /\ ChunksInv'
<1> DEFINE s == S!Of
           x == S!Emit(s, "finish", 0)
<1>1. Still
  BY DEF S!DoEnd, S!readVars, S!scriptVars, S!history, Still
<1>2. agenda # <<>> /\ Head(agenda).do = "end" /\ agenda' = <<x>> \o Tail(agenda)
  BY DEF S!DoEnd, S!Turn, S!Then, S!Nothing
<1>3. s \in S!Stream /\ pushed \in Nat
  BY <1>2, HeadOf DEF AgendaInv
<1>4. ~InBatch(Head(agenda)) /\ ~Flows(Head(agenda)) /\ ~Carrier(Head(agenda))
  BY <1>2 DEF InBatch, Flows, Carrier
<1>5. Fits(x, pushed) /\ x.do = "emit" /\ ~Carrier(x)
  BY <1>3, EmitFits
<1> HIDE DEF x
<1> QED BY <1>1, <1>2, <1>4, <1>5, HeadIsReplaced

(* The pipe writes the chunk to where the stream leads, or pauses it.        *)
LEMMA DestIsWritable ==
  \A s \in S!Readable : /\ S!Dest(s) \in S!Writable /\ S!Dest(s) \in S!Stream /\ s \in S!Stream
                        /\ s = "mid" => S!Dest(s) = "dst"
BY DEF S!Readable, S!Writable, S!Stream, S!Dest

LEMMA DataStep ==
  ASSUME AgendaInv, ChunksInv, StreamTypes, StreamTypes', S!DoData
  PROVE  AgendaInv' /\ ChunksInv'
<1> DEFINE s == S!Of
           m == S!Ch
           x == S!DoChunk("write", S!Dest(s), m)
           y == S!Do("pause", s)
<1>1. Still
  BY DEF S!DoData, S!readVars, S!writeVars, S!scriptVars, Still
<1>2. /\ agenda # <<>> /\ Head(agenda).do = "data"
      /\ \/ agenda' = <<x>> \o Tail(agenda)
         \/ agenda' = <<y>> \o Tail(agenda) /\ m \in dropped'
  BY DEF S!DoData, S!Turn, S!Then
<1>3. Carrier(Head(agenda))
  BY <1>2 DEF Carrier
<1>4. s \in S!Readable /\ m \in 1 .. pushed /\ pushed \in Nat /\ Head(agenda).of = s
  BY <1>2, <1>3, HeadOf, HeadItem DEF AgendaInv
<1> HIDE DEF s, m
<1>5. Fits(x, pushed) /\ x.do = "write" /\ x.of = S!Dest(s) /\ Carrier(x) /\ x.chunk = m
  BY <1>4, DestIsWritable, DoChunkFits
<1>6. Fits(y, pushed) /\ y.do = "pause" /\ y.of = s /\ ~Carrier(y)
  BY <1>4, DestIsWritable, DoFits
<1> HIDE DEF x, y
<1>7. /\ InBatch(Head(agenda)) => s = "mid"
      /\ Flows(Head(agenda)) => s = "mid"
  BY <1>2, <1>4 DEF InBatch, Flows
<1>8. /\ s = "mid" => Flows(x) /\ InBatch(x)
      /\ s = "mid" => Flows(y) /\ InBatch(y)
  BY <1>4, <1>5, <1>6, DestIsWritable DEF InBatch, Flows
<1>9. CASE agenda' = <<x>> \o Tail(agenda)
  BY <1>1, <1>2, <1>3, <1>5, <1>7, <1>8, <1>9, HeadIsReplaced DEF m
<1>10. CASE agenda' = <<y>> \o Tail(agenda) /\ m \in dropped'
  BY <1>1, <1>2, <1>3, <1>6, <1>7, <1>8, <1>10, HeadIsReplaced DEF m
<1> QED BY <1>2, <1>9, <1>10

LEMMA WriteThrowsStep ==
  ASSUME AgendaInv, ChunksInv, StreamTypes, StreamTypes', S!WriteThrows
  PROVE  AgendaInv' /\ ChunksInv'
<1> DEFINE s == S!Of
           m == S!Ch
           y == S!Do("pause", S!Upstream(s))
<1>1. Still
  BY DEF S!WriteThrows, S!readVars, S!writeVars, S!scriptVars, Still
<1>2. /\ agenda # <<>> /\ Head(agenda).do = "write"
      /\ agenda' = <<y>> \o Tail(agenda) /\ m \in dropped'
  BY DEF S!WriteThrows, S!Turn, S!Then
<1>3. s \in S!Writable /\ pushed \in Nat /\ Head(agenda).of = s
  BY <1>2, HeadOf, HeadItem DEF AgendaInv
<1> HIDE DEF s
<1>4. S!Upstream(s) \in S!Readable /\ S!Upstream(s) \in S!Stream /\ (s = "dst" => S!Upstream(s) = "mid")
  BY <1>3 DEF S!Upstream, S!Readable, S!Stream
<1>5. Fits(y, pushed) /\ y.do = "pause" /\ y.of = S!Upstream(s) /\ ~Carrier(y)
  BY <1>3, <1>4, DoFits
<1> HIDE DEF y
<1>6. /\ InBatch(Head(agenda)) => InBatch(y)
      /\ Flows(Head(agenda)) => Flows(y)
  BY <1>2, <1>3, <1>4, <1>5 DEF InBatch, Flows
<1> QED BY <1>1, <1>2, <1>5, <1>6, HeadIsReplaced

LEMMA TransformPushesStep ==
  ASSUME AgendaInv, ChunksInv, StreamTypes, StreamTypes', S!TransformPushes
  PROVE  AgendaInv' /\ ChunksInv'
<1> DEFINE m == S!Ch
           x == S!DoChunk("push", "mid", m)
<1>1. Still
  BY DEF S!TransformPushes, S!readVars, S!writeVars, S!scriptVars, S!history, Still
<1>2. /\ agenda # <<>> /\ Head(agenda).do = "write" /\ S!Of = "mid"
      /\ agenda' = <<x>> \o Tail(agenda)
  BY DEF S!TransformPushes, S!Turn, S!Then
<1>3. Carrier(Head(agenda)) /\ Head(agenda).of = "mid"
  BY <1>2, HeadItem DEF Carrier
<1>4. m \in 1 .. pushed /\ pushed \in Nat
  BY <1>2, <1>3, HeadOf DEF AgendaInv
<1> HIDE DEF m
<1>5. Fits(x, pushed) /\ x.do = "push" /\ x.of = "mid" /\ x.chunk = m /\ Carrier(x)
  BY <1>4, DoChunkFits DEF S!Stream, S!Readable
<1> HIDE DEF x
<1>6. ~InBatch(Head(agenda)) /\ ~Flows(Head(agenda))
  BY <1>2, <1>3 DEF InBatch, Flows
<1> QED BY <1>1, <1>2, <1>3, <1>5, <1>6, HeadIsReplaced DEF m

LEMMA WriteCallsBackStep ==
  ASSUME AgendaInv, ChunksInv, StreamTypes, StreamTypes', S!WriteCallsBack
  PROVE  AgendaInv' /\ ChunksInv'
<1>1. /\ UNCHANGED <<agenda, pushed, watched, buffer, held, arrived, resumes, taken, dropped>>
      /\ writing' = [writing EXCEPT !["dst"] = Tail(@)]
  BY DEF S!WriteCallsBack, S!readVars, S!scriptVars, S!history
<1>2. writing'["mid"] = writing["mid"]
  BY <1>1 DEF StreamTypes, S!Writable
<1>3. Still
  BY <1>1, <1>2 DEF Still
<1> QED BY <1>1, <1>3, AgendaRests, StillChunks

(* Short sequences joined.                                                  *)
LEMMA Joins ==
  ASSUME NEW x, NEW y
  PROVE  /\ <<>> \o <<>> = <<>> /\ <<x>> \o <<>> = <<x>> /\ <<>> \o <<y>> = <<y>>
         /\ <<x>> \o <<y>> = <<x, y>>
<1> DEFINE U == {x, y}
           l1 == <<x>>
           l2 == <<y>>
           l3 == <<x, y>>
<1>1. l1 \in Seq(U) /\ l2 \in Seq(U) /\ Len(l1) = 1 /\ Len(l2) = 1 /\ l1[1] = x /\ l2[1] = y
  OBVIOUS
<1>2. l3 \in Seq(U) /\ Len(l3) = 2 /\ l3[1] = x /\ l3[2] = y
  OBVIOUS
<1>3. <<>> \in Seq(U)
  BY EmptySeq
<1> HIDE DEF U, l1, l2, l3
<1>4. <<>> \o <<>> = <<>> /\ l1 \o <<>> = l1 /\ <<>> \o l2 = l2
  BY <1>1, <1>3, ConcatEmptySeq
<1>5. l1 \o l2 = l3
  <2>1. /\ l1 \o l2 \in Seq(U) /\ Len(l1 \o l2) = Len(l1) + Len(l2)
        /\ \A i \in 1 .. Len(l1) + Len(l2) :
             (l1 \o l2)[i] = IF i <= Len(l1) THEN l1[i] ELSE l2[i - Len(l1)]
    BY <1>1, ConcatProperties
  <2>2. Len(l1 \o l2) = 2 /\ (l1 \o l2)[1] = x /\ (l1 \o l2)[2] = y
    BY <1>1, <2>1
  <2>3. \A i \in 1 .. 2 : (l1 \o l2)[i] = l3[i]
    <3>1. \A i \in 1 .. 2 : i = 1 \/ i = 2
      OBVIOUS
    <3> QED BY <1>2, <2>2, <3>1
  <2> QED BY <1>2, <2>1, <2>2, <2>3, SeqEqual
<1> QED BY <1>4, <1>5 DEF l1, l2, l3

(* What pipe and pipeline do at an event: nothing, or one thing.            *)
LEMMA PipeHearsOne ==
  ASSUME AgendaInv, agenda # <<>>, Head(agenda).do = "emit"
  PROVE  LET e == Head(agenda).event
             h == S!PipeHears(S!Of, e, S!Ch)
         IN \/ h = <<>> /\ (e = "data" => ~piped)
            \/ \E x : /\ h = <<x>> /\ Fits(x, pushed)
                      /\ x.do \in {"data", "end", "destroy"}
                      /\ e = "data" => piped /\ x.do = "data" /\ x.of = S!Of /\ x.chunk = S!Ch /\ Carrier(x)
                      /\ e # "data" => ~Carrier(x)
<1> DEFINE e == Head(agenda).event
           h == S!PipeHears(S!Of, e, S!Ch)
           s == S!Of
           m == S!Ch
           G(x) == /\ h = <<x>> /\ Fits(x, pushed)
                   /\ x.do \in {"data", "end", "destroy"}
                   /\ e = "data" => piped /\ x.do = "data" /\ x.of = S!Of /\ x.chunk = S!Ch /\ Carrier(x)
                   /\ e # "data" => ~Carrier(x)
<1>1. /\ s \in S!Stream /\ pushed \in Nat
      /\ e = "data" => s \in S!Readable /\ m \in 1 .. pushed
  <2>1. s \in S!Stream /\ pushed \in Nat
    BY HeadOf DEF AgendaInv
  <2>2. e = "data" => Carrier(Head(agenda))
    BY DEF Carrier
  <2>3. e = "data" => Head(agenda).of \in S!Readable
    <3>1. ItemFits(Head(agenda))
      BY HeadItem
    <3> QED BY <3>1 DEF ItemFits, Fits
  <2> QED BY <2>1, <2>2, <2>3, HeadOf, HeadItem
<1>2. CASE ~piped
  <2>1. h = <<>>
    BY <1>2 DEF S!PipeHears
  <2> QED BY <1>2, <2>1
<1>3. CASE piped /\ e = "data"
  <2> DEFINE x == S!DoChunk("data", s, m)
  <2>1. h = <<x>>
    BY <1>3 DEF S!PipeHears
  <2>2. Fits(x, pushed) /\ x.do = "data" /\ x.of = s /\ x.chunk = m /\ Carrier(x)
    BY <1>1, <1>3, DoChunkFits
  <2> HIDE DEF x, h, e
  <2>3. G(x)
    BY <1>3, <2>1, <2>2
  <2> HIDE DEF G
  <2>4. \E z : G(z)
    BY <2>3
  <2> QED BY <2>4 DEF G, h, e
<1>4. CASE piped /\ e = "end"
  <2> DEFINE x == S!Do("end", S!Dest(s))
  <2>1. h = <<x>>
    BY <1>4 DEF S!PipeHears
  <2>2. S!Dest(s) \in S!Stream
    BY DEF S!Dest, S!Stream
  <2>3. Fits(x, pushed) /\ x.do = "end" /\ ~Carrier(x)
    BY <1>1, <2>2, DoFits
  <2> HIDE DEF x, h, e
  <2>4. G(x)
    BY <1>4, <2>1, <2>3
  <2> HIDE DEF G
  <2>5. \E z : G(z)
    BY <2>4
  <2> QED BY <2>5 DEF G, h, e
<1>5. CASE piped /\ e = "error" /\ s # "dst"
  <2> DEFINE x == S!DoChunk("destroy", S!Dest(s), 1)
  <2>1. h = <<x>>
    BY <1>5 DEF S!PipeHears
  <2>2. S!Dest(s) \in S!Stream
    BY DEF S!Dest, S!Stream
  <2>3. Fits(x, pushed) /\ x.do = "destroy" /\ ~Carrier(x)
    BY <1>1, <2>2, DestroyFits
  <2> HIDE DEF x, h, e
  <2>4. G(x)
    BY <1>5, <2>1, <2>3
  <2> HIDE DEF G
  <2>5. \E z : G(z)
    BY <2>4
  <2> QED BY <2>5 DEF G, h, e
<1>6. CASE piped /\ e \notin {"data", "end"} /\ ~(e = "error" /\ s # "dst")
  <2>1. h = <<>>
    BY <1>6 DEF S!PipeHears
  <2> QED BY <1>6, <2>1
<1> QED BY <1>2, <1>3, <1>4, <1>5, <1>6

LEMMA EmitStep ==
  ASSUME AgendaInv, ChunksInv, StreamTypes, StreamTypes', S!DoEmit
  PROVE  AgendaInv' /\ ChunksInv'
<1> DEFINE e == Head(agenda).event
           s == S!Of
           m == S!Ch
           y == S!Do("listener", "src")
           h == S!PipeHears(s, e, m)
           hears == s = "src" /\ watched /\ e = "data"
<1>1. Still
  BY DEF S!DoEmit, S!readVars, S!writeVars, S!scriptVars, Still
<1>2. /\ agenda # <<>> /\ Head(agenda).do = "emit"
      /\ agenda' = (h \o (IF hears THEN <<y>> ELSE <<>>)) \o Tail(agenda)
  BY DEF S!DoEmit, S!Turn, S!Then, S!When
<1>3. Carrier(Head(agenda)) <=> e = "data"
  BY <1>2 DEF Carrier
<1>4. /\ pushed \in Nat /\ Head(agenda).of = s /\ Head(agenda).chunk = m /\ s \in S!Stream
      /\ e = "data" => m \in 1 .. pushed
  BY <1>2, <1>3, HeadOf, HeadItem DEF AgendaInv
<1>5. e = "data" /\ ~piped => m \in taken' \/ m \in dropped'
  <2> SUFFICES ASSUME e = "data", ~piped PROVE m \in taken' \/ m \in dropped'
    OBVIOUS
  <2>1. m # 0
    BY <1>4
  <2>2. CASE s = "src" /\ (waiting \/ watched)
    BY <2>2 DEF S!DoEmit
  <2>3. CASE ~(s = "src" /\ (waiting \/ watched))
    <3>1. S!Unheard(m)
      BY <2>1, <2>3 DEF S!Unheard, S!Nothing
    <3> QED BY <3>1 DEF S!DoEmit
  <2> QED BY <2>2, <2>3
<1>6. \/ h = <<>> /\ (e = "data" => ~piped)
      \/ \E x : /\ h = <<x>> /\ Fits(x, pushed)
                /\ x.do \in {"data", "end", "destroy"}
                /\ e = "data" => piped /\ x.do = "data" /\ x.of = s /\ x.chunk = m /\ Carrier(x)
                /\ e # "data" => ~Carrier(x)
  BY <1>2, PipeHearsOne
<1>7. Fits(y, pushed) /\ y.do = "listener" /\ ~Carrier(y)
  BY <1>4, DoFits DEF S!Stream
<1>8. /\ InBatch(Head(agenda)) => e = "data" /\ s = "mid"
      /\ Flows(Head(agenda)) => e = "data" /\ s = "mid"
  BY <1>2, <1>4 DEF InBatch, Flows
<1> HIDE DEF e, s, m, y, h
<1>9. CASE h = <<>> /\ (e = "data" => ~piped)
  <2>1. CASE ~hears
    <3>1. agenda' = (<<>> \o <<>>) \o Tail(agenda)
      BY <1>2, <1>9, <2>1
    <3>2. agenda' = <<>> \o Tail(agenda)
      BY <3>1, Joins
    <3> QED BY <1>1, <1>2, <1>3, <1>5, <1>9, <3>2, HeadIsDone DEF m
  <2>2. CASE hears
    <3>1. agenda' = (<<>> \o <<y>>) \o Tail(agenda)
      BY <1>2, <1>9, <2>2
    <3>2. agenda' = <<y>> \o Tail(agenda)
      BY <3>1, Joins
    <3>3. ~InBatch(Head(agenda)) /\ ~Flows(Head(agenda)) /\ watched
      BY <1>8, <2>2
    <3> QED BY <1>1, <1>2, <1>3, <1>5, <1>7, <1>9, <3>2, <3>3, HeadIsReplaced DEF m
  <2> QED BY <2>1, <2>2
<1>10. ASSUME NEW x, h = <<x>>, Fits(x, pushed), x.do \in {"data", "end", "destroy"},
              e = "data" => piped /\ x.do = "data" /\ x.of = s /\ x.chunk = m /\ Carrier(x),
              e # "data" => ~Carrier(x)
       PROVE  AgendaInv' /\ ChunksInv'
  <2>0. /\ InBatch(Head(agenda)) => InBatch(x)
        /\ Flows(Head(agenda)) => Flows(x)
    BY <1>8, <1>10 DEF InBatch, Flows
  <2>1. CASE ~hears
    <3>1. agenda' = (<<x>> \o <<>>) \o Tail(agenda)
      BY <1>2, <1>10, <2>1
    <3>2. agenda' = <<x>> \o Tail(agenda)
      BY <3>1, Joins
    <3> QED BY <1>1, <1>2, <1>3, <1>10, <2>0, <3>2, HeadIsReplaced DEF m
  <2>2. CASE hears
    <3>1. agenda' = (<<x>> \o <<y>>) \o Tail(agenda)
      BY <1>2, <1>10, <2>2
    <3>2. agenda' = <<x, y>> \o Tail(agenda)
      BY <3>1, Joins
    <3>3. ~InBatch(Head(agenda)) /\ watched
      BY <1>8, <2>2
    <3>4. /\ AgendaInv'
          /\ \A z : Carried(z)' <=> (Carrier(x) /\ x.chunk = z) \/ CarriedOn(z)
      <4>1. ItemFits(x) /\ ItemFits(y)
        BY <1>7, <1>10 DEF ItemFits
      <4> QED BY <1>1, <1>2, <1>7, <3>2, <3>3, <4>1, ThenTwo DEF Still
    <3>5. \A z : Carried(z) <=> (Carrier(Head(agenda)) /\ Head(agenda).chunk = z) \/ CarriedOn(z)
      BY <1>2, HeadItem
    <3>6. ~Calm'
      BY <1>1, <3>3 DEF Calm, Still
    <3>7. \A z : Carried(z) => Carried(z)'
      BY <1>3, <1>4, <1>10, <2>2, <3>4, <3>5
    <3> QED BY <1>1, <3>4, <3>6, <3>7, StillChunks
  <2> QED BY <2>1, <2>2
<1> QED BY <1>6, <1>9, <1>10

(* What a queue loses with its head, whether or not it was there twice.     *)
LEMMA TailLosesHead ==
  ASSUME NEW list \in Seq(Nat), list # <<>>
  PROVE  /\ \A m : Has(Tail(list), m) => Has(list, m)
         /\ \A m : Has(list, m) => m = Head(list) \/ Has(Tail(list), m)
         /\ Has(list, Head(list)) /\ Head(list) \in Nat /\ Tail(list) \in Seq(Nat)
<1> DEFINE n == Len(list)
           rest == Tail(list)
<1>1. /\ n \in Nat \ {0} /\ rest \in Seq(Nat) /\ Len(rest) = n - 1 /\ Head(list) \in Nat
      /\ \A i \in 1 .. n - 1 : rest[i] = list[i + 1]
      /\ Head(list) = list[1]
  BY HeadTailProperties, EmptySeq
<1>2. ASSUME NEW m, Has(rest, m) PROVE Has(list, m)
  <2>1. PICK i \in 1 .. n - 1 : rest[i] = m
    BY <1>1, <1>2 DEF Has
  <2>2. i + 1 \in 1 .. n /\ list[i + 1] = m
    BY <1>1, <2>1
  <2> QED BY <2>2 DEF Has
<1>3. ASSUME NEW m, Has(list, m), m # Head(list) PROVE Has(rest, m)
  <2>1. PICK i \in 1 .. n : list[i] = m
    BY <1>3 DEF Has
  <2>2. i - 1 \in 1 .. n - 1 /\ (i - 1) + 1 = i
    BY <1>1, <1>3, <2>1
  <2>3. rest[i - 1] = m
    BY <1>1, <2>1, <2>2
  <2> QED BY <1>1, <2>2, <2>3 DEF Has
<1>4. Has(list, Head(list))
  BY <1>1 DEF Has
<1> QED BY <1>1, <1>2, <1>3, <1>4

LEMMA CalmStays ==
  ASSUME UNCHANGED <<watched, resumes>> PROVE Calm' <=> Calm
BY DEF Calm

(* A chunk at the place w is in no other, while Calm.                       *)
LEMMA OnlyThere ==
  ASSUME ChunksInv, Calm, NEW w, NEW m, At(w, m)
  PROVE  /\ Carried(m) => w = "agenda"
         /\ \A s \in S!Readable : Live(s) /\ Has(buffer[s], m) => w = s
         /\ Has(held, m) => w = "held"
         /\ Has(writing["mid"], m) => w = "writing"
         /\ Has(arrived, m) => w = "arrived"
<1>1. Apart
  BY DEF ChunksInv
<1>2. \A v : At(v, m) => v = w
  BY <1>1 DEF Apart
<1>3. /\ Carried(m) => At("agenda", m)
      /\ \A s \in S!Readable : Live(s) /\ Has(buffer[s], m) => At(s, m)
      /\ Has(held, m) => At("held", m)
      /\ Has(writing["mid"], m) => At("writing", m)
      /\ Has(arrived, m) => At("arrived", m)
  BY DEF At
<1> QED BY <1>2, <1>3

(* The script pushes a chunk that was nowhere.                              *)
LEMMA PushStep ==
  ASSUME AgendaInv, ChunksInv, StreamTypes, S!Push
  PROVE  AgendaInv' /\ ChunksInv'
<1> DEFINE k == pushed + 1
           x == S!DoChunk("push", "src", k)
<1>1. /\ S!ScriptRuns /\ pushed' = k /\ agenda' = <<x>> \o agenda
      /\ UNCHANGED <<buffer, held, writing, arrived, watched, resumes, taken, dropped>>
  BY DEF S!Push, S!Call, S!readVars, S!writeVars, S!history
<1>2. /\ pushed \in Nat /\ k \in Nat /\ k \in 1 .. k /\ k >= pushed /\ k \notin 1 .. pushed
      /\ \A m \in 1 .. k : m = k \/ m \in 1 .. pushed
      /\ \A m \in 1 .. pushed : m \in 1 .. k
  BY DEF AgendaInv
<1> HIDE DEF k
<1>3. Fits(x, k) /\ x.do = "push" /\ x.of = "src" /\ x.chunk = k /\ Carrier(x)
  BY <1>2, DoChunkFits DEF S!Stream, S!Readable
<1> HIDE DEF x
<1>4. /\ AgendaInv' /\ CarriedOnce'
      /\ \A m : Carried(m)' <=> m = k
      /\ \A s : Ticking(s)' <=> Ticking(s)
  <2>1. /\ AgendaInv' /\ CarriedOnce'
        /\ \A m : Carried(m)' <=> Carrier(x) /\ x.chunk = m
        /\ \A s : Ticking(s)' <=> Ticking(s)
    BY <1>1, <1>2, <1>3, CallOne
  <2> QED BY <1>3, <2>1
<1>5. \A m : ~Carried(m)
  BY <1>1, WhoCalls
<1>6. /\ \A m : InQueue(m)' <=> InQueue(m)
      /\ \A s \in S!Readable : Live(s)' <=> Live(s)
  BY <1>1, <1>4 DEF InQueue, Live
<1>7. Calm' <=> Calm
  BY <1>1, CalmStays
<1>8. \A m \in 1 .. pushed' : Accounted(m)'
  BY <1>1, <1>2, <1>4, <1>5, <1>6 DEF ChunksInv, Kept, Accounted
<1>9. Calm' => Once'
  BY <1>1, <1>4, <1>6, <1>7 DEF ChunksInv, Once
<1>10. ASSUME NEW m
       PROVE  (\A v : At(v, m)' => At(v, m)) \/ \E w : \A v : At(v, m)' => v = w
  <2>1. CASE m # k
    BY <1>1, <1>4, <1>6, <2>1 DEF At
  <2>2. CASE m = k
    <3>1. ~InQueue(k)
      BY <1>2 DEF ChunksInv, Bounded
    <3>2. \A v : At(v, m)' => v = "agenda"
      BY <1>1, <2>2, <3>1 DEF At, InQueue
    <3> QED BY <3>2
  <2> QED BY <2>1, <2>2
<1>11. (\A m : InQueue(m)' => InQueue(m)) /\ \A m \in 1 .. pushed : m \in 1 .. pushed'
  BY <1>1, <1>2, <1>6
<1> QED BY <1>4, <1>7, <1>8, <1>9, <1>10, <1>11, ChunksKept

(* read() and the iterator take a chunk from a buffer.                      *)
LEMMA TakeStep ==
  ASSUME AgendaInv, ChunksInv, StreamTypes, S!ScriptRuns, agenda' = <<>> \o agenda,
         NEW s \in S!Readable, buffer[s] # <<>>, buffer' = [buffer EXCEPT ![s] = Tail(@)],
         taken' = taken \cup {Head(buffer[s])},
         UNCHANGED <<held, writing, arrived, pushed, watched, resumes, dropped>>
  PROVE  AgendaInv' /\ ChunksInv'
<1> DEFINE list == buffer[s]
           rest == Tail(list)
           k == Head(list)
<1>1. /\ list \in Seq(Nat) /\ buffer'[s] = rest
      /\ \A t \in S!Readable : t # s => buffer'[t] = buffer[t]
  BY DEF StreamTypes
<1>2. /\ \A m : Has(rest, m) => Has(list, m)
      /\ \A m : Has(list, m) => m = k \/ Has(rest, m)
  BY <1>1, TailLosesHead
<1>3. OnceEach(list) => OnceEach(rest)
  BY <1>1, TailHas
<1>4. /\ AgendaInv' /\ CarriedOnce' /\ (\A m : ~Carried(m)') /\ (\A m : ~Carried(m))
      /\ \A t : Ticking(t)' <=> Ticking(t)
  BY CallNothing, WhoCalls
<1>5. k \in taken' /\ \A m \in taken : m \in taken'
  OBVIOUS
<1> HIDE DEF rest, k
<1>6. /\ \A m, t : t \in S!Readable /\ Has(buffer'[t], m) => Has(buffer[t], m)
      /\ \A m, t : t \in S!Readable /\ Has(buffer[t], m) => m = k \/ Has(buffer'[t], m)
      /\ \A t \in S!Readable : OnceEach(buffer[t]) => OnceEach(buffer'[t])
  BY <1>1, <1>2, <1>3
<1>7. \A t \in S!Readable : Live(t)' <=> Live(t)
  BY <1>4 DEF Live
<1>8. Calm' <=> Calm
  BY CalmStays
<1>9. \A m : InQueue(m)' => InQueue(m)
  BY <1>6 DEF InQueue
<1>10. \A m \in 1 .. pushed' : Accounted(m)'
  <2>1. \A m : InQueue(m) => InQueue(m)' \/ m = k
    BY <1>6 DEF InQueue
  <2> QED BY <1>4, <1>5, <2>1 DEF ChunksInv, Kept, Accounted
<1>11. Calm' => Once'
  BY <1>4, <1>6, <1>7, <1>8 DEF ChunksInv, Once
<1>12. \A m, v : At(v, m)' => At(v, m)
  BY <1>4, <1>6, <1>7 DEF At
<1> QED BY <1>4, <1>8, <1>9, <1>10, <1>11, <1>12, ChunksKept

(* mid's read() pushes one of the chunks the transform kept.                *)
LEMMA ReadKeptStep ==
  ASSUME AgendaInv, ChunksInv, StreamTypes, S!ScriptRuns, held # <<>>, held' = Tail(held),
         agenda' = <<S!DoChunk("push", "mid", Head(held))>> \o agenda,
         UNCHANGED <<buffer, writing, arrived, pushed, watched, resumes, taken, dropped>>
  PROVE  AgendaInv' /\ ChunksInv'
<1> DEFINE k == Head(held)
           x == S!DoChunk("push", "mid", k)
<1>1. held \in Seq(Nat)
  BY DEF StreamTypes
<1>2. /\ \A m : Has(held', m) => Has(held, m)
      /\ \A m : Has(held, m) => m = k \/ Has(held', m)
      /\ Has(held, k)
  BY <1>1, TailLosesHead
<1>3. OnceEach(held) => OnceEach(held') /\ ~Has(held', k)
  BY <1>1, TailHas
<1>4. k \in 1 .. pushed /\ pushed \in Nat /\ pushed >= pushed
  BY <1>2 DEF ChunksInv, Bounded, InQueue, AgendaInv
<1> HIDE DEF k
<1>5. Fits(x, pushed') /\ x.do = "push" /\ x.of = "mid" /\ x.chunk = k /\ Carrier(x)
  BY <1>4, DoChunkFits DEF S!Stream, S!Readable
<1>6. agenda' = <<x>> \o agenda
  BY DEF k
<1> HIDE DEF x
<1>7. /\ AgendaInv' /\ CarriedOnce' /\ (\A m : ~Carried(m))
      /\ \A m : Carried(m)' <=> m = k
      /\ \A s : Ticking(s)' <=> Ticking(s)
  <2>1. /\ AgendaInv' /\ CarriedOnce'
        /\ \A m : Carried(m)' <=> Carrier(x) /\ x.chunk = m
        /\ \A s : Ticking(s)' <=> Ticking(s)
    BY <1>4, <1>5, <1>6, CallOne
  <2> QED BY <1>5, <2>1, WhoCalls
<1>8. \A t \in S!Readable : Live(t)' <=> Live(t)
  BY <1>7 DEF Live
<1>9. Calm' <=> Calm
  BY CalmStays
<1>10. \A m : InQueue(m)' => InQueue(m)
  BY <1>2 DEF InQueue
<1>11. \A m \in 1 .. pushed' : Accounted(m)'
  <2>1. \A m : InQueue(m) => InQueue(m)' \/ m = k
    BY <1>2 DEF InQueue
  <2> QED BY <1>7, <2>1 DEF ChunksInv, Kept, Accounted
<1>12. Calm' => Once'
  BY <1>3, <1>7, <1>8, <1>9 DEF ChunksInv, Once
<1>13. ASSUME Calm', NEW m
       PROVE  (\A v : At(v, m)' => At(v, m)) \/ \E w : \A v : At(v, m)' => v = w
  <2>1. CASE m # k
    BY <1>2, <1>7, <1>8, <2>1 DEF At
  <2>2. CASE m = k
    <3>1. At("held", k)
      BY <1>2 DEF At
    <3>2. ~Has(held', k)
      BY <1>3, <1>9, <1>13 DEF ChunksInv, Once
    <3>3. /\ \A s \in S!Readable : ~(Live(s) /\ Has(buffer[s], k))
          /\ ~Has(writing["mid"], k) /\ ~Has(arrived, k)
      BY <1>9, <1>13, <3>1, OnlyThere DEF S!Readable
    <3>4. \A v : At(v, m)' => v = "agenda"
      BY <1>8, <2>2, <3>2, <3>3 DEF At
    <3> QED BY <3>4
  <2> QED BY <2>1, <2>2
<1> QED BY <1>7, <1>9, <1>10, <1>11, <1>12, <1>13, ChunksKept

(* read() and the iterator's next().                                        *)
LEMMA ReadStep ==
  ASSUME AgendaInv, ChunksInv, StreamTypes, StreamTypes', NEW s \in S!Readable, S!Read(s)
  PROVE  AgendaInv' /\ ChunksInv'
<1>1. /\ S!ScriptRuns
      /\ UNCHANGED <<writing, arrived, pushed, watched, resumes, dropped>>
  BY DEF S!Read, S!writeVars
<1>2. CASE buffer[s] # <<>>
  <2>1. /\ buffer' = [buffer EXCEPT ![s] = Tail(@)] /\ taken' = taken \cup {Head(buffer[s])}
        /\ agenda' = <<>> \o agenda /\ held' = held
    BY <1>2 DEF S!Read, S!Call
  <2> QED BY <1>1, <1>2, <2>1, TakeStep
<1>3. CASE buffer[s] = <<>>
  <2>1. UNCHANGED <<buffer, taken>> /\ S!ReadEmpty(s)
    BY <1>3 DEF S!Read
  <2>2. CASE s # "src" /\ held # <<>>
    <3>1. s = "mid"
      BY <2>2 DEF S!Readable
    <3>2. /\ held' = Tail(held)
          /\ agenda' = <<S!DoChunk("push", "mid", Head(held))>> \o agenda
      BY <2>1, <2>2, <3>1 DEF S!ReadEmpty, S!Call
    <3> QED BY <1>1, <2>1, <2>2, <3>2, ReadKeptStep
  <2>3. CASE s # "src" /\ held = <<>>
    <3>1. held' = held /\ agenda' = <<>> \o agenda
      BY <2>1, <2>3 DEF S!ReadEmpty, S!Call
    <3>2. Still
      BY <1>1, <2>1, <3>1 DEF Still
    <3>3. /\ AgendaInv' /\ CarriedOnce' /\ (\A m : ~Carried(m)') /\ (\A m : ~Carried(m))
          /\ \A t : Ticking(t)' <=> Ticking(t)
      BY <1>1, <3>1, CallNothing, WhoCalls
    <3> QED BY <3>2, <3>3, StillChunks
  <2>4. CASE s = "src"
    <3> DEFINE x == S!Emit(s, "end", 0)
    <3>1. held' = held /\ agenda' = <<x>> \o agenda
      BY <2>1, <2>4 DEF S!ReadEmpty, S!Call, S!Nothing
    <3>2. Still
      BY <1>1, <2>1, <3>1 DEF Still
    <3>3. pushed \in Nat /\ pushed' = pushed /\ pushed >= pushed
      BY <1>1 DEF AgendaInv
    <3>4. Fits(x, pushed') /\ x.do = "emit" /\ ~Carrier(x)
      BY <2>4, <3>3, EmitFits DEF S!Stream
    <3> HIDE DEF x
    <3>5. /\ AgendaInv' /\ CarriedOnce' /\ (\A m : ~Carried(m)') /\ (\A m : ~Carried(m))
          /\ \A t : Ticking(t)' <=> Ticking(t)
      <4>1. /\ AgendaInv' /\ CarriedOnce'
            /\ \A m : Carried(m)' <=> Carrier(x) /\ x.chunk = m
            /\ \A t : Ticking(t)' <=> Ticking(t)
        BY <1>1, <3>1, <3>3, <3>4, CallOne
      <4> QED BY <1>1, <3>4, <4>1, WhoCalls
    <3> QED BY <3>2, <3>5, StillChunks
  <2> QED BY <2>2, <2>3, <2>4
<1> QED BY <1>2, <1>3

LEMMA IteratorNextStep ==
  ASSUME AgendaInv, ChunksInv, StreamTypes, StreamTypes', S!IteratorNext
  PROVE  AgendaInv' /\ ChunksInv'
<1>1. /\ S!ScriptRuns
      /\ UNCHANGED <<held, writing, arrived, pushed, watched, resumes, dropped>>
  BY DEF S!IteratorNext, S!writeVars
<1>0. "src" \in S!Readable /\ "src" \in S!Stream
  BY DEF S!Readable, S!Stream
<1>2. CASE buffer["src"] # <<>>
  <2>1. /\ buffer' = [buffer EXCEPT !["src"] = Tail(@)]
        /\ taken' = taken \cup {Head(buffer["src"])} /\ agenda' = <<>> \o agenda
    BY <1>2 DEF S!IteratorNext, S!Call
  <2> QED BY <1>0, <1>1, <1>2, <2>1, TakeStep
<1>3. CASE buffer["src"] = <<>>
  <2> DEFINE x == S!Do("resume", "src")
  <2>1. UNCHANGED <<buffer, taken>> /\ agenda' = <<x>> \o agenda
    BY <1>3 DEF S!IteratorNext, S!Call
  <2>2. Still
    BY <1>1, <2>1 DEF Still
  <2>3. pushed \in Nat /\ pushed' = pushed /\ pushed >= pushed
    BY <1>1 DEF AgendaInv
  <2>4. Fits(x, pushed') /\ x.do = "resume" /\ ~Carrier(x)
    BY <1>0, <2>3, DoFits
  <2> HIDE DEF x
  <2>5. /\ AgendaInv' /\ CarriedOnce' /\ (\A m : ~Carried(m)') /\ (\A m : ~Carried(m))
        /\ \A t : Ticking(t)' <=> Ticking(t)
    <3>1. /\ AgendaInv' /\ CarriedOnce'
          /\ \A m : Carried(m)' <=> Carrier(x) /\ x.chunk = m
          /\ \A t : Ticking(t)' <=> Ticking(t)
      BY <1>1, <2>1, <2>3, <2>4, CallOne
    <3> QED BY <1>1, <2>4, <3>1, WhoCalls
  <2> QED BY <2>2, <2>5, StillChunks
<1> QED BY <1>2, <1>3

(* While no listener of the script pushes, no tick empties the buffer that  *)
(* a push adds to.                                                          *)
LEMMA PushMeetsNoTick ==
  ASSUME AgendaInv, ~watched, agenda # <<>>, Head(agenda).do = "push"
  PROVE  ~Ticking(S!Of)
<1> SUFFICES ASSUME NEW i \in 1 .. Len(agenda), agenda[i].do = "tick", agenda[i].of = S!Of
             PROVE  FALSE
  BY DEF Ticking
<1>1. /\ Head(agenda) = agenda[1] /\ 1 \in 1 .. Len(agenda) /\ Len(agenda) \in Nat \ {0}
      /\ S!Of = agenda[1].of /\ S!Of \in S!Readable
  BY HeadItem, HeadOf
<1>2. i # 1
  BY <1>1
<1>3. QuietItem(1) /\ QuietItem(i)
  BY <1>1 DEF AgendaInv, Quiet
<1>4. Len(agenda) # 1
  BY <1>1, <1>2
<1>5. S!Of = "mid"
  BY <1>1, <1>3, <1>4 DEF QuietItem, S!Readable
<1>6. 1 < i
  BY <1>1, <1>2
<1>7. Flows(agenda[1])
  BY <1>1, <1>3, <1>5, <1>6 DEF QuietItem
<1> QED BY <1>1, <1>7 DEF Flows

(* push leaves the chunk in the buffer, and emits it as well if s flows.    *)
LEMMA DoPushStep ==
  ASSUME AgendaInv, ChunksInv, StreamTypes, FlowsResumed, S!DoPush
  PROVE  AgendaInv' /\ ChunksInv'
<1> DEFINE s == S!Of
           k == S!Ch
           x == S!Emit(s, "data", k)
           list == Append(buffer[s], k)
<1>1. /\ agenda # <<>> /\ Head(agenda).do = "push"
      /\ buffer' = [buffer EXCEPT ![s] = list]
      /\ UNCHANGED <<flowing, held, writing, arrived, pushed, watched, resumes, taken, dropped>>
  BY DEF S!DoPush, S!Turn, S!writeVars, S!scriptVars, S!history
<1>2. agenda' = IF flowing[s] = "on" THEN <<x>> \o Tail(agenda) ELSE <<>> \o Tail(agenda)
  BY DEF S!DoPush, S!Then, S!When
<1>3. Carrier(Head(agenda)) /\ ~Flows(Head(agenda)) /\ Head(agenda).do # "tick"
  BY <1>1 DEF Carrier, Flows
<1>4. /\ s \in S!Readable /\ s \in S!Stream /\ k \in 1 .. pushed /\ k \in Nat /\ pushed \in Nat
      /\ Head(agenda).of = s /\ Head(agenda).chunk = k
  BY <1>1, <1>3, HeadOf, HeadItem DEF AgendaInv
<1>5. /\ buffer[s] \in Seq(Nat) /\ buffer'[s] = list
      /\ \A t \in S!Readable : t # s => buffer'[t] = buffer[t]
  BY <1>1, <1>4 DEF StreamTypes
<1>6. /\ \A m : Has(list, m) <=> Has(buffer[s], m) \/ m = k
      /\ OnceEach(buffer[s]) /\ ~Has(buffer[s], k) => OnceEach(list)
  BY <1>4, <1>5, AppendHas
<1>7. /\ Carried(k) /\ \A m : Carried(m) <=> m = k \/ CarriedOn(m)
      /\ \A t : Ticking(t) <=> TickingOn(t)
  BY <1>1, <1>3, <1>4, HeadItem
<1>8. ~watched => ~Ticking(s)
  BY <1>1, PushMeetsNoTick
<1>9. flowing[s] = "on" => resumes[s] # 0
  BY <1>4 DEF FlowsResumed
<1>10. Calm' <=> Calm
  BY <1>1, CalmStays
<1>11. CarriedOnce => ~CarriedOn(k)
  BY <1>1, <1>3, <1>4, HeadCarriesAlone
<1>12. Fits(x, pushed) /\ x.do = "emit" /\ x.event = "data" /\ x.of = s /\ x.chunk = k /\ Carrier(x)
  BY <1>4, EmitDataFits
<1> HIDE DEF s, k, x, list
<1>13. /\ \A m : InQueue(m)' => InQueue(m) \/ m \in 1 .. pushed'
       /\ \A m : InQueue(m) => InQueue(m)'
       /\ \A m : m = k => InQueue(m)'
  <2>1. /\ \A m, t : t \in S!Readable /\ Has(buffer'[t], m) => Has(buffer[t], m) \/ m = k
        /\ \A m, t : t \in S!Readable /\ Has(buffer[t], m) => Has(buffer'[t], m)
        /\ Has(buffer'[s], k)
    BY <1>5, <1>6
  <2>2. k \in 1 .. pushed'
    BY <1>1, <1>4
  <2>3. \A m : InQueue(m)' => InQueue(m) \/ m = k
    BY <1>1, <2>1 DEF InQueue
  <2>4. \A m : InQueue(m) => InQueue(m)'
    BY <1>1, <2>1 DEF InQueue
  <2>5. \E t \in S!Readable : Has(buffer'[t], k)
    BY <1>4, <2>1
  <2>6. \A m : m = k => InQueue(m)'
    BY <2>5 DEF InQueue
  <2> QED BY <2>2, <2>3, <2>4, <2>6
<1>14. CASE flowing[s] = "on"
  <2>1. /\ AgendaInv'
        /\ \A m : Carried(m)' <=> Carried(m)
        /\ \A t : Ticking(t)' <=> Ticking(t)
        /\ CarriedOnce => CarriedOnce'
    <3>2. InBatch(Head(agenda)) => InBatch(x)
      BY <1>1, <1>4, <1>12 DEF InBatch, Flows
    <3>3. /\ AgendaInv'
          /\ \A m : Carried(m)' <=> (Carrier(x) /\ x.chunk = m) \/ CarriedOn(m)
          /\ \A t : Ticking(t)' <=> (x.do = "tick" /\ x.of = t) \/ TickingOn(t)
          /\ CarriedOnce /\ (Carrier(x) => ~CarriedOn(x.chunk)) => CarriedOnce'
      <4>1. agenda' = <<x>> \o Tail(agenda) /\ ItemFits(x)
        BY <1>2, <1>12, <1>14 DEF ItemFits
      <4> QED BY <1>1, <1>3, <1>12, <3>2, <4>1, ThenOne
    <3> QED BY <1>7, <1>11, <1>12, <3>3
  <2>2. \A m \in 1 .. pushed' : Accounted(m)'
    BY <1>1, <1>13, <2>1 DEF ChunksInv, Kept, Accounted
  <2>3. Calm' => \A t : t = s => ~Live(t)'
    BY <1>1, <1>8, <1>9, <1>10, <1>14, <2>1 DEF Live, Calm
  <2>4. \A t \in S!Readable : Live(t)' <=> Live(t)
    BY <1>1, <2>1 DEF Live
  <2>5. Calm' => Once'
    BY <1>1, <1>5, <1>10, <2>1, <2>3, <2>4 DEF ChunksInv, Once
  <2>6. Calm' => \A m, v : At(v, m)' => At(v, m)
    BY <1>1, <1>5, <2>1, <2>3, <2>4 DEF At
  <2> QED BY <1>1, <1>10, <1>13, <2>1, <2>2, <2>5, <2>6, ChunksKept
<1>15. CASE flowing[s] # "on"
  <2>1. /\ AgendaInv'
        /\ \A m : Carried(m)' <=> CarriedOn(m)
        /\ \A t : Ticking(t)' <=> Ticking(t)
        /\ CarriedOnce => CarriedOnce'
    <3>1. agenda' = <<>> \o Tail(agenda)
      BY <1>2, <1>15
    <3>2. /\ AgendaInv'
          /\ \A m : Carried(m)' <=> CarriedOn(m)
          /\ \A t : Ticking(t)' <=> TickingOn(t)
          /\ CarriedOnce => CarriedOnce'
      BY <1>1, <3>1, ThenNothing
    <3> QED BY <1>7, <3>2
  <2>2. \A m \in 1 .. pushed' : Accounted(m)'
    <3>1. \A m : m = k => InQueue(m)'
      BY <1>13
    <3> QED BY <1>1, <1>7, <1>13, <2>1, <3>1 DEF ChunksInv, Kept, Accounted
  <2>3. \A t \in S!Readable : Live(t)' <=> Live(t)
    BY <1>1, <2>1 DEF Live
  <2>4. Calm => /\ \A t \in S!Readable : Live(t) => ~Has(buffer[t], k)
                /\ ~Has(held, k) /\ ~Has(writing["mid"], k) /\ ~Has(arrived, k)
    <3>1. At("agenda", k)
      BY <1>7 DEF At
    <3> QED BY <3>1, OnlyThere DEF S!Readable
  <2>5. Calm' => Once'
    BY <1>1, <1>4, <1>5, <1>6, <1>10, <2>1, <2>3, <2>4 DEF ChunksInv, Once
  <2>6. ASSUME Calm', NEW m
        PROVE  (\A v : At(v, m)' => At(v, m)) \/ \E w : \A v : At(v, m)' => v = w
    <3>1. CASE m # k
      BY <1>1, <1>5, <1>6, <1>7, <2>1, <2>3, <3>1 DEF At
    <3>2. CASE m = k
      <4>1. ~Carried(m)'
        BY <1>10, <1>11, <2>1, <2>6, <3>2 DEF ChunksInv, Once
      <4>2. \A v : At(v, m)' => v = s
        BY <1>1, <1>5, <1>10, <2>3, <2>4, <2>6, <3>2, <4>1 DEF At
      <4> QED BY <4>2
    <3> QED BY <3>1, <3>2
  <2> QED BY <1>1, <1>10, <1>13, <2>1, <2>2, <2>5, <2>6, ChunksKept
<1> QED BY <1>14, <1>15

(* resume's tick emits what the buffer holds, chunk by chunk.               *)
LEMMA TickStep ==
  ASSUME AgendaInv, ChunksInv, StreamTypes, StreamTypes', S!DoTick
  PROVE  AgendaInv' /\ ChunksInv'
<1> DEFINE s == S!Of
           list == buffer[s]
           rest == Tail(list)
           k == Head(list)
           x == S!Emit(s, "data", k)
           y == S!Do("tick", s)
<1>1. /\ agenda # <<>> /\ Head(agenda).do = "tick"
      /\ UNCHANGED <<held, writing, arrived, pushed, watched, resumes, taken, dropped>>
  BY DEF S!DoTick, S!Turn, S!writeVars, S!scriptVars, S!history
<1>2. ~Carrier(Head(agenda)) /\ ~InBatch(Head(agenda))
  BY <1>1 DEF Carrier, InBatch, Flows
<1>3. s \in S!Readable /\ s \in S!Stream /\ pushed \in Nat /\ Head(agenda).of = s
  BY <1>1, HeadOf, HeadItem DEF AgendaInv
<1>4. \/ UNCHANGED buffer /\ agenda' = <<>> \o Tail(agenda)
      \/ /\ list # <<>> /\ buffer' = [buffer EXCEPT ![s] = rest]
         /\ agenda' = (<<x>> \o <<y>>) \o Tail(agenda)
  BY DEF S!DoTick, S!Then, S!TickAgain
<1>5. CASE UNCHANGED buffer /\ agenda' = <<>> \o Tail(agenda)
  <2>1. Still
    BY <1>1, <1>5 DEF Still
  <2> QED BY <1>1, <1>2, <1>5, <2>1, HeadIsDone
<1>6. CASE /\ list # <<>> /\ buffer' = [buffer EXCEPT ![s] = rest]
           /\ agenda' = (<<x>> \o <<y>>) \o Tail(agenda)
  <2>1. /\ list \in Seq(Nat) /\ buffer'[s] = rest
        /\ \A t \in S!Readable : t # s => buffer'[t] = buffer[t]
    BY <1>3, <1>6 DEF StreamTypes
  <2>2. /\ \A m : Has(rest, m) => Has(list, m)
        /\ \A m : Has(list, m) => m = k \/ Has(rest, m)
        /\ Has(list, k)
    BY <1>6, <2>1, TailLosesHead
  <2>3. OnceEach(list) => OnceEach(rest) /\ ~Has(rest, k)
    BY <1>6, <2>1, TailHas
  <2>4. k \in 1 .. pushed
    <3>1. InQueue(k)
      BY <1>3, <2>2 DEF InQueue
    <3> QED BY <3>1 DEF ChunksInv, Bounded
  <2>5. agenda' = <<x, y>> \o Tail(agenda)
    BY <1>6, Joins
  <2> HIDE DEF k, rest
  <2>6. Fits(x, pushed) /\ x.do = "emit" /\ x.event = "data" /\ x.of = s /\ x.chunk = k /\ Carrier(x)
    BY <1>3, <2>4, EmitDataFits
  <2>7. Fits(y, pushed) /\ y.do = "tick" /\ y.of = s /\ ~Carrier(y)
    BY <1>3, DoFits
  <2> HIDE DEF x, y, s
  <2>8. ~watched => Len(agenda) = 1
    BY <1>1, HeadItem DEF AgendaInv, Quiet, QuietItem
  <2>9. /\ AgendaInv'
        /\ \A m : Carried(m)' <=> m = k \/ Carried(m)
        /\ \A t : Ticking(t)' <=> Ticking(t)
        /\ CarriedOnce /\ ~Carried(k) => CarriedOnce'
    <3>1. ItemFits(x) /\ ItemFits(y) /\ (s = "mid" => Flows(x))
      BY <2>6, <2>7 DEF ItemFits, Flows
    <3>2. /\ AgendaInv'
          /\ \A m : Carried(m)' <=> (Carrier(x) /\ x.chunk = m) \/ CarriedOn(m)
          /\ \A t : Ticking(t)' <=>
               (x.do = "tick" /\ x.of = t) \/ (y.do = "tick" /\ y.of = t) \/ TickingOn(t)
          /\ CarriedOnce /\ (Carrier(x) => ~CarriedOn(x.chunk)) => CarriedOnce'
      BY <1>1, <1>2, <2>5, <2>6, <2>7, <2>8, <3>1, ThenTwo
    <3>3. /\ \A m : Carried(m) <=> CarriedOn(m)
          /\ \A t : Ticking(t) <=> t = s \/ TickingOn(t)
      BY <1>1, <1>2, <1>3, HeadItem
    <3> QED BY <2>6, <2>7, <3>2, <3>3
  <2>10. Live(s) /\ \A t \in S!Readable : Live(t)' <=> Live(t)
    <3>1. Ticking(s)
      BY <1>1, <1>3, HeadItem
    <3> QED BY <1>1, <2>9, <3>1 DEF Live
  <2>11. Calm' <=> Calm
    BY <1>1, CalmStays
  <2>12. /\ \A m, t : t \in S!Readable /\ Has(buffer'[t], m) => Has(buffer[t], m)
         /\ \A m, t : t \in S!Readable /\ Has(buffer[t], m) => m = k \/ Has(buffer'[t], m)
         /\ \A t \in S!Readable : OnceEach(buffer[t]) => OnceEach(buffer'[t])
    BY <2>1, <2>2, <2>3
  <2>13. \A m : InQueue(m)' => InQueue(m)
    BY <1>1, <2>12 DEF InQueue
  <2>14. \A m \in 1 .. pushed' : Accounted(m)'
    <3>1. \A m : InQueue(m) => InQueue(m)' \/ m = k
      BY <1>1, <2>12 DEF InQueue
    <3> QED BY <1>1, <2>9, <3>1 DEF ChunksInv, Kept, Accounted
  <2>15. Calm => /\ \A t \in S!Readable : Live(t) /\ t # s => ~Has(buffer[t], k)
                 /\ ~Carried(k) /\ ~Has(held, k) /\ ~Has(writing["mid"], k) /\ ~Has(arrived, k)
    <3>1. At(s, k)
      BY <1>3, <2>2, <2>10 DEF At
    <3> QED BY <1>3, <3>1, OnlyThere DEF S!Readable
  <2>16. Calm' => Once'
    BY <1>1, <2>9, <2>10, <2>11, <2>12, <2>15 DEF ChunksInv, Once
  <2>17. ASSUME Calm', NEW m
         PROVE  (\A v : At(v, m)' => At(v, m)) \/ \E w : \A v : At(v, m)' => v = w
    <3>1. CASE m # k
      BY <1>1, <2>9, <2>10, <2>12, <3>1 DEF At
    <3>2. CASE m = k
      <4>1. ~Has(buffer'[s], m)
        BY <1>3, <2>1, <2>3, <2>10, <2>11, <2>17, <3>2 DEF ChunksInv, Once
      <4>2. \A v : At(v, m)' => v = "agenda"
        BY <1>1, <2>1, <2>10, <2>11, <2>15, <2>17, <3>2, <4>1 DEF At
      <4> QED BY <4>2
    <3> QED BY <3>1, <3>2
  <2> QED BY <1>1, <2>9, <2>11, <2>13, <2>14, <2>16, <2>17, ChunksKept
<1> QED BY <1>4, <1>5, <1>6

(* A chunk is written to mid, whose transform calls back later; or arrives. *)
LEMMA WriteStep ==
  ASSUME AgendaInv, ChunksInv, StreamTypes, S!WriteLater \/ S!WriteAtOnce
  PROVE  AgendaInv' /\ ChunksInv'
<1> DEFINE s == S!Of
           k == S!Ch
           w == IF s = "mid" THEN "writing" ELSE "arrived"
<1>1. /\ agenda # <<>> /\ Head(agenda).do = "write" /\ agenda' = <<>> \o Tail(agenda)
      /\ UNCHANGED <<buffer, held, pushed, watched, resumes, taken, dropped>>
      /\ arrived' = IF s = "dst" THEN Append(arrived, k) ELSE arrived
      /\ \/ writing' = [writing EXCEPT ![s] = Append(@, k)]
         \/ writing' = writing /\ s = "dst"
  BY DEF S!WriteLater, S!WriteAtOnce, S!Turn, S!Then, S!readVars, S!scriptVars
<1>2. Carrier(Head(agenda)) /\ Head(agenda).do # "tick"
  BY <1>1 DEF Carrier
<1>3. /\ s \in S!Writable /\ k \in 1 .. pushed /\ k \in Nat /\ pushed \in Nat
      /\ Head(agenda).of = s /\ Head(agenda).chunk = k
  BY <1>1, <1>2, HeadOf, HeadItem DEF AgendaInv
<1>4. /\ Carried(k) /\ \A m : Carried(m) <=> m = k \/ CarriedOn(m)
      /\ \A t : Ticking(t) <=> TickingOn(t)
  BY <1>1, <1>2, <1>3, HeadItem
<1>5. CarriedOnce => ~CarriedOn(k)
  BY <1>1, <1>2, <1>3, HeadCarriesAlone
<1>6. /\ AgendaInv'
      /\ \A m : Carried(m)' <=> CarriedOn(m)
      /\ \A t : Ticking(t)' <=> Ticking(t)
      /\ CarriedOnce => CarriedOnce'
  BY <1>1, <1>4, ThenNothing
<1>7. writing["mid"] \in Seq(Nat) /\ arrived \in Seq(Nat)
  BY DEF StreamTypes, S!Writable
<1>8. /\ s = "mid" => writing'["mid"] = Append(writing["mid"], k) /\ arrived' = arrived
      /\ s # "mid" => arrived' = Append(arrived, k) /\ writing'["mid"] = writing["mid"]
  BY <1>1, <1>3 DEF StreamTypes, S!Writable
<1> HIDE DEF s, k
<1>9. /\ \A m : Has(writing'["mid"], m) <=> Has(writing["mid"], m) \/ (m = k /\ w = "writing")
      /\ \A m : Has(arrived', m) <=> Has(arrived, m) \/ (m = k /\ w = "arrived")
      /\ OnceEach(writing["mid"]) /\ ~Has(writing["mid"], k) => OnceEach(writing'["mid"])
      /\ OnceEach(arrived) /\ ~Has(arrived, k) => OnceEach(arrived')
  <2>1. /\ \A m : Has(Append(writing["mid"], k), m) <=> Has(writing["mid"], m) \/ m = k
        /\ OnceEach(writing["mid"]) /\ ~Has(writing["mid"], k) => OnceEach(Append(writing["mid"], k))
    BY <1>3, <1>7, AppendHas
  <2>2. /\ \A m : Has(Append(arrived, k), m) <=> Has(arrived, m) \/ m = k
        /\ OnceEach(arrived) /\ ~Has(arrived, k) => OnceEach(Append(arrived, k))
    BY <1>3, <1>7, AppendHas
  <2>3. CASE s = "mid"
    BY <1>8, <2>1, <2>3
  <2>4. CASE s # "mid"
    BY <1>8, <2>2, <2>4
  <2> QED BY <2>3, <2>4
<1>10. w \in {"writing", "arrived"}
  OBVIOUS
<1> HIDE DEF w
<1>11. \A t \in S!Readable : Live(t)' <=> Live(t)
  BY <1>1, <1>6 DEF Live
<1>12. Calm' <=> Calm
  BY <1>1, CalmStays
<1>13. /\ \A m : InQueue(m)' <=> InQueue(m) \/ m = k
       /\ k \in 1 .. pushed'
  <2>1. \A m : InQueue(m)' <=> InQueue(m) \/ m = k
    BY <1>1, <1>9, <1>10 DEF InQueue
  <2> QED BY <1>1, <1>3, <2>1
<1>14. \A m \in 1 .. pushed' : Accounted(m)'
  BY <1>1, <1>4, <1>6, <1>13 DEF ChunksInv, Kept, Accounted
<1>15. Calm => /\ \A t \in S!Readable : Live(t) => ~Has(buffer[t], k)
               /\ ~Has(held, k) /\ ~Has(writing["mid"], k) /\ ~Has(arrived, k)
  <2>1. At("agenda", k)
    BY <1>4 DEF At
  <2> QED BY <2>1, OnlyThere DEF S!Readable
<1>16. Calm' => Once'
  BY <1>1, <1>6, <1>9, <1>11, <1>12, <1>15 DEF ChunksInv, Once
<1>17. ASSUME Calm', NEW m
       PROVE  (\A v : At(v, m)' => At(v, m)) \/ \E u : \A v : At(v, m)' => v = u
  <2>1. CASE m # k
    BY <1>1, <1>4, <1>6, <1>9, <1>11, <2>1 DEF At
  <2>2. CASE m = k
    <3>1. ~Carried(m)'
      BY <1>5, <1>6, <1>12, <1>17, <2>2 DEF ChunksInv, Once
    <3>2. \A v : At(v, m)' => v = w
      BY <1>1, <1>9, <1>11, <1>12, <1>15, <1>17, <2>2, <3>1 DEF At
    <3> QED BY <3>2
  <2> QED BY <2>1, <2>2
<1> QED BY <1>1, <1>6, <1>12, <1>13, <1>14, <1>16, <1>17, ChunksKept

(* A transform calls back: the chunk is kept, or pushed with those kept     *)
(* before; or the transform failed.                                         *)
LEMMA CallsBackStep ==
  ASSUME AgendaInv, ChunksInv, StreamTypes, NEW result, S!TransformCallsBack(result)
  PROVE  AgendaInv' /\ ChunksInv'
<1> DEFINE list == writing["mid"]
           rest == Tail(list)
           k == Head(list)
           all == Append(held, k)
<1>1. /\ agenda = <<>> /\ list # <<>> /\ writing' = [writing EXCEPT !["mid"] = rest]
      /\ UNCHANGED <<buffer, arrived, pushed, watched, resumes, taken>>
      /\ \/ dropped' = dropped \cup {k} /\ UNCHANGED <<held, agenda>>
         \/ held' = all /\ UNCHANGED <<agenda, dropped>>
         \/ /\ held' = <<>> /\ UNCHANGED dropped
            /\ agenda' = [i \in DOMAIN all |-> S!DoChunk("push", "mid", all[i])] \o agenda
  BY DEF S!TransformCallsBack, S!EmitReadable, S!scriptVars
<1>2. list \in Seq(Nat) /\ held \in Seq(Nat) /\ writing'["mid"] = rest /\ pushed \in Nat
  BY <1>1 DEF StreamTypes, S!Writable, AgendaInv
<1>3. /\ \A m : Has(rest, m) => Has(list, m)
      /\ \A m : Has(list, m) => m = k \/ Has(rest, m)
      /\ Has(list, k) /\ k \in Nat
  BY <1>1, <1>2, TailLosesHead
<1>4. OnceEach(list) => OnceEach(rest) /\ ~Has(rest, k)
  BY <1>1, <1>2, TailHas
<1>5. /\ all \in Seq(Nat)
      /\ \A m : Has(all, m) <=> Has(held, m) \/ m = k
      /\ OnceEach(held) /\ ~Has(held, k) => OnceEach(all)
  BY <1>2, <1>3, AppendHas
<1>6. (\A m : ~Carried(m)) /\ \A t : ~Ticking(t)
  <2>1. Len(agenda) = 0
    BY <1>1, EmptySeq
  <2> QED BY <2>1 DEF Carried, Ticking
<1>7. k \in 1 .. pushed
  <2>1. InQueue(k)
    BY <1>3 DEF InQueue
  <2> QED BY <2>1 DEF ChunksInv, Bounded
<1>8. At("writing", k)
  BY <1>3 DEF At
<1>9. Calm => /\ \A t \in S!Readable : Live(t) => ~Has(buffer[t], k)
              /\ ~Has(held, k) /\ ~Has(arrived, k)
  BY <1>8, OnlyThere DEF S!Readable
<1>10. Calm' <=> Calm
  BY <1>1, CalmStays
<1> HIDE DEF rest, k, all
<1>11. CASE dropped' = dropped \cup {k} /\ UNCHANGED <<held, agenda>>
  <2>1. /\ AgendaInv' /\ (CarriedOnce => CarriedOnce')
        /\ \A m : Carried(m)' <=> Carried(m)
        /\ \A t : Ticking(t)' <=> Ticking(t)
    BY <1>1, <1>11, AgendaRests
  <2>2. \A t \in S!Readable : Live(t)' <=> Live(t)
    BY <1>1, <2>1 DEF Live
  <2>3. /\ \A m : InQueue(m)' => InQueue(m)
        /\ \A m : InQueue(m) => InQueue(m)' \/ m = k
    BY <1>1, <1>2, <1>3, <1>11 DEF InQueue
  <2>4. \A m \in 1 .. pushed' : Accounted(m)'
    BY <1>1, <1>6, <1>11, <2>3 DEF ChunksInv, Kept, Accounted
  <2>5. Calm' => Once'
    BY <1>1, <1>2, <1>4, <1>10, <1>11, <2>1, <2>2 DEF ChunksInv, Once
  <2>6. \A m, v : At(v, m)' => At(v, m)
    BY <1>1, <1>2, <1>3, <1>11, <2>1, <2>2 DEF At
  <2> QED BY <1>1, <1>10, <2>1, <2>3, <2>4, <2>5, <2>6, ChunksKept
<1>12. CASE held' = all /\ UNCHANGED <<agenda, dropped>>
  <2>1. /\ AgendaInv' /\ (CarriedOnce => CarriedOnce')
        /\ \A m : Carried(m)' <=> Carried(m)
        /\ \A t : Ticking(t)' <=> Ticking(t)
    BY <1>1, <1>12, AgendaRests
  <2>2. \A t \in S!Readable : Live(t)' <=> Live(t)
    BY <1>1, <2>1 DEF Live
  <2>3. \A m : InQueue(m)' <=> InQueue(m)
    BY <1>1, <1>2, <1>3, <1>5, <1>12 DEF InQueue
  <2>4. \A m \in 1 .. pushed' : Accounted(m)'
    BY <1>1, <1>6, <1>12, <2>3 DEF ChunksInv, Kept, Accounted
  <2>5. Calm' => Once'
    BY <1>1, <1>2, <1>4, <1>5, <1>9, <1>10, <1>12, <2>1, <2>2 DEF ChunksInv, Once
  <2>6. ASSUME Calm', NEW m
        PROVE  (\A v : At(v, m)' => At(v, m)) \/ \E u : \A v : At(v, m)' => v = u
    <3>1. CASE m # k
      BY <1>1, <1>2, <1>3, <1>5, <1>12, <2>1, <2>2, <3>1 DEF At
    <3>2. CASE m = k
      <4>1. ~Has(rest, m) /\ ~Carried(m)'
        BY <1>4, <1>6, <1>10, <2>1, <2>6, <3>2 DEF ChunksInv, Once
      <4>2. \A v : At(v, m)' => v = "held"
        BY <1>1, <1>2, <1>9, <1>10, <2>2, <2>6, <3>2, <4>1 DEF At
      <4> QED BY <4>2
    <3> QED BY <3>1, <3>2
  <2> QED BY <1>1, <1>10, <2>1, <2>3, <2>4, <2>5, <2>6, ChunksKept
<1>13. CASE /\ held' = <<>> /\ UNCHANGED dropped
            /\ agenda' = [i \in DOMAIN all |-> S!DoChunk("push", "mid", all[i])] \o agenda
  <2>0. \A m : Has(all, m) => m \in 1 .. pushed
    <3>1. \A m : Has(held, m) => InQueue(m)
      BY DEF InQueue
    <3> QED BY <1>5, <1>7, <3>1 DEF ChunksInv, Bounded
  <2>1. /\ AgendaInv'
        /\ \A m : Carried(m)' <=> Has(held, m) \/ m = k
        /\ \A t : ~Ticking(t)'
        /\ OnceEach(all) => CarriedOnce'
    <3>1. /\ AgendaInv'
          /\ \A m : Carried(m)' <=> Has(all, m)
          /\ \A t : ~Ticking(t)'
          /\ OnceEach(all) => CarriedOnce'
      BY <1>1, <1>5, <1>13, <2>0, KeptArePushed
    <3> QED BY <1>5, <3>1
  <2>2. \A t \in S!Readable : Live(t)' <=> Live(t)
    BY <1>1, <1>6, <2>1 DEF Live
  <2>3. (\A m : ~Has(held', m)) /\ OnceEach(held')
    BY <1>13, EmptyHasNone
  <2>4. /\ \A m : InQueue(m)' => InQueue(m)
        /\ \A m : InQueue(m) => InQueue(m)' \/ Has(held, m) \/ m = k
    BY <1>1, <1>2, <1>3, <2>3 DEF InQueue
  <2>5. \A m \in 1 .. pushed' : Accounted(m)'
    BY <1>1, <1>6, <1>13, <2>1, <2>4 DEF ChunksInv, Kept, Accounted
  <2>6. Calm' => Once'
    BY <1>1, <1>2, <1>4, <1>5, <1>9, <1>10, <2>1, <2>2, <2>3 DEF ChunksInv, Once
  <2>7. ASSUME Calm', NEW m
        PROVE  (\A v : At(v, m)' => At(v, m)) \/ \E u : \A v : At(v, m)' => v = u
    <3>1. CASE m # k /\ ~Has(held, m)
      BY <1>1, <1>2, <1>3, <2>1, <2>2, <2>3, <3>1 DEF At
    <3>2. CASE m = k
      <4>1. ~Has(rest, m)
        BY <1>4, <1>10, <2>7, <3>2 DEF ChunksInv, Once
      <4>2. \A v : At(v, m)' => v = "agenda"
        BY <1>1, <1>2, <1>9, <1>10, <2>2, <2>3, <2>7, <3>2, <4>1 DEF At
      <4> QED BY <4>2
    <3>3. CASE Has(held, m)
      <4>1. At("held", m)
        BY <3>3 DEF At
      <4>2. /\ \A t \in S!Readable : Live(t) => ~Has(buffer[t], m)
            /\ ~Has(list, m) /\ ~Has(arrived, m)
        BY <1>10, <2>7, <4>1, OnlyThere DEF S!Readable
      <4>3. \A v : At(v, m)' => v = "agenda"
        BY <1>1, <1>2, <1>3, <2>2, <2>3, <4>2 DEF At
      <4> QED BY <4>3
    <3> QED BY <3>1, <3>2, <3>3
  <2> QED BY <1>1, <1>10, <2>1, <2>4, <2>5, <2>6, <2>7, ChunksKept
<1> QED BY <1>1, <1>11, <1>12, <1>13

(* All of it, step by step.                                                 *)
StreamsInv == AgendaInv /\ CountsInv /\ ChunksInv

LEMMA StreamsStart == S!Init => StreamsInv
BY CountsStart, ChunksStart DEF StreamsInv

LEMMA StreamsStep == StreamsInv /\ [S!Next]_(S!vars) => StreamsInv'
<1> SUFFICES ASSUME StreamsInv, [S!Next]_(S!vars) PROVE StreamsInv'
  OBVIOUS
<1>1. CountsInv'
  BY CountsStep DEF StreamsInv
<1>2. AgendaInv /\ ChunksInv /\ StreamTypes /\ StreamTypes' /\ FlowsResumed
  BY <1>1 DEF StreamsInv, CountsInv
<1>3. AgendaInv' /\ ChunksInv'
  <2>1. CASE UNCHANGED S!vars
    <3>1. UNCHANGED agenda /\ Still
      BY <2>1 DEF S!vars, S!readVars, S!writeVars, S!scriptVars, S!history, Still
    <3>2. /\ AgendaInv' /\ (CarriedOnce => CarriedOnce')
          /\ \A m : Carried(m)' <=> Carried(m)
          /\ \A t : Ticking(t)' <=> Ticking(t)
      BY <1>2, <3>1, AgendaRests DEF Still
    <3> QED BY <1>2, <3>1, <3>2, StillChunks
  <2>2. CASE S!Push
    BY <1>2, <2>2, PushStep
  <2>3. CASE S!Control \/ S!Pipeline
    BY <1>2, <2>3, ControlStep
  <2>4. CASE S!IteratorNext
    BY <1>2, <2>4, IteratorNextStep
  <2>5. ASSUME NEW s \in S!Readable, S!PushNull(s) PROVE AgendaInv' /\ ChunksInv'
    BY <1>2, <2>5, ControlStep
  <2>6. ASSUME NEW s \in S!Readable, S!Read(s) PROVE AgendaInv' /\ ChunksInv'
    BY <1>2, <2>6, ReadStep
  <2>7. CASE S!ListenerReturns \/ S!ListenerThrows
    BY <1>2, <2>7, ListenerStep
  <2>8. CASE S!DoPush
    BY <1>2, <2>8, DoPushStep
  <2>9. CASE S!DoPause
    BY <1>2, <2>9, PauseStep
  <2>10. CASE S!DoResume
    BY <1>2, <2>10, ResumeStep
  <2>11. CASE S!DoTick
    BY <1>2, <2>11, TickStep
  <2>12. CASE S!DoDestroy
    BY <1>2, <2>12, DestroyStep
  <2>13. CASE S!DoEnd
    BY <1>2, <2>13, EndStep
  <2>14. CASE S!DoEmit
    BY <1>2, <2>14, EmitStep
  <2>15. CASE S!DoData
    BY <1>2, <2>15, DataStep
  <2>16. CASE S!WriteLater \/ S!WriteAtOnce
    BY <1>2, <2>16, WriteStep
  <2>17. CASE S!WriteThrows
    BY <1>2, <2>17, WriteThrowsStep
  <2>18. CASE S!TransformPushes
    BY <1>2, <2>18, TransformPushesStep
  <2>19. CASE S!WriteCallsBack
    BY <1>2, <2>19, WriteCallsBackStep
  <2>20. ASSUME NEW result \in {"ok", "error"}, S!TransformCallsBack(result)
         PROVE  AgendaInv' /\ ChunksInv'
    BY <1>2, <2>20, CallsBackStep
  <2> QED BY <2>1, <2>2, <2>3, <2>4, <2>5, <2>6, <2>7, <2>8, <2>9, <2>10, <2>11, <2>12, <2>13,
             <2>14, <2>15, <2>16, <2>17, <2>18, <2>19, <2>20 DEF S!Next
<1> QED BY <1>1, <1>3 DEF StreamsInv

(* What the invariant says of the chunks.                                   *)
LEMMA StreamsFit ==
  StreamsInv => S!NothingVanishes /\ S!LengthsAgree /\ S!ClosesOnce /\ S!ArrivesOnce
<1> SUFFICES ASSUME StreamsInv
             PROVE  S!NothingVanishes /\ S!LengthsAgree /\ S!ClosesOnce /\ S!ArrivesOnce
  OBVIOUS
<1>1. AgendaInv /\ CountsInv /\ ChunksInv
  BY DEF StreamsInv
<1>2. \A list \in Seq(Nat) : \A m : Has(list, m) => m \in S!ToSet(list)
  <2> SUFFICES ASSUME NEW list \in Seq(Nat), NEW m, Has(list, m) PROVE m \in S!ToSet(list)
    OBVIOUS
  <2>1. DOMAIN list = 1 .. Len(list)
    BY LenProperties
  <2> QED BY <2>1 DEF Has, S!ToSet
<1>3. \A m : Carried(m) => m \in S!OnItsWay
  <2> SUFFICES ASSUME NEW i \in 1 .. Len(agenda), Carrier(agenda[i])
               PROVE  agenda[i].chunk \in S!OnItsWay
    BY DEF Carried
  <2>1. DOMAIN agenda = 1 .. Len(agenda)
    BY <1>1, LenProperties DEF AgendaInv, ItemsFit
  <2>2. agenda[i].do # "destroy"
    BY DEF Carrier
  <2> QED BY <2>1, <2>2 DEF S!OnItsWay
<1>4. S!NothingVanishes
  <2> SUFFICES ASSUME NEW m \in 1 .. pushed
               PROVE  m \in S!ToSet(buffer["src"]) \cup S!ToSet(buffer["mid"]) \cup S!ToSet(held)
                            \cup S!ToSet(writing["mid"]) \cup S!ToSet(arrived) \cup S!OnItsWay
                            \cup taken \cup dropped
    BY DEF S!NothingVanishes
  <2>1. /\ buffer["src"] \in Seq(Nat) /\ buffer["mid"] \in Seq(Nat) /\ held \in Seq(Nat)
        /\ writing["mid"] \in Seq(Nat) /\ arrived \in Seq(Nat)
    BY <1>1 DEF CountsInv, StreamTypes, S!Readable, S!Writable
  <2>2. \/ Has(buffer["src"], m) \/ Has(buffer["mid"], m) \/ Has(held, m)
        \/ Has(writing["mid"], m) \/ Has(arrived, m) \/ Carried(m) \/ m \in taken \/ m \in dropped
    BY <1>1 DEF ChunksInv, Kept, Accounted, InQueue, S!Readable
  <2> QED BY <1>2, <1>3, <2>1, <2>2
<1>5. S!ArrivesOnce
  <2> SUFFICES ASSUME Calm PROVE S!IsInjective(arrived)
    BY DEF S!ArrivesOnce, Calm
  <2>1. DOMAIN arrived = 1 .. Len(arrived)
    BY <1>1, LenProperties DEF CountsInv, StreamTypes
  <2>2. OnceEach(arrived)
    BY <1>1 DEF ChunksInv, Once
  <2> QED BY <2>1, <2>2 DEF OnceEach, S!IsInjective
<1> QED BY <1>1, <1>4, <1>5, ClosedOnceEach

-----------------------------------------------------------------------------
(* Side by side: the library that moves keeps its invariant, the others    *)
(* rest in theirs.                                                         *)
LibrariesInv ==
  /\ library \in Libraries
  /\ CommonJsInv
  /\ StreamsInv
  /\ EmitterInv /\ IteratorInv
  /\ TimersInv

LEMMA LibrariesStart == ASSUME ScriptInit PROVE LibrariesInv
<1>1. library \in Libraries /\ Init /\ S!Init /\ E!Init /\ T!Init
  BY DEF ScriptInit
<1> QED BY <1>1, CommonJsStarts, StreamsStart, EmitterStarts, IteratorStarts, TimersStart
        DEF LibrariesInv

LEMMA LibrariesStep ==
  ASSUME LibrariesInv, [ScriptNext]_libraryVars
  PROVE  LibrariesInv'
<1> USE DEF LibrariesInv
<1>1. library' = library
  BY DEF ScriptNext, libraryVars
<1>2. [Next]_vars
  BY DEF ScriptNext, libraryVars
<1>3. [S!Next]_(S!vars)
  BY DEF ScriptNext, libraryVars, streamVars, S!vars, S!readVars, S!writeVars, S!scriptVars, S!history
<1>4. [E!Next]_(E!vars)
  BY DEF ScriptNext, libraryVars, eventVars, E!vars
<1>5. [T!Next]_(T!vars)
  BY DEF ScriptNext, libraryVars, timerVars, T!vars
<1> QED BY <1>1, <1>2, <1>3, <1>4, <1>5, CommonJsStep, StreamsStep, EmitterStep, IteratorStep,
           TimersStep

(* LibrariesInv is an invariant of the libraries side by side. *)
THEOREM LibrariesInductive == ScriptSpec => []LibrariesInv
<1>1. ScriptInit => LibrariesInv
  BY LibrariesStart
<1>2. LibrariesInv /\ [ScriptNext]_libraryVars => LibrariesInv'
  BY LibrariesStep
<1> QED BY <1>1, <1>2, PTL DEF ScriptSpec

(* Whatever is piped, paused, pushed, read or destroyed in whatever order, *)
(* a chunk is in one place, the lengths agree and a stream closes once.    *)
THEOREM ChunksAreKept == ScriptSpec => []StreamsKeepTheirChunks
<1>1. LibrariesInv => StreamsKeepTheirChunks
  BY StreamsFit DEF LibrariesInv, StreamsKeepTheirChunks
<1> QED BY <1>1, LibrariesInductive, PTL

(* The iterator of on() answers in order, a listener of once() runs once,  *)
(* and a timer that was cleared never fires.                               *)
THEOREM EventsAndTimersHold == ScriptSpec => []EventsAndTimersAnswer
<1>1. LibrariesInv => EventsAndTimersAnswer
  BY RunsAtMostOnce, IteratorAnswers, SilentWhenCleared
     DEF LibrariesInv, EventsAndTimersAnswer, TimersInv
<1> QED BY <1>1, LibrariesInductive, PTL
=============================================================================
