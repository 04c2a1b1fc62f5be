---------------------------- MODULE ApiGuardProofs ----------------------------
(***************************************************************************)
(* The safety of the API guard, for any threads, addresses and number of   *)
(* instances.  The state is a registry, a heap and one stack per thread;   *)
(* the proofs first state what pushing, popping and re-labelling the top   *)
(* frame do to a stack, then show that each action keeps IInv.             *)
(***************************************************************************)
EXTENDS ApiGuard, SequenceTheorems, TLAPS

(* A pushed frame is the new last one, the others keep their places. *)
LEMMA PushFacts ==
  ASSUME TypeOK, NEW t \in Thread, NEW f \in Frame, Push(t, f)
  PROVE  /\ stack' \in [Thread -> Seq(Frame)]
         /\ Len(stack'[t]) = Len(stack[t]) + 1
         /\ stack'[t][Len(stack[t]) + 1] = f
         /\ \A i \in 1 .. Len(stack[t]) : stack'[t][i] = stack[t][i]
         /\ \A u \in Thread : u # t => stack'[u] = stack[u]
<1>1. stack \in [Thread -> Seq(Frame)] /\ stack[t] \in Seq(Frame)
  BY DEF TypeOK
<1>2. stack'[t] = Append(stack[t], f) /\ \A u \in Thread : u # t => stack'[u] = stack[u]
  BY <1>1 DEF Push
<1>3. Append(stack[t], f) \in Seq(Frame)
  BY <1>1
<1>4. stack' \in [Thread -> Seq(Frame)]
  BY <1>1, <1>3 DEF Push
<1>. QED
  BY <1>1, <1>2, <1>4

(* What is left of a sequence without its last element. *)
LEMMA FrontFacts ==
  ASSUME NEW S, NEW s \in Seq(S), s # <<>>
  PROVE  /\ SubSeq(s, 1, Len(s) - 1) \in Seq(S)
         /\ Len(SubSeq(s, 1, Len(s) - 1)) = Len(s) - 1
         /\ \A i \in 1 .. Len(s) - 1 : SubSeq(s, 1, Len(s) - 1)[i] = s[i]
<1>1. PICK n \in Nat : n = Len(s) - 1
  OBVIOUS
<1>2. \A i \in 1 .. n : s[i] \in S
  BY <1>1
<1>3. /\ SubSeq(s, 1, n) \in Seq(S)
      /\ Len(SubSeq(s, 1, n)) = IF 1 <= n THEN n - 1 + 1 ELSE 0
      /\ \A i \in 1 .. n - 1 + 1 : SubSeq(s, 1, n)[i] = s[1 + i - 1]
  BY <1>2, SubSeqProperties
<1>. QED
  BY <1>1, <1>3

(* Popping removes the last frame only. *)
LEMMA PopFacts ==
  ASSUME TypeOK, NEW t \in Thread, stack[t] # <<>>, Pop(t)
  PROVE  /\ stack' \in [Thread -> Seq(Frame)]
         /\ Len(stack'[t]) = Len(stack[t]) - 1
         /\ \A i \in 1 .. Len(stack[t]) - 1 : stack'[t][i] = stack[t][i]
         /\ \A u \in Thread : u # t => stack'[u] = stack[u]
<1>1. stack \in [Thread -> Seq(Frame)] /\ stack[t] \in Seq(Frame)
  BY DEF TypeOK
<1>2. stack'[t] = SubSeq(stack[t], 1, Len(stack[t]) - 1)
      /\ \A u \in Thread : u # t => stack'[u] = stack[u]
  BY <1>1 DEF Pop
<1>3. /\ stack'[t] \in Seq(Frame)
      /\ Len(stack'[t]) = Len(stack[t]) - 1
      /\ \A i \in 1 .. Len(stack[t]) - 1 : stack'[t][i] = stack[t][i]
  BY <1>1, <1>2, FrontFacts
<1>4. stack' \in [Thread -> Seq(Frame)]
  BY <1>1, <1>2, <1>3 DEF Pop
<1>. QED
  BY <1>2, <1>3, <1>4

(* Changing the phase of the top frame changes nothing else. *)
LEMMA PhaseFacts ==
  ASSUME TypeOK, NEW t \in Thread, stack[t] # <<>>, NEW p \in Phase,
         stack' = [stack EXCEPT ![t][Len(stack[t])].phase = p]
  PROVE  /\ stack' \in [Thread -> Seq(Frame)]
         /\ Len(stack'[t]) = Len(stack[t])
         /\ \A i \in 1 .. Len(stack[t]) - 1 : stack'[t][i] = stack[t][i]
         /\ stack'[t][Len(stack[t])] = [stack[t][Len(stack[t])] EXCEPT !.phase = p]
         /\ \A u \in Thread : u # t => stack'[u] = stack[u]
<1>1. stack \in [Thread -> Seq(Frame)] /\ stack[t] \in Seq(Frame)
  BY DEF TypeOK
<1>2. Len(stack[t]) \in Nat \ {0} /\ stack[t][Len(stack[t])] \in Frame
  BY <1>1
<1> DEFINE f == [stack[t][Len(stack[t])] EXCEPT !.phase = p]
           s == [stack[t] EXCEPT ![Len(stack[t])] = f]
<1>3. f \in Frame
  BY <1>2 DEF Frame
<1>4. s \in Seq(Frame) /\ Len(s) = Len(stack[t]) /\ s[Len(stack[t])] = f
      /\ \A i \in 1 .. Len(stack[t]) - 1 : s[i] = stack[t][i]
  BY <1>1, <1>2, <1>3
<1>5. stack' = [stack EXCEPT ![t] = s]
  OBVIOUS
<1>. QED
  BY <1>1, <1>4, <1>5

-----------------------------------------------------------------------------
(* The same three facts, said of the frames that hold an instance. *)

LEMMA PushUsing ==
  ASSUME TypeOK, NEW t \in Thread, NEW f \in Frame, f.phase # "freed", Push(t, f),
         NEW n, n = Len(stack[t]) + 1
  PROVE  /\ stack' \in [Thread -> Seq(Frame)]
         /\ n \notin Using(t)
         /\ Using(t)' = Using(t) \cup {n}
         /\ At(t, n)' = f
         /\ \A u \in Thread : u # t => Using(u)' = Using(u)
         /\ \A u \in Thread : \A i \in Using(u) : At(u, i)' = At(u, i)
<1>1. /\ stack' \in [Thread -> Seq(Frame)]
      /\ Len(stack'[t]) = n
      /\ stack'[t][n] = f
      /\ \A i \in 1 .. Len(stack[t]) : stack'[t][i] = stack[t][i]
      /\ \A u \in Thread : u # t => stack'[u] = stack[u]
  BY PushFacts
<1>2. Len(stack[t]) \in Nat
  BY DEF TypeOK
<1>3. n \notin Using(t)
  BY <1>2 DEF Using
<1>4. Using(t)' = Using(t) \cup {n}
  <2>1. \A i : i \in 1 .. n <=> i \in 1 .. Len(stack[t]) \/ i = n
    BY <1>2
  <2>. QED
    BY <1>1, <2>1 DEF Using
<1>5. \A u \in Thread : u # t => Using(u)' = Using(u)
  BY <1>1 DEF Using
<1>6. \A u \in Thread : \A i \in Using(u) : At(u, i)' = At(u, i)
  BY <1>1 DEF Using, At
<1>. QED
  BY <1>1, <1>3, <1>4, <1>5, <1>6 DEF At

LEMMA PopUsing ==
  ASSUME TypeOK, NEW t \in Thread, stack[t] # <<>>, Pop(t),
         NEW n, n = Len(stack[t])
  PROVE  /\ stack' \in [Thread -> Seq(Frame)]
         /\ Using(t)' = Using(t) \ {n}
         /\ \A u \in Thread : u # t => Using(u)' = Using(u)
         /\ \A u \in Thread : \A i \in Using(u)' : At(u, i)' = At(u, i)
<1>1. /\ stack' \in [Thread -> Seq(Frame)]
      /\ Len(stack'[t]) = n - 1
      /\ \A i \in 1 .. n - 1 : stack'[t][i] = stack[t][i]
      /\ \A u \in Thread : u # t => stack'[u] = stack[u]
  BY PopFacts
<1>2. n \in Nat
  BY DEF TypeOK
<1>3. Using(t)' = Using(t) \ {n}
  <2>1. \A i : i \in 1 .. n - 1 <=> i \in 1 .. n /\ i # n
    BY <1>2
  <2>. QED
    BY <1>1, <2>1 DEF Using
<1>4. \A u \in Thread : u # t => Using(u)' = Using(u)
  BY <1>1 DEF Using
<1>5. \A u \in Thread : \A i \in Using(u)' : At(u, i)' = At(u, i)
  BY <1>1 DEF Using, At
<1>. QED
  BY <1>1, <1>3, <1>4, <1>5

LEMMA PhaseUsing ==
  ASSUME TypeOK, NEW t \in Thread, stack[t] # <<>>, NEW p \in Phase,
         stack' = [stack EXCEPT ![t][Len(stack[t])].phase = p],
         NEW n, n = Len(stack[t]), n \in Using(t)
  PROVE  /\ stack' \in [Thread -> Seq(Frame)]
         /\ Using(t)' = IF p = "freed" THEN Using(t) \ {n} ELSE Using(t)
         /\ At(t, n)' = [At(t, n) EXCEPT !.phase = p]
         /\ \A i \in Using(t) \ {n} : At(t, i)' = At(t, i)
         /\ \A u \in Thread : u # t => Using(u)' = Using(u)
         /\ \A u \in Thread : u # t => \A i \in Using(u) : At(u, i)' = At(u, i)
<1>1. /\ stack' \in [Thread -> Seq(Frame)]
      /\ Len(stack'[t]) = n
      /\ \A i \in 1 .. n - 1 : stack'[t][i] = stack[t][i]
      /\ stack'[t][n] = [stack[t][n] EXCEPT !.phase = p]
      /\ \A u \in Thread : u # t => stack'[u] = stack[u]
  BY PhaseFacts
<1>2. n \in Nat \ {0} /\ stack[t] \in Seq(Frame) /\ stack[t][n] \in Frame
  BY DEF TypeOK
<1>3. stack'[t][n].phase = p
  BY <1>1, <1>2 DEF Frame
<1>4. \A i : i \in 1 .. n <=> i \in 1 .. n - 1 \/ i = n
  BY <1>2
<1>5. Using(t)' = IF p = "freed" THEN Using(t) \ {n} ELSE Using(t)
  BY <1>1, <1>3, <1>4 DEF Using
<1>6. \A u \in Thread : u # t => Using(u)' = Using(u)
  BY <1>1 DEF Using
<1>7. \A i \in Using(t) \ {n} : At(t, i)' = At(t, i)
  BY <1>1, <1>4 DEF Using, At
<1>8. \A u \in Thread : u # t => \A i \in Using(u) : At(u, i)' = At(u, i)
  BY <1>1 DEF At
<1>. QED
  BY <1>1, <1>5, <1>6, <1>7, <1>8 DEF At

-----------------------------------------------------------------------------
(* The inductive invariant *)

LEMMA InitIInv == Init => IInv
<1>. SUFFICES ASSUME Init PROVE IInv
  OBVIOUS
<1>1. TypeOK
  BY DEF Init, TypeOK, Answer
<1>2. \A t \in Thread : Using(t) = {}
  <2>1. \A t \in Thread : stack[t] = <<>>
    BY DEF Init
  <2>2. 1 .. Len(<<>>) = {}
    OBVIOUS
  <2>. QED
    BY <2>1, <2>2 DEF Using
<1>. QED
  BY <1>1, <1>2 DEF Init, IInv, NoAliasing, FramesAgree, RegistryAgrees, LiveIsRegistered

LEMMA AtFrame ==
  ASSUME TypeOK, NEW t \in Thread, NEW i \in Using(t)
  PROVE  At(t, i) \in Frame
BY DEF TypeOK, Using, At

(* Allocation: the new frame is alone at its address, which was free. *)
LEMMA AllocateIInv ==
  ASSUME IInv, NEW t \in Thread, NEW a \in Addr, Allocate(t, a)
  PROVE  IInv'
<1>0. PICK f : f = [addr |-> a, gen |-> generation[a] + 1, phase |-> "creating"]
  OBVIOUS
<1>1. TypeOK /\ f \in Frame /\ f.phase # "freed" /\ Push(t, f)
  BY <1>0 DEF IInv, TypeOK, Frame, Phase, Allocate
<1>2. PICK n : n = Len(stack[t]) + 1
  OBVIOUS
<1>3. /\ stack' \in [Thread -> Seq(Frame)]
      /\ n \notin Using(t)
      /\ Using(t)' = Using(t) \cup {n}
      /\ At(t, n)' = f
      /\ \A u \in Thread : u # t => Using(u)' = Using(u)
      /\ \A u \in Thread : \A i \in Using(u) : At(u, i)' = At(u, i)
  BY <1>1, <1>2, PushUsing
<1>4. \A u \in Thread : \A i \in Using(u) : At(u, i).addr # a
  BY DEF Allocate, IInv, FramesAgree, FrameAgrees
<1>5. a \notin registered
  BY DEF Allocate, IInv, RegistryAgrees, EntryAgrees
<1>6. TypeOK'
  BY <1>1, <1>3 DEF Allocate, TypeOK, registryVars
<1>7. NoAliasing'
  BY <1>0, <1>3, <1>4 DEF NoAliasing, IInv
<1>8. FramesAgree'
  <2>1. \A u \in Thread, g \in Frame : g.addr # a /\ FrameAgrees(u, g) => FrameAgrees(u, g)'
    BY <1>1 DEF FrameAgrees, Allocate, registryVars, TypeOK, Frame
  <2>2. FrameAgrees(t, f)'
    BY <1>0, <1>1, <1>5 DEF FrameAgrees, Allocate, registryVars, TypeOK, Guarded
  <2>. QED
    BY <1>1, <1>3, <1>4, <2>1, <2>2, AtFrame DEF FramesAgree, IInv
<1>9. RegistryAgrees'
  <2>1. \A u \in Thread, b \in Addr : Inside(u, b) => Inside(u, b)'
    BY <1>3 DEF Inside
  <2>. QED
    BY <1>1, <1>5, <2>1 DEF RegistryAgrees, EntryAgrees, IInv, Allocate, registryVars, TypeOK
<1>10. LiveIsRegistered'
  <2>1. \A u \in Thread, b \in Addr : Moving(u, b) => Moving(u, b)'
    BY <1>3 DEF Moving
  <2>2. Moving(t, a)'
    BY <1>0, <1>3 DEF Moving, Guarded
  <2>. QED
    BY <1>1, <2>1, <2>2 DEF LiveIsRegistered, InTransit, IInv, Allocate, registryVars, TypeOK
<1>. QED
  BY <1>6, <1>7, <1>8, <1>9, <1>10 DEF IInv

(* Registration: the frame "creating" was the only one at its address. *)
LEMMA RegisterIInv ==
  ASSUME IInv, NEW t \in Thread, NEW a \in Addr, Register(t, a)
  PROVE  IInv'
<1>1. TypeOK /\ stack[t] # <<>> /\ Pop(t)
  BY DEF IInv, Register, Doing
<1>2. PICK n : n = Len(stack[t])
  OBVIOUS
<1>3. n \in Using(t) /\ At(t, n).addr = a /\ At(t, n).phase = "creating"
  BY <1>1, <1>2 DEF Register, Doing, Top, Using, At, TypeOK
<1>4. /\ stack' \in [Thread -> Seq(Frame)]
      /\ Using(t)' = Using(t) \ {n}
      /\ \A u \in Thread : u # t => Using(u)' = Using(u)
      /\ \A u \in Thread : \A i \in Using(u)' : At(u, i)' = At(u, i)
  BY <1>1, <1>2, PopUsing
<1>5. \A u \in Thread : \A i \in Using(u)' : i \in Using(u) /\ At(u, i).addr # a
  BY <1>3, <1>4 DEF IInv, NoAliasing
<1>6. a \in allocated /\ creator[a] = t /\ a \notin registered
  BY <1>3 DEF IInv, FramesAgree, FrameAgrees, Guarded
<1>7. TypeOK'
  BY <1>1, <1>4 DEF Register, TypeOK, heapVars
<1>8. NoAliasing'
  BY <1>4, <1>5 DEF NoAliasing, IInv
<1>9. FramesAgree'
  <2>1. \A u \in Thread, g \in Frame : g.addr # a /\ FrameAgrees(u, g) => FrameAgrees(u, g)'
    BY <1>1 DEF FrameAgrees, Register, heapVars, TypeOK, Frame
  <2>. QED
    BY <1>1, <1>4, <1>5, <2>1, AtFrame DEF FramesAgree, IInv
<1>10. \A u \in Thread, b \in Addr :
         b # a => (Inside(u, b) => Inside(u, b)') /\ (Moving(u, b) => Moving(u, b)')
  BY <1>3, <1>4 DEF Inside, Moving
<1>11. RegistryAgrees'
  <2>1. EntryAgrees(a)'
    BY <1>1, <1>6 DEF EntryAgrees, Register, heapVars, TypeOK
  <2>2. \A b \in registered : EntryAgrees(b)'
    BY <1>1, <1>6, <1>10 DEF EntryAgrees, RegistryAgrees, IInv, Register, heapVars, TypeOK
  <2>. QED
    BY <2>1, <2>2 DEF RegistryAgrees, Register
<1>12. LiveIsRegistered'
  BY <1>1, <1>6, <1>10 DEF LiveIsRegistered, InTransit, IInv, Register, heapVars, TypeOK
<1>. QED
  BY <1>7, <1>8, <1>9, <1>11, <1>12 DEF IInv

(* Entry: the flag was down, so no frame was at the address. *)
LEMMA EnterIInv ==
  ASSUME IInv, NEW t \in Thread, NEW a \in Addr, NEW phase \in Guarded,
         Enter(t, a, phase)
  PROVE  IInv'
<1>0. PICK f : f = NewFrame(a, phase)
  OBVIOUS
<1>1. TypeOK /\ f \in Frame /\ f.addr = a /\ f.phase # "freed" /\ Push(t, f)
  BY <1>0 DEF IInv, TypeOK, Frame, Phase, Enter, NewFrame, Guarded
<1>2. PICK n : n = Len(stack[t]) + 1
  OBVIOUS
<1>3. /\ stack' \in [Thread -> Seq(Frame)]
      /\ n \notin Using(t)
      /\ Using(t)' = Using(t) \cup {n}
      /\ At(t, n)' = f
      /\ \A u \in Thread : u # t => Using(u)' = Using(u)
      /\ \A u \in Thread : \A i \in Using(u) : At(u, i)' = At(u, i)
  BY <1>1, <1>2, PushUsing
<1>4. a \in registered /\ owner[a] = t /\ ~busy[a]
  BY DEF Enter, EnterResult
<1>5. \A u \in Thread : \A i \in Using(u) : At(u, i).addr # a
  BY <1>4 DEF IInv, FramesAgree, FrameAgrees
<1>6. a \in allocated /\ creator[a] = t
  BY <1>4 DEF IInv, RegistryAgrees, EntryAgrees
<1>7. TypeOK'
  BY <1>1, <1>3 DEF Enter, TypeOK, heapVars, Answer
<1>8. NoAliasing'
  BY <1>1, <1>3, <1>5 DEF NoAliasing, IInv
<1>9. FramesAgree'
  <2>1. \A u \in Thread, g \in Frame : g.addr # a /\ FrameAgrees(u, g) => FrameAgrees(u, g)'
    BY <1>1 DEF FrameAgrees, Enter, heapVars, TypeOK, Frame
  <2>2. FrameAgrees(t, f)'
    BY <1>0, <1>1, <1>4, <1>6 DEF FrameAgrees, Enter, heapVars, TypeOK, NewFrame
  <2>. QED
    BY <1>1, <1>3, <1>5, <2>1, <2>2, AtFrame DEF FramesAgree, IInv
<1>10. \A u \in Thread, b \in Addr :
         (Inside(u, b) => Inside(u, b)') /\ (Moving(u, b) => Moving(u, b)')
  BY <1>3 DEF Inside, Moving
<1>11. RegistryAgrees'
  <2>1. Inside(t, a)'
    BY <1>0, <1>3 DEF Inside, NewFrame
  <2>. QED
    BY <1>1, <1>10, <2>1 DEF RegistryAgrees, EntryAgrees, IInv, Enter, heapVars, TypeOK
<1>12. LiveIsRegistered'
  BY <1>1, <1>10 DEF LiveIsRegistered, InTransit, IInv, Enter, heapVars, TypeOK
<1>. QED
  BY <1>7, <1>8, <1>9, <1>11, <1>12 DEF IInv

LEMMA RejectIInv ==
  ASSUME IInv, NEW t \in Thread, NEW a \in Addr, Reject(t, a)
  PROVE  IInv'
<1>1. TypeOK'
  BY DEF IInv, Reject, TypeOK, registryVars, heapVars, Answer, EnterResult
<1>2. UNCHANGED <<registered, owner, busy, allocated, creator, generation, stack>>
  BY DEF Reject, registryVars, heapVars
<1>3. /\ NoAliasing'
      /\ FramesAgree'
      /\ RegistryAgrees'
      /\ LiveIsRegistered'
  BY <1>2 DEF IInv, NoAliasing, FramesAgree, FrameAgrees, RegistryAgrees, EntryAgrees,
              LiveIsRegistered, InTransit, Inside, Moving, Using, At
<1>. QED
  BY <1>1, <1>3 DEF IInv

(* Return: the popped frame was the only one at the address, which is      *)
(* registered, so the flag goes down exactly when the last frame leaves.   *)
LEMMA ReturnIInv ==
  ASSUME IInv, NEW t \in Thread, NEW a \in Addr, Return(t, a)
  PROVE  IInv'
<1>1. TypeOK /\ stack[t] # <<>> /\ Pop(t)
  BY DEF IInv, Return, Doing
<1>2. PICK n : n = Len(stack[t])
  OBVIOUS
<1>3. n \in Using(t) /\ At(t, n).addr = a /\ At(t, n).phase = "running"
  BY <1>1, <1>2 DEF Return, Doing, Top, Using, At, TypeOK
<1>4. /\ stack' \in [Thread -> Seq(Frame)]
      /\ Using(t)' = Using(t) \ {n}
      /\ \A u \in Thread : u # t => Using(u)' = Using(u)
      /\ \A u \in Thread : \A i \in Using(u)' : At(u, i)' = At(u, i)
  BY <1>1, <1>2, PopUsing
<1>5. \A u \in Thread : \A i \in Using(u)' : i \in Using(u) /\ At(u, i).addr # a
  BY <1>3, <1>4 DEF IInv, NoAliasing
<1>6. a \in registered
  BY <1>3 DEF IInv, FramesAgree, FrameAgrees, Guarded
<1>7. busy' = [busy EXCEPT ![a] = FALSE]
  BY <1>6 DEF Return, DropGuard
<1>8. TypeOK'
  BY <1>1, <1>4, <1>7 DEF Return, TypeOK, heapVars
<1>9. NoAliasing'
  BY <1>4, <1>5 DEF NoAliasing, IInv
<1>10. FramesAgree'
  <2>1. \A u \in Thread, g \in Frame : g.addr # a /\ FrameAgrees(u, g) => FrameAgrees(u, g)'
    BY <1>1, <1>7 DEF FrameAgrees, Return, heapVars, TypeOK, Frame
  <2>. QED
    BY <1>1, <1>4, <1>5, <2>1, AtFrame DEF FramesAgree, IInv
<1>11. \A u \in Thread, b \in Addr :
         (b # a => (Inside(u, b) => Inside(u, b)')) /\ (Moving(u, b) => Moving(u, b)')
  BY <1>3, <1>4 DEF Inside, Moving, Guarded
<1>12. RegistryAgrees'
  BY <1>1, <1>7, <1>11 DEF EntryAgrees, RegistryAgrees, IInv, Return, heapVars, TypeOK
<1>13. LiveIsRegistered'
  BY <1>1, <1>11 DEF LiveIsRegistered, InTransit, IInv, Return, heapVars, TypeOK
<1>. QED
  BY <1>8, <1>9, <1>10, <1>12, <1>13 DEF IInv

(* koss_destroy leaves the registry: no other frame is at the address, so   *)
(* nothing that is still running loses its entry.                          *)
LEMMA UnregisterIInv ==
  ASSUME IInv, NEW t \in Thread, NEW a \in Addr, Unregister(t, a)
  PROVE  IInv'
<1>1. TypeOK /\ stack[t] # <<>> /\ "freeing" \in Phase
  BY DEF IInv, Unregister, Doing, Phase
<1>2. PICK n : n = Len(stack[t])
  OBVIOUS
<1>3. n \in Using(t) /\ At(t, n).addr = a /\ At(t, n).phase = "destroying"
  BY <1>1, <1>2 DEF Unregister, Doing, Top, Using, At, TypeOK
<1>4. stack' = [stack EXCEPT ![t][Len(stack[t])].phase = "freeing"]
  BY DEF Unregister
<1>5. /\ stack' \in [Thread -> Seq(Frame)]
      /\ Using(t)' = Using(t)
      /\ At(t, n)' = [At(t, n) EXCEPT !.phase = "freeing"]
      /\ \A i \in Using(t) \ {n} : At(t, i)' = At(t, i)
      /\ \A u \in Thread : u # t => Using(u)' = Using(u)
      /\ \A u \in Thread : u # t => \A i \in Using(u) : At(u, i)' = At(u, i)
  <2>. PICK p \in Phase : p = "freeing"
    BY <1>1
  <2>1. p # "freed" /\ stack' = [stack EXCEPT ![t][Len(stack[t])].phase = p]
    BY <1>4
  <2>2. /\ stack' \in [Thread -> Seq(Frame)]
        /\ Using(t)' = IF p = "freed" THEN Using(t) \ {n} ELSE Using(t)
        /\ At(t, n)' = [At(t, n) EXCEPT !.phase = p]
        /\ \A i \in Using(t) \ {n} : At(t, i)' = At(t, i)
        /\ \A u \in Thread : u # t => Using(u)' = Using(u)
        /\ \A u \in Thread : u # t => \A i \in Using(u) : At(u, i)' = At(u, i)
    BY <1>1, <1>2, <1>3, <2>1, PhaseUsing
  <2>. QED
    BY <2>1, <2>2
<1>6. At(t, n) \in Frame
  BY <1>1, <1>3, AtFrame
<1>7. PICK f : f = [At(t, n) EXCEPT !.phase = "freeing"]
  OBVIOUS
<1>8. f \in Frame /\ f.addr = a /\ f.gen = At(t, n).gen /\ f.phase = "freeing" /\ At(t, n)' = f
  BY <1>1, <1>3, <1>5, <1>6, <1>7 DEF Frame
<1>9. \A u \in Thread : \A i \in Using(u) : (u = t /\ i = n) \/ At(u, i).addr # a
  BY <1>3 DEF IInv, NoAliasing
<1>10. FrameAgrees(t, At(t, n))
  BY <1>3 DEF IInv, FramesAgree
<1>11. TypeOK'
  BY <1>1, <1>5 DEF Unregister, TypeOK, heapVars
<1>12. NoAliasing'
  <2>1. \A u \in Thread : \A i \in Using(u) : (At(u, i).addr)' = At(u, i).addr
    BY <1>3, <1>5, <1>8
  <2>. QED
    BY <1>5, <2>1 DEF NoAliasing, IInv
<1>13. FramesAgree'
  <2>1. \A u \in Thread, g \in Frame : g.addr # a /\ FrameAgrees(u, g) => FrameAgrees(u, g)'
    BY <1>1 DEF FrameAgrees, Unregister, heapVars, TypeOK, Frame
  <2>2. FrameAgrees(t, f)'
    BY <1>3, <1>8, <1>10 DEF FrameAgrees, Unregister, heapVars, Guarded
  <2>. QED
    BY <1>1, <1>5, <1>8, <1>9, <2>1, <2>2, AtFrame DEF FramesAgree, IInv
<1>14. \A u \in Thread, b \in Addr :
         b # a => (Inside(u, b) => Inside(u, b)') /\ (Moving(u, b) => Moving(u, b)')
  BY <1>3, <1>5 DEF Inside, Moving
<1>15. Moving(t, a)'
  BY <1>3, <1>5, <1>8 DEF Moving, Guarded
<1>16. RegistryAgrees'
  BY <1>1, <1>14 DEF EntryAgrees, RegistryAgrees, IInv, Unregister, heapVars, TypeOK
<1>17. LiveIsRegistered'
  BY <1>1, <1>14, <1>15 DEF LiveIsRegistered, InTransit, IInv, Unregister, heapVars, TypeOK
<1>. QED
  BY <1>11, <1>12, <1>13, <1>16, <1>17 DEF IInv

(* The Box is dropped: nobody else holds it, and it is not registered. *)
LEMMA FreeBoxIInv ==
  ASSUME IInv, NEW t \in Thread, NEW a \in Addr, FreeBox(t, a)
  PROVE  IInv'
<1>1. TypeOK /\ stack[t] # <<>> /\ "freed" \in Phase
  BY DEF IInv, FreeBox, Doing, Phase
<1>2. PICK n : n = Len(stack[t])
  OBVIOUS
<1>3. n \in Using(t) /\ At(t, n).addr = a /\ At(t, n).phase = "freeing"
  BY <1>1, <1>2 DEF FreeBox, Doing, Top, Using, At, TypeOK
<1>4. stack' = [stack EXCEPT ![t][Len(stack[t])].phase = "freed"]
  BY DEF FreeBox
<1>5. /\ stack' \in [Thread -> Seq(Frame)]
      /\ Using(t)' = Using(t) \ {n}
      /\ \A i \in Using(t) \ {n} : At(t, i)' = At(t, i)
      /\ \A u \in Thread : u # t => Using(u)' = Using(u)
      /\ \A u \in Thread : u # t => \A i \in Using(u) : At(u, i)' = At(u, i)
  BY <1>1, <1>2, <1>3, <1>4, PhaseUsing
<1>6. \A u \in Thread : \A i \in Using(u)' :
         i \in Using(u) /\ At(u, i).addr # a /\ At(u, i)' = At(u, i)
  BY <1>3, <1>5 DEF IInv, NoAliasing
<1>7. a \notin registered
  BY <1>3 DEF IInv, FramesAgree, FrameAgrees, Guarded
<1>8. TypeOK'
  BY <1>1, <1>5 DEF FreeBox, TypeOK, registryVars
<1>9. NoAliasing'
  BY <1>5, <1>6 DEF NoAliasing, IInv
<1>10. FramesAgree'
  <2>1. \A u \in Thread, g \in Frame : g.addr # a /\ FrameAgrees(u, g) => FrameAgrees(u, g)'
    BY <1>1 DEF FrameAgrees, FreeBox, registryVars, TypeOK, Frame
  <2>. QED
    BY <1>1, <1>5, <1>6, <2>1, AtFrame DEF FramesAgree, IInv
<1>11. \A u \in Thread, b \in Addr :
         b # a => (Inside(u, b) => Inside(u, b)') /\ (Moving(u, b) => Moving(u, b)')
  BY <1>3, <1>5 DEF Inside, Moving
<1>12. RegistryAgrees'
  BY <1>1, <1>7, <1>11 DEF EntryAgrees, RegistryAgrees, IInv, FreeBox, registryVars, TypeOK
<1>13. LiveIsRegistered'
  BY <1>1, <1>11 DEF LiveIsRegistered, InTransit, IInv, FreeBox, registryVars, TypeOK
<1>. QED
  BY <1>8, <1>9, <1>10, <1>12, <1>13 DEF IInv

(* The popped frame held nothing any more, and the guard is forgotten. *)
LEMMA DestroyReturnIInv ==
  ASSUME IInv, NEW t \in Thread, NEW a \in Addr, DestroyReturn(t, a)
  PROVE  IInv'
<1>1. TypeOK /\ stack[t] # <<>> /\ Pop(t)
  BY DEF IInv, DestroyReturn, Doing
<1>2. PICK n : n = Len(stack[t])
  OBVIOUS
<1>3. n \notin Using(t)
  BY <1>2 DEF DestroyReturn, Doing, Top, Using
<1>4. /\ stack' \in [Thread -> Seq(Frame)]
      /\ \A u \in Thread : Using(u)' = Using(u)
      /\ \A u \in Thread : \A i \in Using(u)' : At(u, i)' = At(u, i)
  <2>1. /\ stack' \in [Thread -> Seq(Frame)]
        /\ Using(t)' = Using(t) \ {n}
        /\ \A u \in Thread : u # t => Using(u)' = Using(u)
        /\ \A u \in Thread : \A i \in Using(u)' : At(u, i)' = At(u, i)
    BY <1>1, <1>2, PopUsing
  <2>2. Using(t)' = Using(t)
    BY <1>3, <2>1
  <2>. QED
    BY <2>1, <2>2
<1>5. UNCHANGED <<registered, owner, busy, allocated, creator, generation, answer>>
  BY DEF DestroyReturn, registryVars, heapVars
<1>6. TypeOK'
  BY <1>1, <1>4, <1>5 DEF TypeOK
<1>7. NoAliasing'
  BY <1>4 DEF NoAliasing, IInv
<1>8. FramesAgree'
  BY <1>4, <1>5 DEF FramesAgree, FrameAgrees, IInv
<1>9. \A u \in Thread, b \in Addr :
        (Inside(u, b) => Inside(u, b)') /\ (Moving(u, b) => Moving(u, b)')
  BY <1>4 DEF Inside, Moving
<1>10. RegistryAgrees' /\ LiveIsRegistered'
  BY <1>1, <1>5, <1>9 DEF RegistryAgrees, EntryAgrees, LiveIsRegistered, InTransit, IInv, TypeOK
<1>. QED
  BY <1>6, <1>7, <1>8, <1>10 DEF IInv

LEMMA NextIInv == IInv /\ [Next]_vars => IInv'
<1>. SUFFICES ASSUME IInv, [Next]_vars PROVE IInv'
  OBVIOUS
<1>1. CASE UNCHANGED vars
  BY <1>1 DEF vars, IInv, TypeOK, NoAliasing, FramesAgree, FrameAgrees, RegistryAgrees,
              EntryAgrees, LiveIsRegistered, InTransit, Inside, Moving, Using, At
<1>2. CASE Next
  <2>. PICK t \in Thread, a \in Addr :
         \/ Allocate(t, a) \/ Register(t, a) \/ Call(t, a) \/ Destroy(t, a) \/ Reject(t, a)
         \/ Return(t, a) \/ Unregister(t, a) \/ FreeBox(t, a) \/ DestroyReturn(t, a)
    BY <1>2 DEF Next
  <2>1. CASE Call(t, a) \/ Destroy(t, a)
    BY <2>1, EnterIInv DEF Call, Destroy, Guarded
  <2>. QED
    BY <2>1, AllocateIInv, RegisterIInv, RejectIInv, ReturnIInv, UnregisterIInv,
       FreeBoxIInv, DestroyReturnIInv
<1>. QED
  BY <1>1, <1>2

(* Every reachable state satisfies the inductive invariant. *)
THEOREM Inductive == Spec => []IInv
BY InitIInv, NextIInv, PTL DEF Spec

-----------------------------------------------------------------------------
(* The state of the guard keeps its types. *)
THEOREM TypeCorrect == Spec => []TypeOK
<1>1. IInv => TypeOK
  BY DEF IInv
<1>. QED
  BY <1>1, Inductive, PTL

(* No two calls in progress hold the same instance, however many threads   *)
(* call, nest and destroy, and however addresses are reused.               *)
THEOREM NeverAliased == Spec => []NoAliasing
<1>1. IInv => NoAliasing
  BY DEF IInv
<1>. QED
  BY <1>1, Inductive, PTL

(* A call in progress never outlives its instance or leaves its thread. *)
THEOREM NeverUsedAfterFree == Spec => []NoUseAfterFree
<1>1. IInv => NoUseAfterFree
  BY DEF IInv, FramesAgree, FrameAgrees, NoUseAfterFree
<1>. QED
  BY <1>1, Inductive, PTL

(* The busy flag is exact, so an idle instance never refuses its owner. *)
THEOREM BusyFlagExact == Spec => []BusyExact
<1>1. IInv => BusyExact
  <2>. SUFFICES ASSUME IInv, NEW a \in registered
                PROVE  busy[a] <=> \E t \in Thread : Inside(t, a)
    BY DEF BusyExact
  <2>1. busy[a] => \E t \in Thread : Inside(t, a)
    BY DEF IInv, RegistryAgrees, EntryAgrees
  <2>2. ASSUME NEW t \in Thread, Inside(t, a) PROVE busy[a]
    <3>1. PICK i \in Using(t) : At(t, i).addr = a /\ At(t, i).phase \in Guarded
      BY <2>2 DEF Inside
    <3>. QED
      BY <3>1, Zenon DEF IInv, FramesAgree, FrameAgrees
  <2>3. busy[a] \in BOOLEAN
    BY DEF IInv, TypeOK
  <2>. QED
    BY <2>1, <2>2, <2>3, Zenon
<1>. QED
  BY <1>1, Inductive, PTL

(* Destroying one instance never takes another out of the registry. *)
THEOREM LiveStaysRegistered == Spec => []LiveIsRegistered
<1>1. IInv => LiveIsRegistered
  BY DEF IInv
<1>. QED
  BY <1>1, Inductive, PTL

-----------------------------------------------------------------------------
(***************************************************************************)
(* The refinement.  Each step of ApiGuard is the step of ExclusiveAccess   *)
(* that the registry promises, or one that cannot be seen.  What a step    *)
(* does to the stacks is first said in the terms of the mapping: who is    *)
(* inside an instance, and what is registered.                             *)
(***************************************************************************)
(* The mapping names the thread that is inside, and there is one at most. *)
MappedInside ==
  \A a \in Addr :
    /\ absInside[a] \in Thread \cup {Nobody}
    /\ \A t \in Thread : absInside[a] = t <=> Inside(t, a)

(* It names the creator of what is registered, and nobody else. *)
MappedOwner ==
  \A a \in Addr : absOwner[a] = IF a \in registered THEN creator[a] ELSE Nobody

LEMMA Mapped == IInv => MappedInside /\ MappedOwner
<1>. SUFFICES ASSUME IInv PROVE MappedInside /\ MappedOwner
  OBVIOUS
<1>1. MappedInside
  <2>. SUFFICES ASSUME NEW a \in Addr
                PROVE  /\ absInside[a] \in Thread \cup {Nobody}
                       /\ \A t \in Thread : absInside[a] = t <=> Inside(t, a)
    BY DEF MappedInside
  <2>1. \A t, u \in Thread : Inside(t, a) /\ Inside(u, a) => t = u
    BY DEF IInv, NoAliasing, Inside
  <2>2. CASE \E t \in Thread : Inside(t, a)
    <3>1. absInside[a] = CHOOSE t \in Thread : Inside(t, a)
      BY <2>2 DEF absInside
    <3>2. absInside[a] \in Thread /\ Inside(absInside[a], a)
      BY <2>2, <3>1, Zenon
    <3>. QED
      BY <2>1, <3>2
  <2>3. CASE ~\E t \in Thread : Inside(t, a)
    <3>1. absInside[a] = Nobody
      BY <2>3 DEF absInside
    <3>. QED
      BY <2>3, <3>1, NobodyAssumption
  <2>. QED
    BY <2>2, <2>3
<1>2. MappedOwner
  <2>. SUFFICES ASSUME NEW a \in Addr
                PROVE  Published(a) <=> a \in registered
    BY DEF MappedOwner, absOwner
  <2>1. ASSUME a \in registered PROVE Published(a)
    <3>1. a \in allocated
      BY <2>1 DEF IInv, RegistryAgrees, EntryAgrees
    <3>2. ~InTransit(a)
      BY <2>1 DEF IInv, FramesAgree, FrameAgrees, InTransit, Moving
    <3>. QED
      BY <3>1, <3>2 DEF Published
  <2>2. ASSUME Published(a) PROVE a \in registered
    BY <2>2 DEF IInv, LiveIsRegistered, Published
  <2>. QED
    BY <2>1, <2>2
<1>. QED
  BY <1>1, <1>2

LEMMA MappedAfter == IInv' => MappedInside' /\ MappedOwner'
BY Mapped, PTL

(* Two mappings in which the same thread is inside are the same. *)
LEMMA InsideChanges ==
  ASSUME MappedInside, MappedInside', NEW a \in Addr, NEW x \in Thread \cup {Nobody},
         \A t \in Thread : Inside(t, a)' <=> t = x,
         \A t \in Thread, b \in Addr : b # a => (Inside(t, b)' <=> Inside(t, b))
  PROVE  absInside' = [absInside EXCEPT ![a] = x]
<1>1. absInside'[a] = x
  BY NobodyAssumption DEF MappedInside
<1>2. \A b \in Addr : b # a => absInside'[b] = absInside[b]
  BY NobodyAssumption DEF MappedInside
<1>3. absInside = [b \in Addr |-> absInside[b]] /\ absInside' = [b \in Addr |-> absInside'[b]]
  BY DEF absInside
<1>. QED
  BY <1>1, <1>2, <1>3

LEMMA InsideKept ==
  ASSUME MappedInside, MappedInside',
         \A t \in Thread, b \in Addr : Inside(t, b)' <=> Inside(t, b)
  PROVE  absInside' = absInside
<1>1. \A b \in Addr : absInside'[b] = absInside[b]
  BY NobodyAssumption DEF MappedInside
<1>2. absInside = [b \in Addr |-> absInside[b]] /\ absInside' = [b \in Addr |-> absInside'[b]]
  BY DEF absInside
<1>. QED
  BY <1>1, <1>2

LEMMA OwnerChanges ==
  ASSUME MappedOwner, MappedOwner', NEW a \in Addr, NEW x,
         x = IF a \in registered' THEN creator'[a] ELSE Nobody,
         \A b \in Addr : b # a => (b \in registered' <=> b \in registered) /\ creator'[b] = creator[b]
  PROVE  absOwner' = [absOwner EXCEPT ![a] = x]
<1>1. absOwner'[a] = x /\ \A b \in Addr : b # a => absOwner'[b] = absOwner[b]
  BY DEF MappedOwner
<1>2. absOwner = [b \in Addr |-> absOwner[b]] /\ absOwner' = [b \in Addr |-> absOwner'[b]]
  BY DEF absOwner
<1>. QED
  BY <1>1, <1>2

LEMMA OwnerKept ==
  ASSUME MappedOwner, MappedOwner', registered' = registered,
         \A b \in registered : creator'[b] = creator[b]
  PROVE  absOwner' = absOwner
<1>1. \A b \in Addr : absOwner'[b] = absOwner[b]
  BY DEF MappedOwner
<1>2. absOwner = [b \in Addr |-> absOwner[b]] /\ absOwner' = [b \in Addr |-> absOwner'[b]]
  BY DEF absOwner
<1>. QED
  BY <1>1, <1>2

LEMMA VerdictKept == answer' = answer => absVerdict' = absVerdict
BY DEF absVerdict

LEMMA VerdictChanges ==
  ASSUME TypeOK, NEW t \in Thread, NEW x \in Answer \ {"none"}, answer' = [answer EXCEPT ![t] = x]
  PROVE  absVerdict' = [absVerdict EXCEPT ![t] = IF x = "ok" THEN "admitted" ELSE "refused"]
BY DEF absVerdict, TypeOK

-----------------------------------------------------------------------------
(* The stacks in the terms of the mapping *)

LEMMA PushSeen ==
  ASSUME TypeOK, NEW t \in Thread, NEW f \in Frame, f.phase # "freed", Push(t, f)
  PROVE  \A u \in Thread, b \in Addr :
           Inside(u, b)' <=> Inside(u, b) \/ (u = t /\ b = f.addr /\ f.phase \in Guarded)
<1>1. PICK n : n = Len(stack[t]) + 1
  OBVIOUS
<1>2. /\ Using(t)' = Using(t) \cup {n}
      /\ At(t, n)' = f
      /\ \A u \in Thread : u # t => Using(u)' = Using(u)
      /\ \A u \in Thread : \A i \in Using(u) : At(u, i)' = At(u, i)
  BY <1>1, PushUsing
<1>. QED
  BY <1>2 DEF Inside

(* The frame on top of a stack is the only one at its address. *)
LEMMA TopIsAlone ==
  ASSUME IInv, NEW t \in Thread, NEW a \in Addr, NEW phase \in Phase \ {"freed"},
         Doing(t, phase, a), NEW n, n = Len(stack[t])
  PROVE  /\ stack[t] # <<>>
         /\ n \in Using(t) /\ At(t, n).addr = a /\ At(t, n).phase = phase
         /\ \A u \in Thread : \A i \in Using(u) : At(u, i).addr = a => u = t /\ i = n
         /\ phase \in Guarded => a \in registered /\ Inside(t, a)
         /\ phase \notin Guarded => a \notin registered
         /\ \A u \in Thread : Inside(u, a) => u = t /\ phase \in Guarded
         /\ a \in allocated /\ creator[a] = t
<1>1. TypeOK /\ stack[t] # <<>>
  BY DEF IInv, Doing
<1>2. n \in Using(t) /\ At(t, n).addr = a /\ At(t, n).phase = phase
  BY <1>1 DEF Doing, Top, Using, At, TypeOK
<1>3. \A u \in Thread : \A i \in Using(u) : At(u, i).addr = a => u = t /\ i = n
  BY <1>2 DEF IInv, NoAliasing
<1>4. FrameAgrees(t, At(t, n))
  BY <1>2 DEF IInv, FramesAgree
<1>. QED
  BY <1>1, <1>2, <1>3, <1>4 DEF FrameAgrees, Inside

LEMMA PopSeen ==
  ASSUME IInv, NEW t \in Thread, NEW a \in Addr, NEW phase \in Phase \ {"freed"},
         Doing(t, phase, a), Pop(t)
  PROVE  \A u \in Thread, b \in Addr : Inside(u, b)' <=> Inside(u, b) /\ b # a
<1>1. PICK n : n = Len(stack[t])
  OBVIOUS
<1>2. /\ stack[t] # <<>> /\ n \in Using(t) /\ At(t, n).addr = a
      /\ \A u \in Thread : \A i \in Using(u) : At(u, i).addr = a => u = t /\ i = n
  BY <1>1, TopIsAlone
<1>3. /\ Using(t)' = Using(t) \ {n}
      /\ \A u \in Thread : u # t => Using(u)' = Using(u)
      /\ \A u \in Thread : \A i \in Using(u)' : At(u, i)' = At(u, i)
  BY <1>1, <1>2, PopUsing DEF IInv
<1>. QED
  BY <1>2, <1>3 DEF Inside

LEMMA PhaseSeen ==
  ASSUME IInv, NEW t \in Thread, NEW a \in Addr, NEW phase \in Phase \ {"freed"},
         Doing(t, phase, a), NEW p \in Phase \ Guarded,
         stack' = [stack EXCEPT ![t][Len(stack[t])].phase = p]
  PROVE  \A u \in Thread, b \in Addr : Inside(u, b)' <=> Inside(u, b) /\ b # a
<1>1. PICK n : n = Len(stack[t])
  OBVIOUS
<1>2. /\ stack[t] # <<>> /\ n \in Using(t) /\ At(t, n).addr = a
      /\ \A u \in Thread : \A i \in Using(u) : At(u, i).addr = a => u = t /\ i = n
  BY <1>1, TopIsAlone
<1>3. /\ Using(t)' = IF p = "freed" THEN Using(t) \ {n} ELSE Using(t)
      /\ At(t, n)' = [At(t, n) EXCEPT !.phase = p]
      /\ \A i \in Using(t) \ {n} : At(t, i)' = At(t, i)
      /\ \A u \in Thread : u # t => Using(u)' = Using(u)
      /\ \A u \in Thread : u # t => \A i \in Using(u) : At(u, i)' = At(u, i)
  BY <1>1, <1>2, PhaseUsing DEF IInv
<1>4. At(t, n) \in Frame
  BY <1>2, AtFrame DEF IInv
<1>5. PICK f : f = [At(t, n) EXCEPT !.phase = p]
  OBVIOUS
<1>6. f.phase \notin Guarded /\ f.addr = a /\ At(t, n)' = f
  BY <1>2, <1>3, <1>4, <1>5 DEF Frame
<1>7. ASSUME NEW u \in Thread, NEW b \in Addr, Inside(u, b)'
      PROVE  Inside(u, b) /\ b # a
  <2>1. PICK i \in Using(u)' : At(u, i)'.addr = b /\ At(u, i)'.phase \in Guarded
    BY <1>7 DEF Inside
  <2>2. i \in Using(u) /\ ~(u = t /\ i = n)
    BY <1>3, <1>6, <2>1
  <2>3. At(u, i)' = At(u, i)
    BY <1>3, <2>2
  <2>. QED
    BY <1>2, <2>1, <2>2, <2>3 DEF Inside
<1>8. ASSUME NEW u \in Thread, NEW b \in Addr, Inside(u, b), b # a
      PROVE  Inside(u, b)'
  <2>1. PICK i \in Using(u) : At(u, i).addr = b /\ At(u, i).phase \in Guarded
    BY <1>8 DEF Inside
  <2>2. ~(u = t /\ i = n)
    BY <1>2, <1>8, <2>1
  <2>3. i \in Using(u)' /\ At(u, i)' = At(u, i)
    BY <1>3, <2>1, <2>2
  <2>. QED
    BY <2>1, <2>3 DEF Inside
<1>. QED
  BY <1>7, <1>8

-----------------------------------------------------------------------------
LEMMA InitMaps == Init => Exclusive!Init
<1>. SUFFICES ASSUME Init PROVE Exclusive!Init
  OBVIOUS
<1>1. IInv
  BY InitIInv
<1>2. MappedInside /\ MappedOwner
  BY <1>1, Mapped
<1>3. absOwner = [a \in Addr |-> Nobody]
  <2>1. \A a \in Addr : absOwner[a] = Nobody
    BY <1>2 DEF MappedOwner, Init
  <2>. QED
    BY <2>1 DEF absOwner
<1>4. absInside = [a \in Addr |-> Nobody]
  <2>1. \A t \in Thread : Using(t) = {}
    <3>1. \A t \in Thread : stack[t] = <<>>
      BY DEF Init
    <3>2. 1 .. Len(<<>>) = {}
      OBVIOUS
    <3>. QED
      BY <3>1, <3>2 DEF Using
  <2>2. \A a \in Addr : absInside[a] = Nobody
    BY <1>2, <2>1 DEF MappedInside, Inside
  <2>. QED
    BY <2>2 DEF absInside
<1>5. absVerdict = [t \in Thread |-> "none"]
  BY DEF Init, absVerdict
<1>. QED
  BY <1>3, <1>4, <1>5 DEF Exclusive!Init

(* Nothing of an instance can be seen before it is registered ... *)
LEMMA AllocateMaps ==
  ASSUME IInv, IInv', NEW t \in Thread, NEW a \in Addr, Allocate(t, a)
  PROVE  UNCHANGED Exclusive!vars
<1>1. MappedInside /\ MappedOwner /\ MappedInside' /\ MappedOwner'
  BY Mapped, MappedAfter
<1>2. PICK f : f = [addr |-> a, gen |-> generation[a] + 1, phase |-> "creating"]
  OBVIOUS
<1>3. TypeOK /\ f \in Frame /\ f.phase = "creating" /\ Push(t, f)
  BY <1>2 DEF IInv, TypeOK, Frame, Phase, Allocate
<1>4. \A u \in Thread, b \in Addr : Inside(u, b)' <=> Inside(u, b)
  BY <1>3, PushSeen DEF Guarded
<1>5. absOwner' = absOwner
  <2>1. a \notin registered
    BY DEF Allocate, IInv, RegistryAgrees, EntryAgrees
  <2>2. registered' = registered /\ \A b \in registered : creator'[b] = creator[b]
    BY <1>3, <2>1 DEF Allocate, registryVars, TypeOK
  <2>. QED
    BY <1>1, <2>2, OwnerKept
<1>6. absVerdict' = absVerdict
  BY VerdictKept DEF Allocate
<1>. QED
  BY <1>1, <1>4, <1>5, <1>6, InsideKept DEF Exclusive!vars

(* ... which publishes it. *)
LEMMA RegisterMaps ==
  ASSUME IInv, IInv', NEW t \in Thread, NEW a \in Addr, Register(t, a)
  PROVE  Exclusive!Publish(t, a)
<1>1. MappedInside /\ MappedOwner /\ MappedInside' /\ MappedOwner'
  BY Mapped, MappedAfter
<1>2. "creating" \in Phase \ {"freed"} /\ "creating" \notin Guarded
  BY DEF Phase, Guarded
<1>3. Doing(t, "creating", a) /\ Pop(t)
  BY DEF Register
<1>4. PICK n : n = Len(stack[t])
  OBVIOUS
<1>5. a \notin registered /\ creator[a] = t /\ \A u \in Thread : ~Inside(u, a)
  BY <1>2, <1>3, <1>4, TopIsAlone
<1>6. \A u \in Thread, b \in Addr : Inside(u, b)' <=> Inside(u, b)
  BY <1>2, <1>3, <1>5, PopSeen
<1>7. absInside' = absInside
  BY <1>1, <1>6, InsideKept
<1>8. absOwner[a] = Nobody
  BY <1>1, <1>5 DEF MappedOwner
<1>9. absOwner' = [absOwner EXCEPT ![a] = t]
  <2>1. registered' = registered \cup {a} /\ creator' = creator
    BY DEF Register, heapVars
  <2>. QED
    BY <1>1, <1>5, <2>1, OwnerChanges
<1>10. absVerdict' = absVerdict
  BY VerdictKept DEF Register
<1>. QED
  BY <1>7, <1>8, <1>9, <1>10 DEF Exclusive!Publish

(* Who is admitted owns the instance and is alone in it. *)
LEMMA EnterMaps ==
  ASSUME IInv, IInv', NEW t \in Thread, NEW a \in Addr, NEW phase \in Guarded,
         Enter(t, a, phase)
  PROVE  Exclusive!Admit(t, a)
<1>1. MappedInside /\ MappedOwner /\ MappedInside' /\ MappedOwner'
  BY Mapped, MappedAfter
<1>2. PICK f : f = NewFrame(a, phase)
  OBVIOUS
<1>3. TypeOK /\ f \in Frame /\ f.addr = a /\ f.phase = phase /\ f.phase # "freed" /\ Push(t, f)
  BY <1>2 DEF IInv, TypeOK, Frame, Phase, Enter, NewFrame, Guarded
<1>4. a \in registered /\ owner[a] = t /\ ~busy[a]
  BY DEF Enter, EnterResult
<1>5. creator[a] = t
  BY <1>4 DEF IInv, RegistryAgrees, EntryAgrees
<1>6. \A u \in Thread : ~Inside(u, a)
  BY <1>4 DEF IInv, FramesAgree, FrameAgrees, Inside
<1>7. Exclusive!Free(t, a)
  <2>1. absOwner[a] = t
    BY <1>1, <1>4, <1>5 DEF MappedOwner
  <2>2. absInside[a] = Nobody
    BY <1>1, <1>6 DEF MappedInside
  <2>. QED
    BY <2>1, <2>2 DEF Exclusive!Free
<1>8. absInside' = [absInside EXCEPT ![a] = t]
  <2>1. \A u \in Thread : Inside(u, a)' <=> u = t
    BY <1>3, <1>6, PushSeen
  <2>2. \A u \in Thread, b \in Addr : b # a => (Inside(u, b)' <=> Inside(u, b))
    BY <1>3, PushSeen
  <2>. QED
    BY <1>1, <2>1, <2>2, InsideChanges
<1>9. absOwner' = absOwner
  BY <1>1, OwnerKept DEF Enter, heapVars
<1>10. absVerdict' = [absVerdict EXCEPT ![t] = "admitted"]
  <2>1. "ok" \in Answer \ {"none"}
    BY DEF Answer
  <2>. QED
    BY <1>3, <2>1, VerdictChanges DEF Enter
<1>. QED
  BY <1>7, <1>8, <1>9, <1>10 DEF Exclusive!Admit

(* Who is refused would have been a stranger, or not alone. *)
LEMMA RejectMaps ==
  ASSUME IInv, IInv', NEW t \in Thread, NEW a \in Addr, Reject(t, a)
  PROVE  Exclusive!Refuse(t, a)
<1>1. MappedInside /\ MappedOwner /\ MappedInside' /\ MappedOwner'
  BY Mapped, MappedAfter
<1>2. /\ UNCHANGED <<registered, owner, busy, allocated, creator, generation, stack>>
      /\ answer' = [answer EXCEPT ![t] = EnterResult(t, a)]
      /\ EnterResult(t, a) \in {"invalid", "non_owner", "busy"}
  BY DEF Reject, registryVars, heapVars, EnterResult
<1>3. ~Exclusive!Free(t, a)
  <2>1. CASE a \notin registered
    BY <1>1, <2>1, NobodyAssumption DEF MappedOwner, Exclusive!Free
  <2>2. CASE a \in registered /\ owner[a] # t
    BY <1>1, <2>2 DEF IInv, RegistryAgrees, EntryAgrees, MappedOwner, Exclusive!Free
  <2>3. CASE a \in registered /\ busy[a]
    <3>1. PICK u \in Thread : Inside(u, a)
      BY <2>3 DEF IInv, RegistryAgrees, EntryAgrees
    <3>. QED
      BY <1>1, <3>1, NobodyAssumption DEF MappedInside, Exclusive!Free
  <2>4. EnterResult(t, a) # "ok"
    BY DEF Reject
  <2>. QED
    BY <2>1, <2>2, <2>3, <2>4 DEF EnterResult
<1>4. absInside' = absInside
  <2>1. \A u \in Thread, b \in Addr : Inside(u, b)' <=> Inside(u, b)
    BY <1>2 DEF Inside, Using, At
  <2>. QED
    BY <1>1, <2>1, InsideKept
<1>5. absOwner' = absOwner
  BY <1>1, <1>2, OwnerKept
<1>6. absVerdict' = [absVerdict EXCEPT ![t] = "refused"]
  <2>1. PICK x \in {"invalid", "non_owner", "busy"} : x = EnterResult(t, a)
    BY <1>2
  <2>2. x \in Answer \ {"none"} /\ x # "ok"
    BY DEF Answer
  <2>. QED
    BY <1>2, <2>1, <2>2, VerdictChanges DEF IInv
<1>. QED
  BY <1>3, <1>4, <1>5, <1>6 DEF Exclusive!Refuse

LEMMA ReturnMaps ==
  ASSUME IInv, IInv', NEW t \in Thread, NEW a \in Addr, Return(t, a)
  PROVE  Exclusive!Leave(t, a)
<1>1. MappedInside /\ MappedOwner /\ MappedInside' /\ MappedOwner'
  BY Mapped, MappedAfter
<1>2. "running" \in Phase \ {"freed"} /\ "running" \in Guarded
  BY DEF Phase, Guarded
<1>3. Doing(t, "running", a) /\ Pop(t)
  BY DEF Return
<1>4. PICK n : n = Len(stack[t])
  OBVIOUS
<1>5. Inside(t, a)
  BY <1>2, <1>3, <1>4, TopIsAlone
<1>6. absInside' = [absInside EXCEPT ![a] = Nobody]
  <2>1. \A u \in Thread, b \in Addr : Inside(u, b)' <=> Inside(u, b) /\ b # a
    BY <1>2, <1>3, PopSeen
  <2>. QED
    BY <1>1, <2>1, InsideChanges, NobodyAssumption
<1>7. absInside[a] = t
  BY <1>1, <1>5 DEF MappedInside
<1>8. absOwner' = absOwner
  BY <1>1, OwnerKept DEF Return, heapVars
<1>9. absVerdict' = absVerdict
  BY VerdictKept DEF Return
<1>. QED
  BY <1>6, <1>7, <1>8, <1>9 DEF Exclusive!Leave

(* koss_destroy retires the instance when it leaves the registry ... *)
LEMMA UnregisterMaps ==
  ASSUME IInv, IInv', NEW t \in Thread, NEW a \in Addr, Unregister(t, a)
  PROVE  Exclusive!Retire(t, a)
<1>1. MappedInside /\ MappedOwner /\ MappedInside' /\ MappedOwner'
  BY Mapped, MappedAfter
<1>2. /\ "destroying" \in Phase \ {"freed"} /\ "destroying" \in Guarded
      /\ "freeing" \in Phase \ Guarded
  BY DEF Phase, Guarded
<1>3. Doing(t, "destroying", a)
  BY DEF Unregister
<1>4. PICK n : n = Len(stack[t])
  OBVIOUS
<1>5. Inside(t, a) /\ a \in registered /\ creator[a] = t
  BY <1>2, <1>3, <1>4, TopIsAlone
<1>6. absInside' = [absInside EXCEPT ![a] = Nobody]
  <2>1. PICK p \in Phase \ Guarded : p = "freeing"
    BY <1>2
  <2>2. stack' = [stack EXCEPT ![t][Len(stack[t])].phase = p]
    BY <2>1 DEF Unregister
  <2>3. \A u \in Thread, b \in Addr : Inside(u, b)' <=> Inside(u, b) /\ b # a
    BY <1>2, <1>3, <2>2, PhaseSeen
  <2>. QED
    BY <1>1, <2>3, InsideChanges, NobodyAssumption
<1>7. absInside[a] = t /\ absOwner[a] = t
  BY <1>1, <1>5 DEF MappedInside, MappedOwner
<1>8. absOwner' = [absOwner EXCEPT ![a] = Nobody]
  <2>1. registered' = registered \ {a} /\ creator' = creator
    BY DEF Unregister, heapVars
  <2>. QED
    BY <1>1, <2>1, OwnerChanges
<1>9. absVerdict' = absVerdict
  BY VerdictKept DEF Unregister
<1>. QED
  BY <1>6, <1>7, <1>8, <1>9 DEF Exclusive!Retire

(* ... and nobody sees the rest of it. *)
LEMMA FreeBoxMaps ==
  ASSUME IInv, IInv', NEW t \in Thread, NEW a \in Addr, FreeBox(t, a)
  PROVE  UNCHANGED Exclusive!vars
<1>1. MappedInside /\ MappedOwner /\ MappedInside' /\ MappedOwner'
  BY Mapped, MappedAfter
<1>2. /\ "freeing" \in Phase \ {"freed"} /\ "freeing" \notin Guarded
      /\ "freed" \in Phase \ Guarded
  BY DEF Phase, Guarded
<1>3. Doing(t, "freeing", a)
  BY DEF FreeBox
<1>4. PICK n : n = Len(stack[t])
  OBVIOUS
<1>5. \A u \in Thread : ~Inside(u, a)
  BY <1>2, <1>3, <1>4, TopIsAlone
<1>6. absInside' = absInside
  <2>1. PICK p \in Phase \ Guarded : p = "freed"
    BY <1>2
  <2>2. stack' = [stack EXCEPT ![t][Len(stack[t])].phase = p]
    BY <2>1 DEF FreeBox
  <2>3. \A u \in Thread, b \in Addr : Inside(u, b)' <=> Inside(u, b) /\ b # a
    BY <1>2, <1>3, <2>2, PhaseSeen
  <2>. QED
    BY <1>1, <1>5, <2>3, InsideKept
<1>7. absOwner' = absOwner
  BY <1>1, OwnerKept DEF FreeBox, registryVars
<1>8. absVerdict' = absVerdict
  BY VerdictKept DEF FreeBox
<1>. QED
  BY <1>6, <1>7, <1>8 DEF Exclusive!vars

LEMMA DestroyReturnMaps ==
  ASSUME IInv, IInv', NEW t \in Thread, NEW a \in Addr, DestroyReturn(t, a)
  PROVE  UNCHANGED Exclusive!vars
<1>1. MappedInside /\ MappedOwner /\ MappedInside' /\ MappedOwner'
  BY Mapped, MappedAfter
<1>2. PICK n : n = Len(stack[t])
  OBVIOUS
<1>3. TypeOK /\ stack[t] # <<>> /\ Pop(t) /\ n \notin Using(t)
  BY <1>2 DEF IInv, DestroyReturn, Doing, Top, Using
<1>4. /\ Using(t)' = Using(t) \ {n}
      /\ \A u \in Thread : u # t => Using(u)' = Using(u)
      /\ \A u \in Thread : \A i \in Using(u)' : At(u, i)' = At(u, i)
  BY <1>2, <1>3, PopUsing
<1>5. \A u \in Thread, b \in Addr : Inside(u, b)' <=> Inside(u, b)
  BY <1>3, <1>4 DEF Inside
<1>6. absInside' = absInside
  BY <1>1, <1>5, InsideKept
<1>7. absOwner' = absOwner
  BY <1>1, OwnerKept DEF DestroyReturn, registryVars, heapVars
<1>8. absVerdict' = absVerdict
  BY VerdictKept DEF DestroyReturn
<1>. QED
  BY <1>6, <1>7, <1>8 DEF Exclusive!vars

LEMMA StepMaps ==
  ASSUME IInv, IInv', [Next]_vars
  PROVE  [Exclusive!Next]_(Exclusive!vars)
<1>1. CASE UNCHANGED vars
  BY <1>1 DEF vars, Exclusive!vars, absOwner, absInside, absVerdict, Published, InTransit,
              Inside, Moving, Using, At
<1>2. CASE Next
  <2>. PICK t \in Thread, a \in Addr :
         \/ Allocate(t, a) \/ Register(t, a) \/ Call(t, a) \/ Destroy(t, a) \/ Reject(t, a)
         \/ Return(t, a) \/ Unregister(t, a) \/ FreeBox(t, a) \/ DestroyReturn(t, a)
    BY <1>2 DEF Next
  <2>1. CASE Allocate(t, a) \/ FreeBox(t, a) \/ DestroyReturn(t, a)
    BY <2>1, AllocateMaps, FreeBoxMaps, DestroyReturnMaps
  <2>2. CASE Call(t, a) \/ Destroy(t, a)
    BY <2>2, EnterMaps DEF Call, Destroy, Guarded, Exclusive!Next
  <2>3. CASE Register(t, a) \/ Reject(t, a)
    BY <2>3, RegisterMaps, RejectMaps DEF Exclusive!Next
  <2>4. CASE Return(t, a) \/ Unregister(t, a)
    BY <2>4, ReturnMaps, UnregisterMaps DEF Exclusive!Next
  <2>. QED
    BY <2>1, <2>2, <2>3, <2>4
<1>. QED
  BY <1>1, <1>2

(* The registry is right about who may run: with any number of threads,    *)
(* nested calls, destructions and reused addresses, each call is admitted, *)
(* refused, left or retired as ExclusiveAccess says.                       *)
THEOREM Refines == Spec => ImplementsExclusiveAccess
<1>1. Init => Exclusive!Init
  BY InitMaps
<1>2. IInv /\ IInv' /\ [Next]_vars => [Exclusive!Next]_(Exclusive!vars)
  BY StepMaps
<1>. QED
  BY <1>1, <1>2, Inductive, PTL DEF Spec, ImplementsExclusiveAccess, Exclusive!Spec
=============================================================================
