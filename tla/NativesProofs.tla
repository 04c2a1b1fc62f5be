---------------------------- MODULE NativesProofs ----------------------------
(***************************************************************************)
(* Proofs about the event loop and the natives beside it: EventLoop, for   *)
(* any number of operations and of rounds; FfiStructs, FfiCalls,           *)
(* FfiObjects, Napi and NapiEnv, as MCNatives instantiates them, for any   *)
(* declarations, values, sizes, slots and bounds; and the parts side by    *)
(* side.                                                                   *)
(*                                                                         *)
(* The invariant of EventLoop says where each operation is: not begun, with *)
(* its task or thread, in the channel, or over; and it ties the count of   *)
(* active calls to the threads, whatever the interleaving of the host with *)
(* them.  Those of the others are stated where their proofs begin.         *)
(***************************************************************************)
EXTENDS MCNatives, DataFacts, FiniteSetTheorems, WellFoundedInduction

Native == {op \in Op : InNative(op)}

(* Inside a call the host has not been told anything yet. *)
CallsInPhase ==
  /\ call \in {"none", "destroyed"} <=> phase = "out"
  /\ call \notin {"none", "destroyed"} => said = "none"

(* What serves an operation fits its kind, and nothing serves one that has *)
(* not begun.                                                              *)
WorkersFit ==
  \A op \in Op :
    /\ kind[op] = "none" <=> op >= nextId
    /\ worker[op] = "none" <=> kind[op] = "none"
    /\ worker[op] \in {"returned", "unspawned"} => kind[op] = "ffi"

(* The results in the channel are of operations that are over and wait.    *)
ChannelFits ==
  /\ OnceEach(ioq)
  /\ \A op \in Op : Has(ioq, op) => worker[op] = "done" /\ kind[op] # "none"
  /\ \A op \in settled : kind[op] # "none" /\ worker[op] = "done" /\ ~Has(ioq, op)
  /\ call = "destroyed" => ioq = <<>> /\ pending = {}

(* A promise waits while something will settle it. *)
WaitsForSource ==
  call # "destroyed" =>
    \A op \in Op :
      /\ op \in pending <=> worker[op] = "unspawned" \/ Served(op) \/ Has(ioq, op)
      /\ op \in settled => op \notin pending

(* A close that has been reported, or whose report is on its way, has seen *)
(* every earlier call leave.                                               *)
CloseWaits ==
  \A c, op \in Op :
    kind[c] = "close" /\ (c \in settled \/ Has(ioq, c)) /\ op < c => ~InNative(op)

(* Who was told "idle" left nothing behind. *)
IdleLeavesNothing ==
  call = "none" /\ said = "idle" => \A op \in Op : ~Served(op) /\ ~Has(ioq, op)

(* Every microtask but one comes from a promise that was settled. *)
JobsFromSettled == jobs <= 1 + Cardinality(settled)

IInv ==
  /\ TypeOK /\ JobsFromSettled /\ CallsInPhase /\ WorkersFit /\ ChannelFits /\ WaitsForSource
  /\ CloseWaits /\ IdleLeavesNothing /\ ActiveExact

(* The operations are finitely many. *)
LEMMA NativeFinite == IsFiniteSet(Op) /\ IsFiniteSet(Native)
<1>1. IsFiniteSet(Op)
  BY BoundAssumption, FS_Interval DEF Op
<1>2. Native \in SUBSET Op
  BY DEF Native
<1> QED BY <1>1, <1>2, FS_Subset

(* As many operations as there are can be counted, and no more. *)
LEMMA CountsFit ==
  ASSUME NEW T \in SUBSET Op
  PROVE  IsFiniteSet(T) /\ Cardinality(T) \in 0 .. MaxOps
<1>1. IsFiniteSet(Op) /\ Cardinality(Op) = MaxOps
  BY BoundAssumption, FS_Interval DEF Op
<1> QED BY <1>1, BoundAssumption, FS_Subset, FS_CardinalityType

(* The invariant implies the properties. *)
LEMMA InvariantImplies ==
  ASSUME IInv
  PROVE  PendingHasSource /\ CloseWaitsForEarlierCalls /\ IdleIsIdle
<1>1. \A op \in Op : InQueue(op, ioq) # {} <=> Has(ioq, op)
  BY DEF InQueue, Has
<1>2. \A op \in Op : \A i, j \in InQueue(op, ioq) : i = j
  BY DEF IInv, ChannelFits, OnceEach, InQueue
<1>3. PendingHasSource
  BY <1>1, <1>2 DEF IInv, WaitsForSource, ChannelFits, PendingHasSource
<1>4. CloseWaitsForEarlierCalls
  BY DEF IInv, CloseWaits, CloseWaitsForEarlierCalls
<1>5. IdleIsIdle
  BY <1>1 DEF IInv, IdleLeavesNothing, IdleIsIdle
<1> QED BY <1>3, <1>4, <1>5

LEMMA InitIInv == Init => IInv
<1> SUFFICES ASSUME Init PROVE IInv
  OBVIOUS
<1> USE BoundAssumption DEF Init
<1>1. TypeOK
  <2>1. ioq \in Seq(Op)
    BY EmptySeq
  <2>2. kind \in [Op -> Kind] /\ worker \in [Op -> Worker]
    BY DEF Kind, Worker
  <2>3. nextId \in 1 .. MaxOps + 1 /\ active \in 0 .. MaxOps /\ jobs \in 0 .. MaxOps + 1
        /\ round \in 0 .. MaxRounds
    OBVIOUS
  <2> QED BY <2>1, <2>2, <2>3 DEF TypeOK, Call, Phase
<1>2. CallsInPhase /\ WorkersFit
  BY DEF CallsInPhase, WorkersFit, Op
<1>3. ChannelFits
  BY EmptyHasNone DEF ChannelFits
<1>4. WaitsForSource /\ CloseWaits /\ IdleLeavesNothing
  BY EmptyHasNone DEF WaitsForSource, CloseWaits, IdleLeavesNothing, Served, InNative
<1>6. JobsFromSettled
  BY FS_EmptySet DEF JobsFromSettled
<1>5. ActiveExact
  <2>1. {op \in Op : InNative(op)} = {}
    BY DEF InNative
  <2> QED BY <2>1, FS_EmptySet DEF ActiveExact
<1> QED BY <1>1, <1>2, <1>3, <1>4, <1>5, <1>6 DEF IInv

-----------------------------------------------------------------------------
(* The operation that begins is new: nothing is said of it yet. *)
LEMMA NewOperation ==
  ASSUME IInv, nextId \in Op
  PROVE  /\ kind[nextId] = "none" /\ worker[nextId] = "none"
         /\ nextId \notin settled /\ ~Has(ioq, nextId)
         /\ nextId \in Nat
BY BoundAssumption DEF IInv, TypeOK, WorkersFit, ChannelFits, Op

(* An operation begins with a task, a thread, or nothing to serve it.      *)
LEMMA StartsWell ==
  ASSUME IInv, NEW k \in Kind \ {"none"}, NEW w \in {"running", "unspawned"}, Start(k, w),
         w = "unspawned" => k = "ffi",
         UNCHANGED <<hostVars, ioq, settled>>, phase # "out"
  PROVE  /\ nextId' \in 1 .. MaxOps + 1
         /\ kind' \in [Op -> Kind] /\ worker' \in [Op -> Worker] /\ pending' \subseteq Op
         /\ CallsInPhase' /\ WorkersFit' /\ ChannelFits' /\ WaitsForSource'
         /\ CloseWaits' /\ IdleLeavesNothing'
         /\ Native' = IF k = "ffi" /\ w = "running" THEN Native \cup {nextId} ELSE Native
         /\ nextId \notin Native
<1> USE DEF IInv
<1>1. /\ nextId \in Op /\ nextId \in Nat /\ nextId' = nextId + 1
      /\ kind[nextId] = "none" /\ worker[nextId] = "none"
      /\ nextId \notin settled /\ ~Has(ioq, nextId)
  BY NewOperation DEF Start
<1>2. /\ kind' \in [Op -> Kind] /\ worker' \in [Op -> Worker]
      /\ kind'[nextId] = k /\ worker'[nextId] = w
      /\ \A op \in Op : op # nextId => kind'[op] = kind[op] /\ worker'[op] = worker[op]
      /\ pending' = pending \cup {nextId}
  BY <1>1 DEF Start, TypeOK, Worker
<1>3. ioq' = ioq /\ settled' = settled /\ call' = call /\ phase' = phase /\ said' = said
  BY DEF hostVars
<1>4. nextId' \in 1 .. MaxOps + 1 /\ pending' \subseteq Op
  BY <1>1, <1>2, BoundAssumption DEF Op, TypeOK
<1>5. CallsInPhase'
  BY <1>3 DEF CallsInPhase
<1>6. WorkersFit'
  <2> SUFFICES ASSUME NEW op \in Op
               PROVE  /\ kind'[op] = "none" <=> op >= nextId'
                      /\ worker'[op] = "none" <=> kind'[op] = "none"
                      /\ worker'[op] \in {"returned", "unspawned"} => kind'[op] = "ffi"
    BY DEF WorkersFit
  <2>1. CASE op = nextId
    BY <2>1, <1>1, <1>2 DEF Kind
  <2>2. CASE op # nextId
    BY <2>2, <1>1, <1>2, BoundAssumption DEF WorkersFit, Op
  <2> QED BY <2>1, <2>2
<1>7. ChannelFits' /\ WaitsForSource'
  <2>1. call # "destroyed"
    BY DEF CallsInPhase
  <2>2. ChannelFits'
    BY <1>1, <1>2, <1>3, <2>1 DEF ChannelFits, TypeOK
  <2>3. WaitsForSource'
    BY <1>1, <1>2, <1>3, <2>1 DEF WaitsForSource, Served
  <2> QED BY <2>2, <2>3
<1>8. CloseWaits'
  <2> SUFFICES ASSUME NEW c \in Op, NEW op \in Op,
                      kind'[c] = "close", c \in settled \/ Has(ioq, c), op < c
               PROVE  ~InNative(op)'
    BY <1>3 DEF CloseWaits
  <2>1. c # nextId /\ kind[c] = "close"
    BY <1>1, <1>2
  <2>2. op # nextId
    BY <2>1, <1>1, BoundAssumption DEF WorkersFit, Op
  <2>3. ~InNative(op)
    BY <2>1 DEF CloseWaits
  <2> QED BY <2>2, <2>3, <1>2 DEF InNative
<1>9. IdleLeavesNothing'
  BY <1>3 DEF IdleLeavesNothing, CallsInPhase
<1>10. nextId \notin Native /\ Native' = IF k = "ffi" /\ w = "running" THEN Native \cup {nextId} ELSE Native
  BY <1>1, <1>2 DEF Native, InNative
<1> QED BY <1>2, <1>4, <1>5, <1>6, <1>7, <1>8, <1>9, <1>10

(* A step that leaves the operations where they are. *)
LEMMA QuietStep ==
  ASSUME IInv, UNCHANGED <<active, opVars, ioq, settled>>, call' = "destroyed" => call = "destroyed",
         call = "destroyed" => call' = "destroyed"
  PROVE  /\ WorkersFit' /\ ChannelFits' /\ WaitsForSource' /\ CloseWaits' /\ ActiveExact'
         /\ (IdleLeavesNothing' <=>
               (call' = "none" /\ said' = "idle" => \A op \in Op : ~Served(op) /\ ~Has(ioq, op)))
<1> USE DEF IInv, opVars
<1>1. WorkersFit' /\ ChannelFits'
  BY DEF WorkersFit, ChannelFits
<1>2. WaitsForSource' /\ CloseWaits'
  BY DEF WaitsForSource, CloseWaits, Served, InNative
<1>3. ActiveExact'
  BY DEF ActiveExact, InNative
<1>4. IdleLeavesNothing' <=>
        (call' = "none" /\ said' = "idle" => \A op \in Op : ~Served(op) /\ ~Has(ioq, op))
  BY DEF IdleLeavesNothing, Served
<1> QED BY <1>1, <1>2, <1>3, <1>4

(* The calls of the host, from their beginning to what they answer. *)
LEMMA HostStepIInv ==
  ASSUME IInv,
         \/ \E c \in {"eval", "run_async", "tick"} : BeginCall(c)
         \/ \E waiting \in {0, 1}, throws \in BOOLEAN : ScriptEnds(waiting, throws)
         \/ JobEnds \/ JobsEnd \/ Process \/ DriveEnds \/ ResultsSettled
         \/ TickReturns \/ RunAsyncIdle \/ RunAsyncTimesOut \/ RunAsyncGoesOn
         \/ FuncAsync
  PROVE  IInv'
<1> USE DEF IInv
<1>0. /\ UNCHANGED <<active, opVars, ioq, settled>>
      /\ closed' = closed /\ (call' = "destroyed" <=> call = "destroyed")
      /\ CallsInPhase'
      /\ call' = "none" /\ said' = "idle" /\ said # "idle" => pending = {} /\ call # "destroyed"
      /\ call' = "none" /\ said = "idle" => call = "none" /\ said' = said
      /\ call' \in Call /\ phase' \in Phase /\ round' \in 0 .. MaxRounds
      /\ said' \in {"none", "idle", "pending", "timed_out"}
      /\ haveFn' \in BOOLEAN
      /\ jobs' \in Nat /\ (jobs' <= jobs \/ jobs' <= 1)
  <2>1. ASSUME NEW c \in {"eval", "run_async", "tick"}, BeginCall(c) PROVE <1>0!:
    BY <2>1, BoundAssumption DEF BeginCall, CallsInPhase, TypeOK, Call, Phase, libVars, opVars
  <2>2. ASSUME NEW waiting \in {0, 1}, NEW throws \in BOOLEAN, ScriptEnds(waiting, throws) PROVE <1>0!:
    BY <2>2, BoundAssumption DEF ScriptEnds, CallsInPhase, TypeOK, Call, Phase, libVars, opVars
  <2>3. CASE JobEnds
    BY <2>3, BoundAssumption DEF JobEnds, CallsInPhase, TypeOK, Call, Phase, libVars, opVars, hostVars
  <2>4. CASE JobsEnd \/ Process \/ DriveEnds \/ ResultsSettled
    BY <2>4, BoundAssumption DEF JobsEnd, Process, DriveEnds, ResultsSettled, CallsInPhase, TypeOK, Call, Phase, libVars, opVars
  <2>5. CASE TickReturns \/ RunAsyncIdle \/ RunAsyncTimesOut
    BY <2>5, BoundAssumption DEF TickReturns, RunAsyncIdle, RunAsyncTimesOut, Return, CallsInPhase, TypeOK, Call, Phase, libVars, opVars
  <2>6. CASE RunAsyncGoesOn
    BY <2>6, BoundAssumption DEF RunAsyncGoesOn, CallsInPhase, TypeOK, Call, Phase, libVars, opVars
  <2>7. CASE FuncAsync
    BY <2>7, BoundAssumption DEF FuncAsync, CallsInPhase, TypeOK, Call, Phase, libVars, opVars, hostVars
  <2> QED BY <2>1, <2>2, <2>3, <2>4, <2>5, <2>6, <2>7
<1>1. /\ WorkersFit' /\ ChannelFits' /\ WaitsForSource' /\ CloseWaits' /\ ActiveExact'
      /\ (IdleLeavesNothing' <=>
            (call' = "none" /\ said' = "idle" => \A op \in Op : ~Served(op) /\ ~Has(ioq, op)))
  BY <1>0, QuietStep
<1>2. IdleLeavesNothing'
  <2> SUFFICES ASSUME call' = "none", said' = "idle" PROVE \A op \in Op : ~Served(op) /\ ~Has(ioq, op)
    BY <1>1
  <2>1. CASE said = "idle"
    BY <2>1, <1>0 DEF IdleLeavesNothing
  <2>2. CASE said # "idle"
    BY <2>2, <1>0 DEF WaitsForSource
  <2> QED BY <2>1, <2>2
<1>3. JobsFromSettled' /\ jobs' \in 0 .. MaxOps + 1
  <2>1. Cardinality(settled) \in 0 .. MaxOps /\ settled' = settled
    BY <1>0, CountsFit DEF TypeOK
  <2>2. jobs' \in Nat /\ jobs \in Nat /\ jobs <= 1 + Cardinality(settled) /\ (jobs' <= jobs \/ jobs' <= 1)
    BY <1>0 DEF TypeOK, JobsFromSettled
  <2>3. jobs' <= 1 + Cardinality(settled)
    BY <2>1, <2>2
  <2> QED BY <2>1, <2>2, <2>3, BoundAssumption DEF JobsFromSettled
<1>4. TypeOK'
  BY <1>0, <1>3 DEF TypeOK, opVars
<1> QED BY <1>0, <1>1, <1>2, <1>3, <1>4

-----------------------------------------------------------------------------
(* The script begins an operation. *)
LEMMA ScriptStepIInv ==
  ASSUME IInv, Fetch \/ CloseAsync \/ CallFunction \/ CallFunctionUnspawned
  PROVE  IInv'
<1> USE DEF IInv
<1>1. PICK k \in Kind \ {"none"}, w \in {"running", "unspawned"} :
        /\ Start(k, w) /\ UNCHANGED <<hostVars, ioq, settled, jobs>> /\ InScript
        /\ w = "unspawned" => k = "ffi"
        /\ active' = IF k = "ffi" /\ w = "running" THEN active + 1 ELSE active
        /\ closed' \in BOOLEAN /\ haveFn' \in BOOLEAN /\ asyncTasks' \subseteq Op
  <2>1. CASE Fetch
    BY <2>1 DEF Fetch, Kind, TypeOK, libVars
  <2>2. CASE CloseAsync
    BY <2>2 DEF CloseAsync, Kind, TypeOK
  <2>3. CASE CallFunction
    BY <2>3 DEF CallFunction, CallAsync, Start, Kind, TypeOK
  <2>4. CASE CallFunctionUnspawned
    BY <2>4 DEF CallFunctionUnspawned, CallAsync, Kind, TypeOK
  <2> QED BY <2>1, <2>2, <2>3, <2>4
<1>2. phase # "out" /\ UNCHANGED <<hostVars, ioq, settled>>
  BY <1>1 DEF InScript
<1>3. /\ nextId' \in 1 .. MaxOps + 1
      /\ kind' \in [Op -> Kind] /\ worker' \in [Op -> Worker] /\ pending' \subseteq Op
      /\ CallsInPhase' /\ WorkersFit' /\ ChannelFits' /\ WaitsForSource'
      /\ CloseWaits' /\ IdleLeavesNothing'
      /\ Native' = IF k = "ffi" /\ w = "running" THEN Native \cup {nextId} ELSE Native
      /\ nextId \notin Native
  BY <1>1, <1>2, StartsWell
<1>4. active' = Cardinality(Native') /\ active' \in 0 .. MaxOps
  <2>1. active = Cardinality(Native) /\ IsFiniteSet(Native)
    BY NativeFinite DEF ActiveExact, Native
  <2>2. Cardinality(Native \cup {nextId}) = Cardinality(Native) + 1
    BY <1>3, <2>1, FS_AddElement
  <2>3. active' = Cardinality(Native')
    BY <1>1, <1>3, <2>1, <2>2
  <2>4. Native' \in SUBSET Op
    BY DEF Native
  <2> QED BY <2>3, <2>4, CountsFit
<1>5. ActiveExact'
  BY <1>4 DEF ActiveExact, Native
<1>6. TypeOK' /\ JobsFromSettled'
  BY <1>1, <1>3, <1>4 DEF TypeOK, JobsFromSettled, hostVars
<1> QED BY <1>3, <1>5, <1>6

(* A task of the runtime sends its result: nothing native has changed.     *)
LEMMA TaskIInv ==
  ASSUME IInv, NEW op \in Op, FetchCompletes(op) \/ CloseCompletes(op)
  PROVE  IInv'
<1> USE DEF IInv
<1>1. /\ kind[op] \in {"fetch", "close"} /\ worker[op] = "running"
      /\ kind[op] = "close" => active = 0
      /\ TaskSends(op) /\ phase = "drive"
  BY DEF FetchCompletes, CloseCompletes
<1>2. /\ worker' \in [Op -> Worker] /\ worker'[op] = "done"
      /\ \A o \in Op : o # op => worker'[o] = worker[o]
      /\ ioq' = Append(ioq, op)
  BY <1>1 DEF TaskSends, TypeOK, Worker
<1>3. UNCHANGED <<hostVars, libVars, nextId, kind, pending, asyncTasks, settled, jobs>>
  BY <1>1 DEF TaskSends
<1>4. /\ ioq' \in Seq(Op) /\ OnceEach(ioq')
      /\ \A o : Has(ioq', o) <=> Has(ioq, o) \/ o = op
  BY <1>1, <1>2, AppendHas DEF ChannelFits, TypeOK
<1>5. call \notin {"none", "destroyed"}
  BY <1>1 DEF CallsInPhase
<1>6. \A o \in Op : InNative(o)' <=> InNative(o)
  BY <1>1, <1>2, <1>3 DEF InNative
<1>7. TypeOK' /\ JobsFromSettled' /\ CallsInPhase'
  BY <1>2, <1>3, <1>4 DEF TypeOK, JobsFromSettled, CallsInPhase, hostVars, libVars
<1>8. WorkersFit' /\ ChannelFits' /\ WaitsForSource' /\ IdleLeavesNothing'
  <2>1. WorkersFit'
    BY <1>1, <1>2, <1>3 DEF WorkersFit
  <2>2. ChannelFits'
    BY <1>1, <1>2, <1>3, <1>4, <1>5 DEF ChannelFits, hostVars, TypeOK
  <2>3. WaitsForSource'
    BY <1>1, <1>2, <1>3, <1>4, <1>5 DEF WaitsForSource, Served, hostVars
  <2>4. IdleLeavesNothing'
    BY <1>3, <1>5 DEF IdleLeavesNothing, hostVars
  <2> QED BY <2>1, <2>2, <2>3, <2>4
<1>9. CloseWaits'
  <2>1. kind[op] = "close" => \A o \in Op : ~InNative(o)
    <3> SUFFICES ASSUME kind[op] = "close" PROVE Native = {}
      BY DEF Native
    <3>1. IsFiniteSet(Native) /\ Cardinality(Native) = 0
      BY <1>1, NativeFinite DEF ActiveExact, Native
    <3> QED BY <3>1, FS_EmptySet
  <2> QED BY <2>1, <1>3, <1>4, <1>6 DEF CloseWaits
<1>10. ActiveExact'
  BY <1>3, <1>6 DEF ActiveExact, libVars
<1> QED BY <1>7, <1>8, <1>9, <1>10

(* A result settles its promise. *)
LEMMA SettleIInv ==
  ASSUME IInv, Settle
  PROVE  IInv'
<1> USE DEF IInv
<1> DEFINE op == Head(ioq)
<1>1. phase = "results" /\ ioq # <<>> /\ ioq' = Tail(ioq)
      /\ UNCHANGED <<hostVars, libVars, nextId, kind, worker, asyncTasks>>
  BY DEF Settle
<1>2. /\ op \in Op /\ Has(ioq, op)
      /\ ioq' \in Seq(Op) /\ OnceEach(ioq')
      /\ \A o : Has(ioq', o) <=> Has(ioq, o) /\ o # op
  BY <1>1, TailHas, NonEmptyHasHead DEF ChannelFits, TypeOK
<1>3. call \notin {"none", "destroyed"}
  BY <1>1 DEF CallsInPhase
<1>4. op \in pending /\ op \notin settled
  BY <1>2, <1>3 DEF WaitsForSource
<1>5. pending' = pending \ {op} /\ settled' = settled \cup {op} /\ jobs' = jobs + 1
  BY <1>4 DEF Settle
<1>6. JobsFromSettled' /\ jobs' \in 0 .. MaxOps + 1
  <2>1. IsFiniteSet(settled) /\ Cardinality(settled) \in 0 .. MaxOps
    BY CountsFit DEF TypeOK
  <2>2. Cardinality(settled') = Cardinality(settled) + 1
    BY <1>4, <1>5, <2>1, FS_AddElement
  <2>3. Cardinality(settled') \in 0 .. MaxOps
    <3>1. settled' \in SUBSET Op
      BY <1>2, <1>5 DEF TypeOK
    <3> QED BY <3>1, CountsFit
  <2> QED BY <1>5, <2>1, <2>2, <2>3, BoundAssumption DEF JobsFromSettled, TypeOK
<1>7. TypeOK'
  BY <1>1, <1>2, <1>5, <1>6 DEF TypeOK, hostVars, libVars
<1>8. CallsInPhase' /\ WorkersFit' /\ IdleLeavesNothing'
  BY <1>1, <1>3 DEF CallsInPhase, WorkersFit, IdleLeavesNothing, hostVars
<1>9. ChannelFits' /\ WaitsForSource'
  BY <1>1, <1>2, <1>3, <1>5 DEF ChannelFits, WaitsForSource, Served, hostVars
<1>10. CloseWaits' /\ ActiveExact'
  BY <1>1, <1>2, <1>5 DEF CloseWaits, ActiveExact, InNative, libVars
<1> QED BY <1>6, <1>7, <1>8, <1>9, <1>10

(* koss_destroy drops the tasks and the channel; threads go on. *)
LEMMA DestroyIInv ==
  ASSUME IInv, Destroy
  PROVE  IInv'
<1> USE DEF IInv
<1>1. /\ call = "none" /\ call' = "destroyed"
      /\ pending' = {} /\ asyncTasks' = {} /\ ioq' = <<>> /\ jobs' = 0
      /\ UNCHANGED <<phase, round, said, libVars, nextId, kind, settled>>
  BY DEF Destroy
<1>2. \A op \in Op : worker'[op] = IF kind[op] \in {"fetch", "close"} THEN "done" ELSE worker[op]
  BY DEF Destroy
<1>3. worker' \in [Op -> Worker] /\ ioq' \in Seq(Op) /\ \A op : ~Has(ioq', op)
  BY <1>1, EmptySeq, EmptyHasNone DEF Destroy, TypeOK, Worker
<1>4. TypeOK' /\ CallsInPhase' /\ JobsFromSettled'
  <2>1. Cardinality(settled) \in Nat
    BY CountsFit DEF TypeOK
  <2> QED BY <1>1, <1>3, <2>1, BoundAssumption DEF TypeOK, CallsInPhase, JobsFromSettled, Call, libVars
<1>5. WorkersFit'
  BY <1>1, <1>2 DEF WorkersFit
<1>6. ChannelFits' /\ WaitsForSource' /\ IdleLeavesNothing'
  BY <1>1, <1>2, <1>3, EmptyHasNone DEF ChannelFits, WaitsForSource, IdleLeavesNothing, TypeOK
<1>7. \A op \in Op : InNative(op)' <=> InNative(op)
  BY <1>1, <1>2 DEF InNative
<1>8. CloseWaits' /\ ActiveExact'
  BY <1>1, <1>3, <1>7 DEF CloseWaits, ActiveExact, libVars
<1> QED BY <1>4, <1>5, <1>6, <1>8

(* A thread leaves the library, and the count with it. *)
LEMMA ReturnsIInv ==
  ASSUME IInv, NEW op \in Op, ThreadReturns(op)
  PROVE  IInv'
<1> USE DEF IInv
<1>1. /\ kind[op] = "ffi" /\ worker[op] = "running" /\ active' = active - 1
      /\ UNCHANGED <<hostVars, closed, haveFn, nextId, kind, pending, asyncTasks, ioq, settled, jobs>>
  BY DEF ThreadReturns
<1>2. /\ worker' \in [Op -> Worker] /\ worker'[op] = "returned"
      /\ \A o \in Op : o # op => worker'[o] = worker[o]
  BY DEF ThreadReturns, TypeOK, Worker
<1>3. \A o \in Op : InNative(o)' <=> InNative(o) /\ o # op
  BY <1>1, <1>2 DEF InNative
<1>4. active' = Cardinality(Native') /\ active' \in 0 .. MaxOps
  <2>1. IsFiniteSet(Native) /\ active = Cardinality(Native)
    BY NativeFinite DEF ActiveExact, Native
  <2>2. Native' = Native \ {op} /\ op \in Native
    BY <1>1, <1>3 DEF Native, InNative
  <2>3. active' = Cardinality(Native')
    BY <1>1, <2>1, <2>2, FS_RemoveElement
  <2>4. Native' \in SUBSET Op
    BY DEF Native
  <2> QED BY <2>3, <2>4, CountsFit
<1>5. ActiveExact'
  BY <1>4 DEF ActiveExact, Native
<1>6. TypeOK' /\ CallsInPhase' /\ JobsFromSettled'
  BY <1>1, <1>2, <1>4 DEF TypeOK, CallsInPhase, JobsFromSettled, hostVars
<1>7. WorkersFit' /\ ChannelFits' /\ WaitsForSource'
  <2>1. WorkersFit'
    BY <1>1, <1>2 DEF WorkersFit
  <2>2. ChannelFits'
    BY <1>1, <1>2 DEF ChannelFits, TypeOK, hostVars
  <2>3. WaitsForSource'
    BY <1>1, <1>2 DEF WaitsForSource, Served, hostVars
  <2> QED BY <2>1, <2>2, <2>3
<1>8. CloseWaits' /\ IdleLeavesNothing'
  BY <1>1, <1>2, <1>3 DEF CloseWaits, IdleLeavesNothing, Served, hostVars
<1> QED BY <1>5, <1>6, <1>7, <1>8

(* A thread sends its result, if there is still somebody to receive it.    *)
LEMMA ReportsIInv ==
  ASSUME IInv, NEW op \in Op, ThreadReports(op)
  PROVE  IInv'
<1> USE DEF IInv
<1>1. /\ kind[op] = "ffi" /\ worker[op] = "returned"
      /\ UNCHANGED <<hostVars, libVars, nextId, kind, pending, asyncTasks, settled, jobs>>
  BY DEF ThreadReports
<1>2. /\ worker' \in [Op -> Worker] /\ worker'[op] = "done"
      /\ \A o \in Op : o # op => worker'[o] = worker[o]
  BY DEF ThreadReports, TypeOK, Worker
<1>3. \A o \in Op : InNative(o)' <=> InNative(o)
  BY <1>1, <1>2 DEF InNative
<1>4. ~Has(ioq, op)
  BY <1>1 DEF ChannelFits
<1>5. /\ ioq' \in Seq(Op) /\ OnceEach(ioq')
      /\ call = "destroyed" => ioq' = ioq
      /\ call # "destroyed" => \A o : Has(ioq', o) <=> Has(ioq, o) \/ o = op
  BY <1>4, AppendHas DEF ThreadReports, ChannelFits, TypeOK
<1>6. TypeOK' /\ CallsInPhase' /\ JobsFromSettled' /\ ActiveExact'
  BY <1>1, <1>2, <1>3, <1>5 DEF TypeOK, CallsInPhase, JobsFromSettled, ActiveExact, hostVars, libVars
<1>7. WorkersFit'
  BY <1>1, <1>2 DEF WorkersFit
<1>8. ChannelFits'
  BY <1>1, <1>2, <1>5 DEF ChannelFits, hostVars, TypeOK
<1>9. WaitsForSource'
  BY <1>1, <1>2, <1>5 DEF WaitsForSource, Served, hostVars
<1>10. CloseWaits'
  BY <1>1, <1>3, <1>5 DEF CloseWaits
<1>11. IdleLeavesNothing'
  BY <1>1, <1>2, <1>5 DEF IdleLeavesNothing, Served, hostVars
<1> QED BY <1>6, <1>7, <1>8, <1>9, <1>10, <1>11

LEMMA StepIInv == IInv /\ [Next]_vars => IInv'
<1> SUFFICES ASSUME IInv, [Next]_vars PROVE IInv'
  OBVIOUS
<1>1. CASE \E c \in {"eval", "run_async", "tick"} : BeginCall(c)
  BY <1>1, HostStepIInv
<1>2. CASE HostStep /\ ~Settle
  BY <1>2, HostStepIInv DEF HostStep
<1>3. CASE Settle
  BY <1>3, SettleIInv
<1>4. CASE ScriptStep
  BY <1>4, ScriptStepIInv, HostStepIInv DEF ScriptStep
<1>5. CASE Destroy
  BY <1>5, DestroyIInv
<1>6. ASSUME NEW op \in Op, FetchCompletes(op) \/ CloseCompletes(op) PROVE IInv'
  BY <1>6, TaskIInv
<1>7. ASSUME NEW op \in Op, ThreadReturns(op) \/ ThreadReports(op) PROVE IInv'
  BY <1>7, ReturnsIInv, ReportsIInv
<1>8. CASE UNCHANGED vars
  <2>1. UNCHANGED <<active, opVars, ioq, settled, hostVars, closed, haveFn, jobs>>
    BY <1>8 DEF vars, libVars
  <2>2. WorkersFit' /\ ChannelFits' /\ WaitsForSource' /\ CloseWaits' /\ ActiveExact' /\ IdleLeavesNothing'
    BY <2>1, QuietStep DEF IInv, IdleLeavesNothing, hostVars
  <2>3. TypeOK' /\ CallsInPhase' /\ JobsFromSettled'
    BY <2>1 DEF IInv, TypeOK, CallsInPhase, JobsFromSettled, hostVars, opVars
  <2> QED BY <2>2, <2>3 DEF IInv
<1>9. CASE Next
  <2>1. Finished => UNCHANGED vars
    BY DEF Finished
  <2> QED BY <1>1, <1>2, <1>3, <1>4, <1>5, <1>6, <1>7, <1>8, <1>9, <2>1 DEF Next
<1> QED BY <1>8, <1>9

LEMMA Invariance == Spec => []IInv
<1>1. Init => IInv
  BY InitIInv
<1>2. IInv /\ [Next]_vars => IInv'
  BY StepIInv
<1> QED BY <1>1, <1>2, PTL DEF Spec

-----------------------------------------------------------------------------
(***************************************************************************)
(* Structures: where the fields are.                                       *)
(***************************************************************************)
StructsInv ==
  /\ fields \in Seq(Structs!TypeName) /\ packing \in Nat \cup {NoPacking}
  /\ offsets \in Seq(Nat) /\ Len(offsets) <= Len(fields)
  /\ cursor \in Nat /\ size \in Nat
  /\ packing = NoPacking => align \in {1, 2, 4, 8}
  /\ cursor = IF Len(offsets) = 0 THEN 0
              ELSE offsets[Len(offsets)] + Structs!Size[fields[Len(offsets)]]
  /\ Structs!LayoutIsNatural /\ Structs!FieldsDoNotOverlap

(* Sizes are powers of two, *)
LEMMA Sizing == \A t \in Structs!TypeName : Structs!Size[t] \in {1, 2, 4, 8}
BY DEF Structs!Size

(* and rounding up to one is what the rules of C ask for. *)
LEMMA Rounding ==
  ASSUME NEW n \in Nat, NEW a \in {1, 2, 4, 8}
  PROVE  LET r == Structs!RoundUp(n, a)
         IN r \in Nat /\ r % a = 0 /\ n <= r /\ r < n + a
<1>1. CASE a = 1
  BY <1>1 DEF Structs!RoundUp
<1>2. CASE a = 2
  BY <1>2 DEF Structs!RoundUp
<1>3. CASE a = 4
  BY <1>3 DEF Structs!RoundUp
<1>4. CASE a = 8
  BY <1>4 DEF Structs!RoundUp
<1> QED BY <1>1, <1>2, <1>3, <1>4

LEMMA StructsInitInv == Structs!Init => StructsInv
<1> SUFFICES ASSUME Structs!Init PROVE StructsInv
  OBVIOUS
<1>1. /\ fields \in Seq(Structs!TypeName) /\ packing \in Nat \cup {NoPacking} /\ stage = "layout"
      /\ offsets = <<>> /\ cursor = 0 /\ align = 1 /\ size = 0
  BY StructsAssumption DEF Structs!Init
<1>2. offsets \in Seq(Nat) /\ Len(offsets) = 0 /\ DOMAIN offsets = {} /\ Len(fields) \in Nat
  BY <1>1, EmptySeq, LenProperties
<1> QED BY <1>1, <1>2 DEF StructsInv, Structs!LayoutIsNatural, Structs!FieldsDoNotOverlap

(* The next field begins where the last one ended, or as soon after it as  *)
(* its alignment allows.                                                   *)
LEMMA PlaceInv == ASSUME StructsInv, Structs!Place PROVE StructsInv'
<1> DEFINE n == Len(offsets)
           t == fields[n + 1]
           at == IF packing = NoPacking THEN Structs!RoundUp(cursor, Structs!FieldAlign(t)) ELSE cursor
<1>1. /\ stage = "layout" /\ n < Len(fields)
      /\ offsets' = Append(offsets, at) /\ cursor' = at + Structs!Size[t]
      /\ align' = IF align < Structs!FieldAlign(t) THEN Structs!FieldAlign(t) ELSE align
      /\ UNCHANGED <<fields, packing, stage, size>>
  BY DEF Structs!Place
<1>2. n \in Nat /\ Len(fields) \in Nat /\ t \in Structs!TypeName /\ n + 1 <= Len(fields)
  <2>1. n \in Nat /\ Len(fields) \in Nat
    BY LenProperties DEF StructsInv
  <2>2. n + 1 \in 1 .. Len(fields)
    BY <1>1, <2>1
  <2> QED BY <2>1, <2>2, ElementOfSeq DEF StructsInv
<1>3. PICK s \in {1, 2, 4, 8} : s = Structs!Size[t]
  BY <1>2, Sizing
<1>4. packing = NoPacking => Structs!FieldAlign(t) = s
  BY <1>3 DEF Structs!FieldAlign, Structs!Alignment
<1>5. /\ at \in Nat /\ cursor \in Nat /\ cursor <= at
      /\ packing = NoPacking => at % s = 0 /\ at < cursor + s
  <2>1. cursor \in Nat
    BY DEF StructsInv
  <2>2. CASE packing = NoPacking
    <3>1. at = Structs!RoundUp(cursor, s)
      BY <1>4, <2>2
    <3> HIDE DEF at
    <3> QED BY <2>1, <3>1, Rounding
  <2>3. CASE packing # NoPacking
    BY <2>1, <2>3
  <2> QED BY <2>2, <2>3
<1>6. packing = NoPacking => align' \in {1, 2, 4, 8}
  BY <1>1, <1>4 DEF StructsInv
<1> HIDE DEF n, t, at
<1>7. /\ offsets' \in Seq(Nat) /\ Len(offsets') = n + 1 /\ DOMAIN offsets' = 1 .. n + 1
      /\ offsets'[n + 1] = at /\ \A k \in 1 .. n : offsets'[k] = offsets[k]
      /\ DOMAIN offsets = 1 .. n
  BY <1>1, <1>2, <1>5, AppendProperties, LenProperties DEF StructsInv, n
<1>8. cursor' \in Nat /\ cursor' = at + s /\ fields'[n + 1] = t /\ fields' = fields
  BY <1>1, <1>3, <1>5 DEF t
<1>9. \A k \in 1 .. n : offsets[k] \in Nat /\ Structs!Size[fields[k]] \in Nat
                          /\ offsets[k] + Structs!Size[fields[k]] <= cursor
  <2>1. \A k \in 1 .. n : offsets[k] \in Nat /\ fields[k] \in Structs!TypeName
    BY <1>1, <1>2, ElementOfSeq DEF StructsInv, n
  <2>2. \A k \in 1 .. n : Structs!Size[fields[k]] \in Nat
    BY <2>1, Sizing
  <2>3. \A k \in 1 .. n : offsets[k] + Structs!Size[fields[k]] <= cursor
    BY <1>7 DEF StructsInv, Structs!FieldsDoNotOverlap
  <2> QED BY <2>1, <2>2, <2>3
<1>10. Structs!FieldsDoNotOverlap'
  <2>1. ASSUME NEW j \in 1 .. n + 1, NEW k \in 1 .. n + 1, j < k
        PROVE  offsets'[j] + Structs!Size[fields[j]] <= offsets'[k]
    <3>1. j \in 1 .. n
      BY <1>2, <2>1
    <3>2. CASE k \in 1 .. n
      BY <1>7, <2>1, <3>1, <3>2 DEF StructsInv, Structs!FieldsDoNotOverlap
    <3>3. CASE k = n + 1
      <4>1. offsets[j] + Structs!Size[fields[j]] \in Nat
        BY <1>9, <3>1
      <4> QED BY <1>5, <1>7, <1>9, <3>1, <3>3, <4>1
    <3> QED BY <1>2, <3>2, <3>3
  <2>2. ASSUME NEW k \in 1 .. n + 1 PROVE offsets'[k] + Structs!Size[fields[k]] <= cursor'
    <3>1. CASE k \in 1 .. n
      <4>1. offsets[k] + Structs!Size[fields[k]] \in Nat
        BY <1>9, <3>1
      <4> QED BY <1>5, <1>7, <1>8, <1>9, <3>1, <4>1
    <3>2. CASE k = n + 1
      BY <1>3, <1>7, <1>8, <3>2
    <3> QED BY <1>2, <3>1, <3>2
  <2>3. stage' # "ready"
    BY <1>1
  <2> QED BY <1>1, <1>7, <2>1, <2>2, <2>3 DEF Structs!FieldsDoNotOverlap
<1>11. Structs!LayoutIsNatural'
  <2> SUFFICES ASSUME packing = NoPacking, NEW k \in 1 .. n + 1 PROVE Structs!IsNaturalOffset(k)'
    BY <1>1, <1>7 DEF Structs!LayoutIsNatural
  <2>1. CASE k \in 1 .. n
    <3>1. Structs!IsNaturalOffset(k)
      BY <1>7, <2>1 DEF StructsInv, Structs!LayoutIsNatural
    <3>2. k # 1 => k - 1 \in 1 .. n
      BY <1>2, <2>1
    <3> QED BY <1>7, <1>8, <2>1, <3>1, <3>2 DEF Structs!IsNaturalOffset
  <2>2. CASE k = n + 1
    <3>1. cursor = IF k = 1 THEN 0 ELSE offsets'[k - 1] + Structs!Size[fields[k - 1]]
      <4>1. k = 1 <=> n = 0
        BY <1>2, <2>2
      <4>2. k # 1 => k - 1 = n /\ n \in 1 .. n
        BY <1>2, <2>2
      <4> QED BY <1>7, <4>1, <4>2 DEF StructsInv, n
    <3>2. offsets'[k] = at /\ fields'[k] = t /\ Structs!Alignment[t] = s
      BY <1>3, <1>7, <1>8, <2>2 DEF Structs!Alignment
    <3>3. at % s = 0 /\ at >= cursor /\ at < cursor + s
      BY <1>5
    <3> QED BY <1>8, <3>1, <3>2, <3>3 DEF Structs!IsNaturalOffset
  <2> QED BY <1>2, <2>1, <2>2
<1>12. cursor' = IF Len(offsets') = 0 THEN 0
                 ELSE offsets'[Len(offsets')] + Structs!Size[fields'[Len(offsets')]]
  BY <1>2, <1>3, <1>7, <1>8
<1> QED BY <1>1, <1>2, <1>6, <1>7, <1>8, <1>10, <1>11, <1>12 DEF StructsInv

LEMMA FinishInv == ASSUME StructsInv, Structs!Finish PROVE StructsInv'
<1>1. /\ stage' = "ready" /\ UNCHANGED <<fields, packing, offsets, cursor, align>>
      /\ size' = IF packing = NoPacking THEN Structs!RoundUp(cursor, align) ELSE cursor
  BY DEF Structs!Finish
<1>2. cursor \in Nat /\ (packing = NoPacking => align \in {1, 2, 4, 8})
  BY DEF StructsInv
<1>3. /\ size' \in Nat /\ cursor <= size'
      /\ packing = NoPacking => size' % align = 0 /\ size' >= cursor /\ size' < cursor + align
  <2>1. CASE packing = NoPacking
    <3>1. PICK r : r = Structs!RoundUp(cursor, align)
      OBVIOUS
    <3>2. r \in Nat /\ r % align = 0 /\ cursor <= r /\ r < cursor + align
      BY <1>2, <2>1, <3>1, Rounding
    <3> QED BY <1>1, <1>2, <2>1, <3>1, <3>2
  <2>2. CASE packing # NoPacking
    BY <1>1, <1>2, <2>2
  <2> QED BY <2>1, <2>2
<1>4. Structs!FieldsDoNotOverlap'
  BY <1>1, <1>3 DEF StructsInv, Structs!FieldsDoNotOverlap
<1>5. Structs!LayoutIsNatural'
  BY <1>1, <1>3 DEF StructsInv, Structs!LayoutIsNatural, Structs!IsNaturalOffset
<1> QED BY <1>1, <1>3, <1>4, <1>5 DEF StructsInv

LEMMA StructsStepInv == StructsInv /\ [Structs!Next]_structVars => StructsInv'
<1> SUFFICES ASSUME StructsInv, [Structs!Next]_structVars PROVE StructsInv'
  OBVIOUS
<1>1. ASSUME UNCHANGED <<fields, packing, offsets, cursor, align, size>>, stage' = stage \/ stage' = "panicked"
      PROVE  StructsInv'
  BY <1>1 DEF StructsInv, Structs!LayoutIsNatural, Structs!FieldsDoNotOverlap, Structs!IsNaturalOffset
<1>2. CASE UNCHANGED structVars
  BY <1>1, <1>2 DEF structVars
<1>3. CASE Structs!Panic
  BY <1>1, <1>3 DEF Structs!Panic
<1>4. CASE \/ \E ks \in SUBSET Structs!Field : \E init \in [ks -> Inputs] : Structs!Construct(init)
           \/ \E k \in Structs!Field, v \in Inputs : Structs!Set(k, v) \/ Structs!Store(k, v)
  <2>1. UNCHANGED Structs!layoutVars
    BY <1>4 DEF Structs!Construct, Structs!Set, Structs!Store
  <2> QED BY <1>1, <2>1 DEF Structs!layoutVars
<1> QED BY <1>2, <1>3, <1>4, PlaceInv, FinishInv DEF Structs!Next

(* A number is the quotient's multiple of the divisor, and the rest. *)
LEMMA DivMod ==
  ASSUME NEW b \in Nat \ {0}, NEW m \in Int
  PROVE  \E q \in Int, r \in 0 .. b - 1 :
           /\ q = m \div b /\ r = m % b /\ m = b * q + r /\ (m \in Nat => q \in Nat)
<1>1. PICK q \in Int : q = m \div b
  OBVIOUS
<1>2. PICK r \in 0 .. b - 1 : r = m % b
  OBVIOUS
<1>3. r = m - b * q
  BY <1>1, <1>2
<1>4. m = b * q + r
  <2>1. PICK p \in Int : p = b * q
    OBVIOUS
  <2> QED BY <1>3, <2>1
<1>5. m \in Nat => q \in Nat
  BY <1>1
<1> QED BY <1>1, <1>2, <1>4, <1>5
LEMMA ProdMono == ASSUME NEW b \in Nat, NEW c \in Int, NEW d \in Int, c <= d PROVE b * c <= b * d
OBVIOUS
LEMMA Unique ==
  ASSUME NEW b \in Nat \ {0}, NEW q \in Int, NEW p \in Int,
         NEW r \in 0 .. b - 1, NEW s \in 0 .. b - 1, b * q + r = b * p + s
  PROVE  q = p /\ r = s
<1>1. ASSUME NEW x \in Int, NEW y \in Int, x < y, NEW u \in 0 .. b - 1, NEW v \in 0 .. b - 1
      PROVE  b * x + u < b * y + v
  <2>1. b * (x + 1) <= b * y /\ b * (x + 1) = b * x + b
    BY <1>1, ProdMono
  <2>2. b * x \in Int /\ b * y \in Int
    OBVIOUS
  <2> QED BY <2>1, <2>2
<1>2. ~(q < p) /\ ~(p < q)
  <2>1. b * q \in Int /\ b * p \in Int
    OBVIOUS
  <2> QED BY <1>1, <2>1
<1>3. q = p
  BY <1>2
<1>4. b * q \in Int
  OBVIOUS
<1> QED BY <1>3, <1>4
LEMMA Digit ==
  ASSUME NEW b \in Nat \ {0}, NEW w \in Nat \ {0}, NEW m \in Nat
  PROVE  m % (b * w) = (m % w) + ((m \div w) % b) * w
<1>1. PICK q \in Nat, r \in 0 .. w - 1 : q = m \div w /\ r = m % w /\ m = w * q + r
  BY DivMod
<1>2. PICK c \in Nat, d \in 0 .. b - 1 : c = q \div b /\ d = q % b /\ q = b * c + d
  BY DivMod
<1>3. PICK v \in Nat \ {0} : v = b * w
  OBVIOUS
<1>4. PICK s \in Int : s = w * d + r
  OBVIOUS
<1>5. s \in 0 .. v - 1
  <2>1. w * (d + 1) <= w * b /\ w * (d + 1) = w * d + w /\ w * d \in Nat /\ w * b = v
    BY <1>3, ProdMono
  <2> QED BY <1>4, <2>1
<1>6. m = v * c + s
  <2>1. PICK e \in Int, f \in Int : e = w * d /\ f = v * c
    OBVIOUS
  <2>2. w * q = f + e
    <3>1. w * (b * c + d) = w * (b * c) + w * d /\ w * (b * c) = v * c
      BY <1>3
    <3> QED BY <1>2, <2>1, <3>1
  <2>3. s = e + r /\ m = (f + e) + r
    BY <1>1, <1>4, <2>1, <2>2
  <2> QED BY <2>1, <2>3
<1>7. m % v = s
  <2>1. PICK y \in Nat, z \in 0 .. v - 1 : y = m \div v /\ z = m % v /\ m = v * y + z
    BY DivMod
  <2> QED BY <1>5, <1>6, <2>1, Unique
<1>8. w * d = d * w /\ w * d \in Int
  OBVIOUS
<1> QED BY <1>1, <1>2, <1>3, <1>4, <1>7, <1>8

-----------------------------------------------------------------------------
(* Sums over a finite set, in whatever order CHOOSE takes its elements.    *)
Some(s) == CHOOSE x \in s : TRUE
Sums(it, D, f) ==
  it = [s \in SUBSET D |-> IF s = {} THEN 0 ELSE f[Some(s)] + it[s \ {Some(s)}]]

LEMMA SomeIsIn == \A s : s # {} => Some(s) \in s
BY DEF Some

LEMMA SumsExist ==
  ASSUME NEW D, IsFiniteSet(D), NEW f \in [D -> Nat]
  PROVE  \E it : Sums(it, D, f)
<1> DEFINE After(s, n) == IF s = {} THEN 0 ELSE f[Some(s)] + n
           step == [a \in (SUBSET D) \X Nat |-> After(a[1], a[2])]
           pick == [s \in SUBSET D |-> Some(s)]
<1>1. ASSUME NEW s \in SUBSET D, NEW n \in Nat PROVE After(s, n) \in Nat
  BY SomeIsIn
<1>2. step \in [(SUBSET D) \X Nat -> Nat]
  <2> HIDE DEF After
  <2> QED BY <1>1
<1>3. Picks(pick, D)
  BY SomeIsIn DEF Picks
<1>4. PICK h \in [SUBSET D -> Nat] : Unfolds(h, D, 0, pick, step)
  <2>1. 0 \in Nat
    OBVIOUS
  <2> HIDE DEF step, pick
  <2> QED BY <1>2, <1>3, <2>1, SubsetRecursion
<1>5. ASSUME NEW s \in SUBSET D, s # {} PROVE h[s] = f[Some(s)] + h[s \ {Some(s)}]
  <2>1. s \ {Some(s)} \in SUBSET D /\ pick[s] = Some(s)
    BY <1>5
  <2>2. <<s, h[s \ {Some(s)}]>> \in (SUBSET D) \X Nat
    BY <2>1
  <2>3. h[s] = step[<<s, h[s \ {Some(s)}]>>]
    BY <1>4, <1>5, <2>1 DEF Unfolds
  <2> HIDE DEF pick
  <2> QED BY <1>5, <2>2, <2>3
<1>6. Sums(h, D, f)
  <2> HIDE DEF step, pick
  <2> QED BY <1>4, <1>5 DEF Unfolds, Sums
<1> QED BY <1>6

(* The order does not matter: any element can be taken last. *)
LEMMA SumsStep ==
  ASSUME NEW D, IsFiniteSet(D), NEW f \in [D -> Nat], NEW it, Sums(it, D, f)
  PROVE  /\ it[{}] = 0
         /\ \A s \in SUBSET D : it[s] \in Nat
         /\ \A s \in SUBSET D, x \in D : x \in s => it[s] = f[x] + it[s \ {x}]
<1>1. it[{}] = 0
  BY DEF Sums
<1>2. ASSUME NEW s \in SUBSET D, s # {}
      PROVE  /\ Some(s) \in s /\ s \ {Some(s)} \in SUBSET D
             /\ it[s] = f[Some(s)] + it[s \ {Some(s)}]
  BY <1>2, SomeIsIn DEF Sums
<1> DEFINE Fine(s) == it[s] \in Nat /\ \A x \in s : it[s] = f[x] + it[s \ {x}]
           Bad == {s \in SUBSET D : ~Fine(s)}
<1>3. ASSUME NEW s \in Bad PROVE \E r \in Bad : r \subseteq s /\ r # s
  <2> SUFFICES ASSUME \A r \in SUBSET D : r \subseteq s /\ r # s => Fine(r) PROVE Fine(s)
    OBVIOUS
  <2>0. s \in SUBSET D
    OBVIOUS
  <2> HIDE DEF Bad
  <2>1. CASE s = {}
    BY <1>1, <2>1
  <2>2. CASE s # {}
    <3>1. PICK y \in s : y = Some(s) /\ it[s] = f[y] + it[s \ {y}] /\ y \in D
      BY <1>2, <2>0, <2>2
    <3>2. Fine(s \ {y})
      BY <2>0
    <3>3. f[y] \in Nat /\ it[s] \in Nat
      BY <3>1, <3>2
    <3>4. ASSUME NEW x \in s PROVE it[s] = f[x] + it[s \ {x}]
      <4>1. CASE x = y
        BY <3>1, <4>1
      <4>2. CASE x # y
        <5>1. Fine(s \ {x}) /\ x \in s \ {y} /\ y \in s \ {x}
          BY <2>0, <4>2
        <5>2. PICK r \in SUBSET D : r = (s \ {x}) \ {y} /\ r = (s \ {y}) \ {x}
          BY <2>0
        <5>3. it[s \ {y}] = f[x] + it[r] /\ it[s \ {x}] = f[y] + it[r]
          BY <3>2, <5>1, <5>2
        <5>4. Fine(r) /\ f[x] \in Nat
          BY <2>0, <5>1, <5>2
        <5>5. it[r] \in Nat
          BY <5>4
        <5> HIDE DEF Fine
        <5> QED BY <3>1, <3>3, <5>3, <5>4, <5>5
      <4> QED BY <4>1, <4>2
    <3> QED BY <3>3, <3>4
  <2> QED BY <2>1, <2>2
<1>4. Bad = {}
  <2>1. Bad \subseteq SUBSET D
    OBVIOUS
  <2> HIDE DEF Bad
  <2> QED BY <1>3, <2>1, SubsetInduction
<1>5. \A s \in SUBSET D : Fine(s)
  BY <1>4
<1> QED BY <1>1, <1>5

-----------------------------------------------------------------------------
(***************************************************************************)
(* The bytes of a number, and the number of bytes.                         *)
(***************************************************************************)
Weight == [i \in 0 .. 8 |-> ByteValues ^ i]

LEMMA Weights ==
  /\ Weight[0] = 1
  /\ \A i \in 0 .. 7 : Weight[i + 1] = ByteValues * Weight[i]
  /\ \A i \in 0 .. 8 : Weight[i] = ByteValues ^ i /\ Weight[i] \in Nat \ {0}
<1>1. /\ Weight[0] = 1 /\ \A i \in 0 .. 7 : Weight[i + 1] = ByteValues * Weight[i]
      /\ \A i \in 0 .. 8 : Weight[i] = ByteValues ^ i
  <2>1. \A i \in 0 .. 8 : Weight[i] = ByteValues ^ i
    BY DEF Weight
  <2>2. \A i \in 0 .. 7 : i + 1 \in 0 .. 8 /\ i \in 0 .. 8
    OBVIOUS
  <2> QED BY <2>1, <2>2, TypesAssumption
<1> DEFINE Bad == {i \in 0 .. 8 : Weight[i] \notin Nat \ {0}}
<1>2. SUFFICES ASSUME Bad # {} PROVE FALSE
  BY <1>1
<1>3. PICK i \in Bad : \A j \in Bad : i <= j
  <2>1. IsFiniteSet(0 .. 8)
    <3>1. 0 \in Int /\ 8 \in Int
      OBVIOUS
    <3> QED BY <3>1, FS_Interval
  <2>2. IsFiniteSet(Bad) /\ Bad \subseteq Nat
    BY <2>1, FS_Subset
  <2> HIDE DEF Bad
  <2> QED BY <1>2, <2>2, Smallest
<1>4. i # 0
  BY <1>1
<1>5. i - 1 \in 0 .. 7 /\ i - 1 \notin Bad /\ i = (i - 1) + 1
  BY <1>3, <1>4
<1>6. PICK w \in Nat \ {0} : w = Weight[i - 1]
  BY <1>5
<1>7. Weight[i] = ByteValues * w /\ ByteValues \in Nat \ {0}
  BY <1>1, <1>5, <1>6, TypesAssumption
<1>8. ByteValues * w \in Nat \ {0}
  BY <1>7
<1> QED BY <1>7, <1>8

SumOf(bytes, n) == V!MapThenSumSet(LAMBDA i : bytes[i] * ByteValues ^ i, 0 .. n - 1)

(* Adding up the bytes by their weights gives the number back. *)
LEMMA BytesAddUp ==
  ASSUME NEW n \in 0 .. 8, NEW m \in Nat, NEW bytes,
         \A i \in 0 .. n - 1 : bytes[i] = (m \div ByteValues ^ i) % ByteValues
  PROVE  SumOf(bytes, n) = m % ByteValues ^ n
<1> DEFINE D == 0 .. n - 1
           f == [i \in D |-> bytes[i] * ByteValues ^ i]
           Good(it) == it = [s \in SUBSET D |->
                               IF s = {} THEN 0
                               ELSE LET x == CHOOSE x \in s : TRUE
                                    IN (bytes[x] * ByteValues ^ x) + it[s \ {x}]]
           sum == CHOOSE it : Good(it)
<1>1. SumOf(bytes, n) = sum[D]
  BY DEF SumOf, V!MapThenSumSet, V!MapThenFoldSet
<1>2. IsFiniteSet(D)
  BY FS_Interval
<1>3. ASSUME NEW i \in D
      PROVE  \E d \in 0 .. ByteValues - 1 : d = (m \div Weight[i]) % ByteValues /\ f[i] = d * Weight[i]
                                            /\ f[i] \in Nat
  <2>1. i \in 0 .. 8 /\ bytes[i] = (m \div Weight[i]) % ByteValues /\ f[i] = bytes[i] * Weight[i]
    BY Weights
  <2>2. PICK w \in Nat \ {0} : w = Weight[i]
    BY <2>1, Weights
  <2>3. PICK q \in Nat : q = m \div w
    BY <2>2, DivMod
  <2>4. ByteValues \in Nat \ {0} /\ q \in Int
    BY TypesAssumption
  <2>5. PICK d \in 0 .. ByteValues - 1 : d = q % ByteValues
    <3> HIDE DEF f, D
    <3> QED BY <2>4, DivMod
  <2>6. d * w \in Nat
    BY <2>4
  <2> HIDE DEF f
  <2> QED BY <2>1, <2>2, <2>3, <2>5, <2>6
<1>4. f \in [D -> Nat]
  <2>1. \A i \in D : f[i] \in Nat
    BY <1>3
  <2> QED BY <2>1
<1>5. \A it : Good(it) <=> Sums(it, D, f)
  <2>1. ASSUME NEW it, NEW s \in SUBSET D, s # {}
        PROVE  (bytes[Some(s)] * ByteValues ^ Some(s)) + it[s \ {Some(s)}] = f[Some(s)] + it[s \ {Some(s)}]
    <3>1. Some(s) \in D
      BY <2>1, SomeIsIn
    <3> HIDE DEF D
    <3> QED BY <3>1
  <2> HIDE DEF f, D
  <2> QED BY <2>1 DEF Sums, Some
<1>6. Sums(sum, D, f)
  <2>1. \E it : Good(it)
    <3> HIDE DEF Good, f, D
    <3> QED BY <1>2, <1>4, <1>5, SumsExist
  <2>2. Good(sum)
    <3> HIDE DEF Good
    <3> QED BY <2>1
  <2> HIDE DEF Good, f, D, sum
  <2> QED BY <1>5, <2>2
<1> HIDE DEF sum
<1>7. /\ sum[{}] = 0
      /\ \A s \in SUBSET D : sum[s] \in Nat
      /\ \A s \in SUBSET D, x \in D : x \in s => sum[s] = f[x] + sum[s \ {x}]
  <2> HIDE DEF f, D
  <2> QED BY <1>2, <1>4, <1>6, SumsStep
<1> DEFINE Bad == {k \in 0 .. n : sum[0 .. k - 1] # m % Weight[k]}
<1>8. Bad = {}
  <2> SUFFICES ASSUME Bad # {} PROVE FALSE
    OBVIOUS
  <2>1. PICK k \in Bad : \A j \in Bad : k <= j
    <3>1. IsFiniteSet(0 .. n)
      BY FS_Interval
    <3>2. IsFiniteSet(Bad) /\ Bad \subseteq Nat
      BY <3>1, FS_Subset
    <3> HIDE DEF Bad
    <3> QED BY <3>2, Smallest
  <2>2. k # 0
    <3>1. 0 .. 0 - 1 = {} /\ m % 1 = 0
      OBVIOUS
    <3> QED BY <1>7, <3>1, Weights
  <2>3. PICK j \in 0 .. n - 1 : k = j + 1 /\ j \notin Bad /\ j \in 0 .. 7
    <3>1. k - 1 \in 0 .. n - 1 /\ k = (k - 1) + 1 /\ ~(k <= k - 1) /\ k - 1 \in 0 .. 7
      BY <2>2
    <3>2. k - 1 \notin Bad
      <4> HIDE DEF Bad
      <4> QED BY <2>1, <3>1
    <3> HIDE DEF Bad
    <3> QED BY <3>1, <3>2
  <2>4. sum[0 .. j - 1] = m % Weight[j]
    BY <2>3
  <2>5. sum[0 .. j] = f[j] + sum[0 .. j - 1]
    <3>1. 0 .. j \in SUBSET D /\ j \in D /\ j \in 0 .. j /\ (0 .. j) \ {j} = 0 .. j - 1
      OBVIOUS
    <3>2. sum[0 .. j] = f[j] + sum[(0 .. j) \ {j}]
      <4> HIDE DEF D, f
      <4> QED BY <1>7, <3>1
    <3> HIDE DEF D, f
    <3> QED BY <3>1, <3>2
  <2>6. sum[0 .. k - 1] = f[j] + (m % Weight[j])
    <3>1. k - 1 = j /\ 0 .. k - 1 = 0 .. j
      BY <2>3
    <3>2. sum[0 .. k - 1] = sum[0 .. j]
      BY <3>1
    <3> HIDE DEF f, Bad
    <3> QED BY <2>4, <2>5, <3>2
  <2>7. PICK w \in Nat \ {0} : w = Weight[j] /\ Weight[k] = ByteValues * w
    <3>1. Weight[j + 1] = ByteValues * Weight[j] /\ j \in 0 .. 8 /\ k = j + 1
      <4> HIDE DEF Bad
      <4> QED BY <2>3, Weights
    <3>2. PICK w \in Nat \ {0} : w = Weight[j]
      BY <3>1, Weights
    <3> HIDE DEF Bad
    <3> QED BY <3>1, <3>2
  <2>8. m % (ByteValues * w) = (m % w) + ((m \div w) % ByteValues) * w
    BY TypesAssumption, Digit
  <2>9. f[j] = ((m \div w) % ByteValues) * w /\ f[j] \in Nat
    BY <1>3, <2>7
  <2>10. m % w \in Nat
    OBVIOUS
  <2>11. sum[0 .. k - 1] = m % Weight[k]
    <3>1. PICK d \in Nat : d = ((m \div w) % ByteValues) * w
      BY <2>9
    <3>2. PICK r \in Nat : r = m % w
      BY <2>10
    <3>3. sum[0 .. k - 1] = d + r
      <4> HIDE DEF f, Bad
      <4>1. f[j] = d /\ m % Weight[j] = r
        BY <2>7, <2>9, <3>1, <3>2
      <4> QED BY <2>6, <4>1
    <3>4. m % Weight[k] = r + d
      <4> HIDE DEF f, Bad
      <4> QED BY <2>7, <2>8, <3>1, <3>2
    <3> HIDE DEF f, Bad
    <3> QED BY <3>3, <3>4
  <2> QED BY <2>11
<1>9. n \in 0 .. n /\ n \in 0 .. 8
  OBVIOUS
<1>10. sum[0 .. n - 1] = m % Weight[n] /\ Weight[n] = ByteValues ^ n
  BY <1>8, <1>9, Weights
<1> QED BY <1>1, <1>10

(* The range of a type: all the numbers its bytes have room for, and for a *)
(* signed one half of them below zero.                                     *)
LEMMA Ranges ==
  ASSUME NEW t \in V!TypeName
  PROVE  \E s \in {1, 2, 4, 8}, half \in Nat \ {0} :
           /\ V!Size[t] = s /\ V!Limit(t) = 2 * half /\ ByteValues ^ s = 2 * half
           /\ t \in V!Signed => V!Low(t) = -half /\ V!High(t) = half - 1
           /\ t \notin V!Signed => V!Low(t) = 0 /\ V!High(t) = 2 * half - 1
<1>1. PICK s \in {1, 2, 4, 8} : V!Size[t] = s
  BY DEF V!Size
<1>2. PICK j \in 0 .. 7 : s = j + 1
  <2>1. s - 1 \in 0 .. 7 /\ s = (s - 1) + 1
    OBVIOUS
  <2> QED BY <2>1
<1>3. PICK w \in Nat \ {0} : ByteValues ^ s = ByteValues * w
  <2>1. j + 1 \in 0 .. 8 /\ j \in 0 .. 8
    OBVIOUS
  <2>2. Weight[j + 1] = ByteValues ^ s /\ Weight[j + 1] = ByteValues * Weight[j]
    BY <1>2, <2>1, Weights
  <2>3. Weight[j] \in Nat \ {0}
    BY <2>1, Weights
  <2> QED BY <2>2, <2>3
<1>4. PICK b \in Nat \ {0} : ByteValues = 2 * b
  <2>1. PICK q \in Nat : q = ByteValues \div 2
    BY TypesAssumption
  <2> QED BY <2>1, TypesAssumption
<1>5. PICK half \in Nat \ {0} : half = b * w
  OBVIOUS
<1>6. ByteValues ^ s = 2 * half
  BY <1>3, <1>4, <1>5
<1>7. V!Limit(t) = 2 * half /\ (2 * half) \div 2 = half
  BY <1>1, <1>6 DEF V!Limit
<1> QED BY <1>1, <1>6, <1>7 DEF V!Low, V!High

(* Every byte is one. *)
Bytes == 0 .. ByteValues - 1

LEMMA EncodesBytes ==
  ASSUME NEW t \in V!TypeName, NEW n \in Int
  PROVE  V!Encode(t, n) \in [0 .. V!Size[t] - 1 -> Bytes]
<1>1. PICK s \in {1, 2, 4, 8}, half \in Nat \ {0} : V!Size[t] = s /\ V!Limit(t) = 2 * half
  BY Ranges
<1>2. PICK m \in Nat : m = n % V!Limit(t)
  BY <1>1
<1>3. ASSUME NEW i \in 0 .. s - 1 PROVE ((n % V!Limit(t)) \div ByteValues ^ i) % ByteValues \in Bytes
  <2>1. PICK w \in Nat \ {0} : w = ByteValues ^ i
    <3>1. i \in 0 .. 8
      OBVIOUS
    <3> QED BY <3>1, Weights
  <2>2. PICK q \in Nat : q = m \div w
    BY DivMod
  <2>3. q % ByteValues \in Bytes
    BY TypesAssumption DEF Bytes
  <2> QED BY <1>2, <2>1, <2>2, <2>3
<1> QED BY <1>1, <1>3 DEF V!Encode

(* What is encoded is decoded, sign and all. *)
LEMMA Decodes ==
  ASSUME NEW t \in V!TypeName, NEW n \in V!Low(t) .. V!High(t)
  PROVE  V!Decode(t, V!Encode(t, n)) = n
<1>1. PICK s \in {1, 2, 4, 8}, half \in Nat \ {0} :
        /\ V!Size[t] = s /\ V!Limit(t) = 2 * half /\ ByteValues ^ s = 2 * half
        /\ t \in V!Signed => V!Low(t) = -half /\ V!High(t) = half - 1
        /\ t \notin V!Signed => V!Low(t) = 0 /\ V!High(t) = 2 * half - 1
  BY Ranges
<1>2. n \in Int
  BY <1>1
<1> DEFINE bytes == V!Encode(t, n)
<1>3. PICK m \in 0 .. 2 * half - 1 : m = n % V!Limit(t)
  BY <1>1, <1>2
<1>4. m = IF n < 0 THEN n + 2 * half ELSE n
  BY <1>1, <1>2, <1>3
<1>5. \A i \in 0 .. s - 1 : bytes[i] = (m \div ByteValues ^ i) % ByteValues
  BY <1>1, <1>3 DEF V!Encode
<1> HIDE DEF bytes
<1>6. SumOf(bytes, s) = m % ByteValues ^ s
  <2>1. s \in 0 .. 8 /\ m \in Nat
    OBVIOUS
  <2> QED BY <1>5, <2>1, BytesAddUp
<1>7. SumOf(bytes, V!Size[t]) = m
  BY <1>1, <1>6
<1>8. V!Decode(t, bytes) = IF m > V!High(t) THEN m - V!Limit(t) ELSE m
  <2>1. V!Decode(t, bytes) = LET u == SumOf(bytes, V!Size[t])
                             IN IF u > V!High(t) THEN u - V!Limit(t) ELSE u
    BY DEF V!Decode, SumOf, V!MapThenSumSet, V!MapThenFoldSet
  <2> QED BY <1>7, <2>1
<1>9. (IF m > V!High(t) THEN m - V!Limit(t) ELSE m) = n
  BY <1>1, <1>2, <1>4
<1> QED BY <1>8, <1>9 DEF bytes

(* `as` and the nearest value of a type are the same. *)
LEMMA Nearby ==
  ASSUME NEW t \in V!TypeName, NEW n \in Int
  PROVE  LET c == IF n < V!Low(t) THEN V!Low(t) ELSE IF n > V!High(t) THEN V!High(t) ELSE n
         IN c \in V!Low(t) .. V!High(t) /\ V!Nearest(t, n) = c
<1>1. PICK s \in {1, 2, 4, 8}, half \in Nat \ {0} :
        /\ V!Size[t] = s /\ V!Limit(t) = 2 * half /\ ByteValues ^ s = 2 * half
        /\ t \in V!Signed => V!Low(t) = -half /\ V!High(t) = half - 1
        /\ t \notin V!Signed => V!Low(t) = 0 /\ V!High(t) = 2 * half - 1
  BY Ranges
<1>2. PICK a \in Int, b \in Int : a = V!Low(t) /\ b = V!High(t) /\ a <= 0 /\ 0 <= b
  BY <1>1
<1> DEFINE c == IF n < a THEN a ELSE IF n > b THEN b ELSE n
           Best(m) == \A x \in {n, a, b} : x \in a .. b => V!Magnitude(n - m) <= V!Magnitude(n - x)
<1>3. c \in a .. b
  BY <1>2
<1>4. ASSUME NEW m \in a .. b PROVE Best(m) <=> m = c
  <2>1. ASSUME m = c, NEW x \in {n, a, b}, x \in a .. b
        PROVE  V!Magnitude(n - m) <= V!Magnitude(n - x)
    BY <1>2, <2>1 DEF V!Magnitude
  <2>2. ASSUME Best(m) PROVE m = c
    <3>1. c \in {n, a, b}
      OBVIOUS
    <3>2. V!Magnitude(n - m) <= V!Magnitude(n - c)
      <4> HIDE DEF c
      <4> QED BY <1>3, <2>2, <3>1
    <3> QED BY <1>2, <3>2 DEF V!Magnitude
  <2> QED BY <2>1, <2>2
<1>5. V!Nearest(t, n) = CHOOSE m \in a .. b : Best(m)
  BY <1>2 DEF V!Nearest
<1>6. (CHOOSE m \in a .. b : Best(m)) = c
  <2> HIDE DEF Best, c
  <2> QED BY <1>3, <1>4
<1> QED BY <1>2, <1>3, <1>5, <1>6

(* Numbers up to Exact are the same as f64. *)
LEMMA ExactNumbers ==
  ASSUME NEW n \in Int, V!Magnitude(n) <= Exact
  PROVE  V!AsF64(n) = n
<1>1. PICK m \in Nat : m = V!Magnitude(n) /\ n = IF n < 0 THEN -m ELSE m
  BY DEF V!Magnitude
<1> DEFINE Powers == {2 ^ k : k \in 0 .. 16}
           Fits(s) == m <= s * Exact /\ (s = 1 \/ 2 * m > s * Exact)
<1>2. \A s \in Powers : s \in Nat /\ (s = 1 \/ s >= 2)
  <2> DEFINE Bad == {k \in 0 .. 16 : ~(2 ^ k \in Nat /\ (2 ^ k = 1 \/ 2 ^ k >= 2))}
  <2>1. SUFFICES ASSUME Bad # {} PROVE FALSE
    BY <2>1
  <2>2. PICK k \in Bad : \A j \in Bad : k <= j
    <3>1. 0 \in Int /\ 16 \in Int
      OBVIOUS
    <3>2. IsFiniteSet(0 .. 16)
      BY <3>1, FS_Interval
    <3>3. IsFiniteSet(Bad) /\ Bad \subseteq Nat
      BY <3>2, FS_Subset
    <3> HIDE DEF Bad
    <3> QED BY <2>1, <3>3, Smallest
  <2>3. k # 0
    <3>1. 2 ^ 0 \in Nat /\ 2 ^ 0 = 1
      BY TypesAssumption
    <3>2. 0 \notin Bad
      BY <3>1
    <3> QED BY <3>2
  <2>4. k - 1 \in 0 .. 15 /\ k - 1 \notin Bad /\ k = (k - 1) + 1
    BY <2>2, <2>3
  <2>5. PICK j \in 0 .. 15 : k = j + 1 /\ j \notin Bad
    BY <2>4
  <2>6. PICK p \in Nat \ {0} : p = 2 ^ j
    BY <2>5
  <2>7. 2 ^ (j + 1) = 2 * 2 ^ j
    BY TypesAssumption
  <2>8. 2 ^ k = 2 * p
    BY <2>5, <2>6, <2>7
  <2> QED BY <2>8
<1>3. 1 \in Powers /\ Fits(1)
  <2>1. 2 ^ 0 = 1 /\ 0 \in 0 .. 16
    BY TypesAssumption
  <2>2. m <= 1 * Exact
    BY <1>1, TypesAssumption
  <2> QED BY <2>1, <2>2
<1>4. ASSUME NEW s \in Powers, Fits(s) PROVE s = 1
  <2>1. s \in Nat /\ (s = 1 \/ s >= 2) /\ Exact \in Nat
    BY <1>2, TypesAssumption
  <2> HIDE DEF Powers
  <2>2. SUFFICES ASSUME s >= 2, 2 * m > s * Exact PROVE FALSE
    BY <1>4, <2>1
  <2>3. Exact * 2 <= Exact * s /\ Exact * s = s * Exact /\ s * Exact \in Nat
    BY <2>1, <2>2, ProdMono
  <2> QED BY <1>1, <2>1, <2>2, <2>3
<1>5. (CHOOSE s \in Powers : Fits(s)) = 1
  <2> HIDE DEF Powers, Fits
  <2> QED BY <1>3, <1>4
<1> DEFINE Rounded(spacing) ==
             LET below == m \div spacing
                 rest == m % spacing
                 x == IF 2 * rest > spacing \/ (2 * rest = spacing /\ below % 2 = 1) THEN below + 1 ELSE below
             IN IF n < 0 THEN -(x * spacing) ELSE x * spacing
<1>6. V!AsF64(n) = Rounded(CHOOSE s \in Powers : Fits(s))
  BY <1>1 DEF V!AsF64
<1>7. Rounded(1) = n
  BY <1>1
<1> HIDE DEF Powers, Fits, Rounded
<1> QED BY <1>5, <1>6, <1>7

-----------------------------------------------------------------------------
(***************************************************************************)
(* What every encoder makes of a value, and what it is read as.  A pointer *)
(* is no integer.                                                          *)
(***************************************************************************)
ValueKind == {"number", "nan", "undefined", "null", "object", "pointer", "string", "nulstring"}

ScriptValue ==
  {v \in [is : ValueKind, n : Int] :
     /\ v.is = "pointer" => v.n \in 0 .. V!High("pointer")
     /\ v.is = "string" => v.n \in 1 .. V!High("cstring")}

Accepts(t, v) == V!Is(v, "pointer") /\ t # "cstring" => t = "pointer"

LEMMA GivenValues ==
  /\ Inputs \subseteq ScriptValue /\ Arguments \subseteq ScriptValue
  /\ V!Undefined \in ScriptValue
  /\ \A t : Accepts(t, V!Undefined)
<1>1. V!Undefined \in [is : ValueKind, n : Int] /\ V!Undefined.is = "undefined"
  BY DEF V!Undefined, ValueKind
<1> QED BY <1>1, ValuesAssumption DEF ScriptValue, ValueKind, Accepts, V!Is

LEMMA CastIsNearest ==
  ASSUME NEW t \in V!TypeName, NEW v \in ScriptValue
  PROVE  /\ V!Cast(t, v) \in V!Low(t) .. V!High(t)
         /\ ~V!Is(v, "nan") => V!Cast(t, v) = V!Nearest(t, v.n)
         /\ 0 \in V!Low(t) .. V!High(t)
<1>1. PICK n \in Int : n = v.n
  BY DEF ScriptValue
<1>2. 0 \in V!Low(t) .. V!High(t)
  BY Ranges
<1>3. PICK c \in V!Low(t) .. V!High(t) :
        /\ c = IF n < V!Low(t) THEN V!Low(t) ELSE IF n > V!High(t) THEN V!High(t) ELSE n
        /\ V!Nearest(t, n) = c
  BY Nearby
<1> QED BY <1>1, <1>2, <1>3 DEF V!Cast

(* The bytes that are kept of a value are those of a number of its type.   *)
Stored(t, v) ==
  IF t = "cstring" THEN IF V!Is(v, "string") THEN v.n ELSE 0
  ELSE IF V!IsNumber(v) THEN V!Cast(t, v)
  ELSE IF t = "pointer" /\ V!Is(v, "pointer") THEN v.n
  ELSE 0

LEMMA StoredFits ==
  ASSUME NEW t \in V!TypeName, NEW v \in ScriptValue
  PROVE  /\ Stored(t, v) \in V!Low(t) .. V!High(t) /\ Stored(t, v) \in Int
         /\ V!ResultBytes(t, v) = V!Encode(t, Stored(t, v))
<1>1. V!Low("pointer") = 0 /\ V!Low("cstring") = 0
  BY DEF V!Low, V!Signed
<1>2. Stored(t, v) \in V!Low(t) .. V!High(t)
  BY <1>1, CastIsNearest DEF Stored, ScriptValue, V!Is
<1>3. V!Low(t) \in Int /\ V!High(t) \in Int
  BY Ranges
<1>4. Stored(t, v) \in Int
  BY <1>2, <1>3
<1> QED BY <1>2, <1>4 DEF Stored, V!ResultBytes

(* It reads as the nearest value of the type. *)
LEMMA ReadsAsNearest ==
  ASSUME NEW t \in V!TypeName, NEW v \in ScriptValue, Accepts(t, v)
  PROVE  /\ V!Value(t, V!ResultBytes(t, v)) = V!Represented(t, v)
         /\ V!Decode(t, V!ResultBytes(t, v)) = Stored(t, v)
<1>1. V!Decode(t, V!ResultBytes(t, v)) = Stored(t, v)
  BY StoredFits, Decodes
<1>2. CASE t = "cstring"
  <2>1. CASE V!Is(v, "string")
    <3>1. v = [is |-> "string", n |-> v.n] /\ v.n # 0 /\ v.n \in Int
      BY <2>1, Ranges DEF ScriptValue, V!Is
    <3> QED BY <1>1, <1>2, <2>1, <3>1 DEF V!Value, V!Represented, Stored, V!String
  <2>2. CASE ~V!Is(v, "string")
    BY <1>1, <1>2, <2>2 DEF V!Value, V!Represented, Stored
  <2> QED BY <2>1, <2>2
<1>3. CASE t # "cstring"
  <2>1. V!Value(t, V!ResultBytes(t, v)) = V!Number(V!AsF64(Stored(t, v)))
    BY <1>1, <1>3 DEF V!Value
  <2>2. V!AsF64(0) = 0
    <3>1. V!Magnitude(0) <= Exact
      BY TypesAssumption DEF V!Magnitude
    <3> QED BY <3>1, ExactNumbers
  <2>3. CASE V!Is(v, "number")
    <3>1. Stored(t, v) = V!Nearest(t, v.n)
      BY <1>3, <2>3, CastIsNearest DEF Stored, V!IsNumber, V!Is
    <3> QED BY <1>1, <1>3, <2>1, <2>3, <3>1 DEF V!Represented, V!Is
  <2>4. CASE V!Is(v, "pointer")
    <3>1. t = "pointer" /\ Stored(t, v) = v.n
      BY <1>3, <2>4 DEF Accepts, Stored, V!IsNumber, V!Is
    <3>2. v.n \in V!Low(t) .. V!High(t) /\ V!Low(t) \in Int /\ V!High(t) \in Int
      BY <3>1, StoredFits, Ranges
    <3>3. V!Nearest(t, v.n) = v.n
      BY <3>2, Nearby
    <3> QED BY <1>1, <1>3, <2>1, <2>4, <3>1, <3>3 DEF V!Represented, V!Is
  <2>5. CASE ~V!Is(v, "number") /\ ~V!Is(v, "pointer")
    <3>1. Stored(t, v) = 0
      BY <1>3, <2>5 DEF Stored, V!IsNumber, V!Cast
    <3> QED BY <1>1, <1>3, <2>1, <2>2, <2>5, <3>1 DEF V!Represented, V!Is
  <2> QED BY <2>3, <2>4, <2>5
<1> QED BY <1>1, <1>2, <1>3

(* Read as a number that is exact, or a string, and encoded again, it gives *)
(* the same bytes.                                                         *)
LEMMA ReturnsTheSame ==
  ASSUME NEW t \in V!TypeName, NEW n \in V!Low(t) .. V!High(t), V!Magnitude(n) <= Exact
  PROVE  V!ResultBytes(t, V!Value(t, V!Encode(t, n))) = V!Encode(t, n)
<1>1. V!Decode(t, V!Encode(t, n)) = n /\ n \in Int /\ V!AsF64(n) = n
  <2>1. n \in Int
    BY Ranges
  <2> QED BY <2>1, Decodes, ExactNumbers
<1>2. CASE t = "cstring"
  <2>1. CASE n = 0
    BY <1>1, <1>2, <2>1 DEF V!Value, V!ResultBytes, V!Null, V!Is
  <2>2. CASE n # 0
    BY <1>1, <1>2, <2>2 DEF V!Value, V!ResultBytes, V!String, V!Is
  <2> QED BY <2>1, <2>2
<1>3. CASE t # "cstring"
  <2>1. V!Value(t, V!Encode(t, n)) = [is |-> "number", n |-> n]
    BY <1>1, <1>3 DEF V!Value, V!Number
  <2>2. V!Low(t) \in Int /\ V!High(t) \in Int
    BY Ranges
  <2>3. V!Cast(t, [is |-> "number", n |-> n]) = n
    BY <1>1, <2>2 DEF V!Cast, V!Is
  <2> QED BY <1>3, <2>1, <2>3 DEF V!ResultBytes, V!IsNumber, V!Is
<1> QED BY <1>2, <1>3

-----------------------------------------------------------------------------
(***************************************************************************)
(* Folds over a sequence of n elements, whose places are taken from the    *)
(* last to the first.                                                      *)
(***************************************************************************)
Last(s) == CHOOSE x \in s : \A y \in s : x >= y

LEMMA LastIsIn ==
  ASSUME NEW n \in Nat
  PROVE  /\ \A s \in SUBSET (1 .. n) : s # {} => Last(s) \in s
         /\ \A j \in 1 .. n : Last(1 .. j) = j /\ (1 .. j) \ {j} = 1 .. j - 1
<1>1. ASSUME NEW s \in SUBSET (1 .. n), s # {} PROVE Last(s) \in s
  <2>1. \E m \in s : \A x \in s : m >= x
    BY <1>1, Greatest
  <2> QED BY <2>1 DEF Last
<1>2. ASSUME NEW j \in 1 .. n PROVE Last(1 .. j) = j /\ (1 .. j) \ {j} = 1 .. j - 1
  <2>0. j \in Nat \ {0}
    OBVIOUS
  <2>1. j \in 1 .. j /\ \A x \in 1 .. j : j >= x
    BY <2>0
  <2>2. \A m \in 1 .. j : (\A x \in 1 .. j : m >= x) => m = j
    BY <2>0
  <2>3. Last(1 .. j) = j
    BY <2>1, <2>2 DEF Last
  <2>4. (1 .. j) \ {j} = 1 .. j - 1
    BY <2>0
  <2> QED BY <2>3, <2>4
<1> QED BY <1>1, <1>2

Folds(h, D, base, step) ==
  \A s \in SUBSET D : h[s] = IF s = {} THEN base ELSE step[<<h[s \ {Last(s)}], Last(s)>>]

LEMMA FoldsExist ==
  ASSUME NEW n \in Nat, NEW D, D = 1 .. n, NEW X, NEW base \in X, NEW step \in [X \X D -> X]
  PROVE  \E h \in [SUBSET D -> X] : Folds(h, D, base, step)
<1> DEFINE After(s, x) == IF s = {} THEN base ELSE step[<<x, Last(s)>>]
           turned == [a \in (SUBSET D) \X X |-> After(a[1], a[2])]
           pick == [s \in SUBSET D |-> Last(s)]
<1>1. \A s \in SUBSET D : s # {} => Last(s) \in s
  BY LastIsIn
<1>2. ASSUME NEW s \in SUBSET D, NEW x \in X PROVE After(s, x) \in X
  <2>1. CASE s = {}
    BY <2>1
  <2>2. CASE s # {}
    <3>1. <<x, Last(s)>> \in X \X D
      BY <1>1, <2>2
    <3>2. step[<<x, Last(s)>>] \in X
      BY <3>1
    <3> QED BY <2>2, <3>2
  <2> QED BY <2>1, <2>2
<1>3. turned \in [(SUBSET D) \X X -> X]
  <2> HIDE DEF After
  <2> QED BY <1>2
<1>4. Picks(pick, D)
  <2> QED BY <1>1 DEF Picks
<1>5. IsFiniteSet(D)
  <2>1. 1 \in Int /\ n \in Int
    OBVIOUS
  <2> QED BY <2>1, FS_Interval
<1>6. PICK h \in [SUBSET D -> X] : Unfolds(h, D, base, pick, turned)
  <2> HIDE DEF turned, pick
  <2> QED BY <1>3, <1>4, <1>5, SubsetRecursion
<1>7. ASSUME NEW s \in SUBSET D, s # {} PROVE h[s] = step[<<h[s \ {Last(s)}], Last(s)>>]
  <2>1. s \ {Last(s)} \in SUBSET D /\ pick[s] = Last(s)
    BY <1>7
  <2>2. <<s, h[s \ {Last(s)}]>> \in (SUBSET D) \X X
    BY <2>1
  <2>3. h[s] = turned[<<s, h[s \ {Last(s)}]>>]
    BY <1>6, <1>7, <2>1 DEF Unfolds
  <2> HIDE DEF pick
  <2> QED BY <1>7, <2>2, <2>3
<1>8. h[{}] = base
  <2> HIDE DEF turned, pick
  <2> QED BY <1>6 DEF Unfolds
<1>9. Folds(h, D, base, step)
  BY <1>7, <1>8 DEF Folds
<1> QED BY <1>9

-----------------------------------------------------------------------------
(***************************************************************************)
(* Structures: the instance.  Its buffer has, at each field, the bytes of  *)
(* what was last written to it, and it keeps the strings those point to.   *)
(***************************************************************************)
Read(buf, k) == [i \in 0 .. V!Size[fields[k]] - 1 |-> buf[offsets[k] + i]]

InstanceInv ==
  /\ Structs!TypeOK
  /\ made => stage = "ready"
  /\ stage = "ready" => Len(offsets) = Len(fields)
  /\ \A k \in DOMAIN fields : written[k] \in ScriptValue /\ Accepts(fields[k], written[k])
  /\ made => \A k \in DOMAIN fields :
       /\ Read(buffer, k) = V!ResultBytes(fields[k], written[k])
       /\ fields[k] = "cstring" /\ V!Is(written[k], "string") => Has(kept, written[k])

(* The types of the instance are those. *)
LEMMA StructTypes ==
  /\ Structs!TypeName = V!TypeName /\ Structs!Size = V!Size /\ Structs!Byte = Bytes
  /\ \A t, b : Structs!FieldValue(t, b) = V!Value(t, b)
  /\ \A t, b : Structs!Peek(t, b) = V!Peek(t, b)
  /\ \A t, v : Structs!Represented(t, v) = V!Represented(t, v)
  /\ \A t, v : Structs!FieldBytes(t, v) = V!FieldBytes(t, v)
  /\ \A t, v : Structs!StoreBytes(t, v) = V!StoreBytes(t, v)
  /\ \A v, k : Structs!Is(v, k) = V!Is(v, k)
  /\ Structs!Undefined = V!Undefined
<1>1. Structs!Size = V!Size /\ Structs!TypeName = V!TypeName /\ Structs!Byte = Bytes
  BY DEF Structs!Size, V!Size, Structs!TypeName, V!TypeName, Structs!Byte, Bytes,
         Structs!Signed, V!Signed, Structs!Unsigned, V!Unsigned, Structs!Address, V!Address
<1>2. \A t : /\ Structs!Limit(t) = V!Limit(t) /\ Structs!Low(t) = V!Low(t) /\ Structs!High(t) = V!High(t)
  BY <1>1 DEF Structs!Limit, V!Limit, Structs!Low, V!Low, Structs!High, V!High, Structs!Signed, V!Signed
<1>3. \A t, n : Structs!Encode(t, n) = V!Encode(t, n)
  BY <1>1, <1>2 DEF Structs!Encode, V!Encode
<1>4. \A t, v : Structs!Cast(t, v) = V!Cast(t, v)
  BY <1>2 DEF Structs!Cast, V!Cast, Structs!Is, V!Is
<1>5. \A t, b : Structs!Decode(t, b) = V!Decode(t, b)
  BY <1>1, <1>2 DEF Structs!Decode, V!Decode, Structs!MapThenSumSet, V!MapThenSumSet,
         Structs!MapThenFoldSet, V!MapThenFoldSet
<1>6. \A n : Structs!AsF64(n) = V!AsF64(n)
  BY DEF Structs!AsF64, V!AsF64, Structs!Magnitude, V!Magnitude
<1>7. \A t, n : Structs!Nearest(t, n) = V!Nearest(t, n)
  BY <1>2 DEF Structs!Nearest, V!Nearest, Structs!Magnitude, V!Magnitude
<1>8. \A t, b : Structs!Value(t, b) = V!Value(t, b) /\ Structs!Peek(t, b) = V!Peek(t, b)
  BY <1>5, <1>6 DEF Structs!Value, V!Value, Structs!Peek, V!Peek, Structs!Null, V!Null,
         Structs!String, V!String, Structs!Number, V!Number
<1>9. \A t, v : Structs!Represented(t, v) = V!Represented(t, v)
  BY <1>6, <1>7 DEF Structs!Represented, V!Represented, Structs!Is, V!Is, Structs!Null, V!Null,
         Structs!Number, V!Number
<1>10. \A t, v : Structs!FieldBytes(t, v) = V!FieldBytes(t, v) /\ Structs!StoreBytes(t, v) = V!StoreBytes(t, v)
  BY <1>3, <1>4 DEF Structs!FieldBytes, V!FieldBytes, Structs!StoreBytes, V!StoreBytes,
         Structs!CString, V!CString, Structs!Bytes, V!Bytes, Structs!Throws, V!Throws,
         Structs!IsNumber, V!IsNumber, Structs!IsEmpty, V!IsEmpty, Structs!Is, V!Is
<1> QED BY <1>1, <1>8, <1>9, <1>10 DEF Structs!FieldValue, Structs!Is, V!Is, Structs!Undefined, V!Undefined

(* What a setter accepts is stored as every encoder stores it.             *)
LEMMA FieldsAccept ==
  ASSUME NEW t \in V!TypeName, NEW v \in ScriptValue
  PROVE  /\ V!FieldBytes(t, v)[1] => V!FieldBytes(t, v)[2] = V!ResultBytes(t, v) /\ Accepts(t, v)
         /\ t # "cstring" /\ V!StoreBytes(t, v)[1]
              => V!StoreBytes(t, v)[2] = V!ResultBytes(t, v) /\ Accepts(t, v)
         /\ V!ResultBytes(t, v) \in [0 .. V!Size[t] - 1 -> Bytes]
<1>1. V!ResultBytes(t, v) \in [0 .. V!Size[t] - 1 -> Bytes]
  BY StoredFits, EncodesBytes
<1>2. ASSUME V!FieldBytes(t, v)[1]
      PROVE  V!FieldBytes(t, v)[2] = V!ResultBytes(t, v) /\ Accepts(t, v)
  BY <1>2 DEF V!FieldBytes, V!CString, V!Bytes, V!Throws, V!ResultBytes, V!IsNumber, V!IsEmpty, V!Is, Accepts
<1>3. ASSUME t # "cstring", V!StoreBytes(t, v)[1]
      PROVE  V!StoreBytes(t, v)[2] = V!ResultBytes(t, v) /\ Accepts(t, v)
  BY <1>3 DEF V!StoreBytes, V!Bytes, V!Throws, V!ResultBytes, V!IsNumber, V!Is, Accepts
<1> QED BY <1>1, <1>2, <1>3

(* A copy into the buffer at a field writes that field and no other. *)
LEMMA Overlaid ==
  ASSUME StructsInv, InstanceInv, stage = "ready",
         NEW buf \in [0 .. size - 1 -> Bytes], NEW k \in DOMAIN fields,
         NEW bytes \in [0 .. V!Size[fields[k]] - 1 -> Bytes]
  PROVE  LET new == Structs!Overlay(buf, offsets[k], bytes)
         IN /\ new \in [0 .. size - 1 -> Bytes]
            /\ Read(new, k) = bytes
            /\ \A j \in DOMAIN fields : j # k => Read(new, j) = Read(buf, j)
<1> DEFINE new == Structs!Overlay(buf, offsets[k], bytes)
<1>1. \A j \in DOMAIN fields : /\ fields[j] \in V!TypeName /\ j \in DOMAIN offsets /\ j \in Int
                               /\ offsets[j] \in Nat /\ V!Size[fields[j]] \in {1, 2, 4, 8}
  <2>1. DOMAIN fields = DOMAIN offsets /\ DOMAIN offsets = 1 .. Len(offsets) /\ Len(offsets) \in Nat
    BY LenProperties DEF StructsInv, InstanceInv
  <2>2. \A j \in DOMAIN fields : fields[j] \in V!TypeName /\ offsets[j] \in Nat
    BY <2>1, StructTypes, LenProperties, ElementOfSeq DEF StructsInv
  <2> QED BY <2>1, <2>2, StructTypes, Sizing
<1>2. cursor <= size /\ cursor \in Nat /\ size \in Nat
  BY DEF StructsInv, Structs!FieldsDoNotOverlap
<1>3. \A j \in DOMAIN fields : offsets[j] + V!Size[fields[j]] <= cursor
  BY <1>1, StructTypes DEF StructsInv, Structs!FieldsDoNotOverlap
<1>4. \A i, j \in DOMAIN fields : i < j => offsets[i] + V!Size[fields[i]] <= offsets[j]
  BY <1>1, StructTypes DEF StructsInv, Structs!FieldsDoNotOverlap
<1>5. PICK at \in Nat, s \in {1, 2, 4, 8} : at = offsets[k] /\ s = V!Size[fields[k]]
  BY <1>1
<1>6. /\ DOMAIN bytes = 0 .. s - 1
      /\ new = [i \in 0 .. size - 1 |-> IF i - at \in 0 .. s - 1 THEN bytes[i - at] ELSE buf[i]]
  BY <1>5 DEF Structs!Overlay
<1> HIDE DEF new
<1>7. new \in [0 .. size - 1 -> Bytes]
  <2>1. ASSUME NEW i \in 0 .. size - 1
        PROVE  (IF i - at \in 0 .. s - 1 THEN bytes[i - at] ELSE buf[i]) \in Bytes
    BY <1>5
  <2> QED BY <1>6, <2>1
<1>8. Read(new, k) = bytes
  <2>1. ASSUME NEW i \in 0 .. s - 1 PROVE new[at + i] = bytes[i]
    <3>1. at + s <= size
      BY <1>2, <1>3, <1>5
    <3>2. at + i \in 0 .. size - 1 /\ (at + i) - at = i
      BY <1>2, <3>1
    <3> QED BY <1>6, <3>2
  <2> QED BY <1>5, <1>6, <2>1 DEF Read
<1>9. ASSUME NEW j \in DOMAIN fields, j # k PROVE Read(new, j) = Read(buf, j)
  <2>1. PICK p \in Nat, r \in {1, 2, 4, 8} : p = offsets[j] /\ r = V!Size[fields[j]]
    BY <1>1
  <2>2. p + r <= at \/ at + s <= p
    <3>1. j < k \/ k < j
      BY <1>1, <1>9
    <3> QED BY <1>4, <1>5, <2>1, <3>1
  <2>3. p + r <= size
    BY <1>2, <1>3, <2>1
  <2>4. ASSUME NEW i \in 0 .. r - 1 PROVE new[p + i] = buf[p + i]
    <3>1. p + i \in 0 .. size - 1 /\ (p + i) - at \notin 0 .. s - 1
      BY <1>2, <2>2, <2>3
    <3> QED BY <1>6, <3>1
  <2> QED BY <2>1, <2>4 DEF Read
<1> QED BY <1>7, <1>8, <1>9 DEF new

(* Before anything was written, every field is zero. *)
LEMMA ZeroesRead ==
  ASSUME StructsInv, InstanceInv, stage = "ready", NEW k \in DOMAIN fields
  PROVE  LET zero == [i \in 0 .. size - 1 |-> 0]
         IN /\ zero \in [0 .. size - 1 -> Bytes]
            /\ Read(zero, k) = V!ResultBytes(fields[k], V!Undefined)
<1> DEFINE zero == [i \in 0 .. size - 1 |-> 0]
<1>0. zero \in [0 .. size - 1 -> Bytes]
  BY TypesAssumption DEF Bytes
<1>1. fields[k] \in V!TypeName
  BY StructTypes, LenProperties, ElementOfSeq DEF StructsInv
<1>2. PICK s \in {1, 2, 4, 8} : s = V!Size[fields[k]]
  BY <1>1, Ranges
<1>3. V!Undefined \in ScriptValue
  BY GivenValues
<1>4. Stored(fields[k], V!Undefined) = 0
  BY DEF Stored, V!Undefined, V!IsNumber, V!Is
<1>5. V!ResultBytes(fields[k], V!Undefined) = V!Encode(fields[k], 0)
  BY <1>1, <1>3, <1>4, StoredFits
<1>6. ASSUME NEW i \in 0 .. s - 1 PROVE ((0 % V!Limit(fields[k])) \div ByteValues ^ i) % ByteValues = 0
  <2>1. PICK half \in Nat \ {0} : V!Limit(fields[k]) = 2 * half
    BY <1>1, Ranges
  <2>2. 0 % V!Limit(fields[k]) = 0
    BY <2>1
  <2>3. PICK w \in Nat \ {0} : w = ByteValues ^ i
    <3>1. i \in 0 .. 8
      OBVIOUS
    <3> QED BY <3>1, Weights
  <2>4. 0 \div w = 0
    OBVIOUS
  <2>5. 0 % ByteValues = 0
    BY TypesAssumption
  <2> QED BY <2>2, <2>3, <2>4, <2>5
<1>7. V!Encode(fields[k], 0) = [i \in 0 .. s - 1 |-> 0]
  BY <1>2, <1>6 DEF V!Encode
<1>8. Read(zero, k) = [i \in 0 .. s - 1 |-> 0]
  <2>1. /\ offsets[k] \in Nat /\ offsets[k] + s <= size /\ size \in Nat
    <3>1. DOMAIN fields = DOMAIN offsets
      BY LenProperties DEF StructsInv, InstanceInv
    <3>2. offsets[k] \in Nat
      BY <3>1, LenProperties, ElementOfSeq DEF StructsInv
    <3>3. offsets[k] + s <= cursor /\ cursor <= size /\ cursor \in Nat /\ size \in Nat
      BY <1>2, <3>1, StructTypes DEF StructsInv, Structs!FieldsDoNotOverlap
    <3> QED BY <3>2, <3>3
  <2>2. PICK at \in Nat : at = offsets[k]
    BY <2>1
  <2>3. ASSUME NEW i \in 0 .. s - 1 PROVE zero[at + i] = 0
    <3>1. at + i \in 0 .. size - 1
      BY <2>1, <2>2
    <3> QED BY <3>1
  <2> HIDE DEF zero
  <2> QED BY <1>2, <2>2, <2>3 DEF Read
<1> QED BY <1>0, <1>5, <1>7, <1>8

(* The constructor, one field after the other. *)
WriteTo(init, buf, k) ==
  IF k \in DOMAIN init
  THEN Structs!Overlay(buf, offsets[k], Structs!FieldBytes(fields[k], init[k])[2]) ELSE buf
KeepOf(init, strings, k) ==
  IF k \in DOMAIN init THEN Structs!Keep(strings, fields[k], init[k]) ELSE strings

Written(init, w) ==
  /\ w[0] = [i \in 0 .. size - 1 |-> 0]
  /\ \A j \in 1 .. Len(fields) : w[j] = WriteTo(init, w[j - 1], j)

Collected(init, g) ==
  /\ g[0] = <<>>
  /\ \A j \in 1 .. Len(fields) : g[j] = KeepOf(init, g[j - 1], j)

LEMMA ConstructWrites ==
  ASSUME StructsInv, InstanceInv, NEW ks \in SUBSET DOMAIN fields, NEW init \in [ks -> Inputs],
         Structs!Construct(init)
  PROVE  \E w : Written(init, w) /\ buffer' = w[Len(fields)]
<1> DEFINE n == Len(fields)
           D == 1 .. n
           zero == [i \in 0 .. size - 1 |-> 0]
           X == [0 .. size - 1 -> Bytes]
           step == [a \in X \X D |-> WriteTo(init, a[1], a[2])]
           Good(it) == it = [s \in SUBSET D |->
                               IF s = {} THEN zero
                               ELSE WriteTo(init, it[s \ {Last(s)}], [k \in D |-> k][Last(s)])]
           whole == CHOOSE it : Good(it)
<1>0. n \in Nat /\ DOMAIN fields = D /\ Structs!Field = D
  BY LenProperties DEF StructsInv, Structs!Field
<1>1. stage = "ready" /\ \A k \in DOMAIN init : Structs!FieldBytes(fields[k], init[k])[1]
  BY DEF Structs!Construct, Structs!Ok
<1>2. buffer' = whole[D]
  <2>1. DOMAIN [k \in D |-> k] = D
    OBVIOUS
  <2> QED BY <1>0, <2>1 DEF Structs!Construct, Structs!FoldLeft, Structs!MapThenFoldSet, Structs!Max, Last, WriteTo
<1>3. ASSUME NEW buf \in X, NEW k \in D PROVE WriteTo(init, buf, k) \in X
  <2>1. CASE k \in DOMAIN init
    <3>1. init[k] \in ScriptValue /\ fields[k] \in V!TypeName
      BY <1>0, <2>1, GivenValues, StructTypes, LenProperties, ElementOfSeq DEF StructsInv
    <3>2. V!FieldBytes(fields[k], init[k])[2] \in [0 .. V!Size[fields[k]] - 1 -> Bytes]
      BY <1>1, <2>1, <3>1, FieldsAccept, StructTypes
    <3>3. Structs!Overlay(buf, offsets[k], V!FieldBytes(fields[k], init[k])[2]) \in X
      BY <1>0, <1>1, <3>2, Overlaid
    <3> QED BY <2>1, <3>3, StructTypes DEF WriteTo
  <2>2. CASE k \notin DOMAIN init
    BY <2>2 DEF WriteTo
  <2> QED BY <2>1, <2>2
<1>4. step \in [X \X D -> X]
  <2> HIDE DEF X, D
  <2> QED BY <1>3
<1>5. zero \in X
  BY TypesAssumption DEF Bytes
<1>6. PICK h \in [SUBSET D -> X] : Folds(h, D, zero, step)
  <2>1. n \in Nat /\ D = 1 .. n
    BY <1>0
  <2> HIDE DEF X, step, zero, n, D
  <2> QED BY <1>4, <1>5, <2>1, FoldsExist
<1>7. \A s \in SUBSET D : s # {} => Last(s) \in s
  BY <1>0, LastIsIn
<1>8. Good(h)
  <2>1. ASSUME NEW s \in SUBSET D, s # {}
        PROVE  h[s] = WriteTo(init, h[s \ {Last(s)}], [k \in D |-> k][Last(s)])
    <3> HIDE DEF X, D
    <3>1. Last(s) \in D /\ h[s \ {Last(s)}] \in X /\ [k \in D |-> k][Last(s)] = Last(s)
      BY <1>7, <2>1
    <3>2. h[s] = step[<<h[s \ {Last(s)}], Last(s)>>]
      BY <1>6, <2>1 DEF Folds
    <3>3. step[<<h[s \ {Last(s)}], Last(s)>>] = WriteTo(init, h[s \ {Last(s)}], Last(s))
      BY <3>1
    <3> HIDE DEF step
    <3> QED BY <3>1, <3>2, <3>3
  <2>2. h[{}] = zero
    <3> HIDE DEF step, zero, D
    <3> QED BY <1>6 DEF Folds
  <2> HIDE DEF step, zero, D, X
  <2> QED BY <2>1, <2>2
<1>9. Good(whole)
  <2> HIDE DEF Good
  <2> QED BY <1>8
<1> HIDE DEF whole
<1> DEFINE w == [j \in 0 .. n |-> whole[1 .. j]]
<1>10. w[0] = zero
  <2>1. 1 .. 0 = {} /\ 0 \in 0 .. n /\ {} \in SUBSET D
    BY <1>0
  <2> HIDE DEF D, zero
  <2> QED BY <1>9, <2>1
<1>11. ASSUME NEW j \in D PROVE w[j] = WriteTo(init, w[j - 1], j)
  <2>1. j \in 0 .. n /\ j - 1 \in 0 .. n /\ 1 .. j \in SUBSET D /\ 1 .. j # {}
    <3>1. n \in Nat
      BY <1>0
    <3> HIDE DEF n
    <3> QED BY <3>1
  <2>2. Last(1 .. j) = j /\ (1 .. j) \ {j} = 1 .. j - 1 /\ [k \in D |-> k][j] = j
    BY <1>0, LastIsIn
  <2>3. whole[1 .. j] = WriteTo(init, whole[(1 .. j) \ {j}], j)
    <3> HIDE DEF D, zero
    <3> QED BY <1>9, <2>1, <2>2
  <2>4. w[j] = whole[1 .. j] /\ w[j - 1] = whole[1 .. j - 1]
    BY <2>1
  <2> HIDE DEF w
  <2> QED BY <2>2, <2>3, <2>4
<1>12. w[n] = buffer'
  <2>1. n \in 0 .. n
    BY <1>0
  <2> QED BY <1>2, <2>1
<1>13. Written(init, w) /\ buffer' = w[n]
  <2> HIDE DEF w
  <2> QED BY <1>10, <1>11, <1>12 DEF Written
<1> QED BY <1>13

LEMMA ConstructKeeps ==
  ASSUME StructsInv, InstanceInv, NEW ks \in SUBSET DOMAIN fields, NEW init \in [ks -> Inputs],
         Structs!Construct(init)
  PROVE  \E g : Collected(init, g) /\ kept' = g[Len(fields)]
<1> DEFINE n == Len(fields)
           D == 1 .. n
           X == Seq(Inputs)
           step == [a \in X \X D |-> KeepOf(init, a[1], a[2])]
           Good(it) == it = [s \in SUBSET D |->
                               IF s = {} THEN <<>>
                               ELSE KeepOf(init, it[s \ {Last(s)}], [k \in D |-> k][Last(s)])]
           whole == CHOOSE it : Good(it)
<1>0. n \in Nat /\ DOMAIN fields = D /\ Structs!Field = D
  BY LenProperties DEF StructsInv, Structs!Field
<1>2. kept' = whole[D]
  <2>1. DOMAIN [k \in D |-> k] = D
    OBVIOUS
  <2> QED BY <1>0, <2>1 DEF Structs!Construct, Structs!FoldLeft, Structs!MapThenFoldSet, Structs!Max, Last, KeepOf
<1>3. ASSUME NEW q \in X, NEW k \in D PROVE KeepOf(init, q, k) \in X
  BY AppendProperties DEF KeepOf, Structs!Keep
<1>4. step \in [X \X D -> X]
  <2> HIDE DEF X, D
  <2> QED BY <1>3
<1>5. <<>> \in X
  BY EmptySeq
<1>6. PICK h \in [SUBSET D -> X] : Folds(h, D, <<>>, step)
  <2>1. n \in Nat /\ D = 1 .. n
    BY <1>0
  <2> HIDE DEF X, step, n, D
  <2> QED BY <1>4, <1>5, <2>1, FoldsExist
<1>7. \A s \in SUBSET D : s # {} => Last(s) \in s
  BY <1>0, LastIsIn
<1>8. Good(h)
  <2>1. ASSUME NEW s \in SUBSET D, s # {}
        PROVE  h[s] = KeepOf(init, h[s \ {Last(s)}], [k \in D |-> k][Last(s)])
    <3> HIDE DEF X, D
    <3>1. Last(s) \in D /\ h[s \ {Last(s)}] \in X /\ [k \in D |-> k][Last(s)] = Last(s)
      BY <1>7, <2>1
    <3>2. h[s] = step[<<h[s \ {Last(s)}], Last(s)>>]
      BY <1>6, <2>1 DEF Folds
    <3>3. step[<<h[s \ {Last(s)}], Last(s)>>] = KeepOf(init, h[s \ {Last(s)}], Last(s))
      BY <3>1
    <3> HIDE DEF step
    <3> QED BY <3>1, <3>2, <3>3
  <2>2. h[{}] = <<>>
    <3> HIDE DEF step, D
    <3> QED BY <1>6 DEF Folds
  <2> HIDE DEF step, D, X
  <2> QED BY <2>1, <2>2
<1>9. Good(whole)
  <2> HIDE DEF Good
  <2> QED BY <1>8
<1> HIDE DEF whole
<1> DEFINE g == [j \in 0 .. n |-> whole[1 .. j]]
<1>10. g[0] = <<>>
  <2>1. 1 .. 0 = {} /\ 0 \in 0 .. n /\ {} \in SUBSET D
    BY <1>0
  <2> HIDE DEF D
  <2> QED BY <1>9, <2>1
<1>11. ASSUME NEW j \in D PROVE g[j] = KeepOf(init, g[j - 1], j)
  <2>1. j \in 0 .. n /\ j - 1 \in 0 .. n /\ 1 .. j \in SUBSET D /\ 1 .. j # {}
    <3>1. n \in Nat
      BY <1>0
    <3> HIDE DEF n
    <3> QED BY <3>1
  <2>2. Last(1 .. j) = j /\ (1 .. j) \ {j} = 1 .. j - 1 /\ [k \in D |-> k][j] = j
    BY <1>0, LastIsIn
  <2>3. whole[1 .. j] = KeepOf(init, whole[(1 .. j) \ {j}], j)
    <3> HIDE DEF D
    <3> QED BY <1>9, <2>1, <2>2
  <2>4. g[j] = whole[1 .. j] /\ g[j - 1] = whole[1 .. j - 1]
    BY <2>1
  <2> HIDE DEF g
  <2> QED BY <2>2, <2>3, <2>4
<1>12. g[n] = kept'
  <2>1. n \in 0 .. n
    BY <1>0
  <2> QED BY <1>2, <2>1
<1>13. Collected(init, g) /\ kept' = g[n]
  <2> HIDE DEF g
  <2> QED BY <1>10, <1>11, <1>12 DEF Collected
<1> QED BY <1>13

(* ... leaves each field the bytes of what it was given, and the strings.  *)
LEMMA ConstructHolds ==
  ASSUME StructsInv, InstanceInv, NEW ks \in SUBSET DOMAIN fields, NEW init \in [ks -> Inputs],
         Structs!Construct(init)
  PROVE  /\ buffer' \in [0 .. size - 1 -> Bytes] /\ kept' \in Seq(Inputs)
         /\ \A k \in DOMAIN fields :
              Read(buffer', k) = V!ResultBytes(fields[k], IF k \in ks THEN init[k] ELSE V!Undefined)
         /\ \A k \in ks : /\ Accepts(fields[k], init[k])
                          /\ fields[k] = "cstring" /\ V!Is(init[k], "string") => Has(kept', init[k])
<1>0. PICK n \in Nat : n = Len(fields) /\ DOMAIN fields = 1 .. n
  BY LenProperties DEF StructsInv
<1>1. stage = "ready" /\ \A k \in ks : Structs!FieldBytes(fields[k], init[k])[1]
  BY DEF Structs!Construct, Structs!Ok
<1>2. \A k \in 1 .. n : fields[k] \in V!TypeName
  BY <1>0, StructTypes, ElementOfSeq DEF StructsInv
<1>3. ASSUME NEW k \in ks
      PROVE  /\ init[k] \in ScriptValue /\ k \in 1 .. n /\ Accepts(fields[k], init[k])
             /\ Structs!FieldBytes(fields[k], init[k])[2] = V!ResultBytes(fields[k], init[k])
             /\ V!ResultBytes(fields[k], init[k]) \in [0 .. V!Size[fields[k]] - 1 -> Bytes]
  <2>1. init[k] \in ScriptValue /\ k \in 1 .. n
    BY <1>0, GivenValues
  <2> QED BY <1>1, <1>2, <2>1, FieldsAccept, StructTypes
<1>4. PICK w : Written(init, w) /\ buffer' = w[n]
  BY <1>0, ConstructWrites
<1>5. PICK g : Collected(init, g) /\ kept' = g[n]
  BY <1>0, ConstructKeeps
<1> DEFINE X == [0 .. size - 1 -> Bytes]
           Given(j, k) == V!ResultBytes(fields[k], IF k \in ks /\ k <= j THEN init[k] ELSE V!Undefined)
           Wrote(j) == w[j] \in X /\ \A k \in 1 .. n : Read(w[j], k) = Given(j, k)
           Kept(j) == /\ g[j] \in Seq(Inputs)
                      /\ \A k \in ks : k <= j /\ fields[k] = "cstring" /\ V!Is(init[k], "string")
                                         => Has(g[j], init[k])
           Bad == {j \in 0 .. n : ~(Wrote(j) /\ Kept(j))}
<1>6. Wrote(0) /\ Kept(0)
  <2>1. w[0] = [i \in 0 .. size - 1 |-> 0] /\ g[0] = <<>>
    BY <1>4, <1>5 DEF Written, Collected
  <2>2. w[0] \in X
    BY <2>1, TypesAssumption DEF Bytes
  <2>3. ASSUME NEW k \in 1 .. n PROVE Read(w[0], k) = Given(0, k)
    <3>1. Read(w[0], k) = V!ResultBytes(fields[k], V!Undefined)
      BY <1>0, <1>1, <2>1, ZeroesRead
    <3>2. ~(k <= 0)
      OBVIOUS
    <3> QED BY <3>1, <3>2
  <2>4. Kept(0)
    <3>1. \A k \in ks : ~(k <= 0)
      BY <1>3
    <3> QED BY <2>1, <3>1, EmptySeq
  <2> QED BY <2>2, <2>3, <2>4
<1>7. ASSUME NEW j \in 1 .. n, Wrote(j - 1), Kept(j - 1) PROVE Wrote(j) /\ Kept(j)
  <2>1. w[j] = WriteTo(init, w[j - 1], j) /\ g[j] = KeepOf(init, g[j - 1], j)
    BY <1>0, <1>4, <1>5 DEF Written, Collected
  <2>2. PICK b \in X, q \in Seq(Inputs) : b = w[j - 1] /\ q = g[j - 1]
    BY <1>7
  <2>3. /\ \A k \in 1 .. n : Read(b, k) = Given(j - 1, k)
        /\ \A k \in ks : k <= j - 1 /\ fields[k] = "cstring" /\ V!Is(init[k], "string") => Has(q, init[k])
    BY <1>7, <2>2
  <2>4. \A k \in 1 .. n : k # j => (k <= j <=> k <= j - 1)
    OBVIOUS
  <2>5. CASE j \in ks
    <3>1. w[j] = Structs!Overlay(b, offsets[j], V!ResultBytes(fields[j], init[j]))
      BY <1>3, <2>1, <2>2, <2>5 DEF WriteTo
    <3>2. /\ w[j] \in X /\ Read(w[j], j) = V!ResultBytes(fields[j], init[j])
          /\ \A k \in 1 .. n : k # j => Read(w[j], k) = Read(b, k)
      <4>1. j \in DOMAIN fields /\ b \in [0 .. size - 1 -> Bytes]
        BY <1>0
      <4>2. PICK bytes \in [0 .. V!Size[fields[j]] - 1 -> Bytes] : bytes = V!ResultBytes(fields[j], init[j])
        BY <1>3, <2>5
      <4>3. /\ Structs!Overlay(b, offsets[j], bytes) \in [0 .. size - 1 -> Bytes]
            /\ Read(Structs!Overlay(b, offsets[j], bytes), j) = bytes
            /\ \A k \in DOMAIN fields : k # j => Read(Structs!Overlay(b, offsets[j], bytes), k) = Read(b, k)
        BY <1>1, <4>1, Overlaid
      <4> QED BY <1>0, <3>1, <4>2, <4>3
    <3>3. ASSUME NEW k \in 1 .. n PROVE Read(w[j], k) = Given(j, k)
      <4>1. CASE k = j
        BY <2>5, <3>2, <4>1
      <4>2. CASE k # j
        BY <2>3, <2>4, <3>2, <4>2
      <4> QED BY <4>1, <4>2
    <3>4. g[j] = Structs!Keep(q, fields[j], init[j])
      BY <2>1, <2>2, <2>5 DEF KeepOf
    <3>5. g[j] \in Seq(Inputs) /\ (\A v : Has(q, v) => Has(g[j], v))
          /\ (fields[j] = "cstring" /\ V!Is(init[j], "string") => Has(g[j], init[j]))
      <4>1. init[j] \in Inputs
        BY <2>5
      <4>2. Append(q, init[j]) \in Seq(Inputs) /\ \A v : Has(Append(q, init[j]), v) <=> Has(q, v) \/ v = init[j]
        BY <4>1, AppendHas
      <4> QED BY <3>4, <4>2, StructTypes DEF Structs!Keep
    <3>6. ASSUME NEW k \in ks, k <= j, fields[k] = "cstring", V!Is(init[k], "string")
          PROVE  Has(g[j], init[k])
      <4>1. CASE k = j
        BY <3>5, <3>6, <4>1
      <4>2. CASE k # j
        <5>1. k <= j - 1
          BY <1>3, <2>4, <3>6, <4>2
        <5> QED BY <2>3, <3>5, <3>6, <5>1
      <4> QED BY <4>1, <4>2
    <3> QED BY <3>2, <3>3, <3>5, <3>6
  <2>6. CASE j \notin ks
    <3>1. w[j] = b /\ g[j] = q
      BY <2>1, <2>2, <2>6 DEF WriteTo, KeepOf
    <3>2. ASSUME NEW k \in 1 .. n PROVE Read(w[j], k) = Given(j, k)
      BY <2>3, <2>4, <2>6, <3>1
    <3>3. ASSUME NEW k \in ks, k <= j, fields[k] = "cstring", V!Is(init[k], "string")
          PROVE  Has(g[j], init[k])
      <4>1. k <= j - 1
        BY <1>3, <2>4, <2>6, <3>3
      <4> QED BY <2>3, <3>1, <3>3, <4>1
    <3> QED BY <3>1, <3>2, <3>3
  <2> QED BY <2>5, <2>6
<1> HIDE DEF Wrote, Kept
<1>8. Bad = {}
  <2> SUFFICES ASSUME Bad # {} PROVE FALSE
    OBVIOUS
  <2>1. PICK j \in Bad : \A k \in Bad : j <= k
    <3>1. IsFiniteSet(0 .. n)
      <4>1. 0 \in Int /\ n \in Int
        OBVIOUS
      <4> QED BY <4>1, FS_Interval
    <3>2. IsFiniteSet(Bad) /\ Bad \subseteq Nat
      BY <3>1, FS_Subset
    <3> HIDE DEF Bad
    <3> QED BY <3>2, Smallest
  <2>2. j \in 1 .. n /\ j - 1 \notin Bad /\ j - 1 \in 0 .. n
    <3>1. j # 0 /\ j \in 0 .. n
      BY <1>6
    <3>2. j \in 1 .. n /\ j - 1 \in 0 .. n /\ ~(j <= j - 1)
      BY <3>1
    <3> HIDE DEF Bad
    <3> QED BY <2>1, <3>2
  <2>3. Wrote(j - 1) /\ Kept(j - 1)
    BY <2>2
  <2> QED BY <1>7, <2>2, <2>3
<1>9. Wrote(n) /\ Kept(n)
  <2>1. n \in 0 .. n
    OBVIOUS
  <2> QED BY <1>8, <2>1
<1>10. \A k \in 1 .. n : k <= n
  OBVIOUS
<1>11. /\ buffer' \in X /\ kept' \in Seq(Inputs)
  BY <1>4, <1>5, <1>9 DEF Wrote, Kept
<1>12. \A k \in 1 .. n : Read(buffer', k) = V!ResultBytes(fields[k], IF k \in ks THEN init[k] ELSE V!Undefined)
  BY <1>4, <1>9, <1>10 DEF Wrote
<1>13. ASSUME NEW k \in ks
       PROVE  /\ Accepts(fields[k], init[k])
              /\ fields[k] = "cstring" /\ V!Is(init[k], "string") => Has(kept', init[k])
  BY <1>3, <1>5, <1>9, <1>10 DEF Kept
<1> QED BY <1>0, <1>11, <1>12, <1>13

LEMMA InstanceInitInv == Structs!Init => InstanceInv
<1> SUFFICES ASSUME Structs!Init PROVE InstanceInv
  OBVIOUS
<1>1. /\ fields \in FieldLists /\ packing \in Packings \cup {NoPacking} /\ stage = "layout"
      /\ offsets = <<>> /\ cursor = 0 /\ align = 1 /\ size = 0 /\ made = FALSE /\ kept = <<>>
      /\ buffer = [i \in 0 .. -1 |-> 0] /\ written = [k \in Structs!Field |-> V!Undefined]
  BY StructTypes DEF Structs!Init
<1>2. fields \in Seq(Structs!TypeName)
  BY <1>1, StructsAssumption
<1>3. Len(fields) \in Nat /\ Structs!Field = DOMAIN fields
  BY <1>2, LenProperties DEF Structs!Field
<1>4. /\ offsets \in Seq(Nat) /\ Len(offsets) <= Len(fields) /\ kept \in Seq(Inputs)
  BY <1>1, <1>3, EmptySeq
<1>5. buffer \in [0 .. size - 1 -> Structs!Byte]
  BY <1>1
<1>6. \A k \in DOMAIN fields : written[k] \in ScriptValue /\ Accepts(fields[k], written[k])
  BY <1>1, <1>3, GivenValues
<1> QED BY <1>1, <1>3, <1>4, <1>5, <1>6 DEF InstanceInv, Structs!TypeOK

(* A write to one field, by its setter or through a pointer. *)
LEMMA WriteInv ==
  ASSUME StructsInv, InstanceInv, made, NEW k \in DOMAIN fields, NEW v \in Inputs,
         Accepts(fields[k], v),
         UNCHANGED <<fields, packing, stage, offsets, cursor, align, size, made>>,
         buffer' = Structs!Overlay(buffer, offsets[k], V!ResultBytes(fields[k], v)),
         kept' \in Seq(Inputs), \A x : Has(kept, x) => Has(kept', x),
         fields[k] = "cstring" /\ V!Is(v, "string") => Has(kept', v),
         written' = [written EXCEPT ![k] = v]
  PROVE  InstanceInv'
<1>1. stage = "ready" /\ v \in ScriptValue /\ fields[k] \in V!TypeName /\ DOMAIN written = DOMAIN fields
      /\ buffer \in [0 .. size - 1 -> Bytes]
  BY GivenValues, StructTypes, LenProperties, ElementOfSeq DEF StructsInv, InstanceInv, Structs!TypeOK, Structs!Field
<1>2. PICK bytes \in [0 .. V!Size[fields[k]] - 1 -> Bytes] : bytes = V!ResultBytes(fields[k], v)
  BY <1>1, FieldsAccept
<1>3. /\ buffer' \in [0 .. size - 1 -> Bytes]
      /\ Read(buffer', k) = bytes
      /\ \A j \in DOMAIN fields : j # k => Read(buffer', j) = Read(buffer, j)
  <2>1. PICK new : new = Structs!Overlay(buffer, offsets[k], bytes)
    OBVIOUS
  <2>2. /\ new \in [0 .. size - 1 -> Bytes]
        /\ Read(new, k) = bytes
        /\ \A j \in DOMAIN fields : j # k => Read(new, j) = Read(buffer, j)
    BY <1>1, <2>1, Overlaid
  <2>3. new = buffer'
    BY <1>2, <2>1
  <2> QED BY <2>2, <2>3
<1>4. ASSUME NEW j \in DOMAIN fields
      PROVE  /\ written'[j] \in ScriptValue /\ Accepts(fields[j], written'[j])
             /\ Read(buffer', j) = V!ResultBytes(fields[j], written'[j])
             /\ fields[j] = "cstring" /\ V!Is(written'[j], "string") => Has(kept', written'[j])
  <2>1. CASE j = k
    BY <1>1, <1>2, <1>3, <2>1
  <2>2. CASE j # k
    BY <1>1, <1>3, <2>2 DEF InstanceInv
  <2> QED BY <2>1, <2>2
<1>5. Structs!TypeOK'
  BY <1>1, <1>3, StructTypes DEF InstanceInv, Structs!TypeOK, Structs!Field, Structs!Byte, Bytes
<1>6. \A j \in DOMAIN fields : Read(buffer, j)' = Read(buffer', j)
  BY DEF Read
<1> QED BY <1>1, <1>4, <1>5, <1>6 DEF InstanceInv, Read

LEMMA InstanceStepInv ==
  StructsInv /\ StructsInv' /\ InstanceInv /\ [Structs!Next]_structVars => InstanceInv'
<1> SUFFICES ASSUME StructsInv, StructsInv', InstanceInv, [Structs!Next]_structVars PROVE InstanceInv'
  OBVIOUS
<1>0. /\ Structs!Field = DOMAIN fields /\ Len(fields) \in Nat /\ Len(offsets) \in Nat
      /\ \A k \in DOMAIN fields : fields[k] \in V!TypeName
  BY StructTypes, LenProperties, ElementOfSeq DEF StructsInv, Structs!Field
<1>1. CASE UNCHANGED structVars
  BY <1>1 DEF structVars, InstanceInv, Structs!TypeOK, Structs!Field, Structs!Byte, Read
<1>2. CASE Structs!Place
  <2>1. /\ stage = "layout" /\ stage' = stage /\ ~made
        /\ UNCHANGED <<fields, packing, size, made, buffer, kept, written>>
        /\ align' = IF align < Structs!FieldAlign(fields[Len(offsets) + 1])
                    THEN Structs!FieldAlign(fields[Len(offsets) + 1]) ELSE align
    BY <1>2 DEF Structs!Place, Structs!instanceVars, InstanceInv
  <2>2. align' \in Nat
    <3>1. Len(offsets) + 1 \in DOMAIN fields
      BY <1>0, <1>2, LenProperties DEF Structs!Place, StructsInv
    <3>2. Structs!Alignment[fields[Len(offsets) + 1]] \in {1, 2, 4, 8}
      BY <1>0, <3>1, Sizing, StructTypes DEF Structs!Alignment
    <3>3. packing \in Nat \cup {NoPacking}
      BY DEF StructsInv
    <3>4. Structs!FieldAlign(fields[Len(offsets) + 1]) \in Nat
      BY <3>2, <3>3, StructsAssumption DEF Structs!FieldAlign
    <3> QED BY <2>1, <3>4 DEF InstanceInv, Structs!TypeOK
  <2>3. Structs!TypeOK'
    BY <2>1, <2>2 DEF StructsInv, InstanceInv, Structs!TypeOK, Structs!Field, Structs!Byte
  <2> QED BY <2>1, <2>3 DEF InstanceInv
<1>3. CASE Structs!Panic
  <2>1. /\ stage' = "panicked" /\ ~made
        /\ UNCHANGED <<fields, packing, offsets, cursor, align, size, made, buffer, kept, written>>
    BY <1>3 DEF Structs!Panic, Structs!instanceVars, InstanceInv
  <2> QED BY <2>1 DEF InstanceInv, Structs!TypeOK, Structs!Field, Structs!Byte
<1>4. CASE Structs!Finish
  <2>1. /\ stage' = "ready" /\ ~made /\ Len(offsets) = Len(fields)
        /\ UNCHANGED <<fields, packing, offsets, cursor, align, made, kept, written>>
        /\ buffer' = [i \in 0 .. size' - 1 |-> 0]
    BY <1>4 DEF Structs!Finish, InstanceInv
  <2>2. buffer' \in [0 .. size' - 1 -> Structs!Byte]
    BY <2>1, TypesAssumption DEF Structs!Byte
  <2>3. Structs!TypeOK'
    BY <2>1, <2>2 DEF StructsInv, InstanceInv, Structs!TypeOK, Structs!Field, Structs!Byte
  <2> QED BY <2>1, <2>3 DEF InstanceInv
<1>5. ASSUME NEW ks \in SUBSET Structs!Field, NEW init \in [ks -> Inputs], Structs!Construct(init)
      PROVE  InstanceInv'
  <2>1. /\ stage = "ready" /\ made' = TRUE
        /\ UNCHANGED <<fields, packing, stage, offsets, cursor, align, size>>
        /\ written' = [k \in DOMAIN fields |-> IF k \in ks THEN init[k] ELSE V!Undefined]
    BY <1>0, <1>5, StructTypes DEF Structs!Construct, Structs!layoutVars
  <2>2. /\ buffer' \in [0 .. size - 1 -> Bytes] /\ kept' \in Seq(Inputs)
        /\ \A k \in DOMAIN fields :
             Read(buffer', k) = V!ResultBytes(fields[k], IF k \in ks THEN init[k] ELSE V!Undefined)
        /\ \A k \in ks : /\ Accepts(fields[k], init[k])
                         /\ fields[k] = "cstring" /\ V!Is(init[k], "string") => Has(kept', init[k])
    BY <1>0, <1>5, ConstructHolds
  <2>3. ASSUME NEW k \in DOMAIN fields
        PROVE  /\ written'[k] \in ScriptValue /\ Accepts(fields[k], written'[k])
               /\ Read(buffer', k) = V!ResultBytes(fields[k], written'[k])
               /\ fields[k] = "cstring" /\ V!Is(written'[k], "string") => Has(kept', written'[k])
    <3>1. CASE k \in ks
      BY <2>1, <2>2, <3>1, GivenValues
    <3>2. CASE k \notin ks
      <4>1. written'[k] = V!Undefined /\ ~V!Is(V!Undefined, "string")
        BY <2>1, <3>2 DEF V!Undefined, V!Is
      <4> QED BY <2>2, <3>2, <4>1, GivenValues
    <3> QED BY <3>1, <3>2
  <2>4. Structs!TypeOK'
    BY <2>1, <2>2, StructTypes DEF InstanceInv, Structs!TypeOK, Structs!Field, Structs!Byte, Bytes
  <2>5. \A j \in DOMAIN fields : Read(buffer, j)' = Read(buffer', j)
    BY <2>1 DEF Read
  <2> QED BY <2>1, <2>3, <2>4, <2>5 DEF InstanceInv, Read
<1>6. ASSUME NEW k \in Structs!Field, NEW v \in Inputs, Structs!Set(k, v)
      PROVE  InstanceInv'
  <2>1. /\ made /\ k \in DOMAIN fields /\ Structs!FieldBytes(fields[k], v)[1]
        /\ buffer' = Structs!Overlay(buffer, offsets[k], Structs!FieldBytes(fields[k], v)[2])
        /\ kept' = Structs!Keep(kept, fields[k], v)
        /\ written' = [written EXCEPT ![k] = v]
        /\ UNCHANGED <<fields, packing, stage, offsets, cursor, align, size, made>>
    BY <1>0, <1>6 DEF Structs!Set, Structs!Ok, Structs!layoutVars
  <2>2. v \in ScriptValue /\ fields[k] \in V!TypeName
    BY <1>0, <2>1, GivenValues
  <2>3. Structs!FieldBytes(fields[k], v)[2] = V!ResultBytes(fields[k], v) /\ Accepts(fields[k], v)
    BY <2>1, <2>2, FieldsAccept, StructTypes
  <2>4. /\ kept' \in Seq(Inputs) /\ \A x : Has(kept, x) => Has(kept', x)
        /\ fields[k] = "cstring" /\ V!Is(v, "string") => Has(kept', v)
    <3>1. kept \in Seq(Inputs)
      BY DEF InstanceInv, Structs!TypeOK
    <3>2. Append(kept, v) \in Seq(Inputs) /\ \A x : Has(Append(kept, v), x) <=> Has(kept, x) \/ x = v
      BY <3>1, AppendHas
    <3> QED BY <2>1, <3>1, <3>2, StructTypes DEF Structs!Keep
  <2> QED BY <2>1, <2>3, <2>4, WriteInv
<1>7. ASSUME NEW k \in Structs!Field, NEW v \in Inputs, Structs!Store(k, v)
      PROVE  InstanceInv'
  <2>1. /\ made /\ k \in DOMAIN fields /\ Structs!StoreBytes(fields[k], v)[1] /\ fields[k] # "cstring"
        /\ buffer' = Structs!Overlay(buffer, offsets[k], Structs!StoreBytes(fields[k], v)[2])
        /\ kept' = kept
        /\ written' = [written EXCEPT ![k] = v]
        /\ UNCHANGED <<fields, packing, stage, offsets, cursor, align, size, made>>
    BY <1>0, <1>7 DEF Structs!Store, Structs!Ok, Structs!layoutVars
  <2>2. v \in ScriptValue /\ fields[k] \in V!TypeName
    BY <1>0, <2>1, GivenValues
  <2>3. Structs!StoreBytes(fields[k], v)[2] = V!ResultBytes(fields[k], v) /\ Accepts(fields[k], v)
    BY <2>1, <2>2, FieldsAccept, StructTypes
  <2>4. kept' \in Seq(Inputs) /\ \A x : Has(kept, x) => Has(kept', x)
    BY <2>1 DEF InstanceInv, Structs!TypeOK
  <2> QED BY <2>1, <2>3, <2>4, WriteInv
<1> QED BY <1>1, <1>2, <1>3, <1>4, <1>5, <1>6, <1>7 DEF Structs!Next

(* What a field reads as. *)
LEMMA InstanceInvImplies == StructsInv /\ InstanceInv => Structs!FieldsKeepTheirValues
<1> SUFFICES ASSUME StructsInv, InstanceInv, made, NEW k \in DOMAIN fields
             PROVE  /\ Structs!Get(k) = Structs!Represented(fields[k], written[k])
                    /\ fields[k] # "cstring" => Structs!Load(k) = Structs!Get(k)
                    /\ Structs!Is(Structs!Get(k), "string") => Structs!Get(k) \in Structs!ToSet(kept)
  BY DEF Structs!FieldsKeepTheirValues, Structs!Field
<1>1. fields[k] \in V!TypeName /\ written[k] \in ScriptValue /\ Accepts(fields[k], written[k])
  BY StructTypes, LenProperties, ElementOfSeq DEF StructsInv, InstanceInv
<1>2. Structs!BytesOf(k) = V!ResultBytes(fields[k], written[k])
  BY StructTypes DEF InstanceInv, Structs!BytesOf, Read
<1>3. Structs!Get(k) = V!Represented(fields[k], written[k])
  BY <1>1, <1>2, ReadsAsNearest, StructTypes DEF Structs!Get
<1>4. fields[k] # "cstring" => Structs!Load(k) = Structs!Get(k)
  BY <1>2, StructTypes DEF Structs!Get, Structs!Load, V!Value, V!Peek
<1>5. ASSUME V!Is(Structs!Get(k), "string") PROVE Structs!Get(k) \in Structs!ToSet(kept)
  <2>1. fields[k] = "cstring" /\ V!Is(written[k], "string") /\ Structs!Get(k) = written[k]
    BY <1>3, <1>5 DEF V!Represented, V!Is, V!Number, V!Null
  <2>2. Has(kept, written[k])
    BY <2>1 DEF InstanceInv
  <2>3. DOMAIN kept = 1 .. Len(kept)
    BY LenProperties DEF InstanceInv, Structs!TypeOK
  <2> QED BY <2>1, <2>2, <2>3 DEF Has, Structs!ToSet
<1> QED BY <1>3, <1>4, <1>5, StructTypes

-----------------------------------------------------------------------------
(***************************************************************************)
(* Calls: what func and funcAsync make of the arguments.                   *)
(***************************************************************************)
CallsInv ==
  /\ declared \in Declarations /\ passed \in Seq(Arguments)
  /\ \/ plain = Calls!Nothing /\ async = Calls!Nothing
     \/ plain = Calls!InvokePlain(passed) /\ async = Calls!InvokeAsync(passed)

LEMMA CallTypes ==
  /\ Calls!TypeName = V!TypeName
  /\ \A t, b : /\ Calls!CallResult(t, b) = V!Value(t, b) /\ Calls!CallbackArgument(t, b) = V!Value(t, b)
               /\ Calls!Decode(t, b) = V!Decode(t, b)
  /\ \A t, v : Calls!Represented(t, v) = V!Represented(t, v)
  /\ \A t, v : Calls!ArgumentBytes(t, v) = V!ArgumentBytes(t, v)
  /\ \A t, v : Calls!AsyncArgumentBytes(t, v) = V!AsyncArgumentBytes(t, v)
  /\ \A t, v : Calls!ResultBytes(t, v) = V!ResultBytes(t, v)
  /\ \A n : Calls!Magnitude(n) = V!Magnitude(n)
  /\ Calls!Undefined = V!Undefined
<1>1. Calls!Size = V!Size /\ Calls!TypeName = V!TypeName
  BY DEF Calls!Size, V!Size, Calls!TypeName, V!TypeName,
         Calls!Signed, V!Signed, Calls!Unsigned, V!Unsigned, Calls!Address, V!Address
<1>2. \A t : /\ Calls!Limit(t) = V!Limit(t) /\ Calls!Low(t) = V!Low(t) /\ Calls!High(t) = V!High(t)
  BY <1>1 DEF Calls!Limit, V!Limit, Calls!Low, V!Low, Calls!High, V!High, Calls!Signed, V!Signed
<1>3. \A t, n : Calls!Encode(t, n) = V!Encode(t, n)
  BY <1>1, <1>2 DEF Calls!Encode, V!Encode
<1>4. \A t, v : Calls!Cast(t, v) = V!Cast(t, v)
  BY <1>2 DEF Calls!Cast, V!Cast, Calls!Is, V!Is
<1>5. \A t, b : Calls!Decode(t, b) = V!Decode(t, b)
  BY <1>1, <1>2 DEF Calls!Decode, V!Decode, Calls!MapThenSumSet, V!MapThenSumSet,
         Calls!MapThenFoldSet, V!MapThenFoldSet
<1>6. \A n : Calls!AsF64(n) = V!AsF64(n)
  BY DEF Calls!AsF64, V!AsF64, Calls!Magnitude, V!Magnitude
<1>7. \A t, n : Calls!Nearest(t, n) = V!Nearest(t, n)
  BY <1>2 DEF Calls!Nearest, V!Nearest, Calls!Magnitude, V!Magnitude
<1>8. \A t, b : Calls!Value(t, b) = V!Value(t, b)
  BY <1>5, <1>6 DEF Calls!Value, V!Value, Calls!Null, V!Null, Calls!String, V!String,
         Calls!Number, V!Number
<1>9. \A t, v : Calls!Represented(t, v) = V!Represented(t, v)
  BY <1>6, <1>7 DEF Calls!Represented, V!Represented, Calls!Is, V!Is, Calls!Null, V!Null,
         Calls!Number, V!Number
<1>10. \A v : /\ Calls!IsNumber(v) = V!IsNumber(v) /\ Calls!CString(v) = V!CString(v)
               /\ \A k : Calls!Is(v, k) = V!Is(v, k)
  BY <1>3 DEF Calls!IsNumber, V!IsNumber, Calls!Is, V!Is, Calls!CString, V!CString,
         Calls!IsEmpty, V!IsEmpty, Calls!Bytes, V!Bytes, Calls!Throws, V!Throws
<1>11. \A b : Calls!Bytes(b) = V!Bytes(b)
  BY DEF Calls!Bytes, V!Bytes
<1>12. \A t, v : Calls!ArgumentBytes(t, v) = V!ArgumentBytes(t, v)
  BY <1>3, <1>4, <1>10, <1>11 DEF Calls!ArgumentBytes, V!ArgumentBytes, Calls!Throws, V!Throws
<1>13. \A t, v : Calls!AsyncArgumentBytes(t, v) = V!AsyncArgumentBytes(t, v)
  BY <1>3, <1>4, <1>10, <1>11 DEF Calls!AsyncArgumentBytes, V!AsyncArgumentBytes
<1>14. \A t, v : Calls!ResultBytes(t, v) = V!ResultBytes(t, v)
  BY <1>3, <1>4, <1>10 DEF Calls!ResultBytes, V!ResultBytes
<1> QED BY <1>1, <1>5, <1>8, <1>9, <1>12, <1>13, <1>14 DEF Calls!CallResult, Calls!CallbackArgument,
         Calls!Magnitude, V!Magnitude, Calls!Undefined, V!Undefined

(* The parameters that are types, in their order: all of them, if all are. *)
KnownOf(q, t) == IF t \in V!TypeName THEN Append(q, t) ELSE q

LEMMA KnownGrows ==
  ASSUME NEW p \in Seq(STRING)
  PROVE  \E w : /\ w[0] = <<>> /\ \A j \in 1 .. Len(p) : w[j] = KnownOf(w[j - 1], p[j])
                /\ Calls!Known(p) = w[Len(p)]
<1> DEFINE n == Len(p)
           D == 1 .. n
           X == Seq(V!TypeName)
           step == [a \in X \X D |-> KnownOf(a[1], p[a[2]])]
           Good(it) == it = [s \in SUBSET D |->
                               IF s = {} THEN <<>> ELSE KnownOf(it[s \ {Last(s)}], p[Last(s)])]
           whole == CHOOSE it : Good(it)
<1>0. n \in Nat /\ DOMAIN p = D
  BY LenProperties
<1>1. Calls!Known(p) = whole[D]
  BY <1>0, CallTypes DEF Calls!Known, Calls!FoldLeft, Calls!MapThenFoldSet, Calls!Max, Last, KnownOf
<1>2. ASSUME NEW q \in X, NEW k \in D PROVE KnownOf(q, p[k]) \in X
  BY AppendProperties DEF KnownOf
<1>3. step \in [X \X D -> X]
  <2> HIDE DEF X, D
  <2> QED BY <1>2
<1>4. <<>> \in X
  BY EmptySeq
<1>5. PICK h \in [SUBSET D -> X] : Folds(h, D, <<>>, step)
  <2>1. n \in Nat /\ D = 1 .. n
    BY <1>0
  <2> HIDE DEF X, step, n, D
  <2> QED BY <1>3, <1>4, <2>1, FoldsExist
<1>6. \A s \in SUBSET D : s # {} => Last(s) \in s
  BY <1>0, LastIsIn
<1>7. Good(h)
  <2>1. ASSUME NEW s \in SUBSET D, s # {} PROVE h[s] = KnownOf(h[s \ {Last(s)}], p[Last(s)])
    <3> HIDE DEF X, D
    <3>1. Last(s) \in D /\ h[s \ {Last(s)}] \in X
      BY <1>6, <2>1
    <3>2. h[s] = step[<<h[s \ {Last(s)}], Last(s)>>]
      BY <1>5, <2>1 DEF Folds
    <3>3. step[<<h[s \ {Last(s)}], Last(s)>>] = KnownOf(h[s \ {Last(s)}], p[Last(s)])
      BY <3>1
    <3> HIDE DEF step
    <3> QED BY <3>2, <3>3
  <2>2. h[{}] = <<>>
    <3> HIDE DEF step, D
    <3> QED BY <1>5 DEF Folds
  <2> HIDE DEF step, D, X
  <2> QED BY <2>1, <2>2
<1>8. Good(whole)
  <2> HIDE DEF Good
  <2> QED BY <1>7
<1> HIDE DEF whole
<1> DEFINE w == [j \in 0 .. n |-> whole[1 .. j]]
<1>9. w[0] = <<>>
  <2>1. 1 .. 0 = {} /\ 0 \in 0 .. n /\ {} \in SUBSET D
    BY <1>0
  <2> HIDE DEF D
  <2> QED BY <1>8, <2>1
<1>10. ASSUME NEW j \in D PROVE w[j] = KnownOf(w[j - 1], p[j])
  <2>1. j \in 0 .. n /\ j - 1 \in 0 .. n /\ 1 .. j \in SUBSET D /\ 1 .. j # {}
    <3>1. n \in Nat /\ D = 1 .. n /\ j \in 1 .. n
      BY <1>0
    <3> HIDE DEF n, D
    <3>2. j \in 0 .. n /\ j - 1 \in 0 .. n /\ 1 .. j \subseteq 1 .. n /\ 1 \in 1 .. j
      BY <3>1
    <3> QED BY <3>1, <3>2
  <2>2. Last(1 .. j) = j /\ (1 .. j) \ {j} = 1 .. j - 1
    BY <1>0, LastIsIn
  <2>3. whole[1 .. j] = KnownOf(whole[(1 .. j) \ {j}], p[j])
    <3> HIDE DEF D
    <3> QED BY <1>8, <2>1, <2>2
  <2>4. w[j] = whole[1 .. j] /\ w[j - 1] = whole[1 .. j - 1]
    BY <2>1
  <2> HIDE DEF w
  <2> QED BY <2>2, <2>3, <2>4
<1>11. w[n] = Calls!Known(p)
  <2>1. n \in 0 .. n
    BY <1>0
  <2> QED BY <1>1, <2>1
<1> HIDE DEF w
<1> QED BY <1>9, <1>10, <1>11

LEMMA KnownTypes ==
  ASSUME NEW p \in Seq(STRING)
  PROVE  /\ Calls!Known(p) \in Seq(V!TypeName)
         /\ (\A i \in 1 .. Len(p) : p[i] \in V!TypeName) => Calls!Known(p) = p
<1>0. PICK n \in Nat : n = Len(p) /\ DOMAIN p = 1 .. n
  BY LenProperties
<1>1. PICK w : /\ w[0] = <<>> /\ \A j \in 1 .. n : w[j] = KnownOf(w[j - 1], p[j])
               /\ Calls!Known(p) = w[n]
  BY <1>0, KnownGrows
<1> DEFINE AllTypes == \A i \in 1 .. n : p[i] \in V!TypeName
           Fine(j) == /\ w[j] \in Seq(V!TypeName)
                      /\ AllTypes => Len(w[j]) = j /\ \A i \in 1 .. j : w[j][i] = p[i]
           Bad == {j \in 0 .. n : ~Fine(j)}
<1>2. Fine(0)
  BY <1>1, EmptySeq
<1>3. ASSUME NEW j \in 1 .. n, Fine(j - 1) PROVE Fine(j)
  <2>1. PICK q \in Seq(V!TypeName) : q = w[j - 1]
    BY <1>3
  <2>2. w[j] = KnownOf(q, p[j])
    BY <1>1, <2>1
  <2>3. CASE p[j] \in V!TypeName
    <3>1. w[j] = Append(q, p[j])
      BY <2>2, <2>3 DEF KnownOf
    <3>2. /\ w[j] \in Seq(V!TypeName) /\ Len(w[j]) = Len(q) + 1 /\ w[j][Len(q) + 1] = p[j]
          /\ \A i \in 1 .. Len(q) : w[j][i] = q[i]
      BY <2>3, <3>1, AppendProperties
    <3>3. ASSUME AllTypes PROVE Len(w[j]) = j /\ \A i \in 1 .. j : w[j][i] = p[i]
      <4>1. Len(q) = j - 1 /\ \A i \in 1 .. j - 1 : q[i] = p[i]
        BY <1>3, <2>1, <3>3
      <4>2. (j - 1) + 1 = j
        OBVIOUS
      <4>3. \A i \in 1 .. j : i = j \/ i \in 1 .. j - 1
        OBVIOUS
      <4> QED BY <3>2, <4>1, <4>2, <4>3
    <3> QED BY <3>2, <3>3
  <2>4. CASE p[j] \notin V!TypeName
    <3>1. w[j] = q /\ ~AllTypes
      BY <2>2, <2>4 DEF KnownOf
    <3> QED BY <3>1
  <2> QED BY <2>3, <2>4
<1> HIDE DEF Fine
<1>4. Bad = {}
  <2> SUFFICES ASSUME Bad # {} PROVE FALSE
    OBVIOUS
  <2>1. PICK j \in Bad : \A k \in Bad : j <= k
    <3>1. IsFiniteSet(0 .. n)
      <4>1. 0 \in Int /\ n \in Int
        OBVIOUS
      <4> QED BY <4>1, FS_Interval
    <3>2. IsFiniteSet(Bad) /\ Bad \subseteq Nat
      BY <3>1, FS_Subset
    <3> HIDE DEF Bad
    <3> QED BY <3>2, Smallest
  <2>2. j \in 1 .. n /\ j - 1 \notin Bad /\ j - 1 \in 0 .. n
    <3>1. j # 0 /\ j \in 0 .. n
      BY <1>2
    <3>2. j \in 1 .. n /\ j - 1 \in 0 .. n /\ ~(j <= j - 1)
      BY <3>1
    <3> HIDE DEF Bad
    <3> QED BY <2>1, <3>2
  <2>3. Fine(j - 1)
    BY <2>2
  <2> QED BY <1>3, <2>2, <2>3
<1>5. Fine(n)
  <2>1. n \in 0 .. n
    OBVIOUS
  <2> QED BY <1>4, <2>1
<1>6. ASSUME AllTypes PROVE w[n] = p
  <2>1. w[n] \in Seq(V!TypeName) /\ Len(w[n]) = n /\ \A i \in 1 .. n : w[n][i] = p[i]
    BY <1>5, <1>6 DEF Fine
  <2> HIDE DEF AllTypes
  <2>2. w[n] = [i \in 1 .. n |-> w[n][i]] /\ p = [i \in 1 .. n |-> p[i]]
    BY <1>0, <2>1, LenProperties
  <2> QED BY <2>1, <2>2
<1>7. w[n] \in Seq(V!TypeName)
  BY <1>5 DEF Fine
<1> QED BY <1>0, <1>1, <1>6, <1>7

LEMMA TypesAre ==
  ASSUME NEW p \in Seq(STRING)
  PROVE  /\ Calls!Types(p) \in Seq(V!TypeName)
         /\ Calls!IsVariadic(p) => Calls!Fixed(p) \in Nat /\ Len(Calls!Types(p)) <= Calls!Fixed(p)
         /\ (\A i \in DOMAIN p : p[i] \in V!TypeName) => Calls!Types(p) = p
<1>0. PICK n \in Nat : n = Len(p) /\ DOMAIN p = 1 .. n
  BY LenProperties
<1>1. PICK known \in Seq(V!TypeName) :
        /\ known = Calls!Known(p)
        /\ (\A i \in 1 .. n : p[i] \in V!TypeName) => known = p
  BY <1>0, KnownTypes
<1>2. Len(known) \in Nat
  OBVIOUS
<1>3. CASE Calls!IsVariadic(p)
  <2>1. PICK m \in Calls!Dots(p) : \A x \in Calls!Dots(p) : m >= x
    <3>1. Calls!Dots(p) \subseteq 1 .. n /\ Calls!Dots(p) # {}
      BY <1>0, <1>3 DEF Calls!Dots, Calls!IsVariadic
    <3> QED BY <3>1, Greatest
  <2>2. Calls!Max(Calls!Dots(p)) \in Calls!Dots(p)
    BY <2>1 DEF Calls!Max
  <2>3. PICK f \in Nat : f = Calls!Fixed(p)
    <3>1. Calls!Max(Calls!Dots(p)) \in 1 .. n
      BY <1>0, <2>2 DEF Calls!Dots
    <3>2. Calls!Max(Calls!Dots(p)) - 1 \in Nat
      BY <3>1
    <3> QED BY <3>2 DEF Calls!Fixed
  <2>4. \E i \in 1 .. n : p[i] \notin V!TypeName
    <3>1. "..." \notin V!TypeName
      BY DEF V!TypeName, V!Signed, V!Unsigned, V!Address
    <3> QED BY <1>0, <2>1, <3>1 DEF Calls!Dots
  <2>5. CASE Len(known) > f
    <3>1. Calls!Types(p) = SubSeq(known, 1, f)
      BY <1>1, <1>3, <2>3, <2>5 DEF Calls!Types
    <3>2. SubSeq(known, 1, f) \in Seq(V!TypeName) /\ Len(SubSeq(known, 1, f)) = f
      <4>1. \A i \in 1 .. f : known[i] \in V!TypeName
        <5>1. \A i \in 1 .. f : i \in 1 .. Len(known)
          BY <1>2, <2>5
        <5> QED BY <5>1, ElementOfSeq
      <4>2. 1 \in Int /\ f \in Int /\ f - 1 + 1 = f /\ (~(1 <= f) => f = 0)
        OBVIOUS
      <4> QED BY <4>1, <4>2, SubSeqProperties
    <3>3. PICK cut \in Seq(V!TypeName) : cut = Calls!Types(p) /\ Len(cut) = f
      BY <3>1, <3>2
    <3>4. ~\A i \in DOMAIN p : p[i] \in V!TypeName
      BY <1>0, <2>4
    <3>5. f <= f
      OBVIOUS
    <3> QED BY <2>3, <3>3, <3>4, <3>5
  <2>6. CASE ~(Len(known) > f)
    <3>1. Calls!Types(p) = known
      BY <1>1, <1>3, <2>3, <2>6 DEF Calls!Types
    <3> QED BY <1>0, <1>2, <2>3, <2>4, <2>6, <3>1
  <2> QED BY <2>5, <2>6
<1>4. CASE ~Calls!IsVariadic(p)
  <2>1. Calls!Types(p) = known
    BY <1>1, <1>4 DEF Calls!Types
  <2> QED BY <1>0, <1>1, <1>4, <2>1
<1> QED BY <1>3, <1>4

(* An argument that is accepted has the same bytes everywhere. *)
LEMMA ArgumentAccepted ==
  ASSUME NEW t \in V!TypeName, NEW v \in ScriptValue, V!ArgumentBytes(t, v)[1]
  PROVE  /\ V!ArgumentBytes(t, v)[2] = V!ResultBytes(t, v)
         /\ V!AsyncArgumentBytes(t, v) = V!ArgumentBytes(t, v)
         /\ Accepts(t, v)
<1>1. V!Throws[1] = FALSE /\ \A b : V!Bytes(b)[1] = TRUE /\ V!Bytes(b)[2] = b
  BY DEF V!Throws, V!Bytes
<1>2. CASE t = "cstring"
  BY <1>1, <1>2 DEF V!ArgumentBytes, V!AsyncArgumentBytes, V!ResultBytes, V!CString, Accepts,
                    V!IsEmpty, V!Is
<1>3. CASE t # "cstring"
  BY <1>1, <1>3 DEF V!ArgumentBytes, V!AsyncArgumentBytes, V!ResultBytes, Accepts, V!IsNumber, V!Is
<1> QED BY <1>2, <1>3

(* A call that is made: one type for each argument, of which none threw.   *)
LEMMA CallMade ==
  ASSUME NEW args \in Seq(Arguments), declared \in Declarations,
         Calls!InvokePlain(args).outcome = "called"
  PROVE  LET types == Calls!Types(declared) IN
         /\ types \in Seq(V!TypeName) /\ Len(args) = Len(types)
         /\ \A i \in 1 .. Len(types) : Accepts(types[i], args[i])
         /\ Calls!InvokePlain(args) =
              [outcome |-> "called", bytes |-> [i \in 1 .. Len(types) |-> V!ResultBytes(types[i], args[i])]]
         /\ Calls!InvokeAsync(args) = Calls!InvokePlain(args)
<1>0. declared \in Seq(STRING)
  BY StructsAssumption
<1>1. PICK types \in Seq(V!TypeName) :
        /\ types = Calls!Types(declared)
        /\ Calls!IsVariadic(declared) => Calls!Fixed(declared) \in Nat /\ Len(types) <= Calls!Fixed(declared)
  BY <1>0, TypesAre
<1>2. PICK n \in Nat : n = Len(args) /\ DOMAIN args = 1 .. n
  BY LenProperties
<1>3. Len(types) \in Nat /\ DOMAIN types = 1 .. Len(types)
  BY LenProperties
<1> DEFINE bad == {i \in DOMAIN args : Calls!Converted(args, i).outcome # "called"}
           given == [outcome |-> "called", bytes |-> [i \in DOMAIN args |-> Calls!Converted(args, i).bytes]]
<1>4. Calls!InvokePlain(args) =
        IF Calls!ArityRefused(args) THEN [outcome |-> "throws", bytes |-> <<>>]
        ELSE IF bad # {} THEN Calls!Converted(args, Calls!Min(bad))
        ELSE IF Len(args) # Len(types) THEN [outcome |-> "panics", bytes |-> <<>>]
        ELSE given
  BY <1>1 DEF Calls!InvokePlain
<1>5. bad # {} => Calls!Min(bad) \in bad
  <2> SUFFICES ASSUME bad # {} PROVE Calls!Min(bad) \in bad
    OBVIOUS
  <2>1. bad \subseteq Nat /\ IsFiniteSet(bad)
    <3>1. IsFiniteSet(1 .. n)
      <4>1. 1 \in Int /\ n \in Int
        OBVIOUS
      <4> QED BY <4>1, FS_Interval
    <3> QED BY <1>2, <3>1, FS_Subset
  <2> HIDE DEF bad
  <2>2. \E m \in bad : \A x \in bad : m <= x
    BY <2>1, Smallest
  <2> QED BY <2>2 DEF Calls!Min
<1>6. bad # {} => Calls!Converted(args, Calls!Min(bad)).outcome # "called"
  BY <1>5
<1>7. bad = {} /\ Len(args) = Len(types) /\ Calls!InvokePlain(args) = given
  <2> HIDE DEF bad, given
  <2> QED BY <1>4, <1>6
<1>8. ASSUME NEW i \in 1 .. n
      PROVE  /\ types[i] \in V!TypeName /\ args[i] \in ScriptValue
             /\ V!ArgumentBytes(types[i], args[i])[1]
             /\ Calls!Converted(args, i).bytes = V!ArgumentBytes(types[i], args[i])[2]
  <2>1. types[i] \in V!TypeName /\ args[i] \in Arguments
    BY <1>2, <1>7, ElementOfSeq
  <2>2. args[i] \in ScriptValue
    BY <2>1, GivenValues
  <2>3. ~(i > Len(types)) /\ ~(Calls!IsVariadic(declared) /\ i > Calls!Fixed(declared))
    BY <1>1, <1>2, <1>7
  <2>4. Calls!Converted(args, i).outcome = "called"
    BY <1>2, <1>7
  <2>5. Calls!Converted(args, i) =
          IF V!ArgumentBytes(types[i], args[i])[1]
          THEN [outcome |-> "called", bytes |-> V!ArgumentBytes(types[i], args[i])[2]]
          ELSE [outcome |-> "throws", bytes |-> <<>>]
    BY <1>1, <2>3, CallTypes DEF Calls!Converted, Calls!Ok
  <2> QED BY <2>1, <2>2, <2>4, <2>5
<1>9. \A i \in 1 .. n :
        /\ Calls!Converted(args, i).bytes = V!ResultBytes(types[i], args[i])
        /\ Accepts(types[i], args[i])
        /\ V!AsyncArgumentBytes(types[i], args[i])[1]
        /\ V!AsyncArgumentBytes(types[i], args[i])[2] = V!ResultBytes(types[i], args[i])
  BY <1>8, ArgumentAccepted
<1> DEFINE bytes == [i \in 1 .. Len(types) |-> V!ResultBytes(types[i], args[i])]
<1>10. given = [outcome |-> "called", bytes |-> bytes]
  BY <1>2, <1>7, <1>9
<1> DEFINE Taken(i) == Calls!AsyncArgumentBytes(types[i], IF i \in DOMAIN args THEN args[i] ELSE Calls!Undefined)
           results == [i \in DOMAIN types |-> Taken(i)]
<1>11. \A i \in DOMAIN types : results[i][1] /\ results[i][2] = bytes[i]
  <2>1. \A i \in DOMAIN types : Taken(i) = V!AsyncArgumentBytes(types[i], args[i])
    BY <1>2, <1>3, <1>7, CallTypes
  <2> QED BY <1>2, <1>3, <1>7, <1>9, <2>1
<1>12. Calls!InvokeAsync(args) = [outcome |-> "called", bytes |-> bytes]
  <2>1. Calls!InvokeAsync(args) =
          IF \E i \in DOMAIN types : ~results[i][1]
          THEN [outcome |-> "throws", bytes |-> <<>>]
          ELSE [outcome |-> "called", bytes |-> [i \in DOMAIN types |-> results[i][2]]]
    BY <1>1 DEF Calls!InvokeAsync, Calls!Ok
  <2>2. [i \in DOMAIN types |-> results[i][2]] = bytes
    <3> HIDE DEF results
    <3> QED BY <1>3, <1>11
  <2> HIDE DEF results, bytes
  <2> QED BY <1>11, <2>1, <2>2
<1> HIDE DEF bytes, given
<1>13. bytes = [i \in 1 .. Len(types) |-> V!ResultBytes(types[i], args[i])]
  BY DEF bytes
<1> QED BY <1>1, <1>2, <1>7, <1>9, <1>10, <1>12, <1>13

-----------------------------------------------------------------------------
LEMMA CallsInitInv == Calls!Init => CallsInv
BY EmptySeq DEF Calls!Init, CallsInv

LEMMA CallsStepInv == CallsInv /\ [Calls!Next]_ffiCallVars => CallsInv'
<1> SUFFICES ASSUME CallsInv, [Calls!Next]_ffiCallVars PROVE CallsInv'
  OBVIOUS
<1>1. CASE UNCHANGED ffiCallVars
  BY <1>1 DEF CallsInv, ffiCallVars, Calls!InvokePlain, Calls!InvokeAsync, Calls!Nothing,
              Calls!ArityRefused, Calls!Converted
<1>2. ASSUME NEW n \in 0 .. Calls!MaxArguments, NEW args \in [1 .. n -> Arguments], Calls!Call(args)
      PROVE  CallsInv'
  <2>1. args \in Seq(Arguments)
    <3>1. n \in Nat
      BY DEF Calls!MaxArguments
    <3> QED BY <3>1, SeqDef
  <2>2. /\ declared' = declared /\ passed' = args
        /\ plain' = Calls!InvokePlain(args) /\ async' = Calls!InvokeAsync(args)
    BY <1>2 DEF Calls!Call
  <2>3. /\ Calls!InvokePlain(passed)' = Calls!InvokePlain(args)
        /\ Calls!InvokeAsync(passed)' = Calls!InvokeAsync(args)
    BY <2>2 DEF Calls!InvokePlain, Calls!InvokeAsync, Calls!ArityRefused, Calls!Converted
  <2> QED BY <2>1, <2>2, <2>3 DEF CallsInv
<1> QED BY <1>1, <1>2 DEF Calls!Next

LEMMA CallsInvImplies ==
  CallsInv => /\ Calls!TypeOK /\ Calls!EveryArgumentArrives /\ Calls!AsyncPassesTheSame
              /\ Calls!CallbacksReturnWhatTheyGet
<1> SUFFICES ASSUME CallsInv
             PROVE  /\ Calls!TypeOK /\ Calls!EveryArgumentArrives /\ Calls!AsyncPassesTheSame
                    /\ Calls!CallbacksReturnWhatTheyGet
  OBVIOUS
<1>1. declared \in Declarations /\ passed \in Seq(Arguments)
  BY DEF CallsInv
<1>2. CASE plain = Calls!Nothing /\ async = Calls!Nothing
  <2>1. plain.outcome = "none" /\ async.outcome = "none"
    BY <1>2 DEF Calls!Nothing
  <2> QED BY <1>1, <2>1 DEF Calls!TypeOK, Calls!Outcome, Calls!EveryArgumentArrives,
                            Calls!AsyncPassesTheSame, Calls!CallbacksReturnWhatTheyGet
<1>3. CASE plain = Calls!InvokePlain(passed) /\ async = Calls!InvokeAsync(passed)
  <2>1. ASSUME plain.outcome = "called"
        PROVE  async = plain /\ Calls!EveryArgumentArrives /\ Calls!CallbacksReturnWhatTheyGet
    <3>1. PICK types \in Seq(V!TypeName) :
            /\ types = Calls!Types(declared) /\ Len(passed) = Len(types)
            /\ \A i \in 1 .. Len(types) : Accepts(types[i], passed[i])
            /\ plain = [outcome |-> "called",
                        bytes |-> [i \in 1 .. Len(types) |-> V!ResultBytes(types[i], passed[i])]]
            /\ async = plain
      BY <1>1, <1>3, <2>1, CallMade
    <3>2. PICK n \in Nat : n = Len(types) /\ DOMAIN types = 1 .. n
      BY LenProperties
    <3>3. ASSUME NEW i \in 1 .. n PROVE types[i] \in V!TypeName /\ passed[i] \in ScriptValue
      <4>1. types[i] \in V!TypeName /\ passed[i] \in Arguments
        BY <1>1, <3>1, <3>2, ElementOfSeq
      <4> QED BY <4>1, GivenValues
    <3>4. /\ DOMAIN plain.bytes = 1 .. n /\ Len(plain.bytes) = n
          /\ \A i \in 1 .. n : plain.bytes[i] = V!ResultBytes(types[i], passed[i])
      BY <3>1, <3>2
    <3>5. ASSUME NEW i \in 1 .. n
          PROVE  /\ V!Value(types[i], plain.bytes[i]) = V!Represented(types[i], passed[i])
                 /\ V!Magnitude(V!Decode(types[i], plain.bytes[i])) <= Exact =>
                      V!ResultBytes(types[i], V!Value(types[i], plain.bytes[i])) = plain.bytes[i]
      <4>1. /\ plain.bytes[i] = V!ResultBytes(types[i], passed[i])
            /\ types[i] \in V!TypeName /\ passed[i] \in ScriptValue /\ Accepts(types[i], passed[i])
        BY <3>1, <3>2, <3>3, <3>4
      <4>2. /\ V!Value(types[i], plain.bytes[i]) = V!Represented(types[i], passed[i])
            /\ V!Decode(types[i], plain.bytes[i]) = Stored(types[i], passed[i])
        BY <4>1, ReadsAsNearest
      <4>3. /\ Stored(types[i], passed[i]) \in V!Low(types[i]) .. V!High(types[i])
            /\ plain.bytes[i] = V!Encode(types[i], Stored(types[i], passed[i]))
        BY <4>1, StoredFits
      <4> QED BY <4>1, <4>2, <4>3, ReturnsTheSame
    <3>6. Calls!EveryArgumentArrives
      <4> SUFFICES ASSUME \A i \in DOMAIN declared : declared[i] \in Calls!TypeName
                   PROVE  /\ Len(plain.bytes) = Len(declared)
                          /\ \A i \in DOMAIN declared :
                               Calls!CallResult(declared[i], plain.bytes[i])
                                 = Calls!Represented(declared[i], passed[i])
        BY DEF Calls!EveryArgumentArrives
      <4>1. types = declared
        <5>1. declared \in Seq(STRING)
          BY <1>1, StructsAssumption
        <5> QED BY <3>1, <5>1, TypesAre, CallTypes
      <4> QED BY <3>2, <3>4, <3>5, <4>1, CallTypes
    <3>7. Calls!CallbacksReturnWhatTheyGet
      <4>1. \A i \in 1 .. n :
              Calls!Magnitude(Calls!Decode(types[i], plain.bytes[i])) <= Exact =>
                Calls!ResultBytes(types[i], Calls!CallbackArgument(types[i], plain.bytes[i]))
                  = plain.bytes[i]
        BY <3>5, CallTypes
      <4> QED BY <3>1, <3>4, <4>1 DEF Calls!CallbacksReturnWhatTheyGet
    <3> QED BY <3>1, <3>6, <3>7
  <2>2. plain.outcome \in Calls!Outcome /\ async.outcome \in Calls!Outcome
    <3>1. \A i : Calls!Converted(passed, i).outcome \in {"called", "throws", "panics"}
      BY DEF Calls!Converted
    <3> QED BY <1>3, <3>1 DEF Calls!InvokePlain, Calls!InvokeAsync, Calls!Outcome
  <2>3. Calls!TypeOK
    BY <1>1, <2>2 DEF Calls!TypeOK
  <2> QED BY <2>1, <2>3 DEF Calls!EveryArgumentArrives, Calls!AsyncPassesTheSame,
                            Calls!CallbacksReturnWhatTheyGet
<1> QED BY <1>2, <1>3 DEF CallsInv

-----------------------------------------------------------------------------
(* Callbacks, libraries and memory.  A number is given to one callback; the *)
(* function of a registered one is taken while its frame is on the stack,  *)
(* of which there is one.                                                  *)
HeldByFrames ==
  /\ \A i \in 1 .. Len(stack) : stack[i] <= created
  /\ \A c \in registry : (c \in taken <=> Has(stack, c)) /\ OnceIn(stack, c)
  /\ answer.how = "unwritten" => answer.of # 0 /\ Has(stack, answer.of)

HoldsInv ==
  /\ Holds!TypeOK /\ HeldByFrames
  /\ Holds!NativeCodeStaysUntilClose /\ Holds!BlocksAreReturnedWhole

LEMMA HoldsInitInv == Holds!Init => HoldsInv
<1> SUFFICES ASSUME Holds!Init PROVE HoldsInv
  OBVIOUS
<1> USE ObjectsAssumption DEF Holds!Init
<1>1. stack \in Seq(0 .. MaxCallbacks) /\ Len(stack) = 0
  BY EmptySeq
<1>2. Holds!TypeOK
  <2>1. answer \in Holds!Answer
    BY DEF Holds!Answer
  <2>2. blocks \in [Holds!Block -> Nat] /\ pointers = {} /\ engine = {} /\ misfreed = {}
    OBVIOUS
  <2>3. /\ Len(stack) <= MaxDepth /\ created \in 0 .. MaxCallbacks
        /\ registry \subseteq 1 .. created /\ taken \subseteq registry
    BY <1>1
  <2>4. /\ touched \in BOOLEAN /\ inner \in BOOLEAN /\ libClosed \in BOOLEAN
        /\ held \in BOOLEAN /\ reached \in BOOLEAN
        /\ unloaded \in {"no", "idle", "running"}
    OBVIOUS
  <2> QED BY <1>1, <2>1, <2>2, <2>3, <2>4 DEF Holds!TypeOK
<1>3. HeldByFrames
  BY <1>1 DEF HeldByFrames
<1> QED
  BY <1>2, <1>3 DEF HoldsInv, Holds!NativeCodeStaysUntilClose, Holds!BlocksAreReturnedWhole

(* The frame on top goes. *)
LEMMA PopFrame ==
  ASSUME NEW S, NEW q \in Seq(S), q # <<>>
  PROVE  LET p == SubSeq(q, 1, Len(q) - 1)
         IN /\ p \in Seq(S) /\ Len(p) = Len(q) - 1 /\ Len(q) \in Nat \ {0}
            /\ q[Len(q)] \in S
            /\ \A i \in 1 .. Len(p) : p[i] = q[i]
            /\ \A x : x # q[Len(q)] => (Has(p, x) <=> Has(q, x))
            /\ \A x : OnceIn(q, x) => OnceIn(p, x)
            /\ \A x : OnceIn(q, x) /\ x = q[Len(q)] => ~Has(p, x)
<1> DEFINE p == SubSeq(q, 1, Len(q) - 1)
<1>1. Len(q) \in Nat \ {0} /\ \A i \in 1 .. Len(q) : q[i] \in S
  BY EmptySeq, LenProperties, ElementOfSeq
<1>2. /\ p \in Seq(S) /\ Len(p) = Len(q) - 1
      /\ \A i \in 1 .. Len(q) - 1 : p[i] = q[i]
  BY <1>1, SubSeqProperties
<1> HIDE DEF p
<1>3. ASSUME NEW x, x # q[Len(q)] PROVE Has(p, x) <=> Has(q, x)
  <2>1. \A i \in 1 .. Len(q) : i = Len(q) \/ i \in 1 .. Len(p)
    BY <1>1, <1>2
  <2>2. \A i \in 1 .. Len(p) : i \in 1 .. Len(q)
    BY <1>1, <1>2
  <2> QED BY <1>2, <1>3, <2>1, <2>2 DEF Has
<1>4. ASSUME NEW x, OnceIn(q, x) PROVE OnceIn(p, x)
  BY <1>1, <1>2, <1>4 DEF OnceIn
<1>5. ASSUME NEW x, OnceIn(q, x), x = q[Len(q)] PROVE ~Has(p, x)
  BY <1>1, <1>2, <1>5 DEF OnceIn, Has
<1> QED BY <1>1, <1>2, <1>3, <1>4, <1>5 DEF p

(* One more frame. *)
LEMMA PushFrame ==
  ASSUME NEW S, NEW q \in Seq(S), NEW y \in S
  PROVE  /\ Append(q, y) \in Seq(S) /\ Len(Append(q, y)) = Len(q) + 1 /\ Len(q) \in Nat
         /\ \A x : Has(Append(q, y), x) <=> Has(q, x) \/ x = y
         /\ \A x : OnceIn(q, x) /\ (x = y => ~Has(q, x)) => OnceIn(Append(q, y), x)
         /\ \A i \in 1 .. Len(q) + 1 : Append(q, y)[i] = IF i = Len(q) + 1 THEN y ELSE q[i]
<1>1. /\ Append(q, y) \in Seq(S) /\ Len(Append(q, y)) = Len(q) + 1 /\ Len(q) \in Nat
      /\ Append(q, y)[Len(q) + 1] = y
      /\ \A i \in 1 .. Len(q) : Append(q, y)[i] = q[i]
  BY AppendProperties, LenProperties
<1>2. \A x : Has(Append(q, y), x) <=> Has(q, x) \/ x = y
  BY AppendHas
<1>3. \A i \in 1 .. Len(q) + 1 : Append(q, y)[i] = IF i = Len(q) + 1 THEN y ELSE q[i]
  BY <1>1
<1>4. ASSUME NEW x, OnceIn(q, x), x = y => ~Has(q, x) PROVE OnceIn(Append(q, y), x)
  <2> SUFFICES ASSUME NEW i \in 1 .. Len(q) + 1, NEW j \in 1 .. Len(q) + 1,
                      Append(q, y)[i] = x, Append(q, y)[j] = x
               PROVE  i = j
    BY <1>1 DEF OnceIn
  <2>1. CASE i \in 1 .. Len(q) /\ j \in 1 .. Len(q)
    BY <1>1, <1>4, <2>1 DEF OnceIn
  <2>2. CASE i = Len(q) + 1 /\ j \in 1 .. Len(q)
    BY <1>1, <1>4, <2>2 DEF Has
  <2>3. CASE j = Len(q) + 1 /\ i \in 1 .. Len(q)
    BY <1>1, <1>4, <2>3 DEF Has
  <2> QED BY <1>1, <2>1, <2>2, <2>3
<1> QED BY <1>1, <1>2, <1>3, <1>4

(* Callbacks: created, freed and called; libraries and memory stay. *)
LEMMA CallbackStepInv ==
  ASSUME HoldsInv,
         \/ Holds!CreateCallback \/ Holds!CallbackReturns
         \/ \E c \in Holds!Callback :
              \/ Holds!FreeCallback(c) \/ Holds!TrampolineRefused(c)
              \/ Holds!TrampolineReentered(c) \/ Holds!TrampolineCalls(c)
  PROVE  HoldsInv'
<1> USE ObjectsAssumption
<1>1. /\ stack \in Seq(0 .. MaxCallbacks) /\ Len(stack) <= MaxDepth
      /\ created \in 0 .. MaxCallbacks /\ registry \subseteq 1 .. created /\ taken \subseteq registry
      /\ touched \in BOOLEAN /\ answer \in Holds!Answer
      /\ HeldByFrames
  BY DEF HoldsInv, Holds!TypeOK
<1>2. UNCHANGED <<Holds!libraryVars, Holds!blockVars>>
  BY DEF Holds!CreateCallback, Holds!CallbackReturns, Holds!FreeCallback, Holds!TrampolineRefused,
         Holds!TrampolineReentered, Holds!TrampolineCalls
<1>3. SUFFICES /\ stack' \in Seq(0 .. MaxCallbacks) /\ Len(stack') <= MaxDepth
               /\ created' \in 0 .. MaxCallbacks /\ registry' \subseteq 1 .. created'
               /\ taken' \subseteq registry'
               /\ touched' \in BOOLEAN /\ answer' \in Holds!Answer
               /\ HeldByFrames'
  <2>1. stack' # <<>> => stack # <<>>
    BY DEF Holds!CreateCallback, Holds!CallbackReturns, Holds!FreeCallback,
           Holds!TrampolineRefused, Holds!TrampolineReentered, Holds!TrampolineCalls,
           Holds!InNative
  <2> QED BY <1>2, <1>3, <2>1 DEF HoldsInv, Holds!TypeOK, Holds!NativeCodeStaysUntilClose,
            Holds!BlocksAreReturnedWhole, Holds!libraryVars, Holds!blockVars, Holds!Live
<1>4. CASE Holds!CreateCallback
  <2>1. /\ created' = created + 1 /\ registry' = registry \cup {created + 1}
        /\ UNCHANGED <<stack, taken, touched, answer>> /\ created < MaxCallbacks
    BY <1>4 DEF Holds!CreateCallback
  <2>2. \A i \in 1 .. Len(stack) : stack[i] \in 0 .. MaxCallbacks /\ stack[i] <= created
    BY <1>1, ElementOfSeq DEF HeldByFrames
  <2>3. ~Has(stack, created + 1)
    BY <1>1, <2>2 DEF Has
  <2>4. OnceIn(stack, created + 1) /\ created + 1 \notin taken
    BY <1>1, <2>3 DEF OnceIn, Has
  <2>5. HeldByFrames'
    BY <1>1, <2>1, <2>2, <2>3, <2>4 DEF HeldByFrames
  <2> QED BY <1>1, <2>1, <2>5
<1>5. CASE Holds!CallbackReturns
  <2> DEFINE top == stack[Len(stack)]
  <2>1. /\ stack # <<>> /\ top # 0
        /\ stack' = SubSeq(stack, 1, Len(stack) - 1) /\ taken' = taken \ {top}
        /\ touched' = (touched \/ top \notin registry)
        /\ answer' = [of |-> top, how |-> "value"]
        /\ UNCHANGED <<created, registry>>
    BY <1>5 DEF Holds!CallbackReturns, Holds!Top, Holds!Pop
  <2>2. /\ stack' \in Seq(0 .. MaxCallbacks) /\ Len(stack') = Len(stack) - 1
        /\ Len(stack) \in Nat \ {0} /\ top \in 0 .. MaxCallbacks
        /\ \A i \in 1 .. Len(stack') : stack'[i] = stack[i]
        /\ \A x : x # top => (Has(stack', x) <=> Has(stack, x))
        /\ \A x : OnceIn(stack, x) => OnceIn(stack', x)
        /\ \A x : OnceIn(stack, x) /\ x = top => ~Has(stack', x)
    BY <1>1, <2>1, PopFrame
  <2> HIDE DEF top
  <2>3. \A c \in registry' : (c \in taken' <=> Has(stack', c)) /\ OnceIn(stack', c)
    <3> TAKE c \in registry'
    <3>1. c \in registry /\ (c \in taken <=> Has(stack, c)) /\ OnceIn(stack, c)
      BY <1>1, <2>1 DEF HeldByFrames
    <3> QED BY <2>1, <2>2, <3>1
  <2>4. \A i \in 1 .. Len(stack') : stack'[i] <= created'
    BY <1>1, <2>1, <2>2 DEF HeldByFrames
  <2>5. answer' \in Holds!Answer /\ answer'.how # "unwritten"
    BY <2>1, <2>2 DEF Holds!Answer
  <2> QED BY <1>1, <2>1, <2>2, <2>3, <2>4, <2>5 DEF HeldByFrames
<1>6. ASSUME NEW c \in Holds!Callback, Holds!FreeCallback(c)
      PROVE  /\ stack' \in Seq(0 .. MaxCallbacks) /\ Len(stack') <= MaxDepth
             /\ created' \in 0 .. MaxCallbacks /\ registry' \subseteq 1 .. created'
             /\ taken' \subseteq registry'
             /\ touched' \in BOOLEAN /\ answer' \in Holds!Answer
             /\ HeldByFrames'
  BY <1>1, <1>6 DEF Holds!FreeCallback, HeldByFrames
<1>7. ASSUME NEW c \in Holds!Callback, Holds!TrampolineRefused(c) \/ Holds!TrampolineReentered(c)
      PROVE  /\ stack' \in Seq(0 .. MaxCallbacks) /\ Len(stack') <= MaxDepth
             /\ created' \in 0 .. MaxCallbacks /\ registry' \subseteq 1 .. created'
             /\ taken' \subseteq registry'
             /\ touched' \in BOOLEAN /\ answer' \in Holds!Answer
             /\ HeldByFrames'
  <2>1. /\ UNCHANGED <<stack, created, registry, taken, touched>> /\ c \in registry
        /\ \/ answer' = [of |-> c, how |-> "zero"]
           \/ answer' = [of |-> c, how |-> "unwritten"] /\ c \in taken
    BY <1>7 DEF Holds!TrampolineRefused, Holds!TrampolineReentered
  <2>2. answer' \in Holds!Answer /\ answer'.of = c /\ c # 0
        /\ (answer'.how = "unwritten" => c \in taken)
    BY <1>1, <2>1 DEF Holds!Answer
  <2> QED BY <1>1, <2>1, <2>2 DEF HeldByFrames
<1>8. ASSUME NEW c \in Holds!Callback, Holds!TrampolineCalls(c)
      PROVE  /\ stack' \in Seq(0 .. MaxCallbacks) /\ Len(stack') <= MaxDepth
             /\ created' \in 0 .. MaxCallbacks /\ registry' \subseteq 1 .. created'
             /\ taken' \subseteq registry'
             /\ touched' \in BOOLEAN /\ answer' \in Holds!Answer
             /\ HeldByFrames'
  <2>1. /\ c \in registry /\ c \notin taken /\ Len(stack) < MaxDepth
        /\ taken' = taken \cup {c} /\ stack' = Append(stack, c)
        /\ UNCHANGED <<created, registry, touched, answer>>
    BY <1>8 DEF Holds!TrampolineCalls
  <2>2. c \in 0 .. MaxCallbacks /\ c <= created
    BY <1>1, <2>1
  <2>3. /\ stack' \in Seq(0 .. MaxCallbacks) /\ Len(stack') = Len(stack) + 1 /\ Len(stack) \in Nat
        /\ \A x : Has(stack', x) <=> Has(stack, x) \/ x = c
        /\ \A x : OnceIn(stack, x) /\ (x = c => ~Has(stack, x)) => OnceIn(stack', x)
        /\ \A i \in 1 .. Len(stack) + 1 : stack'[i] = IF i = Len(stack) + 1 THEN c ELSE stack[i]
    BY <1>1, <2>1, <2>2, PushFrame
  <2>4. \A d \in registry' : (d \in taken' <=> Has(stack', d)) /\ OnceIn(stack', d)
    <3> TAKE d \in registry'
    <3>1. d \in registry /\ (d \in taken <=> Has(stack, d)) /\ OnceIn(stack, d)
      BY <1>1, <2>1 DEF HeldByFrames
    <3> QED BY <2>1, <2>3, <3>1
  <2>5. \A i \in 1 .. Len(stack') : stack'[i] <= created'
    BY <1>1, <2>1, <2>2, <2>3 DEF HeldByFrames
  <2>6. answer'.how = "unwritten" => answer'.of # 0 /\ Has(stack', answer'.of)
    BY <1>1, <2>1, <2>3 DEF HeldByFrames
  <2> QED BY <1>1, <2>1, <2>3, <2>4, <2>5, <2>6 DEF HeldByFrames
<1> QED BY <1>4, <1>5, <1>6, <1>7, <1>8

(* The library; a call of a function of it and its return are frames too.  *)
LEMMA LibraryStepInv ==
  ASSUME HoldsInv,
         Holds!Func \/ Holds!CallFunction \/ Holds!FunctionReturns \/ Holds!Close \/ Holds!CloseAsync
  PROVE  HoldsInv'
<1> USE ObjectsAssumption
<1>1. /\ stack \in Seq(0 .. MaxCallbacks) /\ Len(stack) <= MaxDepth
      /\ created \in 0 .. MaxCallbacks /\ registry \subseteq 1 .. created
      /\ HeldByFrames
  BY DEF HoldsInv, Holds!TypeOK
<1>2. UNCHANGED <<Holds!callbackVars, Holds!blockVars>>
  BY DEF Holds!Func, Holds!CallFunction, Holds!FunctionReturns, Holds!Close, Holds!CloseAsync
<1>3. /\ inner' \in BOOLEAN /\ libClosed' \in BOOLEAN /\ held' \in BOOLEAN /\ reached' \in BOOLEAN
      /\ unloaded' \in {"no", "idle", "running"}
      /\ Holds!NativeCodeStaysUntilClose'
  <2>1. /\ inner \in BOOLEAN /\ libClosed \in BOOLEAN /\ held \in BOOLEAN /\ reached \in BOOLEAN
        /\ unloaded \in {"no", "idle", "running"}
        /\ (reached => unloaded # "no") /\ (~inner <=> unloaded # "no")
        /\ (stack # <<>> /\ ~inner => reached \/ unloaded = "running")
    BY DEF HoldsInv, Holds!TypeOK, Holds!NativeCodeStaysUntilClose
  <2>2. CASE Holds!Func
    BY <2>1, <2>2 DEF Holds!Func, Holds!NativeCodeStaysUntilClose
  <2>3. CASE Holds!CallFunction
    <3>1. UNCHANGED <<inner, libClosed, held, unloaded>> /\ reached' = ~inner
      BY <2>3 DEF Holds!CallFunction
    <3> QED BY <2>1, <3>1 DEF Holds!NativeCodeStaysUntilClose
  <2>4. CASE Holds!FunctionReturns
    <3>1. UNCHANGED <<inner, libClosed, held, unloaded, reached>> /\ stack # <<>>
      BY <2>4 DEF Holds!FunctionReturns, Holds!libraryVars, Holds!InNative
    <3> QED BY <2>1, <3>1 DEF Holds!NativeCodeStaysUntilClose
  <2>5. CASE Holds!Close
    <3>1. /\ libClosed' = TRUE /\ inner' = FALSE /\ UNCHANGED <<stack, held, reached>>
          /\ (~inner => unloaded' = unloaded)
          /\ (inner /\ stack = <<>> => unloaded' = "idle")
          /\ (inner /\ stack # <<>> => unloaded' = "running")
      BY <2>5 DEF Holds!Close
    <3>2. CASE ~inner
      BY <2>1, <3>1, <3>2 DEF Holds!NativeCodeStaysUntilClose
    <3>3. CASE inner
      BY <2>1, <3>1, <3>3 DEF Holds!NativeCodeStaysUntilClose
    <3> QED BY <3>2, <3>3
  <2>6. CASE Holds!CloseAsync
    BY <2>1, <2>6 DEF Holds!CloseAsync, Holds!NativeCodeStaysUntilClose
  <2> QED BY <2>2, <2>3, <2>4, <2>5, <2>6
<1>4. /\ stack' \in Seq(0 .. MaxCallbacks) /\ Len(stack') <= MaxDepth
      /\ HeldByFrames'
  <2>1. CASE Holds!CallFunction
    <3>1. stack' = Append(stack, 0) /\ Len(stack) < MaxDepth
      BY <2>1 DEF Holds!CallFunction
    <3>2. /\ stack' \in Seq(0 .. MaxCallbacks) /\ Len(stack') = Len(stack) + 1 /\ Len(stack) \in Nat
          /\ \A x : Has(stack', x) <=> Has(stack, x) \/ x = 0
          /\ \A x : OnceIn(stack, x) /\ (x = 0 => ~Has(stack, x)) => OnceIn(stack', x)
          /\ \A i \in 1 .. Len(stack) + 1 : stack'[i] = IF i = Len(stack) + 1 THEN 0 ELSE stack[i]
      BY <1>1, <3>1, PushFrame
    <3>3. \A i \in 1 .. Len(stack') : stack'[i] <= created
      <4> TAKE i \in 1 .. Len(stack')
      <4>1. 0 <= created /\ i \in 1 .. Len(stack) + 1
        BY <1>1, <3>2
      <4>2. i # Len(stack) + 1 => i \in 1 .. Len(stack)
        BY <3>2, <4>1
      <4> QED BY <1>1, <3>2, <4>1, <4>2 DEF HeldByFrames
    <3>4. \A d \in registry : (d \in taken <=> Has(stack', d)) /\ OnceIn(stack', d)
      <4> TAKE d \in registry
      <4>1. (d \in taken <=> Has(stack, d)) /\ OnceIn(stack, d) /\ d # 0
        BY <1>1 DEF HeldByFrames
      <4> QED BY <3>2, <4>1
    <3> QED BY <1>1, <1>2, <3>1, <3>2, <3>3, <3>4 DEF HeldByFrames, Holds!callbackVars
  <2>2. CASE Holds!FunctionReturns
    <3>1. stack # <<>> /\ stack[Len(stack)] = 0 /\ stack' = SubSeq(stack, 1, Len(stack) - 1)
      BY <2>2 DEF Holds!FunctionReturns, Holds!InNative, Holds!Top, Holds!Pop
    <3>2. /\ stack' \in Seq(0 .. MaxCallbacks) /\ Len(stack') = Len(stack) - 1
          /\ Len(stack) \in Nat \ {0}
          /\ \A i \in 1 .. Len(stack') : stack'[i] = stack[i]
          /\ \A x : x # 0 => (Has(stack', x) <=> Has(stack, x))
          /\ \A x : OnceIn(stack, x) => OnceIn(stack', x)
      BY <1>1, <3>1, PopFrame
    <3>3. \A i \in 1 .. Len(stack') : stack'[i] <= created
      BY <1>1, <3>2 DEF HeldByFrames
    <3>4. \A d \in registry : (d \in taken <=> Has(stack', d)) /\ OnceIn(stack', d)
      <4> TAKE d \in registry
      <4>1. (d \in taken <=> Has(stack, d)) /\ OnceIn(stack, d) /\ d # 0
        BY <1>1 DEF HeldByFrames
      <4> QED BY <3>2, <4>1
    <3> QED BY <1>1, <1>2, <3>1, <3>2, <3>3, <3>4 DEF HeldByFrames, Holds!callbackVars
  <2>3. CASE stack' = stack
    BY <1>1, <1>2, <2>3 DEF HeldByFrames, Holds!callbackVars
  <2> QED BY <2>1, <2>2, <2>3 DEF Holds!Func, Holds!Close, Holds!CloseAsync
<1> QED
  BY <1>2, <1>3, <1>4 DEF HoldsInv, Holds!TypeOK, Holds!BlocksAreReturnedWhole,
                          Holds!callbackVars, Holds!blockVars, Holds!Live

(* Memory. *)
LEMMA Product == \A n \in Nat, k \in 0 .. 2 : n * k \in Nat
<1> SUFFICES ASSUME NEW n \in Nat, NEW k \in 0 .. 2 PROVE n * k \in Nat
  OBVIOUS
<1> QED OBVIOUS

WellPointed(p) ==
  /\ p.block \in 0 .. MaxBlocks /\ p.offset \in Nat /\ p.size \in Nat
  /\ p.size # 0 => p.offset = 0
  /\ p.block \in Holds!Block /\ blocks[p.block] # 0 /\ p.size # 0 => p.size = blocks[p.block]

MemoryKept ==
  /\ blocks \in [Holds!Block -> Nat] /\ engine \subseteq Holds!Block /\ misfreed \subseteq engine
  /\ \A p \in pointers : WellPointed(p)

(* A new block, with a pointer that has its size.                          *)
LEMMA NewBlockKeeps ==
  ASSUME MemoryKept, NEW n \in Nat, Holds!NewBlock(n, n),
         engine' \subseteq Holds!Block, engine \subseteq engine', misfreed' = misfreed
  PROVE  MemoryKept'
<1> USE ObjectsAssumption
<1>1. /\ blocks \in [Holds!Block -> Nat] /\ misfreed \subseteq engine
      /\ \A p \in pointers : WellPointed(p)
  BY DEF MemoryKept
<1>2. CASE n = 0
  <2>1. pointers' = pointers \cup {[block |-> 0, offset |-> 0, size |-> 0]} /\ blocks' = blocks
    BY <1>2 DEF Holds!NewBlock, Holds!Null
  <2> QED BY <1>1, <2>1 DEF MemoryKept, WellPointed
<1>3. CASE n # 0
  <2>1. PICK b \in Holds!Fresh :
          /\ blocks' = [blocks EXCEPT ![b] = n]
          /\ pointers' = pointers \cup {[block |-> b, offset |-> 0, size |-> n]}
    BY <1>3 DEF Holds!NewBlock
  <2>2. b \in Holds!Block /\ b \in 0 .. MaxBlocks /\ (\A p \in pointers : p.block # b)
    BY DEF Holds!Fresh, Holds!Block
  <2>3. blocks' \in [Holds!Block -> Nat] /\ blocks'[b] = n
        /\ \A x \in Holds!Block : x # b => blocks'[x] = blocks[x]
    BY <1>1, <2>1, <2>2
  <2>4. ASSUME NEW p \in pointers PROVE WellPointed(p)'
    BY <1>1, <2>2, <2>3 DEF WellPointed
  <2> DEFINE q == [block |-> b, offset |-> 0, size |-> n]
  <2>5. WellPointed(q)'
    BY <2>2, <2>3 DEF WellPointed
  <2>6. \A p \in pointers' : WellPointed(p)'
    BY <2>1, <2>4, <2>5
  <2> QED BY <1>1, <2>3, <2>6 DEF MemoryKept
<1> QED BY <1>2, <1>3

LEMMA BlockStepInv ==
  ASSUME HoldsInv,
         \/ \E n \in Sizes, count \in 0 .. 2 : Holds!Alloc(n, count)
         \/ \E n \in Sizes : Holds!AddressOf(n)
         \/ \E b \in Holds!Block : Holds!Collect(b)
         \/ \E p \in pointers : Holds!Free(p) \/ \E n \in Sizes \ {0} : Holds!Add(p, n)
  PROVE  HoldsInv'
<1> USE ObjectsAssumption
<1>1. MemoryKept
  BY DEF HoldsInv, Holds!TypeOK, Holds!BlocksAreReturnedWhole, MemoryKept, WellPointed, Holds!Live
<1>2. UNCHANGED <<stack, Holds!callbackVars, Holds!libraryVars>>
  BY DEF Holds!Alloc, Holds!AddressOf, Holds!Collect, Holds!Free, Holds!Add
<1>3. SUFFICES MemoryKept'
  <2>1. /\ blocks' \in [Holds!Block -> Nat] /\ engine' \subseteq Holds!Block
        /\ misfreed' \subseteq engine'
        /\ \A p \in pointers' :
             /\ p.block \in 0 .. MaxBlocks /\ p.offset \in Nat /\ p.size \in Nat
             /\ p.size # 0 => p.offset = 0
             /\ p.block \in Holds!Block /\ blocks'[p.block] # 0 /\ p.size # 0
                  => p.size = blocks'[p.block]
    BY <1>3 DEF MemoryKept, WellPointed
  <2>2. Holds!BlocksAreReturnedWhole'
    BY <2>1 DEF Holds!BlocksAreReturnedWhole, Holds!Live
  <2>3. misfreed' \subseteq Holds!Block
    BY <2>1
  <2> QED BY <1>2, <2>1, <2>2, <2>3 DEF HoldsInv, Holds!TypeOK, HeldByFrames,
            Holds!NativeCodeStaysUntilClose, Holds!libraryVars, Holds!callbackVars
<1>4. ASSUME NEW n \in Sizes, NEW count \in 0 .. 2, Holds!Alloc(n, count)
      PROVE  MemoryKept'
  <2>1. n * count \in Nat
    BY Product
  <2>2. Holds!NewBlock(n * count, n * count) /\ UNCHANGED <<engine, misfreed>>
    BY <1>4 DEF Holds!Alloc
  <2>3. engine' \subseteq Holds!Block /\ engine \subseteq engine' /\ misfreed' = misfreed
    BY <1>1, <2>2 DEF MemoryKept
  <2> QED BY <1>1, <2>1, <2>2, <2>3, NewBlockKeeps
<1>5. ASSUME NEW n \in Sizes, Holds!AddressOf(n)
      PROVE  MemoryKept'
  <2>1. /\ Holds!NewBlock(n, n) /\ misfreed' = misfreed
        /\ engine \subseteq engine' /\ engine' \subseteq Holds!Block
    BY <1>1, <1>5 DEF Holds!AddressOf, MemoryKept
  <2> QED BY <1>1, <2>1, NewBlockKeeps
<1>6. ASSUME NEW b \in Holds!Block, Holds!Collect(b)
      PROVE  MemoryKept'
  <2>1. /\ blocks' = [blocks EXCEPT ![b] = 0] /\ UNCHANGED <<engine, pointers, misfreed>>
    BY <1>6 DEF Holds!Collect
  <2> QED BY <1>1, <2>1 DEF MemoryKept, WellPointed
<1>7. ASSUME NEW q \in pointers, NEW n \in Sizes \ {0}, Holds!Add(q, n)
      PROVE  MemoryKept'
  <2> DEFINE new == [block |-> q.block, offset |-> q.offset + n, size |-> 0]
  <2>1. /\ pointers' = pointers \cup {new}
        /\ UNCHANGED <<blocks, engine, misfreed>>
    BY <1>7 DEF Holds!Add
  <2>2. q.offset + n \in Nat /\ q.block \in 0 .. MaxBlocks
    BY <1>1 DEF MemoryKept, WellPointed
  <2>3. WellPointed(new)'
    BY <2>2 DEF WellPointed
  <2> QED BY <1>1, <2>1, <2>3 DEF MemoryKept, WellPointed
<1>8. ASSUME NEW q \in pointers, Holds!Free(q)
      PROVE  MemoryKept'
  <2>1. CASE q.block = 0 \/ q.size = 0
    BY <1>1, <1>8, <2>1 DEF Holds!Free, MemoryKept, WellPointed
  <2>2. CASE ~(q.block = 0 \/ q.size = 0)
    <3>1. /\ q.block \in Holds!Live \cup engine
          /\ misfreed' = IF q.block \in engine \/ q.offset # 0 \/ q.size # blocks[q.block]
                         THEN misfreed \cup {q.block} ELSE misfreed
          /\ blocks' = [blocks EXCEPT ![q.block] = 0] /\ UNCHANGED <<engine, pointers>>
      BY <1>8, <2>2 DEF Holds!Free
    <3>2. q.block \notin engine => q.offset = 0 /\ q.size = blocks[q.block]
      BY <1>1, <2>2, <3>1 DEF MemoryKept, WellPointed, Holds!Live
    <3>3. misfreed' \subseteq engine'
      BY <1>1, <3>1, <3>2 DEF MemoryKept
    <3> QED BY <1>1, <3>1, <3>3 DEF MemoryKept, WellPointed
  <2> QED BY <2>1, <2>2
<1> QED BY <1>4, <1>5, <1>6, <1>7, <1>8

LEMMA HoldsStepInv == HoldsInv /\ [Holds!Next]_objectVars => HoldsInv'
<1> SUFFICES ASSUME HoldsInv, [Holds!Next]_objectVars PROVE HoldsInv'
  OBVIOUS
<1>1. CASE UNCHANGED objectVars
  BY <1>1 DEF objectVars, HoldsInv, Holds!TypeOK, HeldByFrames,
       Holds!NativeCodeStaysUntilClose, Holds!BlocksAreReturnedWhole, Holds!Live
<1> QED BY <1>1, CallbackStepInv, LibraryStepInv, BlockStepInv DEF Holds!Next

LEMMA HoldsInvImplies == HoldsInv => Holds!CallbacksKeepTheirFunction
<1> SUFFICES ASSUME HoldsInv PROVE Holds!CallbacksKeepTheirFunction
  OBVIOUS
<1>1. \A x : Has(stack, x) <=> Holds!Running(x) # {}
  BY DEF Has, Holds!Running
<1>2. ASSUME NEW c \in registry PROVE Holds!Cardinality(Holds!Running(c)) <= 1
  <2>1. \A i, j \in Holds!Running(c) : i = j
    BY DEF HoldsInv, HeldByFrames, OnceIn, Holds!Running
  <2>2. Holds!Running(c) = {} \/ \E i : Holds!Running(c) = {i}
    BY <2>1
  <2>3. Cardinality(Holds!Running(c)) \in {0, 1}
    BY <2>2, FS_EmptySet, FS_Singleton
  <2> QED BY <2>3 DEF Holds!Cardinality, Cardinality
<1> QED BY <1>1, <1>2 DEF HoldsInv, HeldByFrames, Holds!CallbacksKeepTheirFunction

-----------------------------------------------------------------------------
(***************************************************************************)
(* Addons: the slots.  A call's arguments and each reference have slots of *)
(* their own, which hold what they did when they were made.                *)
(***************************************************************************)
Place == N!Sentinel \cup N!Slot

ArgLists == UNION {[1 .. n -> Place] : n \in 0 .. 1}

Frame == [kind : {"native"}, args : ArgLists, data : Datum \cup {0}]
           \cup [kind : {"script"}, args : ArgLists, new : BOOLEAN]

SlotsOf(f) == {f.args[j] : j \in DOMAIN f.args} \cap N!Slot

NapiTyped ==
  /\ frames \in Seq(Frame)
  /\ data \in [NativeFns -> Datum \cup {0}]
  /\ refs \in [N!Ref -> [slot : Place, count : 0 .. MaxRefCount, there : BOOLEAN]]
  /\ DOMAIN of = N!Ref /\ DOMAIN props = Objects
  /\ \A o \in Objects : \A k \in DOMAIN props[o] : props[o][k] # N!Free

(* fs and rs stand for frames and refs, hp and os for heap and of. *)
NoneShared(fs, rs) ==
  /\ \A i, k \in 1 .. Len(fs) : i # k => SlotsOf(fs[i]) \cap SlotsOf(fs[k]) = {}
  /\ \A r, q \in N!Ref : rs[r].there /\ rs[q].there /\ rs[r].slot \in N!Slot /\ rs[r].slot = rs[q].slot
                           => r = q
  /\ \A i \in 1 .. Len(fs), r \in N!Ref : rs[r].there => rs[r].slot \notin SlotsOf(fs[i])

ArgumentsThere(hp, fs) == \A i \in 1 .. Len(fs) : \A s \in SlotsOf(fs[i]) : hp[s] # N!Free

ValuesThere(hp, rs, os) ==
  \A r \in N!Ref : rs[r].there => os[r] # N!Free /\ N!Content(rs[r].slot, hp) = os[r]

NapiInv ==
  /\ NapiTyped
  /\ NoneShared(frames, refs) /\ ArgumentsThere(heap, frames) /\ ValuesThere(heap, refs, of)
  /\ slotMisfreed = FALSE /\ garbled = FALSE

(* Sentinels are no slots, and no value a script has is that of a free one. *)
LEMMA Sentinels ==
  /\ \A h \in N!Sentinel : h \notin N!Slot /\ N!OfSentinel[h] # N!Free
  /\ \A hp : \A h \in N!Slot : N!Content(h, hp) = hp[h]
  /\ \A hp : \A h \in N!Sentinel : N!Content(h, hp) = N!OfSentinel[h]
  /\ N!Undefined # N!Free
<1>1. \A h \in N!Sentinel : h \notin N!Slot
  BY AddonsAssumption DEF N!Sentinel, N!Slot
<1>2. N!Undefined # N!Free
  BY DEF N!Undefined, N!Free
<1>3. ASSUME NEW h \in N!Sentinel PROVE N!OfSentinel[h] # N!Free
  <2>1. h \in {0, 1, 2, 3}
    BY DEF N!Sentinel
  <2> QED BY <2>1 DEF N!OfSentinel, N!Sentinel, N!Free, N!Undefined
<1> QED BY <1>1, <1>2, <1>3 DEF N!Content

(* js_to_napi of no value or of one: a sentinel, and the heap stays; or a  *)
(* slot that was free, and nothing else changes.                           *)
LEMMA Filling ==
  ASSUME NEW n \in 0 .. 1, NEW vs, DOMAIN vs = 1 .. n, \A i \in DOMAIN vs : vs[i] # N!Free,
         N!Room(vs)
  PROVE  LET hs == N!NewHandles(vs, heap)
             hp == N!Filled(vs, heap)
         IN /\ hs \in [1 .. n -> Place]
            /\ \A s \in N!Slot : heap[s] # N!Free => hp[s] = heap[s]
            /\ \A i \in 1 .. n : hs[i] \in N!Slot => heap[hs[i]] = N!Free
            /\ \A i \in 1 .. n : N!Content(hs[i], hp) = vs[i]
<1> DEFINE hs == N!NewHandles(vs, heap)
           hp == N!Filled(vs, heap)
<1>1. CASE N!Needs(vs) = {}
  <2>1. hp = [s \in N!Slot |-> heap[s]]
    BY <1>1 DEF N!Filled
  <2>2. ASSUME NEW i \in 1 .. n PROVE hs[i] \in N!Sentinel /\ N!OfSentinel[hs[i]] = vs[i]
    <3>1. \E h \in N!Sentinel : vs[i] = N!OfSentinel[h]
      BY <1>1 DEF N!Needs
    <3>2. hs[i] = CHOOSE h \in N!Sentinel : vs[i] = N!OfSentinel[h]
      BY <1>1 DEF N!NewHandles
    <3> QED BY <3>1, <3>2
  <2>3. DOMAIN hs = 1 .. n /\ hs = [i \in 1 .. n |-> hs[i]]
    BY DEF N!NewHandles
  <2> HIDE DEF hs, hp
  <2>4. hs \in [1 .. n -> Place]
    BY <2>2, <2>3 DEF Place
  <2> QED BY <2>1, <2>2, <2>4, Sentinels DEF hs, hp
<1>2. CASE N!Needs(vs) # {}
  <2>1. n = 1 /\ DOMAIN vs = {1} /\ N!Needs(vs) = {1}
    BY <1>2 DEF N!Needs
  <2> DEFINE S == N!FreeSlots(heap)
  <2>2. S \subseteq N!Slot /\ S \subseteq Nat /\ IsFiniteSet(S)
    <3>1. IsFiniteSet(N!Slot) /\ N!Slot \subseteq Nat
      <4>1. 4 \in Int /\ 3 + Slots \in Int
        BY AddonsAssumption
      <4>2. IsFiniteSet(4 .. 3 + Slots)
        BY <4>1, FS_Interval
      <4>3. 4 .. 3 + Slots \subseteq Nat
        BY <4>1
      <4> QED BY <4>2, <4>3 DEF N!Slot
    <3> QED BY <3>1, FS_Subset DEF N!FreeSlots
  <2>3. S # {}
    <3>1. N!Cardinality({1}) <= N!Cardinality(S)
      BY <2>1 DEF N!Room
    <3>2. N!Cardinality({1}) = 1 /\ N!Cardinality({}) = 0
      BY FS_Singleton, FS_EmptySet DEF N!Cardinality, Cardinality
    <3> QED BY <3>1, <3>2
  <2>4. PICK m \in S : \A x \in S : m <= x
    BY <2>2, <2>3, Smallest
  <2>5. N!Cardinality({x \in S : x < m}) = 0
    <3>1. {x \in S : x < m} = {}
      BY <2>2, <2>4
    <3> QED BY <3>1, FS_EmptySet DEF N!Cardinality, Cardinality
  <2>6. {j \in N!Needs(vs) : j <= 1} = {1} /\ N!Cardinality({1}) = 1
    <3>1. {j \in N!Needs(vs) : j <= 1} = {1}
      BY <2>1
    <3>2. N!Cardinality({1}) = 1
      BY FS_Singleton DEF N!Cardinality, Cardinality
    <3> QED BY <3>1, <3>2
  <2>7. N!Nth(S, 1) \in S
    <3>1. 1 - 1 = 0
      OBVIOUS
    <3>2. N!Nth(S, 1) = CHOOSE s \in S : N!Cardinality({x \in S : x < s}) = 0
      BY <3>1 DEF N!Nth
    <3> HIDE DEF S
    <3> QED BY <2>4, <2>5, <3>2
  <2>8. hs = [i \in {1} |-> hs[i]] /\ hs[1] = N!Nth(S, 1)
    BY <2>1, <2>6 DEF N!NewHandles
  <2>9. hp = [s \in N!Slot |-> IF s = hs[1] THEN vs[1] ELSE heap[s]]
    BY <2>1 DEF N!Filled
  <2>10. hs[1] \in N!Slot /\ heap[hs[1]] = N!Free
    BY <2>7, <2>8 DEF N!FreeSlots
  <2>11. 1 .. n = {1}
    BY <2>1
  <2> HIDE DEF hs, hp, S
  <2>12. hs \in [1 .. n -> Place]
    BY <2>8, <2>10, <2>11 DEF Place
  <2>13. \A i \in 1 .. n : i = 1
    BY <2>11
  <2> QED BY <2>9, <2>10, <2>12, <2>13, Sentinels DEF hs, hp
<1> QED BY <1>1, <1>2

(* free_value of a set of slots that were all in use. *)
LEMMA Freeing ==
  ASSUME NEW ss \in SUBSET N!Slot, \A s \in ss : heap[s] # N!Free
  PROVE  /\ ~N!FreesNothing(ss, heap)
         /\ \A s \in N!Slot \ ss : N!Freed(ss, heap)[s] = heap[s]
BY DEF N!FreesNothing, N!Freed

(* Nobody's slot changes when only free slots do, or only those of a frame *)
(* that goes.                                                              *)
LEMMA HeapKeeps ==
  ASSUME NEW hp, NEW fs, NEW rs, NEW os,
         \A i \in 1 .. Len(fs) : \A s \in SlotsOf(fs[i]) : heap[s] # N!Free => hp[s] = heap[s],
         \A r \in N!Ref :
           rs[r].there /\ rs[r].slot \in N!Slot /\ heap[rs[r].slot] # N!Free
             => hp[rs[r].slot] = heap[rs[r].slot],
         \A r \in N!Ref : rs[r].there => rs[r].slot \in Place,
         ArgumentsThere(heap, fs), ValuesThere(heap, rs, os)
  PROVE  ArgumentsThere(hp, fs) /\ ValuesThere(hp, rs, os)
<1>1. ArgumentsThere(hp, fs)
  BY DEF ArgumentsThere
<1>2. ASSUME NEW r \in N!Ref, rs[r].there PROVE os[r] # N!Free /\ N!Content(rs[r].slot, hp) = os[r]
  <2>1. os[r] # N!Free /\ N!Content(rs[r].slot, heap) = os[r]
    BY <1>2 DEF ValuesThere
  <2>2. CASE rs[r].slot \in N!Sentinel
    BY <2>1, <2>2, Sentinels
  <2>3. CASE rs[r].slot \in N!Slot
    BY <1>2, <2>1, <2>3, Sentinels
  <2> QED BY <1>2, <2>2, <2>3 DEF Place
<1> QED BY <1>1, <1>2 DEF ValuesThere

(* What a handle stands for is never a free slot's nothing. *)
LEMMA HandleHolds ==
  ASSUME NEW h \in N!Handles
  PROVE  N!Content(h, heap) # N!Free /\ N!ToJs(h, heap) # N!Free
<1>1. N!Content(h, heap) # N!Free
  BY Sentinels DEF N!Handles, N!Live
<1> QED BY <1>1, Sentinels DEF N!ToJs

(* New slots: everyone's own stay what they were. *)
LEMMA FillKeeps ==
  ASSUME NapiInv, NEW n \in 0 .. 1, NEW vs, DOMAIN vs = 1 .. n, \A i \in DOMAIN vs : vs[i] # N!Free,
         N!Room(vs), heap' = N!Filled(vs, heap)
  PROVE  ArgumentsThere(heap', frames) /\ ValuesThere(heap', refs, of)
<1>1. \A s \in N!Slot : heap[s] # N!Free => heap'[s] = heap[s]
  BY Filling
<1>2. \A f : SlotsOf(f) \subseteq N!Slot
  BY DEF SlotsOf
<1>3. \A r \in N!Ref : refs[r].slot \in Place
  BY DEF NapiInv, NapiTyped
<1> QED BY <1>1, <1>2, <1>3, HeapKeeps DEF NapiInv

(* The frame on top goes: nobody else has its slots. *)
LEMMA FramesPop ==
  ASSUME NapiInv, frames # <<>>
  PROVE  /\ N!Pop \in Seq(Frame) /\ N!Top \in Frame
         /\ NoneShared(N!Pop, refs) /\ ArgumentsThere(heap, N!Pop)
         /\ \A s \in SlotsOf(N!Top) : heap[s] # N!Free
         /\ \A i \in 1 .. Len(N!Pop) : SlotsOf(N!Pop[i]) \cap SlotsOf(N!Top) = {}
         /\ \A r \in N!Ref : refs[r].there => refs[r].slot \notin SlotsOf(N!Top)
<1>1. PICK p : p = N!Pop
  OBVIOUS
<1>2. PICK top : top = N!Top
  OBVIOUS
<1>3. /\ p \in Seq(Frame) /\ Len(p) = Len(frames) - 1 /\ Len(frames) \in Nat \ {0}
      /\ top \in Frame /\ top = frames[Len(frames)]
      /\ \A i \in 1 .. Len(p) : p[i] = frames[i]
  BY <1>1, <1>2, PopFrame DEF NapiInv, NapiTyped, N!Pop, N!Top
<1>4. Len(frames) \in 1 .. Len(frames) /\ \A i \in 1 .. Len(p) : i \in 1 .. Len(frames) /\ i # Len(frames)
  BY <1>3
<1>5. NoneShared(p, refs)
  BY <1>3, <1>4 DEF NapiInv, NoneShared
<1>6. ArgumentsThere(heap, p) /\ \A s \in SlotsOf(top) : heap[s] # N!Free
  BY <1>3, <1>4 DEF NapiInv, ArgumentsThere
<1>7. /\ \A i \in 1 .. Len(p) : SlotsOf(p[i]) \cap SlotsOf(top) = {}
      /\ \A r \in N!Ref : refs[r].there => refs[r].slot \notin SlotsOf(top)
  BY <1>3, <1>4 DEF NapiInv, NoneShared
<1> QED BY <1>1, <1>2, <1>3, <1>5, <1>6, <1>7

(* A new frame whose slots were free. *)
LEMMA FramesPush ==
  ASSUME NapiInv, NEW f \in Frame, \A s \in SlotsOf(f) : heap[s] = N!Free,
         NEW hp, ArgumentsThere(hp, frames), \A s \in SlotsOf(f) : hp[s] # N!Free
  PROVE  LET p == Append(frames, f)
         IN p \in Seq(Frame) /\ NoneShared(p, refs) /\ ArgumentsThere(hp, p)
<1>1. PICK p : p = Append(frames, f)
  OBVIOUS
<1>2. /\ p \in Seq(Frame) /\ Len(p) = Len(frames) + 1 /\ Len(frames) \in Nat
      /\ \A i \in 1 .. Len(frames) + 1 : p[i] = IF i = Len(frames) + 1 THEN f ELSE frames[i]
  BY <1>1, PushFrame DEF NapiInv, NapiTyped
<1>3. \A i \in 1 .. Len(p) : \/ i = Len(p) /\ p[i] = f
                             \/ i \in 1 .. Len(frames) /\ p[i] = frames[i]
  <2>1. PICK k \in Nat : k = Len(frames)
    BY <1>2
  <2>2. \A i \in 1 .. k + 1 : i # k + 1 => i \in 1 .. k
    OBVIOUS
  <2> QED BY <1>2, <2>1, <2>2
<1>4. ArgumentsThere(hp, p)
  BY <1>3 DEF ArgumentsThere
<1>5. \A i \in 1 .. Len(frames) : SlotsOf(frames[i]) \cap SlotsOf(f) = {}
  BY DEF NapiInv, ArgumentsThere
<1>6. ASSUME NEW r \in N!Ref, refs[r].there PROVE refs[r].slot \notin SlotsOf(f)
  <2>1. SUFFICES ASSUME refs[r].slot \in SlotsOf(f) PROVE FALSE
    OBVIOUS
  <2>2. refs[r].slot \in N!Slot /\ heap[refs[r].slot] = N!Free
    BY <2>1 DEF SlotsOf
  <2>3. of[r] # N!Free /\ N!Content(refs[r].slot, heap) = of[r]
    BY <1>6 DEF NapiInv, ValuesThere
  <2> QED BY <2>2, <2>3, Sentinels
<1>7. NoneShared(p, refs)
  <2>1. ASSUME NEW i \in 1 .. Len(p), NEW k \in 1 .. Len(p), i # k
        PROVE  SlotsOf(p[i]) \cap SlotsOf(p[k]) = {}
    BY <1>3, <1>5, <2>1 DEF NapiInv, NoneShared
  <2>2. ASSUME NEW i \in 1 .. Len(p), NEW r \in N!Ref, refs[r].there
        PROVE  refs[r].slot \notin SlotsOf(p[i])
    BY <1>3, <1>6, <2>2 DEF NapiInv, NoneShared
  <2> QED BY <2>1, <2>2 DEF NapiInv, NoneShared
<1> QED BY <1>1, <1>2, <1>4, <1>7

LEMMA NapiInitInv == N!Init => NapiInv
<1> SUFFICES ASSUME N!Init PROVE NapiInv
  OBVIOUS
<1> USE AddonsAssumption DEF N!Init
<1>1. frames \in Seq(Frame) /\ Len(frames) = 0
  BY EmptySeq
<1>2. /\ data \in [NativeFns -> Datum \cup {0}]
      /\ DOMAIN of = N!Ref /\ DOMAIN props = Objects
      /\ \A o \in Objects : \A k \in DOMAIN props[o] : props[o][k] # N!Free
  OBVIOUS
<1>3. \A r \in N!Ref : refs[r].there = FALSE
  BY DEF N!NoRef
<1>4. refs \in [N!Ref -> [slot : Place, count : 0 .. MaxRefCount, there : BOOLEAN]]
  <2>1. 0 \in Place /\ 0 \in 0 .. MaxRefCount
    BY DEF Place, N!Sentinel
  <2>2. N!NoRef \in [slot : Place, count : 0 .. MaxRefCount, there : BOOLEAN]
    BY <2>1 DEF N!NoRef
  <2> QED BY <2>2
<1> QED BY <1>1, <1>2, <1>3, <1>4 DEF NapiInv, NapiTyped, NoneShared, ArgumentsThere, ValuesThere

(* An operation that makes one slot. *)
LEMMA OneSlot ==
  ASSUME NapiInv, NEW v, v # N!Free, N!Room(<<v>>), heap' = N!Filled(<<v>>, heap)
  PROVE  ArgumentsThere(heap', frames) /\ ValuesThere(heap', refs, of)
<1>1. DOMAIN <<v>> = 1 .. 1 /\ \A i \in DOMAIN <<v>> : <<v>>[i] # N!Free
  OBVIOUS
<1> QED BY <1>1, FillKeeps

LEMMA MakeInv == ASSUME NapiInv, NEW v, v # N!Free, N!Make(v) PROVE NapiInv'
<1>1. /\ N!Room(<<v>>) /\ heap' = N!Filled(<<v>>, heap)
      /\ UNCHANGED <<frames, data, slotMisfreed, garbled, refs, of, props>>
  BY DEF N!Make, N!refVars
<1>2. ArgumentsThere(heap', frames) /\ ValuesThere(heap', refs, of)
  BY <1>1, OneSlot
<1> QED BY <1>1, <1>2 DEF NapiInv, NapiTyped, NoneShared, ArgumentsThere, ValuesThere

LEMMA CreateFunctionInv ==
  ASSUME NapiInv, NEW f \in NativeFns, NEW d \in Datum \cup {0}, N!CreateFunction(f, d)
  PROVE  NapiInv'
<1> DEFINE v == <<"object", f>>
<1>1. /\ N!Room(<<v>>) /\ heap' = N!Filled(<<v>>, heap)
      /\ data' = IF d = 0 THEN data ELSE [data EXCEPT ![f] = d]
      /\ UNCHANGED <<frames, slotMisfreed, garbled, refs, of, props>>
  BY DEF N!CreateFunction, N!refVars
<1>2. v # N!Free
  BY DEF N!Free
<1> HIDE DEF v
<1>3. ArgumentsThere(heap', frames) /\ ValuesThere(heap', refs, of)
  BY <1>1, <1>2, OneSlot
<1>4. data' \in [NativeFns -> Datum \cup {0}]
  BY <1>1 DEF NapiInv, NapiTyped
<1> QED BY <1>1, <1>3, <1>4 DEF NapiInv, NapiTyped, NoneShared, ArgumentsThere, ValuesThere

(* The arguments of a call have slots that were free. *)
LEMMA CallNativeInv ==
  ASSUME NapiInv, NEW f \in NativeFns, NEW n \in 0 .. 1, NEW args \in [1 .. n -> Passed],
         N!CallNative(f, args)
  PROVE  NapiInv'
<1> DEFINE hs == N!NewHandles(args, heap)
           fr == [kind |-> "native", args |-> hs, data |-> data[f]]
<1>1. /\ N!Room(args) /\ heap' = N!Filled(args, heap) /\ frames' = Append(frames, fr)
      /\ UNCHANGED <<data, slotMisfreed, garbled, refs, of, props>>
  BY DEF N!CallNative, N!refVars
<1>2. DOMAIN args = 1 .. n /\ \A i \in DOMAIN args : args[i] # N!Free
  BY AddonsAssumption DEF N!Free
<1>3. /\ hs \in [1 .. n -> Place]
      /\ \A i \in 1 .. n : hs[i] \in N!Slot => heap[hs[i]] = N!Free
      /\ \A i \in 1 .. n : N!Content(hs[i], heap') = args[i]
  <2>1. PICK hp : hp = N!Filled(args, heap)
    OBVIOUS
  <2>2. heap' = hp
    BY <1>1, <2>1
  <2>3. /\ hs \in [1 .. n -> Place]
        /\ \A i \in 1 .. n : hs[i] \in N!Slot => heap[hs[i]] = N!Free
        /\ \A i \in 1 .. n : N!Content(hs[i], N!Filled(args, heap)) = args[i]
    BY <1>1, <1>2, Filling
  <2> HIDE DEF hs
  <2> QED BY <2>1, <2>2, <2>3
<1>4. ArgumentsThere(heap', frames) /\ ValuesThere(heap', refs, of)
  BY <1>1, <1>2, FillKeeps
<1> HIDE DEF hs
<1>5. fr \in Frame /\ fr.args = hs
  <2>1. hs \in ArgLists /\ data[f] \in Datum \cup {0}
    BY <1>3 DEF ArgLists, NapiInv, NapiTyped
  <2> QED BY <2>1 DEF Frame
<1>6. \A s \in SlotsOf(fr) : heap[s] = N!Free /\ heap'[s] # N!Free
  <2> TAKE s \in SlotsOf(fr)
  <2>1. PICK i \in 1 .. n : s = hs[i] /\ s \in N!Slot
    BY <1>3, <1>5 DEF SlotsOf
  <2> QED BY <1>2, <1>3, <2>1, Sentinels
<1> HIDE DEF fr
<1>7. frames' \in Seq(Frame) /\ NoneShared(frames', refs) /\ ArgumentsThere(heap', frames')
  BY <1>1, <1>4, <1>5, <1>6, FramesPush
<1> QED BY <1>1, <1>4, <1>7 DEF NapiInv, NapiTyped, NoneShared, ValuesThere

(* The arguments of a call that ends are freed, whatever it returns.       *)
LEMMA NativeReturnsInv == ASSUME NapiInv, NEW h, N!NativeReturns(h) PROVE NapiInv'
<1> DEFINE ss == SlotsOf(N!Top)
<1>1. /\ frames # <<>> /\ frames' = N!Pop
      /\ slotMisfreed' = (slotMisfreed \/ N!FreesNothing(ss, heap))
      /\ heap' = N!Freed(ss, heap)
      /\ UNCHANGED <<data, garbled, refs, of, props>>
  BY DEF N!NativeReturns, N!InNative, N!refVars, SlotsOf
<1>2. /\ frames' \in Seq(Frame) /\ NoneShared(frames', refs) /\ ArgumentsThere(heap, frames')
      /\ \A s \in ss : heap[s] # N!Free
      /\ \A i \in 1 .. Len(frames') : SlotsOf(frames'[i]) \cap ss = {}
      /\ \A r \in N!Ref : refs[r].there => refs[r].slot \notin ss
  BY <1>1, FramesPop
<1>3. ss \subseteq N!Slot /\ \A f : SlotsOf(f) \subseteq N!Slot
  BY DEF SlotsOf
<1> HIDE DEF ss
<1>4. ~N!FreesNothing(ss, heap) /\ \A s \in N!Slot \ ss : heap'[s] = heap[s]
  BY <1>1, <1>2, <1>3, Freeing
<1>5. \A r \in N!Ref : refs[r].slot \in Place
  BY DEF NapiInv, NapiTyped
<1>6. ValuesThere(heap, refs, of)
  BY DEF NapiInv
<1>7. ArgumentsThere(heap', frames') /\ ValuesThere(heap', refs, of)
  BY <1>2, <1>3, <1>4, <1>5, <1>6, HeapKeeps
<1> QED BY <1>1, <1>2, <1>4, <1>7 DEF NapiInv, NapiTyped, NoneShared, ValuesThere

(* The script's function is called, and returns or throws. *)
LEMMA CallScriptInv == ASSUME NapiInv, NEW h, NEW new \in BOOLEAN, N!CallScript(h, new) PROVE NapiInv'
<1> DEFINE fr == [kind |-> "script", args |-> <<>>, new |-> new]
<1>1. /\ frames' = Append(frames, fr)
      /\ UNCHANGED <<heap, data, slotMisfreed, garbled, refs, of, props>>
  BY DEF N!CallScript, N!refVars
<1>2. fr \in Frame /\ SlotsOf(fr) = {}
  <2>1. <<>> \in [1 .. 0 -> Place]
    OBVIOUS
  <2>2. <<>> \in ArgLists
    BY <2>1 DEF ArgLists
  <2> QED BY <2>2 DEF Frame, SlotsOf
<1> HIDE DEF fr
<1>3. frames' \in Seq(Frame) /\ NoneShared(frames', refs) /\ ArgumentsThere(heap, frames')
  BY <1>1, <1>2, FramesPush DEF NapiInv
<1> QED BY <1>1, <1>3 DEF NapiInv, NapiTyped, NoneShared, ArgumentsThere, ValuesThere

LEMMA ScriptThrowsInv == ASSUME NapiInv, N!ScriptThrows PROVE NapiInv'
<1>1. /\ frames # <<>> /\ frames' = N!Pop
      /\ UNCHANGED <<heap, data, slotMisfreed, garbled, refs, of, props>>
  BY DEF N!ScriptThrows, N!refVars
<1>2. frames' \in Seq(Frame) /\ NoneShared(frames', refs) /\ ArgumentsThere(heap, frames')
  BY <1>1, FramesPop
<1> QED BY <1>1, <1>2 DEF NapiInv, NapiTyped, NoneShared, ArgumentsThere, ValuesThere

LEMMA ScriptReturnsInv ==
  ASSUME NapiInv, NEW v \in Passed \cup {N!Undefined}, NEW o, N!ScriptReturns(v, o)
  PROVE  NapiInv'
<1> DEFINE given == IF N!Top.new /\ ~N!IsObject(v) THEN <<"object", o>> ELSE v
<1>1. /\ frames # <<>> /\ frames' = N!Pop
      /\ N!Room(<<given>>) /\ heap' = N!Filled(<<given>>, heap)
      /\ UNCHANGED <<data, slotMisfreed, garbled, refs, of, props>>
  BY DEF N!ScriptReturns, N!refVars
<1>2. given # N!Free
  <2>1. v # N!Free
    BY AddonsAssumption, Sentinels DEF N!Free
  <2>2. <<"object", o>> # N!Free
    BY DEF N!Free
  <2> QED BY <2>1, <2>2
<1> HIDE DEF given
<1>3. ValuesThere(heap', refs, of)
  BY <1>1, <1>2, OneSlot
<1>4. frames' \in Seq(Frame) /\ NoneShared(frames', refs) /\ ArgumentsThere(heap, frames')
  BY <1>1, FramesPop
<1>5. ArgumentsThere(heap', frames')
  <2>1. DOMAIN <<given>> = 1 .. 1 /\ \A i \in DOMAIN <<given>> : <<given>>[i] # N!Free
    BY <1>2
  <2>2. \A s \in N!Slot : heap[s] # N!Free => heap'[s] = heap[s]
    BY <1>1, <2>1, Filling
  <2> QED BY <1>4, <2>2 DEF ArgumentsThere, SlotsOf
<1> QED BY <1>1, <1>3, <1>4, <1>5 DEF NapiInv, NapiTyped, NoneShared, ValuesThere

(* A reference is made with a slot that was free, *)
LEMMA CreateReferenceInv ==
  ASSUME NapiInv, NEW h \in N!Handles, NEW count \in 0 .. MaxRefCount, N!CreateReference(h, count)
  PROVE  NapiInv'
<1> DEFINE v == N!Content(h, heap)
           hs == N!NewHandles(<<v>>, heap)
           new == [slot |-> hs[1], count |-> count, there |-> TRUE]
<1>1. /\ nextRef \in N!Ref /\ N!Room(<<v>>) /\ heap' = N!Filled(<<v>>, heap)
      /\ refs' = [refs EXCEPT ![nextRef] = new] /\ of' = [of EXCEPT ![nextRef] = v]
      /\ UNCHANGED <<frames, data, slotMisfreed, garbled, props>>
  BY DEF N!CreateReference
<1>2. v # N!Free
  BY HandleHolds
<1> HIDE DEF v
<1>3. DOMAIN <<v>> = 1 .. 1 /\ \A i \in DOMAIN <<v>> : <<v>>[i] # N!Free
  BY <1>2
<1>4. hs[1] \in Place /\ (hs[1] \in N!Slot => heap[hs[1]] = N!Free) /\ N!Content(hs[1], heap') = v
  <2>1. PICK hp : hp = N!Filled(<<v>>, heap)
    OBVIOUS
  <2>2. /\ hs \in [1 .. 1 -> Place]
        /\ \A i \in 1 .. 1 : hs[i] \in N!Slot => heap[hs[i]] = N!Free
        /\ \A i \in 1 .. 1 : N!Content(hs[i], N!Filled(<<v>>, heap)) = <<v>>[i]
    BY <1>1, <1>3, Filling
  <2>3. heap' = hp
    BY <1>1, <2>1
  <2> HIDE DEF hs
  <2> QED BY <2>1, <2>2, <2>3
<1>5. ArgumentsThere(heap', frames) /\ ValuesThere(heap', refs, of)
  BY <1>1, <1>2, OneSlot
<1> HIDE DEF hs
<1>6. refs' \in [N!Ref -> [slot : Place, count : 0 .. MaxRefCount, there : BOOLEAN]]
      /\ DOMAIN of' = N!Ref
  BY <1>1, <1>4 DEF NapiInv, NapiTyped
<1>7. /\ refs'[nextRef].slot = hs[1] /\ of'[nextRef] = v
      /\ \A r \in N!Ref : r # nextRef => refs'[r] = refs[r] /\ of'[r] = of[r]
  BY <1>1 DEF NapiInv, NapiTyped
<1>8. ValuesThere(heap', refs', of')
  BY <1>2, <1>4, <1>5, <1>7 DEF ValuesThere
<1>9. \A i \in 1 .. Len(frames) : hs[1] \notin SlotsOf(frames[i])
  BY <1>4 DEF NapiInv, ArgumentsThere, SlotsOf
<1>10. \A r \in N!Ref : refs[r].there /\ refs[r].slot \in N!Slot => refs[r].slot # hs[1]
  BY <1>4, Sentinels DEF NapiInv, ValuesThere
<1>11. NoneShared(frames, refs')
  <2>1. \A i \in 1 .. Len(frames), r \in N!Ref : refs'[r].there => refs'[r].slot \notin SlotsOf(frames[i])
    BY <1>7, <1>9 DEF NapiInv, NoneShared
  <2>2. ASSUME NEW r \in N!Ref, NEW q \in N!Ref, refs'[r].there, refs'[q].there,
               refs'[r].slot \in N!Slot, refs'[r].slot = refs'[q].slot
        PROVE  r = q
    BY <1>7, <1>10, <2>2 DEF NapiInv, NoneShared
  <2> QED BY <2>1, <2>2 DEF NapiInv, NoneShared
<1> QED BY <1>1, <1>5, <1>6, <1>8, <1>11 DEF NapiInv, NapiTyped, NoneShared, ArgumentsThere

(* deleted, and its slot freed, *)
LEMMA DeleteReferenceInv == ASSUME NapiInv, NEW r \in N!Ref, N!DeleteReference(r) PROVE NapiInv'
<1> DEFINE ss == {refs[r].slot} \cap N!Slot
<1>1. /\ refs[r].there
      /\ slotMisfreed' = (slotMisfreed \/ N!FreesNothing(ss, heap)) /\ heap' = N!Freed(ss, heap)
      /\ refs' = [refs EXCEPT ![r] = N!NoRef] /\ of' = [of EXCEPT ![r] = N!Undefined]
      /\ UNCHANGED <<frames, data, garbled, props>>
  BY DEF N!DeleteReference
<1>2. ss \subseteq N!Slot /\ \A f : SlotsOf(f) \subseteq N!Slot
  BY DEF SlotsOf
<1>3. \A s \in ss : heap[s] # N!Free
  BY <1>1, Sentinels DEF NapiInv, ValuesThere
<1>4. /\ \A i \in 1 .. Len(frames) : SlotsOf(frames[i]) \cap ss = {}
      /\ \A q \in N!Ref : refs[q].there /\ q # r => refs[q].slot \notin ss
  BY <1>1 DEF NapiInv, NoneShared
<1> HIDE DEF ss
<1>5. ~N!FreesNothing(ss, heap) /\ \A s \in N!Slot \ ss : heap'[s] = heap[s]
  BY <1>1, <1>2, <1>3, Freeing
<1>6. N!NoRef \in [slot : Place, count : 0 .. MaxRefCount, there : BOOLEAN] /\ ~N!NoRef.there
  BY AddonsAssumption DEF N!NoRef, Place, N!Sentinel
<1>7. /\ refs' \in [N!Ref -> [slot : Place, count : 0 .. MaxRefCount, there : BOOLEAN]]
      /\ DOMAIN of' = N!Ref
      /\ ~refs'[r].there /\ \A q \in N!Ref : q # r => refs'[q] = refs[q] /\ of'[q] = of[q]
  BY <1>1, <1>6 DEF NapiInv, NapiTyped
<1>8. /\ \A q \in N!Ref : refs'[q].there => refs[q].there /\ q # r /\ refs'[q].slot \notin ss
      /\ \A q \in N!Ref : refs'[q].slot \in Place
  BY <1>4, <1>7
<1>9. ArgumentsThere(heap, frames) /\ ValuesThere(heap, refs', of')
  BY <1>7 DEF NapiInv, ValuesThere
<1>10. ArgumentsThere(heap', frames) /\ ValuesThere(heap', refs', of')
  BY <1>2, <1>4, <1>5, <1>8, <1>9, HeapKeeps
<1>11. NoneShared(frames, refs')
  BY <1>7 DEF NapiInv, NoneShared
<1>12. slotMisfreed' = FALSE /\ garbled' = FALSE
  BY <1>1, <1>5 DEF NapiInv
<1>13. NapiTyped'
  BY <1>1, <1>7 DEF NapiInv, NapiTyped
<1>14. /\ NoneShared(frames', refs') /\ ArgumentsThere(heap', frames')
       /\ ValuesThere(heap', refs', of')
  BY <1>1, <1>10, <1>11
<1> QED BY <1>12, <1>13, <1>14 DEF NapiInv

(* and counted. *)
LEMMA CountInv == ASSUME NapiInv, NEW r \in N!Ref, NEW n \in 0 .. MaxRefCount, N!Count(r, n) PROVE NapiInv'
<1>1. /\ refs' = [refs EXCEPT ![r].count = n]
      /\ UNCHANGED <<heap, frames, data, slotMisfreed, garbled, of, props>>
  BY DEF N!Count, N!callVars
<1>2. /\ refs' \in [N!Ref -> [slot : Place, count : 0 .. MaxRefCount, there : BOOLEAN]]
      /\ \A q \in N!Ref : refs'[q].slot = refs[q].slot /\ refs'[q].there = refs[q].there
  BY <1>1 DEF NapiInv, NapiTyped
<1>3. NapiTyped' /\ slotMisfreed' = FALSE /\ garbled' = FALSE
  BY <1>1, <1>2 DEF NapiInv, NapiTyped
<1>4. NoneShared(frames', refs')
  <2>1. frames' = frames /\ NoneShared(frames, refs)
    BY <1>1 DEF NapiInv
  <2>2. NoneShared(frames, refs')
    BY <1>2, <2>1 DEF NoneShared
  <2> QED BY <2>1, <2>2
<1>5. ArgumentsThere(heap', frames') /\ ValuesThere(heap', refs', of')
  BY <1>1, <1>2 DEF NapiInv, ArgumentsThere, ValuesThere
<1> QED BY <1>3, <1>4, <1>5 DEF NapiInv

(* A property of an object is written. *)
LEMMA PutProps ==
  ASSUME NapiInv, NEW h, NEW k, NEW v, v # N!Free, N!Put(h, k, v)
  PROVE  /\ DOMAIN props' = Objects /\ \A o \in Objects : \A x \in DOMAIN props'[o] : props'[o][x] # N!Free
         /\ UNCHANGED <<frames, data, slotMisfreed, garbled, refs, of>>
<1>1. PICK o \in Objects :
        props' = [props EXCEPT ![o] = [x \in DOMAIN @ \cup {k} |-> IF x = k THEN v ELSE @[x]]]
  BY DEF N!Put
<1>2. UNCHANGED <<frames, data, slotMisfreed, garbled, refs, of>>
  BY DEF N!Put, N!callVars, N!refVars
<1>3. DOMAIN props = Objects /\ \A p \in Objects : \A x \in DOMAIN props[p] : props[p][x] # N!Free
  BY DEF NapiInv, NapiTyped
<1>4. /\ DOMAIN props' = Objects /\ \A p \in Objects : p # o => props'[p] = props[p]
      /\ props'[o] = [x \in DOMAIN props[o] \cup {k} |-> IF x = k THEN v ELSE props[o][x]]
  BY <1>1, <1>3
<1>5. \A x \in DOMAIN props'[o] : props'[o][x] # N!Free
  BY <1>3, <1>4
<1> QED BY <1>2, <1>3, <1>4, <1>5

LEMMA PropertyInv ==
  ASSUME NapiInv, NEW h \in N!Handles, NEW k,
         \/ \E hv \in N!Handles : N!SetProperty(h, k, hv) \/ N!SetNamedProperty(h, k, hv)
         \/ N!GetProperty(h, k)
         \/ \E d \in Datum : N!Wrap(h, d)
  PROVE  NapiInv'
<1>1. ASSUME NEW v, v # N!Free, N!Put(h, k, v), UNCHANGED heap PROVE NapiInv'
  BY <1>1, PutProps DEF NapiInv, NapiTyped, NoneShared, ArgumentsThere, ValuesThere
<1>2. ASSUME NEW hv \in N!Handles, N!SetProperty(h, k, hv) PROVE NapiInv'
  BY <1>1, <1>2, HandleHolds DEF N!SetProperty
<1>3. ASSUME NEW d, N!Wrap(h, d) PROVE NapiInv'
  <2>1. <<"number", d>> # N!Free
    BY DEF N!Free
  <2>2. N!Put(h, "wrapped", <<"number", d>>) /\ UNCHANGED heap
    BY <1>3 DEF N!Wrap
  <2> QED
    BY <2>1, <2>2, PutProps DEF NapiInv, NapiTyped, NoneShared, ArgumentsThere, ValuesThere
<1>4. ASSUME NEW hv \in N!Handles, N!SetNamedProperty(h, k, hv) PROVE NapiInv'
  <2>1. N!Put(h, k, N!ToJs(hv, heap)) /\ N!Room(<<N!Text>>) /\ heap' = N!Filled(<<N!Text>>, heap)
    BY <1>4 DEF N!SetNamedProperty
  <2>2. N!ToJs(hv, heap) # N!Free /\ N!Text # N!Free
    BY HandleHolds DEF N!Text, N!Free
  <2>3. ArgumentsThere(heap', frames) /\ ValuesThere(heap', refs, of)
    BY <2>1, <2>2, OneSlot
  <2>4. /\ DOMAIN props' = Objects /\ \A o \in Objects : \A x \in DOMAIN props'[o] : props'[o][x] # N!Free
        /\ UNCHANGED <<frames, data, slotMisfreed, garbled, refs, of>>
    BY <2>1, <2>2, PutProps
  <2>5. NapiTyped' /\ slotMisfreed' = FALSE /\ garbled' = FALSE
    BY <2>4 DEF NapiInv, NapiTyped
  <2>6. NoneShared(frames', refs')
    BY <2>4 DEF NapiInv
  <2>7. ArgumentsThere(heap', frames') /\ ValuesThere(heap', refs', of')
    BY <2>3, <2>4
  <2> QED BY <2>5, <2>6, <2>7 DEF NapiInv
<1>5. ASSUME N!GetProperty(h, k) PROVE NapiInv'
  <2>1. PICK v : v = props[heap[h][2]][k]
    OBVIOUS
  <2>2. heap[h][2] \in Objects /\ k \in DOMAIN props[heap[h][2]] /\ N!Make(v)
    BY <1>5, <2>1 DEF N!GetProperty
  <2>3. v # N!Free
    BY <2>1, <2>2 DEF NapiInv, NapiTyped
  <2> QED BY <2>2, <2>3, MakeInv
<1> QED BY <1>2, <1>3, <1>4, <1>5

LEMMA NapiStepInv == NapiInv /\ [N!Next]_napiVars => NapiInv'
<1> SUFFICES ASSUME NapiInv, [N!Next]_napiVars PROVE NapiInv'
  OBVIOUS
<1>1. CASE UNCHANGED napiVars
  BY <1>1 DEF napiVars, NapiInv, NapiTyped, NoneShared, ArgumentsThere, ValuesThere
<1>2. CASE N!CreateString \/ \E v \in Opaque : N!CreateOpaque(v)
  <2>1. N!Text # N!Free /\ \A v \in Opaque : v # N!Free
    BY AddonsAssumption DEF N!Text, N!Free
  <2> QED BY <1>2, <2>1, MakeInv DEF N!CreateString, N!CreateOpaque
<1>3. CASE \E f \in NativeFns : \/ \E n \in 0 .. 1 : \E args \in [1 .. n -> Passed] : N!CallNative(f, args)
                                \/ \E d \in Datum \cup {0} : N!CreateFunction(f, d)
  BY <1>3, CallNativeInv, CreateFunctionInv
<1>4. ASSUME NEW h \in N!Handles,
             \/ N!NativeReturns(h)
             \/ \E count \in 0 .. MaxRefCount : N!CreateReference(h, count)
             \/ \E new \in BOOLEAN : N!CallScript(h, new)
             \/ \E k \in Key : \/ \E hv \in N!Handles : N!SetProperty(h, k, hv) \/ N!SetNamedProperty(h, k, hv)
                               \/ N!GetProperty(h, k)
             \/ \E d \in Datum : N!Wrap(h, d)
      PROVE NapiInv'
  BY <1>4, NativeReturnsInv, CreateReferenceInv, CallScriptInv, PropertyInv
<1>5. CASE \/ \E v \in Passed \cup {N!Undefined}, o \in Objects : N!ScriptReturns(v, o)
           \/ N!ScriptThrows
  BY <1>5, ScriptReturnsInv, ScriptThrowsInv
<1>6. CASE \E r \in N!Ref : N!DeleteReference(r) \/ \E n \in 0 .. MaxRefCount : N!Count(r, n)
  BY <1>6, DeleteReferenceInv, CountInv
<1> QED BY <1>1, <1>2, <1>3, <1>4, <1>5, <1>6 DEF N!Next

LEMMA NapiInvImplies == NapiInv => N!SlotsHaveOneOwner
<1> SUFFICES ASSUME NapiInv PROVE N!SlotsHaveOneOwner
  OBVIOUS
<1>1. ASSUME NEW i \in 1 .. Len(frames), NEW j \in DOMAIN frames[i].args
      PROVE  frames[i].args[j] \in N!Handles
  <2>1. frames[i] \in Frame
    BY ElementOfSeq DEF NapiInv, NapiTyped
  <2>2. frames[i].args \in ArgLists
    BY <2>1 DEF Frame
  <2>3. frames[i].args[j] \in Place
    BY <2>2 DEF ArgLists
  <2>4. frames[i].args[j] \in N!Slot => heap[frames[i].args[j]] # N!Free
    BY DEF NapiInv, ArgumentsThere, SlotsOf
  <2> QED BY <2>3, <2>4 DEF Place, N!Handles, N!Live
<1> QED BY <1>1 DEF NapiInv, ValuesThere, N!SlotsHaveOneOwner

-----------------------------------------------------------------------------
(***************************************************************************)
(* Addons: what slots and properties hold, and the environment's counts.   *)
(***************************************************************************)
HeldKind == {"number", "string", "object", "buffer", "external"}
Valued(v) == v[1] \in HeldKind \/ \E h \in N!Sentinel : v = N!OfSentinel[h]

NapiKinds ==
  /\ \A s \in N!Slot : heap[s] = N!Free \/ heap[s][1] \in HeldKind
  /\ \A o \in Objects : \A k \in DOMAIN props[o] : Valued(props[o][k])
  /\ Len(frames) <= MaxFrames
  /\ registered \subseteq NativeFns
  /\ nextRef \in 1 .. MaxRefs + 1

LEMMA FilledKinds ==
  ASSUME NapiKinds, NEW vs, \A i \in DOMAIN vs : Valued(vs[i]), heap' = N!Filled(vs, heap)
  PROVE  \A s \in N!Slot : heap'[s] = N!Free \/ heap'[s][1] \in HeldKind
<1> DEFINE hs == N!NewHandles(vs, heap)
           Mine(s) == {i \in N!Needs(vs) : hs[i] = s}
<1>1. ASSUME NEW s \in N!Slot
      PROVE  heap'[s] = IF Mine(s) # {} THEN vs[CHOOSE i \in N!Needs(vs) : hs[i] = s] ELSE heap[s]
  BY DEF N!Filled
<1>2. \A i \in N!Needs(vs) : vs[i][1] \in HeldKind
  BY DEF N!Needs, Valued
<1>3. ASSUME NEW s \in N!Slot, Mine(s) # {}
      PROVE  (CHOOSE i \in N!Needs(vs) : hs[i] = s) \in N!Needs(vs)
  <2> HIDE DEF hs
  <2> QED BY <1>3
<1> HIDE DEF hs, Mine
<1> QED BY <1>1, <1>2, <1>3 DEF NapiKinds

LEMMA FreedKinds ==
  ASSUME NapiKinds, NEW ss, heap' = N!Freed(ss, heap)
  PROVE  \A s \in N!Slot : heap'[s] = N!Free \/ heap'[s][1] \in HeldKind
BY DEF N!Freed, NapiKinds

LEMMA HandleValued ==
  ASSUME NapiKinds, NEW h \in N!Handles
  PROVE  Valued(N!Content(h, heap)) /\ Valued(N!ToJs(h, heap)) /\ Valued(N!Undefined)
<1>1. Valued(N!Undefined)
  <2>1. 0 \in N!Sentinel /\ N!OfSentinel[0] = N!Undefined
    BY DEF N!Sentinel, N!OfSentinel
  <2> QED BY <2>1 DEF Valued
<1>2. Valued(N!Content(h, heap))
  BY Sentinels DEF N!Handles, N!Live, NapiKinds, Valued
<1> QED BY <1>1, <1>2 DEF N!ToJs

LEMMA PopLength ==
  ASSUME NEW S, NEW q \in Seq(S), NEW n \in Nat, Len(q) <= n, q # <<>>
  PROVE  Len(SubSeq(q, 1, Len(q) - 1)) <= n
<1>1. Len(SubSeq(q, 1, Len(q) - 1)) = Len(q) - 1 /\ Len(q) \in Nat
  BY PopFrame, LenProperties
<1> QED BY <1>1

LEMMA NapiKindsInit == N!Init => NapiKinds
<1> SUFFICES ASSUME N!Init PROVE NapiKinds
  OBVIOUS
<1>1. Len(frames) = 0 /\ 1 \in 1 .. MaxRefs + 1 /\ MaxFrames \in Nat
  BY AddonsAssumption, EmptySeq DEF N!Init
<1>2. \A s \in N!Slot : heap[s] = N!Free
  BY DEF N!Init
<1>3. \A o \in Objects : DOMAIN props[o] = {}
  BY DEF N!Init
<1>4. registered \subseteq NativeFns /\ nextRef = 1 /\ 0 <= MaxFrames
  BY <1>1 DEF N!Init
<1> QED BY <1>1, <1>2, <1>3, <1>4 DEF NapiKinds

(* What an operation does to slots, frames and properties. *)
KindsStep ==
  /\ \/ UNCHANGED heap
     \/ \E vs : (\A i \in DOMAIN vs : Valued(vs[i])) /\ heap' = N!Filled(vs, heap)
     \/ \E ss : heap' = N!Freed(ss, heap)
  /\ \/ UNCHANGED frames
     \/ frames # <<>> /\ frames' = N!Pop
     \/ \E f : Len(frames) < MaxFrames /\ frames' = Append(frames, f)
  /\ registered' = registered \/ \E f \in NativeFns : registered' = registered \cup {f}
  /\ nextRef' = nextRef \/ (nextRef \in N!Ref /\ nextRef' = nextRef + 1)
  /\ \A o \in Objects : \A k \in DOMAIN props'[o] : Valued(props'[o][k])

LEMMA KindsStay == ASSUME NapiKinds, NapiInv, KindsStep PROVE NapiKinds'
<1>0. MaxFrames \in Nat /\ MaxRefs \in Nat /\ frames \in Seq(Frame) /\ Len(frames) \in Nat
  BY AddonsAssumption, LenProperties DEF NapiInv, NapiTyped
<1>1. \A s \in N!Slot : heap'[s] = N!Free \/ heap'[s][1] \in HeldKind
  BY FilledKinds, FreedKinds DEF NapiKinds, KindsStep
<1>2. Len(frames') <= MaxFrames
  <2>1. CASE UNCHANGED frames
    BY <2>1 DEF NapiKinds
  <2>2. CASE frames # <<>> /\ frames' = N!Pop
    BY <1>0, <2>2, PopLength DEF NapiKinds, N!Pop
  <2>3. ASSUME NEW f, Len(frames) < MaxFrames, frames' = Append(frames, f)
        PROVE  Len(frames') <= MaxFrames
    <3>1. frames \in Seq(Frame \cup {f})
      <4>1. \A i \in 1 .. Len(frames) : frames[i] \in Frame \cup {f}
        BY <1>0, ElementOfSeq
      <4> QED BY <1>0, <4>1, IsASeq
    <3>2. Len(frames') = Len(frames) + 1
      BY <2>3, <3>1, AppendProperties
    <3> QED BY <1>0, <2>3, <3>2
  <2> QED BY <2>1, <2>2, <2>3 DEF KindsStep
<1>3. registered' \subseteq NativeFns
  BY DEF NapiKinds, KindsStep
<1>4. nextRef' \in 1 .. MaxRefs + 1
  <2>1. CASE nextRef' = nextRef
    BY <2>1 DEF NapiKinds
  <2>2. CASE nextRef \in N!Ref /\ nextRef' = nextRef + 1
    BY <1>0, <2>2 DEF N!Ref
  <2> QED BY <2>1, <2>2 DEF KindsStep
<1> QED BY <1>1, <1>2, <1>3, <1>4 DEF NapiKinds, KindsStep

(* A property is written. *)
LEMMA PutKinds ==
  ASSUME NapiKinds, NapiInv, NEW h, NEW k, NEW v, Valued(v), N!Put(h, k, v)
  PROVE  /\ \A o \in Objects : \A x \in DOMAIN props'[o] : Valued(props'[o][x])
         /\ UNCHANGED <<frames, registered, nextRef>>
<1>1. PICK o \in Objects :
        props' = [props EXCEPT ![o] = [x \in DOMAIN @ \cup {k} |-> IF x = k THEN v ELSE @[x]]]
  BY DEF N!Put
<1>2. DOMAIN props = Objects /\ \A p \in Objects : \A x \in DOMAIN props[p] : Valued(props[p][x])
  BY DEF NapiInv, NapiTyped, NapiKinds
<1>3. /\ \A p \in Objects : p # o => props'[p] = props[p]
      /\ props'[o] = [x \in DOMAIN props[o] \cup {k} |-> IF x = k THEN v ELSE props[o][x]]
  BY <1>1, <1>2
<1>4. \A x \in DOMAIN props'[o] : Valued(props'[o][x])
  BY <1>2, <1>3
<1> QED BY <1>2, <1>3, <1>4 DEF N!Put, N!callVars, N!refVars

LEMMA NapiKindsStep == NapiKinds /\ NapiInv /\ [N!Next]_napiVars => NapiKinds'
<1> SUFFICES ASSUME NapiKinds, NapiInv, [N!Next]_napiVars PROVE NapiKinds'
  OBVIOUS
<1>0. \A o \in Objects : \A k \in DOMAIN props[o] : Valued(props[o][k])
  BY DEF NapiKinds
<1>1. CASE UNCHANGED napiVars
  BY <1>1 DEF napiVars, NapiKinds
<1>2. ASSUME NEW v, Valued(v), N!Make(v) PROVE NapiKinds'
  <2>1. /\ heap' = N!Filled(<<v>>, heap) /\ UNCHANGED <<frames, registered, nextRef, props>>
        /\ \A i \in DOMAIN <<v>> : Valued(<<v>>[i])
    BY <1>2 DEF N!Make, N!refVars
  <2> QED BY <1>0, <2>1, KindsStay DEF KindsStep
<1>3. CASE N!CreateString \/ \E v \in Opaque : N!CreateOpaque(v)
  <2>1. Valued(N!Text) /\ \A v \in Opaque : Valued(v)
    BY AddonsAssumption DEF N!Text, Valued, HeldKind
  <2> QED BY <1>2, <1>3, <2>1 DEF N!CreateString, N!CreateOpaque
<1>4. ASSUME NEW f \in NativeFns, NEW n \in 0 .. 1, NEW args \in [1 .. n -> Passed], N!CallNative(f, args)
      PROVE NapiKinds'
  <2>1. \A i \in DOMAIN args : Valued(args[i])
    BY AddonsAssumption DEF Valued, HeldKind
  <2>2. /\ heap' = N!Filled(args, heap) /\ Len(frames) < MaxFrames
        /\ \E fr : frames' = Append(frames, fr)
        /\ UNCHANGED <<registered, nextRef, props>>
    BY <1>4 DEF N!CallNative, N!refVars
  <2> QED BY <1>0, <2>1, <2>2, KindsStay DEF KindsStep
<1>5. ASSUME NEW f \in NativeFns, NEW d \in Datum \cup {0}, N!CreateFunction(f, d) PROVE NapiKinds'
  <2> DEFINE v == <<"object", f>>
  <2>1. /\ heap' = N!Filled(<<v>>, heap) /\ registered' = registered \cup {f}
        /\ UNCHANGED <<frames, nextRef, props>>
    BY <1>5 DEF N!CreateFunction, N!refVars
  <2>2. \A i \in DOMAIN <<v>> : Valued(<<v>>[i])
    BY DEF Valued, HeldKind
  <2> HIDE DEF v
  <2> QED BY <1>0, <2>1, <2>2, KindsStay DEF KindsStep
<1>6. ASSUME NEW h \in N!Handles, N!NativeReturns(h) PROVE NapiKinds'
  <2>1. /\ frames # <<>> /\ frames' = N!Pop /\ \E ss : heap' = N!Freed(ss, heap)
        /\ UNCHANGED <<registered, nextRef, props>>
    BY <1>6 DEF N!NativeReturns, N!InNative, N!refVars
  <2> QED BY <1>0, <2>1, KindsStay DEF KindsStep
<1>7. ASSUME NEW h \in N!Handles, NEW count, N!CreateReference(h, count) PROVE NapiKinds'
  <2>1. PICK v : v = N!Content(h, heap)
    OBVIOUS
  <2>2. /\ heap' = N!Filled(<<v>>, heap) /\ nextRef \in N!Ref /\ nextRef' = nextRef + 1
        /\ UNCHANGED <<frames, registered, props>>
    BY <1>7, <2>1 DEF N!CreateReference
  <2>3. \A i \in DOMAIN <<v>> : Valued(<<v>>[i])
    BY <2>1, HandleValued
  <2> QED BY <1>0, <2>2, <2>3, KindsStay DEF KindsStep
<1>8. ASSUME NEW h \in N!Handles, NEW new, N!CallScript(h, new) PROVE NapiKinds'
  <2>1. /\ \E fr : frames' = Append(frames, fr)
        /\ Len(frames) < MaxFrames /\ UNCHANGED <<heap, registered, nextRef, props>>
    BY <1>8 DEF N!CallScript, N!refVars
  <2> QED BY <1>0, <2>1, KindsStay DEF KindsStep
<1>9. ASSUME NEW h \in N!Handles, NEW k, NEW hv \in N!Handles, N!SetProperty(h, k, hv) PROVE NapiKinds'
  <2>1. N!Put(h, k, N!ToJs(hv, heap)) /\ UNCHANGED heap /\ Valued(N!ToJs(hv, heap))
    BY <1>9, HandleValued DEF N!SetProperty
  <2> QED BY <2>1, PutKinds, KindsStay DEF KindsStep
<1>10. ASSUME NEW h \in N!Handles, NEW k, NEW hv \in N!Handles, N!SetNamedProperty(h, k, hv)
       PROVE NapiKinds'
  <2>1. /\ N!Put(h, k, N!ToJs(hv, heap)) /\ heap' = N!Filled(<<N!Text>>, heap)
        /\ Valued(N!ToJs(hv, heap))
    BY <1>10, HandleValued DEF N!SetNamedProperty
  <2>2. \A i \in DOMAIN <<N!Text>> : Valued(<<N!Text>>[i])
    BY DEF N!Text, Valued, HeldKind
  <2>3. /\ \A o \in Objects : \A x \in DOMAIN props'[o] : Valued(props'[o][x])
        /\ UNCHANGED <<frames, registered, nextRef>>
    BY <2>1, PutKinds
  <2> QED BY <2>1, <2>2, <2>3, KindsStay DEF KindsStep
<1>11. ASSUME NEW h, NEW k, N!GetProperty(h, k) PROVE NapiKinds'
  <2>1. PICK v : v = props[heap[h][2]][k]
    OBVIOUS
  <2>2. heap[h][2] \in Objects /\ k \in DOMAIN props[heap[h][2]] /\ N!Make(v)
    BY <1>11, <2>1 DEF N!GetProperty
  <2> QED BY <1>0, <1>2, <2>1, <2>2
<1>12. ASSUME NEW h, NEW d, N!Wrap(h, d) PROVE NapiKinds'
  <2>1. N!Put(h, "wrapped", <<"number", d>>) /\ UNCHANGED heap /\ Valued(<<"number", d>>)
    BY <1>12 DEF N!Wrap, Valued, HeldKind
  <2> QED BY <2>1, PutKinds, KindsStay DEF KindsStep
<1>13. ASSUME NEW v \in Passed \cup {N!Undefined}, NEW o \in Objects, N!ScriptReturns(v, o)
       PROVE NapiKinds'
  <2>1. PICK given : given = IF N!Top.new /\ ~N!IsObject(v) THEN <<"object", o>> ELSE v
    OBVIOUS
  <2>2. /\ heap' = N!Filled(<<given>>, heap) /\ frames # <<>> /\ frames' = N!Pop
        /\ UNCHANGED <<registered, nextRef, props>>
    BY <1>13, <2>1 DEF N!ScriptReturns, N!refVars
  <2>3. Valued(given)
    <3>1. Valued(N!Undefined) /\ Valued(<<"object", o>>)
      <4>1. 0 \in N!Sentinel /\ N!OfSentinel[0] = N!Undefined
        BY DEF N!Sentinel, N!OfSentinel
      <4> QED BY <4>1 DEF Valued, HeldKind
    <3>2. \A u \in Passed : Valued(u)
      BY AddonsAssumption DEF Valued, HeldKind
    <3> QED BY <2>1, <3>1, <3>2
  <2>4. \A i \in DOMAIN <<given>> : Valued(<<given>>[i])
    BY <2>3
  <2> QED BY <1>0, <2>2, <2>4, KindsStay DEF KindsStep
<1>14. CASE N!ScriptThrows
  <2>1. frames # <<>> /\ frames' = N!Pop /\ UNCHANGED <<heap, registered, nextRef, props>>
    BY <1>14 DEF N!ScriptThrows, N!refVars
  <2> QED BY <1>0, <2>1, KindsStay DEF KindsStep
<1>15. ASSUME NEW r \in N!Ref, N!DeleteReference(r) \/ \E n : N!Count(r, n) PROVE NapiKinds'
  <2>1. /\ UNCHANGED heap \/ \E ss : heap' = N!Freed(ss, heap)
        /\ UNCHANGED <<frames, registered, nextRef, props>>
    BY <1>15 DEF N!DeleteReference, N!Count, N!callVars
  <2> QED BY <1>0, <2>1, KindsStay DEF KindsStep
<1> QED
  BY <1>1, <1>3, <1>4, <1>5, <1>6, <1>7, <1>8, <1>9, <1>10, <1>11, <1>12, <1>13, <1>14, <1>15 DEF N!Next

LEMMA NapiTypes == NapiInv /\ NapiKinds => N!TypeOK
<1> SUFFICES ASSUME NapiInv, NapiKinds PROVE N!TypeOK
  OBVIOUS
<1>1. \A s \in N!Slot : heap[s][1] \in {"free", "number", "string", "object", "buffer", "external"}
  BY DEF NapiKinds, N!Free, HeldKind
<1>2. \A r \in N!Ref : refs[r].slot \in N!Sentinel \cup N!Slot /\ refs[r].count \in 0 .. MaxRefCount
  BY DEF NapiInv, NapiTyped, Place
<1> QED BY <1>1, <1>2 DEF NapiInv, NapiTyped, NapiKinds, N!TypeOK

-----------------------------------------------------------------------------
(***************************************************************************)
(* Addons: the asynchronous works.  Those that were queued and have left   *)
(* their threads, in the order in which they did.                          *)
(***************************************************************************)
Ended == drained \o queue

EnvInv ==
  /\ work \in [Env!Work -> {"none", "created", "queued", "deleted", "queued_deleted"}]
  /\ threads \subseteq Env!Work /\ queue \in Seq(Env!Work) /\ drained \in Seq(Env!Work)
  /\ OnceEach(Ended)
  /\ \A w \in threads : ~Has(Ended, w)
  /\ \A w \in Env!Work :
       Has(Ended, w) \/ w \in threads <=> work[w] \in {"queued", "queued_deleted"}
  /\ queued = Cardinality(threads) + Len(Ended)

LEMMA EnvInitInv == Env!Init => EnvInv
<1> SUFFICES ASSUME Env!Init PROVE EnvInv
  OBVIOUS
<1>1. /\ work = [w \in Env!Work |-> "none"] /\ threads = {} /\ queued = 0
      /\ queue = <<>> /\ drained = <<>>
  BY DEF Env!Init
<1>2. Ended = <<>> /\ Len(Ended) = 0 /\ queue \in Seq(Env!Work) /\ drained \in Seq(Env!Work)
  BY <1>1, ConcatEmptySeq, EmptySeq DEF Ended
<1> QED BY <1>1, <1>2, EmptyHasNone, FS_EmptySet DEF EnvInv

(* A work is queued: a thread more. *)
LEMMA QueueWorkInv == ASSUME EnvInv, NEW w \in Env!Work, Env!QueueAsyncWork(w) PROVE EnvInv'
<1>1. /\ work[w] = "created" /\ work' = [work EXCEPT ![w] = "queued"]
      /\ threads' = threads \cup {w} /\ queued' = queued + 1
      /\ UNCHANGED <<queue, drained>>
  BY DEF Env!QueueAsyncWork
<1>2. Ended' = Ended
  BY <1>1 DEF Ended
<1>3. ~Has(Ended, w) /\ w \notin threads
  BY <1>1 DEF EnvInv
<1>4. IsFiniteSet(threads)
  <2>1. IsFiniteSet(Env!Work)
    BY AddonsAssumption, FS_Interval DEF Env!Work
  <2> QED BY <2>1, FS_Subset DEF EnvInv
<1>5. Cardinality(threads') = Cardinality(threads) + 1
  BY <1>1, <1>3, <1>4, FS_AddElement
<1>6. Cardinality(threads) \in Nat /\ Len(Ended) \in Nat
  <2>1. Ended \in Seq(Env!Work)
    BY ConcatProperties DEF EnvInv, Ended
  <2> QED BY <1>4, <2>1, FS_CardinalityType, LenProperties
<1>7. queued' = Cardinality(threads') + Len(Ended')
  BY <1>1, <1>2, <1>5, <1>6 DEF EnvInv
<1>8. \A x \in Env!Work :
        Has(Ended', x) \/ x \in threads' <=> work'[x] \in {"queued", "queued_deleted"}
  BY <1>1, <1>2, <1>3 DEF EnvInv
<1>9. work' \in [Env!Work -> {"none", "created", "queued", "deleted", "queued_deleted"}]
  BY <1>1 DEF EnvInv
<1> QED BY <1>1, <1>2, <1>3, <1>7, <1>8, <1>9 DEF EnvInv

(* Its thread ends, and it is the last of the finished. *)
LEMMA ExecutedInv == ASSUME EnvInv, NEW w \in Env!Work, Env!Executed(w) PROVE EnvInv'
<1>1. /\ w \in threads /\ threads' = threads \ {w} /\ queue' = Append(queue, w)
      /\ UNCHANGED <<work, queued, drained>>
  BY DEF Env!Executed
<1>2. /\ Ended \in Seq(Env!Work) /\ queue \in Seq(Env!Work) /\ drained \in Seq(Env!Work)
      /\ Len(Ended) \in Nat
  BY ConcatProperties, LenProperties DEF EnvInv, Ended
<1>3. Ended' = Append(Ended, w)
  <2>1. Append(queue, w) = queue \o <<w>> /\ Append(Ended, w) = Ended \o <<w>>
        /\ <<w>> \in Seq(Env!Work)
    BY <1>2, AppendIsConcat
  <2>2. (drained \o queue) \o <<w>> = drained \o (queue \o <<w>>)
    BY <1>2, <2>1, ConcatAssociative
  <2> QED BY <1>1, <2>1, <2>2 DEF Ended
<1>4. /\ \A x : Has(Ended', x) <=> Has(Ended, x) \/ x = w
      /\ OnceEach(Ended')
      /\ Len(Ended') = Len(Ended) + 1
  BY <1>1, <1>2, <1>3, AppendHas, AppendProperties DEF EnvInv
<1>5. Cardinality(threads) = Cardinality(threads') + 1 /\ Cardinality(threads') \in Nat
  <2>1. IsFiniteSet(Env!Work)
    BY AddonsAssumption, FS_Interval DEF Env!Work
  <2>2. IsFiniteSet(threads)
    BY <2>1, FS_Subset DEF EnvInv
  <2>3. IsFiniteSet(threads') /\ Cardinality(threads') = Cardinality(threads) - 1
    BY <1>1, <2>2, FS_RemoveElement
  <2> QED BY <2>2, <2>3, FS_CardinalityType
<1>6. queued' = Cardinality(threads') + Len(Ended')
  BY <1>1, <1>2, <1>4, <1>5 DEF EnvInv
<1>7. \A x \in Env!Work :
        Has(Ended', x) \/ x \in threads' <=> work'[x] \in {"queued", "queued_deleted"}
  BY <1>1, <1>4 DEF EnvInv
<1>8. queue' \in Seq(Env!Work)
  BY <1>1, <1>2, AppendProperties
<1> QED BY <1>1, <1>4, <1>6, <1>7, <1>8 DEF EnvInv

(* The queue goes to the end of what is drained. *)
LEMMA DrainInv == ASSUME EnvInv, Env!Drain PROVE EnvInv'
<1>1. /\ queue' = <<>> /\ drained' = drained \o queue /\ UNCHANGED <<work, queued, threads>>
  BY DEF Env!Drain
<1>2. drained \o queue \in Seq(Env!Work) /\ queue' \in Seq(Env!Work)
  BY <1>1, ConcatProperties, EmptySeq DEF EnvInv
<1>3. Ended' = Ended
  BY <1>1, <1>2, ConcatEmptySeq DEF Ended
<1> QED BY <1>1, <1>2, <1>3 DEF EnvInv

LEMMA EnvStepInv == EnvInv /\ [Env!Next]_envVars => EnvInv'
<1> SUFFICES ASSUME EnvInv, [Env!Next]_envVars PROVE EnvInv'
  OBVIOUS
<1>1. ASSUME UNCHANGED <<work, queued, threads, queue, drained>> PROVE EnvInv'
  BY <1>1 DEF EnvInv, Ended
<1>2. ASSUME NEW w \in Env!Work, Env!CreateAsyncWork(w) \/ Env!DeleteAsyncWork(w) PROVE EnvInv'
  <2>1. /\ UNCHANGED <<queued, threads, queue, drained>>
        /\ \/ work[w] = "none" /\ work' = [work EXCEPT ![w] = "created"]
           \/ work[w] = "created" /\ work' = [work EXCEPT ![w] = "deleted"]
           \/ work[w] = "queued" /\ work' = [work EXCEPT ![w] = "queued_deleted"]
    BY <1>2 DEF Env!CreateAsyncWork, Env!DeleteAsyncWork, EnvInv
  <2>2. work' \in [Env!Work -> {"none", "created", "queued", "deleted", "queued_deleted"}]
    BY <2>1 DEF EnvInv
  <2>3. \A x \in Env!Work : work'[x] \in {"queued", "queued_deleted"}
                              <=> work[x] \in {"queued", "queued_deleted"}
    BY <2>1 DEF EnvInv
  <2>4. Ended' = Ended
    BY <2>1 DEF Ended
  <2> QED BY <2>1, <2>2, <2>3, <2>4 DEF EnvInv
<1>3. CASE UNCHANGED envVars
  BY <1>1, <1>3 DEF envVars
<1>4. CASE \/ Env!Throw \/ Env!GetAndClear \/ \E s \in Env!Scope : Env!OpenScope(s) \/ Env!CloseScope(s)
           \/ \E d \in Datum : Env!SetInstanceData(d)
  BY <1>1, <1>4 DEF Env!Throw, Env!GetAndClear, Env!OpenScope, Env!CloseScope, Env!SetInstanceData
<1> QED
  BY <1>2, <1>3, <1>4, QueueWorkInv, ExecutedInv, DrainInv DEF Env!Next

LEMMA EnvInvImplies == EnvInv => Env!WorksCompleteOnce
<1> SUFFICES ASSUME EnvInv PROVE Env!WorksCompleteOnce
  OBVIOUS
<1> DEFINE f == drained \o queue
<1>1. f \in Seq(Env!Work) /\ DOMAIN f = 1 .. Len(f) /\ \A i \in DOMAIN f : f[i] \in Env!Work
  BY ConcatProperties, ElementOfSeq, LenProperties DEF EnvInv
<1>2. /\ OnceEach(f) /\ \A w \in threads : ~Has(f, w)
      /\ \A w \in Env!Work : Has(f, w) \/ w \in threads <=> work[w] \in {"queued", "queued_deleted"}
      /\ queued = Cardinality(threads) + Len(f) /\ threads \subseteq Env!Work
  BY DEF EnvInv, Ended
<1>3. Env!Cardinality(threads) = Cardinality(threads)
  BY DEF Env!Cardinality, Cardinality
<1> HIDE DEF f
<1>4. \A i, j \in DOMAIN f : i # j => f[i] # f[j]
  BY <1>1, <1>2 DEF OnceEach
<1>5. {f[i] : i \in DOMAIN f} \cap threads = {}
  BY <1>1, <1>2 DEF Has
<1>6. {f[i] : i \in DOMAIN f} \cup threads = {w \in Env!Work : work[w] \in {"queued", "queued_deleted"}}
  <2>1. \A w \in Env!Work : w \in {f[i] : i \in DOMAIN f} <=> Has(f, w)
    BY <1>1 DEF Has
  <2> QED BY <1>1, <1>2, <2>1
<1> QED BY <1>2, <1>3, <1>4, <1>5, <1>6 DEF Env!WorksCompleteOnce, f

EnvKinds ==
  /\ error \in BOOLEAN /\ mismatch \in BOOLEAN
  /\ scopes \in [Env!Scope -> 0 .. MaxScopes]
  /\ instance \in Datum \cup {0}

LEMMA EnvKindsInit == Env!Init => EnvKinds
<1> SUFFICES ASSUME Env!Init PROVE EnvKinds
  OBVIOUS
<1>1. 0 \in 0 .. MaxScopes
  BY AddonsAssumption
<1>2. scopes = [s \in Env!Scope |-> 0] /\ error = FALSE /\ mismatch = FALSE /\ instance = 0
  BY DEF Env!Init
<1> QED BY <1>1, <1>2 DEF EnvKinds

LEMMA EnvKindsStep == EnvKinds /\ [Env!Next]_envVars => EnvKinds'
<1> SUFFICES ASSUME EnvKinds, [Env!Next]_envVars PROVE EnvKinds'
  OBVIOUS
<1>1. CASE UNCHANGED envVars
  BY <1>1 DEF envVars, EnvKinds
<1>2. CASE Env!Throw \/ Env!GetAndClear
  BY <1>2 DEF Env!Throw, Env!GetAndClear, EnvKinds
<1>3. ASSUME NEW s \in Env!Scope, Env!OpenScope(s) \/ Env!CloseScope(s) PROVE EnvKinds'
  <2>1. PICK n \in 0 .. MaxScopes : n = scopes[s]
    BY DEF EnvKinds
  <2>2. MaxScopes \in Nat
    BY AddonsAssumption
  <2>3. CASE n < MaxScopes /\ scopes' = [scopes EXCEPT ![s] = n + 1] /\ UNCHANGED <<error, mismatch, instance>>
    <3>1. n + 1 \in 0 .. MaxScopes
      BY <2>2, <2>3
    <3> QED BY <2>3, <3>1 DEF EnvKinds
  <2>4. CASE n > 0 /\ scopes' = [scopes EXCEPT ![s] = n - 1] /\ UNCHANGED <<error, mismatch, instance>>
    <3>1. n - 1 \in 0 .. MaxScopes
      BY <2>2, <2>4
    <3> QED BY <2>4, <3>1 DEF EnvKinds
  <2>5. CASE mismatch' = TRUE /\ UNCHANGED <<error, scopes, instance>>
    BY <2>5 DEF EnvKinds
  <2> QED BY <1>3, <2>1, <2>3, <2>4, <2>5 DEF Env!OpenScope, Env!CloseScope
<1>4. ASSUME NEW d \in Datum, Env!SetInstanceData(d) PROVE EnvKinds'
  BY <1>4 DEF Env!SetInstanceData, EnvKinds
<1>5. ASSUME NEW w \in Env!Work,
             \/ Env!CreateAsyncWork(w) \/ Env!QueueAsyncWork(w) \/ Env!DeleteAsyncWork(w) \/ Env!Executed(w)
      PROVE  EnvKinds'
  BY <1>5 DEF Env!CreateAsyncWork, Env!QueueAsyncWork, Env!DeleteAsyncWork, Env!Executed, EnvKinds
<1>6. CASE Env!Drain
  BY <1>6 DEF Env!Drain, EnvKinds
<1> QED BY <1>1, <1>2, <1>3, <1>4, <1>5, <1>6 DEF Env!Next

(* No more works are counted than there are: each is in one place.         *)
LEMMA EnvTypes == EnvInv /\ EnvKinds => Env!TypeOK
<1> SUFFICES ASSUME EnvInv, EnvKinds PROVE Env!TypeOK
  OBVIOUS
<1>1. MaxWorks \in Nat /\ IsFiniteSet(Env!Work) /\ Cardinality(Env!Work) = MaxWorks
  <2>1. MaxWorks \in Nat /\ 1 \in Int /\ MaxWorks \in Int
    BY AddonsAssumption
  <2>2. IsFiniteSet(1 .. MaxWorks) /\ Cardinality(1 .. MaxWorks) = IF 1 > MaxWorks THEN 0 ELSE MaxWorks - 1 + 1
    BY <2>1, FS_Interval
  <2> QED BY <2>1, <2>2 DEF Env!Work
<1>2. PICK n \in Nat : n = Len(Ended) /\ DOMAIN Ended = 1 .. n /\ \A i \in 1 .. n : Ended[i] \in Env!Work
  <2>1. Ended \in Seq(Env!Work)
    BY ConcatProperties DEF EnvInv, Ended
  <2> QED BY <2>1, LenProperties, ElementOfSeq
<1> DEFINE f == [i \in 1 .. n |-> Ended[i]]
           T == {Ended[i] : i \in 1 .. n}
<1>3. IsFiniteSet(1 .. n) /\ Cardinality(1 .. n) = n
  <2>1. 1 \in Int /\ n \in Int
    OBVIOUS
  <2>2. IsFiniteSet(1 .. n) /\ Cardinality(1 .. n) = IF 1 > n THEN 0 ELSE n - 1 + 1
    BY <2>1, FS_Interval
  <2> QED BY <2>2
<1>4. f \in Bijection(1 .. n, T)
  <2>1. \A i, j \in 1 .. n : f[i] = f[j] => i = j
    BY <1>2 DEF EnvInv, OnceEach
  <2>2. f \in [1 .. n -> T] /\ \A t \in T : \E i \in 1 .. n : f[i] = t
    OBVIOUS
  <2> QED BY <2>1, <2>2 DEF Bijection, Injection, Surjection, IsInjective
<1>5. IsFiniteSet(T) /\ Cardinality(T) = n
  <2>1. ExistsBijection(1 .. n, T)
    BY <1>4 DEF ExistsBijection
  <2> HIDE DEF T
  <2> QED BY <1>3, <2>1, FS_Bijection
<1>6. T \subseteq Env!Work /\ threads \subseteq Env!Work /\ T \cap threads = {}
  BY <1>2 DEF EnvInv, Has
<1>7. IsFiniteSet(threads) /\ Cardinality(threads) \in Nat
  BY <1>1, <1>6, FS_Subset, FS_CardinalityType
<1> HIDE DEF T, f
<1>8. Cardinality(T \cup threads) = n + Cardinality(threads)
  <2>1. Cardinality(T \cup threads) = Cardinality(T) + Cardinality(threads) - Cardinality(T \cap threads)
    BY <1>5, <1>7, FS_Union
  <2>2. Cardinality(T \cap threads) = 0
    BY <1>6, FS_EmptySet
  <2> QED BY <1>5, <1>7, <2>1, <2>2
<1>9. Cardinality(T \cup threads) <= MaxWorks
  BY <1>1, <1>6, FS_Subset
<1>10. queued \in 0 .. MaxWorks
  <2>1. queued = Cardinality(threads) + n
    BY <1>2 DEF EnvInv
  <2> QED BY <1>1, <1>7, <1>8, <1>9, <2>1
<1> QED BY <1>10 DEF EnvInv, EnvKinds, Env!TypeOK

-----------------------------------------------------------------------------
(* Every variable keeps its type: the count of active calls is never below *)
(* zero, and no result is of an operation that does not exist.             *)
THEOREM TypeCorrect == Spec => []TypeOK
<1>1. IInv => TypeOK
  BY DEF IInv
<1> QED BY <1>1, Invariance, PTL

(* A promise waits exactly while something will settle it, whatever the    *)
(* threads, the runtime and the host do in between.                        *)
THEOREM PromisesHaveSources == Spec => []PendingHasSource
<1>1. IInv => PendingHasSource
  BY InvariantImplies
<1> QED BY <1>1, Invariance, PTL

(* active_async_tasks is the number of threads inside the library.         *)
THEOREM ActiveIsExact == Spec => []ActiveExact
<1>1. IInv => ActiveExact
  BY DEF IInv
<1> QED BY <1>1, Invariance, PTL

(* closeAsync reports only when every earlier call has left the library.   *)
THEOREM ClosesWait == Spec => []CloseWaitsForEarlierCalls
<1>1. IInv => CloseWaitsForEarlierCalls
  BY InvariantImplies
<1> QED BY <1>1, Invariance, PTL

(* A host that was told "idle" has nothing to wait for.                    *)
THEOREM IdleIsTrue == Spec => []IdleIsIdle
<1>1. IInv => IdleIsIdle
  BY InvariantImplies
<1> QED BY <1>1, Invariance, PTL

(***************************************************************************)
(* The layout of every structure, of any fields: that of C if it is not    *)
(* packed, and however it is packed no field reaches into another one or   *)
(* beyond the end of the buffer.                                           *)
(***************************************************************************)
THEOREM FieldsHaveTheirPlaces ==
  Structs!Spec => [](Structs!LayoutIsNatural /\ Structs!FieldsDoNotOverlap)
<1>1. [Structs!Next]_(Structs!vars) => [Structs!Next]_structVars
  BY DEF Structs!vars, Structs!layoutVars, Structs!instanceVars, structVars
<1>2. StructsInv => Structs!LayoutIsNatural /\ Structs!FieldsDoNotOverlap
  BY DEF StructsInv
<1> QED BY <1>1, <1>2, StructsInitInv, StructsStepInv, PTL DEF Structs!Spec

(***************************************************************************)
(* Whatever calls run within each other: the function of a callback is     *)
(* away exactly while it runs, only close() takes code away, and the       *)
(* allocator gets back what it gave, with its size.                        *)
(***************************************************************************)
THEOREM CallbacksAndBlocksAreHeld ==
  Holds!Spec => [](/\ Holds!CallbacksKeepTheirFunction /\ Holds!NativeCodeStaysUntilClose
                   /\ Holds!BlocksAreReturnedWhole)
<1>1. HoldsInv => /\ Holds!CallbacksKeepTheirFunction /\ Holds!NativeCodeStaysUntilClose
                  /\ Holds!BlocksAreReturnedWhole
  BY HoldsInvImplies DEF HoldsInv
<1>2. [Holds!Next]_(Holds!vars) => [Holds!Next]_objectVars
  BY DEF Holds!vars, Holds!callbackVars, Holds!libraryVars, Holds!blockVars, objectVars
<1> QED BY <1>1, <1>2, HoldsInitInv, HoldsStepInv, PTL DEF Holds!Spec

(***************************************************************************)
(* A slot has one owner: the value of a reference is the one it was made   *)
(* from until it is deleted, the arguments of a call are there as long as  *)
(* it runs, and nobody frees what is not there, whatever calls run within  *)
(* each other and whatever is freed meanwhile.                             *)
(***************************************************************************)
THEOREM OwnersKeepTheirSlots == N!Spec => []N!SlotsHaveOneOwner
<1>1. [N!Next]_(N!vars) => [N!Next]_napiVars
  BY DEF N!vars, N!callVars, N!refVars, napiVars
<1> QED BY <1>1, NapiInitInv, NapiStepInv, NapiInvImplies, PTL DEF N!Spec

(***************************************************************************)
(* An asynchronous work that was queued is with its thread, in the queue   *)
(* or drained, and once, however the threads end and whatever is deleted   *)
(* meanwhile; the environment's count of them is theirs.                   *)
(***************************************************************************)
THEOREM WorksAreCompletedOnce == Env!Spec => []Env!WorksCompleteOnce
<1>1. [Env!Next]_(Env!vars) => [Env!Next]_envVars
  BY DEF Env!vars, envVars
<1> QED BY <1>1, EnvInitInv, EnvStepInv, EnvInvImplies, PTL DEF Env!Spec

-----------------------------------------------------------------------------
(* Side by side: a step of one part leaves the others as they are. *)
SumInv ==
  /\ IInv /\ StructsInv /\ InstanceInv /\ CallsInv /\ HoldsInv
  /\ NapiInv /\ NapiKinds /\ EnvInv /\ EnvKinds

LEMMA SumInvariance == SumSpec => []SumInv
<1>1. SumInit => SumInv
  BY InitIInv, StructsInitInv, InstanceInitInv, CallsInitInv, HoldsInitInv, NapiInitInv,
     NapiKindsInit, EnvInitInv, EnvKindsInit DEF SumInit, SumInv
<1>2. SumInv /\ [SumNext]_<<part, vars, structVars, ffiCallVars, objectVars, napiVars, envVars>>
        => SumInv'
  <2> SUFFICES ASSUME SumInv,
                      [SumNext]_<<part, vars, structVars, ffiCallVars, objectVars, napiVars, envVars>>
               PROVE  SumInv'
    OBVIOUS
  <2>1. /\ [Next]_vars /\ [Structs!Next]_structVars /\ [Calls!Next]_ffiCallVars
        /\ [Holds!Next]_objectVars /\ [N!Next]_napiVars /\ [Env!Next]_envVars
    BY DEF SumNext
  <2>2. StructsInv' /\ InstanceInv'
    BY <2>1, StructsStepInv, InstanceStepInv DEF SumInv
  <2> QED
    BY <2>1, <2>2, StepIInv, CallsStepInv, HoldsStepInv, NapiStepInv, NapiKindsStep,
       EnvStepInv, EnvKindsStep DEF SumInv
<1> QED BY <1>1, <1>2, PTL DEF SumSpec

(* Every variable of every part keeps its type: no more works are counted  *)
(* than there are, and a buffer has the bytes its structure needs.         *)
THEOREM NativesTyped == SumSpec => []TypesOK
<1>1. SumInv => TypesOK
  BY CallsInvImplies, NapiTypes, EnvTypes DEF SumInv, IInv, InstanceInv, HoldsInv, TypesOK
<1> QED BY <1>1, SumInvariance, PTL

(***************************************************************************)
(* Whatever a script constructs a structure with and writes to its fields  *)
(* afterwards, by name or through a pointer: every field reads as the      *)
(* nearest value of its type to what was written to it last.               *)
(***************************************************************************)
THEOREM FieldsAreKept == SumSpec => []FieldsKeepTheirValues
<1>1. SumInv => FieldsKeepTheirValues
  BY InstanceInvImplies DEF SumInv, StructsInv, FieldsKeepTheirValues
<1> QED BY <1>1, SumInvariance, PTL

(***************************************************************************)
(* Whatever arguments a script passes, to functions of any parameters: a   *)
(* call that is made passes every one as the nearest value of its type,    *)
(* funcAsync passes the same bytes, and a callback that returns what it    *)
(* gets returns those bytes.                                               *)
(***************************************************************************)
THEOREM EveryArgumentIsPassed == SumSpec => []ArgumentsArrive
<1>1. SumInv => ArgumentsArrive
  BY CallsInvImplies DEF SumInv, ArgumentsArrive
<1> QED BY <1>1, SumInvariance, PTL

(* What MCNatives says of callbacks, libraries and memory, *)
THEOREM EveryNativeIsHeld == SumSpec => []HeldNativesAreThere
<1>1. SumInv => HeldNativesAreThere
  BY HoldsInvImplies DEF SumInv, HoldsInv, HeldNativesAreThere
<1> QED BY <1>1, SumInvariance, PTL

(* and of N-API's slots and asynchronous works. *)
THEOREM EveryAddonKeepsItsValues == SumSpec => []AddonsKeepTheirValues
<1>1. SumInv => AddonsKeepTheirValues
  BY NapiInvImplies, EnvInvImplies DEF SumInv, AddonsKeepTheirValues
<1> QED BY <1>1, SumInvariance, PTL
=============================================================================
