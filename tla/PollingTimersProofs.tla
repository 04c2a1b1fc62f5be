------------------------- MODULE PollingTimersProofs -------------------------
(***************************************************************************)
(* Proofs about PollingTimers: for any number of timers and any delays.    *)
(* A timer's ticker is in the queue, or in hand while its function runs;   *)
(* the invariant says so of every timer and not only of those armed, since *)
(* a function may clear or arm any of them while it runs.                  *)
(***************************************************************************)
EXTENDS PollingTimers, DataFacts

(* The host is in a call or out.  Each ticker is in one place, and the     *)
(* function that runs is that of a timer which has left the map, or of an  *)
(* interval.                                                               *)
TickersPlaced ==
  /\ call = "none" <=> phase = "out"
  /\ OnceEach(queue)
  /\ firing # 0 <=> phase = "fn"
  /\ firing # 0 => ~Has(queue, firing)
  /\ firing \in armed => kind[firing] = "interval"
  /\ \A t \in armed : Has(queue, t) \/ firing = t

IInv == TypeOK /\ TickersPlaced

LEMMA InvariantImplies == IInv => OneTicker
<1> SUFFICES ASSUME IInv, NEW t \in Timer
             PROVE  /\ \A i, j \in Tickers(t) : i = j
                    /\ t \in armed => (Tickers(t) # {} <=> firing # t)
                    /\ firing = t => Tickers(t) = {}
  BY DEF OneTicker
<1> USE DEF IInv, TickersPlaced
<1>1. Tickers(t) # {} <=> Has(queue, t)
  BY DEF Tickers, Has
<1>2. \A i, j \in Tickers(t) : i = j
  BY DEF Tickers, OnceEach
<1>3. t # 0
  BY DEF Timer
<1> QED BY <1>1, <1>2, <1>3

LEMMA InitIInv == Init => IInv
<1> SUFFICES ASSUME Init PROVE IInv
  OBVIOUS
<1> USE BoundAssumption DEF Init
<1>1. queue \in Seq(Timer)
  BY EmptySeq
<1>2. /\ kind \in [Timer -> {"none", "once", "timeout", "interval"}]
      /\ delay \in [Timer -> Delay] /\ left \in [Timer -> Delay]
      /\ budget \in Delay
  BY DEF Delay
<1>3. TypeOK
  <2>1. armed \subseteq Timer /\ firing \in Timer \cup {0}
    OBVIOUS
  <2> QED BY <1>1, <1>2, <2>1 DEF TypeOK
<1>4. TickersPlaced
  BY EmptyHasNone DEF TickersPlaced
<1> QED BY <1>3, <1>4 DEF IInv

-----------------------------------------------------------------------------
(* A timer is armed: its identifier is over, so its ticker is a new one.   *)
LEMMA ArmIInv ==
  ASSUME IInv, NEW k \in {"once", "timeout", "interval"}, NEW d \in Delay, Arm(k, d)
  PROVE  IInv'
<1> USE DEF IInv
<1>1. PICK t \in Timer :
        /\ Over(t)
        /\ armed' = armed \cup {t}
        /\ kind' = [kind EXCEPT ![t] = k]
        /\ delay' = [delay EXCEPT ![t] = d]
        /\ left' = [left EXCEPT ![t] = d]
        /\ queue' = Append(queue, t)
  BY DEF Arm
<1>2. UNCHANGED hostVars
  BY DEF Arm
<1>3. /\ kind' \in [Timer -> {"none", "once", "timeout", "interval"}]
      /\ delay' \in [Timer -> Delay] /\ left' \in [Timer -> Delay]
      /\ \A u \in Timer : u # t => kind'[u] = kind[u]
  BY <1>1 DEF TypeOK
<1>4. ~Has(queue, t) /\ firing # t
  BY <1>1 DEF Over, Tickers, Has
<1>5. /\ queue' \in Seq(Timer) /\ OnceEach(queue')
      /\ \A u : Has(queue', u) <=> Has(queue, u) \/ u = t
  BY <1>1, <1>4, AppendHas DEF TypeOK, TickersPlaced
<1>6. TypeOK'
  BY <1>1, <1>2, <1>3, <1>5 DEF TypeOK, hostVars
<1>7. TickersPlaced'
  <2>1. firing' = firing /\ phase' = phase /\ call' = call
    BY <1>2 DEF hostVars
  <2>2. firing \in armed => kind'[firing] = kind[firing]
    BY <1>3, <1>4 DEF TypeOK
  <2> QED BY <1>1, <1>4, <1>5, <2>1, <2>2 DEF TickersPlaced
<1> QED BY <1>6, <1>7

(* The ticker at the head of the queue looks at the clock. *)
LEMMA PollIInv ==
  ASSUME IInv, NEW t \in Timer, PollGone(t) \/ PollEarly(t) \/ PollFires(t)
  PROVE  IInv'
<1> USE DEF IInv
<1>1. /\ phase = "jobs" /\ queue # <<>> /\ t = Head(queue) /\ firing = 0
  BY DEF PollGone, PollEarly, PollFires, PollHead, TickersPlaced
<1>2. /\ Tail(queue) \in Seq(Timer) /\ t \in Timer
      /\ OnceEach(Tail(queue))
      /\ \A u : Has(Tail(queue), u) <=> Has(queue, u) /\ u # t
  BY <1>1, TailHas DEF TypeOK, TickersPlaced
<1>3. CASE PollGone(t)
  <2>1. TypeOK'
    BY <1>2, <1>3 DEF PollGone, TypeOK, timerVars, hostVars
  <2>2. TickersPlaced'
    BY <1>1, <1>2, <1>3 DEF PollGone, TickersPlaced, timerVars, hostVars
  <2> QED BY <2>1, <2>2
<1>4. CASE PollEarly(t)
  <2>1. /\ queue' \in Seq(Timer) /\ OnceEach(queue')
        /\ \A u : Has(queue', u) <=> Has(queue, u)
    <3>1. queue' = Append(Tail(queue), Head(queue))
      BY <1>1, <1>4 DEF PollEarly
    <3> QED BY <1>1, <3>1, RotateHas DEF TypeOK, TickersPlaced
  <2>2. TypeOK'
    BY <1>4, <2>1 DEF PollEarly, TypeOK, timerVars, hostVars
  <2>3. TickersPlaced'
    BY <1>1, <1>4, <2>1 DEF PollEarly, TickersPlaced, timerVars, hostVars
  <2> QED BY <2>2, <2>3
<1>5. CASE PollFires(t)
  <2>1. TypeOK'
    BY <1>2, <1>5 DEF PollFires, TypeOK
  <2>2. TickersPlaced'
    <3>1. /\ queue' = Tail(queue) /\ firing' = t /\ phase' = "fn" /\ kind' = kind
          /\ armed' \subseteq armed /\ (t \in armed' => kind[t] = "interval")
            /\ call' = call
      BY <1>5 DEF PollFires
    <3>2. t # 0
      BY DEF Timer
    <3>3. \A u \in armed : Has(queue, u)
      BY <1>1, <1>2 DEF TickersPlaced, TypeOK
    <3>4. \A u \in armed' : Has(queue', u) \/ u = t
      BY <1>2, <3>1, <3>3
    <3>5. OnceEach(queue') /\ ~Has(queue', t)
      BY <1>2, <3>1
    <3> QED BY <1>1, <3>1, <3>2, <3>4, <3>5 DEF TickersPlaced
  <2> QED BY <2>1, <2>2
<1> QED BY <1>3, <1>4, <1>5

(* The function of a timer ends; an interval's ticker goes back. *)
LEMMA FunctionEndsIInv ==
  ASSUME IInv, FunctionEnds
  PROVE  IInv'
<1> USE DEF IInv
<1>1. /\ phase = "fn" /\ firing # 0 /\ firing \in Timer
      /\ phase' = "jobs" /\ firing' = 0
      /\ UNCHANGED <<armed, kind, delay, call, budget, waiting>>
  BY BoundAssumption DEF FunctionEnds, TickersPlaced, TypeOK, Timer
<1>2. CASE kind[firing] = "interval"
  <2>1. queue' = Append(queue, firing) /\ left' = [left EXCEPT ![firing] = delay[firing]]
    BY <1>2 DEF FunctionEnds
  <2>2. /\ queue' \in Seq(Timer) /\ OnceEach(queue')
        /\ \A u : Has(queue', u) <=> Has(queue, u) \/ u = firing
    BY <1>1, <2>1, AppendHas DEF TypeOK, TickersPlaced
  <2>3. left' \in [Timer -> Delay]
    BY <1>1, <2>1 DEF TypeOK
  <2>4. TypeOK'
    BY <1>1, <2>2, <2>3 DEF TypeOK
  <2>5. TickersPlaced'
    BY <1>1, <2>2 DEF TickersPlaced, TypeOK
  <2> QED BY <2>4, <2>5
<1>3. CASE kind[firing] # "interval"
  <2>1. queue' = queue /\ left' = left /\ firing \notin armed
    BY <1>3 DEF FunctionEnds, TickersPlaced
  <2>2. TypeOK'
    BY <1>1, <2>1 DEF TypeOK
  <2>3. TickersPlaced'
    BY <1>1, <2>1 DEF TickersPlaced, TypeOK
  <2> QED BY <2>2, <2>3
<1> QED BY <1>2, <1>3

LEMMA StepIInv == IInv /\ [Next]_vars => IInv'
<1> SUFFICES ASSUME IInv, [Next]_vars PROVE IInv'
  OBVIOUS
<1>1. ASSUME NEW d \in Delay, SetTimeout(d) \/ SetInterval(d) PROVE IInv'
  BY <1>1, ArmIInv DEF SetTimeout, SetInterval
<1>2. CASE SetImmediate
  BY <1>2, ArmIInv, BoundAssumption DEF SetImmediate, Delay
<1>3. ASSUME NEW t \in Timer, Clear(t) PROVE IInv'
  BY <1>3 DEF Clear, IInv, TypeOK, TickersPlaced, hostVars
<1>4. ASSUME NEW t \in Timer, PollGone(t) \/ PollEarly(t) \/ PollFires(t) PROVE IInv'
  BY <1>4, PollIInv
<1>5. CASE FunctionEnds
  BY <1>5, FunctionEndsIInv
<1>6. CASE \/ StartOperation \/ JobsEnd \/ ScriptEnds \/ Return \/ RunAsyncGoesOn
           \/ \E completed \in BOOLEAN : ProcessIo(completed)
           \/ \E c \in {"eval", "run_async", "tick"}, timeout \in Delay : BeginCall(c, timeout)
           \/ UNCHANGED vars
  <2>1. /\ UNCHANGED <<timerVars, queue, firing>>
        /\ phase' \in {"out", "script", "process", "jobs", "fn", "check"}
        /\ call' \in {"none", "eval", "run_async", "tick"}
        /\ budget' \in Delay /\ waiting' \in BOOLEAN
        /\ phase' = "fn" <=> phase = "fn"
        /\ call' = "none" <=> phase' = "out"
    <3>1. ASSUME NEW completed \in BOOLEAN, ProcessIo(completed) PROVE <2>1!:
      BY <3>1 DEF ProcessIo, IInv, TypeOK, TickersPlaced
    <3>2. ASSUME NEW c \in {"eval", "run_async", "tick"}, NEW timeout \in Delay,
                 BeginCall(c, timeout)
          PROVE <2>1!:
      BY <3>2, BoundAssumption DEF BeginCall, IInv, TypeOK, TickersPlaced, Delay
    <3>3. CASE StartOperation
      BY <3>3 DEF StartOperation, IInv, TypeOK, TickersPlaced
    <3>4. CASE JobsEnd \/ ScriptEnds
      BY <3>4 DEF JobsEnd, ScriptEnds, IInv, TypeOK, TickersPlaced
    <3>5. CASE Return \/ RunAsyncGoesOn
      BY <3>5 DEF Return, RunAsyncGoesOn, IInv, TypeOK, TickersPlaced
    <3>6. CASE UNCHANGED vars
      BY <3>6 DEF vars, hostVars, IInv, TypeOK, TickersPlaced
    <3> QED BY <1>6, <3>1, <3>2, <3>3, <3>4, <3>5, <3>6
  <2> QED BY <2>1 DEF IInv, TypeOK, TickersPlaced, timerVars
<1>7. CASE TimePasses
  <2>1. left' \in [Timer -> Delay] /\ budget' \in Delay
    BY <1>7, BoundAssumption DEF TimePasses, Less, IInv, TypeOK, Delay
  <2> QED BY <1>7, <2>1 DEF TimePasses, IInv, TypeOK, TickersPlaced
<1> QED BY <1>1, <1>2, <1>3, <1>4, <1>5, <1>6, <1>7 DEF Next, HostStep, ScriptStep

LEMMA Invariance == Spec => []IInv
<1> QED BY InitIInv, StepIInv, PTL DEF Spec

-----------------------------------------------------------------------------
(* Every variable keeps its type: the queue holds timers that exist.       *)
THEOREM TypeCorrect == Spec => []TypeOK
<1>1. IInv => TypeOK
  BY DEF IInv
<1> QED BY <1>1, Invariance, PTL

(* An armed timer has one ticker, never none and never two, whatever the   *)
(* functions of timers arm and clear.                                      *)
THEOREM TickersAreOne == Spec => []OneTicker
<1>1. IInv => OneTicker
  BY InvariantImplies
<1> QED BY <1>1, Invariance, PTL
=============================================================================
