---------------------------- MODULE PollingTimers ----------------------------
(***************************************************************************)
(* The global setTimeout, setInterval and setImmediate of an instance      *)
(* (register_nodejs_globals in src/src/runtime.rs), and what they do to    *)
(* the calls that run microtasks.  There is no timer queue: a timer is a   *)
(* microtask that looks at the clock and, until its time has come, queues  *)
(* itself again.  The queue is run until it is empty (run_jobs), so a call *)
(* of the host stays in run_jobs as long as a timer is armed.              *)
(*                                                                         *)
(* Time is kept as the time left, so that it may pass without bound.  The  *)
(* identifiers of the code only grow; here one that nothing holds any more *)
(* is given out again, so that timers may be armed without bound too, and  *)
(* the bound is on those that are there at once.                           *)
(***************************************************************************)
EXTENDS Naturals, Sequences

CONSTANTS
  MaxTimers,  \* bound: timers at one time
  MaxDelay    \* bound: longest delay, and longest timeout of run_async

ASSUME BoundAssumption == MaxTimers \in Nat /\ MaxDelay \in Nat

Timer == 1 .. MaxTimers
Delay == 0 .. MaxDelay

VARIABLES
  armed,    \* __koss_timers__.map: timers neither fired nor cleared
  kind,     \* kind[t]: "once" is setImmediate, and setTimeout without delay
  delay,    \* delay[t]
  left,     \* left[t]: time until the timer is due
  queue,    \* the microtask queue: the timers whose ticker is in it
  call,     \* the API call the host is in
  phase,    \* where in it the host's thread is
  firing,   \* the timer whose function runs, 0 if none
  budget,   \* time until run_async's deadline
  waiting   \* a promise of an I/O operation is pending

timerVars == <<armed, kind, delay, left>>
hostVars == <<call, phase, firing, budget, waiting>>
vars == <<timerVars, queue, hostVars>>

TypeOK ==
  /\ armed \subseteq Timer
  /\ kind \in [Timer -> {"none", "once", "timeout", "interval"}]
  /\ delay \in [Timer -> Delay]
  /\ left \in [Timer -> Delay]
  /\ queue \in Seq(Timer)
  /\ call \in {"none", "eval", "run_async", "tick"}
  /\ phase \in {"out", "script", "process", "jobs", "fn", "check"}
  /\ firing \in Timer \cup {0}
  /\ budget \in Delay
  /\ waiting \in BOOLEAN

Init ==
  /\ armed = {}
  /\ kind = [t \in Timer |-> "none"]
  /\ delay = [t \in Timer |-> 0]
  /\ left = [t \in Timer |-> 0]
  /\ queue = <<>>
  /\ call = "none" /\ phase = "out" /\ firing = 0 /\ budget = 0
  /\ waiting = FALSE

-----------------------------------------------------------------------------
(* The script: code given to the host's call, or the function of a timer *)

InScript == phase \in {"script", "fn"}

(* A timer neither armed nor queued nor running its function is over.      *)
Tickers(t) == {i \in 1 .. Len(queue) : queue[i] = t}
Over(t) == t \notin armed /\ Tickers(t) = {} /\ firing # t

(* Any identifier that is over may be the new one; the first stands for it.*)
Arm(k, d) ==
  /\ InScript
  /\ \E t \in Timer :
       /\ Over(t) /\ \A u \in 1 .. t - 1 : ~Over(u)
       /\ armed' = armed \cup {t}
       /\ kind' = [kind EXCEPT ![t] = k]
       /\ delay' = [delay EXCEPT ![t] = d]
       /\ left' = [left EXCEPT ![t] = d]
       /\ queue' = Append(queue, t)
  /\ UNCHANGED hostVars

SetTimeout(d) == Arm(IF d = 0 THEN "once" ELSE "timeout", d)
SetInterval(d) == Arm("interval", d)
SetImmediate == Arm("once", 0)

(* clearTimeout, clearInterval and clearImmediate: one map for all kinds. *)
Clear(t) ==
  /\ InScript
  /\ armed' = armed \ {t}
  /\ UNCHANGED <<kind, delay, left, queue, hostVars>>

(* An I/O operation is started. *)
StartOperation ==
  /\ InScript
  /\ waiting' = TRUE
  /\ UNCHANGED <<timerVars, queue, call, phase, firing, budget>>

-----------------------------------------------------------------------------
(* run_jobs: the ticker at the head of the queue *)

PollHead(t) == phase = "jobs" /\ queue # <<>> /\ Head(queue) = t

Due(t) == kind[t] = "once" \/ left[t] = 0

(* Mistake: a cleared timer goes on looking at the clock. *)
PollGoneAgain(t) ==
  /\ PollHead(t)
  /\ t \notin armed
  /\ queue' = Append(Tail(queue), t)
  /\ UNCHANGED <<timerVars, hostVars>>

PollGone(t) ==
  /\ PollHead(t)
  /\ t \notin armed
  /\ queue' = Tail(queue)
  /\ UNCHANGED <<timerVars, hostVars>>

(* Mistake: a ticker that is not due is not queued again. *)
PollEarlyDropped(t) ==
  /\ PollHead(t)
  /\ t \in armed /\ ~Due(t)
  /\ queue' = Tail(queue)
  /\ UNCHANGED <<timerVars, hostVars>>

PollEarly(t) ==
  /\ PollHead(t)
  /\ t \in armed /\ ~Due(t)
  /\ queue' = Append(Tail(queue), t)
  /\ UNCHANGED <<timerVars, hostVars>>

(* Mistake: a timeout stays in the map when it has fired. *)
PollFiresStaysArmed(t) ==
  /\ PollHead(t)
  /\ t \in armed /\ Due(t)
  /\ queue' = Tail(queue)
  /\ phase' = "fn" /\ firing' = t
  /\ UNCHANGED <<timerVars, call, budget, waiting>>

(* A timeout leaves the map before its function runs, an interval stays.   *)
PollFires(t) ==
  /\ PollHead(t)
  /\ t \in armed /\ Due(t)
  /\ queue' = Tail(queue)
  /\ armed' = IF kind[t] = "interval" THEN armed ELSE armed \ {t}
  /\ phase' = "fn" /\ firing' = t
  /\ UNCHANGED <<kind, delay, left, call, budget, waiting>>

(* The function returns or throws, which is ignored.  An interval counts   *)
(* from here, and is queued again even if the function cleared it.         *)
FunctionEnds ==
  /\ phase = "fn"
  /\ phase' = "jobs" /\ firing' = 0
  /\ IF kind[firing] = "interval"
     THEN /\ left' = [left EXCEPT ![firing] = delay[firing]]
          /\ queue' = Append(queue, firing)
     ELSE UNCHANGED <<left, queue>>
  /\ UNCHANGED <<armed, kind, delay, call, budget, waiting>>

JobsEnd ==
  /\ phase = "jobs" /\ queue = <<>>
  /\ phase' = "check"
  /\ UNCHANGED <<timerVars, queue, call, firing, budget, waiting>>

-----------------------------------------------------------------------------
(* The host *)

(* koss_eval leaves the microtasks for a later call. *)
BeginCall(c, timeout) ==
  /\ call = "none"
  /\ call' = c
  /\ phase' = IF c = "tick" THEN "process" ELSE "script"
  /\ budget' = IF c = "run_async" THEN timeout ELSE 0
  /\ UNCHANGED <<timerVars, queue, firing, waiting>>

ScriptEnds ==
  /\ phase = "script"
  /\ IF call = "eval" THEN call' = "none" /\ phase' = "out"
                      ELSE phase' = "process" /\ UNCHANGED call
  /\ UNCHANGED <<timerVars, queue, firing, budget, waiting>>

(* process_io_results: the pending operation may have completed. *)
ProcessIo(completed) ==
  /\ phase = "process"
  /\ waiting' = (waiting /\ ~completed)
  /\ phase' = "jobs"
  /\ UNCHANGED <<timerVars, queue, call, firing, budget>>

(* A tick ends after one round; run_async when nothing is pending or the   *)
(* deadline has passed, which it looks at only here.                       *)
Return ==
  /\ phase = "check"
  /\ call = "run_async" => ~waiting \/ budget = 0
  /\ call' = "none" /\ phase' = "out"
  /\ UNCHANGED <<timerVars, queue, firing, budget, waiting>>

RunAsyncGoesOn ==
  /\ phase = "check" /\ call = "run_async"
  /\ waiting /\ budget > 0
  /\ phase' = "process"
  /\ UNCHANGED <<timerVars, queue, call, firing, budget, waiting>>

Less(n) == IF n = 0 THEN 0 ELSE n - 1

(* Time passes, whatever the host's thread does. *)
TimePasses ==
  /\ left' = [t \in Timer |-> Less(left[t])]
  /\ budget' = Less(budget)
  /\ UNCHANGED <<armed, kind, delay, queue, call, phase, firing, waiting>>

-----------------------------------------------------------------------------
HostStep ==
  \/ \E t \in Timer : PollGone(t) \/ PollEarly(t) \/ PollFires(t)
  \/ FunctionEnds
  \/ JobsEnd
  \/ ScriptEnds
  \/ \E completed \in BOOLEAN : ProcessIo(completed)
  \/ Return
  \/ RunAsyncGoesOn

ScriptStep ==
  \/ \E d \in Delay : SetTimeout(d) \/ SetInterval(d)
  \/ SetImmediate
  \/ \E t \in Timer : Clear(t)
  \/ StartOperation

Next ==
  \/ HostStep
  \/ ScriptStep
  \/ \E c \in {"eval", "run_async", "tick"}, timeout \in Delay : BeginCall(c, timeout)
  \/ TimePasses

Spec == Init /\ [][Next]_vars

(***************************************************************************)
(* Time passes, the host's thread runs on inside a call (a function of the *)
(* script returns in the end), and the host calls koss_tick again and      *)
(* again whatever else it calls.                                           *)
(***************************************************************************)
FairSpec ==
  /\ Spec
  /\ WF_vars(TimePasses)
  /\ WF_vars(HostStep)
  /\ SF_vars(BeginCall("tick", 0))

-----------------------------------------------------------------------------
(* Properties *)

(***************************************************************************)
(* An armed timer has one ticker, in the queue or, for an interval whose   *)
(* function runs, in hand: it is never lost, and never runs twice as fast, *)
(* whatever the functions of timers arm and clear.                         *)
(***************************************************************************)
OneTicker ==
  \A t \in Timer :
    /\ \A i, j \in Tickers(t) : i = j
    /\ t \in armed => (Tickers(t) # {} <=> firing # t)
    /\ firing = t => Tickers(t) = {}

(***************************************************************************)
(* A timer that is due fires, or is cleared, while the host ticks.         *)
(***************************************************************************)
DueFires ==
  \A t \in Timer :
    (t \in armed /\ Due(t)) ~> (firing = t \/ t \notin armed)

(***************************************************************************)
(* koss_run_async returns if in the end no interval is armed and the       *)
(* functions of timers arm no more: a timeout delays it until it has fired.*)
(* Both conditions matter, since a function that arms a timer each time it *)
(* runs keeps the queue as full as an interval does.                       *)
(***************************************************************************)
NoInterval == \A t \in armed : kind[t] # "interval"
FunctionArms == phase = "fn" /\ ~(armed' \subseteq armed)

ReturnsWhenTimersEnd ==
  <>[]NoInterval /\ <>[][~FunctionArms]_vars => (call = "run_async" ~> call = "none")

(***************************************************************************)
(* What the comment of koss_run_async says: it drives the loop until the   *)
(* pending operations complete or the timeout is reached.                  *)
(***************************************************************************)
RunAsyncReturns == call = "run_async" ~> call = "none"
=============================================================================
