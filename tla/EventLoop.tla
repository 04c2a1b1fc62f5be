------------------------------ MODULE EventLoop ------------------------------
(***************************************************************************)
(* The asynchronous side of an instance: KossEventLoop with the calls that *)
(* drive it (koss_eval, koss_run_async, koss_tick in src/src/runtime.rs),  *)
(* fetches served by the loop's own tokio runtime, and FFI calls and       *)
(* closeAsync of a library (src/src/_senri_ffi), whose calls run on        *)
(* threads of their own.                                                   *)
(*                                                                         *)
(* The host's thread runs everything but the FFI threads, and those touch  *)
(* the rest only through the channel of results and the counter of active  *)
(* calls.  The second channel, for callbacks, stays empty: no parameter a  *)
(* script declares is ever a callback (FfiCalls, Types).                   *)
(*                                                                         *)
(* The tokio runtime has one thread, the host's: its tasks make progress   *)
(* only inside process_io_results (phase "drive").                         *)
(***************************************************************************)
EXTENDS Naturals, Sequences, FiniteSets

CONSTANTS
  MaxOps,       \* bound: operations started
  MaxRounds     \* rounds of run_async's loop (max_iterations)

ASSUME BoundAssumption == MaxOps \in Nat /\ MaxRounds \in Nat

(* Operations are named by the id of their promise.  An FFI call also has  *)
(* a task id, of a counter of its own, which names nothing else.           *)
Op == 1 .. MaxOps

Call == {"none", "eval", "run_async", "tick", "destroyed"}
Phase == {"out", "script", "process", "drive", "results", "jobs", "check"}
Kind == {"none", "fetch", "ffi", "close"}

(***************************************************************************)
(* What serves an operation: a tokio task ("running" until its result is   *)
(* sent) or a thread ("running", then "returned" between leaving the       *)
(* native function and sending the result).  "unspawned" is a thread that  *)
(* could not be created.                                                   *)
(***************************************************************************)
Worker == {"none", "unspawned", "running", "returned", "done"}

VARIABLES
  call,       \* the API call the host is in
  phase,      \* where in it the host's thread is
  round,      \* iterations of run_async's loop
  nextId,     \* next_promise_id
  kind,       \* kind[op]
  worker,     \* worker[op]
  active,     \* the library's active_async_tasks
  closed,     \* the library's closed flag
  haveFn,     \* the script holds a function of funcAsync
  pending,    \* pending: promises with stored resolvers
  ioq,        \* the io channel
  asyncTasks, \* async_tasks
  settled,    \* operations whose promise was resolved or rejected
  jobs,       \* microtasks queued
  said        \* what koss_tick or koss_run_async returned last

hostVars == <<call, phase, round, said>>
libVars == <<active, closed, haveFn>>
opVars == <<nextId, kind, worker, pending, asyncTasks>>
vars == <<hostVars, libVars, opVars, ioq, settled, jobs>>

TypeOK ==
  /\ call \in Call
  /\ phase \in Phase
  /\ round \in 0 .. MaxRounds
  /\ nextId \in 1 .. MaxOps + 1
  /\ kind \in [Op -> Kind]
  /\ worker \in [Op -> Worker]
  /\ active \in 0 .. MaxOps
  /\ closed \in BOOLEAN
  /\ haveFn \in BOOLEAN
  /\ pending \subseteq Op
  /\ ioq \in Seq(Op)
  /\ asyncTasks \subseteq Op
  /\ settled \subseteq Op
  /\ jobs \in 0 .. MaxOps + 1
  /\ said \in {"none", "idle", "pending", "timed_out"}

Init ==
  /\ call = "none" /\ phase = "out" /\ round = 0 /\ said = "none"
  /\ nextId = 1
  /\ kind = [op \in Op |-> "none"]
  /\ worker = [op \in Op |-> "none"]
  /\ active = 0 /\ closed = FALSE /\ haveFn = FALSE
  /\ pending = {} /\ asyncTasks = {}
  /\ ioq = <<>>
  /\ settled = {}
  /\ jobs = 0

-----------------------------------------------------------------------------
(* The script: the code given to eval or run_async, and the microtasks *)

InScript == phase = "script" \/ (phase = "jobs" /\ jobs > 0)

(* register_promise, and whatever is to serve the promise. *)
Start(k, w) ==
  /\ nextId \in Op
  /\ nextId' = nextId + 1
  /\ kind' = [kind EXCEPT ![nextId] = k]
  /\ worker' = [worker EXCEPT ![nextId] = w]
  /\ pending' = pending \cup {nextId}

(* __koss_fetch: the request is spawned on the runtime. *)
Fetch ==
  /\ InScript
  /\ Start("fetch", "running")
  /\ UNCHANGED <<hostVars, libVars, asyncTasks,
                 ioq, settled, jobs>>

(* funcAsync: refused once the library is closed. *)
FuncAsync ==
  /\ InScript
  /\ ~closed /\ ~haveFn
  /\ haveFn' = TRUE
  /\ UNCHANGED <<hostVars, active, closed, opVars, ioq, settled, jobs>>

(* A call of the function, which does not look at the closed flag. *)
CallAsync(w) ==
  /\ InScript
  /\ haveFn
  /\ Start("ffi", w)
  /\ UNCHANGED <<hostVars, closed, haveFn, ioq, settled, jobs>>

(* The thread is spawned; active_async_tasks counts it from before. *)
CallFunction ==
  /\ CallAsync("running")
  /\ active' = active + 1
  /\ asyncTasks' = asyncTasks \cup {nextId}

(* Mistake: the count is not taken back. *)
CallFunctionUnspawnedCounts ==
  /\ CallAsync("unspawned")
  /\ active' = active + 1
  /\ UNCHANGED asyncTasks

(* The thread cannot be spawned: the count and the task are taken back and *)
(* the call throws; the resolvers stay in pending.                         *)
CallFunctionUnspawned ==
  /\ CallAsync("unspawned")
  /\ UNCHANGED <<active, asyncTasks>>

(* closeAsync: a task of the runtime that waits for the active calls. *)
CloseAsync ==
  /\ InScript
  /\ closed' = TRUE
  /\ Start("close", "running")
  /\ UNCHANGED <<hostVars, active, haveFn, asyncTasks,
                 ioq, settled, jobs>>

(* The code given to eval or run_async ends, or throws, with or without a  *)
(* microtask left behind (bound: one).  eval runs no microtasks; neither   *)
(* does run_async when the code throws.                                    *)
ScriptEnds(queued, throws) ==
  /\ phase = "script"
  /\ jobs + queued <= 1
  /\ jobs' = jobs + queued
  /\ IF call = "eval" \/ throws THEN call' = "none" /\ phase' = "out"
                                ELSE phase' = "process" /\ UNCHANGED call
  /\ UNCHANGED <<round, said, libVars, opVars, ioq, settled>>

(* One microtask ends; run_jobs goes on until the queue is empty. *)
JobEnds ==
  /\ phase = "jobs" /\ jobs > 0
  /\ jobs' = jobs - 1
  /\ UNCHANGED <<hostVars, libVars, opVars, ioq, settled>>

JobsEnd ==
  /\ phase = "jobs" /\ jobs = 0
  /\ phase' = "check"
  /\ UNCHANGED <<call, round, said, libVars, opVars, ioq, settled, jobs>>

-----------------------------------------------------------------------------
(* The host: one call at a time (ApiGuard) *)

BeginCall(c) ==
  /\ call = "none"
  /\ call' = c
  /\ phase' = IF c = "tick" THEN "process" ELSE "script"
  /\ round' = 0
  /\ said' = "none"
  /\ UNCHANGED <<libVars, opVars, ioq, settled, jobs>>

(* process_io_results begins: the runtime is driven if a promise waits. *)
Process ==
  /\ phase = "process"
  /\ phase' = IF pending # {} THEN "drive" ELSE "results"
  /\ UNCHANGED <<call, round, said, libVars, opVars, ioq, settled, jobs>>

(* A task of the runtime ends and sends its result. *)
TaskSends(op) ==
  /\ worker' = [worker EXCEPT ![op] = "done"]
  /\ ioq' = Append(ioq, op)
  /\ UNCHANGED <<hostVars, libVars, nextId, kind, pending, asyncTasks, settled, jobs>>

FetchCompletes(op) ==
  /\ phase = "drive"
  /\ kind[op] = "fetch" /\ worker[op] = "running"
  /\ TaskSends(op)

(* Mistake: closeAsync does not wait. *)
CloseCompletesAtOnce(op) ==
  /\ phase = "drive"
  /\ kind[op] = "close" /\ worker[op] = "running"
  /\ TaskSends(op)

CloseCompletes(op) ==
  /\ phase = "drive"
  /\ kind[op] = "close" /\ worker[op] = "running"
  /\ active = 0
  /\ TaskSends(op)

DriveEnds ==
  /\ phase = "drive"
  /\ phase' = "results"
  /\ UNCHANGED <<call, round, said, libVars, opVars, ioq, settled, jobs>>

(* Mistake: the resolvers are looked up but not removed. *)
SettleKeepsPending ==
  /\ phase = "results" /\ ioq # <<>>
  /\ ioq' = Tail(ioq)
  /\ settled' = settled \cup {Head(ioq)}
  /\ jobs' = jobs + 1
  /\ UNCHANGED <<hostVars, libVars, opVars>>

(* A result settles its promise, whose reactions become a microtask. *)
Settle ==
  /\ phase = "results" /\ ioq # <<>>
  /\ ioq' = Tail(ioq)
  /\ LET op == Head(ioq) IN
       IF op \in pending
       THEN /\ pending' = pending \ {op}
            /\ settled' = settled \cup {op}
            /\ jobs' = jobs + 1
       ELSE UNCHANGED <<pending, settled, jobs>>
  /\ UNCHANGED <<hostVars, libVars, nextId, kind, worker, asyncTasks>>

ResultsSettled ==
  /\ phase = "results" /\ ioq = <<>>
  /\ phase' = "jobs"
  /\ UNCHANGED <<call, round, said, libVars, opVars, ioq, settled, jobs>>

Return(result) ==
  /\ call' = "none" /\ phase' = "out"
  /\ said' = result
  /\ UNCHANGED <<round, libVars, opVars, ioq, settled, jobs>>

(* Mistake: "idle" once the channel is drained. *)
TickReturnsDrained ==
  /\ phase = "check" /\ call = "tick"
  /\ Return(IF ioq = <<>> THEN "idle" ELSE "pending")

(* koss_tick tells whether promises wait. *)
TickReturns ==
  /\ phase = "check" /\ call = "tick"
  /\ Return(IF pending = {} THEN "idle" ELSE "pending")

(* koss_run_async ends when none waits, *)
RunAsyncIdle ==
  /\ phase = "check" /\ call = "run_async"
  /\ pending = {}
  /\ Return("idle")

(* or at its deadline, which may come at any round, or its last round, *)
RunAsyncTimesOut ==
  /\ phase = "check" /\ call = "run_async"
  /\ pending # {}
  /\ Return("timed_out")

(* Mistake: neither the rounds nor the deadline end the loop. *)
RunAsyncGoesOnForever ==
  /\ phase = "check" /\ call = "run_async"
  /\ pending # {}
  /\ phase' = "process"
  /\ UNCHANGED <<call, round, said, libVars, opVars, ioq, settled, jobs>>

(* and goes on otherwise. *)
RunAsyncGoesOn ==
  /\ phase = "check" /\ call = "run_async"
  /\ pending # {} /\ round < MaxRounds
  /\ round' = round + 1
  /\ phase' = "process"
  /\ UNCHANGED <<call, said, libVars, opVars, ioq, settled, jobs>>

(* koss_destroy drops the loop: the tasks of the runtime are cancelled,    *)
(* and the receiver closed: a thread still in native code returns later.   *)
Destroy ==
  /\ call = "none"
  /\ call' = "destroyed"
  /\ worker' = [op \in Op |->
       IF kind[op] \in {"fetch", "close"} THEN "done" ELSE worker[op]]
  /\ pending' = {} /\ asyncTasks' = {}
  /\ ioq' = <<>>
  /\ jobs' = 0
  /\ UNCHANGED <<phase, round, said, libVars, nextId, kind,
                 settled>>

-----------------------------------------------------------------------------
(* The FFI threads *)

(* The native function returns: active_async_tasks is counted down, *)
ThreadReturns(op) ==
  /\ kind[op] = "ffi" /\ worker[op] = "running"
  /\ worker' = [worker EXCEPT ![op] = "returned"]
  /\ active' = active - 1
  /\ UNCHANGED <<hostVars, closed, haveFn, nextId, kind, pending,
                 asyncTasks, ioq, settled, jobs>>

(* Mistake: the result is not sent when it is an error. *)
ThreadReportsSuccessOnly(op) ==
  /\ kind[op] = "ffi" /\ worker[op] = "returned"
  /\ worker' = [worker EXCEPT ![op] = "done"]
  /\ ioq' \in {ioq, Append(ioq, op)}
  /\ UNCHANGED <<hostVars, libVars, nextId, kind, pending, asyncTasks, settled, jobs>>

(* and the result is sent; the task's entry stays in async_tasks. *)
ThreadReports(op) ==
  /\ kind[op] = "ffi" /\ worker[op] = "returned"
  /\ worker' = [worker EXCEPT ![op] = "done"]
  /\ ioq' = IF call = "destroyed" THEN ioq ELSE Append(ioq, op)
  /\ UNCHANGED <<hostVars, libVars, nextId, kind, pending, asyncTasks, settled, jobs>>

(* The instance is gone and its threads have ended: nothing is left to run. *)
Finished ==
  /\ call = "destroyed"
  /\ \A op \in Op : worker[op] \in {"none", "unspawned", "done"}
  /\ UNCHANGED vars

-----------------------------------------------------------------------------
HostStep ==
  \/ \E queued \in {0, 1}, throws \in BOOLEAN : ScriptEnds(queued, throws)
  \/ JobEnds \/ JobsEnd
  \/ Process \/ DriveEnds
  \/ Settle \/ ResultsSettled
  \/ TickReturns \/ RunAsyncIdle \/ RunAsyncTimesOut \/ RunAsyncGoesOn

ScriptStep ==
  \/ Fetch \/ CloseAsync \/ CallFunction \/ CallFunctionUnspawned \/ FuncAsync

Next ==
  \/ \E c \in {"eval", "run_async", "tick"} : BeginCall(c)
  \/ HostStep
  \/ ScriptStep
  \/ Destroy
  \/ \E op \in Op : FetchCompletes(op) \/ CloseCompletes(op)
  \/ \E op \in Op : ThreadReturns(op) \/ ThreadReports(op)
  \/ Finished

Spec == Init /\ [][Next]_vars

(***************************************************************************)
(* The host's thread runs on inside a call, and calls koss_tick again and  *)
(* again whatever else it calls; native functions return and threads run;  *)
(* a fetch ends (it has a timeout of its own), and a task that is ready is *)
(* polled when the runtime is driven again and again.                      *)
(***************************************************************************)
FairSpec ==
  /\ Spec
  /\ WF_vars(HostStep)
  /\ SF_vars(BeginCall("tick"))
  /\ \A op \in Op :
       /\ WF_vars(ThreadReturns(op))
       /\ WF_vars(ThreadReports(op))
       /\ SF_vars(FetchCompletes(op))
       /\ SF_vars(CloseCompletes(op))

-----------------------------------------------------------------------------
(* Properties *)

InQueue(op, queue) == {i \in 1 .. Len(queue) : queue[i] = op}
InNative(op) == kind[op] = "ffi" /\ worker[op] \in {"running"}
Served(op) == worker[op] \in {"running", "returned"}

(***************************************************************************)
(* A promise waits exactly while something will settle it: its task or     *)
(* thread is still at work, or its result is in the channel, once.  Only a *)
(* call whose thread could not be spawned waits for nothing.               *)
(***************************************************************************)
PendingHasSource ==
  \A op \in Op : call # "destroyed" =>
    /\ op \in pending <=>
         worker[op] = "unspawned" \/ Served(op) \/ InQueue(op, ioq) # {}
    /\ \A i, j \in InQueue(op, ioq) : i = j
    /\ InQueue(op, ioq) # {} => worker[op] = "done"
    /\ op \in settled => op \notin pending

(***************************************************************************)
(* active_async_tasks counts the native calls in progress, through failed  *)
(* spawns and the destruction of the instance.                             *)
(***************************************************************************)
ActiveExact == active = Cardinality({op \in Op : InNative(op)})

(***************************************************************************)
(* closeAsync reports "closed" only when every call begun before it has    *)
(* left the library.                                                       *)
(***************************************************************************)
CloseWaitsForEarlierCalls ==
  \A c, op \in Op :
    kind[c] = "close" /\ c \in settled /\ op < c => ~InNative(op)

(***************************************************************************)
(* A host that is told "idle" may stop ticking: no task, thread or result  *)
(* is left behind.  (It may be told "pending" when nothing is: a call      *)
(* whose thread could not be spawned leaves its resolvers.)                *)
(***************************************************************************)
IdleIsIdle ==
  (call = "none" /\ said = "idle") =>
    \A op \in Op : ~Served(op) /\ InQueue(op, ioq) = {}

(***************************************************************************)
(* While the host goes on ticking, whatever was spawned is settled.        *)
(***************************************************************************)
SpawnedIsSettled ==
  \A op \in Op : Served(op) ~> (op \in settled \/ call = "destroyed")

(***************************************************************************)
(* koss_run_async returns, also when a promise is left that nothing will   *)
(* settle.                                                                 *)
(***************************************************************************)
RunAsyncReturns == call = "run_async" ~> call # "run_async"
=============================================================================
