------------------------------- MODULE NapiEnv -------------------------------
(***************************************************************************)
(* The environment of an addon, NapiEnv of src/src/napi/env.rs, and the    *)
(* asynchronous works of async_work.rs and async_runtime.rs.  What native  *)
(* code does with values is the subject of Napi; the message               *)
(* napi_get_and_clear_last_exception makes is a value like any other.      *)
(***************************************************************************)
EXTENDS Naturals, Sequences, FiniteSets

CONSTANTS
  Datum,     \* pointers of the addon; 0 is null
  MaxScopes, \* bound: scopes open
  MaxWorks   \* bound: asynchronous works created

Work == 1 .. MaxWorks
Scope == {"handle", "callback"}

VARIABLES
  error,    \* last_error is there
  scopes,   \* open_handle_scopes, open_callback_scopes
  mismatch, \* a scope was closed that was not open
  instance, \* instance_data
  work,     \* work[w]: where asynchronous work w is
  queued,   \* async_work_count
  threads,  \* threads in an execute function, by the work they were made for
  queue,    \* completions, oldest first
  drained   \* works whose completion was taken, oldest first

vars == <<error, scopes, mismatch, instance, work, queued, threads, queue, drained>>

TypeOK ==
  /\ error \in BOOLEAN /\ mismatch \in BOOLEAN
  /\ scopes \in [Scope -> 0 .. MaxScopes]
  /\ instance \in Datum \cup {0}
  /\ work \in [Work -> {"none", "created", "queued", "deleted", "queued_deleted"}]
  /\ queued \in 0 .. MaxWorks
  /\ threads \subseteq Work
  /\ queue \in Seq(Work) /\ drained \in Seq(Work)

Init ==
  /\ error = FALSE /\ mismatch = FALSE
  /\ scopes = [s \in Scope |-> 0]
  /\ instance = 0
  /\ work = [w \in Work |-> "none"] /\ queued = 0
  /\ threads = {} /\ queue = <<>> /\ drained = <<>>

-----------------------------------------------------------------------------
(* napi_throw and napi_throw_error: the exception is pending until it is   *)
(* asked for; the script's call returns as if nothing were.                *)
Throw ==
  /\ error' = TRUE
  /\ UNCHANGED <<scopes, mismatch, instance, work, queued, threads, queue, drained>>

GetAndClear ==
  /\ error' = FALSE
  /\ UNCHANGED <<scopes, mismatch, instance, work, queued, threads, queue, drained>>

(* Scopes are counted, and nothing else: closing one does not free what    *)
(* was made in it.                                                         *)
OpenScope(s) ==
  /\ scopes[s] < MaxScopes
  /\ scopes' = [scopes EXCEPT ![s] = @ + 1]
  /\ UNCHANGED <<error, mismatch, instance, work, queued, threads, queue, drained>>

CloseScope(s) ==
  /\ IF scopes[s] > 0
     THEN scopes' = [scopes EXCEPT ![s] = @ - 1] /\ UNCHANGED mismatch
     ELSE mismatch' = TRUE /\ UNCHANGED scopes
  /\ UNCHANGED <<error, instance, work, queued, threads, queue, drained>>

(* The old data is dropped without its finalizer. *)
SetInstanceData(d) ==
  /\ instance' = d
  /\ UNCHANGED <<error, scopes, mismatch, work, queued, threads, queue, drained>>

-----------------------------------------------------------------------------
CreateAsyncWork(w) ==
  /\ work[w] = "none"
  /\ w > 1 => work[w - 1] # "none"
  /\ work' = [work EXCEPT ![w] = "created"]
  /\ UNCHANGED <<error, scopes, mismatch, instance, queued, threads, queue, drained>>

(* A new thread gets its own copies of the functions and of the data. *)
QueueAsyncWork(w) ==
  /\ work[w] = "created"
  /\ work' = [work EXCEPT ![w] = "queued"]
  /\ threads' = threads \cup {w}
  /\ queued' = queued + 1
  /\ UNCHANGED <<error, scopes, mismatch, instance, queue, drained>>

(* Whether it was queued or not, and whatever its thread does. *)
DeleteAsyncWork(w) ==
  /\ work[w] \in {"created", "queued"}
  /\ work' = [work EXCEPT ![w] = IF @ = "created" THEN "deleted" ELSE "queued_deleted"]
  /\ UNCHANGED <<error, scopes, mismatch, instance, queued, threads, queue, drained>>

(* The thread: execute returns, and the completion is queued. *)
Executed(w) ==
  /\ w \in threads
  /\ threads' = threads \ {w}
  /\ queue' = Append(queue, w)
  /\ UNCHANGED <<error, scopes, mismatch, instance, work, queued, drained>>

(* Mistake: the completions are read and left in the queue. *)
DrainKeeping ==
  /\ queue # <<>> /\ Len(drained) <= MaxWorks
  /\ drained' = drained \o queue
  /\ UNCHANGED <<error, scopes, mismatch, instance, work, queued, threads, queue>>

(* drain_async_completions takes all there are, the oldest first.          *)
Drain ==
  /\ queue # <<>>
  /\ queue' = <<>>
  /\ drained' = drained \o queue
  /\ UNCHANGED <<error, scopes, mismatch, instance, work, queued, threads>>

Next ==
  \/ Throw \/ GetAndClear
  \/ \E s \in Scope : OpenScope(s) \/ CloseScope(s)
  \/ \E d \in Datum : SetInstanceData(d)
  \/ \E w \in Work : CreateAsyncWork(w) \/ QueueAsyncWork(w) \/ DeleteAsyncWork(w) \/ Executed(w)
  \/ Drain

Spec == Init /\ [][Next]_vars

-----------------------------------------------------------------------------
(***************************************************************************)
(* Every work that was queued is in exactly one place, once: with its      *)
(* thread, in the queue, or drained; deleting it meanwhile loses nothing.  *)
(***************************************************************************)
WorksCompleteOnce ==
  LET finished == drained \o queue
  IN /\ \A i, j \in DOMAIN finished : i # j => finished[i] # finished[j]
     /\ {finished[i] : i \in DOMAIN finished} \cap threads = {}
     /\ {finished[i] : i \in DOMAIN finished} \cup threads
          = {w \in Work : work[w] \in {"queued", "queued_deleted"}}
     /\ queued = Cardinality(threads) + Len(finished)
=============================================================================
