----------------------------- MODULE ShimTimers -----------------------------
(***************************************************************************)
(* koss:timers and timers/promises: Timeout objects over the numbered      *)
(* timers of the global object (module PollingTimers, here a set of armed  *)
(* numbers that fire in any order, one at a time).  activeTimers says      *)
(* which number a Timeout stands for; what it does not know of nobody can  *)
(* clear.                                                                  *)
(***************************************************************************)
EXTENDS Naturals, FiniteSets

CONSTANTS
  Timer,       \* Timeout objects
  None,
  MaxIds       \* bound: numbers given out by the global object

Kind == {"timeout", "interval", "promise"}
Id == 1 .. MaxIds

VARIABLES
  kind,        \* kind[t]: how t was made, "none" before
  number,      \* number[t]: its _id, what it is as a primitive
  entry,       \* entry[t]: activeTimers[t._id].timerId; 0 when there is none
  destroyed,
  armed,       \* the timers of the global object: [id, of, deletes]
  lastId,      \* the global counter
  running,     \* the timer whose function runs
  promise,     \* promise[t] of a timer made by setTimeoutPromise
  aborted,     \* the signal the promises were given
  orphans,     \* history: ids whose entry was deleted while they were armed
  wiped        \* history: timers cleared otherwise than through their object

vars == <<kind, number, entry, destroyed, armed, lastId, running, promise, aborted,
          orphans, wiped>>

Armed == [id : Id, of : Timer, deletes : BOOLEAN]

TypeOK ==
  /\ kind \in [Timer -> Kind \cup {"none"}]
  /\ number \in [Timer -> 0 .. Cardinality(Timer)]
  /\ entry \in [Timer -> Id \cup {0}]
  /\ destroyed \subseteq Timer /\ armed \subseteq Armed
  /\ lastId \in 0 .. MaxIds /\ running \in Armed \cup {None}
  /\ promise \in [Timer -> {"none", "pending", "resolved", "rejected"}]
  /\ aborted \in BOOLEAN /\ orphans \subseteq Id /\ wiped \subseteq Timer

Init ==
  /\ kind = [t \in Timer |-> "none"] /\ number = [t \in Timer |-> 0]
  /\ entry = [t \in Timer |-> 0] /\ destroyed = {} /\ armed = {}
  /\ lastId \in {0, 1}       \* the script may have used a global timer before
  /\ running = None /\ promise = [t \in Timer |-> "none"] /\ aborted = FALSE
  /\ orphans = {} /\ wiped = {}

-----------------------------------------------------------------------------
Made == {t \in Timer : kind[t] # "none"}
Without(ids) == {g \in armed : g.id \notin ids}

(* globalThis.setTimeout or setInterval, and the entry that remembers it.  *)
Arm(t, kept, deletes) ==
  /\ lastId < MaxIds
  /\ lastId' = lastId + 1
  /\ armed' = kept \cup {[id |-> lastId + 1, of |-> t, deletes |-> deletes]}
  /\ entry' = [entry EXCEPT ![t] = lastId + 1]

(* setTimeout, setInterval, setImmediate, and setTimeoutPromise, whose     *)
(* promise is rejected at once if the signal is aborted already.           *)
Create(t, k) ==
  /\ kind[t] = "none"
  /\ kind' = [kind EXCEPT ![t] = k]
  /\ number' = [number EXCEPT ![t] = Cardinality(Made) + 1]
  /\ IF k = "promise" /\ aborted
     THEN promise' = [promise EXCEPT ![t] = "rejected"] /\ UNCHANGED <<armed, entry, lastId>>
     ELSE /\ Arm(t, armed, FALSE)
          /\ promise' = IF k = "promise" THEN [promise EXCEPT ![t] = "pending"] ELSE promise
  /\ UNCHANGED <<destroyed, running, aborted, orphans, wiped>>

RefreshKeeping(t) ==
  /\ kind[t] \in {"timeout", "interval"} /\ t \notin destroyed
  /\ Arm(t, armed, kind[t] = "timeout")
  /\ UNCHANGED <<kind, number, destroyed, running, promise, aborted, orphans, wiped>>

(* refresh: the function it arms for a timeout deletes the entry.          *)
Refresh(t) ==
  /\ kind[t] \in {"timeout", "interval"} /\ t \notin destroyed
  /\ Arm(t, Without({entry[t]}), kind[t] = "timeout")
  /\ UNCHANGED <<kind, number, destroyed, running, promise, aborted, orphans, wiped>>

(* clearTimeout and clearInterval do nothing without an entry.             *)
Forget(ts) ==
  /\ armed' = Without({entry[t] : t \in ts})
  /\ entry' = [t \in Timer |-> IF t \in ts THEN 0 ELSE entry[t]]

Clear(t) ==
  /\ kind[t] \in {"timeout", "interval"} /\ entry[t] # 0
  /\ Forget({t})
  /\ destroyed' = destroyed \cup {t}
  /\ UNCHANGED <<kind, number, lastId, running, promise, aborted, orphans, wiped>>

(* clearTimeout(+t): the number of an object is looked for among the       *)
(* numbers of the global object.                                           *)
ClearNumber(t) ==
  /\ kind[t] \in {"timeout", "interval"}
  /\ \E u \in Made :
       /\ entry[u] = number[t]
       /\ Forget({u})
       /\ wiped' = wiped \cup {u}
  /\ UNCHANGED <<kind, number, destroyed, lastId, running, promise, aborted, orphans>>

ClearAllTimers ==
  /\ Forget(Timer)
  /\ wiped' = wiped \cup Made
  /\ UNCHANGED <<kind, number, destroyed, lastId, running, promise, aborted, orphans>>

(* The listeners of the promises that wait clear their timers; that of a   *)
(* promise already resolved does the same, to no effect on the promise.    *)
Abort ==
  /\ ~aborted /\ aborted' = TRUE
  /\ LET listening == {t \in Timer : promise[t] \in {"pending", "resolved"}}
     IN /\ Forget(listening)
        /\ destroyed' = destroyed \cup {t \in listening : entry[t] # 0}
        /\ promise' = [t \in Timer |-> IF promise[t] = "pending" THEN "rejected" ELSE promise[t]]
  /\ UNCHANGED <<kind, number, lastId, running, orphans, wiped>>

AbortKeepsTimer ==
  /\ ~aborted /\ aborted' = TRUE
  /\ promise' = [t \in Timer |-> IF promise[t] = "pending" THEN "rejected" ELSE promise[t]]
  /\ destroyed' = destroyed \cup {t \in Timer : promise[t] = "pending"}
  /\ UNCHANGED <<kind, number, entry, armed, lastId, running, orphans, wiped>>

-----------------------------------------------------------------------------
(* A timeout leaves the table of the global object before its function     *)
(* runs, an interval stays; the function of a promise only resolves it.    *)
Fire(g) ==
  /\ running = None /\ g \in armed
  /\ armed' = IF kind[g.of] = "interval" THEN armed ELSE armed \ {g}
  /\ IF kind[g.of] = "promise"
     THEN promise' = [promise EXCEPT ![g.of] = IF @ = "pending" THEN "resolved" ELSE @]
          /\ UNCHANGED running
     ELSE running' = g /\ UNCHANGED promise
  /\ UNCHANGED <<kind, number, entry, destroyed, lastId, aborted, orphans, wiped>>

FunctionReturns ==
  /\ running # None
  /\ running' = None
  /\ IF running.deletes
     THEN /\ entry' = [entry EXCEPT ![running.of] = 0]
          /\ orphans' = orphans \cup ({entry[running.of]} \cap {g.id : g \in armed})
     ELSE UNCHANGED <<entry, orphans>>
  /\ UNCHANGED <<kind, number, destroyed, armed, lastId, promise, aborted, wiped>>

(* The exception skips the deletion; the global object swallows it.        *)
FunctionThrows ==
  /\ running # None
  /\ running' = None
  /\ UNCHANGED <<kind, number, entry, destroyed, armed, lastId, promise, aborted, orphans, wiped>>

Next ==
  \/ \E t \in Timer, k \in Kind : Create(t, k)
  \/ \E t \in Timer : Refresh(t) \/ Clear(t) \/ ClearNumber(t)
  \/ ClearAllTimers \/ Abort
  \/ \E g \in armed : Fire(g)
  \/ FunctionReturns \/ FunctionThrows

Spec == Init /\ [][Next]_vars

-----------------------------------------------------------------------------
(* Every timer that is armed can be cleared through its object, but for    *)
(* one that was refreshed by its own refreshed function: the function      *)
(* deletes the entry of the timer it has just armed.                       *)
EveryTimerCanBeCleared == \A g \in armed : g.id \in orphans \/ entry[g.of] = g.id

(* What was cleared, or aborted, does not fire, with the same exception.   *)
ClearedIsSilent == \A g \in armed : g.of \in destroyed => g.id \in orphans

(* A promise that waits has an armed timer, unless clearAllTimers or a     *)
(* number took it away: then it waits for ever.                            *)
WaitingIsArmed ==
  \A t \in Timer : promise[t] = "pending" => t \in wiped \/ \E g \in armed : g.of = t
=============================================================================
