--------------------------- MODULE ExclusiveAccess ---------------------------
(***************************************************************************)
(* What the C ABI of KossJS promises about the use of an instance, with    *)
(* nothing said of how: an instance is used by the thread that created it, *)
(* by one call at a time, and a call is refused exactly when admitting it  *)
(* would break that.  Module ApiGuard implements it with the registry of   *)
(* src/src/runtime.rs.                                                     *)
(***************************************************************************)
CONSTANTS
  Thread,   \* the host's threads
  Addr,     \* the addresses an instance can be allocated at
  Nobody    \* no thread

VARIABLES
  owner,    \* owner[a]: the thread whose published instance is at a, or Nobody
  inside,   \* inside[a]: the thread executing a call in it, or Nobody
  verdict   \* verdict[t]: how the last call of t was answered

vars == <<owner, inside, verdict>>

Free(t, a) == owner[a] = t /\ inside[a] = Nobody

TypeOK ==
  /\ owner \in [Addr -> Thread \cup {Nobody}]
  /\ inside \in [Addr -> Thread \cup {Nobody}]
  /\ verdict \in [Thread -> {"none", "admitted", "refused"}]

Init ==
  /\ owner = [a \in Addr |-> Nobody]
  /\ inside = [a \in Addr |-> Nobody]
  /\ verdict = [t \in Thread |-> "none"]

(* An instance of t becomes usable. *)
Publish(t, a) ==
  /\ owner[a] = Nobody
  /\ owner' = [owner EXCEPT ![a] = t]
  /\ UNCHANGED <<inside, verdict>>

Admit(t, a) ==
  /\ Free(t, a)
  /\ inside' = [inside EXCEPT ![a] = t]
  /\ verdict' = [verdict EXCEPT ![t] = "admitted"]
  /\ UNCHANGED owner

(* A refusal changes nothing, and is given only to a call that may not run.*)
Refuse(t, a) ==
  /\ ~Free(t, a)
  /\ verdict' = [verdict EXCEPT ![t] = "refused"]
  /\ UNCHANGED <<owner, inside>>

Leave(t, a) ==
  /\ inside[a] = t
  /\ inside' = [inside EXCEPT ![a] = Nobody]
  /\ UNCHANGED <<owner, verdict>>

(* The admitted call was koss_destroy: the instance is gone. *)
Retire(t, a) ==
  /\ inside[a] = t
  /\ owner[a] = t
  /\ inside' = [inside EXCEPT ![a] = Nobody]
  /\ owner' = [owner EXCEPT ![a] = Nobody]
  /\ UNCHANGED verdict

Next ==
  \E t \in Thread, a \in Addr :
    \/ Publish(t, a)
    \/ Admit(t, a)
    \/ Refuse(t, a)
    \/ Leave(t, a)
    \/ Retire(t, a)

Spec == Init /\ [][Next]_vars
=============================================================================
