------------------------------ MODULE WebSignals ------------------------------
(***************************************************************************)
(* EventTarget, AbortController, AbortSignal.any and the signal of fetch   *)
(* (src/src/js_shims/web_api.js).  A dispatch runs over a copy of the      *)
(* listeners; an event target swallows what a listener throws, a signal    *)
(* does not: the listeners after it, and those of the dispatches around    *)
(* it up to an event target, hear nothing.                                 *)
(***************************************************************************)
EXTENDS Naturals, Sequences, SequencesExt

CONSTANTS
  Signal,      \* the signals of the script's controllers
  Composite,   \* the signal any() makes of them
  Plain,       \* an event target
  Fetch,       \* calls of fetch with a signal
  NoReason,    \* not aborted; what a script aborts a signal with is named
               \*   like the signal
  MaxListeners \* bound: listeners a script adds

VARIABLES
  aborted,    \* the reason of every signal
  listeners,  \* of every target: who listens, and whether once
  agenda,     \* the dispatches that run, innermost first: the target, the
              \*   listeners still to call, and the reason
  combined,   \* the signals any() is listening to, or went through
  fetches,    \* the state of every fetch, and its signal
  added,      \* history: the listeners a script added
  broke       \* history: the targets whose dispatch was cut short

vars == <<aborted, listeners, agenda, combined, fetches, added, broke>>

Aborting == Signal \cup {Composite}
Target == Aborting \cup {Plain}
User == {"throws", "stops"} \cup Signal    \* aborts that signal
Listener == User \cup {"any"} \cup Fetch

Entry(who, once) == [who |-> who, once |-> once]
Answered == {"fulfilled", "rejected", "aborted"}

TypeOK ==
  /\ aborted \in [Aborting -> Signal \cup {NoReason}]
  /\ \A t \in Target : \A i \in DOMAIN listeners[t] : listeners[t][i].who \in Listener
  /\ combined \subseteq Signal
  /\ \A f \in Fetch : fetches[f].is \in {"unused", "waiting"} \cup Answered

Init ==
  /\ aborted = [s \in Aborting |-> NoReason]
  /\ listeners = [t \in Target |-> <<>>]
  /\ agenda = <<>>
  /\ combined = {}
  /\ fetches = [f \in Fetch |-> [is |-> "unused", on |-> Composite]]
  /\ added = 0
  /\ broke = {}

-----------------------------------------------------------------------------
Frame(t, r) == [target |-> t, rest |-> listeners[t], reason |-> r]

(* controller.abort: the first time, the signal is aborted and its         *)
(* listeners are called.                                                   *)
Abort(s, r, below) ==
  IF aborted[s] # NoReason
  THEN agenda' = below /\ UNCHANGED aborted
  ELSE agenda' = <<Frame(s, r)>> \o below /\ aborted' = [aborted EXCEPT ![s] = r]

(* A listener is removed where it comes first, once or not.                *)
Without(list, who) ==
  LET at == {i \in DOMAIN list : list[i].who = who}
  IN IF at = {} THEN list ELSE RemoveAt(list, CHOOSE i \in at : \A j \in at : i <= j)

Listen(t, who, once) ==
  listeners' = [listeners EXCEPT ![t] = Append(@, Entry(who, once))]

AddListener(t, who, once) ==
  /\ agenda = <<>> /\ added < MaxListeners
  /\ Listen(t, who, once)
  /\ added' = added + 1
  /\ UNCHANGED <<aborted, agenda, combined, fetches, broke>>

RemoveListener(t, who) ==
  /\ agenda = <<>>
  /\ listeners' = [listeners EXCEPT ![t] = Without(@, who)]
  /\ UNCHANGED <<aborted, agenda, combined, fetches, added, broke>>

(* A script, or the timer of AbortSignal.timeout, aborts.                  *)
ScriptAborts(s) ==
  /\ agenda = <<>>
  /\ Abort(s, s, <<>>)
  /\ UNCHANGED <<listeners, combined, fetches, added, broke>>

Dispatch ==
  /\ agenda = <<>>
  /\ agenda' = <<Frame(Plain, NoReason)>>
  /\ UNCHANGED <<aborted, listeners, combined, fetches, added, broke>>

(* any: the signals in turn, until one is aborted already.                 *)
Combine(list) ==
  /\ agenda = <<>> /\ combined = {}
  /\ LET gone == {i \in DOMAIN list : aborted[list[i]] # NoReason}
         upTo == IF gone = {} THEN Len(list)
                 ELSE CHOOSE i \in gone : \A j \in gone : i <= j
         heard == {list[i] : i \in 1 .. upTo} \ {s \in Signal : aborted[s] # NoReason}
     IN /\ combined' = {list[i] : i \in 1 .. upTo}
        /\ listeners' = [t \in Target |->
                           IF t \in heard THEN Append(listeners[t], Entry("any", TRUE))
                           ELSE listeners[t]]
        /\ IF gone = {} THEN UNCHANGED <<aborted, agenda>>
           ELSE Abort(Composite, aborted[list[upTo]], <<>>)
  /\ UNCHANGED <<fetches, added, broke>>

-----------------------------------------------------------------------------
(* What a listener throws leaves every dispatch around it, up to that of   *)
(* an event target, which goes on.                                         *)
Plains == {i \in DOMAIN agenda : agenda[i].target = Plain}
Unwound(stack) ==
  IF Plains = {} THEN <<>>
  ELSE SubSeq(stack, CHOOSE i \in Plains : \A j \in Plains : i <= j, Len(stack))
Left == IF Plains = {} THEN {agenda[i].target : i \in DOMAIN agenda}
        ELSE {agenda[i].target : i \in {j \in DOMAIN agenda : \A k \in Plains : j < k}}

(* The innermost dispatch calls its next listener, or returns.             *)
Returns ==
  /\ agenda # <<>> /\ Head(agenda).rest = <<>>
  /\ agenda' = Tail(agenda)
  /\ UNCHANGED <<aborted, listeners, combined, fetches, added, broke>>

Calls(who) ==
  /\ agenda # <<>> /\ Head(agenda).rest # <<>>
  /\ Head(Head(agenda).rest).who = who
  /\ LET f == Head(agenda)
     IN listeners' = IF Head(f.rest).once
                     THEN [listeners EXCEPT ![f.target] = Without(@, who)] ELSE listeners

After == <<[Head(agenda) EXCEPT !.rest = Tail(@)]>> \o Tail(agenda)

CallThrows ==
  /\ Calls("throws")
  /\ agenda' = Unwound(After)
  /\ broke' = broke \cup Left
  /\ UNCHANGED <<aborted, combined, fetches, added>>

(* stopPropagation ends the dispatch of an event target; a signal does not *)
(* look at it.                                                             *)
CallStops ==
  /\ Calls("stops")
  /\ agenda' = IF Head(agenda).target = Plain THEN Tail(agenda) ELSE After
  /\ UNCHANGED <<aborted, combined, fetches, added, broke>>

CallAborts(s) ==
  /\ Calls(s)
  /\ Abort(s, s, After)
  /\ UNCHANGED <<combined, fetches, added, broke>>

CallAny ==
  /\ Calls("any")
  /\ Abort(Composite, Head(agenda).reason, After)
  /\ UNCHANGED <<combined, fetches, added, broke>>

CallFetch(f) ==
  /\ Calls(f)
  /\ agenda' = After
  /\ fetches' = IF fetches[f].is = "waiting" THEN [fetches EXCEPT ![f].is = "aborted"] ELSE fetches
  /\ UNCHANGED <<aborted, combined, added, broke>>

-----------------------------------------------------------------------------
(* fetch with a signal: rejected at once if it is aborted already.         *)
StartFetch(f, s) ==
  /\ agenda = <<>> /\ fetches[f].is = "unused"
  /\ IF aborted[s] # NoReason
     THEN fetches' = [fetches EXCEPT ![f] = [is |-> "aborted", on |-> s]] /\ UNCHANGED listeners
     ELSE fetches' = [fetches EXCEPT ![f] = [is |-> "waiting", on |-> s]] /\ Listen(s, f, TRUE)
  /\ UNCHANGED <<aborted, agenda, combined, added, broke>>

(* Mistake: a fetch that is answered keeps listening.                      *)
FinishFetchListening(f, how) ==
  /\ agenda = <<>> /\ fetches[f].is = "waiting"
  /\ fetches' = [fetches EXCEPT ![f].is = how]
  /\ UNCHANGED <<aborted, listeners, agenda, combined, added, broke>>

(* The answer arrives, in a microtask; after an abort nobody takes it.     *)
FinishFetch(f, how) ==
  /\ agenda = <<>> /\ fetches[f].is \in {"waiting", "aborted"}
  /\ listeners' = [listeners EXCEPT ![fetches[f].on] = Without(@, f)]
  /\ fetches' = [fetches EXCEPT ![f].is = IF @ = "waiting" THEN how ELSE @]
  /\ UNCHANGED <<aborted, agenda, combined, added, broke>>

Lists == SetToSeqs(Signal)

Next ==
  \/ \E t \in Signal \cup {Plain} :
       \/ \E who \in User, once \in BOOLEAN : who # t /\ AddListener(t, who, once)
       \/ \E who \in User : RemoveListener(t, who)
  \/ \E s \in Aborting :
       \/ s \in Signal /\ (CallAborts(s) \/ ScriptAborts(s))
       \/ \E f \in Fetch : StartFetch(f, s)
  \/ \E list \in Lists : Combine(list)
  \/ Dispatch \/ Returns \/ CallThrows \/ CallStops \/ CallAny
  \/ \E f \in Fetch :
       \/ CallFetch(f)
       \/ \E how \in {"fulfilled", "rejected"} : FinishFetch(f, how)

Spec == Init /\ [][Next]_vars

-----------------------------------------------------------------------------
(***************************************************************************)
(* When no dispatch runs, a fetch still waits, and listens, only if its    *)
(* signal is not aborted, or a listener before it threw; one that was      *)
(* answered does not listen any more.                                      *)
(***************************************************************************)
FetchFollowsItsSignal ==
  agenda = <<>> => \A f \in Fetch :
    LET on == fetches[f].on
        listens == \E i \in DOMAIN listeners[on] : listeners[on][i].who = f
    IN /\ fetches[f].is = "waiting" /\ on \notin broke => aborted[on] = NoReason
       /\ fetches[f].is = "waiting" <=> listens

(***************************************************************************)
(* The combined signal is aborted, for the reason of one of its signals,   *)
(* if and only if one of them is, unless a listener before it threw.       *)
(***************************************************************************)
AnyFollowsItsSignals ==
  agenda = <<>> =>
    LET gone == {s \in combined : aborted[s] # NoReason}
    IN /\ gone # {} /\ gone \cap broke = {} => aborted[Composite] # NoReason
       /\ aborted[Composite] # NoReason => \E s \in gone : aborted[Composite] = aborted[s]
=============================================================================
