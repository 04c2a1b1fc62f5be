------------------------------- MODULE Events -------------------------------
(***************************************************************************)
(* koss:events: an emitter, its listeners, the promise of once() and the   *)
(* asynchronous iterator of on().  emit calls a copy of the list, one      *)
(* listener after the other; a listener may call anything, emit included,  *)
(* so emissions nest, and may throw, which ends the emission it is in.     *)
(***************************************************************************)
EXTENDS Naturals, Sequences, FiniteSets, SequencesExt

CONSTANTS
  Fn,        \* functions of the script
  MaxOnce,   \* bound: wrappers made by once
  MaxEmits,  \* bound: events emitted
  MaxAsked,  \* bound: calls of the iterator's next
  MaxListed, \* bound: listeners of the emitter
  MaxDepth   \* bound: emissions inside one another

Event == {"data", "error"}
Plain == Fn \cup {"eventHandler", "errorHandler"}
Wrapped == Fn \cup {"onceEvent", "onceError"}
Listener == [fn : Plain, wrapper : {0}] \cup [fn : Wrapped, wrapper : 1 .. MaxOnce]

VARIABLES
  listeners,  \* _events
  emitting,   \* the emissions in progress, the innermost last
  wrappers,   \* wrappers made so far
  promise,    \* the promise of once(emitter, "data")
  iterator,   \* of on(emitter, "data"): "none", "open", or "finished"
  values,     \* unconsumedEventValues; 0 is undefined
  answers,    \* what each next() was answered; "pending" in unconsumedPromises
  emitted,    \* emissions so far: the number is the value emitted
  seen,       \* history: the values eventHandler was called with
  runs,       \* history: how often each wrapper ran
  nested,     \* history: the events emitted inside an emission of themselves
  blank       \* history: an event without arguments was queued

vars == <<listeners, emitting, wrappers, promise, iterator, values, answers,
          emitted, seen, runs, nested, blank>>
iteratorVars == <<iterator, values, answers, seen, blank>>

TypeOK ==
  /\ listeners \in [Event -> Seq(Listener)]
  /\ emitting \in Seq([event : Event, value : 0 .. MaxEmits,
                       rest : Seq(Listener), running : BOOLEAN])
  /\ wrappers \in 0 .. MaxOnce
  /\ promise \in {"none", "pending", "resolved", "rejected"}
  /\ iterator \in {"none", "open", "finished"}
  /\ values \in Seq(0 .. MaxEmits) /\ seen \in Seq(0 .. MaxEmits)
  /\ answers \in Seq([how : {"pending", "value", "done", "rejected"}, value : 0 .. MaxEmits])
  /\ emitted \in 0 .. MaxEmits
  /\ runs \in [1 .. MaxOnce -> 0 .. MaxEmits]
  /\ nested \subseteq Event /\ blank \in BOOLEAN

Init ==
  /\ listeners = [e \in Event |-> <<>>]
  /\ emitting = <<>> /\ wrappers = 0 /\ promise = "none"
  /\ iterator = "none" /\ values = <<>> /\ answers = <<>>
  /\ emitted = 0 /\ seen = <<>> /\ runs = [w \in 1 .. MaxOnce |-> 0]
  /\ nested = {} /\ blank = FALSE

-----------------------------------------------------------------------------
(* The script runs outside every emission and inside a listener.           *)
ScriptRuns == emitting # <<>> => Last(emitting).running

RoomFor(n) == Len(listeners["data"]) + Len(listeners["error"]) + n <= MaxListed

PlainOf(f) == [fn |-> f, wrapper |-> 0]
WrapperOf(f, w) == [fn |-> f, wrapper |-> w]

(* removeListener: the first listener that is this very function.  The     *)
(* function of a wrapper is not the wrapper.                               *)
Without(list, l) == IF \E i \in DOMAIN list : list[i] = l
                    THEN RemoveFirst(list, l) ELSE list

Insert(list, l, prepend) == IF prepend THEN <<l>> \o list ELSE Append(list, l)

AddListener(e, f, prepend) ==
  /\ ScriptRuns /\ RoomFor(1)
  /\ listeners' = [listeners EXCEPT ![e] = Insert(@, PlainOf(f), prepend)]
  /\ UNCHANGED <<emitting, wrappers, promise, iteratorVars, emitted, runs, nested>>

Once(e, f, prepend) ==
  /\ ScriptRuns /\ RoomFor(1) /\ wrappers < MaxOnce
  /\ wrappers' = wrappers + 1
  /\ listeners' = [listeners EXCEPT ![e] = Insert(@, WrapperOf(f, wrappers + 1), prepend)]
  /\ UNCHANGED <<emitting, promise, iteratorVars, emitted, runs, nested>>

RemoveListener(e, f) ==
  /\ ScriptRuns
  /\ listeners' = [listeners EXCEPT ![e] = Without(@, PlainOf(f))]
  /\ UNCHANGED <<emitting, wrappers, promise, iteratorVars, emitted, runs, nested>>

RemoveAllListeners(es) ==
  /\ ScriptRuns
  /\ listeners' = [e \in Event |-> IF e \in es THEN <<>> ELSE listeners[e]]
  /\ UNCHANGED <<emitting, wrappers, promise, iteratorVars, emitted, runs, nested>>

(* once(emitter, "data"): both listeners are wrappers.                     *)
AwaitOnce ==
  /\ ScriptRuns /\ promise = "none" /\ wrappers + 2 <= MaxOnce /\ RoomFor(2)
  /\ promise' = "pending" /\ wrappers' = wrappers + 2
  /\ listeners' = [e \in Event |->
       Append(listeners[e], IF e = "error" THEN WrapperOf("onceError", wrappers + 1)
                            ELSE WrapperOf("onceEvent", wrappers + 2))]
  /\ UNCHANGED <<emitting, iteratorVars, emitted, runs, nested>>

-----------------------------------------------------------------------------
Emit(e, v) ==
  /\ ScriptRuns /\ emitted < MaxEmits /\ Len(emitting) < MaxDepth
  /\ v \in IF e = "data" THEN {0, emitted + 1} ELSE {0}
  /\ emitted' = emitted + 1
  /\ emitting' = IF listeners[e] = <<>> THEN emitting
                 ELSE Append(emitting, [event |-> e, value |-> v,
                                        rest |-> listeners[e], running |-> FALSE])
  /\ nested' = IF \E i \in DOMAIN emitting : emitting[i].event = e
               THEN nested \cup {e} ELSE nested
  /\ UNCHANGED <<listeners, wrappers, promise, iteratorVars, runs>>

Answer(how) == [how |-> how, value |-> 0]
Value(v) == [how |-> "value", value |-> v]
FirstPending == SelectInSeq(answers, LAMBDA a : a.how = "pending")

(* The listeners KossJS writes itself; settling a settled promise does     *)
(* nothing.                                                                *)
EventHandler(v) ==
  /\ seen' = Append(seen, v)
  /\ IF FirstPending # 0
     THEN /\ answers' = [answers EXCEPT ![FirstPending] = Value(v)]
          /\ UNCHANGED <<values, blank>>
     ELSE /\ values' = Append(values, v)
          /\ blank' = (blank \/ v = 0)
          /\ UNCHANGED answers
  /\ UNCHANGED <<iterator, promise>>

ErrorHandler ==
  /\ iterator' = "finished"
  /\ answers' = IF FirstPending # 0 THEN [answers EXCEPT ![FirstPending] = Answer("rejected")]
                ELSE answers
  /\ UNCHANGED <<values, seen, blank, promise>>

Settle(how) ==
  /\ promise' = IF promise = "pending" THEN how ELSE promise
  /\ UNCHANGED iteratorVars

RunHandler(f, v) ==
  CASE f = "eventHandler" -> EventHandler(v)
    [] f = "errorHandler" -> ErrorHandler
    [] f = "onceEvent" -> Settle("resolved")
    [] f = "onceError" -> Settle("rejected")
    [] OTHER -> UNCHANGED <<promise, iteratorVars>>

(* A wrapper takes itself off the list, then calls its function;           *)
(* onceEvent and onceError also try to remove each other's function.       *)
WrapperStays(e, l) == UNCHANGED listeners

TakeOffWrapper(e, l) ==
  listeners' = IF l.wrapper = 0 THEN listeners
               ELSE [listeners EXCEPT ![e] = Without(@, l)]

CallListener ==
  /\ emitting # <<>> /\ ~Last(emitting).running /\ Last(emitting).rest # <<>>
  /\ LET top == Last(emitting)
         l == Head(top.rest)
     IN /\ TakeOffWrapper(top.event, l)
        /\ runs' = IF l.wrapper = 0 THEN runs ELSE [runs EXCEPT ![l.wrapper] = @ + 1]
        /\ emitting' = [emitting EXCEPT ![Len(emitting)] =
                          [top EXCEPT !.rest = Tail(@), !.running = l.fn \in Fn]]
        /\ RunHandler(l.fn, top.value)
  /\ UNCHANGED <<wrappers, emitted, nested>>

ListenerReturns ==
  /\ emitting # <<>> /\ Last(emitting).running
  /\ emitting' = [emitting EXCEPT ![Len(emitting)].running = FALSE]
  /\ UNCHANGED <<listeners, wrappers, promise, iteratorVars, emitted, runs, nested>>

(* The rest of the list is not called; the caller of emit may catch.       *)
ListenerThrows ==
  /\ emitting # <<>> /\ Last(emitting).running
  /\ emitting' = Front(emitting)
  /\ UNCHANGED <<listeners, wrappers, promise, iteratorVars, emitted, runs, nested>>

EmitReturns ==
  /\ emitting # <<>> /\ ~Last(emitting).running /\ Last(emitting).rest = <<>>
  /\ emitting' = Front(emitting)
  /\ UNCHANGED <<listeners, wrappers, promise, iteratorVars, emitted, runs, nested>>

-----------------------------------------------------------------------------
(* on(emitter, "data").                                                    *)
OpenIterator ==
  /\ ScriptRuns /\ iterator = "none" /\ RoomFor(2)
  /\ iterator' = "open"
  /\ listeners' = [e \in Event |->
       Append(listeners[e], PlainOf(IF e = "error" THEN "errorHandler" ELSE "eventHandler"))]
  /\ UNCHANGED <<emitting, wrappers, promise, values, answers, emitted, seen, runs, nested, blank>>

NextFromTheEnd ==
  /\ values' = IF values = <<>> THEN values ELSE Front(values)
  /\ answers' = Append(answers,
       IF values # <<>> /\ Last(values) # 0 THEN Value(Last(values))
       ELSE Answer(IF iterator = "finished" THEN "done" ELSE "pending"))

(* next: an undefined value is taken for no value.                         *)
TakeValue ==
  /\ values' = IF values = <<>> THEN values ELSE Tail(values)
  /\ answers' = Append(answers,
       IF values # <<>> /\ Head(values) # 0 THEN Value(Head(values))
       ELSE Answer(IF iterator = "finished" THEN "done" ELSE "pending"))

IteratorNext ==
  /\ ScriptRuns /\ iterator # "none" /\ Len(answers) < MaxAsked
  /\ TakeValue
  /\ UNCHANGED <<listeners, emitting, wrappers, promise, iterator, emitted, seen, runs, nested, blank>>

ReturnIterator ==
  /\ ScriptRuns /\ iterator # "none"
  /\ iterator' = "finished"
  /\ listeners' = [e \in Event |->
       Without(listeners[e], PlainOf(IF e = "error" THEN "errorHandler" ELSE "eventHandler"))]
  /\ UNCHANGED <<emitting, wrappers, promise, values, answers, emitted, seen, runs, nested, blank>>

Next ==
  \/ \E e \in Event, f \in Fn, prepend \in BOOLEAN :
       AddListener(e, f, prepend) \/ Once(e, f, prepend)
  \/ \E e \in Event, f \in Fn : RemoveListener(e, f)
  \/ \E es \in {{"data"}, {"error"}, Event} : RemoveAllListeners(es)
  \/ \E e \in Event, v \in 0 .. MaxEmits : Emit(e, v)
  \/ AwaitOnce \/ OpenIterator \/ IteratorNext \/ ReturnIterator
  \/ CallListener \/ ListenerReturns \/ ListenerThrows \/ EmitReturns

Spec == Init /\ [][Next]_vars

-----------------------------------------------------------------------------
(* What next() has handed out, followed by what is queued, is what the     *)
(* emitter sent, in order and without repetition, and nobody waits while a *)
(* value is queued.  An event without arguments breaks it: its value is    *)
(* taken for an empty queue.                                               *)
Handed == {i \in DOMAIN answers : answers[i].how = "value"}

IteratorInOrder ==
  blank \/ /\ Len(seen) = Cardinality(Handed) + Len(values)
           /\ \A i \in Handed : answers[i].value = seen[Cardinality({j \in Handed : j <= i})]
           /\ \A i \in DOMAIN values : values[i] = seen[Cardinality(Handed) + i]
           /\ FirstPending = 0 \/ values = <<>>

(* A listener of once() runs once, unless its event is emitted again from  *)
(* inside its emission: the copies of both emissions hold the wrapper.     *)
(* Once it has run it is on no list.                                       *)
OnceRunsOnce ==
  \A w \in 1 .. MaxOnce :
    /\ runs[w] > 1 => nested # {}
    /\ runs[w] > 0 => \A e \in Event : \A i \in DOMAIN listeners[e] : listeners[e][i].wrapper # w
=============================================================================
