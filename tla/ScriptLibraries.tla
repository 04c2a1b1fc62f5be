-------------------------- MODULE ScriptLibraries ---------------------------
(***************************************************************************)
(* The libraries of a script that keep state between calls: require,       *)
(* streams, events and timers.  They share no state in the model, so one   *)
(* specification has them side by side: `library` names the one that       *)
(* moves, the others stay as they began.  MCLibraries adds those that only *)
(* handle data.                                                            *)
(***************************************************************************)
EXTENDS CommonJs, Integers

CONSTANTS
  MaxChunks, MaxCalls, MaxAgenda,
  Fn, MaxOnce, MaxEmits, MaxAsked, MaxListed, MaxNested,
  Timer, MaxIds

VARIABLES
  library,
  flowing, ended, finished, destroyed, buffer, length, held, writing, wlength, piped,
  watched, waiting, agenda, calls, pushed, arrived, taken, skimmed, dropped, closes,
  reports, resumes,
  listeners, emitting, wrappers, promise, iterator, values, answers, emitted, seen, runs,
  nested, blank,
  kind, number, entry, timerDestroyed, armed, lastId, running, timerPromise, aborted,
  orphans, wiped

ASSUME LibraryBounds == {MaxChunks, MaxIds, MaxOnce, MaxEmits} \subseteq Nat

S == INSTANCE Streams
E == INSTANCE Events WITH MaxDepth <- MaxNested
T == INSTANCE ShimTimers WITH destroyed <- timerDestroyed, promise <- timerPromise

streamVars == <<flowing, ended, finished, destroyed, buffer, length, held, writing, wlength,
                piped, watched, waiting, agenda, calls, pushed, arrived, taken, skimmed,
                dropped, closes, reports, resumes>>
eventVars == <<listeners, emitting, wrappers, promise, iterator, values, answers, emitted,
               seen, runs, nested, blank>>
timerVars == <<kind, number, entry, timerDestroyed, armed, lastId, running, timerPromise,
               aborted, orphans, wiped>>
libraryVars == <<library, vars, streamVars, eventVars, timerVars>>

Data == {"decoder", "buffers", "paths"}
Libraries == {"commonjs", "streams", "events", "timers"} \cup Data

(* All begin together; only the one that moves has a choice of beginnings. *)
ScriptInit ==
  /\ library \in Libraries
  /\ Init /\ S!Init /\ E!Init /\ T!Init
  /\ library = "streams" \/ ~watched
  /\ library = "timers" \/ lastId = 0

ScriptNext ==
  /\ UNCHANGED library
  /\ \/ library = "commonjs" /\ Next /\ UNCHANGED <<streamVars, eventVars, timerVars>>
     \/ library = "streams" /\ S!Next /\ UNCHANGED <<vars, eventVars, timerVars>>
     \/ library = "events" /\ E!Next /\ UNCHANGED <<vars, streamVars, timerVars>>
     \/ library = "timers" /\ T!Next /\ UNCHANGED <<vars, streamVars, eventVars>>

ScriptSpec == ScriptInit /\ [][ScriptNext]_libraryVars

-----------------------------------------------------------------------------
(* Streams: a chunk pushed into a stream is never lost, the lengths agree   *)
(* with the buffers, a stream closes once, and a chunk arrives once while   *)
(* nobody resumes or pushes in the middle of it.                            *)
StreamsKeepTheirChunks ==
  library = "streams" => S!NothingVanishes /\ S!LengthsAgree /\ S!ClosesOnce /\ S!ArrivesOnce

(* Events: the iterator of on() gives what was emitted, in order, and a     *)
(* listener of once() runs once outside nested emissions.  Timers: an armed *)
(* timer can be cleared, a cleared one is silent, and a promise that waits  *)
(* has its timer.                                                           *)
EventsAndTimersAnswer ==
  /\ library = "events" => E!IteratorInOrder /\ E!OnceRunsOnce
  /\ library = "timers" => T!EveryTimerCanBeCleared /\ T!ClearedIsSilent /\ T!WaitingIsArmed
=============================================================================
