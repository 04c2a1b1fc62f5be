------------------------------- MODULE MCHost -------------------------------
(***************************************************************************)
(* What lies between the host and an instance: the gates of the sandbox,   *)
(* the calls that run code, the globals the host fills, the modules that   *)
(* are compiled in, and the web interfaces an instance begins with.  They  *)
(* share no state in the model, so one run checks them side by side;       *)
(* `side` names the one that moves.                                        *)
(***************************************************************************)
EXTENDS MCSandbox, FiniteSets
LOCAL INSTANCE TLC

CONSTANTS
  Path, Callback, NoCallback, KossJS, MaxObjects,
  Dir, NoDir, RealDir, MaxLeft,
  Unknown,
  MaxPulled, MaxReads,
  Signal, Composite, Plain, Fetch, NoReason, MaxListeners,
  Port, Channel, Nobody, Value, MaxPosts

VARIABLES
  side,
  tree, fixed, parseBroken, temps, objects, hardened,
  dir, code, call, audited, answer,
  flags, loads, asked, loading, thrown, ran, names, answerOf,
  source, output, pump, handled, written, broken,
  abortedFor, listeners, dispatches, combined, fetches, added, broke,
  held, other, open, closed, timers, walk, posts, got, missed

G == INSTANCE HostGlobals
C == INSTANCE HostCalls
B == INSTANCE Builtins WITH answer <- answerOf
R == INSTANCE WebStreams WITH MaxChunks <- MaxPulled
A == INSTANCE WebSignals WITH aborted <- abortedFor, agenda <- dispatches
M == INSTANCE WebChannels

ASSUME GlobalsAssumption ==
  /\ Path \subseteq Seq(STRING)
  /\ \A p \in Path : p # <<>> /\ \A n \in 1 .. Len(p) - 1 : SubSeq(p, 1, n) \in Path
  /\ KossJS \in Path /\ Len(KossJS) = 1
ASSUME CallsAssumption == RealDir \in [Dir -> Dir] /\ MaxLeft \in Nat
ASSUME ChannelsAssumption ==
  /\ IsFiniteSet(Channel) /\ Port \cap Channel = {} /\ Nobody \notin Port
  /\ Port \cap (Channel \X M!Route) = {}
  /\ \E p, q \in Port : p # q /\ Port = {p, q}
  /\ MaxPosts \in Nat

ASSUME SignalsAssumption ==
  /\ IsFiniteSet(Signal) /\ "any" \notin Signal /\ NoReason \notin Signal
  /\ Composite \notin Signal /\ Plain \notin Signal \cup {Composite}
  /\ Fetch \cap (A!User \cup {"any"}) = {}

ASSUME StreamsAssumption == MaxPulled \in Nat

globalVars == <<tree, fixed, parseBroken, temps, objects, hardened>>
callVars == <<dir, code, call, audited, answer>>
builtinVars == <<flags, loads, asked, loading, thrown, ran, names, answerOf>>
pipeVars == <<source, output, pump, handled, written, broken>>
signalVars == <<abortedFor, listeners, dispatches, combined, fetches, added, broke>>
channelVars == <<held, other, open, closed, timers, walk, posts, got, missed>>
webVars == <<pipeVars, signalVars, channelVars>>

(* Two properties side by side under one global, one of them with a        *)
(* property of its own, and KossJS; two directories, one a link to the     *)
(* other.                                                                  *)
MCKossJS == <<"KossJS">>
MCPath == {<<"a">>, <<"a", "b">>, <<"a", "c">>, <<"a", "b", "c">>,
           MCKossJS, <<"KossJS", "b">>, <<"KossJS", "b", "c">>}
MCRealDir == [d \in Dir |-> CHOOSE e \in Dir : TRUE]

(* No channel and no port is different from another.                       *)
Symmetry == Permutations(Channel) \cup Permutations(Port)

Sides == {"gates", "globals", "calls", "builtins", "web streams", "signals", "channels"}

(* All begin together; only the one that moves has a choice of beginnings. *)
SumInit ==
  /\ side \in Sides
  /\ Init /\ G!Init /\ C!Init /\ B!Init /\ R!Init /\ A!Init /\ M!Init
  /\ side # "builtins" => flags = {} /\ loads
  /\ side # "channels" => held = CHOOSE v \in Value : TRUE

(* One name is asked for, once or again.                                   *)
SumNext ==
  /\ UNCHANGED side
  /\ \/ side = "gates" /\ Next /\ UNCHANGED <<globalVars, callVars, builtinVars, webVars>>
     \/ side = "globals" /\ G!Next /\ UNCHANGED <<vars, callVars, builtinVars, webVars>>
     \/ side = "calls" /\ C!Next /\ UNCHANGED <<vars, globalVars, builtinVars, webVars>>
     \/ side = "builtins" /\ B!Next /\ asked \in {B!None, asked'}
        /\ UNCHANGED <<vars, globalVars, callVars, webVars>>
     \/ side = "web streams" /\ R!Next
        /\ UNCHANGED <<vars, globalVars, callVars, builtinVars, signalVars, channelVars>>
     \/ side = "signals" /\ A!Next
        /\ UNCHANGED <<vars, globalVars, callVars, builtinVars, pipeVars, channelVars>>
     \/ side = "channels" /\ M!Next
        /\ UNCHANGED <<vars, globalVars, callVars, builtinVars, pipeVars, signalVars>>

SumSpec == SumInit /\ [][SumNext]_<<side, vars, globalVars, callVars, builtinVars, webVars>>

-----------------------------------------------------------------------------
(* The state of the side that moves has its type, a temporary global      *)
(* outlives its call only if the script broke what deletes it, a           *)
(* registration takes nothing else away, KossJS stays, and an instance     *)
(* keeps its callback.                                                     *)
GlobalsAreTheHosts ==
  CASE side = "gates" -> TypeOK
    [] side = "globals" ->
         /\ G!TypeOK /\ G!NothingIsLeftBehind /\ G!OthersStay
         /\ G!KossJSStays /\ G!InstancesKeepTheirCallback
    [] side = "calls" -> C!TypeOK
    [] side = "builtins" -> B!TypeOK
    [] side = "web streams" -> R!TypeOK
    [] side = "signals" -> A!TypeOK
    [] side = "channels" -> M!TypeOK

(* Code is audited under the directory of its call, answers say what is    *)
(* left, and a built-in module has what it requires or fails.              *)
CallsAnswerForTheirCode ==
  /\ side = "calls" => C!PwdIsOfTheCall /\ C!AnswersAreKept
  /\ side = "builtins" => B!LibraryIsWhole

(* Chunks go through a pipe once and in order and the reads that wait are  *)
(* served, aborts reach the fetches and the combined signal, and a message *)
(* reaches everybody there, once and as it was posted.                     *)
WebDelivers ==
  /\ side = "web streams" =>
       R!ChunksInOrderOnce /\ R!WaitingIsJustified /\ R!OutputEndsWithSource
  /\ side = "signals" => A!FetchFollowsItsSignal /\ A!AnyFollowsItsSignals
  /\ side = "channels" => M!HeardInOrderOnce /\ M!HeardByAll
=============================================================================
