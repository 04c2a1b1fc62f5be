------------------------------ MODULE Streams -------------------------------
(***************************************************************************)
(* koss:stream: a Readable, a Transform and a Writable, joined by          *)
(* pipeline(src, mid, dst, callback), and the asynchronous iterator of the *)
(* Readable.  Every call is synchronous and its events are emitted in the  *)
(* middle of it, so a call is a list of things to do: agenda holds what    *)
(* the calls in progress still have to do, the innermost call first.       *)
(* A chunk is the number of the push that brought it and has length one.   *)
(***************************************************************************)
EXTENDS Naturals, Sequences, SequencesExt, FiniteSets

CONSTANTS
  MaxChunks,   \* bound: chunks pushed by the script
  MaxCalls,    \* bound: calls of the script
  MaxAgenda    \* bound: length of the agenda when a listener of the script calls

(* Duplex, which mid is made of, repeats the methods of Readable and of     *)
(* Writable and its own pipe, so the actions below serve both copies.      *)
Stream == {"src", "mid", "dst"}
Readable == {"src", "mid"}
Writable == {"mid", "dst"}
Dest(s) == IF s = "src" THEN "mid" ELSE "dst"     \* what s is piped into
Upstream(s) == IF s = "dst" THEN "mid" ELSE "src"   \* what is piped into s
Chunk == 1 .. MaxChunks
Nothing == 0

VARIABLES
  flowing,    \* flowing[s]: "null", "on" or "off"
  ended,      \* _readableState.ended
  finished,   \* _writableState.ended
  destroyed,
  buffer,     \* _buffer
  length,     \* _readableState.length
  held,       \* mid's _transformState.buffer
  writing,    \* writing[s]: the chunks whose _write has not called back
  wlength,    \* dst's _writableState.length
  piped,      \* pipeline has joined the streams
  watched,    \* the script has a listener for src's chunks
  waiting,    \* a next() of the iterator waits
  agenda,
  calls,      \* calls of the script so far
  pushed,     \* chunks pushed so far
  arrived,    \* history: what dst's _write was given
  taken,      \* history: the chunks read, iterated, or given to the listener
  skimmed,    \* history: chunks the iterator took from the buffer
  dropped,    \* history: chunks flowing to no listener, refused by a write, or
              \*   given to a transform that failed
  closes,     \* history: how often each stream emitted "close"
  reports,    \* history: how pipeline's callback was called
  resumes     \* history: how often each stream was resumed

readVars == <<flowing, ended, buffer, length, held>>
writeVars == <<finished, writing, wlength>>
scriptVars == <<piped, watched, calls, pushed>>
history == <<arrived, taken, skimmed, dropped, closes, reports, resumes>>
vars == <<readVars, writeVars, destroyed, scriptVars, waiting, agenda, history>>

Todo == [do : {"emit", "tick", "push", "pause", "resume", "destroy", "end", "write",
               "data", "listener"},
         of : Stream, event : {"", "data", "end", "error", "finish"}, chunk : 0 .. MaxChunks]
Do(what, s) == [do |-> what, of |-> s, event |-> "", chunk |-> Nothing]
DoChunk(what, s, c) == [do |-> what, of |-> s, event |-> "", chunk |-> c]
Emit(s, e, c) == [do |-> "emit", of |-> s, event |-> e, chunk |-> c]

TypeOK ==
  /\ flowing \in [Readable -> {"null", "on", "off"}]
  /\ ended \subseteq Readable /\ finished \subseteq Writable /\ destroyed \subseteq Stream
  /\ buffer \in [Readable -> Seq(Chunk)] /\ length \in [Readable -> Nat]
  /\ held \in Seq(Chunk) /\ writing \in [Writable -> Seq(Chunk)] /\ wlength \in Nat
  /\ piped \in BOOLEAN /\ watched \in BOOLEAN /\ waiting \in BOOLEAN
  /\ agenda \in Seq(Todo)
  /\ calls \in 0 .. MaxCalls /\ pushed \in 0 .. MaxChunks
  /\ arrived \in Seq(Chunk)
  /\ taken \subseteq Chunk /\ dropped \subseteq Chunk /\ skimmed \in Nat
  /\ closes \in [Stream -> Nat] /\ reports \in Seq({"ok", "error"}) /\ resumes \in [Readable -> Nat]

Init ==
  /\ flowing = [s \in Readable |-> "null"]
  /\ ended = {} /\ finished = {} /\ destroyed = {}
  /\ buffer = [s \in Readable |-> <<>>] /\ length = [s \in Readable |-> 0]
  /\ held = <<>> /\ writing = [s \in Writable |-> <<>>] /\ wlength = 0
  /\ piped = FALSE /\ watched \in BOOLEAN /\ waiting = FALSE /\ agenda = <<>>
  /\ calls = 0 /\ pushed = 0
  /\ arrived = <<>> /\ taken = {} /\ skimmed = 0 /\ dropped = {}
  /\ closes = [s \in Stream |-> 0] /\ reports = <<>> /\ resumes = [s \in Readable |-> 0]

-----------------------------------------------------------------------------
(* The calls of the script, from outside every call or from its listener.  *)
ScriptRuns ==
  /\ calls < MaxCalls
  /\ agenda # <<>> => Head(agenda).do = "listener" /\ Len(agenda) <= MaxAgenda

(* A call goes before what the calls around it still have to do; the       *)
(* listener may go on calling, or return.                                  *)
Call(todo) == agenda' = todo \o agenda /\ calls' = calls + 1

Push ==
  /\ ScriptRuns /\ pushed < MaxChunks
  /\ pushed' = pushed + 1
  /\ Call(<<DoChunk("push", "src", pushed + 1)>>)
  /\ UNCHANGED <<readVars, writeVars, destroyed, piped, watched, waiting, history>>

(* push(null) *)
PushNull(s) ==
  /\ ScriptRuns
  /\ ended' = ended \cup {s}
  /\ Call(<<Emit(s, "end", Nothing)>>)
  /\ UNCHANGED <<flowing, buffer, length, held, writeVars, destroyed, piped, watched,
                 pushed, waiting, history>>

Pause(s) == ScriptRuns /\ Call(<<Do("pause", s)>>)
Resume(s) == ScriptRuns /\ Call(<<Do("resume", s)>>)
Destroy(s) == ScriptRuns /\ Call(<<DoChunk("destroy", s, 1)>>)    \* with an error
Close(s) == ScriptRuns /\ Call(<<Do("destroy", s)>>)              \* without
End(s) == ScriptRuns /\ Call(<<Do("end", s)>>)

Control ==
  /\ \/ \E s \in Readable : Pause(s) \/ Resume(s)
     \/ \E s \in Stream : Destroy(s) \/ Close(s)
     \/ \E s \in Writable : End(s)
  /\ UNCHANGED <<readVars, writeVars, destroyed, piped, watched, pushed, waiting, history>>

(* read(): of an empty buffer, the default _read, which is push(null);     *)
(* mid's _read pushes one chunk of the transform's own buffer instead.     *)
ReadEmpty(s) ==
  IF s = "src"
  THEN /\ ended' = ended \cup {s}
       /\ Call(<<Emit(s, "end", Nothing)>>)
       /\ UNCHANGED held
  ELSE /\ held' = IF held = <<>> THEN held ELSE Tail(held)
       /\ Call(IF held = <<>> THEN <<>> ELSE <<DoChunk("push", s, Head(held))>>)
       /\ UNCHANGED ended

Read(s) ==
  /\ ScriptRuns
  /\ IF buffer[s] = <<>>
     THEN ReadEmpty(s) /\ UNCHANGED <<buffer, length, taken>>
     ELSE /\ buffer' = [buffer EXCEPT ![s] = Tail(@)]
          /\ length' = [length EXCEPT ![s] = @ - 1]
          /\ taken' = taken \cup {Head(buffer[s])}
          /\ Call(<<>>)
          /\ UNCHANGED <<ended, held>>
  /\ UNCHANGED <<flowing, writeVars, destroyed, piped, watched, pushed, waiting, arrived,
                 skimmed, dropped, closes, reports, resumes>>

(* The iterator takes from the buffer and leaves the length as it is; on   *)
(* an empty buffer it listens, and resumes the stream.                     *)
IteratorNext ==
  /\ ScriptRuns /\ ~waiting
  /\ IF buffer["src"] # <<>>
     THEN /\ buffer' = [buffer EXCEPT !["src"] = Tail(@)]
          /\ taken' = taken \cup {Head(buffer["src"])}
          /\ skimmed' = skimmed + 1
          /\ Call(<<>>) /\ UNCHANGED waiting
     ELSE /\ waiting' = TRUE
          /\ Call(<<Do("resume", "src")>>)
          /\ UNCHANGED <<buffer, taken, skimmed>>
  /\ UNCHANGED <<flowing, ended, length, held, writeVars, destroyed, piped, watched, pushed,
                 arrived, dropped, closes, reports, resumes>>

Pipeline ==
  /\ ScriptRuns /\ ~piped
  /\ piped' = TRUE /\ Call(<<>>)
  /\ UNCHANGED <<readVars, writeVars, destroyed, watched, pushed, waiting, history>>

ListenerReturns ==
  /\ agenda # <<>> /\ Head(agenda).do = "listener"
  /\ agenda' = Tail(agenda)
  /\ UNCHANGED <<readVars, writeVars, destroyed, scriptVars, waiting, history>>

(* An exception unwinds to the listener around it, if there is one.        *)
ListenerThrows ==
  /\ agenda # <<>> /\ Head(agenda).do = "listener"
  /\ LET next == SelectInSeq(Tail(agenda), LAMBDA item : item.do = "listener")
     IN agenda' = IF next = 0 THEN <<>> ELSE SubSeq(agenda, next + 1, Len(agenda))
  /\ UNCHANGED <<readVars, writeVars, destroyed, scriptVars, waiting, history>>

-----------------------------------------------------------------------------
(* What the head of the agenda does.                                       *)
Turn(what) == agenda # <<>> /\ Head(agenda).do = what
Of == Head(agenda).of
Ch == Head(agenda).chunk
Then(todo) == agenda' = todo \o Tail(agenda)
When(p, todo) == IF p THEN todo ELSE <<>>

(* A chunk stays in the buffer when it is also emitted.                    *)
PushUnbuffered ==
  /\ Turn("push")
  /\ UNCHANGED <<buffer, length>>
  /\ Then(When(flowing[Of] = "on", <<Emit(Of, "data", Ch)>>))
  /\ UNCHANGED <<flowing, ended, held, writeVars, destroyed, scriptVars, waiting, history>>

DoPush ==
  /\ Turn("push")
  /\ buffer' = [buffer EXCEPT ![Of] = Append(@, Ch)]
  /\ length' = [length EXCEPT ![Of] = @ + 1]
  /\ Then(When(flowing[Of] = "on", <<Emit(Of, "data", Ch)>>))
  /\ UNCHANGED <<flowing, ended, held, writeVars, destroyed, scriptVars, waiting, history>>

DoPause ==
  /\ Turn("pause")
  /\ flowing' = [flowing EXCEPT ![Of] = "off"]
  /\ Then(<<>>)
  /\ UNCHANGED <<ended, buffer, length, held, writeVars, destroyed, scriptVars, waiting, history>>

DoResume ==
  /\ Turn("resume")
  /\ flowing' = [flowing EXCEPT ![Of] = "on"]
  /\ resumes' = [resumes EXCEPT ![Of] = @ + 1]
  /\ Then(<<Do("tick", Of)>>)
  /\ UNCHANGED <<ended, buffer, length, held, writeVars, destroyed, scriptVars, waiting, arrived,
                 taken, skimmed, dropped, closes, reports>>

(* resume's tick: one chunk is read and emitted, then the next.            *)
TickAgain == <<Do("tick", Of)>>

DoTick ==
  /\ Turn("tick")
  /\ IF flowing[Of] = "on" /\ buffer[Of] # <<>>
     THEN /\ buffer' = [buffer EXCEPT ![Of] = Tail(@)]
          /\ length' = [length EXCEPT ![Of] = @ - 1]
          /\ Then(<<Emit(Of, "data", Head(buffer[Of]))>> \o TickAgain)
     ELSE Then(<<>>) /\ UNCHANGED <<buffer, length>>
  /\ UNCHANGED <<flowing, ended, held, writeVars, destroyed, scriptVars, waiting, history>>

DoDestroy ==
  /\ Turn("destroy")
  /\ IF Of \in destroyed
     THEN Then(<<>>) /\ UNCHANGED <<destroyed, closes>>
     ELSE /\ destroyed' = destroyed \cup {Of}
          /\ closes' = [closes EXCEPT ![Of] = @ + 1]
          /\ Then(When(Ch # Nothing, <<Emit(Of, "error", Nothing)>>))
  /\ UNCHANGED <<readVars, writeVars, scriptVars, waiting, arrived, taken, skimmed, dropped,
                 reports, resumes>>

(* Transform's flush pushes nothing.                                       *)
DoEnd ==
  /\ Turn("end")
  /\ finished' = finished \cup {Of}
  /\ Then(<<Emit(Of, "finish", Nothing)>>)
  /\ UNCHANGED <<readVars, writing, wlength, destroyed, scriptVars, waiting, history>>

(* The listeners of pipe, of pipeline and of the iterator; the script's    *)
(* listener for src's chunks comes last.  Nobody listens for "drain",      *)
(* which is never emitted.                                                 *)
Unheard(c) == c # Nothing /\ ~piped /\ ~(Of = "src" /\ (waiting \/ watched))

PipeHears(s, e, c) ==
  CASE piped /\ e = "data" -> <<DoChunk("data", s, c)>>
    [] piped /\ e = "end" -> <<Do("end", Dest(s))>>
    [] piped /\ e = "error" /\ s # "dst" -> <<DoChunk("destroy", Dest(s), 1)>>
    [] OTHER -> <<>>

DoEmit ==
  /\ Turn("emit")
  /\ LET e == Head(agenda).event
         iterHears == Of = "src" /\ waiting /\ e \in {"data", "end", "error"}
         userHears == Of = "src" /\ watched /\ e = "data"
     IN /\ waiting' = (waiting /\ ~iterHears)
        /\ Then(PipeHears(Of, e, Ch) \o When(userHears, <<Do("listener", "src")>>))
        /\ taken' = IF e = "data" /\ (iterHears \/ userHears) THEN taken \cup {Ch} ELSE taken
        /\ dropped' = IF e = "data" /\ Unheard(Ch) THEN dropped \cup {Ch} ELSE dropped
        /\ reports' = CASE piped /\ e = "error" -> Append(reports, "error")
                        [] piped /\ e = "finish" /\ Of = "dst" -> Append(reports, "ok")
                        [] OTHER -> reports
  /\ UNCHANGED <<readVars, writeVars, destroyed, scriptVars, arrived, skimmed, closes, resumes>>

(* pipe's listener: the chunk is written, and if write returns false the   *)
(* source is paused.                                                       *)
Refuses(s) == s \in finished \cup destroyed

DoData ==
  /\ Turn("data")
  /\ Then(IF Refuses(Dest(Of)) THEN <<Do("pause", Of)>> ELSE <<DoChunk("write", Dest(Of), Ch)>>)
  /\ dropped' = IF Refuses(Dest(Of)) THEN dropped \cup {Ch} ELSE dropped
  /\ UNCHANGED <<readVars, writeVars, destroyed, scriptVars, waiting, arrived, taken, skimmed,
                 closes, reports, resumes>>

(* _write may call back at once or later.  dst's length is reduced before  *)
(* it is increased when it calls back at once.                             *)
WriteLater ==
  /\ Turn("write")
  /\ writing' = [writing EXCEPT ![Of] = Append(@, Ch)]
  /\ wlength' = IF Of = "dst" THEN wlength + 1 ELSE wlength
  /\ arrived' = IF Of = "dst" THEN Append(arrived, Ch) ELSE arrived
  /\ Then(<<>>)
  /\ UNCHANGED <<readVars, finished, destroyed, scriptVars, waiting, taken, skimmed, dropped,
                 closes, reports, resumes>>

WriteAtOnce ==
  /\ Turn("write") /\ Of = "dst"
  /\ wlength' = (IF wlength = 0 THEN 0 ELSE wlength - 1) + 1
  /\ arrived' = Append(arrived, Ch)
  /\ Then(<<>>)
  /\ UNCHANGED <<readVars, finished, writing, destroyed, scriptVars, waiting, taken, skimmed,
                 dropped, closes, reports, resumes>>

(* The default _transform pushes the chunk; a transform of the script      *)
(* hands its result to the callback, which keeps it until mid flows.       *)
TransformPushes ==
  /\ Turn("write") /\ Of = "mid"
  /\ Then(<<DoChunk("push", "mid", Ch)>>)
  /\ UNCHANGED <<readVars, writeVars, destroyed, scriptVars, waiting, history>>

(* write catches the exception and returns false.                         *)
WriteThrows ==
  /\ Turn("write")
  /\ dropped' = dropped \cup {Ch}
  /\ Then(<<Do("pause", Upstream(Of))>>)
  /\ UNCHANGED <<readVars, writeVars, destroyed, scriptVars, waiting, arrived, taken, skimmed,
                 closes, reports, resumes>>

EmitReadable(kept) ==
  IF flowing["mid"] = "on"
  THEN held' = <<>> /\ agenda' = [i \in DOMAIN kept |-> DoChunk("push", "mid", kept[i])] \o agenda
  ELSE held' = kept /\ UNCHANGED agenda

TransformCallsBack(result) ==
  /\ agenda = <<>> /\ writing["mid"] # <<>>
  /\ writing' = [writing EXCEPT !["mid"] = Tail(@)]
  /\ IF result = "ok"
     THEN EmitReadable(Append(held, Head(writing["mid"]))) /\ UNCHANGED dropped
     ELSE dropped' = dropped \cup {Head(writing["mid"])} /\ UNCHANGED <<held, agenda>>
  /\ UNCHANGED <<flowing, ended, buffer, length, finished, wlength, destroyed, scriptVars, waiting,
                 arrived, taken, skimmed, closes, reports, resumes>>

WriteCallsBack ==
  /\ agenda = <<>> /\ writing["dst"] # <<>>
  /\ writing' = [writing EXCEPT !["dst"] = Tail(@)]
  /\ wlength' = wlength - 1
  /\ UNCHANGED <<readVars, finished, destroyed, scriptVars, waiting, agenda, history>>

Next ==
  \/ Push \/ Control \/ IteratorNext \/ Pipeline
  \/ \E s \in Readable : PushNull(s) \/ Read(s)
  \/ ListenerReturns \/ ListenerThrows
  \/ DoPush \/ DoPause \/ DoResume \/ DoTick \/ DoDestroy \/ DoEnd \/ DoEmit \/ DoData
  \/ WriteLater \/ WriteAtOnce \/ WriteThrows \/ TransformPushes \/ WriteCallsBack
  \/ \E result \in {"ok", "error"} : TransformCallsBack(result)

Spec == Init /\ [][Next]_vars

-----------------------------------------------------------------------------
(* No chunk vanishes: each one pushed is in a buffer, on its way, with     *)
(* whoever took it, or was dropped where the code drops it.                *)
OnItsWay == {agenda[i].chunk : i \in {j \in DOMAIN agenda : agenda[j].do # "destroy"}}

NothingVanishes ==
  1 .. pushed \subseteq ToSet(buffer["src"]) \cup ToSet(buffer["mid"]) \cup ToSet(held)
                        \cup ToSet(writing["mid"]) \cup ToSet(arrived) \cup OnItsWay
                        \cup taken \cup dropped

(* readableLength is the length of the buffer, but for what an iterator    *)
(* took out of it; writableLength covers the writes in progress.           *)
LengthsAgree ==
  /\ length["src"] = Len(buffer["src"]) + skimmed /\ length["mid"] = Len(buffer["mid"])
  /\ wlength >= Len(writing["dst"])

(* A chunk arrives once, as long as each stream is resumed once: push      *)
(* leaves in the buffer what it emits, and resuming emits the buffer.  The *)
(* same happens when a listener pushes while resume empties the buffer.    *)
ArrivesOnce ==
  (~watched /\ \A s \in Readable : resumes[s] <= 1) => IsInjective(arrived)

(* A stream emits "close" once, whoever destroys it from wherever.         *)
ClosesOnce == \A s \in Stream : closes[s] <= 1
=============================================================================
