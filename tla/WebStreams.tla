------------------------------ MODULE WebStreams ------------------------------
(***************************************************************************)
(* ReadableStream, WritableStream and TransformStream of                   *)
(* src/src/js_shims/web_api.js: a source is piped through a transform      *)
(* whose other end a script reads.  A read that finds nothing asks the     *)
(* source once (pull) and then waits in line; enqueue serves the line.     *)
(*                                                                         *)
(* Nothing that is locked is checked again after the lock was released:    *)
(* an old reader goes on reading beside the new one.                       *)
(***************************************************************************)
EXTENDS Naturals, Sequences, FiniteSets

CONSTANTS
  MaxChunks,  \* bound: chunks a source makes
  MaxReads    \* bound: reads of the script on a stream

VARIABLES
  source,   \* the stream at the source
  output,   \* the readable end of the transform
  pump,     \* pipeThrough: "off", "reading", "writing", "closed", "failed"
  handled,  \* where in the answers the one is that the pump took last
  written,  \* the chunks given to the transform, in order
  broken    \* history: what the transform did that leaves its output open

vars == <<source, output, pump, handled, written, broken>>

Pumps == {"off", "reading", "writing", "closed", "failed"}
Reader == {"script", "pump"}

(* A stream: the chunks in its queue, the reads that wait, what was asked  *)
(* of its controller, the lock, how many chunks were made, and the answers *)
(* to the reads, in order.                                                 *)
New == [queue |-> <<>>, waiting |-> <<>>, closing |-> FALSE, ended |-> FALSE,
        failed |-> FALSE, locked |-> FALSE, made |-> 0, answers |-> <<>>]

Done == "done"
Failure == "error"
Reply(to, with, chunk) == [to |-> to, with |-> with, chunk |-> chunk]

StreamOK(s) ==
  /\ s.queue \in Seq(1 .. s.made)
  /\ s.waiting \in Seq(Reader)
  /\ s.made <= MaxChunks
  /\ \A i \in DOMAIN s.answers : s.answers[i].to \in Reader

TypeOK ==
  /\ StreamOK(source) /\ StreamOK(output)
  /\ pump \in Pumps
  /\ handled <= Len(source.answers)
  /\ broken \subseteq {"write", "flush", "cancel"}

Init ==
  /\ source = New /\ output = [New EXCEPT !.locked = TRUE]
  /\ pump = "off" /\ handled = 0
  /\ written = <<>> /\ broken = {}

-----------------------------------------------------------------------------
(* Mistake: the read that waited gets the chunk, and the queue keeps it.   *)
EnqueueKeeping(s) ==
  IF s.waiting = <<>> THEN [s EXCEPT !.queue = Append(@, s.made + 1), !.made = @ + 1]
  ELSE [s EXCEPT !.made = @ + 1, !.waiting = Tail(@),
                 !.answers = Append(@, Reply(Head(s.waiting), "chunk", s.made + 1)),
                 !.queue = Append(@, s.made + 1)]

(* controller.enqueue: the next chunk goes into the queue, and the first   *)
(* read that waits takes the first of the queue.                           *)
Enqueue(s) ==
  LET queue == Append(s.queue, s.made + 1)
  IN IF s.waiting = <<>> THEN [s EXCEPT !.queue = queue, !.made = @ + 1]
     ELSE [s EXCEPT !.made = @ + 1, !.waiting = Tail(@), !.queue = Tail(queue),
                    !.answers = Append(@, Reply(Head(s.waiting), "chunk", Head(queue)))]

(* All who wait get the same answer.                                       *)
AnswerAll(s, with) ==
  [s EXCEPT !.waiting = <<>>,
            !.answers = @ \o [i \in DOMAIN s.waiting |-> Reply(s.waiting[i], with, 0)]]

(* controller.close and controller.error; the first is done once, the      *)
(* second may come after it, and neither looks into the queue.             *)
Close(s) ==
  IF s.closing THEN s ELSE AnswerAll([s EXCEPT !.closing = TRUE, !.ended = TRUE], Done)
Error(s) == AnswerAll([s EXCEPT !.failed = TRUE, !.ended = TRUE], Failure)

(* What pull does before it returns; enqueue throws when the stream was    *)
(* closed, and what pull throws is swallowed.                              *)
Pulls == {"nothing", "chunk", "close", "error"}
Pulled(s, what) ==
  CASE what = "chunk" /\ ~s.closing /\ s.made < MaxChunks -> Enqueue(s)
    [] what = "close" -> Close(s)
    [] what = "error" -> Error(s)
    [] OTHER -> s

(* The queue before the end, the end before waiting; after pull, an error  *)
(* is not looked at again, so that the read which provoked it sees an end. *)
Served(s, who) ==
  IF s.queue # <<>>
  THEN [s EXCEPT !.queue = Tail(@), !.answers = Append(@, Reply(who, "chunk", Head(s.queue)))]
  ELSE IF s.ended THEN [s EXCEPT !.answers = Append(@, Reply(who, Done, 0))]
  ELSE [s EXCEPT !.waiting = Append(@, who)]

Read(s, who, what) ==
  IF s.failed THEN [s EXCEPT !.answers = Append(@, Reply(who, Failure, 0))]
  ELSE IF s.queue # <<>> \/ s.ended THEN Served(s, who)
  ELSE Served(Pulled(s, what), who)

-----------------------------------------------------------------------------
Asked(s, who) ==
  Cardinality({i \in DOMAIN s.answers : s.answers[i].to = who})
    + Cardinality({i \in DOMAIN s.waiting : s.waiting[i] = who})

(* The script has a reader of the source, or had one and read with it.     *)
HasReader == (source.locked /\ pump = "off") \/ Asked(source, "script") > 0

(* The source acts on its own.                                             *)
SourceActs ==
  /\ \/ ~source.closing /\ source.made < MaxChunks /\ source' = Enqueue(source)
     \/ source' = Close(source)
     \/ source' = Error(source)
  /\ UNCHANGED <<output, pump, handled, written, broken>>

(* A script takes a reader, and gives the lock back.                       *)
GetReader ==
  /\ ~source.locked
  /\ source' = [source EXCEPT !.locked = TRUE]
  /\ UNCHANGED <<output, pump, handled, written, broken>>

ReleaseLock ==
  /\ source.locked /\ HasReader
  /\ source' = [source EXCEPT !.locked = FALSE]
  /\ UNCHANGED <<output, pump, handled, written, broken>>

(* It reads the source, with a reader it has or had, or the output, whose  *)
(* source has no pull.                                                     *)
ScriptReads ==
  /\ \/ /\ Asked(source, "script") < MaxReads
        /\ HasReader
        /\ \E what \in Pulls : source' = Read(source, "script", what)
        /\ UNCHANGED output
     \/ /\ Asked(output, "script") < MaxReads
        /\ output' = Read(output, "script", "nothing")
        /\ UNCHANGED source
  /\ UNCHANGED <<pump, handled, written, broken>>

(* reader.cancel: the lock is given back, and those who wait wait on.      *)
CancelOutput ==
  /\ output.locked
  /\ output' = [output EXCEPT !.locked = FALSE]
  /\ broken' = broken \cup {"cancel"}
  /\ UNCHANGED <<source, pump, handled, written>>

-----------------------------------------------------------------------------
(* pipeThrough: a reader, a writer, and the first read.                    *)
PipeThrough ==
  /\ pump = "off" /\ ~source.locked
  /\ \E what \in Pulls :
       source' = Read([source EXCEPT !.locked = TRUE], "pump", what)
  /\ pump' = "reading"
  /\ UNCHANGED <<output, handled, written, broken>>

(* The answers the pump has yet to take; it asks again only after it took  *)
(* the last.                                                               *)
ToPump == {i \in DOMAIN source.answers : i > handled /\ source.answers[i].to = "pump"}

(* The pump's read was answered: a chunk is written, the end closes the    *)
(* writer (what flush throws is swallowed, and then the output is not      *)
(* closed), an error ends the pump, and the output hears nothing of it.    *)
PumpTakes ==
  /\ pump = "reading"
  /\ \E i \in ToPump :
     /\ handled' = i
     /\ LET r == source.answers[i] IN
        \/ /\ r.with = "chunk"
           /\ written' = Append(written, r.chunk)
           /\ \/ /\ pump' = "writing"
                 /\ ~output.closing => output' = Enqueue(output)
                 /\ output.closing => UNCHANGED output
                 /\ UNCHANGED broken
              \/ /\ pump' = "failed" /\ broken' = broken \cup {"write"}
                 /\ UNCHANGED output
        \/ /\ r.with = Done /\ pump' = "closed"
           /\ \/ output' = Close(output) /\ UNCHANGED broken
              \/ broken' = broken \cup {"flush"} /\ UNCHANGED output
           /\ UNCHANGED written
        \/ /\ r.with = Failure /\ pump' = "failed"
           /\ UNCHANGED <<output, written, broken>>
  /\ UNCHANGED source

(* The write was answered: the next read, or, if it failed, nothing more.  *)
PumpReads ==
  /\ pump = "writing"
  /\ \/ /\ pump' = "reading" /\ UNCHANGED broken
        /\ \E what \in Pulls : source' = Read(source, "pump", what)
     \/ /\ pump' = "failed" /\ broken' = broken \cup {"write"}
        /\ UNCHANGED source
  /\ UNCHANGED <<output, handled, written>>

Next ==
  \/ SourceActs \/ GetReader \/ ReleaseLock \/ ScriptReads \/ CancelOutput
  \/ PipeThrough \/ PumpTakes \/ PumpReads

Spec == Init /\ [][Next]_vars

-----------------------------------------------------------------------------
Rising(q) == \A i, j \in DOMAIN q : i < j => q[i] < q[j]
Given(s) == {i \in DOMAIN s.answers : s.answers[i].with = "chunk"}
Taken == {i \in Given(source) : i <= handled /\ source.answers[i].to = "pump"}

(***************************************************************************)
(* Whoever reads, the answers and the queue together are the chunks made,  *)
(* in their order and once each; what was written is what the pump took.   *)
(***************************************************************************)
ChunksInOrderOnce ==
  /\ \A s \in {source, output} :
       /\ \A i, j \in Given(s) : i < j => s.answers[i].chunk < s.answers[j].chunk
       /\ \A i \in Given(s), k \in DOMAIN s.queue : s.answers[i].chunk < s.queue[k]
       /\ Rising(s.queue)
       /\ {s.answers[i].chunk : i \in Given(s)} \cup {s.queue[k] : k \in DOMAIN s.queue} = 1 .. s.made
  /\ Rising(written)
  /\ {written[k] : k \in DOMAIN written} = {source.answers[i].chunk : i \in Taken}
  /\ output.made <= Len(written)

(***************************************************************************)
(* A read waits only while there is nothing to give it and more may come:  *)
(* a pull that enqueues serves those who waited longer first.              *)
(***************************************************************************)
WaitingIsJustified ==
  \A s \in {source, output} : s.waiting # <<>> => s.queue = <<>> /\ ~s.ended

(***************************************************************************)
(* The output ends when the source has ended and everything was written,   *)
(* unless the transform failed or the source did.                          *)
(***************************************************************************)
OutputEndsWithSource ==
  /\ pump = "closed" /\ broken \cap {"flush"} = {} => output.ended
  /\ output.ended => pump = "closed" /\ source.ended /\ ToPump = {}
  /\ pump = "closed" /\ broken = {} => output.made = Len(written)
=============================================================================
