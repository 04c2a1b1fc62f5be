----------------------------- MODULE ByteStreams -----------------------------
(***************************************************************************)
(* The bytes of a koss:net Socket (src/src/js_shims/koss_shim/net.js):     *)
(* write, end and the read interval over __koss_tcp_write and              *)
(* __koss_tcp_read (src/src/runtime.rs), which do not block, and the       *)
(* queues that the system keeps for the two ends of the connection.        *)
(*                                                                         *)
(* NetSockets has the descriptors; here one socket is followed, whose      *)
(* review of operations lets every call pass.                              *)
(***************************************************************************)
EXTENDS Naturals, Sequences, SequencesExt

CONSTANTS
  Data,      \* what a script or the peer writes: sequences of code units
  Room,      \* bytes the system takes before it would block
  MaxRead,   \* bytes of one read (65536)
  MaxWrites  \* bound: writes of each end

VARIABLES
  stage,     \* "new", "open" (it has a descriptor) or "destroyed"
  heard,     \* 'error' has a listener: emit does not throw
  held,      \* _buffer: what was written before there was a descriptor
  outbox,    \* bytes the system took and the peer has not read yet
  left,      \* history: all the bytes it took
  accepted,  \* history: what was written to the descriptor, and answered well
  cut,       \* history: a write was taken in part
  inbox,     \* bytes that arrived and are not read
  sent,      \* history: all the bytes that arrived
  gone,      \* the peer: "no", "ended" its stream or "reset" the connection
  got,       \* history: the bytes of the 'data' events
  writes,    \* history: writes of the script and of the peer
  ending     \* "no", "called" (end was) or "thrown" (it threw midway)

outVars == <<held, outbox, left, accepted, cut>>
inVars == <<inbox, sent, got>>
vars == <<stage, heard, outVars, inVars, gone, writes, ending>>

Byte == 0 .. 255

TypeOK ==
  /\ stage \in {"new", "open", "destroyed"} /\ heard \in BOOLEAN /\ cut \in BOOLEAN
  /\ held \in Seq(Data) /\ accepted \in Seq(Nat)
  /\ \A bytes \in {outbox, left, inbox, sent, got} : bytes \in Seq(Byte)
  /\ gone \in {"no", "ended", "reset"}
  /\ writes \in 0 .. 2 * MaxWrites
  /\ ending \in {"no", "called", "thrown"}

Start(listens) ==
  /\ stage = "new" /\ heard = listens /\ gone = "no" /\ writes = 0 /\ ending = "no"
  /\ held = <<>> /\ outbox = <<>> /\ left = <<>> /\ accepted = <<>> /\ cut = FALSE
  /\ inbox = <<>> /\ sent = <<>> /\ got = <<>>

Init == \E listens \in BOOLEAN : Start(listens)

-----------------------------------------------------------------------------
(* Mistake: only seven bits are sent. *)
BytesOfSevenBits(data) == [i \in DOMAIN data |-> data[i] % 128]

(* A code unit is sent as its low byte, whatever the encoding asked for.   *)
Bytes(data) == [i \in DOMAIN data |-> data[i] % 256]

(* __koss_tcp_write: as much as there is room for; without room, or after  *)
(* a reset, it throws.                                                     *)
Full == Len(outbox) >= Room \/ gone = "reset"

Take(data) ==
  LET room == Room - Len(outbox)
      bytes == Bytes(SubSeq(data, 1, IF Len(data) < room THEN Len(data) ELSE room))
  IN /\ outbox' = outbox \o bytes
     /\ left' = left \o bytes
     /\ cut' = (cut \/ Len(bytes) < Len(data))

(* __koss_tcp_read, every ten milliseconds: the end of the stream is the   *)
(* same null as no data, and an error that does not say "closed" is        *)
(* ignored.                                                                *)
ReadTick ==
  /\ stage = "open" /\ inbox # <<>> /\ gone # "reset"
  /\ LET n == IF Len(inbox) < MaxRead THEN Len(inbox) ELSE MaxRead
     IN got' = got \o SubSeq(inbox, 1, n) /\ inbox' = SubSeq(inbox, n + 1, Len(inbox))
  /\ UNCHANGED <<stage, heard, outVars, sent, gone, writes, ending>>

-----------------------------------------------------------------------------
(* connect: what was written before stays in _buffer.                      *)
Connect ==
  /\ stage = "new" /\ ending = "no"
  /\ stage' = "open"
  /\ UNCHANGED <<heard, outVars, inVars, gone, writes, ending>>

(* What write does to the bytes; the count that was taken is not looked at. *)
Hand(data) ==
  CASE stage = "new" -> /\ held' = Append(held, data)
                        /\ UNCHANGED <<outbox, left, accepted, cut>>
    [] stage = "open" /\ ~Full -> /\ Take(data)
                                  /\ accepted' = accepted \o data
                                  /\ UNCHANGED held
    [] OTHER -> UNCHANGED outVars

(* The error of a write without a callback goes to 'error'.                *)
Throws == stage = "open" /\ Full /\ ~heard

Write(data) ==
  /\ writes < MaxWrites
  /\ Hand(data)
  /\ writes' = writes + 1
  /\ UNCHANGED <<stage, heard, inVars, gone, ending>>

Destroy ==
  /\ stage' = "destroyed"
  /\ inbox' = <<>>
  /\ UNCHANGED <<sent, got>>

(* The script destroys it, or a listener of 'data' does.                   *)
ScriptDestroys ==
  /\ stage # "destroyed" /\ Destroy
  /\ UNCHANGED <<heard, outVars, gone, writes, ending>>

(* end: a write without callback, then destroy; a write that throws is all *)
(* it does.                                                                *)
End(data) ==
  /\ ending # "called"
  /\ Hand(data)
  /\ IF Throws
     THEN ending' = "thrown" /\ UNCHANGED <<stage, inVars>>
     ELSE /\ ending' = "called"
          /\ IF stage = "destroyed" THEN UNCHANGED <<stage, inVars>> ELSE Destroy
  /\ UNCHANGED <<heard, gone, writes>>

-----------------------------------------------------------------------------
(* The peer reads, writes, ends its stream or resets the connection.       *)
PeerReads ==
  /\ outbox # <<>> /\ gone # "reset"
  /\ outbox' = <<>>
  /\ UNCHANGED <<stage, heard, held, left, accepted, cut, inVars, gone, writes, ending>>

PeerWrites(data) ==
  /\ stage = "open" /\ gone = "no" /\ Len(sent) < MaxWrites
  /\ inbox' = inbox \o Bytes(data) /\ sent' = sent \o Bytes(data)
  /\ UNCHANGED <<stage, heard, outVars, got, gone, writes, ending>>

PeerGoes(how) ==
  /\ stage = "open" /\ gone = "no"
  /\ gone' = how
  /\ UNCHANGED <<stage, heard, outVars, inVars, writes, ending>>

Next ==
  \/ Connect \/ ReadTick \/ ScriptDestroys \/ PeerReads
  \/ \E data \in Data : Write(data) \/ End(data) \/ PeerWrites(data)
  \/ \E how \in {"ended", "reset"} : PeerGoes(how)

Spec == Init /\ [][Next]_vars

-----------------------------------------------------------------------------
(* What the 'data' events gave is the beginning of what the peer sent, in  *)
(* order, and as long as the socket is open what is missing is still       *)
(* there.  (After the end of the stream nothing more happens: 'end' is     *)
(* never emitted.)                                                         *)
ReadsInOrder ==
  /\ IsPrefix(got, sent)
  /\ stage = "open" => got \o inbox = sent

(* A socket that never met a full queue sends what was written, byte for   *)
(* byte and in order, binary data too (the comment in __koss_tcp_write);   *)
(* what was written before connect, or is not of bytes, is left out.       *)
BytesArrive ==
  ~cut /\ (\A i \in DOMAIN accepted : accepted[i] \in Byte) => left = accepted

(* Nothing is left open by end, but where its last write threw.            *)
EndCloses == ending = "called" => stage = "destroyed"
=============================================================================
