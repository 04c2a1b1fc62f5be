---------------------------- MODULE MCDescriptors ----------------------------
(***************************************************************************)
(* The three descriptor tables of an instance, of streams and listeners,   *)
(* files and datagram sockets, with the objects of the shims that hold     *)
(* descriptors, and the bytes of one stream.  They share no state, so one  *)
(* run checks them side by side; `table` names what moves.                 *)
(***************************************************************************)
EXTENDS NetSockets, TLC

CONSTANTS
  Path, Root, Given, GivenChunks, MaxOpen, MaxFileFd, MaxChunks, Deferred, MaxLater,
  UdpSocket, Port, AnyPort, MaxUdpSockets, MaxUdpFd, MaxQueue,
  Room, MaxRead, MaxWrites

ASSUME UdpAssumption == MaxUdpSockets \in Nat /\ MaxUdpFd \in Nat /\ MaxQueue \in Nat

VARIABLES
  table,
  fs, own, fileClosed, readers, writers, later,
  nextUdp, sockets, queue, from, udpFd, bound, udpClosed, polling, reopened,
  stage, heard, unsent, outbox, left, accepted, cut, inbox, sent, gone, got, writes, ending

MCParent == [p \in Path |-> IF p = "g" THEN "d" ELSE Root]

F == INSTANCE Files WITH Parent <- MCParent, MaxFd <- MaxFileFd, closed <- fileClosed
ASSUME FilesAssumption ==
  /\ IsFiniteSet(Path) /\ Root \notin Path /\ MCParent \in [Path -> Path \cup {Root}]
  /\ GivenChunks \in Nat \ {0} /\ MaxChunks \in Nat
  /\ MaxOpen \in Nat /\ MaxFileFd \in Nat /\ MaxLater \in Nat

U == INSTANCE Udp WITH Socket <- UdpSocket, Any <- AnyPort, MaxSockets <- MaxUdpSockets, MaxFd <- MaxUdpFd,
                       nextFd <- nextUdp, fd <- udpFd, closed <- udpClosed

MCData == {<<200>>, <<65, 8364>>}

ASSUME ByteAssumption ==
  MCData \subseteq Seq(Nat) /\ Room \in Nat /\ MaxRead \in Nat /\ MaxWrites \in Nat

B == INSTANCE ByteStreams WITH Data <- MCData, held <- unsent

fileVars == <<fs, own, fileClosed, readers, writers, later>>
udpVars == <<nextUdp, sockets, queue, from, udpFd, bound, udpClosed, polling, reopened>>
byteVars == <<stage, heard, unsent, outbox, left, accepted, cut, inbox, sent, gone, got,
              writes, ending>>

Symmetry == Permutations(Socket) \cup Permutations(Server)

SumInit ==
  /\ table \in {"net", "files", "udp", "bytes"}
  /\ Init /\ F!Init /\ U!Init
  /\ IF table = "bytes" THEN B!Init ELSE B!Start(FALSE)
  /\ table # "net" => client /\ closes

SumNext ==
  /\ UNCHANGED table
  /\ \/ table = "net" /\ Next /\ UNCHANGED <<fileVars, udpVars, byteVars>>
     \/ table = "files" /\ F!Next /\ UNCHANGED <<vars, udpVars, byteVars>>
     \/ table = "udp" /\ U!Next /\ UNCHANGED <<vars, fileVars, byteVars>>
     \/ table = "bytes" /\ B!Next /\ UNCHANGED <<vars, fileVars, udpVars>>

SumSpec == SumInit /\ [][SumNext]_<<table, vars, fileVars, udpVars, byteVars>>

-----------------------------------------------------------------------------
(* Files: an open descriptor has one holder, the script or a stream; one   *)
(* that was closed never reaches a file again; a read stream gives its     *)
(* chunks in order, every other one.  Datagram sockets: the table and the  *)
(* Socket objects agree, and a Socket is polled from its first bind to its *)
(* close.  Bytes: they are read in the order in which they were sent, and  *)
(* leave as they were written; end closes.                                 *)
DescriptorsAreHeld ==
  /\ F!DescriptorsAreHeld /\ F!ClosedStaysClosed /\ F!EveryOtherChunk
  /\ U!TableIsHeld /\ U!PolledWhileBound
  /\ B!ReadsInOrder /\ B!BytesArrive /\ B!EndCloses

(* The state of every table has its type.                                  *)
TypesOK == TypeOK /\ F!TypeOK /\ U!TypeOK /\ B!TypeOK
=============================================================================
