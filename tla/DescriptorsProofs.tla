-------------------------- MODULE DescriptorsProofs --------------------------
(***************************************************************************)
(* Proofs about the descriptor tables: NetSockets, for any sockets,        *)
(* servers, limits and nesting of events; Udp, ByteStreams and Files, as   *)
(* MCDescriptors instantiates them, for any paths, ports, limits and       *)
(* bounds; and the four side by side.                                      *)
(*                                                                         *)
(* The invariant of NetSockets has three parts that do not need each       *)
(* other: the tables against the descriptors that the objects remember,    *)
(* the owners of the streams, and the intervals against the frames of the  *)
(* events in progress.                                                     *)
(***************************************************************************)
EXTENDS MCDescriptors, FiniteSetTheorems, DataFacts

Frame(kind, o) == [kind |-> kind, of |-> o]

(* Descriptors come from their counters, an object has its own, and what   *)
(* is in use is in the table.                                              *)
TablesAgree ==
  /\ \A f \in Fd : connections[f] # Nobody => f < nextConn
  /\ \A s \in Socket : fd[s] < nextConn
  /\ \A s, t \in Socket : fd[s] = fd[t] /\ fd[s] # 0 => s = t
  /\ \A v \in Server : fd[v] # 0 => FirstServerFd <= fd[v] /\ fd[v] < nextServer
  /\ \A v, w \in Server : fd[v] = fd[w] /\ fd[v] # 0 => v = w
  /\ LiveIsOpen

(* A destroyed socket is not in the middle of its connect, and no event of *)
(* a server that does not listen is in progress; a server has one interval *)
(* or none.  Objects closed in their own event are left out.               *)
EventsQuiet ==
  /\ \A s \in destroyed \ odd :
       s \notin connected /\ s \notin reading /\ s \notin idle
       /\ ~Has(emitting, Frame("connect", s))
  /\ \A v \in Server : v \in held => pollers[v] > 0
  /\ \A v \in Server \ odd :
       /\ pollers[v] = IF v \in held THEN 1 ELSE 0
       /\ v \notin listening => v \notin held /\ ~Has(emitting, Frame("listen", v))
       /\ Has(emitting, Frame("listen", v)) => v \notin held
       /\ OnceIn(emitting, Frame("listen", v))

IInv == TypeOK /\ TablesAgree /\ EveryStreamIsOwned /\ EventsQuiet

LEMMA InvariantImplies == IInv => LiveIsOpen /\ EveryStreamIsOwned /\ ClosedIsQuiet
<1> SUFFICES ASSUME IInv PROVE ClosedIsQuiet
  BY DEF IInv, TablesAgree
<1>1. \A s \in destroyed \ odd : s \notin reading /\ s \notin idle
  BY DEF IInv, EventsQuiet
<1>2. \A v \in Server \ (listening \cup odd) : pollers[v] = 0
  BY DEF IInv, EventsQuiet
<1> QED BY <1>1, <1>2 DEF ClosedIsQuiet

LEMMA InitIInv == Init => IInv
<1> SUFFICES ASSUME Init PROVE IInv
  OBVIOUS
<1> USE FdAssumption, ObjectAssumption DEF Init
<1>1. TypeOK
  <2>1. emitting \in Seq(Call)
    BY EmptySeq
  <2>2. /\ connections \in [Fd -> Socket \cup {Nobody}]
        /\ servers \in [Fd -> Server \cup {Nobody}]
        /\ fd \in [Socket \cup Server -> Fd \cup {0}]
        /\ pollers \in [Server -> Nat]
    OBVIOUS
  <2>3. nextConn \in 1 .. MaxFd + 1 /\ nextServer \in FirstServerFd .. MaxFd + 1
    OBVIOUS
  <2> QED BY <2>1, <2>2, <2>3 DEF TypeOK
<1>2. TablesAgree
  BY DEF TablesAgree, LiveIsOpen, Fd
<1>3. EveryStreamIsOwned
  BY DEF EveryStreamIsOwned, Used
<1>4. EventsQuiet
  BY EmptyHasNone DEF EventsQuiet, OnceIn
<1> QED BY <1>1, <1>2, <1>3, <1>4 DEF IInv

-----------------------------------------------------------------------------
(* What the native functions do to the tables. *)
LEMMA TakesConnection ==
  ASSUME TypeOK, NEW s \in Socket, TakeConnection(s)
  PROVE  /\ nextConn \in Fd /\ nextConn' = nextConn + 1 /\ nextConn' \in 1 .. MaxFd + 1
         /\ connections' \in [Fd -> Socket \cup {Nobody}]
         /\ connections'[nextConn] = s
         /\ \A f \in Fd : f # nextConn => connections'[f] = connections[f]
         /\ fd' \in [Socket \cup Server -> Fd \cup {0}]
         /\ fd'[s] = nextConn
         /\ \A o \in Socket \cup Server : o # s => fd'[o] = fd[o]
BY FdAssumption DEF TakeConnection, TypeOK, Fd

LEMMA TakesServer ==
  ASSUME TypeOK, NEW v \in Server, TakeServer(v)
  PROVE  /\ nextServer \in Fd /\ nextServer' = nextServer + 1
         /\ nextServer' \in FirstServerFd .. MaxFd + 1
         /\ servers' \in [Fd -> Server \cup {Nobody}]
         /\ servers'[nextServer] = v
         /\ \A f \in Fd : f # nextServer => servers'[f] = servers[f]
         /\ fd' \in [Socket \cup Server -> Fd \cup {0}]
         /\ fd'[v] = nextServer
         /\ \A o \in Socket \cup Server : o # v => fd'[o] = fd[o]
BY FdAssumption DEF TakeServer, TypeOK, Fd

LEMMA ClosesNumber ==
  ASSUME TypeOK, NEW f \in Fd \cup {0}, NativeClose(f)
  PROVE  /\ connections' \in [Fd -> Socket \cup {Nobody}]
         /\ servers' \in [Fd -> Server \cup {Nobody}]
         /\ \A g \in Fd : connections'[g] = IF closes /\ g = f THEN Nobody ELSE connections[g]
         /\ \A g \in Fd : servers'[g] = IF closes /\ g = f THEN Nobody ELSE servers[g]
<1>1. 0 \notin Fd
  BY FdAssumption DEF Fd
<1>2. CASE closes /\ f # 0
  <2>1. f \in Fd
    BY <1>2
  <2>2. /\ connections' = [connections EXCEPT ![f] = Nobody]
        /\ servers' = [servers EXCEPT ![f] = Nobody]
    BY <1>2 DEF NativeClose
  <2> QED BY <1>2, <2>1, <2>2 DEF TypeOK
<1>3. CASE ~(closes /\ f # 0)
  BY <1>1, <1>3 DEF NativeClose, TypeOK
<1> QED BY <1>2, <1>3

(* What the beginning and the end of an event do to the frames. *)
LEMMA EmitsFrame ==
  ASSUME emitting \in Seq(Call), NEW kind, NEW o, Frame(kind, o) \in Call, Emit(kind, o)
  PROVE  /\ emitting' \in Seq(Call)
         /\ \A c : Has(emitting', c) <=> Has(emitting, c) \/ c = Frame(kind, o)
         /\ \A c : OnceIn(emitting, c) /\ c # Frame(kind, o) => OnceIn(emitting', c)
         /\ ~Has(emitting, Frame(kind, o)) => OnceIn(emitting', Frame(kind, o))
<1>1. emitting' = Append(emitting, Frame(kind, o))
  BY DEF Emit, Frame
<1> QED BY <1>1, AppendHas, AppendOnceIn

LEMMA LeavesFrame ==
  ASSUME emitting \in Seq(Call), NEW kind, NEW o, Leave(kind, o)
  PROVE  /\ emitting' \in Seq(Call)
         /\ Has(emitting, Frame(kind, o))
         /\ \A c : Has(emitting', c) => Has(emitting, c)
         /\ \A c : OnceIn(emitting, c) => OnceIn(emitting', c)
         /\ OnceIn(emitting, Frame(kind, o)) => ~Has(emitting', Frame(kind, o))
<1>1. emitting # <<>> /\ emitting[Len(emitting)] = Frame(kind, o)
      /\ emitting' = SubSeq(emitting, 1, Len(emitting) - 1)
  BY DEF Leave, Frame
<1> QED BY <1>1, PopHas

LEMMA EmittingIsHas ==
  ASSUME NEW kind, NEW o
  PROVE  Emitting(kind, o) <=> Has(emitting, Frame(kind, o))
BY DEF Emitting, Has, Frame

LEMMA FramesDiffer ==
  /\ \A s \in Socket : Frame("connect", s) \in Call /\ Frame("destroy", s) \in Call
  /\ \A v \in Server : Frame("listen", v) \in Call
  /\ \A kind, o, k, p : Frame(kind, o) = Frame(k, p) => kind = k /\ o = p
<1>1. /\ \A s \in Socket : Frame("connect", s) \in Call /\ Frame("destroy", s) \in Call
      /\ \A v \in Server : Frame("listen", v) \in Call
  BY DEF Frame, Call
<1>2. ASSUME NEW kind, NEW o, NEW k, NEW p, Frame(kind, o) = Frame(k, p)
      PROVE  kind = k /\ o = p
  <2>1. Frame(kind, o).kind = kind /\ Frame(k, p).kind = k
    BY DEF Frame
  <2>2. Frame(kind, o).of = o /\ Frame(k, p).of = p
    BY DEF Frame
  <2> QED BY <1>2, <2>1, <2>2
<1> QED BY <1>1, <1>2

-----------------------------------------------------------------------------
(* Sockets *)

(* A connected socket has a new descriptor; the one it had is in lost.     *)
LEMMA ConnectIInv ==
  ASSUME IInv, NEW s \in Socket, Connect(s)
  PROVE  IInv'
<1> USE FdAssumption, ObjectAssumption
<1>0. TypeOK /\ TablesAgree /\ EveryStreamIsOwned /\ EventsQuiet
  BY DEF IInv
<1>1. /\ nextConn \in Fd /\ nextConn' = nextConn + 1 /\ nextConn' \in 1 .. MaxFd + 1
      /\ connections' \in [Fd -> Socket \cup {Nobody}]
      /\ connections'[nextConn] = s
      /\ \A f \in Fd : f # nextConn => connections'[f] = connections[f]
      /\ fd' \in [Socket \cup Server -> Fd \cup {0}]
      /\ fd'[s] = nextConn
      /\ \A o \in Socket \cup Server : o # s => fd'[o] = fd[o]
  BY <1>0, TakesConnection DEF Connect
<1>2. /\ UNCHANGED <<client, closes, nextServer, servers, destroyed, reading, idle,
                     listening, held, pollers>>
      /\ connected' = connected \cup {s}
      /\ lost' = lost \cup {f \in Fd : connections[f] = s}
                      \cup (IF s \in destroyed THEN {nextConn} ELSE {})
      /\ odd' = IF s \in destroyed THEN odd \cup {s} ELSE odd
  BY DEF Connect, serverVars
<1>3. /\ emitting' \in Seq(Call)
      /\ \A c : Has(emitting', c) <=> Has(emitting, c) \/ c = Frame("connect", s)
      /\ \A c : OnceIn(emitting, c) /\ c # Frame("connect", s) => OnceIn(emitting', c)
  BY <1>0, EmitsFrame, FramesDiffer DEF Connect, TypeOK
<1>4. TypeOK'
  BY <1>0, <1>1, <1>2, <1>3 DEF TypeOK
<1>5. TablesAgree'
  <2>1. /\ \A f \in Fd : connections'[f] # Nobody => f < nextConn'
        /\ \A t \in Socket : fd'[t] < nextConn'
    <3>1. \A f \in Fd : f # nextConn => (connections'[f] # Nobody => f < nextConn)
      BY <1>0, <1>1 DEF TablesAgree
    <3>2. \A t \in Socket : t # s => fd'[t] < nextConn
      BY <1>0, <1>1 DEF TablesAgree
    <3>3. nextConn \in Nat /\ \A t \in Socket : fd'[t] \in Nat
      BY <1>1 DEF Fd
    <3> QED BY <1>1, <3>1, <3>2, <3>3 DEF Fd
  <2>2. \A t, u \in Socket : fd'[t] = fd'[u] /\ fd'[t] # 0 => t = u
    <3>1. \A t \in Socket : t # s => fd'[t] # nextConn
      BY <1>0, <1>1 DEF TablesAgree, Fd
    <3> QED BY <1>0, <1>1, <3>1 DEF TablesAgree
  <2>3. \A v1 \in Server : fd'[v1] = fd[v1]
    BY <1>1
  <2>4. LiveIsOpen'
    <3> SUFFICES ASSUME nextConn' <= FirstServerFd
                 PROVE  /\ \A t \in connected' : fd'[t] \in Fd /\ connections'[fd'[t]] = t
                        /\ \A w \in listening : fd[w] \in Fd /\ servers[fd[w]] = w
      BY <1>0, <1>2, <2>3 DEF LiveIsOpen, TypeOK
    <3>1. nextConn <= FirstServerFd
      BY <1>1 DEF Fd
    <3>2. \A t \in connected' : fd'[t] \in Fd /\ connections'[fd'[t]] = t
      <4> TAKE t \in connected'
      <4>1. CASE t = s
        BY <1>1, <4>1
      <4>2. CASE t # s
        <5>1. t \in Socket /\ fd[t] \in Fd /\ connections[fd[t]] = t
          BY <1>0, <1>2, <3>1, <4>2 DEF TablesAgree, LiveIsOpen, TypeOK
        <5>2. fd[t] # nextConn
          BY <1>0, <1>1, <5>1 DEF TablesAgree, Fd
        <5> QED BY <1>1, <4>2, <5>1, <5>2
      <4> QED BY <4>1, <4>2
    <3> QED BY <1>0, <3>1, <3>2 DEF TablesAgree, LiveIsOpen
  <2> QED BY <1>0, <1>2, <2>1, <2>2, <2>3, <2>4 DEF TablesAgree
<1>6. EveryStreamIsOwned'
  <2> SUFFICES ASSUME closes, NEW f \in Fd, connections'[f] # Nobody, f \notin lost'
               PROVE  fd'[connections'[f]] = f /\ connections'[f] \notin destroyed
    BY <1>2 DEF EveryStreamIsOwned, Used
  <2> QED BY <1>0, <1>1, <1>2 DEF TypeOK, EveryStreamIsOwned, Used
<1>7. EventsQuiet'
  <2>1. \A t \in Socket : t # s => Frame("connect", t) # Frame("connect", s)
    BY FramesDiffer
  <2>2. \A v \in Server : Frame("listen", v) # Frame("connect", s)
    BY FramesDiffer
  <2>3. \A t \in destroyed' \ odd' : t \in destroyed \ odd /\ t # s
    BY <1>2
  <2>4. \A t \in destroyed' \ odd' :
          t \notin connected' /\ t \notin reading' /\ t \notin idle'
          /\ ~Has(emitting', Frame("connect", t))
    BY <1>0, <1>2, <1>3, <2>1, <2>3 DEF EventsQuiet, TypeOK
  <2>5. \A v \in Server \ odd' : v \in Server \ odd
    BY <1>2
  <2> QED BY <1>0, <1>2, <1>3, <2>2, <2>4, <2>5 DEF EventsQuiet
<1> QED BY <1>4, <1>5, <1>6, <1>7 DEF IInv

(* A new socket comes from the interval of a server. *)
LEMMA AcceptIInv ==
  ASSUME IInv, NEW v \in Server, NEW s \in Socket, Accept(v, s)
  PROVE  IInv'
<1> USE FdAssumption, ObjectAssumption
<1>0. TypeOK /\ TablesAgree /\ EveryStreamIsOwned /\ EventsQuiet
  BY DEF IInv
<1>1. /\ nextConn \in Fd /\ nextConn' = nextConn + 1 /\ nextConn' \in 1 .. MaxFd + 1
      /\ connections' \in [Fd -> Socket \cup {Nobody}]
      /\ connections'[nextConn] = s
      /\ \A f \in Fd : f # nextConn => connections'[f] = connections[f]
      /\ fd' \in [Socket \cup Server -> Fd \cup {0}]
      /\ fd'[s] = nextConn
      /\ \A o \in Socket \cup Server : o # s => fd'[o] = fd[o]
  BY <1>0, TakesConnection DEF Accept
<1>2. /\ UNCHANGED <<client, closes, nextServer, servers, destroyed, idle,
                     listening, held, pollers, emitting, lost, odd>>
      /\ connected' = connected \cup {s} /\ reading' = reading \cup {s}
      /\ fd[s] = 0 /\ s \notin destroyed
  BY DEF Accept, serverVars, Fresh
<1>4. TypeOK'
  BY <1>0, <1>1, <1>2 DEF TypeOK
<1>5. TablesAgree'
  <2>1. /\ \A f \in Fd : connections'[f] # Nobody => f < nextConn'
        /\ \A t \in Socket : fd'[t] < nextConn'
    <3>1. \A f \in Fd : f # nextConn => (connections'[f] # Nobody => f < nextConn)
      BY <1>0, <1>1 DEF TablesAgree
    <3>2. \A t \in Socket : t # s => fd'[t] < nextConn
      BY <1>0, <1>1 DEF TablesAgree
    <3>3. nextConn \in Nat /\ \A t \in Socket : fd'[t] \in Nat
      BY <1>1 DEF Fd
    <3> QED BY <1>1, <3>1, <3>2, <3>3 DEF Fd
  <2>2. \A t, u \in Socket : fd'[t] = fd'[u] /\ fd'[t] # 0 => t = u
    <3>1. \A t \in Socket : t # s => fd'[t] # nextConn
      BY <1>0, <1>1 DEF TablesAgree, Fd
    <3> QED BY <1>0, <1>1, <3>1 DEF TablesAgree
  <2>3. \A v1 \in Server : fd'[v1] = fd[v1]
    BY <1>1
  <2>4. LiveIsOpen'
    <3> SUFFICES ASSUME nextConn' <= FirstServerFd
                 PROVE  /\ \A t \in connected' : fd'[t] \in Fd /\ connections'[fd'[t]] = t
                        /\ \A w \in listening : fd[w] \in Fd /\ servers[fd[w]] = w
      BY <1>0, <1>2, <2>3 DEF LiveIsOpen, TypeOK
    <3>1. nextConn <= FirstServerFd
      BY <1>1 DEF Fd
    <3>2. \A t \in connected' : fd'[t] \in Fd /\ connections'[fd'[t]] = t
      <4> TAKE t \in connected'
      <4>1. CASE t = s
        BY <1>1, <4>1
      <4>2. CASE t # s
        <5>1. t \in Socket /\ fd[t] \in Fd /\ connections[fd[t]] = t
          BY <1>0, <1>2, <3>1, <4>2 DEF TablesAgree, LiveIsOpen, TypeOK
        <5>2. fd[t] # nextConn
          BY <1>0, <1>1, <5>1 DEF TablesAgree, Fd
        <5> QED BY <1>1, <4>2, <5>1, <5>2
      <4> QED BY <4>1, <4>2
    <3> QED BY <1>0, <3>1, <3>2 DEF TablesAgree, LiveIsOpen
  <2> QED BY <1>0, <1>2, <2>1, <2>2, <2>3, <2>4 DEF TablesAgree
<1>6. EveryStreamIsOwned'
  <2> SUFFICES ASSUME closes, NEW f \in Fd, connections'[f] # Nobody, f \notin lost
               PROVE  fd'[connections'[f]] = f /\ connections'[f] \notin destroyed
    BY <1>2 DEF EveryStreamIsOwned, Used
  <2>1. 0 \notin Fd
    BY DEF Fd
  <2> QED BY <1>0, <1>1, <1>2, <2>1 DEF TypeOK, EveryStreamIsOwned, Used
<1>7. EventsQuiet'
  BY <1>0, <1>2 DEF EventsQuiet
<1> QED BY <1>4, <1>5, <1>6, <1>7 DEF IInv

(* A socket closes its number, if it has one, and is quiet from then on.   *)
LEMMA DestroyIInv ==
  ASSUME IInv, NEW s \in Socket, Destroy(s)
  PROVE  IInv'
<1> USE FdAssumption, ObjectAssumption
<1>0. TypeOK /\ TablesAgree /\ EveryStreamIsOwned /\ EventsQuiet
  BY DEF IInv
<1>1. /\ connections' \in [Fd -> Socket \cup {Nobody}]
      /\ servers' \in [Fd -> Server \cup {Nobody}]
      /\ \A g \in Fd : connections'[g] = IF closes /\ g = fd[s] THEN Nobody ELSE connections[g]
      /\ \A g \in Fd : servers'[g] = IF closes /\ g = fd[s] THEN Nobody ELSE servers[g]
  <2>1. fd[s] \in Fd \cup {0}
    BY <1>0 DEF TypeOK
  <2> QED BY <1>0, <2>1, ClosesNumber DEF Destroy
<1>2. /\ UNCHANGED <<client, closes, nextConn, nextServer, fd, listening, held, pollers, lost>>
      /\ destroyed' = destroyed \cup {s} /\ reading' = reading \ {s}
      /\ idle' = idle \ {s} /\ connected' = connected \ {s}
      /\ odd' = IF Has(emitting, Frame("connect", s)) THEN odd \cup {s} ELSE odd
  BY EmittingIsHas DEF Destroy, serverVars
<1>3. /\ emitting' \in Seq(Call)
      /\ \A c : Has(emitting', c) <=> Has(emitting, c) \/ c = Frame("destroy", s)
      /\ \A c : OnceIn(emitting, c) /\ c # Frame("destroy", s) => OnceIn(emitting', c)
  BY <1>0, EmitsFrame, FramesDiffer DEF Destroy, TypeOK
<1>4. TypeOK'
  BY <1>0, <1>1, <1>2, <1>3 DEF TypeOK
<1>5. TablesAgree'
  <2>1. LiveIsOpen'
    <3> SUFFICES ASSUME nextConn <= FirstServerFd
                 PROVE  /\ \A t \in connected' : fd[t] \in Fd /\ connections'[fd[t]] = t
                        /\ \A v \in listening : fd[v] \in Fd /\ servers'[fd[v]] = v
      BY <1>2 DEF LiveIsOpen
    <3>1. \A t \in connected' : fd[t] \in Fd /\ connections'[fd[t]] = t
      <4> TAKE t \in connected'
      <4>1. fd[t] \in Fd /\ connections[fd[t]] = t /\ t # s /\ t \in Socket
        BY <1>0, <1>2 DEF TablesAgree, LiveIsOpen, TypeOK
      <4>2. fd[t] # 0
        BY <4>1 DEF Fd
      <4>3. fd[t] # fd[s]
        BY <1>0, <4>1, <4>2 DEF TablesAgree
      <4> QED BY <1>1, <4>1, <4>3
    <3>2. \A v \in listening : fd[v] \in Fd /\ servers'[fd[v]] = v
      <4> TAKE v \in listening
      <4>1. fd[v] \in Fd /\ servers[fd[v]] = v /\ v \in Server
        BY <1>0 DEF TablesAgree, LiveIsOpen, TypeOK
      <4>2. FirstServerFd <= fd[v] /\ fd[s] < nextConn
        BY <1>0, <4>1 DEF TablesAgree, Fd
      <4>3. fd[v] # fd[s]
        BY <1>0, <4>1, <4>2 DEF TypeOK, Fd
      <4> QED BY <1>1, <4>1, <4>3
    <3> QED BY <3>1, <3>2
  <2>2. \A f \in Fd : connections'[f] # Nobody => f < nextConn'
    BY <1>0, <1>1, <1>2 DEF TablesAgree
  <2> QED BY <1>0, <1>2, <2>1, <2>2 DEF TablesAgree
<1>6. EveryStreamIsOwned'
  <2> SUFFICES ASSUME closes, NEW f \in Fd, connections'[f] # Nobody, f \notin lost
               PROVE  fd[connections'[f]] = f /\ connections'[f] \notin destroyed'
    BY <1>2 DEF EveryStreamIsOwned, Used
  <2>1. connections'[f] = connections[f] /\ f # fd[s] /\ connections[f] # Nobody
    BY <1>1
  <2>2. fd[connections[f]] = f /\ connections[f] \notin destroyed
    BY <1>0, <2>1 DEF EveryStreamIsOwned, Used
  <2> QED BY <1>2, <2>1, <2>2
<1>7. EventsQuiet'
  <2>1. /\ \A t \in Socket : Frame("connect", t) # Frame("destroy", s)
        /\ \A v \in Server : Frame("listen", v) # Frame("destroy", s)
    BY FramesDiffer
  <2>2. \A t \in destroyed' \ odd' :
          t \notin connected' /\ t \notin reading' /\ t \notin idle'
          /\ ~Has(emitting', Frame("connect", t))
    <3> TAKE t \in destroyed' \ odd'
    <3>1. ~Has(emitting', Frame("connect", t)) <=> ~Has(emitting, Frame("connect", t))
      BY <1>0, <1>2, <1>3, <2>1 DEF TypeOK
    <3>2. CASE t = s
      BY <1>2, <3>1, <3>2
    <3>3. CASE t # s
      BY <1>0, <1>2, <3>1, <3>3 DEF EventsQuiet
    <3> QED BY <3>2, <3>3
  <2>3. \A v \in Server \ odd' : v \in Server \ odd
    BY <1>2
  <2> QED BY <1>0, <1>2, <1>3, <2>1, <2>2, <2>3 DEF EventsQuiet
<1> QED BY <1>4, <1>5, <1>6, <1>7 DEF IInv

(* The listeners of an event of a socket return, or one throws. *)
LEMMA SocketReturnIInv ==
  ASSUME IInv, NEW s \in Socket,
         \/ ConnectListenersReturn(s) \/ DestroyListenersReturn(s)
         \/ \E kind \in {"connect", "destroy"} : ListenerThrows(kind, s)
  PROVE  IInv'
<1>0. TypeOK /\ TablesAgree /\ EveryStreamIsOwned /\ EventsQuiet
  BY DEF IInv
<1>1. PICK kind \in {"connect", "destroy"} : Leave(kind, s)
  BY DEF ConnectListenersReturn, DestroyListenersReturn, ListenerThrows
<1>2. /\ emitting' \in Seq(Call)
      /\ \A c : Has(emitting', c) => Has(emitting, c)
      /\ \A c : OnceIn(emitting, c) => OnceIn(emitting', c)
  BY <1>0, <1>1, LeavesFrame DEF TypeOK
<1>3. /\ UNCHANGED <<client, closes, nextConn, nextServer, connections, servers, fd,
                     destroyed, idle, listening, held, pollers, lost, odd>>
      /\ connected' \subseteq connected
      /\ \/ reading' = reading
         \/ reading' = reading \cup {s} /\ Has(emitting, Frame("connect", s))
  <2>1. CASE ConnectListenersReturn(s)
    <3>1. Has(emitting, Frame("connect", s))
      BY <1>0, <2>1, LeavesFrame DEF ConnectListenersReturn, TypeOK
    <3> QED BY <2>1, <3>1 DEF ConnectListenersReturn, nativeVars, serverVars
  <2>2. CASE DestroyListenersReturn(s)
    BY <2>2 DEF DestroyListenersReturn, nativeVars, serverVars
  <2>3. CASE \E k \in {"connect", "destroy"} : ListenerThrows(k, s)
    BY <2>3 DEF ListenerThrows, nativeVars, socketVars, serverVars
  <2> QED BY <2>1, <2>2, <2>3
<1>4. TypeOK'
  BY <1>0, <1>2, <1>3 DEF TypeOK
<1>5. TablesAgree'
  BY <1>0, <1>3 DEF TablesAgree, LiveIsOpen
<1>6. EveryStreamIsOwned'
  BY <1>0, <1>3 DEF EveryStreamIsOwned, Used
<1>7. EventsQuiet'
  <2>1. \A t \in destroyed \ odd : t \notin reading'
    BY <1>0, <1>3 DEF EventsQuiet
  <2> QED BY <1>0, <1>2, <1>3, <2>1 DEF EventsQuiet
<1> QED BY <1>4, <1>5, <1>6, <1>7 DEF IInv

(* The intervals of a socket, and setTimeout. *)
LEMMA IntervalIInv ==
  ASSUME IInv, NEW s \in Socket,
         ReadSaysClosed(s) \/ TimeoutFires(s) \/ \E on \in BOOLEAN : SetTimeout(s, on)
  PROVE  IInv'
<1>0. TypeOK /\ TablesAgree /\ EveryStreamIsOwned /\ EventsQuiet
  BY DEF IInv
<1>1. /\ UNCHANGED <<client, closes, nextConn, nextServer, connections, servers, fd,
                     destroyed, listening, held, pollers, emitting, lost, odd>>
      /\ connected' \subseteq connected /\ reading' \subseteq reading
      /\ idle' \subseteq idle \cup (connected \cap {s})
  BY DEF ReadSaysClosed, TimeoutFires, SetTimeout, nativeVars, serverVars
<1>2. TypeOK'
  BY <1>0, <1>1 DEF TypeOK
<1>3. TablesAgree'
  BY <1>0, <1>1 DEF TablesAgree, LiveIsOpen
<1>4. EveryStreamIsOwned'
  BY <1>0, <1>1 DEF EveryStreamIsOwned, Used
<1>5. EventsQuiet'
  BY <1>0, <1>1 DEF EventsQuiet
<1> QED BY <1>2, <1>3, <1>4, <1>5 DEF IInv

-----------------------------------------------------------------------------
(* Servers *)

(* A server listens: a new listener, and the event before the interval.    *)
LEMMA ListenIInv ==
  ASSUME IInv, NEW v \in Server, Listen(v)
  PROVE  IInv'
<1> USE FdAssumption, ObjectAssumption
<1>0. TypeOK /\ TablesAgree /\ EveryStreamIsOwned /\ EventsQuiet
  BY DEF IInv
<1>1. /\ nextServer \in Fd /\ nextServer' = nextServer + 1
      /\ nextServer' \in FirstServerFd .. MaxFd + 1
      /\ servers' \in [Fd -> Server \cup {Nobody}]
      /\ servers'[nextServer] = v
      /\ \A f \in Fd : f # nextServer => servers'[f] = servers[f]
      /\ fd' \in [Socket \cup Server -> Fd \cup {0}]
      /\ fd'[v] = nextServer
      /\ \A o \in Socket \cup Server : o # v => fd'[o] = fd[o]
  BY <1>0, TakesServer DEF Listen
<1>2. /\ UNCHANGED <<client, closes, nextConn, connections, connected, destroyed,
                     reading, idle, held, pollers, lost>>
      /\ listening' = listening \cup {v}
      /\ odd' = IF v \in listening THEN odd \cup {v} ELSE odd
  BY DEF Listen, socketVars
<1>3. /\ emitting' \in Seq(Call)
      /\ \A c : Has(emitting', c) <=> Has(emitting, c) \/ c = Frame("listen", v)
      /\ \A c : OnceIn(emitting, c) /\ c # Frame("listen", v) => OnceIn(emitting', c)
      /\ ~Has(emitting, Frame("listen", v)) => OnceIn(emitting', Frame("listen", v))
  BY <1>0, EmitsFrame, FramesDiffer DEF Listen, TypeOK
<1>4. TypeOK'
  BY <1>0, <1>1, <1>2, <1>3 DEF TypeOK
<1>5. TablesAgree'
  <2>1. \A s \in Socket : fd'[s] = fd[s]
    BY <1>1
  <2>2. LiveIsOpen'
    <3> SUFFICES ASSUME nextConn <= FirstServerFd
                 PROVE  /\ \A t \in connected : fd'[t] \in Fd /\ connections[fd'[t]] = t
                        /\ \A w \in listening' : fd'[w] \in Fd /\ servers'[fd'[w]] = w
      BY <1>2 DEF LiveIsOpen
    <3>1. \A t \in connected : fd'[t] \in Fd /\ connections[fd'[t]] = t
      BY <1>0, <2>1 DEF TablesAgree, LiveIsOpen, TypeOK
    <3>2. \A w \in listening' : fd'[w] \in Fd /\ servers'[fd'[w]] = w
      <4> TAKE w \in listening'
      <4>1. CASE w = v
        BY <1>1, <4>1
      <4>2. CASE w # v
        <5>1. fd[w] \in Fd /\ servers[fd[w]] = w /\ fd'[w] = fd[w] /\ w \in Server
          BY <1>0, <1>1, <1>2, <4>2 DEF TablesAgree, LiveIsOpen, TypeOK
        <5>2. fd[w] # nextServer
          BY <1>0, <5>1 DEF TablesAgree, Fd
        <5> QED BY <1>1, <5>1, <5>2
      <4> QED BY <4>1, <4>2
    <3> QED BY <3>1, <3>2
  <2>3. \A w \in Server : fd'[w] # 0 => FirstServerFd <= fd'[w] /\ fd'[w] < nextServer'
    BY <1>0, <1>1 DEF TablesAgree, TypeOK, Fd
  <2>4. \A w, x \in Server : fd'[w] = fd'[x] /\ fd'[w] # 0 => w = x
    BY <1>0, <1>1 DEF TablesAgree, TypeOK, Fd
  <2> QED BY <1>0, <1>2, <2>1, <2>2, <2>3, <2>4 DEF TablesAgree
<1>6. EveryStreamIsOwned'
  BY <1>0, <1>1, <1>2 DEF EveryStreamIsOwned, Used, TypeOK
<1>7. EventsQuiet'
  <2>1. \A s \in Socket : Frame("connect", s) # Frame("listen", v)
    BY FramesDiffer
  <2>2. \A w \in Server : w # v => Frame("listen", w) # Frame("listen", v)
    BY FramesDiffer
  <2>3. \A s \in destroyed' \ odd' :
          s \notin connected' /\ s \notin reading' /\ s \notin idle'
          /\ ~Has(emitting', Frame("connect", s))
    <3>1. \A s \in destroyed' \ odd' : s \in destroyed \ odd /\ s \in Socket
      BY <1>0, <1>2 DEF TypeOK
    <3> QED BY <1>0, <1>2, <1>3, <2>1, <3>1 DEF EventsQuiet
  <2>4. ASSUME NEW w \in Server \ odd'
        PROVE  /\ pollers'[w] = IF w \in held' THEN 1 ELSE 0
               /\ w \notin listening' => w \notin held' /\ ~Has(emitting', Frame("listen", w))
               /\ Has(emitting', Frame("listen", w)) => w \notin held'
               /\ OnceIn(emitting', Frame("listen", w))
    <3>1. w \in Server \ odd
      BY <1>2
    <3>2. CASE w = v
      <4>1. v \notin listening
        BY <1>2, <3>2
      <4> QED BY <1>0, <1>2, <1>3, <3>1, <3>2, <4>1 DEF EventsQuiet
    <3>3. CASE w # v
      BY <1>0, <1>2, <1>3, <2>2, <3>1, <3>3 DEF EventsQuiet
    <3> QED BY <3>2, <3>3
  <2>5. \A w \in Server : w \in held' => pollers'[w] > 0
    BY <1>0, <1>2 DEF EventsQuiet
  <2> QED BY <2>3, <2>4, <2>5 DEF EventsQuiet
<1> QED BY <1>4, <1>5, <1>6, <1>7 DEF IInv

(* The listeners of 'listening' return and arm the interval, or one throws. *)
LEMMA ListenReturnIInv ==
  ASSUME IInv, NEW v \in Server, ListenListenersReturn(v) \/ ListenerThrows("listen", v)
  PROVE  IInv'
<1>0. TypeOK /\ TablesAgree /\ EveryStreamIsOwned /\ EventsQuiet
  BY DEF IInv
<1>1. Leave("listen", v)
  BY DEF ListenListenersReturn, ListenerThrows
<1>2. /\ emitting' \in Seq(Call)
      /\ Has(emitting, Frame("listen", v))
      /\ \A c : Has(emitting', c) => Has(emitting, c)
      /\ \A c : OnceIn(emitting, c) => OnceIn(emitting', c)
      /\ OnceIn(emitting, Frame("listen", v)) => ~Has(emitting', Frame("listen", v))
  BY <1>0, <1>1, LeavesFrame DEF TypeOK
<1>3. UNCHANGED <<client, closes, nextConn, nextServer, connections, servers, fd, connected,
                  destroyed, reading, idle, listening, lost, odd>>
  BY DEF ListenListenersReturn, ListenerThrows, nativeVars, socketVars, serverVars
<1>4. TablesAgree' /\ EveryStreamIsOwned'
  BY <1>0, <1>3 DEF TablesAgree, LiveIsOpen, EveryStreamIsOwned, Used
<1>5. CASE ListenListenersReturn(v)
  <2>1. /\ held' = held \cup {v}
        /\ pollers' \in [Server -> Nat]
        /\ pollers'[v] = pollers[v] + 1
        /\ \A w \in Server : w # v => pollers'[w] = pollers[w]
    BY <1>0, <1>5 DEF ListenListenersReturn, TypeOK
  <2>2. TypeOK'
    BY <1>0, <1>2, <1>3, <2>1 DEF TypeOK
  <2>3. ASSUME NEW w \in Server \ odd'
        PROVE  /\ pollers'[w] = IF w \in held' THEN 1 ELSE 0
               /\ w \notin listening' => w \notin held' /\ ~Has(emitting', Frame("listen", w))
               /\ Has(emitting', Frame("listen", w)) => w \notin held'
               /\ OnceIn(emitting', Frame("listen", w))
    <3>1. w \in Server \ odd
      BY <1>3
    <3>2. /\ pollers[w] = IF w \in held THEN 1 ELSE 0
          /\ w \notin listening => w \notin held /\ ~Has(emitting, Frame("listen", w))
          /\ Has(emitting, Frame("listen", w)) => w \notin held
          /\ OnceIn(emitting, Frame("listen", w))
      BY <1>0, <3>1 DEF EventsQuiet
    <3>3. CASE w = v
      BY <1>2, <1>3, <2>1, <3>2, <3>3
    <3>4. CASE w # v
      BY <1>2, <1>3, <2>1, <3>2, <3>4
    <3> QED BY <3>3, <3>4
  <2>4. \A w \in Server : w \in held' => pollers'[w] > 0
    BY <1>0, <2>1 DEF EventsQuiet, TypeOK
  <2>5. EventsQuiet'
    BY <1>0, <1>2, <1>3, <2>3, <2>4 DEF EventsQuiet
  <2> QED BY <1>4, <2>2, <2>5 DEF IInv
<1>6. CASE ListenerThrows("listen", v)
  <2>1. held' = held /\ pollers' = pollers
    BY <1>6 DEF ListenerThrows, serverVars
  <2>2. TypeOK'
    BY <1>0, <1>2, <1>3, <2>1 DEF TypeOK
  <2>3. EventsQuiet'
    BY <1>0, <1>2, <1>3, <2>1 DEF EventsQuiet
  <2> QED BY <1>4, <2>2, <2>3 DEF IInv
<1> QED BY <1>5, <1>6

(* A server closes its number, and the interval it knows of. *)
LEMMA CloseServerIInv ==
  ASSUME IInv, NEW v \in Server, CloseServer(v)
  PROVE  IInv'
<1> USE FdAssumption, ObjectAssumption
<1>0. TypeOK /\ TablesAgree /\ EveryStreamIsOwned /\ EventsQuiet
  BY DEF IInv
<1>1. /\ connections' \in [Fd -> Socket \cup {Nobody}]
      /\ servers' \in [Fd -> Server \cup {Nobody}]
      /\ \A g \in Fd : connections'[g] = IF closes /\ g = fd[v] THEN Nobody ELSE connections[g]
      /\ \A g \in Fd : servers'[g] = IF closes /\ g = fd[v] THEN Nobody ELSE servers[g]
  <2>1. fd[v] \in Fd \cup {0}
    BY <1>0 DEF TypeOK
  <2> QED BY <1>0, <2>1, ClosesNumber DEF CloseServer
<1>2. /\ UNCHANGED <<client, closes, nextConn, nextServer, fd, connected, destroyed,
                     reading, idle, emitting, lost>>
      /\ listening' = listening \ {v}
      /\ odd' = IF Has(emitting, Frame("listen", v)) THEN odd \cup {v} ELSE odd
  BY EmittingIsHas DEF CloseServer, socketVars
<1>3. /\ held' = held \ {v}
      /\ pollers' \in [Server -> Nat]
      /\ pollers'[v] = IF v \in held THEN pollers[v] - 1 ELSE pollers[v]
      /\ \A w \in Server : w # v => pollers'[w] = pollers[w]
  <2>1. CASE v \in held
    <3>1. pollers[v] \in Nat /\ pollers[v] > 0
      BY <1>0, <2>1 DEF EventsQuiet, TypeOK
    <3>2. pollers[v] - 1 \in Nat
      BY <3>1
    <3> QED BY <1>0, <2>1, <3>2 DEF CloseServer, TypeOK
  <2>2. CASE v \notin held
    BY <1>0, <2>2 DEF CloseServer, TypeOK
  <2> QED BY <2>1, <2>2
<1>4. TypeOK'
  BY <1>0, <1>1, <1>2, <1>3 DEF TypeOK
<1>5. TablesAgree'
  <2>1. LiveIsOpen'
    <3> SUFFICES ASSUME nextConn <= FirstServerFd
                 PROVE  /\ \A t \in connected : fd[t] \in Fd /\ connections'[fd[t]] = t
                        /\ \A w \in listening' : fd[w] \in Fd /\ servers'[fd[w]] = w
      BY <1>2 DEF LiveIsOpen
    <3>1. \A t \in connected : fd[t] \in Fd /\ connections'[fd[t]] = t
      <4> TAKE t \in connected
      <4>1. fd[t] \in Fd /\ connections[fd[t]] = t /\ t \in Socket
        BY <1>0 DEF TablesAgree, LiveIsOpen, TypeOK
      <4>2. fd[t] < nextConn /\ (fd[v] # 0 => FirstServerFd <= fd[v])
        BY <1>0, <4>1 DEF TablesAgree
      <4>3. fd[t] # fd[v]
        BY <1>0, <4>1, <4>2 DEF TypeOK, Fd
      <4> QED BY <1>1, <4>1, <4>3
    <3>2. \A w \in listening' : fd[w] \in Fd /\ servers'[fd[w]] = w
      <4> TAKE w \in listening'
      <4>1. fd[w] \in Fd /\ servers[fd[w]] = w /\ w # v /\ w \in Server
        BY <1>0, <1>2 DEF TablesAgree, LiveIsOpen, TypeOK
      <4>2. fd[w] # 0
        BY <4>1 DEF Fd
      <4>3. fd[w] # fd[v]
        BY <1>0, <4>1, <4>2 DEF TablesAgree
      <4> QED BY <1>1, <4>1, <4>3
    <3> QED BY <3>1, <3>2
  <2>2. \A f \in Fd : connections'[f] # Nobody => f < nextConn'
    BY <1>0, <1>1, <1>2 DEF TablesAgree
  <2> QED BY <1>0, <1>2, <2>1, <2>2 DEF TablesAgree
<1>6. EveryStreamIsOwned'
  <2> SUFFICES ASSUME closes, NEW f \in Fd, connections'[f] # Nobody, f \notin lost
               PROVE  fd[connections'[f]] = f /\ connections'[f] \notin destroyed
    BY <1>2 DEF EveryStreamIsOwned, Used
  <2>1. connections'[f] = connections[f] /\ connections[f] # Nobody
    BY <1>1
  <2> QED BY <1>0, <2>1 DEF EveryStreamIsOwned, Used
<1>7. EventsQuiet'
  <2>1. ASSUME NEW w \in Server \ odd'
        PROVE  /\ pollers'[w] = IF w \in held' THEN 1 ELSE 0
               /\ w \notin listening' => w \notin held' /\ ~Has(emitting', Frame("listen", w))
               /\ Has(emitting', Frame("listen", w)) => w \notin held'
               /\ OnceIn(emitting', Frame("listen", w))
    <3>1. w \in Server \ odd
      BY <1>2
    <3>2. /\ pollers[w] = IF w \in held THEN 1 ELSE 0
          /\ w \notin listening => w \notin held /\ ~Has(emitting, Frame("listen", w))
          /\ Has(emitting, Frame("listen", w)) => w \notin held
          /\ OnceIn(emitting, Frame("listen", w))
      BY <1>0, <3>1 DEF EventsQuiet
    <3>3. CASE w = v
      <4>1. ~Has(emitting, Frame("listen", v))
        BY <1>2, <3>3
      <4> QED BY <1>2, <1>3, <3>2, <3>3, <4>1
    <3>4. CASE w # v
      BY <1>2, <1>3, <3>2, <3>4
    <3> QED BY <3>3, <3>4
  <2>2. \A w \in Server : w \in held' => pollers'[w] > 0
    BY <1>0, <1>3 DEF EventsQuiet, TypeOK
  <2>3. \A s \in destroyed' \ odd' : s \in destroyed \ odd
    BY <1>2
  <2> QED BY <1>0, <1>2, <2>1, <2>2, <2>3 DEF EventsQuiet
<1> QED BY <1>4, <1>5, <1>6, <1>7 DEF IInv

-----------------------------------------------------------------------------
LEMMA StepIInv == IInv /\ [Next]_vars => IInv'
<1> SUFFICES ASSUME IInv, [Next]_vars PROVE IInv'
  OBVIOUS
<1>1. ASSUME NEW s \in Socket,
             \/ Connect(s) \/ ConnectListenersReturn(s)
             \/ Destroy(s) \/ DestroyListenersReturn(s)
             \/ \E kind \in {"connect", "destroy"} : ListenerThrows(kind, s)
             \/ ReadSaysClosed(s) \/ TimeoutFires(s)
             \/ \E on \in BOOLEAN : SetTimeout(s, on)
      PROVE  IInv'
  BY <1>1, ConnectIInv, DestroyIInv, SocketReturnIInv, IntervalIInv
<1>2. ASSUME NEW v \in Server,
             \/ Listen(v) \/ ListenListenersReturn(v) \/ ListenerThrows("listen", v)
             \/ CloseServer(v)
             \/ \E s \in Socket : Accept(v, s)
      PROVE  IInv'
  BY <1>2, ListenIInv, ListenReturnIInv, CloseServerIInv, AcceptIInv
<1>3. CASE UNCHANGED vars
  BY <1>3 DEF IInv, TypeOK, TablesAgree, LiveIsOpen, EveryStreamIsOwned, EventsQuiet, Used,
              vars, nativeVars, socketVars, serverVars
<1> QED BY <1>1, <1>2, <1>3 DEF Next

LEMMA Invariance == Spec => []IInv
<1> QED BY InitIInv, StepIInv, PTL DEF Spec

(* The variables have their types: descriptors within the bound, no server *)
(* with fewer intervals armed than none.                                   *)
THEOREM TypeCorrect == Spec => []TypeOK
<1>1. IInv => TypeOK
  BY DEF IInv
<1> QED BY <1>1, Invariance, PTL

(* Until the connections reach the descriptors of the servers, what is     *)
(* connected or listens has its own open entry (net.js, runtime.rs).       *)
THEOREM ConnectedIsOpen == Spec => []LiveIsOpen
<1> QED BY Invariance, InvariantImplies, PTL

(* A stream that a socket did not lose by connecting again can still be    *)
(* closed by the socket that has it.                                       *)
THEOREM StreamsAreOwned == Spec => []EveryStreamIsOwned
<1> QED BY Invariance, InvariantImplies, PTL

(* What is closed outside its own event has no interval and no timeout.    *)
THEOREM ClosedStaysQuiet == Spec => []ClosedIsQuiet
<1> QED BY Invariance, InvariantImplies, PTL

-----------------------------------------------------------------------------
(* Udp.  A descriptor is new when the counter gives it out.                *)
UdpFresh == \A f \in U!Open : f < nextUdp

UdpInv == U!TypeOK /\ UdpFresh /\ U!TableIsHeld /\ U!PolledWhileBound

(* The table is counted as any finite set. *)
LEMMA UdpCounts ==
  ASSUME U!TypeOK
  PROVE  /\ IsFiniteSet(U!Open)
         /\ \A S : U!Cardinality(S) = Cardinality(S)
<1>1. IsFiniteSet(U!Fd)
  BY UdpAssumption, FS_Interval DEF U!Fd
<1>2. IsFiniteSet(U!Open)
  BY <1>1, FS_Subset DEF U!TypeOK
<1> QED BY <1>2 DEF U!Cardinality, Cardinality

LEMMA UdpInitInv == U!Init => UdpInv
<1> SUFFICES ASSUME U!Init PROVE UdpInv
  OBVIOUS
<1> USE UdpAssumption DEF U!Init, U!Open, U!NoFd
<1>1. U!Cardinality(U!Open) = 0
  BY FS_EmptySet DEF U!Cardinality, Cardinality
<1>2. U!TypeOK
  BY DEF U!TypeOK, U!Fd
<1> QED BY <1>1, <1>2 DEF UdpInv, UdpFresh, U!TableIsHeld, U!PolledWhileBound

(* A new socket of the system, for a Socket that had none. *)
LEMMA UdpCreate ==
  ASSUME UdpInv, NEW s \in UdpSocket, udpFd[s] = 0, nextUdp \in U!Fd,
         U!Cardinality(U!Open) < MaxUdpSockets,
         U!Open' = U!Open \cup {nextUdp}, nextUdp' = nextUdp + 1,
         udpFd' = [udpFd EXCEPT ![s] = nextUdp]
  PROVE  /\ nextUdp' \in 1 .. MaxUdpFd + 1 /\ U!Open' \subseteq U!Fd
         /\ udpFd' \in [UdpSocket -> U!Fd \cup {U!NoFd}]
         /\ UdpFresh'
         /\ U!Open' = {udpFd'[t] : t \in UdpSocket} \ {U!NoFd}
         /\ \A t, u \in UdpSocket : t # u /\ udpFd'[t] = udpFd'[u] => udpFd'[t] = U!NoFd
         /\ U!Cardinality(U!Open') <= MaxUdpSockets
<1> USE UdpAssumption DEF UdpInv, U!TypeOK, U!Fd, U!NoFd
<1>1. nextUdp \notin U!Open
  BY DEF UdpFresh
<1>2. Cardinality(U!Open') = Cardinality(U!Open) + 1 /\ Cardinality(U!Open) \in Nat
  BY <1>1, UdpCounts, FS_AddElement, FS_CardinalityType
<1>3. U!Cardinality(U!Open') <= MaxUdpSockets
  BY <1>2, UdpCounts
<1>4. UdpFresh'
  BY DEF UdpFresh
<1>5. U!Open = {udpFd[t] : t \in UdpSocket} \ {0}
      /\ \A t, u \in UdpSocket : t # u /\ udpFd[t] = udpFd[u] => udpFd[t] = 0
  BY DEF U!TableIsHeld
<1>6. \A t, u \in UdpSocket : t # u /\ udpFd'[t] = udpFd'[u] => udpFd'[t] = 0
  BY <1>1, <1>5
<1>7. U!Open' = {udpFd'[t] : t \in UdpSocket} \ {0}
  BY <1>5
<1> QED BY <1>3, <1>4, <1>6, <1>7

(* Sockets are used after close only through these, and then they are in   *)
(* the history.                                                            *)
LEMMA UdpEnsureFd ==
  ASSUME UdpInv, NEW s \in UdpSocket, U!EnsureFd(s),
         UNCHANGED <<queue, from, bound, udpClosed, polling>>
  PROVE  UdpInv'
<1> USE UdpAssumption DEF UdpInv, U!TypeOK, U!Fd, U!NoFd
<1>1. reopened' = IF s \in udpClosed THEN reopened \cup {s} ELSE reopened
  BY DEF U!EnsureFd
<1>2. CASE UNCHANGED <<nextUdp, sockets, udpFd>>
  BY <1>1, <1>2 DEF U!TableIsHeld, U!PolledWhileBound, UdpFresh, U!Open
<1>3. CASE udpFd[s] = 0 /\ nextUdp \in U!Fd /\ U!Create /\ udpFd' = [udpFd EXCEPT ![s] = nextUdp]
  <2>1. U!Open' = U!Open \cup {nextUdp}
    BY <1>3 DEF U!Create, U!Open
  <2>2. U!Cardinality(U!Open) < MaxUdpSockets /\ nextUdp' = nextUdp + 1
    BY <1>3 DEF U!Create
  <2> HIDE DEF UdpInv, U!TypeOK, U!NoFd, U!Fd
  <2>3. /\ nextUdp' \in 1 .. MaxUdpFd + 1 /\ U!Open' \subseteq U!Fd
        /\ udpFd' \in [UdpSocket -> U!Fd \cup {U!NoFd}]
        /\ UdpFresh'
        /\ U!Open' = {udpFd'[t] : t \in UdpSocket} \ {U!NoFd}
        /\ \A t, u \in UdpSocket : t # u /\ udpFd'[t] = udpFd'[u] => udpFd'[t] = U!NoFd
        /\ U!Cardinality(U!Open') <= MaxUdpSockets
    BY <1>3, <2>1, <2>2, UdpCreate
  <2>4. \A f \in U!Open' : sockets'[f] \in Port \cup {AnyPort}
    BY <1>3, <2>1 DEF U!Create, UdpInv, U!TypeOK
  <2>5. U!TypeOK'
    BY <2>3, <2>4, <1>1 DEF UdpInv, U!TypeOK, U!Fd
  <2>6. U!TableIsHeld'
    BY <1>1, <1>3, <2>1, <2>3 DEF UdpInv, U!TableIsHeld, U!TypeOK
  <2>7. U!PolledWhileBound'
    BY <1>3, <2>1 DEF UdpInv, U!PolledWhileBound, U!TypeOK, U!NoFd, U!Open, U!Create
  <2> QED BY <2>3, <2>5, <2>6, <2>7 DEF UdpInv
<1> QED BY <1>2, <1>3 DEF U!EnsureFd, U!NoFd

(* bind makes the socket if there is none, and takes the place of the one  *)
(* that is there.                                                          *)
LEMMA UdpBindTo ==
  ASSUME UdpInv, NEW s \in UdpSocket, NEW port \in Port \cup {AnyPort}, U!BindTo(s, port)
  PROVE  UdpInv'
<1> DEFINE f == IF udpFd[s] = U!NoFd THEN nextUdp ELSE udpFd[s]
<1>1. /\ f \in U!Open \/ (f \in U!Fd /\ U!Cardinality(U!Open) < MaxUdpSockets)
      /\ U!Open' = U!Open \cup {f}
      /\ \A g \in U!Open' : sockets'[g] = IF g = f THEN port ELSE sockets[g]
      /\ queue' = [queue EXCEPT ![f] = 0]
      /\ udpFd' = [udpFd EXCEPT ![s] = f]
      /\ nextUdp' = IF f = nextUdp THEN f + 1 ELSE nextUdp
  BY DEF U!BindTo, U!Bind, U!Open
<1>2. /\ bound' = bound \cup {s}
      /\ polling' = IF s \in udpClosed THEN polling ELSE polling \cup {s}
      /\ reopened' = IF s \in udpClosed THEN reopened \cup {s} ELSE reopened
      /\ UNCHANGED <<from, udpClosed>>
  BY DEF U!BindTo
<1>3. /\ nextUdp' \in 1 .. MaxUdpFd + 1 /\ U!Open' \subseteq U!Fd
      /\ udpFd' \in [UdpSocket -> U!Fd \cup {U!NoFd}]
      /\ UdpFresh'
      /\ U!Open' = {udpFd'[t] : t \in UdpSocket} \ {U!NoFd}
      /\ \A t, u \in UdpSocket : t # u /\ udpFd'[t] = udpFd'[u] => udpFd'[t] = U!NoFd
      /\ U!Cardinality(U!Open') <= MaxUdpSockets
      /\ f \in U!Fd
  <2>1. CASE udpFd[s] = U!NoFd
    <3>1. f = nextUdp
      BY <2>1
    <3>2. f \notin U!Open
      BY <3>1, UdpAssumption DEF UdpInv, UdpFresh, U!TypeOK, U!Fd
    <3>3. f \in U!Fd /\ nextUdp' = nextUdp + 1 /\ U!Cardinality(U!Open) < MaxUdpSockets
      BY <1>1, <3>1, <3>2
    <3> QED BY <1>1, <2>1, <3>1, <3>3, UdpCreate DEF U!NoFd
  <2>2. CASE udpFd[s] # U!NoFd
    <3>1. f = udpFd[s]
      BY <2>2
    <3>2. f \in U!Open
      BY <2>2, <3>1 DEF UdpInv, U!TableIsHeld
    <3>3. f # nextUdp /\ f \in U!Fd
      BY <3>2, UdpAssumption DEF UdpInv, UdpFresh, U!TypeOK, U!Fd
    <3>4. U!Open' = U!Open /\ nextUdp' = nextUdp
      BY <1>1, <3>2, <3>3
    <3>5. udpFd' = udpFd
      BY <1>1, <3>1 DEF UdpInv, U!TypeOK
    <3> QED BY <3>3, <3>4, <3>5 DEF UdpInv, UdpFresh, U!TypeOK, U!TableIsHeld
  <2> QED BY <2>1, <2>2
<1>4. udpFd'[s] \in U!Open'
  BY <1>1 DEF UdpInv, U!TypeOK
<1> HIDE DEF f
<1>5. U!TypeOK'
  BY <1>1, <1>2, <1>3, UdpAssumption DEF UdpInv, U!TypeOK
<1>6. U!TableIsHeld'
  BY <1>1, <1>2, <1>3 DEF UdpInv, U!TableIsHeld, U!TypeOK
<1>7. U!PolledWhileBound'
  BY <1>1, <1>2, <1>4 DEF UdpInv, U!PolledWhileBound, U!TypeOK
<1> QED BY <1>3, <1>5, <1>6, <1>7 DEF UdpInv

LEMMA UdpCloseSocket ==
  ASSUME UdpInv, NEW s \in UdpSocket, U!CloseSocket(s)
  PROVE  UdpInv'
<1> USE UdpAssumption DEF UdpInv, U!TypeOK, U!Fd, U!NoFd
<1>1. /\ s \notin udpClosed /\ udpClosed' = udpClosed \cup {s} /\ polling' = polling \ {s}
      /\ udpFd' = [udpFd EXCEPT ![s] = 0]
      /\ UNCHANGED <<nextUdp, bound, reopened>>
  BY DEF U!CloseSocket
<1>2. CASE udpFd[s] = 0
  <2>1. UNCHANGED <<sockets, queue, from>>
    BY <1>2 DEF U!CloseSocket
  <2> QED BY <1>1, <1>2, <2>1 DEF U!TableIsHeld, U!PolledWhileBound, UdpFresh, U!Open
<1>3. CASE udpFd[s] # 0
  <2>1. /\ U!Open' = U!Open \ {udpFd[s]}
        /\ \A f \in U!Open' : sockets'[f] = sockets[f]
        /\ queue' = [queue EXCEPT ![udpFd[s]] = 0]
        /\ from' = from \ {udpFd[s]}
    BY <1>3 DEF U!CloseSocket, U!Close, U!Open
  <2> HIDE DEF UdpInv, U!TypeOK, U!Fd
  <2>2. Cardinality(U!Open') <= Cardinality(U!Open)
    <3>1. IsFiniteSet(U!Open)
      BY UdpCounts DEF UdpInv
    <3> QED BY <2>1, <3>1, FS_Subset, FS_RemoveElement, FS_CardinalityType
  <2>3. U!Cardinality(U!Open') <= MaxUdpSockets
    <3>1. /\ U!Cardinality(U!Open') = Cardinality(U!Open')
          /\ U!Cardinality(U!Open) = Cardinality(U!Open)
          /\ Cardinality(U!Open) \in Nat /\ Cardinality(U!Open') \in Nat
      BY <2>1, UdpCounts, FS_RemoveElement, FS_CardinalityType DEF UdpInv
    <3> QED BY <2>2, <3>1 DEF UdpInv, U!TableIsHeld
  <2>4. U!TypeOK'
    <3>1. U!Open' \subseteq U!Fd /\ \A f \in U!Open' : sockets'[f] \in Port \cup {AnyPort}
      BY <2>1 DEF UdpInv, U!TypeOK
    <3>2. queue' \in [U!Fd -> 0 .. MaxQueue]
      <4>1. queue' = [queue EXCEPT ![udpFd[s]] = 0]
        BY <2>1
      <4>2. queue \in [U!Fd -> 0 .. MaxQueue] /\ 0 \in 0 .. MaxQueue
        BY UdpAssumption DEF UdpInv, U!TypeOK
      <4> QED BY <4>1, <4>2
    <3>3. from' \subseteq U!Fd
      BY <2>1 DEF UdpInv, U!TypeOK
    <3> QED BY <1>1, <3>1, <3>2, <3>3 DEF UdpInv, U!TypeOK
  <2>5. U!TableIsHeld'
    <3>1. /\ U!Open = {udpFd[t] : t \in UdpSocket} \ {0}
          /\ \A t, u \in UdpSocket : t # u /\ udpFd[t] = udpFd[u] => udpFd[t] = 0
          /\ \A t \in udpClosed : udpFd[t] # 0 => t \in reopened
          /\ from \subseteq U!Open
          /\ udpFd \in [UdpSocket -> U!Fd \cup {0}]
      BY DEF UdpInv, U!TypeOK, U!TableIsHeld
    <3>2. U!Open' = {udpFd'[t] : t \in UdpSocket} \ {0}
      BY <1>1, <1>3, <2>1, <3>1
    <3>3. \A t, u \in UdpSocket : t # u /\ udpFd'[t] = udpFd'[u] => udpFd'[t] = 0
      BY <1>1, <3>1
    <3>4. \A t \in udpClosed' : udpFd'[t] # 0 => t \in reopened'
      BY <1>1, <3>1 DEF UdpInv, U!TypeOK
    <3>5. from' \subseteq U!Open'
      BY <2>1, <3>1
    <3> QED BY <2>3, <3>2, <3>3, <3>4, <3>5 DEF U!TableIsHeld
  <2>6. U!PolledWhileBound'
    BY <1>1, <2>1 DEF UdpInv, U!TypeOK, U!PolledWhileBound, U!TableIsHeld
  <2> QED BY <1>1, <2>1, <2>4, <2>5, <2>6 DEF UdpInv, UdpFresh
<1> QED BY <1>2, <1>3

(* Datagrams come and go. *)
LEMMA UdpDatagrams ==
  ASSUME UdpInv, (\E s \in UdpSocket : U!Poll(s)) \/ (\E f \in U!Fd : U!Arrive(f))
  PROVE  UdpInv'
<1>1. ASSUME NEW s \in UdpSocket, U!Poll(s) PROVE UdpInv'
  BY <1>1, UdpAssumption
  DEF U!Poll, U!Receive, UdpInv, U!TypeOK, U!TableIsHeld, U!PolledWhileBound, UdpFresh, U!Open
<1>2. ASSUME NEW f \in U!Fd, U!Arrive(f) PROVE UdpInv'
  BY <1>2, UdpAssumption
  DEF U!Arrive, UdpInv, U!TypeOK, U!TableIsHeld, U!PolledWhileBound, UdpFresh, U!Open
<1> QED BY <1>1, <1>2

LEMMA UdpStepInv == UdpInv /\ [U!Next]_udpVars => UdpInv'
<1> SUFFICES ASSUME UdpInv, [U!Next]_udpVars PROVE UdpInv'
  OBVIOUS
<1>1. ASSUME NEW s \in UdpSocket, U!BindFails(s) \/ U!Send(s) \/ U!Address(s) PROVE UdpInv'
  BY <1>1, UdpEnsureFd DEF U!BindFails, U!Send, U!Address
<1>2. CASE UNCHANGED udpVars
  BY <1>2 DEF udpVars, UdpInv, U!TypeOK, U!TableIsHeld, U!PolledWhileBound, UdpFresh, U!Open
<1> QED BY <1>1, <1>2, UdpBindTo, UdpCloseSocket, UdpDatagrams DEF U!Next

-----------------------------------------------------------------------------
(* ByteStreams.  Until the socket is destroyed what was read and what      *)
(* waits to be read are all that arrived, nothing arrives before it is     *)
(* open, and what the system took is what it was given, in low bytes.      *)
NothingIsMissing ==
  /\ stage # "destroyed" => got \o inbox = sent
  /\ stage = "new" => got = <<>> /\ inbox = <<>> /\ sent = <<>>

LeftIsAccepted == ~cut => left = B!Bytes(accepted)

ByteInv ==
  B!TypeOK /\ NothingIsMissing /\ LeftIsAccepted /\ B!ReadsInOrder /\ B!EndCloses

(* The low bytes of a text, one for each code unit. *)
LEMMA BytesOf ==
  ASSUME NEW data \in Seq(Nat)
  PROVE  /\ B!Bytes(data) \in Seq(B!Byte) /\ Len(B!Bytes(data)) = Len(data)
         /\ \A i \in 1 .. Len(data) : B!Bytes(data)[i] = data[i] % 256
<1>1. Len(data) \in Nat /\ DOMAIN data = 1 .. Len(data)
  BY LenProperties
<1>2. \A i \in 1 .. Len(data) : data[i] \in Nat
  BY ElementOfSeq
<1>3. \A n \in Nat : n % 256 \in 0 .. 255
  OBVIOUS
<1>4. B!Bytes(data) = [i \in 1 .. Len(data) |-> data[i] % 256]
  BY <1>1 DEF B!Bytes
<1>5. \A i \in 1 .. Len(data) : data[i] % 256 \in B!Byte
  BY <1>2, <1>3 DEF B!Byte
<1>6. PICK n \in Nat : n = Len(data)
  BY <1>1
<1>7. [i \in 1 .. n |-> data[i] % 256] \in Seq(B!Byte)
  BY <1>5, <1>6
<1> QED BY <1>1, <1>4, <1>6, <1>7

(* ... of two texts, one after the other. *)
LEMMA BytesOfBoth ==
  ASSUME NEW s \in Seq(Nat), NEW t \in Seq(Nat)
  PROVE  B!Bytes(s \o t) = B!Bytes(s) \o B!Bytes(t)
<1>1. s \o t \in Seq(Nat) /\ Len(s \o t) = Len(s) + Len(t) /\ Len(s) \in Nat /\ Len(t) \in Nat
      /\ \A i \in 1 .. Len(s) + Len(t) : (s \o t)[i] = IF i <= Len(s) THEN s[i] ELSE t[i - Len(s)]
  BY ConcatProperties, LenProperties
<1>2. PICK u \in Seq(Nat) : u = s \o t
  BY <1>1
<1>3. PICK a \in Seq(B!Byte), b \in Seq(B!Byte), c \in Seq(B!Byte) :
         a = B!Bytes(s) /\ b = B!Bytes(t) /\ c = B!Bytes(u)
  BY BytesOf
<1>4. /\ a \in Seq(B!Byte) /\ Len(a) = Len(s) /\ \A i \in 1 .. Len(s) : a[i] = s[i] % 256
      /\ b \in Seq(B!Byte) /\ Len(b) = Len(t) /\ \A i \in 1 .. Len(t) : b[i] = t[i] % 256
      /\ c \in Seq(B!Byte) /\ Len(c) = Len(u) /\ \A i \in 1 .. Len(u) : c[i] = u[i] % 256
  BY <1>3, BytesOf
<1>5. /\ a \o b \in Seq(B!Byte) /\ Len(a \o b) = Len(s) + Len(t)
      /\ \A i \in 1 .. Len(s) + Len(t) : (a \o b)[i] = IF i <= Len(s) THEN a[i] ELSE b[i - Len(s)]
  <2>1. /\ a \o b \in Seq(B!Byte) /\ Len(a \o b) = Len(a) + Len(b)
        /\ \A i \in 1 .. Len(a) + Len(b) : (a \o b)[i] = IF i <= Len(a) THEN a[i] ELSE b[i - Len(a)]
    BY ConcatProperties
  <2>2. Len(a) = Len(s) /\ Len(b) = Len(t)
    BY <1>4
  <2> QED BY <2>1, <2>2
<1>6. ASSUME NEW i \in 1 .. Len(s) + Len(t) PROVE c[i] = (a \o b)[i]
  <2>1. CASE i <= Len(s)
    <3>1. i \in 1 .. Len(s) /\ i \in 1 .. Len(u)
      BY <1>1, <1>2, <2>1
    <3>2. c[i] = u[i] % 256 /\ u[i] = s[i] /\ a[i] = s[i] % 256
      BY <1>1, <1>2, <1>4, <2>1, <3>1
    <3> QED BY <1>5, <2>1, <3>2
  <2>2. CASE ~(i <= Len(s))
    <3>1. i - Len(s) \in 1 .. Len(t) /\ i \in 1 .. Len(u)
      BY <1>1, <1>2, <2>2
    <3>2. c[i] = u[i] % 256 /\ u[i] = t[i - Len(s)] /\ b[i - Len(s)] = t[i - Len(s)] % 256
      BY <1>1, <1>2, <1>4, <2>2, <3>1
    <3> QED BY <1>5, <2>2, <3>2
  <2> QED BY <2>1, <2>2
<1>7. c = a \o b
  <2>1. PICK d \in Seq(B!Byte) : d = a \o b
    BY <1>5
  <2> QED BY <1>1, <1>2, <1>4, <1>5, <1>6, <2>1, SeqEqual
<1> QED BY <1>2, <1>3, <1>7

(* Bytes stay as they are. *)
LEMMA BytesOfBytes ==
  ASSUME NEW s \in Seq(Nat), \A i \in DOMAIN s : s[i] \in B!Byte
  PROVE  B!Bytes(s) = s
<1>1. \A n \in 0 .. 255 : n % 256 = n
  OBVIOUS
<1> QED BY <1>1, LenProperties DEF B!Bytes, B!Byte

(* The beginning of a sequence, as IsPrefix has it. *)
LEMMA PrefixOfConcat ==
  ASSUME NEW S, NEW s \in Seq(S), NEW t \in Seq(S)
  PROVE  B!IsPrefix(s, s \o t)
<1>1. PICK u \in Seq(S) : u = s \o t
  BY ConcatProperties
<1>2. /\ Len(u) = Len(s) + Len(t) /\ Len(s) \in Nat /\ Len(t) \in Nat
      /\ \A i \in 1 .. Len(s) : u[i] = s[i]
  BY <1>1, ConcatProperties, LenProperties
<1>3. SubSeq(s, 1, Len(s)) = s
  BY SubSeqFull
<1>4. \A i \in 1 .. Len(s) : u[i] \in S
  BY <1>2, ElementOfSeq
<1>5. /\ SubSeq(u, 1, Len(s)) \in Seq(S) /\ Len(SubSeq(u, 1, Len(s))) = Len(s)
      /\ \A i \in 1 .. Len(s) : SubSeq(u, 1, Len(s))[i] = u[i]
  BY <1>2, <1>4, SubSeqProperties
<1>6. SubSeq(u, 1, Len(s)) = s
  BY <1>2, <1>5, SeqEqual
<1> QED BY <1>1, <1>2, <1>3, <1>6 DEF B!IsPrefix

(* What is taken of a queue and what stays. *)
LEMMA TakenAndLeft ==
  ASSUME NEW S, NEW q \in Seq(S), NEW n \in 0 .. Len(q)
  PROVE  /\ SubSeq(q, 1, n) \in Seq(S) /\ SubSeq(q, n + 1, Len(q)) \in Seq(S)
         /\ SubSeq(q, 1, n) \o SubSeq(q, n + 1, Len(q)) = q
<1>1. Len(q) \in Nat /\ \A i \in 1 .. Len(q) : q[i] \in S
  BY LenProperties, ElementOfSeq
<1>2. SubSeq(q, 1, n) \in Seq(S) /\ SubSeq(q, n + 1, Len(q)) \in Seq(S)
  BY <1>1, SubSeqProperties
<1>3. SubSeq(q, 1, n) \o SubSeq(q, n + 1, Len(q)) = SubSeq(q, 1, Len(q))
  <2>1. /\ 1 \in 1 .. Len(q) + 1 /\ n \in 1 - 1 .. Len(q) /\ Len(q) \in n .. Len(q)
    BY <1>1
  <2> QED BY <2>1, ConcatAdjacentSubSeq
<1> QED BY <1>2, <1>3, SubSeqFull

LEMMA ByteInitInv == (B!Init \/ B!Start(FALSE)) => ByteInv
<1> SUFFICES ASSUME NEW listens \in BOOLEAN, B!Start(listens) PROVE ByteInv
  BY DEF B!Init
<1> USE ByteAssumption DEF B!Start
<1>1. B!TypeOK
  <2>1. <<>> \in Seq(MCData) /\ <<>> \in Seq(Nat) /\ <<>> \in Seq(B!Byte)
    BY EmptySeq
  <2>2. 0 \in 0 .. 2 * MaxWrites
    OBVIOUS
  <2> QED BY <2>1, <2>2 DEF B!TypeOK
<1>2. NothingIsMissing
  BY DEF NothingIsMissing
<1>3. LeftIsAccepted
  BY DEF LeftIsAccepted, B!Bytes
<1>4. B!ReadsInOrder
  <2>1. <<>> \in Seq(Nat) /\ <<>> \o <<>> = <<>>
    BY EmptySeq, ConcatEmptySeq
  <2>2. B!IsPrefix(<<>>, <<>>)
    BY <2>1, PrefixOfConcat
  <2> QED BY <2>2 DEF B!ReadsInOrder
<1> QED BY <1>1, <1>2, <1>3, <1>4 DEF ByteInv, B!EndCloses

(* A write, that of end too. *)
LEMMA HandKeeps ==
  ASSUME ByteInv, NEW data \in MCData, B!Hand(data)
  PROVE  /\ unsent' \in Seq(MCData) /\ accepted' \in Seq(Nat) /\ cut' \in BOOLEAN
         /\ outbox' \in Seq(B!Byte) /\ left' \in Seq(B!Byte)
         /\ LeftIsAccepted'
<1>1. /\ unsent \in Seq(MCData) /\ accepted \in Seq(Nat) /\ cut \in BOOLEAN
      /\ outbox \in Seq(B!Byte) /\ left \in Seq(B!Byte) /\ data \in Seq(Nat)
  BY ByteAssumption DEF ByteInv, B!TypeOK
<1>2. CASE stage = "new"
  <2>1. unsent' = Append(unsent, data) /\ UNCHANGED <<outbox, left, accepted, cut>>
    BY <1>2 DEF B!Hand
  <2> QED BY <1>1, <2>1, AppendProperties DEF ByteInv, LeftIsAccepted, B!Bytes
<1>3. CASE stage = "open" /\ ~B!Full
  <2>1. B!Take(data) /\ accepted' = accepted \o data /\ unsent' = unsent
    BY <1>3 DEF B!Hand
  <2> DEFINE room == Room - Len(outbox)
             n == IF Len(data) < room THEN Len(data) ELSE room
  <2>2. /\ Len(outbox) \in Nat /\ Len(data) \in Nat
        /\ room \in Nat /\ n \in 0 .. Len(data)
    BY <1>1, <1>3, ByteAssumption, LenProperties DEF B!Full
  <2>3. PICK part \in Seq(Nat) : part = SubSeq(data, 1, n)
    BY <1>1, <2>2, TakenAndLeft
  <2>4. PICK bytes \in Seq(B!Byte) : bytes = B!Bytes(part) /\ Len(bytes) = Len(part)
    BY BytesOf
  <2>5. /\ outbox' = outbox \o bytes /\ left' = left \o bytes
        /\ cut' = (cut \/ Len(bytes) < Len(data))
    BY <2>1, <2>3, <2>4 DEF B!Take
  <2>6. ASSUME ~cut' PROVE left' = B!Bytes(accepted')
    <3>1. ~cut /\ ~(Len(bytes) < Len(data))
      BY <2>5, <2>6
    <3>2. Len(part) = n
      BY <1>1, <2>2, <2>3, SubSeqProperties, ElementOfSeq
    <3>3. n = Len(data)
      BY <2>2, <2>4, <3>1, <3>2
    <3>4. part = data
      BY <1>1, <2>3, <3>3, SubSeqFull
    <3>5. left' = B!Bytes(accepted) \o B!Bytes(data)
      BY <2>4, <2>5, <3>1, <3>4 DEF ByteInv, LeftIsAccepted
    <3> QED BY <1>1, <2>1, <3>5, BytesOfBoth
  <2> QED BY <1>1, <2>1, <2>5, <2>6, ConcatProperties DEF LeftIsAccepted
<1>4. CASE stage # "new" /\ ~(stage = "open" /\ ~B!Full)
  <2>1. UNCHANGED <<unsent, outbox, left, accepted, cut>>
    BY <1>4 DEF B!Hand, B!outVars
  <2> QED BY <1>1, <2>1 DEF ByteInv, LeftIsAccepted, B!Bytes
<1> QED BY <1>2, <1>3, <1>4

(* Reading moves bytes from what waits to what was read. *)
LEMMA ReadTickKeeps == ByteInv /\ B!ReadTick => ByteInv'
<1> SUFFICES ASSUME ByteInv, B!ReadTick PROVE ByteInv'
  OBVIOUS
<1> DEFINE n == IF Len(inbox) < MaxRead THEN Len(inbox) ELSE MaxRead
<1>1. /\ got \in Seq(B!Byte) /\ inbox \in Seq(B!Byte) /\ sent \in Seq(B!Byte)
      /\ stage = "open" /\ got \o inbox = sent
  BY DEF ByteInv, B!TypeOK, NothingIsMissing, B!ReadTick
<1>2. n \in 0 .. Len(inbox)
  BY <1>1, ByteAssumption, LenProperties
<1>a. PICK now \in Seq(B!Byte) : now = SubSeq(inbox, 1, n)
  <2> HIDE DEF n
  <2> QED BY <1>1, <1>2, TakenAndLeft
<1>b. PICK rest \in Seq(B!Byte) : rest = SubSeq(inbox, n + 1, Len(inbox))
  <2> HIDE DEF n
  <2> QED BY <1>1, <1>2, TakenAndLeft
<1>c. SubSeq(inbox, 1, n) \o SubSeq(inbox, n + 1, Len(inbox)) = inbox
  <2> HIDE DEF n
  <2> QED BY <1>1, <1>2, TakenAndLeft
<1>3. now = SubSeq(inbox, 1, n) /\ rest = SubSeq(inbox, n + 1, Len(inbox)) /\ now \o rest = inbox
  BY <1>a, <1>b, <1>c
<1>4. /\ got' = got \o now /\ inbox' = rest
      /\ UNCHANGED <<stage, heard, B!outVars, sent, gone, writes, ending>>
  BY <1>3 DEF B!ReadTick
<1>5. got' \in Seq(B!Byte) /\ inbox' \in Seq(B!Byte)
  BY <1>1, <1>3, <1>4, ConcatProperties
<1>6. got' \o inbox' = sent'
  <2>1. (got \o now) \o rest = got \o (now \o rest)
    BY <1>1, ConcatAssociative
  <2> QED BY <1>1, <1>3, <1>4, <2>1
<1>7. B!IsPrefix(got', sent')
  BY <1>5, <1>6, PrefixOfConcat
<1>8. B!TypeOK'
  BY <1>4, <1>5 DEF ByteInv, B!TypeOK, B!outVars
<1> QED
  BY <1>1, <1>4, <1>6, <1>7, <1>8
  DEF ByteInv, NothingIsMissing, LeftIsAccepted, B!ReadsInOrder, B!EndCloses, B!outVars, B!Bytes

(* What arrives waits behind the rest. *)
LEMMA PeerWritesKeeps ==
  ASSUME ByteInv, NEW data \in MCData, B!PeerWrites(data)
  PROVE  ByteInv'
<1>1. /\ got \in Seq(B!Byte) /\ inbox \in Seq(B!Byte) /\ sent \in Seq(B!Byte)
      /\ stage = "open" /\ got \o inbox = sent
  BY DEF ByteInv, B!TypeOK, NothingIsMissing, B!PeerWrites
<1>2. PICK more \in Seq(B!Byte) : more = B!Bytes(data)
  BY ByteAssumption, BytesOf
<1>3. /\ inbox' = inbox \o more /\ sent' = sent \o more
      /\ UNCHANGED <<stage, heard, B!outVars, got, gone, writes, ending>>
  BY <1>2 DEF B!PeerWrites
<1>4. inbox' \in Seq(B!Byte) /\ sent' \in Seq(B!Byte)
  BY <1>1, <1>3, ConcatProperties
<1>5. got' \o inbox' = sent'
  <2>a. got \in Seq(B!Byte) /\ inbox \in Seq(B!Byte) /\ more \in Seq(B!Byte)
    BY <1>1, <1>2
  <2>1. (got \o inbox) \o more = got \o (inbox \o more)
    BY <2>a, ConcatAssociative
  <2> QED BY <1>1, <1>3, <2>1
<1>6. B!IsPrefix(got', sent')
  BY <1>1, <1>3, <1>4, <1>5, PrefixOfConcat
<1>7. B!TypeOK'
  BY <1>3, <1>4 DEF ByteInv, B!TypeOK, B!outVars
<1> QED
  BY <1>1, <1>3, <1>5, <1>6, <1>7
  DEF ByteInv, NothingIsMissing, LeftIsAccepted, B!ReadsInOrder, B!EndCloses, B!outVars, B!Bytes

(* A destroyed socket has read what it will have read. *)
LEMMA DestroyKeeps ==
  ASSUME ByteInv, B!Destroy
  PROVE  /\ inbox' \in Seq(B!Byte) /\ sent' \in Seq(B!Byte) /\ got' \in Seq(B!Byte)
         /\ NothingIsMissing' /\ B!ReadsInOrder' /\ stage' = "destroyed"
<1> QED
  BY EmptySeq DEF B!Destroy, ByteInv, B!TypeOK, NothingIsMissing, B!ReadsInOrder

LEMMA WriteKeeps ==
  ASSUME ByteInv, NEW data \in MCData, B!Write(data) \/ B!End(data)
  PROVE  ByteInv'
<1>1. /\ unsent' \in Seq(MCData) /\ accepted' \in Seq(Nat) /\ cut' \in BOOLEAN
      /\ outbox' \in Seq(B!Byte) /\ left' \in Seq(B!Byte)
      /\ LeftIsAccepted'
  BY HandKeeps DEF B!Write, B!End
<1>2. CASE UNCHANGED <<stage, inbox, sent, got>> /\ heard' = heard /\ gone' = gone
           /\ writes' \in 0 .. 2 * MaxWrites /\ ending' \in {"no", "called", "thrown"}
           /\ (ending' = "called" => stage' = "destroyed")
  BY <1>1, <1>2 DEF ByteInv, B!TypeOK, NothingIsMissing, B!ReadsInOrder, B!EndCloses
<1>3. CASE B!Destroy /\ heard' = heard /\ gone' = gone /\ writes' = writes /\ ending' = "called"
  BY <1>1, <1>3, DestroyKeeps DEF ByteInv, B!TypeOK, B!EndCloses
<1>4. CASE B!Write(data)
  BY <1>2, <1>4, ByteAssumption DEF B!Write, B!inVars, ByteInv, B!TypeOK, B!EndCloses
<1>5. CASE B!End(data)
  BY <1>2, <1>3, <1>5, ByteAssumption DEF B!End, B!inVars, ByteInv, B!TypeOK, B!EndCloses
<1> QED BY <1>4, <1>5

LEMMA ByteStepInv == ByteInv /\ [B!Next]_byteVars => ByteInv'
<1> SUFFICES ASSUME ByteInv, [B!Next]_byteVars PROVE ByteInv'
  OBVIOUS
<1> USE DEF ByteInv, B!EndCloses
<1>1. CASE B!Connect
  <2>1. got = <<>> /\ inbox = <<>> /\ sent = <<>> /\ <<>> \o <<>> = <<>>
    BY <1>1, ConcatEmptySeq, EmptySeq DEF B!Connect, NothingIsMissing
  <2> QED BY <1>1, <2>1 DEF B!Connect, B!TypeOK, NothingIsMissing, LeftIsAccepted, B!ReadsInOrder,
                            B!inVars, B!outVars, B!Bytes
<1>2. CASE B!ScriptDestroys
  BY <1>2, DestroyKeeps DEF B!ScriptDestroys, B!TypeOK, LeftIsAccepted, B!outVars, B!Bytes
<1>3. CASE B!PeerReads
  BY <1>3, EmptySeq
  DEF B!PeerReads, B!TypeOK, NothingIsMissing, LeftIsAccepted, B!ReadsInOrder, B!inVars, B!Bytes
<1>4. CASE \E how \in {"ended", "reset"} : B!PeerGoes(how)
  BY <1>4 DEF B!PeerGoes, B!TypeOK, NothingIsMissing, LeftIsAccepted, B!ReadsInOrder, B!inVars,
              B!outVars, B!Bytes
<1>5. CASE UNCHANGED byteVars
  BY <1>5 DEF byteVars, B!TypeOK, NothingIsMissing, LeftIsAccepted, B!ReadsInOrder, B!Bytes
<1> QED
  BY <1>1, <1>2, <1>3, <1>4, <1>5, ReadTickKeeps, WriteKeeps, PeerWritesKeeps DEF B!Next

(* Where every byte is a byte, they leave as they were written. *)
LEMMA ByteInvArrive == ByteInv => B!BytesArrive
<1> QED BY BytesOfBytes DEF ByteInv, B!TypeOK, LeftIsAccepted, B!BytesArrive

-----------------------------------------------------------------------------
(* Files.  A descriptor is given out once (nextFd), what may be written is *)
(* a file, and the position of a reader's descriptor is behind the chunks  *)
(* it gave out, the ones it passed over and the one it has buffered.       *)
Entry == [inode : F!Inode \cup {F!Directory}, pos : Nat, read : BOOLEAN, write : BOOLEAN,
          append : BOOLEAN]
Reader == [buffer : Seq(Nat), got : Seq(Nat), over : BOOLEAN]
Longest == F!Max2(GivenChunks, MaxChunks)

Shape(s) ==
  /\ s = [at |-> s.at, length |-> s.length, files |-> s.files, nextFd |-> s.nextFd]
  /\ s.at \in [Path -> {F!Absent, F!Directory} \cup F!Inode]
  /\ s.length \in [F!Inode -> Nat]
  /\ s.files \in [DOMAIN s.files -> Entry]
  /\ DOMAIN s.files \subseteq F!Fd

Short(s) == \A i \in F!Inode : s.length[i] <= Longest

FilesTyped ==
  /\ Shape(fs) /\ Short(fs)
  /\ fs.nextFd \in 1 .. MaxFileFd + 1
  /\ Cardinality(DOMAIN fs.files) <= MaxOpen
  /\ own \subseteq F!Fd /\ fileClosed \subseteq F!Fd
  /\ DOMAIN readers \subseteq F!Fd /\ readers \in [DOMAIN readers -> Reader]
  /\ DOMAIN writers \subseteq F!Fd
  /\ later \in Seq(F!PathOps) /\ Len(later) <= MaxLater

WrittenAreFiles ==
  \A f \in DOMAIN fs.files : fs.files[f].write => fs.files[f].inode # F!Directory

GivenOnce ==
  \A f \in own \cup fileClosed \cup DOMAIN readers \cup DOMAIN writers : f < fs.nextFd

Behind(r, pos) == pos = 2 * (Len(r.got) + Len(r.buffer))

ReadersFollow ==
  \A f \in DOMAIN readers :
    LET r == readers[f]
    IN /\ Len(r.buffer) <= 1
       /\ \A i \in 1 .. Len(r.buffer) : r.buffer[i] = 2 * (Len(r.got) + 1)
       /\ ~r.over => f \in DOMAIN fs.files /\ Behind(r, fs.files[f].pos)
       /\ r.over => r.buffer = <<>>

FilesInv ==
  /\ FilesTyped /\ WrittenAreFiles /\ GivenOnce /\ ReadersFollow
  /\ F!ClosedStaysClosed /\ F!DescriptorsAreHeld /\ F!EveryOtherChunk

LEMMA FilesCount ==
  ASSUME NEW D \in SUBSET F!Fd
  PROVE  /\ IsFiniteSet(D) /\ Cardinality(D) \in Nat /\ Cardinality(D) <= MaxFileFd
         /\ \A S : F!Cardinality(S) = Cardinality(S)
<1>1. IsFiniteSet(F!Fd) /\ Cardinality(F!Fd) = MaxFileFd
  <2>1. MaxFileFd \in Nat /\ F!Fd = 1 .. MaxFileFd
    BY FilesAssumption DEF F!Fd
  <2>2. /\ IsFiniteSet(1 .. MaxFileFd)
        /\ Cardinality(1 .. MaxFileFd) = IF 1 > MaxFileFd THEN 0 ELSE MaxFileFd - 1 + 1
    BY <2>1, FS_Interval
  <2> QED BY <2>1, <2>2
<1>2. IsFiniteSet(D) /\ Cardinality(D) <= Cardinality(F!Fd)
  BY <1>1, FS_Subset
<1> QED BY <1>1, <1>2, FS_CardinalityType DEF F!Cardinality, Cardinality

(* There is a file number that no path and no descriptor has. *)
LEMMA FreeInode ==
  ASSUME NEW s, Shape(s)
  PROVE  \E j \in F!Inode : ~F!InUse(s, j)
<1> SUFFICES ASSUME \A j \in F!Inode : F!InUse(s, j) PROVE FALSE
  OBVIOUS
<1> DEFINE named == {s.at[p] : p \in Path}
           inodes == [f \in DOMAIN s.files |-> s.files[f].inode]
           open == {inodes[f] : f \in DOMAIN s.files}
<1>1. /\ IsFiniteSet(Path) /\ Cardinality(Path) \in Nat
      /\ IsFiniteSet(DOMAIN s.files) /\ Cardinality(DOMAIN s.files) <= MaxFileFd
      /\ Cardinality(DOMAIN s.files) \in Nat /\ MaxFileFd \in Nat
      /\ F!Cardinality(Path) = Cardinality(Path)
  BY FilesAssumption, FilesCount, FS_CardinalityType DEF Shape
<1>2. IsFiniteSet(named) /\ Cardinality(named) <= Cardinality(Path)
  <2>1. s.at \in Surjection(Path, named)
    BY DEF Shape, Surjection
  <2> QED BY <1>1, <2>1, FS_Surjection
<1>3. IsFiniteSet(open) /\ Cardinality(open) <= Cardinality(DOMAIN s.files)
  <2>1. inodes \in Surjection(DOMAIN s.files, open)
    BY DEF Surjection
  <2> QED BY <1>1, <2>1, FS_Surjection
<1>4. F!Inode \subseteq named \cup open
  BY DEF F!InUse
<1>5. /\ IsFiniteSet(named \cup open)
      /\ Cardinality(named \cup open) <= Cardinality(named) + Cardinality(open)
  <2> HIDE DEF named, open
  <2>1. /\ IsFiniteSet(named \cup open)
        /\ Cardinality(named \cup open) = Cardinality(named) + Cardinality(open) - Cardinality(named \cap open)
    BY <1>2, <1>3, FS_Union
  <2>2. Cardinality(named \cap open) \in Nat /\ Cardinality(named) \in Nat /\ Cardinality(open) \in Nat
    <3>1. IsFiniteSet(named \cap open)
      BY <1>2, FS_Subset
    <3> QED BY <1>2, <1>3, <3>1, FS_CardinalityType
  <2> QED BY <2>1, <2>2
<1>6. Cardinality(F!Inode) = Cardinality(Path) + MaxFileFd + 1
  BY <1>1, FS_Interval DEF F!Inode
<1>7. Cardinality(F!Inode) <= Cardinality(named \cup open)
  BY <1>4, <1>5, FS_Subset
<1>8. Cardinality(named) \in Nat /\ Cardinality(open) \in Nat /\ Cardinality(named \cup open) \in Nat
  BY <1>2, <1>3, <1>5, FS_CardinalityType
<1> QED
  <2> HIDE DEF named, open
  <2> QED BY <1>1, <1>2, <1>3, <1>5, <1>6, <1>7, <1>8

(* What an EXCEPT on the state gives. *)
LEMMA Changed ==
  ASSUME NEW s, Shape(s), NEW x
  PROVE  /\ [s EXCEPT !.at = x] = [at |-> x, length |-> s.length, files |-> s.files, nextFd |-> s.nextFd]
         /\ [s EXCEPT !.length = x] = [at |-> s.at, length |-> x, files |-> s.files, nextFd |-> s.nextFd]
         /\ [s EXCEPT !.files = x] = [at |-> s.at, length |-> s.length, files |-> x, nextFd |-> s.nextFd]
BY DEF Shape

(* What is left alone when a call on a path or a descriptor's file is over. *)
Same(s, t) == t.files = s.files /\ t.nextFd = s.nextFd

LEMMA PutShape ==
  ASSUME NEW s, Shape(s), NEW p \in Path, NEW n \in Nat
  PROVE  /\ Shape(F!Put(s, p, n)) /\ Same(s, F!Put(s, p, n))
         /\ Short(s) /\ n <= Longest => Short(F!Put(s, p, n))
         /\ F!Put(s, p, n).at[p] \in F!Inode
         /\ \A i \in F!Inode : F!Put(s, p, n).length[i] \in {s.length[i], n}
<1> DEFINE i == IF F!IsFile(s, p) THEN s.at[p] ELSE CHOOSE j \in F!Inode : ~F!InUse(s, j)
           t == F!Put(s, p, n)
<1>1. i \in F!Inode
  <2>1. CASE F!IsFile(s, p)
    <3>1. s.at[p] > 0 /\ s.at[p] \in {0, -1} \cup F!Inode
      BY <2>1 DEF F!IsFile, Shape, F!Absent, F!Directory
    <3>2. s.at[p] \in F!Inode
      BY <3>1
    <3> QED BY <2>1, <3>2
  <2>2. CASE ~F!IsFile(s, p)
    <3>1. (CHOOSE j \in F!Inode : ~F!InUse(s, j)) \in F!Inode
      BY FreeInode
    <3> QED BY <2>2, <3>1
  <2> QED BY <2>1, <2>2
<1>2. t = [s EXCEPT !.at[p] = i, !.length[i] = n]
  BY DEF F!Put
<1> HIDE DEF i
<1>3. t = [at |-> [s.at EXCEPT ![p] = i], length |-> [s.length EXCEPT ![i] = n],
           files |-> s.files, nextFd |-> s.nextFd]
  BY <1>2 DEF Shape
<1> HIDE DEF t
<1>4. t.at[p] = i /\ \A j \in F!Inode : t.length[j] = IF j = i THEN n ELSE s.length[j]
  BY <1>1, <1>3 DEF Shape
<1>5. Shape(t) /\ Same(s, t)
  BY <1>1, <1>3 DEF Shape, Same
<1>6. ASSUME Short(s), n <= Longest PROVE Short(t)
  BY <1>4, <1>6 DEF Short
<1> QED BY <1>1, <1>4, <1>5, <1>6 DEF t

LEMMA TidyShape ==
  ASSUME NEW s, Shape(s)
  PROVE  Shape(F!Tidy(s)) /\ Same(s, F!Tidy(s)) /\ (Short(s) => Short(F!Tidy(s)))
<1> DEFINE len == [i \in F!Inode |-> IF F!InUse(s, i) THEN s.length[i] ELSE 0]
<1>1. F!Tidy(s) = [s EXCEPT !.length = len]
  BY DEF F!Tidy, Shape
<1>2. len \in [F!Inode -> Nat] /\ \A i \in F!Inode : len[i] \in {s.length[i], 0}
  BY DEF Shape
<1> HIDE DEF len
<1>3. F!Tidy(s) = [at |-> s.at, length |-> len, files |-> s.files, nextFd |-> s.nextFd]
  BY <1>1, Changed
<1>4. Longest \in Nat
  BY FilesAssumption DEF Longest, F!Max2
<1> QED BY <1>2, <1>3, <1>4 DEF Shape, Same, Short

LEMMA AtShape ==
  ASSUME NEW s, Shape(s), NEW at \in [Path -> {F!Absent, F!Directory} \cup F!Inode]
  PROVE  LET t == [s EXCEPT !.at = at]
         IN Shape(t) /\ Same(s, t) /\ (Short(s) => Short(t))
<1>1. [s EXCEPT !.at = at] = [at |-> at, length |-> s.length, files |-> s.files, nextFd |-> s.nextFd]
  BY Changed
<1> QED BY <1>1 DEF Shape, Same, Short

(* What a call on a path may leave: the tables as they were. *)
Kept(s, t) == Shape(t) /\ Short(t) /\ Same(s, t)

LEMMA Lengths ==
  ASSUME NEW s, Shape(s), Short(s), NEW p \in Path
  PROVE  F!Length(s, p) \in Nat /\ F!Length(s, p) <= Longest /\ 1 <= Longest /\ 0 <= Longest
<1>1. Longest \in Nat /\ 1 <= Longest
  BY FilesAssumption DEF Longest, F!Max2
<1>2. F!IsFile(s, p) => s.at[p] \in F!Inode
  BY DEF F!IsFile, Shape, F!Absent, F!Directory
<1> QED BY <1>1, <1>2 DEF F!Length, Shape, Short

LEMMA PutKept ==
  ASSUME NEW s, Shape(s), Short(s), NEW p \in Path, NEW n \in Nat, n <= Longest
  PROVE  Kept(s, F!Put(s, p, n))
<1> QED BY PutShape DEF Kept

LEMMA WriteKept ==
  ASSUME NEW s, Shape(s), Short(s), NEW p \in Path, NEW n \in Nat, n <= Longest,
         NEW o \in F!WriteFile(s, p, n)
  PROVE  Kept(s, o.s)
<1>1. Kept(s, F!Put(s, p, n)) /\ Kept(s, F!Put(s, p, 0)) /\ Kept(s, s)
  BY PutKept, Lengths DEF Kept, Same
<1> QED BY <1>1 DEF F!WriteFile, F!Done, F!Fails

LEMMA AppendKept ==
  ASSUME Shape(fs), Short(fs), NEW p \in Path, NEW o \in F!Within(F!AppendFile(fs, p))
  PROVE  Kept(fs, o.s)
<1>1. F!Length(fs, p) \in Nat /\ F!Length(fs, p) <= Longest /\ Longest \in Nat
  BY Lengths, FilesAssumption DEF Longest, F!Max2
<1>2. Kept(fs, F!Put(fs, p, F!Length(fs, p))) /\ Kept(fs, fs)
  BY <1>1, PutKept DEF Kept, Same
<1>3. CASE o.s = F!Put(fs, p, F!Length(fs, p)) \/ o.s = fs
  BY <1>2, <1>3
<1>4. CASE o.s = F!Put(fs, p, F!Length(fs, p) + 1)
  <2>1. Shape(o.s) /\ Same(fs, o.s)
    BY <1>1, <1>4, PutShape
  <2>2. ASSUME NEW i \in F!Inode PROVE o.s.length[i] <= Longest
    <3>1. o.s.length[i] <= F!Max2(fs.length[i], MaxChunks)
      BY DEF F!Within
    <3>2. fs.length[i] \in Nat /\ fs.length[i] <= Longest /\ o.s.length[i] \in Nat
      BY <2>1 DEF Shape, Short
    <3>3. MaxChunks <= Longest /\ MaxChunks \in Nat
      BY FilesAssumption DEF Longest, F!Max2
    <3> QED BY <1>1, <3>1, <3>2, <3>3 DEF F!Max2
  <2> QED BY <2>1, <2>2 DEF Kept, Short
<1>5. o \in F!AppendFile(fs, p)
  BY DEF F!Within
<1> QED BY <1>3, <1>4, <1>5 DEF F!AppendFile, F!Done, F!Fails

LEMMA TidyKept ==
  ASSUME NEW s, Shape(s), Short(s), NEW at \in [Path -> {F!Absent, F!Directory} \cup F!Inode]
  PROVE  Kept(s, F!Tidy([s EXCEPT !.at = at])) /\ Kept(s, [s EXCEPT !.at = at]) /\ Kept(s, s)
<1> DEFINE t == [s EXCEPT !.at = at]
<1>1. Shape(t) /\ Same(s, t) /\ Short(t)
  BY AtShape
<1>2. Shape(F!Tidy(t)) /\ Same(t, F!Tidy(t)) /\ Short(F!Tidy(t))
  BY <1>1, TidyShape
<1> QED BY <1>1, <1>2 DEF Kept, Same

LEMMA PathKept ==
  ASSUME NEW s, Shape(s), Short(s), NEW p \in Path, NEW q \in Path, NEW o,
         \/ \E n \in {0, 1} : o \in F!Truncate(s, p, n)
         \/ o \in F!Unlink(s, p) \/ o \in F!RemoveAll(s, p)
         \/ \E recursive \in BOOLEAN : o \in F!Mkdir(s, p, recursive)
         \/ o \in F!Rename(s, p, q) \/ o \in F!Copy(s, p, q)
  PROVE  Kept(s, o.s)
<1> DEFINE Ats == [Path -> {F!Absent, F!Directory} \cup F!Inode]
<1>0. s.at \in Ats /\ Kept(s, s) /\ s = [at |-> s.at, length |-> s.length, files |-> s.files, nextFd |-> s.nextFd]
  BY DEF Kept, Same, Shape
<1>1. ASSUME NEW n \in {0, 1}, o \in F!Truncate(s, p, n) PROVE Kept(s, o.s)
  <2> DEFINE m == IF n < F!Length(s, p) THEN n ELSE F!Length(s, p)
  <2>1. m \in Nat /\ m <= Longest
    BY Lengths
  <2>2. o.s = s \/ o \in F!WriteFile(s, p, m)
    BY <1>1 DEF F!Truncate, F!Fails
  <2> HIDE DEF m
  <2> QED BY <1>0, <2>1, <2>2, WriteKept
<1>2. CASE o \in F!Unlink(s, p)
  <2> DEFINE at == [s.at EXCEPT ![p] = F!Absent]
  <2>1. at \in Ats
    BY <1>0
  <2>2. [s EXCEPT !.at[p] = F!Absent] = [s EXCEPT !.at = at]
    BY <1>0
  <2>3. o.s = F!Tidy([s EXCEPT !.at = at]) \/ o.s = s
    BY <1>2, <2>2 DEF F!Unlink, F!Done, F!Fails
  <2> HIDE DEF at
  <2> QED BY <1>0, <2>1, <2>3, TidyKept
<1>3. CASE o \in F!RemoveAll(s, p)
  <2>1. PICK stuck \in SUBSET ({p} \cup F!List(s, p)) :
          o = F!Done(F!Tidy([s EXCEPT !.at = [t \in Path |->
                IF (t = p \/ MCParent[t] = p) /\ t \notin stuck THEN F!Absent ELSE s.at[t]]]))
    BY <1>0, <1>3 DEF F!RemoveAll
  <2> DEFINE at == [t \in Path |->
                      IF (t = p \/ MCParent[t] = p) /\ t \notin stuck THEN F!Absent ELSE s.at[t]]
  <2>2. at \in Ats
    BY <1>0
  <2>3. o.s = F!Tidy([s EXCEPT !.at = at])
    BY <2>1 DEF F!Done
  <2> HIDE DEF at
  <2> QED BY <2>2, <2>3, TidyKept
<1>4. ASSUME NEW recursive \in BOOLEAN, o \in F!Mkdir(s, p, recursive) PROVE Kept(s, o.s)
  <2> DEFINE up == MCParent[p]
             at == [s.at EXCEPT ![p] = F!Directory]
             at2 == [at EXCEPT ![up] = F!Directory]
  <2>1. at \in Ats /\ at2 \in Ats
    BY <1>0
  <2>2. [s EXCEPT !.at[p] = F!Directory] = [s EXCEPT !.at = at]
    BY <1>0
  <2>3. [[s EXCEPT !.at[p] = F!Directory] EXCEPT !.at[up] = F!Directory] = [s EXCEPT !.at = at2]
    BY <1>0
  <2>4. o.s = s \/ o.s = [s EXCEPT !.at = at] \/ o.s = [s EXCEPT !.at = at2]
    <3> HIDE DEF at, at2
    <3> QED BY <1>4, <2>2, <2>3 DEF F!Mkdir, F!Done, F!Fails
  <2> HIDE DEF at, at2
  <2> QED BY <1>0, <2>1, <2>4, TidyKept
<1>5. CASE o \in F!Rename(s, p, q)
  <2> DEFINE at == [s.at EXCEPT ![q] = s.at[p], ![p] = F!Absent]
  <2>1. at \in Ats
    BY <1>0
  <2>2. [s EXCEPT !.at[q] = s.at[p], !.at[p] = F!Absent] = [s EXCEPT !.at = at]
    BY <1>0
  <2>3. o.s = s \/ o.s = F!Tidy([s EXCEPT !.at = at])
    <3> HIDE DEF at
    <3> QED BY <1>5, <2>2 DEF F!Rename, F!Done, F!Fails
  <2> HIDE DEF at
  <2> QED BY <1>0, <2>1, <2>3, TidyKept
<1>6. CASE o \in F!Copy(s, p, q)
  <2> DEFINE n == IF p = q THEN 0 ELSE F!Length(s, p)
  <2>1. n \in Nat /\ n <= Longest
    BY Lengths
  <2>2. o.s = s \/ o.s = F!Put(s, q, n)
    BY <1>6 DEF F!Copy, F!Done, F!Fails
  <2> HIDE DEF n
  <2> QED BY <1>0, <2>1, <2>2, PutKept
<1> QED BY <1>1, <1>2, <1>3, <1>4, <1>5, <1>6

LEMMA OutcomeKept ==
  ASSUME Shape(fs), Short(fs), NEW op \in F!PathOps, NEW o \in F!Outcomes(fs, op)
  PROVE  Kept(fs, o.s)
<1>1. op.p \in Path /\ op.n \in {0, 1}
  BY DEF F!PathOps
<1>2. CASE op.do = "write"
  <2>1. o \in F!WriteFile(fs, op.p, 1) /\ 1 <= Longest
    BY <1>1, <1>2, Lengths DEF F!Outcomes
  <2> QED BY <1>1, <2>1, WriteKept
<1>3. CASE op.do = "append"
  <2>1. o \in F!Within(F!AppendFile(fs, op.p))
    BY <1>3 DEF F!Outcomes
  <2> QED BY <1>1, <2>1, AppendKept
<1>4. CASE op.do \in {"rename", "copy"}
  <2>1. op.q \in Path
    BY <1>4 DEF F!PathOps
  <2>2. o \in F!Rename(fs, op.p, op.q) \/ o \in F!Copy(fs, op.p, op.q)
    BY <1>4 DEF F!Outcomes
  <2> QED BY <1>1, <2>1, <2>2, PathKept
<1>5. CASE op.do \in {"truncate", "unlink", "rm", "mkdir", "mkdirp"}
  <2>1. \/ o \in F!Truncate(fs, op.p, op.n)
        \/ o \in F!Unlink(fs, op.p) \/ o \in F!RemoveAll(fs, op.p)
        \/ \E recursive \in BOOLEAN : o \in F!Mkdir(fs, op.p, recursive)
    BY <1>5 DEF F!Outcomes
  <2> QED BY <1>1, <2>1, PathKept
<1>6. op.do \in {"write", "append", "rename", "copy", "truncate", "unlink", "rm", "mkdir", "mkdirp"}
  BY DEF F!PathOps
<1> QED BY <1>2, <1>3, <1>4, <1>5, <1>6

(* What a call on a descriptor may leave: at most its own entry is another. *)
Entered(s, t, desc) ==
  /\ Shape(t) /\ Short(t) /\ t.nextFd = s.nextFd
  /\ DOMAIN t.files = DOMAIN s.files
  /\ \A f \in DOMAIN s.files : /\ t.files[f].write = s.files[f].write
                               /\ t.files[f].inode = s.files[f].inode
                               /\ f # desc => t.files[f] = s.files[f]

Opened(s, t) ==
  LET desc == s.nextFd
  IN /\ desc \in F!Fd => Shape(t)
     /\ Short(t) /\ t.nextFd = desc + 1
     /\ DOMAIN t.files = DOMAIN s.files \cup {desc}
     /\ t.files[desc] \in Entry /\ t.files[desc].pos = 0
     /\ t.files[desc].write => t.files[desc].inode # F!Directory
     /\ \A f \in DOMAIN s.files : f # desc => t.files[f] = s.files[f]

LEMMA FlagKinds ==
  ASSUME NEW n \in F!Flags
  PROVE  n % 4 = 0 => ~F!Bit(n, 1024)
<1> QED BY DEF F!Flags, F!Bit

LEMMA OpenOutcome ==
  ASSUME NEW s, Shape(s), Short(s), NEW p \in Path, NEW n \in F!Flags, NEW o \in F!Open(s, p, n),
         s.nextFd \in Nat
  PROVE  /\ ~o.ok => Kept(s, o.s)
         /\ o.ok => Opened(s, o.s) /\ F!Cardinality(DOMAIN s.files) < MaxOpen
<1> DEFINE write == n % 4 \in {1, 2}
           append == F!Bit(n, 1024)
           new == F!Bit(n, 128)
           truncate == F!Bit(n, 512) /\ ~new
           opened == IF s.at[p] = F!Directory THEN s
                     ELSE F!Put(s, p, IF truncate THEN 0 ELSE F!Length(s, p))
           entry == [inode |-> opened.at[p], pos |-> 0, read |-> n % 4 \in {0, 2},
                     write |-> write \/ append, append |-> append]
           files == [f \in DOMAIN opened.files \cup {s.nextFd} |->
                       IF f = s.nextFd THEN entry ELSE opened.files[f]]
<1>1. Kept(s, s) /\ Kept(s, opened)
  <2>1. Kept(s, s)
    BY DEF Kept, Same
  <2>2. ASSUME NEW m \in Nat, m <= Longest PROVE Kept(s, F!Put(s, p, m))
    BY <2>2, PutKept
  <2>3. F!Length(s, p) \in Nat /\ F!Length(s, p) <= Longest /\ 0 <= Longest
    BY Lengths
  <2>4. Kept(s, F!Put(s, p, F!Length(s, p))) /\ Kept(s, F!Put(s, p, 0))
    BY <2>2, <2>3
  <2> QED BY <2>1, <2>4
<1>2. opened.at[p] \in F!Inode \cup {F!Directory} /\ (s.at[p] # F!Directory => opened.at[p] \in F!Inode)
  <2>1. F!Length(s, p) \in Nat
    BY Lengths
  <2>2. /\ F!Put(s, p, F!Length(s, p)).at[p] \in F!Inode
        /\ F!Put(s, p, 0).at[p] \in F!Inode
    BY <2>1, PutShape
  <2> QED BY <2>2
<1>3. ASSUME o.ok = FALSE, o.s \in {s, opened}
      PROVE  Kept(s, o.s)
  <2> HIDE DEF opened
  <2> QED BY <1>1, <1>3
<1>4. ASSUME o = F!Gives([opened EXCEPT !.nextFd = s.nextFd + 1, !.files = files], s.nextFd),
             F!Cardinality(DOMAIN s.files) < MaxOpen,
             s.at[p] = F!Directory => n % 4 = 0
      PROVE  o.ok = TRUE /\ Opened(s, o.s)
  <2>1. Shape(opened) /\ Short(opened) /\ opened.files = s.files /\ opened.nextFd = s.nextFd
    BY <1>1 DEF Kept, Same
  <2>2. write \in BOOLEAN /\ append \in BOOLEAN /\ (n % 4 \in {0, 2}) \in BOOLEAN
    BY DEF F!Bit
  <2>3. entry \in Entry /\ entry.pos = 0
    <3> HIDE DEF opened, write, append
    <3> QED BY <1>2, <2>2 DEF Entry
  <2>4. entry.write => entry.inode # F!Directory
    <3>1. entry.write = (write \/ append) /\ entry.inode = opened.at[p]
      OBVIOUS
    <3>2. (write \/ append) => s.at[p] # F!Directory
      BY <1>4, FlagKinds
    <3>3. F!Directory \notin F!Inode
      BY DEF F!Directory, F!Inode
    <3> HIDE DEF write, append, opened, entry
    <3> QED BY <1>2, <3>1, <3>2, <3>3
  <2> HIDE DEF opened, entry
  <2>5. o.ok = TRUE /\ o.s = [at |-> opened.at, length |-> opened.length, files |-> files, nextFd |-> s.nextFd + 1]
    BY <1>4, <2>1 DEF F!Gives, Shape
  <2>6. /\ DOMAIN files = DOMAIN s.files \cup {s.nextFd} /\ files[s.nextFd] = entry
        /\ \A f \in DOMAIN s.files : f # s.nextFd => files[f] = s.files[f]
        /\ files \in [DOMAIN files -> Entry]
    BY <2>1, <2>3 DEF Shape
  <2> HIDE DEF files
  <2> QED BY <2>1, <2>3, <2>4, <2>5, <2>6 DEF Opened, Shape, Short
<1>5. \/ o.ok = FALSE /\ o.s \in {s, opened}
      \/ /\ o = F!Gives([opened EXCEPT !.nextFd = s.nextFd + 1, !.files = files], s.nextFd)
         /\ F!Cardinality(DOMAIN s.files) < MaxOpen
         /\ s.at[p] = F!Directory => n % 4 = 0
  <2> DEFINE written == [opened EXCEPT !.nextFd = s.nextFd + 1,
                           !.files = [f \in DOMAIN @ \cup {s.nextFd} |->
                                        IF f = s.nextFd THEN entry ELSE @[f]]]
  <2>1. written = [opened EXCEPT !.nextFd = s.nextFd + 1, !.files = files]
    <3>1. Shape(opened)
      BY <1>1 DEF Kept
    <3> HIDE DEF opened, entry
    <3> QED BY <3>1 DEF Shape
  <2>2. \/ o \in {F!Fails(s), F!Fails(opened)}
        \/ /\ o = F!Gives(written, s.nextFd)
           /\ F!Cardinality(DOMAIN s.files) < MaxOpen
           /\ s.at[p] = F!Directory => n % 4 = 0
    <3>1. F!Cardinality(DOMAIN s.files) \in Nat /\ MaxOpen \in Nat
      BY FilesAssumption, FilesCount DEF Shape
    <3> QED BY <3>1 DEF F!Open, F!NextFd
  <2> HIDE DEF opened, written
  <2>3. CASE o \in {F!Fails(s), F!Fails(opened)}
    BY <2>3 DEF F!Fails
  <2> QED BY <2>1, <2>2, <2>3
<1> QED
  <2> HIDE DEF opened, files
  <2> QED BY <1>3, <1>4, <1>5

LEMMA ReadOutcome ==
  ASSUME NEW s, Shape(s), Short(s), NEW desc, NEW o \in F!ReadFd(s, desc)
  PROVE  /\ Entered(s, o.s, desc)
         /\ o.ok /\ o.value # 0 =>
              /\ desc \in DOMAIN s.files
              /\ o.value = s.files[desc].pos + 1 /\ o.s.files[desc].pos = s.files[desc].pos + 1
<1>1. Entered(s, s, desc)
  BY DEF Entered
<1>2. CASE o = F!Fails(s) \/ o = F!Done(s)
  <2>1. o.s = s /\ o.value = 0
    BY <1>2 DEF F!Fails, F!Done
  <2> QED BY <1>1, <2>1
<1>3. CASE /\ desc \in DOMAIN s.files
           /\ o = F!Gives([s EXCEPT !.files[desc].pos = @ + 1], s.files[desc].pos + 1)
  <2> DEFINE e == [s.files[desc] EXCEPT !.pos = s.files[desc].pos + 1]
             files == [s.files EXCEPT ![desc] = e]
  <2>1. s.files[desc] \in Entry
    BY <1>3 DEF Shape
  <2>2. /\ e \in Entry /\ e.pos = s.files[desc].pos + 1
        /\ e.write = s.files[desc].write /\ e.inode = s.files[desc].inode
    BY <2>1 DEF Entry
  <2>3. [s EXCEPT !.files[desc].pos = @ + 1] = [s EXCEPT !.files = files]
    BY <1>3 DEF Shape
  <2> HIDE DEF e
  <2>4. /\ DOMAIN files = DOMAIN s.files /\ files[desc] = e /\ files \in [DOMAIN files -> Entry]
        /\ \A f \in DOMAIN s.files : f # desc => files[f] = s.files[f]
    BY <1>3, <2>2 DEF Shape
  <2> HIDE DEF files
  <2>5. o.s = [at |-> s.at, length |-> s.length, files |-> files, nextFd |-> s.nextFd]
        /\ o.ok = TRUE /\ o.value = s.files[desc].pos + 1
    BY <1>3, <2>3, Changed DEF F!Gives
  <2>6. Shape(o.s) /\ Short(o.s)
    BY <2>4, <2>5 DEF Shape, Short
  <2>7. o.s.files = files /\ o.s.nextFd = s.nextFd
    BY <2>5
  <2>8. Entered(s, o.s, desc)
    BY <1>3, <2>2, <2>4, <2>6, <2>7 DEF Entered
  <2>9. o.s.files[desc].pos = s.files[desc].pos + 1
    BY <2>2, <2>4, <2>7
  <2> QED BY <1>3, <2>5, <2>8, <2>9
<1> QED BY <1>2, <1>3 DEF F!ReadFd

LEMMA WriteOutcome ==
  ASSUME Shape(fs), Short(fs), WrittenAreFiles, NEW desc, NEW o \in F!Within(F!WriteFd(fs, desc))
  PROVE  Entered(fs, o.s, desc)
<1>1. Entered(fs, fs, desc)
  BY DEF Entered
<1>2. CASE o = F!Fails(fs)
  BY <1>1, <1>2 DEF F!Fails
<1>3. CASE /\ desc \in DOMAIN fs.files /\ fs.files[desc].write /\ o # F!Fails(fs)
  <2> DEFINE old == fs.files[desc]
             pos == IF old.append THEN fs.length[old.inode] ELSE old.pos
             e == [old EXCEPT !.pos = pos + 1]
             files == [fs.files EXCEPT ![desc] = e]
             length == [fs.length EXCEPT ![old.inode] = F!Max2(fs.length[old.inode], pos + 1)]
  <2>1. old \in Entry /\ old.inode \in F!Inode /\ fs.length[old.inode] \in Nat
    BY <1>3 DEF Shape, WrittenAreFiles, Entry
  <2>2. pos \in Nat
    BY <2>1 DEF Entry
  <2>3. o = F!Done([fs EXCEPT !.files[desc].pos = pos + 1,
                              !.length[old.inode] = F!Max2(@, pos + 1)])
    BY <1>3 DEF F!Within, F!WriteFd
  <2> HIDE DEF pos
  <2>4. [fs EXCEPT !.files[desc].pos = pos + 1, !.length[old.inode] = F!Max2(@, pos + 1)]
          = [at |-> fs.at, length |-> length, files |-> files, nextFd |-> fs.nextFd]
    <3>1. fs = [at |-> fs.at, length |-> fs.length, files |-> fs.files, nextFd |-> fs.nextFd]
      BY DEF Shape
    <3>2. [fs EXCEPT !.files[desc].pos = pos + 1]
            = [at |-> fs.at, length |-> fs.length, files |-> files, nextFd |-> fs.nextFd]
      BY <1>3, <3>1
    <3> DEFINE t == [fs EXCEPT !.files[desc].pos = pos + 1]
    <3>3. [fs EXCEPT !.files[desc].pos = pos + 1, !.length[old.inode] = F!Max2(@, pos + 1)]
            = [t EXCEPT !.length[old.inode] = F!Max2(@, pos + 1)]
      OBVIOUS
    <3>4. t = [at |-> fs.at, length |-> fs.length, files |-> files, nextFd |-> fs.nextFd]
      BY <3>2
    <3> HIDE DEF t, files
    <3>5. [t EXCEPT !.length[old.inode] = F!Max2(@, pos + 1)]
            = [at |-> fs.at, length |-> length, files |-> files, nextFd |-> fs.nextFd]
      BY <3>4
    <3> QED BY <3>3, <3>5 DEF t
  <2>5. e \in Entry /\ e.write = old.write /\ e.inode = old.inode
    BY <2>1, <2>2 DEF Entry
  <2>6. length \in [F!Inode -> Nat]
    <3>1. F!Max2(fs.length[old.inode], pos + 1) \in Nat
      BY <2>1, <2>2 DEF F!Max2
    <3> QED BY <2>1, <3>1 DEF Shape
  <2>7. /\ DOMAIN files = DOMAIN fs.files /\ files[desc] = e /\ files \in [DOMAIN files -> Entry]
        /\ \A f \in DOMAIN fs.files : f # desc => files[f] = fs.files[f]
    BY <1>3, <2>5 DEF Shape
  <2> HIDE DEF files, length, e
  <2>8. o.s = [at |-> fs.at, length |-> length, files |-> files, nextFd |-> fs.nextFd]
    BY <2>3, <2>4 DEF F!Done
  <2>9. Short(o.s)
    <3> SUFFICES ASSUME NEW i \in F!Inode PROVE o.s.length[i] <= Longest
      BY DEF Short
    <3>1. o.s.length[i] <= F!Max2(fs.length[i], MaxChunks)
      BY DEF F!Within
    <3>2. fs.length[i] \in Nat /\ fs.length[i] <= Longest /\ o.s.length[i] \in Nat
      BY <2>6, <2>8 DEF Shape, Short
    <3>3. MaxChunks <= Longest /\ MaxChunks \in Nat /\ Longest \in Nat
      BY FilesAssumption DEF Longest, F!Max2
    <3> QED BY <3>1, <3>2, <3>3 DEF F!Max2
  <2> QED BY <2>5, <2>6, <2>7, <2>8, <2>9 DEF Entered, Shape
<1>4. o \in F!WriteFd(fs, desc)
  BY DEF F!Within
<1>5. desc \notin DOMAIN fs.files \/ ~fs.files[desc].write => o = F!Fails(fs)
  BY <1>4 DEF F!WriteFd
<1> QED BY <1>2, <1>3, <1>5

LEMMA TruncateOutcome ==
  ASSUME NEW s, Shape(s), Short(s), NEW desc, NEW n \in {0, 1}, NEW o \in F!TruncateFd(s, desc, n),
         \A f \in DOMAIN s.files : s.files[f].write => s.files[f].inode # F!Directory
  PROVE  Entered(s, o.s, desc)
<1>1. Entered(s, s, desc)
  BY DEF Entered
<1>2. CASE o.s = s
  BY <1>1, <1>2
<1>3. CASE /\ desc \in DOMAIN s.files /\ s.files[desc].write
           /\ o = F!Done([s EXCEPT !.length[s.files[desc].inode] = n])
  <2> DEFINE i == s.files[desc].inode
             length == [s.length EXCEPT ![i] = n]
  <2>1. i \in F!Inode
    BY <1>3 DEF Shape, Entry
  <2> HIDE DEF i
  <2>2. [s EXCEPT !.length[i] = n] = [s EXCEPT !.length = length]
    BY DEF Shape
  <2>3. 1 <= Longest /\ Longest \in Nat
    BY FilesAssumption DEF Longest, F!Max2
  <2>4. length \in [F!Inode -> Nat] /\ \A j \in F!Inode : length[j] <= Longest
    BY <2>1, <2>3 DEF Shape, Short
  <2> HIDE DEF length
  <2>5. o.s = [at |-> s.at, length |-> length, files |-> s.files, nextFd |-> s.nextFd]
    BY <1>3, <2>2, Changed DEF F!Done, i
  <2> QED BY <2>4, <2>5 DEF Entered, Shape, Short
<1> QED BY <1>2, <1>3 DEF F!TruncateFd, F!Done, F!Fails

(* Closed: the entry is gone, the others are as they were. *)
Without(s, t, desc) ==
  /\ Shape(t) /\ Short(t) /\ t.nextFd = s.nextFd
  /\ DOMAIN t.files = DOMAIN s.files \ {desc}
  /\ \A f \in DOMAIN t.files : t.files[f] = s.files[f]

LEMMA CloseOutcome ==
  ASSUME NEW s, Shape(s), Short(s), NEW desc
  PROVE  Without(s, F!CloseFd(s, desc), desc)
<1> DEFINE files == [f \in DOMAIN s.files \ {desc} |-> s.files[f]]
           t == [s EXCEPT !.files = files]
<1>1. F!CloseFd(s, desc) = F!Tidy(t)
  BY DEF F!CloseFd, Shape
<1>2. /\ DOMAIN files = DOMAIN s.files \ {desc} /\ files \in [DOMAIN files -> Entry]
      /\ \A f \in DOMAIN files : files[f] = s.files[f]
  BY DEF Shape
<1> HIDE DEF files
<1>3. t = [at |-> s.at, length |-> s.length, files |-> files, nextFd |-> s.nextFd]
  BY Changed
<1>4. Shape(t) /\ Short(t) /\ t.files = files /\ t.nextFd = s.nextFd
  BY <1>2, <1>3 DEF Shape, Short
<1> HIDE DEF t
<1>5. Shape(F!Tidy(t)) /\ Same(t, F!Tidy(t)) /\ Short(F!Tidy(t))
  BY <1>4, TidyShape
<1> QED BY <1>1, <1>2, <1>4, <1>5 DEF Without, Same

LEMMA FilesInitInv == F!Init => FilesInv
<1> SUFFICES ASSUME F!Init PROVE FilesInv
  OBVIOUS
<1> USE DEF F!Init
<1>1. 1 \in F!Inode /\ GivenChunks \in Nat /\ GivenChunks <= Longest /\ MaxOpen \in Nat
      /\ 0 <= Longest /\ MaxFileFd \in Nat /\ MaxLater \in Nat
  <2>1. F!Cardinality(Path) \in Nat
    BY FilesAssumption, FilesCount, FS_CardinalityType
  <2> QED BY <2>1, FilesAssumption DEF F!Inode, Longest, F!Max2
<1>2. DOMAIN fs.files = {} /\ F!Cardinality({}) = 0
  BY FS_EmptySet DEF F!Cardinality, Cardinality
<1>3. Shape(fs) /\ Short(fs)
  BY <1>1, <1>2 DEF Shape, Short
<1>4. FilesTyped
  <2>1. later \in Seq(F!PathOps) /\ Len(later) = 0
    BY EmptySeq
  <2>2. Cardinality(DOMAIN fs.files) = 0
    BY <1>2, FS_EmptySet
  <2> QED BY <1>1, <1>2, <1>3, <2>1, <2>2 DEF FilesTyped
<1> QED
  BY <1>2, <1>4 DEF FilesInv, WrittenAreFiles, GivenOnce, ReadersFollow, F!ClosedStaysClosed,
                    F!DescriptorsAreHeld, F!EveryOtherChunk

(* What the invariant says of the state, in the words of the lemmas above. *)
LEMMA FilesState ==
  ASSUME FilesInv
  PROVE  /\ Shape(fs) /\ Short(fs) /\ WrittenAreFiles
         /\ fs.nextFd \in Nat /\ fs.nextFd \notin DOMAIN fs.files
         /\ \A f \in DOMAIN fs.files : f < fs.nextFd
<1>1. DOMAIN fs.files \subseteq own \cup DOMAIN readers \cup DOMAIN writers
  BY DEF FilesInv, F!DescriptorsAreHeld
<1>2. \A f \in DOMAIN fs.files : f < fs.nextFd
  BY <1>1 DEF FilesInv, GivenOnce
<1> QED BY <1>2 DEF FilesInv, FilesTyped

(* Calls on paths leave the descriptors alone. *)
LEMMA KeptInv ==
  ASSUME FilesInv, Kept(fs, fs'), UNCHANGED <<own, fileClosed, readers, writers>>,
         later' \in Seq(F!PathOps), Len(later') <= MaxLater
  PROVE  FilesInv'
<1>1. Shape(fs') /\ Short(fs') /\ fs'.files = fs.files /\ fs'.nextFd = fs.nextFd
  BY DEF Kept, Same
<1>2. FilesTyped'
  BY <1>1 DEF FilesInv, FilesTyped, Shape, Short
<1>3. ReadersFollow'
  BY <1>1 DEF FilesInv, ReadersFollow
<1>4. F!DescriptorsAreHeld' /\ F!ClosedStaysClosed' /\ F!EveryOtherChunk'
  BY <1>1 DEF FilesInv, F!DescriptorsAreHeld, F!ClosedStaysClosed, F!EveryOtherChunk
<1> QED BY <1>1, <1>2, <1>3, <1>4 DEF FilesInv, WrittenAreFiles, GivenOnce

(* A read or a write of the script or a write stream moves no reader.      *)
LEMMA EnteredInv ==
  ASSUME FilesInv, NEW g, g \notin DOMAIN readers, Entered(fs, fs', g),
         UNCHANGED <<own, fileClosed, readers, writers, later>>
  PROVE  FilesInv'
<1>1. FilesTyped'
  BY DEF FilesInv, FilesTyped, Entered, Shape, Short
<1>2. WrittenAreFiles'
  BY DEF FilesInv, WrittenAreFiles, Entered
<1>3. ReadersFollow'
  BY DEF FilesInv, ReadersFollow, Entered
<1> QED
  BY <1>1, <1>2, <1>3 DEF FilesInv, GivenOnce, Entered,
                    F!ClosedStaysClosed, F!DescriptorsAreHeld, F!EveryOtherChunk

LEMMA PathsInv ==
  ASSUME FilesInv, F!CallSync \/ F!CallLater \/ F!RunLater
  PROVE  FilesInv'
<1>0. Shape(fs) /\ Short(fs) /\ Kept(fs, fs) /\ later \in Seq(F!PathOps) /\ Len(later) <= MaxLater
      /\ MaxLater \in Nat
  BY FilesState, FilesAssumption DEF FilesInv, FilesTyped, Kept, Same
<1>1. CASE F!CallSync
  <2> DEFINE outcomes == UNION {F!Outcomes(fs, op) : op \in F!PathOps}
  <2>a. PICK o \in outcomes : fs' = o.s
    <3> HIDE DEF outcomes
    <3>1. fs' \in {o.s : o \in outcomes}
      BY <1>1 DEF F!CallSync, outcomes
    <3> QED BY <3>1
  <2>1. PICK op \in F!PathOps : o \in F!Outcomes(fs, op)
    BY <2>a
  <2>2. Kept(fs, fs')
    BY <1>0, <2>a, <2>1, OutcomeKept
  <2>3. UNCHANGED <<own, fileClosed, readers, writers, later>>
    BY <1>1 DEF F!CallSync
  <2> QED BY <1>0, <2>2, <2>3, KeptInv
<1>2. CASE F!CallLater
  <2>1. PICK op \in F!PathOps : later' = Append(later, op)
    BY <1>2 DEF F!CallLater
  <2>2. later' \in Seq(F!PathOps) /\ Len(later') = Len(later) + 1 /\ Len(later) \in Nat
    BY <1>0, <2>1, AppendProperties, LenProperties
  <2>3. Len(later) < MaxLater /\ fs' = fs /\ UNCHANGED <<own, fileClosed, readers, writers>>
    BY <1>2 DEF F!CallLater
  <2>4. Kept(fs, fs')
    BY <1>0, <2>3
  <2> QED BY <1>0, <2>2, <2>3, <2>4, KeptInv
<1>3. CASE F!RunLater
  <2>1. later # <<>> /\ later' = Tail(later) /\ UNCHANGED <<own, fileClosed, readers, writers>>
    BY <1>3 DEF F!RunLater
  <2>2. Head(later) \in F!PathOps /\ Tail(later) \in Seq(F!PathOps) /\ Len(Tail(later)) = Len(later) - 1
    BY <1>0, <2>1, HeadTailProperties
  <2>3. PICK o \in F!Outcomes(fs, Head(later)) : fs' = o.s
    BY <1>3 DEF F!RunLater
  <2>4. Kept(fs, fs')
    BY <1>0, <2>2, <2>3, OutcomeKept
  <2>5. Len(later') <= MaxLater
    BY <1>0, <2>1, <2>2, LenProperties
  <2> QED BY <2>1, <2>2, <2>4, <2>5, KeptInv
<1> QED BY <1>1, <1>2, <1>3

LEMMA DescriptorsInv ==
  ASSUME FilesInv, F!ReadSync \/ F!WriteSync \/ F!TruncateSync \/ F!WriterWrite
  PROVE  FilesInv'
<1>0. Shape(fs) /\ Short(fs) /\ WrittenAreFiles
  BY FilesState
<1>1. PICK g, t : /\ g \in F!Known \cup DOMAIN writers /\ fs' = t /\ Entered(fs, t, g)
  <2>1. CASE F!ReadSync
    <3>1. PICK g \in F!Known : \E o \in F!ReadFd(fs, g) : fs' = o.s
      BY <2>1 DEF F!ReadSync
    <3>2. PICK o \in F!ReadFd(fs, g) : fs' = o.s
      BY <3>1
    <3>3. Entered(fs, o.s, g)
      BY <1>0, ReadOutcome
    <3> QED BY <3>1, <3>2, <3>3
  <2>2. CASE F!WriteSync
    <3>1. PICK g \in F!Known : \E o \in F!Within(F!WriteFd(fs, g)) : fs' = o.s
      BY <2>2 DEF F!WriteSync
    <3>2. PICK o \in F!Within(F!WriteFd(fs, g)) : fs' = o.s
      BY <3>1
    <3>3. Entered(fs, o.s, g)
      BY <1>0, WriteOutcome
    <3> QED BY <3>1, <3>2, <3>3
  <2>3. CASE F!WriterWrite
    <3>1. PICK g \in DOMAIN writers : \E o \in F!Within(F!WriteFd(fs, g)) : fs' = o.s
      BY <2>3 DEF F!WriterWrite
    <3>2. PICK o \in F!Within(F!WriteFd(fs, g)) : fs' = o.s
      BY <3>1
    <3>3. Entered(fs, o.s, g)
      BY <1>0, WriteOutcome
    <3> QED BY <3>1, <3>2, <3>3
  <2>4. CASE F!TruncateSync
    <3>a. PICK g \in F!Known, n \in {0, 1} : \E o \in F!TruncateFd(fs, g, n) : fs' = o.s
      BY <2>4 DEF F!TruncateSync
    <3>1. PICK o \in F!TruncateFd(fs, g, n) : fs' = o.s
      BY <3>a
    <3>2. Entered(fs, o.s, g)
      BY <1>0, TruncateOutcome DEF WrittenAreFiles
    <3> QED BY <3>a, <3>1, <3>2
  <2> QED BY <2>1, <2>2, <2>3, <2>4
<1>2. UNCHANGED <<own, fileClosed, readers, writers, later>>
  BY DEF F!ReadSync, F!WriteSync, F!TruncateSync, F!WriterWrite
<1>3. g \notin DOMAIN readers
  BY <1>1 DEF F!Known, FilesInv, F!DescriptorsAreHeld
<1> QED BY <1>1, <1>2, <1>3, EnteredInv

-----------------------------------------------------------------------------
(* A call that opens: no entry is lost, the new one is at the counter.     *)
LEMMA OpenedInv ==
  ASSUME FilesInv, Opened(fs, fs'), F!Cardinality(DOMAIN fs.files) < MaxOpen, F!CanOpen,
         UNCHANGED <<fileClosed, later>>
  PROVE  /\ fs.nextFd \in F!Fd /\ fs.nextFd \notin DOMAIN fs.files
         /\ fs.nextFd \notin own \cup fileClosed \cup DOMAIN readers \cup DOMAIN writers
         /\ Shape(fs') /\ Short(fs') /\ fs'.nextFd \in 1 .. MaxFileFd + 1
         /\ fs'.nextFd = fs.nextFd + 1
         /\ Cardinality(DOMAIN fs'.files) <= MaxOpen
         /\ WrittenAreFiles' /\ F!ClosedStaysClosed'
         /\ DOMAIN fs'.files = DOMAIN fs.files \cup {fs.nextFd}
         /\ fs'.files[fs.nextFd].pos = 0
         /\ \A f \in DOMAIN fs.files : fs'.files[f] = fs.files[f]
<1>1. /\ fs.nextFd \in 1 .. MaxFileFd + 1 /\ MaxFileFd \in Nat /\ MaxOpen \in Nat
      /\ fs.nextFd \notin DOMAIN fs.files /\ DOMAIN fs.files \subseteq F!Fd
  BY FilesState, FilesAssumption DEF FilesInv, FilesTyped, Shape
<1>2. /\ IsFiniteSet(DOMAIN fs.files) /\ Cardinality(DOMAIN fs.files) \in Nat
      /\ F!Cardinality(DOMAIN fs.files) = Cardinality(DOMAIN fs.files)
  BY <1>1, FilesCount
<1>3. fs.nextFd \in F!Fd
  BY <1>1, <1>2 DEF F!CanOpen, F!Fd
<1>4. fs.nextFd \notin own \cup fileClosed \cup DOMAIN readers \cup DOMAIN writers
  BY <1>1 DEF FilesInv, GivenOnce
<1>5. /\ Shape(fs') /\ Short(fs') /\ fs'.nextFd = fs.nextFd + 1
      /\ DOMAIN fs'.files = DOMAIN fs.files \cup {fs.nextFd}
      /\ fs'.files[fs.nextFd].pos = 0
      /\ fs'.files[fs.nextFd].write => fs'.files[fs.nextFd].inode # F!Directory
      /\ \A f \in DOMAIN fs.files : fs'.files[f] = fs.files[f]
  BY <1>1, <1>3 DEF Opened
<1>6. Cardinality(DOMAIN fs'.files) <= MaxOpen
  <2> DEFINE D == DOMAIN fs.files
             new == fs.nextFd
  <2>a. IsFiniteSet(D) /\ new \notin D /\ DOMAIN fs'.files = D \cup {new}
    BY <1>1, <1>2, <1>5
  <2>1. Cardinality(DOMAIN fs'.files) = Cardinality(D) + 1
    <3> HIDE DEF D, new
    <3> QED BY <2>a, FS_AddElement
  <2> QED BY <1>1, <1>2, <2>1
<1>7. WrittenAreFiles'
  BY <1>5 DEF FilesInv, WrittenAreFiles
<1>8. F!ClosedStaysClosed'
  BY <1>4, <1>5 DEF FilesInv, F!ClosedStaysClosed
<1>9. fs'.nextFd \in 1 .. MaxFileFd + 1
  BY <1>1, <1>3, <1>5 DEF F!Fd
<1> QED BY <1>1, <1>3, <1>4, <1>5, <1>6, <1>7, <1>8, <1>9

LEMMA OpenSyncInv == ASSUME FilesInv, F!OpenSync PROVE FilesInv'
<1> DEFINE outcomes == UNION {F!Open(fs, p, n) : p \in Path, n \in F!Flags}
<1>a. PICK o \in outcomes :
        /\ F!CanOpen /\ fs' = o.s
        /\ own' = own \cup {g \in {F!NextFd(fs)} : o.ok}
        /\ UNCHANGED <<fileClosed, readers, writers, later>>
  <2> HIDE DEF outcomes
  <2>1. \E o \in outcomes :
          /\ F!CanOpen /\ fs' = o.s
          /\ own' = own \cup {g \in {F!NextFd(fs)} : o.ok}
          /\ UNCHANGED <<fileClosed, readers, writers, later>>
    BY SMTT(60) DEF F!OpenSync, outcomes
  <2> QED BY <2>1
<1>b. PICK p \in Path, n \in F!Flags : o \in F!Open(fs, p, n)
  BY <1>a
<1>1. /\ o \in F!Open(fs, p, n) /\ F!CanOpen /\ fs' = o.s
      /\ own' = own \cup {g \in {F!NextFd(fs)} : o.ok}
      /\ UNCHANGED <<fileClosed, readers, writers, later>>
  BY <1>a, <1>b
<1>2. /\ ~o.ok => Kept(fs, o.s)
      /\ o.ok => Opened(fs, o.s) /\ F!Cardinality(DOMAIN fs.files) < MaxOpen
  BY FilesState, OpenOutcome
<1>3. CASE ~o.ok
  <2>1. own' = own
    BY <1>1, <1>3
  <2> QED BY <1>1, <1>2, <1>3, <2>1, KeptInv DEF FilesInv, FilesTyped
<1>4. CASE o.ok
  <2> DEFINE new == fs.nextFd
  <2>1. own' = own \cup {new}
    BY <1>1, <1>4 DEF F!NextFd
  <2>2. Opened(fs, fs') /\ F!Cardinality(DOMAIN fs.files) < MaxOpen
    BY <1>1, <1>2, <1>4
  <2>3. /\ new \in F!Fd /\ new \notin DOMAIN fs.files
        /\ new \notin own \cup fileClosed \cup DOMAIN readers \cup DOMAIN writers
        /\ Shape(fs') /\ Short(fs') /\ fs'.nextFd \in 1 .. MaxFileFd + 1
        /\ fs'.nextFd = new + 1
        /\ Cardinality(DOMAIN fs'.files) <= MaxOpen
        /\ WrittenAreFiles' /\ F!ClosedStaysClosed'
        /\ DOMAIN fs'.files = DOMAIN fs.files \cup {new}
        /\ \A f \in DOMAIN fs.files : fs'.files[f] = fs.files[f]
    BY <1>1, <2>2, OpenedInv
  <2> HIDE DEF new
  <2>4. FilesTyped'
    BY <1>1, <2>1, <2>3 DEF FilesInv, FilesTyped, Shape, Short
  <2>5. GivenOnce'
    <3>1. \A f \in own \cup fileClosed \cup DOMAIN readers \cup DOMAIN writers : f < new
      BY DEF FilesInv, GivenOnce, new
    <3>2. new \in Nat /\ F!Fd \subseteq Nat
      BY <2>3 DEF F!Fd
    <3>3. own \cup fileClosed \cup DOMAIN readers \cup DOMAIN writers \subseteq F!Fd
      BY DEF FilesInv, FilesTyped
    <3> QED BY <1>1, <2>1, <2>3, <3>1, <3>2, <3>3 DEF GivenOnce
  <2>6. ReadersFollow'
    BY <1>1, <2>3 DEF FilesInv, ReadersFollow
  <2>7. F!DescriptorsAreHeld'
    BY <1>1, <2>1, <2>3 DEF FilesInv, F!DescriptorsAreHeld
  <2> QED BY <1>1, <2>3, <2>4, <2>5, <2>6, <2>7 DEF FilesInv, F!EveryOtherChunk
<1> QED BY <1>3, <1>4

LEMMA CreateReadStreamInv == ASSUME FilesInv, F!CreateReadStream PROVE FilesInv'
<1>a. PICK p \in Path : \E o \in F!Open(fs, p, 0) :
        /\ F!CanOpen /\ fs' = o.s
        /\ readers' = IF ~o.ok THEN readers
                      ELSE [f \in DOMAIN readers \cup {fs.nextFd} |->
                              IF f # fs.nextFd THEN readers[f]
                              ELSE [buffer |-> <<>>, got |-> <<>>, over |-> FALSE]]
        /\ UNCHANGED <<own, fileClosed, writers, later>>
  BY DEF F!CreateReadStream, F!NextFd
<1>1. PICK o \in F!Open(fs, p, 0) :
        /\ F!CanOpen /\ fs' = o.s
        /\ readers' = IF ~o.ok THEN readers
                      ELSE [f \in DOMAIN readers \cup {fs.nextFd} |->
                              IF f # fs.nextFd THEN readers[f]
                              ELSE [buffer |-> <<>>, got |-> <<>>, over |-> FALSE]]
        /\ UNCHANGED <<own, fileClosed, writers, later>>
  BY <1>a
<1>2. /\ ~o.ok => Kept(fs, o.s)
      /\ o.ok => Opened(fs, o.s) /\ F!Cardinality(DOMAIN fs.files) < MaxOpen
  <2>1. 0 \in F!Flags
    BY DEF F!Flags
  <2> QED BY <2>1, FilesState, OpenOutcome
<1>3. CASE ~o.ok
  <2>1. readers' = readers
    BY <1>1, <1>3
  <2> QED BY <1>1, <1>2, <1>3, <2>1, KeptInv DEF FilesInv, FilesTyped
<1>4. CASE o.ok
  <2> DEFINE new == fs.nextFd
             begun == [buffer |-> <<>>, got |-> <<>>, over |-> FALSE]
  <2>1. readers' = [f \in DOMAIN readers \cup {new} |-> IF f # new THEN readers[f] ELSE begun]
    BY <1>1, <1>4
  <2>2. Opened(fs, fs') /\ F!Cardinality(DOMAIN fs.files) < MaxOpen
    BY <1>1, <1>2, <1>4
  <2>3. /\ new \in F!Fd /\ new \notin DOMAIN fs.files
        /\ new \notin own \cup fileClosed \cup DOMAIN readers \cup DOMAIN writers
        /\ Shape(fs') /\ Short(fs') /\ fs'.nextFd \in 1 .. MaxFileFd + 1
        /\ fs'.nextFd = new + 1
        /\ Cardinality(DOMAIN fs'.files) <= MaxOpen
        /\ WrittenAreFiles' /\ F!ClosedStaysClosed'
        /\ DOMAIN fs'.files = DOMAIN fs.files \cup {new}
        /\ fs'.files[new].pos = 0
        /\ \A f \in DOMAIN fs.files : fs'.files[f] = fs.files[f]
    BY <1>1, <2>2, OpenedInv
  <2>4. begun \in Reader /\ begun.buffer = <<>> /\ begun.got = <<>> /\ begun.over = FALSE
    BY EmptySeq DEF Reader
  <2>5. /\ DOMAIN readers' = DOMAIN readers \cup {new} /\ readers'[new] = begun
        /\ \A f \in DOMAIN readers : f # new /\ readers'[f] = readers[f]
    BY <2>1, <2>3
  <2> HIDE DEF new, begun
  <2>6. FilesTyped'
    <3>1. readers' \in [DOMAIN readers' -> Reader]
      <4>1. readers \in [DOMAIN readers -> Reader]
        BY DEF FilesInv, FilesTyped
      <4> QED BY <2>1, <2>4, <4>1
    <3>2. own' \subseteq F!Fd /\ fileClosed' \subseteq F!Fd /\ DOMAIN readers' \subseteq F!Fd
          /\ DOMAIN writers' \subseteq F!Fd
      BY <1>1, <2>3, <2>5 DEF FilesInv, FilesTyped
    <3>3. later' \in Seq(F!PathOps) /\ Len(later') <= MaxLater
      BY <1>1 DEF FilesInv, FilesTyped
    <3> QED BY <2>3, <3>1, <3>2, <3>3 DEF FilesTyped, Shape, Short
  <2>7. GivenOnce'
    <3>1. \A f \in own \cup fileClosed \cup DOMAIN readers \cup DOMAIN writers : f < new
      BY DEF FilesInv, GivenOnce, new
    <3>2. new \in Nat /\ F!Fd \subseteq Nat
      BY <2>3 DEF F!Fd
    <3>3. own \cup fileClosed \cup DOMAIN readers \cup DOMAIN writers \subseteq F!Fd
      BY DEF FilesInv, FilesTyped
    <3> QED BY <1>1, <2>3, <2>5, <3>1, <3>2, <3>3 DEF GivenOnce
  <2>8. ReadersFollow'
    <3>1. Len(<<>>) = 0
      OBVIOUS
    <3>2. /\ Len(begun.buffer) <= 1
          /\ \A i \in 1 .. Len(begun.buffer) : begun.buffer[i] = 2 * (Len(begun.got) + 1)
          /\ Behind(begun, 0)
      BY <2>4, <3>1 DEF Behind
    <3>3. ASSUME NEW f \in DOMAIN readers
          PROVE  /\ readers'[f] = readers[f]
                 /\ ~readers[f].over => f \in DOMAIN fs'.files /\ Behind(readers[f], fs'.files[f].pos)
      BY <2>3, <2>5, <3>3 DEF FilesInv, ReadersFollow
    <3> HIDE DEF Behind
    <3> QED BY <2>3, <2>4, <2>5, <3>2, <3>3 DEF FilesInv, ReadersFollow
  <2>9. F!DescriptorsAreHeld'
    <3>1. {f \in DOMAIN readers' : ~readers'[f].over} = {f \in DOMAIN readers : ~readers[f].over} \cup {new}
      BY <2>3, <2>4, <2>5
    <3> QED BY <1>1, <2>3, <2>5, <3>1 DEF FilesInv, F!DescriptorsAreHeld
  <2>10. F!EveryOtherChunk'
    BY <2>4, <2>5 DEF FilesInv, F!EveryOtherChunk
  <2> QED BY <2>3, <2>6, <2>7, <2>8, <2>9, <2>10 DEF FilesInv
<1> QED BY <1>3, <1>4

LEMMA CreateWriteStreamInv == ASSUME FilesInv, F!CreateWriteStream PROVE FilesInv'
<1>a. PICK p \in Path, n \in {577, 1025} : \E o \in F!Open(fs, p, n) :
        /\ F!CanOpen /\ fs' = o.s
        /\ writers' = IF ~o.ok THEN writers
                      ELSE [f \in DOMAIN writers \cup {fs.nextFd} |->
                              IF f = fs.nextFd THEN "open" ELSE writers[f]]
        /\ UNCHANGED <<own, fileClosed, readers, later>>
  BY SMTT(30) DEF F!CreateWriteStream, F!NextFd
<1>1. PICK o \in F!Open(fs, p, n) :
        /\ F!CanOpen /\ fs' = o.s
        /\ writers' = IF ~o.ok THEN writers
                      ELSE [f \in DOMAIN writers \cup {fs.nextFd} |->
                              IF f = fs.nextFd THEN "open" ELSE writers[f]]
        /\ UNCHANGED <<own, fileClosed, readers, later>>
  BY <1>a
<1>2. /\ ~o.ok => Kept(fs, o.s)
      /\ o.ok => Opened(fs, o.s) /\ F!Cardinality(DOMAIN fs.files) < MaxOpen
  <2>1. n \in F!Flags
    BY DEF F!Flags
  <2> QED BY <2>1, FilesState, OpenOutcome
<1>3. CASE ~o.ok
  <2>1. writers' = writers
    BY <1>1, <1>3
  <2> QED BY <1>1, <1>2, <1>3, <2>1, KeptInv DEF FilesInv, FilesTyped
<1>4. CASE o.ok
  <2> DEFINE new == fs.nextFd
  <2>1. writers' = [f \in DOMAIN writers \cup {new} |-> IF f = new THEN "open" ELSE writers[f]]
    BY <1>1, <1>4
  <2>2. Opened(fs, fs') /\ F!Cardinality(DOMAIN fs.files) < MaxOpen
    BY <1>1, <1>2, <1>4
  <2>3. /\ new \in F!Fd /\ new \notin DOMAIN fs.files
        /\ new \notin own \cup fileClosed \cup DOMAIN readers \cup DOMAIN writers
        /\ Shape(fs') /\ Short(fs') /\ fs'.nextFd \in 1 .. MaxFileFd + 1
        /\ fs'.nextFd = new + 1
        /\ Cardinality(DOMAIN fs'.files) <= MaxOpen
        /\ WrittenAreFiles' /\ F!ClosedStaysClosed'
        /\ DOMAIN fs'.files = DOMAIN fs.files \cup {new}
        /\ \A f \in DOMAIN fs.files : fs'.files[f] = fs.files[f]
    BY <1>1, <2>2, OpenedInv
  <2>4. /\ DOMAIN writers' = DOMAIN writers \cup {new} /\ writers'[new] = "open"
        /\ \A f \in DOMAIN writers : f # new /\ writers'[f] = writers[f]
    BY <2>1, <2>3
  <2> HIDE DEF new
  <2>5. FilesTyped'
    BY <1>1, <2>3, <2>4 DEF FilesInv, FilesTyped, Shape, Short
  <2>6. GivenOnce'
    <3>1. \A f \in own \cup fileClosed \cup DOMAIN readers \cup DOMAIN writers : f < new
      BY DEF FilesInv, GivenOnce, new
    <3>2. new \in Nat /\ F!Fd \subseteq Nat
      BY <2>3 DEF F!Fd
    <3>3. own \cup fileClosed \cup DOMAIN readers \cup DOMAIN writers \subseteq F!Fd
      BY DEF FilesInv, FilesTyped
    <3> QED BY <1>1, <2>3, <2>4, <3>1, <3>2, <3>3 DEF GivenOnce
  <2>7. ReadersFollow'
    BY <1>1, <2>3 DEF FilesInv, ReadersFollow
  <2>8. F!DescriptorsAreHeld'
    <3>1. {f \in DOMAIN writers' : writers'[f] # "failed"}
            = {f \in DOMAIN writers : writers[f] # "failed"} \cup {new}
      BY <2>3, <2>4
    <3> QED BY <1>1, <2>3, <2>4, <3>1 DEF FilesInv, F!DescriptorsAreHeld
  <2> QED BY <1>1, <2>3, <2>5, <2>6, <2>7, <2>8 DEF FilesInv, F!EveryOtherChunk
<1> QED BY <1>3, <1>4

-----------------------------------------------------------------------------
(* The descriptor g goes, perhaps after a last read of it. *)
LEMMA ClosedInv ==
  ASSUME FilesInv, NEW g \in F!Fd, g < fs.nextFd, NEW t, Entered(fs, t, g), fs' = F!CloseFd(t, g),
         fileClosed' = fileClosed \cup {g}, later' = later
  PROVE  /\ Shape(fs') /\ Short(fs') /\ fs'.nextFd = fs.nextFd
         /\ Cardinality(DOMAIN fs'.files) <= MaxOpen
         /\ fileClosed' \subseteq F!Fd
         /\ WrittenAreFiles' /\ F!ClosedStaysClosed'
         /\ DOMAIN fs'.files = DOMAIN fs.files \ {g}
         /\ \A f \in DOMAIN fs'.files : fs'.files[f] = fs.files[f]
<1>1. /\ Shape(t) /\ Short(t) /\ t.nextFd = fs.nextFd /\ DOMAIN t.files = DOMAIN fs.files
      /\ \A f \in DOMAIN fs.files : f # g => t.files[f] = fs.files[f]
  BY DEF Entered
<1>2. Without(t, fs', g)
  BY <1>1, CloseOutcome
<1>3. /\ Shape(fs') /\ Short(fs') /\ fs'.nextFd = fs.nextFd
      /\ DOMAIN fs'.files = DOMAIN fs.files \ {g}
      /\ \A f \in DOMAIN fs'.files : fs'.files[f] = fs.files[f]
  BY <1>1, <1>2 DEF Without
<1>4. Cardinality(DOMAIN fs'.files) <= MaxOpen
  <2>1. DOMAIN fs.files \subseteq F!Fd /\ Cardinality(DOMAIN fs.files) <= MaxOpen /\ MaxOpen \in Nat
    BY FilesAssumption DEF FilesInv, FilesTyped, Shape
  <2>2. IsFiniteSet(DOMAIN fs.files) /\ Cardinality(DOMAIN fs.files) \in Nat
    BY <2>1, FilesCount
  <2>3. Cardinality(DOMAIN fs'.files) <= Cardinality(DOMAIN fs.files)
        /\ Cardinality(DOMAIN fs'.files) \in Nat
    BY <1>3, <2>1, <2>2, FilesCount, FS_Subset
  <2> QED BY <2>1, <2>2, <2>3
<1>5. WrittenAreFiles' /\ F!ClosedStaysClosed'
  BY <1>3 DEF FilesInv, WrittenAreFiles, F!ClosedStaysClosed
<1> QED BY <1>3, <1>4, <1>5 DEF FilesInv, FilesTyped

LEMMA CloseSyncInv == ASSUME FilesInv, F!CloseSync PROVE FilesInv'
<1>1. PICK g \in F!Known :
        /\ fs' = F!CloseFd(fs, g) /\ own' = own \ {g} /\ fileClosed' = fileClosed \cup {g}
        /\ UNCHANGED <<readers, writers, later>>
  BY DEF F!CloseSync
<1>2. g \in F!Fd /\ g < fs.nextFd /\ g \notin DOMAIN readers \cup DOMAIN writers
  BY <1>1 DEF F!Known, FilesInv, FilesTyped, GivenOnce, F!DescriptorsAreHeld
<1>3. Entered(fs, fs, g)
  BY FilesState DEF Entered
<1>4. /\ Shape(fs') /\ Short(fs') /\ fs'.nextFd = fs.nextFd
      /\ Cardinality(DOMAIN fs'.files) <= MaxOpen
      /\ fileClosed' \subseteq F!Fd
      /\ WrittenAreFiles' /\ F!ClosedStaysClosed'
      /\ DOMAIN fs'.files = DOMAIN fs.files \ {g}
      /\ \A f \in DOMAIN fs'.files : fs'.files[f] = fs.files[f]
  BY <1>1, <1>2, <1>3, ClosedInv
<1>5. FilesTyped'
  BY <1>1, <1>4 DEF FilesInv, FilesTyped, Shape, Short
<1>6. GivenOnce'
  BY <1>1, <1>2, <1>4 DEF FilesInv, GivenOnce
<1>7. ReadersFollow'
  BY <1>1, <1>2, <1>4 DEF FilesInv, ReadersFollow
<1>8. F!DescriptorsAreHeld'
  BY <1>1, <1>2, <1>4 DEF FilesInv, F!DescriptorsAreHeld
<1> QED BY <1>1, <1>4, <1>5, <1>6, <1>7, <1>8 DEF FilesInv, F!EveryOtherChunk

LEMMA WriterGoneInv == ASSUME FilesInv, F!WriterEnd \/ F!WriterDestroy PROVE FilesInv'
<1>1. PICK g \in DOMAIN writers, new \in {"finished", "failed", "destroyed"} :
        /\ writers[g] \in {"open", "finished"} /\ writers' = [writers EXCEPT ![g] = new]
        /\ fs' = IF new = "failed" THEN F!CloseFd(fs, g) ELSE fs
        /\ fileClosed' = IF new = "failed" THEN fileClosed \cup {g} ELSE fileClosed
        /\ UNCHANGED <<own, readers, later>>
  BY DEF F!WriterEnd, F!WriterDestroy
<1>2. g \in F!Fd /\ g < fs.nextFd /\ g \notin DOMAIN readers \cup own
  BY <1>1 DEF FilesInv, FilesTyped, GivenOnce, F!DescriptorsAreHeld
<1>3. DOMAIN writers' = DOMAIN writers
      /\ {f \in DOMAIN writers' : writers'[f] # "failed"}
           = {f \in DOMAIN writers : writers[f] # "failed"} \ (IF new = "failed" THEN {g} ELSE {})
  BY <1>1
<1>4. CASE new # "failed"
  BY <1>1, <1>3, <1>4 DEF FilesInv, FilesTyped, Shape, Short, WrittenAreFiles, GivenOnce,
       ReadersFollow, F!ClosedStaysClosed, F!DescriptorsAreHeld, F!EveryOtherChunk
<1>5. CASE new = "failed"
  <2>1. Entered(fs, fs, g)
    BY FilesState DEF Entered
  <2>2. fs' = F!CloseFd(fs, g) /\ fileClosed' = fileClosed \cup {g}
    BY <1>1, <1>5
  <2>3. /\ Shape(fs') /\ Short(fs') /\ fs'.nextFd = fs.nextFd
        /\ Cardinality(DOMAIN fs'.files) <= MaxOpen
        /\ fileClosed' \subseteq F!Fd
        /\ WrittenAreFiles' /\ F!ClosedStaysClosed'
        /\ DOMAIN fs'.files = DOMAIN fs.files \ {g}
        /\ \A f \in DOMAIN fs'.files : fs'.files[f] = fs.files[f]
    BY <1>1, <1>2, <2>1, <2>2, ClosedInv
  <2>4. FilesTyped'
    BY <1>1, <1>3, <2>3 DEF FilesInv, FilesTyped, Shape, Short
  <2>5. GivenOnce'
    BY <1>1, <1>2, <1>3, <2>2, <2>3 DEF FilesInv, GivenOnce
  <2>6. ReadersFollow'
    BY <1>1, <1>2, <2>3 DEF FilesInv, ReadersFollow
  <2>7. F!DescriptorsAreHeld'
    BY <1>1, <1>2, <1>3, <1>5, <2>3 DEF FilesInv, F!DescriptorsAreHeld
  <2> QED BY <1>1, <2>3, <2>4, <2>5, <2>6, <2>7 DEF FilesInv, F!EveryOtherChunk
<1> QED BY <1>4, <1>5

-----------------------------------------------------------------------------
(* A read stream: what it gives and buffers is behind its position. *)
LEMMA ReadBufferedInv ==
  ASSUME FilesInv, NEW g \in DOMAIN readers, F!ReadBuffered(g),
         UNCHANGED <<own, writers, later>>
  PROVE  FilesInv'
<1> DEFINE r == readers[g]
           s == [r EXCEPT !.got = Append(r.got, Head(r.buffer)), !.buffer = Tail(r.buffer)]
<1>1. /\ r \in Reader /\ r.buffer \in Seq(Nat) /\ r.got \in Seq(Nat) /\ r.buffer # <<>>
      /\ readers \in [DOMAIN readers -> Reader]
  BY DEF FilesInv, FilesTyped, Reader, F!ReadBuffered
<1>2. UNCHANGED <<fs, fileClosed>> /\ readers' = [readers EXCEPT ![g] = s]
  <2>1. readers' = [readers EXCEPT ![g].got = Append(@, Head(readers[g].buffer)),
                                   ![g].buffer = Tail(@)]
    BY DEF F!ReadBuffered
  <2>2. [readers EXCEPT ![g].got = Append(@, Head(readers[g].buffer)), ![g].buffer = Tail(@)]
          = [readers EXCEPT ![g] = s]
    BY <1>1 DEF Reader
  <2> QED BY <2>1, <2>2 DEF F!ReadBuffered
<1>3. /\ Len(r.buffer) = 1 /\ r.buffer[1] = 2 * (Len(r.got) + 1)
      /\ ~r.over /\ g \in DOMAIN fs.files /\ Behind(r, fs.files[g].pos)
      /\ Len(r.got) \in Nat /\ \A i \in 1 .. Len(r.got) : r.got[i] = 2 * i
  <2>1. Len(r.buffer) \in Nat /\ Len(r.buffer) # 0 /\ Len(r.got) \in Nat
    BY <1>1, EmptySeq, LenProperties
  <2>2. /\ Len(r.buffer) <= 1
        /\ \A i \in 1 .. Len(r.buffer) : r.buffer[i] = 2 * (Len(r.got) + 1)
        /\ ~r.over => g \in DOMAIN fs.files /\ Behind(r, fs.files[g].pos)
        /\ r.over => r.buffer = <<>>
    BY DEF FilesInv, ReadersFollow
  <2>3. DOMAIN r.got = 1 .. Len(r.got)
    BY <1>1, LenProperties
  <2>4. \A i \in DOMAIN r.got : r.got[i] = 2 * i
    BY DEF FilesInv, F!EveryOtherChunk
  <2>5. Len(r.buffer) = 1 /\ ~r.over
    <3> HIDE DEF r
    <3>1. Len(r.buffer) <= 1 /\ (r.over => r.buffer = <<>>)
      BY <2>2
    <3>2. ~r.over
      BY <1>1, <3>1
    <3>a. PICK k \in Nat : k = Len(r.buffer)
      BY <2>1
    <3>b. k # 0 /\ k <= 1
      BY <2>1, <3>1, <3>a
    <3>c. k = 1
      BY <3>b
    <3>3. Len(r.buffer) = 1
      BY <3>a, <3>c
    <3> QED BY <3>2, <3>3
  <2>6. r.buffer[1] = 2 * (Len(r.got) + 1)
    BY <2>2, <2>5
  <2> HIDE DEF r
  <2> QED BY <2>1, <2>2, <2>3, <2>4, <2>5, <2>6
<1>4. /\ Head(r.buffer) = r.buffer[1] /\ Head(r.buffer) \in Nat
      /\ Tail(r.buffer) \in Seq(Nat) /\ Len(Tail(r.buffer)) = 0
  BY <1>1, <1>3, HeadTailProperties
<1>5. /\ Append(r.got, Head(r.buffer)) \in Seq(Nat)
      /\ Len(Append(r.got, Head(r.buffer))) = Len(r.got) + 1
      /\ Append(r.got, Head(r.buffer))[Len(r.got) + 1] = Head(r.buffer)
      /\ \A i \in 1 .. Len(r.got) : Append(r.got, Head(r.buffer))[i] = r.got[i]
  BY <1>1, <1>4, AppendProperties
<1>6. /\ s \in Reader /\ s.over = r.over /\ s.got = Append(r.got, Head(r.buffer))
      /\ s.buffer = Tail(r.buffer)
  BY <1>1, <1>4, <1>5 DEF Reader
<1> HIDE DEF r, s
<1>7. /\ DOMAIN readers' = DOMAIN readers /\ readers'[g] = s
      /\ readers' \in [DOMAIN readers' -> Reader]
      /\ \A f \in DOMAIN readers : f # g => readers'[f] = readers[f]
  BY <1>1, <1>2, <1>6
<1>8. {f \in DOMAIN readers' : ~readers'[f].over} = {f \in DOMAIN readers : ~readers[f].over}
  BY <1>6, <1>7 DEF r
<1>9. F!EveryOtherChunk'
  <2>1. ASSUME NEW i \in DOMAIN s.got PROVE s.got[i] = 2 * i
    <3>1. i \in 1 .. Len(r.got) + 1
      BY <1>5, <1>6, LenProperties
    <3>2. CASE i \in 1 .. Len(r.got)
      BY <1>3, <1>5, <1>6, <3>2
    <3>3. CASE i = Len(r.got) + 1
      BY <1>3, <1>4, <1>5, <1>6, <3>3
    <3> QED BY <1>3, <3>1, <3>2, <3>3
  <2> QED BY <1>7, <2>1 DEF FilesInv, F!EveryOtherChunk
<1>10. ReadersFollow'
  <2>1. Len(s.buffer) = 0 /\ ~s.over /\ Len(s.got) = Len(r.got) + 1
    BY <1>3, <1>4, <1>5, <1>6
  <2>2. fs.files[g].pos = 2 * (Len(r.got) + 1)
    BY <1>3 DEF Behind
  <2>3. Behind(s, fs.files[g].pos)
    BY <1>3, <2>1, <2>2 DEF Behind
  <2> QED BY <1>2, <1>3, <1>7, <2>1, <2>3 DEF FilesInv, ReadersFollow
<1>11. FilesTyped'
  BY <1>2, <1>7 DEF FilesInv, FilesTyped, Shape, Short
<1> QED
  BY <1>2, <1>7, <1>8, <1>9, <1>10, <1>11
  DEF FilesInv, WrittenAreFiles, GivenOnce, F!ClosedStaysClosed, F!DescriptorsAreHeld

LEMMA ReadMoreInv ==
  ASSUME FilesInv, NEW g \in DOMAIN readers, F!ReadMore(g),
         UNCHANGED <<own, writers, later>>
  PROVE  FilesInv'
<1>a. PICK first \in F!ReadFd(fs, g) : \E o \in F!SecondRead(first, g) :
        \/ /\ o.ok /\ o.value # 0
           /\ fs' = o.s
           /\ readers' = [readers EXCEPT ![g].buffer = Append(@, o.value)]
           /\ UNCHANGED fileClosed
        \/ /\ fs' = F!CloseFd(o.s, g)
           /\ fileClosed' = fileClosed \cup {g}
           /\ readers' = [readers EXCEPT ![g].over = TRUE]
  BY DEF F!ReadMore
<1>1. PICK o \in F!SecondRead(first, g) :
        \/ /\ o.ok /\ o.value # 0
           /\ fs' = o.s
           /\ readers' = [readers EXCEPT ![g].buffer = Append(@, o.value)]
           /\ UNCHANGED fileClosed
        \/ /\ fs' = F!CloseFd(o.s, g)
           /\ fileClosed' = fileClosed \cup {g}
           /\ readers' = [readers EXCEPT ![g].over = TRUE]
  BY <1>a
<1> DEFINE r == readers[g]
<1>2. /\ r \in Reader /\ r.buffer = <<>> /\ r.got \in Seq(Nat) /\ Len(r.got) \in Nat
      /\ readers \in [DOMAIN readers -> Reader]
      /\ g \in F!Fd /\ g < fs.nextFd
  BY LenProperties DEF FilesInv, FilesTyped, GivenOnce, Reader, F!ReadMore
<1>3. /\ Shape(fs) /\ Short(fs)
      /\ Entered(fs, first.s, g)
      /\ first.ok /\ first.value # 0 =>
           /\ g \in DOMAIN fs.files
           /\ first.s.files[g].pos = fs.files[g].pos + 1
  BY FilesState, ReadOutcome
<1>4. Entered(fs, o.s, g)
      /\ (o.ok /\ o.value # 0 =>
            g \in DOMAIN fs.files
            /\ o.value = fs.files[g].pos + 1 + 1 /\ o.s.files[g].pos = fs.files[g].pos + 1 + 1)
  <2>1. CASE first.ok /\ first.value # 0
    <3>1. o \in F!ReadFd(first.s, g) /\ Shape(first.s) /\ Short(first.s)
      BY <1>3, <2>1 DEF F!SecondRead, Entered
    <3>2. /\ Entered(first.s, o.s, g)
          /\ o.ok /\ o.value # 0 =>
               /\ o.value = first.s.files[g].pos + 1
               /\ o.s.files[g].pos = first.s.files[g].pos + 1
      BY <3>1, ReadOutcome
    <3>3. Entered(fs, o.s, g)
      BY <1>3, <3>2 DEF Entered
    <3> QED BY <1>3, <2>1, <3>2, <3>3
  <2>2. CASE ~(first.ok /\ first.value # 0)
    <3>1. o = first
      BY <2>2 DEF F!SecondRead
    <3> QED BY <1>3, <2>2, <3>1
  <2> QED BY <2>1, <2>2
<1>5. CASE /\ o.ok /\ o.value # 0
           /\ fs' = o.s
           /\ readers' = [readers EXCEPT ![g].buffer = Append(@, o.value)]
           /\ UNCHANGED fileClosed
  <2> DEFINE s == [r EXCEPT !.buffer = Append(r.buffer, o.value)]
  <2>1. /\ g \in DOMAIN fs.files /\ o.value = fs.files[g].pos + 1 + 1
        /\ fs'.files[g].pos = fs.files[g].pos + 1 + 1
    BY <1>4, <1>5
  <2>2. ~r.over /\ fs.files[g].pos = 2 * Len(r.got)
    <3>1. ~r.over
      BY <2>1 DEF FilesInv, F!DescriptorsAreHeld
    <3>2. Behind(r, fs.files[g].pos) /\ Len(r.buffer) = 0
      BY <1>2, <3>1 DEF FilesInv, ReadersFollow
    <3> QED BY <1>2, <3>1, <3>2 DEF Behind
  <2>3. o.value \in Nat /\ o.value = 2 * (Len(r.got) + 1)
    BY <1>2, <2>1, <2>2
  <2>4. /\ Append(<<>>, o.value) \in Seq(Nat) /\ Len(Append(<<>>, o.value)) = 1
        /\ Append(<<>>, o.value)[1] = o.value
    <3>1. <<>> \in Seq(Nat) /\ Len(<<>>) = 0
      BY EmptySeq
    <3>2. Len(Append(<<>>, o.value)) = 0 + 1 /\ Append(<<>>, o.value)[0 + 1] = o.value
          /\ Append(<<>>, o.value) \in Seq(Nat)
      BY <2>3, <3>1, AppendProperties
    <3> QED BY <3>2
  <2>5. s \in Reader /\ s.over = r.over /\ s.got = r.got /\ s.buffer = Append(<<>>, o.value)
    BY <1>2, <2>4 DEF Reader
  <2>6. readers' = [readers EXCEPT ![g] = s]
    BY <1>2, <1>5 DEF Reader
  <2> HIDE DEF r, s
  <2>7. /\ DOMAIN readers' = DOMAIN readers /\ readers'[g] = s
        /\ readers' \in [DOMAIN readers' -> Reader]
        /\ \A f \in DOMAIN readers : f # g => readers'[f] = readers[f]
    BY <1>2, <2>5, <2>6
  <2>8. {f \in DOMAIN readers' : ~readers'[f].over} = {f \in DOMAIN readers : ~readers[f].over}
    BY <2>5, <2>7 DEF r
  <2>9. F!EveryOtherChunk'
    BY <2>5, <2>7 DEF FilesInv, F!EveryOtherChunk, r
  <2>10. ReadersFollow'
    <3>1. /\ Behind(s, fs'.files[g].pos) /\ Len(s.buffer) = 1 /\ ~s.over
          /\ \A i \in 1 .. 1 : s.buffer[i] = 2 * (Len(s.got) + 1)
      BY <1>2, <2>1, <2>2, <2>3, <2>4, <2>5 DEF Behind
    <3>2. /\ DOMAIN fs'.files = DOMAIN fs.files
          /\ \A f \in DOMAIN fs.files : f # g => fs'.files[f] = fs.files[f]
      BY <1>4, <1>5 DEF Entered
    <3>3. ASSUME NEW f \in DOMAIN readers, f # g
          PROVE  /\ readers'[f] = readers[f]
                 /\ f \in DOMAIN fs.files => f \in DOMAIN fs'.files /\ fs'.files[f] = fs.files[f]
      BY <2>7, <3>2, <3>3
    <3>4. ASSUME NEW f \in DOMAIN readers, f # g
          PROVE  /\ Len(readers'[f].buffer) <= 1
                 /\ \A i \in 1 .. Len(readers'[f].buffer) :
                      readers'[f].buffer[i] = 2 * (Len(readers'[f].got) + 1)
                 /\ ~readers'[f].over => f \in DOMAIN fs'.files /\ Behind(readers'[f], fs'.files[f].pos)
                 /\ readers'[f].over => readers'[f].buffer = <<>>
      BY <3>3, <3>4 DEF FilesInv, ReadersFollow
    <3>5. g \in DOMAIN fs'.files
      BY <2>1, <3>2
    <3>6. ASSUME NEW f \in DOMAIN readers'
          PROVE  /\ Len(readers'[f].buffer) <= 1
                 /\ \A i \in 1 .. Len(readers'[f].buffer) :
                      readers'[f].buffer[i] = 2 * (Len(readers'[f].got) + 1)
                 /\ ~readers'[f].over => f \in DOMAIN fs'.files /\ Behind(readers'[f], fs'.files[f].pos)
                 /\ readers'[f].over => readers'[f].buffer = <<>>
      <4>1. CASE f = g
        <5>1. readers'[f] = s /\ Len(s.buffer) <= 1 /\ 1 .. Len(s.buffer) = 1 .. 1
          BY <2>7, <3>1, <4>1
        <5>2. Behind(readers'[f], fs'.files[f].pos) /\ ~readers'[f].over
          BY <3>1, <4>1, <5>1
        <5> QED BY <3>1, <3>5, <4>1, <5>1, <5>2
      <4>2. CASE f # g
        BY <2>7, <3>4, <4>2
      <4> QED BY <4>1, <4>2
    <3> QED BY <3>6 DEF ReadersFollow
  <2>11. FilesTyped'
    BY <1>4, <1>5, <2>7 DEF FilesInv, FilesTyped, Entered, Shape, Short
  <2>12. WrittenAreFiles' /\ GivenOnce'
    BY <1>4, <1>5, <2>7 DEF FilesInv, WrittenAreFiles, GivenOnce, Entered
  <2> QED
    BY <1>4, <1>5, <2>7, <2>8, <2>9, <2>10, <2>11, <2>12
    DEF FilesInv, F!ClosedStaysClosed, F!DescriptorsAreHeld, Entered
<1>6. CASE /\ fs' = F!CloseFd(o.s, g)
           /\ fileClosed' = fileClosed \cup {g}
           /\ readers' = [readers EXCEPT ![g].over = TRUE]
  <2> DEFINE s == [r EXCEPT !.over = TRUE]
  <2>1. s \in Reader /\ s.over = TRUE /\ s.got = r.got /\ s.buffer = <<>>
    BY <1>2 DEF Reader
  <2>2. readers' = [readers EXCEPT ![g] = s]
    BY <1>2, <1>6 DEF Reader
  <2> HIDE DEF r, s
  <2>3. /\ DOMAIN readers' = DOMAIN readers /\ readers'[g] = s
        /\ readers' \in [DOMAIN readers' -> Reader]
        /\ \A f \in DOMAIN readers : f # g => readers'[f] = readers[f]
    BY <1>2, <2>1, <2>2
  <2>4. /\ Shape(fs') /\ Short(fs') /\ fs'.nextFd = fs.nextFd
        /\ Cardinality(DOMAIN fs'.files) <= MaxOpen
        /\ fileClosed' \subseteq F!Fd
        /\ WrittenAreFiles' /\ F!ClosedStaysClosed'
        /\ DOMAIN fs'.files = DOMAIN fs.files \ {g}
        /\ \A f \in DOMAIN fs'.files : fs'.files[f] = fs.files[f]
    BY <1>2, <1>4, <1>6, ClosedInv
  <2>5. FilesTyped'
    BY <2>3, <2>4 DEF FilesInv, FilesTyped
  <2>6. GivenOnce'
    BY <1>2, <1>6, <2>3, <2>4 DEF FilesInv, GivenOnce
  <2>7. ReadersFollow'
    <3>1. Len(s.buffer) = 0
      BY <2>1, EmptySeq
    <3> QED BY <2>1, <2>3, <2>4, <3>1 DEF FilesInv, ReadersFollow
  <2>8. F!DescriptorsAreHeld'
    <3>1. {f \in DOMAIN readers' : ~readers'[f].over}
            = {f \in DOMAIN readers : ~readers[f].over} \ {g}
      BY <2>1, <2>3
    <3> QED BY <2>3, <2>4, <3>1 DEF FilesInv, F!DescriptorsAreHeld
  <2>9. F!EveryOtherChunk'
    BY <2>1, <2>3 DEF FilesInv, F!EveryOtherChunk, r
  <2> QED BY <2>4, <2>5, <2>6, <2>7, <2>8, <2>9 DEF FilesInv
<1> QED BY <1>1, <1>5, <1>6

LEMMA FilesStepInv == FilesInv /\ [F!Next]_fileVars => FilesInv'
<1> SUFFICES ASSUME FilesInv, [F!Next]_fileVars PROVE FilesInv'
  OBVIOUS
<1>1. CASE F!ReaderRead
  BY <1>1, ReadBufferedInv, ReadMoreInv DEF F!ReaderRead
<1>2. CASE UNCHANGED fileVars
  BY <1>2 DEF fileVars, FilesInv, FilesTyped, Shape, Short, WrittenAreFiles, GivenOnce,
       ReadersFollow, F!ClosedStaysClosed, F!DescriptorsAreHeld, F!EveryOtherChunk
<1> QED
  BY <1>1, <1>2, PathsInv, DescriptorsInv, OpenSyncInv, CreateReadStreamInv, CreateWriteStreamInv,
     CloseSyncInv, WriterGoneInv DEF F!Next

LEMMA FilesInvTyped == FilesInv => F!TypeOK
<1> SUFFICES ASSUME FilesInv PROVE F!TypeOK
  OBVIOUS
<1>1. F!Cardinality(DOMAIN fs.files) <= MaxOpen
  BY FilesCount DEF FilesInv, FilesTyped, Shape
<1>2. Longest \in Nat /\ Longest = F!Max2(GivenChunks, MaxChunks)
  BY FilesAssumption DEF Longest, F!Max2
<1>3. fs.length \in [F!Inode -> 0 .. F!Max2(GivenChunks, MaxChunks)]
  BY <1>2 DEF FilesInv, FilesTyped, Shape, Short
<1>4. \A f \in DOMAIN fs.files :
        fs.files[f].pos \in Nat /\ fs.files[f].inode \in F!Inode \cup {F!Directory}
  BY DEF FilesInv, FilesTyped, Shape, Entry
<1> QED BY <1>1, <1>3, <1>4 DEF F!TypeOK, FilesInv, FilesTyped, Shape

-----------------------------------------------------------------------------
(* For Udp, ByteStreams and Files by themselves, every behaviour. *)

(* The table of datagram sockets holds what the Sockets have, each its own, *)
(* and a Socket is polled from its first bind to its close (udp.js).       *)
THEOREM DatagramsAreHeld == U!Spec => [](U!TableIsHeld /\ U!PolledWhileBound)
<1>1. UdpInv => U!TableIsHeld /\ U!PolledWhileBound
  BY DEF UdpInv
<1>2. UdpInv /\ [U!Next]_(U!vars) => UdpInv'
  <2>1. [U!Next]_(U!vars) => [U!Next]_udpVars
    BY DEF U!vars, U!nativeVars, udpVars
  <2> QED BY <2>1, UdpStepInv
<1> QED BY <1>1, <1>2, UdpInitInv, PTL DEF U!Spec

(* What is read is the beginning of what was sent, in order; bytes leave as *)
(* they were written to a queue that was never full; end closes (net.js).  *)
THEOREM BytesInOrder == B!Spec => [](B!ReadsInOrder /\ B!BytesArrive /\ B!EndCloses)
<1>1. ByteInv => B!ReadsInOrder /\ B!BytesArrive /\ B!EndCloses
  BY ByteInvArrive DEF ByteInv
<1>2. ByteInv /\ [B!Next]_(B!vars) => ByteInv'
  <2>1. [B!Next]_(B!vars) => [B!Next]_byteVars
    BY DEF B!vars, B!outVars, B!inVars, byteVars
  <2> QED BY <2>1, ByteStepInv
<1> QED BY <1>1, <1>2, ByteInitInv, PTL DEF B!Spec

(* A closed descriptor never reaches a file again, an open one has one     *)
(* holder, and a read stream gives the second chunk, the fourth and so on  *)
(* (FileState.nextFd; createReadStream's read function).                   *)
THEOREM FilesAreHeld ==
  F!Spec => [](F!ClosedStaysClosed /\ F!DescriptorsAreHeld /\ F!EveryOtherChunk)
<1>1. FilesInv => F!ClosedStaysClosed /\ F!DescriptorsAreHeld /\ F!EveryOtherChunk
  BY DEF FilesInv
<1>2. FilesInv /\ [F!Next]_(F!vars) => FilesInv'
  <2>1. [F!Next]_(F!vars) => [F!Next]_fileVars
    BY DEF F!vars, fileVars
  <2> QED BY <2>1, FilesStepInv
<1> QED BY <1>1, <1>2, FilesInitInv, PTL DEF F!Spec

-----------------------------------------------------------------------------
(* Side by side: a step of one table leaves the others as they are. *)
SumInv == IInv /\ UdpInv /\ ByteInv /\ FilesInv

LEMMA SumInvariance == SumSpec => []SumInv
<1>1. SumInit => SumInv
  BY InitIInv, UdpInitInv, ByteInitInv, FilesInitInv DEF SumInit, SumInv
<1>2. SumInv /\ [SumNext]_<<table, vars, fileVars, udpVars, byteVars>> => SumInv'
  <2> SUFFICES ASSUME SumInv, [SumNext]_<<table, vars, fileVars, udpVars, byteVars>>
               PROVE  SumInv'
    OBVIOUS
  <2>1. /\ [Next]_vars /\ [F!Next]_fileVars /\ [U!Next]_udpVars /\ [B!Next]_byteVars
    BY DEF SumNext
  <2> QED BY <2>1, StepIInv, UdpStepInv, ByteStepInv, FilesStepInv DEF SumInv
<1> QED BY <1>1, <1>2, PTL DEF SumSpec

(* What MCDescriptors says of files, datagrams and bytes. *)
THEOREM EveryDescriptorIsHeld == SumSpec => []DescriptorsAreHeld
<1>1. SumInv => DescriptorsAreHeld
  BY ByteInvArrive DEF SumInv, UdpInv, ByteInv, FilesInv, DescriptorsAreHeld
<1> QED BY <1>1, SumInvariance, PTL

(* The state of every table has its type. *)
THEOREM EveryTypeCorrect == SumSpec => []TypesOK
<1>1. SumInv => TypesOK
  BY FilesInvTyped DEF SumInv, IInv, UdpInv, ByteInv, TypesOK
<1> QED BY <1>1, SumInvariance, PTL
=============================================================================
