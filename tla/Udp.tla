--------------------------------- MODULE Udp ---------------------------------
(***************************************************************************)
(* koss:node/dgram on the natives __koss_udp_*: the socket table of an      *)
(* instance, the Socket objects that hold its descriptors, the interval     *)
(* that polls each bound one.  The callbacks of bind, send and close come   *)
(* at a later tick and change nothing here.                                 *)
(* The sockets of the operating system are external: a call on one may      *)
(* fail, datagrams come when they like.  Every native but close and address *)
(* may also be refused by the sandbox.                                      *)
(***************************************************************************)
EXTENDS Naturals, FiniteSets

CONSTANTS
  Socket,
  Port,         \* ports a script asks for; Any is 0, the system's choice
  Any,
  MaxSockets,   \* MAX_UDP_SOCKETS
  MaxFd,        \* bound: descriptors given out
  MaxQueue      \* bound: datagrams waiting in a socket of the system

Fd == 1 .. MaxFd
NoFd == 0

VARIABLES
  nextFd,     \* UdpState.next_fd
  sockets,    \* UdpState.sockets: the port each descriptor is bound to
  queue,      \* datagrams in the system's socket, by descriptor
  from,       \* the descriptors in UdpState.pending_from
  fd,         \* fd[s]: _fd
  bound,      \* the Sockets that are _bound
  closed,     \* and those that are _closed
  polling,    \* those with a _recvInterval
  reopened    \* history: the Sockets used after they were closed

nativeVars == <<nextFd, sockets, queue, from>>
vars == <<nativeVars, fd, bound, closed, polling, reopened>>

Open == DOMAIN sockets

Init ==
  /\ nextFd = 1 /\ sockets = [f \in {} |-> Any] /\ queue = [f \in Fd |-> 0] /\ from = {}
  /\ fd = [s \in Socket |-> NoFd] /\ bound = {} /\ closed = {} /\ polling = {}
  /\ reopened = {}

-----------------------------------------------------------------------------
(* The natives.                                                             *)

(* The limit is looked at once the system has made the socket.              *)
Create ==
  /\ Cardinality(Open) < MaxSockets
  /\ sockets' = [f \in Open \cup {nextFd} |-> IF f = nextFd THEN Any ELSE sockets[f]]
  /\ nextFd' = nextFd + 1

(* A second socket is bound, and takes the place of the first with what     *)
(* was waiting in it; the system refuses a port that is in use.             *)
Bind(f, port) ==
  /\ \A g \in Open : port = Any \/ sockets[g] # port
  /\ sockets' = [g \in Open \cup {f} |-> IF g = f THEN port ELSE sockets[g]]
  /\ queue' = [queue EXCEPT ![f] = 0]

Close(f) ==
  /\ sockets' = [g \in Open \ {f} |-> sockets[g]]
  /\ queue' = [queue EXCEPT ![f] = 0]
  /\ from' = from \ {f}

CloseKeepsSender(f) ==
  /\ sockets' = [g \in Open \ {f} |-> sockets[g]]
  /\ queue' = [queue EXCEPT ![f] = 0]
  /\ UNCHANGED from

Receive(f) ==
  /\ f \in Open /\ queue[f] > 0
  /\ queue' = [queue EXCEPT ![f] = @ - 1]
  /\ from' = from \cup {f}

-----------------------------------------------------------------------------
(* Socket.  Its events are emitted at the end of a call: a listener that    *)
(* calls on is like a script that calls next.                               *)

(* _ensureFd: also in a socket that was closed.                             *)
EnsureFd(s) ==
  /\ \/ fd[s] # NoFd /\ UNCHANGED <<nextFd, sockets, fd>>
     \/ /\ fd[s] = NoFd /\ nextFd \in Fd
        /\ Create
        /\ fd' = [fd EXCEPT ![s] = nextFd]
  /\ reopened' = IF s \in closed THEN reopened \cup {s} ELSE reopened

(* When create fails, or is refused, bind throws past its own handler and   *)
(* nothing changes.                                                         *)
BindTo(s, port) ==
  /\ LET f == IF fd[s] = NoFd THEN nextFd ELSE fd[s]
     IN /\ f \in Open \/ (f \in Fd /\ Cardinality(Open) < MaxSockets)
        /\ Bind(f, port)
        /\ fd' = [fd EXCEPT ![s] = f]
        /\ nextFd' = IF f = nextFd THEN f + 1 ELSE nextFd
  /\ bound' = bound \cup {s}
  /\ polling' = IF s \in closed THEN polling ELSE polling \cup {s}
  /\ reopened' = IF s \in closed THEN reopened \cup {s} ELSE reopened
  /\ UNCHANGED <<from, closed>>

(* bind is refused, or its address is taken.                                *)
BindFails(s) ==
  /\ EnsureFd(s)
  /\ UNCHANGED <<queue, from, bound, closed, polling>>

(* send always fails: the answer is a string, whose code is undefined and   *)
(* so not 0.                                                                *)
Send(s) ==
  /\ EnsureFd(s)
  /\ UNCHANGED <<queue, from, bound, closed, polling>>

Address(s) ==
  /\ EnsureFd(s)
  /\ UNCHANGED <<queue, from, bound, closed, polling>>

CloseKeepsFd(s) ==
  /\ s \notin closed
  /\ closed' = closed \cup {s} /\ polling' = polling \ {s}
  /\ IF fd[s] = NoFd THEN UNCHANGED <<sockets, queue, from>> ELSE Close(fd[s])
  /\ UNCHANGED <<nextFd, fd, bound, reopened>>

CloseSocket(s) ==
  /\ s \notin closed
  /\ closed' = closed \cup {s} /\ polling' = polling \ {s}
  /\ IF fd[s] = NoFd THEN UNCHANGED <<sockets, queue, from>> ELSE Close(fd[s])
  /\ fd' = [fd EXCEPT ![s] = NoFd]
  /\ UNCHANGED <<nextFd, bound, reopened>>

(* A datagram comes to a socket of the system, bound or not.                *)
Arrive(f) ==
  /\ f \in Open /\ queue[f] < MaxQueue
  /\ queue' = [queue EXCEPT ![f] = @ + 1]
  /\ UNCHANGED <<nextFd, sockets, from, fd, bound, closed, polling, reopened>>

(* The interval: recv takes the datagram and answers with a string, the     *)
(* code of which is undefined: no message is emitted, the datagram is gone. *)
Poll(s) ==
  /\ s \in polling
  /\ Receive(fd[s])
  /\ UNCHANGED <<nextFd, sockets, fd, bound, closed, polling, reopened>>

Next ==
  \/ \E s \in Socket :
       \/ \E port \in Port \cup {Any} : BindTo(s, port)
       \/ BindFails(s) \/ Send(s) \/ CloseSocket(s) \/ Address(s) \/ Poll(s)
  \/ \E f \in Fd : Arrive(f)

Spec == Init /\ [][Next]_vars

-----------------------------------------------------------------------------
TypeOK ==
  /\ nextFd \in 1 .. MaxFd + 1
  /\ Open \subseteq Fd /\ \A f \in Open : sockets[f] \in Port \cup {Any}
  /\ queue \in [Fd -> 0 .. MaxQueue] /\ from \subseteq Fd
  /\ fd \in [Socket -> Fd \cup {NoFd}]
  /\ bound \subseteq Socket /\ closed \subseteq Socket /\ polling \subseteq Socket
  /\ reopened \subseteq closed

(* The table and the Sockets agree: every descriptor in the table belongs   *)
(* to one Socket, every descriptor of a Socket is in the table, the table   *)
(* keeps its limit, and the sender it remembers is that of an open one.     *)
(* Only a Socket used after close() can hold one that nothing closes.       *)
TableIsHeld ==
  /\ Open = {fd[s] : s \in Socket} \ {NoFd}
  /\ \A s, t \in Socket : s # t /\ fd[s] = fd[t] => fd[s] = NoFd
  /\ \A s \in closed : fd[s] # NoFd => s \in reopened
  /\ Cardinality(Open) <= MaxSockets
  /\ from \subseteq Open

(* A socket is polled from its first bind to its close, whatever is called  *)
(* in between, and what is polled is open.                                  *)
PolledWhileBound ==
  /\ polling = bound \ closed
  /\ \A s \in polling : fd[s] \in Open
=============================================================================
