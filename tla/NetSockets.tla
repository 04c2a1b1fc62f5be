----------------------------- MODULE NetSockets -----------------------------
(***************************************************************************)
(* koss:net (src/src/js_shims/koss_shim/net.js) on the TCP descriptors of  *)
(* an instance (register_net_functions in src/src/runtime.rs), with the    *)
(* thin layers between them (koss:io, koss:internal/net).                  *)
(*                                                                         *)
(* The native side keeps two tables, connections and servers, with a       *)
(* counter each; descriptors are never given out again, but one            *)
(* __koss_tcp_close removes its descriptor from both tables.  The script's *)
(* side keeps objects that remember a descriptor and poll it from an       *)
(* interval.  Events are emitted in the middle of connect and listen: the  *)
(* listeners may call anything before the rest of the call runs.           *)
(***************************************************************************)
EXTENDS Naturals, Sequences, FiniteSets

CONSTANTS
  Socket,          \* the Socket objects
  Server,          \* the Server objects
  Nobody,          \* an unused descriptor
  MaxConnections,  \* MAX_TCP_CONNECTIONS
  MaxServers,      \* MAX_TCP_SERVERS
  FirstServerFd,   \* the first descriptor of a server (1001 in the code)
  MaxFd,           \* bound: descriptors given out
  MaxDepth         \* bound: events in progress, one inside another

ASSUME ObjectAssumption == Nobody \notin Socket \cup Server /\ Socket \cap Server = {}
ASSUME FdAssumption ==
  /\ MaxFd \in Nat /\ FirstServerFd \in 1 .. MaxFd + 1
  /\ MaxConnections \in Nat /\ MaxServers \in Nat /\ MaxDepth \in Nat

Fd == 1 .. MaxFd

VARIABLES
  client,       \* NET_TCP_CLIENT is granted (NET_TCP_SERVER is)
  closes,       \* and the review of operations lets net.tcpClose pass
  nextConn,     \* next_connection_fd
  nextServer,   \* next_server_fd
  connections,  \* connections[f]: the socket whose stream f is
  servers,      \* servers[f]: the server whose listener f is
  fd,           \* fd[o]: _fd of a socket, _server._fd of a server; 0 is null
  connected,    \* the sockets that are _connected
  destroyed,    \* the sockets that are _destroyed
  reading,      \* the sockets with a _readInterval
  idle,         \* the sockets with a _timeoutId
  listening,    \* the servers that are _listening
  held,         \* the servers with a _pollInterval
  pollers,      \* pollers[v]: the intervals of a server that are armed
  emitting,     \* the calls in progress whose event is being emitted
  lost,         \* history: descriptors no object can close any more
  odd           \* history: objects closed inside the event of their own
                \*   connect or listen, or opened again after

nativeVars == <<client, closes, nextConn, nextServer, connections, servers>>
socketVars == <<connected, destroyed, reading, idle>>
serverVars == <<listening, held, pollers>>
vars == <<nativeVars, fd, socketVars, serverVars, emitting, lost, odd>>

Call == [kind : {"connect", "destroy"}, of : Socket]
        \cup [kind : {"listen"}, of : Server]

TypeOK ==
  /\ client \in BOOLEAN /\ closes \in BOOLEAN
  /\ nextConn \in 1 .. MaxFd + 1
  /\ nextServer \in FirstServerFd .. MaxFd + 1
  /\ connections \in [Fd -> Socket \cup {Nobody}]
  /\ servers \in [Fd -> Server \cup {Nobody}]
  /\ fd \in [Socket \cup Server -> Fd \cup {0}]
  /\ connected \subseteq Socket /\ destroyed \subseteq Socket
  /\ reading \subseteq Socket /\ idle \subseteq Socket
  /\ listening \subseteq Server /\ held \subseteq Server
  /\ pollers \in [Server -> Nat]
  /\ emitting \in Seq(Call)
  /\ lost \subseteq Fd
  /\ odd \subseteq Socket \cup Server

Init ==
  /\ client \in BOOLEAN /\ closes \in BOOLEAN /\ (closes => client)
  /\ nextConn = 1 /\ nextServer = FirstServerFd
  /\ connections = [f \in Fd |-> Nobody]
  /\ servers = [f \in Fd |-> Nobody]
  /\ fd = [o \in Socket \cup Server |-> 0]
  /\ connected = {} /\ destroyed = {} /\ reading = {} /\ idle = {}
  /\ listening = {} /\ held = {}
  /\ pollers = [v \in Server |-> 0]
  /\ emitting = <<>>
  /\ lost = {} /\ odd = {}

-----------------------------------------------------------------------------
(* The native functions *)

Used(table) == {f \in Fd : table[f] # Nobody}

(* A stream is connected or accepted for s: it is dropped at the limit. *)
TakeConnection(s) ==
  /\ Cardinality(Used(connections)) < MaxConnections
  /\ nextConn \in Fd
  /\ connections' = [connections EXCEPT ![nextConn] = s]
  /\ nextConn' = nextConn + 1
  /\ fd' = [fd EXCEPT ![s] = nextConn]

(* Mistake: the smallest descriptor that is free. *)
TakeServerFree(v) ==
  /\ Cardinality(Used(servers)) < MaxServers
  /\ \E f \in Fd \ Used(servers) :
       /\ f >= FirstServerFd
       /\ \A g \in Fd \ Used(servers) : g >= FirstServerFd => f <= g
       /\ servers' = [servers EXCEPT ![f] = v]
       /\ fd' = [fd EXCEPT ![v] = f]
  /\ UNCHANGED nextServer

TakeServer(v) ==
  /\ Cardinality(Used(servers)) < MaxServers
  /\ nextServer \in Fd
  /\ servers' = [servers EXCEPT ![nextServer] = v]
  /\ nextServer' = nextServer + 1
  /\ fd' = [fd EXCEPT ![v] = nextServer]

(* __koss_tcp_close; what it throws is ignored by its callers. *)
NativeClose(f) ==
  IF closes /\ f # 0
  THEN /\ connections' = [connections EXCEPT ![f] = Nobody]
       /\ servers' = [servers EXCEPT ![f] = Nobody]
  ELSE UNCHANGED <<connections, servers>>

-----------------------------------------------------------------------------
(* Socket *)

Fresh(s) == fd[s] = 0 /\ s \notin destroyed
Emitting(kind, o) == \E i \in 1 .. Len(emitting) : emitting[i] = [kind |-> kind, of |-> o]
Emit(kind, o) ==
  /\ Len(emitting) < MaxDepth
  /\ emitting' = Append(emitting, [kind |-> kind, of |-> o])

(* The listeners of the innermost event return, or one of them throws. *)
Leave(kind, o) ==
  /\ emitting # <<>> /\ emitting[Len(emitting)] = [kind |-> kind, of |-> o]
  /\ emitting' = SubSeq(emitting, 1, Len(emitting) - 1)

(* connect: the descriptor it had is forgotten, and destroy does nothing   *)
(* for a socket already destroyed.  A failure emits 'error' and leaves the *)
(* socket as it was.                                                       *)
Connect(s) ==
  /\ client
  /\ TakeConnection(s)
  /\ connected' = connected \cup {s}
  /\ Emit("connect", s)
  /\ lost' = lost \cup {f \in Fd : connections[f] = s}
                  \cup (IF s \in destroyed THEN {nextConn} ELSE {})
  /\ odd' = IF s \in destroyed THEN odd \cup {s} ELSE odd
  /\ UNCHANGED <<client, closes, nextServer, servers, destroyed, reading, idle, serverVars>>

(* The listeners of 'connect' return, and _startReading follows. *)
ConnectListenersReturn(s) ==
  /\ Leave("connect", s)
  /\ reading' = reading \cup {s}
  /\ UNCHANGED <<nativeVars, fd, connected, destroyed, idle, serverVars, lost, odd>>

(* A listener throws: what was to follow the event is not done. *)
ListenerThrows(kind, o) ==
  /\ Leave(kind, o)
  /\ UNCHANGED <<nativeVars, fd, socketVars, serverVars, lost, odd>>

(* The read interval meets an error whose message says "closed": _cleanup, *)
(* 'end' and 'close'.  Any other error is ignored, and the end of the      *)
(* stream is not told from the lack of data.                               *)
ReadSaysClosed(s) ==
  /\ emitting = <<>> /\ client
  /\ s \in reading /\ s \in connected \ destroyed
  /\ connections[fd[s]] # Nobody
  /\ reading' = reading \ {s}
  /\ idle' = idle \ {s}
  /\ connected' = connected \ {s}
  /\ UNCHANGED <<nativeVars, fd, destroyed, serverVars, emitting, lost, odd>>

(* setTimeout, with a time or with 0; the timer is not restarted by data. *)
SetTimeout(s, on) ==
  /\ idle' = IF on /\ s \in connected THEN idle \cup {s} ELSE idle \ {s}
  /\ UNCHANGED <<nativeVars, fd, connected, destroyed, reading, serverVars, emitting, lost, odd>>

TimeoutFires(s) ==
  /\ emitting = <<>>
  /\ s \in idle
  /\ idle' = idle \ {s}
  /\ UNCHANGED <<nativeVars, fd, connected, destroyed, reading, serverVars, emitting, lost, odd>>

(* Mistake: only a connected socket has something to close. *)
DestroyConnected(s) ==
  /\ s \notin destroyed
  /\ destroyed' = destroyed \cup {s}
  /\ reading' = reading \ {s} /\ idle' = idle \ {s} /\ connected' = connected \ {s}
  /\ NativeClose(IF s \in connected THEN fd[s] ELSE 0)
  /\ Emit("destroy", s)
  /\ odd' = IF Emitting("connect", s) THEN odd \cup {s} ELSE odd
  /\ UNCHANGED <<client, closes, nextConn, nextServer, fd, serverVars, lost>>

(* Mistake: the timeout is left to fire. *)
DestroyKeepsTimeout(s) ==
  /\ s \notin destroyed
  /\ destroyed' = destroyed \cup {s}
  /\ reading' = reading \ {s} /\ connected' = connected \ {s}
  /\ NativeClose(fd[s])
  /\ Emit("destroy", s)
  /\ odd' = IF Emitting("connect", s) THEN odd \cup {s} ELSE odd
  /\ UNCHANGED <<client, closes, nextConn, nextServer, fd, idle, serverVars, lost>>

(* destroy, and end after its write. *)
Destroy(s) ==
  /\ s \notin destroyed
  /\ destroyed' = destroyed \cup {s}
  /\ reading' = reading \ {s} /\ idle' = idle \ {s} /\ connected' = connected \ {s}
  /\ NativeClose(fd[s])
  /\ Emit("destroy", s)
  /\ odd' = IF Emitting("connect", s) THEN odd \cup {s} ELSE odd
  /\ UNCHANGED <<client, closes, nextConn, nextServer, fd, serverVars, lost>>

(* The listeners of 'close' return. *)
DestroyListenersReturn(s) ==
  /\ Leave("destroy", s)
  /\ connected' = connected \ {s}
  /\ UNCHANGED <<nativeVars, fd, destroyed, reading, idle, serverVars, lost, odd>>

-----------------------------------------------------------------------------
(* Server *)

(* listen: a second call forgets the listener and the interval it had. *)
Listen(v) ==
  /\ TakeServer(v)
  /\ listening' = listening \cup {v}
  /\ Emit("listen", v)
  /\ odd' = IF v \in listening THEN odd \cup {v} ELSE odd
  /\ UNCHANGED <<client, closes, nextConn, connections, socketVars, held, pollers, lost>>

(* The listeners of 'listening' return, and the interval is armed. *)
ListenListenersReturn(v) ==
  /\ Leave("listen", v)
  /\ held' = held \cup {v}
  /\ pollers' = [pollers EXCEPT ![v] = @ + 1]
  /\ UNCHANGED <<nativeVars, fd, socketVars, listening, lost, odd>>

(* The interval accepts a connection: a new Socket, read from the start. *)
Accept(v, s) ==
  /\ emitting = <<>>
  /\ pollers[v] > 0
  /\ fd[v] # 0 /\ servers[fd[v]] # Nobody
  /\ Fresh(s)
  /\ TakeConnection(s)
  /\ connected' = connected \cup {s}
  /\ reading' = reading \cup {s}
  /\ UNCHANGED <<client, closes, nextServer, servers, destroyed, idle, serverVars, emitting, lost, odd>>

(* Mistake: the interval is cleared only if the listener is still open. *)
CloseServerOnce(v) ==
  /\ IF v \in held /\ v \in listening
     THEN held' = held \ {v} /\ pollers' = [pollers EXCEPT ![v] = @ - 1]
     ELSE UNCHANGED <<held, pollers>>
  /\ NativeClose(fd[v])
  /\ listening' = listening \ {v}
  /\ odd' = IF Emitting("listen", v) THEN odd \cup {v} ELSE odd
  /\ UNCHANGED <<client, closes, nextConn, nextServer, fd, socketVars, emitting, lost>>

(* Mistake: the field of the interval is not reset. *)
CloseServerKeepsInterval(v) ==
  /\ IF v \in held
     THEN pollers' = [pollers EXCEPT ![v] = @ - 1] /\ UNCHANGED held
     ELSE UNCHANGED <<held, pollers>>
  /\ NativeClose(fd[v])
  /\ listening' = listening \ {v}
  /\ odd' = IF Emitting("listen", v) THEN odd \cup {v} ELSE odd
  /\ UNCHANGED <<client, closes, nextConn, nextServer, fd, socketVars, emitting, lost>>

(* close, as often as the script likes: the descriptor is not forgotten. *)
CloseServer(v) ==
  /\ IF v \in held
     THEN held' = held \ {v} /\ pollers' = [pollers EXCEPT ![v] = @ - 1]
     ELSE UNCHANGED <<held, pollers>>
  /\ NativeClose(fd[v])
  /\ listening' = listening \ {v}
  /\ odd' = IF Emitting("listen", v) THEN odd \cup {v} ELSE odd
  /\ UNCHANGED <<client, closes, nextConn, nextServer, fd, socketVars, emitting, lost>>

Next ==
  \/ \E s \in Socket :
       \/ Connect(s) \/ ConnectListenersReturn(s)
       \/ Destroy(s) \/ DestroyListenersReturn(s)
       \/ \E kind \in {"connect", "destroy"} : ListenerThrows(kind, s)
       \/ ReadSaysClosed(s) \/ TimeoutFires(s)
       \/ \E on \in BOOLEAN : SetTimeout(s, on)
  \/ \E v \in Server :
       \/ Listen(v) \/ ListenListenersReturn(v) \/ ListenerThrows("listen", v)
       \/ CloseServer(v)
       \/ \E s \in Socket : Accept(v, s)

Spec == Init /\ [][Next]_vars

-----------------------------------------------------------------------------
(* As long as connections have not reached the descriptors of the servers, *)
(* what an object still uses stays open: a connected socket's descriptor   *)
(* is its own stream and a listening server's its own listener, however    *)
(* often other objects are closed or closed again.  (A close drops its     *)
(* number from both tables: past FirstServerFd one closes the other's.)    *)
LiveIsOpen ==
  nextConn <= FirstServerFd =>
    /\ \A s \in connected : fd[s] \in Fd /\ connections[fd[s]] = s
    /\ \A v \in listening : fd[v] \in Fd /\ servers[fd[v]] = v

(* A stream in the table can still be closed: it belongs to a socket that  *)
(* remembers it and is not destroyed, even after that socket stopped       *)
(* reading it.  The exceptions are those of connect on a socket that has a *)
(* descriptor or is destroyed.                                             *)
EveryStreamIsOwned ==
  closes => \A f \in Used(connections) \ lost :
              fd[connections[f]] = f /\ connections[f] \notin destroyed

(* What is closed is quiet: a destroyed socket has no read interval and no *)
(* timeout, a server that does not listen has no interval.  Closing inside *)
(* the event of one's own connect or listen is the exception: what follows *)
(* the event arms the interval again.                                      *)
ClosedIsQuiet ==
  /\ \A s \in destroyed \ odd : s \notin reading /\ s \notin idle
  /\ \A v \in Server \ (listening \cup odd) : pollers[v] = 0
=============================================================================
