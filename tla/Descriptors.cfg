\* Streams: two sockets, two servers, an event inside another.  Files: a limit
\* of one open file, so that opening fails beyond it; a file of four chunks, in
\* which a file's path turns into a directory and back.  Datagrams: three
\* sockets for a table of two.  Bytes: a queue that two writes overflow, reads of
\* two bytes.
SPECIFICATION SumSpec
CONSTANTS
  s1 = s1
  s2 = s2
  v1 = v1
  v2 = v2
  Socket = {s1, s2}
  Server = {v1, v2}
  Nobody = Nobody
  MaxConnections = 2
  MaxServers = 2
  FirstServerFd = 3
  MaxFd = 4
  MaxDepth = 2
  Path = {"d", "g"}
  Root = "root"
  Given = "d"
  GivenChunks = 4
  MaxOpen = 1
  MaxFileFd = 2
  MaxChunks = 1
  Deferred = {"write", "unlink"}
  MaxLater = 1
  UdpSocket = {"u1", "u2", "u3"}
  Port = {1}
  AnyPort = 0
  MaxUdpSockets = 2
  MaxUdpFd = 4
  MaxQueue = 1
  Room = 2
  MaxRead = 2
  MaxWrites = 2
SYMMETRY Symmetry
INVARIANTS
  TypesOK
  LiveIsOpen
  EveryStreamIsOwned
  ClosedIsQuiet
  DescriptorsAreHeld
CHECK_DEADLOCK FALSE
