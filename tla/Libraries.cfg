\* CommonJs: four evaluations, three deep, so that a cycle of two modules and
\* a module evaluated again after it failed, was forgotten or the cache was
\* replaced are there.  Streams: two chunks through a pipe of three streams.
\* Events: two emissions, one inside the other.  Timers: two objects, re-armed.
\* Paths: two of three segments.
SPECIFICATION SumSpec
CONSTANTS
  a = a
  b = b
  c = c
  Path <- MCPath
  Source <- MCSource
  None = None
  Main = Main
  MaxInstances = 4
  MaxDepth = 3
  MaxResets = 1
  MaxChunks = 2
  MaxCalls = 5
  MaxAgenda = 3
  Fn = {f}
  MaxOnce = 2
  MaxEmits = 2
  MaxAsked = 1
  MaxListed = 2
  MaxNested = 2
  Timer = {t1, t2}
  MaxIds = 4
  Base = 4
  Width = {1, 2, 4, 8}
  Number <- MCNumber
  Index <- MCIndex
  MaxOps = 2
  Name = {"a"}
  Drive = "C:"
  MaxLen = 3
INVARIANTS
  TypesOK
  CachedIsLive
  OnceUntilReset
  GlobalsFollowStack
  StreamsKeepTheirChunks
  EventsAndTimersAnswer
  DataSurvives
CHECK_DEADLOCK FALSE
