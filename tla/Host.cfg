\* Decisions nest at most three deep: an audit function whose own operation
\* is audited while it converts the arguments of a third.  Two callbacks, so
\* that a class is registered again with another; two pieces of code left at
\* a time.  Of the built-in modules one is asked for, once or again.
SPECIFICATION SumSpec
CONSTANTS
  Cap <- MCCap
  Granted <- MCGranted
  Op <- MCOp
  Need <- MCNeed
  AnyBit <- MCAnyBit
  MaxDepth = 3
  Path <- MCPath
  Callback = {"f", "g"}
  NoCallback = "none"
  KossJS <- MCKossJS
  MaxObjects = 1
  Dir = {"d", "l"}
  NoDir = "NULL"
  RealDir <- MCRealDir
  MaxLeft = 2
  Unknown = "unknown"
  MaxPulled = 3
  MaxReads = 2
  Signal = {s1, s2}
  Composite = any
  Plain = plain
  Fetch = {fetch}
  NoReason = NoReason
  MaxListeners = 2
  Port = {p1, p2}
  Channel = {c1, c2, c3}
  Nobody = Nobody
  Value = {v1, v2}
  MaxPosts = 2
SYMMETRY Symmetry
INVARIANTS
  AuditFlagExact
  ScriptOnlyRestricts
  GlobalsAreTheHosts
  CallsAnswerForTheirCode
  WebDelivers
CHECK_DEADLOCK FALSE
