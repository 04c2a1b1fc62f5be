\* Two threads and two addresses: nesting of calls into two instances, and
\* an address reused by the other thread while koss_destroy returns.
CONSTANTS
  Thread = {t1, t2}
  Addr = {a1, a2}
  Nobody = Nobody
  MaxInstances = 3
SPECIFICATION Spec
INVARIANTS
  NoAliasing
  NoUseAfterFree
  BusyExact
  LiveIsRegistered
PROPERTY ImplementsExclusiveAccess
