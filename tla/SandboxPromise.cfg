\* Decisions nest at most three deep: an audit function whose own operation
\* is audited while it converts the arguments of a third.
CONSTANTS
  Cap <- MCCap
  Granted <- MCGranted
  Op <- MCOp
  Need <- MCNeed
  AnyBit <- MCAnyBit
  MaxDepth = 3
SPECIFICATION Spec
INVARIANT UnsettledPromiseDoesNotAdmit
