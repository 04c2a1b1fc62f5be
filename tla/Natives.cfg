\* The loop: four operations, so that a call, a fetch and two closes meet.
\* Structures and calls: bytes of four values and numbers exact to 64, so that
\* every type overflows and int64 is rounded.  Callbacks: two, four frames deep.
\* Addons: slots for two arguments and a reference, a call within a call.
SPECIFICATION SumSpec
CONSTANTS
  MaxOps = 4
  MaxRounds = 1
  ByteValues = 4
  Exact = 64
  FieldLists <- MCFieldLists
  Packings = {0, 1, 2}
  NoPacking = NoPacking
  Inputs <- MCInputs
  MaxKept = 2
  Declarations <- MCDeclarations
  Arguments <- MCArguments
  MaxCallbacks = 2
  MaxDepth = 4
  MaxBlocks = 2
  Sizes = {0, 2}
  Slots = 3
  Objects = {"o"}
  ScriptFn = "fn"
  NativeFns = {"nf"}
  Passed <- MCPassed
  Datum = {1}
  MaxFrames = 3
  MaxRefs = 1
  MaxRefCount = 1
  Opaque <- MCOpaque
  Key = {"wrapped"}
  MaxScopes = 1
  MaxWorks = 2
INVARIANTS
  TypesOK
  PendingHasSource
  ActiveExact
  CloseWaitsForEarlierCalls
  IdleIsIdle
  FieldsKeepTheirValues
  ArgumentsArrive
  HeldNativesAreThere
  AddonsKeepTheirValues
CHECK_DEADLOCK FALSE
