CONSTANTS MaxCallbacks=2 MaxDepth=4 MaxBlocks=1 Sizes={0,2}
SPECIFICATION Spec
INVARIANTS FreedDataIsNotTouched
CHECK_DEADLOCK FALSE
