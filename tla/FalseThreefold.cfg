SPECIFICATION Spec
CONSTANT Starts <- CastlingStarts
INVARIANT ThreefoldIsReal
CHECK_DEADLOCK FALSE
