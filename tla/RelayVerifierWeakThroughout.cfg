CONSTANT Strict = FALSE
SPECIFICATION Spec
INVARIANT RelayedThroughout
