CONSTANT Strict = FALSE
SPECIFICATION Spec
INVARIANT RelayProofSound
