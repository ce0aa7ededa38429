CONSTANT Strict = TRUE
SPECIFICATION Spec
INVARIANT TypeOK
INVARIANT RelayProofSound
INVARIANT RelayedThroughout
INVARIANT ReplicationWitnessed
