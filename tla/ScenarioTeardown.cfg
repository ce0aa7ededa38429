CONSTANTS
  NodeSeq <- MC_NodeSeq
  SessionSeq <- MC_SessionSeq
SPECIFICATION Spec
INVARIANT NodesReleased
PROPERTY TeardownEnds
PROPERTY KillOnlyAfterTerm
