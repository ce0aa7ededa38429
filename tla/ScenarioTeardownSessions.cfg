CONSTANTS
  NodeSeq <- MC_NodeSeq
  SessionSeq <- MC_SessionSeq
SPECIFICATION Spec
INVARIANT SessionsReleased
