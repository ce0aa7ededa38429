CONSTANTS
  Timeout <- MC_Timeout
  EvalTimes <- MC_EvalTimes
SPECIFICATION Spec
INVARIANT TypeOK
INVARIANT TimeoutOnlyIfLate
