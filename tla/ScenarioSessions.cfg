CONSTANTS
  IntervalMs <- MC_IntervalMs
  StepSecs <- MC_StepSecs
SPECIFICATION Spec
INVARIANT SessionKeptAlive
