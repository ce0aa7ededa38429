CONSTANTS
  EventTypes <- MC_EventTypes
  Payloads = {p1, p2}
  NonDict = NonDict
  Absent = Absent
  HelloIntervalsMs <- MC_HelloIntervalsMs
  DefaultHeartbeatMs <- MC_DefaultHeartbeatMs
  HelloTimeout = 8
  ReadyTimeout = 10
  WaitTimeouts = {10}
  MaxIdle = 5
  MaxEvents = 3
SPECIFICATION Spec
INVARIANT ClaimsConserved
PROPERTY ImplementsMailbox
SYMMETRY MC_Symmetry
