CONSTANTS
  EventTypes <- MC_EventTypes
  Payloads = {p1, p2}
  NonDict = NonDict
  Absent = Absent
  HelloIntervalsMs = {6000}
  DefaultHeartbeatMs = 6000
  HelloTimeout = 8
  ReadyTimeout = 60
  WaitTimeouts = {60}
  MaxIdle = 5
  MaxEvents = 3
SPECIFICATION Spec
INVARIANT KeepaliveWithinInterval
