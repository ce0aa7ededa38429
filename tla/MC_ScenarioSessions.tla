------------------------- MODULE MC_ScenarioSessions -------------------------
(* The client's default interval (no heartbeat_interval in HELLO), and     *)
(* blocking calls that each return within one second.                      *)
EXTENDS ScenarioSessions

MC_IntervalMs == 41250
MC_StepSecs == {0, 1}

=============================================================================
