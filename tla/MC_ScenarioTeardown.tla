------------------------- MODULE MC_ScenarioTeardown -------------------------
(* The three nodes and the three gateway sessions of the live script.      *)
EXTENDS ScenarioTeardown

MC_NodeSeq == <<"a", "b", "c">>
MC_SessionSeq == <<"guest2", "admin-a", "guest1">>

=============================================================================
