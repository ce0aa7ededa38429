------------------------------ MODULE MC_Poller ------------------------------
(* Model-checking instance of Poller: a 3 s timeout (30 ticks) and calls of *)
(* fn that take no time or 0.3 s, so the last call before the deadline can  *)
(* end on either side of it.                                                *)
EXTENDS Poller

MC_Timeout == 30
MC_EvalTimes == {0, 3}

=============================================================================
