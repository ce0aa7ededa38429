------------------------------- MODULE Poller -------------------------------
(***************************************************************************)
(* wait_until(desc, fn, timeout_s) of                                      *)
(* scripts/federation_live_fundamentals_validation.py (lines 223-235): the *)
(* bounded retry loop every durable-state check of the harness runs in.    *)
(*                                                                         *)
(* Time is counted in ticks of 0.1 s from the call.  The condition fn      *)
(* watches turns true at trueAt and stays true (the harness only waits for *)
(* effects that persist until its next action).  One call of fn takes one *)
(* of EvalTimes ticks and reads the store at some instant inside that      *)
(* time; it may also raise (database file missing or locked), which the    *)
(* loop swallows.                                                          *)
(***************************************************************************)
EXTENDS Integers, FiniteSets, FiniteSetsExt

CONSTANTS
  Timeout,     \* timeout_s, in ticks
  EvalTimes    \* how long one call of fn may take, in ticks

ASSUME /\ Timeout \in Nat \ {0}
       /\ EvalTimes \subseteq Nat /\ EvalTimes # {}

VARIABLES
  elapsed,          \* time.time() - start of the call
  result,           \* "running", "ok" (returned) or "timeout" (TimeoutError)
  trueAt,           \* when the watched condition becomes true
  raisedWhileTrue   \* history: fn raised although the condition already held

vars == <<elapsed, result, trueAt, raisedWhileTrue>>

MaxEval == Max(EvalTimes)

PollSleep == 4                          \* time.sleep(0.4)

\* A condition that turns true only after any call must have ended.
Never == Timeout + MaxEval + PollSleep + 1

\* fn runs from elapsed to elapsed + d and reads the store at some instant in
\* between: it can see the condition true, or still false.
CanSeeTrue(d) == trueAt <= elapsed + d
CanSeeFalse(d) == trueAt > elapsed

-----------------------------------------------------------------------------

\* Faulty variant: a True that comes back after the deadline is discarded.
EvalTrueStrictDeadline(d) ==
  /\ result = "running" /\ elapsed < Timeout
  /\ CanSeeTrue(d)
  /\ elapsed' = elapsed + d
  /\ result' = IF elapsed + d < Timeout THEN "ok" ELSE "timeout"
  /\ UNCHANGED <<trueAt, raisedWhileTrue>>

\* while time.time() < deadline: fn() returns True -> return.
EvalTrue(d) ==
  /\ result = "running" /\ elapsed < Timeout
  /\ CanSeeTrue(d)
  /\ result' = "ok"
  /\ elapsed' = elapsed + d
  /\ UNCHANGED <<trueAt, raisedWhileTrue>>

\* fn() returns False: sleep and loop.
EvalFalse(d) ==
  /\ result = "running" /\ elapsed < Timeout
  /\ CanSeeFalse(d)
  /\ elapsed' = elapsed + d + PollSleep
  /\ UNCHANGED <<result, trueAt, raisedWhileTrue>>

\* Faulty variant: the exception path retries without testing the deadline.
EvalRaisesIgnoringDeadline(d) ==
  /\ result = "running"
  /\ elapsed' = elapsed + d + PollSleep
  /\ raisedWhileTrue' = (raisedWhileTrue \/ trueAt <= elapsed)
  /\ UNCHANGED <<result, trueAt>>

\* fn() raises: last_error is kept, the exception swallowed; sleep and loop.
EvalRaises(d) ==
  /\ result = "running" /\ elapsed < Timeout
  /\ elapsed' = elapsed + d + PollSleep
  /\ raisedWhileTrue' = (raisedWhileTrue \/ trueAt <= elapsed)
  /\ UNCHANGED <<result, trueAt>>

\* The deadline has passed at the loop test: TimeoutError(desc).
Expire ==
  /\ result = "running" /\ elapsed >= Timeout
  /\ result' = "timeout"
  /\ UNCHANGED <<elapsed, trueAt, raisedWhileTrue>>

Finished == result # "running" /\ UNCHANGED vars

Init ==
  /\ elapsed = 0
  /\ result = "running"
  /\ trueAt \in 0..Never
  /\ raisedWhileTrue = FALSE

Next ==
  \/ \E d \in EvalTimes : EvalTrue(d) \/ EvalFalse(d) \/ EvalRaises(d)
  \/ Expire
  \/ Finished

\* The loop is the only thread of the harness and never blocks unboundedly.
Spec == Init /\ [][Next]_vars /\ WF_vars(Next)

-----------------------------------------------------------------------------
(* Properties.                                                             *)

TypeOK ==
  /\ elapsed \in 0..(Timeout + MaxEval + PollSleep)
  /\ result \in {"running", "ok", "timeout"}
  /\ trueAt \in 0..Never
  /\ raisedWhileTrue \in BOOLEAN

\* The guarantee wait_until really gives: unless fn raised after the
\* condition held, a TimeoutError means the condition turned true less than
\* one evaluation plus one sleep before the deadline (or never).  A caller
\* must leave that much slack in timeout_s.
TimeoutOnlyIfLate ==
  (result = "timeout" /\ ~raisedWhileTrue) =>
    trueAt > Timeout - MaxEval - PollSleep

\* Poller termination (spec, section 8): a condition that turns true at T
\* and never raises makes wait_until return if timeout > T and raise
\* Timeout if timeout < T.
SpecTermination ==
  /\ (result = "timeout" /\ ~raisedWhileTrue) => trueAt >= Timeout
  /\ result = "ok" => trueAt <= Timeout

=============================================================================
