--------------------------- MODULE ScenarioSessions --------------------------
(***************************************************************************)
(* The one thread of main() in scripts/federation_live_fundamentals_       *)
(* validation.py drives three gateway sessions.  A session only reads, and *)
(* so only sends heartbeats (_maybe_heartbeat, lines 495-504), inside its  *)
(* own connect() and wait_dispatch() calls; every other blocking call of   *)
(* the scenario (request_json, wait_until, a direct database query, or a   *)
(* wait on another session) leaves it idle.                                *)
(*                                                                         *)
(* The scenario is the sequence of its blocking calls, stage by stage, in  *)
(* source order; payloads, predicates and assertions are abstracted away.  *)
(* Time is counted in whole seconds; each call takes one of StepSecs.      *)
(* A call that raises ends the scenario, which only shortens a behaviour,  *)
(* so failures are left out.                                               *)
(***************************************************************************)
EXTENDS Integers, Sequences, FiniteSets

CONSTANTS
  IntervalMs,  \* heartbeat_interval from HELLO (41250 when absent)
  StepSecs     \* how long one blocking call may take, in seconds

Sessions == {"guest2", "admin-a", "guest1"}

Call == [k |-> "call", s |-> "none"]
Wait(s) == [k |-> "wait", s |-> s]
Connect(s) == [k |-> "connect", s |-> s]
Calls(n) == [i \in 1..n |-> Call]

\* [5/14] guest2_ws.connect()
Stage5 == <<Connect("guest2")>>

\* [6/14] five add_trusted_peer calls
Stage6 == Calls(5)

\* [7/14] guild, channel list, text and voice channel, two clones; admin_a_ws
Stage7 == Calls(6) \o <<Connect("admin-a")>>

\* [8/14] members, invite, join; GUILD_MEMBER_ADD on admin_a_ws; guest1_ws
Stage8 == Calls(3) \o <<Wait("admin-a")>> \o Calls(1) \o <<Connect("guest1")>>

\* [9/14] create, edit, react, unreact, delete: each a request, a dispatch on
\* guest1_ws and two replication waits; the relay ledger query after create.
Stage9 ==
  <<Call, Wait("guest1"), Call, Call, Call>>
  \o <<Call, Wait("guest1"), Call, Call>> \o <<Call, Wait("guest1"), Call, Call>>
  \o <<Call, Wait("guest1"), Call, Call>> \o <<Call, Wait("guest1"), Call, Call>>

\* [10/14] thread create/update/delete on guest1_ws; poll create, lookup and
\* vote, unvote on admin_a_ws; custom emoji create and delete on guest1_ws.
Stage10 ==
  <<Call, Wait("guest1"), Call, Wait("guest1"), Call, Wait("guest1")>>
  \o <<Call, Call, Call, Call, Wait("admin-a"), Call, Call, Wait("admin-a")>>
  \o <<Call, Call, Wait("guest1"), Call, Wait("guest1")>>

\* [11/14] friend request, accept, DM, reply, history, unfriend, settings
Stage11 ==
  <<Call, Wait("guest2"), Call, Wait("guest1"), Wait("guest2")>>
  \o <<Call, Call, Wait("guest2"), Call, Wait("guest1"), Call>>
  \o <<Call, Wait("guest1"), Wait("guest2"), Call, Call>>

\* [12/14] six voice and stream calls, each awaited on admin_a_ws
Stage12 == [i \in 1..12 |-> IF i % 2 = 1 THEN Call ELSE Wait("admin-a")]

\* [13/14] leave, GUILD_MEMBER_REMOVE on admin_a_ws, member list;
\* [14/14] the trusted-peer query
Stage13 == <<Call, Wait("admin-a"), Call, Call>>

Steps == Stage5 \o Stage6 \o Stage7 \o Stage8 \o Stage9 \o Stage10
         \o Stage11 \o Stage12 \o Stage13

NotOpen == -1
Cap == IntervalMs \div 1000 + 2

VARIABLES
  idx,   \* the next call of Steps
  idle   \* session |-> seconds since its last heartbeat (NotOpen before connect)

vars == <<idx, idle>>

\* now - last_heartbeat_at >= heartbeat_interval_s * 0.9
HeartbeatDue(t) == 10000 * t >= 9 * IntervalMs

\* Every open session other than `busy` stays idle for d more seconds.
Advance(d, busy) ==
  [s \in Sessions |-> IF s = busy \/ idle[s] = NotOpen THEN idle[s]
                      ELSE IF idle[s] + d > Cap THEN Cap ELSE idle[s] + d]

\* A blocking call that reads no session.
CallStep(d) ==
  /\ idx <= Len(Steps) /\ Steps[idx].k = "call"
  /\ idle' = Advance(d, "none")
  /\ idx' = idx + 1

\* connect(): last_heartbeat_at = time.monotonic() at HELLO, then READY.
ConnectStep(d) ==
  LET s == Steps[idx].s IN
  /\ idx <= Len(Steps) /\ Steps[idx].k = "connect"
  /\ \E t \in 0..d : idle' = [Advance(d, s) EXCEPT ![s] = t]
  /\ idx' = idx + 1

\* wait_dispatch() on s: a heartbeat goes out on a read once one is due, so
\* the session ends the call d seconds later, or less if one went out.
WaitStep(d) ==
  LET s == Steps[idx].s IN
  /\ idx <= Len(Steps) /\ Steps[idx].k = "wait"
  /\ \E t \in (IF HeartbeatDue(idle[s] + d) THEN 0..d ELSE {idle[s] + d}) :
       idle' = [Advance(d, s) EXCEPT ![s] = t]
  /\ idx' = idx + 1

\* The scenario has passed its last stage.
Finished == idx > Len(Steps) /\ UNCHANGED vars

Init ==
  /\ idx = 1
  /\ idle = [s \in Sessions |-> NotOpen]

Next ==
  \/ \E d \in StepSecs : CallStep(d) \/ ConnectStep(d) \/ WaitStep(d)
  \/ Finished

Spec == Init /\ [][Next]_vars

-----------------------------------------------------------------------------

\* The client obligation of the gateway protocol (spec, sections 5 and 6):
\* every open session sends a heartbeat at least once per negotiated
\* interval, while the scenario runs.
SessionKeptAlive ==
  \A s \in Sessions : idle[s] # NotOpen => 1000 * idle[s] <= IntervalMs

=============================================================================
