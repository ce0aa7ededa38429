# TLA+ models of the Paracord federation validation harness

The repository's `src/` is the harness that checks a three-node Paracord
federation: `scripts/federation_e2e_validation.py` (the relay scenario),
`scripts/federation_live_fundamentals_validation.py` (the same plus realtime
checks over gateway sessions), and `scripts/security_gate_check.py` (whose
`main()` returns 0 at line 13, with everything after it unreachable).
These modules model the harness's control: what it waits for, in which order,
what it concludes from what it reads, and what it releases. The Paracord servers
are not in `src/`. They are the environment, modelled from `spec.md` and marked
`spec_modelled` in `PROJECT.json`.

## Inventory

| Part (spec section) | Code | State | Operations |
|---|---|---|---|
| Gateway client (4.1) | live 402-548 | socket, heartbeat interval, last heartbeat, backlog | `connect`, `_recv_json_blocking`, `_poll_once`, `_maybe_heartbeat`, `_find_in_backlog`, `wait_dispatch`, `close` |
| Poller (4.2) | live 223-235, e2e 161-170 | deadline, last error | `wait_until` |
| State inspector (4.3) | live 327-400, e2e 352-531 | none (reads) | ledger counts, mapping lookups, trusted peers |
| Relay verifier (4.4) | e2e 301-531; live 657-662, 769-902, 1314-1320 | the three counts read | trust linking, the message life cycle and its convergence waits, the relay verdict, the final trust check |
| Orchestrator (4.4, 5) | live `main` 561-1349, e2e `main` 227-555 | process, log file and session lists | stages 1-14, the `finally` teardown |
| Control-plane client (6) | live 186-204, e2e 139-158 | none | `request_json` |

There is one thread. Gateway sessions are read only inside their own `connect`
and `wait_dispatch` calls, so heartbeats depend on the caller. The servers
replicate asynchronously. The harness sees that replication only by polling the
servers' SQLite stores.

The hard behaviours are:
- dispatch events interleaving on a session;
- keepalive timing against read timeouts;
- a deadline racing a condition that becomes true;
- ledger rows written while the verifier reads them one query at a time;
- peer discovery changing the trust graph during the run;
- failure at any step, followed by teardown.

## Modules

- **`DispatchMailbox`**: the abstract promise of spec 4.1. Events arrive in order. A
  request gets the oldest unclaimed event it accepts, or waits for the next one. No
  event is handed out twice.
- **`GatewayClient`**: one session.
  - Time is in ticks of 0.1 s. `sinceHb` is now minus `last_heartbeat_at`, capped.
    `remaining` is the deadline minus now.
  - Actions:
    - `Connect`, `HelloReadTimeout`, `HelloReceived` and `HelloTimedOut` are
      `connect()` and its HELLO loop;
    - `ClaimFromBacklog` and `StartPolling` are the two branches at the start of
      `wait_dispatch`;
    - `PollReceived`, `PollTimedOut`, `ReadOnClosed` and `WaitTimedOut` are its loop;
    - `CallerWorks` is the caller's time between calls;
    - `Close` is `close()`.
  - Every read runs `_maybe_heartbeat` first (`ReadFor`).
  - `advertised` is the interval the HELLO announced. `interval` is the client's
    copy, clamped to at least 1 s (line 427). The server may close a session whose
    heartbeat is overdue by its own, announced interval (`ServerDrops`).
  - `Mailbox == INSTANCE DispatchMailbox WITH ...` maps arrived frames to the inbox,
    returned events to claims, and the wait in progress to `waiting`.
  - `ImplementsMailbox` checks the refinement.
- **`Poller`**: `wait_until`.
  - The watched condition turns true at `trueAt` and stays true.
  - An evaluation takes `d` ticks. It sees the condition at some instant inside
    those ticks, or it raises.
  - The loop sleeps 0.4 s after each evaluation that does not return True.
- **`RelayVerifier`**: the relay scenario and the message life cycle around it.
  `Strict = TRUE` gives the e2e script's operations and checks; `Strict = FALSE`
  gives the live script's.
  - The harness links trust with five calls. It then performs each operation of
    `Ops` on a (`Act`): create, edit, react, unreact, in e2e a member join and
    leave, then delete. After each one it waits for b, then c (`WaitSees`).
  - A wait's condition (`Converged`) is the script's own query over the replica's
    `store`: `MappedContent`, `MappedMessageAbsent`, `MessagePresent`,
    `ReactionCount`, `RemoteMemberPresent` and `RemoteMemberAbsent`. The store
    records the message row, its map row, the reaction row, the remote-user row and
    the membership.
  - After the create's waits, the harness reads `a_to_c`, `b_to_c` and
    `c_has_event` as three separate steps and judges. At the end it runs the final
    peer check.
  - From the create until the verdict, the servers may do any of these at any
    point:
    - send the create along trust edges, recording the attempt row as they send;
    - lose a delivery;
    - ingest a delivery from a trusted peer, once, and apply it to the store in
      arrival order (`Effects`);
    - pass a later event over a trust edge (`Propagate`);
    - trust a peer of a peer (discovery).
  - Only the create's attempt rows are read, so a later event's delivery is one step,
    and a lost one simply never happens.
- **`ScenarioTeardown`**: the live `main()` as a resource lifecycle.
  - It opens a log file and starts a process per node, waits for health, and
    connects three sessions.
  - Any step may raise. Then the `finally` block runs in order: it closes the
    registered clients, sends SIGTERM, sleeps, kills, and closes the files.
  - A process may exit on its own or on SIGTERM, or never exit.
- **`ScenarioSessions`**: stages 5-14 of the live `main()`.
  - Each stage is the sequence of its blocking calls, in source order. A call is a
    generic call, a `connect`, or a `wait_dispatch` on a named session. Each call
    takes 0 or 1 s.
  - The model tracks every open session's seconds since its last heartbeat.

`MC_*` modules give the constants. Time bounds are shortened where only their
order matters: HELLO 0.8 s, READY and waits 1 s, and the poller's timeout 3 s.
These windows are still long enough for several reads, a heartbeat and a timeout
to happen in one call.
`MaxEvents` (3, or 2 for the liveness run) bounds the frames per session. That is
enough for a retained event, a later claim of it, and an interleaved unrelated
frame. Payloads are symmetric model values in the safety run.

## Runs

| Run | Checks | Result |
|---|---|---|
| `gateway` | `ClaimsConserved`, `ImplementsMailbox` | pass: each event is claimed once or kept in arrival order; the client refines the mailbox |
| `gateway_loops` | `LoopsEnd` | pass: the HELLO and dispatch loops always end, because each takes its deadline once, before the loop; a deadline taken afresh on every iteration would let a quiet server hold a wait forever |
| `gateway_handshake` | `IdentifyFirst` | violation: a heartbeat goes out before HELLO is read (`last_heartbeat_at = 0.0`, line 409) |
| `gateway_keepalive` | `KeepaliveWithinInterval` | violation: with a 6 s announced interval, a call returns just under 0.9 of the interval after the last heartbeat, a backlog hit reads nothing, and the caller's work between calls takes the gap past 6 s. The same property fails without any idle caller for short intervals: with `HelloIntervalsMs = {1000}` the 0.5 s read that follows a test at 0.9 s overshoots (six steps), and with `{500}` the clamp to 1 s does (five steps). |
| `poller` | `TypeOK`, `TimeoutOnlyIfLate` | pass: a timeout means the condition came true less than one evaluation plus one sleep before the deadline; the elapsed time stays within one evaluation and one sleep past the deadline, so even an fn that always raises times out |
| `poller_spec_termination` | `SpecTermination` | violation: it returns for a condition true only after the timeout, and times out for one true before it |
| `relay` | `TypeOK`, `RelayProofSound`, `RelayedThroughout`, `ReplicationWitnessed` | pass (e2e checks), 21k states. A passing relay check means c got the create through b. A passing run means no later event reached c straight from a. Every convergence wait that returns means the replica ingested that event, including the absence waits, which hold only because the presence waits before them did. |
| `relay_weak` | `RelayProofSound` | violation (live check): a discovers c, sends to it directly, and c, which trusts a (line 662), ingests it |
| `trust_weak` | `RelayedThroughout` | violation (live checks): a discovers c, c ingests a-origin events straight from a, and the run passes (line 1319 only asks that b be trusted) |
| `teardown` | `NodesReleased`, `TeardownEnds`, `KillOnlyAfterTerm` | pass: no process is left running and no log file open, even when a server ignores SIGTERM; `kill()` only reaches a process that got SIGTERM a grace period earlier |
| `teardown_sessions` | `SessionsReleased` | violation: a session whose handshake fails is never closed |
| `sessions_idle` | `SessionKeptAlive` | violation: `guest2_ws` sends no heartbeat for 42 s by call 42, with every call taking at most 1 s |

Every property of a passing run has a mutant in `PROJECT.json`: a plausible bug
in the mapped code that TLC shows breaks it.

## Fairness

Weak fairness is put only on what the code runs without waiting for anyone:
- the client's own read loops, because `recv` has a timeout;
- the harness thread in `ScenarioTeardown` and `Poller`. `Poller` checks no
  liveness property: every iteration that does not return sleeps 0.4 s, so its end
  is a bound on elapsed time, and `TypeOK` states that bound.

The caller's work between calls, the server's frames, a server's exit after
SIGTERM, and federation deliveries get no fairness. None of them is guaranteed.

## Not modelled

- Config templating, the cargo build, the LiveKit download, log redirection and
  the database clones. These are plain sequential I/O; the spec puts them out of
  scope.
- The HTTP details of `request_json` (headers, encoding, status sets). A request
  is modelled as a step that takes time or raises.
- The live script's other replicated stages (threads, polls, custom emojis,
  friends and DMs, voice). Their checks are REST responses and dispatch events on
  node a, not replica stores. `ScenarioSessions` models them as call sequences.
- The predicates of the scenario's dispatch waits (`ScenarioSessions` keeps only
  which session each wait reads). Almost every predicate names the id of the object
  its own request created. Which event a wait claims then depends on which events
  the server sends to which session, and the spec does not describe that.
- The e2e `main()`'s teardown (e2e 536-555). It is the same code as the live one
  (live 1332-1349) without the gateway sessions, so `ScenarioTeardown` covers it.
- Wall-clock steps. `wait_until` reads `time.time()` (line 224), so a clock step
  during a wait would end it early or late. `Poller` counts real elapsed time.
- What a server's reconnect (op 7) or invalid-session (op 9) frame should make the
  client do. The client drops every non-dispatch frame alike (line 535), so the
  model's one such frame stands for all of them, and the spec does not say what
  the client should do instead.
- `security_gate_check.py`, which has no reachable state.

## Plan for later work

1. Done: the message life cycle is part of `RelayVerifier` (`ReplicationWitnessed`).
2. Compose `GatewayClient` with `ScenarioSessions`: run two sessions on one thread
   with the server dropping overdue sessions.
3. A version of `RelayVerifier` in which attempt rows may be written after the send.
   This would test whether the one-shot ledger reads stay sound.
