--------------------------- MODULE ScenarioTeardown --------------------------
(***************************************************************************)
(* The resources main() of scripts/federation_live_fundamentals_validation *)
(* .py acquires and the finally block that releases them: a log file and a *)
(* server process per node (lines 576-590), the health wait (600-605), the *)
(* three gateway sessions (653-655, 719-721, 765-767), the rest of the     *)
(* scenario, then teardown (1329-1349).  Any step of the body may raise;   *)
(* control then goes straight to the finally block.  A server process may  *)
(* die on its own at any time, and may or may not exit on SIGTERM.         *)
(***************************************************************************)
EXTENDS Integers, Sequences, FiniteSets

CONSTANTS
  NodeSeq,     \* NODES.values(), in start order
  SessionSeq   \* the gateway sessions, in connect order

Nodes == {NodeSeq[i] : i \in 1..Len(NodeSeq)}
Sessions == {SessionSeq[i] : i \in 1..Len(SessionSeq)}

VARIABLES
  phase,       \* where main() is
  nodeIdx,     \* index of the next node to start
  sessIdx,     \* index of the next session to connect
  files,       \* node |-> its log file: "none", "open", "closed"
  procs,       \* node |-> its process: "none", "running", "exited"
  termed,      \* processes sent SIGTERM
  sockets,     \* session |-> its websocket: "none", "open", "closed"
  registered,  \* sessions appended to gateway_clients
  outcome      \* "running", "ok" (return 0) or "failed" (exception)

vars == <<phase, nodeIdx, sessIdx, files, procs, termed, sockets,
          registered, outcome>>

Body == {"nodes", "health", "sessions", "handshake", "rest"}
Running == {n \in Nodes : procs[n] = "running"}

-----------------------------------------------------------------------------
(* The body of main().                                                     *)

\* fh = open(log_path, "w"); log_files.append(fh)
OpenLog ==
  LET n == NodeSeq[nodeIdx] IN
  /\ phase = "nodes" /\ files[n] = "none"
  /\ files' = [files EXCEPT ![n] = "open"]
  /\ UNCHANGED <<phase, nodeIdx, sessIdx, procs, termed, sockets, registered,
                 outcome>>

\* proc = subprocess.Popen(...); procs.append(proc)
StartNode ==
  LET n == NodeSeq[nodeIdx] IN
  /\ phase = "nodes" /\ files[n] = "open"
  /\ procs' = [procs EXCEPT ![n] = "running"]
  /\ nodeIdx' = nodeIdx + 1
  /\ phase' = IF nodeIdx = Len(NodeSeq) THEN "health" ELSE "nodes"
  /\ UNCHANGED <<sessIdx, files, termed, sockets, registered, outcome>>

\* Every node answers /health (a dead node only lets the wait time out).
HealthOK ==
  /\ phase = "health" /\ Running = Nodes
  /\ phase' = "sessions"
  /\ UNCHANGED <<nodeIdx, sessIdx, files, procs, termed, sockets, registered,
                 outcome>>

\* GatewayClient(...).connect(): websocket.create_connection(...) returns.
OpenSocket ==
  LET s == SessionSeq[sessIdx] IN
  /\ phase = "sessions" /\ procs[NodeSeq[1]] = "running"
  /\ sockets' = [sockets EXCEPT ![s] = "open"]
  /\ phase' = "handshake"
  /\ UNCHANGED <<nodeIdx, sessIdx, files, procs, termed, registered, outcome>>

\* HELLO and READY arrive, connect() returns: gateway_clients.append(...)
Handshaken ==
  LET s == SessionSeq[sessIdx] IN
  /\ phase = "handshake" /\ procs[NodeSeq[1]] = "running"
  /\ registered' = registered \cup {s}
  /\ sessIdx' = sessIdx + 1
  /\ phase' = IF sessIdx = Len(SessionSeq) THEN "rest" ELSE "sessions"
  /\ UNCHANGED <<nodeIdx, files, procs, termed, sockets, outcome>>

\* The remaining stages pass: return 0.
Succeed ==
  /\ phase = "rest"
  /\ outcome' = "ok"
  /\ phase' = "closing"
  /\ UNCHANGED <<nodeIdx, sessIdx, files, procs, termed, sockets, registered>>

\* The current step raises (Popen, a timeout, HELLO/READY, an assertion).
Raise ==
  /\ phase \in Body
  /\ outcome' = "failed"
  /\ phase' = "closing"
  /\ UNCHANGED <<nodeIdx, sessIdx, files, procs, termed, sockets, registered>>

-----------------------------------------------------------------------------
(* The finally block.                                                      *)

\* for client in gateway_clients: client.close()
CloseClients ==
  /\ phase = "closing"
  /\ sockets' = [s \in Sessions |->
                   IF s \in registered THEN "closed" ELSE sockets[s]]
  /\ phase' = "terming"
  /\ UNCHANGED <<nodeIdx, sessIdx, files, procs, termed, registered, outcome>>

\* Faulty variant: the poll() test inverted, signalling the exited ones.
TermExited ==
  /\ phase = "terming"
  /\ termed' = termed \cup {n \in Nodes : procs[n] = "exited"}
  /\ phase' = "grace"
  /\ UNCHANGED <<nodeIdx, sessIdx, files, procs, sockets, registered, outcome>>

\* for proc in procs: if proc.poll() is None: proc.send_signal(SIGTERM)
TermAll ==
  /\ phase = "terming"
  /\ termed' = termed \cup Running
  /\ phase' = "grace"
  /\ UNCHANGED <<nodeIdx, sessIdx, files, procs, sockets, registered, outcome>>

\* Faulty variant: proc.wait() in place of the fixed grace period.
GraceWaitsForExit ==
  /\ phase = "grace" /\ Running \cap termed = {}
  /\ phase' = "killing"
  /\ UNCHANGED <<nodeIdx, sessIdx, files, procs, termed, sockets, registered,
                 outcome>>

\* time.sleep(1.0)
GraceOver ==
  /\ phase = "grace"
  /\ phase' = "killing"
  /\ UNCHANGED <<nodeIdx, sessIdx, files, procs, termed, sockets, registered,
                 outcome>>

\* Faulty variant: the poll() test inverted.
KillIfExited ==
  /\ phase = "killing"
  /\ phase' = "files"
  /\ UNCHANGED <<nodeIdx, sessIdx, files, procs, termed, sockets, registered,
                 outcome>>

\* for proc in procs: if proc.poll() is None: proc.kill()
KillAll ==
  /\ phase = "killing"
  /\ procs' = [n \in Nodes |-> IF procs[n] = "running" THEN "exited" ELSE procs[n]]
  /\ phase' = "files"
  /\ UNCHANGED <<nodeIdx, sessIdx, files, termed, sockets, registered, outcome>>

\* for fh in log_files: fh.close()
CloseFiles ==
  /\ phase = "files"
  /\ files' = [n \in Nodes |-> IF files[n] = "open" THEN "closed" ELSE files[n]]
  /\ phase' = "done"
  /\ UNCHANGED <<nodeIdx, sessIdx, procs, termed, sockets, registered, outcome>>

-----------------------------------------------------------------------------
(* The server processes.                                                   *)

\* A node dies on its own, or on the SIGTERM it was sent.
ProcessExits(n) ==
  /\ procs[n] = "running"
  /\ procs' = [procs EXCEPT ![n] = "exited"]
  /\ UNCHANGED <<phase, nodeIdx, sessIdx, files, termed, sockets, registered,
                 outcome>>

Done == phase = "done" /\ UNCHANGED vars

Init ==
  /\ phase = "nodes"
  /\ nodeIdx = 1
  /\ sessIdx = 1
  /\ files = [n \in Nodes |-> "none"]
  /\ procs = [n \in Nodes |-> "none"]
  /\ termed = {}
  /\ sockets = [s \in Sessions |-> "none"]
  /\ registered = {}
  /\ outcome = "running"

Harness ==
  \/ OpenLog \/ StartNode \/ HealthOK \/ OpenSocket \/ Handshaken
  \/ Succeed \/ Raise
  \/ CloseClients \/ TermAll \/ GraceOver \/ KillAll \/ CloseFiles

Next == Harness \/ (\E n \in Nodes : ProcessExits(n)) \/ Done

\* main() is one thread that always runs on; a server may ignore SIGTERM,
\* so its exits get no fairness.
Spec == Init /\ [][Next]_vars /\ WF_vars(Harness)

-----------------------------------------------------------------------------
(* Properties.                                                             *)

\* Teardown is unconditional (spec, section 5): however far the body got
\* and wherever it raised, when main() leaves the finally block no server
\* process it started is still running and no log file is left open.
NodesReleased ==
  phase = "done" => Running = {} /\ \A n \in Nodes : files[n] # "open"

\* ... and every gateway session that was opened has been closed.
SessionsReleased ==
  phase = "done" => \A s \in Sessions : sockets[s] # "open"

\* Graceful first (spec, section 5): the kill loop of the finally block
\* (lines 1339-1344) only kills a process that the SIGTERM loop (1332-1337)
\* signalled one grace period before; a server that exited on its own in
\* between is left alone.
KillOnlyAfterTerm ==
  [][phase = "killing" /\ phase' = "files" =>
       \A n \in Nodes : procs[n] = "running" /\ procs'[n] = "exited" => n \in termed]_vars

\* main() always gets through teardown, even when a server ignores SIGTERM.
TeardownEnds == <>(phase = "done")

=============================================================================
