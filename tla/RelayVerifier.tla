---------------------------- MODULE RelayVerifier ----------------------------
(***************************************************************************)
(* The relay-topology scenario of scripts/federation_e2e_validation.py     *)
(* (Strict = TRUE, stages 5-9) and of scripts/federation_live_fundamentals *)
(* _validation.py (Strict = FALSE, stages 6, 9 and 14): the harness links  *)
(* trust between nodes a, b and c, then drives a message through its life  *)
(* on a (create, edit, react, unreact, and in the e2e script a member join *)
(* and leave, then delete).  After each operation it waits until b and    *)
(* then c show its effect in their stores.  After the create it also reads *)
(* three ledger counts, one query at a time.  At the end it reads a's      *)
(* trusted peers.                                                          *)
(*                                                                         *)
(* The servers are the environment.  A node that has ingested an event     *)
(* sends it to each peer it trusts, writing the delivery-attempt row as it *)
(* sends.  A delivery is lost, or is ingested and applied in arrival order *)
(* by a receiver that trusts the sender; an event is ingested once.  With  *)
(* discovery on (add_trusted_peer sends discover: True and the node config *)
(* sets allow_discovery = true) a node may come to trust a peer of its     *)
(* peer.  The servers run from the first event until the verdict.          *)
(***************************************************************************)
EXTENDS Integers, Sequences, FiniteSets

CONSTANT Strict   \* TRUE: the e2e script's checks; FALSE: the live script's

Nodes == {"a", "b", "c"}
Replicas == {"b", "c"}
None == "none"

\* Faulty variant: the last call links c to itself.
TrustLinksSelfTypo ==
  << <<"a", "b">>, <<"b", "a">>, <<"b", "c">>, <<"c", "b">>, <<"c", "c">> >>

\* The five add_trusted_peer calls, in the order the scripts make them.
TrustLinks ==
  << <<"a", "b">>, <<"b", "a">>, <<"b", "c">>, <<"c", "b">>, <<"c", "a">> >>

\* The operations the harness performs on a, in order.
E2eOps == <<"create", "edit", "react", "unreact", "join", "leave", "delete">>
LiveOps == <<"create", "edit", "react", "unreact", "delete">>
Ops == IF Strict THEN E2eOps ELSE LiveOps
Events == 1..Len(Ops)     \* event e is the one operation Ops[e] emits

\* What the State Inspector can see of the a-origin message and the guest
\* on one replica: the local message row (content "v1", edited "v2",
\* deleted "gone"), its federation_message_map row, the reaction row, the
\* federation_remote_users row and the guild membership.
Stores == [msg: {"none", "v1", "v2", "gone"}, mapped: BOOLEAN,
           react: BOOLEAN, user: BOOLEAN, member: BOOLEAN]
Empty == [msg |-> "none", mapped |-> FALSE, react |-> FALSE,
          user |-> FALSE, member |-> FALSE]

VARIABLES
  stage,      \* where the scenario is
  op,         \* the operation in progress (index into Ops)
  linked,     \* how many add_trusted_peer calls have returned 201
  trust,      \* <<n, m>>: n has m as a trusted federated server
  holders,    \* event |-> nodes that have ingested it
  viaC,       \* the node c ingested the create event from (None before)
  directToC,  \* history: c has ingested some event straight from a
  store,      \* replica |-> what its store holds
  sent,       \* <<n, m>>: n has sent the create event to m (its attempt rows)
  inflight,   \* deliveries sent and not yet answered
  seen,       \* history: <<e, n>> whose convergence wait returned
  aToC,       \* a_to_c > 0, as read
  bToC,       \* b_to_c > 0, as read
  cHas        \* c_has_event > 0, as read

vars == <<stage, op, linked, trust, holders, viaC, directToC, store, sent, inflight,
          seen, aToC, bToC, cHas>>

Stages == {"linking", "acting", "waitB", "waitC", "readA", "readB", "readC",
           "trustCheck", "passed", "failed"}

\* The servers run from the create until the scenario's verdict.
Live == holders[1] # {} /\ stage \notin {"passed", "failed"}

PeersOf(n) == {m \in Nodes : <<n, m>> \in trust}

-----------------------------------------------------------------------------
(* The State Inspector queries, over one replica's store.                  *)

\* mapped_message_content: the map row joined to a live message row.
MappedContent(r) == IF r.mapped /\ r.msg \in {"v1", "v2"} THEN r.msg ELSE None

\* mapped_message_absent: no map row, or no message row behind it.
MappedMessageAbsent(r) == MappedContent(r) = None

\* e2e message_present: a message of that content in the channel, mapped
\* or not.
MessagePresent(r, content) == r.msg = content

\* reaction_count: reaction rows joined to the map row.
ReactionCount(r) == IF r.mapped /\ r.react THEN 1 ELSE 0

\* remote_member_present / remote_member_absent: both False without a
\* federation_remote_users row.
RemoteMemberPresent(r) == r.user /\ r.member
RemoteMemberAbsent(r) == r.user /\ ~r.member

\* Faulty variant: "reaction add" waits for a count >= 0.
ReactionAddedAnyCount(r) == ReactionCount(r) >= 0

\* The wait_until condition of "reaction add on B/C".
ReactionAdded(r) == ReactionCount(r) > 0

\* The wait_until condition the harness polls after operation o.
Converged(o, r) ==
  CASE o = "create"  -> IF Strict THEN MessagePresent(r, "v1")
                                  ELSE MappedContent(r) = "v1"
    [] o = "edit"    -> MappedContent(r) = "v2"
    [] o = "react"   -> ReactionAdded(r)
    [] o = "unreact" -> ReactionCount(r) = 0
    [] o = "join"    -> RemoteMemberPresent(r)
    [] o = "leave"   -> RemoteMemberAbsent(r)
    [] o = "delete"  -> MappedMessageAbsent(r)

-----------------------------------------------------------------------------
(* The verdicts, as operators over what was read.                          *)

\* Live script: C ingested, and some attempt to C from A or B.
WeakRelayOK(sawAC, sawBC, sawC) == sawC /\ (sawAC \/ sawBC)

\* E2e script: no attempt A->C, an attempt B->C, and C ingested.
StrictRelayOK(sawAC, sawBC, sawC) == ~sawAC /\ sawBC /\ sawC

RelayOK(sawAC, sawBC, sawC) ==
  IF Strict THEN StrictRelayOK(sawAC, sawBC, sawC)
            ELSE WeakRelayOK(sawAC, sawBC, sawC)

\* Live script: b is among a's trusted peers.
WeakTrustOK(peers) == "b" \in peers

\* E2e script: a's trusted peers are exactly [b].
StrictTrustOK(peers) == peers = {"b"}

TrustOK(peers) == IF Strict THEN StrictTrustOK(peers) ELSE WeakTrustOK(peers)

-----------------------------------------------------------------------------
(* The harness.                                                            *)

\* add_trusted_peer(...) returns 201.
LinkNext ==
  /\ stage = "linking"
  /\ trust' = trust \cup {TrustLinks[linked + 1]}
  /\ linked' = linked + 1
  /\ stage' = IF linked + 1 = Len(TrustLinks) THEN "acting" ELSE "linking"
  /\ UNCHANGED <<op, holders, viaC, directToC, store, sent, inflight, seen,
                 aToC, bToC, cHas>>

\* add_trusted_peer raises on an unexpected status.
LinkFails ==
  /\ stage = "linking"
  /\ stage' = "failed"
  /\ UNCHANGED <<op, linked, trust, holders, viaC, directToC, store, sent, inflight,
                 seen, aToC, bToC, cHas>>

\* The request of the current operation on a returns its expected status
\* (and, in the live script, guest1_ws sees its dispatch): a has the event.
Act ==
  /\ stage = "acting"
  /\ holders' = [holders EXCEPT ![op] = {"a"}]
  /\ stage' = "waitB"
  /\ UNCHANGED <<op, linked, trust, viaC, directToC, store, sent, inflight, seen,
                 aToC, bToC, cHas>>

\* ... or the request, or the live script's dispatch wait, raises.
ActFails ==
  /\ stage = "acting"
  /\ stage' = "failed"
  /\ UNCHANGED <<op, linked, trust, holders, viaC, directToC, store, sent, inflight,
                 seen, aToC, bToC, cHas>>

\* On to the next operation, or to the final assertions after the last.
NextOp ==
  IF op = Len(Ops) THEN stage' = "trustCheck" /\ op' = op
                   ELSE stage' = "acting" /\ op' = op + 1

\* wait_until("... on B" / "... on C") sees the operation's effect on n.
WaitSees(n, from) ==
  /\ stage = from /\ Converged(Ops[op], store[n])
  /\ seen' = seen \cup {<<op, n>>}
  /\ IF n = "b" THEN stage' = "waitC" /\ op' = op
     ELSE IF op = 1 THEN stage' = "readA" /\ op' = op
     ELSE NextOp
  /\ UNCHANGED <<linked, trust, holders, viaC, directToC, store, sent, inflight,
                 aToC, bToC, cHas>>

\* ... or raises TimeoutError.
WaitTimesOut ==
  /\ stage \in {"waitB", "waitC"}
  /\ stage' = "failed"
  /\ UNCHANGED <<op, linked, trust, holders, viaC, directToC, store, sent, inflight,
                 seen, aToC, bToC, cHas>>

\* The three COUNT(*) queries after the create, one after another.
ReadAtoC ==
  /\ stage = "readA"
  /\ aToC' = (<<"a", "c">> \in sent)
  /\ stage' = "readB"
  /\ UNCHANGED <<op, linked, trust, holders, viaC, directToC, store, sent, inflight,
                 seen, bToC, cHas>>

ReadBtoC ==
  /\ stage = "readB"
  /\ bToC' = (<<"b", "c">> \in sent)
  /\ stage' = "readC"
  /\ UNCHANGED <<op, linked, trust, holders, viaC, directToC, store, sent, inflight,
                 seen, aToC, cHas>>

\* The last query, then the AssertionErrors of the relay check.
ReadCAndJudge ==
  /\ stage = "readC"
  /\ cHas' = ("c" \in holders[1])
  /\ IF RelayOK(aToC, bToC, "c" \in holders[1]) THEN NextOp
                                                 ELSE stage' = "failed" /\ op' = op
  /\ UNCHANGED <<linked, trust, holders, viaC, directToC, store, sent, inflight,
                 seen, aToC, bToC>>

\* Final assertions: a's trusted federated_servers rows.
FinalTrustCheck ==
  /\ stage = "trustCheck"
  /\ stage' = IF TrustOK(PeersOf("a")) THEN "passed" ELSE "failed"
  /\ UNCHANGED <<op, linked, trust, holders, viaC, directToC, store, sent, inflight,
                 seen, aToC, bToC, cHas>>

-----------------------------------------------------------------------------
(* The servers.                                                            *)

\* The stores a replica may hold after it applies operation o to store r.
\* An operation on a message it does not hold changes nothing; a delete
\* may or may not drop the map row along with the message row.
Effects(r, o) ==
  LET held == r.msg \in {"v1", "v2"} IN
  CASE o = "create"  -> IF r.msg = "none" THEN {[r EXCEPT !.msg = "v1", !.mapped = TRUE]}
                                          ELSE {r}
    [] o = "edit"    -> IF held THEN {[r EXCEPT !.msg = "v2"]} ELSE {r}
    [] o = "react"   -> IF held THEN {[r EXCEPT !.react = TRUE]} ELSE {r}
    [] o = "unreact" -> {[r EXCEPT !.react = FALSE]}
    [] o = "join"    -> {[r EXCEPT !.user = TRUE, !.member = TRUE]}
    [] o = "leave"   -> {[r EXCEPT !.member = FALSE]}
    [] o = "delete"  -> IF held THEN {[r EXCEPT !.msg = "gone"],
                                      [r EXCEPT !.msg = "gone", !.mapped = FALSE]}
                                ELSE {r}

\* m ingests event e from n and applies it: to the stores, a replica that
\* already holds e changes nothing.
Ingest(e, n, m) ==
  /\ holders' = [holders EXCEPT ![e] = @ \cup {m}]
  /\ viaC' = IF m = "c" /\ e = 1 THEN n ELSE viaC
  /\ directToC' = (directToC \/ (m = "c" /\ n = "a"))
  /\ store' \in [Replicas -> Stores]
  /\ \A x \in Replicas \ {m} : store'[x] = store[x]
  /\ m \in Replicas => store'[m] \in Effects(store[m], Ops[e])

\* n pushes the create event to a trusted peer m, recording the attempt.
Send(n, m) ==
  /\ Live /\ n \in holders[1] /\ <<n, m>> \in trust
  /\ <<n, m>> \notin sent
  /\ sent' = sent \cup {<<n, m>>}
  /\ inflight' = inflight \cup {<<n, m>>}
  /\ UNCHANGED <<stage, op, linked, trust, holders, viaC, directToC, store, seen,
                 aToC, bToC, cHas>>

\* m receives n's delivery; it ingests it only from a peer it trusts, and
\* only once.
Deliver(n, m) ==
  /\ Live /\ <<n, m>> \in inflight
  /\ inflight' = inflight \ {<<n, m>>}
  /\ IF <<m, n>> \in trust /\ m \notin holders[1]
       THEN Ingest(1, n, m)
       ELSE UNCHANGED <<holders, viaC, directToC, store>>
  /\ UNCHANGED <<stage, op, linked, trust, sent, seen, aToC, bToC, cHas>>

\* The delivery fails on the wire.
Lose(n, m) ==
  /\ Live /\ <<n, m>> \in inflight
  /\ inflight' = inflight \ {<<n, m>>}
  /\ UNCHANGED <<stage, op, linked, trust, holders, viaC, directToC, store, sent,
                 seen, aToC, bToC, cHas>>

\* A later event, whose attempt rows nobody reads, in one step: n, which
\* holds e, sends it to m over a trust edge both ways and m ingests it.  A
\* lost delivery is one that never happens; a late one happens after the
\* harness has moved on.
Propagate(e, n, m) ==
  /\ Live /\ e > 1 /\ n \in holders[e] /\ m \notin holders[e]
  /\ <<n, m>> \in trust /\ <<m, n>> \in trust
  /\ Ingest(e, n, m)
  /\ UNCHANGED <<stage, op, linked, trust, sent, inflight, seen,
                 aToC, bToC, cHas>>

\* n learns m from a trusted peer's peer list and trusts it.
Discover(n, m) ==
  /\ Live /\ n # m /\ <<n, m>> \notin trust
  /\ \E p \in PeersOf(n) : <<p, m>> \in trust
  /\ trust' = trust \cup {<<n, m>>}
  /\ UNCHANGED <<stage, op, linked, holders, viaC, directToC, store, sent, inflight,
                 seen, aToC, bToC, cHas>>

Ended == stage \in {"passed", "failed"} /\ UNCHANGED vars

Init ==
  /\ stage = "linking"
  /\ op = 1
  /\ linked = 0
  /\ trust = {}
  /\ holders = [e \in Events |-> {}]
  /\ viaC = None
  /\ directToC = FALSE
  /\ store = [n \in Replicas |-> Empty]
  /\ sent = {}
  /\ inflight = {}
  /\ seen = {}
  /\ aToC = FALSE /\ bToC = FALSE /\ cHas = FALSE

Next ==
  \/ LinkNext \/ LinkFails \/ Act \/ ActFails
  \/ WaitSees("b", "waitB") \/ WaitSees("c", "waitC") \/ WaitTimesOut
  \/ ReadAtoC \/ ReadBtoC \/ ReadCAndJudge \/ FinalTrustCheck
  \/ \E n, m \in Nodes : Send(n, m) \/ Deliver(n, m) \/ Lose(n, m)
                         \/ Discover(n, m)
  \/ \E e \in Events, n, m \in Nodes : Propagate(e, n, m)
  \/ Ended

Spec == Init /\ [][Next]_vars

-----------------------------------------------------------------------------
(* Properties.                                                             *)

TypeOK ==
  /\ stage \in Stages
  /\ op \in Events
  /\ linked \in 0..Len(TrustLinks)
  /\ trust \subseteq {l \in Nodes \X Nodes : l[1] # l[2]}
  /\ holders \in [Events -> SUBSET Nodes]
  /\ viaC \in Nodes \cup {None}
  /\ directToC \in BOOLEAN
  /\ store \in [Replicas -> Stores]
  /\ inflight \subseteq sent
  /\ seen \subseteq Events \X Replicas
  /\ {aToC, bToC, cHas} \subseteq BOOLEAN

\* The relay check has passed once the scenario is past the create.
RelayJudged == op > 1 \/ stage \in {"trustCheck", "passed"}

\* Relay-proof soundness (spec, sections 4.4 and 8): when the relay check
\* of the scenario passes, c's copy of the a-origin event really came
\* through b, not over a direct a->c delivery.
RelayProofSound == RelayJudged => viaC = "b"

\* What a passing run reports (e2e line 534: "C still received A-origin
\* events via B"; live line 6: "A -> B -> C, no direct A -> C"): every
\* a-origin event of the scenario, not only the create whose ledger rows
\* the relay check reads, reached c through b.  Discovery may give a a
\* direct route to c at any time; only the final trusted-peer check can
\* tell that it did.
RelayedThroughout ==
  stage = "passed" => ~directToC

\* Durable convergence (spec, section 4.4): every wait_until on a replica's
\* store that returns witnesses that the replica ingested that operation's
\* event.  The absence checks (reaction_count == 0, remote_member_absent,
\* mapped_message_absent, which is True when no map row ever existed) hold
\* on a store that never saw the event too; they witness it only because
\* the presence checks before them already did.
ReplicationWitnessed ==
  \A <<e, n>> \in seen : n \in holders[e]

=============================================================================
