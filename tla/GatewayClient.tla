--------------------------- MODULE GatewayClient ---------------------------
(***************************************************************************)
(* One gateway session of class GatewayClient                              *)
(* (scripts/federation_live_fundamentals_validation.py, lines 402-548):    *)
(* the HELLO / IDENTIFY / READY handshake of connect(), wait_dispatch()    *)
(* with its backlog of unclaimed dispatch events, the heartbeat that       *)
(* _maybe_heartbeat() piggybacks on every read, and close().               *)
(*                                                                         *)
(* Time is counted in ticks of 0.1 s.  Absolute clocks are replaced by two *)
(* relative ones: sinceHb = now - last_heartbeat_at and remaining =        *)
(* deadline - now of the blocking call in progress.  The server is the     *)
(* environment: it chooses which frame arrives in each read and when, and  *)
(* may drop a connection whose heartbeat is overdue.                       *)
(***************************************************************************)
EXTENDS Integers, Sequences, SequencesExt, FiniteSets

CONSTANTS
  EventTypes,          \* dispatch names "t" the server pushes besides READY
  Payloads,            \* dict payloads "d", as far as callers' predicates tell them apart
  NonDict,             \* a "d" that is not a dict (never matches, line 515 / 541)
  Absent,              \* HELLO without d.heartbeat_interval (line 423-425)
  HelloIntervalsMs,    \* heartbeat_interval values a HELLO may carry, in ms
  DefaultHeartbeatMs,  \* 41250 in the code (line 408 and 423)
  HelloTimeout,        \* _recv_json_blocking(12.0) in connect(), in ticks
  ReadyTimeout,        \* wait_dispatch("READY", timeout_s=25.0), in ticks
  WaitTimeouts,        \* timeout_s values callers pass to wait_dispatch, in ticks
  MaxIdle,             \* longest a caller works between two calls, in ticks
  MaxEvents            \* bound on frames the server pushes after HELLO

ASSUME /\ HelloIntervalsMs \subseteq Int
       /\ DefaultHeartbeatMs \in Nat
       /\ {HelloTimeout, ReadyTimeout, MaxIdle, MaxEvents} \subseteq Nat \ {0}
       /\ WaitTimeouts \subseteq Nat \ {0}
       /\ NonDict \notin Payloads

VARIABLES
  pc,          \* where the session is: connect, a wait, or between calls
  ws,          \* self.ws: "none", "open", or "broken" (closed by the server)
  interval,    \* self.heartbeat_interval_s, in ticks
  advertised,  \* the interval the server's HELLO announced, in ticks
  sinceHb,     \* now - self.last_heartbeat_at, capped at HbCap
  remaining,   \* deadline - now of the blocking call in progress
  want,        \* event_type and predicate of the wait_dispatch in progress
  backlog,     \* self.backlog, as positions in arrived
  arrived,     \* history: every frame received after HELLO, in order
  claims,      \* history: position of each returned event |-> the want it satisfied
  firstFrame,  \* history: op of the first frame the client sent (0 = none yet)
  worked       \* the caller has done its work since the last call returned

vars == <<pc, ws, interval, advertised, sinceHb, remaining, want, backlog,
          arrived, claims, firstFrame, worked>>

-----------------------------------------------------------------------------
(* Frames and their matching.                                              *)

ReadyType == "READY"

\* A dispatch frame (op 0), and one frame with another op, which wait_dispatch
\* drops (line 535) whatever the op: it stands for the heartbeat ACK (11) as
\* for the server's reconnect (7) and invalid-session (9) frames.
DispatchFrames == [op: {0}, t: EventTypes \cup {ReadyType}, d: Payloads \cup {NonDict}]
AckFrame == [op |-> 11, t |-> "", d |-> NonDict]
ServerFrames == DispatchFrames \cup {AckFrame}

\* The first JSON dict of the stream: a HELLO (op 10) or anything else.
HelloFrames == [op: {10}, hb: HelloIntervalsMs \cup {Absent}]
               \cup [op: {0, 11}, hb: {Absent}]

\* A wait: event_type and the set of payloads its predicate accepts
\* (predicate None accepts every dict: Payloads).
Wants == [t: EventTypes, p: SUBSET Payloads \ {{}}]
ReadyWant == [t |-> ReadyType, p |-> Payloads]

\* _find_in_backlog / wait_dispatch: op 0, same type, dict payload, predicate.
Matches(f, w) == f.op = 0 /\ f.t = w.t /\ f.d \in w.p

\* interval_ms / 1000.0 seconds, in ticks (the default when d has none).
AdvertisedTicks(h) ==
  (IF h.hb = Absent THEN DefaultHeartbeatMs ELSE h.hb) \div 100

\* max(1.0, float(interval_ms) / 1000.0): never below one second.
IntervalTicks(h) == Max({10, AdvertisedTicks(h)})

HbCap == Max({IntervalTicks(h) : h \in HelloFrames}) + 1

PollTimeout == 5                              \* _poll_once(0.5)
HelloWindow(r) == Min({7, r})                 \* settimeout(min(0.7, remaining))

-----------------------------------------------------------------------------
(* _maybe_heartbeat (lines 495-504), run at the start of every read.       *)

\* now - last_heartbeat_at >= heartbeat_interval_s * 0.9
HeartbeatDue == 10 * sinceHb >= 9 * interval

\* send() succeeds only on an open socket; a failed send is swallowed and
\* last_heartbeat_at is left alone.
HeartbeatSent == ws = "open" /\ HeartbeatDue

\* A read that starts now and returns after d ticks.
ReadFor(d) ==
  /\ sinceHb' = Min({HbCap, IF HeartbeatSent THEN d ELSE sinceHb + d})
  /\ firstFrame' = IF HeartbeatSent /\ firstFrame = 0 THEN 1 ELSE firstFrame

-----------------------------------------------------------------------------
(* connect() (lines 412-431).                                              *)

\* websocket.create_connection: succeeds, or raises out of connect().
Connect ==
  /\ pc = "init"
  /\ \/ /\ ws' = "open"
        /\ pc' = "hello"
        /\ remaining' = HelloTimeout
     \/ /\ pc' = "failed"
        /\ UNCHANGED <<ws, remaining>>
  /\ UNCHANGED <<interval, advertised, sinceHb, want, backlog, arrived, claims,
                 firstFrame, worked>>

\* One iteration of _recv_json_blocking waiting for HELLO that times out.
HelloReadTimeout ==
  /\ pc = "hello" /\ ws = "open" /\ remaining > 0
  /\ ReadFor(HelloWindow(remaining))
  /\ remaining' = remaining - HelloWindow(remaining)
  /\ UNCHANGED <<pc, ws, interval, advertised, want, backlog, arrived, claims, worked>>

\* The first dict arrives after d ticks.  Not op 10: RuntimeError.  HELLO:
\* take the interval, reset last_heartbeat_at, send IDENTIFY (op 2), then
\* wait_dispatch("READY") on the still empty backlog.
HelloReceived ==
  /\ pc = "hello" /\ ws = "open" /\ remaining > 0
  /\ \E h \in HelloFrames, d \in 0..HelloWindow(remaining) :
       IF h.op # 10
       THEN /\ ReadFor(d)
            /\ pc' = "failed"
            /\ UNCHANGED <<interval, advertised, remaining, want>>
       ELSE /\ interval' = IntervalTicks(h)
            /\ advertised' = AdvertisedTicks(h)
            /\ sinceHb' = 0
            /\ firstFrame' = IF firstFrame # 0 THEN firstFrame
                             ELSE IF HeartbeatSent THEN 1 ELSE 2
            /\ pc' = "wait"
            /\ want' = ReadyWant
            /\ remaining' = ReadyTimeout
  /\ UNCHANGED <<ws, backlog, arrived, claims, worked>>

\* _recv_json_blocking runs out of time: TimeoutError out of connect().
HelloTimedOut ==
  /\ pc = "hello" /\ remaining = 0
  /\ pc' = "failed"
  /\ UNCHANGED <<ws, interval, advertised, sinceHb, remaining, want, backlog, arrived,
                 claims, firstFrame, worked>>

-----------------------------------------------------------------------------
(* wait_dispatch (lines 519-548) and _poll_once (lines 472-493).           *)

\* Faulty variant: the scan returns the newest match instead of the oldest.
LastMatch(w) == SelectLastInSeq(backlog, LAMBDA id : Matches(arrived[id], w))

\* _find_in_backlog: index of the oldest backlog entry that w accepts, or 0.
FirstMatch(w) == SelectInSeq(backlog, LAMBDA id : Matches(arrived[id], w))

\* The backlog scan finds a match: the oldest one is popped and returned.
ClaimFromBacklog(w) ==
  LET i == FirstMatch(w)
  IN  /\ pc = "idle"
      /\ i # 0
      /\ claims' = claims @@ (backlog[i] :> w)
      /\ backlog' = RemoveAt(backlog, i)
      /\ worked' = FALSE
      /\ UNCHANGED <<pc, ws, interval, advertised, sinceHb, remaining, want, arrived,
                     firstFrame>>

\* No match in the backlog: enter the receive loop with a fresh deadline.
StartPolling(w, to) ==
  /\ pc = "idle"
  /\ FirstMatch(w) = 0
  /\ pc' = "wait"
  /\ want' = w
  /\ remaining' = to
  /\ worked' = FALSE
  /\ UNCHANGED <<ws, interval, advertised, sinceHb, backlog, arrived, claims,
                 firstFrame>>

\* Faulty variant: the deadline taken afresh on every iteration, as if
\* deadline = time.monotonic() + timeout_s stood inside the while loop.
PollTimedOutFreshDeadline ==
  /\ pc = "wait" /\ ws = "open" /\ remaining > 0
  /\ ReadFor(PollTimeout)
  /\ UNCHANGED <<pc, ws, interval, advertised, remaining, want, backlog, arrived,
                 claims, worked>>

\* A read times out (or yields nothing usable): loop again.
PollTimedOut ==
  /\ pc = "wait" /\ ws = "open" /\ remaining > 0
  /\ ReadFor(PollTimeout)
  /\ remaining' = Max({0, remaining - PollTimeout})
  /\ UNCHANGED <<pc, ws, interval, advertised, want, backlog, arrived, claims, worked>>

\* The position the next received frame takes in arrived.
NextId == Len(arrived) + 1

\* Faulty variant: unmatched events are discarded, as a naive reader would.
RetainNothing(f, id) == backlog

\* An unmatched frame: a dispatch joins the backlog, any other op is dropped.
Retain(f, id) == IF f.op = 0 THEN Append(backlog, id) ELSE backlog

\* A frame arrives after d ticks: a match is returned, anything else goes to
\* Retain.
PollReceived ==
  /\ pc = "wait" /\ ws = "open" /\ remaining > 0
  /\ Len(arrived) < MaxEvents
  /\ \E f \in ServerFrames, d \in 0..PollTimeout :
       LET id == NextId IN
       /\ ReadFor(d)
       /\ remaining' = Max({0, remaining - d})
       /\ arrived' = Append(arrived, f)
       /\ IF Matches(f, want)
          THEN /\ pc' = "idle"
               /\ claims' = claims @@ (id :> want)
               /\ UNCHANGED backlog
          ELSE /\ backlog' = Retain(f, id)
               /\ UNCHANGED <<pc, claims>>
  /\ UNCHANGED <<ws, interval, advertised, want, worked>>

\* recv on a socket the server closed: RuntimeError, in any read loop.
ReadOnClosed ==
  /\ pc \in {"hello", "wait"} /\ ws = "broken"
  /\ pc' = "failed"
  /\ UNCHANGED <<ws, interval, advertised, sinceHb, remaining, want, backlog, arrived,
                 claims, firstFrame, worked>>

\* The loop's deadline passes: TimeoutError.
WaitTimedOut ==
  /\ pc = "wait" /\ remaining = 0
  /\ pc' = "timedout"
  /\ UNCHANGED <<ws, interval, advertised, sinceHb, remaining, want, backlog, arrived,
                 claims, firstFrame, worked>>

-----------------------------------------------------------------------------
(* The caller between calls, close(), and the server.                      *)

\* Between two calls the caller does other work (HTTP requests, database
\* polls) for d ticks; nothing reads the socket, so no heartbeat is sent.
CallerWorks(d) ==
  /\ pc = "idle" /\ ~worked
  /\ sinceHb' = Min({HbCap, sinceHb + d})
  /\ worked' = TRUE
  /\ UNCHANGED <<pc, ws, interval, advertised, remaining, want, backlog, arrived, claims,
                 firstFrame>>

\* close() (lines 433-439): never raises, drops the socket.
Close ==
  /\ pc \in {"idle", "timedout", "failed"}
  /\ pc' = "closed"
  /\ ws' = "none"
  /\ UNCHANGED <<interval, advertised, sinceHb, remaining, want, backlog, arrived, claims,
                 firstFrame, worked>>

\* The server closes a session whose heartbeat is overdue.
ServerDrops ==
  /\ ws = "open" /\ sinceHb > advertised
  /\ ws' = "broken"
  /\ UNCHANGED <<pc, interval, advertised, sinceHb, remaining, want, backlog, arrived,
                 claims, firstFrame, worked>>

Closed == pc = "closed" /\ UNCHANGED vars

-----------------------------------------------------------------------------

Init ==
  /\ pc = "init"
  /\ ws = "none"
  /\ interval = IntervalTicks([hb |-> Absent])   \* 41.25 s until HELLO
  /\ advertised = AdvertisedTicks([hb |-> Absent])
  /\ sinceHb \in 0..HbCap          \* time.monotonic() - 0.0: any reading
  /\ remaining = 0
  /\ want = ReadyWant
  /\ backlog = <<>>
  /\ arrived = <<>>
  /\ claims = <<>>
  /\ firstFrame = 0
  /\ worked = FALSE

\* The session's own read loops.
ClientSteps ==
  \/ HelloReadTimeout \/ HelloReceived \/ HelloTimedOut
  \/ PollTimedOut \/ PollReceived \/ ReadOnClosed \/ WaitTimedOut

Next ==
  \/ Connect
  \/ ClientSteps
  \/ \E w \in Wants : ClaimFromBacklog(w)
  \/ \E w \in Wants, to \in WaitTimeouts : StartPolling(w, to)
  \/ \E d \in 1..MaxIdle : CallerWorks(d)
  \/ Close
  \/ ServerDrops
  \/ Closed

\* A blocked read always returns (recv has a timeout), so the loops are
\* weakly fair; the caller and the server are not.
Spec == Init /\ [][Next]_vars /\ WF_vars(ClientSteps)

-----------------------------------------------------------------------------
(* Properties.                                                             *)

\* Backlog correctness (wait_dispatch, _find_in_backlog): every dispatch
\* event received is either returned to exactly one caller or still waiting
\* in the backlog, never both and never neither; the backlog keeps arrival
\* order without duplicates and holds nothing but dispatch events.
ClaimsConserved ==
  /\ \A i \in 1..Len(arrived) :
       arrived[i].op = 0 => ((i \in DOMAIN claims) # (i \in ToSet(backlog)))
  /\ \A i \in DOMAIN claims \cup ToSet(backlog) : arrived[i].op = 0
  /\ IsSorted(backlog, <)

\* The session implements the mailbox of DispatchMailbox: each
\* wait_dispatch gets the oldest received, unclaimed event it accepts,
\* blocks only when there is none (so a TimeoutError never leaves an
\* acceptable event behind in the backlog), and no event is returned twice.
NoWait == [t |-> "", p |-> {}]

Mailbox == INSTANCE DispatchMailbox
             WITH Frames <- ServerFrames,
                  Requests <- Wants \cup {ReadyWant},
                  Accepts <- Matches,
                  inbox <- arrived,
                  claimed <- claims,
                  waiting <- IF pc = "wait" THEN want ELSE NoWait

ImplementsMailbox == Mailbox!Spec

\* Every blocking read loop (the HELLO wait and every wait_dispatch,
\* including the READY wait) ends: it returns or raises.
LoopsEnd == (pc \in {"hello", "wait"}) ~> (pc \notin {"hello", "wait"})

\* Keepalive (spec, section 8): while the session is open and the caller
\* keeps calling more often than the interval, no more than the interval
\* the server's HELLO negotiated passes without a heartbeat.  It is the
\* server's interval, not the client's clamped copy (line 427), that decides
\* when the server drops the session.
KeepaliveWithinInterval ==
  (ws = "open" /\ pc \in {"idle", "wait"}) => sinceHb <= advertised

\* Handshake order (spec, section 4.1): the first frame the client sends
\* is IDENTIFY, right after the HELLO greeting.
IdentifyFirst == firstFrame \in {0, 2}

=============================================================================
