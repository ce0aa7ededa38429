--------------------------- MODULE DispatchMailbox --------------------------
(***************************************************************************)
(* What a gateway session promises its callers (spec, sections 3 and 4.1), *)
(* with no sockets, clocks or backlog: events arrive in order; a caller    *)
(* that asks for an event gets the oldest unclaimed one that it accepts,   *)
(* or waits for the next one it accepts; no event is handed out twice; a   *)
(* wait may give up at any time, but only ever starts when nothing already *)
(* received would satisfy it.                                              *)
(***************************************************************************)
EXTENDS Integers, Sequences, TLC

CONSTANTS
  Frames,       \* what the stream can deliver
  Requests,     \* what a caller can ask for
  NoWait,       \* no caller is waiting
  Accepts(_, _) \* Accepts(f, r): frame f satisfies request r

VARIABLES
  inbox,    \* every frame delivered so far, in arrival order
  claimed,  \* position in inbox |-> the request it was handed to
  waiting   \* the request a caller is blocked on, or NoWait

Unclaimed == {i \in 1..Len(inbox) : i \notin DOMAIN claimed}

\* The oldest unclaimed frame that satisfies r, if any.
OldestFor(r) ==
  {i \in Unclaimed : Accepts(inbox[i], r)
                     /\ \A j \in Unclaimed : j < i => ~Accepts(inbox[j], r)}

\* A frame arrives that the waiting caller, if any, does not accept.
Arrive(f) ==
  /\ waiting # NoWait => ~Accepts(f, waiting)
  /\ inbox' = Append(inbox, f)
  /\ UNCHANGED <<claimed, waiting>>

\* A frame arrives that the waiting caller accepts: it is handed over.
HandOver(f) ==
  /\ waiting # NoWait /\ Accepts(f, waiting)
  /\ inbox' = Append(inbox, f)
  /\ claimed' = claimed @@ (Len(inbox) + 1 :> waiting)
  /\ waiting' = NoWait

\* A caller asks for r and something already received satisfies it.
Take(r) ==
  /\ waiting = NoWait
  /\ \E i \in OldestFor(r) : claimed' = claimed @@ (i :> r)
  /\ UNCHANGED <<inbox, waiting>>

\* A caller asks for r and nothing received satisfies it: it blocks.
Await(r) ==
  /\ waiting = NoWait
  /\ OldestFor(r) = {}
  /\ waiting' = r
  /\ UNCHANGED <<inbox, claimed>>

\* The blocked caller stops waiting (deadline, broken stream).
GiveUp ==
  /\ waiting # NoWait
  /\ waiting' = NoWait
  /\ UNCHANGED <<inbox, claimed>>

Init ==
  /\ inbox = <<>>
  /\ claimed = <<>>
  /\ waiting = NoWait

Next ==
  \/ \E f \in Frames : Arrive(f) \/ HandOver(f)
  \/ \E r \in Requests : Take(r) \/ Await(r)
  \/ GiveUp

Spec == Init /\ [][Next]_<<inbox, claimed, waiting>>

=============================================================================
