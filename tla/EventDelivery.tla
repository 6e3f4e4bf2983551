--------------------------- MODULE EventDelivery ---------------------------
(***************************************************************************)
(* What the agent promises for an event, without saying how: once it has   *)
(* taken the event over, whoever made it may forget it, and the event      *)
(* stays with the agent until the site service has a verdict on it.        *)
(* Only an event that was not taken over yet may be given up: a cycle of   *)
(* the agent's own (epoch 0) when it has no room or is killed, or a row of *)
(* an outbox database that MillWright has replaced.                        *)
(***************************************************************************)
EXTENDS Naturals

CONSTANT Event    \* [epoch, seq]

VARIABLES
  phase,   \* of each event: none, made, kept, final, gone
  store    \* the outbox epoch MillWright has now

vars == <<phase, store>>

Init == phase = [e \in Event |-> "none"] /\ store = 1

\* What one step may do to an event.
Move(e, p, q) == phase[e] = p /\ phase'[e] = q

Made(e)    == Move(e, "none", "made")
Taken(e)   == Move(e, "made", "kept")
Settled(e) == Move(e, "kept", "final")
GivenUp(e) ==
  /\ Move(e, "none", "gone") \/ Move(e, "made", "gone")
  /\ e.epoch # store'

Next ==
  /\ store' \in {store, store + 1}
  /\ DOMAIN phase' = Event
  /\ \A e \in Event :
       \/ phase'[e] = phase[e]
       \/ Made(e)
       \/ Taken(e)
       \/ Settled(e)
       \/ GivenUp(e)

Spec == Init /\ [][Next]_vars

\* The events the agent has taken over get their verdicts (there are finitely
\* many of them).
KeptAreSettled == []<>(\A e \in Event : phase[e] # "kept")
=============================================================================
