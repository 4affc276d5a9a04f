----------------------------- MODULE MCHeartbeat -----------------------------
(* An instance of Heartbeat for TLC: an agent with news for a room, one whose *)
(* runs fail and that takes its interval from the defaults, and one that is   *)
(* not asked because the others have heartbeat settings and it has none.      *)
EXTENDS Heartbeat, TLC

CONSTANTS Crier, Broken, Spare, Alarm, Note, Before

Said(text) == [ack |-> None, text |-> text]
AckAnd(text) == [ack |-> Before, text |-> text]

\* With HEARTBEAT_OK the long alarm is still an alert, the short note is not.
MCAnswers == (Crier :> {Said(Alarm), AckAnd(Alarm), AckAnd(Note), Error})
               @@ (Broken :> {Error})
MCEvery == (Crier :> 1) @@ (Broken :> 2)
MCTarget == (Crier :> "fixed") @@ (Broken :> "last")
=============================================================================
