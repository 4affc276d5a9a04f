---------------------------- MODULE AtomicStore ----------------------------
(***************************************************************************)
(* What the callers of StateStore rely on: an update that returns Ok took  *)
(* effect on the shared content in one step, and an update that returns an *)
(* error had no effect.                                                    *)
(***************************************************************************)
EXTENDS StoreOps

VARIABLES
  content,    \* what every reader sees
  completed   \* the updates that returned Ok

Init ==
  /\ content = EmptySnapshot
  /\ completed = {}

Update(o) ==
  /\ Applies(o, content)
  /\ content' = Effect(o, content)
  /\ completed' = completed \cup {o}

Next == \E o \in Op : Update(o)

Spec == Init /\ [][Next]_<<content, completed>>
=============================================================================
