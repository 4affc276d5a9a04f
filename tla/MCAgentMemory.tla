--------------------------- MODULE MCAgentMemory ---------------------------
(* Turns and facts of the AgentMemory runs.                                *)
EXTENDS AgentMemory, TLC

CONSTANTS t1, t2, t3, new, repeated

MCTurns == {t1, t2, t3}
MCFacts == {new, repeated}

\* Two turns say the same, one says something else.
MCFactOf == (t1 :> repeated) @@ (t2 :> new) @@ (t3 :> repeated)

\* The prompt leaves out what the first of them has said.
MCHeaded == {t1}
=============================================================================
