---------------------------- MODULE MCRunExecution ----------------------------
(* Instances of RunExecution for TLC: a run with the output of either CLI, and *)
(* a short one beside it that competes for the buffer.                         *)
EXTENDS RunExecution, TLC

CONSTANTS r1, r2

Both == {"codex", "claude"}
MCProviders == [r \in Runs |-> IF r = r1 THEN Both ELSE {"codex"}]
MCLines == [r \in Runs |-> IF r = r1 THEN 3 ELSE 0]
MCBlocks == [r \in Runs |-> IF r = r1 THEN 1 ELSE 0]
=============================================================================
