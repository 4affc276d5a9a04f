-------------------------- MODULE MCQueueProcessor --------------------------
(* Instances of QueueProcessor for TLC. *)
EXTENDS QueueProcessor, TLC

Symmetry == Permutations(Msgs) \cup Permutations(Agents)
=============================================================================
