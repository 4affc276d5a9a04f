---------------------------- MODULE MCConfigAdmin ----------------------------
(* An instance of ConfigAdmin for TLC: a default team that new agents join. *)
EXTENDS ConfigAdmin, TLC

CONSTANT Other

MCInstalled ==
  [agents |-> {Default, Other}, team |-> [members |-> {Default}, leader |-> Default],
   autojoin |-> TRUE, bindings |-> <<Other>>, beats |-> TRUE, token |-> "set",
   holds |-> {}]
Symmetry == Permutations(Requests)
=============================================================================
