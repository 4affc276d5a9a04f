--------------------------- MODULE MCConversation ---------------------------
(* A team of three with the default agent in it, one sender, two rules that *)
(* tie, the first for an agent that was deleted, and one for nobody.        *)
EXTENDS Conversation

CONSTANTS default, coder, reviewer, u1

MCBindings ==
  <<[fields |-> {"channel"}, peers |-> {u1}, agent |-> default],
    [fields |-> {"channel", "account_id"}, peers |-> {u1}, agent |-> None],
    [fields |-> {"group_id"}, peers |-> {u1}, agent |-> coder],
    [fields |-> {"peer_id"}, peers |-> {}, agent |-> default]>>
=============================================================================
