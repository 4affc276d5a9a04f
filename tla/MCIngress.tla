----------------------------- MODULE MCIngress -----------------------------
(***************************************************************************)
(* Ingress with three messages: all modes, one message announced twice,    *)
(* one with an attachment, and one of a sender who is not let in.          *)
(***************************************************************************)
EXTENDS Ingress

AllModes == {"socket", "poll", "telegram", "discord"}
MCAllowed == {1, 2}
MCMentions == {1, 3}
MCAttached == {2}

=============================================================================
