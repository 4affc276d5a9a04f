--------------------------- MODULE MCSenderAccess ---------------------------
(* Symmetry of the SenderAccess run: messages are interchangeable.          *)
EXTENDS SenderAccess, TLC

MsgSymmetry == Permutations(Msgs)
=============================================================================
