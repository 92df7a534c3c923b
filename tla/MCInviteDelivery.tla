--------------------------- MODULE MCInviteDelivery ---------------------------
(* A small instance of InviteDelivery for TLC.                              *)
EXTENDS InviteDelivery, TLC

MCSymmetry == Permutations(Workers) \cup Permutations(Invites) \cup Permutations(Requests)
===============================================================================
