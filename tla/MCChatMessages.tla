--------------------------- MODULE MCChatMessages ---------------------------
(* Instances of ChatMessages for TLC.                                      *)
EXTENDS ChatMessages, TLC

CONSTANTS q1, q2, c1

Symmetry == Permutations(Questions)
=============================================================================
