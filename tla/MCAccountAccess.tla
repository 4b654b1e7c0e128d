--------------------------- MODULE MCAccountAccess ---------------------------
(* The HTTP requests at work on an account are interchangeable. *)
EXTENDS AccountAccess, TLC

SlotSymmetry == Permutations(Slots)
=============================================================================
