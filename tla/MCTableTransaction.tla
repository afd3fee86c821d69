------------------------- MODULE MCTableTransaction -------------------------
(* TableTransaction on two or three keys. *)
EXTENDS TableTransaction, TLC

ValueSymmetry == Permutations(Keys) \cup Permutations(UValues) \cup Permutations(SValues)
=============================================================================
