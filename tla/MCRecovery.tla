------------------------------ MODULE MCRecovery ------------------------------
(* Recovery on small instances. *)
EXTENDS Recovery

ValueSymmetry == Permutations(Values)
DataSymmetry == Permutations(Keys) \cup Permutations(Values)
=============================================================================
