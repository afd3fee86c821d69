------------------------------- MODULE MCSchema -------------------------------
(* Schema with two tables. *)
EXTENDS Schema

CONSTANTS t1, t2

MCTables == {t1, t2}

MCSymmetry == Permutations(MCTables)
=============================================================================
