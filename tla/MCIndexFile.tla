----------------------------- MODULE MCIndexFile ------------------------------
(* IndexFile with a primary and a secondary index. *)
EXTENDS IndexFile

CONSTANTS primary, secondary

MCNames == {primary, secondary}
=============================================================================
