----------------------------- MODULE MCSqlStores -----------------------------
(* Two sessions on tables with two keys and a few rows. *)
EXTENDS SqlStores, TLC

CONSTANTS i1, i2

Symmetry == Permutations(Sessions) \cup Permutations(Ids)
=============================================================================
