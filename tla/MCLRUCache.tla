---------------------------- MODULE MCLRUCache ----------------------------
(***************************************************************************)
(* LRUCache with a few interchangeable jobs, for TLC.                      *)
(***************************************************************************)
EXTENDS LRUCache, TLC

Symmetry == Permutations(Jobs)

===========================================================================
