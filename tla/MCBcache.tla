------------------------------ MODULE MCBcache ------------------------------
(***************************************************************************)
(* Bcache for TLC: callers and blocks are interchangeable.                  *)
(***************************************************************************)
EXTENDS Bcache, TLC

Symmetry == Permutations(Callers) \cup Permutations(Blocks)
=============================================================================
