------------------------------ MODULE MCBcache ------------------------------
(***************************************************************************)
(* Instances of Bcache for TLC.  The capacity is smaller than the number   *)
(* of blocks, so that gets evict, and smaller than the number of           *)
(* descriptors plus one, so that everything cached can be referenced.      *)
(***************************************************************************)
EXTENDS Bcache, TLC

\* Contents and descriptors are interchangeable; blocks are ordered.
Symmetry == Permutations(Vals) \cup Permutations(Descriptors)
=============================================================================
