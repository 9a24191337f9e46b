------------------------------ MODULE MCBcache ------------------------------
(* Small instances of Bcache for TLC. *)
EXTENDS Bcache, TLC

\* Users, buffers and blocks are interchangeable.
Symmetry == Permutations(Users) \cup Permutations(Buf) \cup Permutations(Blocks)
=============================================================================
