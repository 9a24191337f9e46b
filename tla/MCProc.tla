------------------------------- MODULE MCProc -------------------------------
(* Small instances of Proc for TLC. *)
EXTENDS Proc, TLC

\* The CPUs are interchangeable.
Symmetry == Permutations(CPUs)
=============================================================================
