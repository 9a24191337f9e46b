------------------------------ MODULE MCFiles -------------------------------
(* Small instances of Files for TLC. *)
EXTENDS Files, TLC

\* Processes are interchangeable.
Symmetry == Permutations(Procs)
=============================================================================
