------------------------------ MODULE MCVirtio ------------------------------
(* Small instances of Virtio for TLC. *)
EXTENDS Virtio, TLC

\* Processes are interchangeable.
Symmetry == Permutations(Procs)
=============================================================================
