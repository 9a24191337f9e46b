------------------------------- MODULE MCPipe -------------------------------
(* Small instances of Pipe for TLC. *)
EXTENDS Pipe, TLC

\* Readers are interchangeable, and so are writers.
Symmetry == Permutations(Readers) \cup Permutations(Writers)
=============================================================================
