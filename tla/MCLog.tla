------------------------------- MODULE MCLog -------------------------------
(* The small instance of Log for TLC: see Log.cfg. *)
EXTENDS Log
=============================================================================
