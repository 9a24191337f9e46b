------------------------------ MODULE Channel ------------------------------
(***************************************************************************)
(* What a pipe promises: a bounded first-in first-out channel of bytes     *)
(* with two ends that can be closed.                                       *)
(***************************************************************************)
EXTENDS Naturals, Sequences

CONSTANTS Vals, Capacity

VARIABLES q, ropen, wopen

vars == <<q, ropen, wopen>>

Init == q = <<>> /\ ropen = TRUE /\ wopen = TRUE

\* Bytes are accepted and handed out while their end is open; a reader may
\* drain what is left after the write end was closed.
Put(v) == ropen /\ wopen /\ Len(q) < Capacity /\ q' = Append(q, v) /\ UNCHANGED <<ropen, wopen>>
Get == ropen /\ q # <<>> /\ q' = Tail(q) /\ UNCHANGED <<ropen, wopen>>
CloseRead == ropen /\ ropen' = FALSE /\ UNCHANGED <<q, wopen>>
CloseWrite == wopen /\ wopen' = FALSE /\ UNCHANGED <<q, ropen>>

Next == (\E v \in Vals : Put(v)) \/ Get \/ CloseRead \/ CloseWrite

Spec == Init /\ [][Next]_vars
=============================================================================
