----------------------------- MODULE BlockStore -----------------------------
(***************************************************************************)
(* What the buffer cache promises: one copy of every block, used by one    *)
(* holder at a time (kernel/bio.c, comment at lines 1-13).                 *)
(*                                                                         *)
(*   store   the current contents of every block                           *)
(*   owner   who holds the block between bread() and brelse()              *)
(***************************************************************************)
CONSTANTS Users, Blocks, Vals, None

VARIABLES store, owner

Init ==
    /\ store \in [Blocks -> Vals]
    /\ owner = [k \in Blocks |-> None]

Acquire(u, k) ==
    /\ owner[k] = None
    /\ owner' = [owner EXCEPT ![k] = u]
    /\ UNCHANGED store

Write(u, k, v) ==
    /\ owner[k] = u
    /\ store' = [store EXCEPT ![k] = v]
    /\ UNCHANGED owner

Release(u, k) ==
    /\ owner[k] = u
    /\ owner' = [owner EXCEPT ![k] = None]
    /\ UNCHANGED store

Next ==
    \E u \in Users, k \in Blocks :
        \/ Acquire(u, k)
        \/ Release(u, k)
        \/ \E v \in Vals : Write(u, k, v)

Spec == Init /\ [][Next]_<<store, owner>>
=============================================================================
