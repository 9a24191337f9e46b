----------------------------- MODULE AtomicDisk -----------------------------
(***************************************************************************)
(* What the logging layer promises to the file system: a disk whose        *)
(* multi-block updates are atomic with respect to crashes.                 *)
(*                                                                         *)
(*   stable  what a reboot would find after recovery                       *)
(*   mem     what running system calls read and write                      *)
(*   live    the system calls between begin_op() and end_op()              *)
(*                                                                         *)
(* mem becomes stable in one step, and only while no system call is in the *)
(* middle of its updates; a crash throws mem away.  A system call's writes *)
(* therefore survive a crash together or not at all.                       *)
(***************************************************************************)
CONSTANTS Procs, Blocks, Vals

VARIABLES stable, mem, live

vars == <<stable, mem, live>>

Init ==
    /\ stable \in [Blocks -> Vals]
    /\ mem = stable
    /\ live = {}

Begin(p) ==
    /\ p \notin live
    /\ live' = live \cup {p}
    /\ UNCHANGED <<stable, mem>>

Write(p, b, v) ==
    /\ p \in live
    /\ mem' = [mem EXCEPT ![b] = v]
    /\ UNCHANGED <<stable, live>>

End(p) ==
    /\ p \in live
    /\ live' = live \ {p}
    /\ UNCHANGED <<stable, mem>>

Commit ==
    /\ live = {}
    /\ stable' = mem
    /\ UNCHANGED <<mem, live>>

Crash ==
    /\ mem' = stable
    /\ live' = {}
    /\ UNCHANGED stable

Next ==
    \/ \E p \in Procs : Begin(p) \/ End(p)
    \/ \E p \in Procs, b \in Blocks, v \in Vals : Write(p, b, v)
    \/ Commit
    \/ Crash

Spec == Init /\ [][Next]_vars
=============================================================================
