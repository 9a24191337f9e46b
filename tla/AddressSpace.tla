---------------------------- MODULE AddressSpace ----------------------------
(***************************************************************************)
(* What the memory system promises to processes: each one has a private    *)
(* image, page by page, that only its own calls change, and a call that    *)
(* runs out of memory changes nothing.  There are no physical pages here.  *)
(***************************************************************************)
EXTENDS Naturals

CONSTANTS
    Procs,      \* slots of the process table
    Zero,       \* contents of a new page
    Written,    \* what a copy from the kernel leaves in a page
    Boot,       \* the image of the first process
    Images,     \* the images exec() may install
    MaxPages,   \* no image is larger
    None        \* the slot has no running process

VARIABLE img    \* img[p][v]: contents of page v and whether user code may use it

Running == {p \in Procs : img[p] # None}

Fresh == [val |-> Zero, user |-> TRUE]

Init == \E p \in Procs : img = [q \in Procs |-> IF q = p THEN Boot ELSE None]

\* The child starts with the parent's memory.
Fork(p, c) ==
    /\ img[c] = None
    /\ img' = [img EXCEPT ![c] = img[p]]

Exec(p, i) == img' = [img EXCEPT ![p] = i]

\* Growing adds zeroed pages at the end, shrinking removes them there.
Resize(p, n) ==
    img' = [img EXCEPT ![p] = [v \in 0..(n - 1) |->
                                 IF v \in DOMAIN img[p] THEN img[p][v] ELSE Fresh]]

\* A copy to consecutive pages, all of them pages the process may use.
Write(p, V) ==
    /\ \A v \in V : v \in DOMAIN img[p] /\ img[p][v].user
    /\ img' = [img EXCEPT ![p] = [v \in DOMAIN img[p] |->
                                    IF v \in V THEN [img[p][v] EXCEPT !.val = Written]
                                               ELSE img[p][v]]]

Exit(p) == img' = [img EXCEPT ![p] = None]

Next ==
    \E p \in Running :
        \/ \E c \in Procs : Fork(p, c)
        \/ \E i \in Images : Exec(p, i)
        \/ \E n \in 0..MaxPages : Resize(p, n)
        \/ \E V \in SUBSET DOMAIN img[p] : Write(p, V)
        \/ Exit(p)

Spec == Init /\ [][Next]_img
=============================================================================
