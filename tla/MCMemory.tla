------------------------------ MODULE MCMemory ------------------------------
(* Small instances of Memory for TLC. *)
EXTENDS Memory

Seg(vaddr, memsz, filesz, full) ==
    [vaddr |-> vaddr, memsz |-> memsz, filesz |-> filesz, full |-> full]

\* A bss; segments out of order, of which the second is inside the first
\* one's pages; a bad alignment after a good segment; a file that is too
\* short; arguments that do not fit the stack; an empty segment.
MCPrograms ==
    { [segs |-> <<Seg(0, 3, 1, TRUE)>>, args |-> 2],
      [segs |-> <<Seg(0, 2, 0, TRUE), Seg(0, 1, 1, TRUE)>>, args |-> 1],
      [segs |-> <<Seg(0, 1, 1, TRUE), Seg(1, 2, 1, TRUE)>>, args |-> 1],
      [segs |-> <<Seg(0, 1, 1, FALSE)>>, args |-> 1],
      [segs |-> <<Seg(0, 0, 0, TRUE)>>, args |-> 1],
      [segs |-> << >>, args |-> 3] }
MCSbrkArgs == {-64, -3, 1, 2, 63}
MCCopyArgs == {<<1, 3>>, <<3, 5>>, <<45, 20>>}

\* Physical pages are interchangeable: with PagesOwnedOnce, which TLC checks
\* in every state, a state is known up to renaming of pages by what each
\* table contains and by the number of free pages.
Shape(t) == IF t = None THEN None
            ELSE <<DOMAIN t.dir, [v \in DOMAIN t.pte \ {TRAMPOLINE} |-> <<data[t.pte[v].pa], t.pte[v].user>>]>>
View == << [p \in Procs |-> <<proc[p].state, proc[p].sz, Shape(proc[p].pagetable)>>],
           [p \in Procs |-> CASE op[p] = None -> None
                              [] op[p] # None /\ op[p].call = "fork" -> op[p]
                              [] OTHER -> [op[p] EXCEPT !.pagetable = Shape(@)]],
           Cardinality(pipes), Cardinality(freelist), err >>
=============================================================================
