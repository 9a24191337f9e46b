------------------------------- MODULE Memory -------------------------------
(***************************************************************************)
(* kernel/kalloc.c, kernel/vm.c, kernel/exec.c and the memory side of      *)
(* kernel/proc.c: physical pages, three-level page tables, and fork(),     *)
(* exec(), sbrk(), exit() and wait() running out of memory at any point.   *)
(*                                                                         *)
(* Functions that change memory are operators on a record m:               *)
(*   free, data   kmem.freelist and the contents of the pages              *)
(*   pt           the page table the function works on                     *)
(*   ok           FALSE once an allocation has failed                      *)
(*   err          the panics met (and a page freed twice, which the code   *)
(*                does not notice)                                         *)
(* The free list is a set: which page kalloc() hands out makes no          *)
(* difference to any property, and it is the least one.  A page holds one  *)
(* value.  fork() and exec() are split where other processes on other      *)
(* CPUs compete with them for pages.                                       *)
(***************************************************************************)
EXTENDS Integers, Sequences, FiniteSets, SequencesExt

CONSTANTS
    NPROC,      \* slots of the process table
    NPAGES,     \* physical pages between end and PHYSTOP
    FANOUT,     \* entries of a page-table page (512)
    PGSIZE,     \* bytes in a page
    UMOD,       \* 2^w: the size in growproc() is a uint
    Programs,   \* executable files: see Segment
    SbrkArgs,   \* arguments of sbrk()
    MAXSZ,      \* bound: sbrk() is not called to grow an image beyond it
    CopyArgs,   \* pairs <<address, length>> of copies to user memory
    None

Procs == 1..NPROC
Pages == 1..NPAGES

\* Virtual addresses are page numbers below; MAXVA is the first too large.
MAXVA == FANOUT * FANOUT * FANOUT
TRAMPOLINE == MAXVA - 1
TRAPFRAME == MAXVA - 2

\* The code relies on RAM being far smaller than the user address space
\* and than half the range of a uint.
ASSUME SizesAssumption ==
    /\ NPROC \in Nat \ {0} /\ PGSIZE \in Nat \ {0} /\ FANOUT \in Nat \ {0, 1}
    /\ NPAGES \in Nat /\ NPAGES < TRAPFRAME
    /\ UMOD > 2 * NPAGES * PGSIZE
    /\ SbrkArgs \subseteq -(UMOD \div 2)..(UMOD \div 2 - 1)

\* A program header of type ELF_PROG_LOAD; full is FALSE when the file is
\* shorter than the header says.  args is what the argument strings and the
\* argv[] vector take on the stack.
Segment == [vaddr : Nat, memsz : Nat, filesz : Nat, full : BOOLEAN]
ASSUME ProgramsAssumption ==
    \A g \in Programs : g.segs \in Seq(Segment) /\ g.args \in Nat \ {0}

VARIABLES
    freelist,   \* pages on kmem.freelist
    data,       \* contents of every physical page
    proc,       \* the process table
    op,         \* op[p]: the fork() or exec() p is in the middle of
    pipes,      \* pages that hold a struct pipe
    err         \* panics met

vars == <<freelist, data, proc, op, pipes, err>>

\* Contents of a page.
Junk == "junk"          \* after kfree() or kalloc()
Zero == "zero"
Text == "text"          \* loaded from a file
Args == "args"          \* a stack with the arguments of exec()
Written == "written"    \* after copyout()
Regs == "regs"          \* saved user registers

PGROUNDUP(sz) == ((sz + PGSIZE - 1) \div PGSIZE) * PGSIZE
\* The page numbers from..to-1, in order, and the number of pages below sz.
PagesOf(from, to) == [i \in 1..(to - from) |-> from + i - 1]
NPagesOf(sz) == PGROUNDUP(sz) \div PGSIZE

FreeProc == [state |-> "UNUSED", pagetable |-> None, sz |-> 0, trapframe |-> None]

Mem(pt) == [free |-> freelist, data |-> data, pt |-> pt, ok |-> TRUE, err |-> err]
Panic(m, e) == [m EXCEPT !.err = @ \cup {e}, !.ok = FALSE]
-----------------------------------------------------------------------------
(***************************************************************************)
(* kalloc.c.                                                               *)
(***************************************************************************)

\* The page kalloc() returns, when it returns one.
top(m) == Min(m.free)

kalloc(m) ==
    IF m.free = {} THEN [m EXCEPT !.ok = FALSE]
    ELSE [m EXCEPT !.free = @ \ {top(m)}, !.data[top(m)] = Junk]

kfree(m, pa) ==
    IF pa \notin Pages THEN Panic(m, "kfree")
    ELSE IF pa \in m.free THEN Panic(m, "freed twice")
    ELSE [m EXCEPT !.free = @ \cup {pa}, !.data[pa] = Junk]

memset(m, pa, v) == [m EXCEPT !.data[pa] = v]
-----------------------------------------------------------------------------
(***************************************************************************)
(* vm.c.  A page table is a record: dir maps the nodes of the tree to the  *)
(* pages that hold them, pte the mapped virtual pages to their entries.    *)
(***************************************************************************)

\* The page-table page of a level that va goes through; 2 is the root.
Node(level, va) ==
    <<level, va \div (CASE level = 0 -> FANOUT [] level = 1 -> FANOUT * FANOUT
                        [] level = 2 -> MAXVA)>>
Root == Node(2, 0)
EmptyTable(pa) == [dir |-> [n \in {Root} |-> pa], pte |-> [v \in {} |-> 0]]

Put(f, x, y) == [z \in DOMAIN f \cup {x} |-> IF z = x THEN y ELSE f[z]]
Drop(f, x) == [z \in DOMAIN f \ {x} |-> f[z]]

\* walk(pagetable, va, 0) found the last-level table.
walk(pt, va) == {Node(1, va), Node(0, va)} \subseteq DOMAIN pt.dir

\* One level of walk(pagetable, va, 1); k is m after kalloc().
Linked(k, n, pa) == IF k.ok THEN [memset(k, pa, Zero) EXCEPT !.pt.dir = Put(@, n, pa)] ELSE k
Descend(m, n) ==
    IF ~m.ok \/ n \in DOMAIN m.pt.dir THEN m ELSE Linked(kalloc(m), n, top(m))

\* walk(pagetable, va, 1): pages allocated before a failure stay in the tree.
walk_alloc(m, va) == Descend(Descend(m, Node(1, va)), Node(0, va))

\* walkaddr: the page a user address maps to, or None.
walkaddr(pt, va) ==
    IF va < MAXVA /\ walk(pt, va) /\ va \in DOMAIN pt.pte /\ pt.pte[va].user
    THEN pt.pte[va].pa ELSE None

\* mappages of one page, the only size asked for after boot; w is m after walk().
SetPte(w, va, e) ==
    IF ~w.ok THEN w
    ELSE IF va \in DOMAIN w.pt.pte THEN Panic(w, "remap")
    ELSE [w EXCEPT !.pt.pte = Put(@, va, e)]
mappages(m, va, pa, user) == SetPte(walk_alloc(m, va), va, [pa |-> pa, user |-> user])

uvmunmap(m, va, npages, do_free) ==
    LET Unmap(n, a) ==
            IF ~walk(n.pt, a) THEN Panic(n, "uvmunmap: walk")
            ELSE IF a \notin DOMAIN n.pt.pte THEN Panic(n, "uvmunmap: not mapped")
            ELSE [(IF do_free THEN kfree(n, n.pt.pte[a].pa) ELSE n)
                    EXCEPT !.pt.pte = Drop(@, a)]
    IN  FoldLeft(Unmap, m, PagesOf(va, va + npages))

uvmcreate(m) ==
    IF m.free = {} THEN kalloc(m)
    ELSE [memset(kalloc(m), top(m), Zero) EXCEPT !.pt = EmptyTable(top(m))]

\* uvmdealloc: the pages between the two sizes; the new size is the caller's.
uvmdealloc(m, oldsz, newsz) ==
    IF newsz >= oldsz THEN m
    ELSE uvmunmap(m, NPagesOf(newsz), NPagesOf(oldsz) - NPagesOf(newsz), TRUE)

\* Mutant: the page that could not be mapped is not given back.
MapNew_LeaksPage(m, va, v, user) ==
    IF m.free = {} THEN kalloc(m) ELSE mappages(memset(kalloc(m), top(m), v), va, top(m), user)

\* A step of the loops of uvmalloc() and uvmcopy(): a page with contents v is
\* mapped at va, or given back when there is no room for the table.
OrFree(z, pa) == IF z.ok THEN z ELSE kfree(z, pa)
MapNew(m, va, v, user) ==
    IF m.free = {} THEN kalloc(m)
    ELSE OrFree(mappages(memset(kalloc(m), top(m), v), va, top(m), user), top(m))

\* uvmalloc: on failure the pages added so far are removed again.
uvmalloc(m, oldsz, newsz) ==
    LET base == NPagesOf(oldsz)
        OrShrink(n, a) == IF n.ok THEN n ELSE uvmdealloc(n, a * PGSIZE, base * PGSIZE)
        Grow(n, a) == IF n.ok THEN OrShrink(MapNew(n, a, Zero, TRUE), a) ELSE n
    IN  IF newsz < oldsz THEN m ELSE FoldLeft(Grow, m, PagesOf(base, NPagesOf(newsz)))

\* What uvmalloc() returns: 0 on failure.
uvmalloc_ret(m, oldsz, newsz) ==
    IF newsz < oldsz THEN oldsz ELSE IF uvmalloc(m, oldsz, newsz).ok THEN newsz ELSE 0

freewalk(m) ==
    IF DOMAIN m.pt.pte # {} THEN Panic(m, "freewalk: leaf")
    ELSE [FoldSet(LAMBDA k, n : kfree(n, m.pt.dir[k]), m, DOMAIN m.pt.dir) EXCEPT !.pt = None]

uvmfree(m, sz) == freewalk(uvmunmap(m, 0, NPagesOf(sz), TRUE))

\* Mutant: the child is given the parent's pages.
uvmcopy_Shares(m, old, sz) ==
    LET OrUnmap(n, i) == IF n.ok THEN n ELSE uvmunmap(n, 0, i, TRUE)
        Copy(n, i) == IF n.ok THEN OrUnmap(mappages(n, i, old.pte[i].pa, old.pte[i].user), i) ELSE n
    IN  FoldLeft(Copy, m, PagesOf(0, NPagesOf(sz)))

\* uvmcopy: m.pt is the child's table, old the parent's.
uvmcopy(m, old, sz) ==
    LET OrUnmap(n, i) == IF n.ok THEN n ELSE uvmunmap(n, 0, i, TRUE)
        Copy(n, i) ==
            IF ~n.ok THEN n
            ELSE IF ~walk(old, i) \/ i \notin DOMAIN old.pte THEN Panic(n, "uvmcopy")
            ELSE OrUnmap(MapNew(n, i, n.data[old.pte[i].pa], old.pte[i].user), i)
    IN  FoldLeft(Copy, m, PagesOf(0, NPagesOf(sz)))

uvmclear(m, va) ==
    IF ~walk(m.pt, va) THEN Panic(m, "uvmclear") ELSE [m EXCEPT !.pt.pte[va].user = FALSE]

\* copyout of len bytes of value v: page by page until one is not the user's.
copyout(m, dst, len, v) ==
    LET Copy(n, va) ==
            IF ~n.ok THEN n
            ELSE IF walkaddr(n.pt, va) = None THEN [n EXCEPT !.ok = FALSE]
            ELSE memset(n, walkaddr(n.pt, va), v)
    IN  FoldLeft(Copy, m, PagesOf(dst \div PGSIZE, NPagesOf(dst + len)))
-----------------------------------------------------------------------------
(***************************************************************************)
(* The page table of a process: proc.c.                                    *)
(***************************************************************************)

\* proc_pagetable: the trampoline (kernel text, never freed) and the trapframe.
OrUvmfree(m) == IF m.ok THEN m ELSE [uvmfree(m, 0) EXCEPT !.ok = FALSE]
OrUnmapTrampoline(m) == IF m.ok THEN m ELSE OrUvmfree(uvmunmap(m, TRAMPOLINE, 1, FALSE))
MapTrampoline(m) == IF m.ok THEN OrUvmfree(mappages(m, TRAMPOLINE, None, FALSE)) ELSE m
MapTrapframe(m, tf) == IF m.ok THEN OrUnmapTrampoline(mappages(m, TRAPFRAME, tf, FALSE)) ELSE m
proc_pagetable(m, trapframe) == MapTrapframe(MapTrampoline(uvmcreate(m)), trapframe)

\* Mutant: the size is rounded down.
proc_freepagetable_RoundsDown(m, sz) ==
    uvmfree(uvmunmap(uvmunmap(m, TRAMPOLINE, 1, FALSE), TRAPFRAME, 1, FALSE),
            (sz \div PGSIZE) * PGSIZE)

proc_freepagetable(m, sz) ==
    uvmfree(uvmunmap(uvmunmap(m, TRAMPOLINE, 1, FALSE), TRAPFRAME, 1, FALSE), sz)

\* freeproc: the trapframe page first, then whatever page table there is.
freeproc(m, p) ==
    LET t == IF p.trapframe = None THEN m ELSE kfree(m, p.trapframe)
    IN  IF p.pagetable = None THEN t
        ELSE proc_freepagetable([t EXCEPT !.pt = p.pagetable], p.sz)

\* allocproc: m.pt is the new table, top(m) the trapframe page.
OrFreeproc(m, tf) ==
    IF m.ok THEN m ELSE [freeproc(m, [FreeProc EXCEPT !.trapframe = tf]) EXCEPT !.ok = FALSE]
allocproc(m) ==
    IF m.free = {} THEN kalloc(m) ELSE OrFreeproc(proc_pagetable(kalloc(m), top(m)), top(m))

\* kinit(), and the first process: allocproc(), uvminit(), its registers.
kinit == [free |-> Pages, data |-> [a \in Pages |-> Junk], pt |-> None, ok |-> TRUE, err |-> {}]
uvminit(m) == mappages(memset(kalloc(m), top(m), Text), 0, top(m), TRUE)
userinit == [uvminit(allocproc(kinit)) EXCEPT !.data[top(kinit)] = Regs]

Init ==
    /\ \E m \in {userinit} :
        /\ freelist = m.free /\ data = m.data /\ err = m.err
        /\ proc = [p \in Procs |->
                     IF p = 1 THEN [state |-> "RUN", pagetable |-> m.pt,
                                    sz |-> PGSIZE, trapframe |-> top(kinit)]
                     ELSE FreeProc]
    /\ op = [p \in Procs |-> None]
    /\ pipes = {}
-----------------------------------------------------------------------------
(***************************************************************************)
(* System calls.                                                           *)
(***************************************************************************)
Idle(p) == proc[p].state = "RUN" /\ op[p] = None

Commit(m) == freelist' = m.free /\ data' = m.data /\ err' = m.err

\* fork(), first half: allocproc() finds a slot and its pages, or fails.
fork_alloc(p, np) ==
    LET m == allocproc(Mem(None)) IN
    /\ Idle(p)
    /\ proc[np].state = "UNUSED"
    /\ \A q \in Procs : q < np => proc[q].state # "UNUSED"
    /\ Commit(m)
    /\ IF m.ok
       THEN /\ proc' = [proc EXCEPT ![np] = [state |-> "USED", pagetable |-> m.pt,
                                             sz |-> 0, trapframe |-> top(Mem(None))]]
            /\ op' = [op EXCEPT ![p] = [call |-> "fork", child |-> np]]
       ELSE UNCHANGED <<proc, op>>
    /\ UNCHANGED pipes

\* fork(), second half: copy the image and the registers, or undo.
fork_copy(p) ==
    LET np == op[p].child
        m == uvmcopy(Mem(proc[np].pagetable), proc[p].pagetable, proc[p].sz)
        u == freeproc(m, [proc[np] EXCEPT !.pagetable = m.pt])
    IN  /\ op[p] # None /\ op[p].call = "fork"
        /\ op' = [op EXCEPT ![p] = None]
        /\ IF m.ok
           THEN /\ Commit(memset(m, proc[np].trapframe, data[proc[p].trapframe]))
                /\ proc' = [proc EXCEPT ![np] = [@ EXCEPT !.state = "RUN",
                                !.pagetable = m.pt, !.sz = proc[p].sz]]
           ELSE /\ Commit(u)
                /\ proc' = [proc EXCEPT ![np] = FreeProc]
        /\ UNCHANGED pipes

\* Mutant: the new size is not reduced modulo 2^w, as if it were signed.
growproc_Signed(p, n) == proc[p].sz + n

\* The size growproc() asks for, in unsigned arithmetic.
growproc_sz(p, n) == (proc[p].sz + n) % UMOD

\* sbrk(n): sys_sbrk and growproc.
sys_sbrk(p, n) ==
    LET sz == proc[p].sz
        new == growproc_sz(p, n)
        m == IF n > 0 THEN uvmalloc(Mem(proc[p].pagetable), sz, new)
             ELSE uvmdealloc(Mem(proc[p].pagetable), sz, new)
        ret == IF n > 0 THEN uvmalloc_ret(Mem(proc[p].pagetable), sz, new)
               ELSE IF new >= sz THEN sz ELSE new
    IN  /\ Idle(p)
        /\ n > 0 => (sz + n <= MAXSZ \/ sz + n > NPAGES * PGSIZE)
        /\ Commit(m)
        /\ proc' = [proc EXCEPT ![p].pagetable = m.pt,
                                ![p].sz = IF n > 0 /\ ret = 0 THEN @ ELSE ret]
        /\ UNCHANGED <<op, pipes>>

\* exec(), until the new page table exists.
exec_begin(p, g) ==
    LET m == proc_pagetable(Mem(None), proc[p].trapframe) IN
    /\ Idle(p)
    /\ Commit(m)
    /\ op' = [op EXCEPT ![p] = IF m.ok THEN [call |-> "exec", prog |-> g, pagetable |-> m.pt,
                                             sz |-> 0, i |-> 1]
                               ELSE None]
    /\ UNCHANGED <<proc, pipes>>

\* bad: the image built so far goes back.
exec_bad(p, m, sz) ==
    /\ Commit(proc_freepagetable(m, sz))
    /\ op' = [op EXCEPT ![p] = None]

\* loadseg: fills mapped pages; the file may be too short.
loadseg(m, s) ==
    LET Load(n, va) ==
            IF walkaddr(n.pt, va) = None THEN Panic(n, "loadseg") ELSE memset(n, walkaddr(n.pt, va), Text)
    IN  FoldLeft(Load, m, PagesOf(s.vaddr \div PGSIZE, NPagesOf(s.vaddr + s.filesz)))

\* One segment: the checks, uvmalloc(), the alignment of vaddr, loadseg().
exec_segment(p) ==
    LET e == op[p]
        s == e.prog.segs[e.i]
        m0 == Mem(e.pagetable)
        sz1 == uvmalloc_ret(m0, e.sz, s.vaddr + s.memsz)
        m1 == uvmalloc(m0, e.sz, s.vaddr + s.memsz)
        m2 == loadseg(m1, s)
    IN  /\ e # None /\ e.call = "exec" /\ e.i <= Len(e.prog.segs)
        /\ IF s.memsz < s.filesz THEN exec_bad(p, m0, e.sz)
           ELSE IF sz1 = 0 THEN exec_bad(p, m1, e.sz)
           ELSE IF s.vaddr % PGSIZE # 0 THEN exec_bad(p, m1, sz1)
           ELSE IF ~s.full THEN exec_bad(p, m2, sz1)
           ELSE /\ Commit(m2)
                /\ op' = [op EXCEPT ![p].pagetable = m2.pt, ![p].sz = sz1, ![p].i = @ + 1]
        /\ UNCHANGED <<proc, pipes>>

\* The stack with its guard page, the arguments, and the switch to the new
\* image; the old one is freed last.
exec_commit(p) ==
    LET e == op[p]
        base == PGROUNDUP(e.sz)
        top2 == base + 2 * PGSIZE
        m1 == uvmalloc(Mem(e.pagetable), base, top2)
        m2 == uvmclear(m1, NPagesOf(base))
        m3 == copyout(m2, top2 - e.prog.args, e.prog.args, Args)
        m4 == proc_freepagetable([m3 EXCEPT !.pt = proc[p].pagetable], proc[p].sz)
    IN  /\ e # None /\ e.call = "exec" /\ e.i > Len(e.prog.segs)
        /\ IF ~m1.ok THEN exec_bad(p, m1, base) /\ UNCHANGED proc
           ELSE IF e.prog.args > PGSIZE THEN exec_bad(p, m2, top2) /\ UNCHANGED proc
           ELSE IF ~m3.ok THEN exec_bad(p, m3, top2) /\ UNCHANGED proc
           ELSE /\ Commit(m4)
                /\ proc' = [proc EXCEPT ![p].pagetable = m3.pt, ![p].sz = top2]
                /\ op' = [op EXCEPT ![p] = None]
        /\ UNCHANGED pipes

\* A system call writes len bytes at address dst of its caller's memory.
sys_copyout(p, dst, len) ==
    /\ Idle(p)
    /\ Commit([copyout(Mem(proc[p].pagetable), dst, len, Written) EXCEPT !.err = err])
    /\ UNCHANGED <<proc, op, pipes>>

\* pipe() and the last close of a pipe take and return a page.
pipealloc ==
    /\ freelist # {} /\ pipes = {}
    /\ pipes' = {top(Mem(None))}
    /\ Commit(kalloc(Mem(None)))
    /\ UNCHANGED <<proc, op>>

pipeclose ==
    \E pi \in pipes :
        /\ Commit(kfree(Mem(None), pi))
        /\ pipes' = pipes \ {pi}
        /\ UNCHANGED <<proc, op>>

\* exit() keeps the memory; wait() in the parent frees it.
exit(p) ==
    /\ Idle(p) /\ p # 1
    /\ proc' = [proc EXCEPT ![p].state = "ZOMBIE"]
    /\ UNCHANGED <<freelist, data, op, pipes, err>>

wait(p) ==
    /\ proc[p].state = "ZOMBIE"
    /\ Commit(freeproc(Mem(None), proc[p]))
    /\ proc' = [proc EXCEPT ![p] = FreeProc]
    /\ UNCHANGED <<op, pipes>>

Next ==
    \/ \E p \in Procs :
        \/ \E np \in Procs : fork_alloc(p, np)
        \/ fork_copy(p)
        \/ \E n \in SbrkArgs : sys_sbrk(p, n)
        \/ \E g \in Programs : exec_begin(p, g)
        \/ exec_segment(p)
        \/ exec_commit(p)
        \/ \E c \in CopyArgs : sys_copyout(p, c[1], c[2])
        \/ exit(p)
        \/ wait(p)
    \/ pipealloc
    \/ pipeclose

Spec == Init /\ [][Next]_vars
-----------------------------------------------------------------------------
(***************************************************************************)
(* Properties.                                                             *)
(***************************************************************************)

\* Every page table in use: of a process or of an exec() under way.
Tables == {proc[p].pagetable : p \in Procs} \cup
          {op[p].pagetable : p \in {q \in Procs : op[q] # None /\ op[q].call = "exec"}}

\* Every reference to a physical page by something that owns it.
Holdings ==
    {<<proc[p].trapframe, "trapframe", p, 0>> : p \in {q \in Procs : proc[q].state # "UNUSED"}}
    \cup {<<pi, "pipe", 0, 0>> : pi \in pipes}
    \cup UNION {  {<<t.dir[n], "table", t.dir[Root], n>> : n \in DOMAIN t.dir}
             \cup {<<t.pte[v].pa, "memory", t.dir[Root], v>> : v \in DOMAIN t.pte \ {TRAPFRAME, TRAMPOLINE}}
               : t \in Tables \ {None}}

\* Every physical page is on the free list or belongs to exactly one thing,
\* also after fork(), exec() or sbrk() failed half way: no leak, no page
\* shared by two processes, none freed while in use.
PagesOwnedOnce ==
    /\ {h[1] : h \in Holdings} = Pages \ freelist
    /\ Cardinality(Holdings) = NPAGES - Cardinality(freelist)

\* The pages mapped for a user are those below the rounded-up size, and the
\* trapframe page of the process is mapped where trampoline.S looks for it.
Fits(t, sz, trapframe) ==
    /\ DOMAIN t.pte = 0..(NPagesOf(sz) - 1) \cup {TRAMPOLINE, TRAPFRAME}
    /\ t.pte[TRAPFRAME].pa = trapframe
    /\ \A v \in DOMAIN t.pte : walk(t, v)
SizeMapped ==
    \A p \in Procs :
        /\ proc[p].state # "UNUSED" => Fits(proc[p].pagetable, proc[p].sz, proc[p].trapframe)
        /\ (op[p] # None /\ op[p].call = "exec")
             => Fits(op[p].pagetable, op[p].sz, proc[p].trapframe)

\* The panics of vm.c and loadseg() are unreachable ("remap", "uvmunmap: not
\* mapped", "freewalk: leaf", ...), and no page is freed twice.
NoPanic == err = {}

\* The memory a running process sees: its user pages and the guard page.
Image(p) ==
    [v \in 0..(NPagesOf(proc[p].sz) - 1) |->
        [val |-> data[proc[p].pagetable.pte[v].pa], user |-> proc[p].pagetable.pte[v].user]]

\* What program g looks like after exec(): text where a segment has bytes
\* in the file, zeroes elsewhere, then the guard page and the stack.
SegEnd(g) == Max({0} \cup {g.segs[i].vaddr + g.segs[i].memsz : i \in 1..Len(g.segs)})
ProgramImage(g) ==
    [v \in 0..(NPagesOf(SegEnd(g)) + 1) |->
        CASE v = NPagesOf(SegEnd(g)) -> [val |-> Zero, user |-> FALSE]
          [] v > NPagesOf(SegEnd(g)) -> [val |-> Args, user |-> TRUE]
          [] OTHER -> [val |-> IF \E i \in 1..Len(g.segs) :
                                    /\ g.segs[i].vaddr < (v + 1) * PGSIZE
                                    /\ g.segs[i].vaddr + g.segs[i].filesz > v * PGSIZE
                               THEN Text ELSE Zero,
                       user |-> TRUE]]

AS == INSTANCE AddressSpace WITH
    img <- [p \in Procs |-> IF proc[p].state = "RUN" THEN Image(p) ELSE None],
    Images <- {ProgramImage(g) : g \in Programs},
    Boot <- [v \in {0} |-> [val |-> Text, user |-> TRUE]],
    MaxPages <- NPAGES

\* The memory system implements private address spaces: fork() copies,
\* exec() installs exactly the program, a failed call changes nothing, and
\* nothing one process does shows in the memory of another.
PrivateMemory == AS!Spec
=============================================================================
