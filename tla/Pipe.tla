-------------------------------- MODULE Pipe --------------------------------
(***************************************************************************)
(* kernel/pipe.c: one pipe, several readers and writers, with the          *)
(* sleep()/wakeup() and kill() of kernel/proc.c they use.                  *)
(*                                                                         *)
(* pi->lock is explicit: a reader or writer keeps it over many bytes, and  *)
(* kill() (which only takes p->lock) can fall anywhere in between, also    *)
(* between the test of p->killed and the call of sleep().                  *)
(***************************************************************************)
EXTENDS Integers, Sequences, FiniteSets

CONSTANTS
    Readers, Writers,   \* processes with the read, the write end open
    Vals,               \* bytes
    PIPESIZE,           \* size of pi->data
    UMOD,               \* 2^w: nread and nwrite are unsigned and wrap
    MAXN,               \* bound: the largest n of a read or write call
    None                \* nobody holds the lock

ASSUME SizeAssumption ==
    /\ PIPESIZE \in Nat \ {0}
    /\ UMOD \in Nat /\ UMOD > PIPESIZE /\ UMOD % PIPESIZE = 0
    /\ MAXN \in Nat
ASSUME ProcAssumption == None \notin Readers \cup Writers /\ Readers \cap Writers = {}

Procs == Readers \cup Writers

VARIABLES
    data, nread, nwrite, readopen, writeopen,   \* struct pipe
    freed,      \* kfree((char*)pi) was called
    lock,       \* who holds pi->lock
    open,       \* the processes that still hold a reference to their end
    pc,         \* where each process is
    todo,       \* todo[p]: n - i, the bytes left of its call
    killed      \* p->killed

pipeVars == <<data, nread, nwrite, readopen, writeopen, freed>>
vars == <<pipeVars, lock, open, pc, todo, killed>>

PC == {"user", "wlock", "write", "wfull", "wsleep",
       "rlock", "rempty", "rsleep", "rcopy", "close", "closed"}

TypeOK ==
    /\ data \in [0..(PIPESIZE - 1) -> Vals]
    /\ nread \in 0..(UMOD - 1) /\ nwrite \in 0..(UMOD - 1)
    /\ readopen \in BOOLEAN /\ writeopen \in BOOLEAN /\ freed \in BOOLEAN
    /\ lock \in Procs \cup {None}
    /\ open \subseteq Procs
    /\ pc \in [Procs -> PC]
    /\ todo \in [Procs -> 0..MAXN]
    /\ killed \in [Procs -> BOOLEAN]

Empty == nread = nwrite
\* Mutant: the pipe counts as full one byte too late.
Full_Late == nwrite = (nread + PIPESIZE + 1) % UMOD

Full == nwrite = (nread + PIPESIZE) % UMOD

\* pc after p moves to label l and wakeup() makes the sleepers at from
\* reacquire pi->lock at label to.
Wakeup(p, l, from, to) ==
    [r \in Procs |-> IF r = p THEN l ELSE IF pc[r] = from THEN to ELSE pc[r]]
WakeReaders(p, l) == Wakeup(p, l, "rsleep", "rlock")
WakeWriters(p, l) == Wakeup(p, l, "wsleep", "wlock")

Goto(p, l) == pc' = [pc EXCEPT ![p] = l]
-----------------------------------------------------------------------------
(***************************************************************************)
(* pipewrite.                                                              *)
(***************************************************************************)

\* A system call write(fd, addr, n).
CallWrite(p, n) ==
    /\ pc[p] = "user" /\ ~killed[p]
    /\ todo' = [todo EXCEPT ![p] = n]
    /\ Goto(p, "wlock")
    /\ UNCHANGED <<pipeVars, lock, open, killed>>

\* acquire(&pi->lock), on entry and at the end of sleep().
write_lock(p) ==
    /\ pc[p] = "wlock"
    /\ lock = None
    /\ lock' = p
    /\ Goto(p, "write")
    /\ UNCHANGED <<pipeVars, open, todo, killed>>

\* The read end is closed, or the writer was killed: return -1.
write_fail(p) ==
    /\ pc[p] = "write" /\ todo[p] > 0
    /\ ~readopen \/ killed[p]
    /\ lock' = None
    /\ todo' = [todo EXCEPT ![p] = 0]
    /\ Goto(p, "user")
    /\ UNCHANGED <<pipeVars, open, killed>>

\* The pipe is full: wakeup(&pi->nread), then sleep(&pi->nwrite, &pi->lock).
write_full(p) ==
    /\ pc[p] = "write" /\ todo[p] > 0
    /\ readopen /\ ~killed[p]
    /\ Full
    /\ pc' = WakeReaders(p, "wfull")
    /\ UNCHANGED <<pipeVars, lock, open, todo, killed>>

write_sleep(p) ==
    /\ pc[p] = "wfull"
    /\ lock' = None
    /\ Goto(p, "wsleep")
    /\ UNCHANGED <<pipeVars, open, todo, killed>>

\* pi->data[pi->nwrite++ % PIPESIZE] = ch
write_byte(p, ch) ==
    /\ pc[p] = "write" /\ todo[p] > 0
    /\ readopen /\ ~killed[p]
    /\ ~Full
    /\ data' = [data EXCEPT ![nwrite % PIPESIZE] = ch]
    /\ nwrite' = (nwrite + 1) % UMOD
    /\ todo' = [todo EXCEPT ![p] = @ - 1]
    /\ UNCHANGED <<nread, readopen, writeopen, freed, lock, open, pc, killed>>

\* Mutant: no wakeup(&pi->nread) at the end.
write_done_NoWakeup(p) ==
    /\ pc[p] = "write"
    /\ todo[p] = 0 \/ (readopen /\ ~killed[p] /\ ~Full)
    /\ Goto(p, "user")
    /\ lock' = None
    /\ todo' = [todo EXCEPT ![p] = 0]
    /\ UNCHANGED <<pipeVars, open, killed>>

\* All n bytes are written, or copyin() failed: wake the readers, return i.
write_done(p) ==
    /\ pc[p] = "write"
    /\ todo[p] = 0 \/ (readopen /\ ~killed[p] /\ ~Full)
    /\ pc' = WakeReaders(p, "user")
    /\ lock' = None
    /\ todo' = [todo EXCEPT ![p] = 0]
    /\ UNCHANGED <<pipeVars, open, killed>>
-----------------------------------------------------------------------------
(***************************************************************************)
(* piperead.                                                               *)
(***************************************************************************)

CallRead(p, n) ==
    /\ pc[p] = "user" /\ ~killed[p]
    /\ todo' = [todo EXCEPT ![p] = n]
    /\ Goto(p, "rlock")
    /\ UNCHANGED <<pipeVars, lock, open, killed>>

\* acquire(&pi->lock), on entry and at the end of sleep(), and the test of
\* the first loop: return -1 if killed while the pipe is empty, go on to
\* sleep(&pi->nread, &pi->lock), or copy.
read_test(p) ==
    /\ pc[p] = "rlock"
    /\ lock = None
    /\ IF Empty /\ writeopen /\ killed[p]
       THEN /\ Goto(p, "user")
            /\ todo' = [todo EXCEPT ![p] = 0]
            /\ UNCHANGED lock
       ELSE /\ Goto(p, IF Empty /\ writeopen THEN "rempty" ELSE "rcopy")
            /\ lock' = p
            /\ UNCHANGED todo
    /\ UNCHANGED <<pipeVars, open, killed>>

read_sleep(p) ==
    /\ pc[p] = "rempty"
    /\ lock' = None
    /\ Goto(p, "rsleep")
    /\ UNCHANGED <<pipeVars, open, todo, killed>>

\* ch = pi->data[pi->nread++ % PIPESIZE]; if copyout() fails the loop ends.
read_byte(p) ==
    /\ pc[p] = "rcopy"
    /\ todo[p] > 0 /\ ~Empty
    /\ nread' = (nread + 1) % UMOD
    /\ \E left \in {todo[p] - 1, 0} : todo' = [todo EXCEPT ![p] = left]
    /\ UNCHANGED <<data, nwrite, readopen, writeopen, freed, lock, open, pc, killed>>

read_done(p) ==
    /\ pc[p] = "rcopy"
    /\ todo[p] = 0 \/ Empty
    /\ pc' = WakeWriters(p, "user")
    /\ lock' = None
    /\ todo' = [todo EXCEPT ![p] = 0]
    /\ UNCHANGED <<pipeVars, open, killed>>
-----------------------------------------------------------------------------
(***************************************************************************)
(* pipeclose, and kill of a process that uses the pipe.                    *)
(***************************************************************************)

\* fileclose() (also in exit()) drops p's reference; the last reference to
\* an end goes on to pipeclose().
fileclose(p) ==
    /\ pc[p] = "user"
    /\ open' = open \ {p}
    /\ LET End == IF p \in Readers THEN Readers ELSE Writers
       IN  Goto(p, IF open' \cap End = {} THEN "close" ELSE "closed")
    /\ UNCHANGED <<pipeVars, lock, todo, killed>>

\* Mutant: the page is freed when the first end is closed.
pipeclose_FreesEarly(p) ==
    /\ pc[p] = "close"
    /\ lock = None
    /\ readopen' = (readopen /\ p \in Writers)
    /\ writeopen' = (writeopen /\ p \notin Writers)
    /\ pc' = IF p \in Writers THEN WakeReaders(p, "closed") ELSE WakeWriters(p, "closed")
    /\ freed' = TRUE
    /\ UNCHANGED <<data, nread, nwrite, lock, open, todo, killed>>

\* Mutant: pipeclose() wakes nobody.
pipeclose_NoWakeup(p) ==
    /\ pc[p] = "close"
    /\ lock = None
    /\ readopen' = (readopen /\ p \in Writers)
    /\ writeopen' = (writeopen /\ p \notin Writers)
    /\ Goto(p, "closed")
    /\ freed' = (~readopen' /\ ~writeopen')
    /\ UNCHANGED <<data, nread, nwrite, lock, open, todo, killed>>

\* pipeclose() under pi->lock; the second end to close frees the page.
pipeclose(p) ==
    /\ pc[p] = "close"
    /\ lock = None
    /\ IF p \in Writers
       THEN /\ writeopen' = FALSE
            /\ UNCHANGED readopen
            /\ pc' = WakeReaders(p, "closed")
       ELSE /\ readopen' = FALSE
            /\ UNCHANGED writeopen
            /\ pc' = WakeWriters(p, "closed")
    /\ freed' = (~readopen' /\ ~writeopen')
    /\ UNCHANGED <<data, nread, nwrite, lock, open, todo, killed>>

\* kill(): set p->killed and make a SLEEPING process RUNNABLE.
kill(p) ==
    /\ ~killed[p] /\ pc[p] # "closed"
    /\ killed' = [killed EXCEPT ![p] = TRUE]
    /\ pc' = CASE pc[p] = "rsleep" -> [pc EXCEPT ![p] = "rlock"]
               [] pc[p] = "wsleep" -> [pc EXCEPT ![p] = "wlock"]
               [] OTHER -> pc
    /\ UNCHANGED <<pipeVars, lock, open, todo>>
-----------------------------------------------------------------------------
\* pipealloc() has made the pipe, and fork() shared its ends.
Init ==
    /\ data \in [0..(PIPESIZE - 1) -> Vals]
    /\ nread = 0 /\ nwrite = 0
    /\ readopen = TRUE /\ writeopen = TRUE /\ freed = FALSE
    /\ lock = None
    /\ open = Procs
    /\ pc = [p \in Procs |-> "user"]
    /\ todo = [p \in Procs |-> 0]
    /\ killed = [p \in Procs |-> FALSE]

\* What a process does on its own once inside the kernel.
Step(p) ==
    \/ write_lock(p) \/ write_fail(p) \/ write_full(p) \/ write_sleep(p)
    \/ write_done(p) \/ \E ch \in Vals : write_byte(p, ch)
    \/ read_test(p) \/ read_sleep(p) \/ read_byte(p) \/ read_done(p)
    \/ pipeclose(p)

\* Everybody has closed its end: the pipe is gone.
Gone == (\A p \in Procs : pc[p] = "closed") /\ UNCHANGED vars

Next ==
    \/ Gone
    \/ \E p \in Procs : Step(p) \/ fileclose(p) \/ kill(p)
    \/ \E p \in Writers, n \in 0..MAXN : CallWrite(p, n)
    \/ \E p \in Readers, n \in 0..MAXN : CallRead(p, n)

Spec == Init /\ [][Next]_vars

\* A process inside the kernel goes on (SF: it may have to spin for the lock
\* while others come and go), and a killed one exits at its next trap.
Fairness ==
    \A p \in Procs :
        /\ SF_vars(Step(p))
        /\ WF_vars(killed[p] /\ fileclose(p))

FairSpec == Spec /\ Fairness
-----------------------------------------------------------------------------
(***************************************************************************)
(* Properties.                                                             *)
(***************************************************************************)

\* pipewrite() returns -1 to a killed writer without wakeup(&pi->nread).
\* That is the only way to lose a wakeup: when no writer has been killed
\* there is none, and a sleeping writer is never forgotten.
WakeupLostOnlyByKill ==
    lock = None =>
        \A p \in Procs :
            /\ pc[p] = "rsleep" => writeopen /\ (Empty \/ \E w \in Writers : killed[w])
            /\ pc[p] = "wsleep" => Full /\ readopen

\* kfree() of the pipe finds nobody inside it: not even a process asleep or
\* waiting for the lock.
NoUseAfterFree ==
    freed => \A p \in Procs : pc[p] \in {"closed"}

\* Whoever is in the middle of a read or write holds pi->lock, and nobody
\* else does; readers are in piperead(), writers in pipewrite().
LockHeld ==
    /\ \A p \in Procs : lock = p <=> pc[p] \in {"write", "wfull", "rempty", "rcopy"}
    /\ \A p \in Readers : pc[p] \notin {"wlock", "write", "wfull", "wsleep"}
    /\ \A p \in Writers : pc[p] \notin {"rlock", "rempty", "rsleep", "rcopy"}

\* Only the last holder of an end gets to pipeclose(), and an end is marked
\* closed when all its holders are gone.
EndsClosed ==
    /\ \A p \in Procs : p \in open <=> pc[p] \notin {"close", "closed"}
    /\ \A p, q \in Procs :
         (p \in Writers <=> q \in Writers) /\ p # q /\ pc[p] = "close" => pc[q] = "closed"
    /\ ~readopen => \A p \in Readers : pc[p] = "closed"
    /\ ~writeopen => \A p \in Writers : pc[p] = "closed"
    /\ freed => ~readopen /\ ~writeopen

\* Why a sleeper may sleep: its condition holds, or whoever made it false has
\* the lock and will call wakeup() before giving it up, or was killed.
Sleepers ==
    \A p \in Procs :
        /\ pc[p] = "rempty" => Empty /\ writeopen
        /\ pc[p] = "rsleep" =>
             writeopen /\ (Empty \/ \E w \in Writers : killed[w] \/ pc[w] = "write")
        /\ pc[p] = "wfull" => Full /\ readopen
        /\ pc[p] = "wsleep" => readopen /\ (Full \/ \E r \in Readers : pc[r] = "rcopy")

\* The bytes in the pipe, oldest first.
Count == (nwrite + UMOD - nread) % UMOD
Contents == [k \in 1..Count |-> data[(nread + k - 1) % PIPESIZE]]

\* Types, the lock, the ends, the sleepers, never more bytes than there is
\* room for, and nobody in a pipe that pipeclose() has freed.
PipeInv ==
    /\ TypeOK /\ LockHeld /\ EndsClosed /\ Sleepers
    /\ Count <= PIPESIZE
    /\ NoUseAfterFree

Ch == INSTANCE Channel WITH
        q <- Contents, ropen <- readopen, wopen <- writeopen, Capacity <- PIPESIZE

\* The pipe is a bounded FIFO, across the wrap-around of the counters.
IsChannel == Ch!Spec

\* When the last holder of one end has closed it, every call on the other
\* end returns: readers get the end of file, writers their error.
HangupDelivered ==
    /\ \A p \in Readers : ~writeopen ~> pc[p] \in {"user", "close", "closed"}
    /\ \A p \in Writers : ~readopen ~> pc[p] \in {"user", "close", "closed"}
=============================================================================
