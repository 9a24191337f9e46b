-------------------------------- MODULE Proc --------------------------------
(***************************************************************************)
(* kernel/proc.c: the process table, the per-CPU schedulers, and           *)
(* fork/exit/wait/kill/sleep/wakeup, on several CPUs.                      *)
(*                                                                         *)
(* The locks wait_lock and p->lock are explicit, because sections that     *)
(* hold them overlap: exit() marks the process ZOMBIE under both and       *)
(* switches to the scheduler still holding p->lock, which the scheduler    *)
(* releases from its own stack.  A lock is held by a CPU, as in            *)
(* spinlock.c.  A section that takes and releases one lock is one step.    *)
(***************************************************************************)
EXTENDS Integers, FiniteSets

CONSTANTS
    NPROC,      \* slots of proc[], numbered from 1
    CPUs,       \* cpus[]
    None        \* no CPU

ASSUME NPROCAssumption == NPROC \in Nat \ {0}
ASSUME CPUsAssumption == IsFiniteSet(CPUs) /\ None \notin CPUs

Slots == 1..NPROC
initproc == 1       \* userinit() takes the first slot
NoProc == 0         \* a null struct proc *

VARIABLES
    state, chan, parent, killed,    \* struct proc, by slot
    plock,      \* plock[s]: the CPU that holds p->lock, or None
    wait_lock,  \* the CPU that holds wait_lock, or None
    run,        \* run[c]: whose kernel stack c is on (NoProc: the scheduler's)
    cproc,      \* cproc[c]: c->proc
    pc,         \* where the kernel thread of each slot is
    idx,        \* idx[s]: loop variable of reparent() and of wait()'s scan
    widx,       \* widx[s]: loop variable of wakeup()
    havekids,   \* havekids[s]: local of wait()
    np,         \* np[s]: local of fork()
    epc,        \* epc[s]: where the timer interrupt came that made s yield
    panicked    \* the function whose panic() was reached, or "no"

procVars == <<state, chan, parent, killed>>
lockVars == <<plock, wait_lock>>
cpuVars == <<run, cproc>>
locals == <<idx, widx, havekids, np, epc>>
vars == <<procVars, lockVars, cpuVars, pc, locals, panicked>>

States == {"UNUSED", "USED", "SLEEPING", "RUNNABLE", "RUNNING", "ZOMBIE"}
PC == {"none", "forkret", "run", "yield", "resched", "sleep", "wakened",
       "wait_lock", "scan", "wait_check", "wait_sleep",
       "reparent", "wakeup_init", "wakeup_parent", "exit_lock", "zombie",
       "fork_parent", "fork_run"}

\* Where a thread holds no lock, so that interrupts are on: in user mode and in
\* most of the kernel ("run"), between the sections of fork(), and at the end
\* of sleep().
Interruptible == {"run", "fork_parent", "fork_run", "wait_lock"}

TypeOK ==
    /\ state \in [Slots -> States]
    /\ chan \in [Slots -> Slots \cup {NoProc}]
    /\ parent \in [Slots -> Slots \cup {NoProc}]
    /\ killed \in [Slots -> BOOLEAN]
    /\ plock \in [Slots -> CPUs \cup {None}]
    /\ wait_lock \in CPUs \cup {None}
    /\ run \in [CPUs -> Slots \cup {NoProc}]
    /\ cproc \in [CPUs -> Slots \cup {NoProc}]
    /\ pc \in [Slots -> PC]
    /\ idx \in [Slots -> 1..(NPROC + 1)]
    /\ widx \in [Slots -> 1..(NPROC + 1)]
    /\ havekids \in [Slots -> BOOLEAN]
    /\ np \in [Slots -> Slots \cup {NoProc}]
    /\ epc \in [Slots -> Interruptible]
    /\ panicked \in {"no", "sched", "exit"}

\* The kernel thread of slot s is at label l, on CPU c.
At(s, c, l) == run[c] = s /\ pc[s] = l

Goto(s, l) == pc' = [pc EXCEPT ![s] = l]

\* acquire(&p->lock) and release(&p->lock) by CPU c.
Acquire(s, c) == plock[s] = None /\ plock' = [plock EXCEPT ![s] = c]
Release(s) == plock' = [plock EXCEPT ![s] = None]

SetState(s, st) == state' = [state EXCEPT ![s] = st]
-----------------------------------------------------------------------------
(***************************************************************************)
(* The scheduler and the switches between it and the processes.            *)
(***************************************************************************)

\* scheduler(): run a RUNNABLE process, keeping its lock through the switch.
scheduler(c, s) ==
    /\ run[c] = NoProc
    /\ cproc[c] = NoProc
    /\ state[s] = "RUNNABLE"
    /\ Acquire(s, c)
    /\ SetState(s, "RUNNING")
    /\ cproc' = [cproc EXCEPT ![c] = s]
    /\ run' = [run EXCEPT ![c] = s]
    /\ UNCHANGED <<chan, parent, killed, wait_lock, pc, locals, panicked>>

\* scheduler(), back from the process: c->proc = 0; release(&p->lock).
scheduler_back(c) ==
    /\ run[c] = NoProc
    /\ cproc[c] # NoProc
    /\ cproc' = [cproc EXCEPT ![c] = NoProc]
    /\ Release(cproc[c])
    /\ UNCHANGED <<procVars, wait_lock, run, pc, locals, panicked>>

\* mycpu()->noff: the locks c holds.
noff(c) == Cardinality({s \in Slots : plock[s] = c}) + IF wait_lock = c THEN 1 ELSE 0

\* The three panics of sched() that depend on locks and state.
SchedPanics(s, c) == plock[s] # c \/ noff(c) # 1 \/ state[s] = "RUNNING"

\* Where a thread that called sched() continues when it is next scheduled; a
\* zombie would run into panic("zombie exit").
Resume == [yield |-> "resched", sleep |-> "wakened", zombie |-> "zombie"]

\* sched(): leave the process's stack for the scheduler's.
sched(s, c) ==
    /\ run[c] = s
    /\ pc[s] \in DOMAIN Resume
    /\ Goto(s, Resume[pc[s]])
    /\ run' = [run EXCEPT ![c] = NoProc]
    /\ panicked' = IF SchedPanics(s, c) THEN "sched" ELSE panicked
    /\ UNCHANGED <<procVars, lockVars, cproc, locals>>

\* Mutant: yield() does not take p->lock.
yield_Unlocked(s, c) ==
    /\ run[c] = s /\ pc[s] \in Interruptible
    /\ epc' = [epc EXCEPT ![s] = pc[s]]
    /\ SetState(s, "RUNNABLE")
    /\ Goto(s, "yield")
    /\ UNCHANGED <<chan, parent, killed, lockVars, cpuVars, idx, widx, havekids, np, panicked>>

\* usertrap() and kerneltrap() call yield() for a timer interrupt.
yield(s, c) ==
    /\ run[c] = s /\ pc[s] \in Interruptible
    /\ epc' = [epc EXCEPT ![s] = pc[s]]
    /\ Acquire(s, c)
    /\ SetState(s, "RUNNABLE")
    /\ Goto(s, "yield")
    /\ UNCHANGED <<chan, parent, killed, wait_lock, cpuVars, idx, widx, havekids, np, panicked>>

\* The end of yield(), and forkret(): release the lock the scheduler took.
yield_back(s, c) ==
    /\ At(s, c, "resched") \/ At(s, c, "forkret")
    /\ Release(s)
    /\ Goto(s, IF pc[s] = "resched" THEN epc[s] ELSE "run")
    /\ epc' = [epc EXCEPT ![s] = "run"]
    /\ UNCHANGED <<procVars, wait_lock, cpuVars, idx, widx, havekids, np, panicked>>
-----------------------------------------------------------------------------
(***************************************************************************)
(* sleep (called by wait()) and wakeup (called by exit()).                 *)
(***************************************************************************)

\* sleep(p, &wait_lock): take p->lock, give up wait_lock.
sleep(s, c) ==
    /\ At(s, c, "wait_sleep")
    /\ Acquire(s, c)
    /\ wait_lock' = None
    /\ chan' = [chan EXCEPT ![s] = s]
    /\ SetState(s, "SLEEPING")
    /\ Goto(s, "sleep")
    /\ UNCHANGED <<parent, killed, cpuVars, locals, panicked>>

\* The end of sleep(), up to acquire(lk).
sleep_back(s, c) ==
    /\ At(s, c, "wakened")
    /\ chan' = [chan EXCEPT ![s] = NoProc]
    /\ Release(s)
    /\ Goto(s, "wait_lock")
    /\ UNCHANGED <<state, parent, killed, wait_lock, cpuVars, locals, panicked>>

\* What wakeup(ch) does to one slot.
Wake(t, ch) == IF state[t] = "SLEEPING" /\ chan[t] = ch
               THEN SetState(t, "RUNNABLE") ELSE UNCHANGED state

\* One iteration of wakeup(ch): the other slots one by one, under their lock.
wakeup(s, ch, back) ==
    /\ IF widx[s] > NPROC
       THEN /\ Goto(s, back)
            /\ idx' = [idx EXCEPT ![s] = IF @ <= NPROC THEN @ + 1 ELSE @]
            /\ UNCHANGED <<state, widx>>
       ELSE /\ \/ widx[s] = s /\ UNCHANGED state
               \/ widx[s] # s /\ plock[widx[s]] = None /\ Wake(widx[s], ch)
            /\ widx' = [widx EXCEPT ![s] = @ + 1]
            /\ UNCHANGED <<pc, idx>>
    /\ UNCHANGED <<chan, parent, killed, lockVars, cpuVars, havekids, np, epc, panicked>>
-----------------------------------------------------------------------------
(***************************************************************************)
(* fork.                                                                   *)
(***************************************************************************)

\* allocproc() finds a free slot t, under t's lock (not always the first one:
\* slots it has passed may be freed meanwhile); fork() fills it in.
fork(s, c, t) ==
    /\ At(s, c, "run") /\ ~killed[s]
    /\ state[t] = "UNUSED" /\ plock[t] = None
    /\ SetState(t, "USED")
    /\ np' = [np EXCEPT ![s] = t]
    /\ Goto(s, "fork_parent")
    /\ UNCHANGED <<chan, parent, killed, lockVars, cpuVars, idx, widx, havekids, epc, panicked>>

\* fork() runs out of memory: freeproc(np).
fork_fail(s, c, t) ==
    /\ At(s, c, "run") /\ ~killed[s]
    /\ state[t] = "UNUSED" /\ plock[t] = None
    /\ killed' = [killed EXCEPT ![t] = FALSE]
    /\ UNCHANGED <<state, chan, parent, lockVars, cpuVars, pc, locals, panicked>>

\* np->parent = p, under wait_lock.
fork_parent(s, c) ==
    /\ At(s, c, "fork_parent")
    /\ wait_lock = None
    /\ parent' = [parent EXCEPT ![np[s]] = s]
    /\ Goto(s, "fork_run")
    /\ UNCHANGED <<state, chan, killed, lockVars, cpuVars, locals, panicked>>

\* np->state = RUNNABLE, under np->lock; the child will start in forkret().
fork_run(s, c) ==
    /\ At(s, c, "fork_run")
    /\ plock[np[s]] = None
    /\ SetState(np[s], "RUNNABLE")
    /\ pc' = [pc EXCEPT ![s] = "run", ![np[s]] = "forkret"]
    /\ np' = [np EXCEPT ![s] = NoProc]
    /\ UNCHANGED <<chan, parent, killed, lockVars, cpuVars, idx, widx, havekids, epc, panicked>>
-----------------------------------------------------------------------------
(***************************************************************************)
(* exit.                                                                   *)
(***************************************************************************)

\* acquire(&wait_lock), after the files are closed.
exit(s, c) ==
    /\ At(s, c, "run")
    /\ s # initproc
    /\ wait_lock = None
    /\ wait_lock' = c
    /\ idx' = [idx EXCEPT ![s] = 1]
    /\ Goto(s, "reparent")
    /\ UNCHANGED <<procVars, plock, cpuVars, widx, havekids, np, epc, panicked>>

\* panic("init exiting"): init was killed, or calls exit(1) because its fork()
\* or wait() failed (user/init.c).
exit_init(c) ==
    /\ At(initproc, c, "run")
    /\ panicked' = "exit"
    /\ UNCHANGED <<procVars, lockVars, cpuVars, pc, locals>>

\* One iteration of reparent()'s loop, and the step out of it.
reparent(s, c) ==
    /\ At(s, c, "reparent")
    /\ IF idx[s] > NPROC
       THEN /\ Goto(s, "wakeup_parent")
            /\ widx' = [widx EXCEPT ![s] = 1]
            /\ UNCHANGED <<parent, idx>>
       ELSE IF parent[idx[s]] = s
       THEN /\ parent' = [parent EXCEPT ![idx[s]] = initproc]
            /\ Goto(s, "wakeup_init")
            /\ widx' = [widx EXCEPT ![s] = 1]
            /\ UNCHANGED idx
       ELSE /\ idx' = [idx EXCEPT ![s] = @ + 1]
            /\ UNCHANGED <<parent, pc, widx>>
    /\ UNCHANGED <<state, chan, killed, lockVars, cpuVars, havekids, np, epc, panicked>>

\* Mutant: exit() does not wake the parent.
exit_wakeup_NotParent(s, c) ==
    \/ At(s, c, "wakeup_init") /\ wakeup(s, initproc, "reparent")
    \/ /\ At(s, c, "wakeup_parent")
       /\ Goto(s, "exit_lock")
       /\ UNCHANGED <<procVars, lockVars, cpuVars, locals, panicked>>

\* wakeup(initproc) in reparent(), and wakeup(p->parent) in exit().
exit_wakeup(s, c) ==
    \/ At(s, c, "wakeup_init") /\ wakeup(s, initproc, "reparent")
    \/ At(s, c, "wakeup_parent") /\ wakeup(s, parent[s], "exit_lock")

\* Become a zombie under p->lock, release wait_lock, go to sched().
exit_zombie(s, c) ==
    /\ At(s, c, "exit_lock")
    /\ Acquire(s, c)
    /\ SetState(s, "ZOMBIE")
    /\ wait_lock' = None
    /\ Goto(s, "zombie")
    /\ UNCHANGED <<chan, parent, killed, cpuVars, locals, panicked>>
-----------------------------------------------------------------------------
(***************************************************************************)
(* wait.                                                                   *)
(***************************************************************************)

\* acquire(&wait_lock), on entry or at the end of sleep(); start the scan.
wait(s, c) ==
    /\ At(s, c, "wait_lock") \/ (At(s, c, "run") /\ ~killed[s])
    /\ wait_lock = None
    /\ wait_lock' = c
    /\ idx' = [idx EXCEPT ![s] = 1]
    /\ havekids' = [havekids EXCEPT ![s] = FALSE]
    /\ Goto(s, "scan")
    /\ UNCHANGED <<procVars, plock, cpuVars, widx, np, epc, panicked>>

\* freeproc(t): also called by a wait() that reaps t.
freeproc(t) ==
    /\ SetState(t, "UNUSED")
    /\ parent' = [parent EXCEPT ![t] = NoProc]
    /\ chan' = [chan EXCEPT ![t] = NoProc]
    /\ killed' = [killed EXCEPT ![t] = FALSE]

\* Mutant: wait() does not take the lock of the child.
wait_reap_Unlocked(s, c) ==
    /\ At(s, c, "scan")
    /\ idx[s] <= NPROC
    /\ LET t == idx[s] IN
         /\ parent[t] = s /\ state[t] = "ZOMBIE"
         /\ freeproc(t)
         /\ pc' = [pc EXCEPT ![s] = "run", ![t] = "none"]
    /\ wait_lock' = None
    /\ UNCHANGED <<plock, cpuVars, locals, panicked>>

\* A zombie child found by the scan: reap it and return its pid.
wait_reap(s, c) ==
    /\ At(s, c, "scan")
    /\ idx[s] <= NPROC
    /\ LET t == idx[s] IN
         /\ parent[t] = s /\ plock[t] = None /\ state[t] = "ZOMBIE"
         /\ freeproc(t)
         /\ pc' = [pc EXCEPT ![s] = "run", ![t] = "none"]
    /\ wait_lock' = None
    /\ UNCHANGED <<plock, cpuVars, locals, panicked>>

\* The scan passes a slot that is not a zombie child (under the child's lock).
wait_scan(s, c) ==
    /\ At(s, c, "scan")
    /\ LET t == idx[s] IN
         \/ /\ t > NPROC
            /\ Goto(s, "wait_check")
            /\ UNCHANGED <<idx, havekids>>
         \/ /\ t <= NPROC /\ parent[t] # s
            /\ idx' = [idx EXCEPT ![s] = @ + 1]
            /\ UNCHANGED <<pc, havekids>>
         \/ /\ t <= NPROC /\ parent[t] = s /\ plock[t] = None /\ state[t] # "ZOMBIE"
            /\ idx' = [idx EXCEPT ![s] = @ + 1]
            /\ havekids' = [havekids EXCEPT ![s] = TRUE]
            /\ UNCHANGED pc
    /\ UNCHANGED <<procVars, lockVars, cpuVars, widx, np, epc, panicked>>

\* copyout() of the status fails: wait() returns -1 and the zombie stays.
wait_copyout_fail(s, c) ==
    /\ At(s, c, "scan")
    /\ idx[s] <= NPROC
    /\ parent[idx[s]] = s /\ plock[idx[s]] = None /\ state[idx[s]] = "ZOMBIE"
    /\ s # initproc
    /\ wait_lock' = None
    /\ Goto(s, "run")
    /\ UNCHANGED <<procVars, plock, cpuVars, locals, panicked>>

\* Mutant: wait_lock is released before sleep() has taken p->lock.
wait_check_Unlocks(s, c) ==
    /\ At(s, c, "wait_check")
    /\ Goto(s, IF ~havekids[s] \/ killed[s] THEN "run" ELSE "wait_sleep")
    /\ wait_lock' = None
    /\ UNCHANGED <<procVars, plock, cpuVars, locals, panicked>>

\* if(!havekids || p->killed) return -1; otherwise sleep.
wait_check(s, c) ==
    /\ At(s, c, "wait_check")
    /\ IF ~havekids[s] \/ killed[s]
       THEN Goto(s, "run") /\ wait_lock' = None
       ELSE Goto(s, "wait_sleep") /\ UNCHANGED wait_lock
    /\ UNCHANGED <<procVars, plock, cpuVars, locals, panicked>>
-----------------------------------------------------------------------------
(***************************************************************************)
(* kill.                                                                   *)
(***************************************************************************)

\* kill(pid), at the slot with that pid.  pid 0 matches the free slots.
kill(s, c, t) ==
    /\ At(s, c, "run") /\ ~killed[s]
    /\ plock[t] = None
    /\ killed' = [killed EXCEPT ![t] = TRUE]
    /\ IF state[t] = "SLEEPING" THEN SetState(t, "RUNNABLE") ELSE UNCHANGED state
    /\ UNCHANGED <<chan, parent, lockVars, cpuVars, pc, locals, panicked>>
-----------------------------------------------------------------------------
\* userinit() has made the first process; every CPU is in its scheduler.
Init ==
    /\ state = [s \in Slots |-> IF s = initproc THEN "RUNNABLE" ELSE "UNUSED"]
    /\ chan = [s \in Slots |-> NoProc]
    /\ parent = [s \in Slots |-> NoProc]
    /\ killed = [s \in Slots |-> FALSE]
    /\ plock = [s \in Slots |-> None]
    /\ wait_lock = None
    /\ run = [c \in CPUs |-> NoProc]
    /\ cproc = [c \in CPUs |-> NoProc]
    /\ pc = [s \in Slots |-> IF s = initproc THEN "forkret" ELSE "none"]
    /\ idx = [s \in Slots |-> 1]
    /\ widx = [s \in Slots |-> 1]
    /\ havekids = [s \in Slots |-> FALSE]
    /\ np = [s \in Slots |-> NoProc]
    /\ epc = [s \in Slots |-> "run"]
    /\ panicked = "no"

\* Steps a thread takes on its own once it has entered the kernel.
KernelStep(s, c) ==
    \/ sched(s, c) \/ yield_back(s, c) \/ sleep(s, c) \/ sleep_back(s, c)
    \/ fork_parent(s, c) \/ fork_run(s, c)
    \/ reparent(s, c) \/ exit_wakeup(s, c) \/ exit_zombie(s, c)
    \/ (pc[s] = "wait_lock" /\ wait(s, c))
    \/ wait_reap(s, c) \/ wait_scan(s, c) \/ wait_check(s, c)

Alive == panicked = "no"

\* panic() prints and loops for ever.
Halted == ~Alive /\ UNCHANGED vars

Next ==
    \/ Halted
    \/ /\ Alive
       /\ \E c \in CPUs :
            \/ scheduler_back(c) \/ exit_init(c)
            \/ \E s \in Slots :
                 \/ scheduler(c, s) \/ KernelStep(s, c)
                 \/ yield(s, c) \/ wait(s, c) \/ wait_copyout_fail(s, c) \/ exit(s, c)
                 \/ \E t \in Slots : fork(s, c, t) \/ fork_fail(s, c, t) \/ kill(s, c, t)

Spec == Init /\ [][Next]_vars

\* scheduler()'s loop reaches every slot, init's too; timer interrupts keep
\* making processes yield; a thread inside the kernel goes on, also when it is
\* interrupted, since it runs for a while between two ticks; init calls wait()
\* for ever (user/init.c).  On one CPU nobody spins on a lock, so weak fairness
\* is enough for the other steps that take one.
Fairness ==
    /\ \A c \in CPUs : WF_vars(Alive /\ scheduler_back(c))
    /\ \A s \in Slots : WF_vars(Alive /\ \E c \in CPUs : KernelStep(s, c))
    /\ WF_vars(Alive /\ \E c \in CPUs, s \in Slots : scheduler(c, s))
    /\ SF_vars(Alive /\ \E c \in CPUs : scheduler(c, initproc))
    /\ SF_vars(Alive /\ \E c \in CPUs, s \in Slots : yield(s, c))
    /\ SF_vars(Alive /\ \E c \in CPUs :
                 wait(initproc, c) \/ fork_parent(initproc, c) \/ fork_run(initproc, c))

FairSpec == Spec /\ Fairness
-----------------------------------------------------------------------------
(***************************************************************************)
(* Properties.                                                             *)
(***************************************************************************)

\* A process runs on at most one CPU, and outside the sections under its
\* p->lock it is RUNNING exactly when some CPU is on its kernel stack.
RunState ==
    /\ \A c, d \in CPUs : run[c] = run[d] /\ run[c] # NoProc => c = d
    /\ \A s \in Slots : plock[s] = None =>
         (state[s] = "RUNNING" <=> \E c \in CPUs : run[c] = s)

\* Where a thread holds its own p->lock: from yield(), sleep() or exit() to
\* the scheduler, and from the scheduler back.
SwitchPC == {"yield", "sleep", "zombie", "resched", "wakened", "forkret"}

\* Where a thread holds wait_lock: in exit() and in wait().
WaitPC == {"scan", "wait_check", "wait_sleep",
           "reparent", "wakeup_init", "wakeup_parent", "exit_lock"}

\* Only c->proc's lock is ever kept by a CPU from one step to the next, and
\* it is kept exactly through a switch.
Switching ==
    /\ \A c \in CPUs : run[c] # NoProc => cproc[c] = run[c]
    /\ \A c, d \in CPUs : cproc[c] = cproc[d] /\ cproc[c] # NoProc => c = d
    /\ \A s \in Slots, c \in CPUs : plock[s] = c => cproc[c] = s
    /\ \A s \in Slots, c \in CPUs : cproc[c] = s =>
         /\ pc[s] # "none"
         /\ plock[s] = c <=> run[c] = NoProc \/ pc[s] \in SwitchPC

\* wait_lock is held exactly by the CPU that runs exit() or wait().
WaitLock ==
    \A c \in CPUs :
        wait_lock = c <=> run[c] # NoProc /\ pc[run[c]] \in WaitPC

\* The states a process can be in, by where its thread is: on a CPU, or not.
StateOn(l) ==
    IF l = "yield" THEN {"RUNNABLE"} ELSE IF l = "sleep" THEN {"SLEEPING"}
    ELSE IF l = "zombie" THEN {"ZOMBIE"} ELSE IF l = "none" THEN {} ELSE {"RUNNING"}
StateOff(l) ==
    IF l = "none" THEN {"UNUSED", "USED"} ELSE IF l \in {"resched", "forkret"} THEN {"RUNNABLE"}
    ELSE IF l = "wakened" THEN {"RUNNABLE", "SLEEPING"}
    ELSE IF l = "zombie" THEN {"ZOMBIE"} ELSE {}

StateByPC ==
    \A s \in Slots :
        /\ \A c \in CPUs : run[c] = s => state[s] \in StateOn(pc[s])
        /\ (\A c \in CPUs : run[c] # s) => state[s] \in StateOff(pc[s])

\* fork() fills in a slot that nobody else is given.
ForkPC == {"fork_parent", "fork_run"}
InFork(s) == pc[s] \in ForkPC \/ epc[s] \in ForkPC
Forking ==
    \A s \in Slots :
        /\ epc[s] # "run" => pc[s] \in {"yield", "resched"}
        /\ InFork(s) =>
             /\ np[s] \in Slots /\ state[np[s]] = "USED"
             /\ pc[s] = "fork_run" \/ epc[s] = "fork_run" => parent[np[s]] = s
             /\ \A t \in Slots : InFork(t) /\ np[t] = np[s] => t = s

\* wait() never frees a process some CPU is still using: on its stack, or as
\* c->proc in the switch ("make sure the child isn't still in exit() or
\* swtch()", proc.c:397).
StackSafe ==
    \A c \in CPUs, s \in Slots :
        run[c] = s \/ cproc[c] = s => state[s] \notin {"UNUSED", "USED"}

\* sched() is only ever called with p->lock as the one lock held, after the
\* state was changed.
NoSchedPanic == panicked # "sched"

\* init has no parent, and exit() never runs for it.
InitStays ==
    /\ state[initproc] \notin {"UNUSED", "USED"}
    /\ parent[initproc] = NoProc
    /\ pc[initproc] \notin {"reparent", "wakeup_init", "wakeup_parent", "exit_lock", "zombie"}

\* exit() has given away the children in the slots reparent() has passed.
Reparented ==
    \A s, t \in Slots : parent[t] = s =>
        /\ pc[s] \in {"reparent", "wakeup_init"} => t >= idx[s]
        /\ pc[s] = "wakeup_init" => t # idx[s]
        /\ pc[s] \notin {"wakeup_parent", "exit_lock", "zombie"}

\* wait() has found no zombie among the children its scan has passed.
Scanned ==
    \A s, t \in Slots : parent[t] = s /\ state[t] = "ZOMBIE" =>
        /\ pc[s] = "scan" => t >= idx[s]
        /\ pc[s] \notin {"wait_check", "wait_sleep"}

InWait(s) == state[s] = "SLEEPING" /\ chan[s] = s

\* The parent of an exiting process is awake once wakeup() has passed it, and
\* stays awake because wait_lock is held.
ParentWoken ==
    \A s, t \in Slots : parent[t] = s /\ InWait(s) =>
        /\ pc[t] = "wakeup_parent" => widx[t] <= s
        /\ pc[t] # "exit_lock"

\* No lost wakeup between exit() and wait(): a parent asleep in wait() has no
\* zombie child, but for init, while an exit() that gave it one is about to
\* wake it.
NoLostChild ==
    \A s, t \in Slots : InWait(s) /\ parent[t] = s /\ state[t] = "ZOMBIE" =>
        /\ s = initproc
        /\ \E p \in Slots : pc[p] = "wakeup_init" /\ widx[p] <= s

\* Every process but init has a parent that can still call wait(): reparent()
\* leaves no child of an exited process behind.
NoOrphan ==
    \A s \in Slots \ {initproc} :
        state[s] \notin {"UNUSED", "USED"} =>
            parent[s] # NoProc /\ state[parent[s]] \notin {"UNUSED", "USED", "ZOMBIE"}

\* State, CPU and locks of a process fit together at every step of the switch
\* between processes (scheduler, sched, yield, sleep, exit).
ProcInv ==
    TypeOK /\ Switching /\ WaitLock /\ StateByPC /\ Forking /\ RunState /\ NoSchedPanic

\* Every process has a parent that can reap it and is awake for it.
Family ==
    InitStays /\ Reparented /\ Scanned /\ ParentWoken /\ NoLostChild /\ NoOrphan

\* init's scan has reached a zombie child.
InitReaps ==
    /\ pc[initproc] = "scan" /\ idx[initproc] <= NPROC
    /\ parent[idx[initproc]] = initproc /\ state[idx[initproc]] = "ZOMBIE"

\* A child that died, or was inherited as an orphan, brings init out of
\* sleep() and through the locks to a zombie to reap.  (To a zombie: the scan
\* starts at the first slot every time, so one in a later slot can be passed
\* over as long as new ones keep dying in earlier slots.)  Nothing stops a
\* process from killing init, which then ends in panic("init exiting"), as it
\* does when init finds no memory to fork.
ZombiesReaped ==
    \A s \in Slots :
        state[s] = "ZOMBIE" /\ parent[s] = initproc ~> InitReaps \/ killed[initproc] \/ panicked = "exit"
=============================================================================
