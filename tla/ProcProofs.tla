----------------------------- MODULE ProcProofs -----------------------------
(***************************************************************************)
(* Proofs about Proc, for any number of slots and of CPUs: the locks, CPUs *)
(* and states of the processes fit together through every switch, no       *)
(* process is freed while a CPU still uses it, and between exit() and      *)
(* wait() no child is lost.                                                *)
(***************************************************************************)
EXTENDS Proc, TLAPS, FiniteSetTheorems

\* What CPU c can do, alone or with the process s (and t).
Step(s, c) ==
    \/ scheduler_back(c) \/ exit_init(c)
    \/ scheduler(c, s) \/ KernelStep(s, c)
    \/ yield(s, c) \/ wait(s, c) \/ wait_copyout_fail(s, c) \/ exit(s, c)
    \/ \E t \in Slots : fork(s, c, t) \/ fork_fail(s, c, t) \/ kill(s, c, t)

\* Every step is a CPU's, or changes nothing.
LEMMA NextIsStep ==
  ASSUME [Next]_vars
  PROVE  UNCHANGED vars \/ \E c \in CPUs, s \in Slots : Step(s, c)
<1>1. 1 \in Slots
  BY NPROCAssumption DEF Slots
<1> QED
  BY <1>1 DEF Next, Halted, Step

\* The numbers of the slots are not the null pointer, and CPUs are not None.
LEMMA Basic ==
  /\ NoProc \notin Slots /\ initproc \in Slots /\ None \notin CPUs
  /\ Slots \subseteq Nat /\ NPROC \in Nat \ {0}
BY NPROCAssumption, CPUsAssumption DEF Slots, NoProc, initproc

\* A process that is not RUNNING and whose lock is free is on no CPU.
LEMMA OffCPU ==
  ASSUME ProcInv, NEW s \in Slots, plock[s] = None, state[s] # "RUNNING"
  PROVE  /\ \A d \in CPUs : cproc[d] # s /\ run[d] # s
         /\ state[s] \in StateOff(pc[s])
<1>0. TypeOK /\ Switching /\ StateByPC
  BY DEF ProcInv
<1>1. ASSUME NEW d \in CPUs, run[d] = s PROVE FALSE
  <2>1. pc[s] \notin SwitchPC
    BY <1>0, <1>1, Basic DEF Switching
  <2>2. state[s] \in StateOn(pc[s])
    BY <1>0, <1>1 DEF StateByPC
  <2> QED
    BY <2>1, <2>2 DEF StateOn, SwitchPC
<1>2. ASSUME NEW d \in CPUs, cproc[d] = s PROVE run[d] = s
  BY <1>0, <1>2, Basic DEF Switching, TypeOK
<1> QED
  BY <1>0, <1>1, <1>2 DEF StateByPC

\* A thread that moves between two places alike for wait_lock keeps it so.
LEMMA WaitLockKept ==
  ASSUME TypeOK, Switching, WaitLock, NEW c \in CPUs, NEW s \in Slots, run[c] = s,
         run' = run, wait_lock' = wait_lock, NEW l,
         pc' = [pc EXCEPT ![s] = l], l \in WaitPC <=> pc[s] \in WaitPC
  PROVE  WaitLock'
<1>1. ASSUME NEW d \in CPUs, run[d] # NoProc PROVE pc'[run[d]] \in WaitPC <=> pc[run[d]] \in WaitPC
  <2>1. CASE run[d] = s
    BY <2>1 DEF TypeOK
  <2>2. CASE run[d] # s
    BY <2>2, <1>1 DEF TypeOK
  <2> QED
    BY <2>1, <2>2
<1> QED
  BY <1>1, Basic DEF WaitLock

\* A loop over the slots is at a slot until it is past the last one.
LEMMA Increment ==
  ASSUME NEW i \in 1..(NPROC + 1), i <= NPROC
  PROVE  i \in Slots /\ i + 1 \in 1..(NPROC + 1)
BY NPROCAssumption DEF Slots

\* Steps keep the types.
LEMMA TypeStep ==
  ASSUME ProcInv, NEW c \in CPUs, NEW s \in Slots, Step(s, c)
  PROVE  TypeOK'
<1>0. TypeOK /\ Forking
  BY DEF ProcInv
<1>1. CASE scheduler_back(c)
  BY <1>0, <1>1, Basic DEF scheduler_back, TypeOK, States, PC, Release, procVars, locals
<1>2. CASE exit_init(c)
  BY <1>0, <1>2, Basic DEF exit_init, TypeOK, States, PC, At, procVars, lockVars,
     cpuVars, locals
<1>3. CASE scheduler(c, s)
  BY <1>0, <1>3, Basic DEF scheduler, TypeOK, States, PC, Acquire, SetState, locals
<1>4. CASE sched(s, c)
  BY <1>0, <1>4, Basic DEF sched, TypeOK, States, PC, Resume, Goto, procVars, lockVars,
     locals
<1>5. CASE yield_back(s, c)
  BY <1>0, <1>5, Basic DEF yield_back, TypeOK, Interruptible, States, PC, At, Goto,
     Release, procVars, cpuVars, locals
<1>6. CASE sleep(s, c)
  BY <1>0, <1>6, Basic DEF sleep, TypeOK, States, PC, At, Goto, Acquire, SetState,
     cpuVars, locals
<1>7. CASE sleep_back(s, c)
  BY <1>0, <1>7, Basic DEF sleep_back, TypeOK, States, PC, At, Goto, Release, cpuVars,
     locals
<1>8. CASE fork_parent(s, c)
  BY <1>0, <1>8, Basic DEF fork_parent, TypeOK, States, PC, At, Goto, lockVars, cpuVars,
     locals
<1>9. CASE fork_run(s, c)
  BY <1>0, <1>9, Basic DEF fork_run, TypeOK, States, PC, At, SetState, lockVars, cpuVars
<1>10. CASE reparent(s, c)
  BY <1>0, <1>10, Basic DEF reparent, TypeOK, States, PC, At, Goto, lockVars, cpuVars
<1>11. CASE exit_wakeup(s, c)
  BY <1>0, <1>11, Basic DEF exit_wakeup, wakeup, Wake, TypeOK, States, PC, At, Goto,
     SetState, lockVars, cpuVars
<1>12. CASE exit_zombie(s, c)
  BY <1>0, <1>12, Basic DEF exit_zombie, TypeOK, States, PC, At, Goto, Acquire,
     SetState, cpuVars, locals
<1>13. CASE wait(s, c)
  BY <1>0, <1>13, Basic DEF wait, TypeOK, States, PC, At, Goto, procVars, cpuVars
<1>14. CASE wait_reap(s, c)
  BY <1>0, <1>14, Basic DEF wait_reap, freeproc, TypeOK, States, PC, At, SetState,
     cpuVars, locals
<1>15. CASE wait_scan(s, c)
  <2>1. idx[s] \in 1..(NPROC + 1) /\ pc[s] \in PC
    BY <1>0 DEF TypeOK
  <2>2. idx' \in [Slots -> 1..(NPROC + 1)]
    <3>1. idx' = idx \/ (idx[s] <= NPROC /\ idx' = [idx EXCEPT ![s] = idx[s] + 1])
      BY <1>15 DEF wait_scan
    <3> QED
      BY <1>0, <2>1, <3>1, Increment DEF TypeOK
  <2>3. pc' \in [Slots -> PC] /\ havekids' \in [Slots -> BOOLEAN]
    BY <1>0, <1>15 DEF wait_scan, TypeOK, PC, Goto
  <2> QED
    BY <1>0, <1>15, <2>2, <2>3 DEF wait_scan, TypeOK, procVars, lockVars, cpuVars
<1>16. CASE wait_check(s, c)
  BY <1>0, <1>16, Basic DEF wait_check, TypeOK, States, PC, At, Goto, procVars, cpuVars,
     locals
<1>17. CASE yield(s, c)
  BY <1>0, <1>17, Basic DEF yield, TypeOK, Interruptible, States, PC, At, Goto, Acquire,
     SetState, cpuVars, locals
<1>18. CASE wait_copyout_fail(s, c)
  BY <1>0, <1>18, Basic DEF wait_copyout_fail, TypeOK, States, PC, At, Goto, procVars,
     cpuVars, locals
<1>19. CASE exit(s, c)
  BY <1>0, <1>19, Basic DEF exit, TypeOK, States, PC, At, Goto, procVars, cpuVars
<1>20. ASSUME NEW t \in Slots, fork(s, c, t) PROVE TypeOK'
  BY <1>0, <1>20, Basic DEF fork, TypeOK, States, PC, At, Goto, SetState, lockVars,
     cpuVars
<1>21. ASSUME NEW t \in Slots, fork_fail(s, c, t) PROVE TypeOK'
  BY <1>0, <1>21, Basic DEF fork_fail, TypeOK, States, PC, At, lockVars, cpuVars, locals
<1>22. ASSUME NEW t \in Slots, kill(s, c, t) PROVE TypeOK'
  BY <1>0, <1>22, Basic DEF kill, TypeOK, States, PC, At, SetState, lockVars, cpuVars,
     locals
<1> QED
  BY <1>1, <1>2, <1>3, <1>4, <1>5, <1>6, <1>7, <1>8, <1>9, <1>10, <1>11, <1>12, <1>13,
     <1>14, <1>15, <1>16, <1>17, <1>18, <1>19, <1>20, <1>21, <1>22 DEF Step, KernelStep

\* Steps keep p->lock with the switch it protects.
LEMMA SwitchStep ==
  ASSUME ProcInv, NEW c \in CPUs, NEW s \in Slots, Step(s, c)
  PROVE  Switching'
<1>0. TypeOK /\ Switching /\ StateByPC /\ Forking
  BY DEF ProcInv
<1>1. CASE scheduler_back(c)
  BY <1>0, <1>1, Basic DEF scheduler_back, TypeOK, Switching, SwitchPC, Release,
     procVars, locals
<1>2. CASE exit_init(c)
  BY <1>0, <1>2, Basic DEF exit_init, TypeOK, Switching, SwitchPC, At, procVars,
     lockVars, cpuVars, locals
<1>3. CASE scheduler(c, s)
  <2>1. /\ \A d \in CPUs : cproc[d] # s /\ run[d] # s
        /\ state[s] \in StateOff(pc[s])
    BY <1>3, OffCPU DEF scheduler, Acquire
  <2>2. pc[s] \in SwitchPC /\ pc[s] # "none"
    BY <2>1, <1>3 DEF scheduler, StateOff, SwitchPC
  <2> QED
    BY <1>0, <1>3, <2>1, <2>2, Basic DEF scheduler, Acquire, SetState, Switching, TypeOK
<1>4. CASE sched(s, c)
  BY <1>0, <1>4, Basic DEF sched, TypeOK, Switching, SwitchPC, Resume, Goto, procVars,
     lockVars, locals
<1>5. CASE yield_back(s, c)
  BY <1>0, <1>5, Basic DEF yield_back, TypeOK, Interruptible, Switching, SwitchPC, At,
     Goto, Release, procVars, cpuVars, locals
<1>6. CASE sleep(s, c)
  BY <1>0, <1>6, Basic DEF sleep, TypeOK, Switching, SwitchPC, At, Goto, Acquire,
     SetState, cpuVars, locals
<1>7. CASE sleep_back(s, c)
  BY <1>0, <1>7, Basic DEF sleep_back, TypeOK, Switching, SwitchPC, At, Goto, Release,
     cpuVars, locals
<1>8. CASE fork_parent(s, c)
  BY <1>0, <1>8, Basic DEF fork_parent, TypeOK, Switching, SwitchPC, At, Goto, lockVars,
     cpuVars, locals
<1>9. CASE fork_run(s, c)
  <2>1. np[s] \in Slots /\ state[np[s]] = "USED"
    BY <1>0, <1>9 DEF fork_run, At, Forking, InFork, ForkPC
  <2>2. \A d \in CPUs : cproc[d] # np[s] /\ run[d] # np[s]
    BY <1>9, <2>1, OffCPU DEF fork_run
  <2>3. pc[s] = "fork_run" /\ run[c] = s
    BY <1>9 DEF fork_run, At
  <2>4. \A r \in Slots : r # np[s] => (pc'[r] \in SwitchPC <=> pc[r] \in SwitchPC)
    BY <1>0, <1>9, <2>1, <2>3 DEF fork_run, SwitchPC, TypeOK
  <2> QED
    BY SMTT(30), <1>0, <1>9, <2>2, <2>4, Basic DEF fork_run, Switching, TypeOK, lockVars,
       cpuVars
<1>10. CASE reparent(s, c)
  BY <1>0, <1>10, Basic DEF reparent, TypeOK, Switching, SwitchPC, At, Goto, lockVars,
     cpuVars
<1>11. CASE exit_wakeup(s, c)
  BY <1>0, <1>11, Basic DEF exit_wakeup, wakeup, Wake, TypeOK, Switching, SwitchPC, At,
     Goto, SetState, lockVars, cpuVars
<1>12. CASE exit_zombie(s, c)
  BY <1>0, <1>12, Basic DEF exit_zombie, TypeOK, Switching, SwitchPC, At, Goto, Acquire,
     SetState, cpuVars, locals
<1>13. CASE wait(s, c)
  BY <1>0, <1>13, Basic DEF wait, TypeOK, Switching, SwitchPC, At, Goto, procVars,
     cpuVars
<1>14. CASE wait_reap(s, c)
  <2> DEFINE t == idx[s]
  <2>1. t \in Slots /\ plock[t] = None /\ state[t] = "ZOMBIE" /\ run[c] = s /\ pc[s] = "scan"
    BY <1>0, <1>14, Increment DEF wait_reap, At, TypeOK
  <2>2. /\ pc' = [pc EXCEPT ![s] = "run", ![t] = "none"]
        /\ UNCHANGED <<plock, run, cproc>>
    BY <1>14 DEF wait_reap, cpuVars
  <2>3. \A d \in CPUs : cproc[d] # t
    BY <2>1, OffCPU
  <2> HIDE DEF t
  <2>4. \A r \in Slots : r # t => (pc'[r] \in SwitchPC <=> pc[r] \in SwitchPC)
    BY <1>0, <2>1, <2>2 DEF SwitchPC, TypeOK
  <2>5. \A r \in Slots : r # t /\ pc[r] # "none" => pc'[r] # "none"
    BY <1>0, <2>1, <2>2 DEF TypeOK
  <2>6. ASSUME NEW r \in Slots, NEW d \in CPUs, cproc'[d] = r
        PROVE  /\ pc'[r] # "none"
               /\ plock'[r] = d <=> run'[d] = NoProc \/ pc'[r] \in SwitchPC
    BY <1>0, <2>2, <2>3, <2>4, <2>5, <2>6 DEF Switching
  <2> QED
    BY <1>0, <2>2, <2>6 DEF Switching
<1>15. CASE wait_scan(s, c)
  BY <1>0, <1>15, Basic DEF wait_scan, TypeOK, Switching, SwitchPC, At, Goto, procVars,
     lockVars, cpuVars
<1>16. CASE wait_check(s, c)
  BY <1>0, <1>16, Basic DEF wait_check, TypeOK, Switching, SwitchPC, At, Goto, procVars,
     cpuVars, locals
<1>17. CASE yield(s, c)
  BY <1>0, <1>17, Basic DEF yield, TypeOK, Interruptible, Switching, SwitchPC, At, Goto,
     Acquire, SetState, cpuVars, locals
<1>18. CASE wait_copyout_fail(s, c)
  BY <1>0, <1>18, Basic DEF wait_copyout_fail, TypeOK, Switching, SwitchPC, At, Goto,
     procVars, cpuVars, locals
<1>19. CASE exit(s, c)
  BY <1>0, <1>19, Basic DEF exit, TypeOK, Switching, SwitchPC, At, Goto, procVars,
     cpuVars
<1>20. ASSUME NEW t \in Slots, fork(s, c, t) PROVE Switching'
  BY <1>0, <1>20, Basic DEF fork, TypeOK, Switching, SwitchPC, At, Goto, SetState,
     lockVars, cpuVars
<1>21. ASSUME NEW t \in Slots, fork_fail(s, c, t) PROVE Switching'
  BY <1>0, <1>21, Basic DEF fork_fail, TypeOK, Switching, SwitchPC, At, lockVars,
     cpuVars, locals
<1>22. ASSUME NEW t \in Slots, kill(s, c, t) PROVE Switching'
  BY <1>0, <1>22, Basic DEF kill, TypeOK, Switching, SwitchPC, At, SetState, lockVars,
     cpuVars, locals
<1> QED
  BY <1>1, <1>2, <1>3, <1>4, <1>5, <1>6, <1>7, <1>8, <1>9, <1>10, <1>11, <1>12, <1>13,
     <1>14, <1>15, <1>16, <1>17, <1>18, <1>19, <1>20, <1>21, <1>22 DEF Step, KernelStep

\* Steps keep wait_lock with exit() and wait().
LEMMA WaitLockStep ==
  ASSUME ProcInv, NEW c \in CPUs, NEW s \in Slots, Step(s, c)
  PROVE  WaitLock'
<1>0. TypeOK /\ Switching /\ StateByPC /\ Forking /\ WaitLock
  BY DEF ProcInv
<1>1. CASE scheduler_back(c)
  BY <1>0, <1>1, Basic DEF scheduler_back, TypeOK, Switching, WaitLock, WaitPC, Release,
     procVars, locals
<1>2. CASE exit_init(c)
  BY <1>0, <1>2, Basic DEF exit_init, TypeOK, Switching, WaitLock, WaitPC, At, procVars,
     lockVars, cpuVars, locals
<1>3. CASE scheduler(c, s)
  <2>1. /\ \A d \in CPUs : cproc[d] # s /\ run[d] # s
        /\ state[s] \in StateOff(pc[s])
    BY <1>3, OffCPU DEF scheduler, Acquire
  <2>2. pc[s] \notin WaitPC
    BY <2>1, <1>3 DEF scheduler, StateOff, WaitPC
  <2> QED
    BY <1>0, <1>3, <2>1, <2>2, Basic DEF scheduler, WaitLock, TypeOK
<1>4. CASE sched(s, c)
  BY <1>0, <1>4, Basic DEF sched, TypeOK, Switching, WaitLock, WaitPC, Resume, Goto,
     procVars, lockVars, locals
<1>5. CASE yield_back(s, c)
  BY <1>0, <1>5, Basic DEF yield_back, TypeOK, Interruptible, Switching, WaitLock,
     WaitPC, At, Goto, Release, procVars, cpuVars, locals
<1>6. CASE sleep(s, c)
  BY <1>0, <1>6, Basic DEF sleep, TypeOK, Switching, WaitLock, WaitPC, At, Goto,
     Acquire, SetState, cpuVars, locals
<1>7. CASE sleep_back(s, c)
  BY <1>0, <1>7, Basic DEF sleep_back, TypeOK, Switching, WaitLock, WaitPC, At, Goto,
     Release, cpuVars, locals
<1>8. CASE fork_parent(s, c)
  BY <1>0, <1>8, Basic DEF fork_parent, TypeOK, Switching, WaitLock, WaitPC, At, Goto,
     lockVars, cpuVars, locals
<1>9. CASE fork_run(s, c)
  <2>1. np[s] \in Slots /\ state[np[s]] = "USED"
    BY <1>0, <1>9 DEF fork_run, At, Forking, InFork, ForkPC
  <2>2. \A d \in CPUs : run[d] # np[s]
    BY <1>9, <2>1, OffCPU DEF fork_run
  <2>3. pc[s] = "fork_run" /\ run[c] = s
    BY <1>9 DEF fork_run, At
  <2>4. \A r \in Slots : r # np[s] => (pc'[r] \in WaitPC <=> pc[r] \in WaitPC)
    BY <1>0, <1>9, <2>1, <2>3 DEF fork_run, WaitPC, TypeOK
  <2> QED
    <3>1. run' = run /\ wait_lock' = wait_lock /\ run \in [CPUs -> Slots \cup {NoProc}]
      BY <1>0, <1>9 DEF fork_run, lockVars, cpuVars, TypeOK
    <3> QED
      BY <1>0, <2>2, <2>4, <3>1, Basic DEF WaitLock
<1>10. CASE reparent(s, c)
  <2>1. /\ run[c] = s /\ run' = run /\ wait_lock' = wait_lock /\ pc[s] = "reparent"
        /\ \/ pc' = [pc EXCEPT ![s] = "wakeup_parent"]
           \/ pc' = [pc EXCEPT ![s] = "wakeup_init"] \/ pc' = pc
    BY <1>10 DEF reparent, At, Goto, lockVars, cpuVars
  <2>2. CASE pc' = pc
    BY <1>0, <2>1, <2>2 DEF WaitLock
  <2> QED
    BY <1>0, <2>1, <2>2, WaitLockKept DEF WaitPC
<1>11. CASE exit_wakeup(s, c)
  <2>1. /\ run[c] = s /\ run' = run /\ wait_lock' = wait_lock
        /\ pc[s] \in {"wakeup_init", "wakeup_parent"}
        /\ \/ pc' = [pc EXCEPT ![s] = "reparent"]
           \/ pc' = [pc EXCEPT ![s] = "exit_lock"] \/ pc' = pc
    BY <1>11 DEF exit_wakeup, wakeup, At, Goto, lockVars, cpuVars
  <2>2. CASE pc' = pc
    BY <1>0, <2>1, <2>2 DEF WaitLock
  <2> QED
    BY <1>0, <2>1, <2>2, WaitLockKept DEF WaitPC
<1>12. CASE exit_zombie(s, c)
  BY <1>0, <1>12, Basic DEF exit_zombie, TypeOK, Switching, WaitLock, WaitPC, At, Goto,
     Acquire, SetState, cpuVars, locals
<1>13. CASE wait(s, c)
  BY <1>0, <1>13, Basic DEF wait, TypeOK, Switching, WaitLock, WaitPC, At, Goto,
     procVars, cpuVars
<1>14. CASE wait_reap(s, c)
  <2> DEFINE t == idx[s]
  <2>1. t \in Slots /\ plock[t] = None /\ state[t] = "ZOMBIE" /\ run[c] = s /\ pc[s] = "scan"
    BY <1>0, <1>14, Increment DEF wait_reap, At, TypeOK
  <2>2. /\ pc' = [pc EXCEPT ![s] = "run", ![t] = "none"]
        /\ wait_lock' = None /\ run' = run
    BY <1>14 DEF wait_reap, cpuVars
  <2>3. \A d \in CPUs : run[d] # t
    BY <2>1, OffCPU
  <2>4. wait_lock = c
    BY <1>0, <2>1, Basic DEF WaitLock, WaitPC
  <2>5. \A r \in Slots : r # t /\ r # s => pc'[r] = pc[r]
    BY <1>0, <2>1, <2>2 DEF TypeOK
  <2>6. pc'[s] = "run" \/ pc'[s] = "none"
    BY <1>0, <2>1, <2>2 DEF TypeOK
  <2>7. \A d \in CPUs : d # c => ~(run[d] # NoProc /\ pc[run[d]] \in WaitPC)
    BY <1>0, <2>4 DEF WaitLock
  <2> HIDE DEF t
  <2> QED
    BY <1>0, <2>1, <2>2, <2>3, <2>5, <2>6, <2>7, Basic DEF WaitLock, WaitPC, TypeOK
<1>15. CASE wait_scan(s, c)
  <2>1. /\ run[c] = s /\ run' = run /\ wait_lock' = wait_lock /\ pc[s] = "scan"
        /\ pc' = [pc EXCEPT ![s] = "wait_check"] \/ pc' = pc
    BY <1>15 DEF wait_scan, At, Goto, lockVars, cpuVars
  <2>2. CASE pc' = pc
    BY <1>0, <2>1, <2>2 DEF WaitLock
  <2> QED
    BY <1>0, <2>1, <2>2, WaitLockKept DEF WaitPC
<1>16. CASE wait_check(s, c)
  <2>1. run[c] = s /\ run' = run /\ pc[s] = "wait_check"
    BY <1>16 DEF wait_check, At, cpuVars
  <2>2. CASE ~havekids[s] \/ killed[s]
    <3>1. pc' = [pc EXCEPT ![s] = "run"] /\ wait_lock' = None
      BY <1>16, <2>2 DEF wait_check, Goto
    <3> QED
      BY <1>0, <2>1, <3>1, Basic DEF WaitLock, WaitPC, TypeOK
  <2>3. CASE ~(~havekids[s] \/ killed[s])
    <3>1. pc' = [pc EXCEPT ![s] = "wait_sleep"] /\ wait_lock' = wait_lock
      BY <1>16, <2>3 DEF wait_check, Goto
    <3> QED
      BY <1>0, <2>1, <3>1, WaitLockKept DEF WaitPC
  <2> QED
    BY <2>2, <2>3
<1>17. CASE yield(s, c)
  BY <1>0, <1>17, Basic DEF yield, TypeOK, Interruptible, Switching, WaitLock, WaitPC, At, Goto,
     Acquire, SetState, cpuVars, locals
<1>18. CASE wait_copyout_fail(s, c)
  BY <1>0, <1>18, Basic DEF wait_copyout_fail, TypeOK, Switching, WaitLock, WaitPC, At,
     Goto, procVars, cpuVars, locals
<1>19. CASE exit(s, c)
  BY <1>0, <1>19, Basic DEF exit, TypeOK, Switching, WaitLock, WaitPC, At, Goto,
     procVars, cpuVars
<1>20. ASSUME NEW t \in Slots, fork(s, c, t) PROVE WaitLock'
  BY <1>0, <1>20, Basic DEF fork, TypeOK, Switching, WaitLock, WaitPC, At, Goto,
     SetState, lockVars, cpuVars
<1>21. ASSUME NEW t \in Slots, fork_fail(s, c, t) PROVE WaitLock'
  BY <1>0, <1>21, Basic DEF fork_fail, TypeOK, Switching, WaitLock, WaitPC, At,
     lockVars, cpuVars, locals
<1>22. ASSUME NEW t \in Slots, kill(s, c, t) PROVE WaitLock'
  BY <1>0, <1>22, Basic DEF kill, TypeOK, Switching, WaitLock, WaitPC, At, SetState,
     lockVars, cpuVars, locals
<1> QED
  BY <1>1, <1>2, <1>3, <1>4, <1>5, <1>6, <1>7, <1>8, <1>9, <1>10, <1>11, <1>12, <1>13,
     <1>14, <1>15, <1>16, <1>17, <1>18, <1>19, <1>20, <1>21, <1>22 DEF Step, KernelStep

\* Steps keep the state with the place of the thread.
LEMMA StateStep ==
  ASSUME ProcInv, NEW c \in CPUs, NEW s \in Slots, Step(s, c)
  PROVE  StateByPC'
<1>0. TypeOK /\ Switching /\ StateByPC /\ Forking
  BY DEF ProcInv
<1>1. CASE scheduler_back(c)
  BY <1>0, <1>1, Basic DEF scheduler_back, TypeOK, Switching, SwitchPC, StateByPC,
     StateOn, StateOff, Release, procVars, locals
<1>2. CASE exit_init(c)
  BY <1>0, <1>2, Basic DEF exit_init, TypeOK, Switching, SwitchPC, StateByPC, StateOn,
     StateOff, At, procVars, lockVars, cpuVars, locals
<1>3. CASE scheduler(c, s)
  BY <1>0, <1>3, Basic DEF scheduler, TypeOK, Switching, SwitchPC, StateByPC, StateOn,
     StateOff, Acquire, SetState, locals
<1>4. CASE sched(s, c)
  BY <1>0, <1>4, Basic DEF sched, TypeOK, Switching, SwitchPC, StateByPC, StateOn,
     StateOff, Resume, Goto, procVars, lockVars, locals
<1>5. CASE yield_back(s, c)
  BY <1>0, <1>5, Basic DEF yield_back, TypeOK, Interruptible, Switching, SwitchPC,
     StateByPC, StateOn, StateOff, At, Goto, Release, procVars, cpuVars, locals
<1>6. CASE sleep(s, c)
  BY <1>0, <1>6, Basic DEF sleep, TypeOK, Switching, SwitchPC, StateByPC, StateOn,
     StateOff, At, Goto, Acquire, SetState, cpuVars, locals
<1>7. CASE sleep_back(s, c)
  BY <1>0, <1>7, Basic DEF sleep_back, TypeOK, Switching, SwitchPC, StateByPC, StateOn,
     StateOff, At, Goto, Release, cpuVars, locals
<1>8. CASE fork_parent(s, c)
  BY <1>0, <1>8, Basic DEF fork_parent, TypeOK, Switching, SwitchPC, StateByPC, StateOn,
     StateOff, At, Goto, lockVars, cpuVars, locals
<1>9. CASE fork_run(s, c)
  <2>1. np[s] \in Slots /\ state[np[s]] = "USED"
    BY <1>0, <1>9 DEF fork_run, At, Forking, InFork, ForkPC
  <2>2. \A d \in CPUs : run[d] # np[s]
    BY <1>9, <2>1, OffCPU DEF fork_run
  <2>3. pc[s] = "fork_run" /\ run[c] = s /\ run' = run
    BY <1>9 DEF fork_run, At, cpuVars
  <2>4. s # np[s] /\ state[s] = "RUNNING"
    BY <1>0, <2>2, <2>3 DEF StateByPC, StateOn
  <2>5. /\ state' = [state EXCEPT ![np[s]] = "RUNNABLE"]
        /\ pc' = [pc EXCEPT ![s] = "run", ![np[s]] = "forkret"]
    BY <1>9 DEF fork_run, SetState
  <2>6. ASSUME NEW r \in Slots
        PROVE  /\ \A d \in CPUs : run'[d] = r => state'[r] \in StateOn(pc'[r])
               /\ (\A d \in CPUs : run'[d] # r) => state'[r] \in StateOff(pc'[r])
    <3>1. CASE r = s
      <4>1. pc'[r] = "run" /\ state'[r] = "RUNNING"
        BY <1>0, <2>1, <2>4, <2>5, <3>1 DEF TypeOK
      <4> QED
        BY <2>3, <3>1, <4>1 DEF StateOn
    <3>2. CASE r = np[s]
      <4>1. pc'[r] = "forkret" /\ state'[r] = "RUNNABLE"
        BY <1>0, <2>1, <2>4, <2>5, <3>2 DEF TypeOK
      <4> QED
        BY <2>2, <2>3, <3>2, <4>1 DEF StateOff
    <3>3. CASE r # s /\ r # np[s]
      <4>1. pc'[r] = pc[r] /\ state'[r] = state[r]
        BY <1>0, <2>1, <2>5, <3>3 DEF TypeOK
      <4> QED
        BY <1>0, <2>3, <4>1 DEF StateByPC
    <3> QED
      BY <3>1, <3>2, <3>3
  <2> QED
    BY <2>6 DEF StateByPC
<1>10. CASE reparent(s, c)
  BY <1>0, <1>10, Basic DEF reparent, TypeOK, Switching, SwitchPC, StateByPC, StateOn,
     StateOff, At, Goto, lockVars, cpuVars
<1>11. CASE exit_wakeup(s, c)
  BY <1>0, <1>11, Basic DEF exit_wakeup, wakeup, Wake, TypeOK, Switching, SwitchPC,
     StateByPC, StateOn, StateOff, At, Goto, SetState, lockVars, cpuVars
<1>12. CASE exit_zombie(s, c)
  BY <1>0, <1>12, Basic DEF exit_zombie, TypeOK, Switching, SwitchPC, StateByPC,
     StateOn, StateOff, At, Goto, Acquire, SetState, cpuVars, locals
<1>13. CASE wait(s, c)
  BY <1>0, <1>13, Basic DEF wait, TypeOK, Switching, SwitchPC, StateByPC, StateOn,
     StateOff, At, Goto, procVars, cpuVars
<1>14. CASE wait_reap(s, c)
  BY <1>0, <1>14, Basic DEF wait_reap, freeproc, TypeOK, Switching, SwitchPC, StateByPC,
     StateOn, StateOff, At, SetState, cpuVars, locals
<1>15. CASE wait_scan(s, c)
  BY <1>0, <1>15, Basic DEF wait_scan, TypeOK, Switching, SwitchPC, StateByPC, StateOn,
     StateOff, At, Goto, procVars, lockVars, cpuVars
<1>16. CASE wait_check(s, c)
  BY <1>0, <1>16, Basic DEF wait_check, TypeOK, Switching, SwitchPC, StateByPC, StateOn,
     StateOff, At, Goto, procVars, cpuVars, locals
<1>17. CASE yield(s, c)
  BY <1>0, <1>17, Basic DEF yield, TypeOK, Interruptible, Switching, SwitchPC, StateByPC,
     StateOn, StateOff, At, Goto, Acquire, SetState, cpuVars, locals
<1>18. CASE wait_copyout_fail(s, c)
  BY <1>0, <1>18, Basic DEF wait_copyout_fail, TypeOK, Switching, SwitchPC, StateByPC,
     StateOn, StateOff, At, Goto, procVars, cpuVars, locals
<1>19. CASE exit(s, c)
  BY <1>0, <1>19, Basic DEF exit, TypeOK, Switching, SwitchPC, StateByPC, StateOn,
     StateOff, At, Goto, procVars, cpuVars
<1>20. ASSUME NEW t \in Slots, fork(s, c, t) PROVE StateByPC'
  BY <1>0, <1>20, Basic DEF fork, TypeOK, Switching, SwitchPC, StateByPC, StateOn,
     StateOff, At, Goto, SetState, lockVars, cpuVars
<1>21. ASSUME NEW t \in Slots, fork_fail(s, c, t) PROVE StateByPC'
  BY <1>0, <1>21, Basic DEF fork_fail, TypeOK, Switching, SwitchPC, StateByPC, StateOn,
     StateOff, At, lockVars, cpuVars, locals
<1>22. ASSUME NEW t \in Slots, kill(s, c, t) PROVE StateByPC'
  BY <1>0, <1>22, Basic DEF kill, TypeOK, Switching, SwitchPC, StateByPC, StateOn,
     StateOff, At, SetState, lockVars, cpuVars, locals
<1> QED
  BY <1>1, <1>2, <1>3, <1>4, <1>5, <1>6, <1>7, <1>8, <1>9, <1>10, <1>11, <1>12, <1>13,
     <1>14, <1>15, <1>16, <1>17, <1>18, <1>19, <1>20, <1>21, <1>22 DEF Step, KernelStep

\* Steps keep the slot a fork() is filling in its own.
LEMMA ForkStep ==
  ASSUME ProcInv, NEW c \in CPUs, NEW s \in Slots, Step(s, c)
  PROVE  Forking'
<1>0. TypeOK /\ Switching /\ StateByPC /\ Forking
  BY DEF ProcInv
<1>1. CASE scheduler_back(c)
  BY <1>0, <1>1, Basic DEF scheduler_back, TypeOK, StateByPC, StateOn, StateOff,
     Forking, InFork, ForkPC, Release, procVars, locals
<1>2. CASE exit_init(c)
  BY <1>0, <1>2, Basic DEF exit_init, TypeOK, StateByPC, StateOn, StateOff, Forking,
     InFork, ForkPC, At, procVars, lockVars, cpuVars, locals
<1>3. CASE scheduler(c, s)
  BY <1>0, <1>3, Basic DEF scheduler, TypeOK, StateByPC, StateOn, StateOff, Forking,
     InFork, ForkPC, Acquire, SetState, locals
<1>4. CASE sched(s, c)
  BY <1>0, <1>4, Basic DEF sched, TypeOK, StateByPC, StateOn, StateOff, Forking, InFork,
     ForkPC, Resume, Goto, procVars, lockVars, locals
<1>5. CASE yield_back(s, c)
  BY <1>0, <1>5, Basic DEF yield_back, TypeOK, Interruptible, StateByPC, StateOn,
     StateOff, Forking, InFork, ForkPC, At, Goto, Release, procVars, cpuVars, locals
<1>6. CASE sleep(s, c)
  BY <1>0, <1>6, Basic DEF sleep, TypeOK, StateByPC, StateOn, StateOff, Forking, InFork,
     ForkPC, At, Goto, Acquire, SetState, cpuVars, locals
<1>7. CASE sleep_back(s, c)
  BY <1>0, <1>7, Basic DEF sleep_back, TypeOK, StateByPC, StateOn, StateOff, Forking,
     InFork, ForkPC, At, Goto, Release, cpuVars, locals
<1>8. CASE fork_parent(s, c)
  BY <1>0, <1>8, Basic DEF fork_parent, TypeOK, StateByPC, StateOn, StateOff, Forking,
     InFork, ForkPC, At, Goto, lockVars, cpuVars, locals
<1>9. CASE fork_run(s, c)
  BY <1>0, <1>9, Basic DEF fork_run, TypeOK, StateByPC, StateOn, StateOff, Forking,
     InFork, ForkPC, At, SetState, lockVars, cpuVars
<1>10. CASE reparent(s, c)
  <2>1. /\ pc[s] = "reparent"
        /\ \E l \in {"wakeup_parent", "wakeup_init", "reparent"} : pc' = [pc EXCEPT ![s] = l]
    BY <1>0, <1>10 DEF reparent, At, Goto, TypeOK
  <2>2. np' = np /\ epc' = epc
    BY <1>10 DEF reparent
  <2>3. ASSUME NEW r \in Slots, state[r] = "USED" PROVE state'[r] = "USED"
    BY <1>10, <2>3 DEF reparent
  <2>4. ASSUME NEW r \in Slots, parent'[r] # parent[r] PROVE parent[r] = s
    BY <1>0, <1>10, <2>4 DEF reparent, TypeOK
  <2>5. epc[s] = "run"
    BY <1>0, <2>1 DEF Forking
  <2>6. ASSUME NEW r \in Slots, InFork(r)'
        PROVE  pc[r] = pc'[r] /\ r # s /\ InFork(r)
    BY <1>0, <2>1, <2>2, <2>5, <2>6 DEF TypeOK, InFork, ForkPC
  <2>7. ASSUME NEW r \in Slots, InFork(r)'
        PROVE  /\ np'[r] \in Slots /\ state'[np'[r]] = "USED"
               /\ pc'[r] = "fork_run" \/ epc'[r] = "fork_run" => parent'[np'[r]] = r
    BY <1>0, <2>2, <2>3, <2>4, <2>6, <2>7 DEF Forking
  <2>8. ASSUME NEW r \in Slots, epc'[r] # "run" PROVE pc'[r] \in {"yield", "resched"}
    BY <1>0, <2>1, <2>2, <2>5, <2>8 DEF TypeOK, Forking
  <2> QED
    BY <1>0, <2>2, <2>6, <2>7, <2>8 DEF Forking
<1>11. CASE exit_wakeup(s, c)
  <2>1. /\ pc[s] \in {"wakeup_init", "wakeup_parent"}
        /\ \E l \in {"reparent", "exit_lock", "wakeup_init", "wakeup_parent"} : pc' = [pc EXCEPT ![s] = l]
    BY <1>0, <1>11 DEF exit_wakeup, wakeup, At, Goto, TypeOK
  <2>2. np' = np /\ epc' = epc
    BY <1>11 DEF exit_wakeup, wakeup
  <2>3. ASSUME NEW r \in Slots, state[r] = "USED" PROVE state'[r] = "USED"
    BY <1>0, <1>11, <2>3 DEF exit_wakeup, wakeup, Wake, SetState, TypeOK
  <2>4. ASSUME NEW r \in Slots, parent'[r] # parent[r] PROVE parent[r] = s
    BY <1>11, <2>4 DEF exit_wakeup, wakeup
  <2>5. epc[s] = "run"
    BY <1>0, <2>1 DEF Forking
  <2>6. ASSUME NEW r \in Slots, InFork(r)'
        PROVE  pc[r] = pc'[r] /\ r # s /\ InFork(r)
    BY <1>0, <2>1, <2>2, <2>5, <2>6 DEF TypeOK, InFork, ForkPC
  <2>7. ASSUME NEW r \in Slots, InFork(r)'
        PROVE  /\ np'[r] \in Slots /\ state'[np'[r]] = "USED"
               /\ pc'[r] = "fork_run" \/ epc'[r] = "fork_run" => parent'[np'[r]] = r
    BY <1>0, <2>2, <2>3, <2>4, <2>6, <2>7 DEF Forking
  <2>8. ASSUME NEW r \in Slots, epc'[r] # "run" PROVE pc'[r] \in {"yield", "resched"}
    BY <1>0, <2>1, <2>2, <2>5, <2>8 DEF TypeOK, Forking
  <2> QED
    BY <1>0, <2>2, <2>6, <2>7, <2>8 DEF Forking
<1>12. CASE exit_zombie(s, c)
  BY <1>0, <1>12, Basic DEF exit_zombie, TypeOK, StateByPC, StateOn, StateOff, Forking,
     InFork, ForkPC, At, Goto, Acquire, SetState, cpuVars, locals
<1>13. CASE wait(s, c)
  BY <1>0, <1>13, Basic DEF wait, TypeOK, StateByPC, StateOn, StateOff, Forking, InFork,
     ForkPC, At, Goto, procVars, cpuVars
<1>14. CASE wait_reap(s, c)
  BY <1>0, <1>14, Basic DEF wait_reap, freeproc, TypeOK, StateByPC, StateOn, StateOff,
     Forking, InFork, ForkPC, At, SetState, cpuVars, locals
<1>15. CASE wait_scan(s, c)
  BY <1>0, <1>15, Basic DEF wait_scan, TypeOK, StateByPC, StateOn, StateOff, Forking,
     InFork, ForkPC, At, Goto, procVars, lockVars, cpuVars
<1>16. CASE wait_check(s, c)
  BY <1>0, <1>16, Basic DEF wait_check, TypeOK, StateByPC, StateOn, StateOff, Forking,
     InFork, ForkPC, At, Goto, procVars, cpuVars, locals
<1>17. CASE yield(s, c)
  BY <1>0, <1>17, Basic DEF yield, TypeOK, Interruptible, StateByPC, StateOn, StateOff,
     Forking, InFork, ForkPC, At, Goto, Acquire, SetState, cpuVars, locals
<1>18. CASE wait_copyout_fail(s, c)
  BY <1>0, <1>18, Basic DEF wait_copyout_fail, TypeOK, StateByPC, StateOn, StateOff,
     Forking, InFork, ForkPC, At, Goto, procVars, cpuVars, locals
<1>19. CASE exit(s, c)
  BY <1>0, <1>19, Basic DEF exit, TypeOK, StateByPC, StateOn, StateOff, Forking, InFork,
     ForkPC, At, Goto, procVars, cpuVars
<1>20. ASSUME NEW t \in Slots, fork(s, c, t) PROVE Forking'
  BY <1>0, <1>20, Basic DEF fork, TypeOK, StateByPC, StateOn, StateOff, Forking, InFork,
     ForkPC, At, Goto, SetState, lockVars, cpuVars
<1>21. ASSUME NEW t \in Slots, fork_fail(s, c, t) PROVE Forking'
  BY <1>0, <1>21, Basic DEF fork_fail, TypeOK, StateByPC, StateOn, StateOff, Forking,
     InFork, ForkPC, At, lockVars, cpuVars, locals
<1>22. ASSUME NEW t \in Slots, kill(s, c, t) PROVE Forking'
  <2>1. UNCHANGED <<np, pc, parent, epc>>
    BY <1>22 DEF kill, locals
  <2>2. ASSUME NEW r \in Slots, state[r] = "USED" PROVE state'[r] = "USED"
    BY <1>0, <1>22, <2>2 DEF kill, SetState, TypeOK
  <2> QED
    BY <1>0, <2>1, <2>2 DEF Forking, InFork, ForkPC
<1> QED
  BY <1>1, <1>2, <1>3, <1>4, <1>5, <1>6, <1>7, <1>8, <1>9, <1>10, <1>11, <1>12, <1>13,
     <1>14, <1>15, <1>16, <1>17, <1>18, <1>19, <1>20, <1>21, <1>22 DEF Step, KernelStep

\* A thread that calls sched() holds its own p->lock and no other lock, and
\* has left the state RUNNING.
LEMMA SchedReady ==
  ASSUME ProcInv, NEW c \in CPUs, NEW s \in Slots, run[c] = s, pc[s] \in DOMAIN Resume
  PROVE  ~SchedPanics(s, c)
<1>0. TypeOK /\ Switching /\ WaitLock /\ StateByPC
  BY DEF ProcInv
<1>1. pc[s] \in {"yield", "sleep", "zombie"}
  BY DEF Resume
<1>2. cproc[c] = s /\ plock[s] = c
  BY <1>0, <1>1, Basic DEF Switching, SwitchPC
<1>3. {r \in Slots : plock[r] = c} = {s}
  BY <1>0, <1>2 DEF Switching
<1>4. wait_lock # c
  BY <1>0, <1>1, Basic DEF WaitLock, WaitPC
<1>5. noff(c) = 1
  BY <1>3, <1>4, FS_Singleton DEF noff
<1>6. state[s] # "RUNNING"
  BY <1>0, <1>1 DEF StateByPC, StateOn
<1> QED
  BY <1>2, <1>5, <1>6 DEF SchedPanics

\* Locks, CPUs and states give RunState.
LEMMA RunStateHolds ==
  ASSUME TypeOK, Switching, StateByPC
  PROVE  RunState
<1>1. ASSUME NEW c \in CPUs, NEW d \in CPUs, run[c] = run[d], run[c] # NoProc PROVE c = d
  BY <1>1 DEF Switching
<1>2. ASSUME NEW s \in Slots, plock[s] = None, NEW c \in CPUs, run[c] = s
      PROVE  state[s] = "RUNNING"
  <2>1. pc[s] \notin SwitchPC
    BY <1>2, Basic DEF Switching
  <2> QED
    BY <1>2, <2>1 DEF StateByPC, StateOn, SwitchPC
<1>3. ASSUME NEW s \in Slots, state[s] = "RUNNING" PROVE \E c \in CPUs : run[c] = s
  BY <1>3 DEF StateByPC, StateOff
<1> QED
  BY <1>1, <1>2, <1>3 DEF RunState

\* Nothing panics in sched().
LEMMA PanicStep ==
  ASSUME ProcInv, NEW c \in CPUs, NEW s \in Slots, Step(s, c)
  PROVE  NoSchedPanic'
<1>0. NoSchedPanic
  BY DEF ProcInv
<1>1. CASE sched(s, c)
  <2>1. ~SchedPanics(s, c)
    BY <1>1, SchedReady DEF sched
  <2> QED
    BY <1>0, <1>1, <2>1 DEF sched, NoSchedPanic
<1>2. CASE exit_init(c)
  BY <1>2 DEF exit_init, NoSchedPanic
<1>3. CASE ~sched(s, c) /\ ~exit_init(c)
  <2>1. panicked' = panicked
    BY <1>3 DEF Step, KernelStep, scheduler_back, scheduler, yield_back, sleep,
       sleep_back, 
                fork_parent, fork_run, reparent, exit_wakeup, wakeup, exit_zombie, wait,
                wait_reap, wait_scan, wait_check, yield, wait_copyout_fail, exit, fork,
                fork_fail, kill
  <2> QED
    BY <1>0, <2>1 DEF NoSchedPanic
<1> QED
  BY <1>1, <1>2, <1>3

\* After userinit() everything fits.
LEMMA ProcInit == Init => ProcInv
<1> SUFFICES ASSUME Init PROVE ProcInv
  OBVIOUS
<1>1. TypeOK
  BY Basic, NPROCAssumption DEF Init, TypeOK, Interruptible, States, PC
<1>2. Switching
  BY Basic DEF Init, Switching
<1>3. WaitLock
  BY Basic DEF Init, WaitLock
<1>4. StateByPC
  BY Basic DEF Init, StateByPC, StateOff
<1>5. Forking
  BY DEF Init, Forking, InFork, ForkPC
<1>6. NoSchedPanic
  BY DEF Init, NoSchedPanic
<1> QED
  BY <1>1, <1>2, <1>3, <1>4, <1>5, <1>6, RunStateHolds DEF ProcInv

\* The parts of the invariant give RunState in the next state as well.
LEMMA RunStateNext == (TypeOK /\ Switching /\ StateByPC => RunState)'
<1>1. TypeOK /\ Switching /\ StateByPC => RunState
  BY RunStateHolds
<1> QED
  BY <1>1, PTL

\* Every step keeps ProcInv.
LEMMA ProcStep == ProcInv /\ [Next]_vars => ProcInv'
<1> SUFFICES ASSUME ProcInv, [Next]_vars PROVE ProcInv'
  OBVIOUS
<1>1. CASE UNCHANGED vars
  BY <1>1 DEF ProcInv, TypeOK, Interruptible, Switching, WaitLock, StateByPC, Forking,
     InFork, RunState, NoSchedPanic, vars, procVars, lockVars, cpuVars, locals
<1>2. ASSUME NEW c \in CPUs, NEW s \in Slots, Step(s, c) PROVE ProcInv'
  <2>1. TypeOK' /\ Switching' /\ WaitLock' /\ StateByPC' /\ Forking' /\ NoSchedPanic'
    BY <1>2, TypeStep, SwitchStep, WaitLockStep, StateStep, ForkStep, PanicStep
  <2> QED
    BY <2>1, RunStateNext DEF ProcInv
<1> QED
  BY <1>1, <1>2, NextIsStep

\* On any number of CPUs, a process runs on at most one of them, is RUNNING
\* exactly then (outside its own locked sections), and sched() is only entered
\* as it demands (kernel/proc.c: scheduler, sched, yield, sleep, exit).
THEOREM ProcInvariant == Spec => []ProcInv
  BY ProcInit, ProcStep, PTL DEF Spec

\* The invariant keeps wait() away from a process in use.
LEMMA InUse == ProcInv => StackSafe
<1> SUFFICES ASSUME ProcInv, NEW c \in CPUs, NEW s \in Slots, run[c] = s \/ cproc[c] = s,
                    state[s] \in {"UNUSED", "USED"}
             PROVE  FALSE
  BY DEF StackSafe
<1>0. TypeOK /\ Switching /\ StateByPC
  BY DEF ProcInv
<1>1. CASE run[c] = s
  BY <1>0, <1>1 DEF StateByPC, StateOn
<1>2. CASE cproc[c] = s /\ run[c] # s
  <2>1. run[c] = NoProc
    BY <1>0, <1>2 DEF Switching
  <2>2. plock[s] = c
    BY <1>0, <1>2, <2>1 DEF Switching
  <2>3. (\A d \in CPUs : run[d] # s) /\ pc[s] # "none"
    BY <1>0, <1>2, <2>2, Basic DEF Switching
  <2> QED
    BY <1>0, <1>2, <2>1, <2>2, <2>3 DEF StateByPC, StateOff
<1> QED
  BY <1>1, <1>2

\* wait() never frees a process whose stack or c->proc a CPU still uses
\* (kernel/proc.c: wait, freeproc against exit, sched, scheduler).
THEOREM StacksSafe == Spec => []StackSafe
  BY ProcInvariant, InUse, PTL

-----------------------------------------------------------------------------
(***************************************************************************)
(* exit() and wait().                                                      *)
(***************************************************************************)

\* What the place of a thread says of the state, on a CPU or not.
LEMMA PCState ==
  ASSUME ProcInv, NEW r \in Slots
  PROVE  /\ state[r] \in {"UNUSED", "USED"} <=> pc[r] = "none"
         /\ state[r] = "ZOMBIE" <=> pc[r] = "zombie"
         /\ state[r] = "SLEEPING" => pc[r] \in {"sleep", "wakened"}
         /\ pc[r] \notin SwitchPC \cup {"none"} => state[r] = "RUNNING"
<1>1. StateByPC
  BY DEF ProcInv
<1>2. CASE \E c \in CPUs : run[c] = r
  BY <1>1, <1>2 DEF StateByPC, StateOn, SwitchPC
<1>3. CASE \A c \in CPUs : run[c] # r
  BY <1>1, <1>3 DEF StateByPC, StateOff, SwitchPC
<1> QED
  BY <1>2, <1>3

\* A thread in exit() or wait() holds wait_lock, so that it is the only one.
LEMMA Exclusive ==
  ASSUME ProcInv, NEW r \in Slots, pc[r] \in WaitPC
  PROVE  /\ wait_lock # None
         /\ \A x \in Slots : pc[x] \in WaitPC => x = r
<1>0. TypeOK /\ WaitLock /\ StateByPC
  BY DEF ProcInv
<1>1. ASSUME NEW x \in Slots, pc[x] \in WaitPC
      PROVE  \E c \in CPUs : run[c] = x /\ wait_lock = c
  <2>1. \E c \in CPUs : run[c] = x
    BY <1>0, <1>1 DEF StateByPC, StateOff, WaitPC
  <2> QED
    BY <1>0, <1>1, <2>1, Basic DEF WaitLock
<1> QED
  BY <1>1, Basic

\* The consequences of ProcInv that exit() and wait() rest on.
Together ==
    /\ TypeOK /\ Forking
    /\ \A r \in Slots :
         /\ state[r] \in {"UNUSED", "USED"} <=> pc[r] = "none"
         /\ state[r] = "ZOMBIE" <=> pc[r] = "zombie"
         /\ state[r] = "SLEEPING" => pc[r] \in {"sleep", "wakened"}
         /\ pc[r] \notin SwitchPC \cup {"none"} => state[r] = "RUNNING"
         /\ pc[r] \in WaitPC => wait_lock # None
         /\ pc[r] \in WaitPC => \A x \in Slots : pc[x] \in WaitPC => x = r

\* ProcInv has them.
LEMMA ProcTogether == ProcInv => Together
<1> SUFFICES ASSUME ProcInv PROVE Together
  OBVIOUS
<1>1. TypeOK /\ Forking
  BY DEF ProcInv
<1>2. ASSUME NEW r \in Slots, pc[r] \in WaitPC
      PROVE  wait_lock # None /\ \A x \in Slots : pc[x] \in WaitPC => x = r
  BY <1>2, Exclusive
<1> QED
  BY <1>1, <1>2, PCState DEF Together

\* init stays.
LEMMA InitStaysStep ==
  ASSUME ProcInv, Family, NEW c \in CPUs, NEW s \in Slots, Step(s, c)
  PROVE  InitStays'
<1>0. Together /\ InitStays /\ Reparented /\ Scanned /\ ParentWoken /\ NoLostChild /\ NoOrphan
  BY ProcTogether DEF Family
<1>1. CASE scheduler_back(c)
  BY <1>0, <1>1, Basic DEF scheduler_back, InitStays, Together, TypeOK, Forking,
     SwitchPC, WaitPC, Release, procVars, locals
<1>2. CASE exit_init(c)
  BY <1>0, <1>2, Basic DEF exit_init, InitStays, Together, TypeOK, Forking, SwitchPC,
     WaitPC, At, procVars, lockVars, cpuVars, locals
<1>3. CASE scheduler(c, s)
  BY <1>0, <1>3, Basic DEF scheduler, InitStays, Together, TypeOK, Forking, SwitchPC,
     WaitPC, Acquire, SetState, locals
<1>4. CASE sched(s, c)
  BY <1>0, <1>4, Basic DEF sched, InitStays, Together, TypeOK, Forking, SwitchPC,
     WaitPC, Resume, Goto, procVars, lockVars, locals
<1>5. CASE yield_back(s, c)
  BY <1>0, <1>5, Basic DEF yield_back, InitStays, Together, TypeOK, Interruptible,
     Forking, SwitchPC, WaitPC, At, Goto, Release, procVars, cpuVars, locals
<1>6. CASE sleep(s, c)
  BY <1>0, <1>6, Basic DEF sleep, InitStays, Together, TypeOK, Forking, SwitchPC,
     WaitPC, At, Goto, Acquire, SetState, cpuVars, locals
<1>7. CASE sleep_back(s, c)
  BY <1>0, <1>7, Basic DEF sleep_back, InitStays, Together, TypeOK, Forking, SwitchPC,
     WaitPC, At, Goto, Release, cpuVars, locals
<1>8. CASE fork_parent(s, c)
  BY <1>0, <1>8, Basic DEF fork_parent, InitStays, Together, TypeOK, Forking, InFork,
     ForkPC, SwitchPC, WaitPC, At, Goto, lockVars, cpuVars, locals
<1>9. CASE fork_run(s, c)
  BY <1>0, <1>9, Basic DEF fork_run, InitStays, Together, TypeOK, Forking, InFork,
     ForkPC, SwitchPC, WaitPC, At, SetState, lockVars, cpuVars
<1>10. CASE reparent(s, c)
  BY <1>0, <1>10, Basic DEF reparent, InitStays, Together, TypeOK, Forking, SwitchPC,
     WaitPC, At, Goto, lockVars, cpuVars
<1>11. CASE exit_wakeup(s, c)
  BY <1>0, <1>11, Basic DEF exit_wakeup, wakeup, Wake, InitStays, Together, TypeOK,
     Forking, SwitchPC, WaitPC, At, Goto, SetState, lockVars, cpuVars
<1>12. CASE exit_zombie(s, c)
  BY <1>0, <1>12, Basic DEF exit_zombie, InitStays, Together, TypeOK, Forking, SwitchPC,
     WaitPC, At, Goto, Acquire, SetState, cpuVars, locals
<1>13. CASE wait(s, c)
  BY <1>0, <1>13, Basic DEF wait, InitStays, Together, TypeOK, Forking, SwitchPC,
     WaitPC, At, Goto, procVars, cpuVars
<1>14. CASE wait_reap(s, c)
  BY <1>0, <1>14, Basic DEF wait_reap, freeproc, InitStays, Together, TypeOK, Forking,
     SwitchPC, WaitPC, At, SetState, cpuVars, locals
<1>15. CASE wait_scan(s, c)
  BY <1>0, <1>15, Basic DEF wait_scan, InitStays, Together, TypeOK, Forking, SwitchPC,
     WaitPC, At, Goto, procVars, lockVars, cpuVars
<1>16. CASE wait_check(s, c)
  BY <1>0, <1>16, Basic DEF wait_check, InitStays, Together, TypeOK, Forking, SwitchPC,
     WaitPC, At, Goto, procVars, cpuVars, locals
<1>17. CASE yield(s, c)
  BY <1>0, <1>17, Basic DEF yield, InitStays, Together, TypeOK, Interruptible, Forking,
     SwitchPC, WaitPC, At, Goto, Acquire, SetState, cpuVars, locals
<1>18. CASE wait_copyout_fail(s, c)
  BY <1>0, <1>18, Basic DEF wait_copyout_fail, InitStays, Together, TypeOK, Forking,
     SwitchPC, WaitPC, At, Goto, procVars, cpuVars, locals
<1>19. CASE exit(s, c)
  BY <1>0, <1>19, Basic DEF exit, InitStays, Together, TypeOK, Forking, SwitchPC,
     WaitPC, At, Goto, procVars, cpuVars
<1>20. ASSUME NEW t \in Slots, fork(s, c, t) PROVE InitStays'
  BY <1>0, <1>20, Basic DEF fork, InitStays, Together, TypeOK, Forking, SwitchPC,
     WaitPC, At, Goto, SetState, lockVars, cpuVars
<1>21. ASSUME NEW t \in Slots, fork_fail(s, c, t) PROVE InitStays'
  BY <1>0, <1>21, Basic DEF fork_fail, InitStays, Together, TypeOK, Forking, SwitchPC,
     WaitPC, At, lockVars, cpuVars, locals
<1>22. ASSUME NEW t \in Slots, kill(s, c, t) PROVE InitStays'
  BY <1>0, <1>22, Basic DEF kill, InitStays, Together, TypeOK, Forking, SwitchPC,
     WaitPC, At, SetState, lockVars, cpuVars, locals
<1> QED
  BY <1>1, <1>2, <1>3, <1>4, <1>5, <1>6, <1>7, <1>8, <1>9, <1>10, <1>11, <1>12, <1>13,
     <1>14, <1>15, <1>16, <1>17, <1>18, <1>19, <1>20, <1>21, <1>22 DEF Step, KernelStep

\* Steps keep what reparent() has done.
LEMMA ReparentedStep ==
  ASSUME ProcInv, Family, NEW c \in CPUs, NEW s \in Slots, Step(s, c)
  PROVE  Reparented'
<1>0. Together /\ InitStays /\ Reparented /\ Scanned /\ ParentWoken /\ NoLostChild /\ NoOrphan
  BY ProcTogether DEF Family
<1>1. CASE scheduler_back(c)
  BY <1>0, <1>1, Basic DEF scheduler_back, Reparented, InitStays, Together, TypeOK,
     Forking, SwitchPC, WaitPC, Release, procVars, locals
<1>2. CASE exit_init(c)
  BY <1>0, <1>2, Basic DEF exit_init, Reparented, InitStays, Together, TypeOK, Forking,
     SwitchPC, WaitPC, At, procVars, lockVars, cpuVars, locals
<1>3. CASE scheduler(c, s)
  BY <1>0, <1>3, Basic DEF scheduler, Reparented, InitStays, Together, TypeOK, Forking,
     SwitchPC, WaitPC, Acquire, SetState, locals
<1>4. CASE sched(s, c)
  BY <1>0, <1>4, Basic DEF sched, Reparented, InitStays, Together, TypeOK, Forking,
     SwitchPC, WaitPC, Resume, Goto, procVars, lockVars, locals
<1>5. CASE yield_back(s, c)
  BY <1>0, <1>5, Basic DEF yield_back, Reparented, InitStays, Together, TypeOK,
     Interruptible, Forking, SwitchPC, WaitPC, At, Goto, Release, procVars, cpuVars,
     locals
<1>6. CASE sleep(s, c)
  BY <1>0, <1>6, Basic DEF sleep, Reparented, InitStays, Together, TypeOK, Forking,
     SwitchPC, WaitPC, At, Goto, Acquire, SetState, cpuVars, locals
<1>7. CASE sleep_back(s, c)
  BY <1>0, <1>7, Basic DEF sleep_back, Reparented, InitStays, Together, TypeOK, Forking,
     SwitchPC, WaitPC, At, Goto, Release, cpuVars, locals
<1>8. CASE fork_parent(s, c)
  BY <1>0, <1>8, Basic DEF fork_parent, Reparented, InitStays, Together, TypeOK,
     Forking, SwitchPC, WaitPC, At, Goto, lockVars, cpuVars, locals
<1>9. CASE fork_run(s, c)
  BY <1>0, <1>9, Basic DEF fork_run, Reparented, InitStays, Together, TypeOK, Forking,
     InFork, ForkPC, SwitchPC, WaitPC, At, SetState, lockVars, cpuVars
<1>10. CASE reparent(s, c)
  <2>0. /\ idx[s] \in 1..(NPROC + 1) /\ pc[s] = "reparent" /\ UNCHANGED <<state, chan>> /\ s # initproc
        /\ pc \in [Slots -> PC] /\ idx \in [Slots -> 1..(NPROC + 1)]
        /\ widx \in [Slots -> 1..(NPROC + 1)] /\ parent \in [Slots -> Slots \cup {NoProc}]
    BY <1>0, <1>10 DEF reparent, At, Together, TypeOK, InitStays
  <2>1. CASE idx[s] > NPROC
    <3>1. /\ pc' = [pc EXCEPT ![s] = "wakeup_parent"] /\ UNCHANGED <<parent, idx>>
          /\ widx' = [widx EXCEPT ![s] = 1]
      BY <1>10, <2>1 DEF reparent, Goto
    <3> QED
      BY <1>0, <2>0, <2>1, <3>1, Basic DEF Reparented, InitStays, Slots
  <2>2. CASE idx[s] <= NPROC /\ parent[idx[s]] = s
    <3>1. /\ parent' = [parent EXCEPT ![idx[s]] = initproc]
          /\ pc' = [pc EXCEPT ![s] = "wakeup_init"] /\ UNCHANGED idx
          /\ widx' = [widx EXCEPT ![s] = 1]
      BY <2>0, <1>10, <2>2, Basic DEF reparent, Goto
    <3>2. idx[s] \in Slots
      BY <2>0, <2>2, Increment
    <3> QED
      BY <1>0, <2>0, <2>2, <3>1, <3>2, Basic DEF Reparented, InitStays
  <2>3. CASE idx[s] <= NPROC /\ parent[idx[s]] # s
    <3>1. idx' = [idx EXCEPT ![s] = idx[s] + 1] /\ UNCHANGED <<parent, pc, widx>>
      BY <2>0, <1>10, <2>3, Basic DEF reparent
    <3> QED
      BY <1>0, <2>0, <2>3, <3>1, Basic DEF Reparented, InitStays
  <2> QED
    BY <2>0, <2>1, <2>2, <2>3, Basic
<1>11. CASE exit_wakeup(s, c)
  BY <1>0, <1>11, Basic DEF exit_wakeup, wakeup, Wake, Reparented, InitStays, Together,
     TypeOK, Forking, SwitchPC, WaitPC, At, Goto, SetState, lockVars, cpuVars
<1>12. CASE exit_zombie(s, c)
  BY <1>0, <1>12, Basic DEF exit_zombie, Reparented, InitStays, Together, TypeOK,
     Forking, SwitchPC, WaitPC, At, Goto, Acquire, SetState, cpuVars, locals
<1>13. CASE wait(s, c)
  BY <1>0, <1>13, Basic DEF wait, Reparented, InitStays, Together, TypeOK, Forking,
     SwitchPC, WaitPC, At, Goto, procVars, cpuVars
<1>14. CASE wait_reap(s, c)
  BY <1>0, <1>14, Basic DEF wait_reap, freeproc, Reparented, InitStays, Together,
     TypeOK, Forking, SwitchPC, WaitPC, At, SetState, cpuVars, locals
<1>15. CASE wait_scan(s, c)
  BY <1>0, <1>15, Basic DEF wait_scan, Reparented, InitStays, Together, TypeOK, Forking,
     SwitchPC, WaitPC, At, Goto, procVars, lockVars, cpuVars
<1>16. CASE wait_check(s, c)
  BY <1>0, <1>16, Basic DEF wait_check, Reparented, InitStays, Together, TypeOK,
     Forking, SwitchPC, WaitPC, At, Goto, procVars, cpuVars, locals
<1>17. CASE yield(s, c)
  BY <1>0, <1>17, Basic DEF yield, Reparented, InitStays, Together, TypeOK,
     Interruptible, Forking, SwitchPC, WaitPC, At, Goto, Acquire, SetState, cpuVars,
     locals
<1>18. CASE wait_copyout_fail(s, c)
  BY <1>0, <1>18, Basic DEF wait_copyout_fail, Reparented, InitStays, Together, TypeOK,
     Forking, SwitchPC, WaitPC, At, Goto, procVars, cpuVars, locals
<1>19. CASE exit(s, c)
  <2>1. /\ pc' = [pc EXCEPT ![s] = "reparent"] /\ idx' = [idx EXCEPT ![s] = 1]
        /\ parent' = parent
    BY <1>19 DEF exit, Goto, procVars
  <2>2. \A x \in Slots : x >= 1 /\ pc \in [Slots -> PC] /\ idx \in [Slots -> 1..(NPROC + 1)]
    BY <1>0, Basic DEF Together, TypeOK, Slots
  <2> QED
    BY <1>0, <2>1, <2>2 DEF Reparented
<1>20. ASSUME NEW t \in Slots, fork(s, c, t) PROVE Reparented'
  BY <1>0, <1>20, Basic DEF fork, Reparented, InitStays, Together, TypeOK, Forking,
     SwitchPC, WaitPC, At, Goto, SetState, lockVars, cpuVars
<1>21. ASSUME NEW t \in Slots, fork_fail(s, c, t) PROVE Reparented'
  BY <1>0, <1>21, Basic DEF fork_fail, Reparented, InitStays, Together, TypeOK, Forking,
     SwitchPC, WaitPC, At, lockVars, cpuVars, locals
<1>22. ASSUME NEW t \in Slots, kill(s, c, t) PROVE Reparented'
  BY <1>0, <1>22, Basic DEF kill, Reparented, InitStays, Together, TypeOK, Forking,
     SwitchPC, WaitPC, At, SetState, lockVars, cpuVars, locals
<1> QED
  BY <1>1, <1>2, <1>3, <1>4, <1>5, <1>6, <1>7, <1>8, <1>9, <1>10, <1>11, <1>12, <1>13,
     <1>14, <1>15, <1>16, <1>17, <1>18, <1>19, <1>20, <1>21, <1>22 DEF Step, KernelStep

\* Steps keep what wait() has seen.
LEMMA ScannedStep ==
  ASSUME ProcInv, Family, NEW c \in CPUs, NEW s \in Slots, Step(s, c)
  PROVE  Scanned'
<1>0. Together /\ InitStays /\ Reparented /\ Scanned /\ ParentWoken /\ NoLostChild /\ NoOrphan
  BY ProcTogether DEF Family
<1>1. CASE scheduler_back(c)
  BY <1>0, <1>1, Basic DEF scheduler_back, Scanned, InitStays, Together, TypeOK,
     Forking, SwitchPC, WaitPC, Release, procVars, locals
<1>2. CASE exit_init(c)
  BY <1>0, <1>2, Basic DEF exit_init, Scanned, InitStays, Together, TypeOK, Forking,
     SwitchPC, WaitPC, At, procVars, lockVars, cpuVars, locals
<1>3. CASE scheduler(c, s)
  BY <1>0, <1>3, Basic DEF scheduler, Scanned, InitStays, Together, TypeOK, Forking,
     SwitchPC, WaitPC, Acquire, SetState, locals
<1>4. CASE sched(s, c)
  BY <1>0, <1>4, Basic DEF sched, Scanned, InitStays, Together, TypeOK, Forking,
     SwitchPC, WaitPC, Resume, Goto, procVars, lockVars, locals
<1>5. CASE yield_back(s, c)
  BY <1>0, <1>5, Basic DEF yield_back, Scanned, InitStays, Together, TypeOK,
     Interruptible, Forking, SwitchPC, WaitPC, At, Goto, Release, procVars, cpuVars,
     locals
<1>6. CASE sleep(s, c)
  BY <1>0, <1>6, Basic DEF sleep, Scanned, InitStays, Together, TypeOK, Forking,
     SwitchPC, WaitPC, At, Goto, Acquire, SetState, cpuVars, locals
<1>7. CASE sleep_back(s, c)
  BY <1>0, <1>7, Basic DEF sleep_back, Scanned, InitStays, Together, TypeOK, Forking,
     SwitchPC, WaitPC, At, Goto, Release, cpuVars, locals
<1>8. CASE fork_parent(s, c)
  BY <1>0, <1>8, Basic DEF fork_parent, Scanned, InitStays, Together, TypeOK, Forking,
     SwitchPC, WaitPC, At, Goto, lockVars, cpuVars, locals
<1>9. CASE fork_run(s, c)
  BY <1>0, <1>9, Basic DEF fork_run, Scanned, InitStays, Together, TypeOK, Forking,
     InFork, ForkPC, SwitchPC, WaitPC, At, SetState, lockVars, cpuVars
<1>10. CASE reparent(s, c)
  BY <1>0, <1>10, Basic DEF reparent, Scanned, InitStays, Together, TypeOK, Forking,
     SwitchPC, WaitPC, At, Goto, lockVars, cpuVars
<1>11. CASE exit_wakeup(s, c)
  BY <1>0, <1>11, Basic DEF exit_wakeup, wakeup, Wake, Scanned, InitStays, Together,
     TypeOK, Forking, SwitchPC, WaitPC, At, Goto, SetState, lockVars, cpuVars
<1>12. CASE exit_zombie(s, c)
  BY <1>0, <1>12, Basic DEF exit_zombie, Scanned, InitStays, Together, TypeOK, Forking,
     SwitchPC, WaitPC, At, Goto, Acquire, SetState, cpuVars, locals
<1>13. CASE wait(s, c)
  <2>1. /\ pc' = [pc EXCEPT ![s] = "scan"] /\ idx' = [idx EXCEPT ![s] = 1]
        /\ parent' = parent /\ state' = state
    BY <1>13 DEF wait, Goto, procVars
  <2>2. \A x \in Slots : x >= 1 /\ pc \in [Slots -> PC] /\ idx \in [Slots -> 1..(NPROC + 1)]
    BY <1>0, Basic DEF Together, TypeOK, Slots
  <2> QED
    BY <1>0, <2>1, <2>2 DEF Scanned
<1>14. CASE wait_reap(s, c)
  BY <1>0, <1>14, Basic DEF wait_reap, freeproc, Scanned, InitStays, Together, TypeOK,
     Forking, SwitchPC, WaitPC, At, SetState, cpuVars, locals
<1>15. CASE wait_scan(s, c)
  <2>0. /\ idx[s] \in 1..(NPROC + 1) /\ pc[s] = "scan" /\ parent' = parent /\ state' = state
        /\ pc \in [Slots -> PC] /\ idx \in [Slots -> 1..(NPROC + 1)]
    BY <1>0, <1>15 DEF wait_scan, At, procVars, Together, TypeOK
  <2>1. CASE idx[s] > NPROC
    <3>1. pc' = [pc EXCEPT ![s] = "wait_check"] /\ idx' = idx
      BY <1>15, <2>0, <2>1, Basic DEF wait_scan, Goto
    <3> QED
      BY <1>0, <2>0, <2>1, <3>1, Basic DEF Scanned, Slots
  <2>2. CASE idx[s] <= NPROC
    <3>1. /\ idx' = [idx EXCEPT ![s] = idx[s] + 1] /\ pc' = pc
          /\ parent[idx[s]] # s \/ state[idx[s]] # "ZOMBIE"
      BY <1>15, <2>0, <2>2, Basic DEF wait_scan
    <3> QED
      BY <1>0, <2>0, <2>2, <3>1, Basic DEF Scanned
  <2> QED
    BY <2>0, <2>1, <2>2, Basic
<1>16. CASE wait_check(s, c)
  BY <1>0, <1>16, Basic DEF wait_check, Scanned, InitStays, Together, TypeOK, Forking,
     SwitchPC, WaitPC, At, Goto, procVars, cpuVars, locals
<1>17. CASE yield(s, c)
  BY <1>0, <1>17, Basic DEF yield, Scanned, InitStays, Together, TypeOK, Interruptible, Forking,
     SwitchPC, WaitPC, At, Goto, Acquire, SetState, cpuVars, locals
<1>18. CASE wait_copyout_fail(s, c)
  BY <1>0, <1>18, Basic DEF wait_copyout_fail, Scanned, InitStays, Together, TypeOK,
     Forking, SwitchPC, WaitPC, At, Goto, procVars, cpuVars, locals
<1>19. CASE exit(s, c)
  BY <1>0, <1>19, Basic DEF exit, Scanned, InitStays, Together, TypeOK, Forking,
     SwitchPC, WaitPC, At, Goto, procVars, cpuVars
<1>20. ASSUME NEW t \in Slots, fork(s, c, t) PROVE Scanned'
  BY <1>0, <1>20, Basic DEF fork, Scanned, InitStays, Together, TypeOK, Forking,
     SwitchPC, WaitPC, At, Goto, SetState, lockVars, cpuVars
<1>21. ASSUME NEW t \in Slots, fork_fail(s, c, t) PROVE Scanned'
  BY <1>0, <1>21, Basic DEF fork_fail, Scanned, InitStays, Together, TypeOK, Forking,
     SwitchPC, WaitPC, At, lockVars, cpuVars, locals
<1>22. ASSUME NEW t \in Slots, kill(s, c, t) PROVE Scanned'
  BY <1>0, <1>22, Basic DEF kill, Scanned, InitStays, Together, TypeOK, Forking,
     SwitchPC, WaitPC, At, SetState, lockVars, cpuVars, locals
<1> QED
  BY <1>1, <1>2, <1>3, <1>4, <1>5, <1>6, <1>7, <1>8, <1>9, <1>10, <1>11, <1>12, <1>13,
     <1>14, <1>15, <1>16, <1>17, <1>18, <1>19, <1>20, <1>21, <1>22 DEF Step, KernelStep

\* Steps keep the parent of an exiting process awake.
LEMMA ParentWokenStep ==
  ASSUME ProcInv, Family, NEW c \in CPUs, NEW s \in Slots, Step(s, c)
  PROVE  ParentWoken'
<1>0. Together /\ InitStays /\ Reparented /\ Scanned /\ ParentWoken /\ NoLostChild /\ NoOrphan
  BY ProcTogether DEF Family
<1>1. CASE scheduler_back(c)
  BY <1>0, <1>1, Basic DEF scheduler_back, ParentWoken, InWait, InitStays, Together,
     TypeOK, Forking, SwitchPC, WaitPC, Release, procVars, locals
<1>2. CASE exit_init(c)
  BY <1>0, <1>2, Basic DEF exit_init, ParentWoken, InWait, InitStays, Together, TypeOK,
     Forking, SwitchPC, WaitPC, At, procVars, lockVars, cpuVars, locals
<1>3. CASE scheduler(c, s)
  BY <1>0, <1>3, Basic DEF scheduler, ParentWoken, InWait, InitStays, Together, TypeOK,
     Forking, SwitchPC, WaitPC, Acquire, SetState, locals
<1>4. CASE sched(s, c)
  BY <1>0, <1>4, Basic DEF sched, ParentWoken, InWait, InitStays, Together, TypeOK,
     Forking, SwitchPC, WaitPC, Resume, Goto, procVars, lockVars, locals
<1>5. CASE yield_back(s, c)
  BY <1>0, <1>5, Basic DEF yield_back, ParentWoken, InWait, InitStays, Together, TypeOK,
     Interruptible, Forking, SwitchPC, WaitPC, At, Goto, Release, procVars, cpuVars,
     locals
<1>6. CASE sleep(s, c)
  BY <1>0, <1>6, Basic DEF sleep, ParentWoken, InWait, InitStays, Together, TypeOK,
     Forking, SwitchPC, WaitPC, At, Goto, Acquire, SetState, cpuVars, locals
<1>7. CASE sleep_back(s, c)
  BY <1>0, <1>7, Basic DEF sleep_back, ParentWoken, InWait, InitStays, Together, TypeOK,
     Forking, SwitchPC, WaitPC, At, Goto, Release, cpuVars, locals
<1>8. CASE fork_parent(s, c)
  BY <1>0, <1>8, Basic DEF fork_parent, ParentWoken, InWait, InitStays, Together,
     TypeOK, Forking, SwitchPC, WaitPC, At, Goto, lockVars, cpuVars, locals
<1>9. CASE fork_run(s, c)
  BY <1>0, <1>9, Basic DEF fork_run, ParentWoken, InWait, InitStays, Together, TypeOK,
     Forking, InFork, ForkPC, SwitchPC, WaitPC, At, SetState, lockVars, cpuVars
<1>10. CASE reparent(s, c)
  <2>0. /\ idx[s] \in 1..(NPROC + 1) /\ pc[s] = "reparent" /\ UNCHANGED <<state, chan>> /\ s # initproc
        /\ pc \in [Slots -> PC] /\ idx \in [Slots -> 1..(NPROC + 1)]
        /\ widx \in [Slots -> 1..(NPROC + 1)] /\ parent \in [Slots -> Slots \cup {NoProc}]
    BY <1>0, <1>10 DEF reparent, At, Together, TypeOK, InitStays
  <2>1. CASE idx[s] > NPROC
    <3>1. /\ pc' = [pc EXCEPT ![s] = "wakeup_parent"] /\ UNCHANGED <<parent, idx>>
          /\ widx' = [widx EXCEPT ![s] = 1]
      BY <1>10, <2>1 DEF reparent, Goto
    <3> QED
      BY <1>0, <2>0, <2>1, <3>1, Basic DEF ParentWoken, InWait, Together, WaitPC, Slots,
         initproc, NoProc, Slots
  <2>2. CASE idx[s] <= NPROC /\ parent[idx[s]] = s
    <3>1. /\ parent' = [parent EXCEPT ![idx[s]] = initproc]
          /\ pc' = [pc EXCEPT ![s] = "wakeup_init"] /\ UNCHANGED idx
          /\ widx' = [widx EXCEPT ![s] = 1]
      BY <2>0, <1>10, <2>2, Basic DEF reparent, Goto
    <3>2. idx[s] \in Slots
      BY <2>0, <2>2, Increment
    <3> QED
      BY <1>0, <2>0, <2>2, <3>1, <3>2, Basic DEF ParentWoken, InWait, Together, WaitPC,
         Slots, initproc, NoProc
  <2>3. CASE idx[s] <= NPROC /\ parent[idx[s]] # s
    <3>1. idx' = [idx EXCEPT ![s] = idx[s] + 1] /\ UNCHANGED <<parent, pc, widx>>
      BY <2>0, <1>10, <2>3, Basic DEF reparent
    <3> QED
      BY <1>0, <2>0, <2>3, <3>1, Basic DEF ParentWoken, InWait, Together, WaitPC, Slots,
         initproc, NoProc
  <2> QED
    BY <2>0, <2>1, <2>2, <2>3, Basic
<1>11. CASE exit_wakeup(s, c)
  <2>0. /\ widx[s] \in 1..(NPROC + 1) /\ UNCHANGED <<parent, chan>> /\ pc[s] \in WaitPC
        /\ s \in Slots /\ pc \in [Slots -> PC] /\ state \in [Slots -> States]
        /\ widx \in [Slots -> 1..(NPROC + 1)] /\ parent \in [Slots -> Slots \cup {NoProc}]
    BY <1>0, <1>11 DEF exit_wakeup, wakeup, At, Together, TypeOK, WaitPC
  <2>1. ASSUME NEW r \in Slots
        PROVE  /\ state'[r] = state[r] \/ (state[r] = "SLEEPING" /\ state'[r] = "RUNNABLE")
               /\ r # s => pc'[r] = pc[r] /\ widx'[r] = widx[r]
    BY <2>0, <1>11 DEF exit_wakeup, wakeup, Wake, SetState, Goto
  <2>2. ASSUME NEW r \in Slots, widx[s] > NPROC
        PROVE  state'[r] = state[r] /\ widx'[r] = widx[r]
    BY <2>0, <2>2, <1>11 DEF exit_wakeup, wakeup
  <2>3. ASSUME widx[s] <= NPROC
        PROVE  /\ pc' = pc /\ widx'[s] = widx[s] + 1 /\ widx[s] \in Slots
               /\ widx[s] = s \/ ~(state'[widx[s]] = "SLEEPING"
                     /\ chan[widx[s]] = IF pc[s] = "wakeup_init" THEN initproc ELSE parent[s])
    <3>1. widx[s] \in Slots
      BY <2>0, <2>3, Increment
    <3>2. pc' = pc /\ widx'[s] = widx[s] + 1
      BY <2>0, <2>3, <1>11, Basic DEF exit_wakeup, wakeup
    <3>3. CASE pc[s] = "wakeup_init"
      <4>1. wakeup(s, initproc, "reparent")
        BY <3>3, <1>11 DEF exit_wakeup, At
      <4> QED
        BY <2>0, <2>3, <3>1, <3>2, <3>3, <4>1, Basic DEF wakeup, Wake, SetState
    <3>4. CASE pc[s] # "wakeup_init"
      <4>1. wakeup(s, parent[s], "exit_lock")
        BY <3>4, <1>11 DEF exit_wakeup, At
      <4> QED
        BY <2>0, <2>3, <3>1, <3>2, <3>4, <4>1, Basic DEF wakeup, Wake, SetState
    <3> QED
      BY <3>3, <3>4
  <2>4. pc'[s] = "exit_lock" => widx[s] > NPROC /\ pc[s] = "wakeup_parent"
    BY <2>0, <1>0, <1>11, Basic DEF exit_wakeup, wakeup, At, Goto
  <2>5. pc'[s] = "wakeup_parent" => pc[s] = "wakeup_parent" /\ widx[s] <= NPROC
    BY <2>0, <1>0, <1>11, Basic DEF exit_wakeup, wakeup, At, Goto
  <2>6. state[s] = "RUNNING"
    BY <1>0, <2>0 DEF Together, WaitPC, SwitchPC
  <2>7. ASSUME NEW x \in Slots, NEW y \in Slots, parent'[y] = x, InWait(x)'
        PROVE  (pc'[y] = "wakeup_parent" => widx'[y] <= x) /\ pc'[y] # "exit_lock"
    <3>1. parent[y] = x /\ InWait(x)
      BY <2>0, <2>1, <2>7 DEF InWait
    <3>2. CASE y # s
      BY <1>0, <2>1, <3>1, <3>2 DEF ParentWoken
    <3>3. CASE y = s /\ widx[s] <= NPROC
      <4>1. pc[s] = "wakeup_parent" => widx[s] <= x
        BY <1>0, <3>1, <3>3 DEF ParentWoken
      <4>2. pc[s] = "wakeup_parent" => widx[s] # x
        BY <2>0, <2>3, <2>6, <2>7, <3>1, <3>3 DEF InWait
      <4> QED
        BY <2>0, <2>3, <2>4, <3>3, <4>1, <4>2, Basic
    <3>4. CASE y = s /\ widx[s] > NPROC
      <4>1. x <= NPROC
        BY NPROCAssumption DEF Slots
      <4>2. pc[s] # "wakeup_parent"
        BY <1>0, <2>0, <3>1, <3>4, <4>1, Basic DEF ParentWoken
      <4> QED
        BY <2>4, <2>5, <3>4, <4>2
    <3> QED
      BY <2>0, <3>2, <3>3, <3>4, Basic
  <2> QED
    BY <2>7 DEF ParentWoken
<1>12. CASE exit_zombie(s, c)
  BY <1>0, <1>12, Basic DEF exit_zombie, ParentWoken, InWait, InitStays, Together,
     TypeOK, Forking, SwitchPC, WaitPC, At, Goto, Acquire, SetState, cpuVars, locals
<1>13. CASE wait(s, c)
  BY <1>0, <1>13, Basic DEF wait, ParentWoken, InWait, InitStays, Together, TypeOK,
     Forking, SwitchPC, WaitPC, At, Goto, procVars, cpuVars
<1>14. CASE wait_reap(s, c)
  BY <1>0, <1>14, Basic DEF wait_reap, freeproc, ParentWoken, InWait, InitStays,
     Together, TypeOK, Forking, SwitchPC, WaitPC, At, SetState, cpuVars, locals
<1>15. CASE wait_scan(s, c)
  BY <1>0, <1>15, Basic DEF wait_scan, ParentWoken, InWait, InitStays, Together, TypeOK,
     Forking, SwitchPC, WaitPC, At, Goto, procVars, lockVars, cpuVars
<1>16. CASE wait_check(s, c)
  BY <1>0, <1>16, Basic DEF wait_check, ParentWoken, InWait, InitStays, Together,
     TypeOK, Forking, SwitchPC, WaitPC, At, Goto, procVars, cpuVars, locals
<1>17. CASE yield(s, c)
  BY <1>0, <1>17, Basic DEF yield, ParentWoken, InWait, InitStays, Together, TypeOK,
     Interruptible, Forking, SwitchPC, WaitPC, At, Goto, Acquire, SetState, cpuVars,
     locals
<1>18. CASE wait_copyout_fail(s, c)
  BY <1>0, <1>18, Basic DEF wait_copyout_fail, ParentWoken, InWait, InitStays, Together,
     TypeOK, Forking, SwitchPC, WaitPC, At, Goto, procVars, cpuVars, locals
<1>19. CASE exit(s, c)
  BY <1>0, <1>19, Basic DEF exit, ParentWoken, InWait, InitStays, Together, TypeOK,
     Forking, SwitchPC, WaitPC, At, Goto, procVars, cpuVars
<1>20. ASSUME NEW t \in Slots, fork(s, c, t) PROVE ParentWoken'
  BY <1>0, <1>20, Basic DEF fork, ParentWoken, InWait, InitStays, Together, TypeOK,
     Forking, SwitchPC, WaitPC, At, Goto, SetState, lockVars, cpuVars
<1>21. ASSUME NEW t \in Slots, fork_fail(s, c, t) PROVE ParentWoken'
  BY <1>0, <1>21, Basic DEF fork_fail, ParentWoken, InWait, InitStays, Together, TypeOK,
     Forking, SwitchPC, WaitPC, At, lockVars, cpuVars, locals
<1>22. ASSUME NEW t \in Slots, kill(s, c, t) PROVE ParentWoken'
  BY <1>0, <1>22, Basic DEF kill, ParentWoken, InWait, InitStays, Together, TypeOK,
     Forking, SwitchPC, WaitPC, At, SetState, lockVars, cpuVars, locals
<1> QED
  BY <1>1, <1>2, <1>3, <1>4, <1>5, <1>6, <1>7, <1>8, <1>9, <1>10, <1>11, <1>12, <1>13,
     <1>14, <1>15, <1>16, <1>17, <1>18, <1>19, <1>20, <1>21, <1>22 DEF Step, KernelStep

\* Steps lose no child.
LEMMA NoLostChildStep ==
  ASSUME ProcInv, Family, NEW c \in CPUs, NEW s \in Slots, Step(s, c)
  PROVE  NoLostChild'
<1>0. Together /\ InitStays /\ Reparented /\ Scanned /\ ParentWoken /\ NoLostChild /\ NoOrphan
  BY ProcTogether DEF Family
<1>1. CASE scheduler_back(c)
  BY <1>0, <1>1, Basic DEF scheduler_back, NoLostChild, ParentWoken, Scanned, InWait,
     InitStays, Together, TypeOK, Forking, SwitchPC, WaitPC, Release, procVars, locals
<1>2. CASE exit_init(c)
  BY <1>0, <1>2, Basic DEF exit_init, NoLostChild, ParentWoken, Scanned, InWait,
     InitStays, Together, TypeOK, Forking, SwitchPC, WaitPC, At, procVars, lockVars,
     cpuVars, locals
<1>3. CASE scheduler(c, s)
  BY <1>0, <1>3, Basic DEF scheduler, NoLostChild, ParentWoken, Scanned, InWait,
     InitStays, Together, TypeOK, Forking, SwitchPC, WaitPC, Acquire, SetState, locals
<1>4. CASE sched(s, c)
  BY <1>0, <1>4, Basic DEF sched, NoLostChild, ParentWoken, Scanned, InWait, InitStays,
     Together, TypeOK, Forking, SwitchPC, WaitPC, Resume, Goto, procVars, lockVars,
     locals
<1>5. CASE yield_back(s, c)
  BY <1>0, <1>5, Basic DEF yield_back, NoLostChild, ParentWoken, Scanned, InWait,
     InitStays, Together, TypeOK, Interruptible, Forking, SwitchPC, WaitPC, At, Goto, Release,
     procVars, cpuVars, locals
<1>6. CASE sleep(s, c)
  BY <1>0, <1>6, Basic DEF sleep, NoLostChild, ParentWoken, Scanned, InWait, InitStays,
     Together, TypeOK, Forking, SwitchPC, WaitPC, At, Goto, Acquire, SetState, cpuVars,
     locals
<1>7. CASE sleep_back(s, c)
  BY <1>0, <1>7, Basic DEF sleep_back, NoLostChild, ParentWoken, Scanned, InWait,
     InitStays, Together, TypeOK, Forking, SwitchPC, WaitPC, At, Goto, Release, cpuVars,
     locals
<1>8. CASE fork_parent(s, c)
  BY <1>0, <1>8, Basic DEF fork_parent, NoLostChild, ParentWoken, Scanned, InWait,
     InitStays, Together, TypeOK, Forking, SwitchPC, WaitPC, At, Goto, lockVars,
     cpuVars, locals
<1>9. CASE fork_run(s, c)
  BY <1>0, <1>9, Basic DEF fork_run, NoLostChild, ParentWoken, Scanned, InWait,
     InitStays, Together, TypeOK, Forking, InFork, ForkPC, SwitchPC, WaitPC, At,
     SetState, lockVars, cpuVars
<1>10. CASE reparent(s, c)
  <2>0. /\ idx[s] \in 1..(NPROC + 1) /\ pc[s] = "reparent" /\ UNCHANGED <<state, chan>>
        /\ pc \in [Slots -> PC] /\ parent \in [Slots -> Slots \cup {NoProc}]
        /\ widx \in [Slots -> 1..(NPROC + 1)]
    BY <1>0, <1>10 DEF reparent, At, Together, TypeOK
  <2>1. ASSUME NEW r \in Slots PROVE pc[r] # "wakeup_init"
    BY <1>0, <2>0 DEF Together, WaitPC
  <2>2. ASSUME NEW x \in Slots, NEW y \in Slots, InWait(x)', parent'[y] = x, state'[y] = "ZOMBIE"
        PROVE  x = initproc /\ \E p \in Slots : pc'[p] = "wakeup_init" /\ widx'[p] <= x
    <3>1. parent[y] # x
      BY <1>0, <2>0, <2>1, <2>2 DEF NoLostChild, InWait
    <3>2. /\ parent' = [parent EXCEPT ![idx[s]] = initproc] /\ x = initproc
          /\ pc' = [pc EXCEPT ![s] = "wakeup_init"] /\ widx' = [widx EXCEPT ![s] = 1]
      BY <2>0, <2>2, <3>1, <1>10 DEF reparent, Goto
    <3>3. pc'[s] = "wakeup_init" /\ widx'[s] = 1
      BY <2>0, <3>2
    <3> QED
      BY <3>2, <3>3 DEF initproc
  <2> QED
    BY <2>2 DEF NoLostChild
<1>11. CASE exit_wakeup(s, c)
  <2>0. /\ widx[s] \in 1..(NPROC + 1) /\ UNCHANGED <<parent, chan>> /\ pc[s] \in WaitPC
        /\ s \in Slots /\ pc \in [Slots -> PC] /\ state \in [Slots -> States]
        /\ widx \in [Slots -> 1..(NPROC + 1)] /\ parent \in [Slots -> Slots \cup {NoProc}]
    BY <1>0, <1>11 DEF exit_wakeup, wakeup, At, Together, TypeOK, WaitPC
  <2>1. ASSUME NEW r \in Slots
        PROVE  /\ state'[r] = state[r] \/ (state[r] = "SLEEPING" /\ state'[r] = "RUNNABLE")
               /\ r # s => pc'[r] = pc[r] /\ widx'[r] = widx[r]
    BY <2>0, <1>11 DEF exit_wakeup, wakeup, Wake, SetState, Goto
  <2>2. ASSUME NEW r \in Slots, widx[s] > NPROC
        PROVE  state'[r] = state[r] /\ widx'[r] = widx[r]
    BY <2>0, <2>2, <1>11 DEF exit_wakeup, wakeup
  <2>3. ASSUME widx[s] <= NPROC
        PROVE  /\ pc' = pc /\ widx'[s] = widx[s] + 1 /\ widx[s] \in Slots
               /\ widx[s] = s \/ ~(state'[widx[s]] = "SLEEPING"
                     /\ chan[widx[s]] = IF pc[s] = "wakeup_init" THEN initproc ELSE parent[s])
    <3>1. widx[s] \in Slots
      BY <2>0, <2>3, Increment
    <3>2. pc' = pc /\ widx'[s] = widx[s] + 1
      BY <2>0, <2>3, <1>11, Basic DEF exit_wakeup, wakeup
    <3>3. CASE pc[s] = "wakeup_init"
      <4>1. wakeup(s, initproc, "reparent")
        BY <3>3, <1>11 DEF exit_wakeup, At
      <4> QED
        BY <2>0, <2>3, <3>1, <3>2, <3>3, <4>1, Basic DEF wakeup, Wake, SetState
    <3>4. CASE pc[s] # "wakeup_init"
      <4>1. wakeup(s, parent[s], "exit_lock")
        BY <3>4, <1>11 DEF exit_wakeup, At
      <4> QED
        BY <2>0, <2>3, <3>1, <3>2, <3>4, <4>1, Basic DEF wakeup, Wake, SetState
    <3> QED
      BY <3>3, <3>4
  <2>7. ASSUME NEW x \in Slots, NEW y \in Slots, InWait(x)', parent'[y] = x, state'[y] = "ZOMBIE"
        PROVE  x = initproc /\ \E p \in Slots : pc'[p] = "wakeup_init" /\ widx'[p] <= x
    <3>1. InWait(x) /\ parent[y] = x /\ state[y] = "ZOMBIE"
      BY <2>0, <2>1, <2>7 DEF InWait
    <3>2. x = initproc /\ \E p \in Slots : pc[p] = "wakeup_init" /\ widx[p] <= x
      BY <1>0, <3>1 DEF NoLostChild
    <3>3. pc[s] = "wakeup_init" /\ widx[s] <= x
      BY <1>0, <2>0, <3>2 DEF Together, WaitPC
    <3>4. s # initproc /\ initproc <= NPROC
      BY <1>0, <3>3, NPROCAssumption DEF InitStays, initproc
    <3>5. widx[s] = x /\ widx[s] <= NPROC
      BY <2>0, <3>2, <3>3, <3>4, NPROCAssumption DEF initproc
    <3> QED
      BY <2>0, <2>3, <2>7, <3>1, <3>2, <3>3, <3>4, <3>5 DEF InWait
  <2> QED
    BY <2>7 DEF NoLostChild
<1>12. CASE exit_zombie(s, c)
  BY <1>0, <1>12, Basic DEF exit_zombie, NoLostChild, ParentWoken, Scanned, InWait,
     InitStays, Together, TypeOK, Forking, SwitchPC, WaitPC, At, Goto, Acquire,
     SetState, cpuVars, locals
<1>13. CASE wait(s, c)
  BY <1>0, <1>13, Basic DEF wait, NoLostChild, ParentWoken, Scanned, InWait, InitStays,
     Together, TypeOK, Forking, SwitchPC, WaitPC, At, Goto, procVars, cpuVars
<1>14. CASE wait_reap(s, c)
  BY <1>0, <1>14, Basic DEF wait_reap, freeproc, NoLostChild, ParentWoken, Scanned,
     InWait, InitStays, Together, TypeOK, Forking, SwitchPC, WaitPC, At, SetState,
     cpuVars, locals
<1>15. CASE wait_scan(s, c)
  BY <1>0, <1>15, Basic DEF wait_scan, NoLostChild, ParentWoken, Scanned, InWait,
     InitStays, Together, TypeOK, Forking, SwitchPC, WaitPC, At, Goto, procVars,
     lockVars, cpuVars
<1>16. CASE wait_check(s, c)
  BY <1>0, <1>16, Basic DEF wait_check, NoLostChild, ParentWoken, Scanned, InWait,
     InitStays, Together, TypeOK, Forking, SwitchPC, WaitPC, At, Goto, procVars,
     cpuVars, locals
<1>17. CASE yield(s, c)
  BY <1>0, <1>17, Basic DEF yield, NoLostChild, ParentWoken, Scanned, InWait, InitStays,
     Together, TypeOK, Interruptible, Forking, SwitchPC, WaitPC, At, Goto, Acquire,
     SetState, cpuVars, locals
<1>18. CASE wait_copyout_fail(s, c)
  BY <1>0, <1>18, Basic DEF wait_copyout_fail, NoLostChild, ParentWoken, Scanned,
     InWait, InitStays, Together, TypeOK, Forking, SwitchPC, WaitPC, At, Goto, procVars,
     cpuVars, locals
<1>19. CASE exit(s, c)
  BY <1>0, <1>19, Basic DEF exit, NoLostChild, ParentWoken, Scanned, InWait, InitStays,
     Together, TypeOK, Forking, SwitchPC, WaitPC, At, Goto, procVars, cpuVars
<1>20. ASSUME NEW t \in Slots, fork(s, c, t) PROVE NoLostChild'
  BY <1>0, <1>20, Basic DEF fork, NoLostChild, ParentWoken, Scanned, InWait, InitStays,
     Together, TypeOK, Forking, SwitchPC, WaitPC, At, Goto, SetState, lockVars, cpuVars
<1>21. ASSUME NEW t \in Slots, fork_fail(s, c, t) PROVE NoLostChild'
  BY <1>0, <1>21, Basic DEF fork_fail, NoLostChild, ParentWoken, Scanned, InWait,
     InitStays, Together, TypeOK, Forking, SwitchPC, WaitPC, At, lockVars, cpuVars,
     locals
<1>22. ASSUME NEW t \in Slots, kill(s, c, t) PROVE NoLostChild'
  BY <1>0, <1>22, Basic DEF kill, NoLostChild, ParentWoken, Scanned, InWait, InitStays,
     Together, TypeOK, Forking, SwitchPC, WaitPC, At, SetState, lockVars, cpuVars,
     locals
<1> QED
  BY <1>1, <1>2, <1>3, <1>4, <1>5, <1>6, <1>7, <1>8, <1>9, <1>10, <1>11, <1>12, <1>13,
     <1>14, <1>15, <1>16, <1>17, <1>18, <1>19, <1>20, <1>21, <1>22 DEF Step, KernelStep

\* Steps leave no orphan.
LEMMA NoOrphanStep ==
  ASSUME ProcInv, Family, NEW c \in CPUs, NEW s \in Slots, Step(s, c)
  PROVE  NoOrphan'
<1>0. Together /\ InitStays /\ Reparented /\ Scanned /\ ParentWoken /\ NoLostChild /\ NoOrphan
  BY ProcTogether DEF Family
<1>1. CASE scheduler_back(c)
  BY <1>0, <1>1, Basic DEF scheduler_back, NoOrphan, Reparented, InitStays, Together,
     TypeOK, Forking, SwitchPC, WaitPC, Release, procVars, locals
<1>2. CASE exit_init(c)
  BY <1>0, <1>2, Basic DEF exit_init, NoOrphan, Reparented, InitStays, Together, TypeOK,
     Forking, SwitchPC, WaitPC, At, procVars, lockVars, cpuVars, locals
<1>3. CASE scheduler(c, s)
  BY <1>0, <1>3, Basic DEF scheduler, NoOrphan, Reparented, InitStays, Together, TypeOK,
     Forking, SwitchPC, WaitPC, Acquire, SetState, locals
<1>4. CASE sched(s, c)
  BY <1>0, <1>4, Basic DEF sched, NoOrphan, Reparented, InitStays, Together, TypeOK,
     Forking, SwitchPC, WaitPC, Resume, Goto, procVars, lockVars, locals
<1>5. CASE yield_back(s, c)
  BY <1>0, <1>5, Basic DEF yield_back, NoOrphan, Reparented, InitStays, Together,
     TypeOK, Interruptible, Forking, SwitchPC, WaitPC, At, Goto, Release, procVars,
     cpuVars, locals
<1>6. CASE sleep(s, c)
  BY <1>0, <1>6, Basic DEF sleep, NoOrphan, Reparented, InitStays, Together, TypeOK,
     Forking, SwitchPC, WaitPC, At, Goto, Acquire, SetState, cpuVars, locals
<1>7. CASE sleep_back(s, c)
  BY <1>0, <1>7, Basic DEF sleep_back, NoOrphan, Reparented, InitStays, Together,
     TypeOK, Forking, SwitchPC, WaitPC, At, Goto, Release, cpuVars, locals
<1>8. CASE fork_parent(s, c)
  BY <1>0, <1>8, Basic DEF fork_parent, NoOrphan, Reparented, InitStays, Together,
     TypeOK, Forking, SwitchPC, WaitPC, At, Goto, lockVars, cpuVars, locals
<1>9. CASE fork_run(s, c)
  BY <1>0, <1>9, Basic DEF fork_run, NoOrphan, Reparented, InitStays, Together, TypeOK,
     Forking, InFork, ForkPC, SwitchPC, WaitPC, At, SetState, lockVars, cpuVars
<1>10. CASE reparent(s, c)
  BY <1>0, <1>10, Basic DEF reparent, NoOrphan, Reparented, InitStays, Together, TypeOK,
     Forking, SwitchPC, WaitPC, At, Goto, lockVars, cpuVars
<1>11. CASE exit_wakeup(s, c)
  <2>1. ASSUME NEW r \in Slots
        PROVE  state'[r] = state[r] \/ (state[r] = "SLEEPING" /\ state'[r] = "RUNNABLE")
    BY <1>0, <1>11 DEF exit_wakeup, wakeup, Wake, SetState, Together, TypeOK
  <2>2. parent' = parent /\ parent \in [Slots -> Slots \cup {NoProc}]
    BY <1>0, <1>11 DEF exit_wakeup, wakeup, Together, TypeOK
  <2> QED
    BY <1>0, <2>1, <2>2 DEF NoOrphan
<1>12. CASE exit_zombie(s, c)
  BY <1>0, <1>12, Basic DEF exit_zombie, NoOrphan, Reparented, InitStays, Together,
     TypeOK, Forking, SwitchPC, WaitPC, At, Goto, Acquire, SetState, cpuVars, locals
<1>13. CASE wait(s, c)
  BY <1>0, <1>13, Basic DEF wait, NoOrphan, Reparented, InitStays, Together, TypeOK,
     Forking, SwitchPC, WaitPC, At, Goto, procVars, cpuVars
<1>14. CASE wait_reap(s, c)
  BY <1>0, <1>14, Basic DEF wait_reap, freeproc, NoOrphan, Reparented, InitStays,
     Together, TypeOK, Forking, SwitchPC, WaitPC, At, SetState, cpuVars, locals
<1>15. CASE wait_scan(s, c)
  BY <1>0, <1>15, Basic DEF wait_scan, NoOrphan, Reparented, InitStays, Together,
     TypeOK, Forking, SwitchPC, WaitPC, At, Goto, procVars, lockVars, cpuVars
<1>16. CASE wait_check(s, c)
  BY <1>0, <1>16, Basic DEF wait_check, NoOrphan, Reparented, InitStays, Together,
     TypeOK, Forking, SwitchPC, WaitPC, At, Goto, procVars, cpuVars, locals
<1>17. CASE yield(s, c)
  BY <1>0, <1>17, Basic DEF yield, NoOrphan, Reparented, InitStays, Together, TypeOK,
     Interruptible, Forking, SwitchPC, WaitPC, At, Goto, Acquire, SetState, cpuVars,
     locals
<1>18. CASE wait_copyout_fail(s, c)
  BY <1>0, <1>18, Basic DEF wait_copyout_fail, NoOrphan, Reparented, InitStays,
     Together, TypeOK, Forking, SwitchPC, WaitPC, At, Goto, procVars, cpuVars, locals
<1>19. CASE exit(s, c)
  BY <1>0, <1>19, Basic DEF exit, NoOrphan, Reparented, InitStays, Together, TypeOK,
     Forking, SwitchPC, WaitPC, At, Goto, procVars, cpuVars
<1>20. ASSUME NEW t \in Slots, fork(s, c, t) PROVE NoOrphan'
  BY <1>0, <1>20, Basic DEF fork, NoOrphan, Reparented, InitStays, Together, TypeOK,
     Forking, SwitchPC, WaitPC, At, Goto, SetState, lockVars, cpuVars
<1>21. ASSUME NEW t \in Slots, fork_fail(s, c, t) PROVE NoOrphan'
  BY <1>0, <1>21, Basic DEF fork_fail, NoOrphan, Reparented, InitStays, Together,
     TypeOK, Forking, SwitchPC, WaitPC, At, lockVars, cpuVars, locals
<1>22. ASSUME NEW t \in Slots, kill(s, c, t) PROVE NoOrphan'
  <2>1. ASSUME NEW r \in Slots
        PROVE  state'[r] = state[r] \/ (state[r] = "SLEEPING" /\ state'[r] = "RUNNABLE")
    BY <1>0, <1>22 DEF kill, SetState, Together, TypeOK
  <2>2. parent' = parent /\ parent \in [Slots -> Slots \cup {NoProc}]
    BY <1>0, <1>22 DEF kill, Together, TypeOK
  <2> QED
    BY <1>0, <2>1, <2>2 DEF NoOrphan
<1> QED
  BY <1>1, <1>2, <1>3, <1>4, <1>5, <1>6, <1>7, <1>8, <1>9, <1>10, <1>11, <1>12, <1>13,
     <1>14, <1>15, <1>16, <1>17, <1>18, <1>19, <1>20, <1>21, <1>22 DEF Step, KernelStep

\* The family of init alone.
LEMMA FamilyInit == Init => Family
<1> SUFFICES ASSUME Init PROVE Family
  OBVIOUS
<1>1. InitStays /\ NoOrphan
  BY Basic DEF Init, InitStays, NoOrphan
<1>2. Reparented /\ Scanned /\ ParentWoken /\ NoLostChild
  BY Basic DEF Init, Reparented, Scanned, ParentWoken, NoLostChild
<1> QED
  BY <1>1, <1>2 DEF Family

\* Every step keeps Family.
LEMMA FamilyStep == ProcInv /\ Family /\ [Next]_vars => Family'
<1> SUFFICES ASSUME ProcInv, Family, [Next]_vars PROVE Family'
  OBVIOUS
<1>1. CASE UNCHANGED vars
  BY <1>1 DEF Family, InitStays, Reparented, Scanned, ParentWoken, NoLostChild,
     NoOrphan, 
              InWait, vars, procVars, lockVars, cpuVars, locals
<1>2. ASSUME NEW c \in CPUs, NEW s \in Slots, Step(s, c) PROVE Family'
  BY <1>2, InitStaysStep, ReparentedStep, ScannedStep, ParentWokenStep, NoLostChildStep,
     NoOrphanStep DEF Family
<1> QED
  BY <1>1, <1>2, NextIsStep

\* For any number of processes and CPUs, a parent asleep in wait() has no
\* zombie child that nobody is about to wake it for, and every process has a
\* parent that can still reap it (kernel/proc.c: exit, reparent, wakeup, wait,
\* sleep).
THEOREM FamilyKept == Spec => []Family
  BY ProcInvariant, FamilyInit, FamilyStep, PTL DEF Spec
=============================================================================
