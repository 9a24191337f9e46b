-------------------------------- MODULE Log --------------------------------
(***************************************************************************)
(* kernel/log.c: the write-ahead log that makes file-system calls atomic   *)
(* with respect to crashes, together with the part of kernel/bio.c it      *)
(* depends on (caching, pinning and recycling of buffers).                 *)
(*                                                                         *)
(* log.lock makes each section of begin_op(), end_op() and log_write()     *)
(* atomic; commit() runs without it, one disk write per step, so that a    *)
(* crash can fall between any two writes of the commit and of recovery.    *)
(* A bread()..brelse() of a block is atomic here: module Bcache shows that *)
(* the buffer's sleep-lock makes it so.                                    *)
(***************************************************************************)
EXTENDS Integers, FiniteSets

CONSTANTS
    Procs,        \* processes that make file-system calls
    InitProc,     \* the process that runs fsinit() at boot (forkret)
    Blocks,       \* home locations, outside the log area
    Vals,         \* contents of a block
    Absent,       \* contents of a buffer for a block that is not cached
    NoBlock,      \* block number 0 (the boot block), never logged
    MAXOPBLOCKS,  \* param.h: what begin_op() reserves for a call
    OPBLOCKS,     \* the most blocks a call really appends to the log
    LOGSIZE,      \* param.h: max data blocks in the on-disk log
    NLog          \* sb.nlog: blocks in the log area, the header included

ASSUME ProcsAssumption == IsFiniteSet(Procs) /\ InitProc \in Procs
ASSUME BlocksAssumption == NoBlock \notin Blocks /\ Absent \notin Vals
ASSUME SizeAssumption ==
    /\ MAXOPBLOCKS \in Nat \ {0}
    /\ OPBLOCKS \in 0..MAXOPBLOCKS
    /\ LOGSIZE \in Nat \ {0}
    /\ NLog \in Nat

VARIABLES
    disk,         \* disk[b]: contents of home block b
    dlog,         \* dlog[i]: contents of the i-th log block on disk
    hn, hblock,   \* the header block on disk: n and block[]
    cache,        \* cache[b]: b->data, or Absent
    pins,         \* pins[b]: references held by the log (bpin)
    n, block,     \* log.lh.n and log.lh.block[]
    outstanding,  \* log.outstanding
    committing,   \* log.committing
    pc,           \* where each process is in its file-system call
    tail,         \* tail[p]: the loop counter of write_log/install_trans
    used,         \* used[p]: blocks p's call has appended to the log
    panicked      \* a panic() of this file was reached

diskVars == <<disk, dlog, hn, hblock>>
memVars  == <<cache, pins, n, block, outstanding, committing>>
vars     == <<diskVars, memVars, pc, tail, used, panicked>>

Index == 1..LOGSIZE

CommitPC  == {"write_log", "write_head", "install_trans", "clear", "committed"}
RecoverPC == {"read_head", "recover_trans", "recover_clear"}
PC == {"off", "idle", "begin_op", "asleep", "inop"} \cup CommitPC \cup RecoverPC

Flags == committing \in BOOLEAN /\ panicked \in BOOLEAN

TypeOK ==
    /\ disk \in [Blocks -> Vals]
    /\ dlog \in [Index -> Vals]
    /\ hn \in 0..LOGSIZE
    /\ hblock \in [Index -> Blocks \cup {NoBlock}]
    /\ cache \in [Blocks -> Vals \cup {Absent}]
    /\ pins \in [Blocks -> Nat]
    /\ n \in 0..LOGSIZE
    /\ block \in [Index -> Blocks \cup {NoBlock}]
    /\ outstanding \in Nat
    /\ pc \in [Procs -> PC]
    /\ tail \in [Procs -> 1..(LOGSIZE + 1)]
    /\ used \in [Procs -> 0..OPBLOCKS]
    /\ Flags

(***************************************************************************)
(* Buffer cache, as log.c and fs.c see it.                                 *)
(***************************************************************************)

\* bread(b)->data: the cached copy, read from the disk if there is none.
Data(b) == IF cache[b] = Absent THEN disk[b] ELSE cache[b]

\* A call outside the log (readi, stati...) brings b into the cache.
Bread(b) ==
    /\ \E p \in Procs : pc[p] \in {"idle", "inop"}
    /\ cache[b] = Absent
    /\ cache' = [cache EXCEPT ![b] = disk[b]]
    /\ UNCHANGED <<diskVars, pins, n, block, outstanding, committing,
                   pc, tail, used, panicked>>

\* bget() recycles an unused buffer (refcnt == 0) for some other block.
Recycle(b) ==
    /\ cache[b] # Absent
    /\ pins[b] = 0
    /\ cache' = [cache EXCEPT ![b] = Absent]
    /\ UNCHANGED <<diskVars, pins, n, block, outstanding, committing,
                   pc, tail, used, panicked>>
-----------------------------------------------------------------------------
(***************************************************************************)
(* begin_op and end_op.                                                    *)
(***************************************************************************)

\* A process enters begin_op() and waits for log.lock.
CallBeginOp(p) ==
    /\ pc[p] = "idle"
    /\ pc' = [pc EXCEPT ![p] = "begin_op"]
    /\ UNCHANGED <<diskVars, memVars, tail, used, panicked>>

\* Room for one more call, should every running call fill its reservation.
HasRoom == n + (outstanding + 1) * MAXOPBLOCKS <= LOGSIZE

\* Mutant: a call may start while a commit is running.
begin_op_IgnoresCommit(p) ==
    /\ pc[p] = "begin_op"
    /\ IF ~HasRoom
       THEN /\ pc' = [pc EXCEPT ![p] = "asleep"]
            /\ UNCHANGED <<outstanding, used>>
       ELSE /\ pc' = [pc EXCEPT ![p] = "inop"]
            /\ outstanding' = outstanding + 1
            /\ used' = [used EXCEPT ![p] = 0]
    /\ UNCHANGED <<diskVars, cache, pins, n, block, committing, tail, panicked>>

\* One pass of begin_op()'s loop under log.lock: enter, or sleep on &log.
begin_op(p) ==
    /\ pc[p] = "begin_op"
    /\ IF committing \/ ~HasRoom
       THEN /\ pc' = [pc EXCEPT ![p] = "asleep"]
            /\ UNCHANGED <<outstanding, used>>
       ELSE /\ pc' = [pc EXCEPT ![p] = "inop"]
            /\ outstanding' = outstanding + 1
            /\ used' = [used EXCEPT ![p] = 0]
    /\ UNCHANGED <<diskVars, cache, pins, n, block, committing, tail, panicked>>

\* pc after wakeup(&log) by p, who moves on to pc value next.
WakeupLog(p, next) ==
    [q \in Procs |-> CASE q = p             -> next
                       [] pc[q] = "asleep"  -> "begin_op"
                       [] OTHER             -> pc[q]]

\* end_op() by a call that is not the last one running.
end_op(p) ==
    /\ pc[p] = "inop"
    /\ outstanding > 1
    /\ outstanding' = outstanding - 1
    /\ panicked' = (panicked \/ committing)
    /\ pc' = WakeupLog(p, "idle")
    /\ UNCHANGED <<diskVars, cache, pins, n, block, committing, tail, used>>

\* Mutant: commit() without its write_log().
end_op_commit_NoWriteLog(p) ==
    /\ pc[p] = "inop"
    /\ outstanding = 1
    /\ outstanding' = 0
    /\ panicked' = (panicked \/ committing)
    /\ committing' = TRUE
    /\ tail' = [tail EXCEPT ![p] = 1]
    /\ pc' = [pc EXCEPT ![p] = IF n > 0 THEN "write_head" ELSE "committed"]
    /\ UNCHANGED <<diskVars, cache, pins, n, block, used>>

\* end_op() by the last running call: it becomes the committer.
end_op_commit(p) ==
    /\ pc[p] = "inop"
    /\ outstanding = 1
    /\ outstanding' = 0
    /\ panicked' = (panicked \/ committing)
    /\ committing' = TRUE
    /\ tail' = [tail EXCEPT ![p] = 1]
    /\ pc' = [pc EXCEPT ![p] = IF n > 0 THEN "write_log" ELSE "committed"]
    /\ UNCHANGED <<diskVars, cache, pins, n, block, used>>

\* Mutant: no wakeup(&log) after a commit.
end_commit_NoWakeup(p) ==
    /\ pc[p] = "committed"
    /\ committing' = FALSE
    /\ pc' = [pc EXCEPT ![p] = "idle"]
    /\ UNCHANGED <<diskVars, cache, pins, n, block, outstanding, tail, used, panicked>>

\* The end of end_op() after commit().
end_commit(p) ==
    /\ pc[p] = "committed"
    /\ committing' = FALSE
    /\ pc' = WakeupLog(p, "idle")
    /\ UNCHANGED <<diskVars, cache, pins, n, block, outstanding, tail, used, panicked>>
-----------------------------------------------------------------------------
(***************************************************************************)
(* log_write.                                                              *)
(***************************************************************************)

\* log.lh.n >= LOGSIZE || log.lh.n >= log.size - 1, or no transaction.
LogWritePanics == n >= LOGSIZE \/ n >= NLog - 1 \/ outstanding < 1

Logged(b) == \E i \in 1..n : block[i] = b

\* A call modifies block b and logs it: a block already in the transaction
\* is absorbed, another one is appended and pinned in the cache.  The
\* test for a full log comes first, whether or not b will be absorbed.
log_write(p, b, v) ==
    /\ pc[p] = "inop"
    /\ used[p] < OPBLOCKS \/ Logged(b)
    /\ cache' = [cache EXCEPT ![b] = v]
    /\ IF LogWritePanics
       THEN /\ panicked' = TRUE
            /\ UNCHANGED <<pins, n, block, used>>
       ELSE IF Logged(b)
       THEN UNCHANGED <<pins, n, block, used, panicked>>
       ELSE /\ n' = n + 1
            /\ block' = [block EXCEPT ![n + 1] = b]
            /\ pins' = [pins EXCEPT ![b] = @ + 1]
            /\ used' = [used EXCEPT ![p] = @ + 1]
            /\ UNCHANGED panicked
    /\ UNCHANGED <<diskVars, outstanding, committing, pc, tail>>
-----------------------------------------------------------------------------
(***************************************************************************)
(* commit: one disk write per step.                                        *)
(***************************************************************************)

Goto(p, next) == pc' = [pc EXCEPT ![p] = next]

\* write_log(): one block from the cache to its place in the log.
write_log(p) ==
    /\ pc[p] = "write_log"
    /\ tail[p] <= n
    /\ LET b == block[tail[p]] IN
         /\ dlog' = [dlog EXCEPT ![tail[p]] = Data(b)]
         /\ cache' = [cache EXCEPT ![b] = Data(b)]
    /\ tail' = [tail EXCEPT ![p] = @ + 1]
    /\ Goto(p, IF tail[p] = n THEN "write_head" ELSE "write_log")
    /\ UNCHANGED <<disk, hn, hblock, pins, n, block, outstanding, committing,
                   used, panicked>>

\* write_head(): the real commit.  Entries past n keep their old contents.
write_head(p) ==
    /\ pc[p] = "write_head"
    /\ hn' = n
    /\ hblock' = [i \in Index |-> IF i <= n THEN block[i] ELSE hblock[i]]
    /\ tail' = [tail EXCEPT ![p] = 1]
    /\ Goto(p, "install_trans")
    /\ UNCHANGED <<disk, dlog, memVars, used, panicked>>

\* The body of install_trans(): log block i to its home location.
Install(i) ==
    LET b == block[i] IN
      /\ disk' = [disk EXCEPT ![b] = dlog[i]]
      /\ cache' = [cache EXCEPT ![b] = dlog[i]]

\* Mutant: the loop of install_trans() stops one block short.
install_trans_Short(p) ==
    /\ pc[p] = "install_trans"
    /\ tail[p] <= n
    /\ Install(tail[p])
    /\ pins' = [pins EXCEPT ![block[tail[p]]] = @ - 1]
    /\ tail' = [tail EXCEPT ![p] = @ + 1]
    /\ Goto(p, IF tail[p] + 1 >= n THEN "clear" ELSE "install_trans")
    /\ UNCHANGED <<dlog, hn, hblock, n, block, outstanding, committing,
                   used, panicked>>

\* install_trans(0): install a block and unpin it.
install_trans(p) ==
    /\ pc[p] = "install_trans"
    /\ tail[p] <= n
    /\ Install(tail[p])
    /\ pins' = [pins EXCEPT ![block[tail[p]]] = @ - 1]
    /\ tail' = [tail EXCEPT ![p] = @ + 1]
    /\ Goto(p, IF tail[p] = n THEN "clear" ELSE "install_trans")
    /\ UNCHANGED <<dlog, hn, hblock, n, block, outstanding, committing,
                   used, panicked>>

\* log.lh.n = 0; write_head(): erase the transaction from the log.
EraseLog ==
    /\ n' = 0
    /\ hn' = 0

clear_head(p) ==
    /\ pc[p] = "clear"
    /\ EraseLog
    /\ Goto(p, "committed")
    /\ UNCHANGED <<disk, dlog, hblock, cache, pins, block, outstanding,
                   committing, tail, used, panicked>>
-----------------------------------------------------------------------------
(***************************************************************************)
(* Crash and recovery.                                                     *)
(***************************************************************************)

\* Power failure: memory is lost; InitProc boots and will run initlog().
Crash ==
    /\ cache' = [b \in Blocks |-> Absent]
    /\ pins' = [b \in Blocks |-> 0]
    /\ n' = 0
    /\ block' = [i \in Index |-> NoBlock]
    /\ outstanding' = 0
    /\ committing' = FALSE
    /\ pc' = [p \in Procs |-> IF p = InitProc THEN "read_head" ELSE "off"]
    /\ tail' = [p \in Procs |-> 1]
    /\ used' = [p \in Procs |-> 0]
    /\ panicked' = FALSE
    /\ UNCHANGED diskVars

read_head(p) ==
    /\ pc[p] = "read_head"
    /\ n' = hn
    /\ block' = [i \in Index |-> IF i <= hn THEN hblock[i] ELSE block[i]]
    /\ tail' = [tail EXCEPT ![p] = 1]
    /\ Goto(p, IF hn = 0 THEN "recover_clear" ELSE "recover_trans")
    /\ UNCHANGED <<diskVars, cache, pins, outstanding, committing, used, panicked>>

\* install_trans(1)
recover_trans(p) ==
    /\ pc[p] = "recover_trans"
    /\ tail[p] <= n
    /\ Install(tail[p])
    /\ tail' = [tail EXCEPT ![p] = @ + 1]
    /\ Goto(p, IF tail[p] = n THEN "recover_clear" ELSE "recover_trans")
    /\ UNCHANGED <<dlog, hn, hblock, pins, n, block, outstanding, committing,
                   used, panicked>>

\* The log is cleared; from here on the other processes can be forked.
recover_clear(p) ==
    /\ pc[p] = "recover_clear"
    /\ EraseLog
    /\ pc' = [q \in Procs |-> "idle"]
    /\ UNCHANGED <<disk, dlog, hblock, cache, pins, block, outstanding,
                   committing, tail, used, panicked>>
-----------------------------------------------------------------------------
\* The first boot, on a disk made by mkfs: an empty, zero-filled log.
Init ==
    /\ disk \in [Blocks -> Vals]
    /\ \E zero \in Vals : dlog = [i \in Index |-> zero]
    /\ hn = 0
    /\ hblock = [i \in Index |-> NoBlock]
    /\ cache = [b \in Blocks |-> Absent]
    /\ pins = [b \in Blocks |-> 0]
    /\ n = 0
    /\ block = [i \in Index |-> NoBlock]
    /\ outstanding = 0
    /\ committing = FALSE
    /\ pc = [p \in Procs |-> IF p = InitProc THEN "read_head" ELSE "off"]
    /\ tail = [p \in Procs |-> 1]
    /\ used = [p \in Procs |-> 0]
    /\ panicked = FALSE

Step(p) ==
    \/ begin_op(p)
    \/ end_op(p)
    \/ end_op_commit(p)
    \/ write_log(p)
    \/ write_head(p)
    \/ install_trans(p)
    \/ clear_head(p)
    \/ end_commit(p)
    \/ read_head(p)
    \/ recover_trans(p)
    \/ recover_clear(p)

Next ==
    \/ /\ ~panicked
       /\ \/ \E p \in Procs : CallBeginOp(p) \/ Step(p)
          \/ \E p \in Procs, b \in Blocks, v \in Vals : log_write(p, b, v)
          \/ \E b \in Blocks : Bread(b) \/ Recycle(b)
    \/ Crash

Spec == Init /\ [][Next]_vars

\* Every process that can take its next step in the kernel eventually does:
\* spinlock sections end, the disk answers, and a call reaches its end_op().
Fairness == \A p \in Procs : WF_vars(~panicked /\ Step(p))

FairSpec == Spec /\ Fairness
-----------------------------------------------------------------------------
(***************************************************************************)
(* Properties.                                                             *)
(***************************************************************************)

\* log.c's three panics are unreachable: begin_op()'s reservation leaves
\* room for every log_write() ("too big a transaction"), and no call ends
\* while a commit is running ("log.committing").  It needs OpsFit below.
NoPanic == ~panicked

\* A running call never uses its whole reservation, and what the calls do
\* use fits the log area.  In xv6 a call appends at most 7 blocks of the 10
\* reserved (filewrite), and 30 - 3 < sb.nlog - 1 for every sb.nlog >= 29.
OpsFit ==
    /\ OPBLOCKS < MAXOPBLOCKS
    /\ LOGSIZE - (MAXOPBLOCKS - OPBLOCKS) < NLog - 1

\* A commit runs alone: while one is in progress no call is inside its
\* transaction and no second process commits (the comment at log.c:12-16).
CommitExclusive ==
    \A p, q \in Procs :
        /\ pc[p] \in CommitPC
        /\ pc[q] \in CommitPC \cup {"inop"}
        => p = q

\* The log entries that commit() has not copied home yet.
Uninstalled ==
    {i \in 1..n : \A p \in Procs :
        /\ pc[p] \in RecoverPC => FALSE
        /\ pc[p] = "install_trans" => tail[p] <= i
        /\ pc[p] = "clear" => FALSE}

\* The log holds exactly one reference to the buffer of every block whose
\* update is not yet home, and none to any other: pinned blocks stay cached
\* and every bpin() is undone by one bunpin().
PinBalance ==
    \A b \in Blocks :
        IF \E i \in Uninstalled : block[i] = b
        THEN pins[b] = 1 /\ cache[b] # Absent
        ELSE pins[b] = 0

\* What recovery would leave in b if the machine stopped now.
Recovered(b) ==
    IF \E i \in 1..hn : hblock[i] = b
    THEN dlog[CHOOSE i \in 1..hn : hblock[i] = b]
    ELSE disk[b]

Booting == \E p \in Procs : pc[p] \in RecoverPC

\* Once the last call of a group has returned from end_op(), everything the
\* group wrote would survive a crash.
DurableWhenIdle ==
    ~Booting /\ outstanding = 0 /\ ~committing
        => \A b \in Blocks : Recovered(b) = Data(b)

(***************************************************************************)
(* The inductive invariant behind the theorems of LogProofs.               *)
(***************************************************************************)

InOp == {p \in Procs : pc[p] = "inop"}
Committing(p) == pc[p] \in CommitPC

\* Who may be where: recovery runs alone, and so does a commit.
Control ==
    /\ outstanding = Cardinality(InOp)
    /\ Booting => /\ \A p \in Procs : pc[p] \in RecoverPC \cup {"off"}
                  /\ \A p, q \in Procs :
                        pc[p] \in RecoverPC /\ pc[q] \in RecoverPC => p = q
                  /\ \A b \in Blocks : pins[b] = 0
    /\ ~Booting => \A p \in Procs : pc[p] # "off"
    /\ committing <=> \E p \in Procs : Committing(p)
    /\ committing => outstanding = 0
    /\ \A p, q \in Procs : Committing(p) /\ Committing(q) => p = q

\* No block is twice in the log.
Injective(m, f) ==
    /\ \A i \in 1..m : f[i] \in Blocks
    /\ \A i, j \in 1..m : f[i] = f[j] => i = j

SameHeader == hn = n /\ \A i \in 1..n : hblock[i] = block[i]

\* How the log on disk, the log in memory, the home locations and the cache
\* relate at each point of a commit and of a recovery.
Contents(p) ==
    /\ pc[p] = "write_log" =>
         tail[p] <= n /\ \A i \in 1..(tail[p] - 1) : dlog[i] = cache[block[i]]
    /\ pc[p] = "write_head" =>
         n > 0 /\ \A i \in 1..n : dlog[i] = cache[block[i]]
    /\ pc[p] = "install_trans" =>
         /\ SameHeader
         /\ tail[p] <= n
         /\ \A i \in 1..(tail[p] - 1) : disk[block[i]] = dlog[i]
         /\ \A i \in tail[p]..n : cache[block[i]] = dlog[i]
    /\ pc[p] \in {"clear", "recover_clear"} =>
         SameHeader /\ \A i \in 1..n : disk[block[i]] = dlog[i]
    /\ pc[p] = "committed" => n = 0
    /\ pc[p] = "read_head" => \A b \in Blocks : cache[b] = Absent
    /\ pc[p] = "recover_trans" =>
         /\ SameHeader
         /\ tail[p] <= n
         /\ \A i \in 1..(tail[p] - 1) : disk[block[i]] = dlog[i]

\* The header on disk is empty but between the commit and the clearing.
HeaderEmpty ==
    hn # 0 => \E p \in Procs : pc[p] \in {"install_trans", "clear"} \cup RecoverPC

\* The log in memory is empty when nothing is going on; no panic is pending.
IdleEmpty == n > 0 \/ panicked => Booting \/ outstanding > 0 \/ committing

\* Pinned blocks are cached; every other cached block equals its home copy,
\* but for the one whose log_write() panicked.
Coherent ==
    \A b \in Blocks :
        IF \E i \in Uninstalled : block[i] = b
        THEN pins[b] = 1 /\ cache[b] # Absent
        ELSE pins[b] = 0 /\ (cache[b] \in {Absent, disk[b]} \/ panicked)

\* The invariant of the log: true of every reachable state and inductive.
LogInv ==
    /\ TypeOK
    /\ Control
    /\ Injective(n, block)
    /\ Injective(hn, hblock)
    /\ \A p \in Procs : Contents(p)
    /\ HeaderEmpty
    /\ IdleEmpty
    /\ Coherent

\* What is left of the reservations of the running calls, as a set of tokens.
Unused == {t \in Procs \X (1..MAXOPBLOCKS) : pc[t[1]] = "inop" /\ used[t[1]] < t[2]}

\* begin_op()'s reservation: the log can take all that is still unused.
Reserved == n + Cardinality(Unused) <= LOGSIZE

\* The refinement mapping: the disk as recovery would leave it, and the disk
\* as the running calls see it.
Stable == [b \in Blocks |-> Recovered(b)]
Mem    == [b \in Blocks |-> IF Booting THEN Recovered(b) ELSE Data(b)]

AD == INSTANCE AtomicDisk WITH stable <- Stable, mem <- Mem, live <- InOp

\* The log implements a disk with atomic multi-block updates: a crash, at
\* any step of a commit or of a recovery, keeps all writes of a call or none.
CrashAtomic == AD!Spec

\* No call sleeps on &log for ever: the end_op() or the commit that makes
\* room wakes it (the wakeup(&log) calls at log.c:162 and log.c:172).
SleepersWake ==
    \A p \in Procs : pc[p] = "asleep" ~> pc[p] # "asleep"
=============================================================================
