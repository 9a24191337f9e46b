------------------------------- MODULE Bcache -------------------------------
(***************************************************************************)
(* kernel/bio.c and kernel/sleeplock.c: the cache of disk blocks.          *)
(*                                                                         *)
(* bcache.lock makes the body of bget(), the tail of brelse(), bpin() and  *)
(* bunpin() atomic; a buffer's sleep-lock is taken and released outside    *)
(* of it.  A user is one bread()..brelse() bracket: a process that holds   *)
(* two buffers at a time is two users.                                     *)
(***************************************************************************)
EXTENDS Integers, Sequences, FiniteSets

CONSTANTS
    Users,      \* bread()..brelse() brackets that may run concurrently
    Buf,        \* bcache.buf[]
    Blocks,     \* block numbers of ROOTDEV
    Vals,       \* contents of a block
    NoBlock,    \* dev 0, block 0: what binit() leaves in a buffer
    None,       \* no holder, no buffer
    MAXPINS     \* the most buffers the log pins at a time

ASSUME BufAssumption == IsFiniteSet(Buf) /\ IsFiniteSet(Users)
ASSUME NoneAssumption == NoBlock \notin Blocks /\ None \notin Users /\ None \notin Buf
ASSUME PinsAssumption == MAXPINS \in Nat

VARIABLES
    blockno,    \* blockno[b] (and dev)
    valid,      \* valid[b]: has data been read from disk?
    data,       \* data[b]
    refcnt,     \* refcnt[b]
    lru,        \* the list of buffers, most recently used first
    holder,     \* holder[b]: who has locked b->lock, or None
    pins,       \* pins[b]: the log's bpin()s not undone yet
    disk,       \* disk[k]: the block on disk
    pc,         \* where each user is between bread() and the end of brelse()
    cur, want,  \* the buffer bget() returned, and the block asked for
    panicked    \* a panic() of this file was reached

bufVars == <<blockno, valid, data, refcnt, lru>>
vars == <<bufVars, holder, pins, disk, pc, cur, want, panicked>>

TypeOK ==
    /\ blockno \in [Buf -> Blocks \cup {NoBlock}]
    /\ valid \in [Buf -> BOOLEAN]
    /\ data \in [Buf -> Vals]
    /\ refcnt \in [Buf -> Nat]
    /\ lru \in Seq(Buf)
    /\ holder \in [Buf -> Users \cup {None}]
    /\ pins \in [Buf -> Nat]
    /\ disk \in [Blocks -> Vals]
    /\ pc \in [Users -> {"idle", "acquire", "asleep", "read", "holding", "released"}]
    /\ cur \in [Users -> Buf \cup {None}]
    /\ want \in [Users -> Blocks \cup {NoBlock}]
    /\ panicked \in BOOLEAN

Goto(u, next) == pc' = [pc EXCEPT ![u] = next]

\* The first position of the list, going forward, whose buffer satisfies P.
First(i, P(_)) ==
    /\ i \in 1..Len(lru)
    /\ P(lru[i])
    /\ \A j \in 1..(i - 1) : ~P(lru[j])

\* The first one going backward.
Last(i, P(_)) ==
    /\ i \in 1..Len(lru)
    /\ P(lru[i])
    /\ \A j \in (i + 1)..Len(lru) : ~P(lru[j])

Unused(b) == refcnt[b] = 0
-----------------------------------------------------------------------------
(***************************************************************************)
(* bget and bread.                                                         *)
(***************************************************************************)

\* bget(): the block is cached; take a reference.
bget_hit(u, k) ==
    /\ pc[u] = "idle"
    /\ \E i \in 1..Len(lru) :
         /\ First(i, LAMBDA b : blockno[b] = k)
         /\ refcnt' = [refcnt EXCEPT ![lru[i]] = @ + 1]
         /\ cur' = [cur EXCEPT ![u] = lru[i]]
    /\ want' = [want EXCEPT ![u] = k]
    /\ Goto(u, "acquire")
    /\ UNCHANGED <<blockno, valid, data, lru, holder, pins, disk, panicked>>

\* Mutant: bcache.lock is given up between the search and the recycling.
bget_recycle_Unlocked(u, k) ==
    /\ pc[u] = "idle"
    /\ \E i \in 1..Len(lru) :
         /\ Last(i, Unused)
         /\ blockno' = [blockno EXCEPT ![lru[i]] = k]
         /\ valid' = [valid EXCEPT ![lru[i]] = FALSE]
         /\ refcnt' = [refcnt EXCEPT ![lru[i]] = 1]
         /\ cur' = [cur EXCEPT ![u] = lru[i]]
    /\ want' = [want EXCEPT ![u] = k]
    /\ Goto(u, "acquire")
    /\ UNCHANGED <<data, lru, holder, pins, disk, panicked>>

\* Mutant: b->valid is not reset.
bget_recycle_KeepsValid(u, k) ==
    /\ pc[u] = "idle"
    /\ \A i \in 1..Len(lru) : blockno[lru[i]] # k
    /\ \E i \in 1..Len(lru) :
         /\ Last(i, Unused)
         /\ blockno' = [blockno EXCEPT ![lru[i]] = k]
         /\ refcnt' = [refcnt EXCEPT ![lru[i]] = 1]
         /\ cur' = [cur EXCEPT ![u] = lru[i]]
    /\ want' = [want EXCEPT ![u] = k]
    /\ Goto(u, "acquire")
    /\ UNCHANGED <<valid, data, lru, holder, pins, disk, panicked>>

\* bget(): not cached; recycle the least recently used unused buffer.
bget_recycle(u, k) ==
    /\ pc[u] = "idle"
    /\ \A i \in 1..Len(lru) : blockno[lru[i]] # k
    /\ \E i \in 1..Len(lru) :
         /\ Last(i, Unused)
         /\ blockno' = [blockno EXCEPT ![lru[i]] = k]
         /\ valid' = [valid EXCEPT ![lru[i]] = FALSE]
         /\ refcnt' = [refcnt EXCEPT ![lru[i]] = 1]
         /\ cur' = [cur EXCEPT ![u] = lru[i]]
    /\ want' = [want EXCEPT ![u] = k]
    /\ Goto(u, "acquire")
    /\ UNCHANGED <<data, lru, holder, pins, disk, panicked>>

\* bget(): panic("bget: no buffers").
bget_panic(u, k) ==
    /\ pc[u] = "idle"
    /\ \A i \in 1..Len(lru) : blockno[lru[i]] # k /\ ~Unused(lru[i])
    /\ panicked' = TRUE
    /\ UNCHANGED <<bufVars, holder, pins, disk, pc, cur, want>>

\* One pass of acquiresleep()'s loop, and bread()'s test of b->valid, which
\* only the holder of b->lock sets.
acquiresleep(u) ==
    /\ pc[u] = "acquire"
    /\ LET b == cur[u] IN
         IF holder[b] # None
         THEN /\ Goto(u, "asleep")
              /\ UNCHANGED holder
         ELSE /\ holder' = [holder EXCEPT ![b] = u]
              /\ Goto(u, IF valid[b] THEN "holding" ELSE "read")
    /\ UNCHANGED <<bufVars, pins, disk, cur, want, panicked>>

\* bread(): virtio_disk_rw(b, 0) has finished.
disk_read(u) ==
    /\ pc[u] = "read"
    /\ LET b == cur[u] IN
         /\ data' = [data EXCEPT ![b] = disk[blockno[b]]]
         /\ valid' = [valid EXCEPT ![b] = TRUE]
    /\ Goto(u, "holding")
    /\ UNCHANGED <<blockno, refcnt, lru, holder, pins, disk, cur, want, panicked>>
-----------------------------------------------------------------------------
(***************************************************************************)
(* What a user does with a locked buffer.                                  *)
(***************************************************************************)

\* The user changes b->data.
modify(u, v) ==
    /\ pc[u] = "holding"
    /\ data' = [data EXCEPT ![cur[u]] = v]
    /\ UNCHANGED <<blockno, valid, refcnt, lru, holder, pins, disk, pc, cur,
                   want, panicked>>

\* bwrite(): panics unless the caller holds the sleep-lock.
bwrite(u) ==
    /\ pc[u] = "holding"
    /\ LET b == cur[u] IN
         /\ disk' = [disk EXCEPT ![blockno[b]] = data[b]]
         /\ panicked' = (panicked \/ holder[b] # u)
    /\ UNCHANGED <<bufVars, holder, pins, pc, cur, want>>

\* The blocks of the current transaction.
Pinned == {b \in Buf : pins[b] > 0}

\* log_write() pins a buffer that is not yet part of the transaction.
bpin(u) ==
    /\ pc[u] = "holding"
    /\ pins[cur[u]] = 0 /\ Cardinality(Pinned) < MAXPINS
    /\ refcnt' = [refcnt EXCEPT ![cur[u]] = @ + 1]
    /\ pins' = [pins EXCEPT ![cur[u]] = @ + 1]
    /\ UNCHANGED <<blockno, valid, data, lru, holder, disk, pc, cur, want, panicked>>

\* install_trans() unpins it after bwrite().
bunpin(u) ==
    /\ pc[u] = "holding"
    /\ LET b == cur[u] IN
         /\ pins[b] > 0
         /\ data[b] = disk[blockno[b]]
         /\ refcnt' = [refcnt EXCEPT ![b] = @ - 1]
         /\ pins' = [pins EXCEPT ![b] = @ - 1]
    /\ UNCHANGED <<blockno, valid, data, lru, holder, disk, pc, cur, want, panicked>>
-----------------------------------------------------------------------------
(***************************************************************************)
(* brelse: first the sleep-lock, then, under bcache.lock, the reference.   *)
(***************************************************************************)

\* The user has written or pinned what it changed.
Saved(b) == pins[b] > 0 \/ data[b] = disk[blockno[b]]

\* Mutant: no wakeup(lk).
releasesleep_NoWakeup(u) ==
    /\ pc[u] = "holding"
    /\ LET b == cur[u] IN
         /\ Saved(b)
         /\ panicked' = (panicked \/ holder[b] # u)
         /\ holder' = [holder EXCEPT ![b] = None]
    /\ Goto(u, "released")
    /\ UNCHANGED <<bufVars, pins, disk, cur, want>>

\* releasesleep(): unlock and wake the processes asleep on b->lock.
releasesleep(u) ==
    /\ pc[u] = "holding"
    /\ LET b == cur[u] IN
         /\ Saved(b)
         /\ panicked' = (panicked \/ holder[b] # u)
         /\ holder' = [holder EXCEPT ![b] = None]
         /\ pc' = [w \in Users |-> IF w = u THEN "released"
                                   ELSE IF pc[w] = "asleep" /\ cur[w] = b
                                        THEN "acquire" ELSE pc[w]]
    /\ UNCHANGED <<bufVars, pins, disk, cur, want>>

\* The list with b unlinked and linked in again at its head.
MoveToFront(b) ==
    LET at == CHOOSE i \in 1..Len(lru) : lru[i] = b
    IN  [i \in 1..Len(lru) |->
           IF i = 1 THEN b ELSE IF i <= at THEN lru[i - 1] ELSE lru[i]]

brelse(u) ==
    /\ pc[u] = "released"
    /\ LET b == cur[u] IN
         /\ refcnt' = [refcnt EXCEPT ![b] = @ - 1]
         /\ lru' = IF refcnt[b] = 1 THEN MoveToFront(b) ELSE lru
    /\ cur' = [cur EXCEPT ![u] = None]
    /\ want' = [want EXCEPT ![u] = NoBlock]
    /\ Goto(u, "idle")
    /\ UNCHANGED <<blockno, valid, data, holder, pins, disk, panicked>>
-----------------------------------------------------------------------------
\* binit(), on a disk with some contents.
Init ==
    /\ blockno = [b \in Buf |-> NoBlock]
    /\ valid = [b \in Buf |-> FALSE]
    /\ \E zero \in Vals : data = [b \in Buf |-> zero]
    /\ refcnt = [b \in Buf |-> 0]
    /\ lru \in {s \in [1..Cardinality(Buf) -> Buf] :
                 \A b \in Buf : \E i \in 1..Cardinality(Buf) : s[i] = b}
    /\ holder = [b \in Buf |-> None]
    /\ pins = [b \in Buf |-> 0]
    /\ disk \in [Blocks -> Vals]
    /\ pc = [u \in Users |-> "idle"]
    /\ cur = [u \in Users |-> None]
    /\ want = [u \in Users |-> NoBlock]
    /\ panicked = FALSE

\* The steps a user takes once inside bread()..brelse().
Step(u) == acquiresleep(u) \/ disk_read(u) \/ releasesleep(u) \/ brelse(u)

\* panic() prints and loops for ever.
Halted == panicked /\ UNCHANGED vars

Next ==
    \/ Halted
    \/ /\ ~panicked
       /\ \E u \in Users :
            \/ Step(u) \/ bwrite(u) \/ bpin(u) \/ bunpin(u)
            \/ \E k \in Blocks : bget_hit(u, k) \/ bget_recycle(u, k) \/ bget_panic(u, k)
            \/ \E v \in Vals : modify(u, v)

Spec == Init /\ [][Next]_vars

\* A user with a locked buffer saves what it changed and calls brelse(); the
\* disk answers; a process in acquiresleep() runs.
Fairness ==
    \A u \in Users :
        /\ WF_vars(~panicked /\ (acquiresleep(u) \/ disk_read(u) \/ brelse(u)))
        /\ SF_vars(~panicked /\ releasesleep(u))
        /\ WF_vars(~panicked /\ bwrite(u) /\ ~Saved(cur[u]))

FairSpec == Spec /\ Fairness
-----------------------------------------------------------------------------
(***************************************************************************)
(* Properties.                                                             *)
(***************************************************************************)

\* bcache.lock makes bget()'s search and its recycling one step, so a block
\* is never cached twice: two copies would diverge.
OneCopy ==
    \A b, c \in Buf : blockno[b] = blockno[c] /\ blockno[b] # NoBlock => b = c

\* The users that hold a reference to b.
Refs(b) == {u \in Users : cur[u] = b}

\* refcnt counts the users inside bread()..brelse() and the log's pins, no
\* more and no less, although brelse() gives up the lock before the count.
RefCount == \A b \in Buf : refcnt[b] = Cardinality(Refs(b)) + pins[b]

\* From bget() to the end of brelse() the buffer a user works on is the one
\* for the block it asked for: also while it sleeps on b->lock, and while
\* others release the same buffer.  And what is valid is not read again, which
\* would undo what the log has only pinned so far.
Identity ==
    \A u \in Users :
        /\ IF pc[u] = "idle" THEN cur[u] = None
           ELSE cur[u] \in Buf /\ want[u] \in Blocks /\ blockno[cur[u]] = want[u]
        /\ pc[u] \in {"read", "holding"} =>
             holder[cur[u]] = u /\ (valid[cur[u]] <=> pc[u] = "holding")

\* Every buffer stays on the list, once, however brelse() moves them: bget()
\* would not find one that fell out, and would panic too early.
Listed ==
    /\ \A b \in Buf : \E i \in 1..Len(lru) : lru[i] = b
    /\ \A i, j \in 1..Len(lru) : lru[i] = lru[j] => i = j

\* Only a pinned buffer, or one its holder is working on, differs from the
\* disk: any other may be recycled without losing anything.
Kept(b) ==
    /\ blockno[b] \in Blocks
    /\ Saved(b) \/ \E u \in Users : pc[u] = "holding" /\ cur[u] = b
CleanOrKept == \A b \in Buf : valid[b] => Kept(b)

\* The only panic of this file is "bget: no buffers", and only when every
\* buffer really is pinned or in use: references are not leaked, and nobody
\* releases or writes a buffer it does not hold.
PanicOnlyWhenFull ==
    panicked => \A b \in Buf : pins[b] > 0 \/ Refs(b) # {}

\* The bookkeeping of the cache: types, one buffer per block, exact reference
\* counts, a user's buffer stays its own, no buffer falls off the list, none
\* is dirty and forgotten, and bget() only panics when the cache is full.
CacheInv ==
    /\ TypeOK /\ OneCopy /\ RefCount /\ Identity /\ Listed /\ CleanOrKept
    /\ PanicOnlyWhenFull

\* Contents of k as the next reader will see them.
Current(k) ==
    IF \E b \in Buf : blockno[b] = k /\ valid[b]
    THEN data[CHOOSE b \in Buf : blockno[b] = k /\ valid[b]]
    ELSE disk[k]

Owner(k) ==
    IF \E u \in Users : pc[u] = "holding" /\ want[u] = k
    THEN CHOOSE u \in Users : pc[u] = "holding" /\ want[u] = k
    ELSE None

BS == INSTANCE BlockStore WITH
        store <- [k \in Blocks |-> Current(k)],
        owner <- [k \in Blocks |-> Owner(k)]

\* The cache behaves as one copy of each block with one holder at a time:
\* caching, recycling and pinning never lose or resurrect contents.
OneCopyStore == BS!Spec

\* Nobody stays asleep on a buffer's lock: every release wakes all sleepers
\* (unless the machine stops for want of buffers).
WaitersWake == \A u \in Users : pc[u] = "asleep" ~> pc[u] # "asleep" \/ panicked
=============================================================================
