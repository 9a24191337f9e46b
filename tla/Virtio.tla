------------------------------- MODULE Virtio -------------------------------
(***************************************************************************)
(* kernel/virtio_disk.c: the driver of the disk, its interrupt handler and *)
(* the device, which share a table of descriptors and two rings.           *)
(*                                                                         *)
(* disk.vdisk_lock is explicit: the device runs all the time, also between *)
(* two steps of the driver, and it finishes requests in any order.  Each   *)
(* process uses a buffer of its own for a block of its own: bget() and the *)
(* buffer's sleep-lock (module Bcache) make it so.                         *)
(***************************************************************************)
EXTENDS Integers, FiniteSets

CONSTANTS
    Procs,      \* processes in bread() and bwrite(), each with its buffer
    NUM,        \* descriptors
    RING,       \* entries of a ring (NUM in virtio.h)
    UMOD,       \* 2^w: the ring indices are uint16 and wrap
    Intr,       \* the interrupt handler, as holder of the lock
    None        \* nobody, no buffer, no address

\* The driver never has more than NUM \div 3 requests under way, so the rings
\* could be that small; the smallest ones are the hardest to get right.
ASSUME SizeAssumption ==
    /\ NUM \in Nat /\ RING \in Nat /\ UMOD \in Nat
    /\ NUM \div 3 > 0 /\ RING >= NUM \div 3
    /\ UMOD > RING /\ UMOD % RING = 0
ASSUME NameAssumption == Intr \notin Procs /\ None \notin Procs /\ Intr # None

VARIABLES
    desc,       \* desc[i]: the descriptors in shared memory
    avail, availidx,    \* avail->ring and avail->idx
    used, usedidx,      \* used->ring and used->idx
    free,       \* the descriptors with free[i] == 1
    used_idx,   \* how far the driver has looked in the used ring
    info,       \* info[i].b
    status,     \* info[i].status (TRUE: 0, done; FALSE: 0xff)
    lock,       \* who holds vdisk_lock
    bdisk,      \* bdisk[p]: b->disk, the device owns the buffer
    write, head,    \* write, idx[0]: parameter and local of virtio_disk_rw
    pc, ipc,    \* where each process, and the interrupt handler, is
    irq,        \* the interrupt is pending
    panicked,   \* a panic(), or a null b in the handler, was reached
    moved,      \* moved[p]: the data went between p's block and b->data
    seen,       \* how far the device has looked in the avail ring
    work,       \* work[i]: what the device does for the chain with head i
    raise       \* the device is about to raise an interrupt

shared == <<desc, avail, availidx, used, usedidx>>
driver == <<free, used_idx, info, status, bdisk>>
calls  == <<write, head>>
device == <<moved, seen, work, raise>>
vars == <<shared, driver, calls, device, lock, pc, ipc, irq, panicked>>

Desc == 0..(NUM - 1)

\* What a descriptor's addr points to: nothing, the request ops[i] (which is
\* one-for-one with the descriptors), a b->data, or an info[i].status.
Op(w, p) == [type |-> IF w THEN "out" ELSE "in", sector |-> p]
Zero == [addr |-> <<"null", None>>, wr |-> FALSE, more |-> FALSE, next |-> 0]
Addr == {Zero.addr} \cup ({"op"} \X {Op(w, p) : w \in BOOLEAN, p \in Procs})
            \cup ({"data"} \X Procs) \cup ({"status"} \X Desc)

TypeOK ==
    /\ desc \in [Desc -> [addr : Addr, wr : BOOLEAN, more : BOOLEAN, next : Desc]]
    /\ avail \in [0..(RING - 1) -> Desc] /\ availidx \in 0..(UMOD - 1)
    /\ used \in [0..(RING - 1) -> Desc] /\ usedidx \in 0..(UMOD - 1)
    /\ free \subseteq Desc /\ used_idx \in 0..(UMOD - 1)
    /\ info \in [Desc -> Procs \cup {None}] /\ status \in [Desc -> BOOLEAN]
    /\ lock \in Procs \cup {Intr, None}
    /\ bdisk \in [Procs -> BOOLEAN]
    /\ write \in [Procs -> BOOLEAN] /\ head \in [Procs -> Desc]
    /\ pc \in [Procs -> {"idle", "alloc", "nodesc", "publish", "wait", "woken"}]
    /\ ipc \in {"off", "loop"} /\ irq \in BOOLEAN /\ panicked \in BOOLEAN
    /\ moved \in [Procs -> BOOLEAN] /\ seen \in 0..(UMOD - 1)
    /\ work \in [Desc -> {"none", "taken", "done"}] /\ raise \in BOOLEAN
-----------------------------------------------------------------------------
(***************************************************************************)
(* Descriptors.                                                            *)
(***************************************************************************)

\* alloc_desc() three times: the three lowest free descriptors.
Lowest(S) == CHOOSE i \in S : \A j \in S : i <= j
alloc3_desc ==
    LET i == Lowest(free)
        j == Lowest(free \ {i})
        k == Lowest(free \ {i, j})
    IN  <<i, j, k>>

\* The chain that starts at i, as flags and next fields say.
Chain(i) ==
    IF ~desc[i].more THEN {i}
    ELSE LET j == desc[i].next IN
         IF ~desc[j].more THEN {i, j} ELSE {i, j, desc[j].next}

\* free_chain(): clear and free the descriptors of the chain.
free_chain(i) ==
    /\ desc' = [j \in Desc |-> IF j \in Chain(i) THEN Zero ELSE desc[j]]
    /\ free' = free \cup Chain(i)
    /\ panicked' = (panicked \/ Chain(i) \cap free # {})

\* pc after p moves to label l and wakeup(&disk.free[0]).
WakeFree(p, l) ==
    [q \in Procs |-> IF q = p THEN l ELSE IF pc[q] = "nodesc" THEN "alloc" ELSE pc[q]]
-----------------------------------------------------------------------------
(***************************************************************************)
(* virtio_disk_rw, and kill() of a process asleep in it.                   *)
(***************************************************************************)

\* bread() or bwrite() calls virtio_disk_rw.
virtio_disk_rw(p, w) ==
    /\ pc[p] = "idle"
    /\ pc' = [pc EXCEPT ![p] = "alloc"]
    /\ write' = [write EXCEPT ![p] = w]
    /\ UNCHANGED <<shared, driver, head, device, lock, ipc, irq, panicked>>

\* Too few descriptors: alloc3_desc() gives back the ones it got, each with
\* a wakeup(), and the process goes to sleep.
rw_sleep(p) ==
    /\ pc[p] = "alloc" /\ lock = None
    /\ Cardinality(free) < 3
    /\ pc' = IF free = {} THEN [pc EXCEPT ![p] = "nodesc"] ELSE WakeFree(p, "nodesc")
    /\ UNCHANGED <<shared, driver, calls, device, lock, ipc, irq, panicked>>

\* Mutant: VRING_DESC_F_WRITE set for a write.
rw_format_WrongFlag(p) ==
    /\ pc[p] = "alloc" /\ lock = None
    /\ Cardinality(free) >= 3
    /\ LET i == alloc3_desc[1]
           j == alloc3_desc[2]
           k == alloc3_desc[3]
       IN  /\ free' = free \ {i, j, k}
           /\ desc' = [desc EXCEPT
                ![i] = [addr |-> <<"op", Op(write[p], p)>>, wr |-> FALSE, more |-> TRUE, next |-> j],
                ![j] = [addr |-> <<"data", p>>, wr |-> write[p], more |-> TRUE, next |-> k],
                ![k] = [addr |-> <<"status", i>>, wr |-> TRUE, more |-> FALSE, next |-> 0]]
           /\ status' = [status EXCEPT ![i] = FALSE]
           /\ info' = [info EXCEPT ![i] = p]
           /\ head' = [head EXCEPT ![p] = i]
           /\ avail' = [avail EXCEPT ![availidx % RING] = i]
    /\ bdisk' = [bdisk EXCEPT ![p] = TRUE]
    /\ lock' = p
    /\ pc' = [pc EXCEPT ![p] = "publish"]
    /\ UNCHANGED <<availidx, used, usedidx, used_idx, write, device,
                   ipc, irq, panicked>>

\* Format the three descriptors and put the head into the avail ring.
rw_format(p) ==
    /\ pc[p] = "alloc" /\ lock = None
    /\ Cardinality(free) >= 3
    /\ LET i == alloc3_desc[1]
           j == alloc3_desc[2]
           k == alloc3_desc[3]
       IN  /\ free' = free \ {i, j, k}
           /\ desc' = [desc EXCEPT
                ![i] = [addr |-> <<"op", Op(write[p], p)>>, wr |-> FALSE, more |-> TRUE, next |-> j],
                ![j] = [addr |-> <<"data", p>>, wr |-> ~write[p], more |-> TRUE, next |-> k],
                ![k] = [addr |-> <<"status", i>>, wr |-> TRUE, more |-> FALSE, next |-> 0]]
           /\ status' = [status EXCEPT ![i] = FALSE]
           /\ info' = [info EXCEPT ![i] = p]
           /\ head' = [head EXCEPT ![p] = i]
           /\ avail' = [avail EXCEPT ![availidx % RING] = i]
    /\ bdisk' = [bdisk EXCEPT ![p] = TRUE]
    /\ lock' = p
    /\ pc' = [pc EXCEPT ![p] = "publish"]
    /\ UNCHANGED <<availidx, used, usedidx, used_idx, write, device,
                   ipc, irq, panicked>>

\* After the barrier: avail->idx += 1, notify, sleep(b, &disk.vdisk_lock).
rw_publish(p) ==
    /\ pc[p] = "publish"
    /\ availidx' = (availidx + 1) % UMOD
    /\ lock' = None
    /\ pc' = [pc EXCEPT ![p] = "wait"]
    /\ UNCHANGED <<desc, avail, used, usedidx, driver, calls, device,
                   ipc, irq, panicked>>

\* Awake, but b->disk is still 1: sleep again.
rw_again(p) ==
    /\ pc[p] = "woken" /\ lock = None
    /\ bdisk[p]
    /\ pc' = [pc EXCEPT ![p] = "wait"]
    /\ UNCHANGED <<shared, driver, calls, device, lock, ipc, irq, panicked>>

\* Mutant: "if" for "while" around sleep().
rw_return_Early(p) ==
    /\ pc[p] = "woken" /\ lock = None
    /\ info' = [info EXCEPT ![head[p]] = None]
    /\ free_chain(head[p])
    /\ pc' = WakeFree(p, "idle")
    /\ write' = [write EXCEPT ![p] = FALSE]
    /\ head' = [head EXCEPT ![p] = 0]
    /\ moved' = [moved EXCEPT ![p] = FALSE]
    /\ UNCHANGED <<avail, availidx, used, usedidx, used_idx, status, bdisk,
                   seen, work, raise, lock, ipc, irq>>

\* Mutant: no wakeup() in free_desc().
rw_return_NoWakeup(p) ==
    /\ pc[p] = "woken" /\ lock = None
    /\ ~bdisk[p]
    /\ info' = [info EXCEPT ![head[p]] = None]
    /\ free_chain(head[p])
    /\ pc' = [pc EXCEPT ![p] = "idle"]
    /\ write' = [write EXCEPT ![p] = FALSE]
    /\ head' = [head EXCEPT ![p] = 0]
    /\ moved' = [moved EXCEPT ![p] = FALSE]
    /\ UNCHANGED <<avail, availidx, used, usedidx, used_idx, status, bdisk,
                   seen, work, raise, lock, ipc, irq>>

\* The request has finished: info.b = 0, free_chain(idx[0]), return.
rw_return(p) ==
    /\ pc[p] = "woken" /\ lock = None
    /\ ~bdisk[p]
    /\ info' = [info EXCEPT ![head[p]] = None]
    /\ free_chain(head[p])
    /\ pc' = WakeFree(p, "idle")
    /\ write' = [write EXCEPT ![p] = FALSE]
    /\ head' = [head EXCEPT ![p] = 0]
    /\ moved' = [moved EXCEPT ![p] = FALSE]
    /\ UNCHANGED <<avail, availidx, used, usedidx, used_idx, status, bdisk,
                   seen, work, raise, lock, ipc, irq>>

\* kill() makes a SLEEPING process RUNNABLE before its condition holds.
kill(p) ==
    /\ pc[p] \in {"wait", "nodesc"}
    /\ pc' = [pc EXCEPT ![p] = IF @ = "wait" THEN "woken" ELSE "alloc"]
    /\ UNCHANGED <<shared, driver, calls, device, lock, ipc, irq, panicked>>
-----------------------------------------------------------------------------
(***************************************************************************)
(* virtio_disk_intr.                                                       *)
(***************************************************************************)

\* acquire(&disk.vdisk_lock) and acknowledge the interrupt.
intr_ack ==
    /\ ipc = "off" /\ irq /\ lock = None
    /\ lock' = Intr
    /\ irq' = FALSE
    /\ ipc' = "loop"
    /\ UNCHANGED <<shared, driver, calls, device, pc, panicked>>

\* Mutant: "if" for "while".
intr_entry_Once ==
    /\ ipc = "loop"
    /\ used_idx # usedidx
    /\ LET id == used[used_idx % RING]
           b  == info[id]
       IN  IF ~status[id] \/ b = None
           THEN panicked' = TRUE /\ UNCHANGED <<bdisk, pc, used_idx>>
           ELSE /\ bdisk' = [bdisk EXCEPT ![b] = FALSE]
                /\ pc' = [pc EXCEPT ![b] = IF @ = "wait" THEN "woken" ELSE @]
                /\ used_idx' = (used_idx + 1) % UMOD
                /\ UNCHANGED panicked
    /\ lock' = None /\ ipc' = "off"
    /\ UNCHANGED <<shared, free, info, status, calls, device, irq>>

\* One entry of the used ring: b->disk = 0; wakeup(b).
intr_entry ==
    /\ ipc = "loop"
    /\ used_idx # usedidx
    /\ LET id == used[used_idx % RING]
           b  == info[id]
       IN  IF ~status[id] \/ b = None
           THEN panicked' = TRUE /\ UNCHANGED <<bdisk, pc, used_idx>>
           ELSE /\ bdisk' = [bdisk EXCEPT ![b] = FALSE]
                /\ pc' = [pc EXCEPT ![b] = IF @ = "wait" THEN "woken" ELSE @]
                /\ used_idx' = (used_idx + 1) % UMOD
                /\ UNCHANGED panicked
    /\ UNCHANGED <<shared, free, info, status, calls, device, lock, ipc, irq>>

intr_return ==
    /\ ipc = "loop"
    /\ used_idx = usedidx
    /\ lock' = None
    /\ ipc' = "off"
    /\ UNCHANGED <<shared, driver, calls, device, pc, irq, panicked>>
-----------------------------------------------------------------------------
(***************************************************************************)
(* The device (external).                                                  *)
(***************************************************************************)

\* Take the next chain from the avail ring.
dev_take ==
    /\ seen # availidx
    /\ work' = [work EXCEPT ![avail[seen % RING]] = "taken"]
    /\ seen' = (seen + 1) % UMOD
    /\ UNCHANGED <<shared, driver, calls, moved, raise, lock, pc, ipc, irq, panicked>>

\* Follow the chain: move the data between the block and the buffer that it
\* names, in the direction it says, and write the status.
dev_transfer(i) ==
    /\ work[i] = "taken"
    /\ LET j  == desc[i].next
           k  == desc[j].next
           op == desc[i].addr[2]
           b  == desc[j].addr[2]
       IN  IF desc[i].addr[1] = "op" /\ desc[j].addr[1] = "data" /\ desc[k].addr[1] = "status"
           THEN /\ moved' = [moved EXCEPT ![b] =
                               op = Op(write[b], b) /\ desc[j].wr # write[b]]
                /\ status' = [status EXCEPT ![desc[k].addr[2]] = TRUE]
                /\ UNCHANGED panicked
           ELSE panicked' = TRUE /\ UNCHANGED <<moved, status>>
    /\ work' = [work EXCEPT ![i] = "done"]
    /\ UNCHANGED <<shared, free, used_idx, info, bdisk, calls, seen, raise, lock, pc, ipc, irq>>

\* Add the head to the used ring.
dev_used(i) ==
    /\ work[i] = "done"
    /\ used' = [used EXCEPT ![usedidx % RING] = i]
    /\ usedidx' = (usedidx + 1) % UMOD
    /\ work' = [work EXCEPT ![i] = "none"]
    /\ raise' = TRUE
    /\ UNCHANGED <<desc, avail, availidx, driver, calls, moved, seen, lock,
                   pc, ipc, irq, panicked>>

\* Raise the interrupt for what was added.
dev_irq ==
    /\ raise
    /\ raise' = FALSE
    /\ irq' = TRUE
    /\ UNCHANGED <<shared, driver, calls, moved, seen, work, lock, pc, ipc, panicked>>
-----------------------------------------------------------------------------
\* virtio_disk_init() has run.
Init ==
    /\ desc = [i \in Desc |-> Zero]
    /\ avail = [i \in 0..(RING - 1) |-> 0] /\ availidx = 0
    /\ used = [i \in 0..(RING - 1) |-> 0] /\ usedidx = 0
    /\ free = Desc /\ used_idx = 0
    /\ info = [i \in Desc |-> None] /\ status = [i \in Desc |-> TRUE]
    /\ lock = None
    /\ bdisk = [p \in Procs |-> FALSE]
    /\ moved = [p \in Procs |-> FALSE]
    /\ write = [p \in Procs |-> FALSE] /\ head = [p \in Procs |-> 0]
    /\ pc = [p \in Procs |-> "idle"] /\ ipc = "off"
    /\ irq = FALSE /\ panicked = FALSE
    /\ seen = 0 /\ work = [i \in Desc |-> "none"] /\ raise = FALSE

Intr_Step == intr_ack \/ intr_entry \/ intr_return
Dev_Step(i) == dev_transfer(i) \/ dev_used(i)
Rw_Step(p) == rw_sleep(p) \/ rw_format(p) \/ rw_publish(p) \/ rw_again(p) \/ rw_return(p)

Next ==
    /\ ~panicked
    /\ \/ \E p \in Procs : Rw_Step(p) \/ kill(p)
       \/ \E p \in Procs, w \in BOOLEAN : virtio_disk_rw(p, w)
       \/ Intr_Step
       \/ dev_take \/ dev_irq \/ \E i \in Desc : Dev_Step(i)

Spec == Init /\ [][Next]_vars

-----------------------------------------------------------------------------
(***************************************************************************)
(* Properties.                                                             *)
(***************************************************************************)

Active == {p \in Procs : pc[p] \in {"publish", "wait", "woken"}}

\* vdisk_lock is kept over a step by a process between filling a ring entry
\* and publishing it, and by the handler in its loop.
LockHeld ==
    /\ \A p \in Procs : lock = p <=> pc[p] = "publish"
    /\ lock = Intr <=> ipc = "loop"

\* The request of p is a chain of three: what to do, the buffer, the status.
Formatted(p) ==
    LET i == head[p]
        j == desc[i].next
        k == desc[j].next
    IN  /\ i # j /\ i # k /\ j # k
        /\ desc[i].addr = <<"op", Op(write[p], p)>> /\ desc[i].more
        /\ desc[j].addr = <<"data", p>> /\ desc[j].wr # write[p] /\ desc[j].more
        /\ desc[k].addr = <<"status", i>> /\ ~desc[k].more

\* Descriptors are neither leaked nor shared: the free ones and the chains
\* of three of the running requests are disjoint and make up the table.
Descriptors ==
    /\ IsFiniteSet(Active)
    /\ \A p \in Active : Formatted(p) /\ Chain(head[p]) \cap free = {}
    /\ \A p, q \in Active : p # q => Chain(head[p]) \cap Chain(head[q]) = {}
    /\ Cardinality(free) + 3 * Cardinality(Active) = NUM

\* Requests: info[] finds the process of a head, and the one that holds the
\* lock has put its head where the next entry of the avail ring will be.
Requests ==
    /\ \A p \in Active : info[head[p]] = p
    /\ \A p \in Procs : pc[p] = "publish" => bdisk[p] /\ avail[availidx % RING] = head[p]

\* The entries one side has put into a ring and the other has not taken out.
Pending(from, to) == (to + UMOD - from) % UMOD
Entries(from, to) == 0..(Pending(from, to) - 1)
AvailAt(e) == avail[(seen + e) % RING]
UsedAt(e) == used[(used_idx + e) % RING]

\* The heads in the rings, and the ones the device works on.
WithDevice ==
    {AvailAt(e) : e \in Entries(seen, availidx)}
        \cup {i \in Desc : work[i] # "none"}
        \cup {UsedAt(e) : e \in Entries(used_idx, usedidx)}

\* While the device can still touch a chain, or has not been heard about it,
\* the chain and its buffer belong to a process that waits for it.  Nothing
\* is given back early, whatever order requests finish in.
Owned(i) ==
    info[i] \in Active /\ head[info[i]] = i /\ pc[info[i]] # "publish" /\ bdisk[info[i]]
DeviceOwns == \A i \in WithDevice : Owned(i)

\* A request is in one place only: no entry of a ring is overwritten before
\* the other side has read it, and none is answered twice.
InOnePlace ==
    /\ \A e, f \in Entries(seen, availidx) : AvailAt(e) = AvailAt(f) => e = f
    /\ \A e, f \in Entries(used_idx, usedidx) : UsedAt(e) = UsedAt(f) => e = f
    /\ \A e \in Entries(seen, availidx) : work[AvailAt(e)] = "none"
    /\ \A e \in Entries(used_idx, usedidx) : work[UsedAt(e)] = "none"
    /\ \A e \in Entries(seen, availidx), f \in Entries(used_idx, usedidx) :
         AvailAt(e) # UsedAt(f)

\* The device has moved the data and written the status of every request it
\* is done with.
Served ==
    /\ \A i \in Desc : work[i] = "done" => status[i] /\ moved[info[i]]
    /\ \A e \in Entries(used_idx, usedidx) : status[UsedAt(e)] /\ moved[info[UsedAt(e)]]

\* The panics "free_desc 2" and "virtio_disk_intr status", a null info[id].b
\* and a malformed chain are unreachable.
NoPanic == ~panicked

\* When the handler hands a buffer back, its own block has been read into
\* it, or written from it, whatever requests finished in between.
Transferred == \A p \in Active : ~bdisk[p] => moved[p] /\ status[head[p]]

\* Descriptors, rings and requests fit together: free, in use by one process,
\* or with the device for a process that waits (virtio_disk_rw and
\* virtio_disk_intr).
DriverInv ==
    /\ TypeOK /\ LockHeld /\ Descriptors /\ Requests
    /\ DeviceOwns /\ InOnePlace /\ Served /\ NoPanic

\* Nobody sleeps for descriptors while three of them are free.
DescWakeup ==
    Cardinality(free) >= 3 => \A p \in Procs : pc[p] # "nodesc"

\* No completion is lost: while the handler is not running, an entry it has
\* not looked at comes with an interrupt, pending or about to be raised,
\* although the handler acknowledges while the device goes on adding entries.
\* And nobody sleeps on a buffer the handler has handed back.
CompletionSignalled ==
    /\ ipc = "off" /\ used_idx # usedidx => irq \/ raise
    /\ \A p \in Procs : pc[p] = "wait" => bdisk[p]
=============================================================================
