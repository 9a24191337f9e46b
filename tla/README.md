# A TLA+ verification of xv6

The subject is the kernel in `src/xv6-riscv/kernel`, a small Unix for RISC-V multiprocessors,
and the shell and init in `src/xv6-riscv/user`. These modules model the parts whose
correctness depends on interleavings, crashes, running out of something, or the behaviour of
a device; TLC checks them on small instances, and TLAPS proves the log, the buffer cache, the
disk driver, processes, pipes, the console, inodes and names, and the blocks and descriptors
of files correct for instances of any size.

## 1. The system

| Part | State | Operations | Talks to |
|---|---|---|---|
| Log (`log.c`) | header in memory and on disk, log blocks, `outstanding`, `committing` | `begin_op`, `log_write`, `end_op`, `commit`, recovery at boot | called around every file-system call; pins buffers; sleeps on `&log` |
| Buffer cache (`bio.c`, `sleeplock.c`) | `NBUF` buffers in an LRU list, `refcnt`, a sleep-lock each | `bread`, `bwrite`, `brelse`, `bpin`, `bunpin` | log, inode layer above; disk driver below |
| Disk driver (`virtio_disk.c`) | descriptors, avail and used ring, `info[]`, `vdisk_lock` | `virtio_disk_rw`, `virtio_disk_intr` | shares memory with the device; sleep/wakeup |
| Inodes and names (`fs.c`, `sysfile.c`) | inodes and directories on disk, `itable`, `cwd`, open files | `iget`, `ilock`, `iput`, `ialloc`, `namex`; open, mkdir, link, unlink, chdir, close | log, buffer cache; a sleep-lock per inode, `itable.lock` |
| Blocks of files (`fs.c`) | bitmap, `addrs[]` | `balloc`, `bfree`, `bmap`, `itrunc`, `readi`, `writei` | buffer cache, log |
| File table (`file.c`) | `ftable`, offsets | `filealloc`, `filedup`, `fileclose`, read, write | pipes, inodes, devices |
| Processes (`proc.c`) | `proc[]`, `cpus[]`, `wait_lock`, `p->lock` | scheduler, `sleep`, `wakeup`, `fork`, `exit`, `wait`, `kill` | everything that sleeps |
| Pipes (`pipe.c`) | ring of bytes, `nread`, `nwrite`, open flags | `pipewrite`, `piperead`, `pipeclose` | sleep/wakeup, kill, the file table |
| Memory (`kalloc.c`, `vm.c`, `exec.c`) | free list, page tables | `kalloc`, `kfree`, `uvmalloc`, `uvmcopy`, `exec` | fork, exec, sbrk |
| Console, UART (`console.c`, `uart.c`) | input ring, output ring | `consoleread`, `consoleintr`, `uartputc`, `uartintr` | interrupts, sleep/wakeup |
| Traps and timer (`trap.c`, `sysproc.c`) | `ticks` | `usertrap`, `kerneltrap`, `devintr`, `sys_sleep` | calls the handlers above |
| Shell and init (`sh.c`, `init.c`) | the line, descriptors of each process | parse a line, `runcmd`, wait | fork, exec, pipe, dup, close, wait |

What is hard about it: several CPUs and interrupt handlers that take each other's locks; a
process that gives up its CPU in the middle of almost any call; wakeups that must not be
missed; a device that runs beside the driver and answers in any order; a crash between any
two disk writes; `kill()` that ends a sleep before its condition holds; reference counts kept
right on every error path. `PROJECT.json` lists these hazards with their lines and with the
properties aimed at them.

What makes each part correct:

- **Log**: a file-system call's writes survive a crash together or not at all, nothing is lost
  once the group of calls has committed, the log never overflows, nobody sleeps for ever.
- **Buffer cache**: one copy of each block, one holder at a time, a buffer in use is not recycled.
- **Disk driver**: what the device owns is not given back, every completion reaches its process.
- **Inodes and names**: exact reference counts, link counts that cover the names, nothing in
  use is freed, no blocking while a spin-lock is held.
- **Processes**: a process runs on one CPU, is not freed while its stack is used, every dead
  child finds its parent.
- **Pipes**: a bounded FIFO, no use after free, end of file is delivered.
- **Memory and exec**: every page is free or has one owner, on every path; a page table fits
  its process; what a process sees changes only by its own calls, and a failed call changes nothing.
- **Files and descriptors**: bitmap and inodes agree, a transaction stays within its
  reservation, references are exact, a write lands at the shared offset and nowhere else.
- **Console and timer**: editing never reaches a complete line, no reader or writer sleeps
  through what it waits for, `sleep(n)` lasts `n` ticks across the wrap of the clock, and
  longer only as far as the process is kept from running.
- **Shell**: a line means what the grammar says, programs get the descriptors it asks for and
  no others, lists run in order, the prompt comes back.

## 2. The modules

| Module | Models | Abstract specification it implements |
|---|---|---|
| `Log` | `log.c`, with the caching and pinning of `bio.c` it relies on | `AtomicDisk` |
| `Bcache` | `bio.c`, `sleeplock.c` | `BlockStore` |
| `Virtio` | `virtio_disk.c` and the device | |
| `FileSys` | inode table and path lookup of `fs.c`, name calls of `sysfile.c` | |
| `Proc` | `proc.c`, the locking rules of `spinlock.c` | |
| `Pipe` | `pipe.c`, with `sleep`, `wakeup` and `kill` as it uses them | `Channel` |
| `Memory` | `kalloc.c`, `vm.c`, `exec.c`, the memory side of `proc.c` and `sys_sbrk` | `AddressSpace` |
| `Files` | blocks of files in `fs.c`, `file.c`, descriptor calls of `sysfile.c` | `FileStore` |
| `Console` | `console.c`, `uart.c`, the interrupts of `trap.c` and `plic.c`, `sys_sleep` | `LineInput` |
| `Parser` | the parser of `sh.c` | `CommandGrammar` (a reference definition) |
| `Shell` | `runcmd()` and `main()` of `sh.c`, `init.c` | |
| `LogProofs`, `BcacheProofs`, `VirtioProofs`, `ProcProofs`, `PipeProofs`, `ConsoleProofs`, `FilesProofs`, `FileSysProofs` | theorems about the module in their name | |
| `MC...` | instances for TLC (symmetry sets, functions as constants) | |

The modules are layers. `Virtio` shows that a request moves its own block and ends; `Bcache`
takes a disk read or write as one step. `Bcache` shows that `bread()` to `brelse()` is a
critical section on the one copy of a block; `Log` takes it as one step. `Log` shows that the
calls between `begin_op()` and `end_op()` see a disk with atomic updates; `FileSys` and
`Files` work on the blocks that running calls see: `FileSys` has names, links and the inode
table, `Files` has contents, offsets and descriptors. `Proc` shows that `sleep()` and `wakeup()` with a
condition lock lose no wakeup; the other modules take "release the lock and sleep" as one
step. Operators whose name has the form `action_Change`, introduced by a comment
"Mutant:", are faulty variants of an action. No specification uses them; each is there to
show that a property notices the fault.

Common conventions: `pc` gives the place of each process; a step is a section under one
lock, or one disk write; a process asleep has its own `pc` value and a `wakeup()` moves it
on. A reached `panic()` ends the behaviour (`Halted`).

### Log

`disk`, `dlog`, `hn` and `hblock` are on disk and survive `Crash`; `cache`, `pins`, `n`,
`block`, `outstanding` and `committing` are in memory. `begin_op`, `log_write` and `end_op`
are the sections under `log.lock`. `commit()` runs without the lock: `write_log`,
`install_trans` write one block per step, `write_head` and `clear_head` the header.
`read_head`, `recover_trans` and `recover_clear` are `recover_from_log()`; a crash may
interrupt them too. `Recycle` drops any buffer that is not pinned, at any time, and `Bread`
brings one in, so a buffer the log forgot to pin would be read back stale. `OPBLOCKS`
bounds what a call really appends to the log: `filewrite()`, the largest user, appends at
most 7 blocks of the 10 that `begin_op()` reserves.

### Bcache

A user is one `bread()`..`brelse()` bracket. `bget_hit`, `bget_recycle` and `bget_panic` are
the three outcomes of `bget()` under `bcache.lock`; the sleep-lock is taken afterwards
(`acquiresleep`), and `brelse()` is two steps (`releasesleep`, `brelse`) because it drops
the reference after the lock. A user saves what it changed with `bwrite` or leaves it
pinned, as the log and the boot code do.

### Virtio

`rw_format` and `rw_publish` are the two halves of a request, around the memory barrier;
`rw_sleep` is the failed `alloc3_desc()`, which gives descriptors back and wakes others
before it sleeps. `intr_ack`, `intr_entry` and `intr_return` are the handler. The device
(`dev_take`, `dev_transfer`, `dev_used`, `dev_irq`) is external: it takes chains from the
avail ring in order, works on them in any order, follows the descriptors it finds, and
raises the interrupt some time after it adds an entry. `kill` ends a sleep early.

### FileSys

`dinode` and `dir` are the inodes and directories as running calls see them, `itable` the
in-memory inodes. `call` starts a system call; `Pass` is one pass of `namex()`'s loop; then
`sys_open`, `sys_chdir`, `create`/`create_found`/`create_new`, `sys_unlink`/`unlink_entry`,
`sys_link`/`link_entry`/`link_exists`/`link_bad`. A call that holds a parent directory while
it waits for the lock of the child takes one step per lock. A call that needs an entry of a full
table panics, as `iget()` does. The references a call has still
to drop are queued in `puts`; `iput` is one step, or three when it frees the inode, since
`itable.lock` is given up in between. "." is left out, a process has at most one open
file, file contents and sizes are left out. `Calls` and `Paths` bound what the processes do.

### Proc

Slots of `proc[]` with `state`, `chan`, `parent`, `killed`; `plock` and `wait_lock` name the
CPU that holds them. `run[c]` is the kernel stack CPU `c` is on. `sched` leaves a process
with `p->lock` held and `scheduler_back` releases it from the scheduler's stack; `fork`,
`exit`, `reparent`, `wait` and `wakeup` advance slot by slot with the locks the code takes.
`yield` is the timer interrupt of `usertrap()` and `kerneltrap()`: it comes wherever a thread
holds no lock (`Interruptible`), hence also inside `fork()` while its child is half made, and at
the end of `sleep()`; `epc` is where the thread goes on. init may exit at any time
(`exit_init`): it was killed, or its `fork()` or `wait()` failed.

### Pipe

`pi->lock` is explicit and is kept over the bytes of a call; `write_full` and `write_sleep`
(`read_test` and `read_sleep`) are apart so that `kill`, which takes another lock, can fall
between the test of `killed` and the sleep. The counters wrap at `UMOD`.

### Memory

Functions of `kalloc.c` and `vm.c` are operators on a record (free pages, contents, the page
table worked on, success, panics met); a system call applies them and writes the record back
(`Commit`). A page table is the set of its tree nodes and a map of virtual pages, so the
pages that `walk()` allocates before it fails are seen. `fork` and `exec` are split
(`fork_alloc`, `fork_copy`; `exec_begin`, `exec_segment`, `exec_commit`) where another
process on another CPU competes for pages. `uint` arithmetic in `growproc()` is modulo
`UMOD`. The bytes of an ELF file are reduced to segments, a page to one value.

### Files

A process holds `ip->lock` from `write_begin` to `write_done`; `balloc`, `bzero` and
`itrunc_free` are the sections under the lock of the bitmap's buffer, so allocation and
freeing for two inodes interleave. The entries of an inode are numbered in one range (direct
blocks, the indirect block, what it lists), and `Ref` gives the block of an entry. `txn` collects the blocks a transaction passes to
`log_write()`. `write_fault` is a bad user buffer: some bytes of the block are already
replaced, and the block is not logged by this call. `fileclose` is an operator used by
`close`, by the failing `open` and by the failing `pipe`; the last close drops the reference
to the inode. Files keep a name here: the last close of a nameless file, where `iput()` calls
`itrunc()` and frees the inode (`fs.c:337-352`), is not an action of `Files`. `FileSys` has the
freeing of the inode, without blocks, and `Files` has what `itrunc()` does to the blocks, under
`O_TRUNC`; no module has both at once. `DiskAssumption` keeps the disk from
filling up, where the code panics; `BitmapAssumption` bounds the bitmap blocks, which one
`itrunc()` may all write.

### Console

The handler `Intr` and the processes take `cons.lock` and `uart_tx_lock`; echo
(`uartputc_sync`) takes neither for the transmitter, so testing `LSR_TX_IDLE` and writing
`THR` are separate steps everywhere. `Type`, `Transmit` and `WriteTHR` are the UART.
`clockintr`, `sys_sleep`, `ticks_sleep` and `sleep_check` are the timer; `tested` is the
place between the loop's test and `sleep()`, with `tickslock` held. `elapsed` counts the ticks
of a sleep without wrapping, and `late` those among them for which the process was awake and not
run; neither decides anything except the bound `MAXELAPSED`. "^P", the NUL
character and the change of a carriage return into a newline are left out.

### Parser and Shell

A line is a sequence of tokens, separated by blanks. `Parser` follows the functions of the
recursive-descent parser; a word is the place of its token, and is marked when
`nulterminate()` has ended it. `CommandGrammar` gives the meaning of a line without
recursive descent: it splits the line at its lowest operator outside of parentheses.
`Shell` has one process per `fork1()`; `at` is the path to the node `runcmd()` works on.
Each process has its own descriptors, and a reader of a pipe is at its end when no process
has the writing end. The failures are `redir_fail`, `pipe_fail`, `exec_fail` and every `fork1`,
which may fail with a slot free, since memory may run out. init forks the shell (`init_fork`,
`init_exec`), reaps (`init_wait`) and starts the shell again when it has died; `init_exec_fail`
is a shell that could not be run, `init_fork_fail` ends in the kernel's panic, since init exits.
A slot is kept for the shell, so init's fork fails for memory only. `wait()` is never called
without a child, and nobody is killed, so its returns of -1 (`init.c:46`) do not occur. A program
either reads its input to the end or does not read.

## 3. The runs

| Run | Bounds | Result |
|---|---|---|
| `Log` | 2 processes, 2 blocks, 2 values, `LOGSIZE` 4, crashes without limit, fairness | `LogInv` (types and the balance of pins are parts of it), `DurableWhenIdle`, `NoPanic`, refinement `CrashAtomic`, `SleepersWake` hold |
| `Bcache` | 2 users, 2 buffers, 3 blocks, 1 pin, fairness | `CacheInv` (one copy, reference counts, the list, no recycling in use, nothing dirty forgotten, panic only when full), refinement `OneCopyStore`, `WaitersWake` hold |
| `Proc` | 3 slots, 2 CPUs | `ProcInv` (locks and states by place, one CPU per process, `sched()` entered as it demands), `StackSafe`, `Family` (no orphan, no missed child, also in the middle of `exit()` and `wait()`) hold |
| `ProcLive` | 3 slots, 1 CPU, fairness | `ZombiesReaped` holds |
| `Pipe` | 1 reader, 2 writers, `PIPESIZE` 2, counters modulo 4, `n` up to 2, fairness | `PipeInv`, `WakeupLostOnlyByKill`, refinement `IsChannel`, `HangupDelivered` hold |
| `Virtio` | 3 processes, 8 descriptors, 2 ring entries, indices modulo 4 | `DriverInv` (descriptors, rings, ownership, panics), `Transferred`, `DescWakeup`, `CompletionSignalled` hold |
| `FileSys` | 2 processes, 3 inodes, paths `a` and `a/b`, absolute and relative | `TableInv` (one entry, exact counts, coherence), `Kept` (link counts, nothing in use freed), `NoBadPanic`, `NoFreeInode` hold |
| `FileSysDotDot` | 1 process, 3 inodes, also `..` | `NoFreeInode` is **violated** |
| `Memory` | 2 slots, 19 pages, 3 entries per table, 2 bytes per page, `uint` modulo 128 | `PagesOwnedOnce`, `SizeMapped`, `NoPanic`, refinement `PrivateMemory` hold |
| `Files` | 2 processes, 2 inodes, 1 direct and 2 indirect blocks of 2 bytes, 3 files, 2 descriptors, 4 calls | `AllocInv` (bitmap and inodes agree, no holes, no panic), `TxnFits`, `DescRefs`, refinement `IsFileStore` hold |
| `Console` | 2 processes, rings of 2 and 1, indices and clock modulo 4, 7 ticks per sleep, 4 loads, fairness | `ConsoleInv` (locks, rings, no sleeper missed, the clock), refinement `IsLineInput`, `SleepExact`, `WritersGetOn` hold |
| `Shell` | all lines of 5 tokens parsed, all of 3 and 6 longer ones run, 6 processes, fairness | `ParserIsGrammar`, `Wired`, `InOrder`, `PromptReturns` hold |

Why the bounds are enough to be interesting.

- `Log`: two processes are enough for one to commit while another asks for room, and for
  `begin_op()` to make a call wait for space; that the reservation keeps any log from
  overflowing is the theorem `LogSpaceSafe`.
- `Bcache`: with two buffers and three blocks, recycling is forced and both buffers can be
  in use.
- `Proc`: three slots are init, a parent and a child, hence exit against exit, orphans and
  the inheritance by init; two CPUs are needed for a child that still runs on its stack
  while the parent looks.
- `Virtio`: eight descriptors hold two requests and leave two over, so a third process takes
  the path where some descriptors are got and given back; the rings are as small as two
  requests allow, so every wrap is reached.
- `FileSys`: three inodes are the root and two to fight about; one process makes, enters and
  removes directories while the other makes, opens, links and removes files in them.
- `Memory`: a process of one page takes 7 of the 19 pages (five of them for its table), so two
  processes and a new image do not fit together: `fork`, `exec` and `sbrk` run out of pages
  early or late in their work, depending on what the other process holds. The programs include a bss, segments out of order, a bad alignment, a short
  file and arguments that do not fit. `sbrk()` is tried with arguments that wrap below zero
  and beyond memory. States are compared by `View`, which forgets which physical page is
  which: no action looks at a page's number except to pick one, and with `PagesOwnedOnce`
  the view determines the state up to a renaming of pages.
- `Files`: three bytes cross a block, five need the indirect block and two transactions;
  tables are so small that `open` and `pipe` fail. The bound on calls is what keeps the run
  small. Processes are symmetric; what they write is their own name.
- `Console`: a load says who reads, writes, sleeps and is killed and which keys are hit:
  one reader and every key; two readers and lines; two writers and echo; two sleepers. Both
  rings fill at once and all indices wrap. `MAXELAPSED` bounds the ticks of one sleep at
  7, a tick less than two turns of the clock: a sleeper can be so late that the difference wraps,
  go back to sleep, and be due again in the second turn.
- `Shell`: three tokens make every operator with its operands; the longer lines have
  pipelines of three and four, for the last of which there are too few processes, a list in
  a pipeline, redirections around a block, and a pipeline in the background. A second
  command can be entered while one in the background is still running. The shell can die and
  be started again at any time.

Deadlock is checked in every run. A state in which everybody waits for everybody is
therefore an error; stopping after a panic, after the last close of a pipe, or when the
bound on calls is reached is an explicit step (`Halted`, `Gone`, `Finished`).

### Fairness

- `Log`, `Bcache`: weak fairness of the steps a process takes inside the kernel, which is
  what a scheduler that reaches every runnable process gives, and strong fairness of
  `releasesleep` (a user that keeps writing its buffer gives it up in the end). Starting a
  call is never assumed. `SleepersWake` and `WaitersWake` say that a sleeper is woken, not
  that it gets what it waited for: `begin_op()` and `acquiresleep()` are not first come,
  first served.
- `ProcLive`: `scheduler()` goes through the table again and again and the timer makes
  processes yield, so init is chosen infinitely often if it is runnable infinitely often; it
  runs for some time between two ticks, so it goes on where it was interrupted; and it calls
  `wait()` for ever (`user/init.c`). It runs on one CPU, where nobody spins.
- `Pipe`: strong fairness of a process's kernel steps, because it spins for `pi->lock` while
  others come and go, and a killed process exits at its next trap.
- `Console`: the transmitter sends what it has; strong fairness of the handler and of a
  process's kernel steps, because spin-locks are not fair. Nobody has to type, write or
  sleep. `WritersGetOn` makes an exception while a key has just been hit: `uartintr()` takes all
  input before it sends, so keys hit for ever hold up output.
- `Shell`: weak fairness of every process of the shell and of init: what is runnable runs. Of a
  call that can fail, some outcome is assumed, never the success.
  Programs end when their input has ended and their output is taken. Nobody has to type.

### What the violated run shows

`FileSysDotDot`: the current directory of a process is removed, then its parent; ".." of
the removed directory then leads to a free inode and `ilock()` panics. Without ".."
(run `FileSys`) no path leads to a free inode.

### Observations

Behaviours of the code that came up in modelling, and where the properties make room for them:

- `kill(0)` finds a free slot, because a free slot has pid 0, and marks it
  (`proc.c:585`); `allocproc()` does not clear the mark, so the next process in it is born
  killed. `ProcInv` does not exclude it.
- A writer killed in the middle of a write leaves without `wakeup(&pi->nread)`
  (`pipe.c:85`): a reader sleeps although the pipe has data. `WakeupLostOnlyByKill` shows
  that this is the only way.
- A kill between the test of `killed` and `sleep()` (`pipe.c:114`, and the same in
  `consoleread()` and `sys_sleep()`) leaves the victim asleep until something else wakes it.
- A shell pipeline whose second `fork()` fails leaves its first half running while the
  prompt comes back; `InOrder` excepts it (`shortage`). It excepts no other failing call.
- `sys_sleep()` compares unsigned (`sysproc.c:65`), so `sleep(n)` ends when the process looks at
  the clock between `n` and 2^32 - 1 ticks after it began. For a negative `n` this is short: -1
  waits for 2^32 - 1 ticks, and a process that then runs one tick late finds a difference of 0
  and sleeps for another turn of the clock. `SleepExact` says that a sleep goes on after its time
  only in this way (`Overslept`).
- `write()` with a bad buffer leaves bytes in a cached block that was not logged;
  `FileStore` allows for them (`Slop`).

`LinksCovered`, a part of `Kept`, says that a link count is never too small. It can be too large: `create()`
in a removed directory that is still somebody's current directory succeeds, and what it
made is never freed.

## 4. What is proved

Each of the modules below is proved by induction over steps: an invariant that holds
initially and that every action keeps, then the properties that follow from it. In most
modules the property the run checks is itself inductive, because the facts the induction
needs were made part of it; TLC checks them too. The proofs have one lemma per conjunct and
in it one step per action, or (`FilesProofs`, `FileSysProofs`) one lemma per action.

### Log

`LogProofs` holds the theorems about `Log`, for every finite set of processes, every set of
blocks and values, and every size of the log.

| Theorem | Statement |
|---|---|
| `LogInvariant` | `Spec => []LogInv` |
| `TypeCorrect`, `CommitAlone`, `PinsBalanced`, `Durable` | `Spec =>` always `TypeOK`, `CommitExclusive`, `PinBalance`, `DurableWhenIdle` |
| `CrashAtomicity` | `Spec => CrashAtomic`: `Log` implements `AtomicDisk` |
| `ReservationKept` | `Spec => []Reserved` |
| `LogSpaceSafe` | under `OpsFit`, `Spec => []NoPanic` |

**The inductive invariant.** None of the properties is inductive by itself. That recovery
restores the right contents depends on what the log blocks hold at each point of a commit;
that, on the buffers of the transaction being cached and on nobody changing them
meanwhile; and that, on who may be where. `LogInv` puts these together: `Control` (recovery
and commit run alone; `outstanding` counts the calls between `begin_op` and `end_op`),
`Injective` (no block is twice in a header), `Contents` (for each phase, how header, log
blocks, home blocks and cache relate), `HeaderEmpty` (the header on disk is non-empty only
between commit and clearing), `IdleEmpty`, and `Coherent` (a block is pinned exactly when it
is in the log and not yet home; any other cached block equals its home copy). There is one
lemma per conjunct, with one step per action.

**The refinement.** `stable` is what recovery would leave (`Recovered`), `mem` what running
calls read (`Data`), `live` the calls between `begin_op` and `end_op`. `write_head` of a
commit is the abstract `Commit`: at that point `Recovered` changes from the old contents to
the cached ones for all blocks at once. `InstallInvisible` and `EraseInvisible` show that the
writes before and after do not change `Recovered`, in a commit and in a recovery.

**Log space.** `Reserved` says that the blocks in the log and the unused parts of the
reservations fit together. The unused parts are a set of tokens, one per process and block,
so that the proof works with finite sets instead of a sum: `begin_op` adds `MAXOPBLOCKS` tokens, a
`log_write` of a new block uses one up, `end_op` drops the rest.

**Assumptions.** `ProcsAssumption`, `BlocksAssumption` and `SizeAssumption` are facts about
`param.h` and `mkfs`. `OpsFit` is needed for `LogSpaceSafe` only: calls stay strictly below
their reservation, since `log_write()` tests for a full log before it looks for an
absorbed block. That `filewrite()` does is in `Files`: `TxnFits` bounds a transaction also by
`CHUNKBLOCKS`, which is 7 for the sizes of xv6 and is the `OPBLOCKS` of `Log`, and `ChunkBelow` in
`FilesProofs` shows it to be below `MAXOPBLOCKS` whenever there is one bitmap block. The other
calls write a few inodes and directory blocks; `FileSys` does not count them.

### Bcache

For every finite set of buffers and users and every set of blocks.

| Theorem | Statement |
|---|---|
| `CacheInvariant` | `Spec => []CacheInv` |
| `CacheIsStore` | `Spec => OneCopyStore`: `Bcache` implements `BlockStore` |

One copy per block needs `Listed`: `bget()` searches the list, so a buffer that fell out of it
would be made again. Exact counts need `Identity` (the buffer of a user between `bget()` and the
end of `brelse()` keeps its block), and that needs the counts: it is a positive `refcnt` that
keeps the buffer from being recycled. `CleanOrKept` is what the refinement rests on: what is
recycled equals the disk, so the contents the next reader sees do not change.

### Pipe

For every set of readers and writers, every `PIPESIZE` and every modulus that `PIPESIZE` divides
(`SizeAssumption`; in the code 512 and 2^32).

| Theorem | Statement |
|---|---|
| `PipeInvariant` | `Spec => []PipeInv` |
| `WakeupsKept` | `Spec => []WakeupLostOnlyByKill` |
| `PipeIsChannel` | `Spec => IsChannel`: `Pipe` implements `Channel` |

`WakeupLostOnlyByKill` speaks of states in which the lock is free. The induction needs
`Sleepers`, which also says what holds while somebody has the lock: a condition that has become
false was made false by the holder, who calls `wakeup()` before it lets go. That a freed pipe has nobody in
it needs `EndsClosed`. For the refinement the ring is read as a sequence; lemmas about
`%` show that a byte put in or taken out is `Append` or `Tail` of it, also at the wrap.

### Proc

For every number of slots and every finite set of CPUs.

| Theorem | Statement |
|---|---|
| `ProcInvariant` | `Spec => []ProcInv` |
| `StacksSafe` | `Spec => []StackSafe` |
| `FamilyKept` | `Spec => []Family` |

`ProcInv` is `Switching` (which CPU keeps `p->lock`, and that it keeps it exactly through a
switch), `WaitLock` (`wait_lock` is held exactly in `exit()` and `wait()`), `StateByPC` (the
state a process can be in, by where its thread is and whether a CPU is on it) and `Forking` (a
slot being filled in belongs to one `fork()`, also while that one is off its CPU). `StackSafe` follows from it: `wait()` takes the
child's lock, which the child keeps until the scheduler is off its stack. `NoOrphan` and
`NoLostChild` are not inductive: `Reparented` and `Scanned` say what the loops of `exit()` and
`wait()` have done up to the slot they are at, `ParentWoken` that the parent is awake between
`wakeup()` and the moment the child becomes a zombie, and `InitStays` that init is there to
inherit. Each of these uses that `wait_lock` admits one process at a time.

### Virtio

For every set of processes, every number of descriptors and ring sizes with
`SizeAssumption`: the ring holds as many entries as there can be requests, and its size divides
the modulus of the indices (in the code 8 descriptors, 8 entries, 2^16).

| Theorem | Statement |
|---|---|
| `DriverInvariant` | `Spec => []DriverInv` |
| `BlocksTransferred` | `Spec => []Transferred` |
| `DescriptorsWaited` | `Spec => []DescWakeup` |
| `CompletionsSignalled` | `Spec => []CompletionSignalled` |

`Descriptors` says that the free descriptors and three per running request make up the table, by
number; a request that gets three then leaves the count right, and one that ends gives back
three that were not free. `DeviceOwns` and `InOnePlace` trace each request through the
avail ring, the device and the used ring. That a ring entry is not overwritten is a pigeonhole:
the entries pending are heads of different requests (`InOnePlace`), and there are fewer of
those than entries. `Served` carries what the device has done from `dev_transfer` to the handler.
`DescWakeup` is proved from the count: a process goes to sleep for descriptors only when fewer than
three are free, and the only step that makes more free wakes it.

### Console

For every set of processes, sizes of the two rings and moduli with `SizesAssumption`.

| Theorem | Statement |
|---|---|
| `ConsoleInvariant` | `Spec => []ConsoleInv` |
| `SleepsExactly` | `Spec => SleepExact` |
| `ConsoleIsLineInput` | `Spec => IsLineInput`: input implements `LineInput` |

`Rings` keeps `r`, `w` and `e` in order across the wrap; that a full buffer is a complete line is
what wakes a reader when no newline can come any more. `NotMissed` holds at every step and not
only when the locks are free, since whoever changes the condition wakes the sleepers in the same
section. `Clock` relates the wrapping clock to the ticks that have really passed (they are
congruent), and says of a sleeper that it has time left, or is awake and over its time by no more
than it is late, or has been late for so long that the difference wrapped. `SleepExact` follows.
Nothing is assumed about how late a process may be: `clockintr` ticks whether or not those it
wakes have run, and `MAXELAPSED` may be any number. The refinement reads the parts of the ring between two indices as sequences; the lemmas `RingAppend`,
`RingTail`, `RingFront` and `RingConcat` say what moving an index does to them.

### Files

For every finite set of processes and inodes and every size of tables, blocks and inodes.

| Theorem | Statement |
|---|---|
| `FilesInvariant` | `Spec => []FilesInv`, the inductive invariant: `AllocInv /\ DescRefs` |
| `AllocationExact` | `Spec => []AllocInv` |
| `DescriptorsExact` | `Spec => []DescRefs` |
| `TransactionsFit` | `Spec => []TxnFits`: no write or truncation logs more than `MAXOPBLOCKS` blocks, nor more than `CHUNKBLOCKS` |
| `FilesAreStore` | `Spec => IsFileStore`: `Files` implements `FileStore` |

The two halves need each other. A `write()` in progress relies on its slot of the file table
(`CallOK`: still open, still the same inode); nobody else frees the slot, because `ref` counts
the descriptor this process has and keeps (`DescRefs`). And the panics of `fileclose()` are
excluded by the counts.

`BlocksOwned` is stated on one function, `Refs`, from every place that can refer to a block
(entries of inodes, a `balloc()` about to return) to the block: it is injective apart from 0, and
its range is the bitmap. Each step adds a reference (`OwnAdd`, `balloc`), moves one (`OwnMove`,
`bzero` stores the new block in the entry), or drops one (`OwnDrop`, `itrunc_free`), or leaves
`Refs` as it is. `BzeroRefs` and `TruncRefs` show that a step does this to one place and no
other, also when the entry is in an indirect block; `Elsewhere` uses the injectivity for it: a
block that is written is nobody else's indirect block. `NoHoles` needs the order in which a file
is written, from an offset within its size. `FreeBlock` is a pigeonhole from `DiskAssumption`, and
shows that `balloc()` finds a block whenever it looks for one, so its panic is not reached.

For `DescRefs`, `FilecloseIs` gives the three outcomes of `fileclose()` as values of the whole table,
and `TableStep` reduces the invariant after a step to the slot and the descriptors it
changed. `open()` and `pipe()` that fail are shown to leave the counts as they were.

`TransactionsFit` needs a second inductive invariant, `TxnInv`. It says *which* blocks a
transaction has written, not only how many: while a chunk of a write is under way they are among
`MayWrite`, the data blocks the chunk falls into, the indirect block, and the bitmap blocks of
those among them that the chunk *begins*; a truncation writes bitmap blocks only. That an
unaligned chunk allocates nothing for its first block is what makes the limit in `filewrite()`
right, and it rests on `NoHoles` (`MissingBegun`: that block has the byte before the chunk).
`TouchedSmall` counts: a chunk of `k` blocks' length falls into `k + 1` blocks and begins `k`, so
with the indirect block, its bitmap block and the inode there are `2k + 4 <= MAXOPBLOCKS`
(`WriteFits`). The bitmap blocks are few, so of the `k + 1` for what is begun only as many count as
there are (`BitmapSmall`), which gives `CHUNKBLOCKS`, `k + 3` and the bitmap. This is the comment in `filewrite()` about the i-node, indirect block,
allocation blocks and 2 blocks of slop.

**The refinement.** `FileStore` shows the bytes of a file that is not locked, and of a locked one
those it had when the lock was taken (`Shown`). What is copied in between must therefore add
up, at the end of `writei()`, to one `Write`. The inductive invariant for this is `Contents`
(checked by TLC on the instance of the run `Files` first): while a chunk is being written, the
bytes it has copied so far are the writer's, and all others of the file are as they were under
the lock. `CopiedCells` is its core: copying `m` bytes of a chunk into a block changes exactly the
`m` bytes at the current offset and no byte of another file, because `Refs` is injective
and a chunk ends with its block. `balloc`, `bzero`, `write_copy` and `itrunc_free` then do not
show (`ShownElsewhere`, `ShownKept`): the block that `bzero` clears is in no file yet, and
the file that `itrunc` takes apart is locked. `write_done` and `write_fault` are `FileStore`'s
`Write` (`AbsWriteEnd`), the second with up to `BSIZE - 1` bytes spoilt after the position; `itrunc_end` is
`Truncate`; and that the calls on the table open and close one slot and move no position comes
with the lemmas for `DescRefs`.

**Assumptions.** `SizesAssumption` (sizes are positive, `MAXOPBLOCKS` is at least 6; in
`param.h` it is 10), `SetsAssumption`, `DiskAssumption`, and `BitmapAssumption`: the bitmap blocks
and one inode fit a transaction. `itrunc()` frees in one transaction and may write each
bitmap block; with `FSSIZE` 1000 and 8192 bits per block there is one.

### FileSys

For every finite set of processes and names, every number of inodes and of entries of the
inode table, and all paths that do not use "..".

| Theorem | Statement, under `NoUp` |
|---|---|
| `Invariance` | `Spec => []FSInv`, the inductive invariant |
| `InodeTable` | `Spec => []TableInv` |
| `InUseKept` | `Spec => []Kept` |
| `NoPanicInPutOrUnlink` | `Spec => []NoBadPanic` |
| `LockedIsAllocated` | `Spec => []NoFreeInode` |

`NoUp` says that paths consist of names. With ".." the theorems are false, which is what the run
`FileSysDotDot` shows; the run `FileSys`, whose paths satisfy `NoUp`, shows that the hypothesis
leaves something to check. Directories still have their "..", and it is counted in the links.

**The inductive invariant.** None of the four properties is inductive. `iput()` frees an inode
when it has seen one reference and no link, in three steps that give up `itable.lock` in
between; that nobody comes to the inode meanwhile depends on there being no name for it (link
counts), on no other pointer to it (reference counts), and on no call that has read a name before
it was removed and uses it afterwards. `FSInv` has these parts:

- `RefCount`, and `TabOK`: one entry per inode, which agrees with the disk when it is valid;
- `LockInv`: a sleep-lock is held by the call whose `dp` it is, or by the `iput()` that frees it;
- for each process `Shape` (which pointers its call has at each place), `Alloc` (what it points to
  is allocated, except the inode that its own `iput()` has just freed) and `Local`, what a call
  found out and acts on later: the entry `unlink` removes is still there, the name `create`
  enters is still unused, the inode from `ialloc()` is not yet anybody else's (`Fresh`), the inode
  being freed still has one reference and no link;
- `DiskInv`: what is free has no links, what is not a directory has no entries, a directory has one
  name at most, in the directory its ".." leads to (`TreeInv`), and `nlink` covers the entries,
  the subdirectories, the links that `sys_link()` has counted and not yet entered (`Pending`), and
  one for the root (`LinkInv`);
- `PanicInv`: the panics the properties exclude, at `ilock()`, `iput()` and `unlink()`.

**The argument.** `Alloc` and `Local` of a process must survive the steps of all others. That is
shown once: `Others`, `RefStep`, `TabStep`, `LockStep`, `DiskStep` and `GainStep` say what a step
of `p` may do to the table and the disk (change only inodes that it points to or that are
free, keep the contents of directories that others have locked, gain pointers only to what it
may use), and `StepKept` shows that a step within these limits keeps what is said of every other
process. The lemma of each action, `Step_` and its name, then shows that the action stays within
the limits and keeps what is said of its own process and of the disk. For reference counts,
`Count` is the number of pointers of each kind that the processes have; a lemma takes one
process out of it, so a step is compared with what that process alone holds (`Held`). For link counts, a new entry, a removed entry and a moved one change the sets
`Entries`, `Subdirs` and `Pending` by one member, which the lemmas about `DiskInv` use.

**Assumptions.** `NamesAssumption`, `SizeAssumption` (processes and names are finite sets) and
`CallsAssumption`. The invariant `FSInv` was checked by TLC on the instance of the run
`FileSys` before it was proved.

## 5. What is only model-checked

- Liveness (`SleepersWake`, `WaitersWake`, `ZombiesReaped`, `HangupDelivered`, `WritersGetOn`,
  `PromptReturns`): the proof system has no rules for fairness.
- `Parser`, `CommandGrammar` and `Shell`: they use recursive operators, and what those compute
  needs induction over lines, which is out of the prover's reach.
- `Memory`: the functions of `vm.c` are folds over ranges of pages; what they compute needs
  induction over the range.

## 6. What is not modelled

- Below the source level: memory ordering other than the barriers of the driver, the atomic
  swap of `acquire()`, the interrupt flag, the assembly of traps and `swtch`.
- The kernel's page table and the boot code: they run once, before there is any concurrency,
  and their result is the initial state of the modules. `copyin()` and `copyinstr()` only read
  user memory; their failure is a free choice where it matters.
- Crashes in `FileSys` and `Files`: `Log` shows that a transaction is atomic, and both modules
  work on what running calls see. An inode without names that is open at a crash stays
  allocated; nothing in the code looks for it.
- Left out of the modelled parts: device inodes and `mknod`, `fstat`, the references that
  `fork` and `exit` hold on the current directory, `procdump`, the strings on a new stack.
- Smaller parts of modelled functions, left out where no property can tell:
  `consolewrite()` writes one character per call and its `copyin()` does not fail; lengths in
  `Files` are naturals, so `readi()`'s test of `off + n < off` never holds, and likewise
  `exec()`'s test for segments that wrap (`exec.c:49`); `balloc()` takes the lowest free block
  in one step, although its scan releases one bitmap block before it reads the next; the
  pages in which `sys_exec()` keeps its arguments (`sysfile.c:437-453`) are not among `Memory`'s;
  `create()`'s panics and the second lookup of `dirlink()` cannot be reached while the parent
  is locked, and are not in `FileSys`.
- `Bcache` takes for granted that who changes a buffer saves or pins it before `brelse()`
  (`Saved`). `bio.c` does not test it; the code above it keeps to it except in the fault of
  `writei()` listed under Observations.
- Printing, string functions, `malloc`, the other user programs and the tests.

## 7. Plan

Every safety property that the runs check and the provers can reach is proved; what is left to
TLC is listed in section 5. Extensions worth the effort are crashes in `FileSys` (the orphaned
inode of section 6), and the kernel's page table together with `Memory`.
