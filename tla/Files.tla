------------------------------- MODULE Files --------------------------------
(***************************************************************************)
(* The blocks of a file (kernel/fs.c: balloc, bfree, bmap, itrunc, readi,  *)
(* writei), the file table (kernel/file.c) and the calls on descriptors    *)
(* (kernel/sysfile.c).  Names and the inode table are in FileSys, the      *)
(* crash-atomicity of a transaction is in Log: here a transaction is the   *)
(* set of blocks a call has passed to log_write().                         *)
(*                                                                         *)
(* A process holds ip->lock over several steps; the bitmap is only locked  *)
(* for one, so allocations and releases for different inodes interleave.   *)
(***************************************************************************)
EXTENDS Integers, Sequences, FiniteSets, FiniteSetsExt

CONSTANTS
    Procs,          \* processes
    Inodes,         \* regular files
    NFILE,          \* slots of ftable
    NOFILE,         \* descriptors of a process
    NBLOCKS,        \* data blocks of the disk
    BPB,            \* bits of a bitmap block
    BSIZE,          \* bytes of a block
    NDIRECT, NINDIRECT,
    MAXOPBLOCKS,    \* the most blocks a transaction may write
    Lengths,        \* lengths of read() and write() calls
    Modes,          \* modes open() is called with
    MAXCALLS,       \* bound: number of system calls
    None

Files == 1..NFILE
FDs == 0..(NOFILE - 1)
Blocks == 1..NBLOCKS
MAXFILE == NDIRECT + NINDIRECT

ASSUME SizesAssumption ==
    /\ {NFILE, NOFILE, BPB, BSIZE, NDIRECT, NINDIRECT} \subseteq Nat \ {0}
    /\ MAXOPBLOCKS \in Nat /\ MAXOPBLOCKS >= 6 /\ NBLOCKS \in Nat
    /\ Modes \subseteq {"RDONLY", "WRONLY", "RDWR"} /\ Lengths \subseteq Nat
ASSUME SetsAssumption ==
    /\ IsFiniteSet(Procs) /\ Procs # {} /\ IsFiniteSet(Inodes) /\ Inodes # {}
    /\ None \notin Procs \cup Inodes \cup Files
\* balloc() panics when the disk is full; here it never is.
ASSUME DiskAssumption == NBLOCKS >= Cardinality(Inodes) * (MAXFILE + 1)
\* A truncation may write every bitmap block, and the inode.
ASSUME BitmapAssumption == NBLOCKS \div BPB + 2 <= MAXOPBLOCKS

VARIABLES
    bitmap,     \* the blocks marked in use
    block,      \* contents of a block, as bytes and as an indirect block
    inode,      \* addrs (addrs[NDIRECT] is the indirect block) and size
    iref,       \* references to the inode that open files hold
    lock,       \* who holds ip->lock
    file,       \* ftable.file
    ofile,      \* ofile[p][fd]
    ends,       \* the open ends of the pipe
    call,       \* what each process is doing
    txn,        \* txn[p]: blocks its transaction has written
    calls,      \* calls made so far
    err         \* panics met

vars == <<bitmap, block, inode, iref, lock, file, ofile, ends, call, txn, calls, err>>
diskVars == <<bitmap, block, inode, lock, txn>>
fdVars == <<file, ofile, iref, ends>>

ZeroBlock == [bytes |-> [i \in 0..(BSIZE - 1) |-> 0], ptrs |-> [i \in 0..(NINDIRECT - 1) |-> 0]]
NoFile == [ref |-> 0, type |-> "NONE", ip |-> None, off |-> 0, readable |-> FALSE, writable |-> FALSE]
User == [pc |-> "user"]

\* Two processes after a fork() share the file open as descriptor 0.
Init ==
    /\ bitmap = {}
    /\ block = [b \in Blocks |-> ZeroBlock]
    /\ inode = [ip \in Inodes |-> [addrs |-> [i \in 0..NDIRECT |-> 0], size |-> 0]]
    /\ lock = [ip \in Inodes |-> None]
    /\ LET first == CHOOSE ip \in Inodes : TRUE IN
       /\ file = [f \in Files |-> IF f = 1 THEN [ref |-> Cardinality(Procs), type |-> "INODE", ip |-> first,
                                                 off |-> 0, readable |-> TRUE, writable |-> TRUE]
                                  ELSE NoFile]
       /\ iref = [ip \in Inodes |-> IF ip = first THEN 1 ELSE 0]
    /\ ofile = [p \in Procs |-> [fd \in FDs |-> IF fd = 0 THEN 1 ELSE None]]
    /\ ends = {}
    /\ call = [p \in Procs |-> User]
    /\ txn = [p \in Procs |-> {}]
    /\ calls = 0
    /\ err = {}
-----------------------------------------------------------------------------
(***************************************************************************)
(* fs.c: where the bytes of a file are.                                    *)
(***************************************************************************)

\* The entries of an inode: 0 to NDIRECT - 1 are its direct blocks, NDIRECT is
\* the indirect block, and the rest what that one lists.
Entries == 0..MAXFILE

\* The block an entry refers to, 0 if there is none.
Ref(ip, j) ==
    LET a == inode[ip].addrs IN
    IF j <= NDIRECT THEN a[j]
    ELSE IF a[NDIRECT] = 0 THEN 0 ELSE block[a[NDIRECT]].ptrs[j - NDIRECT - 1]

\* bmap() without the allocation: the entry and the block of byte o.
EntryOf(o) == LET bn == o \div BSIZE IN IF bn < NDIRECT THEN bn ELSE bn + 1
BlockOf(ip, o) == Ref(ip, EntryOf(o))

Bytes(ip) ==
    [i \in 1..inode[ip].size |->
        LET b == BlockOf(ip, i - 1) IN IF b = 0 THEN 0 ELSE block[b].bytes[(i - 1) % BSIZE]]

\* Disk blocks, as log_write() tells them apart.
BitmapBlock(b) == <<"bitmap", b \div BPB>>
DataBlock(b) == <<"data", b>>
InodeBlock(ip) == <<"inode", ip>>
LogWrite(p, S) == txn' = [txn EXCEPT ![p] = @ \cup S]

Goto(p, c) == call' = [call EXCEPT ![p] = c]
Busy(p, l) == call[p].pc = l
-----------------------------------------------------------------------------
(***************************************************************************)
(* filewrite and writei.  A call has f, the bytes still to write (todo),   *)
(* and for the transaction under way n1 and tot as in the code; before is  *)
(* the contents when ip->lock was taken (used by no action).               *)
(***************************************************************************)

\* Mutant: the length of one transaction is not limited.
filewrite_max_Unlimited == MAXFILE * BSIZE

\* What one transaction may write: room is left for the inode, the indirect
\* block and the bitmap.
filewrite_max == ((MAXOPBLOCKS - 1 - 1 - 2) \div 2) * BSIZE

sys_write(p, fd, n) ==
    LET f == ofile[p][fd] IN
    /\ Busy(p, "user") /\ f # None
    /\ file[f].type = "INODE" /\ file[f].writable
    /\ calls < MAXCALLS /\ calls' = calls + 1
    /\ Goto(p, [pc |-> "begin", f |-> f, ip |-> file[f].ip, todo |-> n])
    /\ UNCHANGED <<diskVars, fdVars, err>>

\* begin_op(), ilock(), and the tests at the start of writei().
write_begin(p) ==
    LET c == call[p]
        n1 == Min({c.todo, filewrite_max})
        off == file[c.f].off
    IN  /\ Busy(p, "begin")
        /\ lock[c.ip] = None
        /\ IF off > inode[c.ip].size \/ off + n1 > MAXFILE * BSIZE
           THEN Goto(p, User) /\ UNCHANGED lock
           ELSE /\ Goto(p, [pc |-> "map", f |-> c.f, ip |-> c.ip, todo |-> c.todo,
                            n1 |-> n1, tot |-> 0, new |-> 0, before |-> Bytes(c.ip)])
                /\ lock' = [lock EXCEPT ![c.ip] = p]
        /\ txn' = [txn EXCEPT ![p] = {}]
        /\ UNCHANGED <<bitmap, block, inode, fdVars, calls, err>>

\* The entry that bmap() has to fill before byte o of ip has a block.
Missing(ip, o) ==
    IF EntryOf(o) > NDIRECT /\ Ref(ip, NDIRECT) = 0 THEN NDIRECT ELSE EntryOf(o)

WriteOff(p) == file[call[p].f].off + call[p].tot
Writing(p) == Busy(p, "map") /\ call[p].tot < call[p].n1

\* balloc(), first half: the first free block, marked under the lock of the
\* bitmap's buffer.
balloc(p) ==
    LET b == Min(Blocks \ bitmap) IN
    /\ Writing(p)
    /\ BlockOf(call[p].ip, WriteOff(p)) = 0
    /\ bitmap' = bitmap \cup {b}
    /\ LogWrite(p, {BitmapBlock(b)})
    /\ Goto(p, [call[p] EXCEPT !.pc = "zero", !.new = b])
    /\ UNCHANGED <<block, inode, lock, fdVars, calls, err>>

\* balloc(), second half: bzero(), and bmap() stores the block's number.
bzero(p) ==
    LET c == call[p]
        j == Missing(c.ip, WriteOff(p))
        ind == inode[c.ip].addrs[NDIRECT]
        zeroed == [block EXCEPT ![c.new] = ZeroBlock]
    IN  /\ Busy(p, "zero")
        /\ IF j <= NDIRECT
           THEN /\ inode' = [inode EXCEPT ![c.ip].addrs[j] = c.new]
                /\ block' = zeroed
                /\ LogWrite(p, {DataBlock(c.new)})
           ELSE /\ block' = [zeroed EXCEPT ![ind].ptrs[j - NDIRECT - 1] = c.new]
                /\ LogWrite(p, {DataBlock(c.new), DataBlock(ind)})
                /\ UNCHANGED inode
        /\ Goto(p, [c EXCEPT !.pc = "map", !.new = 0])
        /\ UNCHANGED <<bitmap, lock, fdVars, calls, err>>

\* Mutant: the copy does not stop at the end of the block.
ChunkLen_NoBlockEnd(p) == call[p].n1 - call[p].tot

\* The part of the write that falls into the block of the current offset.
ChunkLen(p) == Min({call[p].n1 - call[p].tot, BSIZE - (WriteOff(p) % BSIZE)})
Copied(p, b, m) ==
    [block EXCEPT ![b].bytes =
        [i \in 0..(BSIZE - 1) |->
            IF i >= (WriteOff(p) % BSIZE) /\ i < (WriteOff(p) % BSIZE) + m THEN p ELSE @[i]]]

\* either_copyin() into the buffer and log_write().
write_copy(p) ==
    LET b == BlockOf(call[p].ip, WriteOff(p)) IN
    /\ Writing(p) /\ b # 0
    /\ block' = Copied(p, b, ChunkLen(p))
    /\ LogWrite(p, {DataBlock(b)})
    /\ Goto(p, [call[p] EXCEPT !.tot = @ + ChunkLen(p)])
    /\ UNCHANGED <<bitmap, inode, lock, fdVars, calls, err>>

\* The end of writei() and of the loop in filewrite(): size, offset, iunlock.
writei_end(p, tot) ==
    LET c == call[p] IN
    /\ inode' = [inode EXCEPT ![c.ip].size = Max({@, file[c.f].off + tot})]
    /\ file' = [file EXCEPT ![c.f].off = @ + tot]
    /\ lock' = [lock EXCEPT ![c.ip] = None]

\* The user's buffer is bad: either_copyin() may have replaced some of the
\* bytes before it noticed, and this buffer is not passed to log_write().
write_fault(p) ==
    LET b == BlockOf(call[p].ip, WriteOff(p)) IN
    /\ Writing(p) /\ b # 0
    /\ \E m \in 0..(ChunkLen(p) - 1) : block' = Copied(p, b, m)
    /\ writei_end(p, call[p].tot)
    /\ LogWrite(p, {InodeBlock(call[p].ip)})
    /\ Goto(p, User)
    /\ UNCHANGED <<bitmap, ofile, iref, ends, calls, err>>

write_done(p) ==
    LET c == call[p] IN
    /\ Busy(p, "map") /\ c.tot = c.n1
    /\ writei_end(p, c.tot)
    /\ LogWrite(p, {InodeBlock(c.ip)})
    /\ Goto(p, IF c.todo = c.n1 THEN User
               ELSE [pc |-> "begin", f |-> c.f, ip |-> c.ip, todo |-> c.todo - c.n1])
    /\ UNCHANGED <<bitmap, block, ofile, iref, ends, calls, err>>

\* fileread and readi: all under ip->lock.  bmap() would allocate a block for
\* a hole, and log_write() panics as fileread() has no transaction.
sys_read(p, fd, n) ==
    LET f == ofile[p][fd]
        ip == file[f].ip
        off == file[f].off
        r == IF off > inode[ip].size THEN 0 ELSE Min({n, inode[ip].size - off})
    IN  /\ Busy(p, "user") /\ f # None
        /\ file[f].type = "INODE" /\ file[f].readable
        /\ calls < MAXCALLS /\ calls' = calls + 1
        /\ lock[ip] = None
        /\ file' = [file EXCEPT ![f].off = off + r]
        /\ err' = err \cup (IF \E o \in off..(off + r - 1) : BlockOf(ip, o) = 0
                            THEN {"log_write outside of trans"} ELSE {})
        /\ UNCHANGED <<diskVars, ofile, iref, ends, call>>
-----------------------------------------------------------------------------
(***************************************************************************)
(* itrunc, called by open() with O_TRUNC while it holds ip->lock.          *)
(***************************************************************************)

\* The entries of ip that refer to a block.
Used(ip) == {j \in Entries : Ref(ip, j) # 0}

\* Mutant: the indirect block is freed before the blocks it lists.
TruncNext_IndirectFirst(ip) == Min(Used(ip))

\* What itrunc() frees next: the direct blocks, the blocks of the indirect
\* block, the indirect block.  An entry of the indirect block counts as
\* freed from then on; the code leaves it, in a block it is about to free.
TruncNext(ip) == IF Used(ip) \ {NDIRECT} = {} THEN NDIRECT ELSE Min(Used(ip) \ {NDIRECT})

itrunc_free(p) ==
    LET ip == call[p].ip
        j == TruncNext(ip)
        b == Ref(ip, j)
        ind == inode[ip].addrs[NDIRECT]
    IN  /\ Busy(p, "trunc") /\ Used(ip) # {}
        /\ err' = IF b \in bitmap THEN err ELSE err \cup {"freeing free block"}
        /\ bitmap' = bitmap \ {b}
        /\ LogWrite(p, {BitmapBlock(b)})
        /\ IF j <= NDIRECT THEN inode' = [inode EXCEPT ![ip].addrs[j] = 0] /\ UNCHANGED block
           ELSE block' = [block EXCEPT ![ind].ptrs[j - NDIRECT - 1] = 0] /\ UNCHANGED inode
        /\ UNCHANGED <<lock, fdVars, call, calls>>

itrunc_end(p) ==
    LET ip == call[p].ip IN
    /\ Busy(p, "trunc") /\ Used(ip) = {}
    /\ inode' = [inode EXCEPT ![ip].size = 0]
    /\ LogWrite(p, {InodeBlock(ip)})
    /\ lock' = [lock EXCEPT ![ip] = None]
    /\ Goto(p, User)
    /\ UNCHANGED <<bitmap, block, fdVars, calls, err>>
-----------------------------------------------------------------------------
(***************************************************************************)
(* The file table and descriptors.  ft is a record of file, iref and ends. *)
(***************************************************************************)
FT == [file |-> file, iref |-> iref, ends |-> ends]

\* Mutant: the slot keeps its type.
fileclose_KeepsType(ft, f) ==
    LET ff == ft.file[f]
        g == [ft EXCEPT !.file[f].ref = @ - 1]
    IN  IF ff.ref > 1 THEN g
        ELSE IF ff.type = "PIPE" THEN [g EXCEPT !.ends = @ \ {ff.writable}]
        ELSE IF ff.type = "INODE" THEN [g EXCEPT !.iref[ff.ip] = @ - 1]
        ELSE g

\* fileclose: the last reference closes the pipe end or drops the inode.
fileclose(ft, f) ==
    LET ff == ft.file[f]
        g == [ft EXCEPT !.file[f].ref = @ - 1]
        last == [g EXCEPT !.file[f].type = "NONE"]
    IN  IF ff.ref > 1 THEN g
        ELSE IF ff.type = "PIPE" THEN [last EXCEPT !.ends = @ \ {ff.writable}]
        ELSE IF ff.type = "INODE" THEN [last EXCEPT !.iref[ff.ip] = @ - 1]
        ELSE last

FreeFiles(ft) == {f \in Files : ft.file[f].ref = 0}
FreeFDs(o) == {fd \in FDs : o[fd] = None}

SetFT(ft) == file' = ft.file /\ iref' = ft.iref /\ ends' = ft.ends

\* open(): the inode is referenced and locked when filealloc() and fdalloc()
\* may fail; then everything is undone.
sys_open(p, ip, trunc, omode) ==
    LET f == Min(FreeFiles(FT))
        fd == Min(FreeFDs(ofile[p]))
        ft0 == [FT EXCEPT !.iref[ip] = @ + 1]       \* namei()
        ft1 == [ft0 EXCEPT !.file[f].ref = 1]       \* filealloc()
    IN  /\ Busy(p, "user")
        /\ calls < MAXCALLS /\ calls' = calls + 1
        /\ lock[ip] = None
        /\ IF FreeFiles(FT) = {}
           THEN UNCHANGED <<fdVars, diskVars, call>>                    \* iunlockput()
           ELSE IF FreeFDs(ofile[p]) = {}
           THEN LET ft2 == fileclose(ft1, f) IN                         \* and iunlockput()
                /\ SetFT([ft2 EXCEPT !.iref[ip] = @ - 1])
                /\ UNCHANGED <<ofile, diskVars, call>>
           ELSE /\ SetFT([ft1 EXCEPT !.file[f] = [ref |-> 1, type |-> "INODE", ip |-> ip, off |-> 0,
                                        readable |-> omode # "WRONLY", writable |-> omode # "RDONLY"]])
                /\ ofile' = [ofile EXCEPT ![p][fd] = f]
                /\ IF trunc THEN /\ lock' = [lock EXCEPT ![ip] = p]
                                 /\ Goto(p, [pc |-> "trunc", ip |-> ip, before |-> Bytes(ip)])
                                 /\ txn' = [txn EXCEPT ![p] = {}]
                            ELSE UNCHANGED <<lock, call, txn>>
                /\ UNCHANGED <<bitmap, block, inode>>
        /\ UNCHANGED err

sys_dup(p, fd) ==
    LET f == ofile[p][fd] IN
    /\ Busy(p, "user") /\ f # None
    /\ calls < MAXCALLS /\ calls' = calls + 1
    /\ FreeFDs(ofile[p]) # {}
    /\ ofile' = [ofile EXCEPT ![p][Min(FreeFDs(ofile[p]))] = f]
    /\ file' = [file EXCEPT ![f].ref = @ + 1]       \* filedup()
    /\ UNCHANGED <<diskVars, iref, ends, call, err>>

sys_close(p, fd) ==
    LET f == ofile[p][fd] IN
    /\ Busy(p, "user") /\ f # None
    /\ calls < MAXCALLS /\ calls' = calls + 1
    /\ ofile' = [ofile EXCEPT ![p][fd] = None]
    /\ SetFT(fileclose(FT, f))
    /\ err' = IF file[f].ref < 1 THEN err \cup {"fileclose"} ELSE err
    /\ UNCHANGED <<diskVars, call>>

\* pipealloc: a slot becomes the read or the write end.
PipeSlot(s, w) == [s EXCEPT !.ref = 1, !.type = "PIPE", !.readable = ~w, !.writable = w]

\* pipe(): two slots, then two descriptors, else everything is undone.  One
\* pipe at a time; kalloc() may fail, and copyout() of the two numbers at the
\* end.
sys_pipe(p) ==
    LET rf == Min(FreeFiles(FT))
        wf == Min(FreeFiles(FT) \ {rf})
        ft1 == [file |-> [file EXCEPT ![rf] = PipeSlot(@, FALSE), ![wf] = PipeSlot(@, TRUE)],
                iref |-> iref, ends |-> {FALSE, TRUE}]
        fd0 == Min(FreeFDs(ofile[p]))
        fd1 == Min(FreeFDs(ofile[p]) \ {fd0})
    IN  /\ Busy(p, "user") /\ ends = {}
        /\ calls < MAXCALLS /\ calls' = calls + 1
        /\ FreeFiles(FT) # {}
        /\ \/ /\ Cardinality(FreeFiles(FT)) >= 2 /\ Cardinality(FreeFDs(ofile[p])) >= 2
              /\ SetFT(ft1)
              /\ ofile' = [ofile EXCEPT ![p][fd0] = rf, ![p][fd1] = wf]
           \/ /\ Cardinality(FreeFiles(FT)) >= 2
              /\ SetFT(fileclose(fileclose(ft1, rf), wf)) /\ UNCHANGED ofile
           \/ /\ Cardinality(FreeFiles(FT)) = 1        \* pipealloc(): bad
              /\ SetFT(fileclose([FT EXCEPT !.file[rf].ref = 1], rf)) /\ UNCHANGED ofile
        /\ UNCHANGED <<diskVars, call, err>>

\* fork(): the child starts with the parent's descriptors.
fork(p, q) ==
    /\ Busy(p, "user") /\ Busy(q, "user") /\ p # q
    /\ calls < MAXCALLS /\ calls' = calls + 1
    /\ FreeFDs(ofile[q]) = FDs
    /\ ofile' = [ofile EXCEPT ![q] = ofile[p]]
    /\ file' = [f \in Files |-> [file[f] EXCEPT !.ref = @ + Cardinality({fd \in FDs : ofile[p][fd] = f})]]
    /\ UNCHANGED <<diskVars, iref, ends, call, err>>

\* All calls are done and every process is back in user space.
Finished ==
    /\ calls = MAXCALLS /\ \A p \in Procs : Busy(p, "user")
    /\ UNCHANGED vars

Next ==
    \/ \E p \in Procs :
        \/ \E fd \in FDs :
            \/ \E n \in Lengths : sys_write(p, fd, n) \/ sys_read(p, fd, n)
            \/ sys_dup(p, fd)
            \/ sys_close(p, fd)
        \/ write_begin(p) \/ balloc(p) \/ bzero(p)
        \/ write_copy(p) \/ write_fault(p) \/ write_done(p)
        \/ itrunc_free(p) \/ itrunc_end(p)
        \/ \E ip \in Inodes, trunc \in BOOLEAN, omode \in Modes :
              sys_open(p, ip, trunc, omode)
        \/ sys_pipe(p)
        \/ \E q \in Procs : fork(p, q)
    \/ Finished

Spec == Init /\ [][Next]_vars
-----------------------------------------------------------------------------
(***************************************************************************)
(* Properties.                                                             *)
(***************************************************************************)

BlockType == [bytes : [0..(BSIZE - 1) -> Procs \cup {0}], ptrs : [0..(NINDIRECT - 1) -> Blocks \cup {0}]]
InodeType == [addrs : [0..NDIRECT -> Blocks \cup {0}], size : 0..(MAXFILE * BSIZE)]
FileType == [ref : Nat, type : {"NONE", "INODE", "PIPE"}, ip : Inodes \cup {None}, off : Nat,
             readable : BOOLEAN, writable : BOOLEAN]

TypeOK ==
    /\ bitmap \subseteq Blocks
    /\ block \in [Blocks -> BlockType]
    /\ inode \in [Inodes -> InodeType]
    /\ iref \in [Inodes -> Nat]
    /\ lock \in [Inodes -> Procs \cup {None}]
    /\ file \in [Files -> FileType]
    /\ ofile \in [Procs -> [FDs -> Files \cup {None}]]
    /\ ends \subseteq BOOLEAN
    /\ call = [p \in Procs |-> call[p]]

\* What a call in progress knows stays true: its file is open and is the one of
\* its inode, it holds ip->lock where it should, what it writes fits a file.
CallOK(p) ==
    LET c == call[p]
        off == file[c.f].off
    IN  /\ c.pc \in {"user", "begin", "map", "zero", "trunc"}
        /\ c.pc \in {"begin", "map", "zero"} =>
             /\ c.f \in Files /\ c.ip \in Inodes /\ c.todo \in Nat
             /\ file[c.f].type = "INODE" /\ file[c.f].ip = c.ip
             /\ \E fd \in FDs : ofile[p][fd] = c.f
        /\ c.pc \in {"map", "zero"} =>
             /\ c = [pc |-> c.pc, f |-> c.f, ip |-> c.ip, todo |-> c.todo, n1 |-> c.n1,
                     tot |-> c.tot, new |-> c.new, before |-> c.before]
             /\ c.n1 \in 0..c.todo /\ c.tot \in 0..c.n1
             /\ off <= inode[c.ip].size /\ off + c.n1 <= MAXFILE * BSIZE
        /\ c.pc = "zero" =>
             /\ c.tot < c.n1 /\ c.new \in Blocks
             /\ BlockOf(c.ip, off + c.tot) = 0
        /\ c.pc = "trunc" => c.ip \in Inodes
        /\ \A ip \in Inodes :
             lock[ip] = p <=> (c.pc \in {"map", "zero", "trunc"} /\ c.ip = ip)
CallsOK == \A p \in Procs : CallOK(p)

\* Who refers to a block: an entry of an inode, or a balloc() that is about to
\* hand it out.
Refs ==
    [s \in (Inodes \X Entries) \cup (Procs \X {-1}) |->
        IF s[2] # -1 THEN Ref(s[1], s[2]) ELSE IF Busy(s[1], "zero") THEN call[s[1]].new ELSE 0]

\* A block is marked in the bitmap exactly while one inode refers to it in
\* one place, or while balloc() is about to hand it out: no block is in two
\* files, none is lost, also when writes and truncations interleave.
BlocksOwned ==
    LET R == Refs IN
    /\ bitmap = {R[s] : s \in DOMAIN R} \ {0}
    /\ \A s, t \in DOMAIN R : (R[s] = R[t] /\ R[s] # 0) => s = t

\* Every byte of a file has a block, unless itrunc() is at work on it; a write
\* has them for what it has copied.
HasBlocks(ip, n) == \A o \in 0..(n - 1) : BlockOf(ip, o) # 0
NoHole(ip) ==
    /\ lock[ip] = None => HasBlocks(ip, inode[ip].size)
    /\ \A p \in Procs :
         (lock[ip] = p /\ ~Busy(p, "trunc")) => HasBlocks(ip, Max({inode[ip].size, WriteOff(p)}))
NoHoles == \A ip \in Inodes : NoHole(ip)

\* The most a chunk can write: the blocks it falls into (one more than it is
\* long), the indirect block, the bitmap and the inode.  In xv6, with 10 blocks
\* reserved and one bitmap block, 7.
CHUNKBLOCKS == (MAXOPBLOCKS - 1 - 1 - 2) \div 2 + 3 + (NBLOCKS \div BPB + 1)

\* No transaction of filewrite() or itrunc() writes more blocks than
\* begin_op() has reserved for it; with few bitmap blocks there is room to
\* spare, which Log's OpsFit asks for (CHUNKBLOCKS is its OPBLOCKS).
TxnFits ==
    \A p \in Procs : Cardinality(txn[p]) <= MAXOPBLOCKS /\ Cardinality(txn[p]) <= CHUNKBLOCKS

\* ref counts the descriptors that refer to a slot, an inode has one
\* reference per open file, and a pipe end is open while one slot refers to it.
DescRefs ==
    /\ \A f \in Files :
          file[f].ref = Cardinality({pf \in Procs \X FDs : ofile[pf[1]][pf[2]] = f})
    /\ \A ip \in Inodes :
          iref[ip] = Cardinality({f \in Files : file[f].ref > 0 /\ file[f].type = "INODE" /\ file[f].ip = ip})
    /\ ends = {file[f].writable : f \in {g \in Files : file[g].ref > 0 /\ file[g].type = "PIPE"}}
    /\ \A f \in Files : /\ file[f].ref = 0 <=> file[f].type = "NONE"
                        /\ file[f].type = "INODE" => file[f].ip \in Inodes
    /\ \A f, g \in Files : /\ file[f].type = "PIPE" /\ file[g].type = "PIPE"
                           /\ file[f].writable = file[g].writable
                           => f = g

\* "freeing free block" and "fileclose" are unreachable, and read() never
\* makes bmap() allocate outside of a transaction: files have no holes.
NoPanic == err = {}

\* Allocation is exact: bitmap and inodes agree at every step of writes,
\* truncations and reads (balloc, bfree, bmap, itrunc).
AllocInv == TypeOK /\ CallsOK /\ BlocksOwned /\ NoHoles /\ NoPanic

Store == INSTANCE FileStore WITH
    store <- [ip \in Inodes |-> IF lock[ip] = None THEN Bytes(ip) ELSE call[lock[ip]].before],
    at <- [f \in Files |-> IF file[f].type = "INODE" THEN file[f].ip ELSE None],
    pos <- [f \in Files |-> file[f].off],
    Vals <- Procs, MaxChunk <- filewrite_max, MaxSize <- MAXFILE * BSIZE, Slop <- BSIZE - 1

\* Files behave like byte sequences with shared positions: a chunk of a
\* write is atomic, lands at the common position, and touches no other file.
IsFileStore == Store!Spec
=============================================================================
