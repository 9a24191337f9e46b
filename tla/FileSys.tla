------------------------------- MODULE FileSys -------------------------------
(***************************************************************************)
(* kernel/fs.c and kernel/sysfile.c: the table of in-memory inodes, path   *)
(* lookup, and the system calls open, mkdir, link, unlink, chdir and close.*)
(*                                                                         *)
(* A step holds the inode sleep-locks it needs from ilock() to iunlock();  *)
(* a call that keeps one lock while it waits for another takes a step per  *)
(* lock.  An iput() is a step of its own, and three when it frees the      *)
(* inode, because itable.lock is given up in between.  What is read and    *)
(* written are the blocks as running calls see them (mem in AtomicDisk).   *)
(***************************************************************************)
EXTENDS Integers, Sequences, FiniteSets

CONSTANTS
    Procs,      \* processes
    NINODES,    \* inodes on disk, numbered from 1 (sb.ninodes - 1)
    NINODE,     \* entries of itable.inode[], numbered from 1
    Names,      \* names of files and directories
    DotDot,     \* the name ".."
    Paths,      \* bound: the paths in the calls, as sequences of names
    Calls,      \* bound: Calls[p] are the calls p makes, by their first lookup
    None        \* no lock holder

ASSUME NamesAssumption ==
    DotDot \notin Names /\ Paths \subseteq Seq(Names \cup {DotDot}) /\ None \notin Procs
ASSUME SizeAssumption ==
    /\ NINODES \in Nat \ {0} /\ NINODE \in Nat \ {0}
    /\ IsFiniteSet(Procs) /\ IsFiniteSet(Names)

Inums == 1..NINODES
ROOTINO == 1
Slots == 1..NINODE
Nil == 0        \* no entry, a null pointer

VARIABLES
    dinode,     \* dinode[i]: type and nlink of inode i on disk
    dir,        \* dir[i]: the entries of inode i, if it is a directory
    itable,     \* itable[e]: an in-memory inode
    cwd, file,  \* cwd[p]: current directory; file[p]: its one open file
    th,         \* th[p]: what process p is doing
    panicked    \* the panic() that was reached, or "no"

vars == <<dinode, dir, itable, cwd, file, th, panicked>>

Types == {"free", "FILE", "DIR"}
NoEntries == [n \in Names \cup {DotDot} |-> Nil]

Lookups == {"open", "chdir", "linkold"}             \* calls of namei()
ParentLookups == {"create", "mkdir", "unlink", "linknew"}  \* of nameiparent()
\* sys_link() looks its new path up itself.
ASSUME CallsAssumption ==
    \A p \in Procs : Calls[p] \subseteq (Lookups \cup ParentLookups) \ {"linknew"}
PC == {"idle", "namex", "create_found", "create_new", "unlink_entry",
       "link_exists", "link_bad"} \cup Lookups \cup ParentLookups

TypeOK ==
    /\ dinode \in [Inums -> [type : Types, nlink : Nat]]
    /\ dir \in [Inums -> [Names \cup {DotDot} -> Inums \cup {Nil}]]
    /\ itable \in [Slots -> [inum : Inums \cup {Nil}, ref : Nat, valid : BOOLEAN,
                             type : Types, nlink : Nat, lock : Procs \cup {None}]]
    /\ cwd \in [Procs -> Slots] /\ file \in [Procs -> Slots \cup {Nil}]
    /\ \A p \in Procs :
         /\ th[p].pc \in PC /\ th[p].op \in Lookups \cup ParentLookups
         /\ {th[p].path, th[p].new} \subseteq Seq(Names \cup {DotDot})
         /\ {th[p].ip, th[p].dp, th[p].keep} \subseteq Slots \cup {Nil}
         /\ th[p].puts \in Seq(Slots) /\ th[p].iput \in {"test", "free", "dec"}

Idle == [pc |-> "idle", op |-> "open", path |-> <<>>, new |-> <<>>,
         ip |-> Nil,        \* the inode at hand
         dp |-> Nil,        \* the parent directory, while it is locked
         keep |-> Nil,      \* the inode of sys_link's old path
         puts |-> <<>>,     \* iput()s to do before going on
         iput |-> "test"]   \* where the first of them is
-----------------------------------------------------------------------------
(***************************************************************************)
(* The inode table.                                                        *)
(***************************************************************************)

\* The entry iget() returns for inode i: the one it has, or the first free.
Has(T, i) == {e \in Slots : T[e].ref > 0 /\ T[e].inum = i}
Free(T) == {e \in Slots : T[e].ref = 0}
First(S) == IF S = {} THEN Nil ELSE CHOOSE e \in S : \A f \in S : e <= f
SlotOf(T, i) == IF Has(T, i) # {} THEN First(Has(T, i)) ELSE First(Free(T))

\* iget(): the table with one more reference to inode i.
iget(T, i) ==
    LET e == SlotOf(T, i) IN
    IF Has(T, i) # {}
    THEN [T EXCEPT ![e].ref = @ + 1]
    ELSE [T EXCEPT ![e] = [@ EXCEPT !.inum = i, !.ref = 1, !.valid = FALSE]]

idup(T, e) == [T EXCEPT ![e].ref = @ + 1]

\* ip->ref--.  Nobody reads the other fields of an entry that is free, or
\* its type and nlink before ilock() has set valid: they are blank here.
Blank == [inum |-> Nil, ref |-> 0, valid |-> FALSE, type |-> "free", nlink |-> 0,
          lock |-> None]
Decref(T, e) ==
    [T EXCEPT ![e] = IF T[e].ref = 1 THEN [Blank EXCEPT !.lock = T[e].lock]
                     ELSE [T[e] EXCEPT !.ref = T[e].ref - 1]]

\* The in-memory inode after ilock(): read from the disk if it is not valid.
Loaded(T, e) ==
    IF T[e].valid THEN T[e]
    ELSE [T[e] EXCEPT !.valid = TRUE, !.type = dinode[T[e].inum].type,
                      !.nlink = dinode[T[e].inum].nlink]
ilock(T, e, holder) == [T EXCEPT ![e] = [Loaded(T, e) EXCEPT !.lock = holder]]
iunlock(T, e) == [T EXCEPT ![e].lock = None]

\* ilock() waits for the lock, and panics when the inode has no type.
NoType(T, e) == Loaded(T, e).type = "free"
Lockable(T, e) == T[e].lock = None /\ ~NoType(T, e)

\* p's system call ends, after the iput()s of the entries in s.
Return(p, s) == th' = [th EXCEPT ![p] = [Idle EXCEPT !.puts = s]]

\* p is at label l and has no iput() to finish.
At(p, l) == th[p].pc = l /\ th[p].puts = <<>>

Panic(msg) ==
    /\ panicked' = msg
    /\ UNCHANGED <<dinode, dir, itable, cwd, file, th>>
-----------------------------------------------------------------------------
(***************************************************************************)
(* iput.                                                                   *)
(***************************************************************************)

\* Mutant: no test of ref.
iput_AnyRef(p) ==
    /\ th[p].puts # <<>> /\ th[p].iput = "test"
    /\ LET e == Head(th[p].puts) IN
         IF itable[e].valid /\ itable[e].nlink = 0
         THEN IF itable[e].lock # None THEN Panic("sched locks")
              ELSE /\ itable' = [itable EXCEPT ![e].lock = p]
                   /\ th' = [th EXCEPT ![p].iput = "free"]
                   /\ UNCHANGED <<dinode, dir, cwd, file, panicked>>
         ELSE /\ itable' = Decref(itable, e)
              /\ th' = [th EXCEPT ![p].puts = Tail(@)]
              /\ UNCHANGED <<dinode, dir, cwd, file, panicked>>

\* Under itable.lock: drop a reference, or begin to free the inode.  There
\* acquiresleep() must not block: sleep() would switch with a spin-lock held.
iput(p) ==
    /\ th[p].puts # <<>> /\ th[p].iput = "test"
    /\ LET e == Head(th[p].puts) IN
         IF itable[e].ref = 1 /\ itable[e].valid /\ itable[e].nlink = 0
         THEN IF itable[e].lock # None THEN Panic("sched locks")
              ELSE /\ itable' = [itable EXCEPT ![e].lock = p]
                   /\ th' = [th EXCEPT ![p].iput = "free"]
                   /\ UNCHANGED <<dinode, dir, cwd, file, panicked>>
         ELSE /\ itable' = Decref(itable, e)
              /\ th' = [th EXCEPT ![p].puts = Tail(@)]
              /\ UNCHANGED <<dinode, dir, cwd, file, panicked>>

\* itrunc(ip), type = 0, iupdate(ip), valid = 0, releasesleep().
iput_free(p) ==
    /\ th[p].puts # <<>> /\ th[p].iput = "free"
    /\ LET e == Head(th[p].puts)
           i == itable[e].inum
       IN  /\ dinode' = [dinode EXCEPT ![i] = [type |-> "free", nlink |-> 0]]
           /\ dir' = [dir EXCEPT ![i] = NoEntries]
           /\ itable' = [itable EXCEPT ![e].valid = FALSE, ![e].type = "free", ![e].lock = None]
    /\ th' = [th EXCEPT ![p].iput = "dec"]
    /\ UNCHANGED <<cwd, file, panicked>>

\* acquire(&itable.lock) again; ip->ref--.
iput_dec(p) ==
    /\ th[p].puts # <<>> /\ th[p].iput = "dec"
    /\ itable' = Decref(itable, Head(th[p].puts))
    /\ th' = [th EXCEPT ![p] = [th[p] EXCEPT !.puts = Tail(th[p].puts), !.iput = "test"]]
    /\ UNCHANGED <<dinode, dir, cwd, file, panicked>>
-----------------------------------------------------------------------------
(***************************************************************************)
(* Path lookup.                                                            *)
(***************************************************************************)

\* A lookup that fails: sys_link still has to undo its nlink++.
Fail(t, s) ==
    IF t.op = "linknew"
    THEN [t EXCEPT !.pc = "link_bad", !.ip = Nil, !.path = <<>>, !.puts = s]
    ELSE [Idle EXCEPT !.puts = s]

\* One pass of namex()'s loop, or its end, for p in state t and the table T.
Pass(p, t, T) ==
    LET e    == t.ip
        L    == ilock(T, e, None)
        i    == dir[T[e].inum][Head(t.path)]
        rest == Tail(t.path)
        SetTh(u) == th' = [th EXCEPT ![p] = u]
    IN  IF t.path = <<>>
        THEN /\ itable' = T
             /\ SetTh(IF t.op \in Lookups THEN [t EXCEPT !.pc = t.op] ELSE Fail(t, <<e>>))
             /\ UNCHANGED panicked
        ELSE /\ Lockable(T, e)
             /\ IF L[e].type = "DIR" /\ t.op \in ParentLookups /\ rest = <<>>
                THEN itable' = L /\ SetTh([t EXCEPT !.pc = t.op]) /\ UNCHANGED panicked
                ELSE IF L[e].type # "DIR" \/ i = Nil
                THEN itable' = L /\ SetTh(Fail(t, <<e>>)) /\ UNCHANGED panicked
                ELSE IF SlotOf(L, i) = Nil
                THEN panicked' = "iget: no inodes" /\ UNCHANGED <<itable, th>>
                ELSE /\ itable' = iget(L, i)
                     /\ SetTh([t EXCEPT !.pc = IF rest = <<>> THEN t.op ELSE "namex",
                                        !.path = rest, !.ip = SlotOf(L, i), !.puts = <<e>>])
                     /\ UNCHANGED panicked

\* A system call starts.  namex() takes a reference to the root for an
\* absolute path, to the current directory for a relative one (neither can
\* be freed meanwhile) and makes its first pass.
call(p, op, abs, path, new) ==
    /\ At(p, "idle")
    /\ op # "linkold" => new = <<>>
    /\ IF abs /\ SlotOf(itable, ROOTINO) = Nil
       THEN panicked' = "iget: no inodes" /\ UNCHANGED <<itable, th>>
       ELSE Pass(p, [Idle EXCEPT !.op = op, !.path = path, !.new = new,
                                 !.ip = IF abs THEN SlotOf(itable, ROOTINO) ELSE cwd[p]],
                    IF abs THEN iget(itable, ROOTINO) ELSE idup(itable, cwd[p]))
    /\ UNCHANGED <<dinode, dir, cwd, file>>

namex(p) ==
    /\ At(p, "namex")
    /\ Pass(p, th[p], itable)
    /\ UNCHANGED <<dinode, dir, cwd, file>>

\* p calls ilock() and its assertion fails.
ilock_panics(p) ==
    /\ th[p].puts = <<>> /\ th[p].pc \notin {"idle", "link_exists"}
    /\ th[p].pc = "namex" => th[p].path # <<>>
    /\ LET e == IF th[p].pc = "link_bad" THEN th[p].keep ELSE th[p].ip IN
         itable[e].lock = None /\ NoType(itable, e)
-----------------------------------------------------------------------------
(***************************************************************************)
(* open without O_CREATE, chdir and close.                                 *)
(***************************************************************************)

\* The end of sys_open(): a file descriptor for the inode e, or iunlockput()
\* when there is no descriptor or no struct file left, or a directory is
\* opened for writing.  s: iput()s that come before.
Opened(p, e, s) ==
    \/ /\ file[p] = Nil
       /\ file' = [file EXCEPT ![p] = e]
       /\ Return(p, s)
    \/ /\ UNCHANGED file
       /\ Return(p, Append(s, e))

sys_open(p) ==
    /\ At(p, "open")
    /\ LET e == th[p].ip IN
         /\ Lockable(itable, e)
         /\ itable' = iunlock(ilock(itable, e, p), e)
         /\ Opened(p, e, <<>>)
    /\ UNCHANGED <<dinode, dir, cwd, panicked>>

sys_chdir(p) ==
    /\ At(p, "chdir")
    /\ LET e == th[p].ip IN
         /\ Lockable(itable, e)
         /\ itable' = iunlock(ilock(itable, e, p), e)
         /\ IF itable'[e].type = "DIR"
            THEN cwd' = [cwd EXCEPT ![p] = e] /\ Return(p, <<cwd[p]>>)
            ELSE UNCHANGED cwd /\ Return(p, <<e>>)
    /\ UNCHANGED <<dinode, dir, file, panicked>>

sys_close(p) ==
    /\ At(p, "idle")
    /\ file[p] # Nil
    /\ file' = [file EXCEPT ![p] = Nil]
    /\ Return(p, <<file[p]>>)
    /\ UNCHANGED <<dinode, dir, itable, cwd, panicked>>
-----------------------------------------------------------------------------
(***************************************************************************)
(* create, for open(O_CREATE) and mkdir.                                   *)
(***************************************************************************)

NewType(p) == IF th[p].op = "mkdir" THEN "DIR" ELSE "FILE"
Unallocated == {i \in Inums : dinode[i].type = "free"}

\* Lock the parent and look the name up; if it is new, ialloc() an inode and
\* keep the parent locked.
create(p) ==
    /\ At(p, "create") \/ At(p, "mkdir")
    /\ LET d == th[p].ip
           T == ilock(itable, d, p)
           i == dir[T[d].inum][Head(th[p].path)]
           j == First(Unallocated)
       IN  /\ Lockable(itable, d)
           /\ IF i # Nil
              THEN IF SlotOf(T, i) = Nil THEN Panic("iget: no inodes")
                   ELSE /\ itable' = iget(iunlock(T, d), i)
                        /\ th' = [th EXCEPT ![p] = [th[p] EXCEPT
                             !.pc = "create_found", !.ip = SlotOf(T, i), !.puts = <<d>>]]
                        /\ UNCHANGED <<dinode, dir, cwd, file, panicked>>
              ELSE IF j = Nil THEN Panic("ialloc: no inodes")
              ELSE IF SlotOf(T, j) = Nil THEN Panic("iget: no inodes")
              ELSE /\ dinode' = [dinode EXCEPT ![j] = [type |-> NewType(p), nlink |-> 0]]
                   /\ itable' = iget(T, j)
                   /\ th' = [th EXCEPT ![p] = [th[p] EXCEPT
                        !.pc = "create_new", !.dp = d, !.ip = SlotOf(T, j)]]
                   /\ UNCHANGED <<dir, cwd, file, panicked>>

\* The name exists: only open(O_CREATE) of a file succeeds.
create_found(p) ==
    /\ At(p, "create_found")
    /\ LET e == th[p].ip IN
         /\ Lockable(itable, e)
         /\ itable' = iunlock(ilock(itable, e, p), e)
         /\ IF th[p].op = "create" /\ itable'[e].type = "FILE"
            THEN Opened(p, e, <<>>)
            ELSE UNCHANGED file /\ Return(p, <<e>>)
    /\ UNCHANGED <<dinode, dir, cwd, panicked>>

\* Lock the new inode too: set nlink, write "..", link it into the parent.
create_new(p) ==
    /\ At(p, "create_new")
    /\ LET e  == th[p].ip
           d  == th[p].dp
           i  == itable[e].inum
           di == itable[d].inum
           isdir == th[p].op = "mkdir"
           up == itable[d].nlink + (IF isdir THEN 1 ELSE 0)
       IN  /\ Lockable(itable, e)
           /\ itable' = [iunlock(ilock(itable, e, p), e) EXCEPT
                    ![e].nlink = 1, ![d].nlink = up, ![d].lock = None]
           /\ dinode' = [dinode EXCEPT ![i].nlink = 1, ![di].nlink = up]
           /\ dir' = [dir EXCEPT ![di][Head(th[p].path)] = i,
                                 ![i][DotDot] = IF isdir THEN di ELSE Nil]
           /\ IF isdir THEN UNCHANGED file /\ Return(p, <<d, e>>)
                       ELSE Opened(p, e, <<d>>)
    /\ UNCHANGED <<cwd, panicked>>
-----------------------------------------------------------------------------
(***************************************************************************)
(* unlink.                                                                 *)
(***************************************************************************)

\* Lock the parent and find the entry; the parent stays locked.
sys_unlink(p) ==
    /\ At(p, "unlink")
    /\ LET d    == th[p].ip
           T    == ilock(itable, d, p)
           name == Head(th[p].path)
           i    == dir[T[d].inum][name]
       IN  /\ Lockable(itable, d)
           /\ IF name = DotDot \/ i = Nil
              THEN /\ itable' = iunlock(T, d)
                   /\ Return(p, <<d>>)
                   /\ UNCHANGED <<dinode, dir, cwd, file, panicked>>
              ELSE IF SlotOf(T, i) = Nil THEN Panic("iget: no inodes")
              ELSE /\ itable' = iget(T, i)
                   /\ th' = [th EXCEPT ![p] = [th[p] EXCEPT
                        !.pc = "unlink_entry", !.dp = d, !.ip = SlotOf(T, i)]]
                   /\ UNCHANGED <<dinode, dir, cwd, file, panicked>>

isdirempty(i) == \A n \in Names : dir[i][n] = Nil

\* Mutant: no iput() of the directory that is not empty.
unlink_entry_LeaksIp(p) ==
    /\ At(p, "unlink_entry")
    /\ LET e  == th[p].ip
           d  == th[p].dp
           i  == itable[e].inum
           di == itable[d].inum
           L  == Loaded(itable, e)
           isdir == L.type = "DIR"
           up == itable[d].nlink - (IF isdir THEN 1 ELSE 0)
       IN  /\ Lockable(itable, e)
           /\ IF L.nlink < 1 THEN Panic("unlink: nlink < 1")
              ELSE IF isdir /\ ~isdirempty(i)
              THEN /\ itable' = iunlock(iunlock(ilock(itable, e, p), e), d)
                   /\ Return(p, <<d>>)
                   /\ UNCHANGED <<dinode, dir, cwd, file, panicked>>
              ELSE /\ itable' = [itable EXCEPT
                        ![e] = [L EXCEPT !.nlink = @ - 1],
                        ![d].nlink = up, ![d].lock = None]
                   /\ dinode' = [dinode EXCEPT ![i].nlink = L.nlink - 1, ![di].nlink = up]
                   /\ dir' = [dir EXCEPT ![di][Head(th[p].path)] = Nil]
                   /\ Return(p, <<d, e>>)
                   /\ UNCHANGED <<cwd, file, panicked>>

\* Mutant: dp->nlink-- for a file too.
unlink_entry_AnyType(p) ==
    /\ At(p, "unlink_entry")
    /\ LET e  == th[p].ip
           d  == th[p].dp
           i  == itable[e].inum
           di == itable[d].inum
           L  == Loaded(itable, e)
           isdir == L.type = "DIR"
           up == itable[d].nlink - 1
       IN  /\ Lockable(itable, e)
           /\ IF L.nlink < 1 THEN Panic("unlink: nlink < 1")
              ELSE IF isdir /\ ~isdirempty(i)
              THEN /\ itable' = iunlock(iunlock(ilock(itable, e, p), e), d)
                   /\ Return(p, <<e, d>>)
                   /\ UNCHANGED <<dinode, dir, cwd, file, panicked>>
              ELSE /\ itable' = [itable EXCEPT
                        ![e] = [L EXCEPT !.nlink = @ - 1],
                        ![d].nlink = up, ![d].lock = None]
                   /\ dinode' = [dinode EXCEPT ![i].nlink = L.nlink - 1, ![di].nlink = up]
                   /\ dir' = [dir EXCEPT ![di][Head(th[p].path)] = Nil]
                   /\ Return(p, <<d, e>>)
                   /\ UNCHANGED <<cwd, file, panicked>>

\* Lock the inode too, erase the entry, drop the links.
unlink_entry(p) ==
    /\ At(p, "unlink_entry")
    /\ LET e  == th[p].ip
           d  == th[p].dp
           i  == itable[e].inum
           di == itable[d].inum
           L  == Loaded(itable, e)
           isdir == L.type = "DIR"
           up == itable[d].nlink - (IF isdir THEN 1 ELSE 0)
       IN  /\ Lockable(itable, e)
           /\ IF L.nlink < 1 THEN Panic("unlink: nlink < 1")
              ELSE IF isdir /\ ~isdirempty(i)
              THEN /\ itable' = iunlock(iunlock(ilock(itable, e, p), e), d)
                   /\ Return(p, <<e, d>>)
                   /\ UNCHANGED <<dinode, dir, cwd, file, panicked>>
              ELSE /\ itable' = [itable EXCEPT
                        ![e] = [L EXCEPT !.nlink = @ - 1],
                        ![d].nlink = up, ![d].lock = None]
                   /\ dinode' = [dinode EXCEPT ![i].nlink = L.nlink - 1, ![di].nlink = up]
                   /\ dir' = [dir EXCEPT ![di][Head(th[p].path)] = Nil]
                   /\ Return(p, <<d, e>>)
                   /\ UNCHANGED <<cwd, file, panicked>>
-----------------------------------------------------------------------------
(***************************************************************************)
(* link.                                                                   *)
(***************************************************************************)

\* The inode with a changed link count, in memory and (iupdate) on disk.
SetNlink(e, k) ==
    /\ itable' = [itable EXCEPT ![e] = [Loaded(itable, e) EXCEPT !.nlink = k]]
    /\ dinode' = [dinode EXCEPT ![itable[e].inum].nlink = k]

\* Mutant: no nlink++.
sys_link_NoIncr(p) ==
    /\ At(p, "linkold")
    /\ LET e == th[p].ip
           L == Loaded(itable, e)
       IN  /\ Lockable(itable, e)
           /\ IF L.type = "DIR"
              THEN /\ itable' = [itable EXCEPT ![e] = L]
                   /\ Return(p, <<e>>)
                   /\ UNCHANGED <<dinode, dir, cwd, file, panicked>>
              ELSE /\ dinode' = [dinode EXCEPT ![L.inum].nlink = L.nlink]
                   /\ itable' = idup([itable EXCEPT ![e] = L], cwd[p])
                   /\ th' = [th EXCEPT ![p] = [Idle EXCEPT !.pc = "namex",
                        !.op = "linknew", !.path = th[p].new, !.keep = e, !.ip = cwd[p]]]
                   /\ UNCHANGED <<dir, cwd, file, panicked>>

\* nlink++ on the old inode, then look up the parent of the new path, which
\* is relative here.
sys_link(p) ==
    /\ At(p, "linkold")
    /\ LET e == th[p].ip
           L == Loaded(itable, e)
       IN  /\ Lockable(itable, e)
           /\ IF L.type = "DIR"
              THEN /\ itable' = [itable EXCEPT ![e] = L]
                   /\ Return(p, <<e>>)
                   /\ UNCHANGED <<dinode, dir, cwd, file, panicked>>
              ELSE /\ dinode' = [dinode EXCEPT ![L.inum].nlink = L.nlink + 1]
                   /\ itable' = idup([itable EXCEPT ![e] = [L EXCEPT !.nlink = @ + 1]], cwd[p])
                   /\ th' = [th EXCEPT ![p] = [Idle EXCEPT !.pc = "namex",
                        !.op = "linknew", !.path = th[p].new, !.keep = e, !.ip = cwd[p]]]
                   /\ UNCHANGED <<dir, cwd, file, panicked>>

\* dirlink() in the locked parent; if the name exists, dirlink() puts the
\* inode it found while the parent is still locked.
link_entry(p) ==
    /\ At(p, "linknew")
    /\ LET d    == th[p].ip
           T    == ilock(itable, d, p)
           name == Head(th[p].path)
           i    == dir[T[d].inum][name]
       IN  /\ Lockable(itable, d)
           /\ IF i # Nil
              THEN IF SlotOf(T, i) = Nil THEN Panic("iget: no inodes")
                   ELSE /\ itable' = iget(T, i)
                        /\ th' = [th EXCEPT ![p] = [th[p] EXCEPT !.pc = "link_exists",
                             !.ip = Nil, !.dp = d, !.puts = <<SlotOf(T, i)>>]]
                        /\ UNCHANGED <<dinode, dir, cwd, file, panicked>>
              ELSE /\ itable' = iunlock(T, d)
                   /\ dir' = [dir EXCEPT ![T[d].inum][name] = itable[th[p].keep].inum]
                   /\ Return(p, <<d, th[p].keep>>)
                   /\ UNCHANGED <<dinode, cwd, file, panicked>>

\* iunlockput(dp); goto bad.
link_exists(p) ==
    /\ At(p, "link_exists")
    /\ itable' = iunlock(itable, th[p].dp)
    /\ th' = [th EXCEPT ![p] = [th[p] EXCEPT !.pc = "link_bad", !.dp = Nil,
                                         !.puts = <<th[p].dp>>]]
    /\ UNCHANGED <<dinode, dir, cwd, file, panicked>>

\* bad: undo the nlink++.
link_bad(p) ==
    /\ At(p, "link_bad")
    /\ LET e == th[p].keep IN
         /\ Lockable(itable, e)
         /\ SetNlink(e, Loaded(itable, e).nlink - 1)
         /\ Return(p, <<e>>)
    /\ UNCHANGED <<dir, cwd, file, panicked>>
-----------------------------------------------------------------------------
\* A file system made by mkfs, with an empty root directory where every
\* process starts.
Init ==
    /\ dinode = [i \in Inums |-> IF i = ROOTINO THEN [type |-> "DIR", nlink |-> 1]
                                 ELSE [type |-> "free", nlink |-> 0]]
    /\ dir = [i \in Inums |-> IF i = ROOTINO THEN [NoEntries EXCEPT ![DotDot] = ROOTINO]
                              ELSE NoEntries]
    /\ itable = [e \in Slots |->
            IF e # 1 THEN Blank
            ELSE [inum |-> ROOTINO, ref |-> Cardinality(Procs), valid |-> TRUE,
                  type |-> "DIR", nlink |-> 1, lock |-> None]]
    /\ cwd = [p \in Procs |-> 1] /\ file = [p \in Procs |-> Nil]
    /\ th = [p \in Procs |-> Idle]
    /\ panicked = "no"

\* panic() prints and loops for ever.
Halted == panicked # "no" /\ UNCHANGED vars

Next ==
    \/ Halted
    \/ /\ panicked = "no"
       /\ \E p \in Procs :
            IF ilock_panics(p) THEN Panic("ilock: no type")
            ELSE \/ iput(p) \/ iput_free(p) \/ iput_dec(p)
                 \/ namex(p) \/ sys_open(p) \/ sys_chdir(p) \/ sys_close(p)
                 \/ create(p) \/ create_found(p) \/ create_new(p)
                 \/ sys_unlink(p) \/ unlink_entry(p)
                 \/ sys_link(p) \/ link_entry(p) \/ link_exists(p) \/ link_bad(p)
                 \/ \E abs \in BOOLEAN, path \in Paths, new \in Paths \cup {<<>>}, op \in Calls[p] :
                      call(p, op, abs, path, new)

Spec == Init /\ [][Next]_vars
-----------------------------------------------------------------------------
(***************************************************************************)
(* Properties.                                                             *)
(***************************************************************************)

\* iget() under itable.lock never makes two entries for one inode: their
\* locks would not exclude each other.
OneEntry ==
    \A e, f \in Slots :
        itable[e].ref > 0 /\ itable[f].ref > 0 /\ itable[e].inum = itable[f].inum => e = f

\* How many pointers to entry e the processes hold: current directories,
\* open files, variables of running calls, iput()s still to do.
Pointers(e) ==
    LET Holds == {x \in Procs \X {"ip", "dp", "keep"} : th[x[1]][x[2]] = e}
        Puts  == {x \in Procs \X (1..2) :
                    x[2] <= Len(th[x[1]].puts) /\ th[x[1]].puts[x[2]] = e}
    IN  Cardinality({p \in Procs : cwd[p] = e}) + Cardinality({p \in Procs : file[p] = e})
          + Cardinality(Holds) + Cardinality(Puts)

\* ip->ref counts the pointers to the entry, through every error path of the
\* system calls: none is leaked and none is dropped twice.
RefCount == \A e \in Slots : itable[e].ref = Pointers(e)

\* A valid in-memory inode agrees with the disk: every change of a field was
\* followed by iupdate(), also across ialloc() of an inode still in the table.
Coherent ==
    \A e \in Slots : itable[e].ref > 0 /\ itable[e].valid =>
        dinode[itable[e].inum] = [type |-> itable[e].type, nlink |-> itable[e].nlink]

\* What a process has open, or has as its current directory, stays allocated
\* after its last name is gone, until the last iput().
InUseAllocated ==
    \A p \in Procs : \A e \in {cwd[p], file[p]} \ {Nil} :
        dinode[itable[e].inum].type # "free"

\* The table of inodes: one entry per inode, exact reference counts, memory
\* and disk agree (iget, iput, ialloc, iupdate and all their callers).
TableInv == TypeOK /\ OneEntry /\ RefCount /\ Coherent

\* The directory entries that name inode i, and the subdirectories (ones
\* that still have a name) whose ".." is i.
Entries(i) == {x \in Inums \X Names : dir[x[1]][x[2]] = i}
Subdirs(i) == {d \in Inums \ {i} : Entries(d) # {} /\ dir[d][DotDot] = i}

\* nlink is never too small, in the middle of concurrent link, unlink and
\* create calls: no inode is freed while a name refers to it.
LinksCovered ==
    \A i \in Inums : dinode[i].nlink >= Cardinality(Entries(i)) + Cardinality(Subdirs(i))

\* What has a name or is in use stays allocated.
Kept == InUseAllocated /\ LinksCovered

\* iput() frees an inode only when nobody has it locked, so its
\* acquiresleep() under itable.lock does not block (fs.c:339-340), and
\* unlink() never meets an entry whose inode has no link.
NoBadPanic == panicked \notin {"sched locks", "unlink: nlink < 1"}

\* Every inode a path leads to is allocated (the assertion of ilock()).
NoFreeInode == panicked # "ilock: no type"
=============================================================================
