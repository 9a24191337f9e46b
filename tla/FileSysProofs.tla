--------------------------- MODULE FileSysProofs ---------------------------
(***************************************************************************)
(* Theorems about FileSys, for any number of processes, inodes, entries of *)
(* the inode table and names, and any paths without "..".                  *)
(***************************************************************************)
EXTENDS FileSys, FiniteSetTheorems, SequenceTheorems, WellFoundedInduction, TLAPS
-----------------------------------------------------------------------------
(***************************************************************************)
(* The inductive invariant.                                                *)
(***************************************************************************)

\* The paths of the calls do not use "..".  With it the theorems are false:
\* a removed directory keeps its "..", and the inode it leads to can be
\* freed (run FileSysDotDot).
NoUp == Paths \subseteq Seq(Names)

\* What a process that does not use ".." is doing.
ThreadType ==
    [pc : PC, op : Lookups \cup ParentLookups, path : Seq(Names), new : Seq(Names),
     ip : Slots \cup {Nil}, dp : Slots \cup {Nil}, keep : Slots \cup {Nil},
     puts : Seq(Slots), iput : {"test", "free", "dec"}]

\* The kinds of values; with paths of names only, which TypeOK does not say.
TypeInv ==
    /\ dinode \in [Inums -> [type : Types, nlink : Nat]]
    /\ dir \in [Inums -> [Names \cup {DotDot} -> Inums \cup {Nil}]]
    /\ itable \in [Slots -> [inum : Inums \cup {Nil}, ref : Nat, valid : BOOLEAN,
                             type : Types, nlink : Nat, lock : Procs \cup {None}]]
    /\ cwd \in [Procs -> Slots] /\ file \in [Procs -> Slots \cup {Nil}]
    /\ th \in [Procs -> ThreadType]

\* The pointers to entry e of a process with current directory c, open file
\* o and call t; Good: the ones whose inode iput() has not freed yet.
One(B) == IF B THEN 1 ELSE 0
Held(c, o, t, e) ==
    One(c = e) + One(o = e) + One(t.ip = e) + One(t.dp = e) + One(t.keep = e)
      + One(1 <= Len(t.puts) /\ t.puts[1] = e) + One(2 <= Len(t.puts) /\ t.puts[2] = e)
Good(c, o, t, e) ==
    \/ c = e \/ o = e \/ t.ip = e \/ t.dp = e \/ t.keep = e
    \/ 1 <= Len(t.puts) /\ t.iput # "dec" /\ t.puts[1] = e
    \/ 2 <= Len(t.puts) /\ t.puts[2] = e
N(p, e) == Held(cwd[p], file[p], th[p], e)
HasGood(p, e) == Good(cwd[p], file[p], th[p], e)

\* Process p may use entry e for inode i: it had a pointer, or the inode has
\* a name, or it is not allocated.
Reach(p, e, i) == HasGood(p, e) \/ dinode[i].nlink # 0 \/ dinode[i].type = "free"

\* The entries of table T are those of inodes, one each, that agree with D.
TabOK(T, D) ==
    /\ \A e \in Slots : T[e].ref > 0 => T[e].inum \in Inums
    /\ \A e, f \in Slots : T[e].ref > 0 /\ T[f].ref > 0 /\ T[e].inum = T[f].inum => e = f
    /\ \A e \in Slots : T[e].ref > 0 /\ T[e].valid =>
         /\ D[T[e].inum].type = T[e].type /\ D[T[e].inum].nlink = T[e].nlink
         /\ T[e].type # "free"

\* The locks a call t holds.
Freeing(t, e) == 1 <= Len(t.puts) /\ t.iput = "free" /\ t.puts[1] = e
Locks(t, e) == t.dp = e \/ Freeing(t, e)
LockInv == \A e \in Slots, q \in Procs : itable[e].lock = q <=> Locks(th[q], e)

\* What a call holds at each point of it.
Shape(t) ==
    /\ Len(t.puts) <= 2
    /\ t.puts = <<>> => t.iput = "test"
    /\ (t.keep # Nil) <=> (t.op = "linknew")
    /\ (t.dp # Nil) <=> (t.pc \in {"create_new", "unlink_entry", "link_exists"})
    /\ (t.ip # Nil) <=> (t.pc \notin {"idle", "link_exists", "link_bad"})
    /\ t.pc = "idle" => t.op # "linknew"
    /\ t.pc \in Lookups \cup ParentLookups => t.op = t.pc
    /\ t.pc \in {"create_found", "create_new"} => t.op \in {"create", "mkdir"}
    /\ t.pc = "unlink_entry" => t.op = "unlink"
    /\ t.pc \in {"link_exists", "link_bad"} => t.op = "linknew"
    /\ t.pc \in ParentLookups \cup {"create_new", "unlink_entry"} => t.path # <<>>
    /\ t.pc \in {"create_new", "unlink_entry"} => t.puts = <<>>

\* create() made inode i for entry e and has not linked it yet: nobody else
\* has the inode.
Fresh(q, e) ==
    LET i == itable[e].inum IN
    /\ dinode[i].nlink = 0 /\ dinode[i].type = NewType(q)
    /\ ~itable[e].valid
    /\ dir[i] = NoEntries
    /\ e # cwd[q] /\ e # file[q] /\ e # th[q].dp /\ e # th[q].keep
    /\ \A r \in Procs \ {q} : ~HasGood(r, e)

\* No inode is freed that a process still has to use.
Alloc(q) == \A e \in Slots : HasGood(q, e) => dinode[itable[e].inum].type # "free"

\* What a call has found out and must stay true until it acts on it.
Local(q) ==
    LET t == th[q] IN
    /\ t.pc \in ParentLookups => dinode[itable[t.ip].inum].type = "DIR"
    /\ t.dp # Nil => itable[t.dp].valid /\ dinode[itable[t.dp].inum].type = "DIR"
    /\ t.keep # Nil => dinode[itable[t.keep].inum].type = "FILE"
    /\ t.pc = "unlink_entry" =>
         dir[itable[t.dp].inum][Head(t.path)] = itable[t.ip].inum
    /\ t.pc = "create_new" =>
         dir[itable[t.dp].inum][Head(t.path)] = Nil /\ Fresh(q, t.ip)
    /\ \A e \in Slots : Freeing(t, e) =>
         itable[e].ref = 1 /\ itable[e].valid /\ itable[e].nlink = 0

\* All that is said of one process.
ThreadInv(q) == Shape(th[q]) /\ Alloc(q) /\ Local(q)

\* The calls of sys_link that have raised the link count of inode i and not
\* yet made the entry.
Pending(i) == {q \in Procs : th[q].keep # Nil /\ itable[th[q].keep].inum = i}

\* A directory has one name at most, in the directory its ".." leads to.
TreeInv ==
    \A i, x \in Inums : \A n \in Names : dir[x][n] = i /\ dinode[i].type = "DIR" =>
      /\ dir[i][DotDot] = x
      /\ \A m \in Names : dir[x][m] = i => m = n

\* nlink covers the entries, the subdirectories, the entries to be made and
\* the root, which has no entry.
LinkInv ==
    \A i \in Inums : dinode[i].nlink >=
      Cardinality(Entries(i)) + Cardinality(Subdirs(i)) + Cardinality(Pending(i))
        + (IF i = ROOTINO THEN 1 ELSE 0)

\* The disk as running calls see it.
DiskInv ==
    /\ \A i \in Inums : dinode[i].type = "free" => dinode[i].nlink = 0
    /\ \A i \in Inums : dinode[i].type # "DIR" => dir[i] = NoEntries
    /\ TreeInv /\ LinkInv

\* The panics that are impossible; the others are full tables.
PanicInv == panicked \notin {"sched locks", "unlink: nlink < 1", "ilock: no type"}

\* The inductive invariant.
FSInv ==
    /\ TypeInv
    /\ RefCount
    /\ TabOK(itable, dinode)
    /\ LockInv
    /\ \A q \in Procs : ThreadInv(q)
    /\ DiskInv
    /\ PanicInv
-----------------------------------------------------------------------------
(***************************************************************************)
(* Counting the pointers to an entry.                                      *)
(***************************************************************************)

\* The pointers of the processes in S to entry e.
Cwds(C, S, e) == {p \in S : C[p] = e}
Vars(H, S, e) == {x \in S \X {"ip", "dp", "keep"} : H[x[1]][x[2]] = e}
Puts(H, S, e) == {x \in S \X (1..2) : x[2] <= Len(H[x[1]].puts) /\ H[x[1]].puts[x[2]] = e}
Count(C, O, H, S, e) == Cardinality(Cwds(C, S, e)) + Cardinality(Cwds(O, S, e))
                          + Cardinality(Vars(H, S, e)) + Cardinality(Puts(H, S, e))

\* An element of a set counts one.
LEMMA CardSplit ==
  ASSUME NEW S, IsFiniteSet(S), NEW x, NEW T, T = S \ {x}
  PROVE  /\ IsFiniteSet(T) /\ Cardinality(T) \in Nat /\ Cardinality(S) \in Nat
         /\ Cardinality(S) = Cardinality(T) + One(x \in S)
<1>1. IsFiniteSet(T)
  BY FS_Subset, Zenon
<1>2. Cardinality(T) \in Nat /\ Cardinality(S) \in Nat
  BY <1>1, FS_CardinalityType, Zenon
<1>3. Cardinality(T) = IF x \in S THEN Cardinality(S) - 1 ELSE Cardinality(S)
  BY FS_RemoveElement, Zenon
<1>4. CASE x \in S
  BY <1>1, <1>2, <1>3, <1>4 DEF One
<1>5. CASE x \notin S
  <2>1. Cardinality(T) = Cardinality(S) /\ One(x \in S) = 0
    BY <1>3, <1>5 DEF One
  <2> QED
    BY <1>1, <1>2, <2>1
<1> QED
  BY <1>4, <1>5

\* The pointers of a process and those of the others.
LEMMA CountSplit ==
  ASSUME NEW C, NEW O, NEW H, NEW S, S \subseteq Procs, NEW p \in S, NEW e
  PROVE  /\ Count(C, O, H, S, e) = Count(C, O, H, S \ {p}, e) + Held(C[p], O[p], H[p], e)
         /\ Count(C, O, H, S, e) \in Nat /\ Count(C, O, H, S \ {p}, e) \in Nat
<1> DEFINE R == S \ {p}
           V1 == Vars(H, S, e) \ {<<p, "ip">>}
           V2 == V1 \ {<<p, "dp">>}
           V3 == V2 \ {<<p, "keep">>}
           P1 == Puts(H, S, e) \ {<<p, 1>>}
           P2 == P1 \ {<<p, 2>>}
<1>1. IsFiniteSet(S)
  BY FS_Subset, SizeAssumption, Zenon
<1>2. IsFiniteSet(S \X {"ip", "dp", "keep"})
  <2>1. IsFiniteSet({"ip", "dp", "keep"})
    <3>1. IsFiniteSet({"keep"})
      BY FS_Singleton, Zenon
    <3>2. IsFiniteSet({"keep"} \cup {"dp"})
      BY <3>1, FS_AddElement, Zenon
    <3>3. IsFiniteSet(({"keep"} \cup {"dp"}) \cup {"ip"})
      BY <3>2, FS_AddElement, Zenon
    <3>4. ({"keep"} \cup {"dp"}) \cup {"ip"} = {"ip", "dp", "keep"}
      BY Zenon
    <3> QED
      BY <3>3, <3>4, Zenon
  <2> QED
    BY <1>1, <2>1, FS_Product, Zenon
<1>3. IsFiniteSet(S \X (1..2))
  <2>1. 1 \in Int /\ 2 \in Int
    OBVIOUS
  <2>2. IsFiniteSet(1..2)
    BY <2>1, FS_Interval, Zenon
  <2> QED
    BY <1>1, <2>2, FS_Product, Zenon
<1>4. /\ IsFiniteSet(Cwds(C, S, e)) /\ IsFiniteSet(Cwds(O, S, e))
      /\ IsFiniteSet(Vars(H, S, e)) /\ IsFiniteSet(Puts(H, S, e))
  <2>1. /\ Cwds(C, S, e) \subseteq S /\ Cwds(O, S, e) \subseteq S
        /\ Vars(H, S, e) \subseteq S \X {"ip", "dp", "keep"} /\ Puts(H, S, e) \subseteq S \X (1..2)
    BY DEF Cwds, Vars, Puts
  <2> QED
    BY <1>1, <1>2, <1>3, <2>1, FS_Subset, Zenon
<1>5. Cwds(C, R, e) = Cwds(C, S, e) \ {p} /\ Cwds(O, R, e) = Cwds(O, S, e) \ {p}
  BY DEF Cwds
<1>6. Vars(H, R, e) = V3
  BY DEF Vars
<1>7. Puts(H, R, e) = P2
  BY DEF Puts
<1>8. /\ Cardinality(Cwds(C, S, e)) = Cardinality(Cwds(C, R, e)) + One(p \in Cwds(C, S, e))
      /\ Cardinality(Cwds(C, S, e)) \in Nat /\ Cardinality(Cwds(C, R, e)) \in Nat
  BY <1>4, <1>5, CardSplit, Zenon
<1>9. /\ Cardinality(Cwds(O, S, e)) = Cardinality(Cwds(O, R, e)) + One(p \in Cwds(O, S, e))
      /\ Cardinality(Cwds(O, S, e)) \in Nat /\ Cardinality(Cwds(O, R, e)) \in Nat
  BY <1>4, <1>5, CardSplit, Zenon
<1>10. /\ IsFiniteSet(V1) /\ Cardinality(V1) \in Nat /\ Cardinality(Vars(H, S, e)) \in Nat
       /\ Cardinality(Vars(H, S, e)) = Cardinality(V1) + One(<<p, "ip">> \in Vars(H, S, e))
  BY <1>4, CardSplit, Zenon
<1>11. /\ IsFiniteSet(V2) /\ Cardinality(V2) \in Nat
       /\ Cardinality(V1) = Cardinality(V2) + One(<<p, "dp">> \in V1)
  BY <1>10, CardSplit, Zenon
<1>12. /\ IsFiniteSet(V3) /\ Cardinality(V3) \in Nat
       /\ Cardinality(V2) = Cardinality(V3) + One(<<p, "keep">> \in V2)
  BY <1>11, CardSplit, Zenon
<1>13. /\ IsFiniteSet(P1) /\ Cardinality(P1) \in Nat /\ Cardinality(Puts(H, S, e)) \in Nat
       /\ Cardinality(Puts(H, S, e)) = Cardinality(P1) + One(<<p, 1>> \in Puts(H, S, e))
  BY <1>4, CardSplit, Zenon
<1>14. /\ IsFiniteSet(P2) /\ Cardinality(P2) \in Nat
       /\ Cardinality(P1) = Cardinality(P2) + One(<<p, 2>> \in P1)
  BY <1>13, CardSplit, Zenon
<1>15. /\ (p \in Cwds(C, S, e)) <=> (C[p] = e)
       /\ (p \in Cwds(O, S, e)) <=> (O[p] = e)
  BY DEF Cwds
<1>16. /\ (<<p, "ip">> \in Vars(H, S, e)) <=> (H[p].ip = e)
       /\ (<<p, "dp">> \in V1) <=> (H[p].dp = e)
       /\ (<<p, "keep">> \in V2) <=> (H[p].keep = e)
  BY DEF Vars
<1>17. /\ (<<p, 1>> \in Puts(H, S, e)) <=> (1 <= Len(H[p].puts) /\ H[p].puts[1] = e)
       /\ (<<p, 2>> \in P1) <=> (2 <= Len(H[p].puts) /\ H[p].puts[2] = e)
  BY DEF Puts
<1> HIDE DEF V1, V2, V3, P1, P2
<1>18. /\ Cardinality(Vars(H, S, e)) =
            Cardinality(Vars(H, R, e)) + One(H[p].ip = e) + One(H[p].dp = e) + One(H[p].keep = e)
       /\ Cardinality(Vars(H, R, e)) \in Nat
  BY <1>6, <1>10, <1>11, <1>12, <1>16 DEF One
<1>19. /\ Cardinality(Puts(H, S, e)) =
            Cardinality(Puts(H, R, e)) + One(1 <= Len(H[p].puts) /\ H[p].puts[1] = e)
              + One(2 <= Len(H[p].puts) /\ H[p].puts[2] = e)
       /\ Cardinality(Puts(H, R, e)) \in Nat
  BY <1>7, <1>13, <1>14, <1>17 DEF One
<1> DEFINE k1 == One(C[p] = e)
           k2 == One(O[p] = e)
           k3 == One(H[p].ip = e)
           k4 == One(H[p].dp = e)
           k5 == One(H[p].keep = e)
           k6 == One(1 <= Len(H[p].puts) /\ H[p].puts[1] = e)
           k7 == One(2 <= Len(H[p].puts) /\ H[p].puts[2] = e)
<1>20. /\ k1 \in Nat /\ k2 \in Nat /\ k3 \in Nat /\ k4 \in Nat /\ k5 \in Nat
       /\ k6 \in Nat /\ k7 \in Nat
  BY DEF One
<1>21. Held(C[p], O[p], H[p], e) = k1 + k2 + k3 + k4 + k5 + k6 + k7
  BY DEF Held
<1>22. One(p \in Cwds(C, S, e)) = k1 /\ One(p \in Cwds(O, S, e)) = k2
  BY <1>15 DEF One
<1>23. /\ Cardinality(Vars(H, S, e)) = Cardinality(Vars(H, R, e)) + k3 + k4 + k5
       /\ Cardinality(Puts(H, S, e)) = Cardinality(Puts(H, R, e)) + k6 + k7
  BY <1>18, <1>19
<1>24. /\ Cardinality(Cwds(C, S, e)) = Cardinality(Cwds(C, R, e)) + k1
       /\ Cardinality(Cwds(O, S, e)) = Cardinality(Cwds(O, R, e)) + k2
  BY <1>8, <1>9, <1>22
<1>25. /\ Cardinality(Cwds(C, R, e)) \in Nat /\ Cardinality(Cwds(O, R, e)) \in Nat
       /\ Cardinality(Vars(H, R, e)) \in Nat /\ Cardinality(Puts(H, R, e)) \in Nat
  BY <1>8, <1>9, <1>18, <1>19
<1> HIDE DEF R, k1, k2, k3, k4, k5, k6, k7
<1>26. /\ Count(C, O, H, S, e) = Count(C, O, H, R, e) + Held(C[p], O[p], H[p], e)
       /\ Count(C, O, H, S, e) \in Nat /\ Count(C, O, H, R, e) \in Nat
  BY <1>20, <1>21, <1>23, <1>24, <1>25 DEF Count
<1> QED
  BY <1>26 DEF R

\* Processes that do nothing keep their pointers.
LEMMA CountFrame ==
  ASSUME NEW S, \A q \in S : cwd'[q] = cwd[q] /\ file'[q] = file[q] /\ th'[q] = th[q], NEW e
  PROVE  Count(cwd', file', th', S, e) = Count(cwd, file, th, S, e)
<1>1. Cwds(cwd', S, e) = Cwds(cwd, S, e) /\ Cwds(file', S, e) = Cwds(file, S, e)
  BY DEF Cwds
<1>2. Vars(th', S, e) = Vars(th, S, e)
  BY DEF Vars
<1>3. Puts(th', S, e) = Puts(th, S, e)
  BY DEF Puts
<1> QED
  BY <1>1, <1>2, <1>3 DEF Count

\* The pointers are counted by a number; what counts and what does not.
LEMMA HeldFacts ==
  ASSUME NEW c, NEW o, NEW t, NEW e
  PROVE  /\ Held(c, o, t, e) \in Nat
         /\ Good(c, o, t, e) => Held(c, o, t, e) >= 1
         /\ Held(c, o, t, e) >= 1 /\ ~Good(c, o, t, e) =>
              1 <= Len(t.puts) /\ t.iput = "dec" /\ t.puts[1] = e
         /\ 1 <= Len(t.puts) /\ t.puts[1] = e => Held(c, o, t, e) >= 1
         /\ Locks(t, e) => Good(c, o, t, e)
         /\ t.dp = e /\ 1 <= Len(t.puts) /\ t.puts[1] = e => Held(c, o, t, e) >= 2
<1> DEFINE k1 == One(c = e)
           k2 == One(o = e)
           k3 == One(t.ip = e)
           k4 == One(t.dp = e)
           k5 == One(t.keep = e)
           k6 == One(1 <= Len(t.puts) /\ t.puts[1] = e)
           k7 == One(2 <= Len(t.puts) /\ t.puts[2] = e)
<1>1. /\ k1 \in Nat /\ k2 \in Nat /\ k3 \in Nat /\ k4 \in Nat /\ k5 \in Nat
      /\ k6 \in Nat /\ k7 \in Nat
  BY DEF One
<1>2. Held(c, o, t, e) = k1 + k2 + k3 + k4 + k5 + k6 + k7
  BY DEF Held
<1>3. /\ k1 >= 1 <=> c = e
      /\ k2 >= 1 <=> o = e
      /\ k3 >= 1 <=> t.ip = e
      /\ k4 >= 1 <=> t.dp = e
      /\ k5 >= 1 <=> t.keep = e
      /\ k6 >= 1 <=> 1 <= Len(t.puts) /\ t.puts[1] = e
      /\ k7 >= 1 <=> 2 <= Len(t.puts) /\ t.puts[2] = e
  BY DEF One
<1> HIDE DEF k1, k2, k3, k4, k5, k6, k7
<1>4. Good(c, o, t, e) <=>
        k1 >= 1 \/ k2 >= 1 \/ k3 >= 1 \/ k4 >= 1 \/ k5 >= 1 \/ k7 >= 1
          \/ (k6 >= 1 /\ t.iput # "dec")
  BY <1>3 DEF Good
<1>5. Held(c, o, t, e) \in Nat
  BY <1>1, <1>2
<1>6. Good(c, o, t, e) => Held(c, o, t, e) >= 1
  BY <1>1, <1>2, <1>4
<1>7. Held(c, o, t, e) >= 1 /\ ~Good(c, o, t, e) => k6 >= 1 /\ t.iput = "dec"
  BY <1>1, <1>2, <1>4
<1>8. /\ k6 >= 1 => Held(c, o, t, e) >= 1
      /\ k4 >= 1 /\ k6 >= 1 => Held(c, o, t, e) >= 2
  BY <1>1, <1>2
<1>9. Locks(t, e) => Good(c, o, t, e)
  BY DEF Locks, Freeing, Good
<1> QED
  BY <1>3, <1>5, <1>6, <1>7, <1>8, <1>9

\* The reference count covers the pointers of any two processes.
LEMMA RefCovers ==
  ASSUME RefCount, NEW e \in Slots, NEW p \in Procs
  PROVE  /\ N(p, e) \in Nat /\ itable[e].ref \in Nat /\ itable[e].ref >= N(p, e)
         /\ \A q \in Procs \ {p} : N(q, e) \in Nat /\ itable[e].ref >= N(p, e) + N(q, e)
<1>1. itable[e].ref = Count(cwd, file, th, Procs, e)
  BY DEF RefCount, Pointers, Count, Cwds, Vars, Puts
<1>2. \A q \in Procs : N(q, e) \in Nat
  BY HeldFacts DEF N
<1>3. /\ Count(cwd, file, th, Procs, e) = Count(cwd, file, th, Procs \ {p}, e) + N(p, e)
      /\ Count(cwd, file, th, Procs, e) \in Nat /\ Count(cwd, file, th, Procs \ {p}, e) \in Nat
  BY CountSplit DEF N
<1>4. ASSUME NEW q \in Procs \ {p}
      PROVE  /\ Count(cwd, file, th, Procs \ {p}, e) = Count(cwd, file, th, (Procs \ {p}) \ {q}, e) + N(q, e)
             /\ Count(cwd, file, th, (Procs \ {p}) \ {q}, e) \in Nat
  BY CountSplit DEF N
<1>5. N(p, e) \in Nat /\ itable[e].ref \in Nat /\ itable[e].ref >= N(p, e)
  BY <1>1, <1>2, <1>3
<1>6. ASSUME NEW q \in Procs \ {p}
      PROVE  N(q, e) \in Nat /\ itable[e].ref >= N(p, e) + N(q, e)
  <2>1. N(q, e) \in Nat
    BY <1>2
  <2> DEFINE r == Count(cwd, file, th, (Procs \ {p}) \ {q}, e)
             m == Count(cwd, file, th, Procs \ {p}, e)
  <2>2. m = r + N(q, e) /\ r \in Nat /\ m \in Nat /\ itable[e].ref = m + N(p, e)
    BY <1>1, <1>3, <1>4
  <2> HIDE DEF r, m
  <2> QED
    BY <1>5, <2>1, <2>2
<1> QED
  BY <1>5, <1>6
-----------------------------------------------------------------------------
(***************************************************************************)
(* What a step of one process leaves alone.                                *)
(***************************************************************************)

\* Another process has the pointers it had and is where it was.
Others(p) == \A q \in Procs \ {p} : cwd'[q] = cwd[q] /\ file'[q] = file[q] /\ th'[q] = th[q]

\* A reference is counted when a pointer is made and when it is dropped.
RefStep(p) == \A e \in Slots : itable'[e].ref = itable[e].ref + N(p, e)' - N(p, e)

\* An entry in use keeps its inode, and its contents if it is not p's.
TabStep(p) ==
    \A e \in Slots : itable[e].ref > 0 /\ itable'[e].ref > 0 =>
      /\ itable'[e].inum = itable[e].inum
      /\ itable'[e].valid = itable[e].valid \/ Reach(p, e, itable[e].inum)
      /\ itable[e].valid /\ itable[e].ref > N(p, e) => itable'[e].valid

\* The locks of the others stay theirs, and p has those its call says.
LockStep(p) ==
    \A e \in Slots :
      /\ \A q \in Procs \ {p} : itable'[e].lock = q <=> itable[e].lock = q
      /\ itable'[e].lock = p <=> Locks(th'[p], e)

\* On disk, p changes inodes it has a pointer to and inodes not allocated.
DiskStep(p) ==
    \A e \in Slots : itable[e].ref > 0 =>
      LET i == itable[e].inum IN
      /\ ~Reach(p, e, i) => dinode'[i] = dinode[i] /\ dir'[i] = dir[i]
      /\ itable[e].ref > N(p, e) /\ dinode[i].type # "free" => dinode'[i].type = dinode[i].type
      /\ itable[e].lock \in Procs \ {p} => dir'[i] = dir[i]

\* p gains a pointer only to an inode it may use.
GainStep(p) ==
    \A e \in Slots :
      /\ HasGood(p, e)' => Reach(p, e, itable'[e].inum)
      /\ N(p, e)' >= 1 /\ ~HasGood(p, e)' => N(p, e) >= 1

\* The reference counts stay exact.
LEMMA RefKept ==
  ASSUME RefCount, NEW p \in Procs, Others(p), RefStep(p)
  PROVE  RefCount'
<1> SUFFICES ASSUME NEW e \in Slots PROVE itable'[e].ref = Count(cwd', file', th', Procs, e)
  BY DEF RefCount, Pointers, Count, Cwds, Vars, Puts
<1> DEFINE R == Procs \ {p}
<1>1. itable[e].ref = Count(cwd, file, th, Procs, e)
  BY DEF RefCount, Pointers, Count, Cwds, Vars, Puts
<1>2. /\ Count(cwd, file, th, Procs, e) = Count(cwd, file, th, R, e) + N(p, e)
      /\ Count(cwd, file, th, Procs, e) \in Nat /\ Count(cwd, file, th, R, e) \in Nat
  BY CountSplit DEF N
<1>3. /\ Count(cwd', file', th', Procs, e) = Count(cwd', file', th', R, e) + N(p, e)'
      /\ Count(cwd', file', th', Procs, e) \in Nat /\ Count(cwd', file', th', R, e) \in Nat
  BY CountSplit DEF N
<1>4. Count(cwd', file', th', R, e) = Count(cwd, file, th, R, e)
  BY CountFrame DEF Others
<1>5. N(p, e) \in Nat /\ N(p, e)' \in Nat
  BY HeldFacts DEF N
<1>6. itable'[e].ref = itable[e].ref + N(p, e)' - N(p, e)
  BY DEF RefStep
<1> HIDE DEF R
<1> QED
  BY <1>1, <1>2, <1>3, <1>4, <1>5, <1>6

\* A pointer of another process.
LEMMA OthersPointer ==
  ASSUME FSInv, NEW p \in Procs, Others(p), RefStep(p), TabStep(p), DiskStep(p),
         NEW q \in Procs \ {p}, NEW e \in Slots, HasGood(q, e)
  PROVE  /\ itable[e].ref > N(p, e) /\ itable[e].ref > 0 /\ itable'[e].ref > 0
         /\ itable'[e].inum = itable[e].inum /\ itable[e].inum \in Inums
         /\ dinode[itable[e].inum].type # "free"
         /\ dinode'[itable[e].inum].type = dinode[itable[e].inum].type
         /\ itable[e].valid => itable'[e].valid
<1>1. /\ N(p, e) \in Nat /\ itable[e].ref \in Nat
      /\ N(q, e) \in Nat /\ itable[e].ref >= N(p, e) + N(q, e)
  BY RefCovers DEF FSInv
<1>2. N(q, e) >= 1
  BY HeldFacts DEF N, HasGood
<1>3. N(p, e)' \in Nat
  BY HeldFacts DEF N
<1>4. itable'[e].ref = itable[e].ref + N(p, e)' - N(p, e)
  BY DEF RefStep
<1>5. itable[e].ref > N(p, e) /\ itable[e].ref > 0 /\ itable'[e].ref > 0
  BY <1>1, <1>2, <1>3, <1>4
<1>6. dinode[itable[e].inum].type # "free" /\ itable[e].inum \in Inums
  BY <1>5 DEF FSInv, ThreadInv, Alloc, Local, TabOK
<1> QED
  BY <1>5, <1>6 DEF TabStep, DiskStep

\* Another process cannot gain a pointer to an inode without names: one that
\* create() has just made, or one that iput() is freeing.
LEMMA OthersGain ==
  ASSUME NEW p \in Procs, GainStep(p), TabStep(p), NEW e \in Slots, ~HasGood(p, e),
         itable[e].ref > 0, itable'[e].ref > 0,
         dinode[itable[e].inum].nlink = 0, dinode[itable[e].inum].type # "free"
  PROVE  /\ ~HasGood(p, e)' /\ ~Reach(p, e, itable[e].inum)
         /\ itable'[e].valid = itable[e].valid
<1>1. ~Reach(p, e, itable[e].inum)
  BY DEF Reach
<1>2. itable'[e].inum = itable[e].inum
  BY DEF TabStep
<1> QED
  BY <1>1, <1>2 DEF TabStep, GainStep

\* What a process knows stays true when another one takes a step.
LEMMA OthersKept ==
  ASSUME FSInv, NEW p \in Procs, Others(p), RefStep(p), TabStep(p), LockStep(p), DiskStep(p),
         GainStep(p), TabOK(itable', dinode'), NEW q \in Procs \ {p}
  PROVE  ThreadInv(q)'
<1> DEFINE t == th[q]
<1>1. cwd'[q] = cwd[q] /\ file'[q] = file[q] /\ th'[q] = t
  BY DEF Others
<1>2. \A e : HasGood(q, e)' <=> HasGood(q, e)
  BY <1>1 DEF HasGood
<1>3. ThreadInv(q) /\ t \in ThreadType
  BY DEF FSInv, TypeInv
<1>4. \A e \in Slots : HasGood(q, e) =>
         /\ itable[e].ref > N(p, e) /\ itable[e].ref > 0 /\ itable'[e].ref > 0
         /\ itable'[e].inum = itable[e].inum /\ itable[e].inum \in Inums
         /\ dinode[itable[e].inum].type # "free"
         /\ dinode'[itable[e].inum].type = dinode[itable[e].inum].type
         /\ itable[e].valid => itable'[e].valid
  BY OthersPointer
<1>5. Shape(th'[q])
  BY <1>1, <1>3 DEF ThreadInv, Alloc, Local
<1>6. \A e \in Slots : HasGood(q, e)' => dinode'[itable'[e].inum].type # "free"
  BY <1>2, <1>4
<1>7. /\ t.ip # Nil => t.ip \in Slots /\ HasGood(q, t.ip)
      /\ t.dp # Nil => t.dp \in Slots /\ HasGood(q, t.dp)
      /\ t.keep # Nil => t.keep \in Slots /\ HasGood(q, t.keep)
  BY <1>3 DEF ThreadType, HasGood, Good
<1>8. th'[q].pc \in ParentLookups => dinode'[itable'[th'[q].ip].inum].type = "DIR"
  <2>1. t.pc \in ParentLookups => t.ip # Nil
    BY <1>3 DEF ThreadInv, Alloc, Local, Shape, ParentLookups
  <2> QED
    BY <1>1, <1>3, <1>4, <1>7, <2>1 DEF ThreadInv, Alloc, Local
<1>9. th'[q].dp # Nil => itable'[th'[q].dp].valid /\ dinode'[itable'[th'[q].dp].inum].type = "DIR"
  BY <1>1, <1>3, <1>4, <1>7 DEF ThreadInv, Alloc, Local
<1>10. th'[q].keep # Nil => dinode'[itable'[th'[q].keep].inum].type = "FILE"
  BY <1>1, <1>3, <1>4, <1>7 DEF ThreadInv, Alloc, Local
<1>11. t.dp # Nil => dir'[itable[t.dp].inum] = dir[itable[t.dp].inum]
  <2>1. t.dp # Nil => itable[t.dp].lock = q
    BY <1>7 DEF FSInv, LockInv, Locks
  <2> QED
    BY <1>4, <1>7, <2>1 DEF DiskStep
<1>12. t.pc \in {"unlink_entry", "create_new"} => t.dp # Nil /\ t.ip # Nil
  BY <1>3 DEF ThreadInv, Alloc, Local, Shape
<1>13. ASSUME t.pc = "unlink_entry"
       PROVE  dir'[itable'[t.dp].inum][Head(t.path)] = itable'[t.ip].inum
  <2>1. itable'[t.dp].inum = itable[t.dp].inum /\ itable'[t.ip].inum = itable[t.ip].inum
    BY <1>4, <1>7, <1>12, <1>13
  <2>2. dir[itable[t.dp].inum][Head(t.path)] = itable[t.ip].inum
    BY <1>3, <1>13 DEF ThreadInv, Alloc, Local
  <2> QED
    BY <1>11, <1>12, <1>13, <2>1, <2>2
<1>14. ASSUME t.pc = "create_new"
       PROVE  dir'[itable'[t.dp].inum][Head(t.path)] = Nil
  <2>1. itable'[t.dp].inum = itable[t.dp].inum
    BY <1>4, <1>7, <1>12, <1>14
  <2>2. dir[itable[t.dp].inum][Head(t.path)] = Nil
    BY <1>3, <1>14 DEF ThreadInv, Alloc, Local
  <2> QED
    BY <1>11, <1>12, <1>14, <2>1, <2>2
<1>15. ASSUME t.pc = "create_new", NEW e, e = t.ip PROVE Fresh(q, e)'
  <2> DEFINE i == itable[e].inum
  <2>1. Fresh(q, e) /\ e \in Slots /\ HasGood(q, e)
    BY <1>3, <1>7, <1>12, <1>15 DEF ThreadInv, Alloc, Local
  <2>2. /\ itable[e].ref > 0 /\ itable'[e].ref > 0 /\ itable'[e].inum = i
        /\ dinode[i].type # "free"
    BY <1>4, <2>1
  <2>3. dinode[i].nlink = 0 /\ ~HasGood(p, e)
    BY <2>1 DEF Fresh
  <2>4. /\ ~HasGood(p, e)' /\ ~Reach(p, e, i)
        /\ itable'[e].valid = itable[e].valid
    BY <2>1, <2>2, <2>3, OthersGain
  <2>5. dinode'[i] = dinode[i] /\ dir'[i] = dir[i]
    BY <2>1, <2>2, <2>4 DEF DiskStep
  <2>6. NewType(q)' = NewType(q)
    BY <1>1 DEF NewType
  <2>7. ASSUME NEW r \in Procs \ {q} PROVE ~HasGood(r, e)'
    <3>1. CASE r = p
      BY <2>4, <3>1
    <3>2. CASE r # p
      <4>1. HasGood(r, e)' <=> HasGood(r, e)
        BY <3>2 DEF HasGood, Others
      <4> QED
        BY <2>1, <4>1 DEF Fresh
    <3> QED
      BY <3>1, <3>2
  <2> QED
    BY <1>1, <2>1, <2>2, <2>4, <2>5, <2>6, <2>7 DEF Fresh
<1>16. ASSUME NEW e \in Slots, Freeing(t, e)
       PROVE  itable'[e].ref = 1 /\ itable'[e].valid /\ itable'[e].nlink = 0
  <2> DEFINE i == itable[e].inum
  <2>1. HasGood(q, e) /\ N(q, e) >= 1
    BY <1>16, HeldFacts DEF Locks, HasGood, N
  <2>2. itable[e].ref = 1 /\ itable[e].valid /\ itable[e].nlink = 0
    BY <1>3, <1>16 DEF ThreadInv, Alloc, Local
  <2>3. N(p, e) = 0
    <3>1. /\ N(p, e) \in Nat /\ N(q, e) \in Nat
          /\ itable[e].ref >= N(p, e) + N(q, e)
      BY RefCovers DEF FSInv
    <3> QED
      BY <2>1, <2>2, <3>1
  <2>4. ~HasGood(p, e)
    BY <2>3, HeldFacts DEF N, HasGood
  <2>5. /\ itable[e].ref > 0 /\ itable'[e].ref > 0 /\ itable'[e].inum = i
        /\ dinode[i].type # "free" /\ itable'[e].valid
    BY <1>4, <2>1, <2>2
  <2>6. dinode[i].nlink = 0
    BY <2>2, <2>5 DEF FSInv, TabOK
  <2>7. ~HasGood(p, e)' /\ ~Reach(p, e, i)
    BY <2>4, <2>5, <2>6, OthersGain
  <2>8. N(p, e)' = 0
    <3>1. N(p, e)' \in Nat
      BY HeldFacts DEF N
    <3>2. ~(N(p, e)' >= 1)
      BY <2>3, <2>7 DEF GainStep
    <3> QED
      BY <3>1, <3>2
  <2>9. itable'[e].ref = 1
    BY <2>2, <2>3, <2>8 DEF RefStep
  <2>10. dinode'[i].nlink = 0
    BY <2>5, <2>6, <2>7 DEF DiskStep
  <2>11. itable'[e].nlink = 0
    BY <2>5, <2>10 DEF TabOK
  <2> QED
    BY <2>5, <2>9, <2>11
<1> QED
  BY <1>1, <1>5, <1>6, <1>8, <1>9, <1>10, <1>13, <1>14, <1>15, <1>16 DEF ThreadInv, Alloc, Local

\* The locks stay with the processes that hold them.
LEMMA LocksKept ==
  ASSUME FSInv, NEW p \in Procs, Others(p), LockStep(p)
  PROVE  LockInv'
<1> SUFFICES ASSUME NEW e \in Slots, NEW q \in Procs
             PROVE  itable'[e].lock = q <=> Locks(th'[q], e)
  BY DEF LockInv
<1>1. CASE q = p
  BY <1>1 DEF LockStep
<1>2. CASE q # p
  BY <1>2 DEF LockStep, Others, FSInv, LockInv
<1> QED
  BY <1>1, <1>2

\* A step of p keeps the invariant if it does so for p, the table and the
\* disk, and leaves the rest alone.
LEMMA StepKept ==
  ASSUME FSInv, NEW p \in Procs, TypeInv', Others(p), RefStep(p), TabStep(p), LockStep(p),
         DiskStep(p), GainStep(p), TabOK(itable', dinode'), ThreadInv(p)', DiskInv', PanicInv'
  PROVE  FSInv'
<1>1. RefCount'
  BY RefKept DEF FSInv
<1>2. LockInv'
  BY LocksKept
<1>3. ASSUME NEW q \in Procs PROVE ThreadInv(q)'
  <2>1. CASE q = p
    BY <2>1
  <2>2. CASE q # p
    BY <2>2, OthersKept
  <2> QED
    BY <2>1, <2>2
<1> QED
  BY <1>1, <1>2, <1>3 DEF FSInv
-----------------------------------------------------------------------------
(***************************************************************************)
(* The operations on the inode table.                                      *)
(***************************************************************************)

\* An in-memory inode.
Entry == [inum : Inums \cup {Nil}, ref : Nat, valid : BOOLEAN, type : Types, nlink : Nat,
          lock : Procs \cup {None}]

\* First() finds an element of a set of entries or of inodes.
LEMMA FirstIn ==
  ASSUME NEW S, S \subseteq Nat, S # {}
  PROVE  First(S) \in S
<1> DEFINE R == OpToRel(<, Nat)
<1>1. IsWellFoundedOn(R, Nat)
  BY NatLessThanWellFounded
<1>2. \A a, b \in Nat : a < b => <<a, b>> \in R
  BY DEF OpToRel
<1> HIDE DEF R
<1>3. PICK x \in S : \A y \in S : ~(<<y, x>> \in R)
  BY <1>1, WFMin, Zenon
<1>4. ASSUME NEW y \in S PROVE x <= y
  <2>1. x \in Nat /\ y \in Nat /\ <<y, x>> \notin R
    BY <1>3
  <2>2. ~(y < x)
    BY <1>2, <2>1, Zenon
  <2> QED
    BY <2>1, <2>2
<1> QED
  BY <1>3, <1>4 DEF First

\* U is T with a change of entry e, for the same inode and in agreement with D.
Changed(T, U, e, D) ==
    /\ \A f \in Slots \ {e} : U[f] = T[f]
    /\ U[e].ref > 0 => T[e].ref > 0 /\ U[e].inum = T[e].inum
    /\ U[e].ref > 0 /\ U[e].valid =>
         /\ D[U[e].inum].type = U[e].type /\ D[U[e].inum].nlink = U[e].nlink
         /\ U[e].type # "free"

\* A table with one entry changed in such a way still fits the disk.
LEMMA TabOne ==
  ASSUME NEW T, NEW U, NEW D, TabOK(T, D), NEW e \in Slots, Changed(T, U, e, D)
  PROVE  TabOK(U, D)
<1>1. \A f \in Slots : U[f].ref > 0 => T[f].ref > 0 /\ U[f].inum = T[f].inum
  BY DEF Changed
<1>2. \A f \in Slots : U[f].ref > 0 => U[f].inum \in Inums
  BY <1>1 DEF TabOK
<1>3. \A f, g \in Slots : U[f].ref > 0 /\ U[g].ref > 0 /\ U[f].inum = U[g].inum => f = g
  BY <1>1 DEF TabOK
<1>4. \A f \in Slots : U[f].ref > 0 /\ U[f].valid =>
        /\ D[U[f].inum].type = U[f].type /\ D[U[f].inum].nlink = U[f].nlink
        /\ U[f].type # "free"
  BY DEF TabOK, Changed
<1> QED
  BY <1>2, <1>3, <1>4 DEF TabOK

\* The entry of inode i, or a free one.
LEMMA SlotFacts ==
  ASSUME NEW T \in [Slots -> Entry], NEW i, SlotOf(T, i) # Nil
  PROVE  /\ SlotOf(T, i) \in Slots
         /\ Has(T, i) # {} => T[SlotOf(T, i)].ref > 0 /\ T[SlotOf(T, i)].inum = i
         /\ Has(T, i) = {} => T[SlotOf(T, i)].ref = 0
<1>1. Slots \subseteq Nat
  BY SizeAssumption DEF Slots
<1>2. CASE Has(T, i) # {}
  <2>1. SlotOf(T, i) \in Has(T, i)
    <3>1. Has(T, i) \subseteq Nat
      BY <1>1 DEF Has
    <3> QED
      BY <1>2, <3>1, FirstIn DEF SlotOf
  <2> QED
    BY <1>2, <2>1 DEF Has
<1>3. CASE Has(T, i) = {}
  <2>1. SlotOf(T, i) = First(Free(T))
    BY <1>3 DEF SlotOf
  <2>2. Free(T) # {}
    BY <2>1 DEF First
  <2>3. Free(T) \subseteq Nat
    BY <1>1 DEF Free
  <2>4. SlotOf(T, i) \in Free(T)
    BY <2>1, <2>2, <2>3, FirstIn
  <2> QED
    BY <1>3, <2>4 DEF Free
<1> QED
  BY <1>2, <1>3

\* iget() adds a reference to the one entry of inode i.
LEMMA IgetFacts ==
  ASSUME NEW T \in [Slots -> Entry], NEW D, TabOK(T, D), NEW i \in Inums,
         NEW e, e = SlotOf(T, i), e # Nil, NEW U, U = iget(T, i)
  PROVE  /\ U \in [Slots -> Entry] /\ e \in Slots
         /\ TabOK(U, D)
         /\ U[e].inum = i /\ U[e].ref = T[e].ref + 1 /\ U[e].lock = T[e].lock
         /\ T[e].ref > 0 => T[e].inum = i /\ U[e].valid = T[e].valid
         /\ \A f \in Slots \ {e} : U[f] = T[f]
<1>1. /\ e \in Slots
      /\ Has(T, i) # {} => T[e].ref > 0 /\ T[e].inum = i
      /\ Has(T, i) = {} => T[e].ref = 0
  BY SlotFacts
<1>2. T[e] \in Entry
  BY <1>1
<1>3. \A f \in Slots \ {e} : U[f] = T[f]
  BY <1>1 DEF iget
<1>4. CASE Has(T, i) # {}
  <2>1. U = [T EXCEPT ![e] = [T[e] EXCEPT !.ref = T[e].ref + 1]]
    BY <1>4 DEF iget
  <2>2. U[e] = [T[e] EXCEPT !.ref = T[e].ref + 1]
    BY <1>1, <2>1
  <2>3. /\ U[e] \in Entry /\ U[e].inum = i /\ U[e].ref = T[e].ref + 1 /\ U[e].lock = T[e].lock
        /\ U[e].valid = T[e].valid /\ U[e].type = T[e].type /\ U[e].nlink = T[e].nlink
    BY <1>1, <1>2, <1>4, <2>2 DEF Entry
  <2>4. U \in [Slots -> Entry]
    BY <1>1, <2>1, <2>2, <2>3
  <2>5. TabOK(U, D)
    <3>1. T[e].ref > 0 /\ T[e].inum = i
      BY <1>1, <1>4
    <3> QED
      <4>1. Changed(T, U, e, D)
        BY <1>1, <1>3, <2>3, <3>1 DEF Changed, TabOK
      <4> QED
        BY <1>1, <4>1, TabOne
  <2> QED
    BY <1>1, <1>3, <1>4, <2>3, <2>4, <2>5
<1>5. CASE Has(T, i) = {}
  <2>1. U = [T EXCEPT ![e] = [T[e] EXCEPT !.inum = i, !.ref = 1, !.valid = FALSE]]
    BY <1>5 DEF iget
  <2>2. U[e] = [T[e] EXCEPT !.inum = i, !.ref = 1, !.valid = FALSE]
    BY <1>1, <2>1
  <2>3. /\ U[e] \in Entry /\ U[e].inum = i /\ U[e].ref = 1 /\ U[e].lock = T[e].lock
        /\ U[e].valid = FALSE
    <3>1. U[e].inum = i /\ U[e].ref = 1 /\ U[e].valid = FALSE /\ U[e].lock = T[e].lock
      BY <1>2, <2>2 DEF Entry
    <3>2. U[e] \in Entry
      <4>1. U[e] = [inum |-> i, ref |-> 1, valid |-> FALSE, type |-> T[e].type,
                    nlink |-> T[e].nlink, lock |-> T[e].lock]
        BY <1>2, <2>2 DEF Entry
      <4>2. T[e].type \in Types /\ T[e].nlink \in Nat /\ T[e].lock \in Procs \cup {None}
        BY <1>2 DEF Entry
      <4> QED
        BY <4>1, <4>2 DEF Entry
    <3> QED
      BY <3>1, <3>2
  <2>4. U \in [Slots -> Entry]
    BY <1>1, <2>1, <2>2, <2>3
  <2>5. \A f \in Slots : T[f].ref > 0 => T[f].inum # i
    BY <1>5 DEF Has
  <2>6. TabOK(U, D)
    <3>1. \A f \in Slots : U[f].ref > 0 => U[f].inum \in Inums
      BY <1>3, <2>3 DEF TabOK
    <3>2. \A f, g \in Slots : U[f].ref > 0 /\ U[g].ref > 0 /\ U[f].inum = U[g].inum => f = g
      BY <1>3, <2>3, <2>5 DEF TabOK
    <3>3. \A f \in Slots : U[f].ref > 0 /\ U[f].valid =>
            /\ D[U[f].inum].type = U[f].type /\ D[U[f].inum].nlink = U[f].nlink
            /\ U[f].type # "free"
      BY <1>3, <2>3 DEF TabOK
    <3> QED
      BY <3>1, <3>2, <3>3 DEF TabOK
  <2> QED
    BY <1>1, <1>3, <1>5, <2>3, <2>4, <2>6
<1> QED
  BY <1>4, <1>5

\* idup() adds a reference to an entry in use.
LEMMA IdupFacts ==
  ASSUME NEW T \in [Slots -> Entry], NEW D, TabOK(T, D), NEW e \in Slots, T[e].ref > 0,
         NEW U, U = idup(T, e)
  PROVE  /\ U \in [Slots -> Entry] /\ TabOK(U, D)
         /\ U[e].inum = T[e].inum /\ U[e].ref = T[e].ref + 1 /\ U[e].lock = T[e].lock
         /\ U[e].valid = T[e].valid
         /\ \A f \in Slots \ {e} : U[f] = T[f]
<1>1. T[e] \in Entry
  OBVIOUS
<1>2. U = [T EXCEPT ![e] = [T[e] EXCEPT !.ref = T[e].ref + 1]]
  BY DEF idup
<1>3. U[e] = [T[e] EXCEPT !.ref = T[e].ref + 1] /\ \A f \in Slots \ {e} : U[f] = T[f]
  BY <1>2
<1>4. /\ U[e] \in Entry /\ U[e].inum = T[e].inum /\ U[e].ref = T[e].ref + 1
      /\ U[e].lock = T[e].lock
      /\ U[e].valid = T[e].valid /\ U[e].type = T[e].type /\ U[e].nlink = T[e].nlink
  BY <1>1, <1>3 DEF Entry
<1>5. U \in [Slots -> Entry]
  BY <1>2, <1>3, <1>4
<1>6. TabOK(U, D)
  <2>1. Changed(T, U, e, D)
    BY <1>3, <1>4 DEF Changed, TabOK
  <2> QED
    BY <2>1, TabOne
<1> QED
  BY <1>3, <1>4, <1>5, <1>6

\* ilock() fills in an entry in use whose inode is allocated.
LEMMA IlockFacts ==
  ASSUME NEW T \in [Slots -> Entry], dinode \in [Inums -> [type : Types, nlink : Nat]],
         TabOK(T, dinode), NEW e \in Slots, T[e].ref > 0,
         dinode[T[e].inum].type # "free", NEW h \in Procs \cup {None},
         NEW U, U = ilock(T, e, h)
  PROVE  /\ U \in [Slots -> Entry] /\ TabOK(U, dinode)
         /\ U[e].inum = T[e].inum /\ U[e].ref = T[e].ref /\ U[e].lock = h /\ U[e].valid
         /\ U[e].type = dinode[T[e].inum].type /\ U[e].nlink = dinode[T[e].inum].nlink
         /\ \A f \in Slots \ {e} : U[f] = T[f]
         /\ Loaded(T, e).type = U[e].type /\ Loaded(T, e).nlink = U[e].nlink
<1>1. T[e] \in Entry /\ T[e].inum \in Inums
  BY DEF TabOK
<1>2. dinode[T[e].inum] \in [type : Types, nlink : Nat]
  BY <1>1
<1>3. /\ Loaded(T, e) \in Entry /\ Loaded(T, e).inum = T[e].inum
      /\ Loaded(T, e).ref = T[e].ref /\ Loaded(T, e).valid
      /\ Loaded(T, e).type = dinode[T[e].inum].type /\ Loaded(T, e).nlink = dinode[T[e].inum].nlink
  <2>1. CASE T[e].valid
    BY <1>1, <2>1 DEF Loaded, TabOK, Entry
  <2>2. CASE ~T[e].valid
    BY <1>1, <1>2, <2>2 DEF Loaded, Entry
  <2> QED
    BY <2>1, <2>2
<1>4. U[e] = [Loaded(T, e) EXCEPT !.lock = h] /\ \A f \in Slots \ {e} : U[f] = T[f]
  BY DEF ilock
<1>5. /\ U[e] \in Entry /\ U[e].inum = T[e].inum /\ U[e].ref = T[e].ref /\ U[e].lock = h
      /\ U[e].valid
      /\ U[e].type = dinode[T[e].inum].type /\ U[e].nlink = dinode[T[e].inum].nlink
  BY <1>3, <1>4 DEF Entry
<1>6. U \in [Slots -> Entry]
  BY <1>4, <1>5 DEF ilock
<1>7. TabOK(U, dinode)
  <2>1. U[e].ref > 0 => T[e].ref > 0 /\ U[e].inum = T[e].inum
    BY <1>5
  <2>2. U[e].ref > 0 /\ U[e].valid =>
           /\ dinode[U[e].inum].type = U[e].type /\ dinode[U[e].inum].nlink = U[e].nlink
           /\ U[e].type # "free"
    BY <1>5
  <2> QED
    <3>1. Changed(T, U, e, dinode)
      BY <1>4, <2>1, <2>2 DEF Changed
    <3> QED
      BY <3>1, TabOne
<1> QED
  BY <1>3, <1>4, <1>5, <1>6, <1>7

\* ip->ref-- frees an entry with its last reference.
LEMMA DecrefFacts ==
  ASSUME NEW T \in [Slots -> Entry], NEW D, TabOK(T, D), NEW e \in Slots, T[e].ref > 0,
         NEW U, U = Decref(T, e)
  PROVE  /\ U \in [Slots -> Entry] /\ TabOK(U, D)
         /\ U[e].ref = T[e].ref - 1 /\ U[e].lock = T[e].lock
         /\ U[e].ref > 0 => U[e].inum = T[e].inum /\ U[e].valid = T[e].valid
         /\ \A f \in Slots \ {e} : U[f] = T[f]
<1>1. T[e] \in Entry
  OBVIOUS
<1>2. \A f \in Slots \ {e} : U[f] = T[f]
  BY DEF Decref
<1>a. U = [T EXCEPT ![e] = U[e]]
  BY DEF Decref
<1>3. CASE T[e].ref = 1
  <2>1. U[e] = [Blank EXCEPT !.lock = T[e].lock]
    BY <1>3 DEF Decref
  <2>2. U[e] = [inum |-> Nil, ref |-> 0, valid |-> FALSE, type |-> "free", nlink |-> 0,
                lock |-> T[e].lock]
    BY <2>1 DEF Blank
  <2>a. T[e].lock \in Procs \cup {None}
    BY <1>1 DEF Entry
  <2>b. U[e] \in Entry
    BY <2>2, <2>a DEF Entry, Types
  <2>c. U[e].ref = 0 /\ U[e].lock = T[e].lock
    BY <2>2
  <2>3. U \in [Slots -> Entry]
    BY <1>a, <2>b
  <2>4. TabOK(U, D)
    <3>1. Changed(T, U, e, D)
      BY <1>2, <2>c DEF Changed
    <3> QED
      BY <3>1, TabOne
  <2> QED
    BY <1>2, <1>3, <2>c, <2>3, <2>4
<1>4. CASE T[e].ref # 1
  <2>1. U[e] = [T[e] EXCEPT !.ref = T[e].ref - 1]
    <3> DEFINE x == [Blank EXCEPT !.lock = T[e].lock]
               y == [T[e] EXCEPT !.ref = T[e].ref - 1]
               z == IF T[e].ref = 1 THEN x ELSE y
    <3>1. U = [T EXCEPT ![e] = z]
      BY DEF Decref
    <3> HIDE DEF x, y
    <3>2. z = y
      BY <1>4
    <3> HIDE DEF z
    <3>3. U[e] = z
      BY <3>1
    <3> QED
      BY <3>2, <3>3 DEF y
  <2>2. T[e].ref - 1 \in Nat
    BY <1>1 DEF Entry
  <2>3. /\ U[e] \in Entry /\ U[e].ref = T[e].ref - 1 /\ U[e].lock = T[e].lock
        /\ U[e].inum = T[e].inum /\ U[e].valid = T[e].valid /\ U[e].type = T[e].type
        /\ U[e].nlink = T[e].nlink
    BY <1>1, <2>1, <2>2 DEF Entry
  <2>4. U \in [Slots -> Entry]
    BY <1>a, <2>3
  <2>5. TabOK(U, D)
    <3>1. Changed(T, U, e, D)
      BY <1>2, <2>3 DEF Changed, TabOK
    <3> QED
      BY <3>1, TabOne
  <2> QED
    BY <1>2, <2>3, <2>4, <2>5
<1> QED
  BY <1>3, <1>4

\* iunlock() changes the lock only.
LEMMA IunlockFacts ==
  ASSUME NEW T \in [Slots -> Entry], NEW D, TabOK(T, D), NEW e \in Slots,
         NEW U, U = iunlock(T, e)
  PROVE  /\ U \in [Slots -> Entry] /\ TabOK(U, D)
         /\ U[e].inum = T[e].inum /\ U[e].ref = T[e].ref /\ U[e].valid = T[e].valid
         /\ U[e].type = T[e].type /\ U[e].nlink = T[e].nlink /\ U[e].lock = None
         /\ \A f \in Slots \ {e} : U[f] = T[f]
<1>1. T[e] \in Entry
  OBVIOUS
<1>2. U[e] = [T[e] EXCEPT !.lock = None] /\ \A f \in Slots \ {e} : U[f] = T[f]
  BY DEF iunlock
<1>3. /\ U[e] \in Entry /\ U[e].inum = T[e].inum /\ U[e].ref = T[e].ref
      /\ U[e].valid = T[e].valid /\ U[e].type = T[e].type /\ U[e].nlink = T[e].nlink
      /\ U[e].lock = None
  BY <1>1, <1>2 DEF Entry
<1>4. U \in [Slots -> Entry]
  BY <1>2, <1>3 DEF iunlock
<1>5. TabOK(U, D)
  <2>1. U[e].ref > 0 => T[e].ref > 0
    BY <1>3
  <2> QED
    <3>1. Changed(T, U, e, D)
      BY <1>2, <1>3, <2>1 DEF Changed, TabOK
    <3> QED
      BY <3>1, TabOne
<1> QED
  BY <1>2, <1>3, <1>4, <1>5
-----------------------------------------------------------------------------
(***************************************************************************)
(* Steps that leave the disk alone.                                        *)
(***************************************************************************)

\* T is the inode table after table operations of p.
TRel(p, T) ==
    /\ T \in [Slots -> Entry]
    /\ TabOK(T, dinode)
    /\ \A e \in Slots : itable[e].ref > 0 /\ T[e].ref > 0 =>
         /\ T[e].inum = itable[e].inum
         /\ T[e].valid = itable[e].valid \/ Reach(p, e, itable[e].inum)
         /\ itable[e].valid => T[e].valid

\* p gains pointers to inodes with a name only.
QGain(p) ==
    \A e \in Slots : HasGood(p, e)' =>
      HasGood(p, e) \/ dinode[itable'[e].inum].nlink # 0

\* An entry that p has a pointer to is in use, for an allocated inode.
LEMMA GoodFacts ==
  ASSUME FSInv, NEW p \in Procs, NEW e \in Slots, HasGood(p, e)
  PROVE  /\ itable[e].ref > 0 /\ itable[e].inum \in Inums
         /\ dinode[itable[e].inum].type # "free"
         /\ N(p, e) >= 1 /\ N(p, e) \in Nat /\ itable[e].ref >= N(p, e)
<1>1. N(p, e) \in Nat /\ itable[e].ref \in Nat /\ itable[e].ref >= N(p, e)
  BY RefCovers DEF FSInv
<1>2. N(p, e) >= 1
  BY HeldFacts DEF N, HasGood
<1>3. itable[e].ref > 0
  BY <1>1, <1>2
<1> QED
  BY <1>1, <1>2, <1>3 DEF FSInv, TabOK, ThreadInv, Alloc

\* An entry p had and has a pointer to stays in use.
LEMMA GoodStays ==
  ASSUME FSInv, NEW p \in Procs, RefStep(p), NEW e \in Slots, HasGood(p, e)'
  PROVE  itable'[e].ref > 0
<1>1. N(p, e) \in Nat /\ itable[e].ref \in Nat /\ itable[e].ref >= N(p, e)
  BY RefCovers DEF FSInv
<1>2. N(p, e)' >= 1 /\ N(p, e)' \in Nat
  BY HeldFacts DEF N, HasGood
<1>3. itable'[e].ref = itable[e].ref + N(p, e)' - N(p, e)
  BY DEF RefStep
<1> QED
  BY <1>1, <1>2, <1>3

\* The pending links of the others stay.
LEMMA PendingOthers ==
  ASSUME FSInv, NEW p \in Procs, Others(p), RefStep(p), TabStep(p), DiskStep(p),
         NEW i, NEW q \in Procs \ {p}
  PROVE  q \in Pending(i)' <=> q \in Pending(i)
<1>1. th'[q] = th[q] /\ th[q] \in ThreadType
  BY DEF Others, FSInv, TypeInv
<1>2. ASSUME NEW e, e = th[q].keep, e # Nil PROVE itable'[e].inum = itable[e].inum
  <2>1. e \in Slots /\ HasGood(q, e)
    BY <1>1, <1>2 DEF ThreadType, HasGood, Good
  <2> QED
    BY <2>1, OthersPointer
<1> QED
  BY <1>1, <1>2 DEF Pending

\* Sets of pending links are finite.
LEMMA PendingFinite ==
  ASSUME NEW i
  PROVE  /\ IsFiniteSet(Pending(i)) /\ Cardinality(Pending(i)) \in Nat
         /\ IsFiniteSet(Pending(i)') /\ Cardinality(Pending(i)') \in Nat
<1>1. Pending(i) \subseteq Procs /\ Pending(i)' \subseteq Procs
  BY DEF Pending
<1>2. IsFiniteSet(Pending(i)) /\ IsFiniteSet(Pending(i)')
  BY <1>1, FS_Subset, SizeAssumption, Zenon
<1> QED
  BY <1>2, FS_CardinalityType, Zenon

\* The entries of a directory and the subdirectories are finite sets.
LEMMA EntriesFinite ==
  ASSUME NEW i
  PROVE  /\ IsFiniteSet(Entries(i)) /\ Cardinality(Entries(i)) \in Nat
         /\ IsFiniteSet(Entries(i)') /\ Cardinality(Entries(i)') \in Nat
         /\ IsFiniteSet(Subdirs(i)) /\ Cardinality(Subdirs(i)) \in Nat
         /\ IsFiniteSet(Subdirs(i)') /\ Cardinality(Subdirs(i)') \in Nat
<1>1. IsFiniteSet(Inums)
  <2>1. 1 \in Int /\ NINODES \in Int
    BY SizeAssumption
  <2> QED
    BY <2>1, FS_Interval, Zenon DEF Inums
<1>2. IsFiniteSet(Inums \X Names)
  BY <1>1, FS_Product, SizeAssumption, Zenon
<1>3. /\ Entries(i) \subseteq Inums \X Names /\ Entries(i)' \subseteq Inums \X Names
      /\ Subdirs(i) \subseteq Inums /\ Subdirs(i)' \subseteq Inums
  BY DEF Entries, Subdirs
<1>4. /\ IsFiniteSet(Entries(i)) /\ IsFiniteSet(Entries(i)')
      /\ IsFiniteSet(Subdirs(i)) /\ IsFiniteSet(Subdirs(i)')
  BY <1>1, <1>2, <1>3, FS_Subset, Zenon
<1> QED
  BY <1>4, FS_CardinalityType, Zenon

\* A step that does not write to the disk.
LEMMA QuietKept ==
  ASSUME FSInv, NEW p \in Procs, TypeInv', Others(p), RefStep(p), TRel(p, itable'),
         LockStep(p), QGain(p), Shape(th'[p]), th'[p].iput # "dec",
         th'[p].keep \in {th[p].keep, Nil}, Local(p)',
         UNCHANGED <<dinode, dir, panicked>>
  PROVE  FSInv'
<1>1. TabStep(p) /\ TabOK(itable', dinode')
  BY DEF TRel, TabStep
<1>2. DiskStep(p)
  BY DEF DiskStep
<1>3. PanicInv'
  BY DEF FSInv, PanicInv
<1>4. GainStep(p)
  <2>1. \A e \in Slots : HasGood(p, e)' => Reach(p, e, itable'[e].inum)
    BY DEF QGain, Reach
  <2>2. \A e \in Slots : N(p, e)' >= 1 => HasGood(p, e)'
    BY HeldFacts DEF N, HasGood
  <2> QED
    BY <2>1, <2>2 DEF GainStep
<1>5. Alloc(p)'
  <2> SUFFICES ASSUME NEW e \in Slots, HasGood(p, e)'
               PROVE  dinode[itable'[e].inum].type # "free"
    BY DEF Alloc
  <2>1. itable'[e].ref > 0
    BY GoodStays
  <2>2. itable'[e].inum \in Inums
    BY <1>1, <2>1 DEF TabOK
  <2>3. CASE HasGood(p, e)
    BY <1>1, <2>1, <2>3, GoodFacts DEF TabStep
  <2>4. CASE dinode[itable'[e].inum].nlink # 0
    BY <2>2, <2>4 DEF FSInv, DiskInv
  <2> QED
    BY <2>3, <2>4 DEF QGain
<1>6. DiskInv'
  <2>1. ASSUME NEW i PROVE Pending(i)' \subseteq Pending(i)
    <3> SUFFICES ASSUME NEW q \in Procs, q \in Pending(i)' PROVE q \in Pending(i)
      BY DEF Pending
    <3>1. CASE q # p
      BY <1>1, <1>2, <3>1, PendingOthers
    <3>2. CASE q = p
      <4>1. th'[p].keep = th[p].keep /\ th[p].keep # Nil /\ itable'[th[p].keep].inum = i
        BY <3>2 DEF Pending
      <4>2. PICK e \in Slots : e = th[p].keep
        BY <4>1 DEF FSInv, TypeInv, ThreadType
      <4>3. HasGood(p, e) /\ HasGood(p, e)'
        BY <4>1, <4>2 DEF HasGood, Good
      <4>4. itable[e].ref > 0 /\ itable'[e].ref > 0
        BY <4>3, GoodFacts, GoodStays
      <4> QED
        BY <1>1, <3>2, <4>1, <4>2, <4>4 DEF TabStep, Pending
    <3> QED
      BY <3>1, <3>2
  <2>2. \A i : Entries(i)' = Entries(i)
    BY DEF Entries
  <2>3. \A i : Subdirs(i)' = Subdirs(i)
    BY <2>2 DEF Subdirs
  <2>4. LinkInv'
    <3> SUFFICES ASSUME NEW i \in Inums
                 PROVE  dinode[i].nlink >= Cardinality(Entries(i)') + Cardinality(Subdirs(i)')
                          + Cardinality(Pending(i)') + (IF i = ROOTINO THEN 1 ELSE 0)
      BY DEF LinkInv
    <3>1. Cardinality(Pending(i)') <= Cardinality(Pending(i))
      BY <2>1, PendingFinite, FS_Subset, Zenon
    <3>2. dinode[i].nlink >= Cardinality(Entries(i)) + Cardinality(Subdirs(i))
                          + Cardinality(Pending(i)) + (IF i = ROOTINO THEN 1 ELSE 0)
      BY DEF FSInv, DiskInv, LinkInv
    <3>3. dinode[i].nlink \in Nat
      BY DEF FSInv, TypeInv
    <3>4. Cardinality(Entries(i)') = Cardinality(Entries(i)) /\ Cardinality(Subdirs(i)') = Cardinality(Subdirs(i))
      BY <2>2, <2>3
    <3> QED
      BY <3>1, <3>2, <3>3, <3>4, PendingFinite, EntriesFinite
  <2> QED
    BY <2>4 DEF FSInv, DiskInv, TreeInv
<1> QED
  BY <1>1, <1>2, <1>3, <1>4, <1>5, <1>6, StepKept DEF ThreadInv
-----------------------------------------------------------------------------
(***************************************************************************)
(* The state of a call.                                                    *)
(***************************************************************************)

\* The pointers of a call that has no iput() to do.
LEMMA Forms0 ==
  ASSUME NEW c, NEW o, NEW t, NEW e, t.puts = <<>>
  PROVE  /\ Held(c, o, t, e) = (IF c = e THEN 1 ELSE 0) + (IF o = e THEN 1 ELSE 0)
              + (IF t.ip = e THEN 1 ELSE 0) + (IF t.dp = e THEN 1 ELSE 0)
              + (IF t.keep = e THEN 1 ELSE 0)
         /\ Good(c, o, t, e) <=> c = e \/ o = e \/ t.ip = e \/ t.dp = e \/ t.keep = e
         /\ ~Freeing(t, e)
<1>1. Len(t.puts) = 0
  OBVIOUS
<1>2. ~(1 <= Len(t.puts)) /\ ~(2 <= Len(t.puts))
  BY <1>1
<1> QED
  BY <1>2 DEF Held, Good, Freeing, One

\* The same for a call with one iput() to do.
LEMMA Forms1 ==
  ASSUME NEW c, NEW o, NEW t, NEW e, NEW a, t.puts = <<a>>
  PROVE  /\ Held(c, o, t, e) = (IF c = e THEN 1 ELSE 0) + (IF o = e THEN 1 ELSE 0)
              + (IF t.ip = e THEN 1 ELSE 0) + (IF t.dp = e THEN 1 ELSE 0)
              + (IF t.keep = e THEN 1 ELSE 0) + (IF a = e THEN 1 ELSE 0)
         /\ Good(c, o, t, e) <=>
              c = e \/ o = e \/ t.ip = e \/ t.dp = e \/ t.keep = e \/ (t.iput # "dec" /\ a = e)
         /\ Freeing(t, e) <=> t.iput = "free" /\ a = e
<1>1. Len(t.puts) = 1 /\ t.puts[1] = a
  OBVIOUS
<1>2. 1 <= Len(t.puts) /\ ~(2 <= Len(t.puts))
  BY <1>1
<1> QED
  BY <1>1, <1>2 DEF Held, Good, Freeing, One

\* The same for a call with two iput()s to do.
LEMMA Forms2 ==
  ASSUME NEW c, NEW o, NEW t, NEW e, NEW a, NEW b, t.puts = <<a, b>>
  PROVE  /\ Held(c, o, t, e) = (IF c = e THEN 1 ELSE 0) + (IF o = e THEN 1 ELSE 0)
              + (IF t.ip = e THEN 1 ELSE 0) + (IF t.dp = e THEN 1 ELSE 0)
              + (IF t.keep = e THEN 1 ELSE 0) + (IF a = e THEN 1 ELSE 0) + (IF b = e THEN 1 ELSE 0)
         /\ Good(c, o, t, e) <=>
              c = e \/ o = e \/ t.ip = e \/ t.dp = e \/ t.keep = e \/ b = e
                \/ (t.iput # "dec" /\ a = e)
         /\ Freeing(t, e) <=> t.iput = "free" /\ a = e
<1>1. Len(t.puts) = 2 /\ t.puts[1] = a /\ t.puts[2] = b
  OBVIOUS
<1>2. 1 <= Len(t.puts) /\ 2 <= Len(t.puts)
  BY <1>1
<1> QED
  BY <1>1, <1>2 DEF Held, Good, Freeing, One

\* A step changes the state of one call.
LEMMA ThFrame ==
  ASSUME FSInv, NEW p \in Procs, NEW u \in ThreadType, th' = [th EXCEPT ![p] = u]
  PROVE  /\ th'[p] = u /\ th' \in [Procs -> ThreadType]
         /\ \A q \in Procs \ {p} : th'[q] = th[q]
BY DEF FSInv, TypeInv

\* The state of a call from its parts.
Rec(pc, op, path, new, ip, dp, keep, puts, iput_) ==
    [pc |-> pc, op |-> op, path |-> path, new |-> new, ip |-> ip, dp |-> dp, keep |-> keep,
     puts |-> puts, iput |-> iput_]

\* Parts of the right kind make the state of a call.
LEMMA RecType ==
  ASSUME NEW pc \in PC, NEW op \in Lookups \cup ParentLookups, NEW path \in Seq(Names),
         NEW new \in Seq(Names), NEW ip \in Slots \cup {Nil}, NEW dp \in Slots \cup {Nil},
         NEW keep \in Slots \cup {Nil}, NEW puts \in Seq(Slots),
         NEW iput_ \in {"test", "free", "dec"}
  PROVE  Rec(pc, op, path, new, ip, dp, keep, puts, iput_) \in ThreadType
BY DEF Rec, ThreadType

\* The parts of such a record.
LEMMA RecFields ==
  ASSUME NEW pc, NEW op, NEW path, NEW new, NEW ip, NEW dp, NEW keep, NEW puts, NEW iput_, NEW t,
         t = Rec(pc, op, path, new, ip, dp, keep, puts, iput_)
  PROVE  /\ t.pc = pc /\ t.op = op /\ t.path = path /\ t.new = new /\ t.ip = ip /\ t.dp = dp
         /\ t.keep = keep /\ t.puts = puts /\ t.iput = iput_
BY DEF Rec

\* The state of a call is made of its parts.
LEMMA RecParts ==
  ASSUME NEW t \in ThreadType
  PROVE  /\ t = Rec(t.pc, t.op, t.path, t.new, t.ip, t.dp, t.keep, t.puts, t.iput)
         /\ t.pc \in PC /\ t.op \in Lookups \cup ParentLookups /\ t.path \in Seq(Names)
         /\ t.new \in Seq(Names) /\ t.ip \in Slots \cup {Nil} /\ t.dp \in Slots \cup {Nil}
         /\ t.keep \in Slots \cup {Nil} /\ t.puts \in Seq(Slots)
         /\ t.iput \in {"test", "free", "dec"}
BY DEF Rec, ThreadType

\* A call that has ended.
Ended(s) == [Idle EXCEPT !.puts = s]
\* What a call that has ended holds: the pointers it has to put.
LEMMA IdleFacts ==
  ASSUME NEW s \in Seq(Slots), Len(s) <= 2, NEW u, u = Ended(s)
  PROVE  /\ u \in ThreadType /\ Shape(u)
         /\ u.pc = "idle" /\ u.op = "open" /\ u.path = <<>> /\ u.new = <<>>
         /\ u.ip = Nil /\ u.dp = Nil /\ u.keep = Nil /\ u.puts = s /\ u.iput = "test"
<1>1. u = Rec("idle", "open", <<>>, <<>>, Nil, Nil, Nil, s, "test")
  BY DEF Ended, Idle, Rec
<1>2. <<>> \in Seq(Names)
  OBVIOUS
<1>3. u \in ThreadType
  <2>1. "idle" \in PC /\ "open" \in Lookups \cup ParentLookups
    BY DEF PC, Lookups
  <2>2. Nil \in Slots \cup {Nil} /\ "test" \in {"test", "free", "dec"}
    OBVIOUS
  <2> QED
    <3> DEFINE nil == <<>>
    <3>1. nil \in Seq(Names)
      OBVIOUS
    <3>2. u = Rec("idle", "open", nil, nil, Nil, Nil, Nil, s, "test")
      BY <1>1
    <3> HIDE DEF nil
    <3>3. Rec("idle", "open", nil, nil, Nil, Nil, Nil, s, "test") \in ThreadType
      BY <2>1, <2>2, <3>1, RecType
    <3> QED
      BY <3>2, <3>3
<1>4. /\ u.pc = "idle" /\ u.op = "open" /\ u.path = <<>> /\ u.new = <<>>
      /\ u.ip = Nil /\ u.dp = Nil /\ u.keep = Nil /\ u.puts = s /\ u.iput = "test"
  BY <1>1 DEF Rec
<1>5. Shape(u)
  BY <1>4 DEF Shape, Lookups, ParentLookups
<1> QED
  BY <1>3, <1>4, <1>5

\* The end of a call that does not write to the disk.
LEMMA ReturnKept ==
  ASSUME FSInv, NEW p \in Procs, NEW s \in Seq(Slots), Len(s) <= 2, Return(p, s),
         cwd' \in [Procs -> Slots], file' \in [Procs -> Slots \cup {Nil}],
         \A q \in Procs \ {p} : cwd'[q] = cwd[q] /\ file'[q] = file[q],
         RefStep(p), TRel(p, itable'), QGain(p),
         \A e \in Slots : itable'[e].lock = IF itable[e].lock = p THEN None ELSE itable[e].lock,
         UNCHANGED <<dinode, dir, panicked>>
  PROVE  FSInv'
<1> DEFINE u == Ended(s)
<1>1. /\ u \in ThreadType /\ Shape(u) /\ u.pc = "idle"
      /\ u.dp = Nil /\ u.keep = Nil /\ u.puts = s /\ u.iput = "test"
  BY IdleFacts
<1>2. th' = [th EXCEPT ![p] = u]
  BY DEF Return, Ended
<1> HIDE DEF u
<1>3. /\ th'[p] = u /\ th' \in [Procs -> ThreadType]
      /\ \A q \in Procs \ {p} : th'[q] = th[q]
  BY <1>1, <1>2, ThFrame
<1>4. TypeInv'
  BY <1>3 DEF TypeInv, TRel, FSInv, Entry
<1>5. Others(p)
  BY <1>3 DEF Others
<1>6. \A e \in Slots : ~Locks(u, e) /\ ~Freeing(u, e)
  BY <1>1, SizeAssumption DEF Locks, Freeing, Slots, Nil
<1>7. LockStep(p)
  BY <1>3, <1>6, NamesAssumption DEF LockStep
<1>8. Local(p)'
  BY <1>1, <1>3, <1>6 DEF Local, ParentLookups
<1> QED
  BY <1>1, <1>3, <1>4, <1>5, <1>7, <1>8, QuietKept

\* The inode table relates to itself; the next lemmas: after ilock(),
\* iunlock(), iget() and idup().
LEMMA TRelSelf ==
  ASSUME FSInv, NEW p \in Procs
  PROVE  TRel(p, itable)
BY DEF TRel, FSInv, TypeInv, Entry

\* ilock() of an entry that p may use.
LEMMA TRelLock ==
  ASSUME FSInv, NEW p \in Procs, NEW T, TRel(p, T), NEW e \in Slots, T[e].ref > 0,
         itable[e].ref > 0 => Reach(p, e, itable[e].inum),
         dinode[T[e].inum].type # "free", NEW h \in Procs \cup {None}, NEW U, U = ilock(T, e, h)
  PROVE  /\ TRel(p, U) /\ T[e].inum \in Inums
         /\ U[e].inum = T[e].inum /\ U[e].ref = T[e].ref /\ U[e].lock = h /\ U[e].valid
         /\ U[e].type = dinode[T[e].inum].type /\ U[e].nlink = dinode[T[e].inum].nlink
         /\ \A f \in Slots \ {e} : U[f] = T[f]
         /\ Loaded(T, e).type = U[e].type /\ Loaded(T, e).nlink = U[e].nlink
<1>1. T \in [Slots -> Entry] /\ TabOK(T, dinode)
  BY DEF TRel
<1>2. dinode \in [Inums -> [type : Types, nlink : Nat]]
  BY DEF FSInv, TypeInv
<1>3. /\ U \in [Slots -> Entry] /\ TabOK(U, dinode)
      /\ U[e].inum = T[e].inum /\ U[e].ref = T[e].ref /\ U[e].lock = h /\ U[e].valid
      /\ U[e].type = dinode[T[e].inum].type /\ U[e].nlink = dinode[T[e].inum].nlink
      /\ \A f \in Slots \ {e} : U[f] = T[f]
      /\ Loaded(T, e).type = U[e].type /\ Loaded(T, e).nlink = U[e].nlink
  BY <1>1, <1>2, IlockFacts
<1>4. TRel(p, U)
  BY <1>3 DEF TRel
<1>5. T[e].inum \in Inums
  BY <1>1 DEF TabOK
<1> QED
  BY <1>3, <1>4, <1>5

\* iunlock().
LEMMA TRelUnlock ==
  ASSUME NEW p \in Procs, NEW T, TRel(p, T), NEW e \in Slots, NEW U, U = iunlock(T, e)
  PROVE  /\ TRel(p, U)
         /\ U[e].inum = T[e].inum /\ U[e].ref = T[e].ref /\ U[e].valid = T[e].valid
         /\ U[e].type = T[e].type /\ U[e].nlink = T[e].nlink /\ U[e].lock = None
         /\ \A f \in Slots \ {e} : U[f] = T[f]
<1>1. T \in [Slots -> Entry] /\ TabOK(T, dinode)
  BY DEF TRel
<1>2. /\ U \in [Slots -> Entry] /\ TabOK(U, dinode)
      /\ U[e].inum = T[e].inum /\ U[e].ref = T[e].ref /\ U[e].valid = T[e].valid
      /\ U[e].type = T[e].type /\ U[e].nlink = T[e].nlink /\ U[e].lock = None
      /\ \A f \in Slots \ {e} : U[f] = T[f]
  BY <1>1, IunlockFacts
<1>3. TRel(p, U)
  BY <1>2 DEF TRel
<1> QED
  BY <1>2, <1>3

\* iget().
LEMMA TRelIget ==
  ASSUME NEW p \in Procs, NEW T, TRel(p, T), \A f \in Slots : itable[f].ref > 0 => T[f].ref > 0,
         NEW i \in Inums, NEW e, e = SlotOf(T, i), e # Nil, NEW U, U = iget(T, i)
  PROVE  /\ TRel(p, U) /\ e \in Slots
         /\ U[e].inum = i /\ U[e].ref = T[e].ref + 1 /\ U[e].lock = T[e].lock
         /\ T[e].ref > 0 => T[e].inum = i /\ U[e].valid = T[e].valid
         /\ \A f \in Slots \ {e} : U[f] = T[f]
<1>1. T \in [Slots -> Entry] /\ TabOK(T, dinode)
  BY DEF TRel
<1>2. /\ U \in [Slots -> Entry] /\ e \in Slots
      /\ TabOK(U, dinode)
      /\ U[e].inum = i /\ U[e].ref = T[e].ref + 1 /\ U[e].lock = T[e].lock
      /\ T[e].ref > 0 => T[e].inum = i /\ U[e].valid = T[e].valid
      /\ \A f \in Slots \ {e} : U[f] = T[f]
  BY <1>1, IgetFacts
<1>3. TRel(p, U)
  BY <1>2 DEF TRel
<1> QED
  BY <1>2, <1>3

\* idup() of an entry in use.
LEMMA TRelIdup ==
  ASSUME NEW p \in Procs, NEW T, TRel(p, T), NEW e \in Slots, T[e].ref > 0, itable[e].ref > 0,
         NEW U, U = idup(T, e)
  PROVE  /\ TRel(p, U)
         /\ U[e].inum = T[e].inum /\ U[e].ref = T[e].ref + 1 /\ U[e].lock = T[e].lock
         /\ U[e].valid = T[e].valid
         /\ \A f \in Slots \ {e} : U[f] = T[f]
<1>1. T \in [Slots -> Entry] /\ TabOK(T, dinode)
  BY DEF TRel
<1>2. /\ U \in [Slots -> Entry] /\ TabOK(U, dinode)
      /\ U[e].inum = T[e].inum /\ U[e].ref = T[e].ref + 1 /\ U[e].lock = T[e].lock
      /\ U[e].valid = T[e].valid
      /\ \A f \in Slots \ {e} : U[f] = T[f]
  BY <1>1, IdupFacts
<1>3. TRel(p, U)
  BY <1>2 DEF TRel
<1> QED
  BY <1>2, <1>3
-----------------------------------------------------------------------------
(***************************************************************************)
(* open, chdir and close.                                                  *)
(***************************************************************************)

\* Nil is no entry.
LEMMA SlotNotNil == \A e \in Slots : e # Nil
BY SizeAssumption DEF Slots, Nil

\* An entry of p's that is locked, read and unlocked within a step.
LEMMA Touched ==
  ASSUME FSInv, NEW p \in Procs, NEW e \in Slots, HasGood(p, e), itable[e].lock = None,
         NEW T, T = iunlock(ilock(itable, e, p), e) \/ T = ilock(itable, e, None)
  PROVE  /\ TRel(p, T) /\ T[e].valid
         /\ T[e].type = dinode[itable[e].inum].type /\ T[e].nlink = dinode[itable[e].inum].nlink
         /\ \A f \in Slots : /\ T[f].ref = itable[f].ref /\ T[f].lock = itable[f].lock
                             /\ T[f].inum = itable[f].inum
<1>1. itable[e].ref > 0 /\ dinode[itable[e].inum].type # "free"
  BY GoodFacts
<1>2. TRel(p, itable)
  BY TRelSelf
<1>3. Reach(p, e, itable[e].inum)
  BY DEF Reach
<1>4. ASSUME NEW h \in Procs \cup {None}, NEW U, U = ilock(itable, e, h)
      PROVE  /\ TRel(p, U)
             /\ U[e].inum = itable[e].inum /\ U[e].ref = itable[e].ref /\ U[e].lock = h /\ U[e].valid
             /\ U[e].type = dinode[itable[e].inum].type /\ U[e].nlink = dinode[itable[e].inum].nlink
             /\ \A f \in Slots \ {e} : U[f] = itable[f]
  BY <1>1, <1>2, <1>3, <1>4, TRelLock
<1>5. CASE T = ilock(itable, e, None)
  BY <1>4, <1>5
<1>6. CASE T = iunlock(ilock(itable, e, p), e)
  <2> DEFINE U == ilock(itable, e, p)
  <2>1. /\ TRel(p, U)
        /\ U[e].inum = itable[e].inum /\ U[e].ref = itable[e].ref /\ U[e].valid
        /\ U[e].type = dinode[itable[e].inum].type /\ U[e].nlink = dinode[itable[e].inum].nlink
        /\ \A f \in Slots \ {e} : U[f] = itable[f]
    BY <1>4
  <2>a. T = iunlock(U, e)
    BY <1>6
  <2> HIDE DEF U
  <2>2. /\ TRel(p, T)
        /\ T[e].inum = U[e].inum /\ T[e].ref = U[e].ref /\ T[e].valid = U[e].valid
        /\ T[e].type = U[e].type /\ T[e].nlink = U[e].nlink /\ T[e].lock = None
        /\ \A f \in Slots \ {e} : T[f] = U[f]
    <3>1. TRel(p, U)
      BY <2>1
    <3> QED
      BY <2>a, <3>1, TRelUnlock
  <2> QED
    BY <2>1, <2>2
<1> QED
  BY <1>5, <1>6

\* A call with no iput() to do.
LEMMA AtFacts ==
  ASSUME FSInv, NEW p \in Procs, th[p].puts = <<>>
  PROVE  /\ th[p] \in ThreadType /\ Shape(th[p]) /\ th[p].iput = "test"
         /\ cwd[p] \in Slots /\ file[p] \in Slots \cup {Nil}
         /\ \A f : N(p, f) = (IF cwd[p] = f THEN 1 ELSE 0) + (IF file[p] = f THEN 1 ELSE 0)
              + (IF th[p].ip = f THEN 1 ELSE 0) + (IF th[p].dp = f THEN 1 ELSE 0)
              + (IF th[p].keep = f THEN 1 ELSE 0)
         /\ \A f : HasGood(p, f) <=>
              cwd[p] = f \/ file[p] = f \/ th[p].ip = f \/ th[p].dp = f \/ th[p].keep = f
         /\ \A f \in Slots : itable[f].lock = p <=> th[p].dp = f
<1>1. th[p] \in ThreadType /\ Shape(th[p]) /\ cwd[p] \in Slots /\ file[p] \in Slots \cup {Nil}
  BY DEF FSInv, TypeInv, ThreadInv
<1>2. th[p].iput = "test"
  BY <1>1 DEF Shape
<1>3. \A f : /\ N(p, f) = (IF cwd[p] = f THEN 1 ELSE 0) + (IF file[p] = f THEN 1 ELSE 0)
              + (IF th[p].ip = f THEN 1 ELSE 0) + (IF th[p].dp = f THEN 1 ELSE 0)
              + (IF th[p].keep = f THEN 1 ELSE 0)
             /\ HasGood(p, f) <=>
              cwd[p] = f \/ file[p] = f \/ th[p].ip = f \/ th[p].dp = f \/ th[p].keep = f
             /\ ~Freeing(th[p], f)
  BY Forms0 DEF N, HasGood
<1>4. \A f \in Slots : itable[f].lock = p <=> th[p].dp = f
  BY <1>3 DEF FSInv, LockInv, Locks
<1> QED
  BY <1>1, <1>2, <1>3, <1>4

\* The pointers of a process whose call has ended.
LEMMA EndedTh ==
  ASSUME NEW p \in Procs, NEW s \in Seq(Slots), Len(s) <= 2, Return(p, s),
         th \in [Procs -> ThreadType]
  PROVE  /\ th'[p].ip = Nil /\ th'[p].dp = Nil /\ th'[p].keep = Nil /\ th'[p].puts = s
         /\ th'[p].iput = "test"
<1> DEFINE u == Ended(s)
<1>1. /\ u.ip = Nil /\ u.dp = Nil /\ u.keep = Nil /\ u.puts = s /\ u.iput = "test"
  BY IdleFacts
<1>2. th' = [th EXCEPT ![p] = u]
  BY DEF Return, Ended
<1> HIDE DEF u
<1> QED
  BY <1>1, <1>2

\* The pointers of p when its call has ended with nothing to put,
LEMMA Ended0 ==
  ASSUME NEW p \in Procs, Return(p, <<>>), th \in [Procs -> ThreadType]
  PROVE  \A f \in Slots :
           /\ N(p, f)' = (IF cwd'[p] = f THEN 1 ELSE 0) + (IF file'[p] = f THEN 1 ELSE 0)
           /\ HasGood(p, f)' <=> cwd'[p] = f \/ file'[p] = f
<1> TAKE f \in Slots
<1>1. <<>> \in Seq(Slots) /\ Len(<<>>) <= 2
  OBVIOUS
<1>2. /\ th'[p].ip = Nil /\ th'[p].dp = Nil /\ th'[p].keep = Nil /\ th'[p].puts = <<>>
  BY <1>1, EndedTh
<1>3. /\ Held(cwd'[p], file'[p], th'[p], f) = (IF cwd'[p] = f THEN 1 ELSE 0)
              + (IF file'[p] = f THEN 1 ELSE 0)
              + (IF th'[p].ip = f THEN 1 ELSE 0) + (IF th'[p].dp = f THEN 1 ELSE 0)
              + (IF th'[p].keep = f THEN 1 ELSE 0)
      /\ Good(cwd'[p], file'[p], th'[p], f) <=>
           \/ cwd'[p] = f \/ file'[p] = f \/ th'[p].ip = f \/ th'[p].dp = f \/ th'[p].keep = f
  BY <1>2, Forms0
<1> QED
  BY <1>2, <1>3, SlotNotNil DEF N, HasGood

\* with one entry to put,
LEMMA Ended1 ==
  ASSUME NEW p \in Procs, NEW a \in Slots, Return(p, <<a>>), th \in [Procs -> ThreadType]
  PROVE  \A f \in Slots :
           /\ N(p, f)' = (IF cwd'[p] = f THEN 1 ELSE 0) + (IF file'[p] = f THEN 1 ELSE 0)
                           + (IF a = f THEN 1 ELSE 0)
           /\ HasGood(p, f)' <=> cwd'[p] = f \/ file'[p] = f \/ a = f
<1> TAKE f \in Slots
<1>1. <<a>> \in Seq(Slots) /\ Len(<<a>>) <= 2
  OBVIOUS
<1>2. /\ th'[p].ip = Nil /\ th'[p].dp = Nil /\ th'[p].keep = Nil /\ th'[p].puts = <<a>>
      /\ th'[p].iput = "test"
  BY <1>1, EndedTh
<1>3. /\ Held(cwd'[p], file'[p], th'[p], f) = (IF cwd'[p] = f THEN 1 ELSE 0)
              + (IF file'[p] = f THEN 1 ELSE 0)
              + (IF th'[p].ip = f THEN 1 ELSE 0) + (IF th'[p].dp = f THEN 1 ELSE 0)
              + (IF th'[p].keep = f THEN 1 ELSE 0) + (IF a = f THEN 1 ELSE 0)
      /\ Good(cwd'[p], file'[p], th'[p], f) <=>
           \/ cwd'[p] = f \/ file'[p] = f \/ th'[p].ip = f \/ th'[p].dp = f \/ th'[p].keep = f
           \/ (th'[p].iput # "dec" /\ a = f)
  BY <1>2, Forms1
<1> QED
  BY <1>2, <1>3, SlotNotNil DEF N, HasGood

\* and with two.
LEMMA Ended2 ==
  ASSUME NEW p \in Procs, NEW a \in Slots, NEW b \in Slots, Return(p, <<a, b>>),
         th \in [Procs -> ThreadType]
  PROVE  \A f \in Slots :
           /\ N(p, f)' = (IF cwd'[p] = f THEN 1 ELSE 0) + (IF file'[p] = f THEN 1 ELSE 0)
                           + (IF a = f THEN 1 ELSE 0) + (IF b = f THEN 1 ELSE 0)
           /\ HasGood(p, f)' <=> cwd'[p] = f \/ file'[p] = f \/ a = f \/ b = f
<1> TAKE f \in Slots
<1>1. <<a, b>> \in Seq(Slots) /\ Len(<<a, b>>) <= 2
  OBVIOUS
<1>2. /\ th'[p].ip = Nil /\ th'[p].dp = Nil /\ th'[p].keep = Nil /\ th'[p].puts = <<a, b>>
      /\ th'[p].iput = "test"
  BY <1>1, EndedTh
<1>3. /\ Held(cwd'[p], file'[p], th'[p], f) = (IF cwd'[p] = f THEN 1 ELSE 0)
              + (IF file'[p] = f THEN 1 ELSE 0)
              + (IF th'[p].ip = f THEN 1 ELSE 0) + (IF th'[p].dp = f THEN 1 ELSE 0)
              + (IF th'[p].keep = f THEN 1 ELSE 0) + (IF a = f THEN 1 ELSE 0) + (IF b = f THEN 1 ELSE 0)
      /\ Good(cwd'[p], file'[p], th'[p], f) <=>
           \/ cwd'[p] = f \/ file'[p] = f \/ th'[p].ip = f \/ th'[p].dp = f \/ th'[p].keep = f
           \/ b = f \/ (th'[p].iput # "dec" /\ a = f)
  BY <1>2, Forms2
<1> QED
  BY <1>2, <1>3, SlotNotNil DEF N, HasGood

\* A call that ends with the pointers it had.
LEMMA ReturnPlain ==
  ASSUME FSInv, NEW p \in Procs, th[p].puts = <<>>, th[p].dp = Nil,
         NEW s \in Seq(Slots), Len(s) <= 2, Return(p, s),
         cwd' \in [Procs -> Slots], file' \in [Procs -> Slots \cup {Nil}],
         \A q \in Procs \ {p} : cwd'[q] = cwd[q] /\ file'[q] = file[q],
         TRel(p, itable'),
         \A f \in Slots : itable'[f].ref = itable[f].ref /\ itable'[f].lock = itable[f].lock,
         \A f \in Slots : N(p, f)' = N(p, f),
         UNCHANGED <<dinode, dir, panicked>>
  PROVE  FSInv'
<1>1. RefStep(p)
  <2> SUFFICES ASSUME NEW f \in Slots
               PROVE  itable'[f].ref = itable[f].ref + N(p, f)' - N(p, f)
    BY DEF RefStep
  <2>1. N(p, f) \in Nat /\ itable[f].ref \in Nat
    BY RefCovers DEF FSInv
  <2> QED
    BY <2>1
<1>2. QGain(p)
  <2> SUFFICES ASSUME NEW f \in Slots, HasGood(p, f)' PROVE HasGood(p, f)
    BY DEF QGain
  <2>1. N(p, f) >= 1
    BY HeldFacts DEF N, HasGood
  <2>2. ~(1 <= Len(th[p].puts))
    OBVIOUS
  <2> QED
    BY <2>1, <2>2, HeldFacts DEF N, HasGood
<1>3. \A f \in Slots : itable'[f].lock = IF itable[f].lock = p THEN None ELSE itable[f].lock
  BY AtFacts, SlotNotNil
<1> QED
  BY <1>1, <1>2, <1>3, ReturnKept

\* What is known at the label of a system call.
LEMMA AtLookup ==
  ASSUME FSInv, NEW p \in Procs, NEW l, At(p, l),
         l \in {"namex", "create_found"} \cup Lookups \cup ParentLookups
  PROVE  /\ th[p].puts = <<>> /\ th[p].pc = l /\ th[p].dp = Nil
         /\ th[p].ip \in Slots /\ HasGood(p, th[p].ip)
         /\ (l # "namex" /\ l # "linknew") => th[p].keep = Nil
<1>1. th[p].puts = <<>> /\ th[p].pc = l
  BY DEF At
<1>2. th[p] \in ThreadType /\ Shape(th[p])
  BY <1>1, AtFacts
<1>3. /\ l \notin {"create_new", "unlink_entry", "link_exists", "idle", "link_bad"}
      /\ l # "namex" /\ l # "linknew" => l \in {"create_found", "create", "mkdir", "unlink"} \cup Lookups
  BY DEF Lookups, ParentLookups
<1>4. th[p].dp = Nil /\ th[p].ip # Nil
  BY <1>1, <1>2, <1>3 DEF Shape
<1>5. th[p].ip \in Slots
  BY <1>2, <1>4 DEF ThreadType
<1>6. HasGood(p, th[p].ip)
  BY <1>1, AtFacts
<1>7. ASSUME l # "namex", l # "linknew" PROVE th[p].keep = Nil
  <2>1. CASE l = "create_found"
    BY <1>1, <1>2, <2>1 DEF Shape
  <2>2. CASE l # "create_found"
    <3>1. l \in Lookups \cup ParentLookups
      BY <1>7, <2>2
    <3>2. th[p].op = l
      BY <1>1, <1>2, <3>1 DEF Shape
    <3> QED
      BY <1>2, <1>7, <3>2 DEF Shape
  <2> QED
    BY <2>1, <2>2
<1> QED
  BY <1>1, <1>4, <1>5, <1>6, <1>7

\* A file descriptor for the entry at hand, or its iput().
LEMMA OpenedKept ==
  ASSUME FSInv, NEW p \in Procs, th[p].puts = <<>>, th[p].dp = Nil, th[p].keep = Nil,
         NEW e \in Slots, e = th[p].ip, itable' = iunlock(ilock(itable, e, p), e),
         itable[e].lock = None,
         Opened(p, e, <<>>) \/ (UNCHANGED file /\ Return(p, <<e>>)),
         UNCHANGED <<dinode, dir, cwd, panicked>>
  PROVE  FSInv'
<1>1. /\ cwd[p] \in Slots /\ file[p] \in Slots \cup {Nil}
      /\ \A f : N(p, f) = (IF cwd[p] = f THEN 1 ELSE 0) + (IF file[p] = f THEN 1 ELSE 0)
              + (IF th[p].ip = f THEN 1 ELSE 0) + (IF th[p].dp = f THEN 1 ELSE 0)
              + (IF th[p].keep = f THEN 1 ELSE 0)
      /\ HasGood(p, e)
  BY AtFacts
<1>2. TRel(p, itable') /\ \A f \in Slots : itable'[f].ref = itable[f].ref /\ itable'[f].lock = itable[f].lock
  BY <1>1, Touched
<1>3. TypeInv
  BY DEF FSInv
<1>4. CASE file[p] = Nil /\ file' = [file EXCEPT ![p] = e] /\ Return(p, <<>>)
  <2> DEFINE s == <<>>
  <2>1. s \in Seq(Slots) /\ Len(s) <= 2 /\ Return(p, s)
    BY <1>4
  <2> HIDE DEF s
  <2>2. /\ cwd' \in [Procs -> Slots] /\ file' \in [Procs -> Slots \cup {Nil}]
        /\ \A q \in Procs \ {p} : cwd'[q] = cwd[q] /\ file'[q] = file[q]
        /\ cwd'[p] = cwd[p] /\ file'[p] = e
    BY <1>3, <1>4 DEF TypeInv
  <2>3. \A f \in Slots : N(p, f)' = (IF cwd[p] = f THEN 1 ELSE 0) + (IF e = f THEN 1 ELSE 0)
    BY <1>3, <1>4, <2>2, Ended0 DEF TypeInv
  <2>4. \A f \in Slots : N(p, f)' = N(p, f)
    BY <1>1, <1>4, <2>3, SlotNotNil
  <2> QED
    BY <1>2, <2>1, <2>2, <2>4, ReturnPlain
<1>5. CASE UNCHANGED file /\ Return(p, <<e>>)
  <2> DEFINE s == <<e>>
  <2>1. s \in Seq(Slots) /\ Len(s) <= 2 /\ Return(p, s)
    BY <1>5
  <2> HIDE DEF s
  <2>2. /\ cwd' \in [Procs -> Slots] /\ file' \in [Procs -> Slots \cup {Nil}]
        /\ \A q \in Procs \ {p} : cwd'[q] = cwd[q] /\ file'[q] = file[q]
        /\ cwd'[p] = cwd[p] /\ file'[p] = file[p]
    BY <1>3, <1>5 DEF TypeInv
  <2>3. \A f \in Slots : N(p, f)' = (IF cwd[p] = f THEN 1 ELSE 0) + (IF file[p] = f THEN 1 ELSE 0)
                                      + (IF e = f THEN 1 ELSE 0)
    BY <1>3, <1>5, <2>2, Ended1 DEF TypeInv
  <2>4. \A f \in Slots : N(p, f)' = N(p, f)
    BY <1>1, <2>3, SlotNotNil
  <2> QED
    BY <1>2, <2>1, <2>2, <2>4, ReturnPlain
<1>6. Append(<<>>, e) = <<e>>
  OBVIOUS
<1> QED
  BY <1>4, <1>5, <1>6 DEF Opened

\* The end of open() without O_CREATE keeps the invariant.
LEMMA Step_sys_open ==
  ASSUME FSInv, NEW p \in Procs, sys_open(p)
  PROVE  FSInv'
<1>1. /\ th[p].puts = <<>> /\ th[p].dp = Nil /\ th[p].ip \in Slots /\ th[p].keep = Nil
  <2>1. At(p, "open") /\ "open" \in Lookups
    BY DEF sys_open, Lookups
  <2> QED
    BY <2>1, AtLookup
<1>2. PICK e \in Slots : e = th[p].ip
  BY <1>1
<1> QED
  BY <1>1, <1>2, OpenedKept DEF sys_open, Lockable

\* open(O_CREATE) and mkdir() of a name that exists keep it.
LEMMA Step_create_found ==
  ASSUME FSInv, NEW p \in Procs, create_found(p)
  PROVE  FSInv'
<1>1. /\ th[p].puts = <<>> /\ th[p].dp = Nil /\ th[p].ip \in Slots /\ th[p].keep = Nil
  <2>1. At(p, "create_found")
    BY DEF create_found
  <2> QED
    BY <2>1, AtLookup
<1>2. PICK e \in Slots : e = th[p].ip
  BY <1>1
<1> QED
  BY <1>1, <1>2, OpenedKept DEF create_found, Lockable

\* chdir() keeps it: the old directory is put, or the new one.
LEMMA Step_sys_chdir ==
  ASSUME FSInv, NEW p \in Procs, sys_chdir(p)
  PROVE  FSInv'
<1>1. /\ th[p].puts = <<>> /\ th[p].dp = Nil /\ th[p].ip \in Slots /\ th[p].keep = Nil
  <2>1. At(p, "chdir") /\ "chdir" \in Lookups
    BY DEF sys_chdir, Lookups
  <2> QED
    BY <2>1, AtLookup
<1>2. PICK e \in Slots : e = th[p].ip
  BY <1>1
<1>3. /\ itable[e].lock = None /\ itable' = iunlock(ilock(itable, e, p), e)
      /\ UNCHANGED <<dinode, dir, file, panicked>>
  BY <1>2 DEF sys_chdir, Lockable
<1>4. CASE cwd' = [cwd EXCEPT ![p] = e] /\ Return(p, <<cwd[p]>>)
  <2>1. /\ cwd[p] \in Slots /\ file[p] \in Slots \cup {Nil}
        /\ \A f : N(p, f) = (IF cwd[p] = f THEN 1 ELSE 0) + (IF file[p] = f THEN 1 ELSE 0)
              + (IF th[p].ip = f THEN 1 ELSE 0) + (IF th[p].dp = f THEN 1 ELSE 0)
              + (IF th[p].keep = f THEN 1 ELSE 0)
        /\ HasGood(p, e)
    BY <1>1, <1>2, AtFacts
  <2>2. TRel(p, itable') /\ \A f \in Slots : itable'[f].ref = itable[f].ref /\ itable'[f].lock = itable[f].lock
    BY <1>3, <2>1, Touched
  <2>3. TypeInv
    BY DEF FSInv
  <2> DEFINE s == <<cwd[p]>>
  <2>4. s \in Seq(Slots) /\ Len(s) <= 2 /\ Return(p, s)
    BY <1>4, <2>1
  <2> HIDE DEF s
  <2>5. /\ cwd' \in [Procs -> Slots] /\ file' \in [Procs -> Slots \cup {Nil}]
        /\ \A q \in Procs \ {p} : cwd'[q] = cwd[q] /\ file'[q] = file[q]
        /\ cwd'[p] = e /\ file'[p] = file[p]
    BY <1>3, <1>4, <2>3 DEF TypeInv
  <2>6. \A f \in Slots : N(p, f)' = (IF e = f THEN 1 ELSE 0) + (IF file[p] = f THEN 1 ELSE 0)
                                      + (IF cwd[p] = f THEN 1 ELSE 0)
    BY <1>4, <2>1, <2>3, <2>5, Ended1 DEF TypeInv
  <2>7. \A f \in Slots : N(p, f)' = N(p, f)
    BY <1>1, <1>2, <2>1, <2>6, SlotNotNil
  <2> QED
    BY <1>1, <1>3, <2>2, <2>4, <2>5, <2>7, ReturnPlain
<1>5. CASE UNCHANGED cwd /\ Return(p, <<e>>)
  BY <1>1, <1>2, <1>3, <1>5, OpenedKept
<1> QED
  BY <1>2, <1>4, <1>5 DEF sys_chdir

\* close() keeps it: the pointer of the descriptor is put.
LEMMA Step_sys_close ==
  ASSUME FSInv, NEW p \in Procs, sys_close(p)
  PROVE  FSInv'
<1>1. /\ th[p].puts = <<>> /\ th[p].pc = "idle" /\ file[p] # Nil
      /\ file' = [file EXCEPT ![p] = Nil] /\ Return(p, <<file[p]>>)
      /\ UNCHANGED <<dinode, dir, itable, cwd, panicked>>
  BY DEF sys_close, At
<1>2. /\ cwd[p] \in Slots /\ file[p] \in Slots /\ Shape(th[p])
      /\ \A f : N(p, f) = (IF cwd[p] = f THEN 1 ELSE 0) + (IF file[p] = f THEN 1 ELSE 0)
            + (IF th[p].ip = f THEN 1 ELSE 0) + (IF th[p].dp = f THEN 1 ELSE 0)
            + (IF th[p].keep = f THEN 1 ELSE 0)
  BY <1>1, AtFacts
<1>3. th[p].ip = Nil /\ th[p].dp = Nil /\ th[p].keep = Nil
  BY <1>1, <1>2 DEF Shape
<1>4. TypeInv /\ TRel(p, itable')
  BY <1>1, TRelSelf DEF FSInv
<1> DEFINE s == <<file[p]>>
<1>5. s \in Seq(Slots) /\ Len(s) <= 2 /\ Return(p, s)
  BY <1>1, <1>2
<1> HIDE DEF s
<1>6. /\ cwd' \in [Procs -> Slots] /\ file' \in [Procs -> Slots \cup {Nil}]
      /\ \A q \in Procs \ {p} : cwd'[q] = cwd[q] /\ file'[q] = file[q]
      /\ cwd'[p] = cwd[p] /\ file'[p] = Nil
  BY <1>1, <1>4 DEF TypeInv
<1>7. \A f \in Slots : N(p, f)' = (IF cwd[p] = f THEN 1 ELSE 0) + (IF file[p] = f THEN 1 ELSE 0)
  <2>1. \A f \in Slots : N(p, f)' = (IF cwd'[p] = f THEN 1 ELSE 0)
                            + (IF file'[p] = f THEN 1 ELSE 0) + (IF file[p] = f THEN 1 ELSE 0)
    BY <1>1, <1>2, <1>4, Ended1 DEF TypeInv
  <2> QED
    BY <1>6, <2>1, SlotNotNil
<1>8. \A f \in Slots : N(p, f)' = N(p, f)
  BY <1>2, <1>3, <1>7, SlotNotNil
<1> QED
  BY <1>1, <1>3, <1>4, <1>5, <1>6, <1>8, ReturnPlain
-----------------------------------------------------------------------------
(***************************************************************************)
(* iput.                                                                   *)
(***************************************************************************)

\* A call keeps its place and has the iput()s s to do, the first at label l.
Putting(t, s, l) == Rec(t.pc, t.op, t.path, t.new, t.ip, t.dp, t.keep, s, l)

\* What such a call holds.
LEMMA PuttingFacts ==
  ASSUME NEW t \in ThreadType, Shape(t), NEW s \in Seq(Slots), Len(s) <= 2,
         NEW l \in {"test", "free", "dec"}, s = <<>> => l = "test",
         t.pc \notin {"create_new", "unlink_entry"}, NEW u, u = Putting(t, s, l)
  PROVE  /\ u \in ThreadType /\ Shape(u)
         /\ u.pc = t.pc /\ u.op = t.op /\ u.path = t.path /\ u.new = t.new
         /\ u.ip = t.ip /\ u.dp = t.dp /\ u.keep = t.keep /\ u.puts = s /\ u.iput = l
<1>1. /\ u.pc = t.pc /\ u.op = t.op /\ u.path = t.path /\ u.new = t.new
      /\ u.ip = t.ip /\ u.dp = t.dp /\ u.keep = t.keep /\ u.puts = s /\ u.iput = l
  BY DEF Putting, Rec
<1>2. u \in ThreadType
  BY RecParts, RecType DEF Putting
<1>3. Shape(u)
  BY <1>1 DEF Shape
<1> QED
  BY <1>1, <1>2, <1>3

\* What a call waiting for an iput() has to do.
LEMMA PutsFacts ==
  ASSUME NEW s \in Seq(Slots), s # <<>>, Len(s) <= 2
  PROVE  /\ Head(s) \in Slots /\ Tail(s) \in Seq(Slots) /\ Len(Tail(s)) <= 2
         /\ 1 <= Len(s) /\ s[1] = Head(s)
         /\ 1 <= Len(Tail(s)) <=> 2 <= Len(s)
         /\ 2 <= Len(s) => Tail(s)[1] = s[2]
         /\ ~(2 <= Len(Tail(s)))
<1>1. Len(s) \in Nat /\ Len(s) # 0
  OBVIOUS
<1>2. Head(s) = s[1] /\ s[1] \in Slots
  BY <1>1
<1>3. Tail(s) \in Seq(Slots) /\ Len(Tail(s)) = Len(s) - 1
  OBVIOUS
<1>4. 2 <= Len(s) => Tail(s)[1] = s[2]
  BY <1>1
<1> QED
  BY <1>1, <1>2, <1>3, <1>4

\* A process whose call becomes u takes the lock of the inode it frees.
PutLocks(p, u) ==
    /\ \A f \in Slots : itable'[f].lock = IF Freeing(u, f) THEN p ELSE itable[f].lock
    /\ \A f \in Slots : Freeing(u, f) =>
         itable'[f].ref = 1 /\ itable'[f].valid /\ itable'[f].nlink = 0
    /\ \A f \in Slots : ~Freeing(th[p], f)

\* A step of iput() that does not write to the disk.
LEMMA PutQuiet ==
  ASSUME FSInv, NEW p \in Procs, th[p].puts # <<>>,
         NEW s \in Seq(Slots), Len(s) <= 2, NEW l \in {"test", "free"}, s = <<>> => l = "test",
         NEW u, u = Putting(th[p], s, l), th' = [th EXCEPT ![p] = u],
         UNCHANGED <<dinode, dir, cwd, file, panicked>>,
         RefStep(p), TRel(p, itable'), QGain(p),
         PutLocks(p, u)
  PROVE  FSInv'
<1> DEFINE t == th[p]
<1> USE DEF PutLocks
<1>1. t \in ThreadType /\ Shape(t)
  BY DEF FSInv, TypeInv, ThreadInv
<1>2. t.pc \notin {"create_new", "unlink_entry"}
  BY <1>1 DEF Shape
<1>3. /\ u \in ThreadType /\ Shape(u)
      /\ u.pc = t.pc /\ u.op = t.op /\ u.path = t.path /\ u.new = t.new
      /\ u.ip = t.ip /\ u.dp = t.dp /\ u.keep = t.keep /\ u.puts = s /\ u.iput = l
  <2>1. l \in {"test", "free", "dec"}
    OBVIOUS
  <2> QED
    BY <1>1, <1>2, <2>1, PuttingFacts
<1>4. /\ th'[p] = u /\ th' \in [Procs -> ThreadType]
      /\ \A q \in Procs \ {p} : th'[q] = th[q]
  BY <1>3, ThFrame
<1>5. TypeInv'
  BY <1>4 DEF TypeInv, TRel, FSInv, Entry
<1>6. Others(p)
  BY <1>4 DEF Others
<1>7. LockStep(p)
  <2> SUFFICES ASSUME NEW f \in Slots
               PROVE  /\ \A q \in Procs \ {p} : itable'[f].lock = q <=> itable[f].lock = q
                      /\ itable'[f].lock = p <=> Locks(u, f)
    BY <1>4 DEF LockStep
  <2>1. \A q \in Procs : itable[f].lock = q <=> Locks(th[q], f)
    BY DEF FSInv, LockInv
  <2>2. CASE ~Freeing(u, f)
    BY <1>3, <2>1, <2>2 DEF Locks
  <2>3. CASE Freeing(u, f)
    <3>1. itable'[f].lock = p /\ itable'[f].ref = 1
      BY <2>3
    <3>2. ASSUME NEW q \in Procs \ {p} PROVE itable[f].lock # q
      <4>1. SUFFICES ASSUME itable[f].lock = q PROVE FALSE
        OBVIOUS
      <4>2. N(q, f) >= 1
        BY <2>1, <4>1, HeldFacts DEF N
      <4>3. /\ N(p, f) \in Nat /\ itable[f].ref \in Nat /\ N(q, f) \in Nat
            /\ itable[f].ref >= N(p, f) + N(q, f)
        BY RefCovers DEF FSInv
      <4>4. itable'[f].ref = itable[f].ref + N(p, f)' - N(p, f)
        BY DEF RefStep
      <4>5. N(p, f)' >= 1 /\ N(p, f)' \in Nat
        BY <1>4, <2>3, HeldFacts DEF N, Freeing
      <4> QED
        BY <3>1, <4>2, <4>3, <4>4, <4>5
    <3> QED
      BY <2>3, <3>1, <3>2 DEF Locks
  <2> QED
    BY <2>2, <2>3
<1>8. Local(p)'
  <2>1. Local(p)
    BY DEF FSInv, ThreadInv
  <2>2. ASSUME NEW f \in Slots, f = t.ip \/ f = t.dp \/ f = t.keep
        PROVE  itable'[f].inum = itable[f].inum /\ (itable[f].valid => itable'[f].valid)
    <3>1. HasGood(p, f) /\ HasGood(p, f)'
      BY <1>3, <1>4, <2>2 DEF HasGood, Good
    <3>2. itable[f].ref > 0 /\ itable'[f].ref > 0
      BY <3>1, GoodFacts, GoodStays
    <3> QED
      BY <3>2 DEF TRel
  <2>3. u.pc \in ParentLookups => dinode[itable'[u.ip].inum].type = "DIR"
    <3>1. t.pc \in ParentLookups => t.ip \in Slots
      BY <1>1 DEF Shape, ParentLookups, ThreadType
    <3> QED
      BY <1>3, <2>1, <2>2, <3>1 DEF Local
  <2>4. u.dp # Nil => itable'[u.dp].valid /\ dinode[itable'[u.dp].inum].type = "DIR"
    <3>1. t.dp # Nil => t.dp \in Slots
      BY <1>1 DEF ThreadType
    <3> QED
      BY <1>3, <2>1, <2>2, <3>1 DEF Local
  <2>5. u.keep # Nil => dinode[itable'[u.keep].inum].type = "FILE"
    <3>1. t.keep # Nil => t.keep \in Slots
      BY <1>1 DEF ThreadType
    <3> QED
      BY <1>3, <2>1, <2>2, <3>1 DEF Local
  <2> QED
    BY <1>2, <1>3, <1>4, <2>3, <2>4, <2>5 DEF Local
<1> QED
  BY <1>3, <1>4, <1>5, <1>6, <1>7, <1>8, QuietKept

\* One part of the state of a call is changed.
SetPc(t, v) == [t EXCEPT !.pc = v]
SetPath(t, v) == [t EXCEPT !.path = v]
SetIp(t, v) == [t EXCEPT !.ip = v]
SetDp(t, v) == [t EXCEPT !.dp = v]
SetPuts(t, v) == [t EXCEPT !.puts = v]
SetIput(t, v) == [t EXCEPT !.iput = v]

\* A change of the label only.
LEMMA SetPcRec ==
  \A pc, op, path, new, ip, dp, keep, puts, iput_, t, v :
    t = Rec(pc, op, path, new, ip, dp, keep, puts, iput_)
    => SetPc(t, v) = Rec(v, op, path, new, ip, dp, keep, puts, iput_)
BY DEF SetPc, Rec

\* A change of the path only.
LEMMA SetPathRec ==
  \A pc, op, path, new, ip, dp, keep, puts, iput_, t, v :
    t = Rec(pc, op, path, new, ip, dp, keep, puts, iput_)
    => SetPath(t, v) = Rec(pc, op, v, new, ip, dp, keep, puts, iput_)
BY DEF SetPath, Rec

\* A change of the inode at hand only.
LEMMA SetIpRec ==
  \A pc, op, path, new, ip, dp, keep, puts, iput_, t, v :
    t = Rec(pc, op, path, new, ip, dp, keep, puts, iput_)
    => SetIp(t, v) = Rec(pc, op, path, new, v, dp, keep, puts, iput_)
BY DEF SetIp, Rec

\* A change of the parent directory only.
LEMMA SetDpRec ==
  \A pc, op, path, new, ip, dp, keep, puts, iput_, t, v :
    t = Rec(pc, op, path, new, ip, dp, keep, puts, iput_)
    => SetDp(t, v) = Rec(pc, op, path, new, ip, v, keep, puts, iput_)
BY DEF SetDp, Rec

\* A change of the iput()s to do only.
LEMMA SetPutsRec ==
  \A pc, op, path, new, ip, dp, keep, puts, iput_, t, v :
    t = Rec(pc, op, path, new, ip, dp, keep, puts, iput_)
    => SetPuts(t, v) = Rec(pc, op, path, new, ip, dp, keep, v, iput_)
BY DEF SetPuts, Rec

\* A change of the place in iput() only.
LEMMA SetIputRec ==
  \A pc, op, path, new, ip, dp, keep, puts, iput_, t, v :
    t = Rec(pc, op, path, new, ip, dp, keep, puts, iput_)
    => SetIput(t, v) = Rec(pc, op, path, new, ip, dp, keep, puts, v)
BY DEF SetIput, Rec

\* The updates of iput().
LEMMA PuttingExcept ==
  ASSUME FSInv, NEW p \in Procs, NEW t, t = th[p]
  PROVE  /\ [th EXCEPT ![p].iput = "free"] = [th EXCEPT ![p] = Putting(t, t.puts, "free")]
         /\ [th EXCEPT ![p].iput = "dec"] = [th EXCEPT ![p] = Putting(t, t.puts, "dec")]
         /\ [th EXCEPT ![p].puts = Tail(@)] = [th EXCEPT ![p] = Putting(t, Tail(t.puts), t.iput)]
         /\ [th EXCEPT ![p] = [t EXCEPT !.puts = Tail(t.puts), !.iput = "test"]]
              = [th EXCEPT ![p] = Putting(t, Tail(t.puts), "test")]
<1>1. t \in ThreadType /\ th \in [Procs -> ThreadType]
  BY DEF FSInv, TypeInv
<1>2. t = Rec(t.pc, t.op, t.path, t.new, t.ip, t.dp, t.keep, t.puts, t.iput)
  BY <1>1, RecParts
<1>3. SetIput(t, "free") = Putting(t, t.puts, "free")
  BY <1>2, SetIputRec DEF Putting
<1>4. SetIput(t, "dec") = Putting(t, t.puts, "dec")
  BY <1>2, SetIputRec DEF Putting
<1>5. SetPuts(t, Tail(t.puts)) = Putting(t, Tail(t.puts), t.iput)
  BY <1>2, SetPutsRec DEF Putting
<1>6. SetIput(SetPuts(t, Tail(t.puts)), "test") = Putting(t, Tail(t.puts), "test")
  BY <1>5, SetIputRec DEF Putting
<1>7. [th EXCEPT ![p].iput = "free"] = [th EXCEPT ![p] = Putting(t, t.puts, "free")]
  BY <1>1, <1>3 DEF SetIput
<1>8. [th EXCEPT ![p].iput = "dec"] = [th EXCEPT ![p] = Putting(t, t.puts, "dec")]
  BY <1>1, <1>4 DEF SetIput
<1>9. [th EXCEPT ![p].puts = Tail(@)] = [th EXCEPT ![p] = Putting(t, Tail(t.puts), t.iput)]
  BY <1>1, <1>5 DEF SetPuts
<1>10. [th EXCEPT ![p] = [t EXCEPT !.puts = Tail(t.puts), !.iput = "test"]]
              = [th EXCEPT ![p] = Putting(t, Tail(t.puts), "test")]
  <2>1. [t EXCEPT !.puts = Tail(t.puts), !.iput = "test"] = SetIput(SetPuts(t, Tail(t.puts)), "test")
    BY DEF SetIput, SetPuts
  <2> QED
    BY <1>6, <2>1
<1> QED
  BY <1>7, <1>8, <1>9, <1>10

\* A process that is about to drop a pointer.
LEMMA AtPut ==
  ASSUME FSInv, NEW p \in Procs, th[p].puts # <<>>, NEW e, e = Head(th[p].puts)
  PROVE  /\ th[p] \in ThreadType /\ Shape(th[p]) /\ e \in Slots
         /\ th[p].puts \in Seq(Slots) /\ Len(th[p].puts) <= 2
         /\ Tail(th[p].puts) \in Seq(Slots) /\ Len(Tail(th[p].puts)) <= 2
         /\ 1 <= Len(th[p].puts) /\ th[p].puts[1] = e
         /\ itable[e].ref > 0 /\ N(p, e) >= 1 /\ N(p, e) \in Nat /\ itable[e].ref \in Nat
         /\ itable[e].ref >= N(p, e)
         /\ th[p].iput # "dec" => HasGood(p, e)
<1>1. th[p] \in ThreadType /\ Shape(th[p])
  BY DEF FSInv, TypeInv, ThreadInv
<1>2. th[p].puts \in Seq(Slots) /\ Len(th[p].puts) <= 2
  BY <1>1 DEF ThreadType, Shape
<1>3. /\ e \in Slots
      /\ Tail(th[p].puts) \in Seq(Slots) /\ Len(Tail(th[p].puts)) <= 2
      /\ 1 <= Len(th[p].puts) /\ th[p].puts[1] = e
  BY <1>2, PutsFacts
<1>4. N(p, e) >= 1
  BY <1>3, HeldFacts DEF N
<1>5. N(p, e) \in Nat /\ itable[e].ref \in Nat /\ itable[e].ref >= N(p, e)
  BY <1>3, RefCovers DEF FSInv
<1>6. th[p].iput # "dec" => HasGood(p, e)
  BY <1>3 DEF HasGood, Good
<1> QED
  BY <1>1, <1>2, <1>3, <1>4, <1>5, <1>6

\* The first iput() is done.
LEMMA Dropped ==
  ASSUME FSInv, NEW p \in Procs, th[p].puts # <<>>, th[p].iput # "free",
         NEW e, e = Head(th[p].puts), itable' = Decref(itable, e),
         NEW u, u = Putting(th[p], Tail(th[p].puts), "test"), th' = [th EXCEPT ![p] = u],
         UNCHANGED <<dinode, dir, cwd, file, panicked>>
  PROVE  FSInv'
<1> DEFINE t == th[p]
           s == Tail(t.puts)
<1>1. /\ t \in ThreadType /\ Shape(t) /\ e \in Slots
      /\ t.puts \in Seq(Slots) /\ Len(t.puts) <= 2
      /\ s \in Seq(Slots) /\ Len(s) <= 2
      /\ 1 <= Len(t.puts) /\ t.puts[1] = e
      /\ itable[e].ref > 0
  BY AtPut
<1>2. /\ 1 <= Len(s) <=> 2 <= Len(t.puts)
      /\ 2 <= Len(t.puts) => s[1] = t.puts[2]
      /\ ~(2 <= Len(s))
  BY <1>1, PutsFacts
<1>11. u = Putting(t, s, "test")
  OBVIOUS
<1> HIDE DEF s
<1>3. t.pc \notin {"create_new", "unlink_entry"}
  BY <1>1 DEF Shape
<1>4. /\ u \in ThreadType
      /\ u.ip = t.ip /\ u.dp = t.dp /\ u.keep = t.keep /\ u.puts = s /\ u.iput = "test"
  <2>1. "test" \in {"test", "free", "dec"}
    OBVIOUS
  <2> QED
    BY <1>1, <1>3, <1>11, <2>1, PuttingFacts
<1>5. th'[p] = u
  BY <1>4, ThFrame
<1>6. /\ TRel(p, itable')
      /\ itable'[e].ref = itable[e].ref - 1
      /\ \A f \in Slots : itable'[f].lock = itable[f].lock
      /\ \A f \in Slots \ {e} : itable'[f].ref = itable[f].ref
  <2>1. itable \in [Slots -> Entry] /\ TabOK(itable, dinode)
    BY DEF FSInv, TypeInv, Entry
  <2>2. /\ itable' \in [Slots -> Entry] /\ TabOK(itable', dinode)
        /\ itable'[e].ref = itable[e].ref - 1 /\ itable'[e].lock = itable[e].lock
        /\ itable'[e].ref > 0 => itable'[e].inum = itable[e].inum /\ itable'[e].valid = itable[e].valid
        /\ \A f \in Slots \ {e} : itable'[f] = itable[f]
    BY <1>1, <2>1, DecrefFacts
  <2> QED
    BY <2>2 DEF TRel
<1>7. ASSUME NEW f \in Slots
      PROVE  N(p, f) = N(p, f)' + (IF e = f THEN 1 ELSE 0) /\ N(p, f)' \in Nat
  <2> DEFINE k == One(cwd[p] = f) + One(file[p] = f) + One(t.ip = f) + One(t.dp = f) + One(t.keep = f)
             k1 == One(2 <= Len(t.puts) /\ t.puts[2] = f)
  <2>1. k \in Nat /\ k1 \in Nat
    BY DEF One
  <2>2. N(p, f) = k + One(1 <= Len(t.puts) /\ t.puts[1] = f) + k1
    BY DEF N, Held
  <2>3. One(1 <= Len(t.puts) /\ t.puts[1] = f) = IF e = f THEN 1 ELSE 0
    BY <1>1 DEF One
  <2>4. N(p, f)' = k + One(1 <= Len(s) /\ s[1] = f) + One(2 <= Len(s) /\ s[2] = f)
    BY <1>4, <1>5 DEF N, Held
  <2>5. One(1 <= Len(s) /\ s[1] = f) = k1 /\ One(2 <= Len(s) /\ s[2] = f) = 0
    BY <1>2 DEF One
  <2> HIDE DEF k, k1
  <2> QED
    BY <2>1, <2>2, <2>3, <2>4, <2>5
<1>8. RefStep(p)
  <2> SUFFICES ASSUME NEW f \in Slots
               PROVE  itable'[f].ref = itable[f].ref + N(p, f)' - N(p, f)
    BY DEF RefStep
  <2>1. itable[f].ref \in Nat
    BY RefCovers DEF FSInv
  <2> QED
    BY <1>6, <1>7, <2>1
<1>9. QGain(p)
  <2> SUFFICES ASSUME NEW f \in Slots, HasGood(p, f)' PROVE HasGood(p, f)
    BY DEF QGain
  <2> QED
    BY <1>2, <1>4, <1>5 DEF HasGood, Good
<1>10. \A f \in Slots : ~Freeing(u, f) /\ ~Freeing(t, f)
  BY <1>4 DEF Freeing
<1>12. PutLocks(p, u)
  BY <1>6, <1>10 DEF PutLocks
<1> QED
  BY <1>1, <1>6, <1>8, <1>9, <1>11, <1>12, PutQuiet

\* iput() keeps the invariant: it drops a reference that is counted, or finds
\* nobody else with a pointer and the lock free.
LEMMA Step_iput ==
  ASSUME FSInv, NEW p \in Procs, iput(p)
  PROVE  FSInv'
<1> DEFINE t == th[p]
           e == Head(t.puts)
<1>1. /\ t \in ThreadType /\ Shape(t) /\ e \in Slots
      /\ t.puts \in Seq(Slots) /\ Len(t.puts) <= 2
      /\ 1 <= Len(t.puts) /\ t.puts[1] = e
      /\ itable[e].ref > 0 /\ N(p, e) >= 1 /\ N(p, e) \in Nat /\ itable[e].ref \in Nat
      /\ itable[e].ref >= N(p, e)
      /\ t.puts # <<>> /\ t.iput = "test" /\ HasGood(p, e)
  BY AtPut DEF iput
<1>2. CASE itable[e].ref = 1 /\ itable[e].valid /\ itable[e].nlink = 0
  <2>1. itable[e].lock = None
    <3>1. itable[e].lock \in Procs \cup {None}
      BY <1>1 DEF FSInv, TypeInv
    <3>2. ASSUME NEW q \in Procs, itable[e].lock = q PROVE FALSE
      <4>1. Locks(th[q], e)
        BY <1>1, <3>2 DEF FSInv, LockInv
      <4>2. CASE q = p
        <5>1. t.dp = e
          BY <1>1, <4>1, <4>2 DEF Locks, Freeing
        <5>2. N(p, e) >= 2
          BY <1>1, <5>1, HeldFacts DEF N
        <5> QED
          BY <1>1, <1>2, <5>2
      <4>3. CASE q # p
        <5>1. N(q, e) >= 1 /\ N(q, e) \in Nat
          BY <4>1, HeldFacts DEF N
        <5>2. itable[e].ref >= N(p, e) + N(q, e)
          BY <1>1, <4>3, RefCovers DEF FSInv
        <5> QED
          BY <1>1, <1>2, <5>1, <5>2
      <4> QED
        BY <4>2, <4>3
    <3> QED
      BY <3>1, <3>2
  <2>2. /\ itable' = [itable EXCEPT ![e].lock = p]
        /\ th' = [th EXCEPT ![p].iput = "free"]
        /\ UNCHANGED <<dinode, dir, cwd, file, panicked>>
    BY <1>2, <2>1 DEF iput
  <2> DEFINE u == Putting(t, t.puts, "free")
  <2>3. th' = [th EXCEPT ![p] = u]
    BY <2>2, PuttingExcept
  <2>4. t.pc \notin {"create_new", "unlink_entry"}
    BY <1>1 DEF Shape
  <2>5. /\ u \in ThreadType
        /\ u.ip = t.ip /\ u.dp = t.dp /\ u.keep = t.keep /\ u.puts = t.puts /\ u.iput = "free"
    BY <1>1, <2>4, PuttingFacts
  <2> DEFINE s == t.puts
  <2>6. u = Putting(t, s, "free")
    OBVIOUS
  <2> HIDE DEF u
  <2>7. th'[p] = u
    BY <2>3, <2>5, ThFrame
  <2>8. \A f \in Slots : N(p, f)' = N(p, f) /\ (HasGood(p, f)' => HasGood(p, f))
    BY <1>1, <2>2, <2>5, <2>7 DEF N, Held, HasGood, Good
  <2>9. /\ itable' \in [Slots -> Entry] /\ \A f \in Slots \ {e} : itable'[f] = itable[f]
        /\ itable'[e].ref = itable[e].ref /\ itable'[e].inum = itable[e].inum
        /\ itable'[e].valid = itable[e].valid /\ itable'[e].type = itable[e].type
        /\ itable'[e].nlink = itable[e].nlink /\ itable'[e].lock = p
    BY <1>1, <2>2 DEF FSInv, TypeInv, Entry
  <2>10. TRel(p, itable')
    <3>1. TabOK(itable, dinode)
      BY DEF FSInv
    <3>2. Changed(itable, itable', e, dinode)
      BY <1>1, <2>9, <3>1 DEF Changed, TabOK
    <3>3. TabOK(itable', dinode)
      BY <1>1, <3>1, <3>2, TabOne
    <3> QED
      BY <2>9, <3>3 DEF TRel
  <2>11. RefStep(p)
    <3> SUFFICES ASSUME NEW f \in Slots
                 PROVE  itable'[f].ref = itable[f].ref + N(p, f)' - N(p, f)
      BY DEF RefStep
    <3>1. itable[f].ref \in Nat /\ N(p, f) \in Nat
      BY RefCovers DEF FSInv
    <3> QED
      BY <2>8, <2>9, <3>1
  <2>12. QGain(p)
    BY <2>8 DEF QGain
  <2>13. \A f \in Slots : (Freeing(u, f) <=> f = e) /\ ~Freeing(t, f)
    BY <1>1, <2>5 DEF Freeing
  <2>14. PutLocks(p, u)
    <3>1. \A f \in Slots : itable'[f].lock = IF Freeing(u, f) THEN p ELSE itable[f].lock
      BY <1>2, <2>9, <2>13
    <3>2. \A f \in Slots : Freeing(u, f) =>
              itable'[f].ref = 1 /\ itable'[f].valid /\ itable'[f].nlink = 0
      BY <1>2, <2>9, <2>13
    <3> QED
      BY <2>13, <3>1, <3>2 DEF PutLocks
  <2>15. "free" \in {"test", "free"}
    OBVIOUS
  <2>16. th[p].puts # <<>> /\ s # <<>> /\ s \in Seq(Slots) /\ Len(s) <= 2
    BY <1>1
  <2> HIDE DEF s
  <2> QED
    BY <2>2, <2>3, <2>6, <2>10, <2>11, <2>12, <2>14, <2>15, <2>16, PutQuiet
<1>3. CASE ~(itable[e].ref = 1 /\ itable[e].valid /\ itable[e].nlink = 0)
  <2>1. /\ itable' = Decref(itable, e)
        /\ th' = [th EXCEPT ![p].puts = Tail(@)]
        /\ UNCHANGED <<dinode, dir, cwd, file, panicked>>
    BY <1>3 DEF iput
  <2>2. th' = [th EXCEPT ![p] = Putting(t, Tail(t.puts), t.iput)]
    BY <2>1, PuttingExcept
  <2>3. th' = [th EXCEPT ![p] = Putting(t, Tail(t.puts), "test")]
    BY <1>1, <2>2
  <2> QED
    BY <1>1, <2>1, <2>3, Dropped
<1> QED
  BY <1>2, <1>3

\* The end of iput() of a freed inode keeps it.
LEMMA Step_iput_dec ==
  ASSUME FSInv, NEW p \in Procs, iput_dec(p)
  PROVE  FSInv'
<1>1. /\ th[p].puts # <<>> /\ th[p].iput = "dec"
      /\ itable' = Decref(itable, Head(th[p].puts))
      /\ th' = [th EXCEPT ![p] = [th[p] EXCEPT !.puts = Tail(th[p].puts), !.iput = "test"]]
      /\ UNCHANGED <<dinode, dir, cwd, file, panicked>>
  BY DEF iput_dec
<1>2. th' = [th EXCEPT ![p] = Putting(th[p], Tail(th[p].puts), "test")]
  BY <1>1, PuttingExcept
<1> QED
  BY <1>1, <1>2, Dropped
-----------------------------------------------------------------------------
(***************************************************************************)
(* Steps of a call that do not write to the disk.                          *)
(***************************************************************************)

\* A process whose call becomes u gives up its locks but keeps or takes the
\* one of u.dp.
Relocks(p, u) ==
    \A f \in Slots :
      /\ itable'[f].lock = IF u.dp = f THEN p ELSE IF itable[f].lock = p THEN None ELSE itable[f].lock
      /\ u.dp = f => itable[f].lock \in {None, p}

\* What the call u has found out.
Found(u) ==
    /\ u.pc \in ParentLookups => dinode[itable'[u.ip].inum].type = "DIR"
    /\ u.dp # Nil => itable'[u.dp].valid /\ dinode[itable'[u.dp].inum].type = "DIR"
    /\ u.pc # "create_new"
    /\ u.pc = "unlink_entry" => dir[itable'[u.dp].inum][Head(u.path)] = itable'[u.ip].inum

\* A call goes from one label to another.
LEMMA MoveKept ==
  ASSUME FSInv, NEW p \in Procs, NEW u \in ThreadType, Shape(u), u.iput = "test",
         u.keep \in {th[p].keep, Nil}, th' = [th EXCEPT ![p] = u],
         UNCHANGED <<dinode, dir, cwd, file, panicked>>,
         TRel(p, itable'), RefStep(p), QGain(p), Relocks(p, u), Found(u)
  PROVE  FSInv'
<1>1. /\ th'[p] = u /\ th' \in [Procs -> ThreadType]
      /\ \A q \in Procs \ {p} : th'[q] = th[q]
  BY ThFrame
<1>2. TypeInv'
  BY <1>1 DEF TypeInv, TRel, FSInv, Entry
<1>3. Others(p)
  BY <1>1 DEF Others
<1>4. \A f : ~Freeing(u, f)
  BY DEF Freeing
<1>5. LockStep(p)
  <2> SUFFICES ASSUME NEW f \in Slots
               PROVE  /\ \A q \in Procs \ {p} : itable'[f].lock = q <=> itable[f].lock = q
                      /\ itable'[f].lock = p <=> u.dp = f
    BY <1>1, <1>4 DEF LockStep, Locks
  <2>1. /\ itable'[f].lock = IF u.dp = f THEN p ELSE IF itable[f].lock = p THEN None ELSE itable[f].lock
        /\ u.dp = f => itable[f].lock \in {None, p}
    BY DEF Relocks
  <2> QED
    BY <2>1, NamesAssumption
<1>6. Local(p)'
  <2>1. u.keep # Nil => dinode[itable'[u.keep].inum].type = "FILE"
    <3> SUFFICES ASSUME u.keep # Nil PROVE dinode[itable'[u.keep].inum].type = "FILE"
      OBVIOUS
    <3>1. PICK e \in Slots : e = u.keep
      BY DEF ThreadType
    <3>2. th[p].keep = e /\ e # Nil
      BY <3>1
    <3>3. HasGood(p, e) /\ HasGood(p, e)'
      BY <1>1, <3>1, <3>2 DEF HasGood, Good
    <3>4. itable[e].ref > 0 /\ itable'[e].ref > 0
      BY <3>3, GoodFacts, GoodStays
    <3>5. dinode[itable[e].inum].type = "FILE"
      BY <3>2 DEF FSInv, ThreadInv, Local
    <3> QED
      BY <3>1, <3>4, <3>5 DEF TRel
  <2> QED
    BY <1>1, <1>4, <2>1 DEF Local, Found
<1> QED
  BY <1>1, <1>2, <1>3, <1>5, <1>6, QuietKept

\* A step that only reaches a panic() the disk and the table are large
\* enough to avoid.
LEMMA PanicKept ==
  ASSUME FSInv, UNCHANGED <<dinode, dir, itable, cwd, file, th>>,
         panicked' \notin {"sched locks", "unlink: nlink < 1", "ilock: no type"}
  PROVE  FSInv'
<1>1. TypeInv' /\ TabOK(itable', dinode') /\ LockInv'
  BY DEF FSInv, TypeInv, LockInv
<1>4. RefCount'
  <2> SUFFICES ASSUME NEW e \in Slots PROVE itable[e].ref = Count(cwd', file', th', Procs, e)
    BY DEF RefCount, Pointers, Count, Cwds, Vars, Puts
  <2>1. itable[e].ref = Count(cwd, file, th, Procs, e)
    BY DEF FSInv, RefCount, Pointers, Count, Cwds, Vars, Puts
  <2> QED
    BY <2>1, CountFrame
<1>2. ASSUME NEW q \in Procs PROVE ThreadInv(q)'
  <2>1. ThreadInv(q)
    BY DEF FSInv
  <2> QED
    BY <2>1 DEF ThreadInv, Alloc, Local, Fresh, NewType, HasGood
<1>3. DiskInv'
  <2>1. DiskInv
    BY DEF FSInv
  <2>2. \A i : Entries(i)' = Entries(i)
    BY DEF Entries
  <2>3. \A i : Subdirs(i)' = Subdirs(i)
    BY <2>2 DEF Subdirs
  <2>4. \A i : Pending(i)' = Pending(i)
    BY DEF Pending
  <2>5. LinkInv'
    <3> SUFFICES ASSUME NEW i \in Inums
                 PROVE  dinode[i].nlink >= Cardinality(Entries(i)') + Cardinality(Subdirs(i)')
                          + Cardinality(Pending(i)') + (IF i = ROOTINO THEN 1 ELSE 0)
      BY DEF LinkInv
    <3>1. dinode[i].nlink >= Cardinality(Entries(i)) + Cardinality(Subdirs(i))
                          + Cardinality(Pending(i)) + (IF i = ROOTINO THEN 1 ELSE 0)
      BY <2>1 DEF DiskInv, LinkInv
    <3> QED
      BY <2>2, <2>3, <2>4, <3>1
  <2> QED
    <3>1. TreeInv'
      <4>1. TreeInv /\ dinode' = dinode /\ dir' = dir
        BY <2>1 DEF DiskInv
      <4> QED
        BY ONLY <4>1 DEF TreeInv
    <3>2. \A i \in Inums : dinode'[i].type = "free" => dinode'[i].nlink = 0
      BY <2>1 DEF DiskInv
    <3>3. \A i \in Inums : dinode'[i].type # "DIR" => dir'[i] = NoEntries
      BY <2>1 DEF DiskInv
    <3> QED
      BY <2>5, <3>1, <3>2, <3>3 DEF DiskInv
<1> QED
  BY <1>1, <1>2, <1>3, <1>4 DEF FSInv, PanicInv
-----------------------------------------------------------------------------
(***************************************************************************)
(* Path lookup.                                                            *)
(***************************************************************************)

\* A name leads to an inode with a link.
LEMMA EntryLinked ==
  ASSUME FSInv, NEW x \in Inums, NEW n \in Names, NEW i, i = dir[x][n], i # Nil
  PROVE  i \in Inums /\ dinode[i].nlink # 0 /\ dinode[i].type # "free"
<1>1. i \in Inums /\ dinode[i].nlink \in Nat
  BY DEF FSInv, TypeInv
<1>2. <<x, n>> \in Entries(i)
  BY DEF Entries
<1>3. Cardinality(Entries(i)) # 0
  BY <1>2, EntriesFinite, FS_EmptySet, Zenon
<1>4. dinode[i].nlink >= Cardinality(Entries(i)) + Cardinality(Subdirs(i))
                          + Cardinality(Pending(i)) + (IF i = ROOTINO THEN 1 ELSE 0)
  BY <1>1 DEF FSInv, DiskInv, LinkInv
<1>5. /\ Cardinality(Entries(i)) \in Nat /\ Cardinality(Subdirs(i)) \in Nat
      /\ Cardinality(Pending(i)) \in Nat
  BY EntriesFinite, PendingFinite
<1>6. dinode[i].nlink # 0
  BY <1>1, <1>3, <1>4, <1>5
<1> QED
  BY <1>1, <1>6 DEF FSInv, DiskInv

\* The root directory is never freed.
LEMMA RootLinked ==
  ASSUME FSInv
  PROVE  ROOTINO \in Inums /\ dinode[ROOTINO].nlink # 0 /\ dinode[ROOTINO].type # "free"
<1>1. ROOTINO \in Inums
  BY SizeAssumption DEF ROOTINO, Inums
<1>2. dinode[ROOTINO].nlink \in Nat
  BY <1>1 DEF FSInv, TypeInv
<1>3. dinode[ROOTINO].nlink >= Cardinality(Entries(ROOTINO)) + Cardinality(Subdirs(ROOTINO))
                          + Cardinality(Pending(ROOTINO)) + 1
  BY <1>1 DEF FSInv, DiskInv, LinkInv
<1>4. dinode[ROOTINO].nlink # 0
  BY <1>2, <1>3, EntriesFinite, PendingFinite
<1> QED
  BY <1>1, <1>4 DEF FSInv, DiskInv

\* The states of a call during a lookup.
LookingUp(t) ==
    /\ t \in ThreadType /\ t.puts = <<>> /\ t.iput = "test" /\ t.dp = Nil
    /\ t.keep # Nil <=> t.op = "linknew"
    /\ t.ip \in Slots

\* Call u has the pointers of call t, or those and one to entry g.
Same(t, u) == \A c, o : \A f \in Slots : Held(c, o, u, f) = Held(c, o, t, f)
Adds(t, u, g) ==
    \A c, o : \A f \in Slots :
      /\ Held(c, o, u, f) = Held(c, o, t, f) + (IF g = f THEN 1 ELSE 0)
      /\ Good(c, o, u, f) => Good(c, o, t, f) \/ f = g

\* Process p is in namex() with the call t and the inode table T, which
\* counts the pointers of t.
InNamex(p, t, T) ==
    /\ th[p].puts = <<>> /\ th[p].dp = Nil
    /\ LookingUp(t) /\ t.keep = th[p].keep
    /\ TRel(p, T)
    /\ \A f \in Slots : /\ T[f].lock = itable[f].lock
                        /\ T[f].ref = itable[f].ref + Held(cwd[p], file[p], t, f) - N(p, f)
                        /\ itable[f].ref > 0 => T[f].ref > 0
    /\ T[t.ip].ref > 0
    /\ HasGood(p, t.ip) \/ dinode[T[t.ip].inum].nlink # 0

\* The entry at hand is of an allocated inode.
LEMMA InNamexFacts ==
  ASSUME FSInv, NEW p \in Procs, NEW t, NEW T, InNamex(p, t, T), NEW e, e = t.ip
  PROVE  /\ e \in Slots /\ T[e].inum \in Inums /\ dinode[T[e].inum].type # "free"
         /\ itable[e].ref > 0 => T[e].inum = itable[e].inum /\ Reach(p, e, itable[e].inum)
<1>1. /\ e \in Slots /\ T[e].ref > 0 /\ TRel(p, T)
      /\ HasGood(p, e) \/ dinode[T[e].inum].nlink # 0
  BY DEF InNamex, LookingUp
<1>2. T[e].inum \in Inums
  BY <1>1 DEF TRel, TabOK
<1>3. itable[e].ref > 0 => T[e].inum = itable[e].inum
  BY <1>1 DEF TRel
<1>4. HasGood(p, e) => itable[e].ref > 0 /\ dinode[itable[e].inum].type # "free"
  BY <1>1, GoodFacts
<1>5. dinode[T[e].inum].nlink # 0 => dinode[T[e].inum].type # "free"
  BY <1>2 DEF FSInv, DiskInv
<1> QED
  BY <1>1, <1>2, <1>3, <1>4, <1>5 DEF Reach

\* namex() is done, or gives up: the call goes on as u with the pointers of t.
LEMMA NamexEnds ==
  ASSUME FSInv, NEW p \in Procs, NEW t, NEW T, InNamex(p, t, T), NEW e, e = t.ip,
         NEW u \in ThreadType, Shape(u), u.iput = "test", u.dp = Nil, u.keep \in {th[p].keep, Nil},
         Same(t, u),
         u.pc \in ParentLookups => u.ip = e /\ dinode[T[e].inum].type = "DIR",
         th' = [th EXCEPT ![p] = u], 
         itable' = T \/ (itable' = ilock(T, e, None) /\ T[e].lock = None),
         UNCHANGED <<dinode, dir, cwd, file, panicked>>
  PROVE  FSInv'
<1>1. /\ e \in Slots /\ T[e].inum \in Inums /\ dinode[T[e].inum].type # "free"
      /\ itable[e].ref > 0 => T[e].inum = itable[e].inum /\ Reach(p, e, itable[e].inum)
  BY InNamexFacts
<1>2. /\ TRel(p, T) /\ T[e].ref > 0
      /\ HasGood(p, e) \/ dinode[T[e].inum].nlink # 0
  BY <1>1 DEF InNamex, LookingUp
<1>3. /\ TRel(p, itable')
      /\ \A f \in Slots : /\ itable'[f].ref = T[f].ref /\ itable'[f].lock = T[f].lock
                          /\ itable'[f].inum = T[f].inum
  <2>1. CASE itable' = T
    BY <1>2, <2>1
  <2>2. CASE itable' = ilock(T, e, None) /\ T[e].lock = None
    <3>1. /\ TRel(p, itable')
          /\ itable'[e].inum = T[e].inum /\ itable'[e].ref = T[e].ref /\ itable'[e].lock = None
          /\ \A f \in Slots \ {e} : itable'[f] = T[f]
      BY <1>1, <1>2, <2>2, TRelLock
    <3> QED
      BY <1>2, <2>2, <3>1
  <2> QED
    BY <2>1, <2>2
<1>4. th'[p] = u
  BY ThFrame
<1>5. \A f \in Slots : N(p, f)' = Held(cwd[p], file[p], t, f)
  BY <1>4 DEF N, Same
<1>6. RefStep(p)
  BY <1>3, <1>5 DEF RefStep, InNamex
<1>7. QGain(p)
  <2> SUFFICES ASSUME NEW f \in Slots, HasGood(p, f)'
               PROVE  HasGood(p, f) \/ dinode[itable'[f].inum].nlink # 0
    BY DEF QGain
  <2>1. N(p, f)' >= 1
    BY HeldFacts DEF N, HasGood
  <2>2. Held(cwd[p], file[p], t, f) = (IF cwd[p] = f THEN 1 ELSE 0) + (IF file[p] = f THEN 1 ELSE 0)
            + (IF t.ip = f THEN 1 ELSE 0) + (IF t.dp = f THEN 1 ELSE 0)
            + (IF t.keep = f THEN 1 ELSE 0)
    BY Forms0 DEF InNamex, LookingUp
  <2>3. cwd[p] = f \/ file[p] = f \/ e = f \/ th[p].keep = f
    BY <1>5, <2>1, <2>2, SlotNotNil DEF InNamex, LookingUp
  <2>4. f # e => HasGood(p, f)
    BY <2>3 DEF HasGood, Good
  <2> QED
    BY <1>2, <1>3, <2>4
<1>8. Relocks(p, u)
  <2>1. \A f \in Slots : itable[f].lock # p
    BY AtFacts, SlotNotNil DEF InNamex, LookingUp
  <2> QED
    BY <1>3, <2>1, SlotNotNil DEF Relocks, InNamex
<1>9. Found(u)
  <2>1. u.pc \notin {"create_new", "unlink_entry"}
    BY DEF Shape
  <2> QED
    BY <1>1, <1>3, <2>1 DEF Found
<1> QED
  BY <1>3, <1>6, <1>7, <1>8, <1>9, MoveKept

\* A call that changes its place.
LEMMA RecFrom ==
  ASSUME NEW t \in ThreadType, NEW pc \in PC, NEW path \in Seq(Names), NEW ip \in Slots \cup {Nil},
         NEW dp \in Slots \cup {Nil}, NEW puts \in Seq(Slots), NEW u,
         u = Rec(pc, t.op, path, t.new, ip, dp, t.keep, puts, t.iput)
  PROVE  /\ u \in ThreadType
         /\ u.pc = pc /\ u.op = t.op /\ u.path = path /\ u.new = t.new /\ u.ip = ip /\ u.dp = dp
         /\ u.keep = t.keep /\ u.puts = puts /\ u.iput = t.iput
<1>1. /\ t.op \in Lookups \cup ParentLookups /\ t.new \in Seq(Names)
      /\ t.keep \in Slots \cup {Nil} /\ t.iput \in {"test", "free", "dec"}
  BY RecParts
<1>2. u \in ThreadType
  BY <1>1, RecType
<1> QED
  BY <1>2, RecFields

\* A lookup that fails gives up the entry at hand.
LEMMA FailFacts ==
  ASSUME NEW t, LookingUp(t), NEW e, e = t.ip, NEW u, u = Fail(t, <<e>>)
  PROVE  /\ u \in ThreadType /\ Shape(u) /\ u.iput = "test" /\ u.dp = Nil /\ u.keep = t.keep
         /\ u.pc \notin ParentLookups
         /\ Same(t, u)
<1> DEFINE s == <<e>>
           nil == <<>>
<1>1. /\ t \in ThreadType /\ t.puts = <<>> /\ t.iput = "test" /\ t.dp = Nil
      /\ t.keep # Nil <=> t.op = "linknew"
      /\ e \in Slots
  BY DEF LookingUp
<1>2. s \in Seq(Slots) /\ s # <<>> /\ Len(s) <= 2 /\ nil \in Seq(Names) /\ s = <<e>>
  BY <1>1
<1>3. ASSUME u.ip = Nil, u.dp = Nil, u.keep = t.keep, u.puts = <<e>>
      PROVE  Same(t, u)
  <2> SUFFICES ASSUME NEW c, NEW o, NEW f \in Slots PROVE Held(c, o, u, f) = Held(c, o, t, f)
    BY DEF Same
  <2>1. Held(c, o, u, f) = (IF c = f THEN 1 ELSE 0) + (IF o = f THEN 1 ELSE 0)
              + (IF u.ip = f THEN 1 ELSE 0) + (IF u.dp = f THEN 1 ELSE 0)
              + (IF u.keep = f THEN 1 ELSE 0) + (IF e = f THEN 1 ELSE 0)
    BY <1>3, Forms1
  <2>2. Held(c, o, t, f) = (IF c = f THEN 1 ELSE 0) + (IF o = f THEN 1 ELSE 0)
              + (IF t.ip = f THEN 1 ELSE 0) + (IF t.dp = f THEN 1 ELSE 0)
              + (IF t.keep = f THEN 1 ELSE 0)
    BY <1>1, Forms0
  <2> QED
    BY <1>1, <1>3, <2>1, <2>2, SlotNotNil
<1>4. CASE t.op = "linknew"
  <2>1. u = SetPuts(SetPath(SetIp(SetPc(t, "link_bad"), Nil), nil), s)
    BY <1>4 DEF Fail, SetPuts, SetPath, SetIp, SetPc
  <2> HIDE DEF s, nil
  <2>2. t = Rec(t.pc, t.op, t.path, t.new, t.ip, t.dp, t.keep, t.puts, t.iput)
    BY <1>1, RecParts
  <2>3. SetPc(t, "link_bad") = Rec("link_bad", t.op, t.path, t.new, t.ip, t.dp, t.keep, t.puts, t.iput)
    BY <2>2, SetPcRec
  <2>4. SetIp(SetPc(t, "link_bad"), Nil)
          = Rec("link_bad", t.op, t.path, t.new, Nil, t.dp, t.keep, t.puts, t.iput)
    BY <2>3, SetIpRec
  <2>5. SetPath(SetIp(SetPc(t, "link_bad"), Nil), nil)
          = Rec("link_bad", t.op, nil, t.new, Nil, t.dp, t.keep, t.puts, t.iput)
    BY <2>4, SetPathRec
  <2>6. u = Rec("link_bad", t.op, nil, t.new, Nil, t.dp, t.keep, s, t.iput)
    BY <2>1, <2>5, SetPutsRec
  <2>7. /\ u.pc = "link_bad" /\ u.op = t.op /\ u.ip = Nil /\ u.dp = t.dp /\ u.keep = t.keep
        /\ u.puts = s /\ u.iput = t.iput /\ u.path = nil
    BY ONLY <2>6, RecFields
  <2>8. u \in ThreadType
    <3>1. "link_bad" \in PC /\ Nil \in Slots \cup {Nil} /\ t.dp \in Slots \cup {Nil}
      BY <1>1 DEF PC
    <3> QED
      <4>1. /\ t.op \in Lookups \cup ParentLookups /\ t.new \in Seq(Names)
            /\ t.keep \in Slots \cup {Nil} /\ t.iput \in {"test", "free", "dec"}
            /\ s \in Seq(Slots) /\ nil \in Seq(Names)
        BY <1>1, <1>2, RecParts
      <4> QED
        BY ONLY <2>6, <3>1, <4>1 DEF Rec, ThreadType
  <2>9. Shape(u)
    BY <1>1, <1>2, <1>4, <2>7 DEF Shape, Lookups, ParentLookups
  <2> QED
    BY <1>1, <1>2, <1>3, <2>7, <2>8, <2>9 DEF ParentLookups
<1>5. CASE t.op # "linknew"
  <2>1. u = Ended(s)
    BY <1>5 DEF Fail, Ended
  <2> HIDE DEF s, nil
  <2>2. /\ u \in ThreadType /\ Shape(u)
        /\ u.pc = "idle" /\ u.ip = Nil /\ u.dp = Nil /\ u.keep = Nil /\ u.puts = s /\ u.iput = "test"
    <3>1. s \in Seq(Slots) /\ Len(s) <= 2
      BY <1>2
    <3> QED
      BY ONLY <2>1, <3>1, IdleFacts
  <2> QED
    BY <1>1, <1>2, <1>3, <1>5, <2>2 DEF ParentLookups
<1> QED
  BY <1>4, <1>5

\* A lookup that is done.
LEMMA DoneFacts ==
  ASSUME NEW t, LookingUp(t), NEW u, u = [t EXCEPT !.pc = t.op],
         t.op \in ParentLookups => t.path # <<>>
  PROVE  /\ u \in ThreadType /\ Shape(u) /\ u.iput = "test" /\ u.dp = Nil /\ u.keep = t.keep
         /\ u.pc = t.op /\ u.ip = t.ip
         /\ Same(t, u)
<1>1. /\ t \in ThreadType /\ t.puts = <<>> /\ t.iput = "test" /\ t.dp = Nil
      /\ t.keep # Nil <=> t.op = "linknew"
      /\ t.ip \in Slots
  BY DEF LookingUp
<1>2. t = Rec(t.pc, t.op, t.path, t.new, t.ip, t.dp, t.keep, t.puts, t.iput)
  BY <1>1, RecParts
<1>3. u = Rec(t.op, t.op, t.path, t.new, t.ip, t.dp, t.keep, t.puts, t.iput)
  BY <1>2, SetPcRec DEF SetPc
<1>4. /\ u.pc = t.op /\ u.op = t.op /\ u.path = t.path /\ u.ip = t.ip /\ u.dp = t.dp /\ u.keep = t.keep
      /\ u.puts = t.puts /\ u.iput = t.iput
  BY <1>3, RecFields
<1>5. t.op \in Lookups \cup ParentLookups
  BY <1>1, RecParts
<1>6. u \in ThreadType
  <2>1. /\ t.op \in PC /\ t.path \in Seq(Names) /\ t.ip \in Slots \cup {Nil}
        /\ t.dp \in Slots \cup {Nil} /\ t.puts \in Seq(Slots)
    BY <1>1, <1>5, RecParts DEF PC
  <2> QED
    <3>1. /\ t.op \in Lookups \cup ParentLookups /\ t.new \in Seq(Names)
          /\ t.keep \in Slots \cup {Nil} /\ t.iput \in {"test", "free", "dec"}
      BY <1>1, RecParts
    <3> QED
      BY ONLY <1>3, <2>1, <3>1 DEF Rec, ThreadType
<1>7. Shape(u)
  BY <1>1, <1>4, <1>5, SlotNotNil DEF Shape, Lookups, ParentLookups
<1>8. Same(t, u)
  BY <1>4 DEF Same, Held
<1> QED
  BY <1>1, <1>4, <1>6, <1>7, <1>8

\* A lookup that goes on with the entry g.
Going(t, l, rest, g) == [t EXCEPT !.pc = l, !.path = rest, !.ip = g, !.puts = <<t.ip>>]
GoesOn(t, l, rest) ==
    /\ t.path # <<>> /\ rest = Tail(t.path)
    /\ l = (IF rest = <<>> THEN t.op ELSE "namex")
    /\ t.op \in ParentLookups => rest # <<>>
\* What such a lookup holds.
LEMMA GoFacts ==
  ASSUME NEW t, LookingUp(t), NEW l, NEW rest, GoesOn(t, l, rest), NEW g \in Slots,
         NEW u, u = Going(t, l, rest, g)
  PROVE  /\ u \in ThreadType /\ Shape(u) /\ u.iput = "test" /\ u.dp = Nil /\ u.keep = t.keep
         /\ u.pc \notin ParentLookups
         /\ Adds(t, u, g)
<1> DEFINE e == t.ip
           s == <<e>>
<1>1. /\ t \in ThreadType /\ t.puts = <<>> /\ t.iput = "test" /\ t.dp = Nil
      /\ t.keep # Nil <=> t.op = "linknew"
      /\ e \in Slots
  BY DEF LookingUp
<1>2. s \in Seq(Slots) /\ s # <<>> /\ Len(s) <= 2 /\ s = <<e>>
  BY <1>1
<1>3. t.op \in Lookups \cup ParentLookups /\ t.path \in Seq(Names)
  BY <1>1, RecParts
<1>4. rest \in Seq(Names)
  BY <1>3 DEF GoesOn
<1>5. u = SetPuts(SetIp(SetPath(SetPc(t, l), rest), g), s)
  BY DEF Going, SetPuts, SetPath, SetIp, SetPc
<1> HIDE DEF s
<1>6. t = Rec(t.pc, t.op, t.path, t.new, t.ip, t.dp, t.keep, t.puts, t.iput)
  BY <1>1, RecParts
<1>7. SetPc(t, l) = Rec(l, t.op, t.path, t.new, t.ip, t.dp, t.keep, t.puts, t.iput)
  BY <1>6, SetPcRec
<1>8. SetPath(SetPc(t, l), rest) = Rec(l, t.op, rest, t.new, t.ip, t.dp, t.keep, t.puts, t.iput)
  BY <1>7, SetPathRec
<1>9. SetIp(SetPath(SetPc(t, l), rest), g)
         = Rec(l, t.op, rest, t.new, g, t.dp, t.keep, t.puts, t.iput)
  BY <1>8, SetIpRec
<1>10. u = Rec(l, t.op, rest, t.new, g, t.dp, t.keep, s, t.iput)
  BY <1>5, <1>9, SetPutsRec
<1>11. /\ u.pc = l /\ u.op = t.op /\ u.path = rest /\ u.ip = g /\ u.dp = t.dp /\ u.keep = t.keep
       /\ u.puts = s /\ u.iput = t.iput
  BY ONLY <1>10, RecFields
<1>12. l \in PC /\ l \notin ParentLookups /\ (l = t.op \/ l = "namex") /\ (l = "namex" \/ l \in Lookups)
  BY <1>3 DEF GoesOn, PC, Lookups, ParentLookups
<1>13. u \in ThreadType
  <2>1. /\ g \in Slots \cup {Nil} /\ t.dp \in Slots \cup {Nil}
        /\ t \in ThreadType /\ s \in Seq(Slots)
    BY <1>1, <1>2
  <2> QED
    BY ONLY <1>4, <1>10, <1>12, <2>1, RecFrom
<1>14. Shape(u)
  BY <1>1, <1>2, <1>11, <1>12, SlotNotNil DEF Shape, Lookups, ParentLookups
<1>15. ASSUME NEW c, NEW o, NEW f \in Slots
       PROVE  /\ Held(c, o, u, f) = Held(c, o, t, f) + (IF g = f THEN 1 ELSE 0)
              /\ Good(c, o, u, f) => Good(c, o, t, f) \/ f = g
  <2>1. u.puts = <<e>>
    BY <1>2, <1>11
  <2>2. /\ Held(c, o, u, f) = (IF c = f THEN 1 ELSE 0) + (IF o = f THEN 1 ELSE 0)
              + (IF u.ip = f THEN 1 ELSE 0) + (IF u.dp = f THEN 1 ELSE 0)
              + (IF u.keep = f THEN 1 ELSE 0) + (IF e = f THEN 1 ELSE 0)
        /\ Good(c, o, u, f) <=>
              c = f \/ o = f \/ u.ip = f \/ u.dp = f \/ u.keep = f \/ (u.iput # "dec" /\ e = f)
    BY ONLY <2>1, Forms1
  <2>3. /\ Held(c, o, t, f) = (IF c = f THEN 1 ELSE 0) + (IF o = f THEN 1 ELSE 0)
              + (IF t.ip = f THEN 1 ELSE 0) + (IF t.dp = f THEN 1 ELSE 0)
              + (IF t.keep = f THEN 1 ELSE 0)
        /\ Good(c, o, t, f) <=> c = f \/ o = f \/ t.ip = f \/ t.dp = f \/ t.keep = f
    BY <1>1, Forms0
  <2> QED
    BY <1>1, <1>11, <2>2, <2>3, SlotNotNil
<1>16. Adds(t, u, g)
  BY ONLY <1>15 DEF Adds
<1> QED
  BY <1>1, <1>11, <1>12, <1>13, <1>14, <1>16

\* namex() goes on to the inode i.
LEMMA NamexGoes ==
  ASSUME FSInv, NEW p \in Procs, NEW t, NEW T, InNamex(p, t, T), NEW e, e = t.ip, T[e].lock = None,
         NEW i \in Inums, dinode[i].nlink # 0,
         NEW L, L = ilock(T, e, None), NEW g, g = SlotOf(L, i), g # Nil, itable' = iget(L, i),
         NEW u \in ThreadType, Shape(u), u.iput = "test", u.dp = Nil, u.keep = t.keep,
         u.pc \notin ParentLookups, Adds(t, u, g), th' = [th EXCEPT ![p] = u],
         UNCHANGED <<dinode, dir, cwd, file, panicked>>
  PROVE  FSInv'
<1>1. /\ e \in Slots /\ T[e].inum \in Inums /\ dinode[T[e].inum].type # "free"
      /\ itable[e].ref > 0 => T[e].inum = itable[e].inum /\ Reach(p, e, itable[e].inum)
  BY InNamexFacts
<1>2. /\ TRel(p, T) /\ T[e].ref > 0
      /\ HasGood(p, e) \/ dinode[T[e].inum].nlink # 0
      /\ LookingUp(t) /\ t.keep = th[p].keep
      /\ th[p].puts = <<>> /\ th[p].dp = Nil
  BY <1>1 DEF InNamex, LookingUp
<1>3. /\ TRel(p, L)
      /\ \A f \in Slots : /\ L[f].ref = T[f].ref /\ L[f].lock = T[f].lock
                          /\ L[f].inum = T[f].inum
  <2>1. /\ TRel(p, L)
        /\ L[e].inum = T[e].inum /\ L[e].ref = T[e].ref /\ L[e].lock = None
        /\ \A f \in Slots \ {e} : L[f] = T[f]
    BY <1>1, <1>2, TRelLock
  <2> QED
    BY <2>1
<1>5. \A f \in Slots : itable[f].ref > 0 => L[f].ref > 0
  BY <1>3 DEF InNamex
<1>6. /\ TRel(p, itable') /\ g \in Slots
      /\ itable'[g].inum = i /\ itable'[g].ref = L[g].ref + 1 /\ itable'[g].lock = L[g].lock
      /\ \A f \in Slots \ {g} : itable'[f] = L[f]
  BY <1>3, <1>5, TRelIget
<1>9. th'[p] = u
  BY ThFrame
<1>10. \A f \in Slots : N(p, f)' = Held(cwd[p], file[p], t, f) + (IF g = f THEN 1 ELSE 0)
  BY <1>9 DEF N, Adds
<1>11. RefStep(p)
  <2> SUFFICES ASSUME NEW f \in Slots
               PROVE  itable'[f].ref = itable[f].ref + N(p, f)' - N(p, f)
    BY DEF RefStep
  <2>1. T[f].ref = itable[f].ref + Held(cwd[p], file[p], t, f) - N(p, f)
    BY DEF InNamex
  <2>2. itable[f].ref \in Nat /\ N(p, f) \in Nat
    BY RefCovers DEF FSInv
  <2>3. Held(cwd[p], file[p], t, f) \in Nat
    BY HeldFacts
  <2> QED
    BY <1>3, <1>6, <1>10, <2>1, <2>2, <2>3
<1>12. QGain(p)
  <2> SUFFICES ASSUME NEW f \in Slots, HasGood(p, f)'
               PROVE  HasGood(p, f) \/ dinode[itable'[f].inum].nlink # 0
    BY DEF QGain
  <2>1. CASE f = g
    BY <1>6, <2>1
  <2>2. CASE f # g
    <3>1. Good(cwd[p], file[p], t, f)
      BY <1>9, <2>2 DEF HasGood, Adds
    <3>2. cwd[p] = f \/ file[p] = f \/ e = f \/ th[p].keep = f
      BY <1>2, <3>1, Forms0, SlotNotNil DEF LookingUp
    <3>3. f # e => HasGood(p, f)
      BY <3>2 DEF HasGood, Good
    <3> QED
      BY <1>2, <1>3, <1>6, <2>2, <3>3
  <2> QED
    BY <2>1, <2>2
<1>13. Relocks(p, u)
  <2>1. \A f \in Slots : itable[f].lock # p
    BY <1>2, AtFacts, SlotNotNil
  <2> QED
    BY <1>3, <1>6, <2>1, SlotNotNil DEF Relocks, InNamex
<1>14. Found(u)
  <2>1. u.pc \notin {"create_new", "unlink_entry"}
    BY DEF Shape
  <2> QED
    BY <2>1 DEF Found
<1> QED
  BY <1>2, <1>6, <1>11, <1>12, <1>13, <1>14, MoveKept

\* One pass of the loop in namex().
LEMMA PassKept ==
  ASSUME FSInv, NEW p \in Procs, NEW t, NEW T, InNamex(p, t, T), Pass(p, t, T),
         UNCHANGED <<dinode, dir, cwd, file>>
  PROVE  FSInv'
<1> DEFINE e == t.ip
           L == ilock(T, e, None)
           i == dir[T[e].inum][Head(t.path)]
           rest == Tail(t.path)
<1>a. FSInv /\ InNamex(p, t, T) /\ UNCHANGED <<dinode, dir, cwd, file>> /\ p \in Procs
  OBVIOUS
<1>1. LookingUp(t) /\ t.keep = th[p].keep /\ t.op \in Lookups \cup ParentLookups
  BY RecParts DEF InNamex, LookingUp
<1>2. ASSUME th' = [th EXCEPT ![p] = Fail(t, <<e>>)],
             itable' = T \/ (itable' = L /\ T[e].lock = None), UNCHANGED panicked
      PROVE  FSInv'
  <2> DEFINE u == Fail(t, <<e>>)
  <2>1. /\ u \in ThreadType /\ Shape(u) /\ u.iput = "test" /\ u.dp = Nil /\ u.keep = t.keep
        /\ u.pc \notin ParentLookups
        /\ Same(t, u)
    BY <1>1, FailFacts
  <2>2. th' = [th EXCEPT ![p] = u] /\ UNCHANGED panicked
    BY <1>2
  <2>3. itable' = T \/ (itable' = ilock(T, t.ip, None) /\ T[t.ip].lock = None)
    BY <1>2
  <2> HIDE DEF u
  <2> QED
    BY ONLY <1>a, <1>1, <2>1, <2>2, <2>3, NamexEnds
<1>3. ASSUME th' = [th EXCEPT ![p] = [t EXCEPT !.pc = t.op]],
             t.op \in ParentLookups => t.path # <<>> /\ dinode[T[e].inum].type = "DIR",
             itable' = T \/ (itable' = L /\ T[e].lock = None), UNCHANGED panicked
      PROVE  FSInv'
  <2> DEFINE u == [t EXCEPT !.pc = t.op]
  <2>1. /\ u \in ThreadType /\ Shape(u) /\ u.iput = "test" /\ u.dp = Nil /\ u.keep = t.keep
        /\ u.pc = t.op /\ u.ip = t.ip
        /\ Same(t, u)
    <3>1. t.op \in ParentLookups => t.path # <<>>
      BY <1>3
    <3> QED
      BY ONLY <1>1, <3>1, DoneFacts
  <2>2. th' = [th EXCEPT ![p] = u] /\ UNCHANGED panicked
    BY <1>3
  <2>3. itable' = T \/ (itable' = ilock(T, t.ip, None) /\ T[t.ip].lock = None)
    BY <1>3
  <2>4. t.op \in ParentLookups => dinode[T[t.ip].inum].type = "DIR"
    BY <1>3
  <2> HIDE DEF u
  <2> QED
    BY ONLY <1>a, <1>1, <2>1, <2>2, <2>3, <2>4, NamexEnds
<1>4. CASE t.path = <<>>
  <2>1. itable' = T /\ UNCHANGED panicked
    BY <1>4 DEF Pass
  <2>2. CASE t.op \in Lookups
    <3>1. th' = [th EXCEPT ![p] = [t EXCEPT !.pc = t.op]]
      BY <1>4, <2>2 DEF Pass
    <3>2. t.op \notin ParentLookups
      BY <2>2 DEF Lookups, ParentLookups
    <3> QED
      BY <1>3, <2>1, <3>1, <3>2
  <2>3. CASE t.op \notin Lookups
    <3>1. th' = [th EXCEPT ![p] = Fail(t, <<e>>)]
      BY <1>4, <2>3 DEF Pass
    <3> QED
      BY <1>2, <2>1, <3>1
  <2> QED
    BY <2>2, <2>3
<1>5. CASE t.path # <<>>
  <2>1. /\ e \in Slots /\ T[e].inum \in Inums /\ dinode[T[e].inum].type # "free"
        /\ itable[e].ref > 0 => T[e].inum = itable[e].inum /\ Reach(p, e, itable[e].inum)
    BY InNamexFacts
  <2>2. L[e].type = dinode[T[e].inum].type
    <3>1. TRel(p, T) /\ T[e].ref > 0
      BY DEF InNamex
    <3> QED
      BY <2>1, <3>1, TRelLock
  <2>3. T[e].lock = None
    BY <1>5 DEF Pass, Lockable
  <2>4. CASE L[e].type = "DIR" /\ t.op \in ParentLookups /\ rest = <<>>
    <3>1. itable' = L /\ th' = [th EXCEPT ![p] = [t EXCEPT !.pc = t.op]] /\ UNCHANGED panicked
      BY <1>5, <2>4 DEF Pass
    <3> QED
      BY <1>3, <1>5, <2>2, <2>3, <2>4, <3>1
  <2>5. CASE /\ ~(L[e].type = "DIR" /\ t.op \in ParentLookups /\ rest = <<>>)
             /\ L[e].type # "DIR" \/ i = Nil
    <3>1. itable' = L /\ th' = [th EXCEPT ![p] = Fail(t, <<e>>)] /\ UNCHANGED panicked
      BY <1>5, <2>5 DEF Pass
    <3> QED
      BY <1>2, <2>3, <3>1
  <2>6. CASE /\ ~(L[e].type = "DIR" /\ t.op \in ParentLookups /\ rest = <<>>)
             /\ ~(L[e].type # "DIR" \/ i = Nil) /\ SlotOf(L, i) = Nil
    <3>1. panicked' = "iget: no inodes" /\ UNCHANGED <<itable, th>>
      BY <1>5, <2>6 DEF Pass
    <3> QED
      BY <3>1, PanicKept
  <2>7. CASE /\ ~(L[e].type = "DIR" /\ t.op \in ParentLookups /\ rest = <<>>)
             /\ ~(L[e].type # "DIR" \/ i = Nil) /\ SlotOf(L, i) # Nil
    <3>1. /\ itable' = iget(L, i)
          /\ th' = [th EXCEPT ![p] = [t EXCEPT !.pc = IF rest = <<>> THEN t.op ELSE "namex",
                                        !.path = rest, !.ip = SlotOf(L, i), !.puts = <<e>>]]
          /\ UNCHANGED panicked
      BY <1>5, <2>7 DEF Pass
    <3> DEFINE g == SlotOf(L, i)
               l == IF rest = <<>> THEN t.op ELSE "namex"
               u == [t EXCEPT !.pc = l, !.path = rest, !.ip = g, !.puts = <<e>>]
    <3>2. th' = [th EXCEPT ![p] = u] /\ UNCHANGED panicked
      BY <3>1
    <3>3. i \in Inums /\ dinode[i].nlink # 0
      <4>1. Head(t.path) \in Names
        BY <1>1, <1>5, RecParts DEF LookingUp
      <4>2. T[t.ip].inum \in Inums /\ dir[T[t.ip].inum][Head(t.path)] # Nil
        BY <2>1, <2>7
      <4> QED
        BY ONLY <1>a, <4>1, <4>2, EntryLinked
    <3>4. g \in Slots
      <4>1. /\ TRel(p, T) /\ T[e].ref > 0
        BY DEF InNamex
      <4>2. TRel(p, L)
        BY <2>1, <4>1, TRelLock
      <4>3. L \in [Slots -> Entry] /\ SlotOf(L, i) # Nil
        BY <2>7, <4>2 DEF TRel
      <4> HIDE DEF L, i
      <4> QED
        BY ONLY <4>3, SlotFacts
    <3>5. /\ u \in ThreadType /\ Shape(u) /\ u.iput = "test" /\ u.dp = Nil /\ u.keep = t.keep
          /\ u.pc \notin ParentLookups
          /\ Adds(t, u, g)
      <4>1. GoesOn(t, l, rest)
        BY <1>5, <2>7 DEF GoesOn
      <4>2. u = Going(t, l, rest, g)
        BY DEF Going
      <4>3. LookingUp(t)
        BY <1>1
      <4> HIDE DEF u, g, l, rest
      <4> QED
        BY ONLY <3>4, <4>1, <4>2, <4>3, GoFacts
    <3>6. L = ilock(T, t.ip, None) /\ g = SlotOf(L, i) /\ g # Nil /\ itable' = iget(L, i) /\ T[t.ip].lock = None
      BY <2>3, <2>7, <3>1
    <3> HIDE DEF u, g, i, L
    <3> QED
      BY ONLY <1>a, <3>2, <3>3, <3>5, <3>6, NamexGoes
  <2> QED
    BY <2>4, <2>5, <2>6, <2>7
<1> QED
  BY <1>4, <1>5

\* A pass of namex() keeps the invariant.
LEMMA Step_namex ==
  ASSUME FSInv, NEW p \in Procs, namex(p)
  PROVE  FSInv'
<1>1. At(p, "namex") /\ Pass(p, th[p], itable) /\ UNCHANGED <<dinode, dir, cwd, file>>
  BY DEF namex
<1>2. /\ th[p].puts = <<>> /\ th[p].pc = "namex" /\ th[p].dp = Nil
      /\ th[p].ip \in Slots /\ HasGood(p, th[p].ip)
  BY <1>1, AtLookup
<1>3. th[p] \in ThreadType /\ Shape(th[p]) /\ th[p].iput = "test"
  BY <1>2, AtFacts
<1>4. LookingUp(th[p])
  BY <1>2, <1>3 DEF LookingUp, Shape
<1>5. TRel(p, itable) /\ itable[th[p].ip].ref > 0
  BY <1>2, TRelSelf, GoodFacts
<1>6. \A f \in Slots : itable[f].ref = itable[f].ref + Held(cwd[p], file[p], th[p], f) - N(p, f)
  <2> TAKE f \in Slots
  <2>1. itable[f].ref \in Nat /\ N(p, f) \in Nat /\ N(p, f) = Held(cwd[p], file[p], th[p], f)
    BY RefCovers DEF FSInv, N
  <2> QED
    BY <2>1
<1>7. InNamex(p, th[p], itable)
  BY <1>2, <1>4, <1>5, <1>6 DEF InNamex
<1> QED
  BY <1>1, <1>7, PassKept

\* A call before its first lookup.
Starting(op, path, new, e) == [Idle EXCEPT !.op = op, !.path = path, !.new = new, !.ip = e]

\* What such a call holds.
LEMMA StartFacts ==
  ASSUME NEW op \in (Lookups \cup ParentLookups) \ {"linknew"}, NEW path \in Seq(Names),
         NEW new \in Seq(Names), NEW e \in Slots, NEW t, t = Starting(op, path, new, e)
  PROVE  /\ LookingUp(t) /\ t.op = op /\ t.keep = Nil
         /\ \A c, o : \A f \in Slots : Held(c, o, t, f) =
              (IF c = f THEN 1 ELSE 0) + (IF o = f THEN 1 ELSE 0) + (IF e = f THEN 1 ELSE 0)
<1> DEFINE nil == <<>>
<1>1. t = Rec("idle", op, path, new, e, Nil, Nil, nil, "test")
  BY DEF Starting, Idle, Rec
<1>2. nil \in Seq(Slots) /\ nil = <<>>
  OBVIOUS
<1> HIDE DEF nil
<1>3. /\ t.pc = "idle" /\ t.op = op /\ t.ip = e /\ t.dp = Nil /\ t.keep = Nil /\ t.puts = nil
      /\ t.iput = "test"
  BY ONLY <1>1, RecFields
<1>4. t \in ThreadType
  <2>1. /\ "idle" \in PC /\ op \in Lookups \cup ParentLookups /\ e \in Slots \cup {Nil}
        /\ Nil \in Slots \cup {Nil} /\ nil \in Seq(Slots) /\ "test" \in {"test", "free", "dec"}
        /\ path \in Seq(Names) /\ new \in Seq(Names)
    BY <1>2 DEF PC
  <2> QED
    BY ONLY <1>1, <2>1 DEF Rec, ThreadType
<1>5. LookingUp(t)
  BY <1>2, <1>3, <1>4 DEF LookingUp
<1>6. ASSUME NEW c, NEW o, NEW f \in Slots
      PROVE  Held(c, o, t, f) =
              (IF c = f THEN 1 ELSE 0) + (IF o = f THEN 1 ELSE 0) + (IF e = f THEN 1 ELSE 0)
  <2>1. t.puts = <<>>
    BY <1>2, <1>3
  <2>2. Held(c, o, t, f) = (IF c = f THEN 1 ELSE 0) + (IF o = f THEN 1 ELSE 0)
              + (IF t.ip = f THEN 1 ELSE 0) + (IF t.dp = f THEN 1 ELSE 0)
              + (IF t.keep = f THEN 1 ELSE 0)
    BY ONLY <2>1, Forms0
  <2> QED
    BY <1>3, <2>2, SlotNotNil
<1> QED
  BY <1>3, <1>5, <1>6

\* The start of a system call keeps the invariant.
LEMMA Step_call ==
  ASSUME FSInv, NEW p \in Procs, NoUp, NEW op \in Calls[p], NEW abs \in BOOLEAN, NEW path \in Paths,
         NEW new \in Paths \cup {<<>>}, call(p, op, abs, path, new)
  PROVE  FSInv'
<1>1. th[p].pc = "idle" /\ th[p].puts = <<>> /\ UNCHANGED <<dinode, dir, cwd, file>>
  BY DEF call, At
<1>2. /\ cwd[p] \in Slots /\ file[p] \in Slots \cup {Nil} /\ Shape(th[p])
      /\ \A f : N(p, f) = (IF cwd[p] = f THEN 1 ELSE 0) + (IF file[p] = f THEN 1 ELSE 0)
            + (IF th[p].ip = f THEN 1 ELSE 0) + (IF th[p].dp = f THEN 1 ELSE 0)
            + (IF th[p].keep = f THEN 1 ELSE 0)
      /\ HasGood(p, cwd[p])
  BY <1>1, AtFacts
<1>3. th[p].ip = Nil /\ th[p].dp = Nil /\ th[p].keep = Nil
  BY <1>1, <1>2 DEF Shape
<1>4. \A f \in Slots : N(p, f) = (IF cwd[p] = f THEN 1 ELSE 0) + (IF file[p] = f THEN 1 ELSE 0)
  BY <1>2, <1>3, SlotNotNil
<1>5. /\ op \in (Lookups \cup ParentLookups) \ {"linknew"}
      /\ path \in Seq(Names) /\ new \in Seq(Names)
  <2>1. <<>> \in Seq(Names)
    OBVIOUS
  <2> QED
    BY <2>1, CallsAssumption DEF NoUp
<1>6. TRel(p, itable)
  BY TRelSelf
<1>7. CASE abs /\ SlotOf(itable, ROOTINO) = Nil
  <2>1. panicked' = "iget: no inodes" /\ UNCHANGED <<itable, th>>
    BY <1>7 DEF call
  <2> QED
    BY <1>1, <2>1, PanicKept
<1>8. ASSUME NEW e \in Slots, NEW T, TRel(p, T), Pass(p, Starting(op, path, new, e), T),
             T[e].ref = itable[e].ref + 1, T[e].lock = itable[e].lock,
             \A f \in Slots \ {e} : T[f] = itable[f],
             HasGood(p, e) \/ dinode[T[e].inum].nlink # 0
      PROVE  FSInv'
  <2> DEFINE t == Starting(op, path, new, e)
  <2>1. /\ LookingUp(t) /\ t.op = op /\ t.keep = Nil
        /\ \A c, o : \A f \in Slots : Held(c, o, t, f) =
              (IF c = f THEN 1 ELSE 0) + (IF o = f THEN 1 ELSE 0) + (IF e = f THEN 1 ELSE 0)
    BY ONLY <1>5, <1>8, StartFacts
  <2>a. t.ip = e
    BY <1>5 DEF Starting, Idle
  <2>b. Pass(p, t, T)
    BY <1>8
  <2> HIDE DEF t
  <2>2. ASSUME NEW f \in Slots
        PROVE  /\ T[f].lock = itable[f].lock
               /\ T[f].ref = itable[f].ref + Held(cwd[p], file[p], t, f) - N(p, f)
               /\ itable[f].ref > 0 => T[f].ref > 0
    <3>1. itable[f].ref \in Nat /\ N(p, f) \in Nat
      BY RefCovers DEF FSInv
    <3>2. Held(cwd[p], file[p], t, f) = N(p, f) + (IF e = f THEN 1 ELSE 0)
      BY <1>4, <2>1
    <3>3. T[f].lock = itable[f].lock /\ T[f].ref = itable[f].ref + (IF e = f THEN 1 ELSE 0)
      BY <1>8, <3>1
    <3> QED
      BY <3>1, <3>2, <3>3
  <2>3. T[e].ref > 0
    <3>1. itable[e].ref \in Nat
      BY RefCovers DEF FSInv
    <3> QED
      BY <1>8, <3>1
  <2>4. InNamex(p, t, T)
    BY <1>1, <1>3, <1>8, <2>a, <2>1, <2>2, <2>3 DEF InNamex
  <2> QED
    BY <1>1, <2>b, <2>4, PassKept
<1>9. CASE abs /\ SlotOf(itable, ROOTINO) # Nil
  <2> DEFINE e == SlotOf(itable, ROOTINO)
             T == iget(itable, ROOTINO)
  <2>1. Pass(p, Starting(op, path, new, e), T)
    BY <1>9 DEF call, Starting
  <2>2. ROOTINO \in Inums /\ dinode[ROOTINO].nlink # 0
    BY RootLinked
  <2>3. /\ TRel(p, T) /\ e \in Slots
        /\ T[e].inum = ROOTINO /\ T[e].ref = itable[e].ref + 1 /\ T[e].lock = itable[e].lock
        /\ \A f \in Slots \ {e} : T[f] = itable[f]
    BY <1>6, <1>9, <2>2, TRelIget
  <2> HIDE DEF e, T
  <2> QED
    BY <1>8, <2>1, <2>2, <2>3
<1>10. CASE ~abs
  <2> DEFINE e == cwd[p]
             T == idup(itable, e)
  <2>1. Pass(p, Starting(op, path, new, e), T)
    BY <1>10 DEF call, Starting
  <2>2. e \in Slots /\ HasGood(p, e) /\ itable[e].ref > 0
    BY <1>2, GoodFacts
  <2>3. /\ TRel(p, T)
        /\ T[e].inum = itable[e].inum /\ T[e].ref = itable[e].ref + 1 /\ T[e].lock = itable[e].lock
        /\ \A f \in Slots \ {e} : T[f] = itable[f]
    BY <1>6, <2>2, TRelIdup
  <2> HIDE DEF e, T
  <2> QED
    BY <1>8, <2>1, <2>2, <2>3
<1> QED
  BY <1>7, <1>9, <1>10
-----------------------------------------------------------------------------
(***************************************************************************)
(* A name that is found in the parent directory.                           *)
(***************************************************************************)

\* The entry for an inode depends on the references only.
LEMMA SlotSame ==
  ASSUME NEW T, NEW U, \A f \in Slots : U[f].ref = T[f].ref /\ U[f].inum = T[f].inum, NEW i
  PROVE  SlotOf(U, i) = SlotOf(T, i)
<1>1. Has(U, i) = Has(T, i) /\ Free(U) = Free(T)
  BY DEF Has, Free
<1> QED
  BY <1>1 DEF SlotOf

\* V is the inode table with p's lock on entry d, for a call that becomes u.
LockedFor(p, d, V, u) ==
    /\ TRel(p, V)
    /\ \A f \in Slots : /\ V[f].ref = itable[f].ref /\ V[f].inum = itable[f].inum
                        /\ V[f].lock = IF u.dp = f THEN p ELSE itable[f].lock
    /\ V[d].valid /\ u.dp \in {Nil, d}

\* The call looks at the inode i of an entry in the directory it has locked.
LEMMA FoundKept ==
  ASSUME FSInv, NEW p \in Procs, th[p].puts = <<>>, th[p].dp = Nil,
         NEW d \in Slots, HasGood(p, d), itable[d].lock = None,
         dinode[itable[d].inum].type = "DIR", NEW i \in Inums, dinode[i].nlink # 0,
         NEW u \in ThreadType, Shape(u), u.iput = "test", u.keep = th[p].keep,
         u.pc \notin ParentLookups, u.pc # "create_new",
         u.pc = "unlink_entry" => u.dp = d /\ u.ip = SlotOf(itable, i) /\ dir[itable[d].inum][Head(u.path)] = i,
         NEW g, g = SlotOf(itable, i), g # Nil, Adds(th[p], u, g), th' = [th EXCEPT ![p] = u],
         NEW V, LockedFor(p, d, V, u), itable' = iget(V, i),
         UNCHANGED <<dinode, dir, cwd, file, panicked>>
  PROVE  FSInv'
<1>1. g = SlotOf(V, i)
  BY SlotSame DEF LockedFor
<1>2. \A f \in Slots : itable[f].ref > 0 => V[f].ref > 0
  BY DEF LockedFor
<1>3. /\ TRel(p, itable') /\ g \in Slots
      /\ itable'[g].inum = i /\ itable'[g].ref = V[g].ref + 1 /\ itable'[g].lock = V[g].lock
      /\ V[g].ref > 0 => V[g].inum = i /\ itable'[g].valid = V[g].valid
      /\ \A f \in Slots \ {g} : itable'[f] = V[f]
  BY <1>1, <1>2, TRelIget DEF LockedFor
<1>4. th'[p] = u
  BY ThFrame
<1>5. \A f \in Slots : N(p, f)' = N(p, f) + (IF g = f THEN 1 ELSE 0)
  BY <1>4 DEF N, Adds
<1>6. RefStep(p)
  <2> SUFFICES ASSUME NEW f \in Slots
               PROVE  itable'[f].ref = itable[f].ref + N(p, f)' - N(p, f)
    BY DEF RefStep
  <2>1. itable[f].ref \in Nat /\ N(p, f) \in Nat
    BY RefCovers DEF FSInv
  <2>2. V[f].ref = itable[f].ref
    BY DEF LockedFor
  <2> QED
    BY <1>3, <1>5, <2>1, <2>2
<1>7. QGain(p)
  <2> SUFFICES ASSUME NEW f \in Slots, HasGood(p, f)'
               PROVE  HasGood(p, f) \/ f = g
    BY <1>3 DEF QGain
  <2> QED
    BY <1>4 DEF HasGood, Adds
<1>8. Relocks(p, u)
  <2>1. \A f \in Slots : itable[f].lock # p
    BY AtFacts, SlotNotNil
  <2>2. \A f \in Slots : itable'[f].lock = IF u.dp = f THEN p ELSE itable[f].lock
    BY <1>3 DEF LockedFor
  <2>3. \A f \in Slots : u.dp = f => itable[f].lock = None
    BY SlotNotNil DEF LockedFor
  <2> QED
    BY <2>1, <2>2, <2>3 DEF Relocks
<1>9. Found(u)
  <2>1. itable[d].ref > 0
    BY GoodFacts
  <2>2. itable'[d].inum = itable[d].inum /\ itable'[d].valid
    BY <1>3, <2>1 DEF LockedFor
  <2> QED
    BY <1>3, <2>2 DEF Found, LockedFor
<1> QED
  BY <1>3, <1>6, <1>7, <1>8, <1>9, MoveKept

\* A call at the label of a parent lookup has found its directory.
LEMMA AtParent ==
  ASSUME FSInv, NEW p \in Procs, NEW l \in ParentLookups, At(p, l), NEW d, d = th[p].ip
  PROVE  /\ th[p].puts = <<>> /\ th[p].dp = Nil /\ th[p].iput = "test" /\ th[p].op = l /\ th[p].pc = l
         /\ d \in Slots /\ HasGood(p, d) /\ itable[d].ref > 0 /\ itable[d].inum \in Inums
         /\ dinode[itable[d].inum].type = "DIR"
         /\ l # "linknew" => th[p].keep = Nil
         /\ l = "linknew" => th[p].keep # Nil
         /\ th[p] \in ThreadType /\ th[p].path # <<>> /\ Head(th[p].path) \in Names
<1>1. /\ th[p].puts = <<>> /\ th[p].pc = l /\ th[p].dp = Nil
      /\ th[p].ip \in Slots /\ HasGood(p, th[p].ip)
      /\ (l # "namex" /\ l # "linknew") => th[p].keep = Nil
  BY AtLookup
<1>2. th[p] \in ThreadType /\ Shape(th[p]) /\ th[p].iput = "test"
  BY <1>1, AtFacts
<1>3. itable[d].ref > 0 /\ itable[d].inum \in Inums
  BY <1>1, GoodFacts
<1>4. dinode[itable[d].inum].type = "DIR"
  BY <1>1 DEF FSInv, ThreadInv, Local
<1>5. l # "namex"
  BY DEF ParentLookups
<1>6. th[p].op = l /\ th[p].path # <<>> /\ (l = "linknew" => th[p].keep # Nil)
  BY <1>1, <1>2 DEF Shape
<1>7. Head(th[p].path) \in Names
  BY <1>2, <1>6, RecParts
<1> QED
  BY <1>1, <1>2, <1>3, <1>4, <1>5, <1>6, <1>7

\* The parent directory, locked; and unlocked again.
LEMMA LockParent ==
  ASSUME FSInv, NEW p \in Procs, NEW d \in Slots, HasGood(p, d), itable[d].lock = None,
         NEW u, NEW V,
         (V = ilock(itable, d, p) /\ u.dp = d) \/ (V = iunlock(ilock(itable, d, p), d) /\ u.dp = Nil)
  PROVE  LockedFor(p, d, V, u)
<1>1. itable[d].ref > 0 /\ dinode[itable[d].inum].type # "free" /\ Reach(p, d, itable[d].inum)
  BY GoodFacts DEF Reach
<1>2. CASE V = ilock(itable, d, p) /\ u.dp = d
  <2>1. /\ TRel(p, V) /\ V[d].valid
        /\ V[d].inum = itable[d].inum /\ V[d].ref = itable[d].ref /\ V[d].lock = p
        /\ \A f \in Slots \ {d} : V[f] = itable[f]
    BY <1>1, <1>2, TRelSelf, TRelLock
  <2> QED
    BY <1>2, <2>1 DEF LockedFor
<1>3. CASE V = iunlock(ilock(itable, d, p), d) /\ u.dp = Nil
  <2>1. /\ TRel(p, V) /\ V[d].valid
        /\ \A f \in Slots : /\ V[f].ref = itable[f].ref /\ V[f].lock = itable[f].lock
                            /\ V[f].inum = itable[f].inum
    BY <1>3, Touched
  <2> QED
    BY <1>3, <2>1, SlotNotNil DEF LockedFor
<1> QED
  BY <1>2, <1>3

\* The inode table with the parent directory locked.
LEMMA ParentTable ==
  ASSUME FSInv, NEW p \in Procs, NEW d \in Slots, HasGood(p, d), NEW T, T = ilock(itable, d, p)
  PROVE  /\ TRel(p, T) /\ T \in [Slots -> Entry] /\ T[d].valid
         /\ T[d].type = dinode[itable[d].inum].type /\ T[d].nlink = dinode[itable[d].inum].nlink
         /\ T[d].lock = p
         /\ \A f \in Slots : T[f].ref = itable[f].ref /\ T[f].inum = itable[f].inum
         /\ \A f \in Slots \ {d} : T[f] = itable[f]
         /\ \A i : SlotOf(T, i) = SlotOf(itable, i)
<1>1. itable[d].ref > 0 /\ dinode[itable[d].inum].type # "free" /\ Reach(p, d, itable[d].inum)
  BY GoodFacts DEF Reach
<1>2. /\ TRel(p, T) /\ T[d].inum = itable[d].inum /\ T[d].ref = itable[d].ref /\ T[d].valid
      /\ T[d].type = dinode[itable[d].inum].type /\ T[d].nlink = dinode[itable[d].inum].nlink
      /\ T[d].lock = p
      /\ \A f \in Slots \ {d} : T[f] = itable[f]
  BY <1>1, TRelSelf, TRelLock
<1>3. \A f \in Slots : T[f].ref = itable[f].ref /\ T[f].inum = itable[f].inum
  BY <1>2
<1>4. \A i : SlotOf(T, i) = SlotOf(itable, i)
  BY ONLY <1>3, SlotSame
<1>5. T \in [Slots -> Entry]
  BY <1>2 DEF TRel
<1> QED
  BY <1>2, <1>3, <1>4, <1>5

\* The states of a call that has found an entry: in create(), with the
\* parent to put; in sys_unlink(), with the parent locked; in sys_link(),
\* where dirlink() puts what it found.
ToFound(t, g) == [t EXCEPT !.pc = "create_found", !.ip = g, !.puts = <<t.ip>>]
ToUnlink(t, g) == [t EXCEPT !.pc = "unlink_entry", !.dp = t.ip, !.ip = g]
ToExists(t, g) == [t EXCEPT !.pc = "link_exists", !.ip = Nil, !.dp = t.ip, !.puts = <<g>>]

\* A call that has found its parent directory.
InParent(t) ==
    /\ t \in ThreadType /\ t.puts = <<>> /\ t.iput = "test" /\ t.dp = Nil
    /\ t.ip \in Slots /\ t.path # <<>>
    /\ t.keep # Nil <=> t.op = "linknew"

\* Where the pointers of such a call go.
LEMMA AddsFrom ==
  ASSUME NEW t, InParent(t), NEW d, d = t.ip, NEW g \in Slots, NEW u, u.keep = t.keep, u.iput = "test",
         \/ u.ip = g /\ u.dp = Nil /\ u.puts = <<d>>
         \/ u.ip = g /\ u.dp = d /\ u.puts = <<>>
         \/ u.ip = Nil /\ u.dp = d /\ u.puts = <<g>>
  PROVE  Adds(t, u, g)
<1>1. t.puts = <<>> /\ t.dp = Nil
  BY DEF InParent
<1> SUFFICES ASSUME NEW c, NEW o, NEW f \in Slots
             PROVE  /\ Held(c, o, u, f) = Held(c, o, t, f) + (IF g = f THEN 1 ELSE 0)
                    /\ Good(c, o, u, f) => Good(c, o, t, f) \/ f = g
  BY DEF Adds
<1>2. /\ Held(c, o, t, f) = (IF c = f THEN 1 ELSE 0) + (IF o = f THEN 1 ELSE 0)
              + (IF t.ip = f THEN 1 ELSE 0) + (IF t.dp = f THEN 1 ELSE 0)
              + (IF t.keep = f THEN 1 ELSE 0)
      /\ Good(c, o, t, f) <=> c = f \/ o = f \/ t.ip = f \/ t.dp = f \/ t.keep = f
  BY ONLY <1>1, Forms0
<1>3. ASSUME NEW a, u.puts = <<a>>
      PROVE  /\ Held(c, o, u, f) = (IF c = f THEN 1 ELSE 0) + (IF o = f THEN 1 ELSE 0)
              + (IF u.ip = f THEN 1 ELSE 0) + (IF u.dp = f THEN 1 ELSE 0)
              + (IF u.keep = f THEN 1 ELSE 0) + (IF a = f THEN 1 ELSE 0)
             /\ Good(c, o, u, f) <=>
              c = f \/ o = f \/ u.ip = f \/ u.dp = f \/ u.keep = f \/ (u.iput # "dec" /\ a = f)
  BY ONLY <1>3, Forms1
<1>4. ASSUME u.puts = <<>>
      PROVE  /\ Held(c, o, u, f) = (IF c = f THEN 1 ELSE 0) + (IF o = f THEN 1 ELSE 0)
              + (IF u.ip = f THEN 1 ELSE 0) + (IF u.dp = f THEN 1 ELSE 0)
              + (IF u.keep = f THEN 1 ELSE 0)
             /\ Good(c, o, u, f) <=>
              c = f \/ o = f \/ u.ip = f \/ u.dp = f \/ u.keep = f
  BY ONLY <1>4, Forms0
<1>5. CASE u.ip = g /\ u.dp = Nil /\ u.puts = <<d>>
  BY <1>1, <1>2, <1>3, <1>5, SlotNotNil
<1>6. CASE u.ip = g /\ u.dp = d /\ u.puts = <<>>
  BY <1>1, <1>2, <1>4, <1>6, SlotNotNil
<1>7. CASE u.ip = Nil /\ u.dp = d /\ u.puts = <<g>>
  BY <1>1, <1>2, <1>3, <1>7, SlotNotNil
<1> QED
  BY <1>5, <1>6, <1>7

\* What a call of create() that found the name holds.
LEMMA ToFoundFacts ==
  ASSUME NEW t, InParent(t), t.op \in {"create", "mkdir"}, NEW g \in Slots, NEW u, u = ToFound(t, g)
  PROVE  /\ u \in ThreadType /\ Shape(u) /\ u.iput = "test" /\ u.keep = t.keep
         /\ u.pc = "create_found" /\ u.dp = Nil /\ Adds(t, u, g)
<1> DEFINE s == <<t.ip>>
<1>1. /\ t \in ThreadType /\ t.puts = <<>> /\ t.iput = "test" /\ t.dp = Nil
      /\ t.ip \in Slots /\ t.path # <<>>
      /\ t.keep # Nil <=> t.op = "linknew"
  BY DEF InParent
<1>2. s \in Seq(Slots) /\ s # <<>> /\ Len(s) <= 2 /\ s = <<t.ip>>
  BY <1>1
<1>3. u = SetPuts(SetIp(SetPc(t, "create_found"), g), s)
  BY DEF ToFound, SetPuts, SetIp, SetPc
<1> HIDE DEF s
<1>4. t = Rec(t.pc, t.op, t.path, t.new, t.ip, t.dp, t.keep, t.puts, t.iput)
  BY <1>1, RecParts
<1>5. SetPc(t, "create_found") = Rec("create_found", t.op, t.path, t.new, t.ip, t.dp, t.keep, t.puts, t.iput)
  BY ONLY <1>4, SetPcRec
<1>6. SetIp(SetPc(t, "create_found"), g)
         = Rec("create_found", t.op, t.path, t.new, g, t.dp, t.keep, t.puts, t.iput)
  BY ONLY <1>5, SetIpRec
<1>7. u = Rec("create_found", t.op, t.path, t.new, g, t.dp, t.keep, s, t.iput)
  BY ONLY <1>3, <1>6, SetPutsRec
<1>8. /\ u.pc = "create_found" /\ u.op = t.op /\ u.path = t.path /\ u.ip = g /\ u.dp = t.dp /\ u.keep = t.keep
      /\ u.puts = s /\ u.iput = t.iput
  BY ONLY <1>7, RecFields
<1>9. u \in ThreadType
  <2>1. /\ "create_found" \in PC /\ g \in Slots \cup {Nil} /\ t.dp \in Slots \cup {Nil}
        /\ t.op \in Lookups \cup ParentLookups /\ t.new \in Seq(Names) /\ t.path \in Seq(Names)
        /\ t.keep \in Slots \cup {Nil} /\ t.iput \in {"test", "free", "dec"} /\ s \in Seq(Slots)
    BY <1>1, <1>2, RecParts DEF PC
  <2> QED
    BY ONLY <1>7, <2>1 DEF Rec, ThreadType
<1>10. Shape(u)
  BY <1>1, <1>2, <1>8, SlotNotNil DEF Shape, Lookups, ParentLookups
<1>11. Adds(t, u, g)
  BY <1>1, <1>2, <1>8, AddsFrom
<1> QED
  BY <1>1, <1>8, <1>9, <1>10, <1>11

\* What a call of sys_unlink() that found the name holds.
LEMMA ToUnlinkFacts ==
  ASSUME NEW t, InParent(t), t.op = "unlink", NEW g \in Slots, NEW u, u = ToUnlink(t, g)
  PROVE  /\ u \in ThreadType /\ Shape(u) /\ u.iput = "test" /\ u.keep = t.keep
         /\ u.pc = "unlink_entry" /\ u.dp = t.ip /\ u.ip = g /\ u.path = t.path /\ Adds(t, u, g)
<1>1. /\ t \in ThreadType /\ t.puts = <<>> /\ t.iput = "test" /\ t.dp = Nil
      /\ t.ip \in Slots /\ t.path # <<>>
      /\ t.keep # Nil <=> t.op = "linknew"
  BY DEF InParent
<1>3. u = SetIp(SetDp(SetPc(t, "unlink_entry"), t.ip), g)
  BY DEF ToUnlink, SetDp, SetIp, SetPc
<1>4. t = Rec(t.pc, t.op, t.path, t.new, t.ip, t.dp, t.keep, t.puts, t.iput)
  BY <1>1, RecParts
<1>5. SetPc(t, "unlink_entry") = Rec("unlink_entry", t.op, t.path, t.new, t.ip, t.dp, t.keep, t.puts, t.iput)
  BY ONLY <1>4, SetPcRec
<1>6. SetDp(SetPc(t, "unlink_entry"), t.ip)
         = Rec("unlink_entry", t.op, t.path, t.new, t.ip, t.ip, t.keep, t.puts, t.iput)
  BY ONLY <1>5, SetDpRec
<1>7. u = Rec("unlink_entry", t.op, t.path, t.new, g, t.ip, t.keep, t.puts, t.iput)
  BY ONLY <1>3, <1>6, SetIpRec
<1>8. /\ u.pc = "unlink_entry" /\ u.op = t.op /\ u.path = t.path /\ u.ip = g /\ u.dp = t.ip /\ u.keep = t.keep
      /\ u.puts = t.puts /\ u.iput = t.iput
  BY ONLY <1>7, RecFields
<1>9. u \in ThreadType
  <2>1. /\ "unlink_entry" \in PC /\ g \in Slots \cup {Nil} /\ t.ip \in Slots \cup {Nil}
        /\ t.op \in Lookups \cup ParentLookups /\ t.new \in Seq(Names) /\ t.path \in Seq(Names)
        /\ t.keep \in Slots \cup {Nil} /\ t.iput \in {"test", "free", "dec"} /\ t.puts \in Seq(Slots)
    BY <1>1, RecParts DEF PC
  <2> QED
    BY ONLY <1>7, <2>1 DEF Rec, ThreadType
<1>10. Shape(u)
  BY <1>1, <1>8, SlotNotNil DEF Shape, Lookups, ParentLookups
<1>11. Adds(t, u, g)
  BY <1>1, <1>8, AddsFrom
<1> QED
  BY <1>1, <1>8, <1>9, <1>10, <1>11

\* What a call of sys_link() that found the name holds.
LEMMA ToExistsFacts ==
  ASSUME NEW t, InParent(t), t.op = "linknew", NEW g \in Slots, NEW u, u = ToExists(t, g)
  PROVE  /\ u \in ThreadType /\ Shape(u) /\ u.iput = "test" /\ u.keep = t.keep
         /\ u.pc = "link_exists" /\ u.dp = t.ip /\ Adds(t, u, g)
<1> DEFINE s == <<g>>
<1>1. /\ t \in ThreadType /\ t.puts = <<>> /\ t.iput = "test" /\ t.dp = Nil
      /\ t.ip \in Slots /\ t.path # <<>>
      /\ t.keep # Nil <=> t.op = "linknew"
  BY DEF InParent
<1>2. s \in Seq(Slots) /\ s # <<>> /\ Len(s) <= 2 /\ s = <<g>>
  BY <1>1
<1>3. u = SetPuts(SetDp(SetIp(SetPc(t, "link_exists"), Nil), t.ip), s)
  BY DEF ToExists, SetPuts, SetDp, SetIp, SetPc
<1> HIDE DEF s
<1>4. t = Rec(t.pc, t.op, t.path, t.new, t.ip, t.dp, t.keep, t.puts, t.iput)
  BY <1>1, RecParts
<1>5. SetPc(t, "link_exists") = Rec("link_exists", t.op, t.path, t.new, t.ip, t.dp, t.keep, t.puts, t.iput)
  BY ONLY <1>4, SetPcRec
<1>6. SetIp(SetPc(t, "link_exists"), Nil)
         = Rec("link_exists", t.op, t.path, t.new, Nil, t.dp, t.keep, t.puts, t.iput)
  BY ONLY <1>5, SetIpRec
<1>12. SetDp(SetIp(SetPc(t, "link_exists"), Nil), t.ip)
         = Rec("link_exists", t.op, t.path, t.new, Nil, t.ip, t.keep, t.puts, t.iput)
  BY ONLY <1>6, SetDpRec
<1>7. u = Rec("link_exists", t.op, t.path, t.new, Nil, t.ip, t.keep, s, t.iput)
  BY ONLY <1>3, <1>12, SetPutsRec
<1>8. /\ u.pc = "link_exists" /\ u.op = t.op /\ u.path = t.path /\ u.ip = Nil /\ u.dp = t.ip
      /\ u.keep = t.keep /\ u.puts = s /\ u.iput = t.iput
  BY ONLY <1>7, RecFields
<1>9. u \in ThreadType
  <2>1. /\ "link_exists" \in PC /\ Nil \in Slots \cup {Nil} /\ t.ip \in Slots \cup {Nil}
        /\ t.op \in Lookups \cup ParentLookups /\ t.new \in Seq(Names) /\ t.path \in Seq(Names)
        /\ t.keep \in Slots \cup {Nil} /\ t.iput \in {"test", "free", "dec"} /\ s \in Seq(Slots)
    BY <1>1, <1>2, RecParts DEF PC
  <2> QED
    BY ONLY <1>7, <2>1 DEF Rec, ThreadType
<1>10. Shape(u)
  BY <1>1, <1>2, <1>8, SlotNotNil DEF Shape, Lookups, ParentLookups
<1>11. Adds(t, u, g)
  BY <1>1, <1>2, <1>8, AddsFrom
<1> QED
  BY <1>1, <1>8, <1>9, <1>10, <1>11

\* The first half of sys_unlink() keeps the invariant.
LEMMA Step_sys_unlink ==
  ASSUME FSInv, NEW p \in Procs, sys_unlink(p)
  PROVE  FSInv'
<1> DEFINE t == th[p]
           d == t.ip
           T == ilock(itable, d, p)
           name == Head(t.path)
           i == dir[T[d].inum][name]
<1>1. At(p, "unlink") /\ "unlink" \in ParentLookups /\ "unlink" # "linknew"
  BY DEF sys_unlink, ParentLookups
<1>2. /\ t.puts = <<>> /\ t.dp = Nil /\ t.iput = "test" /\ t.op = "unlink" /\ t.pc = "unlink"
      /\ d \in Slots /\ HasGood(p, d) /\ itable[d].ref > 0 /\ itable[d].inum \in Inums
      /\ dinode[itable[d].inum].type = "DIR"
      /\ t.keep = Nil
      /\ t \in ThreadType /\ t.path # <<>> /\ name \in Names
  BY <1>1, AtParent
<1>3. itable[d].lock = None
  BY DEF sys_unlink, Lockable
<1>4. /\ TRel(p, T) /\ T \in [Slots -> Entry] /\ T[d].inum = itable[d].inum
      /\ \A k : SlotOf(T, k) = SlotOf(itable, k)
  <2>1. FSInv /\ p \in Procs /\ d \in Slots /\ HasGood(p, d) /\ T = ilock(itable, d, p)
    BY <1>2
  <2> QED
    BY ONLY <2>1, ParentTable
<1>5. name # DotDot
  BY <1>2, NamesAssumption
<1>6. CASE i = Nil
  <2>1. itable' = iunlock(T, d) /\ Return(p, <<d>>) /\ UNCHANGED <<dinode, dir, cwd, file, panicked>>
    BY <1>6 DEF sys_unlink
  <2> QED
    BY <1>2, <1>3, <2>1, OpenedKept
<1>7. CASE i # Nil /\ SlotOf(T, i) = Nil
  <2>1. Panic("iget: no inodes")
    BY <1>5, <1>7 DEF sys_unlink
  <2> QED
    BY <2>1, PanicKept DEF Panic
<1>8. CASE i # Nil /\ SlotOf(T, i) # Nil
  <2> DEFINE g == SlotOf(T, i)
             u == ToUnlink(t, g)
  <2>1. itable' = iget(T, i) /\ th' = [th EXCEPT ![p] = u] /\ UNCHANGED <<dinode, dir, cwd, file, panicked>>
    BY <1>5, <1>8 DEF sys_unlink, ToUnlink
  <2>2. i \in Inums /\ dinode[i].nlink # 0
    BY <1>2, <1>4, <1>8, EntryLinked
  <2>3. g = SlotOf(itable, i)
    BY <1>4
  <2>4. g \in Slots
    BY <1>4, <1>8, SlotFacts
  <2>5. InParent(t)
    BY <1>2 DEF InParent
  <2>a. dir[itable[d].inum][Head(t.path)] = i
    BY <1>4
  <2> HIDE DEF g, i
  <2>6. /\ u \in ThreadType /\ Shape(u) /\ u.iput = "test" /\ u.keep = t.keep
        /\ u.pc = "unlink_entry" /\ u.dp = t.ip /\ u.ip = g /\ u.path = t.path /\ Adds(t, u, g)
    <3>1. t.op = "unlink"
      BY <1>2
    <3> QED
      BY ONLY <2>4, <2>5, <3>1, ToUnlinkFacts
  <2> HIDE DEF u
  <2>7. LockedFor(p, d, T, u)
    BY <1>2, <1>3, <2>6, LockParent
  <2>8. "unlink_entry" \notin ParentLookups
    BY DEF ParentLookups
  <2>9. g # Nil
    BY <2>4, SlotNotNil
  <2> HIDE DEF T
  <2> QED
    BY <1>2, <1>3, <2>a, <2>1, <2>2, <2>3, <2>6, <2>7, <2>8, <2>9, FoundKept
<1> QED
  BY <1>6, <1>7, <1>8

\* create() of a name that exists.
LEMMA CreateFinds ==
  ASSUME FSInv, NEW p \in Procs, NEW l \in {"create", "mkdir"}, At(p, l), NEW d, d = th[p].ip,
         itable[d].lock = None, NEW T, T = ilock(itable, d, p),
         NEW i, i = dir[T[d].inum][Head(th[p].path)], i # Nil, SlotOf(T, i) # Nil,
         itable' = iget(iunlock(T, d), i), th' = [th EXCEPT ![p] = ToFound(th[p], SlotOf(T, i))],
         UNCHANGED <<dinode, dir, cwd, file, panicked>>
  PROVE  FSInv'
<1> DEFINE t == th[p]
           g == SlotOf(T, i)
           u == ToFound(t, g)
           V == iunlock(T, d)
<1>1. l \in ParentLookups /\ l # "linknew"
  BY DEF ParentLookups
<1>2. /\ t.puts = <<>> /\ t.dp = Nil /\ t.iput = "test" /\ t.op = l /\ t.pc = l
      /\ d \in Slots /\ HasGood(p, d) /\ itable[d].ref > 0 /\ itable[d].inum \in Inums
      /\ dinode[itable[d].inum].type = "DIR"
      /\ t.keep = Nil
      /\ t \in ThreadType /\ t.path # <<>> /\ Head(t.path) \in Names
  BY <1>1, AtParent
<1>4. /\ TRel(p, T) /\ T \in [Slots -> Entry] /\ T[d].inum = itable[d].inum
      /\ \A k : SlotOf(T, k) = SlotOf(itable, k)
  <2>1. FSInv /\ p \in Procs /\ d \in Slots /\ HasGood(p, d) /\ T = ilock(itable, d, p)
    BY <1>2
  <2> QED
    BY ONLY <2>1, ParentTable
<1>5. i \in Inums /\ dinode[i].nlink # 0
  BY <1>2, <1>4, EntryLinked
<1>6. g = SlotOf(itable, i)
  BY <1>4
<1>7. g \in Slots
  BY <1>4, SlotFacts
<1>8. InParent(t)
  BY <1>1, <1>2 DEF InParent
<1>9. th' = [th EXCEPT ![p] = u] /\ V = iunlock(ilock(itable, d, p), d) /\ itable' = iget(V, i)
  OBVIOUS
<1> HIDE DEF g
<1>10. /\ u \in ThreadType /\ Shape(u) /\ u.iput = "test" /\ u.keep = t.keep
       /\ u.pc = "create_found" /\ u.dp = Nil /\ Adds(t, u, g)
  <2>1. t.op \in {"create", "mkdir"}
    BY <1>2
  <2> QED
    BY ONLY <1>7, <1>8, <2>1, ToFoundFacts
<1> HIDE DEF u, V
<1>11. LockedFor(p, d, V, u)
  BY <1>2, <1>9, <1>10, LockParent
<1>12. u.pc \notin ParentLookups
  BY <1>10 DEF ParentLookups
<1>13. g # Nil /\ u.pc # "create_new" /\ u.pc # "unlink_entry"
  BY <1>7, <1>10, SlotNotNil
<1>14. /\ FSInv /\ p \in Procs /\ itable[d].lock = None /\ UNCHANGED <<dinode, dir, cwd, file, panicked>>
  OBVIOUS
<1> QED
  BY ONLY <1>2, <1>5, <1>6, <1>9, <1>10, <1>11, <1>12, <1>13, <1>14, FoundKept

\* link() to a name that exists.
LEMMA LinkFinds ==
  ASSUME FSInv, NEW p \in Procs, At(p, "linknew"), NEW d, d = th[p].ip,
         itable[d].lock = None, NEW T, T = ilock(itable, d, p),
         NEW i, i = dir[T[d].inum][Head(th[p].path)], i # Nil, SlotOf(T, i) # Nil,
         itable' = iget(T, i), th' = [th EXCEPT ![p] = ToExists(th[p], SlotOf(T, i))],
         UNCHANGED <<dinode, dir, cwd, file, panicked>>
  PROVE  FSInv'
<1> DEFINE t == th[p]
           g == SlotOf(T, i)
           u == ToExists(t, g)
<1>1. "linknew" \in ParentLookups
  BY DEF ParentLookups
<1>2. /\ t.puts = <<>> /\ t.dp = Nil /\ t.iput = "test" /\ t.op = "linknew" /\ t.pc = "linknew"
      /\ d \in Slots /\ HasGood(p, d) /\ itable[d].ref > 0 /\ itable[d].inum \in Inums
      /\ dinode[itable[d].inum].type = "DIR"
      /\ t.keep # Nil
      /\ t \in ThreadType /\ t.path # <<>> /\ Head(t.path) \in Names
  BY <1>1, AtParent
<1>4. /\ TRel(p, T) /\ T \in [Slots -> Entry] /\ T[d].inum = itable[d].inum
      /\ \A k : SlotOf(T, k) = SlotOf(itable, k)
  <2>1. FSInv /\ p \in Procs /\ d \in Slots /\ HasGood(p, d) /\ T = ilock(itable, d, p)
    BY <1>2
  <2> QED
    BY ONLY <2>1, ParentTable
<1>5. i \in Inums /\ dinode[i].nlink # 0
  BY <1>2, <1>4, EntryLinked
<1>6. g = SlotOf(itable, i)
  BY <1>4
<1>7. g \in Slots
  BY <1>4, SlotFacts
<1>8. InParent(t)
  BY <1>1, <1>2 DEF InParent
<1>9. th' = [th EXCEPT ![p] = u]
  OBVIOUS
<1> HIDE DEF g
<1>10. /\ u \in ThreadType /\ Shape(u) /\ u.iput = "test" /\ u.keep = t.keep
       /\ u.pc = "link_exists" /\ u.dp = t.ip /\ Adds(t, u, g)
  <2>1. t.op = "linknew"
    BY <1>2
  <2> QED
    BY ONLY <1>7, <1>8, <2>1, ToExistsFacts
<1> HIDE DEF u
<1>11. LockedFor(p, d, T, u)
  BY <1>2, <1>10, LockParent
<1>12. u.pc \notin ParentLookups
  BY <1>10 DEF ParentLookups
<1>13. g # Nil /\ u.pc # "create_new" /\ u.pc # "unlink_entry"
  BY <1>7, <1>10, SlotNotNil
<1>14. /\ FSInv /\ p \in Procs /\ itable[d].lock = None /\ UNCHANGED <<dinode, dir, cwd, file, panicked>>
       /\ itable' = iget(T, i)
  OBVIOUS
<1> QED
  BY ONLY <1>2, <1>5, <1>6, <1>9, <1>10, <1>11, <1>12, <1>13, <1>14, FoundKept

\* sys_link() gives up the parent it had locked.
ToBad(t) == [t EXCEPT !.pc = "link_bad", !.dp = Nil, !.puts = <<t.dp>>]

\* What such a call holds.
LEMMA ToBadFacts ==
  ASSUME NEW t \in ThreadType, Shape(t), t.puts = <<>>, t.pc = "link_exists", NEW u, u = ToBad(t)
  PROVE  /\ u \in ThreadType /\ Shape(u) /\ u.iput = "test" /\ u.keep = t.keep /\ u.pc = "link_bad"
         /\ u.dp = Nil /\ u.ip = Nil /\ u.puts = <<t.dp>> /\ t.dp \in Slots /\ t.ip = Nil
<1> DEFINE s == <<t.dp>>
<1>1. /\ t.dp \in Slots /\ t.ip = Nil /\ t.op = "linknew" /\ t.keep # Nil /\ t.iput = "test"
  BY DEF Shape, ThreadType
<1>2. s \in Seq(Slots) /\ s # <<>> /\ Len(s) <= 2 /\ s = <<t.dp>>
  BY <1>1
<1>3. u = SetPuts(SetDp(SetPc(t, "link_bad"), Nil), s)
  BY DEF ToBad, SetPuts, SetDp, SetPc
<1>11. t \in ThreadType
  OBVIOUS
<1> HIDE DEF s
<1>4. t = Rec(t.pc, t.op, t.path, t.new, t.ip, t.dp, t.keep, t.puts, t.iput)
  BY ONLY <1>11, RecParts
<1>5. SetPc(t, "link_bad") = Rec("link_bad", t.op, t.path, t.new, t.ip, t.dp, t.keep, t.puts, t.iput)
  BY ONLY <1>4, SetPcRec
<1>6. SetDp(SetPc(t, "link_bad"), Nil)
         = Rec("link_bad", t.op, t.path, t.new, t.ip, Nil, t.keep, t.puts, t.iput)
  BY ONLY <1>5, SetDpRec
<1>7. u = Rec("link_bad", t.op, t.path, t.new, t.ip, Nil, t.keep, s, t.iput)
  BY ONLY <1>3, <1>6, SetPutsRec
<1>8. /\ u.pc = "link_bad" /\ u.op = t.op /\ u.path = t.path /\ u.ip = t.ip /\ u.dp = Nil /\ u.keep = t.keep
      /\ u.puts = s /\ u.iput = t.iput
  BY ONLY <1>7, RecFields
<1>9. u \in ThreadType
  <2>1. /\ "link_bad" \in PC /\ Nil \in Slots \cup {Nil} /\ t.ip \in Slots \cup {Nil}
        /\ t.op \in Lookups \cup ParentLookups /\ t.new \in Seq(Names) /\ t.path \in Seq(Names)
        /\ t.keep \in Slots \cup {Nil} /\ t.iput \in {"test", "free", "dec"} /\ s \in Seq(Slots)
    BY <1>2, RecParts DEF PC
  <2> QED
    BY ONLY <1>7, <2>1 DEF Rec, ThreadType
<1>10. Shape(u)
  BY <1>1, <1>2, <1>8, SlotNotNil DEF Shape, Lookups, ParentLookups
<1> QED
  BY <1>1, <1>2, <1>8, <1>9, <1>10

\* iunlockput(dp) of sys_link() keeps the invariant.
LEMMA Step_link_exists ==
  ASSUME FSInv, NEW p \in Procs, link_exists(p)
  PROVE  FSInv'
<1> DEFINE t == th[p]
           u == ToBad(t)
           d == t.dp
<1>1. /\ t.puts = <<>> /\ t.pc = "link_exists" /\ itable' = iunlock(itable, d)
      /\ th' = [th EXCEPT ![p] = u] /\ UNCHANGED <<dinode, dir, cwd, file, panicked>>
  BY DEF link_exists, At, ToBad
<1>2. /\ t \in ThreadType /\ Shape(t)
      /\ \A f : N(p, f) = (IF cwd[p] = f THEN 1 ELSE 0) + (IF file[p] = f THEN 1 ELSE 0)
              + (IF t.ip = f THEN 1 ELSE 0) + (IF t.dp = f THEN 1 ELSE 0)
              + (IF t.keep = f THEN 1 ELSE 0)
      /\ \A f : HasGood(p, f) <=>
              cwd[p] = f \/ file[p] = f \/ t.ip = f \/ t.dp = f \/ t.keep = f
      /\ \A f \in Slots : itable[f].lock = p <=> t.dp = f
  BY <1>1, AtFacts
<1>3. /\ u \in ThreadType /\ Shape(u) /\ u.iput = "test" /\ u.keep = t.keep /\ u.pc = "link_bad"
      /\ u.dp = Nil /\ u.ip = Nil /\ u.puts = <<d>> /\ d \in Slots /\ t.ip = Nil
  BY <1>1, <1>2, ToBadFacts
<1> HIDE DEF u
<1>4. th'[p] = u
  BY <1>1, <1>3, ThFrame
<1>5. ASSUME NEW f \in Slots
      PROVE  N(p, f)' = N(p, f) /\ (HasGood(p, f)' => HasGood(p, f))
  <2>1. u.puts = <<d>>
    BY <1>3
  <2>2. /\ Held(cwd[p], file[p], u, f) = (IF cwd[p] = f THEN 1 ELSE 0) + (IF file[p] = f THEN 1 ELSE 0)
              + (IF u.ip = f THEN 1 ELSE 0) + (IF u.dp = f THEN 1 ELSE 0)
              + (IF u.keep = f THEN 1 ELSE 0) + (IF d = f THEN 1 ELSE 0)
        /\ Good(cwd[p], file[p], u, f) <=>
              \/ cwd[p] = f \/ file[p] = f \/ u.ip = f \/ u.dp = f \/ u.keep = f
              \/ (u.iput # "dec" /\ d = f)
    BY ONLY <2>1, Forms1
  <2>3. N(p, f)' = Held(cwd[p], file[p], u, f) /\ HasGood(p, f)' = Good(cwd[p], file[p], u, f)
    BY <1>1, <1>4 DEF N, HasGood
  <2> QED
    BY <1>2, <1>3, <2>2, <2>3, SlotNotNil
<1>6. /\ TRel(p, itable') /\ itable'[d].lock = None
      /\ \A f \in Slots : itable'[f].ref = itable[f].ref
      /\ \A f \in Slots \ {d} : itable'[f] = itable[f]
  BY <1>1, <1>3, TRelSelf, TRelUnlock
<1>7. RefStep(p)
  <2> SUFFICES ASSUME NEW f \in Slots
               PROVE  itable'[f].ref = itable[f].ref + N(p, f)' - N(p, f)
    BY DEF RefStep
  <2>1. itable[f].ref \in Nat /\ N(p, f) \in Nat
    BY RefCovers DEF FSInv
  <2> QED
    BY <1>5, <1>6, <2>1
<1>8. QGain(p)
  BY <1>5 DEF QGain
<1>9. Relocks(p, u)
  BY <1>2, <1>3, <1>6, SlotNotNil DEF Relocks
<1>10. Found(u)
  BY <1>3 DEF Found, ParentLookups
<1> QED
  BY <1>1, <1>3, <1>6, <1>7, <1>8, <1>9, <1>10, MoveKept

\* The in-memory inode as it is between ilock() and iunlock() of a step.
LEMMA LoadedTable ==
  ASSUME FSInv, NEW p \in Procs, NEW e \in Slots, HasGood(p, e), itable[e].lock = None
  PROVE  /\ [itable EXCEPT ![e] = Loaded(itable, e)] = ilock(itable, e, None)
         /\ Loaded(itable, e) \in Entry /\ Loaded(itable, e).inum = itable[e].inum
         /\ Loaded(itable, e).ref = itable[e].ref /\ Loaded(itable, e).valid
         /\ Loaded(itable, e).lock = None
         /\ Loaded(itable, e).type = dinode[itable[e].inum].type
         /\ Loaded(itable, e).nlink = dinode[itable[e].inum].nlink
<1> DEFINE L == Loaded(itable, e)
<1>1. itable[e] \in Entry /\ itable[e].inum \in Inums /\ itable[e].ref > 0
  BY GoodFacts DEF FSInv, TypeInv, Entry
<1>2. dinode[itable[e].inum] \in [type : Types, nlink : Nat]
  BY <1>1 DEF FSInv, TypeInv
<1>3. /\ L \in Entry /\ L.inum = itable[e].inum /\ L.ref = itable[e].ref /\ L.valid /\ L.lock = None
      /\ L.type = dinode[itable[e].inum].type /\ L.nlink = dinode[itable[e].inum].nlink
  <2>1. CASE itable[e].valid
    BY <1>1, <2>1 DEF Loaded, FSInv, TabOK, Entry
  <2>2. CASE ~itable[e].valid
    BY <1>1, <1>2, <2>2 DEF Loaded, Entry
  <2> QED
    BY <2>1, <2>2
<1> HIDE DEF L
<1>4. [L EXCEPT !.lock = None] = L
  BY <1>3 DEF Entry
<1>5. [itable EXCEPT ![e] = L] = ilock(itable, e, None)
  BY <1>4 DEF ilock, L
<1> QED
  BY <1>3, <1>5 DEF L

\* link() of a directory.
LEMMA LinkDirectory ==
  ASSUME FSInv, NEW p \in Procs, At(p, "linkold"), NEW e, e = th[p].ip, itable[e].lock = None,
         itable' = [itable EXCEPT ![e] = Loaded(itable, e)], Return(p, <<e>>),
         UNCHANGED <<dinode, dir, cwd, file, panicked>>
  PROVE  FSInv'
<1>1. /\ th[p].puts = <<>> /\ th[p].dp = Nil /\ e \in Slots /\ th[p].keep = Nil /\ HasGood(p, e)
  <2>1. At(p, "linkold") /\ "linkold" \in Lookups
    BY DEF Lookups
  <2> QED
    BY <2>1, AtLookup
<1>2. itable' = ilock(itable, e, None)
  BY <1>1, LoadedTable
<1>3. TRel(p, itable') /\ \A f \in Slots : itable'[f].ref = itable[f].ref /\ itable'[f].lock = itable[f].lock
  <2>1. FSInv /\ p \in Procs /\ e \in Slots /\ HasGood(p, e) /\ itable[e].lock = None
    BY <1>1
  <2> QED
    BY ONLY <1>2, <2>1, Touched
<1>4. /\ cwd[p] \in Slots /\ file[p] \in Slots \cup {Nil}
      /\ \A f : N(p, f) = (IF cwd[p] = f THEN 1 ELSE 0) + (IF file[p] = f THEN 1 ELSE 0)
              + (IF th[p].ip = f THEN 1 ELSE 0) + (IF th[p].dp = f THEN 1 ELSE 0)
              + (IF th[p].keep = f THEN 1 ELSE 0)
  BY <1>1, AtFacts
<1>5. TypeInv
  BY DEF FSInv
<1> DEFINE s == <<e>>
<1>6. s \in Seq(Slots) /\ Len(s) <= 2 /\ Return(p, s)
  BY <1>1
<1> HIDE DEF s
<1>7. /\ cwd' \in [Procs -> Slots] /\ file' \in [Procs -> Slots \cup {Nil}]
      /\ \A q \in Procs \ {p} : cwd'[q] = cwd[q] /\ file'[q] = file[q]
  BY <1>5 DEF TypeInv
<1>8. \A f \in Slots : N(p, f)' = (IF cwd[p] = f THEN 1 ELSE 0) + (IF file[p] = f THEN 1 ELSE 0)
                                    + (IF e = f THEN 1 ELSE 0)
  BY <1>1, <1>5, Ended1 DEF TypeInv
<1>9. \A f \in Slots : N(p, f)' = N(p, f)
  BY <1>1, <1>4, <1>8, SlotNotNil
<1> QED
  BY <1>1, <1>3, <1>6, <1>7, <1>9, ReturnPlain
-----------------------------------------------------------------------------
(***************************************************************************)
(* Steps that write to the disk.                                           *)
(***************************************************************************)

\* p writes to inodes it has an entry for, not locked by another process.
WritesOwn(p) ==
    \A i \in Inums :
      \/ dinode'[i] = dinode[i] /\ dir'[i] = dir[i]
      \/ /\ dinode'[i].type = dinode[i].type
         /\ \E f \in Slots : HasGood(p, f) /\ itable[f].inum = i /\ itable[f].lock \in {None, p}

\* Such writes are ones DiskStep allows.
LEMMA OwnDisk ==
  ASSUME FSInv, NEW p \in Procs, WritesOwn(p)
  PROVE  DiskStep(p)
<1> SUFFICES ASSUME NEW e \in Slots, itable[e].ref > 0, NEW i, i = itable[e].inum
             PROVE  /\ ~Reach(p, e, i) => dinode'[i] = dinode[i] /\ dir'[i] = dir[i]
                    /\ itable[e].ref > N(p, e) /\ dinode[i].type # "free" => dinode'[i].type = dinode[i].type
                    /\ itable[e].lock \in Procs \ {p} => dir'[i] = dir[i]
  BY DEF DiskStep
<1>1. i \in Inums
  BY DEF FSInv, TabOK
<1>2. CASE dinode'[i] = dinode[i] /\ dir'[i] = dir[i]
  BY <1>2
<1>3. CASE /\ dinode'[i].type = dinode[i].type
           /\ \E f \in Slots : HasGood(p, f) /\ itable[f].inum = i /\ itable[f].lock \in {None, p}
  <2>1. PICK f \in Slots : HasGood(p, f) /\ itable[f].inum = i /\ itable[f].lock \in {None, p}
    BY <1>3
  <2>2. itable[f].ref > 0
    BY <2>1, GoodFacts
  <2>3. f = e
    BY <2>1, <2>2 DEF FSInv, TabOK
  <2> QED
    BY <1>3, <2>1, <2>3, NamesAssumption DEF Reach
<1> QED
  BY <1>1, <1>2, <1>3 DEF WritesOwn

\* p changes entries it has a pointer to.
TablesOwn(p) ==
    \A f \in Slots :
      /\ itable'[f].ref = itable[f].ref /\ itable'[f].inum = itable[f].inum
      /\ itable'[f].valid = itable[f].valid \/ HasGood(p, f)
      /\ itable[f].valid => itable'[f].valid
      /\ itable'[f].lock = IF itable[f].lock = p THEN None ELSE itable[f].lock

\* p's call ends with the pointers it had, after it wrote to the disk.
EndsWriting(p, s) ==
    /\ th[p].puts = <<>> /\ s \in Seq(Slots) /\ Len(s) <= 2 /\ Return(p, s)
    /\ cwd' \in [Procs -> Slots] /\ file' \in [Procs -> Slots \cup {Nil}]
    /\ \A q \in Procs \ {p} : cwd'[q] = cwd[q] /\ file'[q] = file[q]
    /\ \A f \in Slots : N(p, f)' = N(p, f)
    /\ TablesOwn(p) /\ WritesOwn(p)

\* Such a step leaves to the others what is theirs.
LEMMA WriteFrames ==
  ASSUME FSInv, NEW p \in Procs, NEW s, EndsWriting(p, s)
  PROVE  /\ Others(p) /\ RefStep(p) /\ TabStep(p) /\ DiskStep(p)
         /\ th' \in [Procs -> ThreadType] /\ th'[p] = Ended(s)
         /\ th'[p] \in ThreadType /\ Shape(th'[p]) /\ th'[p].pc = "idle"
         /\ th'[p].dp = Nil /\ th'[p].keep = Nil /\ th'[p].puts = s /\ th'[p].iput = "test"
<1> USE DEF EndsWriting
<1> DEFINE u == Ended(s)
<1>1. /\ u \in ThreadType /\ Shape(u) /\ u.pc = "idle"
      /\ u.dp = Nil /\ u.keep = Nil /\ u.puts = s /\ u.iput = "test"
  BY IdleFacts
<1>2. th' = [th EXCEPT ![p] = u]
  BY DEF Return, Ended
<1> HIDE DEF u
<1>3. /\ th'[p] = u /\ th' \in [Procs -> ThreadType]
      /\ \A q \in Procs \ {p} : th'[q] = th[q]
  BY <1>1, <1>2, ThFrame
<1>5. Others(p)
  BY <1>3 DEF Others
<1>8. RefStep(p)
  <2> SUFFICES ASSUME NEW f \in Slots
               PROVE  itable'[f].ref = itable[f].ref + N(p, f)' - N(p, f)
    BY DEF RefStep
  <2>1. itable[f].ref \in Nat /\ N(p, f) \in Nat
    BY RefCovers DEF FSInv
  <2> QED
    BY <2>1 DEF TablesOwn
<1>9. TabStep(p)
  BY DEF TabStep, TablesOwn, Reach
<1>10. DiskStep(p)
  BY OwnDisk
<1> QED
  BY <1>1, <1>3, <1>5, <1>8, <1>9, <1>10 DEF u

\* It keeps the invariant if the table and the disk are as they should be.
LEMMA WriteReturn ==
  ASSUME FSInv, NEW p \in Procs, NEW s, EndsWriting(p, s),
         itable' \in [Slots -> Entry], dinode' \in [Inums -> [type : Types, nlink : Nat]],
         dir' \in [Inums -> [Names \cup {DotDot} -> Inums \cup {Nil}]],
         TabOK(itable', dinode'), DiskInv', UNCHANGED panicked
  PROVE  FSInv'
<1> DEFINE u == th'[p]
<1>1. /\ Others(p) /\ RefStep(p) /\ TabStep(p) /\ DiskStep(p)
      /\ th' \in [Procs -> ThreadType] /\ Shape(u) /\ u.pc = "idle"
      /\ u.dp = Nil /\ u.keep = Nil /\ u.puts = s /\ u.iput = "test"
  BY WriteFrames
<1> USE DEF EndsWriting
<1>4. TypeInv'
  BY <1>1 DEF TypeInv, Entry
<1>6. \A e \in Slots : ~Locks(u, e) /\ ~Freeing(u, e)
  BY <1>1, SlotNotNil DEF Locks, Freeing
<1>7. LockStep(p)
  BY <1>6, NamesAssumption DEF LockStep, TablesOwn
<1>11. ASSUME NEW f \in Slots, HasGood(p, f)' PROVE HasGood(p, f)
  <2>1. N(p, f) >= 1
    BY <1>11, HeldFacts DEF N, HasGood
  <2>2. ~(1 <= Len(th[p].puts))
    OBVIOUS
  <2> QED
    BY <2>1, <2>2, HeldFacts DEF N, HasGood
<1>12. GainStep(p)
  <2>1. \A e \in Slots : N(p, e)' >= 1 => HasGood(p, e)'
    BY <1>1, HeldFacts DEF N, HasGood
  <2> QED
    BY <1>11, <2>1 DEF GainStep, Reach
<1>13. Alloc(p)'
  <2> SUFFICES ASSUME NEW e \in Slots, HasGood(p, e)'
               PROVE  dinode'[itable'[e].inum].type # "free"
    BY DEF Alloc
  <2>1. itable[e].inum \in Inums /\ dinode[itable[e].inum].type # "free"
    BY <1>11, GoodFacts
  <2> QED
    BY <2>1 DEF TablesOwn, WritesOwn
<1>14. Local(p)'
  BY <1>1, <1>6 DEF Local, ParentLookups
<1>15. PanicInv'
  BY DEF FSInv, PanicInv
<1>16. ThreadInv(p)'
  BY <1>1, <1>13, <1>14 DEF ThreadInv
<1> QED
  BY <1>1, <1>4, <1>7, <1>12, <1>15, <1>16, StepKept

\* Counting one element more or less.
LEMMA CardShift ==
  ASSUME NEW S, NEW R, IsFiniteSet(S), IsFiniteSet(R), NEW x, S \ {x} = R \ {x}
  PROVE  Cardinality(R) + One(x \in S) = Cardinality(S) + One(x \in R)
<1>1. /\ Cardinality(S \ {x}) \in Nat /\ Cardinality(S) \in Nat
      /\ Cardinality(S) = Cardinality(S \ {x}) + One(x \in S)
  BY CardSplit
<1>2. /\ Cardinality(R) \in Nat
      /\ Cardinality(R) = Cardinality(R \ {x}) + One(x \in R)
  BY CardSplit
<1>3. One(x \in S) \in Nat /\ One(x \in R) \in Nat
  BY DEF One
<1>4. Cardinality(S \ {x}) = Cardinality(R \ {x})
  OBVIOUS
<1> DEFINE a == One(x \in S)
           b == One(x \in R)
           c == Cardinality(S \ {x})
           d == Cardinality(R \ {x})
           v == Cardinality(S)
           w == Cardinality(R)
<1>5. c \in Nat /\ v \in Nat /\ w \in Nat /\ a \in Nat /\ b \in Nat /\ c = d /\ v = c + a /\ w = d + b
  BY <1>1, <1>2, <1>3, <1>4
<1> HIDE DEF a, b, c, d, v, w
<1>6. w + a = v + b
  BY ONLY <1>5
<1> QED
  BY <1>6 DEF a, b, v, w

\* The entry n of directory x becomes b.
CellSet(x, n, b) ==
    \A y \in Inums : \A m \in Names : dir'[y][m] = IF y = x /\ m = n THEN b ELSE dir[y][m]

\* The names of an inode after the write of one directory entry.
LEMMA EntriesBut ==
  ASSUME NEW x \in Inums, NEW n \in Names, NEW b, CellSet(x, n, b), NEW i
  PROVE  /\ Entries(i)' \ {<<x, n>>} = Entries(i) \ {<<x, n>>}
         /\ <<x, n>> \in Entries(i)' <=> b = i
         /\ <<x, n>> \in Entries(i) <=> dir[x][n] = i
<1>1. Entries(i)' \ {<<x, n>>} = Entries(i) \ {<<x, n>>}
  <2>1. ASSUME NEW y \in Inums, NEW m \in Names, <<y, m>> # <<x, n>>
        PROVE  dir'[y][m] = dir[y][m]
    BY <2>1 DEF CellSet
  <2>2. \A z \in Inums \X Names : z # <<x, n>> => dir'[z[1]][z[2]] = dir[z[1]][z[2]]
    BY <2>1
  <2> QED
    BY <2>2 DEF Entries
<1>2. <<x, n>> \in Entries(i)' <=> b = i
  BY DEF Entries, CellSet
<1>3. <<x, n>> \in Entries(i) <=> dir[x][n] = i
  BY DEF Entries
<1> QED
  BY <1>1, <1>2, <1>3

\* The links p has to make itself.
LEMMA PendingCard ==
  ASSUME FSInv, NEW p \in Procs, Others(p), RefStep(p), TabStep(p), DiskStep(p), NEW i
  PROVE  /\ Cardinality(Pending(i)') + (IF p \in Pending(i) THEN 1 ELSE 0)
              = Cardinality(Pending(i)) + (IF p \in Pending(i)' THEN 1 ELSE 0)
<1>1. Pending(i)' \ {p} = Pending(i) \ {p}
  <2>1. Pending(i) \subseteq Procs /\ Pending(i)' \subseteq Procs
    BY DEF Pending
  <2>2. \A q \in Procs \ {p} : q \in Pending(i)' <=> q \in Pending(i)
    BY PendingOthers
  <2> QED
    BY <2>1, <2>2
<1>2. IsFiniteSet(Pending(i)) /\ IsFiniteSet(Pending(i)')
  BY PendingFinite
<1>3. Cardinality(Pending(i)') + One(p \in Pending(i)) = Cardinality(Pending(i)) + One(p \in Pending(i)')
  BY <1>1, <1>2, CardShift
<1> QED
  BY <1>3 DEF One

\* Only directory k gets or loses its name or its parent.
LEMMA SubdirsCard ==
  ASSUME NEW k, \A d \in Inums \ {k} : (Entries(d)' # {} <=> Entries(d) # {}) /\ dir'[d][DotDot] = dir[d][DotDot],
         NEW i
  PROVE  Cardinality(Subdirs(i)') + (IF k \in Subdirs(i) THEN 1 ELSE 0)
           = Cardinality(Subdirs(i)) + (IF k \in Subdirs(i)' THEN 1 ELSE 0)
<1>1. Subdirs(i)' \ {k} = Subdirs(i) \ {k}
  BY DEF Subdirs
<1>2. IsFiniteSet(Subdirs(i)) /\ IsFiniteSet(Subdirs(i)')
  BY EntriesFinite
<1>3. Cardinality(Subdirs(i)') + One(k \in Subdirs(i)) = Cardinality(Subdirs(i)) + One(k \in Subdirs(i)')
  BY <1>1, <1>2, CardShift
<1> QED
  BY <1>3 DEF One

\* A call of sys_link() that ends is not pending any more.
LEMMA PendingEnds ==
  ASSUME FSInv, NEW p \in Procs, NEW s, EndsWriting(p, s), NEW i
  PROVE  Cardinality(Pending(i)') + (IF th[p].keep # Nil /\ itable[th[p].keep].inum = i THEN 1 ELSE 0)
           = Cardinality(Pending(i))
<1>1. /\ Others(p) /\ RefStep(p) /\ TabStep(p) /\ DiskStep(p) /\ th'[p].keep = Nil
  BY WriteFrames
<1>2. /\ Cardinality(Pending(i)') + (IF p \in Pending(i) THEN 1 ELSE 0)
              = Cardinality(Pending(i)) + (IF p \in Pending(i)' THEN 1 ELSE 0)
  BY <1>1, PendingCard
<1>3. p \notin Pending(i)' /\ (p \in Pending(i) <=> th[p].keep # Nil /\ itable[th[p].keep].inum = i)
  BY <1>1 DEF Pending
<1>4. Cardinality(Pending(i)) \in Nat /\ Cardinality(Pending(i)') \in Nat
  BY PendingFinite
<1> QED
  BY <1>2, <1>3, <1>4

\* The tables T and U have entries for the same inodes; U agrees with D2.
AgreesWith(T, U, D2) ==
    \A f \in Slots :
      /\ U[f].ref = T[f].ref /\ U[f].inum = T[f].inum
      /\ T[f].ref > 0 /\ U[f].valid =>
           /\ D2[T[f].inum].type = U[f].type /\ D2[T[f].inum].nlink = U[f].nlink
           /\ U[f].type # "free"

\* A table that agrees with what was written to the disk fits it.
LEMMA TabWrite ==
  ASSUME NEW T, NEW D, TabOK(T, D), NEW U, NEW D2, AgreesWith(T, U, D2)
  PROVE  TabOK(U, D2)
<1>1. \A f \in Slots : U[f].ref > 0 => U[f].inum \in Inums
  BY DEF TabOK, AgreesWith
<1>2. \A f, g \in Slots : U[f].ref > 0 /\ U[g].ref > 0 /\ U[f].inum = U[g].inum => f = g
  BY DEF TabOK, AgreesWith
<1>3. \A f \in Slots : U[f].ref > 0 /\ U[f].valid =>
        /\ D2[U[f].inum].type = U[f].type /\ D2[U[f].inum].nlink = U[f].nlink
        /\ U[f].type # "free"
  BY DEF AgreesWith
<1> QED
  BY <1>1, <1>2, <1>3 DEF TabOK

\* What nlink covers, before and after a step.
LEMMA LinkFacts ==
  ASSUME FSInv, NEW i \in Inums
  PROVE  /\ dinode[i].nlink \in Nat
         /\ Cardinality(Entries(i)) \in Nat /\ Cardinality(Subdirs(i)) \in Nat
         /\ Cardinality(Pending(i)) \in Nat
         /\ Cardinality(Entries(i)') \in Nat /\ Cardinality(Subdirs(i)') \in Nat
         /\ Cardinality(Pending(i)') \in Nat
         /\ dinode[i].nlink >= Cardinality(Entries(i)) + Cardinality(Subdirs(i))
                + Cardinality(Pending(i)) + (IF i = ROOTINO THEN 1 ELSE 0)
<1>1. dinode[i].nlink >= Cardinality(Entries(i)) + Cardinality(Subdirs(i))
                + Cardinality(Pending(i)) + (IF i = ROOTINO THEN 1 ELSE 0)
  BY DEF FSInv, DiskInv, LinkInv
<1>2. dinode[i].nlink \in Nat
  BY DEF FSInv, TypeInv
<1> QED
  BY <1>1, <1>2, EntriesFinite, PendingFinite

\* sys_link() undoes its nlink++: the link it was for is pending no more.
LEMMA Step_link_bad ==
  ASSUME FSInv, NEW p \in Procs, link_bad(p)
  PROVE  FSInv'
<1> DEFINE e == th[p].keep
           L == Loaded(itable, e)
           j == itable[e].inum
           s == <<e>>
           k == L.nlink - 1
<1>1. /\ th[p].puts = <<>> /\ th[p].pc = "link_bad" /\ Lockable(itable, e) /\ SetNlink(e, k)
      /\ Return(p, s) /\ UNCHANGED <<dir, cwd, file, panicked>>
  BY DEF link_bad, At
<1>2. /\ th[p] \in ThreadType /\ Shape(th[p]) /\ cwd[p] \in Slots /\ file[p] \in Slots \cup {Nil}
      /\ \A f : N(p, f) = (IF cwd[p] = f THEN 1 ELSE 0) + (IF file[p] = f THEN 1 ELSE 0)
              + (IF th[p].ip = f THEN 1 ELSE 0) + (IF th[p].dp = f THEN 1 ELSE 0)
              + (IF th[p].keep = f THEN 1 ELSE 0)
      /\ \A f : HasGood(p, f) <=>
              cwd[p] = f \/ file[p] = f \/ th[p].ip = f \/ th[p].dp = f \/ th[p].keep = f
      /\ \A f \in Slots : itable[f].lock = p <=> th[p].dp = f
  BY <1>1, AtFacts
<1>3. e \in Slots /\ th[p].dp = Nil /\ th[p].ip = Nil /\ HasGood(p, e) /\ itable[e].lock = None
  BY <1>1, <1>2 DEF Shape, ThreadType, Lockable
<1>4. j \in Inums /\ itable[e].ref > 0 /\ dinode[j].type # "free"
  BY <1>3, GoodFacts
<1>5. dinode[j].type = "FILE"
  BY <1>3, SlotNotNil DEF FSInv, ThreadInv, Local
<1>6. /\ L \in Entry /\ L.inum = j /\ L.ref = itable[e].ref /\ L.valid /\ L.lock = None
      /\ L.type = dinode[j].type /\ L.nlink = dinode[j].nlink
  BY <1>3, LoadedTable
<1>7. s \in Seq(Slots) /\ Len(s) <= 2 /\ Return(p, s)
  BY <1>1, <1>3
<1>8. \A f \in Slots : N(p, f)' = (IF cwd[p] = f THEN 1 ELSE 0) + (IF file[p] = f THEN 1 ELSE 0)
                                    + (IF e = f THEN 1 ELSE 0)
  <2>1. th \in [Procs -> ThreadType]
    BY DEF FSInv, TypeInv
  <2> QED
    BY <1>1, <1>3, <2>1, Ended1
<1> HIDE DEF s
<1>9. k \in Nat
  <2>1. p \in Pending(j)
    BY <1>3, SlotNotNil DEF Pending
  <2>2. Pending(j) # {} /\ IsFiniteSet(Pending(j)) /\ Cardinality(Pending(j)) \in Nat
    BY <2>1, PendingFinite
  <2>3. Cardinality(Pending(j)) # 0
    BY <2>2, FS_EmptySet, Zenon
  <2> QED
    BY <1>4, <1>6, <2>2, <2>3, LinkFacts
<1>10. /\ itable' \in [Slots -> Entry] /\ dinode' \in [Inums -> [type : Types, nlink : Nat]]
       /\ \A f \in Slots \ {e} : itable'[f] = itable[f]
       /\ itable'[e].inum = j /\ itable'[e].ref = itable[e].ref /\ itable'[e].valid
       /\ itable'[e].type = L.type /\ itable'[e].nlink = k /\ itable'[e].lock = None
       /\ \A i \in Inums \ {j} : dinode'[i] = dinode[i]
       /\ dinode'[j].nlink = k /\ dinode'[j].type = dinode[j].type
  <2>1. itable' = [itable EXCEPT ![e] = [L EXCEPT !.nlink = k]] /\ dinode' = [dinode EXCEPT ![j].nlink = k]
    BY <1>1 DEF SetNlink
  <2>2. itable \in [Slots -> Entry] /\ dinode \in [Inums -> [type : Types, nlink : Nat]]
    BY DEF FSInv, TypeInv, Entry
  <2> DEFINE M == [L EXCEPT !.nlink = k]
  <2> HIDE DEF L, k
  <2>3. /\ M \in Entry /\ M.inum = L.inum /\ M.ref = L.ref /\ M.valid = L.valid /\ M.type = L.type
        /\ M.nlink = k /\ M.lock = L.lock
    BY <1>6, <1>9 DEF Entry
  <2> HIDE DEF M
  <2>4. itable' = [itable EXCEPT ![e] = M]
    BY <2>1 DEF M
  <2>5. itable' \in [Slots -> Entry] /\ itable'[e] = M /\ \A f \in Slots \ {e} : itable'[f] = itable[f]
    BY <1>3, <2>2, <2>3, <2>4
  <2>6. dinode[j] \in [type : Types, nlink : Nat]
    BY <1>4, <2>2
  <2>7. /\ dinode' \in [Inums -> [type : Types, nlink : Nat]]
        /\ \A i \in Inums \ {j} : dinode'[i] = dinode[i]
        /\ dinode'[j].nlink = k /\ dinode'[j].type = dinode[j].type
    BY <1>4, <1>9, <2>1, <2>2, <2>6
  <2> QED
    BY <1>6, <2>3, <2>5, <2>7
<1> HIDE DEF L, k
<1>11. TablesOwn(p)
  BY <1>2, <1>3, <1>10, SlotNotNil, NamesAssumption DEF TablesOwn
<1>12. WritesOwn(p)
  <2> SUFFICES ASSUME NEW i \in Inums
               PROVE  \/ dinode'[i] = dinode[i] /\ dir'[i] = dir[i]
                      \/ /\ dinode'[i].type = dinode[i].type
                         /\ \E f \in Slots : HasGood(p, f) /\ itable[f].inum = i /\ itable[f].lock \in {None, p}
    BY DEF WritesOwn
  <2> QED
    BY <1>1, <1>3, <1>10
<1>13. EndsWriting(p, s)
  <2>1. \A f \in Slots : N(p, f)' = N(p, f)
    BY <1>2, <1>3, <1>8, SlotNotNil
  <2>2. cwd' \in [Procs -> Slots] /\ file' \in [Procs -> Slots \cup {Nil}]
        /\ \A q \in Procs \ {p} : cwd'[q] = cwd[q] /\ file'[q] = file[q]
    BY <1>1 DEF FSInv, TypeInv
  <2> QED
    BY <1>1, <1>7, <1>11, <1>12, <2>1, <2>2 DEF EndsWriting
<1>14. TabOK(itable', dinode')
  <2>1. TabOK(itable, dinode)
    BY DEF FSInv
  <2>2. AgreesWith(itable, itable', dinode')
    <3> SUFFICES ASSUME NEW f \in Slots
                 PROVE  /\ itable'[f].ref = itable[f].ref /\ itable'[f].inum = itable[f].inum
                        /\ itable[f].ref > 0 /\ itable'[f].valid =>
                             /\ dinode'[itable[f].inum].type = itable'[f].type
                             /\ dinode'[itable[f].inum].nlink = itable'[f].nlink
                             /\ itable'[f].type # "free"
      BY DEF AgreesWith
    <3>1. CASE f = e
      BY <1>5, <1>6, <1>10, <3>1
    <3>2. CASE f # e
      <4>1. itable[f].ref > 0 => itable[f].inum \in Inums \ {j}
        BY <1>3, <1>4, <2>1, <3>2 DEF TabOK
      <4> QED
        BY <1>10, <2>1, <3>2, <4>1 DEF TabOK
    <3> QED
      BY <3>1, <3>2
  <2> QED
    BY <2>1, <2>2, TabWrite
<1>15. DiskInv'
  <2>1. \A i : Entries(i)' = Entries(i)
    BY <1>1 DEF Entries
  <2>2. \A i : Subdirs(i)' = Subdirs(i)
    BY <1>1, <2>1 DEF Subdirs
  <2>3. LinkInv'
    <3> SUFFICES ASSUME NEW i \in Inums
                 PROVE  dinode'[i].nlink >= Cardinality(Entries(i)') + Cardinality(Subdirs(i)')
                          + Cardinality(Pending(i)') + (IF i = ROOTINO THEN 1 ELSE 0)
      BY DEF LinkInv
    <3>1. Cardinality(Entries(i)') = Cardinality(Entries(i)) /\ Cardinality(Subdirs(i)') = Cardinality(Subdirs(i))
      BY <2>1, <2>2
    <3>2. Cardinality(Pending(i)') + (IF j = i THEN 1 ELSE 0) = Cardinality(Pending(i))
      BY <1>3, <1>13, PendingEnds, SlotNotNil
    <3>3. dinode'[i].nlink = dinode[i].nlink - (IF j = i THEN 1 ELSE 0)
      BY <1>6, <1>10, LinkFacts DEF k
    <3> HIDE DEF j
    <3> QED
      BY <3>1, <3>2, <3>3, LinkFacts
  <2>4. \A i \in Inums : dinode'[i].type = dinode[i].type
    BY <1>10
  <2>5. TreeInv'
    <3>1. TreeInv
      BY DEF FSInv, DiskInv
    <3> QED
      BY ONLY <1>1, <2>4, <3>1 DEF TreeInv
  <2>6. \A i \in Inums : dinode'[i].type = "free" => dinode'[i].nlink = 0
    BY <1>4, <1>10 DEF FSInv, DiskInv
  <2>7. \A i \in Inums : dinode'[i].type # "DIR" => dir'[i] = NoEntries
    BY <1>1, <2>4 DEF FSInv, DiskInv
  <2> QED
    BY <2>3, <2>5, <2>6, <2>7 DEF DiskInv
<1>16. dir' \in [Inums -> [Names \cup {DotDot} -> Inums \cup {Nil}]]
  BY <1>1 DEF FSInv, TypeInv
<1> QED
  BY <1>1, <1>10, <1>13, <1>14, <1>15, <1>16, WriteReturn

\* The write of one directory entry.
SetCell(x, n, b) == [dir EXCEPT ![x][n] = b]

\* What it changes.
LEMMA CellWrite ==
  ASSUME FSInv, NEW x \in Inums, NEW n \in Names, NEW b \in Inums \cup {Nil}, dir' = SetCell(x, n, b)
  PROVE  /\ dir' \in [Inums -> [Names \cup {DotDot} -> Inums \cup {Nil}]]
         /\ CellSet(x, n, b)
         /\ \A i \in Inums \ {x} : dir'[i] = dir[i]
         /\ \A i \in Inums : dir'[i][DotDot] = dir[i][DotDot]
<1>1. dir \in [Inums -> [Names \cup {DotDot} -> Inums \cup {Nil}]]
  BY DEF FSInv, TypeInv
<1>2. /\ dir' \in [Inums -> [Names \cup {DotDot} -> Inums \cup {Nil}]]
      /\ \A i \in Inums \ {x} : dir'[i] = dir[i]
      /\ dir'[x] = [dir[x] EXCEPT ![n] = b]
  BY <1>1 DEF SetCell
<1>3. dir[x] \in [Names \cup {DotDot} -> Inums \cup {Nil}]
  BY <1>1
<1>4. dir'[x][DotDot] = dir[x][DotDot] /\ \A m \in Names : dir'[x][m] = IF m = n THEN b ELSE dir[x][m]
  BY <1>2, <1>3, NamesAssumption
<1>5. CellSet(x, n, b)
  BY <1>2, <1>4 DEF CellSet
<1> QED
  BY <1>2, <1>4, <1>5

\* An inode that the entry does not name before or after keeps its names.
LEMMA EntriesElse ==
  ASSUME NEW x \in Inums, NEW n \in Names, NEW b, CellSet(x, n, b), NEW c, dir[x][n] # c, b # c
  PROVE  Entries(c)' = Entries(c)
<1>1. /\ Entries(c)' \ {<<x, n>>} = Entries(c) \ {<<x, n>>}
      /\ <<x, n>> \in Entries(c)' <=> b = c
      /\ <<x, n>> \in Entries(c) <=> dir[x][n] = c
  BY EntriesBut
<1> QED
  BY <1>1

\* How many names an inode gets or loses.
LEMMA EntriesCount ==
  ASSUME NEW x \in Inums, NEW n \in Names, NEW b, CellSet(x, n, b), NEW i
  PROVE  Cardinality(Entries(i)') + (IF dir[x][n] = i THEN 1 ELSE 0)
           = Cardinality(Entries(i)) + (IF b = i THEN 1 ELSE 0)
<1> DEFINE c == <<x, n>>
<1>1. /\ Entries(i)' \ {c} = Entries(i) \ {c}
      /\ c \in Entries(i)' <=> b = i
      /\ c \in Entries(i) <=> dir[x][n] = i
  BY EntriesBut
<1> HIDE DEF c
<1>2. IsFiniteSet(Entries(i)) /\ IsFiniteSet(Entries(i)')
  BY EntriesFinite
<1>3. Cardinality(Entries(i)') + One(c \in Entries(i)) = Cardinality(Entries(i)) + One(c \in Entries(i)')
  BY <1>1, <1>2, CardShift
<1> QED
  BY <1>1, <1>3 DEF One

\* TreeInv for one entry.
LEMMA TreeFrom ==
  ASSUME ASSUME NEW i \in Inums, NEW y \in Inums, NEW m \in Names, dir'[y][m] = i, dinode'[i].type = "DIR"
         PROVE  dir'[i][DotDot] = y /\ \A m2 \in Names : dir'[y][m2] = i => m2 = m
  PROVE  TreeInv'
BY DEF TreeInv

\* A directory with a name: its ".." and its only name.
LEMMA TreeFacts ==
  ASSUME FSInv, NEW i \in Inums, NEW y \in Inums, NEW m \in Names, dir[y][m] = i, dinode[i].type = "DIR"
  PROVE  dir[i][DotDot] = y /\ \A m2 \in Names : dir[y][m2] = i => m2 = m
BY DEF FSInv, DiskInv, TreeInv

\* sys_link() makes the entry that its nlink++ was for.
LEMMA LinkDisk ==
  ASSUME FSInv, NEW p \in Procs, NEW s, EndsWriting(p, s), NEW e \in Slots, e = th[p].keep,
         NEW k \in Inums, k = itable[e].inum, dinode[k].type = "FILE",
         NEW x \in Inums, dinode[x].type = "DIR", NEW n \in Names, dir[x][n] = Nil,
         dir' = SetCell(x, n, k), UNCHANGED dinode
  PROVE  DiskInv'
<1>a. /\ CellSet(x, n, k)
      /\ \A i \in Inums \ {x} : dir'[i] = dir[i]
      /\ \A i \in Inums : dir'[i][DotDot] = dir[i][DotDot]
  BY CellWrite
<1>b. dir[k][DotDot] = Nil
  BY DEF FSInv, DiskInv, NoEntries
<1>1. LinkInv'
  <2> SUFFICES ASSUME NEW i \in Inums
               PROVE  dinode'[i].nlink >= Cardinality(Entries(i)') + Cardinality(Subdirs(i)')
                        + Cardinality(Pending(i)') + (IF i = ROOTINO THEN 1 ELSE 0)
    BY DEF LinkInv
  <2>1. i # Nil
    BY SizeAssumption DEF Inums, Nil
  <2>2. Cardinality(Entries(i)') = Cardinality(Entries(i)) + (IF k = i THEN 1 ELSE 0)
    <3>1. Cardinality(Entries(i)') + (IF dir[x][n] = i THEN 1 ELSE 0)
              = Cardinality(Entries(i)) + (IF k = i THEN 1 ELSE 0)
      BY <1>a, EntriesCount
    <3> QED
      BY <2>1, <3>1, LinkFacts
  <2>3. Cardinality(Pending(i)') + (IF k = i THEN 1 ELSE 0) = Cardinality(Pending(i))
    BY PendingEnds, SlotNotNil
  <2>4. Cardinality(Subdirs(i)') = Cardinality(Subdirs(i))
    <3>1. ASSUME NEW c \in Inums \ {k} PROVE Entries(c)' # {} <=> Entries(c) # {}
      <4>1. dir[x][n] # c /\ k # c
        BY <3>1, SizeAssumption DEF Inums, Nil
      <4> QED
        BY <1>a, <4>1, EntriesElse
    <3>2. k \notin Subdirs(i) /\ k \notin Subdirs(i)'
      BY <1>b, <1>a, <2>1 DEF Subdirs
    <3>3. \A c \in Inums \ {k} : (Entries(c)' # {} <=> Entries(c) # {}) /\ dir'[c][DotDot] = dir[c][DotDot]
      BY <1>a, <3>1
    <3>4. Cardinality(Subdirs(i)') + (IF k \in Subdirs(i) THEN 1 ELSE 0)
           = Cardinality(Subdirs(i)) + (IF k \in Subdirs(i)' THEN 1 ELSE 0)
      BY <3>3, SubdirsCard
    <3> QED
      BY <3>2, <3>4, LinkFacts
  <2> QED
    BY <2>2, <2>3, <2>4, LinkFacts
<1>2. TreeInv'
  <2> SUFFICES ASSUME NEW i \in Inums, NEW y \in Inums, NEW m \in Names, dir'[y][m] = i, dinode'[i].type = "DIR"
               PROVE  dir'[i][DotDot] = y /\ \A m2 \in Names : dir'[y][m2] = i => m2 = m
    BY TreeFrom
  <2>1. i # k
    OBVIOUS
  <2>2. \A m2 \in Names : dir'[y][m2] = i => dir[y][m2] = i
    BY <1>a, <2>1 DEF CellSet
  <2> QED
    BY <1>a, <2>2, TreeFacts
<1>3. \A i \in Inums : dinode'[i].type # "DIR" => dir'[i] = NoEntries
  BY <1>a DEF FSInv, DiskInv
<1>4. \A i \in Inums : dinode'[i].type = "free" => dinode'[i].nlink = 0
  BY DEF FSInv, DiskInv
<1> QED
  BY <1>1, <1>2, <1>3, <1>4 DEF DiskInv

\* dirlink() of the inode whose link count sys_link() has raised.
LEMMA LinkMakes ==
  ASSUME FSInv, NEW p \in Procs, At(p, "linknew"), NEW d, d = th[p].ip, itable[d].lock = None,
         NEW k, k = itable[th[p].keep].inum, NEW x, x = itable[d].inum, NEW n, n = Head(th[p].path),
         dir[x][n] = Nil, itable' = iunlock(ilock(itable, d, p), d), dir' = SetCell(x, n, k),
         Return(p, <<d, th[p].keep>>), UNCHANGED <<dinode, cwd, file, panicked>>
  PROVE  FSInv'
<1> DEFINE e == th[p].keep
           s == <<d, e>>
<1>1. /\ th[p].puts = <<>> /\ th[p].dp = Nil /\ d \in Slots /\ HasGood(p, d) /\ itable[d].ref > 0
      /\ x \in Inums /\ dinode[x].type = "DIR" /\ e # Nil /\ th[p] \in ThreadType /\ n \in Names
  BY AtParent DEF ParentLookups
<1>2. /\ cwd[p] \in Slots /\ file[p] \in Slots \cup {Nil}
      /\ \A f : N(p, f) = (IF cwd[p] = f THEN 1 ELSE 0) + (IF file[p] = f THEN 1 ELSE 0)
              + (IF th[p].ip = f THEN 1 ELSE 0) + (IF th[p].dp = f THEN 1 ELSE 0)
              + (IF th[p].keep = f THEN 1 ELSE 0)
      /\ \A f : HasGood(p, f) <=>
              cwd[p] = f \/ file[p] = f \/ th[p].ip = f \/ th[p].dp = f \/ th[p].keep = f
      /\ \A f \in Slots : itable[f].lock = p <=> th[p].dp = f
  BY <1>1, AtFacts
<1>3. e \in Slots /\ HasGood(p, e)
  BY <1>1, <1>2 DEF ThreadType
<1>4. k \in Inums /\ dinode[k].type = "FILE"
  BY <1>1, <1>3, GoodFacts DEF FSInv, ThreadInv, Local
<1>5. dir[k] = NoEntries /\ dir[k][DotDot] = Nil
  BY <1>4 DEF FSInv, DiskInv, NoEntries
<1>6. s \in Seq(Slots) /\ Len(s) <= 2 /\ Return(p, s)
  BY <1>1, <1>3
<1>7. \A f \in Slots : N(p, f)' = (IF cwd[p] = f THEN 1 ELSE 0) + (IF file[p] = f THEN 1 ELSE 0)
                                    + (IF d = f THEN 1 ELSE 0) + (IF e = f THEN 1 ELSE 0)
  <2>1. th \in [Procs -> ThreadType]
    BY DEF FSInv, TypeInv
  <2> QED
    BY <1>1, <1>3, <2>1, Ended2
<1> HIDE DEF s, e
<1>8. /\ dir' \in [Inums -> [Names \cup {DotDot} -> Inums \cup {Nil}]]
      /\ CellSet(x, n, k)
      /\ \A i \in Inums \ {x} : dir'[i] = dir[i]
      /\ \A i \in Inums : dir'[i][DotDot] = dir[i][DotDot]
  BY <1>1, <1>4, CellWrite
<1>9. /\ TRel(p, itable') /\ itable'[d].valid
      /\ \A f \in Slots : /\ itable'[f].ref = itable[f].ref /\ itable'[f].lock = itable[f].lock
                          /\ itable'[f].inum = itable[f].inum
      /\ \A f \in Slots \ {d} : itable'[f] = itable[f]
  <2>1. /\ TRel(p, itable') /\ itable'[d].valid
        /\ \A f \in Slots : /\ itable'[f].ref = itable[f].ref /\ itable'[f].lock = itable[f].lock
                            /\ itable'[f].inum = itable[f].inum
    BY <1>1, Touched
  <2>2. \A f \in Slots \ {d} : itable'[f] = itable[f]
    <3> DEFINE T == ilock(itable, d, p)
    <3>1. TRel(p, T) /\ \A f \in Slots \ {d} : T[f] = itable[f]
      BY <1>1, ParentTable
    <3>2. itable' = iunlock(T, d)
      OBVIOUS
    <3> HIDE DEF T
    <3>3. \A f \in Slots \ {d} : itable'[f] = T[f]
      BY <1>1, <3>1, <3>2, TRelUnlock
    <3> QED
      BY <3>1, <3>3
  <2> QED
    BY <2>1, <2>2
<1>10. TablesOwn(p)
  BY <1>1, <1>2, <1>9, SlotNotNil DEF TablesOwn
<1>11. WritesOwn(p)
  <2> SUFFICES ASSUME NEW i \in Inums
               PROVE  \/ dinode'[i] = dinode[i] /\ dir'[i] = dir[i]
                      \/ /\ dinode'[i].type = dinode[i].type
                         /\ \E f \in Slots : HasGood(p, f) /\ itable[f].inum = i /\ itable[f].lock \in {None, p}
    BY DEF WritesOwn
  <2> QED
    BY <1>1, <1>8
<1>12. EndsWriting(p, s)
  <2>1. \A f \in Slots : N(p, f)' = N(p, f)
    BY <1>1, <1>2, <1>7, SlotNotNil DEF e
  <2>2. cwd' \in [Procs -> Slots] /\ file' \in [Procs -> Slots \cup {Nil}]
        /\ \A q \in Procs \ {p} : cwd'[q] = cwd[q] /\ file'[q] = file[q]
    BY DEF FSInv, TypeInv
  <2> QED
    BY <1>1, <1>6, <1>10, <1>11, <2>1, <2>2 DEF EndsWriting
<1>13. TabOK(itable', dinode')
  BY <1>9 DEF TRel
<1>14. DiskInv'
  <2>1. /\ FSInv /\ p \in Procs /\ x \in Inums /\ n \in Names /\ k \in Inums /\ e \in Slots
        /\ k = itable[e].inum /\ dinode[x].type = "DIR" /\ dir[x][n] = Nil /\ dir' = SetCell(x, n, k)
        /\ UNCHANGED dinode /\ dinode[k].type = "FILE"
    BY <1>1, <1>3, <1>4 DEF e
  <2>2. e = th[p].keep
    BY DEF e
  <2> QED
    BY ONLY <1>12, <2>1, <2>2, LinkDisk
<1>15. itable' \in [Slots -> Entry] /\ dinode' \in [Inums -> [type : Types, nlink : Nat]]
  BY <1>9 DEF TRel, FSInv, TypeInv
<1> QED
  BY <1>8, <1>12, <1>13, <1>14, <1>15, WriteReturn

\* The second half of sys_link() keeps the invariant: the entry replaces the
\* pending link.
LEMMA Step_link_entry ==
  ASSUME FSInv, NEW p \in Procs, link_entry(p)
  PROVE  FSInv'
<1> DEFINE d == th[p].ip
           T == ilock(itable, d, p)
           n == Head(th[p].path)
           x == itable[d].inum
           i == dir[T[d].inum][n]
           k == itable[th[p].keep].inum
<1>1. At(p, "linknew") /\ itable[d].lock = None
  BY DEF link_entry, Lockable
<1>2. T[d].inum = x
  <2>1. d \in Slots /\ HasGood(p, d)
    BY <1>1, AtParent DEF ParentLookups
  <2> QED
    BY <2>1, ParentTable
<1>3. CASE i # Nil
  <2>1. CASE SlotOf(T, i) = Nil
    <3>1. Panic("iget: no inodes")
      BY <1>3, <2>1 DEF link_entry
    <3>2. UNCHANGED <<dinode, dir, itable, cwd, file, th>> /\ panicked' = "iget: no inodes"
      BY ONLY <3>1 DEF Panic
    <3> QED
      BY <3>2, PanicKept
  <2>2. CASE SlotOf(T, i) # Nil
    <3>1. /\ itable' = iget(T, i) /\ th' = [th EXCEPT ![p] = ToExists(th[p], SlotOf(T, i))]
          /\ UNCHANGED <<dinode, dir, cwd, file, panicked>>
      BY <1>3, <2>2 DEF link_entry, ToExists
    <3> QED
      BY <1>1, <1>3, <2>2, <3>1, LinkFinds
  <2> QED
    BY <2>1, <2>2
<1>4. CASE i = Nil
  <2>1. /\ itable' = iunlock(T, d) /\ dir' = [dir EXCEPT ![T[d].inum][n] = k]
        /\ Return(p, <<d, th[p].keep>>) /\ UNCHANGED <<dinode, cwd, file, panicked>>
    BY <1>4 DEF link_entry
  <2>2. dir' = SetCell(x, n, k) /\ dir[x][n] = Nil
    BY <1>2, <1>4, <2>1 DEF SetCell
  <2> QED
    BY <1>1, <2>1, <2>2, LinkMakes
<1> QED
  BY <1>3, <1>4
-----------------------------------------------------------------------------
(***************************************************************************)
(* unlink() and create() with the parent and the inode locked.             *)
(***************************************************************************)

\* The link counts of two inodes are written, to the disk and the table.
TwoLinks(i, a, x, b) == [dinode EXCEPT ![i].nlink = a, ![x].nlink = b]
LinksSet(i, a, x, b) ==
    \A c \in Inums : /\ dinode'[c].type = dinode[c].type
                     /\ dinode'[c].nlink = IF c = i THEN a ELSE IF c = x THEN b ELSE dinode[c].nlink
                     /\ c # i /\ c # x => dinode'[c] = dinode[c]
\* The same in the inode table, with both entries unlocked.
EntriesSet(e, a, d, b) ==
    /\ itable' \in [Slots -> Entry]
    /\ \A f \in Slots \ {e, d} : itable'[f] = itable[f]
    /\ itable'[e].inum = itable[e].inum /\ itable'[e].ref = itable[e].ref /\ itable'[e].valid
    /\ itable'[e].type = dinode[itable[e].inum].type /\ itable'[e].nlink = a /\ itable'[e].lock = None
    /\ itable'[d].inum = itable[d].inum /\ itable'[d].ref = itable[d].ref
    /\ itable'[d].valid = itable[d].valid
    /\ itable'[d].type = itable[d].type /\ itable'[d].nlink = b /\ itable'[d].lock = None

\* TwoLinks() sets the two link counts.
LEMMA TwoLinksSet ==
  ASSUME FSInv, NEW i \in Inums, NEW x \in Inums, i # x, NEW a \in Nat, NEW b \in Nat,
         dinode' = TwoLinks(i, a, x, b)
  PROVE  dinode' \in [Inums -> [type : Types, nlink : Nat]] /\ LinksSet(i, a, x, b)
<1>1. dinode \in [Inums -> [type : Types, nlink : Nat]]
  BY DEF FSInv, TypeInv
<1> DEFINE D == [dinode EXCEPT ![i].nlink = a]
<1>2. /\ D \in [Inums -> [type : Types, nlink : Nat]]
      /\ \A c \in Inums \ {i} : D[c] = dinode[c]
      /\ D[i].nlink = a /\ D[i].type = dinode[i].type
  <2>1. dinode[i] \in [type : Types, nlink : Nat]
    BY <1>1
  <2> QED
    BY <1>1, <2>1
<1>3. dinode' = [D EXCEPT ![x].nlink = b]
  BY DEF TwoLinks
<1> HIDE DEF D
<1>4. /\ dinode' \in [Inums -> [type : Types, nlink : Nat]]
      /\ \A c \in Inums \ {x} : dinode'[c] = D[c]
      /\ dinode'[x].nlink = b /\ dinode'[x].type = D[x].type
  <2>1. D[x] \in [type : Types, nlink : Nat]
    BY <1>2
  <2> QED
    BY <1>2, <1>3, <2>1
<1> QED
  BY <1>2, <1>4 DEF LinksSet

\* p has entry d locked and entry e for itself.
HasBoth(p, e, d) ==
    /\ e \in Slots /\ d \in Slots /\ e # d /\ HasGood(p, e) /\ HasGood(p, d)
    /\ itable[d].valid /\ itable[e].lock = None /\ \A f \in Slots : itable[f].lock = p <=> f = d

\* The two entries are those of different inodes, both allocated.
LEMMA BothFacts ==
  ASSUME FSInv, NEW p \in Procs, NEW e, NEW d, HasBoth(p, e, d), NEW i, i = itable[e].inum,
         NEW x, x = itable[d].inum
  PROVE  /\ i \in Inums /\ x \in Inums /\ i # x /\ dinode[i].type # "free" /\ dinode[x].type # "free"
         /\ itable[d].type = dinode[x].type /\ itable[d].nlink = dinode[x].nlink
         /\ itable[e].ref > 0 /\ itable[d].ref > 0
<1>1. /\ i \in Inums /\ x \in Inums /\ itable[e].ref > 0 /\ itable[d].ref > 0
      /\ dinode[i].type # "free" /\ dinode[x].type # "free"
  BY GoodFacts DEF HasBoth
<1> QED
  BY <1>1 DEF FSInv, TabOK, HasBoth

\* Writing the two inodes changes nothing that others rely on.
LEMMA BothWritten ==
  ASSUME FSInv, NEW p \in Procs, NEW e, NEW d, HasBoth(p, e, d), NEW a, NEW b,
         EntriesSet(e, a, d, b), LinksSet(itable[e].inum, a, itable[d].inum, b),
         \A c \in Inums \ {itable[e].inum, itable[d].inum} : dir'[c] = dir[c]
  PROVE  TablesOwn(p) /\ WritesOwn(p) /\ TabOK(itable', dinode')
<1> DEFINE i == itable[e].inum
           x == itable[d].inum
<1>1. /\ i \in Inums /\ x \in Inums /\ i # x /\ dinode[i].type # "free" /\ dinode[x].type # "free"
      /\ itable[d].type = dinode[x].type /\ itable[d].nlink = dinode[x].nlink
      /\ itable[e].ref > 0 /\ itable[d].ref > 0
  BY BothFacts
<1>2. e \in Slots /\ d \in Slots /\ e # d /\ HasGood(p, e) /\ HasGood(p, d)
  BY DEF HasBoth
<1>3. TablesOwn(p)
  <2> SUFFICES ASSUME NEW f \in Slots
               PROVE  /\ itable'[f].ref = itable[f].ref /\ itable'[f].inum = itable[f].inum
                      /\ itable'[f].valid = itable[f].valid \/ HasGood(p, f)
                      /\ itable[f].valid => itable'[f].valid
                      /\ itable'[f].lock = IF itable[f].lock = p THEN None ELSE itable[f].lock
    BY DEF TablesOwn
  <2>1. CASE f = e
    BY <1>2, <2>1 DEF EntriesSet, HasBoth
  <2>2. CASE f = d
    BY <1>2, <2>2 DEF EntriesSet, HasBoth
  <2>3. CASE f # e /\ f # d
    BY <1>2, <2>3 DEF EntriesSet, HasBoth
  <2> QED
    BY <2>1, <2>2, <2>3
<1>4. WritesOwn(p)
  <2> SUFFICES ASSUME NEW c \in Inums
               PROVE  \/ dinode'[c] = dinode[c] /\ dir'[c] = dir[c]
                      \/ /\ dinode'[c].type = dinode[c].type
                         /\ \E f \in Slots : HasGood(p, f) /\ itable[f].inum = c /\ itable[f].lock \in {None, p}
    BY DEF WritesOwn
  <2>1. CASE c = i
    BY <1>2, <2>1 DEF LinksSet, HasBoth
  <2>2. CASE c = x
    BY <1>2, <2>2 DEF LinksSet, HasBoth
  <2>3. CASE c # i /\ c # x
    BY <2>3 DEF LinksSet
  <2> QED
    BY <2>1, <2>2, <2>3
<1>5. TabOK(itable', dinode')
  <2>1. TabOK(itable, dinode)
    BY DEF FSInv
  <2>2. AgreesWith(itable, itable', dinode')
    <3> SUFFICES ASSUME NEW f \in Slots
                 PROVE  /\ itable'[f].ref = itable[f].ref /\ itable'[f].inum = itable[f].inum
                        /\ itable[f].ref > 0 /\ itable'[f].valid =>
                             /\ dinode'[itable[f].inum].type = itable'[f].type
                             /\ dinode'[itable[f].inum].nlink = itable'[f].nlink
                             /\ itable'[f].type # "free"
      BY DEF AgreesWith
    <3>1. CASE f = e
      BY <1>1, <3>1 DEF EntriesSet, LinksSet
    <3>2. CASE f = d
      BY <1>1, <3>2 DEF EntriesSet, LinksSet
    <3>3. CASE f # e /\ f # d
      <4>1. itable[f].ref > 0 => itable[f].inum \in Inums /\ itable[f].inum # i /\ itable[f].inum # x
        BY <1>1, <1>2, <2>1, <3>3 DEF TabOK
      <4>2. itable'[f] = itable[f]
        BY <3>3 DEF EntriesSet
      <4> QED
        BY <2>1, <4>1, <4>2 DEF TabOK, LinksSet
    <3> QED
      BY <3>1, <3>2, <3>3
  <2> QED
    BY <2>1, <2>2, TabWrite
<1> QED
  BY <1>3, <1>4, <1>5

\* unlink() of inode i, whose name is n in directory x.
LEMMA UnlinkDisk ==
  ASSUME FSInv, NEW p \in Procs, NEW s, EndsWriting(p, s), th[p].keep = Nil,
         NEW x \in Inums, dinode[x].type = "DIR", NEW n \in Names, NEW i \in Inums, dir[x][n] = i, i # x,
         dinode[i].type # "free",
         NEW up, up = dinode[x].nlink - (IF dinode[i].type = "DIR" THEN 1 ELSE 0),
         LinksSet(i, dinode[i].nlink - 1, x, up), dir' = SetCell(x, n, Nil)
  PROVE  DiskInv'
<1>1. /\ CellSet(x, n, Nil)
      /\ \A c \in Inums \ {x} : dir'[c] = dir[c]
      /\ \A c \in Inums : dir'[c][DotDot] = dir[c][DotDot]
  BY CellWrite
<1>2. \A c \in Inums : c # Nil
  BY SizeAssumption DEF Inums, Nil
<1>3. ASSUME NEW c \in Inums, NEW y \in Inums, NEW m \in Names, dir'[y][m] = c
      PROVE  dir[y][m] = c /\ ~(y = x /\ m = n)
  BY <1>1, <1>2, <1>3 DEF CellSet
<1>4. ASSUME NEW c \in Inums \ {i} PROVE Entries(c)' = Entries(c)
  BY <1>1, <1>2, <1>4, EntriesElse
<1>5. ASSUME NEW c \in Inums
      PROVE  (i \in Subdirs(c) <=> dinode[i].type = "DIR" /\ c = x) /\ i \notin Subdirs(c)'
  <2>1. CASE dinode[i].type = "DIR"
    <3>1. dir[i][DotDot] = x /\ \A m \in Names : dir[x][m] = i => m = n
      BY <2>1, TreeFacts
    <3>2. Entries(i) # {}
      <4>1. <<x, n>> \in Entries(i)
        BY DEF Entries
      <4> QED
        BY <4>1
    <3>3. Entries(i)' = {}
      <4>1. ASSUME NEW y \in Inums, NEW m \in Names, dir'[y][m] = i PROVE FALSE
        <5>1. dir[y][m] = i /\ ~(y = x /\ m = n)
          BY <1>3, <4>1
        <5>2. dir[i][DotDot] = y
          BY <2>1, <5>1, TreeFacts
        <5> QED
          BY <3>1, <5>1, <5>2
      <4> QED
        BY <4>1 DEF Entries
    <3> QED
      BY <2>1, <3>1, <3>2, <3>3 DEF Subdirs
  <2>2. CASE dinode[i].type # "DIR"
    <3>1. dir[i][DotDot] = Nil
      BY <2>2 DEF FSInv, DiskInv, NoEntries
    <3> QED
      BY <1>1, <1>2, <2>2, <3>1 DEF Subdirs
  <2> QED
    BY <2>1, <2>2
<1>6. LinkInv'
  <2> SUFFICES ASSUME NEW c \in Inums
               PROVE  dinode'[c].nlink >= Cardinality(Entries(c)') + Cardinality(Subdirs(c)')
                        + Cardinality(Pending(c)') + (IF c = ROOTINO THEN 1 ELSE 0)
    BY DEF LinkInv
  <2>1. Cardinality(Entries(c)') + (IF i = c THEN 1 ELSE 0) = Cardinality(Entries(c))
    <3>1. Cardinality(Entries(c)') + (IF dir[x][n] = c THEN 1 ELSE 0)
              = Cardinality(Entries(c)) + (IF Nil = c THEN 1 ELSE 0)
      BY <1>1, EntriesCount
    <3> QED
      BY <1>2, <3>1, LinkFacts
  <2>2. Cardinality(Pending(c)') = Cardinality(Pending(c))
    BY PendingEnds, LinkFacts
  <2>3. Cardinality(Subdirs(c)') + (IF dinode[i].type = "DIR" /\ c = x THEN 1 ELSE 0) = Cardinality(Subdirs(c))
    <3>1. \A g \in Inums \ {i} : (Entries(g)' # {} <=> Entries(g) # {}) /\ dir'[g][DotDot] = dir[g][DotDot]
      BY <1>1, <1>4
    <3>2. Cardinality(Subdirs(c)') + (IF i \in Subdirs(c) THEN 1 ELSE 0)
           = Cardinality(Subdirs(c)) + (IF i \in Subdirs(c)' THEN 1 ELSE 0)
      BY <3>1, SubdirsCard
    <3> QED
      BY <1>5, <3>2, LinkFacts
  <2>4. dinode'[c].nlink = dinode[c].nlink - (IF i = c THEN 1 ELSE 0)
                              - (IF dinode[i].type = "DIR" /\ c = x THEN 1 ELSE 0)
    <3>1. dinode[c].nlink \in Nat
      BY LinkFacts
    <3> QED
      BY <3>1 DEF LinksSet
  <2> DEFINE v == IF i = c THEN 1 ELSE 0
             w == IF dinode[i].type = "DIR" /\ c = x THEN 1 ELSE 0
  <2>5. v \in Nat /\ w \in Nat
    OBVIOUS
  <2> HIDE DEF v, w
  <2>6. /\ Cardinality(Entries(c)') + v = Cardinality(Entries(c))
        /\ Cardinality(Subdirs(c)') + w = Cardinality(Subdirs(c))
        /\ dinode'[c].nlink = dinode[c].nlink - v - w
    BY <2>1, <2>3, <2>4 DEF v, w
  <2> QED
    BY <2>2, <2>5, <2>6, LinkFacts
<1>7. TreeInv'
  <2> SUFFICES ASSUME NEW c \in Inums, NEW y \in Inums, NEW m \in Names, dir'[y][m] = c, dinode'[c].type = "DIR"
               PROVE  dir'[c][DotDot] = y /\ \A m2 \in Names : dir'[y][m2] = c => m2 = m
    BY TreeFrom
  <2>1. dir[y][m] = c /\ dinode[c].type = "DIR"
    BY <1>3 DEF LinksSet
  <2> QED
    BY <1>1, <1>3, <2>1, TreeFacts
<1>8. \A c \in Inums : dinode'[c].type # "DIR" => dir'[c] = NoEntries
  BY <1>1 DEF FSInv, DiskInv, LinksSet
<1>9. \A c \in Inums : dinode'[c].type = "free" => dinode'[c].nlink = 0
  BY DEF FSInv, DiskInv, LinksSet
<1> QED
  BY <1>6, <1>7, <1>8, <1>9 DEF DiskInv

\* A call with its parent locked, at the step that locks the inode too.
LEMMA AtBoth ==
  ASSUME FSInv, NEW p \in Procs, NEW l \in {"create_new", "unlink_entry"}, At(p, l),
         NEW e, e = th[p].ip, NEW d, d = th[p].dp, itable[e].lock = None
  PROVE  /\ HasBoth(p, e, d) /\ th[p].puts = <<>> /\ th[p].keep = Nil
         /\ dinode[itable[d].inum].type = "DIR" /\ Head(th[p].path) \in Names
         /\ cwd[p] \in Slots /\ file[p] \in Slots \cup {Nil} /\ th[p].pc = l
         /\ \A f \in Slots : N(p, f) = (IF cwd[p] = f THEN 1 ELSE 0) + (IF file[p] = f THEN 1 ELSE 0)
              + (IF e = f THEN 1 ELSE 0) + (IF d = f THEN 1 ELSE 0)
<1>1. th[p].puts = <<>> /\ th[p].pc = l
  BY DEF At
<1>2. /\ th[p] \in ThreadType /\ Shape(th[p]) /\ cwd[p] \in Slots /\ file[p] \in Slots \cup {Nil}
      /\ \A f : N(p, f) = (IF cwd[p] = f THEN 1 ELSE 0) + (IF file[p] = f THEN 1 ELSE 0)
              + (IF th[p].ip = f THEN 1 ELSE 0) + (IF th[p].dp = f THEN 1 ELSE 0)
              + (IF th[p].keep = f THEN 1 ELSE 0)
      /\ \A f : HasGood(p, f) <=>
              cwd[p] = f \/ file[p] = f \/ th[p].ip = f \/ th[p].dp = f \/ th[p].keep = f
      /\ \A f \in Slots : itable[f].lock = p <=> th[p].dp = f
  BY <1>1, AtFacts
<1>3. e \in Slots /\ d \in Slots /\ th[p].keep = Nil /\ th[p].path # <<>>
  <2>1. th[p].op \in {"create", "mkdir", "unlink"}
    BY <1>1, <1>2 DEF Shape
  <2> QED
    BY <1>1, <1>2, <2>1, RecParts DEF Shape
<1>4. e # d
  BY <1>2, <1>3, NamesAssumption
<1>5. itable[d].valid /\ dinode[itable[d].inum].type = "DIR"
  BY <1>3, SlotNotNil DEF FSInv, ThreadInv, Local
<1>6. HasBoth(p, e, d)
  BY <1>2, <1>3, <1>4, <1>5 DEF HasBoth
<1>7. Head(th[p].path) \in Names
  BY <1>2, <1>3, RecParts
<1>8. \A f \in Slots : N(p, f) = (IF cwd[p] = f THEN 1 ELSE 0) + (IF file[p] = f THEN 1 ELSE 0)
              + (IF e = f THEN 1 ELSE 0) + (IF d = f THEN 1 ELSE 0)
  BY <1>2, <1>3, SlotNotNil
<1> QED
  BY <1>1, <1>2, <1>3, <1>5, <1>6, <1>7, <1>8

\* unlink() of a directory that is not empty.
LEMMA UnlinkRefused ==
  ASSUME FSInv, NEW p \in Procs, At(p, "unlink_entry"), NEW e, e = th[p].ip, NEW d, d = th[p].dp,
         itable[e].lock = None, itable' = iunlock(iunlock(ilock(itable, e, p), e), d),
         Return(p, <<e, d>>), UNCHANGED <<dinode, dir, cwd, file, panicked>>
  PROVE  FSInv'
<1>1. /\ HasBoth(p, e, d) /\ th[p].puts = <<>> /\ cwd[p] \in Slots /\ file[p] \in Slots \cup {Nil}
      /\ \A f \in Slots : N(p, f) = (IF cwd[p] = f THEN 1 ELSE 0) + (IF file[p] = f THEN 1 ELSE 0)
              + (IF e = f THEN 1 ELSE 0) + (IF d = f THEN 1 ELSE 0)
  BY AtBoth
<1>2. e \in Slots /\ d \in Slots /\ HasGood(p, e) /\ \A f \in Slots : itable[f].lock = p <=> f = d
  BY <1>1 DEF HasBoth
<1> DEFINE U == iunlock(ilock(itable, e, p), e)
           s == <<e, d>>
<1>3. s \in Seq(Slots) /\ Len(s) <= 2 /\ Return(p, s)
  BY <1>2
<1>4. \A f \in Slots :
           /\ N(p, f)' = (IF cwd'[p] = f THEN 1 ELSE 0) + (IF file'[p] = f THEN 1 ELSE 0)
                           + (IF e = f THEN 1 ELSE 0) + (IF d = f THEN 1 ELSE 0)
           /\ HasGood(p, f)' <=> cwd'[p] = f \/ file'[p] = f \/ e = f \/ d = f
  <2>1. th \in [Procs -> ThreadType]
    BY DEF FSInv, TypeInv
  <2> QED
    BY <1>2, <2>1, Ended2
<1> HIDE DEF s
<1>5. /\ TRel(p, U)
      /\ \A f \in Slots : /\ U[f].ref = itable[f].ref /\ U[f].lock = itable[f].lock
                          /\ U[f].inum = itable[f].inum
  BY <1>2, Touched
<1>6. itable' = iunlock(U, d)
  OBVIOUS
<1> HIDE DEF U
<1>7. /\ TRel(p, itable') /\ itable'[d].ref = U[d].ref /\ itable'[d].lock = None
      /\ \A f \in Slots \ {d} : itable'[f] = U[f]
  BY <1>2, <1>5, <1>6, TRelUnlock
<1>8. \A f \in Slots : /\ itable'[f].ref = itable[f].ref
                       /\ itable'[f].lock = IF itable[f].lock = p THEN None ELSE itable[f].lock
  BY <1>2, <1>5, <1>7
<1>9. UNCHANGED <<dinode, dir, cwd, file, panicked>> /\ FSInv /\ p \in Procs
  OBVIOUS
<1>10. \A f \in Slots : N(p, f)' = N(p, f)
  BY <1>1, <1>4, <1>9
<1>11. RefStep(p)
  <2> SUFFICES ASSUME NEW f \in Slots
               PROVE  itable'[f].ref = itable[f].ref + N(p, f)' - N(p, f)
    BY DEF RefStep
  <2>1. itable[f].ref \in Nat /\ N(p, f) \in Nat
    BY RefCovers DEF FSInv
  <2> QED
    BY <1>8, <1>10, <2>1
<1>12. QGain(p)
  <2> SUFFICES ASSUME NEW f \in Slots, HasGood(p, f)' PROVE HasGood(p, f)
    BY DEF QGain
  <2>1. cwd[p] = f \/ file[p] = f \/ e = f \/ d = f
    BY <1>4, <1>9
  <2> QED
    BY <2>1 DEF HasGood, Good
<1>13. /\ cwd' \in [Procs -> Slots] /\ file' \in [Procs -> Slots \cup {Nil}]
       /\ \A q \in Procs \ {p} : cwd'[q] = cwd[q] /\ file'[q] = file[q]
  BY <1>9 DEF FSInv, TypeInv
<1> QED
  BY ONLY <1>3, <1>7, <1>8, <1>9, <1>11, <1>12, <1>13, ReturnKept

\* The parent's link count is written and the parent unlocked.
Released(T, d, up) == [T EXCEPT ![d].nlink = up, ![d].lock = None]

\* What it changes.
LEMMA ReleasedFacts ==
  ASSUME NEW T \in [Slots -> Entry], NEW d \in Slots, NEW up \in Nat, NEW U, U = Released(T, d, up)
  PROVE  /\ U \in [Slots -> Entry] /\ \A f \in Slots \ {d} : U[f] = T[f]
         /\ U[d].inum = T[d].inum /\ U[d].ref = T[d].ref /\ U[d].valid = T[d].valid
         /\ U[d].type = T[d].type /\ U[d].nlink = up /\ U[d].lock = None
<1> DEFINE V == [T EXCEPT ![d].nlink = up]
           v == T[d]
<1>1. v \in Entry
  OBVIOUS
<1>2. V = [T EXCEPT ![d] = [v EXCEPT !.nlink = up]]
  OBVIOUS
<1> DEFINE w == [v EXCEPT !.nlink = up]
<1> HIDE DEF v
<1>3. /\ w \in Entry /\ w.inum = v.inum /\ w.ref = v.ref /\ w.valid = v.valid
      /\ w.type = v.type /\ w.nlink = up /\ w.lock = v.lock
  BY <1>1 DEF Entry
<1> HIDE DEF w
<1>4. V \in [Slots -> Entry] /\ V[d] = w /\ \A f \in Slots \ {d} : V[f] = T[f]
  BY <1>2, <1>3 DEF w
<1>5. U = [V EXCEPT ![d].lock = None]
  BY DEF Released
<1> HIDE DEF V
<1> DEFINE z == [w EXCEPT !.lock = None]
<1>6. /\ z \in Entry /\ z.inum = w.inum /\ z.ref = w.ref /\ z.valid = w.valid
      /\ z.type = w.type /\ z.nlink = w.nlink /\ z.lock = None
  BY <1>3 DEF Entry
<1> HIDE DEF z
<1>7. U = [V EXCEPT ![d] = z]
  BY <1>4, <1>5 DEF z
<1>8. U \in [Slots -> Entry] /\ U[d] = z /\ \A f \in Slots \ {d} : U[f] = V[f]
  BY <1>4, <1>6, <1>7
<1> QED
  BY <1>3, <1>4, <1>6, <1>8 DEF v

\* The values unlink() writes.
Erased(e, d, L, up) == [itable EXCEPT ![e] = [L EXCEPT !.nlink = @ - 1], ![d].nlink = up, ![d].lock = None]

\* Erased() sets the link counts in the two entries.
LEMMA ErasedFacts ==
  ASSUME FSInv, NEW p \in Procs, NEW e, NEW d, HasBoth(p, e, d), NEW L, L = Loaded(itable, e),
         L.nlink - 1 \in Nat, NEW up \in Nat, itable' = Erased(e, d, L, up)
  PROVE  EntriesSet(e, L.nlink - 1, d, up)
<1> DEFINE k == L.nlink - 1
           M == [L EXCEPT !.nlink = @ - 1]
<1>1. e \in Slots /\ d \in Slots /\ e # d /\ HasGood(p, e) /\ HasGood(p, d) /\ itable[e].lock = None
  BY DEF HasBoth
<1>2. /\ L \in Entry /\ L.inum = itable[e].inum /\ L.ref = itable[e].ref /\ L.valid /\ L.lock = None
      /\ L.type = dinode[itable[e].inum].type
  BY <1>1, LoadedTable
<1>3. /\ M \in Entry /\ M.inum = L.inum /\ M.ref = L.ref /\ M.valid = L.valid /\ M.type = L.type
      /\ M.nlink = k /\ M.lock = L.lock
  BY <1>2 DEF Entry
<1> DEFINE T == [itable EXCEPT ![e] = M]
<1> HIDE DEF M
<1>4. itable \in [Slots -> Entry]
  BY DEF FSInv, TypeInv, Entry
<1>5. T \in [Slots -> Entry] /\ T[e] = M /\ \A f \in Slots \ {e} : T[f] = itable[f]
  BY <1>1, <1>3, <1>4
<1>6. itable' = Released(T, d, up)
  BY DEF Erased, M, Released
<1> HIDE DEF T
<1>7. /\ itable' \in [Slots -> Entry] /\ \A f \in Slots \ {d} : itable'[f] = T[f]
      /\ itable'[d].inum = T[d].inum /\ itable'[d].ref = T[d].ref /\ itable'[d].valid = T[d].valid
      /\ itable'[d].type = T[d].type /\ itable'[d].nlink = up /\ itable'[d].lock = None
  BY <1>1, <1>5, <1>6, ReleasedFacts
<1> QED
  BY <1>1, <1>2, <1>3, <1>5, <1>7 DEF EntriesSet

\* The end of a call with its parent and its inode, after the writes.
LEMMA BothEnds ==
  ASSUME FSInv, NEW p \in Procs, NEW e, NEW d, HasBoth(p, e, d), th[p].puts = <<>>,
         NEW s \in Seq(Slots), Len(s) <= 2, Return(p, s),
         cwd' \in [Procs -> Slots], file' \in [Procs -> Slots \cup {Nil}],
         \A q \in Procs \ {p} : cwd'[q] = cwd[q] /\ file'[q] = file[q],
         \A f \in Slots : N(p, f)' = N(p, f), NEW a, NEW b,
         EntriesSet(e, a, d, b), LinksSet(itable[e].inum, a, itable[d].inum, b),
         \A c \in Inums \ {itable[e].inum, itable[d].inum} : dir'[c] = dir[c]
  PROVE  EndsWriting(p, s) /\ TabOK(itable', dinode') /\ itable' \in [Slots -> Entry]
<1>1. TablesOwn(p) /\ WritesOwn(p) /\ TabOK(itable', dinode')
  BY BothWritten
<1> QED
  BY <1>1 DEF EndsWriting, EntriesSet

\* unlink() erases the entry.
LEMMA UnlinkErases ==
  ASSUME FSInv, NEW p \in Procs, At(p, "unlink_entry"), NEW e, e = th[p].ip, NEW d, d = th[p].dp,
         itable[e].lock = None, NEW i, i = itable[e].inum, NEW x, x = itable[d].inum,
         NEW L, L = Loaded(itable, e), NEW n, n = Head(th[p].path),
         NEW up, up = itable[d].nlink - (IF L.type = "DIR" THEN 1 ELSE 0),
         itable' = Erased(e, d, L, up), dinode' = TwoLinks(i, L.nlink - 1, x, up),
         dir' = SetCell(x, n, Nil), Return(p, <<d, e>>), UNCHANGED <<cwd, file, panicked>>
  PROVE  FSInv'
<1>1. /\ HasBoth(p, e, d) /\ th[p].puts = <<>> /\ cwd[p] \in Slots /\ file[p] \in Slots \cup {Nil}
      /\ \A f \in Slots : N(p, f) = (IF cwd[p] = f THEN 1 ELSE 0) + (IF file[p] = f THEN 1 ELSE 0)
              + (IF e = f THEN 1 ELSE 0) + (IF d = f THEN 1 ELSE 0)
      /\ th[p].keep = Nil /\ dinode[x].type = "DIR" /\ n \in Names /\ th[p].pc = "unlink_entry"
  BY AtBoth
<1>2. e \in Slots /\ d \in Slots /\ HasGood(p, e) /\ HasGood(p, d)
  BY <1>1 DEF HasBoth
<1> DEFINE s == <<d, e>>
<1>3. s \in Seq(Slots) /\ Len(s) <= 2 /\ Return(p, s)
  BY <1>2
<1>4. \A f \in Slots : N(p, f)' = N(p, f)
  <2>1. th \in [Procs -> ThreadType]
    BY DEF FSInv, TypeInv
  <2>2. \A f \in Slots : N(p, f)' = (IF cwd'[p] = f THEN 1 ELSE 0) + (IF file'[p] = f THEN 1 ELSE 0)
                           + (IF d = f THEN 1 ELSE 0) + (IF e = f THEN 1 ELSE 0)
    BY <1>2, <2>1, Ended2
  <2>3. cwd' = cwd /\ file' = file
    OBVIOUS
  <2> QED
    BY ONLY <1>1, <2>2, <2>3
<1>5. /\ FSInv /\ p \in Procs /\ UNCHANGED <<cwd, file, panicked>> /\ dir' = SetCell(x, n, Nil)
      /\ itable' = Erased(e, d, L, up) /\ dinode' = TwoLinks(i, L.nlink - 1, x, up)
      /\ i = itable[e].inum /\ x = itable[d].inum /\ L = Loaded(itable, e)
      /\ up = itable[d].nlink - (IF L.type = "DIR" THEN 1 ELSE 0) /\ itable[e].lock = None
  OBVIOUS
<1>6. /\ i \in Inums /\ x \in Inums /\ i # x /\ dinode[i].type # "free" /\ dinode[x].type # "free"
      /\ itable[d].type = dinode[x].type /\ itable[d].nlink = dinode[x].nlink
  BY <1>1, BothFacts
<1>7. L.type = dinode[i].type /\ L.nlink = dinode[i].nlink
  BY <1>2, <1>5, LoadedTable
<1>8. dir[x][n] = i
  BY <1>1 DEF FSInv, ThreadInv, Local
<1> HIDE DEF s
<1>9. L.nlink - 1 \in Nat
  <2>0. i \in Inums /\ FSInv
    BY <1>5, <1>6
  <2>1. i # Nil /\ dinode[i].nlink \in Nat
    BY ONLY <2>0, LinkFacts, SizeAssumption DEF Inums, Nil
  <2>2. dinode[i].nlink # 0
    BY <1>1, <1>6, <1>8, <2>1, EntryLinked
  <2> QED
    BY ONLY <1>7, <2>1, <2>2
<1>10. up \in Nat
  <2>0. x \in Inums /\ FSInv
    BY <1>5, <1>6
  <2>1. dinode[x].nlink \in Nat
    BY ONLY <2>0, LinkFacts
  <2>2. CASE dinode[i].type = "DIR"
    <3>1. i \in Subdirs(x)
      <4>1. dir[i][DotDot] = x
        BY <1>1, <1>6, <1>8, <2>2, TreeFacts
      <4>2. <<x, n>> \in Entries(i)
        BY <1>1, <1>6, <1>8 DEF Entries
      <4> QED
        BY <1>6, <4>1, <4>2 DEF Subdirs
    <3>2. Subdirs(x) # {} /\ IsFiniteSet(Subdirs(x)) /\ Cardinality(Subdirs(x)) \in Nat
      BY <3>1, EntriesFinite
    <3>3. Cardinality(Subdirs(x)) # 0
      BY <3>2, FS_EmptySet, Zenon
    <3>4. dinode[x].nlink >= 1
      BY ONLY <2>0, <3>2, <3>3, LinkFacts
    <3>5. up = dinode[x].nlink - 1
      BY <1>5, <1>6, <1>7, <2>2
    <3> QED
      BY <2>1, <3>4, <3>5
  <2>3. CASE dinode[i].type # "DIR"
    <3>1. up = dinode[x].nlink
      BY ONLY <1>5, <1>6, <1>7, <2>1, <2>3
    <3> QED
      BY ONLY <2>1, <3>1
  <2> QED
    BY <2>2, <2>3
<1>11. EntriesSet(e, L.nlink - 1, d, up)
  BY ONLY <1>1, <1>5, <1>9, <1>10, ErasedFacts
<1>12. dinode' \in [Inums -> [type : Types, nlink : Nat]] /\ LinksSet(i, L.nlink - 1, x, up)
  BY <1>5, <1>6, <1>9, <1>10, TwoLinksSet
<1>13. /\ dir' \in [Inums -> [Names \cup {DotDot} -> Inums \cup {Nil}]]
       /\ \A c \in Inums \ {x} : dir'[c] = dir[c]
  <2>1. Nil \in Inums \cup {Nil} /\ n \in Names
    BY <1>1
  <2> QED
    BY <1>5, <1>6, <2>1, CellWrite
<1>14. /\ cwd' \in [Procs -> Slots] /\ file' \in [Procs -> Slots \cup {Nil}]
       /\ \A q \in Procs \ {p} : cwd'[q] = cwd[q] /\ file'[q] = file[q]
  BY <1>5 DEF FSInv, TypeInv
<1>15. EndsWriting(p, s) /\ TabOK(itable', dinode') /\ itable' \in [Slots -> Entry]
  <2>1. LinksSet(itable[e].inum, L.nlink - 1, itable[d].inum, up)
    BY <1>5, <1>12
  <2>2. \A c \in Inums \ {itable[e].inum, itable[d].inum} : dir'[c] = dir[c]
    BY <1>5, <1>13
  <2> QED
    BY ONLY <1>1, <1>3, <1>4, <1>5, <1>11, <1>14, <2>1, <2>2, BothEnds
<1>16. DiskInv'
  <2>1. /\ th[p].keep = Nil /\ dinode[x].type = "DIR" /\ n \in Names
        /\ up = dinode[x].nlink - (IF dinode[i].type = "DIR" THEN 1 ELSE 0)
        /\ LinksSet(i, dinode[i].nlink - 1, x, up)
    BY <1>1, <1>5, <1>6, <1>7, <1>12
  <2> QED
    BY ONLY <1>5, <1>6, <1>8, <1>15, <2>1, UnlinkDisk
<1> QED
  BY ONLY <1>5, <1>12, <1>13, <1>15, <1>16, WriteReturn

\* The second half of sys_unlink() keeps the invariant: the entry goes with the
\* link that it was counted by.
LEMMA Step_unlink_entry ==
  ASSUME FSInv, NEW p \in Procs, unlink_entry(p)
  PROVE  FSInv'
<1> DEFINE e  == th[p].ip
           d  == th[p].dp
           i  == itable[e].inum
           x  == itable[d].inum
           L  == Loaded(itable, e)
           n  == Head(th[p].path)
           up == itable[d].nlink - (IF L.type = "DIR" THEN 1 ELSE 0)
<1>1. At(p, "unlink_entry") /\ itable[e].lock = None
  BY DEF unlink_entry, Lockable
<1>2. ~(L.nlink < 1)
  <2>1. HasBoth(p, e, d) /\ n \in Names /\ th[p].pc = "unlink_entry"
    BY <1>1, AtBoth
  <2>2. i \in Inums /\ x \in Inums
    BY <2>1, BothFacts
  <2>3. L.nlink = dinode[i].nlink
    BY <1>1, <2>1, LoadedTable DEF HasBoth
  <2>4. dir[x][n] = i /\ i # Nil
    BY <2>1, <2>2, SizeAssumption DEF FSInv, ThreadInv, Local, Inums, Nil
  <2>5. dinode[i].nlink # 0
    BY <2>1, <2>2, <2>4, EntryLinked
  <2>6. dinode[i].nlink \in Nat
    BY <2>2, LinkFacts
  <2> QED
    BY <2>3, <2>5, <2>6
<1>3. CASE L.type = "DIR" /\ ~isdirempty(i)
  <2>1. /\ itable' = iunlock(iunlock(ilock(itable, e, p), e), d) /\ Return(p, <<e, d>>)
        /\ UNCHANGED <<dinode, dir, cwd, file, panicked>>
    BY <1>2, <1>3 DEF unlink_entry
  <2> QED
    BY <1>1, <2>1, UnlinkRefused
<1>4. CASE ~(L.type = "DIR" /\ ~isdirempty(i))
  <2>1. /\ itable' = [itable EXCEPT ![e] = [L EXCEPT !.nlink = @ - 1], ![d].nlink = up, ![d].lock = None]
        /\ dinode' = [dinode EXCEPT ![i].nlink = L.nlink - 1, ![x].nlink = up]
        /\ dir' = [dir EXCEPT ![x][n] = Nil]
        /\ Return(p, <<d, e>>) /\ UNCHANGED <<cwd, file, panicked>>
    BY <1>2, <1>4 DEF unlink_entry
  <2>2. itable' = Erased(e, d, L, up) /\ dinode' = TwoLinks(i, L.nlink - 1, x, up) /\ dir' = SetCell(x, n, Nil)
    BY <2>1 DEF Erased, TwoLinks, SetCell
  <2>3. /\ FSInv /\ p \in Procs /\ i = itable[e].inum /\ x = itable[d].inum /\ n = Head(th[p].path)
        /\ L = Loaded(itable, e) /\ up = itable[d].nlink - (IF L.type = "DIR" THEN 1 ELSE 0)
        /\ Return(p, <<d, e>>) /\ UNCHANGED <<cwd, file, panicked>>
    BY <2>1
  <2> HIDE DEF L, up, i, x, n
  <2> QED
    BY ONLY <1>1, <2>2, <2>3, UnlinkErases
<1> QED
  BY <1>3, <1>4

\* create() of inode i, with the name n in directory x.
Creates(i, x, n) ==
    /\ CellSet(x, n, i)
    /\ \A c \in Inums \ {x, i} : dir'[c] = dir[c]
    /\ \A c \in Inums \ {i} : dir'[c][DotDot] = dir[c][DotDot]
    /\ dir'[i][DotDot] = IF dinode[i].type = "DIR" THEN x ELSE Nil
    /\ dinode[i].type # "DIR" => dir'[i] = NoEntries

\* The new inode has its first link, and a directory has its parent counted.
LEMMA CreateDisk ==
  ASSUME FSInv, NEW p \in Procs, NEW s, EndsWriting(p, s), th[p].keep = Nil,
         NEW x \in Inums, dinode[x].type = "DIR", NEW n \in Names, dir[x][n] = Nil,
         NEW i \in Inums, i # x, dinode[i].type # "free", dinode[i].nlink = 0,
         NEW up, up = dinode[x].nlink + (IF dinode[i].type = "DIR" THEN 1 ELSE 0),
         LinksSet(i, 1, x, up), Creates(i, x, n)
  PROVE  DiskInv'
<1>1. CellSet(x, n, i)
  BY DEF Creates
<1>2. \A c \in Inums : c # Nil
  BY SizeAssumption DEF Inums, Nil
<1>3. Entries(i) = {} /\ i # ROOTINO
  <2>1. Cardinality(Entries(i)) = 0 /\ i # ROOTINO
    BY LinkFacts
  <2> QED
    BY <2>1, EntriesFinite, FS_EmptySet, Zenon
<1>4. \A y \in Inums : \A m \in Names : dir[y][m] # i
  <2> SUFFICES ASSUME NEW y \in Inums, NEW m \in Names, dir[y][m] = i PROVE FALSE
    OBVIOUS
  <2>1. <<y, m>> \in Entries(i)
    BY DEF Entries
  <2> QED
    BY <1>3, <2>1
<1>5. ASSUME NEW c \in Inums \ {i} PROVE Entries(c)' = Entries(c)
  BY <1>1, <1>2, <1>5, EntriesElse
<1>6. Entries(i)' # {}
  <2>1. <<x, n>> \in Entries(i)'
    BY <1>1 DEF Entries, CellSet
  <2> QED
    BY <2>1
<1>7. ASSUME NEW c \in Inums
      PROVE  i \notin Subdirs(c) /\ (i \in Subdirs(c)' <=> dinode[i].type = "DIR" /\ c = x)
  BY <1>2, <1>3, <1>6 DEF Subdirs, Creates
<1>8. LinkInv'
  <2> SUFFICES ASSUME NEW c \in Inums
               PROVE  dinode'[c].nlink >= Cardinality(Entries(c)') + Cardinality(Subdirs(c)')
                        + Cardinality(Pending(c)') + (IF c = ROOTINO THEN 1 ELSE 0)
    BY DEF LinkInv
  <2>1. Cardinality(Entries(c)') = Cardinality(Entries(c)) + (IF i = c THEN 1 ELSE 0)
    <3>1. Cardinality(Entries(c)') + (IF dir[x][n] = c THEN 1 ELSE 0)
              = Cardinality(Entries(c)) + (IF i = c THEN 1 ELSE 0)
      BY <1>1, EntriesCount
    <3> QED
      BY <1>2, <3>1, LinkFacts
  <2>2. Cardinality(Pending(c)') = Cardinality(Pending(c))
    BY PendingEnds, LinkFacts
  <2>3. Cardinality(Subdirs(c)') = Cardinality(Subdirs(c)) + (IF dinode[i].type = "DIR" /\ c = x THEN 1 ELSE 0)
    <3>1. \A g \in Inums \ {i} : (Entries(g)' # {} <=> Entries(g) # {}) /\ dir'[g][DotDot] = dir[g][DotDot]
      BY <1>5 DEF Creates
    <3>2. Cardinality(Subdirs(c)') + (IF i \in Subdirs(c) THEN 1 ELSE 0)
           = Cardinality(Subdirs(c)) + (IF i \in Subdirs(c)' THEN 1 ELSE 0)
      BY <3>1, SubdirsCard
    <3> QED
      BY <1>7, <3>2, LinkFacts
  <2>4. dinode'[c].nlink = dinode[c].nlink + (IF i = c THEN 1 ELSE 0)
                              + (IF dinode[i].type = "DIR" /\ c = x THEN 1 ELSE 0)
    <3>1. dinode[c].nlink \in Nat
      BY LinkFacts
    <3> QED
      BY <3>1 DEF LinksSet
  <2> DEFINE v == IF i = c THEN 1 ELSE 0
             w == IF dinode[i].type = "DIR" /\ c = x THEN 1 ELSE 0
  <2>5. v \in Nat /\ w \in Nat
    OBVIOUS
  <2> HIDE DEF v, w
  <2>6. /\ Cardinality(Entries(c)') = Cardinality(Entries(c)) + v
        /\ Cardinality(Subdirs(c)') = Cardinality(Subdirs(c)) + w
        /\ dinode'[c].nlink = dinode[c].nlink + v + w
    BY <2>1, <2>3, <2>4 DEF v, w
  <2> QED
    BY <2>2, <2>5, <2>6, LinkFacts
<1>9. TreeInv'
  <2> SUFFICES ASSUME NEW c \in Inums, NEW y \in Inums, NEW m \in Names, dir'[y][m] = c, dinode'[c].type = "DIR"
               PROVE  dir'[c][DotDot] = y /\ \A m2 \in Names : dir'[y][m2] = c => m2 = m
    BY TreeFrom
  <2>0. dinode[c].type = "DIR"
    BY DEF LinksSet
  <2>1. CASE c = i
    <3>1. \A m2 \in Names : dir'[y][m2] = i => y = x /\ m2 = n
      BY <1>1, <1>4 DEF CellSet
    <3> QED
      BY <2>0, <2>1, <3>1 DEF Creates
  <2>2. CASE c # i
    <3>1. \A m2 \in Names : dir'[y][m2] = c => dir[y][m2] = c
      BY <1>1, <2>2 DEF CellSet
    <3>2. dir'[c][DotDot] = dir[c][DotDot]
      BY <2>2 DEF Creates
    <3> QED
      BY <2>0, <3>1, <3>2, TreeFacts
  <2> QED
    BY <2>1, <2>2
<1>10. \A c \in Inums : dinode'[c].type # "DIR" => dir'[c] = NoEntries
  BY DEF FSInv, DiskInv, LinksSet, Creates
<1>11. \A c \in Inums : dinode'[c].type = "free" => dinode'[c].nlink = 0
  BY DEF FSInv, DiskInv, LinksSet
<1> QED
  BY <1>8, <1>9, <1>10, <1>11 DEF DiskInv

\* The values create() writes.
MadeDir(i, x, n, up) == [dir EXCEPT ![x][n] = i, ![i][DotDot] = up]

\* MadeDir() makes the entry and, in a directory, "..".
LEMMA MadeDirFacts ==
  ASSUME FSInv, NEW i \in Inums, NEW x \in Inums, i # x, NEW n \in Names, dir[i] = NoEntries,
         NEW up, up = (IF dinode[i].type = "DIR" THEN x ELSE Nil), dir' = MadeDir(i, x, n, up)
  PROVE  dir' \in [Inums -> [Names \cup {DotDot} -> Inums \cup {Nil}]] /\ Creates(i, x, n)
<1>1. dir \in [Inums -> [Names \cup {DotDot} -> Inums \cup {Nil}]]
  BY DEF FSInv, TypeInv
<1> DEFINE v == [dir[x] EXCEPT ![n] = i]
           w == [dir[i] EXCEPT ![DotDot] = up]
<1>2. v \in [Names \cup {DotDot} -> Inums \cup {Nil}] /\ v[DotDot] = dir[x][DotDot]
      /\ \A m \in Names : v[m] = IF m = n THEN i ELSE dir[x][m]
  <2>1. dir[x] \in [Names \cup {DotDot} -> Inums \cup {Nil}]
    BY <1>1
  <2> QED
    BY <2>1, NamesAssumption
<1>3. w \in [Names \cup {DotDot} -> Inums \cup {Nil}] /\ w[DotDot] = up
      /\ \A m \in Names : w[m] = dir[i][m]
  <2>1. dir[i] \in [Names \cup {DotDot} -> Inums \cup {Nil}]
    BY <1>1
  <2> QED
    BY <2>1, NamesAssumption
<1>4. up = Nil => w = NoEntries
  BY DEF NoEntries
<1>5. dir' = [dir EXCEPT ![x] = v, ![i] = w]
  BY <1>1 DEF MadeDir
<1> HIDE DEF v, w
<1>6. /\ dir' \in [Inums -> [Names \cup {DotDot} -> Inums \cup {Nil}]] /\ dir'[x] = v /\ dir'[i] = w
      /\ \A c \in Inums \ {x, i} : dir'[c] = dir[c]
  BY <1>1, <1>2, <1>3, <1>5
<1>7. CellSet(x, n, i)
  BY <1>2, <1>3, <1>6 DEF CellSet
<1> QED
  BY <1>2, <1>3, <1>4, <1>6, <1>7 DEF Creates

\* The inode table that create() leaves.
Made(e, d, U, up) == [U EXCEPT ![e].nlink = 1, ![d].nlink = up, ![d].lock = None]

\* Made() sets the link counts in the two entries.
LEMMA MadeFacts ==
  ASSUME FSInv, NEW p \in Procs, NEW e, NEW d, HasBoth(p, e, d), NEW U, U = iunlock(ilock(itable, e, p), e),
         NEW up \in Nat, itable' = Made(e, d, U, up)
  PROVE  EntriesSet(e, 1, d, up)
<1>1. e \in Slots /\ d \in Slots /\ e # d /\ HasGood(p, e) /\ HasGood(p, d) /\ itable[e].lock = None
  BY DEF HasBoth
<1>2. /\ TRel(p, U) /\ U[e].valid /\ U[e].type = dinode[itable[e].inum].type
      /\ \A f \in Slots : /\ U[f].ref = itable[f].ref /\ U[f].lock = itable[f].lock
                          /\ U[f].inum = itable[f].inum
  BY <1>1, Touched
<1>3. \A f \in Slots \ {e} : U[f] = itable[f]
  <2> DEFINE T == ilock(itable, e, p)
  <2>1. TRel(p, T) /\ \A f \in Slots \ {e} : T[f] = itable[f]
    BY <1>1, ParentTable
  <2>2. U = iunlock(T, e)
    OBVIOUS
  <2> HIDE DEF T
  <2>3. \A f \in Slots \ {e} : U[f] = T[f]
    BY <1>1, <2>1, <2>2, TRelUnlock
  <2> QED
    BY <2>1, <2>3
<1>4. U \in [Slots -> Entry]
  BY <1>2 DEF TRel
<1> DEFINE u == U[e]
           M == [u EXCEPT !.nlink = 1]
           V == [U EXCEPT ![e].nlink = 1]
<1>5. V = [U EXCEPT ![e] = M]
  OBVIOUS
<1>6. u \in Entry
  BY <1>1, <1>4
<1>10. itable' = Released(V, d, up)
  BY DEF Made, Released
<1> HIDE DEF u, V
<1>7. /\ M \in Entry /\ M.inum = u.inum /\ M.ref = u.ref /\ M.valid = u.valid
      /\ M.type = u.type /\ M.nlink = 1 /\ M.lock = u.lock
  BY <1>6 DEF Entry
<1> HIDE DEF M
<1>9. V \in [Slots -> Entry] /\ V[e] = M /\ \A f \in Slots \ {e} : V[f] = U[f]
  BY <1>1, <1>4, <1>5, <1>7
<1>11. /\ itable' \in [Slots -> Entry] /\ \A f \in Slots \ {d} : itable'[f] = V[f]
      /\ itable'[d].inum = V[d].inum /\ itable'[d].ref = V[d].ref /\ itable'[d].valid = V[d].valid
      /\ itable'[d].type = V[d].type /\ itable'[d].nlink = up /\ itable'[d].lock = None
  BY <1>1, <1>9, <1>10, ReleasedFacts
<1>12. /\ u.inum = itable[e].inum /\ u.ref = itable[e].ref /\ u.valid
       /\ u.type = dinode[itable[e].inum].type /\ u.lock = None
  BY <1>1, <1>2 DEF u
<1>13. /\ itable'[e].inum = itable[e].inum /\ itable'[e].ref = itable[e].ref /\ itable'[e].valid
       /\ itable'[e].type = dinode[itable[e].inum].type /\ itable'[e].nlink = 1 /\ itable'[e].lock = None
  <2>1. itable'[e] = M
    BY <1>1, <1>9, <1>11
  <2> QED
    BY <1>7, <1>12, <2>1
<1>14. V[d] = itable[d] /\ \A f \in Slots \ {e, d} : itable'[f] = itable[f]
  BY <1>1, <1>3, <1>9, <1>11
<1> QED
  BY <1>11, <1>13, <1>14 DEF EntriesSet

\* Append() to a sequence of one.
LEMMA AppendParts ==
  ASSUME NEW S, NEW b \in S, NEW s \in Seq(S), NEW t, t = Append(s, b)
  PROVE  t \in Seq(S) /\ Len(t) = Len(s) + 1 /\ t[Len(s) + 1] = b /\ \A i \in 1..Len(s) : t[i] = s[i]
<1>1. t \in Seq(S) /\ Len(t) = Len(s) + 1
  OBVIOUS
<1>2. t[Len(s) + 1] = b
  OBVIOUS
<1>3. \A i \in 1..Len(s) : t[i] = s[i]
  OBVIOUS
<1> QED
  BY <1>1, <1>2, <1>3

\* A sequence of two elements.
LEMMA PairOf ==
  ASSUME NEW S, NEW t \in Seq(S), Len(t) = 2, NEW a, NEW b, t[1] = a, t[2] = b
  PROVE  t = <<a, b>>
<1>2. t = [i \in 1..Len(t) |-> t[i]]
  OBVIOUS
<1>3. <<a, b>> = [i \in 1..2 |-> IF i = 1 THEN a ELSE b]
  OBVIOUS
<1>4. \A i \in 1..2 : t[i] = IF i = 1 THEN a ELSE b
  OBVIOUS
<1> QED
  BY ONLY <1>2, <1>3, <1>4, Len(t) = 2

\* A sequence of one element, and another.
LEMMA AppendOne ==
  ASSUME NEW S, NEW a \in S, NEW b \in S
  PROVE  Append(<<a>>, b) = <<a, b>>
<1> DEFINE s == <<a>>
           t == Append(s, b)
<1>1. s \in Seq(S) /\ b \in S
  OBVIOUS
<1>2. Len(s) = 1 /\ s[1] = a
  OBVIOUS
<1> HIDE DEF s
<1>3. t \in Seq(S) /\ Len(t) = Len(s) + 1 /\ t[Len(s) + 1] = b /\ \A i \in 1..Len(s) : t[i] = s[i]
  BY ONLY <1>1, AppendParts
<1> HIDE DEF t
<1>4. t \in Seq(S)
  BY <1>3
<1>5. Len(t) = 2 /\ t[1] = a /\ t[2] = b
  BY <1>2, <1>3
<1>6. t = <<a, b>>
  BY ONLY <1>4, <1>5, PairOf
<1> QED
  BY <1>6 DEF s, t

\* The three ends of create(): mkdir(), open() with a descriptor, without.
LEMMA CreateEnds ==
  ASSUME FSInv, NEW p \in Procs, NEW e \in Slots, NEW d \in Slots, UNCHANGED cwd,
         \A f \in Slots : N(p, f) = (IF cwd[p] = f THEN 1 ELSE 0) + (IF file[p] = f THEN 1 ELSE 0)
              + (IF e = f THEN 1 ELSE 0) + (IF d = f THEN 1 ELSE 0),
         (UNCHANGED file /\ Return(p, <<d, e>>)) \/ Opened(p, e, <<d>>)
  PROVE  \E s \in Seq(Slots) :
           /\ Len(s) <= 2 /\ Return(p, s)
           /\ cwd' \in [Procs -> Slots] /\ file' \in [Procs -> Slots \cup {Nil}]
           /\ \A q \in Procs \ {p} : cwd'[q] = cwd[q] /\ file'[q] = file[q]
           /\ \A f \in Slots : N(p, f)' = N(p, f)
<1>1. /\ th \in [Procs -> ThreadType] /\ cwd \in [Procs -> Slots] /\ file \in [Procs -> Slots \cup {Nil}]
      /\ cwd' = cwd
  BY DEF FSInv, TypeInv
<1>2. \A f \in Slots : N(p, f) = (IF cwd[p] = f THEN 1 ELSE 0) + (IF file[p] = f THEN 1 ELSE 0)
              + (IF e = f THEN 1 ELSE 0) + (IF d = f THEN 1 ELSE 0)
  OBVIOUS
<1>3. CASE UNCHANGED file /\ Return(p, <<d, e>>)
  <2>1. \A f \in Slots : N(p, f)' = (IF cwd'[p] = f THEN 1 ELSE 0) + (IF file'[p] = f THEN 1 ELSE 0)
                           + (IF d = f THEN 1 ELSE 0) + (IF e = f THEN 1 ELSE 0)
    BY <1>1, <1>3, Ended2
  <2>2. file' = file
    BY <1>3
  <2>3. \A f \in Slots : N(p, f)' = N(p, f)
    BY ONLY <1>1, <1>2, <2>1, <2>2
  <2>4. <<d, e>> \in Seq(Slots) /\ Len(<<d, e>>) <= 2 /\ Return(p, <<d, e>>)
    BY <1>3
  <2> QED
    BY ONLY <1>1, <2>2, <2>3, <2>4
<1>4. CASE file[p] = Nil /\ file' = [file EXCEPT ![p] = e] /\ Return(p, <<d>>)
  <2>1. \A f \in Slots : N(p, f)' = (IF cwd'[p] = f THEN 1 ELSE 0) + (IF file'[p] = f THEN 1 ELSE 0)
                           + (IF d = f THEN 1 ELSE 0)
    BY <1>1, <1>4, Ended1
  <2>2. /\ file'[p] = e /\ file' \in [Procs -> Slots \cup {Nil}] /\ file[p] = Nil
        /\ \A q \in Procs \ {p} : file'[q] = file[q]
    BY <1>1, <1>4
  <2>3. \A f \in Slots : N(p, f)' = N(p, f)
    BY ONLY <1>1, <1>2, <2>1, <2>2, SlotNotNil
  <2>4. <<d>> \in Seq(Slots) /\ Len(<<d>>) <= 2 /\ Return(p, <<d>>)
    BY <1>4
  <2> QED
    BY ONLY <1>1, <2>2, <2>3, <2>4
<1>5. CASE UNCHANGED file /\ Return(p, Append(<<d>>, e))
  <2>1. Append(<<d>>, e) = <<d, e>>
    BY AppendOne
  <2> QED
    BY <1>3, <1>5, <2>1
<1> QED
  BY <1>3, <1>4, <1>5 DEF Opened

\* The second half of create() keeps the invariant: nobody else has the new
\* inode, and the parent stayed locked.
LEMMA Step_create_new ==
  ASSUME FSInv, NEW p \in Procs, create_new(p)
  PROVE  FSInv'
<1> DEFINE e  == th[p].ip
           d  == th[p].dp
           i  == itable[e].inum
           x  == itable[d].inum
           n  == Head(th[p].path)
           U  == iunlock(ilock(itable, e, p), e)
           up == itable[d].nlink + (IF th[p].op = "mkdir" THEN 1 ELSE 0)
           v  == IF th[p].op = "mkdir" THEN x ELSE Nil
<1>1. /\ At(p, "create_new") /\ itable[e].lock = None
      /\ itable' = [U EXCEPT ![e].nlink = 1, ![d].nlink = up, ![d].lock = None]
      /\ dinode' = [dinode EXCEPT ![i].nlink = 1, ![x].nlink = up]
      /\ dir' = [dir EXCEPT ![x][n] = i, ![i][DotDot] = v]
      /\ (UNCHANGED file /\ Return(p, <<d, e>>)) \/ Opened(p, e, <<d>>)
      /\ UNCHANGED <<cwd, panicked>>
  BY DEF create_new, Lockable
<1>2. itable' = Made(e, d, U, up) /\ dinode' = TwoLinks(i, 1, x, up) /\ dir' = MadeDir(i, x, n, v)
  BY <1>1 DEF Made, TwoLinks, MadeDir
<1>3. /\ HasBoth(p, e, d) /\ th[p].puts = <<>>
      /\ \A f \in Slots : N(p, f) = (IF cwd[p] = f THEN 1 ELSE 0) + (IF file[p] = f THEN 1 ELSE 0)
              + (IF e = f THEN 1 ELSE 0) + (IF d = f THEN 1 ELSE 0)
      /\ th[p].keep = Nil /\ dinode[x].type = "DIR" /\ n \in Names /\ th[p].pc = "create_new"
  <2>1. FSInv /\ p \in Procs /\ At(p, "create_new") /\ itable[e].lock = None
    BY <1>1
  <2> QED
    BY ONLY <2>1, AtBoth
<1>4. FSInv /\ p \in Procs /\ UNCHANGED panicked /\ UNCHANGED cwd
  BY <1>1
<1>5. e \in Slots /\ d \in Slots
  BY <1>3 DEF HasBoth
<1>6. dir[x][n] = Nil /\ Fresh(p, e)
  BY <1>3 DEF FSInv, ThreadInv, Local
<1>7. /\ dinode[i].nlink = 0 /\ dinode[i].type = (IF th[p].op = "mkdir" THEN "DIR" ELSE "FILE")
      /\ dir[i] = NoEntries
  BY <1>6 DEF Fresh, NewType
<1>8. /\ i \in Inums /\ x \in Inums /\ i # x /\ dinode[i].type # "free"
      /\ itable[d].nlink = dinode[x].nlink
  BY <1>3, BothFacts
<1>9. up = dinode[x].nlink + (IF dinode[i].type = "DIR" THEN 1 ELSE 0) /\ v = (IF dinode[i].type = "DIR" THEN x ELSE Nil)
  BY <1>7, <1>8
<1>10. PICK s \in Seq(Slots) :
           /\ Len(s) <= 2 /\ Return(p, s)
           /\ cwd' \in [Procs -> Slots] /\ file' \in [Procs -> Slots \cup {Nil}]
           /\ \A q \in Procs \ {p} : cwd'[q] = cwd[q] /\ file'[q] = file[q]
           /\ \A f \in Slots : N(p, f)' = N(p, f)
  <2>1. (UNCHANGED file /\ Return(p, <<d, e>>)) \/ Opened(p, e, <<d>>)
    BY <1>1
  <2> QED
    BY ONLY <1>3, <1>4, <1>5, <2>1, CreateEnds
<1>11. up \in Nat
  <2>1. dinode[x].nlink \in Nat
    BY <1>4, <1>8, LinkFacts
  <2> QED
    BY ONLY <1>9, <2>1
<1>12. U = iunlock(ilock(itable, e, p), e) /\ i = itable[e].inum /\ x = itable[d].inum
  OBVIOUS
<1> HIDE DEF U, up, v, n, i, x
<1>13. EntriesSet(e, 1, d, up)
  BY ONLY <1>2, <1>3, <1>4, <1>11, <1>12, MadeFacts
<1>14. dinode' \in [Inums -> [type : Types, nlink : Nat]] /\ LinksSet(i, 1, x, up)
  BY ONLY <1>2, <1>4, <1>8, <1>11, TwoLinksSet
<1>15. dir' \in [Inums -> [Names \cup {DotDot} -> Inums \cup {Nil}]] /\ Creates(i, x, n)
  BY ONLY <1>2, <1>3, <1>4, <1>7, <1>8, <1>9, MadeDirFacts
<1>16. EndsWriting(p, s) /\ TabOK(itable', dinode') /\ itable' \in [Slots -> Entry]
  <2>1. LinksSet(itable[e].inum, 1, itable[d].inum, up)
    BY <1>12, <1>14
  <2>2. \A c \in Inums \ {itable[e].inum, itable[d].inum} : dir'[c] = dir[c]
    BY <1>12, <1>15 DEF Creates
  <2> QED
    BY ONLY <1>3, <1>4, <1>10, <1>13, <2>1, <2>2, BothEnds
<1>17. DiskInv'
  BY ONLY <1>3, <1>4, <1>6, <1>7, <1>8, <1>9, <1>14, <1>15, <1>16, CreateDisk
<1> QED
  BY ONLY <1>4, <1>14, <1>15, <1>16, <1>17, WriteReturn
-----------------------------------------------------------------------------
(***************************************************************************)
(* An inode is freed.                                                      *)
(***************************************************************************)

\* An inode with no link has no name, no subdirectory and no link to come.
LEMMA Unlinked ==
  ASSUME FSInv, NEW i \in Inums, dinode[i].nlink = 0
  PROVE  /\ Entries(i) = {} /\ Subdirs(i) = {} /\ Pending(i) = {} /\ i # ROOTINO
         /\ \A y \in Inums : \A m \in Names : dir[y][m] # i
<1>1. /\ Cardinality(Entries(i)) = 0 /\ Cardinality(Subdirs(i)) = 0 /\ Cardinality(Pending(i)) = 0
      /\ i # ROOTINO
  BY LinkFacts
<1>2. Entries(i) = {} /\ Subdirs(i) = {} /\ Pending(i) = {}
  BY <1>1, EntriesFinite, PendingFinite, FS_EmptySet, Zenon
<1>3. \A y \in Inums : \A m \in Names : dir[y][m] # i
  <2> SUFFICES ASSUME NEW y \in Inums, NEW m \in Names, dir[y][m] = i PROVE FALSE
    OBVIOUS
  <2>1. <<y, m>> \in Entries(i)
    BY DEF Entries
  <2> QED
    BY <1>2, <2>1
<1> QED
  BY <1>1, <1>2, <1>3

\* The disk after the inode i is freed.
Freed(i) ==
    /\ \A c \in Inums \ {i} : dinode'[c] = dinode[c] /\ dir'[c] = dir[c]
    /\ dinode'[i].type = "free" /\ dinode'[i].nlink = 0 /\ dir'[i] = NoEntries

\* Nothing on the disk refers to an inode without links, so it can be freed.
LEMMA FreedDisk ==
  ASSUME FSInv, NEW i \in Inums, dinode[i].nlink = 0, Freed(i),
         \A c \in Inums : Cardinality(Pending(c)') = Cardinality(Pending(c))
  PROVE  DiskInv'
<1>1. /\ Entries(i) = {} /\ Subdirs(i) = {} /\ Pending(i) = {} /\ i # ROOTINO
      /\ \A y \in Inums : \A m \in Names : dir[y][m] # i
  BY Unlinked
<1>2. \A c \in Inums : c # Nil
  BY SizeAssumption DEF Inums, Nil
<1>3. ASSUME NEW c \in Inums, NEW y \in Inums, NEW m \in Names \cup {DotDot}, dir'[y][m] = c
      PROVE  dir[y][m] = c /\ y # i
  BY <1>2, <1>3 DEF Freed, NoEntries
<1>4. ASSUME NEW c \in Inums PROVE Entries(c)' \subseteq Entries(c)
  BY <1>3 DEF Entries
<1>5. ASSUME NEW c \in Inums PROVE Subdirs(c)' \subseteq Subdirs(c)
  <2> SUFFICES ASSUME NEW y \in Inums, y # c, Entries(y)' # {}, dir'[y][DotDot] = c PROVE y \in Subdirs(c)
    BY DEF Subdirs
  <2>1. Entries(y) # {}
    BY <1>4
  <2>2. dir[y][DotDot] = c
    BY <1>3
  <2> QED
    BY <2>1, <2>2 DEF Subdirs
<1>6. LinkInv'
  <2> SUFFICES ASSUME NEW c \in Inums
               PROVE  dinode'[c].nlink >= Cardinality(Entries(c)') + Cardinality(Subdirs(c)')
                        + Cardinality(Pending(c)') + (IF c = ROOTINO THEN 1 ELSE 0)
    BY DEF LinkInv
  <2>1. Cardinality(Entries(c)') <= Cardinality(Entries(c))
    BY <1>4, EntriesFinite, FS_Subset, Zenon
  <2>2. Cardinality(Subdirs(c)') <= Cardinality(Subdirs(c))
    BY <1>5, EntriesFinite, FS_Subset, Zenon
  <2>3. dinode'[c].nlink = dinode[c].nlink
    BY DEF Freed
  <2>4. Cardinality(Pending(c)') = Cardinality(Pending(c))
    OBVIOUS
  <2> QED
    BY <2>1, <2>2, <2>3, <2>4, LinkFacts
<1>7. TreeInv'
  <2> SUFFICES ASSUME NEW c \in Inums, NEW y \in Inums, NEW m \in Names, dir'[y][m] = c, dinode'[c].type = "DIR"
               PROVE  dir'[c][DotDot] = y /\ \A m2 \in Names : dir'[y][m2] = c => m2 = m
    BY TreeFrom
  <2>1. dir[y][m] = c /\ \A m2 \in Names : dir'[y][m2] = c => dir[y][m2] = c
    BY <1>3
  <2>2. c # i
    BY <1>1, <2>1
  <2>3. dir'[c] = dir[c] /\ dinode[c].type = "DIR"
    BY <2>2 DEF Freed
  <2> QED
    BY <2>1, <2>3, TreeFacts
<1>8. \A c \in Inums : dinode'[c].type # "DIR" => dir'[c] = NoEntries
  BY DEF FSInv, DiskInv, Freed
<1>9. \A c \in Inums : dinode'[c].type = "free" => dinode'[c].nlink = 0
  BY DEF FSInv, DiskInv, Freed
<1> QED
  BY <1>6, <1>7, <1>8, <1>9 DEF DiskInv

\* The last pointer to an entry is the one that iput() drops.
LEMMA LastPointer ==
  ASSUME NEW c, NEW o, NEW t, NEW u, NEW e, 1 <= Len(t.puts), t.puts[1] = e, Held(c, o, t, e) <= 1,
         u.ip = t.ip, u.dp = t.dp, u.keep = t.keep, u.puts = t.puts
  PROVE  /\ Held(c, o, u, e) = Held(c, o, t, e)
         /\ c # e /\ o # e /\ t.ip # e /\ t.dp # e /\ t.keep # e
         /\ ~(2 <= Len(t.puts) /\ t.puts[2] = e)
<1> DEFINE a1 == One(c = e)
           a2 == One(o = e)
           a3 == One(t.ip = e)
           a4 == One(t.dp = e)
           a5 == One(t.keep = e)
           a6 == One(1 <= Len(t.puts) /\ t.puts[1] = e)
           a7 == One(2 <= Len(t.puts) /\ t.puts[2] = e)
<1>1. Held(c, o, t, e) = a1 + a2 + a3 + a4 + a5 + a6 + a7
  BY DEF Held
<1>2. a1 \in Nat /\ a2 \in Nat /\ a3 \in Nat /\ a4 \in Nat /\ a5 \in Nat /\ a6 = 1 /\ a7 \in Nat
  BY DEF One
<1>3. Held(c, o, u, e) = Held(c, o, t, e)
  BY DEF Held
<1>4. Held(c, o, t, e) <= 1
  OBVIOUS
<1> HIDE DEF a1, a2, a3, a4, a5, a6, a7
<1>5. a1 = 0 /\ a2 = 0 /\ a3 = 0 /\ a4 = 0 /\ a5 = 0 /\ a7 = 0
  BY ONLY <1>1, <1>2, <1>4
<1> QED
  BY <1>3, <1>5 DEF One, a1, a2, a3, a4, a5, a7

\* What iput() writes to the entry of the inode it frees.
Invalid(e) == [itable EXCEPT ![e].valid = FALSE, ![e].type = "free", ![e].lock = None]

\* What it changes.
LEMMA InvalidFacts ==
  ASSUME FSInv, NEW e \in Slots, itable' = Invalid(e)
  PROVE  /\ itable' \in [Slots -> Entry] /\ \A f \in Slots \ {e} : itable'[f] = itable[f]
         /\ itable'[e].inum = itable[e].inum /\ itable'[e].ref = itable[e].ref
         /\ ~itable'[e].valid /\ itable'[e].lock = None
<1> DEFINE v == itable[e]
           w == [v EXCEPT !.valid = FALSE]
           y == [w EXCEPT !.type = "free"]
           z == [y EXCEPT !.lock = None]
<1>1. itable \in [Slots -> Entry]
  BY DEF FSInv, TypeInv, Entry
<1>2. v \in Entry
  BY <1>1
<1>3. itable' = [itable EXCEPT ![e] = z]
  BY <1>1 DEF Invalid
<1> HIDE DEF v
<1>4. w \in Entry /\ w.inum = v.inum /\ w.ref = v.ref /\ ~w.valid
  BY <1>2 DEF Entry
<1> HIDE DEF w
<1>5. y \in Entry /\ y.inum = w.inum /\ y.ref = w.ref /\ y.valid = w.valid
  BY <1>4 DEF Entry, Types
<1> HIDE DEF y
<1>6. z \in Entry /\ z.inum = y.inum /\ z.ref = y.ref /\ z.valid = y.valid /\ z.lock = None
  BY <1>5 DEF Entry
<1> HIDE DEF z
<1>7. itable' \in [Slots -> Entry] /\ itable'[e] = z /\ \A f \in Slots \ {e} : itable'[f] = itable[f]
  BY <1>1, <1>3, <1>6
<1> QED
  BY <1>4, <1>5, <1>6, <1>7 DEF v

\* iput() frees an inode that nothing refers to and nobody has.
LEMMA Step_iput_free ==
  ASSUME FSInv, NEW p \in Procs, iput_free(p)
  PROVE  FSInv'
<1> DEFINE t == th[p]
           e == Head(t.puts)
           i == itable[e].inum
           u == Putting(t, t.puts, "dec")
<1>1. /\ t.puts # <<>> /\ t.iput = "free"
      /\ dinode' = [dinode EXCEPT ![i] = [type |-> "free", nlink |-> 0]]
      /\ dir' = [dir EXCEPT ![i] = NoEntries] /\ itable' = Invalid(e)
      /\ th' = [th EXCEPT ![p].iput = "dec"] /\ UNCHANGED <<cwd, file, panicked>>
  BY DEF iput_free, Invalid
<1>2. /\ t \in ThreadType /\ Shape(t) /\ e \in Slots
      /\ t.puts \in Seq(Slots) /\ Len(t.puts) <= 2
      /\ 1 <= Len(t.puts) /\ t.puts[1] = e
      /\ itable[e].ref > 0 /\ N(p, e) >= 1 /\ N(p, e) \in Nat /\ itable[e].ref \in Nat
      /\ itable[e].ref >= N(p, e) /\ HasGood(p, e)
  BY <1>1, AtPut
<1>3. /\ u \in ThreadType /\ Shape(u)
      /\ u.pc = t.pc /\ u.op = t.op /\ u.path = t.path /\ u.new = t.new
      /\ u.ip = t.ip /\ u.dp = t.dp /\ u.keep = t.keep /\ u.puts = t.puts /\ u.iput = "dec"
      /\ t.pc \notin {"create_new", "unlink_entry"}
  <2>1. t.pc \notin {"create_new", "unlink_entry"}
    BY <1>1, <1>2 DEF Shape
  <2>2. t.puts # <<>> /\ "dec" \in {"test", "free", "dec"}
    BY <1>1
  <2> QED
    BY <1>2, <2>1, <2>2, PuttingFacts
<1>4. th' = [th EXCEPT ![p] = u]
  BY <1>1, PuttingExcept
<1>5. FSInv /\ p \in Procs /\ cwd' = cwd /\ file' = file /\ panicked' = panicked
  BY <1>1
<1> HIDE DEF u
<1>6. th'[p] = u /\ th' \in [Procs -> ThreadType] /\ \A q \in Procs \ {p} : th'[q] = th[q]
  BY <1>3, <1>4, ThFrame
<1>7. Freeing(t, e) /\ \A f \in Slots : Freeing(t, f) => f = e
  BY <1>1, <1>2 DEF Freeing
<1>8. itable[e].ref = 1 /\ itable[e].valid /\ itable[e].nlink = 0 /\ itable[e].lock = p
  BY <1>2, <1>7 DEF FSInv, ThreadInv, Local, LockInv, Locks
<1>9. i \in Inums /\ dinode[i].nlink = 0
  BY <1>2, <1>8 DEF FSInv, TabOK
<1>10. N(p, e) = 1
  BY <1>2, <1>8
<1>11. /\ cwd[p] # e /\ file[p] # e /\ t.ip # e /\ t.dp # e /\ t.keep # e
       /\ ~(2 <= Len(t.puts) /\ t.puts[2] = e)
  <2>1. Held(cwd[p], file[p], t, e) <= 1
    BY <1>10 DEF N
  <2>2. /\ 1 <= Len(t.puts) /\ t.puts[1] = e /\ u.ip = t.ip /\ u.dp = t.dp /\ u.keep = t.keep /\ u.puts = t.puts
    BY <1>2, <1>3
  <2> HIDE DEF t, e
  <2> QED
    BY ONLY <2>1, <2>2, LastPointer
<1>12. \A f \in Slots : N(p, f)' = N(p, f)
  BY <1>3, <1>5, <1>6 DEF N, Held
<1>13. \A f \in Slots : HasGood(p, f)' => HasGood(p, f) /\ f # e
  BY <1>1, <1>2, <1>3, <1>5, <1>6, <1>11 DEF HasGood, Good
<1>14. /\ itable' \in [Slots -> Entry] /\ \A f \in Slots \ {e} : itable'[f] = itable[f]
       /\ itable'[e].inum = i /\ itable'[e].ref = itable[e].ref
       /\ ~itable'[e].valid /\ itable'[e].lock = None
  BY <1>1, <1>2, InvalidFacts
<1>15. Freed(i) /\ dinode' \in [Inums -> [type : Types, nlink : Nat]]
       /\ dir' \in [Inums -> [Names \cup {DotDot} -> Inums \cup {Nil}]]
  <2>1. /\ dinode \in [Inums -> [type : Types, nlink : Nat]]
        /\ dir \in [Inums -> [Names \cup {DotDot} -> Inums \cup {Nil}]]
    BY DEF FSInv, TypeInv
  <2>2. [type |-> "free", nlink |-> 0] \in [type : Types, nlink : Nat]
    BY DEF Types
  <2>3. NoEntries \in [Names \cup {DotDot} -> Inums \cup {Nil}]
    BY DEF NoEntries
  <2>4. /\ dinode' = [dinode EXCEPT ![i] = [type |-> "free", nlink |-> 0]]
        /\ dir' = [dir EXCEPT ![i] = NoEntries]
    BY <1>1
  <2> HIDE DEF i
  <2> QED
    BY ONLY <1>9, <2>1, <2>2, <2>3, <2>4 DEF Freed
<1>16. ASSUME NEW f \in Slots, f # e, itable[f].ref > 0 PROVE itable[f].inum \in Inums \ {i}
  BY <1>2, <1>16 DEF FSInv, TabOK
<1> HIDE DEF i, e
<1>17. TypeInv'
  BY <1>5, <1>6, <1>14, <1>15 DEF FSInv, TypeInv, Entry
<1>18. Others(p)
  BY <1>5, <1>6 DEF Others
<1>19. RefStep(p)
  <2> SUFFICES ASSUME NEW f \in Slots
               PROVE  itable'[f].ref = itable[f].ref + N(p, f)' - N(p, f)
    BY DEF RefStep
  <2>1. itable[f].ref \in Nat /\ N(p, f) \in Nat
    BY RefCovers DEF FSInv
  <2>2. itable'[f].ref = itable[f].ref
    BY <1>14
  <2>3. N(p, f)' = N(p, f)
    BY <1>12
  <2> QED
    BY ONLY <2>1, <2>2, <2>3
<1>20. TabStep(p)
  BY <1>2, <1>8, <1>10, <1>14 DEF TabStep, Reach, i
<1>21. LockStep(p)
  <2> SUFFICES ASSUME NEW f \in Slots
               PROVE  /\ \A q \in Procs \ {p} : itable'[f].lock = q <=> itable[f].lock = q
                      /\ itable'[f].lock = p <=> Locks(u, f)
    BY <1>6 DEF LockStep
  <2>1. Locks(u, f) <=> t.dp = f
    BY <1>3 DEF Locks, Freeing
  <2>2. CASE f = e
    BY <1>8, <1>11, <1>14, <2>1, <2>2, NamesAssumption
  <2>3. CASE f # e
    <3>1. itable[f].lock = p <=> t.dp = f
      BY <1>7, <2>3 DEF FSInv, LockInv, Locks
    <3> QED
      BY <1>14, <2>1, <2>3, <3>1
  <2> QED
    BY <2>2, <2>3
<1>22. DiskStep(p)
  <2> SUFFICES ASSUME NEW f \in Slots, itable[f].ref > 0, NEW c, c = itable[f].inum
               PROVE  /\ ~Reach(p, f, c) => dinode'[c] = dinode[c] /\ dir'[c] = dir[c]
                      /\ itable[f].ref > N(p, f) /\ dinode[c].type # "free" => dinode'[c].type = dinode[c].type
                      /\ itable[f].lock \in Procs \ {p} => dir'[c] = dir[c]
    BY DEF DiskStep
  <2>1. CASE f = e
    BY <1>2, <1>8, <1>10, <2>1 DEF Reach
  <2>2. CASE f # e
    BY <1>15, <1>16, <2>2 DEF Freed
  <2> QED
    BY <2>1, <2>2
<1>23. GainStep(p)
  <2>1. \A f \in Slots : itable'[f].inum = itable[f].inum
    BY <1>14 DEF i
  <2> QED
    BY <1>12, <1>13, <2>1 DEF GainStep, Reach
<1>24. TabOK(itable', dinode')
  <2>1. TabOK(itable, dinode)
    BY DEF FSInv
  <2>2. AgreesWith(itable, itable', dinode')
    <3> SUFFICES ASSUME NEW f \in Slots
                 PROVE  /\ itable'[f].ref = itable[f].ref /\ itable'[f].inum = itable[f].inum
                        /\ itable[f].ref > 0 /\ itable'[f].valid =>
                             /\ dinode'[itable[f].inum].type = itable'[f].type
                             /\ dinode'[itable[f].inum].nlink = itable'[f].nlink
                             /\ itable'[f].type # "free"
      BY DEF AgreesWith
    <3>1. CASE f = e
      BY <1>14, <3>1 DEF i
    <3>2. CASE f # e
      <4>1. itable[f].ref > 0 => itable[f].inum \in Inums \ {i}
        BY <1>16, <3>2
      <4> QED
        BY <1>14, <1>15, <2>1, <3>2, <4>1 DEF TabOK, Freed
    <3> QED
      BY <3>1, <3>2
  <2> QED
    BY <2>1, <2>2, TabWrite
<1>25. ASSUME NEW f \in Slots, HasGood(p, f)'
       PROVE  /\ f # e /\ itable'[f] = itable[f] /\ itable[f].inum \in Inums
              /\ dinode'[itable[f].inum] = dinode[itable[f].inum] /\ dinode[itable[f].inum].type # "free"
  <2>1. HasGood(p, f) /\ f # e
    BY <1>13, <1>25
  <2>2. itable[f].ref > 0 /\ dinode[itable[f].inum].type # "free"
    BY <2>1, GoodFacts
  <2> QED
    BY <1>14, <1>15, <1>16, <2>1, <2>2 DEF Freed
<1>26. ThreadInv(p)'
  <2>1. Alloc(p)'
    BY <1>25 DEF Alloc
  <2>2. ASSUME NEW f \in Slots, f \in {t.ip, t.dp, t.keep} PROVE HasGood(p, f)'
    BY <1>3, <1>6, <2>2 DEF HasGood, Good
  <2>3. Local(p)
    BY DEF FSInv, ThreadInv
  <2>4. \A f \in Slots : ~Freeing(u, f)
    BY <1>3 DEF Freeing
  <2>5. t.ip \in Slots \cup {Nil} /\ t.dp \in Slots \cup {Nil} /\ t.keep \in Slots \cup {Nil}
    BY <1>2, RecParts
  <2>6. t.pc \in ParentLookups => t.ip \in Slots
    BY <1>2, <2>5 DEF Shape, ParentLookups
  <2>7. t.pc \in ParentLookups => dinode'[itable'[t.ip].inum].type = "DIR"
    BY <1>25, <2>2, <2>3, <2>6 DEF Local
  <2>8. t.dp # Nil => itable'[t.dp].valid /\ dinode'[itable'[t.dp].inum].type = "DIR"
    BY <1>25, <2>2, <2>3, <2>5 DEF Local
  <2>9. t.keep # Nil => dinode'[itable'[t.keep].inum].type = "FILE"
    BY <1>25, <2>2, <2>3, <2>5 DEF Local
  <2>10. Local(p)'
    BY <1>3, <1>6, <2>4, <2>7, <2>8, <2>9 DEF Local
  <2> QED
    BY <1>3, <1>6, <2>1, <2>10 DEF ThreadInv
<1>27. DiskInv'
  <2>1. ASSUME NEW c \in Inums PROVE Cardinality(Pending(c)') = Cardinality(Pending(c))
    <3>1. Cardinality(Pending(c)') + (IF p \in Pending(c) THEN 1 ELSE 0)
              = Cardinality(Pending(c)) + (IF p \in Pending(c)' THEN 1 ELSE 0)
      BY <1>18, <1>19, <1>20, <1>22, PendingCard
    <3>2. t.keep # Nil => t.keep \in Slots \ {e}
      BY <1>2, <1>11, RecParts
    <3>3. p \in Pending(c)' <=> p \in Pending(c)
      BY <1>3, <1>6, <1>14, <3>2 DEF Pending
    <3> QED
      BY <3>1, <3>3, LinkFacts
  <2> QED
    BY <1>9, <1>15, <2>1, FreedDisk
<1>28. PanicInv'
  BY <1>5 DEF FSInv, PanicInv
<1> QED
  BY <1>5, <1>17, <1>18, <1>19, <1>20, <1>21, <1>22, <1>23, <1>24, <1>26, <1>27, <1>28, StepKept
-----------------------------------------------------------------------------
(***************************************************************************)
(* An inode is allocated.                                                  *)
(***************************************************************************)

\* The call of create() that has a new inode, in entry g, and its parent
\* locked.
ToNew(t, g) == [t EXCEPT !.pc = "create_new", !.dp = t.ip, !.ip = g]

\* What such a call holds.
LEMMA ToNewFacts ==
  ASSUME NEW t, InParent(t), t.op \in {"create", "mkdir"}, NEW g \in Slots, NEW u, u = ToNew(t, g)
  PROVE  /\ u \in ThreadType /\ Shape(u) /\ u.iput = "test" /\ u.keep = t.keep
         /\ u.pc = "create_new" /\ u.dp = t.ip /\ u.ip = g /\ u.path = t.path /\ u.op = t.op
         /\ Adds(t, u, g)
<1>1. /\ t \in ThreadType /\ t.puts = <<>> /\ t.iput = "test" /\ t.dp = Nil
      /\ t.ip \in Slots /\ t.path # <<>>
      /\ t.keep # Nil <=> t.op = "linknew"
  BY DEF InParent
<1>3. u = SetIp(SetDp(SetPc(t, "create_new"), t.ip), g)
  BY DEF ToNew, SetDp, SetIp, SetPc
<1>4. t = Rec(t.pc, t.op, t.path, t.new, t.ip, t.dp, t.keep, t.puts, t.iput)
  BY <1>1, RecParts
<1>5. SetPc(t, "create_new") = Rec("create_new", t.op, t.path, t.new, t.ip, t.dp, t.keep, t.puts, t.iput)
  BY ONLY <1>4, SetPcRec
<1>6. SetDp(SetPc(t, "create_new"), t.ip)
         = Rec("create_new", t.op, t.path, t.new, t.ip, t.ip, t.keep, t.puts, t.iput)
  BY ONLY <1>5, SetDpRec
<1>7. u = Rec("create_new", t.op, t.path, t.new, g, t.ip, t.keep, t.puts, t.iput)
  BY ONLY <1>3, <1>6, SetIpRec
<1>8. /\ u.pc = "create_new" /\ u.op = t.op /\ u.path = t.path /\ u.ip = g /\ u.dp = t.ip /\ u.keep = t.keep
      /\ u.puts = t.puts /\ u.iput = t.iput
  BY ONLY <1>7, RecFields
<1>9. u \in ThreadType
  <2>1. /\ "create_new" \in PC /\ g \in Slots \cup {Nil} /\ t.ip \in Slots \cup {Nil}
        /\ t.op \in Lookups \cup ParentLookups /\ t.new \in Seq(Names) /\ t.path \in Seq(Names)
        /\ t.keep \in Slots \cup {Nil} /\ t.iput \in {"test", "free", "dec"} /\ t.puts \in Seq(Slots)
    BY <1>1, RecParts DEF PC
  <2> QED
    BY ONLY <1>7, <2>1 DEF Rec, ThreadType
<1>10. Shape(u)
  BY <1>1, <1>8, SlotNotNil DEF Shape, Lookups, ParentLookups
<1>11. Adds(t, u, g)
  BY <1>1, <1>8, AddsFrom
<1> QED
  BY <1>1, <1>8, <1>9, <1>10, <1>11

\* The disk after ialloc() of inode j with type ty.
Allocated(j, ty) ==
    /\ \A c \in Inums \ {j} : dinode'[c] = dinode[c]
    /\ dinode'[j].type = ty /\ dinode'[j].nlink = 0 /\ dir' = dir

\* ialloc() takes an inode that nothing refers to.
LEMMA AllocatedDisk ==
  ASSUME FSInv, NEW j \in Inums, dinode[j].type = "free", NEW ty \in {"FILE", "DIR"}, Allocated(j, ty),
         \A c \in Inums : Cardinality(Pending(c)') = Cardinality(Pending(c))
  PROVE  DiskInv'
<1>0. dinode[j].nlink = 0 /\ dir[j] = NoEntries
  BY DEF FSInv, DiskInv
<1>1. \A y \in Inums : \A m \in Names : dir[y][m] # j
  BY <1>0, Unlinked
<1>2. \A c : Entries(c)' = Entries(c)
  BY DEF Entries, Allocated
<1>3. \A c : Subdirs(c)' = Subdirs(c)
  BY <1>2 DEF Subdirs, Allocated
<1>6. LinkInv'
  <2> SUFFICES ASSUME NEW c \in Inums
               PROVE  dinode'[c].nlink >= Cardinality(Entries(c)') + Cardinality(Subdirs(c)')
                        + Cardinality(Pending(c)') + (IF c = ROOTINO THEN 1 ELSE 0)
    BY DEF LinkInv
  <2>1. dinode'[c].nlink = dinode[c].nlink
    BY <1>0 DEF Allocated
  <2>2. Cardinality(Pending(c)') = Cardinality(Pending(c))
    OBVIOUS
  <2> QED
    BY <1>2, <1>3, <2>1, <2>2, LinkFacts
<1>7. TreeInv'
  <2> SUFFICES ASSUME NEW c \in Inums, NEW y \in Inums, NEW m \in Names, dir'[y][m] = c, dinode'[c].type = "DIR"
               PROVE  dir'[c][DotDot] = y /\ \A m2 \in Names : dir'[y][m2] = c => m2 = m
    BY TreeFrom
  <2>1. dir' = dir
    BY DEF Allocated
  <2>2. c # j
    BY <1>1, <2>1
  <2>3. dinode[c].type = "DIR"
    BY <2>2 DEF Allocated
  <2> QED
    BY <2>1, <2>3, TreeFacts
<1>8. \A c \in Inums : dinode'[c].type # "DIR" => dir'[c] = NoEntries
  BY <1>0 DEF FSInv, DiskInv, Allocated
<1>9. \A c \in Inums : dinode'[c].type = "free" => dinode'[c].nlink = 0
  BY DEF FSInv, DiskInv, Allocated
<1> QED
  BY <1>6, <1>7, <1>8, <1>9 DEF DiskInv

\* The disk that ialloc() leaves.
NewInode(j, ty) == [dinode EXCEPT ![j] = [type |-> ty, nlink |-> 0]]

\* create() of a new name.
LEMMA CreateAllocs ==
  ASSUME FSInv, NEW p \in Procs, NEW l \in {"create", "mkdir"}, At(p, l), NEW d, d = th[p].ip,
         itable[d].lock = None, NEW T, T = ilock(itable, d, p),
         dir[T[d].inum][Head(th[p].path)] = Nil, NEW j \in Inums, dinode[j].type = "free",
         NEW g, g = SlotOf(T, j), g # Nil,
         dinode' = NewInode(j, NewType(p)), itable' = iget(T, j),
         th' = [th EXCEPT ![p] = ToNew(th[p], g)],
         UNCHANGED <<dir, cwd, file, panicked>>
  PROVE  FSInv'
<1> DEFINE t == th[p]
           u == ToNew(t, g)
           ty == NewType(p)
           x == itable[d].inum
<1>1. l \in ParentLookups /\ l # "linknew"
  BY DEF ParentLookups
<1>2. /\ t.puts = <<>> /\ t.dp = Nil /\ t.iput = "test" /\ t.op = l /\ t.pc = l
      /\ d \in Slots /\ HasGood(p, d) /\ itable[d].ref > 0 /\ x \in Inums
      /\ dinode[x].type = "DIR"
      /\ t.keep = Nil
      /\ t \in ThreadType /\ t.path # <<>> /\ Head(t.path) \in Names
  BY <1>1, AtParent
<1>3. /\ TRel(p, T) /\ T \in [Slots -> Entry] /\ T[d].valid /\ T[d].lock = p
      /\ \A f \in Slots : T[f].ref = itable[f].ref /\ T[f].inum = itable[f].inum
      /\ \A f \in Slots \ {d} : T[f] = itable[f]
  <2>1. FSInv /\ p \in Procs /\ d \in Slots /\ HasGood(p, d) /\ T = ilock(itable, d, p)
    BY <1>2
  <2> QED
    BY ONLY <2>1, ParentTable
<1>4. /\ TRel(p, itable') /\ g \in Slots
      /\ itable'[g].inum = j /\ itable'[g].ref = T[g].ref + 1 /\ itable'[g].lock = T[g].lock
      /\ T[g].ref > 0 => T[g].inum = j /\ itable'[g].valid = T[g].valid
      /\ \A f \in Slots \ {g} : itable'[f] = T[f]
  <2>1. \A f \in Slots : itable[f].ref > 0 => T[f].ref > 0
    BY <1>3
  <2>2. p \in Procs /\ TRel(p, T) /\ j \in Inums /\ g = SlotOf(T, j) /\ g # Nil /\ itable' = iget(T, j)
    BY <1>3
  <2> QED
    BY ONLY <2>1, <2>2, TRelIget
<1>5. InParent(t)
  BY <1>1, <1>2 DEF InParent
<1>6. ty \in {"FILE", "DIR"}
  BY DEF NewType
<1>7. /\ Allocated(j, ty) /\ dinode' \in [Inums -> [type : Types, nlink : Nat]]
  <2>1. dinode \in [Inums -> [type : Types, nlink : Nat]]
    BY DEF FSInv, TypeInv
  <2>2. [type |-> ty, nlink |-> 0] \in [type : Types, nlink : Nat]
    BY <1>6 DEF Types
  <2>3. dinode' = [dinode EXCEPT ![j] = [type |-> ty, nlink |-> 0]] /\ j \in Inums /\ dir' = dir
    BY DEF NewInode
  <2> HIDE DEF ty
  <2> QED
    BY ONLY <2>1, <2>2, <2>3 DEF Allocated
<1>8. th' = [th EXCEPT ![p] = u] /\ FSInv /\ p \in Procs /\ cwd' = cwd /\ file' = file /\ panicked' = panicked
      /\ dir' = dir /\ itable[d].lock = None /\ j \in Inums /\ dinode[j].type = "free" /\ d = t.ip
      /\ dir[T[d].inum][Head(t.path)] = Nil
  OBVIOUS
<1>9. /\ u \in ThreadType /\ Shape(u) /\ u.iput = "test" /\ u.keep = t.keep
      /\ u.pc = "create_new" /\ u.dp = d /\ u.ip = g /\ u.path = t.path /\ u.op = t.op
      /\ Adds(t, u, g)
  <2>1. t.op \in {"create", "mkdir"} /\ d = t.ip
    BY <1>2
  <2> QED
    BY ONLY <1>4, <1>5, <2>1, ToNewFacts
<1> HIDE DEF u
<1>10. th'[p] = u /\ th' \in [Procs -> ThreadType] /\ \A q \in Procs \ {p} : th'[q] = th[q]
  BY ONLY <1>8, <1>9, ThFrame
<1>11. dinode[j].nlink = 0 /\ dir[j] = NoEntries
  BY <1>8 DEF FSInv, DiskInv
<1>12. ASSUME NEW r \in Procs PROVE ~HasGood(r, g)
  <2> SUFFICES ASSUME HasGood(r, g) PROVE FALSE
    OBVIOUS
  <2>1. itable[g].ref > 0 /\ dinode[itable[g].inum].type # "free"
    BY <1>4, GoodFacts
  <2> QED
    BY <1>3, <1>4, <1>8, <2>1
<1>13. g # d
  BY <1>2, <1>12
<1>14. ~itable'[g].valid
  <2>1. T[g].ref \in Nat /\ itable'[g].ref > 0
    BY <1>3, <1>4 DEF Entry
  <2> QED
    BY <1>4, <1>8, <2>1 DEF TRel, TabOK
<1>15. ASSUME NEW f \in Slots
       PROVE  /\ N(p, f)' = N(p, f) + (IF g = f THEN 1 ELSE 0)
              /\ HasGood(p, f)' => HasGood(p, f) \/ f = g
  BY <1>8, <1>9, <1>10 DEF N, HasGood, Adds
<1>16. ASSUME NEW f \in Slots, f # g, itable[f].ref > 0
       PROVE  /\ itable'[f].inum = itable[f].inum
              /\ itable[f].inum \in Inums
  BY <1>3, <1>4, <1>8, <1>16 DEF FSInv, TabOK
<1>17. TypeInv'
  <2>1. TypeInv /\ itable' \in [Slots -> Entry]
    BY <1>4, <1>8 DEF FSInv, TRel
  <2> QED
    BY ONLY <1>7, <1>8, <1>10, <2>1 DEF TypeInv, Entry
<1>18. Others(p)
  BY <1>8, <1>10 DEF Others
<1>19. RefStep(p)
  <2> SUFFICES ASSUME NEW f \in Slots
               PROVE  itable'[f].ref = itable[f].ref + N(p, f)' - N(p, f)
    BY DEF RefStep
  <2>1. itable[f].ref \in Nat /\ N(p, f) \in Nat
    BY RefCovers DEF FSInv
  <2>2. itable'[f].ref = itable[f].ref + (IF g = f THEN 1 ELSE 0)
    BY <1>3, <1>4, <2>1
  <2>3. N(p, f)' = N(p, f) + (IF g = f THEN 1 ELSE 0)
    BY <1>15
  <2> QED
    BY ONLY <2>1, <2>2, <2>3
<1>20. TabStep(p)
  BY <1>4 DEF TRel, TabStep
<1>21. LockStep(p)
  <2> SUFFICES ASSUME NEW f \in Slots
               PROVE  /\ \A q \in Procs \ {p} : itable'[f].lock = q <=> itable[f].lock = q
                      /\ itable'[f].lock = p <=> Locks(u, f)
    BY <1>10 DEF LockStep
  <2>1. Locks(u, f) <=> d = f
    BY <1>9 DEF Locks, Freeing
  <2>2. itable[f].lock # p
    BY <1>2, AtFacts, SlotNotNil
  <2>3. itable'[f].lock = IF d = f THEN p ELSE itable[f].lock
    BY <1>3, <1>4, <1>13
  <2> QED
    BY <1>8, <2>1, <2>2, <2>3, NamesAssumption
<1>22. DiskStep(p)
  <2> SUFFICES ASSUME NEW f \in Slots, itable[f].ref > 0, NEW c, c = itable[f].inum
               PROVE  /\ ~Reach(p, f, c) => dinode'[c] = dinode[c] /\ dir'[c] = dir[c]
                      /\ itable[f].ref > N(p, f) /\ dinode[c].type # "free" => dinode'[c].type = dinode[c].type
                      /\ itable[f].lock \in Procs \ {p} => dir'[c] = dir[c]
    BY DEF DiskStep
  <2>1. c \in Inums
    BY DEF FSInv, TabOK
  <2>2. CASE c = j
    BY <1>8, <2>2 DEF Reach
  <2>3. CASE c # j
    BY <1>7, <1>8, <2>1, <2>3 DEF Allocated
  <2> QED
    BY <2>2, <2>3
<1>23. GainStep(p)
  <2> SUFFICES ASSUME NEW f \in Slots
               PROVE  /\ HasGood(p, f)' => Reach(p, f, itable'[f].inum)
                      /\ N(p, f)' >= 1 /\ ~HasGood(p, f)' => N(p, f) >= 1
    BY DEF GainStep
  <2>1. HasGood(p, f)' => Reach(p, f, itable'[f].inum)
    BY <1>4, <1>8, <1>15 DEF Reach
  <2>2. HasGood(p, g)'
    BY <1>9, <1>10 DEF HasGood, Good
  <2> QED
    BY <1>15, <2>1, <2>2, RefCovers DEF FSInv
<1>24. TabOK(itable', dinode')
  <2>1. TabOK(itable', dinode)
    BY <1>4 DEF TRel
  <2>2. AgreesWith(itable', itable', dinode')
    <3> SUFFICES ASSUME NEW f \in Slots, itable'[f].ref > 0, itable'[f].valid
                 PROVE  /\ dinode'[itable'[f].inum].type = itable'[f].type
                        /\ dinode'[itable'[f].inum].nlink = itable'[f].nlink
                        /\ itable'[f].type # "free"
      BY DEF AgreesWith
    <3>1. /\ itable'[f].inum \in Inums /\ dinode[itable'[f].inum].type = itable'[f].type
          /\ dinode[itable'[f].inum].nlink = itable'[f].nlink
          /\ itable'[f].type # "free"
      BY <2>1 DEF TabOK
    <3>2. itable'[f].inum # j
      BY <1>8, <3>1
    <3> QED
      BY <1>7, <3>1, <3>2 DEF Allocated
  <2> QED
    BY <2>1, <2>2, TabWrite
<1>25. ThreadInv(p)'
  <2>1. ASSUME NEW f \in Slots, HasGood(p, f)' PROVE dinode'[itable'[f].inum].type # "free"
    <3>1. CASE f = g
      BY <1>4, <1>6, <1>7, <3>1 DEF Allocated
    <3>2. CASE f # g
      <4>1. itable[f].ref > 0 /\ dinode[itable[f].inum].type # "free"
        BY <1>15, <2>1, <3>2, GoodFacts
      <4> QED
        BY <1>7, <1>8, <1>16, <3>2, <4>1 DEF Allocated
    <3> QED
      BY <3>1, <3>2
  <2>2. Alloc(p)'
    BY <2>1 DEF Alloc
  <2>3. itable'[d].valid /\ itable'[d].inum = x
    BY <1>2, <1>3, <1>4, <1>13
  <2>4. dinode'[x].type = "DIR" /\ dir'[x][Head(t.path)] = Nil
    BY <1>2, <1>3, <1>7, <1>8 DEF Allocated
  <2>5. ASSUME NEW r \in Procs \ {p} PROVE ~HasGood(r, g)'
    BY <1>8, <1>10, <1>12 DEF HasGood
  <2>6. NewType(p)' = ty
    BY <1>9, <1>10 DEF NewType
  <2>7. g # cwd[p] /\ g # file[p] /\ g # Nil
    BY <1>4, <1>12, SlotNotNil DEF HasGood, Good
  <2>8. Fresh(p, g)'
    BY <1>2, <1>4, <1>7, <1>8, <1>9, <1>10, <1>11, <1>13, <1>14, <2>5, <2>6, <2>7 DEF Fresh, Allocated
  <2>9. "create_new" \notin ParentLookups
    BY DEF ParentLookups
  <2>10. \A f \in Slots : ~Freeing(u, f)
    BY <1>9 DEF Freeing
  <2>11. Local(p)'
    <3>1. /\ u.pc = "create_new" /\ u.dp = d /\ u.ip = g /\ u.path = t.path /\ u.keep = Nil /\ th'[p] = u
      BY <1>2, <1>9, <1>10
    <3>2. dinode'[itable'[d].inum].type = "DIR" /\ dir'[itable'[d].inum][Head(t.path)] = Nil
      BY <2>3, <2>4
    <3> HIDE DEF t, x
    <3> QED
      BY ONLY <2>3, <2>8, <2>9, <2>10, <3>1, <3>2 DEF Local
  <2> QED
    BY <1>9, <1>10, <2>2, <2>11 DEF ThreadInv
<1>26. DiskInv'
  <2>1. ASSUME NEW c \in Inums PROVE Cardinality(Pending(c)') = Cardinality(Pending(c))
    <3>1. Cardinality(Pending(c)') + (IF p \in Pending(c) THEN 1 ELSE 0)
              = Cardinality(Pending(c)) + (IF p \in Pending(c)' THEN 1 ELSE 0)
      BY <1>18, <1>19, <1>20, <1>22, PendingCard
    <3>2. p \notin Pending(c)' /\ p \notin Pending(c)
      BY <1>2, <1>9, <1>10 DEF Pending
    <3> QED
      BY <3>1, <3>2, LinkFacts
  <2> HIDE DEF ty
  <2> QED
    BY <1>6, <1>7, <1>8, <2>1, AllocatedDisk
<1>27. PanicInv'
  BY <1>8 DEF FSInv, PanicInv
<1> QED
  BY <1>8, <1>17, <1>18, <1>19, <1>20, <1>21, <1>22, <1>23, <1>24, <1>25, <1>26, <1>27, StepKept

\* create() keeps the invariant: it finds the name, or makes an inode for it.
LEMMA Step_create ==
  ASSUME FSInv, NEW p \in Procs, create(p)
  PROVE  FSInv'
<1> DEFINE d == th[p].ip
           T == ilock(itable, d, p)
           i == dir[T[d].inum][Head(th[p].path)]
           j == First(Unallocated)
<1>1. PICK l \in {"create", "mkdir"} : At(p, l)
  BY DEF create
<1>2. itable[d].lock = None
  BY DEF create, Lockable
<1>3. CASE i # Nil /\ SlotOf(T, i) # Nil
  <2>1. /\ itable' = iget(iunlock(T, d), i) /\ th' = [th EXCEPT ![p] = ToFound(th[p], SlotOf(T, i))]
        /\ UNCHANGED <<dinode, dir, cwd, file, panicked>>
    BY <1>3 DEF create, ToFound
  <2>2. d = th[p].ip /\ T = ilock(itable, d, p) /\ i = dir[T[d].inum][Head(th[p].path)]
    OBVIOUS
  <2>3. FSInv /\ p \in Procs
    OBVIOUS
  <2> HIDE DEF d, T, i
  <2> QED
    BY ONLY <1>1, <1>2, <1>3, <2>1, <2>2, <2>3, CreateFinds
<1>4. CASE \/ i # Nil /\ SlotOf(T, i) = Nil
           \/ i = Nil /\ j = Nil
           \/ i = Nil /\ j # Nil /\ SlotOf(T, j) = Nil
  <2>1. Panic("iget: no inodes") \/ Panic("ialloc: no inodes")
    BY <1>4 DEF create
  <2> QED
    BY <2>1, PanicKept DEF Panic
<1>5. CASE i = Nil /\ j # Nil /\ SlotOf(T, j) # Nil
  <2>1. /\ dinode' = NewInode(j, NewType(p)) /\ itable' = iget(T, j)
        /\ th' = [th EXCEPT ![p] = ToNew(th[p], SlotOf(T, j))]
        /\ UNCHANGED <<dir, cwd, file, panicked>>
    BY <1>5 DEF create, ToNew, NewInode
  <2>2. j \in Inums /\ dinode[j].type = "free"
    <3>1. Unallocated # {}
      BY <1>5 DEF First
    <3>2. Unallocated \subseteq Nat
      BY SizeAssumption DEF Unallocated, Inums
    <3>3. j \in Unallocated
      BY <3>1, <3>2, FirstIn
    <3> QED
      BY <3>3 DEF Unallocated
  <2>3. d = th[p].ip /\ T = ilock(itable, d, p) /\ dir[T[d].inum][Head(th[p].path)] = Nil
    BY <1>5
  <2>4. FSInv /\ p \in Procs /\ SlotOf(T, j) # Nil
    BY <1>5
  <2> HIDE DEF d, T, j
  <2> QED
    BY ONLY <1>1, <1>2, <2>1, <2>2, <2>3, <2>4, CreateAllocs
<1> QED
  BY <1>3, <1>4, <1>5
-----------------------------------------------------------------------------
(***************************************************************************)
(* link() raises the link count of the old inode.                          *)
(***************************************************************************)

\* sys_link() looks its new path up, from entry c, with entry e to link.
Linking(new, c, e) == [Idle EXCEPT !.pc = "namex", !.op = "linknew", !.path = new, !.keep = e, !.ip = c]

\* What such a call holds.
LEMMA LinkingFacts ==
  ASSUME NEW new \in Seq(Names), NEW c \in Slots, NEW e \in Slots, NEW u, u = Linking(new, c, e)
  PROVE  /\ u \in ThreadType /\ Shape(u) /\ u.pc = "namex" /\ u.ip = c /\ u.dp = Nil /\ u.keep = e
         /\ u.iput = "test"
         /\ \A d, o : \A f \in Slots :
              /\ Held(d, o, u, f) = (IF d = f THEN 1 ELSE 0) + (IF o = f THEN 1 ELSE 0)
                                      + (IF c = f THEN 1 ELSE 0) + (IF e = f THEN 1 ELSE 0)
              /\ Good(d, o, u, f) <=> d = f \/ o = f \/ c = f \/ e = f
<1> DEFINE nil == <<>>
<1>1. u = Rec("namex", "linknew", new, nil, c, Nil, e, nil, "test")
  BY DEF Linking, Idle, Rec
<1>2. nil \in Seq(Slots) /\ nil \in Seq(Names) /\ nil = <<>> /\ Len(nil) <= 2
  OBVIOUS
<1> HIDE DEF nil
<1>3. /\ u.pc = "namex" /\ u.op = "linknew" /\ u.ip = c /\ u.dp = Nil /\ u.keep = e /\ u.puts = nil
      /\ u.iput = "test"
  BY ONLY <1>1, RecFields
<1>4. u \in ThreadType
  <2>1. /\ "namex" \in PC /\ "linknew" \in Lookups \cup ParentLookups /\ e \in Slots \cup {Nil}
        /\ c \in Slots \cup {Nil} /\ Nil \in Slots \cup {Nil} /\ nil \in Seq(Slots)
        /\ "test" \in {"test", "free", "dec"} /\ new \in Seq(Names) /\ nil \in Seq(Names)
    BY <1>2 DEF PC, ParentLookups
  <2> QED
    BY ONLY <1>1, <2>1 DEF Rec, ThreadType
<1>5. Shape(u)
  BY <1>2, <1>3, SlotNotNil DEF Shape, Lookups, ParentLookups
<1>6. ASSUME NEW d, NEW o, NEW f \in Slots
      PROVE  /\ Held(d, o, u, f) = (IF d = f THEN 1 ELSE 0) + (IF o = f THEN 1 ELSE 0)
                                     + (IF c = f THEN 1 ELSE 0) + (IF e = f THEN 1 ELSE 0)
             /\ Good(d, o, u, f) <=> d = f \/ o = f \/ c = f \/ e = f
  <2>1. u.puts = <<>>
    BY <1>2, <1>3
  <2>2. /\ Held(d, o, u, f) = (IF d = f THEN 1 ELSE 0) + (IF o = f THEN 1 ELSE 0)
              + (IF u.ip = f THEN 1 ELSE 0) + (IF u.dp = f THEN 1 ELSE 0)
              + (IF u.keep = f THEN 1 ELSE 0)
        /\ Good(d, o, u, f) <=> d = f \/ o = f \/ u.ip = f \/ u.dp = f \/ u.keep = f
    BY ONLY <2>1, Forms0
  <2> QED
    BY <1>3, <2>2, SlotNotNil
<1> QED
  BY <1>3, <1>4, <1>5, <1>6

\* The disk and the table with one more link to the inode of entry e.
OneLink(e, k) == [dinode EXCEPT ![itable[e].inum].nlink = k]
LinkedTable(e, k) == [itable EXCEPT ![e] = [Loaded(itable, e) EXCEPT !.nlink = k]]

\* What they hold.
LEMMA LinkedFacts ==
  ASSUME FSInv, NEW p \in Procs, NEW e \in Slots, HasGood(p, e), itable[e].lock = None,
         NEW j, j = itable[e].inum, NEW k \in Nat, NEW V, V = LinkedTable(e, k), NEW D, D = OneLink(e, k)
  PROVE  /\ V \in [Slots -> Entry] /\ D \in [Inums -> [type : Types, nlink : Nat]]
         /\ \A f \in Slots \ {e} : V[f] = itable[f]
         /\ V[e].inum = j /\ V[e].ref = itable[e].ref /\ V[e].valid /\ V[e].lock = None
         /\ \A i \in Inums \ {j} : D[i] = dinode[i]
         /\ D[j].nlink = k /\ D[j].type = dinode[j].type
         /\ TabOK(V, D)
<1> DEFINE L == Loaded(itable, e)
           M == [L EXCEPT !.nlink = k]
<1>1. j \in Inums /\ itable[e].ref > 0 /\ dinode[j].type # "free"
  BY GoodFacts
<1>2. /\ L \in Entry /\ L.inum = j /\ L.ref = itable[e].ref /\ L.valid /\ L.lock = None
      /\ L.type = dinode[j].type
  BY LoadedTable
<1>3. itable \in [Slots -> Entry] /\ dinode \in [Inums -> [type : Types, nlink : Nat]]
  BY DEF FSInv, TypeInv, Entry
<1>4. V = [itable EXCEPT ![e] = M] /\ D = [dinode EXCEPT ![j].nlink = k]
  BY DEF LinkedTable, OneLink
<1> HIDE DEF L
<1>5. /\ M \in Entry /\ M.inum = L.inum /\ M.ref = L.ref /\ M.valid = L.valid /\ M.type = L.type
      /\ M.nlink = k /\ M.lock = L.lock
  BY <1>2 DEF Entry
<1> HIDE DEF M
<1>6. V \in [Slots -> Entry] /\ V[e] = M /\ \A f \in Slots \ {e} : V[f] = itable[f]
  BY <1>3, <1>4, <1>5
<1>7. dinode[j] \in [type : Types, nlink : Nat]
  BY <1>1, <1>3
<1>8. /\ D \in [Inums -> [type : Types, nlink : Nat]]
      /\ \A i \in Inums \ {j} : D[i] = dinode[i]
      /\ D[j].nlink = k /\ D[j].type = dinode[j].type
  BY <1>1, <1>3, <1>4, <1>7
<1>9. TabOK(V, D)
  <2>1. TabOK(itable, dinode)
    BY DEF FSInv
  <2>2. AgreesWith(itable, V, D)
    <3> SUFFICES ASSUME NEW f \in Slots
                 PROVE  /\ V[f].ref = itable[f].ref /\ V[f].inum = itable[f].inum
                        /\ itable[f].ref > 0 /\ V[f].valid =>
                             /\ D[itable[f].inum].type = V[f].type
                             /\ D[itable[f].inum].nlink = V[f].nlink
                             /\ V[f].type # "free"
      BY DEF AgreesWith
    <3>1. CASE f = e
      BY <1>1, <1>2, <1>5, <1>6, <1>8, <3>1
    <3>2. CASE f # e
      <4>1. itable[f].ref > 0 => itable[f].inum \in Inums \ {j}
        BY <1>1, <2>1, <3>2 DEF TabOK
      <4> QED
        BY <1>6, <1>8, <2>1, <3>2, <4>1 DEF TabOK
    <3> QED
      BY <3>1, <3>2
  <2> QED
    BY <2>1, <2>2, TabWrite
<1> QED
  BY <1>2, <1>5, <1>6, <1>8, <1>9

\* The link count of a file is raised for a link to come.
LEMMA LinkedDisk ==
  ASSUME FSInv, NEW j \in Inums, dinode[j].type # "free",
         \A i \in Inums \ {j} : dinode'[i] = dinode[i],
         dinode'[j].nlink = dinode[j].nlink + 1, dinode'[j].type = dinode[j].type, dir' = dir,
         \A i \in Inums : Cardinality(Pending(i)') = Cardinality(Pending(i)) + (IF i = j THEN 1 ELSE 0)
  PROVE  DiskInv'
<1>1. \A i : Entries(i)' = Entries(i)
  BY DEF Entries
<1>2. \A i : Subdirs(i)' = Subdirs(i)
  BY <1>1 DEF Subdirs
<1>3. LinkInv'
  <2> SUFFICES ASSUME NEW i \in Inums
               PROVE  dinode'[i].nlink >= Cardinality(Entries(i)') + Cardinality(Subdirs(i)')
                        + Cardinality(Pending(i)') + (IF i = ROOTINO THEN 1 ELSE 0)
    BY DEF LinkInv
  <2>1. Cardinality(Entries(i)') = Cardinality(Entries(i)) /\ Cardinality(Subdirs(i)') = Cardinality(Subdirs(i))
    BY <1>1, <1>2
  <2>2. Cardinality(Pending(i)') = Cardinality(Pending(i)) + (IF i = j THEN 1 ELSE 0)
    OBVIOUS
  <2>3. dinode'[i].nlink = dinode[i].nlink + (IF i = j THEN 1 ELSE 0)
    BY LinkFacts
  <2> QED
    BY <2>1, <2>2, <2>3, LinkFacts
<1>4. \A i \in Inums : dinode'[i].type = dinode[i].type
  OBVIOUS
<1>5. TreeInv'
  <2>1. TreeInv /\ dir' = dir
    BY DEF FSInv, DiskInv
  <2> QED
    BY ONLY <1>4, <2>1 DEF TreeInv
<1>6. \A i \in Inums : dinode'[i].type = "free" => dinode'[i].nlink = 0
  BY DEF FSInv, DiskInv
<1>7. \A i \in Inums : dinode'[i].type # "DIR" => dir'[i] = NoEntries
  BY <1>4 DEF FSInv, DiskInv
<1> QED
  BY <1>3, <1>5, <1>6, <1>7 DEF DiskInv

\* link() of a file.
LEMMA LinkBegins ==
  ASSUME FSInv, NEW p \in Procs, At(p, "linkold"), NEW e, e = th[p].ip, itable[e].lock = None,
         Loaded(itable, e).type # "DIR", NEW k, k = Loaded(itable, e).nlink + 1,
         dinode' = OneLink(e, k), itable' = idup(LinkedTable(e, k), cwd[p]),
         th' = [th EXCEPT ![p] = Linking(th[p].new, cwd[p], e)],
         UNCHANGED <<dir, cwd, file, panicked>>
  PROVE  FSInv'
<1> DEFINE t == th[p]
           c == cwd[p]
           u == Linking(t.new, c, e)
           V == LinkedTable(e, k)
           j == itable[e].inum
<1>1. /\ t.puts = <<>> /\ t.pc = "linkold" /\ t.dp = Nil /\ e \in Slots /\ HasGood(p, e) /\ t.keep = Nil
  <2>1. At(p, "linkold") /\ "linkold" \in Lookups
    BY DEF Lookups
  <2> QED
    BY <2>1, AtLookup
<1>2. /\ t \in ThreadType /\ c \in Slots /\ file[p] \in Slots \cup {Nil}
      /\ \A f : N(p, f) = (IF cwd[p] = f THEN 1 ELSE 0) + (IF file[p] = f THEN 1 ELSE 0)
              + (IF th[p].ip = f THEN 1 ELSE 0) + (IF th[p].dp = f THEN 1 ELSE 0)
              + (IF th[p].keep = f THEN 1 ELSE 0)
      /\ \A f : HasGood(p, f) <=>
              cwd[p] = f \/ file[p] = f \/ th[p].ip = f \/ th[p].dp = f \/ th[p].keep = f
      /\ \A f \in Slots : itable[f].lock = p <=> th[p].dp = f
  BY <1>1, AtFacts
<1>3. ASSUME NEW f \in Slots
      PROVE  /\ N(p, f) = (IF c = f THEN 1 ELSE 0) + (IF file[p] = f THEN 1 ELSE 0) + (IF e = f THEN 1 ELSE 0)
             /\ HasGood(p, f) <=> c = f \/ file[p] = f \/ e = f
             /\ itable[f].lock # p
  BY <1>1, <1>2, SlotNotNil
<1>4. /\ j \in Inums /\ itable[e].ref > 0 /\ dinode[j].type # "free" /\ itable[c].ref > 0
  BY <1>1, <1>2, <1>3, GoodFacts
<1>5. /\ Loaded(itable, e).type = dinode[j].type /\ Loaded(itable, e).nlink = dinode[j].nlink
  BY <1>1, LoadedTable
<1>6. dinode[j] \in [type : Types, nlink : Nat]
  BY <1>4 DEF FSInv, TypeInv
<1>7. dinode[j].type = "FILE" /\ k = dinode[j].nlink + 1 /\ k \in Nat
  <2>1. dinode[j].type \in Types /\ dinode[j].nlink \in Nat
    BY <1>6
  <2>2. Loaded(itable, e).type # "DIR" /\ k = Loaded(itable, e).nlink + 1
    OBVIOUS
  <2> HIDE DEF j
  <2> QED
    BY ONLY <1>4, <1>5, <2>1, <2>2 DEF Types
<1>8. /\ V \in [Slots -> Entry] /\ dinode' \in [Inums -> [type : Types, nlink : Nat]]
      /\ \A f \in Slots \ {e} : V[f] = itable[f]
      /\ V[e].inum = j /\ V[e].ref = itable[e].ref /\ V[e].valid /\ V[e].lock = None
      /\ \A i \in Inums \ {j} : dinode'[i] = dinode[i]
      /\ dinode'[j].nlink = k /\ dinode'[j].type = dinode[j].type
      /\ TabOK(V, dinode')
  BY <1>1, <1>7, LinkedFacts
<1>9. /\ FSInv /\ p \in Procs /\ th' = [th EXCEPT ![p] = u] /\ itable' = idup(V, c) /\ e = t.ip
      /\ cwd' = cwd /\ file' = file /\ panicked' = panicked /\ dir' = dir /\ itable[e].lock = None
  OBVIOUS
<1> HIDE DEF V
<1>10. /\ itable' \in [Slots -> Entry] /\ TabOK(itable', dinode')
       /\ itable'[c].inum = V[c].inum /\ itable'[c].ref = V[c].ref + 1 /\ itable'[c].lock = V[c].lock
       /\ itable'[c].valid = V[c].valid
       /\ \A f \in Slots \ {c} : itable'[f] = V[f]
  <2>1. c \in Slots /\ V[c].ref > 0
    BY <1>2, <1>4, <1>8
  <2> HIDE DEF c
  <2> QED
    BY ONLY <1>8, <1>9, <2>1, IdupFacts
<1>11. ASSUME NEW f \in Slots
       PROVE  /\ itable'[f].ref = itable[f].ref + (IF c = f THEN 1 ELSE 0)
              /\ itable'[f].inum = itable[f].inum /\ itable'[f].lock = itable[f].lock
              /\ itable'[f].valid = itable[f].valid \/ f = e
              /\ itable[f].valid => itable'[f].valid
  <2>1. itable[f].ref \in Nat
    BY RefCovers DEF FSInv
  <2>2. V[f].ref = itable[f].ref /\ V[f].inum = itable[f].inum /\ V[f].lock = itable[f].lock
        /\ (V[f].valid = itable[f].valid \/ f = e) /\ (itable[f].valid => V[f].valid)
    BY <1>8, <1>9
  <2>3. /\ itable'[f].ref = V[f].ref + (IF c = f THEN 1 ELSE 0)
        /\ itable'[f].inum = V[f].inum /\ itable'[f].lock = V[f].lock
        /\ itable'[f].valid = V[f].valid
    BY <1>10, <2>1, <2>2
  <2> QED
    BY <2>2, <2>3
<1>12. /\ u \in ThreadType /\ Shape(u) /\ u.pc = "namex" /\ u.ip = c /\ u.dp = Nil /\ u.keep = e
       /\ u.iput = "test"
       /\ \A d, o : \A f \in Slots :
            /\ Held(d, o, u, f) = (IF d = f THEN 1 ELSE 0) + (IF o = f THEN 1 ELSE 0)
                                    + (IF c = f THEN 1 ELSE 0) + (IF e = f THEN 1 ELSE 0)
            /\ Good(d, o, u, f) <=> d = f \/ o = f \/ c = f \/ e = f
  <2>1. t.new \in Seq(Names) /\ c \in Slots /\ e \in Slots
    BY <1>1, <1>2, RecParts
  <2> HIDE DEF t, c
  <2> QED
    BY ONLY <2>1, LinkingFacts
<1> HIDE DEF u
<1>13. th'[p] = u /\ th' \in [Procs -> ThreadType] /\ \A q \in Procs \ {p} : th'[q] = th[q]
  BY ONLY <1>9, <1>12, ThFrame
<1>14. ASSUME NEW f \in Slots
       PROVE  /\ N(p, f)' = N(p, f) + (IF c = f THEN 1 ELSE 0)
              /\ HasGood(p, f)' <=> HasGood(p, f)
              /\ N(p, f)' >= 1 => HasGood(p, f)'
  <2>1. /\ N(p, f)' = (IF c = f THEN 1 ELSE 0) + (IF file[p] = f THEN 1 ELSE 0)
                        + (IF c = f THEN 1 ELSE 0) + (IF e = f THEN 1 ELSE 0)
        /\ HasGood(p, f)' <=> c = f \/ file[p] = f \/ e = f
    BY <1>9, <1>12, <1>13 DEF N, HasGood
  <2> QED
    BY <1>3, <2>1
<1>15. TypeInv'
  <2>1. TypeInv
    BY DEF FSInv
  <2> QED
    BY ONLY <1>8, <1>9, <1>10, <1>13, <2>1 DEF TypeInv, Entry
<1>16. Others(p)
  BY <1>9, <1>13 DEF Others
<1>17. RefStep(p)
  <2> SUFFICES ASSUME NEW f \in Slots
               PROVE  itable'[f].ref = itable[f].ref + N(p, f)' - N(p, f)
    BY DEF RefStep
  <2>1. itable[f].ref \in Nat /\ N(p, f) \in Nat
    BY RefCovers DEF FSInv
  <2>2. itable'[f].ref = itable[f].ref + (IF c = f THEN 1 ELSE 0)
    BY <1>11
  <2>3. N(p, f)' = N(p, f) + (IF c = f THEN 1 ELSE 0)
    BY <1>14
  <2> QED
    BY ONLY <2>1, <2>2, <2>3
<1>18. TabStep(p)
  BY <1>1, <1>11 DEF TabStep, Reach
<1>19. LockStep(p)
  <2> SUFFICES ASSUME NEW f \in Slots
               PROVE  /\ \A q \in Procs \ {p} : itable'[f].lock = q <=> itable[f].lock = q
                      /\ itable'[f].lock = p <=> Locks(u, f)
    BY <1>13 DEF LockStep
  <2>1. ~Locks(u, f)
    BY <1>12, SlotNotNil DEF Locks, Freeing
  <2> QED
    BY <1>3, <1>11, <2>1
<1>20. DiskStep(p)
  <2>1. WritesOwn(p)
    <3> SUFFICES ASSUME NEW i \in Inums
                 PROVE  \/ dinode'[i] = dinode[i] /\ dir'[i] = dir[i]
                        \/ /\ dinode'[i].type = dinode[i].type
                           /\ \E f \in Slots : HasGood(p, f) /\ itable[f].inum = i /\ itable[f].lock \in {None, p}
      BY DEF WritesOwn
    <3> QED
      BY <1>1, <1>8, <1>9
  <2> QED
    BY <2>1, OwnDisk
<1>21. GainStep(p)
  BY <1>14 DEF GainStep, Reach
<1>22. ThreadInv(p)'
  <2>1. ASSUME NEW f \in Slots, HasGood(p, f)' PROVE dinode'[itable'[f].inum].type # "free"
    <3>1. itable[f].inum \in Inums /\ dinode[itable[f].inum].type # "free"
      BY <1>14, <2>1, GoodFacts
    <3>2. itable'[f].inum = itable[f].inum
      BY <1>11
    <3>3. \A i \in Inums : dinode'[i].type = dinode[i].type
      BY <1>8
    <3> QED
      BY ONLY <3>1, <3>2, <3>3
  <2>2. Alloc(p)'
    BY <2>1 DEF Alloc
  <2>3. dinode'[itable'[e].inum].type = "FILE"
    BY <1>1, <1>7, <1>8, <1>11
  <2>4. "namex" \notin ParentLookups
    BY DEF ParentLookups
  <2>5. \A f \in Slots : ~Freeing(u, f)
    BY <1>12 DEF Freeing
  <2>6. Local(p)'
    <3>1. u.pc = "namex" /\ u.dp = Nil /\ u.keep = e /\ th'[p] = u
      BY <1>12, <1>13
    <3> QED
      BY ONLY <2>3, <2>4, <2>5, <3>1 DEF Local
  <2> QED
    BY <1>12, <1>13, <2>2, <2>6 DEF ThreadInv
<1>23. DiskInv'
  <2>1. ASSUME NEW i \in Inums PROVE Cardinality(Pending(i)') = Cardinality(Pending(i)) + (IF i = j THEN 1 ELSE 0)
    <3>1. Cardinality(Pending(i)') + (IF p \in Pending(i) THEN 1 ELSE 0)
              = Cardinality(Pending(i)) + (IF p \in Pending(i)' THEN 1 ELSE 0)
      BY <1>16, <1>17, <1>18, <1>20, PendingCard
    <3>2. p \notin Pending(i)
      BY <1>1 DEF Pending
    <3>3. p \in Pending(i)' <=> i = j
      BY <1>1, <1>11, <1>12, <1>13, SlotNotNil DEF Pending
    <3> HIDE DEF j
    <3> QED
      BY <3>1, <3>2, <3>3, LinkFacts
  <2> HIDE DEF j
  <2> QED
    BY <1>4, <1>7, <1>8, <1>9, <2>1, LinkedDisk
<1>24. PanicInv'
  BY <1>9 DEF FSInv, PanicInv
<1> QED
  BY <1>9, <1>10, <1>15, <1>16, <1>17, <1>18, <1>19, <1>20, <1>21, <1>22, <1>23, <1>24, StepKept

\* The first half of sys_link() keeps the invariant.
LEMMA Step_sys_link ==
  ASSUME FSInv, NEW p \in Procs, sys_link(p)
  PROVE  FSInv'
<1> DEFINE e == th[p].ip
           L == Loaded(itable, e)
           k == L.nlink + 1
<1>1. At(p, "linkold") /\ itable[e].lock = None /\ FSInv /\ p \in Procs
  BY DEF sys_link, Lockable
<1>2. /\ e \in Slots /\ HasGood(p, e)
  <2>1. At(p, "linkold") /\ "linkold" \in Lookups
    BY <1>1 DEF Lookups
  <2> QED
    BY <2>1, AtLookup
<1>3. CASE L.type = "DIR"
  <2>1. /\ itable' = [itable EXCEPT ![e] = Loaded(itable, e)] /\ Return(p, <<e>>)
        /\ UNCHANGED <<dinode, dir, cwd, file, panicked>>
    BY <1>3 DEF sys_link
  <2> HIDE DEF e
  <2> QED
    BY ONLY <1>1, <2>1, LinkDirectory DEF e
<1>4. CASE L.type # "DIR"
  <2>1. L.inum = itable[e].inum
    BY <1>1, <1>2, LoadedTable
  <2>2. /\ dinode' = OneLink(e, k) /\ itable' = idup(LinkedTable(e, k), cwd[p])
        /\ th' = [th EXCEPT ![p] = Linking(th[p].new, cwd[p], e)]
        /\ UNCHANGED <<dir, cwd, file, panicked>>
    BY <1>4, <2>1 DEF sys_link, OneLink, LinkedTable, Linking
  <2>3. e = th[p].ip /\ Loaded(itable, e).type # "DIR" /\ k = Loaded(itable, e).nlink + 1
    BY <1>4
  <2> HIDE DEF e, k, L
  <2> QED
    BY ONLY <1>1, <2>2, <2>3, LinkBegins
<1> QED
  BY <1>3, <1>4
-----------------------------------------------------------------------------
(***************************************************************************)
(* The theorems.                                                           *)
(***************************************************************************)

\* The assertion of ilock() does not fail: what a call locks is allocated.
LEMMA NeverNoType ==
  ASSUME FSInv, NEW p \in Procs, ilock_panics(p)
  PROVE  FALSE
<1> DEFINE t == th[p]
           e == IF t.pc = "link_bad" THEN t.keep ELSE t.ip
<1>1. /\ t.puts = <<>> /\ t.pc \notin {"idle", "link_exists"} /\ itable[e].lock = None /\ NoType(itable, e)
  BY DEF ilock_panics
<1>2. /\ t \in ThreadType /\ Shape(t)
      /\ \A f : HasGood(p, f) <=> cwd[p] = f \/ file[p] = f \/ t.ip = f \/ t.dp = f \/ t.keep = f
  BY <1>1, AtFacts
<1>3. t.ip \in Slots \cup {Nil} /\ t.keep \in Slots \cup {Nil}
  BY <1>2, RecParts
<1>4. e # Nil
  BY <1>1, <1>2 DEF Shape
<1>5. e \in Slots /\ HasGood(p, e)
  BY <1>2, <1>3, <1>4
<1> HIDE DEF e
<1>6. Loaded(itable, e).type = dinode[itable[e].inum].type /\ dinode[itable[e].inum].type # "free"
  BY <1>1, <1>5, LoadedTable, GoodFacts
<1> QED
  BY <1>1, <1>6 DEF NoType

\* The processes that start have a pointer to the root's entry each.
LEMMA InitCount ==
  ASSUME NEW C, NEW O, NEW H, C = [p \in Procs |-> 1], O = [p \in Procs |-> Nil],
         H = [p \in Procs |-> Idle], NEW e \in Slots
  PROVE  Count(C, O, H, Procs, e) = IF e = 1 THEN Cardinality(Procs) ELSE 0
<1> DEFINE nil == <<>>
<1>1. Idle.ip = Nil /\ Idle.dp = Nil /\ Idle.keep = Nil /\ Idle.puts = nil
  BY DEF Idle
<1>2. Len(nil) = 0
  OBVIOUS
<1> HIDE DEF nil
<1>3. \A p \in Procs : C[p] = 1 /\ O[p] = Nil /\ H[p] = Idle
  OBVIOUS
<1>4. e # Nil
  BY SlotNotNil
<1>5. Cwds(C, Procs, e) = IF e = 1 THEN Procs ELSE {}
  BY <1>3 DEF Cwds
<1>6. Cwds(O, Procs, e) = {}
  BY <1>3, <1>4 DEF Cwds
<1>7. Vars(H, Procs, e) = {}
  <2> SUFFICES ASSUME NEW x \in Procs \X {"ip", "dp", "keep"} PROVE H[x[1]][x[2]] # e
    BY DEF Vars
  <2>1. x[1] \in Procs /\ x[2] \in {"ip", "dp", "keep"}
    OBVIOUS
  <2> QED
    BY <1>1, <1>3, <1>4, <2>1
<1>8. Puts(H, Procs, e) = {}
  <2> SUFFICES ASSUME NEW x \in Procs \X (1..2) PROVE ~(x[2] <= Len(H[x[1]].puts))
    BY DEF Puts
  <2>1. x[1] \in Procs /\ x[2] \in 1..2
    OBVIOUS
  <2>2. H[x[1]].puts = nil
    BY <1>1, <1>3, <2>1
  <2> QED
    BY <1>2, <2>1, <2>2
<1>9. Cardinality({}) = 0 /\ Cardinality(Procs) \in Nat
  BY FS_EmptySet, FS_CardinalityType, SizeAssumption
<1> QED
  BY ONLY <1>5, <1>6, <1>7, <1>8, <1>9 DEF Count

\* mkfs leaves a file system that satisfies the invariant.
LEMMA InitFSInv ==
  ASSUME Init
  PROVE  FSInv
<1>1. Idle \in ThreadType /\ Shape(Idle) /\ Idle.dp = Nil /\ Idle.keep = Nil /\ Idle.ip = Nil
      /\ Idle.pc = "idle" /\ Idle.iput = "test"
  <2> DEFINE nil == <<>>
  <2>1. Idle = Ended(nil)
    BY DEF Idle, Ended
  <2>2. nil \in Seq(Slots) /\ Len(nil) <= 2
    OBVIOUS
  <2> HIDE DEF nil
  <2> QED
    BY ONLY <2>1, <2>2, IdleFacts
<1>2. \A p \in Procs : th[p] = Idle /\ cwd[p] = 1 /\ file[p] = Nil
  BY DEF Init
<1>3. 1 \in Slots /\ ROOTINO \in Inums /\ Cardinality(Procs) \in Nat
  BY SizeAssumption, FS_CardinalityType DEF Slots, Inums, ROOTINO
<1>4. /\ \A i \in Inums : dinode[i] = IF i = ROOTINO THEN [type |-> "DIR", nlink |-> 1]
                                      ELSE [type |-> "free", nlink |-> 0]
      /\ dinode \in [Inums -> [type : Types, nlink : Nat]]
  BY DEF Init, Types
<1>5. /\ \A i \in Inums : dir[i] \in [Names \cup {DotDot} -> Inums \cup {Nil}]
      /\ \A i \in Inums : i # ROOTINO => dir[i] = NoEntries
      /\ \A i \in Inums : \A n \in Names : dir[i][n] = Nil
      /\ dir \in [Inums -> [Names \cup {DotDot} -> Inums \cup {Nil}]]
  <2>1. NoEntries \in [Names \cup {DotDot} -> Inums \cup {Nil}] /\ \A n \in Names : NoEntries[n] = Nil
    BY DEF NoEntries
  <2> DEFINE R == [NoEntries EXCEPT ![DotDot] = ROOTINO]
  <2>2. R \in [Names \cup {DotDot} -> Inums \cup {Nil}] /\ \A n \in Names : R[n] = Nil
    BY <1>3, <2>1, NamesAssumption
  <2>3. dir = [i \in Inums |-> IF i = ROOTINO THEN R ELSE NoEntries]
    BY DEF Init
  <2> HIDE DEF R
  <2> QED
    BY ONLY <2>1, <2>2, <2>3
<1>6. /\ itable \in [Slots -> Entry] /\ \A e \in Slots : itable[e].lock = None
      /\ \A e \in Slots : e # 1 => itable[e].ref = 0
      /\ itable[1].ref = Cardinality(Procs) /\ itable[1].inum = ROOTINO /\ itable[1].type = "DIR"
      /\ itable[1].nlink = 1
  <2> DEFINE R == [inum |-> ROOTINO, ref |-> Cardinality(Procs), valid |-> TRUE,
                   type |-> "DIR", nlink |-> 1, lock |-> None]
  <2>1. R \in Entry /\ R.lock = None /\ R.ref = Cardinality(Procs) /\ R.inum = ROOTINO
        /\ R.type = "DIR" /\ R.nlink = 1
    BY <1>3 DEF Entry, Types
  <2>2. Blank \in Entry /\ Blank.lock = None /\ Blank.ref = 0
    BY DEF Blank, Entry, Types
  <2>3. itable = [e \in Slots |-> IF e # 1 THEN Blank ELSE R]
    BY DEF Init
  <2> HIDE DEF R
  <2> QED
    BY ONLY <1>3, <2>1, <2>2, <2>3
<1>7. TypeInv
  <2>1. /\ cwd \in [Procs -> Slots] /\ file \in [Procs -> Slots \cup {Nil}] /\ th \in [Procs -> ThreadType]
    BY <1>1, <1>3 DEF Init
  <2> QED
    BY <1>4, <1>5, <1>6, <2>1 DEF TypeInv, Entry
<1>8. RefCount
  <2> SUFFICES ASSUME NEW e \in Slots PROVE itable[e].ref = Count(cwd, file, th, Procs, e)
    BY DEF RefCount, Pointers, Count, Cwds, Vars, Puts
  <2>1. Count(cwd, file, th, Procs, e) = IF e = 1 THEN Cardinality(Procs) ELSE 0
    BY InitCount DEF Init
  <2> QED
    BY <1>6, <2>1
<1>9. TabOK(itable, dinode)
  BY <1>3, <1>4, <1>6 DEF TabOK
<1>10. \A e : ~Freeing(Idle, e)
  BY <1>1 DEF Freeing
<1>11. LockInv
  <2> SUFFICES ASSUME NEW e \in Slots, NEW q \in Procs
               PROVE  itable[e].lock = q <=> Locks(th[q], e)
    BY DEF LockInv
  <2> QED
    BY <1>1, <1>2, <1>6, <1>10, NamesAssumption, SlotNotNil DEF Locks
<1>12. ASSUME NEW q \in Procs PROVE ThreadInv(q)
  <2>1. ASSUME NEW e \in Slots, HasGood(q, e) PROVE e = 1
    <3> DEFINE nil == <<>>
    <3>1. Idle.puts = nil /\ Len(nil) = 0
      BY DEF Idle
    <3> HIDE DEF nil
    <3> QED
      BY <1>1, <1>2, <2>1, <3>1, SlotNotNil DEF HasGood, Good
  <2>2. Alloc(q)
    BY <1>3, <1>4, <1>6, <2>1 DEF Alloc
  <2>3. Local(q)
    BY <1>1, <1>2, <1>10 DEF Local, ParentLookups
  <2> QED
    BY <1>1, <1>2, <2>2, <2>3 DEF ThreadInv
<1>13. DiskInv
  <2>1. \A i \in Inums : i # Nil
    BY SizeAssumption DEF Inums, Nil
  <2>2. ASSUME NEW i \in Inums PROVE Entries(i) = {} /\ Pending(i) = {}
    <3>1. \A x \in Inums \X Names : dir[x[1]][x[2]] = Nil
      BY <1>5
    <3> QED
      BY <1>1, <1>2, <2>1, <3>1 DEF Entries, Pending
  <2>3. ASSUME NEW i \in Inums PROVE Subdirs(i) = {}
    BY <2>2 DEF Subdirs
  <2>4. LinkInv
    <3> SUFFICES ASSUME NEW i \in Inums
                 PROVE  dinode[i].nlink >= Cardinality(Entries(i)) + Cardinality(Subdirs(i))
                          + Cardinality(Pending(i)) + (IF i = ROOTINO THEN 1 ELSE 0)
      BY DEF LinkInv
    <3>1. Cardinality({}) = 0
      BY FS_EmptySet
    <3>2. dinode[i].nlink = IF i = ROOTINO THEN 1 ELSE 0
      BY <1>4
    <3>3. Cardinality(Entries(i)) = 0 /\ Cardinality(Subdirs(i)) = 0 /\ Cardinality(Pending(i)) = 0
      BY <2>2, <2>3, <3>1
    <3> QED
      BY ONLY <3>2, <3>3
  <2>5. TreeInv
    BY <1>5, <2>1 DEF TreeInv
  <2>6. \A i \in Inums : dinode[i].type = "free" => dinode[i].nlink = 0
    BY <1>4
  <2>7. \A i \in Inums : dinode[i].type # "DIR" => dir[i] = NoEntries
    BY <1>4, <1>5
  <2> QED
    BY <2>4, <2>5, <2>6, <2>7 DEF DiskInv
<1>14. PanicInv
  BY DEF Init, PanicInv
<1> QED
  BY <1>7, <1>8, <1>9, <1>11, <1>12, <1>13, <1>14 DEF FSInv

\* A step of the file system keeps the invariant, when no path uses "..".
LEMMA NextFSInv ==
  ASSUME FSInv, NoUp, [Next]_vars
  PROVE  FSInv'
<1>1. CASE UNCHANGED vars
  BY <1>1, PanicKept DEF vars, FSInv, PanicInv
<1>2. CASE Halted
  BY <1>1, <1>2 DEF Halted
<1>3. CASE panicked = "no" /\ \E p \in Procs :
            IF ilock_panics(p) THEN Panic("ilock: no type")
            ELSE \/ iput(p) \/ iput_free(p) \/ iput_dec(p)
                 \/ namex(p) \/ sys_open(p) \/ sys_chdir(p) \/ sys_close(p)
                 \/ create(p) \/ create_found(p) \/ create_new(p)
                 \/ sys_unlink(p) \/ unlink_entry(p)
                 \/ sys_link(p) \/ link_entry(p) \/ link_exists(p) \/ link_bad(p)
                 \/ \E abs \in BOOLEAN, path \in Paths, new \in Paths \cup {<<>>}, op \in Calls[p] :
                      call(p, op, abs, path, new)
  <2>1. PICK p \in Procs :
            IF ilock_panics(p) THEN Panic("ilock: no type")
            ELSE \/ iput(p) \/ iput_free(p) \/ iput_dec(p)
                 \/ namex(p) \/ sys_open(p) \/ sys_chdir(p) \/ sys_close(p)
                 \/ create(p) \/ create_found(p) \/ create_new(p)
                 \/ sys_unlink(p) \/ unlink_entry(p)
                 \/ sys_link(p) \/ link_entry(p) \/ link_exists(p) \/ link_bad(p)
                 \/ \E abs \in BOOLEAN, path \in Paths, new \in Paths \cup {<<>>}, op \in Calls[p] :
                      call(p, op, abs, path, new)
    BY <1>3, Zenon
  <2>2. ~ilock_panics(p)
    BY NeverNoType
  <2>3. CASE \E abs \in BOOLEAN, path \in Paths, new \in Paths \cup {<<>>}, op \in Calls[p] :
                call(p, op, abs, path, new)
    BY <2>3, Step_call, Zenon
  <2>4. CASE iput(p)
    BY <2>4, Step_iput
  <2>5. CASE iput_free(p)
    BY <2>5, Step_iput_free
  <2>6. CASE iput_dec(p)
    BY <2>6, Step_iput_dec
  <2>7. CASE namex(p)
    BY <2>7, Step_namex
  <2>8. CASE sys_open(p)
    BY <2>8, Step_sys_open
  <2>9. CASE sys_chdir(p)
    BY <2>9, Step_sys_chdir
  <2>10. CASE sys_close(p)
    BY <2>10, Step_sys_close
  <2>11. CASE create(p)
    BY <2>11, Step_create
  <2>12. CASE create_found(p)
    BY <2>12, Step_create_found
  <2>13. CASE create_new(p)
    BY <2>13, Step_create_new
  <2>14. CASE sys_unlink(p)
    BY <2>14, Step_sys_unlink
  <2>15. CASE unlink_entry(p)
    BY <2>15, Step_unlink_entry
  <2>16. CASE sys_link(p)
    BY <2>16, Step_sys_link
  <2>17. CASE link_entry(p)
    BY <2>17, Step_link_entry
  <2>18. CASE link_exists(p)
    BY <2>18, Step_link_exists
  <2>19. CASE link_bad(p)
    BY <2>19, Step_link_bad
  <2> QED
    BY <2>1, <2>2, <2>3, <2>4, <2>5, <2>6, <2>7, <2>8, <2>9, <2>10, <2>11, <2>12, <2>13,
       <2>14, <2>15, <2>16, <2>17, <2>18, <2>19, Zenon
<1> QED
  BY <1>1, <1>2, <1>3, Zenon DEF Next

\* What the invariant says of the properties that the runs check.
LEMMA FSInvImplies ==
  ASSUME FSInv
  PROVE  TableInv /\ Kept /\ NoBadPanic /\ NoFreeInode
<1>1. TypeOK
  <2>1. ASSUME NEW s \in Seq(Names) PROVE s \in Seq(Names \cup {DotDot})
    OBVIOUS
  <2>2. ASSUME NEW p \in Procs
        PROVE  /\ th[p].pc \in PC /\ th[p].op \in Lookups \cup ParentLookups
               /\ {th[p].path, th[p].new} \subseteq Seq(Names \cup {DotDot})
               /\ {th[p].ip, th[p].dp, th[p].keep} \subseteq Slots \cup {Nil}
               /\ th[p].puts \in Seq(Slots) /\ th[p].iput \in {"test", "free", "dec"}
    <3>1. th[p] \in ThreadType
      BY DEF FSInv, TypeInv
    <3>2. /\ th[p].pc \in PC /\ th[p].op \in Lookups \cup ParentLookups /\ th[p].path \in Seq(Names)
          /\ th[p].new \in Seq(Names) /\ th[p].ip \in Slots \cup {Nil} /\ th[p].dp \in Slots \cup {Nil}
          /\ th[p].keep \in Slots \cup {Nil} /\ th[p].puts \in Seq(Slots)
          /\ th[p].iput \in {"test", "free", "dec"}
      BY <3>1, RecParts
    <3>3. th[p].path \in Seq(Names \cup {DotDot}) /\ th[p].new \in Seq(Names \cup {DotDot})
      BY <2>1, <3>2
    <3> QED
      BY <3>2, <3>3, Zenon
  <2> QED
    BY <2>2 DEF TypeOK, FSInv, TypeInv
<1>2. OneEntry
  BY DEF OneEntry, FSInv, TabOK
<1>3. Coherent
  <2> SUFFICES ASSUME NEW e \in Slots, itable[e].ref > 0, itable[e].valid
               PROVE  dinode[itable[e].inum] = [type |-> itable[e].type, nlink |-> itable[e].nlink]
    BY DEF Coherent
  <2>1. /\ itable[e].inum \in Inums /\ dinode[itable[e].inum].type = itable[e].type
        /\ dinode[itable[e].inum].nlink = itable[e].nlink
    BY DEF FSInv, TabOK
  <2>2. dinode[itable[e].inum] \in [type : Types, nlink : Nat]
    BY <2>1 DEF FSInv, TypeInv
  <2> QED
    BY <2>1, <2>2
<1>4. InUseAllocated
  <2> SUFFICES ASSUME NEW p \in Procs, NEW e \in {cwd[p], file[p]}, e # Nil
               PROVE  dinode[itable[e].inum].type # "free"
    BY DEF InUseAllocated
  <2>1. e \in Slots /\ HasGood(p, e)
    BY DEF FSInv, TypeInv, HasGood, Good
  <2> QED
    BY <2>1, GoodFacts
<1>5. LinksCovered
  <2> SUFFICES ASSUME NEW i \in Inums
               PROVE  dinode[i].nlink >= Cardinality(Entries(i)) + Cardinality(Subdirs(i))
    BY DEF LinksCovered
  <2> QED
    BY LinkFacts
<1>6. RefCount /\ NoBadPanic /\ NoFreeInode
  BY DEF FSInv, PanicInv, NoBadPanic, NoFreeInode
<1> QED
  BY <1>1, <1>2, <1>3, <1>4, <1>5, <1>6 DEF TableInv, Kept

\* The inductive invariant holds in every behaviour whose paths do not use
\* "..": however the system calls interleave, and whichever of their error
\* paths they take, references, locks, link counts and the entries of
\* directories fit together.
THEOREM Invariance ==
  ASSUME NoUp
  PROVE  Spec => []FSInv
<1>1. Init => FSInv
  BY InitFSInv
<1>2. FSInv /\ [Next]_vars => FSInv'
  BY NextFSInv
<1> QED
  BY <1>1, <1>2, PTL DEF Spec

\* One entry of the inode table per inode, ip->ref exact through every error
\* path of the calls on names, valid inodes in memory the same as on disk.
THEOREM InodeTable ==
  ASSUME NoUp
  PROVE  Spec => []TableInv
<1>1. FSInv => TableInv
  BY FSInvImplies
<1> QED
  BY <1>1, Invariance, PTL

\* What a process has open, or is its current directory, or has a name, stays
\* allocated: nlink covers the entries of directories and the subdirectories
\* in the middle of concurrent link, unlink and create calls.
THEOREM InUseKept ==
  ASSUME NoUp
  PROVE  Spec => []Kept
<1>1. FSInv => Kept
  BY FSInvImplies
<1> QED
  BY <1>1, Invariance, PTL

\* iput() never blocks on the inode's lock with itable.lock held, and
\* unlink() never finds an entry whose inode has no link.
THEOREM NoPanicInPutOrUnlink ==
  ASSUME NoUp
  PROVE  Spec => []NoBadPanic
<1>1. FSInv => NoBadPanic
  BY FSInvImplies
<1> QED
  BY <1>1, Invariance, PTL

\* The assertion of ilock() holds: every inode that a path leads to is
\* allocated.
THEOREM LockedIsAllocated ==
  ASSUME NoUp
  PROVE  Spec => []NoFreeInode
<1>1. FSInv => NoFreeInode
  BY FSInvImplies
<1> QED
  BY <1>1, Invariance, PTL
=============================================================================
