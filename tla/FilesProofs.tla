----------------------------- MODULE FilesProofs -----------------------------
(***************************************************************************)
(* Theorems about Files, for any number of processes, files, descriptors   *)
(* and calls, and any size of a block and of an inode.                     *)
(***************************************************************************)
EXTENDS Files, FiniteSetTheorems, SequenceTheorems, WellFoundedInduction, TLAPS

-----------------------------------------------------------------------------
(***************************************************************************)
(* Numbers.                                                                *)
(***************************************************************************)

\* The sizes are positive.
LEMMA Sizes ==
  /\ NFILE \in Nat \ {0} /\ NOFILE \in Nat \ {0} /\ BPB \in Nat \ {0} /\ BSIZE \in Nat \ {0}
  /\ NDIRECT \in Nat \ {0} /\ NINDIRECT \in Nat \ {0} /\ NBLOCKS \in Nat
  /\ MAXFILE \in Nat \ {0} /\ MAXFILE = NDIRECT + NINDIRECT
  /\ MAXFILE * BSIZE \in Nat
<1>1. /\ NFILE \in Nat \ {0} /\ NOFILE \in Nat \ {0} /\ BPB \in Nat \ {0} /\ BSIZE \in Nat \ {0}
      /\ NDIRECT \in Nat \ {0} /\ NINDIRECT \in Nat \ {0} /\ NBLOCKS \in Nat
  BY SizesAssumption
<1>2. MAXFILE \in Nat \ {0} /\ MAXFILE = NDIRECT + NINDIRECT
  BY <1>1 DEF MAXFILE
<1> QED
  BY <1>1, <1>2

\* The most bytes a transaction of filewrite() writes are a number.
LEMMA MaxChunkNat == filewrite_max \in Nat
<1> DEFINE k == (MAXOPBLOCKS - 1 - 1 - 2) \div 2
<1>1. k \in Nat
  BY SizesAssumption
<1> HIDE DEF k
<1>2. k * BSIZE \in Nat
  BY <1>1, Sizes
<1> QED
  BY <1>2 DEF filewrite_max, k

\* A set of natural numbers has a least element, which is its Min.
LEMMA Least ==
  ASSUME NEW T, T \subseteq Nat, T # {}
  PROVE  Min(T) \in T /\ \A y \in T : Min(T) <= y
<1> DEFINE R == OpToRel(<, Nat)
<1>1. IsWellFoundedOn(R, Nat)
  BY NatLessThanWellFounded
<1>2. \A a, b \in Nat : a < b => <<a, b>> \in R
  BY DEF OpToRel
<1> HIDE DEF R
<1>3. PICK x \in T : \A y \in T : ~(<<y, x>> \in R)
  BY <1>1, WFMin, Zenon
<1>4. ASSUME NEW y \in T PROVE x <= y
  <2>1. x \in Nat /\ y \in Nat /\ <<y, x>> \notin R
    BY <1>3
  <2>2. ~(y < x)
    BY <1>2, <2>1, Zenon
  <2> QED
    BY <2>1, <2>2
<1> QED
  BY <1>3, <1>4 DEF Min

\* The smaller and the larger of two numbers.
LEMMA MinMax ==
  ASSUME NEW a \in Int, NEW b \in Int
  PROVE  /\ Min({a, b}) = IF a <= b THEN a ELSE b
         /\ Max({a, b}) = IF a >= b THEN a ELSE b
BY DEF Min, Max

\* Quotient and remainder of a byte's number by the size of a block.
LEMMA DivMod ==
  ASSUME NEW o \in Nat
  PROVE  /\ o \div BSIZE \in Nat /\ o % BSIZE \in 0..(BSIZE - 1)
         /\ o = (o \div BSIZE) * BSIZE + (o % BSIZE)
<1>1. BSIZE \in Nat \ {0}
  BY Sizes
<1>2. /\ o \div BSIZE \in Int /\ o % BSIZE \in 0..(BSIZE - 1)
      /\ o = (o \div BSIZE) * BSIZE + (o % BSIZE)
  BY <1>1
<1> DEFINE d == o \div BSIZE
<1>3. d >= 0
  <2>1. SUFFICES ASSUME d <= -1 PROVE FALSE
    BY <1>2
  <2>2. d * BSIZE <= -BSIZE
    BY <1>1, <1>2, <2>1
  <2> QED
    BY <1>1, <1>2, <2>2
<1> QED
  BY <1>2, <1>3

\* A byte that fits a file has an entry, which is not the indirect block.
LEMMA EntryIn ==
  ASSUME NEW o \in Nat, o < MAXFILE * BSIZE
  PROVE  EntryOf(o) \in Entries /\ EntryOf(o) # NDIRECT
<1> DEFINE d == o \div BSIZE
<1>1. d \in Nat /\ d * BSIZE <= o
  BY DivMod, Sizes
<1> HIDE DEF d
<1>2. d < MAXFILE
  <2>1. SUFFICES ASSUME d >= MAXFILE PROVE FALSE
    BY <1>1, Sizes
  <2>2. d * BSIZE >= MAXFILE * BSIZE
    BY <1>1, <2>1, Sizes
  <2> QED
    BY <1>1, <2>2, Sizes
<1>3. EntryOf(o) = IF d < NDIRECT THEN d ELSE d + 1
  BY DEF EntryOf, d
<1> QED
  BY <1>1, <1>2, <1>3, Sizes DEF Entries

\* The bytes from o to the end of its block have one entry.
LEMMA SameBlock ==
  ASSUME NEW o \in Nat, NEW x \in Nat, o <= x, x < o + (BSIZE - (o % BSIZE))
  PROVE  EntryOf(x) = EntryOf(o)
<1> DEFINE d == o \div BSIZE
           e == x \div BSIZE
<1>1. d \in Nat /\ o % BSIZE \in 0..(BSIZE - 1) /\ o = d * BSIZE + (o % BSIZE)
  BY DivMod
<1>2. e \in Nat /\ x % BSIZE \in 0..(BSIZE - 1) /\ x = e * BSIZE + (x % BSIZE)
  BY DivMod
<1>3. BSIZE \in Nat \ {0}
  BY Sizes
<1>4. (e - d) * BSIZE = (o % BSIZE) + (x - o) - (x % BSIZE)
  BY <1>1, <1>2, <1>3
<1>5. (e - d) * BSIZE < BSIZE /\ (e - d) * BSIZE > -BSIZE
  BY <1>1, <1>2, <1>3, <1>4
<1> HIDE DEF d, e
<1>6. e - d < 1
  <2>1. SUFFICES ASSUME e - d >= 1 PROVE FALSE
    BY <1>1, <1>2
  <2>2. (e - d) * BSIZE >= BSIZE
    BY <1>1, <1>2, <1>3, <2>1
  <2> QED
    BY <1>1, <1>2, <1>3, <1>5, <2>2
<1>7. e - d > -1
  <2>1. SUFFICES ASSUME e - d <= -1 PROVE FALSE
    BY <1>1, <1>2
  <2>2. (e - d) * BSIZE <= -BSIZE
    BY <1>1, <1>2, <1>3, <2>1
  <2> QED
    BY <1>1, <1>2, <1>3, <1>5, <2>2
<1>8. e = d
  BY <1>1, <1>2, <1>6, <1>7
<1> QED
  BY <1>8 DEF EntryOf, d, e
-----------------------------------------------------------------------------
(***************************************************************************)
(* Ownership: R says which block each place refers to, B is the bitmap.    *)
(***************************************************************************)
Own(R, B) ==
    /\ B = {R[s] : s \in DOMAIN R} \ {0}
    /\ \A s, t \in DOMAIN R : (R[s] = R[t] /\ R[s] # 0) => s = t

\* A free block is handed to a place that had none.
LEMMA OwnAdd ==
  ASSUME NEW R, NEW Q, NEW B, Own(R, B), NEW x \in DOMAIN R, R[x] = 0,
         NEW b, b \notin B, b # 0, DOMAIN Q = DOMAIN R, Q[x] = b,
         \A s \in DOMAIN R : s # x => Q[s] = R[s]
  PROVE  Own(Q, B \cup {b})
<1>1. \A s \in DOMAIN R : R[s] # b
  BY DEF Own
<1>2. B \cup {b} = {Q[s] : s \in DOMAIN Q} \ {0}
  BY DEF Own
<1>3. \A s, t \in DOMAIN Q : (Q[s] = Q[t] /\ Q[s] # 0) => s = t
  BY <1>1 DEF Own
<1> QED
  BY <1>2, <1>3 DEF Own

\* A block changes its place.
LEMMA OwnMove ==
  ASSUME NEW R, NEW Q, NEW B, Own(R, B), NEW x \in DOMAIN R, NEW y \in DOMAIN R, R[x] # 0, R[y] = 0,
         DOMAIN Q = DOMAIN R, Q[x] = 0, Q[y] = R[x],
         \A s \in DOMAIN R : s # x /\ s # y => Q[s] = R[s]
  PROVE  Own(Q, B)
<1>1. B = {Q[s] : s \in DOMAIN Q} \ {0}
  BY DEF Own
<1>2. \A s, t \in DOMAIN Q : (Q[s] = Q[t] /\ Q[s] # 0) => s = t
  BY DEF Own
<1> QED
  BY <1>1, <1>2 DEF Own

\* A block is given back.
LEMMA OwnDrop ==
  ASSUME NEW R, NEW Q, NEW B, Own(R, B), NEW x \in DOMAIN R, R[x] # 0,
         DOMAIN Q = DOMAIN R, Q[x] = 0, \A s \in DOMAIN R : s # x => Q[s] = R[s]
  PROVE  Own(Q, B \ {R[x]})
<1>1. B \ {R[x]} = {Q[s] : s \in DOMAIN Q} \ {0}
  BY DEF Own
<1>2. \A s, t \in DOMAIN Q : (Q[s] = Q[t] /\ Q[s] # 0) => s = t
  BY DEF Own
<1> QED
  BY <1>1, <1>2 DEF Own
-----------------------------------------------------------------------------
(***************************************************************************)
(* The places that refer to blocks, and what each step does to them.       *)
(***************************************************************************)
Places == (Inodes \X Entries) \cup (Procs \X {-1})
New(q) == IF Busy(q, "zero") THEN call[q].new ELSE 0

\* Everything that holds together: the blocks and the descriptors.
FilesInv == AllocInv /\ DescRefs

\* A place is an entry of an inode or a process in balloc(), not both.
LEMMA PlaceKinds ==
  /\ \A ip \in Inodes, j \in Entries : <<ip, j>> \in Places
  /\ \A q \in Procs : <<q, -1>> \in Places
  /\ \A s \in Places : \/ \E ip \in Inodes, j \in Entries : s = <<ip, j>>
                       \/ \E q \in Procs : s = <<q, -1>>
  /\ \A j \in Entries : j # -1 /\ j \in Nat
  /\ NDIRECT \in Entries
<1>1. \A j \in Entries : j # -1 /\ j \in Nat
  BY Sizes DEF Entries
<1>2. NDIRECT \in Entries
  BY Sizes DEF Entries
<1> QED
  BY <1>1, <1>2 DEF Places

\* What Refs says of each place, now and after a step.
LEMMA RefsAt ==
  /\ Refs = [s \in Places |-> Refs[s]]
  /\ \A ip \in Inodes, j \in Entries : Refs[<<ip, j>>] = Ref(ip, j)
  /\ \A q \in Procs : Refs[<<q, -1>>] = New(q)
<1>1. Refs = [s \in Places |-> IF s[2] # -1 THEN Ref(s[1], s[2])
                               ELSE IF Busy(s[1], "zero") THEN call[s[1]].new ELSE 0]
  BY DEF Refs, Places
<1>2. ASSUME NEW ip \in Inodes, NEW j \in Entries PROVE Refs[<<ip, j>>] = Ref(ip, j)
  BY <1>1, PlaceKinds
<1>3. ASSUME NEW q \in Procs PROVE Refs[<<q, -1>>] = New(q)
  BY <1>1, PlaceKinds DEF New
<1>4. Refs = [s \in Places |-> Refs[s]]
  BY <1>1
<1> QED
  BY <1>2, <1>3, <1>4

\* The same for the state after a step.
LEMMA RefsNext ==
  /\ Refs' = [s \in Places |-> Refs'[s]]
  /\ \A ip \in Inodes, j \in Entries : Refs'[<<ip, j>>] = Ref(ip, j)'
  /\ \A q \in Procs : Refs'[<<q, -1>>] = New(q)'
<1>1. Refs' = [s \in Places |-> IF s[2] # -1 THEN Ref(s[1], s[2])'
                                ELSE IF Busy(s[1], "zero")' THEN call'[s[1]].new ELSE 0]
  BY DEF Refs, Places
<1>2. ASSUME NEW ip \in Inodes, NEW j \in Entries PROVE Refs'[<<ip, j>>] = Ref(ip, j)'
  BY <1>1, PlaceKinds
<1>3. ASSUME NEW q \in Procs PROVE Refs'[<<q, -1>>] = New(q)'
  BY <1>1, PlaceKinds DEF New
<1>4. Refs' = [s \in Places |-> Refs'[s]]
  BY <1>1
<1> QED
  BY <1>2, <1>3, <1>4

\* A step that changes no place leaves Refs alone.
LEMMA RefsSame ==
  ASSUME \A ip \in Inodes, j \in Entries : Ref(ip, j)' = Ref(ip, j),
         \A q \in Procs : New(q)' = New(q)
  PROVE  Refs' = Refs
<1>1. ASSUME NEW s \in Places PROVE Refs'[s] = Refs[s]
  <2>1. ASSUME NEW ip \in Inodes, NEW j \in Entries, s = <<ip, j>> PROVE Refs'[s] = Refs[s]
    BY <2>1, RefsAt, RefsNext
  <2>2. ASSUME NEW q \in Procs, s = <<q, -1>> PROVE Refs'[s] = Refs[s]
    BY <2>2, RefsAt, RefsNext
  <2> QED
    BY <2>1, <2>2, PlaceKinds, Zenon
<1> QED
  BY <1>1, RefsAt, RefsNext

\* An entry refers to a block or to none.
LEMMA RefType ==
  ASSUME TypeOK, NEW ip \in Inodes, NEW j \in Entries
  PROVE  Ref(ip, j) \in Blocks \cup {0}
<1>1. inode[ip].addrs \in [0..NDIRECT -> Blocks \cup {0}]
  BY DEF TypeOK, InodeType
<1>2. CASE j <= NDIRECT
  BY <1>1, <1>2, PlaceKinds, Sizes DEF Ref
<1>3. CASE ~(j <= NDIRECT)
  <2>1. j - NDIRECT - 1 \in 0..(NINDIRECT - 1) /\ NDIRECT \in 0..NDIRECT
    BY <1>3, Sizes DEF Entries
  <2> DEFINE ind == inode[ip].addrs[NDIRECT]
  <2>2. ind \in Blocks \cup {0}
    BY <1>1, <2>1
  <2>3. ind # 0 => block[ind].ptrs \in [0..(NINDIRECT - 1) -> Blocks \cup {0}]
    BY <2>2 DEF TypeOK, BlockType
  <2>4. Ref(ip, j) = IF ind = 0 THEN 0 ELSE block[ind].ptrs[j - NDIRECT - 1]
    BY <1>3 DEF Ref
  <2> QED
    BY <2>1, <2>2, <2>3, <2>4
<1> QED
  BY <1>2, <1>3

\* Two places do not refer to one block.
LEMMA OwnInj ==
  ASSUME BlocksOwned
  PROVE  /\ \A ip, iq \in Inodes, i, j \in Entries :
               (Ref(ip, i) = Ref(iq, j) /\ Ref(ip, i) # 0) => (ip = iq /\ i = j)
         /\ \A ip \in Inodes, i \in Entries, q \in Procs :
               (Ref(ip, i) = New(q)) => (New(q) = 0)
         /\ \A p, q \in Procs : (New(p) = New(q) /\ New(p) # 0) => p = q
         /\ \A ip \in Inodes, i \in Entries : Ref(ip, i) # 0 => Ref(ip, i) \in bitmap
<1> DEFINE R == Refs
<1>1. DOMAIN R = Places
  BY RefsAt
<1>2. /\ \A ip \in Inodes, j \in Entries : R[<<ip, j>>] = Ref(ip, j)
      /\ \A q \in Procs : R[<<q, -1>>] = New(q)
  BY RefsAt
<1>3. /\ bitmap = {R[s] : s \in Places} \ {0}
      /\ \A s, t \in Places : (R[s] = R[t] /\ R[s] # 0) => s = t
  BY <1>1 DEF BlocksOwned
<1> HIDE DEF R
<1>4. ASSUME NEW ip \in Inodes, NEW iq \in Inodes, NEW i \in Entries, NEW j \in Entries,
             Ref(ip, i) = Ref(iq, j), Ref(ip, i) # 0
      PROVE  ip = iq /\ i = j
  <2>1. <<ip, i>> \in Places /\ <<iq, j>> \in Places
    BY PlaceKinds
  <2>2. <<ip, i>> = <<iq, j>>
    BY <1>2, <1>3, <1>4, <2>1
  <2> QED
    BY <2>2
<1>5. ASSUME NEW ip \in Inodes, NEW i \in Entries, NEW q \in Procs, Ref(ip, i) = New(q)
      PROVE  New(q) = 0
  <2>1. <<ip, i>> \in Places /\ <<q, -1>> \in Places /\ i # -1
    BY PlaceKinds
  <2> QED
    BY <1>2, <1>3, <1>5, <2>1
<1>6. ASSUME NEW p \in Procs, NEW q \in Procs, New(p) = New(q), New(p) # 0
      PROVE  p = q
  <2>1. <<p, -1>> \in Places /\ <<q, -1>> \in Places
    BY PlaceKinds
  <2>2. <<p, -1>> = <<q, -1>>
    BY <1>2, <1>3, <1>6, <2>1
  <2> QED
    BY <2>2
<1>7. ASSUME NEW ip \in Inodes, NEW i \in Entries, Ref(ip, i) # 0
      PROVE  Ref(ip, i) \in bitmap
  <2>1. <<ip, i>> \in Places
    BY PlaceKinds
  <2> QED
    BY <1>2, <1>3, <1>7, <2>1
<1> QED
  BY <1>4, <1>5, <1>6, <1>7

\* The entry that bmap() fills is one of the inode, and is empty.
LEMMA MissingEmpty ==
  ASSUME TypeOK, NEW ip \in Inodes, NEW o \in Nat, o < MAXFILE * BSIZE, BlockOf(ip, o) = 0
  PROVE  /\ Missing(ip, o) \in Entries
         /\ Ref(ip, Missing(ip, o)) = 0
         /\ Missing(ip, o) > NDIRECT => Ref(ip, NDIRECT) # 0
BY EntryIn, PlaceKinds, Sizes DEF Missing, BlockOf

\* A write in progress is at a byte that fits the file, and holds the lock.
LEMMA WriteAt ==
  ASSUME TypeOK, CallsOK, NEW p \in Procs, call[p].pc \in {"map", "zero"}
  PROVE  /\ call[p].f \in Files /\ call[p].ip \in Inodes /\ lock[call[p].ip] = p
         /\ file[call[p].f].ip = call[p].ip /\ file[call[p].f].type = "INODE"
         /\ file[call[p].f].off \in Nat /\ call[p].tot \in Nat /\ call[p].n1 \in Nat
         /\ call[p].todo \in Nat /\ call[p].n1 <= call[p].todo /\ call[p].tot <= call[p].n1
         /\ file[call[p].f].off <= inode[call[p].ip].size
         /\ file[call[p].f].off + call[p].n1 <= MAXFILE * BSIZE
         /\ WriteOff(p) \in Nat /\ WriteOff(p) = file[call[p].f].off + call[p].tot
         /\ WriteOff(p) <= MAXFILE * BSIZE
         /\ call[p].tot < call[p].n1 => WriteOff(p) < MAXFILE * BSIZE
         /\ call[p] = [pc |-> call[p].pc, f |-> call[p].f, ip |-> call[p].ip, todo |-> call[p].todo,
                       n1 |-> call[p].n1, tot |-> call[p].tot, new |-> call[p].new,
                       before |-> call[p].before]
<1>1. /\ call[p].f \in Files /\ call[p].ip \in Inodes /\ call[p].todo \in Nat
      /\ file[call[p].f].ip = call[p].ip /\ file[call[p].f].type = "INODE"
      /\ call[p].n1 \in 0..call[p].todo /\ call[p].tot \in 0..call[p].n1
      /\ file[call[p].f].off <= inode[call[p].ip].size
      /\ file[call[p].f].off + call[p].n1 <= MAXFILE * BSIZE
      /\ call[p] = [pc |-> call[p].pc, f |-> call[p].f, ip |-> call[p].ip, todo |-> call[p].todo,
                    n1 |-> call[p].n1, tot |-> call[p].tot, new |-> call[p].new,
                    before |-> call[p].before]
  BY DEF CallsOK, CallOK
<1>2. lock[call[p].ip] = p
  BY <1>1 DEF CallsOK, CallOK
<1>3. file[call[p].f].off \in Nat
  BY <1>1 DEF TypeOK, BlockType, InodeType, FileType
<1> QED
  BY <1>1, <1>2, <1>3, Sizes DEF WriteOff

\* A process in bzero() has a block of its own and an entry to fill.
LEMMA ZeroAt ==
  ASSUME TypeOK, CallsOK, NEW p \in Procs, call[p].pc = "zero"
  PROVE  /\ call[p].new \in Blocks /\ call[p].new # 0 /\ New(p) = call[p].new
         /\ call[p].tot < call[p].n1
         /\ BlockOf(call[p].ip, WriteOff(p)) = 0
         /\ Missing(call[p].ip, WriteOff(p)) \in Entries
         /\ Ref(call[p].ip, Missing(call[p].ip, WriteOff(p))) = 0
         /\ Missing(call[p].ip, WriteOff(p)) > NDIRECT => Ref(call[p].ip, NDIRECT) # 0
<1>1. call[p].new \in Blocks /\ call[p].tot < call[p].n1 /\ BlockOf(call[p].ip, WriteOff(p)) = 0
  BY DEF CallsOK, CallOK, WriteOff
<1>2. call[p].new # 0 /\ New(p) = call[p].new
  BY <1>1, Sizes DEF Blocks, New, Busy
<1> QED
  BY <1>1, <1>2, WriteAt, MissingEmpty
-----------------------------------------------------------------------------
(***************************************************************************)
(* What stays as it is when a step does not touch it.                      *)
(***************************************************************************)

\* Entries change only with addrs and the contents of indirect blocks.
LEMMA RefFrame ==
  ASSUME TypeOK,
         \A ip \in Inodes : inode'[ip].addrs = inode[ip].addrs,
         \A b \in Blocks : block'[b].ptrs = block[b].ptrs
  PROVE  \A ip \in Inodes, j \in Entries : Ref(ip, j)' = Ref(ip, j)
<1> SUFFICES ASSUME NEW ip \in Inodes, NEW j \in Entries
             PROVE  Ref(ip, j)' = Ref(ip, j)
  OBVIOUS
<1>1. NDIRECT \in 0..NDIRECT
  BY Sizes
<1>2. inode[ip].addrs[NDIRECT] \in Blocks \cup {0}
  BY <1>1 DEF TypeOK, BlockType, InodeType, FileType
<1>3. inode'[ip].addrs = inode[ip].addrs
  OBVIOUS
<1> QED
  BY <1>2, <1>3 DEF Ref

\* A step that changes no place and not the bitmap keeps ownership.
LEMMA OwnedFrame ==
  ASSUME BlocksOwned, bitmap' = bitmap,
         \A ip \in Inodes, j \in Entries : Ref(ip, j)' = Ref(ip, j),
         \A q \in Procs : New(q)' = New(q)
  PROVE  BlocksOwned'
<1>1. Refs' = Refs
  BY RefsSame
<1> QED
  BY <1>1 DEF BlocksOwned

\* Bytes that have a block keep it while no entry is emptied.
LEMMA HasKept ==
  ASSUME NEW ip \in Inodes, NEW n \in Int, n <= MAXFILE * BSIZE, HasBlocks(ip, n),
         \A j \in Entries : Ref(ip, j) # 0 => Ref(ip, j)' # 0
  PROVE  HasBlocks(ip, n)'
<1> SUFFICES ASSUME NEW o \in 0..(n - 1) PROVE BlockOf(ip, o)' # 0
  BY DEF HasBlocks
<1>1. BlockOf(ip, o) # 0
  BY DEF HasBlocks
<1>2. o \in Nat /\ o < MAXFILE * BSIZE
  BY Sizes
<1>3. EntryOf(o) \in Entries
  BY <1>2, EntryIn
<1>4. Ref(ip, EntryOf(o)) # 0
  BY <1>1 DEF BlockOf
<1>5. Ref(ip, EntryOf(o))' # 0
  <2> DEFINE e == EntryOf(o)
  <2>1. e \in Entries /\ Ref(ip, e) # 0
    BY <1>3, <1>4
  <2> HIDE DEF e
  <2>2. Ref(ip, e)' # 0
    BY <2>1
  <2> QED
    BY <2>2 DEF e, EntryOf
<1> QED
  BY <1>5 DEF BlockOf

\* A file nobody works on, or whose writer does not move, stays free of holes.
LEMMA HoleFrame ==
  ASSUME TypeOK, CallsOK, NEW ip \in Inodes, NoHole(ip),
         lock'[ip] = lock[ip], inode'[ip].size = inode[ip].size,
         \A j \in Entries : Ref(ip, j) # 0 => Ref(ip, j)' # 0,
         \A q \in Procs : (lock[ip] = q /\ ~Busy(q, "trunc")) => WriteOff(q)' = WriteOff(q),
         \A q \in Procs : (lock[ip] = q /\ Busy(q, "trunc")) => Busy(q, "trunc")'
  PROVE  NoHole(ip)'
<1>1. inode[ip].size \in Nat /\ inode[ip].size <= MAXFILE * BSIZE
  BY Sizes DEF TypeOK, InodeType
<1>2. ASSUME lock'[ip] = None PROVE HasBlocks(ip, inode[ip].size)'
  <2>1. PICK n \in Int : n = inode[ip].size
    BY <1>1
  <2>2. HasBlocks(ip, n) /\ n <= MAXFILE * BSIZE
    BY <1>1, <1>2, <2>1 DEF NoHole
  <2>3. HasBlocks(ip, n)'
    BY <2>2, HasKept
  <2>4. inode'[ip].size = n
    BY <2>1
  <2> QED
    BY <2>3, <2>4 DEF HasBlocks
<1>3. ASSUME NEW q \in Procs, lock'[ip] = q, ~Busy(q, "trunc")'
      PROVE  HasBlocks(ip, Max({inode[ip].size, WriteOff(q)}))'
  <2>1. lock[ip] = q /\ ~Busy(q, "trunc") /\ WriteOff(q)' = WriteOff(q)
    BY <1>3
  <2>2. call[q].pc \in {"map", "zero"}
    BY <2>1 DEF CallsOK, CallOK, Busy
  <2>3. WriteOff(q) \in Nat /\ WriteOff(q) <= MAXFILE * BSIZE
    BY <2>2, WriteAt, Zenon
  <2>4. Max({inode[ip].size, WriteOff(q)})
          = IF inode[ip].size >= WriteOff(q) THEN inode[ip].size ELSE WriteOff(q)
    <3>1. inode[ip].size \in Int /\ WriteOff(q) \in Int
      BY <1>1, <2>3
    <3> QED
      BY <3>1, MinMax, Zenon
  <2>5. PICK n \in Int : n = Max({inode[ip].size, WriteOff(q)})
    BY <1>1, <2>3, <2>4
  <2>6. HasBlocks(ip, n) /\ n <= MAXFILE * BSIZE
    BY <1>1, <2>1, <2>3, <2>4, <2>5 DEF NoHole
  <2>7. HasBlocks(ip, n)'
    BY <2>6, HasKept
  <2>8. Max({inode[ip].size, WriteOff(q)})' = n
    BY <2>1, <2>5
  <2> QED
    BY <2>7, <2>8 DEF HasBlocks
<1> QED
  BY <1>2, <1>3 DEF NoHole

\* What a call knows stays true while nobody touches its file.
LEMMA CallFrame ==
  ASSUME NEW q \in Procs, CallOK(q), call'[q] = call[q],
         \A ip \in Inodes : lock'[ip] = q <=> lock[ip] = q,
         call[q].pc \in {"begin", "map", "zero"} =>
             /\ file'[call[q].f].type = file[call[q].f].type
             /\ file'[call[q].f].ip = file[call[q].f].ip
             /\ \E fd \in FDs : ofile'[q][fd] = call[q].f,
         call[q].pc \in {"map", "zero"} =>
             /\ file'[call[q].f].off = file[call[q].f].off
             /\ inode'[call[q].ip].size = inode[call[q].ip].size,
         call[q].pc = "zero" => BlockOf(call[q].ip, WriteOff(q))' = BlockOf(call[q].ip, WriteOff(q))
  PROVE  CallOK(q)'
<1> DEFINE c == call[q]
<1>1. c.pc \in {"user", "begin", "map", "zero", "trunc"}
  BY DEF CallOK
<1>2. c.pc \in {"begin", "map", "zero"} =>
        /\ c.f \in Files /\ c.ip \in Inodes /\ c.todo \in Nat
        /\ file'[c.f].type = "INODE" /\ file'[c.f].ip = c.ip
        /\ \E fd \in FDs : ofile'[q][fd] = c.f
  BY DEF CallOK
<1>3. c.pc \in {"map", "zero"} =>
        /\ c = [pc |-> c.pc, f |-> c.f, ip |-> c.ip, todo |-> c.todo, n1 |-> c.n1,
                tot |-> c.tot, new |-> c.new, before |-> c.before]
        /\ c.n1 \in 0..c.todo /\ c.tot \in 0..c.n1
        /\ file'[c.f].off <= inode'[c.ip].size /\ file'[c.f].off + c.n1 <= MAXFILE * BSIZE
  BY DEF CallOK
<1>4. c.pc = "zero" =>
        /\ c.tot < c.n1 /\ c.new \in Blocks
        /\ BlockOf(c.ip, file[c.f].off + c.tot)' = 0
  BY DEF CallOK, WriteOff
<1>5. c.pc = "trunc" => c.ip \in Inodes
  BY DEF CallOK
<1>6. \A ip \in Inodes : lock'[ip] = q <=> (c.pc \in {"map", "zero", "trunc"} /\ c.ip = ip)
  BY DEF CallOK
<1>7. call'[q] = c
  OBVIOUS
<1> QED
  BY <1>1, <1>2, <1>3, <1>4, <1>5, <1>6, <1>7 DEF CallOK

\* Descriptors and references are as before when no slot changes but for its
\* position.
LEMMA DescFrame ==
  ASSUME DescRefs, UNCHANGED <<ofile, iref, ends>>,
         \A f \in Files : /\ file'[f].ref = file[f].ref /\ file'[f].type = file[f].type
                          /\ file'[f].ip = file[f].ip /\ file'[f].writable = file[f].writable
  PROVE  DescRefs'
<1>1. \A f \in Files : {pf \in Procs \X FDs : ofile'[pf[1]][pf[2]] = f}
                       = {pf \in Procs \X FDs : ofile[pf[1]][pf[2]] = f}
  OBVIOUS
<1>2. \A ip \in Inodes :
        {f \in Files : file'[f].ref > 0 /\ file'[f].type = "INODE" /\ file'[f].ip = ip}
        = {f \in Files : file[f].ref > 0 /\ file[f].type = "INODE" /\ file[f].ip = ip}
  OBVIOUS
<1>3. {file'[f].writable : f \in {g \in Files : file'[g].ref > 0 /\ file'[g].type = "PIPE"}}
      = {file[f].writable : f \in {g \in Files : file[g].ref > 0 /\ file[g].type = "PIPE"}}
  OBVIOUS
<1>4. \A f \in Files :
        file'[f].ref = Cardinality({pf \in Procs \X FDs : ofile'[pf[1]][pf[2]] = f})
  BY <1>1 DEF DescRefs
<1>5. \A ip \in Inodes :
        iref'[ip] = Cardinality({f \in Files : file'[f].ref > 0 /\ file'[f].type = "INODE"
                                               /\ file'[f].ip = ip})
  BY <1>2 DEF DescRefs
<1>6. ends' = {file'[f].writable : f \in {g \in Files : file'[g].ref > 0 /\ file'[g].type = "PIPE"}}
  BY <1>3 DEF DescRefs
<1>7. \A f \in Files : /\ file'[f].ref = 0 <=> file'[f].type = "NONE"
                       /\ file'[f].type = "INODE" => file'[f].ip \in Inodes
  BY DEF DescRefs
<1>8. \A f, g \in Files : /\ file'[f].type = "PIPE" /\ file'[g].type = "PIPE"
                          /\ file'[f].writable = file'[g].writable
                          => f = g
  BY DEF DescRefs
<1> QED
  BY <1>4, <1>5, <1>6, <1>7, <1>8 DEF DescRefs
-----------------------------------------------------------------------------
(***************************************************************************)
(* Writing and truncating.                                                 *)
(***************************************************************************)

\* Two processes at work on one file are one process.
LEMMA OneHolder ==
  ASSUME CallsOK, NEW p \in Procs, NEW q \in Procs,
         call[p].pc \in {"map", "zero", "trunc"}, call[q].pc \in {"map", "zero", "trunc"},
         call[p].ip = call[q].ip
  PROVE  p = q
<1>1. call[p].ip \in Inodes
  BY DEF CallsOK, CallOK
<1>2. lock[call[p].ip] = p
  BY <1>1 DEF CallsOK, CallOK
<1>3. lock[call[p].ip] = q
  BY <1>1 DEF CallsOK, CallOK
<1> QED
  BY <1>2, <1>3

\* Who holds which lock.
LEMMA HoldsLock ==
  ASSUME CallsOK, NEW p \in Procs
  PROVE  \A ip \in Inodes : lock[ip] = p <=> (call[p].pc \in {"map", "zero", "trunc"} /\ call[p].ip = ip)
<1>1. CallOK(p)
  BY DEF CallsOK
<1> QED
  BY <1>1 DEF CallOK

\* balloc() finds a block: every block in use, or about to be, belongs to an
\* entry of an inode of its own, and the entry p is to fill is left over.
LEMMA FreeBlock ==
  ASSUME TypeOK, CallsOK, BlocksOwned, NEW p \in Procs, Writing(p),
         BlockOf(call[p].ip, WriteOff(p)) = 0
  PROVE  Blocks \ bitmap # {}
<1> DEFINE M(q) == Missing(call[q].ip, WriteOff(q))
           E == Inodes \X Entries
           e0 == <<call[p].ip, M(p)>>
           S == {s \in Places : Refs[s] # 0}
           h == [s \in S |-> IF s[2] # -1 THEN s ELSE <<call[s[1]].ip, M(s[1])>>]
<1>1. call[p].pc = "map" /\ call[p].tot < call[p].n1
  BY DEF Writing, Busy
<1>2. call[p].ip \in Inodes /\ M(p) \in Entries /\ Ref(call[p].ip, M(p)) = 0
  <2>1. call[p].pc \in {"map", "zero"}
    BY <1>1
  <2>2. call[p].ip \in Inodes /\ WriteOff(p) \in Nat /\ WriteOff(p) < MAXFILE * BSIZE
    BY <1>1, <2>1, WriteAt, Zenon
  <2> QED
    BY <2>2, MissingEmpty
<1>3. ASSUME NEW ip \in Inodes, NEW j \in Entries, <<ip, j>> \in S
      PROVE  h[<<ip, j>>] = <<ip, j>> /\ Ref(ip, j) # 0
  BY <1>3, RefsAt, PlaceKinds
<1>4. ASSUME NEW q \in Procs, <<q, -1>> \in S
      PROVE  /\ call[q].pc = "zero" /\ call[q].ip \in Inodes /\ M(q) \in Entries
             /\ h[<<q, -1>>] = <<call[q].ip, M(q)>> /\ Ref(call[q].ip, M(q)) = 0
  <2>1. h[<<q, -1>>] = <<call[q].ip, M(q)>>
    BY <1>4
  <2>2. New(q) # 0
    BY <1>4, RefsAt
  <2>3. call[q].pc = "zero"
    BY <2>2 DEF New, Busy
  <2>4. call[q].ip \in Inodes
    BY <2>3, WriteAt
  <2> QED
    BY <2>1, <2>3, <2>4, ZeroAt, Zenon
<1> DEFINE Ent(s) == \E ip \in Inodes, j \in Entries : s = <<ip, j>> /\ h[s] = <<ip, j>> /\ Ref(ip, j) # 0
           Zer(s) == \E q \in Procs : /\ s = <<q, -1>> /\ call[q].pc = "zero"
                                      /\ call[q].ip \in Inodes /\ M(q) \in Entries
                                      /\ h[s] = <<call[q].ip, M(q)>> /\ Ref(call[q].ip, M(q)) = 0
<1>5. \A s \in S : Ent(s) \/ Zer(s)
  <2> SUFFICES ASSUME NEW s \in S PROVE Ent(s) \/ Zer(s)
    OBVIOUS
  <2>1. \/ \E ip \in Inodes, j \in Entries : s = <<ip, j>>
        \/ \E q \in Procs : s = <<q, -1>>
    BY PlaceKinds
  <2>2. ASSUME NEW ip \in Inodes, NEW j \in Entries, s = <<ip, j>> PROVE Ent(s)
    BY <1>3, <2>2
  <2>3. ASSUME NEW q \in Procs, s = <<q, -1>> PROVE Zer(s)
    BY <1>4, <2>3
  <2> QED
    BY <2>1, <2>2, <2>3
<1>6. h \in [S -> E \ {e0}]
  <2>1. ASSUME NEW s \in S PROVE h[s] \in E \ {e0}
    <3>1. CASE Ent(s)
      BY <1>2, <3>1
    <3>2. CASE Zer(s)
      <4>1. PICK q \in Procs : /\ call[q].pc = "zero" /\ call[q].ip \in Inodes /\ M(q) \in Entries
                               /\ h[s] = <<call[q].ip, M(q)>>
        BY <3>2
      <4>2. call[q].ip # call[p].ip
        <5>1. ASSUME call[q].ip = call[p].ip PROVE FALSE
          <6>1. p = q
            BY <1>1, <4>1, <5>1, OneHolder
          <6> QED
            BY <1>1, <4>1, <6>1
        <5> QED
          BY <5>1
      <4> QED
        BY <4>1, <4>2
    <3> QED
      BY <1>5, <3>1, <3>2
  <2>2. h = [s \in S |-> h[s]]
    OBVIOUS
  <2> QED
    BY <2>1, <2>2
<1>7. ASSUME NEW s \in S, NEW t \in S, h[s] = h[t] PROVE s = t
  <2>1. CASE Ent(s) /\ Ent(t)
    BY <1>7, <2>1
  <2>2. CASE Ent(s) /\ Zer(t)
    BY <1>7, <2>2
  <2>3. CASE Zer(s) /\ Ent(t)
    BY <1>7, <2>3
  <2>4. CASE Zer(s) /\ Zer(t)
    <3>1. PICK q \in Procs : s = <<q, -1>> /\ call[q].pc = "zero" /\ h[s] = <<call[q].ip, M(q)>>
      BY <2>4
    <3>2. PICK r \in Procs : t = <<r, -1>> /\ call[r].pc = "zero" /\ h[t] = <<call[r].ip, M(r)>>
      BY <2>4
    <3>3. call[q].ip = call[r].ip
      BY <1>7, <3>1, <3>2
    <3>4. q = r
      BY <3>1, <3>2, <3>3, OneHolder
    <3> QED
      BY <3>1, <3>2, <3>4
  <2> QED
    BY <1>5, <2>1, <2>2, <2>3, <2>4
<1>8. h \in Injection(S, E \ {e0})
  BY <1>6, <1>7 DEF Injection, IsInjective
<1>9. /\ IsFiniteSet(E \ {e0})
      /\ Cardinality(E \ {e0}) = Cardinality(Inodes) * (MAXFILE + 1) - 1
      /\ Cardinality(Inodes) * (MAXFILE + 1) \in Nat
  <2>1. IsFiniteSet(Entries) /\ Cardinality(Entries) = MAXFILE + 1
    BY FS_Interval, Sizes DEF Entries
  <2>2. IsFiniteSet(Inodes) /\ Cardinality(Inodes) \in Nat
    BY SetsAssumption, FS_CardinalityType
  <2>3. IsFiniteSet(E) /\ Cardinality(E) = Cardinality(Inodes) * Cardinality(Entries)
    BY <2>1, <2>2, FS_Product
  <2>4. e0 \in E
    BY <1>2
  <2>5. Cardinality(Inodes) * (MAXFILE + 1) \in Nat
    BY <2>2, Sizes
  <2>6. IsFiniteSet(E \ {e0}) /\ Cardinality(E \ {e0}) = Cardinality(E) - 1
    BY <2>3, <2>4, FS_RemoveElement
  <2> QED
    BY <2>1, <2>3, <2>5, <2>6
<1>10. IsFiniteSet(S) /\ Cardinality(S) <= Cardinality(E \ {e0})
  BY <1>8, <1>9, FS_Injection
<1>11. Cardinality(bitmap) <= Cardinality(S)
  <2> DEFINE k == [s \in S |-> Refs[s]]
  <2>1. bitmap = {Refs[s] : s \in Places} \ {0}
    BY RefsAt DEF BlocksOwned
  <2>2. k \in Surjection(S, bitmap)
    BY <2>1 DEF Surjection
  <2> QED
    BY <1>10, <2>2, FS_Surjection
<1>12. IsFiniteSet(Blocks) /\ Cardinality(Blocks) = NBLOCKS
  BY FS_Interval, Sizes DEF Blocks
<1>13. IsFiniteSet(bitmap) /\ Cardinality(bitmap) \in Nat
  BY <1>12, FS_Subset, FS_CardinalityType DEF TypeOK
<1>14. Cardinality(S) \in Nat
  BY <1>10, FS_CardinalityType
<1> HIDE DEF E, e0, S, h
<1>15. Cardinality(bitmap) < NBLOCKS
  BY <1>9, <1>10, <1>11, <1>13, <1>14, DiskAssumption, Sizes
<1>16. bitmap # Blocks
  BY <1>12, <1>13, <1>15
<1> QED
  BY <1>16 DEF TypeOK

\* While p works on file x, the other files and the calls on them stay as
\* they are.
LEMMA Elsewhere ==
  ASSUME TypeOK, CallsOK, NoHoles, NEW p \in Procs, NEW x \in Inodes,
         lock[x] \in {None, p}, lock'[x] \in {None, p},
         \A ip \in Inodes : ip # x => /\ lock[ip] # p /\ lock'[ip] = lock[ip]
                                      /\ inode'[ip].size = inode[ip].size,
         \A ip \in Inodes, j \in Entries : ip # x => Ref(ip, j)' = Ref(ip, j),
         \A q \in Procs : q # p => call'[q] = call[q],
         UNCHANGED ofile,
         \A f \in Files : file'[f].type = file[f].type /\ file'[f].ip = file[f].ip,
         \A f \in Files : file[f].ip # x => file'[f].off = file[f].off
  PROVE  /\ \A q \in Procs : q # p => CallOK(q)'
         /\ \A ip \in Inodes : ip # x => NoHole(ip)'
<1>0. None \notin Procs
  BY SetsAssumption
<1>1. ASSUME NEW q \in Procs, q # p, call[q].pc \in {"map", "zero"}
      PROVE  /\ call[q].f \in Files /\ call[q].ip \in Inodes /\ call[q].ip # x /\ call'[q] = call[q]
             /\ file'[call[q].f].off = file[call[q].f].off
             /\ WriteOff(q)' = WriteOff(q) /\ WriteOff(q) \in Nat
             /\ inode'[call[q].ip].size = inode[call[q].ip].size
  <2>1. /\ call[q].f \in Files /\ call[q].ip \in Inodes /\ lock[call[q].ip] = q
        /\ file[call[q].f].ip = call[q].ip /\ WriteOff(q) \in Nat
    BY <1>1, WriteAt, Zenon
  <2>2. call[q].ip # x
    BY <1>0, <1>1, <2>1
  <2>3. file'[call[q].f].off = file[call[q].f].off /\ call'[q] = call[q]
    BY <1>1, <2>1, <2>2
  <2>4. WriteOff(q)' = WriteOff(q)
    BY <2>3 DEF WriteOff
  <2> QED
    BY <2>1, <2>2, <2>3, <2>4
<1>2. ASSUME NEW q \in Procs, q # p PROVE CallOK(q)'
  <2>1. CallOK(q) /\ call'[q] = call[q]
    BY <1>2 DEF CallsOK
  <2>2. \A ip \in Inodes : lock'[ip] = q <=> lock[ip] = q
    BY <1>0, <1>2
  <2>3. call[q].pc \in {"begin", "map", "zero"} =>
          /\ file'[call[q].f].type = file[call[q].f].type
          /\ file'[call[q].f].ip = file[call[q].f].ip
          /\ \E fd \in FDs : ofile'[q][fd] = call[q].f
    BY <2>1 DEF CallOK
  <2>4. call[q].pc = "zero" => BlockOf(call[q].ip, WriteOff(q))' = BlockOf(call[q].ip, WriteOff(q))
    <3> SUFFICES ASSUME call[q].pc = "zero"
                 PROVE  BlockOf(call[q].ip, WriteOff(q))' = BlockOf(call[q].ip, WriteOff(q))
      OBVIOUS
    <3>1. PICK ip \in Inodes, o \in Nat : ip = call[q].ip /\ o = WriteOff(q)
      BY <1>1, <1>2
    <3>2. call'[q].ip = ip /\ WriteOff(q)' = o /\ ip # x
      BY <1>1, <1>2, <3>1
    <3>3. o < MAXFILE * BSIZE
      <4>1. call[q].tot < call[q].n1
        BY <2>1 DEF CallOK
      <4> QED
        BY <3>1, <4>1, WriteAt, Zenon
    <3>4. EntryOf(o) \in Entries
      BY <3>3, EntryIn
    <3>5. PICK e \in Entries : e = EntryOf(o)
      BY <3>4
    <3>6. Ref(ip, e)' = Ref(ip, e)
      BY <3>2
    <3>7. BlockOf(ip, o)' = BlockOf(ip, o)
      BY <3>5, <3>6 DEF BlockOf, EntryOf
    <3>8. BlockOf(call[q].ip, WriteOff(q)) = BlockOf(ip, o)
      BY <3>1
    <3>9. BlockOf(call[q].ip, WriteOff(q))' = BlockOf(ip, o)'
      BY <3>2
    <3> QED
      BY <3>7, <3>8, <3>9
  <2>5. call[q].pc \in {"map", "zero"} =>
          /\ file'[call[q].f].off = file[call[q].f].off
          /\ inode'[call[q].ip].size = inode[call[q].ip].size
    BY <1>1, <1>2
  <2> QED
    BY <2>1, <2>2, <2>3, <2>4, <2>5, CallFrame
<1>3. ASSUME NEW ip \in Inodes, ip # x PROVE NoHole(ip)'
  <2>1. NoHole(ip) /\ lock'[ip] = lock[ip] /\ inode'[ip].size = inode[ip].size
    BY <1>3 DEF NoHoles
  <2>2. \A j \in Entries : Ref(ip, j) # 0 => Ref(ip, j)' # 0
    BY <1>3
  <2>3. ASSUME NEW q \in Procs, lock[ip] = q
        PROVE  /\ q # p /\ call'[q] = call[q]
               /\ ~Busy(q, "trunc") => call[q].pc \in {"map", "zero"}
    BY <1>3, <2>3 DEF CallsOK, CallOK, Busy
  <2>4. \A q \in Procs : (lock[ip] = q /\ ~Busy(q, "trunc")) => WriteOff(q)' = WriteOff(q)
    BY <1>1, <2>3
  <2>5. \A q \in Procs : (lock[ip] = q /\ Busy(q, "trunc")) => Busy(q, "trunc")'
    BY <2>3 DEF Busy
  <2> QED
    BY <2>1, <2>2, <2>4, <2>5, HoleFrame
<1> QED
  BY <1>2, <1>3

\* What a chunk of a write is: not empty, and within one block.
LEMMA Chunk ==
  ASSUME TypeOK, CallsOK, NEW p \in Procs, Writing(p)
  PROVE  /\ call[p].pc = "map" /\ WriteOff(p) \in Nat /\ WriteOff(p) < MAXFILE * BSIZE
         /\ WriteOff(p) % BSIZE \in 0..(BSIZE - 1)
         /\ ChunkLen(p) \in Nat \ {0}
         /\ ChunkLen(p) <= call[p].n1 - call[p].tot
         /\ ChunkLen(p) <= BSIZE - (WriteOff(p) % BSIZE)
<1>1. call[p].pc = "map" /\ call[p].tot < call[p].n1
  BY DEF Writing, Busy
<1>2. call[p].pc \in {"map", "zero"}
  BY <1>1
<1>3. /\ WriteOff(p) \in Nat /\ WriteOff(p) < MAXFILE * BSIZE
      /\ call[p].n1 \in Nat /\ call[p].tot \in Nat
  BY <1>1, <1>2, WriteAt, Zenon
<1>4. WriteOff(p) % BSIZE \in 0..(BSIZE - 1) /\ BSIZE \in Nat \ {0}
  BY <1>3, DivMod, Sizes
<1> DEFINE a == call[p].n1 - call[p].tot
           b == BSIZE - (WriteOff(p) % BSIZE)
<1>5. a \in Nat \ {0} /\ b \in Nat \ {0}
  BY <1>1, <1>3, <1>4
<1>6. ChunkLen(p) = Min({a, b})
  BY DEF ChunkLen
<1> HIDE DEF a, b
<1>7. Min({a, b}) = IF a <= b THEN a ELSE b
  BY <1>5, MinMax
<1>8. ChunkLen(p) \in Nat \ {0} /\ ChunkLen(p) <= a /\ ChunkLen(p) <= b
  BY <1>5, <1>6, <1>7
<1> QED
  BY <1>1, <1>3, <1>4, <1>8 DEF a, b

\* Copying into a block leaves what it would list as an indirect block.
LEMMA CopiedIs ==
  ASSUME TypeOK, NEW p \in Procs, NEW b \in Blocks, NEW m
  PROVE  /\ Copied(p, b, m) \in [Blocks -> BlockType]
         /\ \A d \in Blocks : Copied(p, b, m)[d].ptrs = block[d].ptrs
<1>1. block[b] \in BlockType /\ block \in [Blocks -> BlockType]
  BY DEF TypeOK
<1> DEFINE w == [i \in 0..(BSIZE - 1) |->
                   IF i >= (WriteOff(p) % BSIZE) /\ i < (WriteOff(p) % BSIZE) + m
                   THEN p ELSE block[b].bytes[i]]
<1>2. w \in [0..(BSIZE - 1) -> Procs \cup {0}]
  BY <1>1 DEF BlockType
<1>3. Copied(p, b, m) = [block EXCEPT ![b].bytes = w]
  BY DEF Copied
<1> HIDE DEF w
<1>4. [block[b] EXCEPT !.bytes = w] \in BlockType
  BY <1>1, <1>2 DEF BlockType
<1> QED
  BY <1>1, <1>3, <1>4 DEF BlockType

\* The parts of the invariant, for citing.
LEMMA Parts ==
  ASSUME FilesInv
  PROVE  TypeOK /\ CallsOK /\ BlocksOwned /\ NoHoles /\ NoPanic /\ DescRefs
BY DEF FilesInv, AllocInv

\* The invariant from its parts: what p's step on file x leaves to show.
LEMMA StepOn ==
  ASSUME NEW p \in Procs, NEW x \in Inodes,
         TypeOK', CallOK(p)', \A q \in Procs : q # p => CallOK(q)',
         NoHole(x)', \A ip \in Inodes : ip # x => NoHole(ip)',
         BlocksOwned', NoPanic', DescRefs'
  PROVE  FilesInv'
<1>1. CallsOK'
  BY DEF CallsOK
<1>2. NoHoles'
  BY DEF NoHoles
<1> QED
  BY <1>1, <1>2 DEF FilesInv, AllocInv

Updated(c, l, b) == [c EXCEPT !.pc = l, !.new = b]
Advanced(c, m) == [c EXCEPT !.tot = @ + m]

\* What the updates of a write's record are.
LEMMA CallUpdate ==
  ASSUME NEW c, NEW a, NEW f, NEW ip, NEW todo, NEW n1, NEW tot, NEW w, NEW h, NEW l, NEW b,
         c = [pc |-> a, f |-> f, ip |-> ip, todo |-> todo, n1 |-> n1, tot |-> tot, new |-> w, before |-> h]
  PROVE  Updated(c, l, b)
         = [pc |-> l, f |-> f, ip |-> ip, todo |-> todo, n1 |-> n1, tot |-> tot, new |-> b, before |-> h]
<1>1. \A d : d = [pc |-> l, f |-> f, ip |-> ip, todo |-> todo, n1 |-> n1, tot |-> tot, new |-> w, before |-> h]
        => [d EXCEPT !.new = b]
           = [pc |-> l, f |-> f, ip |-> ip, todo |-> todo, n1 |-> n1, tot |-> tot, new |-> b, before |-> h]
  OBVIOUS
<1>2. [c EXCEPT !.pc = l]
      = [pc |-> l, f |-> f, ip |-> ip, todo |-> todo, n1 |-> n1, tot |-> tot, new |-> w, before |-> h]
  OBVIOUS
<1>3. [c EXCEPT !.pc = l, !.new = b] = [[c EXCEPT !.pc = l] EXCEPT !.new = b]
  OBVIOUS
<1> QED
  BY <1>1, <1>2, <1>3 DEF Updated

\* The same in the form that steps cite.
LEMMA CallUpdates ==
  \A c, a, f, ip, todo, n1, tot, w, h, l, v :
      c = [pc |-> a, f |-> f, ip |-> ip, todo |-> todo, n1 |-> n1, tot |-> tot, new |-> w, before |-> h]
      => Updated(c, l, v) = [pc |-> l, f |-> f, ip |-> ip, todo |-> todo, n1 |-> n1, tot |-> tot,
                             new |-> v, before |-> h]
BY CallUpdate

\* And of the bytes it has copied.
LEMMA CallAdvances ==
  \A c, a, f, ip, todo, n1, tot, w, h, m :
      c = [pc |-> a, f |-> f, ip |-> ip, todo |-> todo, n1 |-> n1, tot |-> tot, new |-> w, before |-> h]
      => Advanced(c, m) = [pc |-> a, f |-> f, ip |-> ip, todo |-> todo, n1 |-> n1, tot |-> tot + m,
                           new |-> w, before |-> h]
BY DEF Advanced

\* A byte keeps its block while no block and no inode changes.
LEMMA BlockOfSame ==
  ASSUME UNCHANGED <<block, inode>>, NEW ip, NEW o
  PROVE  BlockOf(ip, o)' = BlockOf(ip, o)
BY DEF BlockOf, Ref, EntryOf

\* write() starts.
LEMMA Step_sys_write ==
  ASSUME FilesInv, NEW p \in Procs, NEW fd \in FDs, NEW n \in Lengths, sys_write(p, fd, n)
  PROVE  FilesInv'
<1>0. TypeOK /\ CallsOK /\ BlocksOwned /\ NoHoles /\ NoPanic /\ DescRefs
  BY Parts
<1> DEFINE f == ofile[p][fd]
           c == [pc |-> "begin", f |-> f, ip |-> file[f].ip, todo |-> n]
<1>1. /\ call[p].pc = "user" /\ f \in Files /\ file[f].type = "INODE" /\ file[f].ip \in Inodes /\ n \in Nat
      /\ call' = [call EXCEPT ![p] = c]
      /\ UNCHANGED <<bitmap, block, inode, lock, txn, file, ofile, iref, ends, err>>
  BY <1>0, SizesAssumption DEF sys_write, Busy, TypeOK, DescRefs, Goto, diskVars, fdVars
<1>2. call'[p] = c /\ call' = [q \in Procs |-> call'[q]] /\ \A q \in Procs : q # p => call'[q] = call[q]
  BY <1>0, <1>1 DEF TypeOK
<1>3. TypeOK'
  BY <1>0, <1>1, <1>2 DEF TypeOK
<1>4. CallOK(p)'
  <2>1. \A ip \in Inodes : lock'[ip] # p
    BY <1>0, <1>1, HoldsLock
  <2>2. \E e \in FDs : ofile'[p][e] = f
    BY <1>1
  <2> QED
    BY <1>1, <1>2, <2>1, <2>2 DEF CallOK
<1>5. \A ip \in Inodes, j \in Entries : Ref(ip, j)' = Ref(ip, j)
  BY <1>1 DEF Ref
<1>6. ASSUME NEW q \in Procs, q # p PROVE CallOK(q)'
  <2>1. CallOK(q) /\ call'[q] = call[q]
    BY <1>0, <1>2, <1>6 DEF CallsOK
  <2>2. call[q].pc \in {"begin", "map", "zero"} => \E e \in FDs : ofile'[q][e] = call[q].f
    BY <1>1, <2>1 DEF CallOK
  <2>3. BlockOf(call[q].ip, WriteOff(q))' = BlockOf(call[q].ip, WriteOff(q))
    <3>1. WriteOff(q)' = WriteOff(q) /\ call'[q].ip = call[q].ip
      BY <1>1, <2>1 DEF WriteOff
    <3> QED
      BY <1>1, <3>1, BlockOfSame
  <2> QED
    BY <1>1, <2>1, <2>2, <2>3, CallFrame
<1>7. \A q \in Procs : New(q)' = New(q)
  BY <1>1, <1>2 DEF New, Busy
<1>8. BlocksOwned'
  BY <1>0, <1>1, <1>5, <1>7, OwnedFrame
<1>9. ASSUME NEW ip \in Inodes PROVE NoHole(ip)'
  <2>1. \A q \in Procs : lock[ip] = q => q # p
    BY <1>0, <1>1, HoldsLock
  <2>2. \A q \in Procs : lock[ip] = q => WriteOff(q)' = WriteOff(q) /\ (Busy(q, "trunc")' = Busy(q, "trunc"))
    BY <1>1, <1>2, <2>1 DEF WriteOff, Busy
  <2> QED
    BY <1>0, <1>1, <1>5, <2>2, HoleFrame DEF NoHoles
<1>10. DescRefs'
  BY <1>0, <1>1, DescFrame
<1>11. NoPanic'
  BY <1>0, <1>1 DEF NoPanic
<1> QED
  BY <1>3, <1>4, <1>6, <1>8, <1>9, <1>10, <1>11, StepOn, SetsAssumption

\* A chunk of a write starts, or the write is refused.
LEMMA Step_write_begin ==
  ASSUME FilesInv, NEW p \in Procs, write_begin(p)
  PROVE  FilesInv'
<1>0. TypeOK /\ CallsOK /\ BlocksOwned /\ NoHoles /\ NoPanic /\ DescRefs
  BY Parts
<1> DEFINE c == call[p]
           n1 == Min({c.todo, filewrite_max})
           off == file[c.f].off
           d == [pc |-> "map", f |-> c.f, ip |-> c.ip, todo |-> c.todo,
                 n1 |-> n1, tot |-> 0, new |-> 0, before |-> Bytes(c.ip)]
           refused == off > inode[c.ip].size \/ off + n1 > MAXFILE * BSIZE
<1>1. /\ c.pc = "begin" /\ c.f \in Files /\ c.ip \in Inodes /\ c.todo \in Nat
      /\ file[c.f].type = "INODE" /\ file[c.f].ip = c.ip /\ (\E fd \in FDs : ofile[p][fd] = c.f)
      /\ off \in Nat /\ inode[c.ip].size \in Nat /\ inode[c.ip].size <= MAXFILE * BSIZE
      /\ \A ip \in Inodes : lock[ip] # p
  <2>1. c.pc = "begin" /\ CallOK(p)
    BY <1>0 DEF write_begin, Busy, CallsOK
  <2>2. /\ c.f \in Files /\ c.ip \in Inodes /\ c.todo \in Nat
        /\ file[c.f].type = "INODE" /\ file[c.f].ip = c.ip /\ (\E fd \in FDs : ofile[p][fd] = c.f)
        /\ \A ip \in Inodes : lock[ip] # p
    BY <2>1 DEF CallOK
  <2>3. off \in Nat /\ inode[c.ip].size \in 0..(MAXFILE * BSIZE)
    BY <1>0, <2>2 DEF TypeOK, FileType, InodeType
  <2> QED
    BY <2>1, <2>2, <2>3, Sizes
<1>2. /\ lock[c.ip] = None /\ UNCHANGED <<bitmap, block, inode, file, ofile, iref, ends, err>>
      /\ \/ refused /\ call' = [call EXCEPT ![p] = User] /\ lock' = lock
         \/ /\ ~refused /\ call' = [call EXCEPT ![p] = d]
            /\ lock' = [lock EXCEPT ![c.ip] = p]
  BY DEF write_begin, Goto, fdVars
<1>3. PICK x \in Inodes : x = c.ip
  BY <1>1
<1>4. /\ call' = [q \in Procs |-> call'[q]] /\ \A q \in Procs : q # p => call'[q] = call[q]
      /\ \/ refused /\ call'[p] = User /\ lock' = lock
         \/ ~refused /\ call'[p] = d /\ lock'[x] = p /\ \A ip \in Inodes : ip # x => lock'[ip] = lock[ip]
      /\ lock' \in [Inodes -> Procs \cup {None}]
  <2>1. call = [q \in Procs |-> call[q]] /\ lock \in [Inodes -> Procs \cup {None}]
    BY <1>0 DEF TypeOK
  <2>2. CASE refused /\ call' = [call EXCEPT ![p] = User] /\ lock' = lock
    BY <2>1, <2>2
  <2>3. CASE ~refused /\ call' = [call EXCEPT ![p] = d] /\ lock' = [lock EXCEPT ![c.ip] = p]
    <3> HIDE DEF d, refused
    <3> QED
      BY <1>3, <2>1, <2>3
  <2> QED
    BY <1>2, <2>2, <2>3
<1>5. n1 \in 0..c.todo
  <2>1. c.todo \in Int /\ filewrite_max \in Int /\ filewrite_max >= 0
    BY <1>1, MaxChunkNat
  <2>2. n1 = IF c.todo <= filewrite_max THEN c.todo ELSE filewrite_max
    BY <2>1, MinMax, Zenon
  <2> QED
    BY <1>1, <2>1, <2>2
<1> HIDE DEF n1
<1>6. TypeOK'
  BY <1>0, <1>2, <1>4 DEF TypeOK
<1>7. CallOK(p)'
  <2>1. CASE call'[p] = User /\ lock' = lock
    BY <1>1, <2>1 DEF CallOK, User
  <2>2. CASE ~refused /\ call'[p] = d /\ lock'[x] = p /\ \A ip \in Inodes : ip # x => lock'[ip] = lock[ip]
    <3>1. off <= inode[c.ip].size /\ off + n1 <= MAXFILE * BSIZE
      BY <1>1, <1>5, <2>2, Sizes
    <3>2. \A ip \in Inodes : lock'[ip] = p <=> c.ip = ip
      BY <1>1, <1>3, <2>2
    <3> QED
      BY <1>1, <1>2, <1>5, <2>2, <3>1, <3>2 DEF CallOK
  <2> QED
    BY <1>4, <2>1, <2>2
<1>8. \A ip \in Inodes, j \in Entries : Ref(ip, j)' = Ref(ip, j)
  BY <1>2 DEF Ref
<1>9. \A q \in Procs : New(q)' = New(q)
  BY <1>1, <1>4 DEF New, Busy, User
<1>10. BlocksOwned'
  BY <1>0, <1>2, <1>8, <1>9, OwnedFrame
<1>11. /\ \A q \in Procs : q # p => CallOK(q)'
       /\ \A ip \in Inodes : ip # x => NoHole(ip)'
  <2>1. lock[x] \in {None, p} /\ lock'[x] \in {None, p}
    BY <1>2, <1>3, <1>4
  <2>2. \A ip \in Inodes : ip # x => /\ lock[ip] # p /\ lock'[ip] = lock[ip]
                                     /\ inode'[ip].size = inode[ip].size
    BY <1>1, <1>2, <1>4
  <2> QED
    BY <1>0, <1>2, <1>4, <1>8, <2>1, <2>2, Elsewhere
<1>12. NoHole(x)'
  <2>1. PICK n \in Int : n = inode[x].size
    BY <1>1, <1>3
  <2>2. HasBlocks(x, n) /\ n <= MAXFILE * BSIZE
    BY <1>0, <1>1, <1>2, <1>3, <2>1 DEF NoHoles, NoHole
  <2>3. HasBlocks(x, n)'
    BY <1>8, <2>2, HasKept
  <2>4. inode'[x].size = n
    BY <1>2, <2>1
  <2>5. ASSUME lock'[x] = None PROVE HasBlocks(x, inode[x].size)'
    BY <2>3, <2>4 DEF HasBlocks
  <2>6. ASSUME NEW q \in Procs, lock'[x] = q PROVE HasBlocks(x, Max({inode[x].size, WriteOff(q)}))'
    <3>1. q = p /\ ~refused /\ call'[p] = d
      BY <1>2, <1>3, <1>4, <2>6, SetsAssumption
    <3>2. WriteOff(q)' = off
      BY <1>1, <1>2, <3>1 DEF WriteOff
    <3>3. off <= n /\ off \in Int
      BY <1>1, <1>3, <2>1, <3>1
    <3>4. Max({n, off}) = IF n >= off THEN n ELSE off
      BY <3>3, MinMax, Zenon
    <3>5. Max({inode[x].size, WriteOff(q)})' = n
      BY <2>4, <3>2, <3>3, <3>4
    <3> QED
      BY <2>3, <3>5 DEF HasBlocks
  <2> QED
    BY <2>5, <2>6 DEF NoHole
<1>13. DescRefs'
  BY <1>0, <1>2, DescFrame
<1>14. NoPanic'
  BY <1>0, <1>2 DEF NoPanic
<1> QED
  BY <1>6, <1>7, <1>10, <1>11, <1>12, <1>13, <1>14, StepOn

\* A block is marked for the entry to fill.
LEMMA Step_balloc ==
  ASSUME FilesInv, NEW p \in Procs, balloc(p)
  PROVE  FilesInv'
<1>0. TypeOK /\ CallsOK /\ BlocksOwned /\ NoHoles /\ NoPanic /\ DescRefs
  BY Parts
<1>1. Writing(p) /\ BlockOf(call[p].ip, WriteOff(p)) = 0
  BY DEF balloc
<1>2. PICK b \in Blocks \ bitmap : b = Min(Blocks \ bitmap)
  <2>1. Blocks \ bitmap # {}
    BY <1>0, <1>1, FreeBlock
  <2>2. Blocks \ bitmap \subseteq Nat
    BY Sizes DEF Blocks
  <2> QED
    BY <2>1, <2>2, Least
<1>3. b \in Blocks /\ b # 0 /\ b \notin bitmap
  BY <1>2, Sizes DEF Blocks
<1>4. call[p].pc = "map" /\ call[p].tot < call[p].n1 /\ call[p].pc \in {"map", "zero"}
  BY <1>1 DEF Writing, Busy
<1>5. /\ call[p].f \in Files /\ call[p].ip \in Inodes /\ lock[call[p].ip] = p
      /\ call[p] = [pc |-> call[p].pc, f |-> call[p].f, ip |-> call[p].ip, todo |-> call[p].todo,
                    n1 |-> call[p].n1, tot |-> call[p].tot, new |-> call[p].new,
                    before |-> call[p].before]
  BY <1>0, <1>4, WriteAt, Zenon
<1> DEFINE d == [pc |-> "zero", f |-> call[p].f, ip |-> call[p].ip, todo |-> call[p].todo,
                 n1 |-> call[p].n1, tot |-> call[p].tot, new |-> b, before |-> call[p].before]
<1>6. /\ bitmap' = bitmap \cup {b}
      /\ call' = [call EXCEPT ![p] = d]
      /\ UNCHANGED <<block, inode, lock, file, ofile, iref, ends, err>>
  <2>1. Updated(call[p], "zero", b) = d
    BY <1>5, CallUpdates
  <2> QED
    BY <1>2, <2>1 DEF balloc, Goto, fdVars, Updated
<1>7. call' = [q \in Procs |-> call'[q]] /\ call'[p] = d /\ \A q \in Procs : q # p => call'[q] = call[q]
  BY <1>0, <1>6 DEF TypeOK
<1>8. TypeOK'
  BY <1>0, <1>3, <1>6, <1>7 DEF TypeOK
<1>9. \A ip \in Inodes, j \in Entries : Ref(ip, j)' = Ref(ip, j)
  BY <1>6 DEF Ref
<1>10. WriteOff(p)' = WriteOff(p)
  BY <1>6, <1>7 DEF WriteOff
<1>11. CallOK(p)'
  <2>1. BlockOf(call[p].ip, WriteOff(p))' = 0
    BY <1>1, <1>6, <1>7, <1>10 DEF BlockOf, Ref, EntryOf
  <2>2. CallOK(p)
    BY <1>0 DEF CallsOK
  <2> QED
    BY <1>3, <1>4, <1>6, <1>7, <2>1, <2>2 DEF CallOK, WriteOff
<1>12. PICK x \in Inodes : x = call[p].ip
  BY <1>5
<1>13. \A ip \in Inodes : lock[ip] = p <=> ip = x
  BY <1>0, <1>4, <1>12, HoldsLock
<1>14. /\ \A q \in Procs : q # p => CallOK(q)'
       /\ \A ip \in Inodes : ip # x => NoHole(ip)'
  BY <1>0, <1>6, <1>7, <1>9, <1>13, Elsewhere
<1>15. NoHole(x)'
  <2>1. NoHole(x)
    BY <1>0 DEF NoHoles
  <2>2. \A q \in Procs : lock[x] = q => q = p
    BY <1>13
  <2>3. ~Busy(p, "trunc")
    BY <1>4 DEF Busy
  <2> QED
    BY <1>0, <1>6, <1>9, <1>10, <2>1, <2>2, <2>3, HoleFrame
<1>16. BlocksOwned'
  <2>1. New(p) = 0 /\ New(p)' = b /\ \A q \in Procs : q # p => New(q)' = New(q)
    BY <1>4, <1>7 DEF New, Busy
  <2>2. ASSUME NEW s \in Places, s # <<p, -1>> PROVE Refs'[s] = Refs[s]
    <3>1. ASSUME NEW ip \in Inodes, NEW j \in Entries, s = <<ip, j>> PROVE Refs'[s] = Refs[s]
      BY <1>9, <3>1, RefsAt, RefsNext
    <3>2. ASSUME NEW q \in Procs, s = <<q, -1>> PROVE Refs'[s] = Refs[s]
      BY <2>1, <2>2, <3>2, RefsAt, RefsNext
    <3> QED
      BY <3>1, <3>2, PlaceKinds, Zenon
  <2>3. /\ Own(Refs, bitmap) /\ Refs[<<p, -1>>] = 0 /\ Refs'[<<p, -1>>] = b
        /\ <<p, -1>> \in Places /\ DOMAIN Refs = Places /\ DOMAIN Refs' = Places
    BY <1>0, <2>1, RefsAt, RefsNext, PlaceKinds DEF BlocksOwned, Own
  <2>4. Own(Refs', bitmap \cup {b})
    BY <1>3, <2>2, <2>3, OwnAdd
  <2> QED
    BY <1>6, <2>4 DEF BlocksOwned, Own
<1>17. DescRefs'
  BY <1>0, <1>6, DescFrame
<1>18. NoPanic'
  BY <1>0, <1>6 DEF NoPanic
<1> QED
  BY <1>8, <1>11, <1>14, <1>15, <1>16, <1>17, <1>18, StepOn

SetAddr(g, x, j, v) == [g EXCEPT ![x].addrs[j] = v]
SetPtr(g, x, j, v) == [g EXCEPT ![x].ptrs[j] = v]
AddrSet(h, g, x, j, v) ==
    /\ h \in [Inodes -> InodeType] /\ \A ip \in Inodes : h[ip].size = g[ip].size
    /\ \A ip \in Inodes : ip # x => h[ip] = g[ip]
    /\ h[x].addrs[j] = v /\ \A i \in 0..NDIRECT : i # j => h[x].addrs[i] = g[x].addrs[i]
PtrSet(h, g, x, j, v) ==
    /\ h \in [Blocks -> BlockType] /\ \A d \in Blocks : d # x => h[d] = g[d]
    /\ h[x].ptrs[j] = v /\ \A i \in 0..(NINDIRECT - 1) : i # j => h[x].ptrs[i] = g[x].ptrs[i]

\* Storing into the entries of an inode.
LEMMA AddrsUpdate ==
  ASSUME NEW g \in [Inodes -> InodeType], NEW x \in Inodes, NEW j \in 0..NDIRECT, NEW v \in Blocks \cup {0}
  PROVE  AddrSet(SetAddr(g, x, j, v), g, x, j, v)
<1> DEFINE h == SetAddr(g, x, j, v)
           a == [g[x].addrs EXCEPT ![j] = v]
<1>1. g[x].addrs \in [0..NDIRECT -> Blocks \cup {0}] /\ g[x].size \in 0..(MAXFILE * BSIZE)
  BY DEF InodeType
<1>2. /\ a \in [0..NDIRECT -> Blocks \cup {0}] /\ a[j] = v
      /\ \A i \in 0..NDIRECT : i # j => a[i] = g[x].addrs[i]
  BY <1>1
<1>3. h = [g EXCEPT ![x].addrs = a]
  BY DEF SetAddr
<1> HIDE DEF a, h
<1>4. h[x].addrs = a /\ h[x].size = g[x].size /\ h[x] \in InodeType
  BY <1>1, <1>2, <1>3 DEF InodeType
<1>5. \A ip \in Inodes : ip # x => h[ip] = g[ip]
  BY <1>3
<1>6. h \in [Inodes -> InodeType]
  BY <1>3, <1>4, <1>5
<1> QED
  BY <1>2, <1>4, <1>5, <1>6 DEF h, AddrSet

\* Storing into an indirect block.
LEMMA PtrsUpdate ==
  ASSUME NEW g \in [Blocks -> BlockType], NEW x \in Blocks, NEW j \in 0..(NINDIRECT - 1),
         NEW v \in Blocks \cup {0}
  PROVE  PtrSet(SetPtr(g, x, j, v), g, x, j, v)
<1> DEFINE h == SetPtr(g, x, j, v)
           a == [g[x].ptrs EXCEPT ![j] = v]
<1>1. g[x].ptrs \in [0..(NINDIRECT - 1) -> Blocks \cup {0}] /\ g[x].bytes \in [0..(BSIZE - 1) -> Procs \cup {0}]
  BY DEF BlockType
<1>2. /\ a \in [0..(NINDIRECT - 1) -> Blocks \cup {0}] /\ a[j] = v
      /\ \A i \in 0..(NINDIRECT - 1) : i # j => a[i] = g[x].ptrs[i]
  BY <1>1
<1>3. h = [g EXCEPT ![x].ptrs = a]
  BY DEF SetPtr
<1> HIDE DEF a, h
<1>4. h[x].ptrs = a /\ h[x] \in BlockType
  BY <1>1, <1>2, <1>3 DEF BlockType
<1>5. \A d \in Blocks : d # x => h[d] = g[d]
  BY <1>3
<1>6. h \in [Blocks -> BlockType]
  BY <1>3, <1>4, <1>5
<1> QED
  BY <1>2, <1>4, <1>5, <1>6 DEF h, PtrSet

\* What bzero() and bmap() do to blocks and inodes: entry j of x refers to b.
LEMMA BzeroRefs ==
  ASSUME TypeOK, CallsOK, BlocksOwned, NEW p \in Procs, bzero(p),
         NEW x \in Inodes, x = call[p].ip, NEW b \in Blocks, b = call[p].new,
         NEW j \in Entries, j = Missing(x, WriteOff(p))
  PROVE  /\ block' \in [Blocks -> BlockType] /\ inode' \in [Inodes -> InodeType]
         /\ \A ip \in Inodes : inode'[ip].size = inode[ip].size
         /\ \A ip \in Inodes, i \in Entries :
               Ref(ip, i)' = IF ip = x /\ i = j THEN b ELSE Ref(ip, i)
<1>1. call[p].pc = "zero"
  BY DEF bzero, Busy
<1>2. New(p) = b /\ b # 0 /\ Ref(x, j) = 0 /\ (j > NDIRECT => Ref(x, NDIRECT) # 0)
  BY <1>1, ZeroAt
<1>3. \A ip \in Inodes, i \in Entries : Ref(ip, i) # b
  BY <1>2, OwnInj
<1>4. j \in Nat /\ NDIRECT \in Nat /\ NDIRECT \in Entries /\ NDIRECT \in 0..NDIRECT
  <2>1. NDIRECT \in Nat /\ NDIRECT \in 0..NDIRECT
    BY Sizes
  <2> QED
    BY <2>1, PlaceKinds, Zenon
<1> DEFINE A(ip) == inode[ip].addrs[NDIRECT]
<1>5. \A ip \in Inodes : A(ip) = Ref(ip, NDIRECT) /\ A(ip) \in Blocks \cup {0} /\ A(ip) # b
  BY <1>3, <1>4, RefType DEF Ref
<1>6. \A ip \in Inodes : (A(ip) = A(x) /\ A(ip) # 0) => ip = x
  BY <1>4, <1>5, OwnInj
<1>7. ZeroBlock \in BlockType /\ \A i \in 0..(NINDIRECT - 1) : ZeroBlock.ptrs[i] = 0
  BY DEF ZeroBlock, BlockType
<1>8. block \in [Blocks -> BlockType] /\ inode \in [Inodes -> InodeType]
  BY DEF TypeOK
<1>9. \A i \in Entries : i > NDIRECT => i - NDIRECT - 1 \in 0..(NINDIRECT - 1)
  BY Sizes DEF Entries
<1>10. \A i \in Entries : i \in Nat /\ (i <= NDIRECT => i \in 0..NDIRECT)
  BY PlaceKinds, Sizes
<1>11. \A ip \in Inodes, i \in Entries :
         Ref(ip, i) = IF i <= NDIRECT THEN inode[ip].addrs[i]
                      ELSE IF A(ip) = 0 THEN 0 ELSE block[A(ip)].ptrs[i - NDIRECT - 1]
  BY DEF Ref
<1>12. \A ip \in Inodes, i \in Entries :
         Ref(ip, i)' = IF i <= NDIRECT THEN inode'[ip].addrs[i]
                       ELSE IF inode'[ip].addrs[NDIRECT] = 0 THEN 0
                       ELSE block'[inode'[ip].addrs[NDIRECT]].ptrs[i - NDIRECT - 1]
  BY DEF Ref
<1>13. CASE j <= NDIRECT
  <2>1. /\ inode' = SetAddr(inode, x, j, b)
        /\ block' = [block EXCEPT ![b] = ZeroBlock]
    BY <1>13 DEF bzero, SetAddr
  <2>2. /\ inode' \in [Inodes -> InodeType] /\ \A ip \in Inodes : inode'[ip].size = inode[ip].size
        /\ \A ip \in Inodes : ip # x => inode'[ip] = inode[ip]
        /\ inode'[x].addrs[j] = b
        /\ \A i \in 0..NDIRECT : i # j => inode'[x].addrs[i] = inode[x].addrs[i]
    <3>1. j \in 0..NDIRECT /\ b \in Blocks \cup {0}
      BY <1>10, <1>13
    <3>2. AddrSet(inode', inode, x, j, b)
      BY <1>8, <2>1, <3>1, AddrsUpdate, Zenon
    <3> QED
      BY <3>2, Zenon DEF AddrSet
  <2>3. /\ inode'[x].addrs[j] = b
        /\ \A i \in 0..NDIRECT : i # j => inode'[x].addrs[i] = inode[x].addrs[i]
    BY <2>2
  <2>4. /\ block'[b] = ZeroBlock /\ \A d \in Blocks : d # b => block'[d] = block[d]
        /\ block' \in [Blocks -> BlockType]
    BY <1>7, <1>8, <2>1
  <2>5. ASSUME NEW ip \in Inodes, NEW i \in Entries
        PROVE  Ref(ip, i)' = IF ip = x /\ i = j THEN b ELSE Ref(ip, i)
    <3>1. CASE ip # x
      <4>1. inode'[ip] = inode[ip]
        BY <2>2, <3>1
      <4>2. A(ip) # 0 => block'[A(ip)] = block[A(ip)]
        BY <1>5, <2>4
      <4> QED
        BY <1>11, <1>12, <3>1, <4>1, <4>2
    <3>2. CASE ip = x /\ i <= NDIRECT
      <4>1. i \in 0..NDIRECT
        BY <1>10, <3>2
      <4> QED
        BY <1>11, <1>12, <2>3, <3>2, <4>1
    <3>3. CASE ip = x /\ ~(i <= NDIRECT) /\ j # NDIRECT
      <4>1. inode'[x].addrs[NDIRECT] = A(x) /\ i # j
        BY <1>4, <1>13, <2>3, <3>3
      <4>2. A(x) # 0 => block'[A(x)] = block[A(x)]
        BY <1>5, <2>4
      <4>3. Ref(x, i) = IF A(x) = 0 THEN 0 ELSE block[A(x)].ptrs[i - NDIRECT - 1]
        BY <1>11, <3>3
      <4>4. Ref(x, i)' = IF A(x) = 0 THEN 0 ELSE block'[A(x)].ptrs[i - NDIRECT - 1]
        BY <1>12, <3>3, <4>1
      <4> QED
        BY <3>3, <4>1, <4>2, <4>3, <4>4
    <3>4. CASE ip = x /\ ~(i <= NDIRECT) /\ j = NDIRECT
      <4>1. inode'[x].addrs[NDIRECT] = b /\ A(x) = 0 /\ i # j
        BY <1>2, <1>4, <1>5, <2>3, <3>4
      <4>2. i - NDIRECT - 1 \in 0..(NINDIRECT - 1)
        BY <1>4, <1>9, <1>10, <3>4
      <4>3. Ref(ip, i) = 0
        BY <1>11, <3>4, <4>1
      <4>4. Ref(ip, i)' = block'[b].ptrs[i - NDIRECT - 1]
        BY <1>2, <1>12, <3>4, <4>1
      <4> QED
        BY <1>7, <2>4, <3>4, <4>1, <4>2, <4>3, <4>4
    <3> QED
      BY <3>1, <3>2, <3>3, <3>4
  <2> QED
    BY <2>2, <2>4, <2>5
<1>14. CASE ~(j <= NDIRECT)
  <2> DEFINE k == j - NDIRECT - 1
             zeroed == [block EXCEPT ![b] = ZeroBlock]
  <2>1. k \in 0..(NINDIRECT - 1) /\ A(x) \in Blocks /\ A(x) # b /\ A(x) # 0
    BY <1>2, <1>4, <1>5, <1>9, <1>14
  <2>2. inode' = inode /\ block' = SetPtr(zeroed, A(x), k, b)
    BY <1>14 DEF bzero, SetPtr
  <2>3. /\ zeroed \in [Blocks -> BlockType] /\ zeroed[b] = ZeroBlock
        /\ \A d \in Blocks : d # b => zeroed[d] = block[d]
    BY <1>7, <1>8
  <2> HIDE DEF zeroed, k
  <2>4. /\ block' \in [Blocks -> BlockType]
        /\ \A d \in Blocks : d # A(x) => block'[d] = zeroed[d]
        /\ block'[A(x)].ptrs[k] = b
        /\ \A i \in 0..(NINDIRECT - 1) : i # k => block'[A(x)].ptrs[i] = zeroed[A(x)].ptrs[i]
    <3>1. b \in Blocks \cup {0}
      OBVIOUS
    <3>2. PtrSet(block', zeroed, A(x), k, b)
      BY <2>1, <2>2, <2>3, <3>1, PtrsUpdate, Zenon
    <3> QED
      BY <3>2, Zenon DEF PtrSet
  <2>5. /\ block'[A(x)].ptrs[k] = b
        /\ \A i \in 0..(NINDIRECT - 1) : i # k => block'[A(x)].ptrs[i] = block[A(x)].ptrs[i]
        /\ \A d \in Blocks : d # A(x) /\ d # b => block'[d] = block[d]
    BY <2>1, <2>3, <2>4
  <2>6. ASSUME NEW ip \in Inodes, NEW i \in Entries
        PROVE  Ref(ip, i)' = IF ip = x /\ i = j THEN b ELSE Ref(ip, i)
    <3>1. CASE i <= NDIRECT
      BY <1>11, <1>12, <1>14, <2>2, <3>1
    <3>2. CASE ~(i <= NDIRECT) /\ ip # x
      <4>1. A(ip) # 0 => block'[A(ip)] = block[A(ip)]
        BY <1>5, <1>6, <2>5, <3>2
      <4>2. Ref(ip, i) = IF A(ip) = 0 THEN 0 ELSE block[A(ip)].ptrs[i - NDIRECT - 1]
        BY <1>11, <3>2
      <4>3. Ref(ip, i)' = IF A(ip) = 0 THEN 0 ELSE block'[A(ip)].ptrs[i - NDIRECT - 1]
        BY <1>12, <2>2, <3>2
      <4> QED
        BY <3>2, <4>1, <4>2, <4>3
    <3>3. CASE ~(i <= NDIRECT) /\ ip = x
      <4>1. i - NDIRECT - 1 \in 0..(NINDIRECT - 1) /\ (i - NDIRECT - 1 = k <=> i = j)
        BY <1>4, <1>9, <1>10, <3>3 DEF k
      <4>2. Ref(x, i) = block[A(x)].ptrs[i - NDIRECT - 1]
        BY <1>11, <2>1, <3>3
      <4>3. Ref(x, i)' = block'[A(x)].ptrs[i - NDIRECT - 1]
        BY <1>12, <2>1, <2>2, <3>3
      <4> QED
        BY <2>5, <3>3, <4>1, <4>2, <4>3
    <3> QED
      BY <3>1, <3>2, <3>3
  <2> QED
    BY <1>8, <2>2, <2>4, <2>6
<1> QED
  BY <1>13, <1>14

\* The block is zeroed and stored.
LEMMA Step_bzero ==
  ASSUME FilesInv, NEW p \in Procs, bzero(p)
  PROVE  FilesInv'
<1>0. TypeOK /\ CallsOK /\ BlocksOwned /\ NoHoles /\ NoPanic /\ DescRefs
  BY Parts
<1>1. call[p].pc = "zero" /\ call[p].pc \in {"map", "zero"}
  BY DEF bzero, Busy
<1>2. /\ call[p].f \in Files /\ call[p].ip \in Inodes /\ lock[call[p].ip] = p
      /\ call[p] = [pc |-> call[p].pc, f |-> call[p].f, ip |-> call[p].ip, todo |-> call[p].todo,
                    n1 |-> call[p].n1, tot |-> call[p].tot, new |-> call[p].new,
                    before |-> call[p].before]
  BY <1>0, <1>1, WriteAt, Zenon
<1>3. PICK x \in Inodes : x = call[p].ip
  BY <1>2
<1>4. PICK b \in Blocks : b = call[p].new
  BY <1>0, <1>1, ZeroAt, Zenon
<1>5. PICK j \in Entries : j = Missing(x, WriteOff(p))
  BY <1>0, <1>1, <1>3, ZeroAt, Zenon
<1>6. New(p) = b /\ b # 0 /\ Ref(x, j) = 0
  BY <1>0, <1>1, <1>3, <1>4, <1>5, ZeroAt
<1> DEFINE d == [pc |-> "map", f |-> call[p].f, ip |-> call[p].ip, todo |-> call[p].todo,
                 n1 |-> call[p].n1, tot |-> call[p].tot, new |-> 0, before |-> call[p].before]
<1>7. call' = [call EXCEPT ![p] = d] /\ UNCHANGED <<bitmap, lock, file, ofile, iref, ends, err>>
  <2>1. Updated(call[p], "map", 0) = d
    BY <1>2, CallUpdates
  <2> QED
    BY <2>1 DEF bzero, Goto, fdVars, Updated
<1>8. /\ block' \in [Blocks -> BlockType] /\ inode' \in [Inodes -> InodeType]
      /\ \A ip \in Inodes : inode'[ip].size = inode[ip].size
      /\ \A ip \in Inodes, i \in Entries : Ref(ip, i)' = IF ip = x /\ i = j THEN b ELSE Ref(ip, i)
  BY <1>0, <1>3, <1>4, <1>5, BzeroRefs
<1>9. call' = [q \in Procs |-> call'[q]] /\ call'[p] = d /\ \A q \in Procs : q # p => call'[q] = call[q]
  BY <1>0, <1>7 DEF TypeOK
<1>10. TypeOK'
  BY <1>0, <1>7, <1>8, <1>9 DEF TypeOK
<1>11. WriteOff(p)' = WriteOff(p)
  BY <1>7, <1>9 DEF WriteOff
<1>12. CallOK(p)'
  <2>1. CallOK(p)
    BY <1>0 DEF CallsOK
  <2>2. inode'[call[p].ip].size = inode[call[p].ip].size
    BY <1>2, <1>8
  <2> QED
    BY <1>1, <1>7, <1>9, <2>1, <2>2 DEF CallOK
<1>13. \A ip \in Inodes : lock[ip] = p <=> ip = x
  BY <1>0, <1>1, <1>3, HoldsLock
<1>14. /\ \A q \in Procs : q # p => CallOK(q)'
       /\ \A ip \in Inodes : ip # x => NoHole(ip)'
  <2>1. \A ip \in Inodes, i \in Entries : ip # x => Ref(ip, i)' = Ref(ip, i)
    BY <1>8
  <2> QED
    BY <1>0, <1>7, <1>8, <1>9, <1>13, <2>1, Elsewhere
<1>15. NoHole(x)'
  <2>1. NoHole(x)
    BY <1>0 DEF NoHoles
  <2>2. \A q \in Procs : lock[x] = q => q = p
    BY <1>13
  <2>3. ~Busy(p, "trunc")
    BY <1>1 DEF Busy
  <2>4. \A i \in Entries : Ref(x, i) # 0 => Ref(x, i)' # 0
    BY <1>6, <1>8
  <2> QED
    BY <1>0, <1>7, <1>8, <1>11, <2>1, <2>2, <2>3, <2>4, HoleFrame
<1>16. BlocksOwned'
  <2>1. New(p)' = 0 /\ \A q \in Procs : q # p => New(q)' = New(q)
    BY <1>9 DEF New, Busy
  <2>2. ASSUME NEW s \in Places, s # <<p, -1>>, s # <<x, j>> PROVE Refs'[s] = Refs[s]
    <3>1. ASSUME NEW ip \in Inodes, NEW i \in Entries, s = <<ip, i>> PROVE Refs'[s] = Refs[s]
      <4>1. Ref(ip, i)' = Ref(ip, i)
        BY <1>8, <2>2, <3>1
      <4> QED
        BY <3>1, <4>1, RefsAt, RefsNext
    <3>2. ASSUME NEW q \in Procs, s = <<q, -1>> PROVE Refs'[s] = Refs[s]
      BY <2>1, <2>2, <3>2, RefsAt, RefsNext
    <3> QED
      BY <3>1, <3>2, PlaceKinds, Zenon
  <2>3. /\ Own(Refs, bitmap) /\ Refs[<<p, -1>>] = b /\ Refs'[<<p, -1>>] = 0
        /\ Refs[<<x, j>>] = 0 /\ Refs'[<<x, j>>] = b
        /\ <<p, -1>> \in Places /\ <<x, j>> \in Places /\ DOMAIN Refs = Places /\ DOMAIN Refs' = Places
    <3>1. Ref(x, j)' = b
      BY <1>8
    <3> QED
      BY <1>0, <1>6, <2>1, <3>1, RefsAt, RefsNext, PlaceKinds DEF BlocksOwned, Own
  <2>4. Own(Refs', bitmap)
    BY <1>6, <2>2, <2>3, OwnMove
  <2> QED
    BY <1>7, <2>4 DEF BlocksOwned, Own
<1>17. DescRefs'
  BY <1>0, <1>7, DescFrame
<1>18. NoPanic'
  BY <1>0, <1>7 DEF NoPanic
<1> QED
  BY <1>10, <1>12, <1>14, <1>15, <1>16, <1>17, <1>18, StepOn

\* A chunk is copied into its block.
LEMMA Step_write_copy ==
  ASSUME FilesInv, NEW p \in Procs, write_copy(p)
  PROVE  FilesInv'
<1>0. TypeOK /\ CallsOK /\ BlocksOwned /\ NoHoles /\ NoPanic /\ DescRefs
  BY Parts
<1>1. Writing(p) /\ BlockOf(call[p].ip, WriteOff(p)) # 0
  BY DEF write_copy
<1>2. call[p].pc = "map" /\ call[p].tot < call[p].n1 /\ call[p].pc \in {"map", "zero"}
  BY <1>1 DEF Writing, Busy
<1>3. /\ call[p].f \in Files /\ call[p].ip \in Inodes /\ lock[call[p].ip] = p
      /\ call[p].tot \in Nat /\ call[p].n1 \in Nat /\ file[call[p].f].off \in Nat
      /\ file[call[p].f].off + call[p].n1 <= MAXFILE * BSIZE
      /\ WriteOff(p) = file[call[p].f].off + call[p].tot
      /\ call[p] = [pc |-> call[p].pc, f |-> call[p].f, ip |-> call[p].ip, todo |-> call[p].todo,
                    n1 |-> call[p].n1, tot |-> call[p].tot, new |-> call[p].new,
                    before |-> call[p].before]
  BY <1>0, <1>2, WriteAt, Zenon
<1>4. PICK x \in Inodes : x = call[p].ip
  BY <1>3
<1>5. PICK m \in Nat \ {0} : m = ChunkLen(p)
  BY <1>0, <1>1, Chunk
<1>6. PICK o \in Nat : o = WriteOff(p)
  BY <1>0, <1>1, Chunk
<1>7. /\ o < MAXFILE * BSIZE /\ m <= call[p].n1 - call[p].tot /\ m <= BSIZE - (o % BSIZE)
      /\ o % BSIZE \in 0..(BSIZE - 1)
  BY <1>0, <1>1, <1>5, <1>6, Chunk
<1>8. PICK e \in Entries : e = EntryOf(o)
  BY <1>7, EntryIn
<1>9. PICK b \in Blocks : b = Ref(x, e) /\ b # 0
  <2>1. Ref(x, e) # 0
    BY <1>1, <1>4, <1>6, <1>8 DEF BlockOf
  <2>2. Ref(x, e) \in Blocks \cup {0}
    BY <1>0, RefType
  <2> QED
    BY <2>1, <2>2
<1> DEFINE d == [pc |-> call[p].pc, f |-> call[p].f, ip |-> call[p].ip, todo |-> call[p].todo,
                 n1 |-> call[p].n1, tot |-> call[p].tot + m, new |-> call[p].new, before |-> call[p].before]
<1>10. /\ call' = [call EXCEPT ![p] = d] /\ block' = Copied(p, b, m)
       /\ UNCHANGED <<bitmap, inode, lock, file, ofile, iref, ends, err>>
  <2>1. Advanced(call[p], m) = d
    BY <1>3, CallAdvances
  <2>2. BlockOf(call[p].ip, WriteOff(p)) = b
    BY <1>4, <1>6, <1>8, <1>9 DEF BlockOf
  <2> QED
    BY <1>5, <2>1, <2>2 DEF write_copy, Goto, fdVars, Advanced
<1>11. block' \in [Blocks -> BlockType] /\ \A i \in Blocks : block'[i].ptrs = block[i].ptrs
  BY <1>0, <1>10, CopiedIs
<1>12. call' = [q \in Procs |-> call'[q]] /\ call'[p] = d /\ \A q \in Procs : q # p => call'[q] = call[q]
  BY <1>0, <1>10 DEF TypeOK
<1>13. TypeOK'
  BY <1>0, <1>10, <1>11, <1>12 DEF TypeOK
<1>14. \A ip \in Inodes, i \in Entries : Ref(ip, i)' = Ref(ip, i)
  BY <1>0, <1>10, <1>11, RefFrame
<1>15. CallOK(p)'
  <2>1. CallOK(p)
    BY <1>0 DEF CallsOK
  <2>2. call[p].tot + m \in 0..call[p].n1
    BY <1>3, <1>7
  <2> QED
    BY <1>2, <1>10, <1>12, <2>1, <2>2 DEF CallOK
<1>16. \A ip \in Inodes : lock[ip] = p <=> ip = x
  BY <1>0, <1>2, <1>4, HoldsLock
<1>17. /\ \A q \in Procs : q # p => CallOK(q)'
       /\ \A ip \in Inodes : ip # x => NoHole(ip)'
  BY <1>0, <1>10, <1>12, <1>14, <1>16, Elsewhere
<1>18. NoHole(x)'
  <2>1. PICK z \in Nat : z = inode[x].size
    BY <1>0 DEF TypeOK, InodeType
  <2>2. z <= MAXFILE * BSIZE /\ inode'[x].size = z
    BY <1>0, <1>10, <2>1, Sizes DEF TypeOK, InodeType
  <2>3. PICK n \in Int : n = Max({z, o})
    BY MinMax
  <2>4. n = IF z >= o THEN z ELSE o
    <3>1. z \in Int /\ o \in Int
      OBVIOUS
    <3> QED
      BY <2>3, <3>1, MinMax, Zenon
  <2>5. HasBlocks(x, n)
    BY <1>0, <1>2, <1>6, <1>16, <2>1, <2>3 DEF NoHoles, NoHole, Busy
  <2>6. WriteOff(p)' = o + m
    BY <1>3, <1>6, <1>10, <1>12 DEF WriteOff
  <2>7. Max({z, o + m}) = IF z >= o + m THEN z ELSE o + m
    BY MinMax
  <2>8. PICK k \in Int : k = Max({z, o + m})
    BY <2>7
  <2>9. k <= MAXFILE * BSIZE
    BY <1>3, <1>6, <1>7, <2>2, <2>7, <2>8, Sizes
  <2>10. HasBlocks(x, k)
    <3> SUFFICES ASSUME NEW i \in 0..(k - 1) PROVE BlockOf(x, i) # 0
      BY DEF HasBlocks
    <3>1. CASE i < n
      BY <2>5, <3>1 DEF HasBlocks
    <3>2. CASE ~(i < n)
      <4>1. i \in Nat /\ o <= i /\ i < o + (BSIZE - (o % BSIZE))
        BY <1>7, <2>4, <2>7, <2>8, <3>2, Sizes
      <4>2. EntryOf(i) = e
        BY <1>8, <4>1, SameBlock
      <4> QED
        BY <1>9, <4>2 DEF BlockOf
    <3> QED
      BY <3>1, <3>2
  <2>11. HasBlocks(x, k)'
    BY <1>14, <2>9, <2>10, HasKept
  <2>12. ASSUME NEW q \in Procs, lock'[x] = q PROVE HasBlocks(x, Max({inode[x].size, WriteOff(q)}))'
    <3>1. q = p
      BY <1>10, <1>16, <2>12
    <3>2. Max({inode[x].size, WriteOff(q)})' = k
      BY <2>2, <2>6, <2>8, <3>1
    <3> QED
      BY <2>11, <3>2 DEF HasBlocks
  <2>13. lock'[x] # None
    BY <1>10, <1>16, SetsAssumption
  <2> QED
    BY <2>12, <2>13 DEF NoHole
<1>19. \A q \in Procs : New(q)' = New(q)
  BY <1>2, <1>12 DEF New, Busy
<1>20. BlocksOwned'
  BY <1>0, <1>10, <1>14, <1>19, OwnedFrame
<1>21. DescRefs'
  BY <1>0, <1>10, DescFrame
<1>22. NoPanic'
  BY <1>0, <1>10 DEF NoPanic
<1> QED
  BY <1>13, <1>15, <1>17, <1>18, <1>20, <1>21, <1>22, StepOn

OffSet(fl, f, v) == [fl EXCEPT ![f].off = v]

\* Only the position of a slot changes.
LEMMA OffUpdate ==
  ASSUME NEW fl \in [Files -> FileType], NEW f \in Files, NEW v \in Nat
  PROVE  /\ OffSet(fl, f, v) \in [Files -> FileType]
         /\ \A g \in Files : /\ OffSet(fl, f, v)[g].ref = fl[g].ref
                             /\ OffSet(fl, f, v)[g].type = fl[g].type
                             /\ OffSet(fl, f, v)[g].ip = fl[g].ip
                             /\ OffSet(fl, f, v)[g].writable = fl[g].writable
                             /\ g # f => OffSet(fl, f, v)[g].off = fl[g].off
<1>1. [fl[f] EXCEPT !.off = v] \in FileType
  BY DEF FileType
<1>2. \A g \in Files : OffSet(fl, f, v)[g] = IF g = f THEN [fl[f] EXCEPT !.off = v] ELSE fl[g]
  BY DEF OffSet
<1>3. fl[f] \in FileType
  OBVIOUS
<1>4. OffSet(fl, f, v) \in [Files -> FileType]
  BY <1>1 DEF OffSet
<1> QED
  BY <1>2, <1>3, <1>4 DEF FileType

\* The end of a chunk: size, position and lock.
LEMMA WriteEnd ==
  ASSUME FilesInv, NEW p \in Procs, call[p].pc = "map", writei_end(p, call[p].tot),
         UNCHANGED <<bitmap, ofile, iref, ends, err>>, block' \in [Blocks -> BlockType],
         \A i \in Blocks : block'[i].ptrs = block[i].ptrs,
         NEW d, call' = [call EXCEPT ![p] = d],
         \/ d = User
         \/ \E t \in Nat : d = [pc |-> "begin", f |-> call[p].f, ip |-> call[p].ip, todo |-> t]
  PROVE  FilesInv'
<1>0. TypeOK /\ CallsOK /\ BlocksOwned /\ NoHoles /\ NoPanic /\ DescRefs
  BY Parts
<1>1. call[p].pc \in {"map", "zero"}
  OBVIOUS
<1>2. PICK x \in Inodes : x = call[p].ip
  BY <1>0, <1>1, WriteAt, Zenon
<1>3. PICK f \in Files : f = call[p].f
  BY <1>0, <1>1, WriteAt, Zenon
<1>4. PICK t \in Nat : t = call[p].tot
  BY <1>0, <1>1, WriteAt, Zenon
<1>5. PICK o \in Nat : o = WriteOff(p)
  BY <1>0, <1>1, WriteAt, Zenon
<1>6. /\ file[f].ip = x /\ file[f].type = "INODE" /\ o = file[f].off + t /\ file[f].off \in Nat
      /\ o <= MAXFILE * BSIZE
  BY <1>0, <1>1, <1>2, <1>3, <1>4, <1>5, WriteAt
<1>7. PICK z \in Nat : z = inode[x].size
  BY <1>0 DEF TypeOK, InodeType
<1>8. z <= MAXFILE * BSIZE
  BY <1>0, <1>7, Sizes DEF TypeOK, InodeType
<1>9. Max({z, o}) = IF z >= o THEN z ELSE o
  <2>1. z \in Int /\ o \in Int
    OBVIOUS
  <2> QED
    BY <2>1, MinMax, Zenon
<1>10. PICK n \in Nat : n = Max({z, o})
  BY <1>9
<1>11. n <= MAXFILE * BSIZE /\ n \in 0..(MAXFILE * BSIZE)
  BY <1>6, <1>8, <1>9, <1>10, Sizes
<1>12. /\ inode' = [inode EXCEPT ![x].size = n]
       /\ file' = [file EXCEPT ![f].off = o]
       /\ lock' = [lock EXCEPT ![x] = None]
  BY <1>2, <1>3, <1>4, <1>6, <1>7, <1>10 DEF writei_end
<1>13. /\ inode'[x].size = n /\ \A ip \in Inodes : inode'[ip].addrs = inode[ip].addrs
       /\ \A ip \in Inodes : ip # x => inode'[ip] = inode[ip]
       /\ inode' \in [Inodes -> InodeType]
  BY <1>0, <1>11, <1>12 DEF TypeOK, InodeType
<1>14. /\ \A g \in Files : /\ file'[g].ref = file[g].ref /\ file'[g].type = file[g].type
                           /\ file'[g].ip = file[g].ip /\ file'[g].writable = file[g].writable
                           /\ g # f => file'[g].off = file[g].off
       /\ file' \in [Files -> FileType]
  <2>1. file \in [Files -> FileType]
    BY <1>0 DEF TypeOK
  <2>2. file' = OffSet(file, f, o)
    BY <1>12 DEF OffSet
  <2> QED
    BY <2>1, <2>2, OffUpdate
<1>15. /\ lock'[x] = None /\ \A ip \in Inodes : ip # x => lock'[ip] = lock[ip]
       /\ lock' \in [Inodes -> Procs \cup {None}]
  BY <1>0, <1>12 DEF TypeOK
<1>16. call' = [q \in Procs |-> call'[q]] /\ call'[p] = d /\ \A q \in Procs : q # p => call'[q] = call[q]
  BY <1>0 DEF TypeOK
<1>17. TypeOK'
  BY <1>0, <1>13, <1>14, <1>15, <1>16 DEF TypeOK
<1>18. \A ip \in Inodes, i \in Entries : Ref(ip, i)' = Ref(ip, i)
  BY <1>0, <1>13, RefFrame
<1>19. \A ip \in Inodes : lock[ip] = p <=> ip = x
  BY <1>0, <1>1, <1>2, HoldsLock
<1>20. CallOK(p)'
  <2>1. \A ip \in Inodes : lock'[ip] # p
    BY <1>15, <1>19, SetsAssumption
  <2>2. CASE d = User
    BY <1>16, <2>1, <2>2 DEF CallOK, User
  <2>3. ASSUME NEW k \in Nat, d = [pc |-> "begin", f |-> call[p].f, ip |-> call[p].ip, todo |-> k]
        PROVE  CallOK(p)'
    <3>1. \E fd \in FDs : ofile[p][fd] = f
      BY <1>0, <1>1, <1>3 DEF CallsOK, CallOK
    <3>2. call'[p].pc = "begin" /\ call'[p].f = f /\ call'[p].ip = x /\ call'[p].todo = k
      BY <1>2, <1>3, <1>16, <2>3
    <3>3. file'[f].type = "INODE" /\ file'[f].ip = x
      BY <1>6, <1>14
    <3> QED
      BY <2>1, <3>1, <3>2, <3>3 DEF CallOK
  <2> QED
    BY <2>2, <2>3
<1>21. /\ \A q \in Procs : q # p => CallOK(q)'
       /\ \A ip \in Inodes : ip # x => NoHole(ip)'
  <2>1. \A g \in Files : file[g].ip # x => file'[g].off = file[g].off
    BY <1>6, <1>14
  <2> QED
    BY <1>0, <1>13, <1>14, <1>15, <1>16, <1>18, <1>19, <2>1, Elsewhere
<1>22. NoHole(x)'
  <2>1. HasBlocks(x, n)
    BY <1>0, <1>5, <1>7, <1>10, <1>19 DEF NoHoles, NoHole, Busy
  <2>2. HasBlocks(x, n)'
    BY <1>11, <1>18, <2>1, HasKept
  <2>3. HasBlocks(x, inode[x].size)'
    BY <1>13, <2>2 DEF HasBlocks
  <2> QED
    BY <1>15, <2>3, SetsAssumption DEF NoHole
<1>23. \A q \in Procs : New(q)' = New(q)
  BY <1>16 DEF New, Busy, User
<1>24. BlocksOwned'
  BY <1>0, <1>18, <1>23, OwnedFrame
<1>25. DescRefs'
  BY <1>0, <1>14, DescFrame
<1>26. NoPanic'
  BY <1>0 DEF NoPanic
<1> QED
  BY <1>17, <1>20, <1>21, <1>22, <1>24, <1>25, <1>26, StepOn

\* The user's buffer turns out to be bad.
LEMMA Step_write_fault ==
  ASSUME FilesInv, NEW p \in Procs, write_fault(p)
  PROVE  FilesInv'
<1>0. TypeOK /\ CallsOK
  BY Parts
<1>1. Writing(p) /\ BlockOf(call[p].ip, WriteOff(p)) # 0
  BY DEF write_fault
<1>2. call[p].pc = "map" /\ call[p].pc \in {"map", "zero"}
  BY <1>1 DEF Writing, Busy
<1>3. PICK x \in Inodes : x = call[p].ip
  BY <1>0, <1>2, WriteAt, Zenon
<1>4. PICK o \in Nat : o = WriteOff(p) /\ o < MAXFILE * BSIZE
  BY <1>0, <1>1, Chunk
<1>5. PICK e \in Entries : e = EntryOf(o)
  BY <1>4, EntryIn
<1>6. PICK b \in Blocks : b = BlockOf(call[p].ip, WriteOff(p))
  <2>1. Ref(x, e) \in Blocks \cup {0}
    BY <1>0, RefType
  <2>2. BlockOf(call[p].ip, WriteOff(p)) = Ref(x, e)
    BY <1>3, <1>4, <1>5 DEF BlockOf
  <2> QED
    BY <1>1, <2>1, <2>2
<1>7. PICK m \in 0..(ChunkLen(p) - 1) : block' = Copied(p, b, m)
  BY <1>6 DEF write_fault
<1>8. block' \in [Blocks -> BlockType] /\ \A i \in Blocks : block'[i].ptrs = block[i].ptrs
  BY <1>0, <1>7, CopiedIs
<1>9. /\ writei_end(p, call[p].tot) /\ call' = [call EXCEPT ![p] = User]
      /\ UNCHANGED <<bitmap, ofile, iref, ends, err>>
  BY DEF write_fault, Goto
<1> QED
  BY <1>2, <1>8, <1>9, WriteEnd

\* A chunk is complete, and perhaps the whole write.
LEMMA Step_write_done ==
  ASSUME FilesInv, NEW p \in Procs, write_done(p)
  PROVE  FilesInv'
<1>0. TypeOK /\ CallsOK
  BY Parts
<1>1. call[p].pc = "map" /\ call[p].pc \in {"map", "zero"}
  BY DEF write_done, Busy
<1>2. call[p].todo \in Nat /\ call[p].n1 \in Nat /\ call[p].n1 <= call[p].todo
  BY <1>0, <1>1, WriteAt, Zenon
<1> DEFINE b == [pc |-> "begin", f |-> call[p].f, ip |-> call[p].ip, todo |-> call[p].todo - call[p].n1]
           d == IF call[p].todo = call[p].n1 THEN User ELSE b
<1>3. /\ writei_end(p, call[p].tot) /\ call' = [call EXCEPT ![p] = d]
      /\ UNCHANGED <<bitmap, block, ofile, iref, ends, err>>
  BY DEF write_done, Goto
<1>4. \/ d = User
      \/ \E t \in Nat : d = [pc |-> "begin", f |-> call[p].f, ip |-> call[p].ip, todo |-> t]
  <2>1. call[p].todo - call[p].n1 \in Nat
    BY <1>2
  <2> QED
    BY <2>1
<1>5. block' \in [Blocks -> BlockType] /\ \A i \in Blocks : block'[i].ptrs = block[i].ptrs
  BY <1>0, <1>3 DEF TypeOK
<1> HIDE DEF d
<1> QED
  BY <1>1, <1>3, <1>4, <1>5, WriteEnd

\* What itrunc() frees next is an entry in use, and the indirect block only
\* after everything else.
LEMMA TruncPick ==
  ASSUME NEW ip \in Inodes, Used(ip) # {}
  PROVE  /\ TruncNext(ip) \in Entries /\ Ref(ip, TruncNext(ip)) # 0
         /\ TruncNext(ip) = NDIRECT => \A i \in Entries : i # NDIRECT => Ref(ip, i) = 0
<1>1. \A i : i \in Used(ip) <=> i \in Entries /\ Ref(ip, i) # 0
  BY DEF Used
<1>2. CASE Used(ip) \ {NDIRECT} = {}
  <2>1. TruncNext(ip) = NDIRECT /\ NDIRECT \in Used(ip)
    BY <1>2 DEF TruncNext
  <2> QED
    BY <1>1, <1>2, <2>1
<1>3. CASE Used(ip) \ {NDIRECT} # {}
  <2>1. Used(ip) \ {NDIRECT} \subseteq Nat
    BY <1>1, PlaceKinds
  <2>2. TruncNext(ip) \in Used(ip) \ {NDIRECT}
    BY <1>3, <2>1, Least DEF TruncNext
  <2> QED
    BY <1>1, <2>2
<1> QED
  BY <1>2, <1>3

\* What freeing entry j of x does to the entries.
LEMMA TruncRefs ==
  ASSUME TypeOK, BlocksOwned, NEW p \in Procs, itrunc_free(p), NEW x \in Inodes, x = call[p].ip,
         NEW j \in Entries, j = TruncNext(x)
  PROVE  /\ block' \in [Blocks -> BlockType] /\ inode' \in [Inodes -> InodeType]
         /\ \A ip \in Inodes : inode'[ip].size = inode[ip].size
         /\ \A ip \in Inodes, i \in Entries :
               Ref(ip, i)' = IF ip = x /\ i = j THEN 0 ELSE Ref(ip, i)
<1>1. Used(x) # {}
  BY DEF itrunc_free
<1>2. Ref(x, j) # 0 /\ (j = NDIRECT => \A i \in Entries : i # NDIRECT => Ref(x, i) = 0)
  BY <1>1, TruncPick
<1>3. j \in Nat /\ NDIRECT \in Nat /\ NDIRECT \in Entries /\ NDIRECT \in 0..NDIRECT
  <2>1. NDIRECT \in Nat /\ NDIRECT \in 0..NDIRECT
    BY Sizes
  <2> QED
    BY <2>1, PlaceKinds, Zenon
<1> DEFINE A(ip) == inode[ip].addrs[NDIRECT]
<1>4. \A ip \in Inodes : A(ip) = Ref(ip, NDIRECT) /\ A(ip) \in Blocks \cup {0}
  BY <1>3, RefType DEF Ref
<1>5. \A ip \in Inodes : (A(ip) = A(x) /\ A(ip) # 0) => ip = x
  BY <1>3, <1>4, OwnInj
<1>6. block \in [Blocks -> BlockType] /\ inode \in [Inodes -> InodeType]
  BY DEF TypeOK
<1>7. \A i \in Entries : i > NDIRECT => i - NDIRECT - 1 \in 0..(NINDIRECT - 1)
  BY Sizes DEF Entries
<1>8. \A i \in Entries : i \in Nat /\ (i <= NDIRECT => i \in 0..NDIRECT)
  BY PlaceKinds, Sizes
<1>9. \A ip \in Inodes, i \in Entries :
        Ref(ip, i) = IF i <= NDIRECT THEN inode[ip].addrs[i]
                     ELSE IF A(ip) = 0 THEN 0 ELSE block[A(ip)].ptrs[i - NDIRECT - 1]
  BY DEF Ref
<1>10. \A ip \in Inodes, i \in Entries :
         Ref(ip, i)' = IF i <= NDIRECT THEN inode'[ip].addrs[i]
                       ELSE IF inode'[ip].addrs[NDIRECT] = 0 THEN 0
                       ELSE block'[inode'[ip].addrs[NDIRECT]].ptrs[i - NDIRECT - 1]
  BY DEF Ref
<1>11. CASE j <= NDIRECT
  <2>1. inode' = SetAddr(inode, x, j, 0) /\ block' = block
    BY <1>11 DEF itrunc_free, SetAddr
  <2>2. AddrSet(inode', inode, x, j, 0)
    <3>1. j \in 0..NDIRECT /\ 0 \in Blocks \cup {0}
      BY <1>8, <1>11
    <3> QED
      BY <1>6, <2>1, <3>1, AddrsUpdate, Zenon
  <2>3. /\ inode' \in [Inodes -> InodeType] /\ \A ip \in Inodes : inode'[ip].size = inode[ip].size
        /\ \A ip \in Inodes : ip # x => inode'[ip] = inode[ip]
        /\ inode'[x].addrs[j] = 0
        /\ \A i \in 0..NDIRECT : i # j => inode'[x].addrs[i] = inode[x].addrs[i]
    BY <2>2, Zenon DEF AddrSet
  <2>4. ASSUME NEW ip \in Inodes, NEW i \in Entries
        PROVE  Ref(ip, i)' = IF ip = x /\ i = j THEN 0 ELSE Ref(ip, i)
    <3>1. CASE ip # x
      <4>1. inode'[ip] = inode[ip]
        BY <2>3, <3>1
      <4> QED
        BY <2>1, <3>1, <4>1 DEF Ref
    <3>2. CASE ip = x /\ i <= NDIRECT
      <4>1. i \in 0..NDIRECT
        BY <1>8, <3>2
      <4> QED
        BY <1>9, <1>10, <2>3, <3>2, <4>1
    <3>3. CASE ip = x /\ ~(i <= NDIRECT) /\ j # NDIRECT
      <4>1. inode'[x].addrs[NDIRECT] = A(x) /\ i # j
        BY <1>3, <1>11, <2>3, <3>3
      <4>2. Ref(x, i) = IF A(x) = 0 THEN 0 ELSE block[A(x)].ptrs[i - NDIRECT - 1]
        BY <1>9, <3>3
      <4>3. Ref(x, i)' = IF A(x) = 0 THEN 0 ELSE block[A(x)].ptrs[i - NDIRECT - 1]
        BY <2>1, <3>3, <4>1 DEF Ref
      <4> QED
        BY <3>3, <4>1, <4>2, <4>3
    <3>4. CASE ip = x /\ ~(i <= NDIRECT) /\ j = NDIRECT
      <4>1. inode'[x].addrs[NDIRECT] = 0 /\ i # j /\ i # NDIRECT
        BY <1>3, <2>3, <3>4
      <4>2. Ref(x, i)' = 0
        BY <1>10, <3>4, <4>1
      <4>3. Ref(x, i) = 0
        BY <1>2, <3>4, <4>1
      <4> QED
        BY <3>4, <4>1, <4>2, <4>3
    <3> QED
      BY <3>1, <3>2, <3>3, <3>4
  <2> QED
    BY <1>6, <2>1, <2>3, <2>4
<1>12. CASE ~(j <= NDIRECT)
  <2> DEFINE k == j - NDIRECT - 1
  <2>1. k \in 0..(NINDIRECT - 1) /\ A(x) \in Blocks /\ A(x) # 0
    BY <1>2, <1>3, <1>4, <1>7, <1>9, <1>12
  <2>2. inode' = inode /\ block' = SetPtr(block, A(x), k, 0)
    BY <1>12 DEF itrunc_free, SetPtr
  <2> HIDE DEF k
  <2>3. PtrSet(block', block, A(x), k, 0)
    <3>1. 0 \in Blocks \cup {0}
      OBVIOUS
    <3> QED
      BY <1>6, <2>1, <2>2, <3>1, PtrsUpdate, Zenon
  <2>4. /\ block' \in [Blocks -> BlockType] /\ \A d \in Blocks : d # A(x) => block'[d] = block[d]
        /\ block'[A(x)].ptrs[k] = 0
        /\ \A i \in 0..(NINDIRECT - 1) : i # k => block'[A(x)].ptrs[i] = block[A(x)].ptrs[i]
    BY <2>3, Zenon DEF PtrSet
  <2>5. ASSUME NEW ip \in Inodes, NEW i \in Entries
        PROVE  Ref(ip, i)' = IF ip = x /\ i = j THEN 0 ELSE Ref(ip, i)
    <3>1. CASE i <= NDIRECT
      BY <1>9, <1>10, <1>12, <2>2, <3>1
    <3>2. CASE ~(i <= NDIRECT) /\ ip # x
      <4>1. A(ip) # 0 => block'[A(ip)] = block[A(ip)]
        BY <1>4, <1>5, <2>4, <3>2
      <4>2. Ref(ip, i) = IF A(ip) = 0 THEN 0 ELSE block[A(ip)].ptrs[i - NDIRECT - 1]
        BY <1>9, <3>2
      <4>3. Ref(ip, i)' = IF A(ip) = 0 THEN 0 ELSE block'[A(ip)].ptrs[i - NDIRECT - 1]
        BY <1>10, <2>2, <3>2
      <4> QED
        BY <3>2, <4>1, <4>2, <4>3
    <3>3. CASE ~(i <= NDIRECT) /\ ip = x
      <4>1. i - NDIRECT - 1 \in 0..(NINDIRECT - 1) /\ (i - NDIRECT - 1 = k <=> i = j)
        BY <1>3, <1>7, <1>8, <3>3 DEF k
      <4>2. Ref(x, i) = block[A(x)].ptrs[i - NDIRECT - 1]
        BY <1>9, <2>1, <3>3
      <4>3. Ref(x, i)' = block'[A(x)].ptrs[i - NDIRECT - 1]
        BY <1>10, <2>1, <2>2, <3>3
      <4> QED
        BY <2>4, <3>3, <4>1, <4>2, <4>3
    <3> QED
      BY <3>1, <3>2, <3>3
  <2> QED
    BY <1>6, <2>2, <2>4, <2>5
<1> QED
  BY <1>11, <1>12

\* One block is freed.
LEMMA Step_itrunc_free ==
  ASSUME FilesInv, NEW p \in Procs, itrunc_free(p)
  PROVE  FilesInv'
<1>0. TypeOK /\ CallsOK /\ BlocksOwned /\ NoHoles /\ NoPanic /\ DescRefs
  BY Parts
<1>1. call[p].pc = "trunc" /\ Used(call[p].ip) # {}
  BY DEF itrunc_free, Busy
<1>2. PICK x \in Inodes : x = call[p].ip
  BY <1>0, <1>1 DEF CallsOK, CallOK
<1>3. PICK j \in Entries : j = TruncNext(x)
  BY <1>1, <1>2, TruncPick
<1>4. Ref(x, j) # 0 /\ Ref(x, j) \in bitmap
  BY <1>0, <1>1, <1>2, <1>3, TruncPick, OwnInj
<1>5. /\ bitmap' = bitmap \ {Ref(x, j)} /\ UNCHANGED <<lock, file, ofile, iref, ends, call, err>>
  BY <1>2, <1>3, <1>4 DEF itrunc_free, fdVars
<1>6. /\ block' \in [Blocks -> BlockType] /\ inode' \in [Inodes -> InodeType]
      /\ \A ip \in Inodes : inode'[ip].size = inode[ip].size
      /\ \A ip \in Inodes, i \in Entries : Ref(ip, i)' = IF ip = x /\ i = j THEN 0 ELSE Ref(ip, i)
  BY <1>0, <1>2, <1>3, TruncRefs
<1>7. TypeOK'
  BY <1>0, <1>5, <1>6 DEF TypeOK
<1>8. CallOK(p)'
  BY <1>0, <1>1, <1>5 DEF CallsOK, CallOK
<1>9. \A ip \in Inodes : lock[ip] = p <=> ip = x
  BY <1>0, <1>1, <1>2, HoldsLock
<1>10. /\ \A q \in Procs : q # p => CallOK(q)'
       /\ \A ip \in Inodes : ip # x => NoHole(ip)'
  <2>1. \A ip \in Inodes, i \in Entries : ip # x => Ref(ip, i)' = Ref(ip, i)
    BY <1>6
  <2> QED
    BY <1>0, <1>5, <1>6, <1>9, <2>1, Elsewhere
<1>11. NoHole(x)'
  <2>1. lock'[x] = p /\ lock'[x] # None /\ Busy(p, "trunc")'
    BY <1>1, <1>5, <1>9, SetsAssumption DEF Busy
  <2> QED
    BY <2>1 DEF NoHole
<1>12. BlocksOwned'
  <2>1. \A q \in Procs : New(q)' = New(q)
    BY <1>5 DEF New, Busy
  <2>2. ASSUME NEW s \in Places, s # <<x, j>> PROVE Refs'[s] = Refs[s]
    <3>1. ASSUME NEW ip \in Inodes, NEW i \in Entries, s = <<ip, i>> PROVE Refs'[s] = Refs[s]
      <4>1. Ref(ip, i)' = Ref(ip, i)
        BY <1>6, <2>2, <3>1
      <4> QED
        BY <3>1, <4>1, RefsAt, RefsNext
    <3>2. ASSUME NEW q \in Procs, s = <<q, -1>> PROVE Refs'[s] = Refs[s]
      BY <2>1, <3>2, RefsAt, RefsNext
    <3> QED
      BY <3>1, <3>2, PlaceKinds, Zenon
  <2>3. /\ Own(Refs, bitmap) /\ Refs[<<x, j>>] = Ref(x, j) /\ Refs'[<<x, j>>] = 0
        /\ <<x, j>> \in Places /\ DOMAIN Refs = Places /\ DOMAIN Refs' = Places
    <3>1. Ref(x, j)' = 0
      BY <1>6
    <3> QED
      BY <1>0, <3>1, RefsAt, RefsNext, PlaceKinds DEF BlocksOwned, Own
  <2>4. Own(Refs', bitmap \ {Refs[<<x, j>>]})
    BY <1>4, <2>2, <2>3, OwnDrop
  <2> QED
    BY <1>5, <2>3, <2>4 DEF BlocksOwned, Own
<1>13. DescRefs'
  BY <1>0, <1>5, DescFrame
<1>14. NoPanic'
  BY <1>0, <1>5 DEF NoPanic
<1> QED
  BY <1>7, <1>8, <1>10, <1>11, <1>12, <1>13, <1>14, StepOn

\* The file is empty.
LEMMA Step_itrunc_end ==
  ASSUME FilesInv, NEW p \in Procs, itrunc_end(p)
  PROVE  FilesInv'
<1>0. TypeOK /\ CallsOK /\ BlocksOwned /\ NoHoles /\ NoPanic /\ DescRefs
  BY Parts
<1>1. call[p].pc = "trunc"
  BY DEF itrunc_end, Busy
<1>2. PICK x \in Inodes : x = call[p].ip
  BY <1>0, <1>1 DEF CallsOK, CallOK
<1>3. /\ inode' = [inode EXCEPT ![x].size = 0] /\ lock' = [lock EXCEPT ![x] = None]
      /\ call' = [call EXCEPT ![p] = User]
      /\ UNCHANGED <<bitmap, block, file, ofile, iref, ends, err>>
  BY <1>2 DEF itrunc_end, Goto, fdVars
<1>4. /\ inode'[x].size = 0 /\ \A ip \in Inodes : inode'[ip].addrs = inode[ip].addrs
      /\ \A ip \in Inodes : ip # x => inode'[ip] = inode[ip]
      /\ inode' \in [Inodes -> InodeType]
  <2>1. 0 \in 0..(MAXFILE * BSIZE)
    BY Sizes
  <2> QED
    BY <1>0, <1>3, <2>1 DEF TypeOK, InodeType
<1>5. /\ lock'[x] = None /\ \A ip \in Inodes : ip # x => lock'[ip] = lock[ip]
      /\ lock' \in [Inodes -> Procs \cup {None}]
  BY <1>0, <1>3 DEF TypeOK
<1>6. call' = [q \in Procs |-> call'[q]] /\ call'[p] = User /\ \A q \in Procs : q # p => call'[q] = call[q]
  BY <1>0, <1>3 DEF TypeOK
<1>7. TypeOK'
  BY <1>0, <1>3, <1>4, <1>5, <1>6 DEF TypeOK
<1>8. \A ip \in Inodes, i \in Entries : Ref(ip, i)' = Ref(ip, i)
  BY <1>0, <1>3, <1>4, RefFrame
<1>9. \A ip \in Inodes : lock[ip] = p <=> ip = x
  BY <1>0, <1>1, <1>2, HoldsLock
<1>10. CallOK(p)'
  <2>1. \A ip \in Inodes : lock'[ip] # p
    BY <1>5, <1>9, SetsAssumption
  <2> QED
    BY <1>6, <2>1 DEF CallOK, User
<1>11. /\ \A q \in Procs : q # p => CallOK(q)'
       /\ \A ip \in Inodes : ip # x => NoHole(ip)'
  BY <1>0, <1>3, <1>4, <1>5, <1>6, <1>8, <1>9, Elsewhere
<1>12. NoHole(x)'
  <2>1. HasBlocks(x, inode[x].size)'
    BY <1>4 DEF HasBlocks
  <2> QED
    BY <1>5, <2>1, SetsAssumption DEF NoHole
<1>13. \A q \in Procs : New(q)' = New(q)
  BY <1>1, <1>6 DEF New, Busy, User
<1>14. BlocksOwned'
  BY <1>0, <1>3, <1>8, <1>13, OwnedFrame
<1>15. DescRefs'
  BY <1>0, <1>3, DescFrame
<1>16. NoPanic'
  BY <1>0, <1>3 DEF NoPanic
<1> QED
  BY <1>7, <1>10, <1>11, <1>12, <1>14, <1>15, <1>16, StepOn

\* read() under the lock meets no hole.
LEMMA Step_sys_read ==
  ASSUME FilesInv, NEW p \in Procs, NEW fd \in FDs, NEW n \in Lengths, sys_read(p, fd, n)
  PROVE  FilesInv'
<1>0. TypeOK /\ CallsOK /\ BlocksOwned /\ NoHoles /\ NoPanic /\ DescRefs
  BY Parts
<1>1. PICK f \in Files : f = ofile[p][fd]
  <2>1. ofile[p][fd] # None
    BY DEF sys_read
  <2>2. ofile[p][fd] \in Files \cup {None}
    BY <1>0 DEF TypeOK
  <2> QED
    BY <2>1, <2>2
<1>2. PICK x \in Inodes : x = file[f].ip
  BY <1>0, <1>1 DEF sys_read, DescRefs
<1>3. PICK o \in Nat : o = file[f].off
  BY <1>0 DEF TypeOK, FileType
<1>4. PICK z \in Nat : z = inode[x].size
  BY <1>0 DEF TypeOK, InodeType
<1>5. n \in Nat
  BY SizesAssumption
<1>6. PICK r \in Nat : r = (IF o > z THEN 0 ELSE Min({n, z - o})) /\ (r > 0 => o + r <= z)
  <2>1. CASE o > z
    BY <2>1
  <2>2. CASE ~(o > z)
    <3>1. n \in Int /\ z - o \in Int /\ z - o >= 0
      BY <1>5, <2>2
    <3>2. Min({n, z - o}) = IF n <= z - o THEN n ELSE z - o
      BY <3>1, MinMax, Zenon
    <3> QED
      BY <1>5, <2>2, <3>1, <3>2
  <2> QED
    BY <2>1, <2>2
<1>7. /\ call[p].pc = "user" /\ lock[x] = None /\ file' = [file EXCEPT ![f].off = o + r]
      /\ err' = err \cup (IF \E i \in o..(o + r - 1) : BlockOf(x, i) = 0
                          THEN {"log_write outside of trans"} ELSE {})
      /\ UNCHANGED <<bitmap, block, inode, lock, ofile, iref, ends, call>>
  BY <1>1, <1>2, <1>3, <1>4, <1>6 DEF sys_read, Busy, diskVars
<1>8. HasBlocks(x, z)
  BY <1>0, <1>4, <1>7 DEF NoHoles, NoHole
<1>9. \A i \in o..(o + r - 1) : BlockOf(x, i) # 0
  <2> SUFFICES ASSUME NEW i \in o..(o + r - 1) PROVE BlockOf(x, i) # 0
    OBVIOUS
  <2>1. i \in 0..(z - 1)
    BY <1>6
  <2> QED
    BY <1>8, <2>1 DEF HasBlocks
<1>10. NoPanic'
  BY <1>0, <1>7, <1>9 DEF NoPanic
<1>11. /\ \A g \in Files : /\ file'[g].ref = file[g].ref /\ file'[g].type = file[g].type
                           /\ file'[g].ip = file[g].ip /\ file'[g].writable = file[g].writable
                           /\ g # f => file'[g].off = file[g].off
       /\ file' \in [Files -> FileType]
  <2>1. file \in [Files -> FileType] /\ o + r \in Nat
    BY <1>0 DEF TypeOK
  <2>2. file' = OffSet(file, f, o + r)
    BY <1>7 DEF OffSet
  <2> QED
    BY <2>1, <2>2, OffUpdate
<1>12. TypeOK'
  BY <1>0, <1>7, <1>11 DEF TypeOK
<1>13. \A ip \in Inodes : lock[ip] # p
  BY <1>0, <1>7 DEF CallsOK, CallOK
<1>14. CallOK(p)'
  BY <1>7, <1>13 DEF CallOK
<1>15. \A ip \in Inodes, i \in Entries : Ref(ip, i)' = Ref(ip, i)
  BY <1>7 DEF Ref
<1>16. /\ \A q \in Procs : q # p => CallOK(q)'
       /\ \A ip \in Inodes : ip # x => NoHole(ip)'
  <2>1. \A g \in Files : file[g].ip # x => file'[g].off = file[g].off
    BY <1>2, <1>11
  <2>2. lock[x] \in {None, p} /\ lock'[x] \in {None, p}
    BY <1>7
  <2>3. \A ip \in Inodes : ip # x => /\ lock[ip] # p /\ lock'[ip] = lock[ip]
                                     /\ inode'[ip].size = inode[ip].size
    BY <1>7, <1>13
  <2>4. /\ \A ip \in Inodes, j \in Entries : ip # x => Ref(ip, j)' = Ref(ip, j)
        /\ \A q \in Procs : q # p => call'[q] = call[q]
        /\ UNCHANGED ofile
        /\ \A g \in Files : file'[g].type = file[g].type /\ file'[g].ip = file[g].ip
    BY <1>7, <1>11, <1>15
  <2> QED
    BY <1>0, <2>1, <2>2, <2>3, <2>4, Elsewhere
<1>17. NoHole(x)'
  <2>1. z <= MAXFILE * BSIZE
    BY <1>0, <1>4, Sizes DEF TypeOK, InodeType
  <2>2. HasBlocks(x, z)'
    BY <1>8, <1>15, <2>1, HasKept
  <2>3. HasBlocks(x, inode[x].size)'
    BY <1>4, <1>7, <2>2 DEF HasBlocks
  <2> QED
    BY <1>7, <2>3, SetsAssumption DEF NoHole
<1>18. \A q \in Procs : New(q)' = New(q)
  BY <1>7 DEF New, Busy
<1>19. BlocksOwned'
  BY <1>0, <1>7, <1>15, <1>18, OwnedFrame
<1>20. DescRefs'
  BY <1>0, <1>7, <1>11, DescFrame
<1> QED
  BY <1>10, <1>12, <1>14, <1>16, <1>17, <1>19, <1>20, StepOn
-----------------------------------------------------------------------------
(***************************************************************************)
(* The file table as a value: fl its slots, ir the references to inodes,   *)
(* en the open pipe ends, o the descriptors.                               *)
(***************************************************************************)
Descs(o, f) == {pf \in Procs \X FDs : o[pf[1]][pf[2]] = f}
Opens(fl, ip) == {f \in Files : fl[f].ref > 0 /\ fl[f].type = "INODE" /\ fl[f].ip = ip}
PipeEnds(fl) == {fl[f].writable : f \in {g \in Files : fl[g].ref > 0 /\ fl[g].type = "PIPE"}}
Counted(fl, o) == \A f \in Files : fl[f].ref = Cardinality(Descs(o, f))
SlotsOK(fl, ir, en) ==
    /\ \A ip \in Inodes : ir[ip] = Cardinality(Opens(fl, ip))
    /\ en = PipeEnds(fl)
    /\ \A f \in Files : /\ fl[f].ref = 0 <=> fl[f].type = "NONE"
                        /\ fl[f].type = "INODE" => fl[f].ip \in Inodes
    /\ \A f, g \in Files : /\ fl[f].type = "PIPE" /\ fl[g].type = "PIPE"
                           /\ fl[f].writable = fl[g].writable
                           => f = g
MoreAt(ir, ip) == [ir EXCEPT ![ip] = ir[ip] + 1]
LessAt(ir, ip) == [ir EXCEPT ![ip] = ir[ip] - 1]
OfileType == [Procs -> [FDs -> Files \cup {None}]]

\* DescRefs is what these two say of the state, before and after a step.
LEMMA DescIs ==
  /\ DescRefs <=> (Counted(file, ofile) /\ SlotsOK(file, iref, ends))
  /\ DescRefs' <=> (Counted(file', ofile') /\ SlotsOK(file', iref', ends'))
<1>1. DescRefs <=> (Counted(file, ofile) /\ SlotsOK(file, iref, ends))
  BY Zenon DEF DescRefs, Counted, SlotsOK, Descs, Opens, PipeEnds
<1>2. DescRefs' <=> (Counted(file', ofile') /\ SlotsOK(file', iref', ends'))
  BY Zenon DEF DescRefs, Counted, SlotsOK, Descs, Opens, PipeEnds
<1> QED
  BY <1>1, <1>2

\* Slots and descriptors are finitely many.
LEMMA TableFinite ==
  /\ \A o, f : IsFiniteSet(Descs(o, f)) /\ Cardinality(Descs(o, f)) \in Nat
  /\ \A fl, ip : IsFiniteSet(Opens(fl, ip)) /\ Cardinality(Opens(fl, ip)) \in Nat
  /\ IsFiniteSet(FDs) /\ IsFiniteSet(Files)
<1>1. IsFiniteSet(FDs) /\ IsFiniteSet(Files)
  <2>1. 0 \in Int /\ 1 \in Int /\ NOFILE - 1 \in Int /\ NFILE \in Int
    BY Sizes
  <2> QED
    BY <2>1, FS_Interval, Zenon DEF FDs, Files
<1>2. IsFiniteSet(Procs \X FDs)
  BY <1>1, FS_Product, SetsAssumption
<1>3. ASSUME NEW o, NEW f PROVE IsFiniteSet(Descs(o, f)) /\ Cardinality(Descs(o, f)) \in Nat
  <2>1. Descs(o, f) \subseteq Procs \X FDs
    BY DEF Descs
  <2> QED
    BY <1>2, <2>1, FS_Subset, FS_CardinalityType
<1>4. ASSUME NEW fl, NEW ip PROVE IsFiniteSet(Opens(fl, ip)) /\ Cardinality(Opens(fl, ip)) \in Nat
  <2>1. Opens(fl, ip) \subseteq Files
    BY DEF Opens
  <2> QED
    BY <1>1, <2>1, FS_Subset, FS_CardinalityType
<1> QED
  BY <1>1, <1>3, <1>4

FdSet(o, p, fd, v) == [o EXCEPT ![p][fd] = v]

\* One descriptor changes.
LEMMA FdSetIs ==
  ASSUME NEW o \in OfileType, NEW p \in Procs, NEW fd \in FDs, NEW v \in Files \cup {None}
  PROVE  /\ FdSet(o, p, fd, v) \in OfileType
         /\ \A q \in Procs : q # p => FdSet(o, p, fd, v)[q] = o[q]
         /\ \A e \in FDs : e # fd => FdSet(o, p, fd, v)[p][e] = o[p][e]
         /\ FdSet(o, p, fd, v)[p][fd] = v
<1>1. FdSet(o, p, fd, v) = [o EXCEPT ![p] = [o[p] EXCEPT ![fd] = v]]
  BY DEF FdSet
<1>2. [o[p] EXCEPT ![fd] = v] \in [FDs -> Files \cup {None}]
  BY DEF OfileType
<1> QED
  BY <1>1, <1>2 DEF OfileType

\* The descriptors of a slot after one descriptor has changed.
LEMMA DescsSet ==
  ASSUME NEW o \in OfileType, NEW p \in Procs, NEW fd \in FDs, NEW v \in Files \cup {None},
         NEW f \in Files, o[p][fd] # v
  PROVE  Cardinality(Descs(FdSet(o, p, fd, v), f))
         = IF f = v THEN Cardinality(Descs(o, f)) + 1
           ELSE IF f = o[p][fd] THEN Cardinality(Descs(o, f)) - 1
           ELSE Cardinality(Descs(o, f))
<1> DEFINE n == FdSet(o, p, fd, v)
           x == <<p, fd>>
<1>1. \A q \in Procs, e \in FDs : n[q][e] = IF <<q, e>> = x THEN v ELSE o[q][e]
  BY FdSetIs
<1> HIDE DEF n
<1>2. x \in Procs \X FDs
  OBVIOUS
<1>3. \A y \in Procs \X FDs : y \in Descs(n, f) <=> IF y = x THEN v = f ELSE y \in Descs(o, f)
  BY <1>1 DEF Descs
<1>4. x \in Descs(o, f) <=> o[p][fd] = f
  BY <1>2 DEF Descs
<1>5. Descs(n, f) \subseteq Procs \X FDs /\ Descs(o, f) \subseteq Procs \X FDs
  BY DEF Descs
<1>6. IsFiniteSet(Descs(o, f)) /\ Cardinality(Descs(o, f)) \in Nat
  BY TableFinite
<1>7. CASE f = v
  <2>1. Descs(n, f) = Descs(o, f) \cup {x} /\ x \notin Descs(o, f)
    BY <1>2, <1>3, <1>4, <1>5, <1>7
  <2> QED
    <3>1. PICK S : S = Descs(o, f)
      OBVIOUS
    <3>2. IsFiniteSet(S) /\ Descs(n, f) = S \cup {x} /\ x \notin S
      BY <1>6, <2>1, <3>1
    <3>3. Cardinality(S \cup {x}) = Cardinality(S) + 1
      BY <3>2, FS_AddElement
    <3> QED
      BY <1>7, <3>1, <3>2, <3>3 DEF n
<1>8. CASE f # v /\ f = o[p][fd]
  <2>1. Descs(n, f) = Descs(o, f) \ {x} /\ x \in Descs(o, f)
    BY <1>2, <1>3, <1>4, <1>5, <1>8
  <2> QED
    <3>1. PICK S : S = Descs(o, f)
      OBVIOUS
    <3>2. IsFiniteSet(S) /\ Descs(n, f) = S \ {x} /\ x \in S
      BY <1>6, <2>1, <3>1
    <3>3. Cardinality(S \ {x}) = Cardinality(S) - 1
      BY <3>2, FS_RemoveElement
    <3> QED
      BY <1>8, <3>1, <3>2, <3>3 DEF n
<1>9. CASE f # v /\ f # o[p][fd]
  <2>1. Descs(n, f) = Descs(o, f)
    BY <1>2, <1>3, <1>4, <1>5, <1>9
  <2> QED
    BY <1>9, <2>1 DEF n
<1> QED
  BY <1>7, <1>8, <1>9

\* A slot with a descriptor is in use, with two it has two references.
LEMMA DescsCount ==
  ASSUME NEW o, NEW p \in Procs, NEW fd \in FDs, NEW f, o[p][fd] = f
  PROVE  /\ Cardinality(Descs(o, f)) >= 1
         /\ \A q \in Procs, e \in FDs : (q # p /\ o[q][e] = f) => Cardinality(Descs(o, f)) >= 2
<1> DEFINE D == Descs(o, f)
           x == <<p, fd>>
<1>1. IsFiniteSet(D) /\ Cardinality(D) \in Nat /\ x \in D
  <2>1. IsFiniteSet(D) /\ Cardinality(D) \in Nat
    BY TableFinite, Zenon
  <2>2. x \in D
    BY DEF Descs
  <2> QED
    BY <2>1, <2>2
<1>2. IsFiniteSet(D \ {x}) /\ Cardinality(D \ {x}) = Cardinality(D) - 1 /\ Cardinality(D \ {x}) \in Nat
  BY <1>1, FS_RemoveElement, FS_CardinalityType
<1>3. ASSUME NEW q \in Procs, NEW e \in FDs, q # p, o[q][e] = f
      PROVE  Cardinality(D) >= 2
  <2>1. <<q, e>> \in D \ {x}
    BY <1>3 DEF Descs
  <2>2. Cardinality(D \ {x}) # 0
    BY <1>2, <2>1, FS_EmptySet
  <2> QED
    BY <1>1, <1>2, <2>2
<1> QED
  BY <1>1, <1>2, <1>3

\* The slots stay in order while each keeps its kind.
LEMMA SlotsSame ==
  ASSUME NEW fl \in [Files -> FileType], NEW n \in [Files -> FileType], NEW ir, NEW en, SlotsOK(fl, ir, en),
         \A f \in Files : /\ n[f].type = fl[f].type /\ n[f].ip = fl[f].ip
                          /\ n[f].ref = 0 <=> fl[f].ref = 0
                          /\ fl[f].type = "PIPE" => n[f].writable = fl[f].writable
  PROVE  SlotsOK(n, ir, en)
<1>1. \A f \in Files : fl[f].ref \in Nat /\ n[f].ref \in Nat
  BY DEF FileType
<1>2. \A f \in Files : n[f].ref > 0 <=> fl[f].ref > 0
  BY <1>1
<1>3. \A ip : Opens(n, ip) = Opens(fl, ip)
  BY <1>2 DEF Opens
<1>4. PipeEnds(n) = PipeEnds(fl)
  BY <1>2 DEF PipeEnds
<1>5. /\ \A ip \in Inodes : ir[ip] = Cardinality(Opens(n, ip))
      /\ en = PipeEnds(n)
  BY <1>3, <1>4 DEF SlotsOK
<1>6. \A f \in Files : /\ n[f].ref = 0 <=> n[f].type = "NONE"
                       /\ n[f].type = "INODE" => n[f].ip \in Inodes
  BY DEF SlotsOK
<1>7. \A f, g \in Files : /\ n[f].type = "PIPE" /\ n[g].type = "PIPE"
                          /\ n[f].writable = n[g].writable
                          => f = g
  BY DEF SlotsOK
<1> QED
  BY <1>5, <1>6, <1>7 DEF SlotsOK

\* A free slot is opened on inode x.
LEMMA SlotOpened ==
  ASSUME NEW fl \in [Files -> FileType], NEW n \in [Files -> FileType], NEW ir \in [Inodes -> Nat], NEW en,
         SlotsOK(fl, ir, en), NEW f \in Files, fl[f].ref = 0, NEW x \in Inodes,
         n[f].ref = 1, n[f].type = "INODE", n[f].ip = x,
         \A g \in Files : g # f => n[g] = fl[g]
  PROVE  SlotsOK(n, MoreAt(ir, x), en)
<1> DEFINE jr == MoreAt(ir, x)
<1>1. \A ip \in Inodes : jr[ip] = IF ip = x THEN ir[x] + 1 ELSE ir[ip]
  BY DEF MoreAt
<1> HIDE DEF jr
<1>2. fl[f].type = "NONE"
  BY DEF SlotsOK
<1>3. Opens(n, x) = Opens(fl, x) \cup {f} /\ f \notin Opens(fl, x)
  BY <1>2 DEF Opens
<1>4. \A ip \in Inodes : ip # x => Opens(n, ip) = Opens(fl, ip)
  BY <1>2 DEF Opens
<1>5. IsFiniteSet(Opens(fl, x))
  BY TableFinite, Zenon
<1>6. Cardinality(Opens(n, x)) = Cardinality(Opens(fl, x)) + 1
  <2>1. PICK S : S = Opens(fl, x)
    OBVIOUS
  <2>2. IsFiniteSet(S) /\ Opens(n, x) = S \cup {f} /\ f \notin S
    BY <1>3, <1>5, <2>1
  <2>3. Cardinality(S \cup {f}) = Cardinality(S) + 1
    BY <2>2, FS_AddElement
  <2> QED
    BY <2>1, <2>2, <2>3
<1>7. ASSUME NEW ip \in Inodes PROVE jr[ip] = Cardinality(Opens(n, ip))
  BY <1>1, <1>4, <1>6 DEF SlotsOK
<1>8. PipeEnds(n) = PipeEnds(fl)
  BY <1>2 DEF PipeEnds
<1>9. \A g \in Files : /\ n[g].ref = 0 <=> n[g].type = "NONE"
                       /\ n[g].type = "INODE" => n[g].ip \in Inodes
  BY DEF SlotsOK
<1>10. \A g, h \in Files : /\ n[g].type = "PIPE" /\ n[h].type = "PIPE"
                           /\ n[g].writable = n[h].writable
                           => g = h
  BY DEF SlotsOK
<1>11. en = PipeEnds(n)
  BY <1>8 DEF SlotsOK
<1>12. SlotsOK(n, jr, en)
  BY <1>7, <1>9, <1>10, <1>11 DEF SlotsOK
<1> QED
  BY <1>12 DEF jr

\* The last reference to a slot of an inode goes.
LEMMA InodeClosed ==
  ASSUME NEW fl \in [Files -> FileType], NEW n \in [Files -> FileType], NEW ir \in [Inodes -> Nat], NEW en,
         SlotsOK(fl, ir, en), NEW f \in Files, fl[f].type = "INODE", NEW x \in Inodes, x = fl[f].ip,
         n[f].ref = 0, n[f].type = "NONE",
         \A g \in Files : g # f => n[g] = fl[g]
  PROVE  /\ SlotsOK(n, LessAt(ir, x), en)
         /\ ir[x] >= 1
<1> DEFINE jr == LessAt(ir, x)
<1>1. \A ip \in Inodes : jr[ip] = IF ip = x THEN ir[x] - 1 ELSE ir[ip]
  BY DEF LessAt
<1> HIDE DEF jr
<1>2. fl[f].ref > 0
  <2>1. fl[f].ref \in Nat /\ fl[f].ref # 0
    BY DEF SlotsOK, FileType
  <2> QED
    BY <2>1
<1>3. Opens(n, x) = Opens(fl, x) \ {f} /\ f \in Opens(fl, x)
  BY <1>2 DEF Opens
<1>4. \A ip \in Inodes : ip # x => Opens(n, ip) = Opens(fl, ip)
  BY <1>2 DEF Opens
<1>5. IsFiniteSet(Opens(fl, x)) /\ Cardinality(Opens(fl, x)) \in Nat /\ Cardinality(Opens(n, x)) \in Nat
  BY TableFinite, Zenon
<1>6. Cardinality(Opens(n, x)) = Cardinality(Opens(fl, x)) - 1
  <2>1. PICK S : S = Opens(fl, x)
    OBVIOUS
  <2>2. IsFiniteSet(S) /\ Opens(n, x) = S \ {f} /\ f \in S
    BY <1>3, <1>5, <2>1
  <2>3. Cardinality(S \ {f}) = Cardinality(S) - 1
    BY <2>2, FS_RemoveElement
  <2> QED
    BY <2>1, <2>2, <2>3
<1>7. ASSUME NEW ip \in Inodes PROVE jr[ip] = Cardinality(Opens(n, ip))
  BY <1>1, <1>4, <1>6 DEF SlotsOK
<1>8. PipeEnds(n) = PipeEnds(fl)
  BY <1>2 DEF PipeEnds
<1>9. \A g \in Files : /\ n[g].ref = 0 <=> n[g].type = "NONE"
                       /\ n[g].type = "INODE" => n[g].ip \in Inodes
  BY DEF SlotsOK
<1>10. \A g, h \in Files : /\ n[g].type = "PIPE" /\ n[h].type = "PIPE"
                           /\ n[g].writable = n[h].writable
                           => g = h
  BY DEF SlotsOK
<1>11. en = PipeEnds(n)
  BY <1>8 DEF SlotsOK
<1>12. SlotsOK(n, jr, en)
  BY <1>7, <1>9, <1>10, <1>11 DEF SlotsOK
<1>13. ir[x] = Cardinality(Opens(fl, x))
  BY DEF SlotsOK
<1> QED
  BY <1>5, <1>6, <1>12, <1>13 DEF jr

\* The last reference to a slot of a pipe end goes.
LEMMA EndClosed ==
  ASSUME NEW fl \in [Files -> FileType], NEW n \in [Files -> FileType], NEW ir, NEW en,
         SlotsOK(fl, ir, en), NEW f \in Files, fl[f].type = "PIPE",
         n[f].ref = 0, n[f].type = "NONE",
         \A g \in Files : g # f => n[g] = fl[g]
  PROVE  SlotsOK(n, ir, en \ {fl[f].writable})
<1>1. fl[f].ref > 0
  <2>1. fl[f].ref \in Nat /\ fl[f].ref # 0
    BY DEF SlotsOK, FileType
  <2> QED
    BY <2>1
<1>2. \A ip \in Inodes : Opens(n, ip) = Opens(fl, ip)
  BY <1>1 DEF Opens
<1>3. PipeEnds(n) = PipeEnds(fl) \ {fl[f].writable}
  <2> DEFINE G == {g \in Files : fl[g].ref > 0 /\ fl[g].type = "PIPE"}
             H == {g \in Files : n[g].ref > 0 /\ n[g].type = "PIPE"}
  <2>1. H = G \ {f} /\ f \in G
    BY <1>1
  <2>2. \A g \in G : fl[g].writable = fl[f].writable => g = f
    BY DEF SlotsOK
  <2>3. \A g \in H : n[g].writable = fl[g].writable
    BY <2>1
  <2>4. PipeEnds(n) = {n[g].writable : g \in H} /\ PipeEnds(fl) = {fl[g].writable : g \in G}
    BY DEF PipeEnds
  <2> HIDE DEF G, H
  <2> QED
    BY <2>1, <2>2, <2>3, <2>4
<1>4. \A g \in Files : /\ n[g].ref = 0 <=> n[g].type = "NONE"
                       /\ n[g].type = "INODE" => n[g].ip \in Inodes
  BY DEF SlotsOK
<1>5. \A g, h \in Files : /\ n[g].type = "PIPE" /\ n[h].type = "PIPE"
                          /\ n[g].writable = n[h].writable
                          => g = h
  BY DEF SlotsOK
<1>6. \A ip \in Inodes : ir[ip] = Cardinality(Opens(n, ip))
  BY <1>2 DEF SlotsOK
<1>7. en \ {fl[f].writable} = PipeEnds(n)
  BY <1>3 DEF SlotsOK
<1> QED
  BY <1>4, <1>5, <1>6, <1>7 DEF SlotsOK

\* Both ends of a pipe are opened while there is none.
LEMMA PipeOpened ==
  ASSUME NEW fl \in [Files -> FileType], NEW n \in [Files -> FileType], NEW ir,
         SlotsOK(fl, ir, {}), NEW rf \in Files, NEW wf \in Files, rf # wf, fl[rf].ref = 0, fl[wf].ref = 0,
         n[rf].ref = 1, n[rf].type = "PIPE", n[rf].writable = FALSE,
         n[wf].ref = 1, n[wf].type = "PIPE", n[wf].writable = TRUE,
         \A g \in Files : (g # rf /\ g # wf) => n[g] = fl[g]
  PROVE  SlotsOK(n, ir, {FALSE, TRUE})
<1>1. fl[rf].type = "NONE" /\ fl[wf].type = "NONE"
  BY DEF SlotsOK
<1>2. \A ip \in Inodes : Opens(n, ip) = Opens(fl, ip)
  BY <1>1 DEF Opens
<1>3. \A g \in Files : fl[g].type # "PIPE"
  <2> SUFFICES ASSUME NEW g \in Files, fl[g].type = "PIPE" PROVE FALSE
    OBVIOUS
  <2>1. fl[g].ref \in Nat /\ fl[g].ref # 0
    BY DEF SlotsOK, FileType
  <2>2. fl[g].writable \in PipeEnds(fl)
    BY <2>1 DEF PipeEnds
  <2> QED
    BY <2>2 DEF SlotsOK
<1>4. \A g \in Files : n[g].type = "PIPE" <=> (g = rf \/ g = wf)
  BY <1>3
<1>5. PipeEnds(n) = {FALSE, TRUE}
  <2>1. {g \in Files : n[g].ref > 0 /\ n[g].type = "PIPE"} = {rf, wf}
    BY <1>4
  <2> QED
    BY <2>1 DEF PipeEnds
<1>6. \A g \in Files : /\ n[g].ref = 0 <=> n[g].type = "NONE"
                       /\ n[g].type = "INODE" => n[g].ip \in Inodes
  BY <1>4 DEF SlotsOK
<1>7. \A g, h \in Files : /\ n[g].type = "PIPE" /\ n[h].type = "PIPE"
                          /\ n[g].writable = n[h].writable
                          => g = h
  BY <1>4
<1>8. \A ip \in Inodes : ir[ip] = Cardinality(Opens(n, ip))
  BY <1>2 DEF SlotsOK
<1> QED
  BY <1>5, <1>6, <1>7, <1>8 DEF SlotsOK
-----------------------------------------------------------------------------
(***************************************************************************)
(* fileclose as a relation between tables.                                 *)
(***************************************************************************)
Table(fl, ir, en) == [file |-> fl, iref |-> ir, ends |-> en]
RefDown(ft, f) == [ft EXCEPT !.file[f].ref = @ - 1]
Untyped(ft, f) == [ft EXCEPT !.file[f].type = "NONE"]
EndGone(ft, w) == [ft EXCEPT !.ends = @ \ {w}]
IrefDown(ft, ip) == [ft EXCEPT !.iref[ip] = @ - 1]
SlotDown(s) == [s EXCEPT !.ref = @ - 1]
SlotUntyped(s) == [s EXCEPT !.type = "NONE"]
DownAt(fl, f) == [fl EXCEPT ![f] = SlotDown(fl[f])]
UntypedAt(fl, f) == [fl EXCEPT ![f] = SlotUntyped(fl[f])]

\* What fileclose(f) makes of the slots.
Closes(fl, f, n) ==
    /\ n = [g \in Files |-> n[g]]
    /\ \A g \in Files : g # f => n[g] = fl[g]
    /\ n[f] = [ref |-> fl[f].ref - 1, type |-> IF fl[f].ref > 1 THEN fl[f].type ELSE "NONE", ip |-> fl[f].ip,
               off |-> fl[f].off, readable |-> fl[f].readable, writable |-> fl[f].writable]

\* And of the references to inodes and of the pipe ends.
IrefsLeft(fl, ir, f) == IF fl[f].ref > 1 \/ fl[f].type # "INODE" THEN ir ELSE LessAt(ir, fl[f].ip)
EndsLeft(fl, en, f) == IF fl[f].ref > 1 \/ fl[f].type # "PIPE" THEN en ELSE en \ {fl[f].writable}

\* The parts of a table.
LEMMA TableIs ==
  \A fl, ir, en : Table(fl, ir, en).file = fl /\ Table(fl, ir, en).iref = ir /\ Table(fl, ir, en).ends = en
BY DEF Table

\* What the updates in fileclose() do to a table.
LEMMA TableUpdates ==
  /\ \A fl, ir, en, f : RefDown(Table(fl, ir, en), f) = Table(DownAt(fl, f), ir, en)
  /\ \A fl, ir, en, f : Untyped(Table(fl, ir, en), f) = Table(UntypedAt(fl, f), ir, en)
  /\ \A fl, ir, en, w : EndGone(Table(fl, ir, en), w) = Table(fl, ir, en \ {w})
  /\ \A fl, ir, en, ip : IrefDown(Table(fl, ir, en), ip) = Table(fl, LessAt(ir, ip), en)
<1>1. \A fl, ir, en, f : RefDown(Table(fl, ir, en), f) = Table(DownAt(fl, f), ir, en)
  BY DEF RefDown, Table, SlotDown, DownAt
<1>2. \A fl, ir, en, f : Untyped(Table(fl, ir, en), f) = Table(UntypedAt(fl, f), ir, en)
  BY DEF Untyped, Table, SlotUntyped, UntypedAt
<1>3. \A fl, ir, en, w : EndGone(Table(fl, ir, en), w) = Table(fl, ir, en \ {w})
  BY DEF EndGone, Table
<1>4. \A fl, ir, en, ip : IrefDown(Table(fl, ir, en), ip) = Table(fl, LessAt(ir, ip), en)
  BY DEF IrefDown, Table, LessAt
<1> QED
  BY <1>1, <1>2, <1>3, <1>4

\* fileclose() in these terms.
LEMMA FilecloseForm ==
  ASSUME NEW ft, NEW f
  PROVE  /\ ft.file[f].ref > 1 => fileclose(ft, f) = RefDown(ft, f)
         /\ (~(ft.file[f].ref > 1) /\ ft.file[f].type = "PIPE")
              => fileclose(ft, f) = EndGone(Untyped(RefDown(ft, f), f), ft.file[f].writable)
         /\ (~(ft.file[f].ref > 1) /\ ft.file[f].type = "INODE")
              => fileclose(ft, f) = IrefDown(Untyped(RefDown(ft, f), f), ft.file[f].ip)
         /\ (~(ft.file[f].ref > 1) /\ ft.file[f].type \notin {"PIPE", "INODE"})
              => fileclose(ft, f) = Untyped(RefDown(ft, f), f)
<1>1. ASSUME ft.file[f].ref > 1 PROVE fileclose(ft, f) = RefDown(ft, f)
  BY <1>1, Zenon DEF fileclose, RefDown
<1>2. ASSUME ~(ft.file[f].ref > 1), ft.file[f].type = "PIPE"
      PROVE  fileclose(ft, f) = EndGone(Untyped(RefDown(ft, f), f), ft.file[f].writable)
  BY <1>2, Zenon DEF fileclose, RefDown, Untyped, EndGone
<1>3. ASSUME ~(ft.file[f].ref > 1), ft.file[f].type = "INODE"
      PROVE  fileclose(ft, f) = IrefDown(Untyped(RefDown(ft, f), f), ft.file[f].ip)
  <2>1. ft.file[f].type # "PIPE"
    BY <1>3
  <2> QED
    BY <1>3, <2>1, Zenon DEF fileclose, RefDown, Untyped, IrefDown
<1>4. ASSUME ~(ft.file[f].ref > 1), ft.file[f].type \notin {"PIPE", "INODE"}
      PROVE  fileclose(ft, f) = Untyped(RefDown(ft, f), f)
  <2>1. ft.file[f].type # "PIPE" /\ ft.file[f].type # "INODE"
    BY <1>4
  <2> QED
    BY <1>4, <2>1, Zenon DEF fileclose, RefDown, Untyped
<1> QED
  BY <1>1, <1>2, <1>3, <1>4

\* One slot less referenced, and free with the last reference.
LEMMA FilecloseIs ==
  ASSUME NEW fl \in [Files -> FileType], NEW ir, NEW en, NEW f \in Files
  PROVE  \E n : /\ Closes(fl, f, n)
                /\ fileclose(Table(fl, ir, en), f) = Table(n, IrefsLeft(fl, ir, f), EndsLeft(fl, en, f))
<1>1. PICK ft : ft = Table(fl, ir, en)
  OBVIOUS
<1>2. PICK m : m = DownAt(fl, f)
  OBVIOUS
<1>3. PICK k : k = UntypedAt(m, f)
  OBVIOUS
<1>4. ft.file = fl
  BY <1>1, TableIs
<1>5. RefDown(ft, f) = Table(m, ir, en)
  BY <1>1, <1>2, TableUpdates
<1>6. Untyped(RefDown(ft, f), f) = Table(k, ir, en)
  BY <1>3, <1>5, TableUpdates
<1>7. m[f] = SlotDown(fl[f]) /\ m = [g \in Files |-> m[g]] /\ \A g \in Files : g # f => m[g] = fl[g]
  BY <1>2 DEF DownAt
<1>8. k[f] = SlotUntyped(m[f]) /\ k = [g \in Files |-> k[g]] /\ \A g \in Files : g # f => k[g] = m[g]
  BY <1>3, <1>7 DEF UntypedAt
<1>10. fl[f] \in FileType
  OBVIOUS
<1>11. m[f] = [ref |-> fl[f].ref - 1, type |-> fl[f].type, ip |-> fl[f].ip,
               off |-> fl[f].off, readable |-> fl[f].readable, writable |-> fl[f].writable]
  BY <1>7, <1>10 DEF SlotDown, FileType
<1>12. k[f] = [ref |-> fl[f].ref - 1, type |-> "NONE", ip |-> fl[f].ip,
               off |-> fl[f].off, readable |-> fl[f].readable, writable |-> fl[f].writable]
  BY <1>8, <1>11 DEF SlotUntyped
<1>9. fileclose(ft, f)
      = IF fl[f].ref > 1 THEN RefDown(ft, f)
        ELSE IF fl[f].type = "PIPE" THEN EndGone(Untyped(RefDown(ft, f), f), fl[f].writable)
        ELSE IF fl[f].type = "INODE" THEN IrefDown(Untyped(RefDown(ft, f), f), fl[f].ip)
        ELSE Untyped(RefDown(ft, f), f)
  BY <1>4, FilecloseForm
<1>13. CASE fl[f].ref > 1
  <2>1. Closes(fl, f, m)
    BY <1>7, <1>11, <1>13 DEF Closes
  <2>2. fileclose(ft, f) = Table(m, ir, en)
    BY <1>5, <1>9, <1>13
  <2>3. IrefsLeft(fl, ir, f) = ir /\ EndsLeft(fl, en, f) = en
    BY <1>13 DEF IrefsLeft, EndsLeft
  <2> QED
    BY <1>1, <2>1, <2>2, <2>3
<1>14. CASE ~(fl[f].ref > 1)
  <2>1. Closes(fl, f, k)
    BY <1>7, <1>8, <1>12, <1>14 DEF Closes
  <2>2. PICK jr : jr = LessAt(ir, fl[f].ip)
    OBVIOUS
  <2>3. EndGone(Table(k, ir, en), fl[f].writable) = Table(k, ir, en \ {fl[f].writable})
    BY TableUpdates
  <2>4. IrefDown(Table(k, ir, en), fl[f].ip) = Table(k, jr, en)
    BY <2>2, TableUpdates
  <2>5. IrefsLeft(fl, ir, f) = (IF fl[f].type = "INODE" THEN jr ELSE ir)
    BY <1>14, <2>2 DEF IrefsLeft
  <2>6. EndsLeft(fl, en, f) = (IF fl[f].type = "PIPE" THEN en \ {fl[f].writable} ELSE en)
    BY <1>14 DEF EndsLeft
  <2>7. fileclose(ft, f) = Table(k, IrefsLeft(fl, ir, f), EndsLeft(fl, en, f))
    BY <1>6, <1>9, <1>14, <2>3, <2>4, <2>5, <2>6
  <2> QED
    BY <1>1, <2>1, <2>7
<1> QED
  BY <1>13, <1>14
-----------------------------------------------------------------------------
(***************************************************************************)
(* The calls on descriptors.                                               *)
(***************************************************************************)
AtWork(q) == call[q].pc \in {"begin", "map", "zero"}
OffsKept == \A q \in Procs : AtWork(q) => file'[call[q].f].off = file[call[q].f].off

\* What a step does to the files that are open: nothing (pipes may come and
\* go), or slot f is closed, or it is opened for inode x.
OpenKept ==
    \A g \in Files : /\ file'[g].off = file[g].off
                     /\ file'[g].type = "INODE" <=> file[g].type = "INODE"
                     /\ file[g].type = "INODE" => file'[g].ip = file[g].ip
ClosedAt(f) ==
    /\ file'[f].type # "INODE" /\ file'[f].off = file[f].off
    /\ \A g \in Files : g # f => file'[g] = file[g]
OpenedAt(f, x) ==
    /\ file[f].type = "NONE"
    /\ file'[f].type = "INODE" /\ file'[f].ip = x /\ file'[f].off = 0
    /\ \A g \in Files : g # f => file'[g] = file[g]

\* A call on the table keeps the invariant if it keeps the table in order and
\* leaves the files that others are writing to alone; open() may go on with
\* itrunc() under the lock.
LEMMA TableStep ==
  ASSUME FilesInv, NEW p \in Procs, call[p].pc = "user", UNCHANGED <<bitmap, block, inode, err>>,
         file' \in [Files -> FileType], ofile' \in OfileType, iref' \in [Inodes -> Nat], ends' \subseteq BOOLEAN,
         DescRefs',
         \A q \in Procs : AtWork(q) => /\ ofile'[q] = ofile[q]
                                       /\ file'[call[q].f].type = file[call[q].f].type
                                       /\ file'[call[q].f].ip = file[call[q].f].ip
                                       /\ file'[call[q].f].off = file[call[q].f].off,
         \/ UNCHANGED <<lock, call>>
         \/ \E x \in Inodes : \E b :
               /\ lock[x] = None /\ lock' = [lock EXCEPT ![x] = p]
               /\ call' = [call EXCEPT ![p] = [pc |-> "trunc", ip |-> x, before |-> b]]
  PROVE  FilesInv' /\ OffsKept
<1>0. TypeOK /\ CallsOK /\ BlocksOwned /\ NoHoles /\ NoPanic /\ DescRefs
  BY Parts
<1>1. None \notin Procs
  BY SetsAssumption
<1>2. \A ip \in Inodes : lock[ip] # p
  <2>1. CallOK(p)
    BY <1>0 DEF CallsOK
  <2> QED
    BY <2>1 DEF CallOK
<1> DEFINE Taken ==
          /\ call' = [q \in Procs |-> call'[q]] /\ \A q \in Procs : q # p => call'[q] = call[q]
          /\ lock' \in [Inodes -> Procs \cup {None}]
          /\ \A ip \in Inodes : \/ lock'[ip] = lock[ip]
                                \/ lock[ip] = None /\ lock'[ip] = p /\ call'[p].pc = "trunc"
          /\ call'[p].pc \in {"user", "trunc"}
          /\ call'[p].pc = "trunc" => call'[p].ip \in Inodes
          /\ \A ip \in Inodes : lock'[ip] = p <=> (call'[p].pc = "trunc" /\ call'[p].ip = ip)
<1>3. Taken
  <2>1. CASE UNCHANGED <<lock, call>>
    <3>1. call'[p] = call[p] /\ call'[p].pc = "user" /\ lock' = lock
      BY <2>1
    <3> QED
      BY <1>0, <1>2, <2>1, <3>1 DEF TypeOK
  <2>2. ASSUME NEW x \in Inodes, NEW b, lock[x] = None, lock' = [lock EXCEPT ![x] = p],
               call' = [call EXCEPT ![p] = [pc |-> "trunc", ip |-> x, before |-> b]]
        PROVE  Taken
    <3>1. /\ call' = [q \in Procs |-> call'[q]] /\ \A q \in Procs : q # p => call'[q] = call[q]
          /\ call'[p] = [pc |-> "trunc", ip |-> x, before |-> b]
      BY <1>0, <2>2 DEF TypeOK
    <3>2. /\ lock' \in [Inodes -> Procs \cup {None}] /\ lock'[x] = p
          /\ \A ip \in Inodes : ip # x => lock'[ip] = lock[ip]
      BY <1>0, <2>2 DEF TypeOK
    <3>3. call'[p].pc = "trunc" /\ call'[p].ip = x
      BY <3>1
    <3> QED
      BY <1>2, <2>2, <3>1, <3>2, <3>3
  <2> QED
    BY <2>1, <2>2
<1>4. TypeOK'
  BY <1>0, <1>3 DEF TypeOK, OfileType
<1>5. \A ip \in Inodes, j \in Entries : Ref(ip, j)' = Ref(ip, j)
  BY DEF Ref
<1>6. \A q \in Procs : New(q)' = New(q)
  BY <1>3 DEF New, Busy
<1>7. BlocksOwned'
  BY <1>0, <1>5, <1>6, OwnedFrame
<1>8. CallOK(p)'
  BY <1>3 DEF CallOK
<1>9. ASSUME NEW q \in Procs, q # p, AtWork(q) PROVE WriteOff(q)' = WriteOff(q)
  BY <1>3, <1>9 DEF WriteOff
<1>10. ASSUME NEW q \in Procs, q # p PROVE CallOK(q)'
  <2>1. CallOK(q) /\ call'[q] = call[q]
    BY <1>0, <1>3, <1>10 DEF CallsOK
  <2>2. \A ip \in Inodes : lock'[ip] = q <=> lock[ip] = q
    BY <1>1, <1>3, <1>10
  <2>3. call[q].pc \in {"begin", "map", "zero"} =>
          /\ file'[call[q].f].type = file[call[q].f].type
          /\ file'[call[q].f].ip = file[call[q].f].ip
          /\ \E fd \in FDs : ofile'[q][fd] = call[q].f
    BY <2>1 DEF CallOK, AtWork
  <2>4. call[q].pc \in {"map", "zero"} =>
          /\ file'[call[q].f].off = file[call[q].f].off
          /\ inode'[call[q].ip].size = inode[call[q].ip].size
    BY DEF AtWork
  <2>5. call[q].pc = "zero" => BlockOf(call[q].ip, WriteOff(q))' = BlockOf(call[q].ip, WriteOff(q))
    <3>1. SUFFICES ASSUME call[q].pc = "zero"
                   PROVE  BlockOf(call[q].ip, WriteOff(q))' = BlockOf(call[q].ip, WriteOff(q))
      OBVIOUS
    <3>2. WriteOff(q)' = WriteOff(q) /\ call'[q].ip = call[q].ip
      BY <1>9, <1>10, <2>1, <3>1 DEF AtWork
    <3> QED
      BY <3>2, BlockOfSame
  <2> QED
    BY <2>1, <2>2, <2>3, <2>4, <2>5, CallFrame
<1>11. ASSUME NEW ip \in Inodes PROVE NoHole(ip)'
  <2>1. CASE lock'[ip] = lock[ip]
    <3>1. ASSUME NEW q \in Procs, lock[ip] = q
          PROVE  /\ q # p /\ call'[q] = call[q] /\ call[q].pc \in {"map", "zero", "trunc"}
      BY <1>0, <1>2, <1>3, <3>1 DEF CallsOK, CallOK
    <3>2. \A q \in Procs : (lock[ip] = q /\ ~Busy(q, "trunc")) => WriteOff(q)' = WriteOff(q)
      BY <1>9, <3>1 DEF AtWork, Busy
    <3>3. \A q \in Procs : (lock[ip] = q /\ Busy(q, "trunc")) => Busy(q, "trunc")'
      BY <3>1 DEF Busy
    <3> QED
      BY <1>0, <1>5, <2>1, <3>2, <3>3, HoleFrame DEF NoHoles
  <2>2. CASE lock'[ip] = p /\ call'[p].pc = "trunc"
    BY <1>1, <2>2 DEF NoHole, Busy
  <2> QED
    BY <1>3, <2>1, <2>2
<1>12. NoPanic'
  BY <1>0 DEF NoPanic
<1>13. Inodes # {}
  BY SetsAssumption
<1> QED
  BY <1>4, <1>7, <1>8, <1>10, <1>11, <1>12, <1>13, StepOn DEF OffsKept

\* A process at work on a file has it open.
LEMMA AtWorkOpen ==
  ASSUME TypeOK, CallsOK, DescRefs, NEW q \in Procs, AtWork(q)
  PROVE  /\ call[q].f \in Files /\ file[call[q].f].type = "INODE" /\ file[call[q].f].ref # 0
         /\ \E fd \in FDs : ofile[q][fd] = call[q].f
<1>1. /\ call[q].f \in Files /\ file[call[q].f].type = "INODE"
      /\ \E fd \in FDs : ofile[q][fd] = call[q].f
  BY DEF CallsOK, CallOK, AtWork
<1>2. file[call[q].f].ref # 0
  BY <1>1 DEF DescRefs
<1> QED
  BY <1>1, <1>2

RefUp(fl, f, k) == [fl EXCEPT ![f].ref = @ + k]

\* filedup: one reference more.
LEMMA RefUpIs ==
  ASSUME NEW fl \in [Files -> FileType], NEW f \in Files, NEW k \in Nat
  PROVE  /\ RefUp(fl, f, k) \in [Files -> FileType]
         /\ \A g \in Files : g # f => RefUp(fl, f, k)[g] = fl[g]
         /\ RefUp(fl, f, k)[f].ref = fl[f].ref + k /\ RefUp(fl, f, k)[f].type = fl[f].type
         /\ RefUp(fl, f, k)[f].ip = fl[f].ip /\ RefUp(fl, f, k)[f].off = fl[f].off
         /\ RefUp(fl, f, k)[f].writable = fl[f].writable
<1>1. fl[f] \in FileType
  OBVIOUS
<1>2. [fl[f] EXCEPT !.ref = fl[f].ref + k] \in FileType
  BY <1>1 DEF FileType
<1>3. RefUp(fl, f, k) = [fl EXCEPT ![f] = [fl[f] EXCEPT !.ref = fl[f].ref + k]]
  BY DEF RefUp
<1> QED
  BY <1>1, <1>2, <1>3 DEF FileType

\* The first free descriptor.
LEMMA FirstFD ==
  ASSUME NEW o, FreeFDs(o) # {}
  PROVE  Min(FreeFDs(o)) \in FDs /\ o[Min(FreeFDs(o))] = None
<1>1. FreeFDs(o) \subseteq Nat
  BY Sizes DEF FreeFDs, FDs
<1>2. Min(FreeFDs(o)) \in FreeFDs(o)
  BY <1>1, Least
<1> QED
  BY <1>2 DEF FreeFDs

\* dup().
LEMMA Step_sys_dup ==
  ASSUME FilesInv, NEW p \in Procs, NEW fd \in FDs, sys_dup(p, fd)
  PROVE  FilesInv' /\ OffsKept
<1>0. TypeOK /\ CallsOK /\ BlocksOwned /\ NoHoles /\ NoPanic /\ DescRefs
  BY Parts
<1>1. PICK f \in Files : f = ofile[p][fd]
  <2>1. ofile[p][fd] # None
    BY DEF sys_dup
  <2>2. ofile[p][fd] \in Files \cup {None}
    BY <1>0 DEF TypeOK
  <2> QED
    BY <2>1, <2>2
<1>2. PICK e \in FDs : e = Min(FreeFDs(ofile[p])) /\ ofile[p][e] = None
  BY FirstFD DEF sys_dup
<1>3. /\ ofile' = FdSet(ofile, p, e, f) /\ file' = RefUp(file, f, 1) /\ call[p].pc = "user"
      /\ UNCHANGED <<bitmap, block, inode, lock, iref, ends, call, err>>
  BY <1>1, <1>2 DEF sys_dup, FdSet, RefUp, Busy, diskVars
<1>4. file \in [Files -> FileType] /\ ofile \in OfileType /\ f \in Files \cup {None}
  BY <1>0 DEF TypeOK, OfileType
<1>5. /\ file' \in [Files -> FileType] /\ \A g \in Files : g # f => file'[g] = file[g]
      /\ file'[f].ref = file[f].ref + 1 /\ file'[f].type = file[f].type /\ file'[f].ip = file[f].ip
      /\ file'[f].off = file[f].off /\ file'[f].writable = file[f].writable
  BY <1>3, <1>4, RefUpIs
<1>6. ofile' \in OfileType /\ \A q \in Procs : q # p => ofile'[q] = ofile[q]
  BY <1>3, <1>4, FdSetIs
<1>7. None \notin Files
  BY SetsAssumption
<1>8. Counted(file, ofile) /\ SlotsOK(file, iref, ends)
  BY <1>0, DescIs
<1>9. file[f].ref \in Nat /\ file[f].ref # 0
  <2>1. Cardinality(Descs(ofile, f)) >= 1
    BY <1>1, DescsCount
  <2> QED
    BY <1>4, <1>8, <2>1 DEF FileType, Counted
<1>10. Counted(file', ofile')
  <2> SUFFICES ASSUME NEW g \in Files PROVE file'[g].ref = Cardinality(Descs(ofile', g))
    BY DEF Counted
  <2>1. Cardinality(Descs(ofile', g)) = IF g = f THEN Cardinality(Descs(ofile, g)) + 1
                                        ELSE Cardinality(Descs(ofile, g))
    BY <1>2, <1>3, <1>4, <1>7, DescsSet
  <2> QED
    BY <1>5, <1>8, <2>1 DEF Counted
<1>11. SlotsOK(file', iref, ends)
  <2>1. \A g \in Files : /\ file'[g].type = file[g].type /\ file'[g].ip = file[g].ip
                         /\ file'[g].ref = 0 <=> file[g].ref = 0
                         /\ file[g].type = "PIPE" => file'[g].writable = file[g].writable
    BY <1>5, <1>9
  <2> QED
    BY <1>4, <1>5, <1>8, <2>1, SlotsSame
<1>12. DescRefs'
  BY <1>3, <1>10, <1>11, DescIs
<1>13. iref' \in [Inodes -> Nat] /\ ends' \subseteq BOOLEAN
  BY <1>0, <1>3 DEF TypeOK
<1>14. ASSUME NEW q \in Procs, AtWork(q)
       PROVE  /\ ofile'[q] = ofile[q]
              /\ file'[call[q].f].type = file[call[q].f].type
              /\ file'[call[q].f].ip = file[call[q].f].ip
              /\ file'[call[q].f].off = file[call[q].f].off
  <2>1. q # p
    BY <1>3, <1>14 DEF AtWork
  <2>2. call[q].f \in Files
    BY <1>0, <1>14, AtWorkOpen
  <2> QED
    BY <1>5, <1>6, <2>1, <2>2
<1> QED
  BY <1>3, <1>5, <1>6, <1>12, <1>13, <1>14, TableStep

\* fileclose() keeps the slots in order.
LEMMA TableClosed ==
  ASSUME NEW fl \in [Files -> FileType], NEW ir \in [Inodes -> Nat], NEW en \in SUBSET BOOLEAN,
         SlotsOK(fl, ir, en), NEW f \in Files, fl[f].ref # 0
  PROVE  \E n \in [Files -> FileType], jr \in [Inodes -> Nat], em \in SUBSET BOOLEAN :
            /\ fileclose(Table(fl, ir, en), f) = Table(n, jr, em)
            /\ Closes(fl, f, n) /\ SlotsOK(n, jr, em)
            /\ (fl[f].ref = 1 /\ fl[f].type = "PIPE") => em = en \ {fl[f].writable}
<1>1. PICK n : Closes(fl, f, n) /\ fileclose(Table(fl, ir, en), f)
                                   = Table(n, IrefsLeft(fl, ir, f), EndsLeft(fl, en, f))
  BY FilecloseIs
<1> DEFINE J == IrefsLeft(fl, ir, f)
           E == EndsLeft(fl, en, f)
<1>2. fl[f] \in FileType /\ fl[f].ref \in Nat
  BY DEF FileType
<1>3. /\ n[f] = [ref |-> fl[f].ref - 1, type |-> IF fl[f].ref > 1 THEN fl[f].type ELSE "NONE", ip |-> fl[f].ip,
                 off |-> fl[f].off, readable |-> fl[f].readable, writable |-> fl[f].writable]
      /\ n = [g \in Files |-> n[g]] /\ \A g \in Files : g # f => n[g] = fl[g]
  BY <1>1 DEF Closes
<1>4. n[f] \in FileType
  BY <1>2, <1>3 DEF FileType
<1>5. n \in [Files -> FileType]
  <2>1. \A g \in Files : n[g] \in FileType
    BY <1>3, <1>4
  <2> QED
    BY <1>3, <2>1
<1>6. fl[f].type \in {"INODE", "PIPE"} /\ (fl[f].type = "INODE" => fl[f].ip \in Inodes)
  BY <1>2 DEF FileType, SlotsOK
<1>7. fl[f].writable \in BOOLEAN
  BY <1>2 DEF FileType
<1>8. CASE fl[f].ref > 1
  <2>1. J = ir /\ E = en
    BY <1>8 DEF IrefsLeft, EndsLeft
  <2>2. /\ n[f].ref = fl[f].ref - 1 /\ n[f].type = fl[f].type /\ n[f].ip = fl[f].ip
        /\ n[f].writable = fl[f].writable
    BY <1>3, <1>8
  <2>3. \A g \in Files : /\ n[g].type = fl[g].type /\ n[g].ip = fl[g].ip
                         /\ n[g].ref = 0 <=> fl[g].ref = 0
                         /\ fl[g].type = "PIPE" => n[g].writable = fl[g].writable
    BY <1>2, <1>3, <1>8, <2>2
  <2>4. SlotsOK(n, ir, en)
    BY <1>5, <2>3, SlotsSame
  <2>5. fl[f].ref # 1
    BY <1>8, <1>2
  <2> QED
    BY <1>1, <1>5, <2>1, <2>4, <2>5
<1>9. CASE ~(fl[f].ref > 1)
  <2>1. n[f].ref = 0 /\ n[f].type = "NONE"
    BY <1>2, <1>3, <1>9
  <2>2. CASE fl[f].type = "INODE"
    <3>1. PICK x \in Inodes : x = fl[f].ip
      BY <1>6, <2>2
    <3>2. J = LessAt(ir, x) /\ E = en
      BY <1>9, <2>2, <3>1 DEF IrefsLeft, EndsLeft
    <3>3. SlotsOK(n, LessAt(ir, x), en) /\ ir[x] >= 1
      BY <1>3, <1>5, <2>1, <2>2, <3>1, InodeClosed
    <3>4. J \in [Inodes -> Nat]
      <4>1. ir[x] - 1 \in Nat
        BY <3>3
      <4> QED
        BY <3>2, <4>1 DEF LessAt
    <3>5. SlotsOK(n, J, E)
      BY <3>2, <3>3
    <3>6. E \in SUBSET BOOLEAN /\ fl[f].type # "PIPE"
      BY <2>2, <3>2
    <3> QED
      BY <1>1, <1>5, <3>4, <3>5, <3>6
  <2>3. CASE fl[f].type = "PIPE"
    <3>1. J = ir /\ E = en \ {fl[f].writable}
      BY <1>9, <2>3 DEF IrefsLeft, EndsLeft
    <3>2. SlotsOK(n, ir, en \ {fl[f].writable})
      BY <1>3, <1>5, <2>1, <2>3, EndClosed
    <3>3. en \ {fl[f].writable} \in SUBSET BOOLEAN
      OBVIOUS
    <3> QED
      BY <1>1, <1>5, <3>1, <3>2, <3>3
  <2> QED
    BY <1>6, <2>2, <2>3
<1> QED
  BY <1>8, <1>9

\* close(), also of the last reference.
LEMMA Step_sys_close ==
  ASSUME FilesInv, NEW p \in Procs, NEW fd \in FDs, sys_close(p, fd)
  PROVE  FilesInv' /\ OffsKept /\ (OpenKept \/ \E f \in Files : ClosedAt(f))
<1>0. TypeOK /\ CallsOK /\ BlocksOwned /\ NoHoles /\ NoPanic /\ DescRefs
  BY Parts
<1>1. PICK f \in Files : f = ofile[p][fd]
  <2>1. ofile[p][fd] # None
    BY DEF sys_close
  <2>2. ofile[p][fd] \in Files \cup {None}
    BY <1>0 DEF TypeOK
  <2> QED
    BY <2>1, <2>2
<1>2. /\ file \in [Files -> FileType] /\ ofile \in OfileType
      /\ iref \in [Inodes -> Nat] /\ ends \in SUBSET BOOLEAN
  BY <1>0 DEF TypeOK, OfileType
<1>3. Counted(file, ofile) /\ SlotsOK(file, iref, ends)
  BY <1>0, DescIs
<1>4. file[f].ref \in Nat /\ file[f].ref >= 1 /\ file[f].ref # 0
  <2>1. Cardinality(Descs(ofile, f)) >= 1
    BY <1>1, DescsCount
  <2>2. file[f].ref \in Nat /\ file[f].ref = Cardinality(Descs(ofile, f))
    BY <1>2, <1>3 DEF FileType, Counted
  <2> QED
    BY <2>1, <2>2
<1>5. PICK n \in [Files -> FileType], jr \in [Inodes -> Nat], em \in SUBSET BOOLEAN :
         /\ fileclose(Table(file, iref, ends), f) = Table(n, jr, em)
         /\ Closes(file, f, n) /\ SlotsOK(n, jr, em)
  BY <1>2, <1>3, <1>4, TableClosed
<1>6. /\ ofile' = FdSet(ofile, p, fd, None) /\ call[p].pc = "user"
      /\ UNCHANGED <<bitmap, block, inode, lock, call, err>>
  BY <1>1, <1>4 DEF sys_close, FdSet, Busy, diskVars
<1>7. file' = n /\ iref' = jr /\ ends' = em
  <2>1. FT = Table(file, iref, ends)
    BY DEF FT, Table
  <2>2. SetFT(fileclose(FT, f))
    BY <1>1 DEF sys_close
  <2>3. SetFT(Table(n, jr, em))
    BY <1>5, <2>1, <2>2
  <2> QED
    BY <2>3, TableIs DEF SetFT
<1>8. /\ \A g \in Files : g # f => file'[g] = file[g]
      /\ file'[f] = [ref |-> file[f].ref - 1, type |-> IF file[f].ref > 1 THEN file[f].type ELSE "NONE",
                     ip |-> file[f].ip, off |-> file[f].off, readable |-> file[f].readable,
                     writable |-> file[f].writable]
  BY <1>5, <1>7 DEF Closes
<1>9. None \in Files \cup {None} /\ None \notin Files
  BY SetsAssumption
<1>10. ofile' \in OfileType /\ \A q \in Procs : q # p => ofile'[q] = ofile[q]
  BY <1>2, <1>6, <1>9, FdSetIs
<1>11. Counted(file', ofile')
  <2> SUFFICES ASSUME NEW g \in Files PROVE file'[g].ref = Cardinality(Descs(ofile', g))
    BY DEF Counted
  <2>1. ofile[p][fd] # None /\ g # None
    BY <1>1, <1>9
  <2>2. Cardinality(Descs(ofile', g)) = IF g = f THEN Cardinality(Descs(ofile, g)) - 1
                                        ELSE Cardinality(Descs(ofile, g))
    BY <1>1, <1>2, <1>6, <1>9, <2>1, DescsSet
  <2>3. file[g].ref = Cardinality(Descs(ofile, g))
    BY <1>3 DEF Counted
  <2>4. file'[f].ref = file[f].ref - 1
    BY <1>8
  <2> QED
    BY <1>8, <2>2, <2>3, <2>4
<1>12. DescRefs'
  BY <1>5, <1>7, <1>11, DescIs
<1>13. /\ file' \in [Files -> FileType] /\ iref' \in [Inodes -> Nat] /\ ends' \subseteq BOOLEAN
  BY <1>5, <1>7
<1>14. ASSUME NEW q \in Procs, AtWork(q)
       PROVE  /\ ofile'[q] = ofile[q]
              /\ file'[call[q].f].type = file[call[q].f].type
              /\ file'[call[q].f].ip = file[call[q].f].ip
              /\ file'[call[q].f].off = file[call[q].f].off
  <2>1. q # p
    BY <1>6, <1>14 DEF AtWork
  <2>2. PICK e \in FDs : call[q].f \in Files /\ ofile[q][e] = call[q].f
    BY <1>0, <1>14, AtWorkOpen
  <2>3. CASE call[q].f # f
    BY <1>8, <1>10, <2>1, <2>2, <2>3
  <2>4. CASE call[q].f = f
    <3>1. Cardinality(Descs(ofile, f)) >= 2
      BY <1>1, <2>1, <2>2, <2>4, DescsCount
    <3>2. file[f].ref > 1
      BY <1>3, <1>4, <3>1 DEF Counted
    <3> QED
      BY <1>8, <1>10, <2>1, <2>4, <3>2
  <2> QED
    BY <2>3, <2>4
<1>15. OpenKept \/ ClosedAt(f)
  <2>1. CASE file[f].ref > 1
    BY <1>8, <2>1 DEF OpenKept
  <2>2. CASE ~(file[f].ref > 1)
    BY <1>8, <2>2 DEF ClosedAt
  <2> QED
    BY <2>1, <2>2
<1>16. FilesInv' /\ OffsKept
  BY <1>6, <1>10, <1>12, <1>13, <1>14, TableStep
<1> QED
  BY <1>15, <1>16

\* fork(): the child gets a copy of each descriptor.
LEMMA Step_fork ==
  ASSUME FilesInv, NEW p \in Procs, NEW q \in Procs, fork(p, q)
  PROVE  FilesInv' /\ OffsKept
<1>0. TypeOK /\ CallsOK /\ BlocksOwned /\ NoHoles /\ NoPanic /\ DescRefs
  BY Parts
<1> DEFINE F(f) == {e \in FDs : ofile[p][e] = f}
<1>1. /\ call[p].pc = "user" /\ call[q].pc = "user" /\ p # q
      /\ UNCHANGED <<bitmap, block, inode, lock, iref, ends, call, err>>
      /\ ofile' = [ofile EXCEPT ![q] = ofile[p]]
      /\ file' = [f \in Files |-> [file[f] EXCEPT !.ref = file[f].ref + Cardinality(F(f))]]
  BY DEF fork, Busy, diskVars
<1>2. \A e \in FDs : ofile[q][e] = None
  BY DEF fork, FreeFDs
<1>3. /\ file \in [Files -> FileType] /\ ofile \in OfileType
      /\ iref \in [Inodes -> Nat] /\ ends \in SUBSET BOOLEAN
  BY <1>0 DEF TypeOK, OfileType
<1>4. Counted(file, ofile) /\ SlotsOK(file, iref, ends)
  BY <1>0, DescIs
<1>5. ofile' \in OfileType /\ ofile'[q] = ofile[p] /\ \A r \in Procs : r # q => ofile'[r] = ofile[r]
  BY <1>1, <1>3 DEF OfileType
<1>6. \A f : IsFiniteSet(F(f)) /\ Cardinality(F(f)) \in Nat
  <2> SUFFICES ASSUME NEW f PROVE IsFiniteSet(F(f)) /\ Cardinality(F(f)) \in Nat
    OBVIOUS
  <2>1. F(f) \subseteq FDs /\ IsFiniteSet(FDs)
    BY TableFinite
  <2> HIDE DEF F
  <2> QED
    BY <2>1, FS_Subset, FS_CardinalityType
<1>7. ASSUME NEW f \in Files
      PROVE  /\ file'[f] \in FileType /\ file'[f].ref = file[f].ref + Cardinality(F(f))
             /\ file'[f].type = file[f].type /\ file'[f].ip = file[f].ip
             /\ file'[f].off = file[f].off /\ file'[f].writable = file[f].writable
  <2>1. PICK k \in Nat : k = Cardinality(F(f))
    BY <1>6
  <2>2. file'[f] = [file[f] EXCEPT !.ref = file[f].ref + k]
    BY <1>1, <2>1
  <2>3. file[f] \in FileType
    BY <1>3
  <2> HIDE DEF F
  <2> QED
    BY <2>1, <2>2, <2>3 DEF FileType
<1>8. file' \in [Files -> FileType]
  BY <1>1, <1>7
<1>9. None \notin Files
  BY SetsAssumption
<1>10. ASSUME NEW f \in Files
       PROVE  Cardinality(Descs(ofile', f)) = Cardinality(Descs(ofile, f)) + Cardinality(F(f))
  <2> DEFINE D == Descs(ofile, f)
             G == {q} \X F(f)
  <2>1. Descs(ofile', f) = D \cup G
    BY <1>2, <1>5, <1>9 DEF Descs
  <2>2. D \cap G = {}
    BY <1>2, <1>9 DEF Descs
  <2>3. IsFiniteSet(D) /\ Cardinality(D) \in Nat
    BY TableFinite, Zenon
  <2>4. IsFiniteSet({q}) /\ Cardinality({q}) = 1
    BY FS_Singleton
  <2>5. IsFiniteSet(F(f)) /\ Cardinality(F(f)) \in Nat
    BY <1>6
  <2> HIDE DEF D, F
  <2>6. IsFiniteSet(G) /\ Cardinality(G) = Cardinality({q}) * Cardinality(F(f))
    BY <2>4, <2>5, FS_Product
  <2>7. Cardinality(G) = Cardinality(F(f))
    BY <2>4, <2>5, <2>6
  <2> HIDE DEF G
  <2>8. Cardinality(D \cup G) = Cardinality(D) + Cardinality(G) - Cardinality(D \cap G)
    BY <2>3, <2>6, FS_Union
  <2>9. Cardinality(D \cap G) = 0
    BY <2>2, FS_EmptySet
  <2>10. Cardinality(D \cup G) = Cardinality(D) + Cardinality(F(f))
    BY <2>3, <2>5, <2>7, <2>8, <2>9
  <2> QED
    BY <2>1, <2>10 DEF D
<1>11. Counted(file', ofile')
  BY <1>4, <1>7, <1>10 DEF Counted
<1>12. ASSUME NEW f \in Files PROVE file'[f].ref = 0 <=> file[f].ref = 0
  <2>1. file[f].ref \in Nat /\ file[f].ref = Cardinality(Descs(ofile, f))
    BY <1>3, <1>4 DEF FileType, Counted
  <2>2. file[f].ref = 0 => F(f) = {}
    <3>1. SUFFICES ASSUME NEW e \in FDs, ofile[p][e] = f PROVE file[f].ref # 0
      OBVIOUS
    <3>2. Cardinality(Descs(ofile, f)) >= 1
      BY <3>1, DescsCount
    <3> QED
      BY <2>1, <3>2
  <2>3. F(f) = {} => Cardinality(F(f)) = 0
    BY FS_EmptySet
  <2>4. Cardinality(F(f)) \in Nat /\ file'[f].ref = file[f].ref + Cardinality(F(f))
    BY <1>6, <1>7
  <2> HIDE DEF F
  <2> QED
    BY <2>1, <2>2, <2>3, <2>4
<1> HIDE DEF F
<1>13. SlotsOK(file', iref, ends)
  <2>1. \A f \in Files : /\ file'[f].type = file[f].type /\ file'[f].ip = file[f].ip
                         /\ file'[f].ref = 0 <=> file[f].ref = 0
                         /\ file[f].type = "PIPE" => file'[f].writable = file[f].writable
    BY <1>7, <1>12
  <2> QED
    BY <1>3, <1>4, <1>8, <2>1, SlotsSame
<1>14. DescRefs'
  BY <1>1, <1>11, <1>13, DescIs
<1>15. iref' \in [Inodes -> Nat] /\ ends' \subseteq BOOLEAN
  BY <1>1, <1>3
<1>16. ASSUME NEW r \in Procs, AtWork(r)
       PROVE  /\ ofile'[r] = ofile[r]
              /\ file'[call[r].f].type = file[call[r].f].type
              /\ file'[call[r].f].ip = file[call[r].f].ip
              /\ file'[call[r].f].off = file[call[r].f].off
  <2>1. r # q
    BY <1>1, <1>16 DEF AtWork
  <2>2. call[r].f \in Files
    BY <1>0, <1>16, AtWorkOpen
  <2> QED
    BY <1>5, <1>7, <2>1, <2>2
<1> QED
  BY <1>1, <1>5, <1>8, <1>14, <1>15, <1>16, TableStep

\* The invariant does not depend on the transactions and the number of calls.
LEMMA Unchanged ==
  ASSUME FilesInv, UNCHANGED <<bitmap, block, inode, iref, lock, file, ofile, ends, call, err>>
  PROVE  FilesInv' /\ OffsKept
<1>0. TypeOK /\ CallsOK /\ BlocksOwned /\ NoHoles /\ NoPanic /\ DescRefs
  BY Parts
<1>1. TypeOK' /\ NoPanic' /\ DescRefs'
  BY <1>0 DEF TypeOK, NoPanic, DescRefs
<1>2. BlocksOwned'
  <2>1. \A ip \in Inodes, j \in Entries : Ref(ip, j)' = Ref(ip, j)
    BY DEF Ref
  <2>2. \A q \in Procs : New(q)' = New(q)
    BY DEF New, Busy
  <2> QED
    BY <1>0, <2>1, <2>2, OwnedFrame
<1>3. ASSUME NEW q \in Procs PROVE CallOK(q)'
  <2>1. CallOK(q) /\ call'[q] = call[q]
    BY <1>0 DEF CallsOK
  <2>2. call[q].pc \in {"begin", "map", "zero"} => \E fd \in FDs : ofile'[q][fd] = call[q].f
    BY <2>1 DEF CallOK
  <2>3. BlockOf(call[q].ip, WriteOff(q))' = BlockOf(call[q].ip, WriteOff(q))
    <3>1. WriteOff(q)' = WriteOff(q) /\ call'[q].ip = call[q].ip
      BY DEF WriteOff
    <3> QED
      BY <3>1, BlockOfSame
  <2> QED
    BY <2>1, <2>2, <2>3, CallFrame
<1>4. ASSUME NEW ip \in Inodes PROVE NoHole(ip)'
  <2>1. \A j \in Entries : Ref(ip, j)' = Ref(ip, j)
    BY DEF Ref
  <2>2. \A q \in Procs : WriteOff(q)' = WriteOff(q) /\ (Busy(q, "trunc")' = Busy(q, "trunc"))
    BY DEF WriteOff, Busy
  <2> QED
    BY <1>0, <2>1, <2>2, HoleFrame DEF NoHoles
<1>5. CallsOK' /\ NoHoles'
  BY <1>3, <1>4 DEF CallsOK, NoHoles
<1> QED
  BY <1>1, <1>2, <1>5 DEF FilesInv, AllocInv, OffsKept

\* The first free slot.
LEMMA FirstFile ==
  ASSUME NEW S, S \subseteq FreeFiles(FT), S # {}
  PROVE  Min(S) \in S /\ Min(S) \in Files /\ file[Min(S)].ref = 0
<1>1. \A g \in S : g \in Files /\ file[g].ref = 0
  BY DEF FreeFiles, FT
<1>2. S \subseteq Nat
  BY <1>1, Sizes DEF Files
<1>3. Min(S) \in S
  BY <1>2, Least
<1> QED
  BY <1>1, <1>3

SlotOne(s) == [s EXCEPT !.ref = 1]
OneAt(fl, f) == [fl EXCEPT ![f] = SlotOne(fl[f])]
PutAt(fl, f, s) == [fl EXCEPT ![f] = s]
RefOne(ft, f) == [ft EXCEPT !.file[f].ref = 1]
IrefUp(ft, ip) == [ft EXCEPT !.iref[ip] = @ + 1]
SlotPut(ft, f, s) == [ft EXCEPT !.file[f] = s]

\* What the updates in open() and pipe() do to a table.
LEMMA TableOpens ==
  /\ FT = Table(file, iref, ends)
  /\ \A fl, ir, en, f : RefOne(Table(fl, ir, en), f) = Table(OneAt(fl, f), ir, en)
  /\ \A fl, ir, en, ip : IrefUp(Table(fl, ir, en), ip) = Table(fl, MoreAt(ir, ip), en)
  /\ \A fl, ir, en, f, s : SlotPut(Table(fl, ir, en), f, s) = Table(PutAt(fl, f, s), ir, en)
<1>1. FT = Table(file, iref, ends)
  BY DEF FT, Table
<1>2. \A fl, ir, en, f : RefOne(Table(fl, ir, en), f) = Table(OneAt(fl, f), ir, en)
  BY DEF RefOne, Table, OneAt, SlotOne
<1>3. \A fl, ir, en, ip : IrefUp(Table(fl, ir, en), ip) = Table(fl, MoreAt(ir, ip), en)
  BY DEF IrefUp, Table, MoreAt
<1>4. \A fl, ir, en, f, s : SlotPut(Table(fl, ir, en), f, s) = Table(PutAt(fl, f, s), ir, en)
  BY DEF SlotPut, Table, PutAt
<1> QED
  BY <1>1, <1>2, <1>3, <1>4

\* A slot that filealloc() took and fileclose() gave back is as it was.
LEMMA SlotUndone ==
  ASSUME NEW fl \in [Files -> FileType], NEW ir, NEW en, NEW f \in Files, fl[f].ref = 0, fl[f].type = "NONE"
  PROVE  fileclose(Table(OneAt(fl, f), ir, en), f) = Table(fl, ir, en)
<1>1. fl[f] \in FileType
  OBVIOUS
<1>2. SlotOne(fl[f]) = [ref |-> 1, type |-> "NONE", ip |-> fl[f].ip, off |-> fl[f].off,
                        readable |-> fl[f].readable, writable |-> fl[f].writable]
  BY <1>1 DEF SlotOne, FileType
<1>3. PICK m : m = OneAt(fl, f)
  OBVIOUS
<1>4. SlotOne(fl[f]) \in FileType
  BY <1>1, <1>2 DEF FileType
<1>5. m \in [Files -> FileType] /\ m[f] = SlotOne(fl[f]) /\ \A g \in Files : g # f => m[g] = fl[g]
  BY <1>3, <1>4 DEF OneAt
<1>6. /\ m[f].ref = 1 /\ m[f].type = "NONE" /\ m[f].ip = fl[f].ip /\ m[f].off = fl[f].off
      /\ m[f].readable = fl[f].readable /\ m[f].writable = fl[f].writable
  BY <1>2, <1>5
<1>7. PICK n : /\ Closes(m, f, n)
               /\ fileclose(Table(m, ir, en), f) = Table(n, IrefsLeft(m, ir, f), EndsLeft(m, en, f))
  <2>1. m \in [Files -> FileType]
    BY <1>5
  <2> QED
    BY <2>1, FilecloseIs
<1>8. fileclose(Table(m, ir, en), f) = Table(n, ir, en)
  BY <1>6, <1>7 DEF IrefsLeft, EndsLeft
<1>9. n[f] = [ref |-> 0, type |-> "NONE", ip |-> fl[f].ip, off |-> fl[f].off,
              readable |-> fl[f].readable, writable |-> fl[f].writable]
  BY <1>6, <1>7 DEF Closes
<1>10. n[f] = fl[f]
  BY <1>1, <1>9 DEF FileType
<1>11. n = fl
  <2>1. \A g \in Files : n[g] = fl[g]
    BY <1>5, <1>7, <1>10 DEF Closes
  <2>2. n = [g \in Files |-> n[g]] /\ fl = [g \in Files |-> fl[g]]
    BY <1>7 DEF Closes
  <2> QED
    BY <2>1, <2>2
<1> QED
  BY <1>3, <1>8, <1>11

\* open(): the three outcomes.
LEMMA Step_sys_open ==
  ASSUME FilesInv, NEW p \in Procs, NEW x \in Inodes, NEW trunc \in BOOLEAN, NEW omode \in Modes,
         sys_open(p, x, trunc, omode)
  PROVE  FilesInv' /\ OffsKept /\ (OpenKept \/ \E f \in Files : OpenedAt(f, x))
<1>0. TypeOK /\ CallsOK /\ BlocksOwned /\ NoHoles /\ NoPanic /\ DescRefs
  BY Parts
<1>1. /\ file \in [Files -> FileType] /\ ofile \in OfileType
      /\ iref \in [Inodes -> Nat] /\ ends \in SUBSET BOOLEAN
  BY <1>0 DEF TypeOK, OfileType
<1>2. Counted(file, ofile) /\ SlotsOK(file, iref, ends)
  BY <1>0, DescIs
<1>3. call[p].pc = "user" /\ lock[x] = None /\ err' = err
  BY DEF sys_open, Busy
<1>4. CASE FreeFiles(FT) = {}
  <2>1. UNCHANGED <<bitmap, block, inode, iref, lock, file, ofile, ends, call, err>>
    BY <1>4 DEF sys_open, fdVars, diskVars
  <2>2. OpenKept
    BY <2>1 DEF OpenKept
  <2> QED
    BY <2>1, <2>2, Unchanged
<1>5. CASE FreeFiles(FT) # {}
  <2>1. PICK f \in Files : f = Min(FreeFiles(FT)) /\ file[f].ref = 0
    BY <1>5, FirstFile
  <2>2. file[f].type = "NONE"
    BY <1>2, <2>1 DEF SlotsOK
  <2>3. PICK m, jr : m = OneAt(file, f) /\ jr = MoreAt(iref, x)
    OBVIOUS
  <2>4. RefOne(IrefUp(FT, x), f) = Table(m, jr, ends)
    BY <2>3, TableOpens
  <2>5. CASE FreeFDs(ofile[p]) = {}
    <3>1. /\ SetFT(IrefDown(fileclose(RefOne(IrefUp(FT, x), f), f), x))
          /\ UNCHANGED <<bitmap, block, inode, lock, ofile, call, err>>
      BY <1>3, <1>5, <2>1, <2>5 DEF sys_open, diskVars, RefOne, IrefUp, IrefDown
    <3>2. fileclose(Table(m, jr, ends), f) = Table(file, jr, ends)
      BY <1>1, <2>1, <2>2, <2>3, SlotUndone
    <3>3. IrefDown(Table(file, jr, ends), x) = Table(file, LessAt(jr, x), ends)
      BY TableUpdates
    <3>4. LessAt(jr, x) = iref
      <4>1. jr = [ip \in Inodes |-> jr[ip]] /\ \A ip \in Inodes : jr[ip] = IF ip = x THEN iref[x] + 1 ELSE iref[ip]
        BY <1>1, <2>3 DEF MoreAt
      <4>2. PICK k : k = LessAt(jr, x)
        OBVIOUS
      <4>3. k = [ip \in Inodes |-> k[ip]] /\ \A ip \in Inodes : k[ip] = IF ip = x THEN jr[x] - 1 ELSE jr[ip]
        BY <4>1, <4>2 DEF LessAt
      <4>4. \A ip \in Inodes : k[ip] = iref[ip]
        BY <1>1, <4>1, <4>3
      <4>5. k = iref
        BY <1>1, <4>3, <4>4
      <4> QED
        BY <4>2, <4>5
    <3>5. SetFT(Table(file, iref, ends))
      BY <2>4, <3>1, <3>2, <3>3, <3>4
    <3>6. UNCHANGED <<file, iref, ends>>
      BY <3>5, TableIs DEF SetFT
    <3>7. OpenKept
      BY <3>6 DEF OpenKept
    <3> QED
      BY <3>1, <3>6, <3>7, Unchanged
  <2>6. CASE FreeFDs(ofile[p]) # {}
    <3>1. PICK e \in FDs : e = Min(FreeFDs(ofile[p])) /\ ofile[p][e] = None
      BY <2>6, FirstFD
    <3>2. PICK s : s = [ref |-> 1, type |-> "INODE", ip |-> x, off |-> 0,
                        readable |-> omode # "WRONLY", writable |-> omode # "RDONLY"]
      OBVIOUS
    <3>3. /\ SetFT(SlotPut(RefOne(IrefUp(FT, x), f), f, s))
          /\ ofile' = FdSet(ofile, p, e, f)
          /\ UNCHANGED <<bitmap, block, inode, err>>
          /\ \/ UNCHANGED <<lock, call>>
             \/ /\ lock' = [lock EXCEPT ![x] = p]
                /\ call' = [call EXCEPT ![p] = [pc |-> "trunc", ip |-> x, before |-> Bytes(x)]]
      BY <1>3, <1>5, <2>1, <2>6, <3>1, <3>2 DEF sys_open, Goto, RefOne, IrefUp, SlotPut, FdSet
    <3>4. SlotPut(Table(m, jr, ends), f, s) = Table(PutAt(m, f, s), jr, ends)
      BY TableOpens
    <3>5. file' = PutAt(m, f, s) /\ iref' = jr /\ ends' = ends
      BY <2>4, <3>3, <3>4, TableIs DEF SetFT
    <3>6. s \in FileType
      BY <3>2 DEF FileType
    <3>7. m = [g \in Files |-> m[g]] /\ \A g \in Files : g # f => m[g] = file[g]
      BY <1>1, <2>3 DEF OneAt
    <3>8. /\ file'[f] = s /\ file' = [g \in Files |-> file'[g]]
          /\ \A g \in Files : g # f => file'[g] = file[g]
      BY <3>5, <3>7 DEF PutAt
    <3>9. file' \in [Files -> FileType]
      <4>1. \A g \in Files : file'[g] \in FileType
        BY <1>1, <3>6, <3>8
      <4> QED
        BY <3>8, <4>1
    <3>10. file'[f].ref = 1 /\ file'[f].type = "INODE" /\ file'[f].ip = x
      BY <3>2, <3>8
    <3>11. SlotsOK(file', MoreAt(iref, x), ends)
      BY <1>1, <1>2, <2>1, <3>8, <3>9, <3>10, SlotOpened
    <3>12. f # None /\ f \in Files \cup {None} /\ None \notin Files
      BY SetsAssumption
    <3>13. ofile' \in OfileType /\ \A q \in Procs : q # p => ofile'[q] = ofile[q]
      BY <1>1, <3>3, <3>12, FdSetIs
    <3>14. Counted(file', ofile')
      <4> SUFFICES ASSUME NEW g \in Files PROVE file'[g].ref = Cardinality(Descs(ofile', g))
        BY DEF Counted
      <4>1. Cardinality(Descs(ofile', g)) = IF g = f THEN Cardinality(Descs(ofile, g)) + 1
                                            ELSE Cardinality(Descs(ofile, g))
        BY <1>1, <3>1, <3>3, <3>12, DescsSet
      <4>2. file[g].ref = Cardinality(Descs(ofile, g))
        BY <1>2 DEF Counted
      <4> QED
        BY <2>1, <3>8, <3>10, <4>1, <4>2
    <3>15. DescRefs'
      BY <2>3, <3>5, <3>11, <3>14, DescIs
    <3>16. iref' \in [Inodes -> Nat] /\ ends' \subseteq BOOLEAN
      BY <1>1, <2>3, <3>5 DEF MoreAt
    <3>17. ASSUME NEW q \in Procs, AtWork(q)
           PROVE  /\ ofile'[q] = ofile[q]
                  /\ file'[call[q].f].type = file[call[q].f].type
                  /\ file'[call[q].f].ip = file[call[q].f].ip
                  /\ file'[call[q].f].off = file[call[q].f].off
      <4>1. q # p
        BY <1>3, <3>17 DEF AtWork
      <4>2. call[q].f \in Files /\ file[call[q].f].ref # 0
        BY <1>0, <3>17, AtWorkOpen
      <4>3. file'[call[q].f] = file[call[q].f]
        BY <2>1, <3>8, <4>2
      <4> QED
        BY <3>13, <4>1, <4>3
    <3>18. FilesInv' /\ OffsKept
      <4>1. UNCHANGED <<bitmap, block, inode, err>>
        BY <3>3
      <4>2. CASE UNCHANGED <<lock, call>>
        BY <1>3, <3>9, <3>13, <3>15, <3>16, <3>17, <4>1, <4>2, TableStep
      <4>3. CASE /\ lock' = [lock EXCEPT ![x] = p]
                 /\ call' = [call EXCEPT ![p] = [pc |-> "trunc", ip |-> x, before |-> Bytes(x)]]
        <5>1. PICK b : b = Bytes(x)
          OBVIOUS
        <5>2. /\ lock[x] = None /\ lock' = [lock EXCEPT ![x] = p]
              /\ call' = [call EXCEPT ![p] = [pc |-> "trunc", ip |-> x, before |-> b]]
          BY <1>3, <4>3, <5>1
        <5> QED
          BY <1>3, <3>9, <3>13, <3>15, <3>16, <3>17, <4>1, <5>2, TableStep
      <4> QED
        BY <3>3, <4>2, <4>3
    <3>19. OpenedAt(f, x)
      BY <2>2, <3>2, <3>8 DEF OpenedAt
    <3> QED
      BY <3>18, <3>19
  <2> QED
    BY <2>5, <2>6
<1> QED
  BY <1>4, <1>5

\* What pipealloc() makes of a slot.
LEMMA PipeSlotIs ==
  ASSUME NEW s \in FileType, NEW w \in BOOLEAN
  PROVE  PipeSlot(s, w) = [ref |-> 1, type |-> "PIPE", ip |-> s.ip, off |-> s.off,
                           readable |-> ~w, writable |-> w]
<1>1. s = [ref |-> s.ref, type |-> s.type, ip |-> s.ip, off |-> s.off,
           readable |-> s.readable, writable |-> s.writable]
  BY DEF FileType
<1>2. PICK a : a = [s EXCEPT !.ref = 1]
  OBVIOUS
<1>3. PICK b : b = [a EXCEPT !.type = "PIPE"]
  OBVIOUS
<1>4. PICK c : c = [b EXCEPT !.readable = ~w]
  OBVIOUS
<1>5. a = [ref |-> 1, type |-> s.type, ip |-> s.ip, off |-> s.off,
           readable |-> s.readable, writable |-> s.writable]
  BY <1>1, <1>2
<1>6. b = [ref |-> 1, type |-> "PIPE", ip |-> s.ip, off |-> s.off,
           readable |-> s.readable, writable |-> s.writable]
  BY <1>3, <1>5
<1>7. c = [ref |-> 1, type |-> "PIPE", ip |-> s.ip, off |-> s.off,
           readable |-> ~w, writable |-> s.writable]
  BY <1>4, <1>6
<1>8. PipeSlot(s, w) = [c EXCEPT !.writable = w]
  BY <1>2, <1>3, <1>4 DEF PipeSlot
<1> QED
  BY <1>7, <1>8

\* A set of more than one slot or descriptor has a second element.
LEMMA Second ==
  ASSUME NEW S, IsFiniteSet(S), Cardinality(S) >= 2, NEW x
  PROVE  S \ {x} # {} /\ S # {}
<1>1. SUFFICES ASSUME S \ {x} = {} PROVE FALSE
  OBVIOUS
<1>2. CASE S = {}
  BY <1>2, FS_EmptySet
<1>3. CASE S # {}
  <2>1. S = {x}
    BY <1>1, <1>3
  <2>2. Cardinality({x}) = 1
    BY FS_Singleton
  <2> QED
    BY <2>1, <2>2
<1> QED
  BY <1>2, <1>3

\* The slots after pipealloc(): two that were free are the ends of the pipe.
PipeTable(n, rf, wf) ==
    /\ n \in [Files -> FileType]
    /\ n[rf].ref = 1 /\ n[rf].type = "PIPE" /\ n[rf].writable = FALSE
    /\ n[wf].ref = 1 /\ n[wf].type = "PIPE" /\ n[wf].writable = TRUE
    /\ n[rf].off = file[rf].off /\ n[wf].off = file[wf].off
    /\ \A g \in Files : (g # rf /\ g # wf) => n[g] = file[g]

\* The two slots that pipealloc() takes.
LEMMA TwoSlots ==
  ASSUME TypeOK, NEW rf \in Files, NEW wf \in Files, rf # wf, NEW n,
         n = [file EXCEPT ![rf] = PipeSlot(@, FALSE), ![wf] = PipeSlot(@, TRUE)]
  PROVE  PipeTable(n, rf, wf)
<1>1. file \in [Files -> FileType] /\ file[rf] \in FileType /\ file[wf] \in FileType
  BY DEF TypeOK
<1>2. PICK a, b : a = PipeSlot(file[rf], FALSE) /\ b = PipeSlot(file[wf], TRUE)
  OBVIOUS
<1>3. /\ a = [ref |-> 1, type |-> "PIPE", ip |-> file[rf].ip, off |-> file[rf].off,
              readable |-> ~FALSE, writable |-> FALSE]
      /\ b = [ref |-> 1, type |-> "PIPE", ip |-> file[wf].ip, off |-> file[wf].off,
              readable |-> ~TRUE, writable |-> TRUE]
  BY <1>1, <1>2, PipeSlotIs
<1>4. a \in FileType /\ b \in FileType
  BY <1>1, <1>3 DEF FileType
<1>5. n = [file EXCEPT ![rf] = a, ![wf] = b]
  BY <1>2
<1>6. n[rf] = a /\ n[wf] = b /\ \A g \in Files : (g # rf /\ g # wf) => n[g] = file[g]
  BY <1>1, <1>5
<1>7. n \in [Files -> FileType]
  BY <1>1, <1>4, <1>5
<1>8. a.ref = 1 /\ a.type = "PIPE" /\ b.ref = 1 /\ b.type = "PIPE"
  BY <1>3
<1>9. a.writable = FALSE /\ a.off = file[rf].off /\ b.off = file[wf].off
  BY <1>3
<1>10. b.writable = TRUE
  BY <1>3
<1> QED
  BY <1>6, <1>7, <1>8, <1>9, <1>10, Zenon DEF PipeTable

\* pipe(): the three outcomes.
LEMMA Step_sys_pipe ==
  ASSUME FilesInv, NEW p \in Procs, sys_pipe(p)
  PROVE  FilesInv' /\ OffsKept /\ OpenKept
<1>0. TypeOK /\ CallsOK /\ BlocksOwned /\ NoHoles /\ NoPanic /\ DescRefs
  BY Parts
<1>1. /\ file \in [Files -> FileType] /\ ofile \in OfileType
      /\ iref \in [Inodes -> Nat] /\ ends \in SUBSET BOOLEAN
  BY <1>0 DEF TypeOK, OfileType
<1>2. /\ call[p].pc = "user" /\ ends = {} /\ FreeFiles(FT) # {}
      /\ UNCHANGED <<bitmap, block, inode, lock, call, err>>
  BY DEF sys_pipe, Busy, diskVars
<1>3. Counted(file, ofile) /\ SlotsOK(file, iref, {})
  BY <1>0, <1>2, DescIs
<1>4. PICK rf \in Files : rf = Min(FreeFiles(FT)) /\ file[rf].ref = 0
  BY <1>2, FirstFile
<1>5. PICK wf : wf = Min(FreeFiles(FT) \ {rf})
  OBVIOUS
<1>6. PICK fd0, fd1 : fd0 = Min(FreeFDs(ofile[p])) /\ fd1 = Min(FreeFDs(ofile[p]) \ {fd0})
  OBVIOUS
<1>7. PICK n : n = [file EXCEPT ![rf] = PipeSlot(@, FALSE), ![wf] = PipeSlot(@, TRUE)]
  OBVIOUS
<1>8. \/ /\ Cardinality(FreeFiles(FT)) >= 2 /\ Cardinality(FreeFDs(ofile[p])) >= 2
         /\ SetFT(Table(n, iref, {FALSE, TRUE}))
         /\ ofile' = FdSet(FdSet(ofile, p, fd0, rf), p, fd1, wf)
      \/ /\ Cardinality(FreeFiles(FT)) >= 2
         /\ SetFT(fileclose(fileclose(Table(n, iref, {FALSE, TRUE}), rf), wf)) /\ UNCHANGED ofile
      \/ SetFT(fileclose(RefOne(FT, rf), rf)) /\ UNCHANGED ofile
  <2>1. FdSet(FdSet(ofile, p, fd0, rf), p, fd1, wf) = [ofile EXCEPT ![p][fd0] = rf, ![p][fd1] = wf]
    BY DEF FdSet
  <2>2. Table(n, iref, {FALSE, TRUE}) = [file |-> n, iref |-> iref, ends |-> {FALSE, TRUE}]
    BY DEF Table
  <2>3. RefOne(FT, rf) = [FT EXCEPT !.file[rf].ref = 1]
    BY DEF RefOne
  <2> QED
    BY <1>4, <1>5, <1>6, <1>7, <2>1, <2>2, <2>3, Zenon DEF sys_pipe
<1>9. CASE SetFT(fileclose(RefOne(FT, rf), rf)) /\ UNCHANGED ofile
  <2>1. file[rf].type = "NONE"
    BY <1>3, <1>4 DEF SlotsOK
  <2>2. RefOne(FT, rf) = Table(OneAt(file, rf), iref, ends)
    BY TableOpens
  <2>3. fileclose(Table(OneAt(file, rf), iref, ends), rf) = Table(file, iref, ends)
    BY <1>1, <1>4, <2>1, SlotUndone
  <2>4. SetFT(Table(file, iref, ends))
    BY <1>9, <2>2, <2>3
  <2>5. UNCHANGED <<file, iref, ends>>
    BY <2>4, TableIs DEF SetFT
  <2>6. OpenKept
    BY <2>5 DEF OpenKept
  <2> QED
    BY <1>2, <1>9, <2>5, <2>6, Unchanged
<1>10. ASSUME Cardinality(FreeFiles(FT)) >= 2
       PROVE  /\ wf \in Files /\ wf # rf /\ file[wf].ref = 0
              /\ PipeTable(n, rf, wf) /\ SlotsOK(n, iref, {FALSE, TRUE})
  <2>1. IsFiniteSet(FreeFiles(FT))
    <3>1. FreeFiles(FT) \subseteq Files
      BY DEF FreeFiles
    <3> QED
      BY <3>1, TableFinite, FS_Subset
  <2>2. FreeFiles(FT) \ {rf} # {}
    BY <1>10, <2>1, Second
  <2>3. wf \in FreeFiles(FT) \ {rf} /\ wf \in Files /\ file[wf].ref = 0
    BY <1>5, <2>2, FirstFile
  <2>4. wf # rf
    BY <2>3
  <2>5. PipeTable(n, rf, wf)
    BY <1>0, <1>7, <2>3, <2>4, TwoSlots
  <2>6. SlotsOK(n, iref, {FALSE, TRUE})
    BY <1>1, <1>3, <1>4, <2>3, <2>4, <2>5, PipeOpened DEF PipeTable
  <2> QED
    BY <2>3, <2>4, <2>5, <2>6
<1>11. ASSUME NEW q \in Procs, AtWork(q)
       PROVE  q # p /\ call[q].f \in Files /\ file[call[q].f].ref # 0
  <2>1. q # p
    BY <1>2, <1>11 DEF AtWork
  <2> QED
    BY <1>0, <1>11, <2>1, AtWorkOpen
<1>12. CASE /\ Cardinality(FreeFiles(FT)) >= 2
            /\ SetFT(fileclose(fileclose(Table(n, iref, {FALSE, TRUE}), rf), wf)) /\ UNCHANGED ofile
  <2>1. /\ wf \in Files /\ wf # rf /\ file[wf].ref = 0
        /\ PipeTable(n, rf, wf) /\ SlotsOK(n, iref, {FALSE, TRUE})
    BY <1>10, <1>12
  <2>2. n \in [Files -> FileType] /\ n[rf].ref = 1 /\ n[wf].ref = 1 /\ {FALSE, TRUE} \in SUBSET BOOLEAN
    BY <2>1 DEF PipeTable
  <2>3. PICK m \in [Files -> FileType], jr \in [Inodes -> Nat], em \in SUBSET BOOLEAN :
           /\ fileclose(Table(n, iref, {FALSE, TRUE}), rf) = Table(m, jr, em)
           /\ Closes(n, rf, m) /\ SlotsOK(m, jr, em)
    <3>1. PICK en \in SUBSET BOOLEAN : en = {FALSE, TRUE}
      BY <2>2
    <3>2. SlotsOK(n, iref, en) /\ n[rf].ref # 0
      BY <2>1, <2>2, <3>1
    <3>3. \E m \in [Files -> FileType], jr \in [Inodes -> Nat], em \in SUBSET BOOLEAN :
             /\ fileclose(Table(n, iref, en), rf) = Table(m, jr, em)
             /\ Closes(n, rf, m) /\ SlotsOK(m, jr, em)
      BY <1>1, <2>2, <3>2, TableClosed
    <3> QED
      BY <3>1, <3>3, Zenon
  <2>4. m[rf].ref = 0 /\ \A g \in Files : g # rf => m[g] = n[g]
    BY <2>2, <2>3 DEF Closes
  <2>5. m[wf].ref # 0
    BY <2>1, <2>2, <2>4
  <2>6. PICK k \in [Files -> FileType], kr \in [Inodes -> Nat], ek \in SUBSET BOOLEAN :
           /\ fileclose(Table(m, jr, em), wf) = Table(k, kr, ek)
           /\ Closes(m, wf, k) /\ SlotsOK(k, kr, ek)
    BY <2>1, <2>3, <2>5, TableClosed
  <2>7. k[wf].ref = 0 /\ \A g \in Files : g # wf => k[g] = m[g]
    BY <2>1, <2>2, <2>4, <2>6 DEF Closes
  <2>8. file' = k /\ iref' = kr /\ ends' = ek
    <3>1. SetFT(Table(k, kr, ek))
      BY <1>12, <2>3, <2>6
    <3> QED
      BY <3>1, TableIs DEF SetFT
  <2>9. /\ file'[rf].ref = 0 /\ file'[wf].ref = 0
        /\ \A g \in Files : (g # rf /\ g # wf) => file'[g] = file[g]
    BY <2>1, <2>4, <2>7, <2>8 DEF PipeTable
  <2>10. Counted(file', ofile')
    <3> SUFFICES ASSUME NEW g \in Files PROVE file'[g].ref = Cardinality(Descs(ofile', g))
      BY DEF Counted
    <3>1. file'[g].ref = file[g].ref
      BY <1>4, <2>1, <2>9
    <3>2. Descs(ofile', g) = Descs(ofile, g)
      BY <1>12
    <3> QED
      BY <1>3, <3>1, <3>2 DEF Counted
  <2>11. DescRefs'
    BY <2>6, <2>8, <2>10, DescIs
  <2>12. ofile' \in OfileType /\ file' \in [Files -> FileType] /\ iref' \in [Inodes -> Nat]
         /\ ends' \subseteq BOOLEAN
    BY <1>1, <1>12, <2>6, <2>8
  <2>13. ASSUME NEW q \in Procs, AtWork(q)
         PROVE  /\ ofile'[q] = ofile[q]
                /\ file'[call[q].f].type = file[call[q].f].type
                /\ file'[call[q].f].ip = file[call[q].f].ip
                /\ file'[call[q].f].off = file[call[q].f].off
    <3>1. call[q].f \in Files /\ call[q].f # rf /\ call[q].f # wf
      BY <1>4, <1>11, <2>1, <2>13
    <3>2. file'[call[q].f] = file[call[q].f]
      BY <2>9, <3>1
    <3> QED
      BY <1>12, <3>2
  <2>14. OpenKept
    <3>1. file[rf].type = "NONE" /\ file[wf].type = "NONE"
      BY <1>3, <1>4, <2>1 DEF SlotsOK
    <3>2. m[rf].type = "NONE" /\ m[rf].off = n[rf].off
      BY <2>2, <2>3 DEF Closes
    <3>3. k[wf].type = "NONE" /\ k[wf].off = m[wf].off
      BY <2>1, <2>2, <2>4, <2>6 DEF Closes
    <3>4. n[rf].off = file[rf].off /\ n[wf].off = file[wf].off
      BY <2>1 DEF PipeTable
    <3>5. file'[rf].type = "NONE" /\ file'[rf].off = file[rf].off
      BY <2>1, <2>7, <2>8, <3>2, <3>4
    <3>6. file'[wf].type = "NONE" /\ file'[wf].off = file[wf].off
      BY <2>1, <2>4, <2>8, <3>3, <3>4
    <3> QED
      BY <2>9, <3>1, <3>5, <3>6 DEF OpenKept
  <2>15. FilesInv' /\ OffsKept
    BY <1>2, <2>11, <2>12, <2>13, TableStep
  <2> QED
    BY <2>14, <2>15
<1>13. CASE /\ Cardinality(FreeFiles(FT)) >= 2 /\ Cardinality(FreeFDs(ofile[p])) >= 2
            /\ SetFT(Table(n, iref, {FALSE, TRUE}))
            /\ ofile' = FdSet(FdSet(ofile, p, fd0, rf), p, fd1, wf)
  <2>1. /\ wf \in Files /\ wf # rf /\ file[wf].ref = 0
        /\ PipeTable(n, rf, wf) /\ SlotsOK(n, iref, {FALSE, TRUE})
    BY <1>10, <1>13
  <2>2. file' = n /\ iref' = iref /\ ends' = {FALSE, TRUE}
    BY <1>13, TableIs DEF SetFT
  <2>3. /\ fd0 \in FDs /\ fd1 \in FDs /\ fd0 # fd1 /\ ofile[p][fd0] = None /\ ofile[p][fd1] = None
    <3> DEFINE S == FreeFDs(ofile[p])
    <3>1. S \subseteq FDs /\ S \subseteq Nat /\ \A e \in S : ofile[p][e] = None
      BY Sizes DEF FreeFDs, FDs
    <3>2. IsFiniteSet(S) /\ Cardinality(S) >= 2
      BY <1>13, <3>1, TableFinite, FS_Subset
    <3>3. fd0 = Min(S) /\ fd1 = Min(S \ {fd0})
      BY <1>6
    <3> HIDE DEF S
    <3>4. S # {} /\ S \ {fd0} # {}
      BY <3>2, Second
    <3>5. S \ {fd0} \subseteq Nat
      BY <3>1
    <3>6. fd0 \in S /\ fd1 \in S \ {fd0}
      BY <3>1, <3>3, <3>4, <3>5, Least
    <3> QED
      BY <3>1, <3>6
  <2>4. None \notin Files /\ rf \in Files \cup {None} /\ wf \in Files \cup {None}
    BY <2>1, SetsAssumption
  <2>5. PICK o : o = FdSet(ofile, p, fd0, rf)
    OBVIOUS
  <2>6. o \in OfileType /\ o[p][fd1] = None /\ \A q \in Procs : q # p => o[q] = ofile[q]
    BY SMTT(30), <1>1, <2>3, <2>4, <2>5, FdSetIs
  <2>7. ofile' = FdSet(o, p, fd1, wf)
    BY <1>13, <2>5
  <2>8. ofile' \in OfileType /\ \A q \in Procs : q # p => ofile'[q] = ofile[q]
    BY SMTT(30), <2>3, <2>4, <2>6, <2>7, FdSetIs
  <2>9. Counted(file', ofile')
    <3> SUFFICES ASSUME NEW g \in Files PROVE file'[g].ref = Cardinality(Descs(ofile', g))
      BY DEF Counted
    <3>1. g # None /\ rf # None /\ wf # None
      BY <2>1, <2>4
    <3>2. Cardinality(Descs(o, g)) = IF g = rf THEN Cardinality(Descs(ofile, g)) + 1
                                     ELSE Cardinality(Descs(ofile, g))
      BY <1>1, <2>3, <2>4, <2>5, <3>1, DescsSet
    <3>3. Cardinality(Descs(ofile', g)) = IF g = wf THEN Cardinality(Descs(o, g)) + 1
                                          ELSE Cardinality(Descs(o, g))
      BY <2>3, <2>4, <2>6, <2>7, <3>1, DescsSet
    <3>4. file[g].ref = Cardinality(Descs(ofile, g))
      BY <1>3 DEF Counted
    <3>5. /\ n[rf].ref = 1 /\ n[wf].ref = 1 /\ \A h \in Files : (h # rf /\ h # wf) => n[h] = file[h]
      BY <2>1 DEF PipeTable
    <3> QED
      BY <1>4, <2>1, <2>2, <3>2, <3>3, <3>4, <3>5
  <2>10. DescRefs'
    BY <2>1, <2>2, <2>9, DescIs
  <2>11. file' \in [Files -> FileType] /\ iref' \in [Inodes -> Nat] /\ ends' \subseteq BOOLEAN
    BY <1>1, <2>1, <2>2 DEF PipeTable
  <2>12. ASSUME NEW q \in Procs, AtWork(q)
         PROVE  /\ ofile'[q] = ofile[q]
                /\ file'[call[q].f].type = file[call[q].f].type
                /\ file'[call[q].f].ip = file[call[q].f].ip
                /\ file'[call[q].f].off = file[call[q].f].off
    <3>1. q # p /\ call[q].f \in Files /\ call[q].f # rf /\ call[q].f # wf
      BY <1>4, <1>11, <2>1, <2>12
    <3>2. file'[call[q].f] = file[call[q].f]
      BY <2>1, <2>2, <3>1 DEF PipeTable
    <3> QED
      BY <2>8, <3>1, <3>2
  <2>13. OpenKept
    <3>1. file[rf].type = "NONE" /\ file[wf].type = "NONE"
      BY <1>3, <1>4, <2>1 DEF SlotsOK
    <3> QED
      BY <2>1, <2>2, <3>1 DEF OpenKept, PipeTable
  <2>14. FilesInv' /\ OffsKept
    BY <1>2, <2>8, <2>10, <2>11, <2>12, TableStep
  <2> QED
    BY <2>13, <2>14
<1> QED
  BY <1>8, <1>9, <1>12, <1>13
-----------------------------------------------------------------------------
(***************************************************************************)
(* The theorems.                                                           *)
(***************************************************************************)

\* At boot nothing is allocated, and the one open file has a descriptor in
\* every process.
LEMMA InitInv == Init => FilesInv
<1> SUFFICES ASSUME Init PROVE FilesInv
  OBVIOUS
<1>1. PICK x \in Inodes : x = CHOOSE ip \in Inodes : TRUE
  BY SetsAssumption
<1>2. PICK s : s = [ref |-> Cardinality(Procs), type |-> "INODE", ip |-> x,
                    off |-> 0, readable |-> TRUE, writable |-> TRUE]
  OBVIOUS
<1>3. /\ bitmap = {} /\ block = [b \in Blocks |-> ZeroBlock]
      /\ inode = [ip \in Inodes |-> [addrs |-> [i \in 0..NDIRECT |-> 0], size |-> 0]]
      /\ lock = [ip \in Inodes |-> None]
      /\ file = [f \in Files |-> IF f = 1 THEN s ELSE NoFile]
      /\ iref = [ip \in Inodes |-> IF ip = x THEN 1 ELSE 0]
      /\ ofile = [p \in Procs |-> [fd \in FDs |-> IF fd = 0 THEN 1 ELSE None]]
      /\ ends = {} /\ call = [p \in Procs |-> User] /\ err = {}
  BY <1>1, <1>2 DEF Init
<1>4. 1 \in Files /\ 0 \in FDs /\ None \notin Files /\ None \notin Procs
  BY Sizes, SetsAssumption DEF Files, FDs
<1>5. IsFiniteSet(Procs) /\ Cardinality(Procs) \in Nat
  BY SetsAssumption, FS_CardinalityType
<1>6. s \in FileType /\ NoFile \in FileType
  BY <1>2, <1>5 DEF FileType, NoFile
<1>7. TypeOK
  <2>1. ZeroBlock \in BlockType
    BY DEF ZeroBlock, BlockType
  <2>2. [addrs |-> [i \in 0..NDIRECT |-> 0], size |-> 0] \in InodeType
    BY Sizes DEF InodeType
  <2>3. block \in [Blocks -> BlockType] /\ inode \in [Inodes -> InodeType] /\ file \in [Files -> FileType]
    BY <1>3, <1>6, <2>1, <2>2
  <2>4. ofile \in [Procs -> [FDs -> Files \cup {None}]]
    BY <1>3, <1>4
  <2>5. /\ bitmap \subseteq Blocks /\ iref \in [Inodes -> Nat] /\ lock \in [Inodes -> Procs \cup {None}]
        /\ ends \subseteq BOOLEAN /\ call = [p \in Procs |-> call[p]]
    BY <1>3
  <2> QED
    BY <2>3, <2>4, <2>5 DEF TypeOK
<1>8. \A p \in Procs : call[p].pc = "user"
  BY <1>3 DEF User
<1>9. CallsOK
  <2> SUFFICES ASSUME NEW p \in Procs PROVE CallOK(p)
    BY DEF CallsOK
  <2>1. call[p].pc = "user" /\ \A ip \in Inodes : lock[ip] # p
    BY <1>3, <1>4, <1>8
  <2> QED
    BY <2>1 DEF CallOK
<1>10. \A ip \in Inodes, j \in Entries : Ref(ip, j) = 0
  <2> SUFFICES ASSUME NEW ip \in Inodes, NEW j \in Entries PROVE Ref(ip, j) = 0
    OBVIOUS
  <2>1. \A i \in 0..NDIRECT : inode[ip].addrs[i] = 0
    BY <1>3
  <2>2. NDIRECT \in 0..NDIRECT /\ (j <= NDIRECT => j \in 0..NDIRECT)
    BY PlaceKinds, Sizes
  <2> QED
    BY <2>1, <2>2 DEF Ref
<1>11. \A q \in Procs : New(q) = 0
  BY <1>8 DEF New, Busy
<1>12. BlocksOwned
  <2>1. \A t \in Places : Refs[t] = 0
    <3> SUFFICES ASSUME NEW t \in Places PROVE Refs[t] = 0
      OBVIOUS
    <3>1. ASSUME NEW ip \in Inodes, NEW j \in Entries, t = <<ip, j>> PROVE Refs[t] = 0
      BY <1>10, <3>1, RefsAt
    <3>2. ASSUME NEW q \in Procs, t = <<q, -1>> PROVE Refs[t] = 0
      BY <1>11, <3>2, RefsAt
    <3> QED
      BY <3>1, <3>2, PlaceKinds, Zenon
  <2>2. DOMAIN Refs = Places
    BY RefsAt
  <2> QED
    BY <1>3, <2>1, <2>2 DEF BlocksOwned
<1>13. NoHoles
  <2> SUFFICES ASSUME NEW ip \in Inodes PROVE NoHole(ip)
    BY DEF NoHoles
  <2>1. lock[ip] = None /\ inode[ip].size = 0
    BY <1>3
  <2>2. HasBlocks(ip, inode[ip].size)
    BY <2>1 DEF HasBlocks
  <2> QED
    BY <1>4, <2>1, <2>2 DEF NoHole
<1>14. file[1] = s /\ \A f \in Files : f # 1 => file[f] = NoFile
  BY <1>3, <1>4
<1>15. Cardinality(Procs) # 0
  BY SetsAssumption, FS_EmptySet
<1>16. Counted(file, ofile)
  <2> SUFFICES ASSUME NEW f \in Files PROVE file[f].ref = Cardinality(Descs(ofile, f))
    BY DEF Counted
  <2>1. \A q \in Procs, e \in FDs : ofile[q][e] = IF e = 0 THEN 1 ELSE None
    BY <1>3
  <2>2. CASE f = 1
    <3>1. Descs(ofile, f) = Procs \X {0}
      BY <1>4, <2>1, <2>2 DEF Descs
    <3>2. IsFiniteSet({0}) /\ Cardinality({0}) = 1
      BY FS_Singleton
    <3>3. Cardinality(Procs \X {0}) = Cardinality(Procs) * Cardinality({0})
      BY <1>5, <3>2, FS_Product
    <3>4. Cardinality(Procs \X {0}) = Cardinality(Procs)
      BY <1>5, <3>2, <3>3
    <3>5. file[f].ref = Cardinality(Procs)
      BY <1>2, <1>14, <2>2
    <3> QED
      BY <3>1, <3>4, <3>5
  <2>3. CASE f # 1
    <3>1. Descs(ofile, f) = {}
      BY <1>4, <2>1, <2>3 DEF Descs
    <3>2. file[f].ref = 0
      BY <1>14, <2>3 DEF NoFile
    <3> QED
      BY <3>1, <3>2, FS_EmptySet
  <2> QED
    BY <2>2, <2>3
<1>17. SlotsOK(file, iref, ends)
  <2>1. s.ref = Cardinality(Procs) /\ s.type = "INODE" /\ s.ip = x
    BY <1>2
  <2>2. NoFile.ref = 0 /\ NoFile.type = "NONE"
    BY DEF NoFile
  <2>3. Cardinality(Procs) > 0
    BY <1>5, <1>15
  <2>4. ASSUME NEW ip \in Inodes PROVE iref[ip] = Cardinality(Opens(file, ip))
    <3>1. CASE ip = x
      <4>1. Opens(file, ip) = {1}
        BY <1>4, <1>14, <2>1, <2>2, <2>3, <3>1 DEF Opens
      <4>2. Cardinality({1}) = 1
        BY FS_Singleton
      <4> QED
        BY <1>3, <3>1, <4>1, <4>2
    <3>2. CASE ip # x
      <4>1. Opens(file, ip) = {}
        BY <1>4, <1>14, <2>1, <2>2, <3>2 DEF Opens
      <4> QED
        BY <1>3, <3>2, <4>1, FS_EmptySet
    <3> QED
      BY <3>1, <3>2
  <2>5. \A f \in Files : file[f].type # "PIPE"
    BY <1>14, <2>1, <2>2
  <2>6. ends = PipeEnds(file)
    BY <1>3, <2>5 DEF PipeEnds
  <2>7. \A f \in Files : /\ file[f].ref = 0 <=> file[f].type = "NONE"
                         /\ file[f].type = "INODE" => file[f].ip \in Inodes
    BY <1>14, <1>15, <2>1, <2>2
  <2> QED
    BY <2>4, <2>5, <2>6, <2>7 DEF SlotsOK
<1>18. DescRefs
  BY <1>16, <1>17, DescIs
<1> QED
  BY <1>3, <1>7, <1>9, <1>12, <1>13, <1>18 DEF FilesInv, AllocInv, NoPanic

\* Every step keeps the invariant.
LEMMA NextInv == FilesInv /\ [Next]_vars => FilesInv'
<1> SUFFICES ASSUME FilesInv, [Next]_vars PROVE FilesInv'
  OBVIOUS
<1>1. ASSUME NEW p \in Procs, NEW fd \in FDs, NEW n \in Lengths, sys_write(p, fd, n) PROVE FilesInv'
  BY <1>1, Step_sys_write
<1>2. ASSUME NEW p \in Procs, NEW fd \in FDs, NEW n \in Lengths, sys_read(p, fd, n) PROVE FilesInv'
  BY <1>2, Step_sys_read
<1>3. ASSUME NEW p \in Procs, NEW fd \in FDs, sys_dup(p, fd) PROVE FilesInv'
  BY <1>3, Step_sys_dup
<1>4. ASSUME NEW p \in Procs, NEW fd \in FDs, sys_close(p, fd) PROVE FilesInv'
  BY <1>4, Step_sys_close
<1>5. ASSUME NEW p \in Procs, write_begin(p) PROVE FilesInv'
  BY <1>5, Step_write_begin
<1>6. ASSUME NEW p \in Procs, balloc(p) PROVE FilesInv'
  BY <1>6, Step_balloc
<1>7. ASSUME NEW p \in Procs, bzero(p) PROVE FilesInv'
  BY <1>7, Step_bzero
<1>8. ASSUME NEW p \in Procs, write_copy(p) PROVE FilesInv'
  BY <1>8, Step_write_copy
<1>9. ASSUME NEW p \in Procs, write_fault(p) PROVE FilesInv'
  BY <1>9, Step_write_fault
<1>10. ASSUME NEW p \in Procs, write_done(p) PROVE FilesInv'
  BY <1>10, Step_write_done
<1>11. ASSUME NEW p \in Procs, itrunc_free(p) PROVE FilesInv'
  BY <1>11, Step_itrunc_free
<1>12. ASSUME NEW p \in Procs, itrunc_end(p) PROVE FilesInv'
  BY <1>12, Step_itrunc_end
<1>13. ASSUME NEW p \in Procs, NEW ip \in Inodes, NEW trunc \in BOOLEAN, NEW omode \in Modes,
              sys_open(p, ip, trunc, omode)
       PROVE  FilesInv'
  BY <1>13, Step_sys_open
<1>14. ASSUME NEW p \in Procs, sys_pipe(p) PROVE FilesInv'
  BY <1>14, Step_sys_pipe
<1>15. ASSUME NEW p \in Procs, NEW q \in Procs, fork(p, q) PROVE FilesInv'
  BY <1>15, Step_fork
<1>16. CASE UNCHANGED vars
  BY <1>16, Unchanged DEF vars
<1>17. CASE Finished
  BY <1>17, Unchanged DEF Finished, vars
<1> QED
  BY <1>1, <1>2, <1>3, <1>4, <1>5, <1>6, <1>7, <1>8, <1>9, <1>10, <1>11, <1>12, <1>13, <1>14, <1>15,
     <1>16, <1>17, Zenon DEF Next

\* Blocks and descriptors are in order in every reachable state.
THEOREM FilesInvariant == Spec => []FilesInv
BY InitInv, NextInv, PTL DEF Spec

\* The bitmap marks exactly the blocks that one inode refers to in one place or
\* that balloc() is about to hand out, files have no holes, and neither "freeing
\* free block", "fileclose" nor an allocation by read() can happen.
THEOREM AllocationExact == Spec => []AllocInv
<1>1. FilesInv => AllocInv
  BY DEF FilesInv
<1> QED
  BY <1>1, FilesInvariant, PTL

\* ref counts the descriptors of a slot, an inode has one reference per open
\* file, and a pipe end is open while one slot refers to it.
THEOREM DescriptorsExact == Spec => []DescRefs
<1>1. FilesInv => DescRefs
  BY DEF FilesInv
<1> QED
  BY <1>1, FilesInvariant, PTL
-----------------------------------------------------------------------------
(***************************************************************************)
(* How many blocks a transaction writes.                                   *)
(***************************************************************************)

\* The entries that n bytes from off on fall into, and the ones of them that
\* have their first byte there.
Touched(off, n) == {EntryOf(o) : o \in off..(off + n - 1)}
Begun(off, n) == {EntryOf(o) : o \in {i \in off..(off + n - 1) : i % BSIZE = 0}}

\* The block of entry e of the file p writes, or the one it will have.
Target(p, e) ==
    IF call[p].pc = "zero" /\ e = Missing(call[p].ip, WriteOff(p)) THEN call[p].new
    ELSE Ref(call[p].ip, e)

\* What the chunk p is writing may pass to log_write(): the blocks it falls
\* into, and the bitmap blocks of those it begins.  A block that it does not
\* begin is there already, since files have no holes.
MayWrite(p) ==
    LET off == file[call[p].f].off IN
    {DataBlock(Target(p, e)) :
        e \in {i \in Touched(off, call[p].n1) \cup {NDIRECT} : Target(p, i) # 0}}
    \cup {BitmapBlock(Target(p, e)) :
        e \in {i \in Begun(off, call[p].n1) \cup {NDIRECT} : Target(p, i) # 0}}

TxnOK(p) ==
    /\ call[p].pc \in {"map", "zero"} => call[p].n1 <= filewrite_max /\ txn[p] \subseteq MayWrite(p)
    /\ call[p].pc = "trunc" => txn[p] \subseteq {BitmapBlock(b) : b \in Blocks}
    /\ call[p].pc \in {"user", "begin"} => 
           IsFiniteSet(txn[p]) /\ Cardinality(txn[p]) <= MAXOPBLOCKS /\ Cardinality(txn[p]) <= CHUNKBLOCKS
TxnInv == txn = [p \in Procs |-> txn[p]] /\ \A p \in Procs : TxnOK(p)

\* The bounds are numbers, and stay what they are.
LEMMA ChunkConst ==
  /\ CHUNKBLOCKS' = CHUNKBLOCKS /\ CHUNKBLOCKS \in Nat /\ NBLOCKS \div BPB \in Nat
  /\ CHUNKBLOCKS = (MAXOPBLOCKS - 1 - 1 - 2) \div 2 + 3 + (NBLOCKS \div BPB + 1)
<1>1. BPB \in Nat \ {0} /\ NBLOCKS \in Nat /\ MAXOPBLOCKS \in Nat /\ MAXOPBLOCKS >= 6
  BY SizesAssumption
<1>2. NBLOCKS \div BPB \in Nat /\ (MAXOPBLOCKS - 1 - 1 - 2) \div 2 \in Nat
  BY <1>1
<1> QED
  BY <1>2 DEF CHUNKBLOCKS

\* With a single bitmap block, a chunk leaves some of its reservation unused.
LEMMA ChunkBelow ==
  ASSUME NBLOCKS < BPB
  PROVE  CHUNKBLOCKS < MAXOPBLOCKS
<1>1. BPB \in Nat \ {0} /\ NBLOCKS \in Nat /\ MAXOPBLOCKS \in Nat /\ MAXOPBLOCKS >= 6
  BY SizesAssumption
<1>2. NBLOCKS \div BPB = 0
  BY <1>1
<1>3. (MAXOPBLOCKS - 1 - 1 - 2) \div 2 + 4 < MAXOPBLOCKS
  BY <1>1
<1> DEFINE k == (MAXOPBLOCKS - 1 - 1 - 2) \div 2
<1>4. CHUNKBLOCKS = k + 3 + (0 + 1)
  BY <1>2, ChunkConst, Zenon
<1>5. k \in Nat /\ k + 4 < MAXOPBLOCKS
  BY <1>1, <1>3
<1> HIDE DEF k
<1> QED
  BY <1>1, <1>4, <1>5

\* A set of values of a function is no larger than the domain.
LEMMA ImageSmall ==
  ASSUME NEW S, IsFiniteSet(S), NEW f, DOMAIN f = S, NEW T, T \subseteq {f[x] : x \in S}
  PROVE  IsFiniteSet(T) /\ Cardinality(T) <= Cardinality(S)
<1> DEFINE V == {x \in S : f[x] \in T}
           g == [x \in V |-> f[x]]
<1>1. IsFiniteSet(V) /\ Cardinality(V) <= Cardinality(S)
  BY FS_Subset
<1>2. g \in Surjection(V, T)
  <2>1. g \in [V -> T]
    OBVIOUS
  <2>2. \A t \in T : \E x \in V : g[x] = t
    OBVIOUS
  <2> QED
    BY <2>1, <2>2 DEF Surjection
<1>3. IsFiniteSet(T) /\ Cardinality(T) <= Cardinality(V)
  BY <1>1, <1>2, FS_Surjection
<1>4. Cardinality(T) \in Nat /\ Cardinality(V) \in Nat /\ Cardinality(S) \in Nat
  BY <1>1, <1>3, FS_CardinalityType
<1> QED
  BY <1>1, <1>3, <1>4

Entry(b) == IF b < NDIRECT THEN b ELSE b + 1

\* Entries whose blocks are in a range of k blocks.
LEMMA RangeSmall ==
  ASSUME NEW a \in Nat, NEW k \in Nat, NEW T, T \subseteq {Entry(b) : b \in a..(a + k - 1)}
  PROVE  IsFiniteSet(T) /\ Cardinality(T) <= k
<1> DEFINE S == a..(a + k - 1)
           f == [b \in S |-> Entry(b)]
<1>1. IsFiniteSet(S) /\ Cardinality(S) = k
  <2>1. a \in Int /\ a + k - 1 \in Int
    OBVIOUS
  <2>2. IsFiniteSet(S) /\ Cardinality(S) = IF a > a + k - 1 THEN 0 ELSE (a + k - 1) - a + 1
    BY <2>1, FS_Interval
  <2> QED
    BY <2>2
<1>2. DOMAIN f = S /\ T \subseteq {f[x] : x \in S}
  OBVIOUS
<1> HIDE DEF f, S
<1> QED
  BY <1>1, <1>2, ImageSmall

\* n bytes, at most k blocks of them, fall into k + 1 blocks and begin k.
LEMMA TouchedSmall ==
  ASSUME NEW off \in Nat, NEW n \in Nat, NEW k \in Nat, n <= k * BSIZE
  PROVE  /\ IsFiniteSet(Touched(off, n)) /\ Cardinality(Touched(off, n)) <= k + 1
         /\ IsFiniteSet(Begun(off, n)) /\ Cardinality(Begun(off, n)) <= k
<1>1. BSIZE \in Nat \ {0} /\ k * BSIZE \in Nat
  BY Sizes
<1> DEFINE d == off \div BSIZE
           r == off % BSIZE
           c == IF r = 0 THEN d ELSE d + 1
<1>2. d \in Nat /\ r \in 0..(BSIZE - 1) /\ off = d * BSIZE + r
  BY DivMod
<1> HIDE DEF d, r
<1>3. c \in Nat /\ c * BSIZE >= off /\ (c - 1) * BSIZE < off
  <2>1. CASE r = 0
    <3>1. (d - 1) * BSIZE = d * BSIZE - BSIZE
      BY <1>1, <1>2
    <3> QED
      BY <1>1, <1>2, <2>1, <3>1
  <2>2. CASE r # 0
    <3>1. (d + 1) * BSIZE = d * BSIZE + BSIZE /\ (d + 1) - 1 = d
      BY <1>1, <1>2
    <3> QED
      BY <1>1, <1>2, <2>2, <3>1
  <2> QED
    BY <2>1, <2>2
<1>4. ASSUME NEW o \in off..(off + n - 1)
      PROVE  /\ o \div BSIZE \in d..(d + (k + 1) - 1) /\ EntryOf(o) = Entry(o \div BSIZE)
             /\ o % BSIZE = 0 => o \div BSIZE \in c..(c + k - 1)
  <2> DEFINE b == o \div BSIZE
             s == o % BSIZE
  <2>1. o \in Nat /\ off <= o /\ o < off + k * BSIZE
    BY <1>1
  <2>2. b \in Nat /\ s \in 0..(BSIZE - 1) /\ o = b * BSIZE + s
    BY <2>1, DivMod
  <2>3. EntryOf(o) = Entry(b)
    BY DEF EntryOf, Entry
  <2> HIDE DEF b, s, c
  <2>4. b >= d
    <3>1. SUFFICES ASSUME b <= d - 1 PROVE FALSE
      BY <1>2, <2>2
    <3>2. b * BSIZE <= (d - 1) * BSIZE
      BY <1>1, <1>2, <2>2, <3>1
    <3>3. (d - 1) * BSIZE = d * BSIZE - BSIZE
      BY <1>1, <1>2
    <3> QED
      BY <1>1, <1>2, <2>1, <2>2, <3>2, <3>3
  <2>5. b <= d + k
    <3>1. SUFFICES ASSUME b >= d + k + 1 PROVE FALSE
      BY <1>2, <2>2
    <3>2. b * BSIZE >= (d + k + 1) * BSIZE
      BY <1>1, <1>2, <2>2, <3>1
    <3>3. (d + k + 1) * BSIZE = d * BSIZE + k * BSIZE + BSIZE
      BY <1>1, <1>2
    <3> QED
      BY <1>1, <1>2, <2>1, <2>2, <3>2, <3>3
  <2>6. ASSUME s = 0 PROVE b >= c
    <3>1. SUFFICES ASSUME b <= c - 1 PROVE FALSE
      BY <1>3, <2>2
    <3>2. b * BSIZE <= (c - 1) * BSIZE
      BY <1>1, <1>3, <2>2, <3>1
    <3> QED
      BY <1>1, <1>3, <2>1, <2>2, <2>6, <3>2
  <2>7. ASSUME s = 0 PROVE b <= c + k - 1
    <3>1. SUFFICES ASSUME b >= c + k PROVE FALSE
      BY <1>3, <2>2
    <3>2. b * BSIZE >= (c + k) * BSIZE
      BY <1>1, <1>3, <2>2, <3>1
    <3>3. (c + k) * BSIZE = c * BSIZE + k * BSIZE
      BY <1>1, <1>3
    <3> QED
      BY <1>1, <1>3, <2>1, <2>2, <2>7, <3>2, <3>3
  <2> QED
    BY <1>2, <1>3, <2>2, <2>3, <2>4, <2>5, <2>6, <2>7 DEF b, s
<1> HIDE DEF c
<1>5. Touched(off, n) \subseteq {Entry(b) : b \in d..(d + (k + 1) - 1)}
  BY <1>4 DEF Touched
<1>6. Begun(off, n) \subseteq {Entry(b) : b \in c..(c + k - 1)}
  BY <1>4 DEF Begun
<1>7. k + 1 \in Nat
  OBVIOUS
<1>8. IsFiniteSet(Touched(off, n)) /\ Cardinality(Touched(off, n)) <= k + 1
  BY <1>2, <1>5, <1>7, RangeSmall
<1>9. IsFiniteSet(Begun(off, n)) /\ Cardinality(Begun(off, n)) <= k
  BY <1>3, <1>6, RangeSmall
<1> QED
  BY <1>8, <1>9

\* The entries that a chunk falls into are entries of an inode.
LEMMA TouchedIn ==
  ASSUME NEW off \in Nat, NEW n \in Nat, off + n <= MAXFILE * BSIZE
  PROVE  Touched(off, n) \subseteq Entries /\ Begun(off, n) \subseteq Entries
<1>1. ASSUME NEW o \in off..(off + n - 1) PROVE EntryOf(o) \in Entries
  <2>1. o \in Nat /\ o < MAXFILE * BSIZE
    BY Sizes
  <2> QED
    BY <2>1, EntryIn
<1> QED
  BY <1>1 DEF Touched, Begun

\* There are NBLOCKS \div BPB + 1 bitmap blocks.
LEMMA BitmapSmall ==
  ASSUME NEW T, T \subseteq {BitmapBlock(b) : b \in Blocks}
  PROVE  IsFiniteSet(T) /\ Cardinality(T) <= NBLOCKS \div BPB + 1
<1> DEFINE m == NBLOCKS \div BPB
           S == 0..m
           f == [i \in S |-> <<"bitmap", i>>]
<1>1. BPB \in Nat \ {0} /\ NBLOCKS \in Nat /\ m \in Nat
  BY SizesAssumption
<1>2. ASSUME NEW b \in Blocks PROVE b \div BPB \in S
  <2>1. b \in Nat /\ b <= NBLOCKS
    BY <1>1 DEF Blocks
  <2> QED
    BY <1>1, <2>1
<1>3. IsFiniteSet(S) /\ Cardinality(S) = m + 1
  <2>1. 0 \in Int /\ m \in Int
    BY <1>1
  <2>2. IsFiniteSet(S) /\ Cardinality(S) = IF 0 > m THEN 0 ELSE m - 0 + 1
    BY <2>1, FS_Interval
  <2> QED
    BY <1>1, <2>2
<1>4. T \subseteq {f[i] : i \in S}
  BY <1>2 DEF BitmapBlock
<1>5. DOMAIN f = S
  OBVIOUS
<1> HIDE DEF S, f
<1> QED
  BY <1>3, <1>4, <1>5, ImageSmall

\* What a chunk may write, and the inode, fit a transaction.
LEMMA WriteFits ==
  ASSUME TypeOK, CallsOK, NEW p \in Procs, call[p].pc \in {"map", "zero"}, NEW off \in Nat, off = file[call[p].f].off,
         NEW n \in Nat, n = call[p].n1, n <= filewrite_max, NEW x, NEW T, T \subseteq MayWrite(p) \cup {x}
  PROVE  IsFiniteSet(T) /\ Cardinality(T) <= MAXOPBLOCKS /\ Cardinality(T) <= CHUNKBLOCKS
<1> DEFINE k == (MAXOPBLOCKS - 1 - 1 - 2) \div 2
<1>1. k \in Nat /\ 2 * k + 4 <= MAXOPBLOCKS /\ MAXOPBLOCKS \in Nat
  BY SizesAssumption
<1>2. filewrite_max = k * BSIZE
  BY DEF filewrite_max
<1> HIDE DEF k
<1> DEFINE E == Touched(off, n)
           F == Begun(off, n)
           D(i) == DataBlock(Target(p, i))
           B(i) == BitmapBlock(Target(p, i))
<1>3. /\ IsFiniteSet(E) /\ Cardinality(E) <= k + 1
      /\ IsFiniteSet(F) /\ Cardinality(F) <= k
  BY <1>1, <1>2, TouchedSmall
<1> HIDE DEF E, F
<1>4. /\ IsFiniteSet(E \cup {NDIRECT}) /\ Cardinality(E \cup {NDIRECT}) <= k + 2
      /\ IsFiniteSet(F \cup {NDIRECT}) /\ Cardinality(F \cup {NDIRECT}) <= k + 1
  <2>1. Cardinality(E) \in Nat /\ Cardinality(F) \in Nat
    BY <1>3, FS_CardinalityType
  <2>2. /\ IsFiniteSet(E \cup {NDIRECT})
        /\ Cardinality(E \cup {NDIRECT}) = IF NDIRECT \in E THEN Cardinality(E) ELSE Cardinality(E) + 1
    BY <1>3, FS_AddElement
  <2>3. /\ IsFiniteSet(F \cup {NDIRECT})
        /\ Cardinality(F \cup {NDIRECT}) = IF NDIRECT \in F THEN Cardinality(F) ELSE Cardinality(F) + 1
    BY <1>3, FS_AddElement
  <2> QED
    BY <1>1, <1>3, <2>1, <2>2, <2>3
<1> DEFINE E1 == E \cup {NDIRECT}
           F1 == F \cup {NDIRECT}
           f == [i \in E1 |-> D(i)]
           g == [i \in {j \in F1 : Target(p, j) # 0} |-> B(i)]
           X == {f[i] : i \in E1}
           Y == {g[i] : i \in {j \in F1 : Target(p, j) # 0}}
<1>5. IsFiniteSet(X) /\ Cardinality(X) <= k + 2 /\ Cardinality(X) \in Nat
  <2>1. DOMAIN f = E1 /\ X \subseteq {f[i] : i \in E1} /\ IsFiniteSet(E1)
    BY <1>4
  <2> HIDE DEF f, E1, X
  <2>2. IsFiniteSet(X) /\ Cardinality(X) <= Cardinality(E1)
    BY <2>1, ImageSmall
  <2>3. Cardinality(X) \in Nat /\ Cardinality(E1) \in Nat
    BY <2>1, <2>2, FS_CardinalityType
  <2> QED
    BY <1>1, <1>4, <2>2, <2>3 DEF E1
<1>6. /\ IsFiniteSet(Y) /\ Cardinality(Y) <= k + 1 /\ Cardinality(Y) \in Nat
      /\ Cardinality(Y) <= NBLOCKS \div BPB + 1
  <2> DEFINE F2 == {j \in F1 : Target(p, j) # 0}
  <2>1. DOMAIN g = F2 /\ Y \subseteq {g[i] : i \in F2} /\ IsFiniteSet(F1) /\ F2 \in SUBSET F1
    BY <1>4
  <2>2. Y \subseteq {BitmapBlock(b) : b \in Blocks}
    <3>1. off + n <= MAXFILE * BSIZE /\ call[p].ip \in Inodes
      BY WriteAt
    <3>2. F1 \subseteq Entries
      BY <3>1, TouchedIn, PlaceKinds DEF F
    <3>3. ASSUME NEW j \in Entries PROVE Target(p, j) \in Blocks \cup {0}
      <4>1. Ref(call[p].ip, j) \in Blocks \cup {0}
        BY <3>1, RefType
      <4>2. call[p].pc = "zero" => call[p].new \in Blocks
        BY ZeroAt
      <4> QED
        BY <4>1, <4>2 DEF Target
    <3> QED
      BY <3>2, <3>3
  <2> HIDE DEF g, F1, F2, Y
  <2>3. IsFiniteSet(F2) /\ Cardinality(F2) <= Cardinality(F1)
    BY <2>1, FS_Subset
  <2>4. IsFiniteSet(Y) /\ Cardinality(Y) <= Cardinality(F2)
    BY <2>1, <2>3, ImageSmall
  <2>5. Cardinality(Y) \in Nat /\ Cardinality(F2) \in Nat /\ Cardinality(F1) \in Nat
    BY <2>1, <2>3, <2>4, FS_CardinalityType
  <2>6. Cardinality(Y) <= NBLOCKS \div BPB + 1
    BY <2>2, BitmapSmall
  <2> QED
    BY <1>1, <1>4, <2>3, <2>4, <2>5, <2>6 DEF F1
<1>7. T \subseteq (X \cup Y) \cup {x}
  BY DEF MayWrite, E, F
<1> HIDE DEF X, Y
<1>8. /\ IsFiniteSet(X \cup Y) /\ Cardinality(X \cup Y) <= 2 * k + 3
      /\ Cardinality(X \cup Y) <= k + 2 + (NBLOCKS \div BPB + 1)
  <2>1. /\ IsFiniteSet(X \cup Y)
        /\ Cardinality(X \cup Y) = Cardinality(X) + Cardinality(Y) - Cardinality(X \cap Y)
    BY <1>5, <1>6, FS_Union
  <2>2. Cardinality(X \cap Y) \in Nat
    <3>1. X \cap Y \in SUBSET X
      OBVIOUS
    <3> QED
      BY <1>5, <3>1, FS_Subset, FS_CardinalityType
  <2> QED
    BY <1>1, <1>5, <1>6, <2>1, <2>2, ChunkConst
<1>9. /\ IsFiniteSet((X \cup Y) \cup {x}) /\ Cardinality((X \cup Y) \cup {x}) <= 2 * k + 4
      /\ Cardinality((X \cup Y) \cup {x}) <= CHUNKBLOCKS
  <2>1. Cardinality(X \cup Y) \in Nat
    BY <1>8, FS_CardinalityType
  <2>2. /\ IsFiniteSet((X \cup Y) \cup {x})
        /\ Cardinality((X \cup Y) \cup {x})
             = IF x \in X \cup Y THEN Cardinality(X \cup Y) ELSE Cardinality(X \cup Y) + 1
    BY <1>8, FS_AddElement
  <2>3. CHUNKBLOCKS = k + 3 + (NBLOCKS \div BPB + 1) /\ NBLOCKS \div BPB \in Nat
    BY ChunkConst DEF k
  <2> QED
    BY <1>1, <1>8, <2>1, <2>2, <2>3
<1>10. IsFiniteSet(T) /\ Cardinality(T) <= Cardinality((X \cup Y) \cup {x})
  BY <1>7, <1>9, FS_Subset
<1>11. Cardinality(T) \in Nat /\ Cardinality((X \cup Y) \cup {x}) \in Nat
  BY <1>9, <1>10, FS_CardinalityType
<1> QED
  BY <1>1, <1>9, <1>10, <1>11, ChunkConst

\* The bitmap blocks and an inode fit a transaction.
LEMMA TruncFits ==
  ASSUME NEW x, NEW T, T \subseteq {BitmapBlock(b) : b \in Blocks} \cup {x}
  PROVE  IsFiniteSet(T) /\ Cardinality(T) <= MAXOPBLOCKS /\ Cardinality(T) <= CHUNKBLOCKS
<1> DEFINE m == NBLOCKS \div BPB
           X == {BitmapBlock(b) : b \in Blocks}
<1>1. m \in Nat /\ m + 2 <= MAXOPBLOCKS /\ MAXOPBLOCKS \in Nat /\ m + 2 <= CHUNKBLOCKS /\ CHUNKBLOCKS \in Nat
  <2>1. (MAXOPBLOCKS - 1 - 1 - 2) \div 2 \in Nat
    BY SizesAssumption
  <2> QED
    BY <2>1, SizesAssumption, BitmapAssumption, ChunkConst
<1>2. IsFiniteSet(X) /\ Cardinality(X) <= m + 1 /\ Cardinality(X) \in Nat
  <2>1. IsFiniteSet(X) /\ Cardinality(X) <= m + 1
    BY BitmapSmall
  <2> QED
    BY <2>1, FS_CardinalityType
<1>3. T \in SUBSET (X \cup {x})
  OBVIOUS
<1> HIDE DEF m, X
<1>4. IsFiniteSet(X \cup {x}) /\ Cardinality(X \cup {x}) <= m + 2
  <2>1. /\ IsFiniteSet(X \cup {x})
        /\ Cardinality(X \cup {x}) = IF x \in X THEN Cardinality(X) ELSE Cardinality(X) + 1
    BY <1>2, FS_AddElement
  <2> QED
    BY <1>1, <1>2, <2>1
<1>5. IsFiniteSet(T) /\ Cardinality(T) <= Cardinality(X \cup {x})
  BY <1>3, <1>4, FS_Subset
<1>6. Cardinality(T) \in Nat /\ Cardinality(X \cup {x}) \in Nat
  BY <1>4, <1>5, FS_CardinalityType
<1> QED
  BY <1>1, <1>4, <1>5, <1>6

\* What a chunk may write stays, while its entries only get blocks.
LEMMA MayGrow ==
  ASSUME TypeOK, CallsOK, NEW p \in Procs, call[p].pc \in {"map", "zero"},
         call'[p].f = call[p].f, call'[p].n1 = call[p].n1,
         file'[call[p].f].off = file[call[p].f].off,
         \A e \in Entries : Target(p, e) # 0 => Target(p, e)' = Target(p, e)
  PROVE  MayWrite(p) \subseteq MayWrite(p)'
<1>1. PICK off \in Nat : off = file[call[p].f].off
  BY WriteAt
<1>2. PICK n \in Nat : n = call[p].n1
  BY WriteAt
<1>3. off + n <= MAXFILE * BSIZE
  BY <1>1, <1>2, WriteAt
<1>4. Touched(off, n) \cup {NDIRECT} \subseteq Entries /\ Begun(off, n) \cup {NDIRECT} \subseteq Entries
  BY <1>3, TouchedIn, PlaceKinds
<1>5. file'[call'[p].f].off = off /\ call'[p].n1 = n
  BY <1>1, <1>2
<1>6. /\ \A e \in Touched(off, n) \cup {NDIRECT} : Target(p, e) # 0 => Target(p, e)' = Target(p, e)
      /\ \A e \in Begun(off, n) \cup {NDIRECT} : Target(p, e) # 0 => Target(p, e)' = Target(p, e)
  BY <1>4
<1> DEFINE E == Touched(off, n) \cup {NDIRECT}
           F == Begun(off, n) \cup {NDIRECT}
<1>7. E' = E /\ F' = F
  BY DEF Touched, Begun, EntryOf
<1>8. MayWrite(p) = {DataBlock(Target(p, e)) : e \in {i \in E : Target(p, i) # 0}}
                    \cup {BitmapBlock(Target(p, e)) : e \in {i \in F : Target(p, i) # 0}}
  BY <1>1, <1>2 DEF MayWrite
<1>9. MayWrite(p)' = {DataBlock(Target(p, e)') : e \in {i \in E : Target(p, i)' # 0}}
                     \cup {BitmapBlock(Target(p, e)') : e \in {i \in F : Target(p, i)' # 0}}
  BY <1>5, <1>7 DEF MayWrite, DataBlock, BitmapBlock
<1> HIDE DEF E, F
<1>10. ASSUME NEW z \in MayWrite(p) PROVE z \in MayWrite(p)'
  <2>1. CASE \E e \in E : Target(p, e) # 0 /\ z = DataBlock(Target(p, e))
    BY <1>6, <1>9, <2>1 DEF E
  <2>2. CASE \E e \in F : Target(p, e) # 0 /\ z = BitmapBlock(Target(p, e))
    BY <1>6, <1>9, <2>2 DEF F
  <2> QED
    BY <1>8, <2>1, <2>2
<1> QED
  BY <1>10

\* A transaction is as it was while nobody touches its file.
LEMMA TxnFrame ==
  ASSUME TypeOK, CallsOK, NEW q \in Procs, TxnOK(q), call'[q] = call[q], txn'[q] = txn[q],
         call[q].pc \in {"map", "zero"} =>
             /\ file'[call[q].f].off = file[call[q].f].off
             /\ \A e \in Entries : Ref(call[q].ip, e)' = Ref(call[q].ip, e)
  PROVE  TxnOK(q)'
<1>1. ASSUME call[q].pc \in {"map", "zero"} PROVE MayWrite(q) \subseteq MayWrite(q)'
  <2>1. WriteOff(q)' = WriteOff(q)
    BY <1>1 DEF WriteOff
  <2>2. Missing(call[q].ip, WriteOff(q))' = Missing(call[q].ip, WriteOff(q))
    <3>1. Ref(call[q].ip, NDIRECT)' = Ref(call[q].ip, NDIRECT)
      BY <1>1, PlaceKinds
    <3> QED
      BY <2>1, <3>1 DEF Missing, EntryOf
  <2>3. \A e \in Entries : Target(q, e)' = Target(q, e)
    BY <1>1, <2>2 DEF Target
  <2> QED
    BY <1>1, <2>3, MayGrow
<1>2. {BitmapBlock(b) : b \in Blocks}' = {BitmapBlock(b) : b \in Blocks}
  BY DEF BitmapBlock, Blocks
<1> QED
  BY <1>1, <1>2, ChunkConst DEF TxnOK

TxnSet(p, T) == txn' = [txn EXCEPT ![p] = T]

\* A step of p on file x leaves the transactions on other files as they were.
LEMMA TxnElsewhere ==
  ASSUME TypeOK, CallsOK, TxnInv, NEW p \in Procs, NEW x \in Inodes, lock[x] \in {None, p},
         \A ip \in Inodes, e \in Entries : ip # x => Ref(ip, e)' = Ref(ip, e),
         \A q \in Procs : q # p => call'[q] = call[q],
         \A f \in Files : file[f].ip # x => file'[f].off = file[f].off,
         NEW T, TxnSet(p, T), TxnOK(p)'
  PROVE  TxnInv'
<1>1. txn' = [q \in Procs |-> txn'[q]] /\ \A q \in Procs : q # p => txn'[q] = txn[q]
  BY DEF TxnInv, TxnSet
<1>2. ASSUME NEW q \in Procs, q # p PROVE TxnOK(q)'
  <2>1. ASSUME call[q].pc \in {"map", "zero"}
        PROVE  /\ file'[call[q].f].off = file[call[q].f].off
               /\ \A e \in Entries : Ref(call[q].ip, e)' = Ref(call[q].ip, e)
    <3>1. /\ call[q].f \in Files /\ call[q].ip \in Inodes /\ lock[call[q].ip] = q
          /\ file[call[q].f].ip = call[q].ip
      BY <2>1, WriteAt
    <3>2. call[q].ip # x
      BY <1>2, <3>1, SetsAssumption
    <3>3. file'[call[q].f].off = file[call[q].f].off
      BY <3>1, <3>2
    <3>4. \A e \in Entries : Ref(call[q].ip, e)' = Ref(call[q].ip, e)
      BY <1>2, <3>1, <3>2
    <3> QED
      BY <3>3, <3>4
  <2>2. TxnOK(q) /\ call'[q] = call[q] /\ txn'[q] = txn[q]
    BY <1>1, <1>2 DEF TxnInv
  <2> QED
    BY <2>1, <2>2, TxnFrame
<1> QED
  BY <1>1, <1>2 DEF TxnInv

\* What a chunk may write after a step, from the offset and length it has then.
LEMMA MayWriteNext ==
  ASSUME NEW p \in Procs, NEW off, NEW n, off = file'[call'[p].f].off, n = call'[p].n1
  PROVE  /\ \A e \in Touched(off, n) \cup {NDIRECT} : Target(p, e)' # 0 => DataBlock(Target(p, e)') \in MayWrite(p)'
         /\ \A e \in Begun(off, n) \cup {NDIRECT} : Target(p, e)' # 0 => BitmapBlock(Target(p, e)') \in MayWrite(p)'
<1> DEFINE E == Touched(off, n) \cup {NDIRECT}
           F == Begun(off, n) \cup {NDIRECT}
<1>1. E' = E /\ F' = F
  BY DEF Touched, Begun, EntryOf
<1>2. MayWrite(p)' = {DataBlock(Target(p, e)') : e \in {i \in E : Target(p, i)' # 0}}
                     \cup {BitmapBlock(Target(p, e)') : e \in {i \in F : Target(p, i)' # 0}}
  BY <1>1 DEF MayWrite, DataBlock, BitmapBlock
<1> HIDE DEF E, F
<1>3. /\ \A e \in E : Target(p, e)' # 0 => DataBlock(Target(p, e)') \in MayWrite(p)'
      /\ \A e \in F : Target(p, e)' # 0 => BitmapBlock(Target(p, e)') \in MayWrite(p)'
  BY <1>2
<1> QED
  BY <1>3 DEF E, F

\* A byte that does not begin a block is in the block of the one before.
LEMMA PrevByte ==
  ASSUME NEW o \in Nat, o % BSIZE # 0
  PROVE  o # 0 /\ o - 1 \in Nat /\ EntryOf(o) = EntryOf(o - 1)
<1> DEFINE d == o \div BSIZE
           r == o % BSIZE
           e == (o - 1) \div BSIZE
           s == (o - 1) % BSIZE
<1>1. BSIZE \in Nat \ {0}
  BY Sizes
<1>2. d \in Nat /\ r \in 0..(BSIZE - 1) /\ o = d * BSIZE + r /\ r # 0
  BY DivMod
<1>3. d * BSIZE \in Nat
  BY <1>1, <1>2
<1>4. o - 1 \in Nat /\ o # 0
  BY <1>2, <1>3
<1>5. e \in Nat /\ s \in 0..(BSIZE - 1) /\ o - 1 = e * BSIZE + s
  BY <1>4, DivMod
<1>6. EntryOf(o) = Entry(d) /\ EntryOf(o - 1) = Entry(e)
  BY DEF EntryOf, Entry
<1> HIDE DEF d, r, e, s
<1>7. (d - e) * BSIZE = s + 1 - r
  BY <1>1, <1>2, <1>5
<1>8. (d - e) * BSIZE < BSIZE /\ (d - e) * BSIZE > -BSIZE
  BY <1>1, <1>2, <1>5, <1>7
<1>9. d - e < 1
  <2>1. SUFFICES ASSUME d - e >= 1 PROVE FALSE
    BY <1>2, <1>5
  <2>2. (d - e) * BSIZE >= BSIZE
    BY <1>1, <1>2, <1>5, <2>1
  <2> QED
    BY <1>1, <1>2, <1>5, <1>8, <2>2
<1>10. d - e > -1
  <2>1. SUFFICES ASSUME d - e <= -1 PROVE FALSE
    BY <1>2, <1>5
  <2>2. (d - e) * BSIZE <= -BSIZE
    BY <1>1, <1>2, <1>5, <2>1
  <2> QED
    BY <1>1, <1>2, <1>5, <1>8, <2>2
<1>11. e = d
  BY <1>2, <1>5, <1>9, <1>10
<1> QED
  BY <1>4, <1>6, <1>11

\* The byte p is at is one of its chunk.
LEMMA AtTouched ==
  ASSUME TypeOK, CallsOK, NEW p \in Procs, call[p].pc \in {"map", "zero"}, call[p].tot < call[p].n1
  PROVE  /\ WriteOff(p) \in file[call[p].f].off..(file[call[p].f].off + call[p].n1 - 1)
         /\ EntryOf(WriteOff(p)) \in Touched(file[call[p].f].off, call[p].n1)
<1>1. PICK off \in Nat : off = file[call[p].f].off
  BY WriteAt
<1>2. PICK n \in Nat : n = call[p].n1
  BY WriteAt
<1>3. PICK t \in Nat : t = call[p].tot
  BY WriteAt
<1>4. WriteOff(p) = off + t /\ t < n
  BY <1>1, <1>2, <1>3 DEF WriteOff
<1>5. WriteOff(p) \in off..(off + n - 1)
  BY <1>4
<1> QED
  BY <1>1, <1>2, <1>5 DEF Touched

\* Files have no holes: an entry that a write has to fill is the indirect
\* block or one that the chunk begins.
LEMMA MissingBegun ==
  ASSUME TypeOK, CallsOK, NoHoles, NEW p \in Procs, call[p].pc \in {"map", "zero"}, call[p].tot < call[p].n1,
         BlockOf(call[p].ip, WriteOff(p)) = 0
  PROVE  /\ Missing(call[p].ip, WriteOff(p)) \in Begun(file[call[p].f].off, call[p].n1) \cup {NDIRECT}
         /\ Missing(call[p].ip, WriteOff(p)) \in Touched(file[call[p].f].off, call[p].n1) \cup {NDIRECT}
<1>1. PICK o \in Nat : o = WriteOff(p)
  BY WriteAt
<1>2. PICK x \in Inodes : x = call[p].ip
  BY WriteAt
<1>3. PICK z \in Int : z = inode[x].size
  BY DEF TypeOK, InodeType
<1>4. HasBlocks(x, Max({z, o}))
  <2>1. lock[x] = p /\ ~Busy(p, "trunc")
    BY <1>2, WriteAt DEF Busy
  <2>2. HasBlocks(x, Max({inode[x].size, WriteOff(p)}))
    BY <2>1 DEF NoHoles, NoHole
  <2> QED
    BY <1>1, <1>3, <2>2
<1>5. o % BSIZE = 0
  <2>1. SUFFICES ASSUME o % BSIZE # 0 PROVE FALSE
    OBVIOUS
  <2>2. o # 0 /\ o - 1 \in Nat /\ EntryOf(o) = EntryOf(o - 1)
    BY <2>1, PrevByte
  <2>3. Max({z, o}) = IF z >= o THEN z ELSE o
    <3>1. z \in Int /\ o \in Int
      OBVIOUS
    <3> QED
      BY <3>1, MinMax, Zenon
  <2>4. PICK m \in Int : m = Max({z, o}) /\ m >= o
    BY <1>3, <2>3
  <2>5. o - 1 \in 0..(m - 1)
    BY <2>2, <2>4
  <2>6. BlockOf(x, o - 1) # 0
    BY <1>4, <2>4, <2>5 DEF HasBlocks
  <2>7. BlockOf(x, o - 1) = BlockOf(x, o)
    BY <2>2 DEF BlockOf
  <2> QED
    BY <1>1, <1>2, <2>6, <2>7
<1>6. o \in file[call[p].f].off..(file[call[p].f].off + call[p].n1 - 1)
  BY <1>1, AtTouched
<1>7. EntryOf(o) \in Begun(file[call[p].f].off, call[p].n1)
  BY <1>5, <1>6 DEF Begun
<1>8. EntryOf(o) \in Touched(file[call[p].f].off, call[p].n1)
  BY <1>6 DEF Touched
<1>9. Missing(call[p].ip, WriteOff(p)) \in {EntryOf(o), NDIRECT}
  BY <1>1 DEF Missing
<1> QED
  BY <1>7, <1>8, <1>9
-----------------------------------------------------------------------------
\* A chunk starts with an empty transaction.
LEMMA Txn_write_begin ==
  ASSUME FilesInv, TxnInv, NEW p \in Procs, write_begin(p)
  PROVE  TxnInv'
<1>0. TypeOK /\ CallsOK
  BY Parts
<1> DEFINE c == call[p]
           n1 == Min({c.todo, filewrite_max})
           d == [pc |-> "map", f |-> c.f, ip |-> c.ip, todo |-> c.todo,
                 n1 |-> n1, tot |-> 0, new |-> 0, before |-> Bytes(c.ip)]
<1>1. c.pc = "begin" /\ c.ip \in Inodes /\ c.todo \in Nat
  <2>1. c.pc = "begin" /\ CallOK(p)
    BY <1>0 DEF write_begin, Busy, CallsOK
  <2> QED
    BY <2>1 DEF CallOK
<1>2. PICK x \in Inodes : x = c.ip
  BY <1>1
<1>3. /\ lock[x] = None /\ UNCHANGED <<block, inode, file>> /\ TxnSet(p, {})
      /\ call' = [call EXCEPT ![p] = User] \/ call' = [call EXCEPT ![p] = d]
  BY <1>2 DEF write_begin, Goto, fdVars, TxnSet
<1>4. n1 <= filewrite_max
  <2>1. c.todo \in Int /\ filewrite_max \in Int
    BY <1>1, MaxChunkNat
  <2>2. n1 = IF c.todo <= filewrite_max THEN c.todo ELSE filewrite_max
    BY <2>1, MinMax, Zenon
  <2> QED
    BY <2>1, <2>2
<1> HIDE DEF n1
<1>5. (call'[p] = User \/ call'[p] = d) /\ \A q \in Procs : q # p => call'[q] = call[q]
  <2>1. call = [q \in Procs |-> call[q]]
    BY <1>0 DEF TypeOK
  <2> HIDE DEF d
  <2> QED
    BY <1>3, <2>1
<1>6. txn'[p] = {} /\ IsFiniteSet({}) /\ Cardinality({}) <= MAXOPBLOCKS /\ Cardinality({}) <= CHUNKBLOCKS
  <2>1. txn'[p] = {}
    BY <1>3 DEF TxnInv, TxnSet
  <2> QED
    BY <2>1, FS_EmptySet, SizesAssumption, ChunkConst
<1>7. TxnOK(p)'
  <2>1. CASE call'[p] = User
    BY <1>6, <2>1, ChunkConst DEF TxnOK, User
  <2>2. CASE call'[p] = d
    <3>1. call'[p].pc = "map" /\ call'[p].n1 <= filewrite_max
      BY <1>4, <2>2
    <3>2. txn'[p] \subseteq MayWrite(p)'
      BY <1>6
    <3>3. filewrite_max' = filewrite_max
      BY DEF filewrite_max
    <3> QED
      BY <3>1, <3>2, <3>3 DEF TxnOK
  <2> QED
    BY <1>5, <2>1, <2>2
<1>8. \A ip \in Inodes, e \in Entries : ip # x => Ref(ip, e)' = Ref(ip, e)
  BY <1>3 DEF Ref
<1>9. \A f \in Files : file[f].ip # x => file'[f].off = file[f].off
  BY <1>3
<1> QED
  BY <1>0, <1>3, <1>5, <1>7, <1>8, <1>9, TxnElsewhere

\* p's own transaction while it writes: what it adds is what it may write.
LEMMA TxnWrites ==
  ASSUME TypeOK, CallsOK, TxnInv, NEW p \in Procs, call[p].pc \in {"map", "zero"},
         call'[p].pc \in {"map", "zero"},
         call'[p].f = call[p].f, call'[p].n1 = call[p].n1, UNCHANGED file,
         \A q \in Procs : q # p => call'[q] = call[q],
         \A e \in Entries : Target(p, e) # 0 => Target(p, e)' = Target(p, e),
         \A ip \in Inodes, e \in Entries : ip # call[p].ip => Ref(ip, e)' = Ref(ip, e),
         NEW S, S \subseteq MayWrite(p)', LogWrite(p, S)
  PROVE  TxnInv'
<1>1. PICK x \in Inodes : x = call[p].ip
  BY WriteAt
<1>2. lock[x] \in {None, p}
  BY <1>1, WriteAt
<1>3. MayWrite(p) \subseteq MayWrite(p)'
  BY MayGrow
<1>4. txn'[p] = txn[p] \cup S /\ TxnSet(p, txn[p] \cup S)
  BY DEF TxnInv, TxnSet, LogWrite
<1>5. TxnOK(p)'
  <2>1. call[p].n1 <= filewrite_max /\ txn[p] \subseteq MayWrite(p)
    BY DEF TxnInv, TxnOK
  <2>2. txn'[p] \subseteq MayWrite(p)'
    BY <1>3, <1>4, <2>1
  <2>3. filewrite_max' = filewrite_max
    BY DEF filewrite_max
  <2> QED
    BY <2>1, <2>2, <2>3 DEF TxnOK
<1>6. \A ip \in Inodes, e \in Entries : ip # x => Ref(ip, e)' = Ref(ip, e)
  BY <1>1
<1> QED
  BY <1>1, <1>2, <1>4, <1>5, <1>6, TxnElsewhere

\* A bitmap block is written for a block that the chunk begins.
LEMMA Txn_balloc ==
  ASSUME FilesInv, TxnInv, NEW p \in Procs, balloc(p)
  PROVE  TxnInv'
<1>0. TypeOK /\ CallsOK /\ BlocksOwned /\ NoHoles
  BY Parts
<1>1. Writing(p) /\ BlockOf(call[p].ip, WriteOff(p)) = 0
  BY DEF balloc
<1>2. PICK b \in Blocks : b = Min(Blocks \ bitmap)
  <2>1. Blocks \ bitmap # {}
    BY <1>0, <1>1, FreeBlock
  <2>2. Blocks \ bitmap \subseteq Nat
    BY Sizes DEF Blocks
  <2> QED
    BY <2>1, <2>2, Least
<1>3. call[p].pc = "map" /\ call[p].tot < call[p].n1 /\ call[p].pc \in {"map", "zero"}
  BY <1>1 DEF Writing, Busy
<1>4. call[p] = [pc |-> call[p].pc, f |-> call[p].f, ip |-> call[p].ip, todo |-> call[p].todo,
                 n1 |-> call[p].n1, tot |-> call[p].tot, new |-> call[p].new, before |-> call[p].before]
  BY <1>0, <1>3, WriteAt, Zenon
<1> DEFINE d == [pc |-> "zero", f |-> call[p].f, ip |-> call[p].ip, todo |-> call[p].todo,
                 n1 |-> call[p].n1, tot |-> call[p].tot, new |-> b, before |-> call[p].before]
<1>5. /\ call' = [call EXCEPT ![p] = d] /\ UNCHANGED <<block, inode, file>>
      /\ LogWrite(p, {BitmapBlock(b)})
  <2>1. Updated(call[p], "zero", b) = d
    BY <1>4, CallUpdates
  <2> QED
    BY <1>2, <2>1 DEF balloc, Goto, fdVars, Updated
<1>6. call'[p] = d /\ \A q \in Procs : q # p => call'[q] = call[q]
  BY <1>0, <1>5 DEF TypeOK
<1>7. PICK x \in Inodes : x = call[p].ip
  BY <1>0, <1>3, WriteAt
<1>8. PICK o \in Nat : o = WriteOff(p) /\ o < MAXFILE * BSIZE
  BY <1>0, <1>3, WriteAt
<1>9. PICK j \in Entries : j = Missing(x, o) /\ Ref(x, j) = 0
  BY <1>0, <1>1, <1>7, <1>8, MissingEmpty
<1>10. \A ip \in Inodes, e \in Entries : Ref(ip, e)' = Ref(ip, e)
  BY <1>5 DEF Ref
<1>11. WriteOff(p)' = o /\ Missing(call[p].ip, WriteOff(p))' = j
  <2>1. WriteOff(p)' = o
    BY <1>5, <1>6, <1>8 DEF WriteOff
  <2>2. Missing(x, o)' = Missing(x, o)
    BY <1>5 DEF Missing, EntryOf, Ref
  <2> QED
    BY <1>6, <1>7, <1>9, <2>1, <2>2
<1>12. \A e \in Entries : /\ Target(p, e) = Ref(x, e)
                          /\ Target(p, e)' = IF e = j THEN b ELSE Ref(x, e)
  <2>1. \A e \in Entries : Target(p, e) = Ref(x, e)
    BY <1>3, <1>7 DEF Target
  <2>2. call'[p].pc = "zero" /\ call'[p].new = b /\ call'[p].ip = x
    BY <1>6, <1>7
  <2>3. \A e \in Entries : Target(p, e)' = IF e = j THEN b ELSE Ref(x, e)'
    BY <1>11, <2>2 DEF Target
  <2> QED
    BY <1>10, <2>1, <2>3
<1>13. \A e \in Entries : Target(p, e) # 0 => Target(p, e)' = Target(p, e)
  BY <1>9, <1>12
<1>14. BitmapBlock(b) \in MayWrite(p)'
  <2>1. j \in Begun(file[call[p].f].off, call[p].n1) \cup {NDIRECT}
    BY <1>0, <1>1, <1>3, <1>7, <1>8, <1>9, MissingBegun
  <2>2. Target(p, j)' = b /\ b # 0
    BY <1>12, Sizes DEF Blocks
  <2>3. file'[call'[p].f].off = file[call[p].f].off /\ call'[p].n1 = call[p].n1
    BY <1>5, <1>6
  <2> QED
    BY <2>1, <2>2, <2>3, MayWriteNext
<1>15. call'[p].pc = "zero" /\ call'[p].f = call[p].f /\ call'[p].n1 = call[p].n1
  BY <1>6
<1>16. {BitmapBlock(b)} \subseteq MayWrite(p)'
  BY <1>14
<1>17. \A ip \in Inodes, e \in Entries : ip # call[p].ip => Ref(ip, e)' = Ref(ip, e)
  BY <1>10
<1> QED
  BY <1>0, <1>3, <1>5, <1>6, <1>13, <1>15, <1>16, <1>17, TxnWrites

\* The new block, and the indirect block that lists it.
LEMMA Txn_bzero ==
  ASSUME FilesInv, TxnInv, NEW p \in Procs, bzero(p)
  PROVE  TxnInv'
<1>0. TypeOK /\ CallsOK /\ BlocksOwned /\ NoHoles
  BY Parts
<1>1. call[p].pc = "zero" /\ call[p].pc \in {"map", "zero"}
  BY DEF bzero, Busy
<1>2. call[p] = [pc |-> call[p].pc, f |-> call[p].f, ip |-> call[p].ip, todo |-> call[p].todo,
                 n1 |-> call[p].n1, tot |-> call[p].tot, new |-> call[p].new, before |-> call[p].before]
  BY <1>0, <1>1, WriteAt, Zenon
<1>3. PICK x \in Inodes : x = call[p].ip
  BY <1>0, <1>1, WriteAt, Zenon
<1>4. PICK b \in Blocks : b = call[p].new
  BY <1>0, <1>1, ZeroAt, Zenon
<1>5. PICK j \in Entries : j = Missing(x, WriteOff(p))
  BY <1>0, <1>1, <1>3, ZeroAt, Zenon
<1>6. /\ b # 0 /\ (j > NDIRECT => Ref(x, NDIRECT) # 0) /\ call[p].tot < call[p].n1
      /\ BlockOf(call[p].ip, WriteOff(p)) = 0
  BY <1>0, <1>1, <1>3, <1>4, <1>5, ZeroAt
<1> DEFINE d == [pc |-> "map", f |-> call[p].f, ip |-> call[p].ip, todo |-> call[p].todo,
                 n1 |-> call[p].n1, tot |-> call[p].tot, new |-> 0, before |-> call[p].before]
<1>7. call' = [call EXCEPT ![p] = d] /\ UNCHANGED file
  <2>1. Updated(call[p], "map", 0) = d
    BY <1>2, CallUpdates
  <2> QED
    BY <2>1 DEF bzero, Goto, fdVars, Updated
<1>8. \A ip \in Inodes, i \in Entries : Ref(ip, i)' = IF ip = x /\ i = j THEN b ELSE Ref(ip, i)
  BY <1>0, <1>3, <1>4, <1>5, BzeroRefs
<1>9. call'[p] = d /\ \A q \in Procs : q # p => call'[q] = call[q]
  BY <1>0, <1>7 DEF TypeOK
<1>10. call'[p].pc = "map" /\ call'[p].f = call[p].f /\ call'[p].n1 = call[p].n1 /\ call'[p].ip = x
  BY <1>3, <1>9
<1>11. \A e \in Entries : /\ Target(p, e) = IF e = j THEN b ELSE Ref(x, e)
                          /\ Target(p, e)' = IF e = j THEN b ELSE Ref(x, e)
  <2>1. \A e \in Entries : Target(p, e) = IF e = j THEN b ELSE Ref(x, e)
    BY <1>1, <1>3, <1>4, <1>5 DEF Target
  <2>2. \A e \in Entries : Target(p, e)' = Ref(x, e)'
    BY <1>10 DEF Target
  <2> QED
    BY <1>8, <2>1, <2>2
<1>12. \A e \in Entries : Target(p, e) # 0 => Target(p, e)' = Target(p, e)
  BY <1>11
<1>13. NDIRECT \in Entries /\ NDIRECT \in Nat /\ j \in Nat /\ inode[x].addrs[NDIRECT] = Ref(x, NDIRECT)
  BY PlaceKinds, Sizes DEF Ref
<1>14. file'[call'[p].f].off = file[call[p].f].off /\ call'[p].n1 = call[p].n1
  BY <1>7, <1>10
<1>15. DataBlock(b) \in MayWrite(p)'
  <2>1. j \in Touched(file[call[p].f].off, call[p].n1) \cup {NDIRECT}
    BY <1>0, <1>1, <1>3, <1>5, <1>6, MissingBegun
  <2>2. Target(p, j)' = b /\ b # 0
    BY <1>6, <1>11
  <2> QED
    BY <1>14, <2>1, <2>2, MayWriteNext
<1>16. ASSUME j > NDIRECT PROVE DataBlock(Ref(x, NDIRECT)) \in MayWrite(p)'
  <2>1. Target(p, NDIRECT)' = Ref(x, NDIRECT) /\ Ref(x, NDIRECT) # 0
    BY <1>6, <1>11, <1>13, <1>16
  <2> QED
    BY <1>14, <2>1, MayWriteNext
<1>17. PICK S : LogWrite(p, S) /\ S \subseteq MayWrite(p)'
  <2>1. CASE j <= NDIRECT
    <3>1. LogWrite(p, {DataBlock(b)})
      BY <1>3, <1>4, <1>5, <2>1 DEF bzero
    <3> QED
      BY <1>15, <3>1
  <2>2. CASE ~(j <= NDIRECT)
    <3>1. LogWrite(p, {DataBlock(b), DataBlock(Ref(x, NDIRECT))})
      BY <1>3, <1>4, <1>5, <1>13, <2>2 DEF bzero
    <3>2. j > NDIRECT
      BY <1>13, <2>2
    <3> QED
      BY <1>15, <1>16, <3>1, <3>2
  <2> QED
    BY <2>1, <2>2
<1>18. \A ip \in Inodes, e \in Entries : ip # call[p].ip => Ref(ip, e)' = Ref(ip, e)
  BY <1>3, <1>8
<1> QED
  BY <1>0, <1>1, <1>7, <1>9, <1>10, <1>12, <1>17, <1>18, TxnWrites

\* The block of the current offset.
LEMMA Txn_write_copy ==
  ASSUME FilesInv, TxnInv, NEW p \in Procs, write_copy(p)
  PROVE  TxnInv'
<1>0. TypeOK /\ CallsOK
  BY Parts
<1>1. Writing(p) /\ BlockOf(call[p].ip, WriteOff(p)) # 0
  BY DEF write_copy
<1>2. call[p].pc = "map" /\ call[p].tot < call[p].n1 /\ call[p].pc \in {"map", "zero"}
  BY <1>1 DEF Writing, Busy
<1>3. call[p] = [pc |-> call[p].pc, f |-> call[p].f, ip |-> call[p].ip, todo |-> call[p].todo,
                 n1 |-> call[p].n1, tot |-> call[p].tot, new |-> call[p].new, before |-> call[p].before]
  BY <1>0, <1>2, WriteAt, Zenon
<1>4. PICK x \in Inodes : x = call[p].ip
  BY <1>0, <1>2, WriteAt, Zenon
<1>5. PICK o \in Nat : o = WriteOff(p) /\ o < MAXFILE * BSIZE
  BY <1>0, <1>1, Chunk
<1>6. PICK e \in Entries : e = EntryOf(o)
  BY <1>5, EntryIn
<1>7. PICK b \in Blocks : b = Ref(x, e) /\ b = BlockOf(call[p].ip, WriteOff(p)) /\ b # 0
  <2>1. Ref(x, e) \in Blocks \cup {0}
    BY <1>0, RefType
  <2>2. BlockOf(call[p].ip, WriteOff(p)) = Ref(x, e)
    BY <1>4, <1>5, <1>6 DEF BlockOf
  <2> QED
    BY <1>1, <2>1, <2>2
<1> DEFINE d == [pc |-> "map", f |-> call[p].f, ip |-> call[p].ip, todo |-> call[p].todo, n1 |-> call[p].n1,
                 tot |-> call[p].tot + ChunkLen(p), new |-> call[p].new, before |-> call[p].before]
<1>8. /\ call' = [call EXCEPT ![p] = d] /\ UNCHANGED <<inode, file>>
      /\ block' = Copied(p, b, ChunkLen(p)) /\ LogWrite(p, {DataBlock(b)})
  <2>1. Advanced(call[p], ChunkLen(p)) = d
    BY <1>2, <1>3, CallAdvances
  <2> QED
    BY <1>7, <2>1 DEF write_copy, Goto, fdVars, Advanced
<1>9. call'[p] = d /\ \A q \in Procs : q # p => call'[q] = call[q]
  BY <1>0, <1>8 DEF TypeOK
<1>10. call'[p].pc = "map" /\ call'[p].f = call[p].f /\ call'[p].n1 = call[p].n1 /\ call'[p].ip = x
  BY <1>4, <1>9
<1>11. \A ip \in Inodes, i \in Entries : Ref(ip, i)' = Ref(ip, i)
  <2>1. \A i \in Blocks : block'[i].ptrs = block[i].ptrs
    BY <1>0, <1>8, CopiedIs
  <2>2. \A ip \in Inodes : inode'[ip].addrs = inode[ip].addrs
    BY <1>8
  <2> QED
    BY <1>0, <2>1, <2>2, RefFrame
<1>12. \A i \in Entries : Target(p, i) = Ref(x, i) /\ Target(p, i)' = Ref(x, i)
  <2>1. \A i \in Entries : Target(p, i) = Ref(x, i)
    BY <1>2, <1>4 DEF Target
  <2>2. \A i \in Entries : Target(p, i)' = Ref(x, i)'
    BY <1>10 DEF Target
  <2> QED
    BY <1>11, <2>1, <2>2
<1>13. {DataBlock(b)} \subseteq MayWrite(p)'
  <2>1. e \in Touched(file[call[p].f].off, call[p].n1)
    BY <1>0, <1>2, <1>5, <1>6, AtTouched
  <2>2. Target(p, e)' = b /\ b # 0
    BY <1>7, <1>12
  <2>3. file'[call'[p].f].off = file[call[p].f].off /\ call'[p].n1 = call[p].n1
    BY <1>8, <1>10
  <2> QED
    BY <2>1, <2>2, <2>3, MayWriteNext
<1>14. \A i \in Entries : Target(p, i) # 0 => Target(p, i)' = Target(p, i)
  BY <1>12
<1>15. \A ip \in Inodes, i \in Entries : ip # call[p].ip => Ref(ip, i)' = Ref(ip, i)
  BY <1>11
<1> QED
  BY <1>0, <1>2, <1>8, <1>9, <1>10, <1>13, <1>14, <1>15, TxnWrites

\* The end of a chunk adds the inode.
LEMMA TxnWriteEnd ==
  ASSUME FilesInv, TxnInv, NEW p \in Procs, call[p].pc = "map", writei_end(p, call[p].tot),
         \A i \in Blocks : block'[i].ptrs = block[i].ptrs,
         NEW d, call' = [call EXCEPT ![p] = d], d.pc \in {"user", "begin"},
         LogWrite(p, {InodeBlock(call[p].ip)})
  PROVE  TxnInv'
<1>0. TypeOK /\ CallsOK
  BY Parts
<1>1. call[p].pc \in {"map", "zero"}
  OBVIOUS
<1>2. PICK x \in Inodes : x = call[p].ip
  BY <1>0, <1>1, WriteAt, Zenon
<1>3. PICK f \in Files : f = call[p].f /\ file[f].ip = x
  BY <1>0, <1>1, <1>2, WriteAt
<1>4. PICK off \in Nat : off = file[call[p].f].off
  BY <1>0, <1>1, WriteAt
<1>5. PICK n \in Nat : n = call[p].n1
  BY <1>0, <1>1, WriteAt
<1>6. PICK t \in Nat : t = call[p].tot
  BY <1>0, <1>1, WriteAt
<1>7. n <= filewrite_max /\ txn[p] \subseteq MayWrite(p)
  BY <1>1, <1>5 DEF TxnInv, TxnOK
<1> DEFINE T == txn[p] \cup {InodeBlock(call[p].ip)}
<1>8. IsFiniteSet(T) /\ Cardinality(T) <= MAXOPBLOCKS /\ Cardinality(T) <= CHUNKBLOCKS
  <2>1. T \subseteq MayWrite(p) \cup {InodeBlock(call[p].ip)}
    BY <1>7
  <2> HIDE DEF T
  <2> QED
    BY <1>0, <1>1, <1>4, <1>5, <1>7, <2>1, WriteFits
<1>9. TxnSet(p, T) /\ txn'[p] = T
  BY DEF TxnInv, TxnSet, LogWrite
<1>10. call'[p] = d /\ \A q \in Procs : q # p => call'[q] = call[q]
  BY <1>0 DEF TypeOK
<1> HIDE DEF T
<1>11. TxnOK(p)'
  <2>1. call'[p].pc \in {"user", "begin"}
    BY <1>10
  <2> QED
    BY <1>8, <1>9, <2>1, ChunkConst DEF TxnOK
<1>12. \A g \in Files : g # f => file'[g].off = file[g].off
  BY <1>0, <1>3 DEF TypeOK, writei_end
<1>13. \A g \in Files : file[g].ip # x => file'[g].off = file[g].off
  BY <1>3, <1>12
<1>14. \A ip \in Inodes : inode'[ip].addrs = inode[ip].addrs
  BY <1>0, <1>2 DEF TypeOK, InodeType, writei_end
<1>15. \A ip \in Inodes, e \in Entries : Ref(ip, e)' = Ref(ip, e)
  BY <1>0, <1>14, RefFrame
<1>16. \A ip \in Inodes, e \in Entries : ip # x => Ref(ip, e)' = Ref(ip, e)
  BY <1>15
<1>17. lock[x] \in {None, p}
  BY <1>0, <1>1, <1>2, WriteAt
<1> QED
  BY <1>0, <1>9, <1>10, <1>11, <1>13, <1>16, <1>17, TxnElsewhere

\* A write that ends early.
LEMMA Txn_write_fault ==
  ASSUME FilesInv, TxnInv, NEW p \in Procs, write_fault(p)
  PROVE  TxnInv'
<1>0. TypeOK /\ CallsOK
  BY Parts
<1>1. Writing(p) /\ BlockOf(call[p].ip, WriteOff(p)) # 0
  BY DEF write_fault
<1>2. call[p].pc = "map" /\ call[p].pc \in {"map", "zero"}
  BY <1>1 DEF Writing, Busy
<1>3. PICK x \in Inodes : x = call[p].ip
  BY <1>0, <1>2, WriteAt, Zenon
<1>4. PICK o \in Nat : o = WriteOff(p) /\ o < MAXFILE * BSIZE
  BY <1>0, <1>1, Chunk
<1>5. PICK b \in Blocks : b = BlockOf(call[p].ip, WriteOff(p))
  <2>1. EntryOf(o) \in Entries
    BY <1>4, EntryIn
  <2>2. Ref(x, EntryOf(o)) \in Blocks \cup {0}
    BY <1>0, <2>1, RefType
  <2>3. BlockOf(call[p].ip, WriteOff(p)) = Ref(x, EntryOf(o))
    BY <1>3, <1>4 DEF BlockOf
  <2> QED
    BY <1>1, <2>2, <2>3
<1>6. PICK m \in 0..(ChunkLen(p) - 1) : block' = Copied(p, b, m)
  BY <1>5 DEF write_fault
<1>7. \A i \in Blocks : block'[i].ptrs = block[i].ptrs
  BY <1>0, <1>6, CopiedIs
<1>8. /\ writei_end(p, call[p].tot) /\ call' = [call EXCEPT ![p] = User]
      /\ LogWrite(p, {InodeBlock(call[p].ip)})
  BY DEF write_fault, Goto
<1>9. User.pc \in {"user", "begin"}
  BY DEF User
<1> QED
  BY <1>2, <1>7, <1>8, <1>9, TxnWriteEnd

\* A chunk that is complete.
LEMMA Txn_write_done ==
  ASSUME FilesInv, TxnInv, NEW p \in Procs, write_done(p)
  PROVE  TxnInv'
<1>0. TypeOK
  BY Parts
<1> DEFINE d == IF call[p].todo = call[p].n1 THEN User
                ELSE [pc |-> "begin", f |-> call[p].f, ip |-> call[p].ip, todo |-> call[p].todo - call[p].n1]
<1>1. /\ call[p].pc = "map" /\ writei_end(p, call[p].tot) /\ call' = [call EXCEPT ![p] = d]
      /\ LogWrite(p, {InodeBlock(call[p].ip)}) /\ UNCHANGED block
  BY DEF write_done, Goto, Busy
<1>2. d.pc \in {"user", "begin"}
  BY DEF User
<1>3. \A i \in Blocks : block'[i].ptrs = block[i].ptrs
  BY <1>1
<1> HIDE DEF d
<1> QED
  BY <1>1, <1>2, <1>3, TxnWriteEnd

\* A truncation writes bitmap blocks,
LEMMA Txn_itrunc_free ==
  ASSUME FilesInv, TxnInv, NEW p \in Procs, itrunc_free(p)
  PROVE  TxnInv'
<1>0. TypeOK /\ CallsOK /\ BlocksOwned
  BY Parts
<1>1. call[p].pc = "trunc" /\ Used(call[p].ip) # {}
  BY DEF itrunc_free, Busy
<1>2. PICK x \in Inodes : x = call[p].ip
  BY <1>0, <1>1 DEF CallsOK, CallOK
<1>3. PICK j \in Entries : j = TruncNext(x) /\ Ref(x, j) # 0
  BY <1>1, <1>2, TruncPick
<1>4. PICK b \in Blocks : b = Ref(x, j)
  BY <1>0, <1>3, RefType
<1>5. LogWrite(p, {BitmapBlock(b)}) /\ UNCHANGED <<file, call>>
  BY <1>2, <1>3, <1>4 DEF itrunc_free, fdVars
<1>6. \A ip \in Inodes, e \in Entries : ip # x => Ref(ip, e)' = Ref(ip, e)
  <2>1. \A ip \in Inodes, e \in Entries : Ref(ip, e)' = IF ip = x /\ e = j THEN 0 ELSE Ref(ip, e)
    BY <1>0, <1>2, <1>3, TruncRefs
  <2> QED
    BY <2>1
<1> DEFINE T == txn[p] \cup {BitmapBlock(b)}
<1>7. TxnSet(p, T) /\ txn'[p] = T
  BY <1>5 DEF TxnInv, TxnSet, LogWrite
<1>8. TxnOK(p)'
  <2>1. txn[p] \subseteq {BitmapBlock(i) : i \in Blocks}
    BY <1>1 DEF TxnInv, TxnOK
  <2>2. {BitmapBlock(i) : i \in Blocks}' = {BitmapBlock(i) : i \in Blocks}
    BY DEF BitmapBlock, Blocks
  <2>3. txn'[p] \subseteq {BitmapBlock(i) : i \in Blocks}'
    BY <1>7, <2>1, <2>2
  <2>4. call'[p].pc = "trunc"
    BY <1>1, <1>5
  <2> QED
    BY <2>3, <2>4 DEF TxnOK
<1>9. lock[x] \in {None, p}
  BY <1>0, <1>1, <1>2, HoldsLock
<1> HIDE DEF T
<1> QED
  BY <1>0, <1>5, <1>6, <1>7, <1>8, <1>9, TxnElsewhere

\* and at the end the inode.
LEMMA Txn_itrunc_end ==
  ASSUME FilesInv, TxnInv, NEW p \in Procs, itrunc_end(p)
  PROVE  TxnInv'
<1>0. TypeOK /\ CallsOK
  BY Parts
<1>1. call[p].pc = "trunc"
  BY DEF itrunc_end, Busy
<1>2. PICK x \in Inodes : x = call[p].ip
  BY <1>0, <1>1 DEF CallsOK, CallOK
<1>3. /\ inode' = [inode EXCEPT ![x].size = 0] /\ LogWrite(p, {InodeBlock(x)})
      /\ call' = [call EXCEPT ![p] = User] /\ UNCHANGED <<block, file>>
  BY <1>2 DEF itrunc_end, Goto, fdVars
<1>4. call'[p] = User /\ \A q \in Procs : q # p => call'[q] = call[q]
  BY <1>0, <1>3 DEF TypeOK
<1>5. \A ip \in Inodes, e \in Entries : ip # x => Ref(ip, e)' = Ref(ip, e)
  <2>1. \A ip \in Inodes : inode'[ip].addrs = inode[ip].addrs
    BY <1>0, <1>3 DEF TypeOK, InodeType
  <2>2. \A b \in Blocks : block'[b].ptrs = block[b].ptrs
    BY <1>3
  <2> QED
    BY <1>0, <2>1, <2>2, RefFrame
<1> DEFINE T == txn[p] \cup {InodeBlock(x)}
<1>6. TxnSet(p, T) /\ txn'[p] = T
  BY <1>3 DEF TxnInv, TxnSet, LogWrite
<1>7. IsFiniteSet(T) /\ Cardinality(T) <= MAXOPBLOCKS /\ Cardinality(T) <= CHUNKBLOCKS
  <2>1. T \subseteq {BitmapBlock(b) : b \in Blocks} \cup {InodeBlock(x)}
    BY <1>1 DEF TxnInv, TxnOK
  <2> HIDE DEF T
  <2> QED
    BY <2>1, TruncFits
<1> HIDE DEF T
<1>8. TxnOK(p)'
  <2>1. call'[p].pc = "user"
    BY <1>4 DEF User
  <2> QED
    BY <1>6, <1>7, <2>1, ChunkConst DEF TxnOK
<1>9. lock[x] \in {None, p}
  BY <1>0, <1>1, <1>2, HoldsLock
<1> QED
  BY <1>0, <1>3, <1>4, <1>5, <1>6, <1>8, <1>9, TxnElsewhere

\* A read moves the position of a file that nobody writes.
LEMMA Txn_sys_read ==
  ASSUME FilesInv, TxnInv, NEW p \in Procs, NEW fd \in FDs, NEW n \in Lengths, sys_read(p, fd, n)
  PROVE  TxnInv'
<1>0. TypeOK /\ CallsOK /\ DescRefs
  BY Parts
<1>1. PICK f \in Files : f = ofile[p][fd]
  <2>1. ofile[p][fd] # None
    BY DEF sys_read
  <2>2. ofile[p][fd] \in Files \cup {None}
    BY <1>0 DEF TypeOK
  <2> QED
    BY <2>1, <2>2
<1>2. PICK x \in Inodes : x = file[f].ip
  BY <1>0, <1>1 DEF sys_read, DescRefs
<1>3. call[p].pc = "user" /\ lock[x] = None /\ UNCHANGED <<block, inode, txn, call>>
  BY <1>1, <1>2 DEF sys_read, Busy, diskVars
<1>4. \A g \in Files : g # f => file'[g] = file[g]
  BY <1>0, <1>1 DEF sys_read, TypeOK
<1>5. \A g \in Files : file[g].ip # x => file'[g].off = file[g].off
  BY <1>2, <1>4
<1>6. \A ip \in Inodes, e \in Entries : ip # x => Ref(ip, e)' = Ref(ip, e)
  BY <1>3 DEF Ref
<1>7. TxnOK(p)'
  <2>1. TxnOK(p) /\ call'[p] = call[p] /\ txn'[p] = txn[p] /\ call[p].pc \notin {"map", "zero"}
    BY <1>3 DEF TxnInv
  <2> QED
    BY <1>0, <2>1, TxnFrame
<1>8. TxnSet(p, txn[p])
  BY <1>3 DEF TxnInv, TxnSet
<1> QED
  BY <1>0, <1>3, <1>5, <1>6, <1>7, <1>8, TxnElsewhere

\* A call on the table writes nothing; write() and open() only start.
LEMMA TxnTable ==
  ASSUME FilesInv, TxnInv, OffsKept, UNCHANGED <<block, inode>>, txn' = [q \in Procs |-> txn'[q]],
         \A q \in Procs : \/ call'[q] = call[q] /\ txn'[q] = txn[q]
                          \/ call[q].pc = "user" /\ call'[q].pc = "begin" /\ txn'[q] = txn[q]
                          \/ call'[q].pc = "trunc" /\ txn'[q] = {}
  PROVE  TxnInv'
<1>0. TypeOK /\ CallsOK
  BY Parts
<1>1. ASSUME NEW q \in Procs PROVE TxnOK(q)'
  <2>1. CASE call'[q] = call[q] /\ txn'[q] = txn[q]
    <3>1. ASSUME call[q].pc \in {"map", "zero"}
          PROVE  /\ file'[call[q].f].off = file[call[q].f].off
                 /\ \A e \in Entries : Ref(call[q].ip, e)' = Ref(call[q].ip, e)
      <4>1. file'[call[q].f].off = file[call[q].f].off
        BY <3>1 DEF OffsKept, AtWork
      <4>2. \A e \in Entries : Ref(call[q].ip, e)' = Ref(call[q].ip, e)
        BY <2>1 DEF Ref
      <4> QED
        BY <4>1, <4>2
    <3>2. TxnOK(q)
      BY DEF TxnInv
    <3> QED
      BY <1>0, <2>1, <3>1, <3>2, TxnFrame
  <2>2. CASE call[q].pc = "user" /\ call'[q].pc = "begin" /\ txn'[q] = txn[q]
    <3>1. IsFiniteSet(txn[q]) /\ Cardinality(txn[q]) <= MAXOPBLOCKS /\ Cardinality(txn[q]) <= CHUNKBLOCKS
      BY <2>2 DEF TxnInv, TxnOK
    <3> QED
      BY <2>2, <3>1, ChunkConst DEF TxnOK
  <2>3. CASE call'[q].pc = "trunc" /\ txn'[q] = {}
    BY <2>3 DEF TxnOK
  <2> QED
    BY <2>1, <2>2, <2>3
<1> QED
  BY <1>1 DEF TxnInv

\* write() and open() start, the other calls leave what is being written alone.
LEMMA TxnCalls ==
  ASSUME FilesInv, TxnInv, NEW p \in Procs,
         \/ \E fd \in FDs : \/ \E n \in Lengths : sys_write(p, fd, n)
                            \/ sys_dup(p, fd) \/ sys_close(p, fd)
         \/ \E ip \in Inodes, trunc \in BOOLEAN, omode \in Modes : sys_open(p, ip, trunc, omode)
         \/ sys_pipe(p) \/ \E q \in Procs : fork(p, q)
  PROVE  TxnInv'
<1>0. TypeOK /\ call = [q \in Procs |-> call[q]] /\ txn = [q \in Procs |-> txn[q]]
  BY Parts DEF TypeOK, TxnInv
<1>1. ASSUME NEW fd \in FDs, NEW n \in Lengths, sys_write(p, fd, n) PROVE TxnInv'
  <2>1. PICK c : c.pc = "begin" /\ call' = [call EXCEPT ![p] = c]
    BY <1>1 DEF sys_write, Goto
  <2>2. call[p].pc = "user" /\ UNCHANGED <<block, inode, txn, file>>
    BY <1>1 DEF sys_write, Busy, diskVars, fdVars
  <2>3. \A q \in Procs : \/ call'[q] = call[q] /\ txn'[q] = txn[q]
                         \/ call[q].pc = "user" /\ call'[q].pc = "begin" /\ txn'[q] = txn[q]
    BY <1>0, <2>1, <2>2
  <2>4. OffsKept
    BY <2>2 DEF OffsKept
  <2> QED
    BY <1>0, <2>2, <2>3, <2>4, TxnTable
<1>2. ASSUME UNCHANGED <<block, inode, txn, call>>, OffsKept PROVE TxnInv'
  BY <1>0, <1>2, TxnTable
<1>3. ASSUME NEW fd \in FDs, sys_dup(p, fd) PROVE TxnInv'
  <2>1. OffsKept /\ UNCHANGED <<block, inode, txn, call>>
    BY <1>3, Step_sys_dup DEF sys_dup, diskVars
  <2> QED
    BY <1>2, <2>1
<1>4. ASSUME NEW fd \in FDs, sys_close(p, fd) PROVE TxnInv'
  <2>1. OffsKept /\ UNCHANGED <<block, inode, txn, call>>
    BY <1>4, Step_sys_close DEF sys_close, diskVars
  <2> QED
    BY <1>2, <2>1
<1>5. ASSUME NEW ip \in Inodes, NEW trunc \in BOOLEAN, NEW omode \in Modes, sys_open(p, ip, trunc, omode)
      PROVE  TxnInv'
  <2>1. OffsKept
    BY <1>5, Step_sys_open
  <2>2. CASE UNCHANGED <<block, inode, txn, call>>
    BY <1>2, <2>1, <2>2
  <2>3. CASE /\ UNCHANGED <<block, inode>> /\ txn' = [txn EXCEPT ![p] = {}]
             /\ \E c : c.pc = "trunc" /\ call' = [call EXCEPT ![p] = c]
    <3>1. PICK c : c.pc = "trunc" /\ call' = [call EXCEPT ![p] = c]
      BY <2>3
    <3>2. txn' = [q \in Procs |-> txn'[q]]
      BY <1>0, <2>3
    <3>3. \A q \in Procs : \/ call'[q] = call[q] /\ txn'[q] = txn[q]
                           \/ call'[q].pc = "trunc" /\ txn'[q] = {}
      BY <1>0, <2>3, <3>1
    <3> QED
      BY <2>1, <2>3, <3>2, <3>3, TxnTable
  <2>4. \/ UNCHANGED <<block, inode, txn, call>>
        \/ /\ UNCHANGED <<block, inode>> /\ txn' = [txn EXCEPT ![p] = {}]
           /\ \E c : c.pc = "trunc" /\ call' = [call EXCEPT ![p] = c]
    <3> DEFINE t == [pc |-> "trunc", ip |-> ip, before |-> Bytes(ip)]
    <3>1. t.pc = "trunc"
      OBVIOUS
    <3>2. \/ UNCHANGED <<block, inode, txn, call>>
          \/ /\ UNCHANGED <<block, inode>> /\ txn' = [txn EXCEPT ![p] = {}]
             /\ call' = [call EXCEPT ![p] = t]
      BY <1>5 DEF sys_open, Goto, diskVars
    <3> QED
      BY <3>1, <3>2
  <2> QED
    BY <2>2, <2>3, <2>4
<1>6. ASSUME sys_pipe(p) PROVE TxnInv'
  <2>1. OffsKept /\ UNCHANGED <<block, inode, txn, call>>
    BY <1>6, Step_sys_pipe DEF sys_pipe, diskVars
  <2> QED
    BY <1>2, <2>1
<1>7. ASSUME NEW q \in Procs, fork(p, q) PROVE TxnInv'
  <2>1. OffsKept /\ UNCHANGED <<block, inode, txn, call>>
    BY <1>7, Step_fork DEF fork, diskVars
  <2> QED
    BY <1>2, <2>1
<1> QED
  BY <1>1, <1>3, <1>4, <1>5, <1>6, <1>7

\* No transaction is under way at first.
LEMMA InitTxn == Init => TxnInv
<1> SUFFICES ASSUME Init PROVE TxnInv
  OBVIOUS
<1>1. txn = [p \in Procs |-> {}] /\ call = [p \in Procs |-> User]
  BY DEF Init
<1>2. IsFiniteSet({}) /\ Cardinality({}) <= MAXOPBLOCKS /\ Cardinality({}) <= CHUNKBLOCKS
  BY FS_EmptySet, SizesAssumption, ChunkConst
<1>3. ASSUME NEW p \in Procs PROVE TxnOK(p)
  <2>1. txn[p] = {} /\ call[p].pc = "user"
    BY <1>1 DEF User
  <2> QED
    BY <1>2, <2>1 DEF TxnOK
<1>4. txn = [p \in Procs |-> txn[p]]
  BY <1>1
<1> QED
  BY <1>3, <1>4 DEF TxnInv

\* Every step keeps the transactions within what they may write.
LEMMA NextTxn == FilesInv /\ TxnInv /\ [Next]_vars => TxnInv'
<1> SUFFICES ASSUME FilesInv, TxnInv, [Next]_vars PROVE TxnInv'
  OBVIOUS
<1>1. ASSUME NEW p \in Procs, NEW fd \in FDs, NEW n \in Lengths, sys_read(p, fd, n) PROVE TxnInv'
  BY <1>1, Txn_sys_read
<1>2. ASSUME NEW p \in Procs,
             \/ \E fd \in FDs : \/ \E n \in Lengths : sys_write(p, fd, n)
                                \/ sys_dup(p, fd) \/ sys_close(p, fd)
             \/ \E ip \in Inodes, trunc \in BOOLEAN, omode \in Modes : sys_open(p, ip, trunc, omode)
             \/ sys_pipe(p) \/ \E q \in Procs : fork(p, q)
      PROVE  TxnInv'
  BY <1>2, TxnCalls
<1>3. ASSUME NEW p \in Procs, write_begin(p) PROVE TxnInv'
  BY <1>3, Txn_write_begin
<1>4. ASSUME NEW p \in Procs, balloc(p) PROVE TxnInv'
  BY <1>4, Txn_balloc
<1>5. ASSUME NEW p \in Procs, bzero(p) PROVE TxnInv'
  BY <1>5, Txn_bzero
<1>6. ASSUME NEW p \in Procs, write_copy(p) PROVE TxnInv'
  BY <1>6, Txn_write_copy
<1>7. ASSUME NEW p \in Procs, write_fault(p) PROVE TxnInv'
  BY <1>7, Txn_write_fault
<1>8. ASSUME NEW p \in Procs, write_done(p) PROVE TxnInv'
  BY <1>8, Txn_write_done
<1>9. ASSUME NEW p \in Procs, itrunc_free(p) PROVE TxnInv'
  BY <1>9, Txn_itrunc_free
<1>10. ASSUME NEW p \in Procs, itrunc_end(p) PROVE TxnInv'
  BY <1>10, Txn_itrunc_end
<1>11. CASE UNCHANGED vars
  <2>1. OffsKept /\ UNCHANGED <<block, inode, txn, call>>
    BY <1>11 DEF vars, OffsKept
  <2> QED
    BY <2>1, TxnTable DEF TxnInv
<1>12. CASE Finished
  BY <1>11, <1>12 DEF Finished
<1> QED
  BY <1>1, <1>2, <1>3, <1>4, <1>5, <1>6, <1>7, <1>8, <1>9, <1>10, <1>11, <1>12, Zenon DEF Next

\* Who is writing has written no more than it may, and that fits.
LEMMA TxnBound == FilesInv /\ TxnInv => TxnFits
<1> SUFFICES ASSUME FilesInv, TxnInv, NEW p \in Procs
             PROVE  Cardinality(txn[p]) <= MAXOPBLOCKS /\ Cardinality(txn[p]) <= CHUNKBLOCKS
  BY DEF TxnFits
<1>0. TypeOK /\ CallsOK
  BY Parts
<1>1. call[p].pc \in {"user", "begin", "map", "zero", "trunc"} /\ TxnOK(p)
  BY <1>0 DEF CallsOK, CallOK, TxnInv
<1>2. CASE call[p].pc \in {"map", "zero"}
  <2>1. PICK off \in Nat : off = file[call[p].f].off
    BY <1>0, <1>2, WriteAt
  <2>2. PICK n \in Nat : n = call[p].n1
    BY <1>0, <1>2, WriteAt
  <2>3. n <= filewrite_max /\ txn[p] \subseteq MayWrite(p) \cup {0}
    BY <1>1, <1>2, <2>2 DEF TxnOK
  <2> QED
    BY <1>0, <1>2, <2>1, <2>2, <2>3, WriteFits
<1>3. CASE call[p].pc = "trunc"
  <2>1. txn[p] \subseteq {BitmapBlock(b) : b \in Blocks} \cup {0}
    BY <1>1, <1>3 DEF TxnOK
  <2> QED
    BY <2>1, TruncFits
<1>4. CASE call[p].pc \in {"user", "begin"}
  BY <1>1, <1>4 DEF TxnOK
<1> QED
  BY <1>1, <1>2, <1>3, <1>4

\* No transaction of a write or of a truncation passes more than MAXOPBLOCKS
\* blocks to log_write(), nor more than CHUNKBLOCKS: filewrite() cuts writes short
\* enough.
THEOREM TransactionsFit == Spec => []TxnFits
BY InitInv, NextInv, InitTxn, NextTxn, TxnBound, PTL DEF Spec
-----------------------------------------------------------------------------
(***************************************************************************)
(* Files implements FileStore.                                             *)
(***************************************************************************)

\* The byte at offset o of a file.
Cell(ip, o) == IF BlockOf(ip, o) = 0 THEN 0 ELSE block[BlockOf(ip, o)].bytes[o % BSIZE]

\* While a chunk is being written: the bytes copied so far are the writer's,
\* the others what they were when it took the lock.
CopyOK(p) ==
    call[p].pc \in {"map", "zero"} =>
      LET c == call[p]
          n == inode[c.ip].size
          off == file[c.f].off IN
      /\ c.before \in [1..n -> Procs \cup {0}]
      /\ c.n1 <= filewrite_max
      /\ \A o \in 0..(MAXFILE * BSIZE - 1) : (o < n \/ o < off + c.tot) =>
           Cell(c.ip, o) = IF off <= o /\ o < off + c.tot THEN p ELSE c.before[o + 1]
Contents == \A p \in Procs : CopyOK(p)

\* The variables of FileStore.
Shown(ip) == IF lock[ip] = None THEN Bytes(ip) ELSE call[lock[ip]].before
AbsStore == [ip \in Inodes |-> Shown(ip)]
AbsAt == [f \in Files |-> IF file[f].type = "INODE" THEN file[f].ip ELSE None]
AbsPos == [f \in Files |-> file[f].off]
Hidden == AbsStore' = AbsStore /\ AbsAt' = AbsAt /\ AbsPos' = AbsPos

\* A file is its cells.
LEMMA BytesAre ==
  ASSUME TypeOK, NEW ip \in Inodes
  PROVE  /\ Bytes(ip) = [i \in 1..inode[ip].size |-> Cell(ip, i - 1)]
         /\ Bytes(ip) \in [1..inode[ip].size -> Procs \cup {0}]
         /\ inode[ip].size \in Nat /\ inode[ip].size <= MAXFILE * BSIZE
<1>1. inode[ip].size \in Nat /\ inode[ip].size <= MAXFILE * BSIZE
  BY Sizes DEF TypeOK, InodeType
<1>2. Bytes(ip) = [i \in 1..inode[ip].size |-> Cell(ip, i - 1)]
  BY DEF Bytes, Cell
<1>3. ASSUME NEW i \in 1..inode[ip].size PROVE Cell(ip, i - 1) \in Procs \cup {0}
  <2>1. PICK o \in Nat : o = i - 1 /\ o < MAXFILE * BSIZE
    BY <1>1, Sizes
  <2>2. PICK e \in Entries : e = EntryOf(o)
    BY <2>1, EntryIn
  <2>3. PICK b \in Blocks \cup {0} : b = Ref(ip, e)
    BY RefType
  <2>4. BlockOf(ip, o) = b
    BY <2>2, <2>3 DEF BlockOf
  <2>5. o % BSIZE \in 0..(BSIZE - 1)
    BY DivMod
  <2>6. b # 0 => block[b].bytes \in [0..(BSIZE - 1) -> Procs \cup {0}]
    BY DEF TypeOK, BlockType
  <2> QED
    BY <2>1, <2>4, <2>5, <2>6 DEF Cell
<1> QED
  BY <1>1, <1>2, <1>3

\* The same after a step.
LEMMA BytesNext ==
  ASSUME NEW ip \in Inodes
  PROVE  Bytes(ip)' = [i \in 1..inode'[ip].size |-> Cell(ip, i - 1)']
BY DEF Bytes, Cell

\* A cell keeps its value with its block.
LEMMA CellFrame ==
  ASSUME NEW ip \in Inodes, NEW o \in Nat, o < MAXFILE * BSIZE,
         \A j \in Entries : Ref(ip, j)' = Ref(ip, j),
         \A j \in Entries : Ref(ip, j) # 0 => block'[Ref(ip, j)].bytes = block[Ref(ip, j)].bytes
  PROVE  Cell(ip, o)' = Cell(ip, o)
<1>1. PICK e \in Entries : e = EntryOf(o)
  BY EntryIn
<1>2. BlockOf(ip, o) = Ref(ip, e)
  BY <1>1 DEF BlockOf
<1>3. BlockOf(ip, o)' = Ref(ip, e)'
  BY <1>1 DEF BlockOf, EntryOf
<1>4. BlockOf(ip, o)' = BlockOf(ip, o)
  BY <1>2, <1>3
<1>5. BlockOf(ip, o) # 0 => block'[BlockOf(ip, o)].bytes = block[BlockOf(ip, o)].bytes
  BY <1>2
<1> QED
  BY <1>4, <1>5 DEF Cell

\* And so does a file.
LEMMA BytesFrame ==
  ASSUME TypeOK, NEW ip \in Inodes, inode'[ip].size = inode[ip].size,
         \A o \in Nat : o < MAXFILE * BSIZE => Cell(ip, o)' = Cell(ip, o)
  PROVE  Bytes(ip)' = Bytes(ip)
<1>1. ASSUME NEW i \in 1..inode[ip].size PROVE Cell(ip, i - 1)' = Cell(ip, i - 1)
  <2>1. PICK o \in Nat : o = i - 1 /\ o < MAXFILE * BSIZE
    BY BytesAre, Sizes
  <2>2. Cell(ip, o)' = Cell(ip, o)
    BY <2>1
  <2> QED
    BY <2>1, <2>2
<1> QED
  BY <1>1, BytesAre, BytesNext

\* Where a write is: at offset off + tot of file x, whose size is n.
WriteIs(q, x, f, off, tot, n) ==
    /\ x = call[q].ip /\ f = call[q].f /\ off = file[f].off /\ tot = call[q].tot /\ n = inode[x].size

\* And it has the blocks of what it has behind it and of the file as it is.
Backed(q, x, f, off, tot, n) ==
    /\ WriteIs(q, x, f, off, tot, n) /\ WriteOff(q) = off + tot
    /\ lock[x] = q /\ off <= n /\ n <= MAXFILE * BSIZE /\ off + tot <= MAXFILE * BSIZE
    /\ file[f].type = "INODE" /\ file[f].ip = x
    /\ \A o \in Nat : (o < n \/ o < off + tot) => BlockOf(x, o) # 0

\* What a write has behind it, and the file as it is, have blocks.
LEMMA Ongoing ==
  ASSUME TypeOK, CallsOK, NoHoles, NEW q \in Procs, call[q].pc \in {"map", "zero"}
  PROVE  \E x \in Inodes, f \in Files, off \in Nat, tot \in Nat, n \in Nat : Backed(q, x, f, off, tot, n)
<1>1. /\ call[q].f \in Files /\ call[q].ip \in Inodes /\ lock[call[q].ip] = q
      /\ file[call[q].f].off \in Nat /\ call[q].tot \in Nat
      /\ file[call[q].f].ip = call[q].ip /\ file[call[q].f].type = "INODE"
      /\ file[call[q].f].off <= inode[call[q].ip].size
      /\ WriteOff(q) = file[call[q].f].off + call[q].tot /\ WriteOff(q) <= MAXFILE * BSIZE
  BY WriteAt, Zenon
<1>2. PICK x \in Inodes, f \in Files : x = call[q].ip /\ f = call[q].f
  BY <1>1
<1>3. inode[x].size \in Nat /\ inode[x].size <= MAXFILE * BSIZE
  BY BytesAre
<1>4. PICK off \in Nat, tot \in Nat, n \in Nat : off = file[f].off /\ tot = call[q].tot /\ n = inode[x].size
  BY <1>1, <1>2, <1>3
<1>5. Max({n, off + tot}) = IF n >= off + tot THEN n ELSE off + tot
  <2>1. n \in Int /\ off + tot \in Int
    OBVIOUS
  <2> QED
    BY <2>1, MinMax, Zenon
<1>6. HasBlocks(x, Max({n, off + tot}))
  <2>1. NoHole(x) /\ lock[x] = q /\ ~Busy(q, "trunc")
    BY <1>1, <1>2 DEF NoHoles, Busy
  <2>2. WriteOff(q) = off + tot
    BY <1>1, <1>2, <1>4
  <2> QED
    BY <1>4, <2>1, <2>2 DEF NoHole
<1>7. ASSUME NEW o \in Nat, o < n \/ o < off + tot PROVE BlockOf(x, o) # 0
  <2>1. PICK k \in Nat : k = Max({n, off + tot}) /\ o < k
    BY <1>5, <1>7
  <2>2. o \in 0..(k - 1) /\ HasBlocks(x, k)
    BY <1>6, <2>1
  <2> QED
    BY <2>2 DEF HasBlocks
<1>8. WriteIs(q, x, f, off, tot, n) /\ WriteOff(q) = off + tot
  BY <1>1, <1>2, <1>4 DEF WriteIs
<1>9. /\ lock[x] = q /\ off <= n /\ n <= MAXFILE * BSIZE /\ off + tot <= MAXFILE * BSIZE
      /\ file[f].type = "INODE" /\ file[f].ip = x
  BY <1>1, <1>2, <1>3, <1>4
<1>10. Backed(q, x, f, off, tot, n)
  BY <1>7, <1>8, <1>9 DEF Backed
<1> QED
  BY <1>10

\* What CopyOK says, in these terms.
SoFar(q, x, off, tot, n, h) ==
    /\ h \in [1..n -> Procs \cup {0}]
    /\ \A o \in 0..(MAXFILE * BSIZE - 1) : (o < n \/ o < off + tot) =>
         Cell(x, o) = IF off <= o /\ o < off + tot THEN q ELSE h[o + 1]

\* CopyOK is that, while a chunk is being written.
LEMMA CopyIs ==
  ASSUME NEW q, NEW x, NEW f, NEW off, NEW tot, NEW n, WriteIs(q, x, f, off, tot, n),
         call[q].pc \in {"map", "zero"}
  PROVE  CopyOK(q) <=> (SoFar(q, x, off, tot, n, call[q].before) /\ call[q].n1 <= filewrite_max)
BY DEF CopyOK, WriteIs, SoFar

\* And it is enough for CopyOK after a step.
LEMMA CopyNext ==
  ASSUME NEW q, NEW x, NEW f, NEW off, NEW tot, NEW n, NEW h, WriteIs(q, x, f, off, tot, n)',
         call'[q].pc \in {"map", "zero"}, call'[q].before = h, call'[q].n1 <= filewrite_max,
         SoFar(q, x, off, tot, n, h)'
  PROVE  CopyOK(q)'
BY DEF CopyOK, WriteIs, SoFar

\* The copying of q is as far as it was while nobody touches its file.
LEMMA CopyFrame ==
  ASSUME TypeOK, CallsOK, NoHoles, NEW q \in Procs, CopyOK(q),
         call'[q].pc \in {"map", "zero"} =>
           /\ call[q].pc \in {"map", "zero"}
           /\ call'[q].ip = call[q].ip /\ call'[q].f = call[q].f /\ call'[q].n1 = call[q].n1
           /\ call'[q].tot = call[q].tot /\ call'[q].before = call[q].before
           /\ file'[call[q].f].off = file[call[q].f].off
           /\ inode'[call[q].ip].size = inode[call[q].ip].size
           /\ \A o \in Nat : (o < MAXFILE * BSIZE /\ BlockOf(call[q].ip, o) # 0)
                                => Cell(call[q].ip, o)' = Cell(call[q].ip, o)
  PROVE  CopyOK(q)'
<1> SUFFICES ASSUME call'[q].pc \in {"map", "zero"} PROVE CopyOK(q)'
  BY DEF CopyOK
<1>0. call[q].pc \in {"map", "zero"}
  OBVIOUS
<1>a. PICK x \in Inodes, f \in Files, off \in Nat, tot \in Nat, n \in Nat : Backed(q, x, f, off, tot, n)
  BY <1>0, Ongoing
<1>1. /\ WriteIs(q, x, f, off, tot, n)
      /\ \A o \in Nat : (o < n \/ o < off + tot) => BlockOf(x, o) # 0
  BY <1>a DEF Backed
<1>2. PICK h : h = call[q].before
  OBVIOUS
<1>3. SoFar(q, x, off, tot, n, h) /\ call[q].n1 <= filewrite_max
  BY <1>0, <1>1, <1>2, CopyIs
<1>4. WriteIs(q, x, f, off, tot, n)' /\ call'[q].before = h /\ call'[q].n1 <= filewrite_max
  BY <1>1, <1>2, <1>3 DEF WriteIs
<1>5. ASSUME NEW o \in 0..(MAXFILE * BSIZE - 1), o < n \/ o < off + tot
      PROVE  Cell(x, o)' = IF off <= o /\ o < off + tot THEN q ELSE h[o + 1]
  <2>1. o \in Nat /\ o < MAXFILE * BSIZE /\ BlockOf(x, o) # 0
    BY <1>1, <1>5, Sizes
  <2>2. Cell(x, o)' = Cell(x, o)
    BY <1>1, <2>1 DEF WriteIs
  <2> QED
    BY <1>3, <1>5, <2>2 DEF SoFar
<1>6. SoFar(q, x, off, tot, n, h)'
  BY <1>3, <1>5 DEF SoFar
<1> QED
  BY <1>4, <1>6, CopyNext

\* A step that works on file x, under its lock or while it is free, shows in
\* no other file and disturbs no other write.
LEMMA ShownElsewhere ==
  ASSUME TypeOK, CallsOK, NoHoles, Contents, NEW p \in Procs, NEW x \in Inodes, lock[x] \in {None, p},
         \A ip \in Inodes : ip # x => /\ lock[ip] # p /\ lock'[ip] = lock[ip]
                                      /\ inode'[ip].size = inode[ip].size,
         \A ip \in Inodes, j \in Entries : ip # x =>
            /\ Ref(ip, j)' = Ref(ip, j)
            /\ Ref(ip, j) # 0 => block'[Ref(ip, j)].bytes = block[Ref(ip, j)].bytes,
         \A q \in Procs : q # p => call'[q] = call[q],
         \A q \in Procs : (call[q].pc \in {"map", "zero"} /\ call[q].ip # x)
                           => file'[call[q].f].off = file[call[q].f].off
  PROVE  /\ \A ip \in Inodes : ip # x => Shown(ip)' = Shown(ip)
         /\ \A q \in Procs : q # p => CopyOK(q)'
<1>0. None \notin Procs /\ lock \in [Inodes -> Procs \cup {None}]
  BY SetsAssumption DEF TypeOK
<1>1. ASSUME NEW ip \in Inodes, ip # x, NEW o \in Nat, o < MAXFILE * BSIZE
      PROVE  Cell(ip, o)' = Cell(ip, o)
  <2>1. /\ \A j \in Entries : Ref(ip, j)' = Ref(ip, j)
        /\ \A j \in Entries : Ref(ip, j) # 0 => block'[Ref(ip, j)].bytes = block[Ref(ip, j)].bytes
    BY <1>1
  <2> QED
    BY <1>1, <2>1, CellFrame
<1>2. ASSUME NEW ip \in Inodes, ip # x PROVE Shown(ip)' = Shown(ip)
  <2>1. CASE lock[ip] = None
    <3>1. lock'[ip] = None /\ inode'[ip].size = inode[ip].size
      BY <1>2, <2>1
    <3>2. \A o \in Nat : o < MAXFILE * BSIZE => Cell(ip, o)' = Cell(ip, o)
      BY <1>1, <1>2
    <3>3. Bytes(ip)' = Bytes(ip)
      BY <3>1, <3>2, BytesFrame
    <3> QED
      BY <2>1, <3>1, <3>3 DEF Shown
  <2>2. CASE lock[ip] # None
    <3>1. PICK q \in Procs : q = lock[ip]
      BY <1>0, <2>2
    <3>2. q # p /\ lock'[ip] = q /\ call'[q] = call[q]
      BY <1>2, <3>1
    <3> QED
      BY <1>0, <3>1, <3>2 DEF Shown
  <2> QED
    BY <2>1, <2>2
<1>3. ASSUME NEW q \in Procs, q # p PROVE CopyOK(q)'
  <2>1. call'[q] = call[q] /\ CopyOK(q)
    BY <1>3 DEF Contents
  <2>2. ASSUME call[q].pc \in {"map", "zero"}
        PROVE  /\ file'[call[q].f].off = file[call[q].f].off
               /\ inode'[call[q].ip].size = inode[call[q].ip].size
               /\ \A o \in Nat : (o < MAXFILE * BSIZE /\ BlockOf(call[q].ip, o) # 0)
                                    => Cell(call[q].ip, o)' = Cell(call[q].ip, o)
    <3>1. /\ call[q].f \in Files /\ call[q].ip \in Inodes /\ lock[call[q].ip] = q
          /\ file[call[q].f].ip = call[q].ip
      BY <2>2, WriteAt, Zenon
    <3>2. PICK y \in Inodes : y = call[q].ip
      BY <3>1
    <3>3. y # x
      BY <1>0, <1>3, <3>1, <3>2
    <3>4. file'[call[q].f].off = file[call[q].f].off
      BY <2>2, <3>2, <3>3
    <3>5. inode'[y].size = inode[y].size
      BY <3>3
    <3>6. \A o \in Nat : (o < MAXFILE * BSIZE /\ BlockOf(y, o) # 0) => Cell(y, o)' = Cell(y, o)
      BY <1>1, <3>3
    <3> QED
      BY <2>1, <3>2, <3>4, <3>5, <3>6
  <2> QED
    BY <2>1, <2>2, CopyFrame
<1> QED
  BY <1>2, <1>3

\* A step that leaves the disk and the locks alone shows nothing, if the
\* writes under way and their positions stay as they are.
LEMMA ShownKept ==
  ASSUME TypeOK, CallsOK, NoHoles, Contents, UNCHANGED <<block, inode, lock>>,
         \A q \in Procs : call'[q].pc \in {"map", "zero"} =>
            /\ call[q].pc \in {"map", "zero"}
            /\ call'[q].ip = call[q].ip /\ call'[q].f = call[q].f /\ call'[q].n1 = call[q].n1
            /\ call'[q].tot = call[q].tot /\ file'[call[q].f].off = file[call[q].f].off,
         \A q \in Procs : call[q].pc \in {"map", "zero", "trunc"} => call'[q].before = call[q].before
  PROVE  Contents' /\ AbsStore' = AbsStore
<1>0. lock \in [Inodes -> Procs \cup {None}]
  BY DEF TypeOK
<1>1. ASSUME NEW ip, NEW o PROVE Cell(ip, o)' = Cell(ip, o)
  BY DEF Cell, BlockOf, Ref, EntryOf
<1>2. ASSUME NEW ip \in Inodes PROVE Bytes(ip)' = Bytes(ip)
  BY <1>1, BytesFrame
<1>3. ASSUME NEW ip \in Inodes PROVE Shown(ip)' = Shown(ip)
  <2>1. CASE lock[ip] = None
    BY <1>2, <2>1 DEF Shown
  <2>2. CASE lock[ip] # None
    <3>1. PICK q \in Procs : q = lock[ip]
      BY <1>0, <2>2
    <3>2. call[q].pc \in {"map", "zero", "trunc"}
      BY <3>1, HoldsLock
    <3>3. call'[q].before = call[q].before
      BY <3>2
    <3> QED
      BY <2>2, <3>1, <3>3 DEF Shown
  <2> QED
    BY <2>1, <2>2
<1>4. ASSUME NEW q \in Procs PROVE CopyOK(q)'
  <2>1. CopyOK(q)
    BY DEF Contents
  <2>2. ASSUME call'[q].pc \in {"map", "zero"}
        PROVE  /\ call[q].pc \in {"map", "zero"}
               /\ call'[q].ip = call[q].ip /\ call'[q].f = call[q].f /\ call'[q].n1 = call[q].n1
               /\ call'[q].tot = call[q].tot /\ call'[q].before = call[q].before
               /\ file'[call[q].f].off = file[call[q].f].off
               /\ inode'[call[q].ip].size = inode[call[q].ip].size
               /\ \A o \in Nat : (o < MAXFILE * BSIZE /\ BlockOf(call[q].ip, o) # 0)
                                    => Cell(call[q].ip, o)' = Cell(call[q].ip, o)
    BY <1>1, <2>2
  <2> QED
    BY <2>1, <2>2, CopyFrame
<1>5. AbsStore' = AbsStore
  BY <1>3 DEF AbsStore
<1> QED
  BY <1>4, <1>5 DEF Contents

\* The table is as it was to readers and writers when no file is opened,
\* closed or moved.
LEMMA AbsTable ==
  ASSUME OpenKept
  PROVE  AbsAt' = AbsAt /\ AbsPos' = AbsPos
<1>1. \A f \in Files : file'[f].off = file[f].off
  BY DEF OpenKept
<1>2. \A f \in Files : (IF file'[f].type = "INODE" THEN file'[f].ip ELSE None)
                       = (IF file[f].type = "INODE" THEN file[f].ip ELSE None)
  BY DEF OpenKept
<1> QED
  BY <1>1, <1>2 DEF AbsAt, AbsPos

\* m bytes v from offset w of file x on are what a step changes in the files.
Spills(v, x, w, m) ==
    /\ \A ip \in Inodes, j \in Entries : Ref(ip, j)' = Ref(ip, j)
    /\ \A ip \in Inodes, j \in Entries : (ip # x /\ Ref(ip, j) # 0) =>
          block'[Ref(ip, j)].bytes = block[Ref(ip, j)].bytes
    /\ \A o \in Nat : o < MAXFILE * BSIZE =>
          Cell(x, o)' = IF w <= o /\ o < w + m THEN v ELSE Cell(x, o)

\* What m bytes of a chunk do to the cells.
LEMMA CopiedCells ==
  ASSUME TypeOK, CallsOK, BlocksOwned, NEW p \in Procs, Writing(p),
         NEW x \in Inodes, x = call[p].ip, NEW w \in Nat, w = WriteOff(p), NEW b \in Blocks, b = BlockOf(x, w),
         NEW m \in Nat, m <= ChunkLen(p), block' = Copied(p, b, m),
         \A ip \in Inodes : inode'[ip].addrs = inode[ip].addrs
  PROVE  Spills(p, x, w, m)
<1>0. block \in [Blocks -> BlockType] /\ b # 0 /\ BSIZE \in Nat \ {0}
  BY Sizes DEF TypeOK, Blocks
<1>1. /\ w < MAXFILE * BSIZE /\ w % BSIZE \in 0..(BSIZE - 1)
      /\ ChunkLen(p) \in Nat /\ ChunkLen(p) <= BSIZE - (w % BSIZE)
  BY Chunk
<1>2. PICK e \in Entries : e = EntryOf(w)
  BY <1>1, EntryIn
<1>3. Ref(x, e) = b
  BY <1>2 DEF BlockOf
<1>4. \A ip \in Inodes, j \in Entries : Ref(ip, j)' = Ref(ip, j)
  <2>1. \A d \in Blocks : block'[d].ptrs = block[d].ptrs
    BY CopiedIs
  <2> QED
    BY <2>1, RefFrame
<1>5. /\ \A d \in Blocks : d # b => block'[d].bytes = block[d].bytes
      /\ \A i \in 0..(BSIZE - 1) : block'[b].bytes[i] =
            IF i >= (w % BSIZE) /\ i < (w % BSIZE) + m THEN p ELSE block[b].bytes[i]
  <2>1. block[b] \in BlockType
    BY <1>0
  <2>2. \A d \in Blocks : d # b => block'[d].bytes = block[d].bytes
    BY <1>0 DEF Copied
  <2> DEFINE v == [i \in 0..(BSIZE - 1) |->
                     IF i >= (w % BSIZE) /\ i < (w % BSIZE) + m THEN p ELSE block[b].bytes[i]]
  <2>3. block' = [block EXCEPT ![b].bytes = v]
    BY DEF Copied
  <2> HIDE DEF v
  <2>4. block'[b].bytes = v
    BY <1>0, <2>1, <2>3 DEF BlockType
  <2> QED
    BY <2>2, <2>4 DEF v
<1>6. ASSUME NEW ip \in Inodes, NEW j \in Entries, Ref(ip, j) # 0, ip # x \/ j # e
      PROVE  block'[Ref(ip, j)].bytes = block[Ref(ip, j)].bytes
  <2>1. PICK d \in Blocks : d = Ref(ip, j)
    BY <1>6, RefType
  <2>2. d # b
    BY <1>0, <1>3, <1>6, <2>1, OwnInj
  <2> QED
    BY <1>5, <2>1, <2>2
<1>7. ASSUME NEW o \in Nat, o < MAXFILE * BSIZE
      PROVE  Cell(x, o)' = IF w <= o /\ o < w + m THEN p ELSE Cell(x, o)
  <2>1. PICK j \in Entries : j = EntryOf(o)
    BY <1>7, EntryIn
  <2>2. PICK d : d = Ref(x, j)
    OBVIOUS
  <2>3. BlockOf(x, o) = d
    BY <2>1, <2>2 DEF BlockOf
  <2>4. BlockOf(x, o)' = d
    <3>1. Ref(x, j)' = d
      BY <1>4, <2>2
    <3> QED
      BY <2>1, <3>1 DEF BlockOf, EntryOf
  <2>5. CASE j # e
    <3>1. d # 0 => block'[d].bytes = block[d].bytes
      BY <1>6, <2>2, <2>5
    <3>2. Cell(x, o)' = Cell(x, o)
      BY <2>3, <2>4, <3>1 DEF Cell
    <3>3. ~(w <= o /\ o < w + m)
      <4>1. SUFFICES ASSUME w <= o, o < w + m PROVE FALSE
        OBVIOUS
      <4>2. o < w + (BSIZE - (w % BSIZE))
        BY <1>0, <1>1, <4>1
      <4>3. EntryOf(o) = EntryOf(w)
        BY <4>1, <4>2, SameBlock
      <4> QED
        BY <1>2, <2>1, <2>5, <4>3
    <3> QED
      BY <3>2, <3>3
  <2>6. CASE j = e
    <3>1. d = b
      BY <1>3, <2>2, <2>6
    <3>2. o % BSIZE \in 0..(BSIZE - 1)
      BY DivMod
    <3>3. o - w = (o % BSIZE) - (w % BSIZE)
      <4>1. PICK c \in Nat, a \in Nat : c = o \div BSIZE /\ a = w \div BSIZE
        BY DivMod
      <4>2. (IF c < NDIRECT THEN c ELSE c + 1) = (IF a < NDIRECT THEN a ELSE a + 1)
        BY <1>2, <2>1, <2>6, <4>1 DEF EntryOf
      <4>3. c = a
        BY <4>2, Sizes
      <4>4. o = c * BSIZE + (o % BSIZE) /\ w = a * BSIZE + (w % BSIZE)
        BY <4>1, DivMod
      <4>5. PICK k \in Int : k = c * BSIZE
        BY <1>0
      <4>6. o = k + (o % BSIZE) /\ w = k + (w % BSIZE)
        BY <4>3, <4>4, <4>5
      <4>7. PICK r \in Int, s \in Int : r = o % BSIZE /\ s = w % BSIZE
        BY <1>1, <3>2
      <4> QED
        BY <4>6, <4>7
    <3>4. (o % BSIZE >= (w % BSIZE) /\ o % BSIZE < (w % BSIZE) + m) <=> (w <= o /\ o < w + m)
      <4>1. PICK r \in Int, s \in Int : r = o % BSIZE /\ s = w % BSIZE
        BY <1>1, <3>2
      <4>2. o - w = r - s
        BY <3>3, <4>1
      <4>3. (r >= s /\ r < s + m) <=> (w <= o /\ o < w + m)
        BY <4>2
      <4> QED
        BY <4>1, <4>3
    <3>5. block'[b].bytes[o % BSIZE] = IF w <= o /\ o < w + m THEN p ELSE block[b].bytes[o % BSIZE]
      BY <1>5, <3>2, <3>4
    <3> QED
      BY <1>0, <2>3, <2>4, <3>1, <3>5 DEF Cell
  <2> QED
    BY <2>5, <2>6
<1> QED
  BY <1>4, <1>6, <1>7 DEF Spills

-----------------------------------------------------------------------------
(***************************************************************************)
(* The steps of FileStore, in terms of the variables here.                 *)
(***************************************************************************)

\* A sequence has as many elements as its domain says.
LEMMA LenIs ==
  ASSUME NEW S, NEW n \in Nat, NEW s \in [1..n -> S]
  PROVE  s \in Seq(S) /\ Len(s) = n
<1>1. s \in Seq(S)
  BY SeqDef
<1>2. Len(s) \in Nat /\ DOMAIN s = 1..Len(s)
  BY <1>1, LenProperties
<1>3. DOMAIN s = 1..n
  OBVIOUS
<1> QED
  BY <1>1, <1>2, <1>3

\* What a write of k bytes v at o that spoils j more makes of s: the second
\* overwrite is cut off at the end of the file.
Written(s, o, k, j, v) ==
    LET t == Store!Overwrite(s, o, k, v)
        e == o + k
        r == IF e + j > Len(t) THEN Len(t) - e ELSE j
    IN  Store!Overwrite(t, e, r, v)

\* m bytes: v after place o up to place u, the others those of s.
Patched(s, m, o, u, v) == [i \in 1..m |-> IF i > o /\ i <= u THEN v ELSE s[i]]

\* Two overwrites in a row are one.
LEMMA Overwrites ==
  ASSUME NEW s \in Seq(Procs \cup {0}), NEW o \in Nat, o <= Len(s), NEW k \in Nat, NEW j \in Nat,
         NEW v \in Procs, NEW m \in Nat, m = (IF o + k > Len(s) THEN o + k ELSE Len(s))
  PROVE  Written(s, o, k, j, v) = Patched(s, m, o, o + k + j, v)
<1>0. PICK n \in Nat : n = Len(s) /\ s \in [1..n -> Procs \cup {0}]
  BY LenProperties
<1>1. Len(s) = n /\ o <= n /\ m = (IF o + k > n THEN o + k ELSE n)
  BY <1>0
<1> DEFINE t == Store!Overwrite(s, o, k, v)
           e == o + k
           r == IF e + j > Len(t) THEN Len(t) - e ELSE j
<1>2. t = [i \in 1..m |-> IF i > o /\ i <= o + k THEN v ELSE s[i]]
  BY <1>1 DEF Store!Overwrite
<1>3. t \in [1..m -> Procs \cup {0}]
  <2>1. ASSUME NEW i \in 1..m PROVE (IF i > o /\ i <= o + k THEN v ELSE s[i]) \in Procs \cup {0}
    <3>1. CASE i > o /\ i <= o + k
      BY <3>1
    <3>2. CASE ~(i > o /\ i <= o + k)
      <4>1. i \in 1..n
        BY <1>1, <3>2
      <4> QED
        BY <1>0, <3>2, <4>1
    <3> QED
      BY <3>1, <3>2
  <2> QED
    BY <1>2, <2>1
<1>4. Len(t) = m
  BY <1>3, LenIs
<1>5. PICK c \in Nat : c = r /\ e + c <= m /\ (e + j > m => e + c = m) /\ (e + j <= m => c = j)
  <2>1. r = IF e + j > m THEN m - e ELSE j
    BY <1>4
  <2> HIDE DEF r
  <2>2. r \in Nat /\ e + r <= m /\ (e + j > m => e + r = m) /\ (e + j <= m => r = j)
    BY <1>1, <2>1
  <2> QED
    BY <2>2
<1>6. Store!Overwrite(t, e, c, v) = [i \in 1..m |-> IF i > e /\ i <= e + c THEN v ELSE t[i]]
  BY <1>4, <1>5 DEF Store!Overwrite
<1>7. ASSUME NEW i \in 1..m
      PROVE  (IF i > e /\ i <= e + c THEN v ELSE t[i]) = IF i > o /\ i <= o + k + j THEN v ELSE s[i]
  BY <1>1, <1>2, <1>5
<1>8. Store!Overwrite(t, e, c, v) = [i \in 1..m |-> IF i > o /\ i <= o + k + j THEN v ELSE s[i]]
  BY <1>6, <1>7
<1> QED
  BY <1>5, <1>8 DEF Written, Patched

\* A chunk of a write.
LEMMA AbsWrite ==
  ASSUME NEW f \in Files, NEW x \in Inodes, NEW v \in Procs, NEW k \in 0..filewrite_max, NEW j \in 0..(BSIZE - 1),
         AbsAt[f] = x, x # None, AbsPos[f] <= Len(AbsStore[x]), AbsPos[f] + k <= MAXFILE * BSIZE,
         AbsStore' = [AbsStore EXCEPT ![x] = Written(AbsStore[x], AbsPos[f], k, j, v)],
         AbsPos' = [AbsPos EXCEPT ![f] = AbsPos[f] + k], AbsAt' = AbsAt
  PROVE  Store!Next
<1>1. Store!Write(f, v, k, j)
  BY DEF Store!Write, Written, AbsStore, AbsAt, AbsPos, Shown
<1> QED
  BY <1>1 DEF Store!Next

\* A read moves the position.
LEMMA AbsRead ==
  ASSUME NEW f \in Files, NEW x \in Inodes, NEW k \in 1..(MAXFILE * BSIZE),
         AbsAt[f] = x, x # None, AbsPos[f] + k <= Len(AbsStore[x]),
         AbsPos' = [AbsPos EXCEPT ![f] = AbsPos[f] + k], AbsAt' = AbsAt, AbsStore' = AbsStore
  PROVE  Store!Next
<1>1. Store!Read(f, k)
  BY DEF Store!Read, AbsStore, AbsAt, AbsPos, Shown
<1> QED
  BY <1>1 DEF Store!Next

\* A truncation.
LEMMA AbsTruncate ==
  ASSUME NEW x \in Inodes, AbsStore' = [AbsStore EXCEPT ![x] = << >>], AbsAt' = AbsAt, AbsPos' = AbsPos
  PROVE  Store!Next
<1>1. Store!Truncate(x)
  BY DEF Store!Truncate, AbsStore, AbsAt, AbsPos, Shown
<1> QED
  BY <1>1 DEF Store!Next

\* A slot is opened.
LEMMA AbsOpen ==
  ASSUME NEW f \in Files, NEW x \in Inodes, AbsAt[f] = None, AbsAt' = [AbsAt EXCEPT ![f] = x],
         AbsPos' = [AbsPos EXCEPT ![f] = 0], AbsStore' = AbsStore
  PROVE  Store!Next
<1>1. Store!Open(f, x)
  BY DEF Store!Open, AbsStore, AbsAt, AbsPos, Shown
<1> QED
  BY <1>1 DEF Store!Next

\* A slot is closed.
LEMMA AbsClose ==
  ASSUME NEW f \in Files, AbsAt' = [AbsAt EXCEPT ![f] = None], AbsPos' = AbsPos, AbsStore' = AbsStore
  PROVE  Store!Next
<1>1. Store!Close(f)
  BY DEF Store!Close, AbsStore, AbsAt, AbsPos, Shown
<1> QED
  BY <1>1 DEF Store!Next
-----------------------------------------------------------------------------
(***************************************************************************)
(* One lemma per action: it keeps Contents, and is a step of FileStore or  *)
(* does not show.                                                          *)
(***************************************************************************)
StoreStep == Store!Next \/ Hidden

\* A step that does not change the table.
LEMMA FileSame ==
  ASSUME file' = file
  PROVE  OpenKept /\ AbsAt' = AbsAt /\ AbsPos' = AbsPos
BY DEF OpenKept, AbsAt, AbsPos

\* The store when one file changes and the others show as they were.
LEMMA StoreSet ==
  ASSUME NEW x \in Inodes, \A ip \in Inodes : ip # x => Shown(ip)' = Shown(ip)
  PROVE  AbsStore' = [AbsStore EXCEPT ![x] = Shown(x)'] /\ AbsStore[x] = Shown(x)
BY DEF AbsStore

\* The store when no file shows a change.
LEMMA StoreSame ==
  ASSUME \A ip \in Inodes : Shown(ip)' = Shown(ip)
  PROVE  AbsStore' = AbsStore
BY DEF AbsStore

\* write() only starts.
LEMMA Abs_sys_write ==
  ASSUME FilesInv, Contents, NEW p \in Procs, NEW fd \in FDs, NEW n \in Lengths, sys_write(p, fd, n)
  PROVE  Contents' /\ StoreStep
<1>0. TypeOK /\ CallsOK /\ NoHoles /\ call = [q \in Procs |-> call[q]]
  BY Parts DEF TypeOK
<1>1. PICK c : c.pc = "begin" /\ call' = [call EXCEPT ![p] = c]
  BY DEF sys_write, Goto
<1>2. call[p].pc = "user" /\ UNCHANGED <<block, inode, lock, file>>
  BY DEF sys_write, Busy, diskVars, fdVars
<1>3. call'[p].pc = "begin" /\ \A q \in Procs : q # p => call'[q] = call[q]
  BY <1>0, <1>1
<1>4. Contents' /\ AbsStore' = AbsStore
  <2>1. \A q \in Procs : call'[q].pc \in {"map", "zero"} =>
            /\ call[q].pc \in {"map", "zero"}
            /\ call'[q].ip = call[q].ip /\ call'[q].f = call[q].f /\ call'[q].n1 = call[q].n1
            /\ call'[q].tot = call[q].tot /\ file'[call[q].f].off = file[call[q].f].off
    BY <1>2, <1>3
  <2>2. \A q \in Procs : call[q].pc \in {"map", "zero", "trunc"} => call'[q].before = call[q].before
    BY <1>2, <1>3
  <2> QED
    BY <1>0, <1>2, <2>1, <2>2, ShownKept
<1> QED
  BY <1>2, <1>4, FileSame DEF StoreStep, Hidden

\* A slot is closed: FileStore's Close.
LEMMA AbsTableClosed ==
  ASSUME NEW f \in Files, ClosedAt(f), AbsStore' = AbsStore
  PROVE  Store!Next
<1>1. AbsAt' = [AbsAt EXCEPT ![f] = None]
  <2>1. ASSUME NEW g \in Files PROVE AbsAt'[g] = IF g = f THEN None ELSE AbsAt[g]
    BY DEF AbsAt, ClosedAt
  <2> QED
    BY <2>1 DEF AbsAt
<1>2. AbsPos' = AbsPos
  <2>1. ASSUME NEW g \in Files PROVE file'[g].off = file[g].off
    BY DEF ClosedAt
  <2> QED
    BY <2>1 DEF AbsPos
<1> QED
  BY <1>1, <1>2, AbsClose

\* A slot is opened: FileStore's Open.
LEMMA AbsTableOpened ==
  ASSUME NEW f \in Files, NEW x \in Inodes, OpenedAt(f, x), AbsStore' = AbsStore
  PROVE  Store!Next
<1>1. AbsAt' = [AbsAt EXCEPT ![f] = x]
  <2>1. ASSUME NEW g \in Files PROVE AbsAt'[g] = IF g = f THEN x ELSE AbsAt[g]
    BY DEF AbsAt, OpenedAt
  <2> QED
    BY <2>1 DEF AbsAt
<1>2. AbsPos' = [AbsPos EXCEPT ![f] = 0]
  <2>1. ASSUME NEW g \in Files PROVE AbsPos'[g] = IF g = f THEN 0 ELSE AbsPos[g]
    BY DEF AbsPos, OpenedAt
  <2> QED
    BY <2>1 DEF AbsPos
<1>3. AbsAt[f] = None
  BY DEF AbsAt, OpenedAt
<1> QED
  BY <1>1, <1>2, <1>3, AbsOpen

\* The calls on the table: what is being written stays, and files are opened
\* or closed as FileStore says.
LEMMA AbsTableStep ==
  ASSUME FilesInv, Contents, OffsKept, UNCHANGED <<block, inode, lock, call>>
  PROVE  /\ Contents' /\ AbsStore' = AbsStore
         /\ OpenKept => StoreStep
         /\ \A f \in Files : ClosedAt(f) => StoreStep
         /\ \A f \in Files, x \in Inodes : OpenedAt(f, x) => StoreStep
<1>0. TypeOK /\ CallsOK /\ NoHoles
  BY Parts
<1>1. Contents' /\ AbsStore' = AbsStore
  <2>1. \A q \in Procs : call'[q].pc \in {"map", "zero"} =>
            /\ call[q].pc \in {"map", "zero"}
            /\ call'[q].ip = call[q].ip /\ call'[q].f = call[q].f /\ call'[q].n1 = call[q].n1
            /\ call'[q].tot = call[q].tot /\ file'[call[q].f].off = file[call[q].f].off
    BY DEF OffsKept, AtWork
  <2> QED
    BY <1>0, <2>1, ShownKept
<1>2. ASSUME OpenKept PROVE StoreStep
  BY <1>1, <1>2, AbsTable DEF StoreStep, Hidden
<1>3. ASSUME NEW f \in Files, ClosedAt(f) PROVE StoreStep
  BY <1>1, <1>3, AbsTableClosed DEF StoreStep
<1>4. ASSUME NEW f \in Files, NEW x \in Inodes, OpenedAt(f, x) PROVE StoreStep
  BY <1>1, <1>4, AbsTableOpened DEF StoreStep
<1> QED
  BY <1>1, <1>2, <1>3, <1>4

\* dup(), close(), pipe() and fork().
LEMMA Abs_calls ==
  ASSUME FilesInv, Contents, NEW p \in Procs,
         \/ \E fd \in FDs : sys_dup(p, fd) \/ sys_close(p, fd)
         \/ sys_pipe(p) \/ \E q \in Procs : fork(p, q)
  PROVE  Contents' /\ StoreStep
<1>0. file \in [Files -> FileType]
  BY Parts DEF TypeOK
<1>1. ASSUME NEW fd \in FDs, sys_dup(p, fd) PROVE Contents' /\ StoreStep
  <2>1. OffsKept /\ UNCHANGED <<block, inode, lock, call>>
    BY <1>1, Step_sys_dup DEF sys_dup, diskVars
  <2>2. PICK f : file' = [file EXCEPT ![f].ref = @ + 1]
    BY <1>1 DEF sys_dup
  <2>3. OpenKept
    BY <1>0, <2>2 DEF OpenKept, FileType
  <2> QED
    BY <2>1, <2>3, AbsTableStep
<1>2. ASSUME NEW fd \in FDs, sys_close(p, fd) PROVE Contents' /\ StoreStep
  <2>1. UNCHANGED <<block, inode, lock, call>>
    BY <1>2 DEF sys_close, diskVars
  <2>2. OffsKept /\ (OpenKept \/ \E f \in Files : ClosedAt(f))
    BY <1>2, Step_sys_close
  <2> QED
    BY <2>1, <2>2, AbsTableStep
<1>3. ASSUME sys_pipe(p) PROVE Contents' /\ StoreStep
  <2>1. OffsKept /\ OpenKept /\ UNCHANGED <<block, inode, lock, call>>
    BY <1>3, Step_sys_pipe DEF sys_pipe, diskVars
  <2> QED
    BY <2>1, AbsTableStep
<1>4. ASSUME NEW q \in Procs, fork(p, q) PROVE Contents' /\ StoreStep
  <2>1. OffsKept /\ UNCHANGED <<block, inode, lock, call>>
    BY <1>4, Step_fork DEF fork, diskVars
  <2>2. file' = [f \in Files |-> [file[f] EXCEPT !.ref = @ + Cardinality({e \in FDs : ofile[p][e] = f})]]
    BY <1>4 DEF fork
  <2>3. OpenKept
    <3> DEFINE k(f) == Cardinality({e \in FDs : ofile[p][e] = f})
    <3>1. file' = [f \in Files |-> [file[f] EXCEPT !.ref = @ + k(f)]]
      BY <2>2
    <3> HIDE DEF k
    <3> QED
      BY <1>0, <3>1 DEF OpenKept, FileType
  <2> QED
    BY <2>1, <2>3, AbsTableStep
<1> QED
  BY <1>1, <1>2, <1>3, <1>4

\* read(): nobody is writing to the file, and the position moves.
LEMMA Abs_sys_read ==
  ASSUME FilesInv, Contents, NEW p \in Procs, NEW fd \in FDs, NEW n \in Lengths, sys_read(p, fd, n)
  PROVE  Contents' /\ StoreStep
<1>0. TypeOK /\ CallsOK /\ NoHoles /\ DescRefs /\ None \notin Procs \cup Inodes
  BY Parts, SetsAssumption
<1>1. PICK f \in Files : f = ofile[p][fd]
  <2>1. ofile[p][fd] # None
    BY DEF sys_read
  <2>2. ofile[p][fd] \in Files \cup {None}
    BY <1>0 DEF TypeOK
  <2> QED
    BY <2>1, <2>2
<1>2. PICK x \in Inodes : x = file[f].ip
  BY <1>0, <1>1 DEF sys_read, DescRefs
<1>3. file[f].type = "INODE" /\ lock[x] = None /\ UNCHANGED <<block, inode, lock, call>>
  BY <1>1, <1>2 DEF sys_read, Busy, diskVars
<1>4. PICK off \in Nat, z \in Nat : off = file[f].off /\ z = inode[x].size /\ z <= MAXFILE * BSIZE
  <2>1. file[f].off \in Nat
    BY <1>0 DEF TypeOK, FileType
  <2> QED
    BY <1>0, <2>1, BytesAre
<1> DEFINE s == IF off > z THEN 0 ELSE Min({n, z - off})
<1>5. s \in Nat /\ (s # 0 => off + s <= z)
  <2>1. n \in Nat
    BY SizesAssumption
  <2>2. n \in Int /\ z - off \in Int
    BY <2>1
  <2>3. Min({n, z - off}) = IF n <= z - off THEN n ELSE z - off
    BY <2>2, MinMax, Zenon
  <2> QED
    BY <2>1, <2>3
<1>6. file' = OffSet(file, f, off + s)
  BY <1>1, <1>2, <1>4 DEF sys_read, OffSet
<1> HIDE DEF s
<1>7. PICK k \in Nat : k = s
  BY <1>5
<1>8. /\ \A g \in Files : file'[g].type = file[g].type /\ file'[g].ip = file[g].ip
      /\ \A g \in Files : g # f => file'[g].off = file[g].off
      /\ file'[f].off = off + k
  <2>1. file \in [Files -> FileType] /\ off + k \in Nat
    BY <1>0 DEF TypeOK
  <2>2. file'[f].off = off + k
    BY <1>6, <1>7, <2>1 DEF OffSet, FileType
  <2> QED
    BY <1>6, <1>7, <2>1, <2>2, OffUpdate
<1>9. Contents' /\ AbsStore' = AbsStore
  <2>1. ASSUME NEW q \in Procs, call'[q].pc \in {"map", "zero"}
        PROVE  /\ call[q].pc \in {"map", "zero"}
               /\ call'[q].ip = call[q].ip /\ call'[q].f = call[q].f /\ call'[q].n1 = call[q].n1
               /\ call'[q].tot = call[q].tot /\ file'[call[q].f].off = file[call[q].f].off
    <3>1. call[q].pc \in {"map", "zero"} /\ call'[q] = call[q]
      BY <1>3, <2>1
    <3>2. call[q].f \in Files /\ lock[call[q].ip] = q /\ file[call[q].f].ip = call[q].ip
      BY <1>0, <3>1, WriteAt, Zenon
    <3>3. call[q].f # f
      BY <1>0, <1>2, <1>3, <3>2
    <3> QED
      BY <1>8, <3>1, <3>2, <3>3
  <2> QED
    BY <1>0, <1>3, <2>1, ShownKept
<1>10. AbsAt' = AbsAt
  BY <1>8 DEF AbsAt
<1>11. AbsPos' = [AbsPos EXCEPT ![f] = AbsPos[f] + k] /\ AbsPos[f] = off
  <2>1. AbsPos[f] = off
    BY <1>4 DEF AbsPos
  <2>2. ASSUME NEW g \in Files PROVE AbsPos'[g] = IF g = f THEN off + k ELSE AbsPos[g]
    BY <1>8 DEF AbsPos
  <2> QED
    BY <2>1, <2>2 DEF AbsPos
<1>12. CASE k = 0
  <2>1. AbsPos' = AbsPos
    <3>1. \A g \in Files : file'[g].off = file[g].off
      BY <1>4, <1>8, <1>12
    <3> QED
      BY <3>1 DEF AbsPos
  <2> QED
    BY <1>9, <1>10, <2>1 DEF StoreStep, Hidden
<1>13. CASE k # 0
  <2>1. AbsStore[x] = Bytes(x)
    BY <1>3 DEF AbsStore, Shown
  <2>2. Len(AbsStore[x]) = z
    <3>1. Bytes(x) \in [1..z -> Procs \cup {0}]
      BY <1>0, <1>4, BytesAre
    <3> QED
      BY <2>1, <3>1, LenIs
  <2>3. AbsAt[f] = x /\ x # None
    BY <1>0, <1>2, <1>3 DEF AbsAt
  <2>4. k \in 1..(MAXFILE * BSIZE) /\ AbsPos[f] + k <= Len(AbsStore[x])
    BY <1>4, <1>5, <1>7, <1>11, <1>13, <2>2, Sizes
  <2>5. Store!Next
    BY <1>9, <1>10, <1>11, <2>3, <2>4, AbsRead
  <2> QED
    BY <1>9, <2>5 DEF StoreStep
<1> QED
  BY <1>12, <1>13

\* A step on file x that does not show.
LEMMA HiddenOn ==
  ASSUME NEW p \in Procs, NEW x \in Inodes, CopyOK(p)', Shown(x)' = Shown(x),
         \A ip \in Inodes : ip # x => Shown(ip)' = Shown(ip), \A q \in Procs : q # p => CopyOK(q)'
  PROVE  Contents' /\ AbsStore' = AbsStore
<1>1. \A ip \in Inodes : Shown(ip)' = Shown(ip)
  OBVIOUS
<1>2. \A q \in Procs : CopyOK(q)'
  OBVIOUS
<1> QED
  BY <1>1, <1>2, StoreSame DEF Contents

\* The locks p holds are those of its own call.
LEMMA OtherLocks ==
  ASSUME CallsOK, NEW p \in Procs, NEW x \in Inodes,
         call[p].pc \in {"map", "zero", "trunc"} => call[p].ip = x
  PROVE  \A ip \in Inodes : ip # x => lock[ip] # p
BY HoldsLock

\* A chunk starts: nothing is copied yet, the file is what it was.
LEMMA Abs_write_begin ==
  ASSUME FilesInv, Contents, NEW p \in Procs, write_begin(p)
  PROVE  Contents' /\ StoreStep
<1>0. TypeOK /\ CallsOK /\ NoHoles /\ None \notin Procs /\ call = [q \in Procs |-> call[q]]
  BY Parts, SetsAssumption DEF TypeOK
<1> DEFINE c == call[p]
           n1 == Min({c.todo, filewrite_max})
           d == [pc |-> "map", f |-> c.f, ip |-> c.ip, todo |-> c.todo,
                 n1 |-> n1, tot |-> 0, new |-> 0, before |-> Bytes(c.ip)]
<1>1. c.pc = "begin" /\ c.ip \in Inodes /\ c.f \in Files /\ c.todo \in Nat
  <2>1. c.pc = "begin" /\ CallOK(p)
    BY <1>0 DEF write_begin, Busy, CallsOK
  <2> QED
    BY <2>1 DEF CallOK
<1>2. PICK x \in Inodes, f \in Files : x = c.ip /\ f = c.f
  BY <1>1
<1>3. PICK off \in Nat, n \in Nat : off = file[f].off /\ n = inode[x].size /\ n <= MAXFILE * BSIZE
  <2>1. file[f].off \in Nat
    BY <1>0 DEF TypeOK, FileType
  <2> QED
    BY <1>0, <2>1, BytesAre
<1>4. /\ lock[x] = None /\ UNCHANGED <<block, inode, file>>
      /\ \/ call' = [call EXCEPT ![p] = User] /\ UNCHANGED lock
         \/ call' = [call EXCEPT ![p] = d] /\ lock' = [lock EXCEPT ![x] = p] /\ ~(off > n)
  BY <1>2, <1>3 DEF write_begin, Goto, fdVars
<1>5. n1 <= filewrite_max
  <2>1. c.todo \in Int /\ filewrite_max \in Int
    BY <1>1, MaxChunkNat
  <2>2. n1 = IF c.todo <= filewrite_max THEN c.todo ELSE filewrite_max
    BY <2>1, MinMax, Zenon
  <2> QED
    BY <2>1, <2>2
<1> HIDE DEF n1
<1>6. CASE call' = [call EXCEPT ![p] = User] /\ UNCHANGED lock
  <2>1. call'[p].pc = "user" /\ \A q \in Procs : q # p => call'[q] = call[q]
    BY <1>0, <1>6 DEF User
  <2>2. \A q \in Procs : call'[q].pc \in {"map", "zero"} =>
            /\ call[q].pc \in {"map", "zero"}
            /\ call'[q].ip = call[q].ip /\ call'[q].f = call[q].f /\ call'[q].n1 = call[q].n1
            /\ call'[q].tot = call[q].tot /\ file'[call[q].f].off = file[call[q].f].off
    BY <1>4, <2>1
  <2>3. \A q \in Procs : call[q].pc \in {"map", "zero", "trunc"} => call'[q].before = call[q].before
    BY <1>1, <2>1
  <2>4. Contents' /\ AbsStore' = AbsStore
    BY <1>0, <1>4, <1>6, <2>2, <2>3, ShownKept
  <2> QED
    BY <1>4, <2>4, FileSame DEF StoreStep, Hidden
<1>7. CASE call' = [call EXCEPT ![p] = d] /\ lock' = [lock EXCEPT ![x] = p] /\ ~(off > n)
  <2>1. call'[p] = d /\ \A q \in Procs : q # p => call'[q] = call[q]
    <3> HIDE DEF d
    <3> QED
      BY <1>0, <1>7
  <2>2. PICK h : h = Bytes(x)
    OBVIOUS
  <2>3. /\ call'[p].pc = "map" /\ call'[p].ip = x /\ call'[p].f = f /\ call'[p].tot = 0
        /\ call'[p].n1 <= filewrite_max /\ call'[p].before = h
    BY <1>2, <1>5, <2>1, <2>2
  <2>4. lock'[x] = p /\ \A ip \in Inodes : ip # x => lock'[ip] = lock[ip]
    BY <1>0, <1>7 DEF TypeOK
  <2>5. \A ip \in Inodes : ip # x => lock[ip] # p
    BY <1>0, <1>1, OtherLocks
  <2>6. \A ip \in Inodes, j \in Entries : ip # x =>
            /\ Ref(ip, j)' = Ref(ip, j)
            /\ Ref(ip, j) # 0 => block'[Ref(ip, j)].bytes = block[Ref(ip, j)].bytes
    BY <1>4 DEF Ref
  <2>7. /\ \A ip \in Inodes : ip # x => Shown(ip)' = Shown(ip)
        /\ \A q \in Procs : q # p => CopyOK(q)'
    <3>1. lock[x] \in {None, p}
      BY <1>4
    <3>2. \A ip \in Inodes : ip # x => /\ lock[ip] # p /\ lock'[ip] = lock[ip]
                                       /\ inode'[ip].size = inode[ip].size
      BY <1>4, <2>4, <2>5
    <3>3. \A q \in Procs : (call[q].pc \in {"map", "zero"} /\ call[q].ip # x)
                           => file'[call[q].f].off = file[call[q].f].off
      BY <1>4
    <3> QED
      BY <1>0, <2>1, <2>6, <3>1, <3>2, <3>3, ShownElsewhere
  <2>8. Shown(x)' = Shown(x)
    BY <1>0, <1>4, <2>2, <2>3, <2>4 DEF Shown
  <2>9. CopyOK(p)'
    <3>1. WriteIs(p, x, f, off, 0, n)'
      BY <1>3, <1>4, <2>3 DEF WriteIs
    <3>2. /\ h = [i \in 1..n |-> Cell(x, i - 1)] /\ h \in [1..n -> Procs \cup {0}]
      BY <1>0, <1>3, <2>2, BytesAre
    <3>3. ASSUME NEW o \in 0..(MAXFILE * BSIZE - 1), o < n \/ o < off + 0
          PROVE  Cell(x, o)' = IF off <= o /\ o < off + 0 THEN p ELSE h[o + 1]
      <4>1. o + 1 \in 1..n /\ ~(off <= o /\ o < off + 0)
        BY <1>7, <3>3, Sizes
      <4>2. Cell(x, o)' = Cell(x, o)
        BY <1>4 DEF Cell, BlockOf, Ref, EntryOf
      <4>3. h[o + 1] = Cell(x, o + 1 - 1)
        BY <3>2, <4>1
      <4>4. o + 1 - 1 = o
        BY <3>3, Sizes
      <4> QED
        BY <4>1, <4>2, <4>3, <4>4
    <3>4. SoFar(p, x, off, 0, n, h)'
      BY <3>2, <3>3 DEF SoFar
    <3> QED
      BY <2>3, <3>1, <3>4, CopyNext
  <2>10. Contents' /\ AbsStore' = AbsStore
    BY <2>7, <2>8, <2>9, HiddenOn
  <2> QED
    BY <1>4, <2>10, FileSame DEF StoreStep, Hidden
<1> QED
  BY <1>4, <1>6, <1>7

\* open(): a slot is opened, and with O_TRUNC the file stays as it is until
\* itrunc() is through.
LEMMA Abs_sys_open ==
  ASSUME FilesInv, Contents, NEW p \in Procs, NEW x \in Inodes, NEW trunc \in BOOLEAN, NEW omode \in Modes,
         sys_open(p, x, trunc, omode)
  PROVE  Contents' /\ StoreStep
<1>0. TypeOK /\ CallsOK /\ NoHoles /\ None \notin Procs /\ call = [q \in Procs |-> call[q]]
  BY Parts, SetsAssumption DEF TypeOK
<1>1. OffsKept /\ (OpenKept \/ \E f \in Files : OpenedAt(f, x))
  BY Step_sys_open
<1> DEFINE t == [pc |-> "trunc", ip |-> x, before |-> Bytes(x)]
<1>2. /\ call[p].pc = "user" /\ lock[x] = None
      /\ \/ UNCHANGED <<block, inode, lock, call>>
         \/ UNCHANGED <<block, inode>> /\ lock' = [lock EXCEPT ![x] = p] /\ call' = [call EXCEPT ![p] = t]
  BY DEF sys_open, Goto, diskVars, Busy
<1>3. CASE UNCHANGED <<block, inode, lock, call>>
  BY <1>1, <1>3, AbsTableStep
<1>4. CASE UNCHANGED <<block, inode>> /\ lock' = [lock EXCEPT ![x] = p] /\ call' = [call EXCEPT ![p] = t]
  <2>1. call'[p] = t /\ \A q \in Procs : q # p => call'[q] = call[q]
    <3> HIDE DEF t
    <3> QED
      BY <1>0, <1>4
  <2>2. call'[p].pc = "trunc" /\ call'[p].before = Bytes(x)
    BY <2>1
  <2>3. lock'[x] = p /\ \A ip \in Inodes : ip # x => lock'[ip] = lock[ip]
    BY <1>0, <1>4 DEF TypeOK
  <2>4. \A ip \in Inodes : ip # x => lock[ip] # p
    BY <1>0, <1>2, OtherLocks
  <2>5. \A ip \in Inodes, j \in Entries : ip # x =>
            /\ Ref(ip, j)' = Ref(ip, j)
            /\ Ref(ip, j) # 0 => block'[Ref(ip, j)].bytes = block[Ref(ip, j)].bytes
    BY <1>4 DEF Ref
  <2>6. /\ \A ip \in Inodes : ip # x => Shown(ip)' = Shown(ip)
        /\ \A q \in Procs : q # p => CopyOK(q)'
    <3>1. lock[x] \in {None, p}
      BY <1>2
    <3>2. \A ip \in Inodes : ip # x => /\ lock[ip] # p /\ lock'[ip] = lock[ip]
                                       /\ inode'[ip].size = inode[ip].size
      BY <1>4, <2>3, <2>4
    <3>3. \A q \in Procs : (call[q].pc \in {"map", "zero"} /\ call[q].ip # x)
                           => file'[call[q].f].off = file[call[q].f].off
      BY <1>1 DEF OffsKept, AtWork
    <3> QED
      BY <1>0, <2>1, <2>5, <3>1, <3>2, <3>3, ShownElsewhere
  <2>7. Shown(x)' = Shown(x)
    BY <1>0, <1>2, <2>2, <2>3 DEF Shown
  <2>8. CopyOK(p)'
    BY <2>2 DEF CopyOK
  <2>9. Contents' /\ AbsStore' = AbsStore
    BY <2>6, <2>7, <2>8, HiddenOn
  <2>10. CASE OpenKept
    BY <2>9, <2>10, AbsTable DEF StoreStep, Hidden
  <2>11. CASE \E f \in Files : OpenedAt(f, x)
    BY <2>9, <2>11, AbsTableOpened DEF StoreStep
  <2> QED
    BY <1>1, <2>9, <2>10, <2>11
<1> QED
  BY <1>2, <1>3, <1>4

\* balloc() changes no file yet.
LEMMA Abs_balloc ==
  ASSUME FilesInv, Contents, NEW p \in Procs, balloc(p)
  PROVE  Contents' /\ StoreStep
<1>0. TypeOK /\ CallsOK /\ NoHoles /\ call = [q \in Procs |-> call[q]]
  BY Parts DEF TypeOK
<1>1. call[p].pc = "map" /\ call[p].pc \in {"map", "zero"}
  BY DEF balloc, Writing, Busy
<1>2. PICK b : b = Min(Blocks \ bitmap)
  OBVIOUS
<1>3. call[p] = [pc |-> call[p].pc, f |-> call[p].f, ip |-> call[p].ip, todo |-> call[p].todo,
                 n1 |-> call[p].n1, tot |-> call[p].tot, new |-> call[p].new, before |-> call[p].before]
  BY <1>0, <1>1, WriteAt, Zenon
<1> DEFINE d == [pc |-> "zero", f |-> call[p].f, ip |-> call[p].ip, todo |-> call[p].todo,
                 n1 |-> call[p].n1, tot |-> call[p].tot, new |-> b, before |-> call[p].before]
<1>4. call' = [call EXCEPT ![p] = d] /\ UNCHANGED <<block, inode, lock, file>>
  <2>1. Updated(call[p], "zero", b) = d
    BY <1>3, CallUpdates
  <2> QED
    BY <1>2, <2>1 DEF balloc, Goto, fdVars, Updated
<1>5. call'[p] = d /\ \A q \in Procs : q # p => call'[q] = call[q]
  <2> HIDE DEF d
  <2> QED
    BY <1>0, <1>4
<1>6. /\ call'[p].ip = call[p].ip /\ call'[p].f = call[p].f /\ call'[p].n1 = call[p].n1
      /\ call'[p].tot = call[p].tot /\ call'[p].before = call[p].before
  BY <1>5
<1>7. \A q \in Procs : call'[q].pc \in {"map", "zero"} =>
          /\ call[q].pc \in {"map", "zero"}
          /\ call'[q].ip = call[q].ip /\ call'[q].f = call[q].f /\ call'[q].n1 = call[q].n1
          /\ call'[q].tot = call[q].tot /\ file'[call[q].f].off = file[call[q].f].off
  <2> HIDE DEF d
  <2> QED
    BY <1>1, <1>4, <1>5, <1>6
<1>8. \A q \in Procs : call[q].pc \in {"map", "zero", "trunc"} => call'[q].before = call[q].before
  BY <1>5, <1>6
<1>9. Contents' /\ AbsStore' = AbsStore
  BY <1>0, <1>4, <1>7, <1>8, ShownKept
<1> QED
  BY <1>4, <1>9, FileSame DEF StoreStep, Hidden

\* Storing into an indirect block changes no bytes.
LEMMA PtrsBytes ==
  ASSUME NEW g \in [Blocks -> BlockType], NEW x \in Blocks, NEW j, NEW v
  PROVE  \A d \in Blocks : SetPtr(g, x, j, v)[d].bytes = g[d].bytes
<1> DEFINE a == [g[x].ptrs EXCEPT ![j] = v]
<1>1. SetPtr(g, x, j, v) = [g EXCEPT ![x].ptrs = a]
  BY DEF SetPtr
<1> HIDE DEF a
<1>2. g[x] \in BlockType
  OBVIOUS
<1>3. SetPtr(g, x, j, v)[x].bytes = g[x].bytes
  BY <1>1, <1>2 DEF BlockType
<1>4. \A d \in Blocks : d # x => SetPtr(g, x, j, v)[d] = g[d]
  BY <1>1
<1> QED
  BY <1>3, <1>4

\* bzero() changes the bytes of a block that is in no file yet.
LEMMA BzeroBytes ==
  ASSUME TypeOK, CallsOK, NEW p \in Procs, bzero(p), NEW b \in Blocks, b = call[p].new
  PROVE  \A d \in Blocks : d # b => block'[d].bytes = block[d].bytes
<1>1. call[p].pc = "zero"
  BY DEF bzero, Busy
<1>2. PICK x \in Inodes : x = call[p].ip
  BY <1>1, WriteAt
<1>3. PICK j \in Entries : j = Missing(x, WriteOff(p))
  BY <1>1, <1>2, ZeroAt, Zenon
<1> DEFINE g == [block EXCEPT ![b] = ZeroBlock]
<1>4. g \in [Blocks -> BlockType] /\ \A d \in Blocks : d # b => g[d] = block[d]
  <2>1. ZeroBlock \in BlockType
    BY DEF ZeroBlock, BlockType
  <2> QED
    BY <2>1 DEF TypeOK
<1>5. CASE j <= NDIRECT
  <2>1. block' = g
    BY <1>2, <1>3, <1>5 DEF bzero
  <2> HIDE DEF g
  <2> QED
    BY <1>4, <2>1
<1>6. CASE ~(j <= NDIRECT)
  <2>1. PICK e : e = inode[x].addrs[NDIRECT]
    OBVIOUS
  <2>2. e \in Blocks
    <3>1. NDIRECT \in Entries /\ NDIRECT \in Nat /\ j \in Nat
      BY PlaceKinds, Sizes
    <3>2. Ref(x, NDIRECT) = e
      BY <2>1, <3>1 DEF Ref
    <3>3. Ref(x, NDIRECT) # 0
      BY <1>1, <1>2, <1>3, <1>6, <3>1, ZeroAt
    <3> QED
      BY <3>1, <3>2, <3>3, RefType
  <2>3. block' = SetPtr(g, e, j - NDIRECT - 1, b)
    BY <1>2, <1>3, <1>6, <2>1 DEF bzero, SetPtr
  <2> HIDE DEF g
  <2>4. \A d \in Blocks : block'[d].bytes = g[d].bytes
    BY <1>4, <2>2, <2>3, PtrsBytes
  <2> QED
    BY <1>4, <2>4
<1> QED
  BY <1>5, <1>6

\* A block that was missing comes in: no byte of any file changes.
LEMMA Abs_bzero ==
  ASSUME FilesInv, Contents, NEW p \in Procs, bzero(p)
  PROVE  Contents' /\ StoreStep
<1>0. TypeOK /\ CallsOK /\ BlocksOwned /\ NoHoles /\ None \notin Procs /\ call = [q \in Procs |-> call[q]]
  BY Parts, SetsAssumption DEF TypeOK
<1>1. call[p].pc = "zero" /\ call[p].pc \in {"map", "zero"}
  BY DEF bzero, Busy
<1>2. call[p] = [pc |-> call[p].pc, f |-> call[p].f, ip |-> call[p].ip, todo |-> call[p].todo,
                 n1 |-> call[p].n1, tot |-> call[p].tot, new |-> call[p].new, before |-> call[p].before]
  BY <1>0, <1>1, WriteAt, Zenon
<1>3. PICK x \in Inodes : x = call[p].ip /\ lock[x] = p
  BY <1>0, <1>1, WriteAt, Zenon
<1>4. PICK b \in Blocks : b = call[p].new
  BY <1>0, <1>1, ZeroAt, Zenon
<1>5. PICK j \in Entries : j = Missing(x, WriteOff(p))
  BY <1>0, <1>1, <1>3, ZeroAt, Zenon
<1>6. b # 0 /\ New(p) = b /\ Ref(x, j) = 0
  BY <1>0, <1>1, <1>3, <1>4, <1>5, ZeroAt
<1> DEFINE d == [pc |-> "map", f |-> call[p].f, ip |-> call[p].ip, todo |-> call[p].todo,
                 n1 |-> call[p].n1, tot |-> call[p].tot, new |-> 0, before |-> call[p].before]
<1>7. call' = [call EXCEPT ![p] = d] /\ UNCHANGED <<file, lock>>
  <2>1. Updated(call[p], "map", 0) = d
    BY <1>2, CallUpdates
  <2> QED
    BY <2>1 DEF bzero, Goto, fdVars, Updated
<1>8. call'[p] = d /\ \A q \in Procs : q # p => call'[q] = call[q]
  <2> HIDE DEF d
  <2> QED
    BY <1>0, <1>7
<1>9. /\ call'[p].ip = call[p].ip /\ call'[p].f = call[p].f /\ call'[p].n1 = call[p].n1
      /\ call'[p].tot = call[p].tot /\ call'[p].before = call[p].before
  BY <1>8
<1>10. /\ \A ip \in Inodes : inode'[ip].size = inode[ip].size
       /\ \A ip \in Inodes, i \in Entries : Ref(ip, i)' = IF ip = x /\ i = j THEN b ELSE Ref(ip, i)
  BY <1>0, <1>3, <1>4, <1>5, BzeroRefs
<1>11. ASSUME NEW ip \in Inodes, NEW i \in Entries, Ref(ip, i) # 0
       PROVE  block'[Ref(ip, i)].bytes = block[Ref(ip, i)].bytes
  <2>1. PICK k \in Blocks : k = Ref(ip, i)
    BY <1>0, <1>11, RefType
  <2>2. k # b
    BY <1>0, <1>6, <2>1, OwnInj
  <2> QED
    BY <1>0, <1>4, <2>1, <2>2, BzeroBytes
<1>12. /\ \A ip \in Inodes : ip # x => Shown(ip)' = Shown(ip)
       /\ \A q \in Procs : q # p => CopyOK(q)'
  <2>1. lock[x] \in {None, p}
    BY <1>3
  <2>2. \A ip \in Inodes : ip # x => lock[ip] # p
    BY <1>0, <1>3, OtherLocks
  <2>3. \A ip \in Inodes : ip # x => /\ lock[ip] # p /\ lock'[ip] = lock[ip]
                                     /\ inode'[ip].size = inode[ip].size
    BY <1>7, <1>10, <2>2
  <2>4. \A ip \in Inodes, i \in Entries : ip # x =>
            /\ Ref(ip, i)' = Ref(ip, i)
            /\ Ref(ip, i) # 0 => block'[Ref(ip, i)].bytes = block[Ref(ip, i)].bytes
    BY <1>10, <1>11
  <2>5. \A q \in Procs : (call[q].pc \in {"map", "zero"} /\ call[q].ip # x)
                         => file'[call[q].f].off = file[call[q].f].off
    BY <1>7
  <2> HIDE DEF d
  <2> QED
    BY <1>0, <1>8, <2>1, <2>3, <2>4, <2>5, ShownElsewhere
<1>13. Shown(x)' = Shown(x)
  BY <1>0, <1>3, <1>7, <1>9 DEF Shown
<1>14. CopyOK(p)'
  <2>1. ASSUME NEW o \in Nat, o < MAXFILE * BSIZE, BlockOf(x, o) # 0
        PROVE  Cell(x, o)' = Cell(x, o)
    <3>1. PICK e \in Entries : e = EntryOf(o)
      BY <2>1, EntryIn
    <3>2. BlockOf(x, o) = Ref(x, e) /\ Ref(x, e) # 0
      BY <2>1, <3>1 DEF BlockOf
    <3>3. Ref(x, e)' = Ref(x, e)
      BY <1>6, <1>10, <3>2
    <3>4. BlockOf(x, o)' = BlockOf(x, o)
      BY <3>1, <3>2, <3>3 DEF BlockOf, EntryOf
    <3>5. block'[Ref(x, e)].bytes = block[Ref(x, e)].bytes
      BY <1>11, <3>2
    <3> QED
      BY <3>2, <3>4, <3>5 DEF Cell
  <2>2. \A o \in Nat : (o < MAXFILE * BSIZE /\ BlockOf(x, o) # 0) => Cell(x, o)' = Cell(x, o)
    BY <2>1
  <2>3. /\ call[p].pc \in {"map", "zero"} /\ CopyOK(p)
        /\ file'[call[p].f].off = file[call[p].f].off
        /\ inode'[call[p].ip].size = inode[call[p].ip].size
    BY <1>1, <1>3, <1>7, <1>10 DEF Contents
  <2>4. \A o \in Nat : (o < MAXFILE * BSIZE /\ BlockOf(call[p].ip, o) # 0)
                          => Cell(call[p].ip, o)' = Cell(call[p].ip, o)
    BY <1>3, <1>9, <2>2
  <2> QED
    BY <1>0, <1>9, <2>3, <2>4, CopyFrame
<1>15. Contents' /\ AbsStore' = AbsStore
  BY <1>12, <1>13, <1>14, HiddenOn
<1> QED
  BY <1>7, <1>15, FileSame DEF StoreStep, Hidden

\* Bytes are copied: the file is locked and does not show them yet.
LEMMA Abs_write_copy ==
  ASSUME FilesInv, Contents, NEW p \in Procs, write_copy(p)
  PROVE  Contents' /\ StoreStep
<1>0. TypeOK /\ CallsOK /\ BlocksOwned /\ NoHoles /\ None \notin Procs /\ call = [q \in Procs |-> call[q]]
  BY Parts, SetsAssumption DEF TypeOK
<1>1. Writing(p) /\ BlockOf(call[p].ip, WriteOff(p)) # 0
  BY DEF write_copy
<1>2. call[p].pc = "map" /\ call[p].tot < call[p].n1 /\ call[p].pc \in {"map", "zero"}
  BY <1>1 DEF Writing, Busy
<1>3. call[p] = [pc |-> call[p].pc, f |-> call[p].f, ip |-> call[p].ip, todo |-> call[p].todo,
                 n1 |-> call[p].n1, tot |-> call[p].tot, new |-> call[p].new, before |-> call[p].before]
  BY <1>0, <1>2, WriteAt, Zenon
<1>4. PICK x \in Inodes, f \in Files, off \in Nat, tot \in Nat, n \in Nat : Backed(p, x, f, off, tot, n)
  BY <1>0, <1>2, Ongoing
<1>5. /\ WriteIs(p, x, f, off, tot, n) /\ WriteOff(p) = off + tot /\ lock[x] = p /\ x = call[p].ip
      /\ f = call[p].f /\ tot = call[p].tot
  BY <1>4 DEF Backed, WriteIs
<1>6. PICK w \in Nat : w = WriteOff(p) /\ w < MAXFILE * BSIZE /\ w = off + tot
  BY <1>0, <1>1, <1>5, Chunk
<1>7. PICK b \in Blocks : b = BlockOf(x, w)
  <2>1. PICK e \in Entries : e = EntryOf(w)
    BY <1>6, EntryIn
  <2>2. Ref(x, e) \in Blocks \cup {0}
    BY <1>0, RefType
  <2>3. BlockOf(x, w) = Ref(x, e)
    BY <2>1 DEF BlockOf
  <2> QED
    BY <1>1, <1>5, <1>6, <2>2, <2>3
<1>8. PICK m \in Nat : m = ChunkLen(p)
  BY <1>0, <1>1, Chunk
<1> DEFINE d == [pc |-> "map", f |-> call[p].f, ip |-> call[p].ip, todo |-> call[p].todo, n1 |-> call[p].n1,
                 tot |-> call[p].tot + ChunkLen(p), new |-> call[p].new, before |-> call[p].before]
<1>9. /\ call' = [call EXCEPT ![p] = d] /\ UNCHANGED <<inode, file, lock>>
      /\ block' = Copied(p, b, m)
  <2>1. Advanced(call[p], ChunkLen(p)) = d
    BY <1>2, <1>3, CallAdvances
  <2> QED
    BY <1>5, <1>6, <1>7, <1>8, <2>1 DEF write_copy, Goto, fdVars, Advanced
<1>10. call'[p] = d /\ \A q \in Procs : q # p => call'[q] = call[q]
  <2> HIDE DEF d
  <2> QED
    BY <1>0, <1>9
<1>11. PICK h : h = call[p].before
  OBVIOUS
<1>12. /\ call'[p].pc = "map" /\ call'[p].ip = x /\ call'[p].f = f /\ call'[p].n1 = call[p].n1
       /\ call'[p].tot = tot + m /\ call'[p].before = h
  BY <1>5, <1>8, <1>10, <1>11
<1>13. /\ \A ip \in Inodes, i \in Entries : Ref(ip, i)' = Ref(ip, i)
       /\ \A ip \in Inodes, i \in Entries : (ip # x /\ Ref(ip, i) # 0) =>
             block'[Ref(ip, i)].bytes = block[Ref(ip, i)].bytes
       /\ \A o \in Nat : o < MAXFILE * BSIZE =>
             Cell(x, o)' = IF w <= o /\ o < w + m THEN p ELSE Cell(x, o)
  <2>1. m <= ChunkLen(p)
    BY <1>8
  <2>2. \A ip \in Inodes : inode'[ip].addrs = inode[ip].addrs
    BY <1>9
  <2> HIDE DEF d
  <2> QED
    BY <1>0, <1>1, <1>5, <1>6, <1>7, <1>9, <2>1, <2>2, CopiedCells DEF Spills
<1>14. /\ \A ip \in Inodes : ip # x => Shown(ip)' = Shown(ip)
       /\ \A q \in Procs : q # p => CopyOK(q)'
  <2>1. lock[x] \in {None, p}
    BY <1>5
  <2>2. \A ip \in Inodes : ip # x => lock[ip] # p
    BY <1>0, <1>5, OtherLocks
  <2>3. \A ip \in Inodes : ip # x => /\ lock[ip] # p /\ lock'[ip] = lock[ip]
                                     /\ inode'[ip].size = inode[ip].size
    BY <1>9, <2>2
  <2>4. \A ip \in Inodes, i \in Entries : ip # x =>
            /\ Ref(ip, i)' = Ref(ip, i)
            /\ Ref(ip, i) # 0 => block'[Ref(ip, i)].bytes = block[Ref(ip, i)].bytes
    BY <1>13
  <2>5. \A q \in Procs : (call[q].pc \in {"map", "zero"} /\ call[q].ip # x)
                         => file'[call[q].f].off = file[call[q].f].off
    BY <1>9
  <2> HIDE DEF d
  <2> QED
    BY <1>0, <1>10, <2>1, <2>3, <2>4, <2>5, ShownElsewhere
<1>15. Shown(x)' = Shown(x)
  BY <1>0, <1>5, <1>9, <1>11, <1>12 DEF Shown
<1>16. CopyOK(p)'
  <2>1. SoFar(p, x, off, tot, n, h) /\ call[p].n1 <= filewrite_max
    <3>1. CopyOK(p)
      BY DEF Contents
    <3> QED
      BY <1>2, <1>5, <1>11, <3>1, CopyIs
  <2>2. WriteIs(p, x, f, off, tot + m, n)'
    <3> HIDE DEF d
    <3> QED
      BY <1>5, <1>9, <1>12 DEF WriteIs
  <2>3. ASSUME NEW o \in 0..(MAXFILE * BSIZE - 1), o < n \/ o < off + (tot + m)
        PROVE  Cell(x, o)' = IF off <= o /\ o < off + (tot + m) THEN p ELSE h[o + 1]
    <3>1. o \in Nat /\ o < MAXFILE * BSIZE
      BY Sizes
    <3>2. Cell(x, o)' = IF w <= o /\ o < w + m THEN p ELSE Cell(x, o)
      BY <1>13, <3>1
    <3>3. (o < n \/ o < off + tot) => Cell(x, o) = IF off <= o /\ o < off + tot THEN p ELSE h[o + 1]
      BY <2>1 DEF SoFar
    <3>4. (w <= o /\ o < w + m) <=> (off + tot <= o /\ o < off + (tot + m))
      BY <1>6, <3>1
    <3>5. CASE w <= o /\ o < w + m
      BY <3>1, <3>2, <3>4, <3>5
    <3>6. CASE ~(w <= o /\ o < w + m)
      <4>1. o < n \/ o < off + tot
        BY <2>3, <3>1, <3>4, <3>6
      <4>2. (off <= o /\ o < off + tot) <=> (off <= o /\ o < off + (tot + m))
        BY <3>1, <3>4, <3>6
      <4> QED
        BY <3>2, <3>3, <3>6, <4>1, <4>2
    <3> QED
      BY <3>5, <3>6
  <2>4. SoFar(p, x, off, tot + m, n, h)'
    BY <2>1, <2>3 DEF SoFar
  <2>5. call'[p].n1 <= filewrite_max
    BY <1>12, <2>1
  <2> QED
    BY <1>12, <2>2, <2>4, <2>5, CopyNext
<1>17. Contents' /\ AbsStore' = AbsStore
  BY <1>14, <1>15, <1>16, HiddenOn
<1> QED
  BY <1>9, <1>17, FileSame DEF StoreStep, Hidden

\* The end of writei(): what was copied shows at once, as FileStore's Write
\* of tot bytes that may spoil m more.
LEMMA AbsWriteEnd ==
  ASSUME FilesInv, Contents, NEW p \in Procs, call[p].pc = "map", writei_end(p, call[p].tot),
         NEW d, call' = [call EXCEPT ![p] = d], d.pc \in {"user", "begin"},
         NEW x \in Inodes, x = call[p].ip, NEW w \in Nat, w = WriteOff(p), NEW m \in 0..(BSIZE - 1),
         Spills(p, x, w, m)
  PROVE  Contents' /\ StoreStep
<1>0. TypeOK /\ CallsOK /\ NoHoles /\ None \notin Procs \cup Inodes /\ call = [q \in Procs |-> call[q]]
  BY Parts, SetsAssumption DEF TypeOK
<1>1. call[p].pc \in {"map", "zero"}
  OBVIOUS
<1>2. PICK y \in Inodes, f \in Files, off \in Nat, tot \in Nat, n \in Nat : Backed(p, y, f, off, tot, n)
  BY <1>0, <1>1, Ongoing
<1>3. /\ WriteIs(p, x, f, off, tot, n) /\ w = off + tot /\ lock[x] = p
      /\ f = call[p].f /\ tot = call[p].tot /\ off = file[f].off /\ n = inode[x].size
      /\ off <= n /\ n <= MAXFILE * BSIZE /\ off + tot <= MAXFILE * BSIZE
      /\ file[f].type = "INODE" /\ file[f].ip = x
  BY <1>2 DEF Backed, WriteIs
<1>4. PICK h : h = call[p].before
  OBVIOUS
<1>5. SoFar(p, x, off, tot, n, h) /\ tot <= filewrite_max
  <2>1. CopyOK(p)
    BY DEF Contents
  <2>2. SoFar(p, x, off, tot, n, h) /\ call[p].n1 <= filewrite_max
    BY <1>1, <1>3, <1>4, <2>1, CopyIs
  <2>3. call[p].n1 \in Nat /\ call[p].tot <= call[p].n1
    BY <1>0, <1>1, WriteAt
  <2> QED
    BY <1>3, <2>2, <2>3, MaxChunkNat
<1>6. Max({n, w}) = IF n >= w THEN n ELSE w
  <2>1. n \in Int /\ w \in Int
    OBVIOUS
  <2> QED
    BY <2>1, MinMax, Zenon
<1>7. PICK z \in Nat : z = Max({n, w}) /\ z = (IF off + tot > n THEN off + tot ELSE n)
  BY <1>3, <1>6
<1>8. /\ inode' = [inode EXCEPT ![x].size = z]
      /\ file' = OffSet(file, f, off + tot)
      /\ lock' = [lock EXCEPT ![x] = None]
  BY <1>3, <1>7 DEF writei_end, OffSet
<1>9. inode'[x].size = z /\ \A ip \in Inodes : ip # x => inode'[ip].size = inode[ip].size
  BY <1>0, <1>8 DEF TypeOK, InodeType
<1>10. lock'[x] = None /\ \A ip \in Inodes : ip # x => lock'[ip] = lock[ip]
  BY <1>0, <1>8 DEF TypeOK
<1>11. call'[p] = d /\ \A q \in Procs : q # p => call'[q] = call[q]
  BY <1>0
<1>12. /\ \A g \in Files : file'[g].type = file[g].type /\ file'[g].ip = file[g].ip
       /\ \A g \in Files : g # f => file'[g].off = file[g].off
       /\ file'[f].off = off + tot
  <2>1. file \in [Files -> FileType] /\ off + tot \in Nat
    BY <1>0 DEF TypeOK
  <2>2. file'[f].off = off + tot
    BY <1>8, <2>1 DEF OffSet, FileType
  <2> QED
    BY <1>8, <2>1, <2>2, OffUpdate
<1>13. /\ \A ip \in Inodes : ip # x => Shown(ip)' = Shown(ip)
       /\ \A q \in Procs : q # p => CopyOK(q)'
  <2>1. lock[x] \in {None, p}
    BY <1>3
  <2>2. \A ip \in Inodes : ip # x => lock[ip] # p
    BY <1>0, OtherLocks
  <2>3. \A ip \in Inodes : ip # x => /\ lock[ip] # p /\ lock'[ip] = lock[ip]
                                     /\ inode'[ip].size = inode[ip].size
    BY <1>9, <1>10, <2>2
  <2>4. \A ip \in Inodes, i \in Entries : ip # x =>
            /\ Ref(ip, i)' = Ref(ip, i)
            /\ Ref(ip, i) # 0 => block'[Ref(ip, i)].bytes = block[Ref(ip, i)].bytes
    BY DEF Spills
  <2>5. ASSUME NEW q \in Procs, call[q].pc \in {"map", "zero"}, call[q].ip # x
        PROVE  file'[call[q].f].off = file[call[q].f].off
    <3>1. call[q].f \in Files /\ file[call[q].f].ip = call[q].ip
      BY <1>0, <2>5, WriteAt, Zenon
    <3>2. call[q].f # f
      BY <1>3, <2>5, <3>1
    <3> QED
      BY <1>12, <3>1, <3>2
  <2> QED
    BY <1>0, <1>11, <2>1, <2>3, <2>4, <2>5, ShownElsewhere
<1>14. Contents'
  <2>1. CopyOK(p)'
    BY <1>11 DEF CopyOK
  <2> QED
    BY <1>13, <2>1 DEF Contents
<1>15. Shown(x)' = [i \in 1..z |-> IF i > off /\ i <= off + tot + m THEN p ELSE h[i]]
  <2>1. Shown(x)' = Bytes(x)'
    BY <1>10 DEF Shown
  <2>2. Bytes(x)' = [i \in 1..z |-> Cell(x, i - 1)']
    BY <1>9, BytesNext
  <2>3. ASSUME NEW i \in 1..z
        PROVE  Cell(x, i - 1)' = IF i > off /\ i <= off + tot + m THEN p ELSE h[i]
    <3>0. PICK o \in Nat : o = i - 1 /\ o < z /\ o + 1 = i
      OBVIOUS
    <3>1. o = i - 1 /\ o < MAXFILE * BSIZE /\ (o < n \/ o < off + tot) /\ o + 1 = i
      <4>1. PICK k \in Nat : k = MAXFILE * BSIZE
        BY Sizes
      <4>2. z = (IF off + tot > n THEN off + tot ELSE n) /\ n <= k /\ off + tot <= k
        BY <1>3, <1>7, <4>1
      <4>3. o < k /\ (o < n \/ o < off + tot)
        BY <3>0, <4>2
      <4> QED
        BY <3>0, <4>1, <4>3
    <3>2. Cell(x, o)' = IF w <= o /\ o < w + m THEN p ELSE Cell(x, o)
      BY <3>1 DEF Spills
    <3>3. Cell(x, o) = IF off <= o /\ o < off + tot THEN p ELSE h[o + 1]
      <4>1. o \in 0..(MAXFILE * BSIZE - 1)
        BY <3>1, Sizes
      <4> QED
        BY <1>5, <3>1, <4>1 DEF SoFar
    <3>4. (i > off /\ i <= off + tot + m) <=> ((w <= o /\ o < w + m) \/ (off <= o /\ o < off + tot))
      BY <1>3, <3>1
    <3> QED
      BY <3>1, <3>2, <3>3, <3>4
  <2> QED
    BY <2>1, <2>2, <2>3
<1>16. AbsStore[x] = h /\ AbsPos[f] = off /\ AbsAt[f] = x
  BY <1>0, <1>3, <1>4 DEF AbsStore, AbsPos, AbsAt, Shown
<1>17. h \in Seq(Procs \cup {0}) /\ Len(h) = n
  <2>1. h \in [1..n -> Procs \cup {0}]
    BY <1>5 DEF SoFar
  <2> QED
    BY <2>1, LenIs
<1>18. AbsStore' = [AbsStore EXCEPT ![x] = Written(AbsStore[x], AbsPos[f], tot, m, p)]
  <2>1. AbsStore' = [AbsStore EXCEPT ![x] = Shown(x)']
    BY <1>13, StoreSet
  <2>2. m \in Nat
    BY Sizes
  <2>3. Written(h, off, tot, m, p) = Patched(h, z, off, off + tot + m, p)
    <3>1. z = (IF off + tot > Len(h) THEN off + tot ELSE Len(h))
      BY <1>7, <1>17
    <3>2. off <= Len(h) /\ h \in Seq(Procs \cup {0})
      BY <1>3, <1>17
    <3> QED
      BY <2>2, <3>1, <3>2, Overwrites
  <2> QED
    BY <1>15, <1>16, <2>1, <2>3 DEF Patched
<1>19. AbsAt' = AbsAt
  BY <1>12 DEF AbsAt
<1>20. AbsPos' = [AbsPos EXCEPT ![f] = AbsPos[f] + tot]
  <2>1. ASSUME NEW g \in Files PROVE AbsPos'[g] = IF g = f THEN off + tot ELSE AbsPos[g]
    BY <1>12 DEF AbsPos
  <2> QED
    BY <1>16, <2>1 DEF AbsPos
<1>21. tot \in 0..filewrite_max /\ AbsPos[f] <= Len(AbsStore[x]) /\ AbsPos[f] + tot <= MAXFILE * BSIZE
  BY <1>3, <1>5, <1>16, <1>17, MaxChunkNat
<1>22. Store!Next
  BY <1>0, <1>16, <1>18, <1>19, <1>20, <1>21, AbsWrite
<1> QED
  BY <1>14, <1>22 DEF StoreStep

\* The user's buffer is bad: what was copied before counts, and up to a block
\* of what follows may be spoilt.
LEMMA Abs_write_fault ==
  ASSUME FilesInv, Contents, NEW p \in Procs, write_fault(p)
  PROVE  Contents' /\ StoreStep
<1>0. TypeOK /\ CallsOK /\ BlocksOwned
  BY Parts
<1>1. Writing(p) /\ BlockOf(call[p].ip, WriteOff(p)) # 0
  BY DEF write_fault
<1>2. call[p].pc = "map" /\ call[p].pc \in {"map", "zero"}
  BY <1>1 DEF Writing, Busy
<1>3. PICK x \in Inodes : x = call[p].ip
  BY <1>0, <1>2, WriteAt, Zenon
<1>4. PICK w \in Nat : w = WriteOff(p) /\ w < MAXFILE * BSIZE
  BY <1>0, <1>1, Chunk
<1>5. PICK b \in Blocks : b = BlockOf(x, w)
  <2>1. PICK e \in Entries : e = EntryOf(w)
    BY <1>4, EntryIn
  <2>2. Ref(x, e) \in Blocks \cup {0}
    BY <1>0, RefType
  <2>3. BlockOf(x, w) = Ref(x, e)
    BY <2>1 DEF BlockOf
  <2> QED
    BY <1>1, <1>3, <1>4, <2>2, <2>3
<1>6. PICK m \in 0..(ChunkLen(p) - 1) : block' = Copied(p, b, m)
  BY <1>3, <1>4, <1>5 DEF write_fault
<1>7. m \in Nat /\ m <= ChunkLen(p) /\ m \in 0..(BSIZE - 1)
  <2>1. ChunkLen(p) \in Nat /\ ChunkLen(p) <= BSIZE - (w % BSIZE) /\ w % BSIZE \in 0..(BSIZE - 1)
    BY <1>0, <1>1, <1>4, Chunk
  <2>2. PICK k \in Nat, r \in Nat : k = ChunkLen(p) /\ r = w % BSIZE /\ k <= BSIZE - r
    BY <2>1
  <2> QED
    BY <1>6, <2>2, Sizes
<1>8. /\ writei_end(p, call[p].tot) /\ call' = [call EXCEPT ![p] = User]
  BY DEF write_fault, Goto
<1>9. \A ip \in Inodes : inode'[ip].addrs = inode[ip].addrs
  BY <1>0, <1>3, <1>8 DEF TypeOK, InodeType, writei_end
<1>10. Spills(p, x, w, m)
  BY <1>0, <1>1, <1>3, <1>4, <1>5, <1>6, <1>7, <1>9, CopiedCells
<1>11. User.pc \in {"user", "begin"}
  BY DEF User
<1> QED
  BY <1>2, <1>3, <1>4, <1>7, <1>8, <1>10, <1>11, AbsWriteEnd

\* A chunk that is complete shows as a whole.
LEMMA Abs_write_done ==
  ASSUME FilesInv, Contents, NEW p \in Procs, write_done(p)
  PROVE  Contents' /\ StoreStep
<1>0. TypeOK /\ CallsOK
  BY Parts
<1> DEFINE d == IF call[p].todo = call[p].n1 THEN User
                ELSE [pc |-> "begin", f |-> call[p].f, ip |-> call[p].ip, todo |-> call[p].todo - call[p].n1]
<1>1. /\ call[p].pc = "map" /\ writei_end(p, call[p].tot) /\ call' = [call EXCEPT ![p] = d]
      /\ UNCHANGED block
  BY DEF write_done, Goto, Busy
<1>2. d.pc \in {"user", "begin"}
  BY DEF User
<1> HIDE DEF d
<1>3. PICK x \in Inodes : x = call[p].ip
  BY <1>0, <1>1, WriteAt
<1>4. PICK w \in Nat : w = WriteOff(p)
  BY <1>0, <1>1, WriteAt
<1>5. \A ip \in Inodes, j \in Entries : Ref(ip, j)' = Ref(ip, j)
  <2>1. \A ip \in Inodes : inode'[ip].addrs = inode[ip].addrs
    BY <1>0, <1>1, <1>3 DEF TypeOK, InodeType, writei_end
  <2>2. \A b \in Blocks : block'[b].ptrs = block[b].ptrs
    BY <1>1
  <2> QED
    BY <1>0, <2>1, <2>2, RefFrame
<1>6. \A ip \in Inodes, j \in Entries : (ip # x /\ Ref(ip, j) # 0) =>
         block'[Ref(ip, j)].bytes = block[Ref(ip, j)].bytes
  BY <1>1
<1>7. ASSUME NEW o \in Nat, o < MAXFILE * BSIZE
      PROVE  Cell(x, o)' = IF w <= o /\ o < w + 0 THEN p ELSE Cell(x, o)
  <2>1. Cell(x, o)' = Cell(x, o)
    BY <1>1, <1>5, <1>7, CellFrame
  <2> QED
    BY <2>1
<1>8. 0 \in 0..(BSIZE - 1)
  BY Sizes
<1>9. Spills(p, x, w, 0)
  BY <1>5, <1>6, <1>7 DEF Spills
<1> QED
  BY <1>1, <1>2, <1>3, <1>4, <1>8, <1>9, AbsWriteEnd

\* itrunc() takes blocks from a file that is locked: nothing shows.
LEMMA Abs_itrunc_free ==
  ASSUME FilesInv, Contents, NEW p \in Procs, itrunc_free(p)
  PROVE  Contents' /\ StoreStep
<1>0. TypeOK /\ CallsOK /\ BlocksOwned /\ NoHoles /\ None \notin Procs
  BY Parts, SetsAssumption
<1>1. call[p].pc = "trunc" /\ Used(call[p].ip) # {} /\ UNCHANGED <<lock, file, call>>
  BY DEF itrunc_free, Busy, fdVars
<1>2. PICK x \in Inodes : x = call[p].ip /\ lock[x] = p
  <2>1. call[p].ip \in Inodes
    BY <1>0, <1>1 DEF CallsOK, CallOK
  <2> QED
    BY <1>0, <1>1, <2>1, HoldsLock
<1>3. PICK j \in Entries : j = TruncNext(x) /\ Ref(x, j) # 0
  BY <1>1, <1>2, TruncPick
<1>4. /\ \A ip \in Inodes : inode'[ip].size = inode[ip].size
      /\ \A ip \in Inodes, i \in Entries : Ref(ip, i)' = IF ip = x /\ i = j THEN 0 ELSE Ref(ip, i)
  BY <1>0, <1>2, <1>3, TruncRefs
<1>5. \A d \in Blocks : block'[d].bytes = block[d].bytes
  <2>1. CASE j <= NDIRECT
    BY <1>2, <1>3, <2>1 DEF itrunc_free
  <2>2. CASE ~(j <= NDIRECT)
    <3>1. PICK e : e = inode[x].addrs[NDIRECT]
      OBVIOUS
    <3>2. e \in Blocks
      <4>1. NDIRECT \in Entries /\ NDIRECT \in Nat
        BY PlaceKinds, Sizes
      <4>2. Ref(x, NDIRECT) = e
        BY <3>1, <4>1 DEF Ref
      <4>3. e # 0
        BY <1>3, <2>2, <3>1 DEF Ref
      <4> QED
        BY <1>0, <4>1, <4>2, <4>3, RefType
    <3>3. block' = SetPtr(block, e, j - NDIRECT - 1, 0)
      BY <1>2, <1>3, <2>2, <3>1 DEF itrunc_free, SetPtr
    <3>4. block \in [Blocks -> BlockType]
      BY <1>0 DEF TypeOK
    <3> QED
      BY <3>2, <3>3, <3>4, PtrsBytes
  <2> QED
    BY <2>1, <2>2
<1>6. /\ \A ip \in Inodes : ip # x => Shown(ip)' = Shown(ip)
      /\ \A q \in Procs : q # p => CopyOK(q)'
  <2>1. lock[x] \in {None, p}
    BY <1>2
  <2>2. \A ip \in Inodes : ip # x => lock[ip] # p
    BY <1>0, <1>2, OtherLocks
  <2>3. \A ip \in Inodes : ip # x => /\ lock[ip] # p /\ lock'[ip] = lock[ip]
                                     /\ inode'[ip].size = inode[ip].size
    BY <1>1, <1>4, <2>2
  <2>4. ASSUME NEW ip \in Inodes, NEW i \in Entries, ip # x
        PROVE  /\ Ref(ip, i)' = Ref(ip, i)
               /\ Ref(ip, i) # 0 => block'[Ref(ip, i)].bytes = block[Ref(ip, i)].bytes
    <3>1. Ref(ip, i) \in Blocks \cup {0}
      BY <1>0, RefType
    <3> QED
      BY <1>4, <1>5, <2>4, <3>1
  <2>5. \A q \in Procs : (call[q].pc \in {"map", "zero"} /\ call[q].ip # x)
                         => file'[call[q].f].off = file[call[q].f].off
    BY <1>1
  <2>6. \A q \in Procs : q # p => call'[q] = call[q]
    BY <1>1
  <2> QED
    BY <1>0, <2>1, <2>3, <2>4, <2>5, <2>6, ShownElsewhere
<1>7. Shown(x)' = Shown(x)
  BY <1>0, <1>1, <1>2 DEF Shown
<1>8. CopyOK(p)'
  BY <1>1 DEF CopyOK
<1>9. Contents' /\ AbsStore' = AbsStore
  BY <1>6, <1>7, <1>8, HiddenOn
<1> QED
  BY <1>1, <1>9, FileSame DEF StoreStep, Hidden

\* At the end of itrunc() the file is empty.
LEMMA Abs_itrunc_end ==
  ASSUME FilesInv, Contents, NEW p \in Procs, itrunc_end(p)
  PROVE  Contents' /\ StoreStep
<1>0. TypeOK /\ CallsOK /\ NoHoles /\ None \notin Procs /\ call = [q \in Procs |-> call[q]]
  BY Parts, SetsAssumption DEF TypeOK
<1>1. call[p].pc = "trunc" /\ UNCHANGED <<block, file>>
  BY DEF itrunc_end, Busy, fdVars
<1>2. PICK x \in Inodes : x = call[p].ip /\ lock[x] = p
  <2>1. call[p].ip \in Inodes
    BY <1>0, <1>1 DEF CallsOK, CallOK
  <2> QED
    BY <1>0, <1>1, <2>1, HoldsLock
<1>3. /\ inode' = [inode EXCEPT ![x].size = 0] /\ lock' = [lock EXCEPT ![x] = None]
      /\ call' = [call EXCEPT ![p] = User]
  BY <1>2 DEF itrunc_end, Goto
<1>4. call'[p].pc = "user" /\ \A q \in Procs : q # p => call'[q] = call[q]
  BY <1>0, <1>3 DEF User
<1>5. /\ inode'[x].size = 0 /\ \A ip \in Inodes : ip # x => inode'[ip].size = inode[ip].size
      /\ \A ip \in Inodes : inode'[ip].addrs = inode[ip].addrs
  BY <1>0, <1>3 DEF TypeOK, InodeType
<1>6. lock'[x] = None /\ \A ip \in Inodes : ip # x => lock'[ip] = lock[ip]
  BY <1>0, <1>3 DEF TypeOK
<1>7. \A ip \in Inodes, j \in Entries : Ref(ip, j)' = Ref(ip, j)
  <2>1. \A b \in Blocks : block'[b].ptrs = block[b].ptrs
    BY <1>1
  <2> QED
    BY <1>0, <1>5, <2>1, RefFrame
<1>8. /\ \A ip \in Inodes : ip # x => Shown(ip)' = Shown(ip)
      /\ \A q \in Procs : q # p => CopyOK(q)'
  <2>1. lock[x] \in {None, p}
    BY <1>2
  <2>2. \A ip \in Inodes : ip # x => lock[ip] # p
    BY <1>0, <1>2, OtherLocks
  <2>3. \A ip \in Inodes : ip # x => /\ lock[ip] # p /\ lock'[ip] = lock[ip]
                                     /\ inode'[ip].size = inode[ip].size
    BY <1>5, <1>6, <2>2
  <2>4. \A ip \in Inodes, i \in Entries : ip # x =>
            /\ Ref(ip, i)' = Ref(ip, i)
            /\ Ref(ip, i) # 0 => block'[Ref(ip, i)].bytes = block[Ref(ip, i)].bytes
    BY <1>1, <1>7
  <2>5. \A q \in Procs : (call[q].pc \in {"map", "zero"} /\ call[q].ip # x)
                         => file'[call[q].f].off = file[call[q].f].off
    BY <1>1
  <2> QED
    BY <1>0, <1>4, <2>1, <2>3, <2>4, <2>5, ShownElsewhere
<1>9. Contents'
  <2>1. CopyOK(p)'
    BY <1>4 DEF CopyOK
  <2> QED
    BY <1>8, <2>1 DEF Contents
<1>10. Shown(x)' = << >>
  <2>1. Shown(x)' = Bytes(x)'
    BY <1>6 DEF Shown
  <2>2. Bytes(x)' \in [1..0 -> Procs]
    BY <1>5, BytesNext
  <2>3. Bytes(x)' \in Seq(Procs) /\ Len(Bytes(x)') = 0
    BY <2>2, LenIs
  <2> QED
    BY <2>1, <2>3, EmptySeq
<1>11. AbsStore' = [AbsStore EXCEPT ![x] = << >>]
  <2>1. AbsStore' = [AbsStore EXCEPT ![x] = Shown(x)']
    BY <1>8, StoreSet
  <2> QED
    BY <1>10, <2>1
<1>12. Store!Next
  BY <1>1, <1>11, FileSame, AbsTruncate
<1> QED
  BY <1>9, <1>12 DEF StoreStep
-----------------------------------------------------------------------------
\* Every file is empty at first, and nobody writes.
LEMMA InitStore == Init => Contents /\ Store!Init
<1> SUFFICES ASSUME Init PROVE Contents /\ Store!Init
  OBVIOUS
<1>0. FilesInv /\ TypeOK
  BY InitInv, Parts
<1>1. \A p \in Procs : call[p].pc = "user"
  BY DEF Init, User
<1>2. Contents
  BY <1>1 DEF Contents, CopyOK
<1>3. ASSUME NEW ip \in Inodes PROVE Shown(ip) = << >>
  <2>1. lock[ip] = None /\ inode[ip].size = 0
    BY DEF Init
  <2>2. Bytes(ip) \in [1..0 -> Procs \cup {0}]
    BY <1>0, <2>1, BytesAre
  <2>3. Bytes(ip) \in Seq(Procs \cup {0}) /\ Len(Bytes(ip)) = 0
    BY <2>2, LenIs
  <2>4. Bytes(ip) = << >>
    BY <2>3, EmptySeq
  <2> QED
    BY <2>1, <2>4 DEF Shown
<1>4. AbsStore = [ip \in Inodes |-> << >>]
  BY <1>3 DEF AbsStore
<1>5. AbsAt \in [Files -> Inodes \cup {None}]
  <2>1. \A f \in Files : file[f].ip \in Inodes \cup {None}
    BY <1>0 DEF TypeOK, FileType
  <2> QED
    BY <2>1 DEF AbsAt
<1>6. AbsPos = [f \in Files |-> 0]
  <2>1. \A f \in Files : file[f].off = 0
    BY DEF Init, NoFile
  <2> QED
    BY <2>1 DEF AbsPos
<1>7. Store!Init
  BY <1>4, <1>5, <1>6 DEF Store!Init, AbsStore, AbsAt, AbsPos, Shown
<1> QED
  BY <1>2, <1>7

\* Every step keeps Contents, and is a step of FileStore or does not show.
LEMMA NextStore == FilesInv /\ Contents /\ [Next]_vars => Contents' /\ StoreStep
<1> SUFFICES ASSUME FilesInv, Contents, [Next]_vars PROVE Contents' /\ StoreStep
  OBVIOUS
<1>1. ASSUME NEW p \in Procs, NEW fd \in FDs, NEW n \in Lengths, sys_read(p, fd, n)
      PROVE  Contents' /\ StoreStep
  BY <1>1, Abs_sys_read
<1>2. ASSUME NEW p \in Procs, NEW fd \in FDs, NEW n \in Lengths, sys_write(p, fd, n)
      PROVE  Contents' /\ StoreStep
  BY <1>2, Abs_sys_write
<1>3. ASSUME NEW p \in Procs,
             \/ \E fd \in FDs : sys_dup(p, fd) \/ sys_close(p, fd)
             \/ sys_pipe(p) \/ \E q \in Procs : fork(p, q)
      PROVE  Contents' /\ StoreStep
  BY <1>3, Abs_calls
<1>4. ASSUME NEW p \in Procs, NEW ip \in Inodes, NEW trunc \in BOOLEAN, NEW omode \in Modes,
             sys_open(p, ip, trunc, omode)
      PROVE  Contents' /\ StoreStep
  BY <1>4, Abs_sys_open
<1>5. ASSUME NEW p \in Procs, write_begin(p) PROVE Contents' /\ StoreStep
  BY <1>5, Abs_write_begin
<1>6. ASSUME NEW p \in Procs, balloc(p) PROVE Contents' /\ StoreStep
  BY <1>6, Abs_balloc
<1>7. ASSUME NEW p \in Procs, bzero(p) PROVE Contents' /\ StoreStep
  BY <1>7, Abs_bzero
<1>8. ASSUME NEW p \in Procs, write_copy(p) PROVE Contents' /\ StoreStep
  BY <1>8, Abs_write_copy
<1>9. ASSUME NEW p \in Procs, write_fault(p) PROVE Contents' /\ StoreStep
  BY <1>9, Abs_write_fault
<1>10. ASSUME NEW p \in Procs, write_done(p) PROVE Contents' /\ StoreStep
  BY <1>10, Abs_write_done
<1>11. ASSUME NEW p \in Procs, itrunc_free(p) PROVE Contents' /\ StoreStep
  BY <1>11, Abs_itrunc_free
<1>12. ASSUME NEW p \in Procs, itrunc_end(p) PROVE Contents' /\ StoreStep
  BY <1>12, Abs_itrunc_end
<1>13. CASE UNCHANGED vars
  <2>1. OffsKept /\ OpenKept /\ UNCHANGED <<block, inode, lock, call>>
    BY <1>13 DEF vars, OffsKept, OpenKept
  <2> QED
    BY <2>1, AbsTableStep
<1>14. CASE Finished
  BY <1>13, <1>14 DEF Finished
<1> QED
  BY <1>1, <1>2, <1>3, <1>4, <1>5, <1>6, <1>7, <1>8, <1>9, <1>10, <1>11, <1>12, <1>13, <1>14, Zenon DEF Next

\* The same, in the form of FileStore's specification.
LEMMA StepStore ==
  FilesInv /\ Contents /\ [Next]_vars => Contents' /\ [Store!Next]_<<AbsStore, AbsAt, AbsPos>>
<1> SUFFICES ASSUME FilesInv, Contents, [Next]_vars
             PROVE  Contents' /\ [Store!Next]_<<AbsStore, AbsAt, AbsPos>>
  OBVIOUS
<1>1. Contents' /\ (Store!Next \/ Hidden)
  BY NextStore DEF StoreStep
<1> QED
  BY <1>1 DEF Hidden

\* Files behave like byte sequences with positions that descriptors share: a
\* chunk of a write() lands as a whole at the common position and in no other
\* file, whatever other calls do in between; a truncation empties a file at
\* once; and reads, opens, closes and forks change no bytes.
THEOREM FilesAreStore == Spec => IsFileStore
<1>1. Store!Spec <=> Store!Init /\ [][Store!Next]_<<AbsStore, AbsAt, AbsPos>>
  BY PTL DEF Store!Spec, AbsStore, AbsAt, AbsPos, Shown
<1> QED
  BY <1>1, InitStore, FilesInvariant, StepStore, PTL DEF Spec, IsFileStore
=============================================================================
