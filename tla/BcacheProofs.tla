---------------------------- MODULE BcacheProofs ----------------------------
(***************************************************************************)
(* Theorems about Bcache, for every number of users, buffers and blocks.   *)
(***************************************************************************)
EXTENDS Bcache, FiniteSetTheorems, TLAPS

-----------------------------------------------------------------------------
(***************************************************************************)
(* The list of buffers.                                                    *)
(***************************************************************************)

\* Moving a buffer to the front keeps the length and the members of the list,
\* each at one position.
LEMMA MoveToFrontListed ==
  ASSUME lru \in Seq(Buf), Listed, NEW b \in Buf
  PROVE  /\ MoveToFront(b) \in Seq(Buf)
         /\ Len(MoveToFront(b)) = Len(lru)
         /\ \A c \in Buf : \E i \in 1..Len(lru) : MoveToFront(b)[i] = c
         /\ \A i, j \in 1..Len(lru) : MoveToFront(b)[i] = MoveToFront(b)[j] => i = j
<1> DEFINE at == CHOOSE i \in 1..Len(lru) : lru[i] = b
           s  == MoveToFront(b)
<1>1. at \in 1..Len(lru) /\ lru[at] = b
  BY DEF Listed
<1>2. Len(lru) \in Nat /\ \A i \in 1..Len(lru) : lru[i] \in Buf
  OBVIOUS
<1> HIDE DEF at
<1>3. s = [i \in 1..Len(lru) |->
             IF i = 1 THEN b ELSE IF i <= at THEN lru[i - 1] ELSE lru[i]]
  BY DEF MoveToFront, at
<1> HIDE DEF s
<1>4. s \in Seq(Buf) /\ Len(s) = Len(lru)
  BY <1>1, <1>2, <1>3
<1>5. ASSUME NEW c \in Buf PROVE \E i \in 1..Len(lru) : s[i] = c
  <2>1. PICK j \in 1..Len(lru) : lru[j] = c
    BY DEF Listed
  <2>2. CASE j < at
    BY <1>1, <1>2, <1>3, <2>1, <2>2, j + 1 \in 1..Len(lru)
  <2>3. CASE j = at
    BY <1>1, <1>2, <1>3, <2>1, <2>3, 1 \in 1..Len(lru)
  <2>4. CASE j > at
    BY <1>1, <1>2, <1>3, <2>1, <2>4
  <2> QED
    BY <1>1, <1>2, <2>2, <2>3, <2>4
<1>6. ASSUME NEW i \in 1..Len(lru), NEW j \in 1..Len(lru), s[i] = s[j] PROVE i = j
  <2>1. ASSUME NEW k \in 1..Len(lru)
        PROVE  \E l \in 1..Len(lru) :
                 s[k] = lru[l] /\ l = IF k = 1 THEN at ELSE IF k <= at THEN k - 1 ELSE k
    BY <1>1, <1>2, <1>3
  <2>2. PICK k \in 1..Len(lru) :
          s[i] = lru[k] /\ k = IF i = 1 THEN at ELSE IF i <= at THEN i - 1 ELSE i
    BY <2>1
  <2>3. PICK l \in 1..Len(lru) :
          s[j] = lru[l] /\ l = IF j = 1 THEN at ELSE IF j <= at THEN j - 1 ELSE j
    BY <2>1
  <2>4. lru[k] = lru[l]
    BY <1>6, <2>2, <2>3
  <2>5. k = l
    BY <2>4, Zenon DEF Listed
  <2> QED
    BY <1>1, <1>2, <2>2, <2>3, <2>5
<1> QED
  BY <1>4, <1>5, <1>6 DEF s

-----------------------------------------------------------------------------
(***************************************************************************)
(* Type correctness.                                                       *)
(***************************************************************************)

\* The users of a buffer can be counted.
LEMMA RefsFinite ==
  ASSUME NEW b
  PROVE  /\ IsFiniteSet(Refs(b)) /\ Cardinality(Refs(b)) \in Nat
         /\ IsFiniteSet(Refs(b)') /\ Cardinality(Refs(b)') \in Nat
         /\ Cardinality(Refs(b)) = 0 <=> Refs(b) = {}
<1>1. Refs(b) \subseteq Users /\ Refs(b)' \subseteq Users
  BY DEF Refs
<1> QED
  BY <1>1, BufAssumption, FS_Subset, FS_CardinalityType, FS_EmptySet

\* A buffer in use has a reference, so brelse() never counts below zero.
LEMMA InUse ==
  ASSUME CacheInv, NEW u \in Users, pc[u] # "idle"
  PROVE  /\ cur[u] \in Buf /\ want[u] \in Blocks /\ blockno[cur[u]] = want[u]
         /\ refcnt[cur[u]] - 1 \in Nat
<1>1. cur[u] \in Buf /\ want[u] \in Blocks /\ blockno[cur[u]] = want[u]
  BY DEF CacheInv, Identity
<1>2. u \in Refs(cur[u])
  BY DEF Refs
<1>3. refcnt[cur[u]] = Cardinality(Refs(cur[u])) + pins[cur[u]]
  BY <1>1 DEF CacheInv, RefCount
<1> QED
  BY <1>1, <1>2, <1>3, RefsFinite DEF CacheInv, TypeOK

\* An unused buffer is neither pinned nor anybody's.
LEMMA NotInUse ==
  ASSUME CacheInv, NEW b \in Buf, refcnt[b] = 0
  PROVE  pins[b] = 0 /\ Refs(b) = {} /\ \A u \in Users : cur[u] # b
<1>1. refcnt[b] = Cardinality(Refs(b)) + pins[b] /\ pins[b] \in Nat
  BY DEF CacheInv, RefCount, TypeOK
<1>2. pins[b] = 0 /\ Refs(b) = {}
  BY <1>1, RefsFinite
<1> QED
  BY <1>2 DEF Refs

\* The flag stays Boolean.
LEMMA FlagStep == panicked \in BOOLEAN /\ [Next]_vars => panicked' \in BOOLEAN
  BY Zenon DEF Next, Step, Halted, bget_hit, bget_recycle, bget_panic, acquiresleep,
     disk_read, modify, bwrite, bpin, bunpin, releasesleep, brelse, vars

\* Every step preserves the types.
LEMMA TypeStep == CacheInv /\ [Next]_vars => TypeOK'
<1> SUFFICES ASSUME CacheInv, [Next]_vars PROVE TypeOK'
  OBVIOUS
<1>0. TypeOK /\ panicked' \in BOOLEAN
  BY FlagStep DEF CacheInv, TypeOK
<1> USE DEF Goto
<1>1. ASSUME NEW u \in Users, NEW k \in Blocks, bget_hit(u, k) PROVE TypeOK'
  <2>1. PICK i \in 1..Len(lru) : /\ refcnt' = [refcnt EXCEPT ![lru[i]] = @ + 1]
                                 /\ cur' = [cur EXCEPT ![u] = lru[i]]
    BY <1>1 DEF bget_hit
  <2>2. lru[i] \in Buf
    BY <1>0 DEF TypeOK
  <2> QED
    BY <1>0, <1>1, <2>1, <2>2 DEF TypeOK, bget_hit
<1>2. ASSUME NEW u \in Users, NEW k \in Blocks, bget_recycle(u, k) PROVE TypeOK'
  <2>1. PICK i \in 1..Len(lru) :
          /\ blockno' = [blockno EXCEPT ![lru[i]] = k]
          /\ valid' = [valid EXCEPT ![lru[i]] = FALSE]
          /\ refcnt' = [refcnt EXCEPT ![lru[i]] = 1]
          /\ cur' = [cur EXCEPT ![u] = lru[i]]
    BY <1>2 DEF bget_recycle
  <2>2. lru[i] \in Buf
    BY <1>0 DEF TypeOK
  <2>3. valid' \in [Buf -> BOOLEAN]
    BY <1>0, <2>1, <2>2 DEF TypeOK
  <2> QED
    BY <1>0, <1>2, <2>1, <2>2, <2>3 DEF TypeOK, bget_recycle
<1>3. ASSUME NEW u \in Users, NEW k \in Blocks, bget_panic(u, k) PROVE TypeOK'
  BY <1>0, <1>3 DEF TypeOK, bget_panic, bufVars
<1>4. ASSUME NEW u \in Users, acquiresleep(u) PROVE TypeOK'
  <2>1. cur[u] \in Buf
    BY <1>4, InUse DEF acquiresleep
  <2>2. holder' \in [Buf -> Users \cup {None}]
    BY ZenonT(60), <1>0, <1>4, <2>1 DEF TypeOK, acquiresleep
  <2>3. pc' = [pc EXCEPT ![u] = "asleep"] \/ pc' = [pc EXCEPT ![u] = "holding"]
          \/ pc' = [pc EXCEPT ![u] = "read"]
    BY <1>4 DEF acquiresleep
  <2> QED
    BY <1>0, <1>4, <2>2, <2>3 DEF TypeOK, acquiresleep, bufVars
<1>5. ASSUME NEW u \in Users, disk_read(u) PROVE TypeOK'
  <2>1. cur[u] \in Buf /\ blockno[cur[u]] \in Blocks
    BY <1>5, InUse DEF disk_read
  <2>2. valid' \in [Buf -> BOOLEAN]
    BY <1>0, <1>5, <2>1 DEF TypeOK, disk_read
  <2> QED
    BY <1>0, <1>5, <2>1, <2>2 DEF TypeOK, disk_read
<1>6. ASSUME NEW u \in Users, NEW v \in Vals, modify(u, v) PROVE TypeOK'
  BY <1>0, <1>6 DEF TypeOK, modify
<1>7. ASSUME NEW u \in Users, bwrite(u) PROVE TypeOK'
  <2>1. cur[u] \in Buf /\ blockno[cur[u]] \in Blocks
    BY <1>7, InUse DEF bwrite
  <2> QED
    BY <1>0, <1>7, <2>1 DEF TypeOK, bwrite, bufVars
<1>8. ASSUME NEW u \in Users, bpin(u) PROVE TypeOK'
  <2>1. cur[u] \in Buf
    BY <1>8, InUse DEF bpin
  <2>2. /\ refcnt' = [refcnt EXCEPT ![cur[u]] = @ + 1]
        /\ pins' = [pins EXCEPT ![cur[u]] = @ + 1]
        /\ UNCHANGED <<blockno, valid, data, lru, holder, disk, pc, cur, want, panicked>>
    BY <1>8 DEF bpin
  <2> QED
    BY <1>0, <2>1, <2>2 DEF TypeOK
<1>9. ASSUME NEW u \in Users, bunpin(u) PROVE TypeOK'
  <2>1. cur[u] \in Buf /\ refcnt[cur[u]] - 1 \in Nat
    BY <1>9, InUse DEF bunpin
  <2>2. pins[cur[u]] - 1 \in Nat
    BY <1>0, <1>9, <2>1 DEF TypeOK, bunpin
  <2> QED
    BY <1>0, <1>9, <2>1, <2>2 DEF TypeOK, bunpin
<1>10. ASSUME NEW u \in Users, releasesleep(u) PROVE TypeOK'
  BY <1>0, <1>10 DEF TypeOK, releasesleep, bufVars
<1>11. ASSUME NEW u \in Users, brelse(u) PROVE TypeOK'
  <2>1. cur[u] \in Buf /\ refcnt[cur[u]] - 1 \in Nat
    BY <1>11, InUse DEF brelse
  <2>2. lru' \in Seq(Buf)
    BY <1>0, <1>11, <2>1, MoveToFrontListed DEF TypeOK, brelse, CacheInv
  <2> QED
    BY <1>0, <1>11, <2>1, <2>2 DEF TypeOK, brelse
<1>12. CASE UNCHANGED vars
  BY <1>0, <1>12 DEF TypeOK, vars, bufVars
<1> QED
  BY <1>1, <1>2, <1>3, <1>4, <1>5, <1>6, <1>7, <1>8, <1>9, <1>10, <1>11, <1>12
  DEF Next, Step, Halted
-----------------------------------------------------------------------------
(***************************************************************************)
(* The parts of the invariant.                                             *)
(***************************************************************************)

\* A block is never cached twice: only bget() changes the block of a buffer,
\* and only to one that no buffer has.
LEMMA OneCopyStep == CacheInv /\ [Next]_vars => OneCopy'
<1> SUFFICES ASSUME CacheInv, [Next]_vars PROVE OneCopy'
  OBVIOUS
<1>1. ASSUME UNCHANGED blockno PROVE OneCopy'
  BY <1>1 DEF CacheInv, OneCopy
<1>2. ASSUME NEW u \in Users, NEW k \in Blocks, bget_recycle(u, k) PROVE OneCopy'
  <2>1. PICK i \in 1..Len(lru) : blockno' = [blockno EXCEPT ![lru[i]] = k]
    BY <1>2 DEF bget_recycle
  <2>2. \A b \in Buf : blockno[b] # k
    BY <1>2 DEF bget_recycle, CacheInv, Listed
  <2> QED
    BY <2>1, <2>2 DEF CacheInv, TypeOK, OneCopy
<1> QED
  BY <1>1, <1>2 DEF Next, Step, Halted, bget_hit, bget_panic, acquiresleep, disk_read,
     modify, bwrite, bpin, bunpin, releasesleep, brelse, vars, bufVars

\* Every buffer keeps one place on the list.
LEMMA ListedStep == CacheInv /\ [Next]_vars => Listed'
<1> SUFFICES ASSUME CacheInv, [Next]_vars PROVE Listed'
  OBVIOUS
<1>1. ASSUME UNCHANGED lru PROVE Listed'
  BY <1>1 DEF CacheInv, Listed
<1>2. ASSUME NEW u \in Users, brelse(u) PROVE Listed'
  <2>1. cur[u] \in Buf
    BY <1>2, InUse DEF brelse
  <2>2. CASE lru' = MoveToFront(cur[u])
    <3>1. lru \in Seq(Buf) /\ Listed
      BY DEF CacheInv, TypeOK
    <3>2. /\ Len(lru') = Len(lru)
          /\ \A c \in Buf : \E i \in 1..Len(lru) : lru'[i] = c
          /\ \A i, j \in 1..Len(lru) : lru'[i] = lru'[j] => i = j
      BY <2>1, <2>2, <3>1, MoveToFrontListed
    <3> QED
      BY <3>2 DEF Listed
  <2> QED
    BY <1>1, <1>2, <2>2 DEF brelse
<1> QED
  BY <1>1, <1>2 DEF Next, Step, Halted, bget_hit, bget_recycle, bget_panic,
     acquiresleep, disk_read, modify, bwrite, bpin, bunpin, releasesleep, vars, bufVars

\* refcnt counts users and pins.
LEMMA RefCountStep == CacheInv /\ [Next]_vars => RefCount'
<1> SUFFICES ASSUME CacheInv, [Next]_vars PROVE RefCount'
  OBVIOUS
<1>0. TypeOK /\ RefCount
  BY DEF CacheInv
<1>1. ASSUME UNCHANGED <<refcnt, pins, cur>> PROVE RefCount'
  BY <1>0, <1>1 DEF RefCount, Refs
<1>2. ASSUME NEW u \in Users, NEW k \in Blocks, bget_hit(u, k) PROVE RefCount'
  <2>1. PICK i \in 1..Len(lru) : /\ refcnt' = [refcnt EXCEPT ![lru[i]] = @ + 1]
                                 /\ cur' = [cur EXCEPT ![u] = lru[i]]
    BY <1>2 DEF bget_hit
  <2>2. lru[i] \in Buf /\ cur[u] = None /\ None \notin Buf /\ pins' = pins
    BY <1>0, <1>2, NoneAssumption DEF TypeOK, CacheInv, Identity, bget_hit
  <2> SUFFICES ASSUME NEW b \in Buf
               PROVE  refcnt'[b] = Cardinality(Refs(b)') + pins[b]
    BY <2>2 DEF RefCount
  <2>3. CASE b = lru[i]
    <3>1. Refs(b)' = Refs(b) \cup {u} /\ u \notin Refs(b)
      BY <1>0, <2>1, <2>2, <2>3 DEF Refs, TypeOK
    <3>2. Cardinality(Refs(b)') = Cardinality(Refs(b)) + 1
      BY <3>1, RefsFinite, FS_AddElement
    <3>3. refcnt'[b] = refcnt[b] + 1 /\ refcnt[b] = Cardinality(Refs(b)) + pins[b]
      BY <1>0, <2>1, <2>3 DEF TypeOK, RefCount
    <3> QED
      BY <1>0, <3>2, <3>3, RefsFinite DEF TypeOK
  <2>4. CASE b # lru[i]
    <3>1. Refs(b)' = Refs(b)
      BY <1>0, <2>1, <2>2, <2>4 DEF Refs, TypeOK
    <3> QED
      BY <1>0, <2>1, <2>4, <3>1 DEF TypeOK, RefCount
  <2> QED
    BY <2>3, <2>4
<1>3. ASSUME NEW u \in Users, NEW k \in Blocks, bget_recycle(u, k) PROVE RefCount'
  <2>1. PICK i \in 1..Len(lru) : /\ refcnt[lru[i]] = 0
                                 /\ refcnt' = [refcnt EXCEPT ![lru[i]] = 1]
                                 /\ cur' = [cur EXCEPT ![u] = lru[i]]
    BY <1>3 DEF bget_recycle, Last, Unused
  <2>2. lru[i] \in Buf /\ cur[u] = None /\ None \notin Buf /\ pins' = pins
    BY <1>0, <1>3, NoneAssumption DEF TypeOK, CacheInv, Identity, bget_recycle
  <2> SUFFICES ASSUME NEW b \in Buf
               PROVE  refcnt'[b] = Cardinality(Refs(b)') + pins[b]
    BY <2>2 DEF RefCount
  <2>3. CASE b = lru[i]
    <3>1. pins[b] = 0 /\ Refs(b) = {}
      BY <2>1, <2>3, NotInUse
    <3>2. Refs(b)' = {u}
      BY <1>0, <2>1, <2>2, <2>3, <3>1 DEF Refs, TypeOK
    <3>3. Cardinality(Refs(b)') = 1
      BY <3>2, FS_Singleton
    <3> QED
      BY <1>0, <2>1, <2>3, <3>1, <3>3 DEF TypeOK
  <2>4. CASE b # lru[i]
    <3>1. Refs(b)' = Refs(b)
      BY <1>0, <2>1, <2>2, <2>4 DEF Refs, TypeOK
    <3> QED
      BY <1>0, <2>1, <2>4, <3>1 DEF TypeOK, RefCount
  <2> QED
    BY <2>3, <2>4
<1>4. ASSUME NEW u \in Users, bpin(u) \/ bunpin(u) PROVE RefCount'
  <2>1. cur' = cur /\ cur[u] \in Buf
    BY <1>4, InUse DEF bpin, bunpin
  <2>2. \/ /\ refcnt' = [refcnt EXCEPT ![cur[u]] = @ + 1]
           /\ pins' = [pins EXCEPT ![cur[u]] = @ + 1]
        \/ /\ refcnt' = [refcnt EXCEPT ![cur[u]] = @ - 1]
           /\ pins' = [pins EXCEPT ![cur[u]] = @ - 1]
    BY <1>4 DEF bpin, bunpin
  <2> SUFFICES ASSUME NEW b \in Buf
               PROVE  refcnt'[b] = Cardinality(Refs(b)') + pins'[b]
    BY DEF RefCount
  <2>3. Refs(b)' = Refs(b) /\ refcnt[b] = Cardinality(Refs(b)) + pins[b]
    BY <1>0, <2>1 DEF Refs, RefCount
  <2>4. refcnt[b] \in Nat /\ pins[b] \in Nat
    BY <1>0 DEF TypeOK
  <2>5. refcnt'[b] - refcnt[b] = pins'[b] - pins[b] /\ refcnt'[b] \in Int /\ pins'[b] \in Int
    BY <1>0, <2>1, <2>2 DEF TypeOK
  <2> QED
    BY <2>3, <2>4, <2>5, RefsFinite
<1>5. ASSUME NEW u \in Users, brelse(u) PROVE RefCount'
  <2> DEFINE r == cur[u]
  <2>1. /\ r \in Buf /\ None \notin Buf /\ pins' = pins
        /\ refcnt' = [refcnt EXCEPT ![r] = @ - 1]
        /\ cur' = [cur EXCEPT ![u] = None]
    BY <1>5, InUse, NoneAssumption DEF brelse
  <2> SUFFICES ASSUME NEW b \in Buf
               PROVE  refcnt'[b] = Cardinality(Refs(b)') + pins[b]
    BY <2>1 DEF RefCount
  <2>3. CASE b = r
    <3>1. Refs(b)' = Refs(b) \ {u} /\ u \in Refs(b)
      BY <1>0, <2>1, <2>3 DEF Refs, TypeOK
    <3>2. Cardinality(Refs(b)') = Cardinality(Refs(b)) - 1
      BY <3>1, RefsFinite, FS_RemoveElement
    <3>3. refcnt'[b] = refcnt[b] - 1 /\ refcnt[b] = Cardinality(Refs(b)) + pins[b]
      BY <1>0, <2>1, <2>3 DEF TypeOK, RefCount
    <3> QED
      BY <1>0, <3>2, <3>3, RefsFinite DEF TypeOK
  <2>4. CASE b # r
    <3>1. Refs(b)' = Refs(b)
      BY <1>0, <2>1, <2>4 DEF Refs, TypeOK
    <3> QED
      BY <1>0, <2>1, <2>4, <3>1 DEF TypeOK, RefCount
  <2> QED
    BY <2>3, <2>4
<1> QED
  BY <1>1, <1>2, <1>3, <1>4, <1>5 DEF Next, Step, Halted, bget_panic, acquiresleep,
     disk_read, modify, bwrite, releasesleep, vars, bufVars

\* A user's buffer stays the one for its block, and stays locked by it.
LEMMA IdentityStep == CacheInv /\ [Next]_vars => Identity'
<1> SUFFICES ASSUME CacheInv, [Next]_vars PROVE Identity'
  OBVIOUS
<1>0. TypeOK /\ Identity
  BY DEF CacheInv
<1> USE DEF Goto
<1>1. ASSUME UNCHANGED <<pc, cur, want, blockno, holder, valid>> PROVE Identity'
  BY <1>0, <1>1 DEF Identity
<1>2. ASSUME NEW u \in Users, NEW k \in Blocks, bget_hit(u, k) PROVE Identity'
  <2>1. PICK i \in 1..Len(lru) : blockno[lru[i]] = k /\ cur' = [cur EXCEPT ![u] = lru[i]]
    BY <1>2 DEF bget_hit, First
  <2>2. lru[i] \in Buf
    BY <1>0 DEF TypeOK
  <2> QED
    BY <1>0, <1>2, <2>1, <2>2 DEF Identity, TypeOK, bget_hit
<1>3. ASSUME NEW u \in Users, NEW k \in Blocks, bget_recycle(u, k) PROVE Identity'
  <2>1. PICK i \in 1..Len(lru) : /\ refcnt[lru[i]] = 0
                                 /\ blockno' = [blockno EXCEPT ![lru[i]] = k]
                                 /\ valid' = [valid EXCEPT ![lru[i]] = FALSE]
                                 /\ cur' = [cur EXCEPT ![u] = lru[i]]
    BY <1>3 DEF bget_recycle, Last, Unused
  <2>2. lru[i] \in Buf /\ \A w \in Users : cur[w] # lru[i]
    BY <1>0, <2>1, NotInUse DEF TypeOK
  <2>3. /\ pc' = [pc EXCEPT ![u] = "acquire"] /\ want' = [want EXCEPT ![u] = k]
        /\ holder' = holder
    BY <1>3 DEF bget_recycle
  <2> QED
    BY <1>0, <2>1, <2>2, <2>3 DEF Identity, TypeOK
<1>4. ASSUME NEW u \in Users, acquiresleep(u) PROVE Identity'
  <2>1. cur[u] \in Buf /\ cur' = cur /\ want' = want /\ blockno' = blockno /\ valid' = valid
    BY <1>4, InUse DEF acquiresleep, bufVars
  <2>2. CASE holder[cur[u]] # None
    BY <1>0, <1>4, <2>1, <2>2 DEF Identity, TypeOK, acquiresleep
  <2>3. CASE holder[cur[u]] = None
    <3>1. /\ holder' = [holder EXCEPT ![cur[u]] = u]
          /\ pc' = [pc EXCEPT ![u] = IF valid[cur[u]] THEN "holding" ELSE "read"]
      BY <1>4, <2>3 DEF acquiresleep
    <3> QED
      BY <1>0, <2>1, <2>3, <3>1, NoneAssumption DEF Identity, TypeOK
  <2> QED
    BY <2>2, <2>3
<1>5. ASSUME NEW u \in Users, disk_read(u) PROVE Identity'
  <2>1. cur[u] \in Buf /\ pc[u] = "read"
    BY <1>5, InUse DEF disk_read
  <2>2. /\ valid' = [valid EXCEPT ![cur[u]] = TRUE] /\ pc' = [pc EXCEPT ![u] = "holding"]
        /\ UNCHANGED <<blockno, holder, cur, want>>
    BY <1>5 DEF disk_read
  <2> QED
    BY <1>0, <2>1, <2>2 DEF Identity, TypeOK
<1>6. ASSUME NEW u \in Users, releasesleep(u) PROVE Identity'
  <2>1. cur[u] \in Buf /\ pc[u] = "holding" /\ holder[cur[u]] = u
    BY <1>0, <1>6, InUse DEF releasesleep, Identity
  <2>2. /\ holder' = [holder EXCEPT ![cur[u]] = None]
        /\ pc' = [w \in Users |-> IF w = u THEN "released"
                                  ELSE IF pc[w] = "asleep" /\ cur[w] = cur[u]
                                       THEN "acquire" ELSE pc[w]]
        /\ UNCHANGED <<blockno, valid, cur, want>>
    BY <1>6 DEF releasesleep, bufVars
  <2> QED
    BY <1>0, <2>1, <2>2 DEF Identity, TypeOK
<1>7. ASSUME NEW u \in Users, brelse(u) PROVE Identity'
  BY <1>0, <1>7 DEF Identity, TypeOK, brelse
<1> QED
  BY <1>1, <1>2, <1>3, <1>4, <1>5, <1>6, <1>7 DEF Next, Step, Halted, bget_panic,
     modify, bwrite, bpin, bunpin, vars, bufVars

\* Nothing dirty is forgotten.
LEMMA CleanOrKeptStep == CacheInv /\ [Next]_vars => CleanOrKept'
<1> SUFFICES ASSUME CacheInv, [Next]_vars, NEW b \in Buf, valid'[b]
             PROVE  Kept(b)'
  BY DEF CleanOrKept
<1>0. TypeOK /\ Identity /\ CleanOrKept
  BY DEF CacheInv
<1> USE DEF Goto
<1>1. ASSUME UNCHANGED <<blockno, valid, data, pins, disk>>,
             \A u \in Users : pc[u] = "holding" => pc'[u] = "holding" /\ cur'[u] = cur[u]
      PROVE  Kept(b)'
  BY <1>0, <1>1 DEF CleanOrKept, Kept, Saved
<1>2. ASSUME NEW u \in Users, NEW k \in Blocks, bget_recycle(u, k) PROVE Kept(b)'
  <2>1. PICK i \in 1..Len(lru) : /\ blockno' = [blockno EXCEPT ![lru[i]] = k]
                                 /\ valid' = [valid EXCEPT ![lru[i]] = FALSE]
                                 /\ cur' = [cur EXCEPT ![u] = lru[i]]
    BY <1>2 DEF bget_recycle
  <2>2. lru[i] \in Buf /\ b # lru[i] /\ valid[b] /\ blockno'[b] = blockno[b]
    BY <1>0, <2>1 DEF TypeOK
  <2>3. /\ pc[u] = "idle" /\ pc' = [pc EXCEPT ![u] = "acquire"]
        /\ UNCHANGED <<data, pins, disk>>
    BY <1>2 DEF bget_recycle
  <2> QED
    BY <1>0, <2>1, <2>2, <2>3 DEF TypeOK, CleanOrKept, Kept, Saved
<1>3. ASSUME NEW u \in Users, pc[u] = "holding", cur[u] = b, pc' = pc, cur' = cur,
             blockno' = blockno, valid' = valid
      PROVE  Kept(b)'
  BY <1>0, <1>3 DEF CleanOrKept, Kept
<1>4. ASSUME NEW u \in Users, NEW v \in Vals, modify(u, v) PROVE Kept(b)'
  <2>1. CASE cur[u] = b
    BY <1>3, <1>4, <2>1 DEF modify
  <2>2. CASE cur[u] # b
    <3>1. data'[b] = data[b] /\ UNCHANGED <<blockno, valid, pins, disk, pc, cur>>
      BY <1>0, <1>4, <2>2 DEF modify, TypeOK
    <3> QED
      BY <1>0, <3>1 DEF CleanOrKept, Kept, Saved
  <2> QED
    BY <2>1, <2>2
<1>5. ASSUME NEW u \in Users, bwrite(u) PROVE Kept(b)'
  <2>1. /\ pc[u] = "holding" /\ UNCHANGED <<blockno, valid, data, pins, pc, cur>>
        /\ disk' = [disk EXCEPT ![blockno[cur[u]]] = data[cur[u]]]
    BY <1>5 DEF bwrite, bufVars
  <2>2. CASE cur[u] = b
    BY <1>3, <2>1, <2>2
  <2>3. CASE cur[u] # b
    <3>1. cur[u] \in Buf /\ blockno[cur[u]] \in Blocks
      BY <2>1, InUse
    <3>2. blockno[b] \in Blocks
      BY <1>0, <2>1 DEF CleanOrKept, Kept
    <3>3. blockno[b] # blockno[cur[u]]
      BY <2>3, <3>1, NoneAssumption DEF CacheInv, OneCopy
    <3>4. disk'[blockno[b]] = disk[blockno[b]]
      BY <1>0, <2>1, <3>2, <3>3 DEF TypeOK
    <3> QED
      BY <1>0, <2>1, <3>4 DEF CleanOrKept, Kept, Saved
  <2> QED
    BY <2>2, <2>3
<1>6. ASSUME NEW u \in Users, bpin(u) \/ bunpin(u) PROVE Kept(b)'
  <2>1. /\ pc[u] = "holding" /\ UNCHANGED <<blockno, valid, data, disk, pc, cur>>
        /\ pins' = [pins EXCEPT ![cur[u]] = @ + 1] \/ pins' = [pins EXCEPT ![cur[u]] = @ - 1]
    BY <1>6 DEF bpin, bunpin
  <2>2. CASE cur[u] = b
    BY <1>3, <2>1, <2>2
  <2>3. CASE cur[u] # b
    <3>1. pins'[b] = pins[b]
      BY <1>0, <2>1, <2>3 DEF TypeOK
    <3> QED
      BY <1>0, <2>1, <3>1 DEF CleanOrKept, Kept, Saved
  <2> QED
    BY <2>2, <2>3
<1>7. ASSUME NEW u \in Users, disk_read(u) PROVE Kept(b)'
  <2>1. /\ cur[u] \in Buf /\ pc[u] = "read" /\ blockno[cur[u]] \in Blocks
    BY <1>7, InUse DEF disk_read
  <2>2. /\ data' = [data EXCEPT ![cur[u]] = disk[blockno[cur[u]]]]
        /\ valid' = [valid EXCEPT ![cur[u]] = TRUE]
        /\ pc' = [pc EXCEPT ![u] = "holding"]
        /\ UNCHANGED <<blockno, pins, disk, cur>>
    BY <1>7 DEF disk_read
  <2> QED
    BY <1>0, <2>1, <2>2 DEF TypeOK, CleanOrKept, Kept, Saved
<1>8. ASSUME NEW u \in Users, releasesleep(u) PROVE Kept(b)'
  <2>1. /\ Saved(cur[u]) /\ UNCHANGED <<blockno, valid, data, pins, disk, cur>>
        /\ \A w \in Users : w # u /\ pc[w] = "holding" => pc'[w] = "holding"
    BY <1>8 DEF releasesleep, bufVars
  <2> QED
    BY <1>0, <2>1 DEF CleanOrKept, Kept, Saved
<1>9. ASSUME NEW u \in Users, acquiresleep(u) \/ brelse(u) PROVE Kept(b)'
  <2>1. pc[u] # "holding" /\ UNCHANGED <<blockno, valid, data, pins, disk>>
    BY <1>9 DEF acquiresleep, brelse, bufVars
  <2>2. \A w \in Users : w # u => cur'[w] = cur[w] /\ pc'[w] = pc[w]
    BY <1>0, <1>9 DEF acquiresleep, brelse, TypeOK
  <2> QED
    BY <1>1, <2>1, <2>2
<1>10. ASSUME NEW u \in Users, NEW k \in Blocks, bget_hit(u, k) \/ bget_panic(u, k) PROVE Kept(b)'
  <2>1. pc[u] = "idle" /\ UNCHANGED <<blockno, valid, data, pins, disk>>
    BY <1>10 DEF bget_hit, bget_panic, bufVars
  <2>2. \A w \in Users : w # u => cur'[w] = cur[w] /\ pc'[w] = pc[w]
    BY <1>0, <1>10 DEF bget_hit, bget_panic, TypeOK
  <2> QED
    BY <1>1, <2>1, <2>2
<1>11. CASE UNCHANGED vars
  BY <1>1, <1>11 DEF vars, bufVars
<1> QED
  BY <1>2, <1>4, <1>5, <1>6, <1>7, <1>8, <1>9, <1>10, <1>11 DEF Next, Step, Halted

\* The only panic is "bget: no buffers", of a full cache, and the machine
\* stops with it.
LEMMA PanicStep == CacheInv /\ [Next]_vars => PanicOnlyWhenFull'
<1> SUFFICES ASSUME CacheInv, [Next]_vars PROVE PanicOnlyWhenFull'
  OBVIOUS
<1>0. TypeOK /\ Identity /\ PanicOnlyWhenFull /\ RefCount /\ Listed
  BY DEF CacheInv
<1>1. CASE UNCHANGED vars
  BY <1>0, <1>1 DEF PanicOnlyWhenFull, Refs, vars
<1>2. ASSUME ~panicked' PROVE PanicOnlyWhenFull'
  BY <1>2 DEF PanicOnlyWhenFull
<1>3. ASSUME NEW u \in Users, NEW k \in Blocks, bget_panic(u, k) PROVE PanicOnlyWhenFull'
  <2>1. UNCHANGED <<pins, cur>> /\ \A b \in Buf : refcnt[b] # 0
    BY <1>0, <1>3 DEF bget_panic, Unused, Listed
  <2>2. ASSUME NEW b \in Buf PROVE pins[b] > 0 \/ Refs(b) # {}
    BY <1>0, <2>1, RefsFinite DEF TypeOK, RefCount
  <2> QED
    BY <2>1, <2>2 DEF PanicOnlyWhenFull, Refs
<1>4. ASSUME NEW u \in Users, bwrite(u) \/ releasesleep(u) PROVE panicked' = panicked
  <2>1. holder[cur[u]] = u /\ panicked \in BOOLEAN
    BY <1>0, <1>4 DEF Identity, bwrite, releasesleep, TypeOK
  <2> QED
    BY <1>4, <2>1 DEF bwrite, releasesleep
<1>5. ~panicked /\ panicked' = panicked => ~panicked'
  OBVIOUS
<1> QED
  BY <1>1, <1>2, <1>3, <1>4, <1>5 DEF Next, Step, Halted, bget_hit, bget_recycle,
     acquiresleep, disk_read, modify, bpin, bunpin, brelse

\* The initial states satisfy the invariant: binit() links every buffer into
\* the list, and a list as long as the cache has each buffer once.
LEMMA CacheInvInit == Init => CacheInv
<1> SUFFICES ASSUME Init PROVE CacheInv
  OBVIOUS
<1>1. PICK zero \in Vals : data = [b \in Buf |-> zero]
  BY DEF Init
<1> DEFINE n == Cardinality(Buf)
<1>2. n \in Nat /\ IsFiniteSet(1..n) /\ Cardinality(1..n) = n
  BY BufAssumption, FS_CardinalityType, FS_Interval
<1>3. lru \in [1..n -> Buf] /\ \A b \in Buf : \E i \in 1..n : lru[i] = b
  BY DEF Init
<1>4. lru \in Seq(Buf) /\ Len(lru) = n
  BY <1>2, <1>3
<1>5. TypeOK
  <2>1. panicked \in BOOLEAN /\ valid \in [Buf -> BOOLEAN]
    BY DEF Init
  <2> QED
    BY <1>1, <1>4, <2>1 DEF Init, TypeOK
<1>6. OneCopy /\ Identity /\ PanicOnlyWhenFull /\ CleanOrKept
  BY DEF Init, OneCopy, Identity, PanicOnlyWhenFull, CleanOrKept
<1>7. RefCount
  <2>1. ASSUME NEW b \in Buf PROVE Cardinality(Refs(b)) = 0
    <3>1. Refs(b) = {}
      BY NoneAssumption DEF Init, Refs
    <3> QED
      BY <3>1, FS_EmptySet
  <2> QED
    BY <2>1 DEF Init, RefCount
<1>8. Listed
  <2> HIDE DEF n
  <2>1. lru \in Surjection(1..n, Buf)
    BY <1>3 DEF Surjection
  <2>2. lru \in Injection(1..n, Buf)
    BY <1>2, <2>1, FS_SurjSameCardinalityImpliesInj DEF n
  <2>3. \A i, j \in 1..n : lru[i] = lru[j] => i = j
    BY <2>2, Zenon DEF Injection, IsInjective
  <2> QED
    BY <1>3, <1>4, <2>3 DEF Listed
<1> QED
  BY <1>5, <1>6, <1>7, <1>8 DEF CacheInv

\* The bookkeeping of the cache holds at all times, whatever users, bpin() and
\* bunpin() do in whatever order.
THEOREM CacheInvariant == Spec => []CacheInv
<1>1. CacheInv /\ [Next]_vars => CacheInv'
  BY TypeStep, OneCopyStep, RefCountStep, IdentityStep, ListedStep, CleanOrKeptStep,
     PanicStep DEF CacheInv
<1> QED
  BY CacheInvInit, <1>1, PTL DEF Spec
-----------------------------------------------------------------------------
(***************************************************************************)
(* The cache implements BlockStore.                                        *)
(***************************************************************************)

\* What a buffer's contents mean, in a state and after a step: a block has
\* the contents of its valid buffer, if there is one, and else those on disk;
\* its owner is the user that has its buffer locked and read.
ValidCopy(k, b) == blockno[b] = k /\ valid[b]
HoldsBlock(u, k) == pc[u] = "holding" /\ want[u] = k
StoreIs ==
    \A k \in Blocks :
        /\ \A b \in Buf : ValidCopy(k, b) => Current(k) = data[b]
        /\ (\A b \in Buf : ~ValidCopy(k, b)) => Current(k) = disk[k]
        /\ \A u \in Users : HoldsBlock(u, k) => Owner(k) = u
        /\ (\A u \in Users : ~HoldsBlock(u, k)) => Owner(k) = None

\* The CHOOSEs of the refinement mapping have one candidate each.
LEMMA StoreIsWhat == CacheInv => StoreIs
<1> SUFFICES ASSUME CacheInv, NEW k \in Blocks
             PROVE  /\ \A b \in Buf : ValidCopy(k, b) => Current(k) = data[b]
                    /\ (\A b \in Buf : ~ValidCopy(k, b)) => Current(k) = disk[k]
                    /\ \A u \in Users : HoldsBlock(u, k) => Owner(k) = u
                    /\ (\A u \in Users : ~HoldsBlock(u, k)) => Owner(k) = None
  BY DEF StoreIs
<1>1. ASSUME NEW b \in Buf, ValidCopy(k, b) PROVE Current(k) = data[b]
  <2>1. \A c \in Buf : blockno[c] = k /\ valid[c] <=> c = b
    BY <1>1, NoneAssumption DEF CacheInv, OneCopy, ValidCopy
  <2>2. (CHOOSE c \in Buf : blockno[c] = k /\ valid[c]) = b
    BY <2>1
  <2> QED
    BY <2>1, <2>2 DEF Current
<1>2. ASSUME NEW u \in Users, HoldsBlock(u, k) PROVE Owner(k) = u
  <2>1. ASSUME NEW w \in Users, pc[w] = "holding", want[w] = k PROVE w = u
    BY <1>2, <2>1, NoneAssumption DEF CacheInv, OneCopy, Identity, HoldsBlock
  <2>2. (CHOOSE w \in Users : pc[w] = "holding" /\ want[w] = k) = u
    BY <1>2, <2>1 DEF HoldsBlock
  <2> QED
    BY <1>2, <2>2 DEF Owner, HoldsBlock
<1> QED
  BY <1>1, <1>2 DEF Current, Owner, ValidCopy, HoldsBlock

\* Initially the store is the disk and nobody owns a block.
LEMMA RefineInit == Init => BS!Init
<1> SUFFICES ASSUME Init PROVE BS!Init
  OBVIOUS
<1>1. ASSUME NEW k \in Blocks PROVE Current(k) = disk[k] /\ Owner(k) = None
  BY DEF Init, Current, Owner
<1> QED
  BY <1>1 DEF BS!Init, Init

\* A step that leaves the buffers and the disk alone changes no contents.
LEMMA SameContents ==
  ASSUME UNCHANGED <<blockno, valid, data, disk>>, NEW k
  PROVE  Current(k)' = Current(k)
  BY DEF Current

\* A block whose holders are the same users has the same owner.
LEMMA SameOwner ==
  ASSUME StoreIs, StoreIs', NEW k \in Blocks,
         \A u \in Users : HoldsBlock(u, k)' <=> HoldsBlock(u, k)
  PROVE  Owner(k)' = Owner(k)
  BY DEF StoreIs

\* Every step of the cache is a step of the store or leaves it alone.
LEMMA RefineStep ==
  CacheInv /\ CacheInv' /\ [Next]_vars
    => [BS!Next]_<<[k \in Blocks |-> Current(k)], [k \in Blocks |-> Owner(k)]>>
<1> DEFINE store == [k \in Blocks |-> Current(k)]
           owner == [k \in Blocks |-> Owner(k)]
<1> SUFFICES ASSUME CacheInv, CacheInv', [Next]_vars
             PROVE  BS!Next \/ UNCHANGED <<store, owner>>
  OBVIOUS
<1>0. StoreIs /\ StoreIs'
  BY StoreIsWhat, PTL
<1>00. TypeOK /\ Identity /\ OneCopy
  BY DEF CacheInv
<1> USE DEF Goto
<1>1. ASSUME \A k \in Blocks : Current(k)' = Current(k) /\ Owner(k)' = Owner(k)
      PROVE  UNCHANGED <<store, owner>>
  BY <1>1
<1>2. ASSUME UNCHANGED <<blockno, valid, data, disk>>,
             \A u \in Users, k \in Blocks : HoldsBlock(u, k)' <=> HoldsBlock(u, k)
      PROVE  UNCHANGED <<store, owner>>
  BY <1>0, <1>1, <1>2, SameContents, SameOwner
<1>3. ASSUME NEW u \in Users, NEW k \in Blocks, bget_hit(u, k) \/ bget_panic(u, k)
      PROVE  UNCHANGED <<store, owner>>
  <2>1. UNCHANGED <<blockno, valid, data, disk>>
    BY <1>3 DEF bget_hit, bget_panic, bufVars
  <2>2. ASSUME NEW w \in Users, NEW j \in Blocks
        PROVE  HoldsBlock(w, j)' <=> HoldsBlock(w, j)
    BY <1>3, <1>00 DEF bget_hit, bget_panic, HoldsBlock, TypeOK
  <2> QED
    BY <1>2, <2>1, <2>2
<1>4. ASSUME NEW u \in Users, NEW k \in Blocks, bget_recycle(u, k)
      PROVE  UNCHANGED <<store, owner>>
  <2>1. PICK i \in 1..Len(lru) : /\ refcnt[lru[i]] = 0
                                 /\ blockno' = [blockno EXCEPT ![lru[i]] = k]
                                 /\ valid' = [valid EXCEPT ![lru[i]] = FALSE]
    BY <1>4 DEF bget_recycle, Last, Unused
  <2>r. PICK r : r = lru[i]
    OBVIOUS
  <2>a. \A b \in Buf : blockno[b] # k
    BY <1>4 DEF bget_recycle, CacheInv, Listed
  <2>b. r \in Buf
    BY <1>00, <2>r DEF TypeOK
  <2>2. /\ r \in Buf /\ pins[r] = 0 /\ \A w \in Users : cur[w] # r
        /\ \A b \in Buf : blockno[b] # k
    BY <2>a, <2>b, <2>r, <2>1, NotInUse
  <2>3. /\ UNCHANGED <<data, disk>>
        /\ \A w \in Users, j \in Blocks : HoldsBlock(w, j)' <=> HoldsBlock(w, j)
    BY <1>00, <1>4 DEF bget_recycle, HoldsBlock, TypeOK
  <2>4. ASSUME NEW j \in Blocks PROVE Current(j)' = Current(j)
    <3>1. ASSUME NEW c \in Buf PROVE ValidCopy(j, c)' <=> c # r /\ ValidCopy(j, c)
      BY <1>00, <2>r, <2>1, <2>2, <3>1 DEF ValidCopy, TypeOK
    <3>2. CASE ValidCopy(j, r)
      <4>1. data[r] = disk[j]
        BY <2>2, <3>2 DEF CacheInv, CleanOrKept, Kept, Saved, ValidCopy
      <4>2. \A c \in Buf : c # r => ~ValidCopy(j, c)
        BY <1>00, <2>2, <3>2, NoneAssumption DEF OneCopy, ValidCopy
      <4> QED
        BY <1>0, <2>2, <2>3, <3>1, <3>2, <4>1, <4>2 DEF StoreIs
    <3>3. CASE ~ValidCopy(j, r)
      <4>1. \A c \in Buf : ValidCopy(j, c)' <=> ValidCopy(j, c)
        BY <3>1, <3>3
      <4> QED
        BY <1>0, <2>3, <4>1 DEF StoreIs
    <3> QED
      BY <3>2, <3>3
  <2> QED
    BY <1>0, <1>1, <2>3, <2>4, SameOwner
<1>5. ASSUME NEW u \in Users, pc[u] # "holding",
             pc' = [pc EXCEPT ![u] = "holding"], want' = want, cur' = cur,
             pc[u] # "idle", \A w \in Users : pc[w] = "holding" => cur[w] # cur[u],
             \A k \in Blocks : Current(k)' = Current(k)
      PROVE  BS!Next
  <2>1. PICK k \in Blocks : k = want[u] /\ cur[u] \in Buf /\ blockno[cur[u]] = k
    BY <1>5, InUse
  <2>2. \A w \in Users : ~HoldsBlock(w, k)
    BY <1>00, <1>5, <2>1, NoneAssumption DEF HoldsBlock, Identity, OneCopy
  <2>3. Owner(k) = None
    BY <1>0, <2>1, <2>2 DEF StoreIs
  <2>4. HoldsBlock(u, k)'
    BY <1>00, <1>5, <2>1 DEF HoldsBlock, TypeOK
  <2>5. Owner(k)' = u
    BY <1>0, <2>1, <2>4 DEF StoreIs
  <2>6. ASSUME NEW j \in Blocks, j # k PROVE Owner(j)' = Owner(j)
    <3>1. \A w \in Users : HoldsBlock(w, j)' <=> HoldsBlock(w, j)
      BY <1>00, <1>5, <2>1, <2>6 DEF HoldsBlock, TypeOK
    <3> QED
      BY <1>0, <3>1, SameOwner
  <2>7. BS!Acquire(u, k)
    BY <1>5, <2>1, <2>3, <2>5, <2>6 DEF BS!Acquire
  <2> QED
    BY <2>1, <2>7 DEF BS!Next
<1>6. ASSUME NEW u \in Users, acquiresleep(u) PROVE BS!Next \/ UNCHANGED <<store, owner>>
  <2>1. UNCHANGED <<blockno, valid, data, disk, cur, want>> /\ pc[u] = "acquire"
    BY <1>6 DEF acquiresleep, bufVars
  <2>2. CASE pc' = [pc EXCEPT ![u] = "holding"] /\ holder[cur[u]] = None
    <3>1. \A w \in Users : pc[w] = "holding" => cur[w] # cur[u]
      BY <1>00, <2>2, NoneAssumption DEF Identity
    <3> QED
      BY <1>5, <2>1, <2>2, <3>1, SameContents
  <2>3. CASE pc' = [pc EXCEPT ![u] = "asleep"] \/ pc' = [pc EXCEPT ![u] = "read"]
    <3>1. \A w \in Users, k \in Blocks : HoldsBlock(w, k)' <=> HoldsBlock(w, k)
      BY <1>00, <2>1, <2>3 DEF HoldsBlock, TypeOK
    <3> QED
      BY <1>2, <2>1, <3>1
  <2> QED
    BY <1>6, <2>2, <2>3 DEF acquiresleep
<1>7. ASSUME NEW u \in Users, disk_read(u) PROVE BS!Next
  <2>r. PICK r : r = cur[u]
    OBVIOUS
  <2>1. /\ data' = [data EXCEPT ![r] = disk[blockno[r]]]
        /\ valid' = [valid EXCEPT ![r] = TRUE]
        /\ pc[u] = "read" /\ pc' = [pc EXCEPT ![u] = "holding"]
        /\ UNCHANGED <<blockno, disk, cur, want>>
    BY <1>7, <2>r DEF disk_read
  <2>2. r \in Buf /\ blockno[r] \in Blocks
    BY <2>r, <2>1, InUse
  <2>3. \A w \in Users : pc[w] = "holding" => cur[w] # cur[u]
    BY <1>00, <2>1 DEF Identity
  <2>4. ASSUME NEW j \in Blocks PROVE Current(j)' = Current(j)
    <3>1. CASE blockno[r] = j
      <4>1. ValidCopy(j, r)' /\ data'[r] = disk[j]
        BY <1>00, <2>1, <2>2, <3>1 DEF ValidCopy, TypeOK
      <4>2. Current(j)' = disk[j]
        BY <1>0, <2>2, <4>1 DEF StoreIs
      <4>3. \A c \in Buf : ~ValidCopy(j, c)
        BY <1>00, <2>1, <2>2, <3>1, <2>r, NoneAssumption DEF ValidCopy, OneCopy, Identity
      <4> QED
        BY <1>0, <4>2, <4>3 DEF StoreIs
    <3>2. CASE blockno[r] # j
      <4>1. \A c \in Buf : ValidCopy(j, c)' <=> ValidCopy(j, c)
        BY <1>00, <2>1, <2>2, <3>2 DEF ValidCopy, TypeOK
      <4>2. \A c \in Buf : ValidCopy(j, c) => data'[c] = data[c]
        BY <1>00, <2>1, <2>2, <3>2 DEF ValidCopy, TypeOK
      <4> QED
        BY <1>0, <2>1, <4>1, <4>2 DEF StoreIs
    <3> QED
      BY <3>1, <3>2
  <2> QED
    BY <1>5, <2>1, <2>3, <2>4
<1>8. ASSUME NEW u \in Users, NEW v \in Vals, modify(u, v) PROVE BS!Next
  <2>r. PICK r, k : r = cur[u] /\ k = want[u]
    OBVIOUS
  <2>1. /\ data' = [data EXCEPT ![r] = v] /\ pc[u] = "holding"
        /\ UNCHANGED <<blockno, valid, disk, pc, cur, want>>
    BY <1>8, <2>r DEF modify
  <2>2. r \in Buf /\ k \in Blocks /\ blockno[r] = k /\ valid[r]
    BY <1>00, <2>r, <2>1, InUse DEF Identity
  <2>3. Owner(k) = u
    BY <1>0, <2>r, <2>1, <2>2 DEF StoreIs, HoldsBlock
  <2>4. Current(k)' = v
    <3>1. ValidCopy(k, r)' /\ data'[r] = v
      BY <1>00, <2>1, <2>2 DEF ValidCopy, TypeOK
    <3> QED
      BY <1>0, <2>2, <3>1 DEF StoreIs
  <2>5. ASSUME NEW j \in Blocks, j # k PROVE Current(j)' = Current(j)
    <3>1. \A c \in Buf : ValidCopy(j, c)' <=> ValidCopy(j, c)
      BY <2>1 DEF ValidCopy
    <3>2. \A c \in Buf : ValidCopy(j, c) => data'[c] = data[c]
      BY <1>00, <2>1, <2>2, <2>5 DEF ValidCopy, TypeOK
    <3> QED
      BY <1>0, <2>1, <3>1, <3>2 DEF StoreIs
  <2>6. ASSUME NEW j \in Blocks PROVE Owner(j)' = Owner(j)
    BY <2>1 DEF Owner
  <2>7. BS!Write(u, k, v)
    BY <2>2, <2>3, <2>4, <2>5, <2>6 DEF BS!Write
  <2> QED
    BY <2>2, <2>7 DEF BS!Next
<1>9. ASSUME NEW u \in Users, bwrite(u) PROVE UNCHANGED <<store, owner>>
  <2>r. PICK r, k : r = cur[u] /\ k = want[u]
    OBVIOUS
  <2>1. /\ disk' = [disk EXCEPT ![blockno[r]] = data[r]] /\ pc[u] = "holding"
        /\ UNCHANGED <<blockno, valid, data, pc, cur, want>>
    BY <1>9, <2>r DEF bwrite, bufVars
  <2>2. r \in Buf /\ k \in Blocks /\ blockno[r] = k /\ valid[r]
    BY <1>00, <2>r, <2>1, InUse DEF Identity
  <2>3. ASSUME NEW j \in Blocks PROVE Owner(j)' = Owner(j)
    BY <2>1 DEF Owner
  <2>4. ASSUME NEW j \in Blocks PROVE Current(j)' = Current(j)
    <3>1. \A c \in Buf : ValidCopy(j, c)' <=> ValidCopy(j, c)
      BY <2>1 DEF ValidCopy
    <3>2. (\A c \in Buf : ~ValidCopy(j, c)) => disk'[j] = disk[j]
      BY <1>00, <2>1, <2>2 DEF ValidCopy, TypeOK
    <3> QED
      BY <1>0, <2>1, <3>1, <3>2 DEF StoreIs
  <2> QED
    BY <1>1, <2>3, <2>4
<1>10. ASSUME NEW u \in Users, bpin(u) \/ bunpin(u) PROVE UNCHANGED <<store, owner>>
  <2>1. UNCHANGED <<blockno, valid, data, disk, pc, want>>
    BY <1>10 DEF bpin, bunpin
  <2> QED
    BY <1>2, <2>1 DEF HoldsBlock
<1>11. ASSUME NEW u \in Users, releasesleep(u) PROVE BS!Next
  <2>r. PICK k : k = want[u]
    OBVIOUS
  <2>1. /\ UNCHANGED <<blockno, valid, data, disk, want>> /\ pc[u] = "holding"
        /\ pc' = [w \in Users |-> IF w = u THEN "released"
                                  ELSE IF pc[w] = "asleep" /\ cur[w] = cur[u]
                                       THEN "acquire" ELSE pc[w]]
    BY <1>11 DEF releasesleep, bufVars
  <2>2. k \in Blocks
    BY <2>r, <2>1, InUse
  <2>3. Owner(k) = u
    BY <1>0, <2>r, <2>1, <2>2 DEF StoreIs, HoldsBlock
  <2>4. ASSUME NEW w \in Users, NEW j \in Blocks
        PROVE  HoldsBlock(w, j)' <=> HoldsBlock(w, j) /\ w # u
    BY <2>1 DEF HoldsBlock
  <2>5. Owner(k)' = None
    <3>1. ASSUME NEW w \in Users, HoldsBlock(w, k)' PROVE FALSE
      BY <1>0, <2>2, <2>3, <2>4, <3>1 DEF StoreIs
    <3> QED
      BY <1>0, <2>2, <3>1 DEF StoreIs
  <2>6. ASSUME NEW j \in Blocks, j # k PROVE Owner(j)' = Owner(j)
    <3>1. \A w \in Users : HoldsBlock(w, j)' <=> HoldsBlock(w, j)
      BY <2>r, <2>4, <2>6 DEF HoldsBlock
    <3> QED
      BY <1>0, <3>1, SameOwner
  <2>7. BS!Release(u, k)
    BY <2>1, <2>2, <2>3, <2>5, <2>6, SameContents DEF BS!Release
  <2> QED
    BY <2>2, <2>7 DEF BS!Next
<1>12. ASSUME NEW u \in Users, brelse(u) PROVE UNCHANGED <<store, owner>>
  <2>1. UNCHANGED <<blockno, valid, data, disk>>
    BY <1>12 DEF brelse
  <2>2. ASSUME NEW w \in Users, NEW j \in Blocks
        PROVE  HoldsBlock(w, j)' <=> HoldsBlock(w, j)
    BY <1>00, <1>12 DEF brelse, HoldsBlock, TypeOK
  <2> QED
    BY <1>2, <2>1, <2>2
<1>13. CASE UNCHANGED vars
  BY <1>2, <1>13 DEF vars, bufVars, HoldsBlock
<1> HIDE DEF store, owner
<1> QED
  BY <1>3, <1>4, <1>6, <1>7, <1>8, <1>9, <1>10, <1>11, <1>12, <1>13
  DEF Next, Step, Halted

\* The cache behaves as one copy of each block with one holder at a time:
\* caching, recycling and pinning never lose or resurrect contents.
THEOREM CacheIsStore == Spec => OneCopyStore
<1> QED
  BY CacheInvariant, RefineInit, RefineStep, PTL DEF Spec, OneCopyStore, BS!Spec
=============================================================================
