---------------------------- MODULE VirtioProofs ----------------------------
(***************************************************************************)
(* Theorems about Virtio, for any number of processes and of descriptors   *)
(* and any sizes of the rings and their indices.                           *)
(***************************************************************************)
EXTENDS Virtio, TLAPS, FiniteSetTheorems, WellFoundedInduction

-----------------------------------------------------------------------------
(***************************************************************************)
(* Arithmetic of ring indices that wrap.                                   *)
(***************************************************************************)

\* The sizes are positive, and a ring has room for all requests.
LEMMA Sizes ==
  /\ NUM \in Nat \ {0} /\ RING \in Nat \ {0} /\ UMOD \in Nat \ {0}
  /\ UMOD > RING /\ UMOD % RING = 0
  /\ \A n \in Nat : 3 * n <= NUM => n <= RING
<1>1. NUM \in Nat /\ RING \in Nat /\ UMOD \in Nat /\ NUM \div 3 \in Int
  BY SizeAssumption
<1>2. NUM = 3 * (NUM \div 3) + (NUM % 3) /\ NUM % 3 \in 0..2
  BY <1>1
<1>3. \A n \in Nat : 3 * n <= NUM => n <= NUM \div 3
  BY <1>1, <1>2
<1> QED
  BY <1>1, <1>2, <1>3, SizeAssumption

\* A remainder is what is left when a multiple is taken off.
LEMMA ModIs ==
  ASSUME NEW m \in Nat \ {0}, NEW q \in Int, NEW r \in 0..(m - 1)
  PROVE  (q * m + r) % m = r
<1> DEFINE a == q * m + r
           d == a \div m
<1>1. a \in Int /\ d \in Int /\ a % m \in 0..(m - 1) /\ a = d * m + (a % m)
  OBVIOUS
<1>2. (d - q) * m = r - (a % m)
  BY <1>1
<1>3. d - q < 1
  <2>1. SUFFICES ASSUME d - q >= 1 PROVE FALSE
    BY <1>1
  <2>2. (d - q) * m >= m
    BY <1>1, <2>1
  <2> QED
    BY <1>1, <1>2, <2>2
<1>4. d - q > -1
  <2>1. SUFFICES ASSUME d - q <= -1 PROVE FALSE
    BY <1>1
  <2>2. (d - q) * m <= -m
    BY <1>1, <2>1
  <2> QED
    BY <1>1, <1>2, <2>2
<1> QED
  BY <1>1, <1>3, <1>4

\* Indices wrap at a multiple of the size of the ring.
LEMMA ModPeriod ==
  ASSUME NEW x \in Int
  PROVE  (x + UMOD) % RING = x % RING
<1>1. RING \in Nat \ {0} /\ UMOD \in Nat /\ UMOD % RING = 0
  BY Sizes
<1> DEFINE d == x \div RING
           r == x % RING
           m == UMOD \div RING
<1>2. d \in Int /\ m \in Int /\ r \in 0..(RING - 1) /\ x = d * RING + r /\ UMOD = m * RING
  BY <1>1
<1> HIDE DEF d, r, m
<1>3. x + UMOD = (d + m) * RING + r /\ d + m \in Int
  BY <1>1, <1>2
<1>4. ((d + m) * RING + r) % RING = r
  BY <1>1, <1>2, <1>3, ModIs
<1> QED
  BY <1>3, <1>4 DEF r

\* Entries less than RING apart are in different places of the ring.
LEMMA ModDistinct ==
  ASSUME NEW x \in Int, NEW e \in 1..(RING - 1)
  PROVE  (x + e) % RING # x % RING
<1>1. RING \in Nat \ {0}
  BY Sizes
<1> DEFINE d == x \div RING
           r == x % RING
<1>2. d \in Int /\ r \in 0..(RING - 1) /\ x = d * RING + r
  BY <1>1
<1> HIDE DEF d, r
<1>3. CASE r + e < RING
  <2>1. x + e = d * RING + (r + e) /\ r + e \in 0..(RING - 1)
    BY <1>1, <1>2, <1>3
  <2>2. (d * RING + (r + e)) % RING = r + e
    BY <1>1, <1>2, <2>1, ModIs
  <2>3. (x + e) % RING = r + e
    BY <2>1, <2>2
  <2> QED
    BY <1>1, <1>2, <2>3 DEF r
<1>4. CASE r + e >= RING
  <2>1. /\ x + e = (d + 1) * RING + (r + e - RING)
        /\ r + e - RING \in 0..(RING - 1) /\ d + 1 \in Int
    BY <1>1, <1>2, <1>4
  <2>2. ((d + 1) * RING + (r + e - RING)) % RING = r + e - RING
    BY <1>1, <2>1, ModIs
  <2>3. (x + e) % RING = r + e - RING
    BY <2>1, <2>2
  <2> QED
    BY <1>1, <1>2, <2>3 DEF r
<1> QED
  BY <1>1, <1>2, <1>3, <1>4

\* One more, with wrap-around.
LEMMA Increment ==
  ASSUME NEW x \in 0..(UMOD - 1)
  PROVE  /\ (x + 1) % UMOD = IF x = UMOD - 1 THEN 0 ELSE x + 1
         /\ (x + 1) % UMOD \in 0..(UMOD - 1)
BY Sizes

\* The distance between two indices, whether the second has wrapped or not.
LEMMA PendingIs ==
  ASSUME NEW r \in 0..(UMOD - 1), NEW w \in 0..(UMOD - 1)
  PROVE  /\ Pending(r, w) = IF w >= r THEN w - r ELSE w + UMOD - r
         /\ Pending(r, w) \in 0..(UMOD - 1)
         /\ Pending(r, w) = 0 <=> r = w
<1>1. UMOD \in Nat \ {0}
  BY Sizes
<1>2. Pending(r, w) = IF w >= r THEN w - r ELSE w + UMOD - r
  <2>1. CASE w >= r
    <3>1. w + UMOD - r \in UMOD..(2 * UMOD - 1)
      BY <1>1, <2>1
    <3> QED
      BY <1>1, <2>1, <3>1 DEF Pending
  <2>2. CASE w < r
    <3>1. w + UMOD - r \in 0..(UMOD - 1)
      BY <1>1, <2>2
    <3> QED
      BY <1>1, <2>2, <3>1 DEF Pending
  <2> QED
    BY <2>1, <2>2
<1> QED
  BY <1>1, <1>2

\* Adding an entry, if there is room, and taking one out.
LEMMA PendingStep ==
  ASSUME NEW r \in 0..(UMOD - 1), NEW w \in 0..(UMOD - 1)
  PROVE  /\ Pending(r, w) < UMOD - 1 => Pending(r, (w + 1) % UMOD) = Pending(r, w) + 1
         /\ r # w => Pending((r + 1) % UMOD, w) = Pending(r, w) - 1
<1>1. UMOD \in Nat \ {0}
  BY Sizes
<1>2. /\ (w + 1) % UMOD = IF w = UMOD - 1 THEN 0 ELSE w + 1
      /\ (r + 1) % UMOD = IF r = UMOD - 1 THEN 0 ELSE r + 1
      /\ (r + 1) % UMOD \in 0..(UMOD - 1) /\ (w + 1) % UMOD \in 0..(UMOD - 1)
  BY Increment
<1> DEFINE w1 == (w + 1) % UMOD
           r1 == (r + 1) % UMOD
<1>3. /\ Pending(r, w1) = IF w1 >= r THEN w1 - r ELSE w1 + UMOD - r
      /\ Pending(r1, w) = IF w >= r1 THEN w - r1 ELSE w + UMOD - r1
      /\ Pending(r, w) = IF w >= r THEN w - r ELSE w + UMOD - r
  BY <1>2, PendingIs
<1> QED
  BY <1>1, <1>2, <1>3

\* The entries after one is added, and after one is taken out.
LEMMA EntriesStep ==
  ASSUME NEW r \in 0..(UMOD - 1), NEW w \in 0..(UMOD - 1)
  PROVE  /\ Pending(r, w) < UMOD - 1 =>
              \A e \in Entries(r, (w + 1) % UMOD) : e \in Entries(r, w) \/ e = Pending(r, w)
         /\ r # w => /\ 0 \in Entries(r, w)
                     /\ \A e \in Entries((r + 1) % UMOD, w) : e \in Nat /\ e + 1 \in Entries(r, w)
<1>1. Pending(r, w) \in Nat /\ (Pending(r, w) = 0 <=> r = w)
  <2>1. Pending(r, w) \in 0..(UMOD - 1) /\ (Pending(r, w) = 0 <=> r = w)
    BY PendingIs
  <2> QED
    BY <2>1
<1>2. ASSUME Pending(r, w) < UMOD - 1, NEW e \in Entries(r, (w + 1) % UMOD)
      PROVE  e \in Entries(r, w) \/ e = Pending(r, w)
  <2>1. Pending(r, (w + 1) % UMOD) = Pending(r, w) + 1
    BY <1>2, PendingStep
  <2>2. e \in 0..(Pending(r, w) + 1 - 1)
    BY <1>1, <2>1 DEF Entries
  <2> QED
    BY <1>1, <2>2 DEF Entries
<1>3. ASSUME r # w, NEW e \in Entries((r + 1) % UMOD, w) PROVE e \in Nat /\ e + 1 \in Entries(r, w)
  <2>1. Pending((r + 1) % UMOD, w) = Pending(r, w) - 1
    BY <1>3, PendingStep
  <2>2. e \in 0..(Pending(r, w) - 1 - 1)
    BY <1>1, <2>1 DEF Entries
  <2> QED
    BY <1>1, <2>2 DEF Entries
<1>4. ASSUME r # w PROVE 0 \in Entries(r, w)
  BY <1>1, <1>4 DEF Entries
<1> QED
  BY <1>2, <1>3, <1>4

\* The next entry is put after the last one.
LEMMA PutPlace ==
  ASSUME NEW r \in 0..(UMOD - 1), NEW w \in 0..(UMOD - 1)
  PROVE  (r + Pending(r, w)) % RING = w % RING
<1>1. Pending(r, w) = IF w >= r THEN w - r ELSE w + UMOD - r
  BY PendingIs
<1>2. r \in Int /\ w \in Int /\ UMOD \in Int
  BY Sizes
<1>3. r + Pending(r, w) = w \/ r + Pending(r, w) = w + UMOD
  BY <1>1, <1>2
<1> QED
  BY <1>2, <1>3, ModPeriod

\* Taking an entry moves the others one place forward.
LEMMA GetPlace ==
  ASSUME NEW r \in 0..(UMOD - 1), NEW e \in Nat
  PROVE  (((r + 1) % UMOD) + e) % RING = (r + (e + 1)) % RING
<1>1. UMOD \in Nat \ {0}
  BY Sizes
<1>2. CASE (r + 1) % UMOD = r + 1
  BY <1>1, <1>2
<1>3. CASE (r + 1) % UMOD = 0 /\ r = UMOD - 1
  <2>1. r + (e + 1) = e + UMOD /\ ((r + 1) % UMOD) + e = e
    BY <1>1, <1>3
  <2> QED
    BY <2>1, ModPeriod
<1> QED
  BY <1>2, <1>3, Increment

\* Places of a ring are numbers below RING, and two entries less than RING
\* apart have different ones.
LEMMA Places ==
  ASSUME NEW r \in 0..(UMOD - 1), NEW e \in Nat
  PROVE  /\ (r + e) % RING \in 0..(RING - 1)
         /\ \A f \in Nat : f < e /\ e - f < RING => (r + e) % RING # (r + f) % RING
<1>1. RING \in Nat \ {0} /\ UMOD \in Nat
  BY Sizes
<1>2. (r + e) % RING \in 0..(RING - 1)
  BY <1>1
<1>3. ASSUME NEW f \in Nat, f < e, e - f < RING PROVE (r + e) % RING # (r + f) % RING
  <2>1. r + f \in Int /\ e - f \in 1..(RING - 1) /\ r + e = (r + f) + (e - f)
    BY <1>1, <1>3
  <2> QED
    BY <2>1, ModDistinct
<1> QED
  BY <1>2, <1>3
-----------------------------------------------------------------------------
(***************************************************************************)
(* Counting.                                                               *)
(***************************************************************************)

\* Distinct values that fit into a finite set are not more than its elements.
LEMMA Pigeons ==
  ASSUME NEW n \in Nat, NEW S, IsFiniteSet(S), NEW f \in [0..(n - 1) -> S],
         \A x, y \in 0..(n - 1) : f[x] = f[y] => x = y
  PROVE  n <= Cardinality(S)
<1>1. f \in Injection(0..(n - 1), S)
  BY DEF Injection, IsInjective
<1>2. Cardinality(0..(n - 1)) <= Cardinality(S)
  BY <1>1, FS_Injection
<1>3. Cardinality(0..(n - 1)) = n
  BY FS_Interval
<1> QED
  BY <1>2, <1>3

\* Three different elements make a set of three.
LEMMA Three ==
  ASSUME NEW i, NEW j, NEW k, i # j, i # k, j # k
  PROVE  IsFiniteSet({i, j, k}) /\ Cardinality({i, j, k}) = 3
<1>1. IsFiniteSet({i}) /\ Cardinality({i}) = 1
  BY FS_Singleton
<1>2. IsFiniteSet({i} \cup {j}) /\ Cardinality({i} \cup {j}) = 2
  BY <1>1, FS_AddElement
<1>3. IsFiniteSet(({i} \cup {j}) \cup {k}) /\ Cardinality(({i} \cup {j}) \cup {k}) = 3
  BY <1>2, FS_AddElement
<1>4. ({i} \cup {j}) \cup {k} = {i, j, k}
  OBVIOUS
<1> QED
  BY <1>3, <1>4

\* A set of descriptors that is not empty has a lowest one.
LEMMA LowestIn ==
  ASSUME NEW S \in SUBSET Nat, S # {}
  PROVE  Lowest(S) \in S
<1> DEFINE R == OpToRel(<, Nat)
<1>1. IsWellFoundedOn(R, Nat)
  BY NatLessThanWellFounded
<1>2. \A x, y \in Nat : x < y => <<x, y>> \in R
  BY Zenon DEF OpToRel
<1> HIDE DEF R
<1>3. PICK x \in S : \A y \in S : ~(<<y, x>> \in R)
  BY <1>1, WFMin
<1>4. ASSUME NEW y \in S PROVE x <= y
  <2>1. x \in Nat /\ y \in Nat
    OBVIOUS
  <2>2. ~(y < x)
    BY <1>2, <1>3, <2>1
  <2> QED
    BY <2>1, <2>2
<1> QED
  BY <1>4 DEF Lowest
-----------------------------------------------------------------------------
(***************************************************************************)
(* What the invariant says of the rings.                                   *)
(***************************************************************************)

\* The parts of the table that are free or in use are finite, and there are
\* never more requests than entries in a ring.
LEMMA ActiveCount ==
  ASSUME TypeOK, Descriptors
  PROVE  /\ IsFiniteSet(free) /\ Cardinality(free) \in Nat
         /\ IsFiniteSet(Active) /\ Cardinality(Active) \in Nat
         /\ 3 * Cardinality(Active) <= NUM /\ Cardinality(Active) <= RING
<1>1. IsFiniteSet(Desc)
  BY Sizes, FS_Interval DEF Desc
<1>2. IsFiniteSet(free)
  BY <1>1, FS_Subset DEF TypeOK
<1>3. Cardinality(free) \in Nat /\ Cardinality(Active) \in Nat
  BY <1>2, FS_CardinalityType DEF Descriptors
<1>4. 3 * Cardinality(Active) <= NUM
  BY <1>3, Sizes DEF Descriptors
<1> QED
  BY <1>2, <1>3, <1>4, Sizes DEF Descriptors

\* The indices and the entries are in range.
LEMMA RingTypes ==
  ASSUME TypeOK
  PROVE  /\ seen \in 0..(UMOD - 1) /\ availidx \in 0..(UMOD - 1)
         /\ used_idx \in 0..(UMOD - 1) /\ usedidx \in 0..(UMOD - 1)
         /\ Pending(seen, availidx) \in Nat /\ Pending(used_idx, usedidx) \in Nat
         /\ Entries(seen, availidx) \subseteq Nat /\ Entries(used_idx, usedidx) \subseteq Nat
         /\ \A e \in Nat : AvailAt(e) \in Desc /\ UsedAt(e) \in Desc
<1>1. /\ seen \in 0..(UMOD - 1) /\ availidx \in 0..(UMOD - 1)
      /\ used_idx \in 0..(UMOD - 1) /\ usedidx \in 0..(UMOD - 1)
  BY DEF TypeOK
<1>2. Pending(seen, availidx) \in Nat /\ Pending(used_idx, usedidx) \in Nat
  <2>1. /\ Pending(seen, availidx) \in 0..(UMOD - 1)
        /\ Pending(used_idx, usedidx) \in 0..(UMOD - 1)
    BY <1>1, PendingIs
  <2> QED
    BY <2>1
<1>3. ASSUME NEW e \in Nat PROVE AvailAt(e) \in Desc /\ UsedAt(e) \in Desc
  BY <1>1, Places DEF AvailAt, UsedAt, TypeOK
<1> QED
  BY <1>1, <1>2, <1>3 DEF Entries

\* What is in a ring, or with the device, is the head of a waiting process.
LEMMA InRings ==
  ASSUME DriverInv
  PROVE  /\ \A e \in Entries(seen, availidx) : Owned(AvailAt(e)) /\ AvailAt(e) \in Desc
         /\ \A e \in Entries(used_idx, usedidx) : Owned(UsedAt(e)) /\ UsedAt(e) \in Desc
         /\ \A i \in Desc : work[i] # "none" => Owned(i)
<1>1. TypeOK /\ DeviceOwns
  BY DEF DriverInv
<1> QED
  BY <1>1, RingTypes DEF DeviceOwns, WithDevice

\* The avail ring holds no more entries than processes they can be for.
LEMMA AvailRoom ==
  ASSUME DriverInv, NEW S \in SUBSET Active,
         \A e \in Entries(seen, availidx) : info[AvailAt(e)] \in S
  PROVE  Pending(seen, availidx) <= Cardinality(S)
<1>0. TypeOK /\ Descriptors /\ InOnePlace
  BY DEF DriverInv
<1> DEFINE n == Pending(seen, availidx)
           f == [e \in 0..(n - 1) |-> info[AvailAt(e)]]
<1>1. n \in Nat /\ Entries(seen, availidx) = 0..(n - 1)
  BY <1>0, RingTypes DEF Entries
<1>2. IsFiniteSet(S)
  BY <1>0, ActiveCount, FS_Subset
<1>3. f \in [0..(n - 1) -> S]
  BY <1>1
<1>4. ASSUME NEW x \in 0..(n - 1), NEW y \in 0..(n - 1), f[x] = f[y] PROVE x = y
  <2>1. info[AvailAt(x)] = info[AvailAt(y)]
    BY <1>4
  <2>2. AvailAt(x) = AvailAt(y)
    BY <1>1, <2>1, InRings DEF Owned
  <2> QED
    BY <1>0, <1>1, <2>2 DEF InOnePlace
<1> HIDE DEF f, n
<1>5. n <= Cardinality(S)
  BY <1>1, <1>2, <1>3, <1>4, Pigeons
<1> QED
  BY <1>5 DEF n

\* And so does the used ring.
LEMMA UsedRoom ==
  ASSUME DriverInv, NEW S \in SUBSET Active,
         \A e \in Entries(used_idx, usedidx) : info[UsedAt(e)] \in S
  PROVE  Pending(used_idx, usedidx) <= Cardinality(S)
<1>0. TypeOK /\ Descriptors /\ InOnePlace
  BY DEF DriverInv
<1> DEFINE n == Pending(used_idx, usedidx)
           f == [e \in 0..(n - 1) |-> info[UsedAt(e)]]
<1>1. n \in Nat /\ Entries(used_idx, usedidx) = 0..(n - 1)
  BY <1>0, RingTypes DEF Entries
<1>2. IsFiniteSet(S)
  BY <1>0, ActiveCount, FS_Subset
<1>3. f \in [0..(n - 1) -> S]
  BY <1>1
<1>4. ASSUME NEW x \in 0..(n - 1), NEW y \in 0..(n - 1), f[x] = f[y] PROVE x = y
  <2>1. info[UsedAt(x)] = info[UsedAt(y)]
    BY <1>4
  <2>2. UsedAt(x) = UsedAt(y)
    BY <1>1, <2>1, InRings DEF Owned
  <2> QED
    BY <1>0, <1>1, <2>2 DEF InOnePlace
<1> HIDE DEF f, n
<1>5. n <= Cardinality(S)
  BY <1>1, <1>2, <1>3, <1>4, Pigeons
<1> QED
  BY <1>5 DEF n

\* One process less leaves room for one more entry.
LEMMA OneLess ==
  ASSUME TypeOK, Descriptors, NEW p \in Active
  PROVE  Cardinality(Active \ {p}) < RING
<1>1. Cardinality(Active \ {p}) = Cardinality(Active) - 1
  BY ActiveCount, FS_RemoveElement
<1> QED
  BY <1>1, ActiveCount, Sizes

\* The chain of a request, as alloc3_desc() and the formatting left it.
LEMMA ChainIs ==
  ASSUME TypeOK, Descriptors, NEW p \in Active
  PROVE  \E i, j, k \in Desc :
           /\ i # j /\ i # k /\ j # k
           /\ i = head[p] /\ j = desc[i].next /\ k = desc[j].next
           /\ Chain(head[p]) = {i, j, k}
<1> DEFINE i == head[p]
           j == desc[i].next
           k == desc[j].next
<1>1. i \in Desc /\ j \in Desc /\ k \in Desc
  BY DEF TypeOK, Active
<1>2. i # j /\ i # k /\ j # k /\ desc[i].more /\ desc[j].more
  BY DEF Descriptors, Formatted
<1>3. Chain(head[p]) = {i, j, k}
  BY <1>2 DEF Chain
<1> QED
  BY <1>1, <1>2, <1>3

\* A head is in its chain: not free, and no other process's head.
LEMMA Heads ==
  ASSUME TypeOK, Descriptors, NEW p \in Active
  PROVE  /\ head[p] \in Desc /\ head[p] \notin free
         /\ \A q \in Active : head[q] = head[p] => q = p
<1>1. \A q \in Active : head[q] \in Chain(head[q])
  BY DEF Chain
<1> QED
  BY <1>1 DEF Descriptors, TypeOK, Active
-----------------------------------------------------------------------------
(***************************************************************************)
(* What the steps do.                                                      *)
(***************************************************************************)

\* alloc3_desc() returns three different free descriptors.
LEMMA Alloc ==
  ASSUME TypeOK, Cardinality(free) >= 3
  PROVE  \E i, j, k \in free : i # j /\ i # k /\ j # k /\ alloc3_desc = <<i, j, k>>
<1> DEFINE i == Lowest(free)
           j == Lowest(free \ {i})
           k == Lowest(free \ {i, j})
<1>1. free \in SUBSET Nat /\ IsFiniteSet(free)
  <2>1. IsFiniteSet(Desc) /\ Desc \subseteq Nat
    BY Sizes, FS_Interval DEF Desc
  <2> QED
    BY <2>1, FS_Subset DEF TypeOK
<1>2. Cardinality(free) \in Nat
  BY <1>1, FS_CardinalityType
<1>3. free # {}
  BY <1>2, FS_EmptySet
<1>4. i \in free
  BY <1>1, <1>3, LowestIn
<1>5. IsFiniteSet(free \ {i}) /\ Cardinality(free \ {i}) = Cardinality(free) - 1
  BY <1>1, <1>4, FS_RemoveElement
<1>6. free \ {i} # {}
  BY <1>2, <1>5, FS_EmptySet
<1>7. j \in free \ {i}
  BY <1>1, <1>6, LowestIn
<1> HIDE DEF i, j
<1>8. Cardinality((free \ {i}) \ {j}) = Cardinality(free) - 2
  <2>1. Cardinality((free \ {i}) \ {j}) = Cardinality(free \ {i}) - 1
    BY <1>5, <1>7, FS_RemoveElement
  <2> QED
    BY <1>2, <1>5, <2>1
<1>9. (free \ {i}) \ {j} # {}
  BY <1>2, <1>8, FS_EmptySet
<1>10. free \ {i, j} # {}
  BY <1>9
<1>11. k \in free \ {i, j}
  BY <1>1, <1>10, LowestIn
<1> QED
  BY <1>4, <1>7, <1>11 DEF alloc3_desc, i, j

\* rw_format: three free descriptors become the chain of p.
LEMMA FormatStep ==
  ASSUME DriverInv, NEW p \in Procs, rw_format(p)
  PROVE  \E i, j, k \in free :
           /\ i # j /\ i # k /\ j # k
           /\ free' = free \ {i, j, k}
           /\ desc' = [desc EXCEPT
                ![i] = [addr |-> <<"op", Op(write[p], p)>>, wr |-> FALSE, more |-> TRUE, next |-> j],
                ![j] = [addr |-> <<"data", p>>, wr |-> ~write[p], more |-> TRUE, next |-> k],
                ![k] = [addr |-> <<"status", i>>, wr |-> TRUE, more |-> FALSE, next |-> 0]]
           /\ status' = [status EXCEPT ![i] = FALSE]
           /\ info' = [info EXCEPT ![i] = p]
           /\ head' = [head EXCEPT ![p] = i]
           /\ avail' = [avail EXCEPT ![availidx % RING] = i]
<1>1. TypeOK /\ Cardinality(free) >= 3
  BY DEF DriverInv, rw_format
<1>2. PICK i, j, k \in free : i # j /\ i # k /\ j # k /\ alloc3_desc = <<i, j, k>>
  BY <1>1, Alloc
<1>3. alloc3_desc[1] = i /\ alloc3_desc[2] = j /\ alloc3_desc[3] = k
  BY <1>2
<1> QED
  BY <1>2, <1>3 DEF rw_format

\* rw_format(p) makes p a running request, and there was room in the ring.
LEMMA FormatRoom ==
  ASSUME DriverInv, NEW p \in Procs, rw_format(p)
  PROVE  /\ p \notin Active /\ Active' = Active \cup {p}
         /\ \A e \in Entries(seen, availidx) : AvailAt(e)' = AvailAt(e)
         /\ availidx % RING \in 0..(RING - 1)
<1>0. TypeOK /\ Descriptors
  BY DEF DriverInv
<1>1. pc[p] = "alloc" /\ pc' = [pc EXCEPT ![p] = "publish"] /\ Cardinality(free) >= 3
  BY DEF rw_format
<1>2. p \notin Active /\ Active' = Active \cup {p}
  BY <1>0, <1>1 DEF Active, TypeOK
<1>3. Cardinality(Active) < RING
  <2>0. /\ Cardinality(free) \in Nat /\ Cardinality(Active) \in Nat
        /\ Cardinality(free) + 3 * Cardinality(Active) = NUM
    BY <1>0, ActiveCount DEF Descriptors
  <2>1. Cardinality(Active) + 1 \in Nat /\ 3 * (Cardinality(Active) + 1) <= NUM
    BY <1>1, <2>0, Sizes
  <2>2. Cardinality(Active) + 1 <= RING
    BY <2>1, Sizes
  <2> QED
    BY <1>0, <2>2, ActiveCount, Sizes
<1>4. \A e \in Entries(seen, availidx) : info[AvailAt(e)] \in Active
  BY InRings DEF Owned
<1>5. Pending(seen, availidx) <= Cardinality(Active)
  BY <1>4, AvailRoom
<1>6. /\ seen \in 0..(UMOD - 1) /\ availidx \in 0..(UMOD - 1)
      /\ Pending(seen, availidx) \in Nat
  BY <1>0, RingTypes
<1>7. Pending(seen, availidx) < RING
  BY <1>0, <1>3, <1>5, <1>6, ActiveCount, Sizes
<1>8. availidx % RING = (seen + Pending(seen, availidx)) % RING
  BY <1>6, PutPlace
<1>9. availidx % RING \in 0..(RING - 1)
  BY <1>6, <1>8, Places
<1>10. ASSUME NEW e \in Entries(seen, availidx) PROVE AvailAt(e)' = AvailAt(e)
  <2>1. e \in Nat /\ e < Pending(seen, availidx) /\ Pending(seen, availidx) - e < RING
    BY <1>6, <1>7, Sizes DEF Entries
  <2>2. (seen + e) % RING # availidx % RING
    BY <1>6, <1>8, <2>1, Places
  <2>3. (seen + e) % RING \in 0..(RING - 1)
    BY <1>6, <2>1, Places
  <2>4. PICK i \in free : avail' = [avail EXCEPT ![availidx % RING] = i]
    BY FormatStep
  <2>5. seen' = seen
    BY DEF rw_format, device
  <2> QED
    BY <1>0, <2>2, <2>3, <2>4, <2>5 DEF AvailAt, TypeOK
<1> QED
  BY <1>2, <1>9, <1>10

\* rw_publish(p) adds the head of p to the avail ring.
LEMMA PublishStep ==
  ASSUME DriverInv, NEW p \in Procs, rw_publish(p)
  PROVE  /\ availidx' \in 0..(UMOD - 1)
         /\ \A e : AvailAt(e)' = AvailAt(e)
         /\ \A e \in Entries(seen, availidx)' :
              e \in Entries(seen, availidx) \/ (e = Pending(seen, availidx) /\ AvailAt(e) = head[p])
<1>0. TypeOK /\ Descriptors /\ LockHeld /\ Requests
  BY DEF DriverInv
<1>1. /\ pc[p] = "publish" /\ availidx' = (availidx + 1) % UMOD /\ p \in Active
      /\ avail' = avail /\ seen' = seen
  BY DEF rw_publish, device, Active
<1>2. \A e \in Entries(seen, availidx) : info[AvailAt(e)] \in Active \ {p}
  BY <1>1, InRings DEF Owned
<1>3. Pending(seen, availidx) <= Cardinality(Active \ {p})
  BY <1>2, AvailRoom
<1>4. /\ seen \in 0..(UMOD - 1) /\ availidx \in 0..(UMOD - 1)
      /\ Pending(seen, availidx) \in Nat
  BY <1>0, RingTypes
<1>5. Cardinality(Active \ {p}) < RING /\ Cardinality(Active \ {p}) \in Nat
  BY <1>0, <1>1, OneLess, ActiveCount, FS_RemoveElement, FS_CardinalityType
<1>6. Pending(seen, availidx) < UMOD - 1
  BY <1>3, <1>4, <1>5, Sizes
<1>8. AvailAt(Pending(seen, availidx)) = head[p]
  <2>1. (seen + Pending(seen, availidx)) % RING = availidx % RING
    BY <1>4, PutPlace
  <2> QED
    BY <1>0, <1>1, <2>1 DEF AvailAt, Requests
<1>9. \A e \in Entries(seen, availidx)' : e \in Entries(seen, availidx) \/ e = Pending(seen, availidx)
  <2>1. Entries(seen, availidx)' = Entries(seen, (availidx + 1) % UMOD)
    BY <1>1 DEF Entries, Pending
  <2> QED
    BY <1>4, <1>6, <2>1, EntriesStep
<1>10. availidx' \in 0..(UMOD - 1)
  BY <1>1, <1>4, Increment
<1> QED
  BY <1>1, <1>8, <1>9, <1>10 DEF AvailAt

\* dev_take takes the oldest entry out of the avail ring.
LEMMA TakeStep ==
  ASSUME TypeOK, dev_take
  PROVE  /\ seen' \in 0..(UMOD - 1)
         /\ 0 \in Entries(seen, availidx) /\ work' = [work EXCEPT ![AvailAt(0)] = "taken"]
         /\ \A e \in Entries(seen, availidx)' :
              e \in Nat /\ e + 1 \in Entries(seen, availidx) /\ AvailAt(e)' = AvailAt(e + 1)
<1>1. /\ seen # availidx /\ seen' = (seen + 1) % UMOD /\ avail' = avail /\ availidx' = availidx
      /\ work' = [work EXCEPT ![avail[seen % RING]] = "taken"]
  BY DEF dev_take, shared
<1>2. seen \in 0..(UMOD - 1) /\ availidx \in 0..(UMOD - 1)
  BY RingTypes
<1>3. Entries(seen, availidx)' = Entries((seen + 1) % UMOD, availidx)
  BY <1>1 DEF Entries, Pending
<1>4. /\ 0 \in Entries(seen, availidx)
      /\ \A e \in Entries(seen, availidx)' : e \in Nat /\ e + 1 \in Entries(seen, availidx)
  BY <1>1, <1>2, <1>3, EntriesStep
<1>5. ASSUME NEW e \in Nat PROVE AvailAt(e)' = AvailAt(e + 1)
  <2>1. (((seen + 1) % UMOD) + e) % RING = (seen + (e + 1)) % RING
    BY <1>2, GetPlace
  <2>2. AvailAt(e)' = avail[(((seen + 1) % UMOD) + e) % RING]
    BY <1>1 DEF AvailAt
  <2> QED
    BY <2>1, <2>2 DEF AvailAt
<1>6. avail[seen % RING] = AvailAt(0)
  <2>1. seen + 0 = seen
    BY <1>2, Sizes
  <2> QED
    BY <2>1 DEF AvailAt
<1>7. seen' \in 0..(UMOD - 1)
  BY <1>1, <1>2, Increment
<1> QED
  BY <1>1, <1>4, <1>5, <1>6, <1>7

\* dev_used(i) adds i to the used ring, where no entry is overwritten.
LEMMA UsedStep ==
  ASSUME DriverInv, NEW i \in Desc, dev_used(i)
  PROVE  /\ usedidx' \in 0..(UMOD - 1) /\ usedidx % RING \in 0..(RING - 1)
         /\ \A e \in Entries(used_idx, usedidx)' :
              \/ e \in Entries(used_idx, usedidx) /\ UsedAt(e)' = UsedAt(e)
              \/ e = Pending(used_idx, usedidx) /\ UsedAt(e)' = i
<1>0. TypeOK /\ Descriptors /\ InOnePlace
  BY DEF DriverInv
<1>1. /\ work[i] = "done" /\ used' = [used EXCEPT ![usedidx % RING] = i]
      /\ usedidx' = (usedidx + 1) % UMOD /\ used_idx' = used_idx
  BY DEF dev_used, driver
<1>2. Owned(i)
  BY <1>1, InRings
<1>3. \A e \in Entries(used_idx, usedidx) : info[UsedAt(e)] \in Active \ {info[i]}
  <2>1. \A e \in Entries(used_idx, usedidx) : UsedAt(e) # i
    BY <1>0, <1>1 DEF InOnePlace
  <2> QED
    BY <1>2, <2>1, InRings DEF Owned
<1>4. Pending(used_idx, usedidx) <= Cardinality(Active \ {info[i]})
  BY <1>3, UsedRoom
<1>5. /\ used_idx \in 0..(UMOD - 1) /\ usedidx \in 0..(UMOD - 1)
      /\ Pending(used_idx, usedidx) \in Nat
  BY <1>0, RingTypes
<1>6. /\ Cardinality(Active \ {info[i]}) < RING /\ Cardinality(Active \ {info[i]}) \in Nat
      /\ info[i] \in Active
  BY <1>0, <1>2, OneLess, ActiveCount, FS_RemoveElement, FS_CardinalityType DEF Owned
<1>7. Pending(used_idx, usedidx) < RING /\ Pending(used_idx, usedidx) < UMOD - 1
  BY <1>4, <1>5, <1>6, Sizes
<1>8. usedidx % RING = (used_idx + Pending(used_idx, usedidx)) % RING
  BY <1>5, PutPlace
<1>9. usedidx % RING \in 0..(RING - 1)
  BY <1>5, <1>8, Places
<1>10. ASSUME NEW e \in Entries(used_idx, usedidx) PROVE UsedAt(e)' = UsedAt(e)
  <2>1. /\ e \in Nat /\ e < Pending(used_idx, usedidx)
        /\ Pending(used_idx, usedidx) - e < RING
    BY <1>5, <1>7, Sizes DEF Entries
  <2>2. (used_idx + e) % RING # usedidx % RING
    BY <1>5, <1>8, <2>1, Places
  <2>3. (used_idx + e) % RING \in 0..(RING - 1)
    BY <1>5, <2>1, Places
  <2> QED
    BY <1>0, <1>1, <2>2, <2>3 DEF UsedAt, TypeOK
<1>11. ASSUME NEW e, e = Pending(used_idx, usedidx) PROVE UsedAt(e)' = i
  BY <1>0, <1>1, <1>8, <1>9, <1>11 DEF UsedAt, TypeOK
<1>12. \A e \in Entries(used_idx, usedidx)' :
         e \in Entries(used_idx, usedidx) \/ e = Pending(used_idx, usedidx)
  <2>1. Entries(used_idx, usedidx)' = Entries(used_idx, (usedidx + 1) % UMOD)
    BY <1>1 DEF Entries, Pending
  <2> QED
    BY <1>5, <1>7, <2>1, EntriesStep
<1>13. usedidx' \in 0..(UMOD - 1)
  BY <1>1, <1>5, Increment
<1> QED
  BY <1>9, <1>10, <1>11, <1>12, <1>13

\* intr_entry takes the oldest entry out of the used ring, and hands the
\* buffer of a waiting process back.
LEMMA EntryStep ==
  ASSUME DriverInv, intr_entry
  PROVE  \E id \in Desc :
           /\ id = UsedAt(0) /\ 0 \in Entries(used_idx, usedidx) /\ Owned(id)
           /\ bdisk' = [bdisk EXCEPT ![info[id]] = FALSE]
           /\ pc' = [pc EXCEPT ![info[id]] = IF @ = "wait" THEN "woken" ELSE @]
           /\ panicked' = panicked /\ used_idx' \in 0..(UMOD - 1)
           /\ \A e \in Entries(used_idx, usedidx)' :
                e \in Nat /\ e + 1 \in Entries(used_idx, usedidx) /\ UsedAt(e)' = UsedAt(e + 1)
<1>0. TypeOK /\ Served
  BY DEF DriverInv
<1>1. used_idx \in 0..(UMOD - 1) /\ usedidx \in 0..(UMOD - 1)
  BY <1>0, RingTypes
<1>2. used_idx # usedidx /\ UNCHANGED <<used, usedidx>>
  BY DEF intr_entry, shared
<1>3. used[used_idx % RING] = UsedAt(0)
  <2>1. used_idx + 0 = used_idx
    BY <1>1, Sizes
  <2> QED
    BY <2>1 DEF UsedAt
<1>4. 0 \in Entries(used_idx, usedidx)
  BY <1>1, <1>2, EntriesStep
<1>5. Owned(UsedAt(0)) /\ UsedAt(0) \in Desc /\ status[UsedAt(0)]
  BY <1>0, <1>4, InRings DEF Served
<1>6. info[UsedAt(0)] # None
  BY <1>5, NameAssumption DEF Owned, Active
<1>7. /\ bdisk' = [bdisk EXCEPT ![info[UsedAt(0)]] = FALSE]
      /\ pc' = [pc EXCEPT ![info[UsedAt(0)]] = IF @ = "wait" THEN "woken" ELSE @]
      /\ panicked' = panicked /\ used_idx' = (used_idx + 1) % UMOD
  BY <1>3, <1>5, <1>6 DEF intr_entry
<1>8. Entries(used_idx, usedidx)' = Entries((used_idx + 1) % UMOD, usedidx)
  BY <1>2, <1>7 DEF Entries, Pending
<1>9. \A e \in Entries(used_idx, usedidx)' : e \in Nat /\ e + 1 \in Entries(used_idx, usedidx)
  BY <1>1, <1>2, <1>8, EntriesStep
<1>10. ASSUME NEW e \in Nat PROVE UsedAt(e)' = UsedAt(e + 1)
  <2>1. (((used_idx + 1) % UMOD) + e) % RING = (used_idx + (e + 1)) % RING
    BY <1>1, GetPlace
  <2>2. UsedAt(e)' = used[(((used_idx + 1) % UMOD) + e) % RING]
    BY <1>2, <1>7 DEF UsedAt
  <2> QED
    BY <2>1, <2>2 DEF UsedAt
<1>11. used_idx' \in 0..(UMOD - 1)
  BY <1>1, <1>7, Increment
<1> QED
  BY <1>4, <1>5, <1>7, <1>9, <1>10, <1>11

\* dev_transfer(i) finds the chain as the driver made it, and does what the
\* process that owns it asked for.
LEMMA TransferStep ==
  ASSUME DriverInv, NEW i \in Desc, dev_transfer(i)
  PROVE  /\ Owned(i) /\ panicked' = panicked
         /\ moved' = [moved EXCEPT ![info[i]] = TRUE]
         /\ status' = [status EXCEPT ![i] = TRUE]
<1>0. TypeOK /\ Descriptors
  BY DEF DriverInv
<1>1. Owned(i)
  BY InRings DEF dev_transfer
<1> DEFINE p == info[i]
           j == desc[i].next
           k == desc[j].next
<1>2. p \in Active /\ head[p] = i
  BY <1>1 DEF Owned
<1>3. Formatted(p)
  BY <1>0, <1>2 DEF Descriptors
<1>4. /\ desc[i].addr = <<"op", Op(write[p], p)>>
      /\ desc[j].addr = <<"data", p>> /\ desc[j].wr # write[p]
      /\ desc[k].addr = <<"status", i>>
  BY <1>2, <1>3 DEF Formatted
<1>5. /\ desc[i].addr[1] = "op" /\ desc[j].addr[1] = "data" /\ desc[k].addr[1] = "status"
      /\ desc[i].addr[2] = Op(write[p], p) /\ desc[j].addr[2] = p /\ desc[k].addr[2] = i
  BY <1>4
<1>6. /\ moved' = [moved EXCEPT ![p] = TRUE] /\ status' = [status EXCEPT ![i] = TRUE]
      /\ panicked' = panicked
  <2>1. /\ moved' = [moved EXCEPT ![desc[j].addr[2]] =
                       desc[i].addr[2] = Op(write[desc[j].addr[2]], desc[j].addr[2])
                         /\ desc[j].wr # write[desc[j].addr[2]]]
        /\ status' = [status EXCEPT ![desc[k].addr[2]] = TRUE] /\ panicked' = panicked
    BY <1>5 DEF dev_transfer
  <2>2. (Op(write[p], p) = Op(write[p], p) /\ desc[j].wr # write[p]) = TRUE
    BY <1>4
  <2> QED
    BY <1>5, <2>1, <2>2
<1> QED
  BY <1>1, <1>6

\* rw_return(p) gives three descriptors back that are not free, and that the
\* device is finished with.
LEMMA ReturnStep ==
  ASSUME DriverInv, NEW p \in Procs, rw_return(p)
  PROVE  /\ p \in Active /\ Active' = Active \ {p} /\ panicked' = panicked
         /\ ~Owned(head[p]) /\ Chain(head[p]) \cap free = {} /\ Chain(head[p]) \subseteq Desc
         /\ free' = free \cup Chain(head[p])
         /\ desc' = [d \in Desc |-> IF d \in Chain(head[p]) THEN Zero ELSE desc[d]]
         /\ pc'[p] = "idle" /\ head[p] \in Chain(head[p])
         /\ \A q \in Procs : q # p => pc'[q] = IF pc[q] = "nodesc" THEN "alloc" ELSE pc[q]
<1>0. TypeOK /\ Descriptors /\ Requests /\ NoPanic
  BY DEF DriverInv
<1>1. /\ pc[p] = "woken" /\ ~bdisk[p] /\ pc' = WakeFree(p, "idle") /\ free_chain(head[p])
  BY DEF rw_return
<1>2. p \in Active
  BY <1>1 DEF Active
<1>3. /\ pc'[p] = "idle"
      /\ \A q \in Procs : q # p => pc'[q] = IF pc[q] = "nodesc" THEN "alloc" ELSE pc[q]
  BY <1>1 DEF WakeFree
<1>4. Active' = Active \ {p}
  BY <1>3 DEF Active
<1>5. ~Owned(head[p])
  BY <1>0, <1>1, <1>2 DEF Requests, Owned
<1>6. Chain(head[p]) \cap free = {} /\ Chain(head[p]) \subseteq Desc /\ head[p] \in Chain(head[p])
  BY SMTT(30), <1>0, <1>2, ChainIs DEF Descriptors
<1>7. /\ panicked' = (panicked \/ Chain(head[p]) \cap free # {})
      /\ free' = free \cup Chain(head[p])
      /\ desc' = [d \in Desc |-> IF d \in Chain(head[p]) THEN Zero ELSE desc[d]]
  BY <1>1 DEF free_chain
<1>8. panicked' = panicked
  <2>1. panicked \in BOOLEAN
    BY <1>0 DEF TypeOK
  <2> QED
    BY <1>6, <1>7, <2>1
<1> QED
  BY <1>2, <1>3, <1>4, <1>5, <1>6, <1>7, <1>8
-----------------------------------------------------------------------------
(***************************************************************************)
(* The invariant is kept.                                                  *)
(***************************************************************************)

\* Steps keep the types.
LEMMA TypeStep ==
  ASSUME DriverInv, Next
  PROVE  TypeOK'
<1>0. TypeOK
  BY DEF DriverInv
<1>1. ASSUME NEW p \in Procs, rw_sleep(p) PROVE TypeOK'
  BY <1>0, <1>1 DEF rw_sleep, TypeOK, shared, driver, calls, device, WakeFree
<1>2. ASSUME NEW p \in Procs, rw_format(p) PROVE TypeOK'
  <2>1. PICK i, j, k \in free :
           /\ i # j /\ i # k /\ j # k
           /\ free' = free \ {i, j, k}
           /\ desc' = [desc EXCEPT
                ![i] = [addr |-> <<"op", Op(write[p], p)>>, wr |-> FALSE, more |-> TRUE, next |-> j],
                ![j] = [addr |-> <<"data", p>>, wr |-> ~write[p], more |-> TRUE, next |-> k],
                ![k] = [addr |-> <<"status", i>>, wr |-> TRUE, more |-> FALSE, next |-> 0]]
           /\ status' = [status EXCEPT ![i] = FALSE]
           /\ info' = [info EXCEPT ![i] = p]
           /\ head' = [head EXCEPT ![p] = i]
           /\ avail' = [avail EXCEPT ![availidx % RING] = i]
    BY <1>2, FormatStep
  <2>2. i \in Desc /\ j \in Desc /\ k \in Desc /\ 0 \in Desc
    BY <1>0, Sizes DEF TypeOK, Desc
  <2>3. /\ <<"op", Op(write[p], p)>> \in Addr /\ <<"data", p>> \in Addr /\ <<"status", i>> \in Addr
    <3>1. write[p] \in BOOLEAN
      BY <1>0 DEF TypeOK
    <3> QED
      BY <2>2, <3>1 DEF Addr
  <2>4. desc' \in [Desc -> [addr : Addr, wr : BOOLEAN, more : BOOLEAN, next : Desc]]
    <3>1. (~write[p]) \in BOOLEAN
      OBVIOUS
    <3> QED
      BY <1>0, <2>1, <2>2, <2>3, <3>1 DEF TypeOK
  <2>5. avail' \in [0..(RING - 1) -> Desc] /\ free' \subseteq Desc
    BY <1>0, <2>1, <2>2 DEF TypeOK
  <2>6. /\ status' \in [Desc -> BOOLEAN] /\ info' \in [Desc -> Procs \cup {None}]
        /\ head' \in [Procs -> Desc]
    BY <1>0, <2>1, <2>2 DEF TypeOK
  <2>7. /\ pc' \in [Procs -> {"idle", "alloc", "nodesc", "publish", "wait", "woken"}]
        /\ bdisk' \in [Procs -> BOOLEAN] /\ lock' \in Procs \cup {Intr, None}
    BY <1>0, <1>2 DEF rw_format, TypeOK
  <2> QED
    BY <1>0, <1>2, <2>4, <2>5, <2>6, <2>7 DEF rw_format, TypeOK, device
<1>3. ASSUME NEW p \in Procs, rw_publish(p) PROVE TypeOK'
  <2>1. availidx' \in 0..(UMOD - 1)
    BY <1>3, PublishStep
  <2> QED
    BY <1>0, <1>3, <2>1 DEF rw_publish, TypeOK, driver, calls, device
<1>4. ASSUME NEW p \in Procs, rw_again(p) PROVE TypeOK'
  BY <1>0, <1>4 DEF rw_again, TypeOK, shared, driver, calls, device, WakeFree
<1>5. ASSUME NEW p \in Procs, rw_return(p) PROVE TypeOK'
  <2>1. /\ free' = free \cup Chain(head[p]) /\ Chain(head[p]) \subseteq Desc
        /\ desc' = [d \in Desc |-> IF d \in Chain(head[p]) THEN Zero ELSE desc[d]]
        /\ panicked' = panicked
    BY <1>5, ReturnStep
  <2>2. Zero \in [addr : Addr, wr : BOOLEAN, more : BOOLEAN, next : Desc] /\ 0 \in Desc
    BY Sizes DEF Zero, Addr, Desc
  <2>3. desc' \in [Desc -> [addr : Addr, wr : BOOLEAN, more : BOOLEAN, next : Desc]]
    BY <1>0, <2>1, <2>2 DEF TypeOK
  <2>4. pc' \in [Procs -> {"idle", "alloc", "nodesc", "publish", "wait", "woken"}]
    BY <1>0, <1>5 DEF rw_return, WakeFree, TypeOK
  <2>5. /\ info' \in [Desc -> Procs \cup {None}] /\ write' \in [Procs -> BOOLEAN]
        /\ head' \in [Procs -> Desc] /\ moved' \in [Procs -> BOOLEAN]
    BY <1>0, <1>5, <2>2 DEF rw_return, TypeOK
  <2> QED
    BY <1>0, <1>5, <2>1, <2>3, <2>4, <2>5 DEF rw_return, TypeOK
<1>6. ASSUME NEW p \in Procs, kill(p) PROVE TypeOK'
  BY <1>0, <1>6 DEF kill, TypeOK, shared, driver, calls, device, WakeFree
<1>7. ASSUME NEW p \in Procs, NEW w \in BOOLEAN, virtio_disk_rw(p, w) PROVE TypeOK'
  <2>1. write' \in [Procs -> BOOLEAN]
    BY <1>0, <1>7 DEF virtio_disk_rw, TypeOK
  <2>2. pc' \in [Procs -> {"idle", "alloc", "nodesc", "publish", "wait", "woken"}]
    BY <1>0, <1>7 DEF virtio_disk_rw, TypeOK
  <2> QED
    BY <1>0, <1>7, <2>1, <2>2 DEF virtio_disk_rw, TypeOK, shared, driver, device
<1>8. CASE intr_ack
  BY <1>0, <1>8 DEF intr_ack, TypeOK, shared, driver, calls, device, WakeFree
<1>9. CASE intr_entry
  <2>1. PICK id \in Desc :
          /\ bdisk' = [bdisk EXCEPT ![info[id]] = FALSE]
          /\ pc' = [pc EXCEPT ![info[id]] = IF @ = "wait" THEN "woken" ELSE @]
          /\ panicked' = panicked /\ used_idx' \in 0..(UMOD - 1)
    BY <1>9, EntryStep
  <2> QED
    BY <1>0, <1>9, <2>1 DEF intr_entry, TypeOK, shared, calls, device
<1>10. CASE intr_return
  BY <1>0, <1>10 DEF intr_return, TypeOK, shared, driver, calls, device, WakeFree
<1>11. CASE dev_take
  <2>1. seen' \in 0..(UMOD - 1) /\ work' = [work EXCEPT ![AvailAt(0)] = "taken"]
    BY <1>0, <1>11, TakeStep
  <2> QED
    BY <1>0, <1>11, <2>1 DEF dev_take, TypeOK, shared, driver, calls
<1>12. CASE dev_irq
  BY <1>0, <1>12 DEF dev_irq, TypeOK, shared, driver, calls, device, WakeFree
<1>13. ASSUME NEW i \in Desc, dev_transfer(i) PROVE TypeOK'
  <2>1. /\ panicked' = panicked /\ moved' = [moved EXCEPT ![info[i]] = TRUE]
        /\ status' = [status EXCEPT ![i] = TRUE]
    BY <1>13, TransferStep
  <2> QED
    BY <1>0, <1>13, <2>1 DEF dev_transfer, TypeOK, shared, calls
<1>14. ASSUME NEW i \in Desc, dev_used(i) PROVE TypeOK'
  <2>1. usedidx' \in 0..(UMOD - 1) /\ usedidx % RING \in 0..(RING - 1)
    BY <1>14, UsedStep
  <2> QED
    BY <1>0, <1>14, <2>1 DEF dev_used, TypeOK, driver, calls
<1> QED
  BY <1>1, <1>2, <1>3, <1>4, <1>5, <1>6, <1>7, <1>8, <1>9, <1>10, <1>11, <1>12, <1>13,
     <1>14 DEF Next, Rw_Step, Intr_Step, Dev_Step

\* Steps keep the lock with who holds it.
LEMMA LockStep ==
  ASSUME DriverInv, Next
  PROVE  LockHeld'
<1>0. TypeOK /\ LockHeld /\ Intr \notin Procs /\ None \notin Procs /\ Intr # None
  BY NameAssumption DEF DriverInv
<1>1. ASSUME NEW p \in Procs, rw_sleep(p) PROVE LockHeld'
  BY <1>0, <1>1 DEF rw_sleep, TypeOK, LockHeld, shared, driver, calls, device, WakeFree
<1>2. ASSUME NEW p \in Procs, rw_format(p) PROVE LockHeld'
  BY <1>0, <1>2 DEF rw_format, TypeOK, LockHeld, shared, driver, calls, device, WakeFree
<1>3. ASSUME NEW p \in Procs, rw_publish(p) PROVE LockHeld'
  BY <1>0, <1>3 DEF rw_publish, TypeOK, LockHeld, driver, calls, device
<1>4. ASSUME NEW p \in Procs, rw_again(p) PROVE LockHeld'
  BY <1>0, <1>4 DEF rw_again, TypeOK, LockHeld, shared, driver, calls, device, WakeFree
<1>5. ASSUME NEW p \in Procs, rw_return(p) PROVE LockHeld'
  <2>1. \A q \in Procs : pc'[q] = "publish" <=> pc[q] = "publish"
    <3>1. /\ pc'[p] = "idle" /\ pc[p] = "woken"
          /\ \A q \in Procs : q # p => pc'[q] = IF pc[q] = "nodesc" THEN "alloc" ELSE pc[q]
      BY <1>5, ReturnStep DEF rw_return
    <3> QED
      BY <3>1
  <2> QED
    BY <1>0, <1>5, <2>1 DEF rw_return, LockHeld
<1>6. ASSUME NEW p \in Procs, kill(p) PROVE LockHeld'
  BY <1>0, <1>6 DEF kill, TypeOK, LockHeld, shared, driver, calls, device, WakeFree
<1>7. ASSUME NEW p \in Procs, NEW w \in BOOLEAN, virtio_disk_rw(p, w) PROVE LockHeld'
  BY <1>0, <1>7 DEF virtio_disk_rw, TypeOK, LockHeld, shared, driver, device
<1>8. CASE intr_ack
  BY <1>0, <1>8 DEF intr_ack, TypeOK, LockHeld, shared, driver, calls, device, WakeFree
<1>9. CASE intr_entry
  <2>1. PICK id \in Desc :
          /\ Owned(id) /\ pc' = [pc EXCEPT ![info[id]] = IF @ = "wait" THEN "woken" ELSE @]
    BY <1>9, EntryStep
  <2>2. \A q \in Procs : pc'[q] = "publish" <=> pc[q] = "publish"
    BY <1>0, <2>1 DEF TypeOK, Owned
  <2> QED
    BY <1>0, <1>9, <2>2 DEF intr_entry, LockHeld
<1>10. CASE intr_return
  BY <1>0, <1>10 DEF intr_return, TypeOK, LockHeld, shared, driver, calls, device
<1>11. CASE dev_take
  BY <1>0, <1>11 DEF dev_take, TypeOK, LockHeld, shared, driver, calls, device, WakeFree
<1>12. CASE dev_irq
  BY <1>0, <1>12 DEF dev_irq, TypeOK, LockHeld, shared, driver, calls, device, WakeFree
<1>13. ASSUME NEW i \in Desc, dev_transfer(i) PROVE LockHeld'
  BY <1>0, <1>13 DEF dev_transfer, TypeOK, LockHeld, shared, calls
<1>14. ASSUME NEW i \in Desc, dev_used(i) PROVE LockHeld'
  BY <1>0, <1>14 DEF dev_used, TypeOK, LockHeld, shared, driver, calls, device, WakeFree
<1> QED
  BY <1>1, <1>2, <1>3, <1>4, <1>5, <1>6, <1>7, <1>8, <1>9, <1>10, <1>11, <1>12, <1>13,
     <1>14 DEF Next, Rw_Step, Intr_Step, Dev_Step

\* The chains stay when the table and the requests do.
LEMMA DescKept ==
  ASSUME Descriptors, Active' = Active, desc' = desc, free' = free, head' = head,
         \A p \in Active : write'[p] = write[p]
  PROVE  Descriptors'
<1>1. \A i : Chain(i)' = Chain(i)
  BY DEF Chain
<1>2. \A p \in Active : Chain(head[p])' = Chain(head[p])
  BY DEF Chain
<1>3. \A p \in Active : Formatted(p)'
  BY SMTT(30) DEF Descriptors, Formatted
<1> QED
  BY <1>2, <1>3 DEF Descriptors

\* Only rw_format and rw_return change who has a request under way.
LEMMA ActiveKept ==
  ASSUME TypeOK, \A q \in Procs : \/ pc'[q] = pc[q]
                          \/ {pc[q], pc'[q]} \subseteq {"publish", "wait", "woken"}
                          \/ {pc[q], pc'[q]} \subseteq {"idle", "alloc", "nodesc"}
  PROVE  Active' = Active
<1>1. ASSUME NEW q \in Procs PROVE q \in Active' <=> q \in Active
  BY DEF Active
<1> QED
  BY <1>1 DEF Active

\* Steps neither leak nor share a descriptor.
LEMMA DescriptorsStep ==
  ASSUME DriverInv, Next
  PROVE  Descriptors'
<1>0. TypeOK /\ Descriptors
  BY DEF DriverInv
<1>1. ASSUME NEW p \in Procs, rw_sleep(p) PROVE Descriptors'
  <2>1. Active' = Active
    BY <1>0, <1>1, ActiveKept DEF rw_sleep, TypeOK, WakeFree
  <2> QED
    BY <1>0, <1>1, <2>1, DescKept DEF rw_sleep, shared, driver, calls
<1>2. ASSUME NEW p \in Procs, rw_format(p) PROVE Descriptors'
  <2>1. PICK i, j, k \in free :
           /\ i # j /\ i # k /\ j # k
           /\ free' = free \ {i, j, k}
           /\ desc' = [desc EXCEPT
                ![i] = [addr |-> <<"op", Op(write[p], p)>>, wr |-> FALSE, more |-> TRUE, next |-> j],
                ![j] = [addr |-> <<"data", p>>, wr |-> ~write[p], more |-> TRUE, next |-> k],
                ![k] = [addr |-> <<"status", i>>, wr |-> TRUE, more |-> FALSE, next |-> 0]]
           /\ head' = [head EXCEPT ![p] = i]
    BY <1>2, FormatStep
  <2>2. i \in Desc /\ j \in Desc /\ k \in Desc
    BY <1>0 DEF TypeOK
  <2>3. p \notin Active /\ Active' = Active \cup {p} /\ write' = write
    BY <1>2, FormatRoom DEF rw_format
  <2>4. /\ desc'[i] = [addr |-> <<"op", Op(write[p], p)>>, wr |-> FALSE, more |-> TRUE, next |-> j]
        /\ desc'[j] = [addr |-> <<"data", p>>, wr |-> ~write[p], more |-> TRUE, next |-> k]
        /\ desc'[k] = [addr |-> <<"status", i>>, wr |-> TRUE, more |-> FALSE, next |-> 0]
        /\ \A d \in Desc : d \notin {i, j, k} => desc'[d] = desc[d]
    BY <1>0, <2>1, <2>2 DEF TypeOK
  <2>5. head'[p] = i /\ \A q \in Active : head'[q] = head[q]
    BY <1>0, <2>1, <2>3 DEF TypeOK, Active
  <2>6. Formatted(p)' /\ Chain(head[p])' = {i, j, k}
    <3>1. write[p] \in BOOLEAN
      BY <1>0 DEF TypeOK
    <3>2. Formatted(p)'
      <4>1. /\ head'[p] = i /\ desc'[i].next = j /\ desc'[j].next = k
            /\ desc'[i].addr = <<"op", Op(write[p], p)>> /\ desc'[i].more
            /\ desc'[j].addr = <<"data", p>> /\ desc'[j].wr = ~write[p] /\ desc'[j].more
            /\ desc'[k].addr = <<"status", i>> /\ ~desc'[k].more
        BY <2>4, <2>5
      <4>2. desc'[j].wr # write'[p] /\ write'[p] = write[p]
        BY <2>3, <3>1, <4>1
      <4> QED
        BY <2>1, <4>1, <4>2 DEF Formatted
    <3>3. Chain(head[p])' = {i, j, k}
      BY <2>4, <2>5 DEF Chain
    <3> QED
      BY <3>2, <3>3
  <2>7. ASSUME NEW q \in Active
        PROVE  Formatted(q)' /\ Chain(head[q])' = Chain(head[q])
    <3>1. PICK a, b, c \in Desc : /\ a = head[q] /\ b = desc[a].next /\ c = desc[b].next
                                  /\ Chain(head[q]) = {a, b, c}
      BY <1>0, ChainIs
    <3>2. {a, b, c} \cap {i, j, k} = {}
      BY <1>0, <3>1 DEF Descriptors
    <3>3. desc'[a] = desc[a] /\ desc'[b] = desc[b] /\ desc'[c] = desc[c] /\ head'[q] = a
      BY <2>4, <2>5, <3>1, <3>2
    <3>4. Formatted(q)
      BY <1>0 DEF Descriptors
    <3>5. Formatted(q)'
      <4>1. write'[q] = write[q]
        BY <2>3
      <4>2. /\ a # b /\ a # c /\ b # c
            /\ desc[a].addr = <<"op", Op(write[q], q)>> /\ desc[a].more
            /\ desc[b].addr = <<"data", q>> /\ desc[b].wr # write[q] /\ desc[b].more
            /\ desc[c].addr = <<"status", a>> /\ ~desc[c].more
        BY <3>1, <3>4 DEF Formatted
      <4>3. desc'[a].next = b /\ desc'[b].next = c
        BY <3>1, <3>3
      <4> QED
        BY <3>3, <4>1, <4>2, <4>3 DEF Formatted
    <3>6. Chain(head[q])' = Chain(head[q])
      BY SMTT(30), <3>1, <3>3 DEF Chain
    <3> QED
      BY <3>5, <3>6
  <2>8. ASSUME NEW q \in Active' PROVE Formatted(q)' /\ (Chain(head[q]) \cap free = {})'
    <3>1. CASE q = p
      BY <2>1, <2>6, <3>1
    <3>2. CASE q \in Active
      BY <1>0, <2>1, <2>7, <3>2 DEF Descriptors
    <3> QED
      BY <2>3, <3>1, <3>2
  <2>9. ASSUME NEW q \in Active', NEW r \in Active', q # r
        PROVE  (Chain(head[q]) \cap Chain(head[r]) = {})'
    <3>1. \A x \in Active : Chain(head[x]) \cap {i, j, k} = {}
      BY <1>0 DEF Descriptors
    <3>2. CASE q \in Active /\ r \in Active
      BY <1>0, <2>7, <2>9, <3>2 DEF Descriptors
    <3>3. CASE q = p /\ r \in Active
      BY <2>6, <2>7, <3>1, <3>3
    <3>4. CASE q \in Active /\ r = p
      BY <2>6, <2>7, <3>1, <3>4
    <3> QED
      BY <2>3, <2>9, <3>2, <3>3, <3>4
  <2>10. IsFiniteSet(Active') /\ Cardinality(Active') = Cardinality(Active) + 1
    BY <1>0, <2>3, ActiveCount, FS_AddElement
  <2>11. Cardinality(free') = Cardinality(free) - 3
    <3>1. free \cap {i, j, k} = {i, j, k}
      OBVIOUS
    <3>2. Cardinality({i, j, k}) = 3
      BY <2>1, Three
    <3>3. Cardinality(free \ {i, j, k}) = Cardinality(free) - Cardinality(free \cap {i, j, k})
      BY <1>0, ActiveCount, FS_Difference
    <3> QED
      BY <2>1, <3>1, <3>2, <3>3
  <2>12. Cardinality(free') + 3 * Cardinality(Active') = NUM
    <3>1. /\ Cardinality(free) \in Nat /\ Cardinality(Active) \in Nat
          /\ Cardinality(free) + 3 * Cardinality(Active) = NUM
      BY <1>0, ActiveCount DEF Descriptors
    <3> QED
      BY <2>10, <2>11, <3>1
  <2> QED
    BY <2>8, <2>9, <2>10, <2>12 DEF Descriptors
<1>3. ASSUME NEW p \in Procs, rw_publish(p) PROVE Descriptors'
  <2>1. Active' = Active
    BY <1>0, <1>3, ActiveKept DEF rw_publish, TypeOK
  <2> QED
    BY <1>0, <1>3, <2>1, DescKept DEF rw_publish, shared, driver, calls
<1>4. ASSUME NEW p \in Procs, rw_again(p) PROVE Descriptors'
  <2>1. Active' = Active
    BY <1>0, <1>4, ActiveKept DEF rw_again, TypeOK
  <2> QED
    BY <1>0, <1>4, <2>1, DescKept DEF rw_again, shared, driver, calls
<1>5. ASSUME NEW p \in Procs, rw_return(p) PROVE Descriptors'
  <2>1. /\ p \in Active /\ Active' = Active \ {p}
        /\ Chain(head[p]) \cap free = {} /\ Chain(head[p]) \subseteq Desc
        /\ free' = free \cup Chain(head[p])
        /\ desc' = [d \in Desc |-> IF d \in Chain(head[p]) THEN Zero ELSE desc[d]]
    BY <1>5, ReturnStep
  <2>2. \A q \in Active : q # p => head'[q] = head[q] /\ write'[q] = write[q]
    BY <1>0, <1>5 DEF rw_return, TypeOK, Active
  <2>3. ASSUME NEW q \in Active, q # p
        PROVE  /\ Formatted(q)' /\ Chain(head[q])' = Chain(head[q])
               /\ Chain(head[q]) \cap Chain(head[p]) = {}
    <3>1. PICK a, b, c \in Desc : /\ a = head[q] /\ b = desc[a].next /\ c = desc[b].next
                                  /\ Chain(head[q]) = {a, b, c}
      BY <1>0, ChainIs
    <3>2. {a, b, c} \cap Chain(head[p]) = {}
      BY <1>0, <2>1, <2>3, <3>1 DEF Descriptors
    <3>3. desc'[a] = desc[a] /\ desc'[b] = desc[b] /\ desc'[c] = desc[c] /\ head'[q] = a
      BY <2>1, <2>2, <2>3, <3>1, <3>2
    <3>4. Formatted(q)
      BY <1>0 DEF Descriptors
    <3>5. Formatted(q)'
      <4>1. write'[q] = write[q]
        BY <2>2, <2>3
      <4>2. /\ a # b /\ a # c /\ b # c
            /\ desc[a].addr = <<"op", Op(write[q], q)>> /\ desc[a].more
            /\ desc[b].addr = <<"data", q>> /\ desc[b].wr # write[q] /\ desc[b].more
            /\ desc[c].addr = <<"status", a>> /\ ~desc[c].more
        BY <3>1, <3>4 DEF Formatted
      <4>3. desc'[a].next = b /\ desc'[b].next = c
        BY <3>1, <3>3
      <4> QED
        BY <3>3, <4>1, <4>2, <4>3 DEF Formatted
    <3>6. Chain(head[q])' = Chain(head[q])
      BY SMTT(30), <3>1, <3>3 DEF Chain
    <3> QED
      BY <3>1, <3>2, <3>5, <3>6
  <2>4. ASSUME NEW q \in Active' PROVE Formatted(q)' /\ (Chain(head[q]) \cap free = {})'
    <3>1. q \in Active /\ q # p
      BY <2>1
    <3> QED
      BY <1>0, <2>1, <2>3, <3>1 DEF Descriptors
  <2>5. ASSUME NEW q \in Active', NEW r \in Active', q # r
        PROVE  (Chain(head[q]) \cap Chain(head[r]) = {})'
    <3>1. q \in Active /\ q # p /\ r \in Active /\ r # p
      BY <2>1
    <3> QED
      BY <1>0, <2>3, <2>5, <3>1 DEF Descriptors
  <2>6. IsFiniteSet(Active') /\ Cardinality(Active') = Cardinality(Active) - 1
    BY <1>0, <2>1, ActiveCount, FS_RemoveElement
  <2>7. Cardinality(free') = Cardinality(free) + 3
    <3>1. IsFiniteSet(Chain(head[p])) /\ Cardinality(Chain(head[p])) = 3
      <4>1. p \in Active
        BY <2>1
      <4>2. PICK a, b, c \in Desc : /\ a # b /\ a # c /\ b # c
                                    /\ a = head[p] /\ b = desc[a].next /\ c = desc[b].next
                                    /\ Chain(head[p]) = {a, b, c}
        BY <1>0, <4>1, ChainIs
      <4>3. a # b /\ a # c /\ b # c
        BY <4>2
      <4>4. IsFiniteSet({a, b, c}) /\ Cardinality({a, b, c}) = 3
        BY <4>3, Three
      <4> QED
        BY <4>2, <4>4, Zenon
    <3>2. Cardinality(free') = Cardinality(free) + Cardinality(Chain(head[p])) - Cardinality(free \cap Chain(head[p]))
      BY <1>0, <2>1, <3>1, ActiveCount, FS_Union
    <3>3. free \cap Chain(head[p]) = {}
      BY <2>1
    <3>4. Cardinality(free \cap Chain(head[p])) = 0 /\ Cardinality(free) \in Nat
      BY <1>0, <3>3, ActiveCount, FS_EmptySet
    <3> QED
      BY <3>1, <3>2, <3>4
  <2>8. Cardinality(free') + 3 * Cardinality(Active') = NUM
    <3>1. /\ Cardinality(free) \in Nat /\ Cardinality(Active) \in Nat
          /\ Cardinality(free) + 3 * Cardinality(Active) = NUM
      BY <1>0, ActiveCount DEF Descriptors
    <3> QED
      BY <2>6, <2>7, <3>1
  <2> QED
    BY <2>4, <2>5, <2>6, <2>8 DEF Descriptors
<1>6. ASSUME NEW p \in Procs, kill(p) PROVE Descriptors'
  <2>1. Active' = Active
    BY <1>0, <1>6, ActiveKept DEF kill, TypeOK
  <2> QED
    BY <1>0, <1>6, <2>1, DescKept DEF kill, shared, driver, calls
<1>7. ASSUME NEW p \in Procs, NEW w \in BOOLEAN, virtio_disk_rw(p, w) PROVE Descriptors'
  <2>1. Active' = Active /\ p \notin Active
    BY <1>0, <1>7, ActiveKept DEF virtio_disk_rw, TypeOK, Active
  <2>2. \A q \in Active : write'[q] = write[q]
    BY <1>0, <1>7, <2>1 DEF virtio_disk_rw, TypeOK
  <2> QED
    BY <1>0, <1>7, <2>1, <2>2, DescKept DEF virtio_disk_rw, shared, driver
<1>8. CASE intr_ack
  <2>1. Active' = Active
    BY <1>8 DEF intr_ack, Active
  <2> QED
    BY <1>0, <1>8, <2>1, DescKept DEF intr_ack, shared, driver, calls
<1>9. CASE intr_entry
  <2>1. PICK id \in Desc :
          /\ Owned(id) /\ pc' = [pc EXCEPT ![info[id]] = IF @ = "wait" THEN "woken" ELSE @]
    BY <1>9, EntryStep
  <2>2. Active' = Active
    BY <1>0, <2>1, ActiveKept DEF TypeOK, Owned
  <2> QED
    BY <1>0, <1>9, <2>2, DescKept DEF intr_entry, shared, calls
<1>10. CASE intr_return
  <2>1. Active' = Active
    BY <1>10 DEF intr_return, Active
  <2> QED
    BY <1>0, <1>10, <2>1, DescKept DEF intr_return, shared, driver, calls
<1>11. CASE dev_take
  <2>1. Active' = Active
    BY <1>11 DEF dev_take, Active
  <2> QED
    BY <1>0, <1>11, <2>1, DescKept DEF dev_take, shared, driver, calls
<1>12. CASE dev_irq
  <2>1. Active' = Active
    BY <1>12 DEF dev_irq, Active
  <2> QED
    BY <1>0, <1>12, <2>1, DescKept DEF dev_irq, shared, driver, calls
<1>13. ASSUME NEW i \in Desc, dev_transfer(i) PROVE Descriptors'
  <2>1. Active' = Active
    BY <1>13 DEF dev_transfer, Active
  <2> QED
    BY <1>0, <1>13, <2>1, DescKept DEF dev_transfer, shared, driver, calls
<1>14. ASSUME NEW i \in Desc, dev_used(i) PROVE Descriptors'
  <2>1. Active' = Active
    BY <1>14 DEF dev_used, Active
  <2> QED
    BY <1>0, <1>14, <2>1, DescKept DEF dev_used, shared, driver, calls
<1> QED
  BY <1>1, <1>2, <1>3, <1>4, <1>5, <1>6, <1>7, <1>8, <1>9, <1>10, <1>11, <1>12, <1>13,
     <1>14 DEF Next, Rw_Step, Intr_Step, Dev_Step

\* Requests stay when what they are made of does.
LEMMA RequestsKept ==
  ASSUME Requests, Active' = Active, UNCHANGED <<info, head, avail, availidx>>,
         \A q \in Procs : pc'[q] = "publish" => pc[q] = "publish" /\ bdisk'[q] = bdisk[q]
  PROVE  Requests'
<1>1. ASSUME NEW q \in Active' PROVE info'[head'[q]] = q
  BY DEF Requests
<1>2. ASSUME NEW q \in Procs, pc'[q] = "publish"
      PROVE  bdisk'[q] /\ avail'[availidx' % RING] = head'[q]
  BY <1>2 DEF Requests
<1> QED
  BY <1>1, <1>2 DEF Requests

\* Steps keep the requests in order.
LEMMA RequestsStep ==
  ASSUME DriverInv, Next
  PROVE  Requests'
<1>0. TypeOK /\ LockHeld /\ Descriptors /\ Requests
  BY DEF DriverInv
<1>1. ASSUME NEW p \in Procs, rw_sleep(p) PROVE Requests'
  <2>1. Active' = Active
    BY <1>0, <1>1, ActiveKept DEF rw_sleep, TypeOK, WakeFree
  <2>2. \A q \in Procs : pc'[q] = "publish" => pc[q] = "publish"
    BY <1>0, <1>1 DEF rw_sleep, TypeOK, WakeFree
  <2> QED
    BY <1>0, <1>1, <2>1, <2>2, RequestsKept DEF rw_sleep, shared, driver, calls
<1>2. ASSUME NEW p \in Procs, rw_format(p) PROVE Requests'
  <2>1. PICK i \in free :
          /\ info' = [info EXCEPT ![i] = p] /\ head' = [head EXCEPT ![p] = i]
          /\ avail' = [avail EXCEPT ![availidx % RING] = i]
    BY <1>2, FormatStep
  <2>2. p \notin Active /\ Active' = Active \cup {p} /\ availidx % RING \in 0..(RING - 1)
    BY <1>2, FormatRoom
  <2>3. /\ lock = None /\ pc' = [pc EXCEPT ![p] = "publish"] /\ availidx' = availidx
        /\ bdisk' = [bdisk EXCEPT ![p] = TRUE]
    BY <1>2 DEF rw_format
  <2>4. \A q \in Procs : pc[q] # "publish"
    BY <1>0, <2>3, NameAssumption DEF LockHeld
  <2>5. i \in Desc /\ \A q \in Active : head[q] # i /\ head[q] \in Desc
    BY <1>0, Heads DEF TypeOK
  <2>6. ASSUME NEW q \in Active' PROVE info'[head'[q]] = q
    <3>1. CASE q = p
      BY <1>0, <2>1, <2>5, <3>1 DEF TypeOK
    <3>2. CASE q \in Active
      <4>1. head'[q] = head[q]
        BY <1>0, <2>1, <2>2, <3>2 DEF TypeOK, Active
      <4> QED
        BY <1>0, <2>1, <2>5, <3>2, <4>1 DEF TypeOK, Requests
    <3> QED
      BY <2>2, <3>1, <3>2
  <2>7. bdisk'[p] /\ avail'[availidx' % RING] = head'[p]
    BY <1>0, <2>1, <2>2, <2>3 DEF TypeOK
  <2>8. \A q \in Procs : pc'[q] = "publish" => q = p
    BY <1>0, <2>3, <2>4 DEF TypeOK
  <2> QED
    BY <2>6, <2>7, <2>8 DEF Requests
<1>3. ASSUME NEW p \in Procs, rw_publish(p) PROVE Requests'
  <2>1. pc[p] = "publish" /\ pc' = [pc EXCEPT ![p] = "wait"] /\ lock = p
    BY <1>0, <1>3 DEF rw_publish, LockHeld
  <2>2. Active' = Active
    BY <1>0, <2>1, ActiveKept DEF TypeOK
  <2>3. \A q \in Procs : pc'[q] # "publish"
    BY <1>0, <2>1 DEF TypeOK, LockHeld
  <2> QED
    BY <1>0, <1>3, <2>2, <2>3 DEF rw_publish, Requests, driver, calls
<1>4. ASSUME NEW p \in Procs, rw_again(p) PROVE Requests'
  <2>1. Active' = Active
    BY <1>0, <1>4, ActiveKept DEF rw_again, TypeOK
  <2>2. \A q \in Procs : pc'[q] = "publish" => pc[q] = "publish"
    BY <1>0, <1>4 DEF rw_again, TypeOK
  <2> QED
    BY <1>0, <1>4, <2>1, <2>2, RequestsKept DEF rw_again, shared, driver, calls
<1>5. ASSUME NEW p \in Procs, rw_return(p) PROVE Requests'
  <2>1. /\ p \in Active /\ Active' = Active \ {p}
        /\ \A q \in Procs : pc'[q] = "publish" => pc[q] = "publish"
    BY <1>5, ReturnStep
  <2>2. /\ lock = None /\ info' = [info EXCEPT ![head[p]] = None]
        /\ head' = [head EXCEPT ![p] = 0]
    BY <1>5 DEF rw_return
  <2>3. \A q \in Procs : pc'[q] # "publish"
    BY <1>0, <2>1, <2>2, NameAssumption DEF LockHeld
  <2>4. ASSUME NEW q \in Active' PROVE info'[head'[q]] = q
    <3>1. q \in Active /\ q # p
      BY <2>1
    <3>2. head'[q] = head[q] /\ head[q] # head[p]
      BY <1>0, <2>1, <2>2, <3>1, Heads DEF TypeOK, Active
    <3> QED
      BY <1>0, <2>1, <2>2, <3>1, <3>2, Heads DEF Requests, TypeOK
  <2> QED
    BY <2>3, <2>4 DEF Requests
<1>6. ASSUME NEW p \in Procs, kill(p) PROVE Requests'
  <2>1. Active' = Active
    BY <1>0, <1>6, ActiveKept DEF kill, TypeOK
  <2>2. \A q \in Procs : pc'[q] = "publish" => pc[q] = "publish"
    BY <1>0, <1>6 DEF kill, TypeOK
  <2> QED
    BY <1>0, <1>6, <2>1, <2>2, RequestsKept DEF kill, shared, driver, calls
<1>7. ASSUME NEW p \in Procs, NEW w \in BOOLEAN, virtio_disk_rw(p, w) PROVE Requests'
  <2>1. Active' = Active
    BY <1>0, <1>7, ActiveKept DEF virtio_disk_rw, TypeOK
  <2>2. \A q \in Procs : pc'[q] = "publish" => pc[q] = "publish"
    BY <1>0, <1>7 DEF virtio_disk_rw, TypeOK
  <2> QED
    BY <1>0, <1>7, <2>1, <2>2, RequestsKept DEF virtio_disk_rw, shared, driver, calls
<1>8. CASE intr_ack
  <2>1. Active' = Active /\ pc' = pc
    BY <1>8 DEF intr_ack, Active
  <2> QED
    BY <1>0, <1>8, <2>1, RequestsKept DEF intr_ack, shared, driver, calls
<1>9. CASE intr_entry
  <2>1. PICK id \in Desc :
          /\ Owned(id) /\ pc' = [pc EXCEPT ![info[id]] = IF @ = "wait" THEN "woken" ELSE @]
          /\ bdisk' = [bdisk EXCEPT ![info[id]] = FALSE]
    BY <1>9, EntryStep
  <2>2. Active' = Active
    BY <1>0, <2>1, ActiveKept DEF TypeOK, Owned
  <2>3. \A q \in Procs : pc'[q] = "publish" => pc[q] = "publish" /\ bdisk'[q] = bdisk[q]
    BY <1>0, <2>1 DEF TypeOK, Owned
  <2> QED
    BY <1>0, <1>9, <2>2, <2>3, RequestsKept DEF intr_entry, shared, calls
<1>10. CASE intr_return
  <2>1. Active' = Active /\ pc' = pc
    BY <1>10 DEF intr_return, Active
  <2> QED
    BY <1>0, <1>10, <2>1, RequestsKept DEF intr_return, shared, driver, calls
<1>11. CASE dev_take
  <2>1. Active' = Active /\ pc' = pc
    BY <1>11 DEF dev_take, Active
  <2> QED
    BY <1>0, <1>11, <2>1, RequestsKept DEF dev_take, shared, driver, calls
<1>12. CASE dev_irq
  <2>1. Active' = Active /\ pc' = pc
    BY <1>12 DEF dev_irq, Active
  <2> QED
    BY <1>0, <1>12, <2>1, RequestsKept DEF dev_irq, shared, driver, calls
<1>13. ASSUME NEW i \in Desc, dev_transfer(i) PROVE Requests'
  <2>1. Active' = Active /\ pc' = pc
    BY <1>13 DEF dev_transfer, Active
  <2> QED
    BY <1>0, <1>13, <2>1, RequestsKept DEF dev_transfer, shared, driver, calls
<1>14. ASSUME NEW i \in Desc, dev_used(i) PROVE Requests'
  <2>1. Active' = Active /\ pc' = pc
    BY <1>14 DEF dev_used, Active
  <2> QED
    BY <1>0, <1>14, <2>1, RequestsKept DEF dev_used, shared, driver, calls
<1> QED
  BY <1>1, <1>2, <1>3, <1>4, <1>5, <1>6, <1>7, <1>8, <1>9, <1>10, <1>11, <1>12, <1>13,
     <1>14 DEF Next, Rw_Step, Intr_Step, Dev_Step

\* But for the handler, nobody takes a buffer from the device.
LEMMA OwnedStep ==
  ASSUME DriverInv, NEW i \in Desc, Owned(i), ~intr_entry, Next
  PROVE  Owned(i)'
<1>0. TypeOK /\ Descriptors /\ Requests /\ Owned(i) /\ i \in Desc
  BY DEF DriverInv
<1>1. ASSUME NEW p \in Procs, rw_sleep(p) PROVE Owned(i)'
  <2>1. Active' = Active
    BY <1>0, <1>1, ActiveKept DEF rw_sleep, TypeOK, WakeFree
  <2>2. \A q \in Procs : pc'[q] = "publish" => pc[q] = "publish"
    BY <1>0, <1>1 DEF rw_sleep, TypeOK, WakeFree
  <2> QED
    BY <1>0, <1>1, <2>1, <2>2 DEF rw_sleep, Owned, Active, driver, calls
<1>2. ASSUME NEW p \in Procs, rw_format(p) PROVE Owned(i)'
  <2>1. PICK d \in free : info' = [info EXCEPT ![d] = p] /\ head' = [head EXCEPT ![p] = d]
    BY <1>2, FormatStep
  <2>2. p \notin Active /\ Active' = Active \cup {p}
    BY <1>2, FormatRoom
  <2>3. i # d /\ info[i] # p
    BY <1>0, <2>2, Heads DEF Owned
  <2>4. info'[i] = info[i]
    BY <1>0, <2>1, <2>3 DEF TypeOK
  <2>5. head'[info[i]] = head[info[i]]
    BY <1>0, <2>1, <2>3 DEF TypeOK, Owned, Active
  <2>6. pc'[info[i]] = pc[info[i]] /\ bdisk'[info[i]] = bdisk[info[i]]
    BY <1>0, <1>2, <2>3 DEF rw_format, TypeOK, Owned, Active
  <2> QED
    BY <1>0, <2>2, <2>4, <2>5, <2>6 DEF Owned
<1>3. ASSUME NEW p \in Procs, rw_publish(p) PROVE Owned(i)'
  <2>1. pc[p] = "publish" /\ pc' = [pc EXCEPT ![p] = "wait"]
    BY <1>3 DEF rw_publish
  <2>2. Active' = Active
    BY <1>0, <2>1, ActiveKept DEF TypeOK
  <2> QED
    BY <1>0, <1>3, <2>1, <2>2 DEF rw_publish, Owned, Active, TypeOK, driver, calls
<1>4. ASSUME NEW p \in Procs, rw_again(p) PROVE Owned(i)'
  <2>1. Active' = Active
    BY <1>0, <1>4, ActiveKept DEF rw_again, TypeOK
  <2>2. \A q \in Procs : pc'[q] = "publish" => pc[q] = "publish"
    BY <1>0, <1>4 DEF rw_again, TypeOK
  <2> QED
    BY <1>0, <1>4, <2>1, <2>2 DEF rw_again, Owned, Active, driver, calls
<1>5. ASSUME NEW p \in Procs, rw_return(p) PROVE Owned(i)'
  <2>1. /\ p \in Active /\ Active' = Active \ {p} /\ ~Owned(head[p])
        /\ \A q \in Procs : pc'[q] = "publish" => pc[q] = "publish"
    BY <1>5, ReturnStep
  <2>2. i # head[p] /\ info[i] # p
    BY <1>0, <2>1 DEF Owned
  <2>3. info'[i] = info[i]
    BY <1>0, <1>5, <2>2 DEF rw_return, TypeOK
  <2>4. head'[info[i]] = head[info[i]]
    BY <1>0, <1>5, <2>2 DEF rw_return, TypeOK, Owned, Active
  <2>5. bdisk' = bdisk
    BY <1>5 DEF rw_return
  <2> QED
    BY <1>0, <2>1, <2>2, <2>3, <2>4, <2>5 DEF Owned, Active
<1>6. ASSUME NEW p \in Procs, kill(p) PROVE Owned(i)'
  <2>1. Active' = Active
    BY <1>0, <1>6, ActiveKept DEF kill, TypeOK
  <2>2. \A q \in Procs : pc'[q] = "publish" => pc[q] = "publish"
    BY <1>0, <1>6 DEF kill, TypeOK
  <2> QED
    BY <1>0, <1>6, <2>1, <2>2 DEF kill, Owned, Active, driver, calls
<1>7. ASSUME NEW p \in Procs, NEW w \in BOOLEAN, virtio_disk_rw(p, w) PROVE Owned(i)'
  <2>1. Active' = Active
    BY <1>0, <1>7, ActiveKept DEF virtio_disk_rw, TypeOK
  <2>2. \A q \in Procs : pc'[q] = "publish" => pc[q] = "publish"
    BY <1>0, <1>7 DEF virtio_disk_rw, TypeOK
  <2> QED
    BY <1>0, <1>7, <2>1, <2>2 DEF virtio_disk_rw, Owned, Active, driver, calls
<1>8. CASE intr_ack
  BY <1>0, <1>8 DEF intr_ack, Owned, Active, driver, calls
<1>9. CASE intr_entry
  BY <1>9
<1>10. CASE intr_return
  BY <1>0, <1>10 DEF intr_return, Owned, Active, driver, calls
<1>11. CASE dev_take
  BY <1>0, <1>11 DEF dev_take, Owned, Active, driver, calls
<1>12. CASE dev_irq
  BY <1>0, <1>12 DEF dev_irq, Owned, Active, driver, calls
<1>13. ASSUME NEW j \in Desc, dev_transfer(j) PROVE Owned(i)'
  BY <1>0, <1>13 DEF dev_transfer, Owned, Active, driver, calls
<1>14. ASSUME NEW j \in Desc, dev_used(j) PROVE Owned(i)'
  BY <1>0, <1>14 DEF dev_used, Owned, Active, driver, calls
<1> QED
  BY <1>1, <1>2, <1>3, <1>4, <1>5, <1>6, <1>7, <1>8, <1>9, <1>10, <1>11, <1>12, <1>13,
     <1>14 DEF Next, Rw_Step, Intr_Step, Dev_Step

\* The handler takes back the one buffer it has found in the used ring.
LEMMA OwnedEntry ==
  ASSUME DriverInv, intr_entry, NEW i \in Desc, Owned(i), i # UsedAt(0)
  PROVE  Owned(i)'
<1>0. TypeOK /\ Descriptors /\ UNCHANGED <<info, head>>
  BY DEF DriverInv, intr_entry, calls
<1>1. PICK id \in Desc :
        /\ id = UsedAt(0) /\ Owned(id)
        /\ bdisk' = [bdisk EXCEPT ![info[id]] = FALSE]
        /\ pc' = [pc EXCEPT ![info[id]] = IF @ = "wait" THEN "woken" ELSE @]
  BY EntryStep
<1>2. Active' = Active
  BY <1>0, <1>1, ActiveKept DEF TypeOK, Owned
<1>3. info[i] # info[id]
  BY <1>1 DEF Owned
<1>4. pc'[info[i]] = pc[info[i]] /\ bdisk'[info[i]] = bdisk[info[i]]
  BY <1>0, <1>1, <1>3 DEF TypeOK, Owned, Active
<1> QED
  BY <1>0, <1>2, <1>4 DEF Owned

\* A ring nobody writes to, reads from or moves the indices of is the same.
LEMMA AvailKept ==
  ASSUME UNCHANGED <<avail, availidx, seen>>
  PROVE  /\ Entries(seen, availidx)' = Entries(seen, availidx)
         /\ \A e : AvailAt(e)' = AvailAt(e)
BY DEF Entries, Pending, AvailAt

\* And the used ring.
LEMMA UsedKept ==
  ASSUME UNCHANGED <<used, usedidx, used_idx>>
  PROVE  /\ Entries(used_idx, usedidx)' = Entries(used_idx, usedidx)
         /\ \A e : UsedAt(e)' = UsedAt(e)
BY DEF Entries, Pending, UsedAt

\* rw_format and rw_publish: an entry is filled in first, then published.
LEMMA Publishing ==
  ASSUME DriverInv, NEW p \in Procs, rw_publish(p)
  PROVE  head[p] \in Desc /\ ~Owned(head[p]) /\ Owned(head[p])'
<1>0. TypeOK /\ Descriptors /\ Requests
  BY DEF DriverInv
<1>1. pc[p] = "publish" /\ pc' = [pc EXCEPT ![p] = "wait"] /\ p \in Active
  BY DEF rw_publish, Active
<1>2. Active' = Active
  BY <1>0, <1>1, ActiveKept DEF TypeOK
<1>3. info[head[p]] = p /\ bdisk[p] /\ head[p] \in Desc
  BY <1>0, <1>1 DEF Requests, TypeOK
<1>4. ~Owned(head[p])
  BY <1>1, <1>3 DEF Owned
<1>5. UNCHANGED <<info, head, bdisk>> /\ pc'[p] = "wait"
  BY <1>0, <1>1 DEF rw_publish, driver, calls, TypeOK
<1>6. Owned(head[p])'
  BY <1>1, <1>2, <1>3, <1>5 DEF Owned
<1> QED
  BY <1>3, <1>4, <1>6

\* What the device has after a step it had before, or it was published.
LEMMA DeviceFrom ==
  ASSUME DriverInv, NEW d \in WithDevice', ~intr_entry, Next
  PROVE  /\ d \in Desc
         /\ Owned(d) \/ \E p \in Procs : rw_publish(p) /\ d = head[p]
<1> DEFINE From == d \in Desc /\ (Owned(d) \/ \E p \in Procs : rw_publish(p) /\ d = head[p])
<1>0. TypeOK /\ InOnePlace
  BY DEF DriverInv
<1>a. /\ \A e \in Entries(seen, availidx) : Owned(AvailAt(e)) /\ AvailAt(e) \in Desc
      /\ \A e \in Entries(used_idx, usedidx) : Owned(UsedAt(e)) /\ UsedAt(e) \in Desc
      /\ \A i \in Desc : work[i] # "none" => Owned(i)
  BY InRings
<1>b. \/ \E e \in Entries(seen, availidx)' : d = AvailAt(e)'
      \/ d \in Desc /\ work'[d] # "none"
      \/ \E e \in Entries(used_idx, usedidx)' : d = UsedAt(e)'
  BY DEF WithDevice
<1>1. ASSUME NEW p \in Procs, rw_sleep(p) PROVE From
  <2>1. UNCHANGED <<avail, availidx, seen, used, usedidx, used_idx, work>>
    BY <1>1 DEF rw_sleep, shared, driver, device
  <2> QED
    BY <1>a, <1>b, <2>1, AvailKept, UsedKept
<1>2. ASSUME NEW p \in Procs, rw_format(p) PROVE From
  <2>1. /\ UNCHANGED <<seen, availidx, used, usedidx, used_idx, work>>
        /\ \A e \in Entries(seen, availidx) : AvailAt(e)' = AvailAt(e)
    BY <1>2, FormatRoom DEF rw_format, device
  <2>2. Entries(seen, availidx)' = Entries(seen, availidx)
    BY <2>1 DEF Entries, Pending
  <2> QED
    BY <1>a, <1>b, <2>1, <2>2, UsedKept
<1>3. ASSUME NEW p \in Procs, rw_publish(p) PROVE From
  <2>1. /\ UNCHANGED <<used, usedidx, used_idx, work>>
        /\ \A e : AvailAt(e)' = AvailAt(e)
        /\ \A e \in Entries(seen, availidx)' : e \in Entries(seen, availidx) \/ AvailAt(e) = head[p]
    BY <1>3, PublishStep DEF rw_publish, driver, device
  <2> QED
    BY <1>a, <1>b, <1>3, <2>1, UsedKept, Publishing
<1>4. ASSUME NEW p \in Procs, rw_again(p) PROVE From
  <2>1. UNCHANGED <<avail, availidx, seen, used, usedidx, used_idx, work>>
    BY <1>4 DEF rw_again, shared, driver, device
  <2> QED
    BY <1>a, <1>b, <2>1, AvailKept, UsedKept
<1>5. ASSUME NEW p \in Procs, rw_return(p) PROVE From
  <2>1. UNCHANGED <<avail, availidx, seen, used, usedidx, used_idx, work>>
    BY <1>5 DEF rw_return, shared, driver, device
  <2> QED
    BY <1>a, <1>b, <2>1, AvailKept, UsedKept
<1>6. ASSUME NEW p \in Procs, kill(p) PROVE From
  <2>1. UNCHANGED <<avail, availidx, seen, used, usedidx, used_idx, work>>
    BY <1>6 DEF kill, shared, driver, device
  <2> QED
    BY <1>a, <1>b, <2>1, AvailKept, UsedKept
<1>7. ASSUME NEW p \in Procs, NEW w \in BOOLEAN, virtio_disk_rw(p, w) PROVE From
  <2>1. UNCHANGED <<avail, availidx, seen, used, usedidx, used_idx, work>>
    BY <1>7 DEF virtio_disk_rw, shared, driver, device
  <2> QED
    BY <1>a, <1>b, <2>1, AvailKept, UsedKept
<1>8. ASSUME intr_ack PROVE From
  <2>1. UNCHANGED <<avail, availidx, seen, used, usedidx, used_idx, work>>
    BY <1>8 DEF intr_ack, shared, driver, device
  <2> QED
    BY <1>a, <1>b, <2>1, AvailKept, UsedKept
<1>9. ASSUME intr_entry PROVE From
  BY <1>9
<1>10. ASSUME intr_return PROVE From
  <2>1. UNCHANGED <<avail, availidx, seen, used, usedidx, used_idx, work>>
    BY <1>10 DEF intr_return, shared, driver, device
  <2> QED
    BY <1>a, <1>b, <2>1, AvailKept, UsedKept
<1>11. ASSUME dev_take PROVE From
  <2>1. /\ 0 \in Entries(seen, availidx) /\ work' = [work EXCEPT ![AvailAt(0)] = "taken"]
        /\ \A e \in Entries(seen, availidx)' :
             e + 1 \in Entries(seen, availidx) /\ AvailAt(e)' = AvailAt(e + 1)
    BY <1>0, <1>11, TakeStep
  <2>2. UNCHANGED <<used, usedidx, used_idx>>
    BY <1>11 DEF dev_take, shared, driver
  <2>3. d \in Desc /\ work'[d] # "none" => Owned(d)
    BY <1>0, <1>a, <2>1 DEF TypeOK
  <2> QED
    BY <1>a, <1>b, <2>1, <2>2, <2>3, UsedKept
<1>12. ASSUME dev_irq PROVE From
  <2>1. UNCHANGED <<avail, availidx, seen, used, usedidx, used_idx, work>>
    BY <1>12 DEF dev_irq, shared, driver, device
  <2> QED
    BY <1>a, <1>b, <2>1, AvailKept, UsedKept
<1>13. ASSUME NEW j \in Desc, dev_transfer(j) PROVE From
  <2>1. /\ UNCHANGED <<avail, availidx, seen, used, usedidx, used_idx>>
        /\ work[j] = "taken" /\ work' = [work EXCEPT ![j] = "done"]
    BY <1>13 DEF dev_transfer, shared
  <2>2. d \in Desc /\ work'[d] # "none" => Owned(d)
    BY <1>0, <1>a, <2>1 DEF TypeOK
  <2> QED
    BY <1>a, <1>b, <2>1, <2>2, AvailKept, UsedKept
<1>14. ASSUME NEW j \in Desc, dev_used(j) PROVE From
  <2>1. /\ UNCHANGED <<avail, availidx, seen>>
        /\ work[j] = "done" /\ work' = [work EXCEPT ![j] = "none"]
    BY <1>14 DEF dev_used
  <2>2. \A e \in Entries(used_idx, usedidx)' :
          (e \in Entries(used_idx, usedidx) /\ UsedAt(e)' = UsedAt(e)) \/ UsedAt(e)' = j
    BY <1>14, UsedStep
  <2>3. d \in Desc /\ work'[d] # "none" => Owned(d)
    BY <1>0, <1>a, <2>1 DEF TypeOK
  <2>4. Owned(j)
    BY <1>a, <2>1
  <2> QED
    BY <1>a, <1>b, <2>1, <2>2, <2>3, <2>4, AvailKept
<1> HIDE DEF From
<1>15. From
  BY <1>1, <1>2, <1>3, <1>4, <1>5, <1>6, <1>7, <1>8, <1>9, <1>10, <1>11, <1>12, <1>13,
     <1>14 DEF Next, Rw_Step, Intr_Step, Dev_Step
<1> QED
  BY <1>15 DEF From

\* Steps keep every chain the device has with a process that waits.
LEMMA DeviceOwnsStep ==
  ASSUME DriverInv, Next
  PROVE  DeviceOwns'
<1>1. SUFFICES ASSUME NEW d \in WithDevice' PROVE Owned(d)'
  BY DEF DeviceOwns
<1>2. CASE ~intr_entry
  <2>1. d \in Desc /\ (Owned(d) \/ \E p \in Procs : rw_publish(p) /\ d = head[p])
    BY <1>2, DeviceFrom
  <2>2. CASE Owned(d)
    BY <1>2, <2>1, <2>2, OwnedStep
  <2>3. ASSUME NEW p \in Procs, rw_publish(p), d = head[p] PROVE Owned(d)'
    <3>1. Owned(head[p])'
      BY <2>3, Publishing
    <3>2. head' = head
      BY <2>3 DEF rw_publish, calls
    <3> QED
      BY <2>3, <3>1, <3>2 DEF Owned
  <2> QED
    BY <2>1, <2>2, <2>3
<1>3. CASE intr_entry
  <2>0. TypeOK /\ InOnePlace
    BY DEF DriverInv
  <2>1. /\ \A e \in Entries(seen, availidx) : Owned(AvailAt(e)) /\ AvailAt(e) \in Desc
        /\ \A e \in Entries(used_idx, usedidx) : Owned(UsedAt(e)) /\ UsedAt(e) \in Desc
        /\ \A i \in Desc : work[i] # "none" => Owned(i)
    BY InRings
  <2>2. /\ 0 \in Entries(used_idx, usedidx)
        /\ \A e \in Entries(used_idx, usedidx)' :
             e \in Nat /\ e + 1 \in Entries(used_idx, usedidx) /\ UsedAt(e)' = UsedAt(e + 1)
    BY <1>3, EntryStep
  <2>3. UNCHANGED <<avail, availidx, seen, work>>
    BY <1>3 DEF intr_entry, shared, device
  <2>4. \/ \E e \in Entries(seen, availidx)' : d = AvailAt(e)'
        \/ d \in Desc /\ work'[d] # "none"
        \/ \E e \in Entries(used_idx, usedidx)' : d = UsedAt(e)'
    BY <1>1 DEF WithDevice
  <2>5. CASE \E e \in Entries(seen, availidx)' : d = AvailAt(e)'
    BY <1>3, <2>0, <2>1, <2>2, <2>3, <2>5, AvailKept, OwnedEntry DEF InOnePlace
  <2>6. CASE d \in Desc /\ work'[d] # "none"
    BY <1>3, <2>0, <2>1, <2>2, <2>3, <2>6, OwnedEntry DEF InOnePlace
  <2>7. ASSUME NEW e \in Entries(used_idx, usedidx)', d = UsedAt(e)' PROVE Owned(d)'
    <3>1. e \in Nat /\ e + 1 \in Entries(used_idx, usedidx) /\ d = UsedAt(e + 1) /\ e + 1 # 0
      BY <2>2, <2>7
    <3>2. d # UsedAt(0)
      BY <2>0, <2>2, <3>1 DEF InOnePlace
    <3> QED
      BY <1>3, <2>1, <3>1, <3>2, OwnedEntry
  <2> QED
    BY <2>4, <2>5, <2>6, <2>7
<1> QED
  BY <1>2, <1>3

\* Requests stay in one place when the rings and the device's work do.
LEMMA PlaceKept ==
  ASSUME InOnePlace, UNCHANGED <<work, used, usedidx, used_idx>>,
         Entries(seen, availidx)' = Entries(seen, availidx),
         \A e \in Entries(seen, availidx) : AvailAt(e)' = AvailAt(e)
  PROVE  InOnePlace'
<1>1. /\ Entries(used_idx, usedidx)' = Entries(used_idx, usedidx)
      /\ \A e : UsedAt(e)' = UsedAt(e)
  BY UsedKept
<1> QED
  BY <1>1 DEF InOnePlace

\* Steps keep every request in one place.
LEMMA PlaceStep ==
  ASSUME DriverInv, Next
  PROVE  InOnePlace'
<1>0. TypeOK /\ InOnePlace
  BY DEF DriverInv
<1>a. /\ \A e \in Entries(seen, availidx) : Owned(AvailAt(e)) /\ AvailAt(e) \in Desc
      /\ \A e \in Entries(used_idx, usedidx) : Owned(UsedAt(e)) /\ UsedAt(e) \in Desc
      /\ \A i \in Desc : work[i] # "none" => Owned(i)
  BY InRings
<1>1. ASSUME NEW p \in Procs, rw_sleep(p) PROVE InOnePlace'
  <2>1. UNCHANGED <<avail, availidx, seen, used, usedidx, used_idx, work>>
    BY <1>1 DEF rw_sleep, shared, driver, device
  <2> QED
    BY <1>0, <2>1, AvailKept, PlaceKept
<1>2. ASSUME NEW p \in Procs, rw_format(p) PROVE InOnePlace'
  <2>1. /\ UNCHANGED <<seen, availidx, used, usedidx, used_idx, work>>
        /\ \A e \in Entries(seen, availidx) : AvailAt(e)' = AvailAt(e)
    BY <1>2, FormatRoom DEF rw_format, device
  <2>2. Entries(seen, availidx)' = Entries(seen, availidx)
    BY <2>1 DEF Entries, Pending
  <2> QED
    BY <1>0, <2>1, <2>2, PlaceKept
<1>3. ASSUME NEW p \in Procs, rw_publish(p) PROVE InOnePlace'
  <2>1. UNCHANGED <<used, usedidx, used_idx, work>>
    BY <1>3 DEF rw_publish, driver, device
  <2>2. /\ \A e : AvailAt(e)' = AvailAt(e)
        /\ \A e \in Entries(seen, availidx)' :
             e \in Entries(seen, availidx) \/ (e = Pending(seen, availidx) /\ AvailAt(e) = head[p])
    BY <1>3, PublishStep
  <2>3. ~Owned(head[p]) /\ head[p] \in Desc
    BY <1>3, Publishing
  <2>4. /\ \A e \in Entries(seen, availidx) : AvailAt(e) # head[p]
        /\ \A e \in Entries(used_idx, usedidx) : UsedAt(e) # head[p]
        /\ work[head[p]] = "none"
    BY <1>a, <2>3
  <2>5. /\ \A e, f \in Entries(seen, availidx)' : AvailAt(e)' = AvailAt(f)' => e = f
        /\ \A e \in Entries(seen, availidx)' : work[AvailAt(e)'] = "none"
        /\ \A e \in Entries(seen, availidx)', f \in Entries(used_idx, usedidx) :
             AvailAt(e)' # UsedAt(f)
    BY <1>0, <2>2, <2>4 DEF InOnePlace
  <2>6. /\ Entries(used_idx, usedidx)' = Entries(used_idx, usedidx)
        /\ \A e : UsedAt(e)' = UsedAt(e)
    BY <2>1, UsedKept
  <2> QED
    BY <1>0, <2>1, <2>5, <2>6 DEF InOnePlace
<1>4. ASSUME NEW p \in Procs, rw_again(p) PROVE InOnePlace'
  <2>1. UNCHANGED <<avail, availidx, seen, used, usedidx, used_idx, work>>
    BY <1>4 DEF rw_again, shared, driver, device
  <2> QED
    BY <1>0, <2>1, AvailKept, PlaceKept
<1>5. ASSUME NEW p \in Procs, rw_return(p) PROVE InOnePlace'
  <2>1. UNCHANGED <<avail, availidx, seen, used, usedidx, used_idx, work>>
    BY <1>5 DEF rw_return, shared, driver, device
  <2> QED
    BY <1>0, <2>1, AvailKept, PlaceKept
<1>6. ASSUME NEW p \in Procs, kill(p) PROVE InOnePlace'
  <2>1. UNCHANGED <<avail, availidx, seen, used, usedidx, used_idx, work>>
    BY <1>6 DEF kill, shared, driver, device
  <2> QED
    BY <1>0, <2>1, AvailKept, PlaceKept
<1>7. ASSUME NEW p \in Procs, NEW w \in BOOLEAN, virtio_disk_rw(p, w) PROVE InOnePlace'
  <2>1. UNCHANGED <<avail, availidx, seen, used, usedidx, used_idx, work>>
    BY <1>7 DEF virtio_disk_rw, shared, driver, device
  <2> QED
    BY <1>0, <2>1, AvailKept, PlaceKept
<1>8. CASE intr_ack
  <2>1. UNCHANGED <<avail, availidx, seen, used, usedidx, used_idx, work>>
    BY <1>8 DEF intr_ack, shared, driver, device
  <2> QED
    BY <1>0, <2>1, AvailKept, PlaceKept
<1>9. CASE intr_entry
  <2>1. UNCHANGED <<avail, availidx, seen, work>>
    BY <1>9 DEF intr_entry, shared, device
  <2>2. \A e \in Entries(used_idx, usedidx)' :
          e \in Nat /\ e + 1 \in Entries(used_idx, usedidx) /\ UsedAt(e)' = UsedAt(e + 1)
    BY <1>9, EntryStep
  <2>3. /\ Entries(seen, availidx)' = Entries(seen, availidx)
        /\ \A e : AvailAt(e)' = AvailAt(e)
    BY <2>1, AvailKept
  <2>4. ASSUME NEW e \in Entries(used_idx, usedidx)', NEW f \in Entries(used_idx, usedidx)',
               UsedAt(e)' = UsedAt(f)'
        PROVE  e = f
    <3>1. /\ e \in Nat /\ f \in Nat /\ e + 1 \in Entries(used_idx, usedidx)
          /\ f + 1 \in Entries(used_idx, usedidx) /\ UsedAt(e + 1) = UsedAt(f + 1)
      BY <2>2, <2>4
    <3>2. e + 1 = f + 1
      BY <1>0, <3>1 DEF InOnePlace
    <3> QED
      BY <3>1, <3>2
  <2>5. /\ \A e \in Entries(used_idx, usedidx)' : work[UsedAt(e)'] = "none"
        /\ \A e \in Entries(seen, availidx), f \in Entries(used_idx, usedidx)' :
             AvailAt(e) # UsedAt(f)'
    BY <1>0, <2>2 DEF InOnePlace
  <2> QED
    BY <1>0, <2>1, <2>3, <2>4, <2>5 DEF InOnePlace
<1>10. CASE intr_return
  <2>1. UNCHANGED <<avail, availidx, seen, used, usedidx, used_idx, work>>
    BY <1>10 DEF intr_return, shared, driver, device
  <2> QED
    BY <1>0, <2>1, AvailKept, PlaceKept
<1>11. CASE dev_take
  <2>1. UNCHANGED <<used, usedidx, used_idx>>
    BY <1>11 DEF dev_take, shared, driver
  <2>2. /\ 0 \in Entries(seen, availidx) /\ work' = [work EXCEPT ![AvailAt(0)] = "taken"]
        /\ \A e \in Entries(seen, availidx)' :
             e \in Nat /\ e + 1 \in Entries(seen, availidx) /\ AvailAt(e)' = AvailAt(e + 1)
    BY <1>0, <1>11, TakeStep
  <2>3. /\ Entries(used_idx, usedidx)' = Entries(used_idx, usedidx)
        /\ \A e : UsedAt(e)' = UsedAt(e)
    BY <2>1, UsedKept
  <2>4. ASSUME NEW e \in Entries(seen, availidx)', NEW f \in Entries(seen, availidx)',
               AvailAt(e)' = AvailAt(f)'
        PROVE  e = f
    <3>1. /\ e \in Nat /\ f \in Nat /\ e + 1 \in Entries(seen, availidx)
          /\ f + 1 \in Entries(seen, availidx) /\ AvailAt(e + 1) = AvailAt(f + 1)
      BY <2>2, <2>4
    <3>2. e + 1 = f + 1
      BY <1>0, <3>1 DEF InOnePlace
    <3> QED
      BY <3>1, <3>2
  <2>5. ASSUME NEW e \in Entries(seen, availidx)'
        PROVE  work'[AvailAt(e)'] = "none"
    <3>1. e \in Nat /\ e + 1 \in Entries(seen, availidx) /\ e + 1 # 0 /\ AvailAt(e)' = AvailAt(e + 1)
      BY <2>2
    <3>2. AvailAt(e + 1) # AvailAt(0)
      BY <1>0, <2>2, <3>1 DEF InOnePlace
    <3> QED
      BY <1>0, <1>a, <2>2, <3>1, <3>2 DEF InOnePlace, TypeOK
  <2>6. /\ \A e \in Entries(used_idx, usedidx) : work'[UsedAt(e)] = "none"
        /\ \A e \in Entries(seen, availidx)', f \in Entries(used_idx, usedidx) :
             AvailAt(e)' # UsedAt(f)
    BY <1>0, <1>a, <2>2 DEF InOnePlace, TypeOK
  <2> QED
    BY <1>0, <2>3, <2>4, <2>5, <2>6 DEF InOnePlace
<1>12. CASE dev_irq
  <2>1. UNCHANGED <<avail, availidx, seen, used, usedidx, used_idx, work>>
    BY <1>12 DEF dev_irq, shared, driver, device
  <2> QED
    BY <1>0, <2>1, AvailKept, PlaceKept
<1>13. ASSUME NEW j \in Desc, dev_transfer(j) PROVE InOnePlace'
  <2>1. /\ UNCHANGED <<avail, availidx, seen, used, usedidx, used_idx>>
        /\ work[j] = "taken" /\ work' = [work EXCEPT ![j] = "done"]
    BY <1>13 DEF dev_transfer, shared
  <2>2. /\ Entries(seen, availidx)' = Entries(seen, availidx)
        /\ \A e : AvailAt(e)' = AvailAt(e)
        /\ Entries(used_idx, usedidx)' = Entries(used_idx, usedidx)
        /\ \A e : UsedAt(e)' = UsedAt(e)
    BY <2>1, AvailKept, UsedKept
  <2>3. \A d \in Desc : work[d] = "none" => work'[d] = "none"
    BY <1>0, <2>1 DEF TypeOK
  <2> QED
    BY <1>0, <1>a, <2>2, <2>3 DEF InOnePlace
<1>14. ASSUME NEW j \in Desc, dev_used(j) PROVE InOnePlace'
  <2>1. /\ UNCHANGED <<avail, availidx, seen>>
        /\ work[j] = "done" /\ work' = [work EXCEPT ![j] = "none"]
    BY <1>14 DEF dev_used
  <2>2. \A e \in Entries(used_idx, usedidx)' :
          \/ e \in Entries(used_idx, usedidx) /\ UsedAt(e)' = UsedAt(e)
          \/ e = Pending(used_idx, usedidx) /\ UsedAt(e)' = j
    BY <1>14, UsedStep
  <2>3. /\ Entries(seen, availidx)' = Entries(seen, availidx)
        /\ \A e : AvailAt(e)' = AvailAt(e)
    BY <2>1, AvailKept
  <2>4. work'[j] = "none" /\ \A d \in Desc : work[d] = "none" => work'[d] = "none"
    BY <1>0, <2>1 DEF TypeOK
  <2>5. /\ \A e \in Entries(used_idx, usedidx) : UsedAt(e) # j
        /\ \A e \in Entries(seen, availidx) : AvailAt(e) # j
    BY <1>0, <2>1 DEF InOnePlace
  <2>6. \A e, f \in Entries(used_idx, usedidx)' : UsedAt(e)' = UsedAt(f)' => e = f
    BY <1>0, <2>2, <2>5 DEF InOnePlace
  <2>7. /\ \A e \in Entries(used_idx, usedidx)' : work'[UsedAt(e)'] = "none"
        /\ \A e \in Entries(seen, availidx), f \in Entries(used_idx, usedidx)' :
             AvailAt(e) # UsedAt(f)'
    BY <1>0, <1>a, <2>2, <2>4, <2>5 DEF InOnePlace
  <2>8. \A e \in Entries(seen, availidx) : work'[AvailAt(e)] = "none"
    BY <1>0, <1>a, <2>4 DEF InOnePlace
  <2> QED
    BY <1>0, <2>3, <2>6, <2>7, <2>8 DEF InOnePlace
<1> QED
  BY <1>1, <1>2, <1>3, <1>4, <1>5, <1>6, <1>7, <1>8, <1>9, <1>10, <1>11, <1>12, <1>13,
     <1>14 DEF Next, Rw_Step, Intr_Step, Dev_Step

\* What was transferred stays so until the process gets its buffer back.
LEMMA DoneStep ==
  ASSUME DriverInv, NEW d \in Desc, Owned(d), status[d], moved[info[d]], Next
  PROVE  status'[d] /\ moved'[info'[d]]
<1>0. TypeOK /\ Descriptors /\ d \in Desc /\ Owned(d) /\ status[d] /\ moved[info[d]]
  BY DEF DriverInv
<1>1. ASSUME NEW p \in Procs, rw_sleep(p) PROVE status'[d] /\ moved'[info'[d]]
  BY <1>0, <1>1 DEF rw_sleep, driver, device
<1>2. ASSUME NEW p \in Procs, rw_format(p) PROVE status'[d] /\ moved'[info'[d]]
  <2>1. PICK h \in free : info' = [info EXCEPT ![h] = p] /\ status' = [status EXCEPT ![h] = FALSE]
    BY <1>2, FormatStep
  <2>2. d # h /\ moved' = moved
    BY <1>0, <1>2, Heads DEF Owned, rw_format, device
  <2> QED
    BY <1>0, <2>1, <2>2 DEF TypeOK
<1>3. ASSUME NEW p \in Procs, rw_publish(p) PROVE status'[d] /\ moved'[info'[d]]
  BY <1>0, <1>3 DEF rw_publish, driver, device
<1>4. ASSUME NEW p \in Procs, rw_again(p) PROVE status'[d] /\ moved'[info'[d]]
  BY <1>0, <1>4 DEF rw_again, driver, device
<1>5. ASSUME NEW p \in Procs, rw_return(p) PROVE status'[d] /\ moved'[info'[d]]
  <2>1. ~Owned(head[p])
    BY <1>5, ReturnStep
  <2>2. d # head[p] /\ info[d] # p
    BY <1>0, <2>1 DEF Owned
  <2>3. info'[d] = info[d] /\ status' = status
    BY <1>0, <1>5, <2>2 DEF rw_return, TypeOK
  <2>4. moved'[info[d]] = moved[info[d]]
    BY <1>0, <1>5, <2>2 DEF rw_return, TypeOK, Owned, Active
  <2> QED
    BY <1>0, <2>3, <2>4
<1>6. ASSUME NEW p \in Procs, kill(p) PROVE status'[d] /\ moved'[info'[d]]
  BY <1>0, <1>6 DEF kill, driver, device
<1>7. ASSUME NEW p \in Procs, NEW w \in BOOLEAN, virtio_disk_rw(p, w) PROVE status'[d] /\ moved'[info'[d]]
  BY <1>0, <1>7 DEF virtio_disk_rw, driver, device
<1>8. CASE intr_ack
  BY <1>0, <1>8 DEF intr_ack, driver, device
<1>9. CASE intr_entry
  BY <1>0, <1>9 DEF intr_entry, driver, device
<1>10. CASE intr_return
  BY <1>0, <1>10 DEF intr_return, driver, device
<1>11. CASE dev_take
  BY <1>0, <1>11 DEF dev_take, driver, device
<1>12. CASE dev_irq
  BY <1>0, <1>12 DEF dev_irq, driver, device
<1>13. ASSUME NEW j \in Desc, dev_transfer(j) PROVE status'[d] /\ moved'[info'[d]]
  <2>1. /\ moved' = [moved EXCEPT ![info[j]] = TRUE] /\ status' = [status EXCEPT ![j] = TRUE]
        /\ info' = info
    BY <1>13, TransferStep DEF dev_transfer
  <2> QED
    BY <1>0, <2>1 DEF TypeOK, Owned, Active
<1>14. ASSUME NEW j \in Desc, dev_used(j) PROVE status'[d] /\ moved'[info'[d]]
  BY <1>0, <1>14 DEF dev_used, driver, device
<1> QED
  BY <1>1, <1>2, <1>3, <1>4, <1>5, <1>6, <1>7, <1>8, <1>9, <1>10, <1>11, <1>12, <1>13,
     <1>14 DEF Next, Rw_Step, Intr_Step, Dev_Step

\* Steps keep what the device is done with served.
LEMMA ServedStep ==
  ASSUME DriverInv, Next
  PROVE  Served'
<1>0. TypeOK /\ Served
  BY DEF DriverInv
<1>b. /\ \A d \in Desc : work[d] = "done" => status'[d] /\ moved'[info'[d]]
      /\ \A e \in Entries(used_idx, usedidx) : status'[UsedAt(e)] /\ moved'[info'[UsedAt(e)]]
  BY <1>0, InRings, DoneStep DEF Served
<1>1. ASSUME NEW p \in Procs, rw_sleep(p) PROVE Served'
  <2>1. UNCHANGED <<used, usedidx, used_idx, work>>
    BY <1>1 DEF rw_sleep, shared, driver, device
  <2> QED
    BY <1>b, <2>1, UsedKept DEF Served
<1>2. ASSUME NEW p \in Procs, rw_format(p) PROVE Served'
  <2>1. UNCHANGED <<used, usedidx, used_idx, work>>
    BY <1>2 DEF rw_format, shared, driver, device
  <2> QED
    BY <1>b, <2>1, UsedKept DEF Served
<1>3. ASSUME NEW p \in Procs, rw_publish(p) PROVE Served'
  <2>1. UNCHANGED <<used, usedidx, used_idx, work>>
    BY <1>3 DEF rw_publish, shared, driver, device
  <2> QED
    BY <1>b, <2>1, UsedKept DEF Served
<1>4. ASSUME NEW p \in Procs, rw_again(p) PROVE Served'
  <2>1. UNCHANGED <<used, usedidx, used_idx, work>>
    BY <1>4 DEF rw_again, shared, driver, device
  <2> QED
    BY <1>b, <2>1, UsedKept DEF Served
<1>5. ASSUME NEW p \in Procs, rw_return(p) PROVE Served'
  <2>1. UNCHANGED <<used, usedidx, used_idx, work>>
    BY <1>5 DEF rw_return, shared, driver, device
  <2> QED
    BY <1>b, <2>1, UsedKept DEF Served
<1>6. ASSUME NEW p \in Procs, kill(p) PROVE Served'
  <2>1. UNCHANGED <<used, usedidx, used_idx, work>>
    BY <1>6 DEF kill, shared, driver, device
  <2> QED
    BY <1>b, <2>1, UsedKept DEF Served
<1>7. ASSUME NEW p \in Procs, NEW w \in BOOLEAN, virtio_disk_rw(p, w) PROVE Served'
  <2>1. UNCHANGED <<used, usedidx, used_idx, work>>
    BY <1>7 DEF virtio_disk_rw, shared, driver, device
  <2> QED
    BY <1>b, <2>1, UsedKept DEF Served
<1>8. CASE intr_ack
  <2>1. UNCHANGED <<used, usedidx, used_idx, work>>
    BY <1>8 DEF intr_ack, shared, driver, device
  <2> QED
    BY <1>b, <2>1, UsedKept DEF Served
<1>9. CASE intr_entry
  <2>1. work' = work
    BY <1>9 DEF intr_entry, device
  <2>2. \A e \in Entries(used_idx, usedidx)' :
          e + 1 \in Entries(used_idx, usedidx) /\ UsedAt(e)' = UsedAt(e + 1)
    BY <1>9, EntryStep
  <2>3. \A e \in Entries(used_idx, usedidx)' : status'[UsedAt(e)'] /\ moved'[info'[UsedAt(e)']]
    BY <1>b, <2>2
  <2> QED
    BY <1>b, <2>1, <2>3 DEF Served
<1>10. CASE intr_return
  <2>1. UNCHANGED <<used, usedidx, used_idx, work>>
    BY <1>10 DEF intr_return, shared, driver, device
  <2> QED
    BY <1>b, <2>1, UsedKept DEF Served
<1>11. CASE dev_take
  <2>1. work' = [work EXCEPT ![AvailAt(0)] = "taken"]
    BY <1>0, <1>11, TakeStep
  <2>2. \A d \in Desc : work'[d] = "done" => work[d] = "done"
    BY <1>0, <2>1 DEF TypeOK
  <2>3. UNCHANGED <<used, usedidx, used_idx>>
    BY <1>11 DEF dev_take, shared, driver
  <2> QED
    BY <1>b, <2>2, <2>3, UsedKept DEF Served
<1>12. CASE dev_irq
  <2>1. UNCHANGED <<used, usedidx, used_idx, work>>
    BY <1>12 DEF dev_irq, shared, driver, device
  <2> QED
    BY <1>b, <2>1, UsedKept DEF Served
<1>13. ASSUME NEW j \in Desc, dev_transfer(j) PROVE Served'
  <2>1. /\ UNCHANGED <<used, usedidx, used_idx, info>>
        /\ work[j] = "taken" /\ work' = [work EXCEPT ![j] = "done"]
    BY <1>13 DEF dev_transfer, shared
  <2>2. /\ moved' = [moved EXCEPT ![info[j]] = TRUE] /\ status' = [status EXCEPT ![j] = TRUE]
    BY <1>13, TransferStep
  <2>3. Owned(j)
    BY <2>1, InRings
  <2>4. status'[j] /\ moved'[info'[j]]
    BY <1>0, <2>1, <2>2, <2>3 DEF TypeOK, Owned, Active
  <2>5. \A d \in Desc : work'[d] = "done" => d = j \/ work[d] = "done"
    BY <1>0, <2>1 DEF TypeOK
  <2> QED
    BY <1>b, <2>1, <2>4, <2>5, UsedKept DEF Served
<1>14. ASSUME NEW j \in Desc, dev_used(j) PROVE Served'
  <2>1. work[j] = "done" /\ work' = [work EXCEPT ![j] = "none"]
    BY <1>14 DEF dev_used
  <2>2. \A e \in Entries(used_idx, usedidx)' :
          \/ e \in Entries(used_idx, usedidx) /\ UsedAt(e)' = UsedAt(e)
          \/ UsedAt(e)' = j
    BY <1>14, UsedStep
  <2>3. \A d \in Desc : work'[d] = "done" => work[d] = "done"
    BY <1>0, <2>1 DEF TypeOK
  <2>4. \A e \in Entries(used_idx, usedidx)' : status'[UsedAt(e)'] /\ moved'[info'[UsedAt(e)']]
    BY <1>b, <2>1, <2>2
  <2> QED
    BY <1>b, <2>3, <2>4 DEF Served
<1> QED
  BY <1>1, <1>2, <1>3, <1>4, <1>5, <1>6, <1>7, <1>8, <1>9, <1>10, <1>11, <1>12, <1>13,
     <1>14 DEF Next, Rw_Step, Intr_Step, Dev_Step

\* No step panics.
LEMMA PanicStep ==
  ASSUME DriverInv, Next
  PROVE  NoPanic'
<1>0. NoPanic
  BY DEF DriverInv
<1>1. ASSUME NEW p \in Procs, rw_sleep(p) PROVE NoPanic'
  BY <1>0, <1>1 DEF rw_sleep, NoPanic
<1>2. ASSUME NEW p \in Procs, rw_format(p) PROVE NoPanic'
  BY <1>0, <1>2 DEF rw_format, NoPanic
<1>3. ASSUME NEW p \in Procs, rw_publish(p) PROVE NoPanic'
  BY <1>0, <1>3 DEF rw_publish, NoPanic
<1>4. ASSUME NEW p \in Procs, rw_again(p) PROVE NoPanic'
  BY <1>0, <1>4 DEF rw_again, NoPanic
<1>5. ASSUME NEW p \in Procs, rw_return(p) PROVE NoPanic'
  BY <1>0, <1>5, ReturnStep DEF NoPanic
<1>6. ASSUME NEW p \in Procs, kill(p) PROVE NoPanic'
  BY <1>0, <1>6 DEF kill, NoPanic
<1>7. ASSUME NEW p \in Procs, NEW w \in BOOLEAN, virtio_disk_rw(p, w) PROVE NoPanic'
  BY <1>0, <1>7 DEF virtio_disk_rw, NoPanic
<1>8. CASE intr_ack
  BY <1>0, <1>8 DEF intr_ack, NoPanic
<1>9. CASE intr_entry
  BY <1>0, <1>9, EntryStep DEF NoPanic
<1>10. CASE intr_return
  BY <1>0, <1>10 DEF intr_return, NoPanic
<1>11. CASE dev_take
  BY <1>0, <1>11 DEF dev_take, NoPanic
<1>12. CASE dev_irq
  BY <1>0, <1>12 DEF dev_irq, NoPanic
<1>13. ASSUME NEW j \in Desc, dev_transfer(j) PROVE NoPanic'
  BY <1>0, <1>13, TransferStep DEF NoPanic
<1>14. ASSUME NEW j \in Desc, dev_used(j) PROVE NoPanic'
  BY <1>0, <1>14 DEF dev_used, NoPanic
<1> QED
  BY <1>1, <1>2, <1>3, <1>4, <1>5, <1>6, <1>7, <1>8, <1>9, <1>10, <1>11, <1>12, <1>13,
     <1>14 DEF Next, Rw_Step, Intr_Step, Dev_Step

\* After virtio_disk_init() the table is free and the rings are empty.
LEMMA DriverInit ==
  ASSUME Init
  PROVE  DriverInv
<1>0. 0 \in Desc /\ RING \in Nat \ {0} /\ UMOD \in Nat \ {0} /\ NUM \in Nat
  BY Sizes DEF Desc
<1>1. Active = {}
  BY DEF Init, Active
<1>2. TypeOK
  <2>1. Zero \in [addr : Addr, wr : BOOLEAN, more : BOOLEAN, next : Desc]
    BY <1>0 DEF Zero, Addr
  <2>2. 0 \in 0..(UMOD - 1)
    BY <1>0
  <2> QED
    BY <1>0, <2>1, <2>2 DEF Init, TypeOK
<1>3. LockHeld
  BY NameAssumption DEF Init, LockHeld
<1>4. Descriptors
  <2>1. IsFiniteSet(Active) /\ Cardinality(Active) = 0
    BY <1>1, FS_EmptySet
  <2>2. Cardinality(free) = NUM
    <3>1. free = 0..(NUM - 1)
      BY DEF Init, Desc
    <3>2. Cardinality(0..(NUM - 1)) = IF 0 > NUM - 1 THEN 0 ELSE (NUM - 1) - 0 + 1
      BY <1>0, FS_Interval
    <3> QED
      BY <1>0, <3>1, <3>2
  <2> QED
    BY <1>0, <1>1, <2>1, <2>2 DEF Descriptors
<1>5. Requests
  BY <1>1 DEF Init, Requests
<1>6. Entries(seen, availidx) = {} /\ Entries(used_idx, usedidx) = {}
  <2>1. Pending(0, 0) = 0
    BY <1>0 DEF Pending
  <2>2. 0..(0 - 1) = {}
    OBVIOUS
  <2> QED
    BY <2>1, <2>2 DEF Init, Entries
<1>7. \A i \in Desc : work[i] = "none"
  BY DEF Init
<1>8. DeviceOwns /\ InOnePlace /\ Served /\ NoPanic
  BY <1>6, <1>7 DEF Init, DeviceOwns, WithDevice, InOnePlace, Served, NoPanic
<1> QED
  BY <1>2, <1>3, <1>4, <1>5, <1>8 DEF DriverInv

\* The invariant depends on nothing but the variables.
LEMMA DriverStutter ==
  ASSUME DriverInv, UNCHANGED vars
  PROVE  DriverInv'
<1>0. /\ TypeOK /\ LockHeld /\ Descriptors /\ Requests
      /\ DeviceOwns /\ InOnePlace /\ Served /\ NoPanic
  BY DEF DriverInv
<1>1. UNCHANGED <<desc, avail, availidx, used, usedidx, free, used_idx, info, status, bdisk,
                  write, head, moved, seen, work, raise, lock, pc, ipc, irq, panicked>>
  BY DEF vars, shared, driver, calls, device
<1>2. Active' = Active
  BY <1>1 DEF Active
<1>3. TypeOK' /\ LockHeld' /\ NoPanic'
  BY <1>0, <1>1 DEF TypeOK, LockHeld, NoPanic
<1>4. Descriptors' /\ Requests'
  BY <1>0, <1>1, <1>2, DescKept, RequestsKept
<1>5. /\ Entries(seen, availidx)' = Entries(seen, availidx)
      /\ \A e : AvailAt(e)' = AvailAt(e)
      /\ Entries(used_idx, usedidx)' = Entries(used_idx, usedidx)
      /\ \A e : UsedAt(e)' = UsedAt(e)
  BY <1>1, AvailKept, UsedKept
<1>6. InOnePlace' /\ Served'
  BY <1>0, <1>1, <1>5 DEF InOnePlace, Served
<1>7. WithDevice' = WithDevice
  BY <1>1, <1>5 DEF WithDevice
<1>8. DeviceOwns'
  BY <1>0, <1>1, <1>2, <1>7 DEF DeviceOwns, Owned
<1> QED
  BY <1>3, <1>4, <1>6, <1>8 DEF DriverInv
-----------------------------------------------------------------------------
(***************************************************************************)
(* Theorems.                                                               *)
(***************************************************************************)

\* Descriptors, rings and requests fit together in every reachable state: no
\* descriptor is leaked or shared, no ring entry is overwritten, nothing is
\* given back while the device may touch it, and no panic of virtio_disk.c is
\* reached, for every number of descriptors and every index width.
THEOREM DriverInvariant == Spec => []DriverInv
<1>1. ASSUME DriverInv, Next PROVE DriverInv'
  BY <1>1, TypeStep, LockStep, DescriptorsStep, RequestsStep, DeviceOwnsStep, PlaceStep,
     ServedStep, PanicStep DEF DriverInv
<1>2. DriverInv /\ [Next]_vars => DriverInv'
  BY <1>1, DriverStutter
<1> QED
  BY <1>2, DriverInit, PTL DEF Spec

\* A buffer is handed back only with its own block in it, or on the disk.
LEMMA TransferredStep ==
  ASSUME DriverInv, Transferred, Next
  PROVE  Transferred'
<1>0. TypeOK /\ Descriptors /\ Served /\ Transferred
  BY DEF DriverInv
<1>1. ASSUME NEW p \in Procs, rw_sleep(p) PROVE Transferred'
  <2>1. Active' = Active
    BY <1>0, <1>1, ActiveKept DEF rw_sleep, TypeOK, WakeFree
  <2> QED
    BY <1>0, <1>1, <2>1 DEF rw_sleep, Transferred, driver, calls, device
<1>2. ASSUME NEW p \in Procs, rw_format(p) PROVE Transferred'
  <2>1. PICK i \in free : head' = [head EXCEPT ![p] = i] /\ status' = [status EXCEPT ![i] = FALSE]
    BY <1>2, FormatStep
  <2>2. p \notin Active /\ Active' = Active \cup {p}
    BY <1>2, FormatRoom
  <2>3. bdisk' = [bdisk EXCEPT ![p] = TRUE] /\ moved' = moved
    BY <1>2 DEF rw_format, device
  <2>4. ASSUME NEW q \in Active', ~bdisk'[q] PROVE moved'[q] /\ status'[head'[q]]
    <3>1. q \in Active /\ q # p
      BY <1>0, <2>2, <2>3, <2>4 DEF TypeOK
    <3>2. head'[q] = head[q] /\ head[q] \in Desc /\ head[q] # i /\ bdisk'[q] = bdisk[q]
      BY <1>0, <2>1, <2>3, <3>1, Heads DEF TypeOK, Active
    <3> QED
      BY <1>0, <2>1, <2>3, <2>4, <3>1, <3>2 DEF Transferred, TypeOK
  <2> QED
    BY <2>4 DEF Transferred
<1>3. ASSUME NEW p \in Procs, rw_publish(p) PROVE Transferred'
  <2>1. Active' = Active
    BY <1>0, <1>3, ActiveKept DEF rw_publish, TypeOK
  <2> QED
    BY <1>0, <1>3, <2>1 DEF rw_publish, Transferred, driver, calls, device
<1>4. ASSUME NEW p \in Procs, rw_again(p) PROVE Transferred'
  <2>1. Active' = Active
    BY <1>0, <1>4, ActiveKept DEF rw_again, TypeOK
  <2> QED
    BY <1>0, <1>4, <2>1 DEF rw_again, Transferred, driver, calls, device
<1>5. ASSUME NEW p \in Procs, rw_return(p) PROVE Transferred'
  <2>1. Active' = Active \ {p}
    BY <1>5, ReturnStep
  <2>2. \A q \in Active : q # p => moved'[q] = moved[q] /\ head'[q] = head[q]
    BY <1>0, <1>5 DEF rw_return, TypeOK, Active
  <2>3. UNCHANGED <<bdisk, status>>
    BY <1>5 DEF rw_return
  <2> QED
    BY <1>0, <2>1, <2>2, <2>3 DEF Transferred
<1>6. ASSUME NEW p \in Procs, kill(p) PROVE Transferred'
  <2>1. Active' = Active
    BY <1>0, <1>6, ActiveKept DEF kill, TypeOK
  <2> QED
    BY <1>0, <1>6, <2>1 DEF kill, Transferred, driver, calls, device
<1>7. ASSUME NEW p \in Procs, NEW w \in BOOLEAN, virtio_disk_rw(p, w) PROVE Transferred'
  <2>1. Active' = Active
    BY <1>0, <1>7, ActiveKept DEF virtio_disk_rw, TypeOK
  <2> QED
    BY <1>0, <1>7, <2>1 DEF virtio_disk_rw, Transferred, driver, calls, device
<1>8. CASE intr_ack
  <2>1. Active' = Active
    BY <1>8 DEF intr_ack, Active
  <2> QED
    BY <1>0, <1>8, <2>1 DEF intr_ack, Transferred, driver, calls, device
<1>9. CASE intr_entry
  <2>1. PICK id \in Desc :
          /\ id = UsedAt(0) /\ 0 \in Entries(used_idx, usedidx) /\ Owned(id)
          /\ bdisk' = [bdisk EXCEPT ![info[id]] = FALSE]
          /\ pc' = [pc EXCEPT ![info[id]] = IF @ = "wait" THEN "woken" ELSE @]
    BY <1>9, EntryStep
  <2>2. Active' = Active
    BY <1>0, <2>1, ActiveKept DEF TypeOK, Owned
  <2>3. UNCHANGED <<status, head, moved>>
    BY <1>9 DEF intr_entry, calls, device
  <2>4. moved[info[id]] /\ status[head[info[id]]]
    BY <1>0, <2>1 DEF Served, Owned
  <2>5. ASSUME NEW q \in Active', ~bdisk'[q] PROVE moved'[q] /\ status'[head'[q]]
    <3>1. q \in Active
      BY <2>2
    <3>2. CASE q = info[id]
      BY <2>3, <2>4, <3>2
    <3>3. CASE q # info[id]
      <4>1. ~bdisk[q]
        BY <1>0, <2>1, <2>5, <3>1, <3>3 DEF TypeOK, Active
      <4> QED
        BY <1>0, <2>3, <3>1, <4>1 DEF Transferred
    <3> QED
      BY <3>2, <3>3
  <2> QED
    BY <2>5 DEF Transferred
<1>10. CASE intr_return
  <2>1. Active' = Active
    BY <1>10 DEF intr_return, Active
  <2> QED
    BY <1>0, <1>10, <2>1 DEF intr_return, Transferred, driver, calls, device
<1>11. CASE dev_take
  <2>1. Active' = Active
    BY <1>11 DEF dev_take, Active
  <2> QED
    BY <1>0, <1>11, <2>1 DEF dev_take, Transferred, driver, calls, device
<1>12. CASE dev_irq
  <2>1. Active' = Active
    BY <1>12 DEF dev_irq, Active
  <2> QED
    BY <1>0, <1>12, <2>1 DEF dev_irq, Transferred, driver, calls, device
<1>13. ASSUME NEW j \in Desc, dev_transfer(j) PROVE Transferred'
  <2>1. /\ moved' = [moved EXCEPT ![info[j]] = TRUE] /\ status' = [status EXCEPT ![j] = TRUE]
    BY <1>13, TransferStep
  <2>2. UNCHANGED <<bdisk, head>> /\ Active' = Active
    BY <1>13 DEF dev_transfer, calls, Active
  <2>3. ASSUME NEW q \in Active', ~bdisk'[q] PROVE moved'[q] /\ status'[head'[q]]
    <3>1. moved[q] /\ status[head[q]] /\ head[q] \in Desc /\ q \in Procs
      BY <1>0, <2>2, <2>3 DEF Transferred, TypeOK, Active
    <3> QED
      BY <1>0, <2>1, <2>2, <3>1 DEF TypeOK
  <2> QED
    BY <2>3 DEF Transferred
<1>14. ASSUME NEW j \in Desc, dev_used(j) PROVE Transferred'
  <2>1. Active' = Active
    BY <1>14 DEF dev_used, Active
  <2> QED
    BY <1>0, <1>14, <2>1 DEF dev_used, Transferred, driver, calls, device
<1> QED
  BY <1>1, <1>2, <1>3, <1>4, <1>5, <1>6, <1>7, <1>8, <1>9, <1>10, <1>11, <1>12, <1>13,
     <1>14 DEF Next, Rw_Step, Intr_Step, Dev_Step

\* Whatever order requests finish in, the process that virtio_disk_intr wakes
\* has its own block read or written.
THEOREM BlocksTransferred == Spec => []Transferred
<1>1. Init => Transferred
  BY DEF Init, Transferred, Active
<1>2. ASSUME DriverInv, Transferred, UNCHANGED vars PROVE Transferred'
  <2>1. UNCHANGED <<bdisk, moved, status, head>> /\ Active' = Active
    BY <1>2 DEF vars, driver, calls, device, Active
  <2> QED
    BY <1>2, <2>1 DEF Transferred
<1>3. DriverInv /\ Transferred /\ [Next]_vars => Transferred'
  BY <1>2, TransferredStep
<1> QED
  BY <1>1, <1>3, DriverInvariant, PTL DEF Spec

\* A process goes to sleep for descriptors, or stays so, only when too few are free.
LEMMA WakeupStep ==
  ASSUME DriverInv, DescWakeup, Next
  PROVE  DescWakeup'
<1>0. TypeOK /\ Descriptors /\ DescWakeup
  BY DEF DriverInv
<1>1. ASSUME NEW p \in Procs, rw_sleep(p) PROVE DescWakeup'
  <2>1. free' = free /\ Cardinality(free) < 3
    BY <1>1 DEF rw_sleep, driver
  <2> QED
    BY <1>0, <2>1, ActiveCount DEF DescWakeup
<1>2. ASSUME NEW p \in Procs, rw_format(p) PROVE DescWakeup'
  <2>1. \A q \in Procs : pc[q] # "nodesc"
    BY <1>0, <1>2 DEF rw_format, DescWakeup
  <2>2. pc' = [pc EXCEPT ![p] = "publish"]
    BY <1>2 DEF rw_format
  <2> QED
    BY <1>0, <2>1, <2>2 DEF DescWakeup, TypeOK
<1>3. ASSUME NEW p \in Procs, rw_publish(p) PROVE DescWakeup'
  BY <1>0, <1>3 DEF rw_publish, DescWakeup, TypeOK, driver, device
<1>4. ASSUME NEW p \in Procs, rw_again(p) PROVE DescWakeup'
  BY <1>0, <1>4 DEF rw_again, DescWakeup, TypeOK, driver, device
<1>5. ASSUME NEW p \in Procs, rw_return(p) PROVE DescWakeup'
  <2>1. \A q \in Procs : pc'[q] # "nodesc"
    BY <1>0, <1>5 DEF rw_return, WakeFree
  <2> QED
    BY <2>1 DEF DescWakeup
<1>6. ASSUME NEW p \in Procs, kill(p) PROVE DescWakeup'
  BY <1>0, <1>6 DEF kill, DescWakeup, TypeOK, driver, device
<1>7. ASSUME NEW p \in Procs, NEW w \in BOOLEAN, virtio_disk_rw(p, w) PROVE DescWakeup'
  BY <1>0, <1>7 DEF virtio_disk_rw, DescWakeup, TypeOK, driver, device
<1>8. CASE intr_ack
  BY <1>0, <1>8 DEF intr_ack, DescWakeup, TypeOK, driver, device
<1>9. CASE intr_entry
  <2>1. PICK id \in Desc : pc' = [pc EXCEPT ![info[id]] = IF @ = "wait" THEN "woken" ELSE @]
    BY <1>9, EntryStep
  <2>2. free' = free
    BY <1>9 DEF intr_entry
  <2> QED
    BY <1>0, <2>1, <2>2 DEF DescWakeup, TypeOK
<1>10. CASE intr_return
  BY <1>0, <1>10 DEF intr_return, DescWakeup, TypeOK, driver, device
<1>11. CASE dev_take
  BY <1>0, <1>11 DEF dev_take, DescWakeup, TypeOK, driver, device
<1>12. CASE dev_irq
  BY <1>0, <1>12 DEF dev_irq, DescWakeup, TypeOK, driver, device
<1>13. ASSUME NEW j \in Desc, dev_transfer(j) PROVE DescWakeup'
  BY <1>0, <1>13 DEF dev_transfer, DescWakeup, TypeOK, driver, device
<1>14. ASSUME NEW j \in Desc, dev_used(j) PROVE DescWakeup'
  BY <1>0, <1>14 DEF dev_used, DescWakeup, TypeOK, driver, device
<1> QED
  BY <1>1, <1>2, <1>3, <1>4, <1>5, <1>6, <1>7, <1>8, <1>9, <1>10, <1>11, <1>12, <1>13,
     <1>14 DEF Next, Rw_Step, Intr_Step, Dev_Step

\* The wakeup()s of free_desc() are enough: nobody stays asleep in
\* virtio_disk_rw while a request would fit.
THEOREM DescriptorsWaited == Spec => []DescWakeup
<1>1. Init => DescWakeup
  BY DEF Init, DescWakeup
<1>2. ASSUME DescWakeup, UNCHANGED vars PROVE DescWakeup'
  BY <1>2 DEF DescWakeup, vars, driver
<1>3. DriverInv /\ DescWakeup /\ [Next]_vars => DescWakeup'
  BY <1>2, WakeupStep
<1> QED
  BY <1>1, <1>3, DriverInvariant, PTL DEF Spec

\* No step loses a completion.
LEMMA SignalStep ==
  ASSUME DriverInv, CompletionSignalled, Next
  PROVE  CompletionSignalled'
<1>0. TypeOK /\ Requests /\ CompletionSignalled
  BY DEF DriverInv
<1>1. ASSUME NEW p \in Procs, rw_sleep(p) PROVE CompletionSignalled'
  BY <1>0, <1>1 DEF rw_sleep, CompletionSignalled, Requests, TypeOK, shared, driver,
     device, WakeFree
<1>2. ASSUME NEW p \in Procs, rw_format(p) PROVE CompletionSignalled'
  BY <1>0, <1>2 DEF rw_format, CompletionSignalled, Requests, TypeOK, device
<1>3. ASSUME NEW p \in Procs, rw_publish(p) PROVE CompletionSignalled'
  BY <1>0, <1>3 DEF rw_publish, CompletionSignalled, Requests, TypeOK, driver, device
<1>4. ASSUME NEW p \in Procs, rw_again(p) PROVE CompletionSignalled'
  BY <1>0, <1>4 DEF rw_again, CompletionSignalled, Requests, TypeOK, shared, driver,
     device
<1>5. ASSUME NEW p \in Procs, rw_return(p) PROVE CompletionSignalled'
  BY <1>0, <1>5 DEF rw_return, CompletionSignalled, Requests, TypeOK, WakeFree
<1>6. ASSUME NEW p \in Procs, kill(p) PROVE CompletionSignalled'
  BY <1>0, <1>6 DEF kill, CompletionSignalled, Requests, TypeOK, shared, driver, device
<1>7. ASSUME NEW p \in Procs, NEW w \in BOOLEAN, virtio_disk_rw(p, w) PROVE CompletionSignalled'
  BY <1>0, <1>7 DEF virtio_disk_rw, CompletionSignalled, Requests, TypeOK, shared,
     driver, device
<1>8. CASE intr_ack
  BY <1>0, <1>8 DEF intr_ack, CompletionSignalled, Requests, TypeOK, shared, driver,
     device
<1>9. CASE intr_entry
  <2>1. PICK id \in Desc :
          /\ Owned(id) /\ bdisk' = [bdisk EXCEPT ![info[id]] = FALSE]
          /\ pc' = [pc EXCEPT ![info[id]] = IF @ = "wait" THEN "woken" ELSE @]
    BY <1>9, EntryStep
  <2>2. ipc = "loop" /\ ipc' = ipc
    BY <1>9 DEF intr_entry
  <2>3. \A q \in Procs : pc'[q] = "wait" => bdisk'[q]
    BY <1>0, <2>1 DEF CompletionSignalled, TypeOK, Owned
  <2> QED
    BY <2>2, <2>3 DEF CompletionSignalled
<1>10. CASE intr_return
  BY <1>0, <1>10 DEF intr_return, CompletionSignalled, Requests, TypeOK, shared, driver,
     device
<1>11. CASE dev_take
  BY <1>0, <1>11 DEF dev_take, CompletionSignalled, Requests, TypeOK, shared, driver
<1>12. CASE dev_irq
  BY <1>0, <1>12 DEF dev_irq, CompletionSignalled, Requests, TypeOK, shared, driver
<1>13. ASSUME NEW j \in Desc, dev_transfer(j) PROVE CompletionSignalled'
  BY <1>0, <1>13 DEF dev_transfer, CompletionSignalled, Requests, TypeOK, shared
<1>14. ASSUME NEW j \in Desc, dev_used(j) PROVE CompletionSignalled'
  BY <1>0, <1>14 DEF dev_used, CompletionSignalled, Requests, TypeOK, driver
<1> QED
  BY <1>1, <1>2, <1>3, <1>4, <1>5, <1>6, <1>7, <1>8, <1>9, <1>10, <1>11, <1>12, <1>13,
     <1>14 DEF Next, Rw_Step, Intr_Step, Dev_Step

\* A completion the handler has not seen comes with an interrupt, however the
\* device's steps fall between the handler's, and nobody sleeps on a buffer
\* that was handed back.
THEOREM CompletionsSignalled == Spec => []CompletionSignalled
<1>1. Init => CompletionSignalled
  BY DEF Init, CompletionSignalled
<1>2. ASSUME CompletionSignalled, UNCHANGED vars PROVE CompletionSignalled'
  BY <1>2 DEF CompletionSignalled, vars, shared, driver, device
<1>3. DriverInv /\ CompletionSignalled /\ [Next]_vars => CompletionSignalled'
  BY <1>2, SignalStep
<1> QED
  BY <1>1, <1>3, DriverInvariant, PTL DEF Spec
=============================================================================
