---------------------------- MODULE ConsoleProofs ----------------------------
(***************************************************************************)
(* Theorems about Console, for any number of processes and any sizes of    *)
(* the rings, their indices and the clock.                                 *)
(***************************************************************************)
EXTENDS Console, TLAPS

-----------------------------------------------------------------------------
(***************************************************************************)
(* Arithmetic of indices that wrap.                                        *)
(***************************************************************************)

\* The sizes are positive.
LEMMA Sizes ==
  /\ INPUT_BUF \in Nat \ {0} /\ UART_TX_BUF_SIZE \in Nat \ {0} /\ UMOD \in Nat \ {0}
  /\ UMOD > INPUT_BUF /\ UMOD > UART_TX_BUF_SIZE /\ UMOD % INPUT_BUF = 0
  /\ TICKMOD \in Nat \ {0}
<1>1. INPUT_BUF \in Nat \ {0} /\ UART_TX_BUF_SIZE \in Nat \ {0}
  BY SizesAssumption
<1> QED
  BY <1>1, SizesAssumption

\* A remainder is what is left when a multiple is taken off.
LEMMA ModIs ==
  ASSUME NEW m \in Nat \ {0}, NEW q \in Int, NEW i \in 0..(m - 1)
  PROVE  (q * m + i) % m = i
<1> DEFINE a == q * m + i
           d == a \div m
<1>1. a \in Int /\ d \in Int /\ a % m \in 0..(m - 1) /\ a = d * m + (a % m)
  OBVIOUS
<1>2. (d - q) * m = i - (a % m)
  BY <1>1
<1>3. d - q < 1
  <2>1. SUFFICES ASSUME d - q >= 1 PROVE FALSE
    BY <1>1
  <2>2. (d - q) * m >= m
    BY <1>1, <2>1
  <2> QED
    BY <1>1, <1>2, <2>2
<1>4. d - q > -1
  <2>1. SUFFICES ASSUME d - q <= -1 PROVE FALSE
    BY <1>1
  <2>2. (d - q) * m <= -m
    BY <1>1, <2>1
  <2> QED
    BY <1>1, <1>2, <2>2
<1> QED
  BY <1>1, <1>3, <1>4

\* The remainder of a number between minus m and two times m.
LEMMA ModNear ==
  ASSUME NEW m \in Nat \ {0}, NEW x \in Int, x >= -m, x < 2 * m
  PROVE  /\ x % m = IF x < 0 THEN x + m ELSE IF x < m THEN x ELSE x - m
         /\ x % m \in 0..(m - 1)
<1>1. CASE x < 0
  <2>1. x = (-1) * m + (x + m) /\ x + m \in 0..(m - 1)
    BY <1>1
  <2>2. ((-1) * m + (x + m)) % m = x + m
    BY <2>1, ModIs
  <2> QED
    BY <1>1, <2>1, <2>2
<1>2. CASE x >= 0 /\ x < m
  BY <1>2
<1>3. CASE x >= m
  <2>1. x = 1 * m + (x - m) /\ x - m \in 0..(m - 1)
    BY <1>3
  <2>2. (1 * m + (x - m)) % m = x - m
    BY <2>1, ModIs
  <2> QED
    BY <1>3, <2>1, <2>2
<1> QED
  BY <1>1, <1>2, <1>3

\* The distance between two indices, and the index some places back.
LEMMA SubIs ==
  ASSUME NEW a \in 0..(UMOD - 1), NEW b \in 0..(UMOD - 1)
  PROVE  /\ Sub(a, b) = IF a >= b THEN a - b ELSE a - b + UMOD
         /\ Sub(a, b) \in 0..(UMOD - 1) /\ Sub(a, b) \in Nat
         /\ Sub(a, b) = 0 <=> a = b
<1>1. /\ UMOD \in Nat \ {0} /\ a - b \in Int
      /\ a - b >= -UMOD /\ a - b < 2 * UMOD /\ a - b < UMOD
  BY Sizes
<1>2. (a - b) % UMOD = IF a - b < 0 THEN a - b + UMOD ELSE IF a - b < UMOD THEN a - b ELSE a - b - UMOD
  BY <1>1, ModNear
<1>3. Sub(a, b) = IF a - b < 0 THEN a - b + UMOD ELSE a - b
  BY <1>1, <1>2 DEF Sub
<1> QED
  BY <1>1, <1>3

\* One more, with wrap-around.
LEMMA Increment ==
  ASSUME NEW a \in 0..(UMOD - 1)
  PROVE  /\ (a + 1) % UMOD = IF a = UMOD - 1 THEN 0 ELSE a + 1
         /\ (a + 1) % UMOD \in 0..(UMOD - 1)
<1> DEFINE x == a + 1
<1>1. UMOD \in Nat \ {0} /\ UMOD > 1 /\ x \in Int /\ x >= -UMOD /\ x < 2 * UMOD /\ x = a + 1
  BY Sizes
<1> HIDE DEF x
<1>2. x % UMOD = (IF x < 0 THEN x + UMOD ELSE IF x < UMOD THEN x ELSE x - UMOD) /\ x % UMOD \in 0..(UMOD - 1)
  BY <1>1, ModNear
<1>3. x % UMOD = IF a = UMOD - 1 THEN 0 ELSE a + 1
  BY <1>1, <1>2
<1> QED
  BY <1>2, <1>3 DEF x

\* What one more and one less do to a distance.
LEMMA SubStep ==
  ASSUME NEW a \in 0..(UMOD - 1), NEW b \in 0..(UMOD - 1)
  PROVE  /\ Sub(a, b) < UMOD - 1 => Sub((a + 1) % UMOD, b) = Sub(a, b) + 1
         /\ a # b => Sub(a, (b + 1) % UMOD) = Sub(a, b) - 1
         /\ a # b => Sub(Sub(a, 1), b) = Sub(a, b) - 1
         /\ Sub(a, Sub(a, b)) = b
<1>0. UMOD \in Nat \ {0} /\ UMOD > 1 /\ 1 \in 0..(UMOD - 1)
  BY Sizes
<1> DEFINE a1 == (a + 1) % UMOD
           b1 == (b + 1) % UMOD
           a0 == Sub(a, 1)
           s == Sub(a, b)
<1>1. /\ a1 = (IF a = UMOD - 1 THEN 0 ELSE a + 1) /\ a1 \in 0..(UMOD - 1)
      /\ b1 = (IF b = UMOD - 1 THEN 0 ELSE b + 1) /\ b1 \in 0..(UMOD - 1)
  BY Increment
<1>2. /\ a0 = (IF a >= 1 THEN a - 1 ELSE a - 1 + UMOD) /\ a0 \in 0..(UMOD - 1)
      /\ s = (IF a >= b THEN a - b ELSE a - b + UMOD) /\ s \in 0..(UMOD - 1)
  BY <1>0, SubIs
<1> HIDE DEF a1, b1, a0, s
<1>3. /\ Sub(a1, b) = IF a1 >= b THEN a1 - b ELSE a1 - b + UMOD
      /\ Sub(a, b1) = IF a >= b1 THEN a - b1 ELSE a - b1 + UMOD
      /\ Sub(a0, b) = IF a0 >= b THEN a0 - b ELSE a0 - b + UMOD
      /\ Sub(a, s) = IF a >= s THEN a - s ELSE a - s + UMOD
  BY ZenonT(60), <1>1, <1>2, SubIs
<1>4. /\ s < UMOD - 1 => Sub(a1, b) = s + 1
      /\ a # b => Sub(a, b1) = s - 1
      /\ a # b => Sub(a0, b) = s - 1
      /\ Sub(a, s) = b
  BY <1>0, <1>1, <1>2, <1>3
<1> QED
  BY <1>4 DEF a1, b1, a0, s

\* Indices wrap at a multiple of the size of the buffer.
LEMMA ModPeriod ==
  ASSUME NEW x \in Int
  PROVE  (x + UMOD) % INPUT_BUF = x % INPUT_BUF
<1>1. INPUT_BUF \in Nat \ {0} /\ UMOD \in Nat /\ UMOD % INPUT_BUF = 0
  BY Sizes
<1> DEFINE d == x \div INPUT_BUF
           i == x % INPUT_BUF
           m == UMOD \div INPUT_BUF
<1>2. /\ d \in Int /\ m \in Int /\ i \in 0..(INPUT_BUF - 1)
      /\ x = d * INPUT_BUF + i /\ UMOD = m * INPUT_BUF
  BY <1>1
<1> HIDE DEF d, i, m
<1>3. x + UMOD = (d + m) * INPUT_BUF + i /\ d + m \in Int
  BY <1>1, <1>2
<1>4. ((d + m) * INPUT_BUF + i) % INPUT_BUF = i
  BY <1>1, <1>2, <1>3, ModIs
<1> QED
  BY <1>3, <1>4 DEF i

\* Characters less than INPUT_BUF apart are in different places.
LEMMA ModDistinct ==
  ASSUME NEW x \in Int, NEW k \in 1..(INPUT_BUF - 1)
  PROVE  (x + k) % INPUT_BUF # x % INPUT_BUF
<1>1. INPUT_BUF \in Nat \ {0}
  BY Sizes
<1> DEFINE d == x \div INPUT_BUF
           i == x % INPUT_BUF
<1>2. d \in Int /\ i \in 0..(INPUT_BUF - 1) /\ x = d * INPUT_BUF + i
  BY <1>1
<1> HIDE DEF d, i
<1>3. CASE i + k < INPUT_BUF
  <2>1. x + k = d * INPUT_BUF + (i + k) /\ i + k \in 0..(INPUT_BUF - 1)
    BY <1>1, <1>2, <1>3
  <2>2. (d * INPUT_BUF + (i + k)) % INPUT_BUF = i + k
    BY <1>1, <1>2, <2>1, ModIs
  <2>3. (x + k) % INPUT_BUF = i + k
    BY <2>1, <2>2
  <2> QED
    BY <1>1, <1>2, <2>3 DEF i
<1>4. CASE i + k >= INPUT_BUF
  <2>1. /\ x + k = (d + 1) * INPUT_BUF + (i + k - INPUT_BUF)
        /\ i + k - INPUT_BUF \in 0..(INPUT_BUF - 1) /\ d + 1 \in Int
    BY <1>1, <1>2, <1>4
  <2>2. ((d + 1) * INPUT_BUF + (i + k - INPUT_BUF)) % INPUT_BUF = i + k - INPUT_BUF
    BY <1>1, <2>1, ModIs
  <2>3. (x + k) % INPUT_BUF = i + k - INPUT_BUF
    BY <2>1, <2>2
  <2> QED
    BY <1>1, <1>2, <2>3 DEF i
<1> QED
  BY <1>1, <1>2, <1>3, <1>4

\* The place of a character, counted from the first index, from the last, and
\* from an index that has moved on.
LEMMA Place ==
  ASSUME NEW a \in 0..(UMOD - 1), NEW b \in 0..(UMOD - 1)
  PROVE  /\ \A k \in Nat : (a + k) % INPUT_BUF \in 0..(INPUT_BUF - 1)
         /\ (a + Sub(b, a)) % INPUT_BUF = b % INPUT_BUF
         /\ \A j \in 1..Sub(b, a) : Sub(b, j) % INPUT_BUF = (a + (Sub(b, a) - j)) % INPUT_BUF
         /\ \A k \in Nat : (((a + 1) % UMOD) + k) % INPUT_BUF = (a + (k + 1)) % INPUT_BUF
<1>0. UMOD \in Nat \ {0} /\ INPUT_BUF \in Nat \ {0} /\ a \in Int /\ b \in Int
  BY Sizes
<1>1. ASSUME NEW k \in Nat PROVE (a + k) % INPUT_BUF \in 0..(INPUT_BUF - 1)
  BY <1>0
<1>2. Sub(b, a) = (IF b >= a THEN b - a ELSE b - a + UMOD) /\ Sub(b, a) \in 0..(UMOD - 1)
  BY SubIs
<1>3. (a + Sub(b, a)) % INPUT_BUF = b % INPUT_BUF
  <2>1. a + Sub(b, a) = b \/ a + Sub(b, a) = b + UMOD
    BY <1>0, <1>2
  <2> QED
    BY <1>0, <2>1, ModPeriod
<1>4. ASSUME NEW j \in 1..Sub(b, a)
      PROVE  Sub(b, j) % INPUT_BUF = (a + (Sub(b, a) - j)) % INPUT_BUF
  <2>1. j \in 0..(UMOD - 1) /\ j \in Int
    BY <1>0, <1>2
  <2>2. Sub(b, j) = IF b >= j THEN b - j ELSE b - j + UMOD
    BY <2>1, SubIs
  <2> DEFINE x == b - j
  <2>3. x \in Int /\ (Sub(b, j) = x \/ Sub(b, j) = x + UMOD)
    BY <1>0, <2>1, <2>2
  <2>4. a + (Sub(b, a) - j) = x \/ a + (Sub(b, a) - j) = x + UMOD
    BY <1>0, <1>2, <2>1
  <2> HIDE DEF x
  <2>5. (x + UMOD) % INPUT_BUF = x % INPUT_BUF
    BY <2>3, ModPeriod
  <2> QED
    BY <2>3, <2>4, <2>5
<1>5. ASSUME NEW k \in Nat
      PROVE  (((a + 1) % UMOD) + k) % INPUT_BUF = (a + (k + 1)) % INPUT_BUF
  <2>1. CASE (a + 1) % UMOD = a + 1
    <3>1. ((a + 1) % UMOD) + k = a + (k + 1)
      BY <1>0, <2>1
    <3> QED
      BY <3>1
  <2>2. CASE (a + 1) % UMOD = 0 /\ a = UMOD - 1
    <3>1. a + (k + 1) = k + UMOD /\ ((a + 1) % UMOD) + k = k
      BY <1>0, <2>2
    <3> QED
      BY <3>1, ModPeriod
  <2> QED
    BY <2>1, <2>2, Increment
<1> QED
  BY <1>1, <1>3, <1>4, <1>5

\* The next character goes to a place that no other one has, if there is room.
LEMMA FreePlace ==
  ASSUME NEW a \in 0..(UMOD - 1), NEW b \in 0..(UMOD - 1), Sub(b, a) < INPUT_BUF,
         NEW k \in 0..(Sub(b, a) - 1)
  PROVE  (a + k) % INPUT_BUF # b % INPUT_BUF
<1>0. UMOD \in Nat \ {0} /\ INPUT_BUF \in Nat \ {0} /\ Sub(b, a) \in Nat /\ k \in Nat
  BY Sizes, SubIs
<1>1. /\ a + k \in Int /\ Sub(b, a) - k \in 1..(INPUT_BUF - 1)
      /\ a + Sub(b, a) = (a + k) + (Sub(b, a) - k)
  BY <1>0
<1>2. ((a + k) + (Sub(b, a) - k)) % INPUT_BUF # (a + k) % INPUT_BUF
  BY <1>1, ModDistinct
<1>3. (a + Sub(b, a)) % INPUT_BUF = b % INPUT_BUF
  BY Place
<1> QED
  BY <1>1, <1>2, <1>3
-----------------------------------------------------------------------------
(***************************************************************************)
(* What the invariant says.                                                *)
(***************************************************************************)

\* The indices are in range, and so are their distances.
LEMMA Indices ==
  ASSUME TypeOK
  PROVE  /\ r \in 0..(UMOD - 1) /\ w \in 0..(UMOD - 1) /\ e \in 0..(UMOD - 1)
         /\ txr \in 0..(UMOD - 1) /\ txw \in 0..(UMOD - 1)
         /\ {Sub(e, w), Sub(w, r), Sub(e, r), Sub(txw, txr)} \subseteq 0..(UMOD - 1)
         /\ {Sub(e, w), Sub(w, r), Sub(e, r), Sub(txw, txr)} \subseteq Nat
<1>1. /\ r \in 0..(UMOD - 1) /\ w \in 0..(UMOD - 1) /\ e \in 0..(UMOD - 1)
      /\ txr \in 0..(UMOD - 1) /\ txw \in 0..(UMOD - 1)
  BY DEF TypeOK
<1> QED
  BY <1>1, SubIs

\* ^U rubs out all of the line that is still edited.
LEMMA RubOut ==
  ASSUME TypeOK, Rings
  PROVE  Unended = Sub(e, w)
<1> DEFINE N == {k \in 0..Sub(e, w) : \A j \in 1..k : buf[Sub(e, j) % INPUT_BUF] # Newline}
           s == Sub(e, w)
<1>1. s \in Nat
  BY Indices
<1>2. s \in N
  BY <1>1 DEF Rings
<1>3. \A k \in N : k \in Nat /\ k <= s
  BY <1>1
<1>4. \A k \in N : (\A m \in N : m <= k) => k = s
  BY <1>1, <1>2, <1>3
<1> HIDE DEF N, s
<1>5. (CHOOSE k \in N : \A m \in N : m <= k) = s
  BY <1>2, <1>3, <1>4
<1> QED
  BY <1>5 DEF Unended, N, s

\* The steps, with the processes and characters they are about.
LEMMA Actions ==
  ASSUME TypeOK, Next
  PROVE  \/ \E c \in Chars : Type(c) \/ consoleintr(c) \/ consoleintr_store(c)
         \/ Transmit \/ plic_claim \/ uartgetc \/ uartintr_tx
         \/ uartputc_sync \/ uartputc_sync_thr \/ clockintr
         \/ \E x \in Procs \cup {Intr} :
              uartstart_return(x) \/ uartstart_take(x) \/ uartstart_thr(x)
         \/ \E p \in Procs :
              \/ uartputc_full(p) \/ uartputc(p) \/ read_lock(p) \/ read_empty(p)
              \/ read_sleep(p) \/ read_eof(p) \/ read_char(p) \/ read_fault(p)
              \/ read_done(p) \/ ticks_sleep(p) \/ sleep_check(p) \/ usertrap_exit(p)
              \/ consolewrite(p) \/ kill(p)
              \/ \E len \in ReadLens : consoleread(p, len)
              \/ \E a \in SleepArgs : sys_sleep(p, a)
<1>1. /\ load.keys \subseteq Chars /\ load.write \subseteq Procs /\ load.read \subseteq Procs
      /\ load.sleep \subseteq Procs /\ load.kill \subseteq Procs
  <2>1. load \in [read : SUBSET Procs, write : SUBSET Procs, sleep : SUBSET Procs,
                  kill : SUBSET Procs, keys : SUBSET Chars]
    BY LoadsAssumption DEF TypeOK
  <2> QED
    BY <2>1
<1> QED
  BY <1>1 DEF Next, HandlerStep, KernelStep
-----------------------------------------------------------------------------
(***************************************************************************)
(* The invariant is kept.                                                  *)
(***************************************************************************)

\* Steps keep the types.
LEMMA TypeStep ==
  ASSUME ConsoleInv, Next
  PROVE  TypeOK'
<1>0. TypeOK /\ Rings /\ Locks
  BY DEF ConsoleInv
<1>1. ASSUME NEW c \in Chars, Type(c) PROVE TypeOK'
  BY <1>0, <1>1 DEF Type, TypeOK, consVars, txVars, clockVars, argVars
<1>2. CASE Transmit
  <2>1. fifo' \in Nat
    BY <1>0, <1>2 DEF Transmit, TypeOK
  <2>2. txirq' \in BOOLEAN
    BY <1>2 DEF Transmit
  <2> QED
    BY <1>0, <1>2, <2>1, <2>2 DEF Transmit, TypeOK, consVars, txVars, clockVars, argVars
<1>3. CASE plic_claim
  BY <1>0, <1>3 DEF plic_claim, TypeOK, consVars, txVars, clockVars, argVars, Goto
<1>4. CASE uartgetc
  BY <1>0, <1>4 DEF uartgetc, TypeOK, consVars, txVars, clockVars, argVars, Goto
<1>5. CASE uartintr_tx
  BY <1>0, <1>5 DEF uartintr_tx, TypeOK, consVars, uartVars, clockVars, argVars, Goto
<1>6. CASE uartputc_sync
  BY <1>0, <1>6 DEF uartputc_sync, TypeOK, consVars, txVars, uartVars, clockVars,
     argVars, Goto
<1>7. CASE uartputc_sync_thr
  <2>1. fifo' \in Nat /\ echo' \in Nat
    BY <1>0, <1>7 DEF uartputc_sync_thr, TypeOK, Locks, WriteTHR
  <2> QED
    BY <1>0, <1>7, <2>1 DEF uartputc_sync_thr, TypeOK, consVars, txVars, clockVars,
       argVars, Goto
<1>8. ASSUME NEW c \in Chars, consoleintr(c) PROVE TypeOK'
  <2>1. Unended = Sub(e, w)
    BY <1>0, RubOut
  <2>2. Unended \in Nat /\ Sub(e, Unended) \in 0..(UMOD - 1) /\ Sub(e, 1) \in 0..(UMOD - 1)
    <3>1. 1 \in 0..(UMOD - 1)
      BY Sizes
    <3> QED
      BY <1>0, <2>1, <3>1, Indices, SubIs, SubStep
  <2>3. e' \in 0..(UMOD - 1) /\ echo' \in Nat
    BY <1>0, <1>8, <2>2 DEF consoleintr, TypeOK
  <2> QED
    BY <1>0, <1>8, <2>3 DEF consoleintr, TypeOK, Goto, uartVars, txVars, argVars,
       clockVars
<1>9. ASSUME NEW c \in Chars, consoleintr_store(c) PROVE TypeOK'
  <2>1. (e + 1) % UMOD \in 0..(UMOD - 1)
    BY <1>0, Indices, Increment
  <2>2. e' \in 0..(UMOD - 1) /\ w' \in 0..(UMOD - 1)
    BY <1>0, <1>9, <2>1 DEF consoleintr_store, TypeOK
  <2>3. buf' \in [0..(INPUT_BUF - 1) -> Chars]
    BY <1>0, <1>9 DEF consoleintr_store, TypeOK
  <2>4. pc' \in [Procs \cup {Intr} -> {"user", "wlock", "wsleep", "rlock", "read", "rslept", "rsleep",
                  "rdone", "tested", "tsleep", "tcheck", "start", "thr", "idle", "rx", "cons",
                  "echo", "echo_thr", "tx"}]
    BY <1>0, <1>9 DEF consoleintr_store, TypeOK, Goto, Wake
  <2> QED
    BY <1>0, <1>9, <2>2, <2>3, <2>4 DEF consoleintr_store, TypeOK, uartVars, txVars, argVars, clockVars
<1>10. ASSUME NEW x \in Procs \cup {Intr}, uartstart_return(x) PROVE TypeOK'
  BY <1>0, <1>10 DEF uartstart_return, After, TypeOK, consVars, uartVars, clockVars,
     argVars, Goto
<1>11. ASSUME NEW x \in Procs \cup {Intr}, uartstart_take(x) PROVE TypeOK'
  <2>1. (txr + 1) % UMOD \in 0..(UMOD - 1)
    BY <1>0, Indices, Increment
  <2> QED
    BY <1>0, <1>11, <2>1 DEF uartstart_take, TypeOK, Wake, consVars, uartVars, argVars,
       clockVars
<1>12. ASSUME NEW x \in Procs \cup {Intr}, uartstart_thr(x) PROVE TypeOK'
  <2>1. fifo' \in Nat
    BY <1>0, <1>12 DEF uartstart_thr, TypeOK, WriteTHR
  <2> QED
    BY <1>0, <1>12, <2>1 DEF uartstart_thr, TypeOK, consVars, txVars, clockVars,
       argVars, Goto
<1>13. CASE clockintr
  <2>1. (ticks + 1) % TICKMOD \in 0..(TICKMOD - 1)
    BY <1>0, Sizes DEF TypeOK
  <2>2. elapsed' \in [Procs -> Nat] /\ late' \in [Procs -> Nat]
    <3>1. elapsed \in [Procs -> Nat] /\ late \in [Procs -> Nat]
      BY <1>0 DEF TypeOK
    <3>2. elapsed' = [p \in Procs |-> IF p \in Sleeping THEN elapsed[p] + 1 ELSE 0]
      BY <1>13 DEF clockintr
    <3>3. late' = [p \in Procs |-> IF pc[p] = "tcheck" THEN late[p] + 1 ELSE late[p]]
      BY <1>13 DEF clockintr
    <3>4. elapsed' \in [Procs -> Nat]
      BY <3>1, <3>2
    <3>5. late' \in [Procs -> Nat]
      BY <3>1, <3>3
    <3> QED
      BY <3>4, <3>5
  <2>3. pc' \in [Procs \cup {Intr} ->
                {"user", "wlock", "wsleep", "rlock", "read", "rslept", "rsleep", "rdone",
                 "tested", "tsleep", "tcheck", "start", "thr",
                 "idle", "rx", "cons", "echo", "echo_thr", "tx"}]
    BY <1>0, <1>13 DEF clockintr, TypeOK
  <2> QED
    BY <1>0, <1>13, <2>1, <2>2, <2>3 DEF clockintr, TypeOK, consVars, uartVars, txVars,
       argVars
<1>14. ASSUME NEW p \in Procs, uartputc_full(p) PROVE TypeOK'
  BY <1>0, <1>14 DEF uartputc_full, TypeOK, consVars, txVars, uartVars, clockVars,
     argVars, Goto
<1>15. ASSUME NEW p \in Procs, uartputc(p) PROVE TypeOK'
  <2>1. (txw + 1) % UMOD \in 0..(UMOD - 1)
    BY <1>0, Indices, Increment
  <2> QED
    BY <1>0, <1>15, <2>1 DEF uartputc, TypeOK, Goto, consVars, uartVars, argVars,
       clockVars
<1>16. ASSUME NEW p \in Procs, read_lock(p) PROVE TypeOK'
  BY <1>0, <1>16 DEF read_lock, TypeOK, consVars, txVars, uartVars, clockVars, argVars,
     Goto
<1>17. ASSUME NEW p \in Procs, read_empty(p) PROVE TypeOK'
  <2>0. Return(p) \/ (Goto(p, "rslept") /\ UNCHANGED <<consLock, target, n>>)
    BY <1>17, Zenon DEF read_empty
  <2>1. CASE Return(p)
    BY <1>0, <1>17, <2>1 DEF read_empty, TypeOK, consVars, txVars, uartVars, clockVars,
       Goto, Return
  <2>2. CASE Goto(p, "rslept") /\ UNCHANGED <<consLock, target, n>>
    BY <1>0, <1>17, <2>2 DEF read_empty, TypeOK, consVars, txVars, uartVars, clockVars,
       Goto
  <2> QED
    BY <2>0, <2>1, <2>2
<1>18. ASSUME NEW p \in Procs, read_sleep(p) PROVE TypeOK'
  BY <1>0, <1>18 DEF read_sleep, TypeOK, consVars, txVars, uartVars, clockVars, argVars,
     Goto
<1>19. ASSUME NEW p \in Procs, read_eof(p) PROVE TypeOK'
  <2>1. (r + 1) % UMOD \in 0..(UMOD - 1)
    BY <1>0, Indices, Increment
  <2>2. r' \in 0..(UMOD - 1)
    BY <1>0, <1>19, <2>1 DEF read_eof, TypeOK
  <2>3. n' \in [Procs -> Nat] /\ target' \in [Procs -> Nat]
    BY <1>0, <1>19 DEF read_eof, TypeOK, Return
  <2> QED
    BY <1>0, <1>19, <2>2, <2>3 DEF read_eof, TypeOK, Goto, Return, uartVars, txVars,
       clockVars
<1>20. ASSUME NEW p \in Procs, read_char(p) PROVE TypeOK'
  <2>1. (r + 1) % UMOD \in 0..(UMOD - 1)
    BY <1>0, Indices, Increment
  <2>2. r' \in 0..(UMOD - 1)
    BY <1>0, <1>20, <2>1 DEF read_char, TypeOK
  <2>3. n' \in [Procs -> Nat] /\ target' \in [Procs -> Nat]
    <3>1. n[p] - 1 \in Nat
      BY SMTT(30), <1>0, <1>20 DEF read_char, TypeOK
    <3> QED
      BY <1>0, <1>20, <3>1 DEF read_char, TypeOK
  <2> QED
    BY <1>0, <1>20, <2>2, <2>3 DEF read_char, TypeOK, Goto, uartVars, txVars, clockVars
<1>21. ASSUME NEW p \in Procs, read_fault(p) PROVE TypeOK'
  <2>1. (r + 1) % UMOD \in 0..(UMOD - 1)
    BY <1>0, Indices, Increment
  <2>2. r' \in 0..(UMOD - 1)
    BY <1>0, <1>21, <2>1 DEF read_fault, TypeOK
  <2>3. n' \in [Procs -> Nat] /\ target' \in [Procs -> Nat]
    BY <1>0, <1>21 DEF read_fault, TypeOK, Return
  <2> QED
    BY <1>0, <1>21, <2>2, <2>3 DEF read_fault, TypeOK, Goto, Return, uartVars, txVars,
       clockVars
<1>22. ASSUME NEW p \in Procs, read_done(p) PROVE TypeOK'
  BY <1>0, <1>22 DEF read_done, TypeOK, consVars, txVars, uartVars, clockVars, Goto,
     Return
<1>23. ASSUME NEW p \in Procs, ticks_sleep(p) PROVE TypeOK'
  BY <1>0, <1>23 DEF ticks_sleep, TypeOK, consVars, txVars, uartVars, clockVars,
     argVars, Goto
<1>24. ASSUME NEW p \in Procs, sleep_check(p) PROVE TypeOK'
  <2>1. 0 \in 0..(TICKMOD - 1)
    BY Sizes
  <2>2. \/ Goto(p, "tested") /\ UNCHANGED <<n, ticks0, elapsed, late>>
        \/ /\ Goto(p, "user") /\ n' = [n EXCEPT ![p] = 0] /\ ticks0' = [ticks0 EXCEPT ![p] = 0]
           /\ elapsed' = [elapsed EXCEPT ![p] = 0] /\ late' = [late EXCEPT ![p] = 0]
    BY <1>24, Zenon DEF sleep_check
  <2>3. /\ n' \in [Procs -> Nat] /\ ticks0' \in [Procs -> 0..(TICKMOD - 1)]
        /\ elapsed' \in [Procs -> Nat] /\ late' \in [Procs -> Nat]
    <3>1. CASE UNCHANGED <<n, ticks0, elapsed, late>>
      BY <1>0, <3>1 DEF TypeOK
    <3>2. CASE /\ n' = [n EXCEPT ![p] = 0] /\ ticks0' = [ticks0 EXCEPT ![p] = 0]
               /\ elapsed' = [elapsed EXCEPT ![p] = 0] /\ late' = [late EXCEPT ![p] = 0]
      BY <1>0, <2>1, <3>2 DEF TypeOK
    <3> QED
      BY <2>2, <3>1, <3>2
  <2>4. pc' = [pc EXCEPT ![p] = "tested"] \/ pc' = [pc EXCEPT ![p] = "user"]
    BY <2>2 DEF Goto
  <2> QED
    BY <1>0, <1>24, <2>3, <2>4 DEF sleep_check, TypeOK, consVars, uartVars, txVars
<1>25. ASSUME NEW p \in Procs, usertrap_exit(p) PROVE TypeOK'
  BY <1>0, <1>25 DEF usertrap_exit, TypeOK, consVars, txVars, uartVars, clockVars
<1>26. ASSUME NEW p \in Procs, consolewrite(p) PROVE TypeOK'
  BY <1>0, <1>26 DEF consolewrite, TypeOK, consVars, txVars, uartVars, clockVars,
     argVars, Goto
<1>27. ASSUME NEW p \in Procs, kill(p) PROVE TypeOK'
  BY <1>0, <1>27 DEF kill, TypeOK, consVars, txVars, uartVars, clockVars, Goto
<1>28. ASSUME NEW p \in Procs, NEW len \in ReadLens, consoleread(p, len) PROVE TypeOK'
  <2>1. len \in Nat
    BY SizesAssumption
  <2> QED
    BY <1>0, <1>28, <2>1 DEF consoleread, TypeOK, Goto, consVars, uartVars, txVars,
       clockVars
<1>29. ASSUME NEW p \in Procs, NEW a \in SleepArgs, sys_sleep(p, a) PROVE TypeOK'
  <2>1. a % TICKMOD \in Nat
    BY Sizes, SizesAssumption
  <2> QED
    BY <1>0, <1>29, <2>1 DEF sys_sleep, TypeOK, Goto, consVars, uartVars, txVars
<1> QED
  BY <1>0, <1>1, <1>2, <1>3, <1>4, <1>5, <1>6, <1>7, <1>8, <1>9, <1>10, <1>11, <1>12,
     <1>13, <1>14, <1>15, <1>16, <1>17, <1>18, <1>19, <1>20, <1>21, <1>22, <1>23, <1>24,
     <1>25, <1>26, <1>27, <1>28, <1>29, Actions

\* Steps keep the locks with who holds them.
LEMMA LocksStep ==
  ASSUME ConsoleInv, Next
  PROVE  Locks'
<1>0. TypeOK /\ Locks /\ Intr \notin Procs /\ None \notin Procs \cup {Intr}
  BY NamesAssumption DEF ConsoleInv
<1>1. ASSUME NEW c \in Chars, Type(c) PROVE Locks'
  BY <1>0, <1>1 DEF Type, TypeOK, Locks, After, consVars, txVars, clockVars, argVars
<1>2. CASE Transmit
  BY <1>0, <1>2 DEF Transmit, TypeOK, Locks, After, consVars, txVars, clockVars, argVars
<1>3. CASE plic_claim
  BY <1>0, <1>3 DEF plic_claim, TypeOK, Locks, After, consVars, txVars, clockVars,
     argVars, Goto
<1>4. CASE uartgetc
  BY <1>0, <1>4 DEF uartgetc, TypeOK, Locks, After, consVars, txVars, clockVars,
     argVars, Goto
<1>5. CASE uartintr_tx
  BY <1>0, <1>5 DEF uartintr_tx, TypeOK, Locks, After, consVars, uartVars, clockVars,
     argVars, Goto
<1>6. CASE uartputc_sync
  BY <1>0, <1>6 DEF uartputc_sync, TypeOK, Locks, After, consVars, txVars, uartVars,
     clockVars, argVars, Goto
<1>7. CASE uartputc_sync_thr
  BY <1>0, <1>7 DEF uartputc_sync_thr, TypeOK, Locks, After, consVars, txVars,
     clockVars, argVars, Goto, WriteTHR
<1>8. ASSUME NEW c \in Chars, consoleintr(c) PROVE Locks'
  BY <1>0, <1>8 DEF consoleintr, TypeOK, Locks, After, txVars, uartVars, clockVars,
     argVars, Goto
<1>9. ASSUME NEW c \in Chars, consoleintr_store(c) PROVE Locks'
  BY <1>0, <1>9 DEF consoleintr_store, TypeOK, Locks, After, txVars, uartVars,
     clockVars, argVars, Goto, Wake
<1>10. ASSUME NEW x \in Procs \cup {Intr}, uartstart_return(x) PROVE Locks'
  BY <1>0, <1>10 DEF uartstart_return, TypeOK, Locks, After, consVars, uartVars,
     clockVars, argVars, Goto
<1>11. ASSUME NEW x \in Procs \cup {Intr}, uartstart_take(x) PROVE Locks'
  BY <1>0, <1>11 DEF uartstart_take, TypeOK, Locks, After, consVars, uartVars,
     clockVars, argVars, Wake
<1>12. ASSUME NEW x \in Procs \cup {Intr}, uartstart_thr(x) PROVE Locks'
  BY <1>0, <1>12 DEF uartstart_thr, TypeOK, Locks, After, consVars, txVars, clockVars,
     argVars, Goto, WriteTHR
<1>13. CASE clockintr
  BY <1>0, <1>13 DEF clockintr, TypeOK, Locks, After, consVars, txVars, uartVars,
     argVars
<1>14. ASSUME NEW p \in Procs, uartputc_full(p) PROVE Locks'
  BY <1>0, <1>14 DEF uartputc_full, TypeOK, Locks, After, consVars, txVars, uartVars,
     clockVars, argVars, Goto
<1>15. ASSUME NEW p \in Procs, uartputc(p) PROVE Locks'
  BY <1>0, <1>15 DEF uartputc, TypeOK, Locks, After, consVars, uartVars, clockVars,
     argVars, Goto
<1>16. ASSUME NEW p \in Procs, read_lock(p) PROVE Locks'
  BY <1>0, <1>16 DEF read_lock, TypeOK, Locks, After, consVars, txVars, uartVars,
     clockVars, argVars, Goto
<1>17. ASSUME NEW p \in Procs, read_empty(p) PROVE Locks'
  <2>0. Return(p) \/ (Goto(p, "rslept") /\ UNCHANGED <<consLock, target, n>>)
    BY <1>17, Zenon DEF read_empty
  <2>1. CASE Return(p)
    BY <1>0, <1>17, <2>1 DEF read_empty, TypeOK, Locks, consVars, txVars, uartVars,
       clockVars, Goto, Return
  <2>2. CASE Goto(p, "rslept") /\ UNCHANGED <<consLock, target, n>>
    BY <1>0, <1>17, <2>2 DEF read_empty, TypeOK, Locks, consVars, txVars, uartVars,
       clockVars, Goto
  <2> QED
    BY <2>0, <2>1, <2>2
<1>18. ASSUME NEW p \in Procs, read_sleep(p) PROVE Locks'
  BY <1>0, <1>18 DEF read_sleep, TypeOK, Locks, After, consVars, txVars, uartVars,
     clockVars, argVars, Goto
<1>19. ASSUME NEW p \in Procs, read_eof(p) PROVE Locks'
  BY <1>0, <1>19 DEF read_eof, TypeOK, Locks, After, txVars, uartVars, clockVars, Goto,
     Return
<1>20. ASSUME NEW p \in Procs, read_char(p) PROVE Locks'
  BY <1>0, <1>20 DEF read_char, TypeOK, Locks, After, txVars, uartVars, clockVars, Goto
<1>21. ASSUME NEW p \in Procs, read_fault(p) PROVE Locks'
  BY <1>0, <1>21 DEF read_fault, TypeOK, Locks, After, txVars, uartVars, clockVars,
     Goto, Return
<1>22. ASSUME NEW p \in Procs, read_done(p) PROVE Locks'
  BY SMTT(30), <1>0, <1>22 DEF read_done, TypeOK, Locks, After, consVars, txVars, uartVars,
     clockVars, Goto, Return
<1>23. ASSUME NEW p \in Procs, ticks_sleep(p) PROVE Locks'
  BY <1>0, <1>23 DEF ticks_sleep, TypeOK, Locks, After, consVars, txVars, uartVars,
     clockVars, argVars, Goto
<1>24. ASSUME NEW p \in Procs, sleep_check(p) PROVE Locks'
  <2>1. pc' = [pc EXCEPT ![p] = "tested"] \/ pc' = [pc EXCEPT ![p] = "user"]
    BY <1>24 DEF sleep_check, Goto
  <2> QED
    BY ZenonT(60), <1>0, <1>24, <2>1 DEF sleep_check, TypeOK, Locks, txVars
<1>25. ASSUME NEW p \in Procs, usertrap_exit(p) PROVE Locks'
  BY <1>0, <1>25 DEF usertrap_exit, TypeOK, Locks, After, consVars, txVars, uartVars,
     clockVars
<1>26. ASSUME NEW p \in Procs, consolewrite(p) PROVE Locks'
  BY <1>0, <1>26 DEF consolewrite, TypeOK, Locks, After, consVars, txVars, uartVars,
     clockVars, argVars, Goto
<1>27. ASSUME NEW p \in Procs, kill(p) PROVE Locks'
  BY <1>0, <1>27 DEF kill, TypeOK, Locks, After, consVars, txVars, uartVars, clockVars,
     Goto
<1>28. ASSUME NEW p \in Procs, NEW len \in ReadLens, consoleread(p, len) PROVE Locks'
  BY <1>0, <1>28 DEF consoleread, TypeOK, Locks, After, consVars, txVars, uartVars,
     clockVars, Goto
<1>29. ASSUME NEW p \in Procs, NEW a \in SleepArgs, sys_sleep(p, a) PROVE Locks'
  BY <1>0, <1>29 DEF sys_sleep, TypeOK, Locks, After, consVars, txVars, uartVars, Goto
<1> QED
  BY <1>0, <1>1, <1>2, <1>3, <1>4, <1>5, <1>6, <1>7, <1>8, <1>9, <1>10, <1>11, <1>12,
     <1>13, <1>14, <1>15, <1>16, <1>17, <1>18, <1>19, <1>20, <1>21, <1>22, <1>23, <1>24,
     <1>25, <1>26, <1>27, <1>28, <1>29, Actions

\* What a step leaves of the rings stays in order.
LEMMA RingsSame ==
  ASSUME Rings, UNCHANGED <<buf, r, w, e, txr, txw>>
  PROVE  Rings'
BY DEF Rings

\* Steps keep the rings in order.
LEMMA RingsStep ==
  ASSUME ConsoleInv, Next
  PROVE  Rings'
<1>0. TypeOK /\ Rings
  BY DEF ConsoleInv
<1> USE DEF Rings
<1>1. /\ UMOD \in Nat \ {0} /\ INPUT_BUF \in Nat \ {0} /\ UART_TX_BUF_SIZE \in Nat \ {0}
      /\ UMOD > INPUT_BUF /\ UMOD > UART_TX_BUF_SIZE
  BY Sizes
<1>2. /\ r \in 0..(UMOD - 1) /\ w \in 0..(UMOD - 1) /\ e \in 0..(UMOD - 1)
      /\ txr \in 0..(UMOD - 1) /\ txw \in 0..(UMOD - 1)
      /\ Sub(e, w) \in Nat /\ Sub(w, r) \in Nat /\ Sub(e, r) \in Nat /\ Sub(txw, txr) \in Nat
  BY <1>0, Indices
<1>3. /\ Sub(w, w) = 0
      /\ Sub(e, w) = 0 <=> e = w
      /\ Sub(e, r) = 0 <=> e = r
      /\ Sub(w, r) = 0 <=> w = r
  BY <1>2, SubIs
<1>4. ASSUME NEW c \in Chars, consoleintr(c) PROVE Rings'
  <2>0. UNCHANGED <<buf, r, w, txr, txw>>
    BY <1>4 DEF consoleintr, txVars
  <2>1. Unended = Sub(e, w) /\ Sub(e, Sub(e, w)) = w
    BY <1>0, <1>2, RubOut, SubStep
  <2>2. e' = e \/ e' = w \/ (e # w /\ e' = Sub(e, 1))
    BY <1>4, <2>1 DEF consoleintr
  <2>3. CASE e' = e
    BY <1>0, <2>0, <2>3, RingsSame
  <2>4. CASE e' = w
    BY <1>0, <1>1, <1>2, <1>3, <2>0, <2>4
  <2>5. CASE e # w /\ e' = Sub(e, 1)
    <3>1. e # r
      BY <1>0, <1>2, <1>3, <2>5
    <3>2. Sub(e', w) = Sub(e, w) - 1 /\ Sub(e', r) = Sub(e, r) - 1
      BY <1>2, <2>5, <3>1, SubStep
    <3>3. e' \in 0..(UMOD - 1)
      <4>1. 1 \in 0..(UMOD - 1)
        BY <1>1
      <4> QED
        BY <1>2, <2>5, <4>1, SubIs
    <3>4. ASSUME NEW j \in 1..Sub(e', w) PROVE buf[Sub(e', j) % INPUT_BUF] # Newline
      <4>1. j + 1 \in 1..Sub(e, w) /\ (Sub(e, w) - 1) - j = Sub(e, w) - (j + 1)
        BY <1>2, <3>2
      <4>2. Sub(e', j) % INPUT_BUF = (w + (Sub(e', w) - j)) % INPUT_BUF
        BY <1>2, <3>3, <3>4, Place
      <4>3. Sub(e, j + 1) % INPUT_BUF = (w + (Sub(e, w) - (j + 1))) % INPUT_BUF
        BY <1>2, <4>1, Place
      <4>4. Sub(e', j) % INPUT_BUF = Sub(e, j + 1) % INPUT_BUF
        BY <3>2, <4>1, <4>2, <4>3
      <4> QED
        BY <1>0, <4>1, <4>4
    <3> QED
      BY <1>0, <1>1, <1>2, <2>0, <3>2, <3>4
  <2> QED
    BY <2>2, <2>3, <2>4, <2>5
<1>5. ASSUME NEW c \in Chars, consoleintr_store(c) PROVE Rings'
  <2>0. UNCHANGED <<r, txr, txw>>
    BY <1>5 DEF consoleintr_store, txVars
  <2>1. CASE ~Stores(c)
    BY <1>0, <1>5, <2>0, <2>1, RingsSame DEF consoleintr_store
  <2>2. CASE Stores(c)
    <3> DEFINE e1 == (e + 1) % UMOD
    <3>1. buf' = [buf EXCEPT ![e % INPUT_BUF] = c] /\ e' = e1 /\ w' = IF Ends(c) THEN e1 ELSE w
      BY <1>5, <2>2 DEF consoleintr_store
    <3>2. e1 \in 0..(UMOD - 1)
      BY <1>2, Increment
    <3>3. Sub(e, r) < INPUT_BUF /\ Sub(e, w) < INPUT_BUF
      BY <1>0, <1>1, <1>2, <2>2 DEF Stores, Room
    <3>4. Sub(e1, r) = Sub(e, r) + 1 /\ Sub(e1, w) = Sub(e, w) + 1
      BY <1>1, <1>2, <3>3, SubStep
    <3>5. Sub(e1, e1) = 0
      BY <3>2, SubIs
    <3> HIDE DEF e1
    <3>6. CASE Ends(c)
      <4>1. w' = e1
        BY <3>1, <3>6
      <4> QED
        BY <1>0, <1>1, <1>2, <2>0, <3>1, <3>3, <3>4, <3>5, <4>1
    <3>7. CASE ~Ends(c)
      <4>1. w' = w /\ c # Newline /\ Sub(e, r) + 1 # INPUT_BUF
        BY <3>1, <3>7 DEF Ends
      <4>2. ASSUME NEW j \in 1..Sub(e1, w) PROVE buf'[Sub(e1, j) % INPUT_BUF] # Newline
        <5>1. Sub(e1, j) % INPUT_BUF = (w + (Sub(e1, w) - j)) % INPUT_BUF
          BY <1>2, <3>2, Place
        <5>2. DOMAIN buf = 0..(INPUT_BUF - 1) /\ e % INPUT_BUF \in DOMAIN buf
          <6>1. DOMAIN buf = 0..(INPUT_BUF - 1)
            BY <1>0 DEF TypeOK
          <6>2. e % INPUT_BUF \in 0..(INPUT_BUF - 1)
            BY <1>1, <1>2
          <6> QED
            BY <6>1, <6>2
        <5>3. CASE j = 1
          <6>1. Sub(e1, w) - j = Sub(e, w)
            BY <1>2, <3>4, <5>3
          <6>2. Sub(e1, j) % INPUT_BUF = e % INPUT_BUF
            BY <1>2, <5>1, <6>1, Place
          <6> QED
            BY <3>1, <4>1, <5>2, <6>2
        <5>4. CASE j # 1
          <6> DEFINE i == j - 1
          <6>1. i \in 1..Sub(e, w) /\ Sub(e1, w) - j = Sub(e, w) - i /\ Sub(e, w) - i \in 0..(Sub(e, w) - 1)
            BY <1>2, <3>4, <4>2, <5>4
          <6> HIDE DEF i
          <6>2. Sub(e, i) % INPUT_BUF = (w + (Sub(e, w) - i)) % INPUT_BUF
            BY <1>2, <6>1, Place
          <6>3. (w + (Sub(e, w) - i)) % INPUT_BUF # e % INPUT_BUF
            BY <1>2, <3>3, <6>1, FreePlace
          <6>4. buf[Sub(e, i) % INPUT_BUF] # Newline
            BY <1>0, <6>1
          <6>5. Sub(e1, j) % INPUT_BUF = Sub(e, i) % INPUT_BUF
            BY <5>1, <6>1, <6>2
          <6>6. (w + (Sub(e, w) - i)) % INPUT_BUF \in DOMAIN buf
            <7>1. Sub(e, w) - i \in Nat
              BY <1>2, <6>1
            <7> QED
              BY <1>2, <5>2, <7>1, Place
          <6> QED
            BY <3>1, <5>2, <6>2, <6>3, <6>4, <6>5, <6>6
        <5> QED
          BY <5>3, <5>4
      <4> QED
        BY <1>0, <1>1, <1>2, <2>0, <3>1, <3>3, <3>4, <4>1, <4>2
    <3> QED
      BY <3>6, <3>7
  <2> QED
    BY <2>1, <2>2
<1>6. ASSUME NEW p \in Procs, read_eof(p) \/ read_char(p) \/ read_fault(p) PROVE Rings'
  <2> DEFINE r1 == (r + 1) % UMOD
  <2>1. UNCHANGED <<buf, w, e, txr, txw>> /\ r # w /\ (r' = r \/ r' = r1)
    BY <1>6 DEF read_eof, read_char, read_fault, txVars
  <2>2. e # r
    BY <1>0, <1>2, <1>3, <2>1
  <2>3. Sub(w, r1) = Sub(w, r) - 1 /\ Sub(e, r1) = Sub(e, r) - 1
    BY <1>2, <2>1, <2>2, SubStep
  <2> HIDE DEF r1
  <2>4. CASE r' = r
    BY <1>0, <2>1, <2>4, RingsSame
  <2>5. CASE r' = r1
    BY <1>0, <1>1, <1>2, <2>1, <2>3, <2>5
  <2> QED
    BY <2>1, <2>4, <2>5
<1>7. ASSUME NEW x \in Procs \cup {Intr}, uartstart_take(x) PROVE Rings'
  <2> DEFINE x1 == (txr + 1) % UMOD
  <2>1. UNCHANGED <<buf, r, w, e, txw>> /\ txr # txw /\ txr' = x1
    BY <1>7 DEF uartstart_take, consVars
  <2>2. Sub(txw, x1) = Sub(txw, txr) - 1
    BY <1>2, <2>1, SubStep
  <2> HIDE DEF x1
  <2> QED
    BY <1>0, <1>1, <1>2, <2>1, <2>2
<1>8. ASSUME NEW p \in Procs, uartputc(p) PROVE Rings'
  <2> DEFINE x1 == (txw + 1) % UMOD
  <2>1. UNCHANGED <<buf, r, w, e, txr>> /\ Sub(txw, txr) # UART_TX_BUF_SIZE /\ txw' = x1
    BY <1>8 DEF uartputc, consVars
  <2>2. Sub(txw, txr) < UART_TX_BUF_SIZE
    BY <1>0, <1>1, <1>2, <2>1
  <2>3. Sub(x1, txr) = Sub(txw, txr) + 1
    BY <1>1, <1>2, <2>2, SubStep
  <2> HIDE DEF x1
  <2> QED
    BY <1>0, <1>1, <1>2, <2>1, <2>2, <2>3
<1>9. CASE UNCHANGED <<buf, r, w, e, txr, txw>>
  BY <1>0, <1>9, RingsSame
<1> QED
  <2> USE DEF consVars, txVars
  <2>1. ASSUME NEW c \in Chars, Type(c) PROVE UNCHANGED <<buf, r, w, e, txr, txw>>
    BY <2>1 DEF Type
  <2>2. ASSUME Transmit \/ plic_claim \/ uartgetc \/ uartintr_tx \/ uartputc_sync \/ uartputc_sync_thr \/ clockintr
        PROVE  UNCHANGED <<buf, r, w, e, txr, txw>>
    BY <2>2 DEF Transmit, plic_claim, uartgetc, uartintr_tx, uartputc_sync,
       uartputc_sync_thr, clockintr
  <2>3. ASSUME NEW x \in Procs \cup {Intr}, uartstart_return(x) \/ uartstart_thr(x)
        PROVE  UNCHANGED <<buf, r, w, e, txr, txw>>
    BY <2>3 DEF uartstart_return, uartstart_thr
  <2>4. ASSUME NEW p \in Procs,
               \/ uartputc_full(p) \/ read_lock(p) \/ read_empty(p) \/ read_sleep(p) \/ read_done(p)
               \/ ticks_sleep(p) \/ sleep_check(p) \/ usertrap_exit(p) \/ consolewrite(p) \/ kill(p)
        PROVE  UNCHANGED <<buf, r, w, e, txr, txw>>
    BY <2>4 DEF uartputc_full, read_lock, read_empty, read_sleep, read_done,
       ticks_sleep, sleep_check, 
       usertrap_exit, consolewrite, kill
  <2>5. ASSUME NEW p \in Procs, NEW len \in ReadLens, consoleread(p, len)
        PROVE  UNCHANGED <<buf, r, w, e, txr, txw>>
    BY <2>5 DEF consoleread
  <2>6. ASSUME NEW p \in Procs, NEW a \in SleepArgs, sys_sleep(p, a)
        PROVE  UNCHANGED <<buf, r, w, e, txr, txw>>
    BY <2>6 DEF sys_sleep
  <2> HIDE DEF Rings
  <2> QED
    BY <1>0, <1>4, <1>5, <1>6, <1>7, <1>8, <1>9, <2>1, <2>2, <2>3, <2>4, <2>5, <2>6, Actions

\* Steps keep what is left of the reads.
LEMMA ReadsStep ==
  ASSUME ConsoleInv, Next
  PROVE  Reads'
<1>0. TypeOK /\ Locks /\ Reads
  BY DEF ConsoleInv
<1>1. ASSUME NEW c \in Chars, Type(c) PROVE Reads'
  BY <1>0, <1>1 DEF Type, TypeOK, Locks, Reads, After, consVars, txVars, clockVars,
     argVars
<1>2. CASE Transmit
  BY <1>0, <1>2 DEF Transmit, TypeOK, Locks, Reads, After, consVars, txVars, clockVars,
     argVars
<1>3. CASE plic_claim
  BY <1>0, <1>3 DEF plic_claim, TypeOK, Locks, Reads, After, consVars, txVars,
     clockVars, argVars, Goto
<1>4. CASE uartgetc
  BY <1>0, <1>4 DEF uartgetc, TypeOK, Locks, Reads, After, consVars, txVars, clockVars,
     argVars, Goto
<1>5. CASE uartintr_tx
  BY <1>0, <1>5 DEF uartintr_tx, TypeOK, Locks, Reads, After, consVars, uartVars,
     clockVars, argVars, Goto
<1>6. CASE uartputc_sync
  BY <1>0, <1>6 DEF uartputc_sync, TypeOK, Locks, Reads, After, consVars, txVars,
     uartVars, clockVars, argVars, Goto
<1>7. CASE uartputc_sync_thr
  BY <1>0, <1>7 DEF uartputc_sync_thr, TypeOK, Locks, Reads, After, consVars, txVars,
     clockVars, argVars, Goto, WriteTHR
<1>8. ASSUME NEW c \in Chars, consoleintr(c) PROVE Reads'
  BY <1>0, <1>8 DEF consoleintr, TypeOK, Locks, Reads, After, txVars, uartVars,
     clockVars, argVars, Goto
<1>9. ASSUME NEW c \in Chars, consoleintr_store(c) PROVE Reads'
  BY SMTT(30), <1>0, <1>9 DEF consoleintr_store, TypeOK, Locks, Reads, After, txVars, uartVars,
     clockVars, argVars, Goto, Wake
<1>10. ASSUME NEW x \in Procs \cup {Intr}, uartstart_return(x) PROVE Reads'
  BY <1>0, <1>10 DEF uartstart_return, TypeOK, Locks, Reads, After, consVars, uartVars,
     clockVars, argVars, Goto
<1>11. ASSUME NEW x \in Procs \cup {Intr}, uartstart_take(x) PROVE Reads'
  BY <1>0, <1>11 DEF uartstart_take, TypeOK, Locks, Reads, After, consVars, uartVars,
     clockVars, argVars, Wake
<1>12. ASSUME NEW x \in Procs \cup {Intr}, uartstart_thr(x) PROVE Reads'
  BY <1>0, <1>12 DEF uartstart_thr, TypeOK, Locks, Reads, After, consVars, txVars,
     clockVars, argVars, Goto, WriteTHR
<1>13. CASE clockintr
  BY <1>0, <1>13 DEF clockintr, TypeOK, Locks, Reads, After, consVars, txVars, uartVars,
     argVars
<1>14. ASSUME NEW p \in Procs, uartputc_full(p) PROVE Reads'
  BY <1>0, <1>14 DEF uartputc_full, TypeOK, Locks, Reads, After, consVars, txVars,
     uartVars, clockVars, argVars, Goto
<1>15. ASSUME NEW p \in Procs, uartputc(p) PROVE Reads'
  BY <1>0, <1>15 DEF uartputc, TypeOK, Locks, Reads, After, consVars, uartVars,
     clockVars, argVars, Goto
<1>16. ASSUME NEW p \in Procs, read_lock(p) PROVE Reads'
  BY <1>0, <1>16 DEF read_lock, TypeOK, Locks, Reads, After, consVars, txVars, uartVars,
     clockVars, argVars, Goto
<1>17. ASSUME NEW p \in Procs, read_empty(p) PROVE Reads'
  <2>0. Return(p) \/ (Goto(p, "rslept") /\ UNCHANGED <<consLock, target, n>>)
    BY <1>17, Zenon DEF read_empty
  <2>1. CASE Return(p)
    BY <1>0, <1>17, <2>1 DEF read_empty, TypeOK, Reads, consVars, txVars, uartVars,
       clockVars, Goto, Return
  <2>2. CASE Goto(p, "rslept") /\ UNCHANGED <<consLock, target, n>>
    BY <1>0, <1>17, <2>2 DEF read_empty, TypeOK, Reads, consVars, txVars, uartVars,
       clockVars, Goto
  <2> QED
    BY <2>0, <2>1, <2>2
<1>18. ASSUME NEW p \in Procs, read_sleep(p) PROVE Reads'
  BY <1>0, <1>18 DEF read_sleep, TypeOK, Locks, Reads, After, consVars, txVars,
     uartVars, clockVars, argVars, Goto
<1>19. ASSUME NEW p \in Procs, read_eof(p) PROVE Reads'
  BY <1>0, <1>19 DEF read_eof, TypeOK, Locks, Reads, After, txVars, uartVars, clockVars,
     Goto, Return
<1>20. ASSUME NEW p \in Procs, read_char(p) PROVE Reads'
  <2>1. n[p] \in Nat /\ target[p] \in Nat /\ n[p] <= target[p] /\ pc[p] = "read"
    BY <1>0, <1>20 DEF read_char, TypeOK, Reads
  <2>2. n[p] - 1 <= target[p]
    BY <2>1
  <2>3. n' = [n EXCEPT ![p] = n[p] - 1] /\ target' = target
    BY <1>20 DEF read_char
  <2>4. pc' = [pc EXCEPT ![p] = "rdone"] \/ pc' = [pc EXCEPT ![p] = "read"]
    BY <1>20 DEF read_char, Goto
  <2> QED
    BY <1>0, <2>2, <2>3, <2>4 DEF TypeOK, Reads
<1>21. ASSUME NEW p \in Procs, read_fault(p) PROVE Reads'
  BY <1>0, <1>21 DEF read_fault, TypeOK, Locks, Reads, After, txVars, uartVars,
     clockVars, Goto, Return
<1>22. ASSUME NEW p \in Procs, read_done(p) PROVE Reads'
  BY <1>0, <1>22 DEF read_done, TypeOK, Locks, Reads, After, consVars, txVars, uartVars,
     clockVars, Goto, Return
<1>23. ASSUME NEW p \in Procs, ticks_sleep(p) PROVE Reads'
  BY <1>0, <1>23 DEF ticks_sleep, TypeOK, Locks, Reads, After, consVars, txVars,
     uartVars, clockVars, argVars, Goto
<1>24. ASSUME NEW p \in Procs, sleep_check(p) PROVE Reads'
  <2>1. \/ Goto(p, "tested") /\ UNCHANGED <<n, ticks0, elapsed, late>>
        \/ /\ Goto(p, "user") /\ n' = [n EXCEPT ![p] = 0]
           /\ ticks0' = [ticks0 EXCEPT ![p] = 0] /\ elapsed' = [elapsed EXCEPT ![p] = 0]
    BY <1>24, Zenon DEF sleep_check
  <2>2. pc' = [pc EXCEPT ![p] = "tested"] \/ pc' = [pc EXCEPT ![p] = "user"]
    BY <2>1 DEF Goto
  <2> QED
    BY <1>0, <1>24, <2>1, <2>2 DEF sleep_check, TypeOK, Reads, consVars, txVars,
       uartVars
<1>25. ASSUME NEW p \in Procs, usertrap_exit(p) PROVE Reads'
  BY <1>0, <1>25 DEF usertrap_exit, TypeOK, Locks, Reads, After, consVars, txVars,
     uartVars, clockVars
<1>26. ASSUME NEW p \in Procs, consolewrite(p) PROVE Reads'
  BY <1>0, <1>26 DEF consolewrite, TypeOK, Locks, Reads, After, consVars, txVars,
     uartVars, clockVars, argVars, Goto
<1>27. ASSUME NEW p \in Procs, kill(p) PROVE Reads'
  BY <1>0, <1>27 DEF kill, TypeOK, Locks, Reads, After, consVars, txVars, uartVars,
     clockVars, Goto
<1>28. ASSUME NEW p \in Procs, NEW len \in ReadLens, consoleread(p, len) PROVE Reads'
  <2>1. len \in Nat
    BY SizesAssumption
  <2> QED
    BY SMTT(30), <1>0, <1>28, <2>1 DEF consoleread, TypeOK, Reads, Goto
<1>29. ASSUME NEW p \in Procs, NEW a \in SleepArgs, sys_sleep(p, a) PROVE Reads'
  BY <1>0, <1>29 DEF sys_sleep, TypeOK, Locks, Reads, After, consVars, txVars, uartVars,
     Goto
<1> QED
  BY <1>0, <1>1, <1>2, <1>3, <1>4, <1>5, <1>6, <1>7, <1>8, <1>9, <1>10, <1>11, <1>12,
     <1>13, <1>14, <1>15, <1>16, <1>17, <1>18, <1>19, <1>20, <1>21, <1>22, <1>23, <1>24,
     <1>25, <1>26, <1>27, <1>28, <1>29, Actions

\* Who sleeps has nothing to read, and no room to write.
LEMMA NotMissedStep ==
  ASSUME ConsoleInv, Next
  PROVE  NotMissed'
<1>0. TypeOK /\ Locks /\ NotMissed /\ Intr \notin Procs
  BY NamesAssumption DEF ConsoleInv
<1>1. ASSUME NEW c \in Chars, Type(c) PROVE NotMissed'
  BY <1>0, <1>1 DEF Type, TypeOK, Locks, NotMissed, After, consVars, txVars, clockVars,
     argVars
<1>2. CASE Transmit
  BY <1>0, <1>2 DEF Transmit, TypeOK, Locks, NotMissed, After, consVars, txVars,
     clockVars, argVars
<1>3. CASE plic_claim
  BY <1>0, <1>3 DEF plic_claim, TypeOK, Locks, NotMissed, After, consVars, txVars,
     clockVars, argVars, Goto
<1>4. CASE uartgetc
  BY <1>0, <1>4 DEF uartgetc, TypeOK, Locks, NotMissed, After, consVars, txVars,
     clockVars, argVars, Goto
<1>5. CASE uartintr_tx
  BY <1>0, <1>5 DEF uartintr_tx, TypeOK, Locks, NotMissed, After, consVars, uartVars,
     clockVars, argVars, Goto
<1>6. CASE uartputc_sync
  BY <1>0, <1>6 DEF uartputc_sync, TypeOK, Locks, NotMissed, After, consVars, txVars,
     uartVars, clockVars, argVars, Goto
<1>7. CASE uartputc_sync_thr
  BY <1>0, <1>7 DEF uartputc_sync_thr, TypeOK, Locks, NotMissed, After, consVars,
     txVars, clockVars, argVars, Goto, WriteTHR
<1>8. ASSUME NEW c \in Chars, consoleintr(c) PROVE NotMissed'
  BY <1>0, <1>8 DEF consoleintr, TypeOK, Locks, NotMissed, After, txVars, uartVars,
     clockVars, argVars, Goto
<1>9. ASSUME NEW c \in Chars, consoleintr_store(c) PROVE NotMissed'
  BY SMTT(30), <1>0, <1>9 DEF consoleintr_store, TypeOK, Locks, NotMissed, After, txVars,
     uartVars, clockVars, argVars, Goto, Wake
<1>10. ASSUME NEW x \in Procs \cup {Intr}, uartstart_return(x) PROVE NotMissed'
  BY <1>0, <1>10 DEF uartstart_return, TypeOK, Locks, NotMissed, After, consVars,
     uartVars, clockVars, argVars, Goto
<1>11. ASSUME NEW x \in Procs \cup {Intr}, uartstart_take(x) PROVE NotMissed'
  BY <1>0, <1>11 DEF uartstart_take, TypeOK, Locks, NotMissed, After, consVars,
     uartVars, clockVars, argVars, Wake
<1>12. ASSUME NEW x \in Procs \cup {Intr}, uartstart_thr(x) PROVE NotMissed'
  BY <1>0, <1>12 DEF uartstart_thr, TypeOK, Locks, NotMissed, After, consVars, txVars,
     clockVars, argVars, Goto, WriteTHR
<1>13. CASE clockintr
  BY <1>0, <1>13 DEF clockintr, TypeOK, Locks, NotMissed, After, consVars, txVars,
     uartVars, argVars
<1>14. ASSUME NEW p \in Procs, uartputc_full(p) PROVE NotMissed'
  BY <1>0, <1>14 DEF uartputc_full, TypeOK, Locks, NotMissed, After, consVars, txVars,
     uartVars, clockVars, argVars, Goto
<1>15. ASSUME NEW p \in Procs, uartputc(p) PROVE NotMissed'
  BY <1>0, <1>15 DEF uartputc, TypeOK, Locks, NotMissed, After, consVars, uartVars,
     clockVars, argVars, Goto
<1>16. ASSUME NEW p \in Procs, read_lock(p) PROVE NotMissed'
  BY <1>0, <1>16 DEF read_lock, TypeOK, Locks, NotMissed, After, consVars, txVars,
     uartVars, clockVars, argVars, Goto
<1>17. ASSUME NEW p \in Procs, read_empty(p) PROVE NotMissed'
  <2>0. Return(p) \/ (Goto(p, "rslept") /\ UNCHANGED <<consLock, target, n>>)
    BY <1>17, Zenon DEF read_empty
  <2>1. CASE Return(p)
    BY <1>0, <1>17, <2>1 DEF read_empty, TypeOK, NotMissed, consVars, txVars, uartVars,
       clockVars, Goto, Return
  <2>2. CASE Goto(p, "rslept") /\ UNCHANGED <<consLock, target, n>>
    BY <1>0, <1>17, <2>2 DEF read_empty, TypeOK, NotMissed, consVars, txVars, uartVars,
       clockVars, Goto
  <2> QED
    BY <2>0, <2>1, <2>2
<1>18. ASSUME NEW p \in Procs, read_sleep(p) PROVE NotMissed'
  BY <1>0, <1>18 DEF read_sleep, TypeOK, Locks, NotMissed, After, consVars, txVars,
     uartVars, clockVars, argVars, Goto
<1>19. ASSUME NEW p \in Procs, read_eof(p) PROVE NotMissed'
  BY <1>0, <1>19 DEF read_eof, TypeOK, Locks, NotMissed, After, txVars, uartVars,
     clockVars, Goto, Return
<1>20. ASSUME NEW p \in Procs, read_char(p) PROVE NotMissed'
  BY <1>0, <1>20 DEF read_char, TypeOK, Locks, NotMissed, After, txVars, uartVars,
     clockVars, Goto
<1>21. ASSUME NEW p \in Procs, read_fault(p) PROVE NotMissed'
  BY <1>0, <1>21 DEF read_fault, TypeOK, Locks, NotMissed, After, txVars, uartVars,
     clockVars, Goto, Return
<1>22. ASSUME NEW p \in Procs, read_done(p) PROVE NotMissed'
  BY <1>0, <1>22 DEF read_done, TypeOK, Locks, NotMissed, After, consVars, txVars,
     uartVars, clockVars, Goto, Return
<1>23. ASSUME NEW p \in Procs, ticks_sleep(p) PROVE NotMissed'
  BY <1>0, <1>23 DEF ticks_sleep, TypeOK, Locks, NotMissed, After, consVars, txVars,
     uartVars, clockVars, argVars, Goto
<1>24. ASSUME NEW p \in Procs, sleep_check(p) PROVE NotMissed'
  <2>1. \/ Goto(p, "tested") /\ UNCHANGED <<n, ticks0, elapsed, late>>
        \/ /\ Goto(p, "user") /\ n' = [n EXCEPT ![p] = 0]
           /\ ticks0' = [ticks0 EXCEPT ![p] = 0] /\ elapsed' = [elapsed EXCEPT ![p] = 0]
    BY <1>24, Zenon DEF sleep_check
  <2>2. pc' = [pc EXCEPT ![p] = "tested"] \/ pc' = [pc EXCEPT ![p] = "user"]
    BY <2>1 DEF Goto
  <2> QED
    BY <1>0, <1>24, <2>1, <2>2 DEF sleep_check, TypeOK, NotMissed, consVars, txVars,
       uartVars
<1>25. ASSUME NEW p \in Procs, usertrap_exit(p) PROVE NotMissed'
  BY <1>0, <1>25 DEF usertrap_exit, TypeOK, Locks, NotMissed, After, consVars, txVars,
     uartVars, clockVars
<1>26. ASSUME NEW p \in Procs, consolewrite(p) PROVE NotMissed'
  BY <1>0, <1>26 DEF consolewrite, TypeOK, Locks, NotMissed, After, consVars, txVars,
     uartVars, clockVars, argVars, Goto
<1>27. ASSUME NEW p \in Procs, kill(p) PROVE NotMissed'
  BY <1>0, <1>27 DEF kill, TypeOK, Locks, NotMissed, After, consVars, txVars, uartVars,
     clockVars, Goto
<1>28. ASSUME NEW p \in Procs, NEW len \in ReadLens, consoleread(p, len) PROVE NotMissed'
  BY <1>0, <1>28 DEF consoleread, TypeOK, Locks, NotMissed, After, consVars, txVars,
     uartVars, clockVars, Goto
<1>29. ASSUME NEW p \in Procs, NEW a \in SleepArgs, sys_sleep(p, a) PROVE NotMissed'
  BY <1>0, <1>29 DEF sys_sleep, TypeOK, Locks, NotMissed, After, consVars, txVars,
     uartVars, Goto
<1> QED
  BY <1>0, <1>1, <1>2, <1>3, <1>4, <1>5, <1>6, <1>7, <1>8, <1>9, <1>10, <1>11, <1>12,
     <1>13, <1>14, <1>15, <1>16, <1>17, <1>18, <1>19, <1>20, <1>21, <1>22, <1>23, <1>24,
     <1>25, <1>26, <1>27, <1>28, <1>29, Actions

\* The remainder of the next number.
LEMMA ModNext ==
  ASSUME NEW m \in Nat \ {0}, NEW x \in Nat
  PROVE  (x + 1) % m = IF x % m = m - 1 THEN 0 ELSE (x % m) + 1
<1> DEFINE q == x \div m
           s == x % m
<1>1. q \in Int /\ s \in 0..(m - 1) /\ x = q * m + s
  OBVIOUS
<1> HIDE DEF q, s
<1>2. CASE s = m - 1
  <2>1. x + 1 = (q + 1) * m + 0 /\ q + 1 \in Int /\ 0 \in 0..(m - 1)
    BY <1>1, <1>2
  <2>2. ((q + 1) * m + 0) % m = 0
    BY <2>1, ModIs
  <2> QED
    BY <1>2, <2>1, <2>2 DEF s
<1>3. CASE s # m - 1
  <2>1. x + 1 = q * m + (s + 1) /\ s + 1 \in 0..(m - 1)
    BY <1>1, <1>3
  <2>2. (q * m + (s + 1)) % m = s + 1
    BY <1>1, <2>1, ModIs
  <2> QED
    BY <1>3, <2>1, <2>2 DEF s
<1> QED
  BY <1>2, <1>3

\* A remainder is at most the number, and is it when the number is below m.
LEMMA ModSmall ==
  ASSUME NEW m \in Nat \ {0}, NEW x \in Nat
  PROVE  x % m \in Nat /\ x % m <= x /\ (x < m => x % m = x)
<1> DEFINE q == x \div m
           s == x % m
<1>1. q \in Int /\ s \in 0..(m - 1) /\ x = q * m + s
  OBVIOUS
<1> HIDE DEF q, s
<1>2. q > -1
  <2>1. SUFFICES ASSUME q <= -1 PROVE FALSE
    BY <1>1
  <2>2. q * m <= -m
    BY <1>1, <2>1
  <2> QED
    BY <1>1, <2>2
<1>3. q * m >= 0
  BY <1>1, <1>2
<1>4. ASSUME x < m PROVE s = x
  <2>1. x = 0 * m + x /\ x \in 0..(m - 1)
    BY <1>4
  <2>2. (0 * m + x) % m = x
    BY <2>1, ModIs
  <2> QED
    BY <2>1, <2>2 DEF s
<1> QED
  BY <1>1, <1>3, <1>4 DEF s

\* The clock gets one further from an earlier time, in its own arithmetic.
LEMMA TickStep ==
  ASSUME NEW m \in Nat \ {0}, NEW t \in 0..(m - 1), NEW t0 \in 0..(m - 1), NEW el \in Nat,
         (t - t0) % m = el % m
  PROVE  (((t + 1) % m) - t0) % m = (el + 1) % m
<1> DEFINE t1 == (t + 1) % m
           d == t - t0
<1>1. t1 = (IF t = m - 1 THEN 0 ELSE t + 1) /\ t1 \in 0..(m - 1)
  <2> DEFINE x == t + 1
  <2>1. x \in Int /\ x >= -m /\ x < 2 * m /\ x = t + 1
    OBVIOUS
  <2> HIDE DEF x
  <2>2. x % m = IF x < 0 THEN x + m ELSE IF x < m THEN x ELSE x - m
    BY <2>1, ModNear
  <2>3. x % m = IF t = m - 1 THEN 0 ELSE t + 1
    BY <2>1, <2>2
  <2> QED
    BY <2>3 DEF x
<1>2. d \in Int /\ d >= -m /\ d < m /\ d < 2 * m /\ d = t - t0
  OBVIOUS
<1> HIDE DEF t1, d
<1>3. d % m = IF d < 0 THEN d + m ELSE IF d < m THEN d ELSE d - m
  BY <1>2, ModNear
<1> DEFINE d1 == t1 - t0
<1>4. d1 \in Int /\ d1 >= -m /\ d1 < m /\ d1 < 2 * m /\ d1 = t1 - t0
  BY <1>1
<1> HIDE DEF d1
<1>5. d1 % m = IF d1 < 0 THEN d1 + m ELSE IF d1 < m THEN d1 ELSE d1 - m
  BY <1>4, ModNear
<1>6. d % m = el % m
  BY DEF d
<1>7. d1 % m = IF d % m = m - 1 THEN 0 ELSE (d % m) + 1
  BY <1>1, <1>2, <1>3, <1>4, <1>5
<1>8. (el + 1) % m = IF el % m = m - 1 THEN 0 ELSE (el % m) + 1
  BY ModNext
<1> QED
  BY <1>6, <1>7, <1>8 DEF d1, t1

\* Who tests the clock and goes back to sleep has time left, or is late by
\* all the ticks that would have ended its sleep.
LEMMA BackToSleep ==
  ASSUME TypeOK, Clock, NEW p \in Procs, pc[p] = "tcheck", Due(p)
  PROVE  elapsed[p] < n[p] \/ Overslept(p)
<1>1. /\ TICKMOD \in Nat \ {0} /\ elapsed[p] \in Nat /\ late[p] \in Nat /\ n[p] \in Nat
  BY Sizes DEF TypeOK
<1>2. elapsed[p] % TICKMOD < n[p]
  BY DEF Due, Clock
<1>3. \/ elapsed[p] < n[p] \/ elapsed[p] <= n[p] + late[p] \/ late[p] >= TICKMOD - n[p]
  BY DEF Clock, Overslept
<1>4. elapsed[p] < TICKMOD => elapsed[p] % TICKMOD = elapsed[p]
  BY <1>1, ModSmall
<1> QED
  BY <1>1, <1>2, <1>3, <1>4 DEF Overslept

\* Steps keep the time of those who sleep.
LEMMA ClockStep ==
  ASSUME ConsoleInv, Next
  PROVE  Clock'
<1>0. TypeOK /\ Locks /\ Clock
  BY DEF ConsoleInv
<1>1. ASSUME NEW c \in Chars, Type(c) PROVE Clock'
  BY <1>0, <1>1 DEF Type, TypeOK, Locks, Clock, Overslept, After, consVars, txVars, clockVars,
     argVars
<1>2. CASE Transmit
  BY <1>0, <1>2 DEF Transmit, TypeOK, Locks, Clock, Overslept, After, consVars, txVars, clockVars,
     argVars
<1>3. CASE plic_claim
  BY <1>0, <1>3 DEF plic_claim, TypeOK, Locks, Clock, Overslept, After, consVars, txVars,
     clockVars, argVars, Goto
<1>4. CASE uartgetc
  BY <1>0, <1>4 DEF uartgetc, TypeOK, Locks, Clock, Overslept, After, consVars, txVars, clockVars,
     argVars, Goto
<1>5. CASE uartintr_tx
  BY <1>0, <1>5 DEF uartintr_tx, TypeOK, Locks, Clock, Overslept, After, consVars, uartVars,
     clockVars, argVars, Goto
<1>6. CASE uartputc_sync
  BY <1>0, <1>6 DEF uartputc_sync, TypeOK, Locks, Clock, Overslept, After, consVars, txVars,
     uartVars, clockVars, argVars, Goto
<1>7. CASE uartputc_sync_thr
  BY <1>0, <1>7 DEF uartputc_sync_thr, TypeOK, Locks, Clock, Overslept, After, consVars, txVars,
     clockVars, argVars, Goto, WriteTHR
<1>8. ASSUME NEW c \in Chars, consoleintr(c) PROVE Clock'
  BY <1>0, <1>8 DEF consoleintr, TypeOK, Locks, Clock, Overslept, After, txVars, uartVars,
     clockVars, argVars, Goto
<1>9. ASSUME NEW c \in Chars, consoleintr_store(c) PROVE Clock'
  <2>1. UNCHANGED <<ticks, ticks0, n, elapsed, late>>
    BY <1>9 DEF consoleintr_store, argVars, clockVars
  <2>2. ASSUME NEW p \in Procs PROVE pc'[p] = pc[p] \/ (pc[p] = "rsleep" /\ pc'[p] = "rlock")
    BY <1>0, <1>9, NamesAssumption DEF consoleintr_store, TypeOK, Goto, Wake
  <2> QED
    BY <1>0, <2>1, <2>2 DEF Clock, Overslept
<1>10. ASSUME NEW x \in Procs \cup {Intr}, uartstart_return(x) PROVE Clock'
  BY <1>0, <1>10 DEF uartstart_return, TypeOK, Locks, Clock, Overslept, After, consVars, uartVars,
     clockVars, argVars, Goto
<1>11. ASSUME NEW x \in Procs \cup {Intr}, uartstart_take(x) PROVE Clock'
  BY <1>0, <1>11 DEF uartstart_take, TypeOK, Locks, Clock, Overslept, After, consVars, uartVars,
     clockVars, argVars, Wake
<1>12. ASSUME NEW x \in Procs \cup {Intr}, uartstart_thr(x) PROVE Clock'
  BY <1>0, <1>12 DEF uartstart_thr, TypeOK, Locks, Clock, Overslept, After, consVars, txVars,
     clockVars, argVars, Goto, WriteTHR
<1>13. CASE clockintr
  <2>1. /\ ticks' = (ticks + 1) % TICKMOD /\ UNCHANGED <<ticks0, n>>
        /\ pc' = [x \in DOMAIN pc |-> IF pc[x] = "tsleep" THEN "tcheck" ELSE pc[x]]
        /\ elapsed' = [p \in Procs |-> IF p \in Sleeping THEN elapsed[p] + 1 ELSE 0]
        /\ late' = [p \in Procs |-> IF pc[p] = "tcheck" THEN late[p] + 1 ELSE late[p]]
        /\ DOMAIN pc = Procs \cup {Intr} /\ \A p \in Procs : pc[p] # "tested"
    BY <1>0, <1>13 DEF clockintr, TypeOK, argVars
  <2> SUFFICES ASSUME NEW p \in Procs
               PROVE  IF pc'[p] \in {"tested", "tsleep", "tcheck"}
                      THEN /\ (ticks' - ticks0'[p]) % TICKMOD = elapsed'[p] % TICKMOD
                           /\ \/ elapsed'[p] < n'[p]
                              \/ pc'[p] = "tcheck" /\ elapsed'[p] <= n'[p] + late'[p]
                              \/ late'[p] >= TICKMOD - n'[p]
                      ELSE elapsed'[p] = 0 /\ late'[p] = 0
    BY DEF Clock, Overslept
  <2>2. CASE p \in Sleeping
    <3>1. /\ (ticks - ticks0[p]) % TICKMOD = elapsed[p] % TICKMOD
          /\ \/ elapsed[p] < n[p]
             \/ pc[p] = "tcheck" /\ elapsed[p] <= n[p] + late[p]
             \/ late[p] >= TICKMOD - n[p]
      BY <1>0, <2>2 DEF Sleeping, Clock, Overslept
    <3>2. /\ ticks \in 0..(TICKMOD - 1) /\ ticks0[p] \in 0..(TICKMOD - 1) /\ TICKMOD \in Nat \ {0}
          /\ elapsed[p] \in Nat /\ late[p] \in Nat /\ n[p] \in Nat
      BY <1>0, Sizes DEF TypeOK
    <3>3. (((ticks + 1) % TICKMOD) - ticks0[p]) % TICKMOD = (elapsed[p] + 1) % TICKMOD
      BY <3>1, <3>2, TickStep
    <3>4. /\ pc'[p] = "tcheck" /\ elapsed'[p] = elapsed[p] + 1 /\ n'[p] = n[p]
          /\ late'[p] = IF pc[p] = "tcheck" THEN late[p] + 1 ELSE late[p]
      BY <2>1, <2>2 DEF Sleeping
    <3>5. elapsed'[p] <= n'[p] + late'[p] \/ late'[p] >= TICKMOD - n'[p]
      BY <3>1, <3>2, <3>4
    <3>6. (ticks' - ticks0'[p]) % TICKMOD = elapsed'[p] % TICKMOD
      BY <2>1, <3>3, <3>4
    <3> QED
      BY <3>4, <3>5, <3>6
  <2>3. CASE p \notin Sleeping
    <3>1. pc[p] \notin {"tested", "tsleep", "tcheck"}
      BY <2>1, <2>3 DEF Sleeping
    <3>2. elapsed[p] = 0 /\ late[p] = 0
      BY <1>0, <3>1 DEF Clock
    <3> QED
      BY <2>1, <2>3, <3>1, <3>2 DEF Sleeping
  <2> QED
    BY <2>2, <2>3
<1>14. ASSUME NEW p \in Procs, uartputc_full(p) PROVE Clock'
  BY <1>0, <1>14 DEF uartputc_full, TypeOK, Locks, Clock, Overslept, After, consVars, txVars,
     uartVars, clockVars, argVars, Goto
<1>15. ASSUME NEW p \in Procs, uartputc(p) PROVE Clock'
  BY <1>0, <1>15 DEF uartputc, TypeOK, Locks, Clock, Overslept, After, consVars, uartVars,
     clockVars, argVars, Goto
<1>16. ASSUME NEW p \in Procs, read_lock(p) PROVE Clock'
  BY <1>0, <1>16 DEF read_lock, TypeOK, Locks, Clock, Overslept, After, consVars, txVars, uartVars,
     clockVars, argVars, Goto
<1>17. ASSUME NEW p \in Procs, read_empty(p) PROVE Clock'
  <2>0. Return(p) \/ (Goto(p, "rslept") /\ UNCHANGED <<consLock, target, n>>)
    BY <1>17, Zenon DEF read_empty
  <2>1. CASE Return(p)
    BY <1>0, <1>17, <2>1 DEF read_empty, TypeOK, Clock, Overslept, consVars, txVars, uartVars,
       clockVars, Goto, Return
  <2>2. CASE Goto(p, "rslept") /\ UNCHANGED <<consLock, target, n>>
    BY <1>0, <1>17, <2>2 DEF read_empty, TypeOK, Clock, Overslept, consVars, txVars, uartVars,
       clockVars, Goto
  <2> QED
    BY <2>0, <2>1, <2>2
<1>18. ASSUME NEW p \in Procs, read_sleep(p) PROVE Clock'
  BY <1>0, <1>18 DEF read_sleep, TypeOK, Locks, Clock, Overslept, After, consVars, txVars,
     uartVars, clockVars, argVars, Goto
<1>19. ASSUME NEW p \in Procs, read_eof(p) PROVE Clock'
  BY <1>0, <1>19 DEF read_eof, TypeOK, Locks, Clock, Overslept, After, txVars, uartVars, clockVars,
     Goto, Return
<1>20. ASSUME NEW p \in Procs, read_char(p) PROVE Clock'
  BY <1>0, <1>20 DEF read_char, TypeOK, Locks, Clock, Overslept, After, txVars, uartVars,
     clockVars, Goto
<1>21. ASSUME NEW p \in Procs, read_fault(p) PROVE Clock'
  BY <1>0, <1>21 DEF read_fault, TypeOK, Locks, Clock, Overslept, After, txVars, uartVars,
     clockVars, Goto, Return
<1>22. ASSUME NEW p \in Procs, read_done(p) PROVE Clock'
  BY <1>0, <1>22 DEF read_done, TypeOK, Locks, Clock, Overslept, After, consVars, txVars, uartVars,
     clockVars, Goto, Return
<1>23. ASSUME NEW p \in Procs, ticks_sleep(p) PROVE Clock'
  BY <1>0, <1>23 DEF ticks_sleep, TypeOK, Locks, Clock, Overslept, After, consVars, txVars,
     uartVars, clockVars, argVars, Goto
<1>24. ASSUME NEW p \in Procs, sleep_check(p) PROVE Clock'
  <2>1. CASE Due(p) /\ ~killed[p]
    <3>1. pc' = [pc EXCEPT ![p] = "tested"] /\ UNCHANGED <<n, ticks0, ticks, elapsed, late>>
      BY <1>24, <2>1, Zenon DEF sleep_check, Goto
    <3>2. elapsed[p] < n[p] \/ Overslept(p)
      BY <1>0, <1>24, <2>1, BackToSleep DEF sleep_check
    <3> QED
      BY <1>0, <1>24, <3>1, <3>2 DEF sleep_check, TypeOK, Clock, Overslept
  <2>2. CASE ~(Due(p) /\ ~killed[p])
    <3>1. /\ pc' = [pc EXCEPT ![p] = "user"] /\ n' = [n EXCEPT ![p] = 0]
          /\ ticks0' = [ticks0 EXCEPT ![p] = 0] /\ elapsed' = [elapsed EXCEPT ![p] = 0]
          /\ late' = [late EXCEPT ![p] = 0] /\ UNCHANGED ticks
      BY <1>24, <2>2, Zenon DEF sleep_check, Goto
    <3> QED
      BY <1>0, <1>24, <3>1 DEF sleep_check, TypeOK, Clock, Overslept
  <2> QED
    BY <2>1, <2>2
<1>25. ASSUME NEW p \in Procs, usertrap_exit(p) PROVE Clock'
  BY <1>0, <1>25 DEF usertrap_exit, TypeOK, Locks, Clock, Overslept, After, consVars, txVars,
     uartVars, clockVars
<1>26. ASSUME NEW p \in Procs, consolewrite(p) PROVE Clock'
  BY <1>0, <1>26 DEF consolewrite, TypeOK, Locks, Clock, Overslept, After, consVars, txVars,
     uartVars, clockVars, argVars, Goto
<1>27. ASSUME NEW p \in Procs, kill(p) PROVE Clock'
  BY <1>0, <1>27 DEF kill, TypeOK, Locks, Clock, Overslept, After, consVars, txVars, uartVars,
     clockVars, Goto
<1>28. ASSUME NEW p \in Procs, NEW len \in ReadLens, consoleread(p, len) PROVE Clock'
  BY <1>0, <1>28 DEF consoleread, TypeOK, Locks, Clock, Overslept, After, consVars, txVars,
     uartVars, clockVars, Goto
<1>29. ASSUME NEW p \in Procs, NEW a \in SleepArgs, sys_sleep(p, a) PROVE Clock'
  <2>0. TICKMOD \in Nat \ {0} /\ ticks \in 0..(TICKMOD - 1)
    BY <1>0, Sizes DEF TypeOK
  <2>1. a \in Int /\ a # 0 /\ a > -TICKMOD /\ a >= -TICKMOD /\ a < TICKMOD /\ a < 2 * TICKMOD
    BY <1>29, <2>0, SizesAssumption DEF sys_sleep
  <2>2. a % TICKMOD > 0
    <3>1. a % TICKMOD = IF a < 0 THEN a + TICKMOD ELSE IF a < TICKMOD THEN a ELSE a - TICKMOD
      BY <2>0, <2>1, ModNear
    <3> QED
      BY <2>0, <2>1, <3>1
  <2>3. (ticks - ticks) % TICKMOD = 0
    <3>1. ticks - ticks = 0 /\ 0 % TICKMOD = 0
      BY <2>0
    <3> QED
      BY <3>1
  <2>4. elapsed[p] = 0 /\ 0 % TICKMOD = 0
    BY <1>0, <1>29, <2>0 DEF sys_sleep, Clock
  <2>5. /\ pc' = [pc EXCEPT ![p] = "tested"] /\ n' = [n EXCEPT ![p] = a % TICKMOD]
        /\ ticks0' = [ticks0 EXCEPT ![p] = ticks] /\ UNCHANGED <<ticks, elapsed, late>>
    BY <1>29 DEF sys_sleep, Goto
  <2> QED
    BY <1>0, <2>2, <2>3, <2>4, <2>5 DEF TypeOK, Clock, Overslept
<1> QED
  BY <1>0, <1>1, <1>2, <1>3, <1>4, <1>5, <1>6, <1>7, <1>8, <1>9, <1>10, <1>11, <1>12,
     <1>13, <1>14, <1>15, <1>16, <1>17, <1>18, <1>19, <1>20, <1>21, <1>22, <1>23, <1>24,
     <1>25, <1>26, <1>27, <1>28, <1>29, Actions

\* The invariant holds at the start.
LEMMA ConsoleInit ==
  ASSUME Init
  PROVE  ConsoleInv
<1>0. /\ UMOD \in Nat \ {0} /\ INPUT_BUF \in Nat \ {0} /\ UART_TX_BUF_SIZE \in Nat \ {0}
      /\ UMOD > INPUT_BUF /\ UMOD > UART_TX_BUF_SIZE /\ TICKMOD \in Nat \ {0}
      /\ 0 \in 0..(UMOD - 1) /\ 0 \in 0..(TICKMOD - 1)
  BY Sizes
<1>1. TypeOK
  BY <1>0 DEF Init, TypeOK, Chars
<1>2. Locks
  BY NamesAssumption DEF Init, Locks
<1>3. Rings
  <2>1. Sub(0, 0) = 0
    BY <1>0, SubIs
  <2> QED
    BY <1>0, <2>1 DEF Init, Rings
<1>4. Reads /\ NotMissed
  BY NamesAssumption DEF Init, Reads, NotMissed
<1>5. Clock
  BY NamesAssumption DEF Init, Clock
<1> QED
  BY <1>1, <1>2, <1>3, <1>4, <1>5 DEF ConsoleInv

\* A step or a stutter keeps the invariant.
LEMMA ConsoleStep ==
  ASSUME ConsoleInv, [Next]_vars
  PROVE  ConsoleInv'
<1>1. CASE Next
  BY <1>1, TypeStep, LocksStep, RingsStep, ReadsStep, NotMissedStep, ClockStep DEF
     ConsoleInv
<1>2. CASE UNCHANGED vars
  <2>1. /\ UNCHANGED <<buf, r, w, e, consLock, rx, txr, txw, txLock, fifo, txirq, hc, echo, pc>>
        /\ UNCHANGED <<target, n, killed, load, ticks, ticks0, elapsed, late>>
    BY <1>2 DEF vars, consVars, txVars, uartVars, clockVars, argVars
  <2>2. TypeOK /\ Locks /\ Rings /\ Reads /\ NotMissed /\ Clock
    BY DEF ConsoleInv
  <2>3. TypeOK'
    BY <2>1, <2>2 DEF TypeOK
  <2>4. Locks' /\ Rings'
    BY <2>1, <2>2, RingsSame DEF Locks
  <2>5. Reads' /\ NotMissed' /\ Clock'
    BY <2>1, <2>2 DEF Reads, NotMissed, Clock, Overslept
  <2> QED
    BY <2>3, <2>4, <2>5 DEF ConsoleInv
<1> QED
  BY <1>1, <1>2

\* The console in every reachable state: the locks are held by who is in their
\* sections, the rings hold no more than fits although their indices wrap, no
\* reader sleeps beside a line and no writer beside free room, and the clock
\* measures what has elapsed (kernel/console.c, uart.c, sysproc.c).
THEOREM ConsoleInvariant == Spec => []ConsoleInv
<1>1. Init => ConsoleInv
  BY ConsoleInit
<1>2. ConsoleInv /\ [Next]_vars => ConsoleInv'
  BY ConsoleStep
<1> QED
  BY <1>1, <1>2, PTL DEF Spec

\* Only sleep_check ends a sleep() on the clock.
LEMMA OnlySleepCheck ==
  ASSUME TypeOK, Next, NEW q \in Procs, pc[q] = "tcheck", pc'[q] = "user"
  PROVE  sleep_check(q)
<1>0. DOMAIN pc = Procs \cup {Intr} /\ pc[q] = "tcheck" /\ pc'[q] = "user"
  BY DEF TypeOK
<1>1. ASSUME NEW c \in Chars, Type(c) PROVE sleep_check(q)
  BY <1>0, <1>1 DEF Type, After, consVars, txVars, clockVars, argVars
<1>2. CASE Transmit
  BY <1>0, <1>2 DEF Transmit, After, consVars, txVars, clockVars, argVars
<1>3. CASE plic_claim
  BY <1>0, <1>3 DEF plic_claim, After, consVars, txVars, clockVars, argVars, Goto
<1>4. CASE uartgetc
  BY <1>0, <1>4 DEF uartgetc, After, consVars, txVars, clockVars, argVars, Goto
<1>5. CASE uartintr_tx
  BY <1>0, <1>5 DEF uartintr_tx, After, consVars, uartVars, clockVars, argVars, Goto
<1>6. CASE uartputc_sync
  BY <1>0, <1>6 DEF uartputc_sync, After, consVars, txVars, uartVars, clockVars,
     argVars, Goto
<1>7. CASE uartputc_sync_thr
  BY <1>0, <1>7 DEF uartputc_sync_thr, After, consVars, txVars, clockVars, argVars,
     Goto, WriteTHR
<1>8. ASSUME NEW c \in Chars, consoleintr(c) PROVE sleep_check(q)
  BY <1>0, <1>8 DEF consoleintr, After, txVars, uartVars, clockVars, argVars, Goto
<1>9. ASSUME NEW c \in Chars, consoleintr_store(c) PROVE sleep_check(q)
  BY <1>0, <1>9 DEF consoleintr_store, After, txVars, uartVars, clockVars, argVars,
     Goto, Wake
<1>10. ASSUME NEW x \in Procs \cup {Intr}, uartstart_return(x) PROVE sleep_check(q)
  BY <1>0, <1>10 DEF uartstart_return, After, consVars, uartVars, clockVars, argVars,
     Goto
<1>11. ASSUME NEW x \in Procs \cup {Intr}, uartstart_take(x) PROVE sleep_check(q)
  BY <1>0, <1>11 DEF uartstart_take, After, consVars, uartVars, clockVars, argVars, Wake
<1>12. ASSUME NEW x \in Procs \cup {Intr}, uartstart_thr(x) PROVE sleep_check(q)
  BY <1>0, <1>12 DEF uartstart_thr, After, consVars, txVars, clockVars, argVars, Goto,
     WriteTHR
<1>13. CASE clockintr
  BY <1>0, <1>13 DEF clockintr, After, consVars, txVars, uartVars, argVars
<1>14. ASSUME NEW p \in Procs, uartputc_full(p) PROVE sleep_check(q)
  BY <1>0, <1>14 DEF uartputc_full, After, consVars, txVars, uartVars, clockVars,
     argVars, Goto
<1>15. ASSUME NEW p \in Procs, uartputc(p) PROVE sleep_check(q)
  BY <1>0, <1>15 DEF uartputc, After, consVars, uartVars, clockVars, argVars, Goto
<1>16. ASSUME NEW p \in Procs, read_lock(p) PROVE sleep_check(q)
  BY <1>0, <1>16 DEF read_lock, After, consVars, txVars, uartVars, clockVars, argVars,
     Goto
<1>17. ASSUME NEW p \in Procs, read_empty(p) PROVE sleep_check(q)
  <2>1. pc' = [pc EXCEPT ![p] = "user"] \/ pc' = [pc EXCEPT ![p] = "rslept"]
    BY <1>17, Zenon DEF read_empty, Return, Goto
  <2> QED
    BY <1>0, <1>17, <2>1 DEF read_empty
<1>18. ASSUME NEW p \in Procs, read_sleep(p) PROVE sleep_check(q)
  BY <1>0, <1>18 DEF read_sleep, After, consVars, txVars, uartVars, clockVars, argVars,
     Goto
<1>19. ASSUME NEW p \in Procs, read_eof(p) PROVE sleep_check(q)
  BY <1>0, <1>19 DEF read_eof, After, txVars, uartVars, clockVars, Goto, Return
<1>20. ASSUME NEW p \in Procs, read_char(p) PROVE sleep_check(q)
  BY <1>0, <1>20 DEF read_char, After, txVars, uartVars, clockVars, Goto
<1>21. ASSUME NEW p \in Procs, read_fault(p) PROVE sleep_check(q)
  BY <1>0, <1>21 DEF read_fault, After, txVars, uartVars, clockVars, Goto, Return
<1>22. ASSUME NEW p \in Procs, read_done(p) PROVE sleep_check(q)
  BY <1>0, <1>22 DEF read_done, After, consVars, txVars, uartVars, clockVars, Goto,
     Return
<1>23. ASSUME NEW p \in Procs, ticks_sleep(p) PROVE sleep_check(q)
  BY <1>0, <1>23 DEF ticks_sleep, After, consVars, txVars, uartVars, clockVars, argVars,
     Goto
<1>24. ASSUME NEW p \in Procs, sleep_check(p) PROVE sleep_check(q)
  <2>1. pc' = [pc EXCEPT ![p] = "tested"] \/ pc' = [pc EXCEPT ![p] = "user"]
    BY <1>24 DEF sleep_check, Goto
  <2>2. p = q
    BY <1>0, <2>1
  <2> QED
    BY <1>24, <2>2
<1>25. ASSUME NEW p \in Procs, usertrap_exit(p) PROVE sleep_check(q)
  BY <1>0, <1>25 DEF usertrap_exit, After, consVars, txVars, uartVars, clockVars
<1>26. ASSUME NEW p \in Procs, consolewrite(p) PROVE sleep_check(q)
  BY <1>0, <1>26 DEF consolewrite, After, consVars, txVars, uartVars, clockVars,
     argVars, Goto
<1>27. ASSUME NEW p \in Procs, kill(p) PROVE sleep_check(q)
  BY <1>0, <1>27 DEF kill, After, consVars, txVars, uartVars, clockVars, Goto
<1>28. ASSUME NEW p \in Procs, NEW len \in ReadLens, consoleread(p, len) PROVE sleep_check(q)
  BY <1>0, <1>28 DEF consoleread, After, consVars, txVars, uartVars, clockVars, Goto
<1>29. ASSUME NEW p \in Procs, NEW a \in SleepArgs, sys_sleep(p, a) PROVE sleep_check(q)
  BY <1>0, <1>29 DEF sys_sleep, After, consVars, txVars, uartVars, Goto
<1> QED
  BY <1>0, <1>1, <1>2, <1>3, <1>4, <1>5, <1>6, <1>7, <1>8, <1>9, <1>10, <1>11, <1>12,
     <1>13, <1>14, <1>15, <1>16, <1>17, <1>18, <1>19, <1>20, <1>21, <1>22, <1>23, <1>24,
     <1>25, <1>26, <1>27, <1>28, <1>29, Actions

\* sleep(n) never returns before n ticks, is late only by what it was kept
\* from running, and goes back to sleep after its time only if that was
\* TICKMOD - n ticks or more, wherever the clock wraps (sys_sleep, clockintr).
THEOREM SleepsExactly == Spec => SleepExact
<1> DEFINE Exact ==
      \A p \in Procs :
         /\ (pc[p] = "tcheck" /\ pc'[p] = "user") =>
              /\ killed[p] \/ elapsed[p] >= n[p]
              /\ elapsed[p] <= n[p] + late[p] \/ Overslept(p)
         /\ pc'[p] = "tested" => elapsed'[p] < n'[p] \/ Overslept(p)'
<1>1. ASSUME ConsoleInv, ConsoleInv', Next PROVE Exact
  <2>0. TypeOK /\ Clock /\ Clock'
    BY <1>1 DEF ConsoleInv
  <2> SUFFICES ASSUME NEW p \in Procs
               PROVE  /\ (pc[p] = "tcheck" /\ pc'[p] = "user") =>
                           /\ killed[p] \/ elapsed[p] >= n[p]
                           /\ elapsed[p] <= n[p] + late[p] \/ Overslept(p)
                      /\ pc'[p] = "tested" => elapsed'[p] < n'[p] \/ Overslept(p)'
    OBVIOUS
  <2>1. pc'[p] = "tested" => elapsed'[p] < n'[p] \/ Overslept(p)'
    BY <2>0 DEF Clock
  <2>2. ASSUME pc[p] = "tcheck", pc'[p] = "user" PROVE sleep_check(p)
    BY <1>1, <2>0, <2>2, OnlySleepCheck
  <2>3. ASSUME sleep_check(p), pc[p] = "tcheck", pc'[p] = "user"
        PROVE  /\ killed[p] \/ elapsed[p] >= n[p]
               /\ elapsed[p] <= n[p] + late[p] \/ Overslept(p)
    <3>1. p \in DOMAIN pc
      BY <2>0 DEF TypeOK
    <3>2. ~Due(p) \/ killed[p]
      <4>1. SUFFICES ASSUME Due(p) /\ ~killed[p] PROVE FALSE
        OBVIOUS
      <4>2. pc' = [pc EXCEPT ![p] = "tested"]
        BY <2>3, <4>1, Zenon DEF sleep_check, Goto
      <4> QED
        BY <2>3, <3>1, <4>2
    <3>3. /\ elapsed[p] \in Nat /\ n[p] \in Nat /\ late[p] \in Nat /\ TICKMOD \in Nat \ {0}
          /\ (ticks - ticks0[p]) % TICKMOD = elapsed[p] % TICKMOD
      BY <2>0, <2>3, Sizes DEF TypeOK, Clock
    <3>4. elapsed[p] % TICKMOD \in Nat /\ elapsed[p] % TICKMOD <= elapsed[p]
      BY <3>3, ModSmall
    <3>5. killed[p] \/ elapsed[p] >= n[p]
      BY <3>2, <3>3, <3>4 DEF Due
    <3>6. elapsed[p] <= n[p] + late[p] \/ Overslept(p)
      BY <2>0, <2>3, <3>3 DEF Clock
    <3> QED
      BY <3>5, <3>6
  <2> QED
    BY <2>1, <2>2, <2>3
<1>2. ConsoleInv /\ ConsoleInv' /\ [Next]_vars => [Exact]_vars
  BY <1>1
<1> QED
  BY <1>2, ConsoleInvariant, PTL DEF Spec, SleepExact
-----------------------------------------------------------------------------
(***************************************************************************)
(* What a ring holds, as a sequence.                                       *)
(***************************************************************************)

\* The characters of buffer b between two indices.
Ring(b, a, z) == [i \in 1..Sub(z, a) |-> b[(a + i - 1) % INPUT_BUF]]

Buffers == [0..(INPUT_BUF - 1) -> Chars]

\* What makes a sequence another one with an element added at the end.
LEMMA IsAppend ==
  ASSUME NEW S, NEW s \in Seq(S), NEW c \in S, NEW t \in Seq(S),
         Len(t) = Len(s) + 1, t[Len(s) + 1] = c, \A k \in 1..Len(s) : t[k] = s[k]
  PROVE  t = Append(s, c)
OBVIOUS

\* What makes a sequence another one without its first element.
LEMMA IsTail ==
  ASSUME NEW S, NEW s \in Seq(S), s # <<>>, NEW t \in Seq(S),
         Len(t) = Len(s) - 1, \A k \in 1..Len(t) : t[k] = s[k + 1]
  PROVE  t = Tail(s)
OBVIOUS

\* What makes a sequence another one without its last element.
LEMMA IsFront ==
  ASSUME NEW S, NEW s \in Seq(S), s # <<>>, NEW t \in Seq(S),
         Len(t) = Len(s) - 1, \A k \in 1..Len(t) : t[k] = s[k]
  PROVE  t = Front(s)
<1>1. Len(s) \in Nat /\ Len(s) # 0
  OBVIOUS
<1>2. Front(s) \in Seq(S) /\ Len(Front(s)) = Len(s) - 1 /\ \A k \in 1..(Len(s) - 1) : Front(s)[k] = s[k]
  BY <1>1 DEF Front
<1> QED
  BY <1>1, <1>2

\* What makes a sequence two others, one after the other.
LEMMA IsConcat ==
  ASSUME NEW S, NEW s \in Seq(S), NEW t \in Seq(S), NEW u \in Seq(S),
         Len(u) = Len(s) + Len(t), \A k \in 1..Len(s) : u[k] = s[k],
         \A k \in 1..Len(t) : u[Len(s) + k] = t[k]
  PROVE  u = s \o t
<1> DEFINE v == s \o t
<1>1. v \in Seq(S) /\ Len(v) = Len(s) + Len(t)
  OBVIOUS
<1>2. ASSUME NEW k \in 1..Len(u) PROVE u[k] = v[k]
  <2>1. CASE k \in 1..Len(s)
    BY <2>1
  <2>2. CASE k \notin 1..Len(s)
    <3> DEFINE j == k - Len(s)
    <3>1. j \in 1..Len(t) /\ k = Len(s) + j
      BY <2>2
    <3> HIDE DEF j
    <3>2. v[Len(s) + j] = t[j]
      BY <3>1
    <3> QED
      BY <3>1, <3>2
  <2> QED
    BY <2>1, <2>2
<1> HIDE DEF v
<1>3. u = v
  BY <1>1, <1>2
<1> QED
  BY <1>3 DEF v

\* A function on an interval from 1 is a sequence.
LEMMA IsSeq ==
  ASSUME NEW S, NEW k \in Nat, NEW t \in [1..k -> S]
  PROVE  t \in Seq(S) /\ Len(t) = k
OBVIOUS

\* The ring as a sequence, and its elements.
LEMMA RingSeq ==
  ASSUME NEW b \in Buffers, NEW a \in 0..(UMOD - 1), NEW z \in 0..(UMOD - 1)
  PROVE  /\ Ring(b, a, z) \in Seq(Chars) /\ Len(Ring(b, a, z)) = Sub(z, a)
         /\ \A k \in 1..Sub(z, a) : Ring(b, a, z)[k] = b[(a + (k - 1)) % INPUT_BUF]
<1>0. Sub(z, a) \in Nat /\ INPUT_BUF \in Nat \ {0} /\ a \in Nat
  BY SubIs, Sizes
<1>1. ASSUME NEW k \in 1..Sub(z, a)
      PROVE  a + k - 1 = a + (k - 1) /\ b[(a + (k - 1)) % INPUT_BUF] \in Chars
  <2>1. a + k - 1 = a + (k - 1) /\ k - 1 \in Nat
    BY <1>0
  <2>2. (a + (k - 1)) % INPUT_BUF \in 0..(INPUT_BUF - 1)
    BY <2>1, Place
  <2> QED
    BY <2>1, <2>2 DEF Buffers
<1>2. Ring(b, a, z) \in [1..Sub(z, a) -> Chars]
  BY <1>1 DEF Ring
<1>3. \A k \in 1..Sub(z, a) : Ring(b, a, z)[k] = b[(a + (k - 1)) % INPUT_BUF]
  BY <1>1 DEF Ring
<1> QED
  BY <1>0, <1>2, <1>3, IsSeq

\* Nothing is between an index and itself.
LEMMA RingEmpty ==
  ASSUME NEW b \in Buffers, NEW a \in 0..(UMOD - 1)
  PROVE  Ring(b, a, a) = <<>>
<1>1. Sub(a, a) = 0
  BY SubIs
<1> QED
  BY <1>1, RingSeq

\* Only what is between the indices counts.
LEMMA RingSame ==
  ASSUME NEW b \in Buffers, NEW c \in Buffers, NEW a \in 0..(UMOD - 1), NEW z \in 0..(UMOD - 1),
         \A k \in 0..(Sub(z, a) - 1) : c[(a + k) % INPUT_BUF] = b[(a + k) % INPUT_BUF]
  PROVE  Ring(c, a, z) = Ring(b, a, z)
<1>0. Sub(z, a) \in Nat /\ a \in Nat
  BY SubIs
<1>1. ASSUME NEW i \in 1..Sub(z, a)
      PROVE  c[(a + i - 1) % INPUT_BUF] = b[(a + i - 1) % INPUT_BUF]
  <2>1. a + i - 1 = a + (i - 1) /\ i - 1 \in 0..(Sub(z, a) - 1)
    BY <1>0
  <2> QED
    BY <2>1
<1> QED
  BY <1>1 DEF Ring

\* Storing at the end appends a character.
LEMMA RingAppend ==
  ASSUME NEW b \in Buffers, NEW a \in 0..(UMOD - 1), NEW z \in 0..(UMOD - 1), NEW c \in Chars,
         Sub(z, a) < INPUT_BUF
  PROVE  Ring([b EXCEPT ![z % INPUT_BUF] = c], a, (z + 1) % UMOD) = Append(Ring(b, a, z), c)
<1> DEFINE b1 == [b EXCEPT ![z % INPUT_BUF] = c]
           z1 == (z + 1) % UMOD
           s == Ring(b, a, z)
           t == Ring(b1, a, z1)
<1>0. Sub(z, a) \in Nat /\ INPUT_BUF \in Nat \ {0} /\ UMOD \in Nat \ {0} /\ UMOD > INPUT_BUF /\ z \in Nat
  BY SubIs, Sizes
<1>1. z1 \in 0..(UMOD - 1)
  BY Increment
<1>2. Sub(z1, a) = Sub(z, a) + 1
  BY <1>0, SubStep
<1>3. z % INPUT_BUF \in 0..(INPUT_BUF - 1) /\ (a + Sub(z, a)) % INPUT_BUF = z % INPUT_BUF
  <2>1. z % INPUT_BUF \in 0..(INPUT_BUF - 1)
    BY <1>0
  <2> QED
    BY <2>1, Place
<1>4. /\ b1 \in Buffers /\ b1[z % INPUT_BUF] = c
      /\ \A i \in 0..(INPUT_BUF - 1) : i # z % INPUT_BUF => b1[i] = b[i]
  BY <1>3 DEF Buffers
<1> HIDE DEF b1, z1
<1>5. /\ s \in Seq(Chars) /\ Len(s) = Sub(z, a)
      /\ \A k \in 1..Sub(z, a) : s[k] = b[(a + (k - 1)) % INPUT_BUF]
  BY RingSeq
<1>6. /\ t \in Seq(Chars) /\ Len(t) = Sub(z, a) + 1
      /\ \A k \in 1..(Sub(z, a) + 1) : t[k] = b1[(a + (k - 1)) % INPUT_BUF]
  <2>1. /\ t \in Seq(Chars) /\ Len(t) = Sub(z1, a)
        /\ \A k \in 1..Sub(z1, a) : t[k] = b1[(a + (k - 1)) % INPUT_BUF]
    BY <1>1, <1>4, RingSeq
  <2> HIDE DEF t
  <2> QED
    BY <1>2, <2>1, Zenon
<1> HIDE DEF s, t
<1>7. t[Len(s) + 1] = c
  <2>1. Sub(z, a) + 1 \in 1..(Sub(z, a) + 1) /\ (Sub(z, a) + 1) - 1 = Sub(z, a)
    BY <1>0
  <2> QED
    BY <1>3, <1>4, <1>5, <1>6, <2>1
<1>8. ASSUME NEW k \in 1..Len(s) PROVE t[k] = s[k]
  <2>1. k - 1 \in 0..(Sub(z, a) - 1) /\ k - 1 \in Nat /\ k \in 1..(Sub(z, a) + 1) /\ k \in 1..Sub(z, a)
    BY <1>0, <1>5
  <2>2. (a + (k - 1)) % INPUT_BUF # z % INPUT_BUF
    BY <2>1, FreePlace
  <2>3. (a + (k - 1)) % INPUT_BUF \in 0..(INPUT_BUF - 1)
    BY <2>1, Place
  <2>4. b1[(a + (k - 1)) % INPUT_BUF] = b[(a + (k - 1)) % INPUT_BUF]
    BY <1>4, <2>2, <2>3
  <2> QED
    BY <1>5, <1>6, <2>1, <2>4
<1>9. t = Append(s, c)
  BY <1>5, <1>6, <1>7, <1>8, IsAppend
<1> QED
  BY <1>9 DEF b1, z1, s, t

\* Taking the first character leaves the rest.
LEMMA RingTail ==
  ASSUME NEW b \in Buffers, NEW a \in 0..(UMOD - 1), NEW z \in 0..(UMOD - 1), a # z
  PROVE  /\ Ring(b, a, z) # <<>> /\ Head(Ring(b, a, z)) = b[a % INPUT_BUF]
         /\ Ring(b, (a + 1) % UMOD, z) = Tail(Ring(b, a, z))
<1> DEFINE a1 == (a + 1) % UMOD
           s == Ring(b, a, z)
           t == Ring(b, a1, z)
<1>0. Sub(z, a) \in Nat /\ Sub(z, a) # 0 /\ a \in Nat
  BY SubIs
<1>1. a1 \in 0..(UMOD - 1)
  BY Increment
<1>2. Sub(z, a1) = Sub(z, a) - 1
  BY SubStep
<1>3. ASSUME NEW k \in Nat PROVE (a1 + k) % INPUT_BUF = (a + (k + 1)) % INPUT_BUF
  BY Place
<1> HIDE DEF a1
<1>4. /\ s \in Seq(Chars) /\ Len(s) = Sub(z, a)
      /\ \A k \in 1..Sub(z, a) : s[k] = b[(a + (k - 1)) % INPUT_BUF]
  BY RingSeq
<1>5. /\ t \in Seq(Chars) /\ Len(t) = Sub(z, a) - 1
      /\ \A k \in 1..(Sub(z, a) - 1) : t[k] = b[(a1 + (k - 1)) % INPUT_BUF]
  BY <1>1, <1>2, RingSeq
<1> HIDE DEF s, t
<1>6. s # <<>>
  BY <1>0, <1>4
<1>7. Head(s) = b[a % INPUT_BUF]
  <2>1. 1 \in 1..Sub(z, a) /\ a + (1 - 1) = a
    BY <1>0
  <2>2. s[1] = b[a % INPUT_BUF]
    BY <1>4, <2>1
  <2> QED
    BY <1>4, <1>6, <2>2
<1>8. ASSUME NEW k \in 1..Len(t) PROVE t[k] = s[k + 1]
  <2>1. /\ k \in 1..(Sub(z, a) - 1) /\ k + 1 \in 1..Sub(z, a) /\ k - 1 \in Nat
        /\ (k - 1) + 1 = (k + 1) - 1
    BY <1>0, <1>5
  <2>2. (a1 + (k - 1)) % INPUT_BUF = (a + ((k - 1) + 1)) % INPUT_BUF
    BY <1>3, <2>1
  <2>3. s[k + 1] = b[(a + ((k + 1) - 1)) % INPUT_BUF]
    BY <1>4, <2>1
  <2> QED
    BY <1>5, <2>1, <2>2, <2>3
<1>9. t = Tail(s)
  BY <1>4, <1>5, <1>6, <1>8, IsTail
<1> QED
  BY <1>6, <1>7, <1>9 DEF a1, s, t

\* Going back by one removes the last character.
LEMMA RingFront ==
  ASSUME NEW b \in Buffers, NEW a \in 0..(UMOD - 1), NEW z \in 0..(UMOD - 1), a # z
  PROVE  Ring(b, a, z) # <<>> /\ Ring(b, a, Sub(z, 1)) = Front(Ring(b, a, z))
<1> DEFINE z0 == Sub(z, 1)
           s == Ring(b, a, z)
           t == Ring(b, a, z0)
<1>0. Sub(z, a) \in Nat /\ Sub(z, a) # 0
  BY SubIs
<1>1. z0 \in 0..(UMOD - 1)
  <2>1. 1 \in 0..(UMOD - 1)
    BY Sizes
  <2> QED
    BY <2>1, SubIs
<1>2. Sub(z0, a) = Sub(z, a) - 1
  BY SubStep
<1> HIDE DEF z0
<1>3. /\ s \in Seq(Chars) /\ Len(s) = Sub(z, a)
      /\ \A k \in 1..Sub(z, a) : s[k] = b[(a + (k - 1)) % INPUT_BUF]
  BY RingSeq
<1>4. /\ t \in Seq(Chars) /\ Len(t) = Sub(z, a) - 1
      /\ \A k \in 1..(Sub(z, a) - 1) : t[k] = b[(a + (k - 1)) % INPUT_BUF]
  BY <1>1, <1>2, RingSeq
<1> HIDE DEF s, t
<1>5. s # <<>>
  BY <1>0, <1>3
<1>6. ASSUME NEW k \in 1..Len(t) PROVE t[k] = s[k]
  <2>1. k \in 1..(Sub(z, a) - 1) /\ k \in 1..Sub(z, a)
    BY <1>0, <1>4
  <2> QED
    BY <1>3, <1>4, <2>1
<1>7. t = Front(s)
  BY <1>3, <1>4, <1>5, <1>6, IsFront
<1> QED
  BY <1>5, <1>7 DEF z0, s, t

\* A ring is what is before an index in it and what is after.
LEMMA RingConcat ==
  ASSUME NEW b \in Buffers, NEW a \in 0..(UMOD - 1), NEW m \in 0..(UMOD - 1), NEW z \in 0..(UMOD - 1),
         Sub(m, a) + Sub(z, m) = Sub(z, a)
  PROVE  Ring(b, a, z) = Ring(b, a, m) \o Ring(b, m, z)
<1> DEFINE s == Ring(b, a, m)
           t == Ring(b, m, z)
           u == Ring(b, a, z)
<1>0. Sub(m, a) \in Nat /\ Sub(z, m) \in Nat /\ Sub(z, a) \in Nat /\ a \in Nat /\ m \in Nat /\ UMOD \in Nat
  BY SubIs, Sizes
<1>1. /\ s \in Seq(Chars) /\ Len(s) = Sub(m, a)
      /\ \A k \in 1..Sub(m, a) : s[k] = b[(a + (k - 1)) % INPUT_BUF]
  BY RingSeq
<1>2. /\ t \in Seq(Chars) /\ Len(t) = Sub(z, m)
      /\ \A k \in 1..Sub(z, m) : t[k] = b[(m + (k - 1)) % INPUT_BUF]
  BY RingSeq
<1>3. /\ u \in Seq(Chars) /\ Len(u) = Sub(z, a)
      /\ \A k \in 1..Sub(z, a) : u[k] = b[(a + (k - 1)) % INPUT_BUF]
  BY RingSeq
<1> HIDE DEF s, t, u
<1>4. ASSUME NEW k \in 1..Len(s) PROVE u[k] = s[k]
  <2>1. k \in 1..Sub(m, a) /\ k \in 1..Sub(z, a)
    BY <1>0, <1>1
  <2> QED
    BY <1>1, <1>3, <2>1
<1>5. ASSUME NEW k \in 1..Len(t) PROVE u[Len(s) + k] = t[k]
  <2> DEFINE x == m + (k - 1)
  <2>1. Len(s) + k \in 1..Sub(z, a) /\ k \in 1..Sub(z, m) /\ x \in Int
    BY <1>0, <1>1, <1>2
  <2>2. Sub(m, a) = IF m >= a THEN m - a ELSE m - a + UMOD
    BY SubIs
  <2>3. a + ((Len(s) + k) - 1) = x \/ a + ((Len(s) + k) - 1) = x + UMOD
    BY <1>0, <1>1, <2>1, <2>2
  <2>4. u[Len(s) + k] = b[(a + ((Len(s) + k) - 1)) % INPUT_BUF]
    BY <1>3, <2>1
  <2>5. t[k] = b[x % INPUT_BUF]
    BY <1>2, <2>1
  <2> HIDE DEF x
  <2>6. (x + UMOD) % INPUT_BUF = x % INPUT_BUF
    BY <2>1, ModPeriod
  <2> QED
    BY <2>3, <2>4, <2>5, <2>6
<1>6. u = s \o t
  <2>1. s \in Seq(Chars) /\ t \in Seq(Chars) /\ u \in Seq(Chars) /\ Len(u) = Len(s) + Len(t)
    BY <1>1, <1>2, <1>3
  <2>2. \A k \in 1..Len(s) : u[k] = s[k]
    BY <1>4
  <2>3. \A k \in 1..Len(t) : u[Len(s) + k] = t[k]
    BY <1>5
  <2> QED
    BY <2>1, <2>2, <2>3, IsConcat
<1> QED
  BY <1>6 DEF s, t, u
-----------------------------------------------------------------------------
(***************************************************************************)
(* The console implements LineInput.                                       *)
(***************************************************************************)

\* The refinement's sequences are rings.
LEMMA Mapped ==
  /\ Edited = Ring(buf, w, e) /\ Edited' = Ring(buf', w', e')
  /\ Complete = Ring(buf, r, w) /\ Complete' = Ring(buf', r', w')
BY DEF Edited, Complete, Between, Ring

\* A step that leaves the ring and the reads alone is a stutter.
LEMMA LineSame ==
  ASSUME UNCHANGED <<buf, r, w, e, target, n>>
  PROVE  UNCHANGED <<Edited, Complete, Got>>
<1>1. Edited' = Edited /\ Complete' = Complete
  BY Mapped
<1> QED
  BY <1>1 DEF Got

\* A stored character is typed.
LEMMA StoreTypes ==
  ASSUME ConsoleInv, NEW c \in Chars, consoleintr_store(c), Stores(c)
  PROVE  Line!Next
<1>0. /\ TypeOK /\ Rings /\ c \in {Plain, Newline, Eof}
      /\ Sub(e, r) < INPUT_BUF
  BY DEF ConsoleInv, Stores, Room
<1>1. /\ r \in 0..(UMOD - 1) /\ w \in 0..(UMOD - 1) /\ e \in 0..(UMOD - 1)
      /\ Sub(e, w) \in Nat /\ Sub(w, r) \in Nat /\ Sub(e, r) \in Nat
      /\ Sub(w, r) + Sub(e, w) = Sub(e, r) /\ INPUT_BUF \in Nat
  BY <1>0, Indices, Sizes DEF Rings
<1>2. buf \in Buffers
  BY <1>0 DEF TypeOK, Buffers
<1> DEFINE b1 == [buf EXCEPT ![e % INPUT_BUF] = c]
           e1 == (e + 1) % UMOD
<1>3. /\ buf' = b1 /\ e' = e1 /\ r' = r /\ w' = IF Ends(c) THEN e1 ELSE w
      /\ UNCHANGED <<target, n>>
  BY DEF consoleintr_store, argVars
<1>4. Got' = Got
  BY <1>3 DEF Got
<1>5. /\ Edited \in Seq(Chars) /\ Len(Edited) = Sub(e, w)
      /\ Complete \in Seq(Chars) /\ Len(Complete) = Sub(w, r)
  BY <1>1, <1>2, RingSeq, Mapped
<1>6. Len(Append(Edited, c)) = Len(Edited) + 1
  BY <1>5
<1>7. e1 \in 0..(UMOD - 1) /\ b1 \in Buffers
  <2>1. e % INPUT_BUF \in 0..(INPUT_BUF - 1)
    BY <1>1, Sizes
  <2> QED
    BY <1>1, <1>2, <2>1, Increment DEF Buffers
<1>8. Line!Type(c)
  <2>1. CASE Ends(c)
    <3>1. Edited' = <<>>
      <4>1. Edited' = Ring(b1, e1, e1)
        BY <1>3, <2>1, Mapped
      <4> HIDE DEF b1, e1
      <4> QED
        BY <1>7, <4>1, RingEmpty
    <3>2. Complete' = Complete \o Append(Edited, c)
      <4>1. Complete' = Ring(b1, r, e1)
        BY <1>3, <2>1, Mapped
      <4>2. Ring(b1, r, e1) = Append(Ring(buf, r, e), c)
        BY <1>0, <1>1, <1>2, RingAppend
      <4>3. Ring(buf, r, e) = Complete \o Edited
        BY <1>1, <1>2, RingConcat, Mapped
      <4>4. Append(Complete \o Edited, c) = Complete \o Append(Edited, c)
        <5> DEFINE u == Append(Complete \o Edited, c)
                   v == Complete \o Append(Edited, c)
        <5>1. u \in Seq(Chars) /\ v \in Seq(Chars) /\ Len(u) = Len(v)
          BY <1>5
        <5>2. ASSUME NEW k \in 1..Len(u) PROVE u[k] = v[k]
          BY <1>5
        <5> HIDE DEF u, v
        <5>3. u = v
          BY <5>1, <5>2
        <5> QED
          BY <5>3 DEF u, v
      <4> QED
        BY <4>1, <4>2, <4>3, <4>4
    <3>3. c \in {Newline, Eof} \/ Len(Complete) + Len(Append(Edited, c)) = INPUT_BUF
      BY <1>1, <1>5, <1>6, <2>1 DEF Ends
    <3> QED
      BY <1>0, <1>1, <1>4, <1>5, <3>1, <3>2, <3>3 DEF Line!Type
  <2>2. CASE ~Ends(c)
    <3>1. w' = w
      BY <1>3, <2>2
    <3>2. Edited' = Append(Edited, c)
      <4>1. Edited' = Ring(b1, w, e1)
        BY <1>3, <3>1, Mapped
      <4>2. Sub(e, w) < INPUT_BUF
        BY <1>0, <1>1
      <4>3. Ring(b1, w, e1) = Append(Ring(buf, w, e), c)
        BY <1>0, <1>1, <1>2, <4>2, RingAppend
      <4> QED
        BY <4>1, <4>3, Mapped
    <3>3. Complete' = Complete
      <4>1. ASSUME NEW k \in 0..(Sub(w, r) - 1)
            PROVE  b1[(r + k) % INPUT_BUF] = buf[(r + k) % INPUT_BUF]
        <5>1. k \in 0..(Sub(e, r) - 1) /\ k \in Nat
          BY <1>1
        <5>2. (r + k) % INPUT_BUF # e % INPUT_BUF
          BY <1>0, <1>1, <5>1, FreePlace
        <5>3. (r + k) % INPUT_BUF \in 0..(INPUT_BUF - 1)
          BY <1>1, <5>1, Place
        <5> QED
          BY <1>2, <5>2, <5>3 DEF Buffers
      <4>2. Complete' = Ring(b1, r, w)
        BY <1>3, <3>1, Mapped
      <4> HIDE DEF b1
      <4>3. Ring(b1, r, w) = Ring(buf, r, w)
        BY <1>1, <1>2, <1>7, <4>1, RingSame
      <4> QED
        BY <4>2, <4>3, Mapped
    <3>4. ~(c \in {Newline, Eof} \/ Len(Complete) + Len(Append(Edited, c)) = INPUT_BUF)
      BY <1>1, <1>5, <1>6, <2>2 DEF Ends
    <3> QED
      BY <1>0, <1>1, <1>4, <1>5, <3>2, <3>3, <3>4 DEF Line!Type
  <2> QED
    BY <2>1, <2>2
<1> QED
  BY <1>0, <1>8 DEF Line!Next

\* ^H and ^U erase; other keys do nothing before they are stored.
LEMMA EditErases ==
  ASSUME ConsoleInv, NEW c \in Chars, consoleintr(c)
  PROVE  Line!Next \/ UNCHANGED <<Edited, Complete, Got>>
<1>0. TypeOK /\ Rings /\ buf \in Buffers
  BY DEF ConsoleInv, TypeOK, Buffers
<1>1. r \in 0..(UMOD - 1) /\ w \in 0..(UMOD - 1) /\ e \in 0..(UMOD - 1)
  BY <1>0, Indices
<1>2. UNCHANGED <<buf, r, w, target, n>>
  BY DEF consoleintr, argVars
<1>3. Complete' = Complete /\ Got' = Got
  BY <1>2, Mapped DEF Got
<1>4. Unended = Sub(e, w) /\ Sub(e, Sub(e, w)) = w
  BY <1>0, <1>1, RubOut, SubStep
<1>5. e' = e \/ e' = w \/ (e # w /\ e' = Sub(e, 1))
  BY <1>4 DEF consoleintr
<1>6. CASE e' = e
  BY <1>2, <1>6, LineSame
<1>7. CASE e' = w
  <2>1. Edited' = <<>>
    BY <1>0, <1>1, <1>2, <1>7, RingEmpty, Mapped
  <2> QED
    BY <1>3, <2>1 DEF Line!Next, Line!EraseLine
<1>8. CASE e # w /\ e' = Sub(e, 1)
  <2>1. Edited # <<>> /\ Edited' = Front(Edited)
    BY <1>0, <1>1, <1>2, <1>8, RingFront, Mapped
  <2> QED
    BY <1>3, <2>1 DEF Line!Next, Line!Erase, Line!Front, Front
<1> QED
  BY <1>5, <1>6, <1>7, <1>8

\* A read that ends has nothing.
LEMMA ReturnForgets ==
  ASSUME ConsoleInv, NEW p \in Procs, Return(p)
  PROVE  Got' = [Got EXCEPT ![p] = 0]
<1>1. target \in [Procs -> Nat] /\ n \in [Procs -> Nat]
  BY DEF ConsoleInv, TypeOK
<1>2. target' = [target EXCEPT ![p] = 0] /\ n' = [n EXCEPT ![p] = 0]
  BY DEF Return
<1>3. ASSUME NEW q \in Procs PROVE Got'[q] = [Got EXCEPT ![p] = 0][q]
  BY <1>1, <1>2 DEF Got
<1> QED
  BY <1>3 DEF Got

\* What the steps of a read do to the lines.
LEMMA ReadTakes ==
  ASSUME ConsoleInv, NEW p \in Procs, read_eof(p) \/ read_char(p) \/ read_fault(p)
  PROVE  Line!Next
<1>0. TypeOK /\ Reads /\ buf \in Buffers
  BY DEF ConsoleInv, TypeOK, Buffers
<1>1. /\ r \in 0..(UMOD - 1) /\ w \in 0..(UMOD - 1) /\ e \in 0..(UMOD - 1)
      /\ n[p] \in Nat /\ target[p] \in Nat
  BY <1>0, Indices DEF TypeOK
<1>2. UNCHANGED <<buf, w, e>> /\ r # w /\ pc[p] = "read" /\ n[p] > 0
  BY DEF read_eof, read_char, read_fault
<1>3. n[p] <= target[p] /\ target[p] # 0
  BY <1>0, <1>1, <1>2 DEF Reads
<1>4. Edited' = Edited
  BY <1>2, Mapped
<1>5. /\ Complete # <<>> /\ Head(Complete) = buf[r % INPUT_BUF]
      /\ r' = (r + 1) % UMOD => Complete' = Tail(Complete)
  BY <1>0, <1>1, <1>2, RingTail, Mapped
<1>6. Got[p] = target[p] - n[p] /\ Got = [q \in Procs |-> Got[q]]
  BY <1>3 DEF Got
<1>7. CASE read_eof(p) /\ n[p] < target[p]
  <2>1. Return(p) /\ r' = r
    BY <1>7 DEF read_eof
  <2>2. Complete' = Complete
    BY <1>2, <2>1, Mapped
  <2> QED
    BY <1>4, <2>1, <2>2, ReturnForgets DEF Line!Next, Line!Return
<1>8. CASE read_eof(p) /\ ~(n[p] < target[p])
  <2>1. Return(p) /\ r' = (r + 1) % UMOD /\ buf[r % INPUT_BUF] = Eof
    BY <1>8 DEF read_eof
  <2>2. Got[p] = 0
    BY <1>1, <1>3, <1>6, <1>8
  <2>3. Got' = Got
    BY <1>6, <2>1, <2>2, ReturnForgets
  <2> QED
    BY <1>4, <1>5, <2>1, <2>2, <2>3 DEF Line!Next, Line!GetEof
<1>9. CASE read_char(p)
  <2>1. /\ r' = (r + 1) % UMOD /\ buf[r % INPUT_BUF] # Eof
        /\ n' = [n EXCEPT ![p] = n[p] - 1] /\ target' = target
    BY <1>9 DEF read_char
  <2>2. ASSUME NEW q \in Procs PROVE Got'[q] = [Got EXCEPT ![p] = Got[p] + 1][q]
    <3>1. n[q] \in Nat /\ target[q] \in Nat /\ n'[q] = IF q = p THEN n[p] - 1 ELSE n[q]
      BY <1>0, <2>1 DEF TypeOK
    <3>2. Got'[q] = target[q] - (IF target[q] = 0 THEN 0 ELSE n'[q])
      BY <2>1 DEF Got
    <3>3. Got[q] = target[q] - (IF target[q] = 0 THEN 0 ELSE n[q])
      BY DEF Got
    <3>4. CASE q = p
      BY <1>1, <1>3, <1>6, <3>1, <3>2, <3>4
    <3>5. CASE q # p
      BY <1>6, <3>1, <3>2, <3>3, <3>5
    <3> QED
      BY <3>4, <3>5
  <2>3. Got' = [Got EXCEPT ![p] = Got[p] + 1]
    BY <2>2 DEF Got
  <2> QED
    BY <1>4, <1>5, <2>1, <2>3 DEF Line!Next, Line!Get
<1>10. CASE read_fault(p)
  <2>1. Return(p) /\ r' = (r + 1) % UMOD /\ buf[r % INPUT_BUF] # Eof
    BY <1>10 DEF read_fault
  <2> QED
    BY <1>4, <1>5, <2>1, ReturnForgets DEF Line!Next, Line!Lose
<1> QED
  BY <1>7, <1>8, <1>9, <1>10

\* The start of a read or of a sleep() leaves what the reads have.
LEMMA StartKeepsGot ==
  ASSUME ConsoleInv, NEW p \in Procs, UNCHANGED <<buf, r, w, e>>,
         \/ sleep_check(p)
         \/ \E len \in ReadLens : consoleread(p, len)
         \/ \E a \in SleepArgs : sys_sleep(p, a)
  PROVE  UNCHANGED <<Edited, Complete, Got>>
<1>0. TypeOK /\ Reads
  BY DEF ConsoleInv
<1>1. target \in [Procs -> Nat] /\ n \in [Procs -> Nat]
  BY <1>0 DEF TypeOK
<1>2. target[p] = 0
  BY <1>0 DEF sleep_check, consoleread, sys_sleep, Reads
<1>3. \/ target' = target /\ \E k : n' = [n EXCEPT ![p] = k]
      \/ \E k \in Nat : target' = [target EXCEPT ![p] = k] /\ n' = [n EXCEPT ![p] = k]
  <2>1. CASE sleep_check(p)
    <3>1. target' = target /\ (n' = n \/ n' = [n EXCEPT ![p] = 0])
      BY <2>1, Zenon DEF sleep_check
    <3>2. n = [n EXCEPT ![p] = n[p]]
      BY <1>1
    <3> QED
      BY <3>1, <3>2
  <2>2. ASSUME NEW len \in ReadLens, consoleread(p, len)
        PROVE  len \in Nat /\ target' = [target EXCEPT ![p] = len] /\ n' = [n EXCEPT ![p] = len]
    BY <2>2, SizesAssumption DEF consoleread
  <2>3. ASSUME NEW a \in SleepArgs, sys_sleep(p, a)
        PROVE  target' = target /\ n' = [n EXCEPT ![p] = a % TICKMOD]
    BY <2>3 DEF sys_sleep
  <2> QED
    BY <2>1, <2>2, <2>3
<1>4. ASSUME NEW q \in Procs PROVE Got'[q] = Got[q]
  <2>1. CASE q # p
    <3>1. target'[q] = target[q] /\ n'[q] = n[q]
      BY <1>1, <1>3, <2>1
    <3> QED
      BY <3>1 DEF Got
  <2>2. CASE q = p
    <3>1. Got[p] = 0
      BY <1>1, <1>2 DEF Got
    <3>2. target'[p] = 0 \/ (target'[p] \in Nat /\ n'[p] = target'[p])
      BY <1>1, <1>2, <1>3
    <3>3. Got'[p] = target'[p] - (IF target'[p] = 0 THEN 0 ELSE n'[p])
      BY DEF Got
    <3> QED
      BY <2>2, <3>1, <3>2, <3>3
  <2> QED
    BY <2>1, <2>2
<1>5. Got' = Got
  BY <1>4 DEF Got
<1>6. Edited' = Edited /\ Complete' = Complete
  BY Mapped
<1> QED
  BY <1>5, <1>6

\* Every step of the console is a step of LineInput or leaves it alone.
LEMMA LineStep ==
  ASSUME ConsoleInv, [Next]_vars
  PROVE  Line!Next \/ UNCHANGED <<Edited, Complete, Got>>
<1> USE DEF consVars, argVars
<1>0. TypeOK
  BY DEF ConsoleInv
<1>1. ASSUME NEW c \in Chars, Type(c) PROVE UNCHANGED <<Edited, Complete, Got>>
  BY <1>1, LineSame DEF Type
<1>2. ASSUME Transmit \/ plic_claim \/ uartgetc \/ uartintr_tx \/ uartputc_sync \/ uartputc_sync_thr \/ clockintr
      PROVE  UNCHANGED <<Edited, Complete, Got>>
  BY <1>2, LineSame DEF Transmit, plic_claim, uartgetc, uartintr_tx, uartputc_sync,
     uartputc_sync_thr, clockintr
<1>3. ASSUME NEW x \in Procs \cup {Intr}, uartstart_return(x) \/ uartstart_take(x) \/ uartstart_thr(x)
      PROVE  UNCHANGED <<Edited, Complete, Got>>
  BY <1>3, LineSame DEF uartstart_return, uartstart_take, uartstart_thr
<1>4. ASSUME NEW p \in Procs,
             \/ uartputc_full(p) \/ uartputc(p) \/ read_lock(p) \/ read_sleep(p)
             \/ ticks_sleep(p) \/ usertrap_exit(p) \/ consolewrite(p) \/ kill(p)
      PROVE  UNCHANGED <<Edited, Complete, Got>>
  BY <1>4, LineSame DEF uartputc_full, uartputc, read_lock, read_sleep, ticks_sleep,
     usertrap_exit, consolewrite, kill
<1>5. ASSUME NEW p \in Procs, sleep_check(p) PROVE UNCHANGED <<Edited, Complete, Got>>
  <2>1. UNCHANGED <<buf, r, w, e>>
    BY <1>5 DEF sleep_check
  <2> QED
    BY <1>5, <2>1, StartKeepsGot
<1>6. ASSUME NEW p \in Procs, NEW len \in ReadLens, consoleread(p, len)
      PROVE  UNCHANGED <<Edited, Complete, Got>>
  <2>1. UNCHANGED <<buf, r, w, e>>
    BY <1>6 DEF consoleread
  <2> QED
    BY <1>6, <2>1, StartKeepsGot
<1>7. ASSUME NEW p \in Procs, NEW a \in SleepArgs, sys_sleep(p, a)
      PROVE  UNCHANGED <<Edited, Complete, Got>>
  <2>1. UNCHANGED <<buf, r, w, e>>
    BY <1>7 DEF sys_sleep
  <2> QED
    BY <1>7, <2>1, StartKeepsGot
<1>8. ASSUME NEW p \in Procs, read_done(p) \/ read_empty(p)
      PROVE  Line!Next \/ UNCHANGED <<Edited, Complete, Got>>
  <2>1. UNCHANGED <<buf, r, w, e>> /\ (Return(p) \/ UNCHANGED <<target, n>>)
    BY <1>8 DEF read_done, read_empty
  <2>2. CASE Return(p)
    <3>1. Edited' = Edited /\ Complete' = Complete
      BY <2>1, Mapped
    <3> QED
      BY <2>2, <3>1, ReturnForgets DEF Line!Next, Line!Return
  <2>3. CASE UNCHANGED <<target, n>>
    BY <2>1, <2>3, LineSame
  <2> QED
    BY <2>1, <2>2, <2>3
<1>9. ASSUME NEW c \in Chars, consoleintr_store(c)
      PROVE  Line!Next \/ UNCHANGED <<Edited, Complete, Got>>
  <2>1. CASE Stores(c)
    BY <1>9, <2>1, StoreTypes
  <2>2. CASE ~Stores(c)
    BY <1>9, <2>2, LineSame DEF consoleintr_store
  <2> QED
    BY <2>1, <2>2
<1>10. ASSUME NEW c \in Chars, consoleintr(c)
       PROVE  Line!Next \/ UNCHANGED <<Edited, Complete, Got>>
  BY <1>10, EditErases
<1>11. ASSUME NEW p \in Procs, read_eof(p) \/ read_char(p) \/ read_fault(p) PROVE Line!Next
  BY <1>11, ReadTakes
<1>12. CASE UNCHANGED vars
  BY <1>12, LineSame DEF vars
<1> QED
  BY <1>0, <1>1, <1>2, <1>3, <1>4, <1>5, <1>6, <1>7, <1>8, <1>9, <1>10, <1>11, <1>12,
     Actions

\* Initially there is no input.
LEMMA LineInit ==
  ASSUME Init
  PROVE  Line!Init
<1>1. 0 \in 0..(UMOD - 1) /\ buf \in Buffers
  BY Sizes DEF Init, Buffers, Chars
<1>2. Edited = <<>> /\ Complete = <<>>
  <2>1. Edited = Ring(buf, 0, 0) /\ Complete = Ring(buf, 0, 0)
    BY Mapped DEF Init
  <2> QED
    BY <1>1, <2>1, RingEmpty
<1>3. Got = [p \in Procs |-> 0]
  BY DEF Init, Got
<1> QED
  BY <1>2, <1>3 DEF Line!Init

\* The buffer with its three wrapping indices is an editable line and a queue
\* of complete ones, for every size of it (consoleread, consoleintr).
THEOREM ConsoleIsLineInput == Spec => IsLineInput
<1>1. Init => Line!Init
  BY LineInit
<1>2. ConsoleInv /\ [Next]_vars => [Line!Next]_<<Edited, Complete, Got>>
  BY LineStep
<1> QED
  BY <1>1, <1>2, ConsoleInvariant, PTL DEF Spec, IsLineInput, Line!Spec
=============================================================================
