----------------------------- MODULE PipeProofs -----------------------------
(***************************************************************************)
(* Theorems about Pipe, for every number of readers and writers and every  *)
(* size of the buffer and of the counters.                                 *)
(***************************************************************************)
EXTENDS Pipe, TLAPS

-----------------------------------------------------------------------------
(***************************************************************************)
(* Arithmetic of counters that wrap.                                       *)
(***************************************************************************)

\* A remainder is what is left when a multiple is taken off.
LEMMA ModIs ==
  ASSUME NEW m \in Nat \ {0}, NEW q \in Int, NEW r \in 0..(m - 1)
  PROVE  (q * m + r) % m = r
<1> DEFINE a == q * m + r
           d == a \div m
<1>1. a \in Int /\ d \in Int /\ a % m \in 0..(m - 1) /\ a = d * m + (a % m)
  OBVIOUS
<1>2. (d - q) * m = r - (a % m)
  BY <1>1
<1>3. d - q < 1
  <2>1. SUFFICES ASSUME d - q >= 1 PROVE FALSE
    BY <1>1
  <2>2. (d - q) * m >= m
    BY <1>1, <2>1
  <2> QED
    BY <1>1, <1>2, <2>2
<1>4. d - q > -1
  <2>1. SUFFICES ASSUME d - q <= -1 PROVE FALSE
    BY <1>1
  <2>2. (d - q) * m <= -m
    BY <1>1, <2>1
  <2> QED
    BY <1>1, <1>2, <2>2
<1> QED
  BY <1>1, <1>3, <1>4

\* One more, with wrap-around.
LEMMA Increment ==
  ASSUME NEW x \in 0..(UMOD - 1)
  PROVE  (x + 1) % UMOD = IF x = UMOD - 1 THEN 0 ELSE x + 1
<1>1. UMOD \in Nat /\ UMOD > 0
  BY SizeAssumption
<1> QED
  BY <1>1

\* The distance from r to w, whether w has wrapped around or not.
LEMMA Distance ==
  ASSUME NEW r \in 0..(UMOD - 1), NEW w \in 0..(UMOD - 1)
  PROVE  /\ (w + UMOD - r) % UMOD = IF w >= r THEN w - r ELSE w + UMOD - r
         /\ (w + UMOD - r) % UMOD \in 0..(UMOD - 1)
         /\ w = (r + PIPESIZE) % UMOD <=> (w + UMOD - r) % UMOD = PIPESIZE
<1>1. /\ UMOD \in Nat /\ PIPESIZE \in Nat /\ PIPESIZE > 0 /\ UMOD > PIPESIZE
  BY SizeAssumption
<1>2. (w + UMOD - r) % UMOD = IF w >= r THEN w - r ELSE w + UMOD - r
  <2>1. CASE w >= r
    <3>1. w + UMOD - r \in UMOD..(2 * UMOD - 1)
      BY <1>1, <2>1
    <3> QED
      BY <1>1, <2>1, <3>1
  <2>2. CASE w < r
    <3>1. w + UMOD - r \in 0..(UMOD - 1)
      BY <1>1, <2>2
    <3> QED
      BY <1>1, <2>2, <3>1
  <2> QED
    BY <2>1, <2>2
<1>3. (r + PIPESIZE) % UMOD = IF r + PIPESIZE < UMOD THEN r + PIPESIZE ELSE r + PIPESIZE - UMOD
  BY <1>1
<1> QED
  BY <1>1, <1>2, <1>3

\* Full and Empty in terms of the number of bytes in the pipe.
LEMMA CountBounds ==
  ASSUME TypeOK
  PROVE  /\ Count \in 0..(UMOD - 1)
         /\ Count = IF nwrite >= nread THEN nwrite - nread ELSE nwrite + UMOD - nread
         /\ Empty <=> Count = 0
         /\ Full <=> Count = PIPESIZE
<1>1. nread \in 0..(UMOD - 1) /\ nwrite \in 0..(UMOD - 1) /\ UMOD \in Nat
  BY SizeAssumption DEF TypeOK
<1>2. Count = IF nwrite >= nread THEN nwrite - nread ELSE nwrite + UMOD - nread
  BY <1>1, Distance DEF Count
<1>3. Full <=> Count = PIPESIZE
  BY <1>1, Distance DEF Count, Full
<1>4. Count \in 0..(UMOD - 1)
  BY <1>1, Distance DEF Count
<1>5. Empty <=> Count = 0
  BY <1>1, <1>2 DEF Empty
<1> QED
  BY <1>2, <1>3, <1>4, <1>5

\* A write into a pipe that is not full makes it one byte longer.
LEMMA CountPut ==
  ASSUME TypeOK, Count <= PIPESIZE, ~Full, nread' = nread, nwrite' = (nwrite + 1) % UMOD
  PROVE  nwrite' \in 0..(UMOD - 1) /\ Count' = Count + 1 /\ Count + 1 <= PIPESIZE
<1>1. /\ UMOD \in Nat /\ PIPESIZE \in Nat /\ UMOD > PIPESIZE
      /\ nread \in 0..(UMOD - 1) /\ nwrite \in 0..(UMOD - 1)
  BY SizeAssumption DEF TypeOK
<1>2. nwrite' = IF nwrite = UMOD - 1 THEN 0 ELSE nwrite + 1
  BY <1>1, Increment
<1>3. nwrite' \in 0..(UMOD - 1)
  BY <1>1, <1>2
<1>4. Count' = IF nwrite' >= nread THEN nwrite' - nread ELSE nwrite' + UMOD - nread
  BY <1>1, <1>3, Distance DEF Count
<1> QED
  BY <1>1, <1>2, <1>3, <1>4, CountBounds

\* A read from a pipe that is not empty makes it one byte shorter.
LEMMA CountGet ==
  ASSUME TypeOK, Count <= PIPESIZE, ~Empty, nwrite' = nwrite, nread' = (nread + 1) % UMOD
  PROVE  nread' \in 0..(UMOD - 1) /\ Count' = Count - 1
<1>1. /\ UMOD \in Nat /\ PIPESIZE \in Nat /\ UMOD > PIPESIZE
      /\ nread \in 0..(UMOD - 1) /\ nwrite \in 0..(UMOD - 1)
  BY SizeAssumption DEF TypeOK
<1>2. nread' = IF nread = UMOD - 1 THEN 0 ELSE nread + 1
  BY <1>1, Increment
<1>3. nread' \in 0..(UMOD - 1)
  BY <1>1, <1>2
<1>4. Count' = IF nwrite >= nread' THEN nwrite - nread' ELSE nwrite + UMOD - nread'
  BY <1>1, <1>3, Distance DEF Count
<1> QED
  BY <1>1, <1>2, <1>3, <1>4, CountBounds
-----------------------------------------------------------------------------
(***************************************************************************)
(* The invariant.                                                          *)
(***************************************************************************)

USE DEF Procs, PC, Goto, WakeReaders, WakeWriters, Wakeup

\* The flags stay Boolean.
LEMMA FlagsStep ==
  TypeOK /\ [Next]_vars => readopen' \in BOOLEAN /\ writeopen' \in BOOLEAN /\ freed' \in BOOLEAN
  BY ZenonT(60) DEF TypeOK, Next, Step, Gone, write_lock, write_fail, write_full, write_sleep,
     write_byte, write_done, read_test, read_sleep, read_byte, read_done, pipeclose,
     fileclose, kill, CallWrite, CallRead, vars, pipeVars

\* What a process has left to copy stays between 0 and n.
LEMMA TodoStep ==
  ASSUME todo \in [Procs -> 0..MAXN], NEW p \in Procs,
         NEW n \in 0..MAXN, todo' = [todo EXCEPT ![p] = n]
  PROVE  todo' \in [Procs -> 0..MAXN]
  OBVIOUS

\* Every step preserves the types.
LEMMA TypeStep == PipeInv /\ [Next]_vars => TypeOK'
<1> SUFFICES ASSUME PipeInv, [Next]_vars PROVE TypeOK'
  OBVIOUS
<1>0. TypeOK /\ readopen' \in BOOLEAN /\ writeopen' \in BOOLEAN /\ freed' \in BOOLEAN
  BY FlagsStep DEF PipeInv
<1>00. MAXN \in Nat /\ 0 \in 0..MAXN
  BY SizeAssumption
<1>1. ASSUME NEW p \in Procs, NEW n \in 0..MAXN, CallWrite(p, n) \/ CallRead(p, n) PROVE TypeOK'
  BY <1>0, <1>1 DEF TypeOK, CallWrite, CallRead, pipeVars
<1>2. ASSUME NEW p \in Procs, write_lock(p) \/ write_full(p) \/ write_sleep(p) \/ read_sleep(p)
      PROVE  TypeOK'
  BY <1>0, <1>2 DEF TypeOK, write_lock, write_full, write_sleep, read_sleep, pipeVars
<1>3. ASSUME NEW p \in Procs, write_fail(p) \/ write_done(p) \/ read_done(p) PROVE TypeOK'
  <2>1. todo' \in [Procs -> 0..MAXN]
    BY <1>0, <1>00, <1>3, TodoStep DEF TypeOK, write_fail, write_done, read_done
  <2> QED
    BY <1>0, <1>3, <2>1 DEF TypeOK, write_fail, write_done, read_done, pipeVars
<1>4. ASSUME NEW p \in Procs, NEW ch \in Vals, write_byte(p, ch) PROVE TypeOK'
  <2>1. todo[p] - 1 \in 0..MAXN
    BY <1>0, <1>00, <1>4 DEF TypeOK, write_byte
  <2>2. todo' \in [Procs -> 0..MAXN]
    BY <1>0, <1>4, <2>1 DEF TypeOK, write_byte
  <2>3. nwrite' \in 0..(UMOD - 1)
    BY <1>0, <1>4, CountPut DEF write_byte, PipeInv
  <2>4. data' \in [0..(PIPESIZE - 1) -> Vals]
    BY <1>0, <1>4 DEF TypeOK, write_byte
  <2> QED
    BY <1>0, <1>4, <2>2, <2>3, <2>4 DEF TypeOK, write_byte
<1>5. ASSUME NEW p \in Procs, read_test(p) PROVE TypeOK'
  <2>1. todo' \in [Procs -> 0..MAXN]
    BY <1>0, <1>00, <1>5, TodoStep DEF TypeOK, read_test
  <2>2. pc' \in [Procs -> PC] /\ lock' \in Procs \cup {None}
    BY <1>0, <1>5 DEF TypeOK, read_test
  <2> QED
    BY <1>0, <1>5, <2>1, <2>2 DEF TypeOK, read_test, pipeVars
<1>6. ASSUME NEW p \in Procs, read_byte(p) PROVE TypeOK'
  <2>1. todo[p] - 1 \in 0..MAXN
    BY <1>0, <1>00, <1>6 DEF TypeOK, read_byte
  <2>2. todo' \in [Procs -> 0..MAXN]
    BY <1>0, <1>00, <1>6, <2>1, TodoStep DEF TypeOK, read_byte
  <2>3. nread' \in 0..(UMOD - 1)
    BY <1>0, <1>6, CountGet DEF read_byte, PipeInv
  <2> QED
    BY <1>0, <1>6, <2>2, <2>3 DEF TypeOK, read_byte
<1>7. ASSUME NEW p \in Procs, fileclose(p) \/ pipeclose(p) PROVE TypeOK'
  <2>1. pc' \in [Procs -> PC]
    BY <1>0, <1>7 DEF TypeOK, fileclose, pipeclose
  <2> QED
    BY <1>0, <1>7, <2>1 DEF TypeOK, fileclose, pipeclose, pipeVars
<1>8. ASSUME NEW p \in Procs, kill(p) PROVE TypeOK'
  <2>1. pc' \in [Procs -> PC]
    BY <1>0, <1>8 DEF TypeOK, kill
  <2>2. killed' \in [Procs -> BOOLEAN]
    BY <1>0, <1>8 DEF TypeOK, kill
  <2> QED
    BY <1>0, <1>8, <2>1, <2>2 DEF TypeOK, kill, pipeVars
<1>9. CASE UNCHANGED vars
  BY <1>0, <1>9 DEF TypeOK, vars, pipeVars
<1> QED
  BY <1>1, <1>2, <1>3, <1>4, <1>5, <1>6, <1>7, <1>8, <1>9 DEF Next, Step, Gone

\* The lock and the labels of its holder.
LEMMA LockStep == PipeInv /\ [Next]_vars => LockHeld'
<1> SUFFICES ASSUME PipeInv, [Next]_vars PROVE LockHeld'
  OBVIOUS
<1>0. TypeOK /\ LockHeld /\ None \notin Procs /\ Readers \cap Writers = {}
  BY ProcAssumption DEF PipeInv
<1>1. ASSUME NEW p \in Writers, NEW n \in 0..MAXN, CallWrite(p, n) PROVE LockHeld'
  BY <1>0, <1>1 DEF TypeOK, LockHeld, CallWrite
<1>2. ASSUME NEW p \in Readers, NEW n \in 0..MAXN, CallRead(p, n) PROVE LockHeld'
  BY <1>0, <1>2 DEF TypeOK, LockHeld, CallRead
<1>3. ASSUME NEW p \in Procs, write_lock(p) \/ write_sleep(p) \/ write_fail(p) PROVE LockHeld'
  BY <1>0, <1>3 DEF TypeOK, LockHeld, write_lock, write_sleep, write_fail
<1>4. ASSUME NEW p \in Procs, write_full(p) \/ write_done(p) PROVE LockHeld'
  BY <1>0, <1>4 DEF TypeOK, LockHeld, write_full, write_done
<1>5. ASSUME NEW p \in Procs, NEW ch \in Vals, write_byte(p, ch) PROVE LockHeld'
  BY <1>0, <1>5 DEF TypeOK, LockHeld, write_byte
<1>6. ASSUME NEW p \in Procs, read_test(p) PROVE LockHeld'
  BY <1>0, <1>6 DEF TypeOK, LockHeld, read_test
<1>7. ASSUME NEW p \in Procs, read_sleep(p) \/ read_byte(p) \/ read_done(p) PROVE LockHeld'
  BY <1>0, <1>7 DEF TypeOK, LockHeld, read_sleep, read_byte, read_done
<1>8. ASSUME NEW p \in Procs, fileclose(p) PROVE LockHeld'
  BY <1>0, <1>8 DEF TypeOK, LockHeld, fileclose
<1>9. ASSUME NEW p \in Procs, pipeclose(p) PROVE LockHeld'
  BY <1>0, <1>9 DEF TypeOK, LockHeld, pipeclose
<1>10. ASSUME NEW p \in Procs, kill(p) PROVE LockHeld'
  BY <1>0, <1>10 DEF TypeOK, LockHeld, kill
<1>11. CASE UNCHANGED vars
  BY <1>0, <1>11 DEF LockHeld, vars
<1> QED
  BY <1>1, <1>2, <1>3, <1>4, <1>5, <1>6, <1>7, <1>8, <1>9, <1>10, <1>11
  DEF Next, Step, Gone

\* Which processes have closed their end, and what that says of the pipe.
LEMMA EndsStep == PipeInv /\ [Next]_vars => EndsClosed'
<1> SUFFICES ASSUME PipeInv, [Next]_vars PROVE EndsClosed'
  OBVIOUS
<1>0. /\ TypeOK /\ EndsClosed /\ LockHeld /\ NoUseAfterFree
      /\ Readers \cap Writers = {}
  BY ProcAssumption DEF PipeInv
<1>1. ASSUME UNCHANGED <<readopen, writeopen, freed, open>>,
             \A p \in Procs : /\ pc[p] = "closed" => pc'[p] = "closed"
                              /\ pc'[p] \in {"close", "closed"} => pc'[p] = pc[p]
                              /\ pc[p] = "close" => pc'[p] = "close"
      PROVE  EndsClosed'
  BY <1>0, <1>1 DEF EndsClosed
<1>2. ASSUME NEW p \in Procs,
             \/ write_lock(p) \/ write_fail(p) \/ write_full(p) \/ write_sleep(p)
             \/ write_done(p) \/ read_test(p) \/ read_sleep(p) \/ read_done(p) \/ kill(p)
      PROVE  EndsClosed'
  <2>1. UNCHANGED <<readopen, writeopen, freed, open>>
    BY <1>2 DEF write_lock, write_fail, write_full, write_sleep, write_done,
       read_test, read_sleep, read_done, kill, pipeVars
  <2>2. ASSUME NEW q \in Procs
        PROVE  /\ pc[q] = "closed" => pc'[q] = "closed"
               /\ pc'[q] \in {"close", "closed"} => pc'[q] = pc[q]
               /\ pc[q] = "close" => pc'[q] = "close"
    BY <1>0, <1>2 DEF TypeOK, write_lock, write_fail, write_full, write_sleep,
       write_done, read_test, read_sleep, read_done, kill
  <2> QED
    BY <1>1, <2>1, <2>2
<1>3. ASSUME NEW p \in Procs, NEW n \in 0..MAXN, CallWrite(p, n) \/ CallRead(p, n)
      PROVE  EndsClosed'
  BY <1>0, <1>1, <1>3 DEF TypeOK, CallWrite, CallRead, pipeVars
<1>4. ASSUME NEW p \in Procs, read_byte(p) \/ \E ch \in Vals : write_byte(p, ch)
      PROVE  EndsClosed'
  BY <1>1, <1>4 DEF read_byte, write_byte
<1>5. ASSUME NEW p \in Procs, fileclose(p) PROVE EndsClosed'
  <2>1. /\ pc[p] = "user" /\ open' = open \ {p}
        /\ UNCHANGED <<readopen, writeopen, freed>>
        /\ \/ /\ pc' = [pc EXCEPT ![p] = "close"]
              /\ \A q \in Procs : (q \in Writers <=> p \in Writers) => q \notin open'
           \/ pc' = [pc EXCEPT ![p] = "closed"]
    BY <1>0, <1>5 DEF fileclose, pipeVars
  <2>2. /\ p \in Readers => readopen
        /\ p \in Writers => writeopen
        /\ \A q \in Procs : (q \in Writers <=> p \in Writers) => pc[q] # "close"
    BY <1>0, <2>1 DEF EndsClosed
  <2>3. \A q \in Procs : q \in open' <=> pc'[q] \notin {"close", "closed"}
    BY <1>0, <2>1 DEF EndsClosed, TypeOK
  <2>4. ASSUME NEW q \in Procs, NEW r \in Procs, q \in Writers <=> r \in Writers,
               q # r, pc'[q] = "close"
        PROVE  pc'[r] = "closed"
    <3>1. CASE q = p
      BY <1>0, <2>1, <2>2, <2>3, <2>4, <3>1 DEF TypeOK
    <3>2. CASE q # p
      BY <1>0, <2>1, <2>2, <2>4, <3>2 DEF TypeOK, EndsClosed
    <3> QED
      BY <3>1, <3>2
  <2>5. /\ ~readopen => \A q \in Readers : pc'[q] = "closed"
        /\ ~writeopen => \A q \in Writers : pc'[q] = "closed"
    BY <1>0, <2>1, <2>2 DEF TypeOK, EndsClosed
  <2> QED
    BY <1>0, <2>1, <2>3, <2>4, <2>5 DEF EndsClosed
<1>6. ASSUME NEW p \in Procs, pipeclose(p) PROVE EndsClosed'
  <2>1. /\ pc[p] = "close" /\ open' = open
        /\ freed' = (~readopen' /\ ~writeopen')
    BY <1>6 DEF pipeclose
  <2>2. \A q \in Procs : /\ pc'[q] = "closed" <=> q = p \/ pc[q] = "closed"
                         /\ pc'[q] = "close" <=> q # p /\ pc[q] = "close"
    BY <1>0, <1>6 DEF pipeclose, TypeOK
  <2>3. \A q \in Procs : (q \in Writers <=> p \in Writers) => pc'[q] = "closed"
    BY <1>0, <2>1, <2>2 DEF EndsClosed
  <2>4. /\ ~readopen' => ~readopen \/ p \in Readers
        /\ ~writeopen' => ~writeopen \/ p \in Writers
    BY <1>0, <1>6 DEF pipeclose
  <2>5. /\ ~readopen' => \A q \in Readers : pc'[q] = "closed"
        /\ ~writeopen' => \A q \in Writers : pc'[q] = "closed"
    BY <1>0, <2>2, <2>3, <2>4 DEF EndsClosed
  <2> QED
    BY <1>0, <2>1, <2>2, <2>3, <2>5 DEF EndsClosed
<1>7. CASE UNCHANGED vars
  BY <1>1, <1>7 DEF vars, pipeVars
<1> QED
  BY <1>2, <1>3, <1>4, <1>5, <1>6, <1>7 DEF Next, Step, Gone

\* A process sleeps only while somebody is bound to wake it.
LEMMA SleepersStep == PipeInv /\ [Next]_vars => Sleepers'
<1> SUFFICES ASSUME PipeInv, [Next]_vars PROVE Sleepers'
  OBVIOUS
<1>0. /\ TypeOK /\ EndsClosed /\ LockHeld /\ Sleepers
      /\ None \notin Procs /\ Readers \cap Writers = {}
  BY ProcAssumption DEF PipeInv
<1>e. /\ PIPESIZE > 0 /\ ~(Empty /\ Full)
  BY <1>0, CountBounds, SizeAssumption
<1>c. UNCHANGED <<nread, nwrite>> => Empty' = Empty /\ Full' = Full
  BY DEF Empty, Full
<1> HIDE DEF Procs
<1>p. Procs = Readers \cup Writers
  BY DEF Procs
<1>1. ASSUME NEW p \in Procs, NEW n \in 0..MAXN, CallWrite(p, n) \/ CallRead(p, n)
      PROVE  Sleepers'
  BY <1>0, <1>c, <1>p, <1>1 DEF Sleepers, TypeOK, CallWrite, CallRead, pipeVars
<1>2. ASSUME NEW p \in Procs, write_lock(p) \/ write_sleep(p) PROVE Sleepers'
  BY <1>0, <1>c, <1>p, <1>2 DEF Sleepers, TypeOK, LockHeld, write_lock, write_sleep, pipeVars
<1>3. ASSUME NEW p \in Procs, write_fail(p) PROVE Sleepers'
  <2>1. /\ UNCHANGED <<readopen, writeopen, killed>> /\ Empty' = Empty /\ Full' = Full
        /\ pc' = [pc EXCEPT ![p] = "user"] /\ pc[p] = "write"
        /\ ~readopen \/ killed[p]
    BY <1>3, <1>c DEF write_fail, pipeVars
  <2>2. p \in Writers
    BY <1>0, <1>p, <2>1 DEF LockHeld
  <2>3. ASSUME NEW q \in Procs, pc[q] = "rsleep" PROVE \E w \in Writers : killed[w]
    BY <1>0, <1>p, <2>1, <2>2, <2>3 DEF EndsClosed, LockHeld
  <2> QED
    BY <1>0, <1>p, <2>1, <2>2, <2>3 DEF Sleepers, TypeOK
<1>4. ASSUME NEW p \in Procs, write_full(p) \/ write_done(p) PROVE Sleepers'
  <2>1. /\ UNCHANGED <<readopen, writeopen, killed>> /\ Empty' = Empty /\ Full' = Full
        /\ pc[p] = "write"
        /\ \/ pc' = WakeReaders(p, "wfull") /\ Full /\ readopen
           \/ pc' = WakeReaders(p, "user")
    BY <1>4, <1>c DEF write_full, write_done, pipeVars
  <2>2. lock = p
    BY <1>0, <2>1 DEF LockHeld
  <2>3. ASSUME NEW q \in Procs PROVE pc'[q] # "rsleep" /\ pc'[q] # "rempty"
    BY <1>0, <2>1, <2>2 DEF TypeOK, LockHeld
  <2>4. ASSUME NEW q \in Procs, pc'[q] = "wsleep"
        PROVE  readopen /\ (Full \/ \E r \in Readers : pc'[r] = "rcopy")
    BY <1>0, <1>p, <2>1, <2>2, <2>4 DEF TypeOK, Sleepers, LockHeld
  <2>5. ASSUME NEW q \in Procs, pc'[q] = "wfull" PROVE Full /\ readopen
    BY <1>0, <2>1, <2>5 DEF TypeOK, Sleepers
  <2> QED
    BY <2>1, <2>3, <2>4, <2>5 DEF Sleepers
<1>5. ASSUME NEW p \in Procs, NEW ch \in Vals, write_byte(p, ch) PROVE Sleepers'
  <2>1. UNCHANGED <<readopen, writeopen, killed, pc>> /\ pc[p] = "write" /\ ~Full
    BY <1>5 DEF write_byte
  <2>2. lock = p /\ p \in Writers
    BY <1>0, <1>p, <2>1 DEF LockHeld
  <2>3. \A q \in Procs : pc[q] \notin {"wsleep", "wfull", "rempty"}
    BY <1>0, <1>p, <2>1, <2>2 DEF Sleepers, LockHeld
  <2> QED
    BY <1>0, <2>1, <2>2, <2>3 DEF Sleepers
<1>6. ASSUME NEW p \in Procs, read_test(p) PROVE Sleepers'
  <2>1. /\ UNCHANGED <<readopen, writeopen, killed>> /\ Empty' = Empty /\ Full' = Full
        /\ pc[p] = "rlock"
        /\ \/ pc' = [pc EXCEPT ![p] = "user"]
           \/ pc' = [pc EXCEPT ![p] = "rempty"] /\ Empty /\ writeopen
           \/ pc' = [pc EXCEPT ![p] = "rcopy"]
    BY <1>6, <1>c DEF read_test, pipeVars
  <2> QED
    BY <1>0, <1>p, <2>1 DEF Sleepers, TypeOK
<1>7. ASSUME NEW p \in Procs, read_sleep(p) PROVE Sleepers'
  BY <1>0, <1>c, <1>7 DEF Sleepers, TypeOK, read_sleep, pipeVars
<1>8. ASSUME NEW p \in Procs, read_byte(p) PROVE Sleepers'
  <2>1. UNCHANGED <<readopen, writeopen, killed, pc>> /\ pc[p] = "rcopy" /\ ~Empty
    BY <1>8 DEF read_byte
  <2>2. lock = p /\ p \in Readers
    BY <1>0, <1>p, <2>1 DEF LockHeld
  <2>3. \A q \in Procs : pc[q] \notin {"wfull", "rempty"}
    BY <1>0, <1>p, <2>1, <2>2 DEF LockHeld
  <2> QED
    BY <1>0, <2>1, <2>2, <2>3 DEF Sleepers
<1>9. ASSUME NEW p \in Procs, read_done(p) PROVE Sleepers'
  <2>1. /\ UNCHANGED <<readopen, writeopen, killed>> /\ Empty' = Empty /\ Full' = Full
        /\ pc[p] = "rcopy" /\ pc' = WakeWriters(p, "user")
    BY <1>9, <1>c DEF read_done, pipeVars
  <2>2. lock = p /\ p \in Readers
    BY <1>0, <1>p, <2>1 DEF LockHeld
  <2>3. \A q \in Procs : pc[q] \notin {"wfull", "rempty", "write"}
    BY <1>0, <1>p, <2>1, <2>2 DEF LockHeld
  <2>4. ASSUME NEW q \in Procs
        PROVE  /\ pc'[q] \notin {"wfull", "rempty", "wsleep"}
               /\ pc'[q] = "rsleep" => pc[q] = "rsleep"
    BY <1>0, <2>1, <2>3 DEF TypeOK
  <2> QED
    BY <1>0, <1>p, <2>1, <2>3, <2>4 DEF Sleepers
<1>10. ASSUME NEW p \in Procs, fileclose(p) PROVE Sleepers'
  <2>1. /\ UNCHANGED <<readopen, writeopen, killed>> /\ Empty' = Empty /\ Full' = Full
        /\ pc[p] = "user"
        /\ pc' = [pc EXCEPT ![p] = "close"] \/ pc' = [pc EXCEPT ![p] = "closed"]
    BY <1>10, <1>c DEF fileclose, pipeVars
  <2> QED
    BY <1>0, <1>p, <2>1 DEF Sleepers, TypeOK
<1>11. ASSUME NEW p \in Procs, pipeclose(p) PROVE Sleepers'
  <2>1. /\ UNCHANGED killed /\ Empty' = Empty /\ Full' = Full
        /\ pc[p] = "close" /\ lock = None
    BY <1>11, <1>c DEF pipeclose
  <2>2. \A q \in Procs : pc[q] \notin {"wfull", "rempty", "write", "rcopy"}
    BY <1>0, <2>1 DEF LockHeld
  <2>3. CASE p \in Writers
    <3>1. pc' = WakeReaders(p, "closed") /\ UNCHANGED readopen
      BY <1>11, <2>3 DEF pipeclose
    <3>2. ASSUME NEW q \in Procs
          PROVE  pc'[q] \notin {"wfull", "rempty", "rsleep"} /\ (pc'[q] = "wsleep" => pc[q] = "wsleep")
      BY <1>0, <2>2, <3>1 DEF TypeOK
    <3> QED
      BY <1>0, <1>p, <2>1, <2>2, <3>1, <3>2 DEF Sleepers
  <2>4. CASE p \notin Writers
    <3>1. pc' = WakeWriters(p, "closed") /\ UNCHANGED writeopen
      BY <1>11, <2>4 DEF pipeclose
    <3>2. ASSUME NEW q \in Procs
          PROVE  pc'[q] \notin {"wfull", "rempty", "wsleep"} /\ (pc'[q] = "rsleep" => pc[q] = "rsleep")
      BY <1>0, <2>2, <3>1 DEF TypeOK
    <3> QED
      BY <1>0, <1>p, <2>1, <2>2, <3>1, <3>2 DEF Sleepers
  <2> QED
    BY <2>3, <2>4
<1>12. ASSUME NEW p \in Procs, kill(p) PROVE Sleepers'
  <2>1. /\ UNCHANGED <<readopen, writeopen>> /\ Empty' = Empty /\ Full' = Full
    BY <1>12, <1>c DEF kill, pipeVars
  <2>2. \A q \in Procs : killed[q] => killed'[q]
    BY <1>0, <1>12 DEF kill, TypeOK
  <2>3. \A q \in Procs : pc'[q] = pc[q] \/ (pc[q] \in {"rsleep", "wsleep"}
                                              /\ pc'[q] \in {"rlock", "wlock"})
    BY <1>0, <1>12 DEF kill, TypeOK
  <2> QED
    BY <1>0, <1>p, <2>1, <2>2, <2>3 DEF Sleepers
<1>13. CASE UNCHANGED vars
  BY <1>0, <1>c, <1>13 DEF Sleepers, vars, pipeVars
<1> QED
  BY <1>1, <1>2, <1>3, <1>4, <1>5, <1>6, <1>7, <1>8, <1>9, <1>10, <1>11, <1>12, <1>13, <1>p
  DEF Next, Step, Gone

\* The pipe never holds more than PIPESIZE bytes.
LEMMA CountStep == PipeInv /\ [Next]_vars => Count' <= PIPESIZE
<1> SUFFICES ASSUME PipeInv, [Next]_vars PROVE Count' <= PIPESIZE
  OBVIOUS
<1>0. TypeOK /\ Count <= PIPESIZE
  BY DEF PipeInv
<1>1. ASSUME UNCHANGED <<nread, nwrite>> PROVE Count' <= PIPESIZE
  BY <1>0, <1>1 DEF Count
<1>2. ASSUME NEW p \in Procs, NEW ch \in Vals, write_byte(p, ch) PROVE Count' <= PIPESIZE
  BY <1>0, <1>2, CountPut DEF write_byte
<1>3. ASSUME NEW p \in Procs, read_byte(p) PROVE Count' <= PIPESIZE
  <2>1. Count' = Count - 1 /\ Count \in Nat /\ PIPESIZE \in Nat
    BY <1>0, <1>3, CountGet, CountBounds, SizeAssumption DEF read_byte
  <2> QED
    BY <1>0, <2>1
<1> QED
  BY <1>1, <1>2, <1>3 DEF Next, Step, Gone, write_lock, write_fail, write_full, write_sleep,
     write_done, read_test, read_sleep, read_done, pipeclose, fileclose, kill, CallWrite,
     CallRead, vars, pipeVars

\* The initial states satisfy the invariant.
LEMMA PipeInvInit == Init => PipeInv
<1> SUFFICES ASSUME Init PROVE PipeInv
  OBVIOUS
<1>1. UMOD \in Nat /\ UMOD > PIPESIZE /\ PIPESIZE \in Nat \ {0} /\ MAXN \in Nat
  BY SizeAssumption
<1>2. TypeOK
  <2>1. readopen \in BOOLEAN /\ writeopen \in BOOLEAN /\ freed \in BOOLEAN
    BY DEF Init
  <2>2. killed \in [Procs -> BOOLEAN]
    BY DEF Init
  <2> QED
    BY <1>1, <2>1, <2>2 DEF Init, TypeOK
<1>3. Count <= PIPESIZE
  BY <1>1, <1>2, CountBounds DEF Init
<1>4. LockHeld /\ EndsClosed /\ Sleepers /\ NoUseAfterFree
  BY ProcAssumption DEF Init, LockHeld, EndsClosed, Sleepers, NoUseAfterFree
<1> QED
  BY <1>2, <1>3, <1>4 DEF PipeInv

\* The invariant holds at all times.  In particular kfree() of the pipe finds
\* nobody in it.
THEOREM PipeInvariant == Spec => []PipeInv
<1>1. EndsClosed => NoUseAfterFree
  BY DEF EndsClosed, NoUseAfterFree
<1>2. EndsClosed' => NoUseAfterFree'
  BY DEF EndsClosed, NoUseAfterFree
<1>3. PipeInv /\ [Next]_vars => PipeInv'
  BY <1>2, TypeStep, LockStep, EndsStep, SleepersStep, CountStep DEF PipeInv
<1> QED
  BY PipeInvInit, <1>3, PTL DEF Spec

\* The lost wakeup of a killed writer is the only one: with the lock free, a
\* sleeper's condition holds, or a writer was killed.
THEOREM WakeupsKept == Spec => []WakeupLostOnlyByKill
<1>1. PipeInv => WakeupLostOnlyByKill
  BY ProcAssumption DEF PipeInv, WakeupLostOnlyByKill, Sleepers, LockHeld
<1> QED
  BY PipeInvariant, <1>1, PTL
-----------------------------------------------------------------------------
(***************************************************************************)
(* The pipe implements Channel.                                            *)
(***************************************************************************)

\* The counters wrap at a multiple of the size of the buffer, so that wrapping
\* does not move a byte.
LEMMA ModPeriod ==
  ASSUME NEW x \in Int
  PROVE  (x + UMOD) % PIPESIZE = x % PIPESIZE
<1>1. PIPESIZE \in Nat \ {0} /\ UMOD \in Nat /\ UMOD % PIPESIZE = 0
  BY SizeAssumption
<1> DEFINE d == x \div PIPESIZE
           r == x % PIPESIZE
           m == UMOD \div PIPESIZE
<1>2. /\ d \in Int /\ m \in Int /\ r \in 0..(PIPESIZE - 1)
      /\ x = d * PIPESIZE + r /\ UMOD = m * PIPESIZE
  BY <1>1
<1> HIDE DEF d, r, m
<1>3. x + UMOD = (d + m) * PIPESIZE + r /\ d + m \in Int
  BY <1>1, <1>2
<1>4. ((d + m) * PIPESIZE + r) % PIPESIZE = r
  BY <1>1, <1>2, <1>3, ModIs
<1> QED
  BY <1>3, <1>4 DEF r

\* Bytes less than PIPESIZE apart are in different places of the buffer.
LEMMA ModDistinct ==
  ASSUME NEW x \in Int, NEW e \in 1..(PIPESIZE - 1)
  PROVE  (x + e) % PIPESIZE # x % PIPESIZE
<1>1. PIPESIZE \in Nat \ {0}
  BY SizeAssumption
<1> DEFINE d == x \div PIPESIZE
           r == x % PIPESIZE
<1>2. d \in Int /\ r \in 0..(PIPESIZE - 1) /\ x = d * PIPESIZE + r
  BY <1>1
<1> HIDE DEF d, r
<1>3. CASE r + e < PIPESIZE
  <2>1. x + e = d * PIPESIZE + (r + e) /\ r + e \in 0..(PIPESIZE - 1)
    BY <1>1, <1>2, <1>3
  <2>2. (d * PIPESIZE + (r + e)) % PIPESIZE = r + e
    BY <1>1, <1>2, <2>1, ModIs
  <2>3. (x + e) % PIPESIZE = r + e
    BY <2>1, <2>2
  <2> QED
    BY <1>1, <1>2, <2>3 DEF r
<1>4. CASE r + e >= PIPESIZE
  <2>1. /\ x + e = (d + 1) * PIPESIZE + (r + e - PIPESIZE)
        /\ r + e - PIPESIZE \in 0..(PIPESIZE - 1) /\ d + 1 \in Int
    BY <1>1, <1>2, <1>4
  <2>2. ((d + 1) * PIPESIZE + (r + e - PIPESIZE)) % PIPESIZE = r + e - PIPESIZE
    BY <1>1, <2>1, ModIs
  <2>3. (x + e) % PIPESIZE = r + e - PIPESIZE
    BY <2>1, <2>2
  <2> QED
    BY <1>1, <1>2, <2>3 DEF r
<1> QED
  BY <1>1, <1>2, <1>3, <1>4

\* The next byte goes into the place after the last one.
LEMMA WritePlace ==
  ASSUME TypeOK
  PROVE  nwrite % PIPESIZE = (nread + Count) % PIPESIZE
<1>1. nread + Count = nwrite \/ nread + Count = nwrite + UMOD
  BY CountBounds, SizeAssumption DEF TypeOK
<1>2. nwrite \in Int /\ nread \in Int
  BY SizeAssumption DEF TypeOK
<1> QED
  BY <1>1, <1>2, ModPeriod

\* Taking a byte moves the others one place forward.
LEMMA ReadPlace ==
  ASSUME TypeOK, nread' = (nread + 1) % UMOD, NEW k \in Nat \ {0}
  PROVE  (nread' + k - 1) % PIPESIZE = (nread + (k + 1) - 1) % PIPESIZE
<1>1. nread \in 0..(UMOD - 1) /\ UMOD \in Nat
  BY SizeAssumption DEF TypeOK
<1>2. nread' = nread + 1 \/ (nread' = 0 /\ nread = UMOD - 1)
  BY <1>1, Increment
<1>3. CASE nread' = nread + 1
  <2>1. nread' + k - 1 = nread + (k + 1) - 1
    BY <1>1, <1>3
  <2> QED
    BY <2>1
<1>4. CASE nread' = 0 /\ nread = UMOD - 1
  <2>1. nread + (k + 1) - 1 = (k - 1) + UMOD /\ nread' + k - 1 = k - 1 /\ k - 1 \in Int
    BY <1>1, <1>4
  <2>2. ((k - 1) + UMOD) % PIPESIZE = (k - 1) % PIPESIZE
    BY <2>1, ModPeriod
  <2> QED
    BY <2>1, <2>2
<1> QED
  BY <1>2, <1>3, <1>4

\* The contents are a sequence of Count bytes.
LEMMA ContentsType ==
  ASSUME TypeOK
  PROVE  Contents \in Seq(Vals) /\ Len(Contents) = Count
<1>1. Count \in Nat /\ nread \in Nat /\ PIPESIZE \in Nat \ {0}
  BY CountBounds, SizeAssumption DEF TypeOK
<1>2. ASSUME NEW k \in 1..Count PROVE data[(nread + k - 1) % PIPESIZE] \in Vals
  <2>1. nread + k - 1 \in Nat
    BY <1>1
  <2>2. (nread + k - 1) % PIPESIZE \in 0..(PIPESIZE - 1)
    BY <1>1, <2>1
  <2> QED
    BY <2>2 DEF TypeOK
<1> QED
  BY <1>1, <1>2 DEF Contents

\* What makes a sequence another one with an element appended.
LEMMA IsAppend ==
  ASSUME NEW S, NEW s \in Seq(S), NEW e \in S, NEW t \in Seq(S),
         Len(t) = Len(s) + 1, t[Len(s) + 1] = e, \A k \in 1..Len(s) : t[k] = s[k]
  PROVE  t = Append(s, e)
OBVIOUS

\* What makes a sequence another one without its first element.
LEMMA IsTail ==
  ASSUME NEW S, NEW s \in Seq(S), s # <<>>, NEW t \in Seq(S),
         Len(t) = Len(s) - 1, \A k \in 1..Len(t) : t[k] = s[k + 1]
  PROVE  t = Tail(s)
OBVIOUS

\* A function on an interval from 1 is a sequence.
LEMMA IsSeq ==
  ASSUME NEW S, NEW n \in Nat, NEW t \in [1..n -> S]
  PROVE  t \in Seq(S) /\ Len(t) = n
OBVIOUS

\* A write appends a byte.
LEMMA PutAppends ==
  ASSUME PipeInv, NEW p \in Procs, NEW ch \in Vals, write_byte(p, ch)
  PROVE  Contents' = Append(Contents, ch) /\ Len(Contents) < PIPESIZE
<1>0. TypeOK /\ Count <= PIPESIZE /\ Count \in Nat /\ nread \in Nat /\ PIPESIZE \in Nat \ {0}
  BY CountBounds, SizeAssumption DEF PipeInv, TypeOK
<1>1. /\ data' = [data EXCEPT ![nwrite % PIPESIZE] = ch]
      /\ nread' = nread /\ nwrite' = (nwrite + 1) % UMOD /\ ~Full
  BY DEF write_byte
<1>2. Count' = Count + 1 /\ Count + 1 <= PIPESIZE
  BY <1>0, <1>1, CountPut
<1> DEFINE at(k) == (nread + k - 1) % PIPESIZE
<1>3. Contents' = [k \in 1..(Count + 1) |-> data'[at(k)]]
  BY <1>1, <1>2 DEF Contents
<1>4. ASSUME NEW k \in 1..(Count + 1) PROVE at(k) \in 0..(PIPESIZE - 1)
  <2>1. nread + k - 1 \in Nat
    BY <1>0
  <2> QED
    BY <1>0, <2>1
<1>5. nwrite % PIPESIZE = at(Count + 1)
  BY <1>0, WritePlace
<1>6. ASSUME NEW k \in 1..Count PROVE at(k) # at(Count + 1)
  <2>1. /\ nread + k - 1 \in Int /\ Count + 1 - k \in 1..(PIPESIZE - 1)
        /\ nread + (Count + 1) - 1 = (nread + k - 1) + (Count + 1 - k)
    BY <1>0, <1>2
  <2>2. ((nread + k - 1) + (Count + 1 - k)) % PIPESIZE # (nread + k - 1) % PIPESIZE
    BY <2>1, ModDistinct
  <2> QED
    BY <2>1, <2>2
<1>7. data'[at(Count + 1)] = ch
  BY <1>0, <1>1, <1>4, <1>5 DEF TypeOK
<1>8. ASSUME NEW k \in 1..Count PROVE data'[at(k)] = data[at(k)]
  <2>1. k \in 1..(Count + 1)
    BY <1>0
  <2>2. at(k) \in 0..(PIPESIZE - 1) /\ at(k) # nwrite % PIPESIZE
    BY <1>4, <1>5, <1>6, <2>1
  <2>3. data \in [0..(PIPESIZE - 1) -> Vals]
    BY <1>0 DEF TypeOK
  <2> HIDE DEF at
  <2> QED
    BY <1>1, <2>2, <2>3
<1>9. Contents \in Seq(Vals) /\ Len(Contents) = Count /\ \A k \in 1..Count : Contents[k] = data[at(k)]
  BY <1>0, ContentsType DEF Contents
<1> HIDE DEF at
<1>10. Contents' \in [1..(Count + 1) -> Vals]
  <2>1. ASSUME NEW k \in 1..(Count + 1) PROVE data'[at(k)] \in Vals
    <3>1. data' \in [0..(PIPESIZE - 1) -> Vals]
      BY <1>0, <1>1 DEF TypeOK
    <3> QED
      BY <1>4, <3>1
  <2> QED
    BY <1>3, <2>1
<1>11. Contents' \in Seq(Vals) /\ Len(Contents') = Count + 1
  <2>1. Count + 1 \in Nat
    BY <1>0
  <2> QED
    BY <1>10, <2>1, IsSeq
<1>12. Contents'[Count + 1] = ch
  <2>1. Count + 1 \in 1..(Count + 1)
    BY <1>0
  <2> QED
    BY <1>3, <1>7, <2>1
<1>13. ASSUME NEW k \in 1..Count PROVE Contents'[k] = Contents[k]
  <2>1. k \in 1..(Count + 1)
    BY <1>0
  <2> QED
    BY <1>3, <1>8, <1>9, <2>1
<1>14. Contents' = Append(Contents, ch)
  BY <1>9, <1>11, <1>12, <1>13, IsAppend
<1> QED
  BY <1>0, <1>2, <1>9, <1>14

\* A read takes the oldest byte.
LEMMA GetTakes ==
  ASSUME PipeInv, NEW p \in Procs, read_byte(p)
  PROVE  Contents' = Tail(Contents) /\ Contents # <<>>
<1>0. TypeOK /\ Count <= PIPESIZE /\ Count \in Nat /\ nread \in Nat
  BY CountBounds, SizeAssumption DEF PipeInv, TypeOK
<1>1. nread' = (nread + 1) % UMOD /\ nwrite' = nwrite /\ data' = data /\ ~Empty
  BY DEF read_byte
<1>2. Count' = Count - 1 /\ Count # 0
  BY <1>0, <1>1, CountGet, CountBounds
<1>3. Contents \in Seq(Vals) /\ Len(Contents) = Count
  BY <1>0, ContentsType
<1>4. Contents' = [k \in 1..(Count - 1) |-> data[(nread' + k - 1) % PIPESIZE]]
  BY <1>1, <1>2 DEF Contents
<1>5. ASSUME NEW k \in 1..(Count - 1)
      PROVE  data[(nread' + k - 1) % PIPESIZE] = Contents[k + 1]
  <2>1. (nread' + k - 1) % PIPESIZE = (nread + (k + 1) - 1) % PIPESIZE
    BY <1>0, <1>1, ReadPlace
  <2>2. k + 1 \in 1..Count
    BY <1>0
  <2> QED
    BY <2>1, <2>2 DEF Contents
<1>6. Contents # <<>>
  BY <1>2, <1>3
<1>7. Contents' \in [1..(Count - 1) -> Vals]
  <2>1. ASSUME NEW k \in 1..(Count - 1) PROVE Contents[k + 1] \in Vals
    BY <1>0, <1>3
  <2> QED
    BY <1>4, <1>5, <2>1
<1>8. Contents' \in Seq(Vals) /\ Len(Contents') = Count - 1
  <2>1. Count - 1 \in Nat
    BY <1>0, <1>2
  <2> QED
    BY <1>7, <2>1, IsSeq
<1>9. ASSUME NEW k \in 1..Len(Contents') PROVE Contents'[k] = Contents[k + 1]
  BY <1>4, <1>5, <1>8
<1>10. Contents' = Tail(Contents)
  BY <1>3, <1>6, <1>8, <1>9, IsTail
<1> QED
  BY <1>6, <1>10

\* Initially the channel is empty and open.
LEMMA RefineInit == Init => Ch!Init
<1> SUFFICES ASSUME Init PROVE Contents = <<>> /\ readopen = TRUE /\ writeopen = TRUE
  BY DEF Ch!Init
<1>1. TypeOK
  BY PipeInvInit DEF PipeInv
<1>2. Count = 0
  BY <1>1, CountBounds DEF Init, Empty
<1>3. Contents \in Seq(Vals) /\ Len(Contents) = 0
  BY <1>1, <1>2, ContentsType
<1> QED
  BY <1>3 DEF Init

\* Every step of the pipe is a step of the channel or leaves it alone.
LEMMA RefineStep == PipeInv /\ [Next]_vars => [Ch!Next]_(Ch!vars)
<1> SUFFICES ASSUME PipeInv, [Next]_vars PROVE Ch!Next \/ UNCHANGED Ch!vars
  OBVIOUS
<1>0. TypeOK /\ LockHeld /\ EndsClosed /\ Readers \cap Writers = {}
  BY ProcAssumption DEF PipeInv
<1>1. ASSUME UNCHANGED pipeVars PROVE UNCHANGED Ch!vars
  <2>1. UNCHANGED <<data, nread, nwrite, readopen, writeopen>>
    BY <1>1 DEF pipeVars
  <2>2. Contents' = Contents
    BY <2>1 DEF Contents, Count
  <2> QED
    BY <2>1, <2>2 DEF Ch!vars
<1>2. ASSUME NEW p \in Procs, NEW ch \in Vals, write_byte(p, ch) PROVE Ch!Next
  <2>1. Contents' = Append(Contents, ch) /\ Len(Contents) < PIPESIZE
    BY <1>2, PutAppends
  <2>2. readopen /\ UNCHANGED <<readopen, writeopen>> /\ pc[p] = "write"
    BY <1>2 DEF write_byte
  <2>3. p \in Writers
    BY <1>0, <2>2 DEF LockHeld
  <2>4. writeopen
    BY <1>0, <2>2, <2>3 DEF EndsClosed
  <2> QED
    BY <2>1, <2>2, <2>4 DEF Ch!Next, Ch!Put
<1>3. ASSUME NEW p \in Procs, read_byte(p) PROVE Ch!Next
  <2>1. Contents' = Tail(Contents) /\ Contents # <<>>
    BY <1>3, GetTakes
  <2>2. UNCHANGED <<readopen, writeopen>> /\ pc[p] = "rcopy"
    BY <1>3 DEF read_byte
  <2>3. p \in Readers
    BY <1>0, <2>2 DEF LockHeld
  <2>4. readopen
    BY <1>0, <2>2, <2>3 DEF EndsClosed
  <2> QED
    BY <2>1, <2>2, <2>4 DEF Ch!Next, Ch!Get
<1>4. ASSUME NEW p \in Procs, pipeclose(p) PROVE Ch!Next
  <2>1. Contents' = Contents
    BY <1>4 DEF pipeclose, Contents, Count
  <2>2. CASE p \in Writers
    <3>1. writeopen' = FALSE /\ readopen' = readopen /\ pc[p] = "close"
      BY <1>4, <2>2 DEF pipeclose
    <3>2. writeopen
      BY <1>0, <2>2, <3>1 DEF EndsClosed
    <3> QED
      BY <2>1, <3>1, <3>2 DEF Ch!Next, Ch!CloseWrite
  <2>3. CASE p \notin Writers
    <3>1. readopen' = FALSE /\ writeopen' = writeopen /\ pc[p] = "close"
      BY <1>4, <2>3 DEF pipeclose
    <3>2. readopen
      BY <1>0, <2>3, <3>1 DEF EndsClosed
    <3> QED
      BY <2>1, <3>1, <3>2 DEF Ch!Next, Ch!CloseRead
  <2> QED
    BY <2>2, <2>3
<1> QED
  BY <1>1, <1>2, <1>3, <1>4 DEF Next, Step, Gone, write_lock, write_fail, write_full,
     write_sleep, write_done, read_test, read_sleep, read_done, fileclose, kill, CallWrite,
     CallRead, vars

\* The pipe is a bounded first-in first-out channel: no byte is lost, doubled
\* or reordered, across the wrap-around of the counters.
THEOREM PipeIsChannel == Spec => IsChannel
<1> QED
  BY PipeInvariant, RefineInit, RefineStep, PTL DEF Spec, IsChannel, Ch!Spec
=============================================================================
