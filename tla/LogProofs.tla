----------------------------- MODULE LogProofs -----------------------------
(***************************************************************************)
(* Theorems about Log, for every number of processes, blocks and values    *)
(* and every size of the log.                                              *)
(***************************************************************************)
EXTENDS Log, FiniteSetTheorems, TLAPS

USE DEF Index, CommitPC, RecoverPC, PC

-----------------------------------------------------------------------------
(***************************************************************************)
(* Type correctness.                                                       *)
(***************************************************************************)

\* The two flags stay Boolean.
LEMMA FlagsStep == Flags /\ [Next]_vars => Flags'
  BY Zenon DEF Flags, Next, Step, CallBeginOp, begin_op, end_op, end_op_commit,
     write_log, write_head, install_trans, clear_head, end_commit, read_head,
     recover_trans, recover_clear, log_write, Bread, Recycle, Crash,
     vars, diskVars, memVars

\* TypeOK holds in the initial states.
LEMMA TypeInit == Init => TypeOK
<1> SUFFICES ASSUME Init PROVE TypeOK
  OBVIOUS
<1>1. Flags
  BY Zenon DEF Init, Flags
<1> QED
  BY <1>1, ProcsAssumption, BlocksAssumption, SizeAssumption DEF Init, TypeOK

\* Every step preserves TypeOK; the invariant is needed for bunpin() only,
\* which must not take a reference count below zero.
LEMMA TypeStep == LogInv /\ [Next]_vars => TypeOK'
<1> SUFFICES ASSUME LogInv, [Next]_vars PROVE TypeOK'
  OBVIOUS
<1> USE BlocksAssumption, SizeAssumption
<1>00. OPBLOCKS \in Nat
  BY SizeAssumption
<1>0. TypeOK /\ Flags'
  BY FlagsStep DEF LogInv, TypeOK
<1>1. ASSUME NEW p \in Procs, CallBeginOp(p) PROVE TypeOK'
  BY <1>0, <1>1 DEF TypeOK, CallBeginOp, diskVars, memVars
<1>2. ASSUME NEW p \in Procs, begin_op(p) PROVE TypeOK'
  <2>1. outstanding' \in Nat
    BY <1>0, <1>2 DEF TypeOK, begin_op
  <2>2. pc' \in [Procs -> PC]
    BY <1>0, <1>2 DEF TypeOK, begin_op
  <2>3. used' \in [Procs -> 0..OPBLOCKS]
    <3>1. used \in [Procs -> 0..OPBLOCKS]
      BY <1>0 DEF TypeOK
    <3>2. used' = used \/ used' = [used EXCEPT ![p] = 0]
      BY <1>2 DEF begin_op
    <3> QED
      BY <1>00, <3>1, <3>2
  <2> QED
    BY <1>0, <1>2, <2>1, <2>2, <2>3 DEF TypeOK, begin_op, diskVars
<1>3. ASSUME NEW p \in Procs, end_op(p) PROVE TypeOK'
  <2>1. outstanding' \in Nat
    BY <1>0, <1>3 DEF TypeOK, end_op
  <2>2. pc' \in [Procs -> PC]
    BY <1>0, <1>3 DEF TypeOK, end_op, WakeupLog
  <2> QED
    BY <1>0, <1>3, <2>1, <2>2 DEF TypeOK, end_op, diskVars
<1>4. ASSUME NEW p \in Procs, end_op_commit(p) PROVE TypeOK'
  BY <1>0, <1>4 DEF TypeOK, end_op_commit, diskVars
<1>5. ASSUME NEW p \in Procs, write_log(p) PROVE TypeOK'
  <2>1. tail[p] \in Index
    BY <1>0, <1>5 DEF TypeOK, write_log
  <2>2. block[tail[p]] \in Blocks
    BY <1>0, <1>5, <2>1 DEF LogInv, Injective, TypeOK, write_log
  <2>3. Data(block[tail[p]]) \in Vals
    BY <1>0, <2>2 DEF TypeOK, Data
  <2>4. dlog' \in [Index -> Vals] /\ cache' \in [Blocks -> Vals \cup {Absent}]
    BY <1>0, <1>5, <2>3 DEF TypeOK, write_log
  <2>5. tail' \in [Procs -> 1..(LOGSIZE + 1)] /\ pc' \in [Procs -> PC]
    BY <1>0, <1>5, <2>1 DEF TypeOK, write_log, Goto
  <2> QED
    BY <1>0, <1>5, <2>4, <2>5 DEF TypeOK, write_log
<1>6. ASSUME NEW p \in Procs, write_head(p) PROVE TypeOK'
  BY <1>0, <1>6 DEF TypeOK, write_head, Goto, memVars
<1>7. ASSUME NEW p \in Procs, install_trans(p) PROVE TypeOK'
  <2>1. tail[p] \in Index
    BY <1>0, <1>7 DEF TypeOK, install_trans
  <2>2. block[tail[p]] \in Blocks
    BY <1>0, <1>7, <2>1 DEF LogInv, Injective, TypeOK, install_trans
  <2>3. tail[p] \in Uninstalled
    BY <1>0, <1>7, <2>1 DEF LogInv, Control, Booting, Committing, Uninstalled, install_trans, TypeOK
  <2>4. pins[block[tail[p]]] = 1
    BY <2>2, <2>3 DEF LogInv, Coherent
  <2>5. pins' \in [Blocks -> Nat]
    <3>1. pins \in [Blocks -> Nat]
      BY <1>0 DEF TypeOK
    <3>2. pins' = [pins EXCEPT ![block[tail[p]]] = @ - 1]
      BY <1>7 DEF install_trans
    <3> QED
      BY <2>2, <2>4, <3>1, <3>2
  <2>6. disk' \in [Blocks -> Vals] /\ cache' \in [Blocks -> Vals \cup {Absent}]
    BY <1>0, <1>7, <2>1 DEF TypeOK, install_trans, Install
  <2>7. tail' \in [Procs -> 1..(LOGSIZE + 1)]
    <3>1. tail[p] + 1 \in 1..(LOGSIZE + 1)
      BY <2>1
    <3> QED
      BY <1>0, <1>7, <3>1 DEF TypeOK, install_trans
  <2>8. pc' \in [Procs -> PC]
    BY <1>0, <1>7 DEF TypeOK, install_trans, Goto
  <2> QED
    BY <1>0, <1>7, <2>5, <2>6, <2>7, <2>8 DEF TypeOK, install_trans
<1>8. ASSUME NEW p \in Procs, clear_head(p) PROVE TypeOK'
  BY <1>0, <1>8 DEF TypeOK, clear_head, EraseLog, Goto
<1>9. ASSUME NEW p \in Procs, end_commit(p) PROVE TypeOK'
  BY <1>0, <1>9 DEF TypeOK, end_commit, WakeupLog, diskVars
<1>10. ASSUME NEW p \in Procs, read_head(p) PROVE TypeOK'
  BY <1>0, <1>10 DEF TypeOK, read_head, Goto, diskVars
<1>11. ASSUME NEW p \in Procs, recover_trans(p) PROVE TypeOK'
  <2>1. tail[p] \in Index
    BY <1>0, <1>11 DEF TypeOK, recover_trans
  <2>2. disk' \in [Blocks -> Vals] /\ cache' \in [Blocks -> Vals \cup {Absent}]
    BY <1>0, <1>11, <2>1 DEF TypeOK, recover_trans, Install
  <2>3. tail' \in [Procs -> 1..(LOGSIZE + 1)] /\ pc' \in [Procs -> PC]
    BY <1>0, <1>11, <2>1 DEF TypeOK, recover_trans, Goto
  <2> QED
    BY <1>0, <1>11, <2>2, <2>3 DEF TypeOK, recover_trans
<1>12. ASSUME NEW p \in Procs, recover_clear(p) PROVE TypeOK'
  BY <1>0, <1>12 DEF TypeOK, recover_clear, EraseLog
<1>13. ASSUME NEW p \in Procs, NEW b \in Blocks, NEW v \in Vals, log_write(p, b, v)
       PROVE TypeOK'
  <2>1. CASE LogWritePanics
    BY <1>0, <1>13, <2>1 DEF TypeOK, log_write, diskVars
  <2>2. CASE ~LogWritePanics
    <3>1. n + 1 \in Index
      BY <1>0, <2>2 DEF TypeOK, LogWritePanics
    <3>2. cache' \in [Blocks -> Vals \cup {Absent}]
      BY <1>0, <1>13 DEF TypeOK, log_write
    <3>3. CASE Logged(b)
      BY <1>0, <1>13, <2>2, <3>2, <3>3 DEF TypeOK, log_write, diskVars
    <3>4. CASE ~Logged(b)
      <4>0. n' = n + 1 /\ block' = [block EXCEPT ![n + 1] = b]
        BY <1>13, <2>2, <3>4 DEF log_write
      <4>1. n' \in 0..LOGSIZE /\ block' \in [Index -> Blocks \cup {NoBlock}]
        <5>1. block \in [Index -> Blocks \cup {NoBlock}]
          BY <1>0 DEF TypeOK
        <5>2. n' \in 0..LOGSIZE
          BY <4>0, <3>1 DEF Index
        <5> QED
          BY <4>0, <3>1, <5>1, <5>2
      <4>2. pins' \in [Blocks -> Nat]
        <5>1. pins \in [Blocks -> Nat]
          BY <1>0 DEF TypeOK
        <5>2. pins' = [pins EXCEPT ![b] = @ + 1]
          BY <1>13, <2>2, <3>4 DEF log_write
        <5> QED
          BY <5>1, <5>2
      <4>3. used' \in [Procs -> 0..OPBLOCKS]
        <5>1. used[p] + 1 \in 0..OPBLOCKS
          BY <1>0, <1>00, <1>13, <3>4 DEF TypeOK, log_write
        <5> QED
          BY <1>0, <1>13, <2>2, <3>4, <5>1 DEF TypeOK, log_write
      <4> QED
        BY <1>0, <1>13, <3>2, <4>1, <4>2, <4>3 DEF TypeOK, log_write, diskVars
    <3> QED
      BY <3>3, <3>4
  <2> QED
    BY <2>1, <2>2
<1>14. ASSUME NEW b \in Blocks, Bread(b) \/ Recycle(b) PROVE TypeOK'
  BY <1>0, <1>14 DEF TypeOK, Bread, Recycle, diskVars
<1>15. CASE Crash
  BY <1>0, <1>15 DEF TypeOK, Crash, diskVars
<1>16. CASE UNCHANGED vars
  BY <1>0, <1>16 DEF TypeOK, vars, diskVars, memVars
<1> QED
  BY <1>1, <1>2, <1>3, <1>4, <1>5, <1>6, <1>7, <1>8, <1>9, <1>10, <1>11,
     <1>12, <1>13, <1>14, <1>15, <1>16 DEF Next, Step
-----------------------------------------------------------------------------
(***************************************************************************)
(* Control: who may be where.                                              *)
(***************************************************************************)

\* The set of running calls is finite, so that outstanding can count it.
LEMMA InOpFinite == IsFiniteSet(InOp) /\ IsFiniteSet(InOp') /\ Cardinality(InOp) \in Nat
<1>1. InOp \subseteq Procs /\ InOp' \subseteq Procs
  BY DEF InOp
<1> QED
  BY <1>1, ProcsAssumption, FS_Subset, FS_CardinalityType

\* outstanding counts the running calls.
LEMMA OutstandingStep == LogInv /\ [Next]_vars => outstanding' = Cardinality(InOp')
<1> SUFFICES ASSUME LogInv, [Next]_vars PROVE outstanding' = Cardinality(InOp')
  OBVIOUS
<1>0. /\ outstanding = Cardinality(InOp)
      /\ pc \in [Procs -> PC]
  BY DEF LogInv, Control, TypeOK
<1>a. ASSUME UNCHANGED <<pc, outstanding>> PROVE outstanding' = Cardinality(InOp')
  BY <1>0, <1>a DEF InOp
<1>b. ASSUME NEW p \in Procs, NEW x \in PC, pc' = [pc EXCEPT ![p] = x],
             pc[p] # "inop", x # "inop", UNCHANGED outstanding
      PROVE  outstanding' = Cardinality(InOp')
  <2>1. InOp' = InOp
    BY <1>0, <1>b DEF InOp
  <2> QED
    BY <1>0, <1>b, <2>1
<1>c. ASSUME NEW p \in Procs, NEW x \in PC, x # "inop", pc[p] = "inop",
             \/ pc' = [pc EXCEPT ![p] = x]
             \/ pc' = WakeupLog(p, x),
             outstanding' = outstanding - 1
      PROVE  outstanding' = Cardinality(InOp')
  <2>1. InOp' = InOp \ {p} /\ p \in InOp
    BY <1>0, <1>c DEF InOp, WakeupLog
  <2>2. Cardinality(InOp') = Cardinality(InOp) - 1
    BY <2>1, InOpFinite, FS_RemoveElement
  <2> QED
    BY <1>0, <1>c, <2>2
<1>1. ASSUME NEW p \in Procs, CallBeginOp(p) PROVE outstanding' = Cardinality(InOp')
  BY <1>1, <1>b DEF CallBeginOp, memVars
<1>2. ASSUME NEW p \in Procs, begin_op(p) PROVE outstanding' = Cardinality(InOp')
  <2>1. CASE committing \/ ~HasRoom
    BY <1>2, <1>b, <2>1 DEF begin_op
  <2>2. CASE ~(committing \/ ~HasRoom)
    <3>1. pc[p] = "begin_op" /\ pc' = [pc EXCEPT ![p] = "inop"] /\ outstanding' = outstanding + 1
      BY <1>2, <2>2 DEF begin_op
    <3>2. InOp' = InOp \cup {p} /\ p \notin InOp
      BY <1>0, <3>1 DEF InOp
    <3>3. Cardinality(InOp') = Cardinality(InOp) + 1
      BY <3>2, InOpFinite, FS_AddElement
    <3> QED
      BY <1>0, <3>1, <3>3
  <2> QED
    BY <2>1, <2>2
<1>3. ASSUME NEW p \in Procs, end_op(p) PROVE outstanding' = Cardinality(InOp')
  BY <1>3, <1>c DEF end_op
<1>4. ASSUME NEW p \in Procs, end_op_commit(p) PROVE outstanding' = Cardinality(InOp')
  <2>1. outstanding' = outstanding - 1 /\ pc[p] = "inop"
    BY <1>4 DEF end_op_commit
  <2>2. CASE n > 0
    BY <1>4, <2>1, <2>2, <1>c DEF end_op_commit
  <2>3. CASE ~(n > 0)
    BY <1>4, <2>1, <2>3, <1>c DEF end_op_commit
  <2> QED
    BY <2>2, <2>3
<1>5. ASSUME NEW p \in Procs, NEW x \in PC, Goto(p, x), pc[p] # "inop", x # "inop",
             UNCHANGED outstanding
      PROVE outstanding' = Cardinality(InOp')
  BY <1>5, <1>b DEF Goto
<1>6. ASSUME NEW p \in Procs, end_commit(p) PROVE outstanding' = Cardinality(InOp')
  <2>1. InOp' = InOp
    BY <1>0, <1>6 DEF InOp, WakeupLog, end_commit
  <2> QED
    BY <1>0, <1>6, <2>1 DEF end_commit
<1>7. ASSUME NEW p \in Procs, recover_clear(p) PROVE outstanding' = Cardinality(InOp')
  <2>1. InOp' = {} /\ InOp = {}
    BY <1>0, <1>7 DEF InOp, recover_clear, LogInv, Control, Booting
  <2> QED
    BY <1>0, <1>7, <2>1 DEF recover_clear
<1>8. CASE Crash
  <2>1. InOp' = {} /\ outstanding' = 0
    BY <1>8 DEF InOp, Crash
  <2> QED
    BY <2>1, FS_EmptySet
<1>9. ASSUME NEW p \in Procs,
             \/ write_log(p) \/ write_head(p) \/ install_trans(p)
             \/ clear_head(p) \/ read_head(p) \/ recover_trans(p)
      PROVE outstanding' = Cardinality(InOp')
  <2>1. pc[p] # "inop" /\ UNCHANGED outstanding
    BY <1>9 DEF write_log, write_head, install_trans, clear_head, read_head,
                recover_trans, memVars
  <2>2. \E x \in PC : x # "inop" /\ Goto(p, x)
    BY <1>9 DEF write_log, write_head, install_trans, clear_head, read_head,
                recover_trans
  <2> QED
    BY <2>1, <2>2, <1>5
<1>10. ASSUME NEW p \in Procs, NEW b \in Blocks, NEW v \in Vals, log_write(p, b, v)
       PROVE outstanding' = Cardinality(InOp')
  BY <1>10, <1>a DEF log_write
<1>11. ASSUME NEW b \in Blocks, Bread(b) \/ Recycle(b)
       PROVE outstanding' = Cardinality(InOp')
  BY <1>11, <1>a DEF Bread, Recycle
<1>12. CASE UNCHANGED vars
  BY <1>12, <1>a DEF vars, memVars
<1> QED
  BY <1>1, <1>2, <1>3, <1>4, <1>6, <1>7, <1>8, <1>9, <1>10, <1>11, <1>12 DEF Next, Step
\* What Control says of the program counters and of pins, apart from the
\* counting; Coherent gives it the pins after recovery.
LEMMA ControlStep == LogInv /\ [Next]_vars => Control'
<1> SUFFICES ASSUME LogInv, [Next]_vars PROVE Control'
  OBVIOUS
<1>0. Control /\ TypeOK
  BY DEF LogInv
<1>00. outstanding' = Cardinality(InOp')
  BY OutstandingStep
<1>1. ASSUME NEW p \in Procs, CallBeginOp(p) PROVE Control'
  BY <1>0, <1>00, <1>1 DEF Control, CallBeginOp, memVars, Booting, Committing, TypeOK
<1>2. ASSUME NEW p \in Procs, begin_op(p) PROVE Control'
  <2>1. CASE committing \/ ~HasRoom
    <3>1. /\ pc[p] = "begin_op"
          /\ pc' = [pc EXCEPT ![p] = "asleep"]
          /\ UNCHANGED <<committing, outstanding, pins>>
      BY <1>2, <2>1 DEF begin_op
    <3> QED
      BY <1>0, <1>00, <3>1 DEF Control, Booting, Committing, TypeOK
  <2>2. CASE ~(committing \/ ~HasRoom)
    BY <1>0, <1>00, <1>2, <2>2 DEF Control, begin_op, Booting, Committing, TypeOK
  <2> QED
    BY <2>1, <2>2
<1>3. ASSUME NEW p \in Procs, end_op(p) PROVE Control'
  <2>1. pc[p] = "inop" /\ pc' = WakeupLog(p, "idle") /\ UNCHANGED <<committing, pins>>
    BY <1>3 DEF end_op
  <2>2. ~committing
    BY <1>0, <1>3 DEF Control, end_op
  <2>3. ~Booting /\ ~Booting'
    BY <1>0, <2>1 DEF Control, Booting, WakeupLog, TypeOK
  <2>4. \A q \in Procs : Committing(q)' <=> Committing(q)
    BY <1>0, <2>1 DEF Committing, WakeupLog, TypeOK
  <2>5. \A q \in Procs : pc'[q] # "off"
    BY <1>0, <2>1, <2>3 DEF Control, WakeupLog, TypeOK
  <2> QED
    BY <1>0, <1>00, <2>1, <2>2, <2>3, <2>4, <2>5 DEF Control
<1>4. ASSUME NEW p \in Procs, end_op_commit(p) PROVE Control'
  BY <1>0, <1>00, <1>4 DEF Control, end_op_commit, Booting, Committing, TypeOK
<1>5. ASSUME NEW p \in Procs, write_log(p) PROVE Control'
  BY <1>0, <1>00, <1>5 DEF Control, write_log, Goto, Booting, Committing, TypeOK
<1>6. ASSUME NEW p \in Procs, write_head(p) PROVE Control'
  BY <1>0, <1>00, <1>6 DEF Control, write_head, Goto, Booting, Committing, TypeOK, memVars
<1>7. ASSUME NEW p \in Procs, install_trans(p) PROVE Control'
  BY <1>0, <1>00, <1>7 DEF Control, install_trans, Goto, Booting, Committing, TypeOK
<1>8. ASSUME NEW p \in Procs, clear_head(p) PROVE Control'
  BY <1>0, <1>00, <1>8 DEF Control, clear_head, Goto, Booting, Committing, TypeOK
<1>9. ASSUME NEW p \in Procs, end_commit(p) PROVE Control'
  BY <1>0, <1>00, <1>9 DEF Control, end_commit, WakeupLog, Booting, Committing, TypeOK
<1>10. ASSUME NEW p \in Procs, read_head(p) PROVE Control'
  BY <1>0, <1>00, <1>10 DEF Control, read_head, Goto, Booting, Committing, TypeOK
<1>11. ASSUME NEW p \in Procs, recover_trans(p) PROVE Control'
  BY <1>0, <1>00, <1>11 DEF Control, recover_trans, Goto, Booting, Committing, TypeOK
<1>12. ASSUME NEW p \in Procs, recover_clear(p) PROVE Control'
  BY <1>0, <1>00, <1>12 DEF Control, recover_clear, Booting, Committing, TypeOK
<1>13. ASSUME NEW p \in Procs, NEW b \in Blocks, NEW v \in Vals, log_write(p, b, v)
       PROVE Control'
  <2>1. pc[p] = "inop" /\ UNCHANGED <<pc, committing, outstanding>>
    BY <1>13 DEF log_write
  <2>2. ~Booting /\ ~Booting'
    BY <1>0, <2>1 DEF Control, Booting
  <2> QED
    BY <1>0, <1>00, <2>1, <2>2 DEF Control, Committing, InOp
<1>14. ASSUME NEW b \in Blocks, Bread(b) \/ Recycle(b) PROVE Control'
  BY <1>0, <1>00, <1>14 DEF Control, Bread, Recycle, Booting, Committing
<1>15. CASE Crash
  <2>1. /\ pc' = [p \in Procs |-> IF p = InitProc THEN "read_head" ELSE "off"]
        /\ pins' = [b \in Blocks |-> 0]
        /\ committing' = FALSE
    BY <1>15 DEF Crash
  <2>2. Booting' /\ \A p \in Procs : ~Committing(p)'
    BY <2>1, ProcsAssumption DEF Booting, Committing
  <2> QED
    BY <1>00, <2>1, <2>2 DEF Control
<1>16. CASE UNCHANGED vars
  BY <1>0, <1>00, <1>16 DEF Control, vars, memVars, Booting, Committing
<1> QED
  BY <1>1, <1>2, <1>3, <1>4, <1>5, <1>6, <1>7, <1>8, <1>9, <1>10, <1>11,
     <1>12, <1>13, <1>14, <1>15, <1>16 DEF Next, Step
-----------------------------------------------------------------------------
(***************************************************************************)
(* The rest of the invariant.                                              *)
(***************************************************************************)

\* Calls, a commit and a recovery exclude each other.
LEMMA Phases ==
  ASSUME LogInv, NEW p \in Procs, NEW q \in Procs
  PROVE  /\ pc[p] = "inop" => ~Committing(q) /\ pc[q] \notin RecoverPC
         /\ Committing(p) /\ q # p => pc[q] \in {"idle", "begin_op", "asleep"}
         /\ pc[p] \in RecoverPC /\ q # p => pc[q] = "off"
<1>0. Control /\ pc \in [Procs -> PC]
  BY DEF LogInv, TypeOK
<1>1. ASSUME NEW r \in Procs, pc[r] = "inop" PROVE ~committing
  <2>1. InOp # {}
    BY <1>1 DEF InOp
  <2>2. outstanding # 0
    BY <1>0, <2>1, InOpFinite, FS_EmptySet DEF Control
  <2> QED
    BY <1>0, <2>2 DEF Control
<1> QED
  BY <1>0, <1>1 DEF Control, Committing, Booting

\* No block appears twice in log.lh.
LEMMA BlocksStep == LogInv /\ [Next]_vars => Injective(n, block)'
<1> SUFFICES ASSUME LogInv, [Next]_vars PROVE Injective(n, block)'
  OBVIOUS
<1>0. Injective(n, block) /\ Injective(hn, hblock) /\ TypeOK
  BY DEF LogInv
<1>1. ASSUME UNCHANGED <<n, block>> PROVE Injective(n, block)'
  BY <1>0, <1>1 DEF Injective
<1>2. ASSUME n' = 0 PROVE Injective(n, block)'
  BY <1>2 DEF Injective
<1>3. ASSUME NEW p \in Procs, read_head(p) PROVE Injective(n, block)'
  <2>1. n' = hn /\ \A i \in 1..hn : block'[i] = hblock[i]
    <3>1. n' = hn /\ block' = [i \in Index |-> IF i <= hn THEN hblock[i] ELSE block[i]]
      BY <1>3 DEF read_head
    <3>2. \A i \in 1..hn : i \in Index /\ i <= hn
      BY <1>0, SizeAssumption DEF TypeOK
    <3> QED
      BY <3>1, <3>2
  <2> QED
    BY <1>0, <2>1 DEF Injective
<1>4. ASSUME NEW p \in Procs, NEW b \in Blocks, NEW v \in Vals, log_write(p, b, v)
      PROVE Injective(n, block)'
  <2>1. CASE UNCHANGED <<n, block>>
    BY <2>1, <1>1
  <2>2. CASE ~UNCHANGED <<n, block>>
    <3>1. /\ ~Logged(b)
          /\ n' = n + 1
          /\ block' = [block EXCEPT ![n + 1] = b]
          /\ n + 1 \in Index
      <4>1. ~LogWritePanics /\ ~Logged(b)
        BY <1>4, <2>2 DEF log_write
      <4>2. n + 1 \in Index
        BY <1>0, <4>1, SizeAssumption DEF LogWritePanics, TypeOK
      <4> QED
        BY <1>4, <4>1, <4>2 DEF log_write
    <3>2. /\ block'[n + 1] = b
          /\ \A i \in 1..n : block'[i] = block[i] /\ block[i] # b
      BY <1>0, <3>1 DEF TypeOK, Logged
    <3>3. \A i \in 1..(n + 1) : i \in 1..n \/ i = n + 1
      BY <1>0 DEF TypeOK
    <3> QED
      BY <1>0, <3>1, <3>2, <3>3 DEF Injective
  <2> QED
    BY <2>1, <2>2
<1> QED
  BY <1>1, <1>2, <1>3, <1>4
  DEF Next, Step, CallBeginOp, begin_op, end_op, end_op_commit, write_log,
      write_head, install_trans, clear_head, EraseLog, end_commit,
      recover_trans, recover_clear, Bread, Recycle, Crash, vars, memVars

\* No block appears twice in the header on disk.
LEMMA HeaderBlocksStep == LogInv /\ [Next]_vars => Injective(hn, hblock)'
<1> SUFFICES ASSUME LogInv, [Next]_vars PROVE Injective(hn, hblock)'
  OBVIOUS
<1>0. Injective(n, block) /\ Injective(hn, hblock) /\ TypeOK
  BY DEF LogInv
<1>1. ASSUME UNCHANGED <<hn, hblock>> PROVE Injective(hn, hblock)'
  BY <1>0, <1>1 DEF Injective
<1>2. ASSUME hn' = 0 PROVE Injective(hn, hblock)'
  BY <1>2 DEF Injective
<1>3. ASSUME NEW p \in Procs, write_head(p) PROVE Injective(hn, hblock)'
  <2>1. hn' = n /\ \A i \in 1..n : hblock'[i] = block[i]
    <3>1. hn' = n /\ hblock' = [i \in Index |-> IF i <= n THEN block[i] ELSE hblock[i]]
      BY <1>3 DEF write_head
    <3>2. \A i \in 1..n : i \in Index /\ i <= n
      BY <1>0, SizeAssumption DEF TypeOK
    <3> QED
      BY <3>1, <3>2
  <2> QED
    BY <1>0, <2>1 DEF Injective
<1> QED
  BY <1>1, <1>2, <1>3
  DEF Next, Step, CallBeginOp, begin_op, end_op, end_op_commit, write_log,
      log_write, install_trans, clear_head, EraseLog, end_commit, read_head,
      recover_trans, recover_clear, Bread, Recycle, Crash, vars, diskVars

\* The header on disk holds entries only while they have to be installed.
LEMMA HeaderEmptyStep == LogInv /\ [Next]_vars => HeaderEmpty'
<1> SUFFICES ASSUME LogInv, [Next]_vars, hn' # 0
             PROVE  \E q \in Procs : pc'[q] \in {"install_trans", "clear"} \cup RecoverPC
  BY DEF HeaderEmpty
<1>0. HeaderEmpty /\ TypeOK
  BY DEF LogInv
<1>1. CASE Crash
  BY <1>1, ProcsAssumption DEF Crash
<1>2. ASSUME NEW p \in Procs, write_head(p)
      PROVE  \E q \in Procs : pc'[q] \in {"install_trans", "clear"} \cup RecoverPC
  BY <1>0, <1>2 DEF write_head, Goto, TypeOK
<1>3. CASE ~Crash /\ ~\E p \in Procs : write_head(p)
  <2>1. UNCHANGED hn
    BY <1>3 DEF Next, Step, CallBeginOp, begin_op, end_op, end_op_commit, write_log,
         log_write, install_trans, clear_head, EraseLog, end_commit, read_head,
         recover_trans, recover_clear, Bread, Recycle, vars, diskVars
  <2>2. PICK q \in Procs : pc[q] \in {"install_trans", "clear"} \cup RecoverPC
    BY <1>0, <2>1 DEF HeaderEmpty
  <2>3. CASE UNCHANGED pc
    BY <2>2, <2>3
  <2>4. ASSUME NEW p \in Procs, CallBeginOp(p) \/ Step(p)
        PROVE  pc'[q] \in {"install_trans", "clear"} \cup RecoverPC
    <3>1. CASE p = q
      BY <1>0, <2>2, <2>4, <3>1
      DEF Step, CallBeginOp, begin_op, end_op, end_op_commit, write_log,
         write_head, install_trans, clear_head, EraseLog, end_commit, read_head,
         recover_trans, recover_clear, Goto, TypeOK
    <3>2. CASE p # q
      BY <1>0, <2>1, <2>2, <2>4, <3>2
      DEF Step, CallBeginOp, begin_op, end_op, end_op_commit, write_log,
         write_head, install_trans, clear_head, EraseLog, end_commit, read_head,
         recover_trans, recover_clear, Goto, WakeupLog, TypeOK
    <3> QED
      BY <3>1, <3>2
  <2> QED
    BY <1>3, <2>3, <2>4 DEF Next, log_write, Bread, Recycle, vars
<1> QED
  BY <1>1, <1>2, <1>3
\* Between transactions log.lh.n is 0.
LEMMA IdleEmptyStep == LogInv /\ [Next]_vars => IdleEmpty'
<1> SUFFICES ASSUME LogInv, [Next]_vars, n' > 0 \/ panicked'
             PROVE  Booting' \/ outstanding' > 0 \/ committing'
  BY DEF IdleEmpty
<1>0. IdleEmpty /\ TypeOK /\ Control
  BY DEF LogInv
<1>1. CASE Crash
  BY <1>1, ProcsAssumption DEF Crash, Booting
<1>2. CASE UNCHANGED vars
  BY <1>0, <1>2 DEF IdleEmpty, vars, memVars, Booting
<1>3. ASSUME NEW p \in Procs, CallBeginOp(p) \/ begin_op(p)
      PROVE  Booting' \/ outstanding' > 0 \/ committing'
  <2>1. ~Booting
    BY <1>0, <1>3 DEF CallBeginOp, begin_op, Booting, Control
  <2>2. UNCHANGED <<n, panicked, committing>>
    BY <1>3 DEF CallBeginOp, begin_op, memVars
  <2>3. outstanding > 0 \/ committing
    BY <1>0, <2>1, <2>2 DEF IdleEmpty
  <2>4. outstanding > 0 => outstanding' > 0
    BY <1>0, <1>3 DEF CallBeginOp, begin_op, memVars, TypeOK
  <2> QED
    BY <2>2, <2>3, <2>4
<1>4. ASSUME NEW p \in Procs, end_op(p) \/ end_op_commit(p)
      PROVE  Booting' \/ outstanding' > 0 \/ committing'
  BY <1>0, <1>4 DEF end_op, end_op_commit, TypeOK
<1>5. ASSUME NEW p \in Procs,
             write_log(p) \/ write_head(p) \/ install_trans(p) \/ clear_head(p)
      PROVE  Booting' \/ outstanding' > 0 \/ committing'
  BY <1>0, <1>5 DEF write_log, write_head, install_trans, clear_head, Control,
                    Committing, memVars
<1>6. ASSUME ~panicked, NEW p \in Procs, end_commit(p) \/ recover_clear(p)
      PROVE  FALSE
  BY <1>6 DEF end_commit, recover_clear, EraseLog, LogInv, Contents
<1>7. ASSUME NEW p \in Procs, read_head(p) \/ recover_trans(p) PROVE Booting'
  <2>1. pc'[p] \in RecoverPC
    BY <1>0, <1>7 DEF read_head, recover_trans, Goto, TypeOK
  <2> QED
    BY <2>1 DEF Booting
<1>8. ASSUME NEW p \in Procs, NEW b \in Blocks, NEW v \in Vals, log_write(p, b, v)
      PROVE  outstanding' > 0
  <2>1. InOp # {} /\ outstanding' = outstanding
    BY <1>8 DEF InOp, log_write
  <2> QED
    BY <1>0, <2>1, InOpFinite, FS_EmptySet DEF Control
<1>9. ASSUME NEW b \in Blocks, Bread(b) \/ Recycle(b)
      PROVE  Booting' \/ outstanding' > 0 \/ committing'
  BY <1>0, <1>9 DEF Bread, Recycle, IdleEmpty, Booting
<1> QED
  BY <1>1, <1>2, <1>3, <1>4, <1>5, <1>6, <1>7, <1>8, <1>9 DEF Next, Step

\* Without an installation or a recovery in progress nothing is home yet.
LEMMA UninstalledAll ==
  ASSUME \A q \in Procs : pc[q] \notin {"install_trans", "clear"} \cup RecoverPC
  PROVE  Uninstalled = 1..n
  BY DEF Uninstalled

\* During install_trans(0) the entries from tail on are not home yet.
LEMMA UninstalledFrom ==
  ASSUME LogInv, NEW p \in Procs, pc[p] = "install_trans"
  PROVE  Uninstalled = tail[p]..n
<1>1. \A q \in Procs : q # p => pc[q] \in {"idle", "begin_op", "asleep"}
  BY Phases DEF Committing
<1>2. tail[p] \in 1..(LOGSIZE + 1) /\ n \in 0..LOGSIZE
  BY DEF LogInv, TypeOK
<1>3. ASSUME NEW i \in 1..n PROVE i \in Uninstalled <=> tail[p] <= i
  BY <1>1, <1>2 DEF Uninstalled
<1>4. Uninstalled \subseteq 1..n
  BY DEF Uninstalled
<1>5. ASSUME NEW i \in Uninstalled PROVE i \in tail[p]..n
  <2>1. i \in 1..n
    BY <1>4
  <2>2. tail[p] <= i
    BY <2>1, <1>3
  <2> QED
    BY <1>2, <2>1, <2>2
<1>6. \A i \in tail[p]..n : i \in Uninstalled
  BY <1>2, <1>3
<1> QED
  BY <1>5, <1>6

\* After the installation, and during recovery, everything is home.
LEMMA UninstalledNone ==
  ASSUME NEW p \in Procs, pc[p] \in {"clear"} \cup RecoverPC
  PROVE  Uninstalled = {}
  BY DEF Uninstalled

\* The buffer of a block that is not home yet is pinned, so it is cached.
LEMMA Pinned ==
  ASSUME LogInv, NEW i \in Uninstalled
  PROVE  block[i] \in Blocks /\ pins[block[i]] = 1 /\ cache[block[i]] # Absent
<1>1. block[i] \in Blocks
  BY DEF LogInv, Injective, Uninstalled
<1> QED
  BY <1>1 DEF LogInv, Coherent

\* A block that is not home yet holds what a transaction wrote; every other
\* cached block equals its home copy.
LEMMA CoherentStep == LogInv /\ [Next]_vars => Coherent'
<1> SUFFICES ASSUME LogInv, [Next]_vars PROVE Coherent'
  OBVIOUS
<1>0. Coherent /\ TypeOK /\ Control
  BY DEF LogInv
<1>a. ASSUME UNCHANGED <<Uninstalled, block, pins, cache, disk>>, panicked => panicked'
      PROVE  Coherent'
  BY <1>0, <1>a DEF Coherent
<1>b. ASSUME NEW p \in Procs, NEW x \in PC, pc' = [pc EXCEPT ![p] = x] \/ pc' = WakeupLog(p, x),
             {pc[p], x} \cap ({"install_trans", "clear"} \cup RecoverPC) = {},
             UNCHANGED <<n, tail, block, pins, cache, disk>>, panicked => panicked'
      PROVE  Coherent'
  <2>0. pc \in [Procs -> PC]
    BY <1>0 DEF TypeOK
  <2>1. ASSUME NEW q \in Procs
        PROVE  /\ pc'[q] = "install_trans" <=> pc[q] = "install_trans"
               /\ pc'[q] = "clear" <=> pc[q] = "clear"
               /\ pc'[q] \in RecoverPC <=> pc[q] \in RecoverPC
    BY <2>0, <1>b DEF WakeupLog, RecoverPC
  <2>2. UNCHANGED Uninstalled
    BY <1>b, <2>1 DEF Uninstalled
  <2> QED
    BY <1>a, <1>b, <2>2
<1>1. ASSUME NEW p \in Procs, CallBeginOp(p) PROVE Coherent'
  BY <1>1, <1>b DEF CallBeginOp, diskVars, memVars
<1>2. ASSUME NEW p \in Procs, begin_op(p) PROVE Coherent'
  <2>1. CASE committing \/ ~HasRoom
    BY <1>2, <1>b, <2>1 DEF begin_op, diskVars
  <2>2. CASE ~(committing \/ ~HasRoom)
    BY <1>2, <1>b, <2>2 DEF begin_op, diskVars
  <2> QED
    BY <2>1, <2>2
<1>3. ASSUME NEW p \in Procs, end_op(p) PROVE Coherent'
  BY <1>3, <1>b DEF end_op, diskVars
<1>4. ASSUME NEW p \in Procs, end_op_commit(p) PROVE Coherent'
  <2>1. \A q \in Procs : pc[q] \notin {"install_trans", "clear"} \cup RecoverPC
    BY <1>4, Phases DEF end_op_commit, Committing
  <2>2. \A q \in Procs : pc'[q] \notin {"install_trans", "clear"} \cup RecoverPC
    BY <1>0, <1>4, <2>1 DEF end_op_commit, TypeOK
  <2>3. UNCHANGED Uninstalled
    BY <1>4, <2>1, <2>2 DEF end_op_commit, Uninstalled
  <2> QED
    BY <1>4, <1>a, <2>3 DEF end_op_commit, diskVars
<1>5. ASSUME NEW p \in Procs, write_log(p) PROVE Coherent'
  <2>1. \A q \in Procs : pc[q] \notin {"install_trans", "clear"} \cup RecoverPC
    BY <1>0, <1>5, Phases DEF write_log, Committing
  <2>2. \A q \in Procs : pc'[q] \notin {"install_trans", "clear"} \cup RecoverPC
    BY <1>0, <1>5, <2>1 DEF write_log, Goto, TypeOK
  <2>3. UNCHANGED Uninstalled
    BY <1>5, <2>1, <2>2 DEF write_log, Uninstalled
  <2>4. tail[p] \in Uninstalled
    BY <1>0, <1>5, <2>1, UninstalledAll DEF TypeOK, write_log
  <2>5. cache' = cache
    BY <1>0, <1>5, <2>4, Pinned DEF write_log, Data, TypeOK
  <2> QED
    BY <1>5, <1>a, <2>3, <2>5 DEF write_log
<1>6. ASSUME NEW p \in Procs, write_head(p) PROVE Coherent'
  <2>1. \A q \in Procs : pc[q] \notin {"install_trans", "clear"} \cup RecoverPC
    BY <1>0, <1>6, Phases DEF write_head, Committing
  <2>2. /\ pc'[p] = "install_trans" /\ tail'[p] = 1 /\ n' = n
        /\ \A q \in Procs : q # p => pc'[q] = pc[q]
    BY <1>0, <1>6 DEF write_head, Goto, TypeOK, memVars
  <2>3. UNCHANGED Uninstalled
    BY <1>0, <2>1, <2>2 DEF Uninstalled, TypeOK
  <2> QED
    BY <1>6, <1>a, <2>3 DEF write_head, memVars
<1>7. ASSUME NEW p \in Procs, install_trans(p) PROVE Coherent'
  <2> DEFINE t == tail[p]
  <2>1. Uninstalled = t..n /\ t \in 1..n
    BY <1>0, <1>7, UninstalledFrom DEF install_trans, TypeOK
  <2>2. block[t] \in Blocks /\ pins[block[t]] = 1 /\ \A i \in 1..n : block[i] = block[t] => i = t
    BY <2>1, Pinned DEF LogInv, Injective
  <2>3. Uninstalled' = (t + 1)..n
    <3>1. \A q \in Procs : q # p => pc'[q] \in {"idle", "begin_op", "asleep"}
      BY <1>0, <1>7, Phases DEF install_trans, Goto, Committing, TypeOK
    <3>2. CASE t = n
      <4>1. pc'[p] = "clear"
        BY <1>0, <1>7, <3>2 DEF install_trans, Goto, TypeOK
      <4>2. Uninstalled' = {}
        BY <4>1 DEF Uninstalled
      <4> QED
        BY <1>0, <2>1, <3>2, <4>2 DEF TypeOK
    <3>3. CASE t # n
      <4>1. pc'[p] = "install_trans" /\ tail'[p] = t + 1 /\ n' = n
        BY <1>0, <1>7, <3>3 DEF install_trans, Goto, TypeOK
      <4>2. \A i \in 1..n : i \in Uninstalled' <=> t + 1 <= i
        BY <3>1, <4>1 DEF Uninstalled
      <4>3. Uninstalled' \subseteq 1..n
        BY <4>1 DEF Uninstalled
      <4>4. n \in Nat
        BY <1>0 DEF TypeOK
      <4>5. \A i \in Uninstalled' : i \in (t + 1)..n
        BY <2>1, <4>2, <4>3, <4>4
      <4>6. \A i \in (t + 1)..n : i \in Uninstalled'
        BY <2>1, <4>2, <4>4
      <4> QED
        BY <4>5, <4>6
    <3> QED
      BY <3>2, <3>3
  <2>4. /\ disk' = [disk EXCEPT ![block[t]] = dlog[t]]
        /\ cache' = [cache EXCEPT ![block[t]] = dlog[t]]
        /\ pins' = [pins EXCEPT ![block[t]] = @ - 1]
        /\ block' = block /\ panicked' = panicked
    BY <1>7 DEF install_trans, Install
  <2>5. ASSUME NEW b \in Blocks
        PROVE  IF \E i \in (t + 1)..n : block[i] = b
               THEN pins'[b] = 1 /\ cache'[b] # Absent
               ELSE pins'[b] = 0 /\ (cache'[b] \in {Absent, disk'[b]} \/ panicked')
    <3>1. CASE b = block[t]
      <4>1. ~\E i \in (t + 1)..n : block[i] = b
        BY <2>1, <2>2, <3>1, <1>0 DEF TypeOK
      <4>2. pins'[b] = 0 /\ cache'[b] = disk'[b]
        BY <1>0, <2>2, <2>4, <3>1 DEF TypeOK
      <4> QED
        BY <4>1, <4>2
    <3>2. CASE b # block[t]
      <4>1. (\E i \in (t + 1)..n : block[i] = b) <=> (\E i \in Uninstalled : block[i] = b)
        BY <1>0, <2>1, <3>2 DEF TypeOK
      <4>2. pins'[b] = pins[b] /\ cache'[b] = cache[b] /\ disk'[b] = disk[b]
        BY <1>0, <2>4, <3>2 DEF TypeOK
      <4> QED
        BY <1>0, <2>4, <4>1, <4>2 DEF Coherent
    <3> QED
      BY <3>1, <3>2
  <2> QED
    BY <2>3, <2>4, <2>5 DEF Coherent
<1>8. ASSUME NEW p \in Procs, clear_head(p) PROVE Coherent'
  <2>1. Uninstalled = {} /\ Uninstalled' = {}
    BY <1>0, <1>8, UninstalledNone DEF clear_head, EraseLog, Uninstalled
  <2> QED
    BY <1>8, <1>a, <2>1 DEF clear_head
<1>9. ASSUME NEW p \in Procs, end_commit(p) PROVE Coherent'
  BY <1>9, <1>b DEF end_commit, diskVars
<1>10. ASSUME NEW p \in Procs, read_head(p) PROVE Coherent'
  <2>1. Uninstalled = {}
    BY <1>10, UninstalledNone DEF read_head
  <2>2. pc'[p] \in RecoverPC
    BY <1>0, <1>10 DEF read_head, Goto, TypeOK
  <2>3. Uninstalled' = {}
    BY <2>2 DEF Uninstalled
  <2>4. UNCHANGED <<pins, cache, disk, panicked>>
    BY <1>10 DEF read_head, diskVars
  <2> QED
    BY <1>0, <2>1, <2>3, <2>4 DEF Coherent
<1>11. ASSUME NEW p \in Procs, recover_trans(p) PROVE Coherent'
  <2>1. Uninstalled = {}
    BY <1>11, UninstalledNone DEF recover_trans
  <2>2. pc'[p] \in RecoverPC
    BY <1>0, <1>11 DEF recover_trans, Goto, TypeOK
  <2>3. Uninstalled' = {}
    BY <2>2 DEF Uninstalled
  <2>4. /\ disk' = [disk EXCEPT ![block[tail[p]]] = dlog[tail[p]]]
        /\ cache' = [cache EXCEPT ![block[tail[p]]] = dlog[tail[p]]]
        /\ pins' = pins /\ panicked' = panicked
    BY <1>11 DEF recover_trans, Install
  <2>5. \A b \in Blocks : pins[b] = 0 /\ (cache[b] \in {Absent, disk[b]} \/ panicked)
    BY <1>0, <2>1 DEF Coherent
  <2>6. \A b \in Blocks : pins'[b] = 0 /\ (cache'[b] \in {Absent, disk'[b]} \/ panicked')
    BY <1>0, <2>4, <2>5 DEF TypeOK
  <2> QED
    BY <2>3, <2>6 DEF Coherent
<1>12. ASSUME NEW p \in Procs, recover_clear(p) PROVE Coherent'
  <2>1. Uninstalled = {} /\ Uninstalled' = {}
    BY <1>0, <1>12, UninstalledNone DEF recover_clear, EraseLog, Uninstalled
  <2> QED
    BY <1>12, <1>a, <2>1 DEF recover_clear
<1>13. ASSUME NEW p \in Procs, NEW b \in Blocks, NEW v \in Vals, log_write(p, b, v)
       PROVE Coherent'
  <2>1. \A q \in Procs : pc[q] \notin {"install_trans", "clear"} \cup RecoverPC
    BY <1>13, Phases DEF log_write, Committing
  <2>2. Uninstalled = 1..n /\ Uninstalled' = 1..n'
    BY <1>13, <2>1 DEF log_write, Uninstalled
  <2>3. cache' = [cache EXCEPT ![b] = v] /\ disk' = disk
    BY <1>13 DEF log_write, diskVars
  <2>4. CASE LogWritePanics
    <3>1. panicked' /\ UNCHANGED <<n, pins, block>>
      BY <1>13, <2>4 DEF log_write
    <3>2. \A c \in Blocks : cache[c] # Absent => cache'[c] # Absent
      BY <1>0, <2>3, BlocksAssumption DEF TypeOK
    <3> QED
      BY <1>0, <2>2, <3>1, <3>2 DEF Coherent
  <2>5. CASE ~LogWritePanics /\ Logged(b)
    <3>1. UNCHANGED <<n, pins, block, panicked>>
      BY <1>13, <2>5 DEF log_write
    <3>2. ASSUME NEW c \in Blocks, c # b PROVE cache'[c] = cache[c] /\ disk'[c] = disk[c]
      BY <1>0, <2>3, <3>2 DEF TypeOK
    <3>3. cache'[b] # Absent /\ \E i \in 1..n : block[i] = b
      BY <1>0, <2>3, <2>5, BlocksAssumption DEF TypeOK, Logged
    <3> QED
      BY <1>0, <2>2, <3>1, <3>2, <3>3 DEF Coherent
  <2>6. CASE ~LogWritePanics /\ ~Logged(b)
    <3>1. /\ n' = n + 1 /\ block' = [block EXCEPT ![n + 1] = b]
          /\ pins' = [pins EXCEPT ![b] = @ + 1] /\ panicked' = panicked
      BY <1>13, <2>6 DEF log_write
    <3>2. n + 1 \in Index
      BY <1>0, <2>6, SizeAssumption DEF TypeOK, LogWritePanics
    <3>3. block'[n + 1] = b /\ \A i \in 1..n : block'[i] = block[i]
      BY <1>0, <3>1, <3>2 DEF TypeOK
    <3>4. pins[b] = 0
      BY <1>0, <2>2, <2>6 DEF Coherent, Logged
    <3>5. pins'[b] = 1 /\ cache'[b] # Absent
      BY <1>0, <2>3, <3>1, <3>4, BlocksAssumption DEF TypeOK
    <3>6. ASSUME NEW c \in Blocks, c # b
          PROVE  /\ pins'[c] = pins[c] /\ cache'[c] = cache[c] /\ disk'[c] = disk[c]
                 /\ (\E i \in 1..n' : block'[i] = c) <=> (\E i \in 1..n : block[i] = c)
      <4>1. pins'[c] = pins[c] /\ cache'[c] = cache[c] /\ disk'[c] = disk[c]
        BY <1>0, <2>3, <3>1, <3>6 DEF TypeOK
      <4>2. \A i \in 1..n' : i \in 1..n \/ i = n + 1
        BY <1>0, <3>1 DEF TypeOK
      <4>3. \A i \in 1..n : i \in 1..n'
        BY <1>0, <3>1 DEF TypeOK
      <4> QED
        BY <3>3, <3>6, <4>1, <4>2, <4>3
    <3>7. \E i \in 1..n' : block'[i] = b
      BY <1>0, <3>1, <3>2, <3>3 DEF TypeOK
    <3>8. ASSUME NEW c \in Blocks
          PROVE  IF \E i \in 1..n' : block'[i] = c
                 THEN pins'[c] = 1 /\ cache'[c] # Absent
                 ELSE pins'[c] = 0 /\ (cache'[c] \in {Absent, disk'[c]} \/ panicked')
      BY <1>0, <2>2, <3>1, <3>5, <3>6, <3>7 DEF Coherent
    <3> QED
      BY <2>2, <3>8 DEF Coherent
  <2> QED
    BY <2>4, <2>5, <2>6
<1>14. ASSUME NEW b \in Blocks, Bread(b) \/ Recycle(b) PROVE Coherent'
  <2>1. /\ UNCHANGED <<Uninstalled, block, pins, disk, panicked>>
        /\ \/ cache[b] = Absent /\ cache' = [cache EXCEPT ![b] = disk[b]]
           \/ pins[b] = 0 /\ cache' = [cache EXCEPT ![b] = Absent]
    BY <1>14 DEF Bread, Recycle, diskVars, Uninstalled
  <2>2. ASSUME NEW c \in Blocks, c # b PROVE cache'[c] = cache[c]
    BY <1>0, <2>1, <2>2 DEF TypeOK
  <2>3. ~\E i \in Uninstalled : block[i] = b
    BY <1>0, <2>1 DEF Coherent
  <2>4. pins[b] = 0 /\ cache'[b] \in {Absent, disk[b]}
    BY <1>0, <2>1, <2>3 DEF Coherent, TypeOK
  <2> QED
    BY <1>0, <2>1, <2>2, <2>3, <2>4 DEF Coherent
<1>15. CASE Crash
  <2>1. n' = 0 /\ pins' = [b \in Blocks |-> 0] /\ cache' = [b \in Blocks |-> Absent]
    BY <1>15 DEF Crash
  <2>2. Uninstalled' = {}
    BY <2>1 DEF Uninstalled
  <2> QED
    BY <2>1, <2>2 DEF Coherent
<1>16. CASE UNCHANGED vars
  BY <1>16, <1>a DEF vars, diskVars, memVars, Uninstalled
<1> QED
  BY <1>1, <1>2, <1>3, <1>4, <1>5, <1>6, <1>7, <1>8, <1>9, <1>10, <1>11,
     <1>12, <1>13, <1>14, <1>15, <1>16 DEF Next, Step
\* write_log() reads pinned buffers: it leaves the cache as it is.
LEMMA WriteLogReads ==
  ASSUME LogInv, NEW p \in Procs, write_log(p)
  PROVE  /\ tail[p] \in 1..n
         /\ cache' = cache
         /\ dlog' = [dlog EXCEPT ![tail[p]] = cache[block[tail[p]]]]
<1>0. TypeOK
  BY DEF LogInv
<1>1. \A q \in Procs : pc[q] \notin {"install_trans", "clear"} \cup RecoverPC
  BY <1>0, Phases DEF write_log, Committing
<1>2. tail[p] \in 1..n /\ tail[p] \in Uninstalled
  BY <1>0, <1>1, UninstalledAll DEF TypeOK, write_log
<1>3. block[tail[p]] \in Blocks /\ cache[block[tail[p]]] # Absent
  BY <1>2, Pinned
<1> QED
  BY <1>0, <1>2, <1>3 DEF write_log, Data, TypeOK

\* Every step of a commit and of a recovery keeps its promise on the contents
\* of the log, the home locations and the cache.
LEMMA ContentsStep ==
  ASSUME LogInv, [Next]_vars, NEW q \in Procs PROVE Contents(q)'
<1>0. Contents(q) /\ TypeOK /\ \A r \in Procs : Contents(r)
  BY DEF LogInv
<1>00. n \in Nat /\ n <= LOGSIZE /\ hn \in Nat /\ \A r \in Procs : tail[r] \in Nat \ {0}
  BY <1>0, SizeAssumption DEF TypeOK
<1>a. ASSUME UNCHANGED <<disk, dlog, hn, hblock, cache, n, block>>,
             pc'[q] = pc[q], tail'[q] = tail[q]
      PROVE  Contents(q)'
  BY <1>0, <1>a DEF Contents, SameHeader
<1>b. ASSUME pc'[q] \notin CommitPC \cup RecoverPC PROVE Contents(q)'
  BY <1>b DEF Contents
<1>c. ASSUME NEW p \in Procs, q # p, Committing(p) \/ pc[p] \in RecoverPC, pc'[q] = pc[q]
      PROVE  Contents(q)'
  <2>1. pc[q] \in {"idle", "begin_op", "asleep", "off"}
    BY <1>c, Phases
  <2> QED
    BY <2>1, <1>b, <1>c
<1>1. ASSUME NEW p \in Procs, CallBeginOp(p) PROVE Contents(q)'
  <2>1. pc'[p] = "begin_op" /\ (q # p => pc'[q] = pc[q])
    BY <1>0, <1>1 DEF CallBeginOp, TypeOK
  <2> QED
    BY <1>1, <1>a, <1>b, <2>1 DEF CallBeginOp, diskVars, memVars
<1>2. ASSUME NEW p \in Procs, begin_op(p) PROVE Contents(q)'
  <2>1. pc'[p] \in {"asleep", "inop"} /\ (q # p => pc'[q] = pc[q])
    BY <1>0, <1>2 DEF begin_op, TypeOK
  <2> QED
    BY <1>2, <1>a, <1>b, <2>1 DEF begin_op, diskVars
<1>3. ASSUME NEW p \in Procs, end_op(p) PROVE Contents(q)'
  <2>1. pc'[q] \in {"idle", "begin_op"} \/ pc'[q] = pc[q]
    BY <1>0, <1>3 DEF end_op, WakeupLog, TypeOK
  <2> QED
    BY <1>3, <1>a, <1>b, <2>1 DEF end_op, diskVars
<1>4. ASSUME NEW p \in Procs, end_op_commit(p) PROVE Contents(q)'
  <2>1. CASE q # p
    <3>1. pc'[q] = pc[q] /\ tail'[q] = tail[q]
      BY <1>0, <1>4, <2>1 DEF end_op_commit, TypeOK
    <3> QED
      BY <1>4, <1>a, <3>1 DEF end_op_commit, diskVars
  <2>2. CASE q = p
    <3>1. tail'[p] = 1 /\ n' = n /\ pc'[p] = IF n > 0 THEN "write_log" ELSE "committed"
      BY <1>0, <1>4 DEF end_op_commit, TypeOK
    <3> QED
      BY <1>00, <2>2, <3>1 DEF Contents
  <2> QED
    BY <2>1, <2>2
<1>5. ASSUME NEW p \in Procs, write_log(p) PROVE Contents(q)'
  <2>1. CASE q # p
    <3>1. Committing(p) /\ pc'[q] = pc[q]
      BY <1>0, <1>5, <2>1 DEF write_log, Goto, Committing, TypeOK
    <3> QED
      BY <1>c, <2>1, <3>1
  <2>2. CASE q = p
    <3> DEFINE t == tail[p]
    <3>1. /\ UNCHANGED <<n, block, cache>> /\ t \in 1..n
          /\ dlog' = [dlog EXCEPT ![t] = cache[block[t]]]
          /\ tail'[p] = t + 1
          /\ pc'[p] = IF t = n THEN "write_head" ELSE "write_log"
      BY <1>0, <1>5, WriteLogReads DEF write_log, Goto, TypeOK
    <3>2. \A i \in 1..(t - 1) : dlog[i] = cache[block[i]]
      BY <1>0, <1>5 DEF Contents, write_log
    <3>3. \A i \in 1..t : dlog'[i] = cache[block[i]]
      <4>1. \A i \in 1..t : i = t \/ i \in 1..(t - 1)
        BY <1>00
      <4>2. t \in Index /\ \A i \in 1..t : i \in Index
        BY <1>00, <3>1, SizeAssumption
      <4>3. dlog'[t] = cache[block[t]] /\ \A i \in 1..(t - 1) : dlog'[i] = dlog[i]
        BY <1>0, <1>00, <3>1, <4>2 DEF TypeOK
      <4> QED
        BY <3>2, <4>1, <4>3
    <3> QED
      BY <1>00, <2>2, <3>1, <3>3 DEF Contents
  <2> QED
    BY <2>1, <2>2
<1>6. ASSUME NEW p \in Procs, write_head(p) PROVE Contents(q)'
  <2>1. CASE q # p
    <3>1. Committing(p) /\ pc'[q] = pc[q]
      BY <1>0, <1>6, <2>1 DEF write_head, Goto, Committing, TypeOK
    <3> QED
      BY <1>c, <2>1, <3>1
  <2>2. CASE q = p
    <3>1. /\ UNCHANGED <<n, block, cache, dlog>>
          /\ tail'[p] = 1 /\ pc'[p] = "install_trans" /\ hn' = n
          /\ hblock' = [i \in Index |-> IF i <= n THEN block[i] ELSE hblock[i]]
      BY <1>0, <1>6 DEF write_head, Goto, TypeOK, memVars
    <3>2. n > 0 /\ \A i \in 1..n : dlog[i] = cache[block[i]]
      BY <1>0, <1>6 DEF Contents, write_head
    <3>3. \A i \in 1..n : i \in Index /\ i <= n
      BY <1>00, SizeAssumption
    <3>4. SameHeader'
      BY <3>1, <3>3 DEF SameHeader
    <3> QED
      BY <1>00, <2>2, <3>1, <3>2, <3>4 DEF Contents
  <2> QED
    BY <2>1, <2>2
<1>7. ASSUME NEW p \in Procs, install_trans(p) PROVE Contents(q)'
  <2>1. CASE q # p
    <3>1. Committing(p) /\ pc'[q] = pc[q]
      BY <1>0, <1>7, <2>1 DEF install_trans, Goto, Committing, TypeOK
    <3> QED
      BY <1>c, <2>1, <3>1
  <2>2. CASE q = p
    <3> DEFINE t == tail[p]
    <3>1. /\ UNCHANGED <<n, block, hn, hblock, dlog>> /\ t \in 1..n
          /\ disk' = [disk EXCEPT ![block[t]] = dlog[t]]
          /\ cache' = [cache EXCEPT ![block[t]] = dlog[t]]
          /\ tail'[p] = t + 1
          /\ pc'[p] = IF t = n THEN "clear" ELSE "install_trans"
      BY <1>0, <1>00, <1>7 DEF install_trans, Install, Goto, TypeOK
    <3>2. /\ SameHeader
          /\ \A i \in 1..(t - 1) : disk[block[i]] = dlog[i]
          /\ \A i \in t..n : cache[block[i]] = dlog[i]
      BY <1>0, <1>7 DEF Contents, install_trans
    <3>3. \A i \in 1..n : block[i] \in Blocks /\ (block[i] = block[t] => i = t)
      BY <3>1 DEF LogInv, Injective
    <3>4. \A i \in 1..t : disk'[block[i]] = dlog[i]
      <4>1. \A i \in 1..t : i \in 1..n /\ (i = t \/ i \in 1..(t - 1))
        BY <1>00, <3>1
      <4> QED
        BY <1>0, <3>1, <3>2, <3>3, <4>1 DEF TypeOK
    <3>5. \A i \in (t + 1)..n : cache'[block[i]] = dlog[i]
      <4>1. \A i \in (t + 1)..n : i \in 1..n /\ i \in t..n /\ i # t
        BY <1>00, <3>1
      <4> QED
        BY <1>0, <3>1, <3>2, <3>3, <4>1 DEF TypeOK
    <3>6. SameHeader'
      BY <3>1, <3>2 DEF SameHeader
    <3> QED
      BY <1>00, <2>2, <3>1, <3>4, <3>5, <3>6 DEF Contents
  <2> QED
    BY <2>1, <2>2
<1>8. ASSUME NEW p \in Procs, clear_head(p) PROVE Contents(q)'
  <2>1. CASE q # p
    <3>1. Committing(p) /\ pc'[q] = pc[q]
      BY <1>0, <1>8, <2>1 DEF clear_head, Goto, Committing, TypeOK
    <3> QED
      BY <1>c, <2>1, <3>1
  <2>2. CASE q = p
    <3>1. pc'[p] = "committed" /\ n' = 0
      BY <1>0, <1>8 DEF clear_head, EraseLog, Goto, TypeOK
    <3> QED
      BY <2>2, <3>1 DEF Contents
  <2> QED
    BY <2>1, <2>2
<1>9. ASSUME NEW p \in Procs, end_commit(p) PROVE Contents(q)'
  <2>1. pc'[q] \in {"idle", "begin_op"} \/ pc'[q] = pc[q]
    BY <1>0, <1>9 DEF end_commit, WakeupLog, TypeOK
  <2> QED
    BY <1>9, <1>a, <1>b, <2>1 DEF end_commit, diskVars
<1>10. ASSUME NEW p \in Procs, read_head(p) PROVE Contents(q)'
  <2>1. CASE q # p
    <3>1. pc[p] \in RecoverPC /\ pc'[q] = pc[q]
      BY <1>0, <1>10, <2>1 DEF read_head, Goto, TypeOK
    <3> QED
      BY <1>c, <2>1, <3>1
  <2>2. CASE q = p
    <3>1. /\ UNCHANGED <<hn, hblock>> /\ n' = hn /\ tail'[p] = 1
          /\ block' = [i \in Index |-> IF i <= hn THEN hblock[i] ELSE block[i]]
          /\ pc'[p] = IF hn = 0 THEN "recover_clear" ELSE "recover_trans"
      BY <1>0, <1>10 DEF read_head, Goto, TypeOK, diskVars
    <3>2. \A i \in 1..hn : i \in Index /\ i <= hn
      BY <1>0, SizeAssumption DEF TypeOK
    <3>3. SameHeader'
      BY <3>1, <3>2 DEF SameHeader
    <3> QED
      BY <1>00, <2>2, <3>1, <3>3 DEF Contents
  <2> QED
    BY <2>1, <2>2
<1>11. ASSUME NEW p \in Procs, recover_trans(p) PROVE Contents(q)'
  <2>1. CASE q # p
    <3>1. pc[p] \in RecoverPC /\ pc'[q] = pc[q]
      BY <1>0, <1>11, <2>1 DEF recover_trans, Goto, TypeOK
    <3> QED
      BY <1>c, <2>1, <3>1
  <2>2. CASE q = p
    <3> DEFINE t == tail[p]
    <3>1. /\ UNCHANGED <<n, block, hn, hblock, dlog>> /\ t \in 1..n
          /\ disk' = [disk EXCEPT ![block[t]] = dlog[t]]
          /\ tail'[p] = t + 1
          /\ pc'[p] = IF t = n THEN "recover_clear" ELSE "recover_trans"
      BY <1>0, <1>00, <1>11 DEF recover_trans, Install, Goto, TypeOK
    <3>2. SameHeader /\ \A i \in 1..(t - 1) : disk[block[i]] = dlog[i]
      BY <1>0, <1>11 DEF Contents, recover_trans
    <3>3. \A i \in 1..n : block[i] \in Blocks /\ (block[i] = block[t] => i = t)
      BY <3>1 DEF LogInv, Injective
    <3>4. \A i \in 1..t : disk'[block[i]] = dlog[i]
      <4>1. \A i \in 1..t : i \in 1..n /\ (i = t \/ i \in 1..(t - 1))
        BY <1>00, <3>1
      <4> QED
        BY <1>0, <3>1, <3>2, <3>3, <4>1 DEF TypeOK
    <3>5. SameHeader'
      BY <3>1, <3>2 DEF SameHeader
    <3> QED
      BY <1>00, <2>2, <3>1, <3>4, <3>5 DEF Contents
  <2> QED
    BY <2>1, <2>2
<1>12. ASSUME NEW p \in Procs, recover_clear(p) PROVE Contents(q)'
  BY <1>12, <1>b DEF recover_clear
<1>13. ASSUME NEW p \in Procs, NEW b \in Blocks, NEW v \in Vals, log_write(p, b, v)
       PROVE Contents(q)'
  <2>1. ~Committing(q) /\ pc[q] \notin RecoverPC /\ pc'[q] = pc[q]
    BY <1>13, Phases DEF log_write
  <2> QED
    BY <2>1, <1>b DEF Committing
<1>14. ASSUME NEW b \in Blocks, Bread(b) \/ Recycle(b) PROVE Contents(q)'
  <2>1. /\ UNCHANGED <<disk, dlog, hn, hblock, n, block, pc, tail>>
        /\ cache' = [cache EXCEPT ![b] = disk[b]] \/ cache' = [cache EXCEPT ![b] = Absent]
    BY <1>14 DEF Bread, Recycle, diskVars
  <2>2. ~\E i \in Uninstalled : block[i] = b
    BY <1>14 DEF Bread, Recycle, LogInv, Coherent
  <2>3. \A i \in Uninstalled : cache'[block[i]] = cache[block[i]]
    BY <1>0, <2>1, <2>2, Pinned DEF TypeOK
  <2>4. CASE pc[q] \in {"write_log", "write_head"}
    <3>1. \A r \in Procs : pc[r] \notin {"install_trans", "clear"} \cup RecoverPC
      BY <1>0, <2>4, Phases DEF Committing
    <3>2. Uninstalled = 1..n
      BY <3>1, UninstalledAll
    <3>3. pc[q] = "write_log" => \A i \in 1..(tail[q] - 1) : i \in 1..n
      BY <1>0, <1>00 DEF Contents
    <3> QED
      BY <1>0, <2>1, <2>3, <2>4, <3>2, <3>3 DEF Contents
  <2>5. CASE pc[q] = "install_trans"
    <3>1. Uninstalled = tail[q]..n
      BY <2>5, UninstalledFrom
    <3> QED
      BY <1>0, <2>1, <2>3, <2>5, <3>1 DEF Contents, SameHeader
  <2>6. CASE pc[q] = "read_head"
    <3>1. cache[b] = Absent
      BY <1>0, <2>6 DEF Contents
    <3>2. PICK r \in Procs : pc[r] \in {"idle", "inop"}
      BY <1>14, <3>1 DEF Bread, Recycle
    <3>3. FALSE
      BY <2>6, <3>2, Phases
    <3> QED
      BY <3>3
  <2>7. CASE pc[q] \notin {"write_log", "write_head", "install_trans", "read_head"}
    BY <1>0, <2>1, <2>7 DEF Contents, SameHeader
  <2> QED
    BY <2>4, <2>5, <2>6, <2>7
<1>15. CASE Crash
  <2>1. pc'[q] \in {"read_head", "off"} /\ \A b \in Blocks : cache'[b] = Absent
    BY <1>15 DEF Crash
  <2> QED
    BY <2>1 DEF Contents
<1>16. CASE UNCHANGED vars
  BY <1>16, <1>a DEF vars, diskVars, memVars
<1> QED
  BY <1>1, <1>2, <1>3, <1>4, <1>5, <1>6, <1>7, <1>8, <1>9, <1>10, <1>11,
     <1>12, <1>13, <1>14, <1>15, <1>16 DEF Next, Step
-----------------------------------------------------------------------------
(***************************************************************************)
(* The invariant and its consequences.                                     *)
(***************************************************************************)

\* The first boot satisfies the invariant.
LEMMA LogInvInit == Init => LogInv
<1> SUFFICES ASSUME Init PROVE LogInv
  OBVIOUS
<1>1. TypeOK
  BY TypeInit
<1>2. /\ pc = [p \in Procs |-> IF p = InitProc THEN "read_head" ELSE "off"]
      /\ outstanding = 0 /\ committing = FALSE /\ n = 0 /\ hn = 0
      /\ pins = [b \in Blocks |-> 0] /\ cache = [b \in Blocks |-> Absent]
  BY DEF Init
<1>3. InOp = {} /\ Uninstalled = {} /\ Booting
  BY <1>2, ProcsAssumption DEF InOp, Uninstalled, Booting
<1>4. Control
  BY <1>2, <1>3, FS_EmptySet DEF Control, Committing
<1>5. Injective(n, block) /\ Injective(hn, hblock) /\ HeaderEmpty /\ IdleEmpty
  BY <1>2, <1>3 DEF Injective, HeaderEmpty, IdleEmpty
<1>6. \A p \in Procs : Contents(p)
  BY <1>2 DEF Contents
<1>7. Coherent
  BY <1>2, <1>3 DEF Coherent
<1> QED
  BY <1>1, <1>4, <1>5, <1>6, <1>7 DEF LogInv

\* Every step preserves the invariant.
LEMMA LogInvStep == LogInv /\ [Next]_vars => LogInv'
  BY TypeStep, ControlStep, BlocksStep, HeaderBlocksStep, ContentsStep,
     HeaderEmptyStep, IdleEmptyStep, CoherentStep DEF LogInv

\* LogInv holds in every reachable state, whatever crashes happen in the
\* middle of a commit or of a recovery.
THEOREM LogInvariant == Spec => []LogInv
  BY LogInvInit, LogInvStep, PTL DEF Spec

\* The state of log.c stays within its types; log.lh.n within LOGSIZE.
THEOREM TypeCorrect == Spec => []TypeOK
<1>1. LogInv => TypeOK
  BY DEF LogInv
<1> QED
  BY <1>1, LogInvariant, PTL

\* A commit never overlaps a running call or another commit.
THEOREM CommitAlone == Spec => []CommitExclusive
<1>1. LogInv => CommitExclusive
  BY Phases DEF CommitExclusive, Committing
<1> QED
  BY <1>1, LogInvariant, PTL

\* Every bpin() is matched by exactly one bunpin(), and a block waiting to be
\* installed is never recycled.
THEOREM PinsBalanced == Spec => []PinBalance
<1>1. LogInv => PinBalance
  BY DEF LogInv, Coherent, PinBalance
<1> QED
  BY <1>1, LogInvariant, PTL
-----------------------------------------------------------------------------
(***************************************************************************)
(* What a crash would leave.                                               *)
(***************************************************************************)

\* The entry of a block is unique, so CHOOSE finds it.
LEMMA ChooseEntry ==
  ASSUME NEW m, NEW f, NEW i \in 1..m, \A j \in 1..m : f[j] = f[i] => j = i
  PROVE  (CHOOSE j \in 1..m : f[j] = f[i]) = i
  OBVIOUS

\* Recovery takes a committed block from the log ...
LEMMA RecoveredLogged ==
  ASSUME LogInv, NEW i \in 1..hn
  PROVE  Recovered(hblock[i]) = dlog[i]
<1>1. \A j \in 1..hn : hblock[j] = hblock[i] => j = i
  BY DEF LogInv, Injective
<1> QED
  BY <1>1, ChooseEntry DEF Recovered

\* ... and leaves every other block alone.
LEMMA RecoveredHome ==
  ASSUME NEW b, ~\E i \in 1..hn : hblock[i] = b
  PROVE  Recovered(b) = disk[b]
  BY DEF Recovered

\* Outside the installation of a commit the header on disk is empty.
LEMMA RecoveredIdle ==
  ASSUME LogInv, NEW b,
         \A q \in Procs : pc[q] \notin {"install_trans", "clear"} \cup RecoverPC
  PROVE  hn = 0 /\ Recovered(b) = disk[b]
<1>1. hn = 0
  BY DEF LogInv, HeaderEmpty
<1> QED
  BY <1>1, RecoveredHome

\* Once every call of a group has returned from end_op(), a crash would lose
\* nothing of what they wrote.
THEOREM Durable == Spec => []DurableWhenIdle
<1>1. LogInv => DurableWhenIdle
  <2> SUFFICES ASSUME LogInv, ~Booting, outstanding = 0, ~committing, NEW b \in Blocks
               PROVE  Recovered(b) = Data(b)
    BY DEF DurableWhenIdle
  <2>1. \A q \in Procs : pc[q] \notin {"install_trans", "clear"} \cup RecoverPC
    BY DEF LogInv, Control, Booting, Committing
  <2>2. ~(n > 0) /\ ~panicked
    BY DEF LogInv, IdleEmpty
  <2>3. n = 0
    BY <2>2 DEF LogInv, TypeOK
  <2>4. Uninstalled = {}
    BY <2>3 DEF Uninstalled
  <2>5. cache[b] \in {Absent, disk[b]}
    BY <2>2, <2>4 DEF LogInv, Coherent
  <2> QED
    BY <2>1, <2>5, RecoveredIdle DEF Data
<1> QED
  BY <1>1, LogInvariant, PTL
-----------------------------------------------------------------------------
(***************************************************************************)
(* The log implements AtomicDisk.                                          *)
(***************************************************************************)

\* The disk that mkfs wrote is an initial state of AtomicDisk.
LEMMA RefineInit == Init => AD!Init
<1> SUFFICES ASSUME Init PROVE AD!Init
  OBVIOUS
<1>1. /\ disk \in [Blocks -> Vals] /\ hn = 0
      /\ pc = [p \in Procs |-> IF p = InitProc THEN "read_head" ELSE "off"]
  BY DEF Init
<1>2. Booting /\ InOp = {}
  BY <1>1, ProcsAssumption DEF Booting, InOp
<1>3. \A b \in Blocks : Recovered(b) = disk[b]
  BY <1>1, RecoveredHome
<1> QED
  BY <1>1, <1>2, <1>3 DEF AD!Init, Stable, Mem

\* Installing log entry t changes neither what a crash would leave, nor, for
\* a block whose buffer holds the logged contents, what a call reads.
LEMMA InstallInvisible ==
  ASSUME LogInv, NEW t \in 1..n, Install(t), SameHeader, UNCHANGED <<hn, hblock, dlog>>
  PROVE  UNCHANGED Stable
<1>1. hblock[t] = block[t] /\ t \in 1..hn /\ disk \in [Blocks -> Vals]
  BY DEF SameHeader, LogInv, TypeOK
<1>2. disk' = [disk EXCEPT ![block[t]] = dlog[t]]
  BY DEF Install
<1>3. ASSUME NEW b \in Blocks PROVE Recovered(b)' = Recovered(b)
  <2>1. CASE b = block[t]
    BY <1>1, <2>1 DEF Recovered
  <2>2. CASE b # block[t]
    BY <1>1, <1>2, <2>2 DEF Recovered
  <2> QED
    BY <2>1, <2>2
<1> QED
  BY <1>3 DEF Stable

\* Erasing a log whose blocks are all home changes nothing either.
LEMMA EraseInvisible ==
  ASSUME LogInv, EraseLog, SameHeader, UNCHANGED disk,
         \A i \in 1..n : disk[block[i]] = dlog[i]
  PROVE  /\ \A b \in Blocks : Recovered(b) = disk[b]
         /\ UNCHANGED Stable
<1>1. ASSUME NEW b \in Blocks PROVE Recovered(b) = disk[b]
  <2>1. ASSUME NEW i \in 1..hn, hblock[i] = b PROVE Recovered(b) = disk[b]
    BY <2>1, RecoveredLogged DEF SameHeader
  <2> QED
    BY <2>1, RecoveredHome
<1>2. ASSUME NEW b \in Blocks PROVE Recovered(b)' = disk[b]
  BY DEF EraseLog, Recovered
<1> QED
  BY <1>1, <1>2 DEF Stable

\* Every step of the log is a step of AtomicDisk or leaves it unchanged.
LEMMA RefineStep == LogInv /\ [Next]_vars => [AD!Next]_(AD!vars)
<1> SUFFICES ASSUME LogInv, [Next]_vars PROVE AD!Next \/ UNCHANGED AD!vars
  OBVIOUS
<1>0. TypeOK /\ Control /\ \A p \in Procs : Contents(p)
  BY DEF LogInv
<1>s. ASSUME UNCHANGED diskVars PROVE UNCHANGED Stable
  BY <1>s DEF diskVars, Stable, Recovered
<1>m. ASSUME UNCHANGED <<disk, cache>>, ~Booting, ~Booting' PROVE UNCHANGED Mem
  BY <1>m DEF Mem, Data
<1>1. ASSUME NEW p \in Procs, CallBeginOp(p) PROVE UNCHANGED AD!vars
  <2>1. UNCHANGED InOp /\ ~Booting /\ ~Booting'
    BY <1>0, <1>1 DEF CallBeginOp, Control, Booting, InOp, TypeOK
  <2> QED
    BY <1>1, <1>s, <1>m, <2>1 DEF CallBeginOp, diskVars, memVars, AD!vars
<1>2. ASSUME NEW p \in Procs, begin_op(p) PROVE AD!Next \/ UNCHANGED AD!vars
  <2>1. ~Booting /\ ~Booting'
    BY <1>0, <1>2 DEF begin_op, Control, Booting, TypeOK
  <2>2. UNCHANGED <<Stable, Mem>>
    BY <1>2, <1>s, <1>m, <2>1 DEF begin_op, diskVars
  <2>3. \/ UNCHANGED InOp
        \/ p \notin InOp /\ InOp' = InOp \cup {p}
    BY <1>0, <1>2 DEF begin_op, InOp, TypeOK
  <2> QED
    BY <2>2, <2>3 DEF AD!Next, AD!Begin, AD!vars
<1>3. ASSUME NEW p \in Procs, end_op(p) \/ end_op_commit(p) PROVE AD!Next
  <2>1. ~Booting /\ ~Booting'
    BY <1>0, <1>3 DEF end_op, end_op_commit, WakeupLog, Control, Booting, TypeOK
  <2>2. UNCHANGED <<Stable, Mem>>
    BY <1>3, <1>s, <1>m, <2>1 DEF end_op, end_op_commit, diskVars
  <2>3. p \in InOp /\ InOp' = InOp \ {p}
    BY <1>0, <1>3 DEF end_op, end_op_commit, WakeupLog, InOp, TypeOK
  <2> QED
    BY <2>2, <2>3 DEF AD!Next, AD!End
<1>4. ASSUME NEW p \in Procs, write_log(p) PROVE UNCHANGED AD!vars
  <2>1. \A q \in Procs : pc[q] \notin {"install_trans", "clear"} \cup RecoverPC
    BY <1>0, <1>4, Phases DEF write_log, Committing
  <2>2. UNCHANGED InOp /\ ~Booting /\ ~Booting'
    BY <1>0, <1>4, <2>1 DEF write_log, Goto, Booting, InOp, TypeOK
  <2>3. hn = 0 /\ UNCHANGED <<disk, hn, cache>>
    BY <1>4, <2>1, RecoveredIdle, WriteLogReads DEF write_log
  <2>4. UNCHANGED Stable
    BY <2>3 DEF Stable, Recovered
  <2> QED
    BY <1>m, <2>2, <2>3, <2>4 DEF AD!vars
<1>5. ASSUME ~panicked, NEW p \in Procs, write_head(p) PROVE AD!Next
  <2>1. \A q \in Procs : pc[q] \notin {"install_trans", "clear", "inop"} \cup RecoverPC
    BY <1>0, <1>5, Phases DEF write_head, Committing
  <2>2. InOp = {} /\ InOp' = {} /\ ~Booting /\ ~Booting'
    BY <1>0, <1>5, <2>1 DEF write_head, Goto, Booting, InOp, TypeOK
  <2>3. UNCHANGED Mem
    BY <1>5, <1>m, <2>2 DEF write_head, memVars
  <2>4. /\ UNCHANGED <<disk, dlog, cache>> /\ hn' = n
        /\ hblock' = [i \in Index |-> IF i <= n THEN block[i] ELSE hblock[i]]
    BY <1>5 DEF write_head, memVars
  <2>5. \A i \in 1..n : hblock'[i] = block[i] /\ dlog[i] = cache[block[i]]
    <3>1. \A i \in 1..n : i \in Index /\ i <= n
      BY <1>0, SizeAssumption DEF TypeOK
    <3>2. \A i \in 1..n : dlog[i] = cache[block[i]]
      BY <1>0, <1>5 DEF Contents, write_head
    <3> QED
      BY <2>4, <3>1, <3>2
  <2>6. Uninstalled = 1..n /\ ~panicked
    BY <1>5, <2>1, UninstalledAll
  <2>7. ASSUME NEW b \in Blocks PROVE Recovered(b)' = Data(b)
    <3>1. ASSUME NEW i \in 1..n, block[i] = b PROVE Recovered(b)' = Data(b)
      <4>1. \A j \in 1..n : block[j] = block[i] => j = i
        BY DEF LogInv, Injective
      <4>2. (CHOOSE j \in 1..hn' : hblock'[j] = b) = i
        <5>1. \A j \in 1..hn' : hblock'[j] = hblock'[i] => j = i
          BY <2>4, <2>5, <4>1
        <5>2. i \in 1..hn' /\ hblock'[i] = b
          BY <2>4, <2>5, <3>1
        <5> QED
          BY <5>1, <5>2, ChooseEntry
      <4>3. Recovered(b)' = dlog[i]
        BY <2>4, <2>5, <3>1, <4>2 DEF Recovered
      <4>4. cache[b] # Absent
        BY <2>6, <3>1, Pinned
      <4> QED
        BY <2>5, <3>1, <4>3, <4>4 DEF Data
    <3>2. ASSUME ~\E i \in 1..n : block[i] = b PROVE Recovered(b)' = Data(b)
      <4>1. Recovered(b)' = disk[b]
        BY <2>4, <2>5, <3>2 DEF Recovered
      <4>2. cache[b] \in {Absent, disk[b]}
        BY <2>6, <3>2 DEF LogInv, Coherent
      <4> QED
        BY <4>1, <4>2 DEF Data
    <3> QED
      BY <3>1, <3>2
  <2>8. Stable' = Mem
    BY <2>2, <2>7 DEF Stable, Mem
  <2> QED
    BY <2>2, <2>3, <2>8 DEF AD!Next, AD!Commit
<1>6. ASSUME NEW p \in Procs, install_trans(p) PROVE UNCHANGED AD!vars
  <2> DEFINE t == tail[p]
  <2>1. UNCHANGED InOp /\ ~Booting /\ ~Booting'
    BY <1>0, <1>6, Phases DEF install_trans, Goto, Booting, InOp, TypeOK, Committing
  <2>2. t \in 1..n /\ SameHeader /\ cache[block[t]] = dlog[t] /\ block[t] \in Blocks
    <3>1. t \in 1..n
      BY <1>0, <1>6 DEF install_trans, TypeOK
    <3> QED
      BY <1>0, <1>6, <3>1 DEF install_trans, Contents, TypeOK, LogInv, Injective
  <2>3. UNCHANGED Stable
    BY <1>6, <2>2, InstallInvisible DEF install_trans
  <2>4. dlog[t] # Absent
    BY <1>0, <2>2, BlocksAssumption, SizeAssumption DEF TypeOK
  <2>5. /\ disk' = [disk EXCEPT ![block[t]] = dlog[t]]
        /\ cache' = [cache EXCEPT ![block[t]] = dlog[t]]
    BY <1>6 DEF install_trans, Install
  <2>6. \A b \in Blocks : Data(b)' = Data(b)
    BY <1>0, <2>2, <2>4, <2>5 DEF Data, TypeOK
  <2>7. UNCHANGED Mem
    BY <2>1, <2>6 DEF Mem
  <2> QED
    BY <2>1, <2>3, <2>7 DEF AD!vars
<1>7. ASSUME NEW p \in Procs, clear_head(p) PROVE UNCHANGED AD!vars
  <2>1. UNCHANGED InOp /\ ~Booting /\ ~Booting'
    BY <1>0, <1>7, Phases DEF clear_head, Goto, Booting, InOp, TypeOK, Committing
  <2>2. UNCHANGED Stable
    BY <1>0, <1>7, EraseInvisible DEF clear_head, Contents
  <2> QED
    BY <1>7, <1>m, <2>1, <2>2 DEF clear_head, AD!vars
<1>8. ASSUME NEW p \in Procs, end_commit(p) PROVE UNCHANGED AD!vars
  <2>1. UNCHANGED InOp /\ ~Booting /\ ~Booting'
    BY <1>0, <1>8 DEF end_commit, Control, WakeupLog, Booting, InOp, TypeOK
  <2> QED
    BY <1>8, <1>s, <1>m, <2>1 DEF end_commit, diskVars, AD!vars
<1>9. ASSUME NEW p \in Procs, read_head(p) PROVE UNCHANGED AD!vars
  <2>1. UNCHANGED InOp /\ Booting /\ Booting'
    BY <1>0, <1>9 DEF read_head, Goto, Booting, InOp, TypeOK
  <2>2. UNCHANGED Stable
    BY <1>9, <1>s DEF read_head
  <2> QED
    BY <2>1, <2>2 DEF Stable, Mem, AD!vars
<1>10. ASSUME NEW p \in Procs, recover_trans(p) PROVE UNCHANGED AD!vars
  <2>1. UNCHANGED InOp /\ Booting /\ Booting'
    BY <1>0, <1>10 DEF recover_trans, Goto, Booting, InOp, TypeOK
  <2>2. tail[p] \in 1..n /\ SameHeader
    BY <1>0, <1>10 DEF recover_trans, Contents, TypeOK
  <2>3. UNCHANGED Stable
    BY <1>10, <2>2, InstallInvisible DEF recover_trans
  <2> QED
    BY <2>1, <2>3 DEF Stable, Mem, AD!vars
<1>11. ASSUME ~panicked, NEW p \in Procs, recover_clear(p) PROVE UNCHANGED AD!vars
  <2>1. Booting /\ ~Booting' /\ InOp = {} /\ InOp' = {}
    BY <1>0, <1>11 DEF recover_clear, Control, Booting, InOp
  <2>2. UNCHANGED Stable /\ \A b \in Blocks : Recovered(b) = disk[b]
    BY <1>0, <1>11, EraseInvisible DEF recover_clear, Contents
  <2>3. \A b \in Blocks : cache[b] \in {Absent, disk[b]}
    BY <1>11, UninstalledNone DEF recover_clear, LogInv, Coherent
  <2>4. \A b \in Blocks : Data(b)' = disk[b]
    BY <1>11, <2>3 DEF recover_clear, Data
  <2> QED
    BY <2>1, <2>2, <2>4 DEF Mem, AD!vars
<1>12. ASSUME NEW p \in Procs, NEW b \in Blocks, NEW v \in Vals, log_write(p, b, v)
       PROVE AD!Next
  <2>1. UNCHANGED InOp /\ p \in InOp /\ ~Booting /\ ~Booting'
    BY <1>0, <1>12 DEF log_write, Control, Booting, InOp
  <2>2. UNCHANGED Stable
    BY <1>12, <1>s DEF log_write, diskVars
  <2>3. cache' = [cache EXCEPT ![b] = v] /\ disk' = disk /\ v # Absent
    BY <1>12, BlocksAssumption DEF log_write, diskVars
  <2>4. Data(b)' = v /\ \A c \in Blocks : c # b => Data(c)' = Data(c)
    BY <1>0, <2>3 DEF Data, TypeOK
  <2>5. Mem' = [Mem EXCEPT ![b] = v]
    BY <2>1, <2>4 DEF Mem
  <2> QED
    BY <2>1, <2>2, <2>5 DEF AD!Next, AD!Write
<1>13. ASSUME ~panicked, NEW b \in Blocks, Bread(b) \/ Recycle(b) PROVE UNCHANGED AD!vars
  <2>1. UNCHANGED <<InOp, Booting, disk, Stable>>
    BY <1>13, <1>s DEF Bread, Recycle, InOp, Booting, diskVars
  <2>2. CASE Bread(b)
    BY <1>0, <2>1, <2>2 DEF Bread, Mem, Data, TypeOK, Stable, Recovered, AD!vars
  <2>3. CASE Recycle(b)
    <3>1. cache[b] = disk[b] /\ cache' = [cache EXCEPT ![b] = Absent]
      BY <1>13, <2>3 DEF Recycle, LogInv, Coherent
    <3>2. \A c \in Blocks : Data(c)' = Data(c) /\ Recovered(c)' = Recovered(c)
      BY <1>0, <2>3, <2>1, <3>1 DEF Data, TypeOK, Recovered, Recycle, diskVars
    <3> QED
      BY <2>1, <3>2 DEF Mem, AD!vars
  <2> QED
    BY <1>13, <2>2, <2>3
<1>14. CASE Crash
  <2>1. Booting' /\ InOp' = {}
    BY <1>14, ProcsAssumption DEF Crash, Booting, InOp
  <2>2. UNCHANGED Stable
    BY <1>14, <1>s DEF Crash
  <2>3. Mem' = Stable'
    BY <2>1 DEF Mem, Stable
  <2> QED
    BY <2>1, <2>2, <2>3 DEF AD!Next, AD!Crash
<1>15. CASE UNCHANGED vars
  BY <1>15 DEF vars, diskVars, memVars, AD!vars, Stable, Mem, Recovered, Data, Booting, InOp
<1> QED
  BY <1>1, <1>2, <1>3, <1>4, <1>5, <1>6, <1>7, <1>8, <1>9, <1>10, <1>11,
     <1>12, <1>13, <1>14, <1>15 DEF Next, Step

\* The write-ahead log implements a disk with atomic multi-block updates:
\* whenever the machine stops, what recovery leaves is what the calls that
\* had ended before some commit wrote, all of it and nothing else.
THEOREM CrashAtomicity == Spec => CrashAtomic
  BY RefineInit, RefineStep, LogInvariant, PTL DEF Spec, CrashAtomic, AD!Spec
-----------------------------------------------------------------------------
(***************************************************************************)
(* The log never overflows.                                                *)
(***************************************************************************)

\* The unused reservations are finitely many, in this state and the next.
LEMMA UnusedFinite ==
  /\ IsFiniteSet(Unused) /\ Cardinality(Unused) \in Nat
  /\ IsFiniteSet(Unused') /\ Cardinality(Unused') \in Nat
<1>1. IsFiniteSet(1..MAXOPBLOCKS)
  BY FS_Interval, SizeAssumption
<1>2. IsFiniteSet(Procs \X (1..MAXOPBLOCKS))
  BY <1>1, ProcsAssumption, FS_Product
<1>3. Unused \subseteq Procs \X (1..MAXOPBLOCKS) /\ Unused' \subseteq Procs \X (1..MAXOPBLOCKS)
  BY DEF Unused
<1>4. IsFiniteSet(Unused) /\ IsFiniteSet(Unused')
  BY <1>2, <1>3, FS_Subset
<1> QED
  BY <1>4, FS_CardinalityType

\* A call that enters finds its reservation free, whatever the others use.
LEMMA EnterFits ==
  ASSUME LogInv, NEW p \in Procs, begin_op(p), ~(committing \/ ~HasRoom)
  PROVE  n + Cardinality(Unused') <= LOGSIZE
<1>1. /\ pc[p] = "begin_op" /\ pc' = [pc EXCEPT ![p] = "inop"]
      /\ n + (outstanding + 1) * MAXOPBLOCKS <= LOGSIZE
      /\ outstanding' = outstanding + 1
  BY DEF begin_op, HasRoom
<1>2. outstanding' = Cardinality(InOp') /\ outstanding \in Nat /\ n \in Nat
  <2>2. InOp' = InOp \cup {p} /\ p \notin InOp
    BY <1>1 DEF LogInv, TypeOK, InOp
  <2>3. Cardinality(InOp') = Cardinality(InOp) + 1
    BY <2>2, InOpFinite, FS_AddElement
  <2> QED
    BY <1>1, <2>3 DEF LogInv, Control, TypeOK
<1>3. Cardinality(1..MAXOPBLOCKS) = MAXOPBLOCKS /\ IsFiniteSet(1..MAXOPBLOCKS)
  BY FS_Interval, SizeAssumption
<1>4. /\ IsFiniteSet(InOp' \X (1..MAXOPBLOCKS))
      /\ Cardinality(InOp' \X (1..MAXOPBLOCKS)) = (outstanding + 1) * MAXOPBLOCKS
  <2>1. /\ IsFiniteSet(InOp' \X (1..MAXOPBLOCKS))
        /\ Cardinality(InOp' \X (1..MAXOPBLOCKS))
             = Cardinality(InOp') * Cardinality(1..MAXOPBLOCKS)
    BY <1>3, InOpFinite, FS_Product
  <2> QED
    BY <1>1, <1>2, <1>3, <2>1
<1>5. Unused' \subseteq InOp' \X (1..MAXOPBLOCKS)
  BY DEF Unused, InOp
<1>6. Cardinality(Unused') <= Cardinality(InOp' \X (1..MAXOPBLOCKS))
  BY <1>4, <1>5, FS_Subset
<1>7. (outstanding + 1) * MAXOPBLOCKS \in Nat
  BY <1>2, SizeAssumption
<1> QED
  BY <1>1, <1>2, <1>4, <1>6, <1>7, UnusedFinite, SizeAssumption

\* The log always has room for all unused reservations.
LEMMA ReservedStep == LogInv /\ Reserved /\ [Next]_vars => Reserved'
<1> SUFFICES ASSUME LogInv, Reserved, [Next]_vars PROVE Reserved'
  OBVIOUS
<1>0. TypeOK /\ n \in Nat /\ LOGSIZE \in Nat
  BY SizeAssumption DEF LogInv, TypeOK
<1>a. ASSUME n' \in Nat, n' <= n, Unused' \subseteq Unused PROVE Reserved'
  <2>1. Cardinality(Unused') <= Cardinality(Unused)
    BY <1>a, UnusedFinite, FS_Subset
  <2> QED
    BY <1>0, <1>a, <2>1, UnusedFinite DEF Reserved
<1>b. ASSUME n' \in Nat, n' <= LOGSIZE, Unused' = {} PROVE Reserved'
  BY <1>0, <1>b, FS_EmptySet DEF Reserved
<1>1. ASSUME NEW p \in Procs, begin_op(p) PROVE Reserved'
  <2>1. CASE committing \/ ~HasRoom
    <3>1. UNCHANGED <<n, used>> /\ pc' = [pc EXCEPT ![p] = "asleep"]
      BY <1>1, <2>1 DEF begin_op
    <3> QED
      BY <1>0, <1>a, <3>1 DEF Unused, TypeOK
  <2>2. CASE ~(committing \/ ~HasRoom)
    <3>1. n' = n
      BY <1>1 DEF begin_op
    <3> QED
      BY <1>1, <2>2, <3>1, EnterFits DEF Reserved
  <2> QED
    BY <2>1, <2>2
<1>2. ASSUME NEW p \in Procs, NEW b \in Blocks, NEW v \in Vals, log_write(p, b, v)
      PROVE Reserved'
  <2>1. CASE UNCHANGED <<n, used>>
    BY <1>0, <1>2, <1>a, <2>1 DEF log_write, Unused
  <2>2. CASE ~UNCHANGED <<n, used>>
    <3>1. /\ pc[p] = "inop" /\ UNCHANGED pc /\ n' = n + 1
          /\ used' = [used EXCEPT ![p] = @ + 1] /\ used[p] < OPBLOCKS
      BY <1>2, <2>2 DEF log_write
    <3> DEFINE tok == <<p, used[p] + 1>>
    <3>2. used \in [Procs -> 0..OPBLOCKS] /\ OPBLOCKS \in 0..MAXOPBLOCKS /\ MAXOPBLOCKS \in Nat
      BY <1>0, SizeAssumption DEF TypeOK
    <3>3. used[p] + 1 \in 1..MAXOPBLOCKS /\ used[p] \in Nat
      BY <3>1, <3>2
    <3>4. tok \in Unused
      BY <3>1, <3>3 DEF Unused
    <3>5. Unused' \subseteq Unused \ {tok}
      <4> SUFFICES ASSUME NEW t \in Unused' PROVE t \in Unused /\ t # tok
        OBVIOUS
      <4>1. t \in Procs \X (1..MAXOPBLOCKS) /\ pc[t[1]] = "inop" /\ used'[t[1]] < t[2]
        BY <3>1 DEF Unused
      <4>2. CASE t[1] = p
        <5>1. used'[p] = used[p] + 1
          BY <3>1, <3>2
        <5>2. t[2] \in Nat /\ used[p] + 1 < t[2]
          BY <4>1, <4>2, <5>1, <3>2
        <5> QED
          BY <3>3, <4>1, <4>2, <5>2 DEF Unused
      <4>3. CASE t[1] # p
        <5>1. used'[t[1]] = used[t[1]]
          BY <3>1, <3>2, <4>1, <4>3
        <5> QED
          BY <4>1, <4>3, <5>1 DEF Unused
      <4> QED
        BY <4>2, <4>3
    <3>6. /\ Cardinality(Unused \ {tok}) = Cardinality(Unused) - 1
          /\ IsFiniteSet(Unused \ {tok})
      BY <3>4, UnusedFinite, FS_RemoveElement
    <3>7. Cardinality(Unused') <= Cardinality(Unused) - 1
      BY <3>5, <3>6, FS_Subset
    <3> QED
      BY <1>0, <3>1, <3>7, UnusedFinite DEF Reserved
  <2> QED
    BY <2>1, <2>2
<1>3. ASSUME NEW p \in Procs, CallBeginOp(p) \/ end_op(p) \/ end_op_commit(p) \/ end_commit(p)
      PROVE Reserved'
  <2>1. UNCHANGED <<n, used>>
    BY <1>3 DEF CallBeginOp, end_op, end_op_commit, end_commit, memVars
  <2>2. \A q \in Procs : pc'[q] = "inop" => pc[q] = "inop"
    BY <1>0, <1>3 DEF CallBeginOp, end_op, end_op_commit, end_commit, WakeupLog, TypeOK
  <2> QED
    BY <1>0, <1>a, <2>1, <2>2 DEF Unused
<1>4. ASSUME NEW p \in Procs,
             write_log(p) \/ write_head(p) \/ install_trans(p) \/ clear_head(p)
      PROVE Reserved'
  <2>1. UNCHANGED used /\ (n' = n \/ n' = 0)
    BY <1>4 DEF write_log, write_head, install_trans, clear_head, EraseLog, memVars
  <2>2. \A q \in Procs : pc'[q] = "inop" => pc[q] = "inop"
    BY <1>0, <1>4 DEF write_log, write_head, install_trans, clear_head, Goto, TypeOK
  <2> QED
    BY <1>0, <1>a, <2>1, <2>2 DEF Unused
<1>5. ASSUME NEW p \in Procs, read_head(p) \/ recover_trans(p) \/ recover_clear(p)
      PROVE Reserved'
  <2>1. \A q \in Procs : pc[q] \in RecoverPC \cup {"off"}
    BY <1>5 DEF read_head, recover_trans, recover_clear, LogInv, Control, Booting
  <2>2. \A q \in Procs : pc'[q] # "inop"
    BY <1>0, <1>5, <2>1 DEF read_head, recover_trans, recover_clear, Goto, TypeOK
  <2>3. n' \in Nat /\ n' <= LOGSIZE
    BY <1>0, <1>5 DEF read_head, recover_trans, recover_clear, EraseLog, TypeOK
  <2> QED
    BY <1>b, <2>2, <2>3 DEF Unused
<1>6. ASSUME NEW b \in Blocks, Bread(b) \/ Recycle(b) PROVE Reserved'
  BY <1>0, <1>6, <1>a DEF Bread, Recycle, Unused
<1>7. CASE Crash
  BY <1>0, <1>7, <1>b DEF Crash, Unused
<1>8. CASE UNCHANGED vars
  BY <1>0, <1>8, <1>a DEF vars, memVars, Unused
<1> QED
  BY <1>1, <1>2, <1>3, <1>4, <1>5, <1>6, <1>7, <1>8 DEF Next, Step

\* A running call that keeps to OPBLOCKS finds room for its next block.
LEMMA RoomLeft ==
  ASSUME LogInv, Reserved, OpsFit, NEW p \in Procs, pc[p] = "inop"
  PROVE  ~LogWritePanics
<1>1. /\ used[p] \in Nat /\ used[p] <= OPBLOCKS /\ n \in Nat
      /\ OPBLOCKS \in Nat /\ MAXOPBLOCKS \in Nat /\ LOGSIZE \in Nat /\ NLog \in Nat
  BY SizeAssumption DEF LogInv, TypeOK
<1> DEFINE own == {p} \X ((used[p] + 1)..MAXOPBLOCKS)
<1>2. own \subseteq Unused
  <2> SUFFICES ASSUME NEW t \in own PROVE t \in Unused
    OBVIOUS
  <2>1. t[1] = p /\ t[2] \in (used[p] + 1)..MAXOPBLOCKS /\ t = <<t[1], t[2]>>
    OBVIOUS
  <2>2. t[2] \in 1..MAXOPBLOCKS /\ used[p] < t[2]
    BY <1>1, <2>1
  <2> QED
    BY <2>1, <2>2 DEF Unused
<1>3. used[p] + 1 \in Int /\ MAXOPBLOCKS \in Int /\ used[p] + 1 <= MAXOPBLOCKS
  BY <1>1 DEF OpsFit
<1>4. /\ IsFiniteSet((used[p] + 1)..MAXOPBLOCKS)
      /\ Cardinality((used[p] + 1)..MAXOPBLOCKS) = MAXOPBLOCKS - (used[p] + 1) + 1
  BY <1>3, FS_Interval
<1>5. IsFiniteSet({p}) /\ Cardinality({p}) = 1
  BY FS_Singleton
<1>6. Cardinality(own) = Cardinality({p}) * Cardinality((used[p] + 1)..MAXOPBLOCKS)
  BY <1>4, <1>5, FS_Product
<1>7. Cardinality(own) <= Cardinality(Unused)
  BY <1>2, UnusedFinite, FS_Subset
<1>8. outstanding >= 1
  <2>1. InOp # {}
    BY DEF InOp
  <2> QED
    BY <2>1, InOpFinite, FS_EmptySet DEF LogInv, Control
<1>9. n + (MAXOPBLOCKS - OPBLOCKS) <= LOGSIZE
  <2>1. MAXOPBLOCKS - used[p] <= Cardinality(Unused)
    BY <1>1, <1>4, <1>5, <1>6, <1>7
  <2>2. n + Cardinality(Unused) <= LOGSIZE /\ Cardinality(Unused) \in Nat
    BY UnusedFinite DEF Reserved
  <2> QED
    BY <1>1, <2>1, <2>2
<1>10. n < LOGSIZE /\ n < NLog - 1
  BY <1>1, <1>9 DEF OpsFit
<1>11. outstanding \in Nat
  BY DEF LogInv, TypeOK
<1> QED
  BY <1>1, <1>8, <1>10, <1>11 DEF LogWritePanics

\* No step reaches a panic of log.c.
LEMMA NoPanicStep ==
  ASSUME OpsFit, LogInv, Reserved, ~panicked, [Next]_vars PROVE ~panicked'
<1>1. ASSUME NEW p \in Procs, NEW b \in Blocks, NEW v \in Vals, log_write(p, b, v)
      PROVE  ~panicked'
  <2>1. ~LogWritePanics
    BY <1>1, RoomLeft DEF log_write
  <2> QED
    BY <1>1, <2>1 DEF log_write
<1>2. ASSUME NEW p \in Procs, end_op(p) \/ end_op_commit(p) PROVE ~panicked'
  <2>1. ~committing
    BY <1>2 DEF end_op, end_op_commit, LogInv, Control
  <2> QED
    BY <1>2, <2>1 DEF end_op, end_op_commit
<1> QED
  BY <1>1, <1>2
  DEF Next, Step, CallBeginOp, begin_op, write_log, write_head, install_trans,
      clear_head, end_commit, read_head, recover_trans, recover_clear, Bread,
      Recycle, Crash, vars

\* The log has room for all that the running calls have reserved.
THEOREM ReservationKept == Spec => []Reserved
<1>1. Init => Reserved
  <2> SUFFICES ASSUME Init PROVE Reserved
    OBVIOUS
  <2>1. Unused = {} /\ n = 0
    BY DEF Init, Unused
  <2> QED
    BY <2>1, FS_EmptySet, SizeAssumption DEF Reserved
<1> QED
  BY <1>1, ReservedStep, LogInvariant, PTL DEF Spec

\* When no call fills its whole reservation, none of log.c's panics ("too big
\* a transaction", "log_write outside of trans", "log.committing") is
\* reachable, for any number of processes and any size of the log.
THEOREM LogSpaceSafe == ASSUME OpsFit PROVE Spec => []NoPanic
<1>1. Init => NoPanic
  BY DEF Init, NoPanic
<1>2. LogInv /\ Reserved /\ NoPanic /\ [Next]_vars => NoPanic'
  BY NoPanicStep, OpsFit DEF NoPanic
<1> QED
  BY <1>1, <1>2, LogInvariant, ReservationKept, PTL DEF Spec
=============================================================================
