------------------------------ MODULE Console -------------------------------
(***************************************************************************)
(* kernel/console.c and kernel/uart.c with the interrupts that drive them  *)
(* (kernel/trap.c, kernel/plic.c), and sleep() on the clock (sysproc.c).   *)
(*                                                                         *)
(* Processes read and write the console and sleep; a handler for the UART  *)
(* runs on some CPU, one at a time as the PLIC hands out the interrupt     *)
(* once.  cons.lock and uart_tx_lock are explicit.  Echo goes to the UART  *)
(* without uart_tx_lock, so the test of LSR_TX_IDLE and the write to THR   *)
(* of two CPUs interleave.                                                 *)
(***************************************************************************)
EXTENDS Integers, Sequences, FiniteSets, SequencesExt

CONSTANTS
    Procs,
    Plain, Newline, Eof, Backspace, KillLine,   \* what can be typed
    INPUT_BUF,          \* size of cons.buf
    UART_TX_BUF_SIZE,   \* size of uart_tx_buf
    UMOD,               \* 2^w: r, w and e are unsigned and wrap
    TICKMOD,            \* 2^w: so is ticks
    MAXELAPSED,         \* bound on the ticks during a sleep()
    ReadLens,           \* lengths of reads
    SleepArgs,          \* arguments of sleep(), also negative ones
    Loads,              \* what the processes do and the user types: see load
    None

ASSUME SizesAssumption ==
    /\ {INPUT_BUF, UART_TX_BUF_SIZE} \subseteq Nat \ {0}
    /\ UMOD \in Nat /\ UMOD > INPUT_BUF /\ UMOD % INPUT_BUF = 0
    /\ UMOD > UART_TX_BUF_SIZE /\ UMOD % UART_TX_BUF_SIZE = 0
    /\ TICKMOD \in Nat \ {0} /\ SleepArgs \subseteq -(TICKMOD \div 2)..(TICKMOD \div 2 - 1)
    /\ MAXELAPSED \in Nat /\ ReadLens \subseteq Nat

Chars == {Plain, Newline, Eof, Backspace, KillLine}

ASSUME LoadsAssumption ==
    Loads \subseteq [read : SUBSET Procs, write : SUBSET Procs, sleep : SUBSET Procs,
                     kill : SUBSET Procs, keys : SUBSET Chars]

\* The interrupt handler acts beside the processes.
Intr == "intr"

ASSUME NamesAssumption ==
    /\ Intr \notin Procs /\ None \notin Procs \cup {Intr} \cup Chars
    /\ Plain \notin {Newline, Eof, Backspace, KillLine} /\ Newline \notin {Eof, Backspace, KillLine}
    /\ Eof \notin {Backspace, KillLine} /\ Backspace # KillLine

VARIABLES
    buf, r, w, e,       \* struct cons
    consLock,           \* who holds cons.lock
    rx,                 \* the character in RHR, or None
    txr, txw,           \* uart_tx_r, uart_tx_w
    txLock,             \* who holds uart_tx_lock
    fifo,               \* characters in the transmitter
    txirq,              \* the transmitter has asked for an interrupt
    hc, echo,           \* the handler's character, and the consputc() calls left
    pc,                 \* where the processes and the handler are
    target, n,          \* as in consoleread(); n is also the argument of sleep()
    killed,             \* p->killed
    ticks, ticks0,      \* the clock, and its value when sleep() was called
    elapsed,            \* clock interrupts since then
    late,               \* those during which it was awake and did not get to run
    load                \* which processes read, write, sleep and get killed, which keys
                        \* are hit; chosen at the start

consVars == <<buf, r, w, e>>
txVars == <<txr, txw, txLock>>
uartVars == <<rx, fifo, txirq>>
clockVars == <<ticks, ticks0, elapsed, late>>
argVars == <<target, n, killed, load>>
vars == <<consVars, consLock, uartVars, txVars, hc, echo, pc, argVars, clockVars>>

Init ==
    /\ buf = [i \in 0..(INPUT_BUF - 1) |-> Plain] /\ r = 0 /\ w = 0 /\ e = 0
    /\ consLock = None /\ txLock = None
    /\ rx = None /\ fifo = 0 /\ txirq = FALSE
    /\ txr = 0 /\ txw = 0
    /\ hc = None /\ echo = 0
    /\ pc = [x \in Procs \cup {Intr} |-> IF x = Intr THEN "idle" ELSE "user"]
    /\ target = [p \in Procs |-> 0] /\ n = [p \in Procs |-> 0]
    /\ killed = [p \in Procs |-> FALSE]
    /\ load \in Loads
    /\ ticks = 0 /\ ticks0 = [p \in Procs |-> 0]
    /\ elapsed = [p \in Procs |-> 0] /\ late = [p \in Procs |-> 0]

Sub(a, b) == (a - b) % UMOD
Goto(x, l) == pc' = [pc EXCEPT ![x] = l]
\* pc after wakeup() of those at label from, who go on at label to.
Wake(x, l, from, to) ==
    [y \in DOMAIN pc |-> IF y = x THEN l ELSE IF pc[y] = from THEN to ELSE pc[y]]
-----------------------------------------------------------------------------
(***************************************************************************)
(* The UART (external): a keyboard, and a transmitter that is idle when    *)
(* its queue is empty and then asks for an interrupt.                      *)
(***************************************************************************)
TX_IDLE == fifo = 0

Type(c) ==
    /\ rx = None
    /\ rx' = c
    /\ UNCHANGED <<consVars, consLock, fifo, txirq, txVars, hc, echo, pc, argVars, clockVars>>

Transmit ==
    /\ fifo > 0
    /\ fifo' = fifo - 1
    /\ txirq' = (txirq \/ fifo = 1)
    /\ UNCHANGED <<consVars, consLock, rx, txVars, hc, echo, pc, argVars, clockVars>>

WriteTHR == fifo' = fifo + 1
-----------------------------------------------------------------------------
(***************************************************************************)
(* uartintr and consoleintr.                                               *)
(***************************************************************************)

\* devintr(): plic_claim() returns UART0_IRQ.
plic_claim ==
    /\ pc[Intr] = "idle"
    /\ rx # None \/ txirq
    /\ txirq' = FALSE
    /\ Goto(Intr, "rx")
    /\ UNCHANGED <<consVars, consLock, rx, fifo, txVars, hc, echo, argVars, clockVars>>

\* uartgetc(): a character, or none are left.
uartgetc ==
    /\ pc[Intr] = "rx"
    /\ hc' = rx /\ rx' = None
    /\ Goto(Intr, IF rx = None THEN "tx" ELSE "cons")
    /\ UNCHANGED <<consVars, consLock, fifo, txirq, txVars, echo, argVars, clockVars>>

\* There is room for another character.
Room == Sub(e, r) < INPUT_BUF

\* How many characters ^U removes: back to the last newline, at most to w.
Unended ==
    LET N == {k \in 0..Sub(e, w) : \A j \in 1..k : buf[Sub(e, j) % INPUT_BUF] # Newline}
    IN  CHOOSE k \in N : \A m \in N : m <= k

\* acquire(&cons.lock), and what is to be echoed.
consoleintr(c) ==
    /\ pc[Intr] = "cons" /\ c = hc
    /\ consLock = None
    /\ consLock' = Intr
    /\ echo' = CASE c = KillLine -> Unended
                 [] c = Backspace -> IF e # w THEN 1 ELSE 0
                 [] OTHER -> IF Room THEN 1 ELSE 0
    /\ e' = CASE c = KillLine -> Sub(e, Unended)
              [] c = Backspace -> IF e # w THEN Sub(e, 1) ELSE e
              [] OTHER -> e
    /\ Goto(Intr, "echo")
    /\ UNCHANGED <<buf, r, w, uartVars, txVars, hc, argVars, clockVars>>

\* uartputc_sync(): spin until the transmitter is idle, then write.  The three
\* characters that consputc() sends to rub one out count as one.
uartputc_sync ==
    /\ pc[Intr] = "echo" /\ echo > 0
    /\ TX_IDLE
    /\ Goto(Intr, "echo_thr")
    /\ UNCHANGED <<consVars, consLock, uartVars, txVars, hc, echo, argVars, clockVars>>

uartputc_sync_thr ==
    /\ pc[Intr] = "echo_thr"
    /\ WriteTHR
    /\ echo' = echo - 1
    /\ Goto(Intr, "echo")
    /\ UNCHANGED <<consVars, consLock, rx, txirq, txVars, hc, argVars, clockVars>>

\* The echo is out: store the character, and wake the readers when a line
\* is complete.
Stores(c) == c \in {Plain, Newline, Eof} /\ Room
Ends(c) == c \in {Newline, Eof} \/ Sub(e, r) + 1 = INPUT_BUF

\* Mutant: nobody wakes the readers.
consoleintr_store_NoWakeup(c) ==
    /\ pc[Intr] = "echo" /\ echo = 0 /\ c = hc
    /\ IF Stores(c)
       THEN /\ buf' = [buf EXCEPT ![e % INPUT_BUF] = c]
            /\ e' = (e + 1) % UMOD
            /\ w' = IF Ends(c) THEN (e + 1) % UMOD ELSE w
       ELSE UNCHANGED <<buf, e, w>>
    /\ Goto(Intr, "rx")
    /\ consLock' = None /\ hc' = None
    /\ UNCHANGED <<r, uartVars, txVars, echo, argVars, clockVars>>

consoleintr_store(c) ==
    /\ pc[Intr] = "echo" /\ echo = 0 /\ c = hc
    /\ IF Stores(c)
       THEN /\ buf' = [buf EXCEPT ![e % INPUT_BUF] = c]
            /\ e' = (e + 1) % UMOD
            /\ w' = IF Ends(c) THEN (e + 1) % UMOD ELSE w
            /\ pc' = IF Ends(c) THEN Wake(Intr, "rx", "rsleep", "rlock")
                     ELSE [pc EXCEPT ![Intr] = "rx"]
       ELSE Goto(Intr, "rx") /\ UNCHANGED <<buf, e, w>>
    /\ consLock' = None /\ hc' = None
    /\ UNCHANGED <<r, uartVars, txVars, echo, argVars, clockVars>>

\* uartintr(), second part: send what is buffered.
uartintr_tx ==
    /\ pc[Intr] = "tx"
    /\ txLock = None
    /\ txLock' = Intr
    /\ Goto(Intr, "start")
    /\ UNCHANGED <<consVars, consLock, uartVars, txr, txw, hc, echo, argVars, clockVars>>
-----------------------------------------------------------------------------
(***************************************************************************)
(* uartstart, called by the handler and by uartputc().                     *)
(***************************************************************************)
After(x) == IF x = Intr THEN "idle" ELSE "user"     \* and plic_complete()

\* Nothing to send, or the transmitter is busy: it will interrupt.
uartstart_return(x) ==
    /\ pc[x] = "start"
    /\ txr = txw \/ ~TX_IDLE
    /\ txLock' = None
    /\ Goto(x, After(x))
    /\ UNCHANGED <<consVars, consLock, uartVars, txr, txw, hc, echo, argVars, clockVars>>

\* Mutant: no wakeup(&uart_tx_r).
uartstart_take_NoWakeup(x) ==
    /\ pc[x] = "start"
    /\ txr # txw /\ TX_IDLE
    /\ txr' = (txr + 1) % UMOD
    /\ Goto(x, "thr")
    /\ UNCHANGED <<consVars, consLock, uartVars, txw, txLock, hc, echo, argVars, clockVars>>

uartstart_take(x) ==
    /\ pc[x] = "start"
    /\ txr # txw /\ TX_IDLE
    /\ txr' = (txr + 1) % UMOD
    /\ pc' = Wake(x, "thr", "wsleep", "wlock")
    /\ UNCHANGED <<consVars, consLock, uartVars, txw, txLock, hc, echo, argVars, clockVars>>

uartstart_thr(x) ==
    /\ pc[x] = "thr"
    /\ WriteTHR
    /\ Goto(x, "start")
    /\ UNCHANGED <<consVars, consLock, rx, txirq, txVars, hc, echo, argVars, clockVars>>
-----------------------------------------------------------------------------
(***************************************************************************)
(* consolewrite and uartputc, one character per call.                      *)
(***************************************************************************)
consolewrite(p) ==
    /\ pc[p] = "user" /\ ~killed[p]
    /\ Goto(p, "wlock")
    /\ UNCHANGED <<consVars, consLock, uartVars, txVars, hc, echo, argVars, clockVars>>

\* acquire(&uart_tx_lock); the buffer is full: sleep(&uart_tx_r, ...).
uartputc_full(p) ==
    /\ pc[p] = "wlock" /\ txLock = None
    /\ Sub(txw, txr) = UART_TX_BUF_SIZE
    /\ Goto(p, "wsleep")
    /\ UNCHANGED <<consVars, consLock, uartVars, txVars, hc, echo, argVars, clockVars>>

uartputc(p) ==
    /\ pc[p] = "wlock" /\ txLock = None
    /\ Sub(txw, txr) # UART_TX_BUF_SIZE
    /\ txw' = (txw + 1) % UMOD
    /\ txLock' = p
    /\ Goto(p, "start")
    /\ UNCHANGED <<consVars, consLock, uartVars, txr, hc, echo, argVars, clockVars>>
-----------------------------------------------------------------------------
(***************************************************************************)
(* consoleread.                                                            *)
(***************************************************************************)
consoleread(p, len) ==
    /\ pc[p] = "user" /\ ~killed[p]
    /\ target' = [target EXCEPT ![p] = len] /\ n' = [n EXCEPT ![p] = len]
    /\ Goto(p, "rlock")
    /\ UNCHANGED <<consVars, consLock, uartVars, txVars, hc, echo, killed, load, clockVars>>

read_lock(p) ==
    /\ pc[p] = "rlock" /\ consLock = None
    /\ consLock' = p
    /\ Goto(p, "read")
    /\ UNCHANGED <<consVars, uartVars, txVars, hc, echo, argVars, clockVars>>

\* Release cons.lock and return.
Return(p) ==
    /\ consLock' = None
    /\ target' = [target EXCEPT ![p] = 0] /\ n' = [n EXCEPT ![p] = 0]
    /\ Goto(p, "user")

\* Nothing to read: return if killed, else sleep(&cons.r, &cons.lock).
read_empty(p) ==
    /\ pc[p] = "read" /\ n[p] > 0 /\ r = w
    /\ IF killed[p] THEN Return(p)
       ELSE Goto(p, "rslept") /\ UNCHANGED <<consLock, target, n>>
    /\ UNCHANGED <<consVars, uartVars, txVars, hc, echo, killed, load, clockVars>>

read_sleep(p) ==
    /\ pc[p] = "rslept"
    /\ consLock' = None
    /\ Goto(p, "rsleep")
    /\ UNCHANGED <<consVars, uartVars, txVars, hc, echo, argVars, clockVars>>

\* Mutant: the mark is taken by the read that it ends.
read_eof_Takes(p) ==
    /\ pc[p] = "read" /\ n[p] > 0 /\ r # w
    /\ buf[r % INPUT_BUF] = Eof
    /\ r' = (r + 1) % UMOD
    /\ Return(p)
    /\ UNCHANGED <<buf, w, e, uartVars, txVars, hc, echo, killed, load, clockVars>>

\* ^D: kept for the next read when this one has characters.
read_eof(p) ==
    /\ pc[p] = "read" /\ n[p] > 0 /\ r # w
    /\ buf[r % INPUT_BUF] = Eof
    /\ r' = IF n[p] < target[p] THEN r ELSE (r + 1) % UMOD
    /\ Return(p)
    /\ UNCHANGED <<buf, w, e, uartVars, txVars, hc, echo, killed, load, clockVars>>

\* A character; the read is over after a newline.
read_char(p) ==
    /\ pc[p] = "read" /\ n[p] > 0 /\ r # w
    /\ buf[r % INPUT_BUF] # Eof
    /\ r' = (r + 1) % UMOD
    /\ n' = [n EXCEPT ![p] = @ - 1]
    /\ Goto(p, IF buf[r % INPUT_BUF] = Newline THEN "rdone" ELSE "read")
    /\ UNCHANGED <<buf, w, e, consLock, uartVars, txVars, hc, echo, target, killed, load, clockVars>>

\* either_copyout() fails: the character is gone, the read is over.
read_fault(p) ==
    /\ pc[p] = "read" /\ n[p] > 0 /\ r # w
    /\ buf[r % INPUT_BUF] # Eof
    /\ r' = (r + 1) % UMOD
    /\ Return(p)
    /\ UNCHANGED <<buf, w, e, uartVars, txVars, hc, echo, killed, load, clockVars>>

read_done(p) ==
    /\ pc[p] = "rdone" \/ (pc[p] = "read" /\ n[p] = 0)
    /\ Return(p)
    /\ UNCHANGED <<consVars, uartVars, txVars, hc, echo, killed, load, clockVars>>
-----------------------------------------------------------------------------
(***************************************************************************)
(* The clock: sys_sleep, clockintr; kill().                                *)
(***************************************************************************)

\* Mutant: compares the clock with the time to wake up at.
Due_Compare(p) == ticks < ticks0[p] + n[p]

\* ticks - ticks0 < n, in unsigned arithmetic.
Due(p) == (ticks - ticks0[p]) % TICKMOD < n[p]

\* sleep(a): n is converted to unsigned, and the clock is read and tested with
\* tickslock held: n = 0 returns at once.
sys_sleep(p, a) ==
    /\ pc[p] = "user" /\ ~killed[p]
    /\ a # 0
    /\ n' = [n EXCEPT ![p] = a % TICKMOD]
    /\ ticks0' = [ticks0 EXCEPT ![p] = ticks]
    /\ Goto(p, "tested")
    /\ UNCHANGED <<consVars, consLock, uartVars, txVars, hc, echo, target, killed, load, ticks, elapsed, late>>

\* sleep(&ticks, &tickslock); a kill before it is only seen at the next tick.
ticks_sleep(p) ==
    /\ pc[p] = "tested"
    /\ Goto(p, "tsleep")
    /\ UNCHANGED <<consVars, consLock, uartVars, txVars, hc, echo, argVars, clockVars>>

\* Back from sleep(): the loop's test, and p->killed.
sleep_check(p) ==
    /\ pc[p] = "tcheck"
    /\ IF Due(p) /\ ~killed[p] THEN Goto(p, "tested") /\ UNCHANGED <<n, ticks0, elapsed, late>>
       ELSE /\ Goto(p, "user")
            /\ n' = [n EXCEPT ![p] = 0] /\ ticks0' = [ticks0 EXCEPT ![p] = 0]
            /\ elapsed' = [elapsed EXCEPT ![p] = 0] /\ late' = [late EXCEPT ![p] = 0]
    /\ UNCHANGED <<consVars, consLock, uartVars, txVars, hc, echo, target, killed, load, ticks>>

\* A tick, whoever is late.  Bounds: the clock only moves while somebody sleeps,
\* and while nobody has been at it for MAXELAPSED ticks.
Sleeping == {p \in Procs : pc[p] \in {"tcheck", "tsleep"}}
clockintr ==
    /\ Sleeping # {} /\ \A p \in Sleeping : elapsed[p] < MAXELAPSED
    /\ \A p \in Procs : pc[p] # "tested"       \* tickslock is free
    /\ ticks' = (ticks + 1) % TICKMOD
    /\ pc' = [x \in DOMAIN pc |-> IF pc[x] = "tsleep" THEN "tcheck" ELSE pc[x]]
    /\ elapsed' = [p \in Procs |-> IF p \in Sleeping THEN elapsed[p] + 1 ELSE 0]
    /\ late' = [p \in Procs |-> IF pc[p] = "tcheck" THEN late[p] + 1 ELSE late[p]]
    /\ UNCHANGED <<consVars, consLock, uartVars, txVars, hc, echo, argVars, ticks0>>

\* kill(): the process is made runnable if it sleeps.
kill(p) ==
    /\ ~killed[p]
    /\ killed' = [killed EXCEPT ![p] = TRUE]
    /\ Goto(p, CASE pc[p] = "rsleep" -> "rlock" [] pc[p] = "wsleep" -> "wlock"
                 [] pc[p] = "tsleep" -> "tcheck" [] OTHER -> pc[p])
    /\ UNCHANGED <<consVars, consLock, uartVars, txVars, hc, echo, target, n, load, clockVars>>

\* usertrap(): a killed process exits; another one takes its place.
usertrap_exit(p) ==
    /\ pc[p] = "user" /\ killed[p]
    /\ killed' = [killed EXCEPT ![p] = FALSE]
    /\ UNCHANGED <<consVars, consLock, uartVars, txVars, hc, echo, pc, target, n, load, clockVars>>

\* The steps of the handler and of the code a process runs in the kernel.
HandlerStep ==
    \/ plic_claim \/ uartgetc \/ uartintr_tx
    \/ uartputc_sync \/ uartputc_sync_thr
    \/ \E c \in Chars : consoleintr(c) \/ consoleintr_store(c)
    \/ uartstart_return(Intr) \/ uartstart_take(Intr) \/ uartstart_thr(Intr)

KernelStep(p) ==
    \/ uartputc_full(p) \/ uartputc(p)
    \/ uartstart_return(p) \/ uartstart_take(p) \/ uartstart_thr(p)
    \/ read_lock(p) \/ read_empty(p) \/ read_sleep(p)
    \/ read_eof(p) \/ read_char(p) \/ read_fault(p) \/ read_done(p)
    \/ ticks_sleep(p) \/ sleep_check(p) \/ usertrap_exit(p)

Next ==
    \/ \E c \in load.keys : Type(c)
    \/ Transmit
    \/ HandlerStep
    \/ clockintr
    \/ \E p \in Procs : KernelStep(p)
    \/ \E p \in load.write : consolewrite(p)
    \/ \E p \in load.read, len \in ReadLens : consoleread(p, len)
    \/ \E p \in load.sleep, a \in SleepArgs : sys_sleep(p, a)
    \/ \E p \in load.kill : kill(p)

Spec == Init /\ [][Next]_vars

\* The transmitter works, interrupts are taken, and what is runnable runs.
\* Spin-locks are not fair, so a process may need to be given its turn
\* infinitely often before it gets one.
FairSpec ==
    Spec /\ WF_vars(Transmit) /\ SF_vars(HandlerStep) /\ \A p \in Procs : SF_vars(KernelStep(p))
-----------------------------------------------------------------------------
(***************************************************************************)
(* Properties.                                                             *)
(***************************************************************************)

\* The characters between two indices of cons.
Between(a, b) == [i \in 1..Sub(b, a) |-> buf[(a + i - 1) % INPUT_BUF]]

\* The line still edited, the complete ones, and what each read has so far.
Edited == Between(w, e)
Complete == Between(r, w)
Got == [p \in Procs |-> target[p] - (IF target[p] = 0 THEN 0 ELSE n[p])]

Line == INSTANCE LineInput WITH
    line <- Edited, ready <- Complete, got <- Got, Capacity <- INPUT_BUF

\* The ring with its wrapping indices is an editable line and a queue of
\* complete lines: editing never touches what is complete, nothing is lost,
\* repeated or overwritten, and ^D ends exactly one read.
IsLineInput == Line!Spec

TypeOK ==
    /\ buf \in [0..(INPUT_BUF - 1) -> Chars] /\ {r, w, e} \subseteq 0..(UMOD - 1)
    /\ {consLock, txLock} \subseteq Procs \cup {Intr, None}
    /\ rx \in Chars \cup {None} /\ fifo \in Nat /\ txirq \in BOOLEAN
    /\ {txr, txw} \subseteq 0..(UMOD - 1)
    /\ hc \in Chars \cup {None} /\ echo \in Nat
    /\ pc \in [Procs \cup {Intr} ->
                {"user", "wlock", "wsleep", "rlock", "read", "rslept", "rsleep", "rdone",
                 "tested", "tsleep", "tcheck", "start", "thr",
                 "idle", "rx", "cons", "echo", "echo_thr", "tx"}]
    /\ target \in [Procs -> Nat] /\ n \in [Procs -> Nat]
    /\ killed \in [Procs -> BOOLEAN] /\ load \in Loads
    /\ ticks \in 0..(TICKMOD - 1) /\ ticks0 \in [Procs -> 0..(TICKMOD - 1)]
    /\ elapsed \in [Procs -> Nat] /\ late \in [Procs -> Nat]

\* cons.lock and uart_tx_lock are held by the one that is in their sections.
Locks ==
    /\ \A x \in Procs \cup {Intr} :
         /\ consLock = x <=> pc[x] \in {"read", "rslept", "rdone", "echo", "echo_thr"}
         /\ txLock = x <=> pc[x] \in {"start", "thr"}
    /\ \A p \in Procs : pc[p] \notin {"idle", "rx", "cons", "echo", "echo_thr", "tx"}
    /\ pc[Intr] \in {"idle", "rx", "cons", "echo", "echo_thr", "tx", "start", "thr"}
    /\ pc[Intr] = "echo_thr" => echo > 0

\* The rings hold what is between their indices and no more: r, w and e stay
\* in this order across the wrap, a line still edited has no newline, a full
\* buffer is a complete line, and output never overtakes itself.
Rings ==
    /\ Sub(w, r) + Sub(e, w) = Sub(e, r) /\ Sub(e, r) <= INPUT_BUF
    /\ Sub(e, r) = INPUT_BUF => w = e
    /\ \A j \in 1..Sub(e, w) : buf[Sub(e, j) % INPUT_BUF] # Newline
    /\ Sub(txw, txr) <= UART_TX_BUF_SIZE

\* A read has n characters of its target to go; nobody else has a target.
Reads ==
    \A p \in Procs :
        IF pc[p] \in {"rlock", "read", "rslept", "rsleep", "rdone"} THEN n[p] <= target[p]
        ELSE target[p] = 0

\* No reader sleeps while there is something to read, and no writer while
\* there is room, whatever the order of their tests and of the handler's
\* wakeups (consoleread, consoleintr, uartputc, uartstart).
NotMissed ==
    \A p \in Procs :
        /\ pc[p] \in {"rslept", "rsleep"} => r = w
        /\ pc[p] = "wsleep" => Sub(txw, txr) = UART_TX_BUF_SIZE

\* For who sleeps, the clock has moved by what has elapsed, in its own
\* arithmetic.  Who went to sleep had time left, unless being late has taken it
\* past the n..TICKMOD - 1 ticks after which the test of sys_sleep ends the
\* sleep; who has been woken is over its time by no more than it is late.
Overslept(p) == late[p] >= TICKMOD - n[p]
Clock ==
    \A p \in Procs :
        IF pc[p] \in {"tested", "tsleep", "tcheck"}
        THEN /\ (ticks - ticks0[p]) % TICKMOD = elapsed[p] % TICKMOD
             /\ \/ elapsed[p] < n[p]
                \/ pc[p] = "tcheck" /\ elapsed[p] <= n[p] + late[p]
                \/ Overslept(p)
        ELSE elapsed[p] = 0 /\ late[p] = 0

\* The console in every reachable state: types, locks, rings, reads, sleepers
\* and the clock.
ConsoleInv == TypeOK /\ Locks /\ Rings /\ Reads /\ NotMissed /\ Clock

\* sleep(n) never returns before n ticks, wherever the clock wraps, and later
\* only by the ticks for which it was awake and did not get to run; it goes back
\* to sleep after its n ticks only when those carried it past the wrap of the
\* difference, TICKMOD - n of them: more than 2^31 for n >= 0, but a single one
\* for n = -1, which the comparison takes for 2^32 - 1 (sys_sleep, clockintr).
SleepExact ==
    [][\A p \in Procs :
         /\ (pc[p] = "tcheck" /\ pc'[p] = "user") =>
              /\ killed[p] \/ elapsed[p] >= n[p]
              /\ elapsed[p] <= n[p] + late[p] \/ Overslept(p)
         /\ pc'[p] = "tested" => elapsed'[p] < n'[p] \/ Overslept(p)']_vars

\* A process that waits for room in the output buffer gets on: the
\* transmit interrupt always comes, and it wakes the writers.  Only keys
\* that are hit again and again for ever hold it up, as uartintr() takes
\* all input before it sends.
WritersGetOn == \A p \in Procs : pc[p] = "wsleep" ~> (pc[p] # "wsleep" \/ rx # None)
=============================================================================
