-------------------------------- MODULE Shell -------------------------------
(***************************************************************************)
(* user/sh.c and user/init.c: the shell reads a line, forks a process that *)
(* parses and runs it, and waits.  Each process has its own table of       *)
(* descriptors; a pipe is at its end when no process has its writing end   *)
(* open.  Of the kernel's calls there is what these two programs see of    *)
(* them: fork() and exec() fail at any time, as memory may run out.        *)
(*                                                                         *)
(* A process is at a node of the command it was forked for: tree[p] is the *)
(* whole command and at[p] the path to the node that runcmd() works on.    *)
(***************************************************************************)
EXTENDS Parser, FiniteSetsExt

CONSTANTS
    NPROC,      \* processes, init not counted
    NOFILE,     \* descriptors of a process
    MAXTYPED,   \* tokens that can be typed
    MAXRUN,     \* lines up to this length are entered
    Scripts,    \* and these longer ones
    BusyLine    \* what is typed while other processes run

ASSUME BoundsAssumption ==
    /\ NPROC \in Nat \ {0} /\ NOFILE \in Nat /\ NOFILE >= 5
    /\ {MAXTYPED, MAXRUN} \subseteq Nat

Slots == 1..NPROC
Sh == 1             \* the slot of the shell
InitProc == 0       \* parent of the shell and of orphans
Symbols == {"|", "(", ")", ";", "&", "<", ">", "+"}

VARIABLES
    line,       \* typed at the prompt
    pc,         \* pc[p]: where process p is, "free" for a slot not in use
    parent,     \* parent[p]: its parent
    tree, at,   \* tree[p], at[p]: the command and the node in it
    fds,        \* fds[p]: its descriptors
    pip,        \* pip[p]: the array p of runcmd(), <<p[0], p[1]>>
    initpc,     \* where init is: about to fork the shell, waiting, or gone
    shortage    \* fork() has failed for the right half of a pipeline, since the
                \* shell was last alone (used by no action)

procVars == <<pc, parent, tree, at, fds, pip>>
vars == <<line, procVars, initpc, shortage>>

ConsoleFile == [dev |-> "console"]
NoFds == [d \in 0..(NOFILE - 1) |-> None]
\* What init leaves open: open("console"), dup(0), dup(0).
Console3 == [NoFds EXCEPT ![0] = ConsoleFile, ![1] = ConsoleFile, ![2] = ConsoleFile]

Init ==
    /\ line = << >> /\ shortage = FALSE /\ initpc = "fork"
    /\ pc = [p \in Slots |-> "free"]
    /\ parent = [p \in Slots |-> InitProc]
    /\ tree = [p \in Slots |-> None] /\ at = [p \in Slots |-> << >>]
    /\ fds = [p \in Slots |-> NoFds]
    /\ pip = [p \in Slots |-> << >>]
-----------------------------------------------------------------------------
(***************************************************************************)
(* The kernel's calls.                                                     *)
(***************************************************************************)

\* The node at the end of path x.
Node(t, x) ==
    FoldLeft(LAMBDA c, s : CASE s = "c" -> c.cmd [] s = "l" -> c.left [] s = "r" -> c.right, t, x)
Cmd(p) == Node(tree[p], at[p])

Alone == \A p \in Slots \ {Sh} : pc[p] = "free"
Free == {q \in Slots \ {Sh} : pc[q] = "free"}
Lowest(t) == Min({d \in DOMAIN t : t[d] = None})

\* Tables after close(d), and after a call that returns a new descriptor for f.
close(t, d) == [t EXCEPT ![d] = None]
fdalloc(t, f) == [t EXCEPT ![Lowest(t)] = f]

\* exit(): descriptors are closed, children go to init, the parent may wait.
\* pcs is pc before the process p stops.
Exit(pcs, p) ==
    /\ pc' = [pcs EXCEPT ![p] = "zombie"]
    /\ fds' = [fds EXCEPT ![p] = NoFds]
    /\ parent' = [q \in Slots |-> IF parent[q] = p THEN InitProc ELSE parent[q]]
    /\ tree' = [tree EXCEPT ![p] = None] /\ at' = [at EXCEPT ![p] = << >>]
    /\ pip' = [pip EXCEPT ![p] = << >>]

\* fork1(): a child that goes on at label l for the command t at path x, while p
\* goes on at label k; panic("fork") when there is no slot or no memory.
fork1(p, k, l, t, x) ==
    \/ /\ Free # {}
       /\ LET q == Min(Free) IN
          /\ pc' = [pc EXCEPT ![p] = k, ![q] = l]
          /\ parent' = [parent EXCEPT ![q] = p]
          /\ tree' = [tree EXCEPT ![q] = t] /\ at' = [at EXCEPT ![q] = x]
          /\ fds' = [fds EXCEPT ![q] = fds[p]]
          /\ pip' = [pip EXCEPT ![q] = pip[p]]
          /\ shortage' = (shortage /\ ~Alone)
    \/ Exit(pc, p) /\ shortage' = ((shortage /\ ~Alone) \/ pc[p] = "pipe_right")

\* wait(0): a dead child of p is gone, and p goes on at label k.  There is always
\* a child to wait for: every wait() of the shell and of init follows its fork().
wait(p, k) ==
    \E q \in Slots :
        /\ pc[q] = "zombie" /\ parent[q] = p
        /\ pc' = [pc EXCEPT ![q] = "free", ![p] = k]
        /\ parent' = [parent EXCEPT ![q] = InitProc]
-----------------------------------------------------------------------------
(***************************************************************************)
(* init: starts the shell, again when it has died, and reaps orphans.      *)
(***************************************************************************)
init_fork ==
    /\ initpc = "fork"
    /\ initpc' = "wait"
    /\ pc' = [pc EXCEPT ![Sh] = "child"] /\ fds' = [fds EXCEPT ![Sh] = Console3]
    /\ UNCHANGED <<line, parent, tree, at, pip, shortage>>

\* exit(1): the kernel panics, "init exiting", and spins.
init_fork_fail ==
    /\ initpc = "fork"
    /\ initpc' = "panic"
    /\ UNCHANGED <<line, procVars, shortage>>
init_panic == initpc = "panic" /\ UNCHANGED vars

\* The child: exec("sh"), or exit(1).
init_exec ==
    /\ pc[Sh] = "child"
    /\ pc' = [pc EXCEPT ![Sh] = "start"]
    /\ UNCHANGED <<line, parent, tree, at, fds, pip, initpc, shortage>>
init_exec_fail ==
    /\ pc[Sh] = "child"
    /\ Exit(pc, Sh)
    /\ UNCHANGED <<line, initpc, shortage>>

init_wait(q) ==
    /\ initpc = "wait"
    /\ pc[q] = "zombie" /\ parent[q] = InitProc
    /\ pc' = [pc EXCEPT ![q] = "free"]
    /\ initpc' = IF q = Sh THEN "fork" ELSE "wait"
    /\ UNCHANGED <<line, parent, tree, at, fds, pip, shortage>>
-----------------------------------------------------------------------------
(***************************************************************************)
(* main().                                                                 *)
(***************************************************************************)

\* Open the console until three descriptors are open, then show the prompt.
main ==
    /\ pc[Sh] = "start"
    /\ fds' = [fds EXCEPT ![Sh] = [d \in DOMAIN @ |-> IF d < 3 /\ @[d] = None THEN ConsoleFile ELSE @[d]]]
    /\ pc' = [pc EXCEPT ![Sh] = "prompt"]
    /\ UNCHANGED <<line, parent, tree, at, pip, initpc, shortage>>

\* The user types (external), at the prompt or ahead of it.  Bound: while other
\* processes run, only BusyLine is typed.
Typing == pc[Sh] \in {"prompt", "wait"}
Type(t) ==
    /\ Typing
    /\ \/ Alone /\ Len(line) < MAXTYPED
       \/ \E s \in (IF Alone THEN Scripts ELSE {BusyLine}) : IsPrefix(Append(line, t), s)
    /\ line' = Append(line, t)
    /\ shortage' = (shortage /\ ~Alone)
    /\ UNCHANGED <<procVars, initpc>>

KillLine ==
    /\ Typing /\ line # << >>
    /\ line' = << >>
    /\ UNCHANGED <<procVars, initpc, shortage>>

\* Bound: longer lines are not entered, except Scripts.
getcmd ==
    /\ pc[Sh] = "prompt"
    /\ IF Alone THEN Len(line) <= MAXRUN \/ line \in Scripts ELSE line = BusyLine

\* End of file: exit(0).
main_eof ==
    /\ pc[Sh] = "prompt" /\ line = << >>
    /\ Exit(pc, Sh)
    /\ UNCHANGED <<line, initpc, shortage>>

\* "cd" and a blank: the shell itself changes directory (which is not
\* modelled here).  A line with nothing after "cd" is run as a command.
IsCd == Len(line) > 1 /\ line[1] = "cd"
main_cd ==
    /\ getcmd /\ IsCd
    /\ line' = << >>
    /\ UNCHANGED <<procVars, initpc, shortage>>

main_fork ==
    /\ getcmd /\ ~IsCd
    /\ line' = << >> /\ UNCHANGED initpc
    /\ fork1(Sh, "wait", IF parsecmd(line) = None THEN "panic" ELSE "run", parsecmd(line), << >>)

main_wait ==
    /\ pc[Sh] = "wait"
    /\ wait(Sh, "prompt")
    /\ UNCHANGED <<line, tree, at, fds, pip, initpc, shortage>>
-----------------------------------------------------------------------------
(***************************************************************************)
(* runcmd().                                                               *)
(***************************************************************************)
RunsA(p, type) == pc[p] = "run" /\ Cmd(p).type = type
Down(p, s) == Append(at[p], s)

\* exit(1) after a syntax error.
panic(p) ==
    /\ pc[p] = "panic"
    /\ Exit(pc, p) /\ UNCHANGED <<line, initpc, shortage>>

\* exec(): what runs is a source, that does not read, or a filter, that reads
\* its input to the end.
exec(p, kind) ==
    /\ RunsA(p, "EXEC") /\ Cmd(p).argv # << >>
    /\ pc' = [pc EXCEPT ![p] = kind]
    /\ UNCHANGED <<line, parent, tree, at, fds, pip, initpc, shortage>>

\* No command, or exec() has failed.
exec_fail(p) ==
    /\ RunsA(p, "EXEC")
    /\ Exit(pc, p) /\ UNCHANGED <<line, initpc, shortage>>

redir(p) ==
    /\ RunsA(p, "REDIR")
    /\ fds' = [fds EXCEPT ![p] = fdalloc(close(@, Cmd(p).fd), Cmd(p).file)]
    /\ at' = [at EXCEPT ![p] = Down(p, "c")]
    /\ UNCHANGED <<line, pc, parent, tree, pip, initpc, shortage>>

redir_fail(p) ==
    /\ RunsA(p, "REDIR")
    /\ Exit(pc, p) /\ UNCHANGED <<line, initpc, shortage>>

\* Mutant: the left command is not waited for.
list_NoWait(p) ==
    /\ RunsA(p, "LIST")
    /\ LET q == Min(Free) IN
       /\ Free # {}
       /\ pc' = [pc EXCEPT ![q] = "run"]
       /\ parent' = [parent EXCEPT ![q] = p]
       /\ tree' = [tree EXCEPT ![q] = tree[p]]
       /\ at' = [at EXCEPT ![q] = Down(p, "l"), ![p] = Down(p, "r")]
       /\ fds' = [fds EXCEPT ![q] = fds[p]]
    /\ UNCHANGED <<line, pip, initpc, shortage>>

list(p) ==
    /\ RunsA(p, "LIST")
    /\ fork1(p, "list_wait", "run", tree[p], Down(p, "l"))
    /\ UNCHANGED <<line, initpc>>

list_wait(p) ==
    /\ pc[p] = "list_wait"
    /\ wait(p, "run")
    /\ at' = [at EXCEPT ![p] = Down(p, "r")]
    /\ UNCHANGED <<line, tree, fds, pip, initpc, shortage>>

\* pipe(p): two descriptors.  A pipe is named after the node it is made for; k
\* tells pipes of two lines apart.
Files == UNION {{fds[p][d] : d \in DOMAIN fds[p]} : p \in Slots}
PipeEnd(k, x, e) == [pipe |-> x, k |-> k, end |-> e]
pipe(p) ==
    /\ RunsA(p, "PIPE")
    /\ LET k == Min({i \in Slots : \A e \in {"r", "w"} : PipeEnd(i, at[p], e) \notin Files})
           t == fdalloc(fds[p], PipeEnd(k, at[p], "r"))
       IN  /\ fds' = [fds EXCEPT ![p] = fdalloc(t, PipeEnd(k, at[p], "w"))]
           /\ pip' = [pip EXCEPT ![p] = <<Lowest(fds[p]), Lowest(t)>>]
    /\ pc' = [pc EXCEPT ![p] = "pipe_left"]
    /\ UNCHANGED <<line, parent, tree, at, initpc, shortage>>

\* panic("pipe"): the kernel has no room for one.
pipe_fail(p) ==
    /\ RunsA(p, "PIPE")
    /\ Exit(pc, p) /\ UNCHANGED <<line, initpc, shortage>>

pipe_left(p) ==
    /\ pc[p] = "pipe_left"
    /\ fork1(p, "pipe_right", "left", tree[p], Down(p, "l"))
    /\ UNCHANGED <<line, initpc>>

pipe_right(p) ==
    /\ pc[p] = "pipe_right"
    /\ fork1(p, "pipe_close", "right", tree[p], Down(p, "r"))
    /\ UNCHANGED <<line, initpc>>

\* Mutant: a child keeps the pipe's other descriptors.
Connect_KeepsEnds(p, d) == fdalloc(close(fds[p], d), fds[p][pip[p][d + 1]])

\* In a child: close(d); dup(p[d]); close(p[0]); close(p[1]).
Connect(p, d) ==
    close(close(fdalloc(close(fds[p], d), fds[p][pip[p][d + 1]]), pip[p][1]), pip[p][2])

pipe_child(p) ==
    /\ pc[p] \in {"left", "right"}
    /\ fds' = [fds EXCEPT ![p] = Connect(p, IF pc[p] = "left" THEN 1 ELSE 0)]
    /\ pip' = [pip EXCEPT ![p] = << >>]
    /\ pc' = [pc EXCEPT ![p] = "run"]
    /\ UNCHANGED <<line, parent, tree, at, initpc, shortage>>

\* Mutant: the parent keeps the writing end while it waits.
pipe_close_OnlyRead(p) ==
    /\ pc[p] = "pipe_close"
    /\ fds' = [fds EXCEPT ![p] = close(@, pip[p][1])]
    /\ pip' = [pip EXCEPT ![p] = << >>]
    /\ pc' = [pc EXCEPT ![p] = "pipe_wait"]
    /\ UNCHANGED <<line, parent, tree, at, initpc, shortage>>

pipe_close(p) ==
    /\ pc[p] = "pipe_close"
    /\ fds' = [fds EXCEPT ![p] = close(close(@, pip[p][1]), pip[p][2])]
    /\ pip' = [pip EXCEPT ![p] = << >>]
    /\ pc' = [pc EXCEPT ![p] = "pipe_wait"]
    /\ UNCHANGED <<line, parent, tree, at, initpc, shortage>>

pipe_wait(p) ==
    /\ pc[p] \in {"pipe_wait", "pipe_wait2"}
    /\ wait(p, IF pc[p] = "pipe_wait" THEN "pipe_wait2" ELSE "exit")
    /\ UNCHANGED <<line, tree, at, fds, pip, initpc, shortage>>

back(p) ==
    /\ RunsA(p, "BACK")
    /\ fork1(p, "exit", "run", tree[p], Down(p, "c"))
    /\ UNCHANGED <<line, initpc>>

exit(p) ==
    /\ pc[p] = "exit"
    /\ Exit(pc, p) /\ UNCHANGED <<line, initpc, shortage>>
-----------------------------------------------------------------------------
(***************************************************************************)
(* The programs (external).  One that writes to a pipe gets on while there *)
(* is a program that reads it, or when nobody can.                         *)
(***************************************************************************)
Program == {"source", "filter"}
IsEnd(f, e) == f # None /\ "end" \in DOMAIN f /\ f.end = e

Held(f) == \E q \in Slots, d \in 0..(NOFILE - 1) : fds[q][d] = f
AtEof(f) == IsEnd(f, "r") => ~Held([f EXCEPT !.end = "w"])
Drained(f) ==
    IsEnd(f, "w") =>
        \/ ~Held([f EXCEPT !.end = "r"])
        \/ \E q \in Slots : pc[q] = "filter" /\ fds[q][0] = [f EXCEPT !.end = "r"]

finish(p) ==
    /\ pc[p] \in Program
    /\ pc[p] = "filter" => AtEof(fds[p][0])
    /\ Drained(fds[p][1])
    /\ Exit(pc, p) /\ UNCHANGED <<line, initpc, shortage>>
-----------------------------------------------------------------------------
Step(p) ==
    \/ panic(p) \/ exec_fail(p) \/ redir(p) \/ redir_fail(p)
    \/ \E kind \in Program : exec(p, kind)
    \/ list(p) \/ list_wait(p)
    \/ pipe(p) \/ pipe_fail(p) \/ pipe_left(p) \/ pipe_right(p) \/ pipe_child(p)
    \/ pipe_close(p) \/ pipe_wait(p)
    \/ back(p) \/ exit(p) \/ finish(p)

Next ==
    \/ \E t \in Words \cup Symbols : Type(t)
    \/ KillLine
    \/ main \/ main_eof \/ main_cd \/ main_fork \/ main_wait
    \/ \E p \in Slots : Step(p)
    \/ init_fork \/ init_fork_fail \/ init_panic \/ init_exec \/ init_exec_fail
    \/ \E p \in Slots : init_wait(p)

Spec == Init /\ [][Next]_vars

\* What is runnable runs, and programs come to an end when they can.  Nobody
\* has to type.
FairSpec ==
    /\ Spec
    /\ WF_vars(main) /\ WF_vars(main_wait)
    /\ WF_vars(init_fork \/ init_fork_fail) /\ WF_vars(init_exec \/ init_exec_fail)
    /\ \A p \in Slots : WF_vars(Step(p)) /\ WF_vars(init_wait(p))
-----------------------------------------------------------------------------
(***************************************************************************)
(* Properties.                                                             *)
(***************************************************************************)
Grammar == INSTANCE CommandGrammar

\* The recursive-descent parser accepts exactly the lines of the grammar, and
\* builds the command that splitting the line at its operators gives, with
\* every word terminated (parsecmd to nulterminate).
ParserIsGrammar == parsecmd(line) = Grammar!Meaning(line)

\* Descriptor d of the command at the end of path x is what the closest
\* enclosing redirection or pipe says, or else the console.
Binds(t, x, d, i) ==
    LET c == Node(t, SubSeq(x, 1, i)) IN
    \/ c.type = "REDIR" /\ c.fd = d
    \/ c.type = "PIPE" /\ ((d = 1 /\ x[i + 1] = "l") \/ (d = 0 /\ x[i + 1] = "r"))
Expected(t, x, d, f) ==
    LET B == {i \in 0..(Len(x) - 1) : Binds(t, x, d, i)} IN
    IF B = {} THEN f = ConsoleFile
    ELSE LET y == SubSeq(x, 1, Max(B))
             c == Node(t, y)
         IN  IF c.type = "REDIR" THEN f = c.file
             ELSE IsEnd(f, IF d = 0 THEN "r" ELSE "w") /\ f.pipe = y

\* A program starts with its input and output connected as the line says, and
\* with no other descriptor: in particular no end of a pipe that would keep
\* a reader waiting (runcmd).
Wired ==
    \A p \in Slots : pc[p] \in Program =>
        /\ \A d \in {0, 1} : Expected(tree[p], at[p], d, fds[p][d])
        /\ fds[p][2] = ConsoleFile
        /\ \A d \in 3..(NOFILE - 1) : fds[p][d] = None

\* The paths to nodes under an "&".
InBack(t, x) == \E i \in 0..(Len(x) - 1) : Node(t, SubSeq(x, 1, i)).type = "BACK"

\* The prompt is only back when every process of the line has ended, except
\* those under an "&"; and what follows a ";" does not start before what is
\* in front of it has ended, with the same exception.  Not so when the second
\* fork() of a pipeline has failed, whose first half then goes on alone.
Alive(p) == pc[p] \notin {"free", "zombie"}
InOrder ==
    \/ shortage
    \/ /\ pc[Sh] = "prompt" => \A p \in Slots \ {Sh} : Alive(p) => InBack(tree[p], at[p])
       /\ \A p, q \in Slots \ {Sh} : \A i \in 0..(Len(at[p]) - 1) :
            ( /\ Alive(p) /\ Alive(q) /\ tree[p] = tree[q]
              /\ Len(at[q]) > i /\ SubSeq(at[p], 1, i) = SubSeq(at[q], 1, i)
              /\ Node(tree[p], SubSeq(at[p], 1, i)).type = "LIST"
              /\ at[p][i + 1] = "l" /\ at[q][i + 1] = "r" )
            => InBack(tree[p], at[p])

\* The shell always comes back to its prompt: no pipeline waits for itself,
\* whatever fails (runcmd, main).
PromptReturns == pc[Sh] = "wait" ~> pc[Sh] = "prompt"
=============================================================================
