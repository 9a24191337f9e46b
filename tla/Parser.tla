------------------------------- MODULE Parser -------------------------------
(***************************************************************************)
(* The parser of user/sh.c on lines of tokens: a word, or one of           *)
(* | ( ) ; & < > and "+" for ">>".  White space is what separates tokens.  *)
(* A parsing function returns the command and the place where it stopped,  *)
(* or Panic.  A word is the place of its token; it is a string of its own  *)
(* only after nulterminate().                                              *)
(***************************************************************************)
EXTENDS Naturals, Sequences, SequencesExt

CONSTANTS Words, MAXARGS, None

Token(i) == [at |-> i, nul |-> FALSE]

execcmd(argv) == [type |-> "EXEC", argv |-> argv]
redircmd(c, file, mode, fd) ==
    [type |-> "REDIR", cmd |-> c, file |-> file, mode |-> mode, fd |-> fd]
pipecmd(c, d) == [type |-> "PIPE", left |-> c, right |-> d]
listcmd(c, d) == [type |-> "LIST", left |-> c, right |-> d]
backcmd(c) == [type |-> "BACK", cmd |-> c]

\* panic() prints and exits.
Panic == [cmd |-> None, s |-> 0]
Parsed(c, s) == [cmd |-> c, s |-> s]

\* The token at s, "a" for a word and "" at the end; it takes one place.
gettoken(l, s) ==
    IF s > Len(l) THEN "" ELSE IF l[s] \in Words THEN "a" ELSE l[s]

\* The next character is one of toks; the first one of ">>" is ">".
peek(l, s, toks) ==
    s <= Len(l) /\ (IF l[s] = "+" THEN ">" ELSE l[s]) \in toks

\* The redirections from s on, added to rs, as places of their words.
RECURSIVE parseredirs(_, _, _)
parseredirs(l, rs, s) ==
    IF ~peek(l, s, {"<", ">"}) THEN [rs |-> rs, s |-> s]
    ELSE IF gettoken(l, s + 1) # "a" THEN [rs |-> rs, s |-> 0]      \* panic
    ELSE parseredirs(l, Append(rs, s + 1), s + 2)

\* The command around which parseredirs() has put rs, the last one outside.
Redirs(l, c, rs) ==
    FoldLeft(LAMBDA d, i : redircmd(d, Token(i), gettoken(l, i - 1),
                                    IF gettoken(l, i - 1) = "<" THEN 0 ELSE 1), c, rs)

\* The loop of parseexec(): argv so far, and what parseredirs() returned last.
RECURSIVE parseargs(_, _, _)
parseargs(l, argv, r) ==
    IF r.s = 0 THEN Panic
    ELSE IF peek(l, r.s, {"|", ")", "&", ";"}) \/ gettoken(l, r.s) = ""
    THEN Parsed(Redirs(l, execcmd(argv), r.rs), r.s)
    ELSE IF gettoken(l, r.s) # "a" \/ Len(argv) + 1 >= MAXARGS THEN Panic
    ELSE parseargs(l, Append(argv, Token(r.s)), parseredirs(l, r.rs, r.s + 1))

RECURSIVE parseline(_, _)

parseblock(l, s) ==
    LET r == parseline(l, s + 1) IN
    IF r.s = 0 \/ ~peek(l, r.s, {")"}) THEN Panic
    ELSE LET t == parseredirs(l, << >>, r.s + 1) IN
         IF t.s = 0 THEN Panic ELSE Parsed(Redirs(l, r.cmd, t.rs), t.s)

parseexec(l, s) ==
    IF peek(l, s, {"("}) THEN parseblock(l, s)
    ELSE parseargs(l, << >>, parseredirs(l, << >>, s))

RECURSIVE parsepipe(_, _)
parsepipe(l, s) ==
    LET r == parseexec(l, s) IN
    IF r.s = 0 \/ ~peek(l, r.s, {"|"}) THEN r
    ELSE LET t == parsepipe(l, r.s + 1) IN
         IF t.s = 0 THEN Panic ELSE Parsed(pipecmd(r.cmd, t.cmd), t.s)

\* The loop over "&" in parseline().
RECURSIVE Backs(_, _)
Backs(l, r) ==
    IF r.s = 0 \/ ~peek(l, r.s, {"&"}) THEN r
    ELSE Backs(l, Parsed(backcmd(r.cmd), r.s + 1))

parseline(l, s) ==
    LET r == Backs(l, parsepipe(l, s)) IN
    IF r.s = 0 \/ ~peek(l, r.s, {";"}) THEN r
    ELSE LET t == parseline(l, r.s + 1) IN
         IF t.s = 0 THEN Panic ELSE Parsed(listcmd(r.cmd, t.cmd), t.s)

End(w) == [w EXCEPT !.nul = TRUE]

\* Mutant: the names of files are forgotten.
RECURSIVE nulterminate_ArgsOnly(_)
nulterminate_ArgsOnly(c) ==
    CASE c.type = "EXEC" -> [c EXCEPT !.argv = [k \in DOMAIN @ |-> End(@[k])]]
      [] c.type \in {"REDIR", "BACK"} -> [c EXCEPT !.cmd = nulterminate_ArgsOnly(@)]
      [] OTHER -> [c EXCEPT !.left = nulterminate_ArgsOnly(@), !.right = nulterminate_ArgsOnly(@)]

RECURSIVE nulterminate(_)
nulterminate(c) ==
    CASE c.type = "EXEC" -> [c EXCEPT !.argv = [k \in DOMAIN @ |-> End(@[k])]]
      [] c.type = "REDIR" -> [c EXCEPT !.cmd = nulterminate(@), !.file = End(@)]
      [] c.type = "BACK" -> [c EXCEPT !.cmd = nulterminate(@)]
      [] OTHER -> [c EXCEPT !.left = nulterminate(@), !.right = nulterminate(@)]

\* The whole line must be used: None stands for panic("syntax").
parsecmd(l) ==
    LET r == parseline(l, 1) IN
    IF r.s # Len(l) + 1 THEN None ELSE nulterminate(r.cmd)
=============================================================================
