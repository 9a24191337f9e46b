--------------------------- MODULE CommandGrammar ---------------------------
(***************************************************************************)
(* What a command line means, defined by splitting it at its operators,    *)
(* from the loosest to the tightest: ";", "&", "|", redirections.  The     *)
(* shell's recursive-descent parser is checked against this definition.    *)
(* An operator counts only where no parenthesis is open.                   *)
(***************************************************************************)
EXTENDS Naturals, Sequences, FiniteSetsExt, SequencesExt

CONSTANTS
    Words,      \* tokens that are words
    MAXARGS,    \* a command has fewer arguments than this
    None        \* the line is not a command

Redirections == {"<", ">", "+"}     \* "+" stands for ">>"

\* A word of the line, as the string that ends where the word ends.
String(i) == [at |-> i, nul |-> TRUE]

\* Parentheses opened and not closed among the tokens a to i.
Open(l, a, i) ==
    Cardinality({j \in a..i : l[j] = "("}) - Cardinality({j \in a..i : l[j] = ")"})

\* Where operator t occurs between a and b outside parentheses.
Top(l, a, b, t) == {i \in a..b : l[i] = t /\ Open(l, a, i) = 0}

\* The tokens a to b are redirections only; the words they name.
Targets(l, a, b) == {i \in a..b : l[i] \in Words /\ i > a /\ l[i - 1] \in Redirections}
AllRedirected(l, a, b) ==
    \A i \in a..b : l[i] \in Redirections => i + 1 \in Targets(l, a, b)

Wrap(l, c, i) ==
    [type |-> "REDIR", cmd |-> c, file |-> String(i), mode |-> l[i - 1],
     fd |-> IF l[i - 1] = "<" THEN 0 ELSE 1]

\* The first redirection is the innermost.
Redirect(l, c, T) == FoldLeft(LAMBDA d, i : Wrap(l, d, i), c, SetToSortSeq(T, <))

Pair(type, c, d) ==
    IF None \in {c, d} THEN None ELSE [type |-> type, left |-> c, right |-> d]

RECURSIVE Line(_, _, _)

Simple(l, a, b) ==
    LET T == Targets(l, a, b)
        args == SetToSortSeq({i \in a..b : l[i] \in Words} \ T, <)
    IN  IF /\ \A i \in a..b : l[i] \in Words \cup Redirections
           /\ AllRedirected(l, a, b) /\ Len(args) < MAXARGS
        THEN Redirect(l, [type |-> "EXEC", argv |-> [k \in DOMAIN args |-> String(args[k])]], T)
        ELSE None

\* "(" line ")" and redirections.
Block(l, a, b) ==
    LET ends == {i \in a..b : l[i] = ")" /\ Open(l, a, i) = 0} IN
    IF ends = {} THEN None
    ELSE LET e == Min(ends)
             c == Line(l, a + 1, e - 1)
             T == Targets(l, e + 1, b)
         IN  IF c # None /\ AllRedirected(l, e + 1, b)
                /\ \A i \in (e + 1)..b : l[i] \in Redirections \/ i \in T
             THEN Redirect(l, c, T) ELSE None

Single(l, a, b) == IF a <= b /\ l[a] = "(" THEN Block(l, a, b) ELSE Simple(l, a, b)

RECURSIVE Pipeline(_, _, _)
Pipeline(l, a, b) ==
    LET T == Top(l, a, b, "|") IN
    IF T = {} THEN Single(l, a, b)
    ELSE Pair("PIPE", Single(l, a, Min(T) - 1), Pipeline(l, Min(T) + 1, b))

RECURSIVE Background(_, _, _)
Background(l, a, b) ==
    IF b \in Top(l, a, b, "&")
    THEN LET c == Background(l, a, b - 1) IN IF c = None THEN None ELSE [type |-> "BACK", cmd |-> c]
    ELSE Pipeline(l, a, b)

Line(l, a, b) ==
    LET T == Top(l, a, b, ";") IN
    IF T = {} THEN Background(l, a, b)
    ELSE Pair("LIST", Background(l, a, Min(T) - 1), Line(l, Min(T) + 1, b))

Meaning(l) == Line(l, 1, Len(l))
=============================================================================
