----------------------------- MODULE LineInput ------------------------------
(***************************************************************************)
(* What the console promises to its readers: characters can be edited      *)
(* until their line is complete, complete lines are read in order, and an  *)
(* end-of-file mark is seen as one read that returns nothing.              *)
(***************************************************************************)
EXTENDS Naturals, Sequences, SequencesExt

CONSTANTS
    Procs,
    Plain, Newline, Eof,    \* characters that can be stored
    Capacity

VARIABLES
    line,       \* typed, and still to be edited
    ready,      \* complete lines
    got         \* got[p]: how many characters p's read has so far

Init == line = << >> /\ ready = << >> /\ got = [p \in Procs |-> 0]

\* A line is complete when it ends, or when there is no room for more.
Type(c) ==
    LET l == Append(line, c) IN
    /\ Len(ready) + Len(line) < Capacity
    /\ IF c \in {Newline, Eof} \/ Len(ready) + Len(l) = Capacity
       THEN line' = << >> /\ ready' = ready \o l
       ELSE line' = l /\ UNCHANGED ready
    /\ UNCHANGED got

Erase == line # << >> /\ line' = Front(line) /\ UNCHANGED <<ready, got>>
EraseLine == line' = << >> /\ UNCHANGED <<ready, got>>

Get(p) ==
    /\ ready # << >> /\ Head(ready) # Eof
    /\ ready' = Tail(ready)
    /\ got' = [got EXCEPT ![p] = @ + 1]
    /\ UNCHANGED line

\* Only a read that has nothing yet takes the mark.
GetEof(p) ==
    /\ ready # << >> /\ Head(ready) = Eof /\ got[p] = 0
    /\ ready' = Tail(ready)
    /\ UNCHANGED <<line, got>>

\* The read is over.  A character whose copy to user space fails is lost.
Return(p) == got' = [got EXCEPT ![p] = 0] /\ UNCHANGED <<line, ready>>
Lose(p) ==
    /\ ready # << >> /\ Head(ready) # Eof /\ ready' = Tail(ready)
    /\ got' = [got EXCEPT ![p] = 0]
    /\ UNCHANGED line

Next ==
    \/ \E c \in {Plain, Newline, Eof} : Type(c)
    \/ Erase \/ EraseLine
    \/ \E p \in Procs : Get(p) \/ GetEof(p) \/ Return(p) \/ Lose(p)

Spec == Init /\ [][Next]_<<line, ready, got>>
=============================================================================
