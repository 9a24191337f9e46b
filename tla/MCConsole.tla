----------------------------- MODULE MCConsole ------------------------------
(* Small instances of Console for TLC. *)
EXTENDS Console, TLC

CONSTANTS p1, p2

MCSleepArgs == {-1, 1}

\* A reader and every key; two readers and lines; two writers
\* and echo; two sleepers.
MCLoads ==
    { [read |-> {p1}, write |-> {}, sleep |-> {}, kill |-> {}, keys |-> Chars],
      [read |-> {p1, p2}, write |-> {}, sleep |-> {}, kill |-> {p1}, keys |-> {Newline}],
      [read |-> {}, write |-> {p1, p2}, sleep |-> {}, kill |-> {}, keys |-> {Plain, Backspace}],
      [read |-> {}, write |-> {}, sleep |-> {p1, p2}, kill |-> {p1}, keys |-> {}] }
=============================================================================
