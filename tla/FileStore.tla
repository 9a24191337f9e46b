----------------------------- MODULE FileStore ------------------------------
(***************************************************************************)
(* What files promise: each inode holds a sequence of bytes; an open file  *)
(* has a position that everyone who shares it moves; data goes where the   *)
(* position is and nowhere else.  No blocks and no locks here.             *)
(***************************************************************************)
EXTENDS Integers, Sequences

CONSTANTS
    Inodes, Files,
    Vals,       \* bytes a process may write
    MaxChunk,   \* the most one step writes: filewrite() splits longer writes
    MaxSize,    \* the largest file
    Slop,       \* how much a failing copy may spoil: less than a block
    None

VARIABLES
    store,      \* store[ip]: its bytes
    at,         \* at[f]: the inode open file f refers to, or None
    pos         \* pos[f]: its offset

Init ==
    /\ store = [ip \in Inodes |-> << >>]
    /\ at \in [Files -> Inodes \cup {None}]
    /\ pos = [f \in Files |-> 0]

\* s with n bytes v from offset o on; a longer result than before only when
\* the bytes were really written.
Overwrite(s, o, n, v) ==
    [i \in 1..(IF o + n > Len(s) THEN o + n ELSE Len(s)) |-> IF i > o /\ i <= o + n THEN v ELSE s[i]]

\* k bytes at the position of f, which moves past them.  When the user's
\* buffer turns out to be bad, up to j of the following bytes that exist
\* already may have been replaced too (see write_fault in Files).
Write(f, v, k, j) ==
    LET s == Overwrite(store[at[f]], pos[f], k, v)
        e == pos[f] + k
        spoilt == IF e + j > Len(s) THEN Len(s) - e ELSE j
    IN  /\ at[f] # None /\ pos[f] <= Len(store[at[f]]) /\ e <= MaxSize
        /\ store' = [store EXCEPT ![at[f]] = Overwrite(s, e, spoilt, v)]
        /\ pos' = [pos EXCEPT ![f] = e]
        /\ UNCHANGED at

Read(f, k) ==
    /\ at[f] # None /\ pos[f] + k <= Len(store[at[f]])
    /\ pos' = [pos EXCEPT ![f] = @ + k]
    /\ UNCHANGED <<store, at>>

Truncate(ip) == store' = [store EXCEPT ![ip] = << >>] /\ UNCHANGED <<at, pos>>

Open(f, ip) ==
    /\ at[f] = None
    /\ at' = [at EXCEPT ![f] = ip] /\ pos' = [pos EXCEPT ![f] = 0]
    /\ UNCHANGED store

Close(f) == at' = [at EXCEPT ![f] = None] /\ UNCHANGED <<store, pos>>

Next ==
    \/ \E f \in Files :
        \/ \E v \in Vals, k \in 0..MaxChunk, j \in 0..Slop : Write(f, v, k, j)
        \/ \E k \in 1..MaxSize : Read(f, k)
        \/ \E ip \in Inodes : Open(f, ip)
        \/ Close(f)
    \/ \E ip \in Inodes : Truncate(ip)

Spec == Init /\ [][Next]_<<store, at, pos>>
=============================================================================
