----------------------------- MODULE MCFileSys -----------------------------
(* Small instances of FileSys for TLC. *)
EXTENDS FileSys, TLC

CONSTANTS p1, p2, a, b

\* One process makes, enters and removes directories; the other makes,
\* opens, links and removes files.
MCCalls ==
    p1 :> {"chdir", "mkdir", "unlink"} @@ p2 :> {"open", "create", "linkold", "unlink"}
MCPaths == {<<a>>, <<a, b>>}

\* One process that goes up again.
UpCalls == p1 :> {"chdir", "mkdir", "unlink"}
UpPaths == {<<a>>, <<a, b>>, <<DotDot>>}
=============================================================================
