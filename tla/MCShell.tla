------------------------------ MODULE MCShell -------------------------------
(* A small instance of Shell for TLC. *)
EXTENDS Shell

\* Longer lines than those that are all tried: a pipeline of three; one of
\* four, for which there are not enough processes; pipelines with a list, with
\* redirections and in the background.
MCScripts == {
    <<"a", "|", "a", "|", "a">>,
    <<"a", "|", "a", "|", "a", "|", "a">>,
    <<"(", "a", ";", "a", ")", "|", "a">>,
    <<"a", "|", "(", "a", "|", "a", ")", ">", "a">>,
    <<"a", "<", "a", ">", "a", "+", "a">>,
    <<"a", "|", "a", "&", ";", "a">> }

MCBusyLine == <<"a">>
=============================================================================
