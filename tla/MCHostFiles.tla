----------------------------- MODULE MCHostFiles -----------------------------
(***************************************************************************)
(* Small instances of HostFiles: a directory d, and a file f that is not   *)
(* there at first, in the root and in d.                                   *)
(***************************************************************************)
EXTENDS HostFiles, TLC

CONSTANTS c1, c2, j1, j2, a1, a2

Rel(p) == [abs |-> FALSE, path |-> p]
Abs(p) == [abs |-> TRUE, path |-> p]
Run(op, a) == [op |-> op, arg |-> a]
DF == <<"d", "f">>

MCDirs  == {<<>>, <<"d">>}
MCPaths == MCDirs \cup {<<"f">>, DF}
MCHome == <<"d">>
MCRoot == <<>>
MCNotes == <<"f">>
MCClues == {DF}

MCCommands ==
    {Run("cat", Rel(<<"f">>)), Run("cat", Abs(DF)), Run("ls", Rel(<<>>)),
     Run("write", Abs(DF)), Run("cd", Abs(<<>>)), Run("chdir", Abs(<<"d">>)),
     Run("python", Rel(<<>>)), Run("quit", Rel(<<>>)), Run("sudo", Rel(<<>>))}

MCTwins == Permutations({a1, a2}) \cup Permutations({j1, j2}) \cup Permutations({c1, c2})
=============================================================================
