------------------------------ MODULE ShellPath ------------------------------
(***************************************************************************)
(* What the nested shell promises: a path of hosts that begins at the      *)
(* entry host and is only ever extended by one host, shortened by one, or  *)
(* cut back to the entry host by a new connection.                         *)
(***************************************************************************)
EXTENDS Naturals, Sequences

CONSTANTS
    Entry,      \* the entry host
    Hosts       \* the hosts a session can log in to

VARIABLE path   \* the hosts logged in to, outermost first

Init == path = <<Entry>>

Login == \E h \in Hosts : path' = Append(path, h)

Logout == Len(path) > 1 /\ path' = SubSeq(path, 1, Len(path) - 1)

Reconnect == path' = <<Entry>>

Next == Login \/ Logout \/ Reconnect

Spec == Init /\ [][Next]_path
=============================================================================
