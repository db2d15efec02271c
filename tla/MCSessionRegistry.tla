------------------------- MODULE MCSessionRegistry -------------------------
(***************************************************************************)
(* Small instances of SessionRegistry: connections of one address and      *)
(* user, and the key simulated sessions are indexed under.                 *)
(***************************************************************************)
EXTENDS SessionRegistry

CONSTANTS c1, c2, alice, sim
=============================================================================
