---------------------------- MODULE MCNestedShell ----------------------------
(***************************************************************************)
(* Small instances of NestedShell: web and db can be logged in to, vault   *)
(* denies every password.                                                  *)
(***************************************************************************)
EXTENDS NestedShell, TLC

CONSTANTS c1, c2, entry, web, db, vault, p1, p2, p3

Swap == UNION {Permutations({c1, c2}), Permutations({p1, p2, p3}), Permutations({web, db})}
=============================================================================
