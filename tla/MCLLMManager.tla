----------------------------- MODULE MCLLMManager -----------------------------
(***************************************************************************)
(* A small instance of LLMManager: one provider with a key in the          *)
(* environment and one without, the second possibly not configured.        *)
(***************************************************************************)
EXTENDS LLMManager, TLC

CONSTANTS p1, p2, u1, u2, k1, k2, e1, g1, g2, a1, a2

On(url, key) == [url |-> url, key |-> key, on |-> TRUE]
Off(url) == [url |-> url, key |-> NoKey, on |-> FALSE]
MCEnv == (p1 :> e1) @@ (p2 :> NoKey)
MCInitial == {Empty,
              [enabled |-> TRUE, chosen |-> p1, table |-> p1 :> On(u1, NoKey)],
              [enabled |-> FALSE, chosen |-> p2, table |-> (p1 :> On(u1, NoKey)) @@ (p2 :> On(u1, k1))]}
MCPuts == {On(u1, NoKey), On(u1, k2), Off(u1)}
MCOverrides == {<<NoUrl, NoKey>>, <<u2, k2>>}
AdminsAlike == Permutations(Admins)
=============================================================================
