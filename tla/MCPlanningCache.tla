--------------------------- MODULE MCPlanningCache ---------------------------
(***************************************************************************)
(* Small instances of PlanningCache: ls can be cached; hunt names a goal,  *)
(* breaks the plan, is planned for and writes a file; curl is blocked.     *)
(***************************************************************************)
EXTENDS PlanningCache, TLC

CONSTANTS c1, c2, j1, ls, hunt, curl, short, long, entry, web, db

MCReasons == [x \in Commands |-> IF x = hunt THEN {"critical_evidence_read"} ELSE {}]
MCInvalidatorsOf == [p \in Plans |-> IF p = short THEN {"plan_ttl", "nested_shell"}
                                                  ELSE {"critical_evidence_read"}]
MCAccount == [h \in AllHosts |-> IF h = entry THEN "www-data" ELSE "root"]
Swap == Permutations({c1, c2})
=============================================================================
