-------------------------- MODULE MCAgentPipeline --------------------------
(***************************************************************************)
(* A small instance of AgentPipeline: a scan of a network, which names it  *)
(* as a goal and may be blocked, a hunt for the flag on another, which     *)
(* reads critical evidence, and a complaint that seems to break the plan,  *)
(* over these two networks and the configured one.                         *)
(***************************************************************************)
EXTENDS AgentPipeline, TLC

CONSTANTS c1, c2, j1, j2, n0, n1, n2

MCIntent(g, n, t) == [goal |-> g, net |-> n, ip |-> Nowhere, theme |-> t,
                      fresh |-> n # Nowhere, breaking |-> FALSE,
                      plan |-> n # Nowhere \/ t # NoTheme, llm |-> g # NoGoal \/ t # NoTheme,
                      shift |-> FALSE, follows |-> FALSE]

MCSaid == [scan |-> [intent |-> MCIntent(NoGoal, n1, "network"), sure |-> TRUE, prose |-> FALSE],
           hunt |-> [intent |-> MCIntent("flag", n2, "flag"), sure |-> TRUE, prose |-> FALSE],
           rant |-> [intent |-> [MCIntent(NoGoal, Nowhere, NoTheme) EXCEPT !.breaking = TRUE],
                     sure |-> FALSE, prose |-> FALSE]]
MCCommands == DOMAIN MCSaid
MCTokens == [scan |-> {"subnet_scan"}, hunt |-> {}, rant |-> {}]
MCGuesses == {[intent |-> [Unsaid EXCEPT !.goal = "flag", !.ip = n1, !.plan = TRUE], sure |-> TRUE],
              [intent |-> [Unsaid EXCEPT !.net = n0, !.plan = TRUE], sure |-> TRUE],
              [intent |-> Unsaid, sure |-> FALSE]}
MCTrips == [scan |-> {}, hunt |-> {"critical_evidence_read"}, rant |-> {}]
MCGoalOf == [scan |-> [theme |-> "network", net |-> n1, ip |-> Nowhere],
             hunt |-> NoGoal, rant |-> NoGoal]
MCSimGoals == {[theme |-> "flag", net |-> n2, ip |-> Nowhere]}
MCLLMPlans == {[plan |-> "llm", phase |-> "recon", watch |-> {"nested_shell"}, ttl |-> 1]}
MCPhaseOf == [network |-> "pivot_discovery", flag |-> "evidence_followup"]
Swap == Permutations(Conns)
=============================================================================
