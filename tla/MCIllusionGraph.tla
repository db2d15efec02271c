-------------------------- MODULE MCIllusionGraph --------------------------
(***************************************************************************)
(* Small instances of IllusionGraph.  jump is the jump host, configured on  *)
(* network c0; a1 and a2 are addresses on the shadow network               *)
(* c1, b1 one on the second hop c2.                                        *)
(***************************************************************************)
EXTENDS IllusionGraph

CONSTANTS s1, s2, w1, w2, jump, a1, a2, b1, c0, c1, c2

MCOneEach == [w \in {w1, w2} |-> IF w = w1 THEN s1 ELSE s2]
MCSolo == [w \in {w1} |-> s1]
MCPair == [w \in {w1, w2} |-> s1]

MCBaseHosts == {<<jump, c0>>}
MCBaseSegments == {c0}

OneHop(hs) == [segs |-> {c1}, edges |-> {<<jump, c1>>}, hosts |-> hs]

TwoHops == [segs |-> {c1, c2}, edges |-> {<<jump, c1>>, <<a1, c2>>},
            hosts |-> {<<a1, c1>>, <<b1, c2>>}]

\* A plan that tries to take over the configured jump host.
Hijack == [segs |-> {c1}, edges |-> {<<jump, c1>>}, hosts |-> {<<a1, c1>>, <<jump, c0>>}]

Lead == [segs |-> {c1}, edges |-> {<<jump, c1>>}, hosts |-> {}]
LeadWithHost == [segs |-> {c1}, edges |-> {<<jump, c1>>}, hosts |-> {<<a2, c1>>}]

NoPlans == {}
OneHost == {OneHop({<<a1, c1>>})}
BothHosts == {OneHop({<<a1, c1>>, <<a2, c1>>})}
HostOrHijack == {OneHop({<<a1, c1>>}), Hijack}
ExactGoal == {[target |-> a2, lead |-> Lead,
               chain |-> OneHop({<<a1, c1>>, <<a2, c1>>})]}
BothGoals == ExactGoal \cup
    {[target |-> NoHost, lead |-> LeadWithHost, chain |-> TwoHops]}
=============================================================================
