---------------------------- MODULE AgentPipeline ----------------------------
(***************************************************************************)
(* AgentOrchestrator: what a command sets off before it is answered.  The  *)
(* hot path judges the active plan, promotes files, routes the command,    *)
(* plans and lets the agents place evidence; the cold path gets planning   *)
(* events over the bus and asks the LLM planner.                           *)
(*                                                                         *)
(* One session is modelled, with several connections: every table of the   *)
(* orchestrator is keyed by the session.  A network and the address named  *)
(* on it are one Place, which has a segment once it has a host or a lead;  *)
(* which places a plan adds is any choice (the graph is IllusionGraph's,   *)
(* versions and personas are PlanningCache's, logins NestedShell's).  Of   *)
(* an intent's type only its goal is kept.                                 *)
(***************************************************************************)
EXTENDS Integers, FiniteSets

CONSTANTS
    Conns, Jobs,    \* connections, and goroutines that wait for the LLM
    Commands,       \* command lines
    Said,           \* what RouteIntent reads in each line
    Guesses,        \* what the LLM may read in one
    Tokens,         \* the evidence tokens of each line
    Trips,          \* invalidators that the words of each line trip
    Touching,       \* lines the safety policy may block
    GoalOf,         \* ParseGoal of each line
    SimGoals,       \* goals the operator may inject
    GoalWindow,     \* commands that are searched for a goal (5)
    Dirty,          \* lines that mentionsDirtyData holds for, tools of attack counted in
    Places, Nowhere,
    Base,           \* places of the configured network
    PhaseOf,        \* phaseForTheme
    LLMPlans,       \* plans of the LLM
    Gates,          \* gates that output may open
    TTL,            \* PlanTTLCommands of the rules' plans (20)
    IntentLimit,    \* the size past which the router's cache is emptied (128)
    Export,         \* ALTERHIVE_ALLOW_LLM_CONTEXT_EXPORT
    NoGoal, NoTheme, NoPlan, NoKey,
    MaxCommands     \* bound

Rank == [recon |-> 0, pivot_discovery |-> 1, service_validation |-> 2,
         exploit_gated |-> 3, evidence_followup |-> 4, unknown |-> 0]
Phases == DOMAIN Rank

Themes == DOMAIN PhaseOf
Goals == {NoGoal} \cup Themes
PlanIds == Themes \cup {"llm"}
Targets == [theme : Themes, net : Places, ip : Places \cup {Nowhere}]

\* Those EvaluateActivePlan looks at.
Invalidators == {"plan_ttl", "nested_shell", "critical_evidence_read", "safety_block"}
Kinds == {"local", "trace", "service", "flag"}
EventTypes == {"target_shift", "new_subnet", "flag_hunt", "plan_invalidated"}
Tasks == {"idle", "route", "plan", "patch", "cold"}

ASSUME PhasesTyped == "network" \in Themes /\ PhaseOf \in [Themes -> Phases]
ASSUME PlacesTyped == Base \subseteq Places
ASSUME PlansTyped == LLMPlans \subseteq [plan : {"llm"}, phase : Phases,
                                        watch : SUBSET Invalidators, ttl : Nat \ {0}]
ASSUME BoundsTyped == /\ TTL \in Nat \ {0} /\ IntentLimit \in Nat
                      /\ GoalWindow \in Nat /\ MaxCommands \in Nat
ASSUME CommandsTyped == /\ Commands # {} /\ Tokens \in [Commands -> SUBSET STRING]
                        /\ Trips \in [Commands -> SUBSET Invalidators]
                        /\ Dirty \cup Touching \subseteq Commands
                        /\ GoalOf \in [Commands -> Targets \cup {NoGoal}]
                        /\ SimGoals \subseteq Targets

Intents == [goal : Goals, net : Places \cup {Nowhere}, ip : Places \cup {Nowhere},
            theme : Themes \cup {NoTheme}, fresh : BOOLEAN, breaking : BOOLEAN,
            plan : BOOLEAN, llm : BOOLEAN, shift : BOOLEAN, follows : BOOLEAN]

ASSUME SaidTyped ==
    /\ \A x \in Commands : /\ Said[x].intent \in Intents
                           /\ Said[x].intent.plan = (Said[x].intent.theme # NoTheme)
                           /\ Said[x].intent.plan = (Said[x].intent.net # Nowhere)
                           /\ {Said[x].sure, Said[x].prose} \subseteq BOOLEAN
    /\ Guesses \subseteq [intent : Intents, sure : BOOLEAN]

VARIABLES
    goal,       \* PlanningState.AttackerGoal: a plan key, a signature, or NoGoal
    phase,      \* CurrentPhase
    active,     \* the active plan, its invalidators, TTL and first command, or NoPlan
    log,        \* len(CommandLog)
    hits,       \* session.Evidence
    gates,      \* access states
    nested,     \* IsNestedSSH
    hosted,     \* places the topology has a host on
    leads,      \* places with a shadow segment of zone "goal"
    files,      \* evidence in the file system
    candidates, \* candidateFiles
    planned,    \* AgentOrchestrator.planned
    intents,    \* the router's cache
    bus,        \* planning events whose goroutine has not run its handlers
    job,        \* what each goroutine does, and the key of its intent
    pc, cmd,    \* stage and command line of each connection
    typedAt,    \* auxiliary: len(CommandLog) when it was typed
    judged,     \* auxiliary: whether the executor found the plan invalid, on grounds
                \* that no logout takes away, and none was set since
    route,      \* its intent
    action,     \* its RuntimeDecision
    added,      \* places its plan added
    spec        \* evidence its agent wants placed

planning == <<goal, phase, active>>
learned == <<log, hits, gates>>
topology == <<hosted, leads>>
world == <<files, candidates>>
tables == <<planned, intents>>
cold == <<bus, job>>
locals == <<pc, cmd, typedAt, judged, route, action, added, spec>>
vars == <<planning, learned, nested, topology, world, tables, cold, locals>>

Unsaid == [goal |-> NoGoal, net |-> Nowhere, ip |-> Nowhere, theme |-> NoTheme,
           fresh |-> FALSE, breaking |-> FALSE, plan |-> FALSE, llm |-> FALSE,
           shift |-> FALSE, follows |-> FALSE]
AnyCommand == CHOOSE x \in Commands : TRUE
Idle == [what |-> "idle", key |-> NoKey]

Stages == {"ready", "blocked", "goal", "target", "execute", "promote", "route", "decide", "invalidate", "plan", "merge",
           "schedule", "patch", "evidence", "apply", "publish", "answer"}

Goto(c, label) == pc' = [pc EXCEPT ![c] = label]

-----------------------------------------------------------------------------
(* Intents *)

PlanKey(r) ==
    IF r.goal # NoGoal THEN <<"goal", r.goal>>
    ELSE IF r.net # Nowhere THEN <<"subnet", r.net, r.theme>>
    ELSE <<"intent", r.theme>>

GoalSignature(r) == <<r.goal, r.net, r.ip>>

\* The end of RouteIntent and finalizeIntent: what the session and the topology
\* make of an intent.  A signature is what InjectGoalTopology leaves in AttackerGoal;
\* the plan key that the orchestrator leaves there is never equal to one.
Settled(r) ==
    LET shifts == r.goal # NoGoal /\ goal # NoGoal /\ goal # GoalSignature(r)
        lead == r.goal = NoGoal /\ r.net \in leads
        follows == lead \/ r.ip \in hosted \/ (r.goal = NoGoal /\ r.net \in Base)
    IN [r EXCEPT !.shift = r.shift \/ shifts,
                 !.follows = r.follows \/ follows,
                 !.plan = (r.plan \/ shifts) /\ ~follows,
                 !.llm = r.llm /\ ~lead]

RouteIntent(x) ==
    LET r == Settled(Said[x].intent) IN [r EXCEPT !.llm = r.llm \/ r.breaking]

ShouldAskLLM(x, r) ==
    \/ ~Said[x].sure
    \/ Said[x].prose /\ (r.net = Nowhere \/ r.goal = NoGoal)
    \/ r.llm /\ r.net = Nowhere /\ r.ip = Nowhere

\* sanitizeLLMIntent
Sanitized(g) ==
    LET net == IF g.net = Nowhere THEN g.ip ELSE g.net
    IN [g EXCEPT !.net = net,
                 !.plan = g.plan /\ net # Nowhere,
                 !.theme = IF g.theme = NoTheme /\ g.plan /\ net # Nowhere
                           THEN "network" ELSE g.theme]

\* mergeIntentResults; an unsure guess (confidence below 0.55) counts for nothing.
Preferred(a, b, none) == IF b # none THEN b ELSE a

Merged(r, g) ==
    LET i == g.intent
    IN IF ~g.sure THEN r
       ELSE Settled([r EXCEPT !.goal = Preferred(r.goal, i.goal, NoGoal),
                              !.net = Preferred(r.net, i.net, Nowhere),
                              !.ip = Preferred(r.ip, i.ip, Nowhere),
                              !.theme = Preferred(r.theme, i.theme, NoTheme),
                              !.fresh = r.fresh \/ i.fresh, !.breaking = r.breaking \/ i.breaking,
                              !.plan = r.plan \/ i.plan, !.llm = r.llm \/ i.llm])

IntentKey(c) == [plan |-> IF active = NoPlan THEN NoPlan ELSE active.plan,
                 goal |-> goal, cmd |-> cmd[c]]

\* MapIntentToEvent
EventsOf(r) ==
    (IF r.shift THEN {"target_shift"} ELSE {})
    \cup (IF r.fresh /\ r.net # Nowhere THEN {"new_subnet"} ELSE {})
    \cup (IF r.goal = "flag" THEN {"flag_hunt"} ELSE {})
    \cup (IF r.breaking THEN {"plan_invalidated"} ELSE {})

-----------------------------------------------------------------------------
(* The active plan *)

\* EvaluateActivePlan, the test that another connection may undo apart.
Expired == "plan_ttl" \in active.watch /\ log + 1 - active.since >= active.ttl
Lasting(x) == active # NoPlan /\ (Expired \/ Trips[x] \cap active.watch # {})
Nested == active # NoPlan /\ "nested_shell" \in active.watch /\ nested

EvaluateActivePlan(x) == Lasting(x) \/ Nested

\* PlanExecutor.ExecuteCommand for an intent.
Verdict(x, r) ==
    IF EvaluateActivePlan(x) \/ (~r.follows /\ (r.breaking \/ r.shift)) THEN "full_replan"
    ELSE IF ~r.follows /\ r.fresh THEN "patch_plan"
    ELSE "fast_response"

\* Bug: the decision rests on the intent alone.
IntentDecision(x, r) ==
    IF r.breaking \/ r.shift THEN "full_replan"
    ELSE IF r.plan \/ r.llm THEN "patch_plan"
    ELSE "fast_response"

BuildRuntimeDecision(x, r) ==
    IF EvaluateActivePlan(x) \/ r.breaking \/ r.shift THEN "full_replan"
    ELSE IF r.plan \/ r.llm THEN "patch_plan"
    ELSE "fast_response"

\* SetActivePlanMetadata, by a MergePlan that added hosts.
Activate(p) ==
    /\ phase' = p.phase
    /\ active' = [plan |-> p.plan, watch |-> p.watch, ttl |-> p.ttl,
                  since |-> IF /\ active # NoPlan /\ active.plan = p.plan
                               /\ phase = p.phase /\ active.since # 0
                            THEN active.since ELSE log]
    /\ judged' = IF active' = active THEN judged ELSE [c \in Conns |-> FALSE]

\* MergePlan: a plan adds hosts on at most one more place, or none.
MergePlan(p, new) ==
    /\ Cardinality(new) <= 1
    /\ hosted' = hosted \cup new
    /\ IF new # {} THEN Activate(p) ELSE UNCHANGED <<phase, active, judged>>

\* PlanFromDecision, with defaultPlanInvalidators
RulePlan(theme) == [plan |-> theme, phase |-> PhaseOf[theme], watch |-> Invalidators, ttl |-> TTL]

-----------------------------------------------------------------------------
(* Evidence *)

Known == hits \cup gates

Needs(kind) == CASE kind = "local" -> {}
                 [] kind = "trace" -> {"subnet_scan"}
                 [] kind = "service" -> {"subnet_scan", "gate_recon_observed"}
                 [] kind = "flag" -> {"subnet_scan", "gate_exploit_partial"}

PhaseFor(kind) == CASE kind = "service" -> "service_validation"
                    [] kind = "flag" -> "evidence_followup"
                    [] OTHER -> "recon"

PhaseAllows(current, required) == current = required \/ Rank[current] >= Rank[required]

\* Bug: gates are taken for evidence tokens of no line, and passed over.
CanRevealHits(kind) == Needs(kind) \cap {"subnet_scan"} \subseteq Known

CanReveal(kind) == Needs(kind) \subseteq Known

\* specsForHost for each place, filtered by canRevealEvidence.
Specs(places) == {[kind |-> k, place |-> p, phase |-> phase] :
                      k \in {i \in Kinds \ {"local"} :
                                PhaseAllows(phase, PhaseFor(i)) /\ CanReveal(i)},
                      p \in places}

\* fileMutationVisibleNow and candidateFileVisibleLocked
VisibleNow(f) == PhaseAllows(phase, f.phase) /\ CanReveal(f.kind)

-----------------------------------------------------------------------------
(* The hot path: HandleCommandEvent, stage by stage *)

Room == log + Cardinality({c \in Conns : pc[c] # "ready"}) < MaxCommands

\* ExecuteCommand has recorded the line's evidence before the orchestrator runs.
Type(c, x) ==
    /\ pc[c] = "ready" /\ Room
    /\ cmd' = [cmd EXCEPT ![c] = x]
    /\ typedAt' = [typedAt EXCEPT ![c] = log]
    /\ hits' = hits \cup Tokens[x]
    /\ Goto(c, IF log < GoalWindow /\ GoalOf[x] # NoGoal THEN "goal" ELSE "execute")
    /\ UNCHANGED <<planning, log, gates, nested, topology, world, tables, cold, judged, route,
                   action, added, spec>>

\* runSafetyAgent, for a line the policy does not let through (IllusionGraph has the
\* policy): the plan is gone, the line is logged, and nothing else looks at it.
Block(c) ==
    /\ pc[c] = "ready" /\ Room /\ Touching # {}
    /\ active' = NoPlan
    /\ Goto(c, "blocked")
    /\ UNCHANGED <<goal, phase, learned, nested, topology, world, tables, cold, cmd, typedAt,
                   judged, route, action, added, spec>>

LogBlocked(c) ==
    /\ pc[c] = "blocked"
    /\ log' = log + 1
    /\ Goto(c, "ready")
    /\ UNCHANGED <<planning, hits, gates, nested, topology, world, tables, cold, cmd, typedAt,
                   judged, route, action, added, spec>>

\* InjectGoalTopology: a lead, unless the network has a segment, and hosts on the way
\* to the goal, but none at its own address.
Inject(g, new) ==
    /\ new \subseteq Places \ (hosted \cup {g.ip})
    /\ g.ip = Nowhere => g.net \in hosted \cup new
    /\ hosted' = hosted \cup new
    /\ leads' = leads \cup ({g.net} \ hosted)

Adds(g, new) == new # {} \/ g.net \notin hosted \cup leads

Signature(g) == <<g.theme, g.net, g.ip>>

InjectGoal(c) ==
    /\ pc[c] = "goal"
    /\ \E new \in SUBSET Places :
         /\ Inject(GoalOf[cmd[c]], new)
         /\ Goto(c, IF Adds(GoalOf[cmd[c]], new) THEN "target" ELSE "execute")
    /\ UNCHANGED <<planning, learned, nested, world, tables, cold, cmd, typedAt, judged, route,
                   action, added, spec>>

SetGoal(c) ==
    /\ pc[c] = "target"
    /\ goal' = Signature(GoalOf[cmd[c]])
    /\ Goto(c, "execute")
    /\ UNCHANGED <<phase, active, learned, nested, topology, world, tables, cold, cmd, typedAt,
                   judged, route, action, added, spec>>

\* Step 1: the executor, with an empty intent; it and the orchestrator publish.
Execute(c) ==
    LET replan == active # NoPlan /\ Verdict(cmd[c], Unsaid) = "full_replan"
    IN /\ pc[c] = "execute"
       /\ judged' = [judged EXCEPT ![c] = replan /\ Lasting(cmd[c])]
       /\ bus' = IF replan THEN bus \cup {"plan_invalidated"} ELSE bus
       /\ Goto(c, "promote")
       /\ UNCHANGED <<planning, learned, nested, topology, world, tables, job, cmd,
                      typedAt, route, action, added, spec>>

\* Step 2
Promote(c) ==
    LET ready == {f \in candidates : VisibleNow(f)}
    IN /\ pc[c] = "promote"
       /\ candidates' = candidates \ ready
       /\ files' = files \cup ready
       /\ Goto(c, "route")
       /\ UNCHANGED <<planning, learned, nested, topology, tables, cold, cmd, typedAt, judged, route,
                      action, added, spec>>

\* Step 3: Route, by the rules, or by what the LLM once said of this line.
RouteFast(c) ==
    LET r == RouteIntent(cmd[c])
    IN /\ pc[c] = "route"
       /\ route' = [route EXCEPT ![c] = r]
       /\ Goto(c, "decide")
       /\ UNCHANGED <<planning, learned, nested, topology, world, tables, cold, cmd, typedAt, judged,
                      action, added, spec>>

RouteCached(c) ==
    LET r == RouteIntent(cmd[c])
    IN /\ pc[c] = "route" /\ ShouldAskLLM(cmd[c], r)
       /\ \E e \in intents : /\ e.key = IntentKey(c)
                             /\ route' = [route EXCEPT ![c] = Merged(r, e.said)]
       /\ Goto(c, "decide")
       /\ UNCHANGED <<planning, learned, nested, topology, world, tables, cold, cmd, typedAt, judged,
                      action, added, spec>>

RouteAsking(c, j) ==
    LET r == RouteIntent(cmd[c])
    IN /\ pc[c] = "route" /\ ShouldAskLLM(cmd[c], r) /\ job[j] = Idle
       /\ \A e \in intents : e.key # IntentKey(c)
       /\ job' = [job EXCEPT ![j] = [what |-> "route", key |-> IntentKey(c)]]
       /\ route' = [route EXCEPT ![c] = r]
       /\ Goto(c, "decide")
       /\ UNCHANGED <<planning, learned, nested, topology, world, tables, bus, cmd,
                      typedAt, judged, action, added, spec>>

\* The router's decision takes the place of the executor's.
Decide(c) ==
    /\ pc[c] = "decide"
    /\ action' = [action EXCEPT ![c] = BuildRuntimeDecision(cmd[c], route[c])]
    /\ goal' = IF route[c].goal # NoGoal THEN PlanKey(route[c]) ELSE goal
    /\ Goto(c, "invalidate")
    /\ UNCHANGED <<phase, active, learned, nested, topology, world, tables, cold, cmd, typedAt, judged,
                   route, added, spec>>

\* Bug: only what the executor found invalid is dropped.
InvalidateJudged(c) ==
    /\ pc[c] = "invalidate"
    /\ active' = IF action[c] = "full_replan" /\ judged[c] THEN NoPlan ELSE active
    /\ Goto(c, "plan")
    /\ UNCHANGED <<goal, phase, learned, nested, topology, world, tables, cold, cmd, typedAt, judged,
                   route, action, added, spec>>

\* Step 4
Invalidate(c) ==
    /\ pc[c] = "invalidate"
    /\ active' = IF action[c] = "full_replan" THEN NoPlan ELSE active
    /\ Goto(c, "plan")
    /\ UNCHANGED <<goal, phase, learned, nested, topology, world, tables, cold, cmd, typedAt, judged,
                   route, action, added, spec>>

\* Step 5: markPlanMiss, which never forgets a key.
PlanMiss(c) ==
    /\ pc[c] = "plan" /\ route[c].plan /\ PlanKey(route[c]) \notin planned
    /\ planned' = planned \cup {PlanKey(route[c])}
    /\ Goto(c, IF route[c].theme # NoTheme THEN "merge"
               ELSE IF route[c].llm THEN "schedule" ELSE "patch")
    /\ UNCHANGED <<planning, learned, nested, topology, world, intents, cold, cmd, typedAt, judged,
                   route, action, added, spec>>

PlanHit(c) ==
    /\ pc[c] = "plan"
    /\ route[c].plan => PlanKey(route[c]) \in planned
    /\ Goto(c, IF ~route[c].plan /\ (route[c].llm \/ action[c] = "full_replan")
               THEN "schedule" ELSE "patch")
    /\ UNCHANGED <<planning, learned, nested, topology, world, tables, cold, cmd, typedAt, judged,
                   route, action, added, spec>>

\* PlanDecision for a triggered decision: the rule plan at once.
MergeRulePlan(c) ==
    /\ pc[c] = "merge"
    /\ \E new \in SUBSET (Places \ hosted) :
         /\ MergePlan(RulePlan(route[c].theme), new)
         /\ added' = [added EXCEPT ![c] = new]
    /\ Goto(c, IF route[c].llm THEN "schedule" ELSE "patch")
    /\ UNCHANGED <<goal, learned, nested, leads, world, tables, cold, cmd, typedAt, route, action, spec>>

\* scheduleLLMPlan; a goroutine more than there are jobs fails at once.
Schedule(c) ==
    /\ pc[c] = "schedule"
    /\ \/ \E j \in Jobs : /\ job[j] = Idle
                          /\ job' = [job EXCEPT ![j] = [what |-> "plan", key |-> NoKey]]
       \/ UNCHANGED job
    /\ Goto(c, "patch")
    /\ UNCHANGED <<planning, learned, nested, topology, world, tables, bus, cmd,
                   typedAt, judged, route, action, added, spec>>

\* Step 6: LLMWorldPatchAgent places its own file and may ask the LLM for more;
\* the critic may reject the file.
AsksWorldPatch(c) == added[c] # {} \/ cmd[c] \in Dirty

PatchWorld(c) ==
    /\ pc[c] = "patch"
    /\ \/ /\ AsksWorldPatch(c)
          /\ files' = files \cup {[kind |-> "local", place |-> p, phase |-> "recon"] : p \in added[c]}
       \/ UNCHANGED files
    /\ \/ \E j \in Jobs : /\ AsksWorldPatch(c) /\ Export /\ job[j] = Idle
                          /\ job' = [job EXCEPT ![j] = [what |-> "patch", key |-> NoKey]]
       \/ UNCHANGED job
    /\ Goto(c, "evidence")
    /\ UNCHANGED <<planning, learned, nested, topology, candidates, tables, bus, cmd,
                   typedAt, judged, route, action, added, spec>>

\* EvidenceAgent.Plan: for the added hosts, or for three of those there are.
AtMostThree(s) == {e \in SUBSET s : Cardinality(e) = 3 \/ (e = s /\ Cardinality(s) < 3)}

PlanEvidence(c) ==
    /\ pc[c] = "evidence"
    /\ \E places \in IF added[c] # {} THEN {added[c]}
                     ELSE IF cmd[c] \in Dirty THEN AtMostThree(hosted \ Base) ELSE {{}} :
         spec' = [spec EXCEPT ![c] = Specs(places)]
    /\ Goto(c, "apply")
    /\ UNCHANGED <<planning, learned, nested, topology, world, tables, cold, cmd, typedAt, judged, route,
                   action, added>>

\* Review and applyWorldPatch of the evidence agent's files.
ApplyEvidence(c) ==
    LET now == {f \in spec[c] : VisibleNow(f)}
    IN /\ pc[c] = "apply"
       /\ \/ files' = files \cup now /\ candidates' = candidates \cup (spec[c] \ now)
          \/ UNCHANGED world
       /\ spec' = [spec EXCEPT ![c] = {}]
       /\ Goto(c, "publish")
       /\ UNCHANGED <<planning, learned, nested, topology, tables, cold, cmd, typedAt, judged, route,
                      action, added>>

\* The events go to the bus, a goroutine each.
Publish(c) ==
    LET r == route[c]
    IN /\ pc[c] = "publish"
       /\ bus' = IF r.llm \/ r.plan \/ r.shift \/ r.fresh THEN bus \cup EventsOf(r) ELSE bus
       /\ Goto(c, "answer")
       /\ UNCHANGED <<planning, learned, nested, topology, world, tables, job, cmd,
                      typedAt, judged, route, action, added, spec>>

\* The answer opens gates (see Progress), and the command is logged.
Answer(c) ==
    /\ pc[c] = "answer"
    /\ \E g \in SUBSET Gates : Cardinality(g) <= 1 /\ gates' = gates \cup g
    /\ log' = log + 1
    /\ pc' = [pc EXCEPT ![c] = "ready"]
    /\ cmd' = [cmd EXCEPT ![c] = AnyCommand]
    /\ typedAt' = [typedAt EXCEPT ![c] = 0]
    /\ judged' = [judged EXCEPT ![c] = FALSE]
    /\ route' = [route EXCEPT ![c] = Unsaid]
    /\ action' = [action EXCEPT ![c] = "fast_response"]
    /\ added' = [added EXCEPT ![c] = {}]
    /\ UNCHANGED <<planning, hits, nested, topology, world, tables, cold, spec>>

-----------------------------------------------------------------------------
(* The cold path and the other goroutines *)

Subscribed == {"target_shift", "new_subnet", "flag_hunt", "plan_invalidated"}
NeedsReplan == {"target_shift", "flag_hunt", "plan_invalidated"}

\* The planner is asked if it is active.
OnPlanningEvent(e) ==
    \/ /\ e \in Subscribed \cap NeedsReplan
       /\ \E j \in Jobs : /\ job[j] = Idle
                          /\ job' = [job EXCEPT ![j] = [what |-> "cold", key |-> NoKey]]
    \/ UNCHANGED job

\* Publish
Deliver(e) ==
    /\ e \in bus
    /\ bus' = bus \ {e}
    /\ OnPlanningEvent(e)
    /\ UNCHANGED <<planning, learned, nested, topology, world, tables, locals>>

\* PlanAsync: onPlanningEvent has no session to give, and without one the planner refuses.
PlanCold(j) ==
    /\ job[j].what = "cold"
    /\ job' = [job EXCEPT ![j] = Idle]
    /\ UNCHANGED <<planning, learned, nested, topology, world, tables, bus, locals>>

\* routeAsync
StoreIntent(j) ==
    /\ job[j].what = "route"
    /\ \E g \in Guesses :
         intents' = {e \in intents : e.key # job[j].key /\ Cardinality(intents) <= IntentLimit}
                      \cup {[key |-> job[j].key,
                             said |-> [g EXCEPT !.intent = Sanitized(g.intent)]]}
    /\ job' = [job EXCEPT ![j] = Idle]
    /\ UNCHANGED <<planning, learned, nested, topology, world, planned, bus, locals>>

\* scheduleLLMPlan's goroutine and MergeDeceptionPlan; the LLM names its zones as it likes.
MergeLLMPlan(j) ==
    /\ job[j].what = "plan"
    /\ \E p \in LLMPlans, new \in SUBSET (Places \ hosted) :
         /\ MergePlan(p, new)
         /\ \E led \in SUBSET new : leads' = leads \cup led
    /\ job' = [job EXCEPT ![j] = Idle]
    /\ UNCHANGED <<goal, learned, nested, world, tables, bus, pc, cmd, typedAt, route, action,
                   added, spec>>

\* planAsync leaves the patch in an event of the session that nothing reads.
RecordPatch(j) ==
    /\ job[j].what = "patch"
    /\ job' = [job EXCEPT ![j] = Idle]
    /\ UNCHANGED <<planning, learned, nested, topology, world, tables, bus, locals>>

Fail(j) ==
    /\ job[j].what \in {"route", "plan", "patch"}
    /\ job' = [job EXCEPT ![j] = Idle]
    /\ UNCHANGED <<planning, learned, nested, topology, world, tables, bus, locals>>

-----------------------------------------------------------------------------
(* What else touches the session: its nested shells, and the operator *)

\* handlePendingSSHAuth, which takes a password before the orchestrator sees the line.
EnterShell(c) ==
    /\ pc[c] = "ready"
    /\ nested' = TRUE
    /\ UNCHANGED <<planning, learned, topology, world, tables, cold, locals>>

\* The answer to exit, or a connection that has ended (ResetToEntryHost).
LeaveShell(c) ==
    /\ pc[c] \in {"ready", "answer"}
    /\ nested' = FALSE
    /\ UNCHANGED <<planning, learned, topology, world, tables, cold, locals>>

\* simGoal: its InjectGoalTopology, at once.
SimulateGoal(g) ==
    /\ \E new \in SUBSET Places :
         /\ Inject(g, new)
         /\ goal' = IF Adds(g, new) THEN Signature(g) ELSE goal
    /\ UNCHANGED <<phase, active, learned, nested, world, tables, cold, locals>>

-----------------------------------------------------------------------------
Init ==
    /\ goal = NoGoal /\ phase = "recon" /\ active = NoPlan
    /\ log = 0 /\ hits = {} /\ gates = {}
    /\ nested = FALSE /\ hosted = Base /\ leads = {} /\ files = {} /\ candidates = {}
    /\ planned = {} /\ intents = {} /\ bus = {}
    /\ job = [j \in Jobs |-> Idle]
    /\ pc = [c \in Conns |-> "ready"]
    /\ cmd = [c \in Conns |-> AnyCommand]
    /\ typedAt = [c \in Conns |-> 0]
    /\ judged = [c \in Conns |-> FALSE]
    /\ route = [c \in Conns |-> Unsaid]
    /\ action = [c \in Conns |-> "fast_response"]
    /\ added = [c \in Conns |-> {}]
    /\ spec = [c \in Conns |-> {}]

HotPath(c) ==
    \/ LogBlocked(c) \/ InjectGoal(c) \/ SetGoal(c)
    \/ Execute(c) \/ Promote(c)
    \/ RouteFast(c) \/ RouteCached(c) \/ \E j \in Jobs : RouteAsking(c, j)
    \/ Decide(c) \/ Invalidate(c) \/ PlanMiss(c) \/ PlanHit(c)
    \/ MergeRulePlan(c) \/ Schedule(c) \/ PatchWorld(c) \/ PlanEvidence(c)
    \/ ApplyEvidence(c) \/ Publish(c) \/ Answer(c)

JobStep(j) == PlanCold(j) \/ StoreIntent(j) \/ MergeLLMPlan(j) \/ RecordPatch(j) \/ Fail(j)

Shell(c) == EnterShell(c) \/ LeaveShell(c)

Next == \/ \E c \in Conns : (\E x \in Commands : Type(c, x)) \/ Block(c) \/ HotPath(c) \/ Shell(c)
        \/ \E g \in SimGoals : SimulateGoal(g)
        \/ \E e \in EventTypes : Deliver(e)
        \/ \E j \in Jobs : JobStep(j)

Spec == Init /\ [][Next]_vars

-----------------------------------------------------------------------------
(* Properties *)

Plans == [plan : PlanIds, since : Nat, watch : SUBSET Invalidators, ttl : Nat]
Evidence == [kind : Kinds, place : Places, phase : Phases]
GoalValues == {NoGoal} \cup {<<"goal", g>> : g \in Themes} \cup {Signature(g) : g \in Targets}
IntentKeys == [plan : PlanIds \cup {NoPlan}, goal : GoalValues, cmd : Commands]
Actions == {"fast_response", "patch_plan", "full_replan"}

\* Every variable has its type, and no plan starts after the commands so far
\* (SetActivePlanMetadata is given len(CommandLog)).
TypeOK ==
    /\ goal \in GoalValues
    /\ phase \in Phases /\ active \in Plans \cup {NoPlan}
    /\ active # NoPlan => active.since <= log
    /\ log \in Nat /\ hits \subseteq UNION {Tokens[x] : x \in Commands} /\ gates \subseteq Gates
    /\ nested \in BOOLEAN /\ hosted \subseteq Places /\ leads \subseteq Places
    /\ files \subseteq Evidence /\ candidates \subseteq Evidence
    /\ \A e \in intents : e.key \in IntentKeys /\ e.said.intent \in Intents
    /\ bus \subseteq EventTypes
    /\ job \in [Jobs -> [what : Tasks, key : IntentKeys \cup {NoKey}]]
    /\ pc \in [Conns -> Stages] /\ cmd \in [Conns -> Commands] /\ typedAt \in [Conns -> Nat]
    /\ judged \in [Conns -> BOOLEAN] /\ route \in [Conns -> Intents]
    /\ action \in [Conns -> Actions] /\ added \in [Conns -> SUBSET Places]
    /\ spec \in [Conns -> SUBSET Evidence]

\* Evidence that waits for a scan or a gate (WhenToReveal of specsForHost) is
\* in the file system only once the session has seen all of it.
EvidenceEarned == \A f \in files : Needs(f.kind) \subseteq Known

\* Stages at which a command plans and its agents work.
Working == {"plan", "merge", "schedule", "patch", "evidence", "apply"}

\* The router's decision overwrites the executor's, and is made of its own reading of
\* the plan, later.  Still a plan the executor found invalid is gone when the command
\* plans and its agents work, whatever was decided, unless a plan was set since; a
\* verdict that rests on the nested shell alone may be lost, when another connection
\* leaves the shell in between (HandleCommandEvent, steps 1, 3 and 4).
VerdictKept == \A c \in Conns : pc[c] \in Working /\ judged[c] => active = NoPlan

\* Once a command has decided on a full replan and invalidated the plan, no
\* agent of that command works under a plan older than the command.
ReplanIsNew ==
    \A c \in Conns : pc[c] \in Working /\ action[c] = "full_replan" /\ active # NoPlan
                     => active.since >= typedAt[c]

\* What TLC checks as one invariant.
Inv == TypeOK /\ ReplanIsNew
=============================================================================
