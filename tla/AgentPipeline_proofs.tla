------------------------- MODULE AgentPipeline_proofs -------------------------
(***************************************************************************)
(* Proofs about AgentPipeline: what is in the file system was earned, a    *)
(* plan found invalid is gone, a replan is new.                            *)
(***************************************************************************)
EXTENDS AgentPipeline, TLAPS

-----------------------------------------------------------------------------
(* Intents *)

LEMMA IntentParts ==
    ASSUME NEW r \in Intents
    PROVE  /\ r.goal \in Goals /\ r.net \in Places \cup {Nowhere} /\ r.ip \in Places \cup {Nowhere}
           /\ r.theme \in Themes \cup {NoTheme} /\ r.fresh \in BOOLEAN /\ r.breaking \in BOOLEAN
           /\ r.plan \in BOOLEAN /\ r.llm \in BOOLEAN /\ r.shift \in BOOLEAN /\ r.follows \in BOOLEAN
BY DEF Intents

LEMMA UnsaidTyped == Unsaid \in Intents
BY DEF Unsaid, Intents, Goals

LEMMA SettledTyped ==
    ASSUME NEW r \in Intents
    PROVE  Settled(r) \in Intents
<1>1. ASSUME NEW a \in BOOLEAN, NEW b \in BOOLEAN, NEW c \in BOOLEAN, NEW d \in BOOLEAN
      PROVE  [r EXCEPT !.shift = a, !.follows = b, !.plan = c, !.llm = d] \in Intents
    BY DEF Intents
<1> QED BY <1>1 DEF Settled

LEMMA RoutedTyped ==
    ASSUME NEW x \in Commands
    PROVE  RouteIntent(x) \in Intents
<1> DEFINE r == Settled(Said[x].intent)
<1>1. r \in Intents
    BY SaidTyped, SettledTyped
<1>2. RouteIntent(x) = [r EXCEPT !.llm = r.llm \/ r.breaking]
    BY DEF RouteIntent
<1> HIDE DEF r
<1> QED BY <1>1, <1>2 DEF Intents

LEMMA SanitizedTyped ==
    ASSUME NEW g \in Intents
    PROVE  Sanitized(g) \in Intents
BY PhasesTyped DEF Sanitized, Intents

LEMMA MergedTyped ==
    ASSUME NEW r \in Intents, NEW g, g.intent \in Intents
    PROVE  Merged(r, g) \in Intents
<1> DEFINE i == g.intent
           a == Preferred(r.goal, i.goal, NoGoal)
           b == Preferred(r.net, i.net, Nowhere)
           c == Preferred(r.ip, i.ip, Nowhere)
           d == Preferred(r.theme, i.theme, NoTheme)
           e == (r.fresh \/ i.fresh)
           f == (r.breaking \/ i.breaking)
           h == (r.plan \/ i.plan)
           k == (r.llm \/ i.llm)
           m == [r EXCEPT !.goal = a, !.net = b, !.ip = c, !.theme = d,
                          !.fresh = e, !.breaking = f, !.plan = h, !.llm = k]
<1>1. a \in Goals /\ b \in Places \cup {Nowhere} /\ c \in Places \cup {Nowhere}
      /\ d \in Themes \cup {NoTheme}
    BY IntentParts DEF Preferred
<1>2. e \in BOOLEAN /\ f \in BOOLEAN /\ h \in BOOLEAN /\ k \in BOOLEAN
    OBVIOUS
<1>3. Merged(r, g) = IF ~g.sure THEN r ELSE Settled(m)
    BY DEF Merged
<1> HIDE DEF a, b, c, d, e, f, h, k
<1>4. m \in Intents
    BY <1>1, <1>2 DEF Intents
<1> HIDE DEF m
<1> QED BY <1>3, <1>4, SettledTyped

-----------------------------------------------------------------------------
(* The inductive invariant *)

(* TypeOK by parts: the plan, what was learned and placed, the cold path, the locals. *)
PlanOK ==
    /\ goal \in GoalValues
    /\ phase \in Phases /\ active \in Plans \cup {NoPlan}
    /\ active # NoPlan => active.since <= log
    /\ log \in Nat
LoreOK ==
    /\ hits \subseteq UNION {Tokens[x] : x \in Commands} /\ gates \subseteq Gates
    /\ nested \in BOOLEAN /\ hosted \subseteq Places /\ leads \subseteq Places
    /\ files \subseteq Evidence /\ candidates \subseteq Evidence
ColdOK ==
    /\ \A e \in intents : e.key \in IntentKeys /\ e.said.intent \in Intents
    /\ bus \subseteq EventTypes
    /\ job \in [Jobs -> [what : Tasks, key : IntentKeys \cup {NoKey}]]
LocalOK ==
    /\ pc \in [Conns -> Stages] /\ cmd \in [Conns -> Commands] /\ typedAt \in [Conns -> Nat]
    /\ judged \in [Conns -> BOOLEAN] /\ route \in [Conns -> Intents]
    /\ action \in [Conns -> Actions] /\ added \in [Conns -> SUBSET Places]
    /\ spec \in [Conns -> SUBSET Evidence]

LEMMA TypeParts == TypeOK <=> PlanOK /\ LoreOK /\ ColdOK /\ LocalOK
BY DEF TypeOK, PlanOK, LoreOK, ColdOK, LocalOK

(* A command is no older than the log, a goroutine that asks the router's question has
   its key, and a plan that is merged has a theme. *)
Ages == \A c \in Conns : typedAt[c] <= log
Asked == \A j \in Jobs : job[j].what = "route" => job[j].key \in IntentKeys
Themed ==
    \A c \in Conns : /\ pc[c] = "merge" => route[c].theme # NoTheme
                     /\ pc[c] \in {"goal", "target"} => GoalOf[cmd[c]] # NoGoal

(* A verdict is one command's; it stands for as long as the plan is in force, and so the
   decision agrees with it. *)
Quiet == \A c \in Conns : pc[c] \in {"ready", "blocked"} => ~judged[c]
Standing ==
    \A c \in Conns : judged[c] /\ active # NoPlan =>
        /\ Lasting(cmd[c])
        /\ pc[c] = "invalidate" => action[c] = "full_replan"

IInv == /\ TypeOK /\ Ages /\ Quiet /\ Standing /\ Asked /\ Themed
        /\ EvidenceEarned /\ VerdictKept /\ ReplanIsNew

(* The steps that touch the plan, the places and files, the cold path, a command. *)
LEMMA PlanTouched ==
    ASSUME Next
    PROVE  \/ \E c \in Conns : SetGoal(c) \/ Decide(c) \/ MergeRulePlan(c)
           \/ \E c \in Conns : Block(c) \/ Invalidate(c)
           \/ \E c \in Conns : LogBlocked(c) \/ Answer(c)
           \/ \E g \in SimGoals : SimulateGoal(g)
           \/ \E j \in Jobs : MergeLLMPlan(j)
           \/ UNCHANGED <<goal, phase, active, log>>
BY ZenonT(60) DEF Next, HotPath, Shell, JobStep, Type, InjectGoal, Execute, Promote, RouteFast,
       RouteCached, RouteAsking, PlanMiss, PlanHit, Schedule, PatchWorld, PlanEvidence,
       ApplyEvidence, Publish, Deliver, EnterShell, LeaveShell,
       PlanCold, StoreIntent, RecordPatch, Fail, planning, learned

LEMMA LoreTouched ==
    ASSUME Next
    PROVE  \/ \E c \in Conns, x \in Commands : Type(c, x)
           \/ \E c \in Conns : InjectGoal(c) \/ Promote(c) \/ MergeRulePlan(c) \/ PatchWorld(c)
                                  \/ ApplyEvidence(c) \/ Answer(c) \/ Shell(c)
           \/ \E g \in SimGoals : SimulateGoal(g)
           \/ \E j \in Jobs : MergeLLMPlan(j)
           \/ UNCHANGED <<hits, gates, nested, hosted, leads, files, candidates>>
BY ZenonT(60) DEF Next, HotPath, JobStep, Block, LogBlocked, SetGoal, Execute, RouteFast, RouteCached,
       RouteAsking, Decide, Invalidate, PlanMiss, PlanHit, Schedule, PlanEvidence, Publish, Deliver,
       PlanCold, StoreIntent, RecordPatch, Fail, learned, topology, world

LEMMA ColdTouched ==
    ASSUME Next
    PROVE  \/ \E c \in Conns : Execute(c) \/ Schedule(c) \/ PatchWorld(c) \/ Publish(c)
                                  \/ \E j \in Jobs : RouteAsking(c, j)
           \/ \E e \in EventTypes : Deliver(e)
           \/ \E j \in Jobs : JobStep(j)
           \/ UNCHANGED <<intents, bus, job>>
BY ZenonT(60) DEF Next, HotPath, Shell, Type, Block, LogBlocked, InjectGoal, SetGoal, Promote, RouteFast,
       RouteCached, Decide, Invalidate, PlanMiss, PlanHit, MergeRulePlan, PlanEvidence,
       ApplyEvidence, Answer, EnterShell, LeaveShell, SimulateGoal, tables, cold

LEMMA LocalTouched ==
    ASSUME Next
    PROVE  \/ \E c \in Conns : (\E x \in Commands : Type(c, x)) \/ Block(c) \/ HotPath(c)
           \/ (\E j \in Jobs : MergeLLMPlan(j)) /\ UNCHANGED <<pc, cmd, typedAt, route, action, added, spec>>
           \/ UNCHANGED locals
BY DEF Next, Shell, EnterShell, LeaveShell, SimulateGoal, JobStep, Deliver, PlanCold, StoreIntent,
       MergeLLMPlan, RecordPatch, Fail

-----------------------------------------------------------------------------
(* Types *)

LEMMA MergeTyped ==
    ASSUME PlanOK, NEW p, p.plan \in PlanIds, p.phase \in Phases, p.watch \subseteq Invalidators,
           p.ttl \in Nat, NEW new, MergePlan(p, new)
    PROVE  /\ phase' \in Phases /\ active' \in Plans \cup {NoPlan}
           /\ active' # NoPlan => active'.since <= log
           /\ active' = active \/ active'.since = log \/ (active # NoPlan /\ active'.since = active.since)
<1>1. CASE new = {}
    BY <1>1 DEF MergePlan, PlanOK
<1>2. CASE new # {}
    <2> DEFINE kept == active # NoPlan /\ active.plan = p.plan /\ phase = p.phase /\ active.since # 0
               since == IF kept THEN active.since ELSE log
    <2>1. /\ phase' = p.phase
          /\ active' = [plan |-> p.plan, watch |-> p.watch, ttl |-> p.ttl, since |-> since]
        BY <1>2 DEF MergePlan, Activate
    <2>2. active # NoPlan => active.since \in Nat /\ active.since <= log
        BY DEF PlanOK, Plans
    <2>3. since \in Nat /\ since <= log /\ (since = log \/ (active # NoPlan /\ since = active.since))
        BY <2>2 DEF PlanOK
    <2> HIDE DEF since
    <2> QED BY <2>1, <2>3 DEF Plans
<1> QED BY <1>1, <1>2

(* What a merge makes of the plans, and of the verdicts on them. *)
LEMMA Merges ==
    ASSUME TypeOK, Themed,
           (\E c \in Conns : MergeRulePlan(c)) \/ (\E j \in Jobs : MergeLLMPlan(j))
    PROVE  /\ phase' \in Phases /\ active' \in Plans \cup {NoPlan}
           /\ active' # NoPlan => active'.since <= log
           /\ active' = active \/ active'.since = log \/ (active # NoPlan /\ active'.since = active.since)
           /\ (active' = active /\ judged' = judged) \/ judged' = [c \in Conns |-> FALSE]
           /\ UNCHANGED <<goal, log>>
<1>1. PlanOK /\ LocalOK
    BY TypeParts
<1>2. PICK p, new : /\ p.plan \in PlanIds /\ p.phase \in Phases /\ p.watch \subseteq Invalidators
                    /\ p.ttl \in Nat /\ MergePlan(p, new) /\ UNCHANGED <<goal, log>>
    <2>1. ASSUME NEW c \in Conns, MergeRulePlan(c)
          PROVE  LET p == RulePlan(route[c].theme)
                 IN /\ p.plan \in PlanIds /\ p.phase \in Phases /\ p.watch \subseteq Invalidators
                    /\ p.ttl \in Nat /\ (\E new : MergePlan(p, new)) /\ UNCHANGED <<goal, log>>
        <3>1. route[c].theme \in Themes
            BY <1>1, <2>1, IntentParts DEF LocalOK, Themed, MergeRulePlan
        <3>2. PICK new : MergePlan(RulePlan(route[c].theme), new)
            BY <2>1 DEF MergeRulePlan
        <3>3. UNCHANGED <<goal, log>>
            BY <2>1 DEF MergeRulePlan, learned
        <3> QED BY <3>1, <3>2, <3>3, PhasesTyped, BoundsTyped DEF RulePlan, PlanIds
    <2>2. ASSUME NEW j \in Jobs, MergeLLMPlan(j)
          PROVE  \E p \in LLMPlans : (\E new : MergePlan(p, new)) /\ UNCHANGED <<goal, log>>
        BY <2>2 DEF MergeLLMPlan, learned
    <2>3. \A p \in LLMPlans : /\ p.plan \in PlanIds /\ p.phase \in Phases
                               /\ p.watch \subseteq Invalidators /\ p.ttl \in Nat
        BY PlansTyped DEF PlanIds
    <2> QED BY <2>1, <2>2, <2>3
<1>3. (active' = active /\ judged' = judged) \/ judged' = [c \in Conns |-> FALSE]
    BY <1>2 DEF MergePlan, Activate
<1> QED BY <1>1, <1>2, <1>3, MergeTyped

LEMMA PlanStep ==
    ASSUME TypeOK, Themed, Next
    PROVE  PlanOK'
<1>1. PlanOK /\ LocalOK
    BY TypeParts
<1>2. CASE UNCHANGED <<goal, phase, active, log>>
    BY <1>1, <1>2 DEF PlanOK
<1>3. ASSUME NEW c \in Conns, Decide(c) PROVE PlanOK'
    <2>1. route[c] \in Intents
        BY <1>1 DEF LocalOK
    <2>2. route[c].goal # NoGoal => PlanKey(route[c]) \in GoalValues
        BY <2>1, IntentParts DEF PlanKey, Goals, GoalValues
    <2>3. /\ goal' = IF route[c].goal # NoGoal THEN PlanKey(route[c]) ELSE goal
          /\ UNCHANGED <<phase, active, log>>
        BY <1>3 DEF Decide, learned
    <2> QED BY <1>1, <2>2, <2>3 DEF PlanOK
<1>4. ASSUME NEW c \in Conns, Block(c) \/ Invalidate(c) PROVE PlanOK'
    BY <1>1, <1>4 DEF PlanOK, Block, Invalidate, learned
<1>5. ASSUME NEW c \in Conns, SetGoal(c) PROVE PlanOK'
    <2>1. goal' = Signature(GoalOf[cmd[c]]) /\ UNCHANGED <<phase, active, log>>
        BY <1>5 DEF SetGoal, learned
    <2>2. GoalOf[cmd[c]] \in Targets
        BY <1>1, <1>5, CommandsTyped DEF LocalOK, Themed, SetGoal
    <2> QED BY <1>1, <2>1, <2>2 DEF PlanOK, GoalValues
<1>6. ASSUME NEW c \in Conns, LogBlocked(c) \/ Answer(c) PROVE PlanOK'
    <2>1. log' = log + 1 /\ UNCHANGED <<goal, phase, active>>
        BY <1>6 DEF LogBlocked, Answer, planning
    <2>2. active # NoPlan => active.since \in Nat
        BY <1>1 DEF PlanOK, Plans
    <2> QED BY <1>1, <2>1, <2>2 DEF PlanOK
<1>7. CASE (\E c \in Conns : MergeRulePlan(c)) \/ (\E j \in Jobs : MergeLLMPlan(j))
    BY <1>1, <1>7, Merges DEF PlanOK
<1>8. ASSUME NEW g \in SimGoals, SimulateGoal(g) PROVE PlanOK'
    <2>1. goal' \in {goal, Signature(g)} /\ UNCHANGED <<phase, active, log>>
        BY <1>8 DEF SimulateGoal, learned
    <2>2. g \in Targets
        BY CommandsTyped
    <2> QED BY <1>1, <2>1, <2>2 DEF PlanOK, GoalValues
<1> QED BY <1>2, <1>3, <1>4, <1>5, <1>6, <1>7, <1>8, PlanTouched

LEMMA LoreStep ==
    ASSUME TypeOK, Themed, Next
    PROVE  LoreOK'
<1>1. LoreOK /\ LocalOK
    BY TypeParts
<1>2. CASE UNCHANGED <<hits, gates, nested, hosted, leads, files, candidates>>
    BY <1>1, <1>2 DEF LoreOK
<1>3. ASSUME NEW c \in Conns, NEW x \in Commands, Type(c, x) PROVE LoreOK'
    BY <1>1, <1>3 DEF LoreOK, Type, topology, world
<1>4. ASSUME NEW c \in Conns, Promote(c) PROVE LoreOK'
    BY <1>1, <1>4 DEF LoreOK, Promote, learned, topology
<1>5. ASSUME NEW c \in Conns, MergeRulePlan(c) PROVE LoreOK'
    BY <1>1, <1>5 DEF LoreOK, MergeRulePlan, MergePlan, learned, world
<1>6. ASSUME NEW c \in Conns, PatchWorld(c) PROVE LoreOK'
    <2>1. \A p \in added[c] : [kind |-> "local", place |-> p, phase |-> "recon"] \in Evidence
        BY <1>1 DEF LocalOK, Evidence, Kinds, Phases, Rank
    <2> QED BY <1>1, <1>6, <2>1 DEF LoreOK, PatchWorld, learned, topology
<1>7. ASSUME NEW c \in Conns, ApplyEvidence(c) PROVE LoreOK'
    BY <1>1, <1>7 DEF LoreOK, LocalOK, ApplyEvidence, learned, topology, world
<1>8. ASSUME NEW c \in Conns, Answer(c) PROVE LoreOK'
    BY <1>1, <1>8 DEF LoreOK, Answer, topology, world
<1>9. ASSUME NEW j \in Jobs, MergeLLMPlan(j) PROVE LoreOK'
    BY <1>1, <1>9 DEF LoreOK, MergeLLMPlan, MergePlan, learned, world
<1>10. ASSUME NEW g \in Targets, NEW new, Inject(g, new) PROVE hosted' \subseteq Places /\ leads' \subseteq Places
    BY <1>1, <1>10 DEF LoreOK, Inject, Targets
<1>11. ASSUME NEW c \in Conns, InjectGoal(c) PROVE LoreOK'
    <2>1. GoalOf[cmd[c]] \in Targets
        BY <1>1, <1>11, CommandsTyped DEF LocalOK, Themed, InjectGoal
    <2> QED BY <1>1, <1>10, <1>11, <2>1 DEF InjectGoal, LoreOK, learned, world
<1>12. ASSUME NEW g \in SimGoals, SimulateGoal(g) PROVE LoreOK'
    BY <1>1, <1>10, <1>12, CommandsTyped DEF SimulateGoal, LoreOK, learned, world
<1>13. ASSUME NEW c \in Conns, Shell(c) PROVE LoreOK'
    BY <1>1, <1>13 DEF LoreOK, Shell, EnterShell, LeaveShell, learned, topology, world
<1> QED BY <1>2, <1>3, <1>4, <1>5, <1>6, <1>7, <1>8, <1>9, <1>11, <1>12, <1>13, LoreTouched

(* The cold path, with what its goroutines carry. *)
LEMMA ColdStep ==
    ASSUME TypeOK, Asked, Next
    PROVE  ColdOK' /\ Asked'
<1>1. PlanOK /\ ColdOK /\ LocalOK
    BY TypeParts
<1>2. \A key \in IntentKeys \cup {NoKey}, w \in Tasks :
        [what |-> w, key |-> key] \in [what : Tasks, key : IntentKeys \cup {NoKey}]
    OBVIOUS
<1>3. {"idle", "route", "plan", "patch", "cold"} = Tasks
    BY DEF Tasks
<1>4. CASE UNCHANGED <<intents, bus, job>>
    BY <1>1, <1>4 DEF ColdOK, Asked
<1>5. ASSUME NEW w \in {"plan", "patch", "cold", "idle"}, NEW j \in Jobs,
             job' = [job EXCEPT ![j] = [what |-> w, key |-> NoKey]]
      PROVE  /\ job' \in [Jobs -> [what : Tasks, key : IntentKeys \cup {NoKey}]]
             /\ Asked'
    BY <1>1, <1>3, <1>5 DEF ColdOK, Asked
<1>6. UNCHANGED job => job' \in [Jobs -> [what : Tasks, key : IntentKeys \cup {NoKey}]] /\ Asked'
    BY <1>1 DEF ColdOK, Asked
<1>7. ASSUME NEW c \in Conns, Execute(c) \/ Publish(c) PROVE ColdOK' /\ Asked'
    <2>1. UNCHANGED <<intents, job>>
        BY <1>7 DEF Execute, Publish, tables
    <2>2. bus' \subseteq EventTypes
        BY <1>1, <1>7 DEF ColdOK, Execute, Publish, EventsOf, EventTypes
    <2> QED BY <1>1, <1>6, <2>1, <2>2 DEF ColdOK
<1>8. ASSUME NEW c \in Conns, Schedule(c) PROVE ColdOK' /\ Asked'
    <2>1. UNCHANGED <<intents, bus>>
        BY <1>8 DEF Schedule, tables
    <2>2. (\E j \in Jobs : job' = [job EXCEPT ![j] = [what |-> "plan", key |-> NoKey]]) \/ UNCHANGED job
        BY <1>8 DEF Schedule
    <2> QED BY <1>1, <1>5, <1>6, <2>1, <2>2 DEF ColdOK
<1>9. ASSUME NEW c \in Conns, PatchWorld(c) PROVE ColdOK' /\ Asked'
    <2>1. UNCHANGED <<intents, bus>>
        BY <1>9 DEF PatchWorld, tables
    <2>2. (\E j \in Jobs : job' = [job EXCEPT ![j] = [what |-> "patch", key |-> NoKey]]) \/ UNCHANGED job
        BY <1>9 DEF PatchWorld
    <2> QED BY <1>1, <1>5, <1>6, <2>1, <2>2 DEF ColdOK
<1>10. ASSUME NEW c \in Conns, NEW j \in Jobs, RouteAsking(c, j)
       PROVE  ColdOK' /\ Asked'
    <2>1. UNCHANGED <<intents, bus>>
        BY <1>10 DEF RouteAsking, tables
    <2>2. IntentKey(c) \in IntentKeys
        BY <1>1 DEF IntentKey, IntentKeys, PlanOK, Plans, LocalOK
    <2>3. job' = [job EXCEPT ![j] = [what |-> "route", key |-> IntentKey(c)]]
        BY <1>10 DEF RouteAsking
    <2>4. /\ job' \in [Jobs -> [what : Tasks, key : IntentKeys \cup {NoKey}]]
          /\ Asked'
        BY <1>1, <1>3, <2>2, <2>3 DEF ColdOK, Asked
    <2> QED BY <1>1, <2>1, <2>4 DEF ColdOK
<1>11. ASSUME NEW e \in EventTypes, Deliver(e) PROVE ColdOK' /\ Asked'
    <2>1. UNCHANGED intents /\ bus' \subseteq bus
        BY <1>11 DEF Deliver, tables
    <2>2. (\E j \in Jobs : job' = [job EXCEPT ![j] = [what |-> "cold", key |-> NoKey]]) \/ UNCHANGED job
        BY <1>11 DEF Deliver, OnPlanningEvent
    <2> QED BY <1>1, <1>5, <1>6, <2>1, <2>2 DEF ColdOK
<1>12. ASSUME NEW j \in Jobs, JobStep(j) PROVE ColdOK' /\ Asked'
    <2>1. job' = [job EXCEPT ![j] = [what |-> "idle", key |-> NoKey]]
        BY <1>12 DEF JobStep, PlanCold, StoreIntent, MergeLLMPlan, RecordPatch, Fail, Idle
    <2>2. job' \in [Jobs -> [what : Tasks, key : IntentKeys \cup {NoKey}]] /\ Asked'
        BY <1>5, <2>1
    <2>3. bus' = bus
        BY <1>12 DEF JobStep, PlanCold, StoreIntent, MergeLLMPlan, RecordPatch, Fail
    <2>4. \A e \in intents' : e.key \in IntentKeys /\ e.said.intent \in Intents
        <3>1. CASE StoreIntent(j)
            <4>1. PICK g \in Guesses :
                    intents' \subseteq intents \cup {[key |-> job[j].key,
                                            said |-> [g EXCEPT !.intent = Sanitized(g.intent)]]}
                BY <3>1 DEF StoreIntent
            <4>2. job[j].key \in IntentKeys
                BY <3>1 DEF StoreIntent, Asked
            <4> DEFINE h == [g EXCEPT !.intent = Sanitized(g.intent)]
                       n == [key |-> job[j].key, said |-> h]
            <4>3. h.intent \in Intents
                BY SaidTyped, SanitizedTyped
            <4> HIDE DEF h
            <4>4. n.key \in IntentKeys /\ n.said.intent \in Intents
                BY <4>2, <4>3
            <4>5. intents' \subseteq intents \cup {n}
                BY <4>1 DEF h
            <4> HIDE DEF n
            <4> QED BY <1>1, <4>4, <4>5 DEF ColdOK
        <3>2. CASE ~StoreIntent(j)
            BY <1>1, <1>12, <3>2 DEF JobStep, PlanCold, MergeLLMPlan, RecordPatch, Fail, tables, ColdOK
        <3> QED BY <3>1, <3>2
    <2> QED BY <1>1, <2>2, <2>3, <2>4 DEF ColdOK
<1> QED BY <1>4, <1>7, <1>8, <1>9, <1>10, <1>11, <1>12, ColdTouched

(* What a connection holds. *)
LEMMA SpecsTyped ==
    ASSUME PlanOK, NEW places \in SUBSET Places
    PROVE  Specs(places) \subseteq Evidence
BY DEF Specs, Evidence, PlanOK

LEMMA LocalStep ==
    ASSUME TypeOK, Themed, Next
    PROVE  LocalOK'
<1>1. PlanOK /\ LoreOK /\ ColdOK /\ LocalOK
    BY TypeParts
<1>2. CASE UNCHANGED locals
    BY <1>1, <1>2 DEF LocalOK, locals
<1>3. CASE \E j \in Jobs : MergeLLMPlan(j)
    <2>1. UNCHANGED <<pc, cmd, typedAt, route, action, added, spec>>
        BY <1>3 DEF MergeLLMPlan
    <2>2. judged' \in [Conns -> BOOLEAN]
        BY <1>1, <1>3, Merges DEF LocalOK
    <2> QED BY <1>1, <2>1, <2>2 DEF LocalOK
<1>4. ASSUME NEW c \in Conns, (\E x \in Commands : Type(c, x)) \/ Block(c) \/ HotPath(c)
      PROVE  LocalOK'
    <2> USE DEF Stages, Goto
    <2>11. CASE Block(c) \/ LogBlocked(c) \/ InjectGoal(c) \/ SetGoal(c)
        BY <1>1, <2>11 DEF LocalOK, Block, LogBlocked, InjectGoal, SetGoal
    <2>1. ASSUME NEW x \in Commands, Type(c, x) PROVE LocalOK'
        BY <1>1, <2>1 DEF LocalOK, PlanOK, Type
    <2>2. CASE Execute(c)
        <3>1. judged' \in [Conns -> BOOLEAN]
            BY <1>1, <2>2 DEF LocalOK, Execute, Lasting
        <3> QED BY <1>1, <2>2, <3>1 DEF LocalOK, Execute
    <2>3. CASE Promote(c) \/ Schedule(c) \/ PatchWorld(c) \/ Publish(c)
        BY <1>1, <2>3 DEF LocalOK, Promote, Schedule, PatchWorld, Publish
    <2>4. CASE RouteFast(c) \/ RouteCached(c) \/ \E j \in Jobs : RouteAsking(c, j)
        <3>1. RouteIntent(cmd[c]) \in Intents
            BY <1>1, RoutedTyped DEF LocalOK
        <3>2. PICK r \in Intents : route' = [route EXCEPT ![c] = r]
            <4>1. CASE RouteFast(c) \/ \E j \in Jobs : RouteAsking(c, j)
                BY <3>1, <4>1 DEF RouteFast, RouteAsking
            <4>2. CASE RouteCached(c)
                <5>1. PICK e \in intents : route' = [route EXCEPT ![c] = Merged(RouteIntent(cmd[c]), e.said)]
                    BY <4>2 DEF RouteCached
                <5>2. Merged(RouteIntent(cmd[c]), e.said) \in Intents
                    BY <1>1, <3>1, MergedTyped DEF ColdOK
                <5> QED BY <5>1, <5>2
            <4> QED BY <2>4, <4>1, <4>2
        <3>3. pc' = [pc EXCEPT ![c] = "decide"] /\ UNCHANGED <<cmd, typedAt, judged, action, added, spec>>
            BY <2>4 DEF RouteFast, RouteCached, RouteAsking
        <3> QED BY <1>1, <3>2, <3>3 DEF LocalOK
    <2>5. CASE Decide(c)
        <3>1. BuildRuntimeDecision(cmd[c], route[c]) \in Actions
            BY DEF BuildRuntimeDecision, Actions
        <3> QED BY <1>1, <2>5, <3>1 DEF LocalOK, Decide
    <2>6. CASE Invalidate(c) \/ PlanMiss(c) \/ PlanHit(c)
        BY <1>1, <2>6 DEF LocalOK, Invalidate, PlanMiss, PlanHit
    <2>7. CASE MergeRulePlan(c)
        <3>1. judged' \in [Conns -> BOOLEAN]
            BY <1>1, <2>7, Merges DEF LocalOK
        <3> QED BY <1>1, <2>7, <3>1 DEF LocalOK, MergeRulePlan
    <2>8. CASE PlanEvidence(c)
        <3>1. PICK places : /\ places \in IF added[c] # {} THEN {added[c]}
                                          ELSE IF cmd[c] \in Dirty THEN AtMostThree(hosted \ Base) ELSE {{}}
                            /\ spec' = [spec EXCEPT ![c] = Specs(places)]
            BY <2>8 DEF PlanEvidence
        <3>2. places \subseteq Places
            BY <1>1, <3>1 DEF LocalOK, LoreOK, AtMostThree
        <3>3. Specs(places) \subseteq Evidence
            BY <1>1, <3>2, SpecsTyped
        <3>4. pc' = [pc EXCEPT ![c] = "apply"]
              /\ UNCHANGED <<cmd, typedAt, judged, route, action, added>>
            BY <2>8 DEF PlanEvidence
        <3> QED BY <1>1, <3>1, <3>3, <3>4 DEF LocalOK
    <2>9. CASE ApplyEvidence(c)
        BY <1>1, <2>9 DEF LocalOK, ApplyEvidence
    <2>10. CASE Answer(c)
        <3>1. AnyCommand \in Commands /\ "fast_response" \in Actions
            BY CommandsTyped DEF AnyCommand, Actions
        <3> QED BY <1>1, <2>10, <3>1, UnsaidTyped DEF LocalOK, Answer
    <2> QED BY <1>4, <2>1, <2>2, <2>3, <2>4, <2>5, <2>6, <2>7, <2>8, <2>9, <2>10, <2>11 DEF HotPath
<1> QED BY <1>2, <1>3, <1>4, LocalTouched

-----------------------------------------------------------------------------
(* The properties *)

(* The session forgets nothing, and what is placed was earned when it was placed. *)
LEMMA EarnedStep ==
    ASSUME EvidenceEarned, Next
    PROVE  EvidenceEarned'
<1>1. hits \subseteq hits' /\ gates \subseteq gates'
    <2>1. ASSUME NEW c \in Conns, Promote(c) \/ MergeRulePlan(c) \/ PatchWorld(c) \/ ApplyEvidence(c)
          PROVE  hits' = hits /\ gates' = gates
        BY <2>1 DEF Promote, MergeRulePlan, PatchWorld, ApplyEvidence, learned
    <2>2. ASSUME NEW c \in Conns, Answer(c) PROVE hits' = hits /\ gates \subseteq gates'
        BY <2>2 DEF Answer
    <2>3. ASSUME NEW c \in Conns, NEW x \in Commands, Type(c, x) PROVE hits \subseteq hits' /\ gates' = gates
        BY <2>3 DEF Type
    <2>4. ASSUME NEW j \in Jobs, MergeLLMPlan(j) PROVE hits' = hits /\ gates' = gates
        BY <2>4 DEF MergeLLMPlan, learned
    <2>5. ASSUME NEW c \in Conns, InjectGoal(c) \/ Shell(c) PROVE hits' = hits /\ gates' = gates
        BY <2>5 DEF InjectGoal, Shell, EnterShell, LeaveShell, learned
    <2>6. ASSUME NEW g \in SimGoals, SimulateGoal(g) PROVE hits' = hits /\ gates' = gates
        BY <2>6 DEF SimulateGoal, learned
    <2> QED BY <2>1, <2>2, <2>3, <2>4, <2>5, <2>6, LoreTouched
<1>2. \A f \in files' \ files : Needs(f.kind) \subseteq Known
    <2>1. ASSUME NEW c \in Conns, Promote(c) PROVE \A f \in files' \ files : Needs(f.kind) \subseteq Known
        BY <2>1 DEF Promote, VisibleNow, CanReveal
    <2>2. ASSUME NEW c \in Conns, PatchWorld(c) PROVE \A f \in files' \ files : Needs(f.kind) \subseteq Known
        <3>1. \A f \in files' \ files : f.kind = "local"
            BY <2>2 DEF PatchWorld
        <3> QED BY <3>1 DEF Needs
    <2>3. ASSUME NEW c \in Conns, ApplyEvidence(c) PROVE \A f \in files' \ files : Needs(f.kind) \subseteq Known
        BY <2>3 DEF ApplyEvidence, VisibleNow, CanReveal, world
    <2>4. ASSUME NEW c \in Conns, MergeRulePlan(c) \/ Answer(c) PROVE files' = files
        BY <2>4 DEF MergeRulePlan, Answer, world
    <2>5. ASSUME NEW c \in Conns, NEW x \in Commands, Type(c, x) PROVE files' = files
        BY <2>5 DEF Type, world
    <2>6. ASSUME NEW j \in Jobs, MergeLLMPlan(j) PROVE files' = files
        BY <2>6 DEF MergeLLMPlan, world
    <2>7. ASSUME NEW c \in Conns, InjectGoal(c) \/ Shell(c) PROVE files' = files
        BY <2>7 DEF InjectGoal, Shell, EnterShell, LeaveShell, world
    <2>8. ASSUME NEW g \in SimGoals, SimulateGoal(g) PROVE files' = files
        BY <2>8 DEF SimulateGoal, world
    <2> QED BY <2>1, <2>2, <2>3, <2>4, <2>5, <2>6, <2>7, <2>8, LoreTouched
<1>3. \A f \in files : Needs(f.kind) \subseteq Known
    BY DEF EvidenceEarned
<1>4. Known \subseteq Known'
    BY <1>1 DEF Known
<1>5. \A f \in files' : Needs(f.kind) \subseteq Known'
    BY <1>2, <1>3, <1>4
<1> QED BY <1>5 DEF EvidenceEarned

(* What a step leaves of a command: its time, line and decision, and where it stands. *)
LEMMA CommandKept ==
    ASSUME TypeOK, NEW c \in Conns, NEW d \in Conns, Block(c) \/ HotPath(c),
           d # c \/ ~(Execute(c) \/ Decide(c) \/ Invalidate(c) \/ Answer(c))
    PROVE  /\ UNCHANGED <<typedAt[d], cmd[d], action[d]>>
           /\ pc'[d] \in Working => pc[d] \in Working
           /\ pc'[d] = "invalidate" => pc[d] = "invalidate"
           /\ pc'[d] \in {"ready", "blocked"} => pc[d] \in {"ready", "blocked"}
<1>1. LocalOK
    BY TypeParts
<1> USE <1>1 DEF LocalOK, Goto, Working
<1>2. CASE Execute(c) \/ Decide(c) \/ Invalidate(c) \/ Answer(c)
    BY <1>2 DEF Execute, Decide, Invalidate, Answer
<1>3. CASE Promote(c) \/ PlanMiss(c) \/ PlanHit(c) \/ MergeRulePlan(c)
    BY <1>3 DEF Promote, PlanMiss, PlanHit, MergeRulePlan
<1>4. CASE RouteFast(c) \/ RouteCached(c) \/ \E j \in Jobs : RouteAsking(c, j)
    BY <1>4 DEF RouteFast, RouteCached, RouteAsking
<1>5. CASE Schedule(c) \/ PatchWorld(c) \/ PlanEvidence(c) \/ ApplyEvidence(c) \/ Publish(c)
    BY <1>5 DEF Schedule, PatchWorld, PlanEvidence, ApplyEvidence, Publish
<1>6. CASE Block(c) \/ LogBlocked(c) \/ InjectGoal(c) \/ SetGoal(c)
    BY <1>6 DEF Block, LogBlocked, InjectGoal, SetGoal
<1> QED BY <1>2, <1>3, <1>4, <1>5, <1>6 DEF HotPath

(* A verdict is given by Execute only, and goes with the plan it was about. *)
LEMMA VerdictGiven ==
    ASSUME TypeOK, Themed, Next, NEW d \in Conns, judged'[d]
    PROVE  judged[d] \/ Execute(d)
<1>1. LocalOK
    BY TypeParts
<1>2. CASE (\E c \in Conns : MergeRulePlan(c)) \/ (\E j \in Jobs : MergeLLMPlan(j))
    BY <1>2, Merges
<1>3. CASE UNCHANGED locals
    BY <1>3 DEF locals
<1>4. ASSUME NEW c \in Conns, (\E x \in Commands : Type(c, x)) \/ Block(c) \/ HotPath(c), ~MergeRulePlan(c)
      PROVE  judged[d] \/ Execute(d)
    <2>1. CASE Execute(c) \/ Answer(c)
        BY <1>1, <2>1 DEF Execute, Answer, LocalOK
    <2>2. CASE ~(Execute(c) \/ Answer(c))
        BY <1>4, <2>2 DEF HotPath, Type, Block, LogBlocked, InjectGoal, SetGoal, Promote, RouteFast,
           RouteCached, RouteAsking, Decide, Invalidate, PlanMiss, PlanHit, Schedule, PatchWorld,
           PlanEvidence, ApplyEvidence, Publish
    <2> QED BY <2>1, <2>2
<1> QED BY <1>2, <1>3, <1>4, LocalTouched

(* The plan changes when it is dropped, or with the verdicts. *)
LEMMA PlanChanges ==
    ASSUME TypeOK, Themed, Next
    PROVE  active' \in {active, NoPlan} \/ judged' = [c \in Conns |-> FALSE]
<1>1. CASE (\E c \in Conns : MergeRulePlan(c)) \/ (\E j \in Jobs : MergeLLMPlan(j))
    BY <1>1, Merges
<1>2. ASSUME NEW c \in Conns, Block(c) \/ Invalidate(c) PROVE active' \in {active, NoPlan}
    BY <1>2 DEF Block, Invalidate
<1>3. ASSUME NEW c \in Conns, SetGoal(c) \/ Decide(c) \/ LogBlocked(c) \/ Answer(c) PROVE active' = active
    BY <1>3 DEF SetGoal, Decide, LogBlocked, Answer, planning
<1>4. ASSUME NEW g \in SimGoals, SimulateGoal(g) PROVE active' = active
    BY <1>4 DEF SimulateGoal
<1> QED BY <1>1, <1>2, <1>3, <1>4, PlanTouched

LEMMA LogGrows ==
    ASSUME TypeOK, Next
    PROVE  log \in Nat /\ log' \in {log, log + 1}
<1>1. log \in Nat
    BY DEF TypeOK
<1>2. ASSUME NEW c \in Conns, SetGoal(c) \/ Decide(c) \/ MergeRulePlan(c) \/ Block(c) \/ Invalidate(c)
      PROVE  log' = log
    BY <1>2 DEF SetGoal, Decide, MergeRulePlan, Block, Invalidate, learned
<1>3. ASSUME NEW c \in Conns, LogBlocked(c) \/ Answer(c) PROVE log' = log + 1
    BY <1>3 DEF LogBlocked, Answer
<1>4. (\E g \in SimGoals : SimulateGoal(g)) \/ (\E j \in Jobs : MergeLLMPlan(j)) => log' = log
    BY DEF SimulateGoal, MergeLLMPlan, learned
<1> QED BY <1>1, <1>2, <1>3, <1>4, PlanTouched

(* A ground for a verdict stays one as commands are logged. *)
LEMMA LastingStep ==
    ASSUME TypeOK, Next, active' = active, NEW x \in Commands, Lasting(x)
    PROVE  Lasting(x)'
<1>1. active \in Plans /\ log \in Nat /\ log' \in {log, log + 1}
    BY LogGrows DEF TypeOK, Lasting
<1>2. active.since \in Nat /\ active.ttl \in Nat
    BY <1>1 DEF Plans
<1>3. Expired => Expired'
    BY <1>1, <1>2 DEF Expired
<1> QED BY <1>3 DEF Lasting

(* Times, themes and silence of one connection. *)
LEMMA CommandStep ==
    ASSUME TypeOK, Ages, Quiet, Themed, Next
    PROVE  Ages' /\ Quiet' /\ Themed'
<1>1. LocalOK /\ log \in Nat /\ log' \in {log, log + 1}
    BY TypeParts, LogGrows
<1>2. \A d \in Conns : typedAt[d] \in Nat /\ typedAt[d] <= log
    BY <1>1 DEF LocalOK, Ages
<1>3. \A d \in Conns : judged'[d] => judged[d] \/ Execute(d)
    BY VerdictGiven
<1>4. CASE UNCHANGED locals \/ UNCHANGED <<pc, cmd, typedAt, route, action, added, spec>>
    <2>1. UNCHANGED <<pc, cmd, typedAt, route>> /\ \A d \in Conns : ~Execute(d)
        BY <1>1, <1>4 DEF locals, Execute, Goto, LocalOK
    <2> QED BY <1>1, <1>2, <1>3, <2>1 DEF Ages, Quiet, Themed
<1>5. ASSUME NEW c \in Conns, NEW x \in Commands, Type(c, x) PROVE Ages' /\ Quiet' /\ Themed'
    <2>1. /\ judged' = judged /\ route' = route /\ log' = log
          /\ typedAt'[c] = log /\ pc'[c] \in {"goal", "execute"}
          /\ pc'[c] = "goal" => GoalOf[cmd'[c]] # NoGoal
          /\ \A d \in Conns : d # c => typedAt'[d] = typedAt[d] /\ pc'[d] = pc[d] /\ cmd'[d] = cmd[d]
        BY <1>1, <1>5 DEF Type, LocalOK, Goto
    <2>2. Ages'
        BY <1>1, <1>2, <2>1 DEF Ages
    <2> QED BY <2>1, <2>2 DEF Quiet, Themed
<1>6. ASSUME NEW c \in Conns, Block(c) \/ HotPath(c) PROVE Ages' /\ Quiet' /\ Themed'
    <2>1. \A d \in Conns : d # c =>
            typedAt'[d] = typedAt[d] /\ (pc'[d] \in {"ready", "blocked"} => pc[d] \in {"ready", "blocked"})
        BY <1>6, CommandKept
    <2>2. /\ typedAt'[c] \in {typedAt[c], 0}
          /\ pc'[c] \in {"ready", "blocked"} => pc[c] \in {"ready", "blocked"} \/ ~judged'[c]
        <3>1. CASE Execute(c) \/ Decide(c) \/ Invalidate(c)
            BY <1>1, <3>1 DEF Execute, Decide, Invalidate, LocalOK, Goto
        <3>2. CASE Answer(c)
            BY <1>1, <3>2 DEF Answer, LocalOK
        <3>3. CASE ~(Execute(c) \/ Decide(c) \/ Invalidate(c) \/ Answer(c))
            BY <1>6, <3>3, CommandKept
        <3> QED BY <3>1, <3>2, <3>3
    <2>3. Ages'
        BY <1>1, <1>2, <2>1, <2>2 DEF Ages
    <2>4. Quiet'
        <3>1. \A d \in Conns : Execute(d) => pc'[d] = "promote"
            BY <1>1 DEF Execute, LocalOK, Goto
        <3> QED BY <1>3, <2>1, <2>2, <3>1 DEF Quiet
    <2>5. Themed'
        <3> USE <1>1 DEF LocalOK, Goto, Themed
        <3>1. CASE PlanMiss(c)
            BY <3>1 DEF PlanMiss
        <3>2. CASE PlanHit(c) \/ MergeRulePlan(c) \/ Schedule(c) \/ PatchWorld(c) \/ PlanEvidence(c)
            BY <3>2 DEF PlanHit, MergeRulePlan, Schedule, PatchWorld, PlanEvidence
        <3>3. CASE Execute(c) \/ Promote(c) \/ Decide(c) \/ Invalidate(c) \/ ApplyEvidence(c) \/ Publish(c)
            BY <3>3 DEF Execute, Promote, Decide, Invalidate, ApplyEvidence, Publish
        <3>4. CASE RouteFast(c) \/ RouteCached(c) \/ \E j \in Jobs : RouteAsking(c, j)
            BY <3>4 DEF RouteFast, RouteCached, RouteAsking
        <3>5. CASE Answer(c)
            BY <3>5 DEF Answer
        <3>6. CASE Block(c) \/ LogBlocked(c) \/ InjectGoal(c) \/ SetGoal(c)
            BY <3>6 DEF Block, LogBlocked, InjectGoal, SetGoal
        <3> QED BY <1>6, <3>1, <3>2, <3>3, <3>4, <3>5, <3>6 DEF HotPath
    <2> QED BY <2>3, <2>4, <2>5
<1> QED BY <1>4, <1>5, <1>6, LocalTouched

(* How far a command may go in a step that leaves it a verdict on the plan in force. *)
LEMMA VerdictMoves ==
    ASSUME TypeOK, Quiet, Themed, Next, NEW d \in Conns, judged[d], judged'[d], ~Execute(d)
    PROVE  /\ cmd'[d] = cmd[d]
           /\ pc'[d] = "invalidate" => (pc[d] = "invalidate" /\ action'[d] = action[d]) \/ Decide(d)
           /\ pc'[d] \in Working => pc[d] \in Working \/ Invalidate(d)
<1>1. LocalOK
    BY TypeParts
<1>2. CASE UNCHANGED locals \/ UNCHANGED <<pc, cmd, typedAt, route, action, added, spec>>
    BY <1>2 DEF locals
<1>3. ASSUME NEW c \in Conns, NEW x \in Commands, Type(c, x)
      PROVE  UNCHANGED <<cmd[d], pc[d], action[d]>>
    BY <1>1, <1>3 DEF Type, LocalOK, Goto, Quiet
<1>4. ASSUME NEW c \in Conns, Block(c) \/ HotPath(c)
      PROVE  /\ cmd'[d] = cmd[d]
             /\ pc'[d] = "invalidate" => (pc[d] = "invalidate" /\ action'[d] = action[d]) \/ Decide(d)
             /\ pc'[d] \in Working => pc[d] \in Working \/ Invalidate(d)
    <2>1. CASE d # c \/ ~(Execute(c) \/ Decide(c) \/ Invalidate(c) \/ Answer(c))
        BY <1>4, <2>1, CommandKept
    <2>2. CASE d = c /\ (Decide(c) \/ Invalidate(c))
        BY <1>1, <2>2 DEF Decide, Invalidate, LocalOK, Goto, Working
    <2>3. ~(d = c /\ Answer(c))
        BY <1>1 DEF Answer, LocalOK
    <2> QED BY <2>1, <2>2, <2>3
<1> QED BY <1>2, <1>3, <1>4, LocalTouched

(* A plan found invalid does not survive the decision. *)
LEMMA VerdictStep ==
    ASSUME TypeOK, Quiet, Standing, VerdictKept, Themed, Next
    PROVE  Standing' /\ VerdictKept'
<1>1. LocalOK /\ LocalOK'
    BY TypeParts, LocalStep
<1>2. SUFFICES ASSUME NEW d \in Conns, judged'[d], active' # NoPlan
               PROVE  /\ Lasting(cmd[d])'
                      /\ pc'[d] = "invalidate" => action'[d] = "full_replan"
                      /\ pc'[d] \notin Working
    BY DEF Standing, VerdictKept
<1>3. active' = active
    BY <1>2, PlanChanges
<1>4. CASE Execute(d)
    <2>1. pc'[d] = "promote" /\ cmd'[d] = cmd[d] /\ (judged'[d] => Lasting(cmd[d]))
        BY <1>1, <1>4 DEF Execute, LocalOK, Goto
    <2>2. Lasting(cmd[d])'
        BY <1>1, <1>2, <1>3, <2>1, LastingStep DEF LocalOK
    <2> QED BY <2>1, <2>2 DEF Working
<1>5. CASE ~Execute(d)
    <2>1. judged[d] /\ active # NoPlan
        BY <1>2, <1>3, <1>5, VerdictGiven
    <2>2. Lasting(cmd[d]) /\ (pc[d] = "invalidate" => action[d] = "full_replan") /\ pc[d] \notin Working
        BY <2>1 DEF Standing, VerdictKept
    <2>3. Lasting(cmd[d])'
        <3>1. cmd'[d] = cmd[d] /\ cmd[d] \in Commands
            BY <1>1, <1>2, <1>5, <2>1, VerdictMoves DEF LocalOK
        <3> QED BY <1>3, <2>2, <3>1, LastingStep
    <2>4. Decide(d) => action'[d] = "full_replan"
        <3>1. EvaluateActivePlan(cmd[d])
            BY <2>2 DEF EvaluateActivePlan
        <3> QED BY <1>1, <3>1 DEF Decide, BuildRuntimeDecision, LocalOK
    <2>5. ~Invalidate(d)
        BY <1>2, <2>2 DEF Invalidate
    <2> QED BY <1>2, <1>5, <2>1, <2>2, <2>3, <2>4, <2>5, VerdictMoves
<1> QED BY <1>4, <1>5

(* No plan in force is older than a command that replaced it. *)
LEMMA ReplanStep ==
    ASSUME TypeOK, Ages, Themed, ReplanIsNew, Next
    PROVE  ReplanIsNew'
<1>1. PlanOK /\ LocalOK
    BY TypeParts
<1>2. \A d \in Conns : /\ pc[d] \in Working /\ action[d] = "full_replan" /\ active # NoPlan
                            => active.since >= typedAt[d]
                       /\ typedAt[d] \in Nat /\ typedAt[d] <= log /\ log \in Nat
    BY <1>1 DEF ReplanIsNew, Ages, LocalOK, PlanOK
<1>3. SUFFICES ASSUME NEW d \in Conns, pc'[d] \in Working, action'[d] = "full_replan", active' # NoPlan
               PROVE  active'.since >= typedAt'[d]
    BY DEF ReplanIsNew
<1>4. active' = active \/ active'.since = log \/ (active # NoPlan /\ active'.since = active.since)
    <2>1. CASE (\E c \in Conns : MergeRulePlan(c)) \/ (\E j \in Jobs : MergeLLMPlan(j))
        BY <2>1, Merges
    <2>2. ASSUME NEW c \in Conns, Block(c) \/ Invalidate(c) PROVE active' = active
        BY <1>3, <2>2 DEF Block, Invalidate
    <2>3. ASSUME NEW c \in Conns, SetGoal(c) \/ Decide(c) \/ LogBlocked(c) \/ Answer(c)
          PROVE  active' = active
        BY <2>3 DEF SetGoal, Decide, LogBlocked, Answer, planning
    <2>4. ASSUME NEW g \in SimGoals, SimulateGoal(g) PROVE active' = active
        BY <2>4 DEF SimulateGoal
    <2> QED BY <2>1, <2>2, <2>3, <2>4, PlanTouched
<1>5. ASSUME pc[d] \in Working, action[d] = "full_replan", typedAt'[d] = typedAt[d]
      PROVE  active'.since >= typedAt'[d]
    BY <1>2, <1>3, <1>4, <1>5
<1>6. CASE UNCHANGED locals \/ UNCHANGED <<pc, cmd, typedAt, route, action, added, spec>>
    BY <1>3, <1>5, <1>6 DEF locals
<1>7. ASSUME NEW c \in Conns, NEW x \in Commands, Type(c, x) PROVE active'.since >= typedAt'[d]
    <2>1. d # c /\ pc[d] \in Working /\ UNCHANGED action /\ typedAt'[d] = typedAt[d]
        BY <1>1, <1>3, <1>7 DEF Type, LocalOK, Goto, Working
    <2> QED BY <1>3, <1>5, <2>1
<1>8. ASSUME NEW c \in Conns, Block(c) \/ HotPath(c) PROVE active'.since >= typedAt'[d]
    <2>1. CASE d = c /\ (Execute(c) \/ Decide(c) \/ Answer(c))
        BY <1>1, <1>3, <2>1 DEF Execute, Decide, Answer, LocalOK, Goto, Working
    <2>2. CASE d = c /\ Invalidate(c)
        BY <1>3, <2>2 DEF Invalidate
    <2>3. CASE d # c \/ ~(Execute(c) \/ Decide(c) \/ Invalidate(c) \/ Answer(c))
        BY <1>3, <1>5, <1>8, <2>3, CommandKept
    <2> QED BY <2>1, <2>2, <2>3
<1> QED BY <1>6, <1>7, <1>8, LocalTouched

LEMMA InitIInv == Init => IInv
<1> SUFFICES ASSUME Init PROVE IInv
    OBVIOUS
<1>1. PlanOK
    BY DEF Init, PlanOK, Phases, Rank, GoalValues
<1>2. LoreOK
    BY PlacesTyped DEF Init, LoreOK
<1>3. ColdOK
    BY DEF Init, ColdOK, Idle, Tasks
<1>4. LocalOK
    <2>1. AnyCommand \in Commands
        BY CommandsTyped DEF AnyCommand
    <2> QED BY <2>1, UnsaidTyped DEF Init, LocalOK, Stages, Actions
<1>5. TypeOK
    BY <1>1, <1>2, <1>3, <1>4, TypeParts
<1>6. Ages /\ Quiet /\ Standing /\ Asked /\ Themed
    BY DEF Init, Ages, Quiet, Standing, Asked, Themed, Idle
<1>7. EvidenceEarned /\ VerdictKept /\ ReplanIsNew
    BY DEF Init, EvidenceEarned, VerdictKept, ReplanIsNew
<1> QED BY <1>5, <1>6, <1>7 DEF IInv

LEMMA StutterIInv == IInv /\ UNCHANGED vars => IInv'
<1> SUFFICES ASSUME IInv, UNCHANGED vars PROVE IInv'
    OBVIOUS
<1> USE DEF vars, planning, learned, topology, world, tables, cold, locals
<1>1. TypeOK'
    BY DEF IInv, TypeOK
<1>2. Ages' /\ Quiet' /\ Asked' /\ Themed'
    BY DEF IInv, Ages, Quiet, Asked, Themed
<1>3. EvidenceEarned' /\ VerdictKept' /\ ReplanIsNew'
    BY DEF IInv, EvidenceEarned, VerdictKept, ReplanIsNew, Known
<1>4. Standing'
    BY DEF IInv, Standing, Lasting, Expired
<1> QED BY <1>1, <1>2, <1>3, <1>4 DEF IInv

LEMMA NextIInv == IInv /\ [Next]_vars => IInv'
<1> SUFFICES ASSUME IInv, Next PROVE IInv'
    BY StutterIInv
<1>1. /\ TypeOK /\ Ages /\ Quiet /\ Standing /\ Asked /\ Themed
      /\ EvidenceEarned /\ VerdictKept /\ ReplanIsNew
    BY DEF IInv
<1>2. ColdOK' /\ Asked'
    BY <1>1, ColdStep
<1>3. PlanOK' /\ LoreOK' /\ LocalOK'
    BY <1>1, PlanStep, LoreStep, LocalStep
<1>4. TypeOK'
    BY <1>2, <1>3 DEF TypeOK, PlanOK, LoreOK, ColdOK, LocalOK
<1>5. Ages' /\ Quiet' /\ Themed'
    BY <1>1, CommandStep
<1>6. EvidenceEarned' /\ ReplanIsNew'
    BY <1>1, EarnedStep, ReplanStep
<1>7. Standing' /\ VerdictKept'
    BY <1>1, VerdictStep
<1> QED BY <1>2, <1>4, <1>5, <1>6, <1>7 DEF IInv

LEMMA Invariance == Spec => []IInv
BY InitIInv, NextIInv, PTL DEF Spec

(* Every variable keeps its type, the goals that lines and the operator inject included,
   and a command that has decided on a full replan is never answered under a plan older
   than itself (steps 4 to 7 of HandleCommandEvent). *)
THEOREM PlansRenewed == Spec => []Inv
<1>1. IInv => Inv
    BY DEF IInv, Inv
<1> QED BY <1>1, Invariance, PTL

(* Evidence is in the file system only once the session has seen what it waits for,
   whichever of promotion, the local patch and the evidence agent put it there. *)
THEOREM EvidenceIsEarned == Spec => []EvidenceEarned
<1>1. IInv => EvidenceEarned
    BY DEF IInv
<1> QED BY <1>1, Invariance, PTL

(* What the executor finds invalid, for its age or for what a line reads, is not in force
   when the command plans and its agents work, whatever the router's decision was and
   whatever other connections did since, unless a plan was set (HandleCommandEvent). *)
THEOREM VerdictStands == Spec => []VerdictKept
<1>1. IInv => VerdictKept
    BY DEF IInv
<1> QED BY <1>1, Invariance, PTL
=============================================================================
