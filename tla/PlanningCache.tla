---------------------------- MODULE PlanningCache ----------------------------
(***************************************************************************)
(* domain.PlanningState of one session and everything that reads or writes *)
(* it: the commands of the session's connections (Manager.ExecuteCommand,  *)
(* AgentOrchestrator.HandleCommandEvent) and the goroutines that wait for  *)
(* the LLM (the topology planner's and the rule engine's).                 *)
(*                                                                         *)
(* What answers are computed from (files, graph, registered facts) is one  *)
(* counter, content, raised by every change to any of it.  WorldVersion and *)
(* ExposedFactVersion, which guard the response cache, are raised in calls *)
(* of their own, some before, some after the change, and by some changes   *)
(* not at all.  They only grow and are only compared with those stored with *)
(* an answer, so what is kept is whether the two are still the same.       *)
(* PlanningState's methods hold its mutex and are one step each; an index  *)
(* into the command log is read in the step that uses it.                  *)
(***************************************************************************)
EXTENDS Integers, Sequences, FiniteSets

CONSTANTS
    Conns,          \* connections and requests of the session
    Jobs,           \* goroutines that wait for the LLM
    Commands,       \* command lines
    Cacheable,      \* those responseCacheKey makes a key for
    Writes,         \* those detectWriteTarget finds a target in
    Blocked,        \* those with a target outside the safety policy
    Breaking,       \* those the router may take for a plan break or goal shift
    Goals,          \* those ParseGoal finds a goal in
    Planned,        \* those the router may have planned
    Reasons,        \* Reasons[c]: invalidators the text of c sets off
    Plans,          \* plan ids (TopologyPlan.Reason, which fixes phase and policy)
    InvalidatorsOf, \* Invalidators of each plan
    Uncached,       \* plans whose CachePolicy.ResponseCacheable is false
    TTL,            \* PlanTTLCommands
    GoalWindow,     \* goals are looked for in this many commands (5)
    CacheLimit,     \* the size past which the cache is emptied (128)
    Hosts, Entry,   \* hosts to log in to, and the entry host
    Account,        \* the user and home directory of each host
    NoPlan, NoHost, NoKey,
    MaxCommands, MaxChanges, MaxDepth   \* bounds

AllHosts == Hosts \cup {Entry}
Procs == Conns \cup Jobs
TextReasons == {"critical_evidence_read", "safety_block"}

ASSUME CommandSets == /\ Commands # {}
                      /\ Cacheable \subseteq Commands /\ Writes \subseteq Commands
                      /\ Cacheable \cap Writes = {}
                      /\ Reasons \in [Commands -> SUBSET TextReasons]
ASSUME PlansTyped  == /\ NoPlan \notin Plans
                      /\ InvalidatorsOf \in
                           [Plans -> SUBSET (TextReasons \cup {"plan_ttl", "nested_shell"})]
ASSUME LimitsTyped == /\ TTL \in Nat \ {0} /\ CacheLimit \in Nat /\ GoalWindow \in Nat
                      /\ MaxCommands \in Nat /\ MaxChanges \in Nat /\ MaxDepth \in Nat
ASSUME ProcsTyped  == Conns \cap Jobs = {} /\ IsFiniteSet(Conns)

VARIABLES
    content,    \* changes so far to what answers are computed from
    announced,  \* auxiliary: the changes that the versions have been raised for
    cache,      \* responseCache: each answer with its key, whether its versions
                \* are current, and the host and content it was computed from
    active,     \* ActivePlanID
    started,    \* ActivePlanStartedAtCommand
    cacheable,  \* ResponseCacheable
    candidates, \* how many candidate files wait for their evidence
    log,        \* len(CommandLog)
    at,         \* SubnetLocalIP, with World, User and CWD: the current host
    target,     \* CurrentTarget
    stack,      \* SSHStack: the hosts below the current one
    pc,         \* what each connection and goroutine is doing
    cmd,        \* the command of each connection
    home,       \* the host whose World its command took hold of
    key,        \* the key of its answer in the cache, or NoKey
    level,      \* what content its answer was computed from
    raced,      \* auxiliary: a version was raised behind that answer's back
    plan        \* the plan that each planner has merged

AnyCommand == CHOOSE x \in Commands : TRUE

versions == <<announced, cache, raced>>
activePlan == <<active, started, cacheable>>
where == <<at, target, stack>>
local == <<cmd, home, key, level, plan>>
vars == <<content, versions, activePlan, candidates, log, where, pc, local>>

Goto(p, label) == pc' = [pc EXCEPT ![p] = label]

-----------------------------------------------------------------------------
(* PlanningState *)

\* Every answer that waits to be stored has been overtaken, except p's own.
Overtaken(p) == [c \in Conns |-> raced[c] \/ (pc[c] = "store" /\ c # p)]

Outdated == {[e EXCEPT !.current = FALSE] : e \in cache}

\* BumpWorldVersion and BumpExposedFactVersion, for the changes up to n.
Bump(p, n) ==
    /\ cache' = Outdated
    /\ announced' = n
    /\ raced' = Overtaken(p)

InvalidateActivePlan(p) ==
    /\ announced' = content
    /\ raced' = Overtaken(p)
    /\ cache' = {}
    /\ active' = NoPlan
    /\ started' = 0
    /\ cacheable' = TRUE

SetActivePlanMetadata(id) ==
    /\ active' = id
    /\ started' = IF active # id \/ started = 0 THEN log ELSE started
    /\ cacheable' = (id \notin Uncached)

\* Bug: a plan is given one command more than its policy says.
ExpiredLate == log + 1 - started > TTL

Expired == log + 1 - started >= TTL

\* What, of the things that may invalidate a plan, is the case for command c.
Present(c) == Reasons[c] \cup (IF Expired THEN {"plan_ttl"} ELSE {})
                         \cup (IF stack # <<>> THEN {"nested_shell"} ELSE {})

EvaluateActivePlan(c) == active # NoPlan /\ InvalidatorsOf[active] \cap Present(c) # {}

-----------------------------------------------------------------------------
(* Commands, stage by stage *)

\* A blocked command invalidates the plan and is logged; nothing else is done.
Type(c, x) ==
    /\ pc[c] = "ready"
    /\ log + Cardinality({d \in Conns : pc[d] # "ready"}) < MaxCommands
    /\ cmd' = [cmd EXCEPT ![c] = x]
    /\ home' = [home EXCEPT ![c] = at]
    /\ IF x \in Blocked
       THEN InvalidateActivePlan(c) /\ Goto(c, "logging")
       ELSE Goto(c, "goal") /\ UNCHANGED <<versions, activePlan>>
    /\ UNCHANGED <<content, candidates, log, where, key, level, plan>>

\* InjectGoalTopology, for a goal that adds something; then its version.
InjectGoal(c) ==
    /\ pc[c] = "goal" /\ cmd[c] \in Goals /\ log < GoalWindow /\ content < MaxChanges
    /\ content' = content + 1
    /\ Goto(c, "goal made")
    /\ UNCHANGED <<versions, activePlan, candidates, log, where, local>>

AnnounceGoal(c) ==
    /\ pc[c] = "goal made"
    /\ Bump(c, content)
    /\ Goto(c, "goal told")
    /\ UNCHANGED <<content, activePlan, candidates, log, where, local>>

\* PromoteCandidateFiles raises both versions for each file that has become
\* visible, before any of the files is there.
Promote(c) ==
    /\ pc[c] \in {"goal", "goal told"}
    /\ \E n \in 0..candidates :
         /\ candidates' = candidates - n
         /\ IF n = 0 THEN Goto(c, "route") /\ UNCHANGED versions
                     ELSE Goto(c, "promoted") /\ Bump(c, content)
    /\ UNCHANGED <<content, activePlan, log, where, local>>

\* writeFileMutation for the promoted files.
PlaceFiles(c) ==
    /\ pc[c] = "promoted"
    /\ content' = content + 1
    /\ announced' = content + 1
    /\ raced' = Overtaken(c)
    /\ Goto(c, "route")
    /\ UNCHANGED <<cache, activePlan, candidates, log, where, local>>

\* BuildRuntimeDecision on the router's result: keep the plan or replan.
Decide(c) ==
    /\ pc[c] = "route"
    /\ \/ EvaluateActivePlan(cmd[c]) /\ Goto(c, "replan")
       \/ cmd[c] \in Breaking /\ Goto(c, "replan")
       \/ ~EvaluateActivePlan(cmd[c]) /\ Goto(c, "decided")
    /\ UNCHANGED <<content, versions, activePlan, candidates, log, where, local>>

Replan(c) ==
    /\ pc[c] = "replan"
    /\ InvalidateActivePlan(c)
    /\ Goto(c, "decided")
    /\ UNCHANGED <<content, candidates, log, where, local>>

\* MergePlan of a plan that adds hosts, by a command or by the LLM planner.
MergePlan(p) ==
    /\ \/ p \in Conns /\ pc[p] = "decided" /\ cmd[p] \in Planned
       \/ p \in Jobs /\ pc[p] = "planning"
    /\ content < MaxChanges
    /\ content' = content + 1
    /\ \E id \in Plans : plan' = [plan EXCEPT ![p] = id]
    /\ Goto(p, "merged")
    /\ UNCHANGED <<versions, activePlan, candidates, log, where, cmd, home, key, level>>

AnnouncePlan(p) ==
    /\ pc[p] = "merged"
    /\ Bump(p, content)
    /\ Goto(p, "told")
    /\ UNCHANGED <<content, activePlan, candidates, log, where, local>>

ActivatePlan(p) ==
    /\ pc[p] = "told"
    /\ SetActivePlanMetadata(plan[p])
    /\ plan' = [plan EXCEPT ![p] = NoPlan]
    /\ Goto(p, IF p \in Jobs THEN "idle" ELSE "planned")
    /\ UNCHANGED <<content, versions, candidates, log, where, cmd, home, key, level>>

\* scheduleLLMPlan
Schedule(c, j) ==
    /\ pc[c] \in {"decided", "planned"} /\ pc[j] = "idle"
    /\ pc' = [pc EXCEPT ![c] = "agents", ![j] = "planning"]
    /\ UNCHANGED <<content, versions, activePlan, candidates, log, where, local>>

\* applyWorldPatch: a file that is visible now, then its version; a candidate
\* file, which has none; a persona or profile, which raises it at once.
AtAgents(c) == pc[c] \in {"decided", "planned", "agents"}

AddFile(c) ==
    /\ AtAgents(c) /\ content < MaxChanges
    /\ content' = content + 1
    /\ Goto(c, "added")
    /\ UNCHANGED <<versions, activePlan, candidates, log, where, local>>

AnnounceFile(c) ==
    /\ pc[c] = "added"
    /\ Bump(c, content)
    /\ Goto(c, "agents")
    /\ UNCHANGED <<content, activePlan, candidates, log, where, local>>

StoreCandidateFile(c) ==
    /\ AtAgents(c) /\ candidates + content < MaxChanges
    /\ candidates' = candidates + 1
    /\ Goto(c, "agents")
    /\ UNCHANGED <<content, versions, activePlan, log, where, local>>

StoreFact(c) ==
    /\ AtAgents(c) /\ content < MaxChanges
    /\ content' = content + 1
    /\ Bump(c, content + 1)
    /\ Goto(c, "agents")
    /\ UNCHANGED <<activePlan, candidates, log, where, local>>

\* triggerPPFIfReady adds hosts and raises no version.
TriggerPPF(c) ==
    /\ AtAgents(c) /\ content < MaxChanges
    /\ content' = content + 1
    /\ Goto(c, "expanded")
    /\ UNCHANGED <<versions, activePlan, candidates, log, where, local>>

-----------------------------------------------------------------------------
(* Answers *)

\* Bug: writing commands are taken for cacheable ones.
KeyForAll(c) == [account |-> Account[at], target |-> target, plan |-> active, cmd |-> cmd[c]]

ResponseCacheKey(c) ==
    IF cmd[c] \in Cacheable
    THEN [account |-> Account[at], target |-> target, plan |-> active, cmd |-> cmd[c]]
    ELSE NoKey

MakeKey(c) ==
    /\ AtAgents(c) \/ pc[c] = "expanded"
    /\ key' = [key EXCEPT ![c] = ResponseCacheKey(c)]
    /\ Goto(c, IF ResponseCacheKey(c) = NoKey THEN "answer" ELSE "lookup")
    /\ UNCHANGED <<content, versions, activePlan, candidates, log, where, cmd, home,
                   level, plan>>

Found(c) == {e \in cache : e.key = key[c] /\ e.current /\ cacheable}

Hit(c) ==
    /\ pc[c] = "lookup" /\ Found(c) # {}
    /\ Goto(c, "answered")
    /\ UNCHANGED <<content, versions, activePlan, candidates, log, where, local>>

\* No usable answer, or an empty one, which counts as none.
Miss(c) ==
    /\ pc[c] = "lookup"
    /\ Goto(c, "answer")
    /\ UNCHANGED <<content, versions, activePlan, candidates, log, where, local>>

\* HandleCommand: carries out the command's own write, computes the answer and
\* may leave a goroutine behind that asks the LLM for a better one.  An answer
\* the guard replaces raises the version of the exposed facts.
HandleCommand(c) ==
    LET seen == IF cmd[c] \in Writes THEN content + 1 ELSE content
        overtaken == \E d \in Conns \ {c} : pc[d] = "promoted"
    IN /\ pc[c] = "answer"
       /\ content' = seen
       /\ level' = [level EXCEPT ![c] = seen]
       /\ \/ UNCHANGED <<announced, cache>> /\ raced' = [raced EXCEPT ![c] = overtaken]
          \/ /\ announced' = seen /\ cache' = Outdated
             /\ raced' = [Overtaken(c) EXCEPT ![c] = overtaken]
       /\ \/ Goto(c, "store")
          \/ \E j \in Jobs : /\ pc[j] = "idle"
                             /\ pc' = [pc EXCEPT ![c] = "store", ![j] = "answering"]
       /\ UNCHANGED <<activePlan, candidates, log, where, cmd, home, key, plan>>

AnswerOf(c) == [key |-> key[c], current |-> TRUE, level |-> level[c], host |-> home[c],
                raced |-> raced[c]]

StoreResponse(c) ==
    /\ pc[c] = "store"
    /\ cache' = IF key[c] = NoKey \/ ~cacheable THEN cache
                ELSE {e \in cache : Cardinality(cache) <= CacheLimit /\ e.key # key[c]}
                       \cup {AnswerOf(c)}
    /\ level' = [level EXCEPT ![c] = 0]
    /\ raced' = [raced EXCEPT ![c] = FALSE]
    /\ Goto(c, IF cmd[c] \in Writes THEN "written" ELSE "answered")
    /\ UNCHANGED <<content, announced, activePlan, candidates, log, where, cmd, home, key, plan>>

\* Bug: a write does not raise the version.
ForgetWrite(c) ==
    /\ pc[c] = "written"
    /\ announced' = content
    /\ Goto(c, "answered")
    /\ UNCHANGED <<content, cache, raced, activePlan, candidates, log, where, local>>

AnnounceWrite(c) ==
    /\ pc[c] = "written"
    /\ Bump(c, content)
    /\ Goto(c, "answered")
    /\ UNCHANGED <<content, activePlan, candidates, log, where, local>>

\* The second PPF test, dead-end expansion and clue files raise no version.
Enrich(c) ==
    /\ pc[c] = "answered" /\ content < MaxChanges
    /\ content' = content + 1
    /\ Goto(c, "logging")
    /\ UNCHANGED <<versions, activePlan, candidates, log, where, local>>

AppendCommand(c) ==
    /\ pc[c] \in {"answered", "logging"}
    /\ log' = log + 1
    /\ Goto(c, "ready")
    /\ cmd' = [cmd EXCEPT ![c] = AnyCommand]
    /\ home' = [home EXCEPT ![c] = Entry]
    /\ key' = [key EXCEPT ![c] = NoKey]
    /\ UNCHANGED <<content, versions, activePlan, candidates, where, level, plan>>

-----------------------------------------------------------------------------
(* The goroutine of handleComplexAsync, and goroutines whose call fails *)

RenderAnswer(j) ==
    /\ pc[j] = "answering" /\ content < MaxChanges
    /\ content' = content + 1
    /\ Goto(j, "rendered")
    /\ UNCHANGED <<versions, activePlan, candidates, log, where, local>>

AnnounceAnswer(j) ==
    /\ pc[j] = "rendered"
    /\ Bump(j, content)
    /\ Goto(j, "idle")
    /\ UNCHANGED <<content, activePlan, candidates, log, where, local>>

GiveUp(j) ==
    /\ pc[j] \in {"planning", "answering"}
    /\ Goto(j, "idle")
    /\ UNCHANGED <<content, versions, activePlan, candidates, log, where, local>>

-----------------------------------------------------------------------------
(* Logins and logouts (in detail in NestedShell) *)

Login(c, h) ==
    /\ pc[c] = "ready" /\ Len(stack) < MaxDepth
    /\ stack' = Append(stack, at)
    /\ at' = h
    /\ target' = h
    /\ UNCHANGED <<content, versions, activePlan, candidates, log, pc, local>>

Logout(c) ==
    LET n == Len(stack) IN
    /\ pc[c] = "ready" /\ n > 0
    /\ at' = stack[n]
    /\ stack' = SubSeq(stack, 1, n - 1)
    /\ target' = IF n = 1 THEN NoHost ELSE target
    /\ UNCHANGED <<content, versions, activePlan, candidates, log, pc, local>>

Reconnect(c) ==
    /\ pc[c] = "ready" /\ stack # <<>>
    /\ at' = stack[1]
    /\ stack' = <<>>
    /\ target' = NoHost
    /\ UNCHANGED <<content, versions, activePlan, candidates, log, pc, local>>

-----------------------------------------------------------------------------
Init ==
    /\ content = 0 /\ announced = 0 /\ cache = {}
    /\ active = NoPlan /\ started = 0 /\ cacheable = TRUE
    /\ candidates = 0 /\ log = 0
    /\ at = Entry /\ target = NoHost /\ stack = <<>>
    /\ pc = [p \in Procs |-> IF p \in Jobs THEN "idle" ELSE "ready"]
    /\ cmd = [c \in Conns |-> AnyCommand]
    /\ home = [c \in Conns |-> Entry]
    /\ key = [c \in Conns |-> NoKey]
    /\ level = [c \in Conns |-> 0]
    /\ raced = [c \in Conns |-> FALSE]
    /\ plan = [p \in Procs |-> NoPlan]

ConnStep(c) ==
    \/ \E x \in Commands : Type(c, x)
    \/ InjectGoal(c) \/ AnnounceGoal(c) \/ Promote(c) \/ PlaceFiles(c)
    \/ Decide(c) \/ Replan(c) \/ \E j \in Jobs : Schedule(c, j)
    \/ AddFile(c) \/ AnnounceFile(c) \/ StoreCandidateFile(c) \/ StoreFact(c) \/ TriggerPPF(c)
    \/ MakeKey(c) \/ Hit(c) \/ Miss(c) \/ HandleCommand(c) \/ StoreResponse(c)
    \/ AnnounceWrite(c) \/ Enrich(c) \/ AppendCommand(c)
    \/ \E h \in Hosts : Login(c, h)
    \/ Logout(c) \/ Reconnect(c)

PlannerStep(p) == MergePlan(p) \/ AnnouncePlan(p) \/ ActivatePlan(p)

JobStep(j) == RenderAnswer(j) \/ AnnounceAnswer(j) \/ GiveUp(j)

Next == \/ \E c \in Conns : ConnStep(c)
        \/ \E p \in Procs : PlannerStep(p)
        \/ \E j \in Jobs : JobStep(j)

Spec == Init /\ [][Next]_vars
-----------------------------------------------------------------------------
(* Properties *)

Keys == [account : {Account[h] : h \in AllHosts}, target : AllHosts \cup {NoHost},
         plan : Plans \cup {NoPlan}, cmd : Cacheable]

Answer == [key : Keys, current : BOOLEAN, level : Nat, host : AllHosts, raced : BOOLEAN]

Labels == {"idle", "ready", "goal", "goal made", "goal told", "promoted", "route", "replan",
           "decided", "merged", "told", "planned", "agents", "added", "expanded", "lookup",
           "answer", "store", "written", "answered", "logging", "planning", "answering",
           "rendered"}

TypeOK ==
    /\ content \in Nat /\ announced \in Nat /\ cache \subseteq Answer
    /\ active \in Plans \cup {NoPlan} /\ started \in Nat /\ cacheable \in BOOLEAN
    /\ candidates \in Nat /\ log \in Nat
    /\ at \in AllHosts /\ target \in AllHosts \cup {NoHost} /\ stack \in Seq(AllHosts)
    /\ pc \in [Procs -> Labels]
    /\ cmd \in [Conns -> Commands] /\ home \in [Conns -> AllHosts]
    /\ key \in [Conns -> Keys \cup {NoKey}] /\ level \in [Conns -> Nat]
    /\ raced \in [Conns -> BOOLEAN]
    /\ plan \in [Procs -> Plans \cup {NoPlan}]

(* A cached answer that can still be served has seen every change the versions
   were raised for (models.go:460-477) and every promoted file that is there,
   unless it was overtaken: a version was raised, or a promoted file put in
   place, between its computation and its storing, which tags it with the
   versions of then (manager.go:264-267). *)
StaleOnlyFromRaces ==
    \A e \in cache : e.current /\ ~e.raced => e.level >= announced

(* A plan with a lifetime (models.go:417) is invalidated by the command that
   reaches it (runtime.go:67); commands that passed that test before may still
   be under way, one for each connection, and each may renew it. *)
PlanLifeBounded ==
    active # NoPlan /\ "plan_ttl" \in InvalidatorsOf[active] =>
        log - started <= (IF TTL > 2 THEN TTL - 2 ELSE 0) + Cardinality(Conns)
=============================================================================
