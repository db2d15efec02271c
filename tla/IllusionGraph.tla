--------------------------- MODULE IllusionGraph ---------------------------
(***************************************************************************)
(* The routed illusion graph (domain.VirtualTopology) together with every  *)
(* goroutine that writes it: command goroutines running the deterministic  *)
(* planner, goal injection and shadow expansion, the asynchronous LLM      *)
(* planner, SSH logins that activate edges, and session deletion.          *)
(*                                                                         *)
(* VirtualTopology's methods hold its mutex, so each is one step here; the *)
(* planners call many of them in a row without holding anything across the *)
(* calls, so a planner is a job that advances one call per step.           *)
(***************************************************************************)
EXTENDS Naturals, FiniteSets

CONSTANTS
    Sessions,       \* session identifiers (fresh uuids, never reused)
    Workers,        \* goroutines that may run a planner job
    SessionOf,      \* the session each goroutine works for
    IPs, CIDRs,     \* addresses and /24 networks of the illusion
    Nobody,         \* the empty OwnerSessionID of configured elements
    NoHost,         \* the nil *VirtualHost / the empty target IP
    BaseHosts,      \* configured hosts:    set of <<ip, cidr>>
    BaseSegments,   \* configured segments: set of cidr
    BaseEdges,      \* configured edges:    set of <<from, to>>
    RulePlans,      \* plans PlanFromDecision can return
    LLMPlans,       \* plans the LLM may answer with
    Expansions,     \* what ExpandShadowTopology appends, as plans
    SshHosts,       \* addresses whose host offers ssh and passes the visibility test
    Goals,          \* goals ParseGoal can return, with their hop chain
    Commands,       \* command texts, the key of the in-flight planner table
    JobLimit        \* bound: commands started in one behaviour

ASSUME OwnersDistinct == Nobody \notin Sessions
ASSUME WorkersTyped   == SessionOf \in [Workers -> Sessions]
ASSUME NoHostIsNoIP   == NoHost \notin IPs
ASSUME LimitIsNat     == JobLimit \in Nat

Plan == [segs  : SUBSET CIDRs,
         edges : SUBSET (IPs \X CIDRs),
         hosts : SUBSET (IPs \X CIDRs)]

Goal == [target : IPs \cup {NoHost}, lead : Plan, chain : Plan]

ASSUME PlansTyped == /\ RulePlans \cup LLMPlans \cup Expansions \subseteq Plan
                     /\ Goals \subseteq Goal
ASSUME BaseTyped  == /\ BaseHosts \subseteq IPs \X CIDRs
                     /\ BaseSegments \subseteq CIDRs
                     /\ BaseEdges \subseteq IPs \X CIDRs
                     /\ SshHosts \subseteq IPs
                     /\ \A a, b \in BaseHosts : a[1] = b[1] => a = b

\* The networks of hs are among nets.
Routed(hs, nets) == \A h \in hs : h[2] \in nets

\* Every host of the configuration, and of a plan the code makes by itself
\* (PlanFromDecision, themedHosts, goal leads), lies in a network that comes with it.
ASSUME NetworksGiven == /\ Routed(BaseHosts, BaseSegments)
                        /\ \A p \in RulePlans \cup Expansions : Routed(p.hosts, p.segs)
                        /\ \A g \in Goals : /\ Routed(g.lead.hosts, g.lead.segs)
                                            /\ Routed(g.chain.hosts, g.chain.segs)

NoPlan == [segs |-> {}, edges |-> {}, hosts |-> {}]

VARIABLES
    hosts,        \* t.hosts:    records [ip, cidr, owner, at]
    segments,     \* t.segments: records [cidr, zone, owner, at]
    edges,        \* t.edges:    records [from, to, owner, status, at]
    appends,      \* appends to each slice so far: `at` keeps the order of a slice
    registered,   \* keys of Manager.sessions
    gone,         \* sessions DeleteSession has removed
    raced,        \* auxiliary: deleted while one of their jobs was running
    jobs,         \* the planner job each worker is in
    inflight,     \* TopologyPlanner.inflight: <<session, command>>
    allowed,      \* SafetyPolicy.cidrs
    protected,    \* PlanningState.protectedTargets of each session
    listed,       \* how often each ip is in SessionContext.ShadowHosts
    pending,      \* TargetIP of SessionContext.PendingSSHAuth
    started       \* commands started so far, bounded by JobLimit

graph == <<hosts, segments, edges, appends>>
vars == <<hosts, segments, edges, appends, registered, gone, raced, jobs,
          inflight, allowed, protected, listed, pending, started>>

-----------------------------------------------------------------------------
(* The methods of VirtualTopology *)

SameOwnerRule(existing, owner) == existing = Nobody \/ owner = Nobody \/ existing = owner

\* Bug: only configured hosts count as taken.
HostTakenByBase(ip, owner) == \E h \in hosts : h.ip = ip /\ h.owner = Nobody

\* Bug: another session's host counts as taken.
HostTakenByAnyone(ip, owner) == \E h \in hosts : h.ip = ip

HostTaken(ip, owner) == \E h \in hosts : h.ip = ip /\ SameOwnerRule(h.owner, owner)

\* Bug: another session's segment counts as taken.
SegmentTakenByAnyone(cidr, owner) == \E g \in segments : g.cidr = cidr

SegmentTaken(cidr, owner) ==
    \E g \in segments : g.cidr = cidr /\ SameOwnerRule(g.owner, owner)

EdgeTaken(from, to, owner) ==
    \E e \in edges : e.from = from /\ e.to = to /\ SameOwnerRule(e.owner, owner)

AppendHost(ip, cidr, owner) ==
    IF HostTaken(ip, owner)
    THEN UNCHANGED <<hosts, appends>>
    ELSE /\ hosts' = hosts \cup
                {[ip |-> ip, cidr |-> cidr, owner |-> owner, at |-> appends.hosts]}
         /\ appends' = [appends EXCEPT !.hosts = @ + 1]

\* Bug: a segment takes the place of the one on the same network.
ReplaceSegment(cidr, zone, owner) ==
    /\ segments' = {g \in segments : g.cidr # cidr} \cup
          {[cidr |-> cidr, zone |-> zone, owner |-> owner, at |-> appends.segments]}
    /\ appends' = [appends EXCEPT !.segments = @ + 1]

AppendSegment(cidr, zone, owner) ==
    IF SegmentTaken(cidr, owner)
    THEN UNCHANGED <<segments, appends>>
    ELSE /\ segments' = segments \cup
                {[cidr |-> cidr, zone |-> zone, owner |-> owner, at |-> appends.segments]}
         /\ appends' = [appends EXCEPT !.segments = @ + 1]

AppendEdge(from, to, owner) ==
    IF EdgeTaken(from, to, owner)
    THEN UNCHANGED <<edges, appends>>
    ELSE /\ edges' = edges \cup {[from |-> from, to |-> to, owner |-> owner,
                                  status |-> "locked", at |-> appends.edges]}
         /\ appends' = [appends EXCEPT !.edges = @ + 1]

\* GetHost: is there a host at ip, whoever owns it?
HostKnown(ip) == \E h \in hosts : h.ip = ip

\* GetHostForSession: the first host the session owns, else a configured one.
HostForSession(ip, s) ==
    LET own == {h \in hosts : h.ip = ip /\ h.owner = s}
    IN IF own # {} THEN {h \in own : \A g \in own : h.at <= g.at}
       ELSE {h \in hosts : h.ip = ip /\ h.owner = Nobody}

\* Bug: every session's shadow elements are swept.
KeptConfigured(S, s) == {x \in S : x.owner = Nobody}

Kept(S, s) == {x \in S : x.owner # s}

\* Bug: the edges are forgotten.
RemoveHostsAndSegments(s) ==
    /\ hosts' = Kept(hosts, s)
    /\ segments' = Kept(segments, s)
    /\ UNCHANGED <<edges, appends>>

RemoveSessionArtifacts(s) ==
    /\ hosts' = Kept(hosts, s)
    /\ segments' = Kept(segments, s)
    /\ edges' = Kept(edges, s)
    /\ UNCHANGED appends

\* UpdateEdgeStatus stops at the first edge of the slice with this from and to.
FirstOfPair(e) ==
    \A f \in edges : f.from = e.from /\ f.to = e.to => f.at >= e.at

-----------------------------------------------------------------------------
(* Commands and planner jobs                                               *)
(*                                                                         *)
(* A command goroutine looks its session up once and then runs, in the     *)
(* order of ExecuteCommand, the jobs of its stages: 0 nothing yet, 1 goal  *)
(* injected, 2 planned, 3 and 4 after the PPF and dead-end expansions. An  *)
(* LLM goroutine runs the single job "llm".                                *)

Idle == [kind |-> "none", pc |-> "idle", stage |-> 0, cmd |-> NoHost,
         zone |-> "shadow", segs |-> {}, edges |-> {}, hosts |-> {},
         then |-> NoPlan, cur |-> <<NoHost, NoHost>>, want |-> {}, added |-> {}]

Ready(stage) == [Idle EXCEPT !.kind = "command", !.pc = "ready", !.stage = stage]

Load(j, p, zone) == [j EXCEPT !.segs = p.segs, !.edges = p.edges,
                              !.hosts = p.hosts, !.want = p.hosts, !.zone = zone]

Busy(w) == jobs[w].pc # "idle"

Step(w, j) == jobs' = [jobs EXCEPT ![w] = j]

\* Bug: a goroutine that fails before its plan is merged leaves its key behind.
DoneKeepingKey(w) ==
    IF jobs[w].kind = "llm"
    THEN /\ Step(w, Idle)
         /\ IF jobs[w].pc = "asking" THEN UNCHANGED inflight
            ELSE inflight' = inflight \ {<<SessionOf[w], jobs[w].cmd>>}
    ELSE /\ Step(w, Ready(jobs[w].stage))
         /\ UNCHANGED inflight

\* The last call of a job: a command goes on with its next stage, an LLM
\* goroutine clears its in-flight key and is gone.
Done(w) ==
    IF jobs[w].kind = "llm"
    THEN /\ Step(w, Idle)
         /\ inflight' = inflight \ {<<SessionOf[w], jobs[w].cmd>>}
    ELSE /\ Step(w, Ready(jobs[w].stage))
         /\ UNCHANGED inflight

\* ExecuteCommand and PlanTopology hold on to the session they looked up.
Lookup(w) ==
    /\ ~Busy(w)
    /\ SessionOf[w] \in registered
    /\ started < JobLimit
    /\ started' = started + 1
    /\ Step(w, Ready(0))
    /\ UNCHANGED <<graph, registered, gone, raced, inflight, allowed,
                   protected, listed, pending>>

Finish(w) ==
    /\ jobs[w].pc = "ready"
    /\ Step(w, Idle)
    /\ UNCHANGED <<graph, registered, gone, raced, inflight, allowed,
                   protected, listed, pending, started>>

Start(w, before, after, kind, pc, plans) ==
    /\ jobs[w].pc = "ready"
    /\ jobs[w].stage \in before
    /\ UNCHANGED <<graph, registered, gone, raced, inflight, allowed,
                   protected, listed, pending, started>>
    /\ \E p \in plans :
         Step(w, Load([Ready(after) EXCEPT !.kind = kind, !.pc = pc], p, "shadow"))

\* PlanDecision with a triggered decision: merge the deterministic plan.
StartRule(w) == Start(w, {0, 1}, 2, "rule", "filter", RulePlans)

\* PlanDecision without one: only the LLM planner is scheduled.
StartUntriggered(w) == Start(w, {0, 1}, 2, "rule", "schedule", {NoPlan})

\* PPF and dead-end expansion call ExpandShadowTopology, which validates nothing.
StartExpansion(w) == \/ Start(w, {0, 1, 2}, 3, "expand", "segs", Expansions)
                     \/ Start(w, {3}, 4, "expand", "segs", Expansions)

\* Bug: only the goal's own network is allowed, not those of its hops.
StartGoalLeadOnly(w) ==
    /\ jobs[w].pc = "ready"
    /\ jobs[w].stage = 0
    /\ \E g \in Goals :
         /\ protected' = protected
         /\ allowed' = allowed \cup g.lead.segs
         /\ Step(w, [Load([Ready(1) EXCEPT !.kind = "goal", !.pc = "segs"], g.lead, "goal")
                     EXCEPT !.then = g.chain])
    /\ UNCHANGED <<graph, registered, gone, raced, inflight, listed, pending, started>>

\* InjectGoalTopology: protect the exact target, allow every CIDR of the goal.
StartGoal(w) ==
    /\ jobs[w].pc = "ready"
    /\ jobs[w].stage = 0
    /\ \E g \in Goals :
         /\ protected' = IF g.target = NoHost THEN protected
                         ELSE [protected EXCEPT ![SessionOf[w]] = @ \cup {g.target}]
         /\ allowed' = allowed \cup g.lead.segs \cup g.chain.segs
         /\ Step(w, [Load([Ready(1) EXCEPT !.kind = "goal", !.pc = "segs"], g.lead, "goal")
                     EXCEPT !.then =
                        [g.chain EXCEPT !.hosts = {h \in @ : h[1] # g.target}]])
    /\ UNCHANGED <<graph, registered, gone, raced, inflight, listed, pending, started>>

\* filterProtectedTargets: a plan is refused only if every host is protected.
Unprotected(s, hs) == {h \in hs : h[1] \notin protected[s]}

ProtectedReject(s, j) == j.hosts # {} /\ Unprotected(s, j.hosts) = {}

LastZone(cidr) ==
    {g.zone : g \in {x \in segments : x.cidr = cidr /\
                        \A y \in segments : y.cidr = cidr => y.at <= x.at}}

Placed(j, hs) == {h[1] : h \in hs}

\* ValidateTopologyPlan on the filtered plan: the checks that read the graph.
ValidPlan(j, hs) ==
    /\ j.segs \cup j.edges \cup hs # {}
    /\ \A e \in j.edges : HostKnown(e[1]) \/ e[1] \in Placed(j, hs)
    /\ \A h \in hs : h[2] \in j.segs \/ (/\ \E g \in segments : g.cidr = h[2]
                                          /\ "goal" \notin LastZone(h[2]))

\* MergePlan up to the first append: filter, validate, or reject the plan.
Filter(w) ==
    LET j == jobs[w]
        s == SessionOf[w]
        hs == Unprotected(s, j.hosts)
    IN /\ j.pc = "filter"
       /\ IF ~ProtectedReject(s, j) /\ ValidPlan(j, hs)
          THEN /\ Step(w, [j EXCEPT !.pc = "segs", !.hosts = hs])
               /\ UNCHANGED inflight
          ELSE IF j.kind = "llm" THEN Done(w)
               ELSE /\ Step(w, [j EXCEPT !.pc = "schedule", !.segs = {},
                                         !.edges = {}, !.hosts = {}])
                    /\ UNCHANGED inflight
       /\ UNCHANGED <<graph, registered, gone, raced, allowed, protected,
                      listed, pending, started>>

MergeSegment(w) ==
    LET j == jobs[w] IN
    /\ j.pc = "segs"
    /\ \/ \E c \in j.segs :
            /\ AppendSegment(c, j.zone, SessionOf[w])
            /\ Step(w, [j EXCEPT !.segs = @ \ {c}])
       \/ /\ j.segs = {}
          /\ Step(w, [j EXCEPT !.pc = "edges"])
          /\ UNCHANGED <<segments, appends>>
    /\ UNCHANGED <<hosts, edges, registered, gone, raced, inflight, allowed,
                   protected, listed, pending, started>>

MergeEdge(w) ==
    LET j == jobs[w] IN
    /\ j.pc = "edges"
    /\ \/ \E e \in j.edges :
            /\ AppendEdge(e[1], e[2], SessionOf[w])
            /\ Step(w, [j EXCEPT !.edges = @ \ {e}])
       \/ /\ j.edges = {}
          /\ Step(w, [j EXCEPT !.pc = "hosts"])
          /\ UNCHANGED <<edges, appends>>
    /\ UNCHANGED <<hosts, segments, registered, gone, raced, inflight, allowed,
                   protected, listed, pending, started>>

\* Bug: the host to append is not carried over to the append.
CheckHostForgetting(w) ==
    LET j == jobs[w] IN
    /\ j.pc = "hosts"
    /\ \E h \in j.hosts :
         Step(w, [j EXCEPT !.hosts = @ \ {h},
                    !.pc = IF HostForSession(h[1], SessionOf[w]) # {} THEN @ ELSE "append"])
    /\ UNCHANGED <<graph, registered, gone, raced, inflight, allowed, protected,
                   listed, pending, started>>

\* GetHostForSession(host.IP, session) != nil: the host is skipped.
CheckHost(w) ==
    LET j == jobs[w] IN
    /\ j.pc = "hosts"
    /\ \E h \in j.hosts :
         Step(w, IF HostForSession(h[1], SessionOf[w]) # {}
                 THEN [j EXCEPT !.hosts = @ \ {h}]
                 ELSE [j EXCEPT !.hosts = @ \ {h}, !.cur = h, !.pc = "append"])
    /\ UNCHANGED <<graph, registered, gone, raced, inflight, allowed, protected,
                   listed, pending, started>>

\* AppendHost reports nothing: the host is held for added, whether or not it
\* was really appended.
MergeHost(w) ==
    LET j == jobs[w] IN
    /\ j.pc = "append"
    /\ AppendHost(j.cur[1], j.cur[2], SessionOf[w])
    /\ Step(w, [j EXCEPT !.pc = "list", !.added = @ \cup {j.cur}])
    /\ UNCHANGED <<segments, edges, registered, gone, raced, inflight, allowed,
                   protected, listed, pending, started>>

\* AddShadowHost, under the session's own lock.
ListHost(w) ==
    LET j == jobs[w]
        s == SessionOf[w]
    IN /\ j.pc = "list"
       /\ listed' = [listed EXCEPT ![s][j.cur[1]] = @ + 1]
       /\ Step(w, [j EXCEPT !.pc = "hosts", !.cur = Idle.cur])
       /\ UNCHANGED <<graph, registered, gone, raced, inflight, allowed,
                      protected, pending, started>>

\* The last host is done: a goal goes on with its chain, a rule job with the
\* LLM scheduling, an expansion with allowHostSegments; the others end here.
EndHosts(w) ==
    LET j == jobs[w] IN
    /\ j.pc = "hosts"
    /\ j.hosts = {}
    /\ CASE j.kind = "goal" /\ j.then # NoPlan ->
              /\ Step(w, [Load(j, j.then, "shadow") EXCEPT !.pc = "segs", !.then = NoPlan])
              /\ UNCHANGED inflight
         [] j.kind = "rule" -> Step(w, [j EXCEPT !.pc = "schedule"]) /\ UNCHANGED inflight
         [] j.kind = "expand" -> Step(w, [j EXCEPT !.pc = "allow"]) /\ UNCHANGED inflight
         [] OTHER -> Done(w)
    /\ UNCHANGED <<graph, registered, gone, raced, allowed, protected, listed, pending, started>>

\* scheduleLLMPlan: spawn a goroutine unless the same command is in flight.
Schedule(w) ==
    LET j == jobs[w]
        s == SessionOf[w]
        next == [j EXCEPT !.pc = "allow"]
    IN /\ j.pc = "schedule"
       /\ \/ Step(w, next) /\ UNCHANGED inflight
          \/ \E c \in Commands, v \in Workers \ {w} :
               /\ <<s, c>> \notin inflight
               /\ ~Busy(v) /\ SessionOf[v] = s
               /\ inflight' = inflight \cup {<<s, c>>}
               /\ jobs' = [jobs EXCEPT ![w] = next,
                             ![v] = [Idle EXCEPT !.kind = "llm", !.pc = "asking", !.cmd = c]]
       /\ UNCHANGED <<graph, registered, gone, raced, allowed, protected, listed, pending, started>>

\* The LLM answers with a plan, or the call fails or times out after 60 s.
Answer(w) ==
    LET j == jobs[w] IN
    /\ j.pc = "asking"
    /\ \/ /\ \E p \in LLMPlans : Step(w, [Load(j, p, "shadow") EXCEPT !.pc = "filter"])
          /\ UNCHANGED inflight
       \/ Done(w)
    /\ UNCHANGED <<graph, registered, gone, raced, allowed, protected, listed, pending, started>>

\* Manager.allowHostSegments on the hosts the command path reports as added.
AllowHostSegments(w) ==
    LET j == jobs[w] IN
    /\ j.pc = "allow"
    /\ allowed' = allowed \cup {h[2] : h \in j.added}
    /\ Done(w)
    /\ UNCHANGED <<graph, registered, gone, raced, protected, listed, pending, started>>

-----------------------------------------------------------------------------
(* Sessions *)

CreateSession(s) ==
    /\ s \notin registered \cup gone
    /\ registered' = registered \cup {s}
    /\ UNCHANGED <<graph, gone, raced, jobs, inflight, allowed, protected, listed, pending, started>>

DeleteSession(s) ==
    /\ s \in registered
    /\ registered' = registered \ {s}
    /\ gone' = gone \cup {s}
    /\ RemoveSessionArtifacts(s)
    /\ raced' = IF \E w \in Workers : SessionOf[w] = s /\ Busy(w)
                THEN raced \cup {s} ELSE raced
    /\ UNCHANGED <<jobs, inflight, allowed, protected, listed, pending, started>>

\* HandleSSHCommand prompts for a password whoever owns the host at ip.
Ssh(s, ip) ==
    /\ s \in registered
    /\ pending[s] = NoHost
    /\ ip \in SshHosts
    /\ HostKnown(ip)
    /\ pending' = [pending EXCEPT ![s] = ip]
    /\ UNCHANGED <<graph, registered, gone, raced, jobs, inflight, allowed,
                   protected, listed, started>>

\* The right password calls UpdateEdgeStatus for every edge GetEdgesFrom(ip)
\* returns, whoever owns it; the last wrong one only clears the prompt.
Login(s) ==
    /\ s \in registered
    /\ pending[s] # NoHost
    /\ edges' = {IF e.from = pending[s] /\ FirstOfPair(e)
                 THEN [e EXCEPT !.status = "active"] ELSE e : e \in edges}
    /\ pending' = [pending EXCEPT ![s] = NoHost]
    /\ UNCHANGED <<hosts, segments, appends, registered, gone, raced, jobs,
                   inflight, allowed, protected, listed, started>>

Denied(s) ==
    /\ s \in registered
    /\ pending[s] # NoHost
    /\ pending' = [pending EXCEPT ![s] = NoHost]
    /\ UNCHANGED <<graph, registered, gone, raced, jobs, inflight, allowed,
                   protected, listed, started>>

-----------------------------------------------------------------------------
Init ==
    /\ hosts = {[ip |-> h[1], cidr |-> h[2], owner |-> Nobody, at |-> 0] : h \in BaseHosts}
    /\ segments = {[cidr |-> c, zone |-> "internal", owner |-> Nobody, at |-> 0] :
                     c \in BaseSegments}
    /\ edges = {[from |-> e[1], to |-> e[2], owner |-> Nobody, status |-> "locked",
                 at |-> 0] : e \in BaseEdges}
    /\ appends = [hosts |-> 1, segments |-> 1, edges |-> 1]
    /\ registered = {} /\ gone = {} /\ raced = {}
    /\ jobs = [w \in Workers |-> Idle]
    /\ inflight = {}
    /\ allowed = BaseSegments
    /\ protected = [s \in Sessions |-> {}]
    /\ listed = [s \in Sessions |-> [ip \in IPs |-> 0]]
    /\ pending = [s \in Sessions |-> NoHost]
    /\ started = 0

WorkerStep(w) ==
    \/ Filter(w) \/ MergeSegment(w) \/ MergeEdge(w) \/ CheckHost(w)
    \/ MergeHost(w) \/ ListHost(w) \/ EndHosts(w) \/ Schedule(w) \/ Answer(w)
    \/ AllowHostSegments(w) \/ Finish(w)

WorkerStart(w) ==
    \/ Lookup(w) \/ StartRule(w) \/ StartUntriggered(w) \/ StartExpansion(w) \/ StartGoal(w)

Next ==
    \/ \E w \in Workers : WorkerStart(w) \/ WorkerStep(w)
    \/ \E s \in Sessions : CreateSession(s) \/ DeleteSession(s)
    \/ \E s \in Sessions : Login(s) \/ Denied(s) \/ \E ip \in IPs : Ssh(s, ip)

Spec == Init /\ [][Next]_vars

\* A goroutine that is running is scheduled, and the LLM call has a 60 s
\* timeout; nothing obliges an attacker to type or an operator to delete.
FairSpec == Spec /\ \A w \in Workers : WF_vars(WorkerStep(w))
-----------------------------------------------------------------------------
(* Properties *)

Owner == Sessions \cup {Nobody}

HostRec == [ip : IPs, cidr : CIDRs, owner : Owner, at : Nat]
SegmentRec == [cidr : CIDRs, zone : {"internal", "shadow", "goal"}, owner : Owner, at : Nat]
EdgeRec == [from : IPs, to : CIDRs, owner : Owner, status : {"locked", "active"}, at : Nat]

Job == [kind : {"none", "command", "rule", "goal", "expand", "llm"},
        pc : {"idle", "ready", "filter", "segs", "edges", "hosts", "append", "list",
              "schedule", "asking", "allow"},
        stage : 0..4, cmd : Commands \cup {NoHost}, zone : {"shadow", "goal"},
        segs : SUBSET CIDRs, edges : SUBSET (IPs \X CIDRs),
        hosts : SUBSET (IPs \X CIDRs), then : Plan,
        cur : (IPs \X CIDRs) \cup {<<NoHost, NoHost>>},
        want : SUBSET (IPs \X CIDRs), added : SUBSET (IPs \X CIDRs)]

\* The types of every variable, and: a job about to append or to list holds a real host.
TypeOK ==
    /\ hosts \subseteq HostRec
    /\ segments \subseteq SegmentRec
    /\ edges \subseteq EdgeRec
    /\ appends \in [hosts : Nat, segments : Nat, edges : Nat]
    /\ registered \subseteq Sessions /\ gone \subseteq Sessions /\ raced \subseteq gone
    /\ jobs \in [Workers -> Job]
    /\ \A w \in Workers : jobs[w].pc \in {"append", "list"} => jobs[w].cur \in IPs \X CIDRs
    /\ inflight \subseteq Sessions \X Commands
    /\ allowed \subseteq CIDRs
    /\ protected \in [Sessions -> SUBSET IPs]
    /\ listed \in [Sessions -> [IPs -> Nat]]
    /\ pending \in [Sessions -> IPs \cup {NoHost}]
    /\ started \in Nat

(* Two hosts at one address belong to two different sessions: the planners
   look a host up and append it in two locked calls, so only the test that
   AppendHost repeats under its own lock keeps a session's lookup, which takes
   the first match, and a configured host from being shadowed. *)
NoShadowing ==
    \A g, h \in hosts : g.ip = h.ip /\ SameOwnerRule(g.owner, h.owner) => g = h

(* What an address resolves to for a session (GetHostForSession) never changes
   once it resolves, whatever the other sessions and the asynchronous planner
   append or delete, unless that very session is the one being removed. *)
ResolutionStable ==
    [][\A s \in Sessions, ip \in IPs :
          HostForSession(ip, s) # {} /\ ~(s \in registered /\ s \in gone')
             => HostForSession(ip, s)' = HostForSession(ip, s)]_vars

(* DeleteSession takes away only what its session owns, and no step other than
   a deletion takes a host, segment or edge away (edges may change status). *)
RemovalIsOwned ==
    [][LET leaving == registered \ registered' IN
       /\ \A h \in hosts \ hosts' : h.owner \in leaving
       /\ \A g \in segments \ segments' : g.owner \in leaving
       /\ \A e \in edges : e.owner \in leaving \/
             \E f \in edges' : [f EXCEPT !.status = e.status] = e]_vars

(* An element of the graph whose session is gone was left there by a planner
   job that was still running when DeleteSession removed its artifacts: a
   deletion at rest removes everything. *)
OrphansComeFromRaces ==
    \A x \in hosts \cup segments \cup edges : x.owner \in registered \cup raced \cup {Nobody}

(* The session's own list of shadow hosts, appended to in a call of its own
   after AppendHost, never names an address its lookup cannot resolve. *)
ListedHostsResolve ==
    \A s \in registered, ip \in IPs : listed[s][ip] > 0 => HostForSession(ip, s) # {}

(* A host's network has a segment that its owner, or everybody, can see:
   without it routes and scans of a live host's subnet answer "unreachable". *)
HostsHaveSegments ==
    \A h \in hosts : h.owner \in registered =>
        \E g \in segments : g.cidr = h.cidr /\ g.owner \in {h.owner, Nobody}

(* When no command is running, every network the deterministic paths put a
   host in has been given to the safety policy, even where two of them raced
   for a host and only one reported it as added. *)
NetworksAllowedAtRest ==
    (\A w \in Workers : ~Busy(w)) => \A h \in hosts : h.cidr \in allowed

(* Every command a worker has started, and every LLM goroutine, comes to its
   end, and a command in flight may be planned again: whatever plan is rejected,
   empty or refused on the way (scheduleLLMPlan and its deferred delete). *)
JobsEnd ==
    /\ \A w \in Workers : Busy(w) ~> ~Busy(w)
    /\ \A k \in Sessions \X Commands : k \in inflight ~> k \notin inflight

-----------------------------------------------------------------------------
(* Statements of the repository's tests and comments that do not hold *)

(* manager.go:858-892: the clue files name, by position in the list of hosts
   an expansion has just added, every host the expansion's theme has. *)
CluesNameEveryHost ==
    \A w \in Workers :
        jobs[w].kind = "expand" /\ jobs[w].pc = "allow" /\ jobs[w].added # {}
            => jobs[w].added = jobs[w].want
=============================================================================
