------------------------ MODULE IllusionGraph_proofs ------------------------
(***************************************************************************)
(* Theorems about IllusionGraph that hold for every number of sessions,    *)
(* goroutines, addresses and plans.                                        *)
(***************************************************************************)
EXTENDS IllusionGraph, TLAPS

-----------------------------------------------------------------------------
(* Type correctness *)

JobsTyped ==
    /\ jobs \in [Workers -> Job]
    /\ \A v \in Workers : jobs[v].pc \in {"append", "list"} => jobs[v].cur \in IPs \X CIDRs

LEMMA InitTypeOK == Init => TypeOK
BY OwnersDistinct, WorkersTyped, LimitIsNat, PlansTyped, BaseTyped
DEF Init, TypeOK, HostRec, SegmentRec, EdgeRec, Owner, Idle, Job, NoPlan, Plan

LEMMA JobStep ==
    ASSUME TypeOK, NEW w \in Workers, NEW jb \in Job, Step(w, jb),
           jb.pc \in {"append", "list"} => jb.cur \in IPs \X CIDRs
    PROVE  JobsTyped'
BY DEF TypeOK, Step, JobsTyped

LEMMA IdleTyped ==
    /\ Idle \in Job
    /\ \A st \in 0..4 : Ready(st) \in Job /\ Ready(st).pc = "ready"
<1>1. NoPlan \in Plan
  BY DEF NoPlan, Plan
<1>2. Idle \in Job
  BY <1>1 DEF Idle, Job
<1>3. ASSUME NEW st \in 0..4
      PROVE  Ready(st) \in Job /\ Ready(st).pc = "ready"
  BY <1>2, <1>3 DEF Ready, Job
<1> QED
  BY <1>2, <1>3

LEMMA DoneTyped ==
    ASSUME TypeOK, NEW w \in Workers, Done(w)
    PROVE  /\ JobsTyped'
           /\ inflight' \subseteq Sessions \X Commands
<1>1. jobs[w] \in Job /\ jobs[w].stage \in 0..4
  BY DEF TypeOK, Job
<1>2. CASE jobs[w].kind = "llm"
  <2>1. Step(w, Idle) /\ inflight' \subseteq inflight
    BY <1>2 DEF Done
  <2> QED
    BY <2>1, IdleTyped, JobStep DEF Idle, TypeOK
<1>3. CASE jobs[w].kind # "llm"
  <2>1. Step(w, Ready(jobs[w].stage)) /\ inflight' = inflight
    BY <1>3 DEF Done
  <2> QED
    BY <1>1, <2>1, IdleTyped, JobStep DEF TypeOK
<1> QED
  BY <1>2, <1>3

LEMMA RetagTyped ==
    ASSUME NEW jb \in Job, NEW kind \in {"rule", "goal", "expand", "llm"},
           NEW pc \in {"filter", "segs", "schedule"}
    PROVE  /\ [jb EXCEPT !.kind = kind, !.pc = pc] \in Job
           /\ [jb EXCEPT !.kind = kind, !.pc = pc].pc = pc
BY ZenonT(40) DEF Job

LEMMA LoadTyped ==
    ASSUME NEW j \in Job, NEW p \in Plan, NEW zone \in {"shadow", "goal"}
    PROVE  Load(j, p, zone) \in Job /\ Load(j, p, zone).pc = j.pc
BY ZenonT(40) DEF Load, Job, Plan

LEMMA StartTyped ==
    ASSUME TypeOK, NEW w \in Workers, NEW before, NEW after \in 0..4,
           NEW kind \in {"rule", "expand"}, NEW pc \in {"filter", "segs", "schedule"},
           NEW plans \in SUBSET Plan, Start(w, before, after, kind, pc, plans)
    PROVE  TypeOK'
<1>1. PICK p \in plans :
         Step(w, Load([Ready(after) EXCEPT !.kind = kind, !.pc = pc], p, "shadow"))
  BY DEF Start
<1>2. [Ready(after) EXCEPT !.kind = kind, !.pc = pc] \in Job
      /\ [Ready(after) EXCEPT !.kind = kind, !.pc = pc].pc = pc
  <2> DEFINE r == Ready(after)
  <2>1. r \in Job
    BY IdleTyped
  <2> HIDE DEF r
  <2>2. [r EXCEPT !.kind = kind, !.pc = pc] \in Job
        /\ [r EXCEPT !.kind = kind, !.pc = pc].pc = pc
    BY <2>1, ZenonT(40) DEF Job
  <2> QED
    BY <2>2 DEF r
<1>3. JobsTyped'
  BY <1>1, <1>2, LoadTyped, JobStep
<1> QED
  BY <1>3 DEF Start, TypeOK, graph, JobsTyped

LEMMA WorkerStartTyped ==
    ASSUME TypeOK, NEW w \in Workers, WorkerStart(w)
    PROVE  TypeOK'
<1>1. CASE Lookup(w)
  <2>1. Step(w, Ready(0))
    BY <1>1 DEF Lookup
  <2>2. JobsTyped'
    BY <2>1, IdleTyped, JobStep
  <2>3. started' \in Nat
    BY <1>1 DEF Lookup, TypeOK
  <2> QED
    <3>1. UNCHANGED <<hosts, segments, edges, appends, registered, gone, raced,
                      inflight, allowed, protected, listed, pending>>
      BY <1>1 DEF Lookup, graph
    <3> QED
      BY <2>2, <2>3, <3>1 DEF TypeOK, JobsTyped
<1>2. CASE StartRule(w) \/ StartUntriggered(w) \/ StartExpansion(w)
  <2>1. NoPlan \in Plan
    BY DEF NoPlan, Plan
  <2>2. CASE StartRule(w)
    BY <2>2, PlansTyped, StartTyped, RulePlans \in SUBSET Plan, 2 \in 0..4 DEF StartRule
  <2>3. CASE StartUntriggered(w)
    BY <2>1, <2>3, StartTyped, {NoPlan} \in SUBSET Plan, 2 \in 0..4 DEF StartUntriggered
  <2>4. CASE StartExpansion(w)
    BY <2>4, PlansTyped, StartTyped, Expansions \in SUBSET Plan, 3 \in 0..4, 4 \in 0..4
    DEF StartExpansion
  <2> QED
    BY <1>2, <2>2, <2>3, <2>4
<1>3. CASE StartGoal(w)
  <2>1. PICK g \in Goals :
          /\ protected' = IF g.target = NoHost THEN protected
                          ELSE [protected EXCEPT ![SessionOf[w]] = @ \cup {g.target}]
          /\ allowed' = allowed \cup g.lead.segs \cup g.chain.segs
          /\ Step(w, [Load([Ready(1) EXCEPT !.kind = "goal", !.pc = "segs"], g.lead, "goal")
                      EXCEPT !.then =
                         [g.chain EXCEPT !.hosts = {h \in @ : h[1] # g.target}]])
    BY <1>3 DEF StartGoal
  <2>2. g.target \in IPs \cup {NoHost} /\ g.lead \in Plan /\ g.chain \in Plan
    BY PlansTyped DEF Goal
  <2>3. [Ready(1) EXCEPT !.kind = "goal", !.pc = "segs"] \in Job
        /\ [Ready(1) EXCEPT !.kind = "goal", !.pc = "segs"].pc = "segs"
    <3>1. Ready(1) \in Job
      BY IdleTyped
    <3> QED
      BY <3>1, RetagTyped
  <2>4. Load([Ready(1) EXCEPT !.kind = "goal", !.pc = "segs"], g.lead, "goal") \in Job
        /\ Load([Ready(1) EXCEPT !.kind = "goal", !.pc = "segs"], g.lead, "goal").pc = "segs"
    BY <2>2, <2>3, LoadTyped
  <2>5. [g.chain EXCEPT !.hosts = {h \in @ : h[1] # g.target}] \in Plan
    BY <2>2 DEF Plan
  <2>6. JobsTyped'
    <3> DEFINE jb == [Load([Ready(1) EXCEPT !.kind = "goal", !.pc = "segs"], g.lead, "goal")
                      EXCEPT !.then = [g.chain EXCEPT !.hosts = {h \in @ : h[1] # g.target}]]
    <3>1. jb \in Job /\ jb.pc = "segs"
      BY <2>4, <2>5 DEF Job
    <3>2. Step(w, jb)
      BY <2>1
    <3> HIDE DEF jb
    <3> QED
      BY <3>1, <3>2, JobStep
  <2>7. protected' \in [Sessions -> SUBSET IPs]
    BY <2>1, <2>2, WorkersTyped DEF TypeOK
  <2>8. allowed' \subseteq CIDRs
    BY <2>1, <2>2 DEF TypeOK, Plan
  <2> QED
    BY <1>3, <2>6, <2>7, <2>8 DEF StartGoal, TypeOK, graph, JobsTyped
<1> QED
  BY <1>1, <1>2, <1>3 DEF WorkerStart

LEMMA FilterTyped ==
    ASSUME TypeOK, NEW w \in Workers, Filter(w)
    PROVE  TypeOK'
<1> DEFINE jb == jobs[w]
           hs == Unprotected(SessionOf[w], jb.hosts)
<1>1. jb \in Job
  BY DEF TypeOK
<1>2. hs \subseteq IPs \X CIDRs
  BY <1>1 DEF Unprotected, Job
<1>3. JobsTyped' /\ inflight' \subseteq Sessions \X Commands
  <2>1. CASE Step(w, [jb EXCEPT !.pc = "segs", !.hosts = hs]) /\ UNCHANGED inflight
    <3>1. [jb EXCEPT !.pc = "segs", !.hosts = hs] \in Job
          /\ [jb EXCEPT !.pc = "segs", !.hosts = hs].pc = "segs"
      <4> HIDE DEF jb, hs
      <4> QED
        BY <1>1, <1>2 DEF Job
    <3> QED
      BY <2>1, <3>1, JobStep DEF TypeOK
  <2>2. CASE Done(w)
    BY <2>2, DoneTyped
  <2>3. CASE Step(w, [jb EXCEPT !.pc = "schedule", !.segs = {}, !.edges = {}, !.hosts = {}])
             /\ UNCHANGED inflight
    <3>1. [jb EXCEPT !.pc = "schedule", !.segs = {}, !.edges = {}, !.hosts = {}] \in Job
          /\ [jb EXCEPT !.pc = "schedule", !.segs = {}, !.edges = {}, !.hosts = {}].pc
                = "schedule"
      <4> HIDE DEF jb
      <4> QED
        BY <1>1 DEF Job
    <3> QED
      BY <2>3, <3>1, JobStep DEF TypeOK
  <2> QED
    BY <2>1, <2>2, <2>3 DEF Filter
<1>4. UNCHANGED <<hosts, segments, edges, appends, registered, gone, raced, allowed,
                  protected, listed, pending, started>>
  BY DEF Filter, graph
<1> QED
  BY <1>3, <1>4 DEF TypeOK, JobsTyped

LEMMA MergeSegmentTyped ==
    ASSUME TypeOK, NEW w \in Workers, MergeSegment(w)
    PROVE  TypeOK'
<1> DEFINE jb == jobs[w]
<1>1. jb \in Job /\ SessionOf[w] \in Owner
  BY WorkersTyped DEF TypeOK, Owner
<1>2. JobsTyped' /\ segments' \subseteq SegmentRec
      /\ appends' \in [hosts : Nat, segments : Nat, edges : Nat]
  <2>1. ASSUME NEW c \in jb.segs, AppendSegment(c, jb.zone, SessionOf[w]),
               Step(w, [jb EXCEPT !.segs = @ \ {c}]), jb.pc = "segs"
        PROVE  JobsTyped' /\ segments' \subseteq SegmentRec
               /\ appends' \in [hosts : Nat, segments : Nat, edges : Nat]
    <3>1. [jb EXCEPT !.segs = @ \ {c}] \in Job
          /\ [jb EXCEPT !.segs = @ \ {c}].pc = "segs" /\ c \in CIDRs
          /\ jb.zone \in {"shadow", "goal"}
      <4> HIDE DEF jb
      <4> QED
        BY <1>1, <2>1 DEF Job
    <3>2. JobsTyped'
      BY <2>1, <3>1, JobStep
    <3> HIDE DEF jb
    <3> QED
      BY <1>1, <2>1, <3>1, <3>2 DEF TypeOK, AppendSegment, SegmentRec
  <2>2. CASE /\ Step(w, [jb EXCEPT !.pc = "edges"])
             /\ UNCHANGED <<segments, appends>>
    <3>1. [jb EXCEPT !.pc = "edges"] \in Job /\ [jb EXCEPT !.pc = "edges"].pc = "edges"
      <4> HIDE DEF jb
      <4> QED
        BY <1>1 DEF Job
    <3> QED
      BY <2>2, <3>1, JobStep DEF TypeOK
  <2> QED
    BY <2>1, <2>2 DEF MergeSegment
<1>3. UNCHANGED <<hosts, edges, registered, gone, raced, inflight, allowed,
                  protected, listed, pending, started>>
  BY DEF MergeSegment
<1> QED
  BY <1>2, <1>3 DEF TypeOK, JobsTyped

LEMMA MergeEdgeTyped ==
    ASSUME TypeOK, NEW w \in Workers, MergeEdge(w)
    PROVE  TypeOK'
<1> DEFINE jb == jobs[w]
<1>1. jb \in Job /\ SessionOf[w] \in Owner
  BY WorkersTyped DEF TypeOK, Owner
<1>2. JobsTyped' /\ edges' \subseteq EdgeRec
      /\ appends' \in [hosts : Nat, segments : Nat, edges : Nat]
  <2>1. ASSUME NEW e \in jb.edges, AppendEdge(e[1], e[2], SessionOf[w]),
               Step(w, [jb EXCEPT !.edges = @ \ {e}]), jb.pc = "edges"
        PROVE  JobsTyped' /\ edges' \subseteq EdgeRec
               /\ appends' \in [hosts : Nat, segments : Nat, edges : Nat]
    <3>1. [jb EXCEPT !.edges = @ \ {e}] \in Job
          /\ [jb EXCEPT !.edges = @ \ {e}].pc = "edges" /\ e \in IPs \X CIDRs
      <4> HIDE DEF jb
      <4> QED
        BY <1>1, <2>1 DEF Job
    <3>2. JobsTyped'
      BY <2>1, <3>1, JobStep
    <3> HIDE DEF jb
    <3> QED
      BY <1>1, <2>1, <3>1, <3>2 DEF TypeOK, AppendEdge, EdgeRec
  <2>2. CASE /\ Step(w, [jb EXCEPT !.pc = "hosts"])
             /\ UNCHANGED <<edges, appends>>
    <3>1. [jb EXCEPT !.pc = "hosts"] \in Job /\ [jb EXCEPT !.pc = "hosts"].pc = "hosts"
      <4> HIDE DEF jb
      <4> QED
        BY <1>1 DEF Job
    <3> QED
      BY <2>2, <3>1, JobStep DEF TypeOK
  <2> QED
    BY <2>1, <2>2 DEF MergeEdge
<1>3. UNCHANGED <<hosts, segments, registered, gone, raced, inflight, allowed,
                  protected, listed, pending, started>>
  BY DEF MergeEdge
<1> QED
  BY <1>2, <1>3 DEF TypeOK, JobsTyped

LEMMA CheckHostTyped ==
    ASSUME TypeOK, NEW w \in Workers, CheckHost(w)
    PROVE  TypeOK'
<1> DEFINE jb == jobs[w]
<1>1. jb \in Job
  BY DEF TypeOK
<1>2. JobsTyped'
  <2>1. PICK h \in jb.hosts :
          Step(w, IF HostForSession(h[1], SessionOf[w]) # {}
                  THEN [jb EXCEPT !.hosts = @ \ {h}]
                  ELSE [jb EXCEPT !.hosts = @ \ {h}, !.cur = h, !.pc = "append"])
    BY DEF CheckHost
  <2>2. jb.pc = "hosts"
    BY DEF CheckHost
  <2> HIDE DEF jb
  <2>3. h \in IPs \X CIDRs
    BY <1>1 DEF Job
  <2>4. [jb EXCEPT !.hosts = @ \ {h}] \in Job /\ [jb EXCEPT !.hosts = @ \ {h}].pc = "hosts"
    BY <1>1, <2>2 DEF Job
  <2>5. [jb EXCEPT !.hosts = @ \ {h}, !.cur = h, !.pc = "append"] \in Job
        /\ [jb EXCEPT !.hosts = @ \ {h}, !.cur = h, !.pc = "append"].cur = h
    BY <1>1, <2>3, ZenonT(40) DEF Job
  <2>6. CASE Step(w, [jb EXCEPT !.hosts = @ \ {h}])
    BY <2>4, <2>6, JobStep
  <2>7. CASE Step(w, [jb EXCEPT !.hosts = @ \ {h}, !.cur = h, !.pc = "append"])
    BY <2>3, <2>5, <2>7, JobStep
  <2> QED
    BY <2>1, <2>6, <2>7
<1>3. UNCHANGED <<hosts, segments, edges, appends, registered, gone, raced, inflight,
                  allowed, protected, listed, pending, started>>
  BY DEF CheckHost, graph
<1> QED
  BY <1>2, <1>3 DEF TypeOK, JobsTyped

LEMMA MergeHostTyped ==
    ASSUME TypeOK, NEW w \in Workers, MergeHost(w)
    PROVE  TypeOK'
<1> DEFINE jb == jobs[w]
           s == SessionOf[w]
<1>1. jb \in Job /\ jb.pc = "append" /\ jb.cur \in IPs \X CIDRs
  BY DEF TypeOK, MergeHost
<1>2. s \in Sessions /\ s \in Owner
  BY WorkersTyped DEF Owner
<1>3. /\ AppendHost(jb.cur[1], jb.cur[2], s)
      /\ Step(w, [jb EXCEPT !.pc = "list", !.added = @ \cup {jb.cur}])
      /\ UNCHANGED <<segments, edges, registered, gone, raced, inflight, allowed,
                     protected, listed, pending, started>>
  BY DEF MergeHost
<1> HIDE DEF jb, s
<1>4. /\ [jb EXCEPT !.pc = "list", !.added = @ \cup {jb.cur}] \in Job
      /\ [jb EXCEPT !.pc = "list", !.added = @ \cup {jb.cur}].cur = jb.cur
  BY <1>1, ZenonT(40) DEF Job
<1>5. JobsTyped'
  BY <1>1, <1>3, <1>4, JobStep
<1>6. hosts' \subseteq HostRec /\ appends' \in [hosts : Nat, segments : Nat, edges : Nat]
  BY <1>1, <1>2, <1>3 DEF TypeOK, AppendHost, HostRec
<1> QED
  BY <1>3, <1>5, <1>6 DEF TypeOK, JobsTyped

LEMMA ListHostTyped ==
    ASSUME TypeOK, NEW w \in Workers, ListHost(w)
    PROVE  TypeOK'
<1> DEFINE jb == jobs[w]
           s == SessionOf[w]
<1>1. jb \in Job /\ jb.pc = "list" /\ jb.cur \in IPs \X CIDRs /\ s \in Sessions
  BY WorkersTyped DEF TypeOK, ListHost
<1>2. /\ listed' = [listed EXCEPT ![s][jb.cur[1]] = @ + 1]
      /\ Step(w, [jb EXCEPT !.pc = "hosts", !.cur = Idle.cur])
      /\ UNCHANGED <<hosts, segments, edges, appends, registered, gone, raced, inflight,
                     allowed, protected, pending, started>>
  BY DEF ListHost, graph
<1> HIDE DEF jb, s
<1>3. /\ [jb EXCEPT !.pc = "hosts", !.cur = Idle.cur] \in Job
      /\ [jb EXCEPT !.pc = "hosts", !.cur = Idle.cur].pc = "hosts"
  <2>1. Idle.cur = <<NoHost, NoHost>>
    BY DEF Idle
  <2> QED
    BY <1>1, <2>1 DEF Job
<1>4. JobsTyped'
  BY <1>2, <1>3, JobStep
<1>5. listed' \in [Sessions -> [IPs -> Nat]]
  BY <1>1, <1>2 DEF TypeOK
<1> QED
  BY <1>2, <1>4, <1>5 DEF TypeOK, JobsTyped

LEMMA EndHostsTyped ==
    ASSUME TypeOK, NEW w \in Workers, EndHosts(w)
    PROVE  TypeOK'
<1> DEFINE jb == jobs[w]
<1>1. jb \in Job
  BY DEF TypeOK
<1>2. JobsTyped' /\ inflight' \subseteq Sessions \X Commands
  <2>1. CASE /\ Step(w, [Load(jb, jb.then, "shadow") EXCEPT !.pc = "segs", !.then = NoPlan])
             /\ UNCHANGED inflight
    <3> DEFINE ld == Load(jb, jb.then, "shadow")
    <3>1. ld \in Job /\ NoPlan \in Plan
      <4>1. jb.then \in Plan
        BY <1>1 DEF Job
      <4> QED
        BY <1>1, <4>1, LoadTyped DEF NoPlan, Plan
    <3> HIDE DEF ld
    <3>2. [ld EXCEPT !.pc = "segs", !.then = NoPlan] \in Job
          /\ [ld EXCEPT !.pc = "segs", !.then = NoPlan].pc = "segs"
      BY <3>1 DEF Job
    <3>3. Step(w, [ld EXCEPT !.pc = "segs", !.then = NoPlan])
      BY <2>1 DEF ld
    <3> QED
      BY <2>1, <3>2, <3>3, JobStep DEF TypeOK
  <2>2. ASSUME NEW pc \in {"schedule", "allow"}, Step(w, [jb EXCEPT !.pc = pc]),
               UNCHANGED inflight
        PROVE  JobsTyped' /\ inflight' \subseteq Sessions \X Commands
    <3>1. [jb EXCEPT !.pc = pc] \in Job /\ [jb EXCEPT !.pc = pc].pc = pc
      <4> HIDE DEF jb
      <4> QED
        BY <1>1 DEF Job
    <3> QED
      BY <2>2, <3>1, JobStep DEF TypeOK
  <2>3. CASE Done(w)
    BY <2>3, DoneTyped
  <2> QED
    BY <2>1, <2>2, <2>3 DEF EndHosts
<1>3. UNCHANGED <<hosts, segments, edges, appends, registered, gone, raced, allowed,
                  protected, listed, pending, started>>
  BY DEF EndHosts, graph
<1> QED
  BY <1>2, <1>3 DEF TypeOK, JobsTyped

LEMMA ScheduleTyped ==
    ASSUME TypeOK, NEW w \in Workers, Schedule(w)
    PROVE  TypeOK'
<1> DEFINE nx == [jobs[w] EXCEPT !.pc = "allow"]
<1>1. nx \in Job /\ nx.pc = "allow"
  <2> DEFINE jb == jobs[w]
  <2>1. jb \in Job
    BY DEF TypeOK
  <2> HIDE DEF jb
  <2>2. [jb EXCEPT !.pc = "allow"] \in Job /\ [jb EXCEPT !.pc = "allow"].pc = "allow"
    BY <2>1 DEF Job
  <2> QED
    BY <2>2 DEF jb
<1>2. JobsTyped' /\ inflight' \subseteq Sessions \X Commands
  <2>1. CASE Step(w, nx) /\ UNCHANGED inflight
    <3> HIDE DEF nx
    <3> QED
      BY <1>1, <2>1, JobStep DEF TypeOK
  <2>2. ASSUME NEW c \in Commands, NEW v \in Workers \ {w},
               inflight' = inflight \cup {<<SessionOf[w], c>>},
               jobs' = [jobs EXCEPT ![w] = nx,
                          ![v] = [Idle EXCEPT !.kind = "llm", !.pc = "asking", !.cmd = c]]
        PROVE  JobsTyped' /\ inflight' \subseteq Sessions \X Commands
    <3> DEFINE ask == [Idle EXCEPT !.kind = "llm", !.pc = "asking", !.cmd = c]
    <3>1. ask \in Job /\ ask.pc = "asking"
      BY IdleTyped, ZenonT(40) DEF Job
    <3> HIDE DEF nx, ask
    <3>2. jobs' = [jobs EXCEPT ![w] = nx, ![v] = ask]
      BY <2>2 DEF ask
    <3>3. JobsTyped'
      BY <1>1, <3>1, <3>2 DEF TypeOK, JobsTyped
    <3>4. SessionOf[w] \in Sessions
      BY WorkersTyped
    <3>5. inflight' \subseteq Sessions \X Commands
      BY <2>2, <3>4 DEF TypeOK
    <3> QED
      BY <3>3, <3>5
  <2> QED
    BY <2>1, <2>2 DEF Schedule
<1>3. UNCHANGED <<hosts, segments, edges, appends, registered, gone, raced, allowed,
                  protected, listed, pending, started>>
  BY DEF Schedule, graph
<1> QED
  BY <1>2, <1>3 DEF TypeOK, JobsTyped

LEMMA AnswerTyped ==
    ASSUME TypeOK, NEW w \in Workers, Answer(w)
    PROVE  TypeOK'
<1> DEFINE jb == jobs[w]
<1>1. jb \in Job
  BY DEF TypeOK
<1>2. JobsTyped' /\ inflight' \subseteq Sessions \X Commands
  <2>1. ASSUME NEW p \in LLMPlans, UNCHANGED inflight,
               Step(w, [Load(jb, p, "shadow") EXCEPT !.pc = "filter"])
        PROVE  JobsTyped' /\ inflight' \subseteq Sessions \X Commands
    <3> DEFINE ld == Load(jb, p, "shadow")
    <3>1. ld \in Job
      BY <1>1, PlansTyped, LoadTyped
    <3> HIDE DEF ld
    <3>2. [ld EXCEPT !.pc = "filter"] \in Job /\ [ld EXCEPT !.pc = "filter"].pc = "filter"
      BY <3>1 DEF Job
    <3>3. Step(w, [ld EXCEPT !.pc = "filter"])
      BY <2>1 DEF ld
    <3> QED
      BY <2>1, <3>2, <3>3, JobStep DEF TypeOK
  <2>2. CASE Done(w)
    BY <2>2, DoneTyped
  <2> QED
    BY <2>1, <2>2 DEF Answer
<1>3. UNCHANGED <<hosts, segments, edges, appends, registered, gone, raced, allowed,
                  protected, listed, pending, started>>
  BY DEF Answer, graph
<1> QED
  BY <1>2, <1>3 DEF TypeOK, JobsTyped

LEMMA WorkerStepTyped ==
    ASSUME TypeOK, NEW w \in Workers, WorkerStep(w)
    PROVE  TypeOK'
<1>1. CASE AllowHostSegments(w)
  <2>1. allowed' \subseteq CIDRs
    <3>1. jobs[w].added \subseteq IPs \X CIDRs
      BY DEF TypeOK, Job
    <3> QED
      BY <1>1, <3>1 DEF AllowHostSegments, TypeOK
  <2>2. JobsTyped' /\ inflight' \subseteq Sessions \X Commands
    BY <1>1, DoneTyped DEF AllowHostSegments
  <2> QED
    BY <1>1, <2>1, <2>2 DEF AllowHostSegments, TypeOK, JobsTyped, graph
<1>2. CASE Finish(w)
  <2>1. JobsTyped'
    BY <1>2, IdleTyped, JobStep DEF Finish, Idle
  <2>2. UNCHANGED <<hosts, segments, edges, appends, registered, gone, raced, inflight,
                    allowed, protected, listed, pending, started>>
    BY <1>2 DEF Finish, graph
  <2> QED
    BY <2>1, <2>2 DEF TypeOK, JobsTyped
<1> QED
  BY <1>1, <1>2, FilterTyped, MergeSegmentTyped, MergeEdgeTyped, CheckHostTyped,
     MergeHostTyped, ListHostTyped, EndHostsTyped, ScheduleTyped, AnswerTyped DEF WorkerStep

LEMMA SessionStepTyped ==
    ASSUME TypeOK, NEW s \in Sessions,
           \/ CreateSession(s) \/ DeleteSession(s) \/ Login(s) \/ Denied(s)
           \/ \E ip \in IPs : Ssh(s, ip)
    PROVE  TypeOK'
<1>1. CASE CreateSession(s)
  BY <1>1 DEF CreateSession, TypeOK, graph
<1>2. CASE DeleteSession(s)
  BY <1>2 DEF DeleteSession, RemoveSessionArtifacts, Kept, TypeOK
<1>3. CASE Login(s)
  <2>1. edges' \subseteq EdgeRec
    BY <1>3, ZenonT(40) DEF Login, TypeOK, EdgeRec
  <2> QED
    BY <1>3, <2>1 DEF Login, TypeOK
<1>4. CASE Denied(s)
  BY <1>4 DEF Denied, TypeOK, graph
<1>5. CASE \E ip \in IPs : Ssh(s, ip)
  BY <1>5 DEF Ssh, TypeOK, graph
<1> QED
  BY <1>1, <1>2, <1>3, <1>4, <1>5

LEMMA StepTyped == TypeOK /\ [Next]_vars => TypeOK'
<1> SUFFICES ASSUME TypeOK, [Next]_vars
             PROVE  TypeOK'
  OBVIOUS
<1>1. CASE UNCHANGED vars
  BY <1>1 DEF vars, TypeOK
<1>2. CASE Next
  BY <1>2, WorkerStartTyped, WorkerStepTyped, SessionStepTyped DEF Next
<1> QED
  BY <1>1, <1>2

(* Every variable keeps its type, and a job between its lookup and its append
   always holds a real host, whatever plans, goals and sessions there are. *)
THEOREM TypeCorrect == Spec => []TypeOK
BY InitTypeOK, StepTyped, PTL DEF Spec

-----------------------------------------------------------------------------
(* What a step can do to the host list                                     *)
(*                                                                         *)
(* Only AppendHost and DeleteSession touch it: everything about addresses  *)
(* follows from these two.                                                 *)

LEMMA WorkerHosts ==
    ASSUME NEW w \in Workers, WorkerStart(w) \/ WorkerStep(w)
    PROVE  \/ UNCHANGED hosts
           \/ /\ MergeHost(w)
              /\ AppendHost(jobs[w].cur[1], jobs[w].cur[2], SessionOf[w])
BY DEF WorkerStart, Lookup, StartRule, StartUntriggered, StartExpansion, Start, StartGoal,
       WorkerStep, Filter, MergeSegment, MergeEdge, CheckHost, MergeHost, ListHost,
       EndHosts, Schedule, Answer, AllowHostSegments, Finish, graph

LEMMA HostSteps ==
    ASSUME [Next]_vars
    PROVE  \/ UNCHANGED hosts
           \/ \E w \in Workers : AppendHost(jobs[w].cur[1], jobs[w].cur[2], SessionOf[w])
           \/ \E s \in Sessions : DeleteSession(s)
<1>1. CASE UNCHANGED vars
  BY <1>1 DEF vars
<1>2. ASSUME NEW w \in Workers, WorkerStart(w) \/ WorkerStep(w)
      PROVE  \/ UNCHANGED hosts
             \/ AppendHost(jobs[w].cur[1], jobs[w].cur[2], SessionOf[w])
  BY <1>2, WorkerHosts
<1>3. ASSUME NEW s \in Sessions,
             CreateSession(s) \/ Login(s) \/ Denied(s) \/ \E ip \in IPs : Ssh(s, ip)
      PROVE  UNCHANGED hosts
  BY <1>3 DEF CreateSession, Login, Denied, Ssh, graph
<1> QED
  BY <1>1, <1>2, <1>3 DEF Next

(* AppendHost's own test, made under the lock, is enough for NoShadowing: it
   does not matter what another goroutine appended since the lookup. *)
LEMMA AppendKeepsUnique ==
    ASSUME NoShadowing, NEW ip, NEW cidr, NEW owner, AppendHost(ip, cidr, owner)
    PROVE  NoShadowing'
BY DEF NoShadowing, AppendHost, HostTaken, SameOwnerRule

LEMMA UniqueStep == NoShadowing /\ [Next]_vars => NoShadowing'
<1> SUFFICES ASSUME NoShadowing, [Next]_vars
             PROVE  NoShadowing'
  OBVIOUS
<1>1. CASE UNCHANGED hosts
  BY <1>1 DEF NoShadowing
<1>2. CASE \E w \in Workers : AppendHost(jobs[w].cur[1], jobs[w].cur[2], SessionOf[w])
  BY <1>2, AppendKeepsUnique
<1>3. CASE \E s \in Sessions : DeleteSession(s)
  BY <1>3 DEF NoShadowing, DeleteSession, RemoveSessionArtifacts, Kept
<1> QED
  BY <1>1, <1>2, <1>3, HostSteps

(* For any number of sessions and racing planners, two hosts at one address
   belong to two different sessions. *)
THEOREM HostsUnique == Spec => []NoShadowing
<1>1. Init => NoShadowing
  BY BaseTyped DEF Init, NoShadowing, SameOwnerRule
<1> QED
  BY <1>1, UniqueStep, PTL DEF Spec

-----------------------------------------------------------------------------
(* The lookup of a session is stable *)

LEMMA AppendKeepsLookup ==
    ASSUME NEW ip, NEW cidr, NEW owner \in Sessions, AppendHost(ip, cidr, owner),
           NEW s \in Sessions, NEW a, HostForSession(a, s) # {}
    PROVE  HostForSession(a, s)' = HostForSession(a, s)
<1>1. CASE HostTaken(ip, owner)
  BY <1>1 DEF AppendHost, HostForSession
<1>2. CASE ~HostTaken(ip, owner)
  <2> DEFINE new == [ip |-> ip, cidr |-> cidr, owner |-> owner, at |-> appends.hosts]
  <2>1. hosts' = hosts \cup {new} /\ new.ip = ip /\ new.owner = owner
    BY <1>2 DEF AppendHost
  <2>2. \A h \in hosts : h.ip = ip => h.owner # Nobody /\ h.owner # owner
    BY <1>2 DEF HostTaken, SameOwnerRule
  <2> HIDE DEF new
  <2>3. owner # Nobody
    BY OwnersDistinct
  <2>4. ~(new.ip = a /\ new.owner = s)
    BY <2>1, <2>2 DEF HostForSession
  <2>5. {h \in hosts' : h.ip = a /\ h.owner = s} = {h \in hosts : h.ip = a /\ h.owner = s}
    BY <2>1, <2>4
  <2>6. {h \in hosts' : h.ip = a /\ h.owner = Nobody}
          = {h \in hosts : h.ip = a /\ h.owner = Nobody}
    BY <2>1, <2>3
  <2> QED
    BY <2>5, <2>6 DEF HostForSession
<1> QED
  BY <1>1, <1>2

LEMMA LookupStep ==
    ASSUME [Next]_vars, NEW s \in Sessions, NEW ip, HostForSession(ip, s) # {},
           ~DeleteSession(s)
    PROVE  HostForSession(ip, s)' = HostForSession(ip, s)
<1>1. CASE UNCHANGED hosts
  BY <1>1 DEF HostForSession
<1>2. CASE \E w \in Workers : AppendHost(jobs[w].cur[1], jobs[w].cur[2], SessionOf[w])
  BY <1>2, AppendKeepsLookup, WorkersTyped
<1>3. ASSUME NEW t \in Sessions, DeleteSession(t)
      PROVE  HostForSession(ip, s)' = HostForSession(ip, s)
  <2>1. t # s /\ t # Nobody /\ hosts' = {h \in hosts : h.owner # t}
    BY <1>3, OwnersDistinct DEF DeleteSession, RemoveSessionArtifacts, Kept
  <2>2. {h \in hosts' : h.ip = ip /\ h.owner = s} = {h \in hosts : h.ip = ip /\ h.owner = s}
    BY <2>1
  <2>3. {h \in hosts' : h.ip = ip /\ h.owner = Nobody}
          = {h \in hosts : h.ip = ip /\ h.owner = Nobody}
    BY <2>1
  <2> QED
    BY <2>2, <2>3 DEF HostForSession
<1> QED
  BY <1>1, <1>2, <1>3, HostSteps

(* Whatever other sessions and the asynchronous planner do, an address a
   session can resolve keeps resolving to the same host for that session until
   that session itself is deleted. *)
THEOREM LookupStable == Spec => ResolutionStable
<1> DEFINE Stable == \A s \in Sessions, ip \in IPs :
               HostForSession(ip, s) # {} /\ ~(s \in registered /\ s \in gone')
                  => HostForSession(ip, s)' = HostForSession(ip, s)
<1>1. \A s \in Sessions : DeleteSession(s) => s \in registered /\ s \in gone'
  BY DEF DeleteSession
<1>2. [Next]_vars => [Stable]_vars
  BY <1>1, LookupStep
<1> QED
  BY <1>2, PTL DEF Spec, ResolutionStable

-----------------------------------------------------------------------------
(* Orphans                                                                 *)
(*                                                                         *)
(* Inductive as soon as one adds that a running job belongs to a session   *)
(* that is registered or was deleted under it: that is what makes the      *)
(* owner of whatever the job appends registered or raced.                  *)

Elements == hosts \cup segments \cup edges

JobsOwned == \A w \in Workers : Busy(w) => SessionOf[w] \in registered \cup raced

OrphanInv == OrphansComeFromRaces /\ JobsOwned

LEMMA BusyKept ==
    ASSUME NEW w \in Workers, WorkerStart(w) \/ WorkerStep(w)
    PROVE  /\ UNCHANGED <<registered, raced, gone>>
           /\ \/ /\ Lookup(w)
                 /\ SessionOf[w] \in registered
              \/ Busy(w)
BY DEF WorkerStart, Lookup, StartRule, StartUntriggered, StartExpansion, Start, StartGoal,
       WorkerStep, Filter, MergeSegment, MergeEdge, CheckHost, MergeHost, ListHost,
       EndHosts, Schedule, Answer, AllowHostSegments, Finish, graph, Busy

LEMMA OthersIdle ==
    ASSUME TypeOK, NEW w \in Workers, WorkerStart(w) \/ WorkerStep(w),
           NEW v \in Workers, v # w, ~Busy(v)
    PROVE  \/ ~Busy(v)'
           \/ SessionOf[v] = SessionOf[w] /\ Busy(w)
<1>1. CASE Schedule(w)
  BY <1>1 DEF Schedule, Step, Busy, TypeOK
<1>2. ASSUME NEW jb, Step(w, jb)
      PROVE  ~Busy(v)'
  BY <1>2 DEF Step, Busy, TypeOK
<1>3. CASE WorkerStart(w)
  BY <1>2, <1>3 DEF WorkerStart, Lookup, StartRule, StartUntriggered, StartExpansion,
     Start, StartGoal
<1>4. ASSUME Done(w)
      PROVE  ~Busy(v)'
  BY <1>2, <1>4 DEF Done
<1>5. CASE Filter(w) \/ MergeSegment(w) \/ MergeEdge(w) \/ CheckHost(w) \/ MergeHost(w)
  BY <1>2, <1>4, <1>5 DEF Filter, MergeSegment, MergeEdge, CheckHost, MergeHost
<1>6. CASE ListHost(w) \/ EndHosts(w) \/ Answer(w) \/ AllowHostSegments(w) \/ Finish(w)
  BY <1>2, <1>4, <1>6 DEF ListHost, EndHosts, Answer, AllowHostSegments, Finish
<1> QED
  BY <1>1, <1>3, <1>5, <1>6 DEF WorkerStep

LEMMA WorkerElements ==
    ASSUME NEW w \in Workers, WorkerStart(w) \/ WorkerStep(w)
    PROVE  \A x \in Elements' : x \in Elements \/ (x.owner = SessionOf[w] /\ Busy(w))
<1>1. CASE MergeSegment(w)
  <2>1. Busy(w) /\ UNCHANGED <<hosts, edges>>
    BY <1>1 DEF MergeSegment, Busy
  <2>2. segments' = segments \/ \E g : g.owner = SessionOf[w] /\ segments' = segments \cup {g}
    BY <1>1 DEF MergeSegment, AppendSegment
  <2> QED
    BY <2>1, <2>2 DEF Elements
<1>2. CASE MergeEdge(w)
  <2>1. Busy(w) /\ UNCHANGED <<hosts, segments>>
    BY <1>2 DEF MergeEdge, Busy
  <2>2. edges' = edges \/ \E e : e.owner = SessionOf[w] /\ edges' = edges \cup {e}
    BY <1>2 DEF MergeEdge, AppendEdge
  <2> QED
    BY <2>1, <2>2 DEF Elements
<1>3. CASE MergeHost(w)
  BY <1>3 DEF MergeHost, AppendHost, Elements, Busy
<1>4. CASE UNCHANGED <<hosts, segments, edges>>
  BY <1>4 DEF Elements
<1> QED
  BY <1>1, <1>2, <1>3, <1>4
  DEF WorkerStart, Lookup, StartRule, StartUntriggered, StartExpansion, Start, StartGoal,
      WorkerStep, Filter, CheckHost, ListHost, EndHosts, Schedule, Answer,
      AllowHostSegments, Finish, graph

LEMMA OrphanStep == TypeOK /\ OrphanInv /\ [Next]_vars => OrphanInv'
<1> SUFFICES ASSUME TypeOK, OrphanInv, [Next]_vars
             PROVE  OrphanInv'
  OBVIOUS
<1>1. CASE UNCHANGED vars
  BY <1>1 DEF OrphanInv, OrphansComeFromRaces, JobsOwned, Busy, vars
<1>2. ASSUME NEW w \in Workers, WorkerStart(w) \/ WorkerStep(w)
      PROVE  OrphanInv'
  <2>1. SessionOf[w] \in registered \cup raced /\ UNCHANGED <<registered, raced>>
    BY <1>2, BusyKept DEF OrphanInv, JobsOwned
  <2>2. OrphansComeFromRaces'
    BY <1>2, <2>1, WorkerElements DEF OrphanInv, OrphansComeFromRaces, Elements
  <2>3. JobsOwned'
    <3> SUFFICES ASSUME NEW v \in Workers, Busy(v)'
                 PROVE  SessionOf[v] \in registered \cup raced
      BY <2>1 DEF JobsOwned
    <3> QED
      BY <1>2, <2>1, OthersIdle DEF OrphanInv, JobsOwned
  <2> QED
    BY <2>2, <2>3 DEF OrphanInv
<1>3. ASSUME NEW s \in Sessions, DeleteSession(s)
      PROVE  OrphanInv'
  <2>1. JobsOwned'
    BY <1>3 DEF OrphanInv, JobsOwned, DeleteSession, Busy
  <2>2. \A x \in Elements' : x \in Elements /\ x.owner # s
    BY <1>3 DEF DeleteSession, RemoveSessionArtifacts, Kept, Elements
  <2>3. registered' = registered \ {s} /\ raced \subseteq raced'
    BY <1>3 DEF DeleteSession
  <2>4. OrphansComeFromRaces'
    BY <2>2, <2>3 DEF OrphanInv, OrphansComeFromRaces, Elements
  <2> QED
    BY <2>1, <2>4 DEF OrphanInv
<1>4. ASSUME NEW s \in Sessions, CreateSession(s) \/ Denied(s) \/ \E ip \in IPs : Ssh(s, ip)
      PROVE  OrphanInv'
  BY <1>4 DEF CreateSession, Denied, Ssh, graph, OrphanInv, OrphansComeFromRaces,
     JobsOwned, Busy
<1>5. ASSUME NEW s \in Sessions, Login(s)
      PROVE  OrphanInv'
  <2>1. \A e \in edges' : \E f \in edges : e.owner = f.owner
    BY <1>5 DEF Login, TypeOK, EdgeRec
  <2>2. UNCHANGED <<hosts, segments, registered, raced, jobs>>
    BY <1>5 DEF Login
  <2> QED
    BY <2>1, <2>2 DEF OrphanInv, OrphansComeFromRaces, JobsOwned, Busy
<1> QED
  BY <1>1, <1>2, <1>3, <1>4, <1>5 DEF Next

(* A deletion at rest leaves nothing behind: whatever of a deleted session is
   in the graph was put there by a job that was running when it was deleted. *)
THEOREM OrphansOnlyFromRaces == Spec => []OrphansComeFromRaces
<1>1. Init => OrphanInv
  BY DEF Init, OrphanInv, OrphansComeFromRaces, JobsOwned, Busy, Idle
<1>2. OrphanInv => OrphansComeFromRaces
  BY DEF OrphanInv
<1> QED
  BY <1>1, <1>2, OrphanStep, TypeCorrect, PTL DEF Spec

-----------------------------------------------------------------------------
(* Listed hosts resolve                                                    *)
(*                                                                         *)
(* The inductive step needs the two calls of a merge in one invariant: a   *)
(* job about to list a host has one its session resolves (appended by      *)
(* itself, or by whoever made AppendHost refuse), NoShadowing to know that *)
(* the lookup finds it, and that a session which is still to be created    *)
(* has nothing listed.                                                     *)

ListInv ==
    /\ ListedHostsResolve
    /\ \A w \in Workers : jobs[w].pc = "list" /\ SessionOf[w] \in registered
          => HostForSession(jobs[w].cur[1], SessionOf[w]) # {}
    /\ \A s \in Sessions \ (registered \cup gone), ip \in IPs : listed[s][ip] = 0

LEMMA FirstExists ==
    ASSUME NEW H, NEW s, NEW a, NEW h \in H, h.ip = a, h.owner = s, h.at \in Nat,
           \A f, g \in H : f.ip = g.ip /\ SameOwnerRule(f.owner, g.owner) => f = g
    PROVE  {x \in {y \in H : y.ip = a /\ y.owner = s} :
              \A g \in {y \in H : y.ip = a /\ y.owner = s} : x.at <= g.at} # {}
BY DEF SameOwnerRule

LEMMA AppendResolves ==
    ASSUME TypeOK, NoShadowing, NoShadowing', NEW s \in Sessions, NEW a \in IPs, NEW cidr,
           AppendHost(a, cidr, s)
    PROVE  HostForSession(a, s)' # {}
<1>1. CASE HostTaken(a, s)
  <2>1. hosts' = hosts
    BY <1>1 DEF AppendHost
  <2>2. PICK h \in hosts : h.ip = a /\ (h.owner = Nobody \/ h.owner = s)
    BY <1>1, OwnersDistinct DEF HostTaken, SameOwnerRule
  <2>3. h.at \in Nat
    BY DEF TypeOK, HostRec
  <2>4. CASE h.owner = s
    <3>1. {x \in {y \in hosts : y.ip = a /\ y.owner = s} :
             \A g \in {y \in hosts : y.ip = a /\ y.owner = s} : x.at <= g.at} # {}
      BY <2>2, <2>3, <2>4, FirstExists DEF NoShadowing
    <3> QED
      BY <2>1, <3>1 DEF HostForSession
  <2>5. CASE h.owner = Nobody /\ s # Nobody
    <3>1. {y \in hosts : y.ip = a /\ y.owner = s} = {}
      BY <2>2, <2>5 DEF NoShadowing, SameOwnerRule
    <3> QED
      BY <2>1, <2>2, <2>5, <3>1 DEF HostForSession
  <2> QED
    BY <2>2, <2>4, <2>5, OwnersDistinct
<1>2. CASE ~HostTaken(a, s)
  <2> DEFINE new == [ip |-> a, cidr |-> cidr, owner |-> s, at |-> appends.hosts]
  <2>1. new \in hosts' /\ new.ip = a /\ new.owner = s /\ new.at \in Nat
    BY <1>2 DEF AppendHost, TypeOK
  <2> HIDE DEF new
  <2>2. \A f, g \in hosts' : f.ip = g.ip /\ SameOwnerRule(f.owner, g.owner) => f = g
    BY DEF NoShadowing
  <2>3. {x \in {y \in hosts' : y.ip = a /\ y.owner = s} :
           \A g \in {y \in hosts' : y.ip = a /\ y.owner = s} : x.at <= g.at} # {}
    BY <2>1, <2>2, FirstExists
  <2> QED
    BY <2>1, <2>3 DEF HostForSession
<1> QED
  BY <1>1, <1>2

\* A job gets to "list" only through MergeHost, which leaves its host in cur.
LEMMA ReachList ==
    ASSUME TypeOK, NEW w \in Workers, WorkerStart(w) \/ WorkerStep(w),
           NEW v \in Workers, jobs'[v].pc = "list"
    PROVE  \/ jobs'[v] = jobs[v]
           \/ /\ v = w /\ MergeHost(w) /\ jobs'[w].cur = jobs[w].cur
<1>0. jobs[w] \in Job
  BY DEF TypeOK
<1>1. ASSUME NEW jb, Step(w, jb), jb.pc # "list"
      PROVE  jobs'[v] = jobs[v]
  BY <1>1 DEF Step, TypeOK
<1>2. ASSUME Done(w)
      PROVE  jobs'[v] = jobs[v]
  BY <1>1, <1>2 DEF Done, Idle, Ready
<1>3. CASE WorkerStart(w)
  <2>1. CASE Lookup(w)
    BY <2>1, <1>1 DEF Lookup, Ready, Idle
  <2>2. ASSUME NEW before, NEW after, NEW kind, NEW pc \in {"filter", "segs", "schedule"},
               NEW plans, Start(w, before, after, kind, pc, plans)
        PROVE  jobs'[v] = jobs[v]
    <3>1. PICK p \in plans :
            Step(w, Load([Ready(after) EXCEPT !.kind = kind, !.pc = pc], p, "shadow"))
      BY <2>2 DEF Start
    <3>2. Load([Ready(after) EXCEPT !.kind = kind, !.pc = pc], p, "shadow").pc = pc
      BY DEF Load, Ready, Idle
    <3> QED
      BY <3>1, <3>2, <1>1
  <2>3. CASE StartRule(w)
    BY <2>2, <2>3 DEF StartRule
  <2>4. CASE StartUntriggered(w)
    BY <2>2, <2>4 DEF StartUntriggered
  <2>5. CASE StartExpansion(w)
    BY <2>2, <2>5 DEF StartExpansion
  <2>6. CASE StartGoal(w)
    <3>1. PICK g \in Goals :
            Step(w, [Load([Ready(1) EXCEPT !.kind = "goal", !.pc = "segs"], g.lead, "goal")
                     EXCEPT !.then = [g.chain EXCEPT !.hosts = {h \in @ : h[1] # g.target}]])
      BY <2>6 DEF StartGoal
    <3> DEFINE jb == [Load([Ready(1) EXCEPT !.kind = "goal", !.pc = "segs"], g.lead, "goal")
                      EXCEPT !.then = [g.chain EXCEPT !.hosts = {h \in @ : h[1] # g.target}]]
    <3>2. jb.pc = "segs"
      BY DEF Load, Ready, Idle
    <3>3. Step(w, jb)
      BY <3>1
    <3> HIDE DEF jb
    <3> QED
      BY <3>2, <3>3, <1>1
  <2> QED
    BY <1>3, <2>1, <2>3, <2>4, <2>5, <2>6 DEF WorkerStart
<1>4. CASE Filter(w)
  BY <1>0, <1>1, <1>2, <1>4 DEF Filter, Job
<1>5. CASE MergeSegment(w) \/ MergeEdge(w)
  BY <1>0, <1>1, <1>5 DEF MergeSegment, MergeEdge, Job
<1>6. CASE CheckHost(w)
  BY <1>0, <1>1, <1>6 DEF CheckHost, Job
<1>7. CASE MergeHost(w)
  BY <1>0, <1>7 DEF MergeHost, Step, TypeOK, Job
<1>8. CASE ListHost(w)
  BY <1>0, <1>1, <1>8 DEF ListHost, Job
<1>9. CASE EndHosts(w)
  BY <1>0, <1>1, <1>2, <1>9 DEF EndHosts, Load, Job
<1>10. CASE Schedule(w)
  <2> DEFINE nx == [jobs[w] EXCEPT !.pc = "allow"]
  <2>1. nx.pc = "allow"
    BY <1>0 DEF Job
  <2>2. CASE Step(w, nx)
    <3> HIDE DEF nx
    <3> QED
      BY <1>1, <2>1, <2>2
  <2>3. ASSUME NEW c \in Commands, NEW u \in Workers \ {w},
               jobs' = [jobs EXCEPT ![w] = nx,
                          ![u] = [Idle EXCEPT !.kind = "llm", !.pc = "asking", !.cmd = c]]
        PROVE  jobs'[v] = jobs[v]
    <3> DEFINE ask == [Idle EXCEPT !.kind = "llm", !.pc = "asking", !.cmd = c]
    <3>1. ask.pc = "asking"
      BY DEF Idle
    <3>2. jobs' = [jobs EXCEPT ![w] = nx, ![u] = ask]
      BY <2>3
    <3> HIDE DEF nx, ask
    <3> QED
      BY <2>1, <3>1, <3>2 DEF TypeOK
  <2> QED
    BY <1>10, <2>2, <2>3 DEF Schedule
<1>11. CASE Answer(w)
  BY <1>0, <1>1, <1>2, <1>11 DEF Answer, Load, Job
<1>12. CASE AllowHostSegments(w) \/ Finish(w)
  BY <1>1, <1>2, <1>12 DEF AllowHostSegments, Finish, Idle
<1> QED
  BY <1>3, <1>4, <1>5, <1>6, <1>7, <1>8, <1>9, <1>10, <1>11, <1>12 DEF WorkerStep

LEMMA ListStep ==
    TypeOK /\ NoShadowing /\ JobsOwned /\ ListInv /\ [Next]_vars
        /\ TypeOK' /\ NoShadowing' => ListInv'
<1> SUFFICES ASSUME TypeOK, NoShadowing, JobsOwned, ListInv, [Next]_vars,
                    TypeOK', NoShadowing'
             PROVE  ListInv'
  OBVIOUS
<1>1. CASE UNCHANGED vars
  BY <1>1 DEF ListInv, ListedHostsResolve, HostForSession, vars
<1>2. ASSUME NEW w \in Workers, WorkerStart(w) \/ WorkerStep(w)
      PROVE  ListInv'
  <2>1. UNCHANGED <<registered, gone>>
    BY <1>2, BusyKept
  <2>2. ASSUME NEW s \in Sessions, NEW a, HostForSession(a, s) # {}
        PROVE  HostForSession(a, s)' # {}
    <3>1. CASE UNCHANGED hosts
      BY <2>2, <3>1 DEF HostForSession
    <3>2. CASE AppendHost(jobs[w].cur[1], jobs[w].cur[2], SessionOf[w])
      BY <2>2, <3>2, AppendKeepsLookup, WorkersTyped
    <3> QED
      BY <1>2, <3>1, <3>2, WorkerHosts
  <2>3. \/ UNCHANGED listed
        \/ /\ jobs[w].pc = "list" /\ SessionOf[w] \in Sessions /\ jobs[w].cur[1] \in IPs
           /\ Busy(w)
           /\ listed' = [listed EXCEPT ![SessionOf[w]][jobs[w].cur[1]] = @ + 1]
    <3>1. CASE ListHost(w)
      BY <3>1, WorkersTyped DEF ListHost, TypeOK, Busy
    <3> QED
      BY <1>2, <3>1 DEF WorkerStart, Lookup, StartRule, StartUntriggered, StartExpansion,
         Start, StartGoal, WorkerStep, Filter, MergeSegment, MergeEdge, CheckHost,
         MergeHost, EndHosts, Schedule, Answer, AllowHostSegments, Finish
  <2>4. ListedHostsResolve'
    <3> SUFFICES ASSUME NEW s \in registered, NEW ip \in IPs, listed'[s][ip] > 0
                 PROVE  HostForSession(ip, s)' # {}
      BY <2>1 DEF ListedHostsResolve
    <3>1. s \in Sessions
      BY DEF TypeOK
    <3>2. CASE listed'[s][ip] = listed[s][ip]
      BY <2>2, <3>1, <3>2 DEF ListInv, ListedHostsResolve
    <3>3. CASE listed'[s][ip] # listed[s][ip]
      <4>1. jobs[w].pc = "list" /\ s = SessionOf[w] /\ ip = jobs[w].cur[1]
        BY <2>3, <3>1, <3>3 DEF TypeOK
      <4> QED
        BY <2>2, <3>1, <4>1 DEF ListInv
    <3> QED
      BY <3>2, <3>3
  <2>5. \A v \in Workers : jobs'[v].pc = "list" /\ SessionOf[v] \in registered'
           => HostForSession(jobs[v].cur[1], SessionOf[v])' # {}
              /\ jobs'[v].cur = jobs[v].cur
    <3> SUFFICES ASSUME NEW v \in Workers, jobs'[v].pc = "list", SessionOf[v] \in registered'
                 PROVE  HostForSession(jobs[v].cur[1], SessionOf[v])' # {}
                        /\ jobs'[v].cur = jobs[v].cur
      OBVIOUS
    <3>1. CASE jobs'[v] = jobs[v]
      BY <2>1, <2>2, <3>1, WorkersTyped DEF ListInv
    <3>2. CASE v = w /\ MergeHost(w) /\ jobs'[w].cur = jobs[w].cur
      <4>1. jobs[w].cur \in IPs \X CIDRs /\ SessionOf[w] \in Sessions
        BY <3>2, WorkersTyped DEF MergeHost, TypeOK
      <4>2. AppendHost(jobs[w].cur[1], jobs[w].cur[2], SessionOf[w])
        BY <3>2 DEF MergeHost
      <4>3. HostForSession(jobs[w].cur[1], SessionOf[w])' # {}
        <5> DEFINE a == jobs[w].cur[1]
        <5> QED
          BY <3>2, <4>1, <4>2, AppendResolves
      <4> QED
        BY <3>2, <4>3
    <3> QED
      BY <1>2, <3>1, <3>2, ReachList
  <2>6. \A s \in Sessions \ (registered' \cup gone'), ip \in IPs : listed'[s][ip] = 0
    <3> SUFFICES ASSUME NEW s \in Sessions, s \notin registered, s \notin gone, NEW ip \in IPs
                 PROVE  listed'[s][ip] = 0
      BY <2>1
    <3>1. ~(Busy(w) /\ s = SessionOf[w])
      BY DEF JobsOwned, TypeOK
    <3> QED
      BY <2>3, <3>1 DEF ListInv, TypeOK
  <2> QED
    BY <2>4, <2>5, <2>6 DEF ListInv
<1>3. ASSUME NEW s \in Sessions, DeleteSession(s)
      PROVE  ListInv'
  <2>1. registered' = registered \ {s} /\ gone' = gone \cup {s} /\ UNCHANGED <<listed, jobs>>
    BY <1>3 DEF DeleteSession
  <2>2. ASSUME NEW t \in Sessions, t # s, NEW a, HostForSession(a, t) # {}
        PROVE  HostForSession(a, t)' # {}
    <3>1. t # Nobody /\ s # Nobody /\ hosts' = {h \in hosts : h.owner # s}
      BY <1>3, OwnersDistinct DEF DeleteSession, RemoveSessionArtifacts, Kept
    <3>2. {h \in hosts' : h.ip = a /\ h.owner = t} = {h \in hosts : h.ip = a /\ h.owner = t}
      BY <2>2, <3>1
    <3>3. {h \in hosts' : h.ip = a /\ h.owner = Nobody}
            = {h \in hosts : h.ip = a /\ h.owner = Nobody}
      BY <3>1
    <3> QED
      BY <2>2, <3>2, <3>3 DEF HostForSession
  <2>3. ListedHostsResolve'
    <3> SUFFICES ASSUME NEW t \in registered, t # s, NEW ip \in IPs, listed[t][ip] > 0
                 PROVE  HostForSession(ip, t)' # {}
      BY <2>1 DEF ListedHostsResolve
    <3> QED
      BY <2>2 DEF ListInv, ListedHostsResolve, TypeOK
  <2>4. \A v \in Workers : jobs[v].pc = "list" /\ SessionOf[v] \in registered'
           => HostForSession(jobs[v].cur[1], SessionOf[v])' # {}
    BY <2>1, <2>2, WorkersTyped DEF ListInv
  <2>5. \A t \in Sessions \ (registered' \cup gone'), ip \in IPs : listed[t][ip] = 0
    BY <2>1 DEF ListInv
  <2> QED
    BY <2>1, <2>3, <2>4, <2>5 DEF ListInv
<1>4. ASSUME NEW s \in Sessions, CreateSession(s)
      PROVE  ListInv'
  <2>1. /\ registered' = registered \cup {s} /\ s \notin registered \cup gone
        /\ UNCHANGED <<hosts, listed, jobs, gone>>
    BY <1>4 DEF CreateSession, graph
  <2>2. \A ip \in IPs : listed[s][ip] = 0
    BY <2>1 DEF ListInv
  <2>3. \A v \in Workers : SessionOf[v] = s => jobs[v].pc # "list"
    BY <2>1 DEF JobsOwned, Busy, TypeOK
  <2> QED
    BY <2>1, <2>2, <2>3 DEF ListInv, ListedHostsResolve, HostForSession
<1>5. ASSUME NEW s \in Sessions, Login(s) \/ Denied(s) \/ \E ip \in IPs : Ssh(s, ip)
      PROVE  ListInv'
  <2>1. UNCHANGED <<hosts, listed, jobs, gone, registered>>
    BY <1>5 DEF Login, Denied, Ssh, graph
  <2> QED
    BY <2>1 DEF ListInv, ListedHostsResolve, HostForSession
<1> QED
  BY <1>1, <1>2, <1>3, <1>4, <1>5 DEF Next

(* A registered session's list of shadow hosts names only addresses its own
   lookup resolves, however its planners race one another and other sessions. *)
THEOREM ListedResolve == Spec => []ListedHostsResolve
<1>1. Init => JobsOwned /\ ListInv
  BY DEF Init, JobsOwned, Busy, Idle, ListInv, ListedHostsResolve
<1>2. ListInv => ListedHostsResolve
  BY DEF ListInv
<1>3. Init => OrphanInv
  BY DEF Init, OrphanInv, OrphansComeFromRaces, JobsOwned, Busy, Idle
<1>4. OrphanInv => JobsOwned
  BY DEF OrphanInv
<1> QED
  BY <1>1, <1>2, <1>3, <1>4, OrphanStep, ListStep, TypeCorrect, HostsUnique, PTL DEF Spec

-----------------------------------------------------------------------------
(* What a step may take away                                               *)

WorkerKeeps ==
    /\ hosts \subseteq hosts' /\ segments \subseteq segments' /\ edges \subseteq edges'
    /\ UNCHANGED registered

LEMMA WorkersOnlyAdd ==
    ASSUME NEW w \in Workers, WorkerStart(w) \/ WorkerStep(w)
    PROVE  WorkerKeeps
<1>1. CASE MergeSegment(w) \/ MergeEdge(w)
  BY <1>1 DEF MergeSegment, AppendSegment, MergeEdge, AppendEdge, WorkerKeeps
<1>2. CASE MergeHost(w)
  BY <1>2 DEF MergeHost, AppendHost, WorkerKeeps
<1> QED
  BY <1>1, <1>2
  DEF WorkerKeeps, WorkerStart, Lookup, StartRule, StartUntriggered, StartExpansion, Start,
      StartGoal, WorkerStep, Filter, CheckHost, ListHost, EndHosts, Schedule, Answer,
      AllowHostSegments, Finish, graph

Removal ==
    LET leaving == registered \ registered' IN
    /\ \A h \in hosts \ hosts' : h.owner \in leaving
    /\ \A g \in segments \ segments' : g.owner \in leaving
    /\ \A e \in edges : e.owner \in leaving \/
          \E f \in edges' : [f EXCEPT !.status = e.status] = e

LEMMA SameEdge ==
    ASSUME NEW e \in EdgeRec, NEW st
    PROVE  [e EXCEPT !.status = e.status] = e
           /\ [[e EXCEPT !.status = st] EXCEPT !.status = e.status] = e
BY DEF EdgeRec

LEMMA RemovalStep == TypeOK /\ [Next]_vars => [Removal]_vars
<1> SUFFICES ASSUME TypeOK, Next
             PROVE  Removal
  OBVIOUS
<1>0. \A e \in edges : e \in EdgeRec
  BY DEF TypeOK
<1>1. ASSUME hosts \subseteq hosts', segments \subseteq segments', edges \subseteq edges'
      PROVE  Removal
  BY <1>0, <1>1, SameEdge DEF Removal
<1>2. ASSUME NEW w \in Workers, WorkerStart(w) \/ WorkerStep(w)
      PROVE  Removal
  BY <1>1, <1>2, WorkersOnlyAdd DEF WorkerKeeps
<1>3. ASSUME NEW s \in Sessions, DeleteSession(s)
      PROVE  Removal
  <2>1. registered \ registered' = {s}
    BY <1>3 DEF DeleteSession
  <2>2. /\ hosts' = {x \in hosts : x.owner # s} /\ segments' = {x \in segments : x.owner # s}
        /\ edges' = {x \in edges : x.owner # s}
    BY <1>3 DEF DeleteSession, RemoveSessionArtifacts, Kept
  <2> QED
    BY <1>0, <2>1, <2>2, SameEdge DEF Removal
<1>4. ASSUME NEW s \in Sessions, Login(s)
      PROVE  Removal
  <2>1. \A e \in edges : \E f \in edges' : [f EXCEPT !.status = e.status] = e
    <3> SUFFICES ASSUME NEW e \in edges
                 PROVE  \E f \in edges' : [f EXCEPT !.status = e.status] = e
      OBVIOUS
    <3>1. [e EXCEPT !.status = "active"] \in edges' \/ e \in edges'
      BY <1>4 DEF Login
    <3> QED
      BY <1>0, <3>1, SameEdge
  <2> QED
    BY <1>4, <2>1 DEF Login, Removal
<1>5. ASSUME NEW s \in Sessions, CreateSession(s) \/ Denied(s) \/ \E ip \in IPs : Ssh(s, ip)
      PROVE  Removal
  BY <1>1, <1>5 DEF CreateSession, Denied, Ssh, graph
<1> QED
  BY <1>2, <1>3, <1>4, <1>5 DEF Next

(* No step takes a host, a segment or an edge out of the graph but the deletion
   of the session that owns it. *)
THEOREM OnlyOwnersRemove == Spec => RemovalIsOwned
<1>1. TypeOK /\ [Next]_vars => [Removal]_vars
  BY RemovalStep
<1>2. RemovalIsOwned <=> [][Removal]_vars
  BY DEF RemovalIsOwned, Removal
<1> QED
  BY <1>1, <1>2, TypeCorrect, PTL DEF Spec

-----------------------------------------------------------------------------
(* What a step does to a planner's job                                     *)
(*                                                                         *)
(* The two theorems about networks follow a host from the plan that names  *)
(* it to the slice it is appended to. Moves says, for each way a job goes  *)
(* on, what becomes of the hosts and segments it still has to merge.       *)

Resting(k) ==
    /\ k.pc \in {"idle", "ready"} /\ k.kind \in {"none", "command"}
    /\ k.segs = {} /\ k.hosts = {} /\ k.then = NoPlan

Asking(k) ==
    /\ k.pc = "asking" /\ k.kind = "llm"
    /\ k.segs = {} /\ k.hosts = {} /\ k.then = NoPlan

Loads(k, p) == k.segs = p.segs /\ k.hosts = p.hosts

Continues(j, k) == k.kind = j.kind /\ k.then = j.then

Carrying == {"hosts", "append", "list", "schedule", "allow"}

Rests(j, k) ==
    /\ Resting(k)
    /\ j.pc \in Carrying => j.kind \notin {"rule", "expand"}

Begins(j, k) ==
    /\ j.pc = "ready" /\ k.then = NoPlan
    /\ \/ k.kind = "rule" /\ k.pc = "filter" /\ \E p \in RulePlans : Loads(k, p)
       \/ k.kind = "rule" /\ k.pc = "schedule" /\ Loads(k, NoPlan)
       \/ k.kind = "expand" /\ k.pc = "segs" /\ \E p \in Expansions : Loads(k, p)

BeginsGoal(j, k) ==
    /\ j.pc = "ready" /\ k.kind = "goal" /\ k.pc = "segs"
    /\ \E g \in Goals : /\ Loads(k, g.lead)
                        /\ k.then.segs = g.chain.segs
                        /\ k.then.hosts \subseteq g.chain.hosts
                        /\ allowed' = allowed \cup g.lead.segs \cup g.chain.segs

Filters(j, k) ==
    /\ j.pc = "filter" /\ Continues(j, k)
    /\ \/ /\ k.pc = "segs" /\ k.segs = j.segs /\ k.hosts \subseteq j.hosts
          /\ ValidPlan(j, k.hosts)
       \/ k.pc = "schedule" /\ k.segs = {} /\ k.hosts = {}

Merges(j, k) ==
    /\ Continues(j, k) /\ k.added = j.added /\ k.hosts = j.hosts
    /\ \/ k.pc = "segs" /\ j.pc = "segs"
       \/ k.pc = "edges" /\ j.pc = "segs" /\ j.segs = {} /\ k.segs = {}
       \/ k.pc \in {"edges", "hosts"} /\ j.pc = "edges" /\ k.segs = j.segs

Appends(j, k) ==
    /\ Continues(j, k) /\ k.segs = j.segs /\ k.hosts \subseteq j.hosts
    /\ j.added \subseteq k.added
    /\ \/ k.pc = "hosts" /\ j.pc \in {"hosts", "list"}
       \/ k.pc = "append" /\ j.pc = "hosts" /\ k.cur \in j.hosts
       \/ k.pc = "list" /\ j.pc = "append" /\ j.cur \in k.added
       \/ k.pc = "schedule" /\ j.pc = "hosts"
       \/ k.pc = "allow" /\ j.pc \in {"hosts", "schedule"}

Chains(j, k) ==
    /\ j.pc = "hosts" /\ j.kind = "goal" /\ k.kind = "goal" /\ k.pc = "segs"
    /\ Loads(k, j.then) /\ k.then = NoPlan

Answers(j, k) ==
    /\ j.pc = "asking" /\ Continues(j, k)
    /\ k.pc = "filter" /\ \E p \in LLMPlans : Loads(k, p)

Allows(j, k) ==
    /\ Resting(k) /\ j.pc = "allow"
    /\ allowed' = allowed \cup {h[2] : h \in j.added}

Moves(j, k) ==
    \/ Rests(j, k) \/ Begins(j, k) \/ BeginsGoal(j, k) \/ Filters(j, k) \/ Merges(j, k)
    \/ Appends(j, k) \/ Chains(j, k) \/ Answers(j, k) \/ Allows(j, k)

LEMMA RestingKinds == Resting(Idle) /\ \A st : Resting(Ready(st))
BY DEF Resting, Idle, Ready

LEMMA StepMoves ==
    ASSUME TypeOK, NEW w \in Workers, NEW k, Step(w, k)
    PROVE  jobs'[w] = k
BY DEF Step, TypeOK

LEMMA DoneRests ==
    ASSUME TypeOK, NEW w \in Workers, Done(w)
    PROVE  Resting(jobs'[w])
BY RestingKinds, StepMoves DEF Done

LEMMA StartMoves ==
    ASSUME TypeOK, NEW w \in Workers, NEW before, NEW after, NEW kind, NEW pc, NEW plans,
           Start(w, before, after, kind, pc, plans)
    PROVE  /\ jobs[w].pc = "ready"
           /\ jobs'[w].kind = kind /\ jobs'[w].pc = pc /\ jobs'[w].then = NoPlan
           /\ \E p \in plans : Loads(jobs'[w], p)
<1>1. PICK p \in plans :
         Step(w, Load([Ready(after) EXCEPT !.kind = kind, !.pc = pc], p, "shadow"))
  BY DEF Start
<1> DEFINE k == Load([Ready(after) EXCEPT !.kind = kind, !.pc = pc], p, "shadow")
<1>2. k.kind = kind /\ k.pc = pc /\ k.then = NoPlan /\ Loads(k, p)
  BY DEF Load, Loads, Ready, Idle
<1>3. jobs'[w] = k
  BY <1>1, StepMoves
<1> HIDE DEF k
<1> QED
  BY <1>2, <1>3 DEF Start

LEMMA WorkerStartMoves ==
    ASSUME TypeOK, NEW w \in Workers, WorkerStart(w)
    PROVE  \/ Lookup(w) /\ jobs'[w] = Ready(0)
           \/ Begins(jobs[w], jobs'[w]) \/ BeginsGoal(jobs[w], jobs'[w])
<1>1. CASE Lookup(w)
  BY <1>1, StepMoves DEF Lookup
<1>2. CASE StartRule(w)
  BY <1>2, StartMoves DEF StartRule, Begins
<1>3. CASE StartUntriggered(w)
  BY <1>3, StartMoves DEF StartUntriggered, Begins
<1>4. CASE StartExpansion(w)
  BY <1>4, StartMoves DEF StartExpansion, Begins
<1>5. CASE StartGoal(w)
  <2>1. PICK g \in Goals :
          /\ allowed' = allowed \cup g.lead.segs \cup g.chain.segs
          /\ Step(w, [Load([Ready(1) EXCEPT !.kind = "goal", !.pc = "segs"], g.lead, "goal")
                      EXCEPT !.then =
                         [g.chain EXCEPT !.hosts = {h \in @ : h[1] # g.target}]])
    BY <1>5 DEF StartGoal
  <2> DEFINE then == [g.chain EXCEPT !.hosts = {h \in @ : h[1] # g.target}]
             k == [Load([Ready(1) EXCEPT !.kind = "goal", !.pc = "segs"], g.lead, "goal")
                   EXCEPT !.then = then]
  <2>2. then.segs = g.chain.segs /\ then.hosts \subseteq g.chain.hosts
    <3>1. g.chain \in Plan
      BY PlansTyped DEF Goal
    <3> QED
      BY <3>1 DEF Plan
  <2>3. jobs'[w] = k
    BY <2>1, StepMoves
  <2> HIDE DEF then
  <2>4. k.kind = "goal" /\ k.pc = "segs" /\ k.then = then /\ Loads(k, g.lead)
    BY DEF Load, Loads, Ready, Idle
  <2> HIDE DEF k
  <2> QED
    BY <1>5, <2>1, <2>2, <2>3, <2>4 DEF StartGoal, BeginsGoal
<1> QED
  BY <1>1, <1>2, <1>3, <1>4, <1>5 DEF WorkerStart

LEMMA WorkerStepMoves ==
    ASSUME TypeOK, NEW w \in Workers, WorkerStep(w)
    PROVE  Moves(jobs[w], jobs'[w])
<1> DEFINE j == jobs[w]
           k == jobs'[w]
<1>0. j \in Job
  BY DEF TypeOK
<1>1. CASE Filter(w)
  <2> DEFINE hs == Unprotected(SessionOf[w], j.hosts)
  <2>1. hs \subseteq j.hosts
    BY DEF Unprotected
  <2>2. CASE Step(w, [j EXCEPT !.pc = "segs", !.hosts = hs]) /\ ValidPlan(j, hs)
    <3>1. k = [j EXCEPT !.pc = "segs", !.hosts = hs]
      BY <2>2, StepMoves
    <3> HIDE DEF j, k, hs
    <3>2. k.pc = "segs" /\ k.hosts = hs /\ k.segs = j.segs /\ Continues(j, k)
      BY <1>0, <3>1 DEF Job, Continues
    <3>3. j.pc = "filter"
      BY <1>1 DEF Filter, j
    <3>4. Filters(j, k)
      BY <2>1, <2>2, <3>2, <3>3 DEF Filters
    <3> QED
      BY <3>4 DEF Moves, j, k
  <2>3. CASE j.kind = "llm" /\ Done(w)
    <3>1. Resting(k) /\ j.pc = "filter"
      BY <1>1, <2>3, DoneRests DEF Filter
    <3> QED
      BY <3>1 DEF Moves, Rests, Carrying
  <2>4. CASE Step(w, [j EXCEPT !.pc = "schedule", !.segs = {}, !.edges = {}, !.hosts = {}])
    <3>1. k = [j EXCEPT !.pc = "schedule", !.segs = {}, !.edges = {}, !.hosts = {}]
      BY <2>4, StepMoves
    <3>2. j.pc = "filter"
      BY <1>1 DEF Filter
    <3> HIDE DEF j, k
    <3>3. Filters(j, k)
      BY <1>0, <3>1, <3>2 DEF Filters, Job, Continues
    <3> QED
      BY <3>3 DEF Moves, j, k
  <2> QED
    BY <1>1, <2>2, <2>3, <2>4 DEF Filter
<1>2. CASE MergeSegment(w)
  <2>1. j.pc = "segs"
    BY <1>2 DEF MergeSegment
  <2>2. \/ \E c \in j.segs : k = [j EXCEPT !.segs = @ \ {c}]
        \/ j.segs = {} /\ k = [j EXCEPT !.pc = "edges"]
    BY <1>2, StepMoves DEF MergeSegment
  <2> HIDE DEF j, k
  <2>3. Merges(j, k)
    BY <1>0, <2>1, <2>2 DEF Job, Merges, Continues
  <2> QED
    BY <2>3 DEF Moves, j, k
<1>3. CASE MergeEdge(w)
  <2>1. j.pc = "edges"
    BY <1>3 DEF MergeEdge
  <2>2. \/ \E e \in j.edges : k = [j EXCEPT !.edges = @ \ {e}]
        \/ k = [j EXCEPT !.pc = "hosts"]
    BY <1>3, StepMoves DEF MergeEdge
  <2> HIDE DEF j, k
  <2>3. Merges(j, k)
    BY <1>0, <2>1, <2>2 DEF Job, Merges, Continues
  <2> QED
    BY <2>3 DEF Moves, j, k
<1>4. CASE CheckHost(w)
  <2>1. j.pc = "hosts"
    BY <1>4 DEF CheckHost
  <2>2. PICK h \in j.hosts :
           \/ k = [j EXCEPT !.hosts = @ \ {h}]
           \/ k = [j EXCEPT !.hosts = @ \ {h}, !.cur = h, !.pc = "append"]
    BY <1>4, StepMoves DEF CheckHost
  <2> HIDE DEF j, k
  <2>3. Appends(j, k)
    BY <1>0, <2>1, <2>2, ZenonT(40) DEF Job, Appends, Continues
  <2> QED
    BY <2>3 DEF Moves, j, k
<1>5. CASE MergeHost(w)
  <2>1. j.pc = "append" /\ k = [j EXCEPT !.pc = "list", !.added = @ \cup {j.cur}]
    BY <1>5, StepMoves DEF MergeHost
  <2> HIDE DEF j, k
  <2>3. Appends(j, k)
    BY <1>0, <2>1 DEF Job, Appends, Continues
  <2> QED
    BY <2>3 DEF Moves, j, k
<1>6. CASE ListHost(w)
  <2>1. j.pc = "list" /\ k = [j EXCEPT !.pc = "hosts", !.cur = Idle.cur]
    BY <1>6, StepMoves DEF ListHost
  <2> HIDE DEF j, k
  <2>3. Appends(j, k)
    BY <1>0, <2>1 DEF Job, Appends, Continues
  <2> QED
    BY <2>3 DEF Moves, j, k
<1>7. CASE EndHosts(w)
  <2>0. j.pc = "hosts" /\ j.hosts = {}
    BY <1>7 DEF EndHosts
  <2>1. CASE /\ j.kind = "goal"
             /\ Step(w, [Load(j, j.then, "shadow") EXCEPT !.pc = "segs", !.then = NoPlan])
    <3>1. k = [Load(j, j.then, "shadow") EXCEPT !.pc = "segs", !.then = NoPlan]
      BY <2>1, StepMoves
    <3> HIDE DEF j, k
    <3>2. Chains(j, k)
      BY <1>0, <2>0, <2>1, <3>1 DEF Job, Chains, Load, Loads
    <3> QED
      BY <3>2 DEF Moves, j, k
  <2>2. CASE Step(w, [j EXCEPT !.pc = "schedule"]) \/ Step(w, [j EXCEPT !.pc = "allow"])
    <3>1. k = [j EXCEPT !.pc = "schedule"] \/ k = [j EXCEPT !.pc = "allow"]
      BY <2>2, StepMoves
    <3> HIDE DEF j, k
    <3>2. Appends(j, k)
      BY <1>0, <2>0, <3>1 DEF Job, Appends, Continues
    <3> QED
      BY <3>2 DEF Moves, j, k
  <2>3. CASE j.kind \notin {"rule", "expand"} /\ Done(w)
    BY <2>3, DoneRests DEF Moves, Rests
  <2> QED
    BY <1>7, <2>1, <2>2, <2>3 DEF EndHosts
<1>8. CASE Schedule(w)
  <2> DEFINE nx == [j EXCEPT !.pc = "allow"]
  <2>1. Step(w, nx) => k = nx
    BY StepMoves
  <2>2. ASSUME NEW c \in Commands, NEW u \in Workers \ {w},
               jobs' = [jobs EXCEPT ![w] = nx,
                          ![u] = [Idle EXCEPT !.kind = "llm", !.pc = "asking", !.cmd = c]]
        PROVE  k = nx
    <3> DEFINE ask == [Idle EXCEPT !.kind = "llm", !.pc = "asking", !.cmd = c]
    <3>1. jobs' = [jobs EXCEPT ![w] = nx, ![u] = ask]
      BY <2>2
    <3> HIDE DEF nx, ask
    <3> QED
      BY <3>1 DEF TypeOK
  <2>3. j.pc = "schedule" /\ k = nx
    BY <1>8, <2>1, <2>2 DEF Schedule
  <2> HIDE DEF j, k
  <2>4. Appends(j, k)
    BY <1>0, <2>3 DEF Job, Appends, Continues
  <2> QED
    BY <2>4 DEF Moves, j, k
<1>9. CASE Answer(w)
  <2>1. j.pc = "asking"
    BY <1>9 DEF Answer
  <2>2. CASE Done(w)
    BY <2>1, <2>2, DoneRests DEF Moves, Rests, Carrying
  <2>3. ASSUME NEW p \in LLMPlans, Step(w, [Load(j, p, "shadow") EXCEPT !.pc = "filter"])
        PROVE  Moves(j, k)
    <3>1. k = [Load(j, p, "shadow") EXCEPT !.pc = "filter"]
      BY <2>3, StepMoves
    <3> HIDE DEF j, k
    <3>2. k.pc = "filter" /\ Continues(j, k) /\ Loads(k, p)
      BY <1>0, <3>1 DEF Job, Continues, Load, Loads
    <3>3. Answers(j, k)
      BY <2>1, <3>2 DEF Answers
    <3> QED
      BY <3>3 DEF Moves
  <2> QED
    BY <1>9, <2>2, <2>3 DEF Answer
<1>10. CASE AllowHostSegments(w)
  <2>1. Allows(j, k)
    BY <1>10, DoneRests DEF AllowHostSegments, Allows
  <2> QED
    BY <2>1 DEF Moves
<1>11. CASE Finish(w)
  BY <1>11, StepMoves, RestingKinds DEF Finish, Moves, Rests, Carrying
<1> QED
  BY <1>1, <1>2, <1>3, <1>4, <1>5, <1>6, <1>7, <1>8, <1>9, <1>10, <1>11 DEF WorkerStep

\* A job only ever moves by its own steps, but for the LLM goroutine Schedule spawns.
LEMMA OthersMove ==
    ASSUME TypeOK, NEW w \in Workers, WorkerStart(w) \/ WorkerStep(w),
           NEW v \in Workers, v # w
    PROVE  \/ jobs'[v] = jobs[v]
           \/ /\ Asking(jobs'[v]) /\ ~Busy(v)
              /\ SessionOf[v] = SessionOf[w]
<1>1. ASSUME NEW k, Step(w, k)
      PROVE  jobs'[v] = jobs[v]
  BY <1>1 DEF Step, TypeOK
<1>2. ASSUME Done(w)
      PROVE  jobs'[v] = jobs[v]
  BY <1>1, <1>2 DEF Done
<1>3. CASE Schedule(w)
  <2>1. ASSUME NEW c \in Commands, NEW u \in Workers \ {w}, ~Busy(u), SessionOf[u] = SessionOf[w],
               jobs' = [jobs EXCEPT ![w] = [jobs[w] EXCEPT !.pc = "allow"],
                          ![u] = [Idle EXCEPT !.kind = "llm", !.pc = "asking", !.cmd = c]]
        PROVE  jobs'[v] = jobs[v] \/ (Asking(jobs'[v]) /\ u = v)
    <3> DEFINE nx == [jobs[w] EXCEPT !.pc = "allow"]
               ask == [Idle EXCEPT !.kind = "llm", !.pc = "asking", !.cmd = c]
    <3>1. Asking(ask)
      BY DEF Asking, Idle
    <3>2. jobs' = [jobs EXCEPT ![w] = nx, ![u] = ask]
      BY <2>1
    <3> HIDE DEF nx, ask
    <3> QED
      BY <3>1, <3>2 DEF TypeOK
  <2> QED
    BY <1>1, <1>3, <2>1 DEF Schedule
<1>4. CASE WorkerStart(w)
  BY <1>1, <1>4 DEF WorkerStart, Lookup, StartRule, StartUntriggered, StartExpansion,
     Start, StartGoal
<1>5. CASE Filter(w) \/ MergeSegment(w) \/ MergeEdge(w) \/ CheckHost(w) \/ MergeHost(w)
  BY <1>1, <1>2, <1>5 DEF Filter, MergeSegment, MergeEdge, CheckHost, MergeHost
<1>6. CASE ListHost(w) \/ EndHosts(w) \/ Answer(w) \/ AllowHostSegments(w) \/ Finish(w)
  BY <1>1, <1>2, <1>6 DEF ListHost, EndHosts, Answer, AllowHostSegments, Finish
<1> QED
  BY <1>3, <1>4, <1>5, <1>6 DEF WorkerStep

-----------------------------------------------------------------------------
(* Hosts and their segments                                                *)
(*                                                                         *)
(* SegInv carries the promise from the plan to the slice: while a job has  *)
(* segments to merge its hosts lie in those or in networks its session     *)
(* sees already, and once they are merged, in the latter. A plan that is   *)
(* still to be filtered promises nothing unless LLMNamed; then what makes  *)
(* it safe is the filter itself (ValidIsSeen).                             *)

Alone == \A s, t \in Sessions : s = t

LLMNamed == \A p \in LLMPlans : Routed(p.hosts, p.segs \cup BaseSegments)

\* The networks a session has a segment for, its own or a configured one.
Seen(s) == {g.cidr : g \in {x \in segments : x.owner \in {s, Nobody}}}

SegJob(j, nets) ==
    /\ j.pc \notin {"filter", "segs"} => j.segs = {}
    /\ \/ j.pc = "filter" /\ ~LLMNamed
       \/ Routed(j.hosts, j.segs \cup nets)
    /\ j.pc = "append" => j.cur[2] \in nets
    /\ Routed(j.then.hosts, j.then.segs)

SegInv ==
    /\ \A h \in hosts : h.owner \in registered => h.cidr \in Seen(h.owner)
    /\ \A w \in Workers : Busy(w) /\ SessionOf[w] \in registered
          => SegJob(jobs[w], Seen(SessionOf[w]))
    /\ BaseSegments \subseteq Seen(Nobody)

LEMMA RestingSeg ==
    ASSUME NEW k, Resting(k) \/ Asking(k), NEW nets
    PROVE  SegJob(k, nets)
BY DEF Resting, Asking, SegJob, Routed, NoPlan

LEMMA SegJobGrows ==
    ASSUME NEW j, NEW n1, NEW n2, n1 \subseteq n2, SegJob(j, n1)
    PROVE  SegJob(j, n2)
BY DEF SegJob, Routed

(* What a filtered plan's hosts still may lack, ValidPlan found in the graph:
   that is enough when nobody else's segments are in it. *)
LEMMA ValidIsSeen ==
    ASSUME TypeOK, Alone, NEW s \in Sessions, NEW j, NEW hs, ValidPlan(j, hs)
    PROVE  Routed(hs, j.segs \cup Seen(s))
<1> SUFFICES ASSUME NEW h \in hs, h[2] \notin j.segs
             PROVE  h[2] \in Seen(s)
  BY DEF Routed
<1>1. PICK g \in segments : g.cidr = h[2]
  BY DEF ValidPlan
<1>2. g.owner \in {s, Nobody}
  BY DEF TypeOK, SegmentRec, Owner, Alone
<1> QED
  BY <1>1, <1>2 DEF Seen

LEMMA SegJobMoves ==
    ASSUME TypeOK, Alone \/ LLMNamed, NEW s \in Sessions, NEW j, NEW k, NEW nets,
           SegJob(j, Seen(s)), Seen(s) \subseteq nets, BaseSegments \subseteq nets,
           Moves(j, k), j.segs \subseteq k.segs \cup nets
                        \/ ~Merges(j, k)
    PROVE  SegJob(k, nets)
<1>1. CASE Rests(j, k) \/ Allows(j, k)
  BY <1>1, RestingSeg DEF Rests, Allows
<1>2. CASE Begins(j, k)
  BY <1>2, NetworksGiven DEF Begins, Loads, SegJob, Routed, NoPlan
<1>3. CASE BeginsGoal(j, k)
  BY <1>3, NetworksGiven DEF BeginsGoal, Loads, SegJob, Routed
<1>4. CASE Filters(j, k)
  <2>1. CASE k.pc = "segs" /\ k.segs = j.segs /\ k.hosts \subseteq j.hosts /\ ValidPlan(j, k.hosts)
    <3>1. Routed(k.hosts, k.segs \cup Seen(s))
      BY <2>1, ValidIsSeen DEF SegJob, Routed
    <3> QED
      BY <1>4, <2>1, <3>1 DEF Filters, Continues, SegJob, Routed
  <2> QED
    BY <1>4, <2>1 DEF Filters, Continues, SegJob, Routed
<1>5. CASE Merges(j, k)
  BY <1>5 DEF Merges, Continues, SegJob, Routed
<1>6. CASE Appends(j, k)
  BY <1>6 DEF Appends, Continues, SegJob, Routed
<1>7. CASE Chains(j, k)
  BY <1>7 DEF Chains, Loads, SegJob, Routed, NoPlan
<1>8. CASE Answers(j, k)
  BY <1>8 DEF Answers, Continues, Loads, SegJob, Routed, LLMNamed
<1> QED
  BY <1>1, <1>2, <1>3, <1>4, <1>5, <1>6, <1>7, <1>8 DEF Moves

\* A merged segment is one the session sees, even where AppendSegment refused it.
LEMMA MergedIsSeen ==
    ASSUME TypeOK, NEW w \in Workers, WorkerStart(w) \/ WorkerStep(w)
    PROVE  /\ \A t \in Sessions \cup {Nobody} : Seen(t) \subseteq Seen(t)'
           /\ Merges(jobs[w], jobs'[w])
                => jobs[w].segs \subseteq jobs'[w].segs \cup Seen(SessionOf[w])'
<1>1. segments \subseteq segments'
  BY WorkersOnlyAdd DEF WorkerKeeps
<1>2. \A t : Seen(t) \subseteq Seen(t)'
  BY <1>1 DEF Seen
<1>3. ASSUME Merges(jobs[w], jobs'[w]), NEW c \in jobs[w].segs, c \notin jobs'[w].segs
      PROVE  c \in Seen(SessionOf[w])'
  <2>1. jobs[w].pc = "segs"
    BY <1>3 DEF Merges
  <2>2. MergeSegment(w)
    BY <2>1 DEF WorkerStart, Lookup, Busy, StartRule, StartUntriggered, StartExpansion, Start,
       StartGoal, WorkerStep, Filter, MergeEdge, CheckHost, MergeHost, ListHost, EndHosts,
       Schedule, Answer, AllowHostSegments, Finish
  <2>3. PICK d \in jobs[w].segs :
          /\ AppendSegment(d, jobs[w].zone, SessionOf[w])
          /\ Step(w, [jobs[w] EXCEPT !.segs = @ \ {d}])
    <3>1. jobs[w].segs # {}
      BY <1>3
    <3> QED
      BY <2>2, <3>1 DEF MergeSegment
  <2>4. c = d
    <3> DEFINE j == jobs[w]
    <3>1. j \in Job
      BY DEF TypeOK
    <3>2. jobs'[w] = [j EXCEPT !.segs = @ \ {d}]
      BY <2>3, StepMoves
    <3>3. jobs'[w].segs = jobs[w].segs \ {d}
      <4> HIDE DEF j
      <4>1. jobs'[w].segs = j.segs \ {d}
        BY <3>1, <3>2 DEF Job
      <4> QED
        BY <4>1 DEF j
    <3> QED
      BY <1>3, <3>3
  <2>5. \E g \in segments' : g.cidr = c /\ g.owner \in {SessionOf[w], Nobody}
    <3>1. SessionOf[w] # Nobody
      BY OwnersDistinct, WorkersTyped
    <3>2. CASE SegmentTaken(c, SessionOf[w])
      BY <2>3, <2>4, <3>1, <3>2 DEF AppendSegment, SegmentTaken, SameOwnerRule
    <3>3. CASE ~SegmentTaken(c, SessionOf[w])
      <4> DEFINE g == [cidr |-> c, zone |-> jobs[w].zone, owner |-> SessionOf[w],
                       at |-> appends.segments]
      <4>1. g \in segments' /\ g.cidr = c /\ g.owner = SessionOf[w]
        BY <2>3, <2>4, <3>3 DEF AppendSegment
      <4> HIDE DEF g
      <4> QED
        BY <4>1
    <3> QED
      BY <3>2, <3>3
  <2> QED
    BY <2>5 DEF Seen
<1> QED
  BY <1>2, <1>3

LEMMA SegStep ==
    ASSUME Alone \/ LLMNamed
    PROVE  TypeOK /\ OrphanInv /\ SegInv /\ [Next]_vars => SegInv'
<1> SUFFICES ASSUME TypeOK, OrphanInv, SegInv, [Next]_vars
             PROVE  SegInv'
  OBVIOUS
<1>0. Nobody \notin registered /\ Nobody \notin Sessions
  BY OwnersDistinct DEF TypeOK
<1>1. CASE UNCHANGED vars
  BY <1>1 DEF SegInv, Seen, SegJob, Busy, vars
<1>2. ASSUME NEW w \in Workers, WorkerStart(w) \/ WorkerStep(w)
      PROVE  SegInv'
  <2> DEFINE s == SessionOf[w]
  <2>0. s \in Sessions /\ UNCHANGED registered
    BY <1>2, BusyKept, WorkersTyped
  <2>1. /\ \A t \in Sessions \cup {Nobody} : Seen(t) \subseteq Seen(t)'
        /\ Merges(jobs[w], jobs'[w]) => jobs[w].segs \subseteq jobs'[w].segs \cup Seen(s)'
    BY <1>2, MergedIsSeen
  <2>2. \A h \in hosts' : h.owner \in registered => h.cidr \in Seen(h.owner)'
    <3> SUFFICES ASSUME NEW h \in hosts', h.owner \in registered
                 PROVE  h.cidr \in Seen(h.owner)'
      OBVIOUS
    <3>0. h.owner \in Sessions
      BY DEF TypeOK
    <3>1. CASE h \in hosts
      BY <2>1, <3>0, <3>1 DEF SegInv
    <3>2. CASE h \notin hosts
      <4>1. MergeHost(w) /\ h.cidr = jobs[w].cur[2] /\ h.owner = s
        BY <1>2, <3>2, WorkerHosts DEF AppendHost
      <4>2. SegJob(jobs[w], Seen(s)) /\ jobs[w].pc = "append"
        BY <4>1 DEF SegInv, Busy, MergeHost
      <4> QED
        BY <2>0, <2>1, <4>1, <4>2 DEF SegJob
    <3> QED
      BY <3>1, <3>2
  <2>3. ASSUME NEW v \in Workers, Busy(v)', SessionOf[v] \in registered
        PROVE  SegJob(jobs'[v], Seen(SessionOf[v])')
    <3>0. SessionOf[v] \in Sessions
      BY WorkersTyped
    <3>1. CASE v # w /\ jobs'[v] = jobs[v]
      <4>1. SegJob(jobs[v], Seen(SessionOf[v]))
        BY <2>3, <3>1 DEF SegInv, Busy
      <4> QED
        BY <2>1, <3>0, <3>1, <4>1, SegJobGrows
    <3>2. CASE v # w /\ Asking(jobs'[v])
      BY <3>2, RestingSeg
    <3>3. CASE v = w /\ Lookup(w) /\ jobs'[w] = Ready(0)
      BY <3>3, RestingSeg, RestingKinds
    <3>4. CASE v = w /\ Moves(jobs[w], jobs'[w]) /\ Busy(w)
      <4>1. SegJob(jobs[w], Seen(s))
        BY <2>3, <3>4 DEF SegInv
      <4>2. BaseSegments \subseteq Seen(s)'
        BY <2>0, <2>1 DEF SegInv, Seen
      <4> QED
        BY <2>0, <2>1, <3>4, <4>1, <4>2, SegJobMoves
    <3>5. Begins(jobs[w], jobs'[w]) \/ BeginsGoal(jobs[w], jobs'[w])
             => Busy(w) /\ Moves(jobs[w], jobs'[w])
      BY DEF Begins, BeginsGoal, Busy, Moves
    <3>6. WorkerStep(w) => Busy(w)
      BY DEF WorkerStep, Filter, MergeSegment, MergeEdge, CheckHost, MergeHost, ListHost,
         EndHosts, Schedule, Answer, AllowHostSegments, Finish, Busy
    <3> QED
      BY <1>2, <3>1, <3>2, <3>3, <3>4, <3>5, <3>6, OthersMove, WorkerStartMoves,
         WorkerStepMoves
  <2>4. BaseSegments \subseteq Seen(Nobody)'
    BY <2>1 DEF SegInv
  <2> QED
    BY <2>0, <2>2, <2>3, <2>4 DEF SegInv
<1>3. ASSUME NEW s \in Sessions, DeleteSession(s)
      PROVE  SegInv'
  <2>1. /\ registered' = registered \ {s} /\ UNCHANGED jobs
        /\ hosts' = {x \in hosts : x.owner # s} /\ segments' = {x \in segments : x.owner # s}
    BY <1>3 DEF DeleteSession, RemoveSessionArtifacts, Kept
  <2>2. \A t \in (Sessions \cup {Nobody}) \ {s} : Seen(t)' = Seen(t)
    BY <1>0, <2>1 DEF Seen
  <2>3. \A h \in hosts' : h.owner \in registered' => h.cidr \in Seen(h.owner)'
    BY <2>1, <2>2 DEF SegInv, TypeOK
  <2>4. ASSUME NEW v \in Workers, Busy(v)', SessionOf[v] \in registered'
        PROVE  SegJob(jobs'[v], Seen(SessionOf[v])')
    BY <2>1, <2>2, <2>4, WorkersTyped DEF SegInv, Busy
  <2>5. BaseSegments \subseteq Seen(Nobody)'
    BY <1>0, <2>2 DEF SegInv
  <2> QED
    BY <2>3, <2>4, <2>5 DEF SegInv
<1>4. ASSUME NEW s \in Sessions, CreateSession(s)
      PROVE  SegInv'
  <2>1. /\ registered' = registered \cup {s} /\ s \notin registered \cup gone
        /\ UNCHANGED <<hosts, segments, jobs>>
    BY <1>4 DEF CreateSession, graph
  <2>2. \A h \in hosts : h.owner # s
    BY <1>0, <2>1 DEF OrphanInv, OrphansComeFromRaces, TypeOK
  <2>3. \A v \in Workers : Busy(v) => SessionOf[v] # s
    BY <2>1 DEF OrphanInv, JobsOwned, TypeOK
  <2> QED
    BY <2>1, <2>2, <2>3 DEF SegInv, Seen, Busy
<1>5. ASSUME NEW s \in Sessions, Login(s) \/ Denied(s) \/ \E ip \in IPs : Ssh(s, ip)
      PROVE  SegInv'
  <2>1. UNCHANGED <<hosts, segments, jobs, registered>>
    BY <1>5 DEF Login, Denied, Ssh, graph
  <2> QED
    BY <2>1 DEF SegInv, Seen, Busy
<1> QED
  BY <1>1, <1>2, <1>3, <1>4, <1>5 DEF Next

(* However planners, goals, expansions, deletions and other sessions interleave,
   a host's subnet has a segment its owner can see. Only a plan of the LLM that
   names hosts of a network it does not bring along may break that, and only where
   another session's segment makes ValidateTopologyPlan accept it. *)
THEOREM HostsReachable ==
    ASSUME Alone \/ LLMNamed
    PROVE  Spec => []HostsHaveSegments
<1>1. Init => SegInv /\ OrphanInv
  <2> SUFFICES ASSUME Init
               PROVE  SegInv /\ OrphanInv
    OBVIOUS
  <2>1. \A v \in Workers : ~Busy(v)
    BY DEF Init, Busy, Idle
  <2>2. BaseSegments \subseteq Seen(Nobody)
    <3> SUFFICES ASSUME NEW c \in BaseSegments
                 PROVE  c \in Seen(Nobody)
      OBVIOUS
    <3> DEFINE g == [cidr |-> c, zone |-> "internal", owner |-> Nobody, at |-> 0]
    <3>1. g \in segments /\ g.cidr = c /\ g.owner = Nobody
      BY DEF Init
    <3> HIDE DEF g
    <3> QED
      BY <3>1 DEF Seen
  <2>3. registered = {}
    BY DEF Init
  <2>4. OrphanInv
    BY <2>1 DEF Init, OrphanInv, OrphansComeFromRaces, JobsOwned
  <2> QED
    BY <2>1, <2>2, <2>3, <2>4 DEF SegInv
<1>2. SegInv => HostsHaveSegments
  BY DEF SegInv, Seen, HostsHaveSegments
<1>3. TypeOK /\ OrphanInv /\ SegInv /\ [Next]_vars => SegInv'
  BY SegStep
<1> QED
  BY <1>1, <1>2, <1>3, OrphanStep, TypeCorrect, PTL DEF Spec

-----------------------------------------------------------------------------
(* Networks given to the safety policy                                     *)
(*                                                                         *)
(* A rule plan or an expansion hands its networks over only at its end, so *)
(* until then the host is accounted for by a job that carries it in added; *)
(* that includes the job whose AppendHost was refused because another one  *)
(* had appended the host first.                                            *)

LLMStaysHome == \A p \in LLMPlans : Routed(p.hosts, BaseSegments)

AllowJob(j, nets) ==
    j.kind \notin {"rule", "expand"} =>
        /\ Routed(j.hosts \cup j.then.hosts, nets)
        /\ j.pc = "append" => j.cur[2] \in nets

Carries(j, c) ==
    /\ j.kind \in {"rule", "expand"} /\ j.pc \in Carrying
    /\ \E x \in j.added : x[2] = c

NetInv ==
    /\ \A h \in hosts : h.cidr \in allowed \/ \E w \in Workers : Carries(jobs[w], h.cidr)
    /\ \A w \in Workers : AllowJob(jobs[w], allowed)
    /\ BaseSegments \subseteq allowed

LEMMA AllowJobMoves ==
    ASSUME LLMStaysHome, NEW j, NEW k, Moves(j, k), AllowJob(j, allowed),
           allowed \subseteq allowed', BaseSegments \subseteq allowed
    PROVE  AllowJob(k, allowed')
<1>1. CASE Rests(j, k) \/ Allows(j, k)
  BY <1>1 DEF Rests, Allows, Resting, AllowJob, Routed, NoPlan
<1>2. CASE Begins(j, k)
  BY <1>2 DEF Begins, AllowJob
<1>3. CASE BeginsGoal(j, k)
  BY <1>3, NetworksGiven DEF BeginsGoal, Loads, AllowJob, Routed
<1>4. CASE Filters(j, k)
  BY <1>4 DEF Filters, Continues, AllowJob, Routed
<1>5. CASE Merges(j, k)
  BY <1>5 DEF Merges, Continues, AllowJob, Routed
<1>6. CASE Appends(j, k)
  BY <1>6 DEF Appends, Continues, AllowJob, Routed
<1>7. CASE Chains(j, k)
  BY <1>7 DEF Chains, Loads, AllowJob, Routed, NoPlan
<1>8. CASE Answers(j, k)
  BY <1>8 DEF Answers, Continues, Loads, AllowJob, Routed, LLMStaysHome
<1> QED
  BY <1>1, <1>2, <1>3, <1>4, <1>5, <1>6, <1>7, <1>8 DEF Moves

LEMMA CarriesMoves ==
    ASSUME NEW j, NEW k, NEW c, Moves(j, k), Carries(j, c)
    PROVE  Carries(k, c) \/ c \in allowed'
<1>0. j.pc \in Carrying /\ j.kind \in {"rule", "expand"}
  BY DEF Carries
<1>1. CASE Allows(j, k)
  BY <1>1 DEF Allows, Carries
<1>2. CASE Merges(j, k)
  BY <1>0, <1>2 DEF Merges, Continues, Carries, Carrying
<1>3. CASE Appends(j, k)
  BY <1>3 DEF Appends, Continues, Carries, Carrying
<1> QED
  BY <1>0, <1>1, <1>2, <1>3
  DEF Moves, Rests, Begins, BeginsGoal, Filters, Chains, Answers, Carrying

LEMMA AllowedGrows ==
    ASSUME [Next]_vars
    PROVE  allowed \subseteq allowed'
<1>1. CASE UNCHANGED vars
  BY <1>1 DEF vars
<1>2. ASSUME NEW w \in Workers, WorkerStart(w) \/ WorkerStep(w)
      PROVE  allowed \subseteq allowed'
  BY <1>2 DEF WorkerStart, Lookup, StartRule, StartUntriggered, StartExpansion, Start,
     StartGoal, WorkerStep, Filter, MergeSegment, MergeEdge, CheckHost, MergeHost, ListHost,
     EndHosts, Schedule, Answer, AllowHostSegments, Finish
<1>3. ASSUME NEW s \in Sessions,
             \/ CreateSession(s) \/ DeleteSession(s) \/ Login(s) \/ Denied(s)
             \/ \E ip \in IPs : Ssh(s, ip)
      PROVE  UNCHANGED allowed
  BY <1>3 DEF CreateSession, DeleteSession, Login, Denied, Ssh
<1> QED
  BY <1>1, <1>2, <1>3 DEF Next

LEMMA NetStep ==
    ASSUME LLMStaysHome
    PROVE  TypeOK /\ NetInv /\ [Next]_vars => NetInv'
<1> SUFFICES ASSUME TypeOK, NetInv, [Next]_vars
             PROVE  NetInv'
  OBVIOUS
<1>0. allowed \subseteq allowed' /\ BaseSegments \subseteq allowed'
  BY AllowedGrows DEF NetInv
<1>1. ASSUME hosts' \subseteq hosts, UNCHANGED jobs
      PROVE  NetInv'
  BY <1>0, <1>1 DEF NetInv, AllowJob, Routed
<1>2. CASE UNCHANGED vars
  BY <1>1, <1>2 DEF vars
<1>3. ASSUME NEW w \in Workers, WorkerStart(w) \/ WorkerStep(w)
      PROVE  NetInv'
  <2>1. ASSUME NEW v \in Workers
        PROVE  \/ jobs'[v] = jobs[v]
               \/ Asking(jobs'[v]) /\ ~Busy(v)
               \/ v = w /\ Lookup(w) /\ jobs'[w] = Ready(0)
               \/ v = w /\ Moves(jobs[w], jobs'[w])
    BY <1>3, OthersMove, WorkerStartMoves, WorkerStepMoves DEF Moves
  <2>2. ASSUME NEW v \in Workers
        PROVE  AllowJob(jobs'[v], allowed')
    <3>1. CASE jobs'[v] = jobs[v]
      BY <1>0, <3>1 DEF NetInv, AllowJob, Routed
    <3>2. CASE Asking(jobs'[v])
      BY <3>2 DEF Asking, AllowJob, Routed, NoPlan
    <3>3. CASE v = w /\ jobs'[w] = Ready(0)
      BY <3>3, RestingKinds DEF Resting, AllowJob, Routed, NoPlan
    <3>4. CASE v = w /\ Moves(jobs[w], jobs'[w])
      BY <1>0, <3>4, AllowJobMoves DEF NetInv
    <3> QED
      BY <2>1, <3>1, <3>2, <3>3, <3>4
  <2>3. ASSUME NEW v \in Workers, NEW c, Carries(jobs[v], c)
        PROVE  c \in allowed' \/ Carries(jobs'[v], c)
    <3>1. Busy(v) /\ jobs[v].pc # "idle"
      BY <2>3 DEF Carries, Carrying, Busy
    <3>2. ~(v = w /\ Lookup(w))
      BY <3>1 DEF Lookup
    <3> QED
      BY <2>1, <2>3, <3>1, <3>2, CarriesMoves
  <2>4. ASSUME NEW h \in hosts'
        PROVE  h.cidr \in allowed' \/ \E v \in Workers : Carries(jobs'[v], h.cidr)
    <3>1. CASE h \in hosts
      BY <1>0, <2>3, <3>1 DEF NetInv
    <3>2. CASE h \notin hosts
      <4>1. MergeHost(w) /\ h.cidr = jobs[w].cur[2]
        BY <1>3, <3>2, WorkerHosts DEF AppendHost
      <4>2. CASE jobs[w].kind \notin {"rule", "expand"}
        BY <1>0, <4>1, <4>2 DEF NetInv, AllowJob, MergeHost
      <4>3. CASE jobs[w].kind \in {"rule", "expand"}
        <5> DEFINE j == jobs[w]
        <5>1. j \in Job
          BY DEF TypeOK
        <5>2. jobs'[w] = [j EXCEPT !.pc = "list", !.added = @ \cup {j.cur}]
          BY <4>1, StepMoves DEF MergeHost
        <5>3. h.cidr = j.cur[2] /\ j.kind \in {"rule", "expand"}
          BY <4>1, <4>3
        <5> HIDE DEF j
        <5>4. Carries(jobs'[w], h.cidr)
          BY <5>1, <5>2, <5>3 DEF Job, Carries, Carrying
        <5> QED
          BY <5>4
      <4> QED
        BY <4>2, <4>3
    <3> QED
      BY <3>1, <3>2
  <2> QED
    BY <1>0, <2>2, <2>4 DEF NetInv
<1>4. ASSUME NEW s \in Sessions,
             \/ CreateSession(s) \/ DeleteSession(s) \/ Login(s) \/ Denied(s)
             \/ \E ip \in IPs : Ssh(s, ip)
      PROVE  hosts' \subseteq hosts /\ UNCHANGED jobs
  BY <1>4 DEF CreateSession, DeleteSession, RemoveSessionArtifacts, Kept, Login, Denied, Ssh,
     graph
<1> QED
  BY <1>1, <1>2, <1>3, <1>4 DEF Next

(* Once every goroutine has come to rest the safety policy knows the network of
   every host, whichever of two racing planners appended it, when the LLM's plans
   place hosts only in configured networks: nobody hands the others over. *)
THEOREM NetworksGivenAtRest ==
    ASSUME LLMStaysHome
    PROVE  Spec => []NetworksAllowedAtRest
<1>1. Init => NetInv
  <2> SUFFICES ASSUME Init
               PROVE  NetInv
    OBVIOUS
  <2>1. \A h \in hosts : h.cidr \in allowed
    <3> SUFFICES ASSUME NEW b \in BaseHosts
                 PROVE  b[2] \in allowed
      BY DEF Init
    <3> QED
      BY NetworksGiven DEF Init, Routed
  <2>2. \A w \in Workers : AllowJob(jobs[w], allowed)
    BY DEF Init, Idle, AllowJob, Routed, NoPlan
  <2> QED
    BY <2>1, <2>2 DEF Init, NetInv
<1>2. NetInv => NetworksAllowedAtRest
  BY DEF NetInv, NetworksAllowedAtRest, Carries, Carrying, Busy
<1>3. TypeOK /\ NetInv /\ [Next]_vars => NetInv'
  BY NetStep
<1> QED
  BY <1>1, <1>2, <1>3, TypeCorrect, PTL DEF Spec
=============================================================================
