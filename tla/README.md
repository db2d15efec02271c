# AlterHive: a verification development

AlterHive is an SSH deception service. An attacker who logs in is given a simulated
Linux machine inside a simulated network; while he explores, the service grows the
network in front of him (planned by rules and, in the background, by an LLM), answers
his commands from rules, caches or the LLM, and never lets a command reach a real host.
This directory models the parts of it where goroutines, caches and long command
sequences meet, checks the models with TLC, and proves the main results with TLAPS.

Paths below are relative to the repository; `manager.go` is
`internal/session/manager.go`, `models.go`, `topology.go`, `safety.go` are in
`internal/domain`, and `topology_planner.go`, `goal.go`, `expander.go`,
`orchestrator.go` are in `internal/deception`.

## 1. The system

### Components, their state and their operations

| Component | State | Operations | What makes it correct |
|---|---|---|---|
| Illusion graph (`topology.go`) | `hosts`, `segments`, `edges` of one `VirtualTopology`, shared by all sessions, under one mutex | `AppendHost/Segment/Edge`, `GetHost`, `GetHostForSession`, `UpdateEdgeStatus`, `RemoveSessionArtifacts` | one host per address and owner; lookups stable; deletion removes exactly what a session owns |
| Topology planner (`topology_planner.go`), goals (`goal.go`), expansion (`expander.go`) | `inflight` table | `PlanDecision`, `MergePlan`, `scheduleLLMPlan` (goroutine, 60 s), `InjectGoalTopology`, `ExpandShadowTopology` | plans merge only if valid; protected targets never created; one LLM goroutine per command |
| Session manager (`manager.go`) | `sessions`, `sessionsByAddr`, `worlds`, `frustration` | `GetOrCreateSession`, `CreateSession`, `ExecuteCommand`, `MarkDisconnected`, `DeleteSession`, idle cleaner (30 s ticker) | one session per attacker; index points at live sessions; idle sessions end |
| Session context (`models.go`) | SSH stack, pending auth, world, command log, shadow hosts | `EnterRemoteHost`, `ExitRemoteHost`, `ClearPendingSSHAuth`, `ResetToEntryHost`, `Touch`, `ReusableWithin` | the stack returns where it came from; prompts end |
| Planning state (`models.go`) | active plan, versions, response cache, candidate files, protected targets | `SetActivePlan*`, `InvalidateActivePlan`, `EvaluateActivePlan`, `LookupResponse`, `StoreResponse`, `StoreCandidateFile`, `PromoteCandidateFiles` | no stale answer; invalidated plans are not used |
| Gates, PPF, dead ends, frustration (`gates.go`, `loop.go`, `deadend.go`, `frustration.go`) | evidence hits, metrics, access states, dead-end and expansion counters, the results of the last twenty commands | `AdvanceGatesFromInteraction`, `ShouldTriggerPPF`, `ShouldExpand`, `MarkExpanded`, `Analyze` | gates unlock in order; an engaged attacker is fed, once; walls lead to expansions, a limited number; clues answer real failures |
| Orchestrator (`orchestrator.go`, `planner_agent.go`, `plan_executor.go`, `intent_router.go`, `evidence_agent.go`, `event_bus.go`) | planned-intent map, router's cache, event subscriptions | `HandleCommandEvent`, `Route`, `Publish`, `onPlanningEvent` | invalidated plans are replaced; evidence is shown when it has been earned |
| Host file systems (`world.go`, `responders/shell.go`) | one unlocked file map and one rule cache per host | `AddFile`, `InjectLsOutput`, `InjectCatOutput`, `InvalidateDir` | what was written or told stays; no stale rule after a write |
| Safety policy (`safety.go`) | allowed CIDRs | `AllowCIDR`, `ValidateCommandTargets` | every illusion network is allowed, nothing else |
| Rule engine (`engine/rule_engine.go`) and responders | shell modes, dynamic rule cache | `HandleCommand`, one responder per protocol | modes end; answers agree with the graph |
| SSH server (`protocols/strategies/SSH/ssh.go`) | one goroutine per connection | `handleConnection`, password check, exit/logout | nested exits unwind, disconnects are marked |
| Simulation API (`api/`) | JWT auth, REST reads, session deletion | `simulate`, `dispatchSim`, CRUD handlers | same lifecycle as SSH |
| LLM manager (`llm/`) | configuration, live providers, the active one, `llm.yaml` | `IsActive`, `Complete`, `SwitchProvider`, `SetEnabled`, `UpdateProvider`, `TestConnection`, start | what is shown is what is used; a restart brings it back; secrets of the environment stay out of the file |
| Tracer (`tracer/`) | channel of 5, 5 workers | `TraceEvent` | events are delivered |
| Front end, configuration parser, profiles, prompts | none of interest | rendering, parsing | outside the model |

### How they interact

One goroutine per SSH connection (or simulation request) runs `ExecuteCommand`: it looks
the session up under the manager's lock, lets the lock go and keeps the pointer; it then
runs safety check, goal injection, `orchestrator.BeforeResponse` (deterministic plan now,
LLM plan in a goroutine of its own), PPF expansion, response cache or rule engine, gate
advance, dead-end expansion, frustration analysis, and logs the command. All of these
write the one shared graph. The simulation API runs the same path for the same
sessions. `DeleteSession` and the idle cleaner run at any time. `VirtualTopology`,
`PlanningState`, `SafetyPolicy` and the manager's maps have a mutex each, held for one
call; many fields of `SessionContext` (`World`, `PendingSSHAuth`, `SuppressShellPrompt`,
`LastActivity`) have none.

### What is hard about it

Interleaved planners on one graph (check, then append); the asynchronous LLM plan that
lands after its session changed or was deleted; the reuse of one session by several
connections; the versions of the response cache, read before an answer is computed and
again when it is stored; nested SSH, whose prompt, stack and file system are replaced in
separate steps; counters at their limits. The complete list, with lines, is under
`hazards` in `PROJECT.json`.

## 2. The plan

The order follows how much of the system depends on a part.

| Step | Modules | State |
|---|---|---|
| 1 | `IllusionGraph`, `MCIllusionGraph`, `IllusionGraph_proofs` | done |
| 2 | `SessionRegistry`, `MCSessionRegistry`, `SessionRegistry_proofs` | done |
| 3 | `NestedShell`, the abstract `ShellPath`, `MCNestedShell`, `NestedShell_proofs` | done |
| 4 | `PlanningCache`, `MCPlanningCache`, `PlanningCache_proofs` | done |
| 5 | `AgentPipeline`: planned-intent table, router with its cache, executor, agents, event bus and cold path; `MCAgentPipeline`, `AgentPipeline_proofs` | done |
| 6 | `Progress`: evidence, gates, the PPF trigger, dead ends and frustration of overlapping commands; `MCProgress`, `Progress_proofs` | done |
| 7 | `HostFiles`: file systems and rule caches, written by commands, clues and the LLM's goroutines; `MCHostFiles`, `HostFiles_proofs` | done |
| 8 | `LLMManager`: providers, requests, the configuration file and restarts; `MCLLMManager`, `LLMManager_proofs` | done |
| 9 | Proofs of the remaining safety properties: `HostFiles`; `HostsHaveSegments`, `RemovalIsOwned`, `NetworksAllowedAtRest` of `IllusionGraph`; `WorldFits` and `PasswordsAnswered` of `NestedShell` | done |

Abstract specifications: `ShellPath` (done). One worth stating yet is a set of hosts per
owner, which `IllusionGraph` would implement with its three slices.

## 3. The modules

### `IllusionGraph`: the shared graph and everything that writes it

| TLA+ | Code |
|---|---|
| `hosts`, `segments`, `edges` | the three slices of `VirtualTopology`; an element is a record with its owner, and `at`, the count of appends before it, stands for its place in the slice: lookups take the first match |
| `registered`, `gone`, `raced` | sessions in the manager's table; deleted ones; deleted ones that had a job running (auxiliary) |
| `jobs[w]` | a goroutine's place in a planner path: `kind` is the path, `pc` the call it makes next |
| `inflight` | the planner's table of commands being planned by the LLM |
| `allowed` | the safety policy's networks |
| `protected`, `listed`, `pending` | protected targets, the session's list of shadow hosts (with multiplicity), the host of its password prompt |

Every locked call is one step and everything between two calls may interleave:
`CheckHost`, `MergeHost` and `ListHost` are the three separate calls of one turn of
`MergePlan`'s loop. `ParseGoal`, `PlanFromDecision` and the LLM's JSON are abstracted to
which plan they yield (`RulePlans`, `LLMPlans`, `Goals`, `Expansions`).

### `SessionRegistry`: the manager's table

`sessions`, `index`, `keyOf` are `sessions`, `sessionsByAddr` and the key a session was
created under; `idle` and `since` are the ages of `LastActivity` and `DisconnectedAt`
(`Connected` for nil), which stop growing just past the timeout, the only value they are
compared with. An arrival is `Lookup` (read lock) and later `Reuse` or `Create` (write
lock), as in `GetOrCreateSession`. `Tick` is the passing of time, `Clean` one firing of
the cleaner's ticker, `Delete` the operator's request.

### `NestedShell` and `ShellPath`: one session's shell

`at`, `world`, `target`, `stack` are `SubnetLocalIP` (with host name, user and
directory), `World`, `CurrentTarget`, `SSHStack`; `pending` and `prompts` the
`PendingSSH` objects, which connections hold pointers to; `suppress` is
`SuppressShellPrompt`, `mode` is `ShellMode`. A login is `Right` (the password), `Enter`
(the stack, under the mutex) and `Mount` (the file system, outside it), a logout
`ExitRemoteHost` and `Restore`. `told` and `knows` are what the terminal of a connection
shows: whether it asks for a password, and for which host. `ShellPath` is what the shell
promises: a path of hosts extended by one, shortened by one or cut to the entry host;
`NestedShell` implements it with the stack and the current host as the path.

### `PlanningCache`: the active plan and the cached answers of one session

| TLA+ | Code |
|---|---|
| `content` | changes so far to what answers are computed from: files, graph, registered facts |
| `cache` | `responseCache`; `current` says that both versions stored with the answer are still the session's |
| `announced`, `level`, `host`, `raced` | auxiliary: the change up to which the versions were raised; the content and host of an answer; whether it was overtaken |
| `active`, `started`, `cacheable` | `ActivePlanID`, `ActivePlanStartedAtCommand`, `ResponseCacheable` |
| `log`, `candidates` | the lengths of `CommandLog` and of `candidateFiles` |
| `at`, `target`, `stack` | as in `NestedShell`, whose logins are single steps here |
| `pc`, `cmd`, `home`, `key`, `plan` | the stage of each command or goroutine with its locals |

A command walks through the stages of `ExecuteCommand` in their order: safety test
(`Type`), goal (`InjectGoal`, `AnnounceGoal`), promotion (`Promote`, `PlaceFiles`),
decision (`Decide`, `Replan`), plan (`MergePlan`, `AnnouncePlan`, `ActivatePlan`,
`Schedule`), agents (`AddFile`, `AnnounceFile`, `StoreCandidateFile`, `StoreFact`), PPF
(`TriggerPPF`), cache (`MakeKey`, `Hit`, `Miss`), answer (`HandleCommand`,
`StoreResponse`), write (`AnnounceWrite`), clues (`Enrich`), log (`AppendCommand`). The
method that changes something and the one that raises the version are separate calls in
the code and separate steps here.

What is abstracted: versions are compared only for equality and only grow, so `current`
replaces them; user and directory are one value, `Account`, of the host (they differ
between the entry account and logins, not between logins as one user); a plan's id fixes
its lifetime class, invalidators and cacheability, as the phase policies of
`topology_planner.go` do; the router's judgement of a command is a choice within
`Planned` and `Breaking`; a file that `llmFallback` writes while it answers is one of the
unannounced changes of `Enrich`. `len(CommandLog)` is read in the step that uses it.

### `HostFiles`: file systems and remembered answers

| TLA+ | Code |
|---|---|
| `files`, `rules` | `WorldState.files` and `DynamicRuleCache.rules` of each host; world 0 is the entry host's, every login makes another |
| `world`, `cwd`, `user`, `stack`, `mode` | the session's `World`, `CWD`, `User`, `SSHStack`, `ShellMode` |
| `active` | `LLM.IsActive()`, which the operator changes |
| `jobs` | goroutines of `llmFallback` and `handleComplexAsync` between asking and writing |

A command is answered (`Answered`), changes something (`Echo`, `Cd`, `Chdir`, `Sudo`,
`Python`) or is declined; what is declined finds a rule (`Lookup`) or starts a goroutine
(`AskLLM`), whose answer arrives (`Answer`), becomes a rule (`Store`) and is written into
the files (`InjectCatOutput`, `InjectLsOutput`) in separate steps, as in the code. A
write drops rules (`InvalidateDir`). Clues and notes (`PlantNotes`, `BlankNotes`,
`Contradict`, `PlantClue`) are put by the session manager. `Crash` is Go's end of a
process whose map two goroutines use at once, one of them writing. A path is the sequence
of its names; contents are the seed's, the attacker's, a clue's or an answer.

### `AgentPipeline`: what a command sets off before it is answered

| TLA+ | Code |
|---|---|
| `goal`, `phase`, `active`, `log` | `AttackerGoal`, `CurrentPhase`, the active plan with its invalidators, lifetime and the command it started at, `len(CommandLog)` |
| `hits`, `gates` | evidence hits and access states, which canRevealEvidence reads |
| `nested` | `IsNestedSSH`, which another connection may change at any time |
| `hosted`, `leads` | places that have a host, and those that only have a goal's segment |
| `files`, `candidates` | placed evidence, and `candidateFiles` |
| `planned`, `intents`, `bus`, `job` | the planned table, the router's cache, the event bus's goroutines, the LLM's goroutines |
| `judged`, `typedAt` | auxiliary: that the executor found the plan invalid and none was set since, and when the command was typed |

Before the orchestrator, `ExecuteCommand` may block the line (`Block`, `LogBlocked`:
the active plan goes, the line is logged, nothing else runs) and looks for a goal in the
first commands (`InjectGoal`, `SetGoal`); the operator may set one too (`SimulateGoal`).
`HandleCommandEvent` is a sequence of steps, one per numbered step of the code: `Execute`,
`Promote`, `RouteFast`/`RouteCached`/`RouteAsking`, `Decide`, `Invalidate`,
`PlanMiss`/`PlanHit` and `MergeRulePlan`/`Schedule`, `PatchWorld`, `PlanEvidence` and
`ApplyEvidence`, `Publish`; `Deliver` and `PlanCold` are the cold path, `EnterShell` and
`LeaveShell` what other connections do to the shell. What a line means (`RouteIntent`'s
keyword tests) is the constant `Said`, what the LLM may make of it `Guesses`, which
invalidators its words trip `Trips`, its goal `GoalOf`; what becomes of an intent
(`Settled`, `Sanitized`, `Merged`, `EventsOf`) is modelled. `AttackerGoal` is a plan key
when the orchestrator set it and a signature `theme:network:address` when
`InjectGoalTopology` did; only the latter can equal the signature it is compared with.
The plans of the rules carry the invalidators of `defaultPlanInvalidators`, those of the
LLM any (`LLMPlans`). The graph itself is `IllusionGraph`'s: here a plan adds a host on at
most one place, and a network and an address in it are one place, so that goals that
differ in their address only are told apart by `ip` alone.

### `Progress`: evidence, PPF, gates, dead ends, frustration

One command of a connection goes through `Discover` and `Meter` (evidence and metrics),
`CheckPPF`/`InjectPPF`, `Answer` (the responder's evidence and the gates),
`UnlockLegacy` and `UnlockTarget` (the second call of `UnlockGate`, and the gate that
depends on others), `CheckPPF` again, `Struggle`, `MeetWall`, `Expand` (dead ends),
`Analyze` (under the analyser's lock), `PlantNotes` or `ContradictLog` (after it), and
`LogCommand`. A line that the safety policy blocks (`Block`) is only logged. A password
at a prompt (`Login`) opens the gate of its host outside the log; `NestedShell` says when
one is asked for. Every structure is locked per call only, so commands of several
connections interleave between these steps. Which rules a line matches and what it may be
answered are constants; the classification of a failure, the window of results, the
action it recommends, the gate table and all thresholds are modelled, the thresholds as
parameters. `blocked` and `injected` are auxiliary. The notes are one file of one world:
that a second host's file system gets its own is `HostFiles`'.

### `LLMManager`: providers, configuration, restarts

`config`, `providers`, `active` are the manager's fields, `disk` is `llm.yaml`. Callers
test `IsActive`, later read the provider (`Ask`, in `Complete`) and are answered. An
operator's update is `Put` (the handler reads the old key) and `Update`; a test of a
connection is `Test`, `TestURL`, `TestKey`, which write through a pointer without the
lock, or `TestLost` when a list that has grown since took the settings elsewhere. Every
`Save` may fail or leave an empty file; `Restart` loads what is there. `touched`,
`tested`, `relit`, `unsaved` are auxiliary and say what a property has to except.

## 4. The runs

| Run | Instance | What it shows |
|---|---|---|
| `graph_race` | one session, two goroutines, two addresses | a command's plan, an LLM plan that also asks for the configured jump host, an expansion and a deletion race: no host or edge shadows another of its owner, what a deleted session leaves behind comes from a job that was running, every job ends, and its in-flight key goes with it |
| `graph_sessions` | two sessions, one goroutine each, the same address, logins over the jump host | listed hosts resolve, hosts have segments, a resolved address never changes, only a deletion removes, and only its own |
| `graph_goals` | two commands of one session, two goals, three networks | goals race with plans over the same networks; every network is allowed at rest |
| `graph_clues` | violation | clue files index past a partial list (section 6) |
| `registry_safe` | two connections, a user's key and the key of simulations, two sessions, timeout 2 | the index is live, no session is lost without a reason, connections keep to their own; idle sessions end and are forgotten |
| `shell_serial` | one connection at a time, entry host, two hosts of which one denies, three deep, an LLM configured | file systems fit their hosts, prompts have tries left and no password is run as a command |
| `shell_path` | two connections at once, two hosts, one deep | the shell implements `ShellPath` and a nested shell has a target |
| `cache_races` | two connections, one goroutine, three commands, a plan with a lifetime and one that forbids caching | an answer that can be served has seen what was announced unless it was overtaken; a plan outlives its lifetime by no more than the commands under way |
| `host_files` | two connections, two goroutines, the entry host and one login, two directories and a file in each, three commands | told files exist, the attacker's files and directories are not replaced by answers, repeated commands get the same answer, and a write drops the rules of its directory — each with the exceptions its statement names |
| `agents` | two connections, a scan that names a goal and may be blocked, a hunt that reads critical evidence and a complaint, a goal of the operator's, nested shells, two networks, one goroutine of the LLM | evidence is earned; no command works under a plan its executor found invalid; a replan is new |
| `progress` | two connections, a scan that may be blocked, a login and a complaint, four commands, passwords on the side, thresholds scaled down | evidence is counted, gates are layered, PPF is injected once per connection and reaches whoever is engaged, walls are answered, clues answer real failures of whoever gets them |
| `providers` | two providers of which one has a key in the environment, two operators, one caller, four changes | the active provider is the configured one, the environment's key stays out of the file unless a test brought it in, a disabled LLM is asked only late or after a switch, a restart restores the provider |

### Bounds and why they are enough

- `JobLimit` (commands started) is 2 or 3: two racing jobs and, for two sessions, one
  more that finds what they left. Each invariant relates at most two elements, or an
  element and its owner.
- `MaxSessions` 2 with two connections: the split of one attacker needs two. `Timeout` 2
  or 3 ticks for the 5 minutes: below, at and above it are distinct ages.
- `MaxTries` is the same for every remote prompt of an instance (`MaxAttempt` is 3, or 2
  for gateways and domain controllers; a prompt for the host itself has one in the code
  and in the model); it is 3 where prompts are counted. `MaxDepth` is 3 where
  stacked frames are compared with each other and 1 where two connections race for the
  top; a host stacked on itself occurs.
- `cache_races`: `MaxCommands` 3 counts commands logged and under way; `MaxChanges` 1
  limits the changes that a choice may add to `content`, while promotions and a command's
  own writes have no bound of their own. `TTL` is 2 instead of 20: it is the smallest
  lifetime that a plan survives one command of. `CacheLimit` is 1 instead of 128, so the
  cache is emptied; `GoalWindow` 1 instead of 5, so goals are closed off after the first
  command.
- `host_files`: three commands (`MaxTyped`) are a question, a write that overtakes its
  answer, and a repetition; two goroutines suffice for two answers to one question. One
  login (`MaxLogins`) gives answers another host to land on.
- `agents`: two commands of two connections (`MaxCommands` 2) overlap in every stage;
  `TTL` 2 lets a plan age while a command is under way; `IntentLimit` 1 empties the
  router's cache; `GoalWindow` 1 instead of 5 searches the first command only. One
  goroutine (`Jobs`) carries each of its tasks in turn. With two commands a plan found
  invalid is always dropped by a full replan of the same command or of the other; that
  it may also be gone before a lesser decision is covered by the theorem only.
- `progress`: `Committed` 1, `Threshold` 2, `MaxExpansions` 1 and `Window` 3 instead of 5,
  5, 3 and 20, so that four commands pass all of them; `Needed` is the code's 3.
- `providers`: four changes (`MaxChanges`) are an update, a test, a save that fails and a
  restart.
- Deadlock is not checked where a bound may stop the instance (`CHECK_DEADLOCK FALSE`);
  the registry, shell and file system instances run on and are checked for it.
- Symmetry is used in `shell_path` (connections, prompts, hosts), `cache_races`, `agents`
  and `progress` (connections), `host_files` (connections, goroutines, answers) and
  `providers` (operators): no definition picks one of the permuted values, and only
  safety is checked there.

### Fairness

`IllusionGraph!FairSpec` is weakly fair to `WorkerStep` of each goroutine: the Go
scheduler runs every goroutine and the LLM call has a 60 s timeout
(`topology_planner.go`, `scheduleLLMPlan`). Nothing is assumed of attackers and
operators. `SessionRegistry!FairSpec` is weakly fair to `Tick` and `Clean`: time passes
and the cleaner's ticker fires every 30 s (`manager.go:154`). Nobody has to connect,
disconnect or delete. No other run uses fairness: the other properties are safety
properties. What must eventually come is stated there as what must not be missing at rest
(`EngagedIsFed`, `WallsAnswered`), which needs no fairness.

## 5. What is proved

`*_proofs.tla` hold the theorems, for every value of the constants that satisfies the
named assumptions of the modules (names that must differ differ, tables have the declared
types, limits are natural numbers, the connections of a session are finitely many). Every safety
and action property of the passing runs is the statement of a theorem; four of the
theorems have a hypothesis besides (`Alone \/ LLMNamed`, `LLMStaysHome`, `OneAtATime`),
which is explained where it occurs and which the instances of section 4 satisfy.

**`IllusionGraph_proofs`.** `TypeCorrect`: `TypeOK` is inductive; it includes that a job
about to append or list holds a real host. `HostsUnique` (`NoShadowing`): inductive on
its own, since `AppendHost` repeats the test under its lock. `LookupStable`
(`ResolutionStable`): an appended host comes after those there, so the first match stays.
`OrphansOnlyFromRaces` (`OrphansComeFromRaces`): needs that the session of a busy job is
registered or raced. `ListedResolve` (`ListedHostsResolve`): needs in addition that a
job about to list a host has one that resolves, whichever job appended it, that hosts are
unique, and that sessions still to come list nothing. `OnlyOwnersRemove`
(`RemovalIsOwned`) goes through the steps one by one: only the three filters of a deletion
shorten a slice, and each keeps what is another's.

`HostsReachable` (`HostsHaveSegments`) needs to know where a plan's networks come from.
The assumption `NetworksGiven` says it of the plans the code makes by itself: each host
lies in a network of the same plan (`topology_planner.go:150-230`, where hosts are made
per chained CIDR; `themedHosts` in `expander.go`; the lead and the chain of a goal,
`goal.go:71-112`), and each configured host in a configured one. `SegInv` carries this
through a job: until its segments are merged, its hosts lie in them or in networks the
session sees; afterwards, in the latter. The hypothesis `Alone \/ LLMNamed` is about the
LLM's plans: either there is one session, and then `ValidateTopologyPlan` itself makes
the promise (`ValidIsSeen`), or those plans name only networks that they bring or that
are configured. Otherwise another session's segment makes validation accept a host that
its owner has no segment for (`topology_planner.go:778`, `:814`; section 6).

`NetworksGivenAtRest` (`NetworksAllowedAtRest`): a rule plan or an expansion hands its
networks over last, so until then `NetInv` accounts for a host by a job that carries it,
be it the one that appended it or one whose `AppendHost` was refused because another had
been faster. Its hypothesis `LLMStaysHome`, that the LLM places hosts in configured
networks only, is the limit of the code: nobody hands over the networks of what the LLM's
goroutine merges (`topology_planner.go:475`).

**`SessionRegistry_proofs`.** The invariant is `TypeOK`, `IndexLive`, `LostForAReason`,
`OwnSession`, and `IdsHandedOut`: ids in use have been handed out, so a new one is
nobody's. From it `TypeCorrect`, `IndexIsLive`, `NoSessionLost`, `SessionsApart`.

**`NestedShell_proofs`.** The invariant adds to `TypeOK` and `NestedHasTarget` that the
stack begins with the entry host (or is empty, and the session is there), and that
prompts which are entered are for hosts that can be reached. From it `TypeCorrect`,
`NestedTarget`, and `Implements`: every step of `NestedShell` is a step of `ShellPath` or
leaves the path alone. `PromptsLast`, the first half of `PasswordsAnswered`, holds for any
number of connections: a prompt that waits has tries left even where two answer it at
once. The other two are about `OneAtATime`, since a second connection can break both
(section 6): `FilesIsolated` (`WorldFits`), whose invariant `FilesFit` says at which stage
of a login or a logout the host has changed before the files; and `PasswordsUnlogged`
(`PasswordsAnswered`), where `Told` says that a terminal which asks for a password has a
prompt that waits.

**`PlanningCache_proofs`.** The invariant has two parts besides `TypeOK`. `Fresh`: what
was announced has happened; an answer on its way into the cache that was not overtaken
has seen it, and no promotion is half done; while one is half done, cached answers are
outdated or overtaken. `Timely`: the age of a plan and the number of commands that have
passed its test since are bounded together, so that each command that is logged ages the
plan by one and leaves one fewer under way. From it `TypeCorrect`, `CacheFresh`
(`StaleOnlyFromRaces`) and `PlanLife` (`PlanLifeBounded`).

**`AgentPipeline_proofs`.** Besides `TypeOK` and the properties themselves the invariant
says: a command is no older than the log (`Ages`); a verdict belongs to a command under
way (`Quiet`), and while the plan it was about is in force its ground still holds, because
the log it was reached on only grows, so the second evaluation agrees with it
(`Standing`); a goroutine that asks the router's question carries its key (`Asked`); a
plan about to be merged has a theme, and a goal about to be set is one (`Themed`). From it
`PlansRenewed` (`Inv`); `EvidenceIsEarned` (`EvidenceEarned`): what is placed was tested
in the step that places it, and hits and gates are never taken back; and `VerdictStands`
(`VerdictKept`): a verdict ends when a plan is set (`PlanChanges`), and while
one stands with its plan in force the decision is a full replan, which `Invalidate`
carries out; a lesser decision means that the plan had gone before.

**`Progress_proofs`.** `Counted` drops the restriction of `EvidenceCounted` to moments of
rest. `Unlocking` says that whoever is between the two calls for the jump gate has opened
it; with `GatesLayered` it is inductive, since gates are never closed. `Fed` and `Walls`
count connections by stage: those before their second look at the PPF flag, those after
it, those at a wall. `Fed` says that an attacker who has earned feedback without getting
it is about to be looked at, or that few commands have been logged since, blocked ones
not counted; `Walls` that whoever is about to expand counts for the limit. From them
`CountedAndLayered` (`Inv`), `InjectsOnce`, `Engagement`, `WallsFall`, and
`FailuresRecent`, whose induction follows the window of results as it drops its oldest;
`NotesForOthers` (`NotesForTheLost`) combines it with the order of the classification in
the step of `Analyze` that sends a connection to plant.

**`LLMManager_proofs`.** The invariant adds to the state properties where a test has
found its settings (`Located`), where a key of the environment may be under way
(`Carried`), that a test without a key of its own changes nothing (`Harmless`), that
while the LLM is off nobody is about to ask it unless a switch or update came last
(`Dark`), and that what was written last is what runs, up to tests since (`Synced`).
From it `TypeCorrect`, `LiveConfigured`, `EnvKeysOut`, `DisabledIsAskedLate`
(`OffMeansOff`) and `RestartRestores`.

**`HostFiles_proofs`.** `Typed` is `TypeOK` with what a connection at work is working on.
`RulesAgree` (`Inv`): the goroutine that stores a rule for a file's content is the one
that then injects the file, so `RulesHaveFiles` holds between the two. `RaceInv` says what
the auxiliary `raced` is worth, in three parts: two goroutines with the same key are both
raced (`SoleInv`); a goroutine that is not has no rule for its key yet (`NovelInv`), and
the file it asks for is not the attacker's (`MineInv`). The first is what keeps the other
two: nobody else can have stored the rule or made the file in between. `FileInv` says that
seeded files stay files, and that the notes are one when the second `AddFile` empties
them. From these `RepliesSettled` (`RepliesStable`) and `FilesStay` (`FilesKept`).
`RulesDropped` (`AbsoluteRulesDropped`) needs types only: a rule that `InvalidateDir`
leaves does not lie below the directory (`CoversBelow`, about prefixes of paths).

Only model-checked: the two liveness properties, `JobsEnd` (which includes that an
in-flight key does not stay) and `IdleForgotten`, because
TLAPS proves nothing about fairness and `ENABLED`. Induction over data is out of the
provers' reach, and a module with a `RECURSIVE` operator has no SMT backend: the modules
have none.

## 6. Findings

The `violation` run `graph_clues` shows where the code departs from what the repository
says of it: `injectClueFiles` indexes positions of a list that lacks the hosts the session
already had (`manager.go:879`).

Further disagreements and behaviours met while modelling, without a run of their own:

The graph and the sessions.

- An expansion reaches the graph without the planner's test for protected targets and may
  create a goal's (`expander.go:91`; `manager_test.go:153` expects otherwise of the
  planner).
- A deletion during a job leaves hosts of a removed session in the graph, although
  `manager_test.go:69` expects a deletion to remove them: `OrphansComeFromRaces` states
  exactly what remains.
- Two jobs of one session may list one host twice (`topology_planner.go:268-274`).
- A plan's hosts are validated against the segments of all sessions
  (`topology_planner.go:778`, `:814`).
- `UpdateEdgeStatus` activates only the first edge with the given ends
  (`topology.go:228`, `manager.go:747`), which may be another session's.
- A plan most of whose hosts are protected is trimmed, not rejected
  (`topology_planner.go:445`).
- Two simultaneous arrivals of one user get a session each (`manager.go:119`).
- `DisconnectedAt` is never cleared when a session is reused, so the session expires five
  minutes after its first disconnection (`manager.go:106`, `:120`).

The nested shell and the cached answers.

- `EnterRemoteHost` and the assignment of `World` are separate (`manager.go:744`), so a
  second connection's reconnection in between leaves one host with another's files: this
  is why `WorldFits` is stated for one connection at a time.
- A prompt that a one-shot command's cleanup dropped (`manager.go:478`) is still on the
  screen of the shell that asked; what is typed there is run and logged as a command.
- The reset for a new connection returns early and leaves the interactive client or the
  prompt of the last one (`models.go:1188-1192`, `ssh.go:42`).
- `redis-cli` sets `CurrentTarget` (`rule_engine.go:788`) and a logout to a host that is
  not the last leaves it (`models.go:1174`): it is set, but not always to the host one is
  on. After two nested logins and one logout the key of cached answers therefore names
  the inner host (`manager.go:838`, `models.go:196`), and the two hosts share answers.

The agents.

- The orchestrator leaves `goal:<name>` in `AttackerGoal` and compares it with
  `<name>:<network>:<address>` (`intent_router.go:254-258`, `:403-407`): after its first
  goal every command with a goal is a shift of goals, unless `InjectGoalTopology` has
  left the very signature in between (`goal.go:167`).
- The executor's verdict is overwritten by a decision that evaluates the plan anew
  (`orchestrator.go:171`). A verdict that rests on the nested shell alone is lost when
  another connection leaves the shell in between, and the plan stays in force: this is
  why `VerdictKept` speaks of plans that are invalid for their age or for what the line
  reads.
- A blocked line drops the active plan without asking whether the plan names
  `safety_block` among its invalidators (`manager.go:405`).
- The planned table never forgets: a full replan of an intent that was planned before
  counts a hit and plans nothing (`orchestrator.go:188-207`).
- The cold path plans nothing, because `onPlanningEvent` gives the planner no session
  (`orchestrator.go:260`, `:285`; `planner_agent.go:44`).
- The LLM's world patches are recorded in events that nothing reads
  (`orchestrator.go:475-476`, `:535`). `EventNewSubnet` never asks for a replan, and
  an invalidation by the executor is published twice.
- `localWorldPatchFallback` may put its file over one of the attacker's; evidence that
  may not be revealed when it is planned is dropped by the agent, not kept as a candidate.
- `ActivatePlan`, `RecordExposure`, `AdvanceLifecycle`, `RepairPlan`, `PlaceEvidence`,
  `ConsumeEvidence` and `BuildFromPlan` have no caller.
- The evidence cache counts its first eviction, at 128 entries, in statistics that only a
  lookup creates, and nothing looks anything up: a nil pointer (`cache_manager.go:554`).
  `HasPlan`, without a caller too, asks for the write lock while it holds the read lock
  (`cache_manager.go:135-145`).

Progress.

- `loop.go:88` says that three pieces of evidence are required "so a single command can't
  trigger PPF on its own"; one that matches three rules and reuses credentials does.
- `UpdateMetrics` and `IncrRealNetworkTouch` have no caller; the third condition of
  `ShouldTriggerPPF` is implied by the first; `AnalyzeOutput` is only asked when it must
  fail.
- An empty output counts as a failure. The expansion recommended at level L3 is not acted
  on, and the clue for a "stuck" attacker cannot be reached.
- `MarkExpanded` drops dead ends that were counted during the expansion.
- A blocked line is logged before evidence and PPF are looked at (`manager.go:201`): it
  counts for the fallback of `ShouldTriggerPPF` but does not trigger it, so an attacker
  who scans once and is blocked from then on gets no feedback, however many commands are
  logged. `EngagedIsFed` does not count blocked lines.
- The notes are planted after the analyser's lock is released (`manager.go:342`): they
  may appear when another connection has meanwhile succeeded, and `consecutiveFail` is 0.
- `UnlockGate` tests and sets in separate calls (`gates.go:42-47`): two connections may
  both report one gate, which is the same gate all the same.

The host file systems.

- `echo >>` replaces the file (`shell.go:435`), and a redirection onto a directory
  replaces the directory.
- "When the attacker modifies the filesystem, affected entries are invalidated"
  (`world.go:58-60`): `InvalidateDir` compares with the argument as it was typed, so a
  rule under a relative path survives a write by an absolute one and the reverse, and
  `/` and `.` cover nothing below them (`world.go:107-118`). `AbsoluteRulesDropped` states
  what holds.
- Rules other than those of `ls` and `cat` have keys that are not resolved against the
  directory: the same words get the same answer everywhere on the host.
- An answer of the LLM is stored for the directory the session is in when it lands.
- The second `AddFile` of `injectFrustrationClue` empties the notes it has just planted
  (`manager.go:984`, `:1002`).
- `os.chdir` in the Python client does not test whether the directory exists. A login
  makes a new file system each time, also for a host that was changed before.

The LLM manager.

- `TestConnection` writes its overrides, and the key from the environment, into the shared
  configuration without the lock (`llm/manager.go:103`, `:120-127`); the next save
  persists them, although `llm/config.go:48-49` says a secret is resolved "without
  persisting an environment value back to YAML". `EnvKeyStaysOut` states that this is the
  only way.
- `Complete` does not look at `Enabled`; `SwitchProvider` accepts a provider without a
  key, which a restart does not bring back; `SetEnabled` reports an error of the file
  after the change is in force; a configuration that could not be read is replaced by the
  next save.
- The update request reads the old key and writes it back in two calls
  (`api/server.go:1074-1080`): a masked update may bring back a key that another one has
  just replaced.

## 7. What is not modelled, and why

- Text: rule rendering, prompts, guards of wording, profiles and keyword scores. They are
  pure functions of strings and change no shared state; where their outcome steers the
  control (a goal, a plan, a judgement of the router), it is a choice in the model or one
  of its constants.
- What the operator's goal request does after setting the goal, `PlanTopology`
  (`simulate.go:234`): the hot path of a line that is not logged.
- The tables of personas and exploit chains, the memory agent's summaries, the statistics.
- The cache manager: see section 6. The tracer: a channel and five workers without a
  state of their own.
- `printf` with a redirection, the difference of `ls` and `ls -l` for directories that
  only exist as part of a path, the interactive clients' own commands.
- HTTP, key generation, configuration files other than `llm.yaml`, and the front end:
  input and output only.
- Data races proper (fields of `SessionContext` written without a lock): modelled as
  separate steps of whole values. Concurrent use of the file map, which ends the process,
  is `Crash` of `HostFiles`.

`PROJECT.json` lists the components, the runs with their properties, a mutated definition
that each property rejects, the source lines of every definition, the findings, the
hazards with the properties that watch them, and the theorems.
