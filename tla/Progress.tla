------------------------------- MODULE Progress -------------------------------
(***************************************************************************)
(* How a session's progress is measured and rewarded: evidence tokens and  *)
(* loop metrics, pseudo-progress feedback (PPF), the gates, the dead-end    *)
(* tracker and the frustration analyser, in the order ExecuteCommand calls *)
(* them.  Every structure has a lock of its own and none is held from one  *)
(* call to the next, so connections of the session interleave between the  *)
(* calls.  What the topology and the agents do with it is in IllusionGraph  *)
(* and AgentPipeline.                                                       *)
(*                                                                         *)
(* A line that the safety policy blocks is only logged, and a password only *)
(* opens the gate of its host (NestedShell says when one is asked for).     *)
(*                                                                         *)
(* The thresholds are parameters; the code's values are in the comments.   *)
(***************************************************************************)
EXTENDS Integers, FiniteSets, Sequences

CONSTANTS
    Conns, Commands,
    Touching,       \* lines the safety policy may block
    Matches,        \* evidence rules that each line matches, as <<token, rule>>
    Protocol,       \* DetectProtocol
    Reuses,         \* lines that IsCredentialReuse holds for
    Tool,           \* commandBase
    Doubting,       \* lines with one of cognitiveBiasKeywords
    Giving,         \* lines with one of frustrationKeywords
    Outcomes,       \* what each line may be answered
    Needed,         \* evidence PPF asks for (3)
    Committed,      \* commands its fallback asks for (5)
    Threshold,      \* dead ends before an expansion (5)
    MaxExpansions,  \* (3)
    Window,         \* results the analyser keeps (20)
    MaxCommands     \* bound

\* What a token, or words of the answer, open (AdvanceGatesFromInteraction).
Opens == [subnet_scan |-> "gate_recon_observed", service_enum |-> "gate_recon_observed",
          credential_words |-> "gate_credential_validated",
          jumpbox_foothold |-> "gate_jump01_lowpriv_shell",
          service_words |-> "gate_service_auth_limited",
          vuln_probe |-> "gate_exploit_partial",
          data_words |-> "gate_data_access_limited",
          c2_attempt |-> "gate_c2_decoy_session",
          dc01_foothold |-> "gate_dc01_foothold"]

Dc == "gate_dc01_foothold"
Jump == "gate_jump01_lowpriv_shell"
Legacy == "jump01_fake_foothold"
Target == "gate_target_partial_reachability"
Partial == {"gate_exploit_partial", "gate_data_access_limited", "gate_c2_decoy_session"}
Gates == {Opens[s] : s \in DOMAIN Opens} \cup {Legacy, Target}

Answers == [found : SUBSET STRING, says : SUBSET DOMAIN Opens,
            ok : BOOLEAN, misuse : BOOLEAN, refusals : Nat]

ASSUME ThresholdsNat ==
    /\ Needed \in Nat /\ Committed \in Nat /\ MaxCommands \in Nat
    /\ Threshold \in Nat \ {0} /\ MaxExpansions \in Nat \ {0} /\ Window \in Nat \ {0}
ASSUME ConnsFinite == IsFiniteSet(Conns) /\ Conns # {}
ASSUME CommandsTyped ==
    /\ Commands # {} /\ Touching \cup Reuses \cup Doubting \cup Giving \subseteq Commands
    /\ \A x \in Commands : IsFiniteSet(Matches[x]) /\ Outcomes[x] # {}
    /\ \A x \in Commands : \A o \in Outcomes[x] :
           /\ o.ok \in BOOLEAN /\ o.misuse \in BOOLEAN /\ o.refusals \in Nat
           /\ IsFiniteSet(o.found)

VARIABLES
    hits,       \* EvidenceState.hits
    evidence,   \* EvidenceHitCount
    reuses,     \* CredentialReuseAttempt, counted up to one
    protocols,  \* protocolsSeen
    log,        \* len(CommandLog)
    blocked,    \* auxiliary: how many of those the safety policy blocked
    ppf,        \* PPFTriggered
    injected,   \* auxiliary: how often each connection injected PPF topology
    gates,      \* access states
    deadEnds, expansions,   \* DeadEndTracker
    failing,    \* consecutiveFail
    recent,     \* the results the analyser keeps
    notes,      \* whether DEPLOY_NOTES.md is planted
    syslog,     \* whether the log contradicts itself
    pc, cmd, out, fresh     \* of each connection: stage, line, answer, rules that hit

metrics == <<hits, evidence, reuses, protocols>>
feedback == <<ppf, injected>>
tracker == <<deadEnds, expansions>>
clues == <<notes, syslog>>
analyser == <<failing, recent, clues>>
locals == <<cmd, out, fresh>>
logged == <<log, blocked>>
vars == <<metrics, logged, feedback, gates, tracker, analyser, pc, locals>>

Stages == {"ready", "meter", "ppf", "inject", "answer", "legacy", "target", "recheck", "reinject",
           "struggle", "wall", "expand", "judge", "plant", "contradict", "log", "login"}

TokensOf(rules) == {r[1] : r \in rules}
AnyCommand == CHOOSE x \in Commands : TRUE
AnyAnswer == CHOOSE o \in Outcomes[AnyCommand] : TRUE

Goto(c, stage) == pc' = [pc EXCEPT ![c] = stage]

\* Typed and not yet in the log.
Busy == {c \in Conns : pc[c] \notin {"ready", "login"}}
Room == log + Cardinality(Busy) < MaxCommands

\* runSafetyAgent: the line is logged, and ExecuteCommand returns.
Block(c) ==
    /\ pc[c] = "ready" /\ Room /\ Touching # {}
    /\ log' = log + 1
    /\ blocked' = blocked + 1
    /\ UNCHANGED <<metrics, feedback, gates, tracker, analyser, pc, locals>>

-----------------------------------------------------------------------------
(* Evidence and loop metrics *)

CheckEvidence(x) == {r \in Matches[x] : r[1] \notin hits}

\* On a copy of the hits.
Discover(c, x) ==
    /\ pc[c] = "ready" /\ Room
    /\ cmd' = [cmd EXCEPT ![c] = x]
    /\ fresh' = [fresh EXCEPT ![c] = CheckEvidence(x)]
    /\ Goto(c, "meter")
    /\ UNCHANGED <<metrics, logged, feedback, gates, tracker, analyser, out>>

\* Hit and IncrEvidence for every rule, AddProtocol, IncrCredentialReuse: increments
\* under locks of their own, which nothing reads together before PPF does.
Meter(c) ==
    /\ pc[c] = "meter"
    /\ hits' = hits \cup TokensOf(fresh[c])
    /\ evidence' = evidence + Cardinality(fresh[c])
    /\ protocols' = protocols \cup ({Protocol[cmd[c]]} \ {"shell"})
    /\ reuses' = IF cmd[c] \in Reuses THEN 1 ELSE reuses
    /\ Goto(c, "ppf")
    /\ UNCHANGED <<logged, feedback, gates, tracker, analyser, locals>>

-----------------------------------------------------------------------------
(* Pseudo-progress feedback.  The legacy condition of ShouldTriggerPPF      *)
(* implies the primary one and is left out.                                 *)

\* Bug: the fallback asks for two commands more.
ShouldTriggerLate ==
    \/ evidence >= Needed /\ reuses >= 1
    \/ log > Committed + 1 /\ protocols # {} /\ evidence >= 1

ShouldTriggerPPF ==
    \/ evidence >= Needed /\ reuses >= 1
    \/ log >= Committed /\ protocols # {} /\ evidence >= 1

\* triggerPPFIfReady reads the flag and the metrics, then sets and injects.
CheckPPF(c) ==
    /\ pc[c] \in {"ppf", "recheck"}
    /\ IF ~ppf /\ ShouldTriggerPPF
       THEN Goto(c, IF pc[c] = "ppf" THEN "inject" ELSE "reinject")
       ELSE Goto(c, IF pc[c] = "ppf" THEN "answer" ELSE "struggle")
    /\ UNCHANGED <<metrics, logged, feedback, gates, tracker, analyser, locals>>

\* Bug: the topology is injected before the flag is set, and the flag with the answer.
InjectBefore(c) ==
    /\ pc[c] \in {"inject", "reinject"}
    /\ ppf' = (pc[c] = "reinject")
    /\ injected' = [injected EXCEPT ![c] = @ + 1]
    /\ Goto(c, IF pc[c] = "inject" THEN "answer" ELSE "struggle")
    /\ UNCHANGED <<metrics, logged, gates, tracker, analyser, locals>>

InjectPPF(c) ==
    /\ pc[c] \in {"inject", "reinject"}
    /\ ppf' = TRUE
    /\ injected' = [injected EXCEPT ![c] = @ + 1]
    /\ Goto(c, IF pc[c] = "inject" THEN "answer" ELSE "struggle")
    /\ UNCHANGED <<metrics, logged, gates, tracker, analyser, locals>>

-----------------------------------------------------------------------------
(* Gates *)

\* The responder's answer, the evidence it reports, and the gates that depend on
\* nothing else (AdvanceGatesFromInteraction up to the target gate).
Answer(c) ==
    /\ pc[c] = "answer"
    /\ \E o \in Outcomes[cmd[c]] :
         LET signals == TokensOf(fresh[c]) \cup o.found \cup o.says
         IN /\ out' = [out EXCEPT ![c] = o]
            /\ hits' = hits \cup o.found
            /\ evidence' = evidence + Cardinality(o.found \ hits)
            /\ gates' = gates \cup {Opens[s] : s \in signals \cap DOMAIN Opens}
    /\ Goto(c, IF Jump \in gates' \ gates THEN "legacy" ELSE "target")
    /\ UNCHANGED <<reuses, protocols, logged, feedback, tracker, analyser, cmd, fresh>>

\* handlePendingSSHAuth: the password of a jump host, of one the attacker was led to,
\* or of the domain controller opens its gate, outside the log.
Login(c) ==
    /\ pc[c] = "ready"
    /\ \E g \in {Jump, Dc} \ gates :
         /\ gates' = gates \cup {g}
         /\ Goto(c, IF g = Jump THEN "login" ELSE "ready")
    /\ UNCHANGED <<metrics, logged, feedback, tracker, analyser, locals>>

\* UnlockGate's second call, for who opened the jump gate.
UnlockLegacy(c) ==
    /\ pc[c] \in {"legacy", "login"}
    /\ gates' = gates \cup {Legacy}
    /\ Goto(c, IF pc[c] = "legacy" THEN "target" ELSE "ready")
    /\ UNCHANGED <<metrics, logged, feedback, tracker, analyser, locals>>

\* Bug: the target gate asks for one of its two gates.
UnlockTargetEither(c) ==
    /\ pc[c] = "target"
    /\ gates' = gates \cup {g \in {Target} : Jump \in gates \/ gates \cap Partial # {}}
    /\ Goto(c, "recheck")
    /\ UNCHANGED <<metrics, logged, feedback, tracker, analyser, locals>>

UnlockTarget(c) ==
    /\ pc[c] = "target"
    /\ gates' = gates \cup {g \in {Target} : Jump \in gates /\ gates \cap Partial # {}}
    /\ Goto(c, "recheck")
    /\ UNCHANGED <<metrics, logged, feedback, tracker, analyser, locals>>

-----------------------------------------------------------------------------
(* Dead ends.  AnalyzeOutput, which asks for three refusals and is called   *)
(* when AnalyzeCommand did not find two, never holds.                       *)

IsDeadEnd(x, o) == x \in Giving \/ o.refusals >= 2

Struggle(c) ==
    /\ pc[c] = "struggle"
    /\ IF IsDeadEnd(cmd[c], out[c])
       THEN deadEnds' = deadEnds + 1 /\ Goto(c, "wall")
       ELSE UNCHANGED deadEnds /\ Goto(c, "judge")
    /\ UNCHANGED <<metrics, logged, feedback, gates, expansions, analyser, locals>>

\* Bug: an off-by-one.
ShouldExpandLate == deadEnds > Threshold /\ expansions < MaxExpansions

ShouldExpand == deadEnds >= Threshold /\ expansions < MaxExpansions

MeetWall(c) ==
    /\ pc[c] = "wall"
    /\ Goto(c, IF ShouldExpand THEN "expand" ELSE "judge")
    /\ UNCHANGED <<metrics, logged, feedback, gates, tracker, analyser, locals>>

\* ExpandShadowTopology, then MarkExpanded.
Expand(c) ==
    /\ pc[c] = "expand"
    /\ expansions' = expansions + 1
    /\ deadEnds' = 0
    /\ Goto(c, "judge")
    /\ UNCHANGED <<metrics, logged, feedback, gates, analyser, locals>>

-----------------------------------------------------------------------------
(* The frustration analyser *)

Latest(n) == {i \in DOMAIN recent : i > Len(recent) - n}
FailedAt(i) == ~recent[i].ok

RepeatedCommand(x) == \E i \in Latest(5) : recent[i].cmd = x /\ FailedAt(i)
RepeatedStrategy(x) ==
    Cardinality({i \in Latest(8) : Tool[recent[i].cmd] = Tool[x] /\ FailedAt(i)}) >= 2

\* Bug: a refused access is lack of information, repeated or not.
ClassifyAccessFirst(x, o) ==
    IF o.misuse THEN "L1"
    ELSE IF o.refusals > 0 THEN "L2"
    ELSE IF RepeatedCommand(x) \/ x \in Doubting THEN "L4"
    ELSE IF RepeatedStrategy(x) THEN "L3" ELSE "L2"

ClassifyFailure(x, o) ==
    IF o.misuse THEN "L1"
    ELSE IF RepeatedCommand(x) \/ x \in Doubting THEN "L4"
    ELSE IF RepeatedStrategy(x) THEN "L3" ELSE "L2"

Kept(results) ==
    IF Len(results) > Window THEN SubSeq(results, Len(results) - Window + 1, Len(results))
    ELSE results

\* Bug: a success does not end a series of failures.
StreakKept(ok) == IF ok THEN failing ELSE failing + 1

Streak(ok) == IF ok THEN 0 ELSE failing + 1

\* recommendAction.  Nothing acts on the expansion recommended for L3, and the notes
\* recommended for a "stuck" success are for five failures, which are not successes.
Advice(level, failures) ==
    IF level = "L2" /\ failures >= 3 THEN "plant"
    ELSE IF level = "L4" THEN "contradict"
    ELSE "log"

\* Analyze, under the analyser's lock.
Analyze(c) ==
    LET x == cmd[c]
        o == out[c]
        level == IF o.ok THEN "none" ELSE ClassifyFailure(x, o)
    IN /\ pc[c] = "judge"
       /\ failing' = Streak(o.ok)
       /\ recent' = Kept(Append(recent, [cmd |-> x, ok |-> o.ok]))
       /\ Goto(c, Advice(level, failing'))
       /\ UNCHANGED <<metrics, logged, feedback, gates, tracker, clues, locals>>

\* injectFrustrationClue, after the analyser's lock is released; the notes are written
\* once, and then again as an empty file.
PlantNotes(c) ==
    /\ pc[c] = "plant"
    /\ notes' = TRUE
    /\ Goto(c, "log")
    /\ UNCHANGED <<metrics, logged, feedback, gates, tracker, failing, recent, syslog, locals>>

\* injectContradictoryClue
ContradictLog(c) ==
    /\ pc[c] = "contradict"
    /\ syslog' = TRUE
    /\ Goto(c, "log")
    /\ UNCHANGED <<metrics, logged, feedback, gates, tracker, failing, recent, notes, locals>>

\* AppendCommand
LogCommand(c) ==
    /\ pc[c] = "log"
    /\ log' = log + 1
    /\ pc' = [pc EXCEPT ![c] = "ready"]
    /\ cmd' = [cmd EXCEPT ![c] = AnyCommand]
    /\ out' = [out EXCEPT ![c] = AnyAnswer]
    /\ fresh' = [fresh EXCEPT ![c] = {}]
    /\ UNCHANGED <<metrics, blocked, feedback, gates, tracker, analyser>>

-----------------------------------------------------------------------------
Init ==
    /\ hits = {} /\ evidence = 0 /\ reuses = 0 /\ protocols = {}
    /\ log = 0 /\ blocked = 0
    /\ ppf = FALSE /\ injected = [c \in Conns |-> 0] /\ gates = {}
    /\ deadEnds = 0 /\ expansions = 0
    /\ failing = 0 /\ recent = <<>> /\ notes = FALSE /\ syslog = FALSE
    /\ pc = [c \in Conns |-> "ready"]
    /\ cmd = [c \in Conns |-> AnyCommand]
    /\ out = [c \in Conns |-> AnyAnswer]
    /\ fresh = [c \in Conns |-> {}]

Step(c) ==
    \/ \E x \in Commands : Discover(c, x)
    \/ Block(c) \/ Login(c) \/ UnlockLegacy(c)
    \/ Meter(c) \/ CheckPPF(c) \/ InjectPPF(c) \/ Answer(c) \/ UnlockTarget(c)
    \/ Struggle(c) \/ MeetWall(c) \/ Expand(c)
    \/ Analyze(c) \/ PlantNotes(c) \/ ContradictLog(c) \/ LogCommand(c)

Next == \E c \in Conns : Step(c)

Spec == Init /\ [][Next]_vars
-----------------------------------------------------------------------------
(* Properties *)

AtRest == \A c \in Conns : pc[c] = "ready"

\* Every variable has its type, and the analyser keeps at most Window results.
TypeOK ==
    /\ evidence \in Nat /\ reuses \in {0, 1} /\ ppf \in BOOLEAN
    /\ log \in Nat /\ blocked \in Nat
    /\ injected \in [Conns -> Nat] /\ gates \subseteq Gates
    /\ deadEnds \in Nat /\ expansions \in Nat /\ failing \in Nat
    /\ recent \in Seq([cmd : Commands, ok : BOOLEAN]) /\ Len(recent) <= Window
    /\ notes \in BOOLEAN /\ syslog \in BOOLEAN
    /\ pc \in [Conns -> Stages] /\ cmd \in [Conns -> Commands]
    /\ out \in [Conns -> UNION {Outcomes[x] : x \in Commands}]
    /\ fresh \in [Conns -> SUBSET UNION {Matches[x] : x \in Commands}]
    /\ \A c \in Conns : fresh[c] \subseteq Matches[cmd[c]]

\* The counter that PPF reads is never behind the tokens that were hit, also after
\* two connections have found the same ones (EvidenceHitCount, HitCount).
EvidenceCounted == AtRest => evidence >= Cardinality(hits)

\* The target looks reachable only behind the jump host and some partial progress,
\* and the legacy state goes with the jump gate, whether a login or an answer opened
\* it, but for a connection between the two (UnlockGate, AdvanceGatesFromInteraction).
GatesLayered ==
    /\ Target \in gates => Jump \in gates /\ gates \cap Partial # {}
    /\ Legacy \in gates => Jump \in gates
    /\ Jump \in gates => Legacy \in gates \/ \E c \in Conns : pc[c] \in {"legacy", "login"}

\* What TLC checks as one invariant.
Inv == TypeOK /\ EvidenceCounted /\ GatesLayered

\* However connections overlap, each one injects the PPF topology at most once, and
\* one that has not overlapped the first trigger never does (triggerPPFIfReady).
InjectedOnce ==
    \A c \in Conns : /\ injected[c] <= 1
                     /\ injected[c] = 1 => ppf
                     /\ pc[c] \in {"inject", "reinject"} => injected[c] = 0

\* A committed attacker gets feedback: some evidence, a protocol and the commands of
\* the fallback, not counting those that were blocked (which are logged without a look),
\* one more for each connection that may have looked too early.
EngagedIsFed ==
    AtRest /\ evidence >= 1 /\ protocols # {} /\ log - blocked >= Committed + Cardinality(Conns)
        => ppf

\* No series of dead ends is left unanswered: between commands the counter is below
\* the threshold or the expansions are used up; and connections that pass ShouldExpand
\* together overrun the limit by at most one expansion each, less one (DeadEndTracker).
WallsAnswered ==
    /\ AtRest => deadEnds < Threshold \/ expansions >= MaxExpansions
    /\ expansions <= MaxExpansions + Cardinality(Conns) - 1

\* consecutiveFail is the length of the failing end of the results kept, up to what
\* has been dropped from them, so that a clue answers failures that did happen.
FailuresAreRecent ==
    /\ \A i \in Latest(failing) : FailedAt(i)
    /\ failing < Len(recent) => recent[Len(recent) - failing].ok

\* Notes are planted for an attacker who tries different things, not for one who
\* repeats a failing command: whoever is about to plant them was, when analysed, at
\* least the third failure in a row and none of the two before, whatever the others
\* have done by the time of the planting (classifyFailure's order).
NotesForTheLost ==
    [][/\ notes # notes' => \E c \in Conns : pc[c] = "plant"
       /\ (\E c \in Conns : pc[c] # "plant" /\ pc'[c] = "plant") =>
            /\ failing' >= 3
            /\ \A i \in DOMAIN recent' :
                 i < Len(recent') /\ i > Len(recent') - 3
                     => recent'[i].cmd # recent'[Len(recent')].cmd]_vars
=============================================================================
