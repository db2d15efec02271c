--------------------------- MODULE Progress_proofs ---------------------------
(***************************************************************************)
(* Proofs about Progress, for any connections, commands, rules, answers    *)
(* and thresholds.                                                         *)
(***************************************************************************)
EXTENDS Progress, FiniteSetTheorems, FunctionTheorems, SequenceTheorems, TLAPS

Where(stages) == {c \in Conns : pc[c] \in stages}

\* Before its second look at the flag, and after it.
Before == {"meter", "ppf", "inject", "answer", "legacy", "target", "recheck", "reinject"}
After == {"struggle", "wall", "expand", "judge", "plant", "contradict", "log"}
Expanding == {"expand"}
Facing == {"wall", "expand"}

\* Between the two calls of UnlockGate for the jump gate.
Between == {"legacy", "login"}

\* Who is there has opened it.
Unlocking == \A c \in Conns : pc[c] \in Between => Jump \in gates

\* A token is not counted less often than it is new.
Counted == IsFiniteSet(hits) /\ evidence >= Cardinality(hits)

\* An attacker who has earned feedback and not got it is about to be looked at, or
\* only commands that were under way at the last look have been logged since.
Fed ==
    ~ppf /\ evidence >= 1 /\ protocols # {} /\ Where(Before) = {} =>
        log - blocked + Cardinality(Where(After)) < Committed + Cardinality(Conns)

\* Whoever is about to expand counts for the limit, and a wall that has been reached
\* is being looked at.
Walls ==
    /\ expansions + Cardinality(Where(Expanding)) <= MaxExpansions + Cardinality(Conns) - 1
    /\ deadEnds >= Threshold => expansions >= MaxExpansions \/ Where(Facing) # {}

IInv == TypeOK /\ Counted /\ GatesLayered /\ Unlocking /\ InjectedOnce /\ Fed /\ Walls /\ FailuresAreRecent

USE ThresholdsNat, ConnsFinite

-----------------------------------------------------------------------------
(* Choices and windows *)

LEMMA AnyTyped == AnyCommand \in Commands /\ AnyAnswer \in UNION {Outcomes[x] : x \in Commands}
<1>1. AnyCommand \in Commands
    BY CommandsTyped DEF AnyCommand
<1>2. Outcomes[AnyCommand] # {}
    BY <1>1, CommandsTyped
<1>3. AnyAnswer \in Outcomes[AnyCommand]
    BY <1>2 DEF AnyAnswer
<1> QED BY <1>1, <1>3

(* The answers a connection may hold. *)
LEMMA AnswerTyped ==
    ASSUME NEW o \in UNION {Outcomes[x] : x \in Commands}
    PROVE  o.ok \in BOOLEAN /\ o.refusals \in Nat /\ IsFiniteSet(o.found)
BY CommandsTyped

(* What the window drops, it drops from the front. *)
LEMMA WindowKept ==
    ASSUME NEW S, NEW r \in Seq(S)
    PROVE  /\ Kept(r) \in Seq(S) /\ Len(Kept(r)) <= Window
           /\ Len(Kept(r)) <= Len(r)
           /\ Len(r) <= Window => Kept(r) = r
           /\ Len(r) > Window => Len(Kept(r)) = Window
           /\ \A i \in 1..Len(Kept(r)) : Kept(r)[i] = r[i + (Len(r) - Len(Kept(r)))]
<1>1. Len(r) \in Nat
    BY LenProperties
<1>2. CASE Len(r) <= Window
    <2>1. Kept(r) = r
        BY <1>1, <1>2 DEF Kept
    <2>2. \A i \in 1..Len(r) : i + (Len(r) - Len(r)) = i
        BY <1>1
    <2> QED BY <1>1, <1>2, <2>1, <2>2
<1>3. CASE Len(r) > Window
    <2> DEFINE m == Len(r) - Window + 1
    <2>1. m \in 1..Len(r) /\ Kept(r) = SubSeq(r, m, Len(r))
        BY <1>1, <1>3 DEF Kept
    <2>2. \A i \in m..Len(r) : r[i] \in S
        BY <1>1, <2>1, ElementOfSeq
    <2>3. /\ SubSeq(r, m, Len(r)) \in Seq(S) /\ Len(SubSeq(r, m, Len(r))) = Window
          /\ \A i \in 1..Window : SubSeq(r, m, Len(r))[i] = r[m + i - 1]
        BY <1>1, <1>3, <2>1, <2>2, SubSeqProperties
    <2>4. \A i \in 1..Window : m + i - 1 = i + (Len(r) - Window)
        BY <1>1
    <2> QED BY <1>1, <1>3, <2>1, <2>3, <2>4
<1> QED BY <1>1, <1>2, <1>3

(* One connection going from one stage to another changes the number of those
   that are in some stages by one at the most. *)
LEMMA WhereMoves ==
    ASSUME NEW stages, NEW c \in Conns, NEW stage, pc \in [Conns -> Stages],
           pc' = [pc EXCEPT ![c] = stage]
    PROVE  /\ Cardinality(Where(stages)) \in Nat
           /\ Cardinality(Where(stages)) <= Cardinality(Conns)
           /\ Cardinality(Where(stages)') \in Nat
           /\ Cardinality(Where(stages)') <= Cardinality(Conns)
           /\ (pc[c] \in stages <=> stage \in stages) => Where(stages)' = Where(stages)
           /\ pc[c] \in stages /\ stage \notin stages =>
                  Cardinality(Where(stages)') = Cardinality(Where(stages)) - 1
           /\ pc[c] \notin stages /\ stage \in stages =>
                  Cardinality(Where(stages)') = Cardinality(Where(stages)) + 1
<1>1. /\ Where(stages)' = IF stage \in stages THEN Where(stages) \cup {c} ELSE Where(stages) \ {c}
      /\ Where(stages) \in SUBSET Conns /\ Where(stages)' \in SUBSET Conns
      /\ c \in Where(stages) <=> pc[c] \in stages
    BY DEF Where
<1>2. IsFiniteSet(Where(stages)) /\ IsFiniteSet(Where(stages)')
    BY <1>1, FS_Subset
<1>3. /\ Cardinality(Where(stages)) \in Nat /\ Cardinality(Where(stages)') \in Nat
      /\ Cardinality(Where(stages)) <= Cardinality(Conns)
      /\ Cardinality(Where(stages)') <= Cardinality(Conns)
    BY <1>1, <1>2, FS_Subset, FS_CardinalityType
<1>4. stage \in stages /\ pc[c] \notin stages =>
          Cardinality(Where(stages)') = Cardinality(Where(stages)) + 1
    BY <1>1, <1>2, FS_AddElement
<1>5. stage \notin stages /\ pc[c] \in stages =>
          Cardinality(Where(stages)') = Cardinality(Where(stages)) - 1
    BY <1>1, <1>2, FS_RemoveElement
<1>6. (pc[c] \in stages <=> stage \in stages) => Where(stages)' = Where(stages)
    BY <1>1
<1> QED BY <1>3, <1>4, <1>5, <1>6

-----------------------------------------------------------------------------
(* Types and gates *)

\* The parts of the type invariant, by what they are about.
Numbers ==
    /\ evidence \in Nat /\ reuses \in {0, 1} /\ ppf \in BOOLEAN
    /\ log \in Nat /\ blocked \in Nat
    /\ injected \in [Conns -> Nat] /\ deadEnds \in Nat /\ expansions \in Nat /\ failing \in Nat
    /\ notes \in BOOLEAN /\ syslog \in BOOLEAN
Results == recent \in Seq([cmd : Commands, ok : BOOLEAN]) /\ Len(recent) <= Window
Places == pc \in [Conns -> Stages] /\ cmd \in [Conns -> Commands]
Held == out \in [Conns -> UNION {Outcomes[x] : x \in Commands}]
New ==
    /\ fresh \in [Conns -> SUBSET UNION {Matches[x] : x \in Commands}]
    /\ \A c \in Conns : fresh[c] \subseteq Matches[cmd[c]]

LEMMA TypeParts == TypeOK <=> Numbers /\ gates \subseteq Gates /\ Results /\ Places /\ Held /\ New
BY DEF TypeOK, Numbers, Results, Places, Held, New

LEMMA InitType == Init => TypeOK /\ GatesLayered
<1> SUFFICES ASSUME Init PROVE TypeOK /\ GatesLayered
    OBVIOUS
<1>1. Results
    BY EmptySeq DEF Init, Results
<1>2. gates \subseteq Gates /\ GatesLayered
    BY DEF Init, GatesLayered
<1>3. Numbers
    BY DEF Init, Numbers
<1>4. Places
    BY AnyTyped DEF Init, Places, Stages
<1>5. Held
    BY AnyTyped DEF Init, Held
<1>6. New
    BY DEF Init, New
<1> QED BY <1>1, <1>2, <1>3, <1>4, <1>5, <1>6, TypeParts

LEMMA GateNames ==
    /\ Legacy # Jump /\ Legacy # Target /\ Target # Jump /\ Dc # Legacy /\ Dc # Target
    /\ Target \notin Partial /\ Legacy \notin Partial
    /\ {Legacy, Target, Jump, Dc} \subseteq Gates
    /\ \A k \in DOMAIN Opens : Opens[k] # Legacy /\ Opens[k] # Target /\ Opens[k] \in Gates
BY DEF Legacy, Jump, Target, Partial, Dc, Opens, Gates

(* Opening gates that depend on nothing else. *)
LEMMA Opened ==
    ASSUME TypeOK, GatesLayered, Unlocking, NEW c \in Conns, NEW new \in SUBSET Gates, NEW stage \in Stages,
           Legacy \notin new, Target \notin new, gates' = gates \cup new,
           pc' = [pc EXCEPT ![c] = stage], pc[c] \notin Between,
           stage \in Between <=> Jump \in new \ gates
    PROVE  gates' \subseteq Gates /\ GatesLayered' /\ Unlocking'
<1>1. Places /\ gates \subseteq Gates
    BY TypeParts
<1>2. /\ Target \in gates => Jump \in gates /\ gates \cap Partial # {}
      /\ Legacy \in gates => Jump \in gates
      /\ Jump \in gates => Legacy \in gates \/ \E d \in Conns : pc[d] \in Between
    BY DEF GatesLayered, Between
<1>3. (\E d \in Conns : pc[d] \in Between) => \E d \in Conns : pc'[d] \in Between
    BY <1>1 DEF Places
<1>4. Jump \in new \ gates => \E d \in Conns : pc'[d] \in Between
    BY <1>1 DEF Places
<1>5. GatesLayered'
    BY <1>2, <1>3, <1>4 DEF GatesLayered, Between
<1>6. Unlocking'
    BY <1>1 DEF Unlocking, Places
<1> QED BY <1>1, <1>5, <1>6

LEMMA GatesStep ==
    ASSUME TypeOK, GatesLayered, Unlocking, NEW c \in Conns, Step(c)
    PROVE  gates' \subseteq Gates /\ GatesLayered' /\ Unlocking'
<1>1. Places /\ gates \subseteq Gates
    BY TypeParts
<1> USE DEF Goto
<1>2. CASE UNCHANGED gates
    <2>1. Step(c) => pc[c] \notin Between \/ UnlockLegacy(c)
        BY DEF Step, Block, Login, Discover, Meter, CheckPPF, InjectPPF, Answer, UnlockTarget, Struggle,
               MeetWall, Expand, Analyze, PlantNotes, ContradictLog, LogCommand, Between
    <2>2. CASE UnlockLegacy(c)
        <3>1. Legacy \in gates
            BY <1>2, <2>2 DEF UnlockLegacy
        <3>2. \A d \in Conns : pc'[d] \in Between => pc[d] \in Between
            BY <1>1, <2>2 DEF UnlockLegacy, Places, Between
        <3> QED BY <1>1, <1>2, <3>1, <3>2 DEF GatesLayered, Unlocking
    <2>3. CASE ~UnlockLegacy(c)
        <3>1. (\E stage \in Stages \ Between : pc' = [pc EXCEPT ![c] = stage]) \/ UNCHANGED pc
            <4>1. CASE Answer(c)
                BY <1>2, <4>1 DEF Answer, Stages, Between
            <4>2. CASE Login(c)
                BY <1>2, <4>2 DEF Login
            <4>3. CASE Analyze(c)
                BY <4>3 DEF Analyze, Advice, Stages, Between
            <4> QED BY <2>3, <4>1, <4>2, <4>3 DEF Step, Block, Discover, Meter, CheckPPF, InjectPPF,
                    UnlockTarget, Struggle, MeetWall, Expand, PlantNotes, ContradictLog, LogCommand, Stages, Between
        <3>2. CASE UNCHANGED pc
            BY <1>1, <1>2, <3>2 DEF GatesLayered, Unlocking
        <3>3. ASSUME NEW stage \in Stages \ Between, pc' = [pc EXCEPT ![c] = stage]
              PROVE  gates' \subseteq Gates /\ GatesLayered' /\ Unlocking'
            <4>1. gates' = gates \cup {}
                BY <1>2
            <4> QED BY <2>1, <2>3, <3>3, <4>1, Opened
        <3> QED BY <3>1, <3>2, <3>3
    <2> QED BY <2>2, <2>3
<1>3. CASE Answer(c)
    <2>1. PICK o \in Outcomes[cmd[c]] :
            gates' = gates \cup {Opens[k] : k \in (TokensOf(fresh[c]) \cup o.found \cup o.says) \cap DOMAIN Opens}
        BY <1>3 DEF Answer
    <2> DEFINE signals == TokensOf(fresh[c]) \cup o.found \cup o.says
               new == {Opens[k] : k \in signals \cap DOMAIN Opens}
    <2>2. new \in SUBSET Gates /\ Legacy \notin new /\ Target \notin new /\ gates' = gates \cup new
        BY <2>1, GateNames
    <2> HIDE DEF new
    <2>3. /\ pc[c] = "answer"
          /\ pc' = [pc EXCEPT ![c] = IF Jump \in new \ gates THEN "legacy" ELSE "target"]
        BY <1>3, <2>2 DEF Answer
    <2>4. CASE Jump \in new \ gates
        BY <2>2, <2>3, <2>4, Opened DEF Stages, Between
    <2>5. CASE Jump \notin new \ gates
        BY <2>2, <2>3, <2>5, Opened DEF Stages, Between
    <2> QED BY <2>4, <2>5
<1>4. CASE Login(c)
    <2>1. PICK g \in {Jump, Dc} \ gates :
            /\ pc[c] = "ready" /\ gates' = gates \cup {g}
            /\ pc' = [pc EXCEPT ![c] = IF g = Jump THEN "login" ELSE "ready"]
        BY <1>4 DEF Login
    <2>2. {g} \in SUBSET Gates /\ Legacy \notin {g} /\ Target \notin {g}
        BY GateNames
    <2>3. CASE g = Jump
        BY <2>1, <2>2, <2>3, Opened DEF Stages, Between
    <2>4. CASE g # Jump
        BY <2>1, <2>2, <2>4, Opened DEF Stages, Between
    <2> QED BY <2>3, <2>4
<1>5. CASE UnlockLegacy(c)
    <2>1. /\ gates' = gates \cup {Legacy} /\ pc[c] \in Between
          /\ \A d \in Conns : pc'[d] \in Between => pc[d] \in Between
        BY <1>1, <1>5 DEF UnlockLegacy, Places, Between
    <2>2. Jump \in gates
        BY <2>1 DEF Unlocking
    <2>3. GatesLayered'
        BY <2>1, <2>2, GateNames DEF GatesLayered
    <2>4. Unlocking'
        BY <2>1, <2>2 DEF Unlocking
    <2> QED BY <1>1, <2>1, <2>3, <2>4, GateNames
<1>6. CASE UnlockTarget(c)
    <2>1. /\ gates' = gates \cup {g \in {Target} : Jump \in gates /\ gates \cap Partial # {}}
          /\ pc[c] = "target" /\ pc' = [pc EXCEPT ![c] = "recheck"]
        BY <1>6 DEF UnlockTarget
    <2>2. \A d \in Conns : pc'[d] \in Between <=> pc[d] \in Between
        BY <1>1, <2>1 DEF Places, Between
    <2>3. GatesLayered'
        <3>1. Target \in gates' => Jump \in gates' /\ gates' \cap Partial # {}
            BY <2>1 DEF GatesLayered
        <3>2. (Legacy \in gates' <=> Legacy \in gates) /\ (Jump \in gates' <=> Jump \in gates)
            BY <2>1, GateNames
        <3> QED BY <2>2, <3>1, <3>2 DEF GatesLayered, Between
    <2>4. Unlocking'
        BY <2>1, <2>2 DEF Unlocking
    <2> QED BY <1>1, <2>1, <2>3, <2>4, GateNames
<1>7. Answer(c) \/ Login(c) \/ UnlockLegacy(c) \/ UnlockTarget(c) \/ UNCHANGED gates
    BY DEF Step, Block, Discover, Meter, CheckPPF, InjectPPF, Struggle, MeetWall, Expand, Analyze,
           PlantNotes, ContradictLog, LogCommand
<1> QED BY <1>2, <1>3, <1>4, <1>5, <1>6, <1>7

LEMMA NumbersStep ==
    ASSUME TypeOK, NEW c \in Conns, Step(c)
    PROVE  Numbers'
<1>1. Numbers /\ Places /\ Held /\ New
    BY TypeParts
<1> USE DEF metrics, logged, feedback, tracker, analyser, clues, locals
<1>2. ASSUME NEW x \in Commands, Discover(c, x) PROVE Numbers'
    BY <1>1, <1>2 DEF Discover, Numbers
<1>3. CASE Meter(c)
    <2>1. fresh[c] \subseteq Matches[cmd[c]] /\ cmd[c] \in Commands
        BY <1>1 DEF New, Places
    <2>2. Cardinality(fresh[c]) \in Nat
        BY <2>1, CommandsTyped, FS_Subset, FS_CardinalityType
    <2> QED BY <1>1, <1>3, <2>2 DEF Meter, Numbers
<1>4. CASE CheckPPF(c)
    BY <1>1, <1>4 DEF CheckPPF, Numbers
<1>5. CASE InjectPPF(c)
    BY <1>1, <1>5 DEF InjectPPF, Numbers
<1>6. CASE Answer(c)
    <2>1. cmd[c] \in Commands
        BY <1>1 DEF Places
    <2>2. PICK o \in Outcomes[cmd[c]] : evidence' = evidence + Cardinality(o.found \ hits)
        BY <1>6 DEF Answer
    <2>3. IsFiniteSet(o.found)
        BY <2>1, <2>2, AnswerTyped
    <2>4. Cardinality(o.found \ hits) \in Nat
        BY <2>3, FS_Difference, FS_CardinalityType
    <2> QED BY <1>1, <1>6, <2>2, <2>4 DEF Answer, Numbers
<1>7. CASE Struggle(c)
    BY <1>1, <1>7 DEF Struggle, Numbers
<1>8. CASE MeetWall(c)
    BY <1>1, <1>8 DEF MeetWall, Numbers
<1>9. CASE Expand(c)
    BY <1>1, <1>9 DEF Expand, Numbers
<1>10. CASE Analyze(c)
    BY <1>1, <1>10 DEF Analyze, Streak, Numbers
<1>11. CASE Block(c) \/ LogCommand(c)
    <2>1. log' = log + 1 /\ blocked' \in {blocked, blocked + 1}
          /\ UNCHANGED <<evidence, reuses, ppf, injected, deadEnds, expansions, failing, notes, syslog>>
        BY <1>11 DEF Block, LogCommand
    <2> QED BY <1>1, <2>1 DEF Numbers
<1>13. CASE PlantNotes(c) \/ ContradictLog(c)
    BY <1>1, <1>13 DEF PlantNotes, ContradictLog, Numbers
<1>12. CASE Login(c) \/ UnlockLegacy(c) \/ UnlockTarget(c)
    BY <1>1, <1>12 DEF Login, UnlockLegacy, UnlockTarget, Numbers
<1> QED BY <1>2, <1>3, <1>4, <1>5, <1>6, <1>7, <1>8, <1>9, <1>10, <1>11, <1>12, <1>13 DEF Step

(* Where the connections are and what they hold. *)
LEMMA LocalsStep ==
    ASSUME TypeOK, NEW c \in Conns, Step(c)
    PROVE  Places' /\ Held' /\ New'
<1>1. Places /\ Held /\ New
    BY TypeParts
<1> USE DEF Goto, locals
<1>2. ASSUME NEW x \in Commands, Discover(c, x) PROVE Places' /\ Held' /\ New'
    <2>1. Places'
        BY <1>1, <1>2 DEF Discover, Places, Stages
    <2>2. Held'
        BY <1>1, <1>2 DEF Discover, Held
    <2>3. New'
        BY <1>1, <1>2 DEF Discover, CheckEvidence, New, Places
    <2> QED BY <2>1, <2>2, <2>3
<1>3. CASE Answer(c)
    <2>1. Places'
        BY <1>1, <1>3 DEF Answer, Places, Stages
    <2>2. Held'
        BY <1>1, <1>3 DEF Answer, Held, Places
    <2>3. New'
        BY <1>1, <1>3 DEF Answer, New
    <2> QED BY <2>1, <2>2, <2>3
<1>4. CASE LogCommand(c)
    <2>1. Places'
        BY <1>1, <1>4, AnyTyped DEF LogCommand, Places, Stages
    <2>2. Held'
        BY <1>1, <1>4, AnyTyped DEF LogCommand, Held
    <2>3. New'
        BY <1>1, <1>4, AnyTyped DEF LogCommand, New, Places
    <2> QED BY <2>1, <2>2, <2>3
<1>5. CASE UNCHANGED locals
    <2>1. Held' /\ New'
        BY <1>1, <1>5 DEF Held, New
    <2>2. UNCHANGED pc \/ \E stage \in Stages : Goto(c, stage)
        <3>1. CASE Analyze(c)
            BY <3>1 DEF Analyze, Advice, Stages
        <3>2. CASE ~Analyze(c)
            BY <1>5, <3>2 DEF Step, Block, Login, Discover, Answer, UnlockLegacy, UnlockTarget, LogCommand,
               Meter, CheckPPF, InjectPPF, Struggle, MeetWall, Expand, PlantNotes, ContradictLog, Stages
        <3> QED BY <3>1, <3>2
    <2>3. Places'
        BY <1>1, <1>5, <2>2 DEF Places
    <2> QED BY <2>1, <2>3
<1>6. CASE Meter(c) \/ CheckPPF(c) \/ InjectPPF(c) \/ Struggle(c) \/ MeetWall(c) \/ Expand(c)
    BY <1>5, <1>6 DEF Meter, CheckPPF, InjectPPF, Struggle, MeetWall, Expand
<1>7. CASE \/ Block(c) \/ Login(c) \/ UnlockLegacy(c) \/ UnlockTarget(c)
           \/ Analyze(c) \/ PlantNotes(c) \/ ContradictLog(c)
    BY <1>5, <1>7 DEF Block, Login, UnlockLegacy, UnlockTarget, Analyze, PlantNotes, ContradictLog
<1> QED BY <1>2, <1>3, <1>4, <1>6, <1>7 DEF Step

(* The results kept. *)
LEMMA ResultsStep ==
    ASSUME TypeOK, NEW c \in Conns, Step(c)
    PROVE  Results'
<1>1. Results /\ Places /\ Held
    BY TypeParts
<1>2. CASE Analyze(c)
    <2> DEFINE r == [cmd |-> cmd[c], ok |-> out[c].ok]
    <2>1. r \in [cmd : Commands, ok : BOOLEAN]
        BY <1>1, AnswerTyped DEF Places, Held
    <2>2. Append(recent, r) \in Seq([cmd : Commands, ok : BOOLEAN])
        BY <1>1, <2>1, AppendProperties DEF Results
    <2>3. recent' = Kept(Append(recent, r))
        BY <1>2 DEF Analyze
    <2> QED BY <2>2, <2>3, WindowKept DEF Results
<1>3. CASE UNCHANGED recent
    BY <1>1, <1>3 DEF Results
<1>4. Analyze(c) \/ UNCHANGED recent
    BY DEF Step, Block, Login, UnlockLegacy, UnlockTarget, Discover, Answer, Meter, CheckPPF, InjectPPF,
           Struggle, MeetWall, Expand, PlantNotes, ContradictLog, LogCommand, analyser
<1> QED BY <1>2, <1>3, <1>4

LEMMA TypeStep ==
    ASSUME TypeOK, GatesLayered, Unlocking, NEW c \in Conns, Step(c)
    PROVE  TypeOK' /\ GatesLayered' /\ Unlocking'
<1>1. gates' \subseteq Gates /\ GatesLayered' /\ Unlocking'
    BY GatesStep
<1>2. Numbers' /\ Results' /\ Places' /\ Held' /\ New'
    BY NumbersStep, LocalsStep, ResultsStep
<1> QED BY <1>1, <1>2 DEF TypeOK, Numbers, Results, Places, Held, New

-----------------------------------------------------------------------------
(* Evidence *)

(* Rules name their tokens: there are no more of these than of those. *)
LEMMA FewerTokens ==
    ASSUME NEW rules, IsFiniteSet(rules)
    PROVE  IsFiniteSet(TokensOf(rules)) /\ Cardinality(TokensOf(rules)) <= Cardinality(rules)
<1> DEFINE f == [r \in rules |-> r[1]]
<1>1. f \in Surjection(rules, TokensOf(rules))
    BY DEF Surjection, TokensOf
<1> QED BY <1>1, FS_Surjection

LEMMA CountedStep ==
    ASSUME TypeOK, Counted, NEW c \in Conns, Step(c)
    PROVE  Counted'
<1>1. /\ Numbers /\ Places /\ New
      /\ IsFiniteSet(hits) /\ evidence \in Nat /\ Cardinality(hits) \in Nat
      /\ evidence >= Cardinality(hits)
    BY TypeParts, FS_CardinalityType DEF Numbers, Counted
<1>2. CASE Meter(c)
    <2>1. cmd[c] \in Commands /\ fresh[c] \subseteq Matches[cmd[c]]
        BY <1>1 DEF Places, New
    <2>2. IsFiniteSet(fresh[c])
        BY <2>1, CommandsTyped, FS_Subset
    <2> DEFINE new == TokensOf(fresh[c])
    <2>3. IsFiniteSet(new) /\ Cardinality(new) <= Cardinality(fresh[c])
        BY <2>2, FewerTokens
    <2>4. /\ Cardinality(new) \in Nat /\ Cardinality(fresh[c]) \in Nat
          /\ IsFiniteSet(hits \cap new) /\ Cardinality(hits \cap new) \in Nat
        BY <1>1, <2>2, <2>3, FS_Intersection, FS_CardinalityType
    <2>5. /\ IsFiniteSet(hits \cup new)
          /\ Cardinality(hits \cup new) = Cardinality(hits) + Cardinality(new) - Cardinality(hits \cap new)
        BY <1>1, <2>3, FS_Union
    <2>6. hits' = hits \cup new /\ evidence' = evidence + Cardinality(fresh[c])
        BY <1>2 DEF Meter
    <2> HIDE DEF new
    <2> QED BY <1>1, <2>3, <2>4, <2>5, <2>6 DEF Counted
<1>3. CASE Answer(c)
    <2>1. PICK o \in Outcomes[cmd[c]] : /\ hits' = hits \cup o.found
                                        /\ evidence' = evidence + Cardinality(o.found \ hits)
        BY <1>3 DEF Answer
    <2>2. IsFiniteSet(o.found)
        BY <1>1, <2>1, AnswerTyped DEF Places
    <2>3. /\ IsFiniteSet(o.found \cap hits) /\ Cardinality(o.found \cap hits) \in Nat
          /\ Cardinality(o.found) \in Nat
        BY <1>1, <2>2, FS_Intersection, FS_CardinalityType
    <2>4. /\ IsFiniteSet(o.found \cup hits)
          /\ Cardinality(o.found \cup hits) =
                 Cardinality(o.found) + Cardinality(hits) - Cardinality(o.found \cap hits)
          /\ Cardinality(o.found \ hits) = Cardinality(o.found) - Cardinality(o.found \cap hits)
        BY <1>1, <2>2, FS_Union, FS_Difference
    <2>5. hits' = o.found \cup hits
        BY <2>1
    <2>6. Cardinality(o.found \cup hits) = Cardinality(hits) + Cardinality(o.found \ hits)
        BY <1>1, <2>3, <2>4
    <2>7. evidence' >= Cardinality(o.found \cup hits)
        BY <1>1, <2>1, <2>3, <2>4, <2>6
    <2> QED BY <2>4, <2>5, <2>7 DEF Counted
<1>4. CASE UNCHANGED <<hits, evidence>>
    BY <1>4 DEF Counted
<1>5. Meter(c) \/ Answer(c) \/ UNCHANGED <<hits, evidence>>
    BY DEF Step, Block, Login, UnlockLegacy, UnlockTarget, Discover, CheckPPF, InjectPPF, Struggle,
           MeetWall, Expand, Analyze, PlantNotes, ContradictLog, LogCommand, metrics
<1> QED BY <1>2, <1>3, <1>4, <1>5

-----------------------------------------------------------------------------
(* Feedback *)

(* A step moves one connection. *)
LEMMA OthersStay ==
    ASSUME Places, NEW c \in Conns, Step(c)
    PROVE  \A d \in Conns : d # c => pc'[d] = pc[d]
BY DEF Step, Block, Login, UnlockLegacy, UnlockTarget, Discover, Meter, CheckPPF, InjectPPF, Answer,
       Struggle, MeetWall, Expand, Analyze, PlantNotes, ContradictLog, LogCommand, Goto, Places

LEMMA InjectedStep ==
    ASSUME TypeOK, InjectedOnce, NEW c \in Conns, Step(c)
    PROVE  InjectedOnce'
<1>1. Numbers /\ Places
    BY TypeParts
<1>2. CASE CheckPPF(c)
    <2>1. \A d \in Conns : ~ppf => injected[d] = 0
        BY <1>1 DEF InjectedOnce, Numbers
    <2> QED BY <1>1, <1>2, <2>1 DEF CheckPPF, InjectedOnce, Goto, feedback, Places
<1>3. CASE InjectPPF(c)
    BY <1>1, <1>3 DEF InjectPPF, InjectedOnce, Goto, Places, Numbers
<1>4. CASE UNCHANGED feedback
    <2>1. ~CheckPPF(c) => \A d \in Conns : pc'[d] \in {"inject", "reinject"} => pc'[d] = pc[d]
        <3>1. Analyze(c) => pc'[c] \notin {"inject", "reinject"}
            BY <1>1 DEF Analyze, Advice, Goto, Places
        <3>2. \A d \in Conns : d # c => pc'[d] = pc[d]
            BY <1>1, OthersStay
        <3>3. ~CheckPPF(c) /\ ~Analyze(c) => pc'[c] \notin {"inject", "reinject"} \/ pc'[c] = pc[c]
            BY <1>1, <1>4 DEF Step, Block, Login, UnlockLegacy, UnlockTarget, Discover, Meter, InjectPPF,
               Answer, Struggle, MeetWall, Expand, PlantNotes, ContradictLog, LogCommand, Goto, Places,
               feedback, InjectedOnce, Numbers
        <3> QED BY <3>1, <3>2, <3>3
    <2> QED BY <1>2, <1>4, <2>1 DEF InjectedOnce, feedback
<1>5. InjectPPF(c) \/ UNCHANGED feedback
    BY DEF Step, Block, Login, UnlockLegacy, UnlockTarget, Discover, Meter, CheckPPF, Answer, Struggle,
           MeetWall, Expand, Analyze, PlantNotes, ContradictLog, LogCommand
<1> QED BY <1>3, <1>4, <1>5

(* What a connection about to look, or already past it, does to the commands that
   may still be logged without feedback. *)
LEMMA FedStep ==
    ASSUME TypeOK, Fed, NEW c \in Conns, Step(c)
    PROVE  Fed'
<1>1. /\ Numbers /\ Places
      /\ log \in Nat /\ blocked \in Nat /\ Cardinality(Conns) \in Nat
    BY TypeParts, FS_CardinalityType DEF Numbers
<1>2. SUFFICES ASSUME ~ppf', evidence' >= 1, protocols' # {}, Where(Before)' = {}
               PROVE  log' - blocked' + Cardinality(Where(After)') < Committed + Cardinality(Conns)
    BY DEF Fed
<1> USE DEF Goto
<1>3. pc'[c] \notin Before /\ \A d \in Conns : d # c => pc[d] \notin Before
    <2>1. \A d \in Conns : pc'[d] \notin Before
        BY <1>2 DEF Where
    <2>2. \A d \in Conns : d # c => pc'[d] = pc[d]
        BY <1>1, OthersStay
    <2> QED BY <2>1, <2>2
<1>4. CASE CheckPPF(c)
    <2>1. pc[c] = "recheck" /\ pc' = [pc EXCEPT ![c] = "struggle"] /\ ~ShouldTriggerPPF
        BY <1>1, <1>2, <1>3, <1>4 DEF CheckPPF, Before, feedback, Places
    <2>2. log < Committed /\ log' = log /\ blocked' = blocked
        BY <1>1, <1>2, <1>4, <2>1 DEF CheckPPF, ShouldTriggerPPF, metrics, logged
    <2>3. Cardinality(Where(After)') \in Nat /\ Cardinality(Where(After)') <= Cardinality(Conns)
        BY <1>1, <2>1, WhereMoves DEF Places
    <2> QED BY <1>1, <2>2, <2>3
<1>5. CASE InjectPPF(c)
    BY <1>2, <1>5 DEF InjectPPF
<1>6. CASE Meter(c) \/ Answer(c) \/ UnlockTarget(c) \/ \E x \in Commands : Discover(c, x)
    BY <1>1, <1>3, <1>6 DEF Meter, Answer, UnlockTarget, Discover, Before, Places
<1>7. ASSUME pc[c] \notin Before, UNCHANGED <<metrics, ppf>> PROVE Where(Before) = {} /\ Fed /\
             log - blocked + Cardinality(Where(After)) < Committed + Cardinality(Conns)
    <2>1. Where(Before) = {}
        BY <1>3, <1>7 DEF Where, Before
    <2> QED BY <1>2, <1>7, <2>1 DEF Fed, metrics
<1>8. ASSUME pc[c] \in After, NEW stage \in After, pc' = [pc EXCEPT ![c] = stage],
             UNCHANGED <<metrics, ppf, logged>>
      PROVE  log' - blocked' + Cardinality(Where(After)') < Committed + Cardinality(Conns)
    <2>1. Where(After)' = Where(After)
        BY <1>1, <1>8, WhereMoves DEF Places
    <2>2. pc[c] \notin Before
        BY <1>8 DEF After, Before
    <2> QED BY <1>7, <1>8, <2>1, <2>2 DEF logged
<1>9. CASE Struggle(c) \/ MeetWall(c) \/ Expand(c) \/ PlantNotes(c) \/ ContradictLog(c)
    BY <1>8, <1>9 DEF Struggle, MeetWall, Expand, PlantNotes, ContradictLog, feedback, After
<1>10. CASE Analyze(c)
    BY <1>8, <1>10 DEF Analyze, Advice, feedback, After
<1>11. CASE LogCommand(c)
    <2>1. pc[c] = "log" /\ UNCHANGED <<metrics, ppf, blocked>> /\ log' = log + 1
          /\ pc' = [pc EXCEPT ![c] = "ready"]
        BY <1>11 DEF LogCommand, feedback
    <2>2. "log" \in After /\ "log" \notin Before /\ "ready" \notin After
        BY DEF After, Before
    <2>3. /\ Cardinality(Where(After)) \in Nat
          /\ Cardinality(Where(After)') = Cardinality(Where(After)) - 1
        BY <1>1, <2>1, <2>2, WhereMoves DEF Places
    <2>4. log - blocked + Cardinality(Where(After)) < Committed + Cardinality(Conns)
        BY <1>7, <2>1, <2>2
    <2> QED BY <1>1, <2>1, <2>3, <2>4
<1>12. CASE Block(c)
    <2>1. /\ pc[c] = "ready" /\ UNCHANGED <<metrics, ppf, pc>>
          /\ log' = log + 1 /\ blocked' = blocked + 1
        BY <1>12 DEF Block, feedback
    <2>2. log - blocked + Cardinality(Where(After)) < Committed + Cardinality(Conns)
        BY <1>7, <2>1 DEF Before
    <2>3. Where(After)' = Where(After) /\ log' - blocked' = log - blocked
        BY <1>1, <2>1 DEF Where
    <2> QED BY <2>2, <2>3
<1>13. CASE Login(c) \/ UnlockLegacy(c)
    <2>1. /\ pc[c] \in {"ready", "legacy", "login"} /\ UNCHANGED <<metrics, ppf, logged>>
          /\ \E stage \in {"ready", "target", "login"} : pc' = [pc EXCEPT ![c] = stage]
        BY <1>13 DEF Login, UnlockLegacy, feedback
    <2>2. pc[c] # "legacy"
        <3>1. pc[c] = "legacy" => pc'[c] \in Before
            BY <1>1, <1>13 DEF Login, UnlockLegacy, Before, Places
        <3> QED BY <1>3, <3>1
    <2>3. Where(After)' = Where(After)
        BY <1>1, <2>1, WhereMoves DEF Places, After
    <2>4. pc[c] \notin Before
        BY <2>1, <2>2 DEF Before
    <2> QED BY <1>7, <2>1, <2>3, <2>4 DEF logged
<1> QED BY <1>4, <1>5, <1>6, <1>9, <1>10, <1>11, <1>12, <1>13 DEF Step

-----------------------------------------------------------------------------
(* Dead ends *)

LEMMA WallsStep ==
    ASSUME TypeOK, Walls, NEW c \in Conns, Step(c)
    PROVE  Walls'
<1>1. /\ Numbers /\ Places
      /\ expansions \in Nat /\ deadEnds \in Nat /\ Cardinality(Conns) \in Nat
      /\ pc \in [Conns -> Stages]
    BY TypeParts, FS_CardinalityType DEF Numbers, Places
<1> DEFINE room == MaxExpansions + Cardinality(Conns) - 1
<1>2. /\ expansions + Cardinality(Where(Expanding)) <= room
      /\ deadEnds >= Threshold => expansions >= MaxExpansions \/ Where(Facing) # {}
    BY DEF Walls
<1>0. /\ "expand" \in Expanding /\ \A stage \in Stages \ Facing : stage \notin Expanding
      /\ "wall" \notin Expanding /\ "wall" \in Facing /\ "expand" \in Facing
      /\ {"judge", "struggle"} \subseteq Stages \ Facing
    BY DEF Expanding, Facing, Stages
<1> USE DEF Goto
<1>3. CASE MeetWall(c)
    <2>1. pc[c] = "wall" /\ UNCHANGED <<deadEnds, expansions>>
        BY <1>3 DEF MeetWall, tracker
    <2>2. CASE ShouldExpand
        <3>1. pc' = [pc EXCEPT ![c] = "expand"]
            BY <1>3, <2>2 DEF MeetWall
        <3>2. /\ Cardinality(Where(Expanding)') \in Nat /\ Cardinality(Where(Expanding)') <= Cardinality(Conns)
              /\ Where(Facing)' = Where(Facing)
            BY <1>1, <2>1, <3>1, <1>0, WhereMoves
        <3>3. expansions < MaxExpansions
            BY <2>2 DEF ShouldExpand
        <3>4. expansions' + Cardinality(Where(Expanding)') <= room
            BY <1>1, <2>1, <3>2, <3>3
        <3> QED BY <1>2, <2>1, <3>2, <3>4 DEF Walls
    <2>3. CASE ~ShouldExpand
        <3>1. pc' = [pc EXCEPT ![c] = "judge"]
            BY <1>3, <2>3 DEF MeetWall
        <3>2. Where(Expanding)' = Where(Expanding)
            BY <1>1, <2>1, <3>1, <1>0, WhereMoves
        <3>3. deadEnds' >= Threshold => expansions' >= MaxExpansions
            BY <1>1, <2>1, <2>3 DEF ShouldExpand
        <3>4. expansions' + Cardinality(Where(Expanding)') <= room
            BY <1>2, <2>1, <3>2
        <3> QED BY <3>3, <3>4 DEF Walls
    <2> QED BY <2>2, <2>3
<1>4. CASE Expand(c)
    <2>1. /\ pc[c] = "expand" /\ pc' = [pc EXCEPT ![c] = "judge"]
          /\ expansions' = expansions + 1 /\ deadEnds' = 0
        BY <1>4 DEF Expand
    <2>2. /\ Cardinality(Where(Expanding)) \in Nat
          /\ Cardinality(Where(Expanding)') = Cardinality(Where(Expanding)) - 1
        BY <1>1, <2>1, <1>0, WhereMoves
    <2>3. expansions' + Cardinality(Where(Expanding)') <= room
        BY <1>1, <1>2, <2>1, <2>2
    <2>4. ~(deadEnds' >= Threshold)
        BY <2>1
    <2> QED BY <2>3, <2>4 DEF Walls
<1>5. CASE Struggle(c)
    <2>1. CASE IsDeadEnd(cmd[c], out[c])
        <3>1. /\ pc[c] = "struggle" /\ pc' = [pc EXCEPT ![c] = "wall"] /\ UNCHANGED expansions
            BY <1>5, <2>1 DEF Struggle
        <3>2. Where(Expanding)' = Where(Expanding)
            BY <1>1, <3>1, <1>0, WhereMoves
        <3>3. Where(Facing)' # {}
            BY <1>1, <1>0, <3>1 DEF Where
        <3>4. expansions' + Cardinality(Where(Expanding)') <= room
            BY <1>2, <3>1, <3>2
        <3> QED BY <3>3, <3>4 DEF Walls
    <2>2. CASE ~IsDeadEnd(cmd[c], out[c])
        <3>1. /\ pc[c] = "struggle" /\ pc' = [pc EXCEPT ![c] = "judge"]
              /\ UNCHANGED <<deadEnds, expansions>>
            BY <1>5, <2>2 DEF Struggle
        <3>2. Where(Expanding)' = Where(Expanding) /\ Where(Facing)' = Where(Facing)
            BY <1>1, <3>1, <1>0, WhereMoves
        <3>3. /\ expansions' + Cardinality(Where(Expanding)') <= room
              /\ deadEnds' >= Threshold => expansions' >= MaxExpansions \/ Where(Facing)' # {}
            BY <1>2, <3>1, <3>2
        <3> QED BY <3>3 DEF Walls
    <2> QED BY <2>1, <2>2
<1>6. CASE ~MeetWall(c) /\ ~Expand(c) /\ ~Struggle(c)
    <2>1. UNCHANGED <<deadEnds, expansions>> /\ pc[c] \notin Facing
        BY <1>6 DEF Step, Block, Login, UnlockLegacy, UnlockTarget, Discover, Meter, CheckPPF, InjectPPF,
           Answer, Analyze, PlantNotes, ContradictLog, LogCommand, tracker, Facing
    <2>2. UNCHANGED pc \/ \E stage \in Stages \ Facing : pc' = [pc EXCEPT ![c] = stage]
        <3>1. CASE Analyze(c)
            BY <3>1 DEF Analyze, Advice, Stages, Facing
        <3>2. CASE ~Analyze(c)
            BY <1>6, <3>2 DEF Step, Block, Login, UnlockLegacy, UnlockTarget, Discover, Meter, CheckPPF,
               InjectPPF, Answer, PlantNotes, ContradictLog, LogCommand, Stages, Facing
        <3> QED BY <3>1, <3>2
    <2>3. Where(Expanding)' = Where(Expanding) /\ Where(Facing)' = Where(Facing)
        <3>1. CASE UNCHANGED pc
            BY <3>1 DEF Where
        <3>2. CASE ~UNCHANGED pc
            BY <1>1, <2>1, <2>2, <1>0, <3>2, WhereMoves
        <3> QED BY <3>1, <3>2
    <2>4. /\ expansions' + Cardinality(Where(Expanding)') <= room
          /\ deadEnds' >= Threshold => expansions' >= MaxExpansions \/ Where(Facing)' # {}
        BY <1>2, <2>1, <2>3
    <2> QED BY <2>4 DEF Walls
<1> QED BY <1>3, <1>4, <1>5, <1>6

-----------------------------------------------------------------------------
(* Failures *)

(* The results kept after a new one, r, are the latest of the old ones and r. *)
Shifted(old, n, new, m, r) ==
    /\ n \in Nat /\ m \in 1..n + 1 /\ DOMAIN old = 1..n /\ DOMAIN new = 1..m
    /\ new[m] = r
    /\ \A i \in 1..m - 1 : i + (n + 1 - m) \in 1..n /\ new[i] = old[i + (n + 1 - m)]

(* The end of the old results from index n - f on, f failures after a success. *)
FailingEnd(seq, n, f) ==
    /\ \A i \in 1..n : i > n - f => ~seq[i].ok
    /\ f < n => seq[n - f].ok

LEMMA KeptShifts ==
    ASSUME NEW T, NEW old \in Seq(T), NEW r \in T
    PROVE  Shifted(old, Len(old), Kept(Append(old, r)), Len(Kept(Append(old, r))), r)
<1> DEFINE a == Append(old, r)
           k == Kept(a)
           n == Len(old)
           m == Len(k)
<1>1. n \in Nat /\ DOMAIN old = 1..n
    BY LenProperties
<1>2. /\ a \in Seq(T) /\ Len(a) = n + 1
      /\ \A i \in 1..n : a[i] = old[i]
      /\ a[n + 1] = r
    BY AppendProperties
<1> HIDE DEF a
<1>3. /\ k \in Seq(T) /\ m <= n + 1
      /\ n + 1 <= Window => m = n + 1
      /\ n + 1 > Window => m = Window
      /\ \A i \in 1..m : k[i] = a[i + (n + 1 - m)]
    <2>1. /\ k \in Seq(T) /\ m <= Len(a)
          /\ Len(a) <= Window => k = a
          /\ Len(a) > Window => m = Window
          /\ \A i \in 1..m : k[i] = a[i + (Len(a) - m)]
        BY <1>2, WindowKept
    <2> QED BY <1>2, <2>1
<1>4. m \in Nat /\ DOMAIN k = 1..m
    BY <1>3, LenProperties
<1> HIDE DEF k, n, m
<1>5. m \in 1..n + 1
    BY <1>1, <1>3, <1>4, ThresholdsNat
<1>6. k[m] = r
    <2>1. m \in 1..m /\ m + (n + 1 - m) = n + 1
        BY <1>1, <1>5
    <2> QED BY <1>2, <1>3, <2>1
<1>7. ASSUME NEW i \in 1..m - 1
      PROVE  i + (n + 1 - m) \in 1..n /\ k[i] = old[i + (n + 1 - m)]
    <2>1. i \in 1..m /\ i + (n + 1 - m) \in 1..n
        BY <1>1, <1>5
    <2> QED BY <1>2, <1>3, <2>1
<1>8. Shifted(old, n, k, m, r)
    BY <1>1, <1>4, <1>5, <1>6, <1>7 DEF Shifted
<1> QED BY <1>8 DEF a, k, n, m

LEMMA AnalyzeShifts ==
    ASSUME TypeOK, NEW c \in Conns, Analyze(c)
    PROVE  Shifted(recent, Len(recent), recent', Len(recent'), [cmd |-> cmd[c], ok |-> out[c].ok])
<1>1. /\ [cmd |-> cmd[c], ok |-> out[c].ok] \in [cmd : Commands, ok : BOOLEAN]
      /\ recent \in Seq([cmd : Commands, ok : BOOLEAN])
    BY TypeParts, AnswerTyped DEF Places, Held, Results
<1>2. recent' = Kept(Append(recent, [cmd |-> cmd[c], ok |-> out[c].ok]))
    BY DEF Analyze
<1> QED BY <1>1, <1>2, KeptShifts

(* One more failure lengthens the failing end, a success starts it anew. *)
LEMMA EndShifts ==
    ASSUME NEW old, NEW n, NEW new, NEW m, NEW r, Shifted(old, n, new, m, r),
           NEW f \in Nat, FailingEnd(old, n, f), NEW g,
           g = IF r.ok THEN 0 ELSE f + 1
    PROVE  FailingEnd(new, m, g)
<1> USE DEF Shifted, FailingEnd
<1>1. CASE r.ok
    BY <1>1
<1>2. CASE ~r.ok
    <2>1. ASSUME NEW i \in 1..m, i > m - g PROVE ~new[i].ok
        <3>1. CASE i = m
            BY <1>2, <3>1
        <3>2. CASE i # m
            <4>1. i \in 1..m - 1 /\ i + (n + 1 - m) > n - f
                BY <1>2, <2>1, <3>2
            <4> QED BY <4>1
        <3> QED BY <3>1, <3>2
    <2>2. ASSUME g < m PROVE new[m - g].ok
        <3>1. /\ m - g \in 1..m - 1 /\ f < n
              /\ (m - g) + (n + 1 - m) = n - f
            BY <1>2, <2>2, SMTT(30)
        <3>2. new[m - g] = old[n - f]
            BY <3>1
        <3> QED BY <3>1, <3>2
    <2> QED BY <2>1, <2>2
<1> QED BY <1>1, <1>2

LEMMA RecentEnd ==
    ASSUME TypeOK
    PROVE  FailuresAreRecent <=> FailingEnd(recent, Len(recent), failing)
<1>1. DOMAIN recent = 1..Len(recent)
    BY LenProperties, TypeParts DEF Held, Results
<1> QED BY <1>1 DEF FailuresAreRecent, FailingEnd, Latest, FailedAt

LEMMA FailuresStep ==
    ASSUME TypeOK, FailuresAreRecent, NEW c \in Conns, Step(c)
    PROVE  FailuresAreRecent'
<1>1. CASE UNCHANGED <<failing, recent>>
    BY <1>1 DEF FailuresAreRecent, Latest, FailedAt
<1>2. CASE Analyze(c)
    <2>1. Shifted(recent, Len(recent), recent', Len(recent'), [cmd |-> cmd[c], ok |-> out[c].ok])
        BY <1>2, AnalyzeShifts
    <2>2. failing \in Nat /\ failing' = IF out[c].ok THEN 0 ELSE failing + 1
        BY <1>2, TypeParts DEF Analyze, Streak, Numbers
    <2>3. FailingEnd(recent, Len(recent), failing)
        BY RecentEnd
    <2>4. FailingEnd(recent', Len(recent'), failing')
        BY <2>1, <2>2, <2>3, EndShifts
    <2>5. DOMAIN recent' = 1..Len(recent')
        BY <2>1 DEF Shifted
    <2> QED BY <2>4, <2>5 DEF FailuresAreRecent, FailingEnd, Latest, FailedAt
<1>3. Analyze(c) \/ UNCHANGED <<failing, recent>>
    BY DEF Step, Block, Login, UnlockLegacy, UnlockTarget, Discover, Meter, CheckPPF, InjectPPF, Answer,
           Struggle, MeetWall, Expand, PlantNotes, ContradictLog, LogCommand, analyser
<1> QED BY <1>1, <1>2, <1>3

(* A failure after f others that does not repeat one of the last five. *)
LEMMA NewFailureDiffers ==
    ASSUME NEW old, NEW n, NEW new, NEW m, NEW r, Shifted(old, n, new, m, r),
           NEW f \in Nat, f >= 2, FailingEnd(old, n, f),
           \A i \in 1..n : i > n - 5 => old[i].cmd # r.cmd \/ old[i].ok
    PROVE  \A i \in 1..m : i < m /\ i > m - 3 => new[i].cmd # new[m].cmd
<1> USE DEF Shifted, FailingEnd
<1> SUFFICES ASSUME NEW i \in 1..m, i < m, i > m - 3 PROVE new[i].cmd # new[m].cmd
    OBVIOUS
<1>1. /\ i \in 1..m - 1 /\ i + (n + 1 - m) > n - 5 /\ i + (n + 1 - m) > n - f
    OBVIOUS
<1>2. new[i] = old[i + (n + 1 - m)] /\ i + (n + 1 - m) \in 1..n
    BY <1>1
<1> QED BY <1>1, <1>2

(* Who is told to plant notes tries different things. *)
LEMMA NotesStep ==
    ASSUME TypeOK, FailuresAreRecent, NEW c \in Conns, Step(c), pc[c] # "plant", pc'[c] = "plant"
    PROVE  /\ failing' >= 3
           /\ \A i \in DOMAIN recent' :
                i < Len(recent') /\ i > Len(recent') - 3 =>
                    recent'[i].cmd # recent'[Len(recent')].cmd
<1> DEFINE r == [cmd |-> cmd[c], ok |-> out[c].ok]
<1>1. Analyze(c)
    BY TypeParts DEF Step, Block, Login, UnlockLegacy, UnlockTarget, Discover, Meter, CheckPPF, InjectPPF,
       Answer, Struggle, MeetWall, Expand, PlantNotes, ContradictLog, LogCommand, Goto, Places
<1>2. Shifted(recent, Len(recent), recent', Len(recent'), r)
    BY <1>1, AnalyzeShifts
<1>3. failing' >= 3 /\ ~out[c].ok /\ ClassifyFailure(cmd[c], out[c]) = "L2"
    BY <1>1, TypeParts DEF Analyze, Advice, Goto, Places
<1>4. failing \in Nat /\ failing' = failing + 1
    BY <1>1, <1>3, TypeParts DEF Analyze, Streak, Numbers
<1>5. ~RepeatedCommand(cmd[c])
    BY <1>3 DEF ClassifyFailure
<1>6. \A i \in 1..Len(recent) : i > Len(recent) - 5 => recent[i].cmd # r.cmd \/ recent[i].ok
    BY <1>2, <1>5 DEF RepeatedCommand, Latest, FailedAt, Shifted
<1>7. FailingEnd(recent, Len(recent), failing)
    BY RecentEnd
<1>8. failing >= 2
    BY <1>3, <1>4
<1> HIDE DEF r
<1>9. \A i \in 1..Len(recent') :
        i < Len(recent') /\ i > Len(recent') - 3 => recent'[i].cmd # recent'[Len(recent')].cmd
    BY <1>2, <1>4, <1>6, <1>7, <1>8, NewFailureDiffers
<1> QED BY <1>2, <1>3, <1>9 DEF Shifted

-----------------------------------------------------------------------------
(* The invariant *)

LEMMA InitIInv == Init => IInv
<1> SUFFICES ASSUME Init PROVE IInv
    OBVIOUS
<1>1. TypeOK /\ GatesLayered /\ Unlocking
    BY InitType DEF Init, Unlocking, Between
<1>2. Counted
    BY FS_EmptySet DEF Init, Counted
<1>3. InjectedOnce /\ Fed
    BY DEF Init, InjectedOnce, Fed
<1>4. Cardinality(Conns) \in Nat /\ Cardinality(Conns) # 0
    BY FS_EmptySet, FS_CardinalityType
<1>5. Where(Expanding) = {}
    BY DEF Init, Where, Expanding
<1>6. Walls
    BY <1>4, <1>5, FS_EmptySet DEF Init, Walls
<1>7. FailuresAreRecent
    BY DEF Init, FailuresAreRecent, Latest
<1> QED BY <1>1, <1>2, <1>3, <1>6, <1>7 DEF IInv

LEMMA NextIInv == IInv /\ [Next]_vars => IInv'
<1> SUFFICES ASSUME IInv, [Next]_vars PROVE IInv'
    OBVIOUS
<1>1. ASSUME NEW c \in Conns, Step(c) PROVE IInv'
    BY <1>1, TypeStep, CountedStep, InjectedStep, FedStep, WallsStep, FailuresStep DEF IInv
<1>2. CASE UNCHANGED vars
    <2> USE <1>2 DEF vars, metrics, logged, feedback, tracker, analyser, clues, locals
    <2>1. TypeOK' /\ GatesLayered' /\ Unlocking'
        BY DEF IInv, TypeOK, GatesLayered, Unlocking
    <2>2. Counted' /\ InjectedOnce'
        BY DEF IInv, Counted, InjectedOnce
    <2>3. Fed' /\ Walls'
        BY DEF IInv, Fed, Walls, Where
    <2>4. FailuresAreRecent'
        BY DEF IInv, FailuresAreRecent, Latest, FailedAt
    <2> QED BY <2>1, <2>2, <2>3, <2>4 DEF IInv
<1> QED BY <1>1, <1>2 DEF Next

LEMMA Invariance == Spec => []IInv
BY InitIInv, NextIInv, PTL DEF Spec

(* Every variable has its type; what is counted is never less than what was found; and
   the gates open in their order (CheckEvidence, AdvanceGatesFromInteraction). *)
THEOREM CountedAndLayered == Spec => []Inv
<1>1. IInv => Inv
    BY DEF IInv, Inv, Counted, EvidenceCounted
<1> QED BY <1>1, Invariance, PTL

(* Every connection injects the PPF topology once at the most (triggerPPFIfReady). *)
THEOREM InjectsOnce == Spec => []InjectedOnce
<1>1. IInv => InjectedOnce
    BY DEF IInv
<1> QED BY <1>1, Invariance, PTL

(* An attacker who goes on gets feedback, for any threshold and number of connections
   (ShouldTriggerPPF). *)
THEOREM Engagement == Spec => []EngagedIsFed
<1>1. IInv => EngagedIsFed
    <2> SUFFICES ASSUME IInv, AtRest, evidence >= 1, protocols # {},
                        log - blocked >= Committed + Cardinality(Conns), ~ppf
                 PROVE  FALSE
        BY DEF EngagedIsFed, IInv, TypeOK
    <2>1. Where(Before) = {} /\ Where(After) = {}
        BY DEF AtRest, Where, Before, After
    <2>2. log - blocked + 0 < Committed + Cardinality(Conns)
        BY <2>1, FS_EmptySet DEF IInv, Fed
    <2>3. log \in Nat /\ blocked \in Nat /\ Cardinality(Conns) \in Nat
        BY FS_CardinalityType DEF IInv, TypeOK
    <2> QED BY <2>2, <2>3
<1> QED BY <1>1, Invariance, PTL

(* A series of dead ends is answered, and the limit of the expansions is overrun by the
   connections that overlap only (DeadEndTracker). *)
THEOREM WallsFall == Spec => []WallsAnswered
<1>1. IInv => WallsAnswered
    <2> SUFFICES ASSUME IInv PROVE WallsAnswered
        OBVIOUS
    <2>1. /\ deadEnds \in Nat /\ expansions \in Nat /\ pc \in [Conns -> Stages]
          /\ Cardinality(Conns) \in Nat
        BY FS_CardinalityType DEF IInv, TypeOK
    <2>2. Where(Expanding) \in SUBSET Conns
        BY DEF Where
    <2>3. Cardinality(Where(Expanding)) \in Nat
        BY <2>2, FS_Subset, FS_CardinalityType
    <2>4. expansions <= MaxExpansions + Cardinality(Conns) - 1
        BY <2>1, <2>3 DEF IInv, Walls
    <2>5. AtRest => Where(Facing) = {}
        BY DEF AtRest, Where, Facing
    <2>6. AtRest => deadEnds < Threshold \/ expansions >= MaxExpansions
        BY <2>1, <2>5 DEF IInv, Walls
    <2> QED BY <2>4, <2>6 DEF WallsAnswered
<1> QED BY <1>1, Invariance, PTL

(* The failures counted are the latest, whatever the window drops (Analyze). *)
THEOREM FailuresRecent == Spec => []FailuresAreRecent
<1>1. IInv => FailuresAreRecent
    BY DEF IInv
<1> QED BY <1>1, Invariance, PTL

(* Notes are planted by connections whose own analysis found the third failure in a row,
   of a command not tried in the two before, whatever the others do between that analysis
   and the planting (classifyFailure, recommendAction). *)
THEOREM NotesForOthers == Spec => NotesForTheLost
<1> DEFINE Lost == failing' >= 3 /\ \A i \in DOMAIN recent' :
              i < Len(recent') /\ i > Len(recent') - 3 => recent'[i].cmd # recent'[Len(recent')].cmd
           Told == (\E c \in Conns : pc[c] # "plant" /\ pc'[c] = "plant") => Lost
           Planted == notes # notes' => \E c \in Conns : pc[c] = "plant"
<1>1. IInv /\ [Next]_vars => [Planted /\ Told]_vars
    <2> SUFFICES ASSUME IInv, Next PROVE Planted /\ Told
        OBVIOUS
    <2>1. PICK c \in Conns : Step(c)
        BY DEF Next
    <2>2. Planted
        BY <2>1 DEF Step, Block, Login, UnlockLegacy, UnlockTarget, Discover, Meter, CheckPPF, InjectPPF,
           Answer, Struggle, MeetWall, Expand, Analyze, PlantNotes, ContradictLog, LogCommand, analyser, clues
    <2>3. \A d \in Conns : d # c => pc'[d] = pc[d]
        BY <2>1, OthersStay, TypeParts DEF IInv
    <2>4. Told
        BY <2>1, <2>3, NotesStep DEF IInv
    <2> QED BY <2>2, <2>4
<1> QED BY <1>1, Invariance, PTL DEF Spec, NotesForTheLost
=============================================================================
