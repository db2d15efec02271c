------------------------ MODULE PlanningCache_proofs ------------------------
(***************************************************************************)
(* Proofs about PlanningCache, for any connections, goroutines, commands,  *)
(* plans, lifetimes and cache sizes.                                       *)
(***************************************************************************)
EXTENDS PlanningCache, FiniteSetTheorems, SequenceTheorems, TLAPS

\* The answers on their way into the cache, and those in it.  A promotion has
\* raised the versions for files that are not there yet: what is computed or
\* cached then is raced.
OnTheWay ==
    \A c \in Conns : pc[c] = "store" /\ ~raced[c] =>
        level[c] >= announced /\ \A d \in Conns : pc[d] # "promoted"

HalfPromoted ==
    (\E d \in Conns : pc[d] = "promoted") => \A e \in cache : e.current => e.raced

Fresh == announced <= content /\ OnTheWay /\ HalfPromoted /\ StaleOnlyFromRaces

\* The connections whose command has passed the test of the plan.
Past == {"decided", "merged", "told", "planned", "agents", "added", "expanded", "lookup",
         "answer", "store", "written", "answered", "logging"}
Underway == {c \in Conns : pc[c] \in Past}

\* Every command under way may make a plan in force one command older.
Timely == active # NoPlan /\ "plan_ttl" \in InvalidatorsOf[active] =>
    log - started + Cardinality(Underway) <= (IF TTL > 2 THEN TTL - 2 ELSE 0) + Cardinality(Conns)

IInv == TypeOK /\ Fresh /\ Timely

-----------------------------------------------------------------------------
(* Types *)

LEMMA CommandKnown == AnyCommand \in Commands
BY CommandSets DEF AnyCommand

(* Popping a sequence gives a sequence, and its last element is typed. *)
LEMMA PopTyped ==
    ASSUME NEW S, NEW s \in Seq(S), s # <<>>
    PROVE  SubSeq(s, 1, Len(s) - 1) \in Seq(S) /\ s[Len(s)] \in S /\ s[1] \in S
<1>1. Len(s) \in Nat \ {0} /\ \A i \in 1..Len(s) : s[i] \in S
    BY EmptySeq, LenProperties, ElementOfSeq
<1>2. \A i \in 1..Len(s) - 1 : s[i] \in S
    BY <1>1
<1> QED BY <1>1, <1>2, SubSeqProperties

(* Outdating the cache and overtaking answers keeps their types. *)
LEMMA BumpTyped ==
    ASSUME TypeOK, NEW p
    PROVE  Outdated \subseteq Answer /\ Overtaken(p) \in [Conns -> BOOLEAN]
<1>1. \A e \in Answer : [e EXCEPT !.current = FALSE] \in Answer
    BY DEF Answer
<1>2. Outdated \subseteq Answer
    BY <1>1 DEF Outdated, TypeOK
<1>3. \A c \in Conns : (raced[c] \/ (pc[c] = "store" /\ c # p)) \in BOOLEAN
    OBVIOUS
<1>4. Overtaken(p) \in [Conns -> BOOLEAN]
    BY <1>3 DEF Overtaken
<1> QED BY <1>2, <1>4

LEMMA TypeInit == Init => TypeOK
<1> SUFFICES ASSUME Init PROVE TypeOK
    OBVIOUS
<1> USE DEF Init
<1>1. pc \in [Procs -> Labels]
    BY DEF Labels
<1>2. stack \in Seq(AllHosts) /\ at \in AllHosts
    BY DEF AllHosts
<1> QED BY <1>1, <1>2, CommandKnown DEF TypeOK, AllHosts

LEMMA TypeNext == TypeOK /\ [Next]_vars => TypeOK'
<1> SUFFICES ASSUME TypeOK, [Next]_vars PROVE TypeOK'
    OBVIOUS
<1> USE DEF Goto, versions, activePlan, where, local
<1>0. Conns \subseteq Procs /\ Jobs \subseteq Procs
    BY DEF Procs
<1>a. ASSUME NEW p \in Procs, NEW l \in Labels, Goto(p, l) PROVE pc' \in [Procs -> Labels]
    BY <1>a DEF TypeOK
<1>b. {"idle", "ready", "goal", "goal made", "goal told", "promoted", "route", "replan",
       "decided", "merged", "told", "planned", "agents", "added", "expanded", "lookup",
       "answer", "store", "written", "answered", "logging", "planning", "answering",
       "rendered"} \subseteq Labels
    BY DEF Labels
<1> HIDE DEF Goto
<1>1. ASSUME NEW c \in Conns, NEW x \in Commands, Type(c, x) PROVE TypeOK'
  <2> USE <1>1 DEF Type
  <2>1. pc' \in [Procs -> Labels]
      BY <1>0, <1>a, <1>b
  <2>2. cmd' \in [Conns -> Commands] /\ home' \in [Conns -> AllHosts]
      BY DEF TypeOK
  <2>3. CASE x \in Blocked
      BY <2>1, <2>2, <2>3, BumpTyped DEF TypeOK, InvalidateActivePlan
  <2>4. CASE x \notin Blocked
      BY <2>1, <2>2, <2>4 DEF TypeOK
  <2> QED BY <2>3, <2>4
<1>2. ASSUME NEW c \in Conns,
             \/ InjectGoal(c) \/ AnnounceGoal(c) \/ AddFile(c) \/ AnnounceFile(c)
             \/ StoreFact(c) \/ TriggerPPF(c) \/ AnnounceWrite(c) \/ Enrich(c)
      PROVE  TypeOK'
  <2>1. pc' \in [Procs -> Labels]
      BY <1>0, <1>2, <1>a, <1>b
      DEF InjectGoal, AnnounceGoal, AddFile, AnnounceFile, StoreFact, TriggerPPF,
          AnnounceWrite, Enrich
  <2>2. CASE InjectGoal(c) \/ AddFile(c) \/ TriggerPPF(c) \/ Enrich(c)
    <3>1. content' \in Nat /\ UNCHANGED <<versions, activePlan, candidates, log, where, local>>
      <4>1. content + 1 \in Nat
          BY DEF TypeOK
      <4>2. CASE InjectGoal(c)
          BY <4>1, <4>2 DEF InjectGoal
      <4>3. CASE AddFile(c)
          BY <4>1, <4>3 DEF AddFile
      <4>4. CASE TriggerPPF(c)
          BY <4>1, <4>4 DEF TriggerPPF
      <4>5. CASE Enrich(c)
          BY <4>1, <4>5 DEF Enrich
      <4> QED BY <2>2, <4>2, <4>3, <4>4, <4>5
    <3> QED BY <2>1, <3>1 DEF TypeOK
  <2>3. CASE AnnounceGoal(c) \/ AnnounceFile(c) \/ StoreFact(c) \/ AnnounceWrite(c)
    <3>1. content \in Nat /\ content + 1 \in Nat
        BY DEF TypeOK
    <3>2. /\ content' \in Nat /\ announced' \in Nat
          /\ cache' = Outdated /\ raced' = Overtaken(c)
          /\ UNCHANGED <<activePlan, candidates, log, where, local>>
      <4>1. CASE AnnounceGoal(c)
          BY <3>1, <4>1 DEF AnnounceGoal, Bump
      <4>2. CASE AnnounceFile(c)
          BY <3>1, <4>2 DEF AnnounceFile, Bump
      <4>3. CASE StoreFact(c)
          BY <3>1, <4>3 DEF StoreFact, Bump
      <4>4. CASE AnnounceWrite(c)
          BY <3>1, <4>4 DEF AnnounceWrite, Bump
      <4> QED BY <2>3, <4>1, <4>2, <4>3, <4>4
    <3>3. Outdated \subseteq Answer /\ Overtaken(c) \in [Conns -> BOOLEAN]
        BY BumpTyped
    <3> QED BY <2>1, <3>2, <3>3 DEF TypeOK
  <2> QED BY <1>2, <2>2, <2>3
<1>3. ASSUME NEW c \in Conns, Promote(c) PROVE TypeOK'
  <2> USE <1>3 DEF Promote
  <2>1. PICK n \in 0..candidates :
           /\ candidates' = candidates - n
           /\ IF n = 0 THEN Goto(c, "route") /\ UNCHANGED versions
                       ELSE Goto(c, "promoted") /\ Bump(c, content)
      BY Zenon
  <2> HIDE <1>3 DEF Promote
  <2>2. candidates' \in Nat
    <3>1. candidates' = candidates - n
        BY <2>1
    <3>2. candidates \in Nat
        BY DEF TypeOK
    <3> QED BY <3>1, <3>2
  <2>3. pc' \in [Procs -> Labels]
      BY <2>1, <1>0, <1>a, <1>b
  <2>4. announced' \in Nat /\ cache' \subseteq Answer /\ raced' \in [Conns -> BOOLEAN]
    <3>1. Outdated \subseteq Answer /\ Overtaken(c) \in [Conns -> BOOLEAN]
        BY BumpTyped
    <3>2. CASE n = 0
        BY <2>1, <3>2 DEF TypeOK
    <3>3. CASE n # 0
        BY <2>1, <3>1, <3>3 DEF Bump, TypeOK
    <3> QED BY <3>2, <3>3
  <2> QED BY <1>3, <2>2, <2>3, <2>4 DEF Promote, TypeOK
<1>4. ASSUME NEW c \in Conns, PlaceFiles(c) \/ Replan(c) PROVE TypeOK'
  <2>1. pc' \in [Procs -> Labels]
      BY <1>0, <1>4, <1>a, <1>b DEF PlaceFiles, Replan
  <2>2. Outdated \subseteq Answer /\ Overtaken(c) \in [Conns -> BOOLEAN]
      BY BumpTyped
  <2>3. CASE PlaceFiles(c)
      BY <2>1, <2>2, <2>3 DEF PlaceFiles, TypeOK
  <2>4. CASE Replan(c)
      BY <2>1, <2>2, <2>4 DEF Replan, InvalidateActivePlan, TypeOK
  <2> QED BY <1>4, <2>3, <2>4
<1>5. ASSUME NEW c \in Conns, Decide(c) \/ StoreCandidateFile(c) \/ Hit(c) \/ Miss(c)
      PROVE  TypeOK'
  <2>1. pc' \in [Procs -> Labels]
      BY <1>0, <1>5, <1>a, <1>b DEF Decide, StoreCandidateFile, Hit, Miss
  <2> QED BY <2>1, <1>5 DEF Decide, StoreCandidateFile, Hit, Miss, TypeOK
<1>6. ASSUME NEW c \in Conns, NEW j \in Jobs, Schedule(c, j) PROVE TypeOK'
  <2>1. pc' \in [Procs -> Labels]
      BY <1>0, <1>6, <1>b DEF Schedule, TypeOK
  <2> QED BY <2>1, <1>6 DEF Schedule, TypeOK
<1>7. ASSUME NEW p \in Procs, MergePlan(p) PROVE TypeOK'
  <2>1. pc' \in [Procs -> Labels]
      BY <1>7, <1>a, <1>b DEF MergePlan
  <2> QED BY <2>1, <1>7 DEF MergePlan, TypeOK
<1>8. ASSUME NEW p \in Procs, AnnouncePlan(p) PROVE TypeOK'
  <2>1. pc' \in [Procs -> Labels]
      BY <1>8, <1>a, <1>b DEF AnnouncePlan
  <2> QED BY <2>1, <1>8, BumpTyped DEF AnnouncePlan, Bump, TypeOK
<1>9. ASSUME NEW p \in Procs, ActivatePlan(p) PROVE TypeOK'
  <2>1. pc' \in [Procs -> Labels]
      BY <1>9, <1>a, <1>b DEF ActivatePlan
  <2> QED BY <2>1, <1>9 DEF ActivatePlan, SetActivePlanMetadata, TypeOK
<1>10. ASSUME NEW c \in Conns, MakeKey(c) PROVE TypeOK'
  <2> USE <1>10 DEF MakeKey
  <2>1. pc' \in [Procs -> Labels]
      BY <1>0, <1>a, <1>b
  <2>2. ResponseCacheKey(c) \in Keys \cup {NoKey}
      BY DEF ResponseCacheKey, Keys, TypeOK
  <2> QED BY <2>1, <2>2 DEF TypeOK
<1>11. ASSUME NEW c \in Conns, HandleCommand(c) PROVE TypeOK'
  <2> USE <1>11 DEF HandleCommand
  <2>1. pc' \in [Procs -> Labels]
    <3>1. CASE Goto(c, "store")
        BY <3>1, <1>0, <1>a, <1>b
    <3>2. CASE \E j \in Jobs : pc' = [pc EXCEPT ![c] = "store", ![j] = "answering"]
        BY <3>2, <1>0, <1>b DEF TypeOK
    <3> QED BY <3>1, <3>2
  <2>2. content' \in Nat /\ level' \in [Conns -> Nat]
      BY DEF TypeOK
  <2>3. announced' \in Nat /\ cache' \subseteq Answer
      BY <2>2, BumpTyped DEF TypeOK
  <2>4. raced' \in [Conns -> BOOLEAN]
    <3> DEFINE o == \E d \in Conns \ {c} : pc[d] = "promoted"
    <3>1. o \in BOOLEAN
        OBVIOUS
    <3>2. raced' \in {[raced EXCEPT ![c] = o], [Overtaken(c) EXCEPT ![c] = o]}
        OBVIOUS
    <3> HIDE DEF o
    <3>3. Overtaken(c) \in [Conns -> BOOLEAN] /\ raced \in [Conns -> BOOLEAN]
        BY BumpTyped DEF TypeOK
    <3> QED BY <3>1, <3>2, <3>3
  <2> QED BY <2>1, <2>2, <2>3, <2>4 DEF TypeOK
<1>12. ASSUME NEW c \in Conns, StoreResponse(c) PROVE TypeOK'
  <2> USE <1>12 DEF StoreResponse
  <2>1. pc' \in [Procs -> Labels]
      BY <1>0, <1>a, <1>b
  <2>2. key[c] # NoKey => AnswerOf(c) \in Answer
      BY DEF AnswerOf, Answer, TypeOK
  <2>3. cache' \subseteq Answer
      BY <2>2 DEF TypeOK
  <2> QED BY <2>1, <2>3 DEF TypeOK
<1>13. ASSUME NEW c \in Conns, AppendCommand(c) PROVE TypeOK'
  <2>1. pc' \in [Procs -> Labels]
      BY <1>0, <1>13, <1>a, <1>b DEF AppendCommand
  <2> QED BY <2>1, <1>13, CommandKnown DEF AppendCommand, TypeOK, AllHosts
<1>14. ASSUME NEW c \in Conns, \/ \E h \in Hosts : Login(c, h)
                               \/ Logout(c) \/ Reconnect(c)
       PROVE  TypeOK'
  <2>1. at' \in AllHosts /\ target' \in AllHosts \cup {NoHost} /\ stack' \in Seq(AllHosts)
    <3>1. CASE \E h \in Hosts : Login(c, h)
        BY <3>1 DEF Login, TypeOK, AllHosts
    <3>2. CASE Logout(c)
      <4>1. stack \in Seq(AllHosts) /\ stack # <<>>
          BY <3>2 DEF Logout, TypeOK
      <4> QED BY <3>2, <4>1, PopTyped DEF Logout, TypeOK
    <3>3. CASE Reconnect(c)
      <4>1. stack \in Seq(AllHosts) /\ stack # <<>>
          BY <3>3 DEF Reconnect, TypeOK
      <4> QED BY <3>3, <4>1, PopTyped DEF Reconnect, TypeOK
    <3> QED BY <1>14, <3>1, <3>2, <3>3
  <2> QED BY <2>1, <1>14 DEF Login, Logout, Reconnect, TypeOK
<1>15. ASSUME NEW j \in Jobs, JobStep(j) PROVE TypeOK'
  <2>1. pc' \in [Procs -> Labels]
      BY <1>0, <1>15, <1>a, <1>b DEF JobStep, RenderAnswer, AnnounceAnswer, GiveUp
  <2> QED BY <2>1, <1>15, BumpTyped
      DEF JobStep, RenderAnswer, AnnounceAnswer, GiveUp, Bump, TypeOK
<1>16. CASE UNCHANGED vars
    BY <1>16 DEF vars, TypeOK
<1> QED BY <1>1, <1>2, <1>3, <1>4, <1>5, <1>6, <1>7, <1>8, <1>9, <1>10, <1>11, <1>12, <1>13,
           <1>14, <1>15, <1>16 DEF Next, ConnStep, PlannerStep

-----------------------------------------------------------------------------
(* Freshness of cached answers *)

(* Steps that change neither the versions nor the answers under way, and let
   no command reach the store or the promotion, keep answers fresh. *)
LEMMA FreshQuiet ==
    ASSUME TypeOK, Fresh, UNCHANGED <<announced, cache, raced, level>>,
           content' \in {content, content + 1},
           \A c \in Conns : /\ pc'[c] = "store" => pc[c] = "store"
                            /\ pc'[c] = "promoted" => pc[c] = "promoted"
    PROVE  Fresh'
<1>1. announced' <= content'
    BY DEF TypeOK, Fresh
<1>2. OnTheWay'
  <2> SUFFICES ASSUME NEW c \in Conns, pc'[c] = "store", ~raced'[c]
               PROVE  level'[c] >= announced' /\ \A d \in Conns : pc'[d] # "promoted"
      BY DEF OnTheWay
  <2>1. raced' = raced /\ level' = level /\ announced' = announced
      OBVIOUS
  <2>2. pc[c] = "store" /\ ~raced[c]
      BY <2>1
  <2>3. level[c] >= announced /\ \A d \in Conns : pc[d] # "promoted"
      BY <2>2 DEF Fresh, OnTheWay
  <2> QED BY <2>1, <2>3
<1>3. HalfPromoted'
    BY DEF Fresh, HalfPromoted
<1>4. StaleOnlyFromRaces'
    BY DEF Fresh, StaleOnlyFromRaces
<1> QED BY <1>1, <1>2, <1>3, <1>4 DEF Fresh

(* A step of p that raises a version leaves only outdated answers in the cache
   and overtakes those under way. *)
LEMMA FreshBump ==
    ASSUME TypeOK, NEW p, cache' = Outdated \/ cache' = {}, raced' = Overtaken(p),
           announced' = content', content' \in Nat,
           \A c \in Conns : pc'[c] = "store" => pc[c] = "store" /\ c # p
    PROVE  Fresh'
<1>1. announced' <= content'
    OBVIOUS
<1>2. \A e \in cache' : ~e.current
    BY DEF Outdated, TypeOK, Answer
<1>3. OnTheWay'
  <2>1. \A c \in Conns : pc'[c] = "store" => raced'[c]
      BY DEF Overtaken
  <2> QED BY <2>1 DEF OnTheWay
<1>4. HalfPromoted' /\ StaleOnlyFromRaces'
    BY <1>2 DEF HalfPromoted, StaleOnlyFromRaces
<1> QED BY <1>1, <1>3, <1>4 DEF Fresh

(* Where a single process goes, the others stay. *)
LEMMA Moved ==
    ASSUME TypeOK, NEW p \in Procs, NEW l, Goto(p, l)
    PROVE  \A c \in Conns : pc'[c] = IF c = p THEN l ELSE pc[c]
<1>1. Conns \subseteq Procs
    BY DEF Procs
<1>2. pc \in [Procs -> Labels] /\ pc' = [pc EXCEPT ![p] = l]
    BY DEF TypeOK, Goto
<1> QED BY <1>1, <1>2

(* Every step keeps cached answers fresh. *)
LEMMA FreshNext == TypeOK /\ TypeOK' /\ Fresh /\ [Next]_vars => Fresh'
<1> SUFFICES ASSUME TypeOK, TypeOK', Fresh, [Next]_vars PROVE Fresh'
    OBVIOUS
<1> USE DEF versions, activePlan, where, local
<1>0. Conns \subseteq Procs /\ Jobs \subseteq Procs
    BY DEF Procs
<1>n. content \in Nat /\ content + 1 \in Nat
    BY DEF TypeOK
<1>q. ASSUME NEW p \in Procs, NEW l, l \notin {"store", "promoted"}, Goto(p, l),
             UNCHANGED <<announced, cache, raced, level>>, content' \in {content, content + 1}
      PROVE  Fresh'
    BY <1>q, Moved, FreshQuiet
<1>b. ASSUME NEW p \in Procs, NEW l, l # "store", Goto(p, l),
             cache' = Outdated \/ cache' = {}, raced' = Overtaken(p),
             announced' = content', content' \in Nat
      PROVE  Fresh'
    BY <1>b, Moved, FreshBump
<1>1. ASSUME NEW c \in Conns, NEW x \in Commands, Type(c, x) PROVE Fresh'
  <2>1. CASE x \in Blocked
      BY <1>0, <1>1, <1>b, <1>n, <2>1 DEF Type, InvalidateActivePlan
  <2>2. CASE x \notin Blocked
      BY <1>0, <1>1, <1>q, <2>2 DEF Type
  <2> QED BY <2>1, <2>2
<1>2. ASSUME NEW c \in Conns,
             \/ InjectGoal(c) \/ AddFile(c) \/ StoreCandidateFile(c) \/ TriggerPPF(c)
             \/ Hit(c) \/ Miss(c) \/ Enrich(c) \/ AppendCommand(c)
      PROVE  Fresh'
  <2>1. CASE InjectGoal(c)
      BY <1>0, <1>q, <2>1 DEF InjectGoal
  <2>2. CASE AddFile(c)
      BY <1>0, <1>q, <2>2 DEF AddFile
  <2>3. CASE StoreCandidateFile(c)
      BY <1>0, <1>q, <2>3 DEF StoreCandidateFile
  <2>4. CASE TriggerPPF(c)
      BY <1>0, <1>q, <2>4 DEF TriggerPPF
  <2>5. CASE Hit(c)
      BY <1>0, <1>q, <2>5 DEF Hit
  <2>6. CASE Miss(c)
      BY <1>0, <1>q, <2>6 DEF Miss
  <2>7. CASE Enrich(c)
      BY <1>0, <1>q, <2>7 DEF Enrich
  <2>8. CASE AppendCommand(c)
      BY <1>0, <1>q, <2>8 DEF AppendCommand
  <2> QED BY <1>2, <2>1, <2>2, <2>3, <2>4, <2>5, <2>6, <2>7, <2>8
<1>3. ASSUME NEW c \in Conns,
             \/ AnnounceGoal(c) \/ AnnounceFile(c) \/ StoreFact(c) \/ AnnounceWrite(c)
             \/ Replan(c)
      PROVE  Fresh'
  <2>1. CASE AnnounceGoal(c)
      BY <1>0, <1>b, <1>n, <2>1 DEF AnnounceGoal, Bump
  <2>2. CASE AnnounceFile(c)
      BY <1>0, <1>b, <1>n, <2>2 DEF AnnounceFile, Bump
  <2>3. CASE StoreFact(c)
      BY <1>0, <1>b, <1>n, <2>3 DEF StoreFact, Bump
  <2>4. CASE AnnounceWrite(c)
      BY <1>0, <1>b, <1>n, <2>4 DEF AnnounceWrite, Bump
  <2>5. CASE Replan(c)
      BY <1>0, <1>b, <1>n, <2>5 DEF Replan, InvalidateActivePlan
  <2> QED BY <1>3, <2>1, <2>2, <2>3, <2>4, <2>5
<1>4. ASSUME NEW c \in Conns, Promote(c) PROVE Fresh'
  <2>1. PICK n \in 0..candidates :
           IF n = 0 THEN Goto(c, "route") /\ UNCHANGED <<announced, cache, raced>>
                    ELSE Goto(c, "promoted") /\ Bump(c, content)
      BY <1>4 DEF Promote
  <2>2. UNCHANGED <<content, level>>
      BY <1>4 DEF Promote
  <2>3. CASE n = 0
      BY <1>0, <1>q, <2>1, <2>2, <2>3
  <2>4. CASE n # 0
      BY <1>0, <1>b, <1>n, <2>1, <2>2, <2>4 DEF Bump
  <2> QED BY <2>3, <2>4
<1>5. ASSUME NEW c \in Conns, PlaceFiles(c) PROVE Fresh'
  <2> USE <1>5 DEF PlaceFiles
  <2>1. \A d \in Conns : pc'[d] = IF d = c THEN "route" ELSE pc[d]
      BY <1>0, Moved
  <2>2. announced' <= content' /\ UNCHANGED <<cache, level>>
      BY <1>n
  <2>3. \A e \in cache : e.current => e.raced
      BY DEF Fresh, HalfPromoted
  <2>4. \A d \in Conns : pc'[d] = "store" => raced'[d]
      BY <2>1 DEF Overtaken
  <2> HIDE <1>5 DEF PlaceFiles
  <2>5. OnTheWay' /\ HalfPromoted' /\ StaleOnlyFromRaces'
      BY <2>2, <2>3, <2>4 DEF OnTheWay, HalfPromoted, StaleOnlyFromRaces
  <2> QED BY <2>2, <2>5 DEF Fresh
<1>6. ASSUME NEW c \in Conns, Decide(c) PROVE Fresh'
  <2>1. Goto(c, "replan") \/ Goto(c, "decided")
      BY <1>6 DEF Decide
  <2>2. UNCHANGED <<content, announced, cache, raced, level>>
      BY <1>6 DEF Decide
  <2> QED BY <1>0, <1>q, <2>1, <2>2
<1>7. ASSUME NEW c \in Conns, MakeKey(c) PROVE Fresh'
  <2>1. Goto(c, "answer") \/ Goto(c, "lookup")
      BY <1>7 DEF MakeKey
  <2>2. UNCHANGED <<content, announced, cache, raced, level>>
      BY <1>7 DEF MakeKey
  <2> QED BY <1>0, <1>q, <2>1, <2>2
<1>8. ASSUME NEW c \in Conns, NEW j \in Jobs, Schedule(c, j) PROVE Fresh'
  <2>1. \A d \in Conns : pc'[d] \in {pc[d], "agents", "planning"}
      BY <1>0, <1>8 DEF Schedule, TypeOK
  <2>2. UNCHANGED <<content, announced, cache, raced, level>>
      BY <1>8 DEF Schedule
  <2> QED BY <2>1, <2>2, FreshQuiet
<1>9. ASSUME NEW c \in Conns, HandleCommand(c) PROVE Fresh'
  <2> DEFINE overtaken == \E d \in Conns \ {c} : pc[d] = "promoted"
  <2>1. /\ content' \in {content, content + 1} /\ level' = [level EXCEPT ![c] = content']
        /\ \/ announced' = announced /\ cache' = cache /\ raced' = [raced EXCEPT ![c] = overtaken]
           \/ /\ announced' = content' /\ cache' = Outdated
              /\ raced' = [Overtaken(c) EXCEPT ![c] = overtaken]
      BY <1>9 DEF HandleCommand
  <2>2. pc'[c] = "store" /\ \A d \in Conns \ {c} : pc'[d] = pc[d]
    <3>1. c \notin Jobs /\ \A d \in Conns : d \notin Jobs
        BY ProcsTyped
    <3>2. \/ pc' = [pc EXCEPT ![c] = "store"]
          \/ \E j \in Jobs : pc' = [pc EXCEPT ![c] = "store", ![j] = "answering"]
        BY <1>9 DEF HandleCommand, Goto
    <3>3. pc \in [Procs -> Labels]
        BY DEF TypeOK
    <3> QED BY <1>0, <3>1, <3>2, <3>3
  <2>3. /\ level'[c] = content' /\ raced'[c] = overtaken
        /\ \A d \in Conns \ {c} : level'[d] = level[d]
    <3>1. level \in [Conns -> Nat] /\ raced \in [Conns -> BOOLEAN]
        BY DEF TypeOK
    <3>2. Overtaken(c) \in [Conns -> BOOLEAN]
        BY BumpTyped
    <3> HIDE DEF overtaken
    <3> QED BY <2>1, <3>1, <3>2
  <2>4. content' >= announced /\ announced' <= content' /\ announced \in Nat /\ content' \in Nat
      BY <1>n, <2>1 DEF Fresh, TypeOK
  <2>5. CASE announced' = announced /\ cache' = cache
             /\ raced' = [raced EXCEPT ![c] = overtaken]
    <3>1. \A d \in Conns \ {c} : raced'[d] = raced[d]
      <4> HIDE DEF overtaken
      <4> QED BY <2>5 DEF TypeOK
    <3>2. OnTheWay'
        BY <2>2, <2>3, <2>4, <2>5, <3>1 DEF Fresh, OnTheWay
    <3>3. HalfPromoted' /\ StaleOnlyFromRaces'
        BY <2>2, <2>5 DEF Fresh, HalfPromoted, StaleOnlyFromRaces
    <3> QED BY <2>4, <3>2, <3>3 DEF Fresh
  <2>6. CASE announced' = content' /\ cache' = Outdated
             /\ raced' = [Overtaken(c) EXCEPT ![c] = overtaken]
    <3>1. \A d \in Conns \ {c} : pc[d] = "store" => raced'[d]
      <4> HIDE DEF overtaken
      <4> QED BY <2>6 DEF Overtaken
    <3>2. \A e \in cache' : ~e.current
        BY <2>6 DEF Outdated, TypeOK, Answer
    <3>3. OnTheWay'
        BY <2>2, <2>3, <2>4, <2>6, <3>1 DEF OnTheWay
    <3> QED BY <2>4, <3>2, <3>3 DEF Fresh, HalfPromoted, StaleOnlyFromRaces
  <2> QED BY <2>1, <2>5, <2>6
<1>10. ASSUME NEW c \in Conns, StoreResponse(c) PROVE Fresh'
  <2> USE <1>10 DEF StoreResponse
  <2>1. pc'[c] # "store" /\ pc'[c] # "promoted" /\ \A d \in Conns \ {c} : pc'[d] = pc[d]
    <3>1. Goto(c, "written") \/ Goto(c, "answered")
        OBVIOUS
    <3> QED BY <1>0, <3>1, Moved
  <2>2. \A d \in Conns \ {c} : level'[d] = level[d] /\ raced'[d] = raced[d]
      BY DEF TypeOK
  <2>3. cache' \subseteq cache \cup {AnswerOf(c)} /\ UNCHANGED <<content, announced>>
      OBVIOUS
  <2>4. ~AnswerOf(c).raced => /\ AnswerOf(c).level >= announced
                             /\ \A d \in Conns : pc[d] # "promoted"
      BY DEF AnswerOf, Fresh, OnTheWay
  <2> HIDE <1>10 DEF StoreResponse
  <2>5. OnTheWay'
      BY <2>1, <2>2, <2>3 DEF Fresh, OnTheWay
  <2>6. HalfPromoted'
      BY <2>1, <2>3, <2>4 DEF Fresh, HalfPromoted
  <2>7. StaleOnlyFromRaces'
      BY <2>3, <2>4 DEF Fresh, StaleOnlyFromRaces
  <2> QED BY <2>3, <2>5, <2>6, <2>7 DEF Fresh
<1>11. ASSUME NEW c \in Conns, \/ \E h \in Hosts : Login(c, h)
                               \/ Logout(c) \/ Reconnect(c)
       PROVE  Fresh'
  <2>1. UNCHANGED <<content, announced, cache, raced, level, pc>>
      BY <1>11 DEF Login, Logout, Reconnect
  <2> QED BY <2>1, FreshQuiet
<1>12. ASSUME NEW p \in Procs, PlannerStep(p) PROVE Fresh'
  <2>1. CASE MergePlan(p)
      BY <1>q, <2>1 DEF MergePlan
  <2>2. CASE AnnouncePlan(p)
      BY <1>b, <1>n, <2>2 DEF AnnouncePlan, Bump
  <2>3. CASE ActivatePlan(p)
    <3>1. Goto(p, "idle") \/ Goto(p, "planned")
        BY <2>3 DEF ActivatePlan
    <3>2. UNCHANGED <<content, announced, cache, raced, level>>
        BY <2>3 DEF ActivatePlan
    <3> QED BY <1>q, <3>1, <3>2
  <2> QED BY <1>12, <2>1, <2>2, <2>3 DEF PlannerStep
<1>13. ASSUME NEW j \in Jobs, JobStep(j) PROVE Fresh'
  <2>1. CASE RenderAnswer(j)
      BY <1>0, <1>q, <2>1 DEF RenderAnswer
  <2>2. CASE AnnounceAnswer(j)
      BY <1>0, <1>b, <1>n, <2>2 DEF AnnounceAnswer, Bump
  <2>3. CASE GiveUp(j)
      BY <1>0, <1>q, <2>3 DEF GiveUp
  <2> QED BY <1>13, <2>1, <2>2, <2>3 DEF JobStep
<1>14. CASE UNCHANGED vars
    BY <1>14, FreshQuiet DEF vars
<1> QED BY <1>1, <1>2, <1>3, <1>4, <1>5, <1>6, <1>7, <1>8, <1>9, <1>10, <1>11, <1>12, <1>13,
           <1>14 DEF Next, ConnStep

-----------------------------------------------------------------------------
(* The lifetime of a plan *)

LEMMA UnderwayFinite ==
    IsFiniteSet(Underway) /\ Cardinality(Underway) \in 0..Cardinality(Conns)
<1>1. Underway \subseteq Conns
    BY DEF Underway
<1> QED BY <1>1, ProcsTyped, FS_Subset, FS_CardinalityType

(* Steps that keep the plan and the log, and let no command pass the test. *)
LEMMA TimelyQuiet ==
    ASSUME TypeOK, TypeOK', Timely, UNCHANGED <<active, started, log>>,
           \A c \in Conns : pc'[c] \in Past => pc[c] \in Past
    PROVE  Timely'
<1>1. Underway' \subseteq Underway
    BY DEF Underway
<1>2. Cardinality(Underway') <= Cardinality(Underway)
    BY <1>1, UnderwayFinite, FS_Subset
<1>3. Cardinality(Underway') \in Nat /\ Cardinality(Underway) \in Nat
    BY <1>1, UnderwayFinite, FS_Subset, FS_CardinalityType
<1>4. Cardinality(Conns) \in Nat /\ TTL \in Nat /\ log \in Nat /\ started \in Nat
    BY ProcsTyped, LimitsTyped, FS_CardinalityType DEF TypeOK
<1> QED BY <1>2, <1>3, <1>4 DEF Timely

(* A plan as young as the test demands leaves room for every connection. *)
LEMMA TimelyYoung ==
    ASSUME TypeOK', active' # NoPlan /\ "plan_ttl" \in InvalidatorsOf[active']
                      => log' - started' <= (IF TTL > 2 THEN TTL - 2 ELSE 0)
    PROVE  Timely'
<1>1. Underway' \subseteq Conns
    BY DEF Underway
<1>2. Cardinality(Underway') \in Nat /\ Cardinality(Underway') <= Cardinality(Conns)
    BY <1>1, ProcsTyped, FS_Subset, FS_CardinalityType
<1>3. Cardinality(Conns) \in Nat /\ TTL \in Nat /\ log' \in Nat /\ started' \in Nat
    BY ProcsTyped, LimitsTyped, FS_CardinalityType DEF TypeOK
<1> DEFINE grace == IF TTL > 2 THEN TTL - 2 ELSE 0
<1>4. grace \in Nat
    BY <1>3
<1>5. ASSUME log' - started' <= grace
      PROVE  log' - started' + Cardinality(Underway') <= grace + Cardinality(Conns)
  <2> HIDE DEF grace
  <2> QED BY <1>2, <1>3, <1>4, <1>5
<1> HIDE DEF grace
<1>6. active' # NoPlan /\ "plan_ttl" \in InvalidatorsOf[active'] => log' - started' <= grace
    BY DEF grace
<1> QED BY <1>5, <1>6 DEF Timely, grace

(* Every step keeps plans timely. *)
LEMMA TimelyNext == TypeOK /\ TypeOK' /\ Timely /\ [Next]_vars => Timely'
<1> SUFFICES ASSUME TypeOK, TypeOK', Timely, [Next]_vars PROVE Timely'
    OBVIOUS
<1> USE DEF activePlan
<1>0. Conns \subseteq Procs /\ Jobs \subseteq Procs
    BY DEF Procs
<1>e. ASSUME active' = NoPlan PROVE Timely'
    BY <1>e DEF Timely
<1>q. ASSUME NEW p \in Procs, NEW l, Goto(p, l), UNCHANGED <<active, started, log>>,
             p \in Conns => l \notin Past \/ pc[p] \in Past
      PROVE  Timely'
    BY <1>q, Moved, TimelyQuiet
<1>p. {"decided", "merged", "told", "planned", "agents", "added", "expanded", "lookup",
       "answer", "store", "written", "answered", "logging"} \subseteq Past
    BY DEF Past
<1>o. "goal" \notin Past /\ "goal made" \notin Past /\ "goal told" \notin Past
      /\ "promoted" \notin Past /\ "route" \notin Past /\ "replan" \notin Past
      /\ "ready" \notin Past
    BY DEF Past
<1>a. ASSUME NEW c \in Conns, AtAgents(c) PROVE pc[c] \in Past
    BY <1>a, <1>p DEF AtAgents
<1>d. \A j \in Jobs : j \notin Conns
    BY ProcsTyped
<1>1. ASSUME NEW c \in Conns, NEW x \in Commands, Type(c, x) PROVE Timely'
  <2>1. CASE x \in Blocked
      BY <1>1, <1>e, <2>1 DEF Type, InvalidateActivePlan
  <2>2. CASE x \notin Blocked
      BY <1>0, <1>1, <1>q, <1>o, <2>2 DEF Type
  <2> QED BY <2>1, <2>2
<1>2. ASSUME NEW c \in Conns,
             InjectGoal(c) \/ AnnounceGoal(c) \/ PlaceFiles(c) \/ AddFile(c) \/ AnnounceFile(c)
      PROVE  Timely'
  <2>1. CASE InjectGoal(c)
      BY <1>0, <1>q, <1>o, <2>1 DEF InjectGoal
  <2>2. CASE AnnounceGoal(c)
      BY <1>0, <1>q, <1>o, <2>2 DEF AnnounceGoal
  <2>3. CASE PlaceFiles(c)
      BY <1>0, <1>q, <1>o, <2>3 DEF PlaceFiles
  <2>4. CASE AddFile(c)
      BY <1>0, <1>q, <1>a, <2>4 DEF AddFile
  <2>5. CASE AnnounceFile(c)
      BY <1>0, <1>q, <1>p, <2>5 DEF AnnounceFile
  <2> QED BY <1>2, <2>1, <2>2, <2>3, <2>4, <2>5
<1>3. ASSUME NEW c \in Conns,
             StoreCandidateFile(c) \/ StoreFact(c) \/ TriggerPPF(c) \/ Hit(c) \/ Miss(c)
      PROVE  Timely'
  <2>1. CASE StoreCandidateFile(c)
      BY <1>0, <1>q, <1>a, <2>1 DEF StoreCandidateFile
  <2>2. CASE StoreFact(c)
      BY <1>0, <1>q, <1>a, <2>2 DEF StoreFact
  <2>3. CASE TriggerPPF(c)
      BY <1>0, <1>q, <1>a, <2>3 DEF TriggerPPF
  <2>4. CASE Hit(c)
      BY <1>0, <1>q, <1>p, <2>4 DEF Hit
  <2>5. CASE Miss(c)
      BY <1>0, <1>q, <1>p, <2>5 DEF Miss
  <2> QED BY <1>3, <2>1, <2>2, <2>3, <2>4, <2>5
<1>4. ASSUME NEW c \in Conns, StoreResponse(c) \/ AnnounceWrite(c) \/ Enrich(c) PROVE Timely'
  <2>1. CASE StoreResponse(c)
      BY <1>0, <1>q, <1>p, <2>1 DEF StoreResponse
  <2>2. CASE AnnounceWrite(c)
      BY <1>0, <1>q, <1>p, <2>2 DEF AnnounceWrite
  <2>3. CASE Enrich(c)
      BY <1>0, <1>q, <1>p, <2>3 DEF Enrich
  <2> QED BY <1>4, <2>1, <2>2, <2>3
<1>5. ASSUME NEW c \in Conns, Promote(c) PROVE Timely'
  <2>1. Goto(c, "route") \/ Goto(c, "promoted")
      BY <1>5 DEF Promote
  <2>2. UNCHANGED <<active, started, log>>
      BY <1>5 DEF Promote
  <2> QED BY <1>0, <1>q, <1>o, <2>1, <2>2
<1>6. ASSUME NEW c \in Conns, Decide(c) PROVE Timely'
  <2>1. UNCHANGED <<active, started, log>>
      BY <1>6 DEF Decide
  <2>2. CASE Goto(c, "replan")
      BY <1>0, <1>q, <1>o, <2>1, <2>2
  <2>3. CASE ~EvaluateActivePlan(cmd[c])
    <3>1. active # NoPlan /\ "plan_ttl" \in InvalidatorsOf[active] => ~Expired
        BY <2>3 DEF EvaluateActivePlan, Present
    <3>2. TTL \in Nat /\ log \in Nat /\ started \in Nat
        BY LimitsTyped DEF TypeOK
    <3>3. active # NoPlan /\ "plan_ttl" \in InvalidatorsOf[active]
             => log - started <= (IF TTL > 2 THEN TTL - 2 ELSE 0)
        BY <3>1, <3>2 DEF Expired
    <3> QED BY <2>1, <3>3, TimelyYoung
  <2> QED BY <1>6, <2>2, <2>3 DEF Decide
<1>7. ASSUME NEW c \in Conns, Replan(c) PROVE Timely'
    BY <1>7, <1>e DEF Replan, InvalidateActivePlan
<1>8. ASSUME NEW c \in Conns, NEW j \in Jobs, Schedule(c, j) PROVE Timely'
  <2>1. \A d \in Conns : pc'[d] = IF d = c THEN "agents" ELSE pc[d]
      BY <1>0, <1>8, <1>d DEF Schedule, TypeOK
  <2>2. pc[c] \in Past /\ UNCHANGED <<active, started, log>>
      BY <1>8, <1>p DEF Schedule
  <2> QED BY <2>1, <2>2, TimelyQuiet
<1>9. ASSUME NEW c \in Conns, MakeKey(c) PROVE Timely'
  <2>1. Goto(c, "answer") \/ Goto(c, "lookup")
      BY <1>9 DEF MakeKey
  <2>2. pc[c] \in Past /\ UNCHANGED <<active, started, log>>
      BY <1>9, <1>a, <1>p DEF MakeKey
  <2> QED BY <1>0, <1>q, <2>1, <2>2
<1>10. ASSUME NEW c \in Conns, HandleCommand(c) PROVE Timely'
  <2>1. \A d \in Conns \ {c} : pc'[d] = pc[d]
    <3>1. \/ pc' = [pc EXCEPT ![c] = "store"]
          \/ \E j \in Jobs : pc' = [pc EXCEPT ![c] = "store", ![j] = "answering"]
        BY <1>10 DEF HandleCommand, Goto
    <3>2. pc \in [Procs -> Labels]
        BY DEF TypeOK
    <3> QED BY <1>0, <1>d, <3>1, <3>2
  <2>2. pc[c] \in Past /\ UNCHANGED <<active, started, log>>
      BY <1>10, <1>p DEF HandleCommand
  <2> QED BY <2>1, <2>2, TimelyQuiet
<1>11. ASSUME NEW c \in Conns, AppendCommand(c) PROVE Timely'
  <2>1. \A d \in Conns : pc'[d] = IF d = c THEN "ready" ELSE pc[d]
      BY <1>0, <1>11, Moved DEF AppendCommand
  <2>2. pc[c] \in Past /\ log' = log + 1 /\ UNCHANGED <<active, started>>
      BY <1>11, <1>p DEF AppendCommand
  <2>3. Underway' = Underway \ {c} /\ c \in Underway
      BY <1>o, <2>1, <2>2 DEF Underway
  <2>4. Cardinality(Underway') = Cardinality(Underway) - 1
      BY <2>3, UnderwayFinite, FS_RemoveElement
  <2>5. /\ Cardinality(Underway) \in Nat /\ Cardinality(Conns) \in Nat
        /\ TTL \in Nat /\ log \in Nat /\ started \in Nat
      BY UnderwayFinite, ProcsTyped, LimitsTyped, FS_CardinalityType DEF TypeOK
  <2> QED BY <2>2, <2>4, <2>5 DEF Timely
<1>12. ASSUME NEW c \in Conns, \/ \E h \in Hosts : Login(c, h)
                               \/ Logout(c) \/ Reconnect(c)
       PROVE  Timely'
  <2>1. UNCHANGED <<active, started, log, pc>>
      BY <1>12 DEF Login, Logout, Reconnect
  <2> QED BY <2>1, TimelyQuiet
<1>13. ASSUME NEW p \in Procs, PlannerStep(p) PROVE Timely'
  <2>1. CASE MergePlan(p)
      BY <1>d, <1>q, <1>p, <2>1 DEF MergePlan
  <2>2. CASE AnnouncePlan(p)
      BY <1>q, <1>p, <2>2 DEF AnnouncePlan
  <2>3. CASE ActivatePlan(p)
    <3>1. log' = log /\ (started' = log \/ (started' = started /\ active' = active))
      <4>1. /\ log' = log /\ active' = plan[p]
            /\ started' = IF active # plan[p] \/ started = 0 THEN log ELSE started
          BY <2>3 DEF ActivatePlan, SetActivePlanMetadata
      <4> QED BY <4>1
    <3>2. \A c \in Conns : pc'[c] \in Past => pc[c] \in Past
        BY <1>p, <2>3, Moved DEF ActivatePlan
    <3>3. CASE started' = log
      <4>1. TTL \in Nat /\ log \in Nat
          BY LimitsTyped DEF TypeOK
      <4> QED BY <3>1, <3>3, <4>1, TimelyYoung
    <3>4. CASE started' = started /\ active' = active
        BY <3>1, <3>2, <3>4, TimelyQuiet
    <3> QED BY <3>1, <3>3, <3>4
  <2> QED BY <1>13, <2>1, <2>2, <2>3 DEF PlannerStep
<1>14. ASSUME NEW j \in Jobs, JobStep(j) PROVE Timely'
  <2>1. \A c \in Conns : pc'[c] = pc[c]
      BY <1>0, <1>14, <1>d, Moved DEF JobStep, RenderAnswer, AnnounceAnswer, GiveUp
  <2>2. UNCHANGED <<active, started, log>>
      BY <1>14 DEF JobStep, RenderAnswer, AnnounceAnswer, GiveUp
  <2> QED BY <2>1, <2>2, TimelyQuiet
<1>15. CASE UNCHANGED vars
    BY <1>15, TimelyQuiet DEF vars
<1> QED BY <1>1, <1>2, <1>3, <1>4, <1>5, <1>6, <1>7, <1>8, <1>9, <1>10, <1>11, <1>12, <1>13,
           <1>14, <1>15 DEF Next, ConnStep

-----------------------------------------------------------------------------
(* The inductive invariant, and what follows from it. *)
THEOREM Invariance == Spec => []IInv
<1>1. Init => Fresh /\ Timely
    BY DEF Init, Fresh, OnTheWay, HalfPromoted, StaleOnlyFromRaces, Timely, Procs
<1>2. Init => IInv
    BY <1>1, TypeInit DEF IInv
<1>3. IInv /\ [Next]_vars => IInv'
    BY TypeNext, FreshNext, TimelyNext DEF IInv
<1> QED BY <1>2, <1>3, PTL DEF Spec

(* Every variable has its type, whatever the commands, plans and limits are
   (models.go:203, PlanningState). *)
THEOREM TypeCorrect == Spec => []TypeOK
<1>1. IInv => TypeOK
    BY DEF IInv
<1> QED BY <1>1, Invariance, PTL

(* An answer from the cache has seen what the versions were raised for
   (models.go:460-477), whatever the connections and goroutines do, unless it
   was overtaken on its way into the cache (manager.go:264-267). *)
THEOREM CacheFresh == Spec => []StaleOnlyFromRaces
<1>1. IInv => StaleOnlyFromRaces
    BY DEF IInv, Fresh
<1> QED BY <1>1, Invariance, PTL

(* A plan with a lifetime stays in force for no more commands than that and,
   for commands that had already passed the test of models.go:417, one for each
   connection of the session. *)
THEOREM PlanLife == Spec => []PlanLifeBounded
<1>1. IInv => PlanLifeBounded
  <2> SUFFICES ASSUME IInv PROVE PlanLifeBounded
      OBVIOUS
  <2>1. /\ Cardinality(Underway) \in Nat /\ Cardinality(Conns) \in Nat
        /\ TTL \in Nat /\ log \in Nat /\ started \in Nat
      BY UnderwayFinite, ProcsTyped, LimitsTyped, FS_CardinalityType DEF IInv, TypeOK
  <2> QED BY <2>1 DEF IInv, Timely, PlanLifeBounded
<1> QED BY <1>1, Invariance, PTL
=============================================================================
