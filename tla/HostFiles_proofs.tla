-------------------------- MODULE HostFiles_proofs --------------------------
(***************************************************************************)
(* Theorems about HostFiles, for any connections, goroutines, commands,    *)
(* paths and answers: the types, what stays in the files whatever the LLM  *)
(* answers, and when a repeated command is answered the same.              *)
(***************************************************************************)
EXTENDS HostFiles, SequenceTheorems, TLAPS

-----------------------------------------------------------------------------
(* Type correctness                                                        *)
(*                                                                         *)
(* Inductive with the domains of the rules and with what a connection that *)
(* is at work is working on.                                               *)

AtWork ==
    /\ rules = [w \in Worlds |-> rules[w]]
    /\ \A c \in Conns : pc[c] # "idle" => cmd[c] \in Commands

Typed == TypeOK /\ AtWork

LEMMA Resolved ==
    ASSUME NEW k \in Commands, NEW d \in Dirs
    PROVE  Resolve(d, k.arg) \in Paths
<1>1. k.arg \in Args /\ (~ k.arg.abs => d \o k.arg.path \in Paths)
  BY CommandShapes DEF Keys
<1> QED
  BY <1>1 DEF Resolve, Args

LEMMA KeyTyped ==
    ASSUME NEW k \in Commands, NEW d \in Dirs
    PROVE  Key(k, d) \in Keys
<1>1. k \in Keys /\ Resolve(d, k.arg) \in Paths
  BY CommandShapes, Resolved
<1> QED
  BY <1>1 DEF Key, Keys, Args

LEMMA Homes == WebHome \in Dirs /\ RootHome \in Dirs
BY PathShapes

LEMMA HostWorldTyped == \A w : HostWorld(w) \in [Paths -> Entries]
BY DEF HostWorld, Entries, Texts, None, Dir, File

LEMMA FreshTyped ==
    /\ Fresh.files \in [Worlds -> [Paths -> Entries]]
    /\ Fresh.rules = [w \in Worlds |-> <<>>]
    /\ Fresh.pc = [c \in Conns |-> "idle"]
    /\ Fresh.cmd = [c \in Conns |-> NoCmd]
    /\ Fresh.home = [c \in Conns |-> 0]
    /\ Fresh.jobs = [j \in Workers |-> NoJob]
BY HostWorldTyped DEF Fresh

LEMMA FreshStart ==
    ASSUME files = Fresh.files, rules = Fresh.rules, logins = 0, world = 0, cwd = WebHome,
           user = "web", stack = <<>>, mode = "bash", active \in BOOLEAN,
           pc = Fresh.pc, cmd = Fresh.cmd, home = Fresh.home, jobs = Fresh.jobs, typed \in Nat
    PROVE  Typed
<1>1. 0 \in Worlds
  BY BoundsNat DEF Worlds
<1>2. stack \in Seq([world : Worlds, cwd : Dirs, user : {"web", "root"}])
  OBVIOUS
<1>3. \A w \in Worlds : rules[w] = <<>> /\ DOMAIN rules[w] = {}
  BY FreshTyped
<1> QED
  BY <1>1, <1>2, <1>3, FreshTyped, Homes DEF Typed, TypeOK, AtWork

LEMMA InitTyped == Init => Typed
BY FreshStart DEF Init

LEMMA MarkedTyped ==
    ASSUME Typed, NEW w, NEW key
    PROVE  Marked(w, key) \in [Workers -> Jobs \cup {NoJob}]
<1> SUFFICES ASSUME NEW j \in Running(w, key)
             PROVE  [jobs[j] EXCEPT !.raced = TRUE] \in Jobs
  BY DEF Marked, Typed, TypeOK
<1>1. jobs[j] \in Jobs
  BY DEF Running, Typed, TypeOK
<1> QED
  BY <1>1 DEF Jobs

\* A step of a connection that leaves the files and the rules alone.
LEMMA ConnTyped ==
    ASSUME Typed, UNCHANGED <<files, rules, logins>>,
           world' \in Worlds, cwd' \in Dirs, user' \in {"web", "root"},
           stack' \in Seq([world : Worlds, cwd : Dirs, user : {"web", "root"}]),
           mode' \in {"bash", "python"}, active' \in BOOLEAN,
           pc' \in [Conns -> {"idle", "engine", "lookup", "invalidate", "enrich", "blank"}],
           cmd' \in [Conns -> Commands \cup {NoCmd}], home' \in [Conns -> Worlds],
           \A c \in Conns : pc'[c] # "idle" => cmd'[c] \in Commands,
           jobs' \in [Workers -> Jobs \cup {NoJob}], typed' \in Nat
    PROVE  Typed'
BY DEF Typed, TypeOK, AtWork

LEMMA GotoTyped ==
    ASSUME Typed, NEW c \in Conns, pc[c] # "idle", UNCHANGED cmd,
           NEW l \in {"engine", "lookup", "invalidate", "enrich", "blank"}, Goto(c, l)
    PROVE  /\ pc' \in [Conns -> {"idle", "engine", "lookup", "invalidate", "enrich", "blank"}]
           /\ \A d \in Conns : pc'[d] # "idle" => cmd'[d] \in Commands
BY DEF Typed, TypeOK, AtWork, Goto

\* A step that puts one entry into the files.
LEMMA PutTyped ==
    ASSUME Typed, NEW w \in Worlds, NEW p \in Paths, NEW e \in Entries, Put(w, p, e)
    PROVE  files' \in [Worlds -> [Paths -> Entries]]
BY DEF Typed, TypeOK, Put

LEMMA FilesTyped ==
    ASSUME Typed, files' \in [Worlds -> [Paths -> Entries]],
           UNCHANGED <<rules, logins, session, active, cmd, home, typed>>,
           pc' \in [Conns -> {"idle", "engine", "lookup", "invalidate", "enrich", "blank"}],
           \A d \in Conns : pc'[d] # "idle" => cmd'[d] \in Commands,
           jobs' \in [Workers -> Jobs \cup {NoJob}]
    PROVE  Typed'
BY DEF Typed, TypeOK, AtWork, session

LEMMA Texted == {File("mine"), File("clue"), File("empty"), Dir} \subseteq Entries
BY DEF File, Dir, Entries, Texts

LEMMA Retexted ==
    ASSUME NEW e \in Entries, e # None, NEW t \in Texts
    PROVE  [e EXCEPT !.text = t] \in Entries /\ [e EXCEPT !.text = t].kind = e.kind
           /\ e.kind \in {"dir", "file"} /\ [e EXCEPT !.text = t].text = t
BY DEF Entries

\* The steps that only the shell takes part in.
LEMMA ShellTyped ==
    ASSUME Typed, NEW c \in Conns,
           \/ \E k \in Commands : Type(c, k)
           \/ Cd(c) \/ Chdir(c) \/ Sudo(c) \/ Python(c) \/ Answered(c) \/ Declined(c)
           \/ Lookup(c) \/ Finish(c)
    PROVE  Typed'
<1> USE DEF session, store, conn
<1>1. ASSUME NEW k \in Commands, Type(c, k)
      PROVE  Typed'
  <2>1. /\ pc' \in [Conns -> {"idle", "engine", "lookup", "invalidate", "enrich", "blank"}]
        /\ cmd' \in [Conns -> Commands \cup {NoCmd}] /\ home' \in [Conns -> Worlds]
        /\ \A d \in Conns : pc'[d] # "idle" => cmd'[d] \in Commands
        /\ typed' \in Nat
    BY <1>1 DEF Type, Typed, TypeOK, AtWork, Goto
  <2> QED
    BY <1>1, <2>1, ConnTyped DEF Type, Typed, TypeOK
<1>2. CASE Cd(c)
  <2>1. cwd' \in Dirs
    BY <1>2, Homes DEF Cd, Typed, TypeOK
  <2>2. Goto(c, "enrich") /\ pc[c] # "idle" /\ UNCHANGED cmd
    BY <1>2 DEF Cd, At
  <2> QED
    BY <1>2, <2>1, <2>2, GotoTyped, ConnTyped DEF Cd, Typed, TypeOK
<1>3. CASE Chdir(c)
  <2>1. Goto(c, "enrich") /\ pc[c] # "idle" /\ UNCHANGED cmd /\ cwd' \in Dirs
    BY <1>3 DEF Chdir, At
  <2> QED
    BY <1>3, <2>1, GotoTyped, ConnTyped DEF Chdir, Typed, TypeOK
<1>4. CASE Sudo(c)
  <2>1. Goto(c, "enrich") /\ pc[c] # "idle" /\ UNCHANGED cmd
    BY <1>4 DEF Sudo, At
  <2> QED
    BY <1>4, <2>1, GotoTyped, ConnTyped DEF Sudo, Typed, TypeOK
<1>5. CASE Python(c)
  <2>1. Goto(c, "enrich") /\ pc[c] # "idle" /\ UNCHANGED cmd /\ mode' \in {"bash", "python"}
    BY <1>5 DEF Python, At
  <2> QED
    BY <1>5, <2>1, GotoTyped, ConnTyped DEF Python, Typed, TypeOK
<1>6. CASE Answered(c) \/ Declined(c) \/ Lookup(c)
  <2>1. PICK l \in {"lookup", "invalidate", "enrich"} : Goto(c, l)
    BY <1>6 DEF Answered, Declined, Lookup
  <2>2. pc[c] # "idle" /\ UNCHANGED cmd
    BY <1>6 DEF Answered, Declined, Lookup, Looking, At
  <2> QED
    BY <1>6, <2>1, <2>2, GotoTyped, ConnTyped
    DEF Answered, Declined, Lookup, Kept, Typed, TypeOK
<1>7. CASE Finish(c)
  <2>1. /\ pc' \in [Conns -> {"idle", "engine", "lookup", "invalidate", "enrich", "blank"}]
        /\ cmd' \in [Conns -> Commands \cup {NoCmd}] /\ home' \in [Conns -> Worlds]
        /\ \A d \in Conns : pc'[d] # "idle" => cmd'[d] \in Commands
    <3>1. 0 \in Worlds
      BY BoundsNat DEF Worlds
    <3> QED
      BY <1>7, <3>1 DEF Finish, Rest, Goto, Typed, TypeOK, AtWork
  <2> QED
    BY <1>7, <2>1, ConnTyped DEF Finish, Typed, TypeOK
<1> QED
  BY <1>1, <1>2, <1>3, <1>4, <1>5, <1>6, <1>7

LEMMA LoginTyped ==
    ASSUME Typed, NEW c \in Conns, Login(c) \/ Logout(c)
    PROVE  Typed'
<1> DEFINE F == [world : Worlds, cwd : Dirs, user : {"web", "root"}]
<1>0. stack \in Seq(F) /\ world \in Worlds /\ cwd \in Dirs /\ user \in {"web", "root"}
  BY DEF Typed, TypeOK
<1>1. CASE Login(c)
  <2>1. logins' \in Worlds /\ world' \in Worlds /\ typed' \in Nat
    BY <1>1, BoundsNat DEF Login, Typed, TypeOK, Worlds
  <2>2. stack' \in Seq(F)
    <3>1. [world |-> world, cwd |-> cwd, user |-> user] \in F
      BY <1>0
    <3> HIDE DEF F
    <3> QED
      BY <1>0, <1>1, <3>1, AppendProperties DEF Login
  <2> QED
    BY <1>1, <2>1, <2>2, Homes DEF Login, Typed, TypeOK, AtWork, conn
<1>2. CASE Logout(c)
  <2>1. stack # <<>> /\ Len(stack) \in 1..Len(stack)
    <3>1. stack # <<>>
      BY <1>2 DEF Logout, IsNested
    <3> HIDE DEF F
    <3> QED
      BY <1>0, <3>1, EmptySeq
  <2>2. stack[Len(stack)] \in F
    <3> HIDE DEF F
    <3> QED
      BY <1>0, <2>1, ElementOfSeq
  <2>3. world' \in Worlds /\ cwd' \in Dirs /\ user' \in {"web", "root"}
    BY <1>2, <2>2 DEF Logout
  <2>4. stack' \in Seq(F)
    <3> HIDE DEF F
    <3> QED
      BY <1>0, <1>2, <2>1, SubSeqProperties DEF Logout
  <2>5. typed' \in Nat
    BY <1>2 DEF Logout, Typed, TypeOK
  <2> QED
    BY <1>2, <2>3, <2>4, <2>5 DEF Logout, Typed, TypeOK, AtWork, conn, store
<1> QED
  BY <1>1, <1>2

\* The steps of a connection that write to the files, start a goroutine or drop rules.
LEMMA WritingTyped ==
    ASSUME Typed, NEW c \in Conns,
           \/ Echo(c) \/ PlantNotes(c) \/ BlankNotes(c) \/ Contradict(c) \/ PlantClue(c)
    PROVE  Typed'
<1> USE DEF session, store, conn
<1>0. home[c] \in Worlds /\ {Notes, SysLog, ClueFile} \subseteq Paths
  BY PathShapes DEF Typed, TypeOK
<1>1. CASE Echo(c)
  <2>1. pc[c] # "idle" /\ Goto(c, "invalidate") /\ UNCHANGED cmd
    BY <1>1 DEF Echo, At
  <2>2. Resolve(cwd, cmd[c].arg) \in Paths
    BY <2>1, Resolved DEF Typed, TypeOK, AtWork
  <2>3. files' \in [Worlds -> [Paths -> Entries]]
    BY <1>0, <1>1, <2>2, PutTyped, Texted DEF Echo
  <2>4. jobs' \in [Workers -> Jobs \cup {NoJob}]
    BY <1>1, MarkedTyped DEF Echo
  <2> QED
    BY <1>1, <2>1, <2>3, <2>4, GotoTyped, FilesTyped DEF Echo
<1>2. CASE PlantNotes(c) \/ BlankNotes(c)
  <2>1. PICK l \in {"blank", "enrich"} : Goto(c, l)
    BY <1>2 DEF PlantNotes, BlankNotes
  <2>2. pc[c] # "idle" /\ UNCHANGED cmd
    BY <1>2 DEF PlantNotes, BlankNotes, At
  <2>3. files' \in [Worlds -> [Paths -> Entries]]
    BY <1>0, <1>2, PutTyped, Texted DEF PlantNotes, BlankNotes
  <2> QED
    BY <1>2, <2>1, <2>2, <2>3, GotoTyped, FilesTyped DEF PlantNotes, BlankNotes, Typed, TypeOK
<1>3. CASE Contradict(c)
  <2> DEFINE old == files[home[c]][SysLog]
  <2>1. old \in Entries /\ "clue" \in Texts
    BY <1>0 DEF Typed, TypeOK, Texts
  <2>2. (IF old = None THEN File("clue") ELSE [old EXCEPT !.text = "clue"]) \in Entries
    BY <2>1, Retexted, Texted
  <2>3. files' \in [Worlds -> [Paths -> Entries]]
    BY <1>0, <1>3, <2>2, PutTyped DEF Contradict
  <2> QED
    BY <1>3, <2>3, FilesTyped DEF Contradict, Typed, TypeOK, AtWork
<1>4. CASE PlantClue(c)
  <2>1. files' \in [Worlds -> [Paths -> Entries]]
    BY <1>0, <1>4, PutTyped, Texted DEF PlantClue
  <2> QED
    BY <1>4, <2>1, FilesTyped DEF PlantClue, Typed, TypeOK, AtWork
<1> QED
  BY <1>1, <1>2, <1>3, <1>4

LEMMA AskTyped ==
    ASSUME Typed, NEW c \in Conns, AskLLM(c)
    PROVE  Typed'
<1>1. pc[c] # "idle" /\ Goto(c, "enrich") /\ UNCHANGED cmd
  BY DEF AskLLM, Looking, At
<1>2. cmd[c] \in Commands /\ home[c] \in Worlds /\ cwd \in Dirs
  BY <1>1 DEF Typed, TypeOK, AtWork
<1> DEFINE key == Key(cmd[c], cwd)
<1>3. Contended(home[c], key) \in BOOLEAN
  BY DEF Contended
<1>4. PICK j \in Workers :
        jobs' = [Marked(home[c], key) EXCEPT ![j] =
                   [cmd |-> cmd[c], world |-> home[c], dir |-> cwd, pc |-> "ask",
                    out |-> "none", raced |-> Contended(home[c], key)]]
  BY DEF AskLLM, Launch
<1>5. [cmd |-> cmd[c], world |-> home[c], dir |-> cwd, pc |-> "ask",
       out |-> "none", raced |-> Contended(home[c], key)] \in Jobs
  BY <1>2, <1>3 DEF Jobs
<1>6. jobs' \in [Workers -> Jobs \cup {NoJob}]
  BY <1>4, <1>5, MarkedTyped
<1> QED
  BY <1>1, <1>6, GotoTyped, ConnTyped DEF AskLLM, store, session, Typed, TypeOK

LEMMA InvalidateTyped ==
    ASSUME Typed, NEW c \in Conns, InvalidateDir(c)
    PROVE  Typed'
<1>1. pc[c] # "idle" /\ Goto(c, "enrich") /\ UNCHANGED cmd
  BY DEF InvalidateDir, At
<1>2. PICK keep \in SUBSET DOMAIN rules[home[c]] :
         rules' = [rules EXCEPT ![home[c]] = [key \in keep |-> rules[home[c]][key]]]
  BY DEF InvalidateDir
<1>3. rules' = [w \in Worlds |-> rules'[w]]
  BY <1>2 DEF Typed, AtWork
<1>4. \A w \in Worlds : \A key \in DOMAIN rules'[w] :
         key \in Keys /\ rules'[w][key] \in [arg : Args, out : Answers]
  BY <1>2 DEF Typed, TypeOK, AtWork
<1> QED
  BY <1>1, <1>3, <1>4, GotoTyped DEF InvalidateDir, session, Typed, TypeOK, AtWork

-----------------------------------------------------------------------------
\* The goroutines

LEMMA StoreTyped ==
    ASSUME Typed, NEW j \in Workers, Store(j)
    PROVE  Typed'
<1> DEFINE job == jobs[j]
           key == Key(job.cmd, job.dir)
           rule == [arg |-> job.cmd.arg, out |-> job.out]
<1>1. job \in Jobs /\ job.pc = "store"
  BY DEF Store, Typed, TypeOK
<1> HIDE DEF job
<1>2. /\ job.cmd \in Commands /\ job.dir \in Dirs /\ job.world \in Worlds /\ job.out \in Answers
      /\ [job EXCEPT !.pc = "inject"] \in Jobs
  BY <1>1 DEF Jobs
<1>3. key \in Keys /\ job.cmd.arg \in Args
  BY <1>2, KeyTyped, CommandShapes DEF Keys
<1>4. rule \in [arg : Args, out : Answers]
  BY <1>2, <1>3
<1>5. rules' = [rules EXCEPT ![job.world] =
                  [x \in DOMAIN @ \cup {key} |-> IF x = key THEN rule ELSE @[x]]]
  BY DEF Store, job
<1> HIDE DEF key, rule
<1>6. rules' = [w \in Worlds |-> rules'[w]]
  BY <1>5 DEF Typed, AtWork
<1>7. \A w \in Worlds : \A x \in DOMAIN rules'[w] :
         x \in Keys /\ rules'[w][x] \in [arg : Args, out : Answers]
  BY <1>3, <1>4, <1>5 DEF Typed, TypeOK, AtWork
<1>8. jobs' \in [Workers -> Jobs \cup {NoJob}]
  BY <1>2 DEF Store, job, Typed, TypeOK
<1> QED
  BY <1>6, <1>7, <1>8 DEF Store, session, conn, Typed, TypeOK, AtWork

LEMMA AnswerTyped ==
    ASSUME Typed, NEW j \in Workers, Answer(j)
    PROVE  Typed'
<1> DEFINE now == Key(jobs[j].cmd, cwd)
           moved == now # Key(jobs[j].cmd, jobs[j].dir)
           others == IF moved THEN Marked(jobs[j].world, now) ELSE jobs
           job == jobs[j]
<1>1. PICK a \in Answers :
        jobs' = [others EXCEPT ![j] =
                   [job EXCEPT !.pc = "store", !.dir = cwd, !.out = a, !.raced = @ \/ moved]]
  BY DEF Answer
<1>2. job \in Jobs /\ job.pc = "ask" /\ cwd \in Dirs
  BY DEF Answer, Typed, TypeOK
<1>3. others \in [Workers -> Jobs \cup {NoJob}]
  BY MarkedTyped DEF Typed, TypeOK
<1>4. moved \in BOOLEAN
  OBVIOUS
<1> HIDE DEF job, moved, others
<1>5. [job EXCEPT !.pc = "store", !.dir = cwd, !.out = a, !.raced = @ \/ moved] \in Jobs
  BY <1>2, <1>4 DEF Jobs
<1>6. jobs' \in [Workers -> Jobs \cup {NoJob}]
  BY <1>1, <1>3, <1>5
<1> QED
  BY <1>6 DEF Answer, store, session, conn, Typed, TypeOK, AtWork

LEMMA InjectTyped ==
    ASSUME Typed, NEW j \in Workers, InjectCatOutput(j) \/ InjectLsOutput(j)
    PROVE  Typed'
<1> DEFINE job == jobs[j]
           w == job.world
           p == Resolve(job.dir, job.cmd.arg)
<1>1. job \in Jobs /\ job.pc = "inject"
  BY DEF InjectCatOutput, InjectLsOutput, Injecting, Typed, TypeOK
<1>2. w \in Worlds /\ p \in Paths /\ job.out \in Texts
  <2> HIDE DEF job
  <2>1. job.cmd \in Commands /\ job.dir \in Dirs /\ job.world \in Worlds /\ job.out \in Answers
    BY <1>1 DEF Jobs
  <2> QED
    BY <2>1, Resolved DEF Texts
<1>3. files' \in [Worlds -> [Paths -> Entries]]
  <2>0. files[w] \in [Paths -> Entries] /\ files[w][p] \in Entries
    BY <1>2 DEF Typed, TypeOK
  <2>1. CASE InjectCatOutput(j)
    <3> DEFINE e == IF files[w][p] = None THEN File(job.out)
                    ELSE [files[w][p] EXCEPT !.text = job.out]
    <3>1. e \in Entries
      <4>1. File(job.out) \in Entries
        BY <1>2 DEF File, Entries
      <4> QED
        BY <1>2, <2>0, <4>1, Retexted
    <3>2. Put(w, p, e)
      BY <2>1 DEF InjectCatOutput
    <3> HIDE DEF e, w, p
    <3> QED
      BY <1>2, <3>1, <3>2, PutTyped
  <2>2. CASE InjectLsOutput(j)
    <3>1. PICK names : files' = [files EXCEPT ![w] = Listed(w, p, names)]
      BY <2>2 DEF InjectLsOutput
    <3>2. Listed(w, p, names) \in [Paths -> Entries]
      <4> HIDE DEF w, p
      <4> QED
        BY <2>0, Texted DEF Listed, LikelyEntry, Entries
    <3> HIDE DEF w, p
    <3> QED
      BY <1>2, <3>1, <3>2 DEF Typed, TypeOK
  <2> QED
    BY <2>1, <2>2
<1>4. jobs' \in [Workers -> Jobs \cup {NoJob}]
  BY DEF InjectCatOutput, InjectLsOutput, Typed, TypeOK
<1> QED
  BY <1>3, <1>4, FilesTyped
  DEF InjectCatOutput, InjectLsOutput, conn, Typed, TypeOK, AtWork

LEMMA TypedStep == Typed /\ [Next]_vars => Typed'
<1> SUFFICES ASSUME Typed, [Next]_vars
             PROVE  Typed'
  OBVIOUS
<1>1. ASSUME NEW c \in Conns, ConnStep(c)
      PROVE  Typed'
  BY <1>1, ShellTyped, LoginTyped, WritingTyped, AskTyped, InvalidateTyped DEF ConnStep
<1>2. ASSUME NEW j \in Workers, JobStep(j)
      PROVE  Typed'
  <2>1. CASE GiveUp(j)
    BY <2>1 DEF GiveUp, store, session, conn, Typed, TypeOK, AtWork
  <2> QED
    BY <1>2, <2>1, AnswerTyped, StoreTyped, InjectTyped DEF JobStep
<1>3. CASE Switch
  BY <1>3 DEF Switch, store, session, conn, Typed, TypeOK, AtWork
<1>4. CASE Crash
  <2>1. active' \in BOOLEAN /\ typed' \in Nat
    BY <1>4 DEF Crash, Typed, TypeOK
  <2>2. /\ files' = Fresh.files /\ rules' = Fresh.rules /\ logins' = 0
        /\ world' = 0 /\ cwd' = WebHome /\ user' = "web" /\ stack' = <<>> /\ mode' = "bash"
        /\ pc' = Fresh.pc /\ cmd' = Fresh.cmd /\ home' = Fresh.home
        /\ jobs' = Fresh.jobs
    BY <1>4 DEF Crash
  <2>3. 0 \in Worlds
    BY BoundsNat DEF Worlds
  <2>4. stack' \in Seq([world : Worlds, cwd : Dirs, user : {"web", "root"}])
    BY <2>2
  <2>5. \A w \in Worlds : rules'[w] = <<>> /\ DOMAIN rules'[w] = {}
    BY <2>2, FreshTyped
  <2> QED
    BY <2>1, <2>2, <2>3, <2>4, <2>5, FreshTyped, Homes DEF Typed, TypeOK, AtWork
<1>5. CASE UNCHANGED vars
  BY <1>5 DEF vars, store, session, conn, Typed, TypeOK, AtWork
<1> QED
  BY <1>1, <1>2, <1>3, <1>4, <1>5 DEF Next

LEMMA AlwaysTyped == Spec => []Typed
BY InitTyped, TypedStep, PTL DEF Spec

-----------------------------------------------------------------------------
(* What a step does to the goroutines                                      *)
(*                                                                         *)
(* A goroutine that is there keeps its world and its key, and what is      *)
(* contended stays so, unless the answer moves it to another directory.    *)

Wants(job) == Key(job.cmd, job.dir)

KeepsOn(v) ==
    \/ jobs'[v] = NoJob
    \/ /\ jobs[v] # NoJob
       /\ jobs'[v].world = jobs[v].world /\ Wants(jobs'[v]) = Wants(jobs[v])
       /\ jobs[v].raced => jobs'[v].raced
       /\ jobs'[v].pc \in {jobs[v].pc, "inject"}

LEMMA MarkedFacts ==
    ASSUME Typed, NEW w, NEW key, NEW v \in Workers
    PROVE  /\ jobs[v] = NoJob => Marked(w, key)[v] = NoJob
           /\ jobs[v] # NoJob =>
                /\ Marked(w, key)[v] # NoJob
                /\ Marked(w, key)[v].world = jobs[v].world
                /\ Wants(Marked(w, key)[v]) = Wants(jobs[v])
                /\ Marked(w, key)[v].pc = jobs[v].pc
                /\ jobs[v].raced => Marked(w, key)[v].raced
                /\ v \in Running(w, key) => Marked(w, key)[v].raced
<1>1. CASE v \notin Running(w, key)
  BY <1>1 DEF Marked
<1>2. CASE v \in Running(w, key)
  <2> DEFINE job == jobs[v]
  <2>1. job \in Jobs
    BY <1>2 DEF Running, Typed, TypeOK
  <2>2. Marked(w, key)[v] = [job EXCEPT !.raced = TRUE]
    BY <1>2 DEF Marked
  <2> HIDE DEF job
  <2>3. /\ [job EXCEPT !.raced = TRUE] \in Jobs
        /\ [job EXCEPT !.raced = TRUE].raced
        /\ [job EXCEPT !.raced = TRUE].world = job.world
        /\ [job EXCEPT !.raced = TRUE].pc = job.pc
        /\ [job EXCEPT !.raced = TRUE].cmd = job.cmd
        /\ [job EXCEPT !.raced = TRUE].dir = job.dir
    BY <2>1 DEF Jobs
  <2>4. [job EXCEPT !.raced = TRUE] # NoJob
    BY <2>3, NoJobIsNoJob
  <2> QED
    BY <2>1, <2>2, <2>3, <2>4, NoJobIsNoJob DEF Wants, job
<1> QED
  BY <1>1, <1>2

LEMMA LaunchMoves ==
    ASSUME Typed, NEW c \in Conns, AskLLM(c)
    PROVE  LET key == Key(cmd[c], cwd) IN
           /\ UNCHANGED <<files, rules>> /\ key \notin DOMAIN rules[home[c]]
           /\ \E j \in Workers :
                /\ jobs[j] = NoJob /\ jobs'[j] # NoJob
                /\ jobs'[j].world = home[c] /\ Wants(jobs'[j]) = key
                /\ jobs'[j].raced = Contended(home[c], key)
                /\ \A v \in Workers \ {j} :
                      /\ KeepsOn(v) /\ (jobs'[v] = NoJob => jobs[v] = NoJob)
                      /\ v \in Running(home[c], key) => jobs'[v].raced
<1> DEFINE key == Key(cmd[c], cwd)
           ask == [cmd |-> cmd[c], world |-> home[c], dir |-> cwd, pc |-> "ask",
                   out |-> "none", raced |-> Contended(home[c], key)]
<1>1. PICK j \in Workers :
        jobs[j] = NoJob /\ jobs' = [Marked(home[c], key) EXCEPT ![j] = ask]
  BY DEF AskLLM, Launch
<1>2. pc[c] # "idle"
  BY DEF AskLLM, Looking, At
<1>3. ask \in Jobs
  <2>1. cmd[c] \in Commands /\ home[c] \in Worlds /\ cwd \in Dirs
    BY <1>2 DEF Typed, TypeOK, AtWork
  <2>2. Contended(home[c], key) \in BOOLEAN
    BY DEF Contended
  <2> QED
    BY <2>1, <2>2 DEF Jobs
<1>4. ask.world = home[c] /\ Wants(ask) = key /\ ask.raced = Contended(home[c], key)
  BY DEF Wants
<1>5. Marked(home[c], key) \in [Workers -> Jobs \cup {NoJob}]
  BY MarkedTyped
<1>6. jobs'[j] = ask /\ \A v \in Workers \ {j} : jobs'[v] = Marked(home[c], key)[v]
  <2> HIDE DEF key, ask
  <2> QED
    BY <1>1, <1>5
<1>7. ask # NoJob
  BY <1>3, NoJobIsNoJob
<1> HIDE DEF ask
<1>8. ASSUME NEW v \in Workers \ {j}
      PROVE  /\ KeepsOn(v) /\ (jobs'[v] = NoJob => jobs[v] = NoJob)
             /\ v \in Running(home[c], key) => jobs'[v].raced
  <2>1. v \in Running(home[c], key) => jobs[v] # NoJob
    BY DEF Running
  <2> HIDE DEF key
  <2> QED
    BY <1>6, <2>1, MarkedFacts DEF KeepsOn
<1>9. UNCHANGED <<files, rules>> /\ key \notin DOMAIN rules[home[c]]
  BY DEF AskLLM, HasRule, store
<1> QED
  BY <1>1, <1>4, <1>6, <1>7, <1>8, <1>9

LEMMA AnswerMoves ==
    ASSUME Typed, NEW j \in Workers, Answer(j)
    PROVE  LET now == Key(jobs[j].cmd, cwd)
               moved == now # Wants(jobs[j]) IN
           /\ UNCHANGED <<files, rules>>
           /\ jobs[j] # NoJob /\ jobs'[j] # NoJob /\ jobs[j].pc = "ask"
           /\ jobs'[j].world = jobs[j].world /\ Wants(jobs'[j]) = now
           /\ moved \/ jobs[j].raced => jobs'[j].raced
           /\ \A v \in Workers \ {j} :
                 /\ KeepsOn(v) /\ (jobs'[v] = NoJob => jobs[v] = NoJob)
                 /\ moved /\ v \in Running(jobs[j].world, now) => jobs'[v].raced
<1> DEFINE now == Key(jobs[j].cmd, cwd)
           moved == now # Key(jobs[j].cmd, jobs[j].dir)
           others == IF moved THEN Marked(jobs[j].world, now) ELSE jobs
           job == jobs[j]
<1>1. PICK a \in Answers :
        jobs' = [others EXCEPT ![j] =
                   [job EXCEPT !.pc = "store", !.dir = cwd, !.out = a, !.raced = @ \/ moved]]
  BY DEF Answer
<1> DEFINE new == [job EXCEPT !.pc = "store", !.dir = cwd, !.out = a, !.raced = @ \/ moved]
<1>2. job \in Jobs /\ job.pc = "ask" /\ cwd \in Dirs /\ job # NoJob
  BY DEF Answer, Typed, TypeOK
<1>3. others \in [Workers -> Jobs \cup {NoJob}]
  BY MarkedTyped DEF Typed, TypeOK
<1>4. moved \in BOOLEAN
  OBVIOUS
<1>5. /\ new \in Jobs /\ new.world = job.world /\ new.cmd = job.cmd /\ new.dir = cwd
      /\ new.raced = (job.raced \/ moved)
  <2> HIDE DEF job, moved
  <2> QED
    BY <1>2, <1>4 DEF Jobs
<1>6. jobs'[j] = new /\ \A v \in Workers \ {j} : jobs'[v] = others[v]
  <2> HIDE DEF new, others
  <2> QED
    BY <1>1, <1>3 DEF new
<1>7. new # NoJob /\ Wants(new) = now
  <2> HIDE DEF new
  <2> QED
    BY <1>5, NoJobIsNoJob DEF Wants
<1>8. ASSUME NEW v \in Workers \ {j}
      PROVE  /\ KeepsOn(v) /\ (jobs'[v] = NoJob => jobs[v] = NoJob)
             /\ moved /\ v \in Running(job.world, now) => jobs'[v].raced
  <2>1. v \in Running(job.world, now) => jobs[v] # NoJob
    BY DEF Running
  <2>2. CASE moved
    <3>1. jobs'[v] = Marked(job.world, now)[v]
      BY <1>6, <2>2
    <3> HIDE DEF now, job, moved, others, new
    <3> QED
      BY <2>1, <3>1, MarkedFacts DEF KeepsOn
  <2>3. CASE ~ moved
    <3>1. jobs'[v] = jobs[v]
      BY <1>6, <2>3
    <3> QED
      BY <2>3, <3>1 DEF KeepsOn
  <2> QED
    BY <2>2, <2>3
<1>9. UNCHANGED <<files, rules>>
  BY DEF Answer, store
<1>10. moved <=> now # Wants(job)
  BY DEF Wants
<1> HIDE DEF new, moved, others
<1> QED
  BY <1>2, <1>5, <1>6, <1>7, <1>8, <1>9, <1>10

Asked == \E c \in Conns : AskLLM(c)
Told  == \E j \in Workers : Answer(j)

LEMMA OthersKeepOn ==
    ASSUME Typed, [Next]_vars, ~ Asked, ~ Told, NEW v \in Workers
    PROVE  KeepsOn(v)
<1>1. ASSUME jobs'[v] = jobs[v]
      PROVE  KeepsOn(v)
  BY <1>1 DEF KeepsOn
<1>2. ASSUME jobs'[v] = NoJob
      PROVE  KeepsOn(v)
  BY <1>2 DEF KeepsOn
<1>3. ASSUME NEW c \in Conns, ConnStep(c)
      PROVE  KeepsOn(v)
  <2>1. CASE Echo(c)
    BY <2>1, MarkedFacts DEF Echo, KeepsOn
  <2> QED
    BY <1>1, <1>3, <2>1
    DEF ConnStep, Asked, Type, Cd, Chdir, Sudo, Python, Answered, Declined, Lookup,
        InvalidateDir, PlantNotes, BlankNotes, Contradict, PlantClue, Finish, Login, Logout,
        Kept
<1>4. ASSUME NEW j \in Workers, JobStep(j)
      PROVE  KeepsOn(v)
  <2>1. CASE v # j
    <3>1. jobs'[v] = jobs[v]
      BY <1>4, <2>1 DEF JobStep, Told, GiveUp, Store, InjectCatOutput, InjectLsOutput, Typed, TypeOK
    <3> QED
      BY <1>1, <3>1
  <2>2. CASE v = j
    <3> DEFINE job == jobs[v]
    <3>1. \/ jobs'[v] = NoJob
          \/ job # NoJob /\ jobs'[v] = [job EXCEPT !.pc = "inject"]
      BY <1>4, <2>2 DEF JobStep, Told, GiveUp, Store, InjectCatOutput, InjectLsOutput, Typed, TypeOK
    <3>2. job # NoJob => job \in Jobs
      BY DEF Typed, TypeOK
    <3> HIDE DEF job
    <3>3. job # NoJob => LET new == [job EXCEPT !.pc = "inject"] IN
             /\ new.world = job.world /\ new.cmd = job.cmd /\ new.dir = job.dir
             /\ new.raced = job.raced /\ new.pc = "inject"
      BY <3>2 DEF Jobs
    <3> QED
      BY <3>1, <3>3 DEF KeepsOn, Wants, job
  <2> QED
    BY <2>1, <2>2
<1>5. CASE Switch \/ UNCHANGED vars
  BY <1>1, <1>5 DEF Switch, vars
<1>6. CASE Crash
  BY <1>2, <1>6, FreshTyped DEF Crash
<1> QED
  BY <1>3, <1>4, <1>5, <1>6 DEF Next

-----------------------------------------------------------------------------
(* What a step does to the files and to the rules *)

LEMMA CatKey ==
    ASSUME NEW k \in Commands, NEW d \in Dirs, NEW p
    PROVE  Key(k, d) = CatOf(p) <=> k.op = "cat" /\ Resolve(d, k.arg) = p
<1>1. CatOf(p).op = "cat" /\ CatOf(p).arg.path = p
  BY DEF CatOf
<1>2. CASE k.op = "cat"
  <2>1. Key(k, d) = CatOf(Resolve(d, k.arg))
    BY <1>2 DEF Key, CatOf
  <2>2. CatOf(Resolve(d, k.arg)).arg.path = Resolve(d, k.arg)
    BY DEF CatOf
  <2> QED
    BY <1>1, <1>2, <2>1, <2>2
<1>3. CASE k.op # "cat"
  <2>1. Key(k, d).op = k.op
    BY DEF Key
  <2> QED
    BY <1>1, <1>3, <2>1
<1> QED
  BY <1>2, <1>3

Clues(c) == PlantNotes(c) \/ BlankNotes(c) \/ Contradict(c) \/ PlantClue(c)

LEMMA PutOne ==
    ASSUME Typed, NEW v \in Worlds, NEW q \in Paths, NEW e, Put(v, q, e),
           NEW w \in Worlds, NEW p \in Paths
    PROVE  files'[w][p] = IF w = v /\ p = q THEN e ELSE files[w][p]
BY DEF Typed, TypeOK, Put

LEMMA FilesMove ==
    ASSUME Typed, [Next]_vars, ~ Crash, NEW w \in Worlds, NEW p \in Paths,
           files'[w][p] # files[w][p]
    PROVE  \/ \E c \in Conns : /\ Echo(c) /\ w = home[c] /\ p = Resolve(cwd, cmd[c].arg)
                               /\ files'[w][p] = File("mine")
           \/ \E c \in Conns : /\ Clues(c) /\ w = home[c] /\ pc[c] \in {"enrich", "blank"}
                               /\ files'[w][p].text \in {"clue", "empty"}
                               /\ \/ p \in {Notes, SysLog} /\ files[w][p] = None
                                  \/ p = SysLog /\ files'[w][p].kind = files[w][p].kind
                                  \/ p = Notes /\ pc[c] = "blank"
                                  \/ p = ClueFile
                               /\ \/ files'[w][p].kind = "file"
                                  \/ files'[w][p].kind = files[w][p].kind
           \/ \E j \in Workers : /\ InjectCatOutput(j) /\ w = jobs[j].world
                                 /\ Wants(jobs[j]) = CatOf(p)
                                 /\ files'[w][p] =
                                      IF files[w][p] = None THEN File(jobs[j].out)
                                      ELSE [files[w][p] EXCEPT !.text = jobs[j].out]
           \/ \E j \in Workers : /\ InjectLsOutput(j) /\ files[w][p] = None
                                 /\ files'[w][p] \in {Dir, File("empty")}
<1>0. files[w][p] \in Entries /\ {Notes, SysLog, ClueFile} \subseteq Paths
  BY PathShapes DEF Typed, TypeOK
<1>1. ASSUME NEW c \in Conns, ConnStep(c)
      PROVE  \/ Echo(c) /\ w = home[c] /\ p = Resolve(cwd, cmd[c].arg)
                /\ files'[w][p] = File("mine")
             \/ /\ Clues(c) /\ w = home[c] /\ pc[c] \in {"enrich", "blank"}
                /\ files'[w][p].text \in {"clue", "empty"}
                /\ \/ p \in {Notes, SysLog} /\ files[w][p] = None
                   \/ p = SysLog /\ files'[w][p].kind = files[w][p].kind
                   \/ p = Notes /\ pc[c] = "blank"
                   \/ p = ClueFile
                /\ files'[w][p].kind = "file" \/ files'[w][p].kind = files[w][p].kind
  <2>0. home[c] \in Worlds
    BY DEF Typed, TypeOK
  <2>1. CASE Echo(c)
    <3>1. pc[c] # "idle" /\ Put(home[c], Resolve(cwd, cmd[c].arg), File("mine"))
      BY <2>1 DEF Echo, At
    <3>2. Resolve(cwd, cmd[c].arg) \in Paths
      BY <3>1, Resolved DEF Typed, TypeOK, AtWork
    <3> QED
      BY <2>0, <2>1, <3>1, <3>2, PutOne
  <2>2. CASE PlantNotes(c)
    <3>1. /\ Put(home[c], Notes, File("clue")) /\ files[home[c]][Notes] = None
          /\ pc[c] = "enrich"
      BY <2>2 DEF PlantNotes, At
    <3>2. w = home[c] /\ p = Notes /\ files'[w][p] = File("clue")
      BY <1>0, <2>0, <3>1, PutOne
    <3> QED
      BY <2>2, <3>1, <3>2 DEF Clues, File
  <2>3. CASE BlankNotes(c)
    <3>1. Put(home[c], Notes, File("empty")) /\ pc[c] = "blank"
      BY <2>3 DEF BlankNotes, At
    <3>2. w = home[c] /\ p = Notes /\ files'[w][p] = File("empty")
      BY <1>0, <2>0, <3>1, PutOne
    <3> QED
      BY <2>3, <3>1, <3>2 DEF Clues, File
  <2>4. CASE Contradict(c)
    <3> DEFINE old == files[home[c]][SysLog]
               new == IF old = None THEN File("clue") ELSE [old EXCEPT !.text = "clue"]
    <3>1. Put(home[c], SysLog, new) /\ pc[c] = "enrich"
      BY <2>4 DEF Contradict, At
    <3>2. w = home[c] /\ p = SysLog /\ files'[w][p] = new
      <4> HIDE DEF new
      <4> QED
        BY <1>0, <2>0, <3>1, PutOne
    <3>3. /\ new.text = "clue"
          /\ (old = None /\ new.kind = "file") \/ new.kind = old.kind
      <4>1. old \in Entries /\ "clue" \in Texts
        BY <1>0, <3>2 DEF Texts
      <4> HIDE DEF old
      <4> QED
        BY <4>1, Retexted DEF File
    <3> HIDE DEF new
    <3> QED
      BY <2>4, <3>1, <3>2, <3>3 DEF Clues
  <2>5. CASE PlantClue(c)
    <3>1. Put(home[c], ClueFile, File("clue")) /\ pc[c] = "enrich"
      BY <2>5 DEF PlantClue, At
    <3>2. w = home[c] /\ p = ClueFile /\ files'[w][p] = File("clue")
      BY <1>0, <2>0, <3>1, PutOne
    <3> QED
      BY <2>5, <3>1, <3>2 DEF Clues, File
  <2>6. CASE UNCHANGED files
    BY <2>6
  <2> QED
    BY <1>1, <2>1, <2>2, <2>3, <2>4, <2>5, <2>6
    DEF ConnStep, Type, Cd, Chdir, Sudo, Python, Answered, Declined, Lookup, AskLLM,
        InvalidateDir, Finish, Login, Logout, Kept, store
<1>2. ASSUME NEW j \in Workers, JobStep(j)
      PROVE  \/ /\ InjectCatOutput(j) /\ w = jobs[j].world
                /\ Wants(jobs[j]) = CatOf(p)
                /\ files'[w][p] = IF files[w][p] = None THEN File(jobs[j].out)
                                  ELSE [files[w][p] EXCEPT !.text = jobs[j].out]
             \/ /\ InjectLsOutput(j) /\ files[w][p] = None
                /\ files'[w][p] \in {Dir, File("empty")}
  <2>1. CASE InjectCatOutput(j)
    <3> DEFINE v == jobs[j].world
               q == Resolve(jobs[j].dir, jobs[j].cmd.arg)
               e == IF files[v][q] = None THEN File(jobs[j].out)
                    ELSE [files[v][q] EXCEPT !.text = jobs[j].out]
    <3>1. jobs[j] \in Jobs /\ jobs[j].cmd.op = "cat" /\ Put(v, q, e)
      BY <2>1 DEF InjectCatOutput, Injecting, Typed, TypeOK
    <3>2. jobs[j].cmd \in Commands /\ jobs[j].dir \in Dirs /\ v \in Worlds
      BY <3>1 DEF Jobs
    <3>3. q \in Paths
      BY <3>2, Resolved
    <3>4. Wants(jobs[j]) = CatOf(q)
      BY <3>1, <3>2, CatKey DEF Wants
    <3>5. w = v /\ p = q /\ files'[w][p] = e
      <4> HIDE DEF v, q, e
      <4> QED
        BY <3>1, <3>2, <3>3, PutOne
    <3> HIDE DEF v, q
    <3> QED
      BY <2>1, <3>4, <3>5 DEF v
  <2>2. CASE InjectLsOutput(j)
    <3> DEFINE v == jobs[j].world
               q == Resolve(jobs[j].dir, jobs[j].cmd.arg)
    <3>1. PICK names : files' = [files EXCEPT ![v] = Listed(v, q, names)]
      BY <2>2 DEF InjectLsOutput
    <3> HIDE DEF v, q
    <3>2. w = v /\ files'[w][p] = Listed(v, q, names)[p]
      BY <3>1 DEF Typed, TypeOK
    <3> QED
      BY <2>2, <3>2 DEF Listed, LikelyEntry
  <2>3. CASE UNCHANGED files
    BY <2>3
  <2> QED
    BY <1>2, <2>1, <2>2, <2>3 DEF JobStep, Answer, GiveUp, Store, store
<1>3. CASE Switch \/ UNCHANGED vars
  BY <1>3 DEF Switch, vars, store
<1> QED
  BY <1>1, <1>2, <1>3 DEF Next

LEMMA RulesMove ==
    ASSUME Typed, [Next]_vars, ~ Crash, NEW w \in Worlds, NEW key \in DOMAIN rules'[w]
    PROVE  \/ key \in DOMAIN rules[w] /\ rules'[w][key] = rules[w][key]
           \/ \E j \in Workers : /\ Store(j) /\ j \in Running(w, key)
                                 /\ rules'[w][key].out = jobs[j].out
<1>1. ASSUME NEW c \in Conns, ConnStep(c)
      PROVE  key \in DOMAIN rules[w] /\ rules'[w][key] = rules[w][key]
  <2>1. CASE InvalidateDir(c)
    <3>1. PICK keep \in SUBSET DOMAIN rules[home[c]] :
             rules' = [rules EXCEPT ![home[c]] = [x \in keep |-> rules[home[c]][x]]]
      BY <2>1 DEF InvalidateDir
    <3> QED
      BY <3>1 DEF Typed, AtWork
  <2>2. CASE UNCHANGED rules
    BY <2>2
  <2> QED
    BY <1>1, <2>1, <2>2
    DEF ConnStep, Type, Echo, Cd, Chdir, Sudo, Python, Answered, Declined, Lookup, AskLLM,
        PlantNotes, BlankNotes, Contradict, PlantClue, Finish, Login, Logout, Kept, store
<1>2. ASSUME NEW j \in Workers, JobStep(j)
      PROVE  \/ key \in DOMAIN rules[w] /\ rules'[w][key] = rules[w][key]
             \/ /\ Store(j) /\ j \in Running(w, key)
                /\ rules'[w][key].out = jobs[j].out
  <2>1. CASE Store(j)
    <3> DEFINE k == Key(jobs[j].cmd, jobs[j].dir)
               rule == [arg |-> jobs[j].cmd.arg, out |-> jobs[j].out]
    <3>1. /\ jobs[j] # NoJob
          /\ rules' = [rules EXCEPT ![jobs[j].world] =
                         [x \in DOMAIN @ \cup {k} |-> IF x = k THEN rule ELSE @[x]]]
      BY <2>1 DEF Store
    <3>2. rule.out = jobs[j].out
      OBVIOUS
    <3>3. CASE w = jobs[j].world /\ key = k
      <4>1. j \in Running(w, key)
        BY <3>1, <3>3 DEF Running
      <4>2. rules'[w][key] = rule
        <5> HIDE DEF k, rule
        <5> QED
          BY <3>1, <3>3 DEF Typed, AtWork
      <4> QED
        BY <2>1, <3>2, <4>1, <4>2
    <3>4. CASE ~ (w = jobs[j].world /\ key = k)
      <4> HIDE DEF k, rule
      <4> QED
        BY <3>1, <3>4 DEF Typed, AtWork
    <3> QED
      BY <3>3, <3>4
  <2>2. CASE UNCHANGED rules
    BY <2>2
  <2> QED
    BY <1>2, <2>1, <2>2 DEF JobStep, Answer, GiveUp, InjectCatOutput, InjectLsOutput, store
<1>3. CASE Switch \/ UNCHANGED vars
  BY <1>3 DEF Switch, vars, store
<1> QED
  BY <1>1, <1>2, <1>3 DEF Next

LEMMA CrashEmpties ==
    ASSUME Crash
    PROVE  /\ \A w \in Worlds : files'[w] = HostWorld(w) /\ DOMAIN rules'[w] = {}
           /\ \A c \in Conns : pc'[c] = "idle"
           /\ \A j \in Workers : jobs'[j] = NoJob
BY FreshTyped DEF Crash, Fresh

-----------------------------------------------------------------------------
(* Contention                                                              *)
(*                                                                         *)
(* raced is on in every goroutine that shares its key with another one, or *)
(* whose key has a rule already, or whose file has been written to.  The   *)
(* first of the three is what the other two need: a goroutine that nobody  *)
(* races has its rule and its file to itself until it is done.             *)

SoleInv ==
    \A i, j \in Workers :
        /\ i # j /\ jobs[i] # NoJob /\ jobs[j] # NoJob
        /\ jobs[i].world = jobs[j].world /\ Wants(jobs[i]) = Wants(jobs[j])
        => jobs[i].raced

NovelInv ==
    \A j \in Workers :
        jobs[j] # NoJob /\ jobs[j].pc \in {"ask", "store"} /\ ~ jobs[j].raced
           => Wants(jobs[j]) \notin DOMAIN rules[jobs[j].world]

MineInv ==
    \A j \in Workers, p \in Paths :
        jobs[j] # NoJob /\ Wants(jobs[j]) = CatOf(p) /\ files[jobs[j].world][p] = File("mine")
           => jobs[j].raced

RaceInv == SoleInv /\ NovelInv /\ MineInv

LEMMA RunningIs ==
    ASSUME NEW j \in Workers, NEW w, NEW key
    PROVE  j \in Running(w, key) <=> /\ jobs[j] # NoJob /\ jobs[j].world = w
                                     /\ Wants(jobs[j]) = key
BY DEF Running, Wants

LEMMA SoleStep == Typed /\ SoleInv /\ [Next]_vars => SoleInv'
<1> SUFFICES ASSUME Typed, SoleInv, [Next]_vars,
                    NEW i \in Workers, NEW j \in Workers, i # j,
                    jobs'[i] # NoJob, jobs'[j] # NoJob, jobs'[i].world = jobs'[j].world,
                    Wants(jobs'[i]) = Wants(jobs'[j])
             PROVE  jobs'[i].raced
  BY DEF SoleInv, Wants
<1>1. ASSUME KeepsOn(i), KeepsOn(j)
      PROVE  jobs'[i].raced
  BY <1>1 DEF SoleInv, KeepsOn
<1>2. ASSUME NEW c \in Conns, AskLLM(c)
      PROVE  jobs'[i].raced
  <2> DEFINE key == Key(cmd[c], cwd)
  <2>1. PICK n \in Workers :
          /\ jobs[n] = NoJob /\ jobs'[n] # NoJob
          /\ jobs'[n].world = home[c] /\ Wants(jobs'[n]) = key
          /\ jobs'[n].raced = Contended(home[c], key)
          /\ \A v \in Workers \ {n} :
                KeepsOn(v) /\ (v \in Running(home[c], key) => jobs'[v].raced)
    BY <1>2, LaunchMoves
  <2>2. CASE i = n
    <3>1. j \in Running(home[c], key)
      BY <2>1, <2>2, RunningIs DEF KeepsOn
    <3> QED
      BY <2>1, <2>2, <3>1 DEF Contended
  <2>3. CASE j = n
    <3>1. i \in Running(home[c], key)
      BY <2>1, <2>3, RunningIs DEF KeepsOn
    <3> QED
      BY <2>1, <2>3, <3>1
  <2> QED
    BY <1>1, <2>1, <2>2, <2>3
<1>3. ASSUME NEW n \in Workers, Answer(n)
      PROVE  jobs'[i].raced
  <2> DEFINE now == Key(jobs[n].cmd, cwd)
             moved == now # Wants(jobs[n])
  <2>1. /\ jobs[n] # NoJob /\ jobs'[n].world = jobs[n].world /\ Wants(jobs'[n]) = now
        /\ moved \/ jobs[n].raced => jobs'[n].raced
        /\ \A v \in Workers \ {n} :
              KeepsOn(v) /\ (moved /\ v \in Running(jobs[n].world, now) => jobs'[v].raced)
    BY <1>3, AnswerMoves
  <2> HIDE DEF now
  <2>2. CASE moved /\ i = n
    BY <2>1, <2>2
  <2>3. CASE moved /\ j = n
    <3>1. i \in Running(jobs[n].world, now)
      BY <2>1, <2>3, RunningIs DEF KeepsOn
    <3> QED
      BY <2>1, <2>3, <3>1
  <2>4. CASE ~ moved /\ n \in {i, j}
    BY <2>1, <2>4 DEF SoleInv, KeepsOn
  <2> QED
    BY <1>1, <2>1, <2>2, <2>3, <2>4
<1> QED
  BY <1>1, <1>2, <1>3, OthersKeepOn DEF Asked, Told

LEMMA NovelStep == Typed /\ SoleInv /\ NovelInv /\ [Next]_vars => NovelInv'
<1> SUFFICES ASSUME Typed, SoleInv, NovelInv, [Next]_vars,
                    NEW v \in Workers, jobs'[v] # NoJob, jobs'[v].pc \in {"ask", "store"},
                    ~ jobs'[v].raced, Wants(jobs'[v]) \in DOMAIN rules'[jobs'[v].world]
             PROVE  FALSE
  BY DEF NovelInv, Wants
<1>0. Typed'
  BY TypedStep
<1>1. jobs'[v] \in Jobs /\ jobs'[v].world \in Worlds
  BY <1>0 DEF Typed, TypeOK, Jobs
<1>2. ~ Crash
  BY CrashEmpties
<1>3. ASSUME KeepsOn(v)
      PROVE  FALSE
  <2>1. /\ jobs[v] # NoJob /\ jobs[v].pc \in {"ask", "store"} /\ ~ jobs[v].raced
        /\ jobs'[v].world = jobs[v].world /\ Wants(jobs'[v]) = Wants(jobs[v])
    BY <1>3 DEF KeepsOn
  <2>2. Wants(jobs[v]) \notin DOMAIN rules[jobs[v].world]
    BY <2>1 DEF NovelInv
  <2>3. PICK j \in Workers : Store(j) /\ j \in Running(jobs[v].world, Wants(jobs[v]))
    BY <1>1, <1>2, <2>1, <2>2, RulesMove
  <2>4. j # v
    <3>1. Store(v) => jobs'[v] = NoJob \/ jobs'[v] = [jobs[v] EXCEPT !.pc = "inject"]
      BY DEF Store, Typed, TypeOK
    <3> DEFINE job == jobs[v]
    <3>2. job \in Jobs
      BY <2>1 DEF Typed, TypeOK
    <3> HIDE DEF job
    <3>3. [job EXCEPT !.pc = "inject"].pc = "inject"
      BY <3>2 DEF Jobs
    <3> QED
      BY <2>3, <3>1, <3>3 DEF job
  <2> QED
    BY <2>1, <2>3, <2>4, RunningIs DEF SoleInv
<1>4. ASSUME NEW c \in Conns, AskLLM(c)
      PROVE  FALSE
  BY <1>3, <1>4, LaunchMoves
<1>5. ASSUME NEW n \in Workers, Answer(n)
      PROVE  FALSE
  BY <1>3, <1>5, AnswerMoves DEF NovelInv
<1> QED
  BY <1>3, <1>4, <1>5, OthersKeepOn DEF Asked, Told

LEMMA MineStep == Typed /\ SoleInv /\ MineInv /\ [Next]_vars => MineInv'
<1> SUFFICES ASSUME Typed, SoleInv, MineInv, [Next]_vars,
                    NEW v \in Workers, NEW p \in Paths, jobs'[v] # NoJob,
                    Wants(jobs'[v]) = CatOf(p), files'[jobs'[v].world][p] = File("mine")
             PROVE  jobs'[v].raced
  BY DEF MineInv, Wants
<1>0. Typed'
  BY TypedStep
<1>1. jobs'[v] \in Jobs /\ jobs'[v].world \in Worlds
  BY <1>0 DEF Typed, TypeOK, Jobs
<1>2. ~ Crash
  BY CrashEmpties
<1>3. ASSUME KeepsOn(v)
      PROVE  jobs'[v].raced
  <2> DEFINE w == jobs[v].world
  <2>1. /\ jobs[v] # NoJob /\ (jobs[v].raced => jobs'[v].raced)
        /\ jobs'[v].world = w /\ Wants(jobs[v]) = CatOf(p)
    BY <1>3 DEF KeepsOn
  <2>2. CASE files'[w][p] = files[w][p]
    BY <2>1, <2>2 DEF MineInv
  <2>3. CASE files'[w][p] # files[w][p]
    <3>1. ASSUME NEW c \in Conns, Echo(c), w = home[c], p = Resolve(cwd, cmd[c].arg)
          PROVE  jobs'[v].raced
      <4>1. jobs' = Marked(w, CatOf(p)) /\ v \in Running(w, CatOf(p))
        BY <2>1, <3>1, RunningIs DEF Echo
      <4> QED
        BY <2>1, <4>1, MarkedFacts
    <3>2. ASSUME NEW c \in Conns, Clues(c), files'[w][p].text \in {"clue", "empty"}
          PROVE  FALSE
      BY <2>1, <3>2 DEF File
    <3>3. ASSUME NEW j \in Workers, InjectCatOutput(j), w = jobs[j].world,
                 Wants(jobs[j]) = CatOf(p)
          PROVE  jobs'[v].raced
      <4>1. jobs[j] # NoJob /\ jobs'[j] = NoJob
        BY <3>3 DEF InjectCatOutput, Injecting, Typed, TypeOK
      <4> QED
        BY <2>1, <3>3, <4>1 DEF SoleInv
    <3>4. ASSUME files'[w][p] \in {Dir, File("empty")}
          PROVE  FALSE
      BY <2>1, <3>4 DEF File, Dir
    <3>5. w \in Worlds
      BY <1>1, <2>1
    <3> QED
      BY <1>2, <2>3, <3>1, <3>2, <3>3, <3>4, <3>5, FilesMove
  <2> QED
    BY <2>2, <2>3
<1>4. ASSUME NEW c \in Conns, AskLLM(c)
      PROVE  jobs'[v].raced
  <2> DEFINE key == Key(cmd[c], cwd)
  <2>1. \/ KeepsOn(v)
        \/ /\ UNCHANGED files /\ jobs'[v].world = home[c] /\ Wants(jobs'[v]) = key
           /\ jobs'[v].raced = Contended(home[c], key)
    BY <1>4, LaunchMoves
  <2>2. CASE /\ UNCHANGED files /\ jobs'[v].world = home[c] /\ Wants(jobs'[v]) = key
             /\ jobs'[v].raced = Contended(home[c], key)
    <3>1. key.op = "cat" /\ key.arg.path = p /\ files[home[c]][p] # None
      BY <2>2 DEF CatOf, File, None
    <3> QED
      BY <2>2, <3>1 DEF Contended
  <2> QED
    BY <1>3, <2>1, <2>2
<1>5. ASSUME NEW n \in Workers, Answer(n)
      PROVE  jobs'[v].raced
  BY <1>3, <1>5, AnswerMoves DEF MineInv
<1> QED
  BY <1>3, <1>4, <1>5, OthersKeepOn DEF Asked, Told

LEMMA AlwaysRaced == Spec => []RaceInv
<1>1. Init => RaceInv
  BY FreshTyped DEF Init, RaceInv, SoleInv, NovelInv, MineInv
<1>2. Typed /\ RaceInv /\ [Next]_vars => RaceInv'
  BY SoleStep, NovelStep, MineStep DEF RaceInv
<1> QED
  BY <1>1, <1>2, AlwaysTyped, PTL DEF Spec

-----------------------------------------------------------------------------
(* Commands on one path agree                                              *)

LEMMA InjectingEnds ==
    ASSUME Typed, [Next]_vars, ~ Crash, NEW j \in Workers, NEW p,
           jobs[j] # NoJob, jobs[j].pc = "inject", Wants(jobs[j]) = CatOf(p)
    PROVE  \/ KeepsOn(j) /\ jobs'[j] # NoJob
           \/ InjectCatOutput(j)
<1>1. ASSUME jobs'[j] = jobs[j]
      PROVE  KeepsOn(j) /\ jobs'[j] # NoJob
  BY <1>1 DEF KeepsOn
<1>2. jobs[j].cmd.op = "cat"
  BY CatKey DEF Wants, Typed, TypeOK, Jobs
<1>3. ASSUME NEW c \in Conns, ConnStep(c)
      PROVE  KeepsOn(j) /\ jobs'[j] # NoJob
  <2>1. CASE Echo(c)
    BY <2>1, MarkedFacts DEF Echo, KeepsOn
  <2>2. CASE AskLLM(c)
    BY <2>2, LaunchMoves
  <2> QED
    BY <1>1, <1>3, <2>1, <2>2
    DEF ConnStep, Type, Cd, Chdir, Sudo, Python, Answered, Declined, Lookup,
        InvalidateDir, PlantNotes, BlankNotes, Contradict, PlantClue, Finish, Login, Logout,
        Kept
<1>4. ASSUME NEW i \in Workers, JobStep(i)
      PROVE  \/ KeepsOn(j) /\ jobs'[j] # NoJob
             \/ InjectCatOutput(j)
  <2>1. CASE Answer(i)
    BY <2>1, AnswerMoves
  <2>2. CASE i # j /\ ~ Answer(i)
    <3>1. jobs'[j] = jobs[j]
      BY <1>4, <2>2 DEF JobStep, GiveUp, Store, InjectCatOutput, InjectLsOutput, Typed, TypeOK
    <3> QED
      BY <1>1, <3>1
  <2>3. CASE i = j /\ ~ Answer(i)
    BY <1>2, <1>4, <2>3 DEF JobStep, GiveUp, Store, InjectLsOutput, Injecting
  <2> QED
    BY <2>1, <2>2, <2>3
<1>5. CASE Switch \/ UNCHANGED vars
  BY <1>1, <1>5 DEF Switch, vars
<1> QED
  BY <1>3, <1>4, <1>5 DEF Next

LEMMA EntriesStay ==
    ASSUME Typed, [Next]_vars, ~ Crash, NEW w \in Worlds, NEW p \in Paths,
           files[w][p] # None
    PROVE  files'[w][p] # None
<1>1. files[w][p].kind \in {"dir", "file"}
      /\ \A t : [files[w][p] EXCEPT !.text = t].kind = files[w][p].kind
  BY DEF Typed, TypeOK, Entries, None
<1>2. None.kind = "none" /\ \A t : File(t).kind = "file"
  BY DEF None, File
<1>3. files'[w][p] = files[w][p] \/ files'[w][p].kind \in {"file", files[w][p].kind}
  BY <1>1, <1>2, FilesMove
<1> QED
  BY <1>1, <1>2, <1>3

LEMMA AgreeStep == Typed /\ RulesHaveFiles /\ [Next]_vars => RulesHaveFiles'
<1> SUFFICES ASSUME Typed, RulesHaveFiles, [Next]_vars,
                    NEW w \in Worlds, NEW p \in Paths, CatOf(p) \in DOMAIN rules'[w],
                    files'[w][p] = None
             PROVE  \E j \in Workers : /\ jobs'[j] # NoJob /\ jobs'[j].world = w
                                       /\ Wants(jobs'[j]) = CatOf(p) /\ jobs'[j].pc = "inject"
  BY DEF RulesHaveFiles, Running, Wants
<1>1. ~ Crash
  BY CrashEmpties
<1>2. CASE CatOf(p) \in DOMAIN rules[w]
  <2>1. files[w][p] = None
    BY <1>1, EntriesStay
  <2>2. PICK j \in Workers : /\ jobs[j] # NoJob /\ jobs[j].world = w
                             /\ Wants(jobs[j]) = CatOf(p) /\ jobs[j].pc = "inject"
    BY <1>2, <2>1 DEF RulesHaveFiles, Running, Wants
  <2>3. CASE KeepsOn(j) /\ jobs'[j] # NoJob
    BY <2>2, <2>3 DEF KeepsOn
  <2>4. CASE InjectCatOutput(j)
    <3> DEFINE job == jobs[j]
               q == Resolve(job.dir, job.cmd.arg)
    <3>1. job \in Jobs
      BY <2>2 DEF Typed, TypeOK
    <3>2. job.cmd \in Commands /\ job.dir \in Dirs
      BY <3>1 DEF Jobs
    <3>3. q = p
      BY <2>2, <3>2, CatKey DEF Wants
    <3>4. Put(w, p, File(job.out))
      BY <2>1, <2>2, <2>4, <3>3 DEF InjectCatOutput
    <3>5. files'[w][p] = File(job.out)
      BY <3>4, PutOne
    <3> QED
      BY <3>5 DEF File, None
  <2> QED
    BY <1>1, <2>2, <2>3, <2>4, InjectingEnds
<1>3. CASE CatOf(p) \notin DOMAIN rules[w]
  <2>1. PICK j \in Workers : Store(j) /\ j \in Running(w, CatOf(p))
    BY <1>1, <1>3, RulesMove
  <2> DEFINE job == jobs[j]
  <2>2. job \in Jobs /\ job.world = w /\ Wants(job) = CatOf(p)
    BY <2>1, RunningIs DEF Running, Typed, TypeOK
  <2>3. job.cmd.op = "cat"
    BY <2>2, CatKey DEF Wants, Jobs
  <2>4. jobs'[j] = [job EXCEPT !.pc = "inject"]
    BY <2>1, <2>3 DEF Store, Typed, TypeOK
  <2> HIDE DEF job
  <2>5. LET new == [job EXCEPT !.pc = "inject"] IN
           /\ new \in Jobs /\ new.world = w /\ new.cmd = job.cmd /\ new.dir = job.dir
           /\ new.pc = "inject"
    <3>1. job.pc = "store"
      BY <2>1 DEF Store, job
    <3> QED
      BY <2>2, <3>1 DEF Jobs
  <2> QED
    BY <2>2, <2>4, <2>5, NoJobIsNoJob DEF Wants
<1> QED
  BY <1>2, <1>3

(* Whatever commands, answers, clues and crashes interleave: every variable keeps
   its type, and a file whose content the LLM has told is there for every other
   command too, or its goroutine is about to put it there. *)
THEOREM RulesAgree == Spec => []Inv
<1>1. Init => RulesHaveFiles
  BY FreshTyped DEF Init, RulesHaveFiles
<1>2. Typed /\ RulesHaveFiles => Inv
  BY DEF Typed, Inv
<1> QED
  BY <1>1, <1>2, AgreeStep, AlwaysTyped, PTL DEF Spec

-----------------------------------------------------------------------------
(* What is written stays                                                   *)

WriteLost(w, p) ==
    files[w][p] = File("mine") /\ files'[w][p] # File("mine") =>
        \/ \E c \in Conns : pc[c] \in {"enrich", "blank"} /\ p \in {Notes, SysLog, ClueFile}
        \/ \E j \in Workers : Injecting(j, "cat") /\ jobs[j].raced
        \/ Crash

WritesStay == \A w \in Worlds, p \in Paths : WriteLost(w, p)

LEMMA WriteStep == Typed /\ MineInv /\ [Next]_vars => [WritesStay]_vars
<1> SUFFICES ASSUME Typed, MineInv, [Next]_vars, ~ Crash, NEW w \in Worlds, NEW p \in Paths,
                    files[w][p] = File("mine"), files'[w][p] # File("mine")
             PROVE  \/ \E c \in Conns : /\ pc[c] \in {"enrich", "blank"}
                                        /\ p \in {Notes, SysLog, ClueFile}
                    \/ \E j \in Workers : Injecting(j, "cat") /\ jobs[j].raced
  BY DEF WritesStay, WriteLost
<1>1. ASSUME NEW j \in Workers, InjectCatOutput(j), w = jobs[j].world,
             Wants(jobs[j]) = CatOf(p)
      PROVE  Injecting(j, "cat") /\ jobs[j].raced
  BY <1>1 DEF InjectCatOutput, Injecting, MineInv
<1>2. files[w][p] # None
  BY DEF File, None
<1> QED
  BY <1>1, <1>2, FilesMove

(* DirsKept excepts no clue but ClueFile: the notes are planted where there was
   nothing, so they are a file when the second AddFile empties them, and a crash
   gives back as files only what never was anything else. *)
FileInv ==
    /\ \A w \in Worlds : \A p \in Seeds(w) : files[w][p].kind = "file"
    /\ \A c \in Conns : pc[c] = "blank" => files[home[c]][Notes].kind = "file"

LEMMA FilesStayFiles ==
    ASSUME Typed, [Next]_vars, ~ Crash, NEW w \in Worlds, NEW p \in Paths,
           files[w][p].kind = "file"
    PROVE  files'[w][p].kind = "file"
<1>1. files[w][p] \in Entries /\ files[w][p] # None
  BY DEF Typed, TypeOK, None
<1>2. \A t : [files[w][p] EXCEPT !.text = t].kind = "file"
  BY <1>1 DEF Entries, None
<1>3. \A t : File(t).kind = "file"
  BY DEF File
<1>4. CASE files'[w][p] # files[w][p]
  <2>1. \/ \E t : files'[w][p] = File(t)
        \/ \E t : files'[w][p] = [files[w][p] EXCEPT !.text = t]
        \/ files'[w][p].kind \in {"file", files[w][p].kind}
    BY <1>1, <1>4, FilesMove
  <2> QED
    BY <1>2, <1>3, <2>1
<1> QED
  BY <1>4

LEMMA FileInvStep == Typed /\ FileInv /\ [Next]_vars => FileInv'
<1> SUFFICES ASSUME Typed, FileInv, [Next]_vars
             PROVE  FileInv'
  OBVIOUS
<1>0. (\A w : Seeds(w) \subseteq Paths \ SeededDirs) /\ Notes \in Paths
  BY PathShapes DEF Seeds
<1>1. CASE Crash
  <2>1. \A w \in Worlds : \A p \in Seeds(w) : HostWorld(w)[p].kind = "file"
    BY <1>0 DEF HostWorld, File
  <2> QED
    BY <1>1, <2>1, CrashEmpties DEF FileInv, Seeds
<1>2. CASE ~ Crash
  <2>1. \A w \in Worlds : \A p \in Seeds(w) : files'[w][p].kind = "file"
    BY <1>0, <1>2, FilesStayFiles DEF FileInv
  <2>2. ASSUME NEW c \in Conns, pc'[c] = "blank"
        PROVE  files'[home'[c]][Notes].kind = "file"
    <3>1. CASE pc[c] = "blank" /\ home'[c] = home[c]
      BY <1>0, <1>2, <3>1, FilesStayFiles DEF FileInv, Typed, TypeOK
    <3>2. CASE PlantNotes(c)
      <4>1. home'[c] = home[c] /\ home[c] \in Worlds /\ Put(home[c], Notes, File("clue"))
        BY <3>2 DEF PlantNotes, Typed, TypeOK
      <4> QED
        BY <1>0, <4>1, PutOne DEF File
    <3>3. ASSUME NEW d \in Conns, ConnStep(d)
          PROVE  PlantNotes(c) \/ (pc[c] = "blank" /\ home'[c] = home[c])
      <4>1. CASE d = c
        BY <2>2, <3>3, <4>1
        DEF ConnStep, Type, Echo, Cd, Chdir, Sudo, Python, Answered, Declined, Lookup, AskLLM,
            InvalidateDir, PlantNotes, BlankNotes, Contradict, PlantClue, Finish, Login,
            Logout, Rest, Goto, At, Typed, TypeOK, conn
      <4>2. CASE d # c
        BY <2>2, <3>3, <4>2
        DEF ConnStep, Type, Echo, Cd, Chdir, Sudo, Python, Answered, Declined, Lookup, AskLLM,
            InvalidateDir, PlantNotes, BlankNotes, Contradict, PlantClue, Finish, Login,
            Logout, Rest, Goto, At, Typed, TypeOK, conn
      <4> QED
        BY <4>1, <4>2
    <3>4. CASE (\E j \in Workers : JobStep(j)) \/ Switch \/ UNCHANGED vars
      <4>1. UNCHANGED <<pc, home>>
        BY <3>4 DEF JobStep, Answer, GiveUp, Store, InjectCatOutput, InjectLsOutput, Switch,
           vars, conn
      <4> QED
        BY <2>2, <3>1, <4>1
    <3> QED
      BY <1>2, <3>1, <3>2, <3>3, <3>4 DEF Next
  <2> QED
    BY <2>1, <2>2 DEF FileInv, Seeds
<1> QED
  BY <1>1, <1>2

DirsStay ==
    \A w \in Worlds, p \in Paths \ {ClueFile} :
        files[w][p].kind = "dir" /\ files'[w][p].kind = "file" =>
            \E c \in Conns : At(c, "engine") /\ cmd[c].op = "write" /\ home[c] = w

LEMMA DirStep == Typed /\ FileInv /\ [Next]_vars => [DirsStay]_vars
<1> SUFFICES ASSUME Typed, FileInv, [Next]_vars, NEW w \in Worlds,
                    NEW p \in Paths \ {ClueFile},
                    files[w][p].kind = "dir", files'[w][p].kind = "file"
             PROVE  \E c \in Conns : At(c, "engine") /\ cmd[c].op = "write" /\ home[c] = w
  BY DEF DirsStay
<1>1. ~ Crash
  <2> SUFFICES ASSUME Crash
               PROVE  FALSE
    OBVIOUS
  <2>1. files'[w][p] = HostWorld(w)[p]
    BY CrashEmpties
  <2>2. p \in Seeds(w)
    BY <2>1 DEF HostWorld, Dir, None
  <2> QED
    BY <2>2 DEF FileInv
<1>2. files[w][p] \in Entries /\ files[w][p] # None /\ files'[w][p] # files[w][p]
  BY DEF Typed, TypeOK, None
<1>3. ASSUME NEW c \in Conns, Echo(c), w = home[c]
      PROVE  At(c, "engine") /\ cmd[c].op = "write" /\ home[c] = w
  BY <1>3 DEF Echo
<1>4. \A t : [files[w][p] EXCEPT !.text = t].kind = "dir"
  BY <1>2 DEF Entries, None
<1>5. ~ \E c \in Conns : pc[c] = "blank" /\ p = Notes /\ w = home[c]
  BY DEF FileInv
<1> QED
  BY <1>1, <1>2, <1>3, <1>4, <1>5, FilesMove

(* However late the LLM answers: what the attacker has written stays until a clue
   is planted there, and a directory stays one, but for the goroutines that were
   raced: those asked before the write, or moved by a change of directory. *)
THEOREM FilesStay == Spec => FilesKept
<1>1. Init => FileInv
  <2> SUFFICES ASSUME Init
               PROVE  FileInv
    OBVIOUS
  <2>1. \A w \in Worlds : files[w] = HostWorld(w)
    BY DEF Init, Fresh
  <2>2. \A c \in Conns : pc[c] = "idle"
    BY FreshTyped DEF Init
  <2>3. \A w : Seeds(w) \subseteq Paths \ SeededDirs
    BY PathShapes DEF Seeds
  <2>4. ASSUME NEW w \in Worlds, NEW p \in Seeds(w)
        PROVE  files[w][p].kind = "file"
    <3>1. HostWorld(w)[p].kind = "file"
      BY <2>3 DEF HostWorld, File
    <3> QED
      BY <2>1, <3>1
  <2> QED
    BY <2>2, <2>4 DEF FileInv
<1>2. RaceInv => MineInv
  BY DEF RaceInv
<1>3. Spec => [][WritesStay]_vars
  BY <1>2, WriteStep, AlwaysTyped, AlwaysRaced, PTL DEF Spec
<1>4. Spec => [][DirsStay]_vars
  BY <1>1, FileInvStep, DirStep, AlwaysTyped, PTL DEF Spec
<1>5. WritesKept <=> [][WritesStay]_vars
  BY DEF WritesKept, WritesStay, WriteLost
<1>6. DirsKept <=> [][DirsStay]_vars
  BY DEF DirsKept, DirsStay
<1> QED
  BY <1>3, <1>4, <1>5, <1>6 DEF FilesKept

-----------------------------------------------------------------------------
(* Rules                                                                   *)

RepliesStay ==
    \A w \in Worlds : \A key \in DOMAIN rules[w] \cap DOMAIN rules'[w] :
        rules'[w][key].out # rules[w][key].out =>
            \E j \in Running(w, key) : jobs[j].pc = "store" /\ jobs[j].raced

LEMMA ReplyStep == Typed /\ NovelInv /\ [Next]_vars => [RepliesStay]_vars
<1> SUFFICES ASSUME Typed, NovelInv, [Next]_vars, NEW w \in Worlds,
                    NEW key \in DOMAIN rules[w], key \in DOMAIN rules'[w],
                    rules'[w][key].out # rules[w][key].out
             PROVE  \E j \in Running(w, key) : jobs[j].pc = "store" /\ jobs[j].raced
  BY DEF RepliesStay
<1>1. ~ Crash
  BY CrashEmpties
<1>2. PICK j \in Workers : Store(j) /\ j \in Running(w, key)
  BY <1>1, RulesMove
<1>3. jobs[j].pc = "store"
  BY <1>2 DEF Store
<1> QED
  BY <1>2, <1>3, RunningIs DEF NovelInv

(* A rule is only ever replaced by another answer where two goroutines contended
   for it, or the session changed its directory: a goroutine nobody races is the
   first and only one to store a rule for its key. *)
THEOREM RepliesSettled == Spec => RepliesStable
<1>1. RaceInv => NovelInv
  BY DEF RaceInv
<1>2. RepliesStable <=> [][RepliesStay]_vars
  BY DEF RepliesStable, RepliesStay
<1> QED
  BY <1>1, <1>2, ReplyStep, AlwaysTyped, AlwaysRaced, PTL DEF Spec

Dropped ==
    \A c \in Conns :
        LET p == cmd[c].arg.path IN
        At(c, "invalidate") /\ pc'[c] = "enrich" /\ cmd[c].arg.abs /\ Len(p) > 1 =>
            \A key \in DOMAIN rules'[home[c]] :
                LET r == rules'[home[c]][key] IN
                r.arg.abs => ~ IsPrefix(Front(p), r.arg.path)

(* InvalidateDir compares with dir + "/", so a rule of the directory itself has
   to be caught by the equality: with both paths absolute it is. *)
LEMMA CoversBelow ==
    ASSUME NEW a \in Args, NEW r \in Args, a.abs, r.abs, Len(a.path) > 1,
           IsPrefix(Front(a.path), r.path)
    PROVE  Covers(DirOf(a), r)
<1>1. a.path \in Seq(STRING)
  BY PathShapes DEF Args
<1>2. a.path # <<>> /\ Front(a.path) # <<>>
  <2> DEFINE p == a.path
             q == SubSeq(p, 1, Len(p) - 1)
  <2>1. p \in Seq(STRING) /\ Len(p) > 1 /\ Front(p) = q
    BY <1>1 DEF Front
  <2>2. Len(p) \in Nat /\ Len(q) = Len(p) - 1
    <3> HIDE DEF p
    <3> QED
      BY <2>1, LenProperties, SubSeqProperties
  <2> HIDE DEF p, q
  <2>3. Len(p) # 0 /\ Len(q) # 0
    <3>1. \A n \in Nat : n > 1 => n # 0 /\ n - 1 # 0
      OBVIOUS
    <3> QED
      BY <2>1, <2>2, <3>1, Zenon
  <2>4. Len(<<>>) = 0
    OBVIOUS
  <2>5. p # <<>> /\ q # <<>>
    BY <2>3, <2>4
  <2> QED
    BY <2>1, <2>5 DEF p
<1>3. DirOf(a) = [abs |-> TRUE, path |-> Front(a.path)]
  BY <1>2 DEF DirOf, Args
<1>4. CASE r.path = Front(a.path)
  <2>1. r = DirOf(a)
    BY <1>3, <1>4 DEF Args
  <2> QED
    BY <2>1 DEF Covers
<1>5. CASE r.path # Front(a.path)
  <2>1. IsStrictPrefix(Front(a.path), r.path)
    BY <1>5 DEF IsStrictPrefix
  <2> QED
    BY <1>2, <1>3, <2>1 DEF Covers
<1> QED
  BY <1>4, <1>5

LEMMA DropStep == Typed /\ [Next]_vars => [Dropped]_vars
<1> SUFFICES ASSUME Typed, [Next]_vars, NEW c \in Conns, At(c, "invalidate"),
                    pc'[c] = "enrich", cmd[c].arg.abs, Len(cmd[c].arg.path) > 1,
                    NEW key \in DOMAIN rules'[home[c]], rules'[home[c]][key].arg.abs,
                    IsPrefix(Front(cmd[c].arg.path), rules'[home[c]][key].arg.path)
             PROVE  FALSE
  BY DEF Dropped
<1>1. pc[c] = "invalidate" /\ home[c] \in Worlds /\ cmd[c].arg \in Args
  BY CommandShapes DEF At, Typed, TypeOK, AtWork, Keys
<1>2. InvalidateDir(c)
  <2>1. ~ Crash
    BY CrashEmpties
  <2>2. ASSUME NEW d \in Conns, ConnStep(d)
        PROVE  d = c
    BY <1>1, <2>2
    DEF ConnStep, Type, Echo, Cd, Chdir, Sudo, Python, Answered, Declined, Lookup, AskLLM,
        InvalidateDir, PlantNotes, BlankNotes, Contradict, PlantClue, Finish, Login, Logout,
        Rest, Goto, At, Typed, TypeOK, conn
  <2>3. ConnStep(c) => InvalidateDir(c)
    BY <1>1
    DEF ConnStep, Type, Echo, Cd, Chdir, Sudo, Python, Answered, Declined, Lookup, AskLLM,
        Looking, PlantNotes, BlankNotes, Contradict, PlantClue, Finish, Login, Logout, At
  <2>4. ~ ((\E j \in Workers : JobStep(j)) \/ Switch \/ UNCHANGED vars)
    BY <1>1 DEF JobStep, Answer, GiveUp, Store, InjectCatOutput, InjectLsOutput, Switch,
       vars, conn
  <2> QED
    BY <2>1, <2>2, <2>3, <2>4 DEF Next
<1> DEFINE w == home[c]
           keep == {x \in DOMAIN rules[w] : ~ Covers(DirOf(cmd[c].arg), rules[w][x].arg)}
<1>3. rules'[w] = [x \in keep |-> rules[w][x]]
  <2>1. rules' = [rules EXCEPT ![w] = [x \in keep |-> rules[w][x]]]
    BY <1>2 DEF InvalidateDir
  <2> HIDE DEF keep, w
  <2> QED
    BY <1>1, <2>1 DEF Typed, AtWork, w
<1>4. key \in keep /\ rules'[w][key] = rules[w][key]
  BY <1>3
<1>5. rules[w][key].arg \in Args
  BY <1>1, <1>4 DEF Typed, TypeOK
<1> QED
  BY <1>1, <1>4, <1>5, CoversBelow

(* Once a write by an absolute path is through, no rule that names something in
   its directory by an absolute path is left, whatever else is going on. *)
THEOREM RulesDropped == Spec => AbsoluteRulesDropped
<1>1. AbsoluteRulesDropped <=> [][Dropped]_vars
  BY DEF AbsoluteRulesDropped, Dropped
<1> QED
  BY <1>1, DropStep, AlwaysTyped, PTL DEF Spec
=============================================================================
