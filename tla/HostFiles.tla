------------------------------ MODULE HostFiles ------------------------------
(***************************************************************************)
(* The file systems of one session's hosts and the answers the LLM writes  *)
(* into them.                                                              *)
(*                                                                         *)
(* A command is answered by the shell from the files of its host.  What    *)
(* the shell declines is looked up among the host's rules (the answers the *)
(* LLM gave before); if there is none, a goroutine asks the LLM and, up to *)
(* eight seconds later, stores the answer as a rule and writes it into the *)
(* files.  Commands that write drop the rules of the directory they wrote  *)
(* to.  Neither the files nor the session's directory have a lock.         *)
(*                                                                         *)
(* A path is the sequence of its names.  An argument is a path, absolute   *)
(* or relative to the session's directory.  A world is one WorldState: the *)
(* entry host's (0) or the one a login made.                               *)
(***************************************************************************)
EXTENDS Naturals, Sequences, FiniteSets, SequencesExt

CONSTANTS
    Conns,      \* connections of the session
    Workers,    \* bound: goroutines that ask the LLM at a time
    Commands,   \* what is typed: records [op, arg]
    Paths,      \* the paths of the instance
    Dirs,       \* bound: the directories the attacker goes to
    WebHome,    \* /opt/webapp, the home of the entry account
    RootHome,   \* /root
    Seeded,     \* paths of files on the entry host
    HostSeeded, \* paths of files on the other hosts
    SeededDirs, \* directories of every host
    Protected,  \* isProtectedFile
    Held,       \* files that getProtectedFileContent has the content of
    Hidden,     \* names that begin with a dot
    DirNames,   \* isLikelyDir
    Notes,      \* DEPLOY_NOTES.md
    SysLog,     \* /var/log/syslog
    ClueFile,   \* the file of the expansion theme
    Answers,    \* what the LLM may say
    Export,     \* allowLLMContextExport
    NoCmd, NoJob,
    MaxLogins,  \* bound: logins to other hosts
    MaxTyped    \* bound: commands typed

ASSUME PathShapes ==
    /\ Paths \subseteq Seq(STRING)
    /\ SeededDirs \subseteq Paths /\ Seeded \cup HostSeeded \subseteq Paths \ SeededDirs
    /\ Dirs \subseteq Paths /\ {WebHome, RootHome} \subseteq Dirs
    /\ {Notes, SysLog, ClueFile} \subseteq Paths
ASSUME BoundsNat == MaxLogins \in Nat /\ MaxTyped \in Nat /\ Export \in BOOLEAN

None == [kind |-> "none", text |-> "none"]
Dir  == [kind |-> "dir", text |-> "empty"]
File(t) == [kind |-> "file", text |-> t]

Texts   == Answers \cup {"empty", "seed", "mine", "clue"}
Entries == {None} \cup [kind : {"dir", "file"}, text : Texts]
Args    == [abs : BOOLEAN, path : Paths]
Ops     == {"cat", "ls", "look", "env", "stat", "scan", "write", "deny",
            "cd", "chdir", "sudo", "python", "quit"}
Keys    == [op : Ops, arg : Args]
Worlds  == 0..MaxLogins

ASSUME CommandShapes ==
    /\ Commands \subseteq Keys
    /\ NoCmd \notin Commands
    /\ \A k \in Commands, d \in Dirs : ~ k.arg.abs => d \o k.arg.path \in Paths

VARIABLES
    files,      \* WorldState.files
    rules,      \* DynamicRuleCache.rules
    logins,     \* how many worlds were made for other hosts
    world, cwd, user, stack,    \* World, CWD, User and SSHStack of the session
    mode,       \* ShellMode
    active,     \* LLM.IsActive()
    pc, cmd, home,  \* stage, command and world of each connection
    jobs,       \* the goroutines asking the LLM
    typed       \* how many commands were typed

session == <<world, cwd, user, stack, mode>>
store   == <<files, rules, logins>>
conn    == <<pc, cmd, home>>
vars    == <<store, session, active, conn, jobs, typed>>

-----------------------------------------------------------------------------
\* Paths and arguments

\* The absolute path that a handler makes of its argument.
Resolve(dir, a) == IF a.abs THEN a.path ELSE dir \o a.path

\* path.Dir of the argument as it was typed: "." for a bare name.
DirOf(a) == [abs |-> a.abs, path |-> IF a.path = <<>> THEN <<>> ELSE Front(a.path)]

\* Paths of the entries of a directory.
Below(dir) == {p \in Paths \ {<<>>} : Front(p) = dir}
ListFiles(w, dir) == {p \in Below(dir) : files[w][p] # None}

\* The key of a rule: ls and cat resolve their argument, everything else
\* keeps it as it was typed.
Key(k, dir) ==
    IF k.op \in {"cat", "ls"}
    THEN [op |-> k.op, arg |-> [abs |-> TRUE, path |-> Resolve(dir, k.arg)]]
    ELSE k

CatOf(p) == [op |-> "cat", arg |-> [abs |-> TRUE, path |-> p]]

\* A mutated form of the next: equal directories only.
CoversEqual(dir, a) == a = dir

\* A rule keeps the argument as typed, and InvalidateDir compares with that:
\* equal, or below dir + "/", which "/" and "." have nothing below.
Covers(dir, a) ==
    \/ a = dir
    \/ a.abs = dir.abs /\ dir.path # <<>> /\ IsStrictPrefix(dir.path, a.path)

IsNested == stack # <<>>
At(c, label) == pc[c] = label
Goto(c, label) == pc' = [pc EXCEPT ![c] = label]
Rest(c) ==
    /\ Goto(c, "idle")
    /\ cmd' = [cmd EXCEPT ![c] = NoCmd]
    /\ home' = [home EXCEPT ![c] = 0]
Kept == UNCHANGED <<store, session, active, jobs, typed>>

Put(w, p, e) == files' = [files EXCEPT ![w][p] = e]

-----------------------------------------------------------------------------
\* Goroutines: what they want the LLM for, and whether that is contended.
\* raced is auxiliary: somebody else wants the same, the file that is asked for
\* has been there or has been put meanwhile, or the session has changed its
\* directory since.

Running(w, key) == {j \in Workers : /\ jobs[j] # NoJob
                                    /\ jobs[j].world = w
                                    /\ Key(jobs[j].cmd, jobs[j].dir) = key}

Marked(w, key) ==
    [j \in Workers |-> IF j \in Running(w, key) THEN [jobs[j] EXCEPT !.raced = TRUE] ELSE jobs[j]]

Contended(w, key) ==
    \/ Running(w, key) # {}
    \/ key.op = "cat" /\ files[w][key.arg.path] # None

-----------------------------------------------------------------------------
\* The shell

Type(c, k) ==
    /\ At(c, "idle") /\ typed < MaxTyped
    /\ typed' = typed + 1
    /\ cmd' = [cmd EXCEPT ![c] = k]
    /\ home' = [home EXCEPT ![c] = world]
    /\ Goto(c, "engine")
    /\ UNCHANGED <<store, session, active, jobs>>

InREPL == mode = "python"
Complex(k) == k.op \in {"scan", "python"} /\ active

\* cat: what is protected is denied or comes from a table; what is there is
\* shown; the rest is declined.
CatDeclines(w, p) ==
    /\ ~ (p \in Protected /\ (user # "root" \/ p \in Held))
    /\ files[w][p] = None

\* ls: declined unless it has something to show, or hides everything.
LsDeclines(w, dir) ==
    /\ \A p \in ListFiles(w, dir) : Last(p) \in Hidden
    /\ ~ (files[w][dir].kind = "dir" /\ ListFiles(w, dir) # {})

\* Commands of which the shell knows an output only for the entry host, and
\* commands it does not know.
HostBound == {"env", "sudo", "quit"}
Unknown   == {"stat", "chdir"}

Declines(c) ==
    LET k == cmd[c] p == Resolve(cwd, k.arg) IN
    \/ k.op = "cat" /\ CatDeclines(home[c], p)
    \/ k.op = "ls" /\ LsDeclines(home[c], p)
    \/ k.op \in HostBound /\ IsNested
    \/ k.op \in Unknown

\* echo x > path: the entry is replaced, also by >>, also if it is a directory.
Echo(c) ==
    LET w == home[c] p == Resolve(cwd, cmd[c].arg) IN
    /\ At(c, "engine") /\ cmd[c].op = "write"
    /\ Put(w, p, File("mine"))
    /\ jobs' = Marked(w, CatOf(p))
    /\ Goto(c, "invalidate")
    /\ UNCHANGED <<rules, logins, session, active, cmd, home, typed>>

\* cd: home, or an existing directory.
Cd(c) ==
    LET p == Resolve(cwd, cmd[c].arg) IN
    /\ At(c, "engine") /\ cmd[c].op = "cd"
    /\ \/ cwd' = IF user = "root" THEN RootHome ELSE WebHome
       \/ cwd' = IF files[home[c]][p].kind = "dir" /\ p \in Dirs THEN p ELSE cwd
    /\ Goto(c, "enrich")
    /\ UNCHANGED <<store, world, user, stack, mode, active, cmd, home, jobs, typed>>

\* os.chdir in the Python client does not look whether the directory is there.
Chdir(c) ==
    LET p == Resolve(cwd, cmd[c].arg) IN
    /\ At(c, "engine") /\ cmd[c].op = "chdir" /\ InREPL
    /\ p \in Dirs
    /\ cwd' = p
    /\ Goto(c, "enrich")
    /\ UNCHANGED <<store, world, user, stack, mode, active, cmd, home, jobs, typed>>

\* sudo find -exec sh makes the account root, on the entry host.
Sudo(c) ==
    /\ At(c, "engine") /\ cmd[c].op = "sudo" /\ ~ IsNested
    /\ user' = "root"
    /\ Goto(c, "enrich")
    /\ UNCHANGED <<store, world, cwd, stack, mode, active, cmd, home, jobs, typed>>

\* python3 opens the client when no LLM answers it, quit closes it.
Python(c) ==
    /\ At(c, "engine") /\ ~ Complex(cmd[c])
    /\ \/ cmd[c].op = "python" /\ ~ InREPL /\ mode' = "python"
       \/ cmd[c].op = "quit" /\ InREPL /\ mode' = "bash"
    /\ Goto(c, "enrich")
    /\ UNCHANGED <<store, world, cwd, user, stack, active, cmd, home, jobs, typed>>

\* Everything that is answered without changing anything: by the shell, in the
\* client by the interpreter, or from the session's cached responses.
Effective(k) ==
    \/ k.op \in {"write", "cd"}
    \/ k.op = "sudo" /\ ~ IsNested
    \/ k.op \in {"chdir", "quit"} /\ InREPL
    \/ k.op = "python" /\ ~ InREPL

Answered(c) ==
    /\ At(c, "engine") /\ ~ Effective(cmd[c])
    /\ ~ Complex(cmd[c])
    /\ InREPL \/ ~ Declines(c) \/ cmd[c].op \in {"cat", "ls"}
    /\ Goto(c, IF cmd[c].op = "deny" THEN "invalidate" ELSE "enrich")
    /\ UNCHANGED <<cmd, home>> /\ Kept

Declined(c) ==
    /\ At(c, "engine") /\ ~ InREPL /\ Declines(c)
    /\ Goto(c, "lookup")
    /\ UNCHANGED <<cmd, home>> /\ Kept

-----------------------------------------------------------------------------
\* Rules and the goroutines that fill them

Looking(c) == At(c, "lookup") \/ (At(c, "engine") /\ Complex(cmd[c]))
HasRule(c) == Key(cmd[c], cwd) \in DOMAIN rules[home[c]]

\* There is a rule, or nobody to ask.
Lookup(c) ==
    /\ Looking(c)
    /\ HasRule(c) \/ ~ active \/ ~ Export
    /\ Goto(c, "enrich")
    /\ UNCHANGED <<cmd, home>> /\ Kept

\* A goroutine asks, the terminal does not wait.
Launch(c, key) ==
    \E j \in Workers :
        /\ jobs[j] = NoJob
        /\ jobs' = [Marked(home[c], key) EXCEPT ![j] =
                      [cmd |-> cmd[c], world |-> home[c], dir |-> cwd, pc |-> "ask",
                       out |-> "none", raced |-> Contended(home[c], key)]]

\* A mutated form of the next: a rule does not spare the LLM.
AskLLMAgain(c) ==
    /\ Looking(c)
    /\ active /\ Export
    /\ Launch(c, Key(cmd[c], cwd))
    /\ Goto(c, "enrich")
    /\ UNCHANGED <<store, session, active, cmd, home, typed>>

AskLLM(c) ==
    /\ Looking(c)
    /\ ~ HasRule(c) /\ active /\ Export
    /\ Launch(c, Key(cmd[c], cwd))
    /\ Goto(c, "enrich")
    /\ UNCHANGED <<store, session, active, cmd, home, typed>>

\* The directory of a write, as typed, loses its rules.
InvalidateDir(c) ==
    LET w == home[c]
        keep == {key \in DOMAIN rules[w] : ~ Covers(DirOf(cmd[c].arg), rules[w][key].arg)} IN
    /\ At(c, "invalidate")
    /\ rules' = [rules EXCEPT ![w] = [key \in keep |-> rules[w][key]]]
    /\ Goto(c, "enrich")
    /\ UNCHANGED <<files, logins, session, active, cmd, home, jobs, typed>>

\* The answer is there.  It belongs to the directory the session is in now,
\* which need not be the one the command was typed in.
Answer(j) ==
    \E a \in Answers :
        LET now   == Key(jobs[j].cmd, cwd)
            moved == now # Key(jobs[j].cmd, jobs[j].dir)
            others == IF moved THEN Marked(jobs[j].world, now) ELSE jobs IN
        /\ jobs[j] # NoJob /\ jobs[j].pc = "ask"
        /\ jobs' = [others EXCEPT ![j] =
                      [jobs[j] EXCEPT !.pc = "store", !.dir = cwd, !.out = a,
                                      !.raced = @ \/ moved]]
        /\ UNCHANGED <<store, session, active, conn, typed>>

\* Timeout, empty answer, or blocked by a guard.
GiveUp(j) ==
    /\ jobs[j] # NoJob /\ jobs[j].pc = "ask"
    /\ jobs' = [jobs EXCEPT ![j] = NoJob]
    /\ UNCHANGED <<store, session, active, conn, typed>>

\* A mutated form of Store: the content is only kept as a rule.
StoreOnly(j) ==
    LET job == jobs[j] key == Key(job.cmd, job.dir) IN
    /\ jobs[j] # NoJob /\ job.pc = "store"
    /\ rules' = [rules EXCEPT ![job.world] =
                    [x \in DOMAIN @ \cup {key} |->
                        IF x = key THEN [arg |-> job.cmd.arg, out |-> job.out] ELSE @[x]]]
    /\ jobs' = [jobs EXCEPT ![j] = NoJob]
    /\ UNCHANGED <<files, logins, session, active, conn, typed>>

\* storeAndInject, its first half: the rule.
Store(j) ==
    LET job == jobs[j] key == Key(job.cmd, job.dir) IN
    /\ jobs[j] # NoJob /\ job.pc = "store"
    /\ rules' = [rules EXCEPT ![job.world] =
                    [x \in DOMAIN @ \cup {key} |->
                        IF x = key THEN [arg |-> job.cmd.arg, out |-> job.out] ELSE @[x]]]
    /\ jobs' = [jobs EXCEPT ![j] = IF job.cmd.op \in {"cat", "ls"}
                                   THEN [job EXCEPT !.pc = "inject"] ELSE NoJob]
    /\ UNCHANGED <<files, logins, session, active, conn, typed>>

Injecting(j, op) == jobs[j] # NoJob /\ jobs[j].pc = "inject" /\ jobs[j].cmd.op = op

\* InjectCatOutput: new content for an entry, whatever it is; a new file else.
InjectCatOutput(j) ==
    LET w == jobs[j].world p == Resolve(jobs[j].dir, jobs[j].cmd.arg) IN
    /\ Injecting(j, "cat")
    /\ Put(w, p, IF files[w][p] = None THEN File(jobs[j].out)
                 ELSE [files[w][p] EXCEPT !.text = jobs[j].out])
    /\ jobs' = [jobs EXCEPT ![j] = NoJob]
    /\ UNCHANGED <<rules, logins, session, active, conn, typed>>

LikelyEntry(p) == IF Last(p) \in DirNames THEN Dir ELSE File("empty")

\* A mutated form of the next: the listing replaces what is there.
ListedOver(w, dir, names) ==
    [p \in Paths |-> IF p \in names THEN LikelyEntry(p)
                     ELSE IF p = dir /\ files[w][p] = None THEN Dir ELSE files[w][p]]

\* InjectLsOutput: the directory and the listed names that are not there yet.
Listed(w, dir, names) ==
    [p \in Paths |-> IF files[w][p] # None THEN files[w][p]
                     ELSE IF p = dir THEN Dir
                     ELSE IF p \in names THEN LikelyEntry(p) ELSE None]

InjectLsOutput(j) ==
    LET w == jobs[j].world dir == Resolve(jobs[j].dir, jobs[j].cmd.arg) IN
    /\ Injecting(j, "ls")
    /\ \E names \in SUBSET Below(dir) :
           files' = [files EXCEPT ![w] = Listed(w, dir, names)]
    /\ jobs' = [jobs EXCEPT ![j] = NoJob]
    /\ UNCHANGED <<rules, logins, session, active, conn, typed>>

-----------------------------------------------------------------------------
\* Clues, logins, the operator, the process

\* The end of a command, when nothing (more) is planted.
Finish(c) ==
    /\ At(c, "enrich")
    /\ Rest(c)
    /\ UNCHANGED <<store, session, active, jobs, typed>>

\* injectFrustrationClue: notes where there are none ...
PlantNotes(c) ==
    /\ At(c, "enrich") /\ files[home[c]][Notes] = None
    /\ Put(home[c], Notes, File("clue"))
    /\ Goto(c, "blank")
    /\ UNCHANGED <<rules, logins, session, active, cmd, home, jobs, typed>>

\* ... which its second AddFile then empties.
BlankNotes(c) ==
    /\ At(c, "blank")
    /\ Put(home[c], Notes, File("empty"))
    /\ Goto(c, "enrich")
    /\ UNCHANGED <<rules, logins, session, active, cmd, home, jobs, typed>>

\* injectContradictoryClue: in front of the log's content, once.
Contradict(c) ==
    LET old == files[home[c]][SysLog] IN
    /\ At(c, "enrich") /\ old.text # "clue"
    /\ Put(home[c], SysLog, IF old = None THEN File("clue") ELSE [old EXCEPT !.text = "clue"])
    /\ UNCHANGED <<rules, logins, session, active, conn, jobs, typed>>

\* injectClueFiles, or an agent's patch: a file is put, whatever was there.
PlantClue(c) ==
    /\ At(c, "enrich")
    /\ Put(home[c], ClueFile, File("clue"))
    /\ UNCHANGED <<rules, logins, session, active, conn, jobs, typed>>

\* The files of a host: directories, the entry host's files, another's clues.
Seeds(w) == IF w = 0 THEN Seeded ELSE HostSeeded
HostWorld(w) ==
    [p \in Paths |-> IF p \in SeededDirs THEN Dir
                     ELSE IF p \in Seeds(w) THEN File("seed") ELSE None]

\* A login makes a new file system, also for a host one was on before.
Login(c) ==
    /\ At(c, "idle") /\ logins < MaxLogins /\ typed < MaxTyped
    /\ typed' = typed + 1
    /\ logins' = logins + 1
    /\ stack' = Append(stack, [world |-> world, cwd |-> cwd, user |-> user])
    /\ world' = logins + 1
    /\ cwd' = RootHome
    /\ user' = "root"
    /\ UNCHANGED <<files, rules, mode, active, conn, jobs>>

Logout(c) ==
    /\ At(c, "idle") /\ IsNested /\ typed < MaxTyped
    /\ typed' = typed + 1
    /\ LET top == stack[Len(stack)] IN
        world' = top.world /\ cwd' = top.cwd /\ user' = top.user
    /\ stack' = SubSeq(stack, 1, Len(stack) - 1)
    /\ UNCHANGED <<store, mode, active, conn, jobs>>

\* The operator switches the LLM off and on.
Switch ==
    /\ active' = ~ active
    /\ UNCHANGED <<store, session, conn, jobs, typed>>

Fresh ==
    [files |-> [w \in Worlds |-> HostWorld(w)],
     rules |-> [w \in Worlds |-> <<>>],
     pc    |-> [c \in Conns |-> "idle"],
     cmd   |-> [c \in Conns |-> NoCmd],
     home  |-> [c \in Conns |-> 0],
     jobs  |-> [j \in Workers |-> NoJob]]

Init ==
    /\ files = Fresh.files /\ rules = Fresh.rules /\ logins = 0
    /\ world = 0 /\ cwd = WebHome /\ user = "web" /\ stack = <<>> /\ mode = "bash"
    /\ active \in BOOLEAN
    /\ pc = Fresh.pc /\ cmd = Fresh.cmd /\ home = Fresh.home
    /\ jobs = Fresh.jobs
    /\ typed = 0

\* Two goroutines in the same unlocked map, one of them writing: Go ends the
\* process, and with it everything that was simulated.
Touching(w) == {c \in Conns : pc[c] \in {"engine", "enrich", "blank"} /\ home[c] = w}
Writing(w)  == {j \in Workers : jobs[j] # NoJob /\ jobs[j].pc = "inject" /\ jobs[j].world = w}

Crash ==
    /\ \E w \in Worlds : /\ Writing(w) # {}
                         /\ Touching(w) # {} \/ \E i, j \in Writing(w) : i # j
    /\ files' = Fresh.files /\ rules' = Fresh.rules /\ logins' = 0
    /\ world' = 0 /\ cwd' = WebHome /\ user' = "web" /\ stack' = <<>> /\ mode' = "bash"
    /\ pc' = Fresh.pc /\ cmd' = Fresh.cmd /\ home' = Fresh.home
    /\ jobs' = Fresh.jobs
    /\ UNCHANGED <<active, typed>>

ConnStep(c) ==
    \/ \E k \in Commands : Type(c, k)
    \/ Echo(c) \/ Cd(c) \/ Chdir(c) \/ Sudo(c) \/ Python(c)
    \/ Answered(c) \/ Declined(c)
    \/ Lookup(c) \/ AskLLM(c) \/ InvalidateDir(c)
    \/ PlantNotes(c) \/ BlankNotes(c) \/ Contradict(c) \/ PlantClue(c) \/ Finish(c)
    \/ Login(c) \/ Logout(c)

JobStep(j) ==
    \/ Answer(j) \/ GiveUp(j) \/ Store(j) \/ InjectCatOutput(j) \/ InjectLsOutput(j)

Next ==
    \/ \E c \in Conns : ConnStep(c)
    \/ \E j \in Workers : JobStep(j)
    \/ Switch
    \/ Crash

Spec == Init /\ [][Next]_vars

-----------------------------------------------------------------------------
(***************************************************************************)
(* Properties                                                              *)
(***************************************************************************)

\* A goroutine of llmFallback or handleComplexViaLLM, and how far it is.
Jobs == [cmd : Commands, world : Worlds, dir : Dirs, pc : {"ask"},
         out : {"none"}, raced : BOOLEAN]
   \cup [cmd : Commands, world : Worlds, dir : Dirs, pc : {"store", "inject"},
         out : Answers, raced : BOOLEAN]

ASSUME NoJobIsNoJob == NoJob \notin Jobs

\* Every variable has its type (the state of WorldState, DynamicRuleCache, the
\* session's shell and the goroutines).
TypeOK ==
    /\ files \in [Worlds -> [Paths -> Entries]]
    /\ \A w \in Worlds : \A key \in DOMAIN rules[w] :
           /\ key \in Keys
           /\ rules[w][key] \in [arg : Args, out : Answers]
    /\ logins \in Worlds /\ world \in Worlds /\ cwd \in Dirs /\ user \in {"web", "root"}
    /\ stack \in Seq([world : Worlds, cwd : Dirs, user : {"web", "root"}])
    /\ mode \in {"bash", "python"} /\ active \in BOOLEAN
    /\ pc \in [Conns -> {"idle", "engine", "lookup", "invalidate", "enrich", "blank"}]
    /\ cmd \in [Conns -> Commands \cup {NoCmd}] /\ home \in [Conns -> Worlds]
    /\ jobs \in [Workers -> Jobs \cup {NoJob}]
    /\ typed \in Nat

\* Commands on the same path agree (storeAndInject): once the LLM has told the
\* content of a file, the file is there for ls, find and grep as well, or
\* InjectCatOutput is about to put it there.
RulesHaveFiles ==
    \A w \in Worlds, p \in Paths :
        CatOf(p) \in DOMAIN rules[w] =>
            \/ files[w][p] # None
            \/ \E j \in Running(w, CatOf(p)) : jobs[j].pc = "inject"

\* What TLC checks as one invariant.
Inv == TypeOK /\ RulesHaveFiles

\* What the attacker wrote to a file stays in it until a clue is put there
\* (injectClueFiles, injectFrustrationClue) or the process ends: no answer of
\* the LLM replaces it (InjectCatOutput, InjectLsOutput), except one that was
\* asked for before the write, or that lands in another directory than it was
\* asked for in.
WritesKept ==
    [][\A w \in Worlds, p \in Paths :
          files[w][p] = File("mine") /\ files'[w][p] # File("mine") =>
              \/ \E c \in Conns : pc[c] \in {"enrich", "blank"} /\ p \in {Notes, SysLog, ClueFile}
              \/ \E j \in Workers : Injecting(j, "cat") /\ jobs[j].raced
              \/ Crash]_vars

\* A repeated command gets the answer it got (DynamicRuleCache): a rule is
\* replaced by a different one only if two goroutines contended for it, or the
\* session had changed its directory.
RepliesStable ==
    [][\A w \in Worlds : \A key \in DOMAIN rules[w] \cap DOMAIN rules'[w] :
          rules'[w][key].out # rules[w][key].out =>
              \E j \in Running(w, key) : jobs[j].pc = "store" /\ jobs[j].raced]_vars

\* A directory becomes a file only by the attacker's redirection or a clue:
\* no listing or content that the LLM made up turns it into one
\* (InjectLsOutput, InjectCatOutput).
DirsKept ==
    [][\A w \in Worlds, p \in Paths \ {ClueFile} :
          files[w][p].kind = "dir" /\ files'[w][p].kind = "file" =>
              \E c \in Conns : At(c, "engine") /\ cmd[c].op = "write" /\ home[c] = w]_vars

\* No answer of the LLM takes the place of a file of the attacker or of a
\* directory (the file map of WorldState).
FilesKept == WritesKept /\ DirsKept

\* Once a write by an absolute path is through, no rule of a command that named
\* something in the same directory by an absolute path is left (InvalidateDir);
\* the directory "/" is not covered.
AbsoluteRulesDropped ==
    [][\A c \in Conns :
          LET p == cmd[c].arg.path IN
          At(c, "invalidate") /\ pc'[c] = "enrich" /\ cmd[c].arg.abs /\ Len(p) > 1 =>
              \A key \in DOMAIN rules'[home[c]] :
                  LET r == rules'[home[c]][key] IN
                  r.arg.abs => ~ IsPrefix(Front(p), r.arg.path)]_vars
=============================================================================
