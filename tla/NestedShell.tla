----------------------------- MODULE NestedShell -----------------------------
(***************************************************************************)
(* The shell of one session: the stack of hosts logged in to, the file     *)
(* system in use, the pending password prompt and the interactive mode,    *)
(* shared by the interactive shells, one-shot commands and simulation      *)
(* requests that GetOrCreateSession and the API lead to the session.       *)
(*                                                                         *)
(* A world is named after the host it belongs to.  A step is what happens  *)
(* between two points where the code holds no lock and has just read or    *)
(* written a field of the session.  ClearPending, Guess and the like write *)
(* several fields without a lock; they are single steps here.              *)
(***************************************************************************)
EXTENDS Naturals, Sequences, FiniteSets

CONSTANTS
    Conns,      \* connections and requests of this session
    Hosts,      \* hosts with an SSH service that the session can reach; the
                \* entry host may be one of them
    Guarded,    \* those with no ExpectedPassword, whose prompt denies everything
    Entry,      \* the entry host
    Prompts,    \* PendingSSH objects
    NoPrompt,   \* PendingSSHAuth = nil
    NoHost,     \* CurrentTarget = ""
    MaxTries,   \* MaxAttempt of a prompt
    LLMActive,  \* an LLM is configured: complex commands bypass the modes
    MaxDepth    \* bound: how deep ssh is run

ASSUME HostNames    == NoHost \notin Hosts \cup {Entry}
ASSUME GuardedHosts == Guarded \subseteq Hosts
ASSUME NoPromptApart == NoPrompt \notin Prompts
ASSUME TriesPositive == MaxTries \in Nat \ {0}
ASSUME DepthNat      == MaxDepth \in Nat
ASSUME LLMIsFlag     == LLMActive \in BOOLEAN

AllHosts == Hosts \cup {Entry}
Modes == {"bash", "python", "mysql", "redis"}
Kinds == {"shell", "exec", "sim"}

VARIABLES
    at,         \* SubnetLocalIP (with Hostname, User and CWD): the current host
    world,      \* World: whose file system is in use
    stack,      \* SSHStack, without the host in use
    target,     \* CurrentTarget
    pending,    \* PendingSSHAuth
    prompts,    \* the PendingSSH objects
    suppress,   \* SuppressShellPrompt
    mode,       \* ShellMode
    pc,         \* what each connection is doing
    kind,       \* whether it is a shell, a one-shot command or a simulated request
    held,       \* the prompt its command has read
    saved,      \* the world ExitRemoteHost returned to it
    told,       \* whether its terminal was last shown "password:"
    knows       \* the host whose password it is about to send by itself

shell == <<at, world, stack, target>>
auth  == <<pending, prompts, suppress>>
conn  == <<pc, kind, held, saved, told, knows>>
vars  == <<shell, auth, mode, conn>>

\* Connection c is at label and the rest of its record stays.
Goto(c, label) ==
    /\ pc' = [pc EXCEPT ![c] = label]
    /\ UNCHANGED <<kind, held, saved, told, knows>>

\* A command of c has run: a shell is back at its prompt, a request is to return.
Return(c, asks) ==
    /\ pc' = [pc EXCEPT ![c] = IF kind[c] = "shell" THEN "ready" ELSE "returned"]
    /\ held' = [held EXCEPT ![c] = NoPrompt]
    /\ told' = [told EXCEPT ![c] = asks]
    /\ UNCHANGED <<kind, saved, knows>>

Leave(c) ==
    /\ pc' = [pc EXCEPT ![c] = "away"]
    /\ told' = [told EXCEPT ![c] = FALSE]
    /\ knows' = [knows EXCEPT ![c] = NoHost]
    /\ kind' = [kind EXCEPT ![c] = "shell"]
    /\ UNCHANGED <<held, saved>>

\* ClearPendingSSHAuth
ClearPending == pending' = NoPrompt /\ suppress' = FALSE /\ UNCHANGED prompts

-----------------------------------------------------------------------------
(* Connections *)

\* ResetToEntryHost does nothing at all when no host is stacked.
ResetToEntryHost ==
    IF stack = <<>>
    THEN UNCHANGED <<shell, suppress>>
    ELSE /\ at' = stack[1].host
         /\ world' = stack[1].world
         /\ stack' = <<>>
         /\ target' = NoHost
         /\ suppress' = FALSE

Connect(c, k) ==
    /\ pc[c] = "away"
    /\ pc' = [pc EXCEPT ![c] = IF k = "exec" THEN "clearing" ELSE "ready"]
    /\ kind' = [kind EXCEPT ![c] = k]
    /\ IF k = "sim" THEN UNCHANGED <<shell, suppress>> ELSE ResetToEntryHost
    /\ UNCHANGED <<pending, prompts, mode, held, saved, told, knows>>

\* ExecuteNonInteractiveCommand drops a prompt that was left behind.
DropPrompt(c) ==
    /\ pc[c] = "clearing"
    /\ IF pending # NoPrompt THEN ClearPending ELSE UNCHANGED auth
    /\ Goto(c, "ready")
    /\ UNCHANGED <<shell, mode>>

\* The terminal is closed, or "exit" is typed with no host stacked.
HangUp(c) ==
    /\ pc[c] = "ready" /\ kind[c] = "shell"
    /\ Leave(c)
    /\ UNCHANGED <<shell, auth, mode>>

\* Bug: any input is taken for an answer.
TypeAnswer(c) ==
    /\ pc[c] = "ready"
    /\ pc' = [pc EXCEPT ![c] = "asked"]
    /\ held' = [held EXCEPT ![c] = pending]
    /\ UNCHANGED <<shell, auth, mode, kind, saved, told, knows>>

\* The beginning of ExecuteCommand: is there a prompt to answer?
Type(c) ==
    /\ pc[c] = "ready"
    /\ pc' = [pc EXCEPT ![c] = IF pending # NoPrompt THEN "asked" ELSE "running"]
    /\ held' = [held EXCEPT ![c] = pending]
    /\ UNCHANGED <<shell, auth, mode, kind, saved, told, knows>>

Answerable(p) == ~prompts[p].self /\ prompts[p].host \notin Guarded

\* After its command a one-shot connection drops the prompt the command left.
FinishExec(c) ==
    /\ pc[c] = "returned" /\ kind[c] = "exec"
    /\ IF pending # NoPrompt THEN ClearPending ELSE UNCHANGED auth
    /\ Leave(c)
    /\ UNCHANGED <<shell, mode>>

\* A simulated ssh answers the prompt itself if its password is known.
ResolveAutoSSH(c) ==
    /\ pc[c] = "returned" /\ kind[c] = "sim" /\ knows[c] = NoHost
    /\ pending # NoPrompt /\ Answerable(pending)
    /\ pc' = [pc EXCEPT ![c] = "ready"]
    /\ knows' = [knows EXCEPT ![c] = prompts[pending].host]
    /\ UNCHANGED <<shell, auth, mode, kind, held, saved, told>>

FinishSim(c) ==
    /\ pc[c] = "returned" /\ kind[c] = "sim"
    /\ Leave(c)
    /\ UNCHANGED <<shell, auth, mode>>

-----------------------------------------------------------------------------
(* Commands *)

Dispatched(c) == pc[c] = "running" /\ (mode = "bash" \/ LLMActive)

\* HandleSSHCommand, for a host that it lets be reached.
Ssh(c, h) ==
    /\ Dispatched(c)
    /\ h \in Hosts \/ h = at
    /\ Len(stack) < MaxDepth
    /\ \E p \in Prompts :
         /\ p # pending /\ \A d \in Conns : held[d] # p
         /\ pending' = p
         /\ prompts' = [prompts EXCEPT ![p] = [host |-> h, self |-> h = at, tries |-> 0]]
    /\ suppress' = TRUE
    /\ Return(c, TRUE)
    /\ UNCHANGED <<shell, mode>>

\* mysql, python3 and redis-cli without a command start an interactive client.
StartClient(c) ==
    /\ Dispatched(c)
    /\ \/ mode' = "mysql" /\ UNCHANGED target
       \/ mode = "bash" /\ mode' = "python" /\ UNCHANGED target
       \/ mode # "redis" /\ mode' = "redis" /\ target' \in Hosts
    /\ Return(c, FALSE)
    /\ UNCHANGED <<at, world, stack, auth>>

\* "exit" in a client; "logout", "exit" and other input in bash change nothing.
OtherInput(c) ==
    /\ pc[c] = "running"
    /\ mode' \in {mode, "bash"}
    /\ Return(c, FALSE)
    /\ UNCHANGED <<shell, auth>>

-----------------------------------------------------------------------------
(* Passwords *)

Tries(p) == IF prompts[p].self THEN 1 ELSE MaxTries

\* Attempts++ races with that of another connection answering the same prompt.
Counted(c) ==
    LET p == held[c]
        n == prompts[p].tries + 1
    IN IF \E d \in Conns \ {c} : pc[d] = "asked" /\ held[d] = p
       THEN 1..n ELSE {n}

\* Bug: the last wrong password is not the end of the prompt.
WrongWithoutLimit(c) ==
    LET p == held[c] IN
    /\ pc[c] = "asked"
    /\ \E n \in Counted(c) :
         /\ prompts' = [prompts EXCEPT ![p].tries = IF n < MaxTries THEN n ELSE MaxTries]
         /\ suppress' = TRUE
    /\ Return(c, TRUE)
    /\ UNCHANGED <<shell, pending, mode>>

\* A wrong password, any password for a host without one, or one's own host.
Wrong(c) ==
    LET p == held[c] IN
    /\ pc[c] = "asked"
    /\ Answerable(p) => knows[c] # prompts[p].host
    /\ \E n \in Counted(c) :
         /\ prompts' = [prompts EXCEPT ![p].tries = n]
         /\ IF n >= Tries(p) THEN pending' = NoPrompt /\ suppress' = FALSE
                             ELSE suppress' = TRUE /\ UNCHANGED pending
         /\ Return(c, n < Tries(p))
    /\ UNCHANGED <<shell, mode>>

Right(c) ==
    LET p == held[c] IN
    /\ pc[c] = "asked"
    /\ Answerable(p)
    /\ knows[c] \in {NoHost, prompts[p].host}
    /\ \E n \in Counted(c) : prompts' = [prompts EXCEPT ![p].tries = n]
    /\ pending' = NoPrompt
    /\ suppress' = FALSE
    /\ Goto(c, "entering")
    /\ UNCHANGED <<shell, mode>>

\* Bug: the host left is not saved.
EnterUnsaved(c) ==
    LET h == prompts[held[c]].host IN
    /\ pc[c] = "entering"
    /\ at' = h /\ target' = h
    /\ Goto(c, "mounting")
    /\ UNCHANGED <<world, stack, auth, mode>>

Enter(c) ==
    LET h == prompts[held[c]].host IN
    /\ pc[c] = "entering"
    /\ stack' = Append(stack, [host |-> at, world |-> world])
    /\ at' = h
    /\ target' = h
    /\ Goto(c, "mounting")
    /\ UNCHANGED <<world, auth, mode>>

\* session.World = NewWorldStateForHost(hostname), after EnterRemoteHost.
Mount(c) ==
    /\ pc[c] = "mounting"
    /\ world' = prompts[held[c]].host
    /\ Return(c, FALSE)
    /\ UNCHANGED <<at, stack, target, auth, mode>>

-----------------------------------------------------------------------------
(* "exit" in a nested shell, which the connection handles before the manager
   is asked whether a prompt is pending *)

\* Bug: any exit forgets the target.
ExitForgettingTarget(c) ==
    LET n == Len(stack) IN
    /\ pc[c] = "ready" /\ kind[c] = "shell" /\ mode = "bash" /\ n > 0
    /\ at' = stack[n].host
    /\ stack' = SubSeq(stack, 1, n - 1)
    /\ target' = NoHost
    /\ pc' = [pc EXCEPT ![c] = "leaving"]
    /\ saved' = [saved EXCEPT ![c] = stack[n].world]
    /\ UNCHANGED <<world, auth, mode, kind, held, told, knows>>

\* Bug: the world restored is that of the entry host.
ExitToEntryWorld(c) ==
    LET n == Len(stack) IN
    /\ pc[c] = "ready" /\ kind[c] = "shell" /\ mode = "bash" /\ n > 0
    /\ at' = stack[n].host
    /\ stack' = SubSeq(stack, 1, n - 1)
    /\ target' = IF n = 1 THEN NoHost ELSE target
    /\ pc' = [pc EXCEPT ![c] = "leaving"]
    /\ saved' = [saved EXCEPT ![c] = stack[1].world]
    /\ UNCHANGED <<world, auth, mode, kind, held, told, knows>>

ExitRemoteHost(c) ==
    LET n == Len(stack) IN
    /\ pc[c] = "ready" /\ kind[c] = "shell" /\ mode = "bash" /\ n > 0
    /\ at' = stack[n].host
    /\ stack' = SubSeq(stack, 1, n - 1)
    /\ target' = IF n = 1 THEN NoHost ELSE target
    /\ pc' = [pc EXCEPT ![c] = "leaving"]
    /\ saved' = [saved EXCEPT ![c] = stack[n].world]
    /\ UNCHANGED <<world, auth, mode, kind, held, told, knows>>

Restore(c) ==
    /\ pc[c] = "leaving"
    /\ world' = saved[c]
    /\ pc' = [pc EXCEPT ![c] = "ready"]
    /\ saved' = [saved EXCEPT ![c] = Entry]
    /\ told' = [told EXCEPT ![c] = FALSE]
    /\ UNCHANGED <<at, stack, target, auth, mode, kind, held, knows>>

-----------------------------------------------------------------------------
Init ==
    /\ at = Entry /\ world = Entry /\ stack = <<>> /\ target = NoHost
    /\ pending = NoPrompt /\ suppress = FALSE /\ mode = "bash"
    /\ prompts = [p \in Prompts |-> [host |-> Entry, self |-> TRUE, tries |-> 0]]
    /\ pc = [c \in Conns |-> "away"] /\ kind = [c \in Conns |-> "shell"]
    /\ held = [c \in Conns |-> NoPrompt] /\ saved = [c \in Conns |-> Entry]
    /\ told = [c \in Conns |-> FALSE] /\ knows = [c \in Conns |-> NoHost]

Step(c) ==
    \/ \E k \in Kinds : Connect(c, k)
    \/ DropPrompt(c) \/ HangUp(c) \/ Type(c)
    \/ FinishExec(c) \/ ResolveAutoSSH(c) \/ FinishSim(c)
    \/ \E h \in AllHosts : Ssh(c, h)
    \/ StartClient(c) \/ OtherInput(c)
    \/ Wrong(c) \/ Right(c) \/ Enter(c) \/ Mount(c)
    \/ ExitRemoteHost(c) \/ Restore(c)

Next == \E c \in Conns : Step(c)

Spec == Init /\ [][Next]_vars
-----------------------------------------------------------------------------
(* Properties *)

Frame == [host : AllHosts, world : AllHosts]

Labels == {"away", "clearing", "ready", "asked", "running", "entering", "mounting", "leaving",
           "returned"}

TypeOK ==
    /\ at \in AllHosts /\ world \in AllHosts /\ target \in AllHosts \cup {NoHost}
    /\ stack \in Seq(Frame)
    /\ pending \in Prompts \cup {NoPrompt}
    /\ prompts \in [Prompts -> [host : AllHosts, self : BOOLEAN, tries : Nat]]
    /\ suppress \in BOOLEAN
    /\ mode \in Modes
    /\ pc \in [Conns -> Labels] /\ kind \in [Conns -> Kinds]
    /\ held \in [Conns -> Prompts \cup {NoPrompt}]
    /\ saved \in [Conns -> AllHosts]
    /\ told \in [Conns -> BOOLEAN]
    /\ knows \in [Conns -> AllHosts \cup {NoHost}]
    /\ \A c \in Conns : pc[c] \in {"asked", "entering", "mounting"} => held[c] # NoPrompt

(* models.go:1138-1140, 1156, "per-host filesystem isolation": whenever no
   connection is in the middle of a login or a logout, the file system in use is
   that of the current host, and each stacked host has kept its own. *)
WorldFits ==
    (\A c \in Conns : pc[c] \notin {"mounting", "leaving"}) =>
        /\ world = at
        /\ \A i \in DOMAIN stack : stack[i].world = stack[i].host

(* A prompt that waits for a password has tries left, so a fixed number of
   answers ends it; one that two connections answer may not.  And what is typed
   where the terminal asks for a password is not run, and logged, as a command
   (manager.go:689, "Password input is not echoed or logged"). *)
PasswordsAnswered ==
    /\ pending # NoPrompt => prompts[pending].tries < Tries(pending)
    /\ \A c \in Conns : pc[c] = "running" => ~told[c]

(* While a host is stacked there is a target: the network commands that print
   its addresses (shell.go:1641, 1665, 1687) read it in a nested shell. *)
NestedHasTarget == stack # <<>> => target # NoHost

(* A host on the stack leads back to the entry host: however connections
   interleave, the hosts logged in to form a path of ShellPath. *)
PathOf(frames, host) ==
    [i \in 1..Len(frames) + 1 |-> IF i <= Len(frames) THEN frames[i].host ELSE host]
Path == PathOf(stack, at)
P == INSTANCE ShellPath WITH path <- Path
PathSpec == P!Spec
=============================================================================
