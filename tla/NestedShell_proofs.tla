------------------------- MODULE NestedShell_proofs -------------------------
(***************************************************************************)
(* Proofs about NestedShell, for any connections, hosts, prompts and       *)
(* number of tries.                                                        *)
(***************************************************************************)
EXTENDS NestedShell, SequenceTheorems, TLAPS

USE HostNames, GuardedHosts, NoPromptApart, TriesPositive, DepthNat, LLMIsFlag

\* The stack begins with the entry host, and so does the path.
EntryAtBottom == IF stack = <<>> THEN at = Entry ELSE stack[1].host = Entry

\* Prompts other than for one's own host are for hosts that can be reached, and
\* only those are entered; a prompt in the hands of a connection is not reused.
PromptsReachable ==
    /\ \A p \in Prompts : prompts[p].self \/ prompts[p].host \in Hosts
    /\ \A c \in Conns : pc[c] \in {"entering", "mounting"} => ~prompts[held[c]].self

IInv == TypeOK /\ EntryAtBottom /\ NestedHasTarget /\ PromptsReachable

-----------------------------------------------------------------------------
(* Types *)

Prompt == [host : AllHosts, self : BOOLEAN, tries : Nat]

(* Counting an attempt gives natural numbers only. *)
LEMMA CountedNat ==
    ASSUME TypeOK, NEW c \in Conns, pc[c] = "asked"
    PROVE  held[c] \in Prompts /\ Counted(c) \subseteq Nat
<1> DEFINE n == prompts[held[c]].tries + 1
<1>1. held[c] \in Prompts
    BY DEF TypeOK
<1>2. n \in Nat
    BY <1>1 DEF TypeOK
<1> QED BY <1>1, <1>2 DEF Counted

(* Counting changes nothing of a prompt but its tries. *)
LEMMA CountingTyped ==
    ASSUME TypeOK, NEW p \in Prompts, NEW n \in Nat, prompts' = [prompts EXCEPT ![p].tries = n]
    PROVE  /\ prompts' \in [Prompts -> Prompt]
           /\ \A q \in Prompts : /\ prompts'[q].host = prompts[q].host
                                 /\ prompts'[q].self = prompts[q].self
BY DEF TypeOK, Prompt

(* Resetting a session leaves its shell well formed, at the entry host and
   without a stack. *)
LEMMA ResetTyped ==
    ASSUME TypeOK, EntryAtBottom, ResetToEntryHost
    PROVE  /\ at' = Entry /\ stack' = <<>> /\ world' \in AllHosts
           /\ target' \in AllHosts \cup {NoHost} /\ suppress' \in BOOLEAN
<1>1. CASE stack = <<>>
    BY <1>1 DEF ResetToEntryHost, TypeOK, shell, EntryAtBottom
<1>2. CASE stack # <<>>
  <2>1. stack[1] \in Frame
      BY <1>2 DEF TypeOK
  <2> QED BY <1>2, <2>1 DEF ResetToEntryHost, TypeOK, Frame, EntryAtBottom
<1> QED BY <1>1, <1>2

(* Popping a sequence gives a sequence, shorter by one and otherwise the same. *)
LEMMA PopTyped ==
    ASSUME NEW S, NEW s \in Seq(S), s # <<>>
    PROVE  /\ Len(s) \in Nat \ {0} /\ s[Len(s)] \in S
           /\ SubSeq(s, 1, Len(s) - 1) \in Seq(S)
           /\ Len(SubSeq(s, 1, Len(s) - 1)) = Len(s) - 1
           /\ \A i \in 1..Len(s) - 1 : SubSeq(s, 1, Len(s) - 1)[i] = s[i]
<1> DEFINE n == Len(s) - 1
<1>1. Len(s) \in Nat \ {0} /\ n \in Nat /\ \A i \in 1..Len(s) : s[i] \in S
    OBVIOUS
<1>2. \A i \in 1..n : s[i] \in S
    BY <1>1
<1>3. /\ SubSeq(s, 1, n) \in Seq(S)
      /\ Len(SubSeq(s, 1, n)) = IF 1 <= n THEN n - 1 + 1 ELSE 0
      /\ \A i \in 1..n - 1 + 1 : SubSeq(s, 1, n)[i] = s[1 + i - 1]
  <2> HIDE DEF n
  <2> QED BY <1>1, <1>2, SubSeqProperties
<1>4. Len(SubSeq(s, 1, n)) = n
  <2> DEFINE len == Len(SubSeq(s, 1, n))
  <2>1. len = IF 1 <= n THEN n - 1 + 1 ELSE 0
      BY <1>3
  <2>2. n \in Nat
      BY <1>1
  <2> HIDE DEF n, len
  <2>3. len = n
      BY <2>1, <2>2
  <2> QED BY <2>3 DEF len
<1>5. \A i \in 1..n : SubSeq(s, 1, n)[i] = s[i]
    BY <1>1, <1>3
<1> QED BY <1>1, <1>3, <1>4, <1>5

LEMMA InitTyped == Init => TypeOK
<1> SUFFICES ASSUME Init PROVE TypeOK
    OBVIOUS
<1>1. /\ at \in AllHosts /\ world \in AllHosts /\ target \in AllHosts \cup {NoHost}
      /\ pending \in Prompts \cup {NoPrompt} /\ suppress \in BOOLEAN /\ mode \in Modes
    BY DEF Init, AllHosts, Modes
<1>2. stack \in Seq(Frame)
    BY DEF Init
<1>3. prompts \in [Prompts -> [host : AllHosts, self : BOOLEAN, tries : Nat]]
    BY DEF Init, AllHosts
<1>4. /\ pc \in [Conns -> Labels] /\ kind \in [Conns -> Kinds]
      /\ held \in [Conns -> Prompts \cup {NoPrompt}] /\ saved \in [Conns -> AllHosts]
      /\ told \in [Conns -> BOOLEAN] /\ knows \in [Conns -> AllHosts \cup {NoHost}]
      /\ \A c \in Conns : pc[c] = "away"
    BY DEF Init, AllHosts, Kinds, Labels
<1> QED BY <1>1, <1>2, <1>3, <1>4 DEF TypeOK

LEMMA StepTyped ==
    ASSUME TypeOK, EntryAtBottom, NEW c \in Conns, Step(c)
    PROVE  TypeOK'
<1> USE DEF shell, auth, conn
<1>1. ASSUME NEW k \in Kinds, Connect(c, k) PROVE TypeOK'
  <2>1. /\ at' \in AllHosts /\ world' \in AllHosts /\ target' \in AllHosts \cup {NoHost}
        /\ stack' \in Seq(Frame) /\ suppress' \in BOOLEAN
    <3>1. CASE k = "sim"
        BY <1>1, <3>1 DEF Connect, TypeOK
    <3>2. CASE k # "sim"
        BY <1>1, <3>2, ResetTyped DEF Connect, AllHosts
    <3> QED BY <3>1, <3>2
  <2> QED BY <1>1, <2>1 DEF Connect, TypeOK, Labels
<1>2. CASE DropPrompt(c)
    BY <1>2 DEF DropPrompt, TypeOK, ClearPending, Goto, Labels
<1>3. CASE HangUp(c)
    BY <1>3 DEF HangUp, TypeOK, Leave, Labels, Kinds
<1>4. CASE Type(c)
    BY <1>4 DEF Type, TypeOK, Labels
<1>5. CASE FinishExec(c)
    BY <1>5 DEF FinishExec, TypeOK, Leave, ClearPending, Labels, Kinds
<1>6. CASE FinishSim(c)
    BY <1>6 DEF FinishSim, TypeOK, Leave, Labels, Kinds
<1>7. CASE ResolveAutoSSH(c)
    BY <1>7 DEF ResolveAutoSSH, TypeOK, Labels
<1>8. ASSUME NEW h \in AllHosts, Ssh(c, h) PROVE TypeOK'
    BY <1>8 DEF Ssh, TypeOK, Return, Labels
<1>9. CASE StartClient(c)
    BY <1>9 DEF StartClient, TypeOK, Return, Labels, Modes, AllHosts
<1>10. CASE OtherInput(c)
    BY <1>10 DEF OtherInput, TypeOK, Return, Labels, Modes
<1>11. CASE Wrong(c)
  <2>1. PICK n \in Counted(c) :
            /\ prompts' = [prompts EXCEPT ![held[c]].tries = n]
            /\ pending' \in {pending, NoPrompt} /\ suppress' \in BOOLEAN
            /\ Return(c, n < Tries(held[c]))
      BY <1>11 DEF Wrong
  <2>2. prompts' \in [Prompts -> Prompt]
      BY <1>11, <2>1, CountedNat, CountingTyped DEF Wrong
  <2> QED BY <1>11, <2>1, <2>2 DEF Wrong, TypeOK, Return, Labels, Prompt
<1>12. CASE Right(c)
  <2>1. prompts' \in [Prompts -> Prompt]
      BY <1>12, CountedNat, CountingTyped DEF Right
  <2> QED BY <1>12, <2>1 DEF Right, TypeOK, Goto, Labels, Prompt
<1>13. CASE Enter(c)
  <2>1. held[c] \in Prompts
      BY <1>13 DEF Enter, TypeOK
  <2>2. prompts[held[c]].host \in AllHosts
      BY <2>1 DEF TypeOK
  <2>3. stack' \in Seq(Frame)
      BY <1>13 DEF Enter, TypeOK, Frame
  <2> QED BY <1>13, <2>2, <2>3 DEF Enter, TypeOK, Goto, Labels
<1>14. CASE Mount(c)
  <2>1. held[c] \in Prompts
      BY <1>14 DEF Mount, TypeOK
  <2>2. prompts[held[c]].host \in AllHosts
      BY <2>1 DEF TypeOK
  <2> QED BY <1>14, <2>2 DEF Mount, TypeOK, Return, Labels
<1>15. CASE ExitRemoteHost(c)
  <2>1. stack[Len(stack)] \in Frame /\ stack' \in Seq(Frame)
      BY <1>15, PopTyped DEF ExitRemoteHost, TypeOK
  <2> QED BY <1>15, <2>1 DEF ExitRemoteHost, TypeOK, Frame, Labels
<1>16. CASE Restore(c)
    BY <1>16 DEF Restore, TypeOK, AllHosts, Labels
<1> QED
    BY <1>1, <1>2, <1>3, <1>4, <1>5, <1>6, <1>7, <1>8, <1>9, <1>10, <1>11, <1>12, <1>13, <1>14,
       <1>15, <1>16 DEF Step

-----------------------------------------------------------------------------
(* The stack *)

\* What a step may do to the stack and the current host.
StackKept  == UNCHANGED <<at, stack>>
StackReset == at' = Entry /\ stack' = <<>>
StackPush(h) == at' = h /\ stack' = Append(stack, [host |-> at, world |-> world])
StackPop ==
    /\ stack # <<>>
    /\ at' = stack[Len(stack)].host
    /\ stack' = SubSeq(stack, 1, Len(stack) - 1)

(* Every step of a connection does one of these four, and none leaves a stacked
   host without a target. *)
LEMMA StepOnStack ==
    ASSUME IInv, NEW c \in Conns, Step(c)
    PROVE  /\ StackKept \/ StackReset \/ StackPop \/ \E h \in Hosts : StackPush(h)
           /\ NestedHasTarget'
<1> DEFINE Fine == /\ StackKept \/ StackReset \/ StackPop \/ \E h \in Hosts : StackPush(h)
                   /\ NestedHasTarget'
<1> USE DEF IInv, NestedHasTarget
<1>1. ASSUME NEW k \in Kinds, Connect(c, k) PROVE Fine
  <2>1. CASE k = "sim"
      BY <1>1, <2>1 DEF Connect, StackKept, shell
  <2>2. CASE k # "sim"
      BY <1>1, <2>2, ResetTyped DEF Connect, StackReset
  <2> QED BY <2>1, <2>2
<1>2. CASE \/ DropPrompt(c) \/ HangUp(c) \/ Type(c) \/ FinishExec(c) \/ ResolveAutoSSH(c)
           \/ FinishSim(c) \/ OtherInput(c) \/ Wrong(c) \/ Right(c)
           \/ \E h \in AllHosts : Ssh(c, h)
  <2>1. UNCHANGED shell
      BY <1>2 DEF DropPrompt, HangUp, Type, FinishExec, ResolveAutoSSH, FinishSim, OtherInput,
                  Wrong, Right, Ssh
  <2> QED BY <2>1 DEF shell, StackKept
<1>3. CASE Restore(c) \/ Mount(c)
    BY <1>3 DEF Restore, Mount, StackKept
<1>4. CASE StartClient(c)
    BY <1>4, HostNames DEF StartClient, StackKept
<1>5. CASE Enter(c)
  <2>1. held[c] \in Prompts /\ prompts[held[c]].host \in Hosts
      BY <1>5 DEF Enter, TypeOK, PromptsReachable
  <2>2. StackPush(prompts[held[c]].host)
      BY <1>5 DEF Enter, StackPush
  <2>3. target' # NoHost
      BY <1>5, <2>1, HostNames DEF Enter
  <2> QED BY <2>1, <2>2, <2>3
<1>6. CASE ExitRemoteHost(c)
  <2>1. stack # <<>>
      BY <1>6 DEF ExitRemoteHost
  <2>2. StackPop
      BY <1>6, <2>1 DEF ExitRemoteHost, StackPop
  <2>3. Len(stack) = 1 => stack' = <<>>
      BY <1>6, <2>1, PopTyped DEF ExitRemoteHost, TypeOK
  <2>4. Len(stack) # 1 => target' = target
      BY <1>6 DEF ExitRemoteHost
  <2> QED BY <2>1, <2>2, <2>3, <2>4
<1> QED BY <1>1, <1>2, <1>3, <1>4, <1>5, <1>6 DEF Step

(* The four keep the entry host at the bottom. *)
LEMMA StackBottom ==
    ASSUME TypeOK, EntryAtBottom,
           StackKept \/ StackReset \/ StackPop \/ \E h \in Hosts : StackPush(h)
    PROVE  EntryAtBottom'
<1> USE DEF EntryAtBottom
<1>1. stack \in Seq(Frame)
    BY DEF TypeOK
<1>2. CASE StackKept \/ StackReset
    BY <1>2 DEF StackKept, StackReset
<1>3. ASSUME NEW h \in Hosts, StackPush(h) PROVE EntryAtBottom'
  <2>1. /\ stack' # <<>>
        /\ stack'[1] = IF stack = <<>> THEN [host |-> at, world |-> world] ELSE stack[1]
      BY <1>1, <1>3 DEF StackPush, TypeOK, Frame
  <2> QED BY <2>1
<1>4. CASE StackPop
  <2>1. /\ Len(stack) \in Nat \ {0} /\ stack' \in Seq(Frame) /\ Len(stack') = Len(stack) - 1
        /\ \A i \in 1..Len(stack) - 1 : stack'[i] = stack[i]
      BY <1>1, <1>4, PopTyped DEF StackPop
  <2>2. CASE Len(stack) = 1
    <3>1. stack' = <<>>
        BY <2>1, <2>2
    <3>2. at' = stack[1].host
        BY <1>4, <2>2 DEF StackPop
    <3>3. stack[1].host = Entry
        BY <1>4 DEF StackPop
    <3>4. at' = Entry
        BY <3>2, <3>3
    <3> QED BY <3>1, <3>4
  <2>3. CASE Len(stack) > 1
    <3>1. stack' # <<>>
        BY <2>1, <2>3
    <3>2. stack'[1] = stack[1]
        BY <2>1, <2>3
    <3>3. stack[1].host = Entry
        BY <1>4 DEF StackPop
    <3> QED BY <3>1, <3>2, <3>3
  <2> QED BY <2>1, <2>2, <2>3
<1> QED BY <1>2, <1>3, <1>4

(* Prompts in use keep their host, so what is entered can be reached. *)
LEMMA PromptsKept ==
    ASSUME IInv, NEW c \in Conns, Step(c)
    PROVE  PromptsReachable'
<1> USE DEF IInv
<1>1. CASE UNCHANGED prompts /\ (\A d \in Conns : held'[d] = held[d] \/ pc'[d] \notin {"entering", "mounting"})
           /\ \A d \in Conns : pc'[d] \in {"entering", "mounting"} => pc[d] \in {"entering", "mounting"}
    BY <1>1 DEF PromptsReachable
<1>2. ASSUME NEW h \in AllHosts, Ssh(c, h) PROVE PromptsReachable'
  <2>1. PICK p \in Prompts :
            /\ \A d \in Conns : held[d] # p
            /\ prompts' = [prompts EXCEPT ![p] = [host |-> h, self |-> h = at, tries |-> 0]]
      BY <1>2 DEF Ssh
  <2>2. h \in Hosts \/ h = at
      BY <1>2 DEF Ssh
  <2>3. \A q \in Prompts : prompts'[q] = IF q = p THEN [host |-> h, self |-> h = at, tries |-> 0]
                                                  ELSE prompts[q]
      BY <2>1 DEF TypeOK
  <2>4. \A d \in Conns : pc'[d] \in {"entering", "mounting"} =>
            pc[d] \in {"entering", "mounting"} /\ held'[d] = held[d]
      BY <1>2 DEF Ssh, Return, TypeOK
  <2>5. \A d \in Conns : pc[d] \in {"entering", "mounting"} =>
            held[d] \in Prompts /\ ~prompts'[held[d]].self
      BY <2>1, <2>3 DEF TypeOK, PromptsReachable
  <2>6. ASSUME NEW q \in Prompts PROVE prompts'[q].self \/ prompts'[q].host \in Hosts
    <3>1. CASE q = p
      <4>1. prompts'[q].host = h /\ prompts'[q].self = (h = at)
          BY <2>3, <3>1
      <4>2. CASE h \in Hosts
          BY <4>1, <4>2
      <4>3. CASE h = at
          BY <4>1, <4>3
      <4> QED BY <2>2, <4>2, <4>3
    <3>2. CASE q # p
        BY <2>3, <3>2 DEF PromptsReachable
    <3> QED BY <3>1, <3>2
  <2>7. \A d \in Conns : pc'[d] \in {"entering", "mounting"} => ~prompts'[held'[d]].self
      BY <2>4, <2>5
  <2> QED BY <2>6, <2>7 DEF PromptsReachable
<1>3. CASE Wrong(c) \/ Right(c)
  <2>1. PICK n \in Counted(c) : prompts' = [prompts EXCEPT ![held[c]].tries = n]
      BY <1>3 DEF Wrong, Right
  <2>2. \A q \in Prompts : prompts'[q].host = prompts[q].host /\ prompts'[q].self = prompts[q].self
      BY <1>3, <2>1, CountedNat, CountingTyped DEF Wrong, Right
  <2>3. \A d \in Conns : pc'[d] \in {"entering", "mounting"} =>
            /\ held'[d] = held[d]
            /\ pc[d] \in {"entering", "mounting"} \/ ~prompts[held[d]].self
      BY <1>3 DEF Wrong, Right, Return, Goto, TypeOK, Answerable
  <2>4. \A d \in Conns : pc'[d] \in {"entering", "mounting"} => held[d] \in Prompts
      BY <1>3, <2>3 DEF Wrong, Right, Return, Goto, TypeOK
  <2> QED BY <2>2, <2>3, <2>4 DEF PromptsReachable
<1>4. CASE \/ DropPrompt(c) \/ HangUp(c) \/ Type(c) \/ FinishExec(c) \/ ResolveAutoSSH(c)
           \/ FinishSim(c)
    BY <1>1, <1>4 DEF DropPrompt, HangUp, Type, FinishExec, ResolveAutoSSH, FinishSim, auth,
                      ClearPending, Goto, Leave, TypeOK
<1>5. CASE \/ StartClient(c) \/ OtherInput(c) \/ Enter(c) \/ Mount(c) \/ ExitRemoteHost(c)
           \/ Restore(c)
    BY <1>1, <1>5 DEF StartClient, OtherInput, Enter, Mount, ExitRemoteHost, Restore, auth,
                      Goto, Return, TypeOK
<1>6. ASSUME NEW k \in Kinds, Connect(c, k) PROVE PromptsReachable'
    BY <1>1, <1>6 DEF Connect, TypeOK
<1> QED BY <1>2, <1>3, <1>4, <1>5, <1>6 DEF Step

LEMMA InitIInv == Init => IInv
<1> SUFFICES ASSUME Init PROVE IInv
    OBVIOUS
<1>1. EntryAtBottom /\ NestedHasTarget /\ PromptsReachable
    BY DEF Init, EntryAtBottom, NestedHasTarget, PromptsReachable
<1> QED BY <1>1, InitTyped DEF IInv

LEMMA NextIInv == IInv /\ [Next]_vars => IInv'
<1> SUFFICES ASSUME IInv, [Next]_vars PROVE IInv'
    OBVIOUS
<1>1. ASSUME NEW c \in Conns, Step(c) PROVE IInv'
    BY <1>1, StepTyped, StepOnStack, StackBottom, PromptsKept DEF IInv
<1>2. CASE UNCHANGED vars
    BY <1>2 DEF vars, shell, auth, conn, IInv, TypeOK, EntryAtBottom, NestedHasTarget,
                PromptsReachable
<1> QED BY <1>1, <1>2 DEF Next

THEOREM Invariance == Spec => []IInv
BY InitIInv, NextIInv, PTL DEF Spec

(* Every variable of the shell keeps its type. *)
THEOREM TypeCorrect == Spec => []TypeOK
BY Invariance, PTL DEF IInv

(* However connections interleave, a nested shell has a target. *)
THEOREM NestedTarget == Spec => []NestedHasTarget
BY Invariance, PTL DEF IInv

-----------------------------------------------------------------------------
(* The path of hosts *)

LEMMA PathFacts ==
    ASSUME NEW s \in Seq(Frame), NEW a \in AllHosts
    PROVE  /\ Len(s) \in Nat
           /\ PathOf(s, a) \in Seq(AllHosts) /\ Len(PathOf(s, a)) = Len(s) + 1
           /\ \A i \in 1..Len(s) : PathOf(s, a)[i] = s[i].host
           /\ PathOf(s, a)[Len(s) + 1] = a
<1>1. Len(s) \in Nat /\ Len(s) + 1 \in Nat
    OBVIOUS
<1>2. \A i \in 1..Len(s) : s[i].host \in AllHosts
  <2>1. \A i \in 1..Len(s) : s[i] \in Frame
      OBVIOUS
  <2> QED BY <2>1 DEF Frame
<1>3. PathOf(s, a) \in [1..Len(s) + 1 -> AllHosts]
    BY <1>1, <1>2 DEF PathOf
<1>4. PathOf(s, a) \in Seq(AllHosts) /\ Len(PathOf(s, a)) = Len(s) + 1
    BY <1>1, <1>3
<1> QED BY <1>1, <1>4 DEF PathOf

(* Every step of the shell is a step of the path, or leaves it. *)
LEMMA PathStep ==
    ASSUME IInv, IInv', [Next]_vars
    PROVE  [P!Next]_Path
<1> DEFINE n == Len(stack)
<1>1. /\ stack \in Seq(Frame) /\ stack' \in Seq(Frame)
      /\ at \in AllHosts /\ at' \in AllHosts /\ world \in AllHosts
    BY DEF IInv, TypeOK
<1>2. /\ n \in Nat /\ Path \in Seq(AllHosts) /\ Len(Path) = n + 1
      /\ \A i \in 1..n : Path[i] = stack[i].host
      /\ Path[n + 1] = at
    BY <1>1, PathFacts DEF Path
<1>3. /\ Len(stack') \in Nat /\ Path' \in Seq(AllHosts) /\ Len(Path') = Len(stack') + 1
      /\ \A i \in 1..Len(stack') : Path'[i] = stack'[i].host
      /\ Path'[Len(stack') + 1] = at'
    BY <1>1, PathFacts DEF Path
<1>4. CASE StackKept
    BY <1>4 DEF StackKept, Path
<1>5. CASE StackReset
  <2>1. Path' \in Seq(AllHosts) /\ Len(Path') = 1 /\ Path'[1] = Entry
      BY <1>3, <1>5 DEF StackReset
  <2>2. Path' = <<Entry>>
      BY <2>1
  <2>3. P!Reconnect
      BY <2>2 DEF P!Reconnect
  <2> QED BY <2>3 DEF P!Next
<1>6. ASSUME NEW h \in Hosts, StackPush(h) PROVE [P!Next]_Path
  <2> DEFINE longer == Append(Path, h)
  <2>1. /\ longer \in Seq(AllHosts) /\ Len(longer) = n + 2 /\ longer[n + 2] = h
        /\ \A i \in 1..n + 1 : longer[i] = Path[i]
      BY <1>2 DEF AllHosts
  <2>2. /\ Len(stack') = n + 1 /\ stack'[n + 1].host = at
        /\ \A i \in 1..n : stack'[i] = stack[i]
      BY <1>1, <1>2, <1>6 DEF StackPush, Frame
  <2>3. Len(Path') = n + 2 /\ Path'[n + 2] = h /\ \A i \in 1..n + 1 : Path'[i] = Path[i]
    <3>1. Len(Path') = n + 2 /\ Path'[n + 2] = h
        BY <1>2, <1>3, <1>6, <2>2 DEF StackPush
    <3>2. Path'[n + 1] = Path[n + 1]
        BY <1>2, <1>3, <2>2
    <3>3. \A i \in 1..n : Path'[i] = Path[i]
        BY <1>2, <1>3, <2>2
    <3> QED BY <1>2, <3>1, <3>2, <3>3
  <2>4. \A i \in 1..n + 2 : Path'[i] = longer[i]
      BY <1>2, <2>1, <2>3
  <2>5. Path' = longer
    <3> HIDE DEF longer
    <3> QED BY <1>3, <2>1, <2>3, <2>4, SeqEqual
  <2> QED BY <2>5 DEF P!Next, P!Login
<1>7. CASE StackPop
  <2> DEFINE shorter == SubSeq(Path, 1, Len(Path) - 1)
  <2>1. /\ n \in Nat \ {0} /\ Len(stack') = n - 1
        /\ \A i \in 1..n - 1 : stack'[i] = stack[i]
      BY <1>1, <1>7, PopTyped DEF StackPop
  <2>2. Path # <<>>
      BY <1>2
  <2>3. /\ shorter \in Seq(AllHosts) /\ Len(shorter) = n
        /\ \A i \in 1..n : shorter[i] = Path[i]
    <3> HIDE DEF n
    <3> QED BY <1>2, <2>2, PopTyped
  <2>4. Len(Path') = n /\ \A i \in 1..n : Path'[i] = Path[i]
    <3>1. Path'[n] = stack[n].host
        BY <1>3, <1>7, <2>1 DEF StackPop
    <3>2. \A i \in 1..n - 1 : Path'[i] = Path[i]
        BY <1>2, <1>3, <2>1
    <3> QED BY <1>2, <1>3, <2>1, <3>1, <3>2
  <2>5. Path' = shorter
    <3> HIDE DEF shorter
    <3> QED BY <1>3, <2>3, <2>4, SeqEqual
  <2> QED BY <1>2, <2>1, <2>5 DEF P!Next, P!Logout
<1>8. CASE UNCHANGED vars
    BY <1>8 DEF vars, shell, Path
<1> QED BY <1>4, <1>5, <1>6, <1>7, <1>8, StepOnStack DEF Next

LEMMA PathInit == Init => P!Init
<1> SUFFICES ASSUME Init PROVE Path = <<Entry>>
    BY DEF P!Init
<1>1. stack = <<>> /\ stack \in Seq(Frame) /\ at = Entry /\ Entry \in AllHosts
    BY DEF Init, AllHosts
<1>2. /\ Path \in Seq(AllHosts) /\ Len(Path) = Len(stack) + 1
      /\ Path[Len(stack) + 1] = at
    BY <1>1, PathFacts DEF Path
<1>3. Path \in Seq(AllHosts) /\ Len(Path) = 1 /\ Path[1] = Entry
    BY <1>1, <1>2
<1> QED BY <1>3

(* However connections interleave, the hosts logged in to form a path from the
   entry host that grows and shrinks by one host or is cut back to its
   beginning: the shell implements ShellPath. *)
THEOREM Implements == Spec => PathSpec
<1>1. Init => P!Init
    BY PathInit
<1>2. IInv /\ IInv' /\ [Next]_vars => [P!Next]_Path
    BY PathStep
<1> QED BY <1>1, <1>2, Invariance, PTL DEF Spec, PathSpec, P!Spec

-----------------------------------------------------------------------------
(* Prompts *)

TriesLeft == pending # NoPrompt => prompts[pending].tries < Tries(pending)

(* Only an answer counts, and it takes away the prompt it has used up. *)
LEMMA TriesStep ==
    ASSUME TypeOK, TriesLeft, NEW c \in Conns, Step(c)
    PROVE  TriesLeft'
<1>1. CASE UNCHANGED prompts /\ pending' \in {pending, NoPrompt}
    BY <1>1 DEF TriesLeft, Tries
<1>2. ASSUME NEW h \in AllHosts, Ssh(c, h) PROVE TriesLeft'
  <2>1. PICK p \in Prompts :
            /\ pending' = p
            /\ prompts' = [prompts EXCEPT ![p] = [host |-> h, self |-> h = at, tries |-> 0]]
      BY <1>2 DEF Ssh
  <2>2. prompts'[p] = [host |-> h, self |-> h = at, tries |-> 0]
      BY <2>1 DEF TypeOK
  <2> QED BY <2>1, <2>2 DEF TriesLeft, Tries
<1>3. CASE Wrong(c)
  <2>1. PICK n \in Counted(c) :
            /\ prompts' = [prompts EXCEPT ![held[c]].tries = n]
            /\ IF n >= Tries(held[c]) THEN pending' = NoPrompt ELSE UNCHANGED pending
      BY <1>3 DEF Wrong
  <2>2. held[c] \in Prompts /\ n \in Nat
      BY <1>3, CountedNat DEF Wrong
  <2>3. /\ \A q \in Prompts : prompts'[q].self = prompts[q].self
        /\ \A q \in Prompts : prompts'[q].tries = IF q = held[c] THEN n ELSE prompts[q].tries
      BY <2>1, <2>2 DEF TypeOK
  <2>4. ASSUME pending' # NoPrompt PROVE pending = pending' /\ n < Tries(held[c])
    <3>1. n < Tries(held[c]) \/ n >= Tries(held[c])
      <4>1. Tries(held[c]) \in Nat
          BY DEF Tries
      <4> QED BY <2>2, <4>1
    <3>2. ~(n >= Tries(held[c]))
        BY <2>1, <2>4
    <3> QED BY <2>1, <3>1, <3>2
  <2>5. \A q \in Prompts : Tries(q)' = Tries(q)
      BY <2>3 DEF Tries
  <2>6. pending \in Prompts \cup {NoPrompt}
      BY DEF TypeOK
  <2> QED BY <2>2, <2>3, <2>4, <2>5, <2>6 DEF TriesLeft
<1>4. CASE Right(c)
    BY <1>4 DEF Right, TriesLeft
<1>5. CASE \/ DropPrompt(c) \/ HangUp(c) \/ Type(c) \/ FinishExec(c) \/ ResolveAutoSSH(c)
           \/ FinishSim(c) \/ StartClient(c) \/ OtherInput(c) \/ Enter(c) \/ Mount(c)
           \/ ExitRemoteHost(c) \/ Restore(c) \/ \E k \in Kinds : Connect(c, k)
    BY <1>1, <1>5 DEF DropPrompt, HangUp, Type, FinishExec, ResolveAutoSSH, FinishSim,
                      StartClient, OtherInput, Enter, Mount, ExitRemoteHost, Restore, Connect,
                      auth, ClearPending
<1> QED BY <1>2, <1>3, <1>4, <1>5 DEF Step

(* A prompt that waits has tries left, whoever answers it and however many
   answer at once (HandleSSHPassword): an answer that is counted once too few
   does not use up more than there are. *)
THEOREM PromptsLast == Spec => []TriesLeft
<1>1. Init => TriesLeft
    BY DEF Init, TriesLeft
<1>2. TypeOK /\ TriesLeft /\ [Next]_vars => TriesLeft'
  <2> SUFFICES ASSUME TypeOK, TriesLeft, [Next]_vars PROVE TriesLeft'
      OBVIOUS
  <2>1. CASE UNCHANGED vars
      BY <2>1 DEF vars, auth, TriesLeft, Tries
  <2> QED BY <2>1, TriesStep DEF Next
<1> QED BY <1>1, <1>2, TypeCorrect, PTL DEF Spec

-----------------------------------------------------------------------------
(* One connection at a time *)

OneAtATime == \A c, d \in Conns : c = d

\* A login has changed the host before the files, a logout the host before the
\* files; everywhere else the files are the host's.
FilesFit ==
    /\ \A i \in DOMAIN stack : stack[i].world = stack[i].host
    /\ \A c \in Conns : pc[c] = "mounting" => at = prompts[held[c]].host
    /\ \A c \in Conns : pc[c] = "leaving" => at = saved[c]
    /\ (\A c \in Conns : pc[c] \notin {"mounting", "leaving"}) => world = at

LEMMA FitStep ==
    ASSUME OneAtATime, IInv, FilesFit, NEW c \in Conns, Step(c)
    PROVE  FilesFit'
<1> USE DEF IInv
<1>1. \A d \in Conns : d = c
    BY DEF OneAtATime
<1>2. /\ pc[c] \in Labels /\ pc' \in [Conns -> Labels]
      /\ stack \in Seq(Frame) /\ Len(stack) \in Nat
    BY StepTyped DEF TypeOK
<1>3. CASE /\ UNCHANGED <<shell, prompts>>
           /\ pc[c] \notin {"mounting", "leaving"} /\ pc'[c] \notin {"mounting", "leaving"}
    BY <1>1, <1>3 DEF FilesFit, shell
<1>4. CASE \/ DropPrompt(c) \/ HangUp(c) \/ Type(c) \/ FinishExec(c) \/ ResolveAutoSSH(c)
           \/ FinishSim(c) \/ OtherInput(c)
  <2>1. UNCHANGED <<shell, prompts>> /\ pc[c] \notin {"mounting", "leaving"}
      BY <1>4 DEF DropPrompt, HangUp, Type, FinishExec, ResolveAutoSSH, FinishSim, OtherInput,
                  auth, ClearPending
  <2>2. pc'[c] \notin {"mounting", "leaving"}
      BY <1>4 DEF DropPrompt, HangUp, Type, FinishExec, ResolveAutoSSH, FinishSim, OtherInput,
                  Goto, Leave, Return, TypeOK
  <2> QED BY <1>3, <2>1, <2>2
<1>5. CASE StartClient(c) \/ Wrong(c) \/ Right(c) \/ \E h \in AllHosts : Ssh(c, h)
  <2>1. UNCHANGED <<at, world, stack>> /\ pc[c] \notin {"mounting", "leaving"}
      BY <1>5 DEF StartClient, Wrong, Right, Ssh, Dispatched, shell
  <2>2. pc'[c] \notin {"mounting", "leaving"}
      BY <1>5 DEF StartClient, Wrong, Right, Ssh, Return, Goto, TypeOK
  <2> QED BY <1>1, <2>1, <2>2 DEF FilesFit
<1>6. ASSUME NEW k \in Kinds, Connect(c, k) PROVE FilesFit'
  <2>1. pc[c] = "away" /\ pc'[c] \in {"clearing", "ready"} /\ UNCHANGED <<prompts, held, saved>>
      BY <1>6 DEF Connect, TypeOK
  <2>2. world = at
      BY <1>1, <2>1 DEF FilesFit
  <2>3. CASE UNCHANGED shell
      BY <1>3, <2>1, <2>3
  <2>4. CASE stack # <<>> /\ at' = stack[1].host /\ world' = stack[1].world /\ stack' = <<>>
    <3>1. 1 \in DOMAIN stack /\ DOMAIN stack' = {}
        BY <1>2, <2>4
    <3>2. world' = at'
        BY <2>4, <3>1 DEF FilesFit
    <3> QED BY <1>1, <2>1, <3>1, <3>2 DEF FilesFit
  <2> QED BY <1>6, <2>3, <2>4 DEF Connect, ResetToEntryHost
<1>7. CASE Enter(c)
  <2>1. /\ pc[c] = "entering" /\ pc'[c] = "mounting" /\ UNCHANGED <<held, prompts>>
        /\ at' = prompts[held[c]].host
        /\ stack' = Append(stack, [host |-> at, world |-> world])
      BY <1>7 DEF Enter, Goto, TypeOK, auth
  <2>2. world = at
      BY <1>1, <2>1 DEF FilesFit
  <2>3. /\ Len(stack') = Len(stack) + 1 /\ DOMAIN stack' = 1..Len(stack) + 1
        /\ stack'[Len(stack) + 1] = [host |-> at, world |-> world]
        /\ \A i \in 1..Len(stack) : stack'[i] = stack[i]
    <3>1. [host |-> at, world |-> world] \in Frame
        BY DEF TypeOK, Frame
    <3> QED BY <1>2, <2>1, <3>1, AppendProperties
  <2>4. \A i \in DOMAIN stack' : stack'[i].world = stack'[i].host
      BY <1>2, <2>2, <2>3 DEF FilesFit
  <2> QED BY <1>1, <2>1, <2>4 DEF FilesFit
<1>8. CASE Mount(c)
  <2>1. /\ pc[c] = "mounting" /\ world' = prompts[held[c]].host /\ UNCHANGED <<at, stack>>
        /\ pc'[c] \in {"ready", "returned"}
      BY <1>8 DEF Mount, Return, TypeOK
  <2> QED BY <1>1, <2>1 DEF FilesFit
<1>9. CASE ExitRemoteHost(c)
  <2> DEFINE n == Len(stack)
  <2>1. /\ pc[c] = "ready" /\ pc'[c] = "leaving" /\ n > 0
        /\ at' = stack[n].host /\ stack' = SubSeq(stack, 1, n - 1) /\ saved'[c] = stack[n].world
      BY <1>9 DEF ExitRemoteHost, TypeOK
  <2>2. n \in DOMAIN stack /\ stack # <<>>
      BY <1>2, <2>1
  <2>3. DOMAIN stack' = 1..n - 1 /\ \A i \in 1..n - 1 : stack'[i] = stack[i]
      BY <1>2, <2>1, <2>2, PopTyped
  <2>4. \A i \in DOMAIN stack' : stack'[i].world = stack'[i].host
      BY <1>2, <2>3 DEF FilesFit
  <2> QED BY <1>1, <2>1, <2>2, <2>4 DEF FilesFit
<1>10. CASE Restore(c)
  <2>1. /\ pc[c] = "leaving" /\ pc'[c] = "ready" /\ world' = saved[c] /\ UNCHANGED <<at, stack>>
      BY <1>10 DEF Restore, TypeOK
  <2> QED BY <1>1, <2>1 DEF FilesFit
<1> QED BY <1>4, <1>5, <1>6, <1>7, <1>8, <1>9, <1>10 DEF Step

(* Per-host filesystem isolation (models.go:1138, EnterRemoteHost, ExitRemoteHost):
   for one connection at a time, however deep it logs in and wherever it is cut
   off, the files in use are those of the current host. *)
THEOREM FilesIsolated ==
    ASSUME OneAtATime
    PROVE  Spec => []WorldFits
<1>1. Init => FilesFit
    BY DEF Init, FilesFit
<1>2. IInv /\ FilesFit /\ [Next]_vars => FilesFit'
  <2> SUFFICES ASSUME IInv, FilesFit, [Next]_vars PROVE FilesFit'
      OBVIOUS
  <2>1. CASE UNCHANGED vars
      BY <2>1 DEF vars, shell, auth, conn, FilesFit
  <2> QED BY <2>1, FitStep DEF Next
<1>3. FilesFit => WorldFits
    BY DEF FilesFit, WorldFits
<1> QED BY <1>1, <1>2, <1>3, Invariance, PTL DEF Spec

\* The terminal asks for a password only while a prompt waits, and the
\* connection that answers holds that prompt.
Told ==
    /\ \A c \in Conns : pc[c] = "asked" => held[c] = pending
    /\ \A c \in Conns : told[c] /\ pc[c] \in {"ready", "returned"} => pending # NoPrompt
    /\ \A c \in Conns : pc[c] \in {"away", "clearing", "running"} => ~told[c]

LEMMA ToldStep ==
    ASSUME OneAtATime, TypeOK, Told, NEW c \in Conns, Step(c)
    PROVE  Told'
<1>1. \A d \in Conns : d = c
    BY DEF OneAtATime
<1>2. CASE \/ HangUp(c) \/ Type(c) \/ FinishExec(c) \/ FinishSim(c)
    BY <1>1, <1>2 DEF HangUp, Type, FinishExec, FinishSim, Leave, auth, TypeOK, Told
<1>3. CASE DropPrompt(c) \/ ResolveAutoSSH(c) \/ \E k \in Kinds : Connect(c, k)
    BY <1>1, <1>3 DEF DropPrompt, ResolveAutoSSH, Connect, Goto, auth, ClearPending, TypeOK, Told
<1>4. ASSUME NEW h \in AllHosts, Ssh(c, h) PROVE Told'
    BY <1>1, <1>4 DEF Ssh, Return, TypeOK, Told
<1>5. CASE StartClient(c) \/ OtherInput(c) \/ Mount(c)
    BY <1>1, <1>5 DEF StartClient, OtherInput, Mount, Return, auth, TypeOK, Told
<1>6. CASE Wrong(c)
  <2>1. PICK n \in Counted(c) :
            /\ IF n >= Tries(held[c]) THEN pending' = NoPrompt ELSE UNCHANGED pending
            /\ Return(c, n < Tries(held[c]))
      BY <1>6 DEF Wrong
  <2>2. held[c] = pending /\ pending # NoPrompt
      BY <1>6 DEF Wrong, Told, TypeOK
  <2>3. n \in Nat /\ Tries(held[c]) \in Nat
      BY <1>6, CountedNat DEF Wrong, Tries
  <2>4. told'[c] => pending' # NoPrompt
    <3>1. told'[c] = (n < Tries(held[c]))
        BY <2>1 DEF Return, TypeOK
    <3>2. CASE n >= Tries(held[c])
      <4>1. ~(n < Tries(held[c]))
          BY <2>3, <3>2
      <4> QED BY <3>1, <4>1
    <3>3. CASE ~(n >= Tries(held[c]))
        BY <2>1, <2>2, <3>3
    <3> QED BY <3>2, <3>3
  <2>5. pc'[c] \in {"ready", "returned"}
      BY <2>1 DEF Return, TypeOK
  <2> QED BY <1>1, <2>4, <2>5 DEF Told
<1>7. CASE Right(c) \/ Enter(c) \/ ExitRemoteHost(c) \/ Restore(c)
    BY <1>1, <1>7 DEF Right, Enter, ExitRemoteHost, Restore, Goto, auth, TypeOK, Told
<1> QED BY <1>2, <1>3, <1>4, <1>5, <1>6, <1>7 DEF Step

(* What is typed where the terminal asks for a password goes to the prompt and is
   not run and logged (manager.go:689), and a prompt that waits has tries left,
   for one connection at a time. *)
THEOREM PasswordsUnlogged ==
    ASSUME OneAtATime
    PROVE  Spec => []PasswordsAnswered
<1>1. Init => Told
    BY DEF Init, Told
<1>2. TypeOK /\ Told /\ [Next]_vars => Told'
  <2> SUFFICES ASSUME TypeOK, Told, [Next]_vars PROVE Told'
      OBVIOUS
  <2>1. CASE UNCHANGED vars
      BY <2>1 DEF vars, auth, conn, Told
  <2> QED BY <2>1, ToldStep DEF Next
<1>3. TriesLeft /\ Told => PasswordsAnswered
    BY DEF TriesLeft, Told, PasswordsAnswered
<1> QED BY <1>1, <1>2, <1>3, TypeCorrect, PromptsLast, PTL DEF Spec
=============================================================================
