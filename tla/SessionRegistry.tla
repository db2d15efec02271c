-------------------------- MODULE SessionRegistry --------------------------
(***************************************************************************)
(* session.Manager's table of sessions and its address index: connections  *)
(* that look a session up and reuse or create one, commands that touch it, *)
(* disconnections, the idle cleaner and deletion by the operator.          *)
(*                                                                         *)
(* The manager's lock is held for one lookup or one insertion, not for     *)
(* GetOrCreateSession as a whole, so an arrival is two steps.  Times are   *)
(* kept as ages that stop growing just past sessionReuseTimeout, the only  *)
(* bound the code compares them with.                                      *)
(***************************************************************************)
EXTENDS Naturals, FiniteSets

CONSTANTS
    Conns,          \* SSH connections and simulation requests
    Keys,           \* "ip:username", the key of sessionsByAddr
    SimKey,         \* the key every simulated session is indexed under
    Timeout,        \* sessionReuseTimeout, in ticks
    MaxSessions,    \* bound: sessions created in one behaviour
    NoSession       \* nil *SessionContext / an absent index entry

ASSUME TimeoutPositive == Timeout \in Nat \ {0}
ASSUME MaxSessionsNat  == MaxSessions \in Nat
ASSUME NoSessionIsNoId == NoSession \notin Nat
ASSUME SimKeyApart     == SimKey \in Keys

Ids == 1..MaxSessions       \* the uuids, numbered in the order of creation
Old == Timeout + 1          \* the age at which a counter stops
Connected == Timeout + 2    \* DisconnectedAt = nil

VARIABLES
    sessions,   \* keys of m.sessions
    index,      \* m.sessionsByAddr
    created,    \* sessions created so far
    keyOf,      \* RemoteAddr and Username of each session
    idle,       \* time since LastActivity
    since,      \* time since DisconnectedAt, or Connected
    conns       \* what each connection is doing

vars == <<sessions, index, created, keyOf, idle, since, conns>>

Away == [pc |-> "away", key |-> NoSession, sess |-> NoSession, shell |-> FALSE]

Reusable(s) == since[s] = Connected \/ since[s] < Timeout

Set(c, pc, sess) == conns' = [conns EXCEPT ![c].pc = pc, ![c].sess = sess]

-----------------------------------------------------------------------------
(* GetOrCreateSession *)

\* Bug: the index is searched by user name only, so a session of any address,
\* a simulated one included, will do.
LookupByUser(c, k, shell) ==
    /\ conns[c].pc = "away"
    /\ k # SimKey
    /\ \E other \in Keys :
         conns' = [conns EXCEPT ![c] =
           [pc |-> "found", key |-> k, shell |-> shell,
            sess |-> IF index[other] \in sessions THEN index[other] ELSE NoSession]]
    /\ UNCHANGED <<sessions, index, created, keyOf, idle, since>>

\* The first half: read the index and the table under the read lock.
Lookup(c, k, shell) ==
    /\ conns[c].pc = "away"
    /\ k # SimKey
    /\ conns' = [conns EXCEPT ![c] =
           [pc |-> "found", key |-> k, shell |-> shell,
            sess |-> IF index[k] \in sessions THEN index[k] ELSE NoSession]]
    /\ UNCHANGED <<sessions, index, created, keyOf, idle, since>>

\* Bug: a nil session is not told apart.
FoundOrNil(c) == conns[c].sess = NoSession \/ Reusable(conns[c].sess)

\* existing != nil && existing.ReusableWithin(sessionReuseTimeout)
Found(c) == conns[c].sess # NoSession /\ Reusable(conns[c].sess)

\* The session found is reusable: it is touched, and stays as it is otherwise.
Reuse(c) ==
    LET s == conns[c].sess IN
    /\ conns[c].pc = "found"
    /\ Found(c)
    /\ idle' = [idle EXCEPT ![s] = 0]
    /\ Set(c, "open", s)
    /\ UNCHANGED <<sessions, index, created, keyOf, since>>

\* Bug: the new session takes the key's place only if the place is free.
InsertIfFree(c, k, shell) ==
    LET s == created + 1 IN
    /\ created < MaxSessions
    /\ created' = s
    /\ sessions' = sessions \cup {s}
    /\ index' = [index EXCEPT ![k] = IF @ = NoSession THEN s ELSE @]
    /\ keyOf' = [keyOf EXCEPT ![s] = k]
    /\ idle' = [idle EXCEPT ![s] = 0]
    /\ since' = [since EXCEPT ![s] = Connected]
    /\ conns' = [conns EXCEPT ![c] =
           [pc |-> "open", key |-> k, shell |-> shell, sess |-> s]]

\* CreateSession inserts and indexes a new session whatever is there by now.
Insert(c, k, shell) ==
    LET s == created + 1 IN
    /\ created < MaxSessions
    /\ created' = s
    /\ sessions' = sessions \cup {s}
    /\ index' = [index EXCEPT ![k] = s]
    /\ keyOf' = [keyOf EXCEPT ![s] = k]
    /\ idle' = [idle EXCEPT ![s] = 0]
    /\ since' = [since EXCEPT ![s] = Connected]
    /\ conns' = [conns EXCEPT ![c] =
           [pc |-> "open", key |-> k, shell |-> shell, sess |-> s]]

Create(c) ==
    /\ conns[c].pc = "found"
    /\ ~Found(c)
    /\ Insert(c, conns[c].key, conns[c].shell)

\* getOrCreateSimSession: the session named in the request, else a new one.
Simulate(c) ==
    /\ conns[c].pc = "away"
    /\ \/ \E s \in sessions :
            /\ conns' = [conns EXCEPT ![c] =
                   [pc |-> "open", key |-> SimKey, shell |-> FALSE, sess |-> s]]
            /\ UNCHANGED <<sessions, index, created, keyOf, idle, since>>
       \/ Insert(c, SimKey, FALSE)

-----------------------------------------------------------------------------
(* Connections at work *)

\* ExecuteCommand touches the session, if it is still in the table.
Command(c) ==
    LET s == conns[c].sess IN
    /\ conns[c].pc = "open"
    /\ idle' = IF s \in sessions THEN [idle EXCEPT ![s] = 0] ELSE idle
    /\ UNCHANGED <<sessions, index, created, keyOf, since, conns>>

\* A shell marks its session disconnected when it ends, a one-shot command
\* leaves that to the idle cleaner.
Close(c) ==
    LET s == conns[c].sess IN
    /\ conns[c].pc = "open"
    /\ since' = IF conns[c].shell /\ s \in sessions THEN [since EXCEPT ![s] = 0] ELSE since
    /\ conns' = [conns EXCEPT ![c] = Away]
    /\ UNCHANGED <<sessions, index, created, keyOf, idle>>

-----------------------------------------------------------------------------
(* The manager *)

Older(age) == IF age < Old THEN age + 1 ELSE age

Tick ==
    /\ idle' = [s \in Ids |-> Older(idle[s])]
    /\ since' = [s \in Ids |-> Older(since[s])]
    /\ UNCHANGED <<sessions, index, created, keyOf, conns>>

\* Bug: the index is not cleaned.
CleanMarkingOnly ==
    LET Stale == {s \in sessions : since[s] = Connected /\ idle[s] > Timeout}
    IN /\ since' = [s \in Ids |-> IF s \in Stale THEN 0 ELSE since[s]]
       /\ UNCHANGED <<sessions, index, created, keyOf, idle, conns>>

\* idleSessionCleaner, both loops under the manager's lock.
Clean ==
    LET Stale == {s \in sessions : since[s] = Connected /\ idle[s] > Timeout}
    IN /\ since' = [s \in Ids |-> IF s \in Stale THEN 0 ELSE since[s]]
       /\ index' = [k \in Keys |->
              IF index[k] \in sessions /\ (index[k] \in Stale \/ Reusable(index[k]))
              THEN index[k] ELSE NoSession]
       /\ UNCHANGED <<sessions, created, keyOf, idle, conns>>

\* Bug: the index entry of the deleted session stays.
DeleteKeepingIndex(s) ==
    /\ s \in sessions
    /\ sessions' = sessions \ {s}
    /\ UNCHANGED <<index, created, keyOf, idle, since, conns>>

Delete(s) ==
    /\ s \in sessions
    /\ sessions' = sessions \ {s}
    /\ index' = [k \in Keys |-> IF index[k] = s THEN NoSession ELSE index[k]]
    /\ UNCHANGED <<created, keyOf, idle, since, conns>>

-----------------------------------------------------------------------------
Init ==
    /\ sessions = {}
    /\ index = [k \in Keys |-> NoSession]
    /\ created = 0
    /\ keyOf = [s \in Ids |-> NoSession]
    /\ idle = [s \in Ids |-> 0]
    /\ since = [s \in Ids |-> Connected]
    /\ conns = [c \in Conns |-> Away]

Next ==
    \/ \E c \in Conns : \/ \E k \in Keys, shell \in BOOLEAN : Lookup(c, k, shell)
                        \/ Reuse(c) \/ Create(c) \/ Simulate(c) \/ Command(c) \/ Close(c)
    \/ Tick
    \/ Clean
    \/ \E s \in Ids : Delete(s)

Spec == Init /\ [][Next]_vars

\* Time passes and the cleaner's ticker fires; nobody has to connect or delete.
FairSpec == Spec /\ WF_vars(Tick) /\ WF_vars(Clean)
-----------------------------------------------------------------------------
(* Properties *)

Age == 0..Old

TypeOK ==
    /\ sessions \subseteq 1..created
    /\ created \in 0..MaxSessions
    /\ index \in [Keys -> Ids \cup {NoSession}]
    /\ keyOf \in [Ids -> Keys \cup {NoSession}]
    /\ idle \in [Ids -> Age]
    /\ since \in [Ids -> Age \cup {Connected}]
    /\ conns \in [Conns -> [pc : {"away", "found", "open"}, key : Keys \cup {NoSession},
                             sess : Ids \cup {NoSession}, shell : BOOLEAN]]
    /\ \A c \in Conns : conns[c].pc = "open" => conns[c].sess # NoSession

(* Whatever is created, cleaned and deleted in between the two halves of an
   arrival, the index never points at a session that is gone or that belongs
   to another address. *)
IndexLive ==
    \A k \in Keys : index[k] # NoSession =>
        index[k] \in sessions /\ keyOf[index[k]] = k

(* A live session that its own address no longer leads to has either been
   disconnected or been replaced in the index by a session created after it. *)
LostForAReason ==
    \A s \in sessions :
        \/ index[keyOf[s]] = s
        \/ since[s] # Connected
        \/ \E t \in 1..created : t > s /\ keyOf[t] = keyOf[s]

(* A connection works on a session of its own address and user, even if that
   session was looked up one step and deleted another. *)
OwnSession ==
    \A c \in Conns : conns[c].pc \in {"found", "open"} /\ conns[c].key # SimKey =>
        (conns[c].sess = NoSession \/ keyOf[conns[c].sess] = conns[c].key)

(* A session nobody uses for longer than the timeout is marked disconnected,
   touched again or deleted: it does not stay connected. *)
IdleEnds ==
    \A s \in Ids : (s \in sessions /\ idle[s] = Old)
        ~> (s \notin sessions \/ since[s] # Connected \/ idle[s] = 0)

(* The index forgets a session that is not used again: it is never both left
   in the index and left alone for good. *)
AbandonedForgotten ==
    \A k \in Keys, s \in Ids : []<>(index[k] # s \/ idle[s] = 0 \/ since[s] = 0)

(* The cleaner's two loops together: what is left alone is marked, and what is
   marked and left alone is forgotten. *)
IdleForgotten == IdleEnds /\ AbandonedForgotten
=============================================================================
