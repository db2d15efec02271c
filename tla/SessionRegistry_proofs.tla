----------------------- MODULE SessionRegistry_proofs -----------------------
(***************************************************************************)
(* Proofs about SessionRegistry, for any connections, addresses, timeout   *)
(* and number of sessions.                                                 *)
(***************************************************************************)
EXTENDS SessionRegistry, TLAPS

\* Every id in use has been handed out, so a new session's id is nobody's, and
\* an arrival knows the key it will insert under.
IdsHandedOut ==
    /\ \A s \in 1..created : keyOf[s] \in Keys
    /\ \A c \in Conns : conns[c].sess # NoSession => conns[c].sess \in 1..created
    /\ \A c \in Conns : conns[c].pc = "found" => conns[c].key \in Keys

IInv == TypeOK /\ IdsHandedOut /\ IndexLive /\ LostForAReason /\ OwnSession

USE TimeoutPositive, MaxSessionsNat, NoSessionIsNoId, SimKeyApart

-----------------------------------------------------------------------------
(* Growing older keeps an age an age and leaves a connected session so. *)
LEMMA OlderStays ==
    /\ \A age \in Age : Older(age) \in Age
    /\ \A age \in Age \cup {Connected} :
         /\ Older(age) \in Age \cup {Connected}
         /\ Older(age) = Connected <=> age = Connected
BY DEF Older, Age, Old, Connected

(* Ages are not the mark of a connected session. *)
LEMMA AgeIsNotConnected == 0 \in Age /\ Connected \notin Age
BY DEF Age, Old, Connected

LEMMA InitIInv == Init => IInv
<1> SUFFICES ASSUME Init PROVE IInv
    OBVIOUS
<1> USE DEF Init
<1>1. TypeOK
    BY AgeIsNotConnected, \A c \in Conns : conns[c] = Away DEF TypeOK, Away
<1>2. IdsHandedOut /\ IndexLive /\ LostForAReason /\ OwnSession
    BY \A c \in Conns : conns[c] = Away
    DEF IdsHandedOut, IndexLive, LostForAReason, OwnSession, Away
<1> QED BY <1>1, <1>2 DEF IInv

-----------------------------------------------------------------------------
(* Inserting a session under a key keeps the invariant, whoever asks. *)
LEMMA InsertKeeps ==
    ASSUME IInv, NEW c \in Conns, NEW k \in Keys, NEW shell \in BOOLEAN, Insert(c, k, shell)
    PROVE  IInv'
<1> DEFINE n == created + 1
<1> USE DEF Insert, IInv
<1>1. /\ n \in Ids /\ created' = n /\ created \in Nat /\ 1..created' = (1..created) \cup {n}
      /\ n \notin 1..created /\ 1..created \subseteq Ids
    BY DEF TypeOK, Ids
<1>2. TypeOK'
    BY <1>1, AgeIsNotConnected DEF TypeOK, Ids
<1>3. /\ keyOf' = [keyOf EXCEPT ![n] = k] /\ keyOf'[n] = k
      /\ \A s \in 1..created : keyOf'[s] = keyOf[s]
    BY <1>1 DEF TypeOK
<1>4. \A d \in Conns : conns'[d] = IF d = c THEN [pc |-> "open", key |-> k, shell |-> shell,
                                                   sess |-> n] ELSE conns[d]
    BY DEF TypeOK
<1>5. \A j \in Keys : index'[j] = IF j = k THEN n ELSE index[j]
    BY DEF TypeOK
<1>6. IdsHandedOut'
    BY <1>1, <1>3, <1>4 DEF IdsHandedOut
<1>7. IndexLive'
    BY <1>1, <1>3, <1>5 DEF IndexLive, TypeOK
<1>8. LostForAReason'
  <2> SUFFICES ASSUME NEW s \in sessions'
               PROVE  \/ index'[keyOf'[s]] = s
                      \/ since'[s] # Connected
                      \/ \E t \in 1..created' : t > s /\ keyOf'[t] = keyOf'[s]
      BY DEF LostForAReason
  <2>1. CASE s = n
      BY <2>1, <1>3, <1>5
  <2>2. CASE s # n
    <3>1. s \in sessions /\ s \in 1..created /\ keyOf'[s] = keyOf[s] /\ keyOf[s] \in Keys
        BY <2>2, <1>3 DEF TypeOK, IdsHandedOut
    <3>2. since'[s] = since[s]
        BY <2>2, <3>1, <1>1 DEF TypeOK
    <3>3. CASE keyOf[s] = k
        BY <3>1, <3>3, <1>1, <1>3
    <3>4. CASE keyOf[s] # k
      <4>1. index'[keyOf'[s]] = index[keyOf[s]]
          BY <3>1, <3>4, <1>5
      <4>2. \A t \in 1..created : t \in 1..created' /\ keyOf'[t] = keyOf[t]
          BY <1>1, <1>3
      <4> QED BY <4>1, <4>2, <3>1, <3>2 DEF LostForAReason
    <3> QED BY <3>3, <3>4
  <2> QED BY <2>1, <2>2
<1>9. OwnSession'
  <2> SUFFICES ASSUME NEW d \in Conns, conns'[d].pc \in {"found", "open"},
                      conns'[d].key # SimKey, conns'[d].sess # NoSession
               PROVE  keyOf'[conns'[d].sess] = conns'[d].key
      BY DEF OwnSession
  <2>1. CASE d = c
      BY <2>1, <1>3, <1>4
  <2>2. CASE d # c
      BY <2>2, <1>3, <1>4 DEF OwnSession, IdsHandedOut
  <2> QED BY <2>1, <2>2
<1> QED BY <1>2, <1>6, <1>7, <1>8, <1>9

(* Steps that leave the table, the index and the keys alone and let no session
   become connected again keep the session invariants. *)
LEMMA TableUntouched ==
    ASSUME IInv, UNCHANGED <<sessions, index, created, keyOf>>,
           \A s \in sessions : since[s] # Connected => since'[s] # Connected
    PROVE  IndexLive' /\ LostForAReason'
BY DEF IInv, IndexLive, LostForAReason

LEMMA NextKeeps == IInv /\ [Next]_vars => IInv'
<1> SUFFICES ASSUME IInv, [Next]_vars PROVE IInv'
    OBVIOUS
<1> USE DEF IInv
<1>1. ASSUME NEW c \in Conns, NEW k \in Keys, NEW shell \in BOOLEAN, Lookup(c, k, shell)
      PROVE  IInv'
  <2> USE <1>1 DEF Lookup
  <2>1. \A d \in Conns : conns'[d] = IF d = c THEN [pc |-> "found", key |-> k, shell |-> shell,
             sess |-> IF index[k] \in sessions THEN index[k] ELSE NoSession] ELSE conns[d]
      BY DEF TypeOK
  <2>2. TypeOK' /\ IdsHandedOut'
      BY <2>1 DEF TypeOK, IdsHandedOut
  <2>3. OwnSession'
      BY <2>1 DEF OwnSession, IndexLive, TypeOK
  <2> QED BY <2>2, <2>3, TableUntouched
<1>2. ASSUME NEW c \in Conns, Reuse(c) PROVE IInv'
  <2> USE <1>2 DEF Reuse, Set, Found
  <2>1. \A d \in Conns : /\ conns'[d].key = conns[d].key /\ conns'[d].sess = conns[d].sess
                         /\ conns'[d].pc = IF d = c THEN "open" ELSE conns[d].pc
      BY DEF TypeOK
  <2>2. TypeOK' /\ IdsHandedOut'
      BY <2>1, AgeIsNotConnected, ZenonT(40) DEF TypeOK, IdsHandedOut
  <2>3. OwnSession'
      BY <2>1 DEF OwnSession
  <2> QED BY <2>2, <2>3, TableUntouched
<1>3. ASSUME NEW c \in Conns, Create(c) PROVE IInv'
  <2>1. conns[c].key \in Keys \cup {NoSession} /\ conns[c].shell \in BOOLEAN
      BY DEF TypeOK
  <2>2. conns[c].key \in Keys
      BY <1>3 DEF IdsHandedOut, Create
  <2> QED BY <1>3, <2>1, <2>2, InsertKeeps DEF Create
<1>4. ASSUME NEW c \in Conns, Simulate(c) PROVE IInv'
  <2>1. CASE Insert(c, SimKey, FALSE)
      BY <2>1, InsertKeeps
  <2>2. ASSUME NEW s \in sessions,
               conns' = [conns EXCEPT ![c] =
                   [pc |-> "open", key |-> SimKey, shell |-> FALSE, sess |-> s]],
               UNCHANGED <<sessions, index, created, keyOf, idle, since>>
        PROVE  IInv'
    <3>1. \A d \in Conns : conns'[d] = IF d = c
               THEN [pc |-> "open", key |-> SimKey, shell |-> FALSE, sess |-> s] ELSE conns[d]
        BY <2>2 DEF TypeOK
    <3>2. TypeOK' /\ IdsHandedOut'
        BY <2>2, <3>1 DEF TypeOK, IdsHandedOut, Ids
    <3>3. OwnSession'
        BY <2>2, <3>1 DEF OwnSession
    <3> QED BY <2>2, <3>2, <3>3, TableUntouched
  <2> QED BY <1>4, <2>1, <2>2 DEF Simulate
<1>5. ASSUME NEW c \in Conns, Command(c) PROVE IInv'
  <2> USE <1>5 DEF Command
  <2>1. TypeOK' /\ IdsHandedOut' /\ OwnSession'
      BY AgeIsNotConnected DEF TypeOK, IdsHandedOut, OwnSession
  <2> QED BY <2>1, TableUntouched
<1>6. ASSUME NEW c \in Conns, Close(c) PROVE IInv'
  <2> USE <1>6 DEF Close
  <2>1. \A d \in Conns : conns'[d] = IF d = c THEN Away ELSE conns[d]
      BY DEF TypeOK
  <2>2. TypeOK' /\ IdsHandedOut'
      BY <2>1, AgeIsNotConnected DEF TypeOK, IdsHandedOut, Away
  <2>3. OwnSession'
      BY <2>1 DEF OwnSession, Away
  <2>4. \A s \in sessions : since[s] # Connected => since'[s] # Connected
      BY AgeIsNotConnected DEF TypeOK, Ids
  <2> QED BY <2>2, <2>3, <2>4, TableUntouched
<1>7. ASSUME Tick PROVE IInv'
  <2> USE <1>7 DEF Tick
  <2>1. TypeOK'
      BY OlderStays DEF TypeOK
  <2>2. \A s \in sessions : since[s] # Connected => since'[s] # Connected
      BY OlderStays DEF TypeOK, Ids
  <2>3. IdsHandedOut' /\ OwnSession'
      BY DEF IdsHandedOut, OwnSession
  <2> QED BY <2>1, <2>2, <2>3, TableUntouched
<1>8. ASSUME Clean PROVE IInv'
  <2> DEFINE Stale == {s \in sessions : since[s] = Connected /\ idle[s] > Timeout}
  <2>1. /\ since' = [s \in Ids |-> IF s \in Stale THEN 0 ELSE since[s]]
        /\ index' = [k \in Keys |->
               IF index[k] \in sessions /\ (index[k] \in Stale \/ Reusable(index[k]))
               THEN index[k] ELSE NoSession]
        /\ UNCHANGED <<sessions, created, keyOf, idle, conns>>
      BY <1>8 DEF Clean
  <2>2. TypeOK'
      BY <2>1, AgeIsNotConnected DEF TypeOK
  <2>3. IdsHandedOut' /\ OwnSession' /\ IndexLive'
      BY <2>1 DEF IdsHandedOut, OwnSession, IndexLive
  <2>4. LostForAReason'
    <3> SUFFICES ASSUME NEW s \in sessions
                 PROVE  \/ index'[keyOf[s]] = s
                        \/ since'[s] # Connected
                        \/ \E t \in 1..created : t > s /\ keyOf[t] = keyOf[s]
        BY <2>1 DEF LostForAReason
    <3>1. s \in Ids /\ keyOf[s] \in Keys
        BY DEF TypeOK, IdsHandedOut, Ids
    <3>2. CASE since[s] # Connected
        BY <2>1, <3>1, <3>2, AgeIsNotConnected
    <3>3. CASE since[s] = Connected /\ index[keyOf[s]] = s
        BY <2>1, <3>1, <3>3 DEF Reusable
    <3> QED BY <3>2, <3>3 DEF LostForAReason
  <2> QED BY <2>2, <2>3, <2>4
<1>9. ASSUME NEW s \in Ids, Delete(s) PROVE IInv'
  <2> USE <1>9 DEF Delete
  <2>1. TypeOK' /\ IdsHandedOut' /\ OwnSession'
      BY DEF TypeOK, IdsHandedOut, OwnSession
  <2>2. IndexLive'
      BY DEF IndexLive
  <2>3. LostForAReason'
      BY DEF LostForAReason, TypeOK, IdsHandedOut
  <2> QED BY <2>1, <2>2, <2>3
<1>10. CASE UNCHANGED vars
    BY <1>10 DEF vars, TypeOK, IdsHandedOut, IndexLive, LostForAReason, OwnSession
<1> QED
    BY <1>1, <1>2, <1>3, <1>4, <1>5, <1>6, <1>7, <1>8, <1>9, <1>10 DEF Next

THEOREM Invariance == Spec => []IInv
BY InitIInv, NextKeeps, PTL DEF Spec

-----------------------------------------------------------------------------
(* Every variable of the registry keeps its type, and an open connection has a
   session. *)
THEOREM TypeCorrect == Spec => []TypeOK
BY Invariance, PTL DEF IInv

(* For any number of connections and sessions the index never names a session
   that is gone or another address's. *)
THEOREM IndexIsLive == Spec => []IndexLive
BY Invariance, PTL DEF IInv

(* A live session its address does not lead to has been disconnected or
   replaced. *)
THEOREM NoSessionLost == Spec => []LostForAReason
BY Invariance, PTL DEF IInv

(* Every SSH connection works on a session of its own address and user. *)
THEOREM SessionsApart == Spec => []OwnSession
BY Invariance, PTL DEF IInv
=============================================================================
