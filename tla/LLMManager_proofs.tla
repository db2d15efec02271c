--------------------------- MODULE LLMManager_proofs ---------------------------
(***************************************************************************)
(* Proofs about LLMManager.                                                *)
(***************************************************************************)
EXTENDS LLMManager, TLAPS

AnyKey == Keys \cup EnvKeys \cup {NoKey}
AnyUrl == Urls \cup {NoUrl}

LEMMA ResolvedTyped ==
    ASSUME NEW id \in Ids, NEW k \in AnyKey
    PROVE  /\ Resolved(id, k) \in AnyKey
           /\ Resolved(id, Resolved(id, k)) = Resolved(id, k)
BY EnvTyped DEF Resolved, AnyKey

LEMMA LiveTyped ==
    ASSUME NEW id \in Ids, NEW s \in Stored
    PROVE  Live(id, s) \in Instances /\ Live(id, s).id = id
BY ResolvedTyped DEF Live, Stored, Instances, AnyKey

LEMMA PutTyped ==
    ASSUME TypedConfig(config), NEW id \in Ids, NEW s \in Stored
    PROVE  /\ DOMAIN Updated(id, s) = Known(config) \cup {id}
           /\ Updated(id, s) \in [DOMAIN Updated(id, s) -> Stored]
           /\ Updated(id, s)[id] = s
           /\ \A x \in Known(config) : x # id => Updated(id, s)[x] = config.table[x]
BY DEF TypedConfig, Known, Updated

LEMMA ConfigSet ==
    ASSUME TypedConfig(config), NEW on \in BOOLEAN, NEW id \in Ids
    PROVE  LET e == [config EXCEPT !.enabled = on]
               c == [config EXCEPT !.chosen = id]
           IN /\ TypedConfig(e) /\ e.enabled = on /\ e.chosen = config.chosen /\ e.table = config.table
              /\ TypedConfig(c) /\ c.enabled = config.enabled /\ c.chosen = id /\ c.table = config.table
BY DEF TypedConfig, Known

LEMMA TableSet ==
    ASSUME TypedConfig(config), NEW t, DOMAIN t \subseteq Ids, t \in [DOMAIN t -> Stored]
    PROVE  LET c == [config EXCEPT !.table = t]
           IN TypedConfig(c) /\ c.enabled = config.enabled /\ c.chosen = config.chosen /\ c.table = t
BY DEF TypedConfig, Known

(* What the settings of id hold after one of them is overwritten through a pointer. *)
LEMMA UrlSet ==
    ASSUME TypedConfig(config), NEW id \in Known(config), NEW u \in AnyUrl,
           config' = [config EXCEPT !.table[id].url = u]
    PROVE  /\ TypedConfig(config') /\ config'.enabled = config.enabled /\ config'.chosen = config.chosen
           /\ Known(config') = Known(config)
           /\ \A x \in Known(config) : x # id => config'.table[x] = config.table[x]
           /\ config'.table[id].key = config.table[id].key /\ config'.table[id].on = config.table[id].on
<1> DEFINE t == [config.table EXCEPT ![id] = [config.table[id] EXCEPT !.url = u]]
<1>1. /\ t \in [Known(config) -> Stored] /\ t[id] = [config.table[id] EXCEPT !.url = u]
      /\ config.table[id] \in Stored
    BY DEF TypedConfig, AnyUrl, Stored
<1>2. config'.table = t /\ config'.enabled = config.enabled /\ config'.chosen = config.chosen /\ DOMAIN config' = DOMAIN config
    BY DEF TypedConfig
<1> QED BY <1>1, <1>2 DEF TypedConfig, Known, Stored

LEMMA KeySet ==
    ASSUME TypedConfig(config), NEW id \in Known(config), NEW k \in AnyKey,
           config' = [config EXCEPT !.table[id].key = k]
    PROVE  /\ TypedConfig(config') /\ config'.enabled = config.enabled /\ config'.chosen = config.chosen
           /\ Known(config') = Known(config)
           /\ \A x \in Known(config) : x # id => config'.table[x] = config.table[x]
           /\ config'.table[id].url = config.table[id].url /\ config'.table[id].on = config.table[id].on
           /\ config'.table[id].key = k
<1> DEFINE t == [config.table EXCEPT ![id] = [config.table[id] EXCEPT !.key = k]]
<1>1. /\ t \in [Known(config) -> Stored] /\ t[id] = [config.table[id] EXCEPT !.key = k]
      /\ config.table[id] \in Stored
    BY DEF TypedConfig, AnyKey, Stored
<1>2. config'.table = t /\ config'.enabled = config.enabled /\ config'.chosen = config.chosen /\ DOMAIN config' = DOMAIN config
    BY DEF TypedConfig
<1> QED BY <1>1, <1>2 DEF TypedConfig, Known, Stored

LEMMA EmptyTyped == TypedConfig(Empty) /\ Known(Empty) = {}
BY DEF TypedConfig, Empty, Known

LEMMA SaveTyped ==
    ASSUME TypedConfig(disk), TypedConfig(config'), changes \in Nat, Save(config')
    PROVE  /\ TypedConfig(disk') /\ unsaved' \in BOOLEAN /\ changes' \in Nat
           /\ ~unsaved' => disk' = config'
           /\ disk' \in {disk, config', Empty}
<1>1. changes' \in Nat
    BY DEF Save, Change
<1>2. \/ disk' = config' /\ unsaved' = FALSE
      \/ disk' \in {disk, Empty} /\ unsaved' = TRUE
    BY DEF Save, Saved, SaveFails
<1>3. disk' = config' \/ disk' = disk \/ disk' = Empty
    BY <1>2
<1>4. TypedConfig(disk')
    BY <1>3, EmptyTyped
<1> QED BY <1>1, <1>2, <1>4

(* NewManager *)
LEMMA StartedTyped ==
    ASSUME NEW c, TypedConfig(c)
    PROVE  /\ Started(c) \in [Ids -> Instances \cup {NoProvider}]
           /\ \A id \in Ids : Started(c)[id] # NoProvider =>
                /\ Started(c)[id].id = id /\ id \in Known(c) /\ c.table[id].on
                /\ Started(c)[id] = Live(id, c.table[id])
           /\ ActiveAtStart(c) \in Instances \cup {NoProvider}
           /\ ActiveAtStart(c) # NoProvider => c.chosen \in Ids /\ ActiveAtStart(c) = Started(c)[c.chosen]
<1>1. \A id \in Known(c) : c.table[id] \in Stored /\ id \in Ids
    BY DEF TypedConfig
<1>2. \A id \in Known(c) : Live(id, c.table[id]) \in Instances /\ Live(id, c.table[id]).id = id
    BY <1>1, LiveTyped
<1> QED BY <1>1, <1>2 DEF Started, ActiveAtStart, Ready

-----------------------------------------------------------------------------
(* The inductive invariant *)

(* A test looked its settings up, in a list that only a restart shortens. *)
Located == \A a \in Admins : handler[a].pc \in {"test", "key"} => handler[a].id \in Known(config)

(* Where a key from the environment may be on its way to the settings. *)
Carried ==
    \A a \in Admins :
        /\ handler[a].pc = "put" /\ handler[a].set.key \in EnvKeys => handler[a].id \in tested
        /\ handler[a].pc = "test" => handler[a].key \notin EnvKeys
        /\ handler[a].pc = "key" /\ handler[a].key \in EnvKeys => handler[a].id \in tested

(* A test without a key of its own writes the key that the provider uses anyway. *)
Harmless ==
    \A a \in Admins :
        handler[a].pc = "key" /\ ~handler[a].foreign /\ handler[a].id \notin touched =>
            handler[a].key = Resolved(handler[a].id, config.table[handler[a].id].key)

(* While the LLM is off and a provider is active, a switch or update came last, or
   nobody has seen it on since the start. *)
Dark == ~config.enabled /\ active # NoProvider /\ ~relit =>
            \A j \in Callers : caller[j].pc # "checked"

(* What is on the disk after a write, up to what tests have overwritten since. *)
Synced ==
    ~unsaved =>
        /\ disk.chosen = config.chosen /\ Known(disk) = Known(config)
        /\ \A id \in Known(config) \ touched :
             /\ disk.table[id].url = config.table[id].url
             /\ disk.table[id].on = config.table[id].on
             /\ Resolved(id, disk.table[id].key) = Resolved(id, config.table[id].key)

IInv == TypeOK /\ Located /\ LiveIsConfigured /\ EnvKeyStaysOut /\ Carried /\ Harmless /\ Dark /\ Synced

-----------------------------------------------------------------------------
(* Types *)

Calls == {Quiet} \cup [pc : {"checked"}, via : {NoProvider}] \cup [pc : {"asking"}, via : Instances]

LEMMA HandlerTyped ==
    ASSUME TypeOK, NEW a \in Admins
    PROVE  /\ handler[a] \in Handlers
           /\ handler[a].pc = "put" => handler[a].id \in Ids /\ handler[a].set \in Stored
           /\ handler[a].pc \in {"test", "key"} =>
                /\ handler[a] \in [pc : {"test", "key"}, id : Ids, url : AnyUrl, key : AnyKey,
                                   foreign : BOOLEAN, lost : BOOLEAN]
                /\ handler[a].id \in Ids /\ handler[a].url \in AnyUrl /\ handler[a].key \in AnyKey
BY DEF TypeOK, Handlers, Resting, AnyUrl, AnyKey

LEMMA OvertakenTyped ==
    ASSUME NEW h \in Handlers, NEW id, NEW moved \in BOOLEAN
    PROVE  /\ Overtaken(h, id, moved) \in Handlers
           /\ Overtaken(h, id, moved).pc = h.pc
           /\ h.pc \notin {"test", "key"} => Overtaken(h, id, moved) = h
           /\ h.pc \in {"test", "key"} =>
                /\ Overtaken(h, id, moved).id = h.id /\ Overtaken(h, id, moved).key = h.key
                /\ Overtaken(h, id, moved).foreign = (h.foreign \/ h.id = id)
<1>1. CASE h.pc \in {"test", "key"}
    <2>1. h \in [pc : {"test", "key"}, id : Ids, url : Urls \cup {NoUrl},
                 key : Keys \cup EnvKeys \cup {NoKey}, foreign : BOOLEAN, lost : BOOLEAN]
        BY <1>1 DEF Handlers, Resting
    <2>2. Overtaken(h, id, moved) = [h EXCEPT !.foreign = @ \/ h.id = id, !.lost = @ \/ moved]
        BY <1>1 DEF Overtaken
    <2> QED BY <1>1, <2>1, <2>2 DEF Handlers
<1>2. CASE h.pc \notin {"test", "key"}
    BY <1>2 DEF Overtaken
<1> QED BY <1>1, <1>2

LEMMA UpdateDoes ==
    ASSUME TypeOK, NEW a \in Admins, Update(a)
    PROVE  LET id == handler[a].id
               s == handler[a].set
           IN /\ id \in Ids /\ s \in Stored
              /\ TypedConfig(config') /\ config'.enabled = config.enabled
              /\ config'.chosen = config.chosen
              /\ Known(config') = Known(config) \cup {id} /\ config'.table[id] = s
              /\ \A x \in Known(config) : x # id => config'.table[x] = config.table[x]
<1> DEFINE id == handler[a].id
           s == handler[a].set
           t == Updated(id, s)
<1>1. id \in Ids /\ s \in Stored /\ TypedConfig(config)
    BY HandlerTyped DEF Update, TypeOK
<1>2. config' = [config EXCEPT !.table = t]
    BY DEF Update
<1> HIDE DEF id, s
<1>3. /\ DOMAIN t = Known(config) \cup {id} /\ t \in [DOMAIN t -> Stored] /\ t[id] = s
      /\ \A x \in Known(config) : x # id => t[x] = config.table[x]
    BY <1>1, PutTyped
<1>4. DOMAIN t \subseteq Ids
    BY <1>1, <1>3 DEF TypedConfig
<1> HIDE DEF t
<1>5. /\ TypedConfig(config') /\ config'.enabled = config.enabled
      /\ config'.chosen = config.chosen /\ config'.table = t
    BY <1>1, <1>2, <1>3, <1>4, TableSet
<1> QED BY <1>1, <1>3, <1>5 DEF Known, id, s

LEMMA TestURLDoes ==
    ASSUME TypeOK, Located, NEW a \in Admins, TestURL(a)
    PROVE  LET id == handler[a].id
           IN /\ id \in Known(config) /\ id \in Ids
              /\ TypedConfig(config') /\ config'.enabled = config.enabled
              /\ config'.chosen = config.chosen /\ Known(config') = Known(config)
              /\ \A x \in Known(config) : x # id => config'.table[x] = config.table[x]
              /\ config'.table[id].key = config.table[id].key
              /\ config'.table[id].on = config.table[id].on
              /\ id \notin touched' => config' = config
              /\ touched \subseteq touched' /\ touched' \subseteq touched \cup {id}
<1> DEFINE id == handler[a].id
<1>1. /\ handler[a].pc = "test" /\ id \in Known(config) /\ id \in Ids
      /\ handler[a].url \in AnyUrl /\ TypedConfig(config)
    BY HandlerTyped DEF TestURL, Located, TypeOK
<1>2. CASE TestFails(handler[a])
    BY <1>1, <1>2 DEF TestURL, aux
<1>3. CASE ~TestFails(handler[a])
    <2>1. /\ config' = IF handler[a].url = NoUrl THEN config
                       ELSE [config EXCEPT !.table[id].url = handler[a].url]
          /\ touched' = IF handler[a].url # NoUrl \/ handler[a].key # NoKey
                        THEN touched \cup {id} ELSE touched
        BY <1>3 DEF TestURL
    <2>2. CASE handler[a].url = NoUrl
        BY <1>1, <2>1, <2>2
    <2>3. CASE handler[a].url # NoUrl
        BY <1>1, <2>1, <2>3, UrlSet
    <2> QED BY <2>2, <2>3
<1> QED BY <1>2, <1>3

LEMMA TestKeyDoes ==
    ASSUME TypeOK, Located, NEW a \in Admins, TestKey(a)
    PROVE  LET id == handler[a].id
           IN /\ id \in Known(config) /\ id \in Ids /\ handler[a].key \in AnyKey
              /\ TypedConfig(config') /\ config'.enabled = config.enabled
              /\ config'.chosen = config.chosen /\ Known(config') = Known(config)
              /\ \A x \in Known(config) : x # id => config'.table[x] = config.table[x]
              /\ config'.table[id].url = config.table[id].url
              /\ config'.table[id].on = config.table[id].on
              /\ config'.table[id].key = handler[a].key
              /\ touched' = IF handler[a].foreign THEN touched \cup {id} ELSE touched
<1>1. /\ handler[a].pc = "key" /\ handler[a].id \in Known(config) /\ handler[a].id \in Ids
      /\ handler[a].key \in AnyKey /\ TypedConfig(config)
    BY HandlerTyped DEF TestKey, Located, TypeOK
<1>2. /\ config' = [config EXCEPT !.table[handler[a].id].key = handler[a].key]
      /\ touched' = IF handler[a].foreign THEN touched \cup {handler[a].id} ELSE touched
    BY DEF TestKey
<1> DEFINE id == handler[a].id
           k == handler[a].key
<1>3. id \in Known(config) /\ k \in AnyKey /\ config' = [config EXCEPT !.table[id].key = k]
    BY <1>1, <1>2
<1> HIDE DEF id, k
<1>4. /\ TypedConfig(config') /\ config'.enabled = config.enabled
      /\ config'.chosen = config.chosen /\ Known(config') = Known(config)
      /\ \A x \in Known(config) : x # id => config'.table[x] = config.table[x]
      /\ config'.table[id].url = config.table[id].url
      /\ config'.table[id].on = config.table[id].on
      /\ config'.table[id].key = k
    BY <1>1, <1>3, KeySet
<1> QED BY <1>1, <1>2, <1>4 DEF id, k

(* What the actions that save do to the file and the counters. *)
LEMMA Saving ==
    ASSUME TypeOK, TypedConfig(config'), Save(config')
    PROVE  TypedConfig(disk') /\ unsaved' \in BOOLEAN /\ changes' \in Nat
BY SaveTyped DEF TypeOK

LEMMA InitType == Init => TypeOK
<1> SUFFICES ASSUME Init PROVE TypeOK
    OBVIOUS
<1>1. TypedConfig(config)
    <2>1. /\ config.enabled \in BOOLEAN /\ config.chosen \in Ids \cup {NoId}
          /\ DOMAIN config = {"enabled", "chosen", "table"}
          /\ DOMAIN config.table \subseteq Ids /\ config.table \in [DOMAIN config.table -> Settings]
        BY InitialTyped DEF Init
    <2>2. Settings \subseteq Stored
        BY DEF Settings, Stored
    <2> QED BY <2>1, <2>2 DEF TypedConfig, Known
<1>2. Started(config) \in [Ids -> Instances \cup {NoProvider}]
    BY <1>1, StartedTyped
<1>3. \A id \in Ids : Started(config)[id] # NoProvider => Started(config)[id].id = id
    BY <1>1, StartedTyped
<1>4. ActiveAtStart(config) \in Instances \cup {NoProvider}
    BY <1>1, StartedTyped
<1> QED BY <1>1, <1>2, <1>3, <1>4 DEF Init, TypeOK, Handlers

(* An action of a caller, of a handler, or of the manager. *)
CallerActs(j) == Check(j) \/ Ask(j) \/ Answer(j)

LEMMA CallerTypes ==
    ASSUME TypeOK, NEW j \in Callers, CallerActs(j)
    PROVE  TypeOK'
<1>1. caller \in [Callers -> Calls]
    BY DEF TypeOK, Calls
<1>2. caller' \in [Callers -> Calls]
    <2> USE <1>1 DEF Calls
    <2>1. CASE Check(j)
        BY <2>1 DEF Check
    <2>2. CASE Ask(j)
        <3>1. /\ active = NoProvider \/ active \in Instances
              /\ caller' = [caller EXCEPT ![j] =
                    IF active = NoProvider THEN Quiet ELSE [pc |-> "asking", via |-> active]]
            BY <2>2 DEF Ask, TypeOK
        <3> QED BY <3>1
    <2>3. CASE Answer(j)
        BY <2>3 DEF Answer
    <2> QED BY <2>1, <2>2, <2>3 DEF CallerActs
<1>3. UNCHANGED <<config, providers, active, disk, handler, aux, changes>>
    BY DEF CallerActs, Check, Ask, Answer
<1> QED BY <1>2, <1>3 DEF TypeOK, aux, Calls

LEMMA SwitchTypes ==
    ASSUME TypeOK, NEW id \in Ids, Switch(id)
    PROVE  TypeOK'
<1>1. TypedConfig(config')
    BY ConfigSet DEF Switch, TypeOK
<1>2. TypedConfig(disk') /\ unsaved' \in BOOLEAN /\ changes' \in Nat
    BY <1>1, Saving DEF Switch
<1>3. config.table[id] \in Stored
    BY DEF Switch, TypeOK, TypedConfig
<1>4. PICK p : /\ p = IF providers[id] = NoProvider THEN Live(id, config.table[id]) ELSE providers[id]
               /\ providers' = [providers EXCEPT ![id] = p] /\ active' = p
    BY DEF Switch
<1>5. p \in Instances \cup {NoProvider} /\ p.id = id
    BY <1>3, <1>4, LiveTyped DEF TypeOK
<1>6. /\ providers' \in [Ids -> Instances \cup {NoProvider}]
      /\ \A x \in Ids : providers'[x] # NoProvider => providers'[x].id = x
      /\ active' \in Instances \cup {NoProvider}
    BY <1>4, <1>5 DEF TypeOK
<1>7. UNCHANGED <<caller, handler, touched, tested>> /\ relit' = TRUE
    BY DEF Switch
<1> QED BY <1>1, <1>2, <1>6, <1>7 DEF TypeOK

LEMMA EnableTypes ==
    ASSUME TypeOK, NEW on \in BOOLEAN, SetEnabled(on)
    PROVE  TypeOK'
<1>1. TypedConfig(config')
    <2>1. [config EXCEPT !.enabled = on] \in {config'}
        BY DEF SetEnabled
    <2> QED BY <2>1 DEF TypeOK, TypedConfig, Known
<1>2. TypedConfig(disk') /\ unsaved' \in BOOLEAN /\ changes' \in Nat
    BY <1>1, Saving DEF SetEnabled
<1>3. active' \in Instances \cup {NoProvider}
    BY DEF SetEnabled, TypeOK, TypedConfig
<1>4. UNCHANGED <<providers, caller, handler, touched, tested>> /\ relit' = FALSE
    BY DEF SetEnabled
<1> QED BY <1>1, <1>2, <1>3, <1>4 DEF TypeOK

LEMMA PutTypes ==
    ASSUME TypeOK, NEW a \in Admins, NEW id \in Ids, NEW s \in Puts, Put(a, id, s)
    PROVE  TypeOK'
<1>1. s \in Stored
    BY SettingsTyped DEF Settings, Stored
<1>2. PICK k : /\ k = IF s.key = NoKey /\ id \in Known(config) THEN config.table[id].key ELSE s.key
               /\ handler' = [handler EXCEPT ![a] = [pc |-> "put", id |-> id, set |-> [s EXCEPT !.key = k]]]
    BY DEF Put
<1>3. k \in AnyKey
    BY <1>1, <1>2 DEF TypeOK, TypedConfig, Stored, AnyKey
<1>4. [s EXCEPT !.key = k] \in Stored
    BY <1>1, <1>3 DEF Stored, AnyKey
<1>5. handler' \in [Admins -> Handlers]
    BY <1>2, <1>4 DEF TypeOK, Handlers
<1>6. UNCHANGED <<config, providers, active, disk, caller, aux, changes>>
    BY DEF Put
<1> QED BY <1>5, <1>6 DEF TypeOK, aux

LEMMA UpdateTypes ==
    ASSUME TypeOK, NEW a \in Admins, Update(a)
    PROVE  TypeOK'
<1> DEFINE id == handler[a].id
           s == handler[a].set
<1>1. id \in Ids /\ s \in Stored /\ TypedConfig(config')
    BY UpdateDoes
<1>2. TypedConfig(disk') /\ unsaved' \in BOOLEAN /\ changes' \in Nat
    BY <1>1, Saving DEF Update
<1>3. /\ providers' = [providers EXCEPT ![id] = IF Ready(id, s) THEN Live(id, s) ELSE NoProvider]
      /\ active' = IF config.chosen = id THEN providers'[id] ELSE active
      /\ touched' = touched \ {id} /\ relit' = TRUE /\ UNCHANGED <<caller, tested>>
    BY DEF Update
<1>4. PICK moved \in BOOLEAN :
        handler' = [b \in Admins |-> IF b = a THEN Resting ELSE Overtaken(handler[b], id, moved)]
    BY DEF Update
<1> HIDE DEF id, s
<1>5. /\ providers' \in [Ids -> Instances \cup {NoProvider}]
      /\ \A x \in Ids : providers'[x] # NoProvider => providers'[x].id = x
    BY <1>1, <1>3, LiveTyped DEF TypeOK
<1>6. active' \in Instances \cup {NoProvider}
    BY <1>1, <1>3, <1>5 DEF TypeOK
<1>7. handler' \in [Admins -> Handlers]
    <2>1. \A b \in Admins : Overtaken(handler[b], id, moved) \in Handlers
        BY OvertakenTyped DEF TypeOK
    <2>2. Resting \in Handlers
        BY DEF Handlers
    <2> QED BY <1>4, <2>1, <2>2
<1> QED BY <1>1, <1>2, <1>3, <1>5, <1>6, <1>7 DEF TypeOK

LEMMA TestTypes ==
    ASSUME TypeOK, Located, NEW a \in Admins
    PROVE  /\ \A id \in Ids, o \in Overrides : Test(a, id, o) => TypeOK'
           /\ TestURL(a) => TypeOK'
           /\ TestKey(a) => TypeOK'
           /\ TestLost(a) => TypeOK'
<1>1. ASSUME NEW id \in Ids, NEW o \in Overrides, Test(a, id, o) PROVE TypeOK'
    <2>1. o[1] \in AnyUrl /\ o[2] \in AnyKey
        BY SettingsTyped DEF AnyUrl, AnyKey
    <2>2. handler' \in [Admins -> Handlers]
        BY <1>1, <2>1 DEF Test, TypeOK, Handlers, AnyUrl, AnyKey
    <2>3. changes' \in Nat /\ UNCHANGED <<config, providers, active, disk, caller, aux>>
        BY <1>1 DEF Test, Change, TypeOK
    <2> QED BY <2>2, <2>3 DEF TypeOK, aux
<1>2. ASSUME TestURL(a) PROVE TypeOK'
    <2>1. TypedConfig(config') /\ handler[a].id \in Ids /\ handler[a].id \in Known(config)
          /\ touched' \subseteq touched \cup {handler[a].id}
        BY <1>2, TestURLDoes
    <2>2. /\ tested' \subseteq tested \cup {handler[a].id}
          /\ UNCHANGED <<providers, active, disk, caller, relit, unsaved, changes>>
        BY <1>2 DEF TestURL, aux
    <2>3. handler' \in [Admins -> Handlers]
        <3> DEFINE h == handler[a]
                   key == IF h.key = NoKey THEN Resolved(h.id, config.table[h.id].key) ELSE h.key
        <3>1. h \in [pc : {"test", "key"}, id : Ids, url : AnyUrl, key : AnyKey,
                     foreign : BOOLEAN, lost : BOOLEAN]
            BY <1>2, HandlerTyped DEF TestURL
        <3>2. config.table[h.id].key \in AnyKey
            BY <2>1 DEF TypeOK, TypedConfig, Stored, AnyKey
        <3>3. key \in AnyKey
            BY <3>1, <3>2, ResolvedTyped
        <3>4. \/ handler' = [handler EXCEPT ![a] = Resting]
              \/ handler' = [handler EXCEPT ![a] = [h EXCEPT !.pc = "key", !.key = key,
                                                              !.foreign = h.key # NoKey]]
            BY <1>2 DEF TestURL
        <3> HIDE DEF h, key
        <3>5. [h EXCEPT !.pc = "key", !.key = key, !.foreign = h.key # NoKey] \in Handlers
            BY <3>1, <3>3 DEF Handlers, AnyUrl, AnyKey
        <3>6. Resting \in Handlers /\ handler \in [Admins -> Handlers]
            BY DEF Handlers, TypeOK
        <3> QED BY <3>4, <3>5, <3>6
    <2> QED BY <2>1, <2>2, <2>3 DEF TypeOK
<1>3. ASSUME TestKey(a) PROVE TypeOK'
    <2>1. TypedConfig(config') /\ touched' \subseteq Ids
        BY <1>3, TestKeyDoes DEF TypeOK
    <2>2. handler' \in [Admins -> Handlers]
        BY <1>3 DEF TestKey, TypeOK, Handlers
    <2>3. UNCHANGED <<providers, active, disk, caller, tested, relit, unsaved, changes>>
        BY <1>3 DEF TestKey
    <2> QED BY <2>1, <2>2, <2>3 DEF TypeOK
<1>4. ASSUME TestLost(a) PROVE TypeOK'
    <2>1. handler' \in [Admins -> Handlers]
        BY <1>4 DEF TestLost, TypeOK, Handlers
    <2>2. UNCHANGED <<config, providers, active, disk, caller, aux, changes>>
        BY <1>4 DEF TestLost
    <2> QED BY <2>1, <2>2 DEF TypeOK, aux
<1> QED BY <1>1, <1>2, <1>3, <1>4

LEMMA RestartTypes ==
    ASSUME TypeOK, Restart
    PROVE  TypeOK'
<1>1. /\ Started(disk) \in [Ids -> Instances \cup {NoProvider}]
      /\ \A id \in Ids : Started(disk)[id] # NoProvider => Started(disk)[id].id = id
      /\ ActiveAtStart(disk) \in Instances \cup {NoProvider}
    BY StartedTyped DEF TypeOK
<1>2. /\ config' = disk /\ disk' = disk /\ providers' = Started(disk)
      /\ active' = ActiveAtStart(disk) /\ tested' = tested
      /\ touched' = {} /\ relit' = FALSE /\ unsaved' = FALSE
      /\ caller' = [j \in Callers |-> Quiet] /\ handler' = [a \in Admins |-> Resting]
    BY DEF Restart
<1>3. changes' \in Nat
    BY DEF Restart, Change, TypeOK
<1>4. caller' \in [Callers -> Calls] /\ handler' \in [Admins -> Handlers]
    BY <1>2 DEF Calls, Handlers
<1>5. TypedConfig(config') /\ TypedConfig(disk')
    BY <1>2 DEF TypeOK
<1> QED BY <1>1, <1>2, <1>3, <1>4, <1>5 DEF TypeOK, Calls

-----------------------------------------------------------------------------
(* The rest of the invariant, action by action *)

Rest == Located /\ LiveIsConfigured /\ EnvKeyStaysOut /\ Carried /\ Harmless /\ Dark /\ Synced

LEMMA RestKept ==
    ASSUME Rest, UNCHANGED <<config, providers, active, disk, handler, aux>>,
           \A j \in Callers : caller'[j].pc = "checked" => caller[j].pc = "checked" \/ config.enabled
    PROVE  Rest'
<1> USE DEF aux
<1>1. Located' /\ LiveIsConfigured' /\ EnvKeyStaysOut'
    BY DEF Rest, Located, LiveIsConfigured, EnvKeyStaysOut
<1>2. Carried' /\ Harmless' /\ Synced'
    BY DEF Rest, Carried, Harmless, Synced
<1>3. Dark'
    BY DEF Rest, Dark
<1> QED BY <1>1, <1>2, <1>3 DEF Rest

LEMMA CallerRest ==
    ASSUME TypeOK, Rest, NEW j \in Callers, CallerActs(j)
    PROVE  Rest'
<1>1. UNCHANGED <<config, providers, active, disk, handler, aux>>
    BY DEF CallerActs, Check, Ask, Answer
<1>2. \A i \in Callers : caller'[i].pc = "checked" => caller[i].pc = "checked" \/ config.enabled
    <2>1. caller \in [Callers -> Calls]
        BY DEF TypeOK, Calls
    <2>2. CASE Check(j)
        BY <2>2 DEF Check, IsActive
    <2>3. CASE Ask(j)
        BY <2>1, <2>3 DEF Ask, Quiet
    <2>4. CASE Answer(j)
        BY <2>1, <2>4 DEF Answer, Quiet
    <2> QED BY <2>2, <2>3, <2>4 DEF CallerActs
<1> QED BY <1>1, <1>2, RestKept

(* A write takes the settings as they are, or leaves those that were there. *)
LEMMA SavedClean ==
    ASSUME TypeOK, TypedConfig(config'), Save(config'), EnvKeyStaysOut, tested \subseteq tested',
           \A id \in Known(config') : config'.table[id].key \in EnvKeys => id \in tested'
    PROVE  EnvKeyStaysOut' /\ Synced'
<1>1. ~unsaved' => disk' = config'
    BY SaveTyped DEF TypeOK
<1>2. disk' = disk \/ disk' = config' \/ disk' = Empty
    BY SaveTyped DEF TypeOK
<1>3. Synced'
    BY <1>1 DEF Synced
<1>4. \A id \in Known(disk') : disk'.table[id].key \in EnvKeys => id \in tested'
    <2>1. CASE disk' = disk
        BY <2>1 DEF EnvKeyStaysOut
    <2>2. CASE disk' = config'
        BY <2>2
    <2>3. CASE disk' = Empty
        BY <2>3, EmptyTyped
    <2> QED BY <1>2, <2>1, <2>2, <2>3
<1> QED BY <1>3, <1>4 DEF EnvKeyStaysOut

LEMMA SwitchRest ==
    ASSUME TypeOK, Rest, NEW id \in Ids, Switch(id)
    PROVE  Rest'
<1>1. /\ TypedConfig(config') /\ config'.chosen = id /\ config'.table = config.table
      /\ config'.enabled = config.enabled
    BY ConfigSet DEF Switch, TypeOK
<1>2. /\ id \in Known(config) /\ config.table[id].on /\ relit' = TRUE
      /\ UNCHANGED <<caller, handler, touched, tested>> /\ Save(config')
    BY DEF Switch
<1>3. Known(config') = Known(config)
    BY <1>1 DEF Known
<1>4. EnvKeyStaysOut' /\ Synced'
    <2>1. \A x \in Known(config') : config'.table[x].key \in EnvKeys => x \in tested'
        BY <1>1, <1>2, <1>3 DEF Rest, EnvKeyStaysOut
    <2> QED BY <1>1, <1>2, <2>1, SavedClean DEF Rest
<1>5. Located' /\ Carried' /\ Harmless'
    BY <1>1, <1>2, <1>3 DEF Rest, Located, Carried, Harmless
<1>6. Dark'
    BY <1>2 DEF Dark
<1>7. LiveIsConfigured'
    <2>1. PICK p : /\ p = IF providers[id] = NoProvider THEN Live(id, config.table[id]) ELSE providers[id]
                   /\ providers' = [providers EXCEPT ![id] = p] /\ active' = p
        BY DEF Switch
    <2>2. /\ providers'[id] = p /\ active' = p
          /\ \A x \in Ids : x # id => providers'[x] = providers[x]
        BY <2>1 DEF TypeOK
    <2>3. id \notin touched => p = Live(id, config.table[id])
        BY <2>1 DEF Rest, LiveIsConfigured
    <2>4. \A x \in Ids : x # id /\ providers[x] # NoProvider =>
            /\ x \in Known(config) /\ config.table[x].on
            /\ x \notin touched => providers[x] = Live(x, config.table[x])
        BY DEF Rest, LiveIsConfigured
    <2> QED BY <1>1, <1>2, <1>3, <2>2, <2>3, <2>4 DEF LiveIsConfigured
<1> QED BY <1>4, <1>5, <1>6, <1>7 DEF Rest

LEMMA EnableRest ==
    ASSUME TypeOK, Rest, NEW on \in BOOLEAN, SetEnabled(on)
    PROVE  Rest'
<1>1. /\ TypedConfig(config') /\ config'.chosen = config.chosen /\ config'.table = config.table
      /\ config'.enabled = on
    <2>1. config' = [config EXCEPT !.enabled = on]
        BY DEF SetEnabled
    <2> QED BY <2>1 DEF TypeOK, TypedConfig, Known
<1>2. /\ relit' = FALSE /\ Save(config')
      /\ UNCHANGED <<providers, caller, handler, touched, tested>>
    BY DEF SetEnabled
<1>3. Known(config') = Known(config)
    BY <1>1 DEF Known
<1>4. EnvKeyStaysOut' /\ Synced'
    <2>1. \A x \in Known(config') : config'.table[x].key \in EnvKeys => x \in tested'
        BY <1>1, <1>2, <1>3 DEF Rest, EnvKeyStaysOut
    <2> QED BY <1>1, <1>2, <2>1, SavedClean DEF Rest
<1>5. Located' /\ Carried' /\ Harmless'
    BY <1>1, <1>2, <1>3 DEF Rest, Located, Carried, Harmless
<1>6. /\ ~on => active' = NoProvider
      /\ \/ active' = NoProvider \/ active' = active
         \/ config.chosen # NoId /\ active' = providers[config.chosen]
    <2>1. active' = IF ~on THEN NoProvider
                    ELSE IF config.chosen # NoId /\ providers[config.chosen] # NoProvider
                    THEN providers[config.chosen] ELSE active
        BY DEF SetEnabled
    <2>2. CASE on
        BY <2>1, <2>2
    <2>3. CASE ~on
        BY <2>1, <2>3
    <2> QED BY <2>2, <2>3
<1>7. Dark'
    BY <1>1, <1>6 DEF Dark
<1>8. config.chosen # NoId => config.chosen \in Ids
    BY DEF TypeOK, TypedConfig
<1>9. LiveIsConfigured'
    BY <1>1, <1>2, <1>3, <1>6, <1>8 DEF Rest, LiveIsConfigured
<1> QED BY <1>4, <1>5, <1>7, <1>9 DEF Rest

LEMMA PutRest ==
    ASSUME TypeOK, Rest, NEW a \in Admins, NEW id \in Ids, NEW s \in Puts, Put(a, id, s)
    PROVE  Rest'
<1>1. PICK k : /\ k = IF s.key = NoKey /\ id \in Known(config) THEN config.table[id].key ELSE s.key
               /\ handler' = [handler EXCEPT ![a] = [pc |-> "put", id |-> id, set |-> [s EXCEPT !.key = k]]]
    BY DEF Put
<1>2. s \in Settings /\ s.key \notin EnvKeys
    <2>1. s \in Settings /\ s.key \in Keys \cup {NoKey}
        BY SettingsTyped DEF Settings
    <2> QED BY <2>1, EnvTyped, NothingsDistinct
<1>3. k \in EnvKeys => id \in tested
    BY <1>1, <1>2 DEF Rest, EnvKeyStaysOut
<1>4. UNCHANGED <<config, providers, active, disk, caller, aux>>
    BY DEF Put
<1>5. [s EXCEPT !.key = k].key = k
    BY <1>2 DEF Settings
<1>6. /\ handler'[a].pc = "put" /\ handler'[a].id = id /\ handler'[a].set.key = k
      /\ \A b \in Admins : b # a => handler'[b] = handler[b]
    BY <1>1, <1>5 DEF TypeOK
<1>7. Carried'
    BY <1>3, <1>4, <1>6 DEF Rest, Carried, aux
<1>8. Located' /\ Harmless'
    BY <1>4, <1>6 DEF Rest, Located, Harmless, aux
<1>9. LiveIsConfigured' /\ EnvKeyStaysOut' /\ Dark' /\ Synced'
    BY <1>4 DEF Rest, LiveIsConfigured, EnvKeyStaysOut, Dark, Synced, aux
<1> QED BY <1>7, <1>8, <1>9 DEF Rest

LEMMA UpdateRest ==
    ASSUME TypeOK, Rest, NEW a \in Admins, Update(a)
    PROVE  Rest'
<1> DEFINE id == handler[a].id
           s == handler[a].set
<1>1. /\ id \in Ids /\ s \in Stored /\ TypedConfig(config')
      /\ config'.enabled = config.enabled /\ config'.chosen = config.chosen
      /\ Known(config') = Known(config) \cup {id} /\ config'.table[id] = s
      /\ \A x \in Known(config) : x # id => config'.table[x] = config.table[x]
    BY UpdateDoes
<1>2. /\ handler[a].pc = "put"
      /\ providers' = [providers EXCEPT ![id] = IF Ready(id, s) THEN Live(id, s) ELSE NoProvider]
      /\ active' = IF config.chosen = id THEN providers'[id] ELSE active
      /\ touched' = touched \ {id} /\ relit' = TRUE /\ UNCHANGED <<caller, tested>>
      /\ Save(config')
    BY DEF Update
<1>3. PICK moved \in BOOLEAN :
        handler' = [b \in Admins |-> IF b = a THEN Resting ELSE Overtaken(handler[b], id, moved)]
    BY DEF Update
<1>4. s.key \in EnvKeys => id \in tested
    BY <1>2 DEF Rest, Carried
<1> HIDE DEF id, s
<1>5. EnvKeyStaysOut' /\ Synced'
    <2>1. \A x \in Known(config') : config'.table[x].key \in EnvKeys => x \in tested'
        BY <1>1, <1>2, <1>4 DEF Rest, EnvKeyStaysOut
    <2> QED BY <1>1, <1>2, <2>1, SavedClean DEF Rest
<1>6. \A b \in Admins :
        \/ handler'[b].pc = "idle"
        \/ handler'[b] = handler[b] /\ handler[b].pc \notin {"test", "key"}
        \/ /\ handler[b].pc \in {"test", "key"} /\ handler'[b].pc = handler[b].pc
           /\ handler'[b].id = handler[b].id /\ handler'[b].key = handler[b].key
           /\ handler'[b].foreign = (handler[b].foreign \/ handler[b].id = id)
    <2> TAKE b \in Admins
    <2>1. CASE b = a
        BY <1>3, <2>1 DEF Resting
    <2>2. CASE b # a
        <3>1. handler'[b] = Overtaken(handler[b], id, moved) /\ handler[b] \in Handlers
            BY <1>3, <2>2 DEF TypeOK
        <3> QED BY <3>1, OvertakenTyped
    <2> QED BY <2>1, <2>2
<1>7. Located'
    BY <1>1, <1>6 DEF Rest, Located
<1>8. Carried'
    BY <1>2, <1>6 DEF Rest, Carried
<1>9. Harmless'
    <2> SUFFICES ASSUME NEW b \in Admins, handler'[b].pc = "key", ~handler'[b].foreign,
                        handler'[b].id \notin touched'
                 PROVE  handler'[b].key = Resolved(handler'[b].id, config'.table[handler'[b].id].key)
        BY DEF Harmless
    <2>1. /\ handler[b].pc = "key" /\ handler'[b].id = handler[b].id
          /\ handler'[b].key = handler[b].key /\ ~handler[b].foreign /\ handler[b].id # id
        BY <1>6
    <2>2. handler[b].id \notin touched /\ handler[b].id \in Known(config)
        BY <1>2, <2>1 DEF Rest, Located
    <2> QED BY <1>1, <2>1, <2>2 DEF Rest, Harmless
<1>10. Dark'
    BY <1>2 DEF Dark
<1>11. LiveIsConfigured'
    <2>1. /\ providers'[id] = IF Ready(id, s) THEN Live(id, s) ELSE NoProvider
          /\ \A x \in Ids : x # id => providers'[x] = providers[x]
        BY <1>1, <1>2 DEF TypeOK
    <2>2. providers'[id] # NoProvider => s.on /\ providers'[id] = Live(id, s)
        BY <2>1 DEF Ready
    <2>3. active' # NoProvider => config'.chosen \in Ids /\ active' = providers'[config'.chosen]
        BY <1>1, <1>2, <2>1 DEF Rest, LiveIsConfigured
    <2>4. \A x \in Ids : x # id /\ providers[x] # NoProvider =>
            /\ x \in Known(config) /\ config.table[x].on
            /\ x \notin touched => providers[x] = Live(x, config.table[x])
        BY DEF Rest, LiveIsConfigured
    <2>5. ASSUME NEW x \in Ids, providers'[x] # NoProvider
          PROVE  /\ x \in Known(config') /\ config'.table[x].on
                 /\ x \notin touched' => providers'[x] = Live(x, config'.table[x])
        <3>1. CASE x = id
            BY <1>1, <2>2, <2>5, <3>1
        <3>2. CASE x # id
            BY <1>1, <1>2, <2>1, <2>4, <2>5, <3>2
        <3> QED BY <3>1, <3>2
    <2> QED BY <2>3, <2>5 DEF LiveIsConfigured
<1> QED BY <1>5, <1>7, <1>8, <1>9, <1>10, <1>11 DEF Rest

LEMMA StartTestRest ==
    ASSUME TypeOK, Rest, NEW a \in Admins, NEW id \in Ids, NEW o \in Overrides, Test(a, id, o)
    PROVE  Rest'
<1>1. o[2] \notin EnvKeys
    BY SettingsTyped, EnvTyped, NothingsDistinct
<1>2. /\ handler'[a].pc = "test" /\ handler'[a].id = id /\ handler'[a].key = o[2]
      /\ \A b \in Admins : b # a => handler'[b] = handler[b]
    BY DEF Test, TypeOK
<1>3. id \in Known(config) /\ UNCHANGED <<config, providers, active, disk, caller, aux>>
    BY DEF Test
<1>4. Located' /\ Carried' /\ Harmless'
    BY <1>1, <1>2, <1>3 DEF Rest, Located, Carried, Harmless, aux
<1>5. LiveIsConfigured' /\ EnvKeyStaysOut' /\ Dark' /\ Synced'
    BY <1>3 DEF Rest, LiveIsConfigured, EnvKeyStaysOut, Dark, Synced, aux
<1> QED BY <1>4, <1>5 DEF Rest

(* Settings that keep their key, and change for a provider that is touched at the most. *)
LEMMA TestURLRest ==
    ASSUME TypeOK, Rest, NEW a \in Admins, TestURL(a)
    PROVE  Rest'
<1> DEFINE id == handler[a].id
           key == IF handler[a].key = NoKey THEN Resolved(id, config.table[id].key) ELSE handler[a].key
<1>1. /\ id \in Known(config) /\ id \in Ids
      /\ config'.enabled = config.enabled /\ config'.chosen = config.chosen
      /\ Known(config') = Known(config)
      /\ \A x \in Known(config) : x # id => config'.table[x] = config.table[x]
      /\ config'.table[id].key = config.table[id].key
      /\ config'.table[id].on = config.table[id].on
      /\ id \notin touched' => config' = config
      /\ touched \subseteq touched'
    BY TestURLDoes DEF Rest
<1>2. UNCHANGED <<providers, active, disk, caller, relit, unsaved>> /\ tested \subseteq tested'
    BY DEF TestURL, aux
<1>3. \/ handler' = [handler EXCEPT ![a] = Resting]
      \/ /\ handler' = [handler EXCEPT ![a] = [handler[a] EXCEPT !.pc = "key", !.key = key,
                                                                !.foreign = handler[a].key # NoKey]]
         /\ handler[a].key = NoKey => id \in tested'
    BY DEF TestURL
<1>4. handler[a].pc = "test" /\ handler[a].key \notin EnvKeys
    BY DEF TestURL, Rest, Carried
<1>5. handler[a] \in [pc : {"test", "key"}, id : Ids, url : AnyUrl, key : AnyKey,
                      foreign : BOOLEAN, lost : BOOLEAN]
    BY <1>4, HandlerTyped
<1> HIDE DEF id, key
<1>6. /\ \A b \in Admins : b # a => handler'[b] = handler[b]
      /\ \/ handler'[a].pc = "idle"
         \/ /\ handler'[a].pc = "key" /\ handler'[a].id = id /\ handler'[a].key = key
            /\ handler'[a].foreign = (handler[a].key # NoKey)
            /\ handler[a].key = NoKey => id \in tested'
    <2> DEFINE e == [handler[a] EXCEPT !.pc = "key", !.key = key, !.foreign = handler[a].key # NoKey]
    <2>1. e.pc = "key" /\ e.id = id /\ e.key = key /\ e.foreign = (handler[a].key # NoKey)
        BY <1>5 DEF id
    <2> HIDE DEF e
    <2>2. CASE handler' = [handler EXCEPT ![a] = Resting]
        BY <2>2 DEF TypeOK, Resting
    <2>3. CASE handler' = [handler EXCEPT ![a] = e] /\ (handler[a].key = NoKey => id \in tested')
        BY <2>1, <2>3 DEF TypeOK
    <2> QED BY <1>3, <2>2, <2>3 DEF e
<1>7. /\ handler[a].key # NoKey => key \notin EnvKeys
      /\ handler[a].key = NoKey => key = Resolved(id, config.table[id].key)
    BY <1>4 DEF key, id
<1>8. \A x \in Known(config) : config'.table[x].key = config.table[x].key
    BY <1>1
<1>9. Located' /\ Carried'
    BY <1>1, <1>2, <1>6, <1>7 DEF Rest, Located, Carried
<1>10. Harmless'
    <2> SUFFICES ASSUME NEW b \in Admins, handler'[b].pc = "key", ~handler'[b].foreign,
                        handler'[b].id \notin touched'
                 PROVE  handler'[b].key = Resolved(handler'[b].id, config'.table[handler'[b].id].key)
        BY DEF Harmless
    <2>1. CASE b = a
        BY <1>1, <1>6, <1>7, <2>1
    <2>2. CASE b # a
        <3>1. /\ handler'[b] = handler[b] /\ handler[b].id \notin touched
              /\ handler[b].id \in Known(config)
            BY <1>1, <1>6, <2>2 DEF Rest, Located
        <3> QED BY <1>8, <3>1 DEF Rest, Harmless
    <2> QED BY <2>1, <2>2
<1>11. EnvKeyStaysOut'
    BY <1>1, <1>2, <1>8 DEF Rest, EnvKeyStaysOut
<1>12. Dark'
    BY <1>1, <1>2 DEF Rest, Dark
<1>13. \A x \in Known(config) \ touched' : config'.table[x] = config.table[x]
    BY <1>1
<1>14. LiveIsConfigured'
    <2>1. \A x \in Known(config) : config'.table[x].on = config.table[x].on
        BY <1>1
    <2> QED BY <1>1, <1>2, <1>13, <2>1 DEF Rest, LiveIsConfigured
<1>15. Synced'
    BY <1>1, <1>2, <1>13 DEF Rest, Synced
<1> QED BY <1>9, <1>10, <1>11, <1>12, <1>14, <1>15 DEF Rest

LEMMA TestKeyRest ==
    ASSUME TypeOK, Rest, NEW a \in Admins, TestKey(a)
    PROVE  Rest'
<1> DEFINE id == handler[a].id
           k == handler[a].key
<1>1. /\ id \in Known(config) /\ id \in Ids /\ k \in AnyKey
      /\ config'.enabled = config.enabled /\ config'.chosen = config.chosen
      /\ Known(config') = Known(config)
      /\ \A x \in Known(config) : x # id => config'.table[x] = config.table[x]
      /\ config'.table[id].url = config.table[id].url
      /\ config'.table[id].on = config.table[id].on
      /\ config'.table[id].key = k
      /\ touched' = IF handler[a].foreign THEN touched \cup {id} ELSE touched
      /\ TypedConfig(config')
    BY TestKeyDoes DEF Rest
<1>2. /\ UNCHANGED <<providers, active, disk, caller, tested, relit, unsaved>>
      /\ handler' = [handler EXCEPT ![a] = Resting] /\ handler[a].pc = "key"
    BY DEF TestKey
<1>3. k \in EnvKeys => id \in tested
    BY <1>2 DEF Rest, Carried
<1>4. config.table[id].key \in AnyKey /\ config.table[id] \in Stored /\ config'.table[id] \in Stored
    BY <1>1 DEF TypeOK, TypedConfig, Stored, AnyKey
<1>5. id \notin touched' => k = Resolved(id, config.table[id].key)
    BY <1>1, <1>2 DEF Rest, Harmless
<1> HIDE DEF id, k
<1>6. id \notin touched' => Resolved(id, config'.table[id].key) = Resolved(id, config.table[id].key)
    BY <1>1, <1>4, <1>5, ResolvedTyped
<1>7. \A x \in Known(config) \ touched' :
        /\ config'.table[x].url = config.table[x].url /\ config'.table[x].on = config.table[x].on
        /\ Resolved(x, config'.table[x].key) = Resolved(x, config.table[x].key)
        /\ Live(x, config'.table[x]) = Live(x, config.table[x])
    BY <1>1, <1>6 DEF Live
<1>8. /\ handler'[a].pc = "idle" /\ touched \subseteq touched'
      /\ \A b \in Admins : b # a => handler'[b] = handler[b]
    BY <1>1, <1>2 DEF TypeOK, Resting
<1>9. Located' /\ Carried'
    BY <1>1, <1>2, <1>8 DEF Rest, Located, Carried
<1>10. Harmless'
    <2> SUFFICES ASSUME NEW b \in Admins, handler'[b].pc = "key", ~handler'[b].foreign,
                        handler'[b].id \notin touched'
                 PROVE  handler'[b].key = Resolved(handler'[b].id, config'.table[handler'[b].id].key)
        BY DEF Harmless
    <2>1. /\ handler'[b] = handler[b] /\ handler[b].id \notin touched
          /\ handler[b].id \in Known(config)
        BY <1>8 DEF Rest, Located
    <2>2. handler[b].key = Resolved(handler[b].id, config.table[handler[b].id].key)
        BY <2>1 DEF Rest, Harmless
    <2> QED BY <1>7, <2>1, <2>2
<1>11. EnvKeyStaysOut'
    BY <1>1, <1>2, <1>3 DEF Rest, EnvKeyStaysOut
<1>12. Dark'
    BY <1>1, <1>2 DEF Rest, Dark
<1>13. LiveIsConfigured'
    <2>1. \A x \in Known(config) : config'.table[x].on = config.table[x].on
        BY <1>1
    <2>2. ASSUME NEW x \in Ids, providers[x] # NoProvider
          PROVE  /\ x \in Known(config') /\ config'.table[x].on
                 /\ x \notin touched' => providers[x] = Live(x, config'.table[x])
        <3>1. /\ x \in Known(config) /\ config.table[x].on
              /\ x \notin touched => providers[x] = Live(x, config.table[x])
            BY <2>2 DEF Rest, LiveIsConfigured
        <3> QED BY <1>1, <1>7, <1>8, <2>1, <3>1
    <2> QED BY <1>1, <1>2, <2>2 DEF Rest, LiveIsConfigured
<1>14. Synced'
    BY <1>1, <1>2, <1>7, <1>8 DEF Rest, Synced
<1> QED BY <1>9, <1>10, <1>11, <1>12, <1>13, <1>14 DEF Rest

LEMMA TestLostRest ==
    ASSUME TypeOK, Rest, NEW a \in Admins, TestLost(a)
    PROVE  Rest'
<1>1. /\ handler'[a].pc = "idle" /\ \A b \in Admins : b # a => handler'[b] = handler[b]
      /\ UNCHANGED <<config, providers, active, disk, caller, aux>>
    BY DEF TestLost, TypeOK, Resting
<1>2. Located' /\ Carried' /\ Harmless'
    BY <1>1 DEF Rest, Located, Carried, Harmless, aux
<1>3. LiveIsConfigured' /\ EnvKeyStaysOut' /\ Dark' /\ Synced'
    BY <1>1 DEF Rest, LiveIsConfigured, EnvKeyStaysOut, Dark, Synced, aux
<1> QED BY <1>2, <1>3 DEF Rest

(* What a start makes of a configuration. *)
LEMMA FreshRest ==
    ASSUME TypedConfig(config), disk = config, providers = Started(config),
           active = ActiveAtStart(config), EnvKeyStaysOut,
           caller = [j \in Callers |-> Quiet], handler = [a \in Admins |-> Resting]
    PROVE  Rest
<1>1. \A a \in Admins : handler[a].pc = "idle"
    BY DEF Resting
<1>2. Located /\ Carried /\ Harmless
    BY <1>1 DEF Located, Carried, Harmless
<1>3. Dark
    BY DEF Dark, Quiet
<1>4. Synced
    BY DEF Synced
<1>5. LiveIsConfigured
    <2>1. \A id \in Ids : Started(config)[id] # NoProvider =>
                /\ id \in Known(config) /\ config.table[id].on
                /\ Started(config)[id] = Live(id, config.table[id])
        BY StartedTyped
    <2>2. ActiveAtStart(config) # NoProvider =>
            config.chosen \in Ids /\ ActiveAtStart(config) = Started(config)[config.chosen]
        BY StartedTyped
    <2> QED BY <2>1, <2>2 DEF LiveIsConfigured
<1> QED BY <1>2, <1>3, <1>4, <1>5 DEF Rest

LEMMA RestartRest ==
    ASSUME TypeOK, TypeOK', Rest, Restart
    PROVE  Rest'
<1>1. /\ config' = disk /\ disk' = disk /\ providers' = Started(disk)
      /\ active' = ActiveAtStart(disk) /\ tested' = tested
      /\ caller' = [j \in Callers |-> Quiet] /\ handler' = [a \in Admins |-> Resting]
    BY DEF Restart
<1>2. \A a \in Admins : handler'[a].pc = "idle"
    BY <1>1 DEF Resting
<1>3. Located' /\ Carried' /\ Harmless'
    BY <1>2 DEF Located, Carried, Harmless
<1>4. Dark'
    BY <1>1 DEF Dark, Quiet
<1>5. Synced' /\ EnvKeyStaysOut'
    BY <1>1 DEF Synced, Rest, EnvKeyStaysOut
<1>6. LiveIsConfigured'
    <2>1. /\ \A id \in Ids : Started(disk)[id] # NoProvider =>
                /\ id \in Known(disk) /\ disk.table[id].on
                /\ Started(disk)[id] = Live(id, disk.table[id])
          /\ ActiveAtStart(disk) # NoProvider =>
                disk.chosen \in Ids /\ ActiveAtStart(disk) = Started(disk)[disk.chosen]
        BY StartedTyped DEF TypeOK
    <2> QED BY <1>1, <2>1 DEF LiveIsConfigured
<1> QED BY <1>3, <1>4, <1>5, <1>6 DEF Rest

-----------------------------------------------------------------------------
(* The theorems *)

LEMMA InitIInv == Init => IInv
<1> SUFFICES ASSUME Init PROVE IInv
    OBVIOUS
<1>1. TypeOK
    BY InitType
<1>2. config \in Initial /\ disk = config
    BY DEF Init
<1>3. \A id \in Known(config) : config.table[id].key \notin EnvKeys
    <2>1. \A id \in Known(config) : config.table[id].key \in Keys \cup {NoKey}
        BY <1>2, InitialTyped DEF Known, Settings
    <2> QED BY <2>1, EnvTyped, NothingsDistinct
<1>4. EnvKeyStaysOut
    BY <1>2, <1>3 DEF EnvKeyStaysOut
<1>5. Rest
    BY <1>1, <1>4, FreshRest DEF Init, TypeOK
<1> QED BY <1>1, <1>5 DEF IInv, Rest

LEMMA NextIInv == IInv /\ [Next]_vars => IInv'
<1> SUFFICES ASSUME TypeOK, Rest, [Next]_vars PROVE TypeOK' /\ Rest'
    BY DEF IInv, Rest
<1>1. ASSUME NEW j \in Callers, Check(j) \/ Ask(j) \/ Answer(j) PROVE TypeOK' /\ Rest'
    BY <1>1, CallerTypes, CallerRest DEF CallerActs
<1>2. ASSUME NEW id \in Ids, Switch(id) PROVE TypeOK' /\ Rest'
    BY <1>2, SwitchTypes, SwitchRest
<1>3. ASSUME NEW on \in BOOLEAN, SetEnabled(on) PROVE TypeOK' /\ Rest'
    BY <1>3, EnableTypes, EnableRest
<1>4. ASSUME NEW a \in Admins, NEW id \in Ids, NEW s \in Puts, Put(a, id, s)
      PROVE  TypeOK' /\ Rest'
    BY <1>4, PutTypes, PutRest
<1>5. ASSUME NEW a \in Admins, NEW id \in Ids, NEW o \in Overrides, Test(a, id, o)
      PROVE  TypeOK' /\ Rest'
    BY <1>5, TestTypes, StartTestRest DEF Rest
<1>6. ASSUME NEW a \in Admins, Update(a) PROVE TypeOK' /\ Rest'
    BY <1>6, UpdateTypes, UpdateRest
<1>7. ASSUME NEW a \in Admins, TestURL(a) PROVE TypeOK' /\ Rest'
    BY <1>7, TestTypes, TestURLRest DEF Rest
<1>8. ASSUME NEW a \in Admins, TestKey(a) PROVE TypeOK' /\ Rest'
    BY <1>8, TestTypes, TestKeyRest DEF Rest
<1>9. ASSUME NEW a \in Admins, TestLost(a) PROVE TypeOK' /\ Rest'
    BY <1>9, TestTypes, TestLostRest DEF Rest
<1>10. CASE Restart
    BY <1>10, RestartTypes, RestartRest
<1>11. CASE UNCHANGED vars
    <2>1. UNCHANGED <<config, providers, active, disk, caller, handler, aux, changes>>
        BY <1>11 DEF vars
    <2>2. TypeOK'
        BY <2>1 DEF TypeOK, aux
    <2>3. Rest'
        BY <2>1, RestKept
    <2> QED BY <2>2, <2>3
<1> QED BY <1>1, <1>2, <1>3, <1>4, <1>5, <1>6, <1>7, <1>8, <1>9, <1>10, <1>11 DEF Next

LEMMA Invariance == Spec => []IInv
BY InitIInv, NextIInv, PTL DEF Spec

(* The manager's state is well formed, and a request has a provider (Complete). *)
THEOREM TypeCorrect == Spec => []TypeOK
<1>1. IInv => TypeOK
    BY DEF IInv
<1> QED BY <1>1, Invariance, PTL

(* The live providers are the configured ones, whatever tests and updates overlap
   (UpdateProvider, SwitchProvider, TestConnection). *)
THEOREM LiveConfigured == Spec => []LiveIsConfigured
<1>1. IInv => LiveIsConfigured
    BY DEF IInv
<1> QED BY <1>1, Invariance, PTL

(* A key from the environment is written nowhere but by a test (ResolveAPIKey). *)
THEOREM EnvKeysOut == Spec => []EnvKeyStaysOut
<1>1. IInv => EnvKeyStaysOut
    BY DEF IInv
<1> QED BY <1>1, Invariance, PTL

(* A disabled LLM is asked only after a later switch or update (Complete). *)
THEOREM DisabledIsAskedLate == Spec => OffMeansOff
<1> DEFINE Off == \A j \in Callers :
                    caller'[j].pc = "asking" /\ caller[j].pc # "asking" /\ ~config.enabled => relit
<1>1. IInv /\ [Next]_vars => [Off]_vars
    <2> SUFFICES ASSUME IInv, [Next]_vars, NEW j \in Callers, caller'[j].pc = "asking",
                        caller[j].pc # "asking", ~config.enabled
                 PROVE  relit
        BY DEF Off
    <2>1. caller \in [Callers -> Calls]
        BY DEF IInv, TypeOK, Calls
    <2>2. caller[j].pc = "checked" /\ active # NoProvider
        <3>1. ASSUME NEW i \in Callers, Check(i) \/ Ask(i) \/ Answer(i)
              PROVE  caller[j].pc = "checked" /\ active # NoProvider
            <4>1. CASE Check(i)
                BY <2>1, <4>1 DEF Check
            <4>2. CASE Ask(i)
                <5>1. /\ caller[i].pc = "checked"
                      /\ caller' = [caller EXCEPT ![i] =
                            IF active = NoProvider THEN Quiet ELSE [pc |-> "asking", via |-> active]]
                    BY <4>2 DEF Ask
                <5>2. i = j
                    BY <2>1, <5>1
                <5> QED BY <2>1, <5>1, <5>2 DEF Quiet
            <4>3. CASE Answer(i)
                BY <2>1, <4>3 DEF Answer, Quiet
            <4> QED BY <3>1, <4>1, <4>2, <4>3
        <3>2. Restart => caller'[j].pc = "idle"
            BY DEF Restart, Quiet
        <3>3. caller' # caller
            OBVIOUS
        <3> QED BY <3>1, <3>2, <3>3 DEF Next, vars, Switch, SetEnabled, Put, Update, Test,
                    TestURL, TestKey, TestLost
    <2> QED BY <2>2 DEF IInv, Dark
<1> QED BY <1>1, Invariance, PTL DEF Spec, OffMeansOff

(* A restart brings back the provider in use, if the last write was made and no test
   has overwritten its settings (LoadLLMConfig, NewManager). *)
THEOREM RestartRestores == Spec => RestartKeepsProvider
<1> DEFINE Restores == Restart /\ IsActive /\ ~unsaved /\ config.chosen \notin touched
                         /\ Ready(config.chosen, config.table[config.chosen]) => active' = active
<1>1. IInv /\ [Next]_vars => [Restores]_vars
    <2> SUFFICES ASSUME IInv, Restart, IsActive, ~unsaved, config.chosen \notin touched,
                        Ready(config.chosen, config.table[config.chosen])
                 PROVE  active' = active
        BY DEF Restores
    <2> DEFINE id == config.chosen
    <2>1. /\ id \in Ids /\ active = providers[id] /\ id \in Known(config)
          /\ active = Live(id, config.table[id])
        BY DEF IInv, LiveIsConfigured, IsActive
    <2>2. /\ disk.chosen = id /\ id \in Known(disk)
          /\ disk.table[id].url = config.table[id].url
          /\ disk.table[id].on = config.table[id].on
          /\ Resolved(id, disk.table[id].key) = Resolved(id, config.table[id].key)
        BY <2>1 DEF IInv, Synced
    <2>3. Ready(id, disk.table[id]) /\ Live(id, disk.table[id]) = Live(id, config.table[id])
        BY <2>2 DEF Ready, Live
    <2>4. active' = ActiveAtStart(disk)
        BY DEF Restart
    <2> QED BY <2>1, <2>2, <2>3, <2>4 DEF ActiveAtStart, Started
<1> QED BY <1>1, Invariance, PTL DEF Spec, RestartKeepsProvider
=============================================================================
