------------------------------ MODULE LLMManager ------------------------------
(***************************************************************************)
(* The manager of the LLM providers: the configuration, the live providers *)
(* built from it, the one that is active, and the copy in llm.yaml that a  *)
(* restart loads.  Goroutines of the honeypot ask whether the LLM is active *)
(* and, some time later, send a request; the operator's API handlers switch,*)
(* enable, update and test providers.  Every method of the manager has the *)
(* lock, but TestConnection writes its overrides through a pointer into the *)
(* configuration, without it, and an update reads the old key in a call of *)
(* its own.                                                                *)
(*                                                                         *)
(* A key from the environment wins over the one in the configuration; it is *)
(* different from every key an operator types.  The environment allows the  *)
(* provider network (ALTERHIVE_ALLOW_LLM_NETWORK): Complete and             *)
(* TestConnection return at once where it does not.                        *)
(***************************************************************************)
EXTENDS Naturals

CONSTANTS
    Ids,            \* providers
    Urls, NoUrl,
    Keys, NoKey,    \* keys that operators type
    Env,            \* key of each provider in the environment, or NoKey
    Keyless,        \* providers that need no key (type ollama)
    NoId, NoProvider,
    Initial,        \* configurations that llm.yaml may hold at first
    Puts,           \* settings that operators may send
    Overrides,      \* <<url, key>> that a test may be asked to use
    Callers,        \* goroutines that ask the LLM
    Admins,         \* API handlers
    MaxChanges      \* bound on the operators' requests, restarts and failing writes

Settings == [url : Urls \cup {NoUrl}, key : Keys \cup {NoKey}, on : BOOLEAN]
EnvKeys == {Env[id] : id \in Ids} \ {NoKey}

ASSUME EnvTyped == Env \in [Ids -> EnvKeys \cup {NoKey}] /\ EnvKeys \cap Keys = {}
ASSUME SettingsTyped == Puts \subseteq Settings /\ Overrides \subseteq (Urls \cup {NoUrl}) \X (Keys \cup {NoKey})
ASSUME InitialTyped ==
    \A f \in Initial : /\ f.enabled \in BOOLEAN /\ f.chosen \in Ids \cup {NoId}
                       /\ DOMAIN f = {"enabled", "chosen", "table"}
                       /\ DOMAIN f.table \subseteq Ids /\ f.table \in [DOMAIN f.table -> Settings]
ASSUME NothingsDistinct == NoId \notin Ids /\ NoKey \notin Keys \cup EnvKeys /\ NoUrl \notin Urls
ASSUME BoundNat == MaxChanges \in Nat

VARIABLES
    config,     \* LLMConfig: enabled, chosen (ActiveProvider), table (Providers)
    providers,  \* Manager.providers
    active,     \* Manager.active
    disk,       \* what llm.yaml holds
    caller,     \* of each caller: where it is and the provider it asked
    handler,    \* of each API handler: what it is in the middle of
    touched,    \* auxiliary: settings that a test has put out of step with the provider
    tested,     \* auxiliary: providers tested with the key the manager resolves
    relit,      \* auxiliary: whether a switch or update followed the last SetEnabled
    unsaved,    \* auxiliary: whether the last write failed
    changes     \* auxiliary: requests of the operators, restarts and failed writes so far

aux == <<touched, tested, relit, unsaved>>
vars == <<config, providers, active, disk, caller, handler, aux, changes>>

Empty == [enabled |-> FALSE, chosen |-> NoId, table |-> [id \in {} |-> NoKey]]

\* ResolveAPIKey
Resolved(id, key) == IF Env[id] # NoKey THEN Env[id] ELSE key

\* NewProvider, of the settings with the key resolved.
Live(id, s) == [id |-> id, url |-> s.url, key |-> Resolved(id, s.key)]

Ready(id, s) == s.on /\ (Resolved(id, s.key) # NoKey \/ id \in Keyless)

Known(c) == DOMAIN c.table
Started(c) == [id \in Ids |-> IF id \in Known(c) /\ Ready(id, c.table[id])
                              THEN Live(id, c.table[id]) ELSE NoProvider]
IsActive == config.enabled /\ active # NoProvider

Resting == [pc |-> "idle"]
Quiet == [pc |-> "idle", via |-> NoProvider]
Change == changes < MaxChanges /\ changes' = changes + 1

-----------------------------------------------------------------------------
(* llm.yaml.  A write that fails, or that the end of the process cuts short, *)
(* leaves the old file or one without providers.                            *)

\* Bug: only a change of the active provider is saved.
SavedWhenChosen(c) == disk' = IF c.chosen = config.chosen THEN disk ELSE c

Saved(c) == disk' = c

\* The error is logged, or returned by SetEnabled, after the change is made.
SaveFails == disk' \in {disk, Empty}

Save(c) ==
    /\ Change
    /\ \/ Saved(c) /\ unsaved' = FALSE
       \/ SaveFails /\ unsaved' = TRUE

-----------------------------------------------------------------------------
(* Goroutines that ask *)

\* IsActive, before the goroutine is started.
Check(j) ==
    /\ caller[j].pc = "idle" /\ IsActive
    /\ caller' = [caller EXCEPT ![j] = [pc |-> "checked", via |-> NoProvider]]
    /\ UNCHANGED <<config, providers, active, disk, handler, aux, changes>>

\* Bug: the provider is not tested for nil.
AskAnyway(j) ==
    /\ caller[j].pc = "checked"
    /\ caller' = [caller EXCEPT ![j] = [pc |-> "asking", via |-> active]]
    /\ UNCHANGED <<config, providers, active, disk, handler, aux, changes>>

\* Complete reads the provider under the lock, and asks it without.
Ask(j) ==
    /\ caller[j].pc = "checked"
    /\ caller' = [caller EXCEPT ![j] =
                    IF active = NoProvider THEN Quiet ELSE [pc |-> "asking", via |-> active]]
    /\ UNCHANGED <<config, providers, active, disk, handler, aux, changes>>

\* An answer, an error or the time-out.
Answer(j) ==
    /\ caller[j].pc = "asking"
    /\ caller' = [caller EXCEPT ![j] = Quiet]
    /\ UNCHANGED <<config, providers, active, disk, handler, aux, changes>>

-----------------------------------------------------------------------------
(* Switching and enabling *)

\* Bug: the key that was resolved is kept with the settings.
SwitchKeeping(id) ==
    /\ id \in Known(config) /\ config.table[id].on
    /\ LET p == IF providers[id] = NoProvider THEN Live(id, config.table[id]) ELSE providers[id]
       IN /\ providers' = [providers EXCEPT ![id] = p]
          /\ active' = p
          /\ config' = [config EXCEPT !.chosen = id, !.table[id].key = p.key]
    /\ Save(config')
    /\ relit' = TRUE
    /\ UNCHANGED <<caller, handler, touched, tested>>

\* SwitchProvider builds a provider that was not initialised, key or not.
Switch(id) ==
    /\ id \in Known(config) /\ config.table[id].on
    /\ LET p == IF providers[id] = NoProvider THEN Live(id, config.table[id]) ELSE providers[id]
       IN /\ providers' = [providers EXCEPT ![id] = p]
          /\ active' = p
    /\ config' = [config EXCEPT !.chosen = id]
    /\ Save(config')
    /\ relit' = TRUE
    /\ UNCHANGED <<caller, handler, touched, tested>>

\* Bug: the provider stays active.
SetEnabledOnly(on) ==
    /\ config' = [config EXCEPT !.enabled = on]
    /\ active' = IF on /\ config.chosen # NoId /\ providers[config.chosen] # NoProvider
                 THEN providers[config.chosen] ELSE active
    /\ Save(config')
    /\ relit' = FALSE
    /\ UNCHANGED <<providers, caller, handler, touched, tested>>

SetEnabled(on) ==
    /\ config' = [config EXCEPT !.enabled = on]
    /\ active' = IF ~on THEN NoProvider
                 ELSE IF config.chosen # NoId /\ providers[config.chosen] # NoProvider
                 THEN providers[config.chosen] ELSE active
    /\ Save(config')
    /\ relit' = FALSE
    /\ UNCHANGED <<providers, caller, handler, touched, tested>>

-----------------------------------------------------------------------------
(* Updating: llmUpdateProvider keeps the old key if none, or a masked one, is *)
(* sent, which it reads before it calls UpdateProvider.                      *)

Put(a, id, s) ==
    /\ handler[a].pc = "idle" /\ changes < MaxChanges
    /\ LET key == IF s.key = NoKey /\ id \in Known(config) THEN config.table[id].key ELSE s.key
       IN handler' = [handler EXCEPT ![a] = [pc |-> "put", id |-> id, set |-> [s EXCEPT !.key = key]]]
    /\ UNCHANGED <<config, providers, active, disk, caller, aux, changes>>

\* A test that looked the provider up before it was updated, and one that holds
\* a pointer into a list that append has moved since.
Overtaken(h, id, moved) ==
    IF h.pc \notin {"test", "key"} THEN h
    ELSE [h EXCEPT !.foreign = @ \/ h.id = id, !.lost = @ \/ moved]

\* The provider's settings are replaced, or a provider is added.
Updated(id, s) == [x \in Known(config) \cup {id} |-> IF x = id THEN s ELSE config.table[x]]

\* Bug: a provider that is there already is not built again.
UpdateOnce(a) ==
    LET id == handler[a].id
        s == handler[a].set
    IN /\ handler[a].pc = "put"
       /\ config' = [config EXCEPT !.table = Updated(id, s)]
       /\ providers' = [providers EXCEPT ![id] =
                          IF ~Ready(id, s) THEN NoProvider
                          ELSE IF @ # NoProvider THEN @ ELSE Live(id, s)]
       /\ active' = IF config.chosen = id THEN providers'[id] ELSE active
       /\ Save(config')
       /\ \E moved \in {FALSE, id \notin Known(config)} :
            handler' = [b \in Admins |->
                          IF b = a THEN Resting ELSE Overtaken(handler[b], id, moved)]
       /\ touched' = touched \ {id}
       /\ relit' = TRUE
       /\ UNCHANGED <<caller, tested>>

\* UpdateProvider
Update(a) ==
    LET id == handler[a].id
        s == handler[a].set
    IN /\ handler[a].pc = "put"
       /\ config' = [config EXCEPT !.table = Updated(id, s)]
       /\ providers' = [providers EXCEPT ![id] = IF Ready(id, s) THEN Live(id, s) ELSE NoProvider]
       /\ active' = IF config.chosen = id THEN providers'[id] ELSE active
       /\ Save(config')
       /\ \E moved \in {FALSE, id \notin Known(config)} :
            handler' = [b \in Admins |->
                          IF b = a THEN Resting ELSE Overtaken(handler[b], id, moved)]
       /\ touched' = touched \ {id}
       /\ relit' = TRUE
       /\ UNCHANGED <<caller, tested>>

-----------------------------------------------------------------------------
(* Testing: the overrides, or the resolved key, are written to the settings. *)

Test(a, id, over) ==
    /\ handler[a].pc = "idle" /\ id \in Known(config) /\ Change
    /\ handler' = [handler EXCEPT ![a] = [pc |-> "test", id |-> id, url |-> over[1], key |-> over[2],
                                          foreign |-> FALSE, lost |-> FALSE]]
    /\ UNCHANGED <<config, providers, active, disk, caller, aux>>

TestFails(h) ==
    LET s == config.table[h.id]
    IN \/ s.url = NoUrl /\ h.url = NoUrl
       \/ Resolved(h.id, s.key) = NoKey /\ h.key = NoKey

\* The checks and the override of the URL.
TestURL(a) ==
    LET h == handler[a]
        key == IF h.key = NoKey THEN Resolved(h.id, config.table[h.id].key) ELSE h.key
    IN /\ h.pc = "test" /\ ~h.lost
       /\ IF TestFails(h)
          THEN handler' = [handler EXCEPT ![a] = Resting] /\ UNCHANGED <<config, aux>>
          ELSE /\ handler' = [handler EXCEPT ![a] = [h EXCEPT !.pc = "key", !.key = key,
                                                                    !.foreign = h.key # NoKey]]
               /\ config' = IF h.url = NoUrl THEN config
                            ELSE [config EXCEPT !.table[h.id].url = h.url]
               /\ touched' = IF h.url # NoUrl \/ h.key # NoKey THEN touched \cup {h.id} ELSE touched
               /\ tested' = IF h.key = NoKey THEN tested \cup {h.id} ELSE tested
               /\ UNCHANGED <<relit, unsaved>>
       /\ UNCHANGED <<providers, active, disk, caller, changes>>

\* The key, and the request of the test, which changes nothing.
TestKey(a) ==
    LET h == handler[a]
    IN /\ h.pc = "key" /\ ~h.lost
       /\ config' = [config EXCEPT !.table[h.id].key = h.key]
       /\ touched' = IF h.foreign THEN touched \cup {h.id} ELSE touched
       /\ handler' = [handler EXCEPT ![a] = Resting]
       /\ UNCHANGED <<providers, active, disk, caller, tested, relit, unsaved, changes>>

\* What is written through a stale pointer is seen by nobody.
TestLost(a) ==
    /\ handler[a].pc \in {"test", "key"} /\ handler[a].lost
    /\ handler' = [handler EXCEPT ![a] = Resting]
    /\ UNCHANGED <<config, providers, active, disk, caller, aux, changes>>

-----------------------------------------------------------------------------
(* Start, and restart of the process: LoadLLMConfig and NewManager. *)

ActiveAtStart(c) ==
    IF c.chosen \in Known(c) THEN Started(c)[c.chosen] ELSE NoProvider

Init ==
    /\ config \in Initial /\ disk = config
    /\ providers = Started(config) /\ active = ActiveAtStart(config)
    /\ caller = [j \in Callers |-> Quiet] /\ handler = [a \in Admins |-> Resting]
    /\ touched = {} /\ tested = {} /\ relit = FALSE /\ unsaved = FALSE /\ changes = 0

Restart ==
    /\ Change
    /\ config' = disk
    /\ providers' = Started(disk) /\ active' = ActiveAtStart(disk)
    /\ caller' = [j \in Callers |-> Quiet] /\ handler' = [a \in Admins |-> Resting]
    /\ touched' = {} /\ relit' = FALSE /\ unsaved' = FALSE
    /\ UNCHANGED <<disk, tested>>

Next ==
    \/ \E j \in Callers : Check(j) \/ Ask(j) \/ Answer(j)
    \/ \E id \in Ids : Switch(id)
    \/ \E on \in BOOLEAN : SetEnabled(on)
    \/ \E a \in Admins :
         \/ \E id \in Ids : (\E s \in Puts : Put(a, id, s)) \/ (\E o \in Overrides : Test(a, id, o))
         \/ Update(a) \/ TestURL(a) \/ TestKey(a) \/ TestLost(a)
    \/ Restart

Spec == Init /\ [][Next]_vars
-----------------------------------------------------------------------------
(* Properties *)

Instances == [id : Ids, url : Urls \cup {NoUrl}, key : Keys \cup EnvKeys \cup {NoKey}]
Stored == [url : Urls \cup {NoUrl}, key : Keys \cup EnvKeys \cup {NoKey}, on : BOOLEAN]
TypedConfig(c) ==
    /\ DOMAIN c = {"enabled", "chosen", "table"}
    /\ c.enabled \in BOOLEAN /\ c.chosen \in Ids \cup {NoId}
    /\ Known(c) \subseteq Ids /\ c.table \in [Known(c) -> Stored]
Handlers ==
    {Resting} \cup [pc : {"put"}, id : Ids, set : Stored]
              \cup [pc : {"test", "key"}, id : Ids, url : Urls \cup {NoUrl},
                    key : Keys \cup EnvKeys \cup {NoKey}, foreign : BOOLEAN, lost : BOOLEAN]

\* Every variable has its type, each provider is listed under its own ID, and a
\* request under way has a provider (LLMConfig, Manager).
TypeOK ==
    /\ TypedConfig(config) /\ TypedConfig(disk)
    /\ providers \in [Ids -> Instances \cup {NoProvider}]
    /\ \A id \in Ids : providers[id] # NoProvider => providers[id].id = id
    /\ active \in Instances \cup {NoProvider}
    /\ caller \in [Callers -> {Quiet} \cup [pc : {"checked"}, via : {NoProvider}]
                                  \cup [pc : {"asking"}, via : Instances]]
    /\ handler \in [Admins -> Handlers]
    /\ touched \subseteq Ids /\ tested \subseteq Ids
    /\ relit \in BOOLEAN /\ unsaved \in BOOLEAN /\ changes \in Nat

\* What is used is what is shown: the active provider is the chosen one, and every
\* live provider is enabled and built from the settings GetConfig returns, unless a
\* test overrode them or wrote back a key that an update had replaced.
LiveIsConfigured ==
    /\ active # NoProvider => config.chosen \in Ids /\ active = providers[config.chosen]
    /\ \A id \in Ids : providers[id] # NoProvider =>
           /\ id \in Known(config) /\ config.table[id].on
           /\ id \notin touched => providers[id] = Live(id, config.table[id])

\* "SetEnabled globally enables or disables LLM": a request that leaves while the LLM
\* is disabled needs a caller that checked before and an operator who, after the
\* disabling, updated or switched a provider (Complete does not look at Enabled).
OffMeansOff ==
    [][\A j \in Callers : caller'[j].pc = "asking" /\ caller[j].pc # "asking" /\ ~config.enabled
          => relit]_vars

\* A restart brings back the provider that was in use, unless the last write failed,
\* its settings were overridden by a test, or it was switched to without a key.
RestartKeepsProvider ==
    [][Restart /\ IsActive /\ ~unsaved /\ config.chosen \notin touched
          /\ Ready(config.chosen, config.table[config.chosen]) => active' = active]_vars

\* "Resolves a provider secret without persisting an environment value back to YAML"
\* (ResolveAPIKey): only a test that was given no key of its own brings a key from the
\* environment into the settings, and with them into llm.yaml.
EnvKeyStaysOut ==
    \A c \in {config, disk} : \A id \in Known(c) :
        c.table[id].key \in EnvKeys => id \in tested
=============================================================================
