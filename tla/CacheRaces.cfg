CONSTANTS
    c1 = c1
    c2 = c2
    j1 = j1
    ls = ls
    hunt = hunt
    curl = curl
    short = short
    long = long
    entry = entry
    web = web
    db = db
    NoPlan = NoPlan
    NoHost = NoHost
    NoKey = NoKey
    Conns = {c1, c2}
    Jobs = {j1}
    Commands = {ls, hunt, curl}
    Cacheable = {ls}
    Writes = {hunt}
    Blocked = {curl}
    Breaking = {hunt}
    Goals = {hunt}
    Planned = {hunt}
    Reasons <- MCReasons
    Plans = {short, long}
    InvalidatorsOf <- MCInvalidatorsOf
    Uncached = {long}
    TTL = 2
    GoalWindow = 1
    CacheLimit = 1
    Hosts = {web}
    Entry = entry
    Account <- MCAccount
    MaxCommands = 3
    MaxChanges = 1
    MaxDepth = 1
SPECIFICATION Spec
INVARIANTS
    TypeOK
    StaleOnlyFromRaces
    PlanLifeBounded
CHECK_DEADLOCK FALSE
SYMMETRY Swap
