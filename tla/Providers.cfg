CONSTANTS
    p1 = p1
    p2 = p2
    u1 = u1
    u2 = u2
    k1 = k1
    k2 = k2
    e1 = e1
    g1 = g1
    g2 = g2
    a1 = a1
    a2 = a2
    Ids = {p1, p2}
    Urls = {u1, u2}
    NoUrl = NoUrl
    Keys = {k1, k2}
    NoKey = NoKey
    Env <- MCEnv
    Keyless = {}
    NoId = NoId
    NoProvider = NoProvider
    Initial <- MCInitial
    Puts <- MCPuts
    Overrides <- MCOverrides
    Callers = {g1}
    Admins = {a1, a2}
    MaxChanges = 4
SPECIFICATION Spec
SYMMETRY AdminsAlike
INVARIANTS
    TypeOK
    LiveIsConfigured
    EnvKeyStaysOut
PROPERTIES
    OffMeansOff
    RestartKeepsProvider
CHECK_DEADLOCK FALSE
