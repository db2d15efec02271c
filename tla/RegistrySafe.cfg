CONSTANTS
    c1 = c1
    c2 = c2
    alice = alice
    sim = sim
    NoSession = NoSession
    Conns = {c1, c2}
    Keys = {alice, sim}
    SimKey = sim
    Timeout = 2
    MaxSessions = 2
SPECIFICATION FairSpec
INVARIANTS
    TypeOK
    IndexLive
    LostForAReason
    OwnSession
PROPERTIES
    IdleForgotten
