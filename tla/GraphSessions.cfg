CONSTANTS
    s1 = s1
    s2 = s2
    w1 = w1
    w2 = w2
    jump = jump
    a1 = a1
    a2 = a2
    b1 = b1
    c0 = c0
    c1 = c1
    c2 = c2
    Nobody = Nobody
    NoHost = NoHost
    Sessions = {s1, s2}
    Workers = {w1, w2}
    SessionOf <- MCOneEach
    IPs = {jump, a1}
    CIDRs = {c0, c1}
    BaseHosts <- MCBaseHosts
    BaseSegments <- MCBaseSegments
    BaseEdges <- NoPlans
    RulePlans <- OneHost
    LLMPlans <- NoPlans
    Expansions <- NoPlans
    Goals <- NoPlans
    SshHosts = {jump}
    Commands = {cmd}
    JobLimit = 3
SPECIFICATION Spec
INVARIANTS
    ListedHostsResolve
    HostsHaveSegments
PROPERTIES
    ResolutionStable
    RemovalIsOwned
CHECK_DEADLOCK FALSE
