CONSTANTS
    c1 = c1
    c2 = c2
    j1 = j1
    j2 = j2
    n0 = n0
    n1 = n1
    n2 = n2
    Conns = {c1, c2}
    Jobs = {j1}
    Commands <- MCCommands
    Said <- MCSaid
    Guesses <- MCGuesses
    Tokens <- MCTokens
    Trips <- MCTrips
    Touching = {"scan"}
    GoalOf <- MCGoalOf
    SimGoals <- MCSimGoals
    GoalWindow = 1
    Dirty = {"rant"}
    Places = {n0, n1, n2}
    Nowhere = Nowhere
    Base = {n0}
    PhaseOf <- MCPhaseOf
    LLMPlans <- MCLLMPlans
    Gates = {"gate_exploit_partial"}
    TTL = 2
    IntentLimit = 1
    Export = TRUE
    NoGoal = NoGoal
    NoTheme = NoTheme
    NoPlan = NoPlan
    NoKey = NoKey
    MaxCommands = 2
SPECIFICATION Spec
INVARIANTS
    Inv
    EvidenceEarned
    VerdictKept
SYMMETRY Swap
CHECK_DEADLOCK FALSE
