CONSTANTS
    c1 = c1
    c2 = c2
    Conns = {c1, c2}
    Commands <- MCCommands
    Matches <- MCMatches
    Protocol <- MCProtocol
    Touching = {"scan"}
    Reuses = {"login"}
    Tool <- MCTool
    Doubting = {"rant"}
    Giving = {"rant"}
    Outcomes <- MCOutcomes
    Needed = 3
    Committed = 1
    Threshold = 2
    MaxExpansions = 1
    Window = 3
    MaxCommands = 4
SPECIFICATION Spec
INVARIANTS
    Inv
    InjectedOnce
    EngagedIsFed
    WallsAnswered
    FailuresAreRecent
PROPERTIES
    NotesForTheLost
SYMMETRY Swap
CHECK_DEADLOCK FALSE
