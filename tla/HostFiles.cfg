CONSTANTS
    c1 = c1
    c2 = c2
    j1 = j1
    j2 = j2
    a1 = a1
    a2 = a2
    Conns = {c1, c2}
    Workers = {j1, j2}
    Commands <- MCCommands
    Paths <- MCPaths
    Dirs <- MCDirs
    WebHome <- MCHome
    RootHome <- MCRoot
    Seeded = {}
    HostSeeded <- MCClues
    SeededDirs <- MCDirs
    Protected = {}
    Held = {}
    Hidden = {}
    DirNames = {"f"}
    Notes <- MCNotes
    SysLog <- MCNotes
    ClueFile <- MCNotes
    Answers = {a1, a2}
    Export = TRUE
    NoCmd = NoCmd
    NoJob = NoJob
    MaxLogins = 1
    MaxTyped = 3
SPECIFICATION Spec
SYMMETRY MCTwins
INVARIANTS
    Inv
PROPERTIES
    FilesKept
    RepliesStable
    AbsoluteRulesDropped
