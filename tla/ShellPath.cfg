CONSTANTS
    c1 = c1
    c2 = c2
    entry = entry
    web = web
    db = db
    vault = vault
    p1 = p1
    p2 = p2
    p3 = p3
    NoPrompt = NoPrompt
    NoHost = NoHost
    Conns = {c1, c2}
    Hosts = {web, db}
    Guarded = {}
    Entry = entry
    Prompts = {p1, p2, p3}
    MaxTries = 1
    LLMActive = FALSE
    MaxDepth = 1
SPECIFICATION Spec
INVARIANTS
    NestedHasTarget
PROPERTIES
    PathSpec
SYMMETRY Swap
