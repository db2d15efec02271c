CONSTANTS
    c1 = c1
    c2 = c2
    entry = entry
    web = web
    db = db
    vault = vault
    p1 = p1
    p2 = p2
    p3 = p3
    NoPrompt = NoPrompt
    NoHost = NoHost
    Conns = {c1}
    Hosts = {entry, web, vault}
    Guarded = {vault}
    Entry = entry
    Prompts = {p1, p2}
    MaxTries = 3
    LLMActive = TRUE
    MaxDepth = 3
SPECIFICATION Spec
INVARIANTS
    TypeOK
    WorldFits
    PasswordsAnswered
