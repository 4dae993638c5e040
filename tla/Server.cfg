\* Two clients at a time; every slot can be taken.
CONSTANTS
    Handlers = {h1, h2}
    NPlugins = 1
    ProcList = 1
    Items = {a}
    Requests <- NoDashboard
    None = None
    MaxConns = 2
    MaxHeader = 1
    MaxBody = 0
    Chunk = 1
    Word = 4
    Messages <- TwoClients
    SpawnMayFail = FALSE
SPECIFICATION ServerFairSpec
INVARIANTS NoLockWhileTalking
PROPERTIES TickEnds  AdmittedEnds FullServerRecovers
