\* /api/4/dashboard against a tick that asks for the lock between its two reads.
CONSTANTS
    Handlers = {h1}
    NPlugins = 1
    ProcList = 1
    Items = {a}
    Requests <- AllRequests
    None = None
SPECIFICATION FairSpec
PROPERTIES TickEnds
CHECK_DEADLOCK FALSE
