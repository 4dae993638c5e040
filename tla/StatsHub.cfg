\* Safety, with every kind of request.  The system may really stop: see the
\* run that checks TickEnds with dashboards.
CONSTANTS
    Handlers = {h1, h2}
    NPlugins = 2
    ProcList = 1
    Items = {a}
    Requests <- AllRequests
    None = None
SPECIFICATION Spec
SYMMETRY HandlerSymmetry
INVARIANTS DashboardOfOneTick MutexesAreLeaves
PROPERTIES ImplementsStore
CHECK_DEADLOCK FALSE
