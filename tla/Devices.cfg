\* The refresh loop, scaled: six seconds for thirty, a refresh of one and a half;
\* the wall clock may be set forward once.
CONSTANTS
    Refresh = 3
    IdleAfter = 6
    IdleTick = 6
    MaxTick = 1
    Late = 1
    Epoch = 7
    Jumps <- Forward
    MaxShift = 5
    Horizon = 24
\* Counters: two elements whose counters wrap once, room for one row where rows are capped.
    NElements = 2
    Width = 2
    MaxRows = 1
    MaxTraffic = 2
\* GPU: one pid used again and again, two open cards and one of NVIDIA.
    Programs = {p}
    OpenCards <- TwoOpen
    NvidiaCards <- OneNvidia
    Engines = {video}
    Video = {video}
    SweepTtl = 1
    MaxClock = 2
    MaxWork = 2
    Gone = Gone
\* Addresses of three bits.
    Bits = 3
    Loopbacks <- LoopbackOnly
    Lo = "lo"
    Tables <- SomeTables
    Replies <- SomeReplies
    Absent = Absent
\* Readings.
    SlowTtl = 3
    PowerTtl = 2
    Forever = 7
    Gap = 2
    Error = Error
\* Filters.
    Lists <- MCLists
    Candidates <- MCCandidates
    NoKey = NoKey
    Nobody = Nobody
\* Processes.
    Pids = {p1, p2}
    ProgramNames = {n}
    Users = {u1}
    Root = root
    Cores = 2
    MaxTotal = 2
\* History.
    Labels = {eth0}
    NoLabel = NoLabel
    Items = {recv}
    HistorySize = 2
    MaxUpdates = 3
\* BER: bytes of four bits, integers of two bytes.
    Radix = 16
    Forty = 5
    IntBytes = 2
    Responses <- MCResponses
    TagOf <- MCTags
\* Texts.
    KeyOrder <- MCKeyOrder
    IntBits = 3
    MaxDepth = 3
    Snapshots <- MCSnapshots
    Messages <- MCMessages
    Heard <- MCHeard
    Specs <- MCSpecs
    MaxTicks = 2
\* Health.
    Machines <- MCMachines
    Unknown = Unknown
\* Settings.
    Setups <- MCSetups
    Updates <- MCUpdates
    NCpu = 2
    Commands <- MCCommands
    Rounds = 2
    Missing = Missing
    Unreadable = Unreadable
    NoLimit = NoLimit
    Mail = Mail
    Syslog = Syslog
SPECIFICATION DevicesSpec
INVARIANTS DevicesTypeOK WatchedFresh NoInventedTraffic SteadyIsExact  SweepIsRecent OneInterface OwnersFound FiguresFresh ListedAsMeant SharesOfOneWindow SeriesIsTail  TextsReadBack ParserIsGrammar HealthIsWorst LimitsAsWritten
CHECK_DEADLOCK FALSE
