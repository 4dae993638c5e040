\* Sign-in: two threads, two users of which one's line reads as a comment, a start.
CONSTANTS
    Users = {u, hash}
    Commented = {hash}
    Secrets = {s1, s2}
    Keys = {k}
    Threads = {t1, t2}
    Asked <- Askers
    MemoCap = 1
    MaxStarts = 2
    Unset = Unset
    Torn = Torn
\* Commands.
    Stats = {"load"}
    Levels = {"WARNING", "CRITICAL"}
    Calls <- SomeCalls
    PipeCap = 1
    MaxCalls = 2
    Never = Never
\* Command line.
    Words <- SomeWords
    MaxWords = 3
    ConfRefresh = {"Absent", "3", "0"}
    Absent = "Absent"
\* SNMP.
    Ports = {1}
    First = 2
    Top = 4
    Batch = 2
    Limit = 4
    MaxTicks = 2
    MaxAsks = 10
    Delay = 2
    NetCap = 2
    Nobody = Nobody
\* Routes.
    Asks <- MCAsks
    Plugins = {"cpu", "fs"}
    Listed = {"12"}
    Numbers = {"4", "12"}
    McpPath <- MCMcpPath
    Unasked = Unasked
\* Connections: three sockets for two slots, every kind of client.
    Conns = {c1, c2, c3}
    MaxConns = 2
    MaxHeader = 2
    MaxBody = 3
    Chunk = 2
    Word = 8
    Messages <- Clients
    SpawnMayFail = TRUE
    None = None
SPECIFICATION ServicesSpec
SYMMETRY ServicesSymmetry
INVARIANTS ServicesTypeOK CapHolds WholeRequest GateExact OnlyDefinedLogins  NothingHalfDone QuietNeverStalls ArgsAsMeant  WalkIsTable RoutesAsListed
CHECK_DEADLOCK FALSE
