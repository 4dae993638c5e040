\* Two monitored plugins, the alert plugin and quicklook, in their order of
\* registration.  A unit is 16 s: two units to an idle heartbeat, and 60 s is
\* between three units and four.
CONSTANTS
    NPlugins = 3
    AlertPos = 2
    QuickPos = 3
    QuickSource = 1
    Defaults <- StandardLimits
    Configured <- ConfiguredLimits
    Samples <- Rising
    Zero <- NoReading
    Absent = Absent
    NoLimit = NoLimit
    Logged = {1, 3}
    Acting = {1}
    Repeat = {}
    Cap = 2
    Recency = 3
    MaxGap = 2
    None = None
SPECIFICATION Spec
INVARIANTS HealthHonest BreachShows ClearReaches
