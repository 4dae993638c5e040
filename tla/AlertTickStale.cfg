\* Commands on the first plugin, which goes from breach to calm.
CONSTANTS
    NPlugins = 3
    AlertPos = 2
    QuickPos = 3
    QuickSource = 1
    Defaults <- StandardLimits
    Configured <- ConfiguredLimits
    Samples <- Steep
    Zero <- NoReading
    Absent = Absent
    NoLimit = NoLimit
    Logged = {}
    Acting = {1}
    Repeat = {}
    Cap = 2
    Recency = 3
    MaxGap = 2
    None = None
SPECIFICATION Spec
INVARIANT LiveTriggers
