\* One pid used again and again, two open cards and one of NVIDIA.
CONSTANTS
    Programs = {p}
    OpenCards <- TwoOpen
    NvidiaCards <- OneNvidia
    Engines = {video}
    Video = {video}
    SweepTtl = 2
    MaxClock = 3
    MaxWork = 2
    Gone = Gone
SPECIFICATION GpuSpec
INVARIANT ListedAdvanced
