\* A stage that fills the pipe of its stderr.
CONSTANTS
    Stats = {"load"}
    Levels = {"WARNING", "CRITICAL"}
    Calls <- LoudCalls
    PipeCap = 1
    MaxCalls = 2
    Never = Never
SPECIFICATION RunnerFair
PROPERTY CommandsEnd
CHECK_DEADLOCK FALSE
