\* The wall clock may be set back at any moment.
CONSTANTS
    Refresh = 3
    IdleAfter = 6
    IdleTick = 6
    MaxTick = 1
    Late = 1
    Epoch = 40
    Jumps <- Backward
    MaxShift = 20
    Horizon = 48
SPECIFICATION Spec
INVARIANTS TimeJumpsSafe
CHECK_DEADLOCK FALSE
