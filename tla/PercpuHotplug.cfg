\* One CPU that may be offline beside one that is not.
CONSTANTS
    NElements = 2
    Width = 3
    MaxRows = 1
    MaxTraffic = 2
SPECIFICATION CountersSpec
INVARIANT HotplugZero
