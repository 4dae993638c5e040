\* The first login ever given at a prompt.
CONSTANTS
    Users = {u, hash}
    Commented = {hash}
    Secrets = {s1, s2}
    Keys = {k}
    Threads = {t1, t2}
    Asked <- Askers
    MemoCap = 1
    MaxStarts = 2
    Unset = Unset
    Torn = Torn
SPECIFICATION AccessSpec
SYMMETRY AccessSymmetry
INVARIANT LoginPersists
CHECK_DEADLOCK FALSE
