SPECIFICATION RateSpec
CONSTANTS
    u1 = u1
    k1 = k1
    k2 = k2
    Users = {u1}
    Keys = {k1, k2}
    OwnerOf <- SameOwner
    RateOf <- OneAndTwo
    NoKey = NoKey
    Calls = {c1, c2}
    Window = 3
    MaxDelay = 1
    FailAt = {"prune", "add"}
    MaxClock = 6
INVARIANTS RateTypeOK RateWindow RefusalJustified
SYMMETRY Symm
CHECK_DEADLOCK FALSE
