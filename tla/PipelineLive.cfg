SPECIFICATION FairSpec
CONSTANTS
    u1 = u1
    k1 = k1
    r3 = r3
    NoKey = NoKey
    Miss = Miss
    Users = {u1}
    Requests = {r1, r3}
    ClientKeys = {k1}
    DepositKeys = {d1}
    Amounts = {0, 1, 2, 3, 4}
    UserOf <- OneUser
    HoldOf <- HoldOfTwo
    KeyOf <- OnlyR3Keyed
    Streaming = {r3}
    Costs = {0, 1}
    Outcomes = {"completed", "failed", "partial"}
    MaxRetries = 2
    BatchSize = 2
    SweepLimit = 2
    DepositAmounts = {4}
    Faults = {"solvency", "proxy", "client", "cache", "worker", "process", "push", "delete", "sweep"}
    MaxFaults = 2
    MaxReplays = 1
PROPERTIES HoldEventuallySettled ImplementsHoldLifecycle
CHECK_DEADLOCK FALSE
