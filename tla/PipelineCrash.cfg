SPECIFICATION Spec
CONSTANTS
    u1 = u1
    k1 = k1
    r3 = r3
    NoKey = NoKey
    Miss = Miss
    Users = {u1}
    Requests = {r1}
    ClientKeys = {k1}
    DepositKeys = {d1}
    Amounts = {0, 1, 2, 3, 4, 5, 6}
    UserOf <- OneUser
    HoldOf <- HoldOfTwo
    KeyOf <- NoKeys
    Streaming = {}
    Costs = {0, 1, 3}
    Outcomes = {"completed", "failed", "partial"}
    MaxRetries = 2
    BatchSize = 2
    SweepLimit = 2
    DepositAmounts = {6}
    Faults = {"proxy", "client", "cache", "worker", "process", "delete", "sweep"}
    MaxFaults = 2
    MaxReplays = 1
INVARIANTS TypeOK AckedEventAccounted HoldNeverStranded KeylessSettledOnceEach SettlementWithinHold
PROPERTIES StoreSpec
CHECK_DEADLOCK FALSE
