SPECIFICATION Spec
CONSTANTS
    u1 = u1
    k1 = k1
    r3 = r3
    NoKey = NoKey
    Miss = Miss
    Users = {u1}
    Requests = {r1, r2, r3}
    ClientKeys = {k1}
    DepositKeys = {d1}
    Amounts = {0, 1, 2, 3, 4}
    UserOf <- OneUser
    HoldOf <- HoldOfTwo
    KeyOf <- Retried
    Streaming = {r3}
    Costs = {1}
    Outcomes = {"completed"}
    MaxRetries = 2
    BatchSize = 2
    SweepLimit = 2
    DepositAmounts = {4}
    Faults = {"proxy", "cache"}
    MaxFaults = 1
    MaxReplays = 0
INVARIANTS AckedEventAccounted HoldNeverStranded KeylessSettledOnceEach OneHoldPerClientKey ReplayWasHeld
SYMMETRY Retries
CHECK_DEADLOCK FALSE
