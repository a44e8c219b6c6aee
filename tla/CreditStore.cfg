SPECIFICATION StoreSpec
CONSTANTS
    Users = {u1, u2}
    Requests = {r1}
    ClientKeys = {}
    DepositKeys = {d1}
    Amounts <- SignedAmounts
    NoKey = NoKey
INVARIANTS StoreTypeOK LedgerChain BalanceIsNewestRow UsageLogBacked
SYMMETRY Symm
CHECK_DEADLOCK FALSE
