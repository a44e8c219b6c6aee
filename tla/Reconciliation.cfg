SPECIFICATION FairReconSpec
CONSTANTS
    Users = {u1}
    Requests = {r1}
    ClientKeys = {}
    DepositKeys = {d1}
    Amounts = {0, 2}
    NoKey = NoKey
    Audits = {"hourly", "cli"}
    MaxErrors = 1
    Miss = Miss
PROPERTIES DriftOnlyByRepair DriftRepaired
