SPECIFICATION FairKeySpec
CONSTANTS
    Keys = {k1, k2}
    Lookups = {q1, q2}
    RedisFails = TRUE
INVARIANTS KeyTypeOK
PROPERTIES RevocationFinal RevocationTakesHold
