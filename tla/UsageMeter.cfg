SPECIFICATION FairUsageSpec
CONSTANTS
    CreditUSDMicro = 10000
    MarginPercent = 5
    PricingOf <- SeedPricing
    Manifests <- SeedManifests
    Targets <- SeedTargets
    ScopeLists <- SomeScopes
    Asks <- SignedAsks
    Hints <- SignedHints
    Models = {"opus"}
    NoModel = "none"
    ChunkSizes = {0, 700}
    Reports <- SomeReports
    RunTimes = {7}
    MaxStream = 2
    MaxOutput = 2100
    Nil = Nil
INVARIANTS UsageTypeOK OvershootOneChunk DeliveredIsCharged UnsentCostsAtMostOneCall
INVARIANTS PolledRunPriced PricedByReference
PROPERTIES RequestEnds
CHECK_DEADLOCK FALSE
