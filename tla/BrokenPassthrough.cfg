SPECIFICATION UsageSpec
CONSTANTS
    CreditUSDMicro = 10000
    MarginPercent = 5
    PricingOf <- SeedPricing
    Manifests <- SeedManifests
    Targets <- SeedTargets
    ScopeLists <- SomeScopes
    Asks = {1}
    Hints = {0}
    Models = {"opus"}
    NoModel = "none"
    ChunkSizes = {0, 700}
    Reports <- SomeReports
    RunTimes = {7}
    MaxStream = 2
    MaxOutput = 2100
    Nil = Nil
INVARIANTS PassthroughCoversCost
CHECK_DEADLOCK FALSE
