SPECIFICATION GuardSpec
CONSTANTS
    Handlers = {h1, h2, h3, h4}
    Providers = {p1, p2}
    Limit = 2
    MinSamples = 2
    MaxResults = 3
INVARIANTS GuardTypeOK SlotsAccounted ActiveAccounted 
CHECK_DEADLOCK FALSE
