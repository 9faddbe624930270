SPECIFICATION FairSpec
CONSTANTS
    Rules = {1}
    Workloads = {1}
    Matches = {"m1", "m2"}
    NoMatch = "unusable"
    TTLs = {60}
    Ids = {1, 2}
    Requests = {c1}
    Inputs <- EditInputs
    Seed <- SeedPresent
    None = None
    NoRow = NoRow
    Runners = {p1}
    External = {"takeover"}
    MaxDisturbances = 1
    Foreign = Foreign
    Unused = Unused
    Gone = Gone
PROPERTY
    ForeignUntouched
CHECK_DEADLOCK FALSE
