SPECIFICATION Spec
CONSTANTS
    Rules = {1, 2}
    Workloads = {1, 2}
    Matches = {"m1", "m2"}
    NoMatch = "unusable"
    TTLs = {60, 120}
    Ids = {1, 2, 3, 4}
    Requests = {c1, c2}
    Inputs <- NewRuleInputs
    Seed <- SeedTwoMissing
    None = None
    NoRow = NoRow
    Runners = {p1}
    External = {}
    MaxDisturbances = 2
    Foreign = Foreign
    Unused = Unused
    Gone = Gone
INVARIANTS
    CleanRunApplied
    UnauditedBounded
PROPERTY InSyncKept
CHECK_DEADLOCK FALSE
