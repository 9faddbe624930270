SPECIFICATION Spec
CONSTANTS
    Rules = {1}
    Workloads = {1}
    Matches = {"m1", "m2"}
    NoMatch = "unusable"
    TTLs = {60}
    Ids = {1, 2}
    Requests = {c1}
    Inputs <- EditInputs
    Seed <- SeedPresent
    None = None
    NoRow = NoRow
    Runners = {p1}
    External = {}
    MaxDisturbances = 0
    Foreign = Foreign
    Unused = Unused
    Gone = Gone
INVARIANT
    ConvergedIsApplied
CHECK_DEADLOCK FALSE
