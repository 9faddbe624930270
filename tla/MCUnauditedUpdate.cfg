SPECIFICATION Spec
CONSTANTS
    Rules = {1}
    Workloads = {1}
    Matches = {"m1"}
    NoMatch = "unusable"
    TTLs = {60, 120}
    Ids = {1, 2}
    Requests = {c1}
    Inputs <- TTLInputs
    Seed <- SeedPresent
    None = None
    NoRow = NoRow
    Runners = {p1}
    External = {"drift"}
    MaxDisturbances = 2
    Foreign = Foreign
    Unused = Unused
    Gone = Gone
INVARIANT
    MutationsAudited
CHECK_DEADLOCK FALSE
