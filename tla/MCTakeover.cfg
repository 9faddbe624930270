SPECIFICATION Spec
CONSTANTS
    Rules = {1, 2}
    Workloads = {1, 2}
    Matches = {"m1"}
    NoMatch = "unusable"
    TTLs = {60, 120}
    Ids = {1, 2, 3}
    Requests = {c1}
    Inputs <- TTLInputs
    Seed <- SeedPresent
    None = None
    NoRow = NoRow
    Runners = {p1}
    External = {"takeover", "delete"}
    MaxDisturbances = 2
    Foreign = Foreign
    Unused = Unused
    Gone = Gone
INVARIANTS
    UniqueBinding
CHECK_DEADLOCK FALSE
