SPECIFICATION Spec
CONSTANTS
    Rules = {1}
    Workloads = {1}
    Matches = {"m1", "m2"}
    NoMatch = "unusable"
    TTLs = {60}
    Ids = {1, 2, 3}
    Requests = {c1}
    Inputs <- EditInputs
    Seed <- SeedPresent
    None = None
    NoRow = NoRow
    Runners = {p1, p2}
    External = {"create", "delete", "drift"}
    MaxDisturbances = 1
    Foreign = Foreign
    Unused = Unused
    Gone = Gone
SYMMETRY Interchangeable
INVARIANTS
    Ownership
    BindingAudited
PROPERTIES
    ForeignUntouched
    RegSpec
CHECK_DEADLOCK FALSE
