SPECIFICATION FairSpec
CONSTANTS
    Rules = {1}
    Workloads = {1}
    Matches = {"m1", "m2"}
    NoMatch = "unusable"
    TTLs = {60, 120}
    Ids = {1, 2, 3, 4}
    Requests = {c1, c2}
    Inputs <- EditInputs
    Seed <- SeedLegacy
    None = None
    NoRow = NoRow
    Runners = {p1}
    External = {"create", "delete", "drift"}
    MaxDisturbances = 2
    Foreign = Foreign
    Unused = Unused
    Gone = Gone
INVARIANTS
    TypeOK
    OrphansBounded
PROPERTIES
    BindingKept
    Idempotent
    EventuallySettled
CHECK_DEADLOCK FALSE
