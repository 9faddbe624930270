SPECIFICATION RegFairSpec
CONSTANTS
    Rules = {1, 2}
    Workloads = {1}
    Matches = {"m1", "m2"}
    NoMatch = "unusable"
    TTLs = {60}
    Ids = {1}
    Requests = {c1, c2, c3}
    Inputs <- MCInputs
    Seed <- MCSeed
    None = None
    NoRow = NoRow
INVARIANTS
    AuditPerRevision
    AnswerMatchesRecord
    LockedRowIsCurrent
PROPERTIES
    EveryRequestAnswered
    ImplementsRevisionedStore
CHECK_DEADLOCK FALSE
