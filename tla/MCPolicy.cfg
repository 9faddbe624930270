SPECIFICATION PolFairSpec
CONSTANTS
    Policies = {"a", "b", "x"}
    Known = {"a", "b"}
    Requests = {"c1", "c2", "c3"}
    Stored = {"s1", "s2"}
    Inputs <- MCInputs
    SeedPolicies <- MCSeedPolicies
    SeedVersions <- MCSeedVersions
    None = None
    NoRow = NoRow
INVARIANTS
    PolTypeOK
    HistoryUnbroken
    PolicyAuditPerRevision
    ActiveIsLastActivation
    ActivatableHistory
    PolicyAnswerMatchesRecord
PROPERTIES
    PolImplementsStore
    EveryPolicyRequestAnswered
CHECK_DEADLOCK FALSE
