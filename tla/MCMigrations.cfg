SPECIFICATION MigFairSpec
CONSTANTS
    Scripts = {s1, s2}
    MaxFaults = 2
    MaxDowns = 2
INVARIANTS
    MigTypeOK
PROPERTIES
    ExitZeroMeansDone
    AppliedInOrder
    EventuallyMigrated
CHECK_DEADLOCK FALSE
