SPECIFICATION CPFairSpec
CONSTANTS
    Environments <- MCEnvironments
    Clients = {c1, c2}
    Calls <- MCCalls
    PoolSize = 1
INVARIANTS
    CPTypeOK
    AccessControlled
    CleanExitLosesNothing
    ListenerFailureReported
    NoTransactionSevered
PROPERTIES
    SignalEnds
    RequestEnds
CHECK_DEADLOCK FALSE
