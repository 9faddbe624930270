SPECIFICATION CodecSpec
CONSTANTS
    Seeds <- MCSeeds
    Inputs <- MCInputs
    Drifted <- MCDrifted
    MaxSelectors = 2
    MaxEdits = 2
    MaxDrifts = 2
    None = None
INVARIANTS
    AcceptedIsApplicable
    EquivalenceExact
PROPERTIES
    UpdatesCease
