CONSTANTS
    Coins <- MCCoins
    Inputs <- MCInputs
SPECIFICATION Spec
INVARIANTS
    RawPathExact
    LabelsUnambiguous
