CONSTANTS
    WordPositions <- MCWordPositions
    ChangeCounts <- MCChangeCounts
    XpubIndices <- MCXpubIndices
    Identities <- MCIdentities
    Delays <- MCDelays
    CosiPaths <- MCCosiPaths
    CosiLens <- MCCosiLens
    OmniData <- MCOmniData
    OmniSizes <- MCOmniSizes
    QrSides <- MCQrSides
    AmountLens <- MCAmountLens
    NEM_ADDRESS_SIZE <- MCNemAddressSize

SPECIFICATION Spec

INVARIANT
    LanguageNeutral
