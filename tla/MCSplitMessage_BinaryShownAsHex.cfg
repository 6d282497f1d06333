CONSTANTS
    RowCap <- MCRowCap
    HexMax <- MCHexMax
    HexRow <- MCHexRow
    XpubRow <- MCXpubRow
    AddrRow <- MCAddrRow
    ShortAddr <- MCShortAddr
    Inputs <- MCInputs
SPECIFICATION Spec
INVARIANT
    BinaryShownAsHex
