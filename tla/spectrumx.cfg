SPECIFICATION SpectrumSpec
CONSTANTS
    AddrBits = 6
    Sanitized <- NoRename
    Settings <- MCSettings
INVARIANTS
    AddressesUnique
    PoolHoldsItsOwn
    EndpointsHavePools
CHECK_DEADLOCK FALSE
