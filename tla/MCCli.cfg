CONSTANTS
    Sessions = {s1, s2}
    Server = server
    k1 = k1
    k2 = k2
    Keys = {k1, k2}
    SelftestKey = k2
    Instances = {"trxreg-cli", "another"}
    CliInstance = "trxreg-cli"
    MaxCommands = 3
    Strangers <- MCStrangers
    None = None
SPECIFICATION Spec
SYMMETRY Symmetry
INVARIANTS
    AddressedAsAsked
    CachedIsOwnLatest
    TokensStay
CHECK_DEADLOCK FALSE
