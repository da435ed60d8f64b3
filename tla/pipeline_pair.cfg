SPECIFICATION Spec
CONSTANTS
    a = a
    b = b
    p = p
    q = q
    None = None
    Blank = Blank
    Truncated = Truncated
    Garbled = Garbled
    Service <- MCServices
    Acl <- MCAcls
    Port <- MCPorts
    Request <- WithUpdate
    Worker = {w1, w2}
    Kinds = {"reconfigure", "remove"}
    Attempts = 1
    ValidateAddress = FALSE
    KeepFiles = FALSE
    MaxOps = 3
    MaxFlips = 0
    MaxFaults = 0
    MaxLost = 0
    MaxCrashes = 0
CHECK_DEADLOCK FALSE
INVARIANT RegistryBacked
INVARIANT NoOrphanFiles
INVARIANT SoloReloadSyncs
