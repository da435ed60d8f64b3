SPECIFICATION Spec
CONSTANTS
    a = a
    b = b
    p = p
    q = q
    None = None
    Blank = Blank
    Truncated = Truncated
    Garbled = Garbled
    Service <- MCServices
    Acl <- MCAcls
    Port <- MCPorts
    Request <- EveryPlain
    Worker = {w1}
    Kinds = {"reconfigure", "remove", "recreate", "reload", "cert"}
    Attempts = 2
    ValidateAddress = FALSE
    KeepFiles = FALSE
    MaxOps = 6
    MaxFlips = 0
    MaxFaults = 0
    MaxLost = 0
    MaxCrashes = 0
CHECK_DEADLOCK FALSE
INVARIANT TypeOK
INVARIANT IdleSync
INVARIANT RemovalLeavesNothing
PROPERTY RollbackSparesValid
PROPERTY KeepsContract
PROPERTY LoadsChanges
