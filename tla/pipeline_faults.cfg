SPECIFICATION Spec
CONSTANTS
    a = a
    b = b
    p = p
    q = q
    None = None
    Blank = Blank
    Truncated = Truncated
    Garbled = Garbled
    Service <- MCServices
    Acl <- MCAcls
    Port <- MCPorts
    Request <- OneTemplate
    Worker = {w1, w2}
    Kinds = {"reconfigure", "remove", "recreate", "fetch"}
    Attempts = 1
    ValidateAddress = TRUE
    KeepFiles = TRUE
    MaxOps = 2
    MaxFlips = 1
    MaxFaults = 1
    MaxLost = 1
    MaxCrashes = 1
SYMMETRY AnyWorker
CONSTRAINT OneTrouble
CHECK_DEADLOCK FALSE
INVARIANT SoloReloadSyncs
