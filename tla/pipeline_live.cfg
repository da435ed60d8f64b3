SPECIFICATION Spec
CONSTANTS
    a = a
    b = b
    p = p
    q = q
    None = None
    Blank = Blank
    Truncated = Truncated
    Garbled = Garbled
    Service <- MCServices
    Acl <- MCAcls
    Port <- MCPorts
    Request <- TwoServices
    Worker = {w1, w2}
    Kinds = {"recreate", "reconfigure"}
    Attempts = 1
    ValidateAddress = FALSE
    KeepFiles = FALSE
    MaxOps = 2
    MaxFlips = 0
    MaxFaults = 1
    MaxLost = 0
    MaxCrashes = 0
CHECK_DEADLOCK FALSE
PROPERTY Answered
