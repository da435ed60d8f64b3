CONSTANTS
    None = None
    Bad = Bad
    Empty = Empty
    R1 = R1
    R2 = R2
    R3 = R3
    X = X
    Y = Y
    Old = Old
    New = New
    S = S
    O1 = O1
    O2 = O2
    Replica <- Replicas
    Cert <- Certs
    Service <- Services
    Content <- Contents
    Op <- OneOp
    Offer <- Offers
    World <- Refusing
SPECIFICATION Spec
INVARIANT
    ServedWhenOk
