CONSTANTS
    None = None
    Removal = Removal
    L1 = L1
    L2 = L2
    Listener <- Listeners
    Request <- Requests
    Conf <- Everything
SPECIFICATION Spec
INVARIANTS
    TypeOK
    NothingMissed
PROPERTY
    Arrives
