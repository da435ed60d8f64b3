CONSTANTS
    None = None
    Removal = Removal
    L1 = L1
    L2 = L2
    Listener <- Listeners
    Request <- Requests
    Conf <- Plain
SPECIFICATION Spec
PROPERTY
    RemovalArrives
