SPECIFICATION Spec
CONSTANTS
    None = None
    Blank = Blank
    Unreadable = Unreadable
    Dummy = Dummy
    DefaultAlgo = "hdr_beg(host)"
    MaxIndex = 2
    Deployment <- WildOnly
INVARIANT WildcardMatched
