SPECIFICATION Spec
CONSTANTS
    None = None
    Blank = Blank
    Unreadable = Unreadable
    Dummy = Dummy
    DefaultAlgo = "hdr_beg(host)"
    MaxIndex = 2
    Deployment <- Everything
INVARIANT TypeOK
INVARIANT CompleteIsServed
INVARIANT EveryPortRouted
INVARIANT CatchAllLast
INVARIANT WellKnownFirst
INVARIANT CredentialsAsAsked
