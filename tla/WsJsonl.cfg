SPECIFICATION JsonlFairSpec
CONSTANTS
    Ifaces = {i1}
    Classes = {c1, c2}
    Cap = 1
    MaxStamp = 2
    MaxReq = 3
INVARIANTS
    QuietFramesConform
    FilterViewsAgree
PROPERTIES
    KeepsContract
    SessionEnds
    FilteredFramesAreDelivered
