SPECIFICATION JsonlSpec
CONSTANTS
    Ifaces = {i1, i2}
    Classes = {c1, c2}
    Cap = 1
    MaxStamp = 2
    MaxReq = 3
SYMMETRY Symmetry
INVARIANTS
    FramesMatchOneSubscription
