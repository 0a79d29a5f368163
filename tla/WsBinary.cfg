SPECIFICATION WsFairSpec
CONSTANTS
    Ifaces = {i1}
    Classes = {c1}
    Cap = 1
    MaxStamp = 2
    MaxReq = 3
    MaxChunk = 2
INVARIANTS
    ViewsAgree
PROPERTIES
    KeepsContract
    SessionEnds
    DetachedWriterEnds
    RequestsAreAnswered
