SPECIFICATION FairSpec
CONSTANTS
    Ifaces = {i1}
    Classes = {c1}
    Cap = 2
    MaxStamp = 3
    MaxReq = 3
INVARIANTS
    TypeOK
    FramesAreSubscribed
    ViewsAgree
    RepliesInOrder
    SendAcksAreTrue
PROPERTIES
    KeepsContract
    SessionEnds
    DetachedWriterEnds
    RequestsAreAnswered
    FramesAreDelivered
