SPECIFICATION Spec
CONSTANTS
    Ifaces = {i1}
    Classes <- MCClasses
    Cap = 1
    MaxStamp = 3
    Calls = {k1, k2}
    SendFrameReqs <- MCReqs
    MaxClassic = 1
    MaxFd = 2
    MaxStd = 1
    MaxExt = 2
INVARIANTS
    AcksAreTrue
    TxEventsMatchBus
    SilentOnlyIfDropped
PROPERTIES
    CallsEnd
    EventsReachStream
