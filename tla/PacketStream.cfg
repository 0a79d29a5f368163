SPECIFICATION Spec
CONSTANTS
    Base = 4
    Messages <- MCMessages
    OtherVersion <- MCOtherVersion
    MaxSent = 2
\* Once MaxSent packets are decoded nothing is left to do.
CHECK_DEADLOCK FALSE
INVARIANTS
    DecodedAsSent
    NoPacketIsStuck
PROPERTY ImplementsBuffer
