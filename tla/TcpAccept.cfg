SPECIFICATION AcceptFairSpec
CONSTANTS
    Conns = {a, b}
    MagicLen = 4
INVARIANTS
    HeaderDecides
PROPERTIES
    SpeakersAreServed
CHECK_DEADLOCK FALSE
