SPECIFICATION AcceptFairSpec
CONSTANTS
    Conns = {a}
    MagicLen = 4
PROPERTIES
    GreetedOnConnect
CHECK_DEADLOCK FALSE
