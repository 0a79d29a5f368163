SPECIFICATION Spec
CONSTANTS
    Dumps <- MCDumps
    CanLike <- MCCanLike
CHECK_DEADLOCK FALSE
PROPERTY CtrlCTerminates
