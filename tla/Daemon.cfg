SPECIFICATION Spec
CONSTANTS
    Dumps <- MCDumps
    CanLike <- MCCanLike
\* The process exits.
CHECK_DEADLOCK FALSE
INVARIANTS
    OneReaderPerIface
    RunsUntilInterrupted
PROPERTIES
    InterruptEndsMain
    ExitsUnlessReceiving
    RxSurvivesErrors
