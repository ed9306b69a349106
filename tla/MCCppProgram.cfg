\* The examples of the C++ SDK, and one of them on all kinds of adapters.
SPECIFICATION Spec
CONSTANTS
    Scenarios <- TheScenarios
    Counters  = {0, 1}
    InFlight  = 1
    Swapping  = {0}
INVARIANTS
    TypeOK
    ArrivesAsSent
    OpenedAsAsked
    EndsCleanly
\* the program has ended
CHECK_DEADLOCK FALSE
