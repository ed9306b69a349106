\* Any reading may fail.
SPECIFICATION Spec
CONSTANTS
    Wrap      = 8
    Delay     = 2
    Late      = 1
    Latency   = 3
    ReadFails = TRUE
    MaxNow    = 24
INVARIANTS
    TypeOK
    TimestampsExact
\* the model ends with MaxNow
CHECK_DEADLOCK FALSE
