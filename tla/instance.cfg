SPECIFICATION Spec
CONSTANTS
    a = a
    b = b
    c = c
    Elem = {a, b, c}
    Master = {a}
    format <- TwoFormats
    MaxStarts = 2
    MayFail = TRUE
    NULL = NULL
INVARIANTS TypeOK InferenceAlive AcquireFindsEntry ModelShared InstanceDeleted
\* Every element may be finalized.
CHECK_DEADLOCK FALSE
