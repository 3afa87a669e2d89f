SPECIFICATION Spec
CONSTANTS
    a = a
    b = b
    c = c
    Elem = {a, b, c}
    Master = {a}
    format <- OneFormat
    MaxStarts = 1
    MayFail = FALSE
    NULL = NULL
INVARIANTS PlayingInitialized
\* Every element may be finalized.
CHECK_DEADLOCK FALSE
