SPECIFICATION FairSpec
CONSTANTS
    Request = {r1, r2}
    Image = {i1, i2, i3}
    Thread = {t1, t2}
    batch_size = 2
    MayThrow = TRUE
    NULL = NULL
INVARIANTS TypeOK RequestConservation CounterExact OpenBatchAtHead CloseResetsAll
PROPERTIES Implements FlushTerminates SubmitTerminates
\* Close is the last call, and a pool that has lost its requests blocks its callers.
CHECK_DEADLOCK FALSE
