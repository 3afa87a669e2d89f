SPECIFICATION FairSpec
CONSTANTS
    Image = {i1, i2, i3}
    Thread = {t1, t2}
    Streaming = {t1}
    PoolSize = 2
    batch_size = 2
    NULL = NULL
INVARIANTS TypeOK SurfaceExclusive FlushCovers
PROPERTIES FlushTerminates SleeperWakes
\* All images may have been submitted.
CHECK_DEADLOCK FALSE
