SPECIFICATION FairSpec
CONSTANTS
    Message = {m1, m2}
    MessageSize = 2
    MaxMessages = 3
    MaxStarts = 2
    MaxAttempts = 3
    MaxInterval = 5
    NULL = NULL
INVARIANTS TypeOK RetriesBounded
PROPERTIES FileIsArray Reconnects
\* The application starts the element MaxStarts times.
CHECK_DEADLOCK FALSE
