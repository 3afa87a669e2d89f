SPECIFICATION Spec
CONSTANTS
    sample_length = 12
    BufferSize = {1, 2, 3, 4, 5, 12, 16}
    SlidingWindow = {2, 3, 4, 5, 6, 8, 10, 12}
    MaxBuffers = 36
    MaxStarts = 2
INVARIANTS WindowsKept
\* A stream ends after MaxBuffers buffers, or with an error.
CHECK_DEADLOCK FALSE
