\* docs/testing-checklist.md:137, "Batch failure -> retry".
CONSTANTS
    w1 = w1
    w2 = w2
    Writers <- MCWriters
    CallSizes <- MCCallSizes
    Flusher = Flusher
    Closer = Closer
    Free = Free
    BatchSize = 2
    MaxRecords = 3
    MaxRestarts = 1
SPECIFICATION Spec
PROPERTIES FailedBatchIsRetried
