\* The write-behind queue.  No symmetry: it is unsound for liveness.
CONSTANTS
    w1 = w1
    w2 = w2
    Writers <- MCWriters
    CallSizes <- MCCallSizes
    Flusher = Flusher
    Closer = Closer
    Free = Free
    BatchSize = 3
    MaxRecords = 5
    MaxRestarts = 1
SPECIFICATION FairSpec
INVARIANTS TypeOK InOrder Accounted OneFlusher QueueBelowBatchSize CloseDrains
PROPERTIES ImplementsDeliveryLog EveryRecordSettles CallersReturn CloseReturns
