\* Validations and learning events, failing sends, shutdown and one death.
CONSTANTS
    h1 = h1
    h2 = h2
    Handlers <- MCHandlers
    None = None
    MaxRequests = 3
    MaxRestarts = 1
SPECIFICATION FairSpec
INVARIANTS TypeOK EventsFollowRecords CleanExit
PROPERTIES StopIsClean
