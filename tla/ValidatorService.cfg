\* Two streams and a single call, all commands may fail, Shutdown at any time.
CONSTANTS
    s1 = s1
    s2 = s2
    s3 = s3
    car = car
    ap = ap
    tag = tag
    tower = tower
    Sessions = {s1, s2, s3}
    Streams = {s1, s2}
    Devices = {car}
    Points = {ap, tag, tower}
    Beacons = {tag}
    Known = {tag, tower}
    Requests <- MCRequests
    Clock = {7}
    MaxTimeDiff = 3
    MaxSpeed = 2
    Weight <- MCWeight
    MaxRequests = 2
    MaxFailures = 1
    Absent = Absent
    Before = Before
    NoPoint = NoPoint
    Free = Free
SYMMETRY MCSymmetry
SPECIFICATION Spec
INVARIANTS TypeOK ShutdownWaits OrderlyShutdown WaiterIsWoken HistoryMatchesAnswers KnownPointsAreKept
PROPERTIES ImplementsDeviceTrack
