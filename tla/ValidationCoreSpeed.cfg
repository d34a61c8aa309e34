\* docs/testing-checklist.md:79, "Invalid speed returns INVALID".
CONSTANTS
    s1 = s1
    s2 = s2
    car = car
    dog = dog
    Sessions = {s1, s2}
    Streams = {s1}
    Devices = {car, dog}
    Requests <- MCRequests
    Sources <- MCSources
    MaxRequests = 2
    Clock <- MCClock
    MaxTimeDiff = 15
    MaxSpeed = 1
    Second = 10
    Word = 128
    NoRequest = NoRequest
    NoPosition = NoPosition
    NoReply = NoReply
SPECIFICATION Spec
INVARIANTS ImpossibleSpeedIsInvalid
