SPECIFICATION FairSpec
CONSTANTS
    plain = plain
    stream1 = stream1
    stream2 = stream2
    Calls = {plain, stream1, stream2}
    Streams = {stream1, stream2}
    MaxConcurrency = 1
    Attempts = 2
    MaxPieces = 2
INVARIANTS SlotsConserved NoLostWakeup NoTextTwice RecordedAtMostOnce
PROPERTY EveryCallEnds
CHECK_DEADLOCK FALSE
