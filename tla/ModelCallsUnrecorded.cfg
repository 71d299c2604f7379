SPECIFICATION Spec
CONSTANTS
    plain = plain
    stream1 = stream1
    stream2 = stream2
    Calls = {stream1}
    Streams = {stream1}
    MaxConcurrency = 1
    Attempts = 2
    MaxPieces = 2
INVARIANT LostStreamsAreRecorded
CHECK_DEADLOCK FALSE
