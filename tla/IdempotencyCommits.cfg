SPECIFICATION Spec
CONSTANTS
    k1 = k1
    hello = hello
    goodbye = goodbye
    a = a
    b = b
    None = None
    Requests <- Retry
    Keys = {k1}
    Fingerprints = {hello}
    Processes = {a, b}
    LockSeconds = 2
    TtlSeconds = 2
    CooldownSeconds = 1
    MaxRun = 1
    MaxFaults = 0
    MaxLosses = 0
    Losable = {"done"}
INVARIANT CommitsAtMostOnce
