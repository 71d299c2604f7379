SPECIFICATION FairSpec
CONSTANTS
    k1 = k1
    hello = hello
    goodbye = goodbye
    a = a
    b = b
    None = None
    Requests <- Misuse
    Keys = {k1}
    Fingerprints = {hello, goodbye}
    Processes = {a, b}
    LockSeconds = 2
    TtlSeconds = 2
    CooldownSeconds = 1
    MaxRun = 1
    MaxFaults = 2
    MaxLosses = 1
    Losable = {"done"}
INVARIANTS OneRunPerKey MarkerHasRunner
PROPERTIES StoredResponseIsStable NothingAfterSuccess KeepsPromise KeyNeverBlockedForever
