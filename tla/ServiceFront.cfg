SPECIFICATION Spec
CONSTANTS
    alice = alice
    bob = bob
    new = new
    old = old
    other = other
    wrong = wrong
    key = key
    hello = hello
    a = a
    b = b
    Malformed = Malformed
    Invalid = Invalid
    None = None
    Calls <- AllCalls
    ApiKeys <- Keyring
    Processes = {a, b}
    Limit = 2
    Errors = {"not_found", "overflow", "database"}
    Together <- Scenes
    LockSeconds = 1
    TtlSeconds = 1
    CooldownSeconds = 1
    MaxRun = 1
    MaxFaults = 1
    MaxLosses = 1
INVARIANTS ReplaysStayWithTheClient AllowanceIsTheClients StatusesTellTheEffect LinesTellTheTruth
CHECK_DEADLOCK FALSE
