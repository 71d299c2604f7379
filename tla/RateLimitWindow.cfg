SPECIFICATION Spec
CONSTANTS
    alice = alice
    a = a
    b = b
    Handlers <- OneClient
    Clients = {alice}
    Processes = {a, b}
    Nonces = {n1, n2, n3, n4}
    Limit = 2
    WindowSeconds = 2
    SecondMs = 2
    CooldownMs = 2
    MaxTime = 8
    MaxFaults = 1
    MaxLosses = 1
SYMMETRY NonceSymmetry
INVARIANTS WithinLimit RetryAfterIsEnough
PROPERTY NoUndueRefusal
