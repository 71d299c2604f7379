SPECIFICATION Spec
CONSTANTS
    Requests = {first}
    OutputRetries = 2
    MaxTokens = 2
    None = None
INVARIANTS RowsTellTheSpending ClientsSeeTheCause NoUselessGeneration
PROPERTY PaidMeansRecorded
CHECK_DEADLOCK FALSE
