SPECIFICATION FitSpec
CONSTANTS
    Lengths = {1, 5, 8}
    MaxMessages = 4
    Limits = {27, 32, 38, 46, 60}
    MaxTokens = {1, 6}
    Strategies = {"reject", "truncate_oldest"}
INVARIANTS FitTypeOK DropsTheLeast EssentialsAreKept
CHECK_DEADLOCK FALSE
