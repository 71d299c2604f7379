SPECIFICATION Spec
CONSTANTS
    alice = alice
    bob = bob
    hello = hello
    c1 = c1
    c2 = c2
    Requests <- SamePrompt
    Owners = {alice, bob}
    Prompts = {hello}
    Conversations = {c1, c2}
    Deletions = TRUE
    None = None
    Unreadable = Unreadable
    Deleted = Deleted
INVARIANTS CachedRepliesFit AnswersAreTrue LedgerMatchesExchanges DeliveredIsCharged OwnConversationsOnly
CHECK_DEADLOCK FALSE
