SPECIFICATION Spec
CONSTANTS
    alice = alice
    bob = bob
    hello = hello
    c1 = c1
    c2 = c2
    Requests <- OneStream
    Owners = {alice, bob}
    Prompts = {hello}
    Conversations = {c1, c2}
    Deletions = FALSE
    None = None
    Unreadable = Unreadable
    Deleted = Deleted
INVARIANT StreamsAreClosed
CHECK_DEADLOCK FALSE
