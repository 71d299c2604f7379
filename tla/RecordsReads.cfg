SPECIFICATION Spec
CONSTANTS
    alice = alice
    bob = bob
    c1 = c1
    old = old
    small = small
    large = large
    None = None
    Nobody = Nobody
    Deleted = Deleted
    Works <- TwoInOne
    Reads <- Readers
    Reports <- Monthly
    Clients = {alice, bob}
    Conversations = {c1, old}
    Present <- AtFirst
    Models = {small, large}
    Tariffs <- PriceLists
    Rate = 9250
    Days = {0, 2}
INVARIANTS ListsHoldWholeExchanges ListsAreChronological ListsAreComplete ReadersSeeTheirOwn ReportsTellTheSpending
CHECK_DEADLOCK FALSE
