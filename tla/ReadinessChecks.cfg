SPECIFICATION FairSpec
CONSTANTS
    postgres = postgres
    redis = redis
    one = one
    two = two
    Dependencies <- Both
    Required <- OnlyPostgres
    Checks = {one, two}
    TimeoutSeconds = 1
    CacheSeconds = 1
    MaxCancels = 1
    None = None
INVARIANTS AnsweredInTime
PROPERTIES EveryCheckEnds AnswersWereTrueRecently ProbesAreSpaced
