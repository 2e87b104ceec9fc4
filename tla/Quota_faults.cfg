\* Three workers; every command may fail, the key expires, the observer stops.
SPECIFICATION FairSpec
CONSTANTS
    User = {u1}
    Worker = {w1, w2, w3}
    RedisFails = TRUE
    Expires = TRUE
    Crashes = TRUE
    MaxCharged = 14
INVARIANTS TypeOK BlockedOnlyAfterLimit OverrunBounded
PROPERTY BlockEnds
