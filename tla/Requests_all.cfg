\* One POST, two DELETEs, other updates and a client reading page by page.
SPECIFICATION Spec
CONSTANTS
    cash = cash
    bank = bank
    Method = {cash, bank}
    Payments <- MCPayments
    Books <- MCBooks
    Caches <- MCCaches
    Post = {q1}
    Delete = {d1, d2}
    Limits = {0, 1}
    DefaultLimit = 2
    MaxId = 3
    MaxMoves = 1
    DbFails = TRUE
SYMMETRY Symmetry
INVARIANTS TypeOK DeletedOnce
PROPERTIES OneTrackerPerAd PagesComplete
