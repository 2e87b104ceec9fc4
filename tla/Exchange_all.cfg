\* All four functions, and two moves of a book of at most five ads.
SPECIFICATION FairSpec
CONSTANTS
    Ad = {a, b, c, d, e}
    Mine = {a, b}
    Client = {"binance", "bybit"}
    Function = {"GetAds", "GetAdsByName"}
    PageSize = 2
    MaxRetries = 2
    MaxMoves = 2
INVARIANTS TypeOK StillBookReturned MoveCostsOne
PROPERTY CallEnds
CHECK_DEADLOCK FALSE
