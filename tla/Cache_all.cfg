\* Two requests at the same time; commands fail and the server stops.
SPECIFICATION FairSpec
CONSTANTS
    Currency = {czk, eur}
    Offers = {{czk}, {czk, eur}}
    Call = {c1, c2}
    Client = {"binance", "bybit"}
    NoCurrency = NoCurrency
    MaxChanges = 1
INVARIANTS TypeOK KeysSettled
PROPERTIES RefusalExplained NoDeadOption KeysRefreshed
