\* Two exchanges, a PATCH request, failing statements and stops of the observer:
\* two trackers that nobody patches, or one tracker and a PATCH.
SPECIFICATION FairSpec
CONSTANTS
    cash = cash
    bank = bank
    here = here
    there = there
    binance = binance
    bybit = bybit
    r1 = r1
    Tracker = {"whole", "double"}
    Method = {cash, bank}
    Price = {1, 2}
    PaymentOf <- MCPaymentOf
    Market = {here, there}
    Exchange = {binance, bybit}
    ExchangeOf <- MCExchangeOf
    MarketOf <- TwoMarkets
    Aggregated <- MCAggregated
    Name = {"me", "rival"}
    Username <- MCUsername
    Books <- MCFewBooks
    Request = {r1}
    DbFails = TRUE
    Crashes = TRUE
    AlertCap = 2
    MaxRequests = 2
    Whole = Whole
    NoCopy = NoCopy
INVARIANTS TypeOK MethodsIntact MethodFlagTruthful FlagsTruthful NoMissedNotify NoRepeatedNotify FlagMeansNotified
PROPERTY RoundEnds
