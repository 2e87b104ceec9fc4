\* The observer and the delivery of its alerts; anything may stop or fail.
SPECIFICATION PipelineSpec
CONSTANTS
    cash = cash
    bank = bank
    here = here
    there = there
    binance = binance
    bybit = bybit
    r1 = r1
    Tracker = {"single"}
    Method = {cash, bank}
    Price = {1, 2}
    PaymentOf <- MCPaymentOf
    Market = {here}
    Exchange = {binance}
    ExchangeOf <- MCExchangeOf
    MarketOf <- OneMarket
    Aggregated <- MCAggregated
    Name = {"me", "rival"}
    Username <- MCUsername
    Books <- MCFewBooks
    Request = {}
    DbFails = TRUE
    Crashes = TRUE
    AlertCap = 4
    MaxRequests = 1
    Whole = Whole
    NoCopy = NoCopy
    MaxQueues = 1
    MaxTried = 3
    MaxEpisode = 2
    MaxAllowed = 2
PROPERTIES OneMessagePerOutbid
