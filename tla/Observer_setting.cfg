\* One PATCH request against the worker.
SPECIFICATION Spec
CONSTANTS
    cash = cash
    bank = bank
    here = here
    there = there
    binance = binance
    bybit = bybit
    r1 = r1
    Tracker = {"whole"}
    Method = {cash, bank}
    Price = {1, 2}
    PaymentOf <- MCPaymentOf
    Market = {here}
    Exchange = {binance}
    ExchangeOf <- MCExchangeOf
    MarketOf <- OneMarket
    Aggregated <- MCAggregated
    Name = {"me", "rival"}
    Username <- MCUsername
    Books <- MCBooks
    Request = {r1}
    DbFails = FALSE
    Crashes = FALSE
    AlertCap = 2
    MaxRequests = 2
    Whole = Whole
    NoCopy = NoCopy
INVARIANT ConfirmedSettingKept
