\* Two users and an order of each, two webhook calls at a time; the database may fail.
SPECIFICATION Spec
CONSTANTS
    ann = ann
    bob = bob
    o1 = o1
    o2 = o2
    User = {ann, bob}
    Order = {o1, o2}
    Owner <- MCOwner
    Handler = {h1, h2}
    None = None
    FirstRows <- AnyRows
    DbFails = TRUE
    MaxNow = 3
    MaxCalls = 3
INVARIANTS TypeOK MonthsBounded MonthsKept PaidOrderKnown
