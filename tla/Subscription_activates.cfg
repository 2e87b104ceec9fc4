\* One user, one order and one webhook call at a time, and nothing fails.
SPECIFICATION Spec
CONSTANTS
    ann = ann
    bob = bob
    o1 = o1
    o2 = o2
    User = {ann}
    Order = {o1}
    Owner <- MCOwner
    Handler = {h1}
    None = None
    FirstRows <- AnyRows
    DbFails = FALSE
    MaxNow = 3
    MaxCalls = 2
PROPERTY PaymentActivates
