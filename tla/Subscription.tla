---------------------------- MODULE Subscription ----------------------------
(***************************************************************************)
(* Paying for a subscription: internal/handlers/paymentgateway.go of the   *)
(* server, the table subscription (one row a user) and the order keys in   *)
(* Redis.  The payment gateway is external: it opens an invoice when asked *)
(* to, and calls the webhook, from the moment the invoice is paid, as      *)
(* often and as many times at once as it likes, until and after it gets an *)
(* answer.  Webhooks with another status than "paid" change nothing.       *)
(*                                                                         *)
(* Time is counted in months: a subscription is active while valid_until   *)
(* is not before now, and 0 is the zero value of time.Time.                *)
(***************************************************************************)
EXTENDS Naturals, FiniteSets

CONSTANTS
    User,
    Order,
    Owner,          \* [Order -> User]: who asks for the order
    Handler,        \* webhook calls the server may be in at the same time
    None,           \* no row, no subscription loaded
    FirstRows,      \* rows of subscription at the start: subset of
                    \*   [User -> Nat \cup {None}]
    DbFails,        \* whether a statement on the database may fail
    MaxNow,         \* bound on the clock
    MaxCalls        \* bound on the webhook calls accepted for a user

ASSUME OwnerAssumption == Owner \in [Order -> User]
ASSUME HandlerAssumption == IsFiniteSet(Handler)
ASSUME NoneAssumption == None \notin Nat
ASSUME RowsAssumption == FirstRows \subseteq [User -> Nat \cup {None}]
ASSUME BoundAssumption == MaxNow \in Nat /\ MaxCalls \in Nat

VARIABLES
    now,            \* the clock
    until,          \* valid_until of the row of a user, None without a row
    known,          \* whether order_id:<order> is in Redis
    expired,        \* whether its two hours are over
    invoice,        \* of each order, at the gateway and in CreateOrder
    pc, order, read,\* of each webhook handler: label, order, row loaded
    first,          \* history: until at the start
    accepted,       \* history: calls for a user that got past the order key
    excused         \* history: of a user with a row at the start, those of
                    \*   them that add no month or may undo another's

handlers == <<pc, order, read>>
history == <<first, accepted, excused>>
vars == <<now, until, known, expired, invoice, handlers, history>>

(* Variants named ...Mutant are plausible errors in the definition after   *)
(* them; no specification uses them, and each breaks a property.           *)

(* The INSERT stores a time before all others.                             *)
ZeroTimeNegativeMutant == 0 - 1

ZeroTime == 0

Active(u) == until[u] # None /\ until[u] >= now

TypeOK ==
    /\ now \in Nat \ {0}
    /\ until \in [User -> Nat \cup {None}]
    /\ known \in [Order -> BOOLEAN]
    /\ expired \in [Order -> BOOLEAN]
    /\ invoice \in [Order -> {"none", "keyed", "open", "failed", "paid"}]
    /\ pc \in [Handler -> {"idle", "lookup", "read", "create", "extend"}]
    /\ order \in [Handler -> Order]
    /\ read \in [Handler -> Nat \cup {None}]
    /\ first \in [User -> Nat \cup {None}]
    /\ accepted \in [User -> Nat]
    /\ excused \in [User -> Nat]

Init ==
    /\ now = 1
    /\ until \in FirstRows
    /\ known = [o \in Order |-> FALSE]
    /\ expired = [o \in Order |-> FALSE]
    /\ invoice = [o \in Order |-> "none"]
    /\ pc = [h \in Handler |-> "idle"]
    /\ order \in [Handler -> Order]
    /\ read = [h \in Handler |-> None]
    /\ first = until
    /\ accepted = [u \in User |-> 0]
    /\ excused = [u \in User |-> 0]

-----------------------------------------------------------------------------
(* CreateOrder.                                                            *)

(* The key is to be stored once the invoice is there, and never is.        *)
StoreOrderMutant(o) ==
    /\ invoice[o] = "none"
    /\ invoice' = [invoice EXCEPT ![o] = "keyed"]
    /\ UNCHANGED <<now, until, known, expired, handlers, history>>

(* SET order_id:<order> with a time to live of two hours.                  *)
StoreOrder(o) ==
    /\ invoice[o] = "none"
    /\ known' = [known EXCEPT ![o] = TRUE]
    /\ invoice' = [invoice EXCEPT ![o] = "keyed"]
    /\ UNCHANGED <<now, until, expired, handlers, history>>

(* The POST to the gateway; when it fails, or the server stops before it,  *)
(* the key stays.                                                          *)
OpenInvoice(o) ==
    /\ invoice[o] = "keyed"
    /\ \E answer \in {"open", "failed"} : invoice' = [invoice EXCEPT ![o] = answer]
    /\ UNCHANGED <<now, until, known, expired, handlers, history>>

(* External: the user pays.                                                *)
Pay(o) ==
    /\ invoice[o] = "open"
    /\ invoice' = [invoice EXCEPT ![o] = "paid"]
    /\ UNCHANGED <<now, until, known, expired, handlers, history>>

ExpireOrder(o) ==
    /\ known[o]
    /\ known' = [known EXCEPT ![o] = FALSE]
    /\ expired' = [expired EXCEPT ![o] = TRUE]
    /\ UNCHANGED <<now, until, invoice, handlers, history>>

Month ==
    /\ now < MaxNow
    /\ now' = now + 1
    /\ UNCHANGED <<until, known, expired, invoice, handlers, history>>

-----------------------------------------------------------------------------
(* ConfirmOrder.                                                           *)

Buyer(h) == Owner[order[h]]

(* Accepted calls for user u that are under way.                           *)
Pending(u) == {h \in Handler : Buyer(h) = u /\ pc[h] \in {"read", "create", "extend"}}

(* Those of them that have read the row and not written it.                *)
Extending(u) == {h \in Pending(u) : pc[h] = "extend"}

Goto(h, label) == pc' = [pc EXCEPT ![h] = label]

(* The handler returns: an error, or 200 "Subscription updated".           *)
Return(h) ==
    /\ Goto(h, "idle")
    /\ read' = [read EXCEPT ![h] = None]

Excuse(h) == excused' = [excused EXCEPT ![Buyer(h)] = @ + 1]

(* A call or a repeated call of the webhook, with status "paid".           *)
Receive(h, o) ==
    /\ pc[h] = "idle"
    /\ invoice[o] = "paid"
    /\ order' = [order EXCEPT ![h] = o]
    /\ Goto(h, "lookup")
    /\ UNCHANGED <<now, until, known, expired, invoice, read, history>>

(* GET of the order key, which is never deleted.                           *)
Lookup(h) ==
    /\ pc[h] = "lookup"
    /\ known[order[h]]
    /\ accepted[Buyer(h)] < MaxCalls
    /\ accepted' = [accepted EXCEPT ![Buyer(h)] = @ + 1]
    /\ Goto(h, "read")
    /\ UNCHANGED <<now, until, known, expired, invoice, order, read,
                   first, excused>>

LookupFails(h) ==
    /\ pc[h] = "lookup"
    /\ ~known[order[h]]
    /\ Return(h)
    /\ UNCHANGED <<now, until, known, expired, invoice, order, history>>

(* GetByUserId, and the choice between the three branches.                 *)
Read(h) ==
    LET row == until[Buyer(h)] IN
    /\ pc[h] = "read"
    /\ \/ /\ row = None
          /\ Goto(h, "create")
          /\ UNCHANGED <<read, excused>>
       \/ /\ row # None
          /\ row < now
          /\ Return(h)    \* ValidUntil is set in the loaded struct only
          /\ Excuse(h)
       \/ /\ row # None
          /\ row >= now
          /\ Goto(h, "extend")
          /\ read' = [read EXCEPT ![h] = row]
          /\ IF Extending(Buyer(h)) # {} THEN Excuse(h) ELSE UNCHANGED excused
    /\ UNCHANGED <<now, until, known, expired, invoice, order, first, accepted>>

ReadFails(h) ==
    /\ DbFails
    /\ pc[h] = "read"
    /\ Return(h)
    /\ Excuse(h)
    /\ UNCHANGED <<now, until, known, expired, invoice, order, first, accepted>>

(* Create(&Subscription{User_id: uid}): the INSERT names valid_until, so   *)
(* the zero time is stored and not the default of the column.              *)
Create(h) ==
    /\ pc[h] = "create"
    /\ until[Buyer(h)] = None
    /\ until' = [until EXCEPT ![Buyer(h)] = ZeroTime]
    /\ Return(h)
    /\ UNCHANGED <<now, known, expired, invoice, order, history>>

(* user_id is UNIQUE, and another call was faster.                         *)
CreateFails(h) ==
    /\ pc[h] = "create"
    /\ until[Buyer(h)] # None \/ DbFails
    /\ Return(h)
    /\ UNCHANGED <<now, until, known, expired, invoice, order, history>>

(* The caller and AddMonth both add a month.                               *)
MonthAddedMutant(h) == read[h] + 2

(* The loaded row is saved as it is.                                       *)
MonthLostMutant(h) == read[h]

(* What AddMonth writes over the row, from what was read.                  *)
MonthAdded(h) == read[h] + 1

(* AddMonth; its error is not looked at.                                   *)
Extend(h) ==
    /\ pc[h] = "extend"
    /\ \/ /\ until' = [until EXCEPT ![Buyer(h)] = MonthAdded(h)]
          /\ UNCHANGED excused
       \/ /\ DbFails
          /\ Excuse(h)
          /\ UNCHANGED until
    /\ Return(h)
    /\ UNCHANGED <<now, known, expired, invoice, order, first, accepted>>

(* The server stops: the handlers are gone, and CreateOrder between its    *)
(* two steps too, leaving the key.                                         *)
Crash ==
    /\ excused' = [u \in User |-> excused[u] + Cardinality(Pending(u))]
    /\ pc' = [h \in Handler |-> "idle"]
    /\ read' = [h \in Handler |-> None]
    /\ invoice' = [o \in Order |-> IF invoice[o] = "keyed" THEN "failed" ELSE invoice[o]]
    /\ UNCHANGED <<now, until, known, expired, order, first, accepted>>

-----------------------------------------------------------------------------

ConfirmOrder(h) ==
    \/ \E o \in Order : Receive(h, o)
    \/ Lookup(h) \/ LookupFails(h)
    \/ Read(h) \/ ReadFails(h)
    \/ Create(h) \/ CreateFails(h)
    \/ Extend(h)

CreateOrder(o) == StoreOrder(o) \/ OpenInvoice(o) \/ Pay(o) \/ ExpireOrder(o)

Next ==
    \/ \E h \in Handler : ConfirmOrder(h)
    \/ \E o \in Order : CreateOrder(o)
    \/ Month
    \/ Crash

Spec == Init /\ [][Next]_vars

-----------------------------------------------------------------------------

(* The steps after which ConfirmOrder answers "Subscription updated".       *)
Updated(h) == Create(h) \/ Extend(h) \/ (Read(h) /\ pc'[h] = "idle")

(* A call of the webhook that is answered "Subscription updated" leaves    *)
(* its user with an active subscription, as the comments of ConfirmOrder   *)
(* say: it updates the user's subscription, and sets an expired one to     *)
(* expire in one month.  The code breaks this: the first payment stores    *)
(* the zero time, and that of an expired subscription sets a struct that   *)
(* is never saved.                                                         *)
PaymentActivates == [][\A h \in Handler : Updated(h) => Active(Buyer(h))']_vars

(* No accepted call of the webhook adds more than one month, concurrent    *)
(* calls included.  A repeated call for the same order is a call of its    *)
(* own: the order key is never deleted, so that one paid order may be      *)
(* worth several months.                                                   *)
MonthsBounded ==
    \A u \in User : until[u] # None /\ first[u] # None
                      => until[u] <= first[u] + accepted[u]

(* No accepted call is without its month unless it failed, found the       *)
(* subscription expired, or came while another call of the same user was   *)
(* between its read and its write: AddMonth is a race, and every month it  *)
(* loses is due to a call that overlapped.                                 *)
MonthsKept ==
    \A u \in User : first[u] # None =>
        first[u] + accepted[u] <= until[u] + excused[u] + Cardinality(Pending(u))

(* A paid order is in Redis until its two hours are over: the key is there *)
(* before the gateway hears of the order.                                  *)
PaidOrderKnown == \A o \in Order : invoice[o] = "paid" /\ ~expired[o] => known[o]
=============================================================================
