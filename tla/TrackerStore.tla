---------------------------- MODULE TrackerStore ----------------------------
(***************************************************************************)
(* The tables trackers and methods of the PostgreSQL database, and the     *)
(* statements internal/db/repository/tracker.go runs on them.  The server  *)
(* (HTTP handlers) and the observer are two processes that share nothing   *)
(* but these tables, so each operator below is one committed transaction:  *)
(* under READ COMMITTED the row lock taken by the UPDATE or DELETE on      *)
(* trackers orders the transactions that write the same tracker.           *)
(*                                                                         *)
(* A tracker id is a SERIAL: never used twice, hence "new" once and        *)
(* "deleted" for ever.  The columns user_id, exchange, currency, side,     *)
(* username and is_aggregated are written back as they were read by every  *)
(* UPDATE, so they are constants of a tracker (MarketOf, Username and      *)
(* Aggregated in the modules that need them), as is the set of payment     *)
(* methods it was created with (PaymentOf).                                *)
(***************************************************************************)

CONSTANTS
    Tracker,      \* tracker ids
    Method,       \* payment method ids
    Price,        \* prices an advertisement may have
    PaymentOf     \* [Tracker -> SUBSET Method]: methods given at creation

ASSUME PriceAssumption == Price # {}
ASSUME PaymentAssumption == PaymentOf \in [Tracker -> SUBSET Method]

VARIABLES
    status,       \* whether the row of a tracker exists
    row,          \* the columns of trackers that change
    methods,      \* the payment_method column of the rows of a tracker
    outbidded     \* those of these rows whose outbidded column is true

store == <<status, row, methods, outbidded>>

Row == [notify: BOOLEAN, price: Price, waiting: BOOLEAN]

(* A models.Tracker in the memory of a process, with its payment methods:  *)
(* flagged are those whose Outbided field is true.                         *)
Copy == [id: Tracker, notify: BOOLEAN, price: Price, waiting: BOOLEAN,
         pms: SUBSET Method, flagged: SUBSET Method]

(* The row of an id that does not exist; any value would do.               *)
NoRow == [notify |-> FALSE, price |-> CHOOSE p \in Price : TRUE, waiting |-> FALSE]

StoreTypeOK ==
    /\ status \in [Tracker -> {"new", "live", "deleted"}]
    /\ row \in [Tracker -> Row]
    /\ methods \in [Tracker -> SUBSET Method]
    /\ outbidded \in [Tracker -> SUBSET Method]

StoreInit ==
    /\ status = [t \in Tracker |-> "new"]
    /\ row = [t \in Tracker |-> NoRow]
    /\ methods = [t \in Tracker |-> {}]
    /\ outbidded = [t \in Tracker |-> {}]

-----------------------------------------------------------------------------

Live(t) == status[t] = "live"

(* Variants named ...Mutant are plausible errors in the definition after   *)
(* them; no specification uses them, and each breaks a property.           *)

(* The price is not scanned and has the zero value of Go.                  *)
SelectTrackerMutant(t) ==
    [id |-> t, notify |-> row[t].notify, price |-> 0,
     waiting |-> row[t].waiting, pms |-> {}, flagged |-> {}]

(* GetTrackerById, first query: the row without its payment methods.       *)
SelectTracker(t) ==
    [id |-> t, notify |-> row[t].notify, price |-> row[t].price,
     waiting |-> row[t].waiting, pms |-> {}, flagged |-> {}]

(* The second query is forgotten.                                          *)
WithMethodsMutant(c) == c

(* GetTrackerById, second query: the methods the rows of which exist now.  *)
WithMethods(c) == [c EXCEPT !.pms = methods[c.id], !.flagged = outbidded[c.id]]

(* A tracker is created as if its user had been told already.              *)
InsertTrackerMutant(t, notify, price) ==
    /\ status[t] = "new"
    /\ status' = [status EXCEPT ![t] = "live"]
    /\ row' = [row EXCEPT ![t] = [notify |-> notify, price |-> price, waiting |-> TRUE]]
    /\ methods' = [methods EXCEPT ![t] = PaymentOf[t]]
    /\ outbidded' = [outbidded EXCEPT ![t] = {}]

(* Save with ID = 0: INSERT of the tracker (waiting_update is left to its  *)
(* default) and of its methods (outbidded likewise), in one transaction.   *)
InsertTracker(t, notify, price) ==
    /\ status[t] = "new"
    /\ status' = [status EXCEPT ![t] = "live"]
    /\ row' = [row EXCEPT ![t] = [notify |-> notify, price |-> price, waiting |-> FALSE]]
    /\ methods' = [methods EXCEPT ![t] = PaymentOf[t]]
    /\ outbidded' = [outbidded EXCEPT ![t] = {}]

(* The methods are inserted with the outbidded values of the copy.         *)
UpdateTrackerMutant(c) ==
    \/ /\ Live(c.id)
       /\ row' = [row EXCEPT ![c.id] =
                    [notify |-> c.notify, price |-> c.price, waiting |-> c.waiting]]
       /\ methods' = [methods EXCEPT ![c.id] = c.pms]
       /\ outbidded' = [outbidded EXCEPT ![c.id] = c.flagged]
       /\ UNCHANGED status
    \/ /\ ~Live(c.id)
       /\ c.pms = {}
       /\ UNCHANGED store

(* Save with ID # 0: every column of the row is overwritten with the copy, *)
(* the rows of methods are deleted and inserted again, which gives         *)
(* outbidded its default.  When the tracker is gone the UPDATE and DELETE  *)
(* touch no row, and the commit succeeds if there is nothing to insert.    *)
UpdateTracker(c) ==
    \/ /\ Live(c.id)
       /\ row' = [row EXCEPT ![c.id] =
                    [notify |-> c.notify, price |-> c.price, waiting |-> c.waiting]]
       /\ methods' = [methods EXCEPT ![c.id] = c.pms]
       /\ outbidded' = [outbidded EXCEPT ![c.id] = {}]
       /\ UNCHANGED status
    \/ /\ ~Live(c.id)
       /\ c.pms = {}
       /\ UNCHANGED store

(* The INSERT into methods breaks the foreign key: Save rolls back.        *)
ForeignKeyFails(c) == ~Live(c.id) /\ c.pms # {}

(* The WHERE clause does not name the payment method.                      *)
UpdateMethodOutbiddedMutant(t, pm, outbid) ==
    /\ outbidded' = [outbidded EXCEPT ![t] = IF outbid THEN methods[t] ELSE {}]
    /\ UNCHANGED <<status, row, methods>>

(* UpdatePaymentMethodOutbided: no row matches once the method is gone.    *)
UpdateMethodOutbidded(t, pm, outbid) ==
    /\ outbidded' = [outbidded EXCEPT ![t] =
                       IF outbid THEN @ \cup ({pm} \cap methods[t]) ELSE @ \ {pm}]
    /\ UNCHANGED <<status, row, methods>>

(* DeleteTracker: the rows of methods go with it (ON DELETE CASCADE).      *)
DeleteRow(t) ==
    /\ Live(t)
    /\ status' = [status EXCEPT ![t] = "deleted"]
    /\ row' = [row EXCEPT ![t] = NoRow]
    /\ methods' = [methods EXCEPT ![t] = {}]
    /\ outbidded' = [outbidded EXCEPT ![t] = {}]
=============================================================================
