------------------------------ MODULE Observer ------------------------------
(***************************************************************************)
(* The ads observer (internal/tasks/observe.go), a process of its own that *)
(* checks every tracker once a round, together with the HTTP requests of   *)
(* the server (internal/handlers/tracker.go) that write the same tables.   *)
(*                                                                         *)
(* A round starts one goroutine per exchange, which lists the trackers of  *)
(* its exchange and starts one goroutine, here a worker, per market        *)
(* (exchange, currency and side).  A worker fetches the order book and     *)
(* checks its trackers one after another: it loads a copy of a tracker,    *)
(* decides from the first advertisement that takes one of its payment      *)
(* methods, alerts the user, and writes the verdict back, each of these    *)
(* being a statement of its own on the database.  Any step of a request    *)
(* may fall between two of them.                                           *)
(*                                                                         *)
(* Notify is kept to what the tables can tell: it is called for a slot,    *)
(* and does nothing when the Notify field of the copy is off.  What comes  *)
(* of the other calls, which may end without an alert, is the subject of   *)
(* NotificationQuota and AlertPipeline.                                    *)
(***************************************************************************)
EXTENDS TrackerStore, Naturals, Sequences, FiniteSets

CONSTANTS
    Market,       \* pairs exchange, currency+side with an order book
    Exchange,
    ExchangeOf,   \* [Market -> Exchange]
    MarketOf,     \* [Tracker -> Market]
    Aggregated,   \* trackers with is_aggregated
    Name,         \* names of advertisers on an exchange
    Username,     \* [Tracker -> Name]: the name on the user's own ads
    Books,        \* answers of an exchange: sequences of ads, best first
    Request,      \* PATCH requests that can be under way at the same time
    DbFails,      \* whether a database statement may fail
    Crashes,      \* whether the observer process may stop
    AlertCap,     \* bound on the calls counted; two already mean a repetition
    MaxRequests,  \* bound on the trackers created and on those patched, together
    Whole,        \* stands for all methods of an aggregated tracker
    NoCopy        \* no tracker loaded

ASSUME MarketAssumption ==
    /\ ExchangeOf \in [Market -> Exchange]
    /\ MarketOf \in [Tracker -> Market]
    /\ Aggregated \subseteq Tracker
    /\ Username \in [Tracker -> Name]
    /\ Whole \notin Method
    /\ NoCopy \notin Copy
ASSUME FlagAssumption == {DbFails, Crashes} \subseteq BOOLEAN
ASSUME CapAssumption == AlertCap \in Nat /\ AlertCap >= 2 /\ MaxRequests \in Nat
ASSUME BooksAssumption ==
    Books \subseteq Seq([name: Name, price: Price, pays: SUBSET Method])

VARIABLES
    round,        \* of the observer: between two rounds, in one, or not running
    unlisted,     \* exchanges whose goroutine has not listed its trackers yet
    pc, todo, ads, copy, left, cur,  \* of the worker of each market
    rpc, rcopy,   \* of each PATCH request
    isOutbid,     \* history: slots of a tracker last found outbid
    asks,         \* history: calls of Notify with notifications on for a slot,
                  \* since it was last written back as on top
    setting,      \* history: value of notify last confirmed to the user
    patched,      \* history: trackers that a PATCH has loaded
    disturbed     \* history: live trackers a verdict on which was not written back

worker == <<pc, todo, ads, copy, left, cur>>
request == <<rpc, rcopy>>
history == <<isOutbid, asks, setting, patched, disturbed>>
vars == <<store, round, unlisted, worker, request, history>>

Slot == Method \cup {Whole}

(* The slots of a tracker that are alerted about one by one.               *)
Slots(t) == IF t \in Aggregated THEN {Whole} ELSE PaymentOf[t]

(* The slots of a tracker that its tables say have been alerted about.     *)
Flags(t) == IF t \in Aggregated THEN IF row[t].waiting THEN {Whole} ELSE {}
                                ELSE outbidded[t]

TypeOK ==
    /\ StoreTypeOK
    /\ round \in {"waiting", "running", "down"}
    /\ unlisted \subseteq Exchange
    /\ pc \in [Market -> {"idle", "fetch", "next", "methods", "check", "set", "clear", "save"}]
    /\ todo \in [Market -> SUBSET Tracker]
    /\ ads \in [Market -> Books \cup {<<>>}]
    /\ copy \in [Market -> Copy \cup {NoCopy}]
    /\ left \in [Market -> SUBSET Method]
    /\ cur \in [Market -> Slot]
    /\ rpc \in [Request -> {"idle", "methods", "save"}]
    /\ rcopy \in [Request -> Copy \cup {NoCopy}]
    /\ isOutbid \in [Tracker -> SUBSET Slot]
    /\ asks \in [Tracker -> [Slot -> 0..AlertCap]]
    /\ setting \in [Tracker -> BOOLEAN]
    /\ patched \subseteq Tracker
    /\ disturbed \subseteq Tracker

Init ==
    /\ StoreInit
    /\ round = "waiting"
    /\ unlisted = {}
    /\ pc = [m \in Market |-> "idle"]
    /\ todo = [m \in Market |-> {}]
    /\ ads = [m \in Market |-> <<>>]
    /\ copy = [m \in Market |-> NoCopy]
    /\ left = [m \in Market |-> {}]
    /\ cur = [m \in Market |-> Whole]
    /\ rpc = [r \in Request |-> "idle"]
    /\ rcopy = [r \in Request |-> NoCopy]
    /\ isOutbid = [t \in Tracker |-> {}]
    /\ asks = [t \in Tracker |-> [s \in Slot |-> 0]]
    /\ setting = [t \in Tracker |-> FALSE]
    /\ patched = {}
    /\ disturbed = {}

-----------------------------------------------------------------------------
(* Rounds: Start, CheckAds and CheckAdsOnExchange.                         *)

(* The ticker fires, or Start makes its first call of CheckAds.            *)
Tick ==
    /\ round = "waiting"
    /\ round' = "running"
    /\ unlisted' = Exchange
    /\ UNCHANGED <<store, worker, request, history>>

(* The goroutine of an exchange gets its trackers by market and starts a   *)
(* worker for every market that has one.                                   *)
ListTrackers(e) ==
    /\ e \in unlisted
    /\ unlisted' = unlisted \ {e}
    /\ todo' = [m \in Market |-> IF ExchangeOf[m] = e
                                   THEN {t \in Tracker : Live(t) /\ MarketOf[t] = m}
                                   ELSE todo[m]]
    /\ pc' = [m \in Market |-> IF ExchangeOf[m] = e /\ todo'[m] # {} THEN "fetch" ELSE pc[m]]
    /\ UNCHANGED <<store, round, ads, copy, left, cur, request, history>>

(* GetIdsByCurrency fails: this exchange is skipped until the next round.  *)
ListFails(e) ==
    /\ DbFails
    /\ e \in unlisted
    /\ unlisted' = unlisted \ {e}
    /\ UNCHANGED <<store, round, worker, request, history>>

FetchAds(m) ==
    /\ pc[m] = "fetch"
    /\ \E b \in Books : ads' = [ads EXCEPT ![m] = b]
    /\ pc' = [pc EXCEPT ![m] = "next"]
    /\ UNCHANGED <<store, round, unlisted, todo, copy, left, cur, request, history>>

(* GetAds fails after its retries: the market is skipped in this round.    *)
(* (That of Bybit panics instead, which is a Crash: see ExchangeClient.)   *)
FetchFails(m) ==
    /\ pc[m] = "fetch"
    /\ pc' = [pc EXCEPT ![m] = "idle"]
    /\ todo' = [todo EXCEPT ![m] = {}]
    /\ UNCHANGED <<store, round, unlisted, ads, copy, left, cur, request, history>>

WorkerDone(m) ==
    /\ pc[m] = "next"
    /\ todo[m] = {}
    /\ pc' = [pc EXCEPT ![m] = "idle"]
    /\ ads' = [ads EXCEPT ![m] = <<>>]
    /\ UNCHANGED <<store, round, unlisted, todo, copy, left, cur, request, history>>

(* Both wait groups are done: Start waits for the ticker again.            *)
EndRound ==
    /\ round = "running"
    /\ unlisted = {}
    /\ \A m \in Market : pc[m] = "idle"
    /\ round' = "waiting"
    /\ UNCHANGED <<store, unlisted, worker, request, history>>

-----------------------------------------------------------------------------
(* CheckTracker, for one tracker of the list after another.                *)

(* The worker turns to the next tracker of its list.                       *)
Leave(m) ==
    /\ pc' = [pc EXCEPT ![m] = "next"]
    /\ copy' = [copy EXCEPT ![m] = NoCopy]
    /\ left' = [left EXCEPT ![m] = {}]
    /\ cur' = [cur EXCEPT ![m] = Whole]

LoadTracker(m, t) ==
    /\ pc[m] = "next"
    /\ t \in todo[m]
    /\ Live(t)
    /\ todo' = [todo EXCEPT ![m] = @ \ {t}]
    /\ copy' = [copy EXCEPT ![m] = SelectTracker(t)]
    /\ pc' = [pc EXCEPT ![m] = "methods"]
    /\ UNCHANGED <<store, round, unlisted, ads, left, cur, request, history>>

(* A tracker that cannot be loaded is tried again and again.               *)
SkipTrackerMutant(m, t) ==
    /\ pc[m] = "next"
    /\ t \in todo[m]
    /\ ~Live(t) \/ DbFails
    /\ UNCHANGED vars

(* The tracker was deleted since it was listed, or the query fails.        *)
SkipTracker(m, t) ==
    /\ pc[m] = "next"
    /\ t \in todo[m]
    /\ ~Live(t) \/ DbFails
    /\ todo' = [todo EXCEPT ![m] = @ \ {t}]
    /\ UNCHANGED <<store, round, unlisted, pc, ads, copy, left, cur, request, history>>

LoadMethods(m) ==
    /\ pc[m] = "methods"
    /\ copy' = [copy EXCEPT ![m] = WithMethods(@)]
    /\ left' = [left EXCEPT ![m] = methods[copy[m].id]]
    /\ pc' = [pc EXCEPT ![m] = "check"]
    /\ UNCHANGED <<store, round, unlisted, todo, ads, cur, request, history>>

LoadMethodsFails(m) ==
    /\ DbFails
    /\ pc[m] = "methods"
    /\ Leave(m)
    /\ UNCHANGED <<store, round, unlisted, todo, ads, request, history>>

(* The first ad of the book with one of the given methods, if there is one *)
(* (Contains and ComparePaymentMethods of internal/utils).                 *)
Takes(ad, ms) == ad.pays \cap ms # {}
HasAd(b, ms) == \E i \in DOMAIN b : Takes(b[i], ms)
FirstAd(b, ms) == b[CHOOSE i \in DOMAIN b : /\ Takes(b[i], ms)
                                           /\ \A j \in 1..(i-1) : ~Takes(b[j], ms)]

(* The verdict is not remembered, or not taken back.                       *)
OutbiddenMutant(c) == c
OnTopMutant(c, ad) == [c EXCEPT !.price = ad.price]

(* What an aggregated verdict does to the copy before it is saved.         *)
Outbidden(c) == [c EXCEPT !.waiting = TRUE]
OnTop(c, ad) == [c EXCEPT !.waiting = FALSE, !.price = ad.price]

(* An ad of somebody else, at another price than the one last seen on top. *)
Outbids(ad, c) == ad.name # Username[c.id] /\ ad.price # c.price

(* Notify for slot s: it returns at once when the copy says so, and looks  *)
(* up the user, the quota and the chat and publishes otherwise.  A failed  *)
(* statement of its own (observe.go:180-184, 207-211), a used up quota     *)
(* (223-226) or a failed publication (228-232) ends the call without an    *)
(* alert and without an error: the caller writes its flag all the same.    *)
Notify(c, s) ==
    asks' = IF c.notify /\ asks[c.id][s] < AlertCap
              THEN [asks EXCEPT ![c.id][s] = @ + 1] ELSE asks

(* The verdict of the branch for is_aggregated; it is saved by the next    *)
(* step, except when no ad takes any of the methods.                       *)
CheckAggregated(m) ==
    LET c == copy[m]
        ad == FirstAd(ads[m], c.pms)
    IN
    /\ pc[m] = "check"
    /\ c.id \in Aggregated
    /\ \/ /\ ~HasAd(ads[m], c.pms)
          /\ Leave(m)
          /\ UNCHANGED history
       \/ /\ HasAd(ads[m], c.pms)
          /\ Outbids(ad, c)
          /\ IF c.waiting THEN UNCHANGED asks ELSE Notify(c, Whole)
          /\ copy' = [copy EXCEPT ![m] = Outbidden(@)]
          /\ isOutbid' = [isOutbid EXCEPT ![c.id] = {Whole}]
          /\ pc' = [pc EXCEPT ![m] = "save"]
          /\ UNCHANGED <<left, cur, setting, patched, disturbed>>
       \/ /\ HasAd(ads[m], c.pms)
          /\ ~Outbids(ad, c)
          /\ copy' = [copy EXCEPT ![m] = OnTop(@, ad)]
          /\ isOutbid' = [isOutbid EXCEPT ![c.id] = {}]
          /\ pc' = [pc EXCEPT ![m] = "save"]
          /\ UNCHANGED <<left, cur, asks, setting, patched, disturbed>>
    /\ UNCHANGED <<store, round, unlisted, todo, ads, request>>

(* The verdict on one payment method of a tracker that is not aggregated.  *)
(* SELECT without ORDER BY: the methods come in any order.                 *)
CheckMethod(m, pm) ==
    LET c == copy[m]
        ad == FirstAd(ads[m], {pm})
    IN
    /\ pc[m] = "check"
    /\ c.id \notin Aggregated
    /\ pm \in left[m]
    /\ left' = [left EXCEPT ![m] = @ \ {pm}]
    /\ \/ /\ ~HasAd(ads[m], {pm})
          /\ UNCHANGED <<pc, cur, isOutbid, asks>>
       \/ /\ HasAd(ads[m], {pm})
          /\ Outbids(ad, c)
          /\ IF pm \in c.flagged THEN UNCHANGED asks ELSE Notify(c, pm)
          /\ isOutbid' = [isOutbid EXCEPT ![c.id] = @ \cup {pm}]
          /\ cur' = [cur EXCEPT ![m] = pm]
          /\ pc' = [pc EXCEPT ![m] = "set"]
       \/ /\ HasAd(ads[m], {pm})
          /\ ~Outbids(ad, c)
          /\ isOutbid' = [isOutbid EXCEPT ![c.id] = @ \ {pm}]
          /\ cur' = [cur EXCEPT ![m] = pm]
          /\ pc' = [pc EXCEPT ![m] = "clear"]
          /\ UNCHANGED asks
    /\ UNCHANGED <<store, round, unlisted, todo, ads, copy, request>>
    /\ UNCHANGED <<setting, patched, disturbed>>

(* The verdicts on these trackers are lost.                                *)
Disturb(ts) == disturbed' = disturbed \cup {t \in ts : Live(t)}

(* UpdateMethodOutbiddded(id, pm, true): an error is logged and the worker *)
(* goes on.                                                                *)
SetOutbid(m) ==
    /\ pc[m] = "set"
    /\ \/ UpdateMethodOutbidded(copy[m].id, cur[m], TRUE) /\ UNCHANGED disturbed
       \/ DbFails /\ Disturb({copy[m].id}) /\ UNCHANGED store
    /\ cur' = [cur EXCEPT ![m] = Whole]
    /\ pc' = [pc EXCEPT ![m] = "check"]
    /\ UNCHANGED <<round, unlisted, todo, ads, copy, left, request>>
    /\ UNCHANGED <<isOutbid, asks, setting, patched>>

(* UpdateMethodOutbiddded(id, pm, false), after which the copy gets the    *)
(* price of the first ad, for the methods still to check too.              *)
ClearOutbid(m) ==
    /\ pc[m] = "clear"
    /\ \/ /\ UpdateMethodOutbidded(copy[m].id, cur[m], FALSE)
          /\ asks' = [asks EXCEPT ![copy[m].id][cur[m]] = 0]
          /\ UNCHANGED disturbed
       \/ DbFails /\ Disturb({copy[m].id}) /\ UNCHANGED <<store, asks>>
    /\ copy' = [copy EXCEPT ![m].price = FirstAd(ads[m], {cur[m]}).price]
    /\ pc' = [pc EXCEPT ![m] = "save"]
    /\ UNCHANGED <<round, unlisted, todo, ads, left, cur, request>>
    /\ UNCHANGED <<isOutbid, setting, patched>>

(* CreateTracker(tracker) of the worker: the copy overwrites the row.      *)
SaveTracker(m) ==
    LET c == copy[m] IN
    /\ pc[m] = "save"
    /\ \/ /\ UpdateTracker(c)
          /\ asks' = IF c.id \in Aggregated /\ isOutbid[c.id] = {}
                       THEN [asks EXCEPT ![c.id][Whole] = 0] ELSE asks
          /\ UNCHANGED disturbed
       \/ ForeignKeyFails(c) /\ UNCHANGED <<store, asks, disturbed>>
       \/ DbFails /\ Disturb({c.id}) /\ UNCHANGED <<store, asks>>
    /\ IF c.id \in Aggregated
         THEN Leave(m)
         ELSE /\ cur' = [cur EXCEPT ![m] = Whole]
              /\ pc' = [pc EXCEPT ![m] = "check"]
              /\ UNCHANGED <<copy, left>>
    /\ UNCHANGED <<round, unlisted, todo, ads, request>>
    /\ UNCHANGED <<isOutbid, setting, patched>>

CheckDone(m) ==
    /\ pc[m] = "check"
    /\ copy[m].id \notin Aggregated
    /\ left[m] = {}
    /\ Leave(m)
    /\ UNCHANGED <<store, round, unlisted, todo, ads, request, history>>

-----------------------------------------------------------------------------
(* The process: a panic in a goroutine or a kill loses what is in memory.  *)

(* The worker holds tracker t and is at label l with its verdict.          *)
At(t, l) ==
    LET m == MarketOf[t] IN pc[m] = l /\ copy[m] # NoCopy /\ copy[m].id = t

Crash ==
    /\ Crashes
    /\ Disturb({t \in Tracker : \E l \in {"set", "clear", "save"} : At(t, l)})
    /\ round # "down"
    /\ round' = "down"
    /\ unlisted' = {}
    /\ pc' = [m \in Market |-> "idle"]
    /\ todo' = [m \in Market |-> {}]
    /\ ads' = [m \in Market |-> <<>>]
    /\ copy' = [m \in Market |-> NoCopy]
    /\ left' = [m \in Market |-> {}]
    /\ cur' = [m \in Market |-> Whole]
    /\ UNCHANGED <<store, request, isOutbid, asks, setting, patched>>

Restart ==
    /\ round = "down"
    /\ round' = "waiting"
    /\ UNCHANGED <<store, unlisted, worker, request, history>>

-----------------------------------------------------------------------------
(* Requests of users.                                                      *)

(* Bound: trackers created and trackers patched.                           *)
Budget ==
    Cardinality({t \in Tracker : status[t] # "new"}) + Cardinality(patched) < MaxRequests

(* One iteration of the loop of the CreateTracker handler: one ad of the   *)
(* user, one committed tracker.                                            *)
CreateTracker(t) ==
    /\ Budget
    /\ \E notify \in BOOLEAN, price \in Price :
         /\ InsertTracker(t, notify, price)
         /\ setting' = [setting EXCEPT ![t] = notify]
    /\ UNCHANGED <<round, unlisted, worker, request, isOutbid, asks, patched, disturbed>>

DeleteTracker(t) ==
    /\ DeleteRow(t)
    /\ isOutbid' = [isOutbid EXCEPT ![t] = {}]
    /\ asks' = [asks EXCEPT ![t] = [s \in Slot |-> 0]]
    /\ setting' = [setting EXCEPT ![t] = FALSE]
    /\ disturbed' = disturbed \ {t}
    /\ UNCHANGED <<round, unlisted, worker, request, patched>>

(* PATCH (SetNotifyTracker) loads the tracker with two queries, ...        *)
PatchLoad(r, t) ==
    /\ rpc[r] = "idle"
    /\ Live(t)
    /\ t \in patched \/ Budget
    /\ rcopy' = [rcopy EXCEPT ![r] = SelectTracker(t)]
    /\ rpc' = [rpc EXCEPT ![r] = "methods"]
    /\ patched' = patched \cup {t}
    /\ UNCHANGED <<store, round, unlisted, worker, isOutbid, asks, setting, disturbed>>

(* ... sets the field (a body without it keeps the loaded value, which is  *)
(* one of the two), ...                                                    *)
PatchMethods(r) ==
    /\ rpc[r] = "methods"
    /\ \E notify \in BOOLEAN :
         rcopy' = [rcopy EXCEPT ![r] = [WithMethods(@) EXCEPT !.notify = notify]]
    /\ rpc' = [rpc EXCEPT ![r] = "save"]
    /\ UNCHANGED <<store, round, unlisted, worker, history>>

PatchDone(r) ==
    /\ rcopy' = [rcopy EXCEPT ![r] = NoCopy]
    /\ rpc' = [rpc EXCEPT ![r] = "idle"]

(* ... and saves the whole row, confirming "Tracker updated".              *)
PatchSave(r) ==
    LET c == rcopy[r] IN
    /\ rpc[r] = "save"
    /\ UpdateTracker(c)
    /\ setting' = IF Live(c.id) THEN [setting EXCEPT ![c.id] = c.notify] ELSE setting
    /\ PatchDone(r)
    /\ UNCHANGED <<round, unlisted, worker, isOutbid, asks, patched, disturbed>>

(* A query fails, or the tracker is gone: the request gets an error.       *)
PatchFails(r) ==
    /\ \/ rpc[r] # "idle" /\ DbFails
       \/ rpc[r] = "save" /\ ForeignKeyFails(rcopy[r])
    /\ PatchDone(r)
    /\ UNCHANGED <<store, round, unlisted, worker, history>>

-----------------------------------------------------------------------------

CheckStep(m) ==
    \/ \E t \in Tracker : LoadTracker(m, t) \/ SkipTracker(m, t)
    \/ LoadMethods(m) \/ LoadMethodsFails(m)
    \/ CheckAggregated(m)
    \/ \E pm \in Method : CheckMethod(m, pm)
    \/ SetOutbid(m) \/ ClearOutbid(m) \/ SaveTracker(m) \/ CheckDone(m)

WorkerStep(m) == FetchAds(m) \/ FetchFails(m) \/ CheckStep(m) \/ WorkerDone(m)

ListStep(e) == ListTrackers(e) \/ ListFails(e)

ObserverStep ==
    \/ Tick \/ EndRound
    \/ \E e \in Exchange : ListStep(e)
    \/ \E m \in Market : WorkerStep(m)

UserStep ==
    \/ \E t \in Tracker : CreateTracker(t) \/ DeleteTracker(t)
    \/ \E r \in Request :
         \/ \E t \in Tracker : PatchLoad(r, t)
         \/ PatchMethods(r) \/ PatchSave(r) \/ PatchFails(r)

Next == ObserverStep \/ UserStep \/ Crash \/ Restart

Spec == Init /\ [][Next]_vars

(* The scheduler of Go runs every goroutine, queries and HTTP requests     *)
(* return (the exchange clients stop after their retries) and the ticker   *)
(* fires.  Nothing is assumed of users, nor of whoever starts the observer *)
(* again (docker-compose.yaml has no restart policy).                      *)
Fairness ==
    /\ WF_vars(Tick)
    /\ WF_vars(EndRound)
    /\ \A e \in Exchange : WF_vars(ListStep(e))
    /\ \A m \in Market : WF_vars(WorkerStep(m))

FairSpec == Spec /\ Fairness
-----------------------------------------------------------------------------
(* What the observer must keep to.                                         *)

(* A live tracker has all the payment methods it was created with and no   *)
(* other tracker has any, whatever stale copies are saved over it: a Save  *)
(* deletes and inserts the methods again, possibly after a DELETE.         *)
MethodsIntact ==
    \A t \in Tracker :
        /\ methods[t] = IF Live(t) THEN PaymentOf[t] ELSE {}
        /\ outbidded[t] \subseteq methods[t]

(* The outbidded flag of a method, which suppresses the next alert, is set *)
(* only while the last verdict on it was "outbid", or for as long as the   *)
(* worker takes to write the opposite one.  A PATCH saved in between may   *)
(* lose a flag but never brings one back; only a verdict that could not be *)
(* written leaves a wrong one.                                             *)
MethodFlagTruthful ==
    \A t \in Tracker \ (Aggregated \cup disturbed) : \A pm \in outbidded[t] :
        pm \in isOutbid[t] \/ (At(t, "clear") /\ cur[MarketOf[t]] = pm)

(* The same of waiting_update of an aggregated tracker, which is written   *)
(* with the whole row, for trackers that no PATCH ever loads: the row that *)
(* a PATCH saves may be older than a verdict and bring waiting_update back *)
(* (repository/tracker.go:48-52).                                          *)
FlagsTruthful ==
    /\ MethodFlagTruthful
    /\ \A t \in Aggregated \ (patched \cup disturbed) :
         row[t].waiting => \/ Whole \in isOutbid[t]
                           \/ At(t, "save") /\ ~copy[MarketOf[t]].waiting

(* Suppression never eats an alert: of a tracker that was last found       *)
(* outbid, with its notifications on, Notify has been called since it was  *)
(* last written back as on top (after a failed write that may be before it *)
(* was last found on top), whatever fails and wherever the observer stops. *)
(* A PATCH is left out, which may turn the setting on over a set flag.     *)
NoMissedNotify ==
    \A t \in Tracker \ patched :
        Live(t) /\ row[t].notify => \A s \in isOutbid[t] : asks[t][s] >= 1

(* Notify is called at most once for a tracker with one slot until the     *)
(* user's ad is on top again, where every verdict on it was written back.  *)
NoRepeatedNotify ==
    \A t \in Tracker \ (patched \cup disturbed) : \A s \in Slot :
        Slots(t) = {s} => asks[t][s] <= 1

(* Notify comes before the flag is written: a flag in the tables, which    *)
(* suppresses the next call, means that there was one, also when the       *)
(* observer stopped, or a statement failed, between the two.               *)
FlagMeansNotified ==
    \A t \in Tracker \ patched :
        Live(t) /\ row[t].notify => \A s \in Flags(t) : asks[t][s] >= 1

(* A round comes to an end whatever fails in it: no exchange, market or    *)
(* tracker keeps the observer from its ticker, only a stop does.           *)
RoundEnds == []<>(round \in {"waiting", "down"})

(* handlers/tracker.go:385-395 sets notify and answers "Tracker updated".  *)
ConfirmedSettingKept ==
    \A t \in Tracker : Live(t) => row[t].notify = setting[t]
=============================================================================
