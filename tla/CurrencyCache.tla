---------------------------- MODULE CurrencyCache ----------------------------
(***************************************************************************)
(* The currencies of an exchange and their payment methods, which the      *)
(* clients keep in Redis (GetCachedCurrencies and GetCachedPaymentMethods  *)
(* of internal/services/binanceExchangeService.go and                      *)
(* bybitExchangeService.go), under the requests of the server that need    *)
(* them (internal/handlers/tracker.go).                                    *)
(*                                                                         *)
(* There are two keys: the set of currencies, which a miss fills with one  *)
(* SADD per element, and the map from currencies to methods, which is set  *)
(* at once.  Either gets its time to live by a command of its own after    *)
(* that.  Any number of requests find a key missing and fill it.           *)
(*                                                                         *)
(* A map is kept to the currencies it has, and {} stands for a key that    *)
(* does not exist.  Redis itself does not restart here, and a key outlives *)
(* the call that fills it: it lives for half a day or a day.               *)
(***************************************************************************)
EXTENDS Naturals, FiniteSets

CONSTANTS
    Currency,
    Offers,       \* sets of currencies an exchange may offer
    Call,         \* requests that can be under way at the same time
    Client,       \* of "binance" and "bybit"
    NoCurrency,
    MaxChanges    \* bound on the changes of what the exchange offers

ASSUME CurrencyAssumption ==
    /\ Offers \subseteq (SUBSET Currency) \ {{}}
    /\ NoCurrency \notin Currency
ASSUME ClientAssumption == Client \subseteq {"binance", "bybit"}
ASSUME ChangesAssumption == MaxChanges \in Nat

VARIABLES
    client,           \* the client the requests are made on
    offer,            \* currencies the exchange offers
    list, listTTL,    \* key <exchange>:currencies_list, and whether it expires
    map, mapTTL,      \* key <exchange>:currencies, and whether it expires
    pc, request,      \* of each call: where it is, what it was made for
    fetched, todo,    \* currencies it got from the exchange, and has to add yet
    answer,           \* what the last request of a call was answered
    changes, offered, \* history: changes of the offer, all offers so far
    broken            \* history: keys whose fill was broken off before it was set to expire

exchange == <<client, offer, changes, offered>>
keys == <<list, listTTL, map, mapTTL>>
calls == <<pc, request, fetched, todo, answer>>
vars == <<exchange, keys, calls, broken>>

(* GET .../options/currencies, GET .../options/methods, POST /trackers.    *)
Request == [kind: {"currencies"}, currency: {NoCurrency}]
           \cup [kind: {"options", "post"}, currency: Currency]
Nothing == [kind |-> "nothing", currency |-> NoCurrency]

(* GetCachedCurrencies is at "members" to "expire", and for Bybit goes on  *)
(* to "setAlso" and "expireAlso"; GetCachedPaymentMethods is at "get" to   *)
(* "expireMap".                                                            *)
Filling == {"add", "expire"}
Labels == {"idle", "members", "fetch", "setAlso", "expireAlso",
           "get", "fetchMap", "setMap", "expireMap"} \cup Filling

(* What became of the request: it was "served" the currencies, or methods  *)
(* of its currency; "unknown" is the error of a hit without the currency   *)
(* and "empty" the empty answer of a miss without it.                      *)
Answer == {"none", "error", "served", "unsupported", "unknown", "empty"}

TypeOK ==
    /\ client \in Client
    /\ offer \in Offers
    /\ list \in SUBSET Currency
    /\ listTTL \in BOOLEAN
    /\ map \in SUBSET Currency
    /\ mapTTL \in BOOLEAN
    /\ pc \in [Call -> Labels]
    /\ request \in [Call -> Request \cup {Nothing}]
    /\ fetched \in [Call -> SUBSET Currency]
    /\ todo \in [Call -> SUBSET Currency]
    /\ answer \in [Call -> Answer]
    /\ changes \in 0..MaxChanges
    /\ offered \in SUBSET Offers
    /\ broken \in SUBSET {"list", "map"}
    /\ list = {} => ~listTTL
    /\ map = {} => ~mapTTL
    /\ list \subseteq UNION offered           \* nothing that was never offered,
    /\ map \in offered \cup {{}}              \* and the methods of a whole offer

Init ==
    /\ client \in Client
    /\ offer \in Offers
    /\ list = {} /\ listTTL = FALSE
    /\ map = {} /\ mapTTL = FALSE
    /\ pc = [c \in Call |-> "idle"]
    /\ request = [c \in Call |-> Nothing]
    /\ fetched = [c \in Call |-> {}]
    /\ todo = [c \in Call |-> {}]
    /\ answer = [c \in Call |-> "none"]
    /\ changes = 0
    /\ offered = {offer}
    /\ broken = {}

-----------------------------------------------------------------------------

At(c, l) == pc[c] = l
Goto(c, l) == pc' = [pc EXCEPT ![c] = l]

Return(c, a) ==
    /\ Goto(c, "idle")
    /\ answer' = [answer EXCEPT ![c] = a]
    /\ fetched' = [fetched EXCEPT ![c] = {}]
    /\ todo' = [todo EXCEPT ![c] = {}]
    /\ request' = [request EXCEPT ![c] = Nothing]

(* Variants named ...Mutant are plausible errors in the definition after   *)
(* them; no specification uses them, and each breaks a property.           *)

(* External: the exchange adds a currency or takes one away.               *)
ChangeOffer ==
    /\ changes < MaxChanges
    /\ changes' = changes + 1
    /\ offer' \in Offers \ {offer}
    /\ offered' = offered \cup {offer'}
    /\ UNCHANGED <<client, keys, calls, broken>>

(* A request: the options of a form, or a tracker to create, which needs   *)
(* the methods but does not look at the list.                              *)
Begin(c) ==
    /\ At(c, "idle")
    /\ \E r \in Request :
         /\ request' = [request EXCEPT ![c] = r]
         /\ Goto(c, IF r.kind = "post" THEN "get" ELSE "members")
    /\ answer' = [answer EXCEPT ![c] = "none"]
    /\ UNCHANGED <<exchange, keys, fetched, todo, broken>>

-----------------------------------------------------------------------------
(* GetCachedCurrencies.                                                    *)

(* It returns cs: the answer of one handler, while the other refuses a     *)
(* currency that is not in cs and goes on to the methods.                  *)
Currencies(c, cs) ==
    LET r == request[c] IN
    IF r.kind = "currencies" THEN Return(c, "served")
    ELSE IF r.currency \notin cs THEN Return(c, "unsupported")
    ELSE Goto(c, "get") /\ UNCHANGED <<request, fetched, todo, answer>>

(* SMEMBERS: an empty result is a miss.                                    *)
Members(c) ==
    /\ At(c, "members")
    /\ IF list = {} THEN Goto(c, "fetch") /\ UNCHANGED <<request, fetched, todo, answer>>
                    ELSE Currencies(c, list)
    /\ UNCHANGED <<exchange, keys, broken>>

(* FetchCurrencies, or the keys of FetchAllPaymentList.                    *)
FetchList(c) ==
    /\ At(c, "fetch")
    /\ fetched' = [fetched EXCEPT ![c] = offer]
    /\ todo' = [todo EXCEPT ![c] = offer]
    /\ Goto(c, "add")
    /\ UNCHANGED <<exchange, keys, request, answer, broken>>

(* The list is set to expire with its first element.                       *)
AddCurrencyMutant(c) ==
    /\ At(c, "add")
    /\ \E x \in todo[c] :
         /\ list' = list \cup {x}
         /\ todo' = [todo EXCEPT ![c] = {}]
         /\ Goto(c, "expire")
    /\ UNCHANGED <<exchange, listTTL, map, mapTTL, request, fetched, answer, broken>>

(* SADD of one currency after another, to a key that may exist by now.     *)
AddCurrency(c) ==
    /\ At(c, "add")
    /\ \E x \in todo[c] :
         /\ list' = list \cup {x}
         /\ todo' = [todo EXCEPT ![c] = @ \ {x}]
         /\ Goto(c, IF todo'[c] = {} THEN "expire" ELSE "add")
    /\ UNCHANGED <<exchange, listTTL, map, mapTTL, request, fetched, answer, broken>>

(* The list is not set to expire.                                          *)
ExpireListMutant(c) ==
    /\ At(c, "expire")
    /\ IF client = "bybit"
         THEN Goto(c, "setAlso") /\ UNCHANGED <<request, fetched, todo, answer>>
         ELSE Currencies(c, fetched[c])
    /\ UNCHANGED <<exchange, keys, broken>>

(* EXPIRE of the list; Bybit got the methods with the currencies and goes  *)
(* on to cache them.                                                       *)
ExpireList(c) ==
    /\ At(c, "expire")
    /\ listTTL' = TRUE
    /\ broken' = broken \ {"list"}
    /\ IF client = "bybit"
         THEN Goto(c, "setAlso") /\ UNCHANGED <<request, fetched, todo, answer>>
         ELSE Currencies(c, fetched[c])
    /\ UNCHANGED <<exchange, list, map, mapTTL>>

-----------------------------------------------------------------------------
(* GetCachedPaymentMethods.                                                *)

(* JSON.GET $.<currency>.  A command that fails has an empty result like a *)
(* key that does not exist; a key without the currency is an error.        *)
GetMap(c) ==
    /\ At(c, "get")
    /\ \/ /\ map # {}
          /\ Return(c, IF request[c].currency \in map THEN "served" ELSE "unknown")
       \/ /\ Goto(c, "fetchMap")
          /\ UNCHANGED <<request, fetched, todo, answer>>
    /\ UNCHANGED <<exchange, keys, broken>>

(* FetchCurrencies and FetchPaymentMethods, or FetchAllPaymentList.        *)
FetchMap(c) ==
    /\ At(c, "fetchMap")
    /\ fetched' = [fetched EXCEPT ![c] = offer]
    /\ Goto(c, "setMap")
    /\ UNCHANGED <<exchange, keys, request, todo, answer, broken>>

(* Only the methods of the currency asked for are cached.                  *)
SetMapMutant(c) ==
    /\ pc[c] \in {"setMap", "setAlso"}
    /\ map' = fetched[c] \cap {request[c].currency}
    /\ mapTTL' \in {mapTTL, FALSE}
    /\ Goto(c, IF At(c, "setMap") THEN "expireMap" ELSE "expireAlso")
    /\ UNCHANGED <<exchange, list, listTTL, request, fetched, todo, answer, broken>>

(* JSON.SET.  Whether a key that exists keeps its time to live is up to    *)
(* the Redis module; it is set by the next command.                        *)
SetMap(c) ==
    /\ pc[c] \in {"setMap", "setAlso"}
    /\ map' = fetched[c]
    /\ mapTTL' \in {mapTTL, FALSE}
    /\ Goto(c, IF At(c, "setMap") THEN "expireMap" ELSE "expireAlso")
    /\ UNCHANGED <<exchange, list, listTTL, request, fetched, todo, answer, broken>>

(* EXPIRE of the map; an unknown currency is no error after a miss.        *)
ExpireMap(c) ==
    /\ pc[c] \in {"expireMap", "expireAlso"}
    /\ mapTTL' = TRUE
    /\ broken' = broken \ {"map"}
    /\ IF At(c, "expireAlso") THEN Currencies(c, fetched[c])
       ELSE Return(c, IF request[c].currency \in fetched[c] THEN "served" ELSE "empty")
    /\ UNCHANGED <<exchange, list, listTTL, map>>

-----------------------------------------------------------------------------
(* Failures and time.                                                      *)

(* The list has a part of what the call fetched, or all without an EXPIRE. *)
HalfList(c) ==
    \/ At(c, "add") /\ todo[c] # fetched[c]
    \/ At(c, "expire")

BreakOff(C) ==
    broken' = broken \cup {k \in {"list", "map"} :
                  \/ k = "list" /\ ~listTTL /\ \E c \in C : HalfList(c)
                  \/ k = "map" /\ ~mapTTL /\ \E c \in C : pc[c] \in {"expireMap", "expireAlso"}}

(* A command or a request of the exchange fails: the error is returned and *)
(* nothing of the fill is taken back.  (A failed JSON.GET is GetMap.)      *)
Fail(c) ==
    /\ pc[c] \notin {"idle", "get"}
    /\ Return(c, "error")
    /\ BreakOff({c})
    /\ UNCHANGED <<exchange, keys>>

(* The server stops with all its requests.                                 *)
StopServer ==
    /\ BreakOff(Call)
    /\ pc' = [c \in Call |-> "idle"]
    /\ answer' = [c \in Call |-> IF At(c, "idle") THEN answer[c] ELSE "error"]
    /\ fetched' = [c \in Call |-> {}]
    /\ todo' = [c \in Call |-> {}]
    /\ request' = [c \in Call |-> Nothing]
    /\ UNCHANGED <<exchange, keys>>

(* The time to live of a key is over; no call takes half a day.            *)
ListExpires ==
    /\ listTTL
    /\ \A c \in Call : pc[c] \notin Filling
    /\ list' = {}
    /\ listTTL' = FALSE
    /\ UNCHANGED <<exchange, map, mapTTL, calls, broken>>

MapExpires ==
    /\ mapTTL
    /\ \A c \in Call : pc[c] \notin {"expireMap", "expireAlso"}
    /\ map' = {}
    /\ mapTTL' = FALSE
    /\ UNCHANGED <<exchange, list, listTTL, calls, broken>>

-----------------------------------------------------------------------------

Step(c) ==
    \/ Members(c) \/ FetchList(c) \/ AddCurrency(c) \/ ExpireList(c)
    \/ GetMap(c) \/ FetchMap(c) \/ SetMap(c) \/ ExpireMap(c)
    \/ Fail(c)

Next ==
    \/ ChangeOffer \/ ListExpires \/ MapExpires \/ StopServer
    \/ \E c \in Call : Begin(c) \/ Step(c)

Spec == Init /\ [][Next]_vars

(* Commands and requests return, and Redis removes keys that have expired. *)
Fairness ==
    /\ \A c \in Call : WF_vars(Step(c))
    /\ WF_vars(ListExpires) /\ WF_vars(MapExpires)

FairSpec == Spec /\ Fairness

-----------------------------------------------------------------------------

(* A key is set to expire, and the list with all the currencies of some    *)
(* offer, unless a call is at work on it or was broken off: several fills  *)
(* at the same time, each with an offer of its own, do not undo this, nor  *)
(* does one that is broken off after another has finished.                 *)
KeysSettled ==
    /\ listTTL => \E o \in offered : o \subseteq list
    /\ list # {} /\ ~listTTL => "list" \in broken \/ \E c \in Call : HalfList(c)
    /\ map # {} /\ ~mapTTL =>
         "map" \in broken \/ \E c \in Call : pc[c] \in {"expireMap", "expireAlso"}

(* A user gets a list without currencies the exchange has had all the      *)
(* time, or is told that one of them is not supported, only while another  *)
(* request fills the list, or when it was left half filled, and for ever.  *)
RefusalExplained ==
    [][\A c \in Call :
         \/ /\ At(c, "members") /\ answer'[c] = "served"
            /\ ~\E o \in offered : o \subseteq list
         \/ /\ answer[c] # "unsupported" /\ answer'[c] = "unsupported"
            /\ \A o \in offered : request[c].currency \in o
         => "list" \in broken \/ \E d \in Call \ {c} : HalfList(d)]_vars

(* A currency that was offered to a form has payment methods, unless the   *)
(* exchange has changed its offer: the list and the map, filled and        *)
(* expiring apart from each other, fit together.                           *)
NoDeadOption ==
    [][\A c \in Call :
         /\ request[c].kind = "options"
         /\ answer[c] = "none" /\ answer'[c] \in {"unknown", "empty"}
         => changes > 0]_vars

(* What the exchange offered some time ago is not served for ever: unless  *)
(* a fill is broken off, the list expires, and a map that does not match   *)
(* the offer expires or is replaced by the next call that misses it.       *)
KeysRefreshed ==
    /\ (list # {}) ~> (list = {} \/ "list" \in broken)
    /\ (map # {}) ~> (map \in {{}, offer} \/ "map" \in broken)
=============================================================================
