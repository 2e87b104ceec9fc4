----------------------------- MODULE CacheProofs -----------------------------
(***************************************************************************)
(* Theorems about CurrencyCache, for any number of requests at the same    *)
(* time and any changes of what an exchange offers.                        *)
(***************************************************************************)
EXTENDS CurrencyCache, TLAPS

(* What follows the FETCH of a call until it is done with the keys.        *)
Holding == {"add", "expire", "setAlso", "expireAlso", "setMap", "expireMap"}
Expiring == {"expireMap", "expireAlso"}

(* A call that fills a key holds an offer of the exchange, all of which is *)
(* in the list but what it has to add yet; nothing expires meanwhile.      *)
FillOf(c) ==
    /\ pc[c] \in Holding => fetched[c] \in offered
    /\ pc[c] \in Filling => /\ todo[c] \subseteq fetched[c]
                            /\ fetched[c] \subseteq list \cup todo[c]
    /\ At(c, "expire") => todo[c] = {}
    /\ pc[c] \in Expiring => map # {}

FillInv == offer \in offered /\ \A c \in Call : FillOf(c)

TypeInv == TypeOK /\ FillInv

-----------------------------------------------------------------------------
(* What the helpers do to the variables of a call.                         *)

Others(c) ==
    \A d \in Call \ {c} :
        /\ pc'[d] = pc[d] /\ request'[d] = request[d] /\ answer'[d] = answer[d]
        /\ fetched'[d] = fetched[d] /\ todo'[d] = todo[d]

CallsType ==
    /\ pc \in [Call -> Labels]
    /\ request \in [Call -> Request \cup {Nothing}]
    /\ fetched \in [Call -> SUBSET Currency]
    /\ todo \in [Call -> SUBSET Currency]
    /\ answer \in [Call -> Answer]

KeysType ==
    /\ client \in Client
    /\ offer \in Offers
    /\ list \in SUBSET Currency
    /\ listTTL \in BOOLEAN
    /\ map \in SUBSET Currency
    /\ mapTTL \in BOOLEAN
    /\ changes \in 0..MaxChanges
    /\ offered \in SUBSET Offers
    /\ broken \in SUBSET {"list", "map"}
    /\ list = {} => ~listTTL
    /\ map = {} => ~mapTTL
    /\ list \subseteq UNION offered
    /\ map \in offered \cup {{}}

LEMMA TypeParts ==
    /\ TypeOK <=> KeysType /\ CallsType
    /\ TypeOK' <=> KeysType' /\ CallsType'
BY DEF TypeOK, KeysType, CallsType

LEMMA ReturnCall ==
    ASSUME CallsType, NEW c \in Call, NEW a \in Answer, Return(c, a)
    PROVE  /\ CallsType' /\ Others(c)
           /\ pc'[c] = "idle" /\ answer'[c] = a
BY DEF CallsType, Return, Goto, Others, Labels

LEMMA GotoCall ==
    ASSUME CallsType, NEW c \in Call, NEW l \in Labels, Goto(c, l),
           UNCHANGED <<request, fetched, todo, answer>>
    PROVE  /\ CallsType' /\ Others(c)
           /\ pc'[c] = l
BY DEF CallsType, Goto, Others

LEMMA CurrenciesCall ==
    ASSUME CallsType, NEW c \in Call, NEW cs, Currencies(c, cs)
    PROVE  /\ CallsType' /\ Others(c)
           /\ \/ pc'[c] = "idle" /\ answer'[c] = "served" /\ request[c].kind = "currencies"
              \/ /\ pc'[c] = "idle" /\ answer'[c] = "unsupported"
                 /\ request[c].kind # "currencies" /\ request[c].currency \notin cs
              \/ /\ pc'[c] = "get" /\ request[c].kind # "currencies"
                 /\ request[c].currency \in cs
                 /\ UNCHANGED <<request, fetched, todo, answer>>
<1>1. {"served", "unsupported"} \subseteq Answer /\ "get" \in Labels
  BY DEF Answer, Labels
<1>2. CASE request[c].kind = "currencies"
  BY <1>1, <1>2, ReturnCall DEF Currencies
<1>3. CASE request[c].kind # "currencies" /\ request[c].currency \notin cs
  BY <1>1, <1>3, ReturnCall DEF Currencies
<1>4. CASE request[c].kind # "currencies" /\ request[c].currency \in cs
  BY <1>1, <1>4, GotoCall DEF Currencies
<1> QED
  BY <1>2, <1>3, <1>4

LEMMA OffersAreCurrencies == offered \in SUBSET Offers
    => \A o \in offered : o \subseteq Currency /\ o # {}
BY CurrencyAssumption

-----------------------------------------------------------------------------

LEMMA TypeInit == Init => TypeInv
<1> SUFFICES ASSUME Init PROVE TypeInv
  OBVIOUS
<1>1. CallsType
  BY DEF Init, CallsType, Labels, Answer
<1>2. client \in Client /\ offer \in Offers /\ offered \in SUBSET Offers /\ changes \in 0..MaxChanges
  BY ChangesAssumption DEF Init
<1>3. ~listTTL /\ ~mapTTL /\ listTTL \in BOOLEAN /\ mapTTL \in BOOLEAN
  BY Zenon DEF Init
<1>4. TypeOK
  BY <1>1, <1>2, <1>3 DEF Init, TypeOK, CallsType
<1>5. FillInv
  BY DEF Init, FillInv, FillOf, Holding, Filling, Expiring, At
<1> QED
  BY <1>4, <1>5 DEF TypeInv

-----------------------------------------------------------------------------
(* A step of one call leaves what is known of the others.                  *)
LEMMA FillKept ==
    ASSUME FillInv, NEW c \in Call, Others(c), FillOf(c)',
           offer' = offer, offered' = offered,
           list \subseteq list', map # {} => map' # {}
    PROVE  FillInv'
BY DEF FillInv, FillOf, Others, At

(* A call that is done, or about to read, holds nothing.                   *)
LEMMA Unfilled ==
    ASSUME NEW c \in Call,
           pc'[c] \in {"idle", "members", "fetch", "get", "fetchMap"}
    PROVE  FillOf(c)'
BY DEF FillOf, Holding, Filling, Expiring, At

LEMMA TypeStep == TypeInv /\ [Next]_vars => TypeInv'
<1> SUFFICES ASSUME TypeInv, [Next]_vars PROVE TypeInv'
  OBVIOUS
<1> USE TypeParts DEF TypeInv
<1>1. ASSUME NEW c \in Call, Begin(c) PROVE TypeInv'
  <2>1. PICK r \in Request : /\ request' = [request EXCEPT ![c] = r]
                             /\ Goto(c, IF r.kind = "post" THEN "get" ELSE "members")
    BY <1>1 DEF Begin
  <2>2. CallsType' /\ Others(c) /\ pc'[c] \in {"get", "members"}
    BY <1>1, <2>1 DEF Begin, CallsType, Goto, Others, Labels, Answer
  <2>3. KeysType' /\ UNCHANGED <<exchange, keys>>
    BY <1>1 DEF Begin, exchange, keys, KeysType
  <2> QED
    BY <2>2, <2>3, FillKept, Unfilled DEF exchange, keys
<1>2. ASSUME NEW c \in Call, Members(c) PROVE TypeInv'
  <2>1. KeysType' /\ UNCHANGED <<exchange, keys>>
    BY <1>2 DEF Members, exchange, keys, KeysType
  <2>2. CallsType' /\ Others(c) /\ pc'[c] \in {"fetch", "idle", "get"}
    <3>1. CASE list = {}
      <4>1. "fetch" \in Labels
        BY DEF Labels
      <4> QED
        BY <1>2, <3>1, <4>1, GotoCall DEF Members
    <3>2. CASE list # {}
      BY <1>2, <3>2, CurrenciesCall DEF Members
    <3> QED
      BY <3>1, <3>2
  <2> QED
    BY <2>1, <2>2, FillKept, Unfilled DEF exchange, keys
<1>3. ASSUME NEW c \in Call, FetchList(c) PROVE TypeInv'
  <2>1. KeysType' /\ UNCHANGED <<exchange, keys>>
    BY <1>3 DEF FetchList, exchange, keys, KeysType
  <2>2. /\ CallsType' /\ Others(c)
        /\ pc'[c] = "add" /\ fetched'[c] = offer /\ todo'[c] = offer
    BY <1>3, CurrencyAssumption DEF FetchList, CallsType, KeysType, Goto, Others, Labels, Filling
  <2>3. FillOf(c)'
    BY <2>1, <2>2 DEF FillOf, FillInv, Holding, Filling, Expiring, At, exchange, keys
  <2> QED
    BY <2>1, <2>2, <2>3, FillKept DEF exchange, keys
<1>4. ASSUME NEW c \in Call, AddCurrency(c) PROVE TypeInv'
  <2>1. PICK x \in todo[c] : /\ list' = list \cup {x}
                             /\ todo' = [todo EXCEPT ![c] = @ \ {x}]
                             /\ Goto(c, IF todo'[c] = {} THEN "expire" ELSE "add")
    BY <1>4 DEF AddCurrency
  <2>2. x \in Currency /\ x \in UNION offered
    BY <1>4, <2>1 DEF AddCurrency, CallsType, FillInv, FillOf, Holding, Filling, At
  <2>3. KeysType' /\ UNCHANGED <<offer, offered, map, fetched>>
    BY <1>4, <2>1, <2>2 DEF AddCurrency, exchange, KeysType
  <2>4. /\ CallsType' /\ Others(c)
        /\ todo'[c] = todo[c] \ {x}
        /\ pc'[c] = IF todo'[c] = {} THEN "expire" ELSE "add"
    BY <1>4, <2>1 DEF AddCurrency, CallsType, Goto, Others, Labels, Filling
  <2>5. /\ fetched[c] \in offered
        /\ todo[c] \subseteq fetched[c] /\ fetched[c] \subseteq list \cup todo[c]
    BY <1>4 DEF AddCurrency, FillInv, FillOf, Holding, Filling, At
  <2>6. FillOf(c)'
    BY <2>1, <2>3, <2>4, <2>5 DEF FillOf, Holding, Filling, Expiring, At
  <2> QED
    BY <2>1, <2>3, <2>4, <2>6, FillKept
<1>5. ASSUME NEW c \in Call, ExpireList(c) PROVE TypeInv'
  <2>1. fetched[c] \in offered /\ fetched[c] \subseteq list
    BY <1>5 DEF ExpireList, FillInv, FillOf, Holding, Filling, At
  <2>2. list # {}
    BY <2>1, CurrencyAssumption DEF KeysType
  <2>3. KeysType' /\ UNCHANGED <<offer, offered, list, map>>
    BY <1>5, <2>2 DEF ExpireList, exchange, KeysType
  <2>4. CASE client = "bybit"
    <3>1. CallsType' /\ Others(c) /\ pc'[c] = "setAlso" /\ fetched' = fetched
      BY <1>5, <2>4, GotoCall DEF ExpireList, Labels
    <3>2. FillOf(c)'
      BY <2>1, <2>3, <3>1 DEF FillOf, Holding, Filling, Expiring, At
    <3> QED
      BY <2>3, <3>1, <3>2, FillKept
  <2>5. CASE client # "bybit"
    <3>1. CallsType' /\ Others(c) /\ pc'[c] \in {"idle", "get"}
      BY <1>5, <2>5, CurrenciesCall DEF ExpireList
    <3> QED
      BY <2>3, <3>1, FillKept, Unfilled
  <2> QED
    BY <2>4, <2>5
<1>6. ASSUME NEW c \in Call, GetMap(c) PROVE TypeInv'
  <2>1. KeysType' /\ UNCHANGED <<exchange, keys>>
    BY <1>6 DEF GetMap, exchange, keys, KeysType
  <2>2. {"served", "unknown"} \subseteq Answer /\ "fetchMap" \in Labels
    BY DEF Answer, Labels
  <2>3. CallsType' /\ Others(c) /\ pc'[c] \in {"idle", "fetchMap"}
    BY <1>6, <2>2, ReturnCall, GotoCall DEF GetMap
  <2> QED
    BY <2>1, <2>3, FillKept, Unfilled DEF exchange, keys
<1>7. ASSUME NEW c \in Call, FetchMap(c) PROVE TypeInv'
  <2>1. KeysType' /\ UNCHANGED <<exchange, keys>>
    BY <1>7 DEF FetchMap, exchange, keys, KeysType
  <2>2. CallsType' /\ Others(c) /\ pc'[c] = "setMap" /\ fetched'[c] = offer
    BY <1>7, CurrencyAssumption DEF FetchMap, CallsType, KeysType, Goto, Others, Labels
  <2>3. FillOf(c)'
    BY <2>1, <2>2 DEF FillOf, FillInv, Holding, Filling, Expiring, At, exchange, keys
  <2> QED
    BY <2>1, <2>2, <2>3, FillKept DEF exchange, keys
<1>8. ASSUME NEW c \in Call, SetMap(c) PROVE TypeInv'
  <2>1. fetched[c] \in offered
    BY <1>8 DEF SetMap, FillInv, FillOf, Holding
  <2>2. fetched[c] # {} /\ fetched[c] \subseteq Currency
    BY <2>1, CurrencyAssumption DEF KeysType
  <2>3. KeysType' /\ UNCHANGED <<offer, offered, list, fetched>> /\ map' # {}
    BY <1>8, <2>1, <2>2 DEF SetMap, exchange, KeysType
  <2>4. CallsType' /\ Others(c) /\ pc'[c] \in Expiring
    BY <1>8, GotoCall DEF SetMap, Labels, Expiring
  <2>5. FillOf(c)'
    BY <2>1, <2>3, <2>4 DEF FillOf, Holding, Filling, Expiring, At
  <2> QED
    BY <2>3, <2>4, <2>5, FillKept
<1>9. ASSUME NEW c \in Call, ExpireMap(c) PROVE TypeInv'
  <2>1. map # {}
    BY <1>9 DEF ExpireMap, FillInv, FillOf, Expiring
  <2>2. KeysType' /\ UNCHANGED <<offer, offered, list, map>>
    BY <1>9, <2>1 DEF ExpireMap, exchange, KeysType
  <2>3. {"served", "empty"} \subseteq Answer
    BY DEF Answer
  <2>4. CallsType' /\ Others(c) /\ pc'[c] \in {"idle", "get"}
    BY <1>9, <2>3, ReturnCall, CurrenciesCall DEF ExpireMap
  <2> QED
    BY <2>2, <2>4, FillKept, Unfilled
<1>10. ASSUME NEW c \in Call, Fail(c) PROVE TypeInv'
  <2>1. KeysType' /\ UNCHANGED <<exchange, keys>>
    BY <1>10 DEF Fail, BreakOff, exchange, keys, KeysType
  <2>2. CallsType' /\ Others(c) /\ pc'[c] = "idle"
    BY <1>10, ReturnCall DEF Fail, Answer
  <2> QED
    BY <2>1, <2>2, FillKept, Unfilled DEF exchange, keys
<1>11. CASE StopServer
  <2>1. KeysType' /\ UNCHANGED <<exchange, keys>>
    BY <1>11 DEF StopServer, BreakOff, exchange, keys, KeysType
  <2>2. CallsType' /\ \A c \in Call : pc'[c] = "idle"
    BY <1>11 DEF StopServer, CallsType, Labels, Answer
  <2> QED
    BY <2>1, <2>2, Unfilled DEF FillInv, exchange
<1>12. CASE ChangeOffer
  <2>1. KeysType' /\ CallsType' /\ offered \subseteq offered' /\ offer' \in offered'
    BY <1>12, ChangesAssumption DEF ChangeOffer, keys, calls, KeysType, CallsType
  <2> QED
    BY <1>12, <2>1 DEF ChangeOffer, keys, calls, FillInv, FillOf, At
<1>13. CASE ListExpires
  <2>1. KeysType' /\ CallsType'
    BY <1>13 DEF ListExpires, exchange, calls, KeysType, CallsType
  <2> QED
    BY <1>13, <2>1 DEF ListExpires, exchange, calls, FillInv, FillOf, At, Filling
<1>14. CASE MapExpires
  <2>1. KeysType' /\ CallsType'
    BY <1>14 DEF MapExpires, exchange, calls, KeysType, CallsType
  <2> QED
    BY <1>14, <2>1 DEF MapExpires, exchange, calls, FillInv, FillOf, At, Expiring
<1>15. CASE UNCHANGED vars
  BY <1>15 DEF vars, exchange, keys, calls, KeysType, CallsType, FillInv, FillOf, At
<1> QED
  BY <1>1, <1>2, <1>3, <1>4, <1>5, <1>6, <1>7, <1>8, <1>9, <1>10, <1>11, <1>12,
     <1>13, <1>14, <1>15 DEF Next, Step

(* The types of the keys and the calls; what expires is not empty.         *)
THEOREM TypeCorrect == Spec => []TypeOK
<1>1. TypeInv => TypeOK
  BY DEF TypeInv
<1> QED
  BY <1>1, TypeInit, TypeStep, PTL DEF Spec

-----------------------------------------------------------------------------
(* Settled keys, and the answers that follow from them.                    *)

LEMMA SettledKept ==
    ASSUME KeysSettled, NEW c \in Call, Others(c),
           ~HalfList(c), pc[c] \notin Expiring,
           UNCHANGED <<list, listTTL, map, mapTTL, offered, broken>>
    PROVE  KeysSettled'
BY DEF KeysSettled, Others, HalfList, At, Expiring

LEMMA SettledStep == TypeInv /\ KeysSettled /\ [Next]_vars => KeysSettled'
<1> SUFFICES ASSUME TypeInv, KeysSettled, [Next]_vars PROVE KeysSettled'
  OBVIOUS
<1> USE TypeParts DEF TypeInv
<1>1. ASSUME NEW c \in Call, Begin(c) \/ FetchList(c) \/ FetchMap(c) PROVE KeysSettled'
  <2>1. Others(c) /\ UNCHANGED <<exchange, keys, broken>>
    BY <1>1 DEF Begin, FetchList, FetchMap, Goto, Others, CallsType, exchange, keys
  <2>2. ~HalfList(c) /\ pc[c] \notin Expiring
    BY <1>1 DEF Begin, FetchList, FetchMap, HalfList, At, Expiring
  <2> QED
    BY <2>1, <2>2, SettledKept DEF exchange, keys
<1>2. ASSUME NEW c \in Call, Members(c) \/ GetMap(c) PROVE KeysSettled'
  <2>1. UNCHANGED <<exchange, keys, broken>>
    BY <1>2 DEF Members, GetMap, exchange, keys
  <2>2. {"served", "unknown"} \subseteq Answer /\ {"fetch", "fetchMap"} \subseteq Labels
    BY DEF Answer, Labels
  <2>3. Others(c)
    BY <1>2, <2>2, CurrenciesCall, ReturnCall, GotoCall DEF Members, GetMap
  <2>4. ~HalfList(c) /\ pc[c] \notin Expiring
    BY <1>2 DEF Members, GetMap, HalfList, At, Expiring
  <2> QED
    BY <2>1, <2>3, <2>4, SettledKept DEF exchange, keys
<1>3. ASSUME NEW c \in Call, AddCurrency(c) PROVE KeysSettled'
  <2>1. PICK x \in todo[c] : /\ list' = list \cup {x}
                             /\ todo' = [todo EXCEPT ![c] = @ \ {x}]
                             /\ Goto(c, IF todo'[c] = {} THEN "expire" ELSE "add")
    BY <1>3 DEF AddCurrency
  <2>2. /\ Others(c) /\ todo'[c] = todo[c] \ {x}
        /\ pc'[c] = IF todo'[c] = {} THEN "expire" ELSE "add"
        /\ UNCHANGED <<offered, listTTL, map, mapTTL, fetched, broken>>
    BY <1>3, <2>1 DEF AddCurrency, Goto, Others, CallsType, exchange
  <2>3. x \in fetched[c]
    BY <1>3, <2>1 DEF AddCurrency, FillInv, FillOf, Filling, At
  <2>4. HalfList(c)'
    BY <2>2, <2>3 DEF HalfList, At
  <2>5. pc[c] \notin Expiring
    BY <1>3 DEF AddCurrency, At, Expiring
  <2> QED
    BY <2>1, <2>2, <2>4, <2>5 DEF KeysSettled, Others, Expiring
<1>4. ASSUME NEW c \in Call, ExpireList(c) PROVE KeysSettled'
  <2>1. fetched[c] \in offered /\ fetched[c] \subseteq list
    BY <1>4 DEF ExpireList, FillInv, FillOf, Holding, Filling, At
  <2>2. Others(c)
    BY <1>4, CurrenciesCall, GotoCall DEF ExpireList, Labels
  <2>3. pc[c] \notin Expiring
    BY <1>4 DEF ExpireList, At, Expiring
  <2>4. /\ listTTL' = TRUE /\ broken' = broken \ {"list"}
        /\ UNCHANGED <<offered, list, map, mapTTL>>
    BY <1>4 DEF ExpireList, exchange
  <2> QED
    BY <2>1, <2>2, <2>3, <2>4 DEF KeysSettled, Others, Expiring
<1>5. ASSUME NEW c \in Call, SetMap(c) PROVE KeysSettled'
  <2>1. Others(c) /\ pc'[c] \in Expiring /\ UNCHANGED <<offered, list, listTTL, broken>>
    BY <1>5, GotoCall DEF SetMap, Labels, Expiring, exchange
  <2>2. ~HalfList(c)
    BY <1>5 DEF SetMap, HalfList, At
  <2> QED
    BY <2>1, <2>2 DEF KeysSettled, Others, HalfList, At, Expiring
<1>6. ASSUME NEW c \in Call, ExpireMap(c) PROVE KeysSettled'
  <2>1. {"served", "empty"} \subseteq Answer
    BY DEF Answer
  <2>2. Others(c)
    BY <1>6, <2>1, ReturnCall, CurrenciesCall DEF ExpireMap
  <2>3. ~HalfList(c)
    BY <1>6 DEF ExpireMap, HalfList, At
  <2>4. /\ mapTTL' = TRUE /\ broken' = broken \ {"map"}
        /\ UNCHANGED <<offered, list, listTTL, map>>
    BY <1>6 DEF ExpireMap, exchange
  <2> QED
    BY <2>2, <2>3, <2>4 DEF KeysSettled, Others, HalfList, At
<1>7. ASSUME NEW c \in Call, Fail(c) PROVE KeysSettled'
  <2>1. Others(c) /\ UNCHANGED <<exchange, keys>>
    BY <1>7, ReturnCall DEF Fail, Answer
  <2>2. /\ broken \subseteq broken'
        /\ ~listTTL /\ HalfList(c) => "list" \in broken'
        /\ ~mapTTL /\ pc[c] \in Expiring => "map" \in broken'
    BY <1>7 DEF Fail, BreakOff, Expiring
  <2> QED
    BY <2>1, <2>2 DEF KeysSettled, Others, HalfList, At, Expiring, exchange, keys
<1>8. CASE StopServer
  <2>1. /\ broken \subseteq broken' /\ UNCHANGED <<exchange, keys>>
        /\ ~listTTL /\ (\E c \in Call : HalfList(c)) => "list" \in broken'
        /\ ~mapTTL /\ (\E c \in Call : pc[c] \in Expiring) => "map" \in broken'
    BY <1>8 DEF StopServer, BreakOff, Expiring
  <2> QED
    BY <2>1 DEF KeysSettled, Expiring, exchange, keys
<1>9. CASE ChangeOffer
  BY <1>9 DEF ChangeOffer, keys, calls, KeysSettled, HalfList, At
<1>10. CASE ListExpires
  BY <1>10 DEF ListExpires, exchange, calls, KeysSettled, HalfList, At
<1>11. CASE MapExpires
  BY <1>11 DEF MapExpires, exchange, calls, KeysSettled, HalfList, At
<1>12. CASE UNCHANGED vars
  BY <1>12 DEF vars, exchange, keys, calls, KeysSettled, HalfList, At
<1> QED
  BY <1>1, <1>2, <1>3, <1>4, <1>5, <1>6, <1>7, <1>8, <1>9, <1>10, <1>11, <1>12 DEF Next, Step

LEMMA SettledInit == Init => KeysSettled
<1> SUFFICES ASSUME Init PROVE KeysSettled
  OBVIOUS
<1>1. ~listTTL /\ list = {} /\ map = {}
  BY Zenon DEF Init
<1> QED
  BY <1>1 DEF KeysSettled

(* A key expires, and the list has all of some offer, unless a call is at  *)
(* work on it or was broken off, whatever fills run at the same time.      *)
THEOREM KeysStaySettled == Spec => []KeysSettled
BY TypeInit, TypeStep, SettledInit, SettledStep, PTL DEF Spec

(* A call under way has not been answered.                                 *)
AnswerInv == \A c \in Call : ~At(c, "idle") => answer[c] = "none"

LEMMA AnswerKept ==
    ASSUME AnswerInv, NEW c \in Call, Others(c),
           pc'[c] = "idle" \/ answer'[c] = "none"
    PROVE  AnswerInv'
BY DEF AnswerInv, Others, At

LEMMA AnswerStep == TypeInv /\ AnswerInv /\ [Next]_vars => AnswerInv'
<1> SUFFICES ASSUME TypeInv, AnswerInv, [Next]_vars PROVE AnswerInv'
  OBVIOUS
<1> USE TypeParts DEF TypeInv
<1>1. ASSUME NEW c \in Call, Begin(c) PROVE AnswerInv'
  <2>1. Others(c) /\ answer'[c] = "none"
    BY <1>1 DEF Begin, Goto, Others, CallsType
  <2> QED
    BY <2>1, AnswerKept
<1>2. ASSUME NEW c \in Call, FetchList(c) \/ AddCurrency(c) \/ FetchMap(c) \/ SetMap(c)
      PROVE  AnswerInv'
  <2>1. Others(c) /\ answer' = answer /\ ~At(c, "idle")
    BY <1>2 DEF FetchList, AddCurrency, FetchMap, SetMap, Goto, Others, CallsType, At
  <2> QED
    BY <2>1, AnswerKept DEF AnswerInv
<1>3. ASSUME NEW c \in Call,
             Members(c) \/ ExpireList(c) \/ GetMap(c) \/ ExpireMap(c) \/ Fail(c)
      PROVE  AnswerInv'
  <2>1. ~At(c, "idle")
    BY <1>3 DEF Members, ExpireList, GetMap, ExpireMap, Fail, At
  <2>2. /\ {"served", "unknown", "empty", "error"} \subseteq Answer
        /\ {"fetch", "setAlso", "fetchMap"} \subseteq Labels
    BY DEF Answer, Labels
  <2>3. Others(c) /\ (pc'[c] = "idle" \/ answer'[c] = answer[c])
    <3>1. CASE Members(c) \/ ExpireList(c)
      BY <2>2, <3>1, CurrenciesCall, GotoCall DEF Members, ExpireList
    <3>2. CASE GetMap(c) \/ ExpireMap(c) \/ Fail(c)
      BY <2>2, <3>2, CurrenciesCall, ReturnCall, GotoCall DEF GetMap, ExpireMap, Fail
    <3> QED
      BY <1>3, <3>1, <3>2
  <2> QED
    BY <2>1, <2>3, AnswerKept DEF AnswerInv
<1>4. CASE StopServer
  BY <1>4 DEF StopServer, AnswerInv, At
<1>5. CASE ChangeOffer \/ ListExpires \/ MapExpires \/ UNCHANGED vars
  BY <1>5 DEF ChangeOffer, ListExpires, MapExpires, vars, calls, AnswerInv, At
<1> QED
  BY <1>1, <1>2, <1>3, <1>4, <1>5 DEF Next, Step

LEMMA AnswerInit == Init => AnswerInv
BY DEF Init, AnswerInv, At

(* A list without an offer of the exchange is one that is being filled, or *)
(* that was left half filled.                                              *)
LEMMA HalfExplained ==
    ASSUME KeysSettled, NEW c \in Call, ~HalfList(c), list # {},
           ~\E o \in offered : o \subseteq list
    PROVE  "list" \in broken \/ \E d \in Call \ {c} : HalfList(d)
BY DEF KeysSettled

(* Who learns that a currency is served or refused.                        *)
LEMMA Answered ==
    ASSUME TypeInv, AnswerInv, [Next]_vars, NEW c \in Call, answer'[c] # answer[c]
    PROVE  \/ Begin(c) \/ Members(c) \/ ExpireList(c) \/ GetMap(c) \/ ExpireMap(c)
           \/ answer'[c] = "error"
<1> USE TypeParts DEF TypeInv
<1>1. ASSUME NEW d \in Call, Begin(d) \/ Step(d), d # c PROVE FALSE
  <2>1. CASE Begin(d)
    BY <1>1, <2>1 DEF Begin, CallsType
  <2>2. CASE FetchList(d) \/ AddCurrency(d) \/ FetchMap(d) \/ SetMap(d)
    BY <2>2 DEF FetchList, AddCurrency, FetchMap, SetMap
  <2>3. CASE Members(d) \/ ExpireList(d) \/ GetMap(d) \/ ExpireMap(d) \/ Fail(d)
    <3>1. /\ {"served", "unknown", "empty", "error"} \subseteq Answer
          /\ {"fetch", "setAlso", "fetchMap"} \subseteq Labels
      BY DEF Answer, Labels
    <3>2. CASE Members(d) \/ ExpireList(d)
      <4>1. Others(d)
        BY <3>1, <3>2, CurrenciesCall, GotoCall DEF Members, ExpireList
      <4> QED
        BY <1>1, <4>1 DEF Others
    <3>3. CASE GetMap(d) \/ ExpireMap(d) \/ Fail(d)
      <4>1. Others(d)
        BY <3>1, <3>3, CurrenciesCall, ReturnCall, GotoCall DEF GetMap, ExpireMap, Fail
      <4> QED
        BY <1>1, <4>1 DEF Others
    <3> QED
      BY <2>3, <3>2, <3>3
  <2> QED
    BY <1>1, <2>1, <2>2, <2>3 DEF Step
<1>2. CASE FetchList(c) \/ AddCurrency(c) \/ FetchMap(c) \/ SetMap(c)
  BY <1>2 DEF FetchList, AddCurrency, FetchMap, SetMap
<1>3. CASE Fail(c)
  BY <1>3, ReturnCall DEF Fail, Answer
<1>4. CASE StopServer
  BY <1>4 DEF StopServer, CallsType
<1>5. CASE ChangeOffer \/ ListExpires \/ MapExpires \/ UNCHANGED vars
  BY <1>5 DEF ChangeOffer, ListExpires, MapExpires, vars, calls
<1> QED
  BY <1>1, <1>2, <1>3, <1>4, <1>5 DEF Next, Step

(* The step of RefusalExplained.                                           *)
Refusals ==
    \A c \in Call :
         \/ /\ At(c, "members") /\ answer'[c] = "served"
            /\ ~\E o \in offered : o \subseteq list
         \/ /\ answer[c] # "unsupported" /\ answer'[c] = "unsupported"
            /\ \A o \in offered : request[c].currency \in o
         => "list" \in broken \/ \E d \in Call \ {c} : HalfList(d)

LEMMA RefusalStep == TypeInv /\ KeysSettled /\ AnswerInv /\ [Next]_vars => Refusals
<1> SUFFICES ASSUME TypeInv, KeysSettled, AnswerInv, [Next]_vars, NEW c \in Call
             PROVE  \/ /\ At(c, "members") /\ answer'[c] = "served"
                       /\ ~\E o \in offered : o \subseteq list
                    \/ /\ answer[c] # "unsupported" /\ answer'[c] = "unsupported"
                       /\ \A o \in offered : request[c].currency \in o
                    => "list" \in broken \/ \E d \in Call \ {c} : HalfList(d)
  BY DEF Refusals
<1> USE TypeParts DEF TypeInv
<1>1. ASSUME At(c, "members"), answer'[c] = "served", ~\E o \in offered : o \subseteq list
      PROVE  "list" \in broken \/ \E d \in Call \ {c} : HalfList(d)
  <2>1. answer[c] = "none"
    BY <1>1 DEF AnswerInv, At
  <2>2. Members(c)
    BY <1>1, <2>1, Answered DEF Begin, ExpireList, GetMap, ExpireMap, At
  <2>3. list # {}
    BY <1>1, <2>1, <2>2 DEF Members
  <2>4. ~HalfList(c)
    BY <1>1 DEF HalfList, At
  <2> QED
    BY <1>1, <2>3, <2>4, HalfExplained
<1>2. ASSUME answer[c] # "unsupported", answer'[c] = "unsupported",
             \A o \in offered : request[c].currency \in o
      PROVE  "list" \in broken \/ \E d \in Call \ {c} : HalfList(d)
  <2>1. Begin(c) \/ Members(c) \/ ExpireList(c) \/ GetMap(c) \/ ExpireMap(c)
    BY <1>2, Answered
  <2>2. ~Begin(c)
    BY <1>2 DEF Begin, CallsType
  <2>3. ASSUME NEW cs \in offered PROVE ~Currencies(c, cs)
    BY <1>2, <2>3, CurrenciesCall
  <2>4. ~ExpireList(c)
    <3>1. ASSUME ExpireList(c) PROVE fetched[c] \in offered
      BY <3>1 DEF ExpireList, FillInv, FillOf, Holding, At
    <3> QED
      BY <1>2, <2>3, <3>1 DEF ExpireList
  <2>5. ~GetMap(c)
    <3>1. {"served", "unknown"} \subseteq Answer
      BY DEF Answer
    <3> QED
      BY <1>2, <3>1, ReturnCall DEF GetMap
  <2>6. ~ExpireMap(c)
    <3>1. {"served", "empty"} \subseteq Answer
      BY DEF Answer
    <3>2. ASSUME ExpireMap(c) PROVE fetched[c] \in offered
      BY <3>2 DEF ExpireMap, FillInv, FillOf, Holding
    <3> QED
      BY <1>2, <2>3, <3>1, <3>2, ReturnCall DEF ExpireMap
  <2>7. Members(c)
    BY <2>1, <2>2, <2>4, <2>5, <2>6
  <2>8. list # {} /\ request[c].currency \notin list
    BY <1>2, <2>7, CurrenciesCall DEF Members
  <2>9. ~HalfList(c)
    BY <2>7 DEF Members, HalfList, At
  <2> QED
    BY <1>2, <2>8, <2>9, HalfExplained
<1> QED
  BY <1>1, <1>2

(* Half a list is shown, or a currency refused that was always offered,    *)
(* only while another request fills the list or when it was left half      *)
(* filled.                                                                 *)
THEOREM RefusalsAreExplained == Spec => RefusalExplained
<1>1. Init => TypeInv /\ KeysSettled /\ AnswerInv
  BY TypeInit, SettledInit, AnswerInit
<1>2. TypeInv /\ KeysSettled /\ AnswerInv /\ [Next]_vars
        => (TypeInv /\ KeysSettled /\ AnswerInv)'
  BY TypeStep, SettledStep, AnswerStep
<1> QED
  BY <1>1, <1>2, RefusalStep, PTL DEF Spec, RefusalExplained, Refusals

-----------------------------------------------------------------------------
(* While the exchange keeps its offer, the list and the map have nothing   *)
(* else, and a form that asks for methods has seen its currency in them.   *)
Mapping == {"get", "fetchMap", "setMap", "expireMap"}

ChosenOf(c) ==
    request[c].kind = "options" /\ pc[c] \in Mapping => request[c].currency \in offer

StillInv ==
    changes = 0 => /\ offered = {offer}
                   /\ list \subseteq offer
                   /\ map \in {{}, offer}
                   /\ \A c \in Call : ChosenOf(c)

LEMMA StillInit == Init => StillInv
BY DEF Init, StillInv, ChosenOf, Mapping

LEMMA StillKept ==
    ASSUME StillInv, NEW c \in Call, Others(c), UNCHANGED exchange,
           changes = 0 => list' \subseteq offer /\ map' \in {{}, offer} /\ ChosenOf(c)'
    PROVE  StillInv'
BY DEF StillInv, ChosenOf, Others, exchange

(* What GetCachedCurrencies returns has nothing that is not offered.       *)
LEMMA StillChosen ==
    ASSUME CallsType, NEW c \in Call, NEW cs, Currencies(c, cs), cs \subseteq offer,
           UNCHANGED exchange
    PROVE  ChosenOf(c)'
BY CurrenciesCall DEF ChosenOf, Mapping, exchange

LEMMA StillStep == TypeInv /\ StillInv /\ [Next]_vars => StillInv'
<1> SUFFICES ASSUME TypeInv, StillInv, [Next]_vars PROVE StillInv'
  OBVIOUS
<1> USE TypeParts DEF TypeInv
<1>1. ASSUME NEW c \in Call, Begin(c) \/ FetchList(c) PROVE StillInv'
  <2>1. PICK r \in Request \cup {Nothing} :
            /\ request'[c] = r /\ (pc'[c] = "get" => r.kind = "post")
            /\ pc'[c] \in {"get", "members", "add"}
    BY <1>1 DEF Begin, FetchList, Goto, CallsType
  <2>2. Others(c) /\ UNCHANGED <<exchange, keys>>
    BY <1>1 DEF Begin, FetchList, Goto, Others, CallsType, exchange, keys
  <2>3. ChosenOf(c)'
    BY <2>1 DEF ChosenOf, Mapping
  <2> QED
    BY <2>2, <2>3, StillKept DEF StillInv, exchange, keys
<1>2. ASSUME NEW c \in Call, Members(c) PROVE StillInv'
  <2>1. UNCHANGED <<exchange, keys>>
    BY <1>2 DEF Members, exchange, keys
  <2>2. CASE list = {}
    <3>1. Others(c) /\ pc'[c] = "fetch"
      BY <1>2, <2>2, GotoCall DEF Members, Labels
    <3>2. ChosenOf(c)'
      BY <3>1 DEF ChosenOf, Mapping
    <3> QED
      BY <2>1, <3>1, <3>2, StillKept DEF StillInv, exchange, keys
  <2>3. CASE list # {}
    <3>1. Currencies(c, list)
      BY <1>2, <2>3 DEF Members
    <3>2. changes = 0 => ChosenOf(c)'
      BY <2>1, <3>1, StillChosen DEF StillInv
    <3> QED
      BY <2>1, <3>1, <3>2, CurrenciesCall, StillKept DEF StillInv, exchange, keys
  <2> QED
    BY <2>2, <2>3
<1>3. ASSUME NEW c \in Call, AddCurrency(c) PROVE StillInv'
  <2>1. fetched[c] \in offered /\ todo[c] \subseteq fetched[c]
    BY <1>3 DEF AddCurrency, FillInv, FillOf, Holding, Filling, At
  <2>2. changes = 0 => list' \subseteq offer
    BY <1>3, <2>1 DEF AddCurrency, StillInv
  <2>3. Others(c) /\ UNCHANGED <<exchange, map>> /\ pc'[c] \in {"add", "expire"}
    BY <1>3 DEF AddCurrency, Goto, Others, CallsType, exchange
  <2>4. ChosenOf(c)'
    BY <2>3 DEF ChosenOf, Mapping
  <2> QED
    BY <2>2, <2>3, <2>4, StillKept DEF StillInv
<1>4. ASSUME NEW c \in Call, ExpireList(c) PROVE StillInv'
  <2>1. fetched[c] \in offered /\ UNCHANGED <<exchange, list, map>>
    BY <1>4 DEF ExpireList, FillInv, FillOf, Holding, At
  <2>2. CASE client = "bybit"
    <3>1. Others(c) /\ pc'[c] = "setAlso"
      BY <1>4, <2>2, GotoCall DEF ExpireList, Labels
    <3>2. ChosenOf(c)'
      BY <3>1 DEF ChosenOf, Mapping
    <3> QED
      BY <2>1, <3>1, <3>2, StillKept DEF StillInv
  <2>3. CASE client # "bybit"
    <3>1. Currencies(c, fetched[c])
      BY <1>4, <2>3 DEF ExpireList
    <3>2. changes = 0 => ChosenOf(c)'
      BY <2>1, <3>1, StillChosen DEF StillInv
    <3> QED
      BY <2>1, <3>1, <3>2, CurrenciesCall, StillKept DEF StillInv
  <2> QED
    BY <2>2, <2>3
<1>5. ASSUME NEW c \in Call, GetMap(c) \/ Fail(c) PROVE StillInv'
  <2>1. UNCHANGED <<exchange, keys>>
    BY <1>5 DEF GetMap, Fail, exchange, keys
  <2>2. {"served", "unknown", "error"} \subseteq Answer /\ "fetchMap" \in Labels
    BY DEF Answer, Labels
  <2>3. /\ Others(c)
        /\ \/ pc'[c] = "idle"
           \/ At(c, "get") /\ pc'[c] = "fetchMap" /\ request' = request
    BY <1>5, <2>2, ReturnCall, GotoCall DEF GetMap, Fail
  <2>4. changes = 0 => ChosenOf(c)'
    BY <2>1, <2>3 DEF StillInv, ChosenOf, Mapping, At, exchange
  <2> QED
    BY <2>1, <2>3, <2>4, StillKept DEF StillInv, exchange, keys
<1>6. ASSUME NEW c \in Call, FetchMap(c) PROVE StillInv'
  <2>1. Others(c) /\ pc'[c] = "setMap" /\ request' = request /\ UNCHANGED <<exchange, keys>>
    BY <1>6 DEF FetchMap, Goto, Others, CallsType, exchange, keys
  <2>2. changes = 0 => ChosenOf(c)'
    BY <1>6, <2>1 DEF FetchMap, StillInv, ChosenOf, Mapping, At, exchange
  <2> QED
    BY <2>1, <2>2, StillKept DEF StillInv, exchange, keys
<1>7. ASSUME NEW c \in Call, SetMap(c) PROVE StillInv'
  <2>1. fetched[c] \in offered
    BY <1>7 DEF SetMap, FillInv, FillOf, Holding
  <2>2. changes = 0 => map' = offer
    BY <1>7, <2>1 DEF SetMap, StillInv
  <2>3. /\ Others(c) /\ request' = request /\ UNCHANGED <<exchange, list>>
        /\ pc'[c] = IF At(c, "setMap") THEN "expireMap" ELSE "expireAlso"
    BY <1>7 DEF SetMap, Goto, Others, CallsType, exchange
  <2>4. changes = 0 => ChosenOf(c)'
    BY <2>3 DEF StillInv, ChosenOf, Mapping, At, exchange
  <2> QED
    BY <2>2, <2>3, <2>4, StillKept DEF StillInv
<1>8. ASSUME NEW c \in Call, ExpireMap(c) PROVE StillInv'
  <2>1. UNCHANGED <<exchange, list, map>> /\ fetched[c] \in offered
    BY <1>8 DEF ExpireMap, FillInv, FillOf, Holding
  <2>2. CASE At(c, "expireAlso")
    <3>1. Currencies(c, fetched[c])
      BY <1>8, <2>2 DEF ExpireMap
    <3>2. changes = 0 => ChosenOf(c)'
      BY <2>1, <3>1, StillChosen DEF StillInv
    <3> QED
      BY <2>1, <3>1, <3>2, CurrenciesCall, StillKept DEF StillInv
  <2>3. CASE ~At(c, "expireAlso")
    <3>1. {"served", "empty"} \subseteq Answer
      BY DEF Answer
    <3>2. Others(c) /\ pc'[c] = "idle"
      BY <1>8, <2>3, <3>1, ReturnCall DEF ExpireMap
    <3>3. ChosenOf(c)'
      BY <3>2 DEF ChosenOf, Mapping
    <3> QED
      BY <2>1, <3>2, <3>3, StillKept DEF StillInv
  <2> QED
    BY <2>2, <2>3
<1>9. CASE StopServer
  BY <1>9 DEF StopServer, exchange, keys, StillInv, ChosenOf, Mapping
<1>10. CASE ChangeOffer
  BY <1>10 DEF ChangeOffer, KeysType, StillInv
<1>11. CASE ListExpires \/ MapExpires \/ UNCHANGED vars
  BY <1>11 DEF ListExpires, MapExpires, vars, exchange, keys, calls, StillInv, ChosenOf
<1> QED
  BY <1>1, <1>2, <1>3, <1>4, <1>5, <1>6, <1>7, <1>8, <1>9, <1>10, <1>11 DEF Next, Step

(* The step of NoDeadOption.                                               *)
DeadOptions ==
    \A c \in Call :
         /\ request[c].kind = "options"
         /\ answer[c] = "none" /\ answer'[c] \in {"unknown", "empty"}
         => changes > 0

LEMMA DeadOptionStep == TypeInv /\ AnswerInv /\ StillInv /\ [Next]_vars => DeadOptions
<1> SUFFICES ASSUME TypeInv, AnswerInv, StillInv, [Next]_vars, NEW c \in Call,
                    request[c].kind = "options", answer[c] = "none",
                    answer'[c] \in {"unknown", "empty"}, changes = 0
             PROVE  FALSE
  BY ChangesAssumption, TypeParts DEF DeadOptions, TypeInv, KeysType
<1> USE TypeParts DEF TypeInv
<1>1. offered = {offer} /\ map \in {{}, offer} /\ ChosenOf(c)
  BY DEF StillInv
<1>2. Begin(c) \/ Members(c) \/ ExpireList(c) \/ GetMap(c) \/ ExpireMap(c)
  BY Answered
<1>3. ASSUME NEW cs PROVE ~Currencies(c, cs)
  BY CurrenciesCall
<1>4. {"served", "unknown", "empty"} \subseteq Answer /\ {"fetch", "setAlso"} \subseteq Labels
  BY DEF Answer, Labels
<1>5. ~Begin(c)
  BY DEF Begin, CallsType
<1>6. ~Members(c) /\ ~ExpireList(c)
  BY <1>3, <1>4, GotoCall DEF Members, ExpireList
<1>7. ~GetMap(c)
  <2>1. ASSUME GetMap(c) PROVE map # {} /\ request[c].currency \notin map
    BY <1>4, <2>1, ReturnCall DEF GetMap
  <2>2. ASSUME GetMap(c) PROVE request[c].currency \in offer
    BY <1>1, <2>2 DEF GetMap, ChosenOf, Mapping, At
  <2> QED
    BY <1>1, <2>1, <2>2
<1>8. ~ExpireMap(c)
  <2>1. ASSUME ExpireMap(c) PROVE fetched[c] = offer
    BY <1>1, <2>1 DEF ExpireMap, FillInv, FillOf, Holding
  <2>2. ASSUME ExpireMap(c) PROVE At(c, "expireMap") /\ request[c].currency \notin fetched[c]
    BY <1>3, <1>4, <2>2, ReturnCall DEF ExpireMap, At
  <2> QED
    BY <1>1, <2>1, <2>2 DEF ChosenOf, Mapping, At
<1> QED
  BY <1>2, <1>5, <1>6, <1>7, <1>8

(* A currency that was shown has payment methods, unless the exchange has  *)
(* changed its offer: list and map fit together.                           *)
THEOREM NoOptionIsDead == Spec => NoDeadOption
<1>1. Init => TypeInv /\ AnswerInv /\ StillInv
  BY TypeInit, AnswerInit, StillInit
<1>2. TypeInv /\ AnswerInv /\ StillInv /\ [Next]_vars => (TypeInv /\ AnswerInv /\ StillInv)'
  BY TypeStep, AnswerStep, StillStep
<1> QED
  BY <1>1, <1>2, DeadOptionStep, PTL DEF Spec, NoDeadOption, DeadOptions
=============================================================================
