--------------------------- MODULE ObserverProofs ---------------------------
(***************************************************************************)
(* Theorems about Observer, for any trackers, markets, books and requests. *)
(* The second part is about the calls of Notify while no PATCH is under    *)
(* way: what is remembered about a tracker, in the tables and in the copy  *)
(* a worker holds, against the calls there were.  The third part is about  *)
(* the pipeline from the verdicts to Telegram, with a proof of the promise *)
(* to the owner of a tracker; only this part uses the assumptions of       *)
(* AlertPipeline.                                                          *)
(***************************************************************************)
EXTENDS AlertPipeline, TLAPS, WellFoundedInduction, SequenceTheorems, FiniteSetTheorems

-----------------------------------------------------------------------------
(* What the operators of the tables and of the worker return.              *)

(* Every operation of the repository keeps the types of the tables.        *)
LEMMA InsertTyped ==
    ASSUME StoreTypeOK, NEW t \in Tracker, NEW n \in BOOLEAN, NEW p \in Price,
           InsertTracker(t, n, p)
    PROVE  StoreTypeOK'
BY PaymentAssumption DEF StoreTypeOK, InsertTracker, Row

LEMMA UpdateTyped ==
    ASSUME StoreTypeOK, NEW c \in Copy, UpdateTracker(c)
    PROVE  StoreTypeOK'
<1> DEFINE new == [notify |-> c.notify, price |-> c.price, waiting |-> c.waiting]
<1>1. c.id \in Tracker /\ c.pms \in SUBSET Method /\ new \in Row
  BY DEF Copy, Row
<1>2. CASE UNCHANGED store
  BY <1>2 DEF StoreTypeOK, store
<1>3. CASE /\ row' = [row EXCEPT ![c.id] = new]
           /\ methods' = [methods EXCEPT ![c.id] = c.pms]
           /\ outbidded' = [outbidded EXCEPT ![c.id] = {}]
           /\ UNCHANGED status
  <2> HIDE DEF new
  <2> QED
    BY <1>1, <1>3 DEF StoreTypeOK
<1> QED
  BY <1>2, <1>3 DEF UpdateTracker

LEMMA FlagTyped ==
    ASSUME StoreTypeOK, NEW t \in Tracker, NEW pm, NEW b \in BOOLEAN,
           UpdateMethodOutbidded(t, pm, b)
    PROVE  StoreTypeOK'
BY DEF StoreTypeOK, UpdateMethodOutbidded

LEMMA DeleteTyped ==
    ASSUME StoreTypeOK, NEW t \in Tracker, DeleteRow(t)
    PROVE  StoreTypeOK'
BY PriceAssumption DEF StoreTypeOK, DeleteRow, NoRow, Row

LEMMA StoreUnchangedTyped ==
    ASSUME StoreTypeOK, UNCHANGED store
    PROVE  StoreTypeOK'
BY DEF StoreTypeOK, store

(* Both queries of GetTrackerById give a copy.                             *)
LEMMA SelectTyped ==
    ASSUME StoreTypeOK, NEW t \in Tracker
    PROVE  SelectTracker(t) \in Copy /\ SelectTracker(t).id = t
BY DEF StoreTypeOK, SelectTracker, Row, Copy

LEMMA WithMethodsTyped ==
    ASSUME StoreTypeOK, NEW c \in Copy
    PROVE  /\ WithMethods(c) \in Copy
           /\ WithMethods(c).id = c.id
           /\ WithMethods(c).pms = methods[c.id]
BY DEF StoreTypeOK, WithMethods, Copy

(* A book with an ad that takes one of the methods has a first such ad.    *)
LEMMA FirstAdTyped ==
    ASSUME NEW b \in Books \cup {<<>>}, NEW ms, HasAd(b, ms)
    PROVE  FirstAd(b, ms).price \in Price
<1> DEFINE T == {i \in DOMAIN b : Takes(b[i], ms)}
           Ads == [name: Name, price: Price, pays: SUBSET Method]
<1>1. b \in Seq(Ads)
  BY BooksAssumption, <<>> \in Seq(Ads)
<1>2. T \subseteq Nat /\ T # {}
  BY <1>1 DEF HasAd
<1>3. PICK i \in T : \A j \in T : ~(<<j, i>> \in OpToRel(<, Nat))
  BY <1>2, WFMin, NatLessThanWellFounded
<1>4. \A j \in 1..(i-1) : ~Takes(b[j], ms)
  <2> SUFFICES ASSUME NEW j \in 1..(i-1), Takes(b[j], ms)
               PROVE  FALSE
    OBVIOUS
  <2>1. j \in T
    BY <1>1, <1>2
  <2>2. <<j, i>> \in OpToRel(<, Nat)
    BY <1>2 DEF OpToRel
  <2> QED
    BY <1>3, <2>1, <2>2
<1>5. \E k \in DOMAIN b : FirstAd(b, ms) = b[k]
  BY <1>4 DEF FirstAd
<1>6. \A k \in DOMAIN b : b[k] \in Ads
  <2> HIDE DEF Ads
  <2> QED
    BY <1>1
<1>7. FirstAd(b, ms) \in Ads
  BY <1>5, <1>6
<1> QED
  BY <1>7
-----------------------------------------------------------------------------
(* Types.  What TypeOK needs to be inductive: a worker past its first      *)
(* query holds a copy, and one that is about to clear a flag has seen an   *)
(* ad, from which it takes the price.                                      *)
Holding == {"methods", "check", "set", "clear", "save"}

TypeInv ==
    /\ TypeOK
    /\ \A m \in Market : pc[m] \in Holding => copy[m] \in Copy
    /\ \A m \in Market : pc[m] = "clear" => /\ cur[m] \in Method
                                            /\ HasAd(ads[m], {cur[m]})
    /\ \A r \in Request : rpc[r] # "idle" => rcopy[r] \in Copy

(* An ad on top, or a call of Notify, leaves types alone.                  *)
LEMMA VerdictTyped ==
    ASSUME NEW c \in Copy, NEW b \in Books \cup {<<>>}, NEW ms, HasAd(b, ms)
    PROVE  /\ Outbidden(c) \in Copy
           /\ OnTop(c, FirstAd(b, ms)) \in Copy
           /\ [c EXCEPT !.price = FirstAd(b, ms).price] \in Copy
<1>1. FirstAd(b, ms).price \in Price
  BY FirstAdTyped
<1> QED
  BY <1>1 DEF Outbidden, OnTop, Copy

LEMMA NotifyTyped ==
    ASSUME asks \in [Tracker -> [Slot -> 0..AlertCap]],
           NEW c \in Copy, NEW s \in Slot, Notify(c, s)
    PROVE  asks' \in [Tracker -> [Slot -> 0..AlertCap]]
BY CapAssumption DEF Notify, Copy

LEMMA ResetTyped ==
    ASSUME asks \in [Tracker -> [Slot -> 0..AlertCap]], NEW t \in Tracker
    PROVE  /\ \A s \in Slot :
                [asks EXCEPT ![t][s] = 0] \in [Tracker -> [Slot -> 0..AlertCap]]
           /\ [asks EXCEPT ![t] = [s \in Slot |-> 0]]
                \in [Tracker -> [Slot -> 0..AlertCap]]
<1>1. 0 \in 0..AlertCap
  BY CapAssumption
<1>2. [s \in Slot |-> 0] \in [Slot -> 0..AlertCap]
  BY <1>1
<1>3. \A s \in Slot : [asks[t] EXCEPT ![s] = 0] \in [Slot -> 0..AlertCap]
  BY <1>1
<1> QED
  BY <1>2, <1>3

LEMMA TypeInit == Init => TypeInv
<1> SUFFICES ASSUME Init PROVE TypeInv
  OBVIOUS
<1>1. StoreTypeOK
  BY PriceAssumption DEF Init, StoreInit, StoreTypeOK, Row, NoRow
<1> QED
  BY <1>1, CapAssumption DEF Init, TypeInv, TypeOK, Slot, Holding

LEMMA TypeStep == TypeInv /\ [Next]_vars => TypeInv'
<1> SUFFICES ASSUME TypeInv, [Next]_vars PROVE TypeInv'
  OBVIOUS
<1> USE DEF Holding
<1>1. CASE Tick
  BY <1>1, StoreUnchangedTyped DEF Tick, TypeInv, TypeOK, worker, request, history
<1>2. ASSUME NEW e \in Exchange, ListTrackers(e) PROVE TypeInv'
  BY <1>2, StoreUnchangedTyped DEF ListTrackers, TypeInv, TypeOK, request, history
<1>3. ASSUME NEW e \in Exchange, ListFails(e) PROVE TypeInv'
  BY <1>3, StoreUnchangedTyped DEF ListFails, TypeInv, TypeOK, worker, request, history
<1>4. ASSUME NEW m \in Market, FetchAds(m) PROVE TypeInv'
  BY <1>4, StoreUnchangedTyped DEF FetchAds, TypeInv, TypeOK, request, history
<1>5. ASSUME NEW m \in Market, FetchFails(m) PROVE TypeInv'
  BY <1>5, StoreUnchangedTyped DEF FetchFails, TypeInv, TypeOK, request, history
<1>6. ASSUME NEW m \in Market, WorkerDone(m) PROVE TypeInv'
  BY <1>6, StoreUnchangedTyped DEF WorkerDone, TypeInv, TypeOK, request, history
<1>7. CASE EndRound
  BY <1>7, StoreUnchangedTyped DEF EndRound, TypeInv, TypeOK, worker, request, history
<1>8. ASSUME NEW m \in Market, NEW t \in Tracker, LoadTracker(m, t) PROVE TypeInv'
  BY <1>8, StoreUnchangedTyped, SelectTyped DEF LoadTracker, TypeInv, TypeOK, request, history
<1>9. ASSUME NEW m \in Market, NEW t \in Tracker, SkipTracker(m, t) PROVE TypeInv'
  BY <1>9, StoreUnchangedTyped DEF SkipTracker, TypeInv, TypeOK, request, history
<1>10. ASSUME NEW m \in Market, LoadMethods(m) PROVE TypeInv'
  <2>1. copy[m] \in Copy
    BY <1>10 DEF LoadMethods, TypeInv
  <2>2. WithMethods(copy[m]) \in Copy /\ methods[copy[m].id] \in SUBSET Method
    BY <2>1, WithMethodsTyped DEF TypeInv, TypeOK, StoreTypeOK, Copy
  <2> QED
    BY <1>10, <2>1, <2>2, StoreUnchangedTyped
    DEF LoadMethods, TypeInv, TypeOK, request, history
<1>11. ASSUME NEW m \in Market, LoadMethodsFails(m) PROVE TypeInv'
  BY <1>11, StoreUnchangedTyped
  DEF LoadMethodsFails, Leave, Slot, TypeInv, TypeOK, request, history
<1>12. ASSUME NEW m \in Market, CheckAggregated(m) PROVE TypeInv'
  <2> DEFINE ad == FirstAd(ads[m], copy[m].pms)
  <2>1. /\ pc[m] = "check"
        /\ copy[m] \in Copy
        /\ ads[m] \in Books \cup {<<>>}
        /\ UNCHANGED <<store, round, unlisted, todo, ads, request>>
    BY <1>12 DEF CheckAggregated, TypeInv, TypeOK
  <2>2. CASE Leave(m) /\ UNCHANGED history
    BY <2>1, <2>2, StoreUnchangedTyped
    DEF Leave, Slot, TypeInv, TypeOK, request, history
  <2>3. CASE /\ HasAd(ads[m], copy[m].pms)
             /\ IF copy[m].waiting THEN UNCHANGED asks ELSE Notify(copy[m], Whole)
             /\ copy' = [copy EXCEPT ![m] = Outbidden(@)]
             /\ isOutbid' = [isOutbid EXCEPT ![copy[m].id] = {Whole}]
             /\ pc' = [pc EXCEPT ![m] = "save"]
             /\ UNCHANGED <<left, cur, setting, patched, disturbed>>
    <3>1. asks' \in [Tracker -> [Slot -> 0..AlertCap]]
      BY <2>1, <2>3, NotifyTyped DEF TypeInv, TypeOK, Slot
    <3>2. Outbidden(copy[m]) \in Copy
      BY <2>1, <2>3, VerdictTyped
    <3> QED
      BY <2>1, <2>3, <3>1, <3>2, StoreUnchangedTyped
      DEF TypeInv, TypeOK, Slot, request
  <2>4. CASE /\ HasAd(ads[m], copy[m].pms)
             /\ copy' = [copy EXCEPT ![m] = OnTop(@, ad)]
             /\ isOutbid' = [isOutbid EXCEPT ![copy[m].id] = {}]
             /\ pc' = [pc EXCEPT ![m] = "save"]
             /\ UNCHANGED <<left, cur, asks, setting, patched, disturbed>>
    <3>1. OnTop(copy[m], ad) \in Copy
      BY <2>1, <2>4, VerdictTyped
    <3> QED
      BY <2>1, <2>4, <3>1, StoreUnchangedTyped DEF TypeInv, TypeOK, request
  <2> QED
    BY <1>12, <2>2, <2>3, <2>4 DEF CheckAggregated
<1>13. ASSUME NEW m \in Market, NEW pm \in Method, CheckMethod(m, pm) PROVE TypeInv'
  <2>1. /\ pc[m] = "check"
        /\ copy[m] \in Copy
        /\ left' = [left EXCEPT ![m] = @ \ {pm}]
        /\ UNCHANGED <<store, round, unlisted, todo, ads, copy, request>>
        /\ UNCHANGED <<setting, patched, disturbed>>
    BY <1>13 DEF CheckMethod, TypeInv, TypeOK
  <2>2. CASE UNCHANGED <<pc, cur, isOutbid, asks>>
    BY <2>1, <2>2, StoreUnchangedTyped DEF TypeInv, TypeOK, request
  <2>3. CASE /\ IF pm \in copy[m].flagged THEN UNCHANGED asks ELSE Notify(copy[m], pm)
             /\ isOutbid' = [isOutbid EXCEPT ![copy[m].id] = @ \cup {pm}]
             /\ cur' = [cur EXCEPT ![m] = pm]
             /\ pc' = [pc EXCEPT ![m] = "set"]
    <3>1. asks' \in [Tracker -> [Slot -> 0..AlertCap]]
      BY <2>1, <2>3, NotifyTyped DEF TypeInv, TypeOK, Slot
    <3> QED
      BY <2>1, <2>3, <3>1, StoreUnchangedTyped DEF TypeInv, TypeOK, Slot, request
  <2>4. CASE /\ HasAd(ads[m], {pm})
             /\ isOutbid' = [isOutbid EXCEPT ![copy[m].id] = @ \ {pm}]
             /\ cur' = [cur EXCEPT ![m] = pm]
             /\ pc' = [pc EXCEPT ![m] = "clear"]
             /\ UNCHANGED asks
    BY <2>1, <2>4, StoreUnchangedTyped DEF TypeInv, TypeOK, Slot, request
  <2> QED
    BY <1>13, <2>2, <2>3, <2>4 DEF CheckMethod
<1>14. ASSUME NEW m \in Market, SetOutbid(m) PROVE TypeInv'
  <2>1. copy[m].id \in Tracker
    BY <1>14 DEF SetOutbid, TypeInv, Copy
  <2>2. StoreTypeOK'
    BY <1>14, <2>1, FlagTyped, StoreUnchangedTyped DEF SetOutbid, TypeInv, TypeOK
  <2> QED
    BY <1>14, <2>1, <2>2 DEF SetOutbid, Disturb, TypeInv, TypeOK, Slot, request
<1>15. ASSUME NEW m \in Market, ClearOutbid(m) PROVE TypeInv'
  <2>1. copy[m] \in Copy /\ copy[m].id \in Tracker /\ cur[m] \in Method
    BY <1>15 DEF ClearOutbid, TypeInv, Copy
  <2>2. StoreTypeOK'
    BY <1>15, <2>1, FlagTyped, StoreUnchangedTyped DEF ClearOutbid, TypeInv, TypeOK
  <2>3. [copy[m] EXCEPT !.price = FirstAd(ads[m], {cur[m]}).price] \in Copy
    BY <1>15, <2>1, VerdictTyped DEF ClearOutbid, TypeInv, TypeOK
  <2>4. asks' \in [Tracker -> [Slot -> 0..AlertCap]]
    <3>1. CASE asks' = [asks EXCEPT ![copy[m].id][cur[m]] = 0]
      BY <2>1, <3>1, ResetTyped DEF TypeInv, TypeOK, Slot
    <3>2. CASE UNCHANGED asks
      BY <3>2 DEF TypeInv, TypeOK
    <3> QED
      BY <1>15, <3>1, <3>2 DEF ClearOutbid
  <2> QED
    BY <1>15, <2>1, <2>2, <2>3, <2>4 DEF ClearOutbid, Disturb, TypeInv, TypeOK, request
<1>16. ASSUME NEW m \in Market, SaveTracker(m) PROVE TypeInv'
  <2>1. copy[m] \in Copy /\ copy[m].id \in Tracker
    BY <1>16 DEF SaveTracker, TypeInv, Copy
  <2>2. StoreTypeOK'
    BY <1>16, <2>1, UpdateTyped, StoreUnchangedTyped DEF SaveTracker, TypeInv, TypeOK
  <2>3. asks' \in [Tracker -> [Slot -> 0..AlertCap]]
    <3>1. CASE asks' = [asks EXCEPT ![copy[m].id][Whole] = 0]
      BY <2>1, <3>1, ResetTyped DEF TypeInv, TypeOK, Slot
    <3>2. CASE UNCHANGED asks
      BY <3>2 DEF TypeInv, TypeOK
    <3> QED
      BY <1>16, <3>1, <3>2 DEF SaveTracker
  <2>4. /\ UNCHANGED <<round, unlisted, todo, ads, request, isOutbid, setting, patched>>
        /\ disturbed' \subseteq Tracker
        /\ IF copy[m].id \in Aggregated
             THEN Leave(m)
             ELSE /\ cur' = [cur EXCEPT ![m] = Whole]
                  /\ pc' = [pc EXCEPT ![m] = "check"]
                  /\ UNCHANGED <<copy, left>>
        /\ pc[m] = "save"
    BY <1>16, <2>1 DEF SaveTracker, Disturb, TypeInv, TypeOK
  <2>5. CASE copy[m].id \in Aggregated
    <3>1. /\ pc' = [pc EXCEPT ![m] = "next"]
          /\ copy' = [copy EXCEPT ![m] = NoCopy]
          /\ left' = [left EXCEPT ![m] = {}]
          /\ cur' = [cur EXCEPT ![m] = Whole]
      BY <2>4, <2>5 DEF Leave
    <3>2. TypeOK'
      BY <2>2, <2>3, <2>4, <3>1 DEF TypeInv, TypeOK, Slot, request
    <3> QED
      BY <2>4, <3>1, <3>2 DEF TypeInv, TypeOK, request
  <2>6. CASE copy[m].id \notin Aggregated
    BY <2>2, <2>3, <2>4, <2>6 DEF TypeInv, TypeOK, Slot, request
  <2> QED
    BY <2>5, <2>6
<1>17. ASSUME NEW m \in Market, CheckDone(m) PROVE TypeInv'
  BY <1>17, StoreUnchangedTyped
  DEF CheckDone, Leave, Slot, TypeInv, TypeOK, request, history
<1>18. CASE Crash
  BY <1>18, StoreUnchangedTyped DEF Crash, Disturb, Slot, TypeInv, TypeOK, request
<1>19. CASE Restart
  BY <1>19, StoreUnchangedTyped DEF Restart, TypeInv, TypeOK, worker, request, history
<1>20. ASSUME NEW t \in Tracker, CreateTracker(t) PROVE TypeInv'
  <2>1. StoreTypeOK'
    BY <1>20, InsertTyped DEF CreateTracker, TypeInv, TypeOK
  <2> QED
    BY <1>20, <2>1 DEF CreateTracker, TypeInv, TypeOK, worker, request
<1>21. ASSUME NEW t \in Tracker, DeleteTracker(t) PROVE TypeInv'
  <2>1. StoreTypeOK'
    BY <1>21, DeleteTyped DEF DeleteTracker, TypeInv, TypeOK
  <2>2. asks' \in [Tracker -> [Slot -> 0..AlertCap]]
    BY <1>21, ResetTyped DEF DeleteTracker, TypeInv, TypeOK
  <2> QED
    BY <1>21, <2>1, <2>2 DEF DeleteTracker, TypeInv, TypeOK, worker, request
<1>22. ASSUME NEW r \in Request, NEW t \in Tracker, PatchLoad(r, t) PROVE TypeInv'
  BY <1>22, StoreUnchangedTyped, SelectTyped DEF PatchLoad, TypeInv, TypeOK, worker, history
<1>23. ASSUME NEW r \in Request, PatchMethods(r) PROVE TypeInv'
  <2>1. rcopy[r] \in Copy
    BY <1>23 DEF PatchMethods, TypeInv
  <2>2. \A n \in BOOLEAN : [WithMethods(rcopy[r]) EXCEPT !.notify = n] \in Copy
    BY <2>1, WithMethodsTyped DEF TypeInv, TypeOK, Copy
  <2> QED
    BY <1>23, <2>2, StoreUnchangedTyped DEF PatchMethods, TypeInv, TypeOK, worker, history
<1>24. ASSUME NEW r \in Request, PatchSave(r) PROVE TypeInv'
  <2>1. rcopy[r] \in Copy /\ rcopy[r].notify \in BOOLEAN
    BY <1>24 DEF PatchSave, TypeInv, Copy
  <2>2. StoreTypeOK'
    BY <1>24, <2>1, UpdateTyped DEF PatchSave, TypeInv, TypeOK
  <2> QED
    BY <1>24, <2>1, <2>2 DEF PatchSave, PatchDone, TypeInv, TypeOK, worker
<1>25. ASSUME NEW r \in Request, PatchFails(r) PROVE TypeInv'
  BY <1>25, StoreUnchangedTyped DEF PatchFails, PatchDone, TypeInv, TypeOK, worker, history
<1>26. CASE UNCHANGED vars
  BY <1>26, StoreUnchangedTyped DEF vars, TypeInv, TypeOK, worker, request, history
<1> QED
  BY <1>1, <1>2, <1>3, <1>4, <1>5, <1>6, <1>7, <1>8, <1>9, <1>10, <1>11, <1>12,
     <1>13, <1>14, <1>15, <1>16, <1>17, <1>18, <1>19, <1>20, <1>21, <1>22, <1>23,
     <1>24, <1>25, <1>26
  DEF Next, ObserverStep, UserStep, ListStep, WorkerStep, CheckStep

(* Every variable keeps its type.                                          *)
THEOREM TypeCorrect == Spec => []TypeOK
<1>1. TypeInv => TypeOK
  BY DEF TypeInv
<1> QED
  BY <1>1, TypeInit, TypeStep, PTL DEF Spec

-----------------------------------------------------------------------------
(* Payment methods.  MethodsIntact is not inductive by itself: a Save      *)
(* writes the methods of a copy.  A copy is sound when its tracker exists  *)
(* or has existed and, as long as it exists, has the methods of the copy.  *)
Sound(c) ==
    /\ status[c.id] # "new"
    /\ Live(c.id) => c.pms = PaymentOf[c.id]

IntactInv ==
    /\ MethodsIntact
    /\ \A m \in Market :
         /\ pc[m] \in Holding => status[copy[m].id] # "new"
         /\ pc[m] \in Holding \ {"methods"} => Sound(copy[m])
    /\ \A r \in Request :
         /\ rpc[r] # "idle" => status[rcopy[r].id] # "new"
         /\ rpc[r] = "save" => Sound(rcopy[r])

(* Copies stay sound, whatever is done to the tables: an id that is not    *)
(* new never becomes live.                                                 *)
StaysDead == \A t \in Tracker : status[t] # "new" =>
                /\ status'[t] # "new"
                /\ status'[t] = "live" => status[t] = "live"

LEMMA InsertIntact ==
    ASSUME StoreTypeOK, MethodsIntact, NEW t \in Tracker, NEW n, NEW p, InsertTracker(t, n, p)
    PROVE  MethodsIntact' /\ StaysDead
BY DEF StoreTypeOK, MethodsIntact, Live, InsertTracker, StaysDead

LEMMA UpdateIntact ==
    ASSUME StoreTypeOK, MethodsIntact, NEW c \in Copy, Sound(c), UpdateTracker(c)
    PROVE  MethodsIntact' /\ StaysDead
<1>1. c.id \in Tracker
  BY DEF Copy
<1> QED
  BY <1>1 DEF StoreTypeOK, MethodsIntact, Live, Sound, UpdateTracker, StaysDead, store

LEMMA FlagIntact ==
    ASSUME StoreTypeOK, MethodsIntact, NEW t \in Tracker, NEW pm, NEW b \in BOOLEAN,
           UpdateMethodOutbidded(t, pm, b)
    PROVE  MethodsIntact' /\ StaysDead
BY DEF StoreTypeOK, MethodsIntact, Live, UpdateMethodOutbidded, StaysDead

LEMMA DeleteIntact ==
    ASSUME StoreTypeOK, MethodsIntact, NEW t \in Tracker, DeleteRow(t)
    PROVE  MethodsIntact' /\ StaysDead
BY DEF StoreTypeOK, MethodsIntact, Live, DeleteRow, StaysDead

LEMMA StoreUnchangedIntact ==
    ASSUME MethodsIntact, UNCHANGED store
    PROVE  MethodsIntact' /\ StaysDead
BY DEF MethodsIntact, Live, StaysDead, store

(* A copy that is taken over, up to columns other than its methods, stays  *)
(* sound.                                                                  *)
LEMMA SoundKept ==
    ASSUME NEW c \in Copy, NEW d, StaysDead, d.id = c.id, d.pms = c.pms
    PROVE  /\ Sound(c) => Sound(d)'
           /\ status[c.id] # "new" => (status[d.id] # "new")'
BY DEF Sound, StaysDead, Live, Copy

LEMMA IntactInit == Init => IntactInv
BY DEF Init, StoreInit, IntactInv, MethodsIntact, Live, Holding

(* The steps that leave the tables alone, then those that write them.      *)
LEMMA IntactStep == TypeInv /\ IntactInv /\ [Next]_vars => IntactInv'
<1> SUFFICES ASSUME TypeInv, IntactInv, [Next]_vars PROVE IntactInv'
  OBVIOUS
<1> USE DEF Holding
<1> DEFINE WorkersSound ==
             \A m \in Market :
               /\ pc[m] \in Holding => status[copy[m].id] # "new"
               /\ pc[m] \in Holding \ {"methods"} => Sound(copy[m])
           RequestsSound ==
             \A r \in Request :
               /\ rpc[r] # "idle" => status[rcopy[r].id] # "new"
               /\ rpc[r] = "save" => Sound(rcopy[r])
<1>a. TypeInv'
  BY TypeStep
<1>b. StoreTypeOK /\ MethodsIntact /\ WorkersSound /\ RequestsSound
  BY DEF TypeInv, TypeOK, IntactInv
<1>c. ASSUME StaysDead, UNCHANGED request PROVE RequestsSound'
  <2> SUFFICES ASSUME NEW r \in Request, rpc[r] # "idle"
               PROVE  /\ (status[rcopy[r].id] # "new")'
                      /\ rpc[r] = "save" => Sound(rcopy[r])'
    BY <1>c DEF request
  <2>1. rcopy[r] \in Copy /\ rcopy'[r] = rcopy[r]
    BY <1>c DEF TypeInv, request
  <2> QED
    BY <2>1, <1>b, <1>c, SoundKept
<1>d. ASSUME StaysDead, UNCHANGED <<pc, copy>> PROVE WorkersSound'
  <2> SUFFICES ASSUME NEW m \in Market, pc[m] \in Holding
               PROVE  /\ (status[copy[m].id] # "new")'
                      /\ pc[m] # "methods" => Sound(copy[m])'
    BY <1>d
  <2>1. copy[m] \in Copy /\ copy'[m] = copy[m]
    BY <1>d DEF TypeInv
  <2> QED
    BY <2>1, <1>b, <1>d, SoundKept
<1>e. ASSUME NEW m \in Market, StaysDead,
             \A n \in Market \ {m} : pc'[n] = pc[n] /\ copy'[n] = copy[n],
             pc[m] \in Holding \ {"methods"},
             \/ pc'[m] \notin Holding
             \/ copy'[m].id = copy[m].id /\ copy'[m].pms = copy[m].pms
      PROVE  WorkersSound'
  <2>1. ASSUME NEW n \in Market \ {m}, pc[n] \in Holding
        PROVE  /\ (status[copy[n].id] # "new")'
               /\ pc[n] # "methods" => Sound(copy[n])'
    <3>1. copy[n] \in Copy /\ copy'[n] = copy[n]
      BY <1>e, <2>1 DEF TypeInv
    <3> QED
      BY <3>1, <1>b, <1>e, <2>1, SoundKept
  <2>2. ASSUME pc'[m] \in Holding
        PROVE  (status[copy[m].id] # "new")' /\ Sound(copy[m])'
    <3>1. copy[m] \in Copy
      BY <1>e DEF TypeInv
    <3> QED
      BY <3>1, <1>b, <1>e, <2>2, SoundKept
  <2> QED
    BY <1>e, <2>1, <2>2
<1>f. ASSUME UNCHANGED store PROVE MethodsIntact' /\ StaysDead
  BY <1>b, <1>f, StoreUnchangedIntact
<1>g. ASSUME MethodsIntact', WorkersSound', RequestsSound' PROVE IntactInv'
  BY <1>g DEF IntactInv
<1> HIDE DEF WorkersSound, RequestsSound
<1>1. CASE Tick \/ EndRound \/ Restart \/ \E e \in Exchange : ListFails(e)
  BY <1>1, <1>c, <1>d, <1>f, <1>g DEF Tick, EndRound, Restart, ListFails, worker
<1>2. ASSUME NEW e \in Exchange, ListTrackers(e) PROVE IntactInv'
  <2>1. WorkersSound'
    BY <1>2, <1>b DEF ListTrackers, WorkersSound, TypeInv, TypeOK, Sound, Live, store
  <2> QED
    BY <1>2, <2>1, <1>c, <1>f, <1>g DEF ListTrackers
<1>3. ASSUME NEW m \in Market, FetchAds(m) \/ FetchFails(m) \/ WorkerDone(m)
      PROVE  IntactInv'
  <2>1. WorkersSound'
    BY <1>3, <1>b DEF FetchAds, FetchFails, WorkerDone, WorkersSound,
                      TypeInv, TypeOK, Sound, Live, store
  <2> QED
    BY <1>3, <2>1, <1>c, <1>f, <1>g DEF FetchAds, FetchFails, WorkerDone
<1>4. ASSUME NEW m \in Market, NEW t \in Tracker, LoadTracker(m, t) PROVE IntactInv'
  <2>1. WorkersSound'
    BY <1>4, <1>b, SelectTyped
    DEF LoadTracker, WorkersSound, TypeInv, TypeOK, Sound, Live, store
  <2> QED
    BY <1>4, <2>1, <1>c, <1>f, <1>g DEF LoadTracker
<1>5. ASSUME NEW m \in Market, NEW t \in Tracker, SkipTracker(m, t) PROVE IntactInv'
  BY <1>5, <1>c, <1>d, <1>f, <1>g DEF SkipTracker
<1>6. ASSUME NEW m \in Market, LoadMethods(m) PROVE IntactInv'
  <2>1. copy[m] \in Copy /\ copy[m].id \in Tracker
    BY <1>6 DEF LoadMethods, TypeInv, Copy
  <2>2. copy'[m].id = copy[m].id /\ copy'[m].pms = methods[copy[m].id]
    BY <1>6, <2>1, WithMethodsTyped, <1>b DEF LoadMethods, TypeInv, TypeOK
  <2>3. Sound(copy[m])' /\ (status[copy[m].id] # "new")'
    BY <1>6, <2>1, <2>2, <1>b
    DEF LoadMethods, WorkersSound, Sound, Live, MethodsIntact, store
  <2>4. WorkersSound'
    BY <1>6, <2>3, <1>b
    DEF LoadMethods, WorkersSound, TypeInv, TypeOK, Sound, Live, store
  <2> QED
    BY <1>6, <2>4, <1>c, <1>f, <1>g DEF LoadMethods
<1>7. ASSUME NEW m \in Market, LoadMethodsFails(m) PROVE IntactInv'
  <2>1. WorkersSound'
    BY <1>7, <1>b DEF LoadMethodsFails, Leave, WorkersSound, TypeInv, TypeOK, Sound, Live, store
  <2> QED
    BY <1>7, <2>1, <1>c, <1>f, <1>g DEF LoadMethodsFails
<1>8. ASSUME NEW m \in Market, CheckAggregated(m) PROVE IntactInv'
  <2>1. copy[m] \in Copy /\ pc[m] = "check"
    BY <1>8 DEF CheckAggregated, TypeInv
  <2>2. \/ pc'[m] \notin Holding
        \/ copy'[m].id = copy[m].id /\ copy'[m].pms = copy[m].pms
    <3>1. \A ad : /\ OnTop(copy[m], ad).id = copy[m].id
                  /\ OnTop(copy[m], ad).pms = copy[m].pms
      BY <2>1 DEF OnTop, Copy
    <3>2. Outbidden(copy[m]).id = copy[m].id /\ Outbidden(copy[m]).pms = copy[m].pms
      BY <2>1 DEF Outbidden, Copy
    <3>3. CASE Leave(m)
      BY <3>3 DEF Leave, TypeInv, TypeOK
    <3>4. CASE copy' = [copy EXCEPT ![m] = Outbidden(@)]
      BY <3>2, <3>4 DEF TypeInv, TypeOK
    <3>5. CASE \E ad : copy' = [copy EXCEPT ![m] = OnTop(@, ad)]
      BY <3>1, <3>5 DEF TypeInv, TypeOK
    <3> QED
      BY <1>8, <3>3, <3>4, <3>5 DEF CheckAggregated
  <2>3. \A n \in Market \ {m} : pc'[n] = pc[n] /\ copy'[n] = copy[n]
    BY <1>8 DEF CheckAggregated, Leave, TypeInv, TypeOK
  <2> QED
    BY <1>8, <2>1, <2>2, <2>3, <1>c, <1>e, <1>f, <1>g DEF CheckAggregated
<1>9. ASSUME NEW m \in Market, NEW pm \in Method, CheckMethod(m, pm) PROVE IntactInv'
  <2>1. pc[m] = "check" /\ \A n \in Market \ {m} : pc'[n] = pc[n]
    BY <1>9 DEF CheckMethod, TypeInv, TypeOK
  <2> QED
    BY <1>9, <2>1, <1>c, <1>e, <1>f, <1>g DEF CheckMethod
<1>10. ASSUME NEW m \in Market, SetOutbid(m) PROVE IntactInv'
  <2>1. copy[m].id \in Tracker
    BY <1>10 DEF SetOutbid, TypeInv, Copy
  <2>2. MethodsIntact' /\ StaysDead
    BY <1>10, <2>1, <1>b, <1>f, FlagIntact DEF SetOutbid
  <2>3. pc[m] = "set" /\ \A n \in Market \ {m} : pc'[n] = pc[n]
    BY <1>10 DEF SetOutbid, TypeInv, TypeOK
  <2> QED
    BY <1>10, <2>2, <2>3, <1>c, <1>e, <1>g DEF SetOutbid
<1>11. ASSUME NEW m \in Market, ClearOutbid(m) PROVE IntactInv'
  <2>1. copy[m] \in Copy /\ copy[m].id \in Tracker
    BY <1>11 DEF ClearOutbid, TypeInv, Copy
  <2>2. MethodsIntact' /\ StaysDead
    BY <1>11, <2>1, <1>b, <1>f, FlagIntact DEF ClearOutbid
  <2>3. /\ pc[m] = "clear"
        /\ \A n \in Market \ {m} : pc'[n] = pc[n] /\ copy'[n] = copy[n]
    BY <1>11 DEF ClearOutbid, TypeInv, TypeOK
  <2>4. copy'[m].id = copy[m].id /\ copy'[m].pms = copy[m].pms
    BY <1>11, <2>1 DEF ClearOutbid, TypeInv, TypeOK, Copy
  <2> QED
    BY <1>11, <2>2, <2>3, <2>4, <1>c, <1>e, <1>g DEF ClearOutbid
<1>12. ASSUME NEW m \in Market, SaveTracker(m) PROVE IntactInv'
  <2>1. copy[m] \in Copy /\ Sound(copy[m]) /\ pc[m] = "save"
    BY <1>12, <1>b DEF SaveTracker, TypeInv, WorkersSound
  <2>2. MethodsIntact' /\ StaysDead
    BY <1>12, <2>1, <1>b, <1>f, UpdateIntact DEF SaveTracker
  <2>3. /\ \A n \in Market \ {m} : pc'[n] = pc[n] /\ copy'[n] = copy[n]
        /\ pc'[m] \notin Holding \/ copy'[m] = copy[m]
    BY <1>12 DEF SaveTracker, Leave, TypeInv, TypeOK
  <2> QED
    BY <1>12, <2>1, <2>2, <2>3, <1>c, <1>e, <1>g DEF SaveTracker
<1>13. ASSUME NEW m \in Market, CheckDone(m) PROVE IntactInv'
  <2>1. WorkersSound'
    BY <1>13, <1>b DEF CheckDone, Leave, WorkersSound, TypeInv, TypeOK, Sound, Live, store
  <2> QED
    BY <1>13, <2>1, <1>c, <1>f, <1>g DEF CheckDone
<1>14. CASE Crash
  <2>1. WorkersSound'
    BY <1>14 DEF Crash, WorkersSound
  <2> QED
    BY <1>14, <2>1, <1>c, <1>f, <1>g DEF Crash
<1>15. ASSUME NEW t \in Tracker, CreateTracker(t) PROVE IntactInv'
  <2>1. MethodsIntact' /\ StaysDead
    BY <1>15, <1>b, InsertIntact DEF CreateTracker
  <2> QED
    BY <1>15, <2>1, <1>c, <1>d, <1>g DEF CreateTracker, worker
<1>16. ASSUME NEW t \in Tracker, DeleteTracker(t) PROVE IntactInv'
  <2>1. MethodsIntact' /\ StaysDead
    BY <1>16, <1>b, DeleteIntact DEF DeleteTracker
  <2> QED
    BY <1>16, <2>1, <1>c, <1>d, <1>g DEF DeleteTracker, worker
<1>17. ASSUME NEW r \in Request, NEW t \in Tracker, PatchLoad(r, t) PROVE IntactInv'
  <2>1. RequestsSound'
    BY <1>17, <1>b, SelectTyped
    DEF PatchLoad, RequestsSound, TypeInv, TypeOK, Sound, Live, store
  <2> QED
    BY <1>17, <2>1, <1>d, <1>f, <1>g DEF PatchLoad, worker
<1>18. ASSUME NEW r \in Request, PatchMethods(r) PROVE IntactInv'
  <2>1. rcopy[r] \in Copy /\ rcopy[r].id \in Tracker
    BY <1>18 DEF PatchMethods, TypeInv, Copy
  <2>2. /\ WithMethods(rcopy[r]) \in Copy
        /\ WithMethods(rcopy[r]).id = rcopy[r].id
        /\ WithMethods(rcopy[r]).pms = methods[rcopy[r].id]
    BY <2>1, <1>b, WithMethodsTyped
  <2>3. rcopy'[r].id = rcopy[r].id /\ rcopy'[r].pms = methods[rcopy[r].id]
    BY <1>18, <2>2 DEF PatchMethods, TypeInv, TypeOK, Copy
  <2>4. Sound(rcopy[r])' /\ (status[rcopy[r].id] # "new")'
    BY <1>18, <2>1, <2>3, <1>b
    DEF PatchMethods, RequestsSound, Sound, Live, MethodsIntact, store
  <2>5. RequestsSound'
    BY <1>18, <2>4, <1>b
    DEF PatchMethods, RequestsSound, TypeInv, TypeOK, Sound, Live, store
  <2> QED
    BY <1>18, <2>5, <1>d, <1>f, <1>g DEF PatchMethods, worker
<1>19. ASSUME NEW r \in Request, PatchSave(r) PROVE IntactInv'
  <2>1. rcopy[r] \in Copy /\ Sound(rcopy[r])
    BY <1>19, <1>b DEF PatchSave, TypeInv, RequestsSound
  <2>2. MethodsIntact' /\ StaysDead
    BY <1>19, <2>1, <1>b, UpdateIntact DEF PatchSave
  <2>3. RequestsSound'
    <3> SUFFICES ASSUME NEW q \in Request, q # r, rpc[q] # "idle"
                 PROVE  /\ (status[rcopy[q].id] # "new")'
                        /\ rpc[q] = "save" => Sound(rcopy[q])'
      BY <1>19 DEF PatchSave, PatchDone, RequestsSound, TypeInv, TypeOK
    <3>1. rcopy[q] \in Copy /\ rcopy'[q] = rcopy[q]
      BY <1>19 DEF PatchSave, PatchDone, TypeInv, TypeOK
    <3> QED
      BY <3>1, <2>2, <1>b, SoundKept DEF RequestsSound
  <2> QED
    BY <1>19, <2>2, <2>3, <1>d, <1>g DEF PatchSave, worker
<1>20. ASSUME NEW r \in Request, PatchFails(r) PROVE IntactInv'
  <2>1. RequestsSound'
    BY <1>20, <1>b
    DEF PatchFails, PatchDone, RequestsSound, TypeInv, TypeOK, Sound, Live, store
  <2> QED
    BY <1>20, <2>1, <1>d, <1>f, <1>g DEF PatchFails, worker
<1>21. CASE UNCHANGED vars
  BY <1>21, <1>c, <1>d, <1>f, <1>g DEF vars, worker
<1> QED
  BY <1>1, <1>2, <1>3, <1>4, <1>5, <1>6, <1>7, <1>8, <1>9, <1>10, <1>11, <1>12,
     <1>13, <1>14, <1>15, <1>16, <1>17, <1>18, <1>19, <1>20, <1>21
  DEF Next, ObserverStep, UserStep, ListStep, WorkerStep, CheckStep

(* A live tracker has the methods it was created with, and only a live     *)
(* tracker has any: no order of stale saves and deletes loses or leaves    *)
(* rows of methods.                                                        *)
THEOREM MethodsStayIntact == Spec => []MethodsIntact
<1>1. TypeInv /\ IntactInv => MethodsIntact
  BY DEF IntactInv
<1>2. Init => TypeInv /\ IntactInv
  BY TypeInit, IntactInit
<1>3. TypeInv /\ IntactInv /\ [Next]_vars => (TypeInv /\ IntactInv)'
  BY TypeStep, IntactStep
<1> QED
  BY <1>1, <1>2, <1>3, PTL DEF Spec

-----------------------------------------------------------------------------
(* Rounds.  The wait groups: an exchange is listed while none of its       *)
(* workers runs, none runs between rounds, and a worker has trackers of    *)
(* its own market only.                                                    *)
RoundInv ==
    /\ round # "running" => unlisted = {} /\ \A m \in Market : pc[m] = "idle"
    /\ \A m \in Market : ExchangeOf[m] \in unlisted => pc[m] = "idle"
    /\ \A m \in Market : \A t \in todo[m] : MarketOf[t] = m
    /\ \A m \in Market : pc[m] \in Holding => MarketOf[copy[m].id] = m

LEMMA RoundInit == Init => RoundInv
BY DEF Init, RoundInv, Holding

(* A step of one worker keeps it, when the worker is on its way before the *)
(* step and keeps the tracker it holds.                                    *)
LEMMA RoundStep == TypeInv /\ RoundInv /\ [Next]_vars => RoundInv'
<1> SUFFICES ASSUME TypeInv, RoundInv, [Next]_vars PROVE RoundInv'
  OBVIOUS
<1> USE MarketAssumption DEF Holding
<1>a. ASSUME NEW m \in Market,
             pc[m] # "idle",
             UNCHANGED <<round, unlisted>>,
             \A n \in Market \ {m} : pc'[n] = pc[n] /\ copy'[n] = copy[n],
             \A n \in Market : todo'[n] \subseteq todo[n],
             pc'[m] \in Holding => MarketOf[copy'[m].id] = m
      PROVE  RoundInv'
  BY <1>a DEF RoundInv, TypeInv, TypeOK
<1>b. \A m \in Market : pc[m] \in Holding => MarketOf[copy[m].id] = m
  BY DEF RoundInv
<1>c. ASSUME UNCHANGED <<round, unlisted, worker>> PROVE RoundInv'
  BY <1>c DEF worker, RoundInv
<1>1. CASE Tick \/ EndRound \/ Restart \/ \E e \in Exchange : ListFails(e)
  BY <1>1 DEF Tick, EndRound, Restart, ListFails, RoundInv, TypeInv, TypeOK, worker
<1>2. ASSUME NEW e \in Exchange, ListTrackers(e) PROVE RoundInv'
  BY <1>2 DEF ListTrackers, RoundInv, TypeInv, TypeOK
<1>3. ASSUME NEW m \in Market, FetchAds(m) \/ FetchFails(m) \/ WorkerDone(m)
      PROVE  RoundInv'
  BY <1>3, <1>a DEF FetchAds, FetchFails, WorkerDone, TypeInv, TypeOK
<1>4. ASSUME NEW m \in Market, NEW t \in Tracker, LoadTracker(m, t) PROVE RoundInv'
  <2>1. copy'[m].id = t /\ MarketOf[t] = m
    BY <1>4, SelectTyped DEF LoadTracker, RoundInv, TypeInv, TypeOK
  <2> QED
    BY <1>4, <2>1, <1>a DEF LoadTracker, TypeInv, TypeOK
<1>5. ASSUME NEW m \in Market, NEW t \in Tracker, SkipTracker(m, t) PROVE RoundInv'
  BY <1>5, <1>a, <1>b DEF SkipTracker, TypeInv, TypeOK
<1>6. ASSUME NEW m \in Market, LoadMethods(m) PROVE RoundInv'
  <2>1. copy'[m].id = copy[m].id
    BY <1>6, WithMethodsTyped DEF LoadMethods, TypeInv, TypeOK
  <2> QED
    BY <1>6, <2>1, <1>a, <1>b DEF LoadMethods, TypeInv, TypeOK
<1>7. ASSUME NEW m \in Market, LoadMethodsFails(m) \/ CheckDone(m) PROVE RoundInv'
  BY <1>7, <1>a DEF LoadMethodsFails, CheckDone, Leave, TypeInv, TypeOK
<1>8. ASSUME NEW m \in Market, CheckAggregated(m) PROVE RoundInv'
  <2>1. copy[m] \in Copy /\ pc[m] = "check"
    BY <1>8 DEF CheckAggregated, TypeInv
  <2>2. \/ pc'[m] \notin Holding
        \/ copy'[m].id = copy[m].id
    <3>1. /\ Outbidden(copy[m]).id = copy[m].id
          /\ \A ad : OnTop(copy[m], ad).id = copy[m].id
      BY <2>1 DEF Outbidden, OnTop, Copy
    <3>2. CASE Leave(m)
      BY <3>2 DEF Leave, TypeInv, TypeOK
    <3>3. CASE \/ copy' = [copy EXCEPT ![m] = Outbidden(@)]
               \/ \E ad : copy' = [copy EXCEPT ![m] = OnTop(@, ad)]
      BY <3>1, <3>3 DEF TypeInv, TypeOK
    <3> QED
      BY <1>8, <3>2, <3>3 DEF CheckAggregated
  <2>3. \A n \in Market \ {m} : pc'[n] = pc[n] /\ copy'[n] = copy[n]
    BY <1>8 DEF CheckAggregated, Leave, TypeInv, TypeOK
  <2> QED
    BY <1>8, <2>1, <2>2, <2>3, <1>a, <1>b DEF CheckAggregated
<1>9. ASSUME NEW m \in Market, NEW pm \in Method, CheckMethod(m, pm) PROVE RoundInv'
  <2>1. pc[m] = "check" /\ \A n \in Market \ {m} : pc'[n] = pc[n]
    BY <1>9 DEF CheckMethod, TypeInv, TypeOK
  <2> QED
    BY <1>9, <2>1, <1>a, <1>b DEF CheckMethod
<1>10. ASSUME NEW m \in Market, SetOutbid(m) \/ ClearOutbid(m) PROVE RoundInv'
  <2>1. copy[m] \in Copy
    BY <1>10 DEF SetOutbid, ClearOutbid, TypeInv
  <2>2. copy'[m].id = copy[m].id
    <3>1. \A p : [copy[m] EXCEPT !.price = p].id = copy[m].id
      BY <2>1 DEF Copy
    <3>2. CASE UNCHANGED copy
      BY <3>2
    <3>3. CASE \E p : copy' = [copy EXCEPT ![m] = [@ EXCEPT !.price = p]]
      BY <3>1, <3>3 DEF TypeInv, TypeOK
    <3>4. CASE ClearOutbid(m)
      BY <3>3, <3>4 DEF ClearOutbid
    <3> QED
      BY <1>10, <3>2, <3>4 DEF SetOutbid
  <2>3. /\ pc[m] \in {"set", "clear"}
        /\ \A n \in Market \ {m} : pc'[n] = pc[n] /\ copy'[n] = copy[n]
    BY <1>10 DEF SetOutbid, ClearOutbid, TypeInv, TypeOK
  <2> QED
    BY <1>10, <2>2, <2>3, <1>a, <1>b DEF SetOutbid, ClearOutbid
<1>11. ASSUME NEW m \in Market, SaveTracker(m) PROVE RoundInv'
  <2>1. /\ pc[m] = "save"
        /\ \A n \in Market \ {m} : pc'[n] = pc[n] /\ copy'[n] = copy[n]
        /\ pc'[m] \notin Holding \/ copy'[m] = copy[m]
    BY <1>11 DEF SaveTracker, Leave, TypeInv, TypeOK
  <2> QED
    BY <1>11, <2>1, <1>a, <1>b DEF SaveTracker
<1>12. CASE Crash
  BY <1>12 DEF Crash, RoundInv
<1>13. CASE UserStep \/ UNCHANGED vars
  BY <1>13, <1>c DEF UserStep, CreateTracker, DeleteTracker, PatchLoad, PatchMethods,
                     PatchSave, PatchFails, vars
<1> QED
  BY <1>1, <1>2, <1>3, <1>4, <1>5, <1>6, <1>7, <1>8, <1>9, <1>10, <1>11, <1>12, <1>13
  DEF Next, ObserverStep, ListStep, WorkerStep, CheckStep

-----------------------------------------------------------------------------
(* Flags.  A worker about to set a flag of a live tracker has the verdict  *)
(* on its side.                                                            *)
FlagInv ==
    /\ MethodFlagTruthful
    /\ \A m \in Market : pc[m] = "set" =>
         /\ copy[m].id \notin Aggregated
         /\ Live(copy[m].id) => cur[m] \in isOutbid[copy[m].id]

(* MethodFlagTruthful of one tracker.                                      *)
TruthfulAt(t) ==
    \A pm \in outbidded[t] : pm \in isOutbid[t] \/ (At(t, "clear") /\ cur[MarketOf[t]] = pm)

LEMMA FlagInit == Init => FlagInv
BY DEF Init, StoreInit, FlagInv, MethodFlagTruthful

LEMMA FlagStep ==
    TypeInv /\ IntactInv /\ RoundInv /\ FlagInv /\ [Next]_vars => FlagInv'
<1> SUFFICES ASSUME TypeInv, IntactInv, RoundInv, FlagInv, [Next]_vars PROVE FlagInv'
  OBVIOUS
<1> USE MarketAssumption DEF Holding
<1> DEFINE SetRight(m) == /\ copy[m].id \notin Aggregated
                          /\ Live(copy[m].id) => cur[m] \in isOutbid[copy[m].id]
<1>a. ASSUME \A t \in Tracker \ (Aggregated \cup disturbed') : TruthfulAt(t)',
             \A m \in Market : pc'[m] = "set" => SetRight(m)'
      PROVE  FlagInv'
  BY <1>a DEF FlagInv, MethodFlagTruthful, TruthfulAt, At
<1>b. /\ \A t \in Tracker \ (Aggregated \cup disturbed) : TruthfulAt(t)
      /\ \A m \in Market : pc[m] = "set" => SetRight(m)
      /\ \A m \in Market : pc[m] \in Holding => /\ copy[m] \in Copy
                                               /\ copy[m].id \in Tracker
                                               /\ MarketOf[copy[m].id] = m
  BY DEF FlagInv, MethodFlagTruthful, TruthfulAt, RoundInv, TypeInv, Copy, At
\* A step that leaves tables, verdicts and what is being cleared alone.
<1>c. ASSUME UNCHANGED <<status, outbidded, isOutbid, disturbed>>,
             \A m \in Market : pc[m] \in {"set", "clear"} \/ pc'[m] \in {"set", "clear"} =>
                pc'[m] = pc[m] /\ copy'[m] = copy[m] /\ cur'[m] = cur[m]
      PROVE  FlagInv'
  <2>1. ASSUME NEW t \in Tracker \ (Aggregated \cup disturbed') PROVE TruthfulAt(t)'
    BY <1>b, <1>c DEF TruthfulAt, At
  <2>2. ASSUME NEW m \in Market, pc'[m] = "set" PROVE SetRight(m)'
    BY <1>b, <1>c, <2>2 DEF Live
  <2> QED
    BY <1>a, <2>1, <2>2
<1> HIDE DEF SetRight
<1>1. CASE Tick \/ EndRound \/ Restart \/ \E e \in Exchange : ListFails(e)
  BY <1>1, <1>c DEF Tick, EndRound, Restart, ListFails, store, worker, history
<1>2. ASSUME NEW e \in Exchange, ListTrackers(e) PROVE FlagInv'
  BY <1>2, <1>c DEF ListTrackers, RoundInv, TypeInv, TypeOK, store, history
<1>3. ASSUME NEW m \in Market, \/ FetchAds(m) \/ FetchFails(m) \/ WorkerDone(m)
                               \/ LoadMethods(m) \/ LoadMethodsFails(m) \/ CheckDone(m)
                               \/ \E t \in Tracker : LoadTracker(m, t) \/ SkipTracker(m, t)
      PROVE  FlagInv'
  BY <1>3, <1>c
  DEF FetchAds, FetchFails, WorkerDone, LoadMethods, LoadMethodsFails, CheckDone,
      LoadTracker, SkipTracker, Leave, TypeInv, TypeOK, store, history
<1>4. ASSUME NEW m \in Market, CheckAggregated(m) PROVE FlagInv'
  <2>1. /\ UNCHANGED <<status, outbidded, disturbed>>
        /\ copy[m].id \in Aggregated
        /\ \A t \in Tracker \ Aggregated : isOutbid'[t] = isOutbid[t]
        /\ pc[m] = "check" /\ pc'[m] \in {"next", "save"}
        /\ \A n \in Market \ {m} : pc'[n] = pc[n] /\ copy'[n] = copy[n] /\ cur'[n] = cur[n]
    BY <1>4 DEF CheckAggregated, Leave, TypeInv, TypeOK, store, history
  <2>2. ASSUME NEW t \in Tracker \ (Aggregated \cup disturbed') PROVE TruthfulAt(t)'
    BY <1>b, <2>1 DEF TruthfulAt, At
  <2>3. ASSUME NEW n \in Market, pc'[n] = "set" PROVE SetRight(n)'
    BY <1>b, <2>1, <2>3 DEF SetRight, Live
  <2> QED
    BY <1>a, <2>2, <2>3
<1>5. ASSUME NEW m \in Market, NEW pm \in Method, CheckMethod(m, pm) PROVE FlagInv'
  <2> DEFINE u == copy[m].id
  <2>1. /\ UNCHANGED <<status, outbidded, copy, disturbed>>
        /\ u \in Tracker \ Aggregated /\ MarketOf[u] = m /\ copy[m] # NoCopy
        /\ \A t \in Tracker \ {u} : isOutbid'[t] = isOutbid[t]
        /\ pc[m] = "check"
        /\ \A n \in Market \ {m} : pc'[n] = pc[n] /\ cur'[n] = cur[n]
    BY <1>5, <1>b DEF CheckMethod, TypeInv, TypeOK, store, history
  <2>2. \/ pc'[m] = "check" /\ isOutbid'[u] = isOutbid[u]
        \/ pc'[m] = "set" /\ cur'[m] = pm /\ isOutbid'[u] = isOutbid[u] \cup {pm}
        \/ pc'[m] = "clear" /\ cur'[m] = pm /\ isOutbid'[u] = isOutbid[u] \ {pm}
    BY <1>5, <2>1 DEF CheckMethod, TypeInv, TypeOK
  <2>3. ASSUME NEW t \in Tracker \ (Aggregated \cup disturbed') PROVE TruthfulAt(t)'
    <3>1. CASE t = u
      BY <3>1, <1>b, <2>1, <2>2 DEF TruthfulAt, At
    <3>2. CASE t # u
      BY <3>2, <1>b, <2>1 DEF TruthfulAt, At
    <3> QED
      BY <3>1, <3>2
  <2>4. ASSUME NEW n \in Market, pc'[n] = "set" PROVE SetRight(n)'
    <3>1. CASE n = m
      BY <3>1, <2>4, <2>1, <2>2 DEF SetRight
    <3>2. CASE n # m
      BY <3>2, <1>b, <2>4, <2>1 DEF SetRight, Live
    <3> QED
      BY <3>1, <3>2
  <2> QED
    BY <1>a, <2>3, <2>4
<1>6. ASSUME NEW m \in Market, SetOutbid(m) PROVE FlagInv'
  <2> DEFINE u == copy[m].id
  <2>1. /\ UpdateMethodOutbidded(u, cur[m], TRUE) \/ UNCHANGED store
        /\ UNCHANGED <<copy, isOutbid>>
        /\ disturbed \subseteq disturbed'
        /\ u \in Tracker
        /\ pc[m] = "set" /\ pc'[m] = "check"
        /\ \A n \in Market \ {m} : pc'[n] = pc[n] /\ cur'[n] = cur[n]
    BY <1>6, <1>b DEF SetOutbid, Disturb, TypeInv, TypeOK
  <2>2. /\ status' = status
        /\ \A t \in Tracker \ {u} : outbidded'[t] = outbidded[t]
        /\ outbidded'[u] \subseteq outbidded[u] \cup ({cur[m]} \cap methods[u])
    BY <2>1 DEF UpdateMethodOutbidded, TypeInv, TypeOK, StoreTypeOK, store
  <2>3. ~Live(u) => methods[u] = {}
    BY <2>1 DEF IntactInv, MethodsIntact
  <2>4. ASSUME NEW t \in Tracker \ (Aggregated \cup disturbed') PROVE TruthfulAt(t)'
    <3>1. CASE t = u
      <4>1. MarketOf[t] = m
        BY <3>1, <2>1, <1>b
      <4> QED
        BY <3>1, <4>1, <1>b, <2>1, <2>2, <2>3 DEF TruthfulAt, At, SetRight
    <3>2. CASE t # u
      BY <3>2, <1>b, <2>1, <2>2 DEF TruthfulAt, At
    <3> QED
      BY <3>1, <3>2
  <2>5. ASSUME NEW n \in Market, pc'[n] = "set" PROVE SetRight(n)'
    BY <1>b, <2>1, <2>2, <2>5 DEF SetRight, Live
  <2> QED
    BY <1>a, <2>4, <2>5
<1>7. ASSUME NEW m \in Market, ClearOutbid(m) PROVE FlagInv'
  <2> DEFINE u == copy[m].id
  <2>1. /\ \/ UpdateMethodOutbidded(u, cur[m], FALSE)
           \/ UNCHANGED store /\ (Live(u) => u \in disturbed')
        /\ UNCHANGED <<cur, isOutbid>>
        /\ disturbed \subseteq disturbed'
        /\ u \in Tracker
        /\ pc[m] = "clear" /\ pc'[m] = "save"
        /\ \A n \in Market \ {m} : pc'[n] = pc[n] /\ copy'[n] = copy[n]
    BY <1>7, <1>b DEF ClearOutbid, Disturb, TypeInv, TypeOK
  <2>2. /\ status' = status
        /\ \A t \in Tracker \ {u} : outbidded'[t] = outbidded[t]
        /\ u \notin disturbed' => outbidded'[u] = outbidded[u] \ {cur[m]}
    <3>1. ~Live(u) => outbidded[u] = {}
      BY <2>1 DEF IntactInv, MethodsIntact
    <3> QED
      BY <2>1, <3>1 DEF UpdateMethodOutbidded, TypeInv, TypeOK, StoreTypeOK, store
  <2>3. ASSUME NEW t \in Tracker \ (Aggregated \cup disturbed') PROVE TruthfulAt(t)'
    <3>1. CASE t = u
      <4>1. MarketOf[t] = m
        BY <3>1, <2>1, <1>b
      <4> QED
        BY <3>1, <4>1, <1>b, <2>1, <2>2 DEF TruthfulAt, At
    <3>2. CASE t # u
      BY <3>2, <1>b, <2>1, <2>2 DEF TruthfulAt, At
    <3> QED
      BY <3>1, <3>2
  <2>4. ASSUME NEW n \in Market, pc'[n] = "set" PROVE SetRight(n)'
    BY <1>b, <2>1, <2>2, <2>4 DEF SetRight, Live
  <2> QED
    BY <1>a, <2>3, <2>4
\* A Save or DELETE of a tracker only takes flags away.
<1>d. ASSUME UNCHANGED <<pc, copy, cur>>,
             \A t \in Tracker : \/ /\ outbidded'[t] \subseteq outbidded[t]
                                   /\ isOutbid'[t] = isOutbid[t]
                                   /\ Live(t)' => Live(t)
                                \/ outbidded'[t] = {} /\ ~Live(t)'
                                \/ outbidded'[t] = {} /\ status[t] = "new",
             \A t \in disturbed \ disturbed' : outbidded'[t] = {}
      PROVE  FlagInv'
  <2>1. ASSUME NEW t \in Tracker \ (Aggregated \cup disturbed') PROVE TruthfulAt(t)'
    BY <1>b, <1>d DEF TruthfulAt, At
  <2>2. ASSUME NEW m \in Market, pc'[m] = "set" PROVE SetRight(m)'
    <3>1. status[copy[m].id] # "new" /\ copy[m].id \in Tracker
      BY <1>b, <1>d, <2>2 DEF IntactInv
    <3> QED
      BY <3>1, <1>b, <1>d, <2>2 DEF SetRight
  <2> QED
    BY <1>a, <2>1, <2>2
<1>8. ASSUME NEW m \in Market, SaveTracker(m) PROVE FlagInv'
  <2> DEFINE u == copy[m].id
  <2>1. /\ UNCHANGED isOutbid
        /\ disturbed \subseteq disturbed'
        /\ u \in Tracker
        /\ pc[m] = "save" /\ pc'[m] \in {"next", "check"}
        /\ \A n \in Market \ {m} : pc'[n] = pc[n] /\ copy'[n] = copy[n] /\ cur'[n] = cur[n]
    BY <1>8, <1>b DEF SaveTracker, Leave, Disturb, TypeInv, TypeOK
  <2>2. /\ status' = status
        /\ \A t \in Tracker : outbidded'[t] \subseteq outbidded[t]
    BY <1>8, <2>1 DEF SaveTracker, UpdateTracker, TypeInv, TypeOK, StoreTypeOK, store
  <2>3. ASSUME NEW t \in Tracker \ (Aggregated \cup disturbed') PROVE TruthfulAt(t)'
    BY <1>b, <2>1, <2>2 DEF TruthfulAt, At
  <2>4. ASSUME NEW n \in Market, pc'[n] = "set" PROVE SetRight(n)'
    BY <1>b, <2>1, <2>2, <2>4 DEF SetRight, Live
  <2> QED
    BY <1>a, <2>3, <2>4
<1>9. ASSUME NEW t \in Tracker, CreateTracker(t) PROVE FlagInv'
  BY <1>9, <1>d DEF CreateTracker, InsertTracker, Live, TypeInv, TypeOK, StoreTypeOK, worker
<1>10. ASSUME NEW t \in Tracker, DeleteTracker(t) PROVE FlagInv'
  BY <1>10, <1>d DEF DeleteTracker, DeleteRow, Live, TypeInv, TypeOK, StoreTypeOK, worker
<1>11. ASSUME NEW r \in Request, PatchSave(r) PROVE FlagInv'
  <2>1. rcopy[r].id \in Tracker
    BY <1>11 DEF PatchSave, TypeInv, Copy
  <2>2. /\ status' = status
        /\ \A t \in Tracker : outbidded'[t] \subseteq outbidded[t]
    BY <1>11, <2>1 DEF PatchSave, UpdateTracker, TypeInv, TypeOK, StoreTypeOK, store
  <2> QED
    BY <1>11, <2>2, <1>d DEF PatchSave, Live, worker
<1>12. ASSUME NEW r \in Request,
             \/ PatchMethods(r) \/ PatchFails(r) \/ \E t \in Tracker : PatchLoad(r, t)
      PROVE  FlagInv'
  BY <1>12, <1>c DEF PatchMethods, PatchFails, PatchLoad, store, worker, history
<1>13. CASE UNCHANGED vars
  BY <1>13, <1>c DEF vars, store, worker, history
<1>14. CASE Crash
  <2>1. /\ UNCHANGED <<store, isOutbid>>
        /\ \A m \in Market : pc'[m] = "idle"
        /\ disturbed \subseteq disturbed'
        /\ \A t \in Tracker : At(t, "clear") /\ Live(t) => t \in disturbed'
    BY <1>14 DEF Crash, Disturb
  <2>2. ASSUME NEW t \in Tracker \ (Aggregated \cup disturbed') PROVE TruthfulAt(t)'
    <3>1. ~Live(t) => outbidded[t] = {}
      BY DEF IntactInv, MethodsIntact
    <3>2. outbidded' = outbidded
      BY <2>1 DEF store
    <3> QED
      BY <1>b, <2>1, <2>2, <3>1, <3>2 DEF TruthfulAt
  <2> QED
    BY <1>a, <2>1, <2>2
<1> QED
  BY <1>1, <1>2, <1>3, <1>4, <1>5, <1>6, <1>7, <1>8, <1>9, <1>10, <1>11, <1>12,
     <1>13, <1>14
  DEF Next, ObserverStep, UserStep, ListStep, WorkerStep, CheckStep

(* Whatever fails and wherever the observer stops, and whatever PATCH      *)
(* requests save in between: an outbidded flag, which keeps the next alert *)
(* back, is backed by the last verdict on its method, unless a verdict on  *)
(* its tracker could not be written.                                       *)
THEOREM FlagsStayTruthful == Spec => []MethodFlagTruthful
<1> DEFINE Inv == TypeInv /\ IntactInv /\ RoundInv /\ FlagInv
<1>1. Inv => MethodFlagTruthful
  BY DEF FlagInv
<1>2. Init => Inv
  BY TypeInit, IntactInit, RoundInit, FlagInit
<1>3. Inv /\ [Next]_vars => Inv'
  BY TypeStep, IntactStep, RoundStep, FlagStep
<1> HIDE DEF Inv
<1> QED
  BY <1>1, <1>2, <1>3, PTL DEF Spec

-----------------------------------------------------------------------------
(* The calls of Notify.                                                    *)

(* Only tracker u, and the worker m, may change in this step.              *)
Elsewhere(m, u) ==
    /\ \A t \in Tracker \ {u} : /\ status'[t] = status[t] /\ row'[t] = row[t]
                                /\ outbidded'[t] = outbidded[t]
                                /\ asks'[t] = asks[t] /\ isOutbid'[t] = isOutbid[t]
    /\ \A n \in Market \ {m} : /\ pc'[n] = pc[n] /\ copy'[n] = copy[n]
                               /\ left'[n] = left[n] /\ cur'[n] = cur[n]

(* Nothing changes but that workers drop what they hold, and a verdict     *)
(* that is still to be written only when the observer stops.               *)
Quiet ==
    /\ UNCHANGED <<store, asks, isOutbid>>
    /\ \A m \in Market : pc'[m] \in Holding =>
         /\ pc'[m] = pc[m] /\ copy'[m] = copy[m]
         /\ left'[m] = left[m] /\ cur'[m] = cur[m]
    /\ \A m \in Market : pc[m] \in {"set", "clear", "save"} => pc'[m] = pc[m] \/ Crashes

LEMMA QuietSteps ==
    ASSUME TypeInv, RoundInv,
           \/ Tick \/ EndRound \/ Restart \/ Crash \/ UNCHANGED vars
           \/ \E e \in Exchange : ListTrackers(e) \/ ListFails(e)
           \/ \E m \in Market : \/ FetchAds(m) \/ FetchFails(m) \/ WorkerDone(m)
                                \/ LoadMethodsFails(m) \/ CheckDone(m)
                                \/ \E t \in Tracker : SkipTracker(m, t)
    PROVE  Quiet
<1> USE DEF Quiet, Holding
<1>1. CASE Tick \/ EndRound \/ Restart \/ UNCHANGED vars
  BY <1>1 DEF Tick, EndRound, Restart, vars, worker, history, store
<1>6. CASE Crash
  BY <1>6 DEF Crash, history, store, TypeInv, TypeOK
<1>2. ASSUME NEW e \in Exchange, ListTrackers(e) \/ ListFails(e) PROVE Quiet
  BY <1>2 DEF ListTrackers, ListFails, worker, history, store, RoundInv, TypeInv, TypeOK
<1>3. ASSUME NEW m \in Market, FetchAds(m) \/ FetchFails(m) \/ WorkerDone(m)
      PROVE  Quiet
  BY <1>3 DEF FetchAds, FetchFails, WorkerDone, history, store, TypeInv, TypeOK
<1>4. ASSUME NEW m \in Market, LoadMethodsFails(m) \/ CheckDone(m) PROVE Quiet
  BY <1>4 DEF LoadMethodsFails, CheckDone, Leave, history, store, TypeInv, TypeOK
<1>5. ASSUME NEW m \in Market, NEW t \in Tracker, SkipTracker(m, t) PROVE Quiet
  BY <1>5 DEF SkipTracker, history, store, TypeInv, TypeOK
<1> QED
  BY <1>1, <1>2, <1>3, <1>4, <1>5, <1>6

(* A worker that holds a tracker holds one of its market, as it was loaded *)
(* some time after it was created.                                         *)
LEMMA Held ==
    ASSUME TypeInv, IntactInv, RoundInv, NEW m \in Market, pc[m] \in Holding
    PROVE  /\ copy[m] \in Copy /\ copy[m].id \in Tracker
           /\ MarketOf[copy[m].id] = m
           /\ status[copy[m].id] # "new"
BY DEF TypeInv, IntactInv, RoundInv, Copy

(* A call of Notify is counted when the copy has notifications on.         *)
LEMMA NotifyTells ==
    ASSUME TypeOK, NEW c \in Copy, NEW s \in Slot, Notify(c, s)
    PROVE  /\ \A t \in Tracker \ {c.id} : asks'[t] = asks[t]
           /\ \A x \in Slot \ {s} : asks'[c.id][x] = asks[c.id][x]
           /\ asks'[c.id][s] >= asks[c.id][s]
           /\ asks[c.id][s] = 0 => asks'[c.id][s] <= 1
           /\ c.notify => asks'[c.id][s] >= 1
<1>1. c.id \in Tracker /\ asks \in [Tracker -> [Slot -> 0..AlertCap]]
  BY DEF TypeOK, Copy
<1>2. /\ asks'[c.id][s] = IF c.notify /\ asks[c.id][s] < AlertCap
                            THEN asks[c.id][s] + 1 ELSE asks[c.id][s]
      /\ asks[c.id][s] \in 0..AlertCap
  BY <1>1 DEF Notify
<1>3. /\ \A t \in Tracker \ {c.id} : asks'[t] = asks[t]
      /\ \A x \in Slot \ {s} : asks'[c.id][x] = asks[c.id][x]
  BY <1>1 DEF Notify
<1> QED
  BY <1>2, <1>3, CapAssumption

-----------------------------------------------------------------------------
(* No call is missed.  A flag in the tables, in a copy that is still to    *)
(* be looked at, or about to be written, was preceded by a call, as was    *)
(* the verdict "outbid"; a copy knows whether there are to be any.         *)
Remembered(t) ==
    /\ status[t] = "new" => isOutbid[t] = {}
    /\ Live(t) /\ row[t].notify => \A s \in Flags(t) \cup isOutbid[t] : asks[t][s] >= 1

ToldAt(m) ==
    LET c == copy[m]  t == copy[m].id IN
    /\ pc[m] \in {"set", "clear"} => t \notin Aggregated
    /\ pc[m] = "clear" => cur[m] \notin left[m] /\ cur[m] \notin isOutbid[t]
    /\ Live(t) =>
         /\ c.notify = row[t].notify
         /\ t \in Aggregated /\ pc[m] = "save" /\ isOutbid[t] = {} => ~c.waiting
         /\ c.notify =>
              /\ t \in Aggregated /\ c.waiting => asks[t][Whole] >= 1
              /\ t \notin Aggregated => \A s \in c.flagged \cap left[m] : asks[t][s] >= 1
              /\ pc[m] = "set" => asks[t][cur[m]] >= 1

ToldInv ==
    /\ \A t \in Tracker : Remembered(t)
    /\ \A m \in Market : pc[m] \in Holding => ToldAt(m)

LEMMA ToldInit == Init => ToldInv
BY DEF Init, StoreInit, ToldInv, Remembered, Live, Holding

LEMMA ToldQuiet ==
    ASSUME ToldInv, Quiet PROVE ToldInv'
<1>1. ASSUME NEW t \in Tracker PROVE Remembered(t)'
  BY DEF ToldInv, Quiet, Remembered, Live, Flags, store
<1>2. ASSUME NEW m \in Market, pc'[m] \in Holding PROVE ToldAt(m)'
  BY <1>2 DEF ToldInv, Quiet, ToldAt, Live, store
<1> QED
  BY <1>1, <1>2 DEF ToldInv

LEMMA ToldElsewhere ==
    ASSUME TypeInv, IntactInv, RoundInv, ToldInv,
           NEW m \in Market, NEW u \in Tracker, MarketOf[u] = m, Elsewhere(m, u),
           Remembered(u)', pc'[m] \in Holding => ToldAt(m)'
    PROVE  ToldInv'
<1>1. ASSUME NEW t \in Tracker PROVE Remembered(t)'
  BY DEF ToldInv, Elsewhere, Remembered, Live, Flags
<1>2. ASSUME NEW n \in Market, pc'[n] \in Holding PROVE ToldAt(n)'
  <2>1. CASE n = m
    BY <1>2, <2>1
  <2>2. CASE n # m
    <3>1. pc[n] \in Holding /\ UNCHANGED <<pc[n], copy[n], left[n], cur[n]>>
      BY <1>2, <2>2 DEF Elsewhere
    <3>2. copy[n].id \in Tracker \ {u}
      BY <2>2, <3>1, Held
    <3> QED
      BY <3>1, <3>2 DEF ToldInv, Elsewhere, ToldAt, Live
  <2> QED
    BY <2>1, <2>2
<1> QED
  BY <1>1, <1>2 DEF ToldInv

LEMMA ToldStep ==
    ASSUME Request = {}
    PROVE  TypeInv /\ IntactInv /\ RoundInv /\ ToldInv /\ [Next]_vars => ToldInv'
<1> SUFFICES ASSUME TypeInv, IntactInv, RoundInv, ToldInv, [Next]_vars PROVE ToldInv'
  OBVIOUS
<1> USE DEF Holding
<1>a. TypeInv'
  BY TypeStep
<1>b. /\ \A t \in Tracker : Remembered(t)
      /\ \A m \in Market : pc[m] \in Holding => ToldAt(m)
  BY DEF ToldInv
<1>1. CASE Quiet
  BY <1>1, ToldQuiet
<1>2. ASSUME NEW m \in Market, NEW t \in Tracker, LoadTracker(m, t) PROVE ToldInv'
  <2>1. /\ UNCHANGED <<status, row, methods, outbidded, asks, isOutbid>>
        /\ pc'[m] = "methods" /\ copy'[m] = SelectTracker(t)
        /\ Elsewhere(m, t)
    BY <1>2 DEF LoadTracker, Elsewhere, store, history, TypeInv, TypeOK
  <2>2. MarketOf[t] = m
    BY <1>2 DEF LoadTracker, RoundInv
  <2>3. Remembered(t)'
    BY <1>b, <2>1 DEF Remembered, Live, Flags
  <2>4. /\ copy'[m].id = t /\ copy'[m].notify = row[t].notify
        /\ copy'[m].waiting = row[t].waiting /\ copy'[m].flagged = {}
    BY <2>1 DEF SelectTracker
  <2>5. ToldAt(m)'
    BY <1>b, <2>1, <2>4 DEF ToldAt, Remembered, Live, Flags
  <2> QED
    BY <2>1, <2>2, <2>3, <2>5, ToldElsewhere
<1>3. ASSUME NEW m \in Market, LoadMethods(m) PROVE ToldInv'
  <2>0. PICK u \in Tracker : u = copy[m].id
    BY <1>3, Held DEF LoadMethods
  <2>1. /\ copy[m] \in Copy /\ u = copy[m].id /\ MarketOf[u] = m
        /\ pc[m] = "methods" /\ ToldAt(m)
    BY <1>3, <2>0, <1>b, Held DEF LoadMethods
  <2>2. /\ UNCHANGED <<status, row, methods, outbidded, asks, isOutbid>>
        /\ pc'[m] = "check" /\ copy'[m] = WithMethods(copy[m])
        /\ Elsewhere(m, u)
    BY <1>3, <2>1 DEF LoadMethods, Elsewhere, store, history, TypeInv, TypeOK
  <2>3. Remembered(u)'
    BY <1>b, <2>1, <2>2 DEF Remembered, Live, Flags
  <2>4. /\ copy'[m].id = u /\ copy'[m].notify = copy[m].notify
        /\ copy'[m].waiting = copy[m].waiting /\ copy'[m].flagged = outbidded[u]
    BY <2>1, <2>2 DEF WithMethods, Copy
  <2>5. ToldAt(m)'
    BY <1>b, <2>1, <2>2, <2>4 DEF ToldAt, Remembered, Live, Flags
  <2> QED
    BY <2>1, <2>2, <2>3, <2>5, ToldElsewhere
<1>4. ASSUME NEW m \in Market, CheckAggregated(m) PROVE ToldInv'
  <2>0. PICK u \in Tracker : u = copy[m].id
    BY <1>4, Held DEF CheckAggregated
  <2> DEFINE ad == FirstAd(ads[m], copy[m].pms)
  <2>1. /\ copy[m] \in Copy /\ u = copy[m].id /\ MarketOf[u] = m
        /\ pc[m] = "check" /\ ToldAt(m) /\ u \in Aggregated
        /\ status[u] # "new"
    BY <1>4, <2>0, <1>b, Held DEF CheckAggregated
  <2>2. /\ UNCHANGED <<status, row, methods, outbidded>>
        /\ \A n \in Market \ {m} : /\ pc'[n] = pc[n] /\ copy'[n] = copy[n]
                                   /\ left'[n] = left[n] /\ cur'[n] = cur[n]
    BY <1>4, <2>1 DEF CheckAggregated, Leave, store, TypeInv, TypeOK
  <2>3. CASE Leave(m) /\ UNCHANGED history
    <3>1. Quiet
      BY <1>4, <2>3 DEF CheckAggregated, Leave, Quiet, history, TypeInv, TypeOK
    <3> QED
      BY <3>1, ToldQuiet
  <2>4. CASE /\ IF copy[m].waiting THEN UNCHANGED asks ELSE Notify(copy[m], Whole)
             /\ copy' = [copy EXCEPT ![m] = Outbidden(@)]
             /\ isOutbid' = [isOutbid EXCEPT ![u] = {Whole}]
             /\ pc' = [pc EXCEPT ![m] = "save"]
             /\ UNCHANGED <<left, cur, setting, patched, disturbed>>
    <3>1. /\ pc'[m] = "save" /\ isOutbid'[u] = {Whole}
          /\ \A t \in Tracker \ {u} : isOutbid'[t] = isOutbid[t]
          /\ copy'[m] = Outbidden(copy[m])
      BY <2>1, <2>4 DEF TypeInv, TypeOK
    <3>2. /\ copy'[m].id = u /\ copy'[m].notify = copy[m].notify
      BY <2>1, <3>1 DEF Outbidden, Copy
    <3>3. /\ \A t \in Tracker \ {u} : asks'[t] = asks[t]
          /\ Live(u) /\ copy[m].notify => asks'[u][Whole] >= 1
      <4>1. CASE copy[m].waiting
        BY <2>1, <2>4, <4>1 DEF ToldAt
      <4>2. CASE ~copy[m].waiting
        BY <2>1, <2>4, <4>2, NotifyTells DEF TypeInv, Slot
      <4> QED
        BY <4>1, <4>2
    <3>4. Elsewhere(m, u)
      BY <2>2, <3>1, <3>3 DEF Elsewhere
    <3>5. ToldAt(m)'
      BY <2>1, <2>2, <3>1, <3>2, <3>3 DEF ToldAt, Live
    <3>6. Remembered(u)'
      BY <2>1, <2>2, <3>1, <3>3 DEF Remembered, ToldAt, Live, Flags
    <3> QED
      BY <2>1, <3>4, <3>5, <3>6, ToldElsewhere
  <2>5. CASE /\ copy' = [copy EXCEPT ![m] = OnTop(@, ad)]
             /\ isOutbid' = [isOutbid EXCEPT ![u] = {}]
             /\ pc' = [pc EXCEPT ![m] = "save"]
             /\ UNCHANGED <<left, cur, asks, setting, patched, disturbed>>
    <3>1. /\ pc'[m] = "save" /\ isOutbid'[u] = {}
          /\ \A t \in Tracker \ {u} : isOutbid'[t] = isOutbid[t]
          /\ copy'[m] = OnTop(copy[m], ad)
      BY <2>1, <2>5 DEF TypeInv, TypeOK
    <3>2. /\ copy'[m].id = u /\ copy'[m].notify = copy[m].notify
          /\ copy'[m].waiting = FALSE
      BY <2>1, <3>1 DEF OnTop, Copy
    <3>3. Elsewhere(m, u)
      BY <2>2, <2>5, <3>1 DEF Elsewhere
    <3>4. ToldAt(m)'
      BY <2>1, <2>2, <2>5, <3>1, <3>2 DEF ToldAt, Live
    <3>5. Remembered(u)'
      BY <1>b, <2>1, <2>2, <2>5, <3>1 DEF Remembered, Live, Flags
    <3> QED
      BY <2>1, <3>3, <3>4, <3>5, ToldElsewhere
  <2> QED
    BY <1>4, <2>1, <2>3, <2>4, <2>5 DEF CheckAggregated
<1>5. ASSUME NEW m \in Market, NEW pm \in Method, CheckMethod(m, pm) PROVE ToldInv'
  <2>0. PICK u \in Tracker : u = copy[m].id
    BY <1>5, Held DEF CheckMethod
  <2>1. /\ copy[m] \in Copy /\ u = copy[m].id /\ MarketOf[u] = m
        /\ pc[m] = "check" /\ ToldAt(m) /\ u \notin Aggregated /\ pm \in left[m]
        /\ status[u] # "new"
    BY <1>5, <2>0, <1>b, Held DEF CheckMethod
  <2>2. /\ UNCHANGED <<status, row, methods, outbidded, copy>>
        /\ left'[m] = left[m] \ {pm}
        /\ \A n \in Market \ {m} : left'[n] = left[n]
    BY <1>5, <2>1 DEF CheckMethod, store, TypeInv, TypeOK
  <2>3. CASE UNCHANGED <<pc, cur, isOutbid, asks>>
    <3>1. Elsewhere(m, u)
      BY <2>2, <2>3 DEF Elsewhere
    <3>2. ToldAt(m)'
      BY <2>1, <2>2, <2>3 DEF ToldAt, Live
    <3>3. Remembered(u)'
      BY <1>b, <2>1, <2>2, <2>3 DEF Remembered, Live, Flags
    <3> QED
      BY <2>1, <3>1, <3>2, <3>3, ToldElsewhere
  <2>4. CASE /\ IF pm \in copy[m].flagged THEN UNCHANGED asks ELSE Notify(copy[m], pm)
             /\ isOutbid' = [isOutbid EXCEPT ![u] = @ \cup {pm}]
             /\ cur' = [cur EXCEPT ![m] = pm]
             /\ pc' = [pc EXCEPT ![m] = "set"]
    <3>1. /\ pc'[m] = "set" /\ cur'[m] = pm /\ isOutbid'[u] = isOutbid[u] \cup {pm}
          /\ \A t \in Tracker \ {u} : isOutbid'[t] = isOutbid[t]
          /\ \A n \in Market \ {m} : pc'[n] = pc[n] /\ cur'[n] = cur[n]
      BY <2>1, <2>4 DEF TypeInv, TypeOK
    <3>2. /\ \A t \in Tracker \ {u} : asks'[t] = asks[t]
          /\ \A s \in Slot : asks[u][s] >= 1 => asks'[u][s] >= 1
          /\ Live(u) /\ copy[m].notify => asks'[u][pm] >= 1
      <4>1. CASE pm \in copy[m].flagged
        BY <2>1, <2>4, <4>1 DEF ToldAt
      <4>2. CASE pm \notin copy[m].flagged
        <5>1. pm \in Slot /\ Notify(copy[m], pm) /\ TypeOK
          BY <2>4, <4>2 DEF Slot, TypeInv
        <5>2. /\ asks'[u][pm] >= asks[u][pm]
              /\ \A s \in Slot \ {pm} : asks'[u][s] = asks[u][s]
              /\ asks \in [Tracker -> [Slot -> 0..AlertCap]]
              /\ asks' \in [Tracker -> [Slot -> 0..AlertCap]]
              /\ AlertCap \in Nat
          BY <1>a, <2>1, <5>1, NotifyTells, CapAssumption DEF TypeInv, TypeOK
        <5>3. \A s \in Slot : asks[u][s] >= 1 => asks'[u][s] >= 1
          BY <2>1, <5>1, <5>2
        <5> QED
          BY <2>1, <5>1, <5>3, NotifyTells
      <4> QED
        BY <4>1, <4>2
    <3>3. Elsewhere(m, u)
      BY <2>2, <3>1, <3>2 DEF Elsewhere
    <3>4. copy[m].flagged \subseteq Slot /\ Flags(u) \subseteq Slot /\ isOutbid[u] \subseteq Slot
      BY <2>1 DEF Copy, Slot, Flags, TypeInv, TypeOK, StoreTypeOK
    <3>5. ToldAt(m)'
      BY <2>1, <2>2, <3>1, <3>2, <3>4 DEF ToldAt, Live
    <3>6. Remembered(u)'
      BY <1>b, <2>1, <2>2, <3>1, <3>2, <3>4 DEF Remembered, ToldAt, Live, Flags
    <3> QED
      BY <2>1, <3>3, <3>5, <3>6, ToldElsewhere
  <2>5. CASE /\ isOutbid' = [isOutbid EXCEPT ![u] = @ \ {pm}]
             /\ cur' = [cur EXCEPT ![m] = pm]
             /\ pc' = [pc EXCEPT ![m] = "clear"]
             /\ UNCHANGED asks
    <3>1. /\ pc'[m] = "clear" /\ cur'[m] = pm /\ isOutbid'[u] = isOutbid[u] \ {pm}
          /\ \A t \in Tracker \ {u} : isOutbid'[t] = isOutbid[t]
          /\ \A n \in Market \ {m} : pc'[n] = pc[n] /\ cur'[n] = cur[n]
      BY <2>1, <2>5 DEF TypeInv, TypeOK
    <3>2. Elsewhere(m, u)
      BY <2>2, <2>5, <3>1 DEF Elsewhere
    <3>3. ToldAt(m)'
      BY <2>1, <2>2, <2>5, <3>1 DEF ToldAt, Live
    <3>4. Remembered(u)'
      BY <1>b, <2>1, <2>2, <2>5, <3>1 DEF Remembered, Live, Flags
    <3> QED
      BY <2>1, <3>2, <3>3, <3>4, ToldElsewhere
  <2> QED
    BY <1>5, <2>1, <2>3, <2>4, <2>5 DEF CheckMethod
<1>6. ASSUME NEW m \in Market, SetOutbid(m) PROVE ToldInv'
  <2>0. PICK u \in Tracker : u = copy[m].id
    BY <1>6, Held DEF SetOutbid
  <2>1. /\ copy[m] \in Copy /\ u = copy[m].id /\ MarketOf[u] = m
        /\ pc[m] = "set" /\ ToldAt(m) /\ u \notin Aggregated
        /\ status[u] # "new"
    BY <1>6, <2>0, <1>b, Held DEF SetOutbid, ToldAt
  <2>2. /\ UNCHANGED <<status, row, asks, isOutbid, copy, left>>
        /\ pc'[m] = "check"
        /\ \A n \in Market \ {m} : pc'[n] = pc[n] /\ cur'[n] = cur[n]
    BY <1>6, <2>1 DEF SetOutbid, UpdateMethodOutbidded, store, history, TypeInv, TypeOK
  <2>3. /\ \A t \in Tracker \ {u} : outbidded'[t] = outbidded[t]
        /\ outbidded'[u] \subseteq outbidded[u] \cup {cur[m]}
    BY <1>6, <2>1 DEF SetOutbid, UpdateMethodOutbidded, store, TypeInv, TypeOK, StoreTypeOK
  <2>4. Elsewhere(m, u)
    BY <2>2, <2>3 DEF Elsewhere
  <2>5. ToldAt(m)'
    BY <2>1, <2>2 DEF ToldAt, Live
  <2>6. Remembered(u)'
    BY <1>b, <2>1, <2>2, <2>3 DEF Remembered, ToldAt, Live, Flags
  <2> QED
    BY <2>1, <2>4, <2>5, <2>6, ToldElsewhere
<1>7. ASSUME NEW m \in Market, ClearOutbid(m) PROVE ToldInv'
  <2>0. PICK u \in Tracker : u = copy[m].id
    BY <1>7, Held DEF ClearOutbid
  <2>1. /\ copy[m] \in Copy /\ u = copy[m].id /\ MarketOf[u] = m
        /\ pc[m] = "clear" /\ ToldAt(m) /\ u \notin Aggregated
        /\ status[u] # "new" /\ cur[m] \in Method
    BY <1>7, <2>0, <1>b, Held DEF ClearOutbid, ToldAt, TypeInv
  <2>2. /\ UNCHANGED <<status, row, isOutbid, left, cur>>
        /\ pc'[m] = "save"
        /\ \A n \in Market \ {m} : pc'[n] = pc[n] /\ copy'[n] = copy[n]
    BY <1>7, <2>1 DEF ClearOutbid, UpdateMethodOutbidded, store, TypeInv, TypeOK
  <2>3. /\ copy'[m].id = u /\ copy'[m].notify = copy[m].notify
        /\ copy'[m].waiting = copy[m].waiting /\ copy'[m].flagged = copy[m].flagged
    <3>1. copy'[m] = [copy[m] EXCEPT !.price = FirstAd(ads[m], {cur[m]}).price]
      BY <1>7, <2>1 DEF ClearOutbid, TypeInv, TypeOK
    <3> QED
      BY <2>1, <3>1 DEF Copy
  <2>4. /\ \A t \in Tracker \ {u} : outbidded'[t] = outbidded[t] /\ asks'[t] = asks[t]
        /\ \A s \in Slot \ {cur[m]} : asks'[u][s] = asks[u][s]
        /\ outbidded'[u] \subseteq outbidded[u]
        /\ cur[m] \in outbidded'[u] => asks'[u] = asks[u]
    BY <1>7, <2>1
    DEF ClearOutbid, UpdateMethodOutbidded, store, TypeInv, TypeOK, StoreTypeOK
  <2>5. Elsewhere(m, u)
    BY <2>2, <2>4 DEF Elsewhere
  <2>6. /\ copy[m].flagged \subseteq Slot /\ Flags(u) \subseteq Slot /\ isOutbid[u] \subseteq Slot
        /\ cur[m] \notin isOutbid[u] /\ cur[m] \notin left[m]
    BY <2>1 DEF Copy, Slot, Flags, TypeInv, TypeOK, StoreTypeOK, ToldAt
  <2>7. ToldAt(m)'
    BY <2>1, <2>2, <2>3, <2>4, <2>6 DEF ToldAt, Live
  <2>8. Remembered(u)'
    BY <1>b, <2>1, <2>2, <2>4, <2>6 DEF Remembered, Live, Flags
  <2> QED
    BY <2>1, <2>5, <2>7, <2>8, ToldElsewhere
<1>8. ASSUME NEW m \in Market, SaveTracker(m) PROVE ToldInv'
  <2>0. PICK u \in Tracker : u = copy[m].id
    BY <1>8, Held DEF SaveTracker
  <2>1. /\ copy[m] \in Copy /\ u = copy[m].id /\ MarketOf[u] = m
        /\ pc[m] = "save" /\ ToldAt(m) /\ status[u] # "new"
    BY <1>8, <2>0, <1>b, Held DEF SaveTracker
  <2>2. /\ UNCHANGED <<status, isOutbid>>
        /\ \A n \in Market \ {m} : /\ pc'[n] = pc[n] /\ copy'[n] = copy[n]
                                   /\ left'[n] = left[n] /\ cur'[n] = cur[n]
        /\ \/ pc'[m] = "next"
           \/ pc'[m] = "check" /\ copy' = copy /\ left' = left /\ u \notin Aggregated
    BY <1>8, <2>1 DEF SaveTracker, Leave, UpdateTracker, store, TypeInv, TypeOK
  <2>3. /\ \A t \in Tracker \ {u} : /\ row'[t] = row[t] /\ asks'[t] = asks[t]
                                    /\ outbidded'[t] = outbidded[t]
        /\ asks'[u] = asks[u] \/ (u \in Aggregated /\ isOutbid[u] = {})
        /\ \/ UNCHANGED <<row, outbidded, asks>>
           \/ ~Live(u)
           \/ /\ row'[u].notify = copy[m].notify /\ row'[u].waiting = copy[m].waiting
              /\ outbidded'[u] = {}
    <3>1. CASE UNCHANGED <<store, asks>>
      BY <3>1 DEF store
    <3>2. CASE /\ UpdateTracker(copy[m])
               /\ asks' = IF u \in Aggregated /\ isOutbid[u] = {}
                            THEN [asks EXCEPT ![u][Whole] = 0] ELSE asks
      <4>1. /\ \A t \in Tracker \ {u} : asks'[t] = asks[t]
            /\ asks'[u] = asks[u] \/ (u \in Aggregated /\ isOutbid[u] = {})
        <5>1. CASE u \in Aggregated /\ isOutbid[u] = {}
          BY <3>2, <5>1 DEF TypeInv, TypeOK
        <5>2. CASE ~(u \in Aggregated /\ isOutbid[u] = {})
          BY <3>2, <5>2
        <5> QED
          BY <5>1, <5>2
      <4>2. CASE Live(u)
        <5>1. /\ row' = [row EXCEPT ![u] = [notify |-> copy[m].notify, price |-> copy[m].price,
                                            waiting |-> copy[m].waiting]]
              /\ outbidded' = [outbidded EXCEPT ![u] = {}]
          BY <2>1, <3>2, <4>2 DEF UpdateTracker, Live
        <5>2. /\ row'[u].notify = copy[m].notify /\ row'[u].waiting = copy[m].waiting
              /\ outbidded'[u] = {}
          BY <5>1 DEF TypeInv, TypeOK, StoreTypeOK
        <5>3. \A t \in Tracker \ {u} : row'[t] = row[t] /\ outbidded'[t] = outbidded[t]
          BY <5>1
        <5> QED
          BY <4>1, <5>2, <5>3
      <4>3. CASE ~Live(u)
        BY <2>1, <3>2, <4>1, <4>3 DEF UpdateTracker, Live, store
      <4> QED
        BY <4>2, <4>3
    <3> QED
      BY <1>8, <2>1, <3>1, <3>2 DEF SaveTracker
  <2>4. Elsewhere(m, u)
    BY <2>2, <2>3 DEF Elsewhere
  <2>5. pc'[m] \in Holding => ToldAt(m)'
    BY <2>1, <2>2, <2>3 DEF ToldAt, Live
  <2>6. Remembered(u)'
    BY <1>b, <2>1, <2>2, <2>3 DEF Remembered, ToldAt, Live, Flags
  <2> QED
    BY <2>1, <2>4, <2>5, <2>6, ToldElsewhere
<1>9. ASSUME NEW t \in Tracker, CreateTracker(t) \/ DeleteTracker(t) PROVE ToldInv'
  <2> DEFINE m == MarketOf[t]
  <2>1. m \in Market
    BY MarketAssumption
  <2>2. UNCHANGED <<pc, copy, left, cur>> /\ Elsewhere(m, t)
    BY <1>9 DEF CreateTracker, DeleteTracker, InsertTracker, DeleteRow, Elsewhere,
                worker, TypeInv, TypeOK, StoreTypeOK
  <2>3. CASE CreateTracker(t)
    <3>1. /\ status[t] = "new" /\ status'[t] = "live" /\ isOutbid' = isOutbid
          /\ outbidded'[t] = {} /\ row'[t].waiting = FALSE
      BY <2>3 DEF CreateTracker, InsertTracker, TypeInv, TypeOK, StoreTypeOK
    <3>2. Remembered(t)'
      BY <1>b, <3>1 DEF Remembered, Flags
    <3>3. pc'[m] \in Holding => ToldAt(m)'
      <4> SUFFICES ASSUME pc[m] \in Holding PROVE ToldAt(m)'
        BY <2>2
      <4>1. copy[m].id \in Tracker \ {t}
        BY <2>1, <3>1, Held
      <4> QED
        BY <1>b, <2>1, <2>2, <4>1 DEF ToldAt, Live, Elsewhere
    <3> QED
      BY <2>1, <2>2, <3>2, <3>3, ToldElsewhere
  <2>4. CASE DeleteTracker(t)
    <3>1. status'[t] = "deleted" /\ isOutbid'[t] = {}
      BY <2>4 DEF DeleteTracker, DeleteRow, TypeInv, TypeOK, StoreTypeOK
    <3>2. Remembered(t)'
      BY <3>1 DEF Remembered, Live
    <3>3. pc'[m] \in Holding => ToldAt(m)'
      <4> SUFFICES ASSUME pc[m] \in Holding PROVE ToldAt(m)'
        BY <2>2
      <4>1. copy[m].id \in Tracker
        BY <2>1, Held
      <4>2. CASE copy[m].id = t
        BY <1>b, <2>1, <2>2, <3>1, <4>2 DEF ToldAt, Live
      <4>3. CASE copy[m].id # t
        <5> DEFINE v == copy[m].id
        <5>1. /\ pc'[m] = pc[m] /\ copy'[m] = copy[m] /\ left'[m] = left[m] /\ cur'[m] = cur[m]
              /\ status'[v] = status[v] /\ row'[v] = row[v]
              /\ asks'[v] = asks[v] /\ isOutbid'[v] = isOutbid[v]
          BY <2>2, <4>1, <4>3 DEF Elsewhere
        <5>2. ToldAt(m)
          BY <1>b, <2>1
        <5> QED
          BY <5>1, <5>2 DEF ToldAt, Live
      <4> QED
        BY <4>2, <4>3
    <3> QED
      BY <2>1, <2>2, <3>2, <3>3, ToldElsewhere
  <2> QED
    BY <1>9, <2>3, <2>4
<1> QED
  BY <1>1, <1>2, <1>3, <1>4, <1>5, <1>6, <1>7, <1>8, <1>9, QuietSteps
  DEF Next, ObserverStep, UserStep, ListStep, WorkerStep, CheckStep

(* Without PATCH requests: a flag that keeps alerts back, of a tracker     *)
(* with its notifications on, was preceded by a call of Notify, wherever   *)
(* the observer stops or a statement fails.                                *)
THEOREM FlagsMeanNotified ==
    ASSUME Request = {}
    PROVE  Spec => []FlagMeansNotified
<1> DEFINE Inv == TypeInv /\ IntactInv /\ RoundInv /\ ToldInv
<1>1. Inv => FlagMeansNotified
  BY DEF ToldInv, Remembered, FlagMeansNotified
<1>2. Init => Inv
  BY TypeInit, IntactInit, RoundInit, ToldInit
<1>3. Inv /\ [Next]_vars => Inv'
  BY TypeStep, IntactStep, RoundStep, ToldStep
<1> HIDE DEF Inv
<1> QED
  BY <1>1, <1>2, <1>3, PTL DEF Spec

(* From the same invariant: while a tracker is outbid and its              *)
(* notifications are on, Notify has been called since the tracker was last *)
(* written back as on top, whatever stops or fails.                        *)
THEOREM NoNotifyIsMissed ==
    ASSUME Request = {}
    PROVE  Spec => []NoMissedNotify
<1> DEFINE Inv == TypeInv /\ IntactInv /\ RoundInv /\ ToldInv
<1>1. Inv => NoMissedNotify
  BY DEF ToldInv, Remembered, NoMissedNotify
<1>2. Init => Inv
  BY TypeInit, IntactInit, RoundInit, ToldInit
<1>3. Inv /\ [Next]_vars => Inv'
  BY TypeStep, IntactStep, RoundStep, ToldStep
<1> HIDE DEF Inv
<1> QED
  BY <1>1, <1>2, <1>3, PTL DEF Spec

-----------------------------------------------------------------------------
(* No call for a tracker with one slot is repeated, while nothing fails.   *)
(* A call is in the tables as a flag, or a worker is about to write it;    *)
(* the flag of an aggregated tracker has its verdict behind it.            *)
Backed(t) ==
    LET c == copy[MarketOf[t]] IN
    /\ \A s \in Slot : Slots(t) = {s} =>
         /\ asks[t][s] <= 1
         /\ status[t] = "new" => asks[t][s] = 0
         /\ Live(t) /\ asks[t][s] # 0 =>
              \/ s \in Flags(t)
              \/ At(t, "set")
              \/ t \in Aggregated /\ At(t, "save") /\ c.waiting
    /\ t \in Aggregated /\ row[t].waiting =>
         Whole \in isOutbid[t] \/ (At(t, "save") /\ ~c.waiting)
    /\ ~Live(t) => ~row[t].waiting

(* The copy is up to date in what it says of the only method s, or of a    *)
(* whole tracker; one that is deleted is not alerted about twice either.   *)
OneSlotAt(m, s) ==
    LET c == copy[m]  t == copy[m].id IN
    /\ pc[m] = "check" /\ s \in left[m] =>
         IF Live(t) THEN s \in c.flagged <=> s \in outbidded[t] ELSE asks[t][s] = 0
    /\ pc[m] \in {"set", "clear", "save"} => s \notin left[m]
    /\ pc[m] = "save" => asks[t][s] = 0

WholeAt(m) ==
    LET c == copy[m]  t == copy[m].id IN
    /\ pc[m] \in {"methods", "check"} =>
         IF Live(t) THEN c.waiting = row[t].waiting ELSE asks[t][Whole] = 0
    /\ pc[m] = "save" /\ Live(t) =>
         IF c.waiting THEN Whole \in isOutbid[t] ELSE isOutbid[t] = {}

SlotAt(m) ==
    LET t == copy[m].id IN
    /\ pc[m] \in {"set", "clear"} => t \notin Aggregated /\ cur[m] \in PaymentOf[t]
    /\ t \in Aggregated => WholeAt(m)
    /\ t \notin Aggregated =>
         /\ pc[m] # "methods" => left[m] \subseteq PaymentOf[t]
         /\ \A s \in Slot : PaymentOf[t] = {s} => OneSlotAt(m, s)

SlotInv ==
    /\ \A t \in Tracker : Backed(t)
    /\ \A m \in Market : pc[m] \in Holding => SlotAt(m)

LEMMA SlotInit == Init => SlotInv
BY DEF Init, StoreInit, NoRow, SlotInv, Backed, Live, Holding

LEMMA SlotQuiet ==
    ASSUME ~Crashes, SlotInv, Quiet PROVE SlotInv'
<1> USE MarketAssumption DEF Holding
<1>1. ASSUME NEW t \in Tracker PROVE Backed(t)'
  <2>1. Backed(t) /\ MarketOf[t] \in Market
    BY DEF SlotInv
  <2> QED
    BY <2>1 DEF Quiet, Backed, Live, Flags, At, store
<1>2. ASSUME NEW m \in Market, pc'[m] \in Holding PROVE SlotAt(m)'
  BY <1>2 DEF SlotInv, Quiet, SlotAt, OneSlotAt, WholeAt, Live, store
<1> QED
  BY <1>1, <1>2 DEF SlotInv

LEMMA SlotElsewhere ==
    ASSUME TypeInv, IntactInv, RoundInv, SlotInv,
           NEW m \in Market, NEW u \in Tracker, MarketOf[u] = m, Elsewhere(m, u),
           pc[m] \in Holding => copy[m].id = u,
           Backed(u)', pc'[m] \in Holding => SlotAt(m)'
    PROVE  SlotInv'
<1>1. ASSUME NEW t \in Tracker PROVE Backed(t)'
  <2>1. CASE t = u
    BY <2>1
  <2>2. CASE t # u /\ MarketOf[t] = m
    <3>1. ~At(t, "set") /\ ~At(t, "save")
      BY <2>2 DEF At, Holding
    <3> QED
      BY <2>2, <3>1 DEF SlotInv, Elsewhere, Backed, Live, Flags
  <2>3. CASE t # u /\ MarketOf[t] # m
    <3>1. MarketOf[t] \in Market \ {m}
      BY <2>3, MarketAssumption
    <3> QED
      BY <2>3, <3>1 DEF SlotInv, Elsewhere, Backed, Live, Flags, At
  <2> QED
    BY <2>1, <2>2, <2>3
<1>2. ASSUME NEW n \in Market, pc'[n] \in Holding PROVE SlotAt(n)'
  <2>1. CASE n = m
    BY <1>2, <2>1
  <2>2. CASE n # m
    <3>1. pc[n] \in Holding /\ UNCHANGED <<pc[n], copy[n], left[n], cur[n]>>
      BY <1>2, <2>2 DEF Elsewhere
    <3>2. copy[n].id \in Tracker \ {u}
      BY <2>2, <3>1, Held
    <3> QED
      BY <3>1, <3>2 DEF SlotInv, Elsewhere, SlotAt, OneSlotAt, WholeAt, Live
  <2> QED
    BY <2>1, <2>2
<1> QED
  BY <1>1, <1>2 DEF SlotInv

LEMMA SlotStep ==
    ASSUME Request = {}, ~DbFails, ~Crashes
    PROVE  TypeInv /\ IntactInv /\ RoundInv /\ SlotInv /\ [Next]_vars => SlotInv'
<1> SUFFICES ASSUME TypeInv, IntactInv, RoundInv, SlotInv, [Next]_vars PROVE SlotInv'
  OBVIOUS
<1> USE MarketAssumption DEF Holding
<1>a. TypeInv' /\ TypeOK
  BY TypeStep DEF TypeInv
<1>b. /\ \A t \in Tracker : Backed(t)
      /\ \A m \in Market : pc[m] \in Holding => SlotAt(m)
  BY DEF SlotInv
<1>c. \A t \in Tracker : \A s : Slots(t) = {s} =>
        /\ t \in Aggregated => s = Whole
        /\ t \notin Aggregated => PaymentOf[t] = {s}
  BY DEF Slots
<1>1. CASE Quiet
  BY <1>1, SlotQuiet
<1>2. ASSUME NEW m \in Market, NEW t \in Tracker, LoadTracker(m, t) PROVE SlotInv'
  <2>1. /\ UNCHANGED <<status, row, methods, outbidded, asks, isOutbid>>
        /\ pc[m] = "next" /\ pc'[m] = "methods" /\ copy'[m] = SelectTracker(t)
        /\ Elsewhere(m, t) /\ Live(t)
    BY <1>2 DEF LoadTracker, Elsewhere, store, history, TypeInv, TypeOK
  <2>2. MarketOf[t] = m
    BY <1>2 DEF LoadTracker, RoundInv
  <2>3. Backed(t)'
    BY <1>b, <2>1, <2>2 DEF Backed, Live, Flags, At
  <2>4. /\ copy'[m].id = t /\ copy'[m].waiting = row[t].waiting
    BY <2>1 DEF SelectTracker
  <2>5. SlotAt(m)'
    BY <2>1, <2>4 DEF SlotAt, WholeAt, OneSlotAt, Live
  <2> QED
    BY <2>1, <2>2, <2>3, <2>5, SlotElsewhere
<1>3. ASSUME NEW m \in Market, LoadMethods(m) PROVE SlotInv'
  <2>0. PICK u \in Tracker : u = copy[m].id
    BY <1>3, Held DEF LoadMethods
  <2>1. /\ copy[m] \in Copy /\ u = copy[m].id /\ MarketOf[u] = m
        /\ pc[m] = "methods" /\ SlotAt(m)
    BY <1>3, <2>0, <1>b, Held DEF LoadMethods
  <2>2. /\ UNCHANGED <<status, row, methods, outbidded, asks, isOutbid>>
        /\ pc'[m] = "check" /\ copy'[m] = WithMethods(copy[m])
        /\ left'[m] = methods[u]
        /\ Elsewhere(m, u)
    BY <1>3, <2>1 DEF LoadMethods, Elsewhere, store, history, TypeInv, TypeOK
  <2>3. Backed(u)'
    BY <1>b, <2>1, <2>2 DEF Backed, Live, Flags, At
  <2>4. /\ copy'[m].id = u
        /\ copy'[m].waiting = copy[m].waiting /\ copy'[m].flagged = outbidded[u]
    BY <2>1, <2>2 DEF WithMethods, Copy
  <2>5. /\ methods[u] \subseteq PaymentOf[u]
        /\ ~Live(u) => methods[u] = {}
    BY DEF IntactInv, MethodsIntact
  <2>6. SlotAt(m)'
    BY <2>1, <2>2, <2>4, <2>5 DEF SlotAt, WholeAt, OneSlotAt, Live
  <2> QED
    BY <2>1, <2>2, <2>3, <2>6, SlotElsewhere
<1>4. ASSUME NEW m \in Market, CheckAggregated(m) PROVE SlotInv'
  <2>0. PICK u \in Tracker : u = copy[m].id
    BY <1>4, Held DEF CheckAggregated
  <2> DEFINE ad == FirstAd(ads[m], copy[m].pms)
  <2>1. /\ copy[m] \in Copy /\ u = copy[m].id /\ MarketOf[u] = m
        /\ pc[m] = "check" /\ SlotAt(m) /\ u \in Aggregated
        /\ status[u] # "new" /\ Backed(u)
    BY <1>4, <2>0, <1>b, Held DEF CheckAggregated
  <2>2. /\ UNCHANGED <<status, row, methods, outbidded>>
        /\ \A n \in Market \ {m} : /\ pc'[n] = pc[n] /\ copy'[n] = copy[n]
                                   /\ left'[n] = left[n] /\ cur'[n] = cur[n]
    BY <1>4 DEF CheckAggregated, Leave, store, TypeInv, TypeOK
  <2>3. CASE Leave(m) /\ UNCHANGED history
    <3>1. Quiet
      BY <1>4, <2>3 DEF CheckAggregated, Leave, Quiet, history, TypeInv, TypeOK
    <3> QED
      BY <3>1, SlotQuiet
  <2>4. CASE /\ IF copy[m].waiting THEN UNCHANGED asks ELSE Notify(copy[m], Whole)
             /\ copy' = [copy EXCEPT ![m] = Outbidden(@)]
             /\ isOutbid' = [isOutbid EXCEPT ![u] = {Whole}]
             /\ pc' = [pc EXCEPT ![m] = "save"]
             /\ UNCHANGED <<left, cur, setting, patched, disturbed>>
    <3>1. /\ pc'[m] = "save" /\ isOutbid'[u] = {Whole}
          /\ \A t \in Tracker \ {u} : isOutbid'[t] = isOutbid[t]
          /\ copy'[m] = Outbidden(copy[m])
      BY <2>1, <2>4 DEF TypeInv, TypeOK
    <3>2. copy'[m] \in Copy /\ copy'[m].id = u /\ copy'[m].waiting = TRUE
      BY <2>1, <3>1 DEF Outbidden, Copy
    <3>3. /\ \A t \in Tracker \ {u} : asks'[t] = asks[t]
          /\ asks'[u][Whole] <= 1
      <4>1. Slots(u) = {Whole} /\ Whole \in Slot
        BY <2>1 DEF Slots, Slot
      <4>2. CASE copy[m].waiting
        BY <2>1, <2>4, <4>1, <4>2 DEF Backed
      <4>3. CASE ~copy[m].waiting
        <5>1. asks[u][Whole] = 0
          BY <2>1, <4>1, <4>3 DEF SlotAt, WholeAt, Backed, Flags, At
        <5> QED
          BY <1>a, <2>1, <2>4, <4>1, <4>3, <5>1, NotifyTells
      <4> QED
        BY <4>2, <4>3
    <3>4. Elsewhere(m, u)
      BY <2>2, <3>1, <3>3 DEF Elsewhere
    <3>5. SlotAt(m)'
      BY <2>1, <3>1, <3>2 DEF SlotAt, WholeAt
    <3>6. At(u, "save")' /\ copy'[m] # NoCopy
      BY <2>1, <3>1, <3>2 DEF At
    <3>7. Backed(u)'
      BY <1>c, <2>1, <2>2, <3>1, <3>2, <3>3, <3>6 DEF Backed, Live
    <3> QED
      BY <2>1, <3>4, <3>5, <3>7, SlotElsewhere
  <2>5. CASE /\ copy' = [copy EXCEPT ![m] = OnTop(@, ad)]
             /\ isOutbid' = [isOutbid EXCEPT ![u] = {}]
             /\ pc' = [pc EXCEPT ![m] = "save"]
             /\ UNCHANGED <<left, cur, asks, setting, patched, disturbed>>
    <3>1. /\ pc'[m] = "save" /\ isOutbid'[u] = {}
          /\ \A t \in Tracker \ {u} : isOutbid'[t] = isOutbid[t]
          /\ copy'[m] = OnTop(copy[m], ad)
      BY <2>1, <2>5 DEF TypeInv, TypeOK
    <3>2. copy'[m].id = u /\ copy'[m].waiting = FALSE
      BY <2>1, <3>1 DEF OnTop, Copy
    <3>3. copy'[m] # NoCopy
      BY <1>a, <3>1 DEF TypeInv
    <3>4. Elsewhere(m, u)
      BY <2>2, <2>5, <3>1 DEF Elsewhere
    <3>5. SlotAt(m)'
      BY <2>1, <3>1, <3>2 DEF SlotAt, WholeAt
    <3>6. At(u, "save")' /\ ~At(u, "set") /\ ~At(u, "save")
      BY <2>1, <3>1, <3>2, <3>3 DEF At
    <3>7. Backed(u)'
      BY <1>c, <2>1, <2>2, <2>5, <3>2, <3>6 DEF Backed, Live, Flags
    <3> QED
      BY <2>1, <3>4, <3>5, <3>7, SlotElsewhere
  <2> QED
    BY <1>4, <2>1, <2>3, <2>4, <2>5 DEF CheckAggregated
<1>5. ASSUME NEW m \in Market, NEW pm \in Method, CheckMethod(m, pm) PROVE SlotInv'
  <2>0. PICK u \in Tracker : u = copy[m].id
    BY <1>5, Held DEF CheckMethod
  <2>1. /\ copy[m] \in Copy /\ u = copy[m].id /\ MarketOf[u] = m
        /\ pc[m] = "check" /\ SlotAt(m) /\ u \notin Aggregated /\ pm \in left[m]
        /\ status[u] # "new" /\ Backed(u)
    BY <1>5, <2>0, <1>b, Held DEF CheckMethod
  <2>2. /\ UNCHANGED <<status, row, methods, outbidded, copy>>
        /\ left'[m] = left[m] \ {pm}
        /\ \A n \in Market \ {m} : left'[n] = left[n]
    BY <1>5, <2>1 DEF CheckMethod, store, TypeInv, TypeOK
  <2>3. left[m] \subseteq PaymentOf[u] /\ pm \in PaymentOf[u]
    BY <2>1 DEF SlotAt
  <2>4. ~At(u, "set") /\ ~At(u, "save")
    BY <2>1 DEF At
  <2>5. CASE UNCHANGED <<pc, cur, isOutbid, asks>>
    <3>1. Elsewhere(m, u)
      BY <2>2, <2>5 DEF Elsewhere
    <3>2. SlotAt(m)'
      BY <2>1, <2>2, <2>3, <2>5 DEF SlotAt, OneSlotAt, Live
    <3>3. Backed(u)'
      BY <2>1, <2>2, <2>5 DEF Backed, Live, Flags, At
    <3> QED
      BY <2>1, <3>1, <3>2, <3>3, SlotElsewhere
  <2>6. CASE /\ IF pm \in copy[m].flagged THEN UNCHANGED asks ELSE Notify(copy[m], pm)
             /\ isOutbid' = [isOutbid EXCEPT ![u] = @ \cup {pm}]
             /\ cur' = [cur EXCEPT ![m] = pm]
             /\ pc' = [pc EXCEPT ![m] = "set"]
    <3>1. /\ pc'[m] = "set" /\ cur'[m] = pm
          /\ \A t \in Tracker \ {u} : isOutbid'[t] = isOutbid[t]
          /\ \A n \in Market \ {m} : pc'[n] = pc[n] /\ cur'[n] = cur[n]
      BY <2>1, <2>6 DEF TypeInv, TypeOK
    <3>2. pm \in Slot /\ \A t \in Tracker \ {u} : asks'[t] = asks[t]
      BY <1>a, <2>1, <2>6, NotifyTells DEF Slot
    <3>3. Slots(u) = {pm} => asks'[u][pm] <= 1
      <4> SUFFICES ASSUME Slots(u) = {pm} PROVE asks'[u][pm] <= 1
        OBVIOUS
      <4>1. CASE pm \in copy[m].flagged
        BY <2>1, <2>6, <3>2, <4>1 DEF Backed
      <4>2. CASE pm \notin copy[m].flagged
        <5>1. OneSlotAt(m, pm)
          BY <1>c, <2>1, <3>2 DEF SlotAt
        <5>2. asks[u][pm] = 0
          BY <2>1, <2>4, <3>2, <4>2, <5>1 DEF OneSlotAt, Backed, Flags
        <5> QED
          BY <1>a, <2>1, <2>6, <3>2, <4>2, <5>2, NotifyTells
      <4> QED
        BY <4>1, <4>2
    <3>4. Elsewhere(m, u)
      BY <2>2, <3>1, <3>2 DEF Elsewhere
    <3>5. SlotAt(m)'
      BY <2>1, <2>2, <2>3, <3>1 DEF SlotAt, OneSlotAt
    <3>6. At(u, "set")'
      BY <2>1, <2>2, <3>1 DEF At
    <3>7. Backed(u)'
      <4>1. ASSUME NEW s \in Slot, Slots(u) = {s} PROVE s = pm /\ asks'[u][s] <= 1
        <5>1. s = pm
          BY <1>c, <2>1, <2>3, <4>1
        <5> QED
          BY <3>3, <4>1, <5>1
      <4> QED
        BY <2>1, <2>2, <3>6, <4>1 DEF Backed, Live
    <3> QED
      BY <2>1, <3>4, <3>5, <3>7, SlotElsewhere
  <2>7. CASE /\ isOutbid' = [isOutbid EXCEPT ![u] = @ \ {pm}]
             /\ cur' = [cur EXCEPT ![m] = pm]
             /\ pc' = [pc EXCEPT ![m] = "clear"]
             /\ UNCHANGED asks
    <3>1. /\ pc'[m] = "clear" /\ cur'[m] = pm
          /\ \A t \in Tracker \ {u} : isOutbid'[t] = isOutbid[t]
          /\ \A n \in Market \ {m} : pc'[n] = pc[n] /\ cur'[n] = cur[n]
      BY <2>1, <2>7 DEF TypeInv, TypeOK
    <3>2. Elsewhere(m, u)
      BY <2>2, <2>7, <3>1 DEF Elsewhere
    <3>3. SlotAt(m)'
      BY <2>1, <2>2, <2>3, <3>1 DEF SlotAt, OneSlotAt
    <3>4. Backed(u)'
      BY <2>1, <2>2, <2>4, <2>7 DEF Backed, Live, Flags
    <3> QED
      BY <2>1, <3>2, <3>3, <3>4, SlotElsewhere
  <2> QED
    BY <1>5, <2>1, <2>5, <2>6, <2>7 DEF CheckMethod
<1>6. ASSUME NEW m \in Market, SetOutbid(m) PROVE SlotInv'
  <2>0. PICK u \in Tracker : u = copy[m].id
    BY <1>6, Held DEF SetOutbid
  <2>1. /\ copy[m] \in Copy /\ u = copy[m].id /\ MarketOf[u] = m
        /\ pc[m] = "set" /\ SlotAt(m) /\ u \notin Aggregated /\ Backed(u)
        /\ status[u] # "new" /\ cur[m] \in PaymentOf[u]
    BY <1>6, <2>0, <1>b, Held DEF SetOutbid, SlotAt
  <2>2. /\ UNCHANGED <<status, row, methods, asks, isOutbid, copy, left>>
        /\ pc'[m] = "check"
        /\ \A n \in Market \ {m} : pc'[n] = pc[n] /\ cur'[n] = cur[n]
    BY <1>6, <2>1 DEF SetOutbid, UpdateMethodOutbidded, store, history, TypeInv, TypeOK
  <2>3. /\ \A t \in Tracker \ {u} : outbidded'[t] = outbidded[t]
        /\ outbidded'[u] = outbidded[u] \cup ({cur[m]} \cap methods[u])
    BY <1>6, <2>1 DEF SetOutbid, UpdateMethodOutbidded, store, TypeInv, TypeOK, StoreTypeOK
  <2>4. Live(u) => methods[u] = PaymentOf[u]
    BY DEF IntactInv, MethodsIntact
  <2>5. Elsewhere(m, u)
    BY <2>2, <2>3 DEF Elsewhere
  <2>6. SlotAt(m)'
    BY <2>1, <2>2 DEF SlotAt, OneSlotAt, Live
  <2>7. Backed(u)'
    <3>1. Slots(u) = PaymentOf[u]
      BY <2>1 DEF Slots
    <3>2. ASSUME NEW s \in Slot, Slots(u) = {s}
          PROVE  /\ asks'[u][s] <= 1
                 /\ status'[u] # "new"
                 /\ Live(u)' => s \in Flags(u)'
      <4>1. cur[m] = s
        BY <2>1, <3>1, <3>2
      <4>2. Live(u) => s \in outbidded'[u]
        BY <2>1, <2>3, <2>4, <3>1, <3>2, <4>1
      <4>3. asks'[u][s] <= 1
        BY <2>1, <2>2, <3>2 DEF Backed
      <4>4. Live(u)' => s \in Flags(u)'
        BY <2>1, <2>2, <4>2 DEF Live, Flags
      <4>5. status'[u] # "new"
        BY <2>1, <2>2
      <4> QED
        BY <4>3, <4>4, <4>5
    <3>3. ~Live(u)' => ~row'[u].waiting
      BY <2>1, <2>2 DEF Backed, Live
    <3> QED
      BY <2>1, <3>2, <3>3 DEF Backed
  <2> QED
    BY <2>1, <2>5, <2>6, <2>7, SlotElsewhere
<1>7. ASSUME NEW m \in Market, ClearOutbid(m) PROVE SlotInv'
  <2>0. PICK u \in Tracker : u = copy[m].id
    BY <1>7, Held DEF ClearOutbid
  <2>1. /\ copy[m] \in Copy /\ u = copy[m].id /\ MarketOf[u] = m
        /\ pc[m] = "clear" /\ SlotAt(m) /\ u \notin Aggregated
        /\ status[u] # "new" /\ cur[m] \in Method /\ cur[m] \in PaymentOf[u]
    BY <1>7, <2>0, <1>b, Held DEF ClearOutbid, SlotAt, TypeInv
  <2>2. /\ UNCHANGED <<status, row, isOutbid, left, cur>>
        /\ pc'[m] = "save"
        /\ \A n \in Market \ {m} : pc'[n] = pc[n] /\ copy'[n] = copy[n]
    BY <1>7, <2>1 DEF ClearOutbid, UpdateMethodOutbidded, store, TypeInv, TypeOK
  <2>3. copy'[m].id = u
    <3>1. copy'[m] = [copy[m] EXCEPT !.price = FirstAd(ads[m], {cur[m]}).price]
      BY <1>7 DEF ClearOutbid, TypeInv, TypeOK
    <3> QED
      BY <2>1, <3>1 DEF Copy
  <2>4. /\ \A t \in Tracker \ {u} : outbidded'[t] = outbidded[t] /\ asks'[t] = asks[t]
        /\ asks'[u][cur[m]] = 0
    BY <1>7, <2>1
    DEF ClearOutbid, UpdateMethodOutbidded, Slot, TypeInv, TypeOK, StoreTypeOK
  <2>5. Elsewhere(m, u)
    BY <2>2, <2>4 DEF Elsewhere
  <2>6. SlotAt(m)'
    BY <2>1, <2>2, <2>3, <2>4 DEF SlotAt, OneSlotAt
  <2>7. Backed(u)'
    <3>1. ASSUME NEW s \in Slot, Slots(u) = {s} PROVE asks'[u][s] = 0
      BY <1>c, <2>1, <2>4, <3>1
    <3>2. Backed(u)
      BY <1>b
    <3> QED
      BY <2>1, <2>2, <3>1, <3>2 DEF Backed, Live
  <2> QED
    BY <2>1, <2>5, <2>6, <2>7, SlotElsewhere
<1>8. ASSUME NEW m \in Market, SaveTracker(m) PROVE SlotInv'
  <2>0. PICK u \in Tracker : u = copy[m].id
    BY <1>8, Held DEF SaveTracker
  <2>1. /\ copy[m] \in Copy /\ u = copy[m].id /\ MarketOf[u] = m
        /\ pc[m] = "save" /\ SlotAt(m) /\ status[u] # "new" /\ Backed(u)
    BY <1>8, <2>0, <1>b, Held DEF SaveTracker
  <2>2. /\ UNCHANGED <<status, isOutbid>>
        /\ \A n \in Market \ {m} : /\ pc'[n] = pc[n] /\ copy'[n] = copy[n]
                                   /\ left'[n] = left[n] /\ cur'[n] = cur[n]
        /\ \/ pc'[m] = "next"
           \/ pc'[m] = "check" /\ copy' = copy /\ left' = left /\ u \notin Aggregated
    BY <1>8, <2>1 DEF SaveTracker, Leave, UpdateTracker, store, TypeInv, TypeOK
  <2>3. /\ \/ UpdateTracker(copy[m])
           \/ ~Live(u) /\ UNCHANGED <<store, asks>>
        /\ \/ asks' = asks /\ ~(Live(u) /\ u \in Aggregated /\ isOutbid[u] = {})
           \/ u \in Aggregated /\ asks' = [asks EXCEPT ![u][Whole] = 0]
    BY <1>8, <2>1 DEF SaveTracker, ForeignKeyFails, Live
  <2>4. /\ \A t \in Tracker \ {u} : row'[t] = row[t] /\ outbidded'[t] = outbidded[t]
        /\ ~Live(u) => row'[u] = row[u]
        /\ Live(u) => row'[u].waiting = copy[m].waiting
    <3>1. CASE Live(u)
      <4>1. /\ row' = [row EXCEPT ![u] = [notify |-> copy[m].notify, price |-> copy[m].price,
                                          waiting |-> copy[m].waiting]]
            /\ outbidded' = [outbidded EXCEPT ![u] = {}]
        BY <2>1, <2>3, <3>1 DEF UpdateTracker, Live
      <4>2. row'[u].waiting = copy[m].waiting
        BY <4>1 DEF TypeInv, TypeOK, StoreTypeOK
      <4> QED
        BY <3>1, <4>1, <4>2
    <3>2. CASE ~Live(u)
      BY <2>1, <2>3, <3>2 DEF UpdateTracker, Live, store
    <3> QED
      BY <3>1, <3>2
  <2>5. /\ \A t \in Tracker \ {u} : asks'[t] = asks[t]
        /\ u \notin Aggregated => asks'[u] = asks[u]
        /\ asks'[u][Whole] = 0 \/ asks'[u] = asks[u]
        /\ Live(u) /\ u \in Aggregated /\ isOutbid[u] = {} => asks'[u][Whole] = 0
    BY <2>3 DEF Slot, TypeInv, TypeOK
  <2>6. Elsewhere(m, u)
    BY <2>2, <2>4, <2>5 DEF Elsewhere
  <2>7. pc'[m] \in Holding => SlotAt(m)'
    <3> SUFFICES ASSUME pc'[m] = "check", copy' = copy, left' = left, u \notin Aggregated
                 PROVE  SlotAt(m)'
      BY <2>2
    <3> QED
      BY <2>1, <2>2, <2>5 DEF SlotAt, OneSlotAt
  <2>8. ASSUME u \in Aggregated PROVE Backed(u)'
    <3>1. \A s : Slots(u) = {s} => s = Whole
      BY <1>c, <2>8
    <3>2. Slots(u) = {Whole} /\ Whole \in Slot
      BY <2>8 DEF Slots, Slot
    <3>3. asks'[u][Whole] <= 1
      BY <2>1, <2>5, <3>2 DEF Backed
    <3>4. CASE Live(u)
      <4>1. IF copy[m].waiting THEN Whole \in isOutbid[u] ELSE isOutbid[u] = {}
        BY <2>1, <2>8, <3>4 DEF SlotAt, WholeAt
      <4>2. CASE copy[m].waiting
        <5>1. Whole \in isOutbid'[u] /\ Whole \in Flags(u)' /\ Live(u)' /\ status'[u] # "new"
          BY <2>1, <2>2, <2>4, <2>8, <3>4, <4>1, <4>2 DEF Live, Flags
        <5> QED
          BY <2>8, <3>1, <3>3, <5>1 DEF Backed
      <4>3. CASE ~copy[m].waiting
        <5>1. ~row'[u].waiting /\ Live(u)' /\ status'[u] # "new" /\ asks'[u][Whole] = 0
          BY <2>1, <2>2, <2>4, <2>5, <2>8, <3>4, <4>1, <4>3 DEF Live
        <5> QED
          BY <2>8, <3>1, <3>3, <5>1 DEF Backed
      <4> QED
        BY <4>2, <4>3
    <3>5. CASE ~Live(u)
      <4>1. ~row[u].waiting
        BY <2>1, <3>5 DEF Backed
      <4> QED
        BY <2>1, <2>2, <2>4, <2>8, <3>1, <3>3, <3>5, <4>1 DEF Backed, Live
    <3> QED
      BY <3>4, <3>5
  <2>9. ASSUME u \notin Aggregated PROVE Backed(u)'
    <3>1. ASSUME NEW s \in Slot, Slots(u) = {s} PROVE asks'[u][s] = 0
      <4>1. OneSlotAt(m, s)
        BY <1>c, <2>1, <2>9, <3>1 DEF SlotAt
      <4> QED
        BY <2>1, <2>5, <2>9, <4>1 DEF OneSlotAt
    <3>2. ~Live(u)' => ~row'[u].waiting
      BY <2>1, <2>2, <2>4 DEF Backed, Live
    <3>3. status'[u] # "new"
      BY <2>1, <2>2
    <3> QED
      BY <2>9, <3>1, <3>2, <3>3 DEF Backed
  <2> QED
    BY <2>1, <2>6, <2>7, <2>8, <2>9, SlotElsewhere
<1>9. ASSUME NEW t \in Tracker, CreateTracker(t) \/ DeleteTracker(t) PROVE SlotInv'
  <2> DEFINE m == MarketOf[t]
  <2>1. m \in Market
    BY MarketAssumption
  <2>2. UNCHANGED <<pc, copy, left, cur>> /\ Elsewhere(m, t)
    BY <1>9 DEF CreateTracker, DeleteTracker, InsertTracker, DeleteRow, Elsewhere,
                worker, TypeInv, TypeOK, StoreTypeOK
  <2>3. ASSUME NEW n \in Market, pc[n] \in Holding, copy[n].id # t PROVE SlotAt(n)'
    <3>1. copy[n].id \in Tracker \ {t}
      BY <2>3, Held
    <3> QED
      <4> DEFINE v == copy[n].id
      <4>1. /\ pc'[n] = pc[n] /\ copy'[n] = copy[n] /\ left'[n] = left[n] /\ cur'[n] = cur[n]
            /\ status'[v] = status[v] /\ row'[v] = row[v] /\ outbidded'[v] = outbidded[v]
            /\ asks'[v] = asks[v] /\ isOutbid'[v] = isOutbid[v]
        BY <2>2, <3>1 DEF Elsewhere
      <4>2. SlotAt(n)
        BY <1>b, <2>3
      <4>3. CASE v \in Aggregated
        BY <4>1, <4>2, <4>3 DEF SlotAt, WholeAt, Live
      <4>4. CASE v \notin Aggregated
        BY <4>1, <4>2, <4>4 DEF SlotAt, OneSlotAt, Live
      <4> QED
        BY <4>3, <4>4
  <2>4. ASSUME \A n \in Market : pc[n] \in Holding /\ copy[n].id = t => SlotAt(n)', Backed(t)'
        PROVE  SlotInv'
    <3>1. ASSUME NEW n \in Market, pc'[n] \in Holding PROVE SlotAt(n)'
      BY <2>2, <2>3, <2>4, <3>1
    <3>2. ASSUME NEW u \in Tracker \ {t} PROVE Backed(u)'
      BY <1>b, <2>2 DEF Elsewhere, Backed, Live, Flags, At
    <3> QED
      BY <2>4, <3>1, <3>2 DEF SlotInv
  <2>5. CASE CreateTracker(t)
    <3>1. /\ status[t] = "new" /\ status'[t] = "live" /\ asks' = asks
          /\ row'[t].waiting = FALSE
      BY <2>5 DEF CreateTracker, InsertTracker, TypeInv, TypeOK, StoreTypeOK
    <3>2. Backed(t)'
      BY <1>b, <3>1 DEF Backed
    <3>3. \A n \in Market : pc[n] \in Holding => copy[n].id # t
      BY <3>1, Held
    <3> QED
      BY <2>4, <3>2, <3>3
  <2>6. CASE DeleteTracker(t)
    <3>1. /\ status'[t] = "deleted" /\ \A s \in Slot : asks'[t][s] = 0
          /\ row'[t].waiting = FALSE
      BY <2>6 DEF DeleteTracker, DeleteRow, NoRow, TypeInv, TypeOK, StoreTypeOK
    <3>2. Backed(t)'
      BY <3>1 DEF Backed, Live
    <3>3. ASSUME NEW n \in Market, pc[n] \in Holding, copy[n].id = t PROVE SlotAt(n)'
      BY <1>b, <2>2, <3>1, <3>3 DEF SlotAt, OneSlotAt, WholeAt, Live, Slot
    <3> QED
      BY <2>4, <3>2, <3>3
  <2> QED
    BY <1>9, <2>5, <2>6
<1> QED
  BY <1>1, <1>2, <1>3, <1>4, <1>5, <1>6, <1>7, <1>8, <1>9, QuietSteps
  DEF Next, ObserverStep, UserStep, ListStep, WorkerStep, CheckStep

(* Without failures and PATCH requests: Notify is called for a tracker     *)
(* with one slot once until it is on top again, although its flag is       *)
(* written after the call, by a statement of its own, and deleted by the   *)
(* next Save.                                                              *)
THEOREM NoNotifyIsRepeated ==
    ASSUME Request = {}, ~DbFails, ~Crashes
    PROVE  Spec => []NoRepeatedNotify
<1> DEFINE Inv == TypeInv /\ IntactInv /\ RoundInv /\ SlotInv
<1>1. Inv => NoRepeatedNotify
  BY DEF SlotInv, Backed, NoRepeatedNotify
<1>2. Init => Inv
  BY TypeInit, IntactInit, RoundInit, SlotInit
<1>3. Inv /\ [Next]_vars => Inv'
  BY TypeStep, IntactStep, RoundStep, SlotStep
<1> HIDE DEF Inv
<1> QED
  BY <1>1, <1>2, <1>3, PTL DEF Spec

(* Under the same assumptions the flag of a tracker, aggregated or not,    *)
(* agrees with the last verdict, up to the statement that writes it.       *)
THEOREM AllFlagsTruthful ==
    ASSUME Request = {}, ~DbFails, ~Crashes
    PROVE  Spec => []FlagsTruthful
<1> DEFINE Inv == TypeInv /\ IntactInv /\ RoundInv /\ FlagInv /\ SlotInv
<1>1. Inv => FlagsTruthful
  BY MarketAssumption DEF FlagInv, SlotInv, Backed, FlagsTruthful
<1>2. Init => Inv
  BY TypeInit, IntactInit, RoundInit, FlagInit, SlotInit
<1>3. Inv /\ [Next]_vars => Inv'
  BY TypeStep, IntactStep, RoundStep, FlagStep, SlotStep
<1> HIDE DEF Inv
<1> QED
  BY <1>1, <1>2, <1>3, PTL DEF Spec

-----------------------------------------------------------------------------
(* The verdicts on trackers with one slot, whatever fails: the copy of a   *)
(* worker that is still to judge agrees with the tables on the flag, or is *)
(* of a tracker deleted since, and one that is not going to alert any more *)
(* has nothing left to judge.                                              *)
WholeVerdict(m) ==
    LET c == copy[m]  t == copy[m].id IN
    /\ pc[m] \notin {"set", "clear"}
    /\ pc[m] \in {"methods", "check"} =>
         IF Live(t) THEN c.waiting = row[t].waiting ELSE isOutbid[t] = {}
    /\ pc[m] = "save" =>
         IF c.waiting THEN Live(t) => isOutbid[t] # {} ELSE isOutbid[t] = {}

MethodVerdict(m) ==
    LET c == copy[m]  t == copy[m].id IN
    /\ pc[m] # "methods" => left[m] \subseteq PaymentOf[t]
    /\ pc[m] \in {"set", "clear"} => cur[m] \in PaymentOf[t]
    /\ pc[m] \in {"set", "clear", "save"} => left[m] = {}
    /\ pc[m] = "set" /\ Live(t) => isOutbid[t] # {}
    /\ pc[m] \in {"clear", "save"} => isOutbid[t] = {}
    /\ pc[m] = "check" /\ left[m] # {} =>
         IF Live(t) THEN c.flagged = outbidded[t] ELSE isOutbid[t] = {}

VerdictAt(m) == IF copy[m].id \in Aggregated THEN WholeVerdict(m) ELSE MethodVerdict(m)

Judged(t) == isOutbid[t] \subseteq Slots(t) /\ (status[t] = "new" => isOutbid[t] = {})

VerdictInv ==
    /\ \A t \in Tracker : Judged(t)
    /\ \A m \in Market : pc[m] \in Holding => VerdictAt(m)

LEMMA VerdictInit == Init => VerdictInv
BY DEF Init, StoreInit, VerdictInv, Judged, Holding

LEMMA VerdictQuiet ==
    ASSUME VerdictInv, Quiet PROVE VerdictInv'
<1>1. ASSUME NEW t \in Tracker PROVE Judged(t)'
  BY DEF VerdictInv, Quiet, Judged, Slots, store
<1>2. ASSUME NEW m \in Market, pc'[m] \in Holding PROVE VerdictAt(m)'
  BY <1>2 DEF VerdictInv, Quiet, VerdictAt, WholeVerdict, MethodVerdict, Live, store
<1> QED
  BY <1>1, <1>2 DEF VerdictInv

(* A worker and the tracker it holds are left alone.                       *)
LEMMA VerdictKept ==
    ASSUME NEW n \in Market, NEW v, v = copy[n].id, VerdictAt(n),
           UNCHANGED <<pc[n], copy[n], left[n], cur[n]>>,
           UNCHANGED <<status[v], row[v], outbidded[v], isOutbid[v]>>
    PROVE  VerdictAt(n)'
<1>1. CASE v \in Aggregated
  BY <1>1 DEF VerdictAt, WholeVerdict, Live
<1>2. CASE v \notin Aggregated
  BY <1>2 DEF VerdictAt, MethodVerdict, Live
<1> QED
  BY <1>1, <1>2

LEMMA VerdictElsewhere ==
    ASSUME TypeInv, IntactInv, RoundInv, VerdictInv,
           NEW m \in Market, NEW u \in Tracker, MarketOf[u] = m, Elsewhere(m, u),
           Judged(u)', pc'[m] \in Holding => VerdictAt(m)'
    PROVE  VerdictInv'
<1>1. ASSUME NEW t \in Tracker PROVE Judged(t)'
  BY DEF VerdictInv, Elsewhere, Judged, Slots
<1>2. ASSUME NEW n \in Market, pc'[n] \in Holding PROVE VerdictAt(n)'
  <2>1. CASE n = m
    BY <1>2, <2>1
  <2>2. CASE n # m
    <3>1. pc[n] \in Holding /\ UNCHANGED <<pc[n], copy[n], left[n], cur[n]>>
      BY <1>2, <2>2 DEF Elsewhere
    <3>2. PICK v \in Tracker \ {u} : v = copy[n].id
      BY <2>2, <3>1, Held
    <3>3. UNCHANGED <<status[v], row[v], outbidded[v], isOutbid[v]>>
      BY <3>2 DEF Elsewhere
    <3>4. VerdictAt(n)
      BY <3>1 DEF VerdictInv
    <3> QED
      BY <3>1, <3>2, <3>3, <3>4, VerdictKept
  <2> QED
    BY <2>1, <2>2
<1> QED
  BY <1>1, <1>2 DEF VerdictInv

-----------------------------------------------------------------------------
(* What a step of the observer can mean for the alerts: it judges one      *)
(* tracker, and alerts about it only if no flag says it was done before,   *)
(* or it writes a flag, or drops one that is still to be written.          *)
Judges(u) ==
    /\ UNCHANGED store
    /\ ~Recording(u)
    /\ \A t \in Tracker \ {u} : /\ isOutbid'[t] = isOutbid[t] /\ asks'[t] = asks[t]
                                /\ Recording(t)' <=> Recording(t)
    /\ \/ isOutbid'[u] = {} /\ asks'[u] = asks[u]
       \/ /\ isOutbid'[u] # {} /\ Recording(u)'
          /\ Notifies(u) => IF Live(u) THEN Flags(u) = {} ELSE isOutbid[u] = {}

Writes ==
    /\ UNCHANGED <<status, isOutbid>>
    /\ \A t \in Tracker :
         /\ ~Notifies(t)
         /\ Recording(t)' => Recording(t)
         /\ Live(t) /\ isOutbid[t] # {} /\ Flags(t) # {} => Flags(t)' # {}

Outcome == Writes \/ \E u \in Tracker : Judges(u)

LEMMA SameTold ==
    ASSUME TypeInv, NEW t \in Tracker, asks'[t] = asks[t] PROVE ~Notifies(t)
<1>1. \A s \in Slot : asks[t][s] \in Nat
  BY CapAssumption DEF TypeInv, TypeOK
<1> QED
  BY <1>1 DEF Notifies

LEMMA QuietOutcome == TypeInv /\ Quiet => Writes
<1> SUFFICES ASSUME TypeInv, Quiet PROVE Writes
  OBVIOUS
<1> USE MarketAssumption
<1>1. UNCHANGED <<status, row, outbidded, asks, isOutbid>>
  BY DEF Quiet, store
<1>2. ASSUME NEW t \in Tracker
      PROVE  /\ ~Notifies(t)
             /\ Recording(t)' => Recording(t)
             /\ Flags(t)' = Flags(t)
  <2>1. ~Notifies(t) /\ Flags(t)' = Flags(t)
    BY <1>1, SameTold DEF Flags
  <2>2. Recording(t)' => Recording(t)
    BY DEF Quiet, Recording, At, Holding
  <2> QED
    BY <2>1, <2>2
<1> QED
  BY <1>1, <1>2 DEF Writes

(* Only the worker of a tracker is recording an alert about it.            *)
LEMMA RecordingElsewhere ==
    ASSUME TypeInv, IntactInv, RoundInv, NEW m \in Market, NEW u \in Tracker,
           MarketOf[u] = m, Elsewhere(m, u),
           pc[m] \in Holding => copy[m].id = u,
           pc'[m] \in Holding => copy'[m].id = u,
           NEW t \in Tracker \ {u}
    PROVE  Recording(t)' <=> Recording(t)
<1>1. CASE MarketOf[t] = m
  BY <1>1 DEF Recording, At, Holding
<1>2. CASE MarketOf[t] # m
  <2>1. MarketOf[t] \in Market \ {m}
    BY <1>2, MarketAssumption
  <2> QED
    BY <2>1 DEF Elsewhere, Recording, At
<1> QED
  BY <1>1, <1>2

(* A step of worker m that touches only the flags of u.                    *)
LEMMA WritesElsewhere ==
    ASSUME TypeInv, IntactInv, RoundInv, NEW m \in Market, NEW u \in Tracker,
           MarketOf[u] = m, Elsewhere(m, u),
           pc[m] \in Holding => copy[m].id = u,
           pc'[m] \in Holding => copy'[m].id = u,
           UNCHANGED <<status, isOutbid>>, ~Notifies(u),
           Recording(u)' => Recording(u),
           Live(u) /\ isOutbid[u] # {} /\ Flags(u) # {} => Flags(u)' # {}
    PROVE  Writes
<1>1. ASSUME NEW t \in Tracker \ {u}
      PROVE  /\ ~Notifies(t)
             /\ Recording(t)' => Recording(t)
             /\ Flags(t)' = Flags(t)
  <2>1. ~Notifies(t)
    BY SameTold DEF Elsewhere
  <2>2. Flags(t)' = Flags(t)
    BY DEF Elsewhere, Flags
  <2> QED
    BY <2>1, <2>2, RecordingElsewhere
<1> QED
  BY <1>1 DEF Writes

(* With one slot a tracker, every step of the observer, a stop of it       *)
(* included, judges, writes or forgets, whatever fails.                    *)
LEMMA VerdictStep ==
    ASSUME OneSlot, TypeInv, IntactInv, RoundInv, VerdictInv,
           ObserverStep \/ Crash \/ Restart \/ UNCHANGED vars
    PROVE  VerdictInv' /\ Outcome
<1> USE DEF Holding
<1>a. TypeInv'
  BY TypeStep DEF Next
<1>b. /\ \A t \in Tracker : Judged(t)
      /\ \A m \in Market : pc[m] \in Holding => VerdictAt(m)
  BY DEF VerdictInv
<1>c. \A t \in Tracker \ Aggregated : \A pm \in PaymentOf[t] : PaymentOf[t] = {pm}
  BY DEF OneSlot, Slots
<1>1. CASE Quiet
  BY <1>1, VerdictQuiet, QuietOutcome DEF Outcome
<1>2. ASSUME NEW m \in Market, NEW t \in Tracker, LoadTracker(m, t)
      PROVE  VerdictInv' /\ Outcome
  <2>1. /\ UNCHANGED <<status, row, methods, outbidded, asks, isOutbid>>
        /\ pc[m] = "next" /\ pc'[m] = "methods" /\ copy'[m] = SelectTracker(t)
        /\ Elsewhere(m, t) /\ Live(t)
    BY <1>2 DEF LoadTracker, Elsewhere, store, history, TypeInv, TypeOK
  <2>2. MarketOf[t] = m
    BY <1>2 DEF LoadTracker, RoundInv
  <2>3. copy'[m].id = t /\ copy'[m].waiting = row[t].waiting
    BY <2>1 DEF SelectTracker
  <2>4. VerdictAt(m)'
    BY <2>1, <2>3 DEF VerdictAt, WholeVerdict, MethodVerdict, Live
  <2>5. Judged(t)'
    BY <1>b, <2>1 DEF Judged, Slots
  <2>6. ~Notifies(t) /\ ~Recording(t)' /\ Flags(t)' = Flags(t)
    BY <2>1, <2>2, SameTold DEF Recording, At, Flags
  <2> QED
    BY <2>1, <2>2, <2>3, <2>4, <2>5, <2>6, VerdictElsewhere, WritesElsewhere DEF Outcome
<1>3. ASSUME NEW m \in Market, LoadMethods(m) PROVE VerdictInv' /\ Outcome
  <2>0. PICK u \in Tracker : u = copy[m].id
    BY <1>3, Held DEF LoadMethods
  <2>1. /\ copy[m] \in Copy /\ u = copy[m].id /\ MarketOf[u] = m
        /\ pc[m] = "methods" /\ VerdictAt(m) /\ status[u] # "new"
    BY <1>3, <2>0, <1>b, Held DEF LoadMethods
  <2>2. /\ UNCHANGED <<status, row, methods, outbidded, asks, isOutbid>>
        /\ pc'[m] = "check" /\ copy'[m] = WithMethods(copy[m])
        /\ left'[m] = methods[u]
        /\ Elsewhere(m, u)
    BY <1>3, <2>1 DEF LoadMethods, Elsewhere, store, history, TypeInv, TypeOK
  <2>3. /\ copy'[m].id = u /\ copy'[m].waiting = copy[m].waiting
        /\ copy'[m].flagged = outbidded[u]
    BY <2>1, <2>2 DEF WithMethods, Copy
  <2>4. methods[u] = IF Live(u) THEN PaymentOf[u] ELSE {}
    BY DEF IntactInv, MethodsIntact
  <2>5. VerdictAt(m)'
    <3>1. CASE u \in Aggregated
      BY <2>1, <2>2, <2>3, <3>1 DEF VerdictAt, WholeVerdict, Live
    <3>2. CASE u \notin Aggregated
      BY <2>1, <2>2, <2>3, <2>4, <3>2 DEF VerdictAt, MethodVerdict, Live
    <3> QED
      BY <3>1, <3>2
  <2>6. Judged(u)'
    BY <1>b, <2>2 DEF Judged, Slots
  <2>7. ~Notifies(u) /\ ~Recording(u)' /\ Flags(u)' = Flags(u)
    BY <2>1, <2>2, SameTold DEF Recording, At, Flags
  <2> QED
    BY <2>1, <2>2, <2>3, <2>5, <2>6, <2>7, VerdictElsewhere, WritesElsewhere DEF Outcome
<1>4. ASSUME NEW m \in Market, CheckAggregated(m) PROVE VerdictInv' /\ Outcome
  <2>0. PICK u \in Tracker : u = copy[m].id
    BY <1>4, Held DEF CheckAggregated
  <2> DEFINE ad == FirstAd(ads[m], copy[m].pms)
  <2>1. /\ copy[m] \in Copy /\ u = copy[m].id /\ MarketOf[u] = m
        /\ pc[m] = "check" /\ VerdictAt(m) /\ u \in Aggregated
        /\ status[u] # "new" /\ Slots(u) = {Whole} /\ copy[m] # NoCopy
    BY <1>4, <2>0, <1>b, Held, MarketAssumption DEF CheckAggregated, Slots
  <2>2. /\ UNCHANGED <<store, status, row, methods, outbidded>>
        /\ \A n \in Market \ {m} : /\ pc'[n] = pc[n] /\ copy'[n] = copy[n]
                                   /\ left'[n] = left[n] /\ cur'[n] = cur[n]
    BY <1>4, <2>1 DEF CheckAggregated, Leave, store, TypeInv, TypeOK
  <2>3. IF Live(u) THEN copy[m].waiting = row[u].waiting ELSE isOutbid[u] = {}
    BY <2>1 DEF VerdictAt, WholeVerdict
  <2>4. ~Recording(u)
    BY <2>1 DEF Recording, At
  <2>5. CASE Leave(m) /\ UNCHANGED history
    <3>1. Quiet
      BY <1>4, <2>5 DEF CheckAggregated, Leave, Quiet, history, TypeInv, TypeOK
    <3> QED
      BY <3>1, VerdictQuiet, QuietOutcome DEF Outcome
  <2>6. CASE /\ IF copy[m].waiting THEN UNCHANGED asks ELSE Notify(copy[m], Whole)
             /\ copy' = [copy EXCEPT ![m] = Outbidden(@)]
             /\ isOutbid' = [isOutbid EXCEPT ![u] = {Whole}]
             /\ pc' = [pc EXCEPT ![m] = "save"]
             /\ UNCHANGED <<left, cur, setting, patched, disturbed>>
    <3>1. /\ pc'[m] = "save" /\ isOutbid'[u] = {Whole}
          /\ \A t \in Tracker \ {u} : isOutbid'[t] = isOutbid[t]
          /\ copy'[m] = Outbidden(copy[m]) /\ copy'[m] \in Copy
      BY <1>a, <2>1, <2>6 DEF TypeInv, TypeOK
    <3>2. copy'[m].id = u /\ copy'[m].waiting = TRUE
      BY <2>1, <3>1 DEF Outbidden, Copy
    <3>3. /\ \A t \in Tracker \ {u} : asks'[t] = asks[t]
          /\ copy[m].waiting => asks'[u] = asks[u]
      <4>1. CASE copy[m].waiting
        BY <2>6, <4>1
      <4>2. CASE ~copy[m].waiting
        BY <2>1, <2>6, <4>2, NotifyTells DEF TypeInv, Slot
      <4> QED
        BY <4>1, <4>2
    <3>4. Elsewhere(m, u)
      BY <2>2, <3>1, <3>3 DEF Elsewhere
    <3>5. VerdictAt(m)'
      BY <2>1, <3>1, <3>2 DEF VerdictAt, WholeVerdict
    <3>6. Judged(u)'
      BY <2>1, <2>2, <3>1 DEF Judged, Slots
    <3>7. Recording(u)'
      BY <2>1, <3>1, <3>2, MarketAssumption DEF Recording, At
    <3>8. Notifies(u) => IF Live(u) THEN Flags(u) = {} ELSE isOutbid[u] = {}
      BY <2>1, <2>3, <3>3, SameTold DEF Flags
    <3>9. \A t \in Tracker \ {u} : Recording(t)' <=> Recording(t)
      BY <2>1, <3>2, <3>4, RecordingElsewhere
    <3>10. Judges(u)
      BY <2>2, <2>4, <3>1, <3>3, <3>7, <3>8, <3>9 DEF Judges
    <3> QED
      BY <2>1, <3>4, <3>5, <3>6, <3>10, VerdictElsewhere DEF Outcome
  <2>7. CASE /\ copy' = [copy EXCEPT ![m] = OnTop(@, ad)]
             /\ isOutbid' = [isOutbid EXCEPT ![u] = {}]
             /\ pc' = [pc EXCEPT ![m] = "save"]
             /\ UNCHANGED <<left, cur, asks, setting, patched, disturbed>>
    <3>1. /\ pc'[m] = "save" /\ isOutbid'[u] = {}
          /\ \A t \in Tracker \ {u} : isOutbid'[t] = isOutbid[t]
          /\ copy'[m] = OnTop(copy[m], ad)
      BY <2>1, <2>7 DEF TypeInv, TypeOK
    <3>2. copy'[m].id = u /\ copy'[m].waiting = FALSE
      BY <2>1, <3>1 DEF OnTop, Copy
    <3>3. Elsewhere(m, u)
      BY <2>2, <2>7, <3>1 DEF Elsewhere
    <3>4. VerdictAt(m)'
      BY <2>1, <3>1, <3>2 DEF VerdictAt, WholeVerdict
    <3>5. Judged(u)'
      BY <3>1 DEF Judged
    <3>6. \A t \in Tracker \ {u} : Recording(t)' <=> Recording(t)
      BY <2>1, <3>2, <3>3, RecordingElsewhere
    <3>7. Judges(u)
      BY <2>2, <2>4, <2>7, <3>1, <3>6 DEF Judges
    <3> QED
      BY <2>1, <3>3, <3>4, <3>5, <3>7, VerdictElsewhere DEF Outcome
  <2> QED
    BY <1>4, <2>1, <2>5, <2>6, <2>7 DEF CheckAggregated
<1>5. ASSUME NEW m \in Market, NEW pm \in Method, CheckMethod(m, pm)
      PROVE  VerdictInv' /\ Outcome
  <2>0. PICK u \in Tracker : u = copy[m].id
    BY <1>5, Held DEF CheckMethod
  <2>1. /\ copy[m] \in Copy /\ u = copy[m].id /\ MarketOf[u] = m
        /\ pc[m] = "check" /\ VerdictAt(m) /\ u \notin Aggregated /\ pm \in left[m]
        /\ status[u] # "new" /\ copy[m] # NoCopy
    BY <1>5, <2>0, <1>b, Held, MarketAssumption DEF CheckMethod
  <2>2. /\ UNCHANGED <<store, status, row, methods, outbidded, copy>>
        /\ left'[m] = left[m] \ {pm}
        /\ \A n \in Market \ {m} : left'[n] = left[n]
    BY <1>5, <2>1 DEF CheckMethod, store, TypeInv, TypeOK
  <2>3. /\ left[m] \subseteq PaymentOf[u] /\ pm \in PaymentOf[u]
        /\ IF Live(u) THEN copy[m].flagged = outbidded[u] ELSE isOutbid[u] = {}
    BY <2>1 DEF VerdictAt, MethodVerdict
  <2>4. Slots(u) = {pm} /\ left'[m] = {} /\ isOutbid[u] \subseteq {pm}
    BY <1>b, <1>c, <2>1, <2>2, <2>3 DEF Slots, Judged
  <2>5. ~Recording(u)
    BY <2>1 DEF Recording, At
  <2>6. CASE UNCHANGED <<pc, cur, isOutbid, asks>>
    <3>1. Elsewhere(m, u)
      BY <2>2, <2>6 DEF Elsewhere
    <3>2. VerdictAt(m)'
      BY <2>1, <2>2, <2>4, <2>6 DEF VerdictAt, MethodVerdict
    <3>3. Judged(u)'
      BY <1>b, <2>2, <2>6 DEF Judged, Slots
    <3>4. ~Notifies(u) /\ ~Recording(u)' /\ Flags(u)' = Flags(u)
      BY <2>1, <2>2, <2>6, SameTold DEF Recording, At, Flags
    <3> QED
      BY <2>1, <2>2, <2>6, <3>1, <3>2, <3>3, <3>4, VerdictElsewhere, WritesElsewhere
      DEF Outcome
  <2>7. CASE /\ IF pm \in copy[m].flagged THEN UNCHANGED asks ELSE Notify(copy[m], pm)
             /\ isOutbid' = [isOutbid EXCEPT ![u] = @ \cup {pm}]
             /\ cur' = [cur EXCEPT ![m] = pm]
             /\ pc' = [pc EXCEPT ![m] = "set"]
    <3>1. /\ pc'[m] = "set" /\ cur'[m] = pm /\ isOutbid'[u] = {pm}
          /\ \A t \in Tracker \ {u} : isOutbid'[t] = isOutbid[t]
          /\ \A n \in Market \ {m} : pc'[n] = pc[n] /\ cur'[n] = cur[n]
      <4>1. isOutbid'[u] = isOutbid[u] \cup {pm}
        BY <2>7 DEF TypeInv, TypeOK
      <4>2. isOutbid[u] \cup {pm} = {pm}
        BY <2>4
      <4> QED
        BY <2>7, <4>1, <4>2 DEF TypeInv, TypeOK
    <3>2. /\ \A t \in Tracker \ {u} : asks'[t] = asks[t]
          /\ pm \in copy[m].flagged => asks'[u] = asks[u]
      <4>1. CASE pm \in copy[m].flagged
        BY <2>7, <4>1
      <4>2. CASE pm \notin copy[m].flagged
        BY <2>1, <2>7, <4>2, NotifyTells DEF TypeInv, Slot
      <4> QED
        BY <4>1, <4>2
    <3>3. Elsewhere(m, u)
      BY <2>2, <3>1, <3>2 DEF Elsewhere
    <3>4. VerdictAt(m)'
      BY <2>1, <2>2, <2>3, <2>4, <3>1 DEF VerdictAt, MethodVerdict
    <3>5. Judged(u)'
      BY <2>1, <2>2, <2>4, <3>1 DEF Judged, Slots
    <3>6. Recording(u)'
      BY <2>1, <2>2, <3>1 DEF Recording, At
    <3>7. Notifies(u) => IF Live(u) THEN Flags(u) = {} ELSE isOutbid[u] = {}
      <4>1. Live(u) => outbidded[u] \subseteq {pm}
        BY <2>1, <2>4 DEF Slots, IntactInv, MethodsIntact
      <4> QED
        BY <2>1, <2>3, <3>2, <4>1, SameTold DEF Flags
    <3>8. \A t \in Tracker \ {u} : Recording(t)' <=> Recording(t)
      BY <2>1, <2>2, <3>3, RecordingElsewhere
    <3>9. Judges(u)
      BY <2>2, <2>5, <3>1, <3>2, <3>6, <3>7, <3>8 DEF Judges
    <3> QED
      BY <2>1, <3>3, <3>4, <3>5, <3>9, VerdictElsewhere DEF Outcome
  <2>8. CASE /\ isOutbid' = [isOutbid EXCEPT ![u] = @ \ {pm}]
             /\ cur' = [cur EXCEPT ![m] = pm]
             /\ pc' = [pc EXCEPT ![m] = "clear"]
             /\ UNCHANGED asks
    <3>1. /\ pc'[m] = "clear" /\ cur'[m] = pm /\ isOutbid'[u] = {}
          /\ \A t \in Tracker \ {u} : isOutbid'[t] = isOutbid[t]
          /\ \A n \in Market \ {m} : pc'[n] = pc[n] /\ cur'[n] = cur[n]
      <4>1. isOutbid'[u] = isOutbid[u] \ {pm}
        BY <2>8 DEF TypeInv, TypeOK
      <4>2. isOutbid[u] \ {pm} = {}
        BY <2>4
      <4> QED
        BY <2>8, <4>1, <4>2 DEF TypeInv, TypeOK
    <3>2. Elsewhere(m, u)
      BY <2>2, <2>8, <3>1 DEF Elsewhere
    <3>3. VerdictAt(m)'
      BY <2>1, <2>2, <2>3, <2>4, <3>1 DEF VerdictAt, MethodVerdict
    <3>4. Judged(u)'
      BY <3>1 DEF Judged
    <3>5. \A t \in Tracker \ {u} : Recording(t)' <=> Recording(t)
      BY <2>1, <2>2, <3>2, RecordingElsewhere
    <3>6. Judges(u)
      BY <2>2, <2>5, <2>8, <3>1, <3>5 DEF Judges
    <3> QED
      BY <2>1, <3>2, <3>3, <3>4, <3>6, VerdictElsewhere DEF Outcome
  <2> QED
    BY <1>5, <2>1, <2>6, <2>7, <2>8 DEF CheckMethod
<1>6. ASSUME NEW m \in Market, SetOutbid(m) PROVE VerdictInv' /\ Outcome
  <2>0. PICK u \in Tracker : u = copy[m].id
    BY <1>6, Held DEF SetOutbid
  <2>1. /\ copy[m] \in Copy /\ u = copy[m].id /\ MarketOf[u] = m
        /\ pc[m] = "set" /\ VerdictAt(m)
    BY <1>6, <2>0, <1>b, Held DEF SetOutbid
  <2>2. /\ u \notin Aggregated
        /\ left[m] = {}
    BY <2>1 DEF VerdictAt, WholeVerdict, MethodVerdict
  <2>3. /\ UNCHANGED <<status, row, methods, asks, isOutbid, copy, left>>
        /\ pc'[m] = "check"
        /\ \A n \in Market \ {m} : pc'[n] = pc[n] /\ cur'[n] = cur[n]
    BY <1>6, <2>1 DEF SetOutbid, UpdateMethodOutbidded, store, history, TypeInv, TypeOK
  <2>4. /\ \A t \in Tracker \ {u} : outbidded'[t] = outbidded[t]
        /\ outbidded[u] \subseteq outbidded'[u]
    BY <1>6, <2>1 DEF SetOutbid, UpdateMethodOutbidded, store, TypeInv, TypeOK, StoreTypeOK
  <2>5. Elsewhere(m, u)
    BY <2>3, <2>4 DEF Elsewhere
  <2>6. VerdictAt(m)'
    BY <2>1, <2>2, <2>3 DEF VerdictAt, MethodVerdict
  <2>7. Judged(u)'
    BY <1>b, <2>3 DEF Judged, Slots
  <2>8. ~Notifies(u) /\ ~Recording(u)' /\ (Flags(u) # {} => Flags(u)' # {})
    BY <2>1, <2>2, <2>3, <2>4, SameTold DEF Recording, At, Flags
  <2> QED
    BY <2>1, <2>3, <2>5, <2>6, <2>7, <2>8, VerdictElsewhere, WritesElsewhere DEF Outcome
<1>7. ASSUME NEW m \in Market, ClearOutbid(m) PROVE VerdictInv' /\ Outcome
  <2>0. PICK u \in Tracker : u = copy[m].id
    BY <1>7, Held DEF ClearOutbid
  <2>1. /\ copy[m] \in Copy /\ u = copy[m].id /\ MarketOf[u] = m
        /\ pc[m] = "clear" /\ VerdictAt(m) /\ cur[m] \in Method
    BY <1>7, <2>0, <1>b, Held DEF ClearOutbid, TypeInv
  <2>2. /\ u \notin Aggregated /\ left[m] = {} /\ isOutbid[u] = {}
        /\ cur[m] \in PaymentOf[u]
    BY <2>1 DEF VerdictAt, WholeVerdict, MethodVerdict
  <2>3. /\ UNCHANGED <<status, row, isOutbid, left, cur>>
        /\ pc'[m] = "save"
        /\ \A n \in Market \ {m} : pc'[n] = pc[n] /\ copy'[n] = copy[n]
    BY <1>7, <2>1 DEF ClearOutbid, UpdateMethodOutbidded, store, TypeInv, TypeOK
  <2>4. copy'[m].id = u
    <3>1. copy'[m] = [copy[m] EXCEPT !.price = FirstAd(ads[m], {cur[m]}).price]
      BY <1>7 DEF ClearOutbid, TypeInv, TypeOK
    <3> QED
      BY <2>1, <3>1 DEF Copy
  <2>5. /\ \A t \in Tracker \ {u} : outbidded'[t] = outbidded[t] /\ asks'[t] = asks[t]
        /\ \A s \in Slot : asks'[u][s] <= asks[u][s]
    <3>1. \A t \in Tracker \ {u} : outbidded'[t] = outbidded[t]
      BY <1>7, <2>1
      DEF ClearOutbid, UpdateMethodOutbidded, store, TypeInv, TypeOK, StoreTypeOK
    <3>2. asks' = asks \/ asks' = [asks EXCEPT ![u][cur[m]] = 0]
      BY <1>7, <2>1 DEF ClearOutbid
    <3>3. \A s \in Slot : asks[u][s] \in Nat
      BY CapAssumption DEF TypeInv, TypeOK
    <3> QED
      <4>1. CASE asks' = asks
        BY <3>1, <3>3, <4>1
      <4>2. CASE asks' = [asks EXCEPT ![u][cur[m]] = 0]
        <5>1. /\ \A t \in Tracker \ {u} : asks'[t] = asks[t]
              /\ \A s \in Slot : asks'[u][s] = IF s = cur[m] THEN 0 ELSE asks[u][s]
          BY <4>2 DEF TypeInv, TypeOK
        <5> QED
          BY <3>1, <3>3, <5>1
      <4> QED
        BY <3>2, <4>1, <4>2
  <2>6. Elsewhere(m, u)
    BY <2>3, <2>5 DEF Elsewhere
  <2>7. VerdictAt(m)'
    BY <2>1, <2>2, <2>3, <2>4 DEF VerdictAt, MethodVerdict
  <2>8. Judged(u)'
    BY <1>b, <2>3 DEF Judged, Slots
  <2>9. ~Notifies(u)
    <3>1. \A s \in Slot : asks[u][s] \in Nat /\ asks'[u][s] \in Nat
      BY <1>a, CapAssumption DEF TypeInv, TypeOK
    <3> QED
      BY <2>5, <3>1 DEF Notifies
  <2>10. ~Recording(u)'
    BY <2>1, <2>2, <2>3 DEF Recording, At
  <2> QED
    BY <2>1, <2>2, <2>3, <2>4, <2>6, <2>7, <2>8, <2>9, <2>10,
       VerdictElsewhere, WritesElsewhere DEF Outcome
<1>8. ASSUME NEW m \in Market, SaveTracker(m) PROVE VerdictInv' /\ Outcome
  <2>0. PICK u \in Tracker : u = copy[m].id
    BY <1>8, Held DEF SaveTracker
  <2>1. /\ copy[m] \in Copy /\ u = copy[m].id /\ MarketOf[u] = m
        /\ pc[m] = "save" /\ VerdictAt(m)
    BY <1>8, <2>0, <1>b, Held DEF SaveTracker
  <2>2. /\ UNCHANGED <<status, isOutbid>>
        /\ \A n \in Market \ {m} : /\ pc'[n] = pc[n] /\ copy'[n] = copy[n]
                                   /\ left'[n] = left[n] /\ cur'[n] = cur[n]
        /\ \/ pc'[m] = "next"
           \/ pc'[m] = "check" /\ copy' = copy /\ left' = left /\ u \notin Aggregated
    BY <1>8, <2>1 DEF SaveTracker, Leave, UpdateTracker, store, TypeInv, TypeOK
  <2>3. /\ \A t \in Tracker \ {u} : row'[t] = row[t] /\ outbidded'[t] = outbidded[t]
        /\ Live(u) => row'[u].waiting \in {row[u].waiting, copy[m].waiting}
    <3>1. CASE Live(u) /\ UpdateTracker(copy[m])
      <4>1. /\ row' = [row EXCEPT ![u] = [notify |-> copy[m].notify, price |-> copy[m].price,
                                          waiting |-> copy[m].waiting]]
            /\ outbidded' = [outbidded EXCEPT ![u] = {}]
        BY <2>1, <3>1 DEF UpdateTracker, Live
      <4>2. row'[u].waiting = copy[m].waiting
        BY <4>1 DEF TypeInv, TypeOK, StoreTypeOK
      <4> QED
        BY <4>1, <4>2
    <3>2. CASE UNCHANGED store
      BY <3>2 DEF store
    <3> QED
      BY <1>8, <2>1, <3>1, <3>2 DEF SaveTracker, UpdateTracker
  <2>4. /\ \A t \in Tracker \ {u} : asks'[t] = asks[t]
        /\ \A s \in Slot : asks'[u][s] <= asks[u][s]
    <3>1. asks' = asks \/ asks' = [asks EXCEPT ![u][Whole] = 0]
      BY <1>8, <2>1 DEF SaveTracker
    <3>2. \A s \in Slot : asks[u][s] \in Nat
      BY CapAssumption DEF TypeInv, TypeOK
    <3> QED
      BY <3>1, <3>2 DEF Slot, TypeInv, TypeOK
  <2>5. Elsewhere(m, u)
    BY <2>2, <2>3, <2>4 DEF Elsewhere
  <2>6. pc'[m] \in Holding => VerdictAt(m)' /\ copy'[m].id = u
    BY <2>1, <2>2 DEF VerdictAt, MethodVerdict
  <2>7. Judged(u)'
    BY <1>b, <2>2 DEF Judged, Slots
  <2>8. ~Notifies(u)
    <3>1. \A s \in Slot : asks[u][s] \in Nat /\ asks'[u][s] \in Nat
      BY <1>a, CapAssumption DEF TypeInv, TypeOK
    <3> QED
      BY <2>4, <3>1 DEF Notifies
  <2>9. ~Recording(u)'
    BY <2>1, <2>2 DEF Recording, At
  <2>10. Live(u) /\ isOutbid[u] # {} /\ Flags(u) # {} => Flags(u)' # {}
    <3>1. CASE u \in Aggregated
      BY <2>1, <2>3, <3>1 DEF VerdictAt, WholeVerdict, Flags
    <3>2. CASE u \notin Aggregated
      BY <2>1, <3>2 DEF VerdictAt, MethodVerdict
    <3> QED
      BY <3>1, <3>2
  <2> QED
    BY <2>1, <2>2, <2>5, <2>6, <2>7, <2>8, <2>9, <2>10,
       VerdictElsewhere, WritesElsewhere DEF Outcome
<1> QED
  BY <1>1, <1>2, <1>3, <1>4, <1>5, <1>6, <1>7, <1>8, QuietSteps
  DEF ObserverStep, ListStep, WorkerStep, CheckStep

(* Users create and delete trackers.                                       *)
LEMMA VerdictUser ==
    ASSUME OneSlot, TypeInv, IntactInv, RoundInv, VerdictInv, UserStep
    PROVE  /\ VerdictInv'
           /\ \E t \in Tracker :
                /\ isOutbid' = [isOutbid EXCEPT ![t] = {}]
                /\ \A u \in Tracker \ {t} :
                     /\ Live(u)' <=> Live(u)
                     /\ Flags(u)' = Flags(u)
           /\ UNCHANGED <<pc, copy>>
<1> USE DEF Holding
<1>1. PICK t \in Tracker : CreateTracker(t) \/ DeleteTracker(t)
  BY DEF UserStep, OneSlot
<1>2. UNCHANGED <<pc, copy, left, cur>> /\ Elsewhere(MarketOf[t], t)
  BY <1>1 DEF CreateTracker, DeleteTracker, InsertTracker, DeleteRow, Elsewhere,
              worker, TypeInv, TypeOK, StoreTypeOK
<1>3. isOutbid' = [isOutbid EXCEPT ![t] = {}]
  <2>1. CASE CreateTracker(t)
    <3>1. isOutbid[t] = {} /\ isOutbid' = isOutbid
      BY <2>1 DEF CreateTracker, InsertTracker, VerdictInv, Judged
    <3> QED
      BY <3>1 DEF TypeInv, TypeOK
  <2>2. CASE DeleteTracker(t)
    BY <2>2 DEF DeleteTracker
  <2> QED
    BY <1>1, <2>1, <2>2
<1>4. \A u \in Tracker \ {t} : (Live(u)' <=> Live(u)) /\ Flags(u)' = Flags(u)
  BY <1>2 DEF Elsewhere, Live, Flags
<1>5. isOutbid'[t] = {}
  BY <1>3 DEF TypeInv, TypeOK
<1>6. ASSUME NEW u \in Tracker PROVE Judged(u)'
  BY <1>2, <1>5 DEF VerdictInv, Judged, Elsewhere, Slots
<1>7. ASSUME NEW n \in Market, pc'[n] \in Holding PROVE VerdictAt(n)'
  <2>1. PICK v \in Tracker : v = copy[n].id
    BY <1>2, <1>7, Held
  <2>2. VerdictAt(n) /\ UNCHANGED <<pc[n], copy[n], left[n], cur[n]>> /\ status[v] # "new"
    BY <1>2, <1>7, <2>1, Held DEF VerdictInv
  <2>3. CASE v # t
    <3>1. UNCHANGED <<status[v], row[v], outbidded[v], isOutbid[v]>>
      BY <1>2, <2>1, <2>3 DEF Elsewhere
    <3> QED
      BY <2>1, <2>2, <3>1, VerdictKept
  <2>4. CASE v = t
    <3>1. ~Live(t)' /\ isOutbid'[t] = {}
      BY <1>1, <1>5, <2>2, <2>4
      DEF CreateTracker, DeleteTracker, InsertTracker, DeleteRow, Live, TypeInv, TypeOK, StoreTypeOK
    <3> QED
      BY <1>2, <2>1, <2>2, <2>4, <3>1 DEF VerdictAt, WholeVerdict, MethodVerdict
  <2> QED
    BY <2>3, <2>4
<1> QED
  BY <1>2, <1>3, <1>4, <1>6, <1>7 DEF VerdictInv

-----------------------------------------------------------------------------
(* The accounts.  Of an episode there are never more publications than     *)
(* messages allowed, and when there are as many the alert is not to be     *)
(* repeated: its flag is in the tables, or on its way to them.             *)
AboutType ==
    /\ about \in Seq([tracker: Tracker \cup {NoCopy}, episode: Nat])
    /\ allowed \in [Tracker -> Seq(Nat)]
    /\ Len(about) = tried

EpisodesRise ==
    \A t \in Tracker : \A i, j \in DOMAIN about :
        about[i].tracker = t /\ about[j].tracker = t /\ i < j
            => about[i].episode <= about[j].episode

Owes(t) ==
    /\ isOutbid[t] # {} => Episode(t) # 0
    /\ isOutbid[t] # {} /\ Live(t) /\ Published(t) = allowed[t][Episode(t)]
         => Recording(t) \/ Flags(t) # {}

AccountInv ==
    /\ AboutType
    /\ EpisodesRise
    /\ \A t \in Tracker : \A i \in DOMAIN about :
         about[i].tracker = t => about[i].episode \in 1..Episode(t)
    /\ \A t \in Tracker : \A e \in 1..Episode(t) : Cardinality(About(t, e)) <= allowed[t][e]
    /\ \A t \in Tracker : Owes(t)

LEMMA AboutFacts ==
    ASSUME AboutType
    PROVE  /\ tried \in Nat /\ DOMAIN about = 1..tried
           /\ \A i \in 1..tried : /\ about[i].tracker \in Tracker \cup {NoCopy}
                                  /\ about[i].episode \in Nat
                                  /\ about[i] = [tracker |-> about[i].tracker,
                                                 episode |-> about[i].episode]
           /\ \A t, e : About(t, e) \subseteq 1..tried
           /\ \A t \in Tracker : /\ Episode(t) \in Nat
                                 /\ \A e \in 1..Episode(t) : allowed[t][e] \in Nat
<1> DEFINE R == [tracker: Tracker \cup {NoCopy}, episode: Nat]
<1>1. tried \in Nat /\ DOMAIN about = 1..tried
  BY LenProperties DEF AboutType
<1>2. \A i \in 1..tried : about[i] \in R
  <2> HIDE DEF R
  <2> QED
    BY <1>1, ElementOfSeq DEF AboutType, R
<1>3. \A t, e : About(t, e) \subseteq 1..tried
  BY <1>1 DEF About
<1>4. ASSUME NEW t \in Tracker
      PROVE  Episode(t) \in Nat /\ \A e \in 1..Episode(t) : allowed[t][e] \in Nat
  <2>1. allowed[t] \in Seq(Nat)
    BY DEF AboutType
  <2> QED
    BY <2>1, LenProperties, ElementOfSeq DEF Episode
<1> QED
  BY <1>1, <1>2, <1>3, <1>4

LEMMA Counted ==
    ASSUME AboutType, NEW t, NEW e, NEW S
    PROVE  /\ IsFiniteSet(About(t, e)) /\ Cardinality(About(t, e)) \in Nat
           /\ IsFiniteSet(About(t, e) \cap S) /\ Cardinality(About(t, e) \cap S) \in Nat
           /\ Cardinality(About(t, e) \cap S) <= Cardinality(About(t, e))
<1>1. IsFiniteSet(1..tried)
  BY AboutFacts, FS_Interval
<1>2. IsFiniteSet(About(t, e))
  BY <1>1, AboutFacts, FS_Subset
<1> QED
  BY <1>2, FS_Subset, FS_CardinalityType

(* A publication is noted.                                                 *)
LEMMA Noted ==
    ASSUME AboutType, NEW t \in Tracker \cup {NoCopy}, NEW e \in Nat, Note(t, e),
           tried' = tried + 1
    PROVE  /\ about' \in Seq([tracker: Tracker \cup {NoCopy}, episode: Nat])
           /\ Len(about') = tried'
           /\ DOMAIN about' = 1..(tried + 1)
           /\ \A i \in 1..tried : about'[i] = about[i]
           /\ about'[tried + 1] = [tracker |-> t, episode |-> e]
           /\ About(t, e)' = About(t, e) \cup {tried + 1}
           /\ Cardinality(About(t, e)') = Cardinality(About(t, e)) + 1
           /\ \A u, d : u # t \/ d # e => About(u, d)' = About(u, d)
<1> DEFINE R == [tracker: Tracker \cup {NoCopy}, episode: Nat]
           x == [tracker |-> t, episode |-> e]
<1>1. about \in Seq(R) /\ x \in R /\ about' = Append(about, x) /\ Len(about) = tried
  BY DEF AboutType, Note
<1>2. tried \in Nat /\ DOMAIN about = 1..tried
  BY AboutFacts
<1>3. /\ about' \in Seq(R) /\ Len(about') = tried + 1 /\ DOMAIN about' = 1..(tried + 1)
      /\ \A i \in 1..tried : about'[i] = about[i]
      /\ about'[tried + 1] = x
  <2> HIDE DEF R, x
  <2> QED
    BY <1>1, <1>2, AppendProperties, LenProperties
<1>4. About(t, e)' = About(t, e) \cup {tried + 1}
  BY <1>2, <1>3 DEF About
<1>5. ASSUME NEW u, NEW d, u # t \/ d # e PROVE About(u, d)' = About(u, d)
  <2>1. x # [tracker |-> u, episode |-> d]
    BY <1>5
  <2>2. \A i \in 1..(tried + 1) : i \in 1..tried \/ i = tried + 1
    BY <1>2
  <2> QED
    BY <1>2, <1>3, <2>1, <2>2 DEF About
<1>6. Cardinality(About(t, e)') = Cardinality(About(t, e)) + 1
  <2>1. tried + 1 \notin About(t, e)
    BY <1>2 DEF About
  <2>2. IsFiniteSet(About(t, e))
    BY Counted
  <2> QED
    BY <1>4, <2>1, <2>2, FS_AddElement
<1> QED
  BY <1>1, <1>3, <1>4, <1>5, <1>6

LEMMA AllowedFacts ==
    ASSUME AboutType, Account, NEW t \in Tracker, Forgets(t) => Episode(t) # 0
    PROVE  /\ allowed'[t] \in Seq(Nat)
           /\ Begins(t) => /\ allowed'[t] = Append(allowed[t], 1)
                           /\ Episode(t)' = Episode(t) + 1
                           /\ allowed'[t][Episode(t) + 1] = 1
                           /\ \A e \in 1..Episode(t) : allowed'[t][e] = allowed[t][e]
           /\ ~Begins(t) => /\ Episode(t)' = Episode(t)
                            /\ \A e \in 1..Episode(t) : allowed'[t][e] >= allowed[t][e]
           /\ ~Begins(t) /\ ~Forgets(t) => allowed'[t] = allowed[t]
           /\ ~Begins(t) /\ Forgets(t) =>
                /\ allowed'[t] = [allowed[t] EXCEPT ![Episode(t)] = @ + 1]
                /\ allowed'[t][Episode(t)] = allowed[t][Episode(t)] + 1
<1> DEFINE s == allowed[t]
           n == Episode(t)
<1>1. /\ s \in Seq(Nat) /\ n \in Nat /\ n = Len(s) /\ DOMAIN s = 1..n
      /\ \A e \in 1..n : s[e] \in Nat
  BY AboutFacts, LenProperties DEF AboutType, Episode
<1>2. allowed'[t] = IF Begins(t) THEN Append(s, 1)
                    ELSE IF Forgets(t) THEN [s EXCEPT ![n] = @ + 1] ELSE s
  BY DEF Account
<1>3. Len(allowed'[t]) = Episode(t)'
  BY DEF Episode
<1> HIDE DEF s, n
<1>4. CASE Begins(t)
  <2>1. 1 \in Nat /\ allowed'[t] = Append(s, 1)
    BY <1>2, <1>4
  <2>2. /\ Append(s, 1) \in Seq(Nat) /\ Len(Append(s, 1)) = n + 1
        /\ Append(s, 1)[n + 1] = 1
        /\ \A e \in 1..n : Append(s, 1)[e] = s[e]
    BY <1>1, <2>1, AppendProperties
  <2> QED
    BY <1>3, <1>4, <2>1, <2>2 DEF s, n
<1>5. CASE ~Begins(t) /\ Forgets(t)
  <2>1. n \in 1..n
    BY <1>1, <1>5 DEF n
  <2> DEFINE r == [s EXCEPT ![n] = @ + 1]
  <2>2. /\ r \in Seq(Nat) /\ Len(r) = n /\ r[n] = s[n] + 1
        /\ \A e \in 1..n : r[e] >= s[e]
    <3>1. s \in [1..n -> Nat] /\ s[n] + 1 \in Nat
      BY <1>1, <2>1
    <3>2. r \in [1..n -> Nat] /\ r[n] = s[n] + 1 /\ \A e \in 1..n : e # n => r[e] = s[e]
      BY <2>1, <3>1
    <3>3. \A e \in 1..n : r[e] >= s[e]
      BY <1>1, <3>2
    <3>4. r \in Seq(Nat) /\ Len(r) = n
      BY <1>1, <2>1, <3>1, ExceptSeq DEF n
    <3> QED
      BY <3>2, <3>3, <3>4
  <2>3. allowed'[t] = r
    BY <1>2, <1>5
  <2> HIDE DEF r
  <2>4. Episode(t)' = n
    BY <1>3, <2>2, <2>3
  <2> QED
    BY <1>5, <2>2, <2>3, <2>4 DEF s, n, r
<1>6. CASE ~Begins(t) /\ ~Forgets(t)
  <2>1. allowed'[t] = s
    BY <1>2, <1>6
  <2>2. \A e \in 1..n : s[e] >= s[e]
    BY <1>1
  <2> QED
    BY <1>1, <1>3, <1>6, <2>1, <2>2 DEF s, n
<1> QED
  BY <1>4, <1>5, <1>6

(* Nothing is published about an episode that has not started.             *)
LEMMA Unstarted ==
    ASSUME AccountInv, NEW t \in Tracker, NEW e \in Nat, e \notin 1..Episode(t)
    PROVE  About(t, e) = {} /\ Cardinality(About(t, e)) = 0
<1>1. About(t, e) = {}
  BY DEF AccountInv, About
<1> QED
  BY <1>1, FS_EmptySet

(* An alert that is being recorded is about a tracker that is outbid.      *)
LEMMA RecordsOutbid ==
    ASSUME VerdictInv, NEW t \in Tracker, Recording(t), Live(t)
    PROVE  isOutbid[t] # {}
<1>1. PICK m \in Market : m = MarketOf[t]
  BY MarketAssumption
<1>2. pc[m] \in {"set", "save"} /\ copy[m].id = t /\ VerdictAt(m)
  BY <1>1 DEF Recording, At, VerdictInv, Holding
<1>3. CASE t \in Aggregated
  BY <1>1, <1>2, <1>3 DEF Recording, At, VerdictAt, WholeVerdict
<1>4. CASE t \notin Aggregated
  BY <1>1, <1>2, <1>4 DEF Recording, At, VerdictAt, MethodVerdict
<1> QED
  BY <1>3, <1>4

LEMMA ForgetsOutbid ==
    ASSUME VerdictInv, AccountInv, Outcome, NEW t \in Tracker, Forgets(t)
    PROVE  isOutbid[t] # {} /\ Episode(t) # 0
<1>1. Live(t)
  BY DEF Forgets, Outcome, Writes, Judges, Live, store
<1> QED
  BY <1>1, RecordsOutbid DEF Forgets, AccountInv, Owes

(* A step that judges a tracker forgets no alert.                          *)
LEMMA JudgesForgetsNot ==
    ASSUME NEW u \in Tracker, Judges(u), NEW t \in Tracker
    PROVE  ~Forgets(t)
BY DEF Judges, Forgets

LEMMA WritesBeginsNot ==
    ASSUME Writes, NEW t \in Tracker
    PROVE  ~Begins(t)
BY DEF Writes, Begins

(* A verdict that is published: of whom, and why it may be.                *)
LEMMA PublishedVerdict ==
    ASSUME TypeInv, AccountInv, Outcome, Account, NEW u \in Tracker, Notifies(u)
    PROVE  /\ Judges(u) /\ isOutbid'[u] # {} /\ Recording(u)'
           /\ ~Begins(u) => /\ Episode(u) # 0
                            /\ Published(u) # allowed[u][Episode(u)]
<1>1. ~Writes
  BY DEF Writes
<1>2. PICK v \in Tracker : Judges(v)
  BY <1>1 DEF Outcome
<1>3. v = u
  BY <1>2, SameTold DEF Judges
<1>4. isOutbid'[u] # {} /\ Recording(u)' /\ ~Recording(u)
      /\ (IF Live(u) THEN Flags(u) = {} ELSE isOutbid[u] = {})
  BY <1>2, <1>3, SameTold DEF Judges
<1>5. ASSUME ~Begins(u)
      PROVE  Episode(u) # 0 /\ Published(u) # allowed[u][Episode(u)]
  <2>1. isOutbid[u] # {}
    BY <1>4, <1>5 DEF Begins
  <2> QED
    BY <1>4, <2>1 DEF AccountInv, Owes
<1> QED
  BY <1>2, <1>3, <1>4, <1>5

LEMMA AccountStep ==
    ASSUME TypeInv, VerdictInv, AccountInv, Outcome, Account,
           \/ \E t \in Tracker : /\ Notifies(t)
                                 /\ tried' = tried + 1
                                 /\ Note(t, Episode(t)')
           \/ UNCHANGED <<about, tried>>
    PROVE  AccountInv'
<1>a. AboutType /\ tried \in Nat /\ DOMAIN about = 1..tried
      /\ \A t \in Tracker : /\ Owes(t) /\ Episode(t) \in Nat
                            /\ \A e \in 1..Episode(t) : allowed[t][e] \in Nat
  BY AboutFacts DEF AccountInv
<1>b. \A t \in Tracker :
        /\ allowed'[t] \in Seq(Nat)
        /\ Begins(t) => /\ Episode(t)' = Episode(t) + 1
                        /\ allowed'[t][Episode(t) + 1] = 1
                        /\ \A e \in 1..Episode(t) : allowed'[t][e] = allowed[t][e]
        /\ ~Begins(t) => /\ Episode(t)' = Episode(t)
                         /\ \A e \in 1..Episode(t) : allowed'[t][e] >= allowed[t][e]
        /\ ~Begins(t) /\ ~Forgets(t) => allowed'[t] = allowed[t]
        /\ ~Begins(t) /\ Forgets(t) =>
             allowed'[t][Episode(t)] = allowed[t][Episode(t)] + 1
  BY <1>a, AllowedFacts, ForgetsOutbid
<1>c. allowed' \in [Tracker -> Seq(Nat)]
  BY <1>b DEF Account
<1>d. \A t \in Tracker : 1..Episode(t) \subseteq 1..Episode(t)'
  BY <1>a, <1>b
<1>1. CASE UNCHANGED <<about, tried>>
  <2>1. AboutType' /\ EpisodesRise'
    BY <1>1, <1>c DEF AccountInv, AboutType, EpisodesRise
  <2>2. \A t \in Tracker : \A i \in DOMAIN about' :
          about'[i].tracker = t => about'[i].episode \in 1..Episode(t)'
    BY <1>1, <1>d DEF AccountInv
  <2>3. \A t, e : About(t, e)' = About(t, e)
    BY <1>1 DEF About
  <2>4. ASSUME NEW t \in Tracker, NEW e \in 1..Episode(t)'
        PROVE  Cardinality(About(t, e)') <= allowed'[t][e]
    <3>1. CASE e \in 1..Episode(t)
      <4>1. /\ Cardinality(About(t, e)) <= allowed[t][e]
            /\ Cardinality(About(t, e)) \in Nat
        BY <1>a, <3>1, Counted DEF AccountInv
      <4>2. allowed[t][e] \in Nat /\ allowed'[t][e] >= allowed[t][e]
        <5>1. CASE Begins(t)
          BY <1>a, <1>b, <3>1, <5>1
        <5>2. CASE ~Begins(t)
          BY <1>a, <1>b, <3>1, <5>2
        <5> QED
          BY <5>1, <5>2
      <4>3. allowed'[t][e] \in Nat
        BY <1>b, <2>4, ElementOfSeq DEF Episode
      <4> QED
        BY <2>3, <4>1, <4>2, <4>3
    <3>2. CASE e \notin 1..Episode(t)
      <4>1. Begins(t) /\ e = Episode(t) + 1
        BY <1>a, <1>b, <2>4, <3>2
      <4>2. Cardinality(About(t, e)) = 0
        BY <1>a, <3>2, <4>1, Unstarted
      <4> QED
        BY <1>b, <2>3, <4>1, <4>2
    <3> QED
      BY <3>1, <3>2
  <2>5. ASSUME NEW t \in Tracker PROVE Owes(t)'
    <3>1. Published(t)' = Published(t) \/ Begins(t)
      BY <1>b, <2>3 DEF Published
    <3>2. CASE Writes
      <4>1. /\ ~Begins(t) /\ isOutbid' = isOutbid /\ (Live(t)' <=> Live(t))
            /\ Live(t) /\ isOutbid[t] # {} /\ Flags(t) # {} => Flags(t)' # {}
        BY <3>2, WritesBeginsNot DEF Writes, Live
      <4>2. Episode(t)' = Episode(t) /\ Published(t)' = Published(t)
        BY <1>b, <3>1, <4>1
      <4>3. isOutbid'[t] # {} => Episode(t)' # 0
        BY <1>a, <4>1, <4>2 DEF Owes
      <4>4. ASSUME isOutbid'[t] # {}, Live(t)', Published(t)' = allowed'[t][Episode(t)']
            PROVE  Recording(t)' \/ Flags(t)' # {}
        <5>1. Episode(t) \in 1..Episode(t)
          BY <1>a, <4>2, <4>3, <4>4
        <5>2. /\ Published(t) <= allowed[t][Episode(t)]
              /\ Published(t) \in Nat /\ allowed[t][Episode(t)] \in Nat
          BY <1>a, <5>1, Counted DEF AccountInv, Published
        <5>3. ~Forgets(t)
          BY <1>b, <4>1, <4>2, <4>4, <5>1, <5>2
        <5>4. Published(t) = allowed[t][Episode(t)]
          BY <1>b, <4>1, <4>2, <4>4, <5>3
        <5>5. Recording(t) \/ Flags(t) # {}
          BY <1>a, <4>1, <4>4, <5>4 DEF Owes
        <5> QED
          BY <4>1, <4>4, <5>3, <5>4, <5>5 DEF Forgets
      <4> QED
        BY <4>3, <4>4 DEF Owes
    <3>3. ASSUME NEW u \in Tracker, Judges(u) PROVE Owes(t)'
      <4>1. ~Forgets(t) /\ (Live(t)' <=> Live(t)) /\ Flags(t)' = Flags(t)
        BY <3>3, JudgesForgetsNot DEF Judges, store, Live, Flags
      <4>2. CASE t = u
        <5>1. isOutbid'[t] # {} => Recording(t)'
          BY <3>3, <4>2 DEF Judges
        <5>2. isOutbid'[t] # {} => Episode(t)' # 0
          <6>1. CASE Begins(t)
            BY <1>a, <1>b, <6>1
          <6>2. CASE ~Begins(t)
            BY <1>a, <1>b, <6>2 DEF Begins, Owes
          <6> QED
            BY <6>1, <6>2
        <5> QED
          BY <5>1, <5>2 DEF Owes
      <4>3. CASE t # u
        <5>1. isOutbid'[t] = isOutbid[t] /\ (Recording(t)' <=> Recording(t)) /\ ~Begins(t)
          BY <3>3, <4>3 DEF Judges, Begins
        <5>2. Episode(t)' = Episode(t) /\ Published(t)' = Published(t) /\ allowed'[t] = allowed[t]
          BY <1>b, <3>1, <4>1, <5>1
        <5> QED
          BY <1>a, <4>1, <5>1, <5>2 DEF Owes
      <4> QED
        BY <4>2, <4>3
    <3> QED
      BY <3>2, <3>3 DEF Outcome
  <2> QED
    BY <2>1, <2>2, <2>4, <2>5 DEF AccountInv
<1>2. ASSUME NEW u \in Tracker, Notifies(u), tried' = tried + 1, Note(u, Episode(u)')
      PROVE  AccountInv'
  <2>d. PICK d : d = Episode(u)'
    OBVIOUS
  <2>1. /\ Judges(u) /\ isOutbid'[u] # {} /\ Recording(u)'
        /\ ~Begins(u) => Episode(u) # 0 /\ Published(u) # allowed[u][Episode(u)]
    BY <1>2, PublishedVerdict
  <2>2. /\ d \in Nat /\ d # 0
        /\ Episode(u) \in Nat /\ Episode(u) <= d
        /\ ~Begins(u) => d = Episode(u)
        /\ Begins(u) => d = Episode(u) + 1
    BY <1>a, <1>b, <2>1, <2>d
  <2>3. \A t \in Tracker \ {u} : ~Begins(t) /\ ~Forgets(t) /\ isOutbid'[t] = isOutbid[t]
                                 /\ (Recording(t)' <=> Recording(t))
    BY <2>1, JudgesForgetsNot DEF Judges, Begins
  <2>4. ~Forgets(u)
    BY <2>1, JudgesForgetsNot
  <2>5. \A t \in Tracker \ {u} : allowed'[t] = allowed[t] /\ Episode(t)' = Episode(t)
    BY <1>b, <2>3
  <2>6. /\ about' \in Seq([tracker: Tracker \cup {NoCopy}, episode: Nat])
        /\ Len(about') = tried' /\ DOMAIN about' = 1..(tried + 1)
        /\ \A i \in 1..tried : about'[i] = about[i]
        /\ about'[tried + 1] = [tracker |-> u, episode |-> d]
        /\ Cardinality(About(u, d)') = Cardinality(About(u, d)) + 1
        /\ \A t, e : t # u \/ e # d => About(t, e)' = About(t, e)
    <3>1. Note(u, d)
      BY <1>2, <2>d
    <3> QED
      BY <1>2, <1>a, <2>2, <3>1, Noted
  <2>7. AboutType'
    BY <1>c, <2>6 DEF AboutType
  <2>8. \A i \in 1..(tried + 1) : i \in 1..tried \/ i = tried + 1
    BY <1>a
  <2>9. EpisodesRise'
    <3> SUFFICES ASSUME NEW t \in Tracker, NEW i \in 1..(tried + 1), NEW j \in 1..(tried + 1),
                        about'[i].tracker = t, about'[j].tracker = t, i < j
                 PROVE  about'[i].episode <= about'[j].episode
      BY <2>6 DEF EpisodesRise
    <3>1. i \in 1..tried /\ about'[i] = about[i]
      BY <1>a, <2>6
    <3>2. CASE j \in 1..tried
      BY <1>a, <2>6, <3>1, <3>2 DEF AccountInv, EpisodesRise
    <3>3. CASE j = tried + 1
      <4>1. about[i].tracker = u
        BY <2>6, <3>1, <3>3
      <4>2. about[i].episode \in 1..Episode(u)
        BY <1>a, <3>1, <4>1 DEF AccountInv
      <4> QED
        BY <2>2, <2>6, <3>1, <3>3, <4>2
    <3> QED
      BY <2>8, <3>2, <3>3
  <2>10. ASSUME NEW t \in Tracker, NEW i \in 1..(tried + 1), about'[i].tracker = t
         PROVE  about'[i].episode \in 1..Episode(t)'
    <3>1. CASE i \in 1..tried
      <4>1. about[i].episode \in 1..Episode(t) /\ about'[i] = about[i]
        BY <1>a, <2>6, <2>10, <3>1 DEF AccountInv
      <4> QED
        BY <1>d, <4>1
    <3>2. CASE i = tried + 1
      BY <2>2, <2>6, <2>d, <2>10, <3>2
    <3> QED
      BY <2>8, <3>1, <3>2
  <2>11. ASSUME NEW t \in Tracker, NEW e \in 1..Episode(t)'
         PROVE  Cardinality(About(t, e)') <= allowed'[t][e]
    <3>1. CASE t # u
      BY <2>5, <2>6, <2>11, <3>1 DEF AccountInv
    <3>2. CASE t = u /\ e # d
      <4>1. e \in 1..Episode(u)
        BY <2>2, <2>11, <2>d, <3>2
      <4>2. Cardinality(About(u, e)) <= allowed[u][e] /\ allowed'[u][e] = allowed[u][e]
        BY <1>b, <2>4, <3>2, <4>1 DEF AccountInv
      <4> QED
        BY <2>6, <3>2, <4>2
    <3>3. CASE t = u /\ e = d /\ Begins(u)
      <4>1. Cardinality(About(u, d)) = 0
        BY <2>2, <3>3, Unstarted
      <4> QED
        BY <1>b, <2>2, <2>6, <3>3, <4>1
    <3>4. CASE t = u /\ e = d /\ ~Begins(u)
      <4>1. d \in 1..Episode(u) /\ allowed'[u] = allowed[u]
        BY <1>b, <2>2, <2>4, <3>4
      <4>2. /\ Cardinality(About(u, d)) <= allowed[u][d]
            /\ Cardinality(About(u, d)) # allowed[u][d]
            /\ Cardinality(About(u, d)) \in Nat /\ allowed[u][d] \in Nat
        BY <1>a, <2>1, <2>2, <3>4, <4>1, Counted DEF AccountInv, Published
      <4> QED
        BY <2>6, <3>4, <4>1, <4>2
    <3> QED
      BY <3>1, <3>2, <3>3, <3>4
  <2>12. ASSUME NEW t \in Tracker PROVE Owes(t)'
    <3>1. CASE t = u
      BY <2>1, <2>2, <2>d, <3>1 DEF Owes
    <3>2. CASE t # u
      <4>1. (Live(t)' <=> Live(t)) /\ Flags(t)' = Flags(t)
        BY <2>1 DEF Judges, store, Live, Flags
      <4>2. Published(t)' = Published(t)
        BY <2>5, <2>6, <3>2 DEF Published
      <4> QED
        BY <1>a, <2>3, <2>5, <3>2, <4>1, <4>2 DEF Owes
    <3> QED
      BY <3>1, <3>2
  <2> QED
    BY <2>6, <2>7, <2>9, <2>10, <2>11, <2>12 DEF AccountInv
<1> QED
  BY <1>1, <1>2

LEMMA AccountInit == PipelineInit => AccountInv
<1> SUFFICES ASSUME PipelineInit PROVE AccountInv
  OBVIOUS
<1>1. /\ about = <<>> /\ allowed = [t \in Tracker |-> <<>>] /\ tried = 0
      /\ isOutbid = [t \in Tracker |-> {}]
  BY DEF PipelineInit, Init, D!Init
<1>2. AboutType
  BY <1>1, EmptySeq DEF AboutType
<1>3. \A t \in Tracker : Episode(t) = 0
  BY <1>1 DEF Episode
<1> QED
  BY <1>1, <1>2, <1>3 DEF AccountInv, EpisodesRise, Owes

(* The first text of the observer is about no tracker.                     *)
LEMMA AccountStart ==
    ASSUME AccountInv, Note(NoCopy, 0), tried' = tried + 1,
           UNCHANGED <<allowed, isOutbid, status, row, outbidded, pc, copy>>
    PROVE  AccountInv'
<1>1. AboutType /\ tried \in Nat /\ DOMAIN about = 1..tried
  BY AboutFacts DEF AccountInv
<1>2. /\ about' \in Seq([tracker: Tracker \cup {NoCopy}, episode: Nat])
      /\ Len(about') = tried' /\ DOMAIN about' = 1..(tried + 1)
      /\ \A i \in 1..tried : about'[i] = about[i]
      /\ about'[tried + 1] = [tracker |-> NoCopy, episode |-> 0]
      /\ \A t, e : t # NoCopy \/ e # 0 => About(t, e)' = About(t, e)
  <2>1. NoCopy \in Tracker \cup {NoCopy} /\ 0 \in Nat
    OBVIOUS
  <2> QED
    BY <1>1, <2>1, Noted
<1>3. \A t \in Tracker : Episode(t)' = Episode(t) /\ Published(t)' = Published(t)
  BY <1>2, NoCopyAssumption DEF Episode, Published
<1>4. AboutType'
  BY <1>1, <1>2 DEF AboutType
<1>5. \A i \in 1..(tried + 1) : i \in 1..tried \/ i = tried + 1
  BY <1>1
<1>6. ASSUME NEW t \in Tracker, NEW i \in 1..(tried + 1), about'[i].tracker = t
      PROVE  i \in 1..tried /\ about'[i] = about[i]
  BY <1>2, <1>5, <1>6, NoCopyAssumption
<1>7. /\ EpisodesRise'
      /\ \A t \in Tracker : \A i \in 1..(tried + 1) :
           about'[i].tracker = t => about'[i].episode \in 1..Episode(t)'
  BY <1>1, <1>2, <1>3, <1>6 DEF AccountInv, EpisodesRise
<1>8. ASSUME NEW t \in Tracker, NEW e \in 1..Episode(t)'
      PROVE  Cardinality(About(t, e)') <= allowed'[t][e]
  BY <1>2, <1>3, <1>8, NoCopyAssumption DEF AccountInv
<1>9. ASSUME NEW t \in Tracker PROVE Owes(t)'
  <2>1. /\ (Recording(t)' <=> Recording(t))
        /\ (Live(t)' <=> Live(t))
        /\ Flags(t)' = Flags(t)
    BY DEF Recording, At, Live, Flags
  <2> QED
    BY <1>3, <2>1 DEF AccountInv, Owes
<1> QED
  BY <1>2, <1>4, <1>7, <1>8, <1>9 DEF AccountInv

(* Trackers are created and deleted.                                       *)
LEMMA AccountUser ==
    ASSUME TypeInv, AccountInv, UNCHANGED <<about, allowed, tried, pc, copy>>,
           NEW u \in Tracker, isOutbid' = [isOutbid EXCEPT ![u] = {}],
           \A t \in Tracker \ {u} : (Live(t)' <=> Live(t)) /\ Flags(t)' = Flags(t)
    PROVE  AccountInv'
<1>1. AboutType' /\ EpisodesRise'
  BY DEF AccountInv, AboutType, EpisodesRise
<1>2. /\ \A t : Episode(t)' = Episode(t)
      /\ \A t, e : About(t, e)' = About(t, e)
      /\ \A t : Published(t)' = Published(t)
  BY DEF Episode, About, Published
<1>3. /\ \A t \in Tracker : \A i \in DOMAIN about' :
           about'[i].tracker = t => about'[i].episode \in 1..Episode(t)'
      /\ \A t \in Tracker : \A e \in 1..Episode(t)' :
           Cardinality(About(t, e)') <= allowed'[t][e]
  BY <1>2 DEF AccountInv
<1>4. ASSUME NEW t \in Tracker PROVE Owes(t)'
  <2>1. isOutbid'[t] = IF t = u THEN {} ELSE isOutbid[t]
    BY DEF TypeInv, TypeOK
  <2>2. Recording(t)' <=> Recording(t)
    BY DEF Recording, At
  <2> QED
    BY <1>2, <2>1, <2>2 DEF AccountInv, Owes
<1> QED
  BY <1>1, <1>3, <1>4 DEF AccountInv

LEMMA AccountSame ==
    ASSUME AccountInv, UNCHANGED <<vars, account, tried>>
    PROVE  AccountInv'
<1>1. UNCHANGED <<about, allowed, tried, pc, copy, status, row, outbidded, isOutbid>>
  BY DEF vars, account, store, worker, history
<1>2. AboutType' /\ EpisodesRise'
  BY <1>1 DEF AccountInv, AboutType, EpisodesRise
<1>3. /\ \A t : Episode(t)' = Episode(t)
      /\ \A t, e : About(t, e)' = About(t, e)
      /\ \A t : Published(t)' = Published(t)
  BY <1>1 DEF Episode, About, Published
<1>4. \A t \in Tracker : /\ (Recording(t)' <=> Recording(t))
                         /\ (Live(t)' <=> Live(t))
                         /\ Flags(t)' = Flags(t)
  BY <1>1 DEF Recording, At, Live, Flags
<1>5. \A t \in Tracker : Owes(t)'
  BY <1>1, <1>3, <1>4 DEF AccountInv, Owes
<1> QED
  BY <1>1, <1>2, <1>3, <1>5 DEF AccountInv

-----------------------------------------------------------------------------
(* The messages that came.  Episodes runs through the alerts sent.         *)
LEMMA LeastNat ==
    ASSUME NEW T \in SUBSET Nat, T # {}
    PROVE  \E n \in T : \A m \in T : n <= m
<1>1. PICK n \in T : \A m \in T : <<m, n>> \notin OpToRel(<, Nat)
  BY NatLessThanWellFounded, WFMin, Zenon
<1>2. ASSUME NEW m \in T PROVE n <= m
  <2>1. ~(m < n)
    BY <1>1 DEF OpToRel
  <2> QED
    BY <2>1
<1> QED
  BY <1>1, <1>2

LEMMA Induction ==
    ASSUME NEW T \in SUBSET Nat, 0 \in T, \A n \in T : n + 1 \in T
    PROVE  \A n \in Nat : n \in T
<1> SUFFICES ASSUME Nat \ T # {} PROVE FALSE
  OBVIOUS
<1>1. PICK n \in Nat \ T : \A m \in Nat \ T : n <= m
  BY LeastNat
<1>2. n # 0 /\ n - 1 \in Nat /\ ~(n <= n - 1) /\ (n - 1) + 1 = n
  BY <1>1
<1>3. n - 1 \in T
  BY <1>1, <1>2
<1> QED
  BY <1>1, <1>2, <1>3

(* The loop of Episodes over the first n of the publications s, accounted  *)
(* for by a.                                                               *)
IsLoop(f, t, a, s, n) ==
    f = [i \in 0..n |->
           IF i = 0 THEN <<>>
           ELSE IF a[s[i]].tracker = t THEN Append(f[i-1], a[s[i]].episode)
           ELSE f[i-1]]

Runs(f, t, a, s, n) ==
    /\ f[0] = <<>>
    /\ \A i \in 1..n : f[i] = IF a[s[i]].tracker = t THEN Append(f[i-1], a[s[i]].episode)
                                                     ELSE f[i-1]

MessagesOf(t, a, s) ==
    LET f == CHOOSE f : IsLoop(f, t, a, s, Len(s)) IN f[Len(s)]

LEMMA LoopExists ==
    ASSUME NEW t, NEW a, NEW s, NEW n \in Nat PROVE \E f : IsLoop(f, t, a, s, n)
<1> DEFINE T == {k \in Nat : \E f : IsLoop(f, t, a, s, k)}
<1>1. 0 \in T
  <2> DEFINE f == [i \in 0..0 |-> <<>>]
  <2>1. IsLoop(f, t, a, s, 0)
    BY DEF IsLoop
  <2> QED
    BY <2>1
<1>2. ASSUME NEW k \in T PROVE k + 1 \in T
  <2>1. PICK f : IsLoop(f, t, a, s, k)
    OBVIOUS
  <2> DEFINE next(i, x) == IF a[s[i]].tracker = t THEN Append(x, a[s[i]].episode) ELSE x
             g == [i \in 0..(k+1) |-> IF i = k + 1 THEN next(i, f[k]) ELSE f[i]]
  <2>2. ASSUME NEW i \in 0..(k+1)
        PROVE  g[i] = IF i = 0 THEN <<>> ELSE next(i, g[i-1])
    <3>1. CASE i = 0
      BY <2>1, <3>1 DEF IsLoop
    <3>2. CASE i = k + 1
      BY <3>2
    <3>3. CASE i # 0 /\ i # k + 1
      <4>1. i \in 0..k /\ i - 1 \in 0..k /\ i # 0
        BY <3>3
      <4>2. g[i] = f[i] /\ g[i-1] = f[i-1]
        BY <3>3, <4>1
      <4>3. f[i] = next(i, f[i-1])
        BY <2>1, <4>1 DEF IsLoop
      <4> QED
        BY <4>1, <4>2, <4>3
    <3> QED
      BY <3>1, <3>2, <3>3
  <2>3. IsLoop(g, t, a, s, k + 1)
    BY <2>2 DEF IsLoop
  <2> QED
    BY <2>3
<1> HIDE DEF T
<1>3. n \in T
  BY <1>1, <1>2, Induction DEF T
<1> QED
  BY <1>3 DEF T

LEMMA MessagesRun ==
    ASSUME NEW t, NEW a, NEW s, Len(s) \in Nat
    PROVE  \E f : Runs(f, t, a, s, Len(s)) /\ MessagesOf(t, a, s) = f[Len(s)]
<1>1. PICK f : f = (CHOOSE g : IsLoop(g, t, a, s, Len(s))) /\ IsLoop(f, t, a, s, Len(s))
  BY LoopExists
<1>2. ASSUME NEW i \in 0..Len(s)
      PROVE  f[i] = IF i = 0 THEN <<>>
                    ELSE IF a[s[i]].tracker = t THEN Append(f[i-1], a[s[i]].episode)
                    ELSE f[i-1]
  BY <1>1 DEF IsLoop
<1>3. 0 \in 0..Len(s) /\ \A i \in 1..Len(s) : i \in 0..Len(s) /\ i # 0
  OBVIOUS
<1>4. Runs(f, t, a, s, Len(s))
  BY <1>2, <1>3 DEF Runs
<1>5. MessagesOf(t, a, s) = f[Len(s)]
  BY <1>1 DEF MessagesOf
<1> QED
  BY <1>4, <1>5

LEMMA RunsAgree ==
    ASSUME NEW t, NEW n \in Nat, NEW f, NEW a, NEW s, NEW g, NEW b, NEW r,
           Runs(f, t, a, s, n), Runs(g, t, b, r, n), \A i \in 1..n : a[s[i]] = b[r[i]]
    PROVE  f[n] = g[n]
<1> DEFINE T == {k \in Nat : k <= n => f[k] = g[k]}
<1>1. 0 \in T
  BY DEF Runs
<1>2. ASSUME NEW k \in T PROVE k + 1 \in T
  <2> SUFFICES ASSUME k + 1 <= n PROVE f[k + 1] = g[k + 1]
    OBVIOUS
  <2>1. k + 1 \in 1..n /\ (k + 1) - 1 = k /\ f[k] = g[k]
    OBVIOUS
  <2> QED
    BY <2>1 DEF Runs
<1> HIDE DEF T
<1>3. n \in T
  BY <1>1, <1>2, Induction DEF T
<1> QED
  BY <1>3 DEF T

LEMMA NoMessages ==
    ASSUME NEW t, NEW a PROVE MessagesOf(t, a, <<>>) = <<>>
<1>1. Len(<<>>) = 0
  OBVIOUS
<1> QED
  BY <1>1, MessagesRun DEF Runs

LEMMA SameMessages ==
    ASSUME NEW t, NEW s \in Seq(Nat), NEW a, NEW b, \A i \in 1..Len(s) : a[s[i]] = b[s[i]]
    PROVE  MessagesOf(t, a, s) = MessagesOf(t, b, s)
<1>1. Len(s) \in Nat
  BY LenProperties
<1>2. PICK f : Runs(f, t, a, s, Len(s)) /\ MessagesOf(t, a, s) = f[Len(s)]
  BY <1>1, MessagesRun
<1>3. PICK g : Runs(g, t, b, s, Len(s)) /\ MessagesOf(t, b, s) = g[Len(s)]
  BY <1>1, MessagesRun
<1> QED
  BY <1>1, <1>2, <1>3, RunsAgree

LEMMA OneMoreMessage ==
    ASSUME NEW t, NEW a, NEW s \in Seq(Nat), NEW n \in Nat
    PROVE  MessagesOf(t, a, Append(s, n)) =
             IF a[n].tracker = t THEN Append(MessagesOf(t, a, s), a[n].episode)
                                 ELSE MessagesOf(t, a, s)
<1> DEFINE r == Append(s, n)
           k == Len(s)
<1>1. /\ k \in Nat /\ Len(r) = k + 1 /\ r[k + 1] = n
      /\ \A i \in 1..k : r[i] = s[i]
  BY AppendProperties, LenProperties
<1> HIDE DEF r
<1>2. PICK f : Runs(f, t, a, s, k) /\ MessagesOf(t, a, s) = f[k]
  BY <1>1, MessagesRun
<1>3. PICK g : Runs(g, t, a, r, k + 1) /\ MessagesOf(t, a, r) = g[k + 1]
  BY <1>1, MessagesRun
<1> HIDE DEF k
<1>4. Runs(g, t, a, r, k)
  BY <1>1, <1>3 DEF Runs
<1>5. g[k] = f[k]
  BY <1>1, <1>2, <1>4, RunsAgree
<1>6. k + 1 \in 1..(k + 1) /\ (k + 1) - 1 = k
  BY <1>1
<1>7. g[k + 1] = IF a[n].tracker = t THEN Append(g[k], a[n].episode) ELSE g[k]
  BY <1>1, <1>3, <1>6 DEF Runs
<1> QED
  BY <1>2, <1>3, <1>5, <1>7 DEF r

LEMMA EpisodesAre ==
    ASSUME NEW t
    PROVE  /\ Episodes(t) = MessagesOf(t, about, sent)
           /\ Episodes(t)' = MessagesOf(t, about', sent')
BY DEF Episodes, MessagesOf, IsLoop

(* What came about a tracker was published about it, and of an episode no  *)
(* more came than was published and sent.                                  *)
Sent == {sent[k] : k \in DOMAIN sent}

Occurs(s, e) == {i \in DOMAIN s : s[i] = e}

Backs(t) ==
    /\ Episodes(t) \in Seq(Nat)
    /\ \A i \in DOMAIN Episodes(t) : \E n \in Sent :
         about[n].tracker = t /\ about[n].episode = Episodes(t)[i]
    /\ \A e \in Nat : Cardinality(Occurs(Episodes(t), e)) <= Cardinality(About(t, e) \cap Sent)

SentInv ==
    /\ sent \in Seq(Nat)
    /\ Sent \subseteq 1..tried
    /\ \A t \in Tracker : Backs(t)

LEMMA SentInit == PipelineInit => SentInv /\ \A t \in Tracker : Episodes(t) = <<>>
<1> SUFFICES ASSUME PipelineInit PROVE SentInv /\ \A t \in Tracker : Episodes(t) = <<>>
  OBVIOUS
<1>1. sent = <<>> /\ sent \in Seq(Nat) /\ Sent = {}
  BY DEF PipelineInit, D!Init, Sent
<1>2. AboutType
  BY AccountInit DEF AccountInv
<1>3. ASSUME NEW t \in Tracker PROVE Episodes(t) = <<>> /\ Backs(t)
  <2>1. Episodes(t) = <<>>
    BY <1>1, EpisodesAre, NoMessages
  <2>2. \A e : Occurs(Episodes(t), e) = {}
    BY <2>1 DEF Occurs
  <2>3. \A e : Cardinality(About(t, e) \cap Sent) = 0
    BY <1>1, FS_EmptySet
  <2>4. Episodes(t) \in Seq(Nat) /\ DOMAIN Episodes(t) = {}
    BY <2>1
  <2> QED
    BY <2>1, <2>2, <2>3, <2>4, FS_EmptySet DEF Backs
<1> QED
  BY <1>1, <1>3 DEF SentInv

LEMMA OccursFacts ==
    ASSUME NEW s \in Seq(Nat), NEW x \in Nat, NEW e \in Nat
    PROVE  /\ Cardinality(Occurs(s, e)) \in Nat
           /\ Cardinality(Occurs(Append(s, x), e)) =
                IF x = e THEN Cardinality(Occurs(s, e)) + 1 ELSE Cardinality(Occurs(s, e))
<1> DEFINE r == Append(s, x)
           k == Len(s)
<1>1. /\ k \in Nat /\ DOMAIN s = 1..k /\ DOMAIN r = 1..(k + 1) /\ r[k + 1] = x
      /\ \A i \in 1..k : r[i] = s[i]
  BY AppendProperties, LenProperties
<1> HIDE DEF r, k
<1>2. \A i \in 1..(k + 1) : i \in 1..k \/ i = k + 1
  BY <1>1
<1>3. Occurs(s, e) \subseteq 1..k /\ k + 1 \notin Occurs(s, e)
  BY <1>1 DEF Occurs
<1>4. IsFiniteSet(1..k)
  BY <1>1, FS_Interval
<1>5. IsFiniteSet(Occurs(s, e))
  BY <1>3, <1>4, FS_Subset
<1>6. Occurs(r, e) = IF x = e THEN Occurs(s, e) \cup {k + 1} ELSE Occurs(s, e)
  BY <1>1, <1>2 DEF Occurs
<1> QED
  BY <1>3, <1>5, <1>6, FS_AddElement, FS_CardinalityType DEF r

(* A publication, or none.                                                 *)
LEMMA SentKept ==
    ASSUME AboutType, SentInv, UNCHANGED sent,
           \/ UNCHANGED <<about, tried>>
           \/ \E u \in Tracker \cup {NoCopy}, d \in Nat : tried' = tried + 1 /\ Note(u, d)
    PROVE  SentInv' /\ \A t \in Tracker : Episodes(t)' = Episodes(t)
<1>1. tried \in Nat /\ DOMAIN about = 1..tried /\ \A t, e : About(t, e) \subseteq 1..tried
  BY AboutFacts
<1>2. /\ tried' \in {tried, tried + 1}
      /\ \A i \in 1..tried : about'[i] = about[i]
      /\ DOMAIN about' = 1..tried'
  <2>1. CASE UNCHANGED <<about, tried>>
    BY <1>1, <2>1
  <2>2. ASSUME NEW u \in Tracker \cup {NoCopy}, NEW d \in Nat, tried' = tried + 1, Note(u, d)
        PROVE  DOMAIN about' = 1..(tried + 1) /\ \A i \in 1..tried : about'[i] = about[i]
    BY <2>2, Noted
  <2> QED
    BY <2>1, <2>2
<1>3. Sent' = Sent /\ Sent \subseteq 1..tried /\ Sent \subseteq 1..tried'
  BY <1>1, <1>2 DEF SentInv, Sent
<1>4. \A t, e : About(t, e)' \cap Sent = About(t, e) \cap Sent
  BY <1>1, <1>2, <1>3 DEF About
<1>5. ASSUME NEW t \in Tracker PROVE Episodes(t)' = Episodes(t) /\ Backs(t)'
  <2>1. \A i \in 1..Len(sent) : about'[sent[i]] = about[sent[i]]
    <3>1. \A i \in 1..Len(sent) : sent[i] \in Sent
      BY LenProperties DEF SentInv, Sent
    <3> QED
      BY <1>2, <1>3, <3>1
  <2>2. Episodes(t)' = Episodes(t)
    BY <2>1, EpisodesAre, SameMessages DEF SentInv
  <2>3. \A n \in Sent : about'[n] = about[n]
    BY <1>2, <1>3
  <2> QED
    <3>1. /\ Episodes(t) \in Seq(Nat)
          /\ \A i \in DOMAIN Episodes(t) : \E m \in Sent :
               about[m].tracker = t /\ about[m].episode = Episodes(t)[i]
          /\ \A d \in Nat : Cardinality(Occurs(Episodes(t), d))
                             <= Cardinality(About(t, d) \cap Sent)
      BY DEF SentInv, Backs
    <3>2. \A i \in DOMAIN Episodes(t)' : \E m \in Sent' :
            about'[m].tracker = t /\ about'[m].episode = Episodes(t)'[i]
      BY <1>3, <2>2, <2>3, <3>1
    <3>3. \A d \in Nat : Cardinality(Occurs(Episodes(t)', d))
                           <= Cardinality(About(t, d)' \cap Sent')
      BY <1>3, <1>4, <2>2, <3>1
    <3> QED
      BY <2>2, <3>1, <3>2, <3>3 DEF Backs
<1>6. sent' \in Seq(Nat) /\ Sent' \subseteq 1..tried'
  BY <1>3 DEF SentInv
<1> QED
  BY <1>5, <1>6 DEF SentInv

(* An alert is sent: of which episode it is, and why it may come.          *)
LEMMA SentMore ==
    ASSUME AccountInv, SentInv, UNCHANGED <<about, tried>>,
           NEW n \in 1..tried, \A i \in DOMAIN sent : sent[i] < n, sent' = Append(sent, n)
    PROVE  /\ SentInv'
           /\ \A t \in Tracker : about[n].tracker # t => Episodes(t)' = Episodes(t)
           /\ \A t \in Tracker : about[n].tracker = t =>
                \E e \in 1..Episode(t) :
                   /\ Cardinality(Occurs(Episodes(t), e)) < allowed[t][e]
                   /\ \A i \in DOMAIN Episodes(t) : Episodes(t)[i] <= e
                   /\ Episodes(t)' = Append(Episodes(t), e)
<1> DEFINE e == about[n].episode
<1>1. AboutType /\ tried \in Nat /\ DOMAIN about = 1..tried
      /\ e \in Nat /\ about[n] = [tracker |-> about[n].tracker, episode |-> e]
  BY AboutFacts DEF AccountInv
<1>2. sent' \in Seq(Nat) /\ Sent' = Sent \cup {n}
  <2> DEFINE k == Len(sent)
  <2>1. /\ sent \in Seq(Nat) /\ n \in Nat
    BY <1>1 DEF SentInv
  <2>2. /\ k \in Nat /\ DOMAIN sent = 1..k
        /\ sent' \in Seq(Nat) /\ DOMAIN sent' = 1..(k + 1)
        /\ sent'[k + 1] = n /\ \A i \in 1..k : sent'[i] = sent[i]
    BY <2>1, AppendProperties, LenProperties
  <2> HIDE DEF k
  <2>3. \A i \in 1..(k + 1) : i \in 1..k \/ i = k + 1
    BY <2>2
  <2>4. k + 1 \in 1..(k + 1) /\ \A i \in 1..k : i \in 1..(k + 1)
    BY <2>2
  <2> QED
    BY <2>2, <2>3, <2>4 DEF Sent
<1>3. n \notin Sent
  <2>1. Sent \subseteq Nat
    BY <1>1 DEF SentInv
  <2>2. \A x \in Sent : x < n
    BY DEF Sent
  <2> QED
    BY <1>1, <2>1, <2>2
<1>4. \A t, d : About(t, d)' = About(t, d)
  BY DEF About
<1>5. \A t \in Tracker : Episodes(t)' = IF about[n].tracker = t THEN Append(Episodes(t), e)
                                                               ELSE Episodes(t)
  <2>1. sent \in Seq(Nat) /\ n \in Nat
    BY <1>1 DEF SentInv
  <2> QED
    BY <2>1, EpisodesAre, OneMoreMessage
<1>6. Sent' \subseteq 1..tried'
  BY <1>2 DEF SentInv
<1> HIDE DEF e
<1>7. ASSUME NEW t \in Tracker, about[n].tracker # t PROVE Backs(t)'
  <2>1. Episodes(t)' = Episodes(t)
    BY <1>5, <1>7
  <2>2. \A d : About(t, d)' \cap Sent' = About(t, d) \cap Sent
    BY <1>1, <1>2, <1>4, <1>7 DEF About
  <2> QED
    <3>1. /\ Episodes(t) \in Seq(Nat)
          /\ \A i \in DOMAIN Episodes(t) : \E m \in Sent :
               about[m].tracker = t /\ about[m].episode = Episodes(t)[i]
          /\ \A d \in Nat : Cardinality(Occurs(Episodes(t), d))
                             <= Cardinality(About(t, d) \cap Sent)
      BY DEF SentInv, Backs
    <3>2. \A i \in DOMAIN Episodes(t)' : \E m \in Sent' :
            about'[m].tracker = t /\ about'[m].episode = Episodes(t)'[i]
      BY <1>2, <2>1, <3>1
    <3>3. \A d \in Nat : Cardinality(Occurs(Episodes(t)', d))
                           <= Cardinality(About(t, d)' \cap Sent')
      BY <2>1, <2>2, <3>1
    <3> QED
      BY <2>1, <3>1, <3>2, <3>3 DEF Backs
<1>8. ASSUME NEW t \in Tracker, about[n].tracker = t
      PROVE  /\ Backs(t)'
             /\ e \in 1..Episode(t)
             /\ Cardinality(Occurs(Episodes(t), e)) < allowed[t][e]
             /\ \A i \in DOMAIN Episodes(t) : Episodes(t)[i] <= e
             /\ Episodes(t)' = Append(Episodes(t), e)
  <2> DEFINE s == Episodes(t)
  <2>1. /\ s \in Seq(Nat) /\ Episodes(t)' = Append(s, e)
        /\ Append(s, e) \in Seq(Nat)
        /\ Len(s) \in Nat /\ DOMAIN s = 1..Len(s)
        /\ DOMAIN Append(s, e) = 1..(Len(s) + 1)
        /\ Append(s, e)[Len(s) + 1] = e /\ \A i \in 1..Len(s) : Append(s, e)[i] = s[i]
    BY <1>1, <1>5, <1>8, AppendProperties, LenProperties DEF SentInv, Backs
  <2>2. \A i \in DOMAIN s : \E m \in Sent : about[m].tracker = t /\ about[m].episode = s[i]
    BY DEF SentInv, Backs
  <2>3. e \in 1..Episode(t) /\ Cardinality(About(t, e)) <= allowed[t][e]
    BY <1>1, <1>8 DEF AccountInv, e
  <2>4. \A d \in Nat : Cardinality(Occurs(s, d)) <= Cardinality(About(t, d) \cap Sent)
    BY DEF SentInv, Backs
  <2> HIDE DEF s
  <2>5. \A i \in DOMAIN s : s[i] <= e
    <3> SUFFICES ASSUME NEW i \in DOMAIN s PROVE s[i] <= e
      OBVIOUS
    <3>1. PICK m \in Sent : about[m].tracker = t /\ about[m].episode = s[i]
      BY <2>2
    <3>2. m < n /\ m \in 1..tried
      BY <3>1 DEF Sent, SentInv
    <3> QED
      BY <1>1, <1>8, <3>1, <3>2 DEF AccountInv, EpisodesRise, e
  <2>6. n \in About(t, e) /\ n \notin About(t, e) \cap Sent
    BY <1>1, <1>3, <1>8 DEF About
  <2>7. /\ About(t, e) \cap Sent' = (About(t, e) \cap Sent) \cup {n}
        /\ \A d \in Nat : d # e => About(t, d) \cap Sent' = About(t, d) \cap Sent
    BY <1>1, <1>2, <2>6 DEF About
  <2>8. /\ Cardinality(About(t, e) \cap Sent') = Cardinality(About(t, e) \cap Sent) + 1
        /\ Cardinality(About(t, e) \cap Sent) \in Nat
        /\ Cardinality(About(t, e)) \in Nat
        /\ Cardinality(About(t, e) \cap Sent') <= Cardinality(About(t, e))
    <3>1. IsFiniteSet(About(t, e) \cap Sent)
      BY <1>1, Counted
    <3>2. Cardinality((About(t, e) \cap Sent) \cup {n}) = Cardinality(About(t, e) \cap Sent) + 1
      BY <2>6, <3>1, FS_AddElement
    <3> QED
      BY <1>1, <2>7, <3>2, Counted
  <2>9. Cardinality(Occurs(s, e)) < allowed[t][e]
    <3>1. Cardinality(Occurs(s, e)) \in Nat /\ allowed[t][e] \in Nat
      BY <1>1, <2>1, <2>3, OccursFacts, AboutFacts
    <3> QED
      BY <1>1, <2>3, <2>4, <2>8, <3>1
  <2>10. ASSUME NEW d \in Nat
         PROVE  Cardinality(Occurs(Append(s, e), d)) <= Cardinality(About(t, d)' \cap Sent')
    <3>1. CASE d = e
      <4>1. Cardinality(Occurs(Append(s, e), d)) = Cardinality(Occurs(s, d)) + 1
            /\ Cardinality(Occurs(s, d)) \in Nat
        BY <1>1, <2>1, <3>1, OccursFacts
      <4>2. Cardinality(About(t, d)' \cap Sent') = Cardinality(About(t, e) \cap Sent) + 1
        BY <1>4, <2>8, <3>1
      <4>3. Cardinality(Occurs(s, d)) <= Cardinality(About(t, e) \cap Sent)
        BY <2>4, <3>1
      <4> QED
        BY ONLY <2>8, <4>1, <4>2, <4>3
    <3>2. CASE d # e
      <4>1. Cardinality(Occurs(Append(s, e), d)) = Cardinality(Occurs(s, d))
        BY <1>1, <2>1, <3>2, OccursFacts
      <4>2. About(t, d)' \cap Sent' = About(t, d) \cap Sent
        BY <1>4, <2>7, <3>2
      <4> QED
        BY <2>4, <4>1, <4>2
    <3> QED
      BY <3>1, <3>2
  <2>11. \A i \in DOMAIN Append(s, e) : \E m \in Sent' :
           about'[m].tracker = t /\ about'[m].episode = Append(s, e)[i]
    <3> SUFFICES ASSUME NEW i \in 1..(Len(s) + 1)
                 PROVE  \E m \in Sent' : /\ about[m].tracker = t
                                         /\ about[m].episode = Append(s, e)[i]
      BY <2>1
    <3>1. CASE i \in 1..Len(s)
      BY <1>2, <2>1, <2>2, <3>1
    <3>2. CASE i = Len(s) + 1
      BY <1>2, <1>8, <2>1, <3>2 DEF e
    <3> QED
      BY <2>1, <3>1, <3>2
  <2>12. Backs(t)'
    BY <2>1, <2>10, <2>11 DEF Backs
  <2> QED
    BY <2>1, <2>3, <2>5, <2>9, <2>12 DEF s
<1>9. SentInv'
  BY <1>2, <1>6, <1>7, <1>8 DEF SentInv
<1> QED
  BY <1>5, <1>8, <1>9

-----------------------------------------------------------------------------
(* The steps of the pipeline are steps of the promise, or none of it.      *)
LEMMA PromiseSize == \A X : Promise!Cardinality(X) = Cardinality(X)
<1>1. ASSUME NEW X PROVE Promise!Cardinality(X) = Cardinality(X)
  BY DEF Cardinality, Promise!Cardinality
<1> QED
  BY <1>1

Outbid == {t \in Tracker : isOutbid[t] # {}}

(* Nobody is asks anything.                                                *)
LEMMA UntoldSame ==
    ASSUME \A t \in Tracker : Episodes(t)' = Episodes(t)
    PROVE  [t \in Tracker |-> Episodes(t)]' = [t \in Tracker |-> Episodes(t)]
OBVIOUS

LEMMA PromiseQuiet ==
    ASSUME UNCHANGED <<isOutbid, allowed>>, \A t \in Tracker : Episodes(t)' = Episodes(t)
    PROVE  [Promise!Next]_(Promise!vars)
<1>1. Outbid' = Outbid
  BY DEF Outbid
<1> QED
  BY <1>1, UntoldSame DEF Promise!vars, Outbid

LEMMA PromiseTop ==
    ASSUME TypeInv, UNCHANGED allowed, \A t \in Tracker : Episodes(t)' = Episodes(t),
           NEW u \in Tracker, isOutbid'[u] = {},
           \A t \in Tracker \ {u} : isOutbid'[t] = isOutbid[t]
    PROVE  [Promise!Next]_(Promise!vars)
<1>1. Outbid' = Outbid \ {u}
  BY DEF Outbid
<1>2. Promise!FoundOnTop(u)
  BY <1>1, UntoldSame DEF Promise!FoundOnTop, Outbid
<1> QED
  BY <1>2 DEF Promise!Next

LEMMA PromiseObserve ==
    ASSUME TypeInv, VerdictInv, AccountInv, Outcome, Account,
           \A t \in Tracker : Episodes(t)' = Episodes(t)
    PROVE  [Promise!Next]_(Promise!vars)
<1>a. allowed \in [Tracker -> Seq(Nat)]
  BY DEF AccountInv, AboutType
<1>b. allowed' = [t \in Tracker |->
                    IF Begins(t) THEN Append(allowed[t], 1)
                    ELSE IF Forgets(t) THEN [allowed[t] EXCEPT ![Len(allowed[t])] = @ + 1]
                    ELSE allowed[t]]
  BY DEF Account, Episode
<1>1. CASE Writes
  <2> DEFINE S == {t \in Tracker : Forgets(t)}
  <2>1. S \subseteq Outbid
    BY ForgetsOutbid DEF Outbid
  <2>2. Outbid' = Outbid
    BY <1>1 DEF Writes, Outbid
  <2>3. allowed' = [t \in Tracker |->
                      IF t \in S THEN [allowed[t] EXCEPT ![Len(allowed[t])] = @ + 1]
                                 ELSE allowed[t]]
    BY <1>1, <1>b, WritesBeginsNot
  <2> HIDE DEF S
  <2>4. Promise!Forget(S)
    BY <2>1, <2>2, <2>3, UntoldSame DEF Promise!Forget, Outbid
  <2>5. S \in SUBSET Tracker
    BY DEF S
  <2> QED
    BY <2>4, <2>5 DEF Promise!Next
<1>2. ASSUME NEW u \in Tracker, Judges(u) PROVE [Promise!Next]_(Promise!vars)
  <2>1. \A t \in Tracker : ~Forgets(t)
    BY <1>2, JudgesForgetsNot
  <2>2. \A t \in Tracker \ {u} : isOutbid'[t] = isOutbid[t] /\ ~Begins(t)
    BY <1>2 DEF Judges, Begins
  <2>3. ASSUME ~Begins(u) PROVE allowed' = allowed
    <3>1. \A t \in Tracker : ~Begins(t) /\ ~Forgets(t)
      BY <2>1, <2>2, <2>3
    <3>2. allowed' = [t \in Tracker |-> allowed[t]]
      BY <1>b, <3>1
    <3> QED
      BY <1>a, <3>2
  <2>4. CASE isOutbid'[u] = {}
    <3>1. ~Begins(u)
      BY <2>4 DEF Begins
    <3> QED
      BY <2>2, <2>3, <2>4, <3>1, PromiseTop
  <2>5. CASE isOutbid'[u] # {} /\ Begins(u)
    <3>1. allowed' = [allowed EXCEPT ![u] = Append(@, 1)]
      BY <1>a, <1>b, <2>1, <2>2, <2>5
    <3>2. u \notin Outbid /\ Outbid' = Outbid \cup {u}
      BY <2>2, <2>5 DEF Outbid, Begins
    <3>3. Promise!FoundOutbid(u)
      BY <3>1, <3>2, UntoldSame DEF Promise!FoundOutbid, Outbid
    <3> QED
      BY <3>3 DEF Promise!Next
  <2>6. CASE isOutbid'[u] # {} /\ ~Begins(u)
    <3>1. Outbid' = Outbid
      BY <2>2, <2>6 DEF Outbid, Begins
    <3> QED
      BY <2>3, <2>6, <3>1, UntoldSame DEF Promise!vars, Outbid
  <2> QED
    BY <2>4, <2>5, <2>6
<1> QED
  BY <1>1, <1>2 DEF Outcome

(* A message comes.                                                        *)
LEMMA PromiseTell ==
    ASSUME AccountInv, SentInv, UNCHANGED <<about, tried, isOutbid, allowed>>,
           NEW n \in 1..tried, \A i \in DOMAIN sent : sent[i] < n, sent' = Append(sent, n)
    PROVE  [Promise!Next]_(Promise!vars)
<1>1. CASE about[n].tracker \notin Tracker
  <2>1. \A t \in Tracker : about[n].tracker # t
    BY <1>1
  <2>2. \A t \in Tracker : Episodes(t)' = Episodes(t)
    BY <2>1, SentMore
  <2> QED
    BY <2>2, PromiseQuiet
<1>2. CASE about[n].tracker \in Tracker
  <2>1. PICK t \in Tracker : about[n].tracker = t
    BY <1>2
  <2>2. \A u \in Tracker \ {t} : Episodes(u)' = Episodes(u)
    BY <2>1, SentMore
  <2>3. PICK e \in 1..Episode(t) :
           /\ Cardinality(Occurs(Episodes(t), e)) < allowed[t][e]
           /\ \A i \in DOMAIN Episodes(t) : Episodes(t)[i] <= e
           /\ Episodes(t)' = Append(Episodes(t), e)
    BY <2>1, SentMore
  <2> DEFINE told0 == [u \in Tracker |-> Episodes(u)]
  <2>4. e \in DOMAIN allowed[t]
    <3>1. allowed[t] \in Seq(Nat)
      BY DEF AccountInv, AboutType
    <3> QED
      BY <3>1, LenProperties DEF Episode
  <2>5. told0[t] = Episodes(t)
    OBVIOUS
  <2>6. Promise!Came(t, e) < allowed[t][e]
    <3>1. {i \in DOMAIN told0[t] : told0[t][i] = e} = Occurs(Episodes(t), e)
      BY <2>5 DEF Occurs
    <3>2. Promise!Came(t, e) = Promise!Cardinality({i \in DOMAIN told0[t] : told0[t][i] = e})
      BY DEF Promise!Came
    <3>3. Promise!Came(t, e) = Cardinality(Occurs(Episodes(t), e))
      BY <3>1, <3>2, PromiseSize
    <3> QED
      BY <2>3, <3>3
  <2>7. \A i \in DOMAIN told0[t] : told0[t][i] <= e
    BY <2>3, <2>5
  <2>8. [u \in Tracker |-> Episodes(u)]' = [told0 EXCEPT ![t] = Append(@, e)]
    BY <2>2, <2>3
  <2>9. Outbid' = Outbid
    BY DEF Outbid
  <2>10. Promise!Tell(t)
    BY <2>4, <2>6, <2>7, <2>8, <2>9 DEF Promise!Tell, Outbid
  <2> QED
    BY <2>10 DEF Promise!Next
<1> QED
  BY <1>1, <1>2

-----------------------------------------------------------------------------
(* The half of the delivery: its invariants, from DeliveryProofs.          *)
Dp == INSTANCE DeliveryProofs

LEMMA DeliveryAssumed == MaxQueues \in Nat /\ MaxTried \in Nat
BY EpisodeAssumption

LEMMA SameDelivery ==
    /\ D!Init => Dp!Init
    /\ D!StartObserver => Dp!StartObserver
    /\ D!Publish => Dp!Publish
    /\ D!PublishFails => Dp!PublishFails
    /\ D!StopObserver => Dp!StopObserver
    /\ D!StartBot => Dp!StartBot
    /\ D!Consume => Dp!Consume
    /\ D!Push => Dp!Push
    /\ D!Handle => Dp!Handle
    /\ D!CutBot => Dp!CutBot
    /\ D!StopBot => Dp!StopBot
    /\ D!RestartBroker => Dp!RestartBroker
<1>1. D!Init => Dp!Init
  BY DEF D!Init, Dp!Init
<1>2. D!StartObserver => Dp!StartObserver
  BY DEF D!StartObserver, Dp!StartObserver, D!Try, Dp!Try, D!Route, Dp!Route
<1>3. D!Publish => Dp!Publish
  BY DEF D!Publish, Dp!Publish, D!Try, Dp!Try, D!Route, Dp!Route
<1>4. D!PublishFails => Dp!PublishFails
  BY DEF D!PublishFails, Dp!PublishFails, D!Try, Dp!Try, D!history, Dp!history
<1>5. D!StopObserver => Dp!StopObserver
  BY DEF D!StopObserver, Dp!StopObserver, D!history, Dp!history
<1>6. D!StartBot => Dp!StartBot
  BY DEF D!StartBot, Dp!StartBot
<1>7. D!Consume => Dp!Consume
  BY DEF D!Consume, Dp!Consume, D!history, Dp!history
<1>8. D!Push => Dp!Push
  BY DEF D!Push, Dp!Push, D!history, Dp!history
<1>9. D!Handle => Dp!Handle
  BY DEF D!Handle, Dp!Handle
<1>10. D!CutBot => Dp!CutBot
  BY DEF D!CutBot, Dp!CutBot, D!history, Dp!history
<1>11. D!StopBot => Dp!StopBot
  BY DEF D!StopBot, Dp!StopBot, D!history, Dp!history
<1>12. D!RestartBroker => Dp!RestartBroker
  BY DEF D!RestartBroker, Dp!RestartBroker, D!history, Dp!history
<1> QED
  BY <1>1, <1>2, <1>3, <1>4, <1>5, <1>6, <1>7, <1>8, <1>9, <1>10, <1>11, <1>12

DeliveryInv == Dp!TypeInv /\ Dp!OrderInv

LEMMA DeliveryInit == PipelineInit => DeliveryInv
BY SameDelivery, DeliveryAssumed, Dp!TypeInit, Dp!OrderInit DEF PipelineInit, DeliveryInv

DeliveryStep ==
    \/ D!StartObserver \/ D!Publish \/ D!PublishFails \/ D!StopObserver
    \/ D!StartBot \/ D!Consume \/ D!Push \/ D!Handle \/ D!CutBot \/ D!StopBot
    \/ D!RestartBroker \/ UNCHANGED delivery

LEMMA DeliveryKept == DeliveryInv /\ DeliveryStep => DeliveryInv'
<1> SUFFICES ASSUME DeliveryInv, DeliveryStep PROVE DeliveryInv'
  OBVIOUS
<1>1. [Dp!Next]_(Dp!vars)
  BY SameDelivery DEF DeliveryStep, Dp!Next, Dp!vars, Dp!history, delivery
<1> QED
  BY <1>1, DeliveryAssumed, Dp!TypeStep, Dp!OrderStep DEF DeliveryInv

(* Of the steps that try no publication, one may send an alert that was    *)
(* published after all that were sent.                                     *)
LEMMA DeliverySends ==
    ASSUME DeliveryInv, DeliveryStep, UNCHANGED tried
    PROVE  \/ UNCHANGED sent
           \/ \E n \in 1..tried : /\ \A i \in DOMAIN sent : sent[i] < n
                                  /\ sent' = Append(sent, n)
<1>1. [Dp!Next]_(Dp!vars)
  BY SameDelivery DEF DeliveryStep, Dp!Next, Dp!vars, Dp!history, delivery
<1>2. [Dp!Channel!Publish \/ Dp!Channel!Send]_<<tried, sent>>
  BY <1>1, DeliveryAssumed, Dp!ChannelStep DEF DeliveryInv
<1>3. tried \in Nat
  BY DEF DeliveryInv, Dp!TypeInv, Dp!TypeOK
<1> QED
  BY <1>2, <1>3 DEF Dp!Channel!Publish, Dp!Channel!Send

-----------------------------------------------------------------------------
(* Both halves together.                                                   *)
WorkerInv == TypeInv /\ IntactInv /\ RoundInv /\ VerdictInv

PipelineInv == WorkerInv /\ AccountInv /\ SentInv /\ DeliveryInv

LEMMA PipelineStart == PipelineInit => PipelineInv /\ Promise!Init
<1> SUFFICES ASSUME PipelineInit PROVE PipelineInv /\ Promise!Init
  OBVIOUS
<1>1. Init
  BY DEF PipelineInit
<1>2. WorkerInv
  BY <1>1, TypeInit, IntactInit, RoundInit, VerdictInit DEF WorkerInv
<1>3. PipelineInv
  BY <1>2, AccountInit, SentInit, DeliveryInit DEF PipelineInv
<1>4. {t \in Tracker : isOutbid[t] # {}} = {}
  BY <1>1 DEF Init
<1>5. [t \in Tracker |-> Episodes(t)] = [t \in Tracker |-> <<>>]
  BY SentInit
<1>6. allowed = [t \in Tracker |-> <<>>]
  BY DEF PipelineInit
<1> QED
  BY <1>3, <1>4, <1>5, <1>6 DEF Promise!Init

LEMMA WorkerStays ==
    ASSUME OneSlot, WorkerInv,
           ObserverStep \/ UserStep \/ Crash \/ Restart \/ UNCHANGED vars
    PROVE  WorkerInv'
<1>1. [Next]_vars
  BY DEF Next
<1>2. TypeInv' /\ IntactInv' /\ RoundInv'
  BY <1>1, TypeStep, IntactStep, RoundStep DEF WorkerInv
<1>3. VerdictInv'
  BY VerdictStep, VerdictUser DEF WorkerInv
<1> QED
  BY <1>2, <1>3 DEF WorkerInv

LEMMA PipelineStep ==
    ASSUME OneSlot, PipelineInv, [PipelineNext]_<<vars, delivery, account>>
    PROVE  PipelineInv' /\ [Promise!Next]_(Promise!vars)
<1> USE DEF PipelineInv
<1>a. TypeInv /\ IntactInv /\ RoundInv /\ VerdictInv /\ AboutType
  BY DEF WorkerInv, AccountInv
<1>1. CASE Observe
  <2>1. ObserverStep /\ Account
    BY <1>1 DEF Observe
  <2>2. WorkerInv' /\ Outcome
    BY <1>a, <2>1, WorkerStays, VerdictStep
  <2>3. \/ /\ D!Publish \/ D!PublishFails
           /\ \E t \in Tracker : Notifies(t) /\ Note(t, Episode(t)')
        \/ UNCHANGED <<delivery, about>>
    BY <1>1 DEF Observe
  <2>4. DeliveryStep
    BY <2>3 DEF DeliveryStep
  <2>5. UNCHANGED sent
    BY <2>3 DEF D!Publish, D!PublishFails, D!history, delivery
  <2>6. \/ \E t \in Tracker : Notifies(t) /\ tried' = tried + 1 /\ Note(t, Episode(t)')
        \/ UNCHANGED <<about, tried>>
    BY <2>3 DEF D!Publish, D!PublishFails, D!Try, delivery
  <2>7. AccountInv'
    BY <1>a, <2>1, <2>2, <2>6, AccountStep
  <2>8. \/ UNCHANGED <<about, tried>>
        \/ \E u \in Tracker \cup {NoCopy}, d \in Nat : tried' = tried + 1 /\ Note(u, d)
    <3>1. \A t \in Tracker : Episode(t)' \in Nat
      <4>1. \A t \in Tracker : allowed'[t] \in Seq(Nat)
        BY <2>7 DEF AccountInv, AboutType
      <4> QED
        BY <4>1, LenProperties DEF Episode
    <3> QED
      BY <2>6, <3>1
  <2>9. SentInv' /\ \A t \in Tracker : Episodes(t)' = Episodes(t)
    BY <1>a, <2>5, <2>8, SentKept
  <2> QED
    BY <1>a, <2>1, <2>2, <2>4, <2>7, <2>9, DeliveryKept, PromiseObserve
<1>2. CASE StartProcess
  <2>1. Restart \/ UNCHANGED vars
    BY <1>2 DEF StartProcess
  <2>2. UNCHANGED <<isOutbid, status, row, outbidded, pc, copy>>
    BY <2>1 DEF Restart, vars, store, worker, history
  <2>3. /\ Note(NoCopy, 0) /\ UNCHANGED <<allowed, sent>> /\ tried' = tried + 1
        /\ DeliveryStep
    BY <1>2 DEF StartProcess, D!StartObserver, D!Try, DeliveryStep
  <2>4. AccountInv'
    BY <2>2, <2>3, AccountStart
  <2>5. SentInv' /\ \A t \in Tracker : Episodes(t)' = Episodes(t)
    <3>1. \E u \in Tracker \cup {NoCopy}, d \in Nat : tried' = tried + 1 /\ Note(u, d)
      BY <2>3
    <3> QED
      BY <1>a, <2>3, <3>1, SentKept
  <2> QED
    BY <2>1, <2>2, <2>3, <2>4, <2>5, WorkerStays, DeliveryKept, PromiseQuiet
<1>3. CASE StopProcess
  <2>1. Crash /\ Account /\ DeliveryStep /\ UNCHANGED <<about, tried, sent>>
    BY <1>3 DEF StopProcess, D!StopObserver, D!history, DeliveryStep
  <2>2. WorkerInv' /\ Outcome
    BY <1>a, <2>1, WorkerStays, VerdictStep
  <2>3. AccountInv'
    BY <1>a, <2>1, <2>2, AccountStep
  <2>4. SentInv' /\ \A t \in Tracker : Episodes(t)' = Episodes(t)
    BY <1>a, <2>1, SentKept
  <2> QED
    BY <1>a, <2>1, <2>2, <2>3, <2>4, DeliveryKept, PromiseObserve
<1>4. CASE UseServer
  <2>1. UserStep /\ UNCHANGED <<delivery, about, allowed, tried, sent>>
    BY <1>4 DEF UseServer, delivery, account
  <2>2. /\ UNCHANGED <<pc, copy>>
        /\ \E t \in Tracker :
             /\ isOutbid' = [isOutbid EXCEPT ![t] = {}]
             /\ \A u \in Tracker \ {t} : (Live(u)' <=> Live(u)) /\ Flags(u)' = Flags(u)
    BY <1>a, <2>1, VerdictUser
  <2>3. PICK t \in Tracker :
           /\ isOutbid' = [isOutbid EXCEPT ![t] = {}]
           /\ \A u \in Tracker \ {t} : (Live(u)' <=> Live(u)) /\ Flags(u)' = Flags(u)
    BY <2>2
  <2>4. AccountInv'
    BY <1>a, <2>1, <2>2, <2>3, AccountUser
  <2>5. SentInv' /\ \A u \in Tracker : Episodes(u)' = Episodes(u)
    BY <1>a, <2>1, SentKept
  <2>6. isOutbid'[t] = {} /\ \A u \in Tracker \ {t} : isOutbid'[u] = isOutbid[u]
    BY <1>a, <2>3 DEF TypeInv, TypeOK
  <2>7. [Promise!Next]_(Promise!vars)
    BY <1>a, <2>1, <2>5, <2>6, PromiseTop
  <2> QED
    BY <2>1, <2>4, <2>5, <2>7, WorkerStays, DeliveryKept DEF DeliveryStep
<1>5. CASE Deliver
  <2>1. UNCHANGED <<vars, account>> /\ DeliveryStep /\ UNCHANGED tried
    BY <1>5 DEF Deliver, DeliveryStep, D!StartBot, D!Consume, D!Push, D!Handle,
                D!CutBot, D!StopBot, D!RestartBroker, D!history
  <2>2. UNCHANGED <<about, allowed, isOutbid>>
    BY <2>1 DEF vars, account, history
  <2>3. AccountInv'
    BY <2>1, AccountSame
  <2>4. CASE UNCHANGED sent
    <3>1. SentInv' /\ \A t \in Tracker : Episodes(t)' = Episodes(t)
      BY <1>a, <2>1, <2>2, <2>4, SentKept
    <3> QED
      BY <2>1, <2>2, <2>3, <3>1, WorkerStays, DeliveryKept, PromiseQuiet
  <2>5. CASE \E n \in 1..tried : /\ \A i \in DOMAIN sent : sent[i] < n
                                 /\ sent' = Append(sent, n)
    <3>1. PICK n \in 1..tried : (\A i \in DOMAIN sent : sent[i] < n) /\ sent' = Append(sent, n)
      BY <2>5
    <3>2. SentInv'
      BY <2>1, <2>2, <3>1, SentMore
    <3>3. [Promise!Next]_(Promise!vars)
      BY <2>1, <2>2, <3>1, PromiseTell
    <3> QED
      BY <2>1, <2>3, <3>2, <3>3, WorkerStays, DeliveryKept
  <2> QED
    BY <2>1, <2>4, <2>5, DeliverySends
<1>6. CASE UNCHANGED <<vars, delivery, account>>
  <2>1. UNCHANGED <<vars, about, allowed, isOutbid, tried, sent>> /\ DeliveryStep
    BY <1>6 DEF vars, history, account, delivery, DeliveryStep
  <2>2. SentInv' /\ \A t \in Tracker : Episodes(t)' = Episodes(t)
    BY <1>a, <2>1, SentKept
  <2>3. AccountInv'
    BY <1>6, <2>1, AccountSame
  <2> QED
    BY <2>1, <2>2, <2>3, WorkerStays, DeliveryKept, PromiseQuiet
<1> QED
  BY <1>1, <1>2, <1>3, <1>4, <1>5, <1>6 DEF PipelineNext

(* The owner of a tracker with one slot gets one message at most of every  *)
(* time it is outbid, one more for each alert whose flag was lost with a   *)
(* stop or a failed statement, and gets them in order: from the verdicts   *)
(* of CheckTracker to the calls of Telegram, however often the observer,   *)
(* the bot and the broker stop, and whatever is lost between them.         *)
THEOREM OwnersGetOneMessage ==
    ASSUME OneSlot
    PROVE  PipelineSpec => OneMessagePerOutbid
<1>1. PipelineInit => PipelineInv /\ Promise!Init
  BY PipelineStart
<1>2. PipelineInv /\ [PipelineNext]_<<vars, delivery, account>>
        => PipelineInv' /\ [Promise!Next]_(Promise!vars)
  BY PipelineStep
<1> QED
  BY <1>1, <1>2, PTL DEF PipelineSpec, OneMessagePerOutbid, Promise!Spec
=============================================================================
