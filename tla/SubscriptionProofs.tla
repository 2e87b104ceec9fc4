------------------------- MODULE SubscriptionProofs -------------------------
(***************************************************************************)
(* Theorems about Subscription, for any users, orders and rows at the      *)
(* start, and any finite number of webhook calls at a time.                *)
(***************************************************************************)
EXTENDS Subscription, TLAPS, FiniteSetTheorems

(* An "extend" has loaded a row.                                           *)
TypeInv ==
    /\ TypeOK
    /\ \A h \in Handler : pc[h] = "extend" => read[h] \in Nat

LEMMA PendingFinite ==
    ASSUME NEW u PROVE IsFiniteSet(Pending(u)) /\ Cardinality(Pending(u)) \in Nat
<1>1. Pending(u) \in SUBSET Handler
  BY DEF Pending
<1> QED
  BY <1>1, HandlerAssumption, FS_Subset, FS_CardinalityType

LEMMA TypeInit == Init => TypeInv
BY RowsAssumption DEF Init, TypeInv, TypeOK

LEMMA TypeStep == TypeInv /\ [Next]_vars => TypeInv'
<1> SUFFICES ASSUME TypeInv, [Next]_vars PROVE TypeInv'
  OBVIOUS
<1> USE OwnerAssumption, NoneAssumption DEF TypeInv, TypeOK
<1>a. \A h \in Handler : Buyer(h) \in User
  BY DEF Buyer
<1>1. ASSUME NEW h \in Handler, NEW o \in Order, Receive(h, o) PROVE TypeInv'
  BY <1>1 DEF Receive, Goto, history
<1>2. ASSUME NEW h \in Handler, Lookup(h) PROVE TypeInv'
  BY <1>2, <1>a DEF Lookup, Goto
<1>3. ASSUME NEW h \in Handler, LookupFails(h) \/ ReadFails(h) \/ CreateFails(h)
      PROVE  TypeInv'
  <2>1. excused' \in [User -> Nat]
    BY <1>3, <1>a DEF LookupFails, ReadFails, CreateFails, Excuse, history
  <2> QED
    BY <1>3, <2>1 DEF LookupFails, ReadFails, CreateFails, Return, Goto, history
<1>4. ASSUME NEW h \in Handler, Read(h) PROVE TypeInv'
  <2>1. excused' \in [User -> Nat]
    BY <1>4, <1>a DEF Read, Excuse
  <2>2. until[Buyer(h)] = None \/ until[Buyer(h)] \in Nat
    BY <1>a
  <2>3. /\ pc' \in [Handler -> {"idle", "lookup", "read", "create", "extend"}]
        /\ read' \in [Handler -> Nat \cup {None}]
        /\ \A g \in Handler : pc'[g] = "extend" => read'[g] \in Nat
    BY <1>4, <2>2 DEF Read, Return, Goto
  <2> QED
    BY <1>4, <2>1, <2>3 DEF Read
<1>5. ASSUME NEW h \in Handler, Create(h) PROVE TypeInv'
  BY <1>5, <1>a DEF Create, Return, Goto, ZeroTime, history
<1>6. ASSUME NEW h \in Handler, Extend(h) PROVE TypeInv'
  <2>1. until' \in [User -> Nat \cup {None}]
    BY <1>6, <1>a DEF Extend, MonthAdded
  <2> QED
    BY <1>6, <2>1, <1>a DEF Extend, Return, Excuse, Goto, history
<1>7. ASSUME NEW o \in Order, CreateOrder(o) PROVE TypeInv'
  BY <1>7 DEF CreateOrder, StoreOrder, OpenInvoice, Pay, ExpireOrder, handlers, history
<1>8. CASE Month
  BY <1>8 DEF Month, handlers, history
<1>9. CASE Crash
  <2>1. \A u \in User : excused[u] + Cardinality(Pending(u)) \in Nat
    BY PendingFinite
  <2> QED
    BY <1>9, <2>1 DEF Crash, history
<1>10. CASE UNCHANGED vars
  BY <1>10 DEF vars, handlers, history
<1> QED
  BY <1>1, <1>2, <1>3, <1>4, <1>5, <1>6, <1>7, <1>8, <1>9, <1>10
  DEF Next, ConfirmOrder

(* Every variable keeps its type.                                          *)
THEOREM TypeCorrect == Spec => []TypeOK
<1>1. TypeInv => TypeOK
  BY DEF TypeInv
<1> QED
  BY <1>1, TypeInit, TypeStep, PTL DEF Spec

-----------------------------------------------------------------------------
(* Orders in Redis: the key is stored before the gateway hears of the      *)
(* order, and only the end of its two hours removes it.                    *)
KeyInv == \A o \in Order : invoice[o] # "none" /\ ~expired[o] => known[o]

LEMMA KeyStep == TypeInv /\ KeyInv /\ [Next]_vars => KeyInv'
<1> SUFFICES ASSUME TypeInv, KeyInv, [Next]_vars PROVE KeyInv'
  OBVIOUS
<1> USE DEF TypeInv, TypeOK, KeyInv
<1>1. ASSUME NEW h \in Handler, ConfirmOrder(h) PROVE KeyInv'
  BY <1>1 DEF ConfirmOrder, Receive, Lookup, LookupFails, Read, ReadFails, Create,
              CreateFails, Extend, history
<1>2. ASSUME NEW o \in Order, CreateOrder(o) PROVE KeyInv'
  BY <1>2 DEF CreateOrder, StoreOrder, OpenInvoice, Pay, ExpireOrder
<1>3. CASE Month \/ Crash \/ UNCHANGED vars
  BY <1>3 DEF Month, Crash, vars
<1> QED
  BY <1>1, <1>2, <1>3 DEF Next

(* The webhook of a paid order finds the order, until its time is over.    *)
THEOREM PaidOrdersStayKnown == Spec => []PaidOrderKnown
<1>1. Init => KeyInv
  BY DEF Init, KeyInv
<1>2. TypeInv /\ KeyInv => PaidOrderKnown
  BY DEF KeyInv, PaidOrderKnown
<1>3. TypeInv /\ KeyInv /\ [Next]_vars => (TypeInv /\ KeyInv)'
  BY TypeStep, KeyStep
<1> QED
  BY <1>1, <1>2, <1>3, TypeInit, PTL DEF Spec

-----------------------------------------------------------------------------
(* Months.  A call that was accepted and is still under way has used none  *)
(* of the months it stands for, so what is in the row, and what a call is  *)
(* going to write over it, stay below the number of the calls that ended.  *)
Ended(u) == accepted[u] - Cardinality(Pending(u))

MonthsInv ==
    /\ \A u \in User : first[u] # None => until[u] # None /\ until[u] <= first[u] + Ended(u)
    /\ \A h \in Handler : pc[h] = "extend" /\ first[Buyer(h)] # None
                            => read[h] <= first[Buyer(h)] + Ended(Buyer(h))

(* A step that ends no call, and accepts none.                             *)
LEMMA NothingEnds ==
    ASSUME TypeInv, NEW u \in User, Pending(u)' = Pending(u), accepted' = accepted
    PROVE  Ended(u)' = Ended(u)
BY DEF Ended

(* A call of a user that comes to its end, successfully or not.            *)
LEMMA CallEnds ==
    ASSUME TypeInv, NEW h \in Handler, Return(h), order' = order, accepted' = accepted,
           pc[h] \in {"read", "create", "extend"}, NEW u \in User
    PROVE  Ended(u)' = IF u = Buyer(h) THEN Ended(u) + 1 ELSE Ended(u)
<1>1. Pending(u)' = Pending(u) \ {h}
  BY DEF Return, Goto, Pending, Buyer, TypeInv, TypeOK
<1>2. h \in Pending(u) <=> u = Buyer(h)
  BY DEF Pending
<1>3. Cardinality(Pending(u)') = IF h \in Pending(u) THEN Cardinality(Pending(u)) - 1
                                                    ELSE Cardinality(Pending(u))
  BY <1>1, PendingFinite, FS_RemoveElement
<1>4. accepted[u] \in Nat /\ Cardinality(Pending(u)) \in Nat
  BY PendingFinite DEF TypeInv, TypeOK
<1> QED
  BY <1>2, <1>3, <1>4 DEF Ended

LEMMA MonthsInit == Init => MonthsInv
<1> SUFFICES ASSUME Init PROVE MonthsInv
  OBVIOUS
<1>1. \A u \in User : Pending(u) = {}
  BY DEF Init, Pending
<1>2. ASSUME NEW u \in User PROVE Ended(u) = 0
  <2>1. Cardinality(Pending(u)) = 0
    BY <1>1, FS_EmptySet
  <2>2. accepted[u] = 0
    BY DEF Init
  <2> QED
    BY <2>1, <2>2 DEF Ended
<1>3. \A u \in User : until[u] \in Nat \cup {None} /\ first[u] = until[u]
  BY RowsAssumption DEF Init
<1> QED
  BY <1>2, <1>3 DEF Init, MonthsInv

LEMMA MonthsStep == TypeInv /\ MonthsInv /\ [Next]_vars => MonthsInv'
<1> SUFFICES ASSUME TypeInv, MonthsInv, [Next]_vars PROVE MonthsInv'
  OBVIOUS
<1>a. \A h \in Handler : Buyer(h) \in User
  BY OwnerAssumption DEF Buyer, TypeInv, TypeOK
<1>b. \A u \in User : /\ Ended(u) \in Int
                      /\ first[u] \in Nat \cup {None}
                      /\ until[u] \in Nat \cup {None}
  BY PendingFinite DEF Ended, TypeInv, TypeOK
<1>c. None \notin Nat
  BY NoneAssumption
<1>1. ASSUME \A u \in User : Ended(u)' \in Int /\ Ended(u)' >= Ended(u),
             first' = first, until' = until, order' = order, read' = read,
             \A h \in Handler : pc'[h] = "extend" => pc[h] = "extend"
      PROVE  MonthsInv'
  <2>1. \A h \in Handler : Buyer(h)' = Buyer(h)
    BY <1>1 DEF Buyer
  <2>2. \A h \in Handler : pc[h] = "extend" => read[h] \in Nat
    BY DEF TypeInv
  <2> QED
    BY <1>1, <1>a, <1>b, <1>c, <2>1, <2>2 DEF MonthsInv
<1>2. ASSUME NEW h \in Handler, NEW o \in Order, Receive(h, o) PROVE MonthsInv'
  <2>1. \A u \in User : Pending(u)' = Pending(u)
    BY <1>2 DEF Receive, Goto, Pending, Buyer, TypeInv, TypeOK
  <2>2. accepted' = accepted /\ first' = first /\ until' = until /\ read' = read
    BY <1>2 DEF Receive, history
  <2>3. \A u \in User : Ended(u)' = Ended(u)
    BY <2>1, <2>2, NothingEnds
  <2>4. \A g \in Handler : pc'[g] = "extend" => pc[g] = "extend" /\ Buyer(g)' = Buyer(g)
    BY <1>2 DEF Receive, Goto, Buyer, TypeInv, TypeOK
  <2> QED
    BY <1>a, <2>2, <2>3, <2>4 DEF MonthsInv
<1>3. ASSUME NEW h \in Handler, Lookup(h) PROVE MonthsInv'
  <2>1. accepted' = [accepted EXCEPT ![Buyer(h)] = @ + 1]
    BY <1>3 DEF Lookup
  <2>2. ASSUME NEW u \in User PROVE Ended(u)' = Ended(u)
    <3>1. Pending(u)' = IF u = Buyer(h) THEN Pending(u) \cup {h} ELSE Pending(u)
      BY <1>3 DEF Lookup, Goto, Pending, Buyer, TypeInv, TypeOK
    <3>2. h \notin Pending(u)
      BY <1>3 DEF Lookup, Pending
    <3>3. Cardinality(Pending(u) \cup {h}) = Cardinality(Pending(u)) + 1
      BY <3>2, PendingFinite, FS_AddElement
    <3>4. Cardinality(Pending(u)') = IF u = Buyer(h) THEN Cardinality(Pending(u)) + 1
                                                    ELSE Cardinality(Pending(u))
      BY <3>1, <3>3
    <3>5. accepted[u] \in Nat /\ Cardinality(Pending(u)) \in Nat
      BY PendingFinite DEF TypeInv, TypeOK
    <3>6. accepted'[u] = IF u = Buyer(h) THEN accepted[u] + 1 ELSE accepted[u]
      BY <2>1 DEF TypeInv, TypeOK
    <3> QED
      BY <3>4, <3>5, <3>6 DEF Ended
  <2> QED
    BY <1>1, <1>3, <1>b, <2>2 DEF Lookup, Goto, TypeInv, TypeOK
<1>4. ASSUME NEW h \in Handler, LookupFails(h) PROVE MonthsInv'
  <2>1. \A u \in User : Pending(u)' = Pending(u)
    BY <1>4 DEF LookupFails, Return, Goto, Pending, Buyer, TypeInv, TypeOK
  <2>2. \A u \in User : Ended(u)' = Ended(u)
    BY <1>4, <2>1, NothingEnds DEF LookupFails, history
  <2>3. \A g \in Handler : pc'[g] = "extend" => /\ pc[g] = "extend"
                                                /\ read'[g] = read[g]
                                                /\ Buyer(g)' = Buyer(g)
    BY <1>4 DEF LookupFails, Return, Goto, Buyer, TypeInv, TypeOK
  <2>4. first' = first /\ until' = until
    BY <1>4 DEF LookupFails, history
  <2> QED
    BY <1>a, <2>2, <2>3, <2>4 DEF MonthsInv
<1>5. ASSUME NEW h \in Handler, pc[h] \in {"read", "create", "extend"}, Return(h),
             order' = order, accepted' = accepted
      PROVE  /\ \A u \in User : Ended(u)' = IF u = Buyer(h) THEN Ended(u) + 1 ELSE Ended(u)
             /\ \A g \in Handler : pc'[g] = "extend" => /\ pc[g] = "extend"
                                                        /\ read'[g] = read[g]
                                                        /\ Buyer(g)' = Buyer(g)
  <2>1. ASSUME NEW u \in User
        PROVE  Ended(u)' = IF u = Buyer(h) THEN Ended(u) + 1 ELSE Ended(u)
    BY <1>5, CallEnds
  <2>2. \A g \in Handler : pc'[g] = "extend" => /\ pc[g] = "extend"
                                                /\ read'[g] = read[g]
                                                /\ Buyer(g)' = Buyer(g)
    BY <1>5 DEF Return, Goto, Buyer, TypeInv, TypeOK
  <2> QED
    BY <2>1, <2>2
<1>6. ASSUME NEW h \in Handler, ReadFails(h) \/ CreateFails(h) PROVE MonthsInv'
  <2>1. /\ pc[h] \in {"read", "create", "extend"} /\ Return(h) /\ order' = order
        /\ accepted' = accepted /\ first' = first /\ until' = until
    BY <1>6 DEF ReadFails, CreateFails, history
  <2>2. \A u \in User : Ended(u)' \in Int /\ Ended(u)' >= Ended(u)
    BY <1>5, <1>b, <2>1
  <2>3. \A g \in Handler : pc[g] = "extend" => read[g] \in Nat
    BY DEF TypeInv
  <2> QED
    BY <1>5, <1>a, <1>b, <1>c, <2>1, <2>2, <2>3 DEF MonthsInv
<1>7. ASSUME NEW h \in Handler, Read(h) PROVE MonthsInv'
  <2>0. /\ pc[h] = "read" /\ order' = order /\ accepted' = accepted /\ first' = first
        /\ until' = until
    BY <1>7 DEF Read, history
  <2>1. CASE Goto(h, "create") /\ UNCHANGED read
    <3>1. \A u \in User : Pending(u)' = Pending(u)
      BY <2>0, <2>1 DEF Goto, Pending, Buyer, TypeInv, TypeOK
    <3>2. \A u \in User : Ended(u)' = Ended(u)
      BY <2>0, <3>1, NothingEnds
    <3>3. \A g \in Handler : pc'[g] = "extend" => pc[g] = "extend"
      BY <2>1 DEF Goto, TypeInv, TypeOK
    <3> QED
      BY <1>1, <1>b, <2>0, <2>1, <3>2, <3>3
  <2>2. CASE Return(h)
    <3>2. \A u \in User : Ended(u)' \in Int /\ Ended(u)' >= Ended(u)
      BY <1>5, <1>b, <2>0, <2>2
    <3>3. \A g \in Handler : pc[g] = "extend" => read[g] \in Nat
      BY DEF TypeInv
    <3> QED
      BY <1>5, <1>a, <1>b, <1>c, <2>0, <2>2, <3>2, <3>3 DEF MonthsInv
  <2>3. CASE Goto(h, "extend") /\ read' = [read EXCEPT ![h] = until[Buyer(h)]]
    <3>1. \A u \in User : Pending(u)' = Pending(u)
      BY <2>0, <2>3 DEF Goto, Pending, Buyer, TypeInv, TypeOK
    <3>2. \A u \in User : Ended(u)' = Ended(u)
      BY <2>0, <3>1, NothingEnds
    <3>3. \A g \in Handler : Buyer(g)' = Buyer(g)
      BY <2>0 DEF Buyer
    <3>4. \A g \in Handler : g # h /\ pc'[g] = "extend" => pc[g] = "extend" /\ read'[g] = read[g]
      BY <2>3 DEF Goto, TypeInv, TypeOK
    <3>5. read'[h] = until[Buyer(h)]
      BY <2>3 DEF TypeInv, TypeOK
    <3> QED
      BY <1>a, <2>0, <3>2, <3>3, <3>4, <3>5 DEF MonthsInv
  <2> QED
    BY <1>7, <2>1, <2>2, <2>3 DEF Read
<1>8. ASSUME NEW h \in Handler, Create(h) PROVE MonthsInv'
  <2>1. /\ pc[h] \in {"read", "create", "extend"} /\ Return(h) /\ order' = order
        /\ accepted' = accepted /\ first' = first
    BY <1>8 DEF Create, history
  <2>2. first[Buyer(h)] = None
    BY <1>8, <1>a DEF Create, MonthsInv
  <2>3. \A u \in User : u # Buyer(h) => until'[u] = until[u]
    BY <1>8 DEF Create, TypeInv, TypeOK
  <2>4. \A u \in User : Ended(u)' \in Int /\ Ended(u)' >= Ended(u)
    BY <1>5, <1>b, <2>1
  <2>5. \A g \in Handler : pc[g] = "extend" => read[g] \in Nat
    BY DEF TypeInv
  <2> QED
    BY <1>5, <1>a, <1>b, <1>c, <2>1, <2>2, <2>3, <2>4, <2>5 DEF MonthsInv
<1>9. ASSUME NEW h \in Handler, Extend(h) PROVE MonthsInv'
  <2>1. /\ pc[h] = "extend" /\ Return(h) /\ order' = order
        /\ accepted' = accepted /\ first' = first
    BY <1>9 DEF Extend, history
  <2>2. /\ until'[Buyer(h)] \in {until[Buyer(h)], read[h] + 1}
        /\ \A u \in User : u # Buyer(h) => until'[u] = until[u]
    BY <1>9, <1>a DEF Extend, MonthAdded, TypeInv, TypeOK
  <2>3. \A u \in User : /\ Ended(u)' \in Int /\ Ended(u)' >= Ended(u)
                        /\ u = Buyer(h) => Ended(u)' = Ended(u) + 1
    BY <1>5, <1>a, <1>b, <2>1
  <2>4. \A g \in Handler : pc[g] = "extend" => read[g] \in Nat
    BY DEF TypeInv
  <2>5. \A u \in User : first[u] # None
          => until'[u] # None /\ until'[u] <= first[u] + Ended(u)'
    <3> SUFFICES ASSUME NEW u \in User, first[u] # None
                 PROVE  until'[u] # None /\ until'[u] <= first[u] + Ended(u)'
      OBVIOUS
    <3>1. until[u] \in Nat /\ until[u] <= first[u] + Ended(u)
      BY <1>b DEF MonthsInv
    <3>2. u = Buyer(h) => read[h] \in Nat /\ read[h] <= first[u] + Ended(u)
      BY <2>1, <2>4 DEF MonthsInv
    <3> QED
      BY <1>b, <1>c, <2>2, <2>3, <3>1, <3>2
  <2>6. \A g \in Handler : pc'[g] = "extend" => /\ pc[g] = "extend"
                                                /\ read'[g] = read[g]
                                                /\ Buyer(g)' = Buyer(g)
    BY <1>5, <2>1
  <2>7. \A g \in Handler : pc'[g] = "extend" /\ first[Buyer(g)] # None
          => read'[g] <= first[Buyer(g)] + Ended(Buyer(g))'
    <3> SUFFICES ASSUME NEW g \in Handler, pc'[g] = "extend", first[Buyer(g)] # None
                 PROVE  read'[g] <= first[Buyer(g)] + Ended(Buyer(g))'
      OBVIOUS
    <3>1. read[g] <= first[Buyer(g)] + Ended(Buyer(g)) /\ read[g] \in Nat /\ read'[g] = read[g]
      BY <2>4, <2>6 DEF MonthsInv
    <3>2. \A u \in User : u = Buyer(g) => Ended(u)' >= Ended(u) /\ Ended(u)' \in Int
      BY <2>3
    <3>3. Buyer(g)' = Buyer(g)
      BY <2>6
    <3> QED
      BY <1>a, <1>b, <1>c, <2>3, <3>1, <3>2, <3>3
  <2> QED
    BY <2>1, <2>5, <2>6, <2>7 DEF MonthsInv
<1>10. CASE (\E o \in Order : CreateOrder(o)) \/ Month \/ UNCHANGED vars
  <2>1. UNCHANGED <<until, handlers, history>>
    BY <1>10 DEF CreateOrder, StoreOrder, OpenInvoice, Pay, ExpireOrder, Month, vars
  <2>2. /\ pc' = pc /\ order' = order /\ read' = read /\ until' = until
        /\ accepted' = accepted /\ first' = first
    BY <2>1 DEF handlers, history
  <2>3. \A u \in User : Pending(u)' = Pending(u)
    BY <2>2 DEF Pending, Buyer
  <2>4. \A u \in User : Ended(u)' = Ended(u)
    BY <2>2, <2>3, NothingEnds
  <2> QED
    BY <1>1, <1>b, <2>2, <2>4
<1>11. CASE Crash
  <2>1. /\ until' = until /\ accepted' = accepted /\ first' = first
        /\ \A h \in Handler : pc'[h] = "idle"
    BY <1>11 DEF Crash, history
  <2>2. ASSUME NEW u \in User PROVE Ended(u)' \in Int /\ Ended(u)' >= Ended(u)
    <3>1. Pending(u)' = {}
      BY <2>1 DEF Pending
    <3>2. Cardinality(Pending(u)') = 0
      BY <3>1, FS_EmptySet
    <3>3. accepted[u] \in Nat /\ Cardinality(Pending(u)) \in Nat
      BY PendingFinite DEF TypeInv, TypeOK
    <3> QED
      BY <2>1, <3>2, <3>3 DEF Ended
  <2> QED
    BY <1>b, <1>c, <2>1, <2>2 DEF MonthsInv
<1> QED
  BY <1>2, <1>3, <1>4, <1>6, <1>7, <1>8, <1>9, <1>10, <1>11 DEF Next, ConfirmOrder

(* No user gets more months than webhook calls were accepted: neither      *)
(* repeated nor concurrent calls add a month too many.                     *)
THEOREM MonthsStayBounded == Spec => []MonthsBounded
<1>1. TypeInv /\ MonthsInv => MonthsBounded
  <2> SUFFICES ASSUME TypeInv, MonthsInv, NEW u \in User, until[u] # None, first[u] # None
               PROVE  until[u] <= first[u] + accepted[u]
    BY DEF MonthsBounded
  <2>1. until[u] <= first[u] + Ended(u)
    BY DEF MonthsInv
  <2>2. until[u] \in Nat /\ first[u] \in Nat /\ accepted[u] \in Nat
    BY DEF TypeInv, TypeOK
  <2>3. Ended(u) \in Int /\ Ended(u) <= accepted[u]
    BY <2>2, PendingFinite DEF Ended
  <2> QED
    BY <2>1, <2>2, <2>3
<1>2. TypeInv /\ MonthsInv /\ [Next]_vars => (TypeInv /\ MonthsInv)'
  BY TypeStep, MonthsStep
<1> QED
  BY <1>1, <1>2, TypeInit, MonthsInit, PTL DEF Spec

-----------------------------------------------------------------------------
(* The other bound on months.  While calls of a user extend the same row,  *)
(* all but one of them are excused, and the row and everything that is     *)
(* about to be written over it are at least so far:                        *)
Margin(u) == IF Extending(u) = {} THEN 0 ELSE Cardinality(Extending(u)) - 1

Least(u) ==
    first[u] + accepted[u] - excused[u] - Cardinality(Pending(u)) + Margin(u)

KeptInv ==
    /\ \A u \in User : first[u] # None =>
         /\ until[u] # None /\ Least(u) <= until[u]
         /\ \A g \in Extending(u) : Least(u) <= read[g]
    /\ \A h \in Handler : pc[h] = "create" => first[Buyer(h)] = None

LEMMA ExtendingFinite ==
    ASSUME NEW u
    PROVE  /\ IsFiniteSet(Extending(u)) /\ Cardinality(Extending(u)) \in Nat
           /\ Extending(u) # {} => Cardinality(Extending(u)) >= 1
           /\ Margin(u) \in Nat
<1>1. IsFiniteSet(Extending(u)) /\ Cardinality(Extending(u)) \in Nat
  BY PendingFinite, FS_Subset, FS_CardinalityType DEF Extending
<1>2. Extending(u) # {} => Cardinality(Extending(u)) # 0
  BY <1>1, FS_EmptySet
<1> QED
  BY <1>1, <1>2 DEF Margin

LEMMA LeastType ==
    ASSUME TypeInv, NEW u \in User, first[u] # None PROVE Least(u) \in Int
BY PendingFinite, ExtendingFinite DEF Least, TypeInv, TypeOK

(* What a call of another user does is nothing to this one.                *)
LEMMA LeastSame ==
    ASSUME TypeInv, NEW u \in User, first' = first, accepted'[u] = accepted[u],
           excused'[u] = excused[u], Pending(u)' = Pending(u), Extending(u)' = Extending(u)
    PROVE  Least(u)' = Least(u)
BY DEF Least, Margin

(* A call that has been accepted ends.                                     *)
LEMMA CallLeaves ==
    ASSUME TypeInv, NEW h \in Handler, Return(h), order' = order,
           pc[h] \in {"read", "create", "extend"}, NEW u \in User
    PROVE  /\ Extending(u)' = Extending(u) \ {h}
           /\ Pending(u)' = Pending(u) \ {h}
           /\ Cardinality(Pending(u)') = Cardinality(Pending(u)) - (IF u = Buyer(h) THEN 1 ELSE 0)
           /\ Cardinality(Extending(u)')
                = Cardinality(Extending(u)) - (IF h \in Extending(u) THEN 1 ELSE 0)
           /\ Margin(u)' \in Nat /\ Margin(u)' <= Margin(u)
           /\ \A g \in Handler : g # h => pc'[g] = pc[g] /\ read'[g] = read[g]
           /\ pc'[h] = "idle"
<1>1. /\ \A g \in Handler : g # h => pc'[g] = pc[g] /\ read'[g] = read[g]
      /\ pc'[h] = "idle"
      /\ \A g \in Handler : Buyer(g)' = Buyer(g)
  BY DEF Return, Goto, Buyer, TypeInv, TypeOK
<1>2. Pending(u)' = Pending(u) \ {h} /\ Extending(u)' = Extending(u) \ {h}
  BY <1>1 DEF Pending, Extending
<1>3. h \in Pending(u) <=> u = Buyer(h)
  BY DEF Pending
<1>4. Cardinality(Pending(u) \ {h})
        = IF h \in Pending(u) THEN Cardinality(Pending(u)) - 1 ELSE Cardinality(Pending(u))
  BY PendingFinite, FS_RemoveElement
<1>5. Cardinality(Extending(u) \ {h})
        = IF h \in Extending(u) THEN Cardinality(Extending(u)) - 1 ELSE Cardinality(Extending(u))
  BY ExtendingFinite, FS_RemoveElement
<1>6. Cardinality(Pending(u)) \in Nat /\ Cardinality(Extending(u)) \in Nat
  BY PendingFinite, ExtendingFinite
<1>7. Cardinality(Pending(u)') = Cardinality(Pending(u)) - (IF u = Buyer(h) THEN 1 ELSE 0)
  BY <1>2, <1>3, <1>4, <1>6
<1>8. Cardinality(Extending(u)')
        = Cardinality(Extending(u)) - (IF h \in Extending(u) THEN 1 ELSE 0)
  BY <1>2, <1>5, <1>6
<1>9. Margin(u)' \in Nat /\ Margin(u)' <= Margin(u)
  <2>1. IsFiniteSet(Extending(u) \ {h})
    BY ExtendingFinite, FS_RemoveElement
  <2>2. Extending(u)' # {} => Cardinality(Extending(u)') # 0
    BY <1>2, <2>1, FS_EmptySet
  <2>3. Cardinality(Extending(u)') <= Cardinality(Extending(u))
    BY <1>6, <1>8
  <2>4. Extending(u)' # {} => Extending(u) # {}
    BY <1>2
  <2>5. Cardinality(Extending(u)') \in Nat
    BY <1>2, <2>1, FS_CardinalityType
  <2> QED
    BY <1>6, <2>2, <2>3, <2>4, <2>5, ExtendingFinite DEF Margin
<1> QED
  BY <1>1, <1>2, <1>7, <1>8, <1>9

LEMMA KeptInit == Init => KeptInv
<1> SUFFICES ASSUME Init PROVE KeptInv
  OBVIOUS
<1>1. \A u \in User : Pending(u) = {} /\ Extending(u) = {}
  BY DEF Init, Pending, Extending
<1>2. Cardinality({}) = 0
  BY FS_EmptySet
<1>3. \A u \in User : Margin(u) = 0
  BY <1>1 DEF Margin
<1>4. \A u \in User : until[u] \in Nat \cup {None} /\ first[u] = until[u]
  BY RowsAssumption DEF Init
<1>5. ASSUME NEW u \in User, first[u] # None PROVE Least(u) = until[u]
  <2>1. accepted[u] = 0 /\ excused[u] = 0 /\ Cardinality(Pending(u)) = 0 /\ Margin(u) = 0
    BY <1>1, <1>2, <1>3 DEF Init
  <2>2. first[u] \in Nat /\ first[u] = until[u]
    BY <1>4, <1>5
  <2> QED
    BY <2>1, <2>2 DEF Least
<1> QED
  BY <1>1, <1>4, <1>5 DEF Init, KeptInv

LEMMA KeptStep == TypeInv /\ KeptInv /\ [Next]_vars => KeptInv'
<1> SUFFICES ASSUME TypeInv, KeptInv, [Next]_vars PROVE KeptInv'
  OBVIOUS
<1>a. \A h \in Handler : Buyer(h) \in User
  BY OwnerAssumption DEF Buyer, TypeInv, TypeOK
<1>b. \A u \in User : /\ accepted[u] \in Nat /\ excused[u] \in Nat
                      /\ first[u] \in Nat \cup {None} /\ until[u] \in Nat \cup {None}
                      /\ Cardinality(Pending(u)) \in Nat /\ Margin(u) \in Nat
                      /\ first[u] # None => Least(u) \in Int
  BY PendingFinite, ExtendingFinite, LeastType DEF TypeInv, TypeOK
<1>c. \A u \in User : \A g \in Extending(u) : read[g] \in Nat
  BY DEF Extending, Pending, TypeInv
<1>d. None \notin Nat
  BY NoneAssumption
(* Steps that write no row and read none.                                  *)
<1>1. ASSUME first' = first, until' = until,
             \A u \in User : first[u] # None => Least(u)' \in Int /\ Least(u)' <= Least(u),
             \A u \in User : \A g \in Extending(u)' : g \in Extending(u) /\ read'[g] = read[g],
             \A g \in Handler : pc'[g] = "create" => pc[g] = "create" /\ Buyer(g)' = Buyer(g)
      PROVE  KeptInv'
  BY <1>1, <1>b, <1>c, <1>d DEF KeptInv
(* An accepted call ends without its month, and is excused.                *)
<1>2. ASSUME NEW h \in Handler, pc[h] \in {"read", "extend"}, Return(h), Excuse(h),
             order' = order, first' = first, accepted' = accepted, until' = until
      PROVE  KeptInv'
  <2>1. \A u \in User : excused'[u] = excused[u] + (IF u = Buyer(h) THEN 1 ELSE 0)
    BY <1>2, <1>a, <1>b DEF Excuse, TypeInv, TypeOK
  <2>2. ASSUME NEW u \in User, first[u] # None PROVE Least(u)' \in Int /\ Least(u)' <= Least(u)
    <3>1. /\ Cardinality(Pending(u)')
               = Cardinality(Pending(u)) - (IF u = Buyer(h) THEN 1 ELSE 0)
          /\ Margin(u)' \in Nat /\ Margin(u)' <= Margin(u)
      BY <1>2, CallLeaves
    <3> QED
      BY <1>2, <1>b, <2>1, <2>2, <3>1 DEF Least
  <2>3. \A u \in User : \A g \in Extending(u)' : g \in Extending(u) /\ read'[g] = read[g]
    <3> SUFFICES ASSUME NEW u \in User, NEW g \in Extending(u)'
                 PROVE  g \in Extending(u) /\ read'[g] = read[g]
      OBVIOUS
    <3>1. Extending(u)' = Extending(u) \ {h}
      BY <1>2, CallLeaves
    <3>2. \A f \in Handler : f # h => read'[f] = read[f]
      BY <1>2, CallLeaves
    <3> QED
      BY <3>1, <3>2 DEF Extending, Pending
  <2>4. \A g \in Handler : pc'[g] = "create" => pc[g] = "create" /\ Buyer(g)' = Buyer(g)
    BY <1>2 DEF Return, Goto, Buyer, TypeInv, TypeOK
  <2> QED
    BY <1>1, <1>2, <2>2, <2>3, <2>4
(* The row that is read is at least so far, and whoever reads it while     *)
(* another call extends it is excused.                                     *)
<1>3. ASSUME NEW h \in Handler, Read(h) PROVE KeptInv'
  <2>0. /\ pc[h] = "read" /\ order' = order /\ accepted' = accepted /\ first' = first
        /\ until' = until /\ \A g \in Handler : Buyer(g)' = Buyer(g)
    BY <1>3 DEF Read, Buyer
  <2>1. CASE Goto(h, "create") /\ UNCHANGED <<read, excused>> /\ until[Buyer(h)] = None
    <3>1. /\ \A u \in User : Pending(u)' = Pending(u) /\ Extending(u)' = Extending(u)
          /\ \A g \in Handler : pc'[g] = "create" => pc[g] = "create" \/ g = h
      BY <2>0, <2>1 DEF Goto, Pending, Extending, TypeInv, TypeOK
    <3>2. \A u \in User : Least(u)' = Least(u)
      BY <2>0, <2>1, <3>1, LeastSame
    <3>3. first[Buyer(h)] = None
      BY <1>a, <2>1 DEF KeptInv
    <3> QED
      BY <2>0, <2>1, <3>1, <3>2, <3>3 DEF KeptInv
  <2>2. CASE Return(h) /\ Excuse(h)
    BY <1>2, <2>0, <2>2
  <2>3. CASE /\ Goto(h, "extend") /\ read' = [read EXCEPT ![h] = until[Buyer(h)]]
             /\ until[Buyer(h)] # None
             /\ IF Extending(Buyer(h)) # {} THEN Excuse(h) ELSE UNCHANGED excused
    <3>1. \A u \in User : /\ Pending(u)' = Pending(u)
                          /\ Extending(u)' = IF u = Buyer(h) THEN Extending(u) \cup {h}
                                                            ELSE Extending(u)
      BY <2>0, <2>3 DEF Goto, Pending, Extending, TypeInv, TypeOK
    <3>2. \A u \in User : excused'[u]
             = excused[u] + (IF u = Buyer(h) /\ Extending(u) # {} THEN 1 ELSE 0)
      BY <1>a, <1>b, <2>3 DEF Excuse, TypeInv, TypeOK
    <3>3. ASSUME NEW u \in User PROVE first[u] # None => Least(u)' = Least(u)
      <4>1. CASE u # Buyer(h)
        BY <2>0, <3>1, <3>2, <4>1, <1>b, LeastSame
      <4>2. CASE u = Buyer(h)
        <5>1. h \notin Extending(u)
          BY <2>0 DEF Extending
        <5>2. Cardinality(Extending(u) \cup {h}) = Cardinality(Extending(u)) + 1
          BY <5>1, ExtendingFinite, FS_AddElement
        <5>3. Cardinality({}) = 0
          BY FS_EmptySet
        <5>4. Extending(u)' = Extending(u) \cup {h} /\ Pending(u)' = Pending(u)
          BY <3>1, <4>2
        <5>5. Cardinality(Extending(u)) \in Nat /\ Cardinality(Extending(u)') \in Nat
          BY <5>2, <5>4, ExtendingFinite
        <5>6. Margin(u)' = Margin(u) + (IF Extending(u) # {} THEN 1 ELSE 0)
          <6>1. Margin(u)' = Cardinality(Extending(u))
            BY <5>2, <5>4, <5>5 DEF Margin
          <6> QED
            BY <5>3, <5>5, <6>1 DEF Margin
        <5>7. excused'[u] = excused[u] + (IF Extending(u) # {} THEN 1 ELSE 0)
          BY <3>2, <4>2
        <5>8. first[u] # None => first[u] \in Nat
          BY <1>b
        <5> QED
          BY <1>b, <2>0, <5>4, <5>6, <5>7, <5>8 DEF Least
      <4> QED
        BY <4>1, <4>2
    <3>4. /\ read'[h] = until[Buyer(h)]
          /\ \A g \in Handler : g # h => read'[g] = read[g] /\ pc'[g] = pc[g]
          /\ pc'[h] = "extend"
      BY <2>3 DEF Goto, TypeInv, TypeOK
    <3>5. ASSUME NEW u \in User, first[u] # None, NEW g \in Extending(u)'
          PROVE  Least(u)' <= read'[g]
      <4>1. CASE g = h
        <5>1. u = Buyer(h)
          BY <2>0, <3>5, <4>1 DEF Extending, Pending
        <5> QED
          BY <3>3, <3>4, <3>5, <4>1, <5>1 DEF KeptInv
      <4>2. CASE g # h
        <5>1. g \in Extending(u) /\ g \in Handler
          BY <3>1, <3>5, <4>2 DEF Extending, Pending
        <5> QED
          BY <3>3, <3>4, <3>5, <4>2, <5>1 DEF KeptInv
      <4> QED
        BY <4>1, <4>2
    <3> QED
      BY <2>0, <3>3, <3>4, <3>5 DEF KeptInv
  <2> QED
    BY <1>3, <2>1, <2>2, <2>3 DEF Read
<1>4. ASSUME NEW h \in Handler, Create(h) PROVE KeptInv'
  <2>1. /\ pc[h] = "create" /\ Return(h) /\ order' = order /\ first' = first
        /\ accepted' = accepted /\ excused' = excused
        /\ \A u \in User : u # Buyer(h) => until'[u] = until[u]
    BY <1>4 DEF Create, history, TypeInv, TypeOK
  <2>2. first[Buyer(h)] = None
    BY <2>1 DEF KeptInv
  <2>3. ASSUME NEW u \in User, first[u] # None
        PROVE  /\ Least(u)' = Least(u) /\ until'[u] = until[u]
               /\ Extending(u)' \subseteq Extending(u)
    <3>1. u # Buyer(h)
      BY <2>2, <2>3
    <3>2. Pending(u)' = Pending(u) \ {h} /\ Extending(u)' = Extending(u) \ {h}
      BY <2>1, CallLeaves
    <3>3. h \notin Pending(u) /\ h \notin Extending(u)
      BY <3>1 DEF Pending, Extending
    <3>4. Pending(u)' = Pending(u) /\ Extending(u)' = Extending(u)
      BY <3>2, <3>3
    <3> QED
      BY <2>1, <3>1, <3>4, LeastSame
  <2>4. \A g \in Handler : /\ Buyer(g)' = Buyer(g)
                           /\ pc'[g] = "create" => pc[g] = "create"
                           /\ pc'[g] = "extend" => read'[g] = read[g]
    BY <2>1 DEF Return, Goto, Buyer, TypeInv, TypeOK
  <2>5. \A u \in User : \A g \in Extending(u)' : g \in Handler /\ read'[g] = read[g]
    BY <2>4 DEF Extending, Pending
  <2> QED
    BY <2>1, <2>3, <2>4, <2>5 DEF KeptInv
(* A call writes one more than it has read: either it was the only one, or *)
(* there is one less to excuse.                                            *)
<1>5. ASSUME NEW h \in Handler, Extend(h), UNCHANGED excused,
             until' = [until EXCEPT ![Buyer(h)] = MonthAdded(h)]
      PROVE  KeptInv'
  <2>1. /\ pc[h] = "extend" /\ Return(h) /\ order' = order /\ first' = first
        /\ accepted' = accepted /\ excused' = excused
        /\ until' = [until EXCEPT ![Buyer(h)] = read[h] + 1]
    BY <1>5 DEF Extend, MonthAdded
  <2>2. ASSUME NEW u \in User, first[u] # None, u = Buyer(h)
        PROVE  /\ Least(u)' \in Int
               /\ Least(u)' <= Least(u) + 1
               /\ Extending(u)' # {} => Least(u)' = Least(u)
               /\ Least(u) <= read[h] /\ read[h] \in Nat
    <3>1. h \in Extending(u)
      BY <2>1, <2>2 DEF Extending, Pending
    <3>2. /\ Cardinality(Pending(u)') = Cardinality(Pending(u)) - 1
          /\ Cardinality(Extending(u)') = Cardinality(Extending(u)) - 1
          /\ Margin(u)' \in Nat /\ Margin(u)' <= Margin(u)
      BY <2>1, <2>2, <3>1, CallLeaves
    <3>3. Extending(u)' # {} => Margin(u)' = Margin(u) - 1
      BY <3>1, <3>2, ExtendingFinite DEF Margin
    <3>4. first[u] \in Nat
      BY <1>b, <2>2
    <3>5. Least(u) <= read[h] /\ read[h] \in Nat
      BY <1>c, <2>2, <3>1 DEF KeptInv
    <3>6. /\ Least(u) = first[u] + accepted[u] - excused[u] - Cardinality(Pending(u)) + Margin(u)
          /\ Least(u)' = first[u] + accepted[u] - excused[u]
                           - (Cardinality(Pending(u)) - 1) + Margin(u)'
      BY <2>1, <3>2 DEF Least
    <3>7. /\ accepted[u] \in Nat /\ excused[u] \in Nat
          /\ Cardinality(Pending(u)) \in Nat /\ Margin(u) \in Nat
      BY <1>b, <2>2
    <3>8. Least(u) \in Int /\ Least(u)' = Least(u) + 1 + Margin(u)' - Margin(u)
      BY <3>2, <3>4, <3>6, <3>7
    <3> QED
      BY <3>2, <3>3, <3>5, <3>7, <3>8
  <2>3. ASSUME NEW u \in User, u # Buyer(h)
        PROVE  /\ Least(u)' = Least(u) /\ until'[u] = until[u]
               /\ Extending(u)' = Extending(u)
    <3>1. Pending(u)' = Pending(u) \ {h} /\ Extending(u)' = Extending(u) \ {h}
      BY <2>1, CallLeaves
    <3>2. h \notin Pending(u) /\ h \notin Extending(u)
      BY <2>3 DEF Pending, Extending
    <3>3. Pending(u)' = Pending(u) /\ Extending(u)' = Extending(u)
      BY <3>1, <3>2
    <3> QED
      BY <2>1, <2>3, <3>3, LeastSame DEF TypeInv, TypeOK
  <2>4. \A g \in Handler : /\ Buyer(g)' = Buyer(g)
                           /\ pc'[g] = "create" => pc[g] = "create"
                           /\ pc'[g] = "extend" => pc[g] = "extend" /\ read'[g] = read[g]
    BY <2>1 DEF Return, Goto, Buyer, TypeInv, TypeOK
  <2>5. \A u \in User : \A g \in Extending(u)' : g \in Extending(u) /\ read'[g] = read[g]
    BY <2>4 DEF Extending, Pending
  <2>6. until'[Buyer(h)] = read[h] + 1
    BY <1>a, <2>1 DEF TypeInv, TypeOK
  <2>7. ASSUME NEW u \in User, first[u] # None
        PROVE  /\ until'[u] # None /\ Least(u)' <= until'[u]
               /\ \A g \in Extending(u)' : Least(u)' <= read'[g]
    <3>1. CASE u = Buyer(h)
      <4>1. until'[u] # None /\ Least(u)' <= until'[u]
        BY <1>b, <1>d, <2>2, <2>6, <2>7, <3>1
      <4>2. ASSUME NEW g \in Extending(u)' PROVE Least(u)' <= read'[g]
        BY <2>2, <2>5, <2>7, <3>1, <4>2 DEF KeptInv
      <4> QED
        BY <4>1, <4>2
    <3>2. CASE u # Buyer(h)
      BY <2>3, <2>5, <2>7, <3>2 DEF KeptInv
    <3> QED
      BY <3>1, <3>2
  <2> QED
    BY <2>1, <2>4, <2>7 DEF KeptInv
<1>6. ASSUME NEW h \in Handler, Lookup(h) PROVE KeptInv'
  <2>1. /\ pc[h] = "lookup" /\ order' = order /\ read' = read /\ first' = first
        /\ until' = until /\ excused' = excused /\ pc' = [pc EXCEPT ![h] = "read"]
        /\ \A u \in User : accepted'[u] = accepted[u] + (IF u = Buyer(h) THEN 1 ELSE 0)
    BY <1>6, <1>a, <1>b DEF Lookup, Goto, TypeInv, TypeOK
  <2>2. ASSUME NEW u \in User, first[u] # None
        PROVE  Least(u)' = Least(u)
    <3>1. /\ Pending(u)' = IF u = Buyer(h) THEN Pending(u) \cup {h} ELSE Pending(u)
          /\ Extending(u)' = Extending(u)
      BY <2>1 DEF Pending, Extending, Buyer, TypeInv, TypeOK
    <3>2. h \notin Pending(u)
      BY <2>1 DEF Pending
    <3>3. Cardinality(Pending(u) \cup {h}) = Cardinality(Pending(u)) + 1
      BY <3>2, PendingFinite, FS_AddElement
    <3>4. Margin(u)' = Margin(u)
      BY <3>1 DEF Margin
    <3>5. Cardinality(Pending(u)') = Cardinality(Pending(u)) + (IF u = Buyer(h) THEN 1 ELSE 0)
      BY <1>b, <3>1, <3>3
    <3>6. first[u] \in Nat
      BY <1>b, <2>2
    <3> QED
      BY <1>b, <2>1, <3>4, <3>5, <3>6 DEF Least
  <2>3. \A g \in Handler : /\ Buyer(g)' = Buyer(g)
                           /\ pc'[g] = "create" => pc[g] = "create"
                           /\ pc'[g] = "extend" => pc[g] = "extend"
    BY <2>1 DEF Buyer, TypeInv, TypeOK
  <2>4. \A u \in User : \A g \in Extending(u)' : g \in Extending(u) /\ read'[g] = read[g]
    BY <2>1, <2>3 DEF Extending, Pending
  <2> QED
    BY <1>1, <1>b, <2>1, <2>2, <2>3, <2>4
<1>7. ASSUME NEW h \in Handler, CreateFails(h) PROVE KeptInv'
  <2>1. /\ pc[h] = "create" /\ Return(h) /\ order' = order /\ first' = first
        /\ accepted' = accepted /\ excused' = excused /\ until' = until
    BY <1>7 DEF CreateFails, history
  <2>2. first[Buyer(h)] = None
    BY <2>1 DEF KeptInv
  <2>3. ASSUME NEW u \in User, first[u] # None PROVE Least(u)' = Least(u)
    <3>1. Pending(u)' = Pending(u) \ {h} /\ Extending(u)' = Extending(u) \ {h}
      BY <2>1, CallLeaves
    <3>2. h \notin Pending(u) /\ h \notin Extending(u)
      BY <2>2, <2>3 DEF Pending, Extending
    <3>3. Pending(u)' = Pending(u) /\ Extending(u)' = Extending(u)
      BY <3>1, <3>2
    <3> QED
      BY <2>1, <3>3, LeastSame
  <2>4. \A g \in Handler : /\ Buyer(g)' = Buyer(g)
                           /\ pc'[g] = "create" => pc[g] = "create"
                           /\ pc'[g] = "extend" => pc[g] = "extend" /\ read'[g] = read[g]
    BY <2>1 DEF Return, Goto, Buyer, TypeInv, TypeOK
  <2>5. \A u \in User : \A g \in Extending(u)' : g \in Extending(u) /\ read'[g] = read[g]
    BY <2>4 DEF Extending, Pending
  <2> QED
    BY <1>1, <1>b, <2>1, <2>3, <2>4, <2>5
<1>8. CASE Crash
  <2>1. /\ until' = until /\ accepted' = accepted /\ first' = first
        /\ \A h \in Handler : pc'[h] = "idle"
        /\ \A u \in User : excused'[u] = excused[u] + Cardinality(Pending(u))
    BY <1>8 DEF Crash
  <2>2. \A u \in User : Pending(u)' = {} /\ Extending(u)' = {}
    BY <2>1 DEF Pending, Extending
  <2>3. Cardinality({}) = 0
    BY FS_EmptySet
  <2>4. ASSUME NEW u \in User, first[u] # None PROVE Least(u)' \in Int /\ Least(u)' <= Least(u)
    <3>1. Margin(u)' = 0 /\ Cardinality(Pending(u)') = 0
      BY <2>2, <2>3 DEF Margin
    <3>2. first[u] \in Nat
      BY <1>b, <2>4
    <3> QED
      BY <1>b, <2>1, <3>1, <3>2 DEF Least
  <2> QED
    BY <1>1, <2>1, <2>2, <2>4
<1>9. ASSUME UNCHANGED <<until, history>>,
             \A g \in Handler : pc'[g] = "extend" => read'[g] = read[g],
             \A g \in Handler : pc'[g] = pc[g] \/ {pc[g], pc'[g]} \subseteq {"idle", "lookup"},
             \A g \in Handler : pc[g] # "idle" => order'[g] = order[g]
      PROVE  KeptInv'
  <2>1. \A g \in Handler : /\ pc'[g] \in {"read", "create", "extend"} => pc'[g] = pc[g]
                           /\ pc[g] \in {"read", "create", "extend"} =>
                                pc'[g] = pc[g] /\ Buyer(g)' = Buyer(g)
    BY <1>9 DEF Buyer
  <2>2. \A u \in User : Pending(u)' = Pending(u)
    BY <2>1 DEF Pending
  <2>3. \A u \in User : Extending(u)' = Extending(u)
    BY <2>1, <2>2 DEF Extending, Pending
  <2>4. \A u \in User : Least(u)' = Least(u)
    BY <1>9, <2>2, <2>3, LeastSame DEF history
  <2>5. \A u \in User : \A g \in Extending(u)' : g \in Extending(u) /\ read'[g] = read[g]
    BY <1>9, <2>1, <2>3 DEF Extending, Pending
  <2> QED
    BY <1>1, <1>9, <1>b, <2>1, <2>4, <2>5 DEF history
<1>10. ASSUME NEW h \in Handler, (\E o \in Order : Receive(h, o)) \/ LookupFails(h)
       PROVE  KeptInv'
  <2>1. UNCHANGED <<until, history>>
    BY <1>10 DEF Receive, LookupFails
  <2>2. /\ \A g \in Handler : pc'[g] = pc[g] \/ {pc[g], pc'[g]} \subseteq {"idle", "lookup"}
        /\ \A g \in Handler : pc[g] # "idle" => order'[g] = order[g]
        /\ \A g \in Handler : pc'[g] = "extend" => read'[g] = read[g]
    BY <1>10 DEF Receive, LookupFails, Return, Goto, TypeInv, TypeOK
  <2> QED
    BY <1>9, <2>1, <2>2
<1>11. CASE (\E o \in Order : CreateOrder(o)) \/ Month \/ UNCHANGED vars
  <2>1. UNCHANGED <<until, handlers, history>>
    BY <1>11 DEF CreateOrder, StoreOrder, OpenInvoice, Pay, ExpireOrder, Month, vars
  <2> QED
    BY <1>9, <2>1 DEF handlers
<1>12. ASSUME NEW h \in Handler, ReadFails(h) \/ (Extend(h) /\ Excuse(h) /\ UNCHANGED until)
       PROVE  KeptInv'
  <2>1. /\ pc[h] \in {"read", "extend"} /\ Return(h) /\ Excuse(h)
        /\ order' = order /\ first' = first /\ accepted' = accepted /\ until' = until
    BY <1>12 DEF ReadFails, Extend
  <2> QED
    BY <1>2, <2>1
<1>13. ASSUME NEW h \in Handler, Extend(h) PROVE KeptInv'
  BY <1>5, <1>12, <1>13 DEF Extend
<1> QED
  BY <1>3, <1>4, <1>6, <1>7, <1>8, <1>10, <1>11, <1>12, <1>13 DEF Next, ConfirmOrder

(* Every accepted call of the webhook is worth its month but for those     *)
(* that fail, find the subscription expired, or race with another one.     *)
THEOREM MonthsAreKept == Spec => []MonthsKept
<1>1. TypeInv /\ KeptInv => MonthsKept
  <2> SUFFICES ASSUME TypeInv, KeptInv, NEW u \in User, first[u] # None
               PROVE  first[u] + accepted[u]
                        <= until[u] + excused[u] + Cardinality(Pending(u))
    BY DEF MonthsKept
  <2>1. until[u] # None /\ Least(u) <= until[u]
    BY DEF KeptInv
  <2>2. /\ until[u] \in Nat /\ first[u] \in Nat /\ accepted[u] \in Nat /\ excused[u] \in Nat
        /\ Cardinality(Pending(u)) \in Nat /\ Margin(u) \in Nat
    BY <2>1, PendingFinite, ExtendingFinite DEF TypeInv, TypeOK
  <2> QED
    BY <2>1, <2>2 DEF Least
<1>2. TypeInv /\ KeptInv /\ [Next]_vars => (TypeInv /\ KeptInv)'
  BY TypeStep, KeptStep
<1> QED
  BY <1>1, <1>2, TypeInit, KeptInit, PTL DEF Spec
=============================================================================
