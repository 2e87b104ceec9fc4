---------------------------- MODULE QuotaProofs ----------------------------
(***************************************************************************)
(* Theorems about NotificationQuota, for any users and any finite number   *)
(* of workers.                                                             *)
(***************************************************************************)
EXTENDS NotificationQuota, TLAPS, FiniteSetTheorems

(* BlockedOnlyAfterLimit counts alerts while the key counts INCRs; what    *)
(* lies between the two are the alerts still to be counted.  The count is  *)
(* one ahead, for the 1 of the SET.                                        *)
CountInv ==
    \A u \in User :
        /\ Cardinality(Uncounted(u)) <= Charged(u)
        /\ key[u] + Cardinality(Uncounted(u)) <= Charged(u) + 1

QuotaInv == TypeOK /\ CountInv

LEMMA UncountedFinite ==
    ASSUME NEW u
    PROVE  IsFiniteSet(Uncounted(u)) /\ Cardinality(Uncounted(u)) \in Nat
BY WorkerAssumption, FS_Subset, FS_CardinalityType DEF Uncounted

(* An alert was published or lost.                                         *)
LEMMA ChargedType ==
    ASSUME TypeOK, NEW u \in User
    PROVE  Charged(u) \in Nat
BY DEF TypeOK, Charged

(* What Expire leaves charged: the alerts that are still to be counted.    *)
LEMMA UncountedParts ==
    ASSUME NEW u
    PROVE  /\ Cardinality(Uncounted(u) \ unsent) \in Nat
           /\ Cardinality(Uncounted(u) \cap unsent) \in Nat
           /\ Cardinality(Uncounted(u) \ unsent) + Cardinality(Uncounted(u) \cap unsent)
                = Cardinality(Uncounted(u))
<1> DEFINE A == Uncounted(u) \ unsent
           B == Uncounted(u) \cap unsent
<1>1. IsFiniteSet(A) /\ IsFiniteSet(B)
  BY UncountedFinite, FS_Subset
<1>2. Cardinality(A) \in Nat /\ Cardinality(B) \in Nat
  BY <1>1, FS_CardinalityType
<1>3. A \cap B = {} /\ A \cup B = Uncounted(u)
  OBVIOUS
<1>4. Cardinality(A \cup B) = Cardinality(A) + Cardinality(B) - Cardinality(A \cap B)
  <2> HIDE DEF A, B
  <2> QED
    BY <1>1, FS_Union
<1>5. Cardinality(A \cap B) = 0
  BY <1>3, FS_EmptySet
<1>6. Cardinality(Uncounted(u)) = Cardinality(A) + Cardinality(B)
  <2>1. Cardinality(A \cup B) = Cardinality(Uncounted(u))
    BY <1>3
  <2> HIDE DEF A, B
  <2> QED
    BY <1>2, <1>4, <1>5, <2>1
<1> HIDE DEF A, B
<1> QED
  BY <1>2, <1>6 DEF A, B

LEMMA QuotaInit == Init => QuotaInv
<1> SUFFICES ASSUME Init PROVE QuotaInv
  OBVIOUS
<1>1. \A u \in User : Uncounted(u) = {}
  BY DEF Init, Uncounted
<1> QED
  BY <1>1, FS_EmptySet DEF Init, QuotaInv, CountInv, TypeOK, Charged

LEMMA TypeStep == TypeOK /\ [Next]_vars => TypeOK'
<1> SUFFICES ASSUME TypeOK, [Next]_vars PROVE TypeOK'
  OBVIOUS
<1> USE DEF history, alerts
<1>1. ASSUME NEW w \in Worker, NEW u \in User, Call(w, u) PROVE TypeOK'
  BY <1>1 DEF Call, Goto, TypeOK
<1>2. ASSUME NEW w \in Worker, Get(w) \/ GetFails(w) PROVE TypeOK'
  BY <1>2 DEF Get, GetFails, Goto, TypeOK
<1>3. ASSUME NEW w \in Worker, Set(w) \/ SetFails(w) PROVE TypeOK'
  <2>1. CASE Set(w)
    BY <2>1 DEF Set, Goto, FirstCount, TypeOK
  <2>2. CASE SetFails(w)
    BY <2>2 DEF SetFails, Goto, TypeOK
  <2> QED
    BY <1>3, <2>1, <2>2
<1>4. ASSUME NEW w \in Worker, Publish(w) PROVE TypeOK'
  BY <1>4 DEF Publish, Goto, TypeOK
<1>5. ASSUME NEW w \in Worker, Incr(w) \/ IncrFails(w) PROVE TypeOK'
  <2>1. CASE Incr(w)
    BY <2>1 DEF Incr, Goto, TypeOK
  <2>2. CASE IncrFails(w)
    BY <2>2 DEF IncrFails, Goto, TypeOK
  <2> QED
    BY <1>5, <2>1, <2>2
<1>6. ASSUME NEW u \in User, Expire(u) PROVE TypeOK'
  BY <1>6, UncountedParts DEF Expire, TypeOK
<1>7. ASSUME NEW u \in User, ChangeSubscription(u) PROVE TypeOK'
  BY <1>7 DEF ChangeSubscription, TypeOK
<1>8. CASE Crash
  BY <1>8 DEF Crash, TypeOK
<1>9. CASE UNCHANGED vars
  BY <1>9 DEF vars, TypeOK
<1> QED
  BY <1>1, <1>2, <1>3, <1>4, <1>5, <1>6, <1>7, <1>8, <1>9 DEF Next, NotifyStep

LEMMA CountStep == QuotaInv /\ [Next]_vars => CountInv'
<1> SUFFICES ASSUME QuotaInv, [Next]_vars, NEW u \in User
             PROVE  /\ Cardinality(Uncounted(u)') <= Charged(u)'
                    /\ key'[u] + Cardinality(Uncounted(u)') <= Charged(u)' + 1
  BY DEF CountInv, Uncounted
<1> USE DEF history, alerts
<1> DEFINE n == Cardinality(Uncounted(u))
<1>a. /\ n <= Charged(u) /\ key[u] + n <= Charged(u) + 1
      /\ key[u] \in Nat /\ Charged(u) \in Nat /\ n \in Nat
      /\ TypeOK
  BY UncountedFinite, ChargedType DEF QuotaInv, CountInv, TypeOK
<1>b. ASSUME Uncounted(u)' = Uncounted(u), UNCHANGED <<key, published, lost>>
      PROVE  /\ Cardinality(Uncounted(u)') <= Charged(u)'
             /\ key'[u] + Cardinality(Uncounted(u)') <= Charged(u)' + 1
  BY <1>a, <1>b DEF Charged
<1>1. ASSUME NEW w \in Worker, NEW v \in User, Call(w, v) PROVE Uncounted(u)' = Uncounted(u)
  BY <1>1, <1>a DEF Call, Goto, Uncounted, TypeOK
<1>2. ASSUME NEW w \in Worker, Get(w) \/ GetFails(w) \/ SetFails(w)
      PROVE  Uncounted(u)' = Uncounted(u)
  BY <1>2, <1>a DEF Get, GetFails, SetFails, Goto, Uncounted, TypeOK
<1>3. ASSUME NEW w \in Worker, Set(w)
      PROVE  /\ Cardinality(Uncounted(u)') <= Charged(u)'
             /\ key'[u] + Cardinality(Uncounted(u)') <= Charged(u)' + 1
  <2>1. Uncounted(u)' = Uncounted(u)
    BY <1>3, <1>a DEF Set, Goto, Uncounted, TypeOK
  <2>2. Charged(u)' = Charged(u) /\ key'[u] \in {1, key[u]}
    BY <1>3, <1>a DEF Set, FirstCount, TypeOK, Charged
  <2> QED
    BY <2>1, <2>2, <1>a
<1>4. ASSUME NEW w \in Worker, Publish(w)
      PROVE  /\ Cardinality(Uncounted(u)') <= Charged(u)'
             /\ key'[u] + Cardinality(Uncounted(u)') <= Charged(u)' + 1
  <2>1. CASE user[w] = u
    <3>1. w \notin Uncounted(u) /\ Uncounted(u)' = Uncounted(u) \cup {w}
      BY <1>4, <2>1, <1>a DEF Publish, Goto, Uncounted, TypeOK
    <3>2. Cardinality(Uncounted(u)') = n + 1
      BY <3>1, UncountedFinite, FS_AddElement
    <3>3. key' = key /\ Charged(u)' = Charged(u) + 1
      BY <1>4, <2>1, <1>a DEF Publish, TypeOK, Charged
    <3> QED
      BY <3>2, <3>3, <1>a
  <2>2. CASE user[w] # u
    <3>1. Uncounted(u)' = Uncounted(u)
      BY <1>4, <2>2, <1>a DEF Publish, Goto, Uncounted, TypeOK
    <3>2. key' = key /\ Charged(u)' = Charged(u)
      BY <1>4, <2>2, <1>a DEF Publish, TypeOK, Charged
    <3> QED
      BY <3>1, <3>2, <1>a
  <2> QED
    BY <2>1, <2>2
<1>5. ASSUME NEW w \in Worker, Incr(w) \/ IncrFails(w)
      PROVE  /\ Cardinality(Uncounted(u)') <= Charged(u)'
             /\ key'[u] + Cardinality(Uncounted(u)') <= Charged(u)' + 1
  <2>1. CASE user[w] = u
    <3>1. w \in Uncounted(u) /\ Uncounted(u)' = Uncounted(u) \ {w}
      BY <1>5, <2>1, <1>a DEF Incr, IncrFails, Goto, Uncounted, TypeOK
    <3>2. Cardinality(Uncounted(u)') = n - 1
      BY <3>1, UncountedFinite, FS_RemoveElement
    <3>3. Charged(u)' = Charged(u) /\ key'[u] \in {key[u], key[u] + 1}
      BY <1>5, <2>1, <1>a DEF Incr, IncrFails, TypeOK, Charged
    <3> QED
      BY <3>2, <3>3, <1>a
  <2>2. CASE user[w] # u
    <3>1. Uncounted(u)' = Uncounted(u)
      BY <1>5, <2>2, <1>a DEF Incr, IncrFails, Goto, Uncounted, TypeOK
    <3>2. key'[u] = key[u] /\ Charged(u)' = Charged(u)
      BY <1>5, <2>2, <1>a DEF Incr, IncrFails, TypeOK, Charged
    <3> QED
      BY <3>1, <3>2, <1>a
  <2> QED
    BY <2>1, <2>2
<1>6. ASSUME NEW v \in User, Expire(v)
      PROVE  /\ Cardinality(Uncounted(u)') <= Charged(u)'
             /\ key'[u] + Cardinality(Uncounted(u)') <= Charged(u)' + 1
  <2>1. Uncounted(u)' = Uncounted(u)
    BY <1>6 DEF Expire, Uncounted
  <2>2. \/ v = u /\ key'[u] = 0 /\ Charged(u)' = n
        \/ key'[u] = key[u] /\ Charged(u)' = Charged(u)
    BY <1>6, <1>a, UncountedParts DEF Expire, TypeOK, Charged
  <2> QED
    BY <2>1, <2>2, <1>a
<1>7. ASSUME NEW v \in User, ChangeSubscription(v) PROVE Uncounted(u)' = Uncounted(u)
  BY <1>7 DEF ChangeSubscription, Uncounted
<1>8. ASSUME Crash
      PROVE  /\ Cardinality(Uncounted(u)') <= Charged(u)'
             /\ key'[u] + Cardinality(Uncounted(u)') <= Charged(u)' + 1
  <2>1. Uncounted(u)' = {} /\ key' = key /\ Charged(u)' = Charged(u)
    BY <1>8 DEF Crash, Uncounted, Charged
  <2> QED
    BY <2>1, <1>a, FS_EmptySet
<1>9. ASSUME UNCHANGED vars PROVE Uncounted(u)' = Uncounted(u)
  BY <1>9 DEF vars, Uncounted
<1> HIDE DEF n
<1> QED
  BY <1>b, <1>1, <1>2, <1>3, <1>4, <1>5, <1>6, <1>7, <1>8, <1>9
  DEF Next, NotifyStep, Call, Get, GetFails, SetFails, ChangeSubscription, vars

(* Every variable keeps its type.                                          *)
THEOREM TypeCorrect == Spec => []TypeOK
<1>1. Init => TypeOK
  BY QuotaInit DEF QuotaInv
<1> QED
  BY <1>1, TypeStep, PTL DEF Spec

(* However many workers race on the key, whatever command of theirs fails  *)
(* and whenever the key expires or the observer stops, a user is refused   *)
(* an alert only after three have been published or lost by Publish.       *)
THEOREM RefusedOnlyAfterLimit == Spec => []BlockedOnlyAfterLimit
<1>1. QuotaInv => BlockedOnlyAfterLimit
  <2> SUFFICES ASSUME QuotaInv, NEW u \in User, Blocked(u)
               PROVE  Charged(u) >= FreeAlerts
    BY DEF BlockedOnlyAfterLimit, Charged
  <2>1. Cardinality(Uncounted(u)) \in Nat /\ key[u] \in Nat /\ Charged(u) \in Nat
    BY UncountedFinite, ChargedType DEF QuotaInv, TypeOK
  <2> QED
    BY <2>1 DEF QuotaInv, CountInv, Blocked, FreeAlerts
<1>2. QuotaInv /\ [Next]_vars => QuotaInv'
  BY TypeStep, CountStep DEF QuotaInv
<1> QED
  BY <1>1, <1>2, QuotaInit, PTL DEF Spec

-----------------------------------------------------------------------------
(* How far the limit is overrun.  The commands of a week in which nothing  *)
(* fails fall into phases, which SETs divide.  Only workers that are not   *)
(* at their own SET count in a phase, m of them, and it has 3 + m - 1      *)
(* alerts at most: three until the key refuses, and one for each of the    *)
(* others that got past GET before.  Nobody decides to SET while there is  *)
(* a key, so m grows from phase to phase and the alerts add up to          *)
(* 3 + 4 + ... up to m, which is m (m + 5) / 2.                            *)
In(l, u) == {w \in Worker : pc[w] = l /\ user[w] = u}
Number(l, u) == Cardinality(In(l, u))
Free(u) == Cardinality(Worker) - Number("set", u)

OverrunOf(u) ==
    LET p == Number("publish", u)  i == Number("incr", u)  m == Free(u) IN
    /\ key[u] = 0 => Charged(u) = 0 /\ p = 0 /\ i = 0
    /\ key[u] # 0 => /\ key[u] + p + i <= FreeAlerts + m
                     /\ 2 * (Charged(u) + FreeAlerts + m - key[u] - i) <= m * m + 5 * m

OverrunInv == \A u \in User : ~disturbed[u] => OverrunOf(u)

LEMMA NumberType ==
    ASSUME NEW l, NEW u
    PROVE  IsFiniteSet(In(l, u)) /\ Number(l, u) \in Nat /\ Cardinality(Worker) \in Nat
BY WorkerAssumption, FS_Subset, FS_CardinalityType DEF In, Number

(* A worker w goes to label k.                                             *)
LEMMA NumberMoves ==
    ASSUME TypeOK, NEW w \in Worker, NEW k, Goto(w, k), user' = user, NEW l, NEW u
    PROVE  Number(l, u)' = Number(l, u) - (IF pc[w] = l /\ user[w] = u THEN 1 ELSE 0)
                                        + (IF k = l /\ user[w] = u THEN 1 ELSE 0)
<1> DEFINE Rest == In(l, u) \ {w}
<1>1. IsFiniteSet(Rest) /\ w \notin Rest
  BY NumberType, FS_RemoveElement
<1>2. Cardinality(Rest) = Number(l, u) - (IF pc[w] = l /\ user[w] = u THEN 1 ELSE 0)
  <2>1. w \in In(l, u) <=> pc[w] = l /\ user[w] = u
    BY DEF In
  <2>2. Cardinality(Rest) = IF w \in In(l, u) THEN Cardinality(In(l, u)) - 1
                                                ELSE Cardinality(In(l, u))
    BY NumberType, FS_RemoveElement
  <2>3. Number(l, u) \in Nat
    BY NumberType
  <2> QED
    BY <2>1, <2>2, <2>3 DEF Number
<1>3. Number(l, u) \in Nat
  BY NumberType
<1>4. CASE k = l /\ user[w] = u
  <2>1. In(l, u)' = Rest \cup {w}
    BY <1>4 DEF In, Goto, TypeOK
  <2>2. Number(l, u)' = Cardinality(Rest) + 1
    BY <1>1, <2>1, FS_AddElement DEF Number
  <2> QED
    BY <1>2, <1>3, <1>4, <2>2
<1>5. CASE ~(k = l /\ user[w] = u)
  <2>1. In(l, u)' = Rest
    BY <1>5 DEF In, Goto, TypeOK
  <2> QED
    BY <1>2, <1>3, <1>5, <2>1 DEF Number
<1> QED
  BY <1>4, <1>5

(* Workers at SET, before and after their publication are different ones,  *)
(* and a worker that is at none of these is one more.                      *)
LEMMA NumberSum ==
    ASSUME NEW u
    PROVE  /\ Number("set", u) + Number("publish", u) + Number("incr", u) <= Cardinality(Worker)
           /\ \A w \in Worker : pc[w] = "get" =>
                Number("set", u) + Number("publish", u) + Number("incr", u) + 1
                    <= Cardinality(Worker)
<1> DEFINE A == In("set", u) \cup In("publish", u)
           B == A \cup In("incr", u)
<1>1. IsFiniteSet(A) /\ Cardinality(A) = Number("set", u) + Number("publish", u)
  <2>1. In("set", u) \cap In("publish", u) = {}
    BY DEF In
  <2> QED
    BY <2>1, NumberType, FS_Union, FS_EmptySet DEF Number
<1>2. IsFiniteSet(B) /\ Cardinality(B) = Cardinality(A) + Number("incr", u)
  <2>1. A \cap In("incr", u) = {}
    BY DEF In
  <2> HIDE DEF A
  <2>2. Cardinality(A) \in Nat
    BY <1>1, FS_CardinalityType
  <2>3. Cardinality(B) = Cardinality(A) + Number("incr", u) - Cardinality({})
    BY <1>1, <2>1, NumberType, FS_Union DEF Number
  <2>4. IsFiniteSet(B)
    BY <1>1, NumberType, FS_Union
  <2>5. Number("incr", u) \in Nat
    BY NumberType
  <2> HIDE DEF B
  <2> QED
    BY <2>2, <2>3, <2>4, <2>5, FS_EmptySet
<1>3. B \in SUBSET Worker
  BY DEF In
<1>4. Cardinality(B) <= Cardinality(Worker)
  BY <1>3, WorkerAssumption, FS_Subset
<1>5. ASSUME NEW w \in Worker, pc[w] = "get"
      PROVE  Cardinality(B) + 1 <= Cardinality(Worker)
  <2>1. w \notin B
    BY <1>5 DEF In
  <2>2. B \cup {w} \in SUBSET Worker
    BY <1>3
  <2> HIDE DEF B
  <2>3. Cardinality(B \cup {w}) = Cardinality(B) + 1
    BY <1>2, <2>1, FS_AddElement
  <2>4. Cardinality(B \cup {w}) <= Cardinality(Worker)
    BY <2>2, WorkerAssumption, FS_Subset
  <2> QED
    BY <2>3, <2>4
<1> QED
  BY <1>1, <1>2, <1>4, <1>5

LEMMA OverrunInit == Init => OverrunInv
<1> SUFFICES ASSUME Init, NEW u \in User PROVE OverrunOf(u)
  BY DEF OverrunInv
<1>1. In("publish", u) = {} /\ In("incr", u) = {}
  BY DEF Init, In
<1> QED
  BY <1>1, FS_EmptySet DEF Init, OverrunOf, Number, Charged

(* Nothing of u changes.                                                   *)
LEMMA OverrunSame ==
    ASSUME NEW u \in User, OverrunOf(u),
           key'[u] = key[u], Charged(u)' = Charged(u),
           \A l \in {"set", "publish", "incr"} : Number(l, u)' = Number(l, u)
    PROVE  OverrunOf(u)'
BY DEF OverrunOf, Free

LEMMA OverrunStep == TypeOK /\ OverrunInv /\ [Next]_vars => OverrunInv'
<1> SUFFICES ASSUME TypeOK, OverrunInv, [Next]_vars, NEW u \in User, ~disturbed'[u]
             PROVE  OverrunOf(u)'
  BY DEF OverrunInv
<1> USE DEF history, alerts
<1> DEFINE s == Number("set", u)
           p == Number("publish", u)
           i == Number("incr", u)
           n == Cardinality(Worker)
           m == Free(u)
<1>n. /\ s \in Nat /\ p \in Nat /\ i \in Nat /\ n \in Nat
      /\ s + p + i <= n /\ m = n - s
      /\ key[u] \in Nat /\ Charged(u) \in Nat
  BY NumberType, NumberSum, ChargedType DEF TypeOK, Free
<1>c. ASSUME UNCHANGED <<published, lost>> PROVE Charged(u)' = Charged(u)
  BY <1>c DEF Charged
<1>m. Free(u)' = n - Number("set", u)'
  BY DEF Free
<1>o. ASSUME ~disturbed[u]
      PROVE  /\ key[u] = 0 => Charged(u) = 0 /\ p = 0 /\ i = 0
             /\ key[u] # 0 => /\ key[u] + p + i <= 3 + m
                              /\ 2 * (Charged(u) + 3 + m - key[u] - i) <= m * m + 5 * m
  BY <1>o DEF OverrunInv, OverrunOf, FreeAlerts
<1>q. ASSUME key'[u] = 0 => Charged(u)' = 0 /\ Number("publish", u)' = 0 /\ Number("incr", u)' = 0,
             key'[u] # 0 =>
               /\ key'[u] + Number("publish", u)' + Number("incr", u)' <= 3 + Free(u)'
               /\ 2 * (Charged(u)' + 3 + Free(u)' - key'[u] - Number("incr", u)')
                    <= Free(u)' * Free(u)' + 5 * Free(u)'
      PROVE  OverrunOf(u)'
  BY <1>q DEF OverrunOf, FreeAlerts
<1>1. ASSUME NEW w \in Worker, NEW v \in User, Call(w, v) PROVE OverrunOf(u)'
  <2>1. \A l \in {"set", "publish", "incr"} : In(l, u)' = In(l, u)
    BY <1>1 DEF Call, Goto, In, TypeOK
  <2>2. UNCHANGED <<key, disturbed>> /\ Charged(u)' = Charged(u)
    BY <1>1, <1>c DEF Call
  <2> QED
    BY <2>1, <2>2, OverrunSame DEF OverrunInv, Number
<1>2. ASSUME NEW w \in Worker, Get(w) PROVE OverrunOf(u)'
  <2>1. /\ UNCHANGED <<key, disturbed, user>> /\ Charged(u)' = Charged(u)
        /\ pc[w] = "get"
    BY <1>2, <1>c DEF Get
  <2>2. s + p + i + 1 <= n
    BY <2>1, NumberSum
  <2>3. CASE user[w] = u /\ key[u] = 0
    <3>1. Goto(w, "set")
      BY <1>2, <2>3 DEF Get
    <3>2. Number("set", u)' = s + 1 /\ Number("publish", u)' = p /\ Number("incr", u)' = i
      BY <2>1, <2>3, <3>1, <1>n, NumberMoves
    <3> QED
      BY <1>o, <1>q, <2>1, <2>3, <3>2
  <2>4. CASE user[w] = u /\ key[u] # 0 /\ ~Blocked(u)
    <3>1. Goto(w, "publish")
      BY <1>2, <2>4 DEF Get
    <3>2. Number("set", u)' = s /\ Number("publish", u)' = p + 1 /\ Number("incr", u)' = i
      BY <2>1, <2>4, <3>1, <1>n, NumberMoves
    <3>3. key[u] <= 3
      BY <2>4, <1>n DEF Blocked, FreeAlerts
    <3>4. Free(u)' = m
      BY <1>m, <1>n, <3>2
    <3>5. key[u] + (p + 1) + i <= 3 + m
      BY <1>n, <2>2, <3>3
    <3> QED
      BY <1>o, <1>q, <2>1, <2>4, <3>2, <3>4, <3>5
  <2>5. CASE user[w] # u \/ (key[u] # 0 /\ Blocked(u))
    <3>1. \E k \in {"idle", "set", "publish"} : Goto(w, k) /\ (user[w] = u => k = "idle")
      BY <1>2, <2>5 DEF Get
    <3>2. \A l \in {"set", "publish", "incr"} : Number(l, u)' = Number(l, u)
      BY <2>1, <3>1, <1>n, NumberMoves
    <3> QED
      BY <2>1, <3>2, OverrunSame DEF OverrunInv
  <2> QED
    BY <2>3, <2>4, <2>5
<1>3. ASSUME NEW w \in Worker, GetFails(w) PROVE OverrunOf(u)'
  <2>1. UNCHANGED <<key, disturbed, user>> /\ Charged(u)' = Charged(u) /\ pc[w] = "get" /\ Goto(w, "idle")
    BY <1>3, <1>c DEF GetFails
  <2>2. \A l \in {"set", "publish", "incr"} : Number(l, u)' = Number(l, u)
    BY <2>1, <1>n, NumberMoves
  <2> QED
    BY <2>1, <2>2, OverrunSame DEF OverrunInv
<1>4. ASSUME NEW w \in Worker, Set(w) PROVE OverrunOf(u)'
  <2>1. /\ UNCHANGED <<disturbed, user>> /\ Charged(u)' = Charged(u) /\ pc[w] = "set" /\ Goto(w, "publish")
        /\ key' = [key EXCEPT ![user[w]] = 1]
    BY <1>4, <1>c DEF Set, FirstCount
  <2>2. CASE user[w] = u
    <3>1. Number("set", u)' = s - 1 /\ Number("publish", u)' = p + 1 /\ Number("incr", u)' = i
      BY <2>1, <2>2, <1>n, NumberMoves
    <3>2. key'[u] = 1 /\ Free(u)' = m + 1
      BY <1>m, <1>n, <2>1, <2>2, <3>1 DEF TypeOK
    <3>3. 2 * (Charged(u) + 3 + (m + 1) - 1 - i) <= (m + 1) * (m + 1) + 5 * (m + 1)
      <4>1. m \in Nat /\ (m + 1) * (m + 1) + 5 * (m + 1) = m * m + 5 * m + 2 * m + 6
        BY <1>n
      <4>2. key[u] = 0 => Charged(u) = 0 /\ i = 0
        BY <1>o, <2>1
      <4>3. key[u] # 0 => /\ key[u] <= 3 + m
                          /\ 2 * (Charged(u) + 3 + m - key[u] - i) <= m * m + 5 * m
        BY <1>n, <1>o, <2>1
      <4>4. m * m \in Nat
        BY <4>1
      <4> HIDE DEF m, i, p, s
      <4> QED
        BY <1>n, <4>1, <4>2, <4>3, <4>4
    <3>4. 1 + (p + 1) + i <= 3 + (m + 1)
      BY <1>n
    <3> QED
      BY <1>q, <2>1, <3>1, <3>2, <3>3, <3>4
  <2>3. CASE user[w] # u
    <3>1. \A l \in {"set", "publish", "incr"} : Number(l, u)' = Number(l, u)
      BY <2>1, <2>3, <1>n, NumberMoves
    <3>2. key'[u] = key[u]
      BY <2>1, <2>3 DEF TypeOK
    <3> QED
      BY <2>1, <3>1, <3>2, OverrunSame DEF OverrunInv
  <2> QED
    BY <2>2, <2>3
<1>5. ASSUME NEW w \in Worker, SetFails(w) \/ IncrFails(w) PROVE OverrunOf(u)'
  <2>1. /\ UNCHANGED <<key, user>> /\ Charged(u)' = Charged(u) /\ pc[w] \in {"set", "incr"}
        /\ \E k \in {"publish", "idle"} : Goto(w, k)
        /\ disturbed' = [disturbed EXCEPT ![user[w]] = TRUE]
    BY <1>5, <1>c DEF SetFails, IncrFails
  <2>2. user[w] # u /\ ~disturbed[u]
    BY <2>1 DEF TypeOK
  <2>3. \A l \in {"set", "publish", "incr"} : Number(l, u)' = Number(l, u)
    BY <2>1, <2>2, <1>n, NumberMoves
  <2> QED
    BY <2>1, <2>2, <2>3, OverrunSame DEF OverrunInv
<1>6. ASSUME NEW w \in Worker, Publish(w) PROVE OverrunOf(u)'
  <2>1. /\ UNCHANGED <<key, disturbed, user>> /\ pc[w] = "publish" /\ Goto(w, "incr")
        /\ Charged(u)' = Charged(u) + (IF user[w] = u THEN 1 ELSE 0)
    BY <1>6 DEF Publish, Charged, TypeOK
  <2>2. CASE user[w] = u
    <3>1. Number("set", u)' = s /\ Number("publish", u)' = p - 1 /\ Number("incr", u)' = i + 1
      BY <2>1, <2>2, <1>n, NumberMoves
    <3>2. Charged(u)' = Charged(u) + 1 /\ Free(u)' = m
      BY <1>m, <1>n, <2>1, <2>2, <3>1 DEF TypeOK
    <3>3. p # 0
      <4>1. w \in In("publish", u)
        BY <2>1, <2>2 DEF In
      <4> QED
        BY <4>1, NumberType, FS_EmptySet DEF Number
    <3>4. key[u] # 0 /\ key[u] + p + i <= 3 + m
          /\ 2 * (Charged(u) + 3 + m - key[u] - i) <= m * m + 5 * m
      BY <1>o, <2>1, <3>3
    <3>5. key[u] + (p - 1) + (i + 1) = key[u] + p + i
      BY <1>n
    <3> HIDE DEF m, p, i, s, n
    <3>6. (Charged(u) + 1) + 3 + m - key[u] - (i + 1) = Charged(u) + 3 + m - key[u] - i
      BY <1>n
    <3> QED
      BY <1>q, <2>1, <3>1, <3>2, <3>4, <3>5, <3>6
  <2>3. CASE user[w] # u
    <3>1. \A l \in {"set", "publish", "incr"} : Number(l, u)' = Number(l, u)
      BY <2>1, <2>3, <1>n, NumberMoves
    <3>2. Charged(u)' = Charged(u)
      BY <1>n, <2>1, <2>3
    <3> QED
      BY <2>1, <3>1, <3>2, OverrunSame DEF OverrunInv
  <2> QED
    BY <2>2, <2>3
<1>7. ASSUME NEW w \in Worker, Incr(w) PROVE OverrunOf(u)'
  <2>1. /\ UNCHANGED <<disturbed, user>> /\ Charged(u)' = Charged(u) /\ pc[w] = "incr" /\ Goto(w, "idle")
        /\ key' = [key EXCEPT ![user[w]] = @ + 1]
    BY <1>7, <1>c DEF Incr
  <2>2. CASE user[w] = u
    <3>1. Number("set", u)' = s /\ Number("publish", u)' = p /\ Number("incr", u)' = i - 1
      BY <2>1, <2>2, <1>n, NumberMoves
    <3>2. key'[u] = key[u] + 1 /\ Free(u)' = m
      BY <1>m, <1>n, <2>1, <2>2, <3>1 DEF TypeOK
    <3>3. i # 0
      <4>1. w \in In("incr", u)
        BY <2>1, <2>2 DEF In
      <4> QED
        BY <4>1, NumberType, FS_EmptySet DEF Number
    <3>4. key[u] # 0 /\ key[u] + p + i <= 3 + m
          /\ 2 * (Charged(u) + 3 + m - key[u] - i) <= m * m + 5 * m
      BY <1>o, <2>1, <3>3
    <3>5. (key[u] + 1) + p + (i - 1) = key[u] + p + i /\ key[u] + 1 # 0
      BY <1>n
    <3>6. Charged(u) + 3 + m - (key[u] + 1) - (i - 1) = Charged(u) + 3 + m - key[u] - i
      BY <1>n
    <3> HIDE DEF m, p, i
    <3> QED
      BY <1>q, <2>1, <3>1, <3>2, <3>4, <3>5, <3>6
  <2>3. CASE user[w] # u
    <3>1. \A l \in {"set", "publish", "incr"} : Number(l, u)' = Number(l, u)
      BY <2>1, <2>3, <1>n, NumberMoves
    <3>2. key'[u] = key[u]
      BY <2>1, <2>3 DEF TypeOK
    <3> QED
      BY <2>1, <3>1, <3>2, OverrunSame DEF OverrunInv
  <2> QED
    BY <2>2, <2>3
<1>8. ASSUME NEW v \in User, Expire(v) PROVE OverrunOf(u)'
  <2>1. \A l \in {"set", "publish", "incr"} : Number(l, u)' = Number(l, u)
    BY <1>8 DEF Expire, Number, In
  <2>2. CASE v = u
    <3>1. ~\E w \in Worker : pc[w] # "idle" /\ user[w] = u
      BY <1>8, <2>2 DEF Expire, TypeOK
    <3>2. In("publish", u) = {} /\ In("incr", u) = {} /\ Uncounted(u) = {}
      BY <3>1 DEF In, Uncounted
    <3>3. Charged(u)' = 0
      <4>1. Uncounted(u) \ unsent = {} /\ Uncounted(u) \cap unsent = {}
        BY <3>2
      <4>2. published'[u] = Cardinality({}) /\ lost'[u] = Cardinality({})
        BY <1>8, <2>2, <4>1 DEF Expire, TypeOK
      <4> QED
        BY <4>2, FS_EmptySet DEF Charged
    <3>4. key'[u] = 0 /\ p = 0 /\ i = 0
      BY <1>8, <2>2, <3>2, FS_EmptySet DEF Expire, TypeOK, Number
    <3> QED
      BY <1>q, <2>1, <3>3, <3>4
  <2>3. CASE v # u
    <3>1. key'[u] = key[u] /\ Charged(u)' = Charged(u) /\ ~disturbed[u]
      BY <1>8, <2>3 DEF Expire, TypeOK, Charged
    <3> QED
      BY <2>1, <3>1, OverrunSame DEF OverrunInv
  <2> QED
    BY <2>2, <2>3
<1>9. ASSUME NEW v \in User, ChangeSubscription(v) PROVE OverrunOf(u)'
  <2>1. UNCHANGED <<key, disturbed, pc, user>> /\ Charged(u)' = Charged(u)
    BY <1>9, <1>c DEF ChangeSubscription
  <2> QED
    BY <2>1, OverrunSame DEF OverrunInv, Number, In
<1>10. CASE Crash
  BY <1>10 DEF Crash
<1>11. CASE UNCHANGED vars
  BY <1>11, <1>c, OverrunSame DEF vars, OverrunInv, Number, In
<1> QED
  BY <1>1, <1>2, <1>3, <1>4, <1>5, <1>6, <1>7, <1>8, <1>9, <1>10, <1>11 DEF Next, NotifyStep

(* The sum of all phases, m at most the number of workers.                 *)
LEMMA OverrunSum ==
    ASSUME NEW n \in Nat, NEW m \in 0..n, NEW c \in Nat,
           2 * c <= m * m + 5 * m
    PROVE  c <= FreeAlerts * n + (n * (n - 1)) \div 2
<1>1. m * m <= n * n
  <2>1. m * m <= m * n /\ m * n <= n * n
    OBVIOUS
  <2>2. m * m \in Nat /\ m * n \in Nat /\ n * n \in Nat
    OBVIOUS
  <2> QED
    BY <2>1, <2>2
<1>2. n * (n - 1) = n * n - n /\ n * n \in Nat /\ m * m \in Nat
  OBVIOUS
<1>3. 2 * (c - 3 * n) <= n * (n - 1)
  BY <1>1, <1>2
<1>4. ASSUME NEW x \in Int, NEW y \in Int, 2 * x <= y PROVE x <= y \div 2
  BY <1>4
<1>5. c - 3 * n \in Int /\ n * (n - 1) \in Int /\ (n * (n - 1)) \div 2 \in Int
  BY <1>2
<1>6. c - 3 * n <= (n * (n - 1)) \div 2
  BY <1>3, <1>4, <1>5
<1> QED
  BY <1>5, <1>6 DEF FreeAlerts

(* In a week in which no command fails, n workers call Publish at most     *)
(* 3 n + n (n - 1) / 2 times for a user without a subscription, in         *)
(* whatever order GET, SET and INCR fall.                                  *)
THEOREM OverrunIsBounded == Spec => []OverrunBounded
<1>1. TypeOK /\ OverrunInv => OverrunBounded
  <2> SUFFICES ASSUME TypeOK, OverrunInv, NEW u \in User, ~disturbed[u]
               PROVE  LET n == Cardinality(Worker)
                      IN  Charged(u) <= FreeAlerts * n + (n * (n - 1)) \div 2
    BY DEF OverrunBounded
  <2> DEFINE n == Cardinality(Worker)
             m == Free(u)
             i == Number("incr", u)
  <2>1. /\ n \in Nat /\ m \in 0..n /\ Charged(u) \in Nat /\ i \in Nat /\ key[u] \in Nat
    BY NumberType, NumberSum, ChargedType DEF Free, TypeOK
  <2>2. 2 * Charged(u) <= m * m + 5 * m
    <3>1. m * m + 5 * m \in Nat
      BY <2>1
    <3>2. CASE key[u] = 0
      BY <3>1, <3>2 DEF OverrunInv, OverrunOf
    <3>3. CASE key[u] # 0
      <4>1. /\ key[u] + Number("publish", u) + i <= 3 + m
            /\ 2 * (Charged(u) + 3 + m - key[u] - i) <= m * m + 5 * m
        BY <3>3 DEF OverrunInv, OverrunOf, FreeAlerts
      <4>2. Number("publish", u) \in Nat
        BY NumberType
      <4> HIDE DEF m, i
      <4>3. Charged(u) <= Charged(u) + 3 + m - key[u] - i
        BY <2>1, <4>1, <4>2
      <4> QED
        BY <2>1, <3>1, <4>1, <4>3
    <3> QED
      BY <3>2, <3>3
  <2> HIDE DEF n, m
  <2>3. Charged(u) <= FreeAlerts * n + (n * (n - 1)) \div 2
    BY <2>1, <2>2, OverrunSum
  <2> QED
    BY <2>3 DEF n
<1>2. Init => TypeOK /\ OverrunInv
  BY QuotaInit, OverrunInit DEF QuotaInv
<1>3. TypeOK /\ OverrunInv /\ [Next]_vars => (TypeOK /\ OverrunInv)'
  BY TypeStep, OverrunStep
<1> QED
  BY <1>1, <1>2, <1>3, PTL DEF Spec
=============================================================================
