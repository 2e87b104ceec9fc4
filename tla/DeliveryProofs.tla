--------------------------- MODULE DeliveryProofs ---------------------------
(***************************************************************************)
(* Theorems about Delivery, for any number of starts of the bot and of     *)
(* publications: types, that it implements AlertChannel, and that no message *)
(* is overlooked.                                                          *)
(***************************************************************************)
EXTENDS Delivery, TLAPS

(* A bot that runs has a queue.                                            *)
TypeInv == TypeOK /\ (bot # "down" => bound # 0)

LEMMA HeadTail ==
    ASSUME NEW s \in Seq(Message), s # <<>>
    PROVE  /\ Head(s) \in Message
           /\ Head(s) = s[1]
           /\ 1 \in DOMAIN s
           /\ Tail(s) \in Seq(Message)
           /\ \A i \in DOMAIN Tail(s) : i + 1 \in DOMAIN s /\ Tail(s)[i] = s[i + 1]
           /\ DOMAIN Tail(s) \subseteq Nat \ {0}
OBVIOUS

LEMMA Appended ==
    ASSUME NEW s \in Seq(Message), NEW m \in Message
    PROVE  /\ Append(s, m) \in Seq(Message)
           /\ \A i \in DOMAIN Append(s, m) :
                 \/ i \in DOMAIN s /\ Append(s, m)[i] = s[i]
                 \/ i = Len(s) + 1 /\ Append(s, m)[i] = m
           /\ \A i \in DOMAIN s : i <= Len(s)
OBVIOUS

LEMMA Numbered ==
    ASSUME NEW s \in Seq(Message), NEW i \in DOMAIN s
    PROVE  s[i].n \in Nat \ {0} /\ i \in Nat /\ i <= Len(s)
<1>1. s[i] \in Message
  OBVIOUS
<1> QED
  BY <1>1 DEF Message

LEMMA TypeInit == Init => TypeInv
BY BoundAssumption DEF Init, TypeInv, TypeOK

(* A message gets to every queue that is bound.                            *)
LEMMA RouteType ==
    ASSUME TypeOK, NEW msg \in Message, Route(msg)
    PROVE  queue' \in [1..MaxQueues -> Seq(Message)] /\ since' \in SUBSET Nat
<1>1. \A q \in 1..MaxQueues : Append(queue[q], msg) \in Seq(Message)
  BY Appended DEF TypeOK
<1>2. msg.n \in Nat
  BY DEF Message
<1> QED
  BY <1>1, <1>2 DEF TypeOK, Route

LEMMA TypeStep == TypeInv /\ [Next]_vars => TypeInv'
<1> SUFFICES ASSUME TypeInv, [Next]_vars PROVE TypeInv'
  OBVIOUS
<1> USE DEF TypeInv
<1>1. CASE StartObserver
  <2>1. tried' \in Nat \ {0} /\ [n |-> tried', alert |-> FALSE] \in Message
    BY <1>1 DEF StartObserver, Try, TypeOK, Message
  <2>2. queue' \in [1..MaxQueues -> Seq(Message)] /\ since' \in SUBSET Nat
    BY <1>1, <2>1, RouteType DEF StartObserver, TypeOK
  <2> QED
    BY <1>1, <2>1, <2>2 DEF StartObserver, TypeOK
<1>2. CASE Publish
  <2>1. tried' \in Nat \ {0} /\ [n |-> tried', alert |-> TRUE] \in Message
    BY <1>2 DEF Publish, Try, TypeOK, Message
  <2>2. queue' \in [1..MaxQueues -> Seq(Message)] /\ since' \in SUBSET Nat
    BY <1>2, <2>1, RouteType DEF Publish, TypeOK
  <2> QED
    BY <1>2, <2>1, <2>2 DEF Publish, TypeOK
<1>3. CASE PublishFails
  BY <1>3 DEF PublishFails, Try, TypeOK, history
<1>10. CASE StopObserver
  BY <1>10 DEF StopObserver, TypeOK, history
<1>4. CASE StartBot
  BY <1>4, BoundAssumption DEF StartBot, TypeOK
<1>5. CASE Consume
  BY <1>5 DEF Consume, TypeOK, history
<1>11. CASE CutBot
  BY <1>11 DEF CutBot, TypeOK, history
<1>12. CASE StopBot
  BY <1>12 DEF StopBot, TypeOK, history
<1>6. CASE Push
  <2>1. bound \in 1..MaxQueues
    BY <1>6, BoundAssumption DEF Push, TypeOK
  <2>2. queue[bound] \in Seq(Message)
    BY <2>1 DEF TypeOK
  <2>3. Head(queue[bound]) \in Message /\ Tail(queue[bound]) \in Seq(Message)
    BY <1>6, <2>2, HeadTail DEF Push
  <2>4. buffer' \in Seq(Message)
    BY <1>6, <2>3, Appended DEF Push, TypeOK
  <2> QED
    BY <1>6, <2>3, <2>4 DEF Push, TypeOK, history
<1>7. CASE Handle
  <2>1. Head(buffer) \in Message /\ Tail(buffer) \in Seq(Message)
    BY <1>7, HeadTail DEF Handle, TypeOK
  <2>2. Head(buffer).n \in Nat
    BY <2>1 DEF Message
  <2>3. Append(sent, Head(buffer).n) \in Seq(Nat)
    BY <2>2 DEF TypeOK
  <2> QED
    BY <1>7, <2>1, <2>2, <2>3 DEF Handle, TypeOK
<1>8. CASE RestartBroker
  BY <1>8 DEF RestartBroker, TypeOK, history
<1>9. CASE UNCHANGED vars
  BY <1>9 DEF vars, history, TypeOK
<1> QED
  BY <1>1, <1>2, <1>3, <1>4, <1>5, <1>6, <1>7, <1>8, <1>9, <1>10, <1>11, <1>12 DEF Next

(* Every variable keeps its type.                                          *)
THEOREM TypeCorrect == Spec => []TypeOK
<1>1. TypeInv => TypeOK
  BY DEF TypeInv
<1> QED
  BY <1>1, TypeInit, TypeStep, PTL DEF Spec

-----------------------------------------------------------------------------
(* Order.  What the bot has yet to handle, first its buffer and then its   *)
(* queue, is in order of publication and was published after every alert   *)
(* sent so far; queues that are not bound yet are empty.                   *)
Rising(s) == \A i, j \in DOMAIN s : i < j => s[i].n < s[j].n

Fresh(s) == \A i \in DOMAIN s : s[i].n <= tried /\ \A k \in DOMAIN sent : sent[k] < s[i].n

Before(s, t) == \A i \in DOMAIN s : \A j \in DOMAIN t : s[i].n < t[j].n

OrderInv ==
    /\ Rising(buffer) /\ Fresh(buffer)
    /\ \A q \in 1..MaxQueues :
         /\ q = bound => /\ Rising(queue[q]) /\ Fresh(queue[q])
                         /\ Before(buffer, queue[q])
         /\ q > bound => queue[q] = <<>>
    /\ \A k \in DOMAIN sent : sent[k] <= tried

LEMMA OrderInit == Init => OrderInv
BY DEF Init, OrderInv, Rising, Fresh, Before

LEMMA RouteOrder ==
    ASSUME TypeInv, OrderInv, NEW a \in BOOLEAN, Try,
           Route([n |-> tried', alert |-> a]), UNCHANGED <<bound, buffer, sent>>
    PROVE  OrderInv'
<1> DEFINE msg == [n |-> tried', alert |-> a]
<1>1. tried' = tried + 1 /\ tried \in Nat /\ msg \in Message /\ msg.n = tried + 1
  BY DEF Try, TypeInv, TypeOK, Message
<1> HIDE DEF msg
<1>2. ASSUME NEW q \in 1..MaxQueues, q = bound
      PROVE  Rising(queue'[q]) /\ Fresh(queue[q])' /\ Before(buffer, queue'[q])
  <2>1. queue[q] \in Seq(Message) /\ buffer \in Seq(Message) /\ queue'[q] = Append(queue[q], msg)
    BY <1>2 DEF Route, TypeInv, TypeOK, msg
  <2>2. \A i \in DOMAIN queue'[q] : \/ i \in DOMAIN queue[q] /\ queue'[q][i] = queue[q][i]
                                    \/ i = Len(queue[q]) + 1 /\ queue'[q][i] = msg
    BY <1>1, <2>1, Appended
  <2>3. \A i \in DOMAIN queue[q] : i <= Len(queue[q]) /\ queue[q][i].n \in Nat
    BY <2>1, Numbered
  <2>4. \A i \in DOMAIN buffer : buffer[i].n \in Nat
    BY <2>1, Numbered
  <2>5. \A k \in DOMAIN sent : sent[k] \in Nat
    BY DEF TypeInv, TypeOK
  <2>6. Len(queue[q]) \in Nat /\ DOMAIN queue[q] \subseteq Nat
    BY <2>1
  <2>7. Rising(queue'[q])
    BY <1>1, <1>2, <2>2, <2>3, <2>6 DEF OrderInv, Rising, Fresh
  <2>8. Fresh(queue[q])'
    BY <1>1, <1>2, <2>2, <2>3, <2>5 DEF OrderInv, Fresh
  <2>9. Before(buffer, queue'[q])
    BY <1>1, <1>2, <2>2, <2>3, <2>4 DEF OrderInv, Before, Fresh
  <2> QED
    BY <2>7, <2>8, <2>9
<1>3. \A q \in 1..MaxQueues : q > bound => queue'[q] = <<>>
  BY DEF Route, OrderInv, TypeInv, TypeOK
<1>4. Fresh(buffer)' /\ Rising(buffer)'
  <2>1. \A i \in DOMAIN buffer : buffer[i].n \in Nat
    BY Numbered DEF TypeInv, TypeOK
  <2> QED
    BY <1>1, <2>1 DEF OrderInv, Fresh, Rising
<1>5. \A k \in DOMAIN sent : sent[k] <= tried'
  BY <1>1 DEF OrderInv, TypeInv, TypeOK
<1> QED
  BY <1>2, <1>3, <1>4, <1>5 DEF OrderInv

LEMMA PushOrder == TypeInv /\ OrderInv /\ Push => OrderInv'
<1> SUFFICES ASSUME TypeInv, OrderInv, Push PROVE OrderInv'
  OBVIOUS
<1> DEFINE mine == queue[bound]
<1>1. bound \in 1..MaxQueues /\ mine \in Seq(Message) /\ buffer \in Seq(Message) /\ mine # <<>>
  BY BoundAssumption DEF Push, TypeInv, TypeOK
<1>2. /\ Head(mine) \in Message /\ Head(mine) = mine[1] /\ 1 \in DOMAIN mine
      /\ \A i \in DOMAIN Tail(mine) : /\ i + 1 \in DOMAIN mine
                                      /\ Tail(mine)[i] = mine[i + 1]
                                      /\ i \in Nat \ {0}
  BY <1>1, HeadTail
<1>3. \A i \in DOMAIN buffer' : \/ i \in DOMAIN buffer /\ buffer'[i] = buffer[i]
                                \/ i = Len(buffer) + 1 /\ buffer'[i] = mine[1]
  BY <1>1, <1>2, Appended DEF Push
<1>4. \A i \in DOMAIN buffer : i \in Nat /\ i <= Len(buffer)
  BY <1>1, Numbered
<1>5. Rising(mine) /\ Fresh(mine) /\ Before(buffer, mine)
  BY <1>1 DEF OrderInv
<1>6. queue'[bound] = Tail(mine) /\ \A q \in 1..MaxQueues : q # bound => queue'[q] = queue[q]
  BY <1>1 DEF Push, TypeInv, TypeOK
<1>7. UNCHANGED <<bound, sent, tried>>
  BY DEF Push, history
<1> HIDE DEF mine
<1>8. Rising(buffer')
  <2>1. Len(buffer) \in Nat
    BY <1>1
  <2> QED
    BY <1>2, <1>3, <1>4, <1>5, <2>1 DEF OrderInv, Rising, Before
<1>9. Fresh(buffer)'
  BY <1>2, <1>3, <1>5, <1>7 DEF OrderInv, Fresh
<1>10. Rising(Tail(mine)) /\ Before(buffer', Tail(mine))
  <2>1. Rising(Tail(mine))
    BY <1>2, <1>5 DEF Rising
  <2>2. \A j \in DOMAIN Tail(mine) : mine[1].n < Tail(mine)[j].n
    BY <1>2, <1>5 DEF Rising
  <2>3. \A i \in DOMAIN buffer : \A j \in DOMAIN Tail(mine) : buffer[i].n < Tail(mine)[j].n
    BY <1>2, <1>5 DEF Before
  <2> QED
    BY <1>3, <2>1, <2>2, <2>3 DEF Before
<1>11. \A i \in DOMAIN Tail(mine) : Tail(mine)[i].n <= tried /\ \A k \in DOMAIN sent : sent[k] < Tail(mine)[i].n
  BY <1>2, <1>5 DEF Fresh
<1>12. ASSUME NEW q \in 1..MaxQueues, q = bound
       PROVE  Rising(queue'[q]) /\ Fresh(queue[q])' /\ Before(buffer', queue'[q])
  BY <1>6, <1>7, <1>10, <1>11, <1>12 DEF Fresh
<1>13. \A q \in 1..MaxQueues : q > bound => queue'[q] = <<>>
  BY <1>1, <1>6 DEF OrderInv
<1> QED
  BY <1>7, <1>8, <1>9, <1>12, <1>13 DEF OrderInv

LEMMA HandleOrder == TypeInv /\ OrderInv /\ Handle => OrderInv'
<1> SUFFICES ASSUME TypeInv, OrderInv, Handle PROVE OrderInv'
  OBVIOUS
<1> DEFINE n == Head(buffer).n
<1>1. /\ Head(buffer) = buffer[1] /\ 1 \in DOMAIN buffer
      /\ \A i \in DOMAIN Tail(buffer) : /\ i + 1 \in DOMAIN buffer
                                        /\ Tail(buffer)[i] = buffer[i + 1]
                                        /\ i \in Nat \ {0}
  BY HeadTail DEF Handle, TypeInv, TypeOK
<1>2. buffer' = Tail(buffer) /\ UNCHANGED <<bound, queue, tried>>
  BY DEF Handle
<1>3. n \in Nat /\ n <= tried
  BY <1>1, Numbered DEF TypeInv, TypeOK, OrderInv, Fresh
<1>4. \A k \in DOMAIN sent' : (k \in DOMAIN sent /\ sent'[k] = sent[k]) \/ sent'[k] = n
  <2>1. sent \in Seq(Nat) /\ sent' \in {sent, Append(sent, n)}
    BY DEF Handle, TypeInv, TypeOK
  <2> HIDE DEF n
  <2>2. ASSUME NEW k \in DOMAIN Append(sent, n)
        PROVE  (k \in DOMAIN sent /\ Append(sent, n)[k] = sent[k]) \/ Append(sent, n)[k] = n
    BY <1>3, <2>1
  <2> QED
    BY <2>1, <2>2
<1>5. \A i \in DOMAIN Tail(buffer) : n < Tail(buffer)[i].n
  BY <1>1 DEF OrderInv, Rising
<1>6. \A q \in 1..MaxQueues : q = bound => \A j \in DOMAIN queue[q] : n < queue[q][j].n
  BY <1>1 DEF OrderInv, Before
<1> HIDE DEF n
<1>7. Rising(buffer') /\ Fresh(buffer)'
  BY <1>1, <1>2, <1>4, <1>5 DEF OrderInv, Rising, Fresh
<1>8. ASSUME NEW q \in 1..MaxQueues
      PROVE  /\ q = bound => Rising(queue[q]) /\ Fresh(queue[q])' /\ Before(buffer', queue[q])
             /\ q > bound => queue[q] = <<>>
  BY <1>1, <1>2, <1>4, <1>6 DEF OrderInv, Fresh, Before
<1>9. \A k \in DOMAIN sent' : sent'[k] <= tried
  BY <1>3, <1>4 DEF OrderInv
<1> QED
  BY <1>2, <1>7, <1>8, <1>9 DEF OrderInv

LEMMA OrderStep == TypeInv /\ OrderInv /\ [Next]_vars => OrderInv'
<1> SUFFICES ASSUME TypeInv, OrderInv, [Next]_vars PROVE OrderInv'
  OBVIOUS
<1> DEFINE Empty == /\ buffer' = <<>> /\ UNCHANGED <<bound, sent, tried>>
                    /\ \A q \in 1..MaxQueues : queue'[q] \in {queue[q], <<>>}
<1>1. ASSUME Empty PROVE OrderInv'
  BY <1>1 DEF OrderInv, Rising, Fresh, Before
<1>2. ASSUME Try, UNCHANGED <<bound, queue, buffer, sent>> PROVE OrderInv'
  <2>1. tried \in Nat /\ tried' = tried + 1
    BY <1>2 DEF Try, TypeInv, TypeOK
  <2>2. ASSUME NEW s \in Seq(Message), Fresh(s)
        PROVE  \A i \in DOMAIN s : /\ s[i].n <= tried'
                                   /\ \A k \in DOMAIN sent : sent[k] < s[i].n
    BY <2>1, <2>2, Numbered DEF Fresh
  <2>3. Fresh(buffer)'
    BY <1>2, <2>2 DEF OrderInv, Fresh, TypeInv, TypeOK
  <2>4. ASSUME NEW q \in 1..MaxQueues, q = bound PROVE Fresh(queue[q])'
    BY <1>2, <2>2, <2>4 DEF OrderInv, Fresh, TypeInv, TypeOK
  <2>5. \A k \in DOMAIN sent : sent[k] <= tried'
    BY <2>1 DEF OrderInv, TypeInv, TypeOK
  <2> QED
    BY <1>2, <2>3, <2>4, <2>5 DEF OrderInv, Rising, Before
<1>3. CASE StartObserver \/ Publish
  <2>1. CASE StartObserver /\ observer' = "up"
    BY <2>1, RouteOrder DEF StartObserver
  <2>2. CASE StartObserver /\ observer' = "cut"
    BY <1>2, <2>2 DEF StartObserver
  <2>3. CASE Publish
    BY <2>3, RouteOrder DEF Publish
  <2> QED
    BY <1>3, <2>1, <2>2, <2>3 DEF StartObserver
<1>4. CASE PublishFails
  BY <1>2, <1>4 DEF PublishFails, history
<1>5. CASE StartBot
  <2>1. bound \in Nat /\ bound' = bound + 1 /\ UNCHANGED <<queue, buffer, sent, tried>>
    BY <1>5, BoundAssumption DEF StartBot, TypeInv, TypeOK
  <2>2. ASSUME NEW q \in 1..MaxQueues, q = bound + 1 PROVE queue[q] = <<>>
    BY <2>1, <2>2 DEF OrderInv
  <2>3. Fresh(buffer)' /\ Rising(buffer)'
    BY <2>1 DEF OrderInv, Fresh, Rising
  <2> QED
    BY <2>1, <2>2, <2>3 DEF OrderInv, Rising, Fresh, Before
<1>6. CASE StopObserver \/ Consume \/ UNCHANGED vars
  BY <1>6 DEF StopObserver, Consume, vars, history, OrderInv, Rising, Fresh, Before
<1>7. CASE CutBot \/ StopBot \/ RestartBroker
  BY <1>1, <1>7 DEF CutBot, StopBot, RestartBroker, history, TypeInv, TypeOK
<1> QED
  BY <1>3, <1>4, <1>5, <1>6, <1>7, PushOrder, HandleOrder DEF Next

(* Every step tries a publication, sends an alert or does neither.         *)
LEMMA ChannelStep ==
    TypeInv /\ OrderInv /\ [Next]_vars
        => [Channel!Publish \/ Channel!Send]_<<tried, sent>>
<1> SUFFICES ASSUME TypeInv, OrderInv, [Next]_vars
             PROVE  [Channel!Publish \/ Channel!Send]_<<tried, sent>>
  OBVIOUS
<1>1. CASE StartObserver \/ Publish \/ PublishFails
  BY <1>1 DEF StartObserver, Publish, PublishFails, Try, history, Channel!Publish
<1>2. CASE Handle
  <2>1. /\ Head(buffer).n \in 1..tried
        /\ \A k \in DOMAIN sent : sent[k] < Head(buffer).n
    <3>1. Head(buffer) = buffer[1] /\ 1 \in DOMAIN buffer
      BY <1>2, HeadTail DEF Handle, TypeInv, TypeOK
    <3>2. buffer[1].n \in Nat \ {0}
      BY <3>1, Numbered DEF TypeInv, TypeOK
    <3> QED
      BY <3>1, <3>2 DEF OrderInv, Fresh, TypeInv, TypeOK
  <2> QED
    BY <1>2, <2>1 DEF Handle, Channel!Send
<1>3. CASE UNCHANGED <<tried, sent>>
  BY <1>3
<1> QED
  BY <1>1, <1>2, <1>3 DEF Next, StopObserver, StartBot, Consume, Push, CutBot,
     StopBot, RestartBroker, vars, history

(* The whole way of an alert is one channel that loses but neither repeats *)
(* nor reorders, whoever stops and starts again in between.                *)
THEOREM DeliveryIsChannel == Spec => InOrderAtMostOnce
<1>1. Init => Channel!Init
  BY DEF Init, Channel!Init
<1>2. Init => TypeInv /\ OrderInv
  BY TypeInit, OrderInit
<1>3. TypeInv /\ OrderInv /\ [Next]_vars => (TypeInv /\ OrderInv)'
  BY TypeStep, OrderStep
<1> QED
  BY <1>1, <1>2, <1>3, ChannelStep, PTL DEF Spec, InOrderAtMostOnce, Channel!Spec

-----------------------------------------------------------------------------
(* Completeness.  A bot that is not running has nothing in its buffer, so  *)
(* that it starts with none of the messages of its new queue.              *)
OverlookInv == NothingOverlooked /\ (bot = "down" => buffer = <<>>)

LEMMA NumbersEmpty == Numbers(<<>>) = {}
BY DEF Numbers

LEMMA NumbersAppend ==
    ASSUME NEW s \in Seq(Message), NEW m \in Message
    PROVE  Numbers(Append(s, m)) = Numbers(s) \cup {m.n}
<1>1. Numbers(Append(s, m)) \subseteq Numbers(s) \cup {m.n}
  BY Appended DEF Numbers
<1>2. ASSUME NEW i \in DOMAIN s
      PROVE  i \in DOMAIN Append(s, m) /\ Append(s, m)[i] = s[i]
  OBVIOUS
<1>3. Len(s) + 1 \in DOMAIN Append(s, m) /\ Append(s, m)[Len(s) + 1] = m
  OBVIOUS
<1>4. Numbers(s) \cup {m.n} \subseteq Numbers(Append(s, m))
  BY <1>2, <1>3 DEF Numbers
<1> QED
  BY <1>1, <1>4

LEMMA NumbersTail ==
    ASSUME NEW s \in Seq(Message), s # <<>>
    PROVE  Numbers(s) = {Head(s).n} \cup Numbers(Tail(s))
<1>1. {Head(s).n} \cup Numbers(Tail(s)) \subseteq Numbers(s)
  BY HeadTail DEF Numbers
<1>2. ASSUME NEW i \in DOMAIN s, i # 1
      PROVE  i - 1 \in DOMAIN Tail(s) /\ Tail(s)[i - 1] = s[i]
  BY <1>2
<1>3. ASSUME NEW i \in DOMAIN s
      PROVE  s[i].n \in {Head(s).n} \cup Numbers(Tail(s))
  BY <1>2, HeadTail DEF Numbers
<1>4. Numbers(s) \subseteq {Head(s).n} \cup Numbers(Tail(s))
  BY <1>3 DEF Numbers
<1> QED
  BY <1>1, <1>4

LEMMA RouteOverlooked ==
    ASSUME TypeInv, OverlookInv, NEW msg \in Message, Route(msg),
           UNCHANGED <<bot, bound, buffer, handled>>
    PROVE  OverlookInv'
<1>1. ASSUME bot \in {"bound", "consuming"}
      PROVE  since' = handled \cup Numbers(buffer) \cup Numbers(queue'[bound])
  <2>1. bound \in 1..MaxQueues /\ queue[bound] \in Seq(Message)
    BY <1>1, BoundAssumption DEF TypeInv, TypeOK
  <2>2. queue'[bound] = Append(queue[bound], msg)
    BY <2>1 DEF Route
  <2>3. Numbers(queue'[bound]) = Numbers(queue[bound]) \cup {msg.n}
    BY <2>1, <2>2, NumbersAppend
  <2> QED
    BY <1>1, <2>3 DEF Route, OverlookInv, NothingOverlooked
<1> QED
  BY <1>1 DEF OverlookInv, NothingOverlooked, Numbers

LEMMA OverlookInit == Init => OverlookInv
BY DEF Init, OverlookInv, NothingOverlooked

LEMMA OverlookStep == TypeInv /\ OrderInv /\ OverlookInv /\ [Next]_vars => OverlookInv'
<1> SUFFICES ASSUME TypeInv, OrderInv, OverlookInv, [Next]_vars PROVE OverlookInv'
  OBVIOUS
<1>1. CASE StartObserver
  <2>1. [n |-> tried', alert |-> FALSE] \in Message
    BY <1>1 DEF StartObserver, Try, Message, TypeInv, TypeOK
  <2>2. CASE UNCHANGED <<queue, since>>
    BY <1>1, <2>2 DEF StartObserver, OverlookInv, NothingOverlooked, Numbers
  <2> QED
    BY <1>1, <2>1, <2>2, RouteOverlooked DEF StartObserver
<1>2. CASE Publish
  <2>1. [n |-> tried', alert |-> TRUE] \in Message
    BY <1>2 DEF Publish, Try, Message, TypeInv, TypeOK
  <2> QED
    BY <1>2, <2>1, RouteOverlooked DEF Publish
<1>3. CASE StartBot
  <2>1. bound \in Nat /\ bound' = bound + 1 /\ bound' \in 1..MaxQueues
    BY <1>3, BoundAssumption DEF StartBot, TypeInv, TypeOK
  <2>2. queue'[bound'] = <<>> /\ buffer' = <<>> /\ since' = {} /\ handled' = {} /\ bot' = "bound"
    BY <1>3, <2>1 DEF StartBot, OrderInv, OverlookInv
  <2> QED
    BY <2>2, NumbersEmpty DEF OverlookInv, NothingOverlooked
<1>4. CASE Push
  <2> DEFINE mine == queue[bound]
  <2>1. bound \in 1..MaxQueues /\ mine \in Seq(Message) /\ buffer \in Seq(Message) /\ mine # <<>>
    BY <1>4, BoundAssumption DEF Push, TypeInv, TypeOK
  <2>2. Head(mine) \in Message
    BY <2>1, HeadTail
  <2>3. /\ buffer' = Append(buffer, Head(mine)) /\ queue'[bound] = Tail(mine)
        /\ UNCHANGED <<bot, bound, since, handled>>
    BY <1>4, <2>1 DEF Push, history, TypeInv, TypeOK
  <2>4. Numbers(buffer') = Numbers(buffer) \cup {Head(mine).n}
    BY <2>1, <2>2, <2>3, NumbersAppend
  <2>5. Numbers(mine) = {Head(mine).n} \cup Numbers(queue'[bound])
    BY <2>1, <2>3, NumbersTail
  <2>6. bot = "consuming" /\ since = handled \cup Numbers(buffer) \cup Numbers(mine)
    BY <1>4 DEF Push, OverlookInv, NothingOverlooked
  <2> HIDE DEF mine
  <2>7. since' = handled' \cup Numbers(buffer') \cup Numbers(queue'[bound'])
    BY <2>3, <2>4, <2>5, <2>6
  <2> QED
    BY <2>3, <2>6, <2>7 DEF OverlookInv, NothingOverlooked
<1>5. CASE Handle
  <2>1. Numbers(buffer) = {Head(buffer).n} \cup Numbers(buffer')
    BY <1>5, NumbersTail DEF Handle, TypeInv, TypeOK
  <2>2. handled' = handled \cup {Head(buffer).n} /\ UNCHANGED <<bot, bound, queue, since>>
    BY <1>5 DEF Handle
  <2>3. bot # "down"
    BY <1>5 DEF Handle, OverlookInv
  <2> QED
    BY <2>1, <2>2, <2>3 DEF OverlookInv, NothingOverlooked
<1>6. CASE PublishFails \/ StopObserver \/ UNCHANGED vars
  BY <1>6 DEF PublishFails, StopObserver, vars, history, OverlookInv, NothingOverlooked
<1>7. CASE Consume
  BY <1>7 DEF Consume, history, OverlookInv, NothingOverlooked
<1>8. CASE CutBot \/ StopBot \/ RestartBroker
  BY <1>8 DEF CutBot, StopBot, RestartBroker, OverlookInv, NothingOverlooked
<1> QED
  BY <1>1, <1>2, <1>3, <1>4, <1>5, <1>6, <1>7, <1>8 DEF Next

(* While the bot consumes, a message published since its queue was bound   *)
(* is in that queue, in its buffer, or was handled, and nothing else is.   *)
THEOREM NothingIsOverlooked == Spec => []NothingOverlooked
<1>1. Init => TypeInv /\ OrderInv /\ OverlookInv
  BY TypeInit, OrderInit, OverlookInit
<1>2. TypeInv /\ OrderInv /\ OverlookInv /\ [Next]_vars => (TypeInv /\ OrderInv /\ OverlookInv)'
  BY TypeStep, OrderStep, OverlookStep
<1>3. OverlookInv => NothingOverlooked
  BY DEF OverlookInv
<1> QED
  BY <1>1, <1>2, <1>3, PTL DEF Spec
=============================================================================
