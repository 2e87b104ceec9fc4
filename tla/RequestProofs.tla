--------------------------- MODULE RequestProofs ---------------------------
(***************************************************************************)
(* Theorems about the requests on trackers, for any number of requests,    *)
(* trackers, books of ads and sizes of a page: what a POST creates, who is *)
(* told that a tracker is deleted, and what a client sees that reads the   *)
(* table page by page while others change it.                              *)
(***************************************************************************)
EXTENDS TrackerRequests, SequenceTheorems, FiniteSetTheorems, TLAPS

(* The facts on lists and pages are those of ExchangeProofs, on the table. *)
List == INSTANCE ExchangeProofs WITH
    Ad <- Id, Mine <- {}, Client <- {}, Function <- {}, PageSize <- 1, MaxRetries <- 1,
    book <- rows, client <- 0, fun <- 0, pc <- 0, page <- 1, attempt <- 1, out <- <<>>,
    moves <- moves, always <- always

(* An INSTANCE has operators of the community modules of its own.          *)
LEMMA SameSets ==
    /\ \A s : List!ToSet(s) = ToSet(s) /\ List!IsInjective(s) = IsInjective(s)
    /\ \A s, i : List!RemoveAt(s, i) = RemoveAt(s, i)
    /\ \A s, i, x : List!InsertAt(s, i, x) = InsertAt(s, i, x)
    /\ \A X : List!Min(X) = Min(X)
<1>1. ASSUME NEW s PROVE List!ToSet(s) = ToSet(s)
  BY DEF ToSet, List!ToSet
<1>2. ASSUME NEW s PROVE List!IsInjective(s) = IsInjective(s)
  BY DEF IsInjective, List!IsInjective
<1>3. ASSUME NEW s, NEW i PROVE List!RemoveAt(s, i) = RemoveAt(s, i)
  BY DEF RemoveAt, List!RemoveAt
<1>4. ASSUME NEW s, NEW i, NEW x PROVE List!InsertAt(s, i, x) = InsertAt(s, i, x)
  BY DEF InsertAt, List!InsertAt
<1>5. ASSUME NEW X PROVE List!Min(X) = Min(X)
  BY DEF Min, List!Min
<1> QED
  BY <1>1, <1>2, <1>3, <1>4, <1>5

LEMMA SameSize ==
    \A X : List!Cardinality(X) = Cardinality(X) /\ List!IsFiniteSet(X) = IsFiniteSet(X)
<1>1. ASSUME NEW X PROVE List!Cardinality(X) = Cardinality(X)
  BY DEF Cardinality, List!Cardinality
<1>2. ASSUME NEW X PROVE List!IsFiniteSet(X) = IsFiniteSet(X)
  BY DEF IsFiniteSet, List!IsFiniteSet
<1> QED
  BY <1>1, <1>2

(* What ExchangeProofs assumes holds.                                      *)
LEMMA Assumed ==
    /\ 1 \in Nat \ {0} /\ MaxMoves \in Nat
    /\ {} \subseteq {"binance", "bybit"} /\ {} \subseteq {"GetAds", "GetAdsByName"}
    /\ {} \subseteq Id /\ List!IsFiniteSet(Id)
<1>1. IsFiniteSet(Id)
  BY FS_Interval, NumberAssumption DEF Id
<1> QED
  BY <1>1, SameSize, NumberAssumption

-----------------------------------------------------------------------------
(* The table, changed under a client that reads it page by page: on either *)
(* side of a place one tracker appears at most.                            *)

Upto(s, k) == List!Upto(s, k)
Beyond(s, k) == List!Beyond(s, k)
Shifted(s, r) ==
    \A k \in Nat : /\ \E y : Upto(r, k) \subseteq Upto(s, k) \cup {y}
                   /\ \E y : Beyond(r, k) \subseteq Beyond(s, k) \cup {y}

(* RemoveFirst takes the one place away on which t is.                     *)
LEMMA FirstPlace ==
    ASSUME NEW S, NEW s \in Seq(S), NEW t
    PROVE  /\ t \notin ToSet(s) => RemoveFirst(s, t) = s
           /\ t \in ToSet(s) => \E i \in DOMAIN s : s[i] = t /\ RemoveFirst(s, t) = RemoveAt(s, i)
<1>1. DOMAIN s = 1..Len(s) /\ Len(s) \in Nat
  BY LenProperties
<1>2. CASE t \notin ToSet(s)
  BY <1>1, <1>2 DEF ToSet, RemoveFirst
<1>3. CASE t \in ToSet(s)
  <2> DEFINE I == {i \in 1..Len(s) : s[i] = t}
  <2>1. I # {} /\ I \in SUBSET Nat
    BY <1>1, <1>3 DEF ToSet
  <2>2. \E n \in I : \A m \in I : n <= m
    BY <2>1, Assumed, List!LeastNat
  <2>3. Min(I) \in I
    <3>1. \E n \in I : \A m \in I : n =< m
      BY <2>2
    <3> QED
      BY <3>1 DEF Min
  <2>4. RemoveFirst(s, t) = RemoveAt(s, Min(I))
    BY <2>1 DEF RemoveFirst, SelectInSeq
  <2> QED
    BY <1>1, <1>3, <2>3, <2>4
<1> QED
  BY <1>2, <1>3

(* A list in which something new is put on place i, and one from which    *)
(* something is taken.                                                     *)
LEMMA Inserted ==
    ASSUME NEW S, NEW s \in Seq(S), IsInjective(s), NEW x \in S, x \notin ToSet(s),
           NEW i \in 1..(Len(s) + 1), NEW r, r = InsertAt(s, i, x)
    PROVE  /\ r \in Seq(S) /\ IsInjective(r) /\ ToSet(r) = ToSet(s) \cup {x}
           /\ List!MovedDown(s, r, x)
<1>1. List!IsInjective(s) /\ x \notin List!ToSet(s) /\ r = List!InsertAt(s, i, x)
  BY SameSets
<1>2. /\ r \in Seq(S) /\ List!IsInjective(r) /\ List!ToSet(r) = List!ToSet(s) \cup {x}
      /\ List!MovedDown(s, r, x)
  BY <1>1, Assumed, List!InsertFacts
<1> QED
  BY <1>2, SameSets

LEMMA Removed ==
    ASSUME NEW S, NEW s \in Seq(S), IsInjective(s), NEW t \in ToSet(s),
           NEW r, r = RemoveFirst(s, t)
    PROVE  /\ r \in Seq(S) /\ IsInjective(r) /\ ToSet(r) = ToSet(s) \ {t}
           /\ List!MovedUp(s, r, t)
<1>1. PICK i \in DOMAIN s : s[i] = t /\ r = RemoveAt(s, i)
  BY FirstPlace
<1>2. List!IsInjective(s) /\ r = List!RemoveAt(s, i)
  BY <1>1, SameSets
<1>3. /\ r \in Seq(S) /\ List!IsInjective(r) /\ List!ToSet(r) = List!ToSet(s) \ {s[i]}
      /\ List!MovedUp(s, r, s[i])
  BY <1>2, Assumed, List!RemoveFacts
<1> QED
  BY <1>1, <1>3, SameSets

(* A version of the row of t is written, and the old one is not found any  *)
(* more.                                                                   *)
LEMMA PlaceFacts ==
    ASSUME rows \in Seq(Id), IsInjective(rows), NEW t \in Id, Place(t)
    PROVE  /\ rows' \in Seq(Id) /\ IsInjective(rows') /\ ToSet(rows') = ToSet(rows) \cup {t}
           /\ Shifted(rows, rows')
<1>1. PICK others : others = RemoveFirst(rows, t)
  OBVIOUS
<1>2. PICK i \in 1..(Len(others) + 1) : rows' = InsertAt(others, i, t)
  BY <1>1 DEF Place
<1>3. CASE t \in ToSet(rows)
  <2>1. /\ others \in Seq(Id) /\ IsInjective(others) /\ ToSet(others) = ToSet(rows) \ {t}
        /\ List!MovedUp(rows, others, t)
    BY <1>1, <1>3, Removed
  <2>2. t \notin ToSet(others)
    BY <2>1
  <2>3. /\ rows' \in Seq(Id) /\ IsInjective(rows') /\ ToSet(rows') = ToSet(others) \cup {t}
        /\ List!MovedDown(others, rows', t)
    BY <1>2, <2>1, <2>2, Inserted
  <2>4. Shifted(rows, rows')
    BY <2>1, <2>3 DEF Shifted, Upto, Beyond, List!MovedUp, List!MovedDown
  <2> QED
    BY <1>3, <2>1, <2>3, <2>4
<1>4. CASE t \notin ToSet(rows)
  <2>1. others = rows
    BY <1>1, <1>4, FirstPlace
  <2>2. /\ rows' \in Seq(Id) /\ IsInjective(rows') /\ ToSet(rows') = ToSet(rows) \cup {t}
        /\ List!MovedDown(rows, rows', t)
    BY <1>2, <1>4, <2>1, Inserted
  <2>3. Shifted(rows, rows')
    BY <2>2 DEF Shifted, Upto, Beyond, List!MovedDown
  <2> QED
    BY <2>2, <2>3
<1> QED
  BY <1>3, <1>4

(* The row of t is deleted.                                                *)
LEMMA RemoveRow ==
    ASSUME rows \in Seq(Id), IsInjective(rows), NEW t \in ToSet(rows),
           rows' = RemoveFirst(rows, t)
    PROVE  /\ rows' \in Seq(Id) /\ IsInjective(rows') /\ ToSet(rows') = ToSet(rows) \ {t}
           /\ Shifted(rows, rows')
<1>1. /\ rows' \in Seq(Id) /\ IsInjective(rows') /\ ToSet(rows') = ToSet(rows) \ {t}
      /\ List!MovedUp(rows, rows', t)
  BY Removed
<1>2. Shifted(rows, rows')
  BY <1>1 DEF Shifted, Upto, Beyond, List!MovedUp
<1> QED
  BY <1>1, <1>2

-----------------------------------------------------------------------------
(* The trackers a POST p has created, s, and where it stands: each of them *)
(* has an id of its own, because the id it saves with is 0 again.          *)
Chosen(p, ad) == IF p.payment = {} THEN ad ELSE p.payment
Sound(p, s) ==
    /\ p.id = 0 /\ s = p.created
    /\ Len(s) <= Len(p.ads) /\ (p.pc = "save" => Len(s) < Len(p.ads))
    /\ p.pc \notin {"loop", "save"} => s = <<>>
    /\ \A i \in DOMAIN s :
         /\ s[i] \in 1..lastId
         /\ Live(s[i]) => methods[s[i]] = Chosen(p, p.ads[i])
PostInv == \A q \in Post : Sound(post[q], inserted[q])

RowInv == ToSet(rows) \subseteq 1..lastId

(* What a POST does without the table.                                     *)
PostAlone(q, p, s) ==
    /\ post' = [post EXCEPT ![q] = p]
    /\ inserted' = [inserted EXCEPT ![q] = s]
    /\ UNCHANGED <<rows, methods, lastId, del, walk, gone, moves, disturbed, always>>

(* A POST that ends holds nothing.                                         *)
LEMMA Ended ==
    ASSUME NEW a \in Answer
    PROVE  [NoPost EXCEPT !.answer = a] \in PostState /\ Sound([NoPost EXCEPT !.answer = a], <<>>)
<1>1. <<>> \in Seq(Id) /\ Len(<<>>) = 0 /\ DOMAIN <<>> = {} /\ 0 \in 0..MaxId
  BY NumberAssumption
<1>2. [NoPost EXCEPT !.answer = a] \in PostState
  BY <1>1 DEF NoPost, PostState
<1>3. Sound([NoPost EXCEPT !.answer = a], <<>>)
  BY <1>1 DEF NoPost, Sound
<1> QED
  BY <1>2, <1>3

LEMMA PostEnds ==
    ASSUME TypeOK, NEW q \in Post, NEW a \in Answer, EndPost(q, a),
           UNCHANGED <<table, del, walk, gone, moves, watch>>
    PROVE  \E p \in PostState, s \in Seq(Id) : PostAlone(q, p, s) /\ Sound(p, s)
<1>1. PostAlone(q, [NoPost EXCEPT !.answer = a], <<>>)
  BY DEF EndPost, PostAlone, table, watch
<1>2. <<>> \in Seq(Id)
  OBVIOUS
<1> QED
  BY <1>1, <1>2, Ended

(* The list of ads, and the place of the ad whose tracker comes next.      *)
LEMMA AdFacts ==
    ASSUME TypeOK, PostInv, NEW q \in Post
    PROVE  /\ post[q] \in PostState /\ inserted[q] \in Seq(Id) /\ Sound(post[q], inserted[q])
           /\ post[q].ads \in Seq(SUBSET Method)
           /\ Len(post[q].ads) \in Nat /\ Len(inserted[q]) \in Nat
           /\ DOMAIN inserted[q] = 1..Len(inserted[q])
           /\ DOMAIN post[q].ads = 1..Len(post[q].ads)
<1>1. post[q] \in PostState /\ inserted[q] \in Seq(Id) /\ Sound(post[q], inserted[q])
  BY DEF TypeOK, PostInv
<1>2. post[q].ads \in Seq(SUBSET Method)
  <2>1. post[q].ads \in Books \cup {<<>>}
    BY <1>1 DEF PostState
  <2>2. <<>> \in Seq(SUBSET Method)
    OBVIOUS
  <2> QED
    BY <2>1, <2>2, MethodAssumption
<1> QED
  BY <1>1, <1>2, LenProperties

(* Every step of a POST but Save leaves it sound.                          *)
LEMMA PostMoves ==
    ASSUME TypeOK, PostInv, NEW q \in Post,
           BeginPost(q) \/ RefusePost(q) \/ FindAds(q) \/ CachedMethods(q) \/ NextAd(q)
                        \/ SaveFails(q)
    PROVE  \E p \in PostState, s \in Seq(Id) : PostAlone(q, p, s) /\ Sound(p, s)
<1>1. /\ post[q] \in PostState /\ inserted[q] \in Seq(Id) /\ Sound(post[q], inserted[q])
      /\ Len(post[q].ads) \in Nat /\ Len(inserted[q]) \in Nat
  BY AdFacts
<1>2. [inserted EXCEPT ![q] = inserted[q]] = inserted
  BY DEF TypeOK
<1>3. CASE BeginPost(q)
  <2>1. PICK payment \in Payments :
            post' = [post EXCEPT ![q] = [NoPost EXCEPT !.pc = "ads", !.payment = payment]]
    BY <1>3 DEF BeginPost
  <2>2. inserted[q] = <<>> /\ <<>> \in Seq(Id) /\ Len(<<>>) = 0 /\ DOMAIN <<>> = {} /\ 0 \in 0..MaxId
    <3>1. inserted[q] = <<>>
      BY <1>1, <1>3 DEF BeginPost, Sound
    <3>2. <<>> \in Seq(Id) /\ Len(<<>>) = 0 /\ DOMAIN <<>> = {} /\ 0 \in 0..MaxId
      BY NumberAssumption
    <3> QED
      BY <3>1, <3>2
  <2> DEFINE p == [NoPost EXCEPT !.pc = "ads", !.payment = payment]
  <2>3. p \in PostState
    BY <2>2 DEF NoPost, PostState, Answer
  <2>4. Sound(p, inserted[q])
    BY <2>2 DEF NoPost, Sound
  <2>5. PostAlone(q, p, inserted[q])
    BY <1>2, <1>3, <2>1 DEF BeginPost, PostAlone, table, watch
  <2> QED
    BY <1>1, <2>3, <2>4, <2>5
<1>4. CASE RefusePost(q)
  BY <1>4, PostEnds DEF RefusePost, Answer
<1>5. CASE FindAds(q)
  <2>1. PICK b \in Books : post' = [post EXCEPT ![q].pc = "methods", ![q].ads = b]
    BY <1>5 DEF FindAds
  <2> DEFINE p == [post[q] EXCEPT !.pc = "methods", !.ads = b]
  <2>2. inserted[q] = <<>> /\ Len(<<>>) = 0 /\ DOMAIN <<>> = {} /\ Len(b) \in Nat
    BY <1>1, <1>5, MethodAssumption, LenProperties DEF FindAds, Sound
  <2>3. p \in PostState
    BY <1>1 DEF PostState
  <2>4. Sound(p, inserted[q])
    <3>1. p.id = post[q].id /\ p.created = post[q].created /\ p.pc = "methods" /\ p.ads = b
      BY <1>1 DEF PostState
    <3> HIDE DEF p
    <3> QED
      <4>1. inserted[q] = p.created /\ p.id = 0
        BY <1>1, <3>1 DEF Sound
      <4>2. Len(inserted[q]) <= Len(p.ads) /\ DOMAIN inserted[q] = {}
        BY <2>2, <3>1
      <4> QED
        BY <2>2, <3>1, <4>1, <4>2 DEF Sound
  <2>5. PostAlone(q, p, inserted[q])
    BY <1>2, <1>5, <2>1 DEF FindAds, PostAlone, table, watch
  <2> QED
    BY <1>1, <2>3, <2>4, <2>5
<1>6. CASE CachedMethods(q)
  <2>1. ASSUME NEW known \in Caches,
               post' = [post EXCEPT ![q].pc = "loop", ![q].known = known], UNCHANGED inserted
        PROVE  \E p \in PostState, s \in Seq(Id) : PostAlone(q, p, s) /\ Sound(p, s)
    <3> DEFINE p == [post[q] EXCEPT !.pc = "loop", !.known = known]
    <3>1. p \in PostState
      BY <1>1 DEF PostState
    <3>2. Sound(p, inserted[q])
      <4>1. /\ p.id = post[q].id /\ p.created = post[q].created /\ p.pc = "loop"
            /\ p.ads = post[q].ads /\ p.payment = post[q].payment
        BY <1>1 DEF PostState
      <4> HIDE DEF p
      <4> QED
        BY <1>1, <4>1 DEF Sound, Chosen
    <3>3. PostAlone(q, p, inserted[q])
      BY <1>2, <1>6, <2>1 DEF CachedMethods, PostAlone, table, watch
    <3> QED
      BY <1>1, <3>1, <3>2, <3>3
  <2>2. ASSUME EndPost(q, "empty")
        PROVE  \E p \in PostState, s \in Seq(Id) : PostAlone(q, p, s) /\ Sound(p, s)
    BY <1>6, <2>2, PostEnds DEF CachedMethods, Answer
  <2> QED
    BY <1>6, <2>1, <2>2 DEF CachedMethods
<1>7. CASE NextAd(q)
  <2>1. ASSUME NEW a \in {"created", "bad"}, EndPost(q, a)
        PROVE  \E p \in PostState, s \in Seq(Id) : PostAlone(q, p, s) /\ Sound(p, s)
    BY <1>7, <2>1, PostEnds DEF NextAd, Answer
  <2>2. ASSUME Len(post[q].created) # Len(post[q].ads),
               post' = [post EXCEPT ![q].pc = "save"], UNCHANGED inserted
        PROVE  \E p \in PostState, s \in Seq(Id) : PostAlone(q, p, s) /\ Sound(p, s)
    <3> DEFINE p == [post[q] EXCEPT !.pc = "save"]
    <3>1. p \in PostState
      BY <1>1 DEF PostState
    <3>2. Sound(p, inserted[q])
      <4>1. /\ p.id = post[q].id /\ p.created = post[q].created /\ p.pc = "save"
            /\ p.ads = post[q].ads /\ p.payment = post[q].payment
        BY <1>1 DEF PostState
      <4>2. Len(inserted[q]) < Len(post[q].ads)
        BY <1>1, <2>2 DEF Sound
      <4> HIDE DEF p
      <4> QED
        BY <1>1, <4>1, <4>2 DEF Sound, Chosen
    <3>3. PostAlone(q, p, inserted[q])
      BY <1>2, <1>7, <2>2 DEF NextAd, PostAlone, table, watch
    <3> QED
      BY <1>1, <3>1, <3>2, <3>3
  <2> QED
    BY <1>7, <2>1, <2>2 DEF NextAd
<1>8. CASE SaveFails(q)
  BY <1>8, PostEnds DEF SaveFails, Answer
<1> QED
  BY <1>3, <1>4, <1>5, <1>6, <1>7, <1>8

LEMMA PostKeeps ==
    ASSUME TypeOK, PostInv, RowInv, DeletedOnce, NEW q \in Post,
           BeginPost(q) \/ RefusePost(q) \/ FindAds(q) \/ CachedMethods(q) \/ NextAd(q)
                        \/ SaveFails(q)
    PROVE  TypeOK' /\ PostInv' /\ RowInv' /\ DeletedOnce'
<1>1. PICK p \in PostState, s \in Seq(Id) : PostAlone(q, p, s) /\ Sound(p, s)
  BY PostMoves
<1>2. TypeOK'
  BY <1>1 DEF TypeOK, PostAlone
<1>3. PostInv'
  <2>1. ASSUME NEW r \in Post, NEW a, NEW b, a = post'[r], b = inserted'[r]
        PROVE  Sound(a, b)'
    <3>1. Sound(a, b)
      BY <1>1, <2>1 DEF PostAlone, PostInv, TypeOK
    <3> QED
      BY <1>1, <3>1 DEF Sound, PostAlone, Live
  <2> QED
    BY <2>1 DEF PostInv
<1>4. RowInv' /\ DeletedOnce'
  BY <1>1 DEF PostAlone, RowInv, DeletedOnce, Live
<1> QED
  BY <1>2, <1>3, <1>4

-----------------------------------------------------------------------------
(* The trackers of a POST when the table changes: they keep their methods  *)
(* as long as they are there, and those that are gone do not return.       *)
Kept == /\ lastId <= lastId'
        /\ \A t \in 1..lastId : Live(t)' => Live(t) /\ methods'[t] = methods[t]

LEMMA SoundKept ==
    ASSUME lastId \in Nat, lastId' \in Nat, Kept, NEW p, NEW s, Sound(p, s)
    PROVE  Sound(p, s)'
<1>1. ASSUME NEW i \in DOMAIN s
      PROVE  s[i] \in 1..lastId' /\ (Live(s[i])' => methods'[s[i]] = Chosen(p, p.ads[i]))
  BY <1>1 DEF Sound, Kept
<1> QED
  BY <1>1 DEF Sound

(* SaveTracker creates a tracker with the methods of the kth ad.           *)
Creates(q, k) ==
    LET pms == Chosen(post[q], post[q].ads[k]) IN
    /\ k = Len(inserted[q]) + 1
    /\ pms \in SUBSET Method
    /\ lastId + 1 \in Id /\ lastId' = lastId + 1
    /\ Place(lastId + 1)
    /\ methods' = [methods EXCEPT ![lastId + 1] = pms]
    /\ inserted' = [inserted EXCEPT ![q] = Append(@, lastId + 1)]
    /\ post' = [post EXCEPT ![q].pc = "loop", ![q].id = 0, ![q].created = Append(@, lastId + 1)]
    /\ Disturb
    /\ UNCHANGED <<del, walk, gone, moves>>

LEMMA SaveIs ==
    ASSUME TypeOK, PostInv, NEW q \in Post, SaveTracker(q)
    PROVE  \E k \in 1..Len(post[q].ads) : Creates(q, k)
<1>1. /\ post[q] \in PostState /\ Sound(post[q], inserted[q])
      /\ post[q].ads \in Seq(SUBSET Method)
      /\ Len(post[q].ads) \in Nat /\ Len(inserted[q]) \in Nat
  BY AdFacts
<1>2. /\ post[q].pc = "save" /\ post[q].id = 0 /\ post[q].created = inserted[q]
      /\ Len(inserted[q]) < Len(post[q].ads)
  BY <1>1 DEF SaveTracker, Sound
<1>3. PICK k \in 1..Len(post[q].ads) : k = Len(inserted[q]) + 1
  BY <1>1, <1>2
<1>4. post[q].ads[k] \in SUBSET Method
  BY <1>1, ElementOfSeq
<1>5. PICK pms : pms = Chosen(post[q], post[q].ads[k])
  OBVIOUS
<1>6. MethodsOf(q, CurrentAd(q)) = pms
  BY <1>2, <1>3, <1>5 DEF MethodsOf, CurrentAd, Chosen
<1>7. pms \in SUBSET Method
  <2>1. post[q].payment \in SUBSET Method
    BY <1>1, MethodAssumption DEF PostState
  <2> QED
    BY <1>4, <1>5, <2>1 DEF Chosen
<1>8. InsertTracker(q, pms)
  BY <1>2, <1>6 DEF SaveTracker
<1>9. /\ lastId + 1 \in Id /\ lastId' = lastId + 1
      /\ Place(lastId + 1)
      /\ methods' = [methods EXCEPT ![lastId + 1] = pms]
      /\ inserted' = [inserted EXCEPT ![q] = Append(@, lastId + 1)]
  BY <1>8, NumberAssumption DEF InsertTracker, TypeOK, Id, Place
<1>10. /\ post' = [post EXCEPT ![q].pc = "loop", ![q].created = Append(@, lastId + 1),
                               ![q].id = 0]
       /\ Disturb /\ UNCHANGED <<del, walk, gone, moves>>
  BY <1>2, <1>9 DEF SaveTracker
<1>11. post' = [post EXCEPT ![q].pc = "loop", ![q].id = 0,
                            ![q].created = Append(@, lastId + 1)]
  <2>1. PICK x \in PostState : x = post[q]
    BY <1>1
  <2>2. PICK l : l = Append(x.created, lastId + 1)
    OBVIOUS
  <2>3. [x EXCEPT !.pc = "loop", !.created = l, !.id = 0]
          = [x EXCEPT !.pc = "loop", !.id = 0, !.created = l]
    BY DEF PostState
  <2>4. post' = [post EXCEPT ![q] = [x EXCEPT !.pc = "loop", !.created = l, !.id = 0]]
    BY <1>10, <2>1, <2>2, Zenon DEF TypeOK
  <2> QED
    BY <2>1, <2>2, <2>3, <2>4 DEF TypeOK
<1> QED
  BY <1>3, <1>5, <1>7, <1>9, <1>10, <1>11 DEF Creates

LEMMA Disturbed ==
    ASSUME TypeOK, Disturb PROVE disturbed' \in Nat /\ always' \in SUBSET Id
BY DEF TypeOK, Disturb

(* A new id: no POST has it, and nobody has deleted it.                    *)
LEMMA SaveKeeps ==
    ASSUME TypeOK, PostInv, RowInv, DeletedOnce, NEW q \in Post, SaveTracker(q)
    PROVE  TypeOK' /\ PostInv' /\ RowInv' /\ DeletedOnce'
<1>0. PICK k \in 1..Len(post[q].ads) : Creates(q, k)
  BY SaveIs
<1>1. /\ k = Len(inserted[q]) + 1
      /\ Chosen(post[q], post[q].ads[k]) \in SUBSET Method
      /\ lastId + 1 \in Id /\ lastId' = lastId + 1
      /\ Place(lastId + 1)
      /\ methods' = [methods EXCEPT ![lastId + 1] = Chosen(post[q], post[q].ads[k])]
      /\ inserted' = [inserted EXCEPT ![q] = Append(@, lastId + 1)]
      /\ post' = [post EXCEPT ![q].pc = "loop", ![q].id = 0,
                              ![q].created = Append(@, lastId + 1)]
      /\ Disturb
      /\ UNCHANGED <<del, walk, gone, moves>>
  BY <1>0 DEF Creates
<1>2. PICK t \in Id : t = lastId + 1
  BY <1>1
<1>3. lastId \in Nat /\ lastId \in 0..MaxId /\ MaxId \in Nat
  BY NumberAssumption DEF TypeOK
<1>4. /\ rows' \in Seq(Id) /\ IsInjective(rows') /\ ToSet(rows') = ToSet(rows) \cup {t}
  BY <1>1, <1>2, PlaceFacts DEF TypeOK
<1>5. /\ post[q] \in PostState /\ inserted[q] \in Seq(Id) /\ Sound(post[q], inserted[q])
      /\ Len(post[q].ads) \in Nat /\ Len(inserted[q]) \in Nat
      /\ DOMAIN inserted[q] = 1..Len(inserted[q])
  BY AdFacts
<1>6. post[q].created = inserted[q] /\ post[q].id = 0
  BY <1>5 DEF Sound
<1>7. PICK s : s = Append(inserted[q], t)
  OBVIOUS
<1>8. /\ s \in Seq(Id) /\ Len(s) = k /\ DOMAIN s = 1..k /\ s[k] = t
      /\ \A i \in 1..k : i # k => i \in DOMAIN inserted[q] /\ s[i] = inserted[q][i]
  <2>1. /\ s \in Seq(Id) /\ Len(s) = Len(inserted[q]) + 1 /\ s[Len(inserted[q]) + 1] = t
        /\ \A i \in 1..Len(inserted[q]) : s[i] = inserted[q][i]
    BY <1>5, <1>7, AppendProperties
  <2>2. DOMAIN s = 1..Len(s)
    BY <2>1, LenProperties
  <2> QED
    BY <1>1, <1>5, <2>1, <2>2
<1>9. PICK p : p = [post[q] EXCEPT !.pc = "loop", !.id = 0, !.created = s]
  OBVIOUS
<1>10. /\ p.pc = "loop" /\ p.id = 0 /\ p.created = s
       /\ p.ads = post[q].ads /\ p.payment = post[q].payment
  BY <1>5, <1>9 DEF PostState
<1>11. p \in PostState
  <2>1. 0 \in 0..MaxId /\ s \in Seq(Id)
    BY <1>3, <1>8
  <2>2. \A x \in PostState : [x EXCEPT !.pc = "loop", !.id = 0, !.created = s] \in PostState
    BY ONLY <2>1 DEF PostState
  <2> QED
    BY <1>5, <1>9, <2>2
<1>12. post' = [post EXCEPT ![q] = p] /\ inserted' = [inserted EXCEPT ![q] = s]
  BY <1>1, <1>2, <1>5, <1>6, <1>7, <1>9 DEF TypeOK, PostState
<1>13. TypeOK'
  <2>1. /\ post' \in [Post -> PostState] /\ inserted' \in [Post -> Seq(Id)]
    BY <1>8, <1>11, <1>12 DEF TypeOK
  <2>2. methods' \in [Id -> SUBSET Method]
    BY <1>1 DEF TypeOK
  <2>3. lastId' \in 0..MaxId
    BY <1>1, <1>3 DEF Id
  <2>4. UNCHANGED <<del, walk, gone, moves>> /\ disturbed' \in Nat /\ always' \in SUBSET Id
    BY <1>1, Disturbed
  <2> QED
    BY <1>4, <2>1, <2>2, <2>3, <2>4 DEF TypeOK
<1>14. Kept /\ lastId' \in Nat
  <2>1. ASSUME NEW u \in 1..lastId, u \in ToSet(rows')
        PROVE  u \in ToSet(rows) /\ methods'[u] = methods[u]
    <3>1. u # t /\ u \in Id
      BY <1>2, <1>3 DEF Id
    <3> QED
      BY <1>1, <1>2, <1>4, <2>1, <3>1 DEF TypeOK
  <2> QED
    BY <1>1, <1>3, <2>1 DEF Kept, Live
<1>15. Sound(p, s)'
  <2>1. ASSUME NEW i \in DOMAIN s
        PROVE  s[i] \in 1..lastId' /\ (Live(s[i])' => methods'[s[i]] = Chosen(p, p.ads[i]))
    <3>1. CASE i = k
      <4>1. s[i] = t /\ t \in 1..lastId'
        BY <1>1, <1>2, <1>3, <1>8, <3>1
      <4>2. methods'[t] = Chosen(post[q], post[q].ads[k])
        BY <1>1, <1>2 DEF TypeOK
      <4> QED
        BY <1>10, <3>1, <4>1, <4>2 DEF Chosen
    <3>2. CASE i # k
      <4>1. PICK a, b : a = post[q] /\ b = inserted[q]
        OBVIOUS
      <4>2. Sound(a, b)'
        BY <1>3, <1>5, <1>14, <4>1, SoundKept
      <4>3. i \in DOMAIN b /\ s[i] = b[i] /\ p.ads = a.ads /\ p.payment = a.payment
        BY <1>8, <1>10, <2>1, <3>2, <4>1
      <4>4. b[i] \in 1..lastId' /\ (Live(b[i])' => methods'[b[i]] = Chosen(a, a.ads[i]))
        BY <4>2, <4>3 DEF Sound
      <4> QED
        BY <4>3, <4>4 DEF Chosen, Live
    <3> QED
      BY <3>1, <3>2
  <2>2. Len(s) <= Len(p.ads)
    BY <1>5, <1>8, <1>10
  <2> QED
    BY <1>10, <2>1, <2>2 DEF Sound
<1>16. PostInv'
  <2>1. ASSUME NEW r \in Post, NEW a, NEW b, a = post'[r], b = inserted'[r]
        PROVE  Sound(a, b)'
    <3>1. CASE r = q
      <4>1. a = p /\ b = s
        BY <1>12, <2>1, <3>1 DEF TypeOK
      <4> QED
        BY <1>15, <4>1 DEF Sound
    <3>2. CASE r # q
      <4>1. a = post[r] /\ b = inserted[r]
        BY <1>12, <2>1, <3>2 DEF TypeOK
      <4>2. Sound(a, b)
        BY <4>1 DEF PostInv
      <4> QED
        BY <1>3, <1>14, <4>2, SoundKept
    <3> QED
      BY <3>1, <3>2
  <2> QED
    BY <2>1 DEF PostInv
<1>17. RowInv'
  BY <1>1, <1>2, <1>3, <1>4 DEF RowInv
<1>18. DeletedOnce'
  <2>1. ASSUME NEW u \in Id PROVE gone[u] <= (IF u <= lastId + 1 /\ u \notin ToSet(rows') THEN 1 ELSE 0)
    <3>1. gone[u] <= (IF u <= lastId /\ u \notin ToSet(rows) THEN 1 ELSE 0) /\ gone[u] \in Nat
      BY DEF DeletedOnce, Live, TypeOK
    <3>2. u \in Nat
      BY NumberAssumption DEF Id
    <3>3. CASE u = t
      BY <1>2, <1>3, <1>4, <3>1, <3>2, <3>3
    <3>4. CASE u # t
      BY <1>2, <1>3, <1>4, <3>1, <3>2, <3>4
    <3> QED
      BY <3>3, <3>4
  <2> QED
    BY <1>1, <2>1 DEF DeletedOnce, Live
<1> QED
  BY <1>13, <1>16, <1>17, <1>18

(* The other changes of the table leave the POSTs alone.                   *)
LEMMA TableKeeps ==
    ASSUME TypeOK, PostInv, RowInv,
           rows' \in Seq(Id), IsInjective(rows'), methods' \in [Id -> SUBSET Method],
           Kept, Disturb, RowInv', UNCHANGED <<lastId, post, walk, inserted>>,
           del' \in [Delete -> 0..MaxId], gone' \in [Id -> Nat], moves' \in 0..MaxMoves
    PROVE  TypeOK' /\ PostInv'
<1>1. TypeOK'
  BY Disturbed DEF TypeOK
<1>2. lastId \in Nat /\ lastId' = lastId
  BY NumberAssumption DEF TypeOK
<1>3. ASSUME NEW r \in Post, NEW a, NEW b, a = post'[r], b = inserted'[r]
      PROVE  Sound(a, b)'
  <2>1. Sound(a, b)
    BY <1>3 DEF PostInv
  <2> QED
    BY <1>2, <2>1, SoundKept
<1> QED
  BY <1>1, <1>3 DEF PostInv

(* The row is deleted once, and its id is not given again.                 *)
LEMMA DeleteKeeps ==
    ASSUME TypeOK, PostInv, RowInv, DeletedOnce, NEW d \in Delete, DeleteRow(d), Live(del[d])
    PROVE  TypeOK' /\ PostInv' /\ RowInv' /\ DeletedOnce' /\ Shifted(rows, rows') /\ Disturb
<1>1. PICK t \in ToSet(rows) : t = del[d]
  BY DEF Live
<1>2. /\ rows' = RemoveFirst(rows, t)
      /\ methods' = [methods EXCEPT ![t] = {}]
      /\ gone' = [gone EXCEPT ![t] = @ + 1]
      /\ Disturb
      /\ del' = [del EXCEPT ![d] = 0]
      /\ UNCHANGED <<lastId, post, walk, inserted, moves>>
  BY <1>1 DEF DeleteRow, ReportDeleted
<1>3. lastId \in 0..MaxId /\ MaxId \in Nat /\ t \in 1..lastId
  BY NumberAssumption DEF TypeOK, RowInv
<1>4. t \in Id /\ lastId \in Nat
  BY <1>3 DEF Id
<1>5. /\ rows' \in Seq(Id) /\ IsInjective(rows') /\ ToSet(rows') = ToSet(rows) \ {t}
      /\ Shifted(rows, rows')
  BY <1>2, RemoveRow DEF TypeOK
<1>6. /\ methods' \in [Id -> SUBSET Method] /\ gone' \in [Id -> Nat]
      /\ del' \in [Delete -> 0..MaxId]
  <2>1. 0 \in 0..MaxId
    BY <1>3
  <2> QED
    BY <1>2, <1>4, <2>1 DEF TypeOK
<1>7. Kept
  <2>1. ASSUME NEW u \in 1..lastId, u \in ToSet(rows')
        PROVE  u \in ToSet(rows) /\ methods'[u] = methods[u]
    <3>1. u # t
      BY <1>5, <2>1
    <3> QED
      BY <1>2, <1>5, <2>1, <3>1 DEF TypeOK
  <2> QED
    BY <1>2, <1>4, <2>1 DEF Kept, Live
<1>8. RowInv'
  BY <1>2, <1>5 DEF RowInv
<1>9. DeletedOnce'
  <2>1. ASSUME NEW u \in Id
        PROVE  gone'[u] <= (IF u <= lastId /\ u \notin ToSet(rows') THEN 1 ELSE 0)
    <3>1. gone[u] <= (IF u <= lastId /\ u \notin ToSet(rows) THEN 1 ELSE 0) /\ gone[u] \in Nat
      BY DEF DeletedOnce, Live, TypeOK
    <3>2. CASE u = t
      <4>1. gone'[u] = gone[u] + 1 /\ u <= lastId /\ u \notin ToSet(rows')
        BY <1>2, <1>3, <1>4, <1>5, <3>2 DEF TypeOK
      <4>2. gone[u] = 0
        BY <3>1, <3>2
      <4> QED
        BY <4>1, <4>2
    <3>3. CASE u # t
      <4>1. gone'[u] = gone[u]
        BY <1>2, <3>3 DEF TypeOK
      <4> QED
        BY <1>5, <3>1, <3>3, <4>1
    <3> QED
      BY <3>2, <3>3
  <2> QED
    BY <1>2, <2>1 DEF DeletedOnce, Live
<1>10. moves' \in 0..MaxMoves
  BY <1>2 DEF TypeOK
<1>11. TypeOK' /\ PostInv'
  BY <1>2, <1>5, <1>6, <1>7, <1>8, <1>10, TableKeeps
<1> QED
  BY <1>2, <1>5, <1>8, <1>9, <1>11

LEMMA MoveKeeps ==
    ASSUME TypeOK, PostInv, RowInv, DeletedOnce, MoveRow
    PROVE  TypeOK' /\ PostInv' /\ RowInv' /\ DeletedOnce' /\ Shifted(rows, rows') /\ Disturb
<1>1. PICK t \in ToSet(rows) : Place(t)
  BY DEF MoveRow
<1>2. t \in Id
  <2>1. \A s \in Seq(Id) : ToSet(s) \subseteq Id
    BY LenProperties DEF ToSet
  <2> QED
    BY <1>1, <2>1 DEF TypeOK
<1>3. /\ rows' \in Seq(Id) /\ IsInjective(rows') /\ ToSet(rows') = ToSet(rows)
      /\ Shifted(rows, rows')
  <2>1. /\ rows' \in Seq(Id) /\ IsInjective(rows') /\ ToSet(rows') = ToSet(rows) \cup {t}
        /\ Shifted(rows, rows')
    BY <1>1, <1>2, PlaceFacts DEF TypeOK
  <2> QED
    BY <1>1, <2>1
<1>4. Disturb /\ UNCHANGED <<methods, lastId, post, del, walk, inserted, gone>>
  BY DEF MoveRow
<1>5. moves' \in 0..MaxMoves
  BY NumberAssumption DEF MoveRow, TypeOK
<1>6. Kept
  BY <1>3, <1>4 DEF Kept, Live, TypeOK
<1>7. RowInv' /\ DeletedOnce'
  BY <1>3, <1>4 DEF RowInv, DeletedOnce, Live
<1>8. TypeOK' /\ PostInv'
  BY <1>3, <1>4, <1>5, <1>6, <1>7, TableKeeps DEF TypeOK
<1> QED
  BY <1>3, <1>4, <1>7, <1>8

-----------------------------------------------------------------------------
(* A client on its way through the pages.  Every change of the table since *)
(* the walk began hides at most one of the trackers that are in the places *)
(* it has passed, and brings at most one it has seen behind them.          *)

Offset == (walk.page - 1) * walk.limit
Missed == (always \cap Upto(rows, Offset)) \ ToSet(walk.seen)
Ahead == ToSet(walk.seen) \cap Beyond(rows, Offset)

WalkInv ==
    walk.pc = "page" =>
        /\ walk.page # 0 /\ walk.limit # 0
        /\ always \subseteq ToSet(rows)
        /\ Cardinality(Missed) <= disturbed
        /\ Len(walk.seen) + Cardinality(Ahead) <= Cardinality(ToSet(walk.seen)) + disturbed
        /\ disturbed = 0 /\ walk.page # 1 => Offset < Len(rows)

(* Counting.                                                               *)
LEMMA OneMore ==
    ASSUME NEW X, NEW Y, IsFiniteSet(Y), NEW y, X \subseteq Y \cup {y}
    PROVE  /\ IsFiniteSet(X) /\ Cardinality(X) <= Cardinality(Y) + 1
           /\ Cardinality(X) \in Nat /\ Cardinality(Y) \in Nat
<1>1. List!IsFiniteSet(Y)
  BY SameSize
<1>2. List!IsFiniteSet(X) /\ List!Cardinality(X) <= List!Cardinality(Y) + 1
  BY <1>1, Assumed, List!OneMore
<1>3. IsFiniteSet(X) /\ Cardinality(X) <= Cardinality(Y) + 1
  BY <1>2, SameSize
<1> QED
  BY <1>3, FS_CardinalityType

LEMMA Passed ==
    ASSUME NEW A, IsFiniteSet(A), NEW D, IsFiniteSet(D), NEW B, NEW C,
           D \subseteq B, C \subseteq B, D \cap C = {}
    PROVE  Cardinality(D) + Cardinality((A \cup D) \cap C) + Cardinality(A)
             <= Cardinality(A \cup D) + Cardinality(A \cap B)
<1>1. List!IsFiniteSet(A) /\ List!IsFiniteSet(D)
  BY SameSize
<1>2. List!Cardinality(D) + List!Cardinality((A \cup D) \cap C) + List!Cardinality(A)
        <= List!Cardinality(A \cup D) + List!Cardinality(A \cap B)
  BY <1>1, Assumed, List!Passed
<1> QED
  BY <1>2, SameSize

(* A page between the places o and o + n.                                  *)
LEMMA PageFacts ==
    ASSUME NEW S, NEW s \in Seq(S), IsInjective(s), NEW o \in Nat, NEW n \in Nat \ {0},
           NEW c, List!IsPage(s, o, n, c)
    PROVE  /\ c \in Seq(S) /\ IsFiniteSet(ToSet(c)) /\ Cardinality(ToSet(c)) = Len(c)
           /\ Upto(s, o + n) \subseteq Upto(s, o) \cup ToSet(c)
           /\ ToSet(c) \subseteq Beyond(s, o)
           /\ ToSet(c) \cap Beyond(s, o + n) = {}
           /\ Beyond(s, o + n) \subseteq Beyond(s, o)
<1>1. List!IsInjective(s)
  BY SameSets
<1>2. /\ c \in Seq(S) /\ List!IsInjective(c)
      /\ List!Upto(s, o + n) \subseteq List!Upto(s, o) \cup List!ToSet(c)
      /\ List!ToSet(c) \subseteq List!Beyond(s, o)
      /\ List!ToSet(c) \cap List!Beyond(s, o + n) = {}
      /\ List!Beyond(s, o + n) \subseteq List!Beyond(s, o)
  BY <1>1, Assumed, List!PageFacts
<1>3. List!IsFiniteSet(List!ToSet(c)) /\ List!Cardinality(List!ToSet(c)) = Len(c)
  BY <1>2, Assumed, List!InjectiveLen
<1> QED
  BY <1>2, <1>3, SameSets, SameSize DEF Upto, Beyond

LEMMA JoinedFacts ==
    ASSUME NEW S, NEW a \in Seq(S), NEW c \in Seq(S)
    PROVE  /\ List!Joined(a, c) \in Seq(S) /\ Len(List!Joined(a, c)) = Len(a) + Len(c)
           /\ ToSet(List!Joined(a, c)) = ToSet(a) \cup ToSet(c)
<1>1. /\ List!Joined(a, c) \in Seq(S) /\ Len(List!Joined(a, c)) = Len(a) + Len(c)
      /\ List!ToSet(List!Joined(a, c)) = List!ToSet(a) \cup List!ToSet(c)
  BY Assumed, List!ConcatSet
<1> QED
  BY <1>1, SameSets

LEMMA PlacesFacts ==
    ASSUME NEW S, NEW s \in Seq(S), NEW k \in Nat
    PROVE  /\ k = 0 => Upto(s, k) = {}
           /\ Len(s) <= k => ToSet(s) \subseteq Upto(s, k)
<1>1. Len(s) \in Nat /\ DOMAIN s = 1..Len(s)
  BY LenProperties
<1>2. Upto(s, k) = {s[i] : i \in {j \in 1..Len(s) : j <= k}}
  BY <1>1 DEF Upto, List!Upto
<1>3. ASSUME k = 0 PROVE {j \in 1..Len(s) : j <= k} = {}
  BY <1>1, <1>3
<1>4. ASSUME Len(s) <= k PROVE {j \in 1..Len(s) : j <= k} = 1..Len(s)
  BY <1>1, <1>4
<1> QED
  BY <1>1, <1>2, <1>3, <1>4 DEF ToSet

(* What the invariant counts are numbers.                                  *)
LEMMA Finite ==
    ASSUME TypeOK
    PROVE  /\ walk.seen \in Seq(Id) /\ Len(walk.seen) \in Nat /\ disturbed \in Nat
           /\ walk.page \in Nat /\ walk.limit \in Nat
           /\ IsFiniteSet(ToSet(walk.seen)) /\ IsFiniteSet(always)
           /\ IsFiniteSet(Missed) /\ IsFiniteSet(Ahead)
           /\ Cardinality(ToSet(walk.seen)) \in Nat
           /\ Cardinality(Missed) \in Nat /\ Cardinality(Ahead) \in Nat
<1>1. /\ walk.seen \in Seq(Id) /\ Len(walk.seen) \in Nat /\ disturbed \in Nat
      /\ walk.page \in Nat /\ walk.limit \in Nat
  BY LenProperties DEF TypeOK, WalkState
<1>2. IsFiniteSet(ToSet(walk.seen)) /\ IsFiniteSet(always)
  <2>1. \A s \in Seq(Id) : ToSet(s) \in SUBSET Id
    BY LenProperties DEF ToSet
  <2>2. IsFiniteSet(Id)
    BY FS_Interval, NumberAssumption DEF Id
  <2> QED
    BY <1>1, <2>1, <2>2, FS_Subset DEF TypeOK
<1>3. Missed \in SUBSET always /\ Ahead \in SUBSET ToSet(walk.seen)
  BY DEF Missed, Ahead
<1>4. IsFiniteSet(Missed) /\ IsFiniteSet(Ahead)
  BY <1>2, <1>3, FS_Subset
<1> QED
  BY <1>1, <1>2, <1>4, FS_CardinalityType

LEMMA OffsetFacts ==
    ASSUME TypeOK, WalkInv, walk.pc = "page"
    PROVE  /\ Offset \in Nat /\ walk.page \in Nat \ {0} /\ walk.limit \in Nat \ {0}
           /\ walk.page * walk.limit = Offset + walk.limit
           /\ walk.page = 1 => Offset = 0
<1>1. walk.page \in Nat \ {0} /\ walk.limit \in Nat \ {0}
  BY Finite DEF WalkInv
<1>2. PICK p \in Nat \ {0}, l \in Nat \ {0} : p = walk.page /\ l = walk.limit
  BY <1>1
<1>3. (p - 1) * l \in Nat /\ p * l = (p - 1) * l + l
  BY <1>2
<1> QED
  BY <1>1, <1>2, <1>3 DEF Offset

(* A change of the table.                                                  *)
LEMMA DisturbKeeps ==
    ASSUME TypeOK, WalkInv, rows' \in Seq(Id), Shifted(rows, rows'), Disturb, UNCHANGED walk
    PROVE  WalkInv'
<1> SUFFICES ASSUME walk.pc = "page" PROVE WalkInv'
  BY DEF WalkInv
<1>1. disturbed' = disturbed + 1 /\ always' = always \cap ToSet(rows') /\ walk' = walk
  BY DEF Disturb
<1>2. PICK o \in Nat : o = Offset
  BY OffsetFacts
<1>3. PICK t : t = ToSet(walk.seen)
  OBVIOUS
<1>4. /\ Offset' = o /\ ToSet(walk.seen)' = t
      /\ Missed = (always \cap Upto(rows, o)) \ t
      /\ Missed' = (always' \cap Upto(rows', o)) \ t
      /\ Ahead = t \cap Beyond(rows, o)
      /\ Ahead' = t \cap Beyond(rows', o)
  BY <1>1, <1>2, <1>3 DEF Offset, Missed, Ahead
<1>5. (\E y : Missed' \subseteq Missed \cup {y}) /\ (\E y : Ahead' \subseteq Ahead \cup {y})
  <2>1. /\ \E y : Upto(rows', o) \subseteq Upto(rows, o) \cup {y}
        /\ \E y : Beyond(rows', o) \subseteq Beyond(rows, o) \cup {y}
    BY DEF Shifted
  <2> QED
    BY <1>1, <1>4, <2>1
<1>6. /\ Cardinality(Missed') <= Cardinality(Missed) + 1 /\ Cardinality(Missed') \in Nat
      /\ Cardinality(Ahead') <= Cardinality(Ahead) + 1 /\ Cardinality(Ahead') \in Nat
  BY <1>5, Finite, OneMore
<1>7. /\ Cardinality(Missed) <= disturbed
      /\ Len(walk.seen) + Cardinality(Ahead) <= Cardinality(t) + disturbed
  BY <1>3 DEF WalkInv
<1>8. /\ Len(walk.seen) \in Nat /\ disturbed \in Nat /\ Cardinality(t) \in Nat
      /\ Cardinality(Missed) \in Nat /\ Cardinality(Ahead) \in Nat
  BY <1>3, Finite
<1>9. /\ Cardinality(Missed') <= disturbed + 1
      /\ Len(walk.seen) + Cardinality(Ahead') <= Cardinality(t) + (disturbed + 1)
      /\ disturbed + 1 # 0
  <2>1. PICK x \in Nat, y \in Nat, m \in Nat, n \in Nat, u \in Nat, v \in Nat, w \in Nat :
               /\ x = Cardinality(Missed) /\ y = Cardinality(Ahead)
               /\ m = Cardinality(Missed') /\ n = Cardinality(Ahead')
               /\ u = Cardinality(t) /\ v = Len(walk.seen) /\ w = disturbed
    BY <1>6, <1>8
  <2>2. x <= w /\ v + y <= u + w /\ m <= x + 1 /\ n <= y + 1
    BY <1>6, <1>7, <2>1
  <2>3. m <= w + 1 /\ v + n <= u + (w + 1) /\ w + 1 # 0
    BY <2>2
  <2> QED
    BY <2>1, <2>3
<1>10. always' \subseteq ToSet(rows') /\ walk.page # 0 /\ walk.limit # 0
  BY <1>1 DEF WalkInv
<1> QED
  BY <1>1, <1>4, <1>9, <1>10 DEF WalkInv

(* A page is read: trackers that were ahead on it are there twice.         *)
LEMMA SeenFacts ==
    ASSUME TypeOK, WalkInv, walk.pc = "page", NEW next, next = walk.page * walk.limit
    PROVE  /\ next \in Nat /\ Seen \in Seq(Id) /\ Len(Seen) \in Nat
           /\ Cardinality(ToSet(Seen)) \in Nat
           /\ IsFiniteSet((always \cap Upto(rows, next)) \ ToSet(Seen))
           /\ Cardinality((always \cap Upto(rows, next)) \ ToSet(Seen)) <= disturbed
           /\ Cardinality(ToSet(Seen) \cap Beyond(rows, next)) \in Nat
           /\ Len(Seen) + Cardinality(ToSet(Seen) \cap Beyond(rows, next))
                <= Cardinality(ToSet(Seen)) + disturbed
<1>1. PICK o \in Nat, l \in Nat \ {0} : o = Offset /\ l = walk.limit /\ next = o + l
  BY OffsetFacts
<1>2. PICK c : c = Page(walk.page, walk.limit)
  OBVIOUS
<1>3. List!IsPage(rows, o, l, c)
  BY <1>1, <1>2, SameSets DEF List!IsPage, Page, Offset
<1>4. /\ c \in Seq(Id) /\ IsFiniteSet(ToSet(c)) /\ Cardinality(ToSet(c)) = Len(c)
      /\ Upto(rows, next) \subseteq Upto(rows, o) \cup ToSet(c)
      /\ ToSet(c) \subseteq Beyond(rows, o)
      /\ ToSet(c) \cap Beyond(rows, next) = {}
      /\ Beyond(rows, next) \subseteq Beyond(rows, o)
  <2>1. rows \in Seq(Id) /\ IsInjective(rows)
    BY DEF TypeOK
  <2> QED
    BY <1>1, <1>3, <2>1, PageFacts
<1>5. PICK s : s = walk.seen
  OBVIOUS
<1>6. /\ s \in Seq(Id) /\ Len(s) \in Nat /\ disturbed \in Nat
      /\ IsFiniteSet(ToSet(s)) /\ Cardinality(ToSet(s)) \in Nat
      /\ Missed = (always \cap Upto(rows, o)) \ ToSet(s)
      /\ Ahead = ToSet(s) \cap Beyond(rows, o)
      /\ IsFiniteSet(Missed) /\ Cardinality(Missed) \in Nat /\ Cardinality(Ahead) \in Nat
      /\ Cardinality(Missed) <= disturbed
      /\ Len(s) + Cardinality(Ahead) <= Cardinality(ToSet(s)) + disturbed
  BY <1>1, <1>5, Finite DEF Missed, Ahead, WalkInv
<1>7. PICK r : r = Seen
  OBVIOUS
<1>8. /\ r \in Seq(Id) /\ Len(r) = Len(s) + Len(c) /\ ToSet(r) = ToSet(s) \cup ToSet(c)
      /\ Len(c) \in Nat
  <2>1. r = List!Joined(s, c)
    BY <1>2, <1>5, <1>7 DEF Seen, List!Joined
  <2>2. r \in Seq(Id) /\ Len(r) = Len(s) + Len(c) /\ ToSet(r) = ToSet(s) \cup ToSet(c)
    <3>1. s \in Seq(Id) /\ c \in Seq(Id)
      BY <1>4, <1>6
    <3>2. /\ List!Joined(s, c) \in Seq(Id) /\ Len(List!Joined(s, c)) = Len(s) + Len(c)
          /\ ToSet(List!Joined(s, c)) = ToSet(s) \cup ToSet(c)
      BY <3>1, JoinedFacts
    <3> QED
      BY <2>1, <3>2
  <2>3. Len(c) \in Nat
    BY <1>4, LenProperties
  <2> QED
    BY <2>2, <2>3
<1>9. PICK A, D, B, C : /\ A = ToSet(s) /\ D = ToSet(c)
                        /\ B = Beyond(rows, o) /\ C = Beyond(rows, next)
  OBVIOUS
<1>10. /\ D \subseteq B /\ C \subseteq B /\ D \cap C = {} /\ ToSet(r) = A \cup D
       /\ IsFiniteSet(A) /\ Cardinality(A) \in Nat /\ IsFiniteSet(D) /\ Cardinality(D) = Len(c)
       /\ Ahead = A \cap B
  BY <1>4, <1>6, <1>8, <1>9
<1>11. /\ IsFiniteSet(A \cup D) /\ Cardinality(A \cup D) \in Nat
       /\ Cardinality((A \cup D) \cap C) \in Nat
  BY <1>10, FS_Union, FS_Intersection, FS_CardinalityType
<1>12. Len(c) + Cardinality((A \cup D) \cap C) + Cardinality(A)
         <= Cardinality(A \cup D) + Cardinality(Ahead)
  BY <1>10, Passed
<1>13. Len(r) + Cardinality((A \cup D) \cap C) <= Cardinality(A \cup D) + disturbed
  <2>1. PICK u \in Nat, v \in Nat, x \in Nat, y \in Nat, z \in Nat, w \in Nat :
               /\ u = Cardinality(A \cup D) /\ v = Cardinality(A)
               /\ x = Cardinality(Ahead) /\ y = Cardinality((A \cup D) \cap C)
               /\ z = Len(s) /\ w = Len(c)
    BY <1>6, <1>8, <1>10, <1>11
  <2>2. w + y + v <= u + x /\ z + x <= v + disturbed /\ disturbed \in Nat
    BY <1>6, <1>9, <1>12, <2>1
  <2>3. z + w + y <= u + disturbed
    BY <2>2
  <2> QED
    BY <1>8, <2>1, <2>3
<1>14. PICK M : M = (always \cap Upto(rows, next)) \ ToSet(r)
  OBVIOUS
<1>15. IsFiniteSet(M) /\ Cardinality(M) <= Cardinality(Missed)
  <2>1. M \in SUBSET Missed
    BY <1>4, <1>6, <1>8, <1>14
  <2> QED
    BY <1>6, <2>1, FS_Subset
<1>16. Cardinality(M) <= disturbed
  <2>1. PICK x \in Nat, y \in Nat : x = Cardinality(M) /\ y = Cardinality(Missed)
    BY <1>6, <1>15, FS_CardinalityType
  <2>2. x <= y /\ y <= disturbed /\ disturbed \in Nat
    BY <1>6, <1>15, <2>1
  <2> QED
    BY <2>1, <2>2
<1>17. next \in Nat /\ Len(r) \in Nat
  <2>1. next \in Nat
    BY <1>1
  <2>2. Len(r) = Len(s) + Len(c) /\ Len(s) \in Nat /\ Len(c) \in Nat
    BY <1>6, <1>8
  <2>3. Len(r) \in Nat
    BY ONLY <2>2
  <2> QED
    BY <2>1, <2>3
<1>18. /\ Cardinality(ToSet(r)) \in Nat
       /\ Cardinality(ToSet(r) \cap Beyond(rows, next)) \in Nat
       /\ Len(r) + Cardinality(ToSet(r) \cap Beyond(rows, next))
            <= Cardinality(ToSet(r)) + disturbed
  BY <1>9, <1>10, <1>11, <1>13
<1> QED
  BY <1>7, <1>8, <1>14, <1>15, <1>16, <1>17, <1>18

LEMMA PageKeeps ==
    ASSUME TypeOK, WalkInv, GetTrackers
    PROVE  WalkInv' /\ walk' \in WalkState /\ disturbed' \in Nat /\ always' \in SUBSET Id
<1>1. walk.pc = "page" /\ rows' = rows
  BY DEF GetTrackers, table
<1>2. PICK p \in Nat \ {0}, l \in Nat \ {0} : p = walk.page /\ l = walk.limit
  BY <1>1, OffsetFacts
<1>3. PICK next : next = p * l
  OBVIOUS
<1>4. /\ next \in Nat /\ Seen \in Seq(Id)
      /\ Cardinality((always \cap Upto(rows, next)) \ ToSet(Seen)) <= disturbed
      /\ Len(Seen) + Cardinality(ToSet(Seen) \cap Beyond(rows, next))
                <= Cardinality(ToSet(Seen)) + disturbed
  BY <1>1, <1>2, <1>3, SeenFacts
<1>5. CASE walk'.pc # "page"
  <2>1. walk' = [NoWalk EXCEPT !.pc = "missing"] \/ walk' = [NoWalk EXCEPT !.pc = "done"]
    BY <1>1, <1>2, <1>5 DEF GetTrackers, EndWalk, TypeOK, WalkState
  <2>2. disturbed' = 0 /\ always' = {}
    BY <1>1, <1>2, <1>5 DEF GetTrackers, EndWalk, TypeOK, WalkState
  <2>3. walk' \in WalkState
    <3>1. \A x \in {"missing", "done"} : [NoWalk EXCEPT !.pc = x] \in WalkState
      <4>1. <<>> \in Seq(Id) /\ 0 \in Nat
        OBVIOUS
      <4> QED
        BY <4>1 DEF NoWalk, WalkState
    <3> QED
      BY <2>1, <3>1
  <2> QED
    BY <1>5, <2>2, <2>3 DEF WalkInv
<1>6. CASE walk'.pc = "page"
  <2>1. /\ HasMore(p, l, Len(rows)) /\ walk' = [walk EXCEPT !.seen = Seen, !.page = p + 1]
        /\ disturbed' = disturbed /\ always' = always
    BY <1>1, <1>2, <1>6 DEF GetTrackers, EndWalk, NoWalk, watch
  <2>2. /\ walk'.page = p + 1 /\ walk'.limit = l /\ walk'.seen = Seen /\ walk' \in WalkState
    <3>1. PICK y \in Seq(Id) : y = Seen
      BY <1>4
    <3>2. walk \in WalkState /\ walk' = [walk EXCEPT !.seen = y, !.page = p + 1]
      BY <2>1, <3>1 DEF TypeOK
    <3>3. walk'.page = p + 1 /\ walk'.limit = walk.limit /\ walk'.seen = y /\ walk' \in WalkState
      <4>1. p + 1 \in Nat
        BY <1>2
      <4> QED
        BY <3>1, <3>2, <4>1 DEF WalkState
    <3> QED
      BY <1>2, <3>1, <3>3
  <2>3. Offset' = next
    BY <1>2, <1>3, <2>2 DEF Offset
  <2>4. next < Len(rows)
    BY <1>3, <2>1 DEF HasMore
  <2>5. PICK s : s = Seen
    OBVIOUS
  <2>6. /\ Missed' = (always \cap Upto(rows, next)) \ ToSet(s)
        /\ Ahead' = ToSet(s) \cap Beyond(rows, next)
        /\ walk'.seen = s
    BY <1>1, <2>1, <2>2, <2>3, <2>5 DEF Missed, Ahead
  <2>7. /\ Cardinality(Missed') <= disturbed
        /\ Len(s) + Cardinality(Ahead') <= Cardinality(ToSet(s)) + disturbed
    BY <1>4, <2>5, <2>6
  <2>8. always \subseteq ToSet(rows) /\ always \in SUBSET Id /\ disturbed \in Nat
    BY <1>1 DEF WalkInv, TypeOK
  <2>9. WalkInv'
    <3>1. walk'.page # 0 /\ walk'.limit # 0
      BY <1>2, <2>2
    <3> QED
      BY <1>1, <2>1, <2>3, <2>4, <2>6, <2>7, <2>8, <3>1 DEF WalkInv
  <2> QED
    BY <2>1, <2>2, <2>8, <2>9
<1> QED
  BY <1>5, <1>6

(* A walk begins on the first page.                                        *)
LEMMA WalkKeeps ==
    ASSUME TypeOK, WalkInv, BeginWalk
    PROVE  WalkInv' /\ walk' \in WalkState /\ disturbed' \in Nat /\ always' \in SUBSET Id
<1>1. PICK limit \in Limits :
             walk' = [pc |-> "page", page |-> 1, limit |-> LimitOf(limit), seen |-> <<>>]
  BY DEF BeginWalk, PageOf
<1>2. disturbed' = 0 /\ always' = ToSet(rows) /\ rows' = rows
  BY DEF BeginWalk, table
<1>3. PICK l \in Nat \ {0} : l = LimitOf(limit)
  BY NumberAssumption DEF LimitOf
<1>4. /\ walk'.pc = "page" /\ walk'.page = 1 /\ walk'.limit = l /\ walk'.seen = <<>>
      /\ walk' \in WalkState
  BY <1>1, <1>3 DEF WalkState
<1>5. ToSet(<<>>) = {} /\ Len(<<>>) = 0 /\ Cardinality({}) = 0
  BY FS_EmptySet DEF ToSet
<1>6. Offset' = 0
  BY <1>3, <1>4 DEF Offset
<1>7. Upto(rows, 0) = {}
  BY PlacesFacts DEF TypeOK
<1>8. Missed' = {} /\ Ahead' = {}
  BY <1>2, <1>4, <1>5, <1>6, <1>7 DEF Missed, Ahead
<1>9. always' \in SUBSET Id
  <2>1. \A s \in Seq(Id) : ToSet(s) \in SUBSET Id
    BY LenProperties DEF ToSet
  <2> QED
    BY <1>2, <2>1 DEF TypeOK
<1>10. WalkInv'
  <2>1. /\ Cardinality(Missed') = 0 /\ Cardinality(Ahead') = 0
        /\ Len(walk'.seen) = 0 /\ Cardinality(ToSet(walk'.seen)) = 0
    BY <1>4, <1>5, <1>8
  <2>2. /\ Cardinality(Missed') <= disturbed'
        /\ Len(walk'.seen) + Cardinality(Ahead') <= Cardinality(ToSet(walk'.seen)) + disturbed'
    BY <1>2, <2>1
  <2> QED
    BY <1>2, <1>3, <1>4, <2>2 DEF WalkInv
<1> QED
  BY <1>2, <1>4, <1>9, <1>10

-----------------------------------------------------------------------------

RequestInv == TypeOK /\ PostInv /\ RowInv /\ DeletedOnce /\ WalkInv

(* Steps that leave the trackers, and the requests that change them, alone.*)
LEMMA QuietKeeps ==
    ASSUME RequestInv, UNCHANGED <<rows, methods, lastId, post, inserted, gone, moves>>,
           del' \in [Delete -> 0..MaxId],
           WalkInv' /\ walk' \in WalkState /\ disturbed' \in Nat /\ always' \in SUBSET Id
    PROVE  RequestInv'
<1>1. TypeOK'
  BY DEF RequestInv, TypeOK
<1>2. PostInv'
  BY DEF RequestInv, PostInv, Sound, Live
<1>3. RowInv' /\ DeletedOnce'
  BY DEF RequestInv, RowInv, DeletedOnce, Live
<1> QED
  BY <1>1, <1>2, <1>3 DEF RequestInv

(* Steps that neither change the table nor read it.                        *)
LEMMA WalkSame ==
    ASSUME WalkInv, UNCHANGED <<rows, walk, watch>> PROVE WalkInv'
BY DEF WalkInv, watch, Offset, Missed, Ahead

LEMMA RequestInit == Init => RequestInv
<1> SUFFICES ASSUME Init PROVE RequestInv
  OBVIOUS
<1>1. <<>> \in Seq(Id) /\ IsInjective(<<>>) /\ ToSet(<<>>) = {} /\ Len(<<>>) = 0
      /\ DOMAIN <<>> = {} /\ 0 \in 0..MaxId /\ 0 \in 0..MaxMoves /\ 0 \in Nat
  BY NumberAssumption DEF IsInjective, ToSet
<1>2. NoPost \in PostState /\ NoWalk \in WalkState
  BY <1>1 DEF NoPost, NoWalk, PostState, WalkState, Answer
<1>3. TypeOK
  BY <1>1, <1>2 DEF Init, TypeOK
<1>4. PostInv
  BY <1>1 DEF Init, PostInv, Sound, NoPost
<1>5. RowInv /\ DeletedOnce
  BY <1>1 DEF Init, RowInv, DeletedOnce
<1>6. WalkInv
  BY DEF Init, NoWalk, WalkInv
<1> QED
  BY <1>3, <1>4, <1>5, <1>6 DEF RequestInv

LEMMA RequestNext == RequestInv /\ [Next]_vars => RequestInv'
<1> SUFFICES ASSUME RequestInv, [Next]_vars PROVE RequestInv'
  OBVIOUS
<1>1. TypeOK /\ PostInv /\ RowInv /\ DeletedOnce /\ WalkInv
  BY DEF RequestInv
<1>2. del \in [Delete -> 0..MaxId] /\ 0 \in 0..MaxId /\ lastId \in 0..MaxId /\ MaxId \in Nat
      /\ walk \in WalkState /\ disturbed \in Nat /\ always \in SUBSET Id
  BY <1>1, NumberAssumption DEF TypeOK
<1>3. ASSUME NEW q \in Post,
             BeginPost(q) \/ RefusePost(q) \/ FindAds(q) \/ CachedMethods(q) \/ NextAd(q)
                          \/ SaveFails(q)
      PROVE  RequestInv'
  <2>1. UNCHANGED <<rows, walk, watch>>
    BY <1>3 DEF BeginPost, RefusePost, FindAds, CachedMethods, NextAd, SaveFails, table
  <2>2. TypeOK' /\ PostInv' /\ RowInv' /\ DeletedOnce'
    BY <1>1, <1>3, PostKeeps
  <2>3. WalkInv'
    BY <1>1, <2>1, WalkSame
  <2> QED
    BY <2>2, <2>3 DEF RequestInv
<1>4. ASSUME NEW q \in Post, SaveTracker(q) PROVE RequestInv'
  <2>1. TypeOK' /\ PostInv' /\ RowInv' /\ DeletedOnce'
    BY <1>1, <1>4, SaveKeeps
  <2>2. Place(lastId + 1) /\ lastId + 1 \in Id /\ Disturb /\ UNCHANGED walk
    <3>1. PICK k : Creates(q, k)
      BY <1>1, <1>4, SaveIs
    <3> QED
      BY <3>1 DEF Creates
  <2>3. rows' \in Seq(Id) /\ Shifted(rows, rows')
    BY <1>1, <2>2, PlaceFacts DEF TypeOK
  <2>4. WalkInv'
    BY <1>1, <2>2, <2>3, DisturbKeeps
  <2> QED
    BY <2>1, <2>4 DEF RequestInv
<1>5. ASSUME NEW d \in Delete, BeginDelete(d) PROVE RequestInv'
  <2>1. del' \in [Delete -> 0..MaxId]
    BY <1>2, <1>5 DEF BeginDelete
  <2> QED
    BY <1>1, <1>2, <1>5, <2>1, QuietKeeps, WalkSame DEF BeginDelete, table, watch
<1>6. ASSUME NEW d \in Delete, DeleteRow(d) PROVE RequestInv'
  <2>1. CASE Live(del[d])
    <3>1. TypeOK' /\ PostInv' /\ RowInv' /\ DeletedOnce' /\ Shifted(rows, rows') /\ Disturb
      BY <1>1, <1>6, <2>1, DeleteKeeps
    <3>2. rows' \in Seq(Id) /\ UNCHANGED walk
      BY <1>6, <3>1 DEF DeleteRow, TypeOK
    <3>3. WalkInv'
      BY <1>1, <3>1, <3>2, DisturbKeeps
    <3> QED
      BY <3>1, <3>3 DEF RequestInv
  <2>2. CASE ~Live(del[d])
    <3>1. del' \in [Delete -> 0..MaxId]
      BY <1>2, <1>6 DEF DeleteRow
    <3> QED
      BY <1>1, <1>2, <1>6, <2>2, <3>1, QuietKeeps, WalkSame DEF DeleteRow, watch
  <2> QED
    BY <2>1, <2>2
<1>7. ASSUME NEW d \in Delete, DeleteFails(d) PROVE RequestInv'
  <2>1. del' \in [Delete -> 0..MaxId]
    BY <1>2, <1>7 DEF DeleteFails
  <2> QED
    BY <1>1, <1>2, <1>7, <2>1, QuietKeeps, WalkSame DEF DeleteFails, table, watch
<1>8. CASE MoveRow
  <2>1. TypeOK' /\ PostInv' /\ RowInv' /\ DeletedOnce' /\ Shifted(rows, rows') /\ Disturb
    BY <1>1, <1>8, MoveKeeps
  <2>2. rows' \in Seq(Id) /\ UNCHANGED walk
    BY <1>8, <2>1 DEF MoveRow, TypeOK
  <2>3. WalkInv'
    BY <1>1, <2>1, <2>2, DisturbKeeps
  <2> QED
    BY <2>1, <2>3 DEF RequestInv
<1>9. CASE BeginWalk
  BY <1>1, <1>2, <1>9, QuietKeeps, WalkKeeps DEF BeginWalk, table
<1>10. CASE GetTrackers
  BY <1>1, <1>2, <1>10, QuietKeeps, PageKeeps DEF GetTrackers, table
<1>11. CASE GetTrackersFails
  <2>1. walk' = [NoWalk EXCEPT !.pc = "empty"] /\ disturbed' = 0 /\ always' = {}
    BY <1>11 DEF GetTrackersFails, EndWalk
  <2>2. walk' \in WalkState /\ walk'.pc = "empty"
    <3>1. <<>> \in Seq(Id) /\ 0 \in Nat
      OBVIOUS
    <3> QED
      BY <2>1, <3>1 DEF NoWalk, WalkState
  <2>3. WalkInv'
    BY <2>2 DEF WalkInv
  <2> QED
    BY <1>2, <1>11, <2>1, <2>2, <2>3, QuietKeeps DEF GetTrackersFails, table
<1>12. CASE UNCHANGED vars
  BY <1>1, <1>2, <1>12, QuietKeeps, WalkSame DEF vars, table, watch
<1> QED
  BY <1>3, <1>4, <1>5, <1>6, <1>7, <1>8, <1>9, <1>10, <1>11, <1>12 DEF Next, PostStep, DeleteStep

LEMMA RequestInvariant == Spec => []RequestInv
BY RequestInit, RequestNext, PTL DEF Spec

(* Every variable has its type: the table holds every tracker once, under  *)
(* an id of the sequence.                                                  *)
THEOREM TypeCorrect == Spec => []TypeOK
<1>1. RequestInv => TypeOK
  BY DEF RequestInv
<1> QED
  BY <1>1, RequestInvariant, PTL

(* However many requests delete a tracker at the same time, at most one is *)
(* told that it did, and the tracker is gone for good.                     *)
THEOREM IsDeletedOnce == Spec => []DeletedOnce
<1>1. RequestInv => DeletedOnce
  BY DEF RequestInv
<1> QED
  BY <1>1, RequestInvariant, PTL

(* A POST that ends has created one tracker for each ad it has dealt with, *)
(* and every one of them that is still there has the methods of its ad.    *)
THEOREM OneTrackerForEachAd == Spec => OneTrackerPerAd
<1> DEFINE Ends(q) ==
      post[q].pc # "idle" /\ post'[q].pc = "idle" =>
        /\ inserted[q] = post[q].created
        /\ post'[q].answer = "created" => Len(inserted[q]) = Len(post[q].ads)
        /\ \A i \in DOMAIN inserted[q] :
             Live(inserted[q][i]) => methods[inserted[q][i]] = MethodsOf(q, post[q].ads[i])
<1>1. ASSUME RequestInv, [Next]_vars, NEW q \in Post, post[q].pc # "idle", post'[q].pc = "idle"
      PROVE  Ends(q)
  <2>1. PICK s, p : /\ s = inserted[q] /\ p = post[q] /\ Sound(p, s)
    BY <1>1 DEF RequestInv, PostInv
  <2>2. s = p.created
    BY <2>1 DEF Sound
  <2>3. ASSUME NEW i \in DOMAIN s, Live(s[i]) PROVE methods[s[i]] = MethodsOf(q, p.ads[i])
    BY <2>1, <2>3 DEF Sound, Chosen, MethodsOf
  <2>4. ASSUME post'[q].answer = "created" PROVE Len(s) = Len(p.ads)
    <3>1. post \in [Post -> PostState]
      BY <1>1 DEF RequestInv, TypeOK
    <3>2. ASSUME NEW r \in Post, NEW a \in Answer, EndPost(r, a) PROVE r = q /\ a = "created"
      <4>1. post' = [post EXCEPT ![r] = [NoPost EXCEPT !.answer = a]]
        BY <3>2 DEF EndPost
      <4>2. [NoPost EXCEPT !.answer = a].answer = a
        BY DEF NoPost
      <4> QED
        BY <1>1, <2>4, <3>1, <4>1, <4>2
    <3>3. ASSUME NEW r \in Post, NextAd(r) PROVE Len(s) = Len(p.ads)
      <4>1. CASE Len(post[r].created) = Len(post[r].ads)
        <5>1. r = q
          BY <3>2, <3>3, <4>1 DEF NextAd, Answer
        <5> QED
          BY <2>1, <2>2, <4>1, <5>1
      <4>2. CASE post' = [post EXCEPT ![r].pc = "save"]
        <5>1. post'[q].pc # "idle"
          BY <1>1, <3>1, <4>2 DEF PostState
        <5> QED
          BY <1>1, <5>1
      <4>3. CASE EndPost(r, "bad")
        BY <3>2, <4>3 DEF Answer
      <4> QED
        BY <3>3, <4>1, <4>2, <4>3 DEF NextAd
    <3>4. ASSUME NEW r \in Post,
                 RefusePost(r) \/ SaveFails(r) \/ (CachedMethods(r) /\ EndPost(r, "empty"))
          PROVE  FALSE
      BY <3>2, <3>4 DEF RefusePost, SaveFails, Answer
    <3>5. ASSUME NEW r \in Post,
                 BeginPost(r) \/ FindAds(r) \/ SaveTracker(r)
                    \/ (CachedMethods(r) /\ ~EndPost(r, "empty"))
          PROVE  FALSE
      <4>1. \E x : post' = [post EXCEPT ![r] = x] /\ x.pc \in {"ads", "methods", "loop"}
        <5>1. post[r] \in PostState
          BY <3>1
        <5>2. CASE BeginPost(r)
          <6>1. PICK payment : post' = [post EXCEPT ![r] = [NoPost EXCEPT !.pc = "ads",
                                                                           !.payment = payment]]
            BY <5>2 DEF BeginPost
          <6>2. [NoPost EXCEPT !.pc = "ads", !.payment = payment].pc = "ads"
            BY DEF NoPost
          <6> QED
            BY <6>1, <6>2
        <5>3. CASE FindAds(r)
          <6>1. PICK b \in Books : post' = [post EXCEPT ![r].pc = "methods", ![r].ads = b]
            BY <5>3 DEF FindAds
          <6>2. post' = [post EXCEPT ![r] = [post[r] EXCEPT !.pc = "methods", !.ads = b]]
            BY <6>1
          <6>3. [post[r] EXCEPT !.pc = "methods", !.ads = b].pc = "methods"
            BY <5>1 DEF PostState
          <6> QED
            BY <6>2, <6>3
        <5>4. CASE SaveTracker(r)
          <6>1. PICK l, k : post' = [post EXCEPT ![r].pc = "loop", ![r].created = l, ![r].id = k]
            BY <5>4 DEF SaveTracker
          <6>2. post' = [post EXCEPT ![r] = [post[r] EXCEPT !.pc = "loop", !.created = l, !.id = k]]
            BY <6>1
          <6>3. [post[r] EXCEPT !.pc = "loop", !.created = l, !.id = k].pc = "loop"
            BY <5>1 DEF PostState
          <6> QED
            BY <6>2, <6>3
        <5>5. CASE CachedMethods(r) /\ ~EndPost(r, "empty")
          <6>1. PICK known : post' = [post EXCEPT ![r].pc = "loop", ![r].known = known]
            BY <5>5 DEF CachedMethods
          <6>2. post' = [post EXCEPT ![r] = [post[r] EXCEPT !.pc = "loop", !.known = known]]
            BY <6>1
          <6>3. [post[r] EXCEPT !.pc = "loop", !.known = known].pc = "loop"
            BY <5>1 DEF PostState
          <6> QED
            BY <6>2, <6>3
        <5> QED
          BY <3>5, <5>2, <5>3, <5>4, <5>5
      <4> QED
        BY <1>1, <3>1, <4>1
    <3>6. CASE UNCHANGED post
      BY <1>1, <3>6
    <3> QED
      BY <1>1, <3>3, <3>4, <3>5, <3>6
      DEF Next, PostStep, DeleteStep, BeginDelete, DeleteRow, DeleteFails, MoveRow, BeginWalk,
          GetTrackers, GetTrackersFails, vars
  <2> QED
    BY <2>1, <2>2, <2>3, <2>4
<1>2. RequestInv /\ [Next]_vars => [\A q \in Post : Ends(q)]_vars
  BY <1>1
<1> QED
  BY <1>2, RequestInvariant, PTL DEF Spec, OneTrackerPerAd

(* What GetTrackers answers with.                                          *)
LEMMA Outcomes ==
    ASSUME TypeOK, GetTrackers
    PROVE  \/ walk'.pc = "page"
           \/ /\ walk'.pc = "missing"
              /\ rows # <<>> /\ (walk.page - 1) * walk.limit >= Len(rows)
           \/ walk'.pc = "done" /\ ~HasMore(walk.page, walk.limit, Len(rows))
<1>1. walk.pc = "page" /\ walk \in WalkState
  BY DEF GetTrackers, TypeOK
<1>2. ASSUME NEW l, EndWalk(l) PROVE walk'.pc = l
  BY <1>2 DEF EndWalk, NoWalk
<1>3. ASSUME NEW s, NEW n, walk' = [walk EXCEPT !.seen = s, !.page = n] PROVE walk'.pc = "page"
  BY <1>1, <1>3 DEF WalkState
<1>4. CASE rows # <<>> /\ (walk.page - 1) * walk.limit >= Len(rows)
  BY <1>2, <1>4 DEF GetTrackers
<1>5. CASE /\ ~(rows # <<>> /\ (walk.page - 1) * walk.limit >= Len(rows))
           /\ HasMore(walk.page, walk.limit, Len(rows))
  <2>1. walk' = [walk EXCEPT !.seen = Seen, !.page = walk.page + 1]
    BY <1>5 DEF GetTrackers
  <2> QED
    BY <1>3, <2>1
<1>6. CASE /\ ~(rows # <<>> /\ (walk.page - 1) * walk.limit >= Len(rows))
           /\ ~HasMore(walk.page, walk.limit, Len(rows))
  <2>1. EndWalk("done")
    BY <1>6 DEF GetTrackers
  <2> QED
    BY <1>2, <1>6, <2>1
<1> QED
  BY <1>4, <1>5, <1>6

(* Nobody changes the table: a client that follows hasMore gets every      *)
(* tracker once and is not sent to a missing page.  Every change in        *)
(* between hides or repeats at most one tracker.                           *)
THEOREM PagesAreComplete == Spec => PagesComplete
<1> DEFINE Complete ==
      walk.pc = "page" =>
        /\ walk'.pc = "done" =>
             /\ Cardinality(always \ ToSet(Seen)) <= disturbed
             /\ Len(Seen) <= Cardinality(ToSet(Seen)) + disturbed
        /\ walk'.pc = "missing" => disturbed > 0
<1>1. ASSUME RequestInv, GetTrackers PROVE Complete
  <2>1. TypeOK /\ WalkInv /\ walk.pc = "page"
    BY <1>1 DEF RequestInv, GetTrackers
  <2>2. PICK o \in Nat, l \in Nat \ {0}, p \in Nat \ {0} :
              /\ o = Offset /\ l = walk.limit /\ p = walk.page /\ p * l = o + l
              /\ o = (p - 1) * l /\ (p = 1 => o = 0)
    BY <2>1, OffsetFacts DEF Offset
  <2>3. Len(rows) \in Nat /\ rows \in Seq(Id) /\ disturbed \in Nat /\ always \subseteq ToSet(rows)
    BY <2>1, LenProperties DEF TypeOK, WalkInv
  <2>4. ASSUME walk'.pc = "missing" PROVE disturbed > 0
    <3>1. rows # <<>> /\ o >= Len(rows)
      BY <1>1, <2>1, <2>2, <2>4, Outcomes
    <3>2. disturbed = 0 /\ p # 1 => o < Len(rows)
      BY <2>1, <2>2 DEF WalkInv
    <3>3. Len(rows) # 0
      BY <2>3, <3>1, EmptySeq
    <3> QED
      BY <2>2, <2>3, <3>1, <3>2, <3>3
  <2>5. ASSUME walk'.pc = "done"
        PROVE  /\ Cardinality(always \ ToSet(Seen)) <= disturbed
               /\ Len(Seen) <= Cardinality(ToSet(Seen)) + disturbed
    <3>1. PICK next : next = walk.page * walk.limit
      OBVIOUS
    <3>2. ~HasMore(p, l, Len(rows))
      BY <1>1, <2>1, <2>2, <2>5, Outcomes
    <3>3. next \in Nat /\ Len(rows) <= next
      <4>1. next = p * l /\ next = o + l
        BY <2>2, <3>1
      <4>2. ~(next < Len(rows))
        BY <3>2, <4>1 DEF HasMore
      <4>3. next \in Nat
        BY ONLY <4>1, o \in Nat, l \in Nat \ {0}
      <4> QED
        BY ONLY <2>3, <4>2, <4>3
    <3>4. always \cap Upto(rows, next) = always
      BY <2>3, <3>3, PlacesFacts
    <3>5. PICK s : s = Seen
      OBVIOUS
    <3>6. /\ Len(s) \in Nat /\ Cardinality(ToSet(s)) \in Nat
          /\ Cardinality((always \cap Upto(rows, next)) \ ToSet(s)) <= disturbed
          /\ Cardinality(ToSet(s) \cap Beyond(rows, next)) \in Nat
          /\ Len(s) + Cardinality(ToSet(s) \cap Beyond(rows, next))
                <= Cardinality(ToSet(s)) + disturbed
      BY <2>1, <3>1, <3>5, SeenFacts
    <3>7. Len(s) <= Cardinality(ToSet(s)) + disturbed
      BY <2>3, <3>6
    <3> QED
      BY <3>4, <3>5, <3>6, <3>7
  <2> QED
    BY <2>4, <2>5
<1>2. ASSUME RequestInv, [Next]_vars, ~GetTrackers PROVE [Complete]_vars
  <2>1. CASE GetTrackersFails
    <3>1. walk'.pc = "empty"
      BY <2>1 DEF GetTrackersFails, EndWalk, NoWalk
    <3> QED
      BY <3>1
  <2>2. CASE BeginWalk
    BY <2>2 DEF BeginWalk
  <2>3. CASE walk' = walk
    BY <2>3
  <2>4. ASSUME NEW q \in Post, PostStep(q) PROVE walk' = walk
    BY <2>4 DEF PostStep, BeginPost, RefusePost, FindAds, CachedMethods, NextAd, SaveTracker,
                SaveFails
  <2>5. ASSUME NEW d \in Delete, DeleteStep(d) PROVE walk' = walk
    BY <2>5 DEF DeleteStep, BeginDelete, DeleteRow, DeleteFails
  <2>6. MoveRow \/ UNCHANGED vars => walk' = walk
    BY DEF MoveRow, vars
  <2> QED
    BY <1>2, <2>1, <2>2, <2>3, <2>4, <2>5, <2>6 DEF Next
<1>3. RequestInv /\ [Next]_vars => [Complete]_vars
  BY <1>1, <1>2
<1> QED
  BY <1>3, RequestInvariant, PTL DEF Spec, PagesComplete
=============================================================================
