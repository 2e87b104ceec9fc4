--------------------------- MODULE TrackerRequests ---------------------------
(***************************************************************************)
(* Requests on the trackers of one user (internal/handlers/tracker.go):    *)
(* POST creates a tracker for every ad found under a name, DELETE removes  *)
(* one, and GET shows them page by page.  Each is a number of statements   *)
(* on the database, and those of other requests fall in between, as do the *)
(* UPDATEs of the observer and of PATCH (see Observer for what they write).*)
(*                                                                         *)
(* The rows have the order in which a SELECT without ORDER BY finds them:  *)
(* an INSERT or an UPDATE places its version of the row anywhere.          *)
(*                                                                         *)
(* Routes of the private group are behind CheckJWT (internal/utils), which *)
(* does not look at what the handler returns: a request that ends with an  *)
(* error is answered "empty", with status 200.  Trackers of other users    *)
(* are left out: they are not selected, or refused with 403.               *)
(***************************************************************************)
EXTENDS Naturals, Sequences, SequencesExt

CONSTANTS
    Method,
    Payments,       \* lists of payment methods a POST may have; {} is none
    Books,          \* answers of GetAdsByName: sequences of ads, each the
                    \* set of its methods
    Caches,         \* sets of methods a client may have cached
    Post, Delete,   \* requests that can be under way at the same time
    Limits,         \* limits a client may ask for
    DefaultLimit,   \* 10 in the code
    MaxId,          \* bound on the trackers created
    MaxMoves,       \* bound on the UPDATEs of other requests
    DbFails         \* whether a statement may fail

ASSUME MethodAssumption ==
    /\ Payments \subseteq SUBSET Method
    /\ Books \subseteq Seq(SUBSET Method) \ {<<>>}
    /\ Caches \subseteq SUBSET Method
ASSUME NumberAssumption ==
    /\ Limits \subseteq Int
    /\ DefaultLimit \in Nat \ {0}
    /\ MaxId \in Nat /\ MaxMoves \in Nat
ASSUME FlagAssumption == DbFails \in BOOLEAN

VARIABLES
    rows,           \* ids of the trackers, in the order of the table
    methods,        \* the methods of a tracker
    lastId,         \* of the sequence trackers_id_seq
    post,           \* what each POST holds
    del,            \* the tracker each DELETE has loaded, or 0
    walk,           \* a client that follows hasMore from page to page
    inserted,       \* history: trackers the statements of a POST have created
    gone,           \* history: DELETEs of a tracker answered "Tracker deleted"
    moves,          \* history: UPDATEs of other requests
    disturbed,      \* history: changes of the table since the walk began
    always          \* history: trackers there since the walk began

table == <<rows, methods, lastId>>
watch == <<disturbed, always>>
vars == <<table, post, del, walk, inserted, gone, moves, watch>>

Id == 1..MaxId
Answer == {"none", "created", "bad", "missing", "empty"}
NoWalk == [pc |-> "idle", page |-> 0, limit |-> 0, seen |-> <<>>]
NoPost == [pc |-> "idle", payment |-> {}, ads |-> <<>>, known |-> {}, id |-> 0,
           created |-> <<>>, answer |-> "none"]

PostState ==
    [pc : {"idle", "ads", "methods", "loop", "save"}, payment : Payments \cup {{}},
     ads : Books \cup {<<>>}, known : Caches \cup {{}}, id : 0..MaxId,
     created : Seq(Id), answer : Answer]
WalkState ==
    [pc : {"idle", "page", "done", "missing", "empty"}, page : Nat, limit : Nat,
     seen : Seq(Id)]

TypeOK ==
    /\ rows \in Seq(Id) /\ IsInjective(rows)
    /\ methods \in [Id -> SUBSET Method]
    /\ lastId \in 0..MaxId
    /\ post \in [Post -> PostState]
    /\ inserted \in [Post -> Seq(Id)]
    /\ del \in [Delete -> 0..MaxId]
    /\ walk \in WalkState
    /\ gone \in [Id -> Nat]
    /\ moves \in 0..MaxMoves
    /\ disturbed \in Nat
    /\ always \in SUBSET Id

Init ==
    /\ rows = <<>>
    /\ methods = [t \in Id |-> {}]
    /\ lastId = 0
    /\ post = [q \in Post |-> NoPost]
    /\ del = [d \in Delete |-> 0]
    /\ walk = NoWalk
    /\ inserted = [q \in Post |-> <<>>]
    /\ gone = [t \in Id |-> 0]
    /\ moves = 0
    /\ disturbed = 0
    /\ always = {}

-----------------------------------------------------------------------------
(* Save of internal/db/repository/tracker.go, one transaction.             *)

(* Variants named ...Mutant are plausible errors in the definition after   *)
(* them; no specification uses them, and each breaks a property.           *)

Live(t) == t \in ToSet(rows)

(* The old version of the row is still found.                              *)
PlaceMutant(t) == rows' = Append(rows, t)

(* The version of the row it writes is placed anywhere.                    *)
Place(t) ==
    LET others == RemoveFirst(rows, t) IN
    \E i \in 1..(Len(others) + 1) : rows' = InsertAt(others, i, t)

(* The table changes under a client that walks through its pages.          *)
Disturb ==
    /\ disturbed' = IF walk.pc = "page" THEN disturbed + 1 ELSE disturbed
    /\ always' = always \cap ToSet(rows')

InsertTracker(q, pms) ==
    /\ lastId < MaxId
    /\ lastId' = lastId + 1
    /\ Place(lastId')
    /\ methods' = [methods EXCEPT ![lastId'] = pms]
    /\ inserted' = [inserted EXCEPT ![q] = Append(@, lastId')]

(* With an id that is not 0, the row that has it is overwritten.           *)
UpdateTracker(t, pms) ==
    /\ Live(t)
    /\ Place(t)
    /\ methods' = [methods EXCEPT ![t] = pms]
    /\ UNCHANGED <<lastId, inserted>>

-----------------------------------------------------------------------------
(* POST: CreateTracker.                                                    *)

BeginPost(q) ==
    /\ post[q].pc = "idle"
    /\ \E payment \in Payments :
         post' = [post EXCEPT ![q] = [NoPost EXCEPT !.pc = "ads", !.payment = payment]]
    /\ UNCHANGED <<table, del, walk, inserted, gone, moves, watch>>

EndPost(q, a) ==
    /\ post' = [post EXCEPT ![q] = [NoPost EXCEPT !.answer = a]]
    /\ inserted' = [inserted EXCEPT ![q] = <<>>]

(* The user or the body cannot be read, ValidateTracker refuses it, it     *)
(* names no known exchange, or GetAdsByName fails, as it does too when     *)
(* there are no ads.                                                       *)
RefusePost(q) ==
    /\ post[q].pc = "ads"
    /\ \E a \in {"bad", "missing", "empty"} : EndPost(q, a)
    /\ UNCHANGED <<table, del, walk, gone, moves, watch>>

(* GetAdsByName: the ads that take one of the methods of the request.      *)
FindAds(q) ==
    /\ post[q].pc = "ads"
    /\ \E b \in Books :
         /\ \A i \in DOMAIN b : post[q].payment = {} \/ b[i] \cap post[q].payment # {}
         /\ post' = [post EXCEPT ![q].pc = "methods", ![q].ads = b]
    /\ UNCHANGED <<table, del, walk, inserted, gone, moves, watch>>

(* GetCachedPaymentMethods, which may lack methods; see CurrencyCache.     *)
CachedMethods(q) ==
    /\ post[q].pc = "methods"
    /\ \/ \E known \in Caches :
            /\ post' = [post EXCEPT ![q].pc = "loop", ![q].known = known]
            /\ UNCHANGED inserted
       \/ EndPost(q, "empty")
    /\ UNCHANGED <<table, del, walk, gone, moves, watch>>

(* Without methods in the request the tracker gets all those of the ad.    *)
MethodsOf(q, ad) == IF post[q].payment = {} THEN ad ELSE post[q].payment
CurrentAd(q) == post[q].ads[Len(post[q].created) + 1]

(* One iteration: the names of the methods ...                             *)
NextAd(q) ==
    /\ post[q].pc = "loop"
    /\ IF Len(post[q].created) = Len(post[q].ads) THEN EndPost(q, "created")
       ELSE IF MethodsOf(q, CurrentAd(q)) \subseteq post[q].known
              THEN post' = [post EXCEPT ![q].pc = "save"] /\ UNCHANGED inserted
              ELSE EndPost(q, "bad")
    /\ UNCHANGED <<table, del, walk, gone, moves, watch>>

(* The id is not reset.                                                    *)
SaveTrackerMutant(q) ==
    LET pms == MethodsOf(q, CurrentAd(q))
        id  == post[q].id
    IN
    /\ post[q].pc = "save"
    /\ IF id = 0 THEN InsertTracker(q, pms) ELSE UpdateTracker(id, pms)
    /\ post' = [post EXCEPT ![q].pc = "loop",
                            ![q].created = Append(@, IF id = 0 THEN lastId' ELSE id),
                            ![q].id = IF id = 0 THEN lastId' ELSE id]
    /\ Disturb
    /\ UNCHANGED <<del, walk, gone, moves>>

(* ... and Save, after which the id is reset: the struct is used again.    *)
SaveTracker(q) ==
    LET pms == MethodsOf(q, CurrentAd(q))
        id  == post[q].id
    IN
    /\ post[q].pc = "save"
    /\ IF id = 0 THEN InsertTracker(q, pms) ELSE UpdateTracker(id, pms)
    /\ post' = [post EXCEPT ![q].pc = "loop",
                            ![q].created = Append(@, IF id = 0 THEN lastId' ELSE id),
                            ![q].id = 0]
    /\ Disturb
    /\ UNCHANGED <<del, walk, gone, moves>>

(* Save rolls back, and the trackers of the ads before it stay.            *)
SaveFails(q) ==
    /\ DbFails
    /\ post[q].pc = "save"
    /\ EndPost(q, "empty")
    /\ UNCHANGED <<table, del, walk, gone, moves, watch>>

-----------------------------------------------------------------------------
(* DELETE: DeleteTracker.                                                  *)

(* GetTrackerById.  A tracker that is missing, or a query that fails, ends *)
(* the request with 404.                                                   *)
BeginDelete(d) ==
    /\ del[d] = 0
    /\ \E t \in 1..lastId :
         \/ Live(t) /\ del' = [del EXCEPT ![d] = t]
         \/ (~Live(t) \/ DbFails) /\ UNCHANGED del
    /\ UNCHANGED <<table, post, walk, inserted, gone, moves, watch>>

(* The DELETE and the answer "Tracker deleted"; the row may be gone.       *)
ReportDeleted(d) ==
    LET t == del[d] IN
    /\ rows' = RemoveFirst(rows, t)
    /\ methods' = [methods EXCEPT ![t] = {}]
    /\ gone' = [gone EXCEPT ![t] = @ + 1]
    /\ Disturb

(* The number of rows is not looked at.                                    *)
DeleteRowMutant(d) ==
    /\ del[d] # 0
    /\ ReportDeleted(d)
    /\ del' = [del EXCEPT ![d] = 0]
    /\ UNCHANGED <<lastId, post, walk, inserted, moves>>

(* No row means the error "Tracker not found".                             *)
DeleteRow(d) ==
    /\ del[d] # 0
    /\ IF Live(del[d]) THEN ReportDeleted(d) ELSE UNCHANGED <<rows, methods, gone, watch>>
    /\ del' = [del EXCEPT ![d] = 0]
    /\ UNCHANGED <<lastId, post, walk, inserted, moves>>

DeleteFails(d) ==
    /\ DbFails
    /\ del[d] # 0
    /\ del' = [del EXCEPT ![d] = 0]
    /\ UNCHANGED <<table, post, walk, inserted, gone, moves, watch>>

(* UPDATE of a row by the observer or a PATCH.                             *)
MoveRow ==
    /\ moves < MaxMoves
    /\ moves' = moves + 1
    /\ \E t \in ToSet(rows) : Place(t)
    /\ Disturb
    /\ UNCHANGED <<methods, lastId, post, del, walk, inserted, gone>>

-----------------------------------------------------------------------------
(* GET: GetTrackers, for one page after another while hasMore is true.     *)

PageOf(query) == IF query < 1 THEN 1 ELSE query
LimitOf(query) == IF query < 1 THEN DefaultLimit ELSE query

BeginWalk ==
    /\ walk.pc # "page"
    /\ \E limit \in Limits :
         walk' = [pc |-> "page", page |-> PageOf(0), limit |-> LimitOf(limit), seen |-> <<>>]
    /\ disturbed' = 0
    /\ always' = ToSet(rows)
    /\ UNCHANGED <<table, post, del, inserted, gone, moves>>

(* The last page is taken for one with another after it; or pages are cut  *)
(* one row short.                                                          *)
HasMoreMutant(p, l, n) == p * l <= n
PageMutant(p, l) == SubSeq(rows, (p - 1) * l + 1, Min({p * l, Len(rows)}) - 1)

HasMore(p, l, n) == p * l < n
Page(p, l) == SubSeq(rows, (p - 1) * l + 1, Min({p * l, Len(rows)}))

(* What the client has seen with this page.                                *)
Seen == walk.seen \o Page(walk.page, walk.limit)

EndWalk(l) ==
    /\ walk' = [NoWalk EXCEPT !.pc = l]
    /\ disturbed' = 0
    /\ always' = {}

(* One SELECT gives all trackers (the SELECTs of their methods are left    *)
(* out).  No tracker at all is an empty page, but a page behind the last   *)
(* one is not found.                                                       *)
GetTrackers ==
    LET p == walk.page  l == walk.limit IN
    /\ walk.pc = "page"
    /\ IF rows # <<>> /\ (p - 1) * l >= Len(rows) THEN EndWalk("missing")
       ELSE IF HasMore(p, l, Len(rows))
              THEN walk' = [walk EXCEPT !.seen = Seen, !.page = p + 1] /\ UNCHANGED watch
              ELSE EndWalk("done")
    /\ UNCHANGED <<table, post, del, inserted, gone, moves>>

(* A SELECT fails.                                                         *)
GetTrackersFails ==
    /\ DbFails
    /\ walk.pc = "page"
    /\ EndWalk("empty")
    /\ UNCHANGED <<table, post, del, inserted, gone, moves>>

-----------------------------------------------------------------------------

PostStep(q) ==
    \/ BeginPost(q) \/ RefusePost(q) \/ FindAds(q) \/ CachedMethods(q)
    \/ NextAd(q) \/ SaveTracker(q) \/ SaveFails(q)

DeleteStep(d) == BeginDelete(d) \/ DeleteRow(d) \/ DeleteFails(d)

Next ==
    \/ \E q \in Post : PostStep(q)
    \/ \E d \in Delete : DeleteStep(d)
    \/ MoveRow \/ BeginWalk \/ GetTrackers \/ GetTrackersFails

Spec == Init /\ [][Next]_vars

-----------------------------------------------------------------------------

(* When a POST ends it has created one tracker for each of the ads it has  *)
(* dealt with, no two ads became the same row, and each has its methods    *)
(* unless it was deleted since: "created" means a tracker per ad, and any  *)
(* other answer leaves those of the ads before the one that failed.        *)
OneTrackerPerAd ==
    [][\A q \in Post :
         post[q].pc # "idle" /\ post'[q].pc = "idle" =>
           /\ inserted[q] = post[q].created
           /\ post'[q].answer = "created" => Len(inserted[q]) = Len(post[q].ads)
           /\ \A i \in DOMAIN inserted[q] :
                Live(inserted[q][i]) =>
                    methods[inserted[q][i]] = MethodsOf(q, post[q].ads[i])]_vars

(* At most one of several requests to delete a tracker is told that it     *)
(* did, and what was reported as deleted does not come back.               *)
DeletedOnce == \A t \in Id : gone[t] <= (IF t <= lastId /\ ~Live(t) THEN 1 ELSE 0)

(* A client that follows hasMore through a table nobody changes gets every *)
(* tracker once and is never sent to a page that is not there; every       *)
(* change in between hides or repeats one tracker at most.                 *)
PagesComplete ==
    [][walk.pc = "page" =>
         /\ walk'.pc = "done" =>
              /\ Cardinality(always \ ToSet(Seen)) <= disturbed
              /\ Len(Seen) <= Cardinality(ToSet(Seen)) + disturbed
         /\ walk'.pc = "missing" => disturbed > 0]_vars
=============================================================================
