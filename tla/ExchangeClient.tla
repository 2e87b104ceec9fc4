--------------------------- MODULE ExchangeClient ---------------------------
(***************************************************************************)
(* One call of GetAds or GetAdsByName of an exchange client                *)
(* (internal/services/binanceExchangeService.go and                        *)
(* bybitExchangeService.go): the pages of an order book, requested one     *)
(* after another until one is empty, each with a number of attempts.  The  *)
(* exchange is external: its book moves between any two requests.          *)
(*                                                                         *)
(* The clients differ in what becomes of a failure: Bybit's GetAds logs a  *)
(* field of the answer before it looks at the error, and panics when there *)
(* is no answer; so does its request when the body cannot be read.  Wrong  *)
(* arguments (a side that is neither BUY nor SELL) are left out: trackers  *)
(* are validated before they are stored.                                   *)
(***************************************************************************)
EXTENDS Naturals, Sequences, SequencesExt

CONSTANTS
    Ad,
    Mine,          \* the ads with the name given to GetAdsByName
    Client,        \* of "binance" and "bybit"
    Function,      \* of "GetAds" and "GetAdsByName"
    PageSize,      \* 10 (Rows) or 1000 (Size) in the code
    MaxRetries,    \* config.Exchange.MaxRetries
    MaxMoves       \* bound on the moves of the book during a call

ASSUME ClientAssumption ==
    /\ Client \subseteq {"binance", "bybit"}
    /\ Function \subseteq {"GetAds", "GetAdsByName"}
    /\ Mine \subseteq Ad /\ IsFiniteSet(Ad)
ASSUME NumberAssumption ==
    PageSize \in Nat \ {0} /\ MaxRetries \in Nat \ {0} /\ MaxMoves \in Nat

VARIABLES
    book,          \* the ads at the exchange, best first
    client, fun,   \* what is called
    pc,            \* of the call
    page, attempt, \* of the request
    out,           \* ads collected, and the result
    moves,         \* history: moves of the book since the call
    always         \* history: ads in the book ever since the call

callee == <<client, fun>>
call == <<callee, pc, page, attempt, out>>
history == <<moves, always>>
vars == <<book, call, history>>

(* An ad is in the book once.                                              *)
Book == {b \in BoundedSeq(Ad, Cardinality(Ad)) : IsInjective(b)}

TypeOK ==
    /\ book \in Book
    /\ client \in Client
    /\ fun \in Function
    /\ pc \in {"idle", "request", "done", "failed", "panicked"}
    /\ page \in Nat \ {0}
    /\ attempt \in 1..MaxRetries
    /\ out \in Seq(Ad)
    /\ moves \in 0..MaxMoves
    /\ always \in SUBSET Ad

Init ==
    /\ book \in Book
    /\ client \in Client
    /\ fun \in Function
    /\ pc = "idle"
    /\ page = 1
    /\ attempt = 1
    /\ out = <<>>
    /\ moves = 0
    /\ always = {}

-----------------------------------------------------------------------------
(* External: the book.                                                     *)

(* An ad is placed, or taken down; a new price is both.                    *)
Move ==
    /\ pc = "request"
    /\ moves < MaxMoves
    /\ moves' = moves + 1
    /\ \/ \E ad \in Ad \ ToSet(book), i \in 1..(Len(book) + 1) :
            book' = InsertAt(book, i, ad)
       \/ \E i \in DOMAIN book : book' = RemoveAt(book, i)
    /\ always' = always \cap ToSet(book')
    /\ UNCHANGED call

(* External: what is on a page; nothing beyond the last.                   *)
Content(b, p) == SubSeq(b, (p - 1) * PageSize + 1, Min({p * PageSize, Len(b)}))

-----------------------------------------------------------------------------

(* Variants named ...Mutant are plausible errors in the definition after   *)
(* them; no specification uses them, and each breaks a property.           *)

(* The page is counted before the first request.                           *)
CallMutant ==
    /\ pc = "idle"
    /\ pc' = "request"
    /\ page' = 2
    /\ attempt' = 1
    /\ out' = <<>>
    /\ moves' = 0
    /\ always' = ToSet(book)
    /\ UNCHANGED <<book, callee>>

Call ==
    /\ pc = "idle"
    /\ pc' = "request"
    /\ page' = 1
    /\ attempt' = 1
    /\ out' = <<>>
    /\ moves' = 0
    /\ always' = ToSet(book)
    /\ UNCHANGED <<book, callee>>

(* The loop over the ads of a page, after its first i iterations.          *)
Named(ads) ==
    LET f[i \in 0..Len(ads)] ==
            IF i = 0 THEN <<>>
            ELSE IF ads[i] \in Mine THEN Append(f[i-1], ads[i]) ELSE f[i-1]
    IN  f[Len(ads)]

(* GetAdsByName keeps the ads with the name it looks for.                  *)
Collected(ads) == IF fun = "GetAds" THEN ads ELSE Named(ads)

(* An error is returned, without the ads of earlier pages; GetAds of Bybit *)
(* does not get as far.                                                    *)
Fail ==
    /\ pc' = IF client = "bybit" /\ fun = "GetAds" THEN "panicked" ELSE "failed"
    /\ out' = <<>>
    /\ UNCHANGED <<page, attempt>>

(* The ads of a page replace those of the page before.                     *)
NextPageMutant(ads) ==
    /\ out' = Collected(ads)
    /\ page' = page + 1
    /\ attempt' = 1
    /\ UNCHANGED pc

(* A page with ads: its ads are collected, and the next one is requested.  *)
NextPage(ads) ==
    /\ out' = out \o Collected(ads)
    /\ page' = page + 1
    /\ attempt' = 1
    /\ UNCHANGED pc

(* An empty page ends the call, for GetAdsByName with an error when it has *)
(* found nothing.                                                          *)
LastPage ==
    /\ pc' = IF fun = "GetAdsByName" /\ out = <<>> THEN "failed" ELSE "done"
    /\ UNCHANGED <<page, attempt, out>>

Answer ==
    /\ pc = "request"
    /\ LET ads == Content(book, page) IN IF ads = <<>> THEN LastPage ELSE NextPage(ads)
    /\ UNCHANGED <<book, callee, history>>

(* One attempt too many, or attempts without end.                          *)
RetryMutant ==
    IF attempt <= MaxRetries
      THEN attempt' = attempt + 1 /\ UNCHANGED <<pc, page, out>>
      ELSE Fail
RetryForeverMutant ==
    /\ attempt' = (attempt % MaxRetries) + 1
    /\ UNCHANGED <<pc, page, out>>

(* After the last attempt there is an error, of its own or that of parsing *)
(* an empty body.                                                          *)
Retry ==
    IF attempt < MaxRetries
      THEN attempt' = attempt + 1 /\ UNCHANGED <<pc, page, out>>
      ELSE Fail

(* The status of the answer is not 200, or there is no answer.             *)
AttemptFails ==
    /\ pc = "request"
    /\ Retry
    /\ UNCHANGED <<book, callee, history>>

(* The body cannot be read: log.Panic in the client of Bybit.              *)
BodyFails ==
    /\ pc = "request"
    /\ \/ client = "binance" /\ Retry
       \/ /\ client = "bybit"
          /\ pc' = "panicked"
          /\ out' = <<>>
          /\ UNCHANGED <<page, attempt>>
    /\ UNCHANGED <<book, callee, history>>

(* The exchange answers that there is an error: no further attempt.        *)
ErrorAnswer ==
    /\ pc = "request"
    /\ Fail
    /\ UNCHANGED <<book, callee, history>>

-----------------------------------------------------------------------------

Step == Answer \/ AttemptFails \/ BodyFails \/ ErrorAnswer

Next == Call \/ Move \/ Step

Spec == Init /\ [][Next]_vars

(* Every request comes to an end (there is no timeout in the code: that    *)
(* the exchange answers or closes the connection is an assumption on it).  *)
FairSpec == Spec /\ WF_vars(Step)

-----------------------------------------------------------------------------

(* A call that returns while the book stood still returns exactly the book *)
(* (or the ads of the name), in its order: pages neither overlap nor leave *)
(* gaps, and attempts that failed leave nothing behind.                    *)
StillBookReturned == pc = "done" /\ moves = 0 => out = Collected(book)

(* One ad that is placed or taken down during the call costs at most one   *)
(* ad: per move, one is returned twice or left out.                        *)
MoveCostsOne ==
    pc = "done" =>
        LET wanted == IF fun = "GetAds" THEN always ELSE always \cap Mine IN
        /\ Cardinality(wanted \ ToSet(out)) <= moves
        /\ Len(out) <= Cardinality(ToSet(out)) + moves

(* A call ends, however the book moves and whatever fails.                 *)
CallEnds == (pc = "request") ~> (pc # "request")
=============================================================================
