------------------------------ MODULE Delivery ------------------------------
(***************************************************************************)
(* The way of an alert: Publish of the observer, a durable fanout exchange *)
(* of RabbitMQ, the queue of the bot, HandleNotification, Telegram         *)
(* (internal/rabbitmq/client.go, internal/bot/handlers.go and the main     *)
(* functions of the two processes).                                        *)
(*                                                                         *)
(* The bot declares a new queue, named by the broker, whenever it starts.  *)
(* Queues are durable and nobody deletes them: those of earlier starts     *)
(* stay bound and go on filling.  Messages are not persistent, publishers  *)
(* ask for no confirmation and consumers acknowledge nothing.  Neither     *)
(* process opens a connection again after it is lost.                      *)
(***************************************************************************)
EXTENDS Naturals, Sequences

CONSTANTS
    MaxQueues,    \* bound on the starts of the bot
    MaxTried      \* bound on the publications

ASSUME BoundAssumption == MaxQueues \in Nat /\ MaxTried \in Nat

VARIABLES
    observer,     \* "cut" when its connection to the broker is lost
    bot,          \* "deaf" when it runs but does not consume
    bound,        \* queues declared and bound so far; the last is the bot's
    queue,        \* messages of each queue at the broker
    buffer,       \* messages pushed to the bot and not handled yet
    tried,        \* publications tried so far
    sent,         \* history: numbers of the alerts sent to Telegram so far
    since,        \* history: messages routed since the bot's queue was bound
    handled       \* history: those of them the bot has handled

history == <<sent, since, handled>>
vars == <<observer, bot, bound, queue, buffer, tried, history>>

(* The text the observer publishes at its start is no alert.               *)
Message == [n: Nat \ {0}, alert: BOOLEAN]

TypeOK ==
    /\ observer \in {"down", "up", "cut"}
    /\ bot \in {"down", "bound", "consuming", "deaf"}
    /\ bound \in 0..MaxQueues
    /\ queue \in [1..MaxQueues -> Seq(Message)]
    /\ buffer \in Seq(Message)
    /\ tried \in Nat
    /\ sent \in Seq(Nat)
    /\ since \in SUBSET Nat
    /\ handled \in SUBSET Nat

Init ==
    /\ observer = "down"
    /\ bot = "down"
    /\ bound = 0
    /\ queue = [q \in 1..MaxQueues |-> <<>>]
    /\ buffer = <<>>
    /\ tried = 0
    /\ sent = <<>>
    /\ since = {}
    /\ handled = {}

-----------------------------------------------------------------------------
(* Variants named ...Mutant are plausible errors in the definition after   *)
(* them; no specification uses them, and each breaks a property.           *)

(* The exchange is a direct one, and only one queue gets the message.      *)
RouteMutant(msg) ==
    /\ queue' = [q \in 1..MaxQueues |->
                   IF q = 1 /\ q <= bound THEN Append(queue[q], msg) ELSE queue[q]]
    /\ since' = since \cup {msg.n}

(* External: the exchange copies a message to every queue bound to it.     *)
Route(msg) ==
    /\ queue' = [q \in 1..MaxQueues |->
                   IF q <= bound THEN Append(queue[q], msg) ELSE queue[q]]
    /\ since' = since \cup {msg.n}

Try == tried < MaxTried /\ tried' = tried + 1

(* The text is not numbered like the other messages.                       *)
StartObserverMutant ==
    /\ observer = "down"
    /\ observer' = "up"
    /\ Try
    /\ Route([n |-> 0, alert |-> FALSE])
    /\ UNCHANGED <<bot, bound, buffer, sent, handled>>

(* Start declares the exchange and publishes its text; errors of both are  *)
(* ignored, and leave a channel on which nothing can be published.         *)
StartObserver ==
    /\ observer = "down"
    /\ Try
    /\ \/ /\ observer' = "up"
          /\ Route([n |-> tried', alert |-> FALSE])
       \/ /\ observer' = "cut"
          /\ UNCHANGED <<queue, since>>
    /\ UNCHANGED <<bot, bound, buffer, sent, handled>>

(* Notify publishes an alert.                                              *)
Publish ==
    /\ observer = "up"
    /\ Try
    /\ Route([n |-> tried', alert |-> TRUE])
    /\ UNCHANGED <<observer, bot, bound, buffer, sent, handled>>

(* The alert is lost with the connection, or finds it lost; an error is    *)
(* logged, if there is one.                                                *)
PublishFails ==
    /\ observer \in {"up", "cut"}
    /\ Try
    /\ observer' = "cut"
    /\ UNCHANGED <<bot, bound, queue, buffer, history>>

StopObserver ==
    /\ observer # "down"
    /\ observer' = "down"
    /\ UNCHANGED <<bot, bound, queue, buffer, tried, history>>

-----------------------------------------------------------------------------

(* main declares the exchange and QueueBindNDeclare a queue; on an error   *)
(* the process exits.                                                      *)
StartBot ==
    /\ bot = "down"
    /\ bound < MaxQueues
    /\ bot' = "bound"
    /\ bound' = bound + 1
    /\ since' = {}
    /\ handled' = {}
    /\ UNCHANGED <<observer, queue, buffer, tried, sent>>

(* StartConsuming, the result of which main does not look at.              *)
Consume ==
    /\ bot = "bound"
    /\ bot' \in {"consuming", "deaf"}
    /\ UNCHANGED <<observer, bound, queue, buffer, tried, history>>

(* A message stays in the queue, as if it were to be acknowledged.         *)
PushMutant ==
    /\ bot = "consuming"
    /\ queue[bound] # <<>>
    /\ buffer' = Append(buffer, Head(queue[bound]))
    /\ UNCHANGED <<observer, bot, bound, queue, tried, history>>

(* External: the broker pushes a message and, with autoAck, forgets it.    *)
Push ==
    /\ bot = "consuming"
    /\ queue[bound] # <<>>
    /\ buffer' = Append(buffer, Head(queue[bound]))
    /\ queue' = [queue EXCEPT ![bound] = Tail(@)]
    /\ UNCHANGED <<observer, bot, bound, tried, history>>

(* The handler does not return from what it cannot parse.                  *)
HandleMutant ==
    /\ buffer # <<>>
    /\ Head(buffer).alert
    /\ buffer' = Tail(buffer)
    /\ handled' = handled \cup {Head(buffer).n}
    /\ sent' \in {sent, Append(sent, Head(buffer).n)}
    /\ UNCHANGED <<observer, bot, bound, queue, tried, since>>

(* HandleNotification: an alert is sent, once and whatever comes of it;    *)
(* what cannot be parsed is logged.                                        *)
Handle ==
    /\ buffer # <<>>
    /\ buffer' = Tail(buffer)
    /\ handled' = handled \cup {Head(buffer).n}
    /\ IF Head(buffer).alert
         THEN sent' \in {sent, Append(sent, Head(buffer).n)}
         ELSE UNCHANGED sent
    /\ UNCHANGED <<observer, bot, bound, queue, tried, since>>

(* The channel is closed: the loop over its messages ends, the bot does    *)
(* not.  The client library drops what it has not handed out.              *)
CutBot ==
    /\ bot \in {"bound", "consuming"}
    /\ bot' = "deaf"
    /\ buffer' = <<>>
    /\ UNCHANGED <<observer, bound, queue, tried, history>>

StopBot ==
    /\ bot # "down"
    /\ bot' = "down"
    /\ buffer' = <<>>
    /\ UNCHANGED <<observer, bound, queue, tried, history>>

(* External: exchange and queues survive, their messages do not.           *)
RestartBroker ==
    /\ queue' = [q \in 1..MaxQueues |-> <<>>]
    /\ buffer' = <<>>
    /\ observer' = IF observer = "up" THEN "cut" ELSE observer
    /\ bot' = IF bot = "down" THEN "down" ELSE "deaf"
    /\ UNCHANGED <<bound, tried, history>>

-----------------------------------------------------------------------------

Next ==
    \/ StartObserver \/ Publish \/ PublishFails \/ StopObserver
    \/ StartBot \/ Consume \/ Push \/ Handle \/ CutBot \/ StopBot
    \/ RestartBroker

Spec == Init /\ [][Next]_vars

(* The broker pushes what it has, and calls of the Telegram API return.    *)
Fairness == WF_vars(Push) /\ WF_vars(Handle)

FairSpec == Spec /\ Fairness

-----------------------------------------------------------------------------

(* Every alert is sent at most once and in the order of publication, over  *)
(* stops of the bot, the observer and the broker in any order: the queues  *)
(* of earlier starts, which hold copies of alerts already sent, are never  *)
(* read again.                                                             *)
Channel == INSTANCE AlertChannel

InOrderAtMostOnce == Channel!Spec

(* While the bot consumes, no message published since its queue was bound  *)
(* is missing: it is in the queue, in the buffer, or was handled.          *)
Numbers(s) == {s[i].n : i \in DOMAIN s}

NothingOverlooked ==
    bot \in {"bound", "consuming"} =>
        since = handled \cup Numbers(buffer) \cup Numbers(queue[bound])

(* Every such message is handled, if the bot goes on consuming: what it    *)
(* cannot parse does not hold up what comes after it.                      *)
HandledEventually ==
    \A n \in 1..MaxTried :
        (bot = "consuming" /\ n \in since) ~> (n \in handled \/ bot # "consuming")
=============================================================================
