---------------------------- MODULE AlertPipeline ----------------------------
(***************************************************************************)
(* The two halves of an alert put together: the observer, whose Notify     *)
(* publishes, and the way of what it publishes to Telegram.                *)
(*                                                                         *)
(* The steps of Observer and of Delivery are shared where one function of  *)
(* the code does both: a verdict that calls Notify is a publication, tried *)
(* on the observer's connection, or nothing at all; the observer starts    *)
(* and stops as one process (main of cmd/observer).  All other steps are   *)
(* of one half only.  Notify returns nothing, so the observer takes its    *)
(* step in the same way whether the alert is routed or lost, or given up   *)
(* for a failed statement, a used up quota or a missing chat.              *)
(*                                                                         *)
(* Trackers have one slot each (one payment method, or is_aggregated), and *)
(* no PATCH is under way: NoRepeatedNotify says the same of the observer   *)
(* alone, and a PATCH is known to lose flags (ConfirmedSettingKept).       *)
(***************************************************************************)
EXTENDS Observer

CONSTANTS
    MaxQueues,    \* see Delivery
    MaxTried,
    MaxEpisode,   \* bound on the episodes of a tracker
    MaxAllowed    \* bound on the messages allowed of an episode

(* Every call is counted, so that `asks` tells when there is one.          *)
ASSUME EpisodeAssumption ==
    /\ {MaxQueues, MaxTried, MaxEpisode, MaxAllowed} \subseteq Nat
    /\ MaxEpisode * MaxAllowed <= AlertCap
ASSUME NoCopyAssumption == NoCopy \notin Tracker

(* What the pipeline is about.                                             *)
OneSlot ==
    /\ \A t \in Tracker : \E s \in Slot : Slots(t) = {s}
    /\ Request = {}

VARIABLES
    observer, bot, bound, queue, buffer, tried, sent, since, handled,
    allowed,      \* history: per tracker, messages that may come of each episode
    about         \* history: tracker and episode of each publication, by number

D == INSTANCE Delivery

delivery == <<observer, bot, bound, queue, buffer, tried, sent, since, handled>>
account == <<allowed, about>>

PipelineInit ==
    /\ Init
    /\ D!Init
    /\ allowed = [t \in Tracker |-> <<>>]
    /\ about = <<>>

-----------------------------------------------------------------------------
(* Bookkeeping of the two histories.                                       *)

Episode(t) == Len(allowed[t])

About(t, e) == {n \in DOMAIN about : about[n] = [tracker |-> t, episode |-> e]}

Published(t) == Cardinality(About(t, Episode(t)))

(* The worker has alerted about t and is to write the flag next.           *)
Recording(t) ==
    \/ At(t, "set")
    \/ At(t, "save") /\ t \in Aggregated /\ copy[MarketOf[t]].waiting

(* This step leaves a published alert without its flag: the statement      *)
(* failed, or the process stopped before it.                               *)
Forgets(t) ==
    /\ Recording(t) /\ ~Recording(t)'
    /\ Live(t)' /\ Flags(t)' = {}
    /\ Published(t) = allowed[t][Episode(t)]

Begins(t) == isOutbid[t] = {} /\ isOutbid'[t] # {}

Account ==
    /\ \A t \in Tracker : Begins(t) => Episode(t) < MaxEpisode
    /\ \A t \in Tracker : Forgets(t) => allowed[t][Episode(t)] < MaxAllowed
    /\ allowed' = [t \in Tracker |->
                     IF Begins(t) THEN Append(allowed[t], 1)
                     ELSE IF Forgets(t) THEN [allowed[t] EXCEPT ![Episode(t)] = @ + 1]
                     ELSE allowed[t]]

Note(t, e) == about' = Append(about, [tracker |-> t, episode |-> e])

-----------------------------------------------------------------------------
(* This step calls Notify for tracker t, with its notifications on.        *)
Notifies(t) == \E s \in Slot : asks'[t][s] > asks[t][s]

(* A step of a worker, or of the rounds; it may publish when it notifies.  *)
Observe ==
    /\ observer # "down"
    /\ ObserverStep
    /\ Account
    /\ \/ \E t \in Tracker : /\ Notifies(t)
                             /\ D!Publish \/ D!PublishFails
                             /\ Note(t, Episode(t)')
       \/ UNCHANGED <<delivery, about>>

(* main of cmd/observer: the connection and Start's own text, then rounds. *)
StartProcess ==
    /\ D!StartObserver
    /\ IF round = "down" THEN Restart ELSE UNCHANGED vars
    /\ Note(NoCopy, 0)
    /\ UNCHANGED allowed

StopProcess ==
    /\ Crash
    /\ D!StopObserver
    /\ Account
    /\ UNCHANGED about

(* Requests of users and the bot, its queue and the broker.                *)
UseServer == UserStep /\ UNCHANGED <<delivery, account>>

Deliver ==
    /\ \/ D!StartBot \/ D!Consume \/ D!Push \/ D!Handle
       \/ D!CutBot \/ D!StopBot \/ D!RestartBroker
    /\ UNCHANGED <<vars, account>>

PipelineNext == Observe \/ StartProcess \/ StopProcess \/ UseServer \/ Deliver

PipelineSpec == PipelineInit /\ [][PipelineNext]_<<vars, delivery, account>>

-----------------------------------------------------------------------------

(* Of every time a tracker is outbid its owner gets one message at most,   *)
(* plus one for each alert whose flag was lost, and gets them in the order *)
(* of the episodes, over stops of the observer, the bot and the broker,    *)
(* failing statements and lost connections in any order.                   *)
Episodes(t) ==
    LET f[i \in 0..Len(sent)] ==
            IF i = 0 THEN <<>>
            ELSE IF about[sent[i]].tracker = t THEN Append(f[i-1], about[sent[i]].episode)
            ELSE f[i-1]
    IN  f[Len(sent)]

Promise == INSTANCE OutbidAlerts
               WITH outbid <- {t \in Tracker : isOutbid[t] # {}},
                    alerted <- [t \in Tracker |-> Episodes(t)]

OneMessagePerOutbid == Promise!Spec
=============================================================================
