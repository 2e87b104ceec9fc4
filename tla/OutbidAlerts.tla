---------------------------- MODULE OutbidAlerts ----------------------------
(***************************************************************************)
(* What the owner of a tracker is promised, from the verdicts of the       *)
(* observer to the messages in Telegram.  An episode of a tracker starts   *)
(* when it is found outbid and ends when it is found on top; the episodes  *)
(* of a tracker are numbered 1, 2, ...  Of every episode one message may   *)
(* come, one more for each time an alert was forgotten (its flag was lost  *)
(* with a stop or a failed statement), and messages come in the order of   *)
(* their episodes.  Any message may be lost, or come late.                 *)
(***************************************************************************)
EXTENDS Naturals, Sequences, FiniteSets

CONSTANT Tracker

VARIABLES
    outbid,    \* trackers last found outbid
    allowed,   \* of each tracker, the messages that may come of each episode
    alerted    \* of each tracker, the episodes of the messages that came

vars == <<outbid, allowed, alerted>>

Init ==
    /\ outbid = {}
    /\ allowed = [t \in Tracker |-> <<>>]
    /\ alerted = [t \in Tracker |-> <<>>]

FoundOutbid(t) ==
    /\ t \notin outbid
    /\ outbid' = outbid \cup {t}
    /\ allowed' = [allowed EXCEPT ![t] = Append(@, 1)]
    /\ UNCHANGED alerted

(* Also the end of a tracker that is deleted.                              *)
FoundOnTop(t) ==
    /\ outbid' = outbid \ {t}
    /\ UNCHANGED <<allowed, alerted>>

(* Several trackers at once: a stop of the observer has several workers.   *)
Forget(S) ==
    /\ S \subseteq outbid
    /\ allowed' = [t \in Tracker |->
                     IF t \in S THEN [allowed[t] EXCEPT ![Len(allowed[t])] = @ + 1]
                                ELSE allowed[t]]
    /\ UNCHANGED <<outbid, alerted>>

Came(t, e) == Cardinality({i \in DOMAIN alerted[t] : alerted[t][i] = e})

Tell(t) ==
    \E e \in DOMAIN allowed[t] :
        /\ Came(t, e) < allowed[t][e]
        /\ \A i \in DOMAIN alerted[t] : alerted[t][i] <= e
        /\ alerted' = [alerted EXCEPT ![t] = Append(@, e)]
        /\ UNCHANGED <<outbid, allowed>>

Next ==
    \/ \E t \in Tracker : FoundOutbid(t) \/ FoundOnTop(t) \/ Tell(t)
    \/ \E S \in SUBSET Tracker : Forget(S)

Spec == Init /\ [][Next]_vars
=============================================================================
