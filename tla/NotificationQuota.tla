-------------------------- MODULE NotificationQuota --------------------------
(***************************************************************************)
(* The second half of Notify (internal/tasks/observe.go): users without an *)
(* active subscription get a few alerts a week, counted in Redis under the *)
(* key notification:<user id>.  The workers of one round call Notify at    *)
(* the same time, also for the same user, and take GET, SET, publish and   *)
(* INCR as steps of their own; the key is removed by Redis when its time   *)
(* to live is over, at any moment.                                         *)
(*                                                                         *)
(* A call that returns before it looks at the key (no chat connected,      *)
(* notifications off, an error) changes nothing and is left out.           *)
(***************************************************************************)
EXTENDS Naturals, FiniteSets

CONSTANTS
    User,
    Worker,         \* goroutines that may be in Notify at the same time
    RedisFails,     \* whether a command to Redis may fail
    Expires,        \* whether a time to live may run out
    Crashes,        \* whether the observer may stop
    MaxCharged      \* bound on the alerts charged to a user within a week

ASSUME WorkerAssumption == IsFiniteSet(Worker)
ASSUME FlagAssumption == {RedisFails, Expires, Crashes} \subseteq BOOLEAN
ASSUME BoundAssumption == MaxCharged \in Nat

VARIABLES
    key,            \* count under the key of a user, 0 when there is no key
    ttl,            \* whether the key has a time to live
    subscribed,     \* whether the user has an active subscription
    pc, user,       \* of each worker
    published,      \* history: free alerts published since the key last expired
    lost,           \* history: those that Publish failed to, which are charged too
    unsent,         \* history: workers whose Publish failed and that go on to INCR
    disturbed       \* history: whether anything failed since it did, or it did during a call

alerts == <<published, lost, unsent>>
history == <<alerts, disturbed>>
vars == <<key, ttl, subscribed, pc, user, history>>

FreeAlerts == 3

(* Variants named ...Mutant are plausible errors in the definition after   *)
(* them; no specification uses them, and each breaks a property.           *)

(* One alert too many is allowed.                                          *)
BlockedMutant(u) == key[u] > FreeAlerts + 1

(* The value given to SET.                                                 *)
FirstCount == 1

(* c > 3 of Notify.                                                        *)
Blocked(u) == key[u] > FreeAlerts

(* Workers that have called Publish for u but not counted it yet.          *)
Uncounted(u) == {w \in Worker : pc[w] = "incr" /\ user[w] = u}

(* The alerts that the key of u is to count.                               *)
Charged(u) == published[u] + lost[u]

TypeOK ==
    /\ key \in [User -> Nat]
    /\ ttl \in [User -> BOOLEAN]
    /\ subscribed \in [User -> BOOLEAN]
    /\ pc \in [Worker -> {"idle", "get", "set", "publish", "incr"}]
    /\ user \in [Worker -> User]
    /\ published \in [User -> Nat]
    /\ lost \in [User -> Nat]
    /\ unsent \subseteq Worker
    /\ disturbed \in [User -> BOOLEAN]

Init ==
    /\ key = [u \in User |-> 0]
    /\ ttl = [u \in User |-> FALSE]
    /\ subscribed \in [User -> BOOLEAN]
    /\ pc = [w \in Worker |-> "idle"]
    /\ user \in [Worker -> User]
    /\ published = [u \in User |-> 0]
    /\ lost = [u \in User |-> 0]
    /\ unsent = {}
    /\ disturbed = [u \in User |-> FALSE]

-----------------------------------------------------------------------------

Goto(w, label) == pc' = [pc EXCEPT ![w] = label]

(* A subscriber's alerts are counted too.                                  *)
CallMutant(w, u) ==
    /\ pc[w] = "idle"
    /\ user' = [user EXCEPT ![w] = u]
    /\ IF subscribed[u]
         THEN key' = [key EXCEPT ![u] = @ + 1] /\ UNCHANGED pc
         ELSE Goto(w, "get") /\ UNCHANGED key
    /\ UNCHANGED <<ttl, subscribed, history>>

(* A tracker of u is outbid: subscription == nil or expired is decided     *)
(* here, once.  A subscriber's alert is published without any of the rest. *)
Call(w, u) ==
    /\ pc[w] = "idle"
    /\ user' = [user EXCEPT ![w] = u]
    /\ IF subscribed[u] THEN UNCHANGED pc ELSE Goto(w, "get")
    /\ UNCHANGED <<key, ttl, subscribed, history>>

Get(w) ==
    /\ pc[w] = "get"
    /\ Goto(w, IF key[user[w]] = 0 THEN "set"
               ELSE IF Blocked(user[w]) THEN "idle" ELSE "publish")
    /\ UNCHANGED <<key, ttl, subscribed, user, history>>

(* An error other than redis.Nil: no alert.                                *)
GetFails(w) ==
    /\ RedisFails
    /\ pc[w] = "get"
    /\ Goto(w, "idle")
    /\ UNCHANGED <<key, ttl, subscribed, user, history>>

(* SET without a time to live.                                             *)
SetMutant(w) ==
    /\ pc[w] = "set"
    /\ key' = [key EXCEPT ![user[w]] = FirstCount]
    /\ Goto(w, "publish")
    /\ UNCHANGED <<ttl, subscribed, user, history>>

(* SET 1 with a time to live of a week, whatever is there by now.          *)
Set(w) ==
    /\ pc[w] = "set"
    /\ key' = [key EXCEPT ![user[w]] = FirstCount]
    /\ ttl' = [ttl EXCEPT ![user[w]] = TRUE]
    /\ Goto(w, "publish")
    /\ UNCHANGED <<subscribed, user, history>>

(* The result of SET is not looked at.                                     *)
SetFails(w) ==
    /\ RedisFails
    /\ pc[w] = "set"
    /\ Goto(w, "publish")
    /\ disturbed' = [disturbed EXCEPT ![user[w]] = TRUE]
    /\ UNCHANGED <<key, ttl, subscribed, user, alerts>>

(* An error of Publish is logged: INCR follows all the same.               *)
Publish(w) ==
    /\ pc[w] = "publish"
    /\ Charged(user[w]) < MaxCharged
    /\ \/ /\ published' = [published EXCEPT ![user[w]] = @ + 1]
          /\ UNCHANGED <<lost, unsent>>
       \/ /\ lost' = [lost EXCEPT ![user[w]] = @ + 1]
          /\ unsent' = unsent \cup {w}
          /\ UNCHANGED published
    /\ Goto(w, "incr")
    /\ UNCHANGED <<key, ttl, subscribed, user, disturbed>>

(* DECR, as if the key held the alerts that are left.                      *)
IncrMutant(w) ==
    /\ pc[w] = "incr"
    /\ key' = [key EXCEPT ![user[w]] = @ - 1]
    /\ Goto(w, "idle")
    /\ UNCHANGED <<ttl, subscribed, user, history>>

(* INCR of a key that is gone makes a new one, without a time to live.     *)
Incr(w) ==
    /\ pc[w] = "incr"
    /\ key' = [key EXCEPT ![user[w]] = @ + 1]
    /\ Goto(w, "idle")
    /\ unsent' = unsent \ {w}
    /\ UNCHANGED <<ttl, subscribed, user, published, lost, disturbed>>

(* Neither is the result of INCR.                                          *)
IncrFails(w) ==
    /\ RedisFails
    /\ pc[w] = "incr"
    /\ Goto(w, "idle")
    /\ unsent' = unsent \ {w}
    /\ disturbed' = [disturbed EXCEPT ![user[w]] = TRUE]
    /\ UNCHANGED <<key, ttl, subscribed, user, published, lost>>

(* Redis drops the key.  Alerts that are still to be counted are charged   *)
(* to the key that their INCR is going to make.                            *)
Expire(u) ==
    /\ Expires
    /\ key[u] > 0
    /\ ttl[u]
    /\ key' = [key EXCEPT ![u] = 0]
    /\ ttl' = [ttl EXCEPT ![u] = FALSE]
    /\ published' = [published EXCEPT ![u] = Cardinality(Uncounted(u) \ unsent)]
    /\ lost' = [lost EXCEPT ![u] = Cardinality(Uncounted(u) \cap unsent)]
    /\ disturbed' = [disturbed EXCEPT ![u] = \E w \in Worker : pc[w] # "idle" /\ user[w] = u]
    /\ UNCHANGED <<subscribed, pc, user, unsent>>

(* A subscription begins or ends.                                          *)
ChangeSubscription(u) ==
    /\ subscribed' = [subscribed EXCEPT ![u] = ~@]
    /\ UNCHANGED <<key, ttl, pc, user, history>>

Crash ==
    /\ Crashes
    /\ pc' = [w \in Worker |-> "idle"]
    /\ unsent' = {}
    /\ disturbed' = [u \in User |-> TRUE]
    /\ UNCHANGED <<key, ttl, subscribed, user, published, lost>>

-----------------------------------------------------------------------------

NotifyStep(w) ==
    \/ Get(w) \/ GetFails(w) \/ Set(w) \/ SetFails(w)
    \/ Publish(w) \/ Incr(w) \/ IncrFails(w)

Next ==
    \/ \E w \in Worker : NotifyStep(w) \/ \E u \in User : Call(w, u)
    \/ \E u \in User : Expire(u) \/ ChangeSubscription(u)
    \/ Crash

Spec == Init /\ [][Next]_vars

(* A call of Notify comes to its end, and Redis expires what is due.       *)
Fairness ==
    /\ \A w \in Worker : WF_vars(NotifyStep(w))
    /\ \A u \in User : WF_vars(Expire(u))

FairSpec == Spec /\ Fairness

-----------------------------------------------------------------------------

(* Nobody is refused an alert before three were published or lost: no      *)
(* order of the SETs and INCRs of several workers, and no expiry between   *)
(* them, makes the count run ahead of the calls of Publish.  (Three lost   *)
(* ones do block a user who had none, as an error of Publish is charged.)  *)
BlockedOnlyAfterLimit == \A u \in User : Blocked(u) => published[u] + lost[u] >= FreeAlerts

(* Who has used up the free alerts gets new ones when the week is over,    *)
(* unless a command failed or the key expired during a call: INCR then     *)
(* makes a key that has no time to live, and the user is refused for ever. *)
BlockEnds == \A u \in User : Blocked(u) ~> (~Blocked(u) \/ disturbed[u])

(* How far several workers overrun the limit of three (see OnlyThreeAWeek) *)
(* in a week in which no command fails: each may start the count again     *)
(* once, with a SET decided before the key was there, and each may pass    *)
(* GET at the last count.  A single worker keeps the limit.                *)
OverrunBounded ==
    LET n == Cardinality(Worker) IN
    \A u \in User : ~disturbed[u] => Charged(u) <= FreeAlerts * n + (n * (n - 1)) \div 2

=============================================================================
