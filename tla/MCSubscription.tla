--------------------------- MODULE MCSubscription ---------------------------
(* Small instances of Subscription: the first order belongs to the user ann *)
(* and the second to bob.                                                   *)
EXTENDS Subscription

CONSTANTS ann, bob, o1, o2

MCOwner == [o \in Order |-> IF o = o1 \/ bob \notin User THEN ann ELSE bob]

(* A user who has never had a subscription, has an expired one, or one for *)
(* this month and the next.                                                *)
AnyRows == [User -> {None, 0, 2}]
=============================================================================
