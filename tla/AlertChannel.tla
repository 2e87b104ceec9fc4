---------------------------- MODULE AlertChannel ----------------------------
(***************************************************************************)
(* What a user can count on between Notify of the observer and Telegram:   *)
(* alerts arrive in the order in which they were published and none of     *)
(* them twice.  Any of them may be lost, and is then overtaken.            *)
(* Publications are numbered 1, 2, ... in the order they are tried.        *)
(***************************************************************************)
EXTENDS Naturals, Sequences

VARIABLES
    tried,     \* publications tried so far
    sent       \* numbers of the alerts sent to Telegram so far

Init == tried = 0 /\ sent = <<>>

Publish == tried' = tried + 1 /\ UNCHANGED sent

Send ==
    \E n \in 1..tried :
        /\ \A i \in DOMAIN sent : sent[i] < n
        /\ sent' = Append(sent, n)
        /\ UNCHANGED tried

Spec == Init /\ [][Publish \/ Send]_<<tried, sent>>
=============================================================================
