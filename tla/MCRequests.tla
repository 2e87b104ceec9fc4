----------------------------- MODULE MCRequests -----------------------------
(* A small instance of TrackerRequests.                                    *)
EXTENDS TrackerRequests, TLC

CONSTANTS cash, bank

(* A tracker for all methods, and one for a single method.                 *)
MCPayments == {{}, {cash}}

(* Two ads with different methods.                                         *)
MCBooks == {<<{cash}, {cash, bank}>>}

(* The cache knows all methods, or lacks one.                              *)
MCCaches == {{cash}, {cash, bank}}

(* Requests of a kind are interchangeable.                                 *)
Symmetry == Permutations(Delete)
=============================================================================
