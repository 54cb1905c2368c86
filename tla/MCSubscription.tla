---------------------------- MODULE MCSubscription ----------------------------
(* A small instance of Subscription. *)
EXTENDS Subscription, TLC

Symmetry == Permutations(Requests) \cup Permutations(Hwids)
=============================================================================
