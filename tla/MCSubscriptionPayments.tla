----------------------- MODULE MCSubscriptionPayments -----------------------
(***************************************************************************)
(* Instances of SubscriptionPayments for TLC: the requests in progress are *)
(* interchangeable, which is sound for the safety runs.                    *)
(***************************************************************************)
EXTENDS SubscriptionPayments, TLC

RequestSymmetry == Permutations(Request)

=============================================================================
