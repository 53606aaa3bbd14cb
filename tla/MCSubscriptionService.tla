------------------------ MODULE MCSubscriptionService ------------------------
(* TLC instance of SubscriptionService. *)
EXTENDS SubscriptionService, TLC

CONSTANTS h1, h2

HandlerSymmetry == Permutations(Handlers)
=============================================================================
