---------------------------- MODULE MCDispatcher ----------------------------
(* TLC instances of Dispatcher: one subscription name with overlapping and    *)
(* dying calls, two names with calls that finish.                             *)
EXTENDS Dispatcher

=============================================================================
