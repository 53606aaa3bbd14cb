----------------------------- MODULE MCMessages -----------------------------
(* TLC instances of Messages. *)
EXTENDS Messages, TLC

=============================================================================
