------------------------------ MODULE MCStartUp ------------------------------
(* TLC instance of StartUp. *)
EXTENDS StartUp
=============================================================================
