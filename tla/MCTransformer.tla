---------------------------- MODULE MCTransformer ----------------------------
(* TLC instance of Transformer. *)
EXTENDS Transformer
=============================================================================
