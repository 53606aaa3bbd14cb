--------------------------- MODULE MCProvisioning ---------------------------
(* TLC instance of Provisioning. *)
EXTENDS Provisioning
=============================================================================
