----------------------------- MODULE MCExpiry ------------------------------
(* Expiry on small instances. *)
EXTENDS Expiry

CONSTANTS c1, c2
=============================================================================
