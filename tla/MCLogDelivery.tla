--------------------------- MODULE MCLogDelivery ---------------------------
(* An instance of LogDelivery for TLC. *)
EXTENDS LogDelivery
=============================================================================
