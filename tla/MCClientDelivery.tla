-------------------------- MODULE MCClientDelivery --------------------------
(* One or two results to deliver. *)
EXTENDS ClientDelivery

CONSTANTS o1, o2
=============================================================================
