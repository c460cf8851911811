--------------------------- MODULE MCClientInbox ---------------------------
(* Small clients for TLC: one operation of one device. *)
EXTENDS ClientInbox

CONSTANTS o1, l1, h1
=============================================================================
