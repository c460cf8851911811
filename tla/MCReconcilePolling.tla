------------------------- MODULE MCReconcilePolling -------------------------
(* Three unresolved operations and a LIMIT of two instead of twenty. *)
EXTENDS ReconcilePolling

CONSTANTS o1, o2, o3
=============================================================================
