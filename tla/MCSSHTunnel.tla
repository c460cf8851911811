---------------------------- MODULE MCSSHTunnel ----------------------------
(* Two process ids, so that a process can outlive its successor's spawn. *)
EXTENDS SSHTunnel

CONSTANTS p1, p2, r1
=============================================================================
