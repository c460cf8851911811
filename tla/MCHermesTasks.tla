--------------------------- MODULE MCHermesTasks ---------------------------
(* Two messages, in one context or in two. *)
EXTENDS HermesTasks

CONSTANTS t1, t2, c1, c2

\* Contexts are interchangeable: the first message can always be in c1.
MCContexts == [t \in Task |-> IF t = t1 THEN {c1} ELSE Context]

\* The first message is the one that is cancelled and watched.
MCBefore == [t \in Task |-> IF t = t1 THEN {} ELSE {t1}]
=============================================================================
