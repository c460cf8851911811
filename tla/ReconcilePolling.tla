-------------------------- MODULE ReconcilePolling --------------------------
(***************************************************************************)
(* Which saved handles the dispatcher reads next: reconcilable() of        *)
(* broker_store.py and the part of step() in broker.py that starts reads.  *)
(*                                                                         *)
(* A row with a handle is in fresh until it is polled for the first time   *)
(* (polled_at IS NULL, in the order of updated_at) and in polled           *)
(* afterwards (in the order of polled_at).  polled_at is stamped on every  *)
(* row reconcilable() returns, whether or not step() starts a read for it. *)
(***************************************************************************)
EXTENDS Naturals, FiniteSets, Sequences, SequencesExt

CONSTANTS
    Op,      \* operations
    Batch,   \* the LIMIT of reconcilable(), 20 in the code
    Limit    \* max_concurrent_streams

ASSUME PollingValues == Batch \in Nat \ {0} /\ Limit \in Nat \ {0}

VARIABLES
    fresh,    \* rows never polled
    polled,   \* rows polled before
    streams,  \* operations whose stream still runs
    reads,    \* operations whose read still runs
    cancels,  \* operations whose cancel call still runs
    spent,    \* operations whose cancel call was made
    over      \* operations whose peer task is over

cancelVars == <<cancels, spent>>
vars == <<fresh, polled, streams, reads, cancelVars, over>>

Unresolved == ToSet(fresh \o polled)
Without(s, op) == SelectSeq(s, LAMBDA x : x # op)

\* save_handle: the stream of a running operation has its handle.
Arrives(op) ==
    /\ op \in streams
    /\ op \notin Unresolved
    /\ fresh' = Append(fresh, op)
    /\ UNCHANGED <<polled, streams, reads, cancelVars, over>>

\* The stream ends as outcome_unknown: updated_at moves.
StreamEnds(op) ==
    /\ op \in streams \cap Unresolved
    /\ streams' = streams \ {op}
    /\ fresh' = IF Contains(fresh, op) THEN Append(Without(fresh, op), op) ELSE fresh
    /\ UNCHANGED <<polled, reads, cancelVars, over>>

\* The stream delivers the end of the task itself.
StreamResolves(op) ==
    /\ op \in streams \cap Unresolved \cap over
    /\ streams' = streams \ {op}
    /\ fresh' = Without(fresh, op)
    /\ polled' = Without(polled, op)
    /\ UNCHANGED <<reads, cancelVars, over>>

\* The rows reconcilable() returns, and those behind them.
Rows == fresh \o polled
Selected == SubSeq(Rows, 1, IF Len(Rows) < Batch THEN Len(Rows) ELSE Batch)

Passed == SubSeq(polled, IF Len(Selected) > Len(fresh)
                         THEN Len(Selected) - Len(fresh) + 1 ELSE 1, Len(polled))

MutantRequeued == Selected \o Passed

\* polled_at of the selected rows is now, the latest of all.
Requeued == Passed \o Selected

\* The selected rows without a job, as many as there is room for.
Chosen ==
    LET idle == SelectSeq(Selected, LAMBDA op : op \notin streams \cup reads \cup cancels)
        room == Limit - Cardinality(reads)
    IN  ToSet(SubSeq(idle, 1, IF Len(idle) < room THEN Len(idle) ELSE room))

Poll ==
    /\ Cardinality(reads) < Limit
    /\ fresh' = SubSeq(fresh, Len(Selected) + 1, Len(fresh))
    /\ polled' = Requeued
    /\ reads' = reads \cup Chosen
    /\ UNCHANGED <<streams, cancelVars, over>>

\* The read fails, or the task is still at work: it is read again later.
ReadAgain(op) ==
    /\ op \in reads
    /\ reads' = reads \ {op}
    /\ UNCHANGED <<fresh, polled, streams, cancelVars, over>>

\* The read returns a finished task, which is observed.
ReadResolves(op) ==
    /\ op \in reads \cap over
    /\ reads' = reads \ {op}
    /\ fresh' = Without(fresh, op)
    /\ polled' = Without(polled, op)
    /\ UNCHANGED <<streams, cancelVars, over>>

\* cancel_intent moves updated_at; claim_cancel takes the row up, once.
CancelStarts(op) ==
    /\ op \in Unresolved
    /\ op \notin spent
    /\ Cardinality(cancels) < Limit
    /\ cancels' = cancels \cup {op}
    /\ spent' = spent \cup {op}
    /\ fresh' = IF Contains(fresh, op) THEN Append(Without(fresh, op), op) ELSE fresh
    /\ UNCHANGED <<polled, streams, reads, over>>

\* Its answer is lost or refused, or shows the task still at work.
CancelEnds(op) ==
    /\ op \in cancels
    /\ cancels' = cancels \ {op}
    /\ UNCHANGED <<fresh, polled, streams, reads, spent, over>>

\* Its answer shows the end of the task.
CancelResolves(op) ==
    /\ op \in cancels \cap over
    /\ cancels' = cancels \ {op}
    /\ fresh' = Without(fresh, op)
    /\ polled' = Without(polled, op)
    /\ UNCHANGED <<streams, reads, spent, over>>

PeerEnds(op) ==
    /\ op \notin over
    /\ over' = over \cup {op}
    /\ UNCHANGED <<fresh, polled, streams, reads, cancelVars>>

Init ==
    /\ fresh = <<>>
    /\ polled = <<>>
    /\ streams = Op
    /\ reads = {}
    /\ cancels = {} /\ spent = {}
    /\ over = {}

Next ==
    \/ Poll
    \/ \E op \in Op : \/ Arrives(op) \/ StreamEnds(op) \/ StreamResolves(op)
                      \/ ReadAgain(op) \/ ReadResolves(op)
                      \/ CancelStarts(op) \/ CancelEnds(op) \/ CancelResolves(op)
                      \/ PeerEnds(op)

(***************************************************************************)
(* Fairness.  step() polls again and again, a read or a cancel call is     *)
(* bounded by its timeout, and a task that is over is reported sooner or   *)
(* later if it is read again and again.  The peer need never end a task.   *)
(***************************************************************************)
Fairness ==
    /\ WF_vars(Poll)
    /\ \A op \in Op : /\ WF_vars(ReadAgain(op) \/ ReadResolves(op))
                      /\ WF_vars(CancelEnds(op) \/ CancelResolves(op))
                      /\ SF_vars(ReadResolves(op))

Spec == Init /\ [][Next]_vars /\ Fairness

-----------------------------------------------------------------------------
(* docs/client-server-contract.md: an unresolved operation is recovered    *)
(* "by saved remote task ID".  Once its stream is gone and the peer's task *)
(* is over, the dispatcher learns it.                                      *)
HandlesResolve ==
    \A op \in Op : (op \in over \cap Unresolved /\ op \notin streams)
                      ~> (op \notin Unresolved)
=============================================================================
