--------------------------- MODULE ClientDelivery ---------------------------
(***************************************************************************)
(* How a result reaches the assistant: returned by the tool that waits for *)
(* it, or as a reference in the queue of the native thread.  The delivery  *)
(* column of the inbox (client_store.py), deliver_ready() and the tools    *)
(* (client.py), and the native queue behind native_delivery.py.            *)
(*                                                                         *)
(* deliver_ready() awaits the queue while the tools go on, and the daemon  *)
(* may die at any time; a request already written to the app server may    *)
(* still be executed after that.                                           *)
(***************************************************************************)
EXTENDS Naturals

CONSTANTS
    Op,          \* operations
    MaxSubmits,  \* bound: submit calls with the identity of one tool call
    MaxRestarts  \* bound: restarts of the daemon

ASSUME DeliveryValues == {MaxSubmits, MaxRestarts} \subseteq Nat

VARIABLES
    delivery,    \* delivery_state; "none" is no row
    known,       \* operations whose definitive snapshot is in the inbox
    expired,     \* operations pruned
    waiting,     \* submit calls in progress
    submits,     \* submit calls so far
    supported,   \* native_status
    job,         \* where deliver_ready is
    reconciled,  \* _unknown_reconciled
    sent,        \* requests written to the app server and not executed yet
    queued,      \* history: references added to the native queue
    shown,       \* history: tools that returned the result
    receipts,    \* client_receipts beyond "stored"
    restarts

inboxVars == <<delivery, known, expired, receipts>>
nativeVars == <<sent, queued>>
toolVars == <<waiting, submits, shown>>
vars == <<inboxVars, toolVars, supported, job, reconciled, nativeVars, restarts>>

DeliveryState == {"none", "inline_pending", "ready", "enqueueing", "queued", "unsupported",
                  "delivery_outcome_unknown", "inline_returned"}

NoJob == [at |-> "rest", op |-> "none"]

-----------------------------------------------------------------------------
(***************************************************************************)
(* The tools.                                                              *)
(***************************************************************************)
\* The first call creates the row, a repeated one finds it.
Submit(op) ==
    /\ submits[op] < MaxSubmits
    /\ submits' = [submits EXCEPT ![op] = @ + 1]
    /\ waiting' = [waiting EXCEPT ![op] = @ + 1]
    /\ delivery' = [delivery EXCEPT ![op] = IF @ = "none" THEN "inline_pending" ELSE @]
    /\ UNCHANGED <<known, expired, receipts, shown, supported, job, reconciled,
                   nativeVars, restarts>>

\* accept_snapshot of a definitive state.
ResultArrives(op) ==
    /\ delivery[op] # "none"
    /\ op \notin known
    /\ known' = known \cup {op}
    /\ UNCHANGED <<delivery, expired, receipts, toolVars, supported, job,
                   reconciled, nativeVars, restarts>>

\* An enqueue that was claimed is not undone by a pull.
Consumed(state) ==
    IF state \in {"inline_pending", "ready", "unsupported"} THEN "inline_returned" ELSE state

MutantReleased(state) == state

Released(state) == IF state = "inline_pending" THEN "ready" ELSE state

Visible(op) == op \in known \ expired

\* wait() ends, with the result or at its deadline, then release_inline.
SubmitReturns(op) ==
    /\ waiting[op] > 0
    /\ waiting' = [waiting EXCEPT ![op] = @ - 1]
    /\ \/ /\ Visible(op)
          /\ delivery' = [delivery EXCEPT ![op] = Released(Consumed(@))]
          /\ receipts' = receipts \cup {<<op, "delivered">>}
          /\ shown' = shown \cup {<<op, "submit">>}
       \/ /\ ~Visible(op)
          /\ delivery' = [delivery EXCEPT ![op] = Released(@)]
          /\ UNCHANGED <<receipts, shown>>
    /\ UNCHANGED <<known, expired, submits, supported, job, reconciled, nativeVars, restarts>>

\* The host drops the call: only the finally clause runs.
SubmitDropped(op) ==
    /\ waiting[op] > 0
    /\ waiting' = [waiting EXCEPT ![op] = @ - 1]
    /\ delivery' = [delivery EXCEPT ![op] = Released(@)]
    /\ UNCHANGED <<known, expired, receipts, submits, shown, supported, job,
                   reconciled, nativeVars, restarts>>

\* gateway_get or gateway_wait returns the result.
Pull(op) ==
    /\ Visible(op)
    /\ delivery' = [delivery EXCEPT ![op] = Consumed(@)]
    /\ receipts' = receipts \cup {<<op, "delivered">>}
    /\ shown' = shown \cup {<<op, "pull">>}
    /\ UNCHANGED <<known, expired, waiting, submits, supported, job, reconciled,
                   nativeVars, restarts>>

-----------------------------------------------------------------------------
(***************************************************************************)
(* deliver_ready.  ready is only reached with inline_deadline = 0, so the  *)
(* deadline adds nothing to the guard of claim_delivery.                   *)
(***************************************************************************)
MutantClaimable(op) == delivery[op] \in {"inline_pending", "ready"} /\ Visible(op)

Claimable(op) == delivery[op] = "ready" /\ Visible(op)

\* The claim is a commit of its own: a daemon that dies after it leaves the
\* row enqueueing, whether or not the queue is supported.
ClaimDelivery(op) ==
    /\ job = NoJob
    /\ Claimable(op)
    /\ delivery' = [delivery EXCEPT ![op] = "enqueueing"]
    /\ job' = [at |-> "starting", op |-> op]
    /\ UNCHANGED <<known, expired, receipts, toolVars, supported, reconciled,
                   nativeVars, restarts>>

FinishDelivery(op, state) ==
    /\ delivery' = [delivery EXCEPT ![op] = state]
    /\ receipts' = IF state = "delivery_outcome_unknown"
                   THEN receipts \cup {<<op, state>>} ELSE receipts
    /\ job' = NoJob

\* No support, or _rpc fails before thread/queue/add is written.
RpcUnsupported ==
    /\ job.at = "starting"
    /\ FinishDelivery(job.op, "unsupported")
    /\ UNCHANGED <<known, expired, toolVars, supported, reconciled, nativeVars, restarts>>

RpcSends ==
    /\ job.at = "starting" /\ supported
    /\ job' = [job EXCEPT !.at = "sent"]
    /\ sent' = sent \cup {job.op}
    /\ UNCHANGED <<inboxVars, toolVars, supported, reconciled, queued, restarts>>

EnqueueAcked ==
    /\ job.at = "sent" /\ job.op \notin sent
    /\ FinishDelivery(job.op, "queued")
    /\ UNCHANGED <<known, expired, toolVars, supported, reconciled, nativeVars, restarts>>

\* No answer, or one that does not identify the submission: the process is
\* killed, before or after it executed the request.
EnqueueLost ==
    /\ job.at = "sent"
    /\ FinishDelivery(job.op, "delivery_outcome_unknown")
    /\ reconciled' = reconciled \cup {job.op}
    /\ sent' \in {sent, sent \ {job.op}}
    /\ UNCHANGED <<known, expired, toolVars, supported, queued, restarts>>

\* Once per process an unknown delivery is looked up in the queue.
Reconcile(op) ==
    /\ job = NoJob
    /\ delivery[op] = "delivery_outcome_unknown" /\ op \notin expired \cup reconciled
    /\ reconciled' = reconciled \cup {op}
    /\ job' = IF supported THEN [at |-> "listing", op |-> op] ELSE job
    /\ UNCHANGED <<inboxVars, toolVars, supported, nativeVars, restarts>>

MutantReconcileEnds ==
    /\ job.at = "listing"
    /\ FinishDelivery(job.op, "queued")
    /\ UNCHANGED <<known, expired, toolVars, supported, reconciled, nativeVars, restarts>>

\* Exactly one item of the queue has the identity, or none, or no answer.
ReconcileEnds ==
    /\ job.at = "listing"
    /\ \/ queued[job.op] > 0 /\ FinishDelivery(job.op, "queued")
       \/ job' = NoJob /\ UNCHANGED <<delivery, receipts>>
    /\ UNCHANGED <<known, expired, toolVars, supported, reconciled, nativeVars, restarts>>

-----------------------------------------------------------------------------
\* prune() runs in the same coroutine, after deliver_ready.
Prune(op) ==
    /\ job = NoJob
    /\ Visible(op)
    /\ expired' = expired \cup {op}
    /\ UNCHANGED <<delivery, known, receipts, toolVars, supported, job, reconciled,
                   nativeVars, restarts>>

\* The app server executes thread/queue/add.
QueueAdds(op) ==
    /\ op \in sent
    /\ sent' = sent \ {op}
    /\ queued' = [queued EXCEPT ![op] = @ + 1]
    /\ UNCHANGED <<inboxVars, toolVars, supported, job, reconciled, restarts>>

MutantReopened(state) ==
    IF state \in {"enqueueing", "inline_pending"} THEN "ready" ELSE state

\* What ClientStore makes of the rows a dead process left behind.
Reopened(state) ==
    CASE state = "enqueueing" -> "delivery_outcome_unknown"
      [] state = "inline_pending" -> "ready"
      [] OTHER -> state

Restarts ==
    /\ restarts < MaxRestarts
    /\ restarts' = restarts + 1
    /\ delivery' = [op \in Op |-> Reopened(delivery[op])]
    /\ receipts' = receipts \cup
         {<<op, "delivery_outcome_unknown">> : op \in
             {p \in Op : Reopened(delivery[p]) = "delivery_outcome_unknown"}}
    /\ waiting' = [op \in Op |-> 0]
    /\ job' = NoJob
    /\ reconciled' = {}
    /\ supported' \in BOOLEAN
    /\ UNCHANGED <<known, expired, submits, shown, nativeVars>>

-----------------------------------------------------------------------------
Init ==
    /\ delivery = [op \in Op |-> "none"]
    /\ known = {}
    /\ expired = {}
    /\ waiting = [op \in Op |-> 0]
    /\ submits = [op \in Op |-> 0]
    /\ supported \in BOOLEAN
    /\ job = NoJob
    /\ reconciled = {}
    /\ sent = {}
    /\ queued = [op \in Op |-> 0]
    /\ shown = {}
    /\ receipts = {}
    /\ restarts = 0

Rpc == RpcUnsupported \/ RpcSends \/ EnqueueAcked \/ EnqueueLost \/ ReconcileEnds

Next ==
    \/ \E op \in Op :
         \/ Submit(op) \/ ResultArrives(op) \/ SubmitReturns(op) \/ SubmitDropped(op)
         \/ Pull(op) \/ ClaimDelivery(op) \/ Reconcile(op) \/ Prune(op) \/ QueueAdds(op)
    \/ Rpc
    \/ Restarts

Spec == Init /\ [][Next]_vars

(***************************************************************************)
(* Fairness: a wait has a deadline, an RPC a timeout, and _work looks at   *)
(* every operation once a second.                                          *)
(***************************************************************************)
FairSpec ==
    /\ Spec
    /\ \A op \in Op : /\ WF_vars(SubmitReturns(op) \/ SubmitDropped(op))
                      /\ SF_vars(ClaimDelivery(op))
    /\ WF_vars(Rpc)

-----------------------------------------------------------------------------
(* Type invariant: the delivery states and where deliver_ready is.         *)
TypeOK ==
    /\ delivery \in [Op -> DeliveryState]
    /\ known \subseteq Op /\ expired \subseteq known
    /\ waiting \in [Op -> 0 .. MaxSubmits]
    /\ job.at \in {"rest", "starting", "sent", "listing"}
    /\ job.op \in Op \cup {"none"}
    /\ sent \subseteq Op /\ reconciled \subseteq Op
    /\ queued \in [Op -> Nat]

(* The native queue gets at most one reference per operation, whatever is  *)
(* lost or restarted: "same clientUserMessageId is NOT idempotent"         *)
(* (claim_delivery, the first updates of ClientStore.__init__).            *)
EnqueuedOnce == \A op \in Op : queued[op] + (IF op \in sent THEN 1 ELSE 0) <= 1

(* The recorded delivery tells the truth: a row is queued only when the    *)
(* queue has the reference, and unsupported, waiting or returned inline    *)
(* only when nothing was or will be queued (finish_delivery, view).        *)
DeliveryHonest ==
    \A op \in Op :
        /\ delivery[op] = "queued" => queued[op] = 1
        /\ delivery[op] \in {"inline_pending", "ready", "unsupported", "inline_returned"}
           => queued[op] = 0 /\ op \notin sent

(* docs/client-server-contract.md: "Inline bounded MCP wait may return a   *)
(* result. Otherwise queue only a result reference": a result that submit  *)
(* returned is not queued too (release_inline, view).                      *)
InlineOrQueued ==
    \A op \in Op : <<op, "submit">> \in shown => queued[op] = 0 /\ op \notin sent

(* A result that is known is offered: returned, queued, marked unsupported *)
(* or unknown, unless its retention ends first (deliver_ready).            *)
Offered ==
    \A op \in Op : (op \in known)
        ~> (delivery[op] \notin {"inline_pending", "ready", "enqueueing"} \/ op \in expired)
=============================================================================
