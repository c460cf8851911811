----------------------- MODULE ClientDelivery_proofs -----------------------
(***************************************************************************)
(* Proofs about ClientDelivery, for any set of operations and any number   *)
(* of repeated submits and restarts: the native queue gets one reference   *)
(* per operation at most, and the recorded delivery is true.               *)
(***************************************************************************)
EXTENDS ClientDelivery, TLAPS

(***************************************************************************)
(* The two invariants are not inductive: whether an enqueue is under way   *)
(* is known to the job, not to the row.  JobAgrees ties them together.     *)
(***************************************************************************)
Unsent(op) == queued[op] = 0 /\ op \notin sent

JobAgrees ==
    /\ job.at # "rest" => job.op \in Op
    /\ job.at = "starting" => delivery[job.op] = "enqueueing" /\ Unsent(job.op)
    /\ job.at = "sent" => /\ delivery[job.op] = "enqueueing"
                          /\ job.op \notin sent => queued[job.op] = 1
    /\ job.at = "listing" => delivery[job.op] = "delivery_outcome_unknown"
    /\ \A op \in Op :
         /\ delivery[op] = "none" => Unsent(op)
         /\ delivery[op] = "enqueueing" => job.at \in {"starting", "sent"} /\ job.op = op

Typed ==
    /\ delivery \in [Op -> DeliveryState]
    /\ job \in [at : {"rest", "starting", "sent", "listing"}, op : Op \cup {"none"}]
    /\ sent \subseteq Op
    /\ queued \in [Op -> Nat]

DeliveryInv == Typed /\ JobAgrees /\ EnqueuedOnce /\ DeliveryHonest

\* A new client has delivered nothing and owes nothing.
LEMMA InitDelivery == Init => DeliveryInv
  BY DEF Init, DeliveryInv, Typed, JobAgrees, EnqueuedOnce, DeliveryHonest, NoJob,
         DeliveryState, Unsent

\* Every step of the tools, deliver_ready, prune and a restart keeps it.
LEMMA DeliveryStep == DeliveryInv /\ [Next]_vars => DeliveryInv'
<1> SUFFICES ASSUME DeliveryInv, [Next]_vars PROVE DeliveryInv'
  OBVIOUS
<1> USE DEF DeliveryInv, Typed, JobAgrees, EnqueuedOnce, DeliveryHonest, NoJob,
            DeliveryState, Unsent
<1>1. CASE UNCHANGED vars
  BY <1>1 DEF vars, inboxVars, nativeVars
<1>2. ASSUME NEW op \in Op, Submit(op) PROVE DeliveryInv'
  BY <1>2 DEF Submit, nativeVars
<1>3. ASSUME NEW op \in Op, ResultArrives(op) PROVE DeliveryInv'
  BY <1>3 DEF ResultArrives, nativeVars
<1>4. ASSUME NEW op \in Op, SubmitReturns(op) PROVE DeliveryInv'
  BY <1>4 DEF SubmitReturns, Released, Consumed, nativeVars
<1>5. ASSUME NEW op \in Op, SubmitDropped(op) PROVE DeliveryInv'
  BY <1>5 DEF SubmitDropped, Released, nativeVars
<1>6. ASSUME NEW op \in Op, Pull(op) PROVE DeliveryInv'
  BY <1>6 DEF Pull, Consumed, nativeVars
<1>7. ASSUME NEW op \in Op, ClaimDelivery(op) PROVE DeliveryInv'
  BY <1>7 DEF ClaimDelivery, Claimable, nativeVars
<1>8. ASSUME NEW op \in Op, Reconcile(op) PROVE DeliveryInv'
  BY <1>8 DEF Reconcile, inboxVars, nativeVars
<1>9. ASSUME NEW op \in Op, Prune(op) PROVE DeliveryInv'
  BY <1>9 DEF Prune, nativeVars
<1>10. ASSUME NEW op \in Op, QueueAdds(op) PROVE DeliveryInv'
  BY <1>10 DEF QueueAdds, inboxVars
<1>11. CASE RpcUnsupported
  BY <1>11 DEF RpcUnsupported, FinishDelivery, nativeVars
<1>12. CASE RpcSends
  BY <1>12 DEF RpcSends, inboxVars
<1>13. CASE EnqueueAcked
  BY <1>13 DEF EnqueueAcked, FinishDelivery, nativeVars
<1>14. CASE EnqueueLost
  BY <1>14 DEF EnqueueLost, FinishDelivery
<1>15. CASE ReconcileEnds
  BY <1>15 DEF ReconcileEnds, FinishDelivery, nativeVars
<1>16. CASE Restarts
  BY <1>16 DEF Restarts, Reopened, nativeVars
<1> QED
  BY <1>1, <1>2, <1>3, <1>4, <1>5, <1>6, <1>7, <1>8, <1>9, <1>10, <1>11, <1>12,
     <1>13, <1>14, <1>15, <1>16 DEF Next, Rpc

(* The inductive invariant of the delivery column, its job and the queue.  *)
THEOREM DeliveryCorrect == Spec => []DeliveryInv
  BY InitDelivery, DeliveryStep, PTL DEF Spec

(* No crash, lost acknowledgement or repeated tool call makes the client   *)
(* add a second reference to the native queue.                             *)
THEOREM OneReference == Spec => []EnqueuedOnce
<1>1. DeliveryInv => EnqueuedOnce
  BY DEF DeliveryInv
<1> QED
  BY <1>1, DeliveryCorrect, PTL

(* What the inbox records about a delivery is true of the native queue.    *)
THEOREM RecordIsTrue == Spec => []DeliveryHonest
<1>1. DeliveryInv => DeliveryHonest
  BY DEF DeliveryInv
<1> QED
  BY <1>1, DeliveryCorrect, PTL

-----------------------------------------------------------------------------
(***************************************************************************)
(* Inline or queued.  What keeps a result that submit returned out of the  *)
(* queue is that the row never left inline_pending while the call waited.  *)
(* This is so as long as the tool call was submitted once: a second call   *)
(* finds the row the first one released.                                   *)
(***************************************************************************)
Calls(op) ==
    /\ waiting[op] \in Nat /\ submits[op] \in Nat
    /\ waiting[op] <= submits[op] /\ submits[op] <= MaxSubmits
    /\ submits[op] = 0 => delivery[op] = "none" /\ <<op, "submit">> \notin shown

HeldInline(op) ==
    submits[op] <= 1 =>
        /\ waiting[op] > 0 => /\ delivery[op] \in {"inline_pending", "inline_returned"}
                              /\ <<op, "submit">> \notin shown
        /\ <<op, "submit">> \in shown => delivery[op] = "inline_returned"

InlineInv ==
    /\ waiting \in [Op -> Nat] /\ submits \in [Op -> Nat]
    /\ known \subseteq Op /\ expired \subseteq known /\ reconciled \subseteq Op
    /\ \A op \in Op : Calls(op) /\ HeldInline(op)

\* A new client holds no result back for a caller.
LEMMA InitInline == Init => InlineInv
  BY DeliveryValues DEF Init, InlineInv, Calls, HeldInline

\* Every step keeps the calls in progress and what they hold back.
LEMMA InlineStep == DeliveryInv /\ InlineInv /\ [Next]_vars => InlineInv'
<1> SUFFICES ASSUME DeliveryInv, InlineInv, [Next]_vars PROVE InlineInv'
  OBVIOUS
<1> USE DeliveryValues DEF InlineInv, Calls, HeldInline
<1>0. Typed /\ JobAgrees
  BY DEF DeliveryInv
<1>1. CASE UNCHANGED vars
  BY <1>1 DEF vars, inboxVars, toolVars
<1>2. ASSUME NEW op \in Op, Submit(op) PROVE InlineInv'
  BY <1>0, <1>2 DEF Submit, Typed
<1>3. ASSUME NEW op \in Op, ResultArrives(op) PROVE InlineInv'
  BY <1>3 DEF ResultArrives, toolVars
<1>4. ASSUME NEW op \in Op, SubmitReturns(op) PROVE InlineInv'
  BY <1>0, <1>4 DEF SubmitReturns, Released, Consumed, Typed
<1>5. ASSUME NEW op \in Op, SubmitDropped(op) PROVE InlineInv'
  BY <1>0, <1>5 DEF SubmitDropped, Released, Typed
<1>6. ASSUME NEW op \in Op, Pull(op) PROVE InlineInv'
  BY <1>0, <1>6 DEF Pull, Consumed, Typed
<1>7. ASSUME NEW op \in Op, ClaimDelivery(op) PROVE InlineInv'
  BY <1>0, <1>7 DEF ClaimDelivery, Claimable, toolVars, Typed
<1>8. ASSUME NEW op \in Op, Reconcile(op) PROVE InlineInv'
  BY <1>8 DEF Reconcile, inboxVars, toolVars
<1>9. ASSUME NEW op \in Op, Prune(op) PROVE InlineInv'
  BY <1>9 DEF Prune, Visible, toolVars
<1>10. ASSUME NEW op \in Op, QueueAdds(op) PROVE InlineInv'
  BY <1>10 DEF QueueAdds, inboxVars, toolVars
<1>11. CASE RpcUnsupported
  BY <1>0, <1>11 DEF RpcUnsupported, FinishDelivery, toolVars, Typed, JobAgrees
<1>12. CASE RpcSends
  BY <1>12 DEF RpcSends, inboxVars, toolVars
<1>13. CASE EnqueueAcked
  BY <1>0, <1>13 DEF EnqueueAcked, FinishDelivery, toolVars, Typed, JobAgrees
<1>14. CASE EnqueueLost
  BY <1>0, <1>14 DEF EnqueueLost, FinishDelivery, toolVars, Typed, JobAgrees
<1>15. CASE ReconcileEnds
  BY <1>0, <1>15 DEF ReconcileEnds, FinishDelivery, toolVars, Typed, JobAgrees
<1>16. CASE Restarts
  BY <1>0, <1>16 DEF Restarts, Reopened, Typed
<1> QED
  BY <1>1, <1>2, <1>3, <1>4, <1>5, <1>6, <1>7, <1>8, <1>9, <1>10, <1>11, <1>12,
     <1>13, <1>14, <1>15, <1>16 DEF Next, Rpc

\* So both hold throughout.
LEMMA InlineCorrect == Spec => []InlineInv
  BY InitInline, InlineStep, InitDelivery, DeliveryStep, PTL DEF Spec

(* The delivery column, the calls in progress and the job have their types *)
(* and no more calls wait than were made (ClientStore, deliver_ready).     *)
THEOREM DeliveryTypes == Spec => []TypeOK
<1>1. DeliveryInv /\ InlineInv => TypeOK
  <2> SUFFICES ASSUME DeliveryInv, InlineInv PROVE TypeOK
    OBVIOUS
  <2>0. MaxSubmits \in Nat
    BY DeliveryValues
  <2>1. waiting \in [Op -> 0 .. MaxSubmits]
    <3>1. ASSUME NEW op \in Op PROVE waiting[op] \in 0 .. MaxSubmits
      <4>1. waiting[op] \in Nat /\ submits[op] \in Nat
            /\ waiting[op] <= submits[op] /\ submits[op] <= MaxSubmits
        BY DEF InlineInv, Calls
      <4> QED
        BY <2>0, <4>1
    <3> QED
      BY <3>1 DEF InlineInv
  <2>2. /\ job.at \in {"rest", "starting", "sent", "listing"}
        /\ job.op \in Op \cup {"none"}
    BY DEF DeliveryInv, Typed
  <2>3. /\ delivery \in [Op -> DeliveryState] /\ sent \subseteq Op
        /\ queued \in [Op -> Nat]
    BY DEF DeliveryInv, Typed
  <2>4. known \subseteq Op /\ expired \subseteq known /\ reconciled \subseteq Op
    BY DEF InlineInv
  <2> QED
    BY <2>1, <2>2, <2>3, <2>4 DEF TypeOK
<1> QED
  BY <1>1, DeliveryCorrect, InlineCorrect, PTL

(* A result that submit returned is not queued too, whatever the other     *)
(* tools, deliver_ready, prune and restarts do in between, unless the same *)
(* tool call was submitted again (submit, release_inline, view).           *)
InlineUnlessRepeated ==
    \A op \in Op : submits[op] <= 1 /\ <<op, "submit">> \in shown => Unsent(op)

(* submit returns a result and queues it too only for a call submitted    *)
(* twice: InlineUnlessRepeated in every state (submit, release_inline).    *)
THEOREM InlineUnlessSubmittedAgain == Spec => []InlineUnlessRepeated
<1>1. DeliveryInv /\ InlineInv => InlineUnlessRepeated
  BY DEF DeliveryInv, DeliveryHonest, InlineInv, HeldInline, InlineUnlessRepeated, Unsent
<1> QED
  BY <1>1, DeliveryCorrect, InlineCorrect, PTL

(* So the contract's promise holds where no tool call is repeated; with    *)
(* two submits of one identity the run delivery_twice refutes it.          *)
THEOREM InlineResultNotQueued ==
    ASSUME MaxSubmits <= 1
    PROVE  Spec => []InlineOrQueued
<1>1. InlineInv /\ InlineUnlessRepeated => InlineOrQueued
  BY DeliveryValues DEF InlineInv, Calls, InlineUnlessRepeated, InlineOrQueued, Unsent
<1> QED
  BY <1>1, InlineCorrect, InlineUnlessSubmittedAgain, PTL
=============================================================================
