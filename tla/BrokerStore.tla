---------------------------- MODULE BrokerStore ----------------------------
(***************************************************************************)
(* The PostgreSQL ledger of the broker (broker_store.py).  Every public    *)
(* method of the class BrokerStore is one transaction under one process    *)
(* mutex, so every method is one action here.  The callers (the HTTP       *)
(* handlers and the dispatcher) may call them in any order: Next is the    *)
(* union of the calls, with the caller's obligations as the only extra     *)
(* guards (see Claimed).  A method that raises rolls its transaction back  *)
(* and is a stuttering step.                                               *)
(*                                                                         *)
(* Abstractions.  A primary key (device_id, operation_id) is an element    *)
(* of Op.  A request is its own digest.  A value drawn by uuid4() is the   *)
(* sequence number of the event the same transaction publishes, which no   *)
(* earlier draw of the device can equal; 0 is SQL's NULL.  A comparison of *)
(* expires_at with utcnow() is a nondeterministic choice, because the      *)
(* schema relates no two expiry times and the clock may be adjusted; only  *)
(* the expiry of a result is state, since every snapshot shows it.         *)
(***************************************************************************)
EXTENDS Integers, FiniteSets, FiniteSetsExt

CONSTANTS
    Device,            \* authenticated devices
    Op,                \* primary keys of broker_v06_operations
    DeviceOf,          \* the device of a primary key
    Flow,              \* flow identifiers
    Artifact,          \* artifact identifiers
    ArtifactDevice,    \* the device that uploads an artifact
    ArtifactSize,      \* its size in bytes
    TextArtifact,      \* the artifacts that are UTF-8 text/plain
    Request,           \* the bodies POST /v1/operations may carry
    NoRequest,         \* no request
    Handle,            \* task handles of the peer
    NoHandle,          \* remote_task_id IS NULL
    Result,            \* results and error details a caller may store
    LargeResult,       \* those beyond max_result_bytes
    NoResult,          \* result_cipher IS NULL
    ReceiptStatus,     \* "stored", "delivered", "delivery_outcome_unknown"
    MaxPending,        \* max_pending_per_device
    MaxArtifactBytes,  \* max_artifact_bytes
    DeviceQuota,       \* device_quota_bytes
    MaxSequence        \* bound: events published per device

ASSUME StoreKeys ==
    /\ DeviceOf \in [Op -> Device]
    /\ ArtifactDevice \in [Artifact -> Device]
    /\ ArtifactSize \in [Artifact -> Nat]
    /\ TextArtifact \subseteq Artifact
    /\ Request \subseteq [flow : Flow, artifacts : SUBSET Artifact, size : Nat]
    /\ NoRequest \notin Request
    /\ NoHandle \notin Handle
    /\ LargeResult \subseteq Result
    /\ NoResult \notin Result

ASSUME StoreLimits ==
    /\ MaxPending \in Nat \ {0}
    /\ MaxArtifactBytes \in Nat \ {0}
    /\ DeviceQuota \in Nat \ {0}
    /\ MaxSequence \in Nat

VARIABLES
    ops,         \* broker_v06_operations
    outbox,      \* broker_v06_outbox: "none" is no row
    payloads,    \* keys of broker_v06_payloads
    sequence,    \* broker_v06_devices.sequence
    floor,       \* broker_v06_devices.floor
    events,      \* broker_v06_events, per device
    artifacts,   \* broker_v06_artifacts: "unused" and "deleted" are no row
    receipts,    \* broker_v06_receipts
    dispatcher,  \* this process holds the dispatcher's advisory lock
    claims       \* history: how often claim() handed an operation out

feedVars == <<sequence, floor, events>>
vars == <<ops, outbox, payloads, feedVars, artifacts, receipts, dispatcher, claims>>

-----------------------------------------------------------------------------
Final == {"completed", "failed", "canceled"}
Terminal == Final \cup {"outcome_unknown"}
Active == {"running", "outcome_unknown"}
State == {"absent", "accepted", "running"} \cup Terminal

ErrorCode ==
    {"none", "payload_expired", "artifact_expired", "restart_unknown",
     "submission_unknown", "cancel_unconfirmed", "result_too_large",
     "peer_rejected", "peer_artifact"}

Row == [request : Request \cup {NoRequest},
        state : State,
        result_id : Nat,
        result : Result \cup {NoResult},
        expiry : {"none", "live", "expired"},
        error : ErrorCode,
        remote_task_id : Handle \cup {NoHandle},
        cancel_requested : BOOLEAN,
        cancel_claimed : BOOLEAN]

Snapshots == [state : State,
              result_id : Nat,
              result : Result \cup {NoResult},
              details : Result \cup {NoResult},
              error : ErrorCode \cup {"result_expired"},
              remote_task_id : Handle \cup {NoHandle}]

Event == [op : Op, seq : Nat, snap : Snapshots]

\* No row: a request the ledger has not seen.
Absent == [request |-> NoRequest, state |-> "absent", result_id |-> 0,
           result |-> NoResult, expiry |-> "none", error |-> "none",
           remote_task_id |-> NoHandle,
           cancel_requested |-> FALSE, cancel_claimed |-> FALSE]

(***************************************************************************)
(* _snapshot: what GET and the event feed show of a row.  A stored result  *)
(* beside an error code is the envelope of the error's details.            *)
(***************************************************************************)
Snapshot(row) ==
    [state |-> row.state,
     result_id |-> row.result_id,
     result |-> IF row.expiry = "live" /\ row.error = "none"
                THEN row.result ELSE NoResult,
     details |-> IF row.expiry = "live" /\ row.error # "none"
                 THEN row.result ELSE NoResult,
     error |-> IF row.expiry = "expired" THEN "result_expired" ELSE row.error,
     remote_task_id |-> row.remote_task_id]

OpsOn(d) == {op \in Op : DeviceOf[op] = d}
FlowOf(op) == <<DeviceOf[op], ops[op].request.flow>>

\* uuid4(): the number of the event that publishes this transaction.
FreshId(op) == sequence[DeviceOf[op]] + 1

\* UPDATE the row, then _event: the next number of the device's feed carries
\* the row's snapshot.
Publish(op, row) ==
    LET d == DeviceOf[op]
    IN  /\ sequence[d] < MaxSequence
        /\ ops' = [ops EXCEPT ![op] = row]
        /\ sequence' = [sequence EXCEPT ![d] = @ + 1]
        /\ events' = [events EXCEPT ![d] = @ \cup
             {[op |-> op, seq |-> sequence[d] + 1, snap |-> Snapshot(row)]}]
        /\ UNCHANGED floor

-----------------------------------------------------------------------------
(***************************************************************************)
(* POST /v1/operations.                                                    *)
(***************************************************************************)
PendingOn(d) ==
    {op \in OpsOn(d) : ops[op].state \in {"accepted"} \cup Active}

BytesOf(set) == MapThenSumSet(LAMBDA a : ArtifactSize[a], set)

\* _artifact finds a row of the caller's device (that it has not expired is
\* the caller's nondeterministic choice).
Available(d, a) == artifacts[a] = "stored" /\ ArtifactDevice[a] = d

Usable(d, req) ==
    /\ \A a \in req.artifacts : Available(d, a) /\ a \in TextArtifact
    /\ req.size + BytesOf(req.artifacts) <= MaxArtifactBytes

MutantNotPrevious(op) == ops[op].state \in {"absent"} \cup Final

\* No previous row: a row with the same digest is answered as it is, one with
\* another digest is a 409.
NotPrevious(op) == ops[op].state = "absent"

MutantAdmits(d) == Cardinality(PendingOn(d)) <= MaxPending

Admits(d) == Cardinality(PendingOn(d)) < MaxPending

Accept(op, req) ==
    /\ NotPrevious(op)
    /\ Admits(DeviceOf[op])
    /\ Usable(DeviceOf[op], req)
    /\ Publish(op, [Absent EXCEPT !.request = req, !.state = "accepted"])
    /\ payloads' = payloads \cup {op}
    /\ outbox' = [outbox EXCEPT ![op] = "pending"]
    /\ UNCHANGED <<artifacts, receipts, dispatcher, claims>>

-----------------------------------------------------------------------------
(***************************************************************************)
(* _finish: no effect on a definitive row; otherwise the row, the outbox   *)
(* and the payload change together and one event is published.             *)
(***************************************************************************)
MutantFinishedRow(row, id, state, result, code) ==
    [row EXCEPT !.state = state, !.result_id = id, !.result = result,
                !.expiry = IF result = NoResult THEN "none" ELSE "live",
                !.error = code]

FinishedRow(row, id, state, result, code) ==
    [row EXCEPT !.state = state,
                !.result_id = IF @ # 0 THEN @ ELSE id,
                !.result = result,
                !.expiry = IF result = NoResult THEN "none" ELSE "live",
                !.error = code]

MutantOpen(op) == ops[op].state # "canceled"

\* The row is not definitive yet.
Open(op) == ops[op].state \notin Final

MutantFinishRow(op, state, result, code) ==
    /\ Open(op)
    /\ Publish(op, FinishedRow(ops[op], FreshId(op), state, result, code))
    /\ outbox' = [outbox EXCEPT ![op] = "done"]
    /\ UNCHANGED <<payloads, artifacts, receipts, dispatcher>>

FinishRow(op, state, result, code) ==
    /\ Open(op)
    /\ Publish(op, FinishedRow(ops[op], FreshId(op), state, result, code))
    /\ outbox' = [outbox EXCEPT ![op] = "done"]
    /\ payloads' = payloads \ {op}
    /\ UNCHANGED <<artifacts, receipts, dispatcher>>

(***************************************************************************)
(* claim(): an operation whose flow is free is handed to the dispatcher,   *)
(* or failed when its payload or an attachment is gone.  The code takes    *)
(* the first in the order of created_at and operation_id, a wall clock     *)
(* that may step back and a UUID: any claimable one may be the first.      *)
(***************************************************************************)
MutantClaimable(op) ==
    /\ outbox[op] = "pending"
    /\ ops[op].state = "accepted"
    /\ ~ \E q \in Op : ops[q].state = "running" /\ FlowOf(q) = FlowOf(op)

Claimable(op) ==
    /\ outbox[op] = "pending"
    /\ ops[op].state = "accepted"
    /\ ~ \E q \in Op : ops[q].state \in Active /\ FlowOf(q) = FlowOf(op)

ClaimPayloadExpired(op) ==
    FinishRow(op, "failed", NoResult, "payload_expired")

ClaimArtifactExpired(op) ==
    /\ op \in payloads
    /\ ops[op].request.artifacts # {}
    /\ FinishRow(op, "failed", NoResult, "artifact_expired")

ClaimRunning(op) ==
    /\ op \in payloads
    /\ \A a \in ops[op].request.artifacts : Available(DeviceOf[op], a)
    /\ Publish(op, [ops[op] EXCEPT !.state = "running"])
    /\ outbox' = [outbox EXCEPT ![op] = "claimed"]
    /\ UNCHANGED <<payloads, artifacts, receipts, dispatcher>>

Claim(op) ==
    /\ dispatcher
    /\ Claimable(op)
    /\ \/ (ClaimPayloadExpired(op) \/ ClaimArtifactExpired(op)) /\ UNCHANGED claims
       \/ ClaimRunning(op) /\ claims' = [claims EXCEPT ![op] = @ + 1]

-----------------------------------------------------------------------------
(***************************************************************************)
(* The dispatcher's calls.  It calls finish and save_handle only for an    *)
(* operation that claim() handed out, in this process or, for those that   *)
(* reconcilable() and claim_cancel() return, in an earlier one.            *)
(***************************************************************************)
Claimed(op) == claims[op] > 0

Finish(op, state, result, code) ==
    /\ Claimed(op)
    /\ IF result \in LargeResult
       THEN FinishRow(op, "failed", NoResult, "result_too_large")
       ELSE FinishRow(op, state, result, code)
    /\ UNCHANGED claims

MutantHandleFree(op) == ops[op].state \notin Final

\* No handle yet; another one is a peer_handle_conflict, the same one and a
\* definitive row are early returns.
HandleFree(op) == ops[op].remote_task_id = NoHandle /\ ops[op].state \notin Final

MutantSaveHandle(op, handle) ==
    /\ Claimed(op)
    /\ HandleFree(op)
    /\ ops' = [ops EXCEPT ![op].remote_task_id = handle]
    /\ UNCHANGED <<outbox, payloads, feedVars, artifacts, receipts, dispatcher, claims>>

SaveHandle(op, handle) ==
    /\ Claimed(op)
    /\ HandleFree(op)
    /\ Publish(op, [ops[op] EXCEPT !.remote_task_id = handle])
    /\ UNCHANGED <<outbox, payloads, artifacts, receipts, dispatcher,
                   claims>>

\* pg_try_advisory_lock succeeds: no other process holds the ledger.
AcquireDispatcher ==
    /\ ~dispatcher
    /\ dispatcher' = TRUE
    /\ UNCHANGED <<ops, outbox, payloads, feedVars, artifacts, receipts,
                   claims>>

\* close(), a crash or a lost connection: the session and its lock are gone.
Close ==
    /\ dispatcher
    /\ dispatcher' = FALSE
    /\ UNCHANGED <<ops, outbox, payloads, feedVars, artifacts, receipts,
                   claims>>

RunningOn(d) == {op \in OpsOn(d) : ops[op].state = "running"}
Running == {op \in Op : ops[op].state = "running"}

(***************************************************************************)
(* recover(): every running row becomes outcome_unknown, in one            *)
(* transaction.  slot is the number of the event of each row, last the     *)
(* number of the device's last event.                                      *)
(***************************************************************************)
RecoverWith(slot, last) ==
    /\ \A p, q \in Running :
         DeviceOf[p] = DeviceOf[q] /\ slot[p] = slot[q] => p = q
    /\ \A d \in Device :
         /\ last[d] >= sequence[d]
         /\ {slot[op] : op \in RunningOn(d)} = (sequence[d] + 1) .. last[d]
    /\ LET after == [op \in Running |->
                 FinishedRow(ops[op], slot[op], "outcome_unknown", NoResult,
                             "restart_unknown")]
       IN  /\ ops' = [op \in Op |-> IF op \in Running THEN after[op] ELSE ops[op]]
           /\ events' = [d \in Device |-> events[d] \cup
                {[op |-> op, seq |-> slot[op], snap |-> Snapshot(after[op])] :
                    op \in RunningOn(d)}]
    /\ sequence' = last
    /\ outbox' = [op \in Op |-> IF op \in Running THEN "done" ELSE outbox[op]]
    /\ payloads' = payloads \ Running

Recover ==
    /\ dispatcher
    /\ Running # {}
    /\ \E slot \in [Running -> 1 .. MaxSequence],
          last \in [Device -> 0 .. MaxSequence] : RecoverWith(slot, last)
    /\ UNCHANGED <<floor, artifacts, receipts, dispatcher, claims>>

-----------------------------------------------------------------------------
(***************************************************************************)
(* Cancellation: an accepted operation is canceled at once, a dispatched   *)
(* one keeps running and is marked; the peer is asked at most once.        *)
(***************************************************************************)
CancelAccepted(op) ==
    /\ ops[op].state = "accepted"
    /\ FinishRow(op, "canceled", NoResult, "none")
    /\ UNCHANGED claims

CancelRequested(op) ==
    /\ ops[op].state \in Active
    /\ ~ops[op].cancel_requested
    /\ Publish(op, [ops[op] EXCEPT !.cancel_requested = TRUE,
                                   !.error = "cancel_unconfirmed"])
    /\ UNCHANGED <<outbox, payloads, artifacts, receipts, dispatcher,
                   claims>>

CancelIntent(op) == CancelAccepted(op) \/ CancelRequested(op)

\* Any eligible row: ORDER BY updated_at only says which one comes first.
ClaimCancel(op) ==
    /\ dispatcher
    /\ ops[op].cancel_requested
    /\ ~ops[op].cancel_claimed
    /\ ops[op].remote_task_id # NoHandle
    /\ ops[op].state \in Active
    /\ ops' = [ops EXCEPT ![op].cancel_claimed = TRUE]
    /\ UNCHANGED <<outbox, payloads, feedVars, artifacts, receipts, dispatcher, claims>>

-----------------------------------------------------------------------------
(***************************************************************************)
(* The event feed: a prefix of the device's events is purged, up to the    *)
(* last expired one (cut, 0 when none has expired).                        *)
(***************************************************************************)
Cuts(d) == {0} \cup {e.seq : e \in events[d]}

MutantRemaining(d, cut) == {e \in events[d] : e.seq # cut}

Remaining(d, cut) == {e \in events[d] : e.seq > cut}

MutantRaised(d, cut) == cut - 1

Raised(d, cut) == IF cut > floor[d] THEN cut ELSE floor[d]

\* events(): purge, then read.  A cursor outside floor .. sequence raises and
\* so rolls the purge back.
Events(d, after, cut) ==
    /\ cut \in Cuts(d)
    /\ Raised(d, cut) <= after
    /\ after <= sequence[d]
    /\ events' = [events EXCEPT ![d] = Remaining(d, cut)]
    /\ floor' = [floor EXCEPT ![d] = Raised(d, cut)]
    /\ UNCHANGED <<ops, outbox, payloads, sequence, artifacts, receipts,
                   dispatcher, claims>>

ReceiptMatches(op, id) == ops[op].result_id # 0 /\ ops[op].result_id = id

Receipt(op, id, status) ==
    /\ ReceiptMatches(op, id)
    /\ receipts' = receipts \cup {<<op, id, status>>}
    /\ UNCHANGED <<ops, outbox, payloads, feedVars, artifacts, dispatcher, claims>>

-----------------------------------------------------------------------------
(***************************************************************************)
(* Artifacts and retention.                                                *)
(***************************************************************************)
StoredOn(d) == {a \in Artifact : Available(d, a)}

MutantFits(a, expired) ==
    BytesOf(StoredOn(ArtifactDevice[a]) \ expired) <= DeviceQuota

Fits(a, expired) ==
    BytesOf(StoredOn(ArtifactDevice[a]) \ expired) + ArtifactSize[a] <= DeviceQuota

\* put_artifact: expired is what the DELETE before the quota check removes.
PutArtifact(a, expired) ==
    LET d == ArtifactDevice[a]
    IN  /\ artifacts[a] = "unused"
        /\ ArtifactSize[a] <= MaxArtifactBytes
        /\ expired \subseteq StoredOn(d)
        /\ Fits(a, expired)
        /\ artifacts' = [b \in Artifact |-> IF b = a THEN "stored"
                            ELSE IF b \in expired THEN "deleted"
                            ELSE artifacts[b]]
        /\ UNCHANGED <<ops, outbox, payloads, feedVars, receipts, dispatcher, claims>>

\* The retention time of a stored result passes.
ResultExpires(op) ==
    /\ ops[op].expiry = "live"
    /\ ops' = [ops EXCEPT ![op].expiry = "expired"]
    /\ UNCHANGED <<outbox, payloads, feedVars, artifacts, receipts, dispatcher, claims>>

\* purge(): the feeds of all devices, then expired payloads, artifacts and
\* results.
Purge(cut, gonePayloads, goneArtifacts) ==
    /\ \A d \in Device : cut[d] \in Cuts(d)
    /\ events' = [d \in Device |-> Remaining(d, cut[d])]
    /\ floor' = [d \in Device |-> Raised(d, cut[d])]
    /\ payloads' = payloads \ gonePayloads
    /\ artifacts' = [a \in Artifact |->
                        IF a \in goneArtifacts /\ artifacts[a] = "stored"
                        THEN "deleted" ELSE artifacts[a]]
    /\ ops' = [op \in Op |-> IF ops[op].expiry = "expired"
                             THEN [ops[op] EXCEPT !.result = NoResult]
                             ELSE ops[op]]
    /\ UNCHANGED <<outbox, sequence, receipts, dispatcher, claims>>

-----------------------------------------------------------------------------
Init ==
    /\ ops = [op \in Op |-> Absent]
    /\ outbox = [op \in Op |-> "none"]
    /\ payloads = {}
    /\ sequence = [d \in Device |-> 0]
    /\ floor = [d \in Device |-> 0]
    /\ events = [d \in Device |-> {}]
    /\ artifacts = [a \in Artifact |-> "unused"]
    /\ receipts = {}
    /\ dispatcher = FALSE
    /\ claims = [op \in Op |-> 0]

\* The results of the calls of finish() in broker.py.
Finishes(op) ==
    \/ \E r \in Result : \E s \in Final : Finish(op, s, r, "none")
    \/ \E r \in Result : Finish(op, "failed", r, "peer_rejected")
    \/ Finish(op, "failed", NoResult, "peer_artifact")
    \/ Finish(op, "outcome_unknown", NoResult, "submission_unknown")

Requests(op) ==
    \/ \E req \in Request : Accept(op, req)
    \/ CancelIntent(op)
    \/ \E id \in 1 .. MaxSequence, s \in ReceiptStatus : Receipt(op, id, s)

Dispatches(op) ==
    \/ Claim(op)
    \/ Finishes(op)
    \/ \E h \in Handle : SaveHandle(op, h)
    \/ ClaimCancel(op)

Retention ==
    \/ \E d \in Device, after, cut \in 0 .. MaxSequence : Events(d, after, cut)
    \/ \E a \in Artifact, expired \in SUBSET Artifact : PutArtifact(a, expired)
    \/ \E op \in Op : ResultExpires(op)
    \/ \E cut \in [Device -> 0 .. MaxSequence], gp \in SUBSET Op,
          ga \in SUBSET Artifact : Purge(cut, gp, ga)

Process == AcquireDispatcher \/ Close \/ Recover

Next ==
    \/ \E op \in Op : Requests(op) \/ Dispatches(op)
    \/ Retention
    \/ Process

Spec == Init /\ [][Next]_vars

-----------------------------------------------------------------------------
(* Type invariant: the columns of the ledger's tables (SCHEMA). *)
TypeOK ==
    /\ ops \in [Op -> Row]
    /\ outbox \in [Op -> {"none", "pending", "claimed", "done"}]
    /\ payloads \subseteq Op
    /\ sequence \in [Device -> Nat]
    /\ floor \in [Device -> Nat]
    /\ events \in [Device -> SUBSET Event]
    /\ artifacts \in [Artifact -> {"unused", "stored", "deleted"}]
    /\ receipts \subseteq Op \X Nat \X ReceiptStatus
    /\ dispatcher \in BOOLEAN
    /\ claims \in [Op -> Nat]

(* At most one operation of a flow is running or unresolved, whatever the  *)
(* order of claims, lost outcomes, recoveries and cancellations: claim()   *)
(* skips a flow that has such an operation, and no other method starts one. *)
FlowSerialized ==
    \A p, q \in Op :
        /\ ops[p].state \in Active
        /\ ops[q].state \in Active
        /\ FlowOf(p) = FlowOf(q)
        => p = q

(* claim() hands an operation out at most once in the life of the ledger,  *)
(* across duplicate POSTs, cancellations, recoveries and restarts: a       *)
(* duplicate never resubmits work to the peer.                             *)
ClaimedOnce == \A op \in Op : claims[op] <= 1

(* The outbox, the payload table and the claim history agree with the      *)
(* lifecycle state of every row, so that no interleaving leaves an intent  *)
(* to dispatch behind a finished operation, or a prompt after its end.     *)
OutboxAgrees ==
    \A op \in Op :
        LET s == ops[op].state
        IN  /\ outbox[op] = "none" <=> s = "absent"
            /\ outbox[op] = "pending" <=> s = "accepted"
            /\ outbox[op] = "claimed" <=> s = "running"
            /\ op \in payloads => s \in {"accepted", "running"}
            /\ claims[op] > 0 => s \in Active \cup Final
            /\ s \in Active \cup {"completed"} => claims[op] > 0

(* A device's feed has no hole: the retained events are exactly the        *)
(* numbers above floor, so a reader whose cursor is not below floor misses *)
(* nothing, even when events expire out of order (_purge_events).          *)
FeedContiguous ==
    \A d \in Device :
        /\ {e.seq : e \in events[d]} = (floor[d] + 1) .. sequence[d]
        /\ floor[d] <= sequence[d]
        /\ \A e, f \in events[d] : e.seq = f.seq => e = f

LastOf(d, e) == \A f \in events[d] : f.op = e.op => f.seq <= e.seq

(* The last retained event of an operation shows the row as GET would show *)
(* it, until its result expires: no method changes what a snapshot shows   *)
(* without publishing it.                                                  *)
FeedCurrent ==
    \A d \in Device : \A e \in events[d] :
        /\ DeviceOf[e.op] = d
        /\ LastOf(d, e) /\ ops[e.op].expiry # "expired"
           => e.snap = Snapshot(ops[e.op])

(* A recorded receipt names the result identity the row still has, which   *)
(* outcome_unknown reserves and the definitive outcome keeps.              *)
ReceiptsMatch ==
    \A r \in receipts : r[2] # 0 /\ ops[r[1]].result_id = r[2]

(* The pending operations of a device, those with an unknown outcome       *)
(* included, never exceed the admission limit.                             *)
AdmissionBound ==
    \A d \in Device : Cardinality(PendingOn(d)) <= MaxPending

(* The stored artifacts of a device never exceed its quota: put_artifact   *)
(* frees only what it deletes in the same transaction.                     *)
QuotaRespected == \A d \in Device : BytesOf(StoredOn(d)) <= DeviceQuota

(* The identity of a result, once allocated, never changes, and neither    *)
(* does a saved handle; a definitive row never leaves its state.           *)
IdentitiesStable ==
    [][\A op \in Op :
        /\ ops[op].result_id # 0 => ops'[op].result_id = ops[op].result_id
        /\ ops[op].remote_task_id # NoHandle
           => ops'[op].remote_task_id = ops[op].remote_task_id
        /\ ops[op].state \in Final => ops'[op].state = ops[op].state]_vars

\* What the lifecycle shows of a row.
LifeOf(op) ==
    [state |-> ops[op].state,
     lane |-> IF ops[op].state = "absent" THEN NoRequest ELSE FlowOf(op),
     handle |-> ops[op].remote_task_id,
     cancel_requested |-> ops[op].cancel_requested,
     cancel_claimed |-> ops[op].cancel_claimed]

Lifecycles == INSTANCE OperationLifecycle WITH
                  Lane <- Device \X Flow, NoLane <- NoRequest,
                  life <- [op \in Op |-> LifeOf(op)]

(* The ledger's transactions implement the lifecycle: every one of them    *)
(* moves one operation along it (recover, all running ones) or shows it    *)
(* nothing, whatever the order of the calls.                               *)
ImplementsLifecycle == Lifecycles!LifecycleSpec
=============================================================================
