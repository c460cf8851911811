------------------------- MODULE BrokerStore_proofs -------------------------
(***************************************************************************)
(* Theorems about the ledger, for every value of the constants that the    *)
(* assumptions StoreKeys and StoreLimits admit.                            *)
(***************************************************************************)
EXTENDS BrokerStore, FiniteSetTheorems, TLAPS

(* What the transactions leave alone. *)
USE DEF feedVars

-----------------------------------------------------------------------------
(* Type correctness *)

(* A snapshot of a row has the shape of the feed's events (_snapshot). *)
LEMMA SnapshotType ==
    ASSUME NEW row \in Row
    PROVE  Snapshot(row) \in Snapshots
BY DEF Snapshot, Snapshots, Row

(* _finish writes a well-formed row. *)
LEMMA FinishedRowType ==
    ASSUME NEW row \in Row, NEW id \in Nat, NEW state \in Terminal,
           NEW result \in Result \cup {NoResult}, NEW code \in ErrorCode
    PROVE  FinishedRow(row, id, state, result, code) \in Row
<1>1. state \in State
    BY DEF State
<1>2. (IF row.result_id # 0 THEN row.result_id ELSE id) \in Nat
    BY DEF Row
<1>3. (IF result = NoResult THEN "none" ELSE "live") \in {"none", "live", "expired"}
    OBVIOUS
<1>. QED
    BY <1>1, <1>2, <1>3 DEF FinishedRow, Row

(* What _finish writes and what it keeps of a row. *)
LEMMA FinishedRowFields ==
    ASSUME NEW row \in Row, NEW id, NEW state, NEW result, NEW code
    PROVE  LET new == FinishedRow(row, id, state, result, code)
           IN  /\ new.state = state
               /\ new.request = row.request
               /\ new.remote_task_id = row.remote_task_id
               /\ row.result_id # 0 => new.result_id = row.result_id
BY DEF FinishedRow, Row

(* An update followed by _event keeps the tables well formed. *)
LEMMA PublishType ==
    ASSUME TypeOK, NEW op \in Op, NEW row \in Row, Publish(op, row)
    PROVE  /\ ops' \in [Op -> Row]
           /\ sequence' \in [Device -> Nat]
           /\ floor' \in [Device -> Nat]
           /\ events' \in [Device -> SUBSET Event]
<1>1. DeviceOf[op] \in Device
    BY StoreKeys
<1>2. [op |-> op, seq |-> sequence[DeviceOf[op]] + 1, snap |-> Snapshot(row)] \in Event
    BY <1>1, SnapshotType DEF TypeOK, Event
<1>. QED
    BY <1>1, <1>2 DEF TypeOK, Publish

(* A row that is not there yet is well formed. *)
LEMMA AbsentType == Absent \in Row
BY DEF Absent, Row, State, ErrorCode

(* _finish keeps the tables it changes well formed. *)
LEMMA FinishType ==
    ASSUME TypeOK, NEW op \in Op, NEW state \in Terminal,
           NEW result \in Result \cup {NoResult}, NEW code \in ErrorCode,
           FinishRow(op, state, result, code), UNCHANGED claims
    PROVE  TypeOK'
<1>1. FreshId(op) \in Nat
    BY StoreKeys DEF TypeOK, FreshId
<1>2. FinishedRow(ops[op], FreshId(op), state, result, code) \in Row
    BY <1>1, FinishedRowType DEF TypeOK
<1>3. /\ ops' \in [Op -> Row]
      /\ sequence' \in [Device -> Nat]
      /\ floor' \in [Device -> Nat]
      /\ events' \in [Device -> SUBSET Event]
    BY <1>2, PublishType DEF FinishRow
<1>. QED
    BY <1>3 DEF TypeOK, FinishRow

(* Every transaction keeps the tables well formed. *)
LEMMA TypeStep ==
    ASSUME TypeOK, [Next]_vars
    PROVE  TypeOK'
<1>1. CASE UNCHANGED vars
    BY <1>1 DEF TypeOK, vars
<1>2. ASSUME NEW op \in Op, NEW req \in Request, Accept(op, req)
      PROVE  TypeOK'
    <2>. DEFINE row == [Absent EXCEPT !.request = req, !.state = "accepted"]
    <2>1. row \in Row
        <3>1. "accepted" \in State
            BY DEF State
        <3>. QED
            BY <3>1, AbsentType DEF Row
    <2>2. /\ ops' \in [Op -> Row]
          /\ sequence' \in [Device -> Nat]
          /\ floor' \in [Device -> Nat]
          /\ events' \in [Device -> SUBSET Event]
        BY <1>2, <2>1, PublishType DEF Accept
    <2>3. /\ outbox' \in [Op -> {"none", "pending", "claimed", "done"}]
          /\ payloads' \subseteq Op
        BY <1>2 DEF TypeOK, Accept
    <2>4. UNCHANGED <<artifacts, receipts, dispatcher, claims>>
        BY <1>2 DEF Accept
    <2>. QED
        BY <2>2, <2>3, <2>4 DEF TypeOK
<1>3. ASSUME NEW op \in Op, CancelAccepted(op)
      PROVE  TypeOK'
    BY <1>3, FinishType DEF CancelAccepted, Terminal, Final, ErrorCode
<1>4. ASSUME NEW op \in Op, CancelRequested(op)
      PROVE  TypeOK'
    <2>1. [ops[op] EXCEPT !.cancel_requested = TRUE,
                          !.error = "cancel_unconfirmed"] \in Row
        <3>1. "cancel_unconfirmed" \in ErrorCode /\ TRUE \in BOOLEAN
            BY DEF ErrorCode
        <3>. QED
            BY <3>1 DEF TypeOK, Row
    <2>2. /\ ops' \in [Op -> Row]
          /\ sequence' \in [Device -> Nat]
          /\ floor' \in [Device -> Nat]
          /\ events' \in [Device -> SUBSET Event]
        BY <1>4, <2>1, PublishType DEF CancelRequested
    <2>. QED
        BY <1>4, <2>2 DEF TypeOK, CancelRequested
<1>5. ASSUME NEW op \in Op, NEW id \in 1 .. MaxSequence,
             NEW s \in ReceiptStatus, Receipt(op, id, s)
      PROVE  TypeOK'
    BY <1>5, StoreLimits DEF TypeOK, Receipt
<1>6. ASSUME NEW op \in Op, Claim(op)
      PROVE  TypeOK'
    <2>1. CASE ClaimPayloadExpired(op) /\ UNCHANGED claims
        BY <2>1, FinishType DEF ClaimPayloadExpired, Terminal, Final, ErrorCode
    <2>2. CASE ClaimArtifactExpired(op) /\ UNCHANGED claims
        BY <2>2, FinishType DEF ClaimArtifactExpired, Terminal, Final, ErrorCode
    <2>3. CASE ClaimRunning(op) /\ claims' = [claims EXCEPT ![op] = @ + 1]
        <3>1. [ops[op] EXCEPT !.state = "running"] \in Row
            BY DEF TypeOK, Row, State
        <3>2. /\ ops' \in [Op -> Row]
              /\ sequence' \in [Device -> Nat]
              /\ floor' \in [Device -> Nat]
              /\ events' \in [Device -> SUBSET Event]
            BY <2>3, <3>1, PublishType DEF ClaimRunning
        <3>3. /\ outbox' \in [Op -> {"none", "pending", "claimed", "done"}]
              /\ claims' \in [Op -> Nat]
            BY <2>3 DEF TypeOK, ClaimRunning
        <3>4. UNCHANGED <<payloads, artifacts, receipts, dispatcher>>
            BY <2>3 DEF ClaimRunning
        <3>. QED
            BY <3>2, <3>3, <3>4 DEF TypeOK
    <2>. QED
        BY <1>6, <2>1, <2>2, <2>3 DEF Claim
<1>7. ASSUME NEW op \in Op, NEW state \in Terminal,
             NEW result \in Result \cup {NoResult}, NEW code \in ErrorCode,
             Finish(op, state, result, code)
      PROVE  TypeOK'
    BY <1>7, FinishType DEF Finish, Terminal, Final, ErrorCode
<1>8. ASSUME NEW op \in Op, NEW h \in Handle, SaveHandle(op, h)
      PROVE  TypeOK'
    <2>1. [ops[op] EXCEPT !.remote_task_id = h] \in Row
        BY DEF TypeOK, Row
    <2>2. /\ ops' \in [Op -> Row]
          /\ sequence' \in [Device -> Nat]
          /\ floor' \in [Device -> Nat]
          /\ events' \in [Device -> SUBSET Event]
        BY <1>8, <2>1, PublishType DEF SaveHandle
    <2>. QED
        BY <1>8, <2>2 DEF TypeOK, SaveHandle
<1>9. ASSUME NEW op \in Op, ClaimCancel(op)
      PROVE  TypeOK'
    <2>1. [ops[op] EXCEPT !.cancel_claimed = TRUE] \in Row
        BY DEF TypeOK, Row
    <2>. QED
        BY <1>9, <2>1 DEF TypeOK, ClaimCancel
<1>10. ASSUME NEW d \in Device, NEW after \in 0 .. MaxSequence,
              NEW cut \in 0 .. MaxSequence, Events(d, after, cut)
       PROVE  TypeOK'
    BY <1>10, StoreLimits DEF TypeOK, Events, Remaining, Raised
<1>11. ASSUME NEW a \in Artifact, NEW expired \in SUBSET Artifact,
              PutArtifact(a, expired)
       PROVE  TypeOK'
    BY <1>11 DEF TypeOK, PutArtifact
<1>12. ASSUME NEW op \in Op, ResultExpires(op)
       PROVE  TypeOK'
    <2>1. [ops[op] EXCEPT !.expiry = "expired"] \in Row
        BY DEF TypeOK, Row
    <2>. QED
        BY <1>12, <2>1 DEF TypeOK, ResultExpires
<1>13. ASSUME NEW cut \in [Device -> 0 .. MaxSequence], NEW gp \in SUBSET Op,
              NEW ga \in SUBSET Artifact, Purge(cut, gp, ga)
       PROVE  TypeOK'
    <2>1. \A op \in Op : [ops[op] EXCEPT !.result = NoResult] \in Row
        BY DEF TypeOK, Row
    <2>2. ops' \in [Op -> Row]
        BY <1>13, <2>1 DEF TypeOK, Purge
    <2>3. /\ events' \in [Device -> SUBSET Event]
          /\ floor' \in [Device -> Nat]
        BY <1>13, StoreLimits DEF TypeOK, Purge, Remaining, Raised
    <2>. QED
        BY <1>13, <2>2, <2>3 DEF TypeOK, Purge
<1>14. CASE AcquireDispatcher \/ Close
    BY <1>14 DEF TypeOK, AcquireDispatcher, Close
<1>15. ASSUME NEW slot \in [Running -> 1 .. MaxSequence],
              NEW last \in [Device -> 0 .. MaxSequence],
              RecoverWith(slot, last),
              UNCHANGED <<floor, artifacts, receipts, dispatcher, claims>>
       PROVE  TypeOK'
    <2>. DEFINE after(op) == FinishedRow(ops[op], slot[op], "outcome_unknown",
                                         NoResult, "restart_unknown")
    <2>1. ASSUME NEW op \in Running
          PROVE  after(op) \in Row /\ slot[op] \in Nat /\ op \in Op
        <3>1. slot[op] \in Nat /\ op \in Op
            BY StoreLimits DEF Running
        <3>2. "outcome_unknown" \in Terminal /\ "restart_unknown" \in ErrorCode
            BY DEF Terminal, ErrorCode
        <3>. QED
            BY <3>1, <3>2, FinishedRowType DEF TypeOK
    <2>2. ops' = [op \in Op |-> IF op \in Running THEN after(op) ELSE ops[op]]
        BY <1>15 DEF RecoverWith
    <2>3. ops' \in [Op -> Row]
        BY <2>1, <2>2 DEF TypeOK
    <2>4. ASSUME NEW d \in Device
          PROVE  {[op |-> op, seq |-> slot[op], snap |-> Snapshot(after(op))] :
                      op \in RunningOn(d)} \subseteq Event
        <3>1. RunningOn(d) \subseteq Running
            BY DEF RunningOn, Running, OpsOn
        <3>. QED
            BY <2>1, <3>1, SnapshotType DEF Event
    <2>5. events' = [d \in Device |-> events[d] \cup
                {[op |-> op, seq |-> slot[op], snap |-> Snapshot(after(op))] :
                    op \in RunningOn(d)}]
        <3>1. \A d \in Device : RunningOn(d) \subseteq Running
            BY DEF RunningOn, Running, OpsOn
        <3>2. \A d \in Device :
                {[op |-> op, seq |-> slot[op],
                  snap |-> Snapshot([q \in Running |-> after(q)][op])] :
                    op \in RunningOn(d)}
              = {[op |-> op, seq |-> slot[op], snap |-> Snapshot(after(op))] :
                    op \in RunningOn(d)}
            BY <3>1
        <3>. QED
            BY <1>15, <3>2 DEF RecoverWith
    <2>6. events' \in [Device -> SUBSET Event]
        BY <2>4, <2>5 DEF TypeOK
    <2>7. sequence' \in [Device -> Nat]
        BY <1>15, StoreLimits DEF RecoverWith
    <2>. QED
        BY <1>15, <2>3, <2>6, <2>7 DEF TypeOK, RecoverWith
<1>16. ASSUME NEW op \in Op, Finishes(op)
       PROVE  TypeOK'
    BY <1>7, <1>16 DEF Finishes, Terminal, Final, ErrorCode
<1>. QED
    BY <1>1, <1>2, <1>3, <1>4, <1>5, <1>6, <1>8, <1>9, <1>10, <1>11, <1>12,
       <1>13, <1>14, <1>15, <1>16
    DEF Next, Requests, Dispatches, CancelIntent, Retention, Process, Recover

(* The tables of the ledger are well formed in every reachable state. *)
THEOREM TypeCorrect == Spec => []TypeOK
<1>1. Init => TypeOK
    <2>. SUFFICES ASSUME Init PROVE TypeOK
        OBVIOUS
    <2>1. ops \in [Op -> Row]
        BY AbsentType DEF Init
    <2>2. /\ dispatcher \in BOOLEAN
          /\ events \in [Device -> SUBSET Event]
        BY DEF Init
    <2>. QED
        BY <2>1, <2>2 DEF Init, TypeOK
<1>2. TypeOK /\ [Next]_vars => TypeOK'
    BY TypeStep
<1>. QED
    BY <1>1, <1>2, PTL DEF Spec

-----------------------------------------------------------------------------
(***************************************************************************)
(* The lifecycle.  FlowSerialized and ClaimedOnce are not inductive alone: *)
(* that an unresolved operation was claimed, and that a claimed one is no  *)
(* longer accepted, is what OutboxAgrees adds.                             *)
(***************************************************************************)
Lifecycle == OutboxAgrees /\ FlowSerialized /\ ClaimedOnce

(* Transactions that change no state, no outbox row and no claim. *)
LEMMA LifecycleFrame ==
    ASSUME TypeOK, Lifecycle,
           \A op \in Op : /\ ops'[op].state = ops[op].state
                          /\ ops'[op].request = ops[op].request,
           outbox' = outbox, claims' = claims, payloads' \subseteq payloads
    PROVE  Lifecycle'
<1>1. OutboxAgrees'
    BY DEF Lifecycle, OutboxAgrees
<1>2. FlowSerialized'
    BY DEF Lifecycle, FlowSerialized, FlowOf
<1>3. ClaimedOnce'
    BY DEF Lifecycle, ClaimedOnce
<1>. QED
    BY <1>1, <1>2, <1>3 DEF Lifecycle

(* _finish moves an accepted operation to a definitive state and a claimed *)
(* one to any terminal state.                                              *)
LEMMA LifecycleFinish ==
    ASSUME TypeOK, Lifecycle, NEW op \in Op, NEW state \in Terminal,
           NEW result, NEW code,
           FinishRow(op, state, result, code), UNCHANGED claims,
           ops[op].state # "absent",
           Claimed(op) \/ state \in {"failed", "canceled"}
    PROVE  Lifecycle'
<1>1. /\ ops'[op].state = state
      /\ ops'[op].request = ops[op].request
      /\ \A q \in Op : q # op => ops'[q] = ops[q]
    BY DEF TypeOK, Row, FinishRow, FinishedRow, Publish
<1>2. /\ outbox'[op] = "done"
      /\ \A q \in Op : q # op => outbox'[q] = outbox[q]
      /\ payloads' = payloads \ {op}
      /\ claims' = claims
      /\ ops[op].state \notin Final
    BY DEF TypeOK, FinishRow, Open
<1>3. OutboxAgrees'
    BY <1>1, <1>2 DEF Lifecycle, OutboxAgrees, Claimed, Terminal, Final, Active
<1>4. FlowSerialized'
    <2>1. state \in Active => ops[op].state \in Active
        BY <1>2 DEF Lifecycle, OutboxAgrees, Claimed, Active, Final
    <2>. QED
        BY <1>1, <2>1 DEF Lifecycle, FlowSerialized, FlowOf
<1>5. ClaimedOnce'
    BY <1>2 DEF Lifecycle, ClaimedOnce
<1>. QED
    BY <1>3, <1>4, <1>5 DEF Lifecycle

(* Every transaction preserves the lifecycle invariant. *)
LEMMA LifecycleStep ==
    ASSUME TypeOK, Lifecycle, [Next]_vars
    PROVE  Lifecycle'
<1>1. CASE UNCHANGED vars
    BY <1>1, LifecycleFrame DEF vars
<1>2. ASSUME NEW op \in Op, NEW req \in Request, Accept(op, req)
      PROVE  Lifecycle'
    <2>1. /\ ops[op].state = "absent"
          /\ ops'[op].state = "accepted"
          /\ \A q \in Op : q # op => ops'[q] = ops[q]
        BY <1>2 DEF TypeOK, Accept, NotPrevious, Publish, Absent
    <2>2. /\ outbox'[op] = "pending"
          /\ \A q \in Op : q # op => outbox'[q] = outbox[q]
          /\ payloads' = payloads \cup {op}
          /\ claims' = claims
        BY <1>2 DEF TypeOK, Accept
    <2>3. OutboxAgrees'
        BY <2>1, <2>2 DEF Lifecycle, OutboxAgrees, Active, Final
    <2>4. FlowSerialized'
        BY <2>1 DEF Lifecycle, FlowSerialized, FlowOf, Active
    <2>5. ClaimedOnce'
        BY <2>2 DEF Lifecycle, ClaimedOnce
    <2>. QED
        BY <2>3, <2>4, <2>5 DEF Lifecycle
<1>3. ASSUME NEW op \in Op, CancelAccepted(op)
      PROVE  Lifecycle'
    BY <1>3, LifecycleFinish DEF CancelAccepted, Terminal, Final
<1>4. ASSUME NEW op \in Op, CancelRequested(op)
      PROVE  Lifecycle'
    BY <1>4, LifecycleFrame DEF CancelRequested, Publish, TypeOK, Row
<1>5. ASSUME NEW op \in Op, NEW id \in 1 .. MaxSequence,
             NEW s \in ReceiptStatus, Receipt(op, id, s)
      PROVE  Lifecycle'
    BY <1>5, LifecycleFrame DEF Receipt
<1>6. ASSUME NEW op \in Op, Claim(op)
      PROVE  Lifecycle'
    <2>0. ops[op].state = "accepted"
        BY <1>6 DEF Claim, Claimable
    <2>1. CASE ClaimPayloadExpired(op) /\ UNCHANGED claims
        BY <2>0, <2>1, LifecycleFinish DEF ClaimPayloadExpired, Terminal, Final
    <2>2. CASE ClaimArtifactExpired(op) /\ UNCHANGED claims
        BY <2>0, <2>2, LifecycleFinish DEF ClaimArtifactExpired, Terminal, Final
    <2>3. CASE ClaimRunning(op) /\ claims' = [claims EXCEPT ![op] = @ + 1]
        <3>1. /\ ops'[op].state = "running"
              /\ ops'[op].request = ops[op].request
              /\ \A q \in Op : q # op => ops'[q] = ops[q]
            BY <2>3 DEF TypeOK, Row, ClaimRunning, Publish
        <3>2. /\ outbox'[op] = "claimed"
              /\ \A q \in Op : q # op => outbox'[q] = outbox[q]
              /\ payloads' = payloads
            BY <2>3 DEF TypeOK, ClaimRunning
        <3>3. /\ claims[op] = 0
              /\ claims'[op] = 1
              /\ \A q \in Op : q # op => claims'[q] = claims[q]
            <4>1. claims[op] \in Nat /\ ~(claims[op] > 0)
                BY <2>0 DEF TypeOK, Lifecycle, OutboxAgrees, Active, Final
            <4>. QED
                BY <2>3, <4>1 DEF TypeOK
        <3>4. OutboxAgrees'
            BY <3>1, <3>2, <3>3, <2>0 DEF Lifecycle, OutboxAgrees, Active, Final
        <3>5. FlowSerialized'
            <4>1. \A q \in Op : ops[q].state \in Active => FlowOf(q) # FlowOf(op)
                BY <1>6 DEF Claim, Claimable
            <4>. QED
                BY <3>1, <4>1 DEF Lifecycle, FlowSerialized, FlowOf
        <3>6. ClaimedOnce'
            BY <3>3 DEF Lifecycle, ClaimedOnce
        <3>. QED
            BY <3>4, <3>5, <3>6 DEF Lifecycle
    <2>. QED
        BY <1>6, <2>1, <2>2, <2>3 DEF Claim
<1>7. ASSUME NEW op \in Op, NEW state \in Terminal, NEW result, NEW code,
             Finish(op, state, result, code)
      PROVE  Lifecycle'
    <2>1. ops[op].state # "absent"
        BY <1>7 DEF Finish, Claimed, Lifecycle, OutboxAgrees, Active, Final
    <2>. QED
        BY <1>7, <2>1, LifecycleFinish DEF Finish, Terminal, Final
<1>8. ASSUME NEW op \in Op, NEW h \in Handle, SaveHandle(op, h)
      PROVE  Lifecycle'
    BY <1>8, LifecycleFrame DEF SaveHandle, Publish, TypeOK, Row
<1>9. ASSUME NEW op \in Op, ClaimCancel(op)
      PROVE  Lifecycle'
    BY <1>9, LifecycleFrame DEF ClaimCancel, TypeOK, Row
<1>10. ASSUME NEW d \in Device, NEW after, NEW cut, Events(d, after, cut)
       PROVE  Lifecycle'
    BY <1>10, LifecycleFrame DEF Events
<1>11. ASSUME NEW a \in Artifact, NEW expired, PutArtifact(a, expired)
       PROVE  Lifecycle'
    BY <1>11, LifecycleFrame DEF PutArtifact
<1>12. ASSUME NEW op \in Op, ResultExpires(op)
       PROVE  Lifecycle'
    BY <1>12, LifecycleFrame DEF ResultExpires, TypeOK, Row
<1>13. ASSUME NEW cut, NEW gp, NEW ga, Purge(cut, gp, ga)
       PROVE  Lifecycle'
    <2>1. \A op \in Op : /\ ops'[op].state = ops[op].state
                         /\ ops'[op].request = ops[op].request
        BY <1>13 DEF Purge, TypeOK, Row
    <2>. QED
        BY <1>13, <2>1, LifecycleFrame DEF Purge
<1>14. CASE AcquireDispatcher \/ Close
    BY <1>14, LifecycleFrame DEF AcquireDispatcher, Close
<1>15. CASE Recover
    <2>1. \A op \in Op \ Running : ops'[op] = ops[op] /\ outbox'[op] = outbox[op]
        BY <1>15 DEF Recover, RecoverWith
    <2>2. \A op \in Running : /\ ops'[op].state = "outcome_unknown"
                              /\ ops'[op].request = ops[op].request
                              /\ ops[op].state = "running"
                              /\ outbox'[op] = "done"
        <3>1. PICK slot : \A op \in Running :
                  /\ ops'[op] = FinishedRow(ops[op], slot[op], "outcome_unknown",
                                            NoResult, "restart_unknown")
                  /\ outbox'[op] = "done"
            BY <1>15 DEF Recover, RecoverWith, Running
        <3>. QED
            BY <3>1, FinishedRowFields DEF Running, TypeOK
    <2>3. payloads' = payloads \ Running /\ claims' = claims
        BY <1>15 DEF Recover, RecoverWith
    <2>4. OutboxAgrees'
        BY <2>1, <2>2, <2>3 DEF Lifecycle, OutboxAgrees, Active, Final
    <2>5. FlowSerialized'
        BY <2>1, <2>2 DEF Lifecycle, FlowSerialized, FlowOf, Active
    <2>6. ClaimedOnce'
        BY <2>3 DEF Lifecycle, ClaimedOnce
    <2>. QED
        BY <2>4, <2>5, <2>6 DEF Lifecycle
<1>16. ASSUME NEW op \in Op, Finishes(op)
       PROVE  Lifecycle'
    BY <1>7, <1>16 DEF Finishes, Terminal, Final
<1>. QED
    BY <1>1, <1>2, <1>3, <1>4, <1>5, <1>6, <1>8, <1>9, <1>10, <1>11, <1>12,
       <1>13, <1>14, <1>15, <1>16
    DEF Next, Requests, Dispatches, CancelIntent, Retention, Process

(* The lifecycle invariant holds in every reachable state. *)
THEOREM LifecycleCorrect == Spec => []Lifecycle
<1>1. Init => Lifecycle
    BY DEF Init, Lifecycle, OutboxAgrees, FlowSerialized, ClaimedOnce, Absent,
           Active, Final
<1>2. TypeOK /\ Lifecycle /\ [Next]_vars => Lifecycle'
    BY LifecycleStep
<1>. QED
    BY <1>1, <1>2, TypeCorrect, PTL DEF Spec

(* At most one operation of a flow is running or unresolved (claim). *)
THEOREM FlowsAreSerialized == Spec => []FlowSerialized
<1>1. Lifecycle => FlowSerialized
    BY DEF Lifecycle
<1>. QED
    BY <1>1, LifecycleCorrect, PTL

(* No operation is handed out twice, across restarts and duplicates. *)
THEOREM NoOperationIsClaimedTwice == Spec => []ClaimedOnce
<1>1. Lifecycle => ClaimedOnce
    BY DEF Lifecycle
<1>. QED
    BY <1>1, LifecycleCorrect, PTL

(* The outbox and the claims agree with the lifecycle (accept, _finish). *)
THEOREM OutboxIsConsistent == Spec => []OutboxAgrees
<1>1. Lifecycle => OutboxAgrees
    BY DEF Lifecycle
<1>. QED
    BY <1>1, LifecycleCorrect, PTL

-----------------------------------------------------------------------------
(***************************************************************************)
(* Admission.  Only accept() makes an operation pending; the others keep   *)
(* it pending or end it.  The pending operations of a device are finitely  *)
(* many, so they can be counted whatever the set of keys.                  *)
(***************************************************************************)
Pending == {"accepted"} \cup Active

Admission ==
    \A d \in Device : /\ IsFiniteSet(PendingOn(d))
                      /\ Cardinality(PendingOn(d)) <= MaxPending

(* Transactions that make no operation pending. *)
LEMMA AdmissionFrame ==
    ASSUME Admission,
           \A op \in Op : ops'[op].state \in Pending => ops[op].state \in Pending
    PROVE  Admission'
<1>. SUFFICES ASSUME NEW d \in Device
              PROVE  /\ IsFiniteSet(PendingOn(d)')
                     /\ Cardinality(PendingOn(d)') <= MaxPending
    BY DEF Admission
<1>1. PendingOn(d)' \in SUBSET PendingOn(d)
    BY DEF PendingOn, OpsOn, Pending
<1>2. IsFiniteSet(PendingOn(d)) /\ Cardinality(PendingOn(d)) <= MaxPending
    BY DEF Admission
<1>3. /\ IsFiniteSet(PendingOn(d)')
      /\ Cardinality(PendingOn(d)') <= Cardinality(PendingOn(d))
    BY <1>1, <1>2, FS_Subset
<1>4. Cardinality(PendingOn(d)) \in Nat /\ Cardinality(PendingOn(d)') \in Nat
    BY <1>2, <1>3, FS_CardinalityType
<1>. QED
    BY <1>2, <1>3, <1>4, StoreLimits

(* _finish of a row that is there and not definitive. *)
LEMMA AdmissionFinish ==
    ASSUME TypeOK, Admission, NEW op \in Op, NEW state, NEW result, NEW code,
           FinishRow(op, state, result, code), ops[op].state # "absent"
    PROVE  Admission'
<1>1. ops[op].state \in Pending
    BY DEF FinishRow, Open, Pending, Active, TypeOK, Row, State, Terminal, Final
<1>2. \A q \in Op : q # op => ops'[q] = ops[q]
    BY DEF TypeOK, FinishRow, Publish
<1>. QED
    BY <1>1, <1>2, AdmissionFrame

(* accept(): the count is checked in the transaction that adds the row. *)
LEMMA AdmissionAccept ==
    ASSUME TypeOK, Admission, NEW op \in Op, NEW req \in Request, Accept(op, req)
    PROVE  Admission'
<1>1. \A q \in Op : q # op => ops'[q] = ops[q]
    BY DEF TypeOK, Accept, Publish
<1>. SUFFICES ASSUME NEW d \in Device
              PROVE  /\ IsFiniteSet(PendingOn(d)')
                     /\ Cardinality(PendingOn(d)') <= MaxPending
    BY DEF Admission
<1>2. /\ IsFiniteSet(PendingOn(d)) /\ Cardinality(PendingOn(d)) <= MaxPending
      /\ Cardinality(PendingOn(d)) \in Nat
    BY FS_CardinalityType DEF Admission
<1>3. CASE d # DeviceOf[op]
    <2>1. PendingOn(d)' = PendingOn(d)
        BY <1>1, <1>3 DEF PendingOn, OpsOn
    <2>. QED
        BY <1>2, <2>1
<1>4. CASE d = DeviceOf[op]
    <2>1. PendingOn(d)' \in SUBSET (PendingOn(d) \cup {op})
        BY <1>1 DEF PendingOn, OpsOn
    <2>2. Cardinality(PendingOn(d)) < MaxPending
        BY <1>4 DEF Accept, Admits
    <2>3. /\ IsFiniteSet(PendingOn(d) \cup {op})
          /\ Cardinality(PendingOn(d) \cup {op}) <= Cardinality(PendingOn(d)) + 1
        <3>1. /\ IsFiniteSet(PendingOn(d) \cup {op})
              /\ Cardinality(PendingOn(d) \cup {op}) =
                   IF op \in PendingOn(d) THEN Cardinality(PendingOn(d))
                   ELSE Cardinality(PendingOn(d)) + 1
            BY <1>2, FS_AddElement
        <3>. QED
            BY <1>2, <3>1
    <2>4. /\ IsFiniteSet(PendingOn(d)')
          /\ Cardinality(PendingOn(d)') <= Cardinality(PendingOn(d) \cup {op})
        BY <2>1, <2>3, FS_Subset
    <2>5. /\ Cardinality(PendingOn(d)') \in Nat
          /\ Cardinality(PendingOn(d) \cup {op}) \in Nat
        BY <2>3, <2>4, FS_CardinalityType
    <2>. QED
        BY <1>2, <2>2, <2>3, <2>4, <2>5, StoreLimits
<1>. QED
    BY <1>3, <1>4

(* Every transaction keeps a device within its admission limit. *)
LEMMA AdmissionStep ==
    ASSUME TypeOK, Lifecycle, Admission, [Next]_vars
    PROVE  Admission'
<1>1. CASE ops' = ops
    BY <1>1, AdmissionFrame
<1>2. ASSUME NEW op \in Op, CancelAccepted(op)
      PROVE  Admission'
    BY <1>2, AdmissionFinish DEF CancelAccepted
<1>3. ASSUME NEW op \in Op, CancelRequested(op)
      PROVE  Admission'
    <2>1. /\ ops[op].state \in Pending
          /\ \A q \in Op : q # op => ops'[q] = ops[q]
        BY <1>3 DEF CancelRequested, Publish, TypeOK, Pending
    <2>. QED
        BY <2>1, AdmissionFrame
<1>4. ASSUME NEW op \in Op, Claim(op)
      PROVE  Admission'
    <2>0. ops[op].state = "accepted"
        BY <1>4 DEF Claim, Claimable
    <2>1. CASE ClaimPayloadExpired(op) \/ ClaimArtifactExpired(op)
        BY <2>0, <2>1, AdmissionFinish DEF ClaimPayloadExpired, ClaimArtifactExpired
    <2>2. CASE ClaimRunning(op)
        <3>1. \A q \in Op : q # op => ops'[q] = ops[q]
            BY <2>2 DEF ClaimRunning, Publish, TypeOK
        <3>. QED
            BY <2>0, <3>1, AdmissionFrame DEF Pending
    <2>. QED
        BY <1>4, <2>1, <2>2 DEF Claim
<1>5. ASSUME NEW op \in Op, NEW state, NEW result, NEW code,
             Finish(op, state, result, code)
      PROVE  Admission'
    <2>1. ops[op].state # "absent"
        BY <1>5 DEF Finish, Claimed, Lifecycle, OutboxAgrees, Active, Final
    <2>. QED
        BY <1>5, <2>1, AdmissionFinish DEF Finish
<1>6. ASSUME NEW op \in Op, Finishes(op)
      PROVE  Admission'
    BY <1>5, <1>6 DEF Finishes
<1>7. ASSUME NEW op \in Op, NEW h \in Handle, SaveHandle(op, h)
      PROVE  Admission'
    <2>1. \A q \in Op : ops'[q].state = ops[q].state
        BY <1>7 DEF SaveHandle, Publish, TypeOK, Row
    <2>. QED
        BY <2>1, AdmissionFrame
<1>8. ASSUME NEW op \in Op, ClaimCancel(op) \/ ResultExpires(op)
      PROVE  Admission'
    <2>1. \A q \in Op : ops'[q].state = ops[q].state
        <3>1. CASE ClaimCancel(op)
            BY <3>1 DEF ClaimCancel, TypeOK, Row
        <3>2. CASE ResultExpires(op)
            BY <3>2 DEF ResultExpires, TypeOK, Row
        <3>. QED
            BY <1>8, <3>1, <3>2
    <2>. QED
        BY <2>1, AdmissionFrame
<1>9. ASSUME NEW cut, NEW gp, NEW ga, Purge(cut, gp, ga)
      PROVE  Admission'
    <2>1. \A q \in Op : ops'[q].state = ops[q].state
        BY <1>9 DEF Purge, TypeOK, Row
    <2>. QED
        BY <2>1, AdmissionFrame
<1>10. CASE Recover
    <2>1. \A q \in Op \ Running : ops'[q] = ops[q]
        BY <1>10 DEF Recover, RecoverWith
    <2>2. \A q \in Op : q \in Running => ops[q].state \in Pending
        BY DEF Running, Pending, Active
    <2>. QED
        BY <2>1, <2>2, AdmissionFrame
<1>11. CASE UNCHANGED vars
    BY <1>1, <1>11 DEF vars
<1>. QED
    BY <1>1, <1>2, <1>3, <1>4, <1>6, <1>7, <1>8, <1>9, <1>10, <1>11, AdmissionAccept
    DEF Next, Requests, Dispatches, CancelIntent, Receipt, Retention, Events,
        PutArtifact, Process, AcquireDispatcher, Close

(* The pending operations of a device, those with an unknown outcome       *)
(* included, never exceed max_pending_per_device (accept).                 *)
THEOREM AdmissionIsBounded == Spec => []AdmissionBound
<1>1. Init => Admission
    <2>. SUFFICES ASSUME Init PROVE Admission
        OBVIOUS
    <2>1. \A d \in Device : PendingOn(d) = {}
        BY DEF Init, PendingOn, OpsOn, Absent, Active
    <2>. QED
        BY <2>1, FS_EmptySet, StoreLimits DEF Admission
<1>2. TypeOK /\ Lifecycle /\ Admission /\ [Next]_vars => Admission'
    BY AdmissionStep
<1>3. Admission => AdmissionBound
    BY DEF Admission, AdmissionBound
<1>. QED
    BY <1>1, <1>2, <1>3, TypeCorrect, LifecycleCorrect, PTL DEF Spec

-----------------------------------------------------------------------------
(***************************************************************************)
(* The bytes of a set of artifacts (SELECT sum(size)).  BytesOf is a fold  *)
(* over a finite set; its recursion has a solution, the solution does not  *)
(* depend on where the fold starts or on the order it takes, and it grows  *)
(* with the set.  The inductions are least-counterexample arguments.       *)
(***************************************************************************)
(* A set of numbers that is not empty has a least element. *)
LEMMA LeastNumber ==
    ASSUME NEW T, T \subseteq Nat, T # {}
    PROVE  \E n \in T : \A m \in T : n <= m
<1>. DEFINE Less == {ss \in Nat \X Nat : ss[1] < ss[2]}
<1>1. Less = OpToRel(<, Nat)
    BY DEF OpToRel
<1>2. IsWellFoundedOn(Less, Nat)
    BY <1>1, NatLessThanWellFounded, Zenon
<1>3. ASSUME NEW m \in Nat, NEW n \in Nat, ~(<<m, n>> \in Less)
      PROVE  n <= m
    BY <1>3
<1>. HIDE DEF Less
<1>4. PICK n \in T : \A m \in T : ~(<<m, n>> \in Less)
    BY <1>2, WFMin
<1>5. ASSUME NEW m \in T PROVE n <= m
    <2>1. m \in Nat /\ n \in Nat
        OBVIOUS
    <2>2. ~(<<m, n>> \in Less)
        BY <1>4, Zenon
    <2>. QED
        BY <1>3, <2>1, <2>2, Zenon
<1>. QED
    BY <1>5

\* The element the fold takes first.
First(s) == CHOOSE x \in s : TRUE

\* One unfolding of the sum over s, when f holds the sums of its subsets.
Unfold(f, s) == IF s = {} THEN 0 ELSE ArtifactSize[First(s)] + f[s \ {First(s)}]

\* The function the fold computes on the subsets of S.
SumOn(S) == CHOOSE f : f = [s \in SUBSET S |-> Unfold(f, s)]

(* It is an element of the set. *)
LEMMA FirstIn ==
    ASSUME NEW s, s # {}
    PROVE  First(s) \in s
BY DEF First

(* BytesOf is that function, applied to the set itself. *)
LEMMA BytesOfFold ==
    ASSUME NEW S
    PROVE  BytesOf(S) = SumOn(S)[S]
BY Zenon DEF BytesOf, MapThenSumSet, MapThenFoldSet, SumOn, First, Unfold

(* The recursion has a solution on the subsets of a finite set. *)
LEMMA SumExists ==
    ASSUME NEW S, IsFiniteSet(S)
    PROVE  \E f : f = [s \in SUBSET S |-> Unfold(f, s)]
<1>. DEFINE Upto(f, n) == /\ f = [s \in SUBSET S |-> f[s]]
                          /\ \A s \in SUBSET S :
                               Cardinality(s) <= n => f[s] = Unfold(f, s)
            Failing == {n \in Nat : ~ \E f : Upto(f, n)}
<1>1. ASSUME NEW f, NEW n \in Nat, Upto(f, n)
      PROVE  \E g : Upto(g, n + 1)
    <2>. DEFINE g == [s \in SUBSET S |-> Unfold(f, s)]
    <2>1. g = [s \in SUBSET S |-> g[s]]
        OBVIOUS
    <2>2. ASSUME NEW s \in SUBSET S, Cardinality(s) <= n + 1
          PROVE  g[s] = Unfold(g, s)
        <3>1. CASE s = {}
            BY <3>1 DEF Unfold
        <3>2. CASE s # {}
            <4>. DEFINE x == First(s)
                        t == s \ {x}
            <4>1. x \in s /\ t \in SUBSET S
                BY <3>2, FirstIn
            <4>. HIDE DEF x
            <4>2. Cardinality(s) \in Nat /\ Cardinality(t) = Cardinality(s) - 1
                BY <4>1, FS_Subset, FS_RemoveElement, FS_CardinalityType
            <4>. HIDE DEF t
            <4>3. f[t] = Unfold(f, t)
                <5>1. Cardinality(t) <= n
                    BY <2>2, <4>2
                <5>. QED
                    BY <1>1, <4>1, <5>1
            <4>4. g[t] = f[t]
                BY <4>1, <4>3
            <4>5. /\ Unfold(f, s) = ArtifactSize[x] + f[t]
                  /\ Unfold(g, s) = ArtifactSize[x] + g[t]
                BY <3>2 DEF Unfold, x, t
            <4>. QED
                BY <4>4, <4>5
        <3>. QED
            BY <3>1, <3>2
    <2>3. Upto(g, n + 1)
        BY <2>1, <2>2
    <2>. QED
        BY <2>3
<1>2. \E f : Upto(f, 0)
    <2>. DEFINE f == [s \in SUBSET S |-> 0]
    <2>1. ASSUME NEW s \in SUBSET S, Cardinality(s) <= 0
          PROVE  f[s] = Unfold(f, s)
        <3>1. s = {}
            BY <2>1, FS_Subset, FS_CardinalityType, FS_EmptySet
        <3>. QED
            BY <3>1 DEF Unfold
    <2>2. Upto(f, 0)
        BY <2>1
    <2>. QED
        BY <2>2
<1>3. Failing = {}
    <2>. SUFFICES ASSUME Failing # {} PROVE FALSE
        OBVIOUS
    <2>1. Failing \subseteq Nat
        OBVIOUS
    <2>. HIDE DEF Upto
    <2>2. PICK n \in Failing : \A m \in Failing : n <= m
        BY <2>1, LeastNumber
    <2>3. n \in Nat /\ n # 0
        BY <1>2
    <2>4. n - 1 \in Nat /\ n - 1 \notin Failing
        BY <2>2, <2>3
    <2>5. PICK f : Upto(f, n - 1)
        BY <2>4
    <2>6. \E g : Upto(g, (n - 1) + 1)
        BY <1>1, <2>4, <2>5
    <2>. QED
        BY <2>3, <2>6
<1>4. Cardinality(S) \in Nat
    BY FS_CardinalityType
<1>5. PICK f : Upto(f, Cardinality(S))
    BY <1>3, <1>4
<1>6. \A s \in SUBSET S : f[s] = Unfold(f, s)
    BY <1>5, FS_Subset
<1>7. f = [s \in SUBSET S |-> Unfold(f, s)]
    BY <1>5, <1>6
<1>. QED
    BY <1>7

(* The fold's function satisfies the recursion it is chosen by. *)
LEMMA SumOnUnfolds ==
    ASSUME NEW S, IsFiniteSet(S), NEW s \in SUBSET S
    PROVE  SumOn(S)[s] = Unfold(SumOn(S), s)
<1>1. SumOn(S) = [t \in SUBSET S |-> Unfold(SumOn(S), t)]
    BY SumExists, Zenon DEF SumOn
<1>. QED
    BY <1>1

(* A collection of subsets of a finite set has a member from which no      *)
(* single element can be removed: induction over finite sets.              *)
LEMMA MinimalMember ==
    ASSUME NEW S, IsFiniteSet(S), NEW C, C \subseteq SUBSET S, C # {}
    PROVE  \E s \in C : \A x \in s : s \ {x} \notin C
<1>1. IsWellFoundedOn(StrictSubsetOrdering(S), SUBSET S)
    BY FS_FiniteSubsetsOfFinite, FS_StrictSubsetOrderingWellFounded, Zenon
<1>2. PICK s \in C : \A t \in C : ~(<<t, s>> \in StrictSubsetOrdering(S))
    BY <1>1, WFMin
<1>3. ASSUME NEW x \in s, s \ {x} \in C PROVE FALSE
    <2>1. <<s \ {x}, s>> \in StrictSubsetOrdering(S)
        BY <1>3 DEF StrictSubsetOrdering
    <2>. QED
        BY <1>2, <1>3, <2>1
<1>. QED
    BY <1>3

(* The sum over a set does not depend on the set the fold started from. *)
LEMMA SumOnAgrees ==
    ASSUME NEW S, IsFiniteSet(S), NEW T \in SUBSET S
    PROVE  SumOn(S)[T] = BytesOf(T)
<1>. DEFINE Differ == {s \in SUBSET T : SumOn(S)[s] # SumOn(T)[s]}
<1>1. IsFiniteSet(T)
    BY FS_Subset
<1>2. Differ = {}
    <2>. SUFFICES ASSUME Differ # {} PROVE FALSE
        OBVIOUS
    <2>1. PICK s \in Differ : \A x \in s : s \ {x} \notin Differ
        BY <1>1, MinimalMember
    <2>2. /\ SumOn(S)[s] = Unfold(SumOn(S), s)
          /\ SumOn(T)[s] = Unfold(SumOn(T), s)
        BY <1>1, SumOnUnfolds
    <2>3. CASE s = {}
        BY <2>2, <2>3 DEF Unfold
    <2>4. CASE s # {}
        <3>1. First(s) \in s
            BY <2>4, FirstIn
        <3>2. SumOn(S)[s \ {First(s)}] = SumOn(T)[s \ {First(s)}]
            BY <2>1, <3>1
        <3>3. Unfold(SumOn(S), s) = Unfold(SumOn(T), s)
            BY <2>4, <3>2 DEF Unfold
        <3>. QED
            BY <2>2, <3>3
    <2>. QED
        BY <2>3, <2>4
<1>. QED
    BY <1>2, BytesOfFold

(* The sum over no artifact, and over a set and its first element. *)
LEMMA BytesOfFirst ==
    ASSUME NEW S, IsFiniteSet(S)
    PROVE  /\ S = {} => BytesOf(S) = 0
           /\ S # {} => BytesOf(S) = ArtifactSize[First(S)] + BytesOf(S \ {First(S)})
<1>1. BytesOf(S) = Unfold(SumOn(S), S)
    BY BytesOfFold, SumOnUnfolds
<1>2. SumOn(S)[S \ {First(S)}] = BytesOf(S \ {First(S)})
    BY SumOnAgrees
<1>. QED
    BY <1>1, <1>2 DEF Unfold

(* Sizes add up to a number of bytes. *)
LEMMA BytesOfType ==
    ASSUME NEW S \in SUBSET Artifact, IsFiniteSet(S)
    PROVE  BytesOf(S) \in Nat
<1>. DEFINE Bad == {s \in SUBSET S : BytesOf(s) \notin Nat}
<1>1. Bad = {}
    <2>. SUFFICES ASSUME Bad # {} PROVE FALSE
        OBVIOUS
    <2>1. PICK s \in Bad : \A x \in s : s \ {x} \notin Bad
        BY MinimalMember
    <2>2. IsFiniteSet(s)
        BY FS_Subset
    <2>3. s # {}
        BY <2>2, BytesOfFirst
    <2>4. First(s) \in s
        BY <2>3, FirstIn
    <2>5. BytesOf(s \ {First(s)}) \in Nat
        BY <2>1, <2>4
    <2>6. ArtifactSize[First(s)] \in Nat
        BY <2>4, StoreKeys
    <2>7. BytesOf(s) = ArtifactSize[First(s)] + BytesOf(s \ {First(s)})
        BY <2>2, <2>3, BytesOfFirst
    <2>. QED
        BY <2>5, <2>6, <2>7
<1>. QED
    BY <1>1

(* Any element may be taken out first: the sum does not depend on the      *)
(* order in which the artifacts are added up.                              *)
LEMMA BytesOfRemove ==
    ASSUME NEW S \in SUBSET Artifact, IsFiniteSet(S), NEW a \in S
    PROVE  BytesOf(S) = ArtifactSize[a] + BytesOf(S \ {a})
<1>. DEFINE Splits(s, x) == BytesOf(s) = ArtifactSize[x] + BytesOf(s \ {x})
            Bad == {s \in SUBSET S : \E x \in s : ~Splits(s, x)}
<1>1. Bad = {}
    <2>. SUFFICES ASSUME Bad # {} PROVE FALSE
        OBVIOUS
    <2>1. PICK s \in Bad : \A x \in s : s \ {x} \notin Bad
        BY MinimalMember
    <2>2. PICK x \in s : ~Splits(s, x)
        OBVIOUS
    <2>. DEFINE y == First(s)
    <2>3. IsFiniteSet(s)
        BY FS_Subset
    <2>4. y \in s /\ Splits(s, y)
        BY <2>3, FirstIn, BytesOfFirst
    <2>. HIDE DEF y
    <2>5. x # y
        BY <2>2, <2>4
    <2>6. Splits(s \ {y}, x)
        BY <2>1, <2>4, <2>5
    <2>7. Splits(s \ {x}, y)
        BY <2>1, <2>4, <2>5
    <2>8. (s \ {x}) \ {y} = (s \ {y}) \ {x}
        OBVIOUS
    <2>9. BytesOf((s \ {x}) \ {y}) \in Nat
        <3>1. IsFiniteSet((s \ {x}) \ {y})
            BY <2>3, FS_RemoveElement
        <3>. QED
            BY <3>1, BytesOfType
    <2>10. ArtifactSize[x] \in Nat /\ ArtifactSize[y] \in Nat
        BY <2>4, StoreKeys
    <2>11. BytesOf(s) = ArtifactSize[y] + (ArtifactSize[x] + BytesOf((s \ {x}) \ {y}))
        BY <2>4, <2>6, <2>8
    <2>12. BytesOf(s) = ArtifactSize[x] + BytesOf(s \ {x})
        <3>1. BytesOf(s \ {x}) = ArtifactSize[y] + BytesOf((s \ {x}) \ {y})
            BY <2>7
        <3>. HIDE DEF Bad, Splits
        <3>. QED
            BY <2>9, <2>10, <2>11, <3>1
    <2>. QED
        BY <2>2, <2>12
<1>. QED
    BY <1>1

(* Deleting artifacts frees bytes. *)
LEMMA BytesOfMonotone ==
    ASSUME NEW S \in SUBSET Artifact, IsFiniteSet(S), NEW T \in SUBSET S
    PROVE  BytesOf(T) <= BytesOf(S)
<1>. DEFINE Bad == {s \in SUBSET S : T \subseteq s /\ ~(BytesOf(T) <= BytesOf(s))}
<1>1. Bad = {}
    <2>. SUFFICES ASSUME Bad # {} PROVE FALSE
        OBVIOUS
    <2>0. Bad \subseteq SUBSET S
        OBVIOUS
    <2>. HIDE DEF Bad
    <2>1. PICK s \in Bad : \A x \in s : s \ {x} \notin Bad
        BY <2>0, MinimalMember
    <2>. USE DEF Bad
    <2>2. /\ IsFiniteSet(s) /\ IsFiniteSet(T)
          /\ \A x : IsFiniteSet(s \ {x})
        BY FS_Subset, FS_RemoveElement
    <2>3. /\ BytesOf(s) \in Nat /\ BytesOf(T) \in Nat
          /\ \A x : BytesOf(s \ {x}) \in Nat
        <3>1. /\ s \in SUBSET Artifact /\ T \in SUBSET Artifact
              /\ \A x : s \ {x} \in SUBSET Artifact
            OBVIOUS
        <3>. QED
            BY <2>2, <3>1, BytesOfType
    <2>4. s # T
        BY <2>3
    <2>5. PICK x \in s : x \notin T
        BY <2>4
    <2>6. BytesOf(T) <= BytesOf(s \ {x})
        BY <2>1, <2>5
    <2>7. BytesOf(s) = ArtifactSize[x] + BytesOf(s \ {x})
        <3>1. s \in SUBSET Artifact
            OBVIOUS
        <3>. QED
            BY <2>2, <3>1, BytesOfRemove
    <2>8. ArtifactSize[x] \in Nat
        BY StoreKeys
    <2>9. ~(BytesOf(T) <= BytesOf(s))
        OBVIOUS
    <2>. HIDE DEF Bad
    <2>. QED
        BY <2>3, <2>6, <2>7, <2>8, <2>9
<1>. QED
    BY <1>1

-----------------------------------------------------------------------------
(***************************************************************************)
(* The quota.  Only put_artifact stores an artifact, after it has counted  *)
(* the ones that stay; the stored artifacts of a device are finitely many  *)
(* because they are stored one at a time.                                  *)
(***************************************************************************)
Quota ==
    \A d \in Device : /\ IsFiniteSet(StoredOn(d))
                      /\ BytesOf(StoredOn(d)) <= DeviceQuota

(* Transactions that store no artifact. *)
LEMMA QuotaFrame ==
    ASSUME Quota,
           \A a \in Artifact : artifacts'[a] = "stored" => artifacts[a] = "stored"
    PROVE  Quota'
<1>. SUFFICES ASSUME NEW d \in Device
              PROVE  /\ IsFiniteSet(StoredOn(d)')
                     /\ BytesOf(StoredOn(d)') <= DeviceQuota
    BY DEF Quota
<1>1. StoredOn(d)' \in SUBSET StoredOn(d) /\ StoredOn(d) \in SUBSET Artifact
    BY DEF StoredOn, Available
<1>2. IsFiniteSet(StoredOn(d)) /\ BytesOf(StoredOn(d)) <= DeviceQuota
    BY DEF Quota
<1>3. IsFiniteSet(StoredOn(d)')
    BY <1>1, <1>2, FS_Subset
<1>4. BytesOf(StoredOn(d)') <= BytesOf(StoredOn(d))
    BY <1>1, <1>2, BytesOfMonotone
<1>5. BytesOf(StoredOn(d)) \in Nat /\ BytesOf(StoredOn(d)') \in Nat
    BY <1>1, <1>2, <1>3, BytesOfType
<1>. QED
    BY <1>2, <1>3, <1>4, <1>5, StoreLimits

(* put_artifact: the quota is checked in the transaction that stores the   *)
(* artifact, against what its own DELETE leaves.                           *)
LEMMA QuotaPut ==
    ASSUME TypeOK, Quota, NEW a \in Artifact, NEW expired \in SUBSET Artifact,
           PutArtifact(a, expired)
    PROVE  Quota'
<1>. SUFFICES ASSUME NEW d \in Device
              PROVE  /\ IsFiniteSet(StoredOn(d)')
                     /\ BytesOf(StoredOn(d)') <= DeviceQuota
    BY DEF Quota
<1>1. IsFiniteSet(StoredOn(d)) /\ BytesOf(StoredOn(d)) <= DeviceQuota
    BY DEF Quota
<1>2. CASE d # ArtifactDevice[a]
    <2>1. StoredOn(d)' = StoredOn(d)
        BY <1>2 DEF PutArtifact, StoredOn, Available, TypeOK
    <2>. QED
        BY <1>1, <2>1
<1>3. CASE d = ArtifactDevice[a]
    <2>. DEFINE kept == StoredOn(d) \ expired
    <2>1. StoredOn(d)' = kept \cup {a} /\ a \notin kept /\ kept \in SUBSET Artifact
        BY <1>3 DEF PutArtifact, StoredOn, Available, TypeOK
    <2>2. BytesOf(kept) + ArtifactSize[a] <= DeviceQuota
        BY <1>3 DEF PutArtifact, Fits
    <2>3. IsFiniteSet(kept)
        BY <1>1, FS_Subset
    <2>. HIDE DEF kept
    <2>4. IsFiniteSet(kept \cup {a})
        BY <2>3, FS_AddElement
    <2>5. BytesOf(kept \cup {a}) = ArtifactSize[a] + BytesOf((kept \cup {a}) \ {a})
        BY <2>1, <2>4, BytesOfRemove
    <2>6. (kept \cup {a}) \ {a} = kept
        BY <2>1
    <2>7. BytesOf(kept) \in Nat /\ ArtifactSize[a] \in Nat
        BY <2>1, <2>3, BytesOfType, StoreKeys
    <2>8. BytesOf(kept \cup {a}) = ArtifactSize[a] + BytesOf(kept)
        BY <2>5, <2>6, Zenon
    <2>9. BytesOf(kept \cup {a}) <= DeviceQuota
        BY <2>2, <2>7, <2>8, StoreLimits
    <2>. QED
        BY <2>1, <2>4, <2>9
<1>. QED
    BY <1>2, <1>3

(* Every transaction keeps a device within its quota. *)
LEMMA QuotaStep ==
    ASSUME TypeOK, Quota, [Next]_vars
    PROVE  Quota'
<1>1. CASE artifacts' = artifacts
    BY <1>1, QuotaFrame
<1>2. ASSUME NEW cut, NEW gp, NEW ga, Purge(cut, gp, ga)
      PROVE  Quota'
    <2>1. \A a \in Artifact : artifacts'[a] = "stored" => artifacts[a] = "stored"
        BY <1>2 DEF Purge
    <2>. QED
        BY <2>1, QuotaFrame
<1>3. ASSUME NEW op \in Op, Requests(op)
      PROVE  artifacts' = artifacts
    BY <1>3 DEF Requests, Accept, CancelIntent, CancelAccepted, CancelRequested,
                FinishRow, Receipt
<1>4. ASSUME NEW op \in Op, Claim(op)
      PROVE  artifacts' = artifacts
    BY <1>4 DEF Claim, ClaimPayloadExpired, ClaimArtifactExpired, ClaimRunning,
                FinishRow
<1>5. ASSUME NEW op \in Op, Finishes(op)
      PROVE  artifacts' = artifacts
    BY <1>5 DEF Finishes, Finish, FinishRow
<1>6. ASSUME NEW op \in Op, Dispatches(op)
      PROVE  artifacts' = artifacts
    BY <1>4, <1>5, <1>6 DEF Dispatches, SaveHandle, ClaimCancel
<1>7. ASSUME Process PROVE artifacts' = artifacts
    BY <1>7 DEF Process, AcquireDispatcher, Close, Recover
<1>8. CASE Retention
    BY <1>1, <1>2, <1>8, QuotaPut DEF Retention, Events, ResultExpires
<1>9. CASE UNCHANGED vars
    BY <1>1, <1>9 DEF vars
<1>. QED
    BY <1>1, <1>3, <1>6, <1>7, <1>8, <1>9 DEF Next

(* The stored artifacts of a device never exceed device_quota_bytes,       *)
(* whatever expires, is purged or is uploaded again (put_artifact).        *)
THEOREM QuotaIsRespected == Spec => []QuotaRespected
<1>1. Init => Quota
    <2>. SUFFICES ASSUME Init PROVE Quota
        OBVIOUS
    <2>1. \A d \in Device : StoredOn(d) = {}
        BY DEF Init, StoredOn, Available
    <2>2. IsFiniteSet({}) /\ BytesOf({}) = 0
        BY FS_EmptySet, BytesOfFirst
    <2>. QED
        BY <2>1, <2>2, StoreLimits DEF Quota
<1>2. TypeOK /\ Quota /\ [Next]_vars => Quota'
    BY QuotaStep
<1>3. Quota => QuotaRespected
    BY DEF Quota, QuotaRespected
<1>. QED
    BY <1>1, <1>2, <1>3, TypeCorrect, PTL DEF Spec
=============================================================================
