------------------------- MODULE BrokerFeed_proofs -------------------------
(***************************************************************************)
(* Theorems about what the ledger shows of its rows: the event feed, the   *)
(* identities its clients rely on, and the lifecycle it implements.        *)
(***************************************************************************)
EXTENDS BrokerStore_proofs

(* What the transactions leave alone. *)
USE DEF feedVars

-----------------------------------------------------------------------------
(***************************************************************************)
(* The feed.  That the last event of an operation shows its row needs the  *)
(* numbers of the retained events to be bounded by the device's sequence:  *)
(* FeedContiguous and FeedCurrent are inductive together.                  *)
(***************************************************************************)
Feed == FeedContiguous /\ FeedCurrent

(* The numbers of a set of events with one more. *)
LEMMA SeqsOfUnion ==
    ASSUME NEW S, NEW n
    PROVE  {e.seq : e \in S \cup {n}} = {e.seq : e \in S} \cup {n.seq}
OBVIOUS

(* The feed depends on the rows only through what a snapshot shows. *)
LEMMA FeedFrame ==
    ASSUME TypeOK, Feed, UNCHANGED feedVars,
           \A op \in Op : ops'[op].expiry # "expired"
              => /\ ops[op].expiry # "expired"
                 /\ Snapshot(ops'[op]) = Snapshot(ops[op])
    PROVE  Feed'
<1>1. FeedContiguous'
    BY DEF Feed, FeedContiguous
<1>2. FeedCurrent'
    <2>. SUFFICES ASSUME NEW d \in Device, NEW e \in events[d]
                  PROVE  /\ DeviceOf[e.op] = d
                         /\ LastOf(d, e) /\ ops'[e.op].expiry # "expired"
                            => e.snap = Snapshot(ops'[e.op])
        BY DEF FeedCurrent, LastOf
    <2>1. e.op \in Op
        BY DEF TypeOK, Event
    <2>. QED
        BY <2>1 DEF Feed, FeedCurrent
<1>. QED
    BY <1>1, <1>2 DEF Feed

(* An update followed by _event: the new event is the operation's last. *)
LEMMA FeedPublish ==
    ASSUME TypeOK, Feed, NEW op \in Op, NEW row, Publish(op, row)
    PROVE  Feed'
<1>. DEFINE d0 == DeviceOf[op]
            new == [op |-> op, seq |-> sequence[d0] + 1, snap |-> Snapshot(row)]
<1>0. d0 \in Device
    BY StoreKeys
<1>1. /\ sequence'[d0] = sequence[d0] + 1
      /\ events'[d0] = events[d0] \cup {new}
      /\ floor' = floor
      /\ ops'[op] = row
      /\ \A d \in Device : d # d0 => sequence'[d] = sequence[d] /\ events'[d] = events[d]
      /\ \A q \in Op : q # op => ops'[q] = ops[q]
    BY <1>0 DEF TypeOK, Publish
<1>2. \A d \in Device : sequence[d] \in Nat /\ floor[d] \in Nat
    BY DEF TypeOK
<1>3. \A d \in Device : \A e \in events[d] :
          e.op \in Op /\ e.seq \in Nat /\ e.seq <= sequence[d]
    <2>. SUFFICES ASSUME NEW d \in Device, NEW e \in events[d]
                  PROVE  e.op \in Op /\ e.seq \in Nat /\ e.seq <= sequence[d]
        OBVIOUS
    <2>1. e.op \in Op /\ e.seq \in Nat
        BY DEF TypeOK, Event
    <2>2. e.seq \in (floor[d] + 1) .. sequence[d]
        BY DEF Feed, FeedContiguous
    <2>. QED
        BY <1>2, <2>1, <2>2
<1>4. FeedContiguous'
    <2>. SUFFICES ASSUME NEW d \in Device
                  PROVE  /\ {e.seq : e \in events'[d]} = (floor[d] + 1) .. sequence'[d]
                         /\ floor[d] <= sequence'[d]
                         /\ \A e, f \in events'[d] : e.seq = f.seq => e = f
        BY <1>1 DEF FeedContiguous
    <2>1. CASE d # d0
        BY <1>1, <2>1 DEF Feed, FeedContiguous
    <2>2. CASE d = d0
        <3>1. {e.seq : e \in events'[d]} = {e.seq : e \in events[d]} \cup {sequence[d] + 1}
            <4>1. events'[d] = events[d] \cup {new} /\ new.seq = sequence[d] + 1
                BY <1>1, <2>2
            <4>. HIDE DEF new
            <4>. QED
                BY <4>1, SeqsOfUnion
        <3>2. /\ {e.seq : e \in events[d]} = (floor[d] + 1) .. sequence[d]
              /\ floor[d] <= sequence[d]
            BY DEF Feed, FeedContiguous
        <3>3. (floor[d] + 1) .. sequence'[d] = (floor[d] + 1) .. sequence[d] \cup {sequence[d] + 1}
            BY <1>1, <1>2, <2>2, <3>2
        <3>4. \A e, f \in events'[d] : e.seq = f.seq => e = f
            <4>1. \A e \in events[d] : e.seq # new.seq
                BY <1>2, <1>3, <2>2
            <4>. QED
                BY <1>1, <2>2, <4>1 DEF Feed, FeedContiguous
        <3>. QED
            BY <1>1, <1>2, <2>2, <3>1, <3>2, <3>3, <3>4
    <2>. QED
        BY <2>1, <2>2
<1>5. FeedCurrent'
    <2>. SUFFICES ASSUME NEW d \in Device, NEW e \in events'[d]
                  PROVE  /\ DeviceOf[e.op] = d
                         /\ LastOf(d, e)' /\ ops'[e.op].expiry # "expired"
                            => e.snap = Snapshot(ops'[e.op])
        BY DEF FeedCurrent
    <2>1. CASE e \in events[d] /\ e.op # op
        <3>1. LastOf(d, e)' => LastOf(d, e)
            BY <1>1 DEF LastOf
        <3>2. ops'[e.op] = ops[e.op]
            BY <1>1, <1>3, <2>1
        <3>. QED
            BY <2>1, <3>1, <3>2 DEF Feed, FeedCurrent
    <2>2. CASE e \in events[d] /\ e.op = op
        <3>1. DeviceOf[e.op] = d
            BY <2>2 DEF Feed, FeedCurrent
        <3>2. new \in events'[d] /\ new.op = e.op /\ ~(new.seq <= e.seq)
            BY <1>1, <1>2, <1>3, <2>2, <3>1
        <3>3. ~LastOf(d, e)'
            BY <3>2 DEF LastOf
        <3>. QED
            BY <3>1, <3>3
    <2>3. CASE e = new /\ d = d0
        BY <1>1, <2>3
    <2>. QED
        BY <1>1, <2>1, <2>2, <2>3
<1>. QED
    BY <1>4, <1>5 DEF Feed

(* _purge_events: what remains is a suffix of the feed, and the floor      *)
(* rises to the cut.                                                       *)
LEMMA FeedCut ==
    ASSUME TypeOK, Feed, NEW cut \in [Device -> Nat],
           \A d \in Device : cut[d] \in Cuts(d),
           events' = [d \in Device |-> Remaining(d, cut[d])],
           floor' = [d \in Device |-> Raised(d, cut[d])],
           sequence' = sequence,
           \A op \in Op : ops'[op].expiry # "expired"
              => ops'[op] = ops[op]
    PROVE  Feed'
<1>1. \A d \in Device : /\ sequence[d] \in Nat /\ floor[d] \in Nat /\ cut[d] \in Nat
                        /\ events'[d] = {e \in events[d] : e.seq > cut[d]}
                        /\ floor'[d] = IF cut[d] > floor[d] THEN cut[d] ELSE floor[d]
    BY DEF TypeOK, Remaining, Raised
<1>2. \A d \in Device : \A e \in events[d] : e.op \in Op /\ e.seq \in Nat
    BY DEF TypeOK, Event
<1>3. FeedContiguous'
    <2>. SUFFICES ASSUME NEW d \in Device
                  PROVE  /\ {e.seq : e \in events'[d]} = (floor'[d] + 1) .. sequence[d]
                         /\ floor'[d] <= sequence[d]
                         /\ \A e, f \in events'[d] : e.seq = f.seq => e = f
        BY DEF FeedContiguous
    <2>1. /\ {e.seq : e \in events[d]} = (floor[d] + 1) .. sequence[d]
          /\ floor[d] <= sequence[d]
          /\ \A e, f \in events[d] : e.seq = f.seq => e = f
        BY DEF Feed, FeedContiguous
    <2>2. cut[d] = 0 \/ cut[d] \in (floor[d] + 1) .. sequence[d]
        BY <2>1 DEF Cuts
    <2>3. {e.seq : e \in events'[d]} = {s \in (floor[d] + 1) .. sequence[d] : s > cut[d]}
        BY <1>1, <2>1
    <2>. QED
        BY <1>1, <2>1, <2>2, <2>3
<1>4. FeedCurrent'
    <2>. SUFFICES ASSUME NEW d \in Device, NEW e \in events'[d]
                  PROVE  /\ DeviceOf[e.op] = d
                         /\ LastOf(d, e)' /\ ops'[e.op].expiry # "expired"
                            => e.snap = Snapshot(ops'[e.op])
        BY DEF FeedCurrent
    <2>1. e \in events[d] /\ e.seq > cut[d] /\ e.op \in Op
        BY <1>1, <1>2
    <2>2. LastOf(d, e)' => LastOf(d, e)
        <3>. SUFFICES ASSUME LastOf(d, e)', NEW f \in events[d], f.op = e.op
                      PROVE  f.seq <= e.seq
            BY DEF LastOf
        <3>1. CASE f.seq > cut[d]
            BY <1>1, <3>1 DEF LastOf
        <3>2. CASE ~(f.seq > cut[d])
            BY <1>1, <1>2, <2>1, <3>2
        <3>. QED
            BY <3>1, <3>2
    <2>. QED
        BY <2>1, <2>2 DEF Feed, FeedCurrent
<1>. QED
    BY <1>3, <1>4 DEF Feed

(* recover(): each device gets one event per running row, numbered without *)
(* a gap after its last one.                                               *)
LEMMA FeedRecover ==
    ASSUME TypeOK, Feed, NEW slot \in [Running -> Nat], NEW last \in [Device -> Nat],
           RecoverWith(slot, last), floor' = floor
    PROVE  Feed'
<1>. DEFINE new(op) == [op |-> op, seq |-> slot[op], snap |-> Snapshot(ops'[op])]
            News(d) == {new(op) : op \in RunningOn(d)}
<1>1. \A d \in Device : RunningOn(d) \subseteq Running
    BY DEF RunningOn, Running, OpsOn
<1>2. \A op \in Op : op \notin Running => ops'[op] = ops[op]
    BY DEF RecoverWith
<1>3. \A d \in Device : events'[d] = events[d] \cup News(d)
    <2>. DEFINE after == [op \in Running |-> FinishedRow(ops[op], slot[op],
                            "outcome_unknown", NoResult, "restart_unknown")]
    <2>1. \A op \in Running : ops'[op] = after[op]
        BY DEF RecoverWith, Running
    <2>2. \A d \in Device : events'[d] = events[d] \cup
            {[op |-> op, seq |-> slot[op], snap |-> Snapshot(after[op])] :
                op \in RunningOn(d)}
        BY DEF RecoverWith
    <2>. HIDE DEF after
    <2>. QED
        BY <1>1, <2>1, <2>2
<1>4. \A d \in Device : /\ sequence[d] \in Nat /\ floor[d] \in Nat
                        /\ sequence'[d] \in Nat /\ sequence'[d] >= sequence[d]
                        /\ {slot[op] : op \in RunningOn(d)}
                              = (sequence[d] + 1) .. sequence'[d]
    BY DEF TypeOK, RecoverWith
<1>5. \A d \in Device : \A e \in events[d] :
          e.op \in Op /\ e.seq \in Nat /\ e.seq <= sequence[d]
    <2>. SUFFICES ASSUME NEW d \in Device, NEW e \in events[d]
                  PROVE  e.op \in Op /\ e.seq \in Nat /\ e.seq <= sequence[d]
        OBVIOUS
    <2>1. e.op \in Op /\ e.seq \in Nat
        BY DEF TypeOK, Event
    <2>2. e.seq \in (floor[d] + 1) .. sequence[d]
        BY DEF Feed, FeedContiguous
    <2>. QED
        BY <1>4, <2>1, <2>2
<1>6. \A d \in Device : \A op \in RunningOn(d) :
          /\ op \in Op /\ DeviceOf[op] = d
          /\ slot[op] \in Nat /\ slot[op] > sequence[d]
    <2>. SUFFICES ASSUME NEW d \in Device, NEW op \in RunningOn(d)
                  PROVE  /\ op \in Op /\ DeviceOf[op] = d
                         /\ slot[op] \in Nat /\ slot[op] > sequence[d]
        OBVIOUS
    <2>1. op \in Op /\ DeviceOf[op] = d
        BY DEF RunningOn, OpsOn
    <2>2. slot[op] \in (sequence[d] + 1) .. sequence'[d]
        BY <1>4
    <2>. QED
        BY <1>4, <2>1, <2>2
<1>7. FeedContiguous'
    <2>. SUFFICES ASSUME NEW d \in Device
                  PROVE  /\ {e.seq : e \in events'[d]} = (floor[d] + 1) .. sequence'[d]
                         /\ floor[d] <= sequence'[d]
                         /\ \A e, f \in events'[d] : e.seq = f.seq => e = f
        BY DEF FeedContiguous
    <2>1. /\ {e.seq : e \in events[d]} = (floor[d] + 1) .. sequence[d]
          /\ floor[d] <= sequence[d]
          /\ \A e, f \in events[d] : e.seq = f.seq => e = f
        BY DEF Feed, FeedContiguous
    <2>2. {e.seq : e \in News(d)} = (sequence[d] + 1) .. sequence'[d]
        <3>1. {e.seq : e \in News(d)} = {slot[op] : op \in RunningOn(d)}
            <4>1. \A op \in RunningOn(d) : new(op) \in News(d) /\ new(op).seq = slot[op]
                OBVIOUS
            <4>2. \A e \in News(d) : \E op \in RunningOn(d) : e.seq = slot[op]
                OBVIOUS
            <4>. HIDE DEF new, News
            <4>. QED
                BY <4>1, <4>2
        <3>. QED
            BY <1>4, <3>1
    <2>3. {e.seq : e \in events'[d]}
             = {e.seq : e \in events[d]} \cup {e.seq : e \in News(d)}
        <3>. HIDE DEF News
        <3>. QED
            BY <1>3
    <2>4. {e.seq : e \in events'[d]} = (floor[d] + 1) .. sequence'[d]
        <3>1. (floor[d] + 1) .. sequence'[d]
                 = (floor[d] + 1) .. sequence[d] \cup (sequence[d] + 1) .. sequence'[d]
            BY <1>4, <2>1
        <3>. QED
            BY <2>1, <2>2, <2>3, <3>1
    <2>5. ASSUME NEW p \in RunningOn(d), NEW q \in RunningOn(d), slot[p] = slot[q]
          PROVE  p = q
        BY <1>1, <1>6, <2>5 DEF RecoverWith
    <2>6. ASSUME NEW e \in events'[d], NEW f \in events'[d], e.seq = f.seq
          PROVE  e = f
        <3>1. CASE e \in events[d] /\ f \in events[d]
            BY <2>1, <2>6, <3>1
        <3>2. CASE e \in News(d) /\ f \in News(d)
            BY <2>5, <2>6, <3>2
        <3>3. CASE e \in events[d] /\ f \in News(d)
            BY <1>4, <1>5, <1>6, <2>6, <3>3
        <3>4. CASE e \in News(d) /\ f \in events[d]
            BY <1>4, <1>5, <1>6, <2>6, <3>4
        <3>. HIDE DEF News
        <3>. QED
            BY <1>3, <3>1, <3>2, <3>3, <3>4
    <2>. QED
        BY <1>4, <2>1, <2>4, <2>6
<1>8. FeedCurrent'
    <2>. SUFFICES ASSUME NEW d \in Device, NEW e \in events'[d]
                  PROVE  /\ DeviceOf[e.op] = d
                         /\ LastOf(d, e)' /\ ops'[e.op].expiry # "expired"
                            => e.snap = Snapshot(ops'[e.op])
        BY DEF FeedCurrent
    <2>1. CASE e \in News(d)
        BY <1>6, <2>1
    <2>2. CASE e \in events[d] /\ e.op \notin Running
        <3>1. LastOf(d, e)' => LastOf(d, e)
            <4>. HIDE DEF News
            <4>. QED
                BY <1>3 DEF LastOf
        <3>2. ops'[e.op] = ops[e.op]
            BY <1>2, <1>5, <2>2
        <3>. QED
            BY <2>2, <3>1, <3>2 DEF Feed, FeedCurrent
    <2>3. CASE e \in events[d] /\ e.op \in Running
        <3>1. DeviceOf[e.op] = d
            BY <2>3 DEF Feed, FeedCurrent
        <3>2. e.op \in RunningOn(d)
            BY <2>3, <3>1 DEF Running, RunningOn, OpsOn
        <3>3. /\ new(e.op) \in events'[d]
              /\ new(e.op).op = e.op
              /\ ~(new(e.op).seq <= e.seq)
            BY <1>3, <1>4, <1>5, <1>6, <2>3, <3>2
        <3>4. ~LastOf(d, e)'
            BY <3>3 DEF LastOf
        <3>. QED
            BY <3>1, <3>4
    <2>. HIDE DEF News
    <2>. QED
        BY <1>3, <2>1, <2>2, <2>3
<1>. QED
    BY <1>7, <1>8 DEF Feed

(* events(): the purge of one feed, seen as a purge of all of them. *)
LEMMA EventsCuts ==
    ASSUME TypeOK, Feed, NEW d \in Device, NEW after \in 0 .. MaxSequence,
           NEW cut \in 0 .. MaxSequence, Events(d, after, cut)
    PROVE  \E cuts \in [Device -> Nat] :
              /\ \A c \in Device : cuts[c] \in Cuts(c)
              /\ events' = [c \in Device |-> Remaining(c, cuts[c])]
              /\ floor' = [c \in Device |-> Raised(c, cuts[c])]
<1>. DEFINE cuts == [c \in Device |-> IF c = d THEN cut ELSE 0]
<1>1. cut \in Nat
    BY StoreLimits
<1>2. cuts \in [Device -> Nat] /\ \A c \in Device : cuts[c] \in Cuts(c)
    BY <1>1 DEF Events, Cuts
<1>3. ASSUME NEW c \in Device
      PROVE  Remaining(c, 0) = events[c] /\ Raised(c, 0) = floor[c]
    <2>1. \A e \in events[c] : e.seq \in (floor[c] + 1) .. sequence[c]
        BY DEF Feed, FeedContiguous
    <2>2. floor[c] \in Nat /\ sequence[c] \in Nat
        BY DEF TypeOK
    <2>. QED
        BY <2>1, <2>2 DEF Remaining, Raised
<1>4. /\ events' = [c \in Device |-> Remaining(c, cuts[c])]
      /\ floor' = [c \in Device |-> Raised(c, cuts[c])]
    BY <1>3 DEF Events, TypeOK
<1>. HIDE DEF cuts
<1>. QED
    BY <1>2, <1>4

(* Every transaction keeps the feed without a hole and up to date. *)
LEMMA FeedStep ==
    ASSUME TypeOK, Feed, [Next]_vars
    PROVE  Feed'
<1>1. CASE UNCHANGED vars
    BY <1>1, FeedFrame DEF vars
<1>2. ASSUME NEW op \in Op, Requests(op)
      PROVE  Feed'
    <2>1. ASSUME NEW req \in Request, Accept(op, req)
          PROVE  Feed'
        BY <2>1, FeedPublish DEF Accept
    <2>2. CASE CancelIntent(op)
        BY <2>2, FeedPublish DEF CancelIntent, CancelAccepted, CancelRequested, FinishRow
    <2>3. ASSUME NEW id, NEW s, Receipt(op, id, s)
          PROVE  Feed'
        BY <2>3, FeedFrame DEF Receipt
    <2>. QED
        BY <1>2, <2>1, <2>2, <2>3 DEF Requests
<1>3. ASSUME NEW op \in Op, Dispatches(op)
      PROVE  Feed'
    <2>1. CASE Claim(op)
        BY <2>1, FeedPublish
        DEF Claim, ClaimRunning, ClaimPayloadExpired, ClaimArtifactExpired, FinishRow
    <2>2. CASE Finishes(op)
        BY <2>2, FeedPublish DEF Finishes, Finish, FinishRow
    <2>3. ASSUME NEW h \in Handle, SaveHandle(op, h)
          PROVE  Feed'
        BY <2>3, FeedPublish DEF SaveHandle
    <2>4. CASE ClaimCancel(op)
        <3>1. \A q \in Op : /\ ops'[q].expiry = ops[q].expiry
                            /\ Snapshot(ops'[q]) = Snapshot(ops[q])
            BY <2>4 DEF ClaimCancel, TypeOK, Row, Snapshot
        <3>. QED
            BY <2>4, <3>1, FeedFrame DEF ClaimCancel
    <2>. QED
        BY <1>3, <2>1, <2>2, <2>3, <2>4 DEF Dispatches
<1>4. ASSUME NEW d \in Device, NEW after \in 0 .. MaxSequence,
             NEW cut \in 0 .. MaxSequence, Events(d, after, cut)
      PROVE  Feed'
    <2>1. PICK cuts \in [Device -> Nat] :
              /\ \A c \in Device : cuts[c] \in Cuts(c)
              /\ events' = [c \in Device |-> Remaining(c, cuts[c])]
              /\ floor' = [c \in Device |-> Raised(c, cuts[c])]
        BY <1>4, EventsCuts
    <2>2. sequence' = sequence /\ ops' = ops
        BY <1>4 DEF Events
    <2>. QED
        BY <2>1, <2>2, FeedCut
<1>5. ASSUME NEW a \in Artifact, NEW expired, PutArtifact(a, expired)
      PROVE  Feed'
    BY <1>5, FeedFrame DEF PutArtifact
<1>6. ASSUME NEW op \in Op, ResultExpires(op)
      PROVE  Feed'
    <2>1. \A q \in Op : ops'[q].expiry # "expired" => ops'[q] = ops[q]
        BY <1>6 DEF ResultExpires, TypeOK, Row
    <2>. QED
        BY <1>6, <2>1, FeedFrame DEF ResultExpires
<1>7. ASSUME NEW cut \in [Device -> 0 .. MaxSequence], NEW gp, NEW ga,
             Purge(cut, gp, ga)
      PROVE  Feed'
    <2>1. cut \in [Device -> Nat]
        BY StoreLimits
    <2>2. \A q \in Op : ops'[q].expiry # "expired" => ops'[q] = ops[q]
        BY <1>7 DEF Purge, TypeOK, Row
    <2>. QED
        BY <1>7, <2>1, <2>2, FeedCut DEF Purge
<1>8. CASE AcquireDispatcher \/ Close
    BY <1>8, FeedFrame DEF AcquireDispatcher, Close
<1>9. CASE Recover
    <2>1. PICK slot \in [Running -> 1 .. MaxSequence],
               last \in [Device -> 0 .. MaxSequence] : RecoverWith(slot, last)
        BY <1>9 DEF Recover
    <2>2. slot \in [Running -> Nat] /\ last \in [Device -> Nat] /\ floor' = floor
        BY <1>9, StoreLimits DEF Recover
    <2>. QED
        BY <2>1, <2>2, FeedRecover
<1>. QED
    BY <1>1, <1>2, <1>3, <1>4, <1>5, <1>6, <1>7, <1>8, <1>9
    DEF Next, Retention, Process

(* The feed invariant holds in every reachable state. *)
THEOREM FeedCorrect == Spec => []Feed
<1>1. Init => Feed
    BY DEF Init, Feed, FeedContiguous, FeedCurrent
<1>2. TypeOK /\ Feed /\ [Next]_vars => Feed'
    BY FeedStep
<1>. QED
    BY <1>1, <1>2, TypeCorrect, PTL DEF Spec

(* A device's feed never has a hole above its floor (_purge_events). *)
THEOREM FeedHasNoHole == Spec => []FeedContiguous
<1>1. Feed => FeedContiguous
    BY DEF Feed
<1>. QED
    BY <1>1, FeedCorrect, PTL

(* The last retained event of an operation shows its row (_event). *)
THEOREM FeedShowsTheLedger == Spec => []FeedCurrent
<1>1. Feed => FeedCurrent
    BY DEF Feed
<1>. QED
    BY <1>1, FeedCorrect, PTL

-----------------------------------------------------------------------------
(***************************************************************************)
(* The identities.  A row that is not there has no result and no handle,   *)
(* so accept() overwrites neither.                                         *)
(***************************************************************************)
AbsentRows == \A op \in Op : ops[op].state = "absent" => ops[op] = Absent

\* One step keeps the identities of an operation.
Keeps(op) ==
    /\ ops[op].result_id # 0 => ops'[op].result_id = ops[op].result_id
    /\ ops[op].remote_task_id # NoHandle
       => ops'[op].remote_task_id = ops[op].remote_task_id
    /\ ops[op].state \in Final => ops'[op].state = ops[op].state
    /\ ops'[op].state = "absent" => ops'[op] = ops[op]

(* _finish keeps every identity that was allocated. *)
LEMMA FinishKeeps ==
    ASSUME TypeOK, NEW op \in Op, NEW state \in Terminal, NEW result, NEW code,
           FinishRow(op, state, result, code)
    PROVE  \A q \in Op : Keeps(q)
<1>1. /\ ops'[op] = FinishedRow(ops[op], FreshId(op), state, result, code)
      /\ \A q \in Op : q # op => ops'[q] = ops[q]
      /\ ops[op].state \notin Final
    BY DEF TypeOK, FinishRow, Publish, Open
<1>2. state # "absent" /\ ops[op] \in Row
    BY DEF Terminal, Final, TypeOK
<1>. QED
    BY <1>1, <1>2, FinishedRowFields DEF Keeps

(* No transaction changes an identity that was allocated. *)
LEMMA KeepsStep ==
    ASSUME TypeOK, Lifecycle, AbsentRows, [Next]_vars
    PROVE  \A q \in Op : Keeps(q)
<1>1. ASSUME ops' = ops
      PROVE  \A q \in Op : Keeps(q)
    BY <1>1 DEF Keeps
<1>2. ASSUME NEW op \in Op, NEW req \in Request, Accept(op, req)
      PROVE  \A q \in Op : Keeps(q)
    BY <1>2 DEF Accept, NotPrevious, Publish, TypeOK, AbsentRows, Keeps, Absent, Final
<1>3. ASSUME NEW op \in Op, CancelIntent(op)
      PROVE  \A q \in Op : Keeps(q)
    <2>1. CASE CancelAccepted(op)
        BY <2>1, FinishKeeps DEF CancelAccepted, Terminal, Final
    <2>2. CASE CancelRequested(op)
        BY <2>2 DEF CancelRequested, Publish, TypeOK, Row, Keeps, Active
    <2>. QED
        BY <1>3, <2>1, <2>2 DEF CancelIntent
<1>4. ASSUME NEW op \in Op, Claim(op)
      PROVE  \A q \in Op : Keeps(q)
    <2>1. CASE ClaimPayloadExpired(op) \/ ClaimArtifactExpired(op)
        BY <2>1, FinishKeeps
        DEF ClaimPayloadExpired, ClaimArtifactExpired, Terminal, Final
    <2>2. CASE ClaimRunning(op)
        <3>1. ops[op].state = "accepted"
            BY <1>4 DEF Claim, Claimable
        <3>. QED
            BY <2>2, <3>1 DEF ClaimRunning, Publish, TypeOK, Row, Keeps, Final
    <2>. QED
        BY <1>4, <2>1, <2>2 DEF Claim
<1>5. ASSUME NEW op \in Op, Finishes(op)
      PROVE  \A q \in Op : Keeps(q)
    BY <1>5, FinishKeeps DEF Finishes, Finish, Terminal, Final
<1>6. ASSUME NEW op \in Op, NEW h \in Handle, SaveHandle(op, h)
      PROVE  \A q \in Op : Keeps(q)
    <2>1. ops[op].state # "absent" /\ ops[op].remote_task_id = NoHandle
        BY <1>6 DEF SaveHandle, Claimed, HandleFree, Lifecycle, OutboxAgrees,
                    Active, Final
    <2>. QED
        BY <1>6, <2>1 DEF SaveHandle, Publish, TypeOK, Row, Keeps
<1>7. ASSUME NEW op \in Op, ClaimCancel(op)
      PROVE  \A q \in Op : Keeps(q)
    BY <1>7 DEF ClaimCancel, TypeOK, Row, Keeps, Active
<1>8. ASSUME NEW op \in Op, ResultExpires(op)
      PROVE  \A q \in Op : Keeps(q)
    <2>1. ops[op].state # "absent"
        BY <1>8 DEF ResultExpires, AbsentRows, Absent
    <2>. QED
        BY <1>8, <2>1 DEF ResultExpires, TypeOK, Row, Keeps
<1>9. ASSUME NEW cut, NEW gp, NEW ga, Purge(cut, gp, ga)
      PROVE  \A q \in Op : Keeps(q)
    <2>1. \A q \in Op : ops[q].expiry = "expired" => ops[q].state # "absent"
        BY DEF AbsentRows, Absent
    <2>. QED
        BY <1>9, <2>1 DEF Purge, TypeOK, Row, Keeps
<1>10. CASE Recover
    <2>1. PICK slot : \A q \in Running :
              ops'[q] = FinishedRow(ops[q], slot[q], "outcome_unknown",
                                    NoResult, "restart_unknown")
        BY <1>10 DEF Recover, RecoverWith, Running
    <2>2. \A q \in Op \ Running : ops'[q] = ops[q]
        BY <1>10 DEF Recover, RecoverWith
    <2>3. \A q \in Running : q \in Op /\ ops[q] \in Row /\ ops[q].state = "running"
        BY DEF Running, TypeOK
    <2>4. \A q \in Running : Keeps(q)
        BY <2>1, <2>3, FinishedRowFields DEF Keeps, Final
    <2>. QED
        BY <2>2, <2>4 DEF Keeps
<1>11. CASE UNCHANGED vars
    BY <1>1, <1>11 DEF vars
<1>12. ASSUME NEW op \in Op, NEW id, NEW s, Receipt(op, id, s)
       PROVE  \A q \in Op : Keeps(q)
    BY <1>1, <1>12 DEF Receipt
<1>13. ASSUME NEW d \in Device, NEW after, NEW cut, Events(d, after, cut)
       PROVE  \A q \in Op : Keeps(q)
    BY <1>1, <1>13 DEF Events
<1>14. ASSUME NEW a \in Artifact, NEW expired, PutArtifact(a, expired)
       PROVE  \A q \in Op : Keeps(q)
    BY <1>1, <1>14 DEF PutArtifact
<1>15. CASE AcquireDispatcher \/ Close
    BY <1>1, <1>15 DEF AcquireDispatcher, Close
<1>. QED
    BY <1>2, <1>3, <1>4, <1>5, <1>6, <1>7, <1>8, <1>9, <1>10, <1>11, <1>12,
       <1>13, <1>14, <1>15
    DEF Next, Requests, Dispatches, Retention, Process

(* A row is complete as soon as it is there. *)
THEOREM AbsentRowsAreEmpty == Spec => []AbsentRows
<1>1. Init => AbsentRows
    BY DEF Init, AbsentRows
<1>2. TypeOK /\ Lifecycle /\ AbsentRows /\ [Next]_vars => AbsentRows'
    BY KeepsStep DEF Keeps, AbsentRows
<1>. QED
    BY <1>1, <1>2, TypeCorrect, LifecycleCorrect, PTL DEF Spec

(* Result identities and handles never change, definitive states are kept  *)
(* (_finish, save_handle).                                                 *)
THEOREM IdentitiesAreStable == Spec => IdentitiesStable
<1>. DEFINE Stable == \A op \in Op :
        /\ ops[op].result_id # 0 => ops'[op].result_id = ops[op].result_id
        /\ ops[op].remote_task_id # NoHandle
           => ops'[op].remote_task_id = ops[op].remote_task_id
        /\ ops[op].state \in Final => ops'[op].state = ops[op].state
<1>1. TypeOK /\ Lifecycle /\ AbsentRows /\ [Next]_vars => Stable
    BY KeepsStep DEF Keeps
<1>2. TypeOK /\ Lifecycle /\ AbsentRows /\ [Next]_vars => [Stable]_vars
    BY <1>1
<1>. QED
    BY <1>2, TypeCorrect, LifecycleCorrect, AbsentRowsAreEmpty, PTL
    DEF Spec, IdentitiesStable

(* A receipt names the identity its operation's result still has. *)
THEOREM ReceiptsAreMatched == Spec => []ReceiptsMatch
<1>1. Init => ReceiptsMatch
    BY DEF Init, ReceiptsMatch
<1>2. TypeOK /\ Lifecycle /\ AbsentRows /\ ReceiptsMatch /\ [Next]_vars => ReceiptsMatch'
    <2>. SUFFICES ASSUME TypeOK, Lifecycle, AbsentRows, ReceiptsMatch, [Next]_vars
                  PROVE  ReceiptsMatch'
        OBVIOUS
    <2>1. \A q \in Op : ops[q].result_id # 0 => ops'[q].result_id = ops[q].result_id
        BY KeepsStep DEF Keeps
    <2>2. CASE receipts' = receipts
        BY <2>1, <2>2 DEF ReceiptsMatch, TypeOK
    <2>3. ASSUME NEW op \in Op, NEW id \in 1 .. MaxSequence, NEW s, Receipt(op, id, s)
          PROVE  ReceiptsMatch'
        BY <2>1, <2>3 DEF Receipt, ReceiptMatches, ReceiptsMatch, TypeOK
    <2>. QED
        BY <2>2, <2>3
        DEF Next, vars, Requests, Accept, CancelIntent, CancelAccepted,
            CancelRequested, FinishRow, Dispatches, Claim, ClaimRunning,
            ClaimPayloadExpired, ClaimArtifactExpired, Finishes, Finish,
            SaveHandle, ClaimCancel, Retention, Events, PutArtifact,
            ResultExpires, Purge, Process, AcquireDispatcher, Close, Recover
<1>. QED
    BY <1>1, <1>2, TypeCorrect, LifecycleCorrect, AbsentRowsAreEmpty, PTL
    DEF Spec

-----------------------------------------------------------------------------
(***************************************************************************)
(* A result that the feed has not purged can be read from it.  The event   *)
(* that allocated the result's identity carries its number, so the number  *)
(* says where in the feed the result begins.                               *)
(***************************************************************************)
Marked ==
    \A op \in Op :
        ops[op].result_id > floor[DeviceOf[op]] =>
            \E e \in events[DeviceOf[op]] : e.op = op /\ e.seq = ops[op].result_id

\* What a reader at a cursor that is not below the floor finds above it.
ResultsReadable ==
    \A op \in Op, after \in Nat :
        LET d == DeviceOf[op]
        IN  floor[d] <= after /\ after < ops[op].result_id =>
              \E e \in events[d] :
                 /\ e.op = op /\ e.seq > after
                 /\ ops[op].expiry # "expired" => e.snap = Snapshot(ops[op])

(* Transactions that allocate no identity and leave the feed alone. *)
LEMMA MarkedFrame ==
    ASSUME Marked, UNCHANGED feedVars,
           \A op \in Op : ops'[op].result_id = ops[op].result_id
    PROVE  Marked'
BY DEF Marked

(* One event: it allocates its own number as the identity, or none. *)
LEMMA MarkedPublish ==
    ASSUME TypeOK, Marked, NEW op \in Op, NEW row, Publish(op, row),
           row.result_id \in {ops[op].result_id, FreshId(op)}
    PROVE  Marked'
<1>1. PICK d \in Device : d = DeviceOf[op]
    BY StoreKeys
<1>2. PICK new : new = [op |-> op, seq |-> sequence[d] + 1, snap |-> Snapshot(row)]
    OBVIOUS
<1>3. /\ ops' = [ops EXCEPT ![op] = row] /\ floor' = floor
      /\ events' = [events EXCEPT ![d] = @ \cup {new}]
    BY <1>1, <1>2 DEF Publish
<1>4. new.op = op /\ new.seq = FreshId(op)
    BY <1>1, <1>2 DEF FreshId
<1>. SUFFICES ASSUME NEW q \in Op, ops'[q].result_id > floor'[DeviceOf[q]]
              PROVE  \E e \in events'[DeviceOf[q]] :
                        e.op = q /\ e.seq = ops'[q].result_id
    BY DEF Marked
<1>5. \A c \in Device : events[c] \subseteq events'[c]
    BY <1>3 DEF TypeOK
<1>6. DeviceOf[q] \in Device
    BY StoreKeys
<1>7. CASE ops'[q].result_id = ops[q].result_id
    BY <1>3, <1>5, <1>6, <1>7 DEF Marked
<1>8. CASE ops'[q].result_id # ops[q].result_id
    <2>1. q = op /\ ops'[q].result_id = FreshId(op)
        BY <1>3, <1>8 DEF TypeOK
    <2>2. new \in events'[DeviceOf[q]]
        BY <1>1, <1>3, <2>1 DEF TypeOK
    <2>. QED
        BY <1>4, <2>1, <2>2
<1>. QED
    BY <1>7, <1>8

(* A purge raises the floor to at least the number of the last event it    *)
(* removes.                                                                *)
LEMMA MarkedCut ==
    ASSUME TypeOK, Feed, Marked, NEW cut \in [Device -> Nat],
           events' = [d \in Device |-> Remaining(d, cut[d])],
           floor' = [d \in Device |-> Raised(d, cut[d])],
           \A op \in Op : ops'[op].result_id = ops[op].result_id
    PROVE  Marked'
<1>. SUFFICES ASSUME NEW op \in Op, ops'[op].result_id > floor'[DeviceOf[op]]
              PROVE  \E e \in events'[DeviceOf[op]] :
                        e.op = op /\ e.seq = ops'[op].result_id
    BY DEF Marked
<1>1. PICK d \in Device : d = DeviceOf[op]
    BY StoreKeys
<1>2. /\ floor[d] \in Nat /\ cut[d] \in Nat
      /\ ops[op].result_id \in Nat /\ ops'[op].result_id = ops[op].result_id
    BY DEF TypeOK, Row
<1>3. floor'[d] >= floor[d] /\ floor'[d] >= cut[d] /\ floor'[d] \in Nat
    BY <1>2 DEF Raised
<1>4. ops[op].result_id > floor[d] /\ ops[op].result_id > cut[d]
    BY <1>1, <1>2, <1>3
<1>5. PICK e \in events[d] : e.op = op /\ e.seq = ops[op].result_id
    BY <1>1, <1>4 DEF Marked
<1>6. e \in events'[d]
    BY <1>4, <1>5 DEF Remaining
<1>. QED
    BY <1>1, <1>2, <1>5, <1>6

(* recover(): each row that gets an identity gets the number of its event. *)
LEMMA MarkedRecover ==
    ASSUME TypeOK, Marked, NEW slot \in [Running -> Nat], NEW last,
           RecoverWith(slot, last), floor' = floor
    PROVE  Marked'
<1>. SUFFICES ASSUME NEW op \in Op, ops'[op].result_id > floor'[DeviceOf[op]]
              PROVE  \E e \in events'[DeviceOf[op]] :
                        e.op = op /\ e.seq = ops'[op].result_id
    BY DEF Marked
<1>1. PICK d \in Device : d = DeviceOf[op]
    BY StoreKeys
<1>2. events[d] \subseteq events'[d]
    BY DEF RecoverWith
<1>3. CASE ops'[op].result_id = ops[op].result_id
    BY <1>1, <1>2, <1>3 DEF Marked
<1>4. CASE ops'[op].result_id # ops[op].result_id
    <2>1. op \in Running
        BY <1>4 DEF RecoverWith
    <2>2. ops'[op] = FinishedRow(ops[op], slot[op], "outcome_unknown", NoResult,
                                 "restart_unknown")
        BY <2>1 DEF RecoverWith
    <2>3. ops'[op].result_id = slot[op]
        BY <1>4, <2>2 DEF FinishedRow, TypeOK, Row
    <2>4. op \in RunningOn(d)
        BY <1>1, <2>1 DEF RunningOn, Running, OpsOn
    <2>. DEFINE after == [q \in Running |-> FinishedRow(ops[q], slot[q],
                            "outcome_unknown", NoResult, "restart_unknown")]
    <2>5. events'[d] = events[d] \cup
              {[op |-> q, seq |-> slot[q], snap |-> Snapshot(after[q])] :
                  q \in RunningOn(d)}
        BY DEF RecoverWith
    <2>. HIDE DEF after
    <2>6. [op |-> op, seq |-> slot[op], snap |-> Snapshot(after[op])] \in events'[d]
        BY <2>4, <2>5
    <2>. QED
        BY <1>1, <2>3, <2>6
<1>. QED
    BY <1>3, <1>4

(* _finish keeps an identity or allocates the number of its event. *)
LEMMA MarkedFinish ==
    ASSUME TypeOK, Marked, NEW op \in Op, NEW state, NEW result, NEW code,
           FinishRow(op, state, result, code)
    PROVE  Marked'
<1>1. FinishedRow(ops[op], FreshId(op), state, result, code).result_id
        \in {ops[op].result_id, FreshId(op)}
    BY DEF FinishedRow, TypeOK, Row
<1>. QED
    BY <1>1, MarkedPublish DEF FinishRow

(* Every transaction keeps the results where their identities say. *)
LEMMA MarkedStep ==
    ASSUME TypeOK, AbsentRows, Feed, Marked, [Next]_vars
    PROVE  Marked'
<1>1. CASE UNCHANGED vars
    BY <1>1, MarkedFrame DEF vars
<1>2. ASSUME NEW op \in Op, Requests(op)
      PROVE  Marked'
    <2>1. ASSUME NEW req \in Request, Accept(op, req)
          PROVE  Marked'
        <3>1. ops[op].result_id = 0
            BY <2>1 DEF Accept, NotPrevious, AbsentRows, Absent
        <3>2. PICK row : row = [Absent EXCEPT !.request = req, !.state = "accepted"]
            OBVIOUS
        <3>3. row.result_id = ops[op].result_id
            BY <3>1, <3>2 DEF Absent
        <3>4. Publish(op, row)
            BY <2>1, <3>2 DEF Accept
        <3>. QED
            BY <3>3, <3>4, MarkedPublish
    <2>2. CASE CancelAccepted(op)
        BY <2>2, MarkedFinish DEF CancelAccepted
    <2>3. CASE CancelRequested(op)
        <3>1. PICK row : row = [ops[op] EXCEPT !.cancel_requested = TRUE,
                                               !.error = "cancel_unconfirmed"]
            OBVIOUS
        <3>2. row.result_id = ops[op].result_id
            BY <3>1 DEF TypeOK, Row
        <3>3. Publish(op, row)
            BY <2>3, <3>1 DEF CancelRequested
        <3>. QED
            BY <3>2, <3>3, MarkedPublish
    <2>4. ASSUME NEW id, NEW s, Receipt(op, id, s)
          PROVE  Marked'
        BY <2>4, MarkedFrame DEF Receipt
    <2>. QED
        BY <1>2, <2>1, <2>2, <2>3, <2>4 DEF Requests, CancelIntent
<1>3. ASSUME NEW op \in Op, Dispatches(op)
      PROVE  Marked'
    <2>1. CASE Claim(op)
        <3>1. CASE ClaimPayloadExpired(op) \/ ClaimArtifactExpired(op)
            BY <3>1, MarkedFinish DEF ClaimPayloadExpired, ClaimArtifactExpired
        <3>2. CASE ClaimRunning(op)
            <4>1. [ops[op] EXCEPT !.state = "running"].result_id = ops[op].result_id
                BY DEF TypeOK, Row
            <4>. QED
                BY <3>2, <4>1, MarkedPublish DEF ClaimRunning
        <3>. QED
            BY <2>1, <3>1, <3>2 DEF Claim
    <2>2. CASE Finishes(op)
        BY <2>2, MarkedFinish DEF Finishes, Finish
    <2>3. ASSUME NEW h \in Handle, SaveHandle(op, h)
          PROVE  Marked'
        <3>1. [ops[op] EXCEPT !.remote_task_id = h].result_id = ops[op].result_id
            BY DEF TypeOK, Row
        <3>. QED
            BY <2>3, <3>1, MarkedPublish DEF SaveHandle
    <2>4. CASE ClaimCancel(op)
        <3>1. \A q \in Op : ops'[q].result_id = ops[q].result_id
            BY <2>4 DEF ClaimCancel, TypeOK, Row
        <3>. QED
            BY <2>4, <3>1, MarkedFrame DEF ClaimCancel
    <2>. QED
        BY <1>3, <2>1, <2>2, <2>3, <2>4 DEF Dispatches
<1>4. ASSUME NEW d \in Device, NEW after \in 0 .. MaxSequence,
             NEW cut \in 0 .. MaxSequence, Events(d, after, cut)
      PROVE  Marked'
    <2>1. PICK cuts \in [Device -> Nat] :
              /\ events' = [c \in Device |-> Remaining(c, cuts[c])]
              /\ floor' = [c \in Device |-> Raised(c, cuts[c])]
        BY <1>4, EventsCuts
    <2>2. ops' = ops
        BY <1>4 DEF Events
    <2>. QED
        BY <2>1, <2>2, MarkedCut
<1>5. ASSUME NEW a \in Artifact, NEW expired, PutArtifact(a, expired)
      PROVE  Marked'
    BY <1>5, MarkedFrame DEF PutArtifact
<1>6. ASSUME NEW op \in Op, ResultExpires(op)
      PROVE  Marked'
    <2>1. \A q \in Op : ops'[q].result_id = ops[q].result_id
        BY <1>6 DEF ResultExpires, TypeOK, Row
    <2>. QED
        BY <1>6, <2>1, MarkedFrame DEF ResultExpires
<1>7. ASSUME NEW cut \in [Device -> 0 .. MaxSequence], NEW gp, NEW ga,
             Purge(cut, gp, ga)
      PROVE  Marked'
    <2>1. cut \in [Device -> Nat]
        BY StoreLimits
    <2>2. \A q \in Op : ops'[q].result_id = ops[q].result_id
        BY <1>7 DEF Purge, TypeOK, Row
    <2>. QED
        BY <1>7, <2>1, <2>2, MarkedCut DEF Purge
<1>8. CASE AcquireDispatcher \/ Close
    BY <1>8, MarkedFrame DEF AcquireDispatcher, Close
<1>9. CASE Recover
    <2>1. PICK slot \in [Running -> 1 .. MaxSequence],
               last \in [Device -> 0 .. MaxSequence] : RecoverWith(slot, last)
        BY <1>9 DEF Recover
    <2>2. slot \in [Running -> Nat] /\ floor' = floor
        BY <1>9, StoreLimits DEF Recover
    <2>. QED
        BY <2>1, <2>2, MarkedRecover
<1>. QED
    BY <1>1, <1>2, <1>3, <1>4, <1>5, <1>6, <1>7, <1>8, <1>9
    DEF Next, Retention, Process

(* An operation with a retained event has a last one. *)
LEMMA LastEvent ==
    ASSUME TypeOK, Feed, NEW d \in Device, NEW e \in events[d]
    PROVE  \E l \in events[d] : l.op = e.op /\ l.seq >= e.seq /\ LastOf(d, l)
<1>. DEFINE Ages == {sequence[d] - f.seq : f \in {g \in events[d] : g.op = e.op}}
<1>1. \A f \in events[d] : f.seq \in (floor[d] + 1) .. sequence[d]
    BY DEF Feed, FeedContiguous
<1>2. floor[d] \in Nat /\ sequence[d] \in Nat
    BY DEF TypeOK
<1>3. Ages \subseteq Nat /\ Ages # {}
    BY <1>1, <1>2
<1>4. PICK age \in Ages : \A m \in Ages : age <= m
    BY <1>3, LeastNumber
<1>5. PICK l \in events[d] : l.op = e.op /\ age = sequence[d] - l.seq
    OBVIOUS
<1>6. ASSUME NEW f \in events[d], f.op = e.op
      PROVE  f.seq <= l.seq
    <2>1. sequence[d] - f.seq \in Ages
        BY <1>6
    <2>2. age <= sequence[d] - f.seq
        BY <1>4, <2>1
    <2>. HIDE DEF Ages
    <2>3. f.seq \in Nat /\ l.seq \in Nat
        BY <1>1, <1>2
    <2>. QED
        BY <1>2, <1>5, <2>2, <2>3
<1>. QED
    BY <1>5, <1>6 DEF LastOf

(* A reader whose cursor is not below the floor and who has not passed the *)
(* allocation of a result finds, above the cursor, an event of that        *)
(* operation that shows its row as it is now: purges, recoveries and       *)
(* resolutions of an unknown outcome never make the feed skip a result     *)
(* (_event, _purge_events, events).                                        *)
THEOREM ResultsAreReadable == Spec => []ResultsReadable
<1>1. Init => Marked
    BY StoreKeys DEF Init, Marked, Absent
<1>2. TypeOK /\ AbsentRows /\ Feed /\ Marked /\ [Next]_vars => Marked'
    BY MarkedStep
<1>3. TypeOK /\ Feed /\ Marked => ResultsReadable
    <2>. SUFFICES ASSUME TypeOK, Feed, Marked, NEW op \in Op, NEW after \in Nat,
                         floor[DeviceOf[op]] <= after, after < ops[op].result_id
                  PROVE  \E e \in events[DeviceOf[op]] :
                            /\ e.op = op /\ e.seq > after
                            /\ ops[op].expiry # "expired" => e.snap = Snapshot(ops[op])
        BY DEF ResultsReadable
    <2>1. PICK d \in Device : d = DeviceOf[op]
        BY StoreKeys
    <2>2. ops[op].result_id \in Nat /\ floor[d] \in Nat
        BY DEF TypeOK, Row
    <2>3. PICK e \in events[d] : e.op = op /\ e.seq = ops[op].result_id
        BY <2>1, <2>2 DEF Marked
    <2>4. PICK l \in events[d] : l.op = op /\ l.seq >= e.seq /\ LastOf(d, l)
        BY <2>3, LastEvent
    <2>5. l.seq \in Nat
        BY DEF TypeOK, Event
    <2>6. l.seq > after
        BY <2>2, <2>3, <2>4, <2>5
    <2>7. ops[op].expiry # "expired" => l.snap = Snapshot(ops[op])
        BY <2>4 DEF Feed, FeedCurrent
    <2>. QED
        BY <2>1, <2>4, <2>6, <2>7
<1>. QED
    BY <1>1, <1>2, <1>3, TypeCorrect, AbsentRowsAreEmpty, FeedCorrect, PTL DEF Spec

-----------------------------------------------------------------------------
(***************************************************************************)
(* The ledger implements the lifecycle: initial states are mapped to the   *)
(* initial state, and every transaction to a step of the lifecycle or to   *)
(* none.  LifeOf is the refinement mapping.                                *)
(***************************************************************************)
Lives == [op \in Op |-> LifeOf(op)]

(* The mapping of one row depends on five of its columns. *)
LEMMA LifeFrame ==
    ASSUME NEW op \in Op,
           ops'[op].state = ops[op].state,
           ops'[op].request = ops[op].request,
           ops'[op].remote_task_id = ops[op].remote_task_id,
           ops'[op].cancel_requested = ops[op].cancel_requested,
           ops'[op].cancel_claimed = ops[op].cancel_claimed
    PROVE  LifeOf(op)' = LifeOf(op)
BY DEF LifeOf, FlowOf

(* A transaction that shows the lifecycle nothing. *)
LEMMA LivesUnchanged ==
    ASSUME \A op \in Op : LifeOf(op)' = LifeOf(op)
    PROVE  Lives' = Lives
BY DEF Lives

(* Only the lives that changed matter. *)
LEMMA LivesChange ==
    ASSUME NEW op \in Op, \A q \in Op : q # op => LifeOf(q)' = LifeOf(q)
    PROVE  Lives' = [Lives EXCEPT ![op] = LifeOf(op)']
BY DEF Lives

(* A transaction that ends an operation, seen in the lifecycle. *)
LEMMA LifeEnds ==
    ASSUME TypeOK, NEW op \in Op, NEW state, NEW result, NEW code, state # "absent",
           ops[op].state # "absent", FinishRow(op, state, result, code)
    PROVE  Lives' = [Lives EXCEPT ![op].state = state]
<1>1. ops' = [ops EXCEPT ![op] = FinishedRow(ops[op], FreshId(op), state, result, code)]
    BY DEF FinishRow, Publish
<1>2. /\ ops'[op].state = state
      /\ ops'[op].request = ops[op].request
      /\ ops'[op].remote_task_id = ops[op].remote_task_id
      /\ ops'[op].cancel_requested = ops[op].cancel_requested
      /\ ops'[op].cancel_claimed = ops[op].cancel_claimed
    BY <1>1 DEF TypeOK, Row, FinishedRow
<1>3. LifeOf(op)' = [LifeOf(op) EXCEPT !.state = state]
    BY <1>2 DEF LifeOf, FlowOf
<1>4. \A q \in Op : q # op => LifeOf(q)' = LifeOf(q)
    BY <1>1, LifeFrame DEF TypeOK
<1>5. Lives[op] = LifeOf(op)
    BY DEF Lives
<1>. QED
    BY <1>3, <1>4, <1>5, LivesChange

(* What _finish keeps of the columns the lifecycle shows. *)
LEMMA FinishedRowKeeps ==
    ASSUME NEW row \in Row, NEW id, NEW state, NEW result, NEW code
    PROVE  LET new == FinishedRow(row, id, state, result, code)
           IN  /\ new.state = state
               /\ new.request = row.request
               /\ new.remote_task_id = row.remote_task_id
               /\ new.cancel_requested = row.cancel_requested
               /\ new.cancel_claimed = row.cancel_claimed
BY DEF FinishedRow, Row

(* The columns the lifecycle shows. *)
LEMMA LifeShows ==
    ASSUME NEW op \in Op
    PROVE  /\ Lives[op].state = ops[op].state
           /\ Lives[op].handle = ops[op].remote_task_id
           /\ Lives[op].cancel_requested = ops[op].cancel_requested
           /\ Lives[op].cancel_claimed = ops[op].cancel_claimed
BY DEF Lives, LifeOf

(* A row with given columns, as the lifecycle shows it. *)
LEMMA LifeShown ==
    ASSUME NEW op \in Op, NEW state, NEW req, NEW handle, NEW asked, NEW sent,
           state # "absent",
           ops'[op].state = state, ops'[op].request = req,
           ops'[op].remote_task_id = handle,
           ops'[op].cancel_requested = asked, ops'[op].cancel_claimed = sent
    PROVE  LifeOf(op)' = [state |-> state, lane |-> <<DeviceOf[op], req.flow>>,
                          handle |-> handle, cancel_requested |-> asked,
                          cancel_claimed |-> sent]
BY DEF LifeOf, FlowOf

(* Updates of a record with the fields of a life. *)
LEMMA LifeAsked ==
    ASSUME NEW state, NEW lane, NEW handle, NEW asked, NEW sent, NEW v
    PROVE  [[state |-> state, lane |-> lane, handle |-> handle,
             cancel_requested |-> asked, cancel_claimed |-> sent] EXCEPT !.cancel_requested = v]
             = [state |-> state, lane |-> lane, handle |-> handle,
                cancel_requested |-> v, cancel_claimed |-> sent]
OBVIOUS

\* The same for the column that says the cancel was sent.
LEMMA LifeSent ==
    ASSUME NEW state, NEW lane, NEW handle, NEW asked, NEW sent, NEW v
    PROVE  [[state |-> state, lane |-> lane, handle |-> handle,
             cancel_requested |-> asked, cancel_claimed |-> sent] EXCEPT !.cancel_claimed = v]
             = [state |-> state, lane |-> lane, handle |-> handle,
                cancel_requested |-> asked, cancel_claimed |-> v]
OBVIOUS

(* The two modules name the same states. *)
LEMMA SameStates ==
    /\ Lifecycles!Final = Final
    /\ Lifecycles!Terminal = Terminal
    /\ Lifecycles!Active = Active
BY DEF Lifecycles!Final, Lifecycles!Terminal, Lifecycles!Active, Final, Terminal, Active

(* finish(): Claimed, with OutboxAgrees, makes an open row an active one. *)
LEMMA FinishRefines ==
    ASSUME TypeOK, Lifecycle, NEW op \in Op, NEW state \in Terminal, NEW result, NEW code,
           FinishRow(op, state, result, code), Claimed(op)
    PROVE  Lifecycles!LifecycleNext
<1>1. ops[op].state \in Active
    BY DEF FinishRow, Open, Claimed, Lifecycle, OutboxAgrees
<1>2. Lives' = [Lives EXCEPT ![op].state = state]
    BY <1>1, LifeEnds DEF Active, Terminal, Final
<1>3. Lives[op].state = ops[op].state
    BY DEF Lives, LifeOf
<1>4. Lifecycles!LifeFinish(op, state)
    BY <1>1, <1>2, <1>3, SameStates DEF Lifecycles!LifeFinish, Lives
<1>. QED
    BY <1>4, SameStates DEF Lifecycles!LifecycleNext

(* claim(): a flow that is free in the tables is a free lane. *)
LEMMA ClaimRefines ==
    ASSUME TypeOK, NEW op \in Op, NEW to \in {"running", "failed"}, Claimable(op),
           Lives' = [Lives EXCEPT ![op].state = to]
    PROVE  Lifecycles!LifecycleNext
<1>1. \A q \in Op : Lives[q].state = ops[q].state
    BY DEF Lives, LifeOf
<1>2. \A q \in Op : ops[q].state # "absent" => Lives[q].lane = FlowOf(q)
    BY DEF Lives, LifeOf
<1>3. ops[op].state = "accepted" /\ \A q \in Op : ops[q].state \in Active => FlowOf(q) # FlowOf(op)
    BY DEF Claimable
<1>4. Lifecycles!LaneFree(op)
    BY <1>1, <1>2, <1>3, SameStates DEF Lifecycles!LaneFree, Lives, Active
<1>5. Lifecycles!LifeClaim(op, to)
    BY <1>1, <1>3, <1>4 DEF Lifecycles!LifeClaim, Lives
<1>. QED
    BY <1>5 DEF Lifecycles!LifecycleNext

(* Every transaction is a step of the lifecycle, or shows it nothing. *)
LEMMA RefinementStep ==
    ASSUME TypeOK, Lifecycle, [Next]_vars
    PROVE  Lifecycles!LifecycleNext \/ Lives' = Lives
<1>0. /\ \A q \in Op : Lives[q] = LifeOf(q)
      /\ \A q \in Op : Lives[q].state = ops[q].state
    BY DEF Lives, LifeOf
<1>1. CASE ops' = ops
    BY <1>1, LifeFrame, LivesUnchanged
<1>2. ASSUME NEW op \in Op, NEW req \in Request, Accept(op, req)
      PROVE  Lifecycles!LifecycleNext
    <2>1. /\ ops[op].state = "absent"
          /\ ops' = [ops EXCEPT ![op] = [Absent EXCEPT !.request = req, !.state = "accepted"]]
        BY <1>2 DEF Accept, NotPrevious, Publish
    <2>. DEFINE lane == <<DeviceOf[op], req.flow>>
    <2>2. lane \in Device \X Flow
        BY StoreKeys
    <2>3. LifeOf(op)' = [Lifecycles!Unborn EXCEPT !.state = "accepted", !.lane = lane]
        <3>0. PICK no : no = FALSE
            OBVIOUS
        <3>1. /\ ops'[op].state = "accepted" /\ ops'[op].request = req
              /\ ops'[op].remote_task_id = NoHandle
              /\ ops'[op].cancel_requested = no /\ ops'[op].cancel_claimed = no
            BY <2>1, <3>0 DEF TypeOK, Absent
        <3>2. LifeOf(op)' = [state |-> "accepted", lane |-> lane, handle |-> NoHandle,
                             cancel_requested |-> no, cancel_claimed |-> no]
            BY <3>1, LifeShown
        <3>3. Lifecycles!Unborn = [state |-> "absent", lane |-> NoRequest, handle |-> NoHandle,
                                   cancel_requested |-> no, cancel_claimed |-> no]
            BY <3>0, Zenon DEF Lifecycles!Unborn
        <3>4. [Lifecycles!Unborn EXCEPT !.state = "accepted", !.lane = lane]
                = [state |-> "accepted", lane |-> lane, handle |-> NoHandle,
                   cancel_requested |-> no, cancel_claimed |-> no]
            <4>1. PICK unborn : unborn = Lifecycles!Unborn
                OBVIOUS
            <4>2. unborn = [state |-> "absent", lane |-> NoRequest, handle |-> NoHandle,
                            cancel_requested |-> no, cancel_claimed |-> no]
                BY <3>3, <4>1, Zenon
            <4>3. PICK mid : mid = [unborn EXCEPT !.state = "accepted"]
                OBVIOUS
            <4>4. mid = [state |-> "accepted", lane |-> NoRequest, handle |-> NoHandle,
                         cancel_requested |-> no, cancel_claimed |-> no]
                BY <4>2, <4>3
            <4>5. [mid EXCEPT !.lane = lane]
                    = [state |-> "accepted", lane |-> lane, handle |-> NoHandle,
                       cancel_requested |-> no, cancel_claimed |-> no]
                BY <4>4
            <4>6. [unborn EXCEPT !.state = "accepted", !.lane = lane]
                    = [[unborn EXCEPT !.state = "accepted"] EXCEPT !.lane = lane]
                OBVIOUS
            <4>. QED
                BY <4>1, <4>3, <4>5, <4>6, Zenon
        <3>. QED
            BY <3>2, <3>4
    <2>4. \A q \in Op : q # op => LifeOf(q)' = LifeOf(q)
        BY <2>1, LifeFrame DEF TypeOK
    <2>5. Lives' = [Lives EXCEPT ![op] =
                      [Lifecycles!Unborn EXCEPT !.state = "accepted", !.lane = lane]]
        BY <2>3, <2>4, LivesChange
    <2>6. Lifecycles!LifeAccept(op, lane)
        BY <1>0, <2>1, <2>5 DEF Lifecycles!LifeAccept, Lives
    <2>. QED
        BY <2>2, <2>6 DEF Lifecycles!LifecycleNext
<1>3. ASSUME NEW op \in Op, CancelAccepted(op)
      PROVE  Lifecycles!LifecycleNext
    <2>1. Lives' = [Lives EXCEPT ![op].state = "canceled"]
        BY <1>3, LifeEnds DEF CancelAccepted
    <2>2. Lifecycles!LifeCancel(op)
        BY <1>0, <1>3, <2>1 DEF Lifecycles!LifeCancel, Lives, CancelAccepted
    <2>. QED
        BY <2>2 DEF Lifecycles!LifecycleNext
<1>4. ASSUME NEW op \in Op, CancelRequested(op)
      PROVE  Lifecycles!LifecycleNext
    <2>1. /\ ops[op].state \in Active
          /\ ops' = [ops EXCEPT ![op] = [ops[op] EXCEPT !.cancel_requested = TRUE,
                                                        !.error = "cancel_unconfirmed"]]
        BY <1>4 DEF CancelRequested, Publish
    <2>2. ~Lives[op].cancel_requested
        BY <1>4, LifeShows DEF CancelRequested
    <2>3. LifeOf(op)' = [LifeOf(op) EXCEPT !.cancel_requested = TRUE]
        <3>0. PICK yes : yes = TRUE
            OBVIOUS
        <3>1. /\ ops'[op].state = ops[op].state
              /\ ops'[op].request = ops[op].request
              /\ ops'[op].remote_task_id = ops[op].remote_task_id
              /\ ops'[op].cancel_requested = yes
              /\ ops'[op].cancel_claimed = ops[op].cancel_claimed
            BY <2>1, <3>0 DEF TypeOK, Row
        <3>2. ops[op].state # "absent"
            BY <2>1 DEF Active
        <3>3. LifeOf(op)' = [state |-> ops[op].state, lane |-> FlowOf(op),
                             handle |-> ops[op].remote_task_id,
                             cancel_requested |-> yes,
                             cancel_claimed |-> ops[op].cancel_claimed]
            BY <3>1, <3>2, LifeShown DEF FlowOf
        <3>4. LifeOf(op) = [state |-> ops[op].state, lane |-> FlowOf(op),
                            handle |-> ops[op].remote_task_id,
                            cancel_requested |-> ops[op].cancel_requested,
                            cancel_claimed |-> ops[op].cancel_claimed]
            BY <3>2, Zenon DEF LifeOf
        <3>5. LifeOf(op)' = [LifeOf(op) EXCEPT !.cancel_requested = yes]
            BY <3>3, <3>4, LifeAsked
        <3>. QED
            BY <3>0, <3>5, Zenon
    <2>4. \A q \in Op : q # op => LifeOf(q)' = LifeOf(q)
        BY <2>1, LifeFrame DEF TypeOK
    <2>5. Lives' = [Lives EXCEPT ![op].cancel_requested = TRUE]
        BY <1>0, <2>3, <2>4, LivesChange
    <2>6. Lifecycles!LifeCancel(op)
        BY <1>0, <2>1, <2>2, <2>5, SameStates DEF Lifecycles!LifeCancel, Lives
    <2>. QED
        BY <2>6 DEF Lifecycles!LifecycleNext
<1>5. ASSUME NEW op \in Op, Claim(op)
      PROVE  Lifecycles!LifecycleNext
    <2>1. Claimable(op) /\ ops[op].state = "accepted"
        BY <1>5 DEF Claim, Claimable
    <2>2. CASE ClaimPayloadExpired(op) \/ ClaimArtifactExpired(op)
        <3>1. Lives' = [Lives EXCEPT ![op].state = "failed"]
            BY <2>1, <2>2, LifeEnds DEF ClaimPayloadExpired, ClaimArtifactExpired
        <3>. QED
            BY <2>1, <3>1, ClaimRefines
    <2>3. CASE ClaimRunning(op)
        <3>1. ops' = [ops EXCEPT ![op] = [ops[op] EXCEPT !.state = "running"]]
            BY <2>3 DEF ClaimRunning, Publish
        <3>2. LifeOf(op)' = [LifeOf(op) EXCEPT !.state = "running"]
            <4>1. /\ ops'[op].state = "running"
                  /\ ops'[op].request = ops[op].request
                  /\ ops'[op].remote_task_id = ops[op].remote_task_id
                  /\ ops'[op].cancel_requested = ops[op].cancel_requested
                  /\ ops'[op].cancel_claimed = ops[op].cancel_claimed
                BY <3>1 DEF TypeOK, Row
            <4>. QED
                BY <2>1, <4>1 DEF LifeOf, FlowOf
        <3>3. \A q \in Op : q # op => LifeOf(q)' = LifeOf(q)
            BY <3>1, LifeFrame DEF TypeOK
        <3>4. Lives' = [Lives EXCEPT ![op].state = "running"]
            BY <1>0, <3>2, <3>3, LivesChange
        <3>. QED
            BY <2>1, <3>4, ClaimRefines
    <2>. QED
        BY <1>5, <2>2, <2>3 DEF Claim
<1>6. ASSUME NEW op \in Op, NEW state \in Terminal, NEW result, NEW code,
             Finish(op, state, result, code)
      PROVE  Lifecycles!LifecycleNext
    BY <1>6, FinishRefines DEF Finish, Terminal, Final
<1>7. ASSUME NEW op \in Op, Finishes(op)
      PROVE  Lifecycles!LifecycleNext
    BY <1>6, <1>7 DEF Finishes, Terminal, Final
<1>8. ASSUME NEW op \in Op, NEW h \in Handle, SaveHandle(op, h)
      PROVE  Lifecycles!LifecycleNext
    <2>1. /\ ops[op].state \in Active /\ ops[op].remote_task_id = NoHandle
          /\ ops' = [ops EXCEPT ![op] = [ops[op] EXCEPT !.remote_task_id = h]]
        BY <1>8 DEF SaveHandle, HandleFree, Claimed, Publish, Lifecycle, OutboxAgrees
    <2>2. LifeOf(op)' = [LifeOf(op) EXCEPT !.handle = h]
        <3>1. /\ ops'[op].state = ops[op].state
              /\ ops'[op].request = ops[op].request
              /\ ops'[op].remote_task_id = h
              /\ ops'[op].cancel_requested = ops[op].cancel_requested
              /\ ops'[op].cancel_claimed = ops[op].cancel_claimed
            BY <2>1 DEF TypeOK, Row
        <3>. QED
            BY <3>1 DEF LifeOf, FlowOf
    <2>3. \A q \in Op : q # op => LifeOf(q)' = LifeOf(q)
        BY <2>1, LifeFrame DEF TypeOK
    <2>4. Lives' = [Lives EXCEPT ![op].handle = h]
        BY <1>0, <2>2, <2>3, LivesChange
    <2>5. Lives[op].handle = NoHandle
        BY <2>1, LifeShows
    <2>6. Lifecycles!LifeSaveHandle(op, h)
        BY <1>0, <2>1, <2>4, <2>5, SameStates DEF Lifecycles!LifeSaveHandle, Lives
    <2>. QED
        BY <2>6 DEF Lifecycles!LifecycleNext
<1>9. ASSUME NEW op \in Op, ClaimCancel(op)
      PROVE  Lifecycles!LifecycleNext
    <2>1. /\ ops[op].state \in Active /\ ops[op].remote_task_id # NoHandle
          /\ ops' = [ops EXCEPT ![op] = [ops[op] EXCEPT !.cancel_claimed = TRUE]]
        BY <1>9 DEF ClaimCancel
    <2>2. /\ Lives[op].cancel_requested /\ ~Lives[op].cancel_claimed
          /\ Lives[op].handle # NoHandle
        BY <1>9, LifeShows DEF ClaimCancel
    <2>3. LifeOf(op)' = [LifeOf(op) EXCEPT !.cancel_claimed = TRUE]
        <3>0. PICK yes : yes = TRUE
            OBVIOUS
        <3>1. /\ ops'[op].state = ops[op].state
              /\ ops'[op].request = ops[op].request
              /\ ops'[op].remote_task_id = ops[op].remote_task_id
              /\ ops'[op].cancel_requested = ops[op].cancel_requested
              /\ ops'[op].cancel_claimed = yes
            BY <2>1, <3>0 DEF TypeOK, Row
        <3>2. ops[op].state # "absent"
            BY <2>1 DEF Active
        <3>3. LifeOf(op)' = [state |-> ops[op].state, lane |-> FlowOf(op),
                             handle |-> ops[op].remote_task_id,
                             cancel_requested |-> ops[op].cancel_requested,
                             cancel_claimed |-> yes]
            BY <3>1, <3>2, LifeShown DEF FlowOf
        <3>4. LifeOf(op) = [state |-> ops[op].state, lane |-> FlowOf(op),
                            handle |-> ops[op].remote_task_id,
                            cancel_requested |-> ops[op].cancel_requested,
                            cancel_claimed |-> ops[op].cancel_claimed]
            BY <3>2, Zenon DEF LifeOf
        <3>5. LifeOf(op)' = [LifeOf(op) EXCEPT !.cancel_claimed = yes]
            BY <3>3, <3>4, LifeSent
        <3>. QED
            BY <3>0, <3>5, Zenon
    <2>4. \A q \in Op : q # op => LifeOf(q)' = LifeOf(q)
        BY <2>1, LifeFrame DEF TypeOK
    <2>5. Lives' = [Lives EXCEPT ![op].cancel_claimed = TRUE]
        BY <1>0, <2>3, <2>4, LivesChange
    <2>6. Lifecycles!LifeClaimCancel(op)
        BY <1>0, <2>1, <2>2, <2>5, SameStates
        DEF Lifecycles!LifeClaimCancel, Lifecycles!CancelDue, Lives
    <2>. QED
        BY <2>6 DEF Lifecycles!LifecycleNext
<1>10. ASSUME NEW op \in Op, ResultExpires(op)
       PROVE  Lives' = Lives
    <2>1. ops' = [ops EXCEPT ![op] = [ops[op] EXCEPT !.expiry = "expired"]]
        BY <1>10 DEF ResultExpires
    <2>2. \A q \in Op : LifeOf(q)' = LifeOf(q)
        BY <2>1, LifeFrame DEF TypeOK, Row
    <2>. QED
        BY <2>2, LivesUnchanged
<1>11. ASSUME NEW cut, NEW gp, NEW ga, Purge(cut, gp, ga)
       PROVE  Lives' = Lives
    <2>1. ASSUME NEW q \in Op
          PROVE  LifeOf(q)' = LifeOf(q)
        <3>1. ops'[q] = ops[q] \/ ops'[q] = [ops[q] EXCEPT !.result = NoResult]
            BY <1>11 DEF Purge
        <3>. QED
            BY <3>1, LifeFrame DEF TypeOK, Row
    <2>. QED
        BY <2>1, LivesUnchanged
<1>12. CASE Recover
    <2>1. \A q \in Op \ Running : ops'[q] = ops[q]
        BY <1>12 DEF Recover, RecoverWith
    <2>2. PICK slot : \A q \in Running :
              ops'[q] = FinishedRow(ops[q], slot[q], "outcome_unknown", NoResult,
                                    "restart_unknown")
        BY <1>12 DEF Recover, RecoverWith, Running
    <2>3. ASSUME NEW q \in Op
          PROVE  LifeOf(q)' = IF Lives[q].state = "running"
                              THEN [Lives[q] EXCEPT !.state = "outcome_unknown"]
                              ELSE Lives[q]
        <3>1. CASE q \in Running
            <4>1. /\ ops'[q].state = "outcome_unknown"
                  /\ ops'[q].request = ops[q].request
                  /\ ops'[q].remote_task_id = ops[q].remote_task_id
                  /\ ops'[q].cancel_requested = ops[q].cancel_requested
                  /\ ops'[q].cancel_claimed = ops[q].cancel_claimed
                BY <2>2, <3>1, FinishedRowKeeps DEF TypeOK
            <4>2. LifeOf(q)' = [LifeOf(q) EXCEPT !.state = "outcome_unknown"]
                BY <3>1, <4>1 DEF LifeOf, FlowOf, Running
            <4>. QED
                BY <1>0, <3>1, <4>2 DEF Running
        <3>2. CASE q \notin Running
            BY <1>0, <2>1, <3>2, LifeFrame DEF Running
        <3>. QED
            BY <3>1, <3>2
    <2>4. Lifecycles!LifeRecover
        BY <2>3 DEF Lifecycles!LifeRecover, Lives
    <2>. QED
        BY <2>4 DEF Lifecycles!LifecycleNext
<1>13. CASE Process
    BY <1>1, <1>12, <1>13 DEF Process, AcquireDispatcher, Close
<1>14. CASE Retention
    BY <1>1, <1>10, <1>11, <1>14 DEF Retention, Events, PutArtifact
<1>15. ASSUME NEW op \in Op, Requests(op) \/ Dispatches(op)
       PROVE  Lifecycles!LifecycleNext \/ Lives' = Lives
    BY <1>1, <1>2, <1>3, <1>4, <1>5, <1>7, <1>8, <1>9, <1>15
    DEF Requests, Dispatches, CancelIntent, Receipt
<1>16. CASE UNCHANGED vars
    BY <1>1, <1>16 DEF vars
<1>. QED
    BY <1>13, <1>14, <1>15, <1>16 DEF Next

(* The ledger implements the lifecycle on which the dispatcher is built:   *)
(* every transaction moves one operation along it, or all running ones, or *)
(* nothing, whatever the order of the calls (every method of BrokerStore). *)
THEOREM LedgerRefinesLifecycle == Spec => ImplementsLifecycle
<1>1. Init => Lifecycles!LifecycleInit
    BY DEF Init, Lifecycles!LifecycleInit, Lifecycles!Unborn, LifeOf, Absent
<1>2. TypeOK /\ Lifecycle /\ [Next]_vars
        => [Lifecycles!LifecycleNext]_[op \in Op |-> LifeOf(op)]
    BY RefinementStep DEF Lives
<1>. QED
    BY <1>1, <1>2, TypeCorrect, LifecycleCorrect, PTL
    DEF Spec, ImplementsLifecycle, Lifecycles!LifecycleSpec
=============================================================================
