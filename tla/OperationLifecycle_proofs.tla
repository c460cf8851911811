---------------------- MODULE OperationLifecycle_proofs ----------------------
(***************************************************************************)
(* What the lifecycle promises whoever implements it or builds on it, for  *)
(* any operations, lanes and handles: the ledger implements it, and the    *)
(* dispatcher and the client's broker are built on it.                     *)
(***************************************************************************)
EXTENDS OperationLifecycle, TLAPS

(* Every transaction of the lifecycle keeps the rows typed.                *)
LEMMA RowsTyped ==
    ASSUME life \in [Op -> Life], [LifecycleNext]_life
    PROVE  life' \in [Op -> Life]
<1>1. ASSUME NEW op \in Op, NEW lane \in Lane, LifeAccept(op, lane)  PROVE life' \in [Op -> Life]
  BY <1>1 DEF LifeAccept, Life, Unborn, Terminal, Final
<1>2. ASSUME NEW op \in Op, NEW to \in {"running", "failed"}, LifeClaim(op, to)
      PROVE  life' \in [Op -> Life]
  BY <1>2 DEF LifeClaim, Life, Terminal, Final
<1>3. ASSUME NEW op \in Op, NEW to \in Terminal, LifeFinish(op, to)  PROVE life' \in [Op -> Life]
  BY <1>3 DEF LifeFinish, Life
<1>4. ASSUME NEW op \in Op, NEW handle \in Handle, LifeSaveHandle(op, handle)
      PROVE  life' \in [Op -> Life]
  BY <1>4 DEF LifeSaveHandle, Life
<1>5. ASSUME NEW op \in Op, LifeCancel(op)  PROVE life' \in [Op -> Life]
  <2>1. CASE life' = [life EXCEPT ![op].state = "canceled"]
    BY <2>1 DEF Life, Terminal, Final
  <2>2. CASE life' = [life EXCEPT ![op].cancel_requested = TRUE]
    BY <2>2 DEF Life
  <2> QED  BY <1>5, <2>1, <2>2 DEF LifeCancel
<1>6. ASSUME NEW op \in Op, LifeClaimCancel(op)  PROVE life' \in [Op -> Life]
  BY <1>6 DEF LifeClaimCancel, Life
<1>7. CASE LifeRecover
  BY <1>7 DEF LifeRecover, Life, Terminal, Final
<1>8. CASE UNCHANGED life
  BY <1>8
<1> QED  BY <1>1, <1>2, <1>3, <1>4, <1>5, <1>6, <1>7, <1>8 DEF LifecycleNext

(* A transaction never takes a handle, a cancellation or a definitive      *)
(* outcome back, and no row returns to a state before its claim.           *)
LEMMA RowsLater ==
    ASSUME life \in [Op -> Life], [LifecycleNext]_life, NEW op \in Op, life[op].state # "absent"
    PROVE  /\ life[op].handle # NoHandle => life'[op].handle = life[op].handle
           /\ life[op].state \in Final => life'[op].state = life[op].state
           /\ life'[op].state # "absent"
           /\ life'[op].state = "accepted" => life[op].state = "accepted"
           /\ life[op].cancel_claimed => life'[op].cancel_claimed
<1> DEFINE Kept == /\ life[op].handle # NoHandle => life'[op].handle = life[op].handle
                   /\ life[op].state \in Final => life'[op].state = life[op].state
                   /\ life'[op].state # "absent"
                   /\ life'[op].state = "accepted" => life[op].state = "accepted"
                   /\ life[op].cancel_claimed => life'[op].cancel_claimed
<1>1. ASSUME NEW q \in Op, NEW lane \in Lane, LifeAccept(q, lane)  PROVE Kept
  BY <1>1 DEF LifeAccept
<1>2. ASSUME NEW q \in Op, NEW to \in {"running", "failed"}, LifeClaim(q, to)  PROVE Kept
  BY <1>2 DEF LifeClaim, Life, Final
<1>3. ASSUME NEW q \in Op, NEW to \in Terminal, LifeFinish(q, to)  PROVE Kept
  BY <1>3 DEF LifeFinish, Life, Final, Active, Terminal
<1>4. ASSUME NEW q \in Op, NEW handle \in Handle, LifeSaveHandle(q, handle)  PROVE Kept
  BY <1>4 DEF LifeSaveHandle, Life
<1>5. ASSUME NEW q \in Op, LifeCancel(q)  PROVE Kept
  <2>1. CASE life[q].state = "accepted" /\ life' = [life EXCEPT ![q].state = "canceled"]
    BY <2>1 DEF Life, Final
  <2>2. CASE life' = [life EXCEPT ![q].cancel_requested = TRUE]
    BY <2>2 DEF Life
  <2> QED  BY <1>5, <2>1, <2>2 DEF LifeCancel
<1>6. ASSUME NEW q \in Op, LifeClaimCancel(q)  PROVE Kept
  BY <1>6 DEF LifeClaimCancel, Life
<1>7. CASE LifeRecover
  BY <1>7 DEF LifeRecover, Life, Final
<1>8. CASE UNCHANGED life
  BY <1>8
<1> QED
  BY <1>1, <1>2, <1>3, <1>4, <1>5, <1>6, <1>7, <1>8, Zenon DEF LifecycleNext

(* An operation that is not there has no handle.                           *)
LEMMA RowsBorn ==
    ASSUME life \in [Op -> Life], [LifecycleNext]_life,
           \A op \in Op : life[op].state = "absent" => life[op].handle = NoHandle
    PROVE  \A op \in Op : life'[op].state = "absent" => life'[op].handle = NoHandle
<1> SUFFICES ASSUME NEW op \in Op, life'[op].state = "absent"
             PROVE  life'[op].handle = NoHandle
  OBVIOUS
<1>1. life[op].state = "absent" /\ life[op].handle = NoHandle
  BY RowsLater
<1> DEFINE None == life'[op].handle = NoHandle
<1>2. ASSUME NEW q \in Op, NEW lane \in Lane, LifeAccept(q, lane)  PROVE None
  BY <1>1, <1>2 DEF LifeAccept, Unborn
<1>3. ASSUME NEW q \in Op, NEW to, life' = [life EXCEPT ![q].state = to]  PROVE None
  BY <1>1, <1>3 DEF Life
<1>4. ASSUME NEW q \in Op, NEW handle \in Handle, LifeSaveHandle(q, handle)  PROVE None
  BY <1>1, <1>4 DEF LifeSaveHandle, Life, Active
<1>5. ASSUME NEW q \in Op, LifeCancel(q)  PROVE None
  <2>1. CASE life' = [life EXCEPT ![q].cancel_requested = TRUE]
    BY <1>1, <2>1 DEF Life
  <2> QED  BY <1>3, <1>5, <2>1 DEF LifeCancel
<1>6. ASSUME NEW q \in Op, LifeClaimCancel(q)  PROVE None
  BY <1>1, <1>6 DEF LifeClaimCancel, Life
<1>7. CASE LifeRecover
  BY <1>1, <1>7 DEF LifeRecover, Life
<1>8. CASE UNCHANGED life
  BY <1>1, <1>8
<1> QED
  BY <1>2, <1>3, <1>4, <1>5, <1>6, <1>7, <1>8 DEF LifecycleNext, LifeClaim, LifeFinish

-----------------------------------------------------------------------------
(***************************************************************************)
(* At most one operation of a lane is handed out and unresolved: a claim   *)
(* waits until its lane is free, and nothing else makes one active.        *)
(***************************************************************************)
LaneExclusive ==
    \A p, q \in Op :
        /\ life[p].state \in Active
        /\ life[q].state \in Active
        /\ life[p].lane = life[q].lane
        => p = q

(* Only a claim makes an operation active, and nothing moves it to another *)
(* lane.                                                                   *)
LEMMA BecomesActive ==
    ASSUME life \in [Op -> Life], [LifecycleNext]_life, NEW q \in Op,
           life'[q].state \in Active
    PROVE  /\ life'[q].lane = life[q].lane
           /\ \/ life[q].state \in Active
              \/ LaneFree(q) /\ \A r \in Op : r # q => life'[r] = life[r]
<1> DEFINE Claims == /\ life'[q].lane = life[q].lane
                     /\ \/ life[q].state \in Active
                        \/ LaneFree(q) /\ \A r \in Op : r # q => life'[r] = life[r]
<1>1. ASSUME NEW op \in Op, NEW lane \in Lane, LifeAccept(op, lane)  PROVE Claims
  BY <1>1 DEF LifeAccept, Unborn, Active
<1>2. ASSUME NEW op \in Op, NEW to \in {"running", "failed"}, LifeClaim(op, to)
      PROVE  Claims
  <2>1. CASE op = q
    BY <1>2, <2>1 DEF LifeClaim, Life
  <2>2. CASE op # q
    BY <1>2, <2>2 DEF LifeClaim
  <2> QED  BY <2>1, <2>2
<1>3. ASSUME NEW op \in Op, NEW to \in Terminal, LifeFinish(op, to)  PROVE Claims
  BY <1>3 DEF LifeFinish, Life
<1>4. ASSUME NEW op \in Op, NEW handle \in Handle, LifeSaveHandle(op, handle)
      PROVE  Claims
  BY <1>4 DEF LifeSaveHandle, Life
<1>5. ASSUME NEW op \in Op, LifeCancel(op)  PROVE Claims
  <2>1. CASE life' = [life EXCEPT ![op].state = "canceled"]
    BY <2>1 DEF Life, Active
  <2>2. CASE /\ life[op].state \in Active
             /\ life' = [life EXCEPT ![op].cancel_requested = TRUE]
    BY <2>2 DEF Life
  <2> QED  BY <1>5, <2>1, <2>2 DEF LifeCancel
<1>6. ASSUME NEW op \in Op, LifeClaimCancel(op)  PROVE Claims
  BY <1>6 DEF LifeClaimCancel, CancelDue, Life
<1>7. ASSUME LifeRecover  PROVE Claims
  BY <1>7 DEF LifeRecover, Life, Active
<1>8. ASSUME UNCHANGED life  PROVE Claims
  BY <1>8
<1> QED
  BY <1>1, <1>2, <1>3, <1>4, <1>5, <1>6, <1>7, <1>8, Zenon DEF LifecycleNext

(* The lifecycle keeps its lanes exclusive.                                *)
LEMMA LaneStep ==
    ASSUME life \in [Op -> Life], LaneExclusive, [LifecycleNext]_life
    PROVE  LaneExclusive'
<1> SUFFICES ASSUME NEW p \in Op, NEW q \in Op, life'[p].state \in Active,
                    life'[q].state \in Active, life'[p].lane = life'[q].lane
             PROVE  p = q
  BY DEF LaneExclusive
<1>1. life[p].lane = life[q].lane
  BY BecomesActive
<1>2. CASE life[p].state \in Active /\ life[q].state \in Active
  BY <1>1, <1>2 DEF LaneExclusive
<1>3. CASE life[p].state \notin Active
  <2>1. LaneFree(p) /\ \A r \in Op : r # p => life'[r] = life[r]
    BY <1>3, BecomesActive
  <2> QED  BY <1>1, <2>1 DEF LaneFree
<1>4. CASE life[q].state \notin Active
  <2>1. LaneFree(q) /\ \A r \in Op : r # q => life'[r] = life[r]
    BY <1>4, BecomesActive
  <2> QED  BY <1>1, <2>1 DEF LaneFree
<1> QED  BY <1>2, <1>3, <1>4

(* The promise of the lifecycle itself: whatever implements it keeps at    *)
(* most one operation of a flow running or unresolved (claim).             *)
THEOREM LifecycleSerializes == LifecycleSpec => []LaneExclusive
<1> DEFINE Rows == life \in [Op -> Life]
<1>1. LifecycleInit => Rows /\ LaneExclusive
  <2> SUFFICES ASSUME LifecycleInit PROVE Rows /\ LaneExclusive
    OBVIOUS
  <2>1. Rows
    BY DEF LifecycleInit, Life, Unborn
  <2>2. LaneExclusive
    BY DEF LifecycleInit, LaneExclusive, Unborn, Active
  <2> QED  BY <2>1, <2>2
<1>2. Rows /\ LaneExclusive /\ [LifecycleNext]_life => (Rows /\ LaneExclusive)'
  BY RowsTyped, LaneStep
<1> HIDE DEF Rows
<1> QED  BY <1>1, <1>2, PTL DEF LifecycleSpec
=============================================================================
