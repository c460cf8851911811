------------------------- MODULE OperationLifecycle -------------------------
(***************************************************************************)
(* What the ledger promises the dispatcher and the clients about the life  *)
(* of an operation, without the tables that keep it: accepted, handed out  *)
(* at most once and only while its lane is free, then resolved, perhaps    *)
(* through outcome_unknown.  A lane is a flow of a device.  BrokerStore    *)
(* implements this specification; BrokerDispatcher is built on it.         *)
(***************************************************************************)
EXTENDS Naturals

CONSTANTS
    Op,        \* operations
    Lane,      \* pairs of a device and a flow
    NoLane,    \* the lane of an operation that is not there yet
    Handle,    \* task handles of the peer
    NoHandle   \* none saved

ASSUME LifecycleValues == NoLane \notin Lane /\ NoHandle \notin Handle

VARIABLE life

Final == {"completed", "failed", "canceled"}
Terminal == Final \cup {"outcome_unknown"}
Active == {"running", "outcome_unknown"}

Life == [state : {"absent", "accepted", "running"} \cup Terminal,
         lane : Lane \cup {NoLane},
         handle : Handle \cup {NoHandle},
         cancel_requested : BOOLEAN,
         cancel_claimed : BOOLEAN]

Unborn == [state |-> "absent", lane |-> NoLane, handle |-> NoHandle,
           cancel_requested |-> FALSE, cancel_claimed |-> FALSE]

-----------------------------------------------------------------------------
LifeAccept(op, lane) ==
    /\ life[op].state = "absent"
    /\ life' = [life EXCEPT ![op] = [Unborn EXCEPT !.state = "accepted",
                                                   !.lane = lane]]

LaneFree(op) ==
    ~ \E q \in Op : life[q].state \in Active /\ life[q].lane = life[op].lane

\* claim(): handed out, or failed because its payload or attachment expired.
LifeClaim(op, to) ==
    /\ life[op].state = "accepted"
    /\ LaneFree(op)
    /\ to \in {"running", "failed"}
    /\ life' = [life EXCEPT ![op].state = to]

\* finish(): a definitive outcome is the last word; an unknown one is not.
LifeFinish(op, to) ==
    /\ life[op].state \in Active
    /\ to \in Terminal
    /\ life' = [life EXCEPT ![op].state = to]

LifeSaveHandle(op, handle) ==
    /\ life[op].state \in Active
    /\ life[op].handle = NoHandle
    /\ life' = [life EXCEPT ![op].handle = handle]

MutantRequeue ==
    life' = [op \in Op |-> IF life[op].state = "running"
                           THEN [life[op] EXCEPT !.state = "accepted"]
                           ELSE life[op]]

MutantUnnamed ==
    life' = [op \in Op |-> IF life[op].state = "running"
                           THEN [life[op] EXCEPT !.state = "unknown"]
                           ELSE life[op]]

\* recover(): a new process cannot know what became of the running ones.
LifeRecover ==
    life' = [op \in Op |-> IF life[op].state = "running"
                           THEN [life[op] EXCEPT !.state = "outcome_unknown"]
                           ELSE life[op]]

\* cancel_intent(): at once before dispatch, a request afterwards.
LifeCancel(op) ==
    \/ /\ life[op].state = "accepted"
       /\ life' = [life EXCEPT ![op].state = "canceled"]
    \/ /\ life[op].state \in Active
       /\ ~life[op].cancel_requested
       /\ life' = [life EXCEPT ![op].cancel_requested = TRUE]

MutantCancelDue(op) ==
    /\ life[op].cancel_requested
    /\ life[op].handle # NoHandle
    /\ life[op].state \in Active

CancelDue(op) ==
    /\ life[op].cancel_requested
    /\ ~life[op].cancel_claimed
    /\ life[op].handle # NoHandle
    /\ life[op].state \in Active

LifeClaimCancel(op) ==
    /\ CancelDue(op)
    /\ life' = [life EXCEPT ![op].cancel_claimed = TRUE]

-----------------------------------------------------------------------------
LifecycleInit == life = [op \in Op |-> Unborn]

LifecycleNext ==
    \/ \E op \in Op :
         \/ \E lane \in Lane : LifeAccept(op, lane)
         \/ \E to \in {"running", "failed"} : LifeClaim(op, to)
         \/ \E to \in Terminal : LifeFinish(op, to)
         \/ \E handle \in Handle : LifeSaveHandle(op, handle)
         \/ LifeCancel(op)
         \/ LifeClaimCancel(op)
    \/ LifeRecover

LifecycleSpec == LifecycleInit /\ [][LifecycleNext]_life
=============================================================================
