---------------------- MODULE BrokerDispatcher_proofs ----------------------
(***************************************************************************)
(* Proofs about BrokerDispatcher, for any operations, lanes, handles,      *)
(* limits and number of stops: the peer is asked once, observations        *)
(* exclude each other, no outcome is invented, no running operation is     *)
(* left without its stream, and the ledger is used within its lifecycle.   *)
(***************************************************************************)
EXTENDS BrokerDispatcher, OperationLifecycle_proofs, TLAPS

Job == [at : At, task : PeerState]

\* Calls that wait for a row name an operation.
StraysTyped == \A c \in strays : c.name \in {"save_handle", "finish"} => c.op \in Op

Typed == TypeOK /\ StraysTyped

(***************************************************************************)
(* What is known of an operation before the peer has heard of it.  A       *)
(* stream that was created and has not begun belongs to an operation that  *)
(* is running and was never sent; whatever could end that operation needs  *)
(* an earlier submission.                                                  *)
(***************************************************************************)
Asked(op) ==
    /\ life[op].state \in {"absent", "accepted"} =>
         submitted[op] = 0 /\ jobs[<<"stream", op>>].at = "none"
    /\ jobs[<<"stream", op>>].at = "created" =>
         submitted[op] = 0 /\ life[op].state = "running"
    /\ submitted[op] \in {0, 1}

\* The same of a cancellation, with the claim that precedes it.
CancelAsked(op) ==
    /\ life[op].state \in {"absent", "accepted"} => ~life[op].cancel_claimed
    /\ ~life[op].cancel_claimed => cancels[op] = 0 /\ jobs[<<"cancel", op>>].at = "none"
    /\ jobs[<<"cancel", op>>].at = "created" => cancels[op] = 0
    /\ cancels[op] \in {0, 1}

\* The peer knows only what was sent, and a handle is the peer's.
Known(op) ==
    /\ peer[op] # "idle" => submitted[op] = 1
    /\ life[op].handle # NoHandle => peer[op] # "idle"

\* OutcomeHonest, of one operation.
Honest(op) ==
    /\ life[op].state \in Final /\ submitted[op] > 0 =>
         peer[op] \notin {"idle", "working"} /\ life[op].handle # NoHandle
    /\ life[op].state = "completed" => peer[op] = "completed"
    /\ life[op].state = "canceled" /\ submitted[op] > 0 => peer[op] = "canceled"

\* A process that does not serve yet has neither jobs nor strays.
Quiet ==
    phase \in {"down", "locked"} => strays = {} /\ \A k \in Key : jobs[k].at = "none"

\* The peer's task is over, and the row has its handle or is definitive.
Over(op) ==
    /\ peer[op] \notin {"idle", "working"}
    /\ life[op].handle # NoHandle \/ life[op].state \in Final

\* What a job has learned: the peer said what the job observes.
Learned(kind, op) ==
    LET j == jobs[<<kind, op>>]
    IN  /\ kind # "stream" /\ j.at # "none" => life[op].handle # NoHandle
        /\ j.at \notin {"none", "created", "done", "raised"} => submitted[op] = 1
        /\ j.at \in {"waiting"} \cup Observing =>
             peer[op] # "idle" /\ j.task \in {"working", peer[op]}
        /\ j.at \in {"reading", "storing"} => j.task # "working" /\ Over(op)
        /\ j.at = "failing" => Over(op)

\* What is known of a call that lost its coroutine.
Owed(c) ==
    /\ c.name = "save_handle" => peer[c.op] # "idle"
    /\ c.name = "finish" =>
         /\ submitted[c.op] = 1
         /\ c.to \in Final => Over(c.op)
         /\ c.to \in {"completed", "canceled"} => peer[c.op] = c.to

HonestInv ==
    /\ Quiet
    /\ \A op \in Op : Asked(op) /\ CancelAsked(op) /\ Known(op) /\ Honest(op)
    /\ \A kind \in Kind, op \in Op : Learned(kind, op)
    /\ \A c \in strays : Owed(c)

(* What Move does: one job changes, and keeps the state it observes while  *)
(* it observes.                                                            *)
LEMMA Moves ==
    ASSUME TypeOK, NEW kind \in Kind, NEW op \in Op, NEW at \in At, Move(kind, op, at)
    PROVE  /\ jobs' \in [Key -> Job]
           /\ jobs'[<<kind, op>>].at = at
           /\ at \in Observing => jobs'[<<kind, op>>].task = jobs[<<kind, op>>].task
           /\ \A k \in Key : k # <<kind, op>> => jobs'[k] = jobs[k]
  BY DEF Move, TypeOK, PeerState, Key, Job

(* The dispatcher stays within the lifecycle of the ledger.                *)
LEMMA Within ==
    ASSUME Typed, Next
    PROVE  [LifecycleNext]_life
<1> USE DispatcherValues
<1>1. \A op \in Op : DoSaveHandle(op) => [LifecycleNext]_life
  BY DEF DoSaveHandle, LifecycleNext
<1>2. \A op \in Op, to \in Terminal : DoFinish(op, to) => [LifecycleNext]_life
  BY DEF DoFinish, LifecycleNext
<1>3. \A op \in Op : \A to : DoFinish(op, to) => [LifecycleNext]_life
  BY <1>2 DEF DoFinish, LifeFinish
<1>4. \A kind \in Kind, op \in Op : \A task :
        JobSteps(kind, op) \/ PeerAnswers(kind, op, task) => [LifecycleNext]_life
  BY <1>1, <1>3 DEF JobSteps, JobStarts, PeerFails, TakesLock, SavesHandle, ReadsRow,
     StoresOutcome, GivesUp, PeerAnswers
<1>5. \A op \in Op : StreamTimesOut(op) \/ (\E kind \in Kind : JobRaises(kind, op)) =>
        [LifecycleNext]_life
  BY DEF StreamTimesOut, JobRaises
<1>6. LoopSteps => [LifecycleNext]_life
  BY DEF LoopSteps, Reaps, StartsCancel, CancelsDone, StartsReads, StartsStream,
     ClaimsDone, LifecycleNext
<1>7. ProcessSteps \/ Stopping \/ OperatorStops \/ Crash => [LifecycleNext]_life
  BY DEF ProcessSteps, Starts, Recovers, MarksUnknown, Stops, DispatcherEnds, Stopping, Closes,
     LoopRaises, ReapRaises, CancelsJobs, OperatorStops, Crash, Gone, LifecycleNext, Terminal
<1>8. \A c \in strays : Stray(c) => [LifecycleNext]_life
  BY <1>1, <1>3 DEF Stray, LifecycleNext, Typed, StraysTyped
<1>9. \A op \in Op : \A to : Posts(op) \/ PeerReceives(op) \/ PeerEnds(op, to) =>
        [LifecycleNext]_life
  BY DEF Posts, PeerReceives, PeerEnds, LifecycleNext
<1> QED  BY <1>4, <1>5, <1>6, <1>7, <1>8, <1>9 DEF Next

(* A job's step keeps the jobs typed.                                      *)
LEMMA JobsTyped ==
    ASSUME Typed, NEW kind \in Kind, NEW op \in Op, NEW task \in PeerState,
           JobSteps(kind, op) \/ PeerAnswers(kind, op, task)
    PROVE  jobs' \in [Key -> Job]
<1>1. ASSUME NEW at \in At, Move(kind, op, at)  PROVE jobs' \in [Key -> Job]
  BY <1>1, Moves DEF Typed
<1>2. CASE Resume(kind, op)
  BY <1>1, <1>2 DEF Resume, At
<1>3. CASE PeerAnswers(kind, op, task)
  BY <1>3 DEF PeerAnswers, Typed, TypeOK, Job, Key, At
<1> QED
  BY <1>1, <1>2, <1>3 DEF JobSteps, JobStarts, PeerFails, TakesLock, SavesHandle,
     ReadsRow, StoresOutcome, GivesUp, At

(* Every step keeps the types.                                             *)
LEMMA TypedStep ==
    ASSUME Typed, [Next]_vars
    PROVE  Typed'
<1> USE DispatcherValues
<1>0. life' \in [Op -> Life]
  BY RowsTyped, Within DEF Typed, TypeOK, vars
<1>1. ASSUME NEW kind \in Kind, NEW op \in Op, NEW task \in PeerState,
             JobSteps(kind, op) \/ PeerAnswers(kind, op, task)
      PROVE  Typed'
  <2>1. jobs' \in [Key -> Job]
    BY <1>1, JobsTyped
  <2>2. lock' \in Key \cup {NoKey}
    BY <1>1 DEF Typed, TypeOK, Key, JobSteps, JobStarts, PeerFails, TakesLock,
       SavesHandle, ReadsRow, StoresOutcome, GivesUp, Resume, PeerAnswers
  <2>3. submitted' \in [Op -> Nat] /\ cancels' \in [Op -> Nat]
    BY <1>1 DEF Typed, TypeOK, JobSteps, JobStarts, PeerFails, TakesLock, SavesHandle,
       ReadsRow, StoresOutcome, GivesUp, PeerAnswers, peerVars
  <2>4. UNCHANGED <<phase, loop, strays, peer, stops>>
    BY <1>1 DEF JobSteps, JobStarts, PeerFails, TakesLock, SavesHandle, ReadsRow,
       StoresOutcome, GivesUp, PeerAnswers, peerVars
  <2> QED  BY <1>0, <2>1, <2>2, <2>3, <2>4 DEF Typed, TypeOK, StraysTyped, Job
<1>2. ASSUME NEW op \in Op, StreamTimesOut(op)  PROVE Typed'
  <2>1. jobs' \in [Key -> Job]
    BY <1>2, Moves DEF StreamTimesOut, Typed, At, Kind
  <2>2. StraysTyped'
    BY <1>2 DEF StreamTimesOut, Typed, StraysTyped, CallsOf, Call
  <2> QED  BY <1>0, <1>2, <2>1, <2>2 DEF StreamTimesOut, Typed, TypeOK, Job, peerVars
<1>3. CASE LoopSteps
  <2>1. Idle \in Job /\ Created \in Job
    BY DEF Idle, Created, Job, At, PeerState
  <2>2. jobs' \in [Key -> Job]
    BY <1>3, <2>1 DEF LoopSteps, Reaps, StartsCancel, CancelsDone, StartsReads,
       StartsStream, ClaimsDone, Typed, TypeOK, Job
  <2>3. loop' \in {"reap", "cancels", "reads", "claims"}
    BY <1>3 DEF LoopSteps, Reaps, StartsCancel, CancelsDone, StartsReads, StartsStream,
       ClaimsDone, Typed, TypeOK
  <2>4. UNCHANGED <<phase, lock, strays, peerVars, stops>>
    BY <1>3 DEF LoopSteps, Reaps, StartsCancel, CancelsDone, StartsReads, StartsStream,
       ClaimsDone
  <2> QED  BY <1>0, <2>2, <2>3, <2>4 DEF Typed, TypeOK, StraysTyped, Job, peerVars
<1>4. CASE Starts \/ Recovers \/ \E op \in Op : MarksUnknown(op)
  BY <1>0, <1>4 DEF Starts, Recovers, MarksUnknown, Typed, TypeOK, StraysTyped, peerVars
<1>14. ASSUME NEW kind \in Kind, NEW op \in Op, JobRaises(kind, op)  PROVE Typed'
  <2>1. jobs' \in [Key -> Job]
    BY <1>14, Moves DEF JobRaises, Typed, At
  <2>2. StraysTyped'
    BY <1>14 DEF JobRaises, Typed, StraysTyped, CallsOf, Call
  <2>3. lock' \in Key \cup {NoKey} /\ stops' \in 0 .. MaxStops
    BY <1>14 DEF JobRaises, Typed, TypeOK
  <2> QED  BY <1>0, <1>14, <2>1, <2>2, <2>3 DEF JobRaises, Typed, TypeOK, Job, peerVars
<1>15. CASE DispatcherEnds
  <2>1. stops' \in 0 .. MaxStops
    BY <1>15 DEF DispatcherEnds, Typed, TypeOK
  <2> QED  BY <1>0, <1>15, <2>1 DEF DispatcherEnds, Typed, TypeOK, StraysTyped, peerVars, Idle,
     At, PeerState
<1>5. CASE Gone /\ stops' \in 0 .. MaxStops
  BY <1>0, <1>5 DEF Gone, Typed, TypeOK, StraysTyped, peerVars, Idle, At, PeerState
<1>6. CASE Stopping
  <2>0. PICK reaped : CancelsJobs(reaped)
    BY <1>6 DEF Stopping, Closes, LoopRaises, ReapRaises
  <2>1. jobs' \in [Key -> Job]
    BY <2>0 DEF CancelsJobs, Idle, Job, At, PeerState
  <2>2. StraysTyped'
    <3>1. \A k \in Key : \A c \in CallsOf(k[1], k[2]) : c.op \in Op
      BY DEF CallsOf, Call, Key
    <3>2. \A c \in LoopCalls : c.name \notin {"save_handle", "finish"}
      BY DEF LoopCalls, Call
    <3> QED  BY <2>0, <3>1, <3>2 DEF CancelsJobs, Typed, StraysTyped
  <2>3. phase' \in {"closing", "failing"} /\ stops' \in 0 .. MaxStops
    BY <1>6 DEF Stopping, Closes, LoopRaises, ReapRaises, Typed, TypeOK
  <2> QED  BY <1>0, <2>0, <2>1, <2>2, <2>3 DEF CancelsJobs, Typed, TypeOK, Job, peerVars
<1>7. ASSUME NEW c \in strays, Stray(c)  PROVE Typed'
  BY <1>0, <1>7 DEF Stray, Typed, TypeOK, StraysTyped, peerVars
<1>8. ASSUME NEW op \in Op, Posts(op)  PROVE Typed'
  BY <1>0, <1>8 DEF Posts, Typed, TypeOK, StraysTyped, peerVars
<1>9. ASSUME NEW op \in Op, NEW to \in PeerOutcome, PeerReceives(op) \/ PeerEnds(op, to)
      PROVE  Typed'
  BY <1>0, <1>9 DEF PeerReceives, PeerEnds, Typed, TypeOK, StraysTyped, PeerState
<1>10. CASE UNCHANGED vars
  BY <1>0, <1>10 DEF vars, Typed, TypeOK, StraysTyped, peerVars
<1>11. Stops \/ OperatorStops \/ Crash => Gone /\ stops' \in 0 .. MaxStops
  BY DEF Stops, OperatorStops, Crash, Typed, TypeOK
<1>12. ASSUME NEW op \in Op, PeerReceives(op)  PROVE Typed'
  BY <1>0, <1>12 DEF PeerReceives, Typed, TypeOK, StraysTyped, PeerState
<1>13. ASSUME NEW kind \in Kind, NEW op \in Op, JobSteps(kind, op)  PROVE Typed'
  BY <1>1, <1>13 DEF PeerState
<1> QED
  BY <1>1, <1>2, <1>3, <1>4, <1>5, <1>6, <1>7, <1>8, <1>9, <1>10, <1>11, <1>12, <1>13,
     <1>14, <1>15 DEF Next, ProcessSteps

-----------------------------------------------------------------------------
(***************************************************************************)
(* Time passes: what the peer and the ledger know about an operation is    *)
(* never taken back.                                                       *)
(***************************************************************************)
Later(op) ==
    /\ life[op].handle # NoHandle => life'[op].handle # NoHandle
    /\ life[op].state \in Final => life'[op].state = life[op].state
    /\ submitted[op] = 1 => submitted'[op] = 1
    /\ peer[op] # "idle" => peer'[op] # "idle"
    /\ peer[op] \notin {"idle", "working"} => peer'[op] = peer[op]

(* Only the start of a stream or of a cancel asks the peer for something.  *)
LEMMA AskedBy ==
    ASSUME Typed, Next, NEW op \in Op
    PROVE  /\ \/ submitted'[op] = submitted[op]
              \/ /\ submitted'[op] = submitted[op] + 1
                 /\ jobs[<<"stream", op>>].at = "created"
                 /\ JobStarts("stream", op)
           /\ \/ cancels'[op] = cancels[op]
              \/ /\ cancels'[op] = cancels[op] + 1
                 /\ jobs[<<"cancel", op>>].at = "created"
                 /\ JobStarts("cancel", op)
           /\ \/ peer'[op] = peer[op]
              \/ peer[op] = "idle" /\ peer'[op] # "idle" /\ submitted[op] > 0
              \/ peer[op] = "working" /\ peer'[op] # "idle"
<1>1. ASSUME NEW kind \in Kind, NEW q \in Op, JobStarts(kind, q)
      PROVE  /\ UNCHANGED peer
             /\ \/ cancels'[op] = cancels[op]
                \/ cancels'[op] = cancels[op] + 1 /\ q = op /\ kind = "cancel"
             /\ \/ submitted'[op] = submitted[op]
                \/ submitted'[op] = submitted[op] + 1 /\ q = op /\ kind = "stream"
  BY <1>1 DEF JobStarts, Typed, TypeOK
<1>2. ASSUME NEW q \in Op, NEW to \in PeerOutcome, PeerReceives(q) \/ PeerEnds(q, to)
      PROVE  /\ UNCHANGED <<submitted, cancels>>
             /\ \/ peer'[op] = peer[op]
                \/ peer[op] = "idle" /\ peer'[op] # "idle" /\ submitted[op] > 0
                \/ peer[op] = "working" /\ peer'[op] # "idle"
  BY <1>2, DispatcherValues DEF PeerReceives, PeerEnds, Typed, TypeOK
<1>3. ASSUME NEW q \in Op, PeerReceives(q)
      PROVE  /\ UNCHANGED <<submitted, cancels>>
             /\ \/ peer'[op] = peer[op]
                \/ peer[op] = "idle" /\ peer'[op] # "idle" /\ submitted[op] > 0
                \/ peer[op] = "working" /\ peer'[op] # "idle"
  BY <1>3 DEF PeerReceives, Typed, TypeOK
<1>4. CASE UNCHANGED peerVars
  BY <1>4 DEF peerVars
<1>5. ASSUME NEW kind \in Kind, NEW q \in Op, NEW task,
             JobSteps(kind, q) \/ PeerAnswers(kind, q, task)
      PROVE  JobStarts(kind, q) \/ UNCHANGED peerVars
  BY <1>5 DEF JobSteps, PeerFails, TakesLock, SavesHandle, ReadsRow, StoresOutcome,
     GivesUp, PeerAnswers
<1>6. LoopSteps \/ ProcessSteps \/ Stopping \/ OperatorStops \/ Crash
        \/ (\E c \in strays : Stray(c)) => UNCHANGED peerVars
  BY DEF LoopSteps, Reaps, StartsCancel, CancelsDone, StartsReads, StartsStream,
     ClaimsDone, ProcessSteps, Starts, Recovers, MarksUnknown, Stops, DispatcherEnds, Stopping,
     Closes, LoopRaises, ReapRaises, CancelsJobs, OperatorStops, Crash, Gone, Stray
<1>7. \A q \in Op : StreamTimesOut(q) \/ Posts(q) \/ (\E kind \in Kind : JobRaises(kind, q)) =>
        UNCHANGED peerVars
  BY DEF StreamTimesOut, Posts, JobRaises
<1> QED
  BY <1>1, <1>2, <1>3, <1>4, <1>5, <1>6, <1>7 DEF Next, JobStarts

(* Time passes for every operation.                                        *)
LEMMA Laters ==
    ASSUME Typed, HonestInv, Next
    PROVE  \A op \in Op : Later(op)
<1> SUFFICES ASSUME NEW op \in Op  PROVE Later(op)
  OBVIOUS
<1>1. [LifecycleNext]_life
  BY Within
<1>2. life[op].state = "absent" => life[op].handle = NoHandle
  <2>1. Asked(op) /\ Known(op)
    BY DEF HonestInv
  <2> QED  BY <2>1 DEF Asked, Known
<1>3. life[op].state \in Final => life[op].state # "absent"
  BY DEF Final
<1>4. submitted[op] = 1 => jobs[<<"stream", op>>].at # "created"
  BY DEF HonestInv, Asked
<1> QED  BY <1>1, <1>2, <1>3, <1>4, RowsLater, AskedBy DEF Later, Typed, TypeOK

(* What an unmoved job has learned stays true.                             *)
LEMMA StillLearned ==
    ASSUME Typed, NEW kind \in Kind, NEW op \in Op, Later(op), Learned(kind, op),
           jobs'[<<kind, op>>] = jobs[<<kind, op>>]
    PROVE  Learned(kind, op)'
  BY DEF Later, Learned, Over, Final, Observing

(* What is known of a stray stays true.                                    *)
LEMMA StillOwed ==
    ASSUME NEW c, c.op \in Op, Later(c.op), Owed(c)
    PROVE  Owed(c)'
  BY DEF Later, Owed, Over, Final

-----------------------------------------------------------------------------
(* A job's own step teaches it only what is so.                            *)
LEMMA StepLearned ==
    ASSUME Typed, HonestInv, NEW kind \in Kind, NEW op \in Op, NEW task \in PeerState,
           JobSteps(kind, op) \/ PeerAnswers(kind, op, task), Later(op)
    PROVE  Learned(kind, op)'
<1> DEFINE k == <<kind, op>>
<1>0. Asked(op) /\ Known(op) /\ Learned(kind, op)
  BY DEF HonestInv
<1>1. kind # "stream" /\ jobs[k].at # "none" => life'[op].handle # NoHandle
  BY <1>0 DEF Learned, Later
<1>2. jobs[k].at \notin {"none", "created", "done", "raised"} => submitted'[op] = 1
  BY <1>0 DEF Learned, Later
<1>3. \A at \in At : Move(kind, op, at) =>
        /\ jobs'[k].at = at
        /\ at \in Observing => jobs'[k].task = jobs[k].task
  BY Moves DEF Typed
<1>4. ASSUME NEW at \in At, Move(kind, op, at), jobs[k].at # "none",
             jobs[k].at \notin {"none", "created", "done", "raised"} \/ submitted'[op] = 1,
             at \notin {"waiting", "failing"} \cup Observing
      PROVE  Learned(kind, op)'
  BY <1>1, <1>2, <1>3, <1>4 DEF Learned, Observing
<1>5. CASE JobStarts(kind, op)
  <2>1. kind = "stream" => submitted'[op] = 1
    BY <1>0, <1>5 DEF JobStarts, Asked, Typed, TypeOK
  <2>2. kind # "stream" => submitted'[op] = 1
    BY <1>0, <1>1, <1>5 DEF JobStarts, Known, Learned, Later
  <2> QED  BY <1>4, <1>5, <2>1, <2>2 DEF JobStarts, At, Observing
<1>6. CASE PeerFails(kind, op)
  BY <1>4, <1>6 DEF PeerFails, At, Observing
<1>7. CASE TakesLock(kind, op)
  BY <1>0, <1>1, <1>2, <1>3, <1>7 DEF TakesLock, Learned, At, Observing, peerVars
<1>8. CASE SavesHandle(kind, op)
  <2>1. CASE Resume(kind, op)
    BY <1>4, <1>8, <2>1 DEF SavesHandle, Resume, At, Observing
  <2>2. CASE jobs[k].task # "working" /\ Move(kind, op, "reading")
    <3>1. life'[op].handle # NoHandle \/ life'[op].state \in Final
      BY <1>8, DispatcherValues, LifecycleValues DEF SavesHandle, DoSaveHandle,
         LifeSaveHandle, Typed, TypeOK, Life
    <3>2. peer'[op] # "idle" /\ jobs[k].task = peer'[op]
      BY <1>0, <1>8, <2>2 DEF SavesHandle, Learned, Observing, peerVars
    <3> QED  BY <1>1, <1>2, <1>3, <1>8, <2>2, <3>1, <3>2 DEF Learned, Over, SavesHandle,
       At, Observing
  <2> QED  BY <1>8, <2>1, <2>2 DEF SavesHandle
<1>9. CASE ReadsRow(kind, op)
  <2>0. /\ jobs[k].task # "working" /\ Over(op) /\ Over(op)'
        /\ peer[op] # "idle" /\ jobs[k].task \in {"working", peer'[op]}
    BY <1>0, <1>9 DEF ReadsRow, Learned, Observing, Over, peerVars
  <2>1. CASE Resume(kind, op)
    BY <1>4, <1>9, <2>1 DEF ReadsRow, Resume, At, Observing
  <2>2. CASE Move(kind, op, "storing")
    BY <1>1, <1>2, <1>3, <1>9, <2>0, <2>2 DEF ReadsRow, Learned, At, Observing, Later
  <2>3. CASE Move(kind, op, "failing")
    BY <1>1, <1>2, <1>3, <1>9, <2>0, <2>3 DEF ReadsRow, Learned, At, Observing
  <2>4. CASE Move(kind, op, "done") \/ Move(kind, op, "unknown")
    BY <1>4, <1>9, <2>4 DEF ReadsRow, At, Observing
  <2> QED  BY <1>9, <2>1, <2>2, <2>3, <2>4 DEF ReadsRow
<1>10. CASE StoresOutcome(kind, op)
  BY <1>4, <1>10 DEF StoresOutcome, Resume, At, Observing
<1>11. CASE GivesUp(kind, op)
  BY <1>4, <1>11 DEF GivesUp, At, Observing
<1>12. CASE PeerAnswers(kind, op, task)
  <2>1. jobs'[k] = [at |-> "waiting", task |-> task]
    BY <1>12 DEF PeerAnswers, Typed, TypeOK, Key
  <2> QED  BY <1>1, <1>2, <1>12, <2>1 DEF PeerAnswers, Learned, Observing, peerVars
<1> QED  BY <1>5, <1>6, <1>7, <1>8, <1>9, <1>10, <1>11, <1>12 DEF JobSteps

(* A job's step leaves the other jobs alone.                               *)
LEMMA OthersAlone ==
    ASSUME Typed, NEW kind \in Kind, NEW op \in Op, NEW task \in PeerState,
           JobSteps(kind, op) \/ PeerAnswers(kind, op, task)
    PROVE  \A k \in Key : k # <<kind, op>> => jobs'[k] = jobs[k]
<1>1. ASSUME NEW at \in At, Move(kind, op, at)
      PROVE  \A k \in Key : k # <<kind, op>> => jobs'[k] = jobs[k]
  BY <1>1, Moves DEF Typed
<1>2. CASE PeerAnswers(kind, op, task)
  BY <1>2 DEF PeerAnswers, Typed, TypeOK
<1> QED
  BY <1>1, <1>2 DEF JobSteps, JobStarts, PeerFails, TakesLock, SavesHandle, ReadsRow,
     StoresOutcome, GivesUp, Resume, At

(* Every job knows only what is so.                                        *)
LEMMA LearnedStep ==
    ASSUME Typed, HonestInv, Next
    PROVE  \A kind \in Kind, op \in Op : Learned(kind, op)'
<1> SUFFICES ASSUME NEW kind \in Kind, NEW op \in Op  PROVE Learned(kind, op)'
  OBVIOUS
<1> DEFINE k == <<kind, op>>
<1>0. Later(op) /\ Learned(kind, op) /\ k \in Key
  BY Laters DEF HonestInv, Key
<1>1. CASE jobs'[k] = jobs[k]
  BY <1>0, <1>1, StillLearned
<1>2. ASSUME NEW kd \in Kind, NEW q \in Op, NEW task \in PeerState,
             JobSteps(kd, q) \/ PeerAnswers(kd, q, task)
      PROVE  Learned(kind, op)'
  <2>1. CASE k = <<kd, q>>
    BY <1>0, <1>2, <2>1, StepLearned
  <2>2. CASE k # <<kd, q>>
    BY <1>0, <1>1, <1>2, <2>2, OthersAlone
  <2> QED  BY <2>1, <2>2
<1>3. ASSUME NEW q \in Op, StreamTimesOut(q)  PROVE Learned(kind, op)'
  <2>1. /\ jobs'[<<"stream", q>>].at = "unknown"
        /\ \A key \in Key : key # <<"stream", q>> => jobs'[key] = jobs[key]
    BY <1>3, Moves DEF StreamTimesOut, Typed, At, Kind
  <2>2. CASE k = <<"stream", q>>
    BY <1>0, <1>3, <2>1, <2>2 DEF StreamTimesOut, Learned, Later, Observing
  <2> QED  BY <1>0, <1>1, <2>1, <2>2
<1>4. ASSUME jobs'[k].at \in {"none", "created", "done", "raised"},
             jobs'[k].at # "none" /\ kind # "stream" => life[op].handle # NoHandle
      PROVE  Learned(kind, op)'
  BY <1>0, <1>4 DEF Learned, Later, Observing
<1>5. CASE LoopSteps
  <2>0. Idle.at = "none" /\ Created.at = "created"
    BY DEF Idle, Created
  <2>1. CASE Reaps
    BY <1>0, <1>1, <1>4, <2>0, <2>1 DEF Reaps
  <2>2. CASE CancelsDone \/ ClaimsDone
    BY <1>1, <2>2 DEF CancelsDone, ClaimsDone
  <2>3. ASSUME NEW q \in Op, StartsCancel(q)  PROVE Learned(kind, op)'
    <3>1. jobs'[k] = IF k = <<"cancel", q>> THEN Created ELSE jobs[k]
      BY <1>0, <2>3 DEF StartsCancel, Typed, TypeOK
    <3> QED  BY <1>1, <1>4, <2>0, <2>3, <3>1 DEF StartsCancel, LifeClaimCancel, CancelDue
  <2>4. ASSUME NEW set \in SUBSET Op, StartsReads(set)  PROVE Learned(kind, op)'
    <3>1. jobs'[k] = IF kind = "read" /\ op \in set THEN Created ELSE jobs[k]
      BY <1>0, <2>4 DEF StartsReads
    <3> QED  BY <1>1, <1>4, <2>0, <2>4, <3>1 DEF StartsReads, Reconcilable
  <2>5. ASSUME NEW q \in Op, StartsStream(q)  PROVE Learned(kind, op)'
    <3>1. jobs'[k] = IF k = <<"stream", q>> THEN Created ELSE jobs[k]
      BY <1>0, <2>5 DEF StartsStream, Typed, TypeOK
    <3> QED  BY <1>1, <1>4, <2>0, <2>5, <3>1
  <2> QED  BY <1>5, <2>1, <2>2, <2>3, <2>4, <2>5 DEF LoopSteps
<1>13. ASSUME NEW kd \in Kind, NEW q \in Op, JobRaises(kd, q)  PROVE Learned(kind, op)'
  <2>1. /\ jobs'[<<kd, q>>].at = "raised"
        /\ \A key \in Key : key # <<kd, q>> => jobs'[key] = jobs[key]
    BY <1>13, Moves DEF JobRaises, Typed, At
  <2>2. CASE k = <<kd, q>>
    BY <1>0, <1>4, <1>13, <2>1, <2>2 DEF JobRaises, Learned, Observing
  <2> QED  BY <1>0, <1>1, <2>1, <2>2
<1>6. CASE Stopping
  <2>0. PICK reaped : CancelsJobs(reaped)
    BY <1>6 DEF Stopping, Closes, LoopRaises, ReapRaises
  <2>1. \/ jobs'[k].at = "none"
        \/ jobs'[k].at = "done" /\ jobs[k].at # "none"
        \/ /\ jobs'[k].at = "unknown" /\ kind = "stream"
           /\ jobs[k].at \in {"open", "waiting", "unknown"} \cup Observing
    BY <1>0, <2>0 DEF CancelsJobs, Idle
  <2>2. CASE jobs'[k].at \in {"none", "done"}
    BY <1>0, <1>4, <2>1, <2>2 DEF Learned
  <2>3. CASE jobs'[k].at = "unknown"
    BY <1>0, <2>1, <2>3 DEF Learned, Later, Observing
  <2> QED  BY <2>1, <2>2, <2>3
<1>7. CASE Gone \/ DispatcherEnds
  BY <1>0, <1>4, <1>7 DEF Gone, DispatcherEnds, Idle
<1>8. CASE UNCHANGED jobs
  BY <1>1, <1>8
<1>9. ProcessSteps \/ OperatorStops \/ Crash => Gone \/ DispatcherEnds \/ UNCHANGED jobs
  BY DEF ProcessSteps, Starts, Recovers, MarksUnknown, Stops, OperatorStops, Crash
<1>10. \A c \in strays : Stray(c) => UNCHANGED jobs
  BY DEF Stray
<1>11. \A q \in Op : \A to : Posts(q) \/ PeerReceives(q) \/ PeerEnds(q, to) => UNCHANGED jobs
  BY DEF Posts, PeerReceives, PeerEnds
<1>12. ASSUME NEW kd \in Kind, NEW q \in Op, JobSteps(kd, q)  PROVE Learned(kind, op)'
  BY <1>2, <1>12 DEF PeerState
<1> QED
  BY <1>2, <1>3, <1>5, <1>6, <1>7, <1>8, <1>9, <1>10, <1>11, <1>12, <1>13 DEF Next

-----------------------------------------------------------------------------
(* The call a job waits for is owed.                                       *)
LEMMA NewOwed ==
    ASSUME NEW kind, NEW op, Learned(kind, op), NEW c \in CallsOf(kind, op)
    PROVE  Owed(c) /\ c.op = op
<1> DEFINE j == jobs[<<kind, op>>]
<1>1. CASE j.at = "saving"
  BY <1>1 DEF CallsOf, Call, Learned, Owed, Observing
<1>2. CASE j.at = "storing"
  BY <1>2 DEF CallsOf, Call, Learned, Owed, Observing, Outcome, Over
<1>3. CASE j.at = "failing"
  BY <1>3 DEF CallsOf, Call, Learned, Owed, Over
<1>4. CASE j.at = "unknown"
  BY <1>4 DEF CallsOf, Call, Learned, Owed, Final
<1> QED  BY <1>1, <1>2, <1>3, <1>4 DEF CallsOf

(* What strays may do stays true.                                          *)
LEMMA OwedStep ==
    ASSUME Typed, HonestInv, Next
    PROVE  \A c \in strays' : Owed(c)'
<1>1. \A op \in Op : Later(op)
  BY Laters
<1>2. ASSUME NEW c \in strays  PROVE Owed(c)'
  <2>1. CASE c.name \in {"save_handle", "finish"}
    BY <1>1, <1>2, <2>1, StillOwed DEF Typed, StraysTyped, HonestInv
  <2>2. CASE c.name \notin {"save_handle", "finish"}
    BY <2>2 DEF Owed
  <2> QED  BY <2>1, <2>2
<1>3. ASSUME NEW kind \in Kind, NEW op \in Op, NEW c \in CallsOf(kind, op)  PROVE Owed(c)'
  BY <1>1, NewOwed, StillOwed DEF HonestInv
<1>4. ASSUME NEW op \in Op, StreamTimesOut(op)  PROVE \A c \in strays' : Owed(c)'
  BY <1>2, <1>3, <1>4 DEF StreamTimesOut, Kind
<1>10. ASSUME NEW kind \in Kind, NEW op \in Op, JobRaises(kind, op)
       PROVE  \A c \in strays' : Owed(c)'
  BY <1>2, <1>3, <1>10 DEF JobRaises
<1>5. CASE Stopping
  <2>0. PICK reaped : CancelsJobs(reaped)
    BY <1>5 DEF Stopping, Closes, LoopRaises, ReapRaises
  <2>1. \A c \in LoopCalls : Owed(c)'
    BY DEF LoopCalls, Call, Owed
  <2>2. \A k \in Key : \A c \in CallsOf(k[1], k[2]) : Owed(c)'
    BY <1>3 DEF Key
  <2> QED  BY <1>2, <2>0, <2>1, <2>2 DEF CancelsJobs
<1>6. CASE strays' \subseteq strays
  BY <1>2, <1>6
<1>7. \A kind \in Kind, op \in Op : \A task :
        JobSteps(kind, op) \/ PeerAnswers(kind, op, task) => strays' \subseteq strays
  BY DEF JobSteps, JobStarts, PeerFails, TakesLock, SavesHandle, ReadsRow,
     StoresOutcome, GivesUp, PeerAnswers
<1>8. LoopSteps \/ ProcessSteps \/ OperatorStops \/ Crash \/ (\E c \in strays : Stray(c)) =>
        strays' \subseteq strays
  BY DEF LoopSteps, Reaps, StartsCancel, CancelsDone, StartsReads, StartsStream,
     ClaimsDone, ProcessSteps, Starts, Recovers, MarksUnknown, Stops, DispatcherEnds,
     OperatorStops, Crash, Gone, Stray
<1>9. \A op \in Op : \A to : Posts(op) \/ PeerReceives(op) \/ PeerEnds(op, to) =>
        strays' \subseteq strays
  BY DEF Posts, PeerReceives, PeerEnds
<1> QED  BY <1>4, <1>5, <1>6, <1>7, <1>8, <1>9, <1>10 DEF Next

(* A process that does not serve stays quiet.                              *)
LEMMA QuietStep ==
    ASSUME Typed, HonestInv, Next
    PROVE  Quiet'
<1>0. Quiet
  BY DEF HonestInv
<1>1. ASSUME NEW kind \in Kind, NEW op \in Op, NEW task,
             JobSteps(kind, op) \/ PeerAnswers(kind, op, task)
      PROVE  Quiet'
  <2>1. jobs[<<kind, op>>].at # "none" /\ phase' = phase
    BY <1>1 DEF JobSteps, JobStarts, PeerFails, TakesLock, SavesHandle, ReadsRow,
       StoresOutcome, GivesUp, PeerAnswers
  <2> QED  BY <1>0, <2>1 DEF Quiet, Key
<1>2. ASSUME NEW op \in Op, StreamTimesOut(op)  PROVE Quiet'
  <2>1. jobs[<<"stream", op>>].at # "none" /\ phase' = phase
    BY <1>2 DEF StreamTimesOut, Observing
  <2> QED  BY <1>0, <2>1 DEF Quiet, Key, Kind
<1>3. CASE LoopSteps
  BY <1>3 DEF LoopSteps, Reaps, StartsCancel, CancelsDone, StartsReads, StartsStream,
     ClaimsDone, LoopAt, Quiet
<1>7. ASSUME NEW kind \in Kind, NEW op \in Op, JobRaises(kind, op)  PROVE Quiet'
  <2>1. jobs[<<kind, op>>].at # "none" /\ phase' = phase
    BY <1>7 DEF JobRaises, Observing
  <2> QED  BY <1>0, <2>1 DEF Quiet, Key
<1>4. CASE ProcessSteps \/ Stopping \/ OperatorStops \/ Crash
  BY <1>0, <1>4 DEF ProcessSteps, Starts, Recovers, MarksUnknown, Stops, DispatcherEnds, Stopping,
     Closes, LoopRaises, ReapRaises, OperatorStops, Crash, Gone, Idle, Quiet
<1>5. ASSUME NEW c \in strays, Stray(c)  PROVE Quiet'
  BY <1>0, <1>5 DEF Stray, Quiet
<1>6. ASSUME NEW op \in Op, NEW to, Posts(op) \/ PeerReceives(op) \/ PeerEnds(op, to)  PROVE Quiet'
  BY <1>0, <1>6 DEF Posts, PeerReceives, PeerEnds, Quiet
<1> QED  BY <1>1, <1>2, <1>3, <1>4, <1>5, <1>6, <1>7 DEF Next

-----------------------------------------------------------------------------
(***************************************************************************)
(* The reasons a row may change for, with what each one needs to be known. *)
(***************************************************************************)
RowMoves(op) ==
    \/ life'[op].state = life[op].state /\ life'[op].handle = life[op].handle
    \/ /\ life[op].state \in {"absent", "accepted"}
       /\ life'[op].state \in {"accepted", "running", "failed", "canceled"}
       /\ life'[op].handle = NoHandle
    \/ /\ life'[op].state = "outcome_unknown"
       /\ life'[op].handle = life[op].handle
       /\ jobs[<<"stream", op>>].at # "created"
    \/ /\ life'[op].state = life[op].state
       /\ peer[op] # "idle"
    \/ /\ life'[op].state \in Final
       /\ Over(op) /\ submitted[op] = 1
       /\ life[op].handle # NoHandle /\ life'[op].handle = life[op].handle
       /\ life'[op].state \in {"completed", "canceled"} => peer[op] = life'[op].state

(* save_handle() only names a task that exists.                            *)
LEMMA SaveMoves ==
    ASSUME Typed, NEW q \in Op, NEW op \in Op, DoSaveHandle(q), peer[q] # "idle"
    PROVE  RowMoves(op)
<1>1. CASE UNCHANGED life
  BY <1>1 DEF RowMoves
<1>2. CASE LifeSaveHandle(q, PeerTask[q])
  BY <1>2 DEF LifeSaveHandle, RowMoves, Typed, TypeOK, Life
<1> QED  BY <1>1, <1>2 DEF DoSaveHandle

(* finish() is told what the peer said, or that nothing is known.          *)
LEMMA FinishMoves ==
    ASSUME Typed, HonestInv, NEW q \in Op, NEW op \in Op, NEW to, DoFinish(q, to),
           submitted[q] = 1, to \in Final => Over(q),
           to \in {"completed", "canceled"} => peer[q] = to
    PROVE  RowMoves(op)
<1>1. CASE UNCHANGED life
  BY <1>1 DEF RowMoves
<1>2. CASE LifeFinish(q, to) /\ op # q
  BY <1>2 DEF LifeFinish, RowMoves, Typed, TypeOK, Life
<1>3. CASE LifeFinish(q, to) /\ op = q
  <2>1. life'[q].state = to /\ life'[q].handle = life[q].handle /\ life[q].state \notin Final
    BY <1>3 DEF LifeFinish, Typed, TypeOK, Life, Active, Final
  <2>2. jobs[<<"stream", q>>].at # "created"
    BY DEF HonestInv, Asked
  <2>3. to \in Final \cup {"outcome_unknown"}
    BY <1>3 DEF LifeFinish, Terminal
  <2> QED  BY <1>3, <2>1, <2>2, <2>3 DEF RowMoves, Over
<1> QED  BY <1>1, <1>2, <1>3 DEF DoFinish

(* The transactions of the dispatcher's loop and of the handlers.          *)
LEMMA PlainMoves ==
    ASSUME Typed, HonestInv, NEW q \in Op, NEW op \in Op, NEW lane, NEW to,
           LifeAccept(q, lane) \/ LifeClaim(q, to) \/ LifeCancel(q) \/ LifeClaimCancel(q)
    PROVE  RowMoves(op)
<1>0. life[q].state \in {"absent", "accepted"} => life[q].handle = NoHandle
  <2>1. Asked(q) /\ Known(q)
    BY DEF HonestInv
  <2> QED  BY <2>1 DEF Asked, Known
<1>1. CASE op # q
  <2>1. life'[op] = life[op]
    BY <1>1 DEF LifeAccept, LifeClaim, LifeCancel, LifeClaimCancel, Typed, TypeOK
  <2> QED  BY <2>1 DEF RowMoves
<1>2. CASE op = q /\ LifeAccept(q, lane)
  BY <1>2 DEF LifeAccept, RowMoves, Typed, TypeOK, Unborn
<1>3. CASE op = q /\ LifeClaim(q, to)
  BY <1>0, <1>3 DEF LifeClaim, RowMoves, Typed, TypeOK, Life
<1>4. CASE op = q /\ LifeCancel(q)
  <2>1. CASE life[q].state = "accepted" /\ life' = [life EXCEPT ![q].state = "canceled"]
    BY <1>0, <1>4, <2>1 DEF RowMoves, Typed, TypeOK, Life
  <2>2. CASE life' = [life EXCEPT ![q].cancel_requested = TRUE]
    BY <1>4, <2>2 DEF RowMoves, Typed, TypeOK, Life
  <2> QED  BY <1>4, <2>1, <2>2 DEF LifeCancel
<1>5. CASE op = q /\ LifeClaimCancel(q)
  BY <1>5 DEF LifeClaimCancel, RowMoves, Typed, TypeOK, Life
<1> QED  BY <1>1, <1>2, <1>3, <1>4, <1>5

(* Every step changes a row for one of those reasons.                      *)
LEMMA RowStep ==
    ASSUME Typed, HonestInv, Next, NEW op \in Op
    PROVE  RowMoves(op) /\ (UNCHANGED life \/ UNCHANGED peerVars)
<1>0. CASE UNCHANGED life
  BY <1>0 DEF RowMoves
<1>1. ASSUME NEW kind \in Kind, NEW q \in Op, SavesHandle(kind, q)
      PROVE  RowMoves(op) /\ UNCHANGED peerVars
  <2>1. Learned(kind, q)
    BY DEF HonestInv
  <2> QED  BY <1>1, <2>1, SaveMoves DEF SavesHandle, Learned, Observing
<1>2. ASSUME NEW kind \in Kind, NEW q \in Op, StoresOutcome(kind, q) \/ GivesUp(kind, q)
      PROVE  RowMoves(op) /\ UNCHANGED peerVars
  <2>1. Learned(kind, q)
    BY DEF HonestInv
  <2>2. CASE StoresOutcome(kind, q)
    BY <2>1, <2>2, FinishMoves DEF StoresOutcome, Learned, Observing, Outcome, Over
  <2>3. CASE GivesUp(kind, q)
    BY <2>1, <2>3, FinishMoves DEF GivesUp, Learned, Final
  <2> QED  BY <1>2, <2>2, <2>3
<1>3. ASSUME NEW c \in strays, Stray(c)  PROVE RowMoves(op) /\ UNCHANGED peerVars
  <2>1. Owed(c)
    BY DEF HonestInv
  <2>2. CASE c.name = "save_handle" /\ DoSaveHandle(c.op)
    BY <1>3, <2>1, <2>2, SaveMoves DEF Owed, Typed, StraysTyped, Stray
  <2>3. CASE c.name = "finish" /\ DoFinish(c.op, c.to)
    BY <1>3, <2>1, <2>3, FinishMoves DEF Owed, Typed, StraysTyped, Stray
  <2>4. ASSUME NEW q \in Op, NEW to, LifeClaim(q, to) \/ LifeClaimCancel(q)  PROVE RowMoves(op)
    BY <2>4, PlainMoves
  <2> QED  BY <1>3, <2>2, <2>3, <2>4 DEF Stray
<1>4. ASSUME NEW q \in Op, StartsCancel(q) \/ StartsStream(q) \/ Posts(q)
      PROVE  RowMoves(op) /\ UNCHANGED peerVars
  BY <1>4, PlainMoves DEF StartsCancel, StartsStream, Posts
<1>5. CASE ClaimsDone
  <2>1. ASSUME NEW q \in Op, LifeClaim(q, "failed")  PROVE RowMoves(op)
    BY <2>1, PlainMoves
  <2> QED  BY <1>0, <1>5, <2>1 DEF ClaimsDone
<1>6. CASE Recovers
  <2>1. jobs[<<"stream", op>>].at = "none"
    BY <1>6 DEF Recovers, HonestInv, Quiet, Key, Kind
  <2> QED  BY <1>6, <2>1 DEF Recovers, LifeRecover, RowMoves, Typed, TypeOK, Life
<1>7. ASSUME NEW q \in Op, MarksUnknown(q)  PROVE RowMoves(op) /\ UNCHANGED peerVars
  <2>1. jobs[<<"stream", q>>].at # "created"
    BY <1>7 DEF MarksUnknown, Gathered, Key, Kind
  <2>2. CASE op = q
    BY <1>7, <2>1, <2>2 DEF MarksUnknown, LifeFinish, RowMoves, Typed, TypeOK, Life
  <2>3. CASE op # q
    BY <1>7, <2>3 DEF MarksUnknown, LifeFinish, RowMoves, Typed, TypeOK, Life
  <2> QED  BY <1>7, <2>2, <2>3 DEF MarksUnknown
<1>8. ASSUME NEW kind \in Kind, NEW q \in Op, NEW task,
             JobSteps(kind, q) \/ PeerAnswers(kind, q, task)
      PROVE  UNCHANGED life \/ SavesHandle(kind, q) \/ StoresOutcome(kind, q) \/ GivesUp(kind, q)
  BY <1>8 DEF JobSteps, JobStarts, PeerFails, TakesLock, ReadsRow, PeerAnswers
<1>9. LoopSteps => UNCHANGED life \/ ClaimsDone \/ \E q \in Op : StartsCancel(q) \/ StartsStream(q)
  BY DEF LoopSteps, Reaps, CancelsDone, StartsReads
<1>10. ProcessSteps \/ Stopping \/ OperatorStops \/ Crash =>
         UNCHANGED life \/ Recovers \/ \E q \in Op : MarksUnknown(q)
  BY DEF ProcessSteps, Starts, Stops, DispatcherEnds, Stopping, Closes, LoopRaises, ReapRaises,
     CancelsJobs, OperatorStops, Crash, Gone
<1>11. \A q \in Op : \A kind, to :
         StreamTimesOut(q) \/ JobRaises(kind, q) \/ PeerReceives(q) \/ PeerEnds(q, to) =>
           UNCHANGED life
  BY DEF StreamTimesOut, JobRaises, PeerReceives, PeerEnds
<1> QED
  BY <1>0, <1>1, <1>2, <1>3, <1>4, <1>5, <1>6, <1>7, <1>8, <1>9, <1>10, <1>11 DEF Next

(* Jobs are created only by the claims that precede them.                  *)
LEMMA Creations ==
    ASSUME Typed, Next, NEW op \in Op, NEW kind \in {"stream", "cancel"}
    PROVE  LET k == <<kind, op>>
           IN  \/ jobs'[k].at = jobs[k].at
               \/ jobs[k].at # "none" /\ jobs'[k].at # "created"
               \/ kind = "stream" /\ StartsStream(op)
               \/ kind = "cancel" /\ StartsCancel(op)
<1> DEFINE k == <<kind, op>>
<1>0. kind \in Kind /\ k \in Key
  BY DEF Kind, Key
<1>1. ASSUME NEW kd \in Kind, NEW q \in Op, NEW task \in PeerState,
             JobSteps(kd, q) \/ PeerAnswers(kd, q, task)
      PROVE  jobs'[k].at = jobs[k].at \/ (jobs[k].at # "none" /\ jobs'[k].at # "created")
  <2>1. CASE k # <<kd, q>>
    BY <1>0, <1>1, <2>1, OthersAlone
  <2>2. ASSUME NEW at \in At, Move(kd, q, at), k = <<kd, q>>  PROVE jobs'[k].at = at
    BY <2>2, Moves DEF Typed
  <2>3. CASE PeerAnswers(kd, q, task) /\ k = <<kd, q>>
    BY <1>0, <2>3 DEF PeerAnswers, Typed, TypeOK
  <2>4. CASE JobSteps(kd, q) /\ k = <<kd, q>>
    BY <2>2, <2>4 DEF JobSteps, JobStarts, PeerFails, TakesLock, SavesHandle, ReadsRow,
       StoresOutcome, GivesUp, Resume, At
  <2> QED  BY <1>1, <2>1, <2>3, <2>4
<1>2. ASSUME NEW kd \in Kind, NEW q \in Op, JobSteps(kd, q)
      PROVE  jobs'[k].at = jobs[k].at \/ (jobs[k].at # "none" /\ jobs'[k].at # "created")
  BY <1>1, <1>2 DEF PeerState
<1>3. ASSUME NEW q \in Op, StreamTimesOut(q)
      PROVE  jobs'[k].at = jobs[k].at \/ (jobs[k].at # "none" /\ jobs'[k].at # "created")
  BY <1>0, <1>3, Moves DEF StreamTimesOut, Typed, Kind, At, Observing
<1>4. ASSUME NEW q \in Op, StartsStream(q)
      PROVE  jobs'[k] = jobs[k] \/ (kind = "stream" /\ q = op)
  BY <1>0, <1>4 DEF StartsStream, Typed, TypeOK
<1>5. ASSUME NEW q \in Op, StartsCancel(q)
      PROVE  jobs'[k] = jobs[k] \/ (kind = "cancel" /\ q = op)
  BY <1>0, <1>5 DEF StartsCancel, Typed, TypeOK
<1>11. ASSUME NEW kd \in Kind, NEW q \in Op, JobRaises(kd, q)
       PROVE  jobs'[k].at = jobs[k].at \/ (jobs[k].at # "none" /\ jobs'[k].at # "created")
  BY <1>0, <1>11, Moves DEF JobRaises, Typed, At, Observing
<1>6. \A reaped : Reaps \/ CancelsJobs(reaped) \/ Gone \/ DispatcherEnds =>
        \/ jobs'[k].at = "none"
        \/ jobs[k].at # "none" /\ jobs'[k].at # "created"
        \/ jobs'[k] = jobs[k]
  BY <1>0 DEF Reaps, CancelsJobs, Gone, DispatcherEnds, Idle
<1>7. \A set \in SUBSET Op : StartsReads(set) => jobs'[k] = jobs[k]
  BY <1>0 DEF StartsReads
<1>8. CancelsDone \/ ClaimsDone \/ Starts \/ Recovers => UNCHANGED jobs
  BY DEF CancelsDone, ClaimsDone, Starts, Recovers
<1>9. \A q \in Op : \A to : MarksUnknown(q) \/ Posts(q) \/ PeerReceives(q) \/ PeerEnds(q, to) =>
        UNCHANGED jobs
  BY DEF MarksUnknown, Posts, PeerReceives, PeerEnds
<1>10. \A c \in strays : Stray(c) => UNCHANGED jobs
  BY DEF Stray
<1> QED
  BY <1>1, <1>2, <1>3, <1>4, <1>5, <1>6, <1>7, <1>8, <1>9, <1>10, <1>11 DEF Next, LoopSteps,
     ProcessSteps, Stops, Stopping, Closes, LoopRaises, ReapRaises, OperatorStops, Crash

-----------------------------------------------------------------------------
(* No operation is sent before it is claimed, or sent again.               *)
LEMMA AskedStep ==
    ASSUME Typed, HonestInv, Next, NEW op \in Op
    PROVE  Asked(op)'
<1> DEFINE k == <<"stream", op>>
<1>0. Asked(op) /\ RowMoves(op)
  BY RowStep DEF HonestInv
<1>1. ASSUME JobStarts("stream", op)
      PROVE  /\ jobs'[k].at = "open" /\ life' = life
             /\ life[op].state = "running" /\ submitted'[op] = 1
  <2>1. jobs'[k].at = "open" /\ life' = life
    BY <1>1, Moves DEF JobStarts, Typed, At, Kind
  <2>2. life[op].state = "running" /\ submitted'[op] = 1
    BY <1>0, <1>1 DEF JobStarts, Asked, Typed, TypeOK
  <2> QED  BY <2>1, <2>2
<1>2. CASE submitted'[op] # submitted[op]
  BY <1>1, <1>2, AskedBy DEF Asked
<1>3. CASE submitted'[op] = submitted[op] /\ StartsStream(op)
  <2>1. life'[op].state = "running" /\ life[op].state = "accepted"
    BY <1>3 DEF StartsStream, LifeClaim, Typed, TypeOK, Life
  <2>2. jobs'[k].at = "created"
    BY <1>3 DEF StartsStream, Created, Typed, TypeOK, Key, Kind
  <2> QED  BY <1>0, <1>3, <2>1, <2>2 DEF Asked
<1>4. CASE submitted'[op] = submitted[op] /\ ~StartsStream(op)
  <2>1. jobs'[k].at = jobs[k].at \/ (jobs[k].at # "none" /\ jobs'[k].at # "created")
    BY <1>4, Creations
  <2>2. life'[op].state \in {"absent", "accepted"} => life[op].state \in {"absent", "accepted"}
    BY <1>0 DEF RowMoves, Final
  <2>3. jobs[k].at = "created" => life'[op].state = "running" \/ jobs'[k].at # "created"
    BY <1>0 DEF RowMoves, Asked
  <2> QED  BY <1>0, <1>4, <2>1, <2>2, <2>3 DEF Asked
<1> QED  BY <1>2, <1>3, <1>4

(* A cancellation is claimed only after dispatch, and the claim is kept.   *)
LEMMA ClaimedRows ==
    ASSUME Typed, [LifecycleNext]_life, NEW op \in Op,
           life'[op].state \in {"absent", "accepted"}, life'[op].cancel_claimed
    PROVE  life[op].cancel_claimed /\ life[op].state \in {"absent", "accepted"}
<1> USE DEF Typed, TypeOK
<1> DEFINE Was == life[op].cancel_claimed /\ life[op].state \in {"absent", "accepted"}
<1>1. ASSUME NEW q \in Op, NEW lane \in Lane, LifeAccept(q, lane)  PROVE Was
  BY <1>1 DEF LifeAccept, Unborn, Life
<1>2. ASSUME NEW q \in Op, NEW to \in {"running", "failed"}, LifeClaim(q, to)  PROVE Was
  BY <1>2 DEF LifeClaim, Life
<1>3. ASSUME NEW q \in Op, NEW to \in Terminal, LifeFinish(q, to)  PROVE Was
  BY <1>3 DEF LifeFinish, Life, Final, Active, Terminal
<1>4. ASSUME NEW q \in Op, NEW handle \in Handle, LifeSaveHandle(q, handle)  PROVE Was
  BY <1>4 DEF LifeSaveHandle, Life
<1>5. ASSUME NEW q \in Op, LifeCancel(q)  PROVE Was
  <2>1. CASE life' = [life EXCEPT ![q].state = "canceled"]
    BY <2>1 DEF Life
  <2>2. CASE life' = [life EXCEPT ![q].cancel_requested = TRUE]
    BY <2>2 DEF Life
  <2> QED  BY <1>5, <2>1, <2>2 DEF LifeCancel
<1>6. ASSUME NEW q \in Op, LifeClaimCancel(q)  PROVE Was
  BY <1>6 DEF LifeClaimCancel, CancelDue, Active, Life
<1>7. CASE LifeRecover
  BY <1>7 DEF LifeRecover, Life
<1>8. CASE UNCHANGED life
  BY <1>8
<1> QED
  BY <1>1, <1>2, <1>3, <1>4, <1>5, <1>6, <1>7, <1>8, Zenon DEF LifecycleNext

(* No cancellation is sent before it is claimed, or sent again.            *)
LEMMA CancelAskedStep ==
    ASSUME Typed, HonestInv, Next, NEW op \in Op
    PROVE  CancelAsked(op)'
<1> DEFINE k == <<"cancel", op>>
<1>0. CancelAsked(op) /\ life[op].cancel_claimed \in BOOLEAN /\ life'[op].cancel_claimed \in BOOLEAN
  BY TypedStep DEF HonestInv, Typed, TypeOK, Life
<1>1. life'[op].state \in {"absent", "accepted"} => ~life'[op].cancel_claimed
  BY <1>0, Within, ClaimedRows DEF CancelAsked
<1>2. ~life'[op].cancel_claimed => ~life[op].cancel_claimed
  BY <1>0, Within, RowsLater DEF CancelAsked, Typed, TypeOK
<1>3. ASSUME JobStarts("cancel", op)
      PROVE  /\ jobs'[k].at = "open" /\ life' = life
             /\ life[op].cancel_claimed /\ cancels'[op] = 1
  <2>1. jobs'[k].at = "open" /\ life' = life
    BY <1>3, Moves DEF JobStarts, Typed, At, Kind
  <2>2. life[op].cancel_claimed
    BY <1>0, <1>3 DEF JobStarts, CancelAsked
  <2>3. cancels'[op] = 1
    BY <1>0, <1>3 DEF JobStarts, CancelAsked, Typed, TypeOK
  <2> QED  BY <2>1, <2>2, <2>3
<1>4. CASE cancels'[op] # cancels[op]
  BY <1>0, <1>1, <1>3, <1>4, AskedBy DEF CancelAsked
<1>5. CASE cancels'[op] = cancels[op] /\ StartsCancel(op)
  <2>1. ~life[op].cancel_claimed /\ life'[op].cancel_claimed
    BY <1>5 DEF StartsCancel, LifeClaimCancel, CancelDue, Typed, TypeOK, Life
  <2> QED  BY <1>0, <1>1, <1>5, <2>1 DEF CancelAsked
<1>6. CASE cancels'[op] = cancels[op] /\ ~StartsCancel(op)
  <2>1. jobs'[k].at = jobs[k].at \/ (jobs[k].at # "none" /\ jobs'[k].at # "created")
    BY <1>6, Creations
  <2> QED  BY <1>0, <1>1, <1>2, <1>6, <2>1 DEF CancelAsked
<1> QED  BY <1>4, <1>5, <1>6

(* No step makes up an outcome or a handle.                                *)
LEMMA HonestStep ==
    ASSUME Typed, HonestInv, Next, NEW op \in Op
    PROVE  Known(op)' /\ Honest(op)'
<1>0. Asked(op) /\ Known(op) /\ Honest(op) /\ RowMoves(op) /\ Later(op)
  BY RowStep, Laters DEF HonestInv
<1>1. UNCHANGED life \/ UNCHANGED peerVars
  BY RowStep
<1>2. CASE UNCHANGED peerVars
  <2>1. UNCHANGED <<submitted, peer>>
    BY <1>2 DEF peerVars
  <2>2. Known(op)'
    BY <1>0, <2>1 DEF RowMoves, Known
  <2>3. Honest(op)'
    BY <1>0, <2>1 DEF RowMoves, Honest, Asked, Final, Over, Later
  <2> QED  BY <2>2, <2>3
<1>3. CASE UNCHANGED life
  <2>1. \/ peer'[op] = peer[op]
        \/ peer[op] = "idle" /\ peer'[op] # "idle" /\ submitted[op] > 0
        \/ peer[op] = "working" /\ peer'[op] # "idle"
    BY AskedBy
  <2>2. Known(op)'
    BY <1>0, <1>3, <2>1 DEF Known, Asked, Later
  <2>3. submitted'[op] = submitted[op] \/ life[op].state = "running"
    BY <1>0, AskedBy DEF Asked
  <2>4. Honest(op)'
    BY <1>0, <1>3, <2>1, <2>3 DEF Honest, Asked, Final, Later
  <2> QED  BY <2>2, <2>4
<1> QED  BY <1>1, <1>2, <1>3

(* The invariant is inductive.                                             *)
LEMMA HonestInductive ==
    ASSUME Typed, HonestInv, [Next]_vars
    PROVE  HonestInv'
<1>1. CASE Next
  BY <1>1, QuietStep, AskedStep, CancelAskedStep, HonestStep, LearnedStep, OwedStep DEF
     HonestInv
<1>2. CASE UNCHANGED vars
  BY <1>2 DEF vars, peerVars, HonestInv, Quiet, Asked, CancelAsked, Known, Honest,
     Learned, Owed, Over
<1> QED  BY <1>1, <1>2

-----------------------------------------------------------------------------
(* A job that moves leaves the lock to its holder, if it kept in step with *)
(* it.                                                                     *)
LEMMA MoveExcludes ==
    ASSUME Typed, ObservationsExclusive, NEW kind \in Kind, NEW op \in Op, NEW at \in At,
           Move(kind, op, at),
           lock' = IF at \in Observing THEN <<kind, op>>
                   ELSE IF lock = <<kind, op>> THEN NoKey ELSE lock,
           at \in Observing => lock \in {NoKey, <<kind, op>>}
    PROVE  ObservationsExclusive'
<1>1. <<kind, op>> \in Key /\ NoKey \notin Key
  BY DEF Key, NoKey, Kind
<1>2. /\ jobs'[<<kind, op>>].at = at
      /\ \A k \in Key : k # <<kind, op>> => jobs'[k] = jobs[k]
  BY Moves DEF Typed
<1> QED  BY <1>1, <1>2 DEF ObservationsExclusive

(* Observations stay exclusive.                                            *)
LEMMA ExclusiveStep ==
    ASSUME Typed, HonestInv, ObservationsExclusive, [Next]_vars
    PROVE  ObservationsExclusive'
<1>0. NoKey \notin Key
  BY DEF Key, NoKey, Kind
<1>a. \A kind \in Kind, op \in Op : <<kind, op>> \in Key
  BY DEF Key
<1>1. ASSUME NEW kind \in Kind, NEW op \in Op, JobSteps(kind, op)
      PROVE  ObservationsExclusive'
  <2>0. jobs[<<kind, op>>].at \in Observing <=> lock = <<kind, op>>
    BY <1>a DEF ObservationsExclusive
  <2>1. CASE JobStarts(kind, op) \/ PeerFails(kind, op) \/ GivesUp(kind, op)
    BY <2>0, <2>1, MoveExcludes DEF JobStarts, PeerFails, GivesUp, Observing, At
  <2>2. CASE TakesLock(kind, op)
    BY <2>0, <2>2, MoveExcludes DEF TakesLock, Observing, At
  <2>3. ASSUME Resume(kind, op), lock = <<kind, op>>  PROVE ObservationsExclusive'
    BY <2>3, MoveExcludes DEF Resume, Observing, At
  <2>4. CASE SavesHandle(kind, op)
    BY <2>0, <2>3, <2>4, MoveExcludes DEF SavesHandle, Observing, At
  <2>5. CASE ReadsRow(kind, op)
    BY <2>0, <2>3, <2>5, MoveExcludes DEF ReadsRow, Observing, At
  <2>6. CASE StoresOutcome(kind, op)
    BY <2>0, <2>3, <2>6 DEF StoresOutcome, Observing
  <2> QED  BY <1>1, <2>1, <2>2, <2>4, <2>5, <2>6 DEF JobSteps
<1>2. ASSUME NEW kind \in Kind, NEW op \in Op, NEW task, PeerAnswers(kind, op, task)
      PROVE  ObservationsExclusive'
  BY <1>a, <1>2 DEF PeerAnswers, ObservationsExclusive, Observing, Typed, TypeOK
<1>3. ASSUME NEW op \in Op, StreamTimesOut(op)  PROVE ObservationsExclusive'
  BY <1>3, MoveExcludes DEF StreamTimesOut, Observing, At, Kind
<1>4. CASE LoopSteps
  <2>0. Idle.at \notin Observing /\ Created.at \notin Observing
    BY DEF Idle, Created, Observing
  <2>1. CASE Reaps
    BY <2>0, <2>1 DEF Reaps, ObservationsExclusive, Observing
  <2>2. CASE CancelsDone \/ ClaimsDone
    BY <2>2 DEF CancelsDone, ClaimsDone, ObservationsExclusive
  <2>3. ASSUME NEW op \in Op, StartsCancel(op)  PROVE ObservationsExclusive'
    <3>1. jobs[<<"cancel", op>>].at = "none"
      <4>1. CancelAsked(op) /\ life[op].cancel_claimed \in BOOLEAN
        BY DEF HonestInv, Typed, TypeOK, Life
      <4> QED  BY <2>3, <4>1 DEF StartsCancel, LifeClaimCancel, CancelDue, CancelAsked
    <3>2. \A k \in Key : jobs'[k] = IF k = <<"cancel", op>> THEN Created ELSE jobs[k]
      BY <2>3 DEF StartsCancel, Typed, TypeOK
    <3> QED  BY <2>0, <2>3, <3>1, <3>2 DEF StartsCancel, ObservationsExclusive, Observing
  <2>4. ASSUME NEW set \in SUBSET Op, StartsReads(set)  PROVE ObservationsExclusive'
    <3>1. \A k \in Key : k[1] = "read" /\ k[2] \in set => jobs[k].at = "none"
      <4>1. \A op \in set : jobs[<<"read", op>>].at = "none"
        BY <2>4 DEF StartsReads, Unattended, Kind
      <4> QED  BY <4>1 DEF Key
    <3> QED  BY <2>0, <2>4, <3>1 DEF StartsReads, ObservationsExclusive, Observing
  <2>5. ASSUME NEW op \in Op, StartsStream(op)  PROVE ObservationsExclusive'
    <3>1. jobs[<<"stream", op>>].at = "none"
      BY <2>5 DEF StartsStream, LifeClaim, HonestInv, Asked
    <3>2. \A k \in Key : jobs'[k] = IF k = <<"stream", op>> THEN Created ELSE jobs[k]
      BY <2>5 DEF StartsStream, Typed, TypeOK
    <3> QED  BY <2>0, <2>5, <3>1, <3>2 DEF StartsStream, ObservationsExclusive, Observing
  <2> QED  BY <1>4, <2>1, <2>2, <2>3, <2>4, <2>5 DEF LoopSteps
<1>11. ASSUME NEW kind \in Kind, NEW op \in Op, JobRaises(kind, op)  PROVE ObservationsExclusive'
  BY <1>11, MoveExcludes DEF JobRaises, Observing, At
<1>5. CASE Stopping
  <2>1. PICK reaped : CancelsJobs(reaped)
    BY <1>5 DEF Stopping, Closes, LoopRaises, ReapRaises
  <2> QED  BY <1>0, <2>1 DEF CancelsJobs, ObservationsExclusive, Idle, Observing
<1>6. CASE Gone
  BY <1>0, <1>6 DEF Gone, ObservationsExclusive, Idle, Observing
<1>12. CASE DispatcherEnds
  <2>1. \A k \in Key : jobs[k].at \notin Observing /\ jobs'[k].at \notin Observing
    BY <1>12 DEF DispatcherEnds, Gathered, Observing, Idle
  <2> QED  BY <1>12, <2>1 DEF DispatcherEnds, ObservationsExclusive
<1>7. CASE UNCHANGED <<jobs, lock>>
  BY <1>7 DEF ObservationsExclusive
<1>8. ProcessSteps => Gone \/ DispatcherEnds \/ UNCHANGED <<jobs, lock>>
  BY DEF ProcessSteps, Starts, Recovers, MarksUnknown, Stops
<1>9. \A c \in strays : Stray(c) => UNCHANGED <<jobs, lock>>
  BY DEF Stray
<1>10. \A op \in Op : \A to : Posts(op) \/ PeerReceives(op) \/ PeerEnds(op, to) =>
        UNCHANGED <<jobs, lock>>
  BY DEF Posts, PeerReceives, PeerEnds
<1> QED
  BY <1>1, <1>2, <1>3, <1>4, <1>5, <1>6, <1>7, <1>8, <1>9, <1>10, <1>11, <1>12
     DEF Next, OperatorStops, Crash, vars

-----------------------------------------------------------------------------
(***************************************************************************)
(* While the dispatcher runs, no claim is a stray: only a loop that was    *)
(* cancelled or has failed leaves one behind.                              *)
(***************************************************************************)
Owned ==
    /\ RunningOwned
    /\ phase = "serving" => \A c \in strays : c.name # "claim"

(* Whoever makes an operation running has created its stream.              *)
LEMMA RunningBy ==
    ASSUME Typed, HonestInv, Owned, Next, phase = "serving", NEW op \in Op,
           life'[op].state = "running"
    PROVE  life[op].state = "running" \/ StartsStream(op)
<1>1. CASE UNCHANGED life
  BY <1>1
<1>2. \A q \in Op : DoSaveHandle(q) => life'[op].state = life[op].state
  BY DEF DoSaveHandle, LifeSaveHandle, Typed, TypeOK, Life
<1>3. \A q \in Op : \A to : DoFinish(q, to) => life'[op].state = life[op].state
  BY DEF DoFinish, LifeFinish, Terminal, Final, Typed, TypeOK, Life
<1>4. \A q \in Op : LifeClaimCancel(q) => life'[op].state = life[op].state
  BY DEF LifeClaimCancel, Typed, TypeOK, Life
<1>5. ASSUME NEW q \in Op, Posts(q)  PROVE life'[op].state = life[op].state
  <2>1. CASE LifeCancel(q)
    <3>1. CASE life' = [life EXCEPT ![q].state = "canceled"]
      BY <3>1 DEF Typed, TypeOK, Life
    <3>2. CASE life' = [life EXCEPT ![q].cancel_requested = TRUE]
      BY <3>2 DEF Typed, TypeOK, Life
    <3> QED  BY <2>1, <3>1, <3>2 DEF LifeCancel
  <2>2. ASSUME NEW lane \in Lane, LifeAccept(q, lane)  PROVE life'[op].state = life[op].state
    BY <2>2 DEF LifeAccept, Typed, TypeOK, Unborn
  <2> QED  BY <1>5, <2>1, <2>2 DEF Posts
<1>6. ASSUME NEW kind \in Kind, NEW q \in Op, NEW task,
             JobSteps(kind, q) \/ PeerAnswers(kind, q, task)
      PROVE  life'[op].state = life[op].state
  BY <1>1, <1>2, <1>3, <1>6 DEF JobSteps, JobStarts, PeerFails, TakesLock, SavesHandle,
     ReadsRow, StoresOutcome, GivesUp, PeerAnswers
<1>7. ASSUME NEW q \in Op, StartsStream(q)  PROVE life'[op].state = life[op].state \/ q = op
  BY <1>7 DEF StartsStream, LifeClaim, Typed, TypeOK
<1>8. ASSUME ClaimsDone  PROVE life'[op].state = life[op].state
  BY <1>8 DEF ClaimsDone, LifeClaim, Typed, TypeOK, Life
<1>9. ASSUME NEW c \in strays, Stray(c)  PROVE life'[op].state = life[op].state
  BY <1>2, <1>3, <1>4, <1>9 DEF Stray, Owned, Typed, StraysTyped
<1>10. LoopSteps => UNCHANGED life \/ ClaimsDone
                    \/ \E q \in Op : StartsStream(q) \/ LifeClaimCancel(q)
  BY DEF LoopSteps, Reaps, CancelsDone, StartsReads, StartsCancel
<1>11. ProcessSteps \/ Stopping \/ OperatorStops \/ Crash => UNCHANGED life
  BY DEF ProcessSteps, Starts, Recovers, MarksUnknown, Stops, DispatcherEnds, Stopping, Closes,
     LoopRaises, ReapRaises, CancelsJobs, OperatorStops, Crash, Gone
<1>12. \A q \in Op : \A kind, to :
         StreamTimesOut(q) \/ JobRaises(kind, q) \/ PeerReceives(q) \/ PeerEnds(q, to) =>
           UNCHANGED life
  BY DEF StreamTimesOut, JobRaises, PeerReceives, PeerEnds
<1> QED
  BY <1>1, <1>4, <1>5, <1>6, <1>7, <1>8, <1>9, <1>10, <1>11, <1>12 DEF Next

(* A stream ends only when its operation is no longer running.             *)
LEMMA StreamEnds ==
    ASSUME Typed, HonestInv, Owned, Next, phase = "serving", phase' = "serving", NEW op \in Op,
           life[op].state = "running", life'[op].state = "running"
    PROVE  jobs'[<<"stream", op>>].at \notin {"none", "done"}
<1> DEFINE k == <<"stream", op>>
<1>0. jobs[k].at \notin {"none", "done"} /\ k \in Key /\ Learned("stream", op)
  BY DEF Owned, RunningOwned, Key, Kind, HonestInv
<1>1. CASE jobs'[k] = jobs[k]
  BY <1>0, <1>1
<1>2. ASSUME NEW kind \in Kind, NEW q \in Op, NEW task \in PeerState,
             JobSteps(kind, q) \/ PeerAnswers(kind, q, task)
      PROVE  jobs'[k].at \notin {"none", "done"}
  <2>1. CASE k # <<kind, q>>
    BY <1>0, <1>1, <1>2, <2>1, OthersAlone
  <2>2. ASSUME NEW at \in At, Move("stream", op, at)  PROVE jobs'[k].at = at
    BY <2>2, Moves DEF Typed, Kind
  <2>3. CASE PeerAnswers("stream", op, task)
    BY <1>0, <2>3 DEF PeerAnswers, Typed, TypeOK
  <2>4. CASE JobStarts("stream", op) \/ PeerFails("stream", op) \/ TakesLock("stream", op)
    BY <2>2, <2>4 DEF JobStarts, PeerFails, TakesLock, At
  <2>5. CASE SavesHandle("stream", op)
    BY <2>2, <2>5 DEF SavesHandle, Resume, At
  <2>6. CASE ReadsRow("stream", op)
    BY <2>2, <2>6 DEF ReadsRow, At, Final
  <2>7. CASE StoresOutcome("stream", op) \/ GivesUp("stream", op)
    BY <2>7 DEF StoresOutcome, GivesUp, DoFinish, LifeFinish, Terminal, Final, Typed,
       TypeOK, Life
  <2> QED  BY <1>2, <2>1, <2>3, <2>4, <2>5, <2>6, <2>7 DEF JobSteps
<1>3. ASSUME NEW kind \in Kind, NEW q \in Op, JobSteps(kind, q)
      PROVE  jobs'[k].at \notin {"none", "done"}
  BY <1>2, <1>3 DEF PeerState
<1>4. ASSUME NEW q \in Op, StreamTimesOut(q)  PROVE jobs'[k].at \notin {"none", "done"}
  BY <1>0, <1>4, Moves DEF StreamTimesOut, Typed, Kind, At
<1>5. CASE Reaps
  BY <1>0, <1>1, <1>5 DEF Reaps
<1>6. ASSUME NEW q \in Op, StartsCancel(q) \/ StartsStream(q)
      PROVE  jobs'[k].at \notin {"none", "done"}
  BY <1>0, <1>6 DEF StartsCancel, StartsStream, Created, Typed, TypeOK
<1>7. ASSUME NEW set \in SUBSET Op, StartsReads(set)  PROVE jobs'[k].at \notin {"none", "done"}
  BY <1>0, <1>7 DEF StartsReads
<1>8. CancelsDone \/ ClaimsDone => UNCHANGED jobs
  BY DEF CancelsDone, ClaimsDone
<1>9. ~ProcessSteps /\ ~Stopping /\ ~OperatorStops /\ ~Crash
  BY DEF ProcessSteps, Starts, Recovers, MarksUnknown, Stops, DispatcherEnds, Stopping, Closes,
     LoopRaises, ReapRaises, OperatorStops, Crash, Gone
<1>12. ASSUME NEW kind \in Kind, NEW q \in Op, JobRaises(kind, q)
       PROVE  jobs'[k].at \notin {"none", "done"}
  BY <1>0, <1>12, Moves DEF JobRaises, Typed, At
<1>10. \A q \in Op : \A to : Posts(q) \/ PeerReceives(q) \/ PeerEnds(q, to) => UNCHANGED jobs
  BY DEF Posts, PeerReceives, PeerEnds
<1>11. \A c \in strays : Stray(c) => UNCHANGED jobs
  BY DEF Stray
<1> QED
  BY <1>1, <1>2, <1>3, <1>4, <1>5, <1>6, <1>7, <1>8, <1>9, <1>10, <1>11, <1>12
     DEF Next, LoopSteps

(* A process comes to serve only through recover(), and while it serves    *)
(* only a job that times out or fails leaves a stray.                      *)
LEMMA ServesBy ==
    ASSUME Next, phase' = "serving"
    PROVE  /\ Recovers \/ phase = "serving"
           /\ \/ strays' \subseteq strays
              \/ \E op \in Op : StreamTimesOut(op) \/ \E kind \in Kind : JobRaises(kind, op)
<1> DEFINE Same == phase' = phase /\ strays' \subseteq strays
<1>1. \A kind \in Kind, op \in Op : \A task :
        JobSteps(kind, op) \/ PeerAnswers(kind, op, task) => Same
  BY DEF JobSteps, JobStarts, PeerFails, TakesLock, SavesHandle, ReadsRow,
     StoresOutcome, GivesUp, PeerAnswers
<1>2. LoopSteps => Same
  BY DEF LoopSteps, Reaps, StartsCancel, CancelsDone, StartsReads, StartsStream, ClaimsDone
<1>3. ~Stopping /\ ~OperatorStops /\ ~Crash
  BY DEF Stopping, Closes, LoopRaises, ReapRaises, OperatorStops, Crash, Gone
<1>4. ProcessSteps => Same \/ (Recovers /\ strays' \subseteq strays)
  BY DEF ProcessSteps, Starts, Recovers, MarksUnknown, Stops, DispatcherEnds, Gone
<1>5. \A c \in strays : Stray(c) => Same
  BY DEF Stray
<1>6. \A op \in Op : \A to : Posts(op) \/ PeerReceives(op) \/ PeerEnds(op, to) => Same
  BY DEF Posts, PeerReceives, PeerEnds
<1>7. \A op \in Op : \A kind : StreamTimesOut(op) \/ JobRaises(kind, op) => phase' = phase
  BY DEF StreamTimesOut, JobRaises
<1> QED  BY <1>1, <1>2, <1>3, <1>4, <1>5, <1>6, <1>7 DEF Next

(* No running operation is left without its stream.                        *)
LEMMA OwnedStep ==
    ASSUME Typed, HonestInv, Owned, [Next]_vars
    PROVE  Owned'
<1>1. CASE UNCHANGED vars
  BY <1>1 DEF vars, Owned, RunningOwned
<1>2. CASE phase' # "serving"
  BY <1>2 DEF Owned, RunningOwned
<1>3. CASE Recovers
  BY <1>3 DEF Recovers, LifeRecover, Owned, RunningOwned, HonestInv, Quiet, Typed,
     TypeOK, Life
<1>4. CASE Next /\ phase = "serving" /\ phase' = "serving"
  <2>1. ASSUME NEW op \in Op, StartsStream(op)  PROVE jobs'[<<"stream", op>>].at = "created"
    BY <2>1 DEF StartsStream, Created, Typed, TypeOK, Key, Kind
  <2>2. RunningOwned'
    BY <1>4, <2>1, RunningBy, StreamEnds DEF RunningOwned
  <2>3. \A kind \in Kind, op \in Op : \A c \in CallsOf(kind, op) : c.name # "claim"
    BY DEF CallsOf, Call
  <2>4. ASSUME NEW op \in Op, NEW kind \in Kind, StreamTimesOut(op) \/ JobRaises(kind, op)
        PROVE \A c \in strays' : c.name # "claim"
    BY <1>4, <2>3, <2>4 DEF StreamTimesOut, JobRaises, Owned, Kind
  <2>5. \/ strays' \subseteq strays
        \/ \E op \in Op : StreamTimesOut(op) \/ \E kind \in Kind : JobRaises(kind, op)
    BY <1>4, ServesBy
  <2>6. \A c \in strays' : c.name # "claim"
    <3>1. CASE strays' \subseteq strays
      BY <1>4, <3>1 DEF Owned
    <3>2. CASE \E op \in Op : StreamTimesOut(op) \/ \E kind \in Kind : JobRaises(kind, op)
      <4>1. "stream" \in Kind
        BY DEF Kind
      <4> QED  BY <3>2, <4>1, <2>4
    <3> QED  BY <2>5, <3>1, <3>2
  <2> QED  BY <2>2, <2>6 DEF Owned
<1> QED  BY <1>1, <1>2, <1>3, <1>4, ServesBy

-----------------------------------------------------------------------------
\* The whole inductive invariant.
DispatcherInv == Typed /\ HonestInv /\ ObservationsExclusive /\ Owned

(* The inductive invariant holds.                                          *)
THEOREM DispatcherCorrect == Spec => []DispatcherInv
<1>1. Init => DispatcherInv
  <2> SUFFICES ASSUME Init  PROVE DispatcherInv
    OBVIOUS
  <2>1. Typed
    BY DispatcherValues DEF Init, LifecycleInit, Typed, TypeOK, StraysTyped, Life,
       Unborn, Idle, At, PeerState
  <2>2. HonestInv
    BY DEF Init, LifecycleInit, Unborn, Idle, HonestInv, Quiet, Asked, CancelAsked,
       Known, Honest, Learned, Owed, Key, Kind, Final, Observing
  <2>3. ObservationsExclusive /\ Owned
    BY DEF Init, Idle, ObservationsExclusive, Owned, RunningOwned, Key, Kind, NoKey,
       Observing
  <2> QED  BY <2>1, <2>2, <2>3 DEF DispatcherInv
<1>2. DispatcherInv /\ [Next]_vars => DispatcherInv'
  BY TypedStep, HonestInductive, ExclusiveStep, OwnedStep DEF DispatcherInv
<1> QED  BY <1>1, <1>2, PTL DEF Spec

(* The process, its jobs, the rows and the peer's tasks have the types     *)
(* TypeOK gives them.                                                      *)
THEOREM DispatcherTyped == Spec => []TypeOK
<1>1. DispatcherInv => TypeOK
  BY DEF DispatcherInv, Typed
<1> QED  BY <1>1, DispatcherCorrect, PTL

(* The peer is sent each operation at most once, whatever times out,       *)
(* stops, crashes or commits late (claim, _submit, recover).               *)
THEOREM NothingIsSentTwice == Spec => []SubmittedOnce
<1>1. ASSUME DispatcherInv, NEW op \in Op  PROVE submitted[op] <= 1
  <2>1. Asked(op)
    BY <1>1 DEF DispatcherInv, HonestInv
  <2> QED  BY <2>1 DEF Asked
<1>2. DispatcherInv => SubmittedOnce
  BY <1>1 DEF SubmittedOnce
<1> QED  BY <1>2, DispatcherCorrect, PTL

(* The peer is sent each cancellation at most once (claim_cancel, _cancel). *)
THEOREM NoCancelIsSentTwice == Spec => []CancelSentOnce
<1>1. ASSUME DispatcherInv, NEW op \in Op  PROVE cancels[op] <= 1
  <2>1. CancelAsked(op)
    BY <1>1 DEF DispatcherInv, HonestInv
  <2> QED  BY <2>1 DEF CancelAsked
<1>2. DispatcherInv => CancelSentOnce
  BY <1>1 DEF CancelSentOnce
<1> QED  BY <1>2, DispatcherCorrect, PTL

(* No outcome and no handle is made up by a timeout, a stop or a call that *)
(* commits late (_observe, _unknown).                                      *)
THEOREM OutcomesAreHonest == Spec => []OutcomeHonest
<1>1. DispatcherInv => OutcomeHonest
  BY DEF DispatcherInv, HonestInv, Honest, Known, OutcomeHonest
<1> QED  BY <1>1, DispatcherCorrect, PTL

(* While the dispatcher runs, every running operation has a stream that    *)
(* resolves it, or one whose database error the next reap raises (_submit, *)
(* step, recover).                                                         *)
THEOREM RunningIsOwned == Spec => []RunningOwned
<1>1. DispatcherInv => RunningOwned
  BY DEF DispatcherInv, Owned
<1> QED  BY <1>1, DispatcherCorrect, PTL

(* One observation at a time, and the lock is never left behind.           *)
THEOREM ObservationsExclude == Spec => []ObservationsExclusive
<1>1. DispatcherInv => ObservationsExclusive
  BY DEF DispatcherInv
<1> QED  BY <1>1, DispatcherCorrect, PTL

(* The dispatcher's calls are transactions of the lifecycle, which the     *)
(* model is built from; what the lifecycle implies therefore holds here.   *)
LEMMA StaysWithinLifecycle == Spec => LifecycleSpec
<1>1. Init => LifecycleInit
  BY DEF Init
<1>2. DispatcherInv /\ [Next]_vars => [LifecycleNext]_life
  BY Within DEF DispatcherInv, vars
<1> QED  BY <1>1, <1>2, DispatcherCorrect, PTL DEF Spec, LifecycleSpec

-----------------------------------------------------------------------------
(***************************************************************************)
(* What follows from staying within the lifecycle.  At most one operation  *)
(* of a lane is handed out and unresolved; with what the peer has been     *)
(* sent, at most one unresolved submission of a flow is at the peer.       *)
(***************************************************************************)
\* The peer was sent the operation, and is not done with it or its row is
\* not definitive.
AtPeer(op) ==
    /\ submitted[op] > 0
    /\ peer[op] \in {"idle", "working"} \/ life[op].state \notin Final

\* No two operations of a lane are at the peer (one submission at a time).
OneAtPeer ==
    \A p, q \in Op : AtPeer(p) /\ AtPeer(q) /\ life[p].lane = life[q].lane => p = q

(* The peer never works on two operations of one flow, and never has a     *)
(* second one while the first is unresolved, whatever the threads,         *)
(* timeouts and crashes of the dispatcher: a submission follows its claim, *)
(* the claim waits until the lane is free, and no row is definitive before *)
(* the peer is done (claim, _submit, _observe).                            *)
THEOREM PeerSeesOnePerLane == Spec => []OneAtPeer
<1>1. DispatcherInv /\ LaneExclusive => OneAtPeer
  <2> SUFFICES ASSUME DispatcherInv, LaneExclusive PROVE OneAtPeer
    OBVIOUS
  <2>1. ASSUME NEW op \in Op, AtPeer(op)  PROVE life[op].state \in Active
    <3>1. Asked(op) /\ Honest(op) /\ life[op] \in Life
      BY DEF DispatcherInv, HonestInv, Typed, TypeOK
    <3>2. life[op].state \notin {"absent", "accepted"} /\ life[op].state \notin Final
      BY <2>1, <3>1 DEF Asked, Honest, AtPeer
    <3> QED  BY <3>1, <3>2 DEF Life, Active, Terminal
  <2> QED  BY <2>1 DEF OneAtPeer, LaneExclusive
<1> QED  BY <1>1, DispatcherCorrect, StaysWithinLifecycle, LifecycleSerializes, PTL

\* Time passes for the rows: nothing that was settled is taken back.
RowsSettled ==
    \A op \in Op :
        /\ life[op].handle # NoHandle => life'[op].handle = life[op].handle
        /\ life[op].state \in Final => life'[op].state = life[op].state
        /\ life[op].state \notin {"absent", "accepted"} =>
             life'[op].state \notin {"absent", "accepted"}

(* A stray call of a stopped coroutine, a retry or a restart never undoes  *)
(* a definitive outcome, replaces a handle or queues an operation for      *)
(* dispatch again (finish, save_handle, recover).                          *)
THEOREM NothingIsUndone == Spec => [][RowsSettled]_vars
<1>1. DispatcherInv /\ [Next]_vars => RowsSettled
  <2> SUFFICES ASSUME DispatcherInv, [Next]_vars, NEW op \in Op
               PROVE  /\ life[op].handle # NoHandle => life'[op].handle = life[op].handle
                      /\ life[op].state \in Final => life'[op].state = life[op].state
                      /\ life[op].state \notin {"absent", "accepted"} =>
                           life'[op].state \notin {"absent", "accepted"}
    BY DEF RowsSettled
  <2>1. life \in [Op -> Life] /\ [LifecycleNext]_life
    BY Within DEF DispatcherInv, Typed, TypeOK, vars
  <2>2. CASE life[op].state = "absent"
    <3>1. Asked(op) /\ Known(op)
      BY DEF DispatcherInv, HonestInv
    <3>2. life[op].handle = NoHandle
      BY <2>2, <3>1 DEF Asked, Known
    <3> QED  BY <2>2, <3>2 DEF Final
  <2>3. CASE life[op].state # "absent"
    BY <2>1, <2>3, RowsLater DEF Final
  <2> QED  BY <2>2, <2>3
<1> QED  BY <1>1, DispatcherCorrect, PTL DEF Spec
=============================================================================
