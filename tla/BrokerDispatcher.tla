-------------------------- MODULE BrokerDispatcher --------------------------
(***************************************************************************)
(* The broker process (broker.py): the dispatcher's loop and its three     *)
(* kinds of jobs, the HTTP handlers that accept and cancel, the start, the *)
(* orderly stop and the crash of the process, and the peer (Hermes) the    *)
(* jobs talk to.                                                           *)
(*                                                                         *)
(* Every store call runs in a worker thread (asyncio.to_thread).  A        *)
(* timeout or a cancellation stops the coroutine that waits for the call,  *)
(* not the thread: the call may still commit, at any later time, after     *)
(* whatever the coroutine did next.  Such calls are the set strays.        *)
(*                                                                         *)
(* A store call may fail with psycopg.Error.  In a job the error waits for *)
(* the next reap, in the loop it is raised at once; both end the           *)
(* dispatcher, while the process goes on and answers 503 until it is       *)
(* restarted.  Artifacts and results are left to BrokerStore.              *)
(***************************************************************************)
EXTENDS OperationLifecycle, FiniteSets

CONSTANTS
    PeerTask,    \* the task handle the peer gives an operation
    PeerOutcome, \* how the peer's tasks may end
    Cancellable, \* the operations clients ask to cancel
    Limit,       \* max_concurrent_streams
    Batch,       \* how many rows reconcilable() returns at most
    MaxStops     \* bound: crashes, orderly stops and failed store calls

ASSUME DispatcherValues ==
    /\ PeerTask \in [Op -> Handle]
    /\ PeerOutcome \subseteq {"completed", "failed", "canceled", "rejected"}
    /\ Limit \in Nat \ {0}
    /\ Batch \in Nat \ {0}
    /\ MaxStops \in Nat

VARIABLES
    phase,       \* of the process
    loop,        \* where step() is
    jobs,        \* _streams, _reads, _cancels: "none" is no key
    lock,        \* the job that holds _observations
    strays,      \* store calls whose waiting coroutine is gone
    peer,        \* the peer's tasks
    submitted,   \* history: SendStreamingMessage calls
    cancels,     \* history: cancel calls
    stops        \* crashes, orderly stops and failed store calls so far

peerVars == <<peer, submitted, cancels>>
vars == <<life, phase, loop, jobs, lock, strays, peerVars, stops>>

Kind == {"stream", "read", "cancel"}
Key == Kind \X Op
NoKey == <<"none", "none">>

\* The states of a task a job may see: rejected stands for input_required too.
PeerState == {"working"} \cup PeerOutcome

\* A job: where its coroutine is, and the state it observes; "raised" is done,
\* with a database error that was not looked at yet.
At == {"none", "created", "open", "waiting", "saving", "reading", "storing",
       "failing", "unknown", "done", "raised"}
Idle == [at |-> "none", task |-> "working"]
Observing == {"saving", "reading", "storing"}

Keys(kind) == {op \in Op : jobs[<<kind, op>>].at # "none"}

\* The handlers answer 503 once the dispatcher's task is done.
Serving == phase \in {"serving", "closing", "failing"}

\* A job that observes keeps the state it observes, and only then.
Move(kind, op, at) ==
    jobs' = [jobs EXCEPT ![<<kind, op>>] =
              [at |-> at,
               task |-> IF at \in Observing THEN jobs[<<kind, op>>].task ELSE "working"]]

\* The outcome finish() is told for an observed state.
Outcome(task) == IF task = "rejected" THEN "failed" ELSE task

-----------------------------------------------------------------------------
(***************************************************************************)
(* The store calls a thread may execute for a job; they do nothing to a    *)
(* row that is definitive or already has the handle.                       *)
(***************************************************************************)
DoSaveHandle(op) ==
    \/ LifeSaveHandle(op, PeerTask[op])
    \/ /\ life[op].handle # NoHandle \/ life[op].state \in Final
       /\ UNCHANGED life

DoFinish(op, to) ==
    \/ LifeFinish(op, to)
    \/ life[op].state \in Final /\ UNCHANGED life

Call(name, op, to) == [name |-> name, op |-> op, to |-> to]

\* The call a job waits for.
CallsOf(kind, op) ==
    LET j == jobs[<<kind, op>>]
    IN  CASE j.at = "saving"  -> {Call("save_handle", op, "none")}
          [] j.at = "storing" -> {Call("finish", op, Outcome(j.task))}
          [] j.at = "failing" -> {Call("finish", op, "failed")}
          [] j.at = "unknown" -> {Call("finish", op, "outcome_unknown")}
          [] OTHER -> {}

\* A thread whose coroutine is gone executes its call.
Stray(c) ==
    /\ c \in strays
    /\ strays' = strays \ {c}
    /\ \/ c.name = "save_handle" /\ DoSaveHandle(c.op)
       \/ c.name = "finish" /\ DoFinish(c.op, c.to)
       \/ c.name = "claim" /\ \E op \in Op, to \in {"running", "failed"} : LifeClaim(op, to)
       \/ c.name = "claim_cancel" /\ \E op \in Op : LifeClaimCancel(op)
    /\ UNCHANGED <<phase, loop, jobs, lock, peerVars, stops>>

-----------------------------------------------------------------------------
(***************************************************************************)
(* The jobs.  A stream submits, a read asks for the saved task, a cancel   *)
(* asks the peer to stop it; all three observe what the peer answers.      *)
(***************************************************************************)
JobStarts(kind, op) ==
    /\ jobs[<<kind, op>>].at = "created"
    /\ Move(kind, op, "open")
    /\ submitted' = [submitted EXCEPT ![op] = @ + IF kind = "stream" THEN 1 ELSE 0]
    /\ cancels' = [cancels EXCEPT ![op] = @ + IF kind = "cancel" THEN 1 ELSE 0]
    /\ UNCHANGED <<life, phase, loop, lock, strays, peer, stops>>

\* The peer's answer arrives: its task, now or as it was when it started.
PeerAnswers(kind, op, task) ==
    /\ jobs[<<kind, op>>].at = "open"
    /\ peer[op] # "idle"
    /\ task \in {"working", peer[op]}
    /\ jobs' = [jobs EXCEPT ![<<kind, op>>] = [at |-> "waiting", task |-> task]]
    /\ UNCHANGED <<life, phase, loop, lock, strays, peerVars, stops>>

\* The end of the stream, an error, the timeout of the request, or an answer
\* under another handle: a stream may have started work, a read or a cancel
\* is over.
PeerFails(kind, op) ==
    /\ jobs[<<kind, op>>].at = "open"
    /\ Move(kind, op, IF kind = "stream" THEN "unknown" ELSE "done")
    /\ UNCHANGED <<life, phase, loop, lock, strays, peerVars, stops>>

MutantTakesLock(kind, op) ==
    /\ jobs[<<kind, op>>].at = "waiting"
    /\ lock' = <<kind, op>>
    /\ Move(kind, op, "saving")
    /\ UNCHANGED <<life, phase, loop, strays, peerVars, stops>>

TakesLock(kind, op) ==
    /\ jobs[<<kind, op>>].at = "waiting"
    /\ lock = NoKey
    /\ lock' = <<kind, op>>
    /\ Move(kind, op, "saving")
    /\ UNCHANGED <<life, phase, loop, strays, peerVars, stops>>

\* A job goes on after its observation: a stream reads on unless the task
\* is over.
Resume(kind, op) ==
    /\ lock' = NoKey
    /\ Move(kind, op, IF kind = "stream" /\ jobs[<<kind, op>>].task = "working"
                      THEN "open" ELSE "done")

SavesHandle(kind, op) ==
    /\ jobs[<<kind, op>>].at = "saving"
    /\ DoSaveHandle(op)
    /\ \/ jobs[<<kind, op>>].task = "working" /\ Resume(kind, op)
       \/ jobs[<<kind, op>>].task # "working" /\ Move(kind, op, "reading") /\ UNCHANGED lock
    /\ UNCHANGED <<phase, loop, strays, peerVars, stops>>

\* get(): a definitive row ends the observation; otherwise the result is
\* stored, unless one of its artifacts is refused.
ReadsRow(kind, op) ==
    /\ jobs[<<kind, op>>].at = "reading"
    /\ \/ life[op].state \in Final /\ Resume(kind, op)
       \/ /\ life[op].state \notin Final
          /\ Move(kind, op, "storing")
          /\ UNCHANGED lock
       \/ /\ life[op].state \notin Final
          /\ jobs[<<kind, op>>].task \in Final
          /\ lock' = NoKey
          /\ Move(kind, op, IF kind = "cancel" THEN "done" ELSE "failing")
       \/ /\ life[op].state \notin Final    \* a code _submit does not know
          /\ jobs[<<kind, op>>].task \in Final
          /\ lock' = NoKey
          /\ Move(kind, op, IF kind = "stream" THEN "unknown" ELSE "done")
    /\ UNCHANGED <<life, phase, loop, strays, peerVars, stops>>

StoresOutcome(kind, op) ==
    /\ jobs[<<kind, op>>].at = "storing"
    /\ DoFinish(op, Outcome(jobs[<<kind, op>>].task))
    /\ Resume(kind, op)
    /\ UNCHANGED <<phase, loop, strays, peerVars, stops>>

MutantGivesUp(kind, op) ==
    /\ jobs[<<kind, op>>].at \in {"failing", "unknown"}
    /\ Move(kind, op, "done")
    /\ UNCHANGED <<life, phase, loop, lock, strays, peerVars, stops>>

MutantVerdict(kind, op) ==
    /\ jobs[<<kind, op>>].at \in {"failing", "unknown"}
    /\ DoFinish(op, "failed")
    /\ Move(kind, op, "done")
    /\ UNCHANGED <<phase, loop, lock, strays, peerVars, stops>>

\* finish() outside an observation: the artifact was refused, or the
\* outcome is not known.
GivesUp(kind, op) ==
    /\ jobs[<<kind, op>>].at \in {"failing", "unknown"}
    /\ DoFinish(op, IF jobs[<<kind, op>>].at = "failing" THEN "failed" ELSE "outcome_unknown")
    /\ Move(kind, op, "done")
    /\ UNCHANGED <<phase, loop, lock, strays, peerVars, stops>>

\* peer_timeout_seconds pass while a stream observes: the call it waits for
\* is dropped (it had not started) or becomes a stray.
StreamTimesOut(op) ==
    /\ jobs[<<"stream", op>>].at \in {"waiting"} \cup Observing
    /\ strays' \in {strays, strays \cup CallsOf("stream", op)}
    /\ lock' = IF lock = <<"stream", op>> THEN NoKey ELSE lock
    /\ Move("stream", op, "unknown")
    /\ UNCHANGED <<life, phase, loop, peerVars, stops>>

MutantJobRaises(kind, op) ==
    /\ jobs[<<kind, op>>].at \in Observing \cup {"failing", "unknown"}
    /\ stops < MaxStops
    /\ strays' \in {strays, strays \cup CallsOf(kind, op)}
    /\ lock' = IF lock = <<kind, op>> THEN NoKey ELSE lock
    /\ Move(kind, op, "done")
    /\ stops' = stops + 1
    /\ UNCHANGED <<life, phase, loop, peerVars>>

\* The store call a job waits for fails: nothing is written, or the answer of
\* the commit is lost.
JobRaises(kind, op) ==
    /\ jobs[<<kind, op>>].at \in Observing \cup {"failing", "unknown"}
    /\ stops < MaxStops
    /\ strays' \in {strays, strays \cup CallsOf(kind, op)}
    /\ lock' = IF lock = <<kind, op>> THEN NoKey ELSE lock
    /\ Move(kind, op, "raised")
    /\ stops' = stops + 1
    /\ UNCHANGED <<life, phase, loop, peerVars>>

-----------------------------------------------------------------------------
(***************************************************************************)
(* step(): reap, then cancellations, reads and claims.                     *)
(***************************************************************************)
LoopAt(at) == phase = "serving" /\ loop = at
Created == [at |-> "created", task |-> "working"]

MutantReaps ==
    /\ LoopAt("reap")
    /\ loop' = "cancels"
    /\ UNCHANGED <<life, phase, jobs, lock, strays, peerVars, stops>>

Reaps ==
    /\ LoopAt("reap")
    /\ \A k \in Key : jobs[k].at # "raised"
    /\ jobs' = [k \in Key |-> IF jobs[k].at = "done" THEN Idle ELSE jobs[k]]
    /\ loop' = "cancels"
    /\ UNCHANGED <<life, phase, lock, strays, peerVars, stops>>

StartsCancel(op) ==
    /\ LoopAt("cancels")
    /\ Cardinality(Keys("cancel")) < Limit
    /\ LifeClaimCancel(op)
    /\ jobs' = [jobs EXCEPT ![<<"cancel", op>>] = Created]
    /\ UNCHANGED <<phase, loop, lock, strays, peerVars, stops>>

CancelsDone ==
    /\ LoopAt("cancels")
    /\ Cardinality(Keys("cancel")) >= Limit \/ \A op \in Op : ~CancelDue(op)
    /\ loop' = "reads"
    /\ UNCHANGED <<life, phase, jobs, lock, strays, peerVars, stops>>

Reconcilable == {op \in Op : life[op].state \in Active /\ life[op].handle # NoHandle}

\* An operation with a job is skipped.
Unattended == {op \in Op : \A kind \in Kind : jobs[<<kind, op>>].at = "none"}

\* reconcilable() returns a batch, and as many of it are read as there is room
\* for; which ones is ReconcilePolling's.
StartsReads(set) ==
    /\ LoopAt("reads")
    /\ LET room == Limit - Cardinality(Keys("read"))
       IN  \E batch \in SUBSET Reconcilable :
             /\ batch = Reconcilable \/ Cardinality(batch) = Batch
             /\ Cardinality(batch) <= Batch
             /\ set \subseteq batch \cap Unattended
             /\ set = batch \cap Unattended \/ Cardinality(set) = room
             /\ Cardinality(set) <= room
    /\ jobs' = [k \in Key |-> IF k[1] = "read" /\ k[2] \in set THEN Created ELSE jobs[k]]
    /\ loop' = "claims"
    /\ UNCHANGED <<life, phase, lock, strays, peerVars, stops>>

RoomForStream == Cardinality(Keys("stream")) < Limit

StartsStream(op) ==
    /\ LoopAt("claims")
    /\ RoomForStream
    /\ LifeClaim(op, "running")
    /\ jobs' = [jobs EXCEPT ![<<"stream", op>>] = Created]
    /\ UNCHANGED <<phase, loop, lock, strays, peerVars, stops>>

MutantClaimsDone ==
    /\ LoopAt("claims")
    /\ ~RoomForStream \/ \A op \in Op : life[op].state = "accepted" => ~LaneFree(op)
    /\ UNCHANGED vars

\* claim() returns None: nothing is claimable, or the operation just failed.
ClaimsDone ==
    /\ LoopAt("claims")
    /\ \/ /\ ~RoomForStream \/ \A op \in Op : life[op].state = "accepted" => ~LaneFree(op)
          /\ UNCHANGED life
       \/ RoomForStream /\ \E op \in Op : LifeClaim(op, "failed")
    /\ loop' = "reap"
    /\ UNCHANGED <<phase, jobs, lock, strays, peerVars, stops>>

-----------------------------------------------------------------------------
(***************************************************************************)
(* The process.                                                            *)
(***************************************************************************)
Starts ==
    /\ phase = "down"
    /\ phase' = "locked"
    /\ UNCHANGED <<life, loop, jobs, lock, strays, peerVars, stops>>

\* recover() before the first request is served and the first claim.
Recovers ==
    /\ phase = "locked"
    /\ LifeRecover
    /\ phase' = "serving"
    /\ UNCHANGED <<loop, jobs, lock, strays, peerVars, stops>>

\* What the loop itself may be waiting for when it is cancelled.
LoopCalls ==
    CASE loop = "cancels" -> {Call("claim_cancel", "none", "none")}
      [] loop = "claims"  -> {Call("claim", "none", "none")}
      [] OTHER -> {}

\* aclose() cancels every job but the one just reaped: a stream that has begun
\* still reports outcome_unknown, again if it was about to because the peer's
\* stream had ended (ended); everything else ends.
CancelsJobs(reaped) ==
    /\ \E ended \in SUBSET {op \in Op : jobs[<<"stream", op>>].at = "unknown"} :
          jobs' = [k \in Key |->
                    [Idle EXCEPT !.at =
                       IF k = reaped \/ jobs[k].at = "none" THEN "none"
                       ELSE IF /\ k[1] = "stream"
                               /\ \/ jobs[k].at \in {"open", "waiting"} \cup Observing
                                  \/ k[2] \in ended
                       THEN "unknown" ELSE "done"]]
    /\ lock' = NoKey
    /\ \E calls \in SUBSET (LoopCalls \cup UNION {CallsOf(k[1], k[2]) : k \in Key}) :
          strays' = strays \cup calls
    /\ UNCHANGED <<life, loop, peerVars>>

\* The loop is cancelled, and with it the process stops.
Closes ==
    /\ phase = "serving"
    /\ stops < MaxStops
    /\ phase' = "closing"
    /\ CancelsJobs(NoKey)
    /\ stops' = stops + 1

\* job.result() raises what the store call of a job has raised; the streams
\* are looked at first.
ReapRaises(k) ==
    /\ LoopAt("reap")
    /\ jobs[k].at = "raised"
    /\ k[1] = "stream" \/ \A op \in Op : jobs[<<"stream", op>>].at # "raised"
    /\ phase' = "failing"
    /\ CancelsJobs(k)
    /\ UNCHANGED stops

\* A store call of step() itself raises.
LoopRaises ==
    /\ phase = "serving" /\ loop # "reap"
    /\ stops < MaxStops
    /\ phase' = "failing"
    /\ CancelsJobs(NoKey)
    /\ stops' = stops + 1

Gathered == \A k \in Key : jobs[k].at \in {"none", "done", "raised"}

\* After gather: a stream that never began may have left its row running.
MarksUnknown(op) ==
    /\ phase \in {"closing", "failing"}
    /\ Gathered
    /\ op \in Keys("stream")
    /\ life[op].state = "running"
    /\ LifeFinish(op, "outcome_unknown")
    /\ UNCHANGED <<phase, loop, jobs, lock, strays, peerVars, stops>>

\* aclose() is through, or one of its store calls raises: the task is done.
DispatcherEnds ==
    /\ phase = "failing"
    /\ Gathered
    /\ \/ /\ \A op \in Keys("stream") : life[op].state # "running"
          /\ UNCHANGED stops
       \/ /\ Keys("stream") # {} /\ stops < MaxStops
          /\ stops' = stops + 1
    /\ phase' = "stopped"
    /\ jobs' = [k \in Key |-> Idle]
    /\ UNCHANGED <<life, loop, lock, strays, peerVars>>

Gone ==
    /\ phase' = "down"
    /\ loop' = "reap"
    /\ jobs' = [k \in Key |-> Idle]
    /\ lock' = NoKey
    /\ strays' = {}
    /\ UNCHANGED <<life, peerVars>>

\* The connection is closed once aclose() is through.
Stops ==
    /\ phase = "closing"
    /\ Gathered
    /\ \A op \in Keys("stream") : life[op].state # "running"
    /\ Gone
    /\ UNCHANGED stops

\* A process without a dispatcher does not end by itself.
OperatorStops ==
    /\ phase = "stopped"
    /\ Gone
    /\ UNCHANGED stops

Crash ==
    /\ phase # "down"
    /\ stops < MaxStops
    /\ Gone
    /\ stops' = stops + 1

-----------------------------------------------------------------------------
(***************************************************************************)
(* The environment: HTTP requests and the peer.                            *)
(***************************************************************************)
Posts(op) ==
    /\ Serving
    /\ \/ \E lane \in Lane : LifeAccept(op, lane)
       \/ op \in Cancellable /\ LifeCancel(op)
    /\ UNCHANGED <<phase, loop, jobs, lock, strays, peerVars, stops>>

\* The submission reaches the peer, perhaps after its stream is gone.
PeerReceives(op) ==
    /\ submitted[op] > 0
    /\ peer[op] = "idle"
    /\ peer' = [peer EXCEPT ![op] = "working"]
    /\ UNCHANGED <<life, phase, loop, jobs, lock, strays, submitted, cancels, stops>>

PeerEnds(op, to) ==
    /\ peer[op] = "working"
    /\ peer' = [peer EXCEPT ![op] = to]
    /\ UNCHANGED <<life, phase, loop, jobs, lock, strays, submitted, cancels, stops>>

-----------------------------------------------------------------------------
Init ==
    /\ LifecycleInit
    /\ phase = "down"
    /\ loop = "reap"
    /\ jobs = [k \in Key |-> Idle]
    /\ lock = NoKey
    /\ strays = {}
    /\ peer = [op \in Op |-> "idle"]
    /\ submitted = [op \in Op |-> 0]
    /\ cancels = [op \in Op |-> 0]
    /\ stops = 0

JobSteps(kind, op) ==
    \/ JobStarts(kind, op)
    \/ PeerFails(kind, op)
    \/ TakesLock(kind, op)
    \/ SavesHandle(kind, op)
    \/ ReadsRow(kind, op)
    \/ StoresOutcome(kind, op)
    \/ GivesUp(kind, op)

LoopSteps ==
    \/ Reaps
    \/ \E op \in Op : StartsCancel(op)
    \/ CancelsDone
    \/ \E set \in SUBSET Op : StartsReads(set)
    \/ \E op \in Op : StartsStream(op)
    \/ ClaimsDone

\* aclose() begins.
Stopping == Closes \/ LoopRaises \/ \E k \in Key : ReapRaises(k)

ProcessSteps ==
    \/ Starts
    \/ Recovers
    \/ \E op \in Op : MarksUnknown(op)
    \/ Stops
    \/ DispatcherEnds

Next ==
    \/ \E kind \in Kind, op \in Op :
         \/ JobSteps(kind, op) \/ JobRaises(kind, op)
         \/ \E task \in PeerState : PeerAnswers(kind, op, task)
    \/ \E op \in Op : StreamTimesOut(op)
    \/ LoopSteps
    \/ ProcessSteps
    \/ Stopping \/ OperatorStops \/ Crash
    \/ \E c \in strays : Stray(c)
    \/ \E op \in Op :
         Posts(op) \/ PeerReceives(op) \/ \E to \in PeerOutcome : PeerEnds(op, to)

Spec == Init /\ [][Next]_vars

(***************************************************************************)
(* Fairness.  The event loop runs every ready coroutine and every thread;  *)
(* asyncio.timeout ends a stream (Deadline) and bounds reads and cancels   *)
(* (PeerFails); asyncio.Lock is first come, first served, so a waiting job *)
(* gets it; the supervisor restarts a process that has ended.  One whose   *)
(* dispatcher failed does not end: db() says "restart is required" to      *)
(* every request, and it is the operator who does it (OperatorStops).      *)
(* Nothing is assumed of the peer, of the clients or of strays.            *)
(***************************************************************************)
Deadline(op) == PeerFails("stream", op) \/ StreamTimesOut(op)

Fairness ==
    /\ \A kind \in Kind, op \in Op : /\ WF_vars(JobSteps(kind, op))
                                     /\ SF_vars(TakesLock(kind, op))
    /\ \A op \in Op : WF_vars(Deadline(op))
    /\ WF_vars(LoopSteps)
    /\ WF_vars(\E k \in Key : ReapRaises(k))
    /\ WF_vars(ProcessSteps)
    /\ WF_vars(OperatorStops)

FairSpec == Spec /\ Fairness

-----------------------------------------------------------------------------
(* Type invariant: the process, its jobs and the peer's tasks.             *)
TypeOK ==
    /\ life \in [Op -> Life]
    /\ phase \in {"down", "locked", "serving", "closing", "failing", "stopped"}
    /\ loop \in {"reap", "cancels", "reads", "claims"}
    /\ jobs \in [Key -> [at : At, task : PeerState]]
    /\ lock \in Key \cup {NoKey}
    /\ peer \in [Op -> {"idle"} \cup PeerState]
    /\ submitted \in [Op -> Nat]
    /\ cancels \in [Op -> Nat]
    /\ stops \in 0 .. MaxStops

(* The peer is sent an operation at most once, whatever times out, stops,  *)
(* crashes or is recovered: "Claim dispatch before a mutating A2A call".   *)
SubmittedOnce == \A op \in Op : submitted[op] <= 1

(* An ambiguous cancellation is never repeated: claim_cancel() commits     *)
(* before the peer is asked (_cancel).                                     *)
CancelSentOnce == \A op \in Op : cancels[op] <= 1

(* A submitted operation is reported definitive only when the peer's task  *)
(* is over and its handle is saved, as completed or canceled only when the *)
(* task is, and a handle is saved only for a task that exists: no timeout, *)
(* stop or stray call makes up an outcome (_observe, _unknown).            *)
OutcomeHonest ==
    \A op \in Op :
        LET s == life[op].state
        IN  /\ s \in Final /\ submitted[op] > 0 => peer[op] \notin {"idle", "working"}
            /\ s \in Final /\ submitted[op] > 0 => life[op].handle # NoHandle
            /\ s = "completed" => peer[op] = "completed"
            /\ s = "canceled" /\ submitted[op] > 0 => peer[op] = "canceled"
            /\ life[op].handle # NoHandle => peer[op] # "idle"

(* While the dispatcher runs, a running operation has a stream that will   *)
(* resolve it, or one whose database error ends the dispatcher at the next *)
(* reap: neither a finished job (_submit) nor an earlier process (recover) *)
(* leaves one behind that nobody will report.                              *)
RunningOwned ==
    phase = "serving" =>
        \A op \in Op : life[op].state = "running"
            => jobs[<<"stream", op>>].at \notin {"none", "done"}

(* Observations exclude each other, and the lock is never left behind by a *)
(* job that was timed out or cancelled (observe).                          *)
ObservationsExclusive ==
    \A k \in Key : jobs[k].at \in Observing <=> lock = k

(* An operation does not stay running: the stream's deadline, aclose() or  *)
(* the next process's recover() resolves it, even when the claim itself    *)
(* was a stray.                                                            *)
RunningResolves ==
    \A op \in Op : (life[op].state = "running") ~> (life[op].state # "running")

(* A requested cancellation with a saved handle is taken up, or the        *)
(* operation becomes definitive first (claim_cancel, step).                *)
CancelTakenUp == \A op \in Op : CancelDue(op) ~> ~CancelDue(op)

(* An accepted operation leaves that state, although another one holds the *)
(* only stream, unless an operation of its own lane is running or          *)
(* unresolved: a job that has ended gives its place back (step, claim).    *)
AcceptedLeaves ==
    \A op \in Op : (life[op].state = "accepted")
        ~> (life[op].state # "accepted" \/ ~LaneFree(op))
=============================================================================
