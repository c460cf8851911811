---------------------------- MODULE HermesTasks ----------------------------
(***************************************************************************)
(* The tasks of the Hermes A2A adapter, the peer behind the broker, as the *)
(* pinned upstream has it (compat/hermes/upstream: adapter.py, TaskStore   *)
(* and TurnTracker of protocol.py).                                        *)
(*                                                                         *)
(* One thread of the HTTP server serves each request; it registers a       *)
(* future, hands the message to the gateway's event loop and waits.  The   *)
(* agent answers on the event loop, a second request may cancel, a third   *)
(* may watch, a watchdog fails what nobody owns, and the platform may be   *)
(* disconnected and connected again while threads wait.  Every critical    *)
(* section (_pending_lock, TaskStore._lock) is one step.                   *)
(*                                                                         *)
(* A text is abstracted to the task whose run produced it and the number   *)
(* of its final send.  Push callbacks, metrics, the conversation log and   *)
(* the sessions of forwarded profiles are left out; so are GetTask and     *)
(* ListTasks, which only read.                                             *)
(***************************************************************************)
EXTENDS Naturals, Sequences, FiniteSets

CONSTANTS
    Task,         \* task ids, one per message received
    Context,      \* context ids
    Contexts,     \* bound: the contexts a task may be sent in
    Before,       \* bound: the tasks whose messages come before a task's
    Nobody,       \* no run produced this text
    Watchdog,     \* the text of _fail_orphans_once
    MaxTerminal,  \* _MAX_TERMINAL
    Asking,       \* tasks whose reply opens with the input-required marker
    Forwarded,    \* bound: tasks sent to a profile served by a command of its own
    Cancelled,    \* bound: tasks that another request cancels
    Watched,      \* bound: tasks that another request subscribes to
    Ending,       \* bound: how runs end
    MaxSends,     \* bound: final sends of the agent
    MaxDrops      \* bound: calls of disconnect()

ASSUME HermesValues ==
    /\ {Nobody, Watchdog} \cap Task = {}
    /\ Nobody # Watchdog
    /\ {MaxTerminal, MaxSends, MaxDrops} \subseteq Nat
    /\ Context # {}
    /\ Contexts \in [Task -> SUBSET Context]
    /\ Before \in [Task -> SUBSET Task]
    /\ Ending \subseteq {"completed", "failed", "canceled"}
    /\ {Asking, Forwarded, Cancelled, Watched} \subseteq SUBSET Task

VARIABLES
    at,         \* where the thread of a request is
    context,    \* context_id of a task
    result,     \* what the thread goes on with, then its answer
    rec,        \* TaskStore._tasks: state and reply
    born,       \* the insertion order of TaskStore._tasks
    watch,      \* a SubscribeToTask request for the task, and its future
    pending,    \* _pending
    ahead,      \* _pending_order: the pending tasks that came before
    future,     \* the reply future of a task
    active,     \* _active_tasks
    cancel,     \* a CancelTask request for the task
    queue,      \* messages handed to the event loop, per context
    ran,        \* tasks whose message reached the event loop
    sends,      \* final sends so far
    spared,     \* what the pass of the watchdog leaves alone; Task between passes
    stale,      \* the list of fail_orphans, as far as it is not worked off
    connected,
    drops,
    forgotten   \* history: the owners disconnect() took out of _active_tasks

storeVars == <<rec, born, watch>>
pendingVars == <<pending, ahead, future, active>>
agentVars == <<queue, ran, sends>>
watchdogVars == <<spared, stale>>
platformVars == <<watchdogVars, connected, drops, forgotten>>
vars == <<at, context, result, storeVars, pendingVars, cancel, agentVars, platformVars>>

-----------------------------------------------------------------------------
Terminal == {"completed", "failed", "canceled", "rejected"}
Live == {"submitted", "working", "input_required"}

Outcome == [state : Terminal \cup Live \cup {"none", "trimmed"},
            by : Task \cup {Nobody, Watchdog},
            nth : 0 .. MaxSends]

\* A state with a fixed text, or none.
Note(state) == [state |-> state, by |-> Nobody, nth |-> 0]
None == Note("none")

\* The text of the n-th final send of t's run; 0 is the output of a command.
Said(t, n) == [state |-> "completed", by |-> t, nth |-> n]
Orphaned == [state |-> "failed", by |-> Watchdog, nth |-> 0]

\* _finalize_task: a reply that opens with the marker is a question.
Finalized(o) ==
    IF o.state = "completed" /\ o.by \in Asking THEN [o EXCEPT !.state = "input_required"] ELSE o

InStore(t) == rec[t].state \notin {"none", "trimmed"}

\* The store keeps MaxTerminal terminal tasks, those created last.
Trimmed(r) ==
    [t \in Task |->
        IF /\ r[t].state \in Terminal
           /\ Cardinality({u \in Task : r[u].state \in Terminal /\ born[u] > born[t]})
                >= MaxTerminal
        THEN Note("trimmed") ELSE r[t]]

\* complete(): the first terminal outcome stays.  Its watchers are taken
\* under the lock; their futures, which only they read, are set at once.
MutantComplete(t, o) ==
    IF InStore(t)
    THEN /\ rec' = Trimmed([rec EXCEPT ![t] = o])
         /\ watch' = [watch EXCEPT ![t] =
                        IF @.at = "watching" THEN [at |-> "told", seen |-> o] ELSE @]
    ELSE UNCHANGED <<rec, watch>>

Complete(t, o) ==
    IF InStore(t) /\ rec[t].state \notin Terminal
    THEN /\ rec' = Trimmed([rec EXCEPT ![t] = o])
         /\ watch' = [watch EXCEPT ![t] =
                        IF @.at = "watching" THEN [at |-> "told", seen |-> o] ELSE @]
    ELSE UNCHANGED <<rec, watch>>

\* _resolve_locked: a future is set once, and only while it is registered.
Resolvable(t) == t \in pending /\ future[t] = None

Resolve(t, o) ==
    future' = IF Resolvable(t) THEN [future EXCEPT ![t] = o] ELSE future

\* _resolve_oldest_for_context.
MutantResolveOldest(c, o) ==
    future' = [t \in Task |-> IF Resolvable(t) /\ context[t] = c THEN o ELSE future[t]]

ResolveOldest(c, o) ==
    LET open == {t \in pending : context[t] = c /\ Resolvable(t)}
    IN  future' = [t \in Task |->
                     IF t \in open /\ ahead[t] \cap open = {}
                     THEN o ELSE future[t]]

\* _pop_pending; the thread drops its future.
PopPending(t) ==
    /\ pending' = pending \ {t}
    /\ active' = active \ {t}
    /\ ahead' = [u \in Task |-> IF u = t THEN {} ELSE ahead[u] \ {t}]
    /\ future' = [future EXCEPT ![t] = None]

-----------------------------------------------------------------------------
(***************************************************************************)
(* The thread of a message, from _prepare_task to its answer.              *)
(***************************************************************************)
Goes(t, from, to) ==
    /\ at[t] = from
    /\ at' = [at EXCEPT ![t] = to]

\* A message without text, or beyond the turns of its context, will be
\* rejected.  The threads of the server are not joined: one may begin its
\* request after disconnect().
Prepares(t, c, rejected) ==
    /\ \A u \in Before[t] : at[u] # "idle"
    /\ Goes(t, "idle", IF rejected THEN "rejecting" ELSE "created")
    /\ context' = [context EXCEPT ![t] = c]
    /\ rec' = [rec EXCEPT ![t] = Note("submitted")]
    /\ born' = [born EXCEPT ![t] = 1 + Cardinality({u \in Task : at[u] # "idle"})]
    /\ UNCHANGED <<result, watch, pendingVars, cancel, agentVars, platformVars>>

\* _end_task: the turn limit, an empty text, or a gateway that is not ready.
EndsTask(t) ==
    \E o \in {Note("rejected"), Note("failed")} :
        /\ Goes(t, IF o.state = "rejected" THEN "rejecting" ELSE "created", "answered")
        /\ Complete(t, o)
        /\ result' = [result EXCEPT ![t] = o]
        /\ UNCHANGED <<context, born, pendingVars, cancel, agentVars, platformVars>>

\* _activate_task, for a profile served by a command of its own.
StartsForward(t) ==
    /\ t \in Forwarded
    /\ Goes(t, "created", "forwarding")
    /\ active' = active \cup {t}
    /\ UNCHANGED <<context, result, storeVars, pending, ahead, future, cancel,
                   agentVars, platformVars>>

\* The command prints a reply, or fails or is stopped at its timeout.
ForwardEnds(t) ==
    /\ Goes(t, "forwarding", "recording")
    /\ \E o \in {Said(t, 0), Note("failed")} : result' = [result EXCEPT ![t] = o]
    /\ UNCHANGED <<context, storeVars, pendingVars, cancel, agentVars, platformVars>>

AddsPending(t) ==
    /\ Goes(t, "created", "pending")
    /\ active' = active \cup {t}
    /\ pending' = pending \cup {t}
    /\ ahead' = [ahead EXCEPT ![t] = pending]
    /\ UNCHANGED <<context, result, storeVars, future, cancel, agentVars, platformVars>>

Dispatches(t) ==
    /\ Goes(t, "pending", "dispatched")
    /\ queue' = [queue EXCEPT ![context[t]] = Append(@, t)]
    /\ ran' = ran \cup {t}
    /\ UNCHANGED <<context, result, storeVars, pendingVars, cancel, sends, platformVars>>

\* run_coroutine_threadsafe raises.
DispatchFails(t) ==
    /\ Goes(t, "pending", "popping")
    /\ Complete(t, Note("failed"))
    /\ result' = [result EXCEPT ![t] = Note("failed")]
    /\ UNCHANGED <<context, born, pendingVars, cancel, agentVars, platformVars>>

\* set_state: the agent or a cancel may have been faster.
SetsWorking(t) ==
    /\ Goes(t, "dispatched", "waiting")
    /\ rec' = IF rec[t].state \in Live THEN [rec EXCEPT ![t].state = "working"] ELSE rec
    /\ UNCHANGED <<context, result, born, watch, pendingVars, cancel, agentVars, platformVars>>

GetsReply(t) ==
    /\ Goes(t, "waiting", "recording")
    /\ future[t] # None
    /\ result' = [result EXCEPT ![t] = Finalized(future[t])]
    /\ UNCHANGED <<context, storeVars, pendingVars, cancel, agentVars, platformVars>>

\* The deadline has passed, or the client of a stream is gone, even if the
\* reply is there.  (A write of a stream that fails in another way than by a
\* closed connection leaves the clauses that pop the task; it is left out.)
GivesUp(t) ==
    /\ Goes(t, "waiting", "recording")
    /\ result' = [result EXCEPT ![t] = Note("failed")]
    /\ UNCHANGED <<context, storeVars, pendingVars, cancel, agentVars, platformVars>>

Records(t) ==
    /\ Goes(t, "recording", "popping")
    /\ Complete(t, result[t])
    /\ UNCHANGED <<context, result, born, pendingVars, cancel, agentVars, platformVars>>

\* The finally clause; then the answer is written.
Answers(t) ==
    /\ Goes(t, "popping", "answered")
    /\ PopPending(t)
    /\ UNCHANGED <<context, result, storeVars, cancel, agentVars, platformVars>>

-----------------------------------------------------------------------------
(***************************************************************************)
(* Other requests about a task: CancelTask and SubscribeToTask.            *)
(***************************************************************************)
CancelFinds(t) ==
    /\ t \in Cancelled
    /\ cancel[t] = "none"
    /\ rec[t].state \in Live
    /\ cancel' = [cancel EXCEPT ![t] = "found"]
    /\ UNCHANGED <<at, context, result, storeVars, pendingVars, agentVars, platformVars>>

CancelCompletes(t) ==
    /\ cancel[t] = "found"
    /\ Complete(t, Note("canceled"))
    /\ cancel' = [cancel EXCEPT ![t] = "completed"]
    /\ UNCHANGED <<at, context, result, born, pendingVars, agentVars, platformVars>>

CancelResolves(t) ==
    /\ cancel[t] = "completed"
    /\ Resolve(t, Note("canceled"))
    /\ cancel' = [cancel EXCEPT ![t] = "none"]
    /\ UNCHANGED <<at, context, result, storeVars, pending, ahead, active,
                   agentVars, platformVars>>

\* _find_task.
WatchFinds(t) ==
    /\ t \in Watched
    /\ watch[t].at = "none"
    /\ InStore(t)
    /\ watch' = [watch EXCEPT ![t] = [at |-> "found", seen |-> None]]
    /\ UNCHANGED <<at, context, result, rec, born, pendingVars, cancel, agentVars, platformVars>>

\* watch(): the task may have ended, or been trimmed, in between.
MutantWatches(t) ==
    /\ watch[t].at = "found"
    /\ watch' = [watch EXCEPT ![t].at = IF InStore(t) THEN "watching" ELSE "none"]
    /\ UNCHANGED <<at, context, result, rec, born, pendingVars, cancel, agentVars, platformVars>>

Watches(t) ==
    /\ watch[t].at = "found"
    /\ watch' = [watch EXCEPT ![t] =
                   IF rec[t].state \in Terminal THEN [at |-> "told", seen |-> rec[t]]
                   ELSE [@ EXCEPT !.at = IF InStore(t) THEN "watching" ELSE "none"]]
    /\ UNCHANGED <<at, context, result, rec, born, pendingVars, cancel, agentVars, platformVars>>

\* The deadline of the subscription (the state found first is repeated), or
\* its client is gone.
WatchEnds(t) ==
    /\ watch[t].at = "watching"
    /\ watch' = [watch EXCEPT ![t].at = "none"]
    /\ UNCHANGED <<at, context, result, rec, born, pendingVars, cancel, agentVars, platformVars>>

-----------------------------------------------------------------------------
(***************************************************************************)
(* The agent.  The base adapter is external: the messages of a context are *)
(* run one after the other, in the order they reached the event loop; a    *)
(* run ends with on_processing_complete.  A run that has begun may send    *)
(* any number of final texts, also after it has ended (the late chunks and *)
(* out-of-band sends of send()).                                           *)
(***************************************************************************)
\* send() knows the context, not the task.
AgentReplies(t) ==
    /\ t \in ran
    /\ \A i \in 2 .. Len(queue[context[t]]) : queue[context[t]][i] # t
    /\ sends < MaxSends
    /\ sends' = sends + 1
    /\ ResolveOldest(context[t], Said(t, sends'))
    /\ UNCHANGED <<at, context, result, storeVars, pending, ahead, active, cancel,
                   queue, ran, platformVars>>

AgentEnds(c, state) ==
    /\ queue[c] # <<>>
    /\ Resolve(Head(queue[c]), Note(state))
    /\ queue' = [queue EXCEPT ![c] = Tail(@)]
    /\ UNCHANGED <<at, context, result, storeVars, pending, ahead, active, cancel,
                   ran, sends, platformVars>>

-----------------------------------------------------------------------------
(***************************************************************************)
(* The platform and its watchdog.                                          *)
(***************************************************************************)
Connect ==
    /\ ~connected
    /\ connected' = TRUE
    /\ UNCHANGED <<at, context, result, storeVars, pendingVars, cancel, agentVars,
                   watchdogVars, drops, forgotten>>

MutantDisconnect ==
    /\ connected /\ drops < MaxDrops
    /\ connected' = FALSE
    /\ drops' = drops + 1
    /\ pending' = {}
    /\ ahead' = [t \in Task |-> {}]
    /\ active' = {}
    /\ forgotten' = forgotten \cup active
    /\ UNCHANGED <<at, context, result, storeVars, future, cancel, agentVars, watchdogVars>>

Disconnect ==
    /\ connected /\ drops < MaxDrops
    /\ connected' = FALSE
    /\ drops' = drops + 1
    /\ future' = [t \in Task |-> IF Resolvable(t) THEN Note("failed") ELSE future[t]]
    /\ pending' = {}
    /\ ahead' = [t \in Task |-> {}]
    /\ active' = {}
    /\ forgotten' = forgotten \cup active
    /\ UNCHANGED <<at, context, result, storeVars, cancel, agentVars, watchdogVars>>

\* The orphan timeout is at least five minutes.  The steps of a thread
\* before it waits take less, and so does the moment between the copy and
\* the list of one pass: a task that is listed was past those steps when
\* the copy was made.
Aged == {"waiting", "forwarding", "recording", "popping", "answered"}

\* _fail_orphans_once, under _pending_lock.  disconnect() does not wait for
\* a pass that is under way; the watchdog of the next connect() waits a
\* minute, and the pass is over by then.
MutantWatchdogCopies ==
    /\ connected
    /\ spared = Task /\ stale = {}
    /\ spared' = {t \in Task : at[t] \notin Aged}
    /\ UNCHANGED <<at, context, result, storeVars, pendingVars, cancel, agentVars,
                   stale, connected, drops, forgotten>>

WatchdogCopies ==
    /\ connected
    /\ spared = Task /\ stale = {}
    /\ spared' = active \cup {t \in Task : at[t] \notin Aged}
    /\ UNCHANGED <<at, context, result, storeVars, pendingVars, cancel, agentVars,
                   stale, connected, drops, forgotten>>

\* fail_orphans: the list, under the lock of the store ...
WatchdogLists ==
    /\ spared # Task
    /\ stale' = stale \cup {t \in Task \ spared : rec[t].state \in Live}
    /\ spared' = Task
    /\ UNCHANGED <<at, context, result, storeVars, pendingVars, cancel, agentVars,
                   connected, drops, forgotten>>

\* ... and one complete() after the other.
WatchdogFails(t) ==
    /\ t \in stale
    /\ stale' = stale \ {t}
    /\ Complete(t, Orphaned)
    /\ UNCHANGED <<at, context, result, born, pendingVars, cancel, agentVars,
                   spared, connected, drops, forgotten>>

-----------------------------------------------------------------------------
Init ==
    /\ at = [t \in Task |-> "idle"]
    /\ context = [t \in Task |-> CHOOSE c \in Context : TRUE]
    /\ result = [t \in Task |-> None]
    /\ rec = [t \in Task |-> None]
    /\ born = [t \in Task |-> 0]
    /\ watch = [t \in Task |-> [at |-> "none", seen |-> None]]
    /\ pending = {}
    /\ ahead = [t \in Task |-> {}]
    /\ future = [t \in Task |-> None]
    /\ active = {}
    /\ cancel = [t \in Task |-> "none"]
    /\ queue = [c \in Context |-> <<>>]
    /\ ran = {}
    /\ sends = 0
    /\ spared = Task /\ stale = {}
    /\ connected = TRUE
    /\ drops = 0
    /\ forgotten = {}

\* What the thread of a request does once its message was received.
ThreadSteps(t) ==
    \/ EndsTask(t) \/ StartsForward(t) \/ ForwardEnds(t) \/ AddsPending(t)
    \/ Dispatches(t) \/ DispatchFails(t) \/ SetsWorking(t)
    \/ GetsReply(t) \/ GivesUp(t) \/ Records(t) \/ Answers(t)

OtherRequests(t) ==
    \/ CancelFinds(t) \/ CancelCompletes(t) \/ CancelResolves(t)
    \/ WatchFinds(t) \/ Watches(t) \/ WatchEnds(t)

Next ==
    \/ \E t \in Task :
         \/ \E c \in Contexts[t], rejected \in BOOLEAN : Prepares(t, c, rejected)
         \/ ThreadSteps(t) \/ OtherRequests(t) \/ AgentReplies(t) \/ WatchdogFails(t)
    \/ \E c \in Context, state \in Ending : AgentEnds(c, state)
    \/ Connect \/ Disconnect \/ WatchdogCopies \/ WatchdogLists

Spec == Init /\ [][Next]_vars

-----------------------------------------------------------------------------
(* Type invariant: threads, records and futures.                           *)
TypeOK ==
    /\ at \in [Task -> {"idle", "rejecting", "created", "pending", "dispatched"} \cup Aged]
    /\ context \in [Task -> Context]
    /\ result \in [Task -> Outcome]
    /\ rec \in [Task -> Outcome]
    /\ born \in [Task -> Nat]
    /\ watch \in [Task -> [at : {"none", "found", "watching", "told"},
                           seen : Outcome]]
    /\ pending \subseteq Task
    /\ ahead \in [Task -> SUBSET Task]
    /\ future \in [Task -> Outcome]
    /\ active \subseteq Task
    /\ cancel \in [Task -> {"none", "found", "completed"}]
    /\ queue \in [Context -> Seq(Task)]
    /\ ran \subseteq Task
    /\ sends \in 0 .. MaxSends
    /\ spared \subseteq Task /\ stale \subseteq Task
    /\ connected \in BOOLEAN
    /\ drops \in 0 .. MaxDrops
    /\ forgotten \subseteq Task

(* The first outcome of a task stays: the thread that records its answer,  *)
(* a cancel, the watchdog that works off an old list and the late "working" *)
(* of the dispatch may come second in any order, and none of them changes  *)
(* what GetTask shows; the record can only be dropped, and does not come   *)
(* back (TaskStore.complete, set_state, _trim_locked).                     *)
OutcomeStays ==
    [][\A t \in Task : rec[t].state \in Terminal \cup {"trimmed"} =>
          rec'[t] \in {rec[t], Note("trimmed")}]_vars

(* A waiting thread whose future is not set is registered, so a reply, a   *)
(* cancel or disconnect() can still reach it, and nothing stays registered *)
(* for a request that is over, where it would swallow the reply of the     *)
(* next task or keep the watchdog away (_add_pending, _pop_pending,        *)
(* disconnect).                                                            *)
PendingOwned ==
    \A t \in Task :
        /\ at[t] = "waiting" /\ future[t] = None => t \in pending
        /\ t \in pending \cup active => at[t] \notin {"idle", "answered"}

(* A final send is the answer of at most one request, and of one in its    *)
(* own context, however late it comes: requests give up, are cancelled and *)
(* are forgotten while runs go on sending.  (That it is the request of its *)
(* own run is not so: send(), _resolve_oldest_for_context.)                *)
RepliesKept ==
    \A t, u \in Task :
        /\ result[t].by \in Task => context[result[t].by] = context[t]
        /\ result[t].by \in Task /\ result[t].by = result[u].by
             /\ result[t].nth = result[u].nth => t = u

(* A subscriber that still waits will be woken: its task has not ended, so *)
(* complete() finds it among the watchers; and what a subscriber was told  *)
(* is what the store keeps (watch, complete).                              *)
WatchersWoken ==
    \A t \in Task :
        /\ watch[t].at = "watching" => rec[t].state \in Live
        /\ watch[t].at = "told" /\ watch[t].seen.state \in Terminal =>
             rec[t] \in {watch[t].seen, Note("trimmed")}

(* The watchdog decides from copies that are old when it acts, and yet     *)
(* fails no task that a request has registered; a task whose request is    *)
(* still served is failed only if disconnect() took its owner away, and a  *)
(* reconnection brought the watchdog back (_fail_orphans_once,             *)
(* fail_orphans, disconnect).                                              *)
OwnedNotOrphaned ==
    \A t \in Task : rec[t] = Orphaned =>
        t \notin active /\ (at[t] = "answered" \/ t \in forgotten)
=============================================================================
