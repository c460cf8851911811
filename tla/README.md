# Verification of codex-a2a-gateway

TLA+ models, model-checking runs and machine-checked proofs for the broker and
the client of the gateway in `src/src/hermes_a2a_gateway/`, and for the task
handling of the pinned Hermes A2A adapter in `src/compat/hermes/upstream/`.

The gateway lets an assistant submit prompts to a remote agent ("the peer",
Hermes, over A2A) through a broker. A prompt is expensive and not repeatable, so
the design rests on three promises: work is submitted to the peer **at most
once**, an outcome is **never invented**, and a result, once known, is **neither
lost nor shown twice** on its way to the assistant. The code keeps them across
crashes, lost answers, timeouts and threads that outlive the coroutine that
started them. That is what the models are about.

## 1. Inventory

| Component | State | Operations | Interacts with |
|---|---|---|---|
| Broker ledger, `broker_store.py` | PostgreSQL tables: operations, outbox, payloads, devices (sequence, floor), events, artifacts, receipts; the dispatcher's advisory lock | `accept`, `claim`, `finish`, `save_handle`, `recover`, `reconcilable`, `cancel_intent`, `claim_cancel`, `events`, `receipt`, `put_artifact`, `purge`, `acquire_dispatcher`, `close` | called by HTTP handlers and dispatcher, each call in a worker thread under one process mutex |
| Broker dispatcher, `broker.py` | `_streams`, `_reads`, `_cancels`, the lock `_observations`, the loop | `step`, `_submit`, `_reconcile`, `_cancel`, `_observe`, `_unknown`, `aclose`, start-up in `lifespan` | ledger, peer adapter |
| Broker HTTP API, `broker.py` | none of its own | POST operation, cancel, receipt, artifact; GET operation, events (SSE) | ledger, clients |
| Peer adapter, `broker_peer.py`, `a2a.py` | per-stream chunk buffers | stream a submission, read a task, cancel a task | dispatcher, Hermes |
| Client inbox, `client_store.py` | SQLite: operations (payload, snapshot, submission, delivery and cancel states, conflict, expired), cursor, receipts | `create`, `accept_snapshot`, `view`, `release_inline`, `claim_delivery`, `finish_delivery`, `prune`, the repairs in `__init__` | client daemon |
| Client daemon, `client.py` | coroutines `_work` and `_events`, tool calls, `_unknown_reconciled` | `recover`, `dispatch_pending`, `flush_receipts`, `deliver_ready`, `submit`, `get`, `wait`, `cancel` | broker API, inbox, native delivery |
| Native delivery, `native_delivery.py` | cached capability | `capability`, `enqueue`, `reconcile` | an app-server process per RPC |
| SSH tunnel, `ssh_tunnel.py`, and `BrokerTransport` of `client.py` | process, spawn under way, stderr reader, confirmation, `ready`, generation; the transport's connection pool | `start`, `_run`, `_inspect`, `_connect`, `_spawn`, `_cleanup`, `close`; `handle_async_request` | client daemon, ssh, the local port |
| Hermes A2A adapter, `adapter.py`, `protocol.py` (pinned upstream) | `_pending`, `_pending_order`, `_active_tasks`, `TaskStore` (records, watchers), `TurnTracker` | message, CancelTask, SubscribeToTask, `send`, `on_processing_complete`, watchdog, `connect`, `disconnect` | broker's peer adapter; one thread per request, the agent on the event loop |
| MCP tools, settings, diagnostics, CLI, Hermes patch, release scripts | — | argument checks, configuration, reports | — |

Hard behaviours, with the place where they bite (all of them, with the
properties that cover them, are the `hazards` of `PROJECT.json`):

* a store call in a thread commits after its coroutine timed out or was
  cancelled (`asyncio.to_thread`);
* the process dies between claim and submission, or the loop is cancelled while
  a claim commits;
* a deadline races the peer's terminal event and the call that stores it;
* one flow is served one operation at a time, with unresolved operations that
  hold it;
* events expire out of order, and a reader behind the floor recovers by GET while
  new events are published;
* replies reach the client in another order than the broker gave them;
* an enqueue whose acknowledgment is lost must not be repeated, because the
  queue does not deduplicate;
* `close()` cancels the tunnel at any await, also inside a spawn whose child
  nobody has seen yet, and a foreign listener may hold the local port;
* a store call raises in a job, and the row stays running until the loop finds
  out;
* in Hermes a reply, a cancel, a time-out, the watchdog and a disconnect race to
  end one task, while another thread subscribes to it; a run may send again after
  its request is over.

What makes each component correct: the ledger serializes flows, hands work out
once and publishes every change; the dispatcher submits and cancels once, reports
only what the peer said, and leaves nothing running; the inbox never goes back
and never skips an outcome; delivery shows a result once and records the truth;
the tunnel owns every process it starts and lets requests only through its own
forward; Hermes keeps the first outcome of a task, gives a text to one request,
and leaves no waiter behind.

## 2. Modules

```
OperationLifecycle          what the ledger promises (abstract)
                                                 -> OperationLifecycle_proofs
  ^ implemented by            BrokerStore        -> BrokerStore_proofs -> BrokerFeed_proofs
  ^ extended by               BrokerDispatcher   -> BrokerDispatcher_proofs
  ^ extended by               ClientInbox        -> ClientInbox_proofs
                              (broker + feed + client coroutines)
ReconcilePolling            which saved handles the dispatcher reads next
ClientDelivery              from inbox to assistant -> ClientDelivery_proofs
SSHTunnel                   tunnel and transport    -> SSHTunnel_proofs
HermesTasks                 the peer's side: threads, tasks, futures, watchers
                                                    -> HermesTasks_proofs
MC*.tla, *.cfg              instances for TLC
```

Names follow the code; `PROJECT.json` maps every definition to its lines.
Definitions whose name starts with `Mutant` are plausible bugs: each one replaces
a definition of the model to show that a property notices.

**OperationLifecycle.** One record per operation: state, lane (device and flow),
saved handle, cancellation requested and claimed. Its actions are the
transactions seen without tables. `BrokerStore` implements it
(`ImplementsLifecycle`), and the modules above the ledger are built on it, so
they use the ledger only through what it is shown to do.

**BrokerStore.** One action per method of `BrokerStore`. Every method is one
transaction under one mutex, so interleaving happens between methods; a method
that raises is a stutter. An expiry test against the clock is a free choice,
because the schema relates no two expiry times; the bound on events
(`MaxSequence`) is the only thing the model adds to a guard. `claim` takes the
oldest claimable row by `created_at`, a wall clock with a tie-break on the id,
which a clock step reorders: the model takes any claimable row. `Claimed` states
the one obligation of the caller: `finish` and `save_handle` are called for
operations the dispatcher was given. `uuid4()` is a number no earlier draw of the
device equals. Encryption, digests and texts are left out.

**BrokerDispatcher.** The loop is four steps (reap, cancels, reads, claims) and a
job is a program counter with the observed peer state. A store call that a
timeout or `aclose()` abandons goes into `strays` and may commit at any later
time. A crash may happen anywhere. A store call may raise `psycopg.Error`: in a
job the error waits for the next reap (`JobRaises`, `ReapRaises`), in `step` it is
raised at once (`LoopRaises`); both run `aclose()` and leave a process that answers
503 and does not end by itself (`DispatcherEnds`, `OperatorStops`). A call that
raised may have committed. A handle conflict (`peer_handle_conflict`) is one of the
failures of `PeerFails`. The peer, external to this repository, is modelled by what
the adapter can see of it: a task appears after a submission, works, and may end in
any state, asked or not.

**ReconcilePolling.** The order of `polled_at` and `updated_at`, which the
dispatcher model leaves open; operations with a stream, a read or a cancel call
are skipped, as in `step`.

**ClientInbox.** Three coroutines with one request each under way; replies are
computed when the broker answers and used when the coroutine resumes. Requests
given up may still arrive. The feed keeps all published events, with `floor`
counting the purged ones. The broker's side is the lifecycle plus one event per
move, which is what `FeedContiguous` and `FeedCurrent` establish for the ledger.
`LateHandle` says whether `save_handle` may commit after `outcome_unknown`, which
the stray threads of `BrokerDispatcher` make possible. `Contradicts` compares state
and error; the result and its identity, which `accept_snapshot` compares too, do
not change once set (`IdentitiesStable`) except that an expired result disappears,
and then the error changes with it.

**ClientDelivery.** The `delivery_state` column, the submit and pull tools,
`deliver_ready` with the RPC's point of no return (`submitted = True`), the
native queue, and the repairs a restart makes. A written request may be executed
after its sender died.

**SSHTunnel.** `_run` is a program counter, and every await is a point where
`close()` may cancel it. Outside the daemon, ssh processes die, helpers keep
their stderr open, confirmations arrive late and other programs take the port.
ssh announces a forward before it binds the port (`SshSays`, `SshBinds`), and a
bind that fails ends it some time later.
`returncode` becomes known some time after a death (`Reaps`). What a stage finds
in the ssh configuration, in stderr or on the port is a choice between its
outcomes; delays have no length. A request passes `BrokerTransport` in three
steps: admitted with the generation it saw, pool rotated, sent.

**HermesTasks.** One thread per message, from `_prepare_task` to its answer, one
step per critical section. A text is the task whose run produced it and the number
of the send, because `send()` is told the context only: which future a text
resolves is what the properties are about. The base adapter, which runs the
messages of a context one after the other, is external. A run that has begun may
send any number of final texts, also after it has ended and after its request is
over, or none, and ends in any state. A pass of the watchdog is a copy of
`_active_tasks`, a list of stale records and one `complete()` per entry, with
everything else in between. A request that was accepted before `disconnect()` may
still be prepared after it. Time enters in three places: the orphan timeout (five
minutes or more) is longer than the steps of a thread before it waits, and longer
than the moment between the copy and the list; a pass is over when the watchdog of
the next `connect()` begins, a minute later. The compatibility patch changes the
verdict of the admission, which is left open.

## 3. Runs

| Run | Instance | Shows |
|---|---|---|
| `store_flow` | 2 operations, 2 flows (they may share one), 5 events | `TypeOK`; `FlowSerialized`; `ClaimedOnce`; `OutboxAgrees`; `FeedContiguous`; `FeedCurrent`; refinement `ImplementsLifecycle` |
| `store_limits` | 2 operations, 2 artifacts, 2 handles, 2 results (1 too large), limits of 1 operation and 2 bytes, 4 events | `AdmissionBound` and `QuotaRespected` at the boundary; `ReceiptsMatch`; `IdentitiesStable` |
| `dispatcher_one` | 1 operation, every peer outcome, 2 stops, crashes or database errors, fairness | `TypeOK`, `SubmittedOnce`, `CancelSentOnce`, `OutcomeHonest`, `RunningOwned`, `ObservationsExclusive`; `RunningResolves`, `CancelTakenUp` |
| `dispatcher_two` | 2 operations in 1 or 2 lanes, 1 stream, batch 1, fairness | `AcceptedLeaves` |
| `polling_room` | 3 handles, batch 2, limit 3, fairness | `HandlesResolve` |
| `polling_full` | the same with limit 1 | *violation*: see findings |
| `client_stale` | 1 operation, 4 events, any purge, 1 tool call, 1 restart, late handles | `NothingSkipped`, `TerminalKept` |
| `client_live` | 1 operation, 5 events, fairness | `ResultArrives`, when handles are never late |
| `delivery_once` | 2 operations, 1 submit each, 2 restarts, fairness | `EnqueuedOnce`, `DeliveryHonest`, `InlineOrQueued`, `Offered` |
| `delivery_twice` | 1 operation, 2 submits | *violation*: see findings |
| `hermes_tasks` | 2 messages in 1 or 2 contexts, 2 final sends, a store that keeps 1 ended task, 1 disconnect | `PendingOwned`, `RepliesKept`, `WatchersWoken`, `OwnedNotOrphaned`, `OutcomeStays` |
| `tunnel_owned` | 2 process ids, 1 request, 2 generations, fairness | `OwnsEveryProcess`, `ForwardOwned`, `PoolCurrent`; `CloseReturns`, `Reconnects` |

**Why the bounds are enough.** The number of events bounds the length of a
life: accept, run, save the handle and end take four, and the way through
`outcome_unknown` five. Four events are enough for two handles to compete, for
a reserved result identity to be confirmed, and for a stale reply to meet a
definitive row; the runs about the resolution of `outcome_unknown` (`store_flow`,
`client_live`) have five. Two operations are what a property
about a flow, a quota or a lock relates. Two stops cover a crash during the
recovery from a stop; two restarts of the client cover a restart after a
reconciliation. One operation suffices in `ClientInbox`, whose rows do not
interact: the cursor is shared, and it is compared with the events of that
operation. With one operation the dispatcher has at most two jobs that compete for the
lock, a stream or a read and a cancellation, and every way to lose an answer, a
call or the process; what is safe for one is proved for any number. The liveness of
`dispatcher_one` is for one operation and no theorem extends it: a slot that is
taken by another operation is what `dispatcher_two` adds, for `AcceptedLeaves`,
without stops and cancellations. Two messages let a text meet the wrong future and
a store that keeps one ended task drop the other; two sends let a late one follow
the answer. The message that comes first is the one that is cancelled,
watched and asks for input, and the one a full store drops first; the other may be
forwarded. The theorems are for any order. Two process ids let an ssh process die while the next one is spawned, and
two generations let a request see one tunnel and use another. The theorems below
remove the bounds from every safety property.

Deadlock is checked wherever the system cannot stop; the delivery runs end when
all results are delivered and pruned, and `hermes_tasks` when both messages are
answered; they say so.

**Fairness.** `dispatcher_one` assumes what asyncio and the deployment give:
ready coroutines and threads run, `asyncio.timeout` ends a stream and HTTP
timeouts end reads and cancels, `asyncio.Lock` is first come first served, and
the process is started again (`Restart=on-failure` in `docs/deployment.md`, an
operator after an orderly stop). After a database error the process does not end,
so the supervisor does nothing: there the operator restarts it, as the 503 "restart
is required" asks. Nothing is assumed of the peer, clients or strays.
`dispatcher_two` assumes the same. `polling_*` assumes that `step` runs again and
again, that reads and cancel calls end, and that a finished task read infinitely
often is once reported. `client_live`
assumes that `_work` recovers every fifth cycle, that requests end, and that a
broker asked again and again answers once; nothing of the feed.
`delivery_once` assumes the deadlines of `wait` and of the RPC and that `_work`
comes back to a ready row. `tunnel_owned` assumes that the coroutine and `close`
go on when they can, that a cancellation is delivered (strong fairness: `_run` may
leave and reach awaits again and again), that asyncio notices a dead child and
reads what is in stderr; nothing of other programs on the port or of the operator,
and of ssh no fairness. What a safety property takes from ssh is that it names the
forward on stderr only when it is about to bind it: `ForwardOwned` rests on that,
not on the bind's success. `Reconnects` alone adds that no helper of a dead ssh keeps
stderr open for ever.

## 4. Findings

1. `polling_full`: `reconcilable` stamps `polled_at` on rows for which `step`
   starts no read. With more unresolved handles than `max_concurrent_streams`, a
   finished task may never be read.
2. `delivery_twice`: `release_inline` is not tied to the call that holds the
   row. A repeated submit that ends first lets `deliver_ready` queue the
   reference although the first call then returns the result.

`PROJECT.json` quotes the documents' lines.

Met while modelling, without a run of their own:

* `_snapshot` replaces the error of a definitive row by `result_expired` when its
  result expires, with no event, although the contract calls definitive snapshots
  immutable; `FeedCurrent` therefore holds of a row until its result expires.
* `_connect` waits for the end of stderr without a bound, which `_cleanup` puts on
  the same wait. A helper that keeps stderr open after ssh has died keeps the
  tunnel from reconnecting; that is the premise of `Reconnects`.
* `send()` in Hermes is told the context only. A late chunk, or a reply that comes
  after its request timed out, goes to the next request of the context;
  `RepliesKept` says that each send goes to one request and stays in the context,
  which is all the code promises.
* The answer of a Hermes request may differ from the stored outcome, when a cancel
  or the watchdog came first: the store keeps the first (`OutcomeStays`).
* After `disconnect()` cleared `_active_tasks`, the watchdog of a new connection may
  fail a forwarded task whose request is still served; `OwnedNotOrphaned` excepts it.
* A handle that is saved after `outcome_unknown` was published leaves the client at
  `outcome_unknown` with a conflict. The contract promises a resolution only for the
  same saved handle and a client test states this outcome, so `ResultArrives` is
  checked for handles that are never late.
* Between ssh's announcement and the end of an ssh whose bind failed, a foreign
  listener on the port passes for the tunnel, for as long as ssh lives.
* An operation that is `outcome_unknown` without a handle keeps its flow and its
  admission place until an operator acts; an artifact with an invalid media type
  raises a code that `_submit` does not know and ends in `outcome_unknown`.

## 5. Proofs

The theorems hold for every value of the constants that the named assumptions
(`StoreKeys`, `StoreLimits`, `LifecycleValues`, `DispatcherValues`,
`InboxValues`, `DeliveryValues`, `TunnelValues`, `HermesValues`) admit: sets of
any size, and the bounds of the runs (events, tool calls, restarts, stops) any
numbers. `HermesValues` asks for at least one context, without which no message
can come. The larger inductive invariants (inbox, Hermes) were checked with TLC
on the instances of the runs before they were proved.

*Ledger* (`BrokerStore_proofs`). `TypeCorrect`. Then `LifecycleCorrect`, with the
inductive invariant `Lifecycle == OutboxAgrees /\ FlowSerialized /\ ClaimedOnce`:
serialization alone is preserved only if whatever is claimed is `accepted` and
whatever is unresolved was claimed before, and that is what the agreement of
outbox, history and state says. `FlowsAreSerialized`,
`NoOperationIsClaimedTwice`, `OutboxIsConsistent` follow. `AdmissionIsBounded` adds
that the pending operations of a device are finitely many: only `accept` adds
one, under its guard, and every other transaction moves operations within the
pending states or out of them, which is where `Lifecycle` is needed.
`QuotaIsRespected` rests on what a sum over a finite set is. `BytesOf` is a fold,
and the fold is a function chosen by its recursion: `SumExists` builds that
function one cardinality after the other, `SumOnAgrees` says
that the sum does not depend on the set it was started from, `BytesOfRemove` that
any artifact may be taken out first, `BytesOfMonotone` that deleting frees bytes.
The inductions are arguments about a least counterexample (`LeastNumber`,
`MinimalMember`), because the library's induction rules cannot be instantiated here. The invariant
adds to the bound that the stored artifacts are finitely many; `put_artifact`
then stays within the quota because it counts what is left after the deletions of
its own transaction.

*Lifecycle* (`OperationLifecycle_proofs`). What every user of the abstract
specification may rely on: rows stay typed (`RowsTyped`), no handle, cancellation
or definitive outcome is taken back (`RowsLater`), and at most one operation of a
lane is running or unresolved (`LifecycleSerializes`). The dispatcher's and the
inbox's proofs cite these.

*Refinement* (`BrokerFeed_proofs`). `LedgerRefinesLifecycle`. The mapping
reads the life of an operation off its row; each transaction is shown to be one
step of the abstract specification on the operations it names and a stutter on
all others (`RefinementStep`, one step per transaction). That a claim finds its
lane free is `FlowSerialized`'s argument again: the ledger looks for unresolved
rows of the flow, the lifecycle for unresolved lives of the lane. `recover` is
one abstract step for all running operations; publishing, purging, receipts and
artifacts are stutters.

*Feed and identities* (`BrokerFeed_proofs`). `FeedHasNoHole` and
`FeedShowsTheLedger` are inductive together: that a new event is the last one of
its operation needs the numbers bounded by `sequence`. The hard steps are the
purge (any cut leaves an interval) and `recover` (one event per running operation,
numbered in some order). `IdentitiesAreStable` needs that an absent row is empty
(`AbsentRowsAreEmpty`), and `ReceiptsAreMatched` follows from it.
`ResultsAreReadable` is the contract with a reader of the feed: with a cursor that
is not behind the floor and below a result's identity, it finds above the cursor
an event of that operation that shows the row as it is now. It needs `Marked`
(the event that allocated an identity carries its number, and stays until the
floor passes it), the finiteness of what lies between, to speak of the last event
of an operation, and `FeedCurrent`.

*Inbox* (`ClientInbox_proofs`). Two summaries carry everything: every step keeps
every row (`InboxKept`: recorded stays recorded, a conflict stays, a terminal
snapshot gives way only to its exact resolution) and only extends the feed
(`FeedKept`). `NothingIsTakenBack` is the first of them. `NoOutcomeIsSkipped`
needs `CursorInv`:

* `Recorded`: whatever the broker knows, a coroutine asks for or a late POST
  carries was recorded by the client first; so no row begins after its outcome;
* `LastWord`: an operation with a definitive event is definitive in the broker,
  so an answer given after the event shows the outcome;
* `ExpiredFinal`: a pruned row had its outcome, so a recovery may leave it out;
* `Covered`: each definitive event up to the watermark of a recovery is settled
  in the inbox or its operation is still to be asked for, and the answer under
  way, if it was given, has the outcome. Capturing the watermark before the list
  of operations is what makes this hold;
* `Seen`: what the cursor has passed is settled. An event taken in settles its
  operation because a definitive snapshot is taken over, was known, or
  contradicts what was and is flagged (`IngestedKept`).

`InboxShowsTheLedger` is about the truth of what is shown: a definitive state or a
handle in the inbox is the broker's. It is not inductive for the inbox alone; the
invariant `Truth` says the same of every event of the feed and of every reply
under way, and each of them goes on to hold while the broker moves, because a
definitive state and a saved handle never change (`RowsLater`). A row comes to
show only what it showed, a reply about its operation or an event about it
(`NextLearns`).

*Delivery* (`ClientDelivery_proofs`). `OneReference` and `RecordIsTrue`, from
`DeliveryInv`: whether an enqueue is under way is known to the coroutine, not to
the row, and `JobAgrees` ties a row that is `enqueueing` to the one job that may
send it, which a restart turns into `delivery_outcome_unknown` and no claim can
take again. `InlineUnlessSubmittedAgain`, from `InlineInv`: a row whose single
submit still waits is held back from `deliver_ready`, and once that call has
returned the result it stays unsent. `InlineResultNotQueued` is the contract's
promise under the hypothesis `MaxSubmits <= 1`; the run `delivery_twice` shows
that the hypothesis cannot be dropped.

*Dispatcher* (`BrokerDispatcher_proofs`). One inductive invariant,
`DispatcherInv`, gives six properties. That nothing is sent
twice (`SubmittedOnce`) is not inductive: a stream that was created and has not
begun must belong to a running operation that was never sent (`Asked`), and it
stays running only because everything that could end it, a job or a stray call,
presupposes an earlier submission (`Learned`, `Owed`). The same three carry
`OutcomeHonest`: a job knows only what the peer said, a stray call owes its
argument to a job, and neither the peer nor the ledger takes anything back
(`Later`), so what was known when a call was abandoned still holds when it
commits. `ObservationsExclusive` needs that a claim never overwrites a job, and
`RunningOwned` that no claim is a stray while the dispatcher runs: a stream that
ends with its row running ended by a database error, and is kept until the reap
that raises it. Two more results follow from the invariant together with the lifecycle's own
theorems. `PeerSeesOnePerLane`: the peer is never at work on two operations of one
flow, nor sent a second one while the first is unresolved; that is what the
serialization of flows is for, and it joins the ledger's lane, the submission
count and what the peer knows. `NothingIsUndone`: no stray call takes a row back.

*Tunnel* (`SSHTunnel_proofs`). `ProcessesAreOwned` from `OwnInv`, which says for
each stage whether the child is still the spawn's, is `self.process` or is gone;
`ForwardIsOwned` from `ForwardInv`, which ties a confirmation, read or not, to a
process that holds the port, is about to bind it or is dead; `PoolIsCurrent` from `PoolInv`: a pool
that was rotated after a request was admitted is never behind what the request
saw.

*Hermes* (`HermesTasks_proofs`). Typing needs that finitely many requests have
begun, because the order of insertion is their number. `EveryWaiterRegistered`
from `PendingInv`, which says for each stage of a thread whether it is in
`_pending` and `_active_tasks`. `NoWatcherForgotten` from `StoreInv`: a watcher is
told in the step that ends its task; it rests on `SpokenInv` (what a future may hold
at each stage, and that the watchdog never speaks through one). `FirstOutcomeStays`
goes through every writer of a record (`StoreWriters`). `WatchdogSparesOwned` from
`OrphanInv`: what a pass has copied as unowned, listed or failed is `Ownerless`, past
the stages in which a thread registers, not registered, and answered or forgotten by
`disconnect()`; that is stable (`OwnerlessStays`), so the age of the copies does not
matter. `OneSendOneAnswer` from `KeptInv`: a send is numbered, no future or result
holds a number yet to come, and of the requests that hold a number there is one.

**Model-checked only.** Liveness, which is out of the prover's reach:
`RunningResolves`, `CancelTakenUp`, `AcceptedLeaves`, `HandlesResolve`,
`ResultArrives`, `Offered`, `CloseReturns`, `Reconnects`. `HandlesResolve` is the
one property of `ReconcilePolling`, which therefore has no theorems.

## 6. Not modelled

The SSE loop and its line parser, request parsing and device authentication; the
assembly of streamed chunks in the peer adapter and the A2A wire format;
`flush_receipts`, uploads and downloads of the client, `payload_key_unavailable`;
the order of `dispatch_pending`; the native capability check beyond a Boolean per
process; the bookkeeping of ssh's children on macOS, which ends in the same kill
of a group. Of the Hermes adapter: push callbacks, the rate limiter,
authentication and redaction (`security.py`), the conversation log, the sessions
of forwarded profiles; a stream write that fails with another error than a closed
connection, which leaves the request registered (`adapter.py:714` names only
those); GetTask and ListTasks only read. The Hermes patch changes
how a message is admitted and what a rejection says. Encryption, configuration,
diagnostics, the command line and the release scripts keep no state of interest.

## 7. Plan

Done: ledger, dispatcher, polling, inbox, delivery, tunnel and Hermes tasks, with
a theorem for every safety property of the runs. Next, in this order:

1. `PeerStream`: how chunks, artifacts and status updates become the observed
   task, checked against a reference definition over bounded streams.
2. The pending queue of `dispatch_pending` with its order and statuses: progress
   of operations behind one that is refused.
3. Receipts end to end: `flush_receipts` with the ledger's `receipt`, including a
   receipt that is refused and those behind it.
4. The composition of inbox and delivery, with two operations.
