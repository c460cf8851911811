---------------------------- MODULE ClientInbox ----------------------------
(***************************************************************************)
(* How the client learns what became of its operations: the inbox          *)
(* (client_store.py) and the coroutines of the daemon that fill it         *)
(* (client.py), composed with a broker that moves operations along         *)
(* OperationLifecycle and publishes a snapshot with every move.            *)
(*                                                                         *)
(* Three coroutines talk to the broker, each with one request at a time:   *)
(* "work" recovers and submits, "events" follows the feed and recovers     *)
(* after a gap, "tool" serves gateway_get and gateway_cancel.  A reply is  *)
(* what the broker knew when it answered; it may be taken in much later.   *)
(*                                                                         *)
(* A snapshot is its state, its error and its handle: the result identity  *)
(* is there exactly in a terminal state and never changes (IdentitiesStable *)
(* of BrokerStore), and the expiry of results is BrokerStore's subject.    *)
(***************************************************************************)
EXTENDS OperationLifecycle, Sequences

CONSTANTS
    LateHandle,  \* may save_handle commit after outcome_unknown?
    PeerOutcome, \* how the peer's tasks may end
    MaxFloor,    \* bound: events purged
    MaxFeed,     \* bound: events of the device's feed
    MaxTools,    \* bound: requests of the tools
    MaxRestarts  \* bound: restarts of the daemon

ASSUME InboxValues ==
    /\ LateHandle \in BOOLEAN
    /\ PeerOutcome \subseteq Final
    /\ {MaxFloor, MaxFeed, MaxTools, MaxRestarts} \subseteq Nat

VARIABLES
    error,     \* broker: error_code of the row
    feed,      \* broker: the events ever published
    floor,     \* broker: how many of them are purged
    delayed,   \* POSTs the client gave up that may still arrive
    inbox,     \* client_operations
    cursor,    \* client_cursor
    call,      \* the request each coroutine waits for
    work,      \* where _work is
    gap,       \* the recovery of _events after a 410
    tools,     \* requests of the tools so far
    restarts   \* restarts so far

brokerVars == <<life, error, feed, floor>>
vars == <<brokerVars, delayed, inbox, cursor, call, work, gap, tools, restarts>>

Coroutine == {"work", "events", "tool"}
Error == {"none", "unknown", "cancel_unconfirmed"}

SnapshotOf(op) ==
    [state |-> life[op].state, error |-> error[op], handle |-> life[op].handle]

\* No snapshot yet, and a 404 or an error status as a reply.
NoSnapshot == [state |-> "absent", error |-> "none", handle |-> NoHandle]
NotFound == NoSnapshot
Refused == [NoSnapshot EXCEPT !.state = "refused"]
Waiting == [NoSnapshot EXCEPT !.state = "waiting"]

NoCall == [name |-> "none", op |-> "none", reply |-> Waiting]
Idle(who) == call[who] = NoCall
Calls(name, op) == [name |-> name, op |-> op, reply |-> Waiting]
Answered(who, name) == call[who].name = name /\ call[who].reply # Waiting

NoRow == [submission |-> "none", payload |-> FALSE, snapshot |-> NoSnapshot,
          conflict |-> FALSE, cancel |-> "none", expired |-> FALSE]

MutantIds == {op \in Op : /\ inbox[op].submission # "none" /\ ~inbox[op].expired
                         /\ inbox[op].snapshot.state \notin Terminal}

Ids == {op \in Op : inbox[op].submission # "none" /\ ~inbox[op].expired}
PendingIds == {op \in Ids : inbox[op].submission = "pending"}

-----------------------------------------------------------------------------
(***************************************************************************)
(* The broker: one move of the lifecycle, one event.                       *)
(***************************************************************************)
Publishes(op, code) ==
    /\ Len(feed) < MaxFeed
    /\ error' = [error EXCEPT ![op] = code]
    /\ feed' = Append(feed, [op |-> op, snap |-> SnapshotOf(op)'])
    /\ UNCHANGED floor

\* A task ends as final only through its saved handle (_observe); recover()
\* and _unknown() both end in outcome_unknown.
BrokerMoves(op) ==
    /\ \/ \E to \in {"running", "failed"} : LifeClaim(op, to) /\ Publishes(op, "none")
       \/ /\ life[op].state = "running" \/ LateHandle
          /\ \E h \in Handle : LifeSaveHandle(op, h)
          /\ Publishes(op, error[op])
       \/ LifeFinish(op, "outcome_unknown") /\ Publishes(op, "unknown")
       \/ /\ life[op].handle # NoHandle
          /\ \E to \in PeerOutcome : LifeFinish(op, to)
          /\ Publishes(op, "none")
    /\ UNCHANGED <<delayed, inbox, cursor, call, work, gap, tools, restarts>>

Purges ==
    /\ floor' \in (floor + 1) .. Len(feed)
    /\ floor' <= MaxFloor
    /\ UNCHANGED <<life, error, feed, delayed, inbox, cursor, call, work, gap, tools, restarts>>

\* POST /v1/operations: the first one is accepted, later ones change nothing.
BrokerAccepts(op) ==
    \/ \E lane \in Lane : LifeAccept(op, lane) /\ Publishes(op, "none")
    \/ life[op].state # "absent" /\ UNCHANGED brokerVars

\* POST /v1/operations/{id}/cancel.
BrokerCancels(op) ==
    \/ LifeCancel(op) /\ Publishes(op, IF life[op].state = "accepted"
                                       THEN "none" ELSE "cancel_unconfirmed")
    \/ /\ life[op].state \in Final \cup {"absent"} \/ life[op].cancel_requested
       /\ UNCHANGED brokerVars

BrokerServes(name, op) ==
    \/ name = "get" /\ UNCHANGED brokerVars
    \/ name = "post" /\ BrokerAccepts(op)
    \/ name = "cancel" /\ BrokerCancels(op)

\* The broker answers a request; a refused POST (409, 413, 422) changes nothing.
Answers(who) ==
    /\ call[who].name # "none" /\ call[who].reply = Waiting
    /\ \E op \in Op :
         /\ op = call[who].op
         /\ \/ /\ BrokerServes(call[who].name, op)
               /\ call' = [call EXCEPT ![who].reply = SnapshotOf(op)']
            \/ /\ call[who].name = "post" /\ life[op].state = "absent"
               /\ call' = [call EXCEPT ![who].reply = Refused]
               /\ UNCHANGED brokerVars
    /\ UNCHANGED <<delayed, inbox, cursor, work, gap, tools, restarts>>

\* A request the client no longer waits for arrives.
ArrivesLate(d) ==
    /\ d \in delayed
    /\ BrokerServes(d[1], d[2])
    /\ delayed' = delayed \ {d}
    /\ UNCHANGED <<inbox, cursor, call, work, gap, tools, restarts>>

-----------------------------------------------------------------------------
(***************************************************************************)
(* accept_snapshot.                                                        *)
(***************************************************************************)
ExactResolution(old, new) ==
    /\ old.state = "outcome_unknown"
    /\ new.state \in Final
    /\ old.handle # NoHandle
    /\ old.handle = new.handle

Contradicts(old, new) ==
    /\ new.state \in Terminal
    /\ old.state # new.state \/ old.error # new.error

MutantIngested(row, new) ==
    IF row.submission = "none" \/ row.expired THEN row
    ELSE [row EXCEPT !.snapshot = new, !.submission = "accepted", !.payload = FALSE]

\* The row after a snapshot: a terminal one gives way only to its exact
\* resolution.
Ingested(row, new) ==
    LET old == row.snapshot
        stale == old.state \in Terminal
    IN  IF row.submission = "none" \/ row.expired THEN row
        ELSE IF stale /\ ~ExactResolution(old, new)
        THEN [row EXCEPT !.conflict = @ \/ Contradicts(old, new)]
        ELSE [row EXCEPT !.snapshot = new, !.submission = "accepted", !.payload = FALSE]

Ingest(op, new) == inbox' = [inbox EXCEPT ![op] = Ingested(@, new)]

-----------------------------------------------------------------------------
(***************************************************************************)
(* The tools.                                                              *)
(***************************************************************************)
Create(op) ==
    /\ inbox[op] = NoRow
    /\ inbox' = [inbox EXCEPT ![op] = [NoRow EXCEPT !.submission = "pending", !.payload = TRUE]]
    /\ UNCHANGED <<brokerVars, delayed, cursor, call, work, gap, tools, restarts>>

ToolGets(op) ==
    /\ Idle("tool") /\ tools < MaxTools
    /\ inbox[op].submission # "none"
    /\ call' = [call EXCEPT !["tool"] = Calls("get", op)]
    /\ tools' = tools + 1
    /\ UNCHANGED <<brokerVars, delayed, inbox, cursor, work, gap, restarts>>

\* The intent is durable before the one POST.
ToolCancels(op) ==
    /\ Idle("tool") /\ tools < MaxTools
    /\ inbox[op].submission # "none"
    /\ inbox[op].cancel = "none"
    /\ inbox' = [inbox EXCEPT ![op].cancel = "sending"]
    /\ call' = [call EXCEPT !["tool"] = Calls("cancel", op)]
    /\ tools' = tools + 1
    /\ UNCHANGED <<brokerVars, delayed, cursor, work, gap, restarts>>

ToolTakesReply ==
    LET c == call["tool"]
        row == IF c.reply = NotFound THEN inbox[c.op] ELSE Ingested(inbox[c.op], c.reply)
        intent == IF c.name # "cancel" THEN row.cancel
                  ELSE IF c.reply = NotFound THEN "outcome_unknown" ELSE "requested"
    IN  /\ c.name # "none" /\ c.reply # Waiting
        /\ inbox' = [inbox EXCEPT ![c.op] = [row EXCEPT !.cancel = intent]]
        /\ call' = [call EXCEPT !["tool"] = NoCall]
        /\ UNCHANGED <<brokerVars, delayed, cursor, work, gap, tools, restarts>>

\* A request that is given up may still arrive.
GivenUp(who) ==
    LET c == call[who]
    IN  IF c.name \in {"post", "cancel"} /\ c.reply = Waiting
        THEN {delayed, delayed \cup {<<c.name, c.op>>}} ELSE {delayed}

ToolFails ==
    LET c == call["tool"]
    IN  /\ c.name # "none"
        /\ delayed' \in GivenUp("tool")
        /\ call' = [call EXCEPT !["tool"] = NoCall]
        /\ inbox' = IF c.name = "cancel"
                    THEN [inbox EXCEPT ![c.op].cancel = "outcome_unknown"] ELSE inbox
        /\ UNCHANGED <<brokerVars, cursor, work, gap, tools, restarts>>

-----------------------------------------------------------------------------
(***************************************************************************)
(* _work: recover (every fifth cycle), then dispatch_pending.  todo is     *)
(* what is left of the list each of them fetched when it began.            *)
(***************************************************************************)
Rest == [at |-> "rest", todo |-> {}]

WorkBegins(at) ==
    /\ work = Rest
    /\ work' = [at |-> at, todo |-> IF at = "recover" THEN Ids ELSE PendingIds]
    /\ UNCHANGED <<brokerVars, delayed, inbox, cursor, call, gap, tools, restarts>>

WorkGets(op) ==
    /\ Idle("work") /\ op \in work.todo
    /\ call' = [call EXCEPT !["work"] = Calls("get", op)]
    /\ UNCHANGED <<brokerVars, delayed, inbox, cursor, work, gap, tools, restarts>>

WorkGoesOn(op) ==
    /\ call' = [call EXCEPT !["work"] = NoCall]
    /\ work' = [work EXCEPT !.todo = @ \ {op}]

\* refresh() found the operation.
WorkTakesSnapshot ==
    LET c == call["work"]
    IN  /\ c.name # "none"
        /\ c.reply \notin {Waiting, NotFound, Refused}
        /\ Ingest(c.op, c.reply)
        /\ WorkGoesOn(c.op)
        /\ UNCHANGED <<brokerVars, delayed, cursor, gap, tools, restarts>>

\* It did not: dispatch_pending sends the stored payload, if there is one.
WorkNotFound ==
    LET c == call["work"]
    IN  /\ Answered("work", "get") /\ c.reply = NotFound
        /\ \/ /\ work.at = "recover"
              /\ WorkGoesOn(c.op)
              /\ UNCHANGED inbox
           \/ /\ work.at = "pending" /\ inbox[c.op].payload
              /\ call' = [call EXCEPT !["work"] = Calls("post", c.op)]
              /\ UNCHANGED <<inbox, work>>
           \/ /\ work.at = "pending" /\ ~inbox[c.op].payload
              /\ inbox' = [inbox EXCEPT ![c.op].submission = "outcome_unknown"]
              /\ WorkGoesOn(c.op)
        /\ UNCHANGED <<brokerVars, delayed, cursor, gap, tools, restarts>>

WorkRefused ==
    /\ Answered("work", "post") /\ call["work"].reply = Refused
    /\ inbox' = [inbox EXCEPT ![call["work"].op].submission = "rejected"]
    /\ WorkGoesOn(call["work"].op)
    /\ UNCHANGED <<brokerVars, delayed, cursor, gap, tools, restarts>>

\* An HTTP error or timeout ends the cycle.
WorkFails ==
    /\ ~Idle("work")
    /\ delayed' \in GivenUp("work")
    /\ call' = [call EXCEPT !["work"] = NoCall]
    /\ work' = Rest
    /\ UNCHANGED <<brokerVars, inbox, cursor, gap, tools, restarts>>

WorkDone ==
    /\ work # Rest /\ work.todo = {} /\ Idle("work")
    /\ work' = IF work.at = "recover" THEN [at |-> "pending", todo |-> PendingIds] ELSE Rest
    /\ UNCHANGED <<brokerVars, delayed, inbox, cursor, call, gap, tools, restarts>>

-----------------------------------------------------------------------------
(***************************************************************************)
(* _events: the next event and the cursor in one transaction; behind the   *)
(* floor, the watermark first, then GET for every operation.  An event on  *)
(* its way when it is purged is one taken in just before.                  *)
(***************************************************************************)
NoGap == [on |-> FALSE, resume |-> 0, todo |-> {}]

EventsIngest ==
    /\ gap = NoGap
    /\ cursor >= floor /\ cursor < Len(feed)
    /\ Ingest(feed[cursor + 1].op, feed[cursor + 1].snap)
    /\ cursor' = cursor + 1
    /\ UNCHANGED <<brokerVars, delayed, call, work, gap, tools, restarts>>

EventsGap ==
    /\ gap = NoGap
    /\ cursor < floor
    /\ gap' = [on |-> TRUE, resume |-> Len(feed), todo |-> Ids]
    /\ UNCHANGED <<brokerVars, delayed, inbox, cursor, call, work, tools, restarts>>

GapGets(op) ==
    /\ Idle("events") /\ op \in gap.todo
    /\ call' = [call EXCEPT !["events"] = Calls("get", op)]
    /\ UNCHANGED <<brokerVars, delayed, inbox, cursor, work, gap, tools, restarts>>

GapTakesReply ==
    LET c == call["events"]
    IN  /\ Answered("events", "get")
        /\ IF c.reply = NotFound THEN UNCHANGED inbox ELSE Ingest(c.op, c.reply)
        /\ call' = [call EXCEPT !["events"] = NoCall]
        /\ gap' = [gap EXCEPT !.todo = @ \ {c.op}]
        /\ UNCHANGED <<brokerVars, delayed, cursor, work, tools, restarts>>

GapFails ==
    /\ ~Idle("events")
    /\ call' = [call EXCEPT !["events"] = NoCall]
    /\ gap' = NoGap
    /\ UNCHANGED <<brokerVars, delayed, inbox, cursor, work, tools, restarts>>

MutantResumeAfter == Len(feed)

ResumeAfter == gap.resume

GapDone ==
    /\ gap.on /\ gap.todo = {} /\ Idle("events")
    /\ cursor' = IF ResumeAfter > cursor THEN ResumeAfter ELSE cursor
    /\ gap' = NoGap
    /\ UNCHANGED <<brokerVars, delayed, inbox, call, work, tools, restarts>>

-----------------------------------------------------------------------------
PayloadExpires(op) ==
    /\ inbox[op].payload
    /\ inbox' = [inbox EXCEPT ![op].payload = FALSE]
    /\ UNCHANGED <<brokerVars, delayed, cursor, call, work, gap, tools, restarts>>

\* prune(), between two cycles of _work: only a definitive operation expires.
Prunes(op) ==
    /\ work = Rest
    /\ inbox[op].snapshot.state \in Final /\ ~inbox[op].expired
    /\ inbox' = [inbox EXCEPT ![op].expired = TRUE, ![op].snapshot.error = "none"]
    /\ UNCHANGED <<brokerVars, delayed, cursor, call, work, gap, tools, restarts>>

\* The daemon dies and starts again: only the inbox and the cursor are left.
Restarts ==
    /\ restarts < MaxRestarts
    /\ restarts' = restarts + 1
    /\ delayed' \in {a \cup b : a \in GivenUp("work"), b \in GivenUp("tool")}
    /\ call' = [who \in Coroutine |-> NoCall]
    /\ work' = Rest
    /\ gap' = NoGap
    /\ inbox' = [op \in Op |-> IF inbox[op].cancel = "sending"
                               THEN [inbox[op] EXCEPT !.cancel = "outcome_unknown"]
                               ELSE inbox[op]]
    /\ UNCHANGED <<brokerVars, cursor, tools>>

-----------------------------------------------------------------------------
Init ==
    /\ LifecycleInit
    /\ error = [op \in Op |-> "none"]
    /\ feed = <<>>
    /\ floor = 0
    /\ delayed = {}
    /\ inbox = [op \in Op |-> NoRow]
    /\ cursor = 0
    /\ call = [who \in Coroutine |-> NoCall]
    /\ work = Rest
    /\ gap = NoGap
    /\ tools = 0
    /\ restarts = 0

Tools ==
    \/ \E op \in Op : Create(op) \/ ToolGets(op) \/ ToolCancels(op)
    \/ ToolTakesReply \/ ToolFails

WorkReplies == WorkTakesSnapshot \/ WorkNotFound \/ WorkRefused

WorkAdvances ==
    \/ \E op \in Op : WorkGets(op)
    \/ WorkReplies \/ WorkFails \/ WorkDone

Works == (\E at \in {"recover", "pending"} : WorkBegins(at)) \/ WorkAdvances

Follows ==
    \/ EventsIngest \/ EventsGap
    \/ \E op \in Op : GapGets(op)
    \/ GapTakesReply \/ GapFails \/ GapDone

Next ==
    \/ \E op \in Op : BrokerMoves(op) \/ PayloadExpires(op) \/ Prunes(op)
    \/ Purges
    \/ \E who \in Coroutine : Answers(who)
    \/ \E d \in delayed : ArrivesLate(d)
    \/ Tools
    \/ Works
    \/ Follows
    \/ Restarts

Spec == Init /\ [][Next]_vars

(***************************************************************************)
(* Fairness.  _work never stops for good: it recovers every fifth cycle,   *)
(* each request ends (timeout), and a broker that is asked again and again *)
(* answers sooner or later and its answer is taken in.  Nothing is assumed *)
(* of the feed, the tools or the progress of operations.                   *)
(***************************************************************************)
FairSpec ==
    /\ Spec
    /\ WF_vars(WorkAdvances)
    /\ SF_vars(WorkBegins("recover"))
    /\ SF_vars(Answers("work"))
    /\ SF_vars(WorkReplies)

-----------------------------------------------------------------------------
(* Type invariant: the columns of the inbox and the coroutines' state.     *)
TypeOK ==
    /\ life \in [Op -> Life]
    /\ error \in [Op -> Error]
    /\ floor \in 0 .. Len(feed)
    /\ cursor \in 0 .. Len(feed)
    /\ \A op \in Op :
         /\ inbox[op].submission \in {"none", "pending", "accepted", "rejected", "outcome_unknown"}
         /\ inbox[op].cancel \in {"none", "sending", "requested", "outcome_unknown"}
         /\ inbox[op].snapshot.state \in {"absent", "accepted", "running"} \cup Terminal
    /\ work.at \in {"rest", "recover", "pending"} /\ work.todo \subseteq Op
    /\ gap.todo \subseteq Op

(* A definitive event at or below the cursor has reached the inbox, even   *)
(* when it was purged and replaced by GETs: "Inbox commit and SSE cursor   *)
(* advance are atomic", and the watermark is captured before the recovery  *)
(* (_events, accept_snapshot, advance).                                    *)
NothingSkipped ==
    \A i \in 1 .. cursor :
        LET e == feed[i]
        IN  e.snap.state \in Final /\ inbox[e.op].submission # "none"
            => inbox[e.op].snapshot.state \in Final \/ inbox[e.op].conflict

(* A delayed reply never takes an operation back: a terminal snapshot      *)
(* gives way only to the definitive outcome of the same saved handle, and  *)
(* a definitive one to nothing (accept_snapshot).                          *)
TerminalKept ==
    [][\A op \in Op :
         LET old == inbox[op].snapshot
             new == inbox'[op].snapshot
         IN  old.state \in Terminal
             => \/ new.state = old.state /\ new.handle = old.handle
                \/ ExactResolution(old, new)]_vars

(* docs/client-server-contract.md: outcome_unknown "may reserve a result   *)
(* ID, then resolve through GET of the same saved nonempty remote task ID  *)
(* to completed, failed, or canceled".  Once the broker has the outcome of *)
(* an operation of this client, the inbox gets it.                         *)
ResultArrives ==
    \A op \in Op : (life[op].state \in Final /\ inbox[op].submission # "none")
        ~> (inbox[op].snapshot.state \in Final)
=============================================================================
