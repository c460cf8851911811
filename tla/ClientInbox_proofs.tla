------------------------- MODULE ClientInbox_proofs -------------------------
(***************************************************************************)
(* Proofs about ClientInbox, for any number of operations, any length of   *)
(* the feed, any number of requests of the tools and of restarts: the      *)
(* cursor passes no outcome by, no late reply takes one back, and what the *)
(* inbox shows as definitive is what the broker has.                       *)
(***************************************************************************)
EXTENDS ClientInbox, OperationLifecycle_proofs, TLAPS

-----------------------------------------------------------------------------
(***************************************************************************)
(* Types, of what the replies, the rows and the feed hold as well.         *)
(***************************************************************************)
Stage == {"absent", "accepted", "running"} \cup Terminal
Snap == [state : Stage, error : Error, handle : Handle \cup {NoHandle}]
Event == [op : Op, snap : Snap]
Submission == {"none", "pending", "accepted", "rejected", "outcome_unknown"}
Cancel == {"none", "sending", "requested", "outcome_unknown"}
Row == [submission : Submission, payload : BOOLEAN, snapshot : Snap,
        conflict : BOOLEAN, cancel : Cancel, expired : BOOLEAN]
Request == [name : {"none", "get", "post", "cancel"}, op : Op \cup {"none"},
            reply : Snap \cup {Waiting, Refused}]

BrokerTyped ==
    /\ life \in [Op -> Life]
    /\ error \in [Op -> Error]
    /\ feed \in Seq(Event)
    /\ floor \in Nat /\ floor <= Len(feed)

\* Only _work sends a POST, so only _work can be refused one.
CallTyped ==
    /\ call \in [Coroutine -> Request]
    /\ \A who \in Coroutine :
         /\ call[who].name # "none" => call[who].op \in Op
         /\ call[who].reply = Refused => call[who].name = "post"
    /\ call["tool"].name # "post"
    /\ call["events"].name \in {"none", "get"}
    /\ delayed \subseteq {"post", "cancel"} \X Op

Typed ==
    /\ BrokerTyped
    /\ CallTyped
    /\ inbox \in [Op -> Row]
    /\ cursor \in Nat /\ cursor <= Len(feed)
    /\ work \in [at : {"rest", "recover", "pending"}, todo : SUBSET Op]
    /\ gap \in [on : BOOLEAN, resume : Nat, todo : SUBSET Op] /\ gap.resume <= Len(feed)

-----------------------------------------------------------------------------
Created(op) == inbox[op].submission # "none"
Settled(op) == inbox[op].snapshot.state \in Final \/ inbox[op].conflict
Definitive(i) == feed[i].snap.state \in Final

\* Whatever is under way is about an operation the client has recorded.
Recorded ==
    /\ \A op \in Op : life[op].state # "absent" => Created(op)
    /\ \A who \in Coroutine : call[who].name # "none" => Created(call[who].op)
    /\ \A d \in delayed : Created(d[2])
    /\ \A op \in work.todo \cup gap.todo : Created(op)

\* prune() takes the content of a row, not its outcome.
ExpiredFinal == \A op \in Op : inbox[op].expired => inbox[op].snapshot.state \in Final

\* A definitive event is the last word on its operation.
LastWord == \A i \in 1 .. Len(feed) : Definitive(i) => life[feed[i].op].state \in Final

\* What the watermark covers is in the inbox or still to be asked for, and
\* an answer given after the watermark was captured has it.
CoveredAt(i) ==
    /\ feed[i].op \in gap.todo \/ Settled(feed[i].op)
    /\ call["events"].name # "none" /\ call["events"].op = feed[i].op
       => call["events"].reply = Waiting \/ call["events"].reply.state \in Final

Covered ==
    /\ call["events"].name # "none" => gap # NoGap
    /\ \A i \in 1 .. gap.resume : Definitive(i) => CoveredAt(i)

-----------------------------------------------------------------------------
(***************************************************************************)
(* Rows.  Whatever is done to a row, it stays recorded, its conflict and   *)
(* its terminal snapshot stay.                                             *)
(***************************************************************************)
SnapshotKept(old, new) ==
    old.state \in Terminal
    => \/ new.state = old.state /\ new.handle = old.handle
       \/ ExactResolution(old, new)

RowKept(old, new) ==
    /\ new \in Row
    /\ old.submission # "none" => new.submission # "none"
    /\ old.conflict => new.conflict
    /\ SnapshotKept(old.snapshot, new.snapshot)
    /\ (old.expired => old.snapshot.state \in Final)
       => (new.expired => new.snapshot.state \in Final)

\* The values of the constants of the model.
LEMMA Shapes ==
    /\ NoSnapshot \in Snap /\ NoSnapshot.state = "absent"
    /\ Waiting.state = "waiting" /\ Refused.state = "refused"
    /\ Waiting \notin Snap /\ Refused \notin Snap /\ Waiting # Refused
  BY DEF NoSnapshot, Waiting, Refused, Snap, Stage, Error, Terminal, Final

\* A row is its six columns.
LEMMA RowFields ==
    ASSUME NEW r \in Row
    PROVE  /\ r = [submission |-> r.submission, payload |-> r.payload,
                   snapshot |-> r.snapshot, conflict |-> r.conflict,
                   cancel |-> r.cancel, expired |-> r.expired]
           /\ r.submission \in Submission /\ r.snapshot \in Snap /\ r.cancel \in Cancel
           /\ r.payload \in BOOLEAN /\ r.conflict \in BOOLEAN /\ r.expired \in BOOLEAN
  BY DEF Row

\* Six typed columns make a row.
LEMMA RowBuilt ==
    ASSUME NEW s \in Submission, NEW p \in BOOLEAN, NEW n \in Snap, NEW k \in BOOLEAN,
           NEW c \in Cancel, NEW x \in BOOLEAN
    PROVE  [submission |-> s, payload |-> p, snapshot |-> n, conflict |-> k,
            cancel |-> c, expired |-> x] \in Row
  BY DEF Row

\* A row nothing is done to is kept.
LEMMA RowSame == ASSUME NEW r \in Row PROVE RowKept(r, r)
  BY RowFields DEF RowKept, SnapshotKept

\* Setting the submission of a row, to anything but none, keeps it.
LEMMA SubmissionSet ==
    ASSUME NEW r \in Row, NEW s \in Submission \ {"none"}
    PROVE  RowKept(r, [r EXCEPT !.submission = s])
<1>1. [r EXCEPT !.submission = s] \in Row
  BY RowFields, RowBuilt DEF Row
<1>2. /\ [r EXCEPT !.submission = s].submission = s
      /\ [r EXCEPT !.submission = s].conflict = r.conflict
      /\ [r EXCEPT !.submission = s].snapshot = r.snapshot
      /\ [r EXCEPT !.submission = s].expired = r.expired
  BY DEF Row
<1> QED
  BY <1>1, <1>2 DEF RowKept, SnapshotKept

\* Setting the cancel column keeps the row.
LEMMA CancelSet ==
    ASSUME NEW r \in Row, NEW c \in Cancel
    PROVE  RowKept(r, [r EXCEPT !.cancel = c])
<1>1. [r EXCEPT !.cancel = c] \in Row
  BY DEF Row
<1>2. /\ [r EXCEPT !.cancel = c].submission = r.submission
      /\ [r EXCEPT !.cancel = c].conflict = r.conflict
      /\ [r EXCEPT !.cancel = c].snapshot = r.snapshot
      /\ [r EXCEPT !.cancel = c].expired = r.expired
  BY DEF Row
<1> QED
  BY <1>1, <1>2 DEF RowKept, SnapshotKept

\* Setting or dropping the payload keeps the row.
LEMMA PayloadSet ==
    ASSUME NEW r \in Row, NEW p \in BOOLEAN
    PROVE  RowKept(r, [r EXCEPT !.payload = p])
<1>1. [r EXCEPT !.payload = p] \in Row
  BY DEF Row
<1>2. /\ [r EXCEPT !.payload = p].submission = r.submission
      /\ [r EXCEPT !.payload = p].conflict = r.conflict
      /\ [r EXCEPT !.payload = p].snapshot = r.snapshot
      /\ [r EXCEPT !.payload = p].expired = r.expired
  BY DEF Row
<1> QED
  BY <1>1, <1>2 DEF RowKept, SnapshotKept

\* Recording a conflict keeps the row.
LEMMA ConflictSet ==
    ASSUME NEW r \in Row, NEW k \in BOOLEAN, r.conflict => k
    PROVE  RowKept(r, [r EXCEPT !.conflict = k])
<1>1. [r EXCEPT !.conflict = k] \in Row
  BY DEF Row
<1>2. /\ [r EXCEPT !.conflict = k].submission = r.submission
      /\ [r EXCEPT !.conflict = k].conflict = k
      /\ [r EXCEPT !.conflict = k].snapshot = r.snapshot
      /\ [r EXCEPT !.conflict = k].expired = r.expired
  BY DEF Row
<1> QED
  BY <1>1, <1>2 DEF RowKept, SnapshotKept

\* A snapshot may replace one that is not terminal, or that it resolves.
LEMMA SnapshotSet ==
    ASSUME NEW r \in Row, NEW n \in Snap, NEW p \in BOOLEAN,
           r.snapshot.state \notin Terminal \/ ExactResolution(r.snapshot, n), ~r.expired
    PROVE  LET q == [r EXCEPT !.snapshot = n, !.submission = "accepted", !.payload = p]
           IN  RowKept(r, q) /\ q.snapshot = n
<1> DEFINE q == [r EXCEPT !.snapshot = n, !.submission = "accepted", !.payload = p]
<1>1. q \in Row
  BY DEF Row, Submission
<1>2. /\ q.submission = "accepted"
      /\ q.conflict = r.conflict
      /\ q.snapshot = n
      /\ q.expired = r.expired
  BY DEF Row
<1> QED
  BY <1>1, <1>2 DEF RowKept, SnapshotKept

\* prune(): the outcome stays, its error text does not.
LEMMA Pruned ==
    ASSUME NEW r \in Row, NEW x \in BOOLEAN, r.snapshot.state \in Final
    PROVE  RowKept(r, [r EXCEPT !.expired = x, !.snapshot.error = "none"])
<1> DEFINE n == [r.snapshot EXCEPT !.error = "none"]
           q == [r EXCEPT !.expired = x, !.snapshot.error = "none"]
<1>1. n \in Snap /\ n.state = r.snapshot.state /\ n.handle = r.snapshot.handle
  BY DEF Row, Snap, Error
<1>2. q = [r EXCEPT !.expired = x, !.snapshot = n]
  BY DEF Row
<1> HIDE DEF n
<1>3. q \in Row
  BY <1>1, <1>2 DEF Row
<1>4. q.submission = r.submission /\ q.conflict = r.conflict /\ q.snapshot = n
  BY <1>2 DEF Row
<1> QED
  BY <1>1, <1>3, <1>4 DEF RowKept, SnapshotKept

\* accept_snapshot keeps what is terminal, and a definitive snapshot settles
\* the row: it is taken over, it was known, or it contradicts what was.
LEMMA IngestedKept ==
    ASSUME NEW r \in Row, NEW n \in Snap
    PROVE  /\ RowKept(r, Ingested(r, n))
           /\ (/\ r.submission # "none" /\ n.state \in Final
               /\ r.expired => r.snapshot.state \in Final)
              => Ingested(r, n).snapshot.state \in Final \/ Ingested(r, n).conflict
<1>1. PICK no : no = FALSE
  OBVIOUS
<1>2. PICK k : k = (r.conflict \/ Contradicts(r.snapshot, n))
  OBVIOUS
<1>3. no \in BOOLEAN /\ k \in BOOLEAN /\ (r.conflict => k)
  BY <1>1, <1>2
<1>4. CASE r.submission = "none" \/ r.expired
  BY <1>4, RowSame DEF Ingested
<1>5. CASE /\ ~(r.submission = "none" \/ r.expired)
           /\ r.snapshot.state \in Terminal /\ ~ExactResolution(r.snapshot, n)
  <2>1. Ingested(r, n) = [r EXCEPT !.conflict = k]
    BY <1>2, <1>5, Zenon DEF Ingested
  <2>2. RowKept(r, Ingested(r, n))
    BY <1>3, <2>1, ConflictSet
  <2>3. Ingested(r, n).conflict = k /\ Ingested(r, n).snapshot = r.snapshot
    BY <2>1 DEF Row
  <2>4. n.state \in Final /\ r.snapshot.state \notin Final => k
    BY <1>2, <1>5, Zenon DEF Contradicts, Terminal
  <2>5. n.state \in Final
        => Ingested(r, n).snapshot.state \in Final \/ Ingested(r, n).conflict
    BY <2>3, <2>4, Zenon
  <2> QED
    BY <2>2, <2>5
<1>6. CASE /\ ~(r.submission = "none" \/ r.expired)
           /\ ~(r.snapshot.state \in Terminal /\ ~ExactResolution(r.snapshot, n))
  <2>1. Ingested(r, n) = [r EXCEPT !.snapshot = n, !.submission = "accepted", !.payload = no]
    BY <1>1, <1>6, Zenon DEF Ingested
  <2>2. ~r.expired /\ (r.snapshot.state \notin Terminal \/ ExactResolution(r.snapshot, n))
    BY <1>6
  <2>3. /\ RowKept(r, [r EXCEPT !.snapshot = n, !.submission = "accepted", !.payload = no])
        /\ [r EXCEPT !.snapshot = n, !.submission = "accepted", !.payload = no].snapshot = n
    BY <1>3, <2>2, SnapshotSet, Zenon
  <2>4. RowKept(r, Ingested(r, n)) /\ Ingested(r, n).snapshot = n
    BY <2>1, <2>3
  <2> QED
    BY <2>4
<1> QED
  BY <1>4, <1>5, <1>6

-----------------------------------------------------------------------------
(***************************************************************************)
(* The inbox.  Every action keeps every row.                               *)
(***************************************************************************)
InboxKept ==
    /\ inbox' \in [Op -> Row]
    /\ \A op \in Op : RowKept(inbox[op], inbox'[op])

\* An action that changes one row, and keeps it, keeps the inbox.
LEMMA OneRow ==
    ASSUME inbox \in [Op -> Row], NEW op \in Op, NEW r, RowKept(inbox[op], r),
           inbox' = [inbox EXCEPT ![op] = r]
    PROVE  InboxKept /\ inbox'[op] = r
<1>1. r \in Row
  BY DEF RowKept
<1>2. inbox'[op] = r /\ \A q \in Op : q # op => inbox'[q] = inbox[q]
  OBVIOUS
<1>3. inbox' \in [Op -> Row]
  BY <1>1
<1> QED
  BY <1>2, <1>3, RowSame DEF InboxKept

\* An action that changes no row keeps the inbox.
LEMMA NoRowMoves == ASSUME inbox \in [Op -> Row], UNCHANGED inbox PROVE InboxKept
  BY RowSame DEF InboxKept

\* Taking in a snapshot keeps the inbox.
LEMMA IngestKeeps ==
    ASSUME inbox \in [Op -> Row], NEW op \in Op, NEW n \in Snap, Ingest(op, n)
    PROVE  /\ InboxKept
           /\ inbox'[op] = Ingested(inbox[op], n)
  <1>1. RowKept(inbox[op], Ingested(inbox[op], n))
    BY IngestedKept
  <1>2. PICK r : r = Ingested(inbox[op], n)
    OBVIOUS
  <1>3. inbox' = [inbox EXCEPT ![op] = r]
    BY <1>2 DEF Ingest
  <1> QED
    BY <1>1, <1>2, <1>3, OneRow

\* Keeping is transitive: an outcome is resolved at most once.
LEMMA RowKeptTwice ==
    ASSUME NEW a \in Row, NEW b, NEW c, RowKept(a, b), RowKept(b, c)
    PROVE  RowKept(a, c)
<1>1. b \in Row /\ c \in Row
  BY DEF RowKept
<1>2. SnapshotKept(a.snapshot, c.snapshot)
  BY DEF RowKept, SnapshotKept, ExactResolution, Terminal, Final
<1> QED
  BY <1>1, <1>2 DEF RowKept

\* A reply that is neither outstanding nor a refusal is a snapshot.
LEMMA Replied ==
    ASSUME Typed, NEW who \in Coroutine, call[who].name # "none",
           call[who].reply \notin {Waiting, Refused}
    PROVE  call[who].op \in Op /\ call[who].reply \in Snap
  BY DEF Typed, CallTyped, Request

\* A new row replaces none.
LEMMA CreateKeeps == ASSUME Typed, NEW op \in Op, Create(op) PROVE InboxKept
<1>1. PICK yes : yes = TRUE
  OBVIOUS
<1>2. PICK p : p = [NoRow EXCEPT !.submission = "pending"]
  OBVIOUS
<1>3. inbox \in [Op -> Row] /\ inbox[op] = NoRow /\ yes \in BOOLEAN
  BY <1>1 DEF Typed, Create
<1>4. NoRow \in Row
  BY <1>3
<1>5. RowKept(NoRow, p)
  BY <1>2, <1>4, SubmissionSet DEF Submission
<1>6. RowKept(p, [p EXCEPT !.payload = yes])
  BY <1>3, <1>5, PayloadSet DEF RowKept
<1>7. [NoRow EXCEPT !.submission = "pending", !.payload = yes] = [p EXCEPT !.payload = yes]
  BY <1>2, <1>4 DEF Row
<1>8. RowKept(inbox[op], [NoRow EXCEPT !.submission = "pending", !.payload = yes])
  BY <1>3, <1>4, <1>5, <1>6, <1>7, RowKeptTwice
<1>9. inbox' = [inbox EXCEPT ![op] = [NoRow EXCEPT !.submission = "pending", !.payload = yes]]
  BY <1>1, Zenon DEF Create
<1> QED
  BY <1>3, <1>8, <1>9, OneRow

\* The tools' replies keep the inbox: the snapshot first, then the intent.
LEMMA ToolReplyKeeps == ASSUME Typed, ToolTakesReply PROVE InboxKept
<1>1. PICK c : c = call["tool"]
  OBVIOUS
<1>2. c.op \in Op /\ c.reply \in Snap /\ inbox \in [Op -> Row]
  <2>1. /\ "tool" \in Coroutine /\ call["tool"].name # "none"
        /\ call["tool"].reply \notin {Waiting, Refused}
    BY DEF ToolTakesReply, Typed, CallTyped, Coroutine
  <2> QED
    BY <1>1, <2>1, Replied DEF Typed
<1>3. PICK b : b = IF c.reply = NotFound THEN inbox[c.op] ELSE Ingested(inbox[c.op], c.reply)
  OBVIOUS
<1>4. RowKept(inbox[c.op], b)
  BY <1>2, <1>3, RowSame, IngestedKept
<1>5. PICK k : k = IF c.name # "cancel" THEN b.cancel
                   ELSE IF c.reply = NotFound THEN "outcome_unknown" ELSE "requested"
  OBVIOUS
<1>6. k \in Cancel
  BY <1>4, <1>5 DEF RowKept, Row, Cancel
<1>7. RowKept(inbox[c.op], [b EXCEPT !.cancel = k])
  BY <1>2, <1>4, <1>6, CancelSet, RowKeptTwice DEF RowKept
<1>8. inbox' = [inbox EXCEPT ![c.op] = [b EXCEPT !.cancel = k]]
  BY <1>1, <1>3, <1>5 DEF ToolTakesReply
<1> QED
  BY <1>2, <1>7, <1>8, OneRow

\* A restart changes only the intents whose POST was on its way.
LEMMA RestartKeeps == ASSUME Typed, Restarts PROVE InboxKept
<1>1. inbox \in [Op -> Row] /\ "outcome_unknown" \in Cancel
  BY DEF Typed, Cancel
<1>2. inbox' = [op \in Op |-> IF inbox[op].cancel = "sending"
                              THEN [inbox[op] EXCEPT !.cancel = "outcome_unknown"]
                              ELSE inbox[op]]
  BY DEF Restarts
<1>3. ASSUME NEW op \in Op PROVE RowKept(inbox[op], inbox'[op])
  <2>1. \/ inbox'[op] = inbox[op]
        \/ inbox'[op] = [inbox[op] EXCEPT !.cancel = "outcome_unknown"]
    BY <1>2
  <2> QED
    BY <1>1, <2>1, RowSame, CancelSet
<1>4. \A op \in Op : inbox'[op] \in Row
  BY <1>3 DEF RowKept
<1>5. inbox' \in [Op -> Row]
  BY <1>2, <1>4
<1> QED
  BY <1>3, <1>5 DEF InboxKept

\* Every step keeps every row.
LEMMA NextKeeps == Typed /\ [Next]_vars => InboxKept
<1> SUFFICES ASSUME Typed, [Next]_vars PROVE InboxKept
  OBVIOUS
<1>0. inbox \in [Op -> Row]
  BY DEF Typed
<1> USE <1>0 DEF Coroutine
<1>1. CASE UNCHANGED vars
  BY <1>1, NoRowMoves DEF vars
<1>2. ASSUME NEW op \in Op, BrokerMoves(op) PROVE InboxKept
  BY <1>2, NoRowMoves DEF BrokerMoves
<1>3. CASE Purges
  BY <1>3, NoRowMoves DEF Purges
<1>4. ASSUME NEW who \in Coroutine, Answers(who) PROVE InboxKept
  BY <1>4, NoRowMoves DEF Answers
<1>5. ASSUME NEW d \in delayed, ArrivesLate(d) PROVE InboxKept
  BY <1>5, NoRowMoves DEF ArrivesLate
<1>6. ASSUME NEW op \in Op, Create(op) PROVE InboxKept
  BY <1>6, CreateKeeps
<1>7. ASSUME NEW op \in Op, ToolGets(op) PROVE InboxKept
  BY <1>7, NoRowMoves DEF ToolGets
<1>8. ASSUME NEW op \in Op, ToolCancels(op) PROVE InboxKept
  <2>1. PICK r : r = [inbox[op] EXCEPT !.cancel = "sending"]
    OBVIOUS
  <2>2. RowKept(inbox[op], r) /\ inbox' = [inbox EXCEPT ![op] = r]
    BY <1>8, <2>1, CancelSet DEF ToolCancels, Cancel
  <2> QED
    BY <2>2, OneRow
<1>9. CASE ToolTakesReply
  BY <1>9, ToolReplyKeeps
<1>10. CASE ToolFails
  <2>1. PICK c : c = call["tool"]
    OBVIOUS
  <2>2. CASE c.name = "cancel"
    <3>1. c.op \in Op
      BY <2>1, <2>2 DEF Typed, CallTyped
    <3>2. PICK r : r = [inbox[c.op] EXCEPT !.cancel = "outcome_unknown"]
      OBVIOUS
    <3>3. RowKept(inbox[c.op], r) /\ inbox' = [inbox EXCEPT ![c.op] = r]
      BY <1>10, <2>1, <2>2, <3>1, <3>2, CancelSet DEF ToolFails, Cancel
    <3> QED
      BY <3>1, <3>3, OneRow
  <2>3. CASE c.name # "cancel"
    BY <1>10, <2>1, <2>3, NoRowMoves DEF ToolFails
  <2> QED
    BY <2>2, <2>3
<1>11. ASSUME NEW at \in {"recover", "pending"}, WorkBegins(at) PROVE InboxKept
  BY <1>11, NoRowMoves DEF WorkBegins
<1>12. ASSUME NEW op \in Op, WorkGets(op) PROVE InboxKept
  BY <1>12, NoRowMoves DEF WorkGets
<1>13. CASE WorkTakesSnapshot
  <2>1. call["work"].name # "none" /\ call["work"].reply \notin {Waiting, Refused}
        /\ Ingest(call["work"].op, call["work"].reply)
    BY <1>13 DEF WorkTakesSnapshot
  <2> QED
    BY <2>1, Replied, IngestKeeps
<1>14. CASE WorkNotFound
  <2>1. PICK c : c = call["work"]
    OBVIOUS
  <2>2. c.op \in Op
    BY <1>14, <2>1 DEF WorkNotFound, Answered, Typed, CallTyped
  <2>3. PICK r : r = [inbox[c.op] EXCEPT !.submission = "outcome_unknown"]
    OBVIOUS
  <2>4. UNCHANGED inbox \/ inbox' = [inbox EXCEPT ![c.op] = r]
    BY <1>14, <2>1, <2>2, <2>3 DEF WorkNotFound
  <2>5. RowKept(inbox[c.op], r)
    BY <2>2, <2>3, SubmissionSet DEF Submission
  <2> QED
    BY <2>2, <2>4, <2>5, OneRow, NoRowMoves
<1>15. CASE WorkRefused
  <2>1. PICK c : c = call["work"]
    OBVIOUS
  <2>2. c.op \in Op
    BY <1>15, <2>1 DEF WorkRefused, Answered, Typed, CallTyped
  <2>3. PICK r : r = [inbox[c.op] EXCEPT !.submission = "rejected"]
    OBVIOUS
  <2>4. inbox' = [inbox EXCEPT ![c.op] = r]
    BY <1>15, <2>1, <2>2, <2>3 DEF WorkRefused
  <2>5. RowKept(inbox[c.op], r)
    BY <2>2, <2>3, SubmissionSet DEF Submission
  <2> QED
    BY <2>2, <2>4, <2>5, OneRow
<1>16. CASE WorkFails
  BY <1>16, NoRowMoves DEF WorkFails
<1>17. CASE WorkDone
  BY <1>17, NoRowMoves DEF WorkDone
<1>18. CASE EventsIngest
  <2>1. feed[cursor + 1] \in Event
    BY <1>18 DEF EventsIngest, Typed, BrokerTyped
  <2>2. feed[cursor + 1].op \in Op /\ feed[cursor + 1].snap \in Snap
    BY <2>1 DEF Event
  <2> QED
    BY <1>18, <2>2, IngestKeeps DEF EventsIngest
<1>19. CASE EventsGap
  BY <1>19, NoRowMoves DEF EventsGap
<1>20. ASSUME NEW op \in Op, GapGets(op) PROVE InboxKept
  BY <1>20, NoRowMoves DEF GapGets
<1>21. CASE GapTakesReply
  <2>1. call["events"].name # "none" /\ call["events"].reply \notin {Waiting, Refused}
    BY <1>21 DEF GapTakesReply, Answered, Typed, CallTyped
  <2>2. UNCHANGED inbox \/ Ingest(call["events"].op, call["events"].reply)
    BY <1>21 DEF GapTakesReply
  <2> QED
    BY <2>1, <2>2, Replied, IngestKeeps, NoRowMoves
<1>22. CASE GapFails
  BY <1>22, NoRowMoves DEF GapFails
<1>23. CASE GapDone
  BY <1>23, NoRowMoves DEF GapDone
<1>24. ASSUME NEW op \in Op, PayloadExpires(op) PROVE InboxKept
  <2>1. PICK no : no = FALSE
    OBVIOUS
  <2>2. PICK r : r = [inbox[op] EXCEPT !.payload = no]
    OBVIOUS
  <2>3. inbox' = [inbox EXCEPT ![op] = r]
    BY <1>24, <2>1, <2>2, Zenon DEF PayloadExpires
  <2>4. no \in BOOLEAN
    BY <2>1
  <2>5. RowKept(inbox[op], r)
    BY <2>2, <2>4, PayloadSet
  <2> QED
    BY <2>3, <2>5, OneRow
<1>25. ASSUME NEW op \in Op, Prunes(op) PROVE InboxKept
  <2>1. PICK yes : yes = TRUE
    OBVIOUS
  <2>2. PICK r : r = [inbox[op] EXCEPT !.expired = yes, !.snapshot.error = "none"]
    OBVIOUS
  <2>3. inbox' = [inbox EXCEPT ![op].expired = yes, ![op].snapshot.error = "none"]
    BY <1>25, <2>1, Zenon DEF Prunes
  <2>4. yes \in BOOLEAN /\ inbox[op].snapshot.state \in Final
    BY <1>25, <2>1 DEF Prunes
  <2>5. RowKept(inbox[op], r)
    BY <2>2, <2>4, Pruned
  <2>6. inbox' = [inbox EXCEPT ![op] = r]
    BY <2>2, <2>3
  <2> QED
    BY <2>5, <2>6, OneRow
<1>26. CASE Restarts
  BY <1>26, RestartKeeps
<1> QED
  BY <1>1, <1>2, <1>3, <1>4, <1>5, <1>6, <1>7, <1>8, <1>9, <1>10, <1>11, <1>12, <1>13,
     <1>14, <1>15, <1>16, <1>17, <1>18, <1>19, <1>20, <1>21, <1>22, <1>23, <1>24, <1>25,
     <1>26
  DEF Next, Tools, Works, WorkAdvances, WorkReplies, Follows

-----------------------------------------------------------------------------
(***************************************************************************)
(* The broker.  The feed only grows, and a definitive outcome stays.       *)
(***************************************************************************)
LifeKept(op) ==
    /\ life' \in [Op -> Life]
    /\ life[op].state \in Final => life'[op].state \in Final
    /\ life'[op].state # "absent"
    /\ \A q \in Op : q # op => life'[q] = life[q]

FeedKept ==
    /\ Len(feed) <= Len(feed')
    /\ \A i \in 1 .. Len(feed) : feed'[i] = feed[i]
    /\ \A q \in Op : life[q].state \in Final => life'[q].state \in Final
    /\ \A i \in 1 .. Len(feed') :
         i > Len(feed) /\ feed'[i].snap.state \in Final => life'[feed'[i].op].state \in Final

BrokerKept(op) ==
    /\ BrokerTyped'
    /\ FeedKept
    /\ SnapshotOf(op)' \in Snap
    /\ \A q \in Op : life'[q].state # "absent" => q = op \/ life[q].state # "absent"

\* Every move of the lifecycle the broker makes here keeps its outcomes.
LEMMA LifeMoves ==
    ASSUME BrokerTyped, NEW op \in Op,
           \/ \E lane \in Lane : LifeAccept(op, lane)
           \/ \E to \in {"running", "failed"} : LifeClaim(op, to)
           \/ \E to \in Terminal : LifeFinish(op, to)
           \/ \E h \in Handle : LifeSaveHandle(op, h)
           \/ LifeCancel(op)
    PROVE  LifeKept(op)
<1>0. life \in [Op -> Life]
  BY DEF BrokerTyped
<1> USE <1>0
<1>1. ASSUME NEW lane \in Lane, LifeAccept(op, lane) PROVE LifeKept(op)
  <2>1. PICK r : r = [Unborn EXCEPT !.state = "accepted", !.lane = lane]
    OBVIOUS
  <2>2. r \in Life /\ r.state = "accepted"
    BY <2>1 DEF Life, Unborn, Terminal, Final
  <2>3. life[op].state = "absent" /\ life' = [life EXCEPT ![op] = r]
    BY <1>1, <2>1 DEF LifeAccept
  <2> QED
    BY <2>2, <2>3 DEF LifeKept, Final
<1>2. ASSUME NEW s \in Terminal \cup {"running"}, life' = [life EXCEPT ![op].state = s],
             life[op].state \notin Final
      PROVE  LifeKept(op)
  <2>1. PICK r : r = [life[op] EXCEPT !.state = s]
    OBVIOUS
  <2>2. r \in Life /\ r.state = s
    BY <2>1 DEF Life
  <2>3. life' = [life EXCEPT ![op] = r]
    BY <1>2, <2>1
  <2> QED
    BY <1>2, <2>2, <2>3 DEF LifeKept, Terminal, Final
<1>3. ASSUME NEW to \in {"running", "failed"}, LifeClaim(op, to) PROVE LifeKept(op)
  BY <1>2, <1>3 DEF LifeClaim, Terminal, Final
<1>4. ASSUME NEW to \in Terminal, LifeFinish(op, to) PROVE LifeKept(op)
  BY <1>2, <1>4 DEF LifeFinish, Active, Final
<1>5. ASSUME NEW h \in Handle, LifeSaveHandle(op, h) PROVE LifeKept(op)
  <2>1. PICK r : r = [life[op] EXCEPT !.handle = h]
    OBVIOUS
  <2>2. r \in Life /\ r.state = life[op].state
    BY <2>1 DEF Life
  <2>3. life' = [life EXCEPT ![op] = r] /\ life[op].state \in Active
    BY <1>5, <2>1 DEF LifeSaveHandle
  <2> QED
    BY <2>2, <2>3 DEF LifeKept, Active
<1>6. CASE LifeCancel(op)
  <2>1. CASE life[op].state = "accepted" /\ life' = [life EXCEPT ![op].state = "canceled"]
    BY <1>2, <2>1 DEF Terminal, Final
  <2>2. CASE /\ life[op].state \in Active
             /\ life' = [life EXCEPT ![op].cancel_requested = TRUE]
    <3>1. PICK yes : yes = TRUE
      OBVIOUS
    <3>2. PICK r : r = [life[op] EXCEPT !.cancel_requested = yes]
      OBVIOUS
    <3>3. yes \in BOOLEAN
      BY <3>1
    <3>4. r \in Life /\ r.state = life[op].state
      BY <3>2, <3>3 DEF Life
    <3>5. life' = [life EXCEPT ![op] = r]
      BY <2>2, <3>1, <3>2, Zenon
    <3> QED
      BY <2>2, <3>4, <3>5 DEF LifeKept, Active
  <2> QED
    BY <1>6, <2>1, <2>2 DEF LifeCancel
<1> QED
  BY <1>1, <1>3, <1>4, <1>5, <1>6

\* One move, one event: the event shows the operation as it now is.
LEMMA PublishKeeps ==
    ASSUME BrokerTyped, NEW op \in Op, NEW code \in Error, LifeKept(op), Publishes(op, code)
    PROVE  BrokerKept(op)
<1>1. error' = [error EXCEPT ![op] = code] /\ error' \in [Op -> Error]
  BY DEF Publishes, BrokerTyped
<1>2. SnapshotOf(op)' \in Snap /\ SnapshotOf(op)'.state = life'[op].state
  BY <1>1 DEF SnapshotOf, Snap, Stage, LifeKept, Life
<1>3. PICK e : e = [op |-> op, snap |-> SnapshotOf(op)']
  OBVIOUS
<1>4. e \in Event /\ e.op = op /\ e.snap.state = life'[op].state
  BY <1>2, <1>3 DEF Event
<1>5. feed' = Append(feed, e) /\ floor' = floor
  BY <1>3 DEF Publishes
<1>6. /\ feed' \in Seq(Event) /\ Len(feed') = Len(feed) + 1
      /\ feed'[Len(feed) + 1] = e
      /\ \A i \in 1 .. Len(feed) : feed'[i] = feed[i]
  BY <1>4, <1>5 DEF BrokerTyped
<1>7. BrokerTyped'
  BY <1>1, <1>5, <1>6 DEF BrokerTyped, LifeKept
<1>8. FeedKept
  <2>1. \A q \in Op : life[q].state \in Final => life'[q].state \in Final
    BY DEF LifeKept
  <2>2. ASSUME NEW i \in 1 .. Len(feed'), i > Len(feed) PROVE i = Len(feed) + 1
    BY <1>6, <2>2 DEF BrokerTyped
  <2>3. Len(feed) <= Len(feed')
    BY <1>6 DEF BrokerTyped
  <2> QED
    BY <1>4, <1>6, <2>1, <2>2, <2>3 DEF FeedKept
<1> QED
  BY <1>2, <1>7, <1>8 DEF BrokerKept, LifeKept

\* A step that leaves the broker alone.
LEMMA QuietBroker ==
    ASSUME BrokerTyped, UNCHANGED brokerVars
    PROVE  BrokerTyped' /\ FeedKept /\ \A op \in Op : BrokerKept(op)
<1>1. life' = life /\ error' = error /\ feed' = feed /\ floor' = floor
  BY DEF brokerVars
<1>2. BrokerTyped'
  BY <1>1 DEF BrokerTyped
<1>3. FeedKept
  <2>1. Len(feed) \in Nat
    BY DEF BrokerTyped
  <2> QED
    BY <1>1, <2>1 DEF FeedKept
<1>4. \A op \in Op : SnapshotOf(op)' \in Snap
  BY <1>1 DEF SnapshotOf, Snap, Stage, BrokerTyped, Life
<1> QED
  BY <1>1, <1>2, <1>3, <1>4 DEF BrokerKept

\* The broker moves only operations it has accepted.
LEMMA MovesKeep ==
    ASSUME BrokerTyped, NEW op \in Op, BrokerMoves(op)
    PROVE  BrokerKept(op) /\ life[op].state # "absent"
<1>0. error[op] \in Error /\ "none" \in Error /\ "unknown" \in Error
  BY DEF BrokerTyped, Error
<1>1. ASSUME NEW to \in {"running", "failed"}, LifeClaim(op, to), Publishes(op, "none")
      PROVE  BrokerKept(op) /\ life[op].state # "absent"
  BY <1>0, <1>1, LifeMoves, PublishKeeps DEF LifeClaim
<1>2. ASSUME NEW h \in Handle, LifeSaveHandle(op, h), Publishes(op, error[op])
      PROVE  BrokerKept(op) /\ life[op].state # "absent"
  BY <1>0, <1>2, LifeMoves, PublishKeeps DEF LifeSaveHandle, Active
<1>3. ASSUME NEW to \in Terminal, NEW code \in Error, LifeFinish(op, to), Publishes(op, code)
      PROVE  BrokerKept(op) /\ life[op].state # "absent"
  BY <1>3, LifeMoves, PublishKeeps DEF LifeFinish, Active
<1>4. PeerOutcome \subseteq Terminal /\ "outcome_unknown" \in Terminal
  BY InboxValues DEF Terminal
<1> QED
  BY <1>0, <1>1, <1>2, <1>3, <1>4 DEF BrokerMoves

\* Serving a request touches no operation but its own.
LEMMA ServesKeep ==
    ASSUME BrokerTyped, NEW op \in Op, NEW name, BrokerServes(name, op)
    PROVE  BrokerKept(op)
<1>0. "none" \in Error /\ "cancel_unconfirmed" \in Error
  BY DEF Error
<1>1. ASSUME NEW lane \in Lane, LifeAccept(op, lane), Publishes(op, "none")
      PROVE  BrokerKept(op)
  BY <1>0, <1>1, LifeMoves, PublishKeeps
<1>2. ASSUME NEW code \in Error, LifeCancel(op), Publishes(op, code)
      PROVE  BrokerKept(op)
  BY <1>2, LifeMoves, PublishKeeps
<1>3. CASE BrokerAccepts(op)
  BY <1>1, <1>3, QuietBroker DEF BrokerAccepts
<1>4. CASE BrokerCancels(op)
  BY <1>0, <1>2, <1>4, QuietBroker DEF BrokerCancels
<1> QED
  BY <1>3, <1>4, QuietBroker DEF BrokerServes

\* Every step keeps the broker typed and only extends the feed.
LEMMA NextBroker ==
    ASSUME Typed, [Next]_vars
    PROVE  BrokerTyped' /\ FeedKept
<1>0. BrokerTyped
  BY DEF Typed
<1>1. CASE UNCHANGED brokerVars
  BY <1>0, <1>1, QuietBroker
<1>2. ASSUME NEW op \in Op, BrokerMoves(op) PROVE BrokerTyped' /\ FeedKept
  BY <1>0, <1>2, MovesKeep DEF BrokerKept
<1>3. CASE Purges
  <2>1. /\ floor' \in (floor + 1) .. Len(feed) /\ floor \in Nat /\ Len(feed) \in Nat
        /\ UNCHANGED <<life, error, feed>>
    BY <1>0, <1>3 DEF Purges, BrokerTyped
  <2>2. floor' \in Nat /\ floor' <= Len(feed)
    BY <2>1
  <2> QED
    BY <1>0, <2>1, <2>2 DEF BrokerTyped, FeedKept
<1>4. ASSUME NEW who \in Coroutine, Answers(who) PROVE BrokerTyped' /\ FeedKept
  <2>1. PICK op \in Op : BrokerServes(call[who].name, op) \/ UNCHANGED brokerVars
    BY <1>4 DEF Answers
  <2> QED
    BY <1>0, <2>1, ServesKeep, QuietBroker DEF BrokerKept
<1>5. ASSUME NEW d \in delayed, ArrivesLate(d) PROVE BrokerTyped' /\ FeedKept
  <2>1. d[2] \in Op /\ BrokerServes(d[1], d[2])
    BY <1>5 DEF ArrivesLate, Typed, CallTyped
  <2> QED
    BY <1>0, <2>1, ServesKeep DEF BrokerKept
<1>6. ASSUME Tools PROVE UNCHANGED brokerVars
  BY <1>6, Zenon DEF Tools, Create, ToolGets, ToolCancels, ToolTakesReply, ToolFails
<1>7. ASSUME Works PROVE UNCHANGED brokerVars
  BY <1>7, Zenon DEF Works, WorkBegins, WorkAdvances, WorkGets, WorkReplies,
     WorkTakesSnapshot, WorkNotFound, WorkRefused, WorkFails, WorkDone
<1>8. ASSUME Follows PROVE UNCHANGED brokerVars
  BY <1>8, Zenon DEF Follows, EventsIngest, EventsGap, GapGets, GapTakesReply, GapFails,
     GapDone
<1>9. ASSUME NEW op \in Op, PayloadExpires(op) \/ Prunes(op) PROVE UNCHANGED brokerVars
  BY <1>9, Zenon DEF PayloadExpires, Prunes
<1>10. ASSUME Restarts PROVE UNCHANGED brokerVars
  BY <1>10 DEF Restarts
<1> QED
  BY <1>1, <1>2, <1>3, <1>4, <1>5, <1>6, <1>7, <1>8, <1>9, <1>10 DEF Next, vars

-----------------------------------------------------------------------------
(***************************************************************************)
(* The coroutines.                                                         *)
(***************************************************************************)
LEMMA CallsTyped ==
    /\ NoCall \in Request /\ NoCall.name = "none" /\ NoCall.reply = Waiting
    /\ \A op \in Op : \A name \in {"get", "post", "cancel"} :
         /\ Calls(name, op) \in Request /\ Calls(name, op).name = name
         /\ Calls(name, op).op = op /\ Calls(name, op).reply = Waiting
    /\ Waiting # Refused
  BY Shapes DEF NoCall, Calls, Request

\* A coroutine turns to a typed request.
LEMMA CallSet ==
    ASSUME CallTyped, NEW who \in Coroutine, NEW r \in Request,
           r.name # "none" => r.op \in Op,
           r.reply = Refused => r.name = "post",
           who = "tool" => r.name # "post",
           who = "events" => r.name \in {"none", "get"},
           call' = [call EXCEPT ![who] = r],
           delayed' \subseteq {"post", "cancel"} \X Op
    PROVE  CallTyped'
<1>1. call'[who] = r /\ \A w \in Coroutine : w # who => call'[w] = call[w]
  BY DEF CallTyped
<1>2. call' \in [Coroutine -> Request]
  BY DEF CallTyped
<1> QED
  BY <1>1, <1>2 DEF CallTyped, Coroutine

\* A coroutine is done with its request.
LEMMA CallEnds ==
    ASSUME CallTyped, NEW who \in Coroutine, call' = [call EXCEPT ![who] = NoCall],
           delayed' \subseteq {"post", "cancel"} \X Op
    PROVE  CallTyped'
  BY CallSet, CallsTyped

\* A coroutine asks.
LEMMA CallMade ==
    ASSUME CallTyped, NEW who \in Coroutine, NEW op \in Op,
           NEW name \in {"get", "post", "cancel"},
           who = "tool" => name # "post", who = "events" => name = "get",
           call' = [call EXCEPT ![who] = Calls(name, op)], delayed' = delayed
    PROVE  CallTyped'
<1>1. PICK r : r = Calls(name, op)
  OBVIOUS
<1>2. r \in Request /\ r.name = name /\ r.op = op /\ r.reply # Refused
  BY <1>1, CallsTyped
<1>3. call' = [call EXCEPT ![who] = r] /\ delayed' \subseteq {"post", "cancel"} \X Op
  BY <1>1 DEF CallTyped
<1> QED
  BY <1>2, <1>3, CallSet

\* Only POSTs may arrive after they were given up.
LEMMA GivenUpTyped ==
    ASSUME CallTyped, NEW who \in Coroutine, NEW d \in GivenUp(who)
    PROVE  d \subseteq {"post", "cancel"} \X Op
  BY DEF GivenUp, CallTyped

\* Every step keeps the requests typed.
LEMMA NextCalls ==
    ASSUME Typed, [Next]_vars
    PROVE  CallTyped'
<1>0. CallTyped /\ delayed \subseteq {"post", "cancel"} \X Op
  BY DEF Typed, CallTyped
<1>a. ASSUME UNCHANGED <<call, delayed>> PROVE CallTyped'
  BY <1>0, <1>a DEF CallTyped
<1> USE DEF Coroutine
<1>1. CASE UNCHANGED vars
  BY <1>a, <1>1 DEF vars
<1>2. ASSUME NEW op \in Op, BrokerMoves(op) \/ PayloadExpires(op) \/ Prunes(op) \/ Create(op)
      PROVE  CallTyped'
  BY <1>a, <1>2 DEF BrokerMoves, PayloadExpires, Prunes, Create
<1>3. CASE Purges \/ EventsIngest \/ EventsGap \/ GapDone \/ WorkDone
  BY <1>a, <1>3 DEF Purges, EventsIngest, EventsGap, GapDone, WorkDone
<1>4. ASSUME NEW who \in Coroutine, Answers(who) PROVE CallTyped'
  <2>1. PICK op \in Op : /\ op = call[who].op
                         /\ \/ /\ BrokerServes(call[who].name, op)
                               /\ call' = [call EXCEPT ![who].reply = SnapshotOf(op)']
                            \/ /\ call[who].name = "post"
                               /\ call' = [call EXCEPT ![who].reply = Refused]
    BY <1>4 DEF Answers
  <2>2. PICK v : /\ call' = [call EXCEPT ![who].reply = v]
                 /\ v \in Snap \/ (v = Refused /\ call[who].name = "post")
    BY <2>1, ServesKeep DEF BrokerKept, Typed
  <2>3. PICK r : r = [call[who] EXCEPT !.reply = v]
    OBVIOUS
  <2>4. r \in Request /\ r.name = call[who].name /\ r.op = call[who].op /\ r.reply = v
    BY <1>0, <2>2, <2>3 DEF CallTyped, Request
  <2>5. call' = [call EXCEPT ![who] = r]
    BY <2>2, <2>3
  <2>6. v = Refused => call[who].name = "post"
    BY <2>2, Shapes
  <2>7. delayed' = delayed
    BY <1>4 DEF Answers
  <2> QED
    BY <1>0, <2>1, <2>4, <2>5, <2>6, <2>7, CallSet DEF CallTyped
<1>5. ASSUME NEW d \in delayed, ArrivesLate(d) PROVE CallTyped'
  BY <1>0, <1>5 DEF ArrivesLate, CallTyped
<1>6. ASSUME NEW op \in Op, ToolGets(op) \/ ToolCancels(op) PROVE CallTyped'
  <2>1. PICK name \in {"get", "cancel"} : call' = [call EXCEPT !["tool"] = Calls(name, op)]
    BY <1>6 DEF ToolGets, ToolCancels
  <2>2. delayed' = delayed
    BY <1>6 DEF ToolGets, ToolCancels
  <2> QED
    BY <1>0, <2>1, <2>2, CallMade
<1>7. CASE ToolTakesReply
  BY <1>0, <1>7, CallEnds DEF ToolTakesReply
<1>8. CASE ToolFails
  <2>1. call' = [call EXCEPT !["tool"] = NoCall] /\ delayed' \in GivenUp("tool")
    BY <1>8 DEF ToolFails
  <2> QED
    BY <1>0, <2>1, GivenUpTyped, CallEnds
<1>9. ASSUME NEW at \in {"recover", "pending"}, WorkBegins(at) PROVE CallTyped'
  BY <1>a, <1>9 DEF WorkBegins
<1>10. ASSUME NEW op \in Op, WorkGets(op) PROVE CallTyped'
  BY <1>0, <1>10, CallMade DEF WorkGets
<1>11. CASE WorkTakesSnapshot \/ WorkRefused
  BY <1>0, <1>11, CallEnds DEF WorkTakesSnapshot, WorkRefused, WorkGoesOn
<1>12. CASE WorkNotFound
  <2>1. call["work"].op \in Op /\ delayed' = delayed
    BY <1>0, <1>12 DEF WorkNotFound, Answered, CallTyped
  <2>2. \/ call' = [call EXCEPT !["work"] = NoCall]
        \/ call' = [call EXCEPT !["work"] = Calls("post", call["work"].op)]
    BY <1>12 DEF WorkNotFound, WorkGoesOn
  <2> QED
    BY <1>0, <2>1, <2>2, CallMade, CallEnds
<1>13. CASE WorkFails
  <2>1. call' = [call EXCEPT !["work"] = NoCall] /\ delayed' \in GivenUp("work")
    BY <1>13 DEF WorkFails
  <2> QED
    BY <1>0, <2>1, GivenUpTyped, CallEnds
<1>14. ASSUME NEW op \in Op, GapGets(op) PROVE CallTyped'
  BY <1>0, <1>14, CallMade DEF GapGets
<1>15. CASE GapTakesReply \/ GapFails
  BY <1>0, <1>15, CallEnds DEF GapTakesReply, GapFails
<1>16. CASE Restarts
  <2>1. PICK a \in GivenUp("work"), b \in GivenUp("tool") : delayed' = a \cup b
    BY <1>16 DEF Restarts
  <2>2. delayed' \subseteq {"post", "cancel"} \X Op
    BY <1>0, <2>1, GivenUpTyped
  <2>3. \A who \in Coroutine : call'[who] = NoCall
    BY <1>16 DEF Restarts
  <2>4. call' \in [Coroutine -> Request]
    BY <1>16, CallsTyped DEF Restarts
  <2> QED
    BY <2>2, <2>3, <2>4, CallsTyped DEF CallTyped
<1> QED
  BY <1>1, <1>2, <1>3, <1>4, <1>5, <1>6, <1>7, <1>8, <1>9, <1>10, <1>11, <1>12, <1>13,
     <1>14, <1>15, <1>16
  DEF Next, Tools, Works, WorkAdvances, WorkReplies, Follows

\* Which actions move the cursor, _work and the recovery.
LEMMA Elsewhere ==
    ASSUME \/ UNCHANGED vars \/ Purges
           \/ \E op \in Op : BrokerMoves(op) \/ PayloadExpires(op) \/ Prunes(op)
           \/ \E who \in Coroutine : Answers(who)
           \/ \E d \in delayed : ArrivesLate(d)
           \/ Tools
           \/ \E op \in Op : WorkGets(op) \/ GapGets(op)
    PROVE  UNCHANGED <<cursor, work, gap>>
<1>1. ASSUME UNCHANGED vars \/ Purges PROVE UNCHANGED <<cursor, work, gap>>
  BY <1>1 DEF vars, Purges
<1>2. ASSUME NEW op \in Op, BrokerMoves(op) \/ PayloadExpires(op) \/ Prunes(op)
      PROVE  UNCHANGED <<cursor, work, gap>>
  BY <1>2, Zenon DEF BrokerMoves, PayloadExpires, Prunes
<1>3. ASSUME NEW who \in Coroutine, Answers(who) PROVE UNCHANGED <<cursor, work, gap>>
  BY <1>3, Zenon DEF Answers
<1>4. ASSUME NEW d \in delayed, ArrivesLate(d) PROVE UNCHANGED <<cursor, work, gap>>
  BY <1>4, Zenon DEF ArrivesLate
<1>5. ASSUME Tools PROVE UNCHANGED <<cursor, work, gap>>
  BY <1>5, Zenon DEF Tools, Create, ToolGets, ToolCancels, ToolTakesReply, ToolFails
<1>6. ASSUME NEW op \in Op, WorkGets(op) \/ GapGets(op) PROVE UNCHANGED <<cursor, work, gap>>
  BY <1>6, Zenon DEF WorkGets, GapGets
<1> QED
  BY <1>1, <1>2, <1>3, <1>4, <1>5, <1>6

WorkType == [at : {"rest", "recover", "pending"}, todo : SUBSET Op]
GapType == [on : BOOLEAN, resume : Nat, todo : SUBSET Op]

\* One operation less on the list of _work.
LEMMA WorkGoes ==
    ASSUME work \in WorkType, NEW op, work' = [work EXCEPT !.todo = @ \ {op}]
    PROVE  work' \in WorkType /\ work'.todo = work.todo \ {op}
  BY DEF WorkType

\* The list of _work holds only operations of the inbox.
LEMMA NextWork ==
    ASSUME Typed, [Next]_vars
    PROVE  /\ work' \in WorkType
           /\ \A op \in work'.todo : op \in work.todo \/ Created(op)
<1>0. work \in WorkType
  BY DEF Typed, WorkType
<1> DEFINE G == /\ work' \in WorkType
                /\ \A op \in work'.todo : op \in work.todo \/ Created(op)
<1>1. ASSUME UNCHANGED work PROVE G
  BY <1>0, <1>1
<1>2. ASSUME NEW at \in {"rest", "recover", "pending"}, NEW T \in SUBSET Ids,
             work' = [at |-> at, todo |-> T]
      PROVE  G
  <2>1. T \subseteq Op /\ \A op \in T : Created(op)
    BY DEF Ids, Created
  <2> QED
    BY <1>2, <2>1 DEF WorkType
<1>3. PendingIds \subseteq Ids
  BY DEF PendingIds
<1>4. ASSUME work' = Rest PROVE G
  BY <1>2, <1>4 DEF Rest
<1>5. ASSUME NEW at \in {"recover", "pending"}, WorkBegins(at) PROVE G
  <2>1. PICK T \in SUBSET Ids : work' = [at |-> at, todo |-> T]
    BY <1>3, <1>5 DEF WorkBegins
  <2> QED
    BY <1>2, <2>1
<1>6. ASSUME WorkReplies PROVE G
  <2>1. UNCHANGED work \/ work' = [work EXCEPT !.todo = @ \ {call["work"].op}]
    BY <1>6 DEF WorkReplies, WorkTakesSnapshot, WorkNotFound, WorkRefused, WorkGoesOn
  <2> QED
    BY <1>0, <1>1, <2>1, WorkGoes
<1>7. ASSUME WorkFails \/ Restarts PROVE G
  BY <1>4, <1>7 DEF WorkFails, Restarts
<1>8. ASSUME WorkDone PROVE G
  <2>1. work' = Rest \/ work' = [at |-> "pending", todo |-> PendingIds]
    BY <1>8 DEF WorkDone
  <2> QED
    BY <1>2, <1>3, <1>4, <2>1
<1>9. ASSUME EventsIngest \/ EventsGap \/ GapTakesReply \/ GapFails \/ GapDone PROVE G
  <2>1. UNCHANGED work
    BY <1>9, Zenon DEF EventsIngest, EventsGap, GapTakesReply, GapFails, GapDone
  <2> QED
    BY <1>1, <2>1
<1>10. UNCHANGED <<cursor, work, gap>> => G
  BY <1>1
<1> HIDE DEF G
<1>11. G
  BY <1>5, <1>6, <1>7, <1>8, <1>9, <1>10, Elsewhere
  DEF Next, Works, WorkAdvances, Follows
<1> QED
  BY <1>11 DEF G

\* The state of the recovery, off and on.
LEMMA GapShape ==
    /\ NoGap \in GapType /\ NoGap.resume = 0 /\ NoGap.todo = {}
    /\ \A n \in Nat, T \in SUBSET Op :
         LET g == [on |-> TRUE, resume |-> n, todo |-> T]
         IN  g \in GapType /\ g.resume = n /\ g.todo = T
<1>1. \A b \in BOOLEAN, n \in Nat, T \in SUBSET Op :
        LET g == [on |-> b, resume |-> n, todo |-> T]
        IN  g \in GapType /\ g.resume = n /\ g.todo = T
  BY DEF GapType
<1> QED
  BY <1>1 DEF NoGap

\* What the actions that touch the cursor or the recovery do to them.
LEMMA GapMoves ==
    ASSUME Typed, [Next]_vars
    PROVE  \/ UNCHANGED <<cursor, gap>>
           \/ EventsIngest /\ UNCHANGED gap /\ cursor' = cursor + 1 /\ cursor' <= Len(feed)
           \/ /\ EventsGap /\ UNCHANGED cursor /\ gap' \in GapType
              /\ gap'.resume = Len(feed) /\ gap'.todo = Ids
           \/ /\ GapTakesReply /\ UNCHANGED cursor /\ gap' \in GapType
              /\ gap'.resume = gap.resume /\ gap'.todo = gap.todo \ {call["events"].op}
           \/ (GapFails \/ Restarts) /\ UNCHANGED cursor /\ gap' = NoGap
           \/ /\ GapDone /\ gap' = NoGap /\ gap.todo = {}
              /\ cursor' = cursor \/ cursor' = gap.resume
<1> DEFINE G == \/ UNCHANGED <<cursor, gap>>
                \/ EventsIngest /\ UNCHANGED gap /\ cursor' = cursor + 1 /\ cursor' <= Len(feed)
                \/ /\ EventsGap /\ UNCHANGED cursor /\ gap' \in GapType
                   /\ gap'.resume = Len(feed) /\ gap'.todo = Ids
                \/ /\ GapTakesReply /\ UNCHANGED cursor /\ gap' \in GapType
                   /\ gap'.resume = gap.resume /\ gap'.todo = gap.todo \ {call["events"].op}
                \/ (GapFails \/ Restarts) /\ UNCHANGED cursor /\ gap' = NoGap
                \/ /\ GapDone /\ gap' = NoGap /\ gap.todo = {}
                   /\ cursor' = cursor \/ cursor' = gap.resume
<1>0. gap \in GapType /\ Len(feed) \in Nat /\ cursor \in Nat
  BY DEF Typed, BrokerTyped, GapType
<1>1. ASSUME EventsIngest PROVE G
  <2>1. UNCHANGED gap /\ cursor' = cursor + 1 /\ cursor < Len(feed)
    BY <1>1 DEF EventsIngest
  <2> QED
    BY <1>0, <1>1, <2>1
<1>2. ASSUME EventsGap PROVE G
  <2>1. UNCHANGED cursor /\ gap' = [on |-> TRUE, resume |-> Len(feed), todo |-> Ids]
    BY <1>2, Zenon DEF EventsGap
  <2>2. Ids \in SUBSET Op
    BY DEF Ids
  <2>3. gap' \in GapType /\ gap'.resume = Len(feed) /\ gap'.todo = Ids
    BY <1>0, <2>1, <2>2, GapShape, Zenon
  <2> QED
    BY <1>2, <2>1, <2>3
<1>3. ASSUME GapTakesReply PROVE G
  <2>1. UNCHANGED cursor /\ gap' = [gap EXCEPT !.todo = @ \ {call["events"].op}]
    BY <1>3 DEF GapTakesReply
  <2>2. /\ gap' \in GapType /\ gap'.resume = gap.resume
        /\ gap'.todo = gap.todo \ {call["events"].op}
    BY <1>0, <2>1 DEF GapType
  <2> QED
    BY <1>3, <2>1, <2>2
<1>4. ASSUME GapFails \/ Restarts PROVE G
  BY <1>4 DEF GapFails, Restarts
<1>5. ASSUME GapDone PROVE G
  BY <1>5 DEF GapDone, ResumeAfter
<1>6. ASSUME Works PROVE UNCHANGED <<cursor, gap>>
  BY <1>6, Zenon DEF Works, WorkBegins, WorkAdvances, WorkGets, WorkReplies,
     WorkTakesSnapshot, WorkNotFound, WorkRefused, WorkFails, WorkDone
<1>7. UNCHANGED <<cursor, work, gap>> => G
  OBVIOUS
<1>8. UNCHANGED <<cursor, gap>> => G
  OBVIOUS
<1> HIDE DEF G
<1>9. G
  BY <1>1, <1>2, <1>3, <1>4, <1>5, <1>6, <1>7, <1>8, Elsewhere DEF Next, Follows
<1> QED
  BY <1>9 DEF G

\* A new client is well typed.
LEMMA InitTyped == Init => Typed
<1> SUFFICES ASSUME Init PROVE Typed
  OBVIOUS
<1>1. BrokerTyped
  <2>1. Unborn \in Life
    BY DEF Unborn, Life
  <2> QED
    BY <2>1 DEF Init, LifecycleInit, BrokerTyped, Error
<1>2. CallTyped
  BY CallsTyped DEF Init, CallTyped, Coroutine
<1>3. inbox \in [Op -> Row]
  <2>1. PICK no : no = FALSE
    OBVIOUS
  <2>2. NoRow = [submission |-> "none", payload |-> no, snapshot |-> NoSnapshot,
                 conflict |-> no, cancel |-> "none", expired |-> no]
    BY <2>1, Zenon DEF NoRow
  <2>3. NoRow \in Row
    BY <2>1, <2>2, RowBuilt, Shapes DEF Submission, Cancel
  <2> QED
    BY <2>3 DEF Init
<1>4. work \in WorkType
  BY DEF Init, Rest, WorkType
<1>5. gap \in GapType /\ gap.resume = 0
  BY GapShape DEF Init
<1> QED
  BY <1>1, <1>2, <1>3, <1>4, <1>5 DEF Init, Typed, WorkType, GapType

\* Every step keeps the types.
LEMMA TypedStep == Typed /\ [Next]_vars => Typed'
<1> SUFFICES ASSUME Typed, [Next]_vars PROVE Typed'
  OBVIOUS
<1>1. BrokerTyped' /\ Len(feed) <= Len(feed') /\ Len(feed) \in Nat /\ Len(feed') \in Nat
  BY NextBroker DEF FeedKept, BrokerTyped, Typed
<1>2. CallTyped' /\ inbox' \in [Op -> Row] /\ work' \in WorkType
  BY NextCalls, NextKeeps, NextWork DEF InboxKept
<1>3. cursor' \in Nat /\ cursor' <= Len(feed')
  BY <1>1, GapMoves DEF Typed
<1>4. gap' \in GapType /\ gap'.resume <= Len(feed')
  BY <1>1, GapMoves, GapShape DEF Typed, GapType
<1> QED
  BY <1>1, <1>2, <1>3, <1>4 DEF Typed, WorkType, GapType

(* Every column of the inbox, every snapshot of the feed and of a reply,   *)
(* and the coroutines' state keep their types (client_store.py, client.py). *)
THEOREM InboxTypes == Spec => []TypeOK
<1>1. Typed => TypeOK
  <2> SUFFICES ASSUME Typed PROVE TypeOK
    OBVIOUS
  <2>1. floor \in 0 .. Len(feed) /\ cursor \in 0 .. Len(feed)
    BY DEF Typed, BrokerTyped
  <2>2. ASSUME NEW op \in Op
        PROVE  /\ inbox[op].submission \in Submission
               /\ inbox[op].cancel \in Cancel
               /\ inbox[op].snapshot.state \in Stage
    BY RowFields DEF Typed, Snap
  <2> QED
    BY <2>1, <2>2 DEF Typed, BrokerTyped, TypeOK, Submission, Cancel, Stage
<1> QED
  BY <1>1, InitTyped, TypedStep, PTL DEF Spec

(* No delayed reply takes an operation back: a terminal snapshot gives way *)
(* only to the definitive outcome of its own saved handle, a definitive    *)
(* one to nothing, through restarts, prunes and every order of replies     *)
(* (accept_snapshot, prune).                                               *)
THEOREM NothingIsTakenBack == Spec => TerminalKept
<1>1. Typed /\ [Next]_vars =>
        [\A op \in Op :
           LET old == inbox[op].snapshot
               new == inbox'[op].snapshot
           IN  old.state \in Terminal
               => \/ new.state = old.state /\ new.handle = old.handle
                  \/ ExactResolution(old, new)]_vars
  BY NextKeeps DEF InboxKept, RowKept, SnapshotKept
<1> QED
  BY <1>1, InitTyped, TypedStep, PTL DEF Spec, TerminalKept

-----------------------------------------------------------------------------
(***************************************************************************)
(* What the broker knows of, the client has recorded first; so no row      *)
(* begins after its outcome.                                               *)
(***************************************************************************)
LEMMA StaysRecorded ==
    ASSUME InboxKept
    PROVE  \A op \in Op : Created(op) => Created(op)'
  BY DEF InboxKept, RowKept, Created

\* The broker comes to know only operations the client has recorded.
LEMMA NextLife ==
    ASSUME Typed, Recorded, [Next]_vars
    PROVE  \A q \in Op : life'[q].state # "absent" => Created(q)
<1>0. BrokerTyped /\ \A q \in Op : life[q].state # "absent" => Created(q)
  BY DEF Typed, Recorded
<1> DEFINE G == \A q \in Op : life'[q].state # "absent" => Created(q)
<1>1. ASSUME NEW op \in Op, BrokerMoves(op) PROVE G
  BY <1>0, <1>1, MovesKeep DEF BrokerKept
<1>2. ASSUME NEW who \in Coroutine, Answers(who) PROVE G
  <2>1. PICK op \in Op : /\ op = call[who].op
                         /\ BrokerServes(call[who].name, op) \/ UNCHANGED brokerVars
    BY <1>2 DEF Answers
  <2>2. Created(op)
    BY <1>2, <2>1 DEF Answers, Recorded
  <2>3. BrokerKept(op)
    BY <1>0, <2>1, ServesKeep, QuietBroker
  <2> QED
    BY <1>0, <2>2, <2>3 DEF BrokerKept
<1>3. ASSUME NEW d \in delayed, ArrivesLate(d) PROVE G
  <2>1. d[2] \in Op /\ BrokerServes(d[1], d[2]) /\ Created(d[2])
    BY <1>3 DEF ArrivesLate, Typed, CallTyped, Recorded
  <2> QED
    BY <1>0, <2>1, ServesKeep DEF BrokerKept
<1>4. (UNCHANGED life) => G
  BY <1>0
<1> HIDE DEF G
<1>5. ASSUME Tools PROVE UNCHANGED life
  BY <1>5, Zenon DEF brokerVars, Tools, Create, ToolGets, ToolCancels, ToolTakesReply,
     ToolFails
<1>6. ASSUME Works PROVE UNCHANGED life
  BY <1>6, Zenon DEF brokerVars, Works, WorkBegins, WorkAdvances, WorkGets, WorkReplies,
     WorkTakesSnapshot, WorkNotFound, WorkRefused, WorkFails, WorkDone
<1>7. ASSUME Follows PROVE UNCHANGED life
  BY <1>7, Zenon DEF brokerVars, Follows, EventsIngest, EventsGap, GapGets, GapTakesReply,
     GapFails, GapDone
<1>8. ASSUME NEW op \in Op, PayloadExpires(op) \/ Prunes(op) PROVE UNCHANGED life
  BY <1>8, Zenon DEF brokerVars, PayloadExpires, Prunes
<1>9. ASSUME Restarts \/ Purges \/ UNCHANGED vars PROVE UNCHANGED life
  BY <1>9 DEF brokerVars, Restarts, Purges, vars
<1>10. G
  BY <1>1, <1>2, <1>3, <1>4, <1>5, <1>6, <1>7, <1>8, <1>9 DEF Next
<1> QED
  BY <1>10 DEF G

\* A request is for a recorded operation, and so is one that is given up.
AsksRecorded ==
    /\ \A who \in Coroutine : call'[who].name # "none" => Created(call'[who].op)
    /\ \A d \in delayed' : Created(d[2])

\* A coroutine turns to a request for a recorded operation.
LEMMA AsksSet ==
    ASSUME Typed, Recorded, NEW who \in Coroutine, NEW r, call' = [call EXCEPT ![who] = r],
           r.name # "none" => Created(r.op), \A d \in delayed' : Created(d[2])
    PROVE  AsksRecorded
<1>1. call'[who] = r /\ \A w \in Coroutine : w # who => call'[w] = call[w]
  BY DEF Typed, CallTyped
<1> QED
  BY <1>1 DEF AsksRecorded, Recorded

\* A coroutine is done with its request.
LEMMA AsksEnds ==
    ASSUME Typed, Recorded, NEW who \in Coroutine, call' = [call EXCEPT ![who] = NoCall],
           \A d \in delayed' : Created(d[2])
    PROVE  AsksRecorded
  BY AsksSet, CallsTyped

\* A coroutine asks for a recorded operation.
LEMMA AsksMade ==
    ASSUME Typed, Recorded, NEW who \in Coroutine, NEW name \in {"get", "post", "cancel"},
           NEW op \in Op, Created(op),
           call' = [call EXCEPT ![who] = Calls(name, op)], delayed' = delayed
    PROVE  AsksRecorded
<1>1. PICK r : r = Calls(name, op)
  OBVIOUS
<1>2. r.op = op /\ call' = [call EXCEPT ![who] = r] /\ \A d \in delayed' : Created(d[2])
  BY <1>1, CallsTyped DEF Recorded
<1> QED
  BY <1>2, AsksSet

\* A request that is given up is for a recorded operation.
LEMMA GivenUpRecorded ==
    ASSUME Typed, Recorded, NEW who \in Coroutine, NEW D \in GivenUp(who)
    PROVE  \A d \in D : Created(d[2])
<1>1. \/ D = delayed
      \/ /\ call[who].name # "none"
         /\ D = delayed \cup {<<call[who].name, call[who].op>>}
  BY DEF GivenUp
<1> QED
  BY <1>1 DEF Recorded

\* Every request, and every one on its way, is for a recorded operation.
LEMMA NextAsks ==
    ASSUME Typed, Recorded, [Next]_vars
    PROVE  AsksRecorded
<1>0. \A d \in delayed : Created(d[2])
  BY DEF Recorded
<1>a. ASSUME UNCHANGED <<call, delayed>> PROVE AsksRecorded
  BY <1>a DEF Recorded, AsksRecorded
<1> USE DEF Coroutine
<1>1. CASE UNCHANGED vars
  BY <1>a, <1>1 DEF vars
<1>2. ASSUME NEW op \in Op, BrokerMoves(op) \/ PayloadExpires(op) \/ Prunes(op) \/ Create(op)
      PROVE  AsksRecorded
  <2>1. UNCHANGED <<call, delayed>>
    BY <1>2, Zenon DEF BrokerMoves, PayloadExpires, Prunes, Create
  <2> QED
    BY <1>a, <2>1
<1>3. CASE Purges \/ EventsIngest \/ EventsGap \/ GapDone \/ WorkDone
  BY <1>a, <1>3 DEF Purges, EventsIngest, EventsGap, GapDone, WorkDone
<1>4. ASSUME NEW who \in Coroutine, Answers(who) PROVE AsksRecorded
  <2>1. PICK v : call' = [call EXCEPT ![who].reply = v]
    BY <1>4 DEF Answers
  <2>2. PICK r : r = [call[who] EXCEPT !.reply = v]
    OBVIOUS
  <2>3. r.name = call[who].name /\ r.op = call[who].op
    BY <2>2 DEF Typed, CallTyped, Request
  <2>4. call' = [call EXCEPT ![who] = r] /\ delayed' = delayed
    BY <1>4, <2>1, <2>2 DEF Answers
  <2>5. r.name # "none" => Created(r.op)
    BY <2>3 DEF Recorded
  <2> QED
    BY <1>0, <2>4, <2>5, AsksSet
<1>5. ASSUME NEW d \in delayed, ArrivesLate(d) PROVE AsksRecorded
  BY <1>5 DEF ArrivesLate, Recorded, AsksRecorded
<1>6. ASSUME NEW op \in Op, ToolGets(op) \/ ToolCancels(op) PROVE AsksRecorded
  <2>1. PICK name \in {"get", "cancel"} : call' = [call EXCEPT !["tool"] = Calls(name, op)]
    BY <1>6 DEF ToolGets, ToolCancels
  <2>2. delayed' = delayed /\ Created(op)
    BY <1>6 DEF ToolGets, ToolCancels, Created
  <2> QED
    BY <2>1, <2>2, AsksMade
<1>7. CASE ToolTakesReply
  BY <1>0, <1>7, AsksEnds DEF ToolTakesReply
<1>8. CASE ToolFails
  <2>1. call' = [call EXCEPT !["tool"] = NoCall] /\ delayed' \in GivenUp("tool")
    BY <1>8 DEF ToolFails
  <2> QED
    BY <2>1, GivenUpRecorded, AsksEnds
<1>9. ASSUME NEW at \in {"recover", "pending"}, WorkBegins(at) PROVE AsksRecorded
  BY <1>a, <1>9 DEF WorkBegins
<1>10. ASSUME NEW op \in Op, WorkGets(op) PROVE AsksRecorded
  BY <1>10, AsksMade DEF WorkGets, Recorded
<1>11. CASE WorkTakesSnapshot \/ WorkRefused
  BY <1>0, <1>11, AsksEnds DEF WorkTakesSnapshot, WorkRefused, WorkGoesOn
<1>12. CASE WorkNotFound
  <2>1. call["work"].op \in Op /\ delayed' = delayed /\ Created(call["work"].op)
    BY <1>12 DEF WorkNotFound, Answered, Typed, CallTyped, Recorded
  <2>2. \/ call' = [call EXCEPT !["work"] = NoCall]
        \/ call' = [call EXCEPT !["work"] = Calls("post", call["work"].op)]
    BY <1>12 DEF WorkNotFound, WorkGoesOn
  <2> QED
    BY <1>0, <2>1, <2>2, AsksMade, AsksEnds
<1>13. CASE WorkFails
  <2>1. call' = [call EXCEPT !["work"] = NoCall] /\ delayed' \in GivenUp("work")
    BY <1>13 DEF WorkFails
  <2> QED
    BY <2>1, GivenUpRecorded, AsksEnds
<1>14. ASSUME NEW op \in Op, GapGets(op) PROVE AsksRecorded
  BY <1>14, AsksMade DEF GapGets, Recorded
<1>15. CASE GapTakesReply \/ GapFails
  BY <1>0, <1>15, AsksEnds DEF GapTakesReply, GapFails
<1>16. CASE Restarts
  <2>1. PICK a \in GivenUp("work"), b \in GivenUp("tool") : delayed' = a \cup b
    BY <1>16 DEF Restarts
  <2>2. \A who \in Coroutine : call'[who] = NoCall
    BY <1>16 DEF Restarts
  <2>3. (\A d \in a : Created(d[2])) /\ (\A d \in b : Created(d[2]))
    BY GivenUpRecorded
  <2> QED
    BY <2>1, <2>2, <2>3, CallsTyped DEF AsksRecorded
<1> QED
  BY <1>1, <1>2, <1>3, <1>4, <1>5, <1>6, <1>7, <1>8, <1>9, <1>10, <1>11, <1>12, <1>13,
     <1>14, <1>15, <1>16
  DEF Next, Tools, Works, WorkAdvances, WorkReplies, Follows

\* Every step keeps Recorded.
LEMMA RecordedStep == Typed /\ Recorded /\ [Next]_vars => Recorded'
<1> SUFFICES ASSUME Typed, Recorded, [Next]_vars PROVE Recorded'
  OBVIOUS
<1>1. Typed' /\ \A op \in Op : Created(op) => Created(op)'
  BY TypedStep, NextKeeps, StaysRecorded
<1>2. \A op \in Op : life'[op].state # "absent" => Created(op)'
  BY <1>1, NextLife
<1>3. \A who \in Coroutine : call'[who].name # "none" => Created(call[who].op)'
  BY <1>1, NextAsks DEF AsksRecorded, Typed, CallTyped
<1>4. \A d \in delayed' : Created(d[2])'
  BY <1>1, NextAsks DEF AsksRecorded, Typed, CallTyped
<1>5. \A op \in work'.todo : Created(op)'
  BY <1>1, NextWork DEF Recorded, Typed
<1>6. ASSUME NEW op \in gap'.todo PROVE Created(op)'
  <2>1. op \in Op
    BY <1>1 DEF Typed
  <2>2. op \in gap.todo \/ op \in Ids
    BY GapMoves, GapShape
  <2> QED
    BY <1>1, <2>1, <2>2 DEF Recorded, Ids, Created
<1> QED
  BY <1>2, <1>3, <1>4, <1>5, <1>6 DEF Recorded, Created

-----------------------------------------------------------------------------
(***************************************************************************)
(* The cursor.  What it has passed, and what a recovery's watermark will   *)
(* make it pass, is settled in the inbox or still to be asked for.         *)
(***************************************************************************)
Seen == \A i \in 1 .. cursor : Definitive(i) => Settled(feed[i].op)

CursorInv == Recorded /\ ExpiredFinal /\ LastWord /\ Covered /\ Seen

\* A settled operation stays settled.
LEMMA StaysSettled ==
    ASSUME InboxKept
    PROVE  \A op \in Op : Settled(op) => Settled(op)'
<1>1. ASSUME NEW op \in Op, inbox[op].snapshot.state \in Final
      PROVE  inbox'[op].snapshot.state \in Final
  BY <1>1 DEF InboxKept, RowKept, SnapshotKept, ExactResolution, Terminal, Final
<1>2. ASSUME NEW op \in Op, inbox[op].conflict PROVE inbox'[op].conflict
  BY <1>2 DEF InboxKept, RowKept
<1> QED
  BY <1>1, <1>2 DEF Settled

\* An event names an operation and shows a snapshot.
LEMMA EventOf ==
    ASSUME Typed, NEW i \in 1 .. Len(feed)
    PROVE  feed[i].op \in Op /\ feed[i].snap \in Snap
<1>1. feed[i] \in Event
  BY DEF Typed, BrokerTyped
<1> QED
  BY <1>1 DEF Event

\* Every step keeps ExpiredFinal.
LEMMA ExpiredStep == Typed /\ ExpiredFinal /\ [Next]_vars => ExpiredFinal'
  BY NextKeeps DEF InboxKept, RowKept, ExpiredFinal

\* Every step keeps LastWord.
LEMMA LastWordStep == Typed /\ LastWord /\ [Next]_vars => LastWord'
<1> SUFFICES ASSUME Typed, LastWord, [Next]_vars,
                    NEW i \in 1 .. Len(feed'), feed'[i].snap.state \in Final
             PROVE  life'[feed'[i].op].state \in Final
  BY DEF LastWord, Definitive
<1>1. FeedKept /\ Len(feed) \in Nat /\ Len(feed') \in Nat
  BY NextBroker DEF BrokerTyped, Typed
<1>2. CASE i > Len(feed)
  BY <1>1, <1>2 DEF FeedKept
<1>3. CASE i \in 1 .. Len(feed)
  BY <1>1, <1>3, EventOf DEF FeedKept, LastWord, Definitive
<1> QED
  BY <1>1, <1>2, <1>3

\* A definitive snapshot that is taken in settles the operation.
LEMMA IngestSettles ==
    ASSUME Typed, ExpiredFinal, NEW op \in Op, NEW n \in Snap, Created(op), n.state \in Final,
           Ingest(op, n)
    PROVE  Settled(op)'
<1>1. inbox[op] \in Row /\ inbox'[op] = Ingested(inbox[op], n)
  BY IngestKeeps DEF Typed
<1>2. inbox[op].expired => inbox[op].snapshot.state \in Final
  BY DEF ExpiredFinal
<1>3. Ingested(inbox[op], n).snapshot.state \in Final \/ Ingested(inbox[op], n).conflict
  BY <1>1, <1>2, IngestedKept DEF Created
<1> QED
  BY <1>1, <1>3 DEF Settled

\* An outcome the feed has shown belongs to a recorded operation.
LEMMA DefinitiveRecorded ==
    ASSUME Typed, Recorded, LastWord, NEW i \in 1 .. Len(feed), Definitive(i)
    PROVE  /\ feed[i].op \in Op /\ Created(feed[i].op)
           /\ life[feed[i].op].state \in Final
  BY EventOf DEF LastWord, Recorded, Final

\* An event the feed has shown is shown in the next state, of an operation
\* whose outcome is there and stays.
LEMMA StillShown ==
    ASSUME Typed, CursorInv, [Next]_vars, NEW i \in 1 .. Len(feed), Definitive(i)'
    PROVE  \E o \in Op : /\ feed[i].op = o /\ feed'[i].op = o /\ Definitive(i)
                         /\ feed'[i] = feed[i] /\ Created(o)
                         /\ life[o].state \in Final /\ life'[o].state \in Final
                         /\ Settled(o) => Settled(o)'
<1>1. feed'[i] = feed[i] /\ Definitive(i)
  BY NextBroker DEF FeedKept, Definitive
<1>2. feed[i].op \in Op /\ Created(feed[i].op) /\ life[feed[i].op].state \in Final
  BY <1>1, DefinitiveRecorded DEF CursorInv
<1>3. PICK o \in Op : o = feed[i].op
  BY <1>2
<1>4. life'[o].state \in Final
  BY <1>2, <1>3, NextBroker DEF FeedKept
<1>5. Settled(o) => Settled(o)'
  BY NextKeeps, StaysSettled
<1> QED
  BY <1>1, <1>2, <1>3, <1>4, <1>5

\* Every step keeps Covered.
LEMMA CoveredStep ==
    ASSUME Typed, CursorInv, [Next]_vars
    PROVE  Covered'
<1>0. /\ Len(feed) \in Nat /\ gap.resume \in Nat /\ gap.resume <= Len(feed)
      /\ call["events"].name # "none" => gap # NoGap
      /\ \A i \in 1 .. gap.resume : Definitive(i) => CoveredAt(i)
      /\ call \in [Coroutine -> Request]
  BY DEF Typed, CallTyped, BrokerTyped, CursorInv, Covered
<1> USE DEF Coroutine
<1>1. ASSUME UNCHANGED gap, call'["events"] = call["events"] PROVE Covered'
  <2>1. ASSUME NEW i \in 1 .. gap.resume, Definitive(i)' PROVE CoveredAt(i)'
    <3>1. i \in 1 .. Len(feed)
      BY <1>0
    <3>2. PICK o \in Op : /\ feed[i].op = o /\ feed'[i].op = o /\ Definitive(i)
                          /\ Settled(o) => Settled(o)'
      BY <2>1, <3>1, StillShown
    <3>3. /\ o \in gap.todo \/ Settled(o)'
          /\ call["events"].name # "none" /\ call["events"].op = o
             => call["events"].reply = Waiting \/ call["events"].reply.state \in Final
      BY <1>0, <3>2 DEF CoveredAt
    <3> QED
      BY <1>1, <3>2, <3>3 DEF CoveredAt, Settled
  <2> QED
    BY <1>0, <1>1, <2>1 DEF Covered
<1>2. ASSUME call'["events"].name = "none", gap' = NoGap PROVE Covered'
  BY <1>2, GapShape DEF Covered
<1>3. CASE Answers("events")
  <2>1. PICK op \in Op :
           /\ op = call["events"].op
           /\ call' = [call EXCEPT !["events"].reply = SnapshotOf(op)']
    BY <1>3 DEF Answers, Typed, CallTyped
  <2>2. PICK v : v = SnapshotOf(op)'
    OBVIOUS
  <2>3. v.state = life'[op].state
    BY <2>2 DEF SnapshotOf
  <2>4. /\ call'["events"].name = call["events"].name
        /\ call'["events"].op = op /\ call'["events"].reply = v
    BY <1>0, <2>1, <2>2 DEF Request
  <2>5. UNCHANGED gap
    BY <1>3 DEF Answers
  <2>6. ASSUME NEW i \in 1 .. gap.resume, Definitive(i)' PROVE CoveredAt(i)'
    <3>1. i \in 1 .. Len(feed)
      BY <1>0
    <3>2. PICK o \in Op : /\ feed[i].op = o /\ feed'[i].op = o /\ Definitive(i)
                          /\ life'[o].state \in Final
                          /\ Settled(o) => Settled(o)'
      BY <2>6, <3>1, StillShown
    <3>3. o \in gap.todo \/ Settled(o)'
      BY <1>0, <3>2 DEF CoveredAt
    <3> QED
      BY <2>3, <2>4, <2>5, <3>2, <3>3 DEF CoveredAt, Settled
  <2> QED
    BY <1>0, <2>4, <2>5, <2>6 DEF Covered
<1>4. CASE EventsGap
  <2>1. call'["events"].name = "none"
    BY <1>0, <1>4 DEF EventsGap
  <2>2. gap'.resume = Len(feed) /\ gap'.todo = Ids
    <3>1. gap' = [on |-> TRUE, resume |-> Len(feed), todo |-> Ids]
      BY <1>4, Zenon DEF EventsGap
    <3>2. Ids \in SUBSET Op
      BY DEF Ids
    <3> QED
      BY <1>0, <3>1, <3>2, GapShape, Zenon
  <2>3. ASSUME NEW i \in 1 .. Len(feed), Definitive(i)' PROVE CoveredAt(i)'
    <3>1. PICK o \in Op : feed'[i].op = o /\ Created(o) /\ (Settled(o) => Settled(o)')
      BY <2>3, StillShown
    <3>2. o \in Ids \/ Settled(o)
      BY <3>1 DEF Ids, Created, Settled, CursorInv, ExpiredFinal
    <3> QED
      BY <2>1, <2>2, <3>1, <3>2 DEF CoveredAt, Settled
  <2> QED
    BY <2>1, <2>2, <2>3 DEF Covered
<1>5. ASSUME NEW op \in Op, GapGets(op) PROVE Covered'
  <2>1. call'["events"].reply = Waiting /\ UNCHANGED gap
    BY <1>0, <1>5, CallsTyped DEF GapGets
  <2>2. gap # NoGap
    BY <1>5, GapShape DEF GapGets
  <2>3. ASSUME NEW i \in 1 .. gap.resume, Definitive(i)' PROVE CoveredAt(i)'
    <3>1. i \in 1 .. Len(feed)
      BY <1>0
    <3>2. PICK o \in Op : /\ feed[i].op = o /\ feed'[i].op = o /\ Definitive(i)
                          /\ Settled(o) => Settled(o)'
      BY <2>3, <3>1, StillShown
    <3>3. o \in gap.todo \/ Settled(o)'
      BY <1>0, <3>2 DEF CoveredAt
    <3> QED
      BY <2>1, <3>2, <3>3 DEF CoveredAt, Settled
  <2> QED
    BY <2>1, <2>2, <2>3 DEF Covered
<1>6. CASE GapTakesReply
  <2>1. PICK c : c = call["events"]
    OBVIOUS
  <2>2. /\ c.name # "none" /\ c.reply \notin {Waiting, Refused}
        /\ IF c.reply = NotFound THEN UNCHANGED inbox ELSE Ingest(c.op, c.reply)
    BY <1>6, <2>1 DEF GapTakesReply, Answered, Typed, CallTyped
  <2>3. c.op \in Op /\ c.reply \in Snap
    BY <2>1, <2>2, Replied
  <2>4. call'["events"].name = "none"
    BY <1>0, <1>6, CallsTyped DEF GapTakesReply
  <2>5. gap'.resume = gap.resume /\ gap'.todo = gap.todo \ {c.op}
    BY <1>6, <2>1 DEF GapTakesReply, Typed
  <2>6. ASSUME NEW i \in 1 .. gap.resume, Definitive(i)' PROVE CoveredAt(i)'
    <3>1. i \in 1 .. Len(feed)
      BY <1>0
    <3>2. PICK o \in Op : /\ feed[i].op = o /\ feed'[i].op = o /\ Definitive(i)
                          /\ Created(o)
                          /\ Settled(o) => Settled(o)'
      BY <2>6, <3>1, StillShown
    <3>3. CoveredAt(i)
      BY <1>0, <3>2
    <3>4. CASE o = c.op
      <4>1. c.reply.state \in Final
        BY <2>1, <2>2, <3>2, <3>3, <3>4 DEF CoveredAt
      <4>2. c.reply # NotFound
        BY <4>1, Shapes DEF NotFound, Final
      <4>3. Settled(o)'
        BY <2>2, <2>3, <3>2, <3>4, <4>1, <4>2, IngestSettles DEF CursorInv
      <4> QED
        BY <2>4, <3>2, <4>3 DEF CoveredAt, Settled
    <3>5. CASE o # c.op
      <4>1. o \in gap'.todo \/ Settled(o)'
        BY <2>5, <3>2, <3>3, <3>5 DEF CoveredAt
      <4> QED
        BY <2>4, <3>2, <4>1 DEF CoveredAt, Settled
    <3> QED
      BY <3>4, <3>5
  <2> QED
    BY <2>4, <2>5, <2>6 DEF Covered
<1>7. CASE GapFails
  BY <1>0, <1>2, <1>7, CallsTyped DEF GapFails
<1>8. CASE GapDone
  BY <1>0, <1>2, <1>8, CallsTyped DEF GapDone, Idle
<1>9. CASE Restarts
  BY <1>2, <1>9, CallsTyped DEF Restarts
<1>10. ASSUME NEW who \in {"work", "tool"}, Answers(who) PROVE Covered'
  <2>1. UNCHANGED gap /\ call'["events"] = call["events"]
    BY <1>0, <1>10 DEF Answers
  <2> QED
    BY <1>1, <2>1
<1>11. ASSUME Tools PROVE UNCHANGED gap /\ call'["events"] = call["events"]
  BY <1>0, <1>11 DEF Tools, Create, ToolGets, ToolCancels, ToolTakesReply, ToolFails
<1>12. ASSUME Works PROVE UNCHANGED gap /\ call'["events"] = call["events"]
  BY <1>0, <1>12 DEF Works, WorkBegins, WorkAdvances, WorkGets, WorkReplies, WorkGoesOn,
     WorkTakesSnapshot, WorkNotFound, WorkRefused, WorkFails, WorkDone
<1>13. ASSUME NEW op \in Op, BrokerMoves(op) \/ PayloadExpires(op) \/ Prunes(op)
       PROVE  UNCHANGED gap /\ call'["events"] = call["events"]
  BY <1>13, Zenon DEF BrokerMoves, PayloadExpires, Prunes
<1>14. ASSUME NEW d \in delayed, ArrivesLate(d)
       PROVE  UNCHANGED gap /\ call'["events"] = call["events"]
  BY <1>14, Zenon DEF ArrivesLate
<1>15. ASSUME Purges \/ EventsIngest \/ UNCHANGED vars
       PROVE  UNCHANGED gap /\ call'["events"] = call["events"]
  BY <1>15 DEF Purges, EventsIngest, vars
<1> QED
  BY <1>1, <1>3, <1>4, <1>5, <1>6, <1>7, <1>8, <1>9, <1>10, <1>11, <1>12, <1>13, <1>14,
     <1>15
  DEF Next, Follows

\* Every step keeps Seen: an event is taken in, or the watermark is covered.
LEMMA SeenStep ==
    ASSUME Typed, CursorInv, [Next]_vars
    PROVE  Seen'
<1>0. /\ Len(feed) \in Nat /\ cursor \in Nat /\ cursor <= Len(feed)
      /\ gap.resume \in Nat /\ gap.resume <= Len(feed)
  BY DEF Typed, BrokerTyped
<1>1. ASSUME NEW i \in 1 .. cursor, Definitive(i)' PROVE Settled(feed[i].op)'
  <2>1. PICK o \in Op : /\ feed[i].op = o /\ feed'[i].op = o /\ Definitive(i)
                        /\ Settled(o) => Settled(o)'
    BY <1>0, <1>1, StillShown
  <2>2. Settled(o)'
    BY <2>1 DEF CursorInv, Seen
  <2> QED
    BY <2>1, <2>2 DEF Settled
<1>2. CASE UNCHANGED cursor
  BY <1>1, <1>2 DEF Seen
<1>3. CASE EventsIngest
  <2>1. /\ cursor' = cursor + 1 /\ cursor + 1 \in 1 .. Len(feed)
        /\ Ingest(feed[cursor + 1].op, feed[cursor + 1].snap)
    BY <1>0, <1>3 DEF EventsIngest
  <2>2. PICK n : n = cursor + 1
    OBVIOUS
  <2>3. ASSUME Definitive(n)' PROVE Settled(feed[n].op)'
    <3>1. PICK o \in Op : /\ feed[n].op = o /\ feed'[n].op = o /\ Definitive(n) /\ Created(o)
      BY <2>1, <2>2, <2>3, StillShown
    <3>2. feed[n].snap \in Snap /\ feed[n].snap.state \in Final
      BY <2>1, <2>2, <3>1, EventOf DEF Definitive
    <3>3. Settled(o)'
      BY <2>1, <2>2, <3>1, <3>2, IngestSettles DEF CursorInv
    <3> QED
      BY <3>1, <3>3 DEF Settled
  <2>4. \A i \in 1 .. cursor' : i \in 1 .. cursor \/ i = n
    BY <1>0, <2>1, <2>2
  <2> QED
    BY <1>1, <2>3, <2>4 DEF Seen
<1>4. CASE GapDone /\ cursor' = gap.resume /\ gap.todo = {}
  <2>1. ASSUME NEW i \in 1 .. gap.resume, Definitive(i)' PROVE Settled(feed[i].op)'
    <3>1. PICK o \in Op : /\ feed[i].op = o /\ feed'[i].op = o /\ Definitive(i)
                          /\ Settled(o) => Settled(o)'
      BY <1>0, <2>1, StillShown
    <3>2. Settled(o)'
      BY <1>4, <3>1 DEF CursorInv, Covered, CoveredAt
    <3> QED
      BY <3>1, <3>2 DEF Settled
  <2> QED
    BY <1>4, <2>1 DEF Seen
<1> QED
  BY <1>2, <1>3, <1>4, GapMoves

\* The invariant behind NothingSkipped is inductive.
LEMMA CursorStep == Typed /\ CursorInv /\ [Next]_vars => CursorInv'
  BY RecordedStep, ExpiredStep, LastWordStep, CoveredStep, SeenStep DEF CursorInv

\* It holds of a new client, which has seen and published nothing.
LEMMA InitCursor == Init => CursorInv
<1> SUFFICES ASSUME Init PROVE CursorInv
  OBVIOUS
<1>1. \A op \in Op : life[op].state = "absent" /\ inbox[op] = NoRow /\ ~inbox[op].expired
  BY DEF Init, LifecycleInit, Unborn, NoRow
<1>2. Len(feed) = 0 /\ cursor = 0 /\ gap.resume = 0 /\ gap.todo = {} /\ work.todo = {}
  BY GapShape DEF Init, Rest
<1>3. \A who \in Coroutine : call[who].name = "none"
  BY CallsTyped DEF Init
<1> QED
  BY <1>1, <1>2, <1>3
  DEF Init, CursorInv, Recorded, ExpiredFinal, LastWord, Covered, Seen, Coroutine

(* The cursor passes no outcome by: a definitive event at or below it is   *)
(* in the inbox, or the inbox has kept an outcome it contradicts, also     *)
(* when the event was purged and only the GETs of the recovery showed it,  *)
(* whatever is published, lost or restarted meanwhile (_events,            *)
(* accept_snapshot, advance).                                              *)
THEOREM NoOutcomeIsSkipped == Spec => []NothingSkipped
<1>1. Seen => NothingSkipped
  BY DEF Seen, NothingSkipped, Settled, Definitive
<1>2. Init => Typed /\ CursorInv
  BY InitTyped, InitCursor
<1>3. (Typed /\ CursorInv) /\ [Next]_vars => (Typed /\ CursorInv)'
  BY TypedStep, CursorStep
<1>4. CursorInv => Seen
  BY DEF CursorInv
<1> QED
  BY <1>1, <1>2, <1>3, <1>4, PTL DEF Spec

-----------------------------------------------------------------------------
(***************************************************************************)
(* What the inbox shows is so.  A snapshot is taken when the broker        *)
(* answers or publishes; it may wait in the feed, in a reply or in the     *)
(* inbox while the operation moves on, but a definitive state and a handle *)
(* stay true of it.                                                        *)
(***************************************************************************)
Agrees(op, snap) ==
    /\ snap.state \in Final => life[op].state = snap.state
    /\ snap.handle # NoHandle => life[op].state # "absent" /\ life[op].handle = snap.handle

\* The same of the next state.
AgreesThen(op, snap) ==
    /\ snap.state \in Final => life'[op].state = snap.state
    /\ snap.handle # NoHandle => life'[op].state # "absent" /\ life'[op].handle = snap.handle

Truth ==
    /\ \A op \in Op : life[op].state = "absent" => life[op].handle = NoHandle
    /\ \A op \in Op : Agrees(op, inbox[op].snapshot)
    /\ \A i \in 1 .. Len(feed) : Agrees(feed[i].op, feed[i].snap)
    /\ \A who \in Coroutine : call[who].op \in Op => Agrees(call[who].op, call[who].reply)

\* Of the inbox alone: its definitive states and its handles are the broker's.
InboxTrue ==
    \A op \in Op :
        LET s == inbox[op].snapshot
        IN  /\ s.state \in Final => life[op].state = s.state
            /\ s.handle # NoHandle => life[op].handle = s.handle

\* The broker moves along the lifecycle, and publishes what it then has.
BrokerTells ==
    /\ [LifecycleNext]_life
    /\ \/ feed' = feed
       \/ \E op \in Op : feed' = Append(feed, [op |-> op, snap |-> SnapshotOf(op)'])

\* Serving a request is a move of the lifecycle or none.
LEMMA ServesTell ==
    ASSUME NEW op \in Op, NEW name, BrokerServes(name, op)
    PROVE  BrokerTells
<1>1. CASE UNCHANGED brokerVars
  BY <1>1 DEF brokerVars, BrokerTells
<1>2. ASSUME NEW lane \in Lane, LifeAccept(op, lane), NEW code, Publishes(op, code)
      PROVE  BrokerTells
  BY <1>2 DEF Publishes, BrokerTells, LifecycleNext
<1>3. ASSUME LifeCancel(op), NEW code, Publishes(op, code)
      PROVE  BrokerTells
  BY <1>3 DEF Publishes, BrokerTells, LifecycleNext
<1> QED
  BY <1>1, <1>2, <1>3 DEF BrokerServes, BrokerAccepts, BrokerCancels

\* So is every move the broker makes of its own.
LEMMA MovesTell ==
    ASSUME NEW op \in Op, BrokerMoves(op)
    PROVE  BrokerTells
<1> DEFINE Moves == \/ \E to \in {"running", "failed"} : LifeClaim(op, to)
                    \/ \E h \in Handle : LifeSaveHandle(op, h)
                    \/ \E to \in Terminal : LifeFinish(op, to)
<1>1. Moves
  BY InboxValues DEF BrokerMoves, Terminal
<1>2. PICK code : Publishes(op, code)
  BY DEF BrokerMoves
<1>3. LifecycleNext
  BY <1>1 DEF LifecycleNext
<1> QED
  BY <1>2, <1>3 DEF Publishes, BrokerTells

\* Every step.
LEMMA NextTells == ASSUME Typed, [Next]_vars PROVE BrokerTells
<1>1. ASSUME UNCHANGED <<life, feed>> PROVE BrokerTells
  BY <1>1 DEF BrokerTells
<1>2. ASSUME NEW who \in Coroutine, Answers(who) PROVE BrokerTells
  <2>1. PICK op \in Op : BrokerServes(call[who].name, op) \/ UNCHANGED brokerVars
    BY <1>2 DEF Answers
  <2> QED
    BY <1>1, <2>1, ServesTell DEF brokerVars
<1>3. ASSUME NEW d \in delayed, ArrivesLate(d) PROVE BrokerTells
  <2>1. d[2] \in Op /\ BrokerServes(d[1], d[2])
    BY <1>3 DEF ArrivesLate, Typed, CallTyped
  <2> QED
    BY <2>1, ServesTell
<1>5. ASSUME Tools PROVE UNCHANGED <<life, feed>>
  BY <1>5, Zenon DEF brokerVars, Tools, Create, ToolGets, ToolCancels, ToolTakesReply,
     ToolFails
<1>6. ASSUME Works PROVE UNCHANGED <<life, feed>>
  BY <1>6, Zenon DEF brokerVars, Works, WorkBegins, WorkAdvances, WorkGets, WorkReplies,
     WorkTakesSnapshot, WorkNotFound, WorkRefused, WorkFails, WorkDone
<1>7. ASSUME Follows PROVE UNCHANGED <<life, feed>>
  BY <1>7, Zenon DEF brokerVars, Follows, EventsIngest, EventsGap, GapGets, GapTakesReply,
     GapFails, GapDone
<1>8. ASSUME NEW op \in Op, PayloadExpires(op) \/ Prunes(op) PROVE UNCHANGED <<life, feed>>
  BY <1>8, Zenon DEF brokerVars, PayloadExpires, Prunes
<1>9. ASSUME Restarts \/ Purges \/ UNCHANGED vars PROVE UNCHANGED <<life, feed>>
  BY <1>9 DEF brokerVars, Restarts, Purges, vars
<1> QED
  BY <1>1, <1>2, <1>3, <1>5, <1>6, <1>7, <1>8, <1>9, MovesTell DEF Next

\* A snapshot that agreed goes on to agree, and one taken now agrees.
LEMMA StillAgrees ==
    ASSUME Typed, Truth, BrokerTells, NEW op \in Op
    PROVE  /\ \A snap : Agrees(op, snap) => AgreesThen(op, snap)
           /\ \A snap : snap.state = life'[op].state /\ snap.handle = life'[op].handle
                        => AgreesThen(op, snap)
           /\ life'[op].state = "absent" => life'[op].handle = NoHandle
<1>1. life \in [Op -> Life] /\ [LifecycleNext]_life
  BY DEF Typed, BrokerTyped, BrokerTells
<1>2. life'[op].state = "absent" => life'[op].handle = NoHandle
  BY <1>1, RowsBorn DEF Truth
<1>3. ASSUME NEW snap, snap.state = life'[op].state, snap.handle = life'[op].handle
      PROVE  AgreesThen(op, snap)
  BY <1>2, <1>3 DEF AgreesThen
<1>4. ASSUME NEW snap, Agrees(op, snap) PROVE AgreesThen(op, snap)
  <2>1. CASE life[op].state = "absent"
    BY <1>4, <2>1 DEF Agrees, AgreesThen, Final
  <2>2. CASE life[op].state # "absent"
    BY <1>1, <1>4, <2>2, RowsLater DEF Agrees, AgreesThen
  <2> QED
    BY <2>1, <2>2
<1> QED
  BY <1>2, <1>3, <1>4

\* A reply is outstanding, a refusal, the one that was there, or new.
LEMMA NextReplies ==
    ASSUME Typed, [Next]_vars, NEW w \in Coroutine
    PROVE  \/ call'[w].reply \in {Waiting, Refused}
           \/ call'[w] = call[w]
           \/ \E op \in Op : call'[w].op = op /\ call'[w].reply = SnapshotOf(op)'
<1>0. call \in [Coroutine -> Request] /\ NoCall.reply = Waiting
  BY DEF Typed, CallTyped, NoCall
<1> DEFINE G == \/ call'[w].reply \in {Waiting, Refused}
                \/ call'[w] = call[w]
                \/ \E op \in Op : call'[w].op = op /\ call'[w].reply = SnapshotOf(op)'
<1> SUFFICES G
  OBVIOUS
<1>1. ASSUME UNCHANGED call PROVE G
  BY <1>1
<1>2. ASSUME NEW who \in Coroutine, call' = [call EXCEPT ![who] = NoCall] PROVE G
  BY <1>0, <1>2
<1>3. ASSUME NEW who \in Coroutine, NEW name, NEW op,
             call' = [call EXCEPT ![who] = Calls(name, op)]
      PROVE  G
  BY <1>0, <1>3 DEF Calls
<1>4. ASSUME NEW who \in Coroutine, Answers(who) PROVE G
  <2>1. PICK op \in Op : /\ op = call[who].op
                         /\ \/ call' = [call EXCEPT ![who].reply = SnapshotOf(op)']
                            \/ call' = [call EXCEPT ![who].reply = Refused]
    BY <1>4 DEF Answers
  <2>2. PICK v : v \in {SnapshotOf(op)', Refused} /\ call' = [call EXCEPT ![who].reply = v]
    BY <2>1
  <2>3. w # who => call'[w] = call[w]
    BY <1>0, <2>2
  <2>4. w = who => call'[w].op = op /\ call'[w].reply = v
    BY <1>0, <2>1, <2>2 DEF Request
  <2> QED
    BY <2>2, <2>3, <2>4
<1>5. CASE Restarts
  BY <1>0, <1>5 DEF Restarts
<1>6. ASSUME NEW op \in Op, ToolGets(op) \/ ToolCancels(op) \/ WorkGets(op) \/ GapGets(op)
      PROVE  G
  BY <1>3, <1>6 DEF ToolGets, ToolCancels, WorkGets, GapGets, Coroutine
<1>7. CASE WorkNotFound
  BY <1>2, <1>3, <1>7 DEF WorkNotFound, WorkGoesOn, Coroutine
<1>8. CASE ToolTakesReply \/ ToolFails \/ WorkTakesSnapshot \/ WorkRefused \/ WorkFails
           \/ GapTakesReply \/ GapFails
  BY <1>2, <1>8 DEF ToolTakesReply, ToolFails, WorkTakesSnapshot, WorkRefused, WorkFails,
     WorkGoesOn, GapTakesReply, GapFails, Coroutine
<1>9. CASE \/ UNCHANGED vars \/ Purges \/ WorkDone \/ EventsIngest \/ EventsGap \/ GapDone
           \/ \E at \in {"recover", "pending"} : WorkBegins(at)
           \/ \E d \in delayed : ArrivesLate(d)
           \/ \E op \in Op : BrokerMoves(op) \/ PayloadExpires(op) \/ Prunes(op) \/ Create(op)
  <2>1. UNCHANGED call
    BY <1>9, Zenon DEF vars, Purges, WorkDone, EventsIngest, EventsGap, GapDone, WorkBegins,
       ArrivesLate, BrokerMoves, PayloadExpires, Prunes, Create
  <2> QED
    BY <1>1, <2>1
<1> HIDE DEF G
<1> QED
  BY <1>4, <1>5, <1>6, <1>7, <1>8, <1>9
  DEF Next, Tools, Works, WorkAdvances, WorkReplies, Follows

\* What a row may come to show: the outcome it showed, or one it is told.
Told(op, snap) ==
    \/ \E who \in Coroutine : call[who].op = op /\ call[who].reply = snap
    \/ \E i \in 1 .. Len(feed) : feed[i].op = op /\ feed[i].snap = snap

Learns(op, old, new) ==
    \/ new.snapshot.state = old.snapshot.state /\ new.snapshot.handle = old.snapshot.handle
    \/ Told(op, new.snapshot)

InboxLearns == \A op \in Op : Learns(op, inbox[op], inbox'[op])

\* A row takes over the snapshot it is given, or keeps its own.
LEMMA IngestedLearns ==
    ASSUME NEW r \in Row, NEW n \in Snap
    PROVE  Ingested(r, n).snapshot \in {r.snapshot, n}
<1>1. PICK no : no = FALSE
  OBVIOUS
<1>2. PICK k : k = (r.conflict \/ Contradicts(r.snapshot, n))
  OBVIOUS
<1>3. \/ Ingested(r, n) = r
      \/ Ingested(r, n) = [r EXCEPT !.conflict = k]
      \/ Ingested(r, n) = [r EXCEPT !.snapshot = n, !.submission = "accepted", !.payload = no]
  BY <1>1, <1>2, Zenon DEF Ingested
<1>4. [r EXCEPT !.conflict = k].snapshot = r.snapshot
  BY DEF Row
<1>5. [r EXCEPT !.snapshot = n, !.submission = "accepted", !.payload = no].snapshot = n
  BY DEF Row
<1> QED
  BY <1>3, <1>4, <1>5

\* An action that changes no row.
LEMMA QuietLearns == ASSUME UNCHANGED inbox PROVE InboxLearns
  BY DEF InboxLearns, Learns

\* An action that changes one row.
LEMMA RowLearns ==
    ASSUME inbox \in [Op -> Row], NEW op \in Op, NEW r, inbox' = [inbox EXCEPT ![op] = r],
           Learns(op, inbox[op], r)
    PROVE  InboxLearns
<1>1. inbox'[op] = r /\ \A q \in Op : q # op => inbox'[q] = inbox[q]
  OBVIOUS
<1> QED
  BY <1>1 DEF InboxLearns, Learns

\* Taking in what the operation's row was told.
LEMMA IngestLearns ==
    ASSUME inbox \in [Op -> Row], NEW op \in Op, NEW n \in Snap, Ingest(op, n), Told(op, n)
    PROVE  InboxLearns
<1>1. PICK r : r = Ingested(inbox[op], n)
  OBVIOUS
<1>2. inbox' = [inbox EXCEPT ![op] = r]
  BY <1>1 DEF Ingest
<1>3. r.snapshot \in {inbox[op].snapshot, n}
  BY <1>1, IngestedLearns
<1>4. Learns(op, inbox[op], r)
  BY <1>3 DEF Learns
<1> QED
  BY <1>2, <1>4, RowLearns

\* Taking in a reply of the coroutine that asked.
LEMMA ReplyLearns ==
    ASSUME Typed, NEW who \in Coroutine, call[who].name # "none",
           call[who].reply \notin {Waiting, Refused}, Ingest(call[who].op, call[who].reply)
    PROVE  InboxLearns
<1>1. call[who].op \in Op /\ call[who].reply \in Snap /\ inbox \in [Op -> Row]
  BY Replied DEF Typed
<1>2. Told(call[who].op, call[who].reply)
  BY DEF Told
<1> QED
  BY <1>1, <1>2, IngestLearns

\* gateway_get and gateway_cancel.
LEMMA ToolReplyLearns == ASSUME Typed, ToolTakesReply PROVE InboxLearns
<1>1. PICK c : c = call["tool"]
  OBVIOUS
<1>2. c.op \in Op /\ c.reply \in Snap /\ inbox \in [Op -> Row] /\ Told(c.op, c.reply)
  <2>1. /\ "tool" \in Coroutine /\ call["tool"].name # "none"
        /\ call["tool"].reply \notin {Waiting, Refused}
    BY DEF ToolTakesReply, Typed, CallTyped, Coroutine
  <2> QED
    BY <1>1, <2>1, Replied DEF Typed, Told
<1>3. PICK b : b = IF c.reply = NotFound THEN inbox[c.op] ELSE Ingested(inbox[c.op], c.reply)
  OBVIOUS
<1>4. b \in Row /\ b.snapshot \in {inbox[c.op].snapshot, c.reply}
  BY <1>2, <1>3, IngestedKept, IngestedLearns DEF RowKept
<1>5. PICK k : k = IF c.name # "cancel" THEN b.cancel
                   ELSE IF c.reply = NotFound THEN "outcome_unknown" ELSE "requested"
  OBVIOUS
<1>6. PICK r : r = [b EXCEPT !.cancel = k]
  OBVIOUS
<1>7. inbox' = [inbox EXCEPT ![c.op] = r]
  BY <1>1, <1>3, <1>5, <1>6 DEF ToolTakesReply
<1>8. r.snapshot = b.snapshot
  BY <1>4, <1>6 DEF Row
<1>9. Learns(c.op, inbox[c.op], r)
  BY <1>2, <1>4, <1>8 DEF Learns
<1> QED
  BY <1>2, <1>7, <1>9, RowLearns

\* Every step.
LEMMA NextLearns == ASSUME Typed, [Next]_vars PROVE InboxLearns
<1>0. inbox \in [Op -> Row]
  BY DEF Typed
<1>1. ASSUME NEW op \in Op, NEW r, inbox' = [inbox EXCEPT ![op] = r],
             r.snapshot.state = inbox[op].snapshot.state,
             r.snapshot.handle = inbox[op].snapshot.handle
      PROVE  InboxLearns
  BY <1>0, <1>1, RowLearns DEF Learns
<1>2. ASSUME NEW op \in Op, Create(op) PROVE InboxLearns
  <2>1. PICK yes : yes = TRUE
    OBVIOUS
  <2>2. PICK r : r = [NoRow EXCEPT !.submission = "pending", !.payload = yes]
    OBVIOUS
  <2>3. inbox' = [inbox EXCEPT ![op] = r] /\ inbox[op] = NoRow
    BY <1>2, <2>1, <2>2, Zenon DEF Create
  <2>4. r.snapshot = NoRow.snapshot
    BY <2>2 DEF NoRow
  <2> QED
    BY <1>1, <2>3, <2>4
<1>3. ASSUME NEW op \in Op, NEW k, inbox' = [inbox EXCEPT ![op].cancel = k] PROVE InboxLearns
  <2>1. PICK r : r = [inbox[op] EXCEPT !.cancel = k]
    OBVIOUS
  <2>2. inbox' = [inbox EXCEPT ![op] = r]
    BY <1>0, <1>3, <2>1
  <2>3. r.snapshot = inbox[op].snapshot
    BY <1>0, <2>1 DEF Row
  <2> QED
    BY <1>1, <2>2, <2>3
<1>4. ASSUME NEW op \in Op, NEW k, inbox' = [inbox EXCEPT ![op].submission = k]
      PROVE  InboxLearns
  <2>1. PICK r : r = [inbox[op] EXCEPT !.submission = k]
    OBVIOUS
  <2>2. inbox' = [inbox EXCEPT ![op] = r]
    BY <1>0, <1>4, <2>1
  <2>3. r.snapshot = inbox[op].snapshot
    BY <1>0, <2>1 DEF Row
  <2> QED
    BY <1>1, <2>2, <2>3
<1>5. ASSUME NEW op \in Op, ToolCancels(op) PROVE InboxLearns
  BY <1>3, <1>5 DEF ToolCancels
<1>6. CASE ToolFails
  <2>1. call["tool"].name = "cancel" => call["tool"].op \in Op
    BY DEF Typed, CallTyped, Coroutine
  <2>2. CASE call["tool"].name = "cancel"
    BY <1>3, <1>6, <2>1, <2>2 DEF ToolFails
  <2>3. CASE call["tool"].name # "cancel"
    BY <1>6, <2>3, QuietLearns DEF ToolFails
  <2> QED
    BY <2>2, <2>3
<1>7. CASE WorkTakesSnapshot
  <2>1. /\ "work" \in Coroutine /\ call["work"].name # "none"
        /\ call["work"].reply \notin {Waiting, Refused}
        /\ Ingest(call["work"].op, call["work"].reply)
    BY <1>7 DEF WorkTakesSnapshot, Coroutine
  <2> QED
    BY <2>1, ReplyLearns
<1>8. CASE WorkNotFound
  <2>1. call["work"].op \in Op
    BY <1>8 DEF WorkNotFound, Answered, Typed, CallTyped, Coroutine
  <2>2. \/ UNCHANGED inbox
        \/ inbox' = [inbox EXCEPT ![call["work"].op].submission = "outcome_unknown"]
    BY <1>8 DEF WorkNotFound
  <2> QED
    BY <1>4, <2>1, <2>2, QuietLearns
<1>9. CASE WorkRefused
  <2>1. call["work"].op \in Op
    BY <1>9 DEF WorkRefused, Answered, Typed, CallTyped, Coroutine
  <2> QED
    BY <1>4, <1>9, <2>1 DEF WorkRefused
<1>10. CASE EventsIngest
  <2>1. cursor + 1 \in 1 .. Len(feed) /\ feed[cursor + 1] \in Event
    BY <1>10 DEF EventsIngest, Typed, BrokerTyped
  <2>2. feed[cursor + 1].op \in Op /\ feed[cursor + 1].snap \in Snap
    BY <2>1 DEF Event
  <2>3. Told(feed[cursor + 1].op, feed[cursor + 1].snap)
    BY <2>1 DEF Told
  <2> QED
    BY <1>0, <1>10, <2>2, <2>3, IngestLearns DEF EventsIngest
<1>11. CASE GapTakesReply
  <2>1. /\ "events" \in Coroutine /\ call["events"].name # "none"
        /\ call["events"].reply \notin {Waiting, Refused}
    BY <1>11 DEF GapTakesReply, Answered, Typed, CallTyped, Coroutine
  <2>2. UNCHANGED inbox \/ Ingest(call["events"].op, call["events"].reply)
    BY <1>11 DEF GapTakesReply
  <2> QED
    BY <2>1, <2>2, ReplyLearns, QuietLearns
<1>12. ASSUME NEW op \in Op, PayloadExpires(op) PROVE InboxLearns
  <2>1. PICK no : no = FALSE
    OBVIOUS
  <2>2. PICK r : r = [inbox[op] EXCEPT !.payload = no]
    OBVIOUS
  <2>3. inbox' = [inbox EXCEPT ![op] = r]
    BY <1>12, <2>1, <2>2, Zenon DEF PayloadExpires
  <2>4. r.snapshot = inbox[op].snapshot
    BY <1>0, <2>2 DEF Row
  <2> QED
    BY <1>1, <2>3, <2>4
<1>13. ASSUME NEW op \in Op, Prunes(op) PROVE InboxLearns
  <2>1. PICK yes : yes = TRUE
    OBVIOUS
  <2>2. PICK r : r = [inbox[op] EXCEPT !.expired = yes, !.snapshot.error = "none"]
    OBVIOUS
  <2>3. inbox' = [inbox EXCEPT ![op].expired = yes, ![op].snapshot.error = "none"]
    BY <1>13, <2>1, Zenon DEF Prunes
  <2>4. inbox' = [inbox EXCEPT ![op] = r]
    BY <1>0, <2>2, <2>3
  <2>5. /\ r.snapshot.state = inbox[op].snapshot.state
        /\ r.snapshot.handle = inbox[op].snapshot.handle
    BY <1>0, <2>2 DEF Row, Snap
  <2> QED
    BY <1>1, <2>4, <2>5
<1>14. CASE Restarts
  <2>1. ASSUME NEW op \in Op PROVE inbox'[op].snapshot = inbox[op].snapshot
    <3>1. \/ inbox'[op] = inbox[op]
          \/ inbox'[op] = [inbox[op] EXCEPT !.cancel = "outcome_unknown"]
      BY <1>14, <2>1 DEF Restarts
    <3>2. [inbox[op] EXCEPT !.cancel = "outcome_unknown"].snapshot = inbox[op].snapshot
      BY <1>0 DEF Row
    <3> QED
      BY <3>1, <3>2
  <2> QED
    BY <2>1 DEF InboxLearns, Learns
<1>15. CASE \/ UNCHANGED vars \/ Purges \/ WorkDone \/ WorkFails \/ EventsGap \/ GapFails
            \/ GapDone
            \/ \E at \in {"recover", "pending"} : WorkBegins(at)
            \/ \E d \in delayed : ArrivesLate(d)
            \/ \E who \in Coroutine : Answers(who)
            \/ \E op \in Op : BrokerMoves(op) \/ ToolGets(op) \/ WorkGets(op) \/ GapGets(op)
  <2>1. UNCHANGED inbox
    BY <1>15, Zenon DEF vars, Purges, WorkDone, WorkFails, EventsGap, GapFails, GapDone,
       WorkBegins, ArrivesLate, Answers, BrokerMoves, ToolGets, WorkGets, GapGets
  <2> QED
    BY <2>1, QuietLearns
<1> QED
  BY <1>2, <1>5, <1>6, <1>7, <1>8, <1>9, <1>10, <1>11, <1>12, <1>13, <1>14, <1>15,
     ToolReplyLearns
  DEF Next, Tools, Works, WorkAdvances, WorkReplies, Follows

\* A step keeps the truth of everything that is told.
LEMMA TruthStep == Typed /\ Truth /\ [Next]_vars => Truth'
<1> SUFFICES ASSUME Typed, Truth, [Next]_vars PROVE Truth'
  OBVIOUS
<1>1. BrokerTells /\ InboxLearns
  BY NextTells, NextLearns
<1>2. feed \in Seq(Event)
  BY DEF Typed, BrokerTyped
<1>3. \A op \in Op : life'[op].state = "absent" => life'[op].handle = NoHandle
  BY <1>1, StillAgrees
<1>4. ASSUME NEW op \in Op PROVE AgreesThen(op, inbox'[op].snapshot)
  <2>1. ASSUME NEW snap, Told(op, snap) PROVE Agrees(op, snap)
    BY <2>1 DEF Told, Truth
  <2>2. CASE Told(op, inbox'[op].snapshot)
    BY <1>1, <2>1, <2>2, StillAgrees
  <2>3. CASE /\ inbox'[op].snapshot.state = inbox[op].snapshot.state
             /\ inbox'[op].snapshot.handle = inbox[op].snapshot.handle
    <3>1. Agrees(op, inbox'[op].snapshot)
      BY <2>3 DEF Agrees, Truth
    <3> QED
      BY <1>1, <3>1, StillAgrees
  <2> QED
    BY <1>1, <2>2, <2>3 DEF InboxLearns, Learns
<1>5. ASSUME NEW i \in 1 .. Len(feed') PROVE AgreesThen(feed'[i].op, feed'[i].snap)
  <2>1. CASE i \in 1 .. Len(feed) /\ feed'[i] = feed[i]
    <3>0. feed[i] \in Event
      BY <1>2, <2>1
    <3>1. feed[i].op \in Op
      BY <3>0 DEF Event
    <3>2. Agrees(feed[i].op, feed[i].snap)
      BY <2>1, Zenon DEF Truth
    <3> QED
      BY <1>1, <2>1, <3>1, <3>2, StillAgrees
  <2>2. ASSUME NEW op \in Op, feed'[i] = [op |-> op, snap |-> SnapshotOf(op)']
        PROVE  AgreesThen(feed'[i].op, feed'[i].snap)
    <3>1. /\ feed'[i].op = op /\ feed'[i].snap.state = life'[op].state
          /\ feed'[i].snap.handle = life'[op].handle
      BY <2>2 DEF SnapshotOf
    <3> QED
      BY <1>1, <3>1, StillAgrees
  <2>3. CASE feed' = feed
    BY <2>1, <2>3
  <2>4. ASSUME NEW op \in Op, feed' = Append(feed, [op |-> op, snap |-> SnapshotOf(op)'])
        PROVE  AgreesThen(feed'[i].op, feed'[i].snap)
    BY <1>2, <2>1, <2>2, <2>4
  <2> QED
    BY <1>1, <2>3, <2>4 DEF BrokerTells
<1>6. ASSUME NEW who \in Coroutine, call'[who].op \in Op
      PROVE  AgreesThen(call'[who].op, call'[who].reply)
  <2>1. CASE call'[who].reply \in {Waiting, Refused}
    <3>1. call'[who].reply.state \notin Final /\ call'[who].reply.handle = NoHandle
      BY <2>1 DEF Waiting, Refused, NoSnapshot, Final
    <3> QED
      BY <3>1 DEF AgreesThen
  <2>2. CASE call'[who] = call[who]
    BY <1>1, <1>6, <2>2, StillAgrees DEF Truth
  <2>3. ASSUME NEW op \in Op, call'[who].op = op, call'[who].reply = SnapshotOf(op)'
        PROVE  AgreesThen(call'[who].op, call'[who].reply)
    <3>1. /\ call'[who].reply.state = life'[op].state
          /\ call'[who].reply.handle = life'[op].handle
      BY <2>3 DEF SnapshotOf
    <3> QED
      BY <1>1, <2>3, <3>1, StillAgrees
  <2> QED
    BY <2>1, <2>2, <2>3, NextReplies
<1> QED
  BY <1>3, <1>4, <1>5, <1>6 DEF Truth, Agrees, AgreesThen

\* Nothing is told at the start.
LEMMA InitTruth == Init => Truth
<1> SUFFICES ASSUME Init PROVE Truth
  OBVIOUS
<1>1. \A op \in Op : life[op].handle = NoHandle
  BY DEF Init, LifecycleInit, Unborn
<1>2. ASSUME NEW op \in Op PROVE Agrees(op, inbox[op].snapshot)
  <2>1. inbox[op].snapshot.state \notin Final /\ inbox[op].snapshot.handle = NoHandle
    BY DEF Init, NoRow, NoSnapshot, Final
  <2> QED
    BY <2>1 DEF Agrees
<1>3. 1 .. Len(feed) = {}
  BY DEF Init
<1>4. ASSUME NEW who \in Coroutine PROVE call[who].op \in Op => Agrees(call[who].op, call[who].reply)
  <2>1. call[who].reply.state \notin Final /\ call[who].reply.handle = NoHandle
    BY DEF Init, NoCall, Waiting, NoSnapshot, Final
  <2> QED
    BY <2>1 DEF Agrees
<1> QED
  BY <1>1, <1>2, <1>3, <1>4 DEF Truth

(* What the inbox shows as definitive is what the broker's ledger has, and *)
(* a handle it shows is the one saved there, however late, doubled or out  *)
(* of order the replies and events were taken in, and after the results'   *)
(* content is pruned (accept_snapshot, refresh, _events, prune).           *)
THEOREM InboxShowsTheLedger == Spec => []InboxTrue
<1>1. Init => Typed /\ Truth
  BY InitTyped, InitTruth
<1>2. Typed /\ Truth /\ [Next]_vars => (Typed /\ Truth)'
  BY TypedStep, TruthStep
<1>3. Truth => InboxTrue
  BY DEF Truth, InboxTrue, Agrees
<1> QED
  BY <1>1, <1>2, <1>3, PTL DEF Spec
=============================================================================
