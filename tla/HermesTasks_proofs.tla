------------------------- MODULE HermesTasks_proofs -------------------------
(***************************************************************************)
(* Proofs about HermesTasks, for any number of tasks and contexts, any     *)
(* number of disconnects and any capacity of the task store.               *)
(***************************************************************************)
EXTENDS HermesTasks, FiniteSetTheorems, TLAPS

-----------------------------------------------------------------------------
(***************************************************************************)
(* Types.  The insertion order is a number because finitely many requests  *)
(* have begun at any time.                                                 *)
(***************************************************************************)
Begun == {u \in Task : at[u] # "idle"}

Typed == TypeOK /\ IsFiniteSet(Begun)

\* What may become of the record of a task when another one is completed.
Untouched(u) ==
    /\ rec'[u] = rec[u] \/ (rec[u].state \in Terminal /\ rec'[u] = Note("trimmed"))
    /\ watch'[u] = watch[u]

\* What becomes of the record of the task that is completed.
Completed(t, o) ==
    IF InStore(t) /\ rec[t].state \notin Terminal
    THEN /\ rec'[t] = o \/ (o.state \in Terminal /\ rec'[t] = Note("trimmed"))
         /\ watch'[t] = IF watch[t].at = "watching" THEN [at |-> "told", seen |-> o]
                        ELSE watch[t]
    ELSE rec'[t] = rec[t] /\ watch'[t] = watch[t]

\* The answers the adapter writes itself, and what the agent says, are outcomes.
LEMMA NoteTyped ==
    /\ None \in Outcome /\ Orphaned \in Outcome /\ Note("trimmed") \in Outcome
    /\ Note("submitted") \in Outcome
    /\ \A s \in Terminal : Note(s) \in Outcome
    /\ \A t \in Task, n \in 0 .. MaxSends : Said(t, n) \in Outcome
    /\ 0 \in 0 .. MaxSends
  BY HermesValues DEF None, Note, Orphaned, Outcome, Said, Terminal, Live

\* Changing the state keeps the text; ending a subscription keeps what was seen.
LEMMA StateChanged ==
    ASSUME NEW o \in Outcome, NEW s \in Live
    PROVE  /\ [o EXCEPT !.state = s] \in Outcome
           /\ [o EXCEPT !.state = s].state = s /\ [o EXCEPT !.state = s].by = o.by
           /\ [o EXCEPT !.state = s].nth = o.nth
<1>1. /\ o = [state |-> o.state, by |-> o.by, nth |-> o.nth]
      /\ o.by \in Task \cup {Nobody, Watchdog} /\ o.nth \in 0 .. MaxSends
  BY DEF Outcome
<1>2. [o EXCEPT !.state = s] = [state |-> s, by |-> o.by, nth |-> o.nth]
  BY <1>1
<1> QED
  BY <1>1, <1>2 DEF Outcome

WatchState == {"none", "found", "watching", "told"}

\* Changing where a subscription is keeps what it has seen.
LEMMA WatchChanged ==
    ASSUME NEW w \in [at : WatchState, seen : Outcome], NEW a \in WatchState
    PROVE  /\ [w EXCEPT !.at = a] \in [at : WatchState, seen : Outcome]
           /\ [w EXCEPT !.at = a].at = a /\ [w EXCEPT !.at = a].seen = w.seen
<1>1. w = [at |-> w.at, seen |-> w.seen] /\ w.seen \in Outcome
  OBVIOUS
<1>2. [w EXCEPT !.at = a] = [at |-> a, seen |-> w.seen]
  BY <1>1
<1> QED
  BY <1>1, <1>2

\* _complete_task ends its own record, wakes its watcher and trims old records.
LEMMA CompleteEffect ==
    ASSUME TypeOK, NEW t \in Task, NEW o \in Outcome, Complete(t, o)
    PROVE  /\ rec' \in [Task -> Outcome]
           /\ watch' \in [Task -> [at : {"none", "found", "watching", "told"},
                                   seen : Outcome]]
           /\ Completed(t, o)
           /\ \A u \in Task : u # t => Untouched(u)
<1>1. CASE InStore(t) /\ rec[t].state \notin Terminal
  <2> DEFINE r == [rec EXCEPT ![t] = o]
             w == [watch EXCEPT ![t] =
                        IF @.at = "watching" THEN [at |-> "told", seen |-> o] ELSE @]
  <2>1. rec' = Trimmed(r) /\ watch' = w
    BY <1>1 DEF Complete
  <2>2. r \in [Task -> Outcome] /\ r[t] = o /\ \A u \in Task : u # t => r[u] = rec[u]
    BY DEF TypeOK
  <2>3. \A u \in Task : \/ rec'[u] = r[u]
                        \/ r[u].state \in Terminal /\ rec'[u] = Note("trimmed")
    BY <2>1 DEF Trimmed
  <2>4. rec' \in [Task -> Outcome]
    <3>1. rec' = [u \in Task |-> rec'[u]]
      BY <2>1 DEF Trimmed
    <3>2. \A u \in Task : rec'[u] \in Outcome
      BY <2>2, <2>3, NoteTyped
    <3> QED
      BY <3>1, <3>2
  <2>5. w \in [Task -> [at : {"none", "found", "watching", "told"},
                        seen : Outcome]]
    BY DEF TypeOK
  <2>6. /\ w[t] = IF watch[t].at = "watching" THEN [at |-> "told", seen |-> o] ELSE watch[t]
        /\ \A u \in Task : u # t => w[u] = watch[u]
    BY DEF TypeOK
  <2> HIDE DEF r, w
  <2> QED
    BY <1>1, <2>1, <2>2, <2>3, <2>4, <2>5, <2>6 DEF Completed, Untouched
<1>2. CASE ~(InStore(t) /\ rec[t].state \notin Terminal)
  BY <1>2 DEF Complete, Completed, Untouched, TypeOK
<1> QED
  BY <1>1, <1>2

\* An adapter that has started no task is well typed.
LEMMA InitTyped == Init => Typed
<1> SUFFICES ASSUME Init PROVE Typed
  OBVIOUS
<1>1. (CHOOSE c \in Context : TRUE) \in Context
  BY HermesValues
<1>2. TypeOK
  BY <1>1, NoteTyped, HermesValues DEF Init, TypeOK
<1>3. Begun = {}
  BY DEF Init, Begun
<1> QED
  BY <1>2, <1>3, FS_EmptySet DEF Typed

\* The thread of t goes on; no other thread moves.
LEMMA ThreadGoes ==
    ASSUME Typed, NEW t \in Task, NEW from, NEW to, Goes(t, from, to), from # "idle",
           to \in {"idle", "rejecting", "created", "pending", "dispatched"} \cup Aged
    PROVE  /\ at' \in [Task -> {"idle", "rejecting", "created", "pending", "dispatched"} \cup Aged]
           /\ IsFiniteSet(Begun')
<1>1. at' \in [Task -> {"idle", "rejecting", "created", "pending", "dispatched"} \cup Aged]
  BY DEF Typed, TypeOK, Goes
<1>2. Begun' \subseteq Begun
  BY DEF Typed, TypeOK, Goes, Begun
<1> QED
  BY <1>1, <1>2, FS_Subset DEF Typed

\* Every step keeps the types, and finitely many requests have begun.
LEMMA TypeStep == Typed /\ [Next]_vars => Typed'
<1> SUFFICES ASSUME Typed, [Next]_vars PROVE Typed'
  OBVIOUS
<1> USE HermesValues
<1>0. TypeOK /\ IsFiniteSet(Begun)
  BY DEF Typed
<1>a. (at' = at) => (IsFiniteSet(Begun) => IsFiniteSet(Begun'))
  BY DEF Begun
<1>1. CASE UNCHANGED vars
  BY <1>0, <1>a, <1>1 DEF vars, storeVars, pendingVars, agentVars, platformVars, watchdogVars, Typed, TypeOK
<1>2. ASSUME NEW t \in Task, NEW c \in Contexts[t], NEW rejected \in BOOLEAN,
             Prepares(t, c, rejected)
      PROVE  Typed'
  <2>1. Begun' = Begun \cup {t}
    BY <1>0, <1>2 DEF Prepares, Goes, Begun, TypeOK
  <2>2. IsFiniteSet(Begun') /\ Cardinality(Begun) \in Nat
    BY <1>0, <2>1, FS_AddElement, FS_CardinalityType
  <2>3. born' \in [Task -> Nat]
    BY <1>0, <1>2, <2>2 DEF Prepares, TypeOK, Begun
  <2>4. context' \in [Task -> Context] /\ rec' \in [Task -> Outcome]
    BY <1>0, <1>2, NoteTyped DEF Prepares, TypeOK
  <2>5. at' \in [Task -> {"idle", "rejecting", "created", "pending", "dispatched"} \cup Aged]
    BY <1>0, <1>2 DEF Prepares, Goes, TypeOK
  <2> QED
    BY <1>0, <1>2, <2>2, <2>3, <2>4, <2>5
    DEF Prepares, Typed, TypeOK, pendingVars, agentVars, platformVars, watchdogVars
<1>3. ASSUME NEW t \in Task, EndsTask(t) PROVE Typed'
  <2>1. PICK o \in {Note("rejected"), Note("failed")} :
            /\ Goes(t, IF o.state = "rejected" THEN "rejecting" ELSE "created", "answered")
            /\ Complete(t, o)
            /\ result' = [result EXCEPT ![t] = o]
            /\ UNCHANGED <<context, born, pendingVars, cancel, agentVars, platformVars>>
    BY <1>3 DEF EndsTask
  <2>2. o \in Outcome
    BY NoteTyped DEF Terminal
  <2>3. TypeOK' /\ IsFiniteSet(Begun')
    BY <1>0, <2>1, <2>2, CompleteEffect, ThreadGoes
    DEF TypeOK, Typed, Aged, pendingVars, agentVars, platformVars, watchdogVars
  <2> QED
    BY <2>3 DEF Typed
<1>4. ASSUME NEW t \in Task, StartsForward(t) PROVE Typed'
  BY <1>0, <1>4, ThreadGoes
  DEF StartsForward, TypeOK, Typed, Aged, storeVars, agentVars, platformVars, watchdogVars
<1>5. ASSUME NEW t \in Task, ForwardEnds(t) PROVE Typed'
  <2>1. result' \in [Task -> Outcome]
    BY <1>0, <1>5, NoteTyped DEF ForwardEnds, TypeOK, Terminal
  <2> QED
    BY <1>0, <1>5, <2>1, ThreadGoes
    DEF ForwardEnds, TypeOK, Typed, Aged, storeVars, pendingVars, agentVars, platformVars, watchdogVars
<1>6. ASSUME NEW t \in Task, AddsPending(t) PROVE Typed'
  BY <1>0, <1>6, ThreadGoes
  DEF AddsPending, TypeOK, Typed, Aged, storeVars, agentVars, platformVars, watchdogVars
<1>7. ASSUME NEW t \in Task, Dispatches(t) PROVE Typed'
  <2>1. queue' \in [Context -> Seq(Task)]
    BY <1>0, <1>7 DEF Dispatches, TypeOK
  <2>2. ran' \subseteq Task
    BY <1>0, <1>7 DEF Dispatches, TypeOK
  <2> QED
    BY <1>0, <1>7, <2>1, <2>2, ThreadGoes
    DEF Dispatches, TypeOK, Typed, Aged, storeVars, pendingVars, platformVars, watchdogVars
<1>8. ASSUME NEW t \in Task, DispatchFails(t) PROVE Typed'
  <2>1. Note("failed") \in Outcome
    BY NoteTyped DEF Terminal
  <2>2. TypeOK' /\ IsFiniteSet(Begun')
    BY <1>0, <1>8, <2>1, CompleteEffect, ThreadGoes
    DEF DispatchFails, TypeOK, Typed, Aged, pendingVars, agentVars, platformVars, watchdogVars
  <2> QED
    BY <2>2 DEF Typed
<1>9. ASSUME NEW t \in Task, SetsWorking(t) PROVE Typed'
  <2>1. rec' \in [Task -> Outcome]
    <3>1. rec[t] \in Outcome /\ "working" \in Live
      BY <1>0 DEF TypeOK, Live
    <3>2. [rec[t] EXCEPT !.state = "working"] \in Outcome
      BY <3>1, StateChanged
    <3> QED
      BY <1>0, <1>9, <3>2 DEF SetsWorking, TypeOK
  <2> QED
    BY <1>0, <1>9, <2>1, ThreadGoes
    DEF SetsWorking, TypeOK, Typed, Aged, pendingVars, agentVars, platformVars, watchdogVars
<1>10. ASSUME NEW t \in Task, GetsReply(t) PROVE Typed'
  <2>1. Finalized(future[t]) \in Outcome
    <3>1. future[t] \in Outcome /\ "input_required" \in Live
      BY <1>0 DEF TypeOK, Live
    <3> QED
      BY <3>1, StateChanged DEF Finalized
  <2> QED
    BY <1>0, <1>10, <2>1, ThreadGoes
    DEF GetsReply, TypeOK, Typed, Aged, storeVars, pendingVars, agentVars, platformVars, watchdogVars
<1>11. ASSUME NEW t \in Task, GivesUp(t) PROVE Typed'
  <2>1. Note("failed") \in Outcome
    BY NoteTyped DEF Terminal
  <2> QED
    BY <1>0, <1>11, <2>1, ThreadGoes
    DEF GivesUp, TypeOK, Typed, Aged, storeVars, pendingVars, agentVars, platformVars, watchdogVars
<1>12. ASSUME NEW t \in Task, Records(t) PROVE Typed'
  <2>1. result[t] \in Outcome
    BY <1>0 DEF TypeOK
  <2>2. TypeOK' /\ IsFiniteSet(Begun')
    BY <1>0, <1>12, <2>1, CompleteEffect, ThreadGoes
    DEF Records, TypeOK, Typed, Aged, pendingVars, agentVars, platformVars, watchdogVars
  <2> QED
    BY <2>2 DEF Typed
<1>13. ASSUME NEW t \in Task, Answers(t) PROVE Typed'
  BY <1>0, <1>13, NoteTyped, ThreadGoes
  DEF Answers, PopPending, TypeOK, Typed, Aged, storeVars, agentVars, platformVars, watchdogVars
<1>14. ASSUME NEW t \in Task, CancelFinds(t) PROVE Typed'
  BY <1>0, <1>a, <1>14
  DEF CancelFinds, TypeOK, Typed, storeVars, pendingVars, agentVars, platformVars, watchdogVars
<1>15. ASSUME NEW t \in Task, CancelCompletes(t) PROVE Typed'
  <2>1. Note("canceled") \in Outcome
    BY NoteTyped DEF Terminal
  <2> QED
    BY <1>0, <1>a, <1>15, <2>1, CompleteEffect
    DEF CancelCompletes, TypeOK, Typed, pendingVars, agentVars, platformVars, watchdogVars
<1>16. ASSUME NEW t \in Task, CancelResolves(t) PROVE Typed'
  <2>1. future' \in [Task -> Outcome]
    BY <1>0, <1>16, NoteTyped DEF CancelResolves, Resolve, TypeOK, Terminal
  <2> QED
    BY <1>0, <1>a, <1>16, <2>1
    DEF CancelResolves, TypeOK, Typed, storeVars, agentVars, platformVars, watchdogVars
<1>17. ASSUME NEW t \in Task, WatchFinds(t) PROVE Typed'
  BY <1>0, <1>a, <1>17, NoteTyped
  DEF WatchFinds, TypeOK, Typed, pendingVars, agentVars, platformVars, watchdogVars
<1>18. ASSUME NEW t \in Task, Watches(t) PROVE Typed'
  <2>1. watch' \in [Task -> [at : {"none", "found", "watching", "told"},
                             seen : Outcome]]
    <3>1. watch[t] \in [at : WatchState, seen : Outcome] /\ rec[t] \in Outcome
      BY <1>0 DEF TypeOK, WatchState
    <3>2. \A a \in {"watching", "none"} :
            [watch[t] EXCEPT !.at = a] \in [at : WatchState, seen : Outcome]
      BY <3>1, WatchChanged DEF WatchState
    <3> DEFINE w == IF rec[t].state \in Terminal THEN [at |-> "told", seen |-> rec[t]]
                    ELSE [watch[t] EXCEPT !.at = IF InStore(t) THEN "watching" ELSE "none"]
    <3>3. w \in [at : WatchState, seen : Outcome]
      BY <3>1, <3>2 DEF WatchState
    <3>4. watch' = [watch EXCEPT ![t] = w]
      BY <1>18 DEF Watches
    <3> QED
      BY <1>0, <3>3, <3>4 DEF TypeOK, WatchState
  <2> QED
    BY <1>0, <1>a, <1>18, <2>1
    DEF Watches, TypeOK, Typed, pendingVars, agentVars, platformVars, watchdogVars
<1>19. ASSUME NEW t \in Task, WatchEnds(t) PROVE Typed'
  <2>1. watch' \in [Task -> [at : {"none", "found", "watching", "told"},
                             seen : Outcome]]
    <3>1. watch[t] \in [at : WatchState, seen : Outcome]
      BY <1>0 DEF TypeOK, WatchState
    <3>2. [watch[t] EXCEPT !.at = "none"] \in [at : WatchState, seen : Outcome]
      BY <3>1, WatchChanged DEF WatchState
    <3> QED
      BY <1>0, <1>19, <3>2 DEF WatchEnds, TypeOK, WatchState
  <2> QED
    BY <1>0, <1>a, <1>19, <2>1
    DEF WatchEnds, TypeOK, Typed, pendingVars, agentVars, platformVars, watchdogVars
<1>20. ASSUME NEW t \in Task, WatchdogFails(t) PROVE Typed'
  <2>1. stale' \subseteq Task
    BY <1>0, <1>20 DEF WatchdogFails, TypeOK
  <2> QED
    BY <1>0, <1>a, <1>20, <2>1, NoteTyped, CompleteEffect
    DEF WatchdogFails, TypeOK, Typed, pendingVars, agentVars
<1>21. ASSUME NEW t \in Task, AgentReplies(t) PROVE Typed'
  <2>1. sends' \in 0 .. MaxSends
    BY <1>0, <1>21 DEF AgentReplies, TypeOK
  <2>2. future' \in [Task -> Outcome]
    BY <1>0, <1>21, <2>1, NoteTyped DEF AgentReplies, ResolveOldest, TypeOK
  <2> QED
    BY <1>0, <1>a, <1>21, <2>1, <2>2
    DEF AgentReplies, TypeOK, Typed, storeVars, platformVars, watchdogVars
<1>22. ASSUME NEW c \in Context, NEW state \in Ending,
              AgentEnds(c, state)
       PROVE  Typed'
  <2>0. state \in Terminal
    BY DEF Terminal
  <2>1. Note(state) \in Outcome /\ queue' \in [Context -> Seq(Task)]
    BY <1>0, <1>22, <2>0, NoteTyped DEF AgentEnds, TypeOK
  <2>2. future' \in [Task -> Outcome]
    BY <1>0, <1>22, <2>1 DEF AgentEnds, Resolve, TypeOK
  <2> QED
    BY <1>0, <1>a, <1>22, <2>1, <2>2
    DEF AgentEnds, TypeOK, Typed, storeVars, platformVars, watchdogVars
<1>23. CASE Connect
  BY <1>0, <1>a, <1>23
  DEF Connect, TypeOK, Typed, storeVars, pendingVars, agentVars, watchdogVars
<1>24. CASE Disconnect
  <2>1. future' \in [Task -> Outcome]
    BY <1>0, <1>24, NoteTyped DEF Disconnect, TypeOK, Terminal
  <2>2. drops' \in 0 .. MaxDrops
    BY <1>0, <1>24 DEF Disconnect, TypeOK
  <2> QED
    BY <1>0, <1>a, <1>24, <2>1, <2>2
    DEF Disconnect, TypeOK, Typed, storeVars, agentVars, watchdogVars
<1>25. CASE WatchdogCopies
  BY <1>0, <1>a, <1>25 DEF WatchdogCopies, TypeOK, Typed, storeVars, pendingVars, agentVars
<1>26. CASE WatchdogLists
  BY <1>0, <1>a, <1>26 DEF WatchdogLists, TypeOK, Typed, storeVars, pendingVars, agentVars
<1> QED
  BY <1>1, <1>2, <1>3, <1>4, <1>5, <1>6, <1>7, <1>8, <1>9, <1>10, <1>11, <1>12, <1>13,
     <1>14, <1>15, <1>16, <1>17, <1>18, <1>19, <1>20, <1>21, <1>22, <1>23, <1>24, <1>25, <1>26
  DEF Next, ThreadSteps, OtherRequests

(* Threads, records, futures, watchers and queues keep their types, and    *)
(* the drops their bound (adapter.py, TaskStore).                          *)
THEOREM HermesTypes == Spec => []TypeOK
<1>1. Typed => TypeOK
  BY DEF Typed
<1> QED
  BY <1>1, InitTyped, TypeStep, PTL DEF Spec

-----------------------------------------------------------------------------
(***************************************************************************)
(* The pending and the active tasks.  PendingOwned is not inductive: that  *)
(* a waiting thread is registered is so because it registered two steps    *)
(* before.  A thread that serves is registered as the owner of its task,   *)
(* unless disconnect() forgot it.                                          *)
(***************************************************************************)
Serving == {"forwarding", "pending", "dispatched", "waiting", "recording", "popping"}

Registered(t) ==
    /\ at[t] \in {"pending", "dispatched", "waiting"} /\ future[t] = None => t \in pending
    /\ t \in pending => at[t] \in Serving \ {"forwarding"}
    /\ t \in active => at[t] \in Serving
    /\ at[t] \in Serving => t \in active \cup forgotten

\* _pending_order is a total order of the pending tasks.
InTurn == \A t, u \in pending : t = u \/ t \in ahead[u] \/ u \in ahead[t]

PendingInv == InTurn /\ \A t \in Task : Registered(t)

\* Answers tell apart who gave them.
LEMMA OutcomesDiffer ==
    /\ \A s \in Terminal : Note(s) # None /\ Note(s).state = s /\ Note(s).by = Nobody
    /\ \A t \in Task, n \in 0 .. MaxSends :
         /\ Said(t, n) # None /\ Said(t, n).state = "completed"
         /\ Said(t, n).by = t /\ Said(t, n).nth = n
    /\ None.state = "none" /\ None.by = Nobody
  BY DEF None, Note, Said, Terminal

\* At first nobody waits.
LEMMA InitPending == Init => PendingInv
  BY DEF Init, PendingInv, InTurn, Registered, Serving

\* Every step keeps the waiting threads registered.
LEMMA PendingStep == Typed /\ PendingInv /\ [Next]_vars => PendingInv'
<1> SUFFICES ASSUME Typed, PendingInv, [Next]_vars PROVE PendingInv'
  OBVIOUS
<1> USE DEF PendingInv, InTurn, Registered, Serving
<1>0. /\ at \in [Task -> {"idle", "rejecting", "created", "pending", "dispatched"} \cup Aged]
      /\ future \in [Task -> Outcome] /\ ahead \in [Task -> SUBSET Task]
      /\ queue \in [Context -> Seq(Task)]
      /\ pending \subseteq Task /\ active \subseteq Task /\ forgotten \subseteq Task
  BY HermesValues DEF Typed, TypeOK
<1>1. CASE UNCHANGED <<at, pending, ahead, active, future, forgotten>>
  BY <1>1
<1>2. ASSUME NEW t \in Task, NEW c, NEW rejected, Prepares(t, c, rejected)
      PROVE  PendingInv'
  BY <1>0, <1>2 DEF Prepares, Goes, pendingVars, platformVars, watchdogVars
<1>3. ASSUME NEW t \in Task, EndsTask(t) PROVE PendingInv'
  BY <1>0, <1>3 DEF EndsTask, Goes, pendingVars, platformVars, watchdogVars
<1>4. ASSUME NEW t \in Task, StartsForward(t) PROVE PendingInv'
  BY <1>0, <1>4 DEF StartsForward, Goes, platformVars, watchdogVars
<1>5. ASSUME NEW t \in Task, ForwardEnds(t) PROVE PendingInv'
  BY <1>0, <1>5 DEF ForwardEnds, Goes, pendingVars, platformVars, watchdogVars
<1>6. ASSUME NEW t \in Task, AddsPending(t) PROVE PendingInv'
  <2>1. \A u \in Task : Registered(u)'
    BY <1>0, <1>6 DEF AddsPending, Goes, platformVars, watchdogVars
  <2>2. InTurn'
    BY <1>0, <1>6 DEF AddsPending
  <2> QED
    BY <2>1, <2>2
<1>7. ASSUME NEW t \in Task, Dispatches(t) PROVE PendingInv'
  BY <1>0, <1>7 DEF Dispatches, Goes, pendingVars, platformVars, watchdogVars
<1>8. ASSUME NEW t \in Task, DispatchFails(t) PROVE PendingInv'
  BY <1>0, <1>8 DEF DispatchFails, Goes, pendingVars, platformVars, watchdogVars
<1>9. ASSUME NEW t \in Task, SetsWorking(t) PROVE PendingInv'
  BY <1>0, <1>9 DEF SetsWorking, Goes, pendingVars, platformVars, watchdogVars
<1>10. ASSUME NEW t \in Task, GetsReply(t) \/ GivesUp(t) PROVE PendingInv'
  BY <1>0, <1>10 DEF GetsReply, GivesUp, Goes, pendingVars, platformVars, watchdogVars
<1>11. ASSUME NEW t \in Task, Records(t) PROVE PendingInv'
  BY <1>0, <1>11 DEF Records, Goes, pendingVars, platformVars, watchdogVars
<1>12. ASSUME NEW t \in Task, Answers(t) PROVE PendingInv'
  <2>1. \A u \in Task : Registered(u)'
    BY <1>0, <1>12 DEF Answers, PopPending, Goes, platformVars, watchdogVars
  <2>2. InTurn'
    BY <1>0, <1>12 DEF Answers, PopPending
  <2> QED
    BY <2>1, <2>2
<1>13. ASSUME NEW t \in Task, CancelResolves(t) PROVE PendingInv'
  <2>1. Note("canceled") # None
    BY OutcomesDiffer DEF Terminal
  <2> QED
    BY <1>0, <1>13, <2>1 DEF CancelResolves, Resolve, Resolvable, platformVars, watchdogVars
<1>14. ASSUME NEW t \in Task, AgentReplies(t) PROVE PendingInv'
  <2>1. Said(t, sends') # None
    BY <1>0, <1>14 DEF Said, None, Note
  <2> QED
    BY <1>0, <1>14, <2>1 DEF AgentReplies, ResolveOldest, platformVars, watchdogVars
<1>15. ASSUME NEW c \in Context, NEW state \in Ending,
              AgentEnds(c, state)
       PROVE  PendingInv'
  <2>1. Note(state) # None
    BY HermesValues, OutcomesDiffer DEF Terminal
  <2> QED
    BY <1>0, <1>15, <2>1 DEF AgentEnds, Resolve, Resolvable, platformVars, watchdogVars
<1>16. CASE Disconnect
  <2>1. Note("failed") # None
    BY OutcomesDiffer DEF Terminal
  <2> QED
    BY <1>0, <1>16, <2>1 DEF Disconnect, Resolvable
<1>17. CASE Connect \/ WatchdogCopies \/ WatchdogLists
  BY <1>1, <1>17 DEF Connect, WatchdogCopies, WatchdogLists, pendingVars
<1>18. ASSUME NEW t \in Task,
              \/ CancelFinds(t) \/ CancelCompletes(t) \/ WatchdogFails(t)
              \/ WatchFinds(t) \/ Watches(t) \/ WatchEnds(t)
       PROVE  PendingInv'
  BY <1>1, <1>18 DEF CancelFinds, CancelCompletes, WatchdogFails, WatchFinds, Watches, WatchEnds,
                     pendingVars, platformVars, watchdogVars
<1>19. CASE UNCHANGED vars
  BY <1>1, <1>19 DEF vars, pendingVars, platformVars, watchdogVars
<1> HIDE DEF PendingInv
<1> QED
  BY <1>2, <1>3, <1>4, <1>5, <1>6, <1>7, <1>8, <1>9, <1>10, <1>11, <1>12, <1>13,
     <1>14, <1>15, <1>16, <1>17, <1>18, <1>19
  DEF Next, ThreadSteps, OtherRequests

(* A waiting thread can always be reached, and nothing stays registered    *)
(* for a request that is over (_add_pending, _pop_pending, disconnect).    *)
THEOREM EveryWaiterRegistered == Spec => []PendingOwned
<1>1. PendingInv => PendingOwned
  BY DEF PendingInv, Registered, Serving, PendingOwned
<1> QED
  BY <1>1, InitTyped, TypeStep, InitPending, PendingStep, PTL DEF Spec

-----------------------------------------------------------------------------
(***************************************************************************)
(* What a future or an answer may say.                                     *)
(***************************************************************************)
Ends == {"completed", "failed", "canceled"}

Spoken(t) ==
    /\ future[t] = None \/ future[t].state \in Ends
    /\ future[t].by # Watchdog /\ result[t].by # Watchdog
    /\ at[t] = "recording" => result[t].state \in Ends \cup {"input_required"}
    /\ at[t] = "idle" => result[t] = None /\ future[t] = None

SpokenInv == \A t \in Task : Spoken(t)

\* What is set as the outcome of a future or as an answer.
Speech == {o \in Outcome : o.state \in Ends /\ o.by # Watchdog}

\* What may be said of a task, and what finalizing it changes.
LEMMA SpeechIs ==
    /\ \A s \in Ends : Note(s) \in Speech
    /\ \A t \in Task, n \in 0 .. MaxSends : Said(t, n) \in Speech
    /\ Note("rejected").by # Watchdog
    /\ \A o \in Speech : /\ Finalized(o).state \in Ends \cup {"input_required"}
                         /\ Finalized(o).by = o.by /\ Finalized(o).nth = o.nth
<1>1. \A s \in Ends : Note(s) \in Speech
  BY HermesValues, NoteTyped DEF Speech, Note, Ends, Terminal
<1>2. \A t \in Task, n \in 0 .. MaxSends : Said(t, n) \in Speech
  BY HermesValues, NoteTyped DEF Speech, Said, Ends
<1>3. Note("rejected").by # Watchdog
  BY HermesValues DEF Note
<1>4. ASSUME NEW o \in Speech
      PROVE  /\ Finalized(o).state \in Ends \cup {"input_required"}
             /\ Finalized(o).by = o.by /\ Finalized(o).nth = o.nth
  <2>1. o \in Outcome /\ o.state \in Ends /\ "input_required" \in Live
    BY DEF Speech, Live
  <2> QED
    BY <2>1, StateChanged DEF Finalized
<1> QED
  BY <1>1, <1>2, <1>3, <1>4

\* At first nothing has been said.
LEMMA InitSpoken == Init => SpokenInv
  BY HermesValues, OutcomesDiffer DEF Init, SpokenInv, Spoken

\* Every step keeps SpokenInv.
LEMMA SpokenStep == Typed /\ PendingInv /\ SpokenInv /\ [Next]_vars => SpokenInv'
<1> SUFFICES ASSUME Typed, PendingInv, SpokenInv, [Next]_vars PROVE SpokenInv'
  OBVIOUS
<1> USE HermesValues DEF SpokenInv, Spoken
<1>0. /\ at \in [Task -> {"idle", "rejecting", "created", "pending", "dispatched"} \cup Aged]
      /\ future \in [Task -> Outcome] /\ result \in [Task -> Outcome]
      /\ queue \in [Context -> Seq(Task)]
      /\ \A t \in Task : t \in pending => at[t] # "idle"
  BY DEF Typed, TypeOK, PendingInv, Registered, Serving
<1>1. CASE UNCHANGED <<at, future, result>>
  BY <1>1
<1>2. ASSUME NEW t \in Task, NEW c, NEW rejected, Prepares(t, c, rejected)
      PROVE  SpokenInv'
  BY <1>0, <1>2 DEF Prepares, Goes, pendingVars
<1>3. ASSUME NEW t \in Task, EndsTask(t) PROVE SpokenInv'
  <2>1. PICK o \in {Note("rejected"), Note("failed")} :
            /\ at' = [at EXCEPT ![t] = "answered"]
            /\ result' = [result EXCEPT ![t] = o]
            /\ future' = future
    BY <1>3 DEF EndsTask, Goes, pendingVars
  <2>2. o.by # Watchdog
    BY SpeechIs DEF Speech, Ends
  <2> QED
    BY <1>0, <2>1, <2>2
<1>4. ASSUME NEW t \in Task, StartsForward(t) \/ AddsPending(t) PROVE SpokenInv'
  BY <1>0, <1>4 DEF StartsForward, AddsPending, Goes
<1>5. ASSUME NEW t \in Task, ForwardEnds(t) PROVE SpokenInv'
  <2>1. PICK o \in {Said(t, 0), Note("failed")} :
            /\ at' = [at EXCEPT ![t] = "recording"]
            /\ result' = [result EXCEPT ![t] = o]
            /\ future' = future
    BY <1>5 DEF ForwardEnds, Goes, pendingVars
  <2>2. o.by # Watchdog /\ o.state \in Ends
    BY SpeechIs, NoteTyped DEF Speech, Ends
  <2> QED
    BY <1>0, <2>1, <2>2
<1>6. ASSUME NEW t \in Task, Dispatches(t) PROVE SpokenInv'
  BY <1>0, <1>6 DEF Dispatches, Goes, pendingVars
<1>7. ASSUME NEW t \in Task, DispatchFails(t) PROVE SpokenInv'
  <2>1. Note("failed").by # Watchdog
    BY SpeechIs DEF Speech, Ends
  <2> QED
    BY <1>0, <1>7, <2>1 DEF DispatchFails, Goes, pendingVars
<1>8. ASSUME NEW t \in Task, SetsWorking(t) PROVE SpokenInv'
  BY <1>0, <1>8 DEF SetsWorking, Goes, pendingVars
<1>9. ASSUME NEW t \in Task, GetsReply(t) PROVE SpokenInv'
  <2>1. future[t] \in Speech
    BY <1>0, <1>9 DEF GetsReply, Speech
  <2>2. /\ Finalized(future[t]).state \in Ends \cup {"input_required"}
        /\ Finalized(future[t]).by # Watchdog
    BY <2>1, SpeechIs
  <2> QED
    BY <1>0, <1>9, <2>2 DEF GetsReply, Goes, pendingVars
<1>10. ASSUME NEW t \in Task, GivesUp(t) PROVE SpokenInv'
  <2>1. Note("failed").by # Watchdog /\ Note("failed").state \in Ends
    BY SpeechIs DEF Speech, Ends
  <2> QED
    BY <1>0, <1>10, <2>1 DEF GivesUp, Goes, pendingVars
<1>11. ASSUME NEW t \in Task, Records(t) PROVE SpokenInv'
  BY <1>0, <1>11 DEF Records, Goes, pendingVars
<1>12. ASSUME NEW t \in Task, Answers(t) PROVE SpokenInv'
  BY <1>0, <1>12, OutcomesDiffer DEF Answers, PopPending, Goes
<1>13. ASSUME NEW t \in Task, NEW s \in Ends, Resolve(t, Note(s)), UNCHANGED <<at, result>>
       PROVE  SpokenInv'
  <2>1. Note(s).by # Watchdog /\ Note(s).state \in Ends
    BY SpeechIs DEF Speech
  <2> QED
    BY <1>0, <1>13, <2>1 DEF Resolve, Resolvable
<1>14. ASSUME NEW t \in Task, CancelResolves(t) PROVE SpokenInv'
  BY <1>13, <1>14 DEF CancelResolves, Ends
<1>15. ASSUME NEW t \in Task, AgentReplies(t) PROVE SpokenInv'
  <2>1. sends' \in 0 .. MaxSends
    BY <1>15 DEF AgentReplies, Typed, TypeOK
  <2>2. Said(t, sends') \in Speech
    BY <2>1, SpeechIs
  <2> QED
    BY <1>0, <1>15, <2>2 DEF AgentReplies, ResolveOldest, Speech
<1>16. ASSUME NEW c \in Context, NEW state \in Ending,
              AgentEnds(c, state)
       PROVE  SpokenInv'
  <2>1. Head(queue[c]) \in Task
    BY <1>0, <1>16 DEF AgentEnds
  <2> QED
    BY <1>13, <1>16, <2>1 DEF AgentEnds, Ends
<1>17. CASE Disconnect
  <2>1. Note("failed").by # Watchdog /\ Note("failed").state \in Ends
    BY SpeechIs DEF Speech, Ends
  <2> QED
    BY <1>0, <1>17, <2>1 DEF Disconnect, Resolvable
<1>18. CASE Connect \/ WatchdogCopies \/ WatchdogLists
  BY <1>1, <1>18 DEF Connect, WatchdogCopies, WatchdogLists, pendingVars
<1>19. ASSUME NEW t \in Task,
              \/ CancelFinds(t) \/ CancelCompletes(t) \/ WatchdogFails(t)
              \/ WatchFinds(t) \/ Watches(t) \/ WatchEnds(t)
       PROVE  SpokenInv'
  BY <1>1, <1>19 DEF CancelFinds, CancelCompletes, WatchdogFails, WatchFinds, Watches, WatchEnds,
                     pendingVars
<1>20. CASE UNCHANGED vars
  BY <1>1, <1>20 DEF vars, pendingVars
<1> HIDE DEF SpokenInv
<1> QED
  BY <1>2, <1>3, <1>4, <1>5, <1>6, <1>7, <1>8, <1>9, <1>10, <1>11, <1>12, <1>14,
     <1>15, <1>16, <1>17, <1>18, <1>19, <1>20
  DEF Next, ThreadSteps, OtherRequests

-----------------------------------------------------------------------------
(***************************************************************************)
(* The store.  A record is there as soon as a thread has begun, nobody     *)
(* watches a task that has ended, and what a subscriber was told is kept.  *)
(***************************************************************************)
Recorded(t) == at[t] = "idle" <=> rec[t].state = "none"

Told(t) ==
    /\ at[t] = "idle" => watch[t].at = "none"
    /\ watch[t].at = "watching" => rec[t].state \in Live
    /\ watch[t].at = "told" /\ watch[t].seen.state \in Terminal =>
         rec[t] \in {watch[t].seen, Note("trimmed")}

StoreInv == \A t \in Task : Recorded(t) /\ Told(t)

\* At first the store is empty.
LEMMA InitStore == Init => StoreInv
<1>1. None.state \notin Live /\ None.state = "none"
  BY DEF None, Note, Live
<1> QED
  BY <1>1 DEF Init, StoreInv, Recorded, Told

\* The records of the other tasks when one is completed.
LEMMA StoreUntouched ==
    ASSUME Typed, StoreInv, NEW u \in Task, Untouched(u), at'[u] = at[u]
    PROVE  Recorded(u)' /\ Told(u)'
<1>0. Recorded(u) /\ Told(u) /\ rec[u] \in Outcome
  BY DEF StoreInv, Typed, TypeOK
<1>1. CASE rec'[u] = rec[u]
  BY <1>0, <1>1 DEF Recorded, Told, Untouched
<1>2. CASE rec[u].state \in Terminal /\ rec'[u] = Note("trimmed")
  <2>1. /\ Note("trimmed").state = "trimmed"
        /\ rec[u].state \notin Live /\ rec[u].state # "none"
    BY <1>2 DEF Note, Live, Terminal
  <2> QED
    BY <1>0, <1>2, <2>1 DEF Recorded, Told, Untouched
<1> QED
  BY <1>1, <1>2 DEF Untouched

\* The completed task itself.
LEMMA StoreCompleted ==
    ASSUME Typed, StoreInv, NEW t \in Task, NEW o \in Outcome, Complete(t, o),
           o.state # "none", at[t] # "idle", at'[t] # "idle"
    PROVE  Recorded(t)' /\ Told(t)'
<1>0. Recorded(t) /\ Told(t) /\ rec[t] \in Outcome /\ watch[t].at \in WatchState
  BY DEF StoreInv, Typed, TypeOK, WatchState
<1>1. Completed(t, o)
  BY CompleteEffect DEF Typed
<1>2. Note("trimmed").state = "trimmed"
  BY DEF Note
<1>3. CASE InStore(t) /\ rec[t].state \notin Terminal
  <2>1. /\ rec'[t] = o \/ (o.state \in Terminal /\ rec'[t] = Note("trimmed"))
        /\ watch'[t] = IF watch[t].at = "watching" THEN [at |-> "told", seen |-> o]
                        ELSE watch[t]
    BY <1>1, <1>3 DEF Completed
  <2>2. Recorded(t)'
    BY <1>0, <1>2, <1>3, <2>1 DEF Recorded
  <2>3. Told(t)'
    <3>1. CASE watch[t].at = "watching"
      BY <1>2, <2>1, <3>1 DEF Told
    <3>2. CASE watch[t].at # "watching"
      BY <1>0, <1>3, <2>1, <3>2 DEF Told, InStore, Note
    <3> QED
      BY <3>1, <3>2
  <2> QED
    BY <2>2, <2>3
<1>4. CASE ~(InStore(t) /\ rec[t].state \notin Terminal)
  BY <1>0, <1>1, <1>4 DEF Completed, Recorded, Told
<1> QED
  BY <1>3, <1>4

\* Every step keeps the store and the watchers in agreement.
LEMMA StoreStep == Typed /\ SpokenInv /\ StoreInv /\ [Next]_vars => StoreInv'
<1> SUFFICES ASSUME Typed, SpokenInv, StoreInv, [Next]_vars PROVE StoreInv'
  OBVIOUS
<1>0. /\ TypeOK
      /\ at \in [Task -> {"idle", "rejecting", "created", "pending", "dispatched"} \cup Aged]
      /\ result \in [Task -> Outcome] /\ rec \in [Task -> Outcome]
      /\ watch \in [Task -> [at : WatchState, seen : Outcome]]
  BY HermesValues DEF Typed, TypeOK, WatchState
\* A step that completes t, whose request has begun.
<1>1. ASSUME NEW t \in Task, NEW o \in Outcome, Complete(t, o), o.state # "none",
             at[t] # "idle", at'[t] # "idle", \A u \in Task : u # t => at'[u] = at[u]
      PROVE  StoreInv'
  <2>1. \A u \in Task : u # t => Untouched(u)
    BY <1>0, <1>1, CompleteEffect
  <2>2. \A u \in Task : u # t => Recorded(u)' /\ Told(u)'
    BY <1>1, <2>1, StoreUntouched
  <2>3. Recorded(t)' /\ Told(t)'
    BY <1>1, StoreCompleted
  <2> QED
    BY <2>2, <2>3 DEF StoreInv
\* A step of the thread of t that leaves the store alone.
<1>2. ASSUME NEW t \in Task, NEW from, NEW to, Goes(t, from, to), from # "idle", to # "idle",
             rec' = rec, watch' = watch
      PROVE  StoreInv'
  BY <1>0, <1>2 DEF StoreInv, Recorded, Told, Goes
<1>3. CASE UNCHANGED <<at, rec, watch>>
  BY <1>3 DEF StoreInv, Recorded, Told
<1>4. ASSUME NEW t \in Task, NEW c, NEW rejected, Prepares(t, c, rejected)
      PROVE  StoreInv'
  <2>1. Note("submitted").state = "submitted"
    BY DEF Note
  <2>2. at[t] = "idle" /\ at'[t] \in {"rejecting", "created"}
    BY <1>0, <1>4 DEF Prepares, Goes
  <2>3. rec'[t] = Note("submitted") /\ watch' = watch
    BY <1>0, <1>4 DEF Prepares
  <2>4. \A u \in Task : u # t => at'[u] = at[u] /\ rec'[u] = rec[u]
    BY <1>0, <1>4 DEF Prepares, Goes
  <2>5. Recorded(t)' /\ Told(t)'
    BY <2>1, <2>2, <2>3 DEF StoreInv, Recorded, Told, Live
  <2> QED
    BY <2>3, <2>4, <2>5 DEF StoreInv, Recorded, Told
<1>5. ASSUME NEW t \in Task, EndsTask(t) PROVE StoreInv'
  <2>1. PICK o \in {Note("rejected"), Note("failed")} :
            /\ at[t] \in {"rejecting", "created"}
            /\ at' = [at EXCEPT ![t] = "answered"]
            /\ Complete(t, o)
    BY <1>5 DEF EndsTask, Goes
  <2>2. o \in Outcome /\ o.state # "none"
    BY NoteTyped, OutcomesDiffer DEF Terminal
  <2> QED
    BY <1>0, <1>1, <2>1, <2>2
<1>6. ASSUME NEW t \in Task,
             \/ StartsForward(t) \/ AddsPending(t) \/ ForwardEnds(t) \/ Dispatches(t)
             \/ GetsReply(t) \/ GivesUp(t) \/ Answers(t)
      PROVE  StoreInv'
  BY <1>2, <1>6
  DEF StartsForward, AddsPending, ForwardEnds, Dispatches, GetsReply, GivesUp, Answers, storeVars
<1>7. ASSUME NEW t \in Task, DispatchFails(t) PROVE StoreInv'
  <2>1. /\ at[t] = "pending" /\ at' = [at EXCEPT ![t] = "popping"]
        /\ Complete(t, Note("failed"))
    BY <1>7 DEF DispatchFails, Goes
  <2>2. Note("failed") \in Outcome /\ Note("failed").state # "none"
    BY NoteTyped, OutcomesDiffer DEF Terminal
  <2> QED
    BY <1>0, <1>1, <2>1, <2>2
<1>8. ASSUME NEW t \in Task, SetsWorking(t) PROVE StoreInv'
  <2>1. /\ at[t] = "dispatched" /\ at' = [at EXCEPT ![t] = "waiting"]
        /\ watch' = watch
    BY <1>8 DEF SetsWorking, Goes
  <2>2. CASE rec[t].state \in Live
    <3>1. rec' = [rec EXCEPT ![t] = [rec[t] EXCEPT !.state = "working"]]
      BY <1>8, <2>2 DEF SetsWorking
    <3>2. [rec[t] EXCEPT !.state = "working"].state = "working"
      BY <1>0, StateChanged DEF Live
    <3>3. rec'[t].state = "working" /\ rec'[t].state \in Live
      BY <1>0, <3>1, <3>2 DEF Live
    <3>4. Recorded(t)'
      BY <1>0, <2>1, <3>3 DEF Recorded
    <3>5. Told(t)'
      BY <1>0, <2>1, <2>2, <3>3 DEF Told, StoreInv, Note, Live, Terminal
    <3>6. \A u \in Task : u # t => rec'[u] = rec[u] /\ at'[u] = at[u]
      BY <1>0, <2>1, <3>1
    <3> QED
      BY <2>1, <3>4, <3>5, <3>6 DEF StoreInv, Recorded, Told
  <2>3. CASE rec[t].state \notin Live
    BY <1>2, <1>8, <2>3 DEF SetsWorking
  <2> QED
    BY <2>2, <2>3
<1>9. ASSUME NEW t \in Task, Records(t) PROVE StoreInv'
  <2>1. /\ at[t] = "recording" /\ at' = [at EXCEPT ![t] = "popping"]
        /\ Complete(t, result[t])
    BY <1>9 DEF Records, Goes
  <2>2. result[t] \in Outcome /\ result[t].state # "none"
    BY <1>0, <2>1 DEF SpokenInv, Spoken, Ends
  <2> QED
    BY <1>0, <1>1, <2>1, <2>2
\* A step of another request or of the watchdog that completes t.
<1>10. ASSUME NEW t \in Task, NEW o \in Outcome, Complete(t, o), o.state # "none", at' = at
       PROVE  StoreInv'
  <2>1. CASE at[t] = "idle"
    <3>1. ~InStore(t)
      BY <2>1 DEF StoreInv, Recorded, InStore
    <3> QED
      BY <1>3, <1>10, <3>1 DEF Complete
  <2> QED
    BY <1>1, <1>10, <2>1
<1>11. ASSUME NEW t \in Task, CancelCompletes(t) PROVE StoreInv'
  <2>1. Note("canceled") \in Outcome /\ Note("canceled").state # "none"
    BY NoteTyped, OutcomesDiffer DEF Terminal
  <2> QED
    BY <1>10, <1>11, <2>1 DEF CancelCompletes
<1>12. ASSUME NEW t \in Task, WatchdogFails(t) PROVE StoreInv'
  <2>1. Orphaned \in Outcome /\ Orphaned.state # "none"
    BY NoteTyped DEF Orphaned
  <2> QED
    BY <1>10, <1>12, <2>1 DEF WatchdogFails
<1>13. ASSUME NEW t \in Task, WatchFinds(t) PROVE StoreInv'
  <2>1. /\ watch' = [watch EXCEPT ![t] = [at |-> "found", seen |-> None]]
        /\ UNCHANGED <<at, rec>> /\ InStore(t)
    BY <1>13 DEF WatchFinds
  <2> QED
    BY <1>0, <2>1 DEF StoreInv, Recorded, Told, InStore
<1>14. ASSUME NEW t \in Task, Watches(t) PROVE StoreInv'
  <2>1. UNCHANGED <<at, rec>> /\ watch[t].at = "found"
    BY <1>14 DEF Watches
  <2>2. CASE rec[t].state \in Terminal
    <3>1. watch' = [watch EXCEPT ![t] = [at |-> "told", seen |-> rec[t]]]
      BY <1>14, <2>2 DEF Watches
    <3> QED
      BY <1>0, <2>1, <2>2, <3>1 DEF StoreInv, Recorded, Told
  <2>3. CASE rec[t].state \notin Terminal
    <3> DEFINE a == IF InStore(t) THEN "watching" ELSE "none"
    <3>1. watch' = [watch EXCEPT ![t] = [watch[t] EXCEPT !.at = a]]
      BY <1>14, <2>3 DEF Watches
    <3>2. [watch[t] EXCEPT !.at = a].at = a
      BY <1>0, WatchChanged DEF WatchState
    <3>3. watch'[t].at = a /\ \A u \in Task : u # t => watch'[u] = watch[u]
      BY <1>0, <3>1, <3>2
    <3>4. a = "watching" => rec[t].state \in Live
      BY <1>0, <2>3 DEF InStore, Outcome
    <3>5. Told(t)'
      BY <2>1, <3>3, <3>4 DEF Told, StoreInv
    <3> QED
      BY <2>1, <3>3, <3>5 DEF StoreInv, Recorded, Told
  <2> QED
    BY <2>2, <2>3
<1>15. ASSUME NEW t \in Task, WatchEnds(t) PROVE StoreInv'
  <2>1. UNCHANGED <<at, rec>> /\ watch[t].at = "watching"
    BY <1>15 DEF WatchEnds
  <2>2. watch' = [watch EXCEPT ![t] = [watch[t] EXCEPT !.at = "none"]]
    BY <1>15 DEF WatchEnds
  <2>3. [watch[t] EXCEPT !.at = "none"].at = "none"
    BY <1>0, WatchChanged DEF WatchState
  <2>4. watch'[t].at = "none" /\ \A u \in Task : u # t => watch'[u] = watch[u]
    BY <1>0, <2>2, <2>3
  <2>5. Told(t)'
    BY <2>1, <2>4 DEF Told, StoreInv
  <2> QED
    BY <2>1, <2>4, <2>5 DEF StoreInv, Recorded, Told
<1>16. CASE Connect \/ Disconnect \/ WatchdogCopies \/ WatchdogLists
  BY <1>3, <1>16 DEF Connect, Disconnect, WatchdogCopies, WatchdogLists, storeVars
<1>17. ASSUME NEW t \in Task, CancelFinds(t) \/ CancelResolves(t) \/ AgentReplies(t)
       PROVE  StoreInv'
  BY <1>3, <1>17 DEF CancelFinds, CancelResolves, AgentReplies, storeVars
<1>18. ASSUME NEW c \in Context, NEW state \in Ending, AgentEnds(c, state) PROVE StoreInv'
  BY <1>3, <1>18 DEF AgentEnds, storeVars
<1>19. CASE UNCHANGED vars
  BY <1>3, <1>19 DEF vars, storeVars
<1> QED
  BY <1>4, <1>5, <1>6, <1>7, <1>8, <1>9, <1>11, <1>12, <1>13, <1>14, <1>15, <1>16,
     <1>17, <1>18, <1>19
  DEF Next, ThreadSteps, OtherRequests

(* No subscriber waits for a task that has ended, and what it was told     *)
(* stays true (watch, complete).                                           *)
THEOREM NoWatcherForgotten == Spec => []WatchersWoken
<1>1. StoreInv => WatchersWoken
  BY DEF StoreInv, Told, WatchersWoken
<1> QED
  BY <1>1, InitTyped, TypeStep, InitPending, PendingStep, InitSpoken, SpokenStep,
     InitStore, StoreStep, PTL DEF Spec

\* Who writes records, and what: only the watchdog writes its own text, for
\* a task on its list.
LEMMA StoreWriters ==
    ASSUME Typed, SpokenInv, [Next]_vars
    PROVE  \/ rec' = rec
           \/ \E t \in Task : at[t] = "idle" /\ rec' = [rec EXCEPT ![t] = Note("submitted")]
           \/ \E t \in Task : /\ rec[t].state \in Live
                              /\ rec' = [rec EXCEPT ![t].state = "working"]
           \/ \E t \in Task, o \in Outcome : Complete(t, o) /\ (o = Orphaned => t \in stale)
<1> DEFINE Written == \E t \in Task, o \in Outcome :
                         Complete(t, o) /\ (o = Orphaned => t \in stale)
<1>0. \A s \in Terminal : Note(s) \in Outcome /\ Note(s) # Orphaned
  BY HermesValues, NoteTyped DEF Note, Orphaned
<1>1. ASSUME NEW t \in Task, EndsTask(t) PROVE Written
  BY <1>0, <1>1 DEF EndsTask, Terminal
<1>2. ASSUME NEW t \in Task, DispatchFails(t) PROVE Written
  BY <1>0, <1>2 DEF DispatchFails, Terminal
<1>3. ASSUME NEW t \in Task, Records(t) PROVE Written
  <2>1. result[t] \in Outcome /\ result[t] # Orphaned
    BY DEF Typed, TypeOK, SpokenInv, Spoken, Orphaned
  <2> QED
    BY <1>3, <2>1 DEF Records
<1>4. ASSUME NEW t \in Task, CancelCompletes(t) PROVE Written
  BY <1>0, <1>4 DEF CancelCompletes, Terminal
<1>5. ASSUME NEW t \in Task, WatchdogFails(t) PROVE Written
  BY <1>5, NoteTyped DEF WatchdogFails
<1>6. ASSUME NEW t \in Task,
             \/ StartsForward(t) \/ ForwardEnds(t) \/ AddsPending(t) \/ Dispatches(t)
             \/ GetsReply(t) \/ GivesUp(t) \/ Answers(t) \/ AgentReplies(t)
             \/ CancelFinds(t) \/ CancelResolves(t) \/ WatchFinds(t) \/ Watches(t) \/ WatchEnds(t)
      PROVE  rec' = rec
  BY <1>6 DEF StartsForward, ForwardEnds, AddsPending, Dispatches, GetsReply, GivesUp, Answers,
              AgentReplies, CancelFinds, CancelResolves, WatchFinds, Watches, WatchEnds, storeVars
<1>7. ASSUME NEW c \in Context, NEW state, AgentEnds(c, state) PROVE rec' = rec
  BY <1>7 DEF AgentEnds, storeVars
<1>8. ASSUME Connect \/ Disconnect \/ WatchdogCopies \/ WatchdogLists \/ UNCHANGED vars
      PROVE  rec' = rec
  BY <1>8 DEF Connect, Disconnect, WatchdogCopies, WatchdogLists, vars, storeVars
<1>9. ASSUME NEW t \in Task, NEW c, NEW rejected, Prepares(t, c, rejected)
      PROVE  at[t] = "idle" /\ rec' = [rec EXCEPT ![t] = Note("submitted")]
  BY <1>9 DEF Prepares, Goes
<1>10. ASSUME NEW t \in Task, SetsWorking(t)
       PROVE  \/ rec' = rec
              \/ rec[t].state \in Live /\ rec' = [rec EXCEPT ![t].state = "working"]
  BY <1>10 DEF SetsWorking
<1> DEFINE Fresh == \E t \in Task : at[t] = "idle" /\ rec' = [rec EXCEPT ![t] = Note("submitted")]
           Works == \E t \in Task : /\ rec[t].state \in Live
                                   /\ rec' = [rec EXCEPT ![t].state = "working"]
           Goal == rec' = rec \/ Fresh \/ Works \/ Written
<1>11. ASSUME NEW t \in Task, NEW c, NEW rejected, Prepares(t, c, rejected) PROVE Goal
  BY <1>9, <1>11
<1>12. ASSUME NEW t \in Task, SetsWorking(t) PROVE Goal
  BY <1>10, <1>12
<1> HIDE DEF Written, Fresh, Works
<1>13. ASSUME NEW t \in Task, ThreadSteps(t) PROVE Goal
  BY <1>1, <1>2, <1>3, <1>6, <1>12, <1>13 DEF ThreadSteps
<1>14. ASSUME NEW t \in Task, OtherRequests(t) \/ AgentReplies(t) \/ WatchdogFails(t) PROVE Goal
  BY <1>4, <1>5, <1>6, <1>14 DEF OtherRequests
<1>15. ASSUME NEW c \in Context, NEW state, AgentEnds(c, state) PROVE Goal
  BY <1>7, <1>15
<1>16. ASSUME Connect \/ Disconnect \/ WatchdogCopies \/ WatchdogLists \/ UNCHANGED vars
       PROVE  Goal
  BY <1>8, <1>16
<1>17. Goal
  <2> HIDE DEF Goal
  <2> QED  BY <1>11, <1>13, <1>14, <1>15, <1>16 DEF Next
<1> QED
  BY <1>17 DEF Written, Fresh, Works

(* The first outcome of a task stays, whoever comes second: its thread, a  *)
(* cancel, the watchdog or set_state; a record can only be dropped.        *)
THEOREM FirstOutcomeStays == Spec => OutcomeStays
<1>1. Typed /\ SpokenInv /\ StoreInv /\ [Next]_vars =>
        [\A t \in Task : rec[t].state \in Terminal \cup {"trimmed"} =>
            rec'[t] \in {rec[t], Note("trimmed")}]_vars
  <2> SUFFICES ASSUME Typed, SpokenInv, StoreInv, [Next]_vars,
                      NEW u \in Task, rec[u].state \in Terminal \cup {"trimmed"}
               PROVE  rec'[u] \in {rec[u], Note("trimmed")}
    OBVIOUS
  <2>0. rec \in [Task -> Outcome] /\ rec[u].state \notin Live \cup {"none"}
    BY DEF Typed, TypeOK, Terminal, Live
  <2>1. ASSUME NEW t \in Task, at[t] = "idle", rec' = [rec EXCEPT ![t] = Note("submitted")]
        PROVE  rec'[u] = rec[u]
    BY <2>0, <2>1 DEF StoreInv, Recorded
  <2>2. ASSUME NEW t \in Task, rec[t].state \in Live, rec' = [rec EXCEPT ![t].state = "working"]
        PROVE  rec'[u] = rec[u]
    BY <2>0, <2>2
  <2>3. ASSUME NEW t \in Task, NEW o \in Outcome, Complete(t, o)
        PROVE  rec'[u] \in {rec[u], Note("trimmed")}
    <3>1. Completed(t, o) /\ (u # t => Untouched(u))
      BY <2>3, CompleteEffect DEF Typed
    <3>2. CASE u = t
      <4>1. ~(InStore(t) /\ rec[t].state \notin Terminal)
        BY <3>2 DEF InStore
      <4> QED
        BY <3>1, <3>2, <4>1 DEF Completed
    <3> QED
      BY <3>1, <3>2 DEF Untouched
  <2> QED
    BY <2>1, <2>2, <2>3, StoreWriters
<1> QED
  BY <1>1, InitTyped, TypeStep, InitPending, PendingStep, InitSpoken, SpokenStep,
     InitStore, StoreStep, PTL DEF Spec, OutcomeStays

-----------------------------------------------------------------------------
(***************************************************************************)
(* The watchdog.  A task it does not spare, or has listed, or has failed,  *)
(* was registered by nobody when the copy was made and will not be         *)
(* registered again: its thread is past the step that registers.           *)
(***************************************************************************)
Ownerless(t) ==
    at[t] \in Aged /\ t \notin active /\ (at[t] = "answered" \/ t \in forgotten)

OrphanInv ==
    \A t \in Task : t \notin spared \/ t \in stale \/ rec[t] = Orphaned => Ownerless(t)

\* At first nothing is suspected.
LEMMA InitOrphan == Init => OrphanInv
  BY HermesValues DEF Init, OrphanInv, None, Note, Orphaned

\* No step gives a task an owner that has none.
LEMMA OwnerlessStays ==
    ASSUME Typed, [Next]_vars, NEW u \in Task, Ownerless(u)
    PROVE  Ownerless(u)'
<1> USE DEF Ownerless
<1>0. /\ at \in [Task -> {"idle", "rejecting", "created", "pending", "dispatched"} \cup Aged]
      /\ active \subseteq Task
  BY DEF Typed, TypeOK
\* A thread past its first steps goes on, and a thread in them is another.
<1>1. ASSUME NEW t \in Task, NEW from, NEW to, Goes(t, from, to), from # "answered",
             from \in Aged => to \in Aged, active' \subseteq active \cup {t},
             active' \subseteq active \/ from \notin Aged, forgotten' = forgotten
      PROVE  Ownerless(u)'
  BY <1>0, <1>1 DEF Goes
<1>2. ASSUME NEW t \in Task, NEW c, NEW rejected, Prepares(t, c, rejected)
      PROVE  Ownerless(u)'
  BY <1>0, <1>2 DEF Prepares, Goes, Aged, pendingVars, platformVars
<1>3. ASSUME NEW t \in Task, EndsTask(t) PROVE Ownerless(u)'
  <2>1. \/ Goes(t, "rejecting", "answered")
        \/ Goes(t, "created", "answered")
    BY <1>3 DEF EndsTask
  <2>2. active' = active /\ forgotten' = forgotten
    BY <1>3 DEF EndsTask, pendingVars, platformVars
  <2> QED
    BY <1>1, <2>1, <2>2 DEF Aged
<1>4. ASSUME NEW t \in Task, StartsForward(t) \/ AddsPending(t) PROVE Ownerless(u)'
  BY <1>1, <1>4 DEF StartsForward, AddsPending, Aged, platformVars
<1>5. ASSUME NEW t \in Task, ForwardEnds(t) \/ Dispatches(t) \/ DispatchFails(t) PROVE Ownerless(u)'
  BY <1>1, <1>5 DEF ForwardEnds, Dispatches, DispatchFails, Aged, pendingVars, platformVars
<1>6. ASSUME NEW t \in Task, SetsWorking(t) \/ GetsReply(t) \/ GivesUp(t) \/ Records(t)
      PROVE  Ownerless(u)'
  BY <1>1, <1>6 DEF SetsWorking, GetsReply, GivesUp, Records, Aged, pendingVars, platformVars
<1>7. ASSUME NEW t \in Task, Answers(t) PROVE Ownerless(u)'
  BY <1>1, <1>7 DEF Answers, PopPending, Aged, platformVars
<1>8. CASE UNCHANGED <<at, active, forgotten>>
  BY <1>8
<1>9. ASSUME NEW t \in Task, OtherRequests(t) PROVE Ownerless(u)'
  BY <1>8, <1>9 DEF OtherRequests, CancelFinds, CancelCompletes, CancelResolves, WatchFinds,
                    Watches, WatchEnds, pendingVars, platformVars
<1>10. ASSUME NEW t \in Task, AgentReplies(t) \/ WatchdogFails(t) PROVE Ownerless(u)'
  BY <1>8, <1>10 DEF AgentReplies, WatchdogFails, pendingVars, platformVars
<1>11. ASSUME NEW c \in Context, NEW state, AgentEnds(c, state) PROVE Ownerless(u)'
  BY <1>8, <1>11 DEF AgentEnds, platformVars
<1>12. CASE Disconnect
  BY <1>12 DEF Disconnect
<1>13. CASE Connect \/ WatchdogCopies \/ WatchdogLists \/ UNCHANGED vars
  BY <1>8, <1>13 DEF Connect, WatchdogCopies, WatchdogLists, vars, pendingVars, platformVars
<1> HIDE DEF Ownerless
<1> QED
  BY <1>2, <1>3, <1>4, <1>5, <1>6, <1>7, <1>9, <1>10, <1>11, <1>12, <1>13
  DEF Next, ThreadSteps

\* Only a new copy spares fewer tasks, and only the list adds to what is stale.
LEMMA WatchdogMoves ==
    ASSUME Typed, [Next]_vars
    PROVE  /\ WatchdogCopies \/ spared \subseteq spared'
           /\ WatchdogLists \/ stale' \subseteq stale
<1>0. spared \subseteq Task /\ stale \subseteq Task
  BY DEF Typed, TypeOK
<1> DEFINE Goal == /\ WatchdogCopies \/ spared \subseteq spared'
                   /\ WatchdogLists \/ stale' \subseteq stale
<1> SUFFICES Goal
  OBVIOUS
<1>1. ASSUME UNCHANGED <<spared, stale>> PROVE Goal
  BY <1>1
<1>2. ASSUME NEW t \in Task, NEW c, NEW rejected, Prepares(t, c, rejected) PROVE Goal
  BY <1>1, <1>2 DEF Prepares, platformVars, watchdogVars
<1>3. ASSUME NEW t \in Task, ThreadSteps(t) PROVE Goal
  BY <1>1, <1>3 DEF ThreadSteps, EndsTask, StartsForward, ForwardEnds, AddsPending, Dispatches,
                    DispatchFails, SetsWorking, GetsReply, GivesUp, Records, Answers,
                    platformVars, watchdogVars
<1>4. ASSUME NEW t \in Task, OtherRequests(t) \/ AgentReplies(t) PROVE Goal
  BY <1>1, <1>4 DEF OtherRequests, CancelFinds, CancelCompletes, CancelResolves, WatchFinds,
                    Watches, WatchEnds, AgentReplies, platformVars, watchdogVars
<1>5. ASSUME NEW c \in Context, NEW state, AgentEnds(c, state) PROVE Goal
  BY <1>1, <1>5 DEF AgentEnds, platformVars, watchdogVars
<1>6. ASSUME NEW t \in Task, WatchdogFails(t) PROVE Goal
  BY <1>6 DEF WatchdogFails
<1>7. ASSUME Connect \/ Disconnect \/ UNCHANGED vars PROVE Goal
  BY <1>1, <1>7 DEF Connect, Disconnect, vars, platformVars, watchdogVars
<1>8. CASE WatchdogCopies
  BY <1>8 DEF WatchdogCopies
<1>9. CASE WatchdogLists
  BY <1>0, <1>9 DEF WatchdogLists
<1> HIDE DEF Goal
<1> QED
  BY <1>2, <1>3, <1>4, <1>5, <1>6, <1>7, <1>8, <1>9 DEF Next

\* Every step keeps the suspicions of the watchdog right.
LEMMA OrphanStep ==
    Typed /\ PendingInv /\ SpokenInv /\ OrphanInv /\ [Next]_vars => OrphanInv'
<1> SUFFICES ASSUME Typed, PendingInv, SpokenInv, OrphanInv, [Next]_vars,
                    NEW u \in Task, (u \notin spared \/ u \in stale \/ rec[u] = Orphaned)'
             PROVE  Ownerless(u)'
  BY DEF OrphanInv
<1>0. rec \in [Task -> Outcome]
  BY DEF Typed, TypeOK
<1>1. CASE u \notin spared \/ u \in stale \/ rec[u] = Orphaned
  BY <1>1, OwnerlessStays DEF OrphanInv
<1>2. CASE u \in spared /\ u \notin spared'
  <2>1. WatchdogCopies
    BY <1>2, WatchdogMoves
  <2>2. at[u] \in Aged /\ u \notin active
    BY <1>2, <2>1 DEF WatchdogCopies
  <2>3. at[u] = "answered" \/ u \in forgotten
    BY <2>2 DEF PendingInv, Registered, Serving, Aged
  <2> QED
    BY <2>2, <2>3, OwnerlessStays DEF Ownerless
<1>3. CASE u \notin stale /\ u \in stale'
  <2>1. u \notin spared
    BY <1>3, WatchdogMoves DEF WatchdogLists
  <2> QED
    BY <1>1, <2>1
<1>4. CASE rec[u] # Orphaned /\ rec'[u] = Orphaned
  <2>0. /\ Note("submitted") # Orphaned /\ Note("trimmed") # Orphaned
        /\ Orphaned.state = "failed"
    BY HermesValues DEF Note, Orphaned
  <2>1. ASSUME NEW t \in Task, rec' = [rec EXCEPT ![t] = Note("submitted")] PROVE FALSE
    BY <1>0, <1>4, <2>0, <2>1
  <2>2. ASSUME NEW t \in Task, rec[t].state \in Live, rec' = [rec EXCEPT ![t].state = "working"]
        PROVE FALSE
    <3>1. [rec[t] EXCEPT !.state = "working"].state = "working"
      BY <1>0, StateChanged DEF Live
    <3>2. rec' = [rec EXCEPT ![t] = [rec[t] EXCEPT !.state = "working"]]
      BY <2>2
    <3> QED
      BY <1>0, <1>4, <2>0, <3>1, <3>2
  <2>3. ASSUME NEW t \in Task, NEW o \in Outcome, Complete(t, o), o = Orphaned => t \in stale
        PROVE  u \in stale
    <3>1. Completed(t, o) /\ (u # t => Untouched(u))
      BY <2>3, CompleteEffect DEF Typed
    <3>2. u = t /\ rec'[t] = o
      BY <1>4, <2>0, <3>1 DEF Completed, Untouched
    <3> QED
      BY <1>4, <2>3, <3>2
  <2>4. u \in stale
    BY <1>4, <2>1, <2>2, <2>3, StoreWriters
  <2> QED
    BY <1>1, <2>4
<1> QED
  BY <1>1, <1>2, <1>3, <1>4

(* The watchdog, although it acts on copies, fails no task that a request  *)
(* has registered, and fails a task that is still served only if           *)
(* disconnect() forgot its owner (_fail_orphans_once, fail_orphans).       *)
THEOREM WatchdogSparesOwned == Spec => []OwnedNotOrphaned
<1>1. OrphanInv => OwnedNotOrphaned
  BY DEF OrphanInv, Ownerless, OwnedNotOrphaned
<1> QED
  BY <1>1, InitTyped, TypeStep, InitPending, PendingStep, InitSpoken, SpokenStep,
     InitOrphan, OrphanStep, PTL DEF Spec

-----------------------------------------------------------------------------
(***************************************************************************)
(* One send, one answer.  Nobody holds a text that was not sent yet: the   *)
(* sends are numbered, and a command has printed nothing before its thread *)
(* goes on.                                                                *)
(***************************************************************************)
Unsent == {"idle", "rejecting", "created", "forwarding", "pending"}

Holds(t, u, n) ==
    \/ future[t].by = u /\ future[t].nth = n
    \/ result[t].by = u /\ result[t].nth = n

KeptInv ==
    /\ \A u \in ran : at[u] \notin Unsent
    /\ \A t, u \in Task, n \in 0 .. MaxSends : Holds(t, u, n) =>
         context[t] = context[u] /\ at[u] \notin Unsent /\ n <= sends
    /\ \A t, v, u \in Task, n \in 0 .. MaxSends :
         Holds(t, u, n) /\ Holds(v, u, n) => t = v

\* At first nothing was said.
LEMMA InitKept == Init => KeptInv
<1> SUFFICES ASSUME Init PROVE KeptInv
  OBVIOUS
<1>1. \A t, u \in Task : \A n : ~Holds(t, u, n)
  BY HermesValues, OutcomesDiffer DEF Init, Holds
<1> QED
  BY <1>1 DEF Init, KeptInv

\* Nobody gets hold of a text.
LEMMA KeptStill ==
    ASSUME KeptInv, context' = context, sends' = sends, ran' = ran,
           \A t, u \in Task, n \in 0 .. MaxSends : Holds(t, u, n)' => Holds(t, u, n),
           \A u \in Task : at[u] \notin Unsent => at'[u] \notin Unsent, ran \subseteq Task
    PROVE  KeptInv'
  BY DEF KeptInv

\* The new text n of u's run reaches w.
LEMMA KeptGets ==
    ASSUME KeptInv, Typed, Typed', NEW u \in Task, NEW w \in Task, NEW n \in 0 .. MaxSends,
           \A t \in Task : ~Holds(t, u, n), context[w] = context[u], context' = context,
           ran' = ran, at'[u] \notin Unsent, n <= sends', sends <= sends',
           \A t, v \in Task, m \in 0 .. MaxSends :
              Holds(t, v, m)' => Holds(t, v, m) \/ (t = w /\ v = u /\ m = n),
           \A v \in Task : at[v] \notin Unsent => at'[v] \notin Unsent
    PROVE  KeptInv'
<1>1. sends \in Nat /\ sends' \in Nat /\ ran \subseteq Task /\ 0 .. MaxSends \subseteq Nat
  BY HermesValues DEF Typed, TypeOK
<1> QED
  BY <1>1 DEF KeptInv

\* A future set to a text of nobody's is held by nobody.
LEMMA ResolvedWithNote ==
    ASSUME NEW t \in Task, NEW s \in Terminal, future \in [Task -> Outcome],
           Resolve(t, Note(s)), result' = result
    PROVE  \A v, u \in Task : \A n : Holds(v, u, n)' => Holds(v, u, n)
<1>1. Note(s).by \notin Task
  BY HermesValues, OutcomesDiffer
<1> QED
  BY <1>1 DEF Resolve, Holds

\* Every step keeps what was said for the thread that waits for it.
LEMMA KeptStep ==
    Typed /\ PendingInv /\ SpokenInv /\ KeptInv /\ [Next]_vars => KeptInv'
<1> SUFFICES ASSUME Typed, PendingInv, SpokenInv, KeptInv, [Next]_vars
             PROVE  KeptInv'
  OBVIOUS
<1>0. /\ at \in [Task -> {"idle", "rejecting", "created", "pending", "dispatched"} \cup Aged]
      /\ queue \in [Context -> Seq(Task)] /\ context \in [Task -> Context]
      /\ future \in [Task -> Outcome] /\ result \in [Task -> Outcome]
      /\ pending \subseteq Task /\ ran \subseteq Task /\ sends \in 0 .. MaxSends
  BY DEF Typed, TypeOK
<1>n. /\ \A s \in Terminal : Note(s).by \notin Task
      /\ None.by \notin Task
  BY HermesValues, OutcomesDiffer
<1>t. Typed'
  BY TypeStep
\* A thread that goes on without getting hold of a text.
<1>1. ASSUME NEW t \in Task, NEW from, NEW to, Goes(t, from, to),
             from \in Unsent \/ to \notin Unsent, UNCHANGED <<context, ran, sends>>,
             \A v, u \in Task : \A n : Holds(v, u, n)' => Holds(v, u, n)
      PROVE  KeptInv'
  <2>1. \A u \in Task : at[u] \notin Unsent => at'[u] \notin Unsent
    BY <1>0, <1>1 DEF Goes
  <2> QED
    BY <1>0, <1>1, <2>1, KeptStill
<1>2. CASE UNCHANGED <<at, context, ran, sends, future, result>>
  BY <1>0, <1>2, KeptStill DEF Holds
<1>3. ASSUME NEW t \in Task, NEW c, NEW rejected, Prepares(t, c, rejected)
      PROVE  KeptInv'
  <2>1. /\ at[t] = "idle" /\ at'[t] \in Unsent
        /\ \A u \in Task : u # t => at'[u] = at[u] /\ context'[u] = context[u]
        /\ UNCHANGED <<future, result, ran, sends>>
    BY <1>0, <1>3 DEF Prepares, Goes, Unsent, pendingVars, agentVars
  <2>2. \A u \in Task : \A n : ~Holds(t, u, n)
    BY <1>n, <2>1 DEF SpokenInv, Spoken, Holds
  <2>3. \A u \in Task, n \in 0 .. MaxSends : ~Holds(u, t, n)
    BY <2>1 DEF KeptInv, Unsent
  <2>4. \A u, v \in Task : \A n : Holds(u, v, n)' <=> Holds(u, v, n)
    BY <2>1 DEF Holds
  <2>5. t \notin ran
    BY <2>1 DEF KeptInv, Unsent
  <2>6. \A u \in ran' : at'[u] \notin Unsent
    BY <1>0, <2>1, <2>5 DEF KeptInv
  <2>7. ASSUME NEW v \in Task, NEW u \in Task, NEW n \in 0 .. MaxSends, Holds(v, u, n)'
        PROVE  context'[v] = context'[u] /\ at'[u] \notin Unsent /\ n <= sends'
    <3>1. Holds(v, u, n) /\ v # t /\ u # t
      BY <2>2, <2>3, <2>4, <2>7
    <3>2. context[v] = context[u] /\ at[u] \notin Unsent /\ n <= sends
      BY <3>1 DEF KeptInv
    <3> QED
      BY <2>1, <3>1, <3>2
  <2>8. \A w, v, u \in Task, n \in 0 .. MaxSends :
          Holds(w, u, n)' /\ Holds(v, u, n)' => w = v
    BY <2>4 DEF KeptInv
  <2> QED
    BY <2>6, <2>7, <2>8 DEF KeptInv
<1>4. ASSUME NEW t \in Task, EndsTask(t) PROVE KeptInv'
  <2>1. PICK o \in {Note("rejected"), Note("failed")} :
            /\ Goes(t, IF o.state = "rejected" THEN "rejecting" ELSE "created", "answered")
            /\ result' = [result EXCEPT ![t] = o]
            /\ UNCHANGED <<context, ran, sends, future>>
    BY <1>4 DEF EndsTask, agentVars, pendingVars
  <2>2. o.by \notin Task
    BY <1>n DEF Terminal
  <2>3. \A v, u \in Task : \A n : Holds(v, u, n)' => Holds(v, u, n)
    BY <1>0, <2>1, <2>2 DEF Holds
  <2> QED
    BY <1>1, <2>1, <2>3 DEF Unsent
<1>5. ASSUME NEW t \in Task, StartsForward(t) \/ AddsPending(t) PROVE KeptInv'
  <2>1. \A v, u \in Task : \A n : Holds(v, u, n)' => Holds(v, u, n)
    BY <1>5 DEF StartsForward, AddsPending, Holds
  <2> QED
    BY <1>1, <1>5, <2>1 DEF StartsForward, AddsPending, agentVars, Unsent
<1>6. ASSUME NEW t \in Task, ForwardEnds(t) PROVE KeptInv'
  <2>1. /\ at[t] = "forwarding" /\ at' = [at EXCEPT ![t] = "recording"]
        /\ UNCHANGED <<context, ran, sends, future>>
    BY <1>6 DEF ForwardEnds, Goes, agentVars, pendingVars
  <2>2. PICK o \in {Said(t, 0), Note("failed")} : result' = [result EXCEPT ![t] = o]
    BY <1>6 DEF ForwardEnds
  <2>3. o.by \in Task => o.by = t /\ o.nth = 0
    BY <1>n, OutcomesDiffer, NoteTyped DEF Terminal
  <2>4. \A v, u \in Task, n \in 0 .. MaxSends :
          Holds(v, u, n)' => Holds(v, u, n) \/ (v = t /\ u = t /\ n = 0)
    BY <1>0, <2>1, <2>2, <2>3 DEF Holds
  <2>5. \A v \in Task, n \in 0 .. MaxSends : ~Holds(v, t, n)
    BY <2>1 DEF KeptInv, Unsent
  <2>6. \A u \in Task : at[u] \notin Unsent => at'[u] \notin Unsent
    BY <1>0, <2>1 DEF Unsent
  <2>7. at'[t] \notin Unsent /\ 0 \in 0 .. MaxSends /\ 0 <= sends' /\ sends <= sends'
    BY <1>0, <2>1, NoteTyped, HermesValues DEF Unsent
  <2> QED
    BY <1>t, <2>1, <2>4, <2>5, <2>6, <2>7, KeptGets
<1>7. ASSUME NEW t \in Task, Dispatches(t) PROVE KeptInv'
  <2>1. /\ at[t] = "pending" /\ at' = [at EXCEPT ![t] = "dispatched"] /\ ran' = ran \cup {t}
        /\ UNCHANGED <<context, sends, future, result>>
    BY <1>7 DEF Dispatches, Goes, pendingVars
  <2>2. \A v, u \in Task : \A n : Holds(v, u, n)' => Holds(v, u, n)
    BY <2>1 DEF Holds
  <2>3. \A u \in Task : at[u] \notin Unsent \/ u = t => at'[u] \notin Unsent
    BY <1>0, <2>1 DEF Unsent
  <2> QED
    BY <1>0, <2>1, <2>2, <2>3 DEF KeptInv
<1>8. ASSUME NEW t \in Task, DispatchFails(t) PROVE KeptInv'
  <2>1. \A v, u \in Task : \A n : Holds(v, u, n)' => Holds(v, u, n)
    BY <1>0, <1>n, <1>8 DEF DispatchFails, Holds, pendingVars, Terminal
  <2> QED
    BY <1>1, <1>8, <2>1 DEF DispatchFails, agentVars, Unsent
<1>9. ASSUME NEW t \in Task, SetsWorking(t) \/ Records(t) PROVE KeptInv'
  <2>1. \A v, u \in Task : \A n : Holds(v, u, n)' => Holds(v, u, n)
    BY <1>9 DEF SetsWorking, Records, Holds, pendingVars
  <2> QED
    BY <1>1, <1>9, <2>1 DEF SetsWorking, Records, agentVars, Unsent
<1>10. ASSUME NEW t \in Task, GetsReply(t) PROVE KeptInv'
  <2>1. Finalized(future[t]).by = future[t].by /\ Finalized(future[t]).nth = future[t].nth
    <3>1. future[t] \in Speech
      BY <1>0, <1>10 DEF GetsReply, Speech, SpokenInv, Spoken
    <3> QED
      BY <3>1, SpeechIs
  <2>2. \A v, u \in Task : \A n : Holds(v, u, n)' => Holds(v, u, n)
    BY <1>0, <1>10, <2>1 DEF GetsReply, Holds, pendingVars
  <2> QED
    BY <1>1, <1>10, <2>2 DEF GetsReply, agentVars, Unsent
<1>11. ASSUME NEW t \in Task, GivesUp(t) PROVE KeptInv'
  <2>1. \A v, u \in Task : \A n : Holds(v, u, n)' => Holds(v, u, n)
    BY <1>0, <1>n, <1>11 DEF GivesUp, Holds, pendingVars, Terminal
  <2> QED
    BY <1>1, <1>11, <2>1 DEF GivesUp, agentVars, Unsent
<1>12. ASSUME NEW t \in Task, Answers(t) PROVE KeptInv'
  <2>1. \A v, u \in Task : \A n : Holds(v, u, n)' => Holds(v, u, n)
    BY <1>0, <1>n, <1>12 DEF Answers, PopPending, Holds
  <2> QED
    BY <1>1, <1>12, <2>1 DEF Answers, agentVars, Unsent
<1>13. ASSUME NEW t \in Task, CancelResolves(t) PROVE KeptInv'
  <2>1. \A v, u \in Task : \A n : Holds(v, u, n)' => Holds(v, u, n)
    BY <1>0, <1>13, ResolvedWithNote DEF CancelResolves, Terminal
  <2> QED
    BY <1>0, <1>13, <2>1, KeptStill DEF CancelResolves, agentVars
<1>14. ASSUME NEW h \in Task, AgentReplies(h) PROVE KeptInv'
  <2> DEFINE open == {t \in pending : context[t] = context[h] /\ Resolvable(t)}
  <2>0. PICK n \in 0 .. MaxSends : n = sends + 1
    BY <1>0, <1>14, HermesValues DEF AgentReplies
  <2>1. h \in ran /\ sends' = n /\ UNCHANGED <<at, context, result, ran>>
    BY <1>14, <2>0 DEF AgentReplies
  <2>2. future' = [t \in Task |->
                     IF t \in open /\ ahead[t] \cap open = {} THEN Said(h, n) ELSE future[t]]
    BY <1>14, <2>0 DEF AgentReplies, ResolveOldest
  <2>3. at[h] \notin Unsent /\ sends <= sends' /\ ~(n <= sends)
    BY <1>0, <2>0, <2>1, HermesValues DEF KeptInv
  <2>4. \A t \in Task : ~Holds(t, h, n)
    BY <2>3 DEF KeptInv
  <2>5. Said(h, n).by = h /\ Said(h, n).nth = n
    BY OutcomesDiffer
  <2>6. \A t \in Task : \/ future'[t] = future[t]
                        \/ t \in open /\ ahead[t] \cap open = {} /\ future'[t] = Said(h, n)
    BY <2>2
  <2>7. PICK w \in Task : /\ context[w] = context[h]
                         /\ \A t \in Task : future'[t] # future[t] => t = w
    <3>1. CASE \A t \in Task : future'[t] = future[t]
      BY <3>1
    <3>2. ASSUME NEW w \in Task, future'[w] # future[w]
          PROVE  context[w] = context[h] /\ \A t \in Task : future'[t] # future[t] => t = w
      <4>1. w \in open /\ ahead[w] \cap open = {}
        BY <2>6, <3>2
      <4>2. \A t \in open : ahead[t] \cap open = {} => t = w
        BY <4>1 DEF PendingInv, InTurn
      <4> QED
        BY <2>6, <4>1, <4>2
    <3> QED
      BY <3>1, <3>2
  <2>8. \A t, v \in Task, m \in 0 .. MaxSends :
          Holds(t, v, m)' => Holds(t, v, m) \/ (t = w /\ v = h /\ m = n)
    <3> HIDE DEF open
    <3> QED  BY <2>1, <2>5, <2>6, <2>7 DEF Holds
  <2>9. /\ at'[h] \notin Unsent /\ n <= sends'
        /\ \A v \in Task : at[v] \notin Unsent => at'[v] \notin Unsent
    BY <1>0, <2>0, <2>1, <2>3, HermesValues
  <2> QED
    BY <1>t, <2>1, <2>3, <2>4, <2>7, <2>8, <2>9, KeptGets
<1>15. ASSUME NEW c \in Context, NEW state \in Ending, AgentEnds(c, state) PROVE KeptInv'
  <2>1. Head(queue[c]) \in Task /\ state \in Terminal
    BY <1>0, <1>15, HermesValues DEF AgentEnds, Terminal
  <2>2. \A v, u \in Task : \A n : Holds(v, u, n)' => Holds(v, u, n)
    BY <1>0, <1>15, <2>1, ResolvedWithNote DEF AgentEnds
  <2> QED
    BY <1>0, <1>15, <2>2, KeptStill DEF AgentEnds
<1>16. CASE Disconnect
  <2>1. \A v, u \in Task : \A n : Holds(v, u, n)' => Holds(v, u, n)
    BY <1>n, <1>16 DEF Disconnect, Holds, Terminal
  <2> QED
    BY <1>0, <1>16, <2>1, KeptStill DEF Disconnect, agentVars
<1>17. CASE Connect \/ WatchdogCopies \/ WatchdogLists
  BY <1>2, <1>17 DEF Connect, WatchdogCopies, WatchdogLists, pendingVars, agentVars
<1>18. ASSUME NEW t \in Task,
              \/ CancelFinds(t) \/ CancelCompletes(t) \/ WatchdogFails(t)
              \/ WatchFinds(t) \/ Watches(t) \/ WatchEnds(t)
       PROVE  KeptInv'
  BY <1>2, <1>18 DEF CancelFinds, CancelCompletes, WatchdogFails, WatchFinds, Watches, WatchEnds,
                     pendingVars, agentVars
<1>19. CASE UNCHANGED vars
  BY <1>2, <1>19 DEF vars, pendingVars, agentVars
<1> QED
  BY <1>3, <1>4, <1>5, <1>6, <1>7, <1>8, <1>9, <1>10, <1>11, <1>12, <1>13, <1>14, <1>15,
     <1>16, <1>17, <1>18, <1>19
  DEF Next, ThreadSteps, OtherRequests

(* A final send answers at most one request, and one of its own context,   *)
(* however many final sends a run makes and however late they come: send() *)
(* is told the context only, and the requests of a context time out, are   *)
(* cancelled and are forgotten in between (_resolve_oldest_for_context).   *)
THEOREM OneSendOneAnswer == Spec => []RepliesKept
<1>1. Typed /\ KeptInv => RepliesKept
  <2> SUFFICES ASSUME Typed, KeptInv, NEW t \in Task, NEW u \in Task, result[t].by \in Task
               PROVE  /\ context[result[t].by] = context[t]
                      /\ result[t].by = result[u].by /\ result[t].nth = result[u].nth => t = u
    BY DEF RepliesKept
  <2>1. result[t].nth \in 0 .. MaxSends
    BY DEF Typed, TypeOK, Outcome
  <2>2. Holds(t, result[t].by, result[t].nth)
    BY DEF Holds
  <2>3. result[t].by = result[u].by /\ result[t].nth = result[u].nth =>
          Holds(u, result[t].by, result[t].nth)
    BY DEF Holds
  <2> QED
    BY <2>1, <2>2, <2>3 DEF KeptInv
<1> QED
  BY <1>1, InitTyped, TypeStep, InitPending, PendingStep, InitSpoken, SpokenStep,
     InitKept, KeptStep, PTL DEF Spec
=============================================================================
