----------------------------- MODULE SSHTunnel -----------------------------
(***************************************************************************)
(* The tunnel the client daemon owns (ssh_tunnel.py) and the transport     *)
(* that sends every broker request through it (client.py).                 *)
(*                                                                         *)
(* _run() is a coroutine; close() cancels it at any await.  The ssh        *)
(* processes, the helpers that inherit their stderr and the holder of the  *)
(* local port change on their own.  The stages are those of the code:      *)
(* inspect the configuration, bind the port for a moment, spawn, probe the *)
(* port, wait for the end, clean up, back off.  Everything a stage checks  *)
(* beyond that (the arguments, the words of stderr, the delays) is a       *)
(* choice between its outcomes.                                            *)
(***************************************************************************)
EXTENDS Naturals

CONSTANTS
    Pid,           \* process ids
    NoPid,         \* None
    Foreign,       \* another program that listens on the local port
    Req,           \* requests to the broker
    MaxGeneration  \* bound: how often ssh gets to forward the port

ASSUME TunnelValues ==
    /\ NoPid \notin Pid /\ Foreign \notin Pid /\ NoPid # Foreign
    /\ MaxGeneration \in Nat

VARIABLES
    pc,          \* where _run is; "none" is no task
    stage,       \* what is spawned: the inspection or the connection
    then,        \* what follows the cleanup
    closing,     \* close() waits for the task
    cancelled,   \* its cancellation is not delivered yet
    process,     \* self.process
    spawned,     \* the child of a spawn that was not awaited yet
    reader,      \* whose stderr _reader reads
    confirmed,   \* _forward_confirmed
    ready,
    generation,
    os,          \* the processes; "reaped" once returncode is known
    forwards,    \* the processes started with -L
    helpers,     \* processes with a helper that holds their stderr
    said,        \* processes whose confirmation was not read yet
    binding,     \* processes that have announced the forward and not bound it
    port,        \* who listens on the local port
    pool,        \* the generation of the transport's connections
    req          \* the requests: where they are, what they saw and used

runVars == <<pc, stage, then>>
closeVars == <<closing, cancelled>>
ownVars == <<process, spawned, reader>>
readyVars == <<confirmed, ready, generation>>
osVars == <<os, forwards, helpers, said, binding, port>>
clientVars == <<pool, req>>
vars == <<runVars, closeVars, ownVars, readyVars, osVars, clientVars>>

-----------------------------------------------------------------------------
Ended(p) == os[p] = "reaped"

\* stderr is at its end only when every process that holds it is gone.
ReaderDone ==
    reader # NoPid => os[reader] # "alive" /\ reader \notin helpers \cup said

\* The property available: ready, and no returncode yet.
Available == ready /\ process # NoPid /\ ~Ended(process)

Goes(from, to) == pc = from /\ pc' = to

\* To the cleanup, and from there to `next`.
CleansUp(next) == pc' = "term" /\ then' = next /\ UNCHANGED stage

-----------------------------------------------------------------------------
(***************************************************************************)
(* start(), close() and the inspection.                                    *)
(***************************************************************************)
Start ==
    /\ Goes("none", "begin")
    /\ stage' = "inspect"
    /\ UNCHANGED <<then, closeVars, ownVars, readyVars, osVars, clientVars>>

CloseBegins ==
    /\ pc # "none" /\ ~closing
    /\ closing' = TRUE
    /\ cancelled' = (pc # "ended")
    /\ UNCHANGED <<runVars, ownVars, readyVars, osVars, clientVars>>

\* The task is over; the cleanup of close() finds nothing left.
CloseEnds ==
    /\ closing /\ Goes("ended", "none")
    /\ closing' = FALSE
    /\ cancelled' = FALSE
    /\ UNCHANGED <<stage, then, ownVars, readyVars, osVars, clientVars>>

\* CancelledError at an await; one inside a cleanup starts another.  It also
\* ends a reader that is awaited without a shield.
Cancelled ==
    /\ cancelled
    /\ pc \in {"begin", "inspecting", "probing", "settling", "ready", "draining", "exit",
               "drain", "backoff"}
    /\ cancelled' = FALSE
    /\ reader' = IF pc = "draining" THEN NoPid ELSE reader
    /\ CleansUp("ended")
    /\ UNCHANGED <<closing, process, spawned, readyVars, osVars, clientVars>>

\* The identity file or the executable is missing, or, before a connection,
\* the port cannot be bound.
CannotSpawn ==
    /\ pc = "begin"
    /\ CleansUp("ended")
    /\ UNCHANGED <<closeVars, ownVars, readyVars, osVars, clientVars>>

Spawns(p) ==
    /\ Goes("begin", "spawning")
    /\ stage = "connect" => port = NoPid
    /\ os[p] \in {"free", "reaped"} /\ p \notin helpers
    /\ os' = [os EXCEPT ![p] = "alive"]
    /\ forwards' = IF stage = "connect" THEN forwards \cup {p} ELSE forwards \ {p}
    /\ said' = said \ {p}
    /\ spawned' = p
    /\ confirmed' = IF stage = "connect" THEN FALSE ELSE confirmed
    /\ UNCHANGED <<stage, then, closeVars, process, reader, ready, generation, helpers, binding,
                   port, clientVars>>

\* A cancelled spawn still takes the child over before it cleans up.
MutantSpawnEnds ==
    /\ pc = "spawning"
    /\ spawned' = NoPid
    /\ process' = IF cancelled THEN NoPid ELSE spawned
    /\ reader' = IF cancelled THEN NoPid ELSE spawned
    /\ cancelled' = FALSE
    /\ IF cancelled THEN CleansUp("ended")
       ELSE /\ pc' = IF stage = "inspect" THEN "inspecting" ELSE "probing"
            /\ UNCHANGED <<stage, then>>
    /\ UNCHANGED <<closing, readyVars, osVars, clientVars>>

SpawnEnds ==
    /\ pc = "spawning"
    /\ spawned' = NoPid
    /\ process' = spawned
    /\ reader' = IF cancelled THEN NoPid ELSE spawned
    /\ cancelled' = FALSE
    /\ IF cancelled THEN CleansUp("ended")
       ELSE /\ pc' = IF stage = "inspect" THEN "inspecting" ELSE "probing"
            /\ UNCHANGED <<stage, then>>
    /\ UNCHANGED <<closing, readyVars, osVars, clientVars>>

InspectionPasses ==
    /\ pc = "inspecting"
    /\ Ended(process) /\ ReaderDone
    /\ CleansUp("connect")
    /\ UNCHANGED <<closeVars, ownVars, readyVars, osVars, clientVars>>

\* A timeout, an inherited forward or an error of ssh -G.
InspectionFails ==
    /\ pc = "inspecting"
    /\ CleansUp("ended")
    /\ UNCHANGED <<closeVars, ownVars, readyVars, osVars, clientVars>>

-----------------------------------------------------------------------------
(***************************************************************************)
(* _connect: the port answers, ssh has said that it listens, and it still  *)
(* runs a moment later.                                                    *)
(***************************************************************************)
ProbeAccepted ==
    /\ Goes("probing", "settling")
    /\ ~Ended(process) /\ port # NoPid
    /\ UNCHANGED <<stage, then, closeVars, ownVars, readyVars, osVars, clientVars>>

ProbeTimesOut ==
    /\ pc = "probing"
    /\ ~Ended(process)
    /\ CleansUp("backoff")
    /\ UNCHANGED <<closeVars, ownVars, readyVars, osVars, clientVars>>

MutantSettles ==
    /\ pc = "settling"
    /\ IF ~Ended(process)
       THEN /\ pc' = "ready" /\ ready' = TRUE /\ generation' = generation + 1
       ELSE /\ pc' = "probing" /\ UNCHANGED <<ready, generation>>
    /\ UNCHANGED <<stage, then, closeVars, ownVars, confirmed, osVars, clientVars>>

Settles ==
    /\ pc = "settling"
    /\ IF ~Ended(process) /\ confirmed
       THEN /\ pc' = "ready" /\ ready' = TRUE /\ generation' = generation + 1
       ELSE /\ pc' = "probing" /\ UNCHANGED <<ready, generation>>
    /\ UNCHANGED <<stage, then, closeVars, ownVars, confirmed, osVars, clientVars>>

MutantProcessEnds ==
    /\ pc = "probing"
    /\ Ended(process)
    /\ pc' = "draining"
    /\ UNCHANGED <<stage, then, closeVars, ownVars, readyVars, osVars, clientVars>>

ProcessEnds ==
    /\ pc \in {"probing", "ready"}
    /\ Ended(process)
    /\ pc' = "draining"
    /\ UNCHANGED <<stage, then, closeVars, ownVars, readyVars, osVars, clientVars>>

\* classify_failure needs all of stderr, however long that takes.
Classifies ==
    /\ pc = "draining"
    /\ ReaderDone
    /\ \E next \in {"backoff", "ended"} : CleansUp(next)
    /\ UNCHANGED <<closeVars, ownVars, readyVars, osVars, clientVars>>

BackoffEnds ==
    /\ Goes("backoff", "begin")
    /\ stage' = "inspect"
    /\ UNCHANGED <<then, closeVars, ownVars, readyVars, osVars, clientVars>>

-----------------------------------------------------------------------------
(***************************************************************************)
(* _cleanup.  SIGTERM only makes an exit likely, so it changes nothing     *)
(* here; SIGKILL ends the process and the helpers of its group.            *)
(***************************************************************************)
Killed ==
    /\ os' = [os EXCEPT ![process] = IF @ = "alive" THEN "dead" ELSE @]
    /\ helpers' = helpers \ {process}
    /\ binding' = binding \ {process}
    /\ port' = IF port = process THEN NoPid ELSE port

Terminates ==
    /\ Goes("term", IF process = NoPid THEN "drain" ELSE "exit")
    /\ ready' = FALSE
    /\ UNCHANGED <<stage, then, closeVars, ownVars, confirmed, generation, osVars, clientVars>>

ExitSeen ==
    /\ Goes("exit", "drain")
    /\ Ended(process)
    /\ UNCHANGED <<stage, then, closeVars, ownVars, readyVars, osVars, clientVars>>

ExitTimesOut ==
    /\ pc = "exit"
    /\ os[process] = "alive"
    /\ Killed
    /\ UNCHANGED <<runVars, closeVars, ownVars, readyVars, forwards, said, clientVars>>

\* After the inspection comes the connection.
Forgets ==
    /\ process' = NoPid
    /\ reader' = NoPid
    /\ pc' = IF then = "connect" THEN "begin" ELSE then
    /\ stage' = IF then = "connect" THEN "connect" ELSE stage
    /\ UNCHANGED then

Drained ==
    /\ pc = "drain" /\ ReaderDone
    /\ Forgets
    /\ UNCHANGED <<closeVars, spawned, readyVars, osVars, clientVars>>

MutantDrainTimesOut ==
    /\ pc = "drain" /\ ReaderDone
    /\ Killed
    /\ Forgets
    /\ UNCHANGED <<closeVars, spawned, readyVars, forwards, said, clientVars>>

\* Three seconds are over: SIGKILL, and the reader is cancelled.
DrainTimesOut ==
    /\ pc = "drain" /\ ~ReaderDone
    /\ Killed
    /\ Forgets
    /\ UNCHANGED <<closeVars, spawned, readyVars, forwards, said, clientVars>>

-----------------------------------------------------------------------------
(***************************************************************************)
(* asyncio's child watcher and _read_stderr.                               *)
(***************************************************************************)
Reaps(p) ==
    /\ os[p] = "dead"
    /\ os' = [os EXCEPT ![p] = "reaped"]
    /\ UNCHANGED <<runVars, closeVars, ownVars, readyVars, forwards, helpers, said, binding, port,
                   clientVars>>

ReadsStderr ==
    /\ reader \in said
    /\ said' = said \ {reader}
    /\ confirmed' = TRUE
    /\ UNCHANGED <<runVars, closeVars, ownVars, ready, generation, os, forwards, helpers, binding,
                   port, clientVars>>

(***************************************************************************)
(* ssh, its helpers and other programs, which may do this at any time.     *)
(***************************************************************************)
\* ssh writes the line _read_stderr looks for before it binds the port.
SshSays(p) ==
    /\ os[p] = "alive" /\ p \in forwards
    /\ p \notin binding /\ port # p /\ generation < MaxGeneration
    /\ said' = said \cup {p}
    /\ binding' = binding \cup {p}
    /\ UNCHANGED <<runVars, closeVars, ownVars, readyVars, os, forwards, helpers, port, clientVars>>

SshBinds(p) ==
    /\ p \in binding /\ port = NoPid
    /\ binding' = binding \ {p}
    /\ port' = p
    /\ UNCHANGED <<runVars, closeVars, ownVars, readyVars, os, forwards, helpers, said, clientVars>>

\* Also the end of a bind that failed (ExitOnForwardFailure), as late as ssh
\* comes to it.
SshExits(p) ==
    /\ os[p] = "alive"
    /\ os' = [os EXCEPT ![p] = "dead"]
    /\ binding' = binding \ {p}
    /\ port' = IF port = p THEN NoPid ELSE port
    /\ UNCHANGED <<runVars, closeVars, ownVars, readyVars, forwards, helpers, said, clientVars>>

HelperStarts(p) ==
    /\ os[p] = "alive" /\ p \in forwards /\ p \notin helpers
    /\ helpers' = helpers \cup {p}
    /\ UNCHANGED <<runVars, closeVars, ownVars, readyVars, os, forwards, said, binding, port,
                   clientVars>>

HelperExits(p) ==
    /\ p \in helpers
    /\ helpers' = helpers \ {p}
    /\ UNCHANGED <<runVars, closeVars, ownVars, readyVars, os, forwards, said, binding, port,
                   clientVars>>

ForeignTakes ==
    /\ port \in {NoPid, Foreign}
    /\ port' = IF port = NoPid THEN Foreign ELSE NoPid
    /\ UNCHANGED <<runVars, closeVars, ownVars, readyVars, os, forwards, helpers, said, binding,
                   clientVars>>

-----------------------------------------------------------------------------
(***************************************************************************)
(* BrokerTransport.handle_async_request.                                   *)
(***************************************************************************)
tunnelVars == <<runVars, closeVars, ownVars, readyVars, osVars>>

\* A request is refused unless the tunnel is available.
Admits(r) ==
    /\ req[r].at = "none"
    /\ Available
    /\ req' = [req EXCEPT ![r] = [at |-> "admitted", seen |-> generation, used |-> 0]]
    /\ UNCHANGED <<tunnelVars, pool>>

\* Under the rotation lock; the old connections are closed after the swap.
MutantRotates(r) ==
    /\ req[r].at = "admitted"
    /\ req' = [req EXCEPT ![r].at = "rotated"]
    /\ pool' = IF pool = 0 THEN generation ELSE pool
    /\ UNCHANGED tunnelVars

Rotates(r) ==
    /\ req[r].at = "admitted"
    /\ req' = [req EXCEPT ![r].at = "rotated"]
    /\ pool' = generation
    /\ UNCHANGED tunnelVars

Sends(r) ==
    /\ req[r].at = "rotated"
    /\ req' = [req EXCEPT ![r] = [at |-> "sent", seen |-> @.seen, used |-> pool]]
    /\ UNCHANGED <<tunnelVars, pool>>

Answered(r) ==
    /\ req[r].at = "sent"
    /\ req' = [req EXCEPT ![r] = [at |-> "none", seen |-> 0, used |-> 0]]
    /\ UNCHANGED <<tunnelVars, pool>>

-----------------------------------------------------------------------------
Init ==
    /\ pc = "none" /\ stage = "inspect" /\ then = "ended"
    /\ closing = FALSE /\ cancelled = FALSE
    /\ process = NoPid /\ spawned = NoPid /\ reader = NoPid
    /\ confirmed = FALSE /\ ready = FALSE /\ generation = 0
    /\ os = [p \in Pid |-> "free"]
    /\ forwards = {} /\ helpers = {} /\ said = {} /\ binding = {}
    /\ port = NoPid
    /\ pool = 0
    /\ req = [r \in Req |-> [at |-> "none", seen |-> 0, used |-> 0]]

\* A step of _run that does not wait for anything else.
RunSteps ==
    \/ Cancelled \/ CannotSpawn \/ (\E p \in Pid : Spawns(p)) \/ SpawnEnds
    \/ InspectionPasses \/ InspectionFails
    \/ ProbeAccepted \/ ProbeTimesOut \/ Settles \/ ProcessEnds \/ Classifies \/ BackoffEnds
    \/ Terminates \/ ExitSeen \/ ExitTimesOut \/ Drained \/ DrainTimesOut

World ==
    \/ \E p \in Pid : \/ SshSays(p) \/ SshBinds(p) \/ SshExits(p)
                    \/ HelperStarts(p) \/ HelperExits(p)
    \/ ForeignTakes

Next ==
    \/ Start \/ CloseBegins \/ CloseEnds \/ RunSteps
    \/ (\E p \in Pid : Reaps(p)) \/ ReadsStderr
    \/ World
    \/ \E r \in Req : Admits(r) \/ Rotates(r) \/ Sends(r) \/ Answered(r)

Spec == Init /\ [][Next]_vars

(***************************************************************************)
(* Fairness.  The event loop runs a coroutine that can go on, the child    *)
(* watcher reports an exit, and stderr is read.  No progress is assumed of *)
(* ssh, of its helpers or of the operator.                                 *)
(***************************************************************************)
Fairness ==
    /\ WF_vars(RunSteps)
    /\ SF_vars(Cancelled)
    /\ WF_vars(CloseEnds)
    /\ \A p \in Pid : WF_vars(Reaps(p))
    /\ WF_vars(ReadsStderr)

FairSpec == Spec /\ Fairness

-----------------------------------------------------------------------------
(* Type invariant: the coroutine, what it owns, and the processes.         *)
TypeOK ==
    /\ pc \in {"none", "begin", "spawning", "inspecting", "probing", "settling", "ready",
               "draining", "term", "exit", "drain", "backoff", "ended"}
    /\ stage \in {"inspect", "connect"}
    /\ then \in {"connect", "backoff", "ended"}
    /\ closing \in BOOLEAN /\ cancelled \in BOOLEAN
    /\ confirmed \in BOOLEAN /\ ready \in BOOLEAN
    /\ process \in Pid \cup {NoPid} /\ spawned \in Pid \cup {NoPid}
    /\ reader \in Pid \cup {NoPid}
    /\ generation \in Nat /\ pool \in Nat
    /\ os \in [Pid -> {"free", "alive", "dead", "reaped"}]
    /\ forwards \subseteq Pid /\ helpers \subseteq Pid
    /\ said \subseteq Pid /\ binding \subseteq Pid
    /\ port \in Pid \cup {NoPid, Foreign}
    /\ req \in [Req -> [at : {"none", "admitted", "rotated", "sent"}, seen : Nat, used : Nat]]

(* The daemon owns every ssh process that runs, and there is at most one:  *)
(* no cancellation, not even one during a spawn, leaves a process behind   *)
(* that would keep the port (_spawn, _cleanup, close).                     *)
OwnsEveryProcess ==
    \A p \in Pid : os[p] = "alive" =>
        /\ p \in {process, spawned}
        /\ \A q \in Pid : os[q] = "alive" => p = q

(* Requests are let through only while ssh itself holds the local port,    *)
(* has announced the forward and not bound it yet, or has just died and    *)
(* asyncio does not know it: an answering port alone, or the words of an   *)
(* earlier process, never pass for the tunnel.  The middle case is what    *)
(* the survival check of _connect leaves of a foreign listener: a moment   *)
(* before ssh ends, for a bind that fails (_connect, available).           *)
ForwardOwned ==
    Available => \/ port = process
                 \/ process \in binding
                 \/ os[process] = "dead"

(* A request admitted in one generation of the tunnel is never sent on the *)
(* connections of an earlier one (handle_async_request).                   *)
PoolCurrent == \A r \in Req : req[r].at = "sent" => req[r].used >= req[r].seen

(* close() ends: no process, helper or stage holds it up for ever          *)
(* (close, _cleanup).                                                      *)
CloseReturns == closing ~> ~closing

\* A tunnel that was ready has lost its ssh process.
Lost == pc \in {"ready", "draining"} /\ os[process] # "alive"

(* docs/deployment.md: the daemon "reconnects connectivity".  After ssh    *)
(* has died, the tunnel makes another attempt, reports a failure or is     *)
(* closed, as long as no helper of the dead ssh keeps stderr open for      *)
(* ever: _connect waits for the end of stderr without the bound that       *)
(* _cleanup puts on the same wait (_connect, _run).                        *)
Reconnects ==
    (\A p \in Pid : WF_vars(HelperExits(p))) => Lost ~> pc \in {"begin", "ended", "none"}
=============================================================================
