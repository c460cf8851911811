-------------------------- MODULE SSHTunnel_proofs --------------------------
(***************************************************************************)
(* Proofs about SSHTunnel, for any process ids, any requests and any       *)
(* number of reconnects: nothing is left running, only a forward the       *)
(* daemon's own ssh announced passes for the tunnel, and no old connection *)
(* is used.                                                                *)
(***************************************************************************)
EXTENDS SSHTunnel, TLAPS

(* A daemon that has not started a tunnel is well typed.                   *)
LEMMA InitTyped == Init => TypeOK
<1> SUFFICES ASSUME Init PROVE TypeOK
  OBVIOUS
<1>1. /\ os \in [Pid -> {"free", "alive", "dead", "reaped"}]
      /\ req \in [Req -> [at : {"none", "admitted", "rotated", "sent"}, seen : Nat, used : Nat]]
  BY DEF Init
<1>2. /\ closing \in BOOLEAN /\ cancelled \in BOOLEAN
      /\ confirmed \in BOOLEAN /\ ready \in BOOLEAN
  BY DEF Init
<1> QED
  BY <1>1, <1>2 DEF Init, TypeOK

(* Every step of _run, close, ssh, the port and the requests keeps the     *)
(* types.                                                                  *)
LEMMA TypeStep == TypeOK /\ [Next]_vars => TypeOK'
<1> SUFFICES ASSUME TypeOK, [Next]_vars PROVE TypeOK'
  OBVIOUS
<1> USE TunnelValues DEF TypeOK, runVars, closeVars, ownVars, readyVars, osVars, clientVars
<1>1. CASE UNCHANGED vars
  BY <1>1 DEF vars
<1>2. CASE Start
  BY <1>2 DEF Start, Goes
<1>3. CASE CloseBegins
  BY <1>3 DEF CloseBegins
<1>4. CASE CloseEnds
  BY <1>4 DEF CloseEnds, Goes
<1>5. CASE Cancelled
  BY <1>5 DEF Cancelled, CleansUp
<1>6. CASE CannotSpawn
  BY <1>6 DEF CannotSpawn, CleansUp
<1>7. CASE SpawnEnds
  BY <1>7 DEF SpawnEnds, CleansUp
<1>8. CASE InspectionPasses
  BY <1>8 DEF InspectionPasses, CleansUp
<1>9. CASE InspectionFails
  BY <1>9 DEF InspectionFails, CleansUp
<1>10. CASE ProbeAccepted
  BY <1>10 DEF ProbeAccepted, Goes, Ended
<1>11. CASE ProbeTimesOut
  BY <1>11 DEF ProbeTimesOut, CleansUp
<1>12. CASE Settles
  <2>1. /\ ready' = TRUE \/ ready' = ready
        /\ generation' = generation + 1 \/ generation' = generation
        /\ pc' \in {"ready", "probing"}
    BY <1>12, Zenon DEF Settles
  <2>2. UNCHANGED <<stage, then, closeVars, ownVars, confirmed, osVars, clientVars>>
    BY <1>12 DEF Settles
  <2>3. ready' \in BOOLEAN
    BY <2>1
  <2>4. generation' \in Nat
    BY <2>1
  <2>5. pc' \in {"ready", "probing"}
    BY <2>1
  <2> QED
    BY <2>2, <2>3, <2>4, <2>5
<1>13. CASE ProcessEnds
  BY <1>13 DEF ProcessEnds
<1>14. CASE Classifies
  BY <1>14 DEF Classifies, CleansUp
<1>15. CASE BackoffEnds
  BY <1>15 DEF BackoffEnds, Goes
<1>16. CASE Terminates
  BY <1>16 DEF Terminates, Goes
<1>17. CASE ExitSeen
  BY <1>17 DEF ExitSeen, Goes, Ended
<1>18. CASE ExitTimesOut
  BY <1>18 DEF ExitTimesOut, Killed
<1>19. CASE Drained
  BY <1>19 DEF Drained, Forgets
<1>20. CASE DrainTimesOut
  BY <1>20 DEF DrainTimesOut, Killed, Forgets
<1>21. CASE ReadsStderr
  BY <1>21 DEF ReadsStderr
<1>22. CASE ForeignTakes
  BY <1>22 DEF ForeignTakes
<1>23. ASSUME NEW p \in Pid, Spawns(p) PROVE TypeOK'
  BY <1>23 DEF Spawns, Goes
<1>24. ASSUME NEW p \in Pid, Reaps(p) PROVE TypeOK'
  BY <1>24 DEF Reaps
<1>25. ASSUME NEW p \in Pid, SshSays(p) PROVE TypeOK'
  BY <1>25 DEF SshSays
<1>33. ASSUME NEW p \in Pid, SshBinds(p) PROVE TypeOK'
  BY <1>33 DEF SshBinds
<1>26. ASSUME NEW p \in Pid, SshExits(p) PROVE TypeOK'
  BY <1>26 DEF SshExits
<1>27. ASSUME NEW p \in Pid, HelperStarts(p) PROVE TypeOK'
  BY <1>27 DEF HelperStarts
<1>28. ASSUME NEW p \in Pid, HelperExits(p) PROVE TypeOK'
  BY <1>28 DEF HelperExits
<1>29. ASSUME NEW r \in Req, Admits(r) PROVE TypeOK'
  BY <1>29 DEF Admits, Available, tunnelVars
<1>30. ASSUME NEW r \in Req, Rotates(r) PROVE TypeOK'
  BY <1>30 DEF Rotates, tunnelVars
<1>31. ASSUME NEW r \in Req, Sends(r) PROVE TypeOK'
  BY <1>31 DEF Sends, tunnelVars
<1>32. ASSUME NEW r \in Req, Answered(r) PROVE TypeOK'
  <2>1. req' \in [Req -> [at : {"none", "admitted", "rotated", "sent"}, seen : Nat, used : Nat]]
    BY <1>32 DEF Answered
  <2> QED
    BY <1>32, <2>1 DEF Answered, tunnelVars
<1> QED
  BY <1>1, <1>2, <1>3, <1>4, <1>5, <1>6, <1>7, <1>8, <1>9, <1>10, <1>11,
     <1>12, <1>13, <1>14, <1>15, <1>16, <1>17, <1>18, <1>19, <1>20, <1>21,
     <1>22, <1>23, <1>24, <1>25, <1>26, <1>27, <1>28, <1>29, <1>30, <1>31,
     <1>32, <1>33
     DEF Next, RunSteps, World

(* Every value stays in its type.                                          *)
THEOREM TunnelTyped == Spec => []TypeOK
  BY InitTyped, TypeStep, PTL DEF Spec

-----------------------------------------------------------------------------
(***************************************************************************)
(* Ownership follows the coroutine: between its stages self.process is     *)
(* None, a child that is not taken over yet is the only one, and a cleanup *)
(* forgets a process only after its exit was seen.                         *)
(***************************************************************************)
OwnInv ==
    /\ pc = "spawning" => spawned \in Pid /\ process = NoPid
    /\ pc # "spawning" => spawned = NoPid
    /\ pc \in {"none", "begin", "backoff", "ended"} => process = NoPid
    /\ pc \in {"inspecting", "probing", "settling", "ready", "draining", "exit"}
         => process \in Pid
    /\ pc = "drain" => process = NoPid \/ Ended(process)
    /\ reader \in {NoPid, process}
    /\ \A p \in Pid : os[p] = "alive" => p \in {process, spawned}

(* Nothing is owned, and nothing runs, before start().                     *)
LEMMA InitOwn == Init => OwnInv
  BY TunnelValues DEF Init, OwnInv

(* Each stage of _run hands the process on, or ends it before it forgets   *)
(* it.                                                                     *)
LEMMA OwnStep == TypeOK /\ OwnInv /\ [Next]_vars => OwnInv'
<1> SUFFICES ASSUME TypeOK, OwnInv, [Next]_vars PROVE OwnInv'
  OBVIOUS
<1> USE TunnelValues DEF TypeOK, OwnInv, Ended, runVars, closeVars, ownVars, readyVars, osVars,
                         clientVars
<1>1. CASE UNCHANGED vars
  BY <1>1 DEF vars
<1>2. CASE Start
  BY <1>2 DEF Start, Goes
<1>3. CASE CloseBegins
  BY <1>3 DEF CloseBegins
<1>4. CASE CloseEnds
  BY <1>4 DEF CloseEnds, Goes
<1>5. CASE Cancelled
  BY <1>5 DEF Cancelled, CleansUp
<1>6. CASE CannotSpawn
  BY <1>6 DEF CannotSpawn, CleansUp
<1>7. CASE SpawnEnds
  BY <1>7 DEF SpawnEnds, CleansUp
<1>8. CASE InspectionPasses
  BY <1>8 DEF InspectionPasses, CleansUp
<1>9. CASE InspectionFails
  BY <1>9 DEF InspectionFails, CleansUp
<1>10. CASE ProbeAccepted
  BY <1>10 DEF ProbeAccepted, Goes, Ended
<1>11. CASE ProbeTimesOut
  BY <1>11 DEF ProbeTimesOut, CleansUp
<1>12. CASE Settles
  BY <1>12 DEF Settles, Ended
<1>13. CASE ProcessEnds
  BY <1>13 DEF ProcessEnds
<1>14. CASE Classifies
  BY <1>14 DEF Classifies, CleansUp
<1>15. CASE BackoffEnds
  BY <1>15 DEF BackoffEnds, Goes
<1>16. CASE Terminates
  BY <1>16 DEF Terminates, Goes
<1>17. CASE ExitSeen
  BY <1>17 DEF ExitSeen, Goes, Ended
<1>18. CASE ExitTimesOut
  BY <1>18 DEF ExitTimesOut, Killed
<1>19. CASE Drained
  BY <1>19 DEF Drained, Forgets
<1>20. CASE DrainTimesOut
  BY <1>20 DEF DrainTimesOut, Killed, Forgets
<1>21. CASE ReadsStderr
  BY <1>21 DEF ReadsStderr
<1>22. CASE ForeignTakes
  BY <1>22 DEF ForeignTakes
<1>23. ASSUME NEW p \in Pid, Spawns(p) PROVE OwnInv'
  BY <1>23 DEF Spawns, Goes
<1>24. ASSUME NEW p \in Pid, Reaps(p) PROVE OwnInv'
  BY <1>24 DEF Reaps
<1>25. ASSUME NEW p \in Pid, SshSays(p) PROVE OwnInv'
  BY <1>25 DEF SshSays
<1>33. ASSUME NEW p \in Pid, SshBinds(p) PROVE OwnInv'
  BY <1>33 DEF SshBinds
<1>26. ASSUME NEW p \in Pid, SshExits(p) PROVE OwnInv'
  BY <1>26 DEF SshExits
<1>27. ASSUME NEW p \in Pid, HelperStarts(p) PROVE OwnInv'
  BY <1>27 DEF HelperStarts
<1>28. ASSUME NEW p \in Pid, HelperExits(p) PROVE OwnInv'
  BY <1>28 DEF HelperExits
<1>29. ASSUME NEW r \in Req, Admits(r) PROVE OwnInv'
  BY <1>29 DEF Admits, Available, tunnelVars
<1>30. ASSUME NEW r \in Req, Rotates(r) PROVE OwnInv'
  BY <1>30 DEF Rotates, tunnelVars
<1>31. ASSUME NEW r \in Req, Sends(r) PROVE OwnInv'
  BY <1>31 DEF Sends, tunnelVars
<1>32. ASSUME NEW r \in Req, Answered(r) PROVE OwnInv'
  BY <1>32 DEF Answered, tunnelVars
<1> QED
  BY <1>1, <1>2, <1>3, <1>4, <1>5, <1>6, <1>7, <1>8, <1>9, <1>10, <1>11,
     <1>12, <1>13, <1>14, <1>15, <1>16, <1>17, <1>18, <1>19, <1>20, <1>21,
     <1>22, <1>23, <1>24, <1>25, <1>26, <1>27, <1>28, <1>29, <1>30, <1>31,
     <1>32, <1>33
     DEF Next, RunSteps, World

(* Ownership holds in every reachable state.                               *)
LEMMA OwnAlways == Spec => []OwnInv
  BY InitOwn, OwnStep, TunnelTyped, PTL DEF Spec

(* No cancellation leaves an ssh process behind, and there is at most one. *)
THEOREM ProcessesAreOwned == Spec => []OwnsEveryProcess
<1>1. TypeOK /\ OwnInv => OwnsEveryProcess
  BY TunnelValues DEF TypeOK, OwnInv, OwnsEveryProcess
<1> QED
  BY <1>1, OwnAlways, TunnelTyped, PTL

-----------------------------------------------------------------------------
(***************************************************************************)
(* A confirmation that was not read yet comes from a process that holds    *)
(* the port, is about to bind it or is gone, and it is forgotten before    *)
(* the next connection is spawned; the inspection, which resets nothing,   *)
(* never becomes ready.                                                    *)
(***************************************************************************)
ForwardInv ==
    /\ ready => /\ pc \in {"ready", "draining", "term"}
                /\ stage = "connect" /\ confirmed
    /\ pc \in {"probing", "settling", "ready", "draining"} => stage = "connect"
    /\ pc = "spawning" /\ stage = "connect" => ~confirmed
    /\ \A p \in binding : os[p] = "alive"
    /\ \A p \in said : os[p] = "alive" => port = p \/ p \in binding
    /\ confirmed /\ stage = "connect" /\ process \in Pid /\ os[process] = "alive"
         => port = process \/ process \in binding
    /\ \A p \in {process, spawned} : p \in Pid => os[p] # "free"

(* Nothing is confirmed before start().                                    *)
LEMMA InitForward == Init => ForwardInv
  BY TunnelValues DEF Init, ForwardInv

(* A confirmation stays tied to the process that gave it.                  *)
LEMMA ForwardStep == TypeOK /\ OwnInv /\ ForwardInv /\ [Next]_vars => ForwardInv'
<1> SUFFICES ASSUME TypeOK, OwnInv, ForwardInv, [Next]_vars PROVE ForwardInv'
  OBVIOUS
<1> USE TunnelValues DEF TypeOK, OwnInv, ForwardInv, Ended, runVars, closeVars, ownVars,
                         readyVars, osVars, clientVars
<1>1. CASE UNCHANGED vars
  BY <1>1 DEF vars
<1>2. CASE Start
  BY <1>2 DEF Start, Goes
<1>3. CASE CloseBegins
  BY <1>3 DEF CloseBegins
<1>4. CASE CloseEnds
  BY <1>4 DEF CloseEnds, Goes
<1>5. CASE Cancelled
  BY <1>5 DEF Cancelled, CleansUp
<1>6. CASE CannotSpawn
  BY <1>6 DEF CannotSpawn, CleansUp
<1>7. CASE SpawnEnds
  BY <1>7 DEF SpawnEnds, CleansUp
<1>8. CASE InspectionPasses
  BY <1>8 DEF InspectionPasses, CleansUp
<1>9. CASE InspectionFails
  BY <1>9 DEF InspectionFails, CleansUp
<1>10. CASE ProbeAccepted
  BY <1>10 DEF ProbeAccepted, Goes, Ended
<1>11. CASE ProbeTimesOut
  BY <1>11 DEF ProbeTimesOut, CleansUp
<1>12. CASE Settles
  BY <1>12 DEF Settles, Ended
<1>13. CASE ProcessEnds
  BY <1>13 DEF ProcessEnds
<1>14. CASE Classifies
  BY <1>14 DEF Classifies, CleansUp
<1>15. CASE BackoffEnds
  BY <1>15 DEF BackoffEnds, Goes
<1>16. CASE Terminates
  BY <1>16 DEF Terminates, Goes
<1>17. CASE ExitSeen
  BY <1>17 DEF ExitSeen, Goes, Ended
<1>18. CASE ExitTimesOut
  BY <1>18 DEF ExitTimesOut, Killed
<1>19. CASE Drained
  BY <1>19 DEF Drained, Forgets
<1>20. CASE DrainTimesOut
  BY <1>20 DEF DrainTimesOut, Killed, Forgets
<1>21. CASE ReadsStderr
  BY <1>21 DEF ReadsStderr
<1>22. CASE ForeignTakes
  BY <1>22 DEF ForeignTakes
<1>23. ASSUME NEW p \in Pid, Spawns(p) PROVE ForwardInv'
  BY <1>23 DEF Spawns, Goes
<1>24. ASSUME NEW p \in Pid, Reaps(p) PROVE ForwardInv'
  BY <1>24 DEF Reaps
<1>25. ASSUME NEW p \in Pid, SshSays(p) PROVE ForwardInv'
  BY <1>25 DEF SshSays
<1>33. ASSUME NEW p \in Pid, SshBinds(p) PROVE ForwardInv'
  BY <1>33 DEF SshBinds
<1>26. ASSUME NEW p \in Pid, SshExits(p) PROVE ForwardInv'
  BY <1>26 DEF SshExits
<1>27. ASSUME NEW p \in Pid, HelperStarts(p) PROVE ForwardInv'
  BY <1>27 DEF HelperStarts
<1>28. ASSUME NEW p \in Pid, HelperExits(p) PROVE ForwardInv'
  BY <1>28 DEF HelperExits
<1>29. ASSUME NEW r \in Req, Admits(r) PROVE ForwardInv'
  BY <1>29 DEF Admits, Available, tunnelVars
<1>30. ASSUME NEW r \in Req, Rotates(r) PROVE ForwardInv'
  BY <1>30 DEF Rotates, tunnelVars
<1>31. ASSUME NEW r \in Req, Sends(r) PROVE ForwardInv'
  BY <1>31 DEF Sends, tunnelVars
<1>32. ASSUME NEW r \in Req, Answered(r) PROVE ForwardInv'
  BY <1>32 DEF Answered, tunnelVars
<1> QED
  BY <1>1, <1>2, <1>3, <1>4, <1>5, <1>6, <1>7, <1>8, <1>9, <1>10, <1>11,
     <1>12, <1>13, <1>14, <1>15, <1>16, <1>17, <1>18, <1>19, <1>20, <1>21,
     <1>22, <1>23, <1>24, <1>25, <1>26, <1>27, <1>28, <1>29, <1>30, <1>31,
     <1>32, <1>33
     DEF Next, RunSteps, World

(* What requests are sent to is the forward of the ssh process that the    *)
(* daemon owns, one it has announced and is about to bind, or a port it    *)
(* held until it died a moment ago: never a port that merely answers.      *)
THEOREM ForwardIsOwned == Spec => []ForwardOwned
<1>1. TypeOK /\ OwnInv /\ ForwardInv => ForwardOwned
  BY TunnelValues DEF TypeOK, OwnInv, ForwardInv, ForwardOwned, Available, Ended
<1> QED
  BY <1>1, InitForward, ForwardStep, OwnAlways, TunnelTyped, PTL DEF Spec

-----------------------------------------------------------------------------
(***************************************************************************)
(* Generations only grow, so a pool that was rotated after a request was   *)
(* admitted is never behind what the request has seen.                     *)
(***************************************************************************)
PoolInv ==
    /\ pool <= generation
    /\ \A r \in Req :
         /\ req[r].at # "none" => req[r].seen <= generation
         /\ req[r].at = "rotated" => req[r].seen <= pool
         /\ req[r].at = "sent" => req[r].seen <= req[r].used

(* No request is under way before start().                                 *)
LEMMA InitPool == Init => PoolInv
  BY DEF Init, PoolInv

(* Requests and rotations only follow the generation upwards.              *)
LEMMA PoolStep == TypeOK /\ PoolInv /\ [Next]_vars => PoolInv'
<1> SUFFICES ASSUME TypeOK, PoolInv, [Next]_vars PROVE PoolInv'
  OBVIOUS
<1> USE DEF TypeOK, PoolInv, runVars, closeVars, ownVars, readyVars, osVars, clientVars
<1>1. CASE UNCHANGED vars
  BY <1>1 DEF vars
<1>2. CASE Start
  BY <1>2 DEF Start, Goes
<1>3. CASE CloseBegins
  BY <1>3 DEF CloseBegins
<1>4. CASE CloseEnds
  BY <1>4 DEF CloseEnds, Goes
<1>5. CASE Cancelled
  BY <1>5 DEF Cancelled, CleansUp
<1>6. CASE CannotSpawn
  BY <1>6 DEF CannotSpawn, CleansUp
<1>7. CASE SpawnEnds
  BY <1>7 DEF SpawnEnds, CleansUp
<1>8. CASE InspectionPasses
  BY <1>8 DEF InspectionPasses, CleansUp
<1>9. CASE InspectionFails
  BY <1>9 DEF InspectionFails, CleansUp
<1>10. CASE ProbeAccepted
  BY <1>10 DEF ProbeAccepted, Goes, Ended
<1>11. CASE ProbeTimesOut
  BY <1>11 DEF ProbeTimesOut, CleansUp
<1>12. CASE Settles
  BY <1>12 DEF Settles, Ended
<1>13. CASE ProcessEnds
  BY <1>13 DEF ProcessEnds
<1>14. CASE Classifies
  BY <1>14 DEF Classifies, CleansUp
<1>15. CASE BackoffEnds
  BY <1>15 DEF BackoffEnds, Goes
<1>16. CASE Terminates
  BY <1>16 DEF Terminates, Goes
<1>17. CASE ExitSeen
  BY <1>17 DEF ExitSeen, Goes, Ended
<1>18. CASE ExitTimesOut
  BY <1>18 DEF ExitTimesOut, Killed
<1>19. CASE Drained
  BY <1>19 DEF Drained, Forgets
<1>20. CASE DrainTimesOut
  BY <1>20 DEF DrainTimesOut, Killed, Forgets
<1>21. CASE ReadsStderr
  BY <1>21 DEF ReadsStderr
<1>22. CASE ForeignTakes
  BY <1>22 DEF ForeignTakes
<1>23. ASSUME NEW p \in Pid, Spawns(p) PROVE PoolInv'
  BY <1>23 DEF Spawns, Goes
<1>24. ASSUME NEW p \in Pid, Reaps(p) PROVE PoolInv'
  BY <1>24 DEF Reaps
<1>25. ASSUME NEW p \in Pid, SshSays(p) PROVE PoolInv'
  BY <1>25 DEF SshSays
<1>33. ASSUME NEW p \in Pid, SshBinds(p) PROVE PoolInv'
  BY <1>33 DEF SshBinds
<1>26. ASSUME NEW p \in Pid, SshExits(p) PROVE PoolInv'
  BY <1>26 DEF SshExits
<1>27. ASSUME NEW p \in Pid, HelperStarts(p) PROVE PoolInv'
  BY <1>27 DEF HelperStarts
<1>28. ASSUME NEW p \in Pid, HelperExits(p) PROVE PoolInv'
  BY <1>28 DEF HelperExits
<1>29. ASSUME NEW r \in Req, Admits(r) PROVE PoolInv'
  BY <1>29 DEF Admits, Available, tunnelVars
<1>30. ASSUME NEW r \in Req, Rotates(r) PROVE PoolInv'
  BY <1>30 DEF Rotates, tunnelVars
<1>31. ASSUME NEW r \in Req, Sends(r) PROVE PoolInv'
  BY <1>31 DEF Sends, tunnelVars
<1>32. ASSUME NEW r \in Req, Answered(r) PROVE PoolInv'
  BY <1>32 DEF Answered, tunnelVars
<1> QED
  BY <1>1, <1>2, <1>3, <1>4, <1>5, <1>6, <1>7, <1>8, <1>9, <1>10, <1>11,
     <1>12, <1>13, <1>14, <1>15, <1>16, <1>17, <1>18, <1>19, <1>20, <1>21,
     <1>22, <1>23, <1>24, <1>25, <1>26, <1>27, <1>28, <1>29, <1>30, <1>31,
     <1>32, <1>33
     DEF Next, RunSteps, World

(* No request is sent on connections older than the tunnel it was admitted *)
(* for.                                                                    *)
THEOREM PoolIsCurrent == Spec => []PoolCurrent
<1>1. TypeOK /\ PoolInv => PoolCurrent
  BY DEF TypeOK, PoolInv, PoolCurrent
<1> QED
  BY <1>1, InitPool, PoolStep, TunnelTyped, PTL DEF Spec
=============================================================================
