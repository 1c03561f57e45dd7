---------------------------- MODULE KernelProofs ----------------------------
(***************************************************************************)
(* Proofs about Kernel, for every number of units and every choice of the  *)
(* background ones.                                                        *)
(***************************************************************************)
EXTENDS Kernel, FiniteSetTheorems, TLAPS

\* Where Engine.Run still walks the units, and where it is stopping a task.
Walking  == {"build", "loop", "validate", "plan", "exec", "run"}
AfterStop == {"await", "waiting", "join", "record"}
Stopping == {"stopping"} \cup AfterStop
Ended    == {"cleanup", "returned"}

\* While the units are walked nothing has failed, the units before cur are
\* completed or active, and a call is made for a unit that exists.
WalkInv ==
  pc \in Walking =>
    /\ status = "completed" /\ fatal = {} /\ monitorStop = {}
    /\ ~stopErr /\ ~shutdownErr
    /\ pc \notin {"build", "loop"} => cur \in Units
    /\ pc = "build" => cur = 1
    /\ pc = "run" => cur \notin Background
    /\ \A u \in Units : /\ u >= cur => result[u] = "none" /\ task[u] = "none"
                        /\ u < cur => u \in active \/ result[u] = "completed"

\* A started task is active until its unit has a result; a unit with a result
\* has no running task, no monitor and nothing left to post.
TaskInv ==
  /\ pc \in Stopping => bg \in active
  /\ pc \in AfterStop => task[bg] = "stopped"
  /\ pc = "record" => monitor[bg] \in {"none", "exited"}
  /\ pc \in Ended => active = {}
  /\ \A u \in Units :
       /\ u \in active => result[u] = "none" /\ task[u] # "none"
       /\ task[u] # "none" => u \in active \/ result[u] # "none"
       /\ result[u] # "none" => /\ u \notin active
                                /\ task[u] \in {"none", "stopped"}
                                /\ monitor[u] \in {"none", "exited"}

\* What a monitor has done follows from what its task put on Done: an error it
\* received is posted or fatal unless it still holds it.
MonitorInv ==
  /\ \A u \in Units :
       /\ monitor[u] = "none" <=> done[u] = "nil"
       /\ monitor[u] # "none" => task[u] # "none"
       /\ monitor[u] \in {"posting", "cancelling"} => done[u] = "failed"
       /\ monitor[u] = "cancelling" => u \in posted \cup fatal
       /\ monitor[u] = "exited" =>
            \/ done[u] = "closed"
            \/ u \in posted \cup fatal \cup monitorStop
  /\ \A u \in posted : u \in active
  /\ \A u \in monitorStop : u \in fatal \/ (pc = "join" /\ u = bg)

\* A fatal background is active or recorded as failed, and makes the run fail.
FatalInv ==
  /\ \A u \in fatal : u \in active \/ result[u] = "worker_failed"
  /\ fatal # {} => status = "worker_failed" \/ shutdownErr
  /\ pc \in Ended /\ shutdownErr => status = "worker_failed"

\* Only the caller cancels the context of a run in which nothing is posted, and
\* a unit is blamed for a cancellation only then.
BlameInv ==
  /\ pc \in Walking /\ runCtx = "cancelled" =>
       caller = "cancelled" \/ posted # {}
  /\ OwnBlame

\* A run that has not completed has a unit that says why; one that has, has
\* walked every unit.
Culprit ==
  \E u \in Units : result[u] \notin {"none", "completed"} \/ u \in fatal
VerdictInv ==
  /\ (status # "completed" \/ shutdownErr) =>
       Culprit \/ (pc = "returned" /\ \A u \in Units : result[u] = "none")
  /\ pc \notin Walking /\ status = "completed" =>
       \A u \in Units : u \in active \/ result[u] = "completed" \/ shutdownErr

\* An output that exists belongs to a unit that has a result or will get one.
OutputInv ==
  /\ \A u \in Units : outputs[u] = "open" => u \in active \/ result[u] # "none"
  /\ NoBlankResult

IInv == /\ TypeOK /\ WalkInv /\ TaskInv /\ MonitorInv /\ FatalInv /\ BlameInv
        /\ VerdictInv /\ OutputInv

-----------------------------------------------------------------------------
(* Validate and Plan differ only in where they stand.                      *)

PrepareFrame == /\ pc \in {"validate", "plan"}
                /\ UNCHANGED <<cur, outputs>>
                /\ UNCHANGED <<stopVars, taskVars, ctxVars>>

\* The call returned without an error.
PrepareGoesOn ==
  /\ PrepareFrame
  /\ pc' \in {"plan", "exec"}
  /\ UNCHANGED <<status, result, posted, fatal, blame>>

\* It returned an error r, and background failures were already posted.
PrepareInterrupted(r) ==
  /\ PrepareFrame
  /\ pc' = "stop"
  /\ posted # {} /\ posted' = {} /\ fatal' = fatal \cup posted
  /\ status' = "worker_failed"
  /\ blame' = [blame EXCEPT ![cur] = r]
  /\ UNCHANGED result

\* It returned an error r, and the unit at hand gets the verdict f.
PrepareBlamed(f, r) ==
  /\ PrepareFrame
  /\ pc' = "stop"
  /\ posted = {} /\ posted' = {} /\ UNCHANGED fatal
  /\ status' = f
  /\ result' = [result EXCEPT ![cur] = f]
  /\ r = "cancelled" => runCtx = "cancelled"
  /\ blame' = [blame EXCEPT ![cur] = r]

Error == {"own", "cancelled"}

\* A return of Validate or Plan does one of these three things.
LEMMA PrepareEffect ==
  ASSUME ValidateReturns \/ PlanReturns
  PROVE  \/ PrepareGoesOn
         \/ \E r \in Error : PrepareInterrupted(r)
         \/ \E f \in {"config_failed", "plan_failed"}, r \in Error :
              PrepareBlamed(f, r)
<1>1. ASSUME NEW call \in {"validate", "plan"}, NEW next \in {"plan", "exec"},
             NEW f \in {"config_failed", "plan_failed"}, NEW r \in Outcome,
             PrepareReturns(call, next, f, r)
      PROVE  \/ PrepareGoesOn
             \/ r \in Error /\ PrepareInterrupted(r)
             \/ r \in Error /\ PrepareBlamed(f, r)
  <2> USE <1>1 DEF PrepareReturns, PrepareFrame, Outcome, Error
  <2>1. CASE r = "ok"
    BY <2>1 DEF PrepareGoesOn
  <2>2. CASE r # "ok" /\ posted # {}
    BY <2>2 DEF PrepareInterrupted, PrepareVerdict, Drain
  <2>3. CASE r # "ok" /\ posted = {}
    BY <2>3 DEF PrepareBlamed, PrepareVerdict, Drain, CanReturn
  <2> QED  BY <2>1, <2>2, <2>3
<1>2. CASE ValidateReturns
  BY <1>1, <1>2 DEF ValidateReturns
<1>3. CASE PlanReturns
  BY <1>1, <1>3 DEF PlanReturns
<1> QED  BY <1>2, <1>3

-----------------------------------------------------------------------------
(* Type correctness.                                                       *)

\* Every step of the kernel keeps every variable in its domain.
LEMMA TypeStep ==
  ASSUME TypeOK, WalkInv, TaskInv, [Next]_vars
  PROVE  TypeOK'
<1> USE NAssumption, BackgroundAssumption
<1>a. pc \in {"validate", "plan", "exec", "run"} => cur \in Units
  BY DEF WalkInv, Walking
<1>b. pc \in Stopping => bg \in Background /\ bg \in Units
  BY DEF TaskInv, TypeOK, Units
<1> USE DEF TypeOK, Units, Status, stopVars, taskVars, ctxVars
<1>1. CASE BuildGraph
  BY <1>1 DEF BuildGraph
<1>2. CASE BackgroundFailureSeen
  BY <1>2 DEF BackgroundFailureSeen, Drain
<1>3. CASE NoBackgroundFailure
  BY <1>3 DEF NoBackgroundFailure, HasNext
<1>4. CASE ValidateReturns \/ PlanReturns
  <2> USE <1>a DEF PrepareFrame, Error
  <2>1. CASE PrepareGoesOn
    BY <2>1 DEF PrepareGoesOn
  <2>2. ASSUME NEW r \in Error, PrepareInterrupted(r) PROVE TypeOK'
    BY <2>2 DEF PrepareInterrupted
  <2>3. ASSUME NEW f \in {"config_failed", "plan_failed"}, NEW r \in Error,
               PrepareBlamed(f, r)
        PROVE  TypeOK'
    BY <2>3 DEF PrepareBlamed
  <2> QED  BY <1>4, <2>1, <2>2, <2>3, PrepareEffect
<1>5. CASE StartSucceeds
  <2>1. outputs' \in [Units -> {"none", "open", "closed"}]
    BY <1>5, <1>a DEF StartSucceeds
  <2>2. /\ done' \in [Units -> {"nil", "open", "failed", "closed"}]
        /\ monitor' \in [Units -> {"none", "watching", "posting",
                                   "cancelling", "exited"}]
    BY <1>5, <1>a, ZenonT(30) DEF StartSucceeds
  <2> QED  BY <1>5, <1>a, <2>1, <2>2 DEF StartSucceeds
<1>6. CASE StartFails
  BY <1>6, <1>a DEF StartFails, CanReturn
<1>7. CASE RunReturns
  BY <1>7, <1>a DEF RunReturns, RunReturnsFor, Drain, CanReturn
<1>8. CASE RunCancelled
  BY <1>8, <1>a DEF RunCancelled, RunReturnsFor, Drain, CanReturn
<1>9. CASE StopTask
  BY <1>9 DEF StopTask, Drain
<1>10. CASE StopReturns
  BY <1>10, <1>b DEF Stopping, AfterStop, StopReturns
<1>11. CASE MonitorGone
  BY <1>11 DEF MonitorGone
<1>12. CASE WaitForMonitor
  BY <1>12 DEF WaitForMonitor
<1>13. CASE MonitorTimeout
  BY <1>13, <1>b DEF Stopping, AfterStop, MonitorTimeout, TellMonitor
<1>14. CASE JoinMonitor
  BY <1>14, <1>b DEF Stopping, AfterStop, JoinMonitor, RememberLate
<1>15. CASE RecordTask
  <2>1. shutdownErr' \in BOOLEAN
    <3>1. shutdownErr' = (shutdownErr \/ StopFailed)
      BY <1>15 DEF RecordTask
    <3> QED  BY ONLY <3>1, Zenon
  <2>2. result' \in [Units -> Status \cup {"none", "blank"}]
    BY <1>15 DEF RecordTask, Drain
  <2>3. /\ pc' = "stop" /\ bg' = 0 /\ stopErr' = FALSE
        /\ active' = active \ {bg} /\ fatal' = fatal \cup posted
        /\ posted' = {}
    BY <1>15 DEF RecordTask, Drain
  <2>4. UNCHANGED <<cur, status, task, done, monitor, monitorStop, outputs,
                    blame, caller, runCtx>>
    BY <1>15 DEF RecordTask
  <2>5. /\ active' \subseteq Background /\ fatal' \subseteq Background
        /\ posted' \subseteq Background /\ stopErr' \in BOOLEAN
    BY <2>3
  <2> QED  BY <2>1, <2>2, <2>3, <2>4, <2>5
<1>16. CASE StopDone
  BY <1>16 DEF StopDone, Drain, AllStopped, FinalStatus
<1>17. CASE Cleanup
  BY <1>17 DEF Cleanup
<1>18. ASSUME NEW b \in Background, Monitor(b) \/ TaskEnds(b)
      PROVE  TypeOK'
  <2>1. CASE MonitorReceives(b)
    <3>1. monitor' \in {[monitor EXCEPT ![b] = "posting"], [monitor EXCEPT ![b] = "exited"]}
      BY <2>1 DEF MonitorReceives
    <3>2. monitor' \in [Units -> {"none", "watching", "posting", "cancelling", "exited"}]
      BY <3>1
    <3>3. UNCHANGED <<pc, cur, status, result, active, task, done, posted, fatal,
                      outputs, blame>> /\ UNCHANGED <<stopVars, ctxVars>>
      BY <2>1 DEF MonitorReceives
    <3> QED BY <3>2, <3>3
  <2>2. CASE MonitorPosts(b)
    BY <2>2 DEF MonitorPosts
  <2>3. CASE MonitorCancels(b)
    BY <2>3 DEF MonitorCancels, CancelRun
  <2>4. CASE MonitorStops(b)
    BY <2>4 DEF MonitorStops
  <2>5. CASE TaskEnds(b)
    BY <2>5 DEF TaskEnds
  <2> QED  BY <1>18, <2>1, <2>2, <2>3, <2>4, <2>5 DEF Monitor
<1>19. CASE CallerCancels
  BY <1>19 DEF CallerCancels
<1>20. CASE UNCHANGED vars
  BY <1>20 DEF vars
<1> QED  BY <1>1, <1>2, <1>3, <1>4, <1>5, <1>6, <1>7, <1>8, <1>9, <1>10,
         <1>11, <1>12, <1>13, <1>14, <1>15, <1>16, <1>17, <1>18, <1>19, <1>20
         DEF Next, Engine, Calls, Shutdown, Returned

\* The walk over the units leaves each unit completed or active behind it.
LEMMA WalkStep ==
  ASSUME TypeOK, WalkInv, TaskInv, MonitorInv, [Next]_vars
  PROVE  WalkInv'
<1> USE NAssumption, BackgroundAssumption
<1> USE DEF WalkInv, Walking, TypeOK, Units, Status, stopVars, taskVars,
            ctxVars
<1>1. CASE BuildGraph
  BY <1>1 DEF BuildGraph
<1>2. CASE BackgroundFailureSeen
  BY <1>2 DEF BackgroundFailureSeen, Drain
<1>3. CASE NoBackgroundFailure
  BY <1>3 DEF NoBackgroundFailure, HasNext
<1>4. CASE ValidateReturns \/ PlanReturns
  <2> USE DEF PrepareFrame, Error
  <2>1. CASE PrepareGoesOn
    BY <2>1 DEF PrepareGoesOn
  <2>2. ASSUME NEW r \in Error, PrepareInterrupted(r) PROVE WalkInv'
    BY <2>2 DEF PrepareInterrupted
  <2>3. ASSUME NEW f \in {"config_failed", "plan_failed"}, NEW r \in Error,
               PrepareBlamed(f, r)
        PROVE  WalkInv'
    BY <2>3 DEF PrepareBlamed
  <2> QED  BY <1>4, <2>1, <2>2, <2>3, PrepareEffect
<1>5. CASE StartSucceeds
  BY <1>5 DEF StartSucceeds
<1>6. CASE StartFails
  BY <1>6 DEF StartFails, CanReturn
<1>7. CASE RunReturns
  BY <1>7 DEF RunReturns, RunReturnsFor, Drain, CanReturn
<1>8. CASE RunCancelled
  BY <1>8 DEF RunCancelled, RunReturnsFor, Drain, CanReturn
<1>9. CASE StopTask
  BY <1>9 DEF StopTask, Drain
<1>10. CASE StopReturns
  BY <1>10 DEF StopReturns
<1>11. CASE MonitorGone
  BY <1>11 DEF MonitorGone
<1>12. CASE WaitForMonitor
  BY <1>12 DEF WaitForMonitor
<1>13. CASE MonitorTimeout
  BY <1>13 DEF MonitorTimeout, TellMonitor
<1>14. CASE JoinMonitor
  BY <1>14 DEF JoinMonitor, RememberLate
<1>15. CASE RecordTask
  BY <1>15 DEF RecordTask, Drain, StopFailed
<1>16. CASE StopDone
  BY <1>16 DEF StopDone, Drain, AllStopped, FinalStatus
<1>17. CASE Cleanup
  BY <1>17 DEF Cleanup
<1>18. ASSUME NEW b \in Background, Monitor(b) \/ TaskEnds(b)
      PROVE  WalkInv'
  <2>1. CASE MonitorReceives(b)
    BY <2>1 DEF MonitorReceives
  <2>2. CASE MonitorPosts(b)
    BY <2>2 DEF MonitorPosts
  <2>3. CASE MonitorCancels(b)
    BY <2>3 DEF MonitorCancels, CancelRun
  <2>4. CASE MonitorStops(b)
    BY <2>4 DEF MonitorStops
  <2>5. CASE TaskEnds(b)
    BY <2>5 DEF TaskEnds
  <2> QED  BY <1>18, <2>1, <2>2, <2>3, <2>4, <2>5 DEF Monitor
<1>19. CASE CallerCancels
  BY <1>19 DEF CallerCancels
<1>20. CASE UNCHANGED vars
  BY <1>20 DEF vars
<1> QED  BY <1>1, <1>2, <1>3, <1>4, <1>5, <1>6, <1>7, <1>8, <1>9, <1>10,
         <1>11, <1>12, <1>13, <1>14, <1>15, <1>16, <1>17, <1>18, <1>19, <1>20
         DEF Next, Engine, Calls, Shutdown, Returned

\* No step of any goroutine leaves a task or monitor behind a recorded result.
LEMMA TaskStep ==
  ASSUME TypeOK, WalkInv, TaskInv, MonitorInv, OutputInv, [Next]_vars
  PROVE  TaskInv'
<1> USE NAssumption, BackgroundAssumption
<1> USE DEF WalkInv, Walking, TaskInv, MonitorInv, OutputInv, Stopping,
            AfterStop, Ended, TypeOK, Units, Status, stopVars, taskVars,
            ctxVars
<1>1. CASE BuildGraph
  BY <1>1 DEF BuildGraph
<1>2. CASE BackgroundFailureSeen
  BY <1>2 DEF BackgroundFailureSeen, Drain
<1>3. CASE NoBackgroundFailure
  BY <1>3 DEF NoBackgroundFailure, HasNext
<1>4. CASE ValidateReturns \/ PlanReturns
  <2> USE DEF PrepareFrame, Error
  <2>1. CASE PrepareGoesOn
    BY <2>1 DEF PrepareGoesOn
  <2>2. ASSUME NEW r \in Error, PrepareInterrupted(r) PROVE TaskInv'
    BY <2>2 DEF PrepareInterrupted
  <2>3. ASSUME NEW f \in {"config_failed", "plan_failed"}, NEW r \in Error,
               PrepareBlamed(f, r)
        PROVE  TaskInv'
    BY <2>3 DEF PrepareBlamed
  <2> QED  BY <1>4, <2>1, <2>2, <2>3, PrepareEffect
<1>5. CASE StartSucceeds
  BY <1>5 DEF StartSucceeds
<1>6. CASE StartFails
  BY <1>6 DEF StartFails, CanReturn
<1>7. CASE RunReturns
  BY <1>7 DEF RunReturns, RunReturnsFor, Drain, CanReturn
<1>8. CASE RunCancelled
  BY <1>8 DEF RunCancelled, RunReturnsFor, Drain, CanReturn
<1>9. CASE StopTask
  BY <1>9 DEF StopTask, Drain
<1>10. CASE StopReturns
  BY <1>10 DEF StopReturns
<1>11. CASE MonitorGone
  BY <1>11 DEF MonitorGone
<1>12. CASE WaitForMonitor
  BY <1>12 DEF WaitForMonitor
<1>13. CASE MonitorTimeout
  BY <1>13 DEF MonitorTimeout, TellMonitor
<1>14. CASE JoinMonitor
  BY <1>14 DEF JoinMonitor, RememberLate
<1>15. CASE RecordTask
  BY <1>15 DEF RecordTask, Drain, StopFailed
<1>16. CASE StopDone
  BY <1>16 DEF StopDone, Drain, AllStopped, FinalStatus
<1>17. CASE Cleanup
  BY <1>17 DEF Cleanup
<1>18. ASSUME NEW b \in Background, Monitor(b) \/ TaskEnds(b)
      PROVE  TaskInv'
  <2>1. CASE MonitorReceives(b)
    BY <2>1 DEF MonitorReceives
  <2>2. CASE MonitorPosts(b)
    BY <2>2 DEF MonitorPosts
  <2>3. CASE MonitorCancels(b)
    BY <2>3 DEF MonitorCancels, CancelRun
  <2>4. CASE MonitorStops(b)
    BY <2>4 DEF MonitorStops
  <2>5. CASE TaskEnds(b)
    BY <2>5 DEF TaskEnds
  <2> QED  BY <1>18, <2>1, <2>2, <2>3, <2>4, <2>5 DEF Monitor
<1>19. CASE CallerCancels
  BY <1>19 DEF CallerCancels
<1>20. CASE UNCHANGED vars
  BY <1>20 DEF vars
<1> QED  BY <1>1, <1>2, <1>3, <1>4, <1>5, <1>6, <1>7, <1>8, <1>9, <1>10,
         <1>11, <1>12, <1>13, <1>14, <1>15, <1>16, <1>17, <1>18, <1>19, <1>20
         DEF Next, Engine, Calls, Shutdown, Returned

\* An error on Done stays visible: with its monitor, in the channel, or fatal.
LEMMA MonitorStep ==
  ASSUME TypeOK, WalkInv, TaskInv, MonitorInv, [Next]_vars
  PROVE  MonitorInv'
<1> USE NAssumption, BackgroundAssumption
<1> USE DEF WalkInv, Walking, TaskInv, MonitorInv, Stopping, AfterStop, Ended,
            TypeOK, Units, Status, stopVars, taskVars, ctxVars
<1>1. CASE BuildGraph
  BY <1>1 DEF BuildGraph
<1>2. CASE BackgroundFailureSeen
  BY <1>2 DEF BackgroundFailureSeen, Drain
<1>3. CASE NoBackgroundFailure
  BY <1>3 DEF NoBackgroundFailure, HasNext
<1>4. CASE ValidateReturns \/ PlanReturns
  <2> USE DEF PrepareFrame, Error
  <2>1. CASE PrepareGoesOn
    BY <2>1 DEF PrepareGoesOn
  <2>2. ASSUME NEW r \in Error, PrepareInterrupted(r) PROVE MonitorInv'
    BY <2>2 DEF PrepareInterrupted
  <2>3. ASSUME NEW f \in {"config_failed", "plan_failed"}, NEW r \in Error,
               PrepareBlamed(f, r)
        PROVE  MonitorInv'
    BY <2>3 DEF PrepareBlamed
  <2> QED  BY <1>4, <2>1, <2>2, <2>3, PrepareEffect
<1>5. CASE StartSucceeds
  BY <1>5 DEF StartSucceeds
<1>6. CASE StartFails
  BY <1>6 DEF StartFails, CanReturn
<1>7. CASE RunReturns
  BY <1>7 DEF RunReturns, RunReturnsFor, Drain, CanReturn
<1>8. CASE RunCancelled
  BY <1>8 DEF RunCancelled, RunReturnsFor, Drain, CanReturn
<1>9. CASE StopTask
  BY <1>9 DEF StopTask, Drain
<1>10. CASE StopReturns
  BY <1>10 DEF StopReturns
<1>11. CASE MonitorGone
  BY <1>11 DEF MonitorGone
<1>12. CASE WaitForMonitor
  BY <1>12 DEF WaitForMonitor
<1>13. CASE MonitorTimeout
  BY <1>13 DEF MonitorTimeout, TellMonitor
<1>14. CASE JoinMonitor
  BY <1>14 DEF JoinMonitor, RememberLate
<1>15. CASE RecordTask
  BY <1>15 DEF RecordTask, Drain, StopFailed
<1>16. CASE StopDone
  BY <1>16 DEF StopDone, Drain, AllStopped, FinalStatus
<1>17. CASE Cleanup
  BY <1>17 DEF Cleanup
<1>18. ASSUME NEW b \in Background, Monitor(b) \/ TaskEnds(b)
      PROVE  MonitorInv'
  <2>1. CASE MonitorReceives(b)
    BY <2>1 DEF MonitorReceives
  <2>2. CASE MonitorPosts(b)
    BY <2>2 DEF MonitorPosts
  <2>3. CASE MonitorCancels(b)
    BY <2>3 DEF MonitorCancels, CancelRun
  <2>4. CASE MonitorStops(b)
    BY <2>4 DEF MonitorStops
  <2>5. CASE TaskEnds(b)
    BY <2>5 DEF TaskEnds
  <2> QED  BY <1>18, <2>1, <2>2, <2>3, <2>4, <2>5 DEF Monitor
<1>19. CASE CallerCancels
  BY <1>19 DEF CallerCancels
<1>20. CASE UNCHANGED vars
  BY <1>20 DEF vars
<1> QED  BY <1>1, <1>2, <1>3, <1>4, <1>5, <1>6, <1>7, <1>8, <1>9, <1>10,
         <1>11, <1>12, <1>13, <1>14, <1>15, <1>16, <1>17, <1>18, <1>19, <1>20
         DEF Next, Engine, Calls, Shutdown, Returned

\* A fatal background ends as worker_failed, and so does its run.
LEMMA FatalStep ==
  ASSUME TypeOK, WalkInv, TaskInv, MonitorInv, FatalInv, [Next]_vars
  PROVE  FatalInv'
<1> USE NAssumption, BackgroundAssumption
<1> USE DEF WalkInv, Walking, TaskInv, MonitorInv, FatalInv, Stopping,
            AfterStop, Ended, TypeOK, Units, Status, stopVars, taskVars,
            ctxVars
<1>1. CASE BuildGraph
  BY <1>1 DEF BuildGraph
<1>2. CASE BackgroundFailureSeen
  BY <1>2 DEF BackgroundFailureSeen, Drain
<1>3. CASE NoBackgroundFailure
  BY <1>3 DEF NoBackgroundFailure, HasNext
<1>4. CASE ValidateReturns \/ PlanReturns
  <2> USE DEF PrepareFrame, Error
  <2>1. CASE PrepareGoesOn
    BY <2>1 DEF PrepareGoesOn
  <2>2. ASSUME NEW r \in Error, PrepareInterrupted(r) PROVE FatalInv'
    BY <2>2 DEF PrepareInterrupted
  <2>3. ASSUME NEW f \in {"config_failed", "plan_failed"}, NEW r \in Error,
               PrepareBlamed(f, r)
        PROVE  FatalInv'
    BY <2>3 DEF PrepareBlamed
  <2> QED  BY <1>4, <2>1, <2>2, <2>3, PrepareEffect
<1>5. CASE StartSucceeds
  BY <1>5 DEF StartSucceeds
<1>6. CASE StartFails
  BY <1>6 DEF StartFails, CanReturn
<1>7. CASE RunReturns
  <2>1. PICK r \in {"ok", "own"} : RunReturnsFor(r)
    BY <1>7 DEF RunReturns
  <2>2. CASE r = "ok" /\ posted = {}
    BY <2>1, <2>2 DEF RunReturnsFor, Drain
  <2>3. CASE r # "ok" \/ posted # {}
    BY <2>1, <2>3 DEF RunReturnsFor, Drain
  <2> QED  BY <2>2, <2>3
<1>8. CASE RunCancelled
  BY <1>8 DEF RunCancelled, RunReturnsFor, Drain, CanReturn
<1>9. CASE StopTask
  BY <1>9 DEF StopTask, Drain
<1>10. CASE StopReturns
  BY <1>10 DEF StopReturns
<1>11. CASE MonitorGone
  BY <1>11 DEF MonitorGone
<1>12. CASE WaitForMonitor
  BY <1>12 DEF WaitForMonitor
<1>13. CASE MonitorTimeout
  BY <1>13 DEF MonitorTimeout, TellMonitor
<1>14. CASE JoinMonitor
  BY <1>14 DEF JoinMonitor, RememberLate
<1>15. CASE RecordTask
  <2>1. /\ bg \in Units /\ result \in [Units -> Status \cup {"none", "blank"}]
        /\ posted \subseteq active
    BY <1>15 DEF RecordTask
  <2>2. /\ fatal' = fatal \cup posted /\ active' = active \ {bg} /\ UNCHANGED status
        /\ result' = [result EXCEPT ![bg] = IF bg \in fatal \cup posted \/ stopErr
                                            THEN "worker_failed" ELSE "completed"]
        /\ posted # {} => shutdownErr'
        /\ shutdownErr => shutdownErr'
        /\ pc' = "stop"
    BY <1>15 DEF RecordTask, Drain, StopFailed
  <2>3. \A u \in fatal' : u \in active' \/ result'[u] = "worker_failed"
    <3>1. ASSUME NEW u \in fatal', u # bg PROVE u \in active' \/ result'[u] = "worker_failed"
      BY <2>1, <2>2, <3>1
    <3>2. bg \in fatal' => result'[bg] = "worker_failed"
      BY <2>1, <2>2
    <3> QED BY <3>1, <3>2
  <2>4. fatal' # {} => status' = "worker_failed" \/ shutdownErr'
    BY <2>2
  <2> QED BY <2>2, <2>3, <2>4
<1>16. CASE StopDone
  BY <1>16 DEF StopDone, Drain, AllStopped, FinalStatus
<1>17. CASE Cleanup
  BY <1>17 DEF Cleanup
<1>18. ASSUME NEW b \in Background, Monitor(b) \/ TaskEnds(b)
      PROVE  FatalInv'
  <2>1. CASE MonitorReceives(b)
    BY <2>1 DEF MonitorReceives
  <2>2. CASE MonitorPosts(b)
    BY <2>2 DEF MonitorPosts
  <2>3. CASE MonitorCancels(b)
    BY <2>3 DEF MonitorCancels, CancelRun
  <2>4. CASE MonitorStops(b)
    BY <2>4 DEF MonitorStops
  <2>5. CASE TaskEnds(b)
    BY <2>5 DEF TaskEnds
  <2> QED  BY <1>18, <2>1, <2>2, <2>3, <2>4, <2>5 DEF Monitor
<1>19. CASE CallerCancels
  BY <1>19 DEF CallerCancels
<1>20. CASE UNCHANGED vars
  BY <1>20 DEF vars
<1> QED  BY <1>1, <1>2, <1>3, <1>4, <1>5, <1>6, <1>7, <1>8, <1>9, <1>10,
         <1>11, <1>12, <1>13, <1>14, <1>15, <1>16, <1>17, <1>18, <1>19, <1>20
         DEF Next, Engine, Calls, Shutdown, Returned

\* Verdicts after Validate and Plan blame the right unit.
LEMMA BlameStep ==
  ASSUME TypeOK, WalkInv, MonitorInv, BlameInv, [Next]_vars
  PROVE  BlameInv'
<1> USE NAssumption, BackgroundAssumption
<1> USE DEF WalkInv, Walking, MonitorInv, BlameInv, OwnBlame, TypeOK, Units,
            Status, stopVars, taskVars, ctxVars
<1>1. CASE BuildGraph
  BY <1>1 DEF BuildGraph
<1>2. CASE BackgroundFailureSeen
  BY <1>2 DEF BackgroundFailureSeen, Drain
<1>3. CASE NoBackgroundFailure
  BY <1>3 DEF NoBackgroundFailure, HasNext
<1>4. CASE ValidateReturns \/ PlanReturns
  <2> USE DEF PrepareFrame, Error
  <2>1. CASE PrepareGoesOn
    BY <2>1 DEF PrepareGoesOn
  <2>2. ASSUME NEW r \in Error, PrepareInterrupted(r) PROVE BlameInv'
    BY <2>2 DEF PrepareInterrupted
  <2>3. ASSUME NEW f \in {"config_failed", "plan_failed"}, NEW r \in Error,
               PrepareBlamed(f, r)
        PROVE  BlameInv'
    BY <2>3 DEF PrepareBlamed
  <2> QED  BY <1>4, <2>1, <2>2, <2>3, PrepareEffect
<1>5. CASE StartSucceeds
  BY <1>5 DEF StartSucceeds
<1>6. CASE StartFails
  BY <1>6 DEF StartFails, CanReturn
<1>7. CASE RunReturns
  <2>1. PICK r \in {"ok", "own"} : RunReturnsFor(r)
    BY <1>7 DEF RunReturns
  <2>2. CASE r = "ok" /\ posted = {}
    BY <2>1, <2>2 DEF RunReturnsFor, Drain
  <2>3. CASE r # "ok" \/ posted # {}
    <3>1. pc' = "stop" /\ result' = [result EXCEPT ![cur] = "worker_failed"]
      BY <2>1, <2>3 DEF RunReturnsFor
    <3>2. \A u \in Units : u # cur => blame'[u] = blame[u]
      BY <2>1 DEF RunReturnsFor
    <3>3. caller' = caller
      BY <2>1 DEF RunReturnsFor
    <3> QED  BY <3>1, <3>2, <3>3
  <2> QED  BY <2>2, <2>3
<1>8. CASE RunCancelled
  BY <1>8 DEF RunCancelled, RunReturnsFor, Drain, CanReturn
<1>9. CASE StopTask
  BY <1>9 DEF StopTask, Drain
<1>10. CASE StopReturns
  BY <1>10 DEF StopReturns
<1>11. CASE MonitorGone
  BY <1>11 DEF MonitorGone
<1>12. CASE WaitForMonitor
  BY <1>12 DEF WaitForMonitor
<1>13. CASE MonitorTimeout
  BY <1>13 DEF MonitorTimeout, TellMonitor
<1>14. CASE JoinMonitor
  BY <1>14 DEF JoinMonitor, RememberLate
<1>15. CASE RecordTask
  BY <1>15 DEF RecordTask, Drain, StopFailed
<1>16. CASE StopDone
  BY <1>16 DEF StopDone, Drain, AllStopped, FinalStatus
<1>17. CASE Cleanup
  BY <1>17 DEF Cleanup
<1>18. ASSUME NEW b \in Background, Monitor(b) \/ TaskEnds(b)
      PROVE  BlameInv'
  <2>1. CASE MonitorReceives(b)
    BY <2>1 DEF MonitorReceives
  <2>2. CASE MonitorPosts(b)
    BY <2>2 DEF MonitorPosts
  <2>3. CASE MonitorCancels(b)
    BY <2>3 DEF MonitorCancels, CancelRun
  <2>4. CASE MonitorStops(b)
    BY <2>4 DEF MonitorStops
  <2>5. CASE TaskEnds(b)
    BY <2>5 DEF TaskEnds
  <2> QED  BY <1>18, <2>1, <2>2, <2>3, <2>4, <2>5 DEF Monitor
<1>19. CASE CallerCancels
  BY <1>19 DEF CallerCancels
<1>20. CASE UNCHANGED vars
  BY <1>20 DEF vars
<1> QED  BY <1>1, <1>2, <1>3, <1>4, <1>5, <1>6, <1>7, <1>8, <1>9, <1>10,
         <1>11, <1>12, <1>13, <1>14, <1>15, <1>16, <1>17, <1>18, <1>19, <1>20
         DEF Next, Engine, Calls, Shutdown, Returned

\* A failed run has a culprit, a completed one has none.
LEMMA VerdictStep ==
  ASSUME TypeOK, WalkInv, TaskInv, MonitorInv, FatalInv, VerdictInv, [Next]_vars
  PROVE  VerdictInv'
<1> USE NAssumption, BackgroundAssumption
<1>a. posted # {} => \E u \in Units : u \in posted
  BY DEF TypeOK, Units
<1> USE DEF WalkInv, Walking, TaskInv, MonitorInv, FatalInv, VerdictInv,
            Culprit, Stopping, AfterStop, Ended, TypeOK, Units, Status,
            stopVars, taskVars, ctxVars
<1>1. CASE BuildGraph
  BY <1>1 DEF BuildGraph
<1>2. CASE BackgroundFailureSeen
  <2>1. \E u \in Units : u \in fatal'
    <3>1. posted # {} /\ fatal' = fatal \cup posted
      BY <1>2 DEF BackgroundFailureSeen, Drain
    <3> QED BY ONLY <1>a, <3>1
  <2> QED  BY <1>2, <2>1 DEF BackgroundFailureSeen
<1>3. CASE NoBackgroundFailure
  BY <1>3 DEF NoBackgroundFailure, HasNext
<1>4. CASE ValidateReturns \/ PlanReturns
  <2> USE DEF PrepareFrame, Error
  <2>1. CASE PrepareGoesOn
    BY <2>1 DEF PrepareGoesOn
  <2>2. ASSUME NEW r \in Error, PrepareInterrupted(r) PROVE VerdictInv'
    <3>1. \E u \in Units : u \in posted
      BY <1>a, <2>2 DEF PrepareInterrupted
    <3>2. Culprit'
      BY <2>2, <3>1 DEF PrepareInterrupted
    <3>3. UNCHANGED <<active, result, shutdownErr>> /\ pc' = "stop"
      BY <2>2 DEF PrepareInterrupted
    <3> QED  BY <2>2, <3>2, <3>3 DEF PrepareInterrupted
  <2>3. ASSUME NEW f \in {"config_failed", "plan_failed"}, NEW r \in Error,
               PrepareBlamed(f, r)
        PROVE  VerdictInv'
    BY <2>3 DEF PrepareBlamed
  <2> QED  BY <1>4, <2>1, <2>2, <2>3, PrepareEffect
<1>5. CASE StartSucceeds
  BY <1>5 DEF StartSucceeds
<1>6. CASE StartFails
  BY <1>6 DEF StartFails, CanReturn
<1>7. CASE RunReturns
  BY <1>7 DEF RunReturns, RunReturnsFor, Drain, CanReturn
<1>8. CASE RunCancelled
  BY <1>8 DEF RunCancelled, RunReturnsFor, Drain, CanReturn
<1>9. CASE StopTask
  <2>1. Culprit => Culprit'
    BY <1>9 DEF StopTask, Drain
  <2>2. posted # {} => Culprit'
    <3>1. \A u \in posted : u \in fatal'
      BY <1>9 DEF StopTask, Drain
    <3> QED  BY <1>a, <3>1
  <2>3. shutdownErr' => shutdownErr \/ posted # {}
    BY <1>9 DEF StopTask
  <2>4. status' # "completed" \/ shutdownErr' => Culprit'
    BY <1>9, <2>1, <2>2, <2>3 DEF StopTask
  <2>5. shutdownErr => shutdownErr'
    BY <1>9 DEF StopTask
  <2>6. status' = "completed" =>
          \A u \in Units :
            u \in active' \/ result'[u] = "completed" \/ shutdownErr'
    BY <1>9, <2>5 DEF StopTask
  <2>7. pc' = "stopping" /\ pc \notin Ended
    BY <1>9 DEF StopTask
  <2> QED  BY <2>4, <2>6, <2>7
<1>10. CASE StopReturns
  BY <1>10 DEF StopReturns
<1>11. CASE MonitorGone
  BY <1>11 DEF MonitorGone
<1>12. CASE WaitForMonitor
  BY <1>12 DEF WaitForMonitor
<1>13. CASE MonitorTimeout
  BY <1>13 DEF MonitorTimeout, TellMonitor
<1>14. CASE JoinMonitor
  BY <1>14 DEF JoinMonitor, RememberLate
<1>15. CASE RecordTask
  <2>1. Culprit => Culprit'
    BY <1>15 DEF RecordTask, Drain
  <2>2. posted # {} \/ stopErr => Culprit'
    <3>1. CASE posted # {}
      <4>1. \A u \in posted : u \in fatal'
        BY <1>15 DEF RecordTask, Drain
      <4> QED  BY <1>a, <3>1, <4>1
    <3>2. CASE stopErr
      <4>1. bg \in Units /\ result'[bg] = "worker_failed"
        BY <1>15, <3>2 DEF RecordTask
      <4> QED  BY <4>1
    <3> QED  BY <3>1, <3>2
  <2>3. shutdownErr' <=> (shutdownErr \/ posted # {} \/ stopErr)
    BY <1>15 DEF RecordTask, StopFailed
  <2>4. pc' = "stop" /\ status' = status /\ active' = active \ {bg}
    BY <1>15 DEF RecordTask
  <2>5. \A u \in Units : u # bg => result'[u] = result[u]
    BY <1>15 DEF RecordTask
  <2>6. \/ result'[bg] = "completed"
        \/ bg \in fatal
        \/ shutdownErr'
    BY <1>15, <2>3 DEF RecordTask
  <2>7. status = "completed" => result'[bg] = "completed" \/ shutdownErr'
    BY <2>3, <2>6
  <2>8. status # "completed" \/ shutdownErr' => Culprit'
    BY <1>15, <2>1, <2>2, <2>3 DEF RecordTask
  <2>9. status = "completed" => \A u \in Units :
          u \in active' \/ result'[u] = "completed" \/ shutdownErr'
    BY <1>15, <2>3, <2>4, <2>5, <2>7 DEF RecordTask
  <2> QED  BY <2>4, <2>8, <2>9
<1>16. CASE StopDone
  <2>1. posted = {}
    BY <1>16 DEF StopDone, AllStopped
  <2> QED  BY <1>16, <2>1 DEF StopDone, Drain, AllStopped, FinalStatus
<1>17. CASE Cleanup
  BY <1>17 DEF Cleanup
<1>18. ASSUME NEW b \in Background, Monitor(b) \/ TaskEnds(b)
      PROVE  VerdictInv'
  <2>1. CASE MonitorReceives(b)
    BY <2>1 DEF MonitorReceives
  <2>2. CASE MonitorPosts(b)
    BY <2>2 DEF MonitorPosts
  <2>3. CASE MonitorCancels(b)
    BY <2>3 DEF MonitorCancels, CancelRun
  <2>4. CASE MonitorStops(b)
    BY <2>4 DEF MonitorStops
  <2>5. CASE TaskEnds(b)
    BY <2>5 DEF TaskEnds
  <2> QED  BY <1>18, <2>1, <2>2, <2>3, <2>4, <2>5 DEF Monitor
<1>19. CASE CallerCancels
  BY <1>19 DEF CallerCancels
<1>20. CASE UNCHANGED vars
  BY <1>20 DEF vars
<1> QED  BY <1>1, <1>2, <1>3, <1>4, <1>5, <1>6, <1>7, <1>8, <1>9, <1>10,
         <1>11, <1>12, <1>13, <1>14, <1>15, <1>16, <1>17, <1>18, <1>19, <1>20
         DEF Next, Engine, Calls, Shutdown, Returned

\* Every output belongs to a unit with a result, or one that will get it.
LEMMA OutputStep ==
  ASSUME TypeOK, WalkInv, TaskInv, OutputInv, [Next]_vars
  PROVE  OutputInv'
<1> USE NAssumption, BackgroundAssumption
<1>a. posted # {} => \E u \in Units : u \in posted
  BY DEF TypeOK, Units
<1> USE DEF WalkInv, Walking, TaskInv, OutputInv, NoBlankResult, Stopping,
            AfterStop, Ended, TypeOK, Units, Status, stopVars, taskVars,
            ctxVars
<1>1. CASE BuildGraph
  BY <1>1 DEF BuildGraph
<1>2. CASE BackgroundFailureSeen
  BY <1>2 DEF BackgroundFailureSeen, Drain
<1>3. CASE NoBackgroundFailure
  BY <1>3 DEF NoBackgroundFailure, HasNext
<1>4. CASE ValidateReturns \/ PlanReturns
  <2> USE DEF PrepareFrame, Error
  <2>1. CASE PrepareGoesOn
    BY <2>1 DEF PrepareGoesOn
  <2>2. ASSUME NEW r \in Error, PrepareInterrupted(r) PROVE OutputInv'
    BY <2>2 DEF PrepareInterrupted
  <2>3. ASSUME NEW f \in {"config_failed", "plan_failed"}, NEW r \in Error,
               PrepareBlamed(f, r)
        PROVE  OutputInv'
    BY <2>3 DEF PrepareBlamed
  <2> QED  BY <1>4, <2>1, <2>2, <2>3, PrepareEffect
<1>5. CASE StartSucceeds
  BY <1>5 DEF StartSucceeds
<1>6. CASE StartFails
  BY <1>6 DEF StartFails, CanReturn
<1>7. CASE RunReturns
  BY <1>7 DEF RunReturns, RunReturnsFor, Drain, CanReturn
<1>8. CASE RunCancelled
  BY <1>8 DEF RunCancelled, RunReturnsFor, Drain, CanReturn
<1>9. CASE StopTask
  BY <1>9 DEF StopTask, Drain
<1>10. CASE StopReturns
  BY <1>10 DEF StopReturns
<1>11. CASE MonitorGone
  BY <1>11 DEF MonitorGone
<1>12. CASE WaitForMonitor
  BY <1>12 DEF WaitForMonitor
<1>13. CASE MonitorTimeout
  BY <1>13 DEF MonitorTimeout, TellMonitor
<1>14. CASE JoinMonitor
  BY <1>14 DEF JoinMonitor, RememberLate
<1>15. CASE RecordTask
  BY <1>15 DEF RecordTask, Drain, StopFailed
<1>16. CASE StopDone
  BY <1>16 DEF StopDone, Drain, AllStopped, FinalStatus
<1>17. CASE Cleanup
  BY <1>17 DEF Cleanup
<1>18. ASSUME NEW b \in Background, Monitor(b) \/ TaskEnds(b)
      PROVE  OutputInv'
  <2>1. CASE MonitorReceives(b)
    BY <2>1 DEF MonitorReceives
  <2>2. CASE MonitorPosts(b)
    BY <2>2 DEF MonitorPosts
  <2>3. CASE MonitorCancels(b)
    BY <2>3 DEF MonitorCancels, CancelRun
  <2>4. CASE MonitorStops(b)
    BY <2>4 DEF MonitorStops
  <2>5. CASE TaskEnds(b)
    BY <2>5 DEF TaskEnds
  <2> QED  BY <1>18, <2>1, <2>2, <2>3, <2>4, <2>5 DEF Monitor
<1>19. CASE CallerCancels
  BY <1>19 DEF CallerCancels
<1>20. CASE UNCHANGED vars
  BY <1>20 DEF vars
<1> QED  BY <1>1, <1>2, <1>3, <1>4, <1>5, <1>6, <1>7, <1>8, <1>9, <1>10,
         <1>11, <1>12, <1>13, <1>14, <1>15, <1>16, <1>17, <1>18, <1>19, <1>20
         DEF Next, Engine, Calls, Shutdown, Returned

-----------------------------------------------------------------------------
(* The theorems.                                                           *)

\* The conjunction of all that is inductive.
LEMMA Inductive == Spec => []IInv
<1>1. Init => IInv
  <2> SUFFICES ASSUME Init PROVE IInv
    OBVIOUS
  <2> USE NAssumption, BackgroundAssumption
  <2> USE DEF Init, Units
  <2>1. TypeOK
    <3>1. cur \in 1..(N + 1) /\ bg \in 0..N
      OBVIOUS
    <3>2. result \in [Units -> Status \cup {"none", "blank"}]
      OBVIOUS
    <3> QED  BY <3>1, <3>2 DEF TypeOK, Status
  <2>2. WalkInv
    BY DEF WalkInv, Walking
  <2>3. TaskInv
    BY DEF TaskInv, Stopping, AfterStop, Ended
  <2>4. MonitorInv
    BY DEF MonitorInv
  <2>5. FatalInv /\ BlameInv
    BY DEF FatalInv, BlameInv, OwnBlame
  <2>6. VerdictInv /\ OutputInv
    BY DEF VerdictInv, Walking, OutputInv, NoBlankResult
  <2> QED  BY <2>1, <2>2, <2>3, <2>4, <2>5, <2>6 DEF IInv
<1>2. IInv /\ [Next]_vars => IInv'
  BY TypeStep, WalkStep, TaskStep, MonitorStep, FatalStep, BlameStep,
     VerdictStep, OutputStep DEF IInv
<1> QED  BY <1>1, <1>2, PTL DEF Spec

\* Engine.Run's variables stay in their domains.
THEOREM TypeCorrect == Spec => []TypeOK
<1>1. IInv => TypeOK
  BY DEF IInv
<1> QED  BY <1>1, Inductive, PTL

\* No fatal error of a background task is lost, whatever the interleaving of its
\* monitor with the drains and the timeout of stopBackgrounds.
THEOREM FatalNeverLost == Spec => []NoLostFatal
<1>1. IInv => NoLostFatal
  <2> SUFFICES ASSUME IInv, pc = "returned", NEW b \in Background,
                      done[b] = "failed"
               PROVE  result[b] = "worker_failed" /\ status = "worker_failed"
    BY DEF NoLostFatal
  <2>1. b \in Units /\ active = {} /\ posted = {}
    BY BackgroundAssumption DEF IInv, TaskInv, MonitorInv, Ended, Units
  <2>2. monitor[b] = "exited"
    BY <2>1 DEF IInv, TypeOK, TaskInv, MonitorInv
  <2>3. b \in fatal
    BY <2>1, <2>2 DEF IInv, MonitorInv
  <2> QED  BY <2>1, <2>3 DEF IInv, FatalInv, Ended
<1> QED  BY <1>1, Inductive, PTL

\* The outputs are closed only after every task and monitor is at rest.
THEOREM CleanupIsQuiet == Spec => []QuietBeforeCleanup
<1>1. IInv => QuietBeforeCleanup
  BY DEF IInv, TaskInv, MonitorInv, QuietBeforeCleanup, Ended
<1> QED  BY <1>1, Inductive, PTL

\* The verdicts of Validate and Plan are the unit's own.
THEOREM BlameIsOwn == Spec => []OwnBlame
<1>1. IInv => OwnBlame
  BY DEF IInv, BlameInv
<1> QED  BY <1>1, Inductive, PTL

\* The run is completed exactly when all its units are.
THEOREM StatusIsSummary == Spec => []StatusAgrees
<1>1. IInv => StatusAgrees
  <2> SUFFICES ASSUME IInv, pc = "returned"
               PROVE  status = "completed" <=>
                        \A u \in Units : result[u] = "completed"
    BY DEF StatusAgrees
  <2>1. active = {} /\ pc \notin Walking
    BY DEF IInv, TaskInv, Ended, Walking
  <2>2. ASSUME status = "completed"
        PROVE  \A u \in Units : result[u] = "completed"
    BY <2>1, <2>2 DEF IInv, FatalInv, VerdictInv, Ended
  <2>3. ASSUME \A u \in Units : result[u] = "completed"
        PROVE  status = "completed"
    <3>1. 1 \in Units
      BY NAssumption DEF Units
    <3>2. ~Culprit
      BY <2>1, <2>3 DEF Culprit, IInv, FatalInv
    <3> QED  BY <2>3, <3>1, <3>2 DEF IInv, VerdictInv
  <2> QED  BY <2>2, <2>3
<1> QED  BY <1>1, Inductive, PTL

\* outputStore.cleanup finds a result for every unit it reports an error of.
THEOREM CleanupFindsResult == Spec => []NoBlankResult
<1>1. IInv => NoBlankResult
  BY DEF IInv, OutputInv
<1> QED  BY <1>1, Inductive, PTL

-----------------------------------------------------------------------------
(* What a step may do to the verdicts.                                     *)

VerdictKept ==
  /\ status # "completed" => status' \in {status, "worker_failed"}
  /\ \A u \in Units : result[u] # "none" => result'[u] = result[u]

\* A step writes no unit result twice and never mends a failed run.
LEMMA VerdictWrite ==
  ASSUME IInv, [Next]_vars
  PROVE  VerdictKept
<1> USE NAssumption, BackgroundAssumption
<1> USE DEF VerdictKept, IInv, WalkInv, Walking, TaskInv, TypeOK, Units,
            stopVars,
            taskVars, ctxVars, Stopping, AfterStop, Ended
<1>1. CASE BuildGraph
  BY <1>1 DEF BuildGraph
<1>2. CASE BackgroundFailureSeen
  BY <1>2 DEF BackgroundFailureSeen, Drain
<1>3. CASE NoBackgroundFailure
  BY <1>3 DEF NoBackgroundFailure, HasNext
<1>4. CASE ValidateReturns \/ PlanReturns
  <2> USE DEF PrepareFrame, Error
  <2>1. CASE PrepareGoesOn
    BY <2>1 DEF PrepareGoesOn
  <2>2. ASSUME NEW r \in Error, PrepareInterrupted(r) PROVE VerdictKept
    BY <2>2 DEF PrepareInterrupted
  <2>3. ASSUME NEW f \in {"config_failed", "plan_failed"}, NEW r \in Error,
               PrepareBlamed(f, r)
        PROVE  VerdictKept
    BY <2>3 DEF PrepareBlamed
  <2> QED  BY <1>4, <2>1, <2>2, <2>3, PrepareEffect
<1>5. CASE StartSucceeds
  BY <1>5 DEF StartSucceeds
<1>6. CASE StartFails
  BY <1>6 DEF StartFails, CanReturn
<1>7. CASE RunReturns
  BY <1>7 DEF RunReturns, RunReturnsFor, Drain, CanReturn
<1>8. CASE RunCancelled
  BY <1>8 DEF RunCancelled, RunReturnsFor, Drain, CanReturn
<1>9. CASE StopTask
  BY <1>9 DEF StopTask, Drain
<1>10. CASE StopReturns
  BY <1>10 DEF StopReturns
<1>11. CASE MonitorGone
  BY <1>11 DEF MonitorGone
<1>12. CASE WaitForMonitor
  BY <1>12 DEF WaitForMonitor
<1>13. CASE MonitorTimeout
  BY <1>13 DEF MonitorTimeout, TellMonitor
<1>14. CASE JoinMonitor
  BY <1>14 DEF JoinMonitor, RememberLate
<1>15. CASE RecordTask
  BY <1>15 DEF RecordTask, Drain, StopFailed
<1>16. CASE StopDone
  BY <1>16 DEF StopDone, Drain, AllStopped, FinalStatus
<1>17. CASE Cleanup
  BY <1>17 DEF Cleanup
<1>18. ASSUME NEW b \in Background, Monitor(b) \/ TaskEnds(b)
      PROVE  VerdictKept
  <2>1. CASE MonitorReceives(b)
    BY <2>1 DEF MonitorReceives
  <2>2. CASE MonitorPosts(b)
    BY <2>2 DEF MonitorPosts
  <2>3. CASE MonitorCancels(b)
    BY <2>3 DEF MonitorCancels, CancelRun
  <2>4. CASE MonitorStops(b)
    BY <2>4 DEF MonitorStops
  <2>5. CASE TaskEnds(b)
    BY <2>5 DEF TaskEnds
  <2> QED  BY <1>18, <2>1, <2>2, <2>3, <2>4, <2>5 DEF Monitor
<1>19. CASE CallerCancels
  BY <1>19 DEF CallerCancels
<1>20. CASE UNCHANGED vars
  BY <1>20 DEF vars
<1> QED  BY <1>1, <1>2, <1>3, <1>4, <1>5, <1>6, <1>7, <1>8, <1>9, <1>10,
         <1>11, <1>12, <1>13, <1>14, <1>15, <1>16, <1>17, <1>18, <1>19, <1>20
         DEF Next, Engine, Calls, Shutdown, Returned

\* A unit's verdict is written once, a failed run stays failed.
THEOREM VerdictsAreFinal == Spec => VerdictsStand
<1>1. IInv /\ [Next]_vars =>
        [/\ status # "completed" => status' \in {status, "worker_failed"}
         /\ \A u \in Units : result[u] # "none" => result'[u] = result[u]]_vars
  BY VerdictWrite DEF VerdictKept
<1> QED  BY <1>1, Inductive, PTL DEF Spec, VerdictsStand

-----------------------------------------------------------------------------
(* The channel backgroundErrors.                                           *)

\* What is in the channel has been posted by a monitor that will not post again.
PostedOnce == \A u \in posted : monitor[u] \in {"cancelling", "exited"}

LEMMA PostedStep ==
  ASSUME IInv, PostedOnce, [Next]_vars
  PROVE  PostedOnce'
<1> USE DEF PostedOnce, stopVars, taskVars, ctxVars
<1>1. CASE UNCHANGED <<posted, monitor>>
  BY <1>1
<1>2. CASE posted' = {}
  BY <1>2
<1>3. CASE StartSucceeds
  <2>1. cur \notin posted
    <3>1. pc \in Walking /\ cur \in Units
      BY <1>3 DEF StartSucceeds, IInv, WalkInv, Walking
    <3>2. task[cur] = "none"
      BY <3>1 DEF IInv, TypeOK, WalkInv, Units
    <3> QED BY <3>1, <3>2 DEF IInv, TaskInv, MonitorInv
  <2>2. posted \subseteq Units /\ monitor \in [Units -> {"none", "watching", "posting", "cancelling", "exited"}]
    BY BackgroundAssumption DEF IInv, TypeOK, Units
  <2> QED BY <1>3, <2>1, <2>2 DEF StartSucceeds
<1>4. ASSUME NEW b \in Background, Monitor(b)
      PROVE  PostedOnce'
  <2>1. b \in Units /\ posted \subseteq Units
        /\ monitor \in [Units -> {"none", "watching", "posting", "cancelling", "exited"}]
    BY BackgroundAssumption DEF IInv, TypeOK, Units
  <2>2. CASE MonitorReceives(b)
    BY <2>1, <2>2 DEF MonitorReceives
  <2>3. CASE MonitorPosts(b)
    BY <2>1, <2>3 DEF MonitorPosts
  <2>4. CASE MonitorCancels(b)
    BY <2>1, <2>4 DEF MonitorCancels
  <2>5. CASE MonitorStops(b)
    BY <2>1, <2>5 DEF MonitorStops
  <2> QED BY <1>4, <2>2, <2>3, <2>4, <2>5 DEF Monitor
<1>5. CASE BuildGraph \/ NoBackgroundFailure \/ StartFails
  BY <1>1, <1>5 DEF BuildGraph, NoBackgroundFailure, StartFails
<1>6. CASE BackgroundFailureSeen \/ RunReturns \/ RunCancelled
  BY <1>2, <1>6 DEF BackgroundFailureSeen, RunReturns, RunCancelled, RunReturnsFor, Drain
<1>7. CASE ValidateReturns \/ PlanReturns
  <2> USE DEF PrepareFrame
  <2>1. CASE PrepareGoesOn
    BY <1>1, <2>1 DEF PrepareGoesOn
  <2>2. CASE \E r \in Error : PrepareInterrupted(r)
    BY <1>2, <2>2 DEF PrepareInterrupted
  <2>3. CASE \E f \in {"config_failed", "plan_failed"}, r \in Error : PrepareBlamed(f, r)
    BY <1>2, <2>3 DEF PrepareBlamed
  <2> QED BY <1>7, <2>1, <2>2, <2>3, PrepareEffect
<1>8. CASE StopTask \/ RecordTask \/ StopDone
  BY <1>2, <1>8 DEF StopTask, RecordTask, StopDone, Drain
<1>9. CASE StopReturns \/ MonitorGone \/ WaitForMonitor \/ MonitorTimeout \/ JoinMonitor \/ Cleanup
  BY <1>1, <1>9 DEF StopReturns, MonitorGone, WaitForMonitor, MonitorTimeout, JoinMonitor, Cleanup
<1>10. CASE CallerCancels \/ (\E b \in Background : TaskEnds(b)) \/ UNCHANGED vars
  BY <1>1, <1>10 DEF CallerCancels, TaskEnds, vars
<1> QED BY <1>3, <1>4, <1>5, <1>6, <1>7, <1>8, <1>9, <1>10
        DEF Next, Engine, Calls, Shutdown, Returned

\* No monitor ever waits for room in the channel, so the shutdown can wait for it: each
\* error in the channel is that of another unit (the send in the monitor of Engine.Run).
THEOREM MonitorsNeverBlock == Spec => []PostHasRoom
<1>1. Init => PostedOnce
  BY DEF Init, PostedOnce
<1>2. IInv /\ PostedOnce => PostHasRoom
  <2> SUFFICES ASSUME IInv, PostedOnce, NEW b \in Background, monitor[b] = "posting"
               PROVE  Cardinality(posted) < N
    BY DEF PostHasRoom
  <2>1. b \in 1..N /\ posted \subseteq (1..N) \ {b}
    BY BackgroundAssumption DEF IInv, TypeOK, PostedOnce, Units
  <2>2. IsFiniteSet(1..N) /\ Cardinality(1..N) = N
    BY NAssumption, FS_Interval
  <2>3. IsFiniteSet((1..N) \ {b}) /\ Cardinality((1..N) \ {b}) = N - 1
    BY <2>1, <2>2, FS_RemoveElement
  <2>4. IsFiniteSet(posted) /\ Cardinality(posted) <= Cardinality((1..N) \ {b})
    BY <2>1, <2>3, FS_Subset
  <2>5. Cardinality(posted) \in Nat
    BY <2>4, FS_CardinalityType
  <2> QED BY <2>3, <2>4, <2>5, NAssumption
<1> QED  BY <1>1, <1>2, Inductive, PostedStep, PTL DEF Spec
=============================================================================
