------------------------------- MODULE Kernel -------------------------------
(***************************************************************************)
(* Engine.Run of benchkit/kernel/kernel.go: the goroutine that walks the   *)
(* units of a scenario in graph order, the monitor goroutine it starts for *)
(* each background task, and the outputs it closes at the end.             *)
(*                                                                         *)
(* Units are numbered by their place in graph.order.  What a unit's method *)
(* does is its own business: here it returns success, an error of its own, *)
(* or, once the context it was given is cancelled, a cancellation error.   *)
(* Error texts, metrics, artifacts and times are left out; errors are kept *)
(* as the fact that there is one.                                          *)
(*                                                                         *)
(* Some small definitions come in two forms.  The second is the one the    *)
(* code has; the first, unused, is a mistake one could make there, and     *)
(* the README names the property each of them would break.                 *)
(***************************************************************************)
EXTENDS Integers, FiniteSets

CONSTANTS
  N,          \* how many units the scenario has
  Background  \* the units that implement contract.BackgroundUnit

ASSUME NAssumption == N \in Nat \ {0}
ASSUME BackgroundAssumption == Background \subseteq 1..N

VARIABLES
  pc,           \* where Engine.Run is
  cur,          \* the place in graph.order its loop has reached
  status,       \* result.Status
  result,       \* result.Units[u].Status, "none" when there is no entry
  active,       \* the background units started and not yet recorded
  bg,           \* the background unit stopBackgrounds is stopping, or 0
  task,         \* the state of each unit's BackgroundTask
  done,         \* what the task has put on its Done channel
  monitor,      \* the monitor goroutine of each background task
  monitorStop,  \* the units whose monitorStop channel is closed
  posted,       \* the units with an error in the channel backgroundErrors
  fatal,        \* the keys of the map fatalBackgrounds
  stopErr,      \* task.Stop of the task being stopped returned an error
  shutdownErr,  \* shutdownErr of stopBackgrounds is not nil
  caller,       \* the context given to Run
  runCtx,       \* the context Run derives from it
  outputs,      \* whether the outputs of a unit exist and are still usable
  blame         \* history: why the last call of each unit returned an error

vars == <<pc, cur, status, result, active, bg, task, done, monitor,
          monitorStop, posted, fatal, stopErr, shutdownErr, caller, runCtx, outputs, blame>>

\* What stopBackgrounds alone changes, and what the units' calls change.
stopVars == <<bg, monitorStop, stopErr, shutdownErr>>
taskVars == <<active, task, done, monitor>>
ctxVars  == <<caller, runCtx>>

Units == 1..N

Status  == {"completed", "config_failed", "plan_failed", "worker_failed"}
Outcome == {"ok", "own", "cancelled"}

\* checkBackgroundErrors and the drain of stopBackgrounds: everything posted
\* so far becomes a fatal background.
Drain == /\ fatal' = fatal \cup posted
         /\ posted' = {}

CancelForgotten == UNCHANGED runCtx
CancelRun == runCtx' = "cancelled"

\* The loop over graph.order has a next unit.
HasNext == cur <= N

\* A call can fail because of its context only once that is cancelled.
CanReturn(r, ctx) == r = "cancelled" => ctx = "cancelled"

Init == /\ pc = "build"
        /\ cur = 1
        /\ status = "completed"
        /\ result = [u \in Units |-> "none"]
        /\ active = {}
        /\ bg = 0
        /\ task = [u \in Units |-> "none"]
        /\ done = [u \in Units |-> "nil"]
        /\ monitor = [u \in Units |-> "none"]
        /\ monitorStop = {}
        /\ posted = {}
        /\ fatal = {}
        /\ stopErr = FALSE
        /\ shutdownErr = FALSE
        /\ caller = "live"
        /\ runCtx = "live"
        /\ outputs = [u \in Units |-> "none"]
        /\ blame = [u \in Units |-> "none"]

-----------------------------------------------------------------------------
(* The loop over graph.order.                                              *)

\* buildGraph succeeds or fails before anything is started.
BuildGraph ==
  /\ pc = "build"
  /\ \/ pc' = "loop" /\ UNCHANGED status
     \/ pc' = "returned" /\ status' = "config_failed"
  /\ UNCHANGED <<cur, result, posted, fatal, outputs, blame>>
  /\ UNCHANGED <<stopVars, taskVars, ctxVars>>

\* A check of the background errors that finds some, at the top of the loop,
\* before a foreground unit runs and after the loop: the run goes to
\* stopBackgrounds with no result for the unit at hand.
BackgroundFailureSeen ==
  /\ \/ pc = "loop"
     \/ pc = "exec" /\ cur \notin Background
  /\ posted # {}
  /\ Drain
  /\ status' = "worker_failed"
  /\ pc' = "stop"
  /\ UNCHANGED <<cur, result, outputs, blame>>
  /\ UNCHANGED <<stopVars, taskVars, ctxVars>>

\* The same check when it finds nothing: go on with the unit, or with
\* stopBackgrounds after the last one.
NoBackgroundFailure ==
  /\ posted = {}
  /\ \/ pc = "loop" /\ HasNext /\ pc' = "validate"
     \/ pc = "loop" /\ ~HasNext /\ pc' = "stop"
     \/ pc = "exec" /\ cur \notin Background /\ pc' = "run"
  /\ UNCHANGED <<cur, status, result, posted, fatal, outputs, blame>>
  /\ UNCHANGED <<stopVars, taskVars, ctxVars>>

\* The verdict on a unit whose Validate or Plan returned an error: the error is
\* the unit's own only when no background failure has been posted.
PrepareVerdictUnchecked(failed) ==
  status' = failed /\ result' = [result EXCEPT ![cur] = failed]
PrepareVerdict(failed) ==
  IF posted # {}
  THEN status' = "worker_failed" /\ UNCHANGED result
  ELSE status' = failed /\ result' = [result EXCEPT ![cur] = failed]

\* Validate or Plan of the unit at hand returns.
PrepareReturns(call, next, failed, r) ==
  /\ pc = call
  /\ CanReturn(r, runCtx)
  /\ \/ /\ r = "ok"
        /\ pc' = next
        /\ UNCHANGED <<status, result, posted, fatal, blame>>
     \/ /\ r # "ok"
        /\ pc' = "stop"
        /\ blame' = [blame EXCEPT ![cur] = r]
        /\ Drain
        /\ PrepareVerdict(failed)
  /\ UNCHANGED <<cur, outputs>>
  /\ UNCHANGED <<stopVars, taskVars, ctxVars>>

ValidateReturns ==
  \E r \in Outcome : PrepareReturns("validate", "plan", "config_failed", r)
PlanReturns ==
  \E r \in Outcome : PrepareReturns("plan", "exec", "plan_failed", r)

\* Start succeeds: the task joins the active ones, with a monitor when its
\* Done channel is not nil.
StartSucceeds ==
  /\ pc = "exec" /\ cur \in Background
  /\ active' = active \cup {cur}
  /\ task' = [task EXCEPT ![cur] = "running"]
  /\ \/ /\ done' = [done EXCEPT ![cur] = "open"]
        /\ monitor' = [monitor EXCEPT ![cur] = "watching"]
     \/ UNCHANGED <<done, monitor>>
  /\ \E o \in {"none", "open"} : outputs' = [outputs EXCEPT ![cur] = o]
  /\ cur' = cur + 1
  /\ pc' = "loop"
  /\ UNCHANGED <<status, result, posted, fatal, blame>>
  /\ UNCHANGED <<stopVars, ctxVars>>

\* Start returns an error or a nil task, possibly after SetOutput.
StartFails ==
  /\ pc = "exec" /\ cur \in Background
  /\ \E r \in {"own", "cancelled"} :
       /\ CanReturn(r, runCtx)
       /\ blame' = [blame EXCEPT ![cur] = r]
  /\ \E o \in {"none", "open"} : outputs' = [outputs EXCEPT ![cur] = o]
  /\ status' = "worker_failed"
  /\ result' = [result EXCEPT ![cur] = "worker_failed"]
  /\ pc' = "stop"
  /\ UNCHANGED <<cur, posted, fatal>>
  /\ UNCHANGED <<stopVars, taskVars, ctxVars>>

\* Run of a foreground unit returns, for reason r, and the background errors
\* are checked once more.
RunReturnsFor(r) ==
  /\ pc = "run"
  /\ CanReturn(r, runCtx)
  /\ Drain
  /\ \E o \in {"none", "open"} : outputs' = [outputs EXCEPT ![cur] = o]
  /\ blame' = [blame EXCEPT ![cur] = IF r = "ok" THEN @ ELSE r]
  /\ \/ /\ r = "ok" /\ posted = {}
        /\ result' = [result EXCEPT ![cur] = "completed"]
        /\ cur' = cur + 1
        /\ pc' = "loop"
        /\ UNCHANGED <<status, runCtx>>
     \/ /\ r # "ok" \/ posted # {}
        /\ result' = [result EXCEPT ![cur] = "worker_failed"]
        /\ status' = "worker_failed"
        /\ runCtx' = "cancelled"
        /\ pc' = "stop"
        /\ UNCHANGED cur
  /\ UNCHANGED caller
  /\ UNCHANGED <<stopVars, taskVars>>

RunReturns   == \E r \in {"ok", "own"} : RunReturnsFor(r)
RunCancelled == RunReturnsFor("cancelled")

-----------------------------------------------------------------------------
(* stopBackgrounds and the cleanup of the outputs.                         *)

AllButOneStopped == Cardinality(active) <= 1
AllStopped == active = {}

\* close(bg.monitorStop) tells the monitor goroutine to stop.
MonitorNotTold == UNCHANGED monitorStop
TellMonitor == monitorStop' = monitorStop \cup {bg}

\* A task whose Done did not complete in time is a fatal background.
ForgetLate == UNCHANGED fatal
RememberLate == fatal' = fatal \cup {bg}

\* The stop of a task adds to the error of the shutdown.
StopErrorDropped == posted # {}
StopFailed == posted # {} \/ stopErr

\* An error of the shutdown makes the run worker_failed, whatever it was.
FinalStatus(err) == IF err THEN "worker_failed" ELSE status

\* The drain before the next task is stopped, the one started last, and the
\* call of its Stop.
StopTask ==
  /\ pc = "stop"
  /\ \E b \in active : /\ \A c \in active : c <= b
                       /\ bg' = b
                       /\ task' = [task EXCEPT ![b] = "stopping"]
  /\ Drain
  /\ shutdownErr' = (shutdownErr \/ posted # {})
  /\ pc' = "stopping"
  /\ UNCHANGED <<cur, status, result, active, done, monitor, monitorStop,
                 stopErr, outputs, blame>>
  /\ UNCHANGED ctxVars

\* Stop returns, with or without an error; the task may have published its
\* outputs meanwhile.
StopReturns ==
  /\ pc = "stopping"
  /\ task' = [task EXCEPT ![bg] = "stopped"]
  /\ stopErr' \in BOOLEAN
  /\ \E o \in {outputs[bg], "open"} :
       outputs' = [outputs EXCEPT ![bg] = o]
  /\ pc' = "await"
  /\ UNCHANGED <<cur, status, result, active, bg, done, monitor, monitorStop,
                 posted, fatal, shutdownErr, blame>>
  /\ UNCHANGED ctxVars

\* waitBackgroundMonitor looks whether the monitor is gone, or was never
\* started, and otherwise waits for it.
MonitorGone ==
  /\ pc \in {"await", "waiting"}
  /\ monitor[bg] \in {"none", "exited"}
  /\ pc' = "record"
  /\ UNCHANGED <<cur, status, result, posted, fatal, outputs, blame>>
  /\ UNCHANGED <<stopVars, taskVars, ctxVars>>

WaitForMonitor ==
  /\ pc = "await"
  /\ monitor[bg] \notin {"none", "exited"}
  /\ pc' = "waiting"
  /\ UNCHANGED <<cur, status, result, posted, fatal, outputs, blame>>
  /\ UNCHANGED <<stopVars, taskVars, ctxVars>>

\* The timer fires or the caller's context ends while it waits, perhaps
\* together with the monitor's exit: the monitor is told to stop.
MonitorTimeout ==
  /\ pc = "waiting"
  /\ TellMonitor
  /\ pc' = "join"
  /\ UNCHANGED <<cur, bg, status, result, posted, fatal, stopErr, shutdownErr,
                 outputs, blame>>
  /\ UNCHANGED <<taskVars, ctxVars>>

\* stopBackgroundMonitor has seen the monitor exit.
JoinMonitor ==
  /\ pc = "join"
  /\ monitor[bg] = "exited"
  /\ RememberLate
  /\ shutdownErr' = TRUE
  /\ pc' = "record"
  /\ UNCHANGED <<cur, bg, status, result, posted, monitorStop, stopErr, outputs,
                 blame>>
  /\ UNCHANGED <<taskVars, ctxVars>>

\* The drain after the task has stopped, and the task's unit result.
RecordTask ==
  /\ pc = "record"
  /\ Drain
  /\ result' = [result EXCEPT ![bg] =
                  IF bg \in fatal \cup posted \/ stopErr
                  THEN "worker_failed" ELSE "completed"]
  /\ shutdownErr' = (shutdownErr \/ StopFailed)
  /\ active' = active \ {bg}
  /\ bg' = 0
  /\ stopErr' = FALSE
  /\ pc' = "stop"
  /\ UNCHANGED <<cur, status, task, done, monitor, monitorStop, outputs, blame>>
  /\ UNCHANGED ctxVars

\* The last drain.
StopDone ==
  /\ pc = "stop" /\ AllStopped
  /\ Drain
  /\ shutdownErr' = (shutdownErr \/ posted # {})
  /\ status' = FinalStatus(shutdownErr')
  /\ pc' = "cleanup"
  /\ UNCHANGED <<cur, bg, result, monitorStop, stopErr, outputs, blame>>
  /\ UNCHANGED <<taskVars, ctxVars>>

\* outputStore.cleanup closes every output.  The units in errs are those one
\* of whose outputs fails to close: the error is added to the unit's result,
\* and a unit without one gets an entry with an empty status.  Run returns and
\* its deferred cancel runs.
Cleanup ==
  /\ pc = "cleanup"
  /\ \E errs \in SUBSET {u \in Units : outputs[u] = "open"} :
       result' = [u \in Units |-> IF u \in errs /\ result[u] = "none"
                                  THEN "blank" ELSE result[u]]
  /\ outputs' = [u \in Units |-> IF outputs[u] = "open"
                                 THEN "closed" ELSE outputs[u]]
  /\ runCtx' = "cancelled"
  /\ pc' = "returned"
  /\ UNCHANGED <<cur, status, posted, fatal, caller, blame>>
  /\ UNCHANGED <<stopVars, taskVars>>

-----------------------------------------------------------------------------
(* The monitor goroutine of background unit b, and what happens outside.   *)

MonitorReceives(b) ==
  /\ monitor[b] = "watching"
  /\ \/ done[b] = "failed" /\ monitor' = [monitor EXCEPT ![b] = "posting"]
     \/ done[b] = "closed" /\ monitor' = [monitor EXCEPT ![b] = "exited"]
  /\ UNCHANGED <<pc, cur, status, result, active, task, done, posted, fatal,
                 outputs, blame>>
  /\ UNCHANGED <<stopVars, ctxVars>>

\* The channel backgroundErrors has room for one error of each unit.
MonitorPosts(b) ==
  /\ monitor[b] = "posting"
  /\ Cardinality(posted) < N
  /\ posted' = posted \cup {b}
  /\ monitor' = [monitor EXCEPT ![b] = "cancelling"]
  /\ UNCHANGED <<pc, cur, status, result, active, task, done, fatal, outputs,
                 blame>>
  /\ UNCHANGED <<stopVars, ctxVars>>

MonitorCancels(b) ==
  /\ monitor[b] = "cancelling"
  /\ CancelRun
  /\ monitor' = [monitor EXCEPT ![b] = "exited"]
  /\ UNCHANGED <<pc, cur, status, result, active, task, done, posted, fatal,
                 caller, outputs, blame>>
  /\ UNCHANGED stopVars

MonitorStops(b) ==
  /\ monitor[b] = "watching"
  /\ b \in monitorStop
  /\ monitor' = [monitor EXCEPT ![b] = "exited"]
  /\ UNCHANGED <<pc, cur, status, result, active, task, done, posted, fatal,
                 outputs, blame>>
  /\ UNCHANGED <<stopVars, ctxVars>>

\* A task ends, with an error on Done or by closing it, whenever it likes;
\* after Run has returned nobody listens any more.
TaskEnds(b) ==
  /\ done[b] = "open"
  /\ pc # "returned"
  /\ \E v \in {"failed", "closed"} : done' = [done EXCEPT ![b] = v]
  /\ UNCHANGED <<pc, cur, status, result, active, task, monitor, posted, fatal,
                 outputs, blame>>
  /\ UNCHANGED <<stopVars, ctxVars>>

\* The caller cancels (a signal, a deadline).
CallerCancels ==
  /\ caller = "live"
  /\ pc # "returned"
  /\ caller' = "cancelled"
  /\ runCtx' = "cancelled"
  /\ UNCHANGED <<pc, cur, status, result, posted, fatal, outputs, blame>>
  /\ UNCHANGED <<stopVars, taskVars>>

\* Run has returned.
Returned == pc = "returned" /\ UNCHANGED vars

-----------------------------------------------------------------------------
Calls == \/ ValidateReturns \/ PlanReturns \/ StartSucceeds \/ StartFails
         \/ StopReturns

Shutdown == \/ StopTask \/ MonitorGone \/ WaitForMonitor \/ MonitorTimeout
            \/ JoinMonitor \/ RecordTask \/ StopDone \/ Cleanup

Engine == \/ BuildGraph \/ BackgroundFailureSeen \/ NoBackgroundFailure
          \/ Calls \/ RunCancelled \/ Shutdown

Monitor(b) == \/ MonitorReceives(b) \/ MonitorPosts(b) \/ MonitorCancels(b)
              \/ MonitorStops(b)

Next == \/ Engine
        \/ RunReturns
        \/ \E b \in Background : Monitor(b) \/ TaskEnds(b)
        \/ CallerCancels
        \/ Returned

Spec == Init /\ [][Next]_vars

\* The engine's goroutine and the monitors keep running, and every call but a
\* foreground Run returns by itself.  A Run need only return once its context
\* is cancelled; no task need ever end.
Fairness == /\ WF_vars(Engine)
            /\ \A b \in Background : WF_vars(Monitor(b))

FairSpec == Spec /\ Fairness

-----------------------------------------------------------------------------
(* Properties.                                                             *)

\* Every variable stays in its domain (the types of Engine.Run's locals).
TypeOK ==
  /\ pc \in {"build", "loop", "validate", "plan", "exec", "run", "stop",
             "stopping", "await", "waiting", "join", "record", "cleanup",
             "returned"}
  /\ cur \in 1..(N + 1)
  /\ status \in Status
  /\ result \in [Units -> Status \cup {"none", "blank"}]
  /\ active \subseteq Background
  /\ bg \in 0..N
  /\ task \in [Units -> {"none", "running", "stopping", "stopped"}]
  /\ done \in [Units -> {"nil", "open", "failed", "closed"}]
  /\ monitor \in [Units -> {"none", "watching", "posting", "cancelling",
                            "exited"}]
  /\ monitorStop \subseteq Background
  /\ posted \subseteq Background
  /\ fatal \subseteq Background
  /\ stopErr \in BOOLEAN
  /\ shutdownErr \in BOOLEAN
  /\ caller \in {"live", "cancelled"}
  /\ runCtx \in {"live", "cancelled"}
  /\ outputs \in [Units -> {"none", "open", "closed"}]
  /\ blame \in [Units -> {"none", "own", "cancelled"}]

\* Whenever a background task has put an error on its Done channel by the time
\* Run returns, both its unit and the run are worker_failed: no interleaving of
\* the monitor, the drains and the 100 ms timeout loses a fatal error.
NoLostFatal ==
  pc = "returned" =>
    \A b \in Background : done[b] = "failed" =>
      result[b] = "worker_failed" /\ status = "worker_failed"

\* A unit is reported as config_failed or plan_failed only for an error of its
\* own or because the caller gave up, never for the cancellation that another
\* unit's background failure caused (the check after Validate and Plan).
OwnBlame ==
  \A u \in Units : result[u] \in {"config_failed", "plan_failed"} =>
    blame[u] = "own" \/ caller = "cancelled"

\* The outputs are closed only when every task started has been stopped and no
\* monitor goroutine is left: nothing still uses an output, or can post to a
\* channel nobody reads.
QuietBeforeCleanup ==
  pc \in {"cleanup", "returned"} =>
    \A u \in Units : /\ task[u] \in {"none", "stopped"}
                     /\ monitor[u] \in {"none", "exited"}

\* The run's status and its unit results tell the same story: the run is
\* completed exactly when every unit of the scenario is.
StatusAgrees ==
  pc = "returned" =>
    (status = "completed" <=> \A u \in Units : result[u] = "completed")

\* Cleanup never invents the result of a unit: each unit with an output has one
\* before the outputs are closed (outputStore.cleanup would add an entry with
\* an empty status).
NoBlankResult == \A u \in Units : result[u] # "blank"

\* A monitor that holds an error finds room in backgroundErrors: its send has no other way
\* out, and stopBackgrounds waits for the monitor (make(chan backgroundError, len(units))).
PostHasRoom == \A b \in Background : monitor[b] = "posting" => Cardinality(posted) < N

\* A verdict stands: a unit's result is written once, and a run that failed
\* never goes back to completed nor trades one failure for a milder one.
VerdictsStand ==
  [][/\ status # "completed" => status' \in {status, "worker_failed"}
     /\ \A u \in Units : result[u] # "none" => result'[u] = result[u]]_vars

\* Once a background task fails or the caller cancels, Run returns, even when
\* the foreground unit would run for ever, as long as it heeds its context.
FailureEndsRun ==
  (caller = "cancelled" \/ \E b \in Background : done[b] = "failed")
    ~> pc = "returned"

\* The shutdown ends even when some task never completes its Done channel.
ShutdownCompletes == pc = "stop" ~> pc = "returned"
=============================================================================
