---------------------------- MODULE PluginServer ----------------------------
(***************************************************************************)
(* The plugin side of a background task: sdk/go/wkbench/plugin/server.go.  *)
(*                                                                         *)
(* Serve reads one request after the other and answers it before it reads  *)
(* the next.  A StartRequest leaves behind a task, a record of it in       *)
(* s.tasks and a goroutine, the monitor, that waits on the task's Done     *)
(* channel.  The monitor and a StopRequest's flush both may receive from   *)
(* Done and both may emit the task's BackgroundEvent.                      *)
(*                                                                         *)
(* A task is named by its StartRequest.  Frames are kept as their kind, in *)
(* the order they are written, one log per task: the answers to its start  *)
(* and its stops, the outputs and metrics flushed for it and its event.  A *)
(* task whose Done is nil behaves like one that never ends.                *)
(***************************************************************************)
EXTENDS Integers, Sequences

CONSTANTS
  Tasks,     \* the StartRequests of the host
  NoTask,    \* no task at all
  MaxStops   \* a bound: how many StopRequests the host sends for each task

ASSUME NoTaskAssumption == NoTask \notin Tasks
ASSUME MaxStopsAssumption == MaxStops \in [Tasks -> Nat]

VARIABLES
  serve,     \* where Serve is
  on,        \* the task whose request it handles, NoTask if none
  taken,     \* what the flush has received from Done and not yet recorded
  pipe,      \* whether stdout still has a reader
  records,   \* the record of each task in s.tasks
  stopping,  \* the tasks with record.stopping set, which nothing reads
  asked,     \* how many StopRequests have been read for each task
  buf,       \* what the task has put on its Done channel
  closed,    \* the tasks that have closed their Done channel
  mon,       \* the monitor goroutine of each task
  held,      \* what the monitor has received from Done
  told,      \* the tasks with record.stopMonitor closed
  observed,  \* record.doneObserved and record.doneErr
  evented,   \* the tasks with record.eventSent set
  sent,      \* the frames written for each task
  early,     \* history: tasks that ended before the flush of their stop
  said       \* history: what each task has ever sent on Done

serveVars   == <<serve, on, taken, pipe>>
recordVars  == <<records, stopping, asked, told>>
eventVars   == <<observed, evented>>
monitorVars == <<mon, held>>
taskVars    == <<buf, closed, early, said>>
vars == <<serveVars, recordVars, eventVars, monitorVars, taskVars, sent>>

Events == {"fatal", "completed"}

Running == serve # "exited"

Init == /\ serve = "idle" /\ on = NoTask /\ taken = "none" /\ pipe = TRUE
        /\ records = [t \in Tasks |-> "none"]
        /\ stopping = {}
        /\ asked = [t \in Tasks |-> 0]
        /\ buf = [t \in Tasks |-> "none"]
        /\ closed = {}
        /\ mon = [t \in Tasks |-> "none"]
        /\ held = [t \in Tasks |-> "none"]
        /\ told = {}
        /\ observed = [t \in Tasks |-> "no"]
        /\ evented = {}
        /\ sent = [t \in Tasks |-> <<>>]
        /\ early = {}
        /\ said = [t \in Tasks |-> "none"]

-----------------------------------------------------------------------------
(* Frames, the Done channel, and the event of a task.                      *)

\* writeFrame, of frame f for task t.
Write(t, f) == sent' = [sent EXCEPT ![t] = Append(@, f)]

\* A write by Serve: it goes on at next, or returns the error.
WriteThen(t, f, next) ==
  IF pipe THEN Write(t, f) /\ serve' = next
          ELSE UNCHANGED sent /\ serve' = "exited"

\* A write whose error is ignored.
WriteEvent(t, f) == IF pipe THEN Write(t, f) ELSE UNCHANGED sent

\* err, ok := <-record.done.  The receive takes the value the task has sent;
\* after it, and from a closed channel, it yields nil.
Ready(t) == buf[t] # "none" \/ t \in closed
Value(t) == IF buf[t] = "none" THEN "nil" ELSE buf[t]
Receive(t) == buf' = [buf EXCEPT ![t] = "none"]

\* observeBackgroundDone: the first value counts.
ObserveErrorOnly(t, v) ==
  observed' = IF records[t] = "active" /\ observed[t] = "no" /\ v = "err"
              THEN [observed EXCEPT ![t] = v] ELSE observed
ObserveDone(t, v) ==
  observed' = IF records[t] = "active" /\ observed[t] = "no"
              THEN [observed EXCEPT ![t] = v] ELSE observed

\* The test of emitObservedBackgroundEvent, made and marked under the lock.
ShouldEmitAgain(t) == records[t] = "active" /\ observed[t] # "no"
ShouldEmit(t) == records[t] = "active" /\ observed[t] # "no" /\ t \notin evented

EventOf(t) == IF observed[t] = "err" THEN "fatal" ELSE "completed"

\* The monitor is started only after the StartResponse has been written.
NoMonitorYet(t) == UNCHANGED mon
StartMonitor(t) == mon' = [mon EXCEPT ![t] = "waiting"]

\* The flush of a stop looks at Done before it emits.
FlushBlind(t) == FALSE
FlushFinds(t) == Ready(t)

\* abortBackgroundTaskStop.
AbortForgotten(t) == UNCHANGED stopping
Abort(t) == stopping' = stopping \ {t}

\* completeBackgroundTaskStop closes stopMonitor, waits for monitorDone and
\* removes the record.
MonitorNotTold(t) == UNCHANGED told
TellMonitor(t) == told' = told \cup {t}
MonitorJoined(t) == mon[t] = "exited"
RemoveRecord(t) == records' = [records EXCEPT ![t] = "removed"]

-----------------------------------------------------------------------------
(* Serve: the requests.                                                    *)

\* A StartRequest: the unit's Start is called, if the request is well formed.
StartRequest(t) ==
  /\ serve = "idle" /\ records[t] = "none"
  /\ serve' = "starting" /\ on' = t
  /\ UNCHANGED <<taken, pipe, recordVars, eventVars, monitorVars, taskVars, sent>>

\* The request is refused, or Start returns an error or a nil task.
StartFails ==
  /\ serve = "starting"
  /\ records' = [records EXCEPT ![on] = "failed"]
  /\ WriteThen(on, "startError", "idle")
  /\ on' = NoTask
  /\ UNCHANGED <<taken, pipe, stopping, asked, told, eventVars, monitorVars, taskVars>>

\* Start returns a task: storeBackgroundTask.
Store ==
  /\ serve = "starting"
  /\ records' = [records EXCEPT ![on] = "active"]
  /\ NoMonitorYet(on)
  /\ serve' = "stored"
  /\ UNCHANGED <<on, taken, pipe, stopping, asked, told, eventVars, held, taskVars, sent>>

\* The StartResponse, and go s.monitorBackgroundTask.
StartResponse ==
  /\ serve = "stored"
  /\ WriteThen(on, "started", "idle")
  /\ IF pipe THEN StartMonitor(on) ELSE UNCHANGED mon
  /\ on' = NoTask
  /\ UNCHANGED <<taken, pipe, recordVars, eventVars, held, taskVars>>

\* A StopRequest for a task that is not in s.tasks any more.
StopRefused(t) ==
  /\ serve = "idle" /\ records[t] = "removed"
  /\ asked[t] < MaxStops[t]
  /\ asked' = [asked EXCEPT ![t] = @ + 1]
  /\ WriteThen(t, "refused", "idle")
  /\ UNCHANGED <<on, taken, pipe, records, stopping, told, eventVars, monitorVars, taskVars>>

\* A StopRequest: beginBackgroundTaskStop, and the call of task.Stop.
StopRequest(t) ==
  /\ serve = "idle" /\ records[t] = "active"
  /\ asked[t] < MaxStops[t]
  /\ asked' = [asked EXCEPT ![t] = @ + 1]
  /\ stopping' = stopping \cup {t}
  /\ serve' = "stopping" /\ on' = t
  /\ UNCHANGED <<taken, pipe, records, told, eventVars, monitorVars, taskVars, sent>>

TaskStops ==
  /\ serve = "stopping"
  /\ serve' = "outputs"
  /\ UNCHANGED <<on, taken, pipe, recordVars, eventVars, monitorVars, taskVars, sent>>

WriteOutputs ==
  /\ serve = "outputs" /\ pipe
  /\ Write(on, "output")
  /\ serve' = "metrics"
  /\ UNCHANGED <<on, taken, pipe, recordVars, eventVars, monitorVars, taskVars>>

\* writeMetricFlush writes nothing when there are no snapshots.
WriteMetrics ==
  /\ serve = "metrics"
  /\ \/ pipe /\ Write(on, "metrics")
     \/ UNCHANGED sent
  /\ serve' = "respond"
  /\ UNCHANGED <<on, taken, pipe, recordVars, eventVars, monitorVars, taskVars>>

\* task.Stop returns an error, or the outputs or the metrics cannot be encoded
\* or written: the stop is aborted and answered with an error.
StopFails ==
  /\ serve \in {"stopping", "outputs", "metrics"}
  /\ Abort(on)
  /\ WriteThen(on, "stopError", "idle")
  /\ on' = NoTask
  /\ UNCHANGED <<taken, pipe, records, asked, told, eventVars, monitorVars, taskVars>>

\* The StopResponse.
StopResponse ==
  /\ serve = "respond"
  /\ WriteThen(on, "stopped", "flush")
  /\ IF pipe THEN UNCHANGED stopping ELSE Abort(on)
  /\ UNCHANGED <<on, taken, pipe, records, asked, told, eventVars, monitorVars, taskVars>>

\* flushReadyBackgroundEvent: a receive from Done that does not wait.
Flush ==
  /\ serve = "flush"
  /\ \/ /\ FlushFinds(on)
        /\ taken' = Value(on)
        /\ Receive(on)
        /\ serve' = "observe"
     \/ /\ ~FlushFinds(on)
        /\ serve' = "emit"
        /\ UNCHANGED <<taken, buf>>
  /\ UNCHANGED <<on, pipe, recordVars, eventVars, monitorVars, closed, early, said, sent>>

ServeObserves ==
  /\ serve = "observe"
  /\ ObserveDone(on, taken)
  /\ taken' = "none"
  /\ serve' = "emit"
  /\ UNCHANGED <<on, pipe, recordVars, evented, monitorVars, taskVars, sent>>

ServeEmits ==
  /\ serve = "emit"
  /\ IF ShouldEmit(on)
     THEN evented' = evented \cup {on} /\ serve' = "write"
     ELSE UNCHANGED evented /\ serve' = "close"
  /\ UNCHANGED <<on, taken, pipe, recordVars, observed, monitorVars, taskVars, sent>>

ServeWrites ==
  /\ serve = "write"
  /\ WriteEvent(on, EventOf(on))
  /\ serve' = "close"
  /\ UNCHANGED <<on, taken, pipe, recordVars, eventVars, monitorVars, taskVars>>

CloseMonitor ==
  /\ serve = "close"
  /\ TellMonitor(on)
  /\ serve' = "join"
  /\ UNCHANGED <<on, taken, pipe, records, stopping, asked, eventVars, monitorVars, taskVars, sent>>

Remove ==
  /\ serve = "join" /\ MonitorJoined(on)
  /\ RemoveRecord(on)
  /\ serve' = "idle" /\ on' = NoTask
  /\ UNCHANGED <<taken, pipe, stopping, asked, told, eventVars, monitorVars, taskVars, sent>>

\* Any other request keeps Serve busy until the unit's Run, Plan or Validate
\* returns; its answer belongs to no task.
OtherRequest ==
  /\ serve = "idle"
  /\ serve' = "busy"
  /\ UNCHANGED <<on, taken, pipe, recordVars, eventVars, monitorVars, taskVars, sent>>

OtherAnswered ==
  /\ serve = "busy"
  /\ serve' = IF pipe THEN "idle" ELSE "exited"
  /\ UNCHANGED <<on, taken, pipe, recordVars, eventVars, monitorVars, taskVars, sent>>

\* stdin ends: Serve returns and the process with it, whatever its tasks do.
HostHangsUp ==
  /\ serve = "idle"
  /\ serve' = "exited"
  /\ UNCHANGED <<on, taken, pipe, recordVars, eventVars, monitorVars, taskVars, sent>>

-----------------------------------------------------------------------------
(* The monitor goroutine of task t.                                        *)

MonitorReceives(t) ==
  /\ Running /\ mon[t] = "waiting" /\ Ready(t)
  /\ held' = [held EXCEPT ![t] = Value(t)]
  /\ Receive(t)
  /\ mon' = [mon EXCEPT ![t] = "observing"]
  /\ UNCHANGED <<serveVars, recordVars, eventVars, closed, early, said, sent>>

MonitorObserves(t) ==
  /\ Running /\ mon[t] = "observing"
  /\ ObserveDone(t, held[t])
  /\ held' = [held EXCEPT ![t] = "none"]
  /\ mon' = [mon EXCEPT ![t] = "emitting"]
  /\ UNCHANGED <<serveVars, recordVars, evented, taskVars, sent>>

MonitorEmits(t) ==
  /\ Running /\ mon[t] = "emitting"
  /\ IF ShouldEmit(t)
     THEN evented' = evented \cup {t} /\ mon' = [mon EXCEPT ![t] = "writing"]
     ELSE UNCHANGED evented /\ mon' = [mon EXCEPT ![t] = "exited"]
  /\ UNCHANGED <<serveVars, recordVars, observed, held, taskVars, sent>>

MonitorWrites(t) ==
  /\ Running /\ mon[t] = "writing"
  /\ WriteEvent(t, EventOf(t))
  /\ mon' = [mon EXCEPT ![t] = "exited"]
  /\ UNCHANGED <<serveVars, recordVars, eventVars, held, taskVars>>

MonitorStops(t) ==
  /\ Running /\ mon[t] = "waiting" /\ t \in told
  /\ mon' = [mon EXCEPT ![t] = "exited"]
  /\ UNCHANGED <<serveVars, recordVars, eventVars, held, taskVars, sent>>

-----------------------------------------------------------------------------
(* The tasks and the host.                                                 *)

\* Whether the flush of t's stop has already looked at Done.
Flushed(t) == on = t /\ serve \in {"observe", "emit", "write", "close", "join"}

EndsNow(t) == early' = IF Flushed(t) THEN early ELSE early \cup {t}

\* The task puts an error or nil on Done, once; after its record is removed
\* nobody looks.
TaskSends(t) ==
  /\ Running /\ records[t] = "active"
  /\ said[t] = "none" /\ t \notin closed
  /\ \E v \in {"err", "nil"} : /\ buf' = [buf EXCEPT ![t] = v]
                              /\ said' = [said EXCEPT ![t] = v]
  /\ EndsNow(t)
  /\ UNCHANGED <<serveVars, recordVars, eventVars, monitorVars, closed, sent>>

\* The task closes Done, with or without having sent on it.
TaskCloses(t) ==
  /\ Running /\ records[t] = "active"
  /\ t \notin closed
  /\ closed' = closed \cup {t}
  /\ EndsNow(t)
  /\ UNCHANGED <<serveVars, recordVars, eventVars, monitorVars, buf, said, sent>>

\* The host is gone or has closed its end of stdout.
PipeBreaks ==
  /\ Running /\ pipe
  /\ pipe' = FALSE
  /\ UNCHANGED <<serve, on, taken, recordVars, eventVars, monitorVars, taskVars, sent>>

Exited == serve = "exited" /\ UNCHANGED vars

-----------------------------------------------------------------------------
\* What Serve does by itself, without waiting for the host or for a unit.
ServeStep == \/ StartResponse \/ WriteOutputs \/ WriteMetrics \/ StopResponse
             \/ Flush \/ ServeObserves \/ ServeEmits \/ ServeWrites
             \/ CloseMonitor \/ Remove

Monitor(t) == \/ MonitorReceives(t) \/ MonitorObserves(t) \/ MonitorEmits(t)
              \/ MonitorWrites(t) \/ MonitorStops(t)

\* The outputs or the metrics of a stop cannot be flushed.
FlushFails == serve \in {"outputs", "metrics"} /\ StopFails

Next == \/ ServeStep
        \/ StartFails \/ Store \/ TaskStops \/ StopFails
        \/ OtherRequest \/ OtherAnswered \/ HostHangsUp
        \/ \E t \in Tasks : \/ StartRequest(t) \/ StopRequest(t) \/ StopRefused(t)
                            \/ Monitor(t) \/ TaskSends(t) \/ TaskCloses(t)
        \/ PipeBreaks
        \/ Exited

Spec == Init /\ [][Next]_vars

\* Goroutines that can run do; nothing is assumed of the host, nor that a unit
\* ever returns from Start, Stop or Run.
Fairness == /\ WF_vars(ServeStep \/ FlushFails)
            /\ \A t \in Tasks : WF_vars(Monitor(t))

FairSpec == Spec /\ Fairness

-----------------------------------------------------------------------------
(* Properties.                                                             *)

\* The monitor and the flush of a stop together write at most one event for a
\* task, and never before the answer to its start: the host could not tell
\* whose event it is. However often the host asks, the metrics are flushed at
\* most once (the host adds up what it receives) and a stop succeeds at most
\* once; after that only the event and refusals follow.
OneEvent ==
  \A t \in Tasks : \A i, j \in DOMAIN sent[t] :
    /\ sent[t][i] \in Events => sent[t][1] = "started" /\ (sent[t][j] \in Events => j = i)
    /\ i < j /\ sent[t][i] = "metrics" => sent[t][j] # "metrics"
    /\ i < j /\ sent[t][i] = "stopped" => sent[t][j] \in Events \cup {"refused"}

\* A task's end that came before the flush of its stop is reported by the time
\* its record is removed, whoever took it from Done, and as what it was: fatal
\* for an error, completed otherwise.  A task that closes Done after an error
\* is the subject of FatalIsReported.
EndIsReported ==
  \A t \in Tasks : records[t] = "removed" /\ t \in early /\ pipe =>
    \E i \in DOMAIN sent[t] :
      /\ sent[t][i] \in Events
      /\ ~(said[t] = "err" /\ t \in closed) =>
            sent[t][i] = IF said[t] = "err" THEN "fatal" ELSE "completed"

\* An error a task has put on Done before the flush of its stop is reported as
\* fatal, even when the task has closed Done after it, the way the metrics
\* collector does (the design's "task Done errors are emitted as
\* BackgroundEvent(fatal_error)").
FatalIsReported ==
  \A t \in Tasks :
    records[t] = "removed" /\ t \in early /\ said[t] = "err" /\ pipe =>
      \E i \in DOMAIN sent[t] : sent[t][i] = "fatal"

\* A stop that failed leaves the task as it was: whenever Serve is idle, a
\* registered task is not stopping and its monitor still waits for Done, or has
\* what it waited for.
StopIsRetryable ==
  serve = "idle" => \A t \in Tasks : records[t] = "active" =>
    /\ t \notin stopping \cup told
    /\ mon[t] \in {"waiting", "observing"} \/ observed[t] # "no"

\* The end of a registered task is reported without anybody asking, even
\* while Serve is busy with another request, as long as the process and its
\* stdout last.
EndEventually ==
  \A t \in Tasks : t \in early ~>
    \/ \E i \in DOMAIN sent[t] : sent[t][i] \in Events
    \/ ~Running \/ ~pipe

\* Once the task's own Stop has returned, the rest of the stop does not hang:
\* not on the monitor, and not when the task never ends.
StopCompletes == serve = "outputs" ~> serve \in {"idle", "exited"}
=============================================================================
