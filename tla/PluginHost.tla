----------------------------- MODULE PluginHost -----------------------------
(***************************************************************************)
(* The host side of a plugin: StdioClient and remoteBackgroundTask of      *)
(* benchkit/pluginhost/stdio_client.go, with the plugin process at the     *)
(* other end of its two pipes.                                             *)
(*                                                                         *)
(* One goroutine makes the calls, as Engine.Run does: Start and Stop of    *)
(* background tasks, and any other call (Validate, Plan, Run), one at a    *)
(* time.  The read pump hands each frame to the waiter of its request, or  *)
(* to the background task whose start had that request id.  The plugin is  *)
(* the server of PluginServer seen from outside: it answers requests in    *)
(* order, its tasks write lifecycle frames (an output, metrics, an         *)
(* artifact chunk) and at most one event each.                             *)
(*                                                                         *)
(* A frame has the id of its request and a kind.  What it carries is left  *)
(* out.                                                                    *)
(***************************************************************************)
EXTENDS Integers, Sequences

CONSTANTS
  Tasks,     \* the background units the host starts in this plugin
  NoTask,    \* no task at all
  QueueCap,  \* the capacity of a waiter's queue
  MaxCalls,  \* a bound on the number of requests
  MaxLife,   \* a bound on the number of lifecycle frames
  MaxBad     \* a bound on the number of frames the reader cannot read

ASSUME NoTaskAssumption == NoTask \notin Tasks
ASSUME BoundsAssumption ==
  /\ QueueCap \in Nat \ {0}
  /\ {MaxCalls, MaxLife, MaxBad} \subseteq Nat

VARIABLES
  call,       \* the call in progress: where it is, its kind, task and request
  runCtx,     \* the run's context, given to Start and to other calls
  callerCtx,  \* the caller's context, given to Stop
  seq,        \* nextSeq
  reg,        \* the request registered in c.waiters, 0 if none
  queue,      \* the results of the waiter of the call in progress
  shut,       \* that waiter's done channel is closed
  pump,       \* where the read pump is, and the frame it has in hand
  startId,    \* the request id of each task's start, 0 before it
  starts,     \* the tasks in c.bgStarts
  byId,       \* the tasks in c.bgTasks
  finished,   \* the tasks that are completed and cleaned up
  done,       \* what has been put on each task's Done, which is then closed
  returned,   \* the tasks whose Start has returned them
  closed,     \* c.closed: stdin is closed
  proc,       \* the plugin process
  up,         \* the requests on stdin
  down,       \* the frames on stdout
  plug,       \* the request the plugin is handling
  srv,        \* each task in the plugin
  evented,    \* the event the plugin has written for each task
  life,       \* how many lifecycle frames have been written
  bad,        \* how many unreadable frames have been written
  killed,     \* history: why the host killed the process
  waited,     \* c.cmd.Wait has been called: it closes stdout on exit
  dropped,    \* history: the host has failed a call or task on its own
  warned,     \* history: tasks whose fatal event was written before StopResponse
  unapplied   \* history: how many lifecycle frames of each task have been
              \* written by the plugin and not applied to its RunEnv

callVars   == <<call, seq, reg, queue, shut>>
ctxVars    == <<runCtx, callerCtx>>
taskVars   == <<startId, starts, byId, finished, done, returned>>
procVars   == <<closed, proc, killed, waited>>
plugVars   == <<plug, srv, evented, life, bad, warned>>
histVars   == <<dropped, unapplied>>
vars == <<callVars, ctxVars, pump, taskVars, procVars, up, down, plugVars, histVars>>

Kinds == {"start", "stop", "other"}
NoReq == [id |-> 0, kind |-> "none", t |-> NoTask]
Idle  == [at |-> "idle", req |-> NoReq]
Frame(i, k) == [id |-> i, kind |-> k]
ErrFrame  == Frame(0, "err")
Reading   == [at |-> "read", frame |-> ErrFrame]

Init ==
  /\ call = Idle /\ seq = 0 /\ reg = 0 /\ queue = <<>> /\ shut = FALSE
  /\ runCtx = "live" /\ callerCtx = "live"
  /\ pump = Reading
  /\ startId = [t \in Tasks |-> 0]
  /\ starts = {} /\ byId = {} /\ finished = {} /\ returned = {}
  /\ done = [t \in Tasks |-> "none"]
  /\ closed = FALSE /\ proc = "alive" /\ killed = "no" /\ waited = FALSE
  /\ up = <<>> /\ down = <<>>
  /\ plug = NoReq
  /\ srv = [t \in Tasks |-> "none"]
  /\ evented = [t \in Tasks |-> "none"] /\ life = 0 /\ bad = 0 /\ warned = {}
  /\ dropped = FALSE
  /\ unapplied = [t \in Tasks |-> 0]

-----------------------------------------------------------------------------
(* What several methods do.                                                *)

\* completeDone: the first value counts.
CompleteDone(S, v) ==
  done' = [t \in Tasks |-> IF t \in S /\ done[t] = "none" THEN v ELSE done[t]]

\* remoteBackgroundTask.finish, of every task in S.
Finish(S, v) ==
  /\ finished' = finished \cup S
  /\ starts' = starts \ S
  /\ byId' = byId \ S
  /\ CompleteDone(S, v)

\* shutdown(true), which a call follows with startWait.
Kill(why) ==
  /\ waited' = (waited \/ why \in {"cancel", "close"})
  /\ closed' = TRUE
  /\ proc' = "dead"
  /\ killed' = IF proc = "alive" THEN why ELSE killed

\* A waiter's queue takes one more result.
RoomOffByOne == Len(queue) <= QueueCap
Room == Len(queue) < QueueCap

\* failAllWaiters: the waiter leaves c.waiters, with an error in its queue if
\* there is room, and is closed.
WaiterForgotten == reg' = 0 /\ UNCHANGED <<queue, shut>>
FailWaiters ==
  IF reg = 0 THEN UNCHANGED <<reg, queue, shut>>
  ELSE /\ reg' = 0
       /\ shut' = TRUE
       /\ queue' = IF Room THEN Append(queue, ErrFrame) ELSE queue

CtxOf(kind) == IF kind = "stop" THEN callerCtx ELSE runCtx
CallTasks == {call.req.t} \cap Tasks

Goto(at) == call' = [call EXCEPT !.at = at]

\* A start or a stop that fails completes its task with an error.
FailQuietly == Finish(CallTasks, "nil")
FailCall == Finish(CallTasks, "err")

\* registerBackgroundTask and registerBackgroundTaskID.
RegisterLate(t) == UNCHANGED starts
RegisterStart(t) == starts' = starts \cup {t}
RegisterId(t) == byId' = IF t \in finished THEN byId ELSE byId \cup {t}

\* backgroundTaskForEvent looks for the task by its id, then by its start.
KnownById(t) == t \in byId
Known(t) == t \in byId \cup starts

\* The tasks failAllBackgroundTasks finishes.
OnlyIdentified == byId
AllTasks == starts \cup byId

\* handleRunLifecycleFrame succeeds.
Apply(t) == unapplied' = [unapplied EXCEPT ![t] = @ - 1]

-----------------------------------------------------------------------------
(* The calls.                                                              *)

\* The first check of every method, when its context is over.
CallRefused(kind, t) ==
  /\ call = Idle
  /\ CtxOf(kind) = "cancelled"
  /\ kind = "stop" => t \in returned
  /\ Kill("cancel")
  /\ IF kind = "stop"
     THEN Finish({t}, "err")
     ELSE UNCHANGED <<starts, byId, finished, done>>
  /\ UNCHANGED <<callVars, ctxVars, pump, startId, returned, up, down, plugVars,
                 dropped, unapplied>>

\* A request gets its id and its waiter; a start registers its task before the
\* request is written.
Call(kind, t) ==
  /\ call = Idle
  /\ CtxOf(kind) = "live"
  /\ seq < MaxCalls
  /\ CASE kind = "start" -> /\ t \in Tasks /\ startId[t] = 0
                            /\ startId' = [startId EXCEPT ![t] = seq + 1]
                            /\ RegisterStart(t)
       [] kind = "stop"  -> /\ t \in returned
                            /\ UNCHANGED <<startId, starts>>
       [] OTHER          -> t = NoTask /\ UNCHANGED <<startId, starts>>
  /\ seq' = seq + 1
  /\ reg' = seq + 1
  /\ queue' = <<>>
  /\ shut' = FALSE
  /\ call' = [at |-> "write", req |-> [id |-> seq + 1, kind |-> kind, t |-> t]]
  /\ UNCHANGED <<ctxVars, pump, byId, finished, done, returned, procVars, up,
                 down, plugVars, histVars>>

\* writeFrame: it fails when stdin is closed or nobody holds its other end.
WriteRequest ==
  /\ call.at = "write"
  /\ IF closed \/ proc = "dead"
     THEN /\ FailCall
          /\ Goto("return")
          /\ UNCHANGED up
     ELSE /\ up' = Append(up, call.req)
          /\ Goto("wait")
          /\ UNCHANGED <<starts, byId, finished, done>>
  /\ UNCHANGED <<seq, reg, queue, shut, ctxVars, pump, startId, returned,
                 procVars, down, plugVars, dropped, unapplied>>

\* waitForRequestFrame finds nothing yet and waits.
Block ==
  /\ call.at = "wait"
  /\ queue = <<>> /\ ~shut
  /\ Goto("blocked")
  /\ UNCHANGED <<seq, reg, queue, shut, ctxVars, pump, taskVars, procVars, up,
                 down, plugVars, histVars>>

\* The waiter is closed, with nothing or an error in its queue: the call fails.
ReadFails ==
  /\ call.at \in {"wait", "blocked"}
  /\ IF queue = <<>> THEN shut ELSE Head(queue).kind = "err"
  /\ FailCall
  /\ Goto("return")
  /\ UNCHANGED <<seq, reg, queue, shut, ctxVars, pump, startId, returned,
                 procVars, up, down, plugVars, dropped, unapplied>>

\* The context ends while the call waits: the plugin is killed.
CallCancelled ==
  /\ call.at = "blocked"
  /\ CtxOf(call.req.kind) = "cancelled"
  /\ Kill("cancel")
  /\ FailCall
  /\ Goto("return")
  /\ UNCHANGED <<seq, reg, queue, shut, ctxVars, pump, startId, returned, up,
                 down, plugVars, dropped, unapplied>>

\* The next frame of the call is taken from its queue.
Take(kinds) == /\ call.at \in {"wait", "blocked"}
               /\ queue # <<>> /\ Head(queue).kind \in kinds
               /\ queue' = Tail(queue)

\* A lifecycle frame of a start or a run in progress.
TakeLife ==
  /\ Take({"life"})
  /\ \/ /\ Goto("wait")
        /\ IF call.req.kind = "start" THEN Apply(call.req.t)
                                      ELSE UNCHANGED unapplied
        /\ UNCHANGED <<starts, byId, finished, done, dropped>>
     \/ /\ Goto("return")             \* it cannot be applied: the call fails
        /\ FailCall
        /\ dropped' = TRUE
        /\ UNCHANGED unapplied
  /\ UNCHANGED <<seq, reg, shut, ctxVars, pump, startId, returned, procVars, up,
                 down, plugVars>>

TakeStarted ==
  /\ Take({"started"})
  /\ RegisterId(call.req.t)
  /\ returned' = returned \cup {call.req.t}
  /\ Goto("return")
  /\ UNCHANGED <<seq, reg, shut, ctxVars, pump, startId, starts, finished, done,
                 procVars, up, down, plugVars, histVars>>

TakeStartError ==
  /\ Take({"startError"})
  /\ FailCall
  /\ Goto("return")
  /\ UNCHANGED <<seq, reg, shut, ctxVars, pump, startId, returned, procVars, up,
                 down, plugVars, dropped, unapplied>>

\* The StopResponse: the stop waits a little for the task's event.
TakeStopped ==
  /\ Take({"stopped"})
  /\ Goto("grace")
  /\ UNCHANGED <<seq, reg, shut, ctxVars, pump, taskVars, procVars, up, down,
                 plugVars, histVars>>

\* waitForStopTerminalEvent is over: Done is complete, or 100 ms have passed.
GraceEnds ==
  /\ call.at = "grace"
  /\ Finish(CallTasks, "nil")
  /\ Goto("return")
  /\ UNCHANGED <<seq, reg, queue, shut, ctxVars, pump, startId, returned,
                 procVars, up, down, plugVars, dropped, unapplied>>

\* An error answers the stop.  RUN_ERROR leaves the task as it is, for another
\* stop; any other code completes it.
FailStopForGood == FailCall
FailStop == UNCHANGED <<starts, byId, finished, done>>
TakeStopError ==
  /\ Take({"stopError", "refused"})
  /\ IF Head(queue).kind = "stopError" THEN FailStop ELSE FailCall
  /\ Goto("return")
  /\ UNCHANGED <<seq, reg, shut, ctxVars, pump, startId, returned, procVars, up,
                 down, plugVars, dropped, unapplied>>

TakeDone ==
  /\ Take({"done"})
  /\ Goto("return")
  /\ UNCHANGED <<seq, reg, shut, ctxVars, pump, taskVars, procVars, up, down,
                 plugVars, histVars>>

\* The deferred unregisterWaiter: what is left in the queue is gone.
Return ==
  /\ call.at = "return"
  /\ reg' = 0
  /\ queue' = <<>>
  /\ shut' = FALSE
  /\ call' = Idle
  /\ UNCHANGED <<seq, ctxVars, pump, taskVars, procVars, up, down, plugVars, histVars>>

-----------------------------------------------------------------------------
(* Close, which the command line calls once, after the run.                *)

CloseClient ==
  /\ call = Idle
  /\ call' = [Idle EXCEPT !.at = "closing"]
  /\ closed' = TRUE
  /\ waited' = TRUE
  /\ UNCHANGED <<seq, reg, queue, shut, ctxVars, pump, taskVars, proc, killed,
                 up, down, plugVars, histVars>>

\* The process has not exited after two seconds.
CloseKills ==
  /\ call.at = "closing" /\ proc = "alive"
  /\ Kill("close")
  /\ UNCHANGED <<callVars, ctxVars, pump, taskVars, up, down, plugVars, histVars>>

\* The pump has ended, or 500 ms have passed.
CloseReturns ==
  /\ call.at = "closing" /\ proc = "dead"
  /\ Goto("closed")
  /\ UNCHANGED <<seq, reg, queue, shut, ctxVars, pump, taskVars, procVars, up,
                 down, plugVars, histVars>>

-----------------------------------------------------------------------------
(* The read pump.                                                          *)

Starter(i) == {t \in Tasks : startId[t] = i /\ t \in starts}

PumpGoes(at, f) == pump' = [at |-> at, frame |-> f]

\* dispatchBackgroundEvent; an event of a task the host does not know any more
\* is ignored.
PumpEvent ==
  /\ pump.at = "read" /\ down # <<>>
  /\ Head(down).kind \in {"fatal", "completed"}
  /\ LET T == {t \in Tasks : startId[t] = Head(down).id /\ Known(t)}
     IN CompleteDone(T, IF Head(down).kind = "fatal" THEN "err" ELSE "nil")
  /\ down' = Tail(down)
  /\ UNCHANGED <<callVars, ctxVars, pump, startId, starts, byId, finished,
                 returned, procVars, up, plugVars, histVars>>

\* A frame for a registered waiter; it is delivered without the lock.
PumpFinds ==
  /\ pump.at = "read" /\ down # <<>>
  /\ Head(down).kind \notin {"fatal", "completed", "bad"}
  /\ Head(down).id = reg
  /\ PumpGoes("deliver", Head(down))
  /\ down' = Tail(down)
  /\ UNCHANGED <<callVars, ctxVars, taskVars, procVars, up, plugVars, histVars>>

\* Nobody reads the queue of a waiter that is gone.
PumpDelivers ==
  /\ pump.at = "deliver"
  /\ \/ /\ pump.frame.id # call.req.id
        /\ pump' = Reading
        /\ UNCHANGED <<reg, queue, shut>>
     \/ /\ pump.frame.id = call.req.id /\ Room
        /\ queue' = Append(queue, pump.frame)
        /\ pump' = Reading
        /\ UNCHANGED <<reg, shut>>
     \/ /\ pump.frame.id = call.req.id /\ ~Room
        /\ FailWaiters
        /\ PumpGoes("full", pump.frame)
  /\ UNCHANGED <<call, seq, ctxVars, taskVars, procVars, up, down, plugVars, histVars>>

\* dispatchBackgroundLifecycleFrame, for a task whose start has returned.
PumpLife ==
  /\ pump.at = "read" /\ down # <<>>
  /\ Head(down).kind = "life" /\ Head(down).id # reg
  /\ \E t \in Starter(Head(down).id) :
       \/ /\ Apply(t)
          /\ UNCHANGED <<starts, byId, finished, done, dropped>>
       \/ /\ Finish({t}, "err")       \* it cannot be applied
          /\ dropped' = TRUE
          /\ UNCHANGED unapplied
  /\ down' = Tail(down)
  /\ UNCHANGED <<callVars, ctxVars, pump, startId, returned, procVars, up,
                 plugVars>>

\* A frame nobody asked for.
PumpUnexpected ==
  /\ pump.at = "read" /\ down # <<>>
  /\ Head(down).kind \notin {"fatal", "completed", "bad"}
  /\ Head(down).id # reg
  /\ Head(down).kind = "life" => Starter(Head(down).id) = {}
  /\ FailWaiters
  /\ PumpGoes("unexpected", Head(down))
  /\ down' = Tail(down)
  /\ UNCHANGED <<call, seq, ctxVars, taskVars, procVars, up, plugVars, histVars>>

\* After failAllWaiters: failAllBackgroundTasks, and then shutdown(true).
PumpFailsTasks ==
  /\ pump.at \in {"unexpected", "full"}
  /\ Finish(AllTasks, "err")
  /\ PumpGoes("kill", [pump.frame EXCEPT !.kind = pump.at])
  /\ UNCHANGED <<callVars, ctxVars, startId, returned, procVars, up, down,
                 plugVars, histVars>>

PumpKills ==
  /\ pump.at = "kill"
  /\ Kill(pump.frame.kind)
  /\ pump' = Reading
  /\ UNCHANGED <<callVars, ctxVars, taskVars, up, down, plugVars, histVars>>

\* The end of stdout, a frame that cannot be read, or a pipe closed by the
\* Wait that follows a kill or a Close: the pump ends.
PumpEnds ==
  /\ pump.at = "read"
  /\ \/ proc = "dead" /\ (down = <<>> \/ waited)
     \/ down # <<>> /\ Head(down).kind = "bad"
  /\ FailWaiters
  /\ PumpGoes("failing", ErrFrame)
  /\ down' = <<>>
  /\ UNCHANGED <<call, seq, ctxVars, taskVars, procVars, up, plugVars, histVars>>

PumpExits ==
  /\ pump.at = "failing"
  /\ Finish(AllTasks, "err")
  /\ PumpGoes("exited", ErrFrame)
  /\ UNCHANGED <<callVars, ctxVars, startId, returned, procVars, up, down,
                 plugVars, histVars>>

-----------------------------------------------------------------------------
(* The plugin.                                                             *)

Send(f) == down' = Append(down, f)

PluginReads ==
  /\ proc = "alive" /\ plug = NoReq /\ up # <<>>
  /\ plug' = Head(up)
  /\ up' = Tail(up)
  /\ UNCHANGED <<callVars, ctxVars, pump, taskVars, procVars, down, srv, evented,
                 life, bad, warned, histVars>>

\* The answer to a request.  After a StopResponse the server still flushes the
\* task's event and removes its record before it reads on.
PluginAnswers ==
  /\ proc = "alive"
  /\ LET t == plug.t
         Answer(k) == Send(Frame(plug.id, k)) IN
     \/ /\ plug.kind = "start"
        /\ \/ Answer("started") /\ srv' = [srv EXCEPT ![t] = "active"]
           \/ Answer("startError") /\ UNCHANGED srv
        /\ plug' = NoReq
     \/ /\ plug.kind = "stop" /\ srv[t] = "active"
        /\ \/ Answer("stopped") /\ srv' = [srv EXCEPT ![t] = "flushing"]
              /\ UNCHANGED plug
           \/ Answer("stopError") /\ plug' = NoReq /\ UNCHANGED srv
     \/ /\ plug.kind = "stop" /\ srv[t] = "removed"
        /\ Answer("refused") /\ plug' = NoReq /\ UNCHANGED srv
     \/ /\ plug.kind = "other"
        /\ Answer("done") /\ plug' = NoReq /\ UNCHANGED srv
  /\ UNCHANGED <<callVars, ctxVars, pump, taskVars, procVars, up, evented, life,
                 bad, warned, histVars>>

PluginRemoves ==
  /\ proc = "alive" /\ plug.kind = "stop" /\ srv[plug.t] = "flushing"
  /\ srv' = [srv EXCEPT ![plug.t] = "removed"]
  /\ plug' = NoReq
  /\ UNCHANGED <<callVars, ctxVars, pump, taskVars, procVars, up, down, evented,
                 life, bad, warned, histVars>>

\* A lifecycle frame of the call being handled or of a task that runs.
PluginLife ==
  /\ proc = "alive" /\ life < MaxLife
  /\ \E i \in {startId[t] : t \in {u \in Tasks : srv[u] = "active"}}
            \cup (IF plug.kind \in {"start", "other"} THEN {plug.id} ELSE {}) :
       /\ Send(Frame(i, "life"))
       /\ unapplied' = [t \in Tasks |-> unapplied[t] + IF startId[t] = i THEN 1 ELSE 0]
  /\ life' = life + 1
  /\ UNCHANGED <<callVars, ctxVars, pump, taskVars, procVars, up, plug, srv,
                 evented, bad, warned, dropped>>

\* The event of a task, once, from its start to its removal.
PluginEvent(t) ==
  /\ proc = "alive" /\ srv[t] \in {"active", "flushing"} /\ evented[t] = "none"
  /\ \E k \in {"fatal", "completed"} :
       /\ evented' = [evented EXCEPT ![t] = k]
       /\ Send(Frame(startId[t], k))
       /\ warned' = IF k = "fatal" /\ srv[t] = "active" THEN warned \cup {t} ELSE warned
  /\ UNCHANGED <<callVars, ctxVars, pump, taskVars, procVars, up, plug, srv, life,
                 bad, histVars>>

\* A frame longer than the reader accepts, or garbage on stdout.
PluginBad ==
  /\ proc = "alive" /\ bad < MaxBad
  /\ bad' = bad + 1
  /\ Send(Frame(0, "bad"))
  /\ UNCHANGED <<callVars, ctxVars, pump, taskVars, procVars, up, plug, srv,
                 evented, life, warned, histVars>>

\* The plugin crashes.
PluginDies ==
  /\ proc = "alive"
  /\ proc' = "dead"
  /\ UNCHANGED <<callVars, ctxVars, pump, taskVars, closed, killed, waited, up, down,
                 plugVars, histVars>>

\* A context ends: the run's alone, when a background unit has failed, or the
\* caller's, and with it the run's.
CtxEnds ==
  /\ \/ runCtx = "live" /\ UNCHANGED callerCtx
     \/ callerCtx = "live" /\ callerCtx' = "cancelled"
  /\ runCtx' = "cancelled"
  /\ UNCHANGED <<callVars, pump, taskVars, procVars, up, down, plugVars, histVars>>

Closed == call.at = "closed" /\ UNCHANGED vars

-----------------------------------------------------------------------------
Caller == \/ WriteRequest \/ Block \/ ReadFails \/ CallCancelled \/ TakeLife
          \/ TakeStarted \/ TakeStartError \/ TakeStopped \/ GraceEnds
          \/ TakeStopError \/ TakeDone \/ Return \/ CloseKills \/ CloseReturns

Pump == \/ PumpEvent \/ PumpFinds \/ PumpDelivers \/ PumpLife \/ PumpUnexpected
        \/ PumpFailsTasks \/ PumpKills \/ PumpEnds \/ PumpExits

Plugin == PluginReads \/ PluginAnswers \/ PluginRemoves

Next == \/ Caller \/ Pump \/ Plugin
        \/ \E k \in Kinds, t \in Tasks \cup {NoTask} : CallRefused(k, t) \/ Call(k, t)
        \/ CloseClient
        \/ PluginLife \/ PluginBad \/ PluginDies
        \/ \E t \in Tasks : PluginEvent(t)
        \/ CtxEnds
        \/ Closed

Spec == Init /\ [][Next]_vars

\* The host's goroutines and timers take the steps they can take, and the plugin
\* handles every request in the end, or dies.
Fairness == WF_vars(Caller) /\ WF_vars(Pump) /\ WF_vars(Plugin)
FairSpec == Spec /\ Fairness

-----------------------------------------------------------------------------
(* Properties.                                                             *)

FrameKinds == {"life", "started", "startError", "stopped", "stopError",
               "refused", "done", "fatal", "completed", "bad", "err",
               "unexpected", "full"}
Requests == [id : 0..MaxCalls, kind : Kinds \cup {"none"}, t : Tasks \cup {NoTask}]
AnyFrame == [id : 0..MaxCalls, kind : FrameKinds]

\* Every variable stays in its domain, and no waiter's queue holds more than its
\* capacity (the fields of StdioClient and remoteBackgroundTask).
TypeOK ==
  /\ call.at \in {"idle", "write", "wait", "blocked", "grace", "return",
                  "closing", "closed"}
  /\ call.req \in Requests /\ plug \in Requests
  /\ {runCtx, callerCtx} \subseteq {"live", "cancelled"}
  /\ {seq, reg} \subseteq 0..MaxCalls
  /\ queue \in Seq(AnyFrame) /\ Len(queue) <= QueueCap
  /\ pump.at \in {"read", "deliver", "unexpected", "full", "kill", "failing",
                  "exited"}
  /\ pump.frame \in AnyFrame
  /\ startId \in [Tasks -> 0..MaxCalls]
  /\ UNION {starts, byId, finished, returned, warned} \subseteq Tasks
  /\ done \in [Tasks -> {"none", "err", "nil"}]
  /\ {shut, closed, waited, dropped} \subseteq BOOLEAN
  /\ proc \in {"alive", "dead"}
  /\ killed \in {"no", "cancel", "close", "unexpected", "full"}
  /\ up \in Seq(Requests) /\ down \in Seq(AnyFrame)
  /\ srv \in [Tasks -> {"none", "active", "flushing", "removed"}]
  /\ evented \in [Tasks -> {"none", "fatal", "completed"}]
  /\ life \in 0..MaxLife /\ bad \in 0..MaxBad
  /\ unapplied \in [Tasks -> 0..MaxLife]

\* A task's Done says it ended well only when the plugin has said so, by an
\* event or by a StopResponse: a lost plugin, a cancelled call or a failed one
\* never looks like a normal end.
NilIsEarned ==
  \A t \in Tasks : done[t] = "nil" =>
    evented[t] = "completed" \/ srv[t] \in {"flushing", "removed"}

\* A fatal event the plugin wrote before it answered the stop is never passed
\* over for the success of that stop, whenever it comes: while Start is still
\* returning, while the stop waits, or while a task is being failed.
FatalIsKept == \A t \in warned : done[t] # "nil"

\* When the read pump has ended, every task Start has returned has completed its
\* Done: no kernel waits for a task of a dead plugin.
NoOrphan == pump.at = "exited" => \A t \in returned : done[t] # "none"

\* The host takes a frame for unexpected, and kills the plugin with every task
\* in it, only after it has itself given up a call or task because a frame of it
\* could not be applied.
KillIsJustified == killed = "unexpected" => dropped

\* Once everything in flight has arrived, every lifecycle frame of a running
\* task has been applied to its RunEnv (the design: background units publish
\* outputs, metrics and artifacts into the same RunEnv).
LifeApplied ==
  \A t \in returned \ finished :
    call = Idle /\ down = <<>> /\ pump.at = "read" => unapplied[t] = 0

\* Every call returns, whatever dies, as long as the plugin handles its requests
\* and writes nothing unreadable (readLoop, waitForRequestFrame).
CallReturns == call.at \notin {"idle", "closed"} ~> (call.at \in {"idle", "closed"} \/ bad > 0)

\* The end of the plugin process completes the Done of every task in it.
DeathIsReported ==
  \A t \in Tasks : (proc = "dead" /\ t \in returned) ~> done[t] # "none"
=============================================================================
