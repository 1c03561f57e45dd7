------------------------- MODULE PluginServerProofs -------------------------
(***************************************************************************)
(* Proofs about PluginServer: the frames of a task come in the order the   *)
(* host relies on, its end is reported as what it was, and a stop that     *)
(* fails can be tried again, whatever the number of tasks and stops.       *)
(***************************************************************************)
EXTENDS PluginServer, TLAPS

FrameKinds == {"startError", "started", "refused", "output", "metrics", "stopError",
               "stopped"} \cup Events
Ends == {"none", "err", "nil"}

\* Where Serve is while it handles a stop: before it has flushed the metrics,
\* after it has answered, and once it has looked at Done.
BeforeFlush == {"stopping", "outputs", "metrics"}
AfterLook   == {"emit", "write", "close", "join"}
Answered    == {"flush", "observe"} \cup AfterLook
InStop      == BeforeFlush \cup {"respond"} \cup Answered

\* Whether a frame of kinds K has been written for t.
Wrote(t, K) == \E i \in DOMAIN sent[t] : sent[t][i] \in K

\* Every variable stays in its domain.
Domains ==
  /\ serve \in {"idle", "busy", "exited", "starting", "stored"} \cup InStop
  /\ on \in Tasks \cup {NoTask}
  /\ taken \in Ends /\ pipe \in BOOLEAN
  /\ records \in [Tasks -> {"none", "failed", "active", "removed"}]
  /\ buf \in [Tasks -> Ends] /\ held \in [Tasks -> Ends] /\ said \in [Tasks -> Ends]
  /\ mon \in [Tasks -> {"none", "waiting", "observing", "emitting", "writing", "exited"}]
  /\ observed \in [Tasks -> {"no", "err", "nil"}]

Frames == sent \in [Tasks -> Seq(FrameKinds)]

\* Serve handles the request of one task, whose record says how far it is.
ServeInv ==
  /\ serve \in {"idle", "busy"} => on = NoTask
  /\ serve = "starting" => on \in Tasks /\ records[on] = "none"
  /\ serve = "stored" => on \in Tasks /\ records[on] = "active" /\ mon[on] = "none"
  /\ serve \in InStop => on \in Tasks /\ records[on] = "active"

\* The monitor runs from the answer to the start to the removal of the record.
MonitorInv ==
  \A t \in Tasks :
    /\ records[t] \in {"none", "failed"} => mon[t] = "none"
    /\ records[t] = "removed" => mon[t] = "exited"
    /\ Running /\ records[t] = "active" /\ mon[t] = "none" => serve = "stored" /\ on = t
    /\ mon[t] \in {"emitting", "writing"} => observed[t] # "no"
    /\ mon[t] = "exited" => observed[t] # "no" \/ t \in told
    /\ mon[t] = "observing" <=> held[t] # "none"
    /\ Running /\ t \in told => (on = t /\ serve = "join") \/ records[t] = "removed"
    /\ Running /\ t \in stopping => (on = t /\ serve \in InStop) \/ records[t] = "removed"

\* What is received from Done, and then observed, is what the task has said,
\* or the nil of the closed channel.
TrueTo(t, v) == /\ v = "err" => said[t] = "err"
                /\ v = "nil" => said[t] = "nil" \/ t \in closed
DoneInv ==
  /\ serve = "observe" => taken # "none" /\ TrueTo(on, taken)
  /\ \A t \in Tasks :
       /\ buf[t] # "none" => buf[t] = said[t]
       /\ TrueTo(t, held[t])
       /\ TrueTo(t, observed[t])
       /\ said[t] # "none" => \/ buf[t] # "none" \/ observed[t] # "no" \/ mon[t] = "observing"
                              \/ (serve = "observe" /\ on = t) \/ serve = "exited"

\* Who has marked the event of a task writes it, once.
EventInv ==
  /\ serve = "write" => on \in evented /\ mon[on] # "writing" /\ ~Wrote(on, Events)
  /\ \A t \in Tasks :
       /\ t \in evented => observed[t] # "no"
       /\ mon[t] = "writing" => t \in evented /\ ~Wrote(t, Events)
       /\ t \in evented /\ pipe =>
            Wrote(t, Events) \/ mon[t] = "writing" \/ (serve = "write" /\ on = t)
       /\ \A i \in DOMAIN sent[t] : sent[t][i] \in Events =>
            t \in evented /\ sent[t][i] = EventOf(t)

\* The answer to the start comes first; metrics and the answer to a stop belong
\* to the stop that succeeds.
OrderInv ==
  \A t \in Tasks :
    /\ records[t] = "none" => sent[t] = <<>>
    /\ records[t] = "failed" => ~Wrote(t, Events \cup {"metrics", "stopped"})
    /\ records[t] \in {"active", "removed"} =>
         IF mon[t] = "none" THEN sent[t] = <<>>
                            ELSE sent[t] # <<>> /\ sent[t][1] = "started"
    /\ Running /\ Wrote(t, {"metrics"}) =>
         (on = t /\ serve \in {"respond"} \cup Answered) \/ records[t] = "removed"
    /\ Running /\ Wrote(t, {"stopped"}) =>
         (on = t /\ serve \in Answered) \/ records[t] = "removed"

\* The end of a task that came early is observed by the flush of its stop or by
\* the monitor before it, and whoever observed it marks the event.
EarlyInv ==
  \A t \in Tasks : t \in early =>
    /\ said[t] # "none" \/ t \in closed
    /\ on = t /\ serve = "emit" => observed[t] # "no" \/ mon[t] = "observing"
    /\ on = t /\ serve \in {"write", "close", "join"} =>
         t \in evented \/ mon[t] \in {"observing", "emitting"}
    /\ records[t] = "removed" => t \in evented

IInv == /\ Domains /\ Frames /\ ServeInv /\ MonitorInv /\ DoneInv /\ EventInv /\ OrderInv
        /\ EarlyInv /\ OneEvent
-----------------------------------------------------------------------------
(* Frames.                                                                 *)

\* What a step that writes nothing, or one frame, makes of the frames of a task.
LEMMA NothingWritten ==
  ASSUME UNCHANGED sent
  PROVE  \A t, K : Wrote(t, K)' <=> Wrote(t, K)
  BY DEF Wrote

LEMMA OneWritten ==
  ASSUME Frames, NEW t \in Tasks, NEW f \in FrameKinds, Write(t, f)
  PROVE  /\ Frames'
         /\ \A u \in Tasks : u # t => sent'[u] = sent[u]
         /\ \A u \in Tasks : u # t => \A K : Wrote(u, K)' <=> Wrote(u, K)
         /\ \A K : Wrote(t, K)' <=> Wrote(t, K) \/ f \in K
         /\ sent'[t] # <<>>
         /\ sent'[t][1] = IF sent[t] = <<>> THEN f ELSE sent[t][1]
         /\ DOMAIN sent[t] = 1..Len(sent[t]) /\ Len(sent[t]) \in Nat
         /\ DOMAIN sent'[t] = 1..Len(sent[t]) + 1
         /\ sent'[t][Len(sent[t]) + 1] = f
         /\ \A i \in DOMAIN sent[t] : sent'[t][i] = sent[t][i]
  <1>1. /\ sent[t] \in Seq(FrameKinds)
        /\ sent'[t] = Append(sent[t], f)
        /\ \A u \in Tasks : u # t => sent'[u] = sent[u]
    BY DEF Frames, Write
  <1>2. Frames'
    BY <1>1 DEF Frames, Write
  <1>3. /\ DOMAIN sent[t] = 1..Len(sent[t]) /\ Len(sent[t]) \in Nat
        /\ DOMAIN sent'[t] = 1..Len(sent[t]) + 1
        /\ sent'[t][Len(sent[t]) + 1] = f
        /\ \A i \in DOMAIN sent[t] : sent'[t][i] = sent[t][i]
    BY <1>1
  <1>4. \A K : Wrote(t, K)' <=> Wrote(t, K) \/ f \in K
    BY <1>3 DEF Wrote
  <1>5. \A u \in Tasks : u # t => \A K : Wrote(u, K)' <=> Wrote(u, K)
    BY <1>1 DEF Wrote
  <1>6. sent'[t] # <<>> /\ sent'[t][1] = IF sent[t] = <<>> THEN f ELSE sent[t][1]
    <2>1. CASE sent[t] = <<>>
      BY <1>1, <2>1
    <2>2. CASE sent[t] # <<>>
      BY <1>1, <1>3, <2>2
    <2> QED BY <2>1, <2>2
  <1> QED BY <1>1, <1>2, <1>3, <1>4, <1>5, <1>6

\* Who writes which frame, and when.
Writes(t, f) ==
  /\ Running /\ pipe /\ Write(t, f)
  /\ \/ f = "startError" /\ serve = "starting" /\ on = t
     \/ f = "started" /\ serve = "stored" /\ on = t
     \/ f = "refused" /\ serve = "idle" /\ records[t] = "removed"
     \/ f = "output" /\ serve = "outputs" /\ on = t
     \/ f = "metrics" /\ serve = "metrics" /\ on = t
     \/ f = "stopError" /\ serve \in BeforeFlush /\ on = t
     \/ f = "stopped" /\ serve = "respond" /\ on = t
     \/ f = EventOf(t) /\ ((serve = "write" /\ on = t) \/ mon[t] = "writing")

\* Every frame is one of those.
LEMMA StepWrites ==
  ASSUME Domains, ServeInv, [Next]_vars
  PROVE  UNCHANGED sent \/ \E t \in Tasks, f \in FrameKinds : Writes(t, f)
  <1> DEFINE G == UNCHANGED sent \/ \E t \in Tasks, f \in FrameKinds : Writes(t, f)
  <1> USE DEF serveVars, recordVars, eventVars, monitorVars, taskVars, Domains, ServeInv, Writes, BeforeFlush, Running, InStop, Answered, AfterLook, FrameKinds, Events
  <1>1. CASE StartResponse
    BY <1>1 DEF StartResponse, WriteThen, StartMonitor
  <1>2. CASE WriteOutputs
    BY <1>2 DEF WriteOutputs
  <1>3. CASE WriteMetrics
    BY <1>3 DEF WriteMetrics
  <1>4. CASE StopResponse
    BY <1>4 DEF StopResponse, WriteThen, Abort
  <1>5. CASE Flush
    BY <1>5 DEF Flush, FlushFinds, Ready, Value, Receive
  <1>6. CASE ServeObserves
    BY <1>6 DEF ServeObserves, ObserveDone
  <1>7. CASE ServeEmits
    BY <1>7 DEF ServeEmits, ShouldEmit
  <1>8. CASE ServeWrites
    BY <1>8 DEF ServeWrites, WriteEvent, EventOf
  <1>9. CASE CloseMonitor
    BY <1>9 DEF CloseMonitor, TellMonitor
  <1>10. CASE Remove
    BY <1>10 DEF Remove, RemoveRecord, MonitorJoined
  <1>11. CASE StartFails
    BY <1>11 DEF StartFails, WriteThen
  <1>12. CASE Store
    BY <1>12 DEF Store, NoMonitorYet
  <1>13. CASE StopFails
    BY <1>13 DEF StopFails, Abort, WriteThen
  <1>14. ASSUME NEW t \in Tasks, StartRequest(t) PROVE G
    BY <1>14 DEF StartRequest
  <1>15. ASSUME NEW t \in Tasks, StopRequest(t) PROVE G
    BY <1>15 DEF StopRequest
  <1>16. ASSUME NEW t \in Tasks, StopRefused(t) PROVE G
    BY <1>16 DEF StopRefused, WriteThen
  <1>17. ASSUME NEW t \in Tasks, MonitorReceives(t) PROVE G
    BY <1>17 DEF MonitorReceives, Ready, Value, Receive
  <1>18. ASSUME NEW t \in Tasks, MonitorObserves(t) PROVE G
    BY <1>18 DEF MonitorObserves, ObserveDone
  <1>19. ASSUME NEW t \in Tasks, MonitorEmits(t) PROVE G
    BY <1>19 DEF MonitorEmits, ShouldEmit
  <1>20. ASSUME NEW t \in Tasks, MonitorWrites(t) PROVE G
    BY <1>20 DEF MonitorWrites, WriteEvent, EventOf
  <1>21. ASSUME NEW t \in Tasks, MonitorStops(t) PROVE G
    BY <1>21 DEF MonitorStops
  <1>22. ASSUME NEW t \in Tasks, TaskSends(t) PROVE G
    BY <1>22 DEF TaskSends, EndsNow, Flushed
  <1>23. ASSUME NEW t \in Tasks, TaskCloses(t) PROVE G
    BY <1>23 DEF TaskCloses, EndsNow, Flushed
  <1>24. CASE \/ TaskStops \/ OtherRequest \/ OtherAnswered \/ HostHangsUp \/ PipeBreaks
            \/ Exited \/ UNCHANGED vars
    BY <1>24 DEF TaskStops, OtherRequest, OtherAnswered, HostHangsUp, PipeBreaks, Exited, vars
    <1> QED BY <1>1, <1>2, <1>3, <1>4, <1>5, <1>6, <1>7, <1>8, <1>9, <1>10, <1>11,
             <1>12, <1>13, <1>14, <1>15, <1>16, <1>17, <1>18, <1>19, <1>20, <1>21,
             <1>22, <1>23, <1>24
         DEF Next, ServeStep, Monitor

-----------------------------------------------------------------------------
(* Steps.                                                                  *)

\* Every step keeps the domains.
LEMMA DomainsStep ==
  ASSUME Domains, ServeInv, MonitorInv, DoneInv, [Next]_vars
  PROVE  Domains'
  <1> USE DEF serveVars, recordVars, eventVars, monitorVars, taskVars, Domains, ServeInv, MonitorInv, DoneInv, Ends, BeforeFlush, Answered, AfterLook, InStop
  <1>1. CASE StartResponse
    BY <1>1 DEF StartResponse, WriteThen, Write, StartMonitor
  <1>2. CASE WriteOutputs
    BY <1>2 DEF WriteOutputs, Write
  <1>3. CASE WriteMetrics
    BY <1>3 DEF WriteMetrics, Write
  <1>4. CASE StopResponse
    BY <1>4 DEF StopResponse, WriteThen, Write, Abort
  <1>5. CASE Flush
    BY <1>5 DEF Flush, FlushFinds, Ready, Value, Receive
  <1>6. CASE ServeObserves
    BY <1>6 DEF ServeObserves, ObserveDone
  <1>7. CASE ServeEmits
    BY <1>7 DEF ServeEmits, ShouldEmit
  <1>8. CASE ServeWrites
    BY <1>8 DEF ServeWrites, WriteEvent, EventOf, Write
  <1>9. CASE CloseMonitor
    BY <1>9 DEF CloseMonitor, TellMonitor
  <1>10. CASE Remove
    BY <1>10 DEF Remove, RemoveRecord, MonitorJoined
  <1>11. CASE StartFails
    BY <1>11 DEF StartFails, WriteThen, Write
  <1>12. CASE Store
    BY <1>12 DEF Store, NoMonitorYet
  <1>13. CASE StopFails
    BY <1>13 DEF StopFails, Abort, WriteThen, Write
  <1>14. ASSUME NEW t \in Tasks, StartRequest(t) PROVE Domains'
    BY <1>14 DEF StartRequest
  <1>15. ASSUME NEW t \in Tasks, StopRequest(t) PROVE Domains'
    BY <1>15 DEF StopRequest
  <1>16. ASSUME NEW t \in Tasks, StopRefused(t) PROVE Domains'
    BY <1>16 DEF StopRefused, WriteThen, Write
  <1>17. ASSUME NEW t \in Tasks, MonitorReceives(t) PROVE Domains'
    BY <1>17 DEF MonitorReceives, Ready, Value, Receive
  <1>18. ASSUME NEW t \in Tasks, MonitorObserves(t) PROVE Domains'
    BY <1>18 DEF MonitorObserves, ObserveDone
  <1>19. ASSUME NEW t \in Tasks, MonitorEmits(t) PROVE Domains'
    BY <1>19 DEF MonitorEmits, ShouldEmit
  <1>20. ASSUME NEW t \in Tasks, MonitorWrites(t) PROVE Domains'
    BY <1>20 DEF MonitorWrites, WriteEvent, EventOf, Write
  <1>21. ASSUME NEW t \in Tasks, MonitorStops(t) PROVE Domains'
    BY <1>21 DEF MonitorStops
  <1>22. ASSUME NEW t \in Tasks, TaskSends(t) PROVE Domains'
    BY <1>22 DEF TaskSends, EndsNow, Flushed
  <1>23. ASSUME NEW t \in Tasks, TaskCloses(t) PROVE Domains'
    BY <1>23 DEF TaskCloses, EndsNow, Flushed
  <1>24. CASE \/ TaskStops \/ OtherRequest \/ OtherAnswered \/ HostHangsUp \/ PipeBreaks
            \/ Exited \/ UNCHANGED vars
    <2>1. CASE TaskStops \/ OtherRequest \/ OtherAnswered
      BY <2>1 DEF TaskStops, OtherRequest, OtherAnswered
    <2>2. CASE HostHangsUp
      BY <2>2 DEF HostHangsUp
    <2>3. CASE PipeBreaks
      BY <2>3 DEF PipeBreaks
    <2>4. CASE Exited \/ UNCHANGED vars
      BY <2>4 DEF Exited, vars
    <2> QED BY <1>24, <2>1, <2>2, <2>3, <2>4
    <1> QED BY <1>1, <1>2, <1>3, <1>4, <1>5, <1>6, <1>7, <1>8, <1>9, <1>10, <1>11,
             <1>12, <1>13, <1>14, <1>15, <1>16, <1>17, <1>18, <1>19, <1>20, <1>21,
             <1>22, <1>23, <1>24
         DEF Next, ServeStep, Monitor

\* Every step leaves Serve with a task whose record fits.
LEMMA ServeStepInv ==
  ASSUME Domains, ServeInv, MonitorInv, [Next]_vars
  PROVE  ServeInv'
  <1> USE DEF serveVars, recordVars, eventVars, monitorVars, taskVars, Domains, ServeInv, MonitorInv, Running, Ends, BeforeFlush, Answered, AfterLook, InStop
  <1>1. CASE StartResponse
    BY <1>1 DEF StartResponse, WriteThen, Write, StartMonitor
  <1>2. CASE WriteOutputs
    BY <1>2 DEF WriteOutputs, Write
  <1>3. CASE WriteMetrics
    BY <1>3 DEF WriteMetrics, Write
  <1>4. CASE StopResponse
    BY <1>4 DEF StopResponse, WriteThen, Write, Abort
  <1>5. CASE Flush
    BY <1>5 DEF Flush, FlushFinds, Ready, Value, Receive
  <1>6. CASE ServeObserves
    BY <1>6 DEF ServeObserves, ObserveDone
  <1>7. CASE ServeEmits
    BY <1>7 DEF ServeEmits, ShouldEmit
  <1>8. CASE ServeWrites
    BY <1>8 DEF ServeWrites, WriteEvent, EventOf, Write
  <1>9. CASE CloseMonitor
    BY <1>9 DEF CloseMonitor, TellMonitor
  <1>10. CASE Remove
    BY <1>10 DEF Remove, RemoveRecord, MonitorJoined
  <1>11. CASE StartFails
    BY <1>11 DEF StartFails, WriteThen, Write
  <1>12. CASE Store
    BY <1>12 DEF Store, NoMonitorYet
  <1>13. CASE StopFails
    BY <1>13 DEF StopFails, Abort, WriteThen, Write
  <1>14. ASSUME NEW t \in Tasks, StartRequest(t) PROVE ServeInv'
    BY <1>14 DEF StartRequest
  <1>15. ASSUME NEW t \in Tasks, StopRequest(t) PROVE ServeInv'
    BY <1>15 DEF StopRequest
  <1>16. ASSUME NEW t \in Tasks, StopRefused(t) PROVE ServeInv'
    BY <1>16 DEF StopRefused, WriteThen, Write
  <1>17. ASSUME NEW t \in Tasks, MonitorReceives(t) PROVE ServeInv'
    BY <1>17 DEF MonitorReceives, Ready, Value, Receive
  <1>18. ASSUME NEW t \in Tasks, MonitorObserves(t) PROVE ServeInv'
    BY <1>18 DEF MonitorObserves, ObserveDone
  <1>19. ASSUME NEW t \in Tasks, MonitorEmits(t) PROVE ServeInv'
    BY <1>19 DEF MonitorEmits, ShouldEmit
  <1>20. ASSUME NEW t \in Tasks, MonitorWrites(t) PROVE ServeInv'
    BY <1>20 DEF MonitorWrites, WriteEvent, EventOf, Write
  <1>21. ASSUME NEW t \in Tasks, MonitorStops(t) PROVE ServeInv'
    BY <1>21 DEF MonitorStops
  <1>22. ASSUME NEW t \in Tasks, TaskSends(t) PROVE ServeInv'
    BY <1>22 DEF TaskSends, EndsNow, Flushed
  <1>23. ASSUME NEW t \in Tasks, TaskCloses(t) PROVE ServeInv'
    BY <1>23 DEF TaskCloses, EndsNow, Flushed
  <1>24. CASE \/ TaskStops \/ OtherRequest \/ OtherAnswered \/ HostHangsUp \/ PipeBreaks
            \/ Exited \/ UNCHANGED vars
    BY <1>24 DEF TaskStops, OtherRequest, OtherAnswered, HostHangsUp, PipeBreaks, Exited, vars
    <1> QED BY <1>1, <1>2, <1>3, <1>4, <1>5, <1>6, <1>7, <1>8, <1>9, <1>10, <1>11,
             <1>12, <1>13, <1>14, <1>15, <1>16, <1>17, <1>18, <1>19, <1>20, <1>21,
             <1>22, <1>23, <1>24
         DEF Next, ServeStep, Monitor

\* Every step keeps the life of the monitors.
LEMMA MonitorStep ==
  ASSUME Domains, ServeInv, MonitorInv, DoneInv, [Next]_vars
  PROVE  MonitorInv'
  <1> USE DEF serveVars, recordVars, eventVars, monitorVars, taskVars, Domains, ServeInv, MonitorInv, Running, Ends, BeforeFlush, Answered, AfterLook, InStop
  <1>1. CASE StartResponse
    BY <1>1 DEF StartResponse, WriteThen, Write, StartMonitor
  <1>2. CASE WriteOutputs
    BY <1>2 DEF WriteOutputs, Write
  <1>3. CASE WriteMetrics
    BY <1>3 DEF WriteMetrics, Write
  <1>4. CASE StopResponse
    BY <1>4 DEF StopResponse, WriteThen, Write, Abort
  <1>5. CASE Flush
    BY <1>5 DEF Flush, FlushFinds, Ready, Value, Receive
  <1>6. CASE ServeObserves
    BY <1>6 DEF ServeObserves, ObserveDone
  <1>7. CASE ServeEmits
    BY <1>7 DEF ServeEmits, ShouldEmit
  <1>8. CASE ServeWrites
    BY <1>8 DEF ServeWrites, WriteEvent, EventOf, Write
  <1>9. CASE CloseMonitor
    BY <1>9 DEF CloseMonitor, TellMonitor
  <1>10. CASE Remove
    BY <1>10 DEF Remove, RemoveRecord, MonitorJoined
  <1>11. CASE StartFails
    BY <1>11 DEF StartFails, WriteThen, Write
  <1>12. CASE Store
    BY <1>12 DEF Store, NoMonitorYet
  <1>13. CASE StopFails
    BY <1>13 DEF StopFails, Abort, WriteThen, Write
  <1>14. ASSUME NEW t \in Tasks, StartRequest(t) PROVE MonitorInv'
    BY <1>14 DEF StartRequest
  <1>15. ASSUME NEW t \in Tasks, StopRequest(t) PROVE MonitorInv'
    BY <1>15 DEF StopRequest
  <1>16. ASSUME NEW t \in Tasks, StopRefused(t) PROVE MonitorInv'
    BY <1>16 DEF StopRefused, WriteThen, Write
  <1>17. ASSUME NEW t \in Tasks, MonitorReceives(t) PROVE MonitorInv'
    BY <1>17 DEF MonitorReceives, Ready, Value, Receive
  <1>18. ASSUME NEW t \in Tasks, MonitorObserves(t) PROVE MonitorInv'
    BY <1>18 DEF MonitorObserves, ObserveDone
  <1>19. ASSUME NEW t \in Tasks, MonitorEmits(t) PROVE MonitorInv'
    BY <1>19 DEF MonitorEmits, ShouldEmit
  <1>20. ASSUME NEW t \in Tasks, MonitorWrites(t) PROVE MonitorInv'
    BY <1>20 DEF MonitorWrites, WriteEvent, EventOf, Write
  <1>21. ASSUME NEW t \in Tasks, MonitorStops(t) PROVE MonitorInv'
    BY <1>21 DEF MonitorStops
  <1>22. ASSUME NEW t \in Tasks, TaskSends(t) PROVE MonitorInv'
    BY <1>22 DEF TaskSends, EndsNow, Flushed
  <1>23. ASSUME NEW t \in Tasks, TaskCloses(t) PROVE MonitorInv'
    BY <1>23 DEF TaskCloses, EndsNow, Flushed
  <1>24. CASE \/ TaskStops \/ OtherRequest \/ OtherAnswered \/ HostHangsUp \/ PipeBreaks
            \/ Exited \/ UNCHANGED vars
    BY <1>24 DEF TaskStops, OtherRequest, OtherAnswered, HostHangsUp, PipeBreaks, Exited, vars
    <1> QED BY <1>1, <1>2, <1>3, <1>4, <1>5, <1>6, <1>7, <1>8, <1>9, <1>10, <1>11,
             <1>12, <1>13, <1>14, <1>15, <1>16, <1>17, <1>18, <1>19, <1>20, <1>21,
             <1>22, <1>23, <1>24
         DEF Next, ServeStep, Monitor

\* What has been received from Done stays true to the task.
LEMMA DoneStep ==
  ASSUME Domains, ServeInv, MonitorInv, DoneInv, [Next]_vars
  PROVE  DoneInv'
  <1> USE DEF serveVars, recordVars, eventVars, monitorVars, taskVars, Domains, ServeInv, MonitorInv, DoneInv, TrueTo, Running, Ends, BeforeFlush, Answered, AfterLook, InStop
  <1>1. CASE StartResponse
    BY <1>1 DEF StartResponse, WriteThen, Write, StartMonitor
  <1>2. CASE WriteOutputs
    BY <1>2 DEF WriteOutputs, Write
  <1>3. CASE WriteMetrics
    BY <1>3 DEF WriteMetrics, Write
  <1>4. CASE StopResponse
    BY <1>4 DEF StopResponse, WriteThen, Write, Abort
  <1>5. CASE Flush
    BY <1>5 DEF Flush, FlushFinds, Ready, Value, Receive
  <1>6. CASE ServeObserves
    BY <1>6 DEF ServeObserves, ObserveDone
  <1>7. CASE ServeEmits
    BY <1>7 DEF ServeEmits, ShouldEmit
  <1>8. CASE ServeWrites
    BY <1>8 DEF ServeWrites, WriteEvent, EventOf, Write
  <1>9. CASE CloseMonitor
    BY <1>9 DEF CloseMonitor, TellMonitor
  <1>10. CASE Remove
    BY <1>10 DEF Remove, RemoveRecord, MonitorJoined
  <1>11. CASE StartFails
    BY <1>11 DEF StartFails, WriteThen, Write
  <1>12. CASE Store
    BY <1>12 DEF Store, NoMonitorYet
  <1>13. CASE StopFails
    BY <1>13 DEF StopFails, Abort, WriteThen, Write
  <1>14. ASSUME NEW t \in Tasks, StartRequest(t) PROVE DoneInv'
    BY <1>14 DEF StartRequest
  <1>15. ASSUME NEW t \in Tasks, StopRequest(t) PROVE DoneInv'
    BY <1>15 DEF StopRequest
  <1>16. ASSUME NEW t \in Tasks, StopRefused(t) PROVE DoneInv'
    BY <1>16 DEF StopRefused, WriteThen, Write
  <1>17. ASSUME NEW t \in Tasks, MonitorReceives(t) PROVE DoneInv'
    BY <1>17 DEF MonitorReceives, Ready, Value, Receive
  <1>18. ASSUME NEW t \in Tasks, MonitorObserves(t) PROVE DoneInv'
    BY <1>18 DEF MonitorObserves, ObserveDone
  <1>19. ASSUME NEW t \in Tasks, MonitorEmits(t) PROVE DoneInv'
    BY <1>19 DEF MonitorEmits, ShouldEmit
  <1>20. ASSUME NEW t \in Tasks, MonitorWrites(t) PROVE DoneInv'
    BY <1>20 DEF MonitorWrites, WriteEvent, EventOf, Write
  <1>21. ASSUME NEW t \in Tasks, MonitorStops(t) PROVE DoneInv'
    BY <1>21 DEF MonitorStops
  <1>22. ASSUME NEW t \in Tasks, TaskSends(t) PROVE DoneInv'
    BY <1>22 DEF TaskSends, EndsNow, Flushed
  <1>23. ASSUME NEW t \in Tasks, TaskCloses(t) PROVE DoneInv'
    BY <1>23 DEF TaskCloses, EndsNow, Flushed
  <1>24. CASE \/ TaskStops \/ OtherRequest \/ OtherAnswered \/ HostHangsUp \/ PipeBreaks
            \/ Exited \/ UNCHANGED vars
    BY <1>24 DEF TaskStops, OtherRequest, OtherAnswered, HostHangsUp, PipeBreaks, Exited, vars
    <1> QED BY <1>1, <1>2, <1>3, <1>4, <1>5, <1>6, <1>7, <1>8, <1>9, <1>10, <1>11,
             <1>12, <1>13, <1>14, <1>15, <1>16, <1>17, <1>18, <1>19, <1>20, <1>21,
             <1>22, <1>23, <1>24
         DEF Next, ServeStep, Monitor

\* The event of a task is marked by whoever writes it.
LEMMA EventStep ==
  ASSUME Domains, Frames, ServeInv, MonitorInv, DoneInv, EventInv, OrderInv, [Next]_vars
  PROVE  EventInv'
  <1> USE DEF serveVars, recordVars, eventVars, monitorVars, taskVars, Domains, ServeInv, MonitorInv, EventInv, EventOf, TrueTo, Running, FrameKinds, Events, Ends, BeforeFlush, Answered, AfterLook, InStop
  <1>a. \A t \in Tasks : t \notin evented => ~Wrote(t, Events)
    BY DEF Wrote
  <1>1. CASE StartResponse
    BY <1>1, OneWritten, NothingWritten DEF StartResponse, WriteThen, StartMonitor
  <1>2. CASE WriteOutputs
    BY <1>2, OneWritten DEF WriteOutputs
  <1>3. CASE WriteMetrics
    BY <1>3, OneWritten, NothingWritten DEF WriteMetrics
  <1>4. CASE StopResponse
    BY <1>4, OneWritten, NothingWritten DEF StopResponse, WriteThen, Abort
  <1>5. CASE Flush
    BY <1>5, NothingWritten DEF Flush, FlushFinds, Ready, Value, Receive
  <1>6. CASE ServeObserves
    BY <1>6, NothingWritten DEF ServeObserves, ObserveDone
  <1>7. CASE ServeEmits
    BY <1>a, <1>7, NothingWritten DEF ServeEmits, ShouldEmit
  <1>8. CASE ServeWrites
    BY <1>8, OneWritten, NothingWritten DEF ServeWrites, WriteEvent
  <1>9. CASE CloseMonitor
    BY <1>9, NothingWritten DEF CloseMonitor, TellMonitor
  <1>10. CASE Remove
    BY <1>10, NothingWritten DEF Remove, RemoveRecord, MonitorJoined
  <1>11. CASE StartFails
    <2>1. CASE pipe
      <3>1. Write(on, "startError") /\ "startError" \in FrameKinds /\ on \in Tasks
        BY <1>11, <2>1 DEF StartFails, WriteThen, EventOf
      <3> QED BY <1>11, <2>1, <3>1, OneWritten DEF StartFails, WriteThen
    <2>2. CASE ~pipe
      BY <1>11, <2>2, NothingWritten DEF StartFails, WriteThen
    <2> QED BY <2>1, <2>2
  <1>12. CASE Store
    BY <1>12, NothingWritten DEF Store, NoMonitorYet
  <1>13. CASE StopFails
    BY <1>13, OneWritten, NothingWritten DEF StopFails, Abort, WriteThen
  <1>14. ASSUME NEW t \in Tasks, StartRequest(t) PROVE EventInv'
    BY <1>14, NothingWritten DEF StartRequest
  <1>15. ASSUME NEW t \in Tasks, StopRequest(t) PROVE EventInv'
    BY <1>15, NothingWritten DEF StopRequest
  <1>16. ASSUME NEW t \in Tasks, StopRefused(t) PROVE EventInv'
    <2>1. CASE pipe
      <3>1. Write(t, "refused") /\ "refused" \in FrameKinds /\ t \in Tasks
        BY <1>16, <2>1 DEF StopRefused, WriteThen, EventOf
      <3> QED BY <1>16, <2>1, <3>1, OneWritten DEF StopRefused, WriteThen
    <2>2. CASE ~pipe
      BY <1>16, <2>2, NothingWritten DEF StopRefused, WriteThen
    <2> QED BY <2>1, <2>2
  <1>17. ASSUME NEW t \in Tasks, MonitorReceives(t) PROVE EventInv'
    BY <1>17, NothingWritten DEF MonitorReceives, Ready, Value, Receive
  <1>18. ASSUME NEW t \in Tasks, MonitorObserves(t) PROVE EventInv'
    BY <1>18, NothingWritten DEF MonitorObserves, ObserveDone
  <1>19. ASSUME NEW t \in Tasks, MonitorEmits(t) PROVE EventInv'
    BY <1>a, <1>19, NothingWritten DEF MonitorEmits, ShouldEmit
  <1>20. ASSUME NEW t \in Tasks, MonitorWrites(t) PROVE EventInv'
    <2>1. CASE pipe
      <3>1. Write(t, EventOf(t)) /\ EventOf(t) \in Events /\ EventOf(t) \in FrameKinds
        BY <1>20, <2>1 DEF MonitorWrites, WriteEvent, EventOf
      <3>2. /\ mon[t] = "writing" /\ mon' = [mon EXCEPT ![t] = "exited"]
            /\ UNCHANGED <<serve, on, pipe, evented, observed>>
        BY <1>20 DEF MonitorWrites
      <3>3. \A u \in Tasks : \A i \in DOMAIN sent'[u] :
              sent'[u][i] \in Events => u \in evented /\ sent'[u][i] = EventOf(u)
        BY <3>1, <3>2, OneWritten, SMTT(30)
      <3>4. serve = "write" => on # t /\ on \in Tasks
        BY <3>2
      <3>5. Wrote(t, Events)' /\ \A u \in Tasks : u # t => (Wrote(u, Events)' <=> Wrote(u, Events))
        BY <3>1, OneWritten
      <3> QED BY <3>2, <3>3, <3>4, <3>5
    <2>2. CASE ~pipe
      BY <1>20, <2>2, NothingWritten DEF MonitorWrites, WriteEvent
    <2> QED BY <2>1, <2>2
  <1>21. ASSUME NEW t \in Tasks, MonitorStops(t) PROVE EventInv'
    BY <1>21, NothingWritten DEF MonitorStops
  <1>22. ASSUME NEW t \in Tasks, TaskSends(t) PROVE EventInv'
    BY <1>22, NothingWritten DEF TaskSends, EndsNow, Flushed
  <1>23. ASSUME NEW t \in Tasks, TaskCloses(t) PROVE EventInv'
    BY <1>23, NothingWritten DEF TaskCloses, EndsNow, Flushed
  <1>24. CASE \/ TaskStops \/ OtherRequest \/ OtherAnswered \/ HostHangsUp \/ PipeBreaks
            \/ Exited \/ UNCHANGED vars
    BY <1>24, NothingWritten DEF TaskStops, OtherRequest, OtherAnswered, HostHangsUp, PipeBreaks, Exited, vars
    <1> QED BY <1>1, <1>2, <1>3, <1>4, <1>5, <1>6, <1>7, <1>8, <1>9, <1>10, <1>11,
             <1>12, <1>13, <1>14, <1>15, <1>16, <1>17, <1>18, <1>19, <1>20, <1>21,
             <1>22, <1>23, <1>24
         DEF Next, ServeStep, Monitor

\* Every frame is written in its turn.
LEMMA OrderStep ==
  ASSUME Domains, Frames, ServeInv, MonitorInv, DoneInv, EventInv, OrderInv, [Next]_vars
  PROVE  OrderInv'
  <1> USE DEF serveVars, recordVars, eventVars, monitorVars, taskVars, Domains, ServeInv, MonitorInv, OrderInv, Running, FrameKinds, Events, Ends, BeforeFlush, Answered, AfterLook, InStop
  <1>1. CASE StartResponse
    BY <1>1, OneWritten, NothingWritten DEF StartResponse, WriteThen, StartMonitor
  <1>2. CASE WriteOutputs
    BY <1>2, OneWritten DEF WriteOutputs
  <1>3. CASE WriteMetrics
    BY <1>3, OneWritten, NothingWritten DEF WriteMetrics
  <1>4. CASE StopResponse
    BY <1>4, OneWritten, NothingWritten DEF StopResponse, WriteThen, Abort
  <1>5. CASE Flush
    BY <1>5, NothingWritten DEF Flush, FlushFinds, Ready, Value, Receive
  <1>6. CASE ServeObserves
    BY <1>6, NothingWritten DEF ServeObserves, ObserveDone
  <1>7. CASE ServeEmits
    BY <1>7, NothingWritten DEF ServeEmits, ShouldEmit
  <1>8. CASE ServeWrites
    <2>1. CASE pipe
      <3>1. Write(on, EventOf(on)) /\ EventOf(on) \in FrameKinds /\ on \in Tasks
        BY <1>8, <2>1 DEF ServeWrites, WriteEvent, EventOf
      <3> QED BY <1>8, <2>1, <3>1, OneWritten DEF ServeWrites, WriteEvent
    <2>2. CASE ~pipe
      BY <1>8, <2>2, NothingWritten DEF ServeWrites, WriteEvent
    <2> QED BY <2>1, <2>2
  <1>9. CASE CloseMonitor
    BY <1>9, NothingWritten DEF CloseMonitor, TellMonitor
  <1>10. CASE Remove
    BY <1>10, NothingWritten DEF Remove, RemoveRecord, MonitorJoined
  <1>11. CASE StartFails
    <2>1. PICK t \in Tasks : on = t
      BY <1>11 DEF StartFails
    <2>2. /\ serve = "starting" /\ records[t] = "none" /\ mon[t] = "none"
          /\ records' = [records EXCEPT ![t] = "failed"] /\ UNCHANGED mon
      BY <1>11, <2>1 DEF StartFails
    <2>3. \A K : ~Wrote(t, K)
      BY <2>2 DEF Wrote
    <2>4. CASE pipe
      <3>1. Write(t, "startError") /\ "startError" \in FrameKinds /\ serve' = "idle"
        BY <1>11, <2>1, <2>4 DEF StartFails, WriteThen
      <3>2. /\ ~Wrote(t, Events \cup {"metrics", "stopped"})'
            /\ ~Wrote(t, {"metrics"})' /\ ~Wrote(t, {"stopped"})'
        BY <2>3, <3>1, OneWritten
      <3>3. \A u \in Tasks : u # t => sent'[u] = sent[u] /\ \A K : Wrote(u, K)' <=> Wrote(u, K)
        BY <3>1, OneWritten
      <3> QED BY <2>1, <2>2, <3>1, <3>2, <3>3
    <2>5. CASE ~pipe
      <3>1. UNCHANGED sent /\ serve' = "exited"
        BY <1>11, <2>5 DEF StartFails, WriteThen
      <3> QED BY <2>2, <2>3, <3>1, NothingWritten
    <2> QED BY <2>4, <2>5
  <1>12. CASE Store
    BY <1>12, NothingWritten DEF Store, NoMonitorYet
  <1>13. CASE StopFails
    BY <1>13, OneWritten, NothingWritten DEF StopFails, Abort, WriteThen
  <1>14. ASSUME NEW t \in Tasks, StartRequest(t) PROVE OrderInv'
    BY <1>14, NothingWritten DEF StartRequest
  <1>15. ASSUME NEW t \in Tasks, StopRequest(t) PROVE OrderInv'
    BY <1>15, NothingWritten DEF StopRequest
  <1>16. ASSUME NEW t \in Tasks, StopRefused(t) PROVE OrderInv'
    BY <1>16, OneWritten, NothingWritten DEF StopRefused, WriteThen
  <1>17. ASSUME NEW t \in Tasks, MonitorReceives(t) PROVE OrderInv'
    BY <1>17, NothingWritten DEF MonitorReceives, Ready, Value, Receive
  <1>18. ASSUME NEW t \in Tasks, MonitorObserves(t) PROVE OrderInv'
    BY <1>18, NothingWritten DEF MonitorObserves, ObserveDone
  <1>19. ASSUME NEW t \in Tasks, MonitorEmits(t) PROVE OrderInv'
    BY <1>19, NothingWritten DEF MonitorEmits, ShouldEmit
  <1>20. ASSUME NEW t \in Tasks, MonitorWrites(t) PROVE OrderInv'
    <2>1. CASE pipe
      <3>1. Write(t, EventOf(t)) /\ EventOf(t) \in Events /\ EventOf(t) \in FrameKinds
        BY <1>20, <2>1 DEF MonitorWrites, WriteEvent, EventOf
      <3>2. /\ mon[t] = "writing" /\ mon' = [mon EXCEPT ![t] = "exited"]
            /\ UNCHANGED <<serve, on, records>>
        BY <1>20 DEF MonitorWrites
      <3>3. \A u \in Tasks : \A k \in {"metrics", "stopped"} : Wrote(u, {k})' => Wrote(u, {k})
        BY <3>1, OneWritten
      <3>4. records[t] \in {"active", "removed"} /\ sent'[t] # <<>> /\ sent'[t][1] = "started"
        BY <3>1, <3>2, OneWritten
      <3> QED BY <3>1, <3>2, <3>3, <3>4, OneWritten
    <2>2. CASE ~pipe
      BY <1>20, <2>2, NothingWritten DEF MonitorWrites, WriteEvent
    <2> QED BY <2>1, <2>2
  <1>21. ASSUME NEW t \in Tasks, MonitorStops(t) PROVE OrderInv'
    BY <1>21, NothingWritten DEF MonitorStops
  <1>22. ASSUME NEW t \in Tasks, TaskSends(t) PROVE OrderInv'
    BY <1>22, NothingWritten DEF TaskSends, EndsNow, Flushed
  <1>23. ASSUME NEW t \in Tasks, TaskCloses(t) PROVE OrderInv'
    BY <1>23, NothingWritten DEF TaskCloses, EndsNow, Flushed
  <1>24. CASE \/ TaskStops \/ OtherRequest \/ OtherAnswered \/ HostHangsUp \/ PipeBreaks
            \/ Exited \/ UNCHANGED vars
    BY <1>24, NothingWritten DEF TaskStops, OtherRequest, OtherAnswered, HostHangsUp, PipeBreaks, Exited, vars
    <1> QED BY <1>1, <1>2, <1>3, <1>4, <1>5, <1>6, <1>7, <1>8, <1>9, <1>10, <1>11,
             <1>12, <1>13, <1>14, <1>15, <1>16, <1>17, <1>18, <1>19, <1>20, <1>21,
             <1>22, <1>23, <1>24
         DEF Next, ServeStep, Monitor

\* An end that came early is not passed over.
LEMMA EarlyStep ==
  ASSUME Domains, ServeInv, MonitorInv, DoneInv, EventInv, EarlyInv, [Next]_vars
  PROVE  EarlyInv'
  <1> USE DEF serveVars, recordVars, eventVars, monitorVars, taskVars, Domains, ServeInv, MonitorInv, DoneInv, EventInv, EarlyInv, TrueTo, Running, FrameKinds, Events, Ends, BeforeFlush, Answered, AfterLook, InStop
  <1>1. CASE StartResponse
    BY <1>1, OneWritten, NothingWritten DEF StartResponse, WriteThen, StartMonitor
  <1>2. CASE WriteOutputs
    BY <1>2, OneWritten DEF WriteOutputs
  <1>3. CASE WriteMetrics
    BY <1>3, OneWritten, NothingWritten DEF WriteMetrics
  <1>4. CASE StopResponse
    BY <1>4, OneWritten, NothingWritten DEF StopResponse, WriteThen, Abort
  <1>5. CASE Flush
    BY <1>5, NothingWritten DEF Flush, FlushFinds, Ready, Value, Receive
  <1>6. CASE ServeObserves
    BY <1>6, NothingWritten DEF ServeObserves, ObserveDone
  <1>7. CASE ServeEmits
    BY <1>7, NothingWritten DEF ServeEmits, ShouldEmit
  <1>8. CASE ServeWrites
    BY <1>8, OneWritten, NothingWritten DEF ServeWrites, WriteEvent
  <1>9. CASE CloseMonitor
    BY <1>9, NothingWritten DEF CloseMonitor, TellMonitor
  <1>10. CASE Remove
    BY <1>10, NothingWritten DEF Remove, RemoveRecord, MonitorJoined
  <1>11. CASE StartFails
    BY <1>11, OneWritten, NothingWritten DEF StartFails, WriteThen
  <1>12. CASE Store
    BY <1>12, NothingWritten DEF Store, NoMonitorYet
  <1>13. CASE StopFails
    BY <1>13, OneWritten, NothingWritten DEF StopFails, Abort, WriteThen
  <1>14. ASSUME NEW t \in Tasks, StartRequest(t) PROVE EarlyInv'
    BY <1>14, NothingWritten DEF StartRequest
  <1>15. ASSUME NEW t \in Tasks, StopRequest(t) PROVE EarlyInv'
    BY <1>15, NothingWritten DEF StopRequest
  <1>16. ASSUME NEW t \in Tasks, StopRefused(t) PROVE EarlyInv'
    BY <1>16, OneWritten, NothingWritten DEF StopRefused, WriteThen
  <1>17. ASSUME NEW t \in Tasks, MonitorReceives(t) PROVE EarlyInv'
    BY <1>17, NothingWritten DEF MonitorReceives, Ready, Value, Receive
  <1>18. ASSUME NEW t \in Tasks, MonitorObserves(t) PROVE EarlyInv'
    BY <1>18, NothingWritten DEF MonitorObserves, ObserveDone
  <1>19. ASSUME NEW t \in Tasks, MonitorEmits(t) PROVE EarlyInv'
    BY <1>19, NothingWritten DEF MonitorEmits, ShouldEmit
  <1>20. ASSUME NEW t \in Tasks, MonitorWrites(t) PROVE EarlyInv'
    BY <1>20, OneWritten, NothingWritten DEF MonitorWrites, WriteEvent
  <1>21. ASSUME NEW t \in Tasks, MonitorStops(t) PROVE EarlyInv'
    BY <1>21, NothingWritten DEF MonitorStops
  <1>22. ASSUME NEW t \in Tasks, TaskSends(t) PROVE EarlyInv'
    BY <1>22, NothingWritten DEF TaskSends, EndsNow, Flushed
  <1>23. ASSUME NEW t \in Tasks, TaskCloses(t) PROVE EarlyInv'
    BY <1>23, NothingWritten DEF TaskCloses, EndsNow, Flushed
  <1>24. CASE \/ TaskStops \/ OtherRequest \/ OtherAnswered \/ HostHangsUp \/ PipeBreaks
            \/ Exited \/ UNCHANGED vars
    BY <1>24, NothingWritten DEF TaskStops, OtherRequest, OtherAnswered, HostHangsUp, PipeBreaks, Exited, vars
    <1> QED BY <1>1, <1>2, <1>3, <1>4, <1>5, <1>6, <1>7, <1>8, <1>9, <1>10, <1>11,
             <1>12, <1>13, <1>14, <1>15, <1>16, <1>17, <1>18, <1>19, <1>20, <1>21,
             <1>22, <1>23, <1>24
         DEF Next, ServeStep, Monitor

\* A frame that is written keeps the order of the frames.
LEMMA OneEventStep ==
  ASSUME Domains, Frames, ServeInv, MonitorInv, EventInv, OrderInv, OneEvent, [Next]_vars
  PROVE  OneEvent'
  <1>1. CASE UNCHANGED sent
    BY <1>1 DEF OneEvent
  <1>2. ASSUME NEW t \in Tasks, NEW f \in FrameKinds, Writes(t, f)
        PROVE  OneEvent'
    <2>1. f \in Events => ~Wrote(t, Events) /\ sent[t] # <<>> /\ sent[t][1] = "started"
      <3>1. CASE f = EventOf(t) /\ serve = "write" /\ on = t
        BY <3>1 DEF ServeInv, MonitorInv, EventInv, OrderInv, InStop, Answered, AfterLook, Running
      <3>2. CASE f = EventOf(t) /\ mon[t] = "writing"
        BY <3>2 DEF Domains, ServeInv, MonitorInv, EventInv, OrderInv
      <3> QED BY <1>2, <3>1, <3>2 DEF Writes, Events
    <2>2. f = "metrics" => ~Wrote(t, {"metrics"})
      BY <1>2 DEF Writes, Running, ServeInv, OrderInv, InStop, BeforeFlush, Answered, AfterLook, EventOf
    <2>3. Wrote(t, {"stopped"}) => f \in Events \cup {"refused"}
      BY <1>2 DEF Writes, Running, ServeInv, OrderInv, InStop, BeforeFlush, Answered, AfterLook,
                  EventOf, Events
    <2> DEFINE n == Len(sent[t])
    <2>4. /\ n \in Nat /\ DOMAIN sent[t] = 1..n /\ DOMAIN sent'[t] = 1..n + 1
          /\ sent'[t][n + 1] = f /\ \A i \in 1..n : sent'[t][i] = sent[t][i]
          /\ sent[t] # <<>> => sent'[t][1] = sent[t][1]
          /\ \A u \in Tasks : u # t => sent'[u] = sent[u]
      BY <1>2, OneWritten DEF Writes
    <2>5. ASSUME NEW i \in 1..n + 1, NEW j \in 1..n + 1
          PROVE  /\ sent'[t][i] \in Events =>
                      sent'[t][1] = "started" /\ (sent'[t][j] \in Events => j = i)
                 /\ i < j /\ sent'[t][i] = "metrics" => sent'[t][j] # "metrics"
                 /\ i < j /\ sent'[t][i] = "stopped" => sent'[t][j] \in Events \cup {"refused"}
      <3>1. CASE i \in 1..n /\ j \in 1..n
        <4>1. n >= 1 /\ 1 \in DOMAIN sent[t] /\ sent'[t][1] = sent[t][1]
          BY <2>4, <3>1
        <4> QED BY <2>4, <3>1, <4>1 DEF OneEvent
      <3>2. CASE i = n + 1 /\ j = n + 1
        BY <2>1, <2>4, <3>2
      <3>3. CASE i \in 1..n /\ j = n + 1
        <4>1. /\ sent'[t][i] \in Events => f \notin Events /\ sent[t][1] = "started"
              /\ sent'[t][i] = "metrics" => f # "metrics"
              /\ sent'[t][i] = "stopped" => f \in Events \cup {"refused"}
          BY <2>1, <2>2, <2>3, <2>4, <3>3 DEF Wrote, OneEvent
        <4>2. sent'[t][1] = sent[t][1]
          BY <2>4, <3>3
        <4> QED BY <2>4, <3>3, <4>1, <4>2
      <3>4. CASE i = n + 1 /\ j \in 1..n
        <4>1. f \in Events => sent'[t][j] \notin Events /\ sent'[t][1] = "started"
          BY <2>1, <2>4, <3>4 DEF Wrote
        <4> QED BY <2>4, <3>4, <4>1
      <3>5. (i \in 1..n \/ i = n + 1) /\ (j \in 1..n \/ j = n + 1)
        BY <2>4
      <3> QED BY <3>1, <3>2, <3>3, <3>4, <3>5
    <2>6. ASSUME NEW u \in Tasks, u # t, NEW i \in DOMAIN sent'[u], NEW j \in DOMAIN sent'[u]
          PROVE  /\ sent'[u][i] \in Events =>
                      sent'[u][1] = "started" /\ (sent'[u][j] \in Events => j = i)
                 /\ i < j /\ sent'[u][i] = "metrics" => sent'[u][j] # "metrics"
                 /\ i < j /\ sent'[u][i] = "stopped" => sent'[u][j] \in Events \cup {"refused"}
      BY <2>4, <2>6 DEF OneEvent
    <2> QED BY <2>4, <2>5, <2>6 DEF OneEvent
  <1> QED BY <1>1, <1>2, StepWrites

LEMMA FramesStep == ASSUME Domains, Frames, ServeInv, [Next]_vars PROVE Frames'
  <1>1. CASE UNCHANGED sent
    BY <1>1 DEF Frames
  <1>2. ASSUME NEW t \in Tasks, NEW f \in FrameKinds, Writes(t, f) PROVE Frames'
    BY <1>2, OneWritten DEF Writes
  <1> QED BY <1>1, <1>2, StepWrites

-----------------------------------------------------------------------------
(* The invariant, and what follows from it.                                *)

\* Every step of Serve, of the monitors and of the tasks keeps the invariant.
THEOREM InvHolds == Spec => []IInv
  <1>1. Init => IInv
    <2> SUFFICES ASSUME Init PROVE IInv
      OBVIOUS
    <2> USE DEF Init
    <2>1. Domains /\ Frames
      BY DEF Domains, Frames, Ends
    <2>2. ServeInv /\ MonitorInv
      BY NoTaskAssumption DEF ServeInv, MonitorInv, InStop, BeforeFlush, Answered, AfterLook
    <2>3. \A t \in Tasks : sent[t] = <<>> /\ \A K : ~Wrote(t, K)
      <3>1. ASSUME NEW t \in Tasks PROVE sent[t] = <<>> /\ DOMAIN sent[t] = {}
        OBVIOUS
      <3> QED BY <3>1 DEF Wrote
    <2>4. DoneInv /\ EventInv
      BY <2>3 DEF DoneInv, EventInv, TrueTo
    <2>5. OrderInv /\ EarlyInv /\ OneEvent
      BY <2>3 DEF OrderInv, EarlyInv, OneEvent
    <2> QED BY <2>1, <2>2, <2>4, <2>5 DEF IInv
  <1>2. IInv /\ [Next]_vars => IInv'
    BY DomainsStep, FramesStep, ServeStepInv, MonitorStep, DoneStep, EventStep, OrderStep,
       EarlyStep, OneEventStep DEF IInv
  <1> QED BY <1>1, <1>2, PTL DEF Spec

\* The monitor and the flush of a stop write one event between them, after the answer
\* to the start; metrics are flushed once and nothing but the event and refusals follows
\* a StopResponse (emitObservedBackgroundEvent, handleStop).
THEOREM OneEventHolds == Spec => []OneEvent
  BY InvHolds, PTL DEF IInv

\* An end that came before the flush of the stop is reported as what it was by the time
\* the record is removed (flushReadyBackgroundEvent, monitorBackgroundTask).
THEOREM EndIsReportedHolds == Spec => []EndIsReported
  <1>1. IInv => EndIsReported
    <2> SUFFICES ASSUME IInv, NEW t \in Tasks, records[t] = "removed", t \in early, pipe
                 PROVE  \E i \in DOMAIN sent[t] :
                          /\ sent[t][i] \in Events
                          /\ ~(said[t] = "err" /\ t \in closed) =>
                                sent[t][i] = IF said[t] = "err" THEN "fatal" ELSE "completed"
      BY DEF EndIsReported
    <2>1. t \in evented /\ observed[t] \in {"err", "nil"} /\ TrueTo(t, observed[t])
      BY DEF IInv, Domains, DoneInv, EventInv, EarlyInv
    <2>2. mon[t] = "exited" /\ ~(serve = "write" /\ on = t)
      BY DEF IInv, ServeInv, MonitorInv, InStop, Answered, AfterLook
    <2>3. PICK i \in DOMAIN sent[t] : sent[t][i] \in Events
      BY <2>1, <2>2 DEF IInv, EventInv, Wrote
    <2>4. sent[t][i] = EventOf(t)
      BY <2>3 DEF IInv, EventInv
    <2>5. ~(said[t] = "err" /\ t \in closed) => (observed[t] = "err" <=> said[t] = "err")
      BY <2>1 DEF TrueTo
    <2> QED BY <2>3, <2>4, <2>5 DEF EventOf
  <1> QED BY <1>1, InvHolds, PTL

\* A stop that failed can be tried again: an idle Serve has no registered task that is
\* stopping or whose monitor has been told to go (abortBackgroundTaskStop).
THEOREM StopIsRetryableHolds == Spec => []StopIsRetryable
  <1>1. IInv => StopIsRetryable
    BY DEF IInv, Domains, ServeInv, MonitorInv, StopIsRetryable, Running, InStop, BeforeFlush, Answered,
           AfterLook
  <1> QED BY <1>1, InvHolds, PTL
=============================================================================
