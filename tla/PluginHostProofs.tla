-------------------------- MODULE PluginHostProofs --------------------------
(***************************************************************************)
(* Proofs about PluginHost: what Done may tell the kernel, that no task is *)
(* left waiting for a dead plugin, and that the host calls a frame         *)
(* unexpected only after it has given something up itself, whatever the    *)
(* numbers of tasks, calls and frames and the capacity of a queue.         *)
(***************************************************************************)
EXTENDS PluginHost, FiniteSetTheorems, FunctionTheorems, TLAPS

\* Whether x is in the sequence s.
Has(s, x) == \E i \in DOMAIN s : s[i] = x

Waiting == {"wait", "blocked"}
Active  == {"write", "grace", "return"} \cup Waiting
Broken  == {"failing", "exited"}

\* Every variable stays in its domain.
CallDomain ==
  /\ call \in [at : {"idle", "closing", "closed"} \cup Active, req : Requests]
  /\ seq \in 0..MaxCalls /\ reg \in 0..MaxCalls /\ shut \in BOOLEAN
  /\ queue \in Seq(AnyFrame) /\ Len(queue) <= QueueCap
PumpDomain ==
  /\ pump \in [at : {"read", "deliver", "unexpected", "full", "kill"} \cup Broken,
               frame : AnyFrame]
  /\ pump.at = "kill" => pump.frame.kind \in {"unexpected", "full"}
  /\ down \in Seq(AnyFrame)
TaskDomain ==
  /\ startId \in [Tasks -> 0..MaxCalls]
  /\ starts \subseteq Tasks /\ byId \subseteq Tasks /\ finished \subseteq Tasks
  /\ returned \subseteq Tasks /\ done \in [Tasks -> {"none", "err", "nil"}]
PlugDomain ==
  /\ plug \in Requests /\ up \in Seq(Requests) /\ warned \subseteq Tasks
  /\ srv \in [Tasks -> {"none", "active", "flushing", "removed"}]
  /\ evented \in [Tasks -> {"none", "fatal", "completed"}]
HostDomain ==
  /\ runCtx \in {"live", "cancelled"} /\ callerCtx \in {"live", "cancelled"}
  /\ closed \in BOOLEAN /\ waited \in BOOLEAN /\ dropped \in BOOLEAN
  /\ proc \in {"alive", "dead"}
  /\ killed \in {"no", "cancel", "close", "unexpected", "full"}
  /\ life \in 0..MaxLife /\ bad \in 0..MaxBad
Domains == CallDomain /\ PumpDomain /\ TaskDomain /\ PlugDomain /\ HostDomain

\* A request names a started task where its kind does, and a start the task it has the
\* id of.
Sound(r) ==
  /\ r.id >= 1 /\ r.id <= seq /\ r.kind \in Kinds
  /\ r.kind = "other" => r.t = NoTask
  /\ r.kind # "other" => r.t \in Tasks /\ startId[r.t] # 0
  /\ r.kind = "start" => startId[r.t] = r.id

Ordered(s) == \A i, j \in DOMAIN s : i < j => s[i].id < s[j].id

\* Requests are numbered in the order they are made: one that has not been answered
\* yet is new to the plugin, and one with the id of the call is the call's.
CallReq ==
  /\ call.at \notin Active => call.req = NoReq
  /\ call.at \in Active => Sound(call.req) /\ call.req.id = seq
  /\ reg \in {0, call.req.id}
  /\ call.at = "write" /\ call.req.kind = "start" => srv[call.req.t] = "none"
NewReq(r) ==
  /\ Sound(r)
  /\ r.kind = "start" => srv[r.t] = "none"
  /\ r.id = call.req.id => r = call.req /\ call.at # "write"
NewReqs == \A r \in Requests : Has(up, r) \/ (plug = r /\ r # NoReq) => NewReq(r)
UpOrder == Ordered(up) /\ \A r \in Requests : Has(up, r) => plug.id < r.id
RequestInv == CallReq /\ NewReqs /\ UpOrder

\* The ids of starts are those of one task each, and the host knows every task that has
\* one until it is finished.
TaskSound(t) ==
  /\ startId[t] <= seq
  /\ startId[t] # 0 <=> t \in starts \cup finished
  /\ srv[t] # "none" => startId[t] # 0
  /\ evented[t] # "none" => srv[t] # "none"
  /\ t \in finished => done[t] # "none"
  /\ t \in returned \cup byId => startId[t] # 0
  /\ startId[t] = call.req.id => call.req.kind \in {"start", "none"}
TaskInv ==
  /\ \A t \in Tasks : TaskSound(t)
  /\ \A t, u \in Tasks : startId[t] = startId[u] /\ startId[t] # 0 => t = u

\* The pump finishes every task when it ends, and gives no answer to a call after that.
ExitInv ==
  pump.at = "exited" =>
    /\ returned \subseteq finished
    /\ queue # <<>> /\ call.req.kind = "start" => call.req.t \in finished

\* Every frame has the id of a request that was made.  An event is that of its task, a
\* StartResponse answers a start, and a StopResponse means that the plugin has stopped
\* the call's task.
InHand(f) == Has(queue, f) \/ (pump.at = "deliver" /\ pump.frame = f)
OnWay(f)  == Has(down, f) \/ InHand(f)
StoppedCall == call.req.kind = "stop" /\ srv[call.req.t] \in {"flushing", "removed"}
FrameSound(f) ==
  /\ f.id <= seq
  /\ f.kind \in {"started", "stopped"} => f.id >= 1
  /\ f.kind = "started" /\ f.id = call.req.id => call.req.kind = "start"
  /\ f.kind = "stopped" /\ f.id = call.req.id => StoppedCall
  /\ f.kind \in {"fatal", "completed"} =>
       /\ f.id >= 1
       /\ \A t \in Tasks : startId[t] = f.id => evented[t] = f.kind
Frames   == \A f \in AnyFrame : OnWay(f) => FrameSound(f)
QueueIds == \A f \in AnyFrame : Has(queue, f) => f.kind = "err" \/ f.id = call.req.id
GraceSound == call.at = "grace" => StoppedCall
FrameInv == Frames /\ QueueIds /\ GraceSound

\* A fatal event written before the StopResponse is on its way ahead of it, unless it has
\* been taken to Done.
Leads(s, f, g) == \E i \in DOMAIN s : s[i] = f /\ \A j \in 1..i : s[j] # g
FatalFrame(t) == Frame(startId[t], "fatal")
StopAnswer == Frame(call.req.id, "stopped")
FatalSound(t) ==
  /\ evented[t] = "fatal"
  /\ done[t] = "none" /\ pump.at \notin Broken => Has(down, FatalFrame(t))
  /\ done[t] = "none" /\ call.req.t = t =>
       /\ pump.at \notin Broken => Leads(down, FatalFrame(t), StopAnswer)
       /\ ~InHand(StopAnswer)
       /\ call.at # "grace"
FatalInv == \A t \in warned : FatalSound(t)

\* While nothing is lost or given up, the call in progress has one request or one answer
\* on its way, and whoever reads a lifecycle frame knows its task: a frame of a task or
\* call that the answer finishes comes before that answer.
Answers == {"started", "startError", "stopped", "stopError", "refused", "done"}
Final   == {"startError", "stopped", "refused", "done"}
Calm    == proc = "alive" /\ ~dropped /\ pump.at \in {"read", "deliver"}
Asked   == plug # NoReq /\ ~(plug.kind = "stop" /\ srv[plug.t] = "flushing")
LastLife == Frame(IF call.req.kind = "stop" THEN startId[call.req.t] ELSE call.req.id, "life")

WaiterInv ==
  /\ closed => call.at \in {"closing", "closed"}
  /\ reg = IF call.at \in Active THEN call.req.id ELSE 0
  /\ ~shut
AskedInv ==
  /\ \A r \in Requests : Has(up, r) => r = call.req /\ call.at \in Waiting /\ ~Asked
  /\ Asked => plug = call.req /\ call.at \in Waiting
StartsInv ==
  /\ call.req.kind = "start" /\ call.at \in {"write"} \cup Waiting => call.req.t \in starts
  /\ \A t \in Tasks : srv[t] = "active" => t \in starts
AnswerSound(f) ==
  /\ f.kind \notin {"err", "unexpected", "full"}
  /\ f.kind \in Answers =>
       /\ f.id = call.req.id /\ call.at \in Waiting /\ up = <<>> /\ ~Asked
       /\ f.kind = "startError" => call.req.kind = "start" /\ srv[call.req.t] = "none"
       /\ f.kind \in {"stopped", "refused"} => StoppedCall
       /\ f.kind = "stopError" => call.req.kind = "stop"
       /\ f.kind = "done" => call.req.kind = "other"
AnswerInv == \A f \in AnyFrame : OnWay(f) => AnswerSound(f)
Single(s) == \A i, j \in DOMAIN s : s[i].kind \in Answers /\ s[j].kind \in Answers => i = j
OneAnswer ==
  /\ Single(down) /\ Single(queue)
  /\ \A f, g \in AnyFrame : f.kind \in Answers /\ g.kind \in Answers =>
       /\ Has(down, f) => ~InHand(g)
       /\ pump.at = "deliver" /\ pump.frame = f => ~Has(queue, g)
NoneAfter(s, g) == \A i, j \in DOMAIN s : i < j /\ s[i].kind \in Final => s[j] # g
LifeKnown(f) ==
  \/ \E t \in starts : startId[t] = f.id
  \/ f.id = call.req.id /\ call.at \in Waiting /\ call.req.kind = "other"
LifeInv == \A f \in AnyFrame : Has(down, f) /\ f.kind = "life" => LifeKnown(f)
LastInv ==
  /\ call.at = "grace" => ~Has(down, LastLife)
  /\ \A f \in AnyFrame : InHand(f) /\ f.kind \in Final => ~Has(down, LastLife)
  /\ NoneAfter(down, LastLife)
CalmInv ==
  Calm => /\ WaiterInv /\ AskedInv /\ StartsInv /\ AnswerInv /\ OneAnswer /\ LifeInv
          /\ LastInv
FlushInv == \A t \in Tasks : srv[t] = "flushing" => plug.kind = "stop" /\ plug.t = t
GivenUp ==
  pump.at = "unexpected" \/ (pump.at = "kill" /\ pump.frame.kind = "unexpected") =>
    dropped \/ proc = "dead"

\* Each lifecycle frame of a task that is on its way counts as written and not applied.
Count(s, f) == Cardinality({i \in DOMAIN s : s[i] = f})
LifeFrame(t) == Frame(startId[t], "life")
Pending(t) ==
  Count(down, LifeFrame(t)) + Count(queue, LifeFrame(t))
    + (IF pump.at = "deliver" /\ pump.frame = LifeFrame(t) THEN 1 ELSE 0)
UnappliedSound(t) ==
  unapplied[t] \in Int /\ Pending(t) <= unapplied[t] /\ unapplied[t] <= life
UnappliedInv == unapplied \in [Tasks -> Int] /\ \A t \in Tasks : UnappliedSound(t)

IInv == /\ Domains /\ RequestInv /\ TaskInv /\ ExitInv /\ FrameInv /\ FatalInv
        /\ FlushInv /\ CalmInv /\ GivenUp /\ UnappliedInv /\ NilIsEarned /\ FatalIsKept /\ KillIsJustified

-----------------------------------------------------------------------------
(* Sequences.                                                              *)

\* What a sequence holds after Append, and where.
LEMMA AppendFacts ==
  ASSUME NEW S, NEW s \in Seq(S), NEW x \in S
  PROVE  /\ Append(s, x) \in Seq(S) /\ Len(Append(s, x)) = Len(s) + 1 /\ Len(s) \in Nat
         /\ DOMAIN s = 1..Len(s) /\ DOMAIN Append(s, x) = 1..Len(s) + 1
         /\ Append(s, x)[Len(s) + 1] = x
         /\ \A i \in 1..Len(s) : Append(s, x)[i] = s[i]
         /\ \A y : Has(Append(s, x), y) <=> Has(s, y) \/ y = x
  <1>1. /\ Append(s, x) \in Seq(S) /\ Len(Append(s, x)) = Len(s) + 1 /\ Len(s) \in Nat
        /\ DOMAIN s = 1..Len(s) /\ DOMAIN Append(s, x) = 1..Len(s) + 1
        /\ Append(s, x)[Len(s) + 1] = x
        /\ \A i \in 1..Len(s) : Append(s, x)[i] = s[i]
    OBVIOUS
  <1>2. \A y : Has(Append(s, x), y) <=> Has(s, y) \/ y = x
    BY <1>1 DEF Has
  <1> QED BY <1>1, <1>2

\* What is left of a sequence after Tail, and where.
LEMMA TailFacts ==
  ASSUME NEW S, NEW s \in Seq(S), s # <<>>
  PROVE  /\ Tail(s) \in Seq(S) /\ Len(Tail(s)) = Len(s) - 1 /\ Len(s) \in Nat \ {0}
         /\ DOMAIN s = 1..Len(s) /\ DOMAIN Tail(s) = 1..Len(s) - 1
         /\ Head(s) = s[1] /\ Head(s) \in S /\ Has(s, Head(s))
         /\ \A i \in 1..Len(s) - 1 : Tail(s)[i] = s[i + 1]
         /\ \A y : Has(Tail(s), y) => Has(s, y)
         /\ \A y : Has(s, y) => Has(Tail(s), y) \/ y = Head(s)
  <1>1. /\ Tail(s) \in Seq(S) /\ Len(Tail(s)) = Len(s) - 1 /\ Len(s) \in Nat \ {0}
        /\ DOMAIN s = 1..Len(s) /\ DOMAIN Tail(s) = 1..Len(s) - 1
        /\ Head(s) = s[1] /\ Head(s) \in S
        /\ \A i \in 1..Len(s) - 1 : Tail(s)[i] = s[i + 1]
    OBVIOUS
  <1>2. Has(s, Head(s))
    BY <1>1 DEF Has
  <1>3. \A y : Has(Tail(s), y) => Has(s, y)
    BY <1>1 DEF Has
  <1>4. ASSUME NEW i \in 1..Len(s) PROVE Has(Tail(s), s[i]) \/ s[i] = Head(s)
    <2>1. CASE i = 1
      BY <1>1, <2>1
    <2>2. CASE i # 1
      <3>1. i - 1 \in 1..Len(s) - 1 /\ Tail(s)[i - 1] = s[i]
        BY <1>1, <2>2
      <3> QED BY <1>1, <3>1 DEF Has
    <2> QED BY <2>1, <2>2
  <1>5. \A y : Has(s, y) => Has(Tail(s), y) \/ y = Head(s)
    BY <1>1, <1>4 DEF Has
  <1> QED BY <1>1, <1>2, <1>3, <1>5

\* What the pipes and the queue hold after a frame or a request is added or taken.
LEMMA SeqFacts ==
  ASSUME Domains
  PROVE  /\ \A f \in AnyFrame : /\ Append(down, f) \in Seq(AnyFrame)
                                /\ \A y : Has(Append(down, f), y) <=> Has(down, y) \/ y = f
         /\ \A f \in AnyFrame : /\ Append(queue, f) \in Seq(AnyFrame)
                                /\ Len(Append(queue, f)) = Len(queue) + 1
                                /\ Append(queue, f) # <<>>
                                /\ \A y : Has(Append(queue, f), y) <=> Has(queue, y) \/ y = f
         /\ \A r \in Requests : /\ Append(up, r) \in Seq(Requests)
                                /\ \A y : Has(Append(up, r), y) <=> Has(up, y) \/ y = r
         /\ down # <<>> => /\ Tail(down) \in Seq(AnyFrame) /\ Head(down) \in AnyFrame
                           /\ Has(down, Head(down)) /\ \A y : Has(Tail(down), y) => Has(down, y)
         /\ queue # <<>> => /\ Tail(queue) \in Seq(AnyFrame) /\ Head(queue) \in AnyFrame
                            /\ Len(Tail(queue)) = Len(queue) - 1
                            /\ Has(queue, Head(queue))
                            /\ \A y : Has(Tail(queue), y) => Has(queue, y)
         /\ up # <<>> => /\ Tail(up) \in Seq(Requests) /\ Head(up) \in Requests
                         /\ Has(up, Head(up)) /\ \A y : Has(Tail(up), y) => Has(up, y)
         /\ Len(queue) \in Nat /\ <<>> \in Seq(AnyFrame) /\ Len(<<>>) = 0
         /\ \A y : ~Has(<<>>, y)
         /\ ErrFrame \in AnyFrame
  <1>1. down \in Seq(AnyFrame) /\ queue \in Seq(AnyFrame) /\ up \in Seq(Requests)
    BY DEF Domains, CallDomain, PumpDomain, PlugDomain
  <1>2. \A f \in AnyFrame : /\ Append(down, f) \in Seq(AnyFrame)
                            /\ \A y : Has(Append(down, f), y) <=> Has(down, y) \/ y = f
    BY <1>1, AppendFacts
  <1>3. \A f \in AnyFrame : /\ Append(queue, f) \in Seq(AnyFrame)
                            /\ Len(Append(queue, f)) = Len(queue) + 1
                            /\ Append(queue, f) # <<>>
                            /\ \A y : Has(Append(queue, f), y) <=> Has(queue, y) \/ y = f
    BY <1>1, AppendFacts
  <1>4. \A r \in Requests : /\ Append(up, r) \in Seq(Requests)
                            /\ \A y : Has(Append(up, r), y) <=> Has(up, y) \/ y = r
    BY <1>1, AppendFacts
  <1>5. down # <<>> => /\ Tail(down) \in Seq(AnyFrame) /\ Head(down) \in AnyFrame
                       /\ Has(down, Head(down)) /\ \A y : Has(Tail(down), y) => Has(down, y)
    BY <1>1, TailFacts
  <1>6. queue # <<>> => /\ Tail(queue) \in Seq(AnyFrame) /\ Head(queue) \in AnyFrame
                        /\ Len(Tail(queue)) = Len(queue) - 1
                        /\ Has(queue, Head(queue))
                            /\ \A y : Has(Tail(queue), y) => Has(queue, y)
    BY <1>1, TailFacts
  <1>7. up # <<>> => /\ Tail(up) \in Seq(Requests) /\ Head(up) \in Requests
                     /\ Has(up, Head(up)) /\ \A y : Has(Tail(up), y) => Has(up, y)
    BY <1>1, TailFacts
  <1>8. Len(queue) \in Nat /\ <<>> \in Seq(AnyFrame) /\ Len(<<>>) = 0
    BY <1>1
  <1>9. \A y : ~Has(<<>>, y)
    BY DEF Has
  <1>10. ErrFrame \in AnyFrame
    BY BoundsAssumption DEF ErrFrame, Frame, AnyFrame, FrameKinds
  <1> QED BY <1>2, <1>3, <1>4, <1>5, <1>6, <1>7, <1>8, <1>9, <1>10

-----------------------------------------------------------------------------
(* The domains.                                                            *)

\* An empty queue fits every capacity.
LEMMA EmptyFits == <<>> \in Seq(AnyFrame) /\ Len(<<>>) <= QueueCap
  BY BoundsAssumption

\* failAllWaiters leaves the queue within its capacity.
LEMMA WaitersFail ==
  ASSUME Domains, FailWaiters
  PROVE  /\ reg' = 0 /\ shut' \in BOOLEAN
         /\ queue' \in Seq(AnyFrame) /\ Len(queue') <= QueueCap
  <1> USE BoundsAssumption DEF Domains, CallDomain
  <1>1. CASE reg = 0
    BY <1>1 DEF FailWaiters
  <1>2. CASE reg # 0 /\ Room
    <2>1. queue' = Append(queue, ErrFrame) /\ ErrFrame \in AnyFrame /\ Len(queue) < QueueCap
      BY <1>2, SeqFacts DEF FailWaiters, Room
    <2>2. queue' \in Seq(AnyFrame) /\ Len(queue') = Len(queue) + 1 /\ Len(queue) \in Nat
      BY <2>1, SeqFacts
    <2> QED BY <1>2, <2>1, <2>2 DEF FailWaiters
  <1>3. CASE reg # 0 /\ ~Room
    BY <1>3 DEF FailWaiters
  <1> QED BY <1>1, <1>2, <1>3

\* Each group of variables stays in its domain: the call and its waiter,
LEMMA CallDomainStep ==
  ASSUME Domains, [Next]_vars
  PROVE  CallDomain'
  <1> USE BoundsAssumption, NoTaskAssumption DEF Domains, CallDomain, PumpDomain, Active,
          Waiting, callVars, ctxVars, taskVars, procVars, plugVars, histVars
  <1>1. CASE UNCHANGED <<call, seq, reg, queue, shut>>
    BY <1>1
  <1>2. CASE WriteRequest
    BY <1>2, SeqFacts DEF WriteRequest, Goto
  <1>3. CASE Block
    BY <1>3, SeqFacts DEF Block, Goto
  <1>4. CASE ReadFails
    BY <1>4, SeqFacts DEF ReadFails, Goto
  <1>5. CASE CallCancelled
    BY <1>5, SeqFacts DEF CallCancelled, Goto
  <1>6. CASE TakeLife
    <2>1. queue' \in Seq(AnyFrame) /\ Len(queue') <= QueueCap
      BY <1>6, SeqFacts DEF TakeLife, Take
    <2>2. call' \in [at : {"idle", "closing", "closed"} \cup Active, req : Requests]
      BY <1>6 DEF TakeLife, Take, Goto
    <2> QED BY <1>6, <2>1, <2>2 DEF TakeLife, Take
  <1>7. CASE TakeStarted
    <2>1. queue' \in Seq(AnyFrame) /\ Len(queue') <= QueueCap
      BY <1>7, SeqFacts DEF TakeStarted, Take
    <2>2. call' \in [at : {"idle", "closing", "closed"} \cup Active, req : Requests]
      BY <1>7 DEF TakeStarted, Take, Goto
    <2> QED BY <1>7, <2>1, <2>2 DEF TakeStarted, Take
  <1>8. CASE TakeStartError
    <2>1. queue' \in Seq(AnyFrame) /\ Len(queue') <= QueueCap
      BY <1>8, SeqFacts DEF TakeStartError, Take
    <2>2. call' \in [at : {"idle", "closing", "closed"} \cup Active, req : Requests]
      BY <1>8 DEF TakeStartError, Take, Goto
    <2> QED BY <1>8, <2>1, <2>2 DEF TakeStartError, Take
  <1>9. CASE TakeStopped
    <2>1. queue' \in Seq(AnyFrame) /\ Len(queue') <= QueueCap
      BY <1>9, SeqFacts DEF TakeStopped, Take
    <2>2. call' \in [at : {"idle", "closing", "closed"} \cup Active, req : Requests]
      BY <1>9 DEF TakeStopped, Take, Goto
    <2> QED BY <1>9, <2>1, <2>2 DEF TakeStopped, Take
  <1>10. CASE GraceEnds
    BY <1>10, SeqFacts DEF GraceEnds, Goto
  <1>11. CASE TakeStopError
    <2>1. queue' \in Seq(AnyFrame) /\ Len(queue') <= QueueCap
      BY <1>11, SeqFacts DEF TakeStopError, Take
    <2>2. call' \in [at : {"idle", "closing", "closed"} \cup Active, req : Requests]
      BY <1>11 DEF TakeStopError, Take, Goto
    <2> QED BY <1>11, <2>1, <2>2 DEF TakeStopError, Take
  <1>12. CASE TakeDone
    <2>1. queue' \in Seq(AnyFrame) /\ Len(queue') <= QueueCap
      BY <1>12, SeqFacts DEF TakeDone, Take
    <2>2. call' \in [at : {"idle", "closing", "closed"} \cup Active, req : Requests]
      BY <1>12 DEF TakeDone, Take, Goto
    <2> QED BY <1>12, <2>1, <2>2 DEF TakeDone, Take
  <1>13. CASE Return
    <2>1. NoReq \in Requests
      BY BoundsAssumption DEF NoReq, Requests
    <2>2. call' = [at |-> "idle", req |-> NoReq]
      BY <1>13 DEF Return, Idle
    <2>3. call' \in [at : {"idle", "closing", "closed"} \cup Active, req : Requests]
      BY <2>1, <2>2
    <2>4. /\ queue' = <<>> /\ shut' = FALSE
          /\ reg' \in 0..MaxCalls /\ seq' \in 0..MaxCalls
      BY <1>13 DEF Return
    <2> QED BY <2>3, <2>4, EmptyFits
  <1>14. CASE CloseClient
    <2>1. NoReq \in Requests
      BY BoundsAssumption DEF NoReq, Requests
    <2> QED BY <1>14, <2>1, SeqFacts DEF CloseClient, Idle
  <1>15. CASE CloseReturns
    BY <1>15, SeqFacts DEF CloseReturns, Goto
  <1>16. CASE PumpDelivers
    <2>1. CASE FailWaiters
      BY <1>16, <2>1, WaitersFail DEF PumpDelivers
    <2>2. CASE ~FailWaiters /\ queue' # queue
      <3>1. Room /\ queue' = Append(queue, pump.frame) /\ pump.frame \in AnyFrame
        BY <1>16, <2>2 DEF PumpDelivers
      <3>2. queue' \in Seq(AnyFrame) /\ Len(queue') = Len(queue) + 1 /\ Len(queue) \in Nat
        BY <3>1, SeqFacts
      <3> QED BY <1>16, <2>2, <3>1, <3>2 DEF PumpDelivers, Room
    <2>3. CASE ~FailWaiters /\ queue' = queue
      BY <1>16, <2>3 DEF PumpDelivers
    <2> QED BY <2>1, <2>2, <2>3
  <1>17. CASE PumpUnexpected
    <2>1. FailWaiters
      BY <1>17 DEF PumpUnexpected
    <2> QED BY <1>17, <2>1, WaitersFail DEF PumpUnexpected
  <1>18. CASE PumpEnds
    <2>1. FailWaiters
      BY <1>18 DEF PumpEnds
    <2> QED BY <1>18, <2>1, WaitersFail DEF PumpEnds
  <1>19. ASSUME NEW k \in Kinds, NEW t \in Tasks \cup {NoTask}, Call(k, t)
        PROVE  CallDomain'
    <2>1. seq + 1 \in 0..MaxCalls
      BY <1>19 DEF Call
    <2>2. [id |-> seq + 1, kind |-> k, t |-> t] \in Requests
      BY <1>19, <2>1 DEF Requests
    <2>3. call' \in [at : {"idle", "closing", "closed"} \cup Active, req : Requests]
      BY <1>19, <2>2 DEF Call
    <2>4. seq' \in 0..MaxCalls /\ reg' \in 0..MaxCalls
      BY <1>19, <2>1 DEF Call
    <2>5. queue' = <<>> /\ shut' = FALSE
      BY <1>19 DEF Call
    <2> QED BY <2>3, <2>4, <2>5, EmptyFits
  <1>20. CASE CloseKills
    BY <1>1, <1>20 DEF CloseKills
  <1>21. CASE PumpEvent \/ PumpFinds \/ PumpLife \/ PumpFailsTasks \/ PumpKills \/ PumpExits
    BY <1>1, <1>21 DEF PumpEvent, PumpFinds, PumpLife, PumpFailsTasks, PumpKills, PumpExits
  <1>22. CASE PluginReads \/ PluginAnswers \/ PluginRemoves \/ PluginLife \/ PluginBad \/
            PluginDies \/ CtxEnds \/ (\E k \in Kinds, t \in Tasks \cup {NoTask} :
            CallRefused(k, t)) \/ (\E t \in Tasks : PluginEvent(t))
    BY <1>1, <1>22 DEF PluginReads, PluginAnswers, PluginRemoves, PluginLife, PluginBad,
       PluginDies, CtxEnds, CallRefused, PluginEvent
  <1>23. CASE Closed \/ UNCHANGED vars
    BY <1>1, <1>23 DEF Closed, vars
  <1> QED BY <1>2, <1>3, <1>4, <1>5, <1>6, <1>7, <1>8, <1>9, <1>10, <1>11, <1>12, <1>13,
             <1>14, <1>15, <1>16, <1>17, <1>18, <1>19, <1>20, <1>21, <1>22, <1>23
         DEF Next, Caller, Pump, Plugin

\* the read pump and stdout,
LEMMA PumpDomainStep ==
  ASSUME Domains, [Next]_vars
  PROVE  PumpDomain'
  <1> USE BoundsAssumption, NoTaskAssumption DEF Domains, PumpDomain, Broken, callVars,
          ctxVars, taskVars, procVars, plugVars, histVars
  <1>1. CASE UNCHANGED <<pump, down>>
    BY <1>1
  <1>2. CASE PumpEvent
    BY <1>2, SeqFacts DEF PumpEvent, Known
  <1>3. CASE PumpFinds
    BY <1>3, SeqFacts DEF PumpFinds, PumpGoes
  <1>4. CASE PumpDelivers
    BY <1>4, SeqFacts DEF PumpDelivers, PumpGoes, Reading, ErrFrame, Frame
  <1>5. CASE PumpLife
    BY <1>5, SeqFacts DEF PumpLife, Starter
  <1>6. CASE PumpUnexpected
    BY <1>6, SeqFacts DEF PumpUnexpected, Starter, PumpGoes, ErrFrame, Frame
  <1>7. CASE PumpFailsTasks
    <2>1. [pump.frame EXCEPT !.kind = pump.at] \in AnyFrame
      BY <1>7 DEF PumpFailsTasks, AnyFrame, FrameKinds
    <2>2. [pump.frame EXCEPT !.kind = pump.at].kind \in {"unexpected", "full"}
      BY <1>7 DEF PumpFailsTasks, AnyFrame
    <2> QED BY <1>7, <2>1, <2>2 DEF PumpFailsTasks, PumpGoes
  <1>8. CASE PumpKills
    BY <1>8, SeqFacts DEF PumpKills, Reading, ErrFrame, Frame
  <1>9. CASE PumpEnds
    BY <1>9, SeqFacts DEF PumpEnds, PumpGoes, ErrFrame, Frame
  <1>10. CASE PumpExits
    BY <1>10, SeqFacts DEF PumpExits, PumpGoes, ErrFrame, Frame
  <1>11. CASE PluginAnswers
    <2>1. \A x \in FrameKinds : Frame(plug.id, x) \in AnyFrame
      BY DEF PlugDomain, Requests, Frame, AnyFrame
    <2>2. \E x \in FrameKinds : down' = Append(down, Frame(plug.id, x))
      BY <1>11 DEF PluginAnswers, Send, FrameKinds
    <2> QED BY <1>11, <2>1, <2>2, SeqFacts DEF PluginAnswers
  <1>12. CASE PluginLife
    <2>1. PICK i \in 0..MaxCalls : down' = Append(down, Frame(i, "life"))
      BY <1>12 DEF PluginLife, Send, PlugDomain, TaskDomain, Requests
    <2>2. Frame(i, "life") \in AnyFrame
      BY DEF Frame, AnyFrame, FrameKinds
    <2> QED BY <1>12, <2>1, <2>2, SeqFacts DEF PluginLife
  <1>13. CASE PluginBad
    <2>1. Frame(0, "bad") \in AnyFrame
      BY DEF Frame, AnyFrame, FrameKinds
    <2> QED BY <1>13, <2>1, SeqFacts DEF PluginBad, Send
  <1>14. ASSUME NEW t \in Tasks, PluginEvent(t) PROVE PumpDomain'
    <2>1. PICK x \in {"fatal", "completed"} : down' = Append(down, Frame(startId[t], x))
      BY <1>14 DEF PluginEvent, Send
    <2>2. Frame(startId[t], x) \in AnyFrame
      BY DEF Frame, AnyFrame, FrameKinds, TaskDomain
    <2> QED BY <1>14, <2>1, <2>2, SeqFacts DEF PluginEvent
  <1>15. CASE WriteRequest \/ Block \/ ReadFails \/ CallCancelled \/ TakeLife \/ TakeStarted
            \/ TakeStartError \/ TakeStopped \/ GraceEnds \/ TakeStopError \/ TakeDone \/
            Return \/ CloseClient \/ CloseKills \/ CloseReturns
    BY <1>1, <1>15 DEF WriteRequest, Block, ReadFails, CallCancelled, TakeLife, TakeStarted,
       TakeStartError, TakeStopped, GraceEnds, TakeStopError, TakeDone, Return, CloseClient,
       CloseKills, CloseReturns
  <1>16. CASE PluginReads \/ PluginRemoves \/ PluginDies \/ CtxEnds \/ (\E k \in Kinds, t
            \in Tasks \cup {NoTask} : CallRefused(k, t)) \/ (\E k \in Kinds, t \in Tasks
            \cup {NoTask} : Call(k, t))
    BY <1>1, <1>16 DEF PluginReads, PluginRemoves, PluginDies, CtxEnds, CallRefused, Call
  <1>17. CASE Closed \/ UNCHANGED vars
    BY <1>1, <1>17 DEF Closed, vars
  <1> QED BY <1>2, <1>3, <1>4, <1>5, <1>6, <1>7, <1>8, <1>9, <1>10, <1>11, <1>12, <1>13,
             <1>14, <1>15, <1>16, <1>17
         DEF Next, Caller, Pump, Plugin

\* what the host keeps of the tasks,
LEMMA TaskDomainStep ==
  ASSUME Domains, RequestInv, FrameInv, [Next]_vars
  PROVE  TaskDomain'
  <1> USE BoundsAssumption, NoTaskAssumption DEF Domains, CallDomain, TaskDomain, callVars,
          ctxVars, taskVars, procVars, plugVars, histVars
  <1>1. CASE UNCHANGED <<startId, starts, byId, finished, done, returned>>
    BY <1>1
  <1>2. CASE WriteRequest
    BY <1>2 DEF WriteRequest, FailCall, CallTasks, Finish, CompleteDone
  <1>3. CASE ReadFails
    BY <1>3 DEF ReadFails, FailCall, CallTasks, Finish, CompleteDone
  <1>4. CASE CallCancelled
    BY <1>4 DEF CallCancelled, FailCall, CallTasks, Finish, CompleteDone
  <1>5. CASE TakeLife
    BY <1>5 DEF TakeLife, FailCall, CallTasks, Finish, CompleteDone
  <1>6. CASE TakeStarted
    <2>1. /\ Head(queue) \in AnyFrame /\ Has(queue, Head(queue))
          /\ Head(queue).kind = "started" /\ call.at \in Active
      BY <1>6, SeqFacts DEF TakeStarted, Take, Active, Waiting
    <2>2. call.req.kind = "start"
      BY <2>1 DEF FrameInv, Frames, QueueIds, FrameSound, OnWay, InHand
    <2>3. call.req.t \in Tasks
      BY <2>1, <2>2 DEF RequestInv, CallReq, Sound
    <2> QED BY <1>6, <2>3 DEF TakeStarted, RegisterId
  <1>7. CASE TakeStartError
    BY <1>7 DEF TakeStartError, FailCall, CallTasks, Finish, CompleteDone
  <1>8. CASE GraceEnds
    BY <1>8 DEF GraceEnds, CallTasks, Finish, CompleteDone
  <1>9. CASE TakeStopError
    BY <1>9 DEF TakeStopError, FailStop, FailCall, CallTasks, Finish, CompleteDone
  <1>10. CASE PumpEvent
    BY <1>10 DEF PumpEvent, Known, CompleteDone
  <1>11. CASE PumpLife
    BY <1>11 DEF PumpLife, Starter, Finish, CompleteDone
  <1>12. CASE PumpFailsTasks
    BY <1>12 DEF PumpFailsTasks, AllTasks, Finish, CompleteDone
  <1>13. CASE PumpExits
    BY <1>13 DEF PumpExits, AllTasks, Finish, CompleteDone, ErrFrame, Frame
  <1>14. ASSUME NEW k \in Kinds, NEW t \in Tasks \cup {NoTask}, CallRefused(k, t)
        PROVE  TaskDomain'
    BY <1>14 DEF CallRefused, Finish, CompleteDone, CtxOf
  <1>15. ASSUME NEW k \in Kinds, NEW t \in Tasks \cup {NoTask}, Call(k, t)
        PROVE  TaskDomain'
    <2>1. startId' \in [Tasks -> 0..MaxCalls] /\ starts' \subseteq Tasks
      <3>1. CASE k = "start"
        <4>1. seq + 1 \in 0..MaxCalls
          BY <1>15 DEF Call
        <4>2. startId' = [startId EXCEPT ![t] = seq + 1] /\ t \in Tasks
              /\ starts' = starts \cup {t}
          BY <1>15, <3>1 DEF Call, RegisterStart
        <4> QED BY <4>1, <4>2
      <3>2. CASE k # "start"
        BY <1>15, <3>2 DEF Call, Kinds
      <3> QED BY <3>1, <3>2
    <2> QED BY <1>15, <2>1 DEF Call
  <1>16. CASE Block \/ TakeStopped \/ TakeDone \/ Return \/ CloseClient \/ CloseKills \/
            CloseReturns
    BY <1>1, <1>16 DEF Block, TakeStopped, TakeDone, Return, CloseClient, CloseKills,
       CloseReturns
  <1>17. CASE PumpFinds \/ PumpDelivers \/ PumpUnexpected \/ PumpKills \/ PumpEnds
    BY <1>1, <1>17 DEF PumpFinds, PumpDelivers, PumpUnexpected, PumpKills, PumpEnds
  <1>18. CASE PluginReads \/ PluginAnswers \/ PluginRemoves \/ PluginLife \/ PluginBad \/
            PluginDies \/ CtxEnds \/ (\E t \in Tasks : PluginEvent(t))
    BY <1>1, <1>18 DEF PluginReads, PluginAnswers, PluginRemoves, PluginLife, PluginBad,
       PluginDies, CtxEnds, PluginEvent
  <1>19. CASE Closed \/ UNCHANGED vars
    BY <1>1, <1>19 DEF Closed, vars
  <1> QED BY <1>2, <1>3, <1>4, <1>5, <1>6, <1>7, <1>8, <1>9, <1>10, <1>11, <1>12, <1>13,
             <1>14, <1>15, <1>16, <1>17, <1>18, <1>19
         DEF Next, Caller, Pump, Plugin

\* stdin and the plugin,
LEMMA PlugDomainStep ==
  ASSUME Domains, [Next]_vars
  PROVE  PlugDomain'
  <1> USE BoundsAssumption, NoTaskAssumption DEF Domains, CallDomain, PlugDomain, callVars,
          ctxVars, taskVars, procVars, plugVars, histVars
  <1>1. CASE UNCHANGED <<up, plug, srv, evented, warned>>
    BY <1>1
  <1>2. CASE WriteRequest
    <2>1. call.req \in Requests
      BY DEF CallDomain
    <2>2. CASE up' = up
      BY <1>2, <2>2 DEF WriteRequest
    <2>3. CASE up' # up
      <3>1. PICK r \in Requests : up' = Append(up, r)
        BY <1>2, <2>1, <2>3 DEF WriteRequest
      <3>2. Append(up, r) \in Seq(Requests)
        BY SeqFacts
      <3> QED BY <1>2, <3>1, <3>2 DEF WriteRequest
    <2> QED BY <2>2, <2>3
  <1>3. CASE PluginReads
    BY <1>3, SeqFacts DEF PluginReads
  <1>4. CASE PluginAnswers
    <2>1. NoReq \in Requests
      BY BoundsAssumption DEF NoReq, Requests
    <2>2. plug' \in Requests
      BY <1>4, <2>1 DEF PluginAnswers
    <2>3. srv' \in [Tasks -> {"none", "active", "flushing", "removed"}]
      BY <1>4 DEF PluginAnswers
    <2> QED BY <1>4, <2>2, <2>3 DEF PluginAnswers
  <1>5. CASE PluginRemoves
    <2>1. NoReq \in Requests
      BY BoundsAssumption DEF NoReq, Requests
    <2> QED BY <1>5, <2>1 DEF PluginRemoves
  <1>6. ASSUME NEW t \in Tasks, PluginEvent(t) PROVE PlugDomain'
    BY <1>6, SeqFacts DEF PluginEvent, Send, Frame
  <1>7. CASE Block \/ ReadFails \/ CallCancelled \/ TakeLife \/ TakeStarted \/
            TakeStartError \/ TakeStopped \/ GraceEnds \/ TakeStopError \/ TakeDone \/
            Return \/ CloseClient \/ CloseKills \/ CloseReturns
    BY <1>1, <1>7 DEF Block, ReadFails, CallCancelled, TakeLife, TakeStarted,
       TakeStartError, TakeStopped, GraceEnds, TakeStopError, TakeDone, Return, CloseClient,
       CloseKills, CloseReturns
  <1>8. CASE PumpEvent \/ PumpFinds \/ PumpDelivers \/ PumpLife \/ PumpUnexpected \/
            PumpFailsTasks \/ PumpKills \/ PumpEnds \/ PumpExits
    BY <1>1, <1>8 DEF PumpEvent, PumpFinds, PumpDelivers, PumpLife, PumpUnexpected,
       PumpFailsTasks, PumpKills, PumpEnds, PumpExits
  <1>9. CASE PluginLife \/ PluginBad \/ PluginDies \/ CtxEnds \/ (\E k \in Kinds, t \in
            Tasks \cup {NoTask} : CallRefused(k, t)) \/ (\E k \in Kinds, t \in Tasks \cup
            {NoTask} : Call(k, t))
    BY <1>1, <1>9 DEF PluginLife, PluginBad, PluginDies, CtxEnds, CallRefused, Call
  <1>10. CASE Closed \/ UNCHANGED vars
    BY <1>1, <1>10 DEF Closed, vars
  <1> QED BY <1>2, <1>3, <1>4, <1>5, <1>6, <1>7, <1>8, <1>9, <1>10
         DEF Next, Caller, Pump, Plugin

\* the contexts, the process and the counters.
LEMMA HostDomainStep ==
  ASSUME Domains, [Next]_vars
  PROVE  HostDomain'
  <1> USE BoundsAssumption, NoTaskAssumption DEF Domains, HostDomain, PumpDomain, callVars,
          ctxVars, taskVars, procVars, plugVars, histVars
  <1>1. CASE UNCHANGED <<runCtx, callerCtx, closed, proc, life, bad, killed, waited,
        dropped>>
    BY <1>1
  <1>2. CASE CallCancelled
    BY <1>2 DEF CallCancelled, Kill, CallTasks
  <1>3. CASE TakeLife
    BY <1>3 DEF TakeLife, Take, Apply, CallTasks
  <1>4. CASE CloseClient
    BY <1>4 DEF CloseClient, Idle, NoReq
  <1>5. CASE CloseKills
    BY <1>5 DEF CloseKills, Kill
  <1>6. CASE PumpLife
    BY <1>6 DEF PumpLife, Starter, Apply
  <1>7. CASE PumpKills
    BY <1>7 DEF PumpKills, Kill, Reading, ErrFrame, Frame
  <1>8. CASE PluginLife
    BY <1>8 DEF PluginLife, Send, Frame
  <1>9. CASE PluginBad
    BY <1>9 DEF PluginBad, Send, Frame
  <1>10. CASE PluginDies
    BY <1>10 DEF PluginDies
  <1>11. CASE CtxEnds
    BY <1>11 DEF CtxEnds
  <1>12. ASSUME NEW k \in Kinds, NEW t \in Tasks \cup {NoTask}, CallRefused(k, t)
        PROVE  HostDomain'
    BY <1>12 DEF CallRefused, Kill, CtxOf
  <1>13. CASE WriteRequest \/ Block \/ ReadFails \/ TakeStarted \/ TakeStartError \/
            TakeStopped \/ GraceEnds \/ TakeStopError \/ TakeDone \/ Return \/ CloseReturns
    BY <1>1, <1>13 DEF WriteRequest, Block, ReadFails, TakeStarted, TakeStartError,
       TakeStopped, GraceEnds, TakeStopError, TakeDone, Return, CloseReturns
  <1>14. CASE PumpEvent \/ PumpFinds \/ PumpDelivers \/ PumpUnexpected \/ PumpFailsTasks \/
            PumpEnds \/ PumpExits
    BY <1>1, <1>14 DEF PumpEvent, PumpFinds, PumpDelivers, PumpUnexpected, PumpFailsTasks,
       PumpEnds, PumpExits
  <1>15. CASE PluginReads \/ PluginAnswers \/ PluginRemoves \/ (\E k \in Kinds, t \in Tasks
            \cup {NoTask} : Call(k, t)) \/ (\E t \in Tasks : PluginEvent(t))
    BY <1>1, <1>15 DEF PluginReads, PluginAnswers, PluginRemoves, Call, PluginEvent
  <1>16. CASE Closed \/ UNCHANGED vars
    BY <1>1, <1>16 DEF Closed, vars
  <1> QED BY <1>2, <1>3, <1>4, <1>5, <1>6, <1>7, <1>8, <1>9, <1>10, <1>11, <1>12, <1>13,
             <1>14, <1>15, <1>16
         DEF Next, Caller, Pump, Plugin

-----------------------------------------------------------------------------
(* The requests.                                                           *)

\* What the domains say of the values the steps handle.
LEMMA Types ==
  ASSUME Domains
  PROVE  /\ call.req \in Requests /\ call.req.id \in Nat
         /\ call.at \in {"idle", "closing", "closed"} \cup Active
         /\ call = [at |-> call.at, req |-> call.req]
         /\ plug \in Requests /\ plug.id \in Nat
         /\ seq \in Nat
         /\ pump.frame \in AnyFrame
         /\ \A r \in Requests : r.id \in Nat /\ r.t \in Tasks \cup {NoTask}
         /\ \A f \in AnyFrame : f.id \in Nat
         /\ \A t \in Tasks : startId[t] \in Nat
  <1> USE BoundsAssumption DEF Domains, CallDomain, PumpDomain, TaskDomain, PlugDomain
  <1>1. \A r \in Requests : r.id \in Nat /\ r.t \in Tasks \cup {NoTask}
    BY DEF Requests
  <1>2. \A f \in AnyFrame : f.id \in Nat
    BY DEF AnyFrame
  <1>3. /\ call.req \in Requests /\ plug \in Requests /\ pump.frame \in AnyFrame
        /\ call.at \in {"idle", "closing", "closed"} \cup Active
        /\ call = [at |-> call.at, req |-> call.req]
    OBVIOUS
  <1>4. seq \in Nat /\ \A t \in Tasks : startId[t] \in Nat
    OBVIOUS
  <1> QED BY <1>1, <1>2, <1>3, <1>4

\* The pipes and the queue are sequences.
LEMMA UpSeq ==
  ASSUME Domains
  PROVE  up \in Seq(Requests) /\ down \in Seq(AnyFrame) /\ queue \in Seq(AnyFrame)
  BY DEF Domains, CallDomain, PumpDomain, PlugDomain

\* A request added after the last one, or the first one taken, keeps the order.
LEMMA OrderedFacts ==
  ASSUME NEW S, NEW s \in Seq(S), \A x \in S : x.id \in Nat, Ordered(s)
  PROVE  /\ \A x \in S : (\A y \in S : Has(s, y) => y.id < x.id) => Ordered(Append(s, x))
         /\ s # <<>> => /\ Ordered(Tail(s))
                        /\ \A y \in S : Has(Tail(s), y) => Head(s).id < y.id
  <1>1. ASSUME NEW x \in S, \A y \in S : Has(s, y) => y.id < x.id
        PROVE  Ordered(Append(s, x))
    BY <1>1, AppendFacts DEF Ordered, Has
  <1>2. ASSUME s # <<>> PROVE Ordered(Tail(s))
    <2>1. ASSUME NEW i \in DOMAIN Tail(s), NEW j \in DOMAIN Tail(s), i < j
          PROVE  Tail(s)[i].id < Tail(s)[j].id
      <3>1. /\ Tail(s)[i] = s[i + 1] /\ Tail(s)[j] = s[j + 1]
            /\ i + 1 \in DOMAIN s /\ j + 1 \in DOMAIN s /\ i + 1 < j + 1
        BY <1>2, <2>1, TailFacts
      <3> QED BY <3>1 DEF Ordered
    <2> QED BY <2>1 DEF Ordered
  <1>3. ASSUME s # <<>>, NEW y \in S, Has(Tail(s), y) PROVE Head(s).id < y.id
    <2>1. PICK i \in DOMAIN Tail(s) : Tail(s)[i] = y
      BY <1>3 DEF Has
    <2>2. /\ Tail(s)[i] = s[i + 1] /\ i + 1 \in DOMAIN s /\ 1 \in DOMAIN s /\ 1 < i + 1
          /\ Head(s) = s[1]
      BY <1>3, <2>1, TailFacts
    <2> QED BY <2>1, <2>2 DEF Ordered
  <1> QED BY <1>1, <1>2, <1>3

\* What the steps of a call in progress do to it.
Moves == /\ call.at \in Active /\ call'.at \in Active \ {"write"} /\ call'.req = call.req

\* Where the call in progress goes.
LEMMA CallerMoves ==
  ASSUME Domains, \/ WriteRequest \/ Block \/ ReadFails \/ CallCancelled \/ TakeLife
                  \/ TakeStarted \/ TakeStartError \/ TakeStopped \/ GraceEnds
                  \/ TakeStopError \/ TakeDone
  PROVE  Moves
  <1>1. \A a : Goto(a) => call'.at = a /\ call'.req = call.req
    BY Types DEF Goto
  <1>2. ASSUME \/ WriteRequest \/ Block \/ ReadFails \/ CallCancelled \/ TakeLife
               \/ TakeStarted \/ TakeStartError \/ TakeStopped \/ GraceEnds
               \/ TakeStopError \/ TakeDone
        PROVE  /\ call.at \in Active
               /\ \E a \in Active \ {"write"} : Goto(a)
    <2> USE DEF Active, Waiting
    <2>1. CASE WriteRequest \/ Block \/ ReadFails \/ CallCancelled
      BY <2>1 DEF WriteRequest, Block, ReadFails, CallCancelled
    <2>2. CASE TakeLife \/ TakeStarted \/ TakeStartError \/ TakeStopped
      BY <2>2 DEF TakeLife, TakeStarted, TakeStartError, TakeStopped, Take
    <2>3. CASE GraceEnds \/ TakeStopError \/ TakeDone
      BY <2>3 DEF GraceEnds, TakeStopError, TakeDone, Take
    <2> QED BY <1>2, <2>1, <2>2, <2>3
  <1> QED BY <1>1, <1>2 DEF Moves

\* Which tasks of the plugin change, and how.
LEMMA ServerMoves ==
  ASSUME Domains, PluginAnswers \/ PluginRemoves
  PROVE  /\ \A t \in Tasks : srv'[t] # srv[t] =>
              /\ t = plug.t
              /\ \/ plug.kind = "start" /\ srv'[t] = "active" /\ plug' = NoReq
                 \/ plug.kind = "stop" /\ srv[t] = "active" /\ srv'[t] = "flushing" /\ plug' = plug
                 \/ plug.kind = "stop" /\ srv[t] = "flushing" /\ srv'[t] = "removed" /\ plug' = NoReq
         /\ plug \in Requests \ {NoReq}
         /\ plug' \in {plug, NoReq}
  <1>1. srv \in [Tasks -> {"none", "active", "flushing", "removed"}] /\ plug \in Requests
    BY DEF Domains, PlugDomain
  <1>2. plug # NoReq /\ plug' \in {plug, NoReq}
    BY <1>1 DEF PluginAnswers, PluginRemoves, NoReq
  <1>3. ASSUME NEW t \in Tasks, srv'[t] # srv[t], PluginAnswers
        PROVE  /\ t = plug.t
               /\ \/ plug.kind = "start" /\ srv'[t] = "active" /\ plug' = NoReq
                  \/ plug.kind = "stop" /\ srv[t] = "active" /\ srv'[t] = "flushing" /\ plug' = plug
    BY <1>1, <1>3 DEF PluginAnswers
  <1>4. ASSUME NEW t \in Tasks, srv'[t] # srv[t], PluginRemoves
        PROVE  /\ t = plug.t
               /\ plug.kind = "stop" /\ srv[t] = "flushing" /\ srv'[t] = "removed" /\ plug' = NoReq
    BY <1>1, <1>4 DEF PluginRemoves
  <1> QED BY <1>1, <1>2, <1>3, <1>4

\* The call in progress is sound and the newest of the requests,
LEMMA CallReqStep ==
  ASSUME Domains, RequestInv, TaskInv, [Next]_vars
  PROVE  CallReq'
  <1> USE DEF RequestInv, CallReq, callVars, ctxVars, taskVars, procVars, plugVars, histVars
  <1>1. CASE UNCHANGED <<call, seq, reg, startId, srv>>
    BY <1>1 DEF Sound
  <1>2. CASE Moves /\ UNCHANGED <<seq, reg, srv, startId>>
    BY <1>2 DEF Moves, Sound, Active, Waiting
  <1>3. CASE UNCHANGED <<call, seq, srv, startId>> /\ reg' \in {0, reg}
    BY <1>3, Types DEF Sound
  <1>4. CASE WriteRequest
    <2>1. Moves
      BY <1>4, CallerMoves
    <2> QED BY <1>4, <2>1 DEF Moves, WriteRequest, Sound
  <1>5. CASE Return
    BY <1>5 DEF Return, Idle, NoReq, Active, Waiting
  <1>6. CASE CloseClient
    BY <1>6 DEF CloseClient, Idle, NoReq, Active, Waiting
  <1>7. CASE CloseReturns
    BY <1>7, Types DEF CloseReturns, Goto, Sound, Active, Waiting
  <1>8. CASE PluginAnswers
    <2>1. call.at = "write" /\ call.req.kind = "start" => srv'[call.req.t] = "none"
      <3>1. SUFFICES ASSUME call.at = "write", call.req.kind = "start", srv # srv'
                     PROVE  srv'[call.req.t] = "none"
        OBVIOUS
      <3>2. call.req.t \in Tasks /\ startId[call.req.t] = call.req.id
        BY <3>1 DEF Sound, Active
      <3>3. SUFFICES ASSUME srv'[call.req.t] # srv[call.req.t] PROVE FALSE
        BY <3>1
      <3>4. plug \in Requests \ {NoReq} /\ plug.t = call.req.t /\ plug.kind = "start"
        BY <1>8, <3>1, <3>2, <3>3, ServerMoves
      <3>5. NewReq(plug) /\ plug.id = call.req.id
        BY <3>2, <3>4 DEF NewReqs, NewReq, Sound
      <3> QED BY <3>1, <3>5 DEF NewReq
    <2> QED BY <1>8, <2>1 DEF PluginAnswers, Sound
  <1>9. CASE PluginRemoves
    <2>1. call.at = "write" /\ call.req.kind = "start" => srv'[call.req.t] = "none"
      <3>1. SUFFICES ASSUME call.at = "write", call.req.kind = "start", call.req.t \in Tasks
                     PROVE  srv'[call.req.t] = srv[call.req.t]
        BY <1>9 DEF PluginRemoves, Sound, Active
      <3>2. srv[call.req.t] = "none"
        BY <3>1
      <3> QED BY <1>9, <3>1, <3>2, ServerMoves DEF PluginRemoves
    <2> QED BY <1>9, <2>1 DEF PluginRemoves, Sound
  <1>10. ASSUME NEW k \in Kinds, NEW t \in Tasks \cup {NoTask}, Call(k, t)
        PROVE  CallReq'
    <2>1. /\ call.at \notin Active /\ seq' = seq + 1 /\ reg' = seq + 1 /\ srv' = srv
          /\ call' = [at |-> "write", req |-> [id |-> seq + 1, kind |-> k, t |-> t]]
      BY <1>10 DEF Call, Idle, Active, Waiting
    <2>2. k = "start" => t \in Tasks /\ startId'[t] = seq + 1 /\ srv[t] = "none"
      <3>1. SUFFICES ASSUME k = "start"
                     PROVE  t \in Tasks /\ startId'[t] = seq + 1 /\ srv[t] = "none"
        OBVIOUS
      <3>2. t \in Tasks /\ startId[t] = 0 /\ startId' = [startId EXCEPT ![t] = seq + 1]
        BY <1>10, <3>1 DEF Call
      <3>3. startId \in [Tasks -> 0..MaxCalls]
        BY DEF Domains, TaskDomain
      <3> QED BY <3>2, <3>3 DEF TaskInv, TaskSound
    <2>3. k = "stop" => t \in Tasks /\ startId'[t] # 0
      BY <1>10 DEF Call, Domains, TaskDomain, TaskInv, TaskSound
    <2>4. k = "other" => t = NoTask
      BY <1>10 DEF Call
    <2> QED BY <2>1, <2>2, <2>3, <2>4, Types DEF Sound, Active, Kinds
  <1>11. CASE Block \/ ReadFails \/ CallCancelled \/ TakeLife \/ TakeStarted \/
            TakeStartError \/ TakeStopped \/ GraceEnds \/ TakeStopError \/ TakeDone
    BY <1>2, <1>11, CallerMoves DEF Block, ReadFails, CallCancelled, TakeLife, TakeStarted,
       TakeStartError, TakeStopped, GraceEnds, TakeStopError, TakeDone
  <1>12. CASE PumpDelivers \/ PumpUnexpected \/ PumpEnds
    BY <1>3, <1>12 DEF PumpDelivers, PumpUnexpected, PumpEnds, FailWaiters, Room
  <1>13. CASE CloseKills
    BY <1>1, <1>13 DEF CloseKills
  <1>14. CASE PumpEvent \/ PumpFinds \/ PumpLife \/ PumpFailsTasks \/ PumpKills \/ PumpExits
    BY <1>1, <1>14 DEF PumpEvent, PumpFinds, PumpLife, PumpFailsTasks, PumpKills, PumpExits
  <1>15. CASE PluginReads \/ PluginLife \/ PluginBad \/ PluginDies \/ CtxEnds \/ (\E k \in
            Kinds, t \in Tasks \cup {NoTask} : CallRefused(k, t)) \/ (\E t \in Tasks :
            PluginEvent(t))
    BY <1>1, <1>15 DEF PluginReads, PluginLife, PluginBad, PluginDies, CtxEnds, CallRefused,
       PluginEvent
  <1>16. CASE Closed \/ UNCHANGED vars
    BY <1>1, <1>16 DEF Closed, vars
  <1> QED BY <1>2, <1>3, <1>4, <1>5, <1>6, <1>7, <1>8, <1>9, <1>10, <1>11, <1>12, <1>13,
             <1>14, <1>15, <1>16
         DEF Next, Caller, Pump, Plugin

\* the requests on stdin are in the order they were made,
LEMMA UpOrderStep ==
  ASSUME Domains, RequestInv, TaskInv, [Next]_vars
  PROVE  UpOrder'
  <1> USE DEF RequestInv, UpOrder, callVars, ctxVars, taskVars, procVars, plugVars, histVars
  <1>1. CASE UNCHANGED <<up, plug>>
    BY <1>1
  <1>2. CASE WriteRequest
    <2>1. CASE up' = up
      BY <1>2, <2>1 DEF WriteRequest
    <2>2. CASE up' # up
      <3>1. up' = Append(up, call.req) /\ plug' = plug /\ call.at = "write"
        BY <1>2, <2>2 DEF WriteRequest
      <3>2. call.req \in Requests /\ call.req.id = seq /\ seq >= 1 /\ call.req # NoReq
        BY <3>1, Types DEF CallReq, Active, Sound, NoReq
      <3>3. \A r \in Requests : Has(up, r) \/ (plug = r /\ r # NoReq) => r.id < call.req.id
        BY <3>1, <3>2, Types DEF NewReqs, NewReq, Sound
      <3>4. plug.id < call.req.id
        BY <3>2, <3>3, Types DEF NoReq
      <3>5. Ordered(up')
        BY <3>1, <3>2, <3>3, OrderedFacts, Types, UpSeq
      <3>6. \A r \in Requests : Has(up', r) => Has(up, r) \/ r = call.req
        BY <3>1, <3>2, SeqFacts
      <3> QED BY <3>1, <3>4, <3>5, <3>6
    <2> QED BY <2>1, <2>2
  <1>3. CASE PluginReads
    <2>1. up # <<>> /\ plug' = Head(up) /\ up' = Tail(up)
      BY <1>3 DEF PluginReads
    <2> QED BY <2>1, OrderedFacts, Types, UpSeq
  <1>4. CASE PluginAnswers
    <2>1. up' = up /\ plug' \in {plug, NoReq}
      BY <1>4 DEF PluginAnswers
    <2>2. \A r \in Requests : Has(up, r) => r.id >= 1
      BY DEF NewReqs, NewReq, Sound
    <2>3. NoReq.id = 0
      BY DEF NoReq
    <2> QED BY <2>1, <2>2, <2>3, Types
  <1>5. CASE PluginRemoves
    <2>1. up' = up /\ plug' \in {plug, NoReq}
      BY <1>5 DEF PluginRemoves
    <2>2. \A r \in Requests : Has(up, r) => r.id >= 1
      BY DEF NewReqs, NewReq, Sound
    <2>3. NoReq.id = 0
      BY DEF NoReq
    <2> QED BY <2>1, <2>2, <2>3, Types
  <1>6. CASE Block \/ ReadFails \/ CallCancelled \/ TakeLife \/ TakeStarted \/
            TakeStartError \/ TakeStopped \/ GraceEnds \/ TakeStopError \/ TakeDone \/
            Return \/ CloseClient \/ CloseKills \/ CloseReturns
    BY <1>1, <1>6 DEF Block, ReadFails, CallCancelled, TakeLife, TakeStarted,
       TakeStartError, TakeStopped, GraceEnds, TakeStopError, TakeDone, Return, CloseClient,
       CloseKills, CloseReturns
  <1>7. CASE PumpEvent \/ PumpFinds \/ PumpDelivers \/ PumpLife \/ PumpUnexpected \/
            PumpFailsTasks \/ PumpKills \/ PumpEnds \/ PumpExits
    BY <1>1, <1>7 DEF PumpEvent, PumpFinds, PumpDelivers, PumpLife, PumpUnexpected,
       PumpFailsTasks, PumpKills, PumpEnds, PumpExits
  <1>8. CASE PluginLife \/ PluginBad \/ PluginDies \/ CtxEnds \/ (\E k \in Kinds, t \in
            Tasks \cup {NoTask} : CallRefused(k, t)) \/ (\E k \in Kinds, t \in Tasks \cup
            {NoTask} : Call(k, t)) \/ (\E t \in Tasks : PluginEvent(t))
    BY <1>1, <1>8 DEF PluginLife, PluginBad, PluginDies, CtxEnds, CallRefused, Call,
       PluginEvent
  <1>9. CASE Closed \/ UNCHANGED vars
    BY <1>1, <1>9 DEF Closed, vars
  <1> QED BY <1>2, <1>3, <1>4, <1>5, <1>6, <1>7, <1>8, <1>9
         DEF Next, Caller, Pump, Plugin

\* and those the plugin has not answered are new to it.
LEMMA NewReqsStep ==
  ASSUME Domains, RequestInv, TaskInv, [Next]_vars
  PROVE  NewReqs'
  <1> USE DEF RequestInv, NewReqs, callVars, ctxVars, taskVars, procVars, plugVars, histVars
  <1>1. CASE UNCHANGED <<call, seq, startId, up, plug, srv>>
    BY <1>1 DEF NewReq, Sound
  <1>2. CASE Moves /\ UNCHANGED <<seq, up, plug, srv, startId>>
    BY <1>2 DEF Moves, NewReq, Sound
  <1>3. CASE WriteRequest
    <2>1. Moves /\ UNCHANGED <<seq, plug, srv, startId>> /\ call.at = "write"
      BY <1>3, CallerMoves DEF WriteRequest
    <2>2. \A r \in Requests : Has(up', r) => Has(up, r) \/ r = call.req
      <3>1. up' = up \/ up' = Append(up, call.req)
        BY <1>3 DEF WriteRequest
      <3>2. \A r \in Requests : Has(Append(up, call.req), r) <=> Has(up, r) \/ r = call.req
        BY UpSeq, Types, AppendFacts
      <3> QED BY <3>1, <3>2
    <2>3. NewReq(call.req)'
      BY <2>1 DEF CallReq, NewReq, Moves, Sound
    <2>4. \A r \in Requests : NewReq(r) => NewReq(r)'
      BY <2>1 DEF NewReq, Moves, Sound
    <2> QED BY <2>1, <2>2, <2>3, <2>4 DEF Moves
  <1>4. CASE Return
    <2>1. UNCHANGED <<seq, up, plug, srv, startId>> /\ call'.req.id = 0
      BY <1>4 DEF Return, Idle, NoReq
    <2> QED BY <2>1, Types DEF NewReq, Sound
  <1>5. CASE CloseClient
    <2>1. UNCHANGED <<seq, up, plug, srv, startId>> /\ call'.req.id = 0
      BY <1>5 DEF CloseClient, Idle, NoReq
    <2> QED BY <2>1, Types DEF NewReq, Sound
  <1>6. CASE CloseReturns
    <2>1. UNCHANGED <<seq, up, plug, srv, startId>> /\ call'.req = call.req /\ call'.at = "closed"
      BY <1>6, Types DEF CloseReturns, Goto
    <2> QED BY <2>1 DEF NewReq, Sound
  <1>7. CASE PluginReads
    <2>1. /\ UNCHANGED <<call, seq, srv, startId>>
          /\ up # <<>> /\ plug' = Head(up) /\ up' = Tail(up)
      BY <1>7 DEF PluginReads
    <2>2. \A r \in Requests : NewReq(r) => NewReq(r)'
      BY <2>1 DEF NewReq, Sound
    <2> QED BY <2>1, <2>2, SeqFacts
  <1>8. CASE PluginAnswers
    <2>1. UNCHANGED <<call, seq, up, startId>>
      BY <1>8 DEF PluginAnswers
    <2>2. \A r \in Requests : Sound(r) => Sound(r)'
      BY <2>1 DEF Sound
    <2>3. ASSUME NEW r \in Requests, Has(up', r) \/ (plug' = r /\ r # NoReq)
          PROVE  NewReq(r)'
      <3>1. Has(up, r) \/ (plug = r /\ r # NoReq)
        BY <1>8, <2>1, <2>3, ServerMoves
      <3>2. NewReq(r) /\ Sound(r) /\ Sound(r)'
        BY <2>2, <3>1 DEF NewReq
      <3>3. ASSUME r.kind = "start", srv'[r.t] # srv[r.t] PROVE FALSE
        <4>1. r.t \in Tasks /\ srv[r.t] = "none" /\ startId[r.t] = r.id
          BY <3>2, <3>3 DEF NewReq, Sound
        <4>2. /\ plug \in Requests \ {NoReq} /\ plug.t = r.t
              /\ plug.kind = "start" /\ plug' = NoReq
          BY <1>8, <3>3, <4>1, ServerMoves
        <4>3. Sound(plug)
          BY <4>2 DEF NewReq
        <4>4. plug.id = r.id
          BY <4>1, <4>2, <4>3 DEF Sound
        <4> QED BY <2>1, <2>3, <4>2, <4>4, Types DEF UpOrder
      <3> QED BY <2>1, <3>2, <3>3 DEF NewReq
    <2> QED BY <2>3
  <1>9. CASE PluginRemoves
    <2>1. UNCHANGED <<call, seq, up, startId>>
      BY <1>9 DEF PluginRemoves
    <2>2. \A r \in Requests : Sound(r) => Sound(r)'
      BY <2>1 DEF Sound
    <2>3. ASSUME NEW r \in Requests, Has(up', r) \/ (plug' = r /\ r # NoReq)
          PROVE  NewReq(r)'
      <3>1. Has(up, r) \/ (plug = r /\ r # NoReq)
        BY <1>9, <2>1, <2>3, ServerMoves
      <3>2. NewReq(r) /\ Sound(r) /\ Sound(r)'
        BY <2>2, <3>1 DEF NewReq
      <3>3. ASSUME r.kind = "start", srv'[r.t] # srv[r.t] PROVE FALSE
        <4>1. r.t \in Tasks /\ srv[r.t] = "none"
          BY <3>2, <3>3 DEF NewReq, Sound
        <4>2. srv[r.t] = "flushing"
          BY <1>9, <3>3, <4>1, ServerMoves DEF PluginRemoves
        <4> QED BY <4>1, <4>2
      <3> QED BY <2>1, <3>2, <3>3 DEF NewReq
    <2> QED BY <2>3
  <1>10. ASSUME NEW k \in Kinds, NEW t \in Tasks \cup {NoTask}, Call(k, t)
        PROVE  NewReqs'
    <2>1. /\ seq' = seq + 1 /\ UNCHANGED <<up, plug, srv>>
          /\ call'.req.id = seq + 1
      BY <1>10 DEF Call
    <2>2. \A u \in Tasks : startId'[u] # startId[u] => startId[u] = 0 /\ startId'[u] # 0
      BY <1>10, Types DEF Call, Domains, TaskDomain
    <2>3. \A r \in Requests : NewReq(r) => NewReq(r)'
      <3>1. \A r \in Requests : Sound(r) => Sound(r)'
        BY <2>1, <2>2, Types DEF Sound
      <3> QED BY <2>1, <3>1, Types DEF NewReq, Sound
    <2> QED BY <2>1, <2>3
  <1>11. CASE Block \/ ReadFails \/ CallCancelled \/ TakeLife \/ TakeStarted \/
            TakeStartError \/ TakeStopped \/ GraceEnds \/ TakeStopError \/ TakeDone
    BY <1>2, <1>11, CallerMoves DEF Block, ReadFails, CallCancelled, TakeLife, TakeStarted,
       TakeStartError, TakeStopped, GraceEnds, TakeStopError, TakeDone
  <1>12. CASE CloseKills
    BY <1>1, <1>12 DEF CloseKills
  <1>13. CASE PumpEvent \/ PumpFinds \/ PumpDelivers \/ PumpLife \/ PumpUnexpected \/
            PumpFailsTasks \/ PumpKills \/ PumpEnds \/ PumpExits
    BY <1>1, <1>13 DEF PumpEvent, PumpFinds, PumpDelivers, PumpLife, PumpUnexpected,
       PumpFailsTasks, PumpKills, PumpEnds, PumpExits
  <1>14. CASE PluginLife \/ PluginBad \/ PluginDies \/ CtxEnds \/ (\E k \in Kinds, t \in
            Tasks \cup {NoTask} : CallRefused(k, t)) \/ (\E t \in Tasks : PluginEvent(t))
    BY <1>1, <1>14 DEF PluginLife, PluginBad, PluginDies, CtxEnds, CallRefused, PluginEvent
  <1>15. CASE Closed \/ UNCHANGED vars
    BY <1>1, <1>15 DEF Closed, vars
  <1> QED BY <1>2, <1>3, <1>4, <1>5, <1>6, <1>7, <1>8, <1>9, <1>10, <1>11, <1>12, <1>13,
             <1>14, <1>15
         DEF Next, Caller, Pump, Plugin

\* Tasks that have been started are failed, or no task is.
Fails == \/ \E S \in SUBSET {t \in Tasks : startId[t] # 0} : Finish(S, "err")
         \/ UNCHANGED <<starts, byId, finished, done>>

\* What finishing tasks does to each task.
LEMMA FinishFacts ==
  ASSUME Domains, NEW S \in SUBSET Tasks, NEW v \in {"err", "nil"}, Finish(S, v)
  PROVE  \A t \in Tasks :
           /\ t \in finished' <=> t \in finished \cup S
           /\ t \in starts' <=> t \in starts \ S
           /\ t \in byId' <=> t \in byId \ S
           /\ done'[t] = IF t \in S /\ done[t] = "none" THEN v ELSE done[t]
  BY DEF Finish, CompleteDone

\* The task of a call has been started.
LEMMA CallTasksFacts ==
  ASSUME Domains, RequestInv, call.at \in Active
  PROVE  /\ CallTasks \in SUBSET {t \in Tasks : startId[t] # 0}
         /\ \A t \in CallTasks : t = call.req.t
  BY NoTaskAssumption DEF RequestInv, CallReq, Sound, CallTasks

\* These steps finish started tasks with an error, or none.
LEMMA TasksFail ==
  ASSUME Domains, RequestInv, TaskInv,
         \/ WriteRequest \/ Block \/ ReadFails \/ CallCancelled \/ TakeLife
         \/ TakeStartError \/ TakeStopError \/ TakeStopped \/ TakeDone
         \/ (\E k \in Kinds, t \in Tasks \cup {NoTask} : CallRefused(k, t))
         \/ PumpLife \/ PumpFailsTasks \/ PumpExits
  PROVE  Fails
  <1>1. ASSUME call.at \in Active, FailCall PROVE Fails
    BY <1>1, CallTasksFacts DEF Fails, FailCall
  <1>2. CASE WriteRequest \/ Block \/ ReadFails \/ CallCancelled
    <2>1. call.at \in Active
      BY <1>2 DEF WriteRequest, Block, ReadFails, CallCancelled, Active, Waiting
    <2>2. FailCall \/ UNCHANGED <<starts, byId, finished, done>>
      BY <1>2 DEF WriteRequest, Block, ReadFails, CallCancelled, taskVars
    <2> QED BY <1>1, <2>1, <2>2 DEF Fails
  <1>3. CASE TakeLife \/ TakeStartError \/ TakeStopError \/ TakeStopped \/ TakeDone
    <2>1. call.at \in Active
      BY <1>3 DEF TakeLife, TakeStartError, TakeStopError, TakeStopped, TakeDone, Take,
         Active, Waiting
    <2>2. FailCall \/ UNCHANGED <<starts, byId, finished, done>>
      BY <1>3 DEF TakeLife, TakeStartError, TakeStopError, TakeStopped, TakeDone, taskVars,
         FailStop
    <2> QED BY <1>1, <2>1, <2>2 DEF Fails
  <1>4. ASSUME NEW k \in Kinds, NEW t \in Tasks \cup {NoTask}, CallRefused(k, t) PROVE Fails
    <2>1. CASE k = "stop"
      <3>1. Finish({t}, "err") /\ t \in returned
        BY <1>4, <2>1 DEF CallRefused
      <3>2. t \in Tasks /\ startId[t] # 0
        BY <3>1 DEF Domains, TaskDomain, TaskInv, TaskSound
      <3> QED BY <3>1, <3>2 DEF Fails
    <2>2. CASE k # "stop"
      BY <1>4, <2>2 DEF CallRefused, Fails
    <2> QED BY <2>1, <2>2
  <1>5. CASE PumpLife
    <2>1. PICK t \in Starter(Head(down).id) :
            Finish({t}, "err") \/ UNCHANGED <<starts, byId, finished, done>>
      BY <1>5 DEF PumpLife
    <2>2. t \in Tasks /\ startId[t] # 0
      BY <2>1 DEF Starter, TaskInv, TaskSound
    <2> QED BY <2>1, <2>2 DEF Fails
  <1>6. CASE PumpFailsTasks \/ PumpExits
    <2>1. AllTasks \in SUBSET {t \in Tasks : startId[t] # 0}
      BY DEF AllTasks, TaskInv, TaskSound, Domains, TaskDomain
    <2> QED BY <1>6, <2>1 DEF PumpFailsTasks, PumpExits, Fails
  <1> QED BY <1>2, <1>3, <1>4, <1>5, <1>6

-----------------------------------------------------------------------------
(* The tasks and their Done.                                               *)

\* A StartResponse taken by the call has answered its start.
LEMMA StartAnswered ==
  ASSUME Domains, RequestInv, FrameInv, TakeStarted
  PROVE  call.req.kind = "start" /\ call.req.t \in Tasks /\ startId[call.req.t] # 0
  <1>1. /\ Head(queue) \in AnyFrame /\ Has(queue, Head(queue))
        /\ Head(queue).kind = "started" /\ call.at \in Active
    BY SeqFacts DEF TakeStarted, Take, Active, Waiting
  <1>2. call.req.kind = "start"
    BY <1>1 DEF FrameInv, Frames, QueueIds, FrameSound, OnWay, InHand
  <1> QED BY <1>1, <1>2 DEF RequestInv, CallReq, Sound

\* The host knows the tasks it has started.
LEMMA TaskStep ==
  ASSUME Domains, RequestInv, TaskInv, FrameInv, [Next]_vars
  PROVE  TaskInv'
  <1> USE DEF TaskInv, callVars, ctxVars, taskVars, procVars, plugVars, histVars
  <1>1. CASE UNCHANGED <<call, seq, startId, starts, byId, finished, done, returned, srv,
        evented>>
    BY <1>1 DEF TaskSound
  <1>2. CASE Fails /\ call'.req = call.req /\ UNCHANGED <<startId, seq, srv, evented,
          returned>>
    <2>1. CASE UNCHANGED <<starts, byId, finished, done>>
      BY <1>2, <2>1 DEF TaskSound
    <2>2. ASSUME NEW S \in SUBSET {t \in Tasks : startId[t] # 0}, Finish(S, "err")
          PROVE  TaskInv'
      <3>1. \A t \in Tasks :
              /\ t \in finished' <=> t \in finished \cup S
              /\ t \in starts' <=> t \in starts \ S
              /\ t \in byId' <=> t \in byId \ S
              /\ done'[t] = IF t \in S /\ done[t] = "none" THEN "err" ELSE done[t]
        BY <2>2, FinishFacts
      <3> QED BY <1>2, <2>2, <3>1 DEF TaskSound
    <2> QED BY <1>2, <2>1, <2>2 DEF Fails
  <1>3. CASE TakeStarted
    <2>1. Moves /\ UNCHANGED <<startId, seq, starts, finished, srv, evented, done>>
      BY <1>3, CallerMoves DEF TakeStarted
    <2>2. call.req.t \in Tasks /\ startId[call.req.t] # 0
      BY <1>3, StartAnswered
    <2>3. \A t \in Tasks : t \in returned' \cup byId' => t \in returned \cup byId \/ t = call.req.t
      BY <1>3 DEF TakeStarted, RegisterId
    <2>4. \A t \in Tasks : t \in returned' \cup byId' => startId[t] # 0
      BY <2>2, <2>3 DEF TaskSound
    <2> QED BY <2>1, <2>4 DEF Moves, TaskSound
  <1>4. CASE GraceEnds
    <2>1. Moves /\ UNCHANGED <<startId, seq, srv, evented, returned>> /\ Finish(CallTasks, "nil")
      BY <1>4, CallerMoves DEF GraceEnds
    <2>2. CallTasks \in SUBSET {t \in Tasks : startId[t] # 0}
      BY <2>1, CallTasksFacts DEF Moves
    <2>3. \A t \in Tasks :
            /\ t \in finished' <=> t \in finished \cup CallTasks
            /\ t \in starts' <=> t \in starts \ CallTasks
            /\ t \in byId' <=> t \in byId \ CallTasks
            /\ done'[t] = IF t \in CallTasks /\ done[t] = "none" THEN "nil" ELSE done[t]
      BY <2>1, <2>2, FinishFacts
    <2> QED BY <2>1, <2>2, <2>3 DEF Moves, TaskSound
  <1>5. CASE Return
    <2>1. /\ UNCHANGED <<startId, seq, starts, finished, srv, evented, done, returned, byId>>
          /\ call'.req.kind = "none"
      BY <1>5 DEF Return, Idle, NoReq
    <2> QED BY <2>1 DEF TaskSound
  <1>6. CASE CloseClient
    <2>1. /\ UNCHANGED <<startId, seq, starts, finished, srv, evented, done, returned, byId>>
          /\ call'.req.kind = "none"
      BY <1>6 DEF CloseClient, Idle, NoReq
    <2> QED BY <2>1 DEF TaskSound
  <1>7. CASE CloseReturns
    <2>1. /\ UNCHANGED <<startId, seq, starts, finished, srv, evented, done, returned, byId>>
          /\ call'.req = call.req
      BY <1>7 DEF CloseReturns, Goto
    <2> QED BY <2>1 DEF TaskSound
  <1>8. CASE PumpEvent
    <2>1. UNCHANGED <<call, startId, seq, starts, finished, srv, evented, returned, byId>>
      BY <1>8 DEF PumpEvent
    <2>2. \A t \in Tasks : done[t] # "none" => done'[t] # "none"
      BY <1>8 DEF PumpEvent, CompleteDone
    <2> QED BY <2>1, <2>2 DEF TaskSound
  <1>9. CASE PluginAnswers
    <2>1. UNCHANGED <<call, startId, seq, starts, finished, evented, done, returned, byId>>
      BY <1>9 DEF PluginAnswers
    <2>2. ASSUME NEW t \in Tasks, srv'[t] # srv[t] PROVE srv'[t] # "none" /\ startId[t] # 0
      <3>1. t = plug.t /\ plug.kind \in {"start", "stop"} /\ plug \in Requests \ {NoReq} /\ srv'[t] # "none"
        BY <1>9, <2>2, ServerMoves
      <3> QED BY <3>1 DEF RequestInv, NewReqs, NewReq, Sound
    <2> QED BY <2>1, <2>2 DEF TaskSound
  <1>10. CASE PluginRemoves
    <2>1. UNCHANGED <<call, startId, seq, starts, finished, evented, done, returned, byId>>
      BY <1>10 DEF PluginRemoves
    <2>2. ASSUME NEW t \in Tasks, srv'[t] # srv[t] PROVE srv'[t] # "none" /\ srv[t] # "none"
      BY <1>10, <2>2, ServerMoves DEF PluginRemoves
    <2> QED BY <2>1, <2>2 DEF TaskSound
  <1>11. ASSUME NEW k \in Kinds, NEW t \in Tasks \cup {NoTask}, CallRefused(k, t)
        PROVE  TaskInv'
    BY <1>2, <1>11, TasksFail DEF CallRefused
  <1>12. ASSUME NEW k \in Kinds, NEW t \in Tasks \cup {NoTask}, Call(k, t)
        PROVE  TaskInv'
    <2>1. /\ UNCHANGED <<finished, srv, evented, done, returned, byId>>
          /\ seq' = seq + 1 /\ call'.req.id = seq + 1 /\ call'.req.kind = k
      BY <1>12 DEF Call
    <2>2. CASE k = "start"
      <3>1. t \in Tasks /\ startId[t] = 0 /\ starts' = starts \cup {t}
        BY <1>12, <2>2 DEF Call, RegisterStart
      <3>2. \A u \in Tasks : startId'[u] = IF u = t THEN seq + 1 ELSE startId[u]
        BY <1>12, <2>2, <3>1 DEF Call, Domains, TaskDomain
      <3>3. \A u \in Tasks : TaskSound(u)'
        BY <2>1, <2>2, <3>1, <3>2, Types DEF TaskSound
      <3>4. \A u, v \in Tasks : startId'[u] = startId'[v] /\ startId'[u] # 0 => u = v
        BY <3>2, Types DEF TaskSound
      <3> QED BY <3>3, <3>4
    <2>3. CASE k # "start"
      <3>1. UNCHANGED <<startId, starts>>
        BY <1>12, <2>3 DEF Call, Kinds
      <3> QED BY <2>1, <3>1, Types DEF TaskSound
    <2> QED BY <2>2, <2>3
  <1>13. ASSUME NEW t \in Tasks, PluginEvent(t) PROVE TaskInv'
    <2>1. /\ UNCHANGED <<call, startId, seq, starts, finished, srv, done, returned, byId>>
          /\ srv[t] # "none"
      BY <1>13 DEF PluginEvent
    <2>2. \A u \in Tasks : evented'[u] # evented[u] => u = t
      BY <1>13 DEF PluginEvent, Domains, PlugDomain
    <2> QED BY <2>1, <2>2 DEF TaskSound
  <1>14. CASE WriteRequest \/ Block \/ ReadFails \/ CallCancelled \/ TakeLife
    BY <1>2, <1>14, TasksFail, CallerMoves DEF Moves, WriteRequest, Block, ReadFails,
       CallCancelled, TakeLife
  <1>15. CASE TakeStartError \/ TakeStopped \/ TakeStopError \/ TakeDone
    BY <1>2, <1>15, TasksFail, CallerMoves DEF Moves, TakeStartError, TakeStopped,
       TakeStopError, TakeDone
  <1>16. CASE PumpLife \/ PumpFailsTasks \/ PumpExits
    BY <1>2, <1>16, TasksFail DEF PumpLife, PumpFailsTasks, PumpExits
  <1>17. CASE CloseKills
    BY <1>1, <1>17 DEF CloseKills
  <1>18. CASE PumpFinds \/ PumpDelivers \/ PumpUnexpected \/ PumpKills \/ PumpEnds
    BY <1>1, <1>18 DEF PumpFinds, PumpDelivers, PumpUnexpected, PumpKills, PumpEnds
  <1>19. CASE PluginReads \/ PluginLife \/ PluginBad \/ PluginDies \/ CtxEnds
    BY <1>1, <1>19 DEF PluginReads, PluginLife, PluginBad, PluginDies, CtxEnds
  <1>20. CASE Closed \/ UNCHANGED vars
    BY <1>1, <1>20 DEF Closed, vars
  <1> QED BY <1>2, <1>3, <1>4, <1>5, <1>6, <1>7, <1>8, <1>9, <1>10, <1>11, <1>12, <1>13,
             <1>14, <1>15, <1>16, <1>17, <1>18, <1>19, <1>20
         DEF Next, Caller, Pump, Plugin

\* Done is put on tasks, and tasks are finished, for good.
LEMMA FailsKeep ==
  ASSUME Domains, Fails
  PROVE  /\ finished \subseteq finished'
         /\ \A t \in Tasks : done'[t] # done[t] => done[t] = "none" /\ done'[t] = "err"
  <1>1. ASSUME NEW S \in SUBSET {t \in Tasks : startId[t] # 0}, Finish(S, "err")
        PROVE  /\ finished \subseteq finished'
               /\ \A t \in Tasks : done'[t] # done[t] => done[t] = "none" /\ done'[t] = "err"
    <2>1. S \in SUBSET Tasks
      OBVIOUS
    <2>2. finished \subseteq finished'
      BY <1>1 DEF Finish
    <2>3. \A t \in Tasks : done'[t] = IF t \in S /\ done[t] = "none" THEN "err" ELSE done[t]
      BY <1>1, <2>1, FinishFacts
    <2> QED BY <2>2, <2>3
  <1> QED BY <1>1 DEF Fails

\* The pump leaves no returned task unfinished when it ends.
LEMMA ExitStep ==
  ASSUME Domains, RequestInv, TaskInv, FrameInv, ExitInv, [Next]_vars
  PROVE  ExitInv'
  <1> USE DEF ExitInv, callVars, ctxVars, taskVars, procVars, plugVars, histVars
  <1>1. CASE UNCHANGED <<call, queue, pump, finished, returned>>
    BY <1>1
  <1>2. CASE finished \subseteq finished' /\ UNCHANGED <<pump, returned>> /\ call'.req =
          call.req /\ (queue' # <<>> => queue # <<>>)
    BY <1>2
  <1>3. CASE pump'.at # "exited"
    BY <1>3
  <1>4. CASE TakeStarted
    <2>1. UNCHANGED <<pump, finished>> /\ queue # <<>> /\ call'.req = call.req
      BY <1>4, CallerMoves DEF TakeStarted, Take, Moves
    <2>2. call.req.kind = "start" /\ returned' = returned \cup {call.req.t}
      BY <1>4, StartAnswered DEF TakeStarted
    <2> QED BY <2>1, <2>2
  <1>5. CASE GraceEnds
    <2>1. finished \subseteq finished'
      BY <1>5 DEF GraceEnds, Finish
    <2> QED BY <1>2, <1>5, <2>1, CallerMoves DEF GraceEnds, Moves
  <1>6. CASE Return
    BY <1>6 DEF Return
  <1>7. CASE CloseClient
    BY <1>7 DEF CloseClient, Idle, NoReq
  <1>8. CASE CloseReturns
    BY <1>8 DEF CloseReturns, Goto
  <1>9. CASE PumpExits
    <2>1. UNCHANGED <<call, queue, returned>> /\ finished' = finished \cup starts \cup byId
      BY <1>9 DEF PumpExits, Finish, AllTasks
    <2>2. \A t \in Tasks : startId[t] # 0 => t \in finished'
      BY <2>1 DEF TaskInv, TaskSound
    <2>3. returned \subseteq finished'
      BY <2>2 DEF TaskInv, TaskSound, Domains, TaskDomain
    <2>4. call.req.kind = "start" => call.req.t \in Tasks /\ startId[call.req.t] # 0
      BY DEF RequestInv, CallReq, Sound, NoReq
    <2> QED BY <2>1, <2>2, <2>3, <2>4
  <1>10. ASSUME NEW k \in Kinds, NEW t \in Tasks \cup {NoTask}, CallRefused(k, t)
        PROVE  ExitInv'
    BY <1>2, <1>10, TasksFail, FailsKeep DEF CallRefused
  <1>11. ASSUME NEW k \in Kinds, NEW t \in Tasks \cup {NoTask}, Call(k, t)
        PROVE  ExitInv'
    BY <1>11 DEF Call
  <1>12. CASE WriteRequest \/ Block \/ ReadFails \/ CallCancelled \/ TakeLife
    BY <1>2, <1>12, TasksFail, CallerMoves, FailsKeep DEF Moves, Take, WriteRequest, Block,
       ReadFails, CallCancelled, TakeLife
  <1>13. CASE TakeStartError \/ TakeStopped \/ TakeStopError \/ TakeDone
    BY <1>2, <1>13, TasksFail, CallerMoves, FailsKeep DEF Moves, Take, callVars,
       TakeStartError, TakeStopped, TakeStopError, TakeDone
  <1>14. CASE PumpFinds \/ PumpDelivers \/ PumpLife \/ PumpUnexpected
    BY <1>3, <1>14, Types DEF PumpGoes, Reading, PumpFinds, PumpDelivers, PumpLife,
       PumpUnexpected
  <1>15. CASE PumpFailsTasks \/ PumpKills \/ PumpEnds
    BY <1>3, <1>15, Types DEF PumpGoes, Reading, PumpFailsTasks, PumpKills, PumpEnds
  <1>16. CASE CloseKills
    BY <1>1, <1>16 DEF CloseKills
  <1>17. CASE PumpEvent
    BY <1>1, <1>17 DEF PumpEvent
  <1>18. CASE PluginReads \/ PluginAnswers \/ PluginRemoves \/ PluginLife \/ PluginBad \/
            PluginDies \/ CtxEnds \/ (\E t \in Tasks : PluginEvent(t))
    BY <1>1, <1>18 DEF PluginReads, PluginAnswers, PluginRemoves, PluginLife, PluginBad,
       PluginDies, CtxEnds, PluginEvent
  <1>19. CASE Closed \/ UNCHANGED vars
    BY <1>1, <1>19 DEF Closed, vars
  <1> QED BY <1>2, <1>3, <1>4, <1>5, <1>6, <1>7, <1>8, <1>9, <1>10, <1>11, <1>12, <1>13,
             <1>14, <1>15, <1>16, <1>17, <1>18, <1>19
         DEF Next, Caller, Pump, Plugin

-----------------------------------------------------------------------------
(* The frames on their way.                                                *)

\* The plugin writes f.
Sent(f) ==
  /\ PluginAnswers \/ PluginLife \/ PluginBad \/ (\E t \in Tasks : PluginEvent(t))
  /\ down' = Append(down, f)

\* What the queue holds after a frame is added or taken.
LEMMA QueueFacts ==
  ASSUME Domains
  PROVE  /\ \A x \in AnyFrame : \A y : Has(Append(queue, x), y) => Has(queue, y) \/ y = x
         /\ queue # <<>> => \A y : Has(Tail(queue), y) => Has(queue, y)
         /\ ErrFrame \in AnyFrame /\ \A y : ~Has(<<>>, y)
  <1>1. \A x \in AnyFrame : \A y : Has(Append(queue, x), y) => Has(queue, y) \/ y = x
    BY SeqFacts
  <1>2. queue # <<>> => \A y : Has(Tail(queue), y) => Has(queue, y)
    BY SeqFacts
  <1>3. ErrFrame \in AnyFrame /\ \A y : ~Has(<<>>, y)
    BY SeqFacts
  <1> QED BY <1>1, <1>2, <1>3

\* The plugin writes one frame at a time, and touches nothing of the host.
LEMMA PluginSends ==
  ASSUME Domains, PluginAnswers \/ PluginLife \/ PluginBad \/ (\E t \in Tasks : PluginEvent(t))
  PROVE  UNCHANGED <<queue, pump>> /\ \E f \in AnyFrame : Sent(f)
  <1> USE DEF callVars
  <1>1. CASE PluginAnswers
    <2>1. \A x \in FrameKinds : Frame(plug.id, x) \in AnyFrame
      BY DEF Domains, PlugDomain, Requests, Frame, AnyFrame
    <2>2. \E x \in FrameKinds : down' = Append(down, Frame(plug.id, x))
      BY <1>1 DEF PluginAnswers, Send, FrameKinds
    <2> QED BY <1>1, <2>1, <2>2 DEF PluginAnswers, Sent
  <1>2. CASE PluginLife
    <2>1. PICK i \in 0..MaxCalls : down' = Append(down, Frame(i, "life"))
      BY <1>2 DEF PluginLife, Send, Domains, PlugDomain, TaskDomain, Requests
    <2>2. Frame(i, "life") \in AnyFrame
      BY DEF Frame, AnyFrame, FrameKinds
    <2> QED BY <1>2, <2>1, <2>2 DEF PluginLife, Sent
  <1>3. CASE PluginBad
    <2>1. Frame(0, "bad") \in AnyFrame
      BY BoundsAssumption DEF Frame, AnyFrame, FrameKinds
    <2> QED BY <1>3, <2>1 DEF PluginBad, Send, Sent
  <1>4. ASSUME NEW t \in Tasks, PluginEvent(t)
        PROVE  UNCHANGED <<queue, pump>> /\ \E f \in AnyFrame : Sent(f)
    <2>1. PICK k \in {"fatal", "completed"} : down' = Append(down, Frame(startId[t], k))
      BY <1>4 DEF PluginEvent, Send
    <2>2. Frame(startId[t], k) \in AnyFrame
      BY DEF Frame, AnyFrame, FrameKinds, Domains, TaskDomain
    <2> QED BY <1>4, <2>1, <2>2 DEF PluginEvent, Sent
  <1> QED BY <1>1, <1>2, <1>3, <1>4

\* A frame on its way has been, or was written in this step, or is an error the host
\* made itself.
LEMMA OnWayMoves ==
  ASSUME Domains, [Next]_vars
  PROVE  \A f \in AnyFrame : OnWay(f)' =>
            OnWay(f) \/ (f = ErrFrame /\ pump'.at \notin {"read", "deliver"}) \/ Sent(f)
  <1> USE DEF OnWay, InHand, callVars, ctxVars, taskVars, procVars, plugVars, histVars
  <1>1. CASE UNCHANGED <<queue, pump, down>>
    BY <1>1
  <1>2. CASE UNCHANGED <<pump, down>> /\ \A f \in AnyFrame : Has(queue', f) => Has(queue, f)
    BY <1>2
  <1>3. CASE PumpEvent
    <2>1. UNCHANGED <<queue, pump>> /\ down # <<>> /\ down' = Tail(down)
      BY <1>3 DEF PumpEvent
    <2> QED BY <2>1, SeqFacts
  <1>4. CASE PumpFinds
    <2>1. /\ queue' = queue /\ down # <<>> /\ down' = Tail(down)
          /\ pump'.frame = Head(down)
      BY <1>4 DEF PumpFinds, PumpGoes
    <2> QED BY <2>1, SeqFacts
  <1>5. CASE PumpDelivers
    <2>1. \A f \in AnyFrame : Has(queue', f) =>
            \/ Has(queue, f) \/ f = pump.frame
            \/ f = ErrFrame /\ pump'.at \notin {"read", "deliver"}
      BY <1>5, Types, QueueFacts DEF PumpDelivers, FailWaiters, PumpGoes
    <2>2. pump'.at # "deliver" /\ pump.at = "deliver" /\ down' = down
      BY <1>5 DEF PumpDelivers, PumpGoes, Reading
    <2> QED BY <2>1, <2>2
  <1>6. CASE PumpLife
    <2>1. UNCHANGED <<queue, pump>> /\ down # <<>> /\ down' = Tail(down)
      BY <1>6 DEF PumpLife
    <2> QED BY <2>1, SeqFacts
  <1>7. CASE PumpUnexpected
    <2>1. queue' \in {queue, Append(queue, ErrFrame)}
      BY <1>7 DEF PumpUnexpected, FailWaiters
    <2>2. \A f \in AnyFrame : Has(queue', f) => Has(queue, f) \/ f = ErrFrame
      BY <2>1, QueueFacts
    <2>3. \A f \in AnyFrame : Has(down', f) => Has(down, f)
      BY <1>7, SeqFacts DEF PumpUnexpected
    <2>4. pump'.at \notin {"read", "deliver"}
      BY <1>7 DEF PumpUnexpected, PumpGoes
    <2> QED BY <2>2, <2>3, <2>4
  <1>8. CASE PumpFailsTasks
    BY <1>8 DEF PumpFailsTasks, PumpGoes
  <1>9. CASE PumpKills
    BY <1>9 DEF PumpKills, Reading
  <1>10. CASE PumpEnds
    <2>1. queue' \in {queue, Append(queue, ErrFrame)}
      BY <1>10 DEF PumpEnds, FailWaiters
    <2>2. \A f \in AnyFrame : Has(queue', f) => Has(queue, f) \/ f = ErrFrame
      BY <2>1, QueueFacts
    <2>3. \A f \in AnyFrame : Has(down', f) => Has(down, f)
      BY <1>10, SeqFacts DEF PumpEnds
    <2>4. pump'.at \notin {"read", "deliver"}
      BY <1>10 DEF PumpEnds, PumpGoes
    <2> QED BY <2>2, <2>3, <2>4
  <1>11. CASE PumpExits
    BY <1>11 DEF PumpExits, PumpGoes
  <1>12. CASE PluginAnswers
    <2>1. PICK x \in AnyFrame : Sent(x)
      BY <1>12, PluginSends
    <2> QED BY <1>12, <2>1, PluginSends, SeqFacts DEF Sent
  <1>13. CASE PluginLife
    <2>1. PICK x \in AnyFrame : Sent(x)
      BY <1>13, PluginSends
    <2> QED BY <1>13, <2>1, PluginSends, SeqFacts DEF Sent
  <1>14. CASE PluginBad
    <2>1. PICK x \in AnyFrame : Sent(x)
      BY <1>14, PluginSends
    <2> QED BY <1>14, <2>1, PluginSends, SeqFacts DEF Sent
  <1>15. ASSUME NEW k \in Kinds, NEW t \in Tasks \cup {NoTask}, Call(k, t)
        PROVE  \A f \in AnyFrame : OnWay(f)' =>
                  OnWay(f) \/ (f = ErrFrame /\ pump'.at \notin {"read", "deliver"}) \/ Sent(f)
    BY <1>15, SeqFacts DEF Call, RegisterStart
  <1>16. ASSUME NEW t \in Tasks, PluginEvent(t)
        PROVE  \A f \in AnyFrame : OnWay(f)' =>
                  OnWay(f) \/ (f = ErrFrame /\ pump'.at \notin {"read", "deliver"}) \/ Sent(f)
    <2>1. PICK x \in AnyFrame : Sent(x)
      BY <1>16, PluginSends
    <2> QED BY <1>16, <2>1, PluginSends, SeqFacts DEF Sent
  <1>17. CASE TakeLife \/ TakeStarted \/ TakeStartError
    BY <1>2, <1>17, QueueFacts DEF Take, TakeLife, TakeStarted, TakeStartError
  <1>18. CASE TakeStopped \/ TakeStopError \/ TakeDone
    BY <1>2, <1>18, QueueFacts DEF Take, TakeStopped, TakeStopError, TakeDone
  <1>19. CASE Return
    BY <1>2, <1>19, SeqFacts DEF Return
  <1>20. CASE CloseClient
    BY <1>2, <1>20 DEF CloseClient
  <1>21. CASE WriteRequest \/ Block \/ ReadFails \/ CallCancelled \/ GraceEnds \/ CloseKills
            \/ CloseReturns
    BY <1>1, <1>21 DEF WriteRequest, Block, ReadFails, CallCancelled, GraceEnds, CloseKills,
       CloseReturns
  <1>22. CASE PluginReads \/ PluginRemoves \/ PluginDies \/ CtxEnds \/ (\E k \in Kinds, t
            \in Tasks \cup {NoTask} : CallRefused(k, t))
    BY <1>1, <1>22 DEF PluginReads, PluginRemoves, PluginDies, CtxEnds, CallRefused
  <1>23. CASE Closed \/ UNCHANGED vars
    BY <1>1, <1>23 DEF Closed, vars
  <1> QED BY <1>2, <1>3, <1>4, <1>5, <1>6, <1>7, <1>8, <1>9, <1>10, <1>11, <1>12, <1>13,
             <1>14, <1>15, <1>16, <1>17, <1>18, <1>19, <1>20, <1>21, <1>22, <1>23
         DEF Next, Caller, Pump, Plugin

\* A task that is stopped stays so.
LEMMA StoppedKept ==
  ASSUME Domains, RequestInv, [Next]_vars
  PROVE  \A u \in Tasks :
           srv[u] \in {"flushing", "removed"} => srv'[u] \in {"flushing", "removed"}
  <1> USE DEF callVars, ctxVars, taskVars, procVars, plugVars, histVars
  <1>1. CASE UNCHANGED <<srv>>
    BY <1>1
  <1>2. CASE PluginAnswers
    BY <1>2, ServerMoves DEF RequestInv, NewReqs, NewReq
  <1>3. CASE PluginRemoves
    BY <1>3, ServerMoves DEF PluginRemoves
  <1>4. CASE WriteRequest \/ Block \/ ReadFails \/ CallCancelled \/ TakeLife \/ TakeStarted
            \/ TakeStartError \/ TakeStopped \/ GraceEnds \/ TakeStopError \/ TakeDone \/
            Return \/ CloseClient \/ CloseKills \/ CloseReturns
    BY <1>1, <1>4 DEF WriteRequest, Block, ReadFails, CallCancelled, TakeLife, TakeStarted,
       TakeStartError, TakeStopped, GraceEnds, TakeStopError, TakeDone, Return, CloseClient,
       CloseKills, CloseReturns
  <1>5. CASE PumpEvent \/ PumpFinds \/ PumpDelivers \/ PumpLife \/ PumpUnexpected \/
            PumpFailsTasks \/ PumpKills \/ PumpEnds \/ PumpExits
    BY <1>1, <1>5 DEF PumpEvent, PumpFinds, PumpDelivers, PumpLife, PumpUnexpected,
       PumpFailsTasks, PumpKills, PumpEnds, PumpExits
  <1>6. CASE PluginReads \/ PluginLife \/ PluginBad \/ PluginDies \/ CtxEnds \/ (\E k \in
            Kinds, t \in Tasks \cup {NoTask} : CallRefused(k, t)) \/ (\E k \in Kinds, t \in
            Tasks \cup {NoTask} : Call(k, t)) \/ (\E t \in Tasks : PluginEvent(t))
    BY <1>1, <1>6 DEF PluginReads, PluginLife, PluginBad, PluginDies, CtxEnds, CallRefused,
       Call, PluginEvent
  <1>7. CASE Closed \/ UNCHANGED vars
    BY <1>1, <1>7 DEF Closed, vars
  <1> QED BY <1>2, <1>3, <1>4, <1>5, <1>6, <1>7
         DEF Next, Caller, Pump, Plugin

\* A sound frame stays sound.
LEMMA SoundKept ==
  ASSUME Domains, RequestInv, TaskInv, NEW f \in AnyFrame, FrameSound(f), [Next]_vars
  PROVE  FrameSound(f)'
  <1> USE DEF FrameSound, StoppedCall, callVars, ctxVars, taskVars, procVars, plugVars,
          histVars
  <1>1. CASE UNCHANGED <<call, seq, startId, srv, evented>>
    BY <1>1
  <1>2. CASE UNCHANGED <<seq, srv, startId, evented>> /\ call'.req = call.req
    BY <1>2
  <1>3. CASE Return
    BY <1>3, Types DEF Return, Idle, NoReq
  <1>4. CASE CloseClient
    BY <1>4, Types DEF CloseClient, Idle, NoReq
  <1>5. CASE CloseReturns
    BY <1>5, Types DEF CloseReturns, Goto
  <1>6. CASE PluginAnswers
    <2>1. UNCHANGED <<call, seq, startId, evented>>
      BY <1>6 DEF PluginAnswers
    <2>2. \A t \in Tasks :
            srv[t] \in {"flushing", "removed"} => srv'[t] \in {"flushing", "removed"}
      BY StoppedKept
    <2>3. call.req.kind = "stop" => call.req.t \in Tasks
      BY DEF RequestInv, CallReq, Sound, NoReq
    <2> QED BY <2>1, <2>2, <2>3
  <1>7. CASE PluginRemoves
    <2>1. UNCHANGED <<call, seq, startId, evented>>
      BY <1>7 DEF PluginRemoves
    <2>2. \A t \in Tasks :
            srv[t] \in {"flushing", "removed"} => srv'[t] \in {"flushing", "removed"}
      BY StoppedKept
    <2>3. call.req.kind = "stop" => call.req.t \in Tasks
      BY DEF RequestInv, CallReq, Sound, NoReq
    <2> QED BY <2>1, <2>2, <2>3
  <1>8. ASSUME NEW k \in Kinds, NEW t \in Tasks \cup {NoTask}, Call(k, t)
        PROVE  FrameSound(f)'
    <2>1. /\ UNCHANGED <<srv, evented>>
          /\ seq' = seq + 1 /\ call'.req.id = seq + 1
      BY <1>8 DEF Call
    <2>2. \A u \in Tasks : startId'[u] # startId[u] => startId'[u] = seq + 1
      BY <1>8 DEF Call, Domains, TaskDomain
    <2> QED BY <2>1, <2>2, Types
  <1>9. ASSUME NEW t \in Tasks, PluginEvent(t) PROVE FrameSound(f)'
    <2>1. UNCHANGED <<call, seq, startId, srv>> /\ evented[t] = "none"
      BY <1>9 DEF PluginEvent
    <2>2. \A u \in Tasks : evented'[u] # evented[u] => u = t
      BY <1>9 DEF PluginEvent, Domains, PlugDomain
    <2> QED BY <2>1, <2>2
  <1>10. CASE WriteRequest \/ Block \/ ReadFails \/ CallCancelled \/ TakeLife \/ TakeStarted
            \/ TakeStartError \/ TakeStopped \/ GraceEnds \/ TakeStopError \/ TakeDone
    BY <1>2, <1>10, CallerMoves DEF Moves, WriteRequest, Block, ReadFails, CallCancelled,
       TakeLife, TakeStarted, TakeStartError, TakeStopped, GraceEnds, TakeStopError,
       TakeDone
  <1>11. CASE CloseKills
    BY <1>1, <1>11 DEF CloseKills
  <1>12. CASE PumpEvent \/ PumpFinds \/ PumpDelivers \/ PumpLife \/ PumpUnexpected \/
            PumpFailsTasks \/ PumpKills \/ PumpEnds \/ PumpExits
    BY <1>1, <1>12 DEF PumpEvent, PumpFinds, PumpDelivers, PumpLife, PumpUnexpected,
       PumpFailsTasks, PumpKills, PumpEnds, PumpExits
  <1>13. CASE PluginReads \/ PluginLife \/ PluginBad \/ PluginDies \/ CtxEnds \/ (\E k \in
            Kinds, t \in Tasks \cup {NoTask} : CallRefused(k, t))
    BY <1>1, <1>13 DEF PluginReads, PluginLife, PluginBad, PluginDies, CtxEnds, CallRefused
  <1>14. CASE Closed \/ UNCHANGED vars
    BY <1>1, <1>14 DEF Closed, vars
  <1> QED BY <1>2, <1>3, <1>4, <1>5, <1>6, <1>7, <1>8, <1>9, <1>10, <1>11, <1>12, <1>13,
             <1>14
         DEF Next, Caller, Pump, Plugin

\* What the plugin writes is sound.
LEMMA SentSound ==
  ASSUME Domains, RequestInv, TaskInv, NEW f \in AnyFrame, Sent(f)
  PROVE  FrameSound(f)'
  <1> USE DEF callVars, taskVars
  <1>3. \A g \in AnyFrame : Append(down, f) = Append(down, g) => f = g
    BY UpSeq, AppendFacts
  <1>4. CASE PluginAnswers
    <2>1. PICK k \in FrameKinds :
            /\ down' = Append(down, Frame(plug.id, k))
            /\ k \notin {"fatal", "completed"}
            /\ k = "started" => plug.kind = "start"
            /\ k = "stopped" => plug.kind = "stop" /\ srv' = [srv EXCEPT ![plug.t] = "flushing"]
      BY <1>4 DEF PluginAnswers, Send, FrameKinds
    <2>2. f = Frame(plug.id, k)
      <3>1. Frame(plug.id, k) \in AnyFrame
        BY DEF Domains, PlugDomain, Requests, Frame, AnyFrame
      <3> QED BY <1>3, <2>1, <3>1 DEF Sent
    <2>3. f.id = plug.id /\ f.kind = k
      BY <2>2 DEF Frame
    <2>4. /\ Sound(plug)
          /\ plug.id = call.req.id => plug = call.req
          /\ UNCHANGED <<call, seq>>
      BY <1>4, ServerMoves DEF RequestInv, NewReqs, NewReq, PluginAnswers
    <2>5. ASSUME k = "stopped", plug = call.req PROVE StoppedCall'
      <3>1. plug.t \in Tasks /\ srv \in [Tasks -> {"none", "active", "flushing", "removed"}]
        BY <2>1, <2>4, <2>5 DEF Sound, Domains, PlugDomain
      <3>2. srv'[plug.t] = "flushing"
        BY <2>1, <2>5, <3>1
      <3> QED BY <2>1, <2>4, <2>5, <3>2 DEF StoppedCall
    <2> QED BY <2>1, <2>3, <2>4, <2>5, Types DEF FrameSound, Sound
  <1>5. CASE PluginLife
    <2>1. PICK i \in {startId[t] : t \in {u \in Tasks : srv[u] = "active"}}
                   \cup (IF plug.kind \in {"start", "other"} THEN {plug.id} ELSE {}) :
            down' = Append(down, Frame(i, "life"))
      BY <1>5 DEF PluginLife, Send
    <2>2. i <= seq /\ i \in 0..MaxCalls
      <3>1. ASSUME plug.kind \in {"start", "other"} PROVE plug.id <= seq
        BY <3>1, Types DEF RequestInv, NewReqs, NewReq, Sound, NoReq
      <3>2. \A t \in Tasks : startId[t] <= seq /\ startId[t] \in 0..MaxCalls
        BY DEF TaskInv, TaskSound, Domains, TaskDomain
      <3>3. plug.id \in 0..MaxCalls
        BY DEF Domains, PlugDomain, Requests
      <3> QED BY <2>1, <3>1, <3>2, <3>3
    <2>3. Frame(i, "life") \in AnyFrame
      BY <2>2 DEF Frame, AnyFrame, FrameKinds
    <2>4. f.id = i /\ f.kind = "life"
      BY <1>3, <2>1, <2>3 DEF Sent, Frame
    <2> QED BY <1>5, <2>2, <2>4 DEF FrameSound, PluginLife
  <1>6. CASE PluginBad
    <2>1. Frame(0, "bad") \in AnyFrame
      BY BoundsAssumption DEF Frame, AnyFrame, FrameKinds
    <2>2. f.id = 0 /\ f.kind = "bad"
      BY <1>3, <1>6, <2>1 DEF Sent, Send, Frame, PluginBad
    <2> QED BY <1>6, <2>2, Types DEF FrameSound, PluginBad
  <1>7. ASSUME NEW t \in Tasks, PluginEvent(t) PROVE FrameSound(f)'
    <2>1. PICK k \in {"fatal", "completed"} :
            /\ evented' = [evented EXCEPT ![t] = k]
            /\ down' = Append(down, Frame(startId[t], k))
      BY <1>7 DEF PluginEvent, Send
    <2>2. Frame(startId[t], k) \in AnyFrame
      BY DEF Frame, AnyFrame, FrameKinds, Domains, TaskDomain
    <2>3. f.id = startId[t] /\ f.kind = k
      BY <1>3, <2>1, <2>2 DEF Sent, Frame
    <2>4. srv[t] # "none" /\ UNCHANGED <<call, seq, startId, srv>>
      BY <1>7 DEF PluginEvent
    <2>5. startId[t] # 0 /\ startId[t] <= seq /\ startId[t] \in Nat
      BY <2>4, Types DEF TaskInv, TaskSound
    <2>6. \A u \in Tasks : startId[u] = startId[t] => u = t
      BY <2>5 DEF TaskInv
    <2>7. evented'[t] = k
      BY <2>1 DEF Domains, PlugDomain
    <2> QED BY <2>3, <2>4, <2>5, <2>6, <2>7 DEF FrameSound
  <1> QED BY <1>4, <1>5, <1>6, <1>7 DEF Sent

\* Every frame on its way is sound,
LEMMA FramesStep ==
  ASSUME Domains, RequestInv, TaskInv, FrameInv, [Next]_vars
  PROVE  Frames'
  <1>1. ASSUME NEW f \in AnyFrame, OnWay(f)' PROVE FrameSound(f)'
    <2>1. OnWay(f) \/ f = ErrFrame \/ Sent(f)
      BY <1>1, OnWayMoves
    <2>2. CASE OnWay(f)
      BY <2>2, SoundKept DEF FrameInv, Frames
    <2>3. CASE f = ErrFrame
      <3>1. FrameSound(f)
        BY <2>3, Types DEF FrameSound, ErrFrame, Frame
      <3> QED BY <3>1, SoundKept
    <2>4. CASE Sent(f)
      BY <2>4, SentSound
    <2> QED BY <2>1, <2>2, <2>3, <2>4
  <1> QED BY <1>1 DEF Frames

\* the queue holds frames of the call in progress alone,
LEMMA QueueIdsStep ==
  ASSUME Domains, RequestInv, FrameInv, [Next]_vars
  PROVE  QueueIds'
  <1> USE DEF FrameInv, QueueIds, callVars, ctxVars, taskVars, procVars, plugVars, histVars
  <1>1. CASE UNCHANGED <<call, queue>>
    BY <1>1
  <1>2. CASE call'.req = call.req /\ \A f \in AnyFrame : Has(queue', f) => Has(queue, f)
    BY <1>2
  <1>3. CASE Return
    BY <1>3, QueueFacts DEF Return
  <1>4. CASE CloseClient
    BY <1>4, Types DEF CloseClient, Idle
  <1>5. CASE CloseReturns
    BY <1>5, Types DEF CloseReturns, Goto
  <1>6. CASE PumpDelivers
    <2>1. call' = call
      BY <1>6 DEF PumpDelivers
    <2>2. ErrFrame.kind = "err"
      BY DEF ErrFrame, Frame
    <2>3. CASE queue' \in {queue, Append(queue, ErrFrame)}
      BY <2>1, <2>2, <2>3, QueueFacts
    <2>4. CASE queue' = Append(queue, pump.frame) /\ pump.frame.id = call.req.id
      BY <2>1, <2>4, QueueFacts, Types
    <2> QED BY <1>6, <2>3, <2>4 DEF PumpDelivers, FailWaiters
  <1>7. CASE PumpUnexpected
    <2>1. queue' \in {queue, Append(queue, ErrFrame)} /\ call' = call
      BY <1>7 DEF PumpUnexpected, FailWaiters
    <2>2. ErrFrame.kind = "err"
      BY DEF ErrFrame, Frame
    <2> QED BY <2>1, <2>2, QueueFacts
  <1>8. CASE PumpEnds
    <2>1. queue' \in {queue, Append(queue, ErrFrame)} /\ call' = call
      BY <1>8 DEF PumpEnds, FailWaiters
    <2>2. ErrFrame.kind = "err"
      BY DEF ErrFrame, Frame
    <2> QED BY <2>1, <2>2, QueueFacts
  <1>9. ASSUME NEW k \in Kinds, NEW t \in Tasks \cup {NoTask}, Call(k, t)
        PROVE  QueueIds'
    BY <1>9, QueueFacts DEF Call
  <1>10. CASE WriteRequest \/ Block \/ ReadFails \/ CallCancelled \/ GraceEnds
    BY <1>2, <1>10, CallerMoves DEF Moves, WriteRequest, Block, ReadFails, CallCancelled,
       GraceEnds
  <1>11. CASE TakeLife \/ TakeStarted \/ TakeStartError
    BY <1>2, <1>11, CallerMoves, QueueFacts DEF Moves, Take, TakeLife, TakeStarted,
       TakeStartError
  <1>12. CASE TakeStopped \/ TakeStopError \/ TakeDone
    BY <1>2, <1>12, CallerMoves, QueueFacts DEF Moves, Take, TakeStopped, TakeStopError,
       TakeDone
  <1>13. CASE CloseKills
    BY <1>1, <1>13 DEF CloseKills
  <1>14. CASE PumpEvent \/ PumpFinds \/ PumpLife \/ PumpFailsTasks \/ PumpKills \/ PumpExits
    BY <1>1, <1>14 DEF PumpEvent, PumpFinds, PumpLife, PumpFailsTasks, PumpKills, PumpExits
  <1>15. CASE PluginReads \/ PluginAnswers \/ PluginRemoves \/ PluginLife \/ PluginBad \/
            PluginDies \/ CtxEnds \/ (\E k \in Kinds, t \in Tasks \cup {NoTask} :
            CallRefused(k, t)) \/ (\E t \in Tasks : PluginEvent(t))
    BY <1>1, <1>15 DEF PluginReads, PluginAnswers, PluginRemoves, PluginLife, PluginBad,
       PluginDies, CtxEnds, CallRefused, PluginEvent
  <1>16. CASE Closed \/ UNCHANGED vars
    BY <1>1, <1>16 DEF Closed, vars
  <1> QED BY <1>2, <1>3, <1>4, <1>5, <1>6, <1>7, <1>8, <1>9, <1>10, <1>11, <1>12, <1>13,
             <1>14, <1>15, <1>16
         DEF Next, Caller, Pump, Plugin

\* and a stop waits for an event only after its StopResponse.
LEMMA GraceStep ==
  ASSUME Domains, RequestInv, FrameInv, [Next]_vars
  PROVE  GraceSound'
  <1> USE DEF FrameInv, GraceSound, callVars, ctxVars, taskVars, procVars, plugVars,
          histVars
  <1>1. CASE UNCHANGED <<call, srv>>
    BY <1>1 DEF StoppedCall
  <1>2. CASE call'.at # "grace"
    BY <1>2
  <1>3. CASE TakeStopped
    <2>1. /\ Head(queue) \in AnyFrame /\ Has(queue, Head(queue))
          /\ Head(queue).kind = "stopped"
      BY <1>3, SeqFacts DEF TakeStopped, Take
    <2>2. StoppedCall
      BY <2>1 DEF Frames, QueueIds, FrameSound, OnWay, InHand
    <2> QED BY <1>3, <2>2, CallerMoves DEF TakeStopped, Moves, StoppedCall
  <1>4. CASE Return
    BY <1>4 DEF Return, Idle
  <1>5. CASE CloseClient
    BY <1>5 DEF CloseClient, Idle
  <1>6. CASE CloseReturns
    BY <1>6, Types DEF CloseReturns, Goto
  <1>7. CASE PluginAnswers
    <2>1. call' = call
      BY <1>7 DEF PluginAnswers
    <2>2. \A t \in Tasks :
            srv[t] \in {"flushing", "removed"} => srv'[t] \in {"flushing", "removed"}
      BY StoppedKept
    <2>3. call.req.kind = "stop" => call.req.t \in Tasks
      BY DEF RequestInv, CallReq, Sound, NoReq
    <2> QED BY <2>1, <2>2, <2>3 DEF StoppedCall
  <1>8. CASE PluginRemoves
    <2>1. call' = call
      BY <1>8 DEF PluginRemoves
    <2>2. \A t \in Tasks :
            srv[t] \in {"flushing", "removed"} => srv'[t] \in {"flushing", "removed"}
      BY StoppedKept
    <2>3. call.req.kind = "stop" => call.req.t \in Tasks
      BY DEF RequestInv, CallReq, Sound, NoReq
    <2> QED BY <2>1, <2>2, <2>3 DEF StoppedCall
  <1>9. ASSUME NEW k \in Kinds, NEW t \in Tasks \cup {NoTask}, Call(k, t)
        PROVE  GraceSound'
    BY <1>9 DEF Call
  <1>10. CASE WriteRequest \/ Block \/ ReadFails
    BY <1>2, <1>10, Types DEF Goto, WriteRequest, Block, ReadFails
  <1>11. CASE CallCancelled \/ TakeLife \/ TakeStarted
    BY <1>2, <1>11, Types DEF Goto, CallCancelled, TakeLife, TakeStarted
  <1>12. CASE TakeStartError \/ GraceEnds \/ TakeStopError \/ TakeDone
    BY <1>2, <1>12, Types DEF Goto, TakeStartError, GraceEnds, TakeStopError, TakeDone
  <1>13. CASE CloseKills
    BY <1>1, <1>13 DEF CloseKills
  <1>14. CASE PumpEvent \/ PumpFinds \/ PumpDelivers \/ PumpLife \/ PumpUnexpected \/
            PumpFailsTasks \/ PumpKills \/ PumpEnds \/ PumpExits
    BY <1>1, <1>14 DEF PumpEvent, PumpFinds, PumpDelivers, PumpLife, PumpUnexpected,
       PumpFailsTasks, PumpKills, PumpEnds, PumpExits
  <1>15. CASE PluginReads \/ PluginLife \/ PluginBad \/ PluginDies \/ CtxEnds \/ (\E k \in
            Kinds, t \in Tasks \cup {NoTask} : CallRefused(k, t)) \/ (\E t \in Tasks :
            PluginEvent(t))
    BY <1>1, <1>15 DEF PluginReads, PluginLife, PluginBad, PluginDies, CtxEnds, CallRefused,
       PluginEvent
  <1>16. CASE Closed \/ UNCHANGED vars
    BY <1>1, <1>16 DEF Closed, vars
  <1> QED BY <1>2, <1>3, <1>4, <1>5, <1>6, <1>7, <1>8, <1>9, <1>10, <1>11, <1>12, <1>13,
             <1>14, <1>15, <1>16
         DEF Next, Caller, Pump, Plugin

-----------------------------------------------------------------------------
(* What Done says.                                                         *)

\* A frame that leads another keeps leading it.
LEMMA LeadsFacts ==
  ASSUME NEW S, NEW s \in Seq(S), NEW f \in S, NEW g \in S
  PROVE  /\ \A x \in S : Leads(s, f, g) => Leads(Append(s, x), f, g)
         /\ f # g /\ ~Has(s, g) => Leads(Append(s, f), f, g)
         /\ Has(s, f) /\ ~Has(s, g) => Leads(s, f, g)
         /\ Leads(s, f, g) => /\ s # <<>> /\ Head(s) # g
                              /\ Head(s) = f \/ Leads(Tail(s), f, g)
  <1>1. ASSUME NEW x \in S, Leads(s, f, g) PROVE Leads(Append(s, x), f, g)
    <2>1. PICK i \in DOMAIN s : s[i] = f /\ \A j \in 1..i : s[j] # g
      BY <1>1 DEF Leads
    <2>2. i \in DOMAIN Append(s, x) /\ \A j \in 1..i : Append(s, x)[j] = s[j]
      BY <2>1, AppendFacts
    <2> QED BY <2>1, <2>2, AppendFacts DEF Leads
  <1>2. ASSUME f # g, ~Has(s, g) PROVE Leads(Append(s, f), f, g)
    <2>1. Len(s) + 1 \in DOMAIN Append(s, f) /\ Append(s, f)[Len(s) + 1] = f
      BY AppendFacts
    <2>2. \A j \in 1..Len(s) + 1 : Append(s, f)[j] # g
      BY <1>2, AppendFacts DEF Has
    <2> QED BY <2>1, <2>2 DEF Leads
  <1>3. ASSUME Has(s, f), ~Has(s, g) PROVE Leads(s, f, g)
    <2>1. DOMAIN s = 1..Len(s) /\ Len(s) \in Nat
      BY AppendFacts
    <2> QED BY <1>3, <2>1 DEF Has, Leads
  <1>4. ASSUME Leads(s, f, g)
        PROVE  s # <<>> /\ Head(s) # g /\ (Head(s) = f \/ Leads(Tail(s), f, g))
    <2>1. PICK i \in DOMAIN s : s[i] = f /\ \A j \in 1..i : s[j] # g
      BY <1>4 DEF Leads
    <2>2. s # <<>>
      BY <2>1
    <2>3. Head(s) = s[1] /\ i \in 1..Len(s) /\ Len(s) \in Nat
      BY <2>1, <2>2, TailFacts
    <2>4. ASSUME i # 1 PROVE Leads(Tail(s), f, g)
      <3>1. i - 1 \in DOMAIN Tail(s) /\ Tail(s)[i - 1] = s[i]
        BY <2>2, <2>3, <2>4, TailFacts
      <3>2. \A j \in 1..i - 1 : Tail(s)[j] = s[j + 1] /\ j + 1 \in 1..i
        BY <2>2, <2>3, <2>4, TailFacts
      <3> QED BY <2>1, <3>1, <3>2 DEF Leads
    <2> QED BY <2>1, <2>2, <2>3, <2>4
  <1> QED BY <1>1, <1>2, <1>3, <1>4

\* How Done gets its value: nil is the word of an event or of a stop.
LEMMA DoneMoves ==
  ASSUME Domains, RequestInv, TaskInv, FrameInv, [Next]_vars
  PROVE  \A u \in Tasks : done'[u] # done[u] =>
            /\ done[u] = "none"
            /\ \/ done'[u] = "err"
               \/ GraceEnds /\ u = call.req.t
               \/ evented[u] = "completed"
  <1> USE DEF callVars, ctxVars, taskVars, procVars, plugVars, histVars
  <1>1. CASE UNCHANGED <<done>>
    BY <1>1
  <1>2. CASE Fails
    BY <1>2, FailsKeep
  <1>3. CASE GraceEnds
    <2>1. Finish(CallTasks, "nil") /\ call.at \in Active
      BY <1>3 DEF GraceEnds, Active
    <2>2. CallTasks \in SUBSET Tasks /\ \A u \in CallTasks : u = call.req.t
      BY <2>1, CallTasksFacts
    <2> QED BY <1>3, <2>1, <2>2, FinishFacts
  <1>4. CASE PumpEvent
    <2>1. /\ Has(down, Head(down)) /\ Head(down) \in AnyFrame
          /\ Head(down).kind \in {"fatal", "completed"}
      BY <1>4, SeqFacts DEF PumpEvent
    <2>2. \A u \in Tasks : startId[u] = Head(down).id => evented[u] = Head(down).kind
      BY <2>1 DEF FrameInv, Frames, FrameSound, OnWay
    <2> QED BY <1>4, <2>1, <2>2 DEF PumpEvent, CompleteDone
  <1>5. ASSUME NEW k \in Kinds, NEW t \in Tasks \cup {NoTask}, CallRefused(k, t)
       PROVE  \A u \in Tasks : done'[u] # done[u] =>
                  /\ done[u] = "none"
                  /\ \/ done'[u] = "err"
                     \/ GraceEnds /\ u = call.req.t
                     \/ evented[u] = "completed"
    BY <1>2, <1>5, TasksFail, FailsKeep DEF CallRefused
  <1>6. CASE WriteRequest \/ Block \/ ReadFails \/ CallCancelled \/ TakeLife
    BY <1>2, <1>6, TasksFail DEF WriteRequest, Block, ReadFails, CallCancelled, TakeLife
  <1>7. CASE TakeStartError \/ TakeStopped \/ TakeStopError \/ TakeDone
    BY <1>2, <1>7, TasksFail DEF TakeStartError, TakeStopped, TakeStopError, TakeDone
  <1>8. CASE PumpLife \/ PumpFailsTasks \/ PumpExits
    BY <1>2, <1>8, TasksFail DEF PumpLife, PumpFailsTasks, PumpExits
  <1>9. CASE TakeStarted \/ Return \/ CloseClient \/ CloseKills \/ CloseReturns
    BY <1>1, <1>9 DEF TakeStarted, Return, CloseClient, CloseKills, CloseReturns
  <1>10. CASE PumpFinds \/ PumpDelivers \/ PumpUnexpected \/ PumpKills \/ PumpEnds
    BY <1>1, <1>10 DEF PumpFinds, PumpDelivers, PumpUnexpected, PumpKills, PumpEnds
  <1>11. CASE PluginReads \/ PluginAnswers \/ PluginRemoves \/ PluginLife \/ PluginBad \/
            PluginDies \/ CtxEnds \/ (\E k \in Kinds, t \in Tasks \cup {NoTask} : Call(k,
            t)) \/ (\E t \in Tasks : PluginEvent(t))
    BY <1>1, <1>11 DEF PluginReads, PluginAnswers, PluginRemoves, PluginLife, PluginBad,
       PluginDies, CtxEnds, Call, PluginEvent
  <1>12. CASE Closed \/ UNCHANGED vars
    BY <1>1, <1>12 DEF Closed, vars
  <1> QED BY <1>2, <1>3, <1>4, <1>5, <1>6, <1>7, <1>8, <1>9, <1>10, <1>11, <1>12
         DEF Next, Caller, Pump, Plugin

\* A frame in hand was in hand, or comes from the head of stdout.
LEMMA InHandMoves ==
  ASSUME Domains, [Next]_vars
  PROVE  \A f \in AnyFrame : InHand(f)' =>
            InHand(f) \/ f = ErrFrame \/ (PumpFinds /\ f = Head(down))
  <1> USE DEF InHand, callVars, ctxVars, taskVars, procVars, plugVars, histVars
  <1>1. CASE UNCHANGED <<queue, pump>>
    BY <1>1
  <1>2. CASE UNCHANGED pump /\ \A f \in AnyFrame : Has(queue', f) => Has(queue, f)
    BY <1>2
  <1>3. CASE PumpFinds
    BY <1>3 DEF PumpFinds, PumpGoes
  <1>4. CASE PumpDelivers
    <2>1. \A f \in AnyFrame : Has(queue', f) => Has(queue, f) \/ f = ErrFrame \/ f = pump.frame
      BY <1>4, Types, QueueFacts DEF PumpDelivers, FailWaiters
    <2>2. pump'.at # "deliver" /\ pump.at = "deliver"
      BY <1>4 DEF PumpDelivers, PumpGoes, Reading
    <2> QED BY <2>1, <2>2
  <1>5. CASE PumpUnexpected
    <2>1. queue' \in {queue, Append(queue, ErrFrame)}
      BY <1>5 DEF PumpUnexpected, FailWaiters
    <2>2. pump'.at # "deliver"
      BY <1>5 DEF PumpUnexpected, PumpGoes
    <2> QED BY <2>1, <2>2, QueueFacts
  <1>6. CASE PumpFailsTasks
    BY <1>6 DEF PumpFailsTasks, PumpGoes
  <1>7. CASE PumpKills
    BY <1>7 DEF PumpKills, Reading
  <1>8. CASE PumpEnds
    <2>1. queue' \in {queue, Append(queue, ErrFrame)}
      BY <1>8 DEF PumpEnds, FailWaiters
    <2>2. pump'.at # "deliver"
      BY <1>8 DEF PumpEnds, PumpGoes
    <2> QED BY <2>1, <2>2, QueueFacts
  <1>9. CASE PumpExits
    BY <1>9 DEF PumpExits, PumpGoes
  <1>10. ASSUME NEW k \in Kinds, NEW t \in Tasks \cup {NoTask}, Call(k, t)
        PROVE  \A f \in AnyFrame : InHand(f)' =>
                  InHand(f) \/ f = ErrFrame \/ (PumpFinds /\ f = Head(down))
    BY <1>10, QueueFacts DEF Call, RegisterStart
  <1>11. CASE TakeLife \/ TakeStarted \/ TakeStartError
    BY <1>2, <1>11, QueueFacts DEF Take, TakeLife, TakeStarted, TakeStartError
  <1>12. CASE TakeStopped \/ TakeStopError \/ TakeDone
    BY <1>2, <1>12, QueueFacts DEF Take, TakeStopped, TakeStopError, TakeDone
  <1>13. CASE Return
    BY <1>2, <1>13, QueueFacts DEF Return
  <1>14. CASE WriteRequest \/ Block \/ ReadFails \/ CallCancelled \/ GraceEnds \/
            CloseClient \/ CloseKills \/ CloseReturns
    BY <1>1, <1>14 DEF WriteRequest, Block, ReadFails, CallCancelled, GraceEnds,
       CloseClient, CloseKills, CloseReturns
  <1>15. CASE PumpEvent \/ PumpLife
    BY <1>1, <1>15 DEF PumpEvent, PumpLife
  <1>16. CASE PluginReads \/ PluginAnswers \/ PluginRemoves \/ PluginLife \/ PluginBad \/
            PluginDies \/ CtxEnds \/ (\E k \in Kinds, t \in Tasks \cup {NoTask} :
            CallRefused(k, t)) \/ (\E t \in Tasks : PluginEvent(t))
    BY <1>1, <1>16 DEF PluginReads, PluginAnswers, PluginRemoves, PluginLife, PluginBad,
       PluginDies, CtxEnds, CallRefused, PluginEvent
  <1>17. CASE Closed \/ UNCHANGED vars
    BY <1>1, <1>17 DEF Closed, vars
  <1> QED BY <1>2, <1>3, <1>4, <1>5, <1>6, <1>7, <1>8, <1>9, <1>10, <1>11, <1>12, <1>13,
             <1>14, <1>15, <1>16, <1>17
         DEF Next, Caller, Pump, Plugin

\* Stdout loses a frame to the pump at its head alone, and an event to Done.
LEMMA PumpMoves ==
  ASSUME Domains, [Next]_vars
  PROVE  /\ pump'.at \notin Broken => pump.at \notin Broken
         /\ \/ down' = down
            \/ \E f \in AnyFrame : Sent(f)
            \/ /\ pump.at = "read" /\ down # <<>> /\ down' = Tail(down)
               /\ Head(down).kind \in {"fatal", "completed"} => PumpEvent
            \/ pump'.at \in Broken /\ PumpEnds
  <1> USE DEF callVars, ctxVars, taskVars, procVars, plugVars, histVars
  <1>1. CASE UNCHANGED <<pump, down>>
    BY <1>1
  <1>2. CASE PumpEvent
    BY <1>2 DEF PumpEvent
  <1>3. CASE PumpFinds
    BY <1>3 DEF PumpFinds, PumpGoes, Broken
  <1>4. CASE PumpDelivers
    BY <1>4 DEF PumpDelivers, PumpGoes, Reading, Broken
  <1>5. CASE PumpLife
    BY <1>5 DEF PumpLife
  <1>6. CASE PumpUnexpected
    BY <1>6 DEF PumpUnexpected, PumpGoes, Broken
  <1>7. CASE PumpFailsTasks
    BY <1>7 DEF PumpFailsTasks, PumpGoes, Broken
  <1>8. CASE PumpKills
    BY <1>8 DEF PumpKills, Reading, Broken
  <1>9. CASE PumpEnds
    BY <1>9 DEF PumpEnds, PumpGoes, Broken
  <1>10. CASE PumpExits
    BY <1>10 DEF PumpExits, PumpGoes, Broken
  <1>11. CASE PluginAnswers
    BY <1>11, PluginSends
  <1>12. CASE PluginLife
    BY <1>12, PluginSends
  <1>13. CASE PluginBad
    BY <1>13, PluginSends
  <1>14. ASSUME NEW t \in Tasks, PluginEvent(t)
        PROVE  /\ pump'.at \notin Broken => pump.at \notin Broken
               /\ \/ down' = down
                  \/ \E f \in AnyFrame : Sent(f)
                  \/ /\ pump.at = "read" /\ down # <<>> /\ down' = Tail(down)
                     /\ Head(down).kind \in {"fatal", "completed"} => PumpEvent
                  \/ pump'.at \in Broken /\ PumpEnds
    BY <1>14, PluginSends
  <1>15. CASE WriteRequest \/ Block \/ ReadFails \/ CallCancelled \/ TakeLife \/ TakeStarted
            \/ TakeStartError \/ TakeStopped \/ GraceEnds \/ TakeStopError \/ TakeDone \/
            Return \/ CloseClient \/ CloseKills \/ CloseReturns
    BY <1>1, <1>15 DEF WriteRequest, Block, ReadFails, CallCancelled, TakeLife, TakeStarted,
       TakeStartError, TakeStopped, GraceEnds, TakeStopError, TakeDone, Return, CloseClient,
       CloseKills, CloseReturns
  <1>16. CASE PluginReads \/ PluginRemoves \/ PluginDies \/ CtxEnds \/ (\E k \in Kinds, t
            \in Tasks \cup {NoTask} : CallRefused(k, t)) \/ (\E k \in Kinds, t \in Tasks
            \cup {NoTask} : Call(k, t))
    BY <1>1, <1>16 DEF PluginReads, PluginRemoves, PluginDies, CtxEnds, CallRefused, Call
  <1>17. CASE Closed \/ UNCHANGED vars
    BY <1>1, <1>17 DEF Closed, vars
  <1> QED BY <1>2, <1>3, <1>4, <1>5, <1>6, <1>7, <1>8, <1>9, <1>10, <1>11, <1>12, <1>13,
             <1>14, <1>15, <1>16, <1>17
         DEF Next, Caller, Pump, Plugin

\* Where the call in progress can go.
CallMoved ==
  /\ \/ call'.req = call.req \/ call'.req = NoReq
     \/ \E k \in Kinds, t \in Tasks \cup {NoTask} : Call(k, t)
  /\ call'.at = "grace" =>
       call'.req = call.req /\ (call.at = "grace" \/ TakeStopped)

\* How the request in progress changes, and when a stop begins to wait.
LEMMA CallMoves ==
  ASSUME Domains, [Next]_vars
  PROVE  CallMoved
  <1> USE DEF callVars, ctxVars, taskVars, procVars, plugVars, histVars
  <1>1. CASE UNCHANGED <<call>>
    BY <1>1 DEF CallMoved
  <1>2. CASE call'.req = call.req /\ call'.at # "grace"
    BY <1>2 DEF CallMoved
  <1>3. CASE TakeStopped
    BY <1>3, CallerMoves DEF Moves, CallMoved
  <1>4. CASE Return
    BY <1>4 DEF Return, Idle, CallMoved
  <1>5. CASE CloseClient
    BY <1>5 DEF CloseClient, Idle, CallMoved
  <1>6. CASE CloseReturns
    BY <1>6, Types DEF CloseReturns, Goto, CallMoved
  <1>7. ASSUME NEW k \in Kinds, NEW t \in Tasks \cup {NoTask}, Call(k, t)
        PROVE  CallMoved
    BY <1>7 DEF CallMoved, Call
  <1>8. CASE WriteRequest \/ Block \/ ReadFails
    BY <1>2, <1>8, CallerMoves, Types DEF Moves, Goto, WriteRequest, Block, ReadFails
  <1>9. CASE CallCancelled \/ TakeLife \/ TakeStarted
    BY <1>2, <1>9, CallerMoves, Types DEF Moves, Goto, CallCancelled, TakeLife, TakeStarted
  <1>10. CASE TakeStartError \/ GraceEnds \/ TakeStopError \/ TakeDone
    BY <1>2, <1>10, CallerMoves, Types DEF Moves, Goto, TakeStartError, GraceEnds,
       TakeStopError, TakeDone
  <1>11. CASE CloseKills
    BY <1>1, <1>11 DEF CloseKills
  <1>12. CASE PumpEvent \/ PumpFinds \/ PumpDelivers \/ PumpLife \/ PumpUnexpected \/
            PumpFailsTasks \/ PumpKills \/ PumpEnds \/ PumpExits
    BY <1>1, <1>12 DEF PumpEvent, PumpFinds, PumpDelivers, PumpLife, PumpUnexpected,
       PumpFailsTasks, PumpKills, PumpEnds, PumpExits
  <1>13. CASE PluginReads \/ PluginAnswers \/ PluginRemoves \/ PluginLife \/ PluginBad \/
            PluginDies \/ CtxEnds \/ (\E k \in Kinds, t \in Tasks \cup {NoTask} :
            CallRefused(k, t)) \/ (\E t \in Tasks : PluginEvent(t))
    BY <1>1, <1>13 DEF PluginReads, PluginAnswers, PluginRemoves, PluginLife, PluginBad,
       PluginDies, CtxEnds, CallRefused, PluginEvent
  <1>14. CASE Closed \/ UNCHANGED vars
    BY <1>1, <1>14 DEF Closed, vars
  <1> QED BY <1>2, <1>3, <1>4, <1>5, <1>6, <1>7, <1>8, <1>9, <1>10, <1>11, <1>12, <1>13,
             <1>14
         DEF Next, Caller, Pump, Plugin

\* A task keeps the id of its start.
LEMMA StartIdKept ==
  ASSUME Domains, [Next]_vars
  PROVE  \A u \in Tasks : startId[u] # 0 => startId'[u] = startId[u]
  <1> USE DEF callVars, ctxVars, taskVars, procVars, plugVars, histVars
  <1>1. CASE UNCHANGED <<startId>>
    BY <1>1
  <1>2. ASSUME NEW k \in Kinds, NEW t \in Tasks \cup {NoTask}, Call(k, t)
        PROVE  \A u \in Tasks : startId[u] # 0 => startId'[u] = startId[u]
    BY <1>2 DEF Call, Domains, TaskDomain
  <1>3. CASE WriteRequest \/ Block \/ ReadFails \/ CallCancelled \/ TakeLife \/ TakeStarted
            \/ TakeStartError \/ TakeStopped \/ GraceEnds \/ TakeStopError \/ TakeDone \/
            Return \/ CloseClient \/ CloseKills \/ CloseReturns
    BY <1>1, <1>3 DEF WriteRequest, Block, ReadFails, CallCancelled, TakeLife, TakeStarted,
       TakeStartError, TakeStopped, GraceEnds, TakeStopError, TakeDone, Return, CloseClient,
       CloseKills, CloseReturns
  <1>4. CASE PumpEvent \/ PumpFinds \/ PumpDelivers \/ PumpLife \/ PumpUnexpected \/
            PumpFailsTasks \/ PumpKills \/ PumpEnds \/ PumpExits
    BY <1>1, <1>4 DEF PumpEvent, PumpFinds, PumpDelivers, PumpLife, PumpUnexpected,
       PumpFailsTasks, PumpKills, PumpEnds, PumpExits
  <1>5. CASE PluginReads \/ PluginAnswers \/ PluginRemoves \/ PluginLife \/ PluginBad \/
            PluginDies \/ CtxEnds \/ (\E k \in Kinds, t \in Tasks \cup {NoTask} :
            CallRefused(k, t)) \/ (\E t \in Tasks : PluginEvent(t))
    BY <1>1, <1>5 DEF PluginReads, PluginAnswers, PluginRemoves, PluginLife, PluginBad,
       PluginDies, CtxEnds, CallRefused, PluginEvent
  <1>6. CASE Closed \/ UNCHANGED vars
    BY <1>1, <1>6 DEF Closed, vars
  <1> QED BY <1>2, <1>3, <1>4, <1>5, <1>6
         DEF Next, Caller, Pump, Plugin

\* A task has one event, and one written before the stop goes to the end of stdout.
LEMMA EventMoves ==
  ASSUME Domains, [Next]_vars
  PROVE  /\ \A u \in Tasks : evented[u] # "none" => evented'[u] = evented[u]
         /\ warned \subseteq warned'
         /\ \A u \in warned' \ warned : /\ srv[u] = "active" /\ evented'[u] = "fatal"
                                       /\ evented[u] = "none"
                                       /\ down' = Append(down, FatalFrame(u))
                                       /\ UNCHANGED <<call, startId, pump, queue, done>>
  <1> USE DEF callVars, ctxVars, taskVars, procVars, plugVars, histVars
  <1>1. CASE UNCHANGED <<evented, warned>>
    BY <1>1
  <1>2. ASSUME NEW t \in Tasks, PluginEvent(t)
        PROVE  /\ \A u \in Tasks : evented[u] # "none" => evented'[u] = evented[u]
               /\ warned \subseteq warned'
               /\ \A u \in warned' \ warned : /\ srv[u] = "active" /\ evented'[u] = "fatal"
                                             /\ evented[u] = "none"
                                             /\ down' = Append(down, FatalFrame(u))
                                             /\ UNCHANGED <<call, startId, pump, queue, done>>
    <2>1. PICK k \in {"fatal", "completed"} :
            /\ evented' = [evented EXCEPT ![t] = k]
            /\ down' = Append(down, Frame(startId[t], k))
            /\ warned' = IF k = "fatal" /\ srv[t] = "active" THEN warned \cup {t} ELSE warned
      BY <1>2 DEF PluginEvent, Send
    <2>2. \A u \in Tasks : evented'[u] = IF u = t THEN k ELSE evented[u]
      BY <2>1 DEF Domains, PlugDomain
    <2> QED BY <1>2, <2>1, <2>2 DEF PluginEvent, FatalFrame
  <1>3. CASE WriteRequest \/ Block \/ ReadFails \/ CallCancelled \/ TakeLife \/ TakeStarted
            \/ TakeStartError \/ TakeStopped \/ GraceEnds \/ TakeStopError \/ TakeDone \/
            Return \/ CloseClient \/ CloseKills \/ CloseReturns
    BY <1>1, <1>3 DEF WriteRequest, Block, ReadFails, CallCancelled, TakeLife, TakeStarted,
       TakeStartError, TakeStopped, GraceEnds, TakeStopError, TakeDone, Return, CloseClient,
       CloseKills, CloseReturns
  <1>4. CASE PumpEvent \/ PumpFinds \/ PumpDelivers \/ PumpLife \/ PumpUnexpected \/
            PumpFailsTasks \/ PumpKills \/ PumpEnds \/ PumpExits
    BY <1>1, <1>4 DEF PumpEvent, PumpFinds, PumpDelivers, PumpLife, PumpUnexpected,
       PumpFailsTasks, PumpKills, PumpEnds, PumpExits
  <1>5. CASE PluginReads \/ PluginAnswers \/ PluginRemoves \/ PluginLife \/ PluginBad \/
            PluginDies \/ CtxEnds \/ (\E k \in Kinds, t \in Tasks \cup {NoTask} :
            CallRefused(k, t)) \/ (\E k \in Kinds, t \in Tasks \cup {NoTask} : Call(k, t))
    BY <1>1, <1>5 DEF PluginReads, PluginAnswers, PluginRemoves, PluginLife, PluginBad,
       PluginDies, CtxEnds, CallRefused, Call
  <1>6. CASE Closed \/ UNCHANGED vars
    BY <1>1, <1>6 DEF Closed, vars
  <1> QED BY <1>2, <1>3, <1>4, <1>5, <1>6
         DEF Next, Caller, Pump, Plugin

\* The fatal event of a task reaches its Done before the success of its stop does.
LEMMA FatalStep ==
  ASSUME Domains, RequestInv, TaskInv, FrameInv, FatalInv, [Next]_vars
  PROVE  FatalInv'
  <1> SUFFICES ASSUME NEW t \in warned' PROVE FatalSound(t)'
    BY DEF FatalInv
  <1>1. t \in Tasks /\ warned \subseteq Tasks
    BY PlugDomainStep DEF PlugDomain, Domains
  <1>2. FatalFrame(t) \in AnyFrame /\ StopAnswer \in AnyFrame /\ FatalFrame(t) # StopAnswer
    BY <1>1, BoundsAssumption
       DEF FatalFrame, StopAnswer, Frame, AnyFrame, FrameKinds, Domains, TaskDomain,
          CallDomain, Requests
  <1>3. evented'[t] = "fatal" /\ startId'[t] = startId[t] /\ startId[t] # 0
    <2>1. evented'[t] = "fatal" /\ srv[t] # "none"
      BY <1>1, EventMoves DEF FatalInv, FatalSound, TaskInv, TaskSound
    <2> QED BY <1>1, <2>1, StartIdKept DEF TaskInv, TaskSound
  <1>4. FatalFrame(t)' = FatalFrame(t)
    BY <1>3 DEF FatalFrame
  <1>5. ASSUME call.req.t = t, srv[t] = "active"
        PROVE  ~OnWay(StopAnswer) /\ call.at # "grace"
    BY <1>2, <1>5 DEF FrameInv, Frames, GraceSound, FrameSound, StoppedCall, StopAnswer, Frame
  <1>6. CASE t \notin warned
    <2>1. /\ srv[t] = "active" /\ down' = Append(down, FatalFrame(t))
          /\ UNCHANGED <<call, startId, pump, queue, done>>
      BY <1>6, EventMoves
    <2>2. Has(down', FatalFrame(t))
      BY <1>2, <2>1, SeqFacts
    <2>3. ASSUME call.req.t = t
          PROVE  Leads(down', FatalFrame(t), StopAnswer) /\ ~InHand(StopAnswer) /\ call.at # "grace"
      BY <1>2, <1>5, <2>1, <2>3, LeadsFacts, UpSeq DEF OnWay
    <2>4. StopAnswer' = StopAnswer /\ (InHand(StopAnswer)' <=> InHand(StopAnswer))
      BY <2>1 DEF StopAnswer, InHand
    <2> QED BY <1>3, <1>4, <2>1, <2>2, <2>3, <2>4 DEF FatalSound
  <1>7. CASE t \in warned
    <2> SUFFICES ASSUME done'[t] = "none" PROVE FatalSound(t)'
      BY <1>3 DEF FatalSound
    <2>1. done[t] = "none" /\ FatalSound(t)
      BY <1>1, <1>7, DoneMoves DEF FatalInv
    <2>2. Head(down) = FatalFrame(t) => ~PumpEvent
      <3>1. ASSUME PumpEvent, Head(down) = FatalFrame(t) PROVE FALSE
        <4>1. Head(down).id = startId[t] /\ Head(down).kind = "fatal"
          BY <3>1 DEF FatalFrame, Frame
        <4>2. CASE Known(t)
          BY <1>1, <2>1, <3>1, <4>1, <4>2 DEF PumpEvent, CompleteDone
        <4>3. CASE ~Known(t)
          BY <1>1, <1>3, <2>1, <4>3 DEF Known, TaskInv, TaskSound
        <4> QED BY <4>2, <4>3
      <3> QED BY <3>1
    <2>3. pump'.at \notin Broken => Has(down', FatalFrame(t))
      <3>1. ASSUME pump'.at \notin Broken PROVE Has(down', FatalFrame(t))
        <4>1. Has(down, FatalFrame(t))
          BY <2>1, <3>1, PumpMoves DEF FatalSound
        <4>2. CASE down' = down
          BY <4>1, <4>2
        <4>3. ASSUME NEW f \in AnyFrame, Sent(f) PROVE Has(down', FatalFrame(t))
          BY <4>1, <4>3, SeqFacts DEF Sent
        <4>4. CASE /\ down # <<>> /\ down' = Tail(down)
                   /\ Head(down).kind \in {"fatal", "completed"} => PumpEvent
          <5>1. Head(down) # FatalFrame(t)
            BY <2>2, <4>1, <4>4 DEF FatalFrame, Frame
          <5> QED BY <4>1, <4>4, <5>1, TailFacts, UpSeq
        <4> QED BY <3>1, <4>2, <4>3, <4>4, PumpMoves
      <3> QED BY <3>1
    <2>4. ASSUME call'.req.t = t
          PROVE  /\ pump'.at \notin Broken => Leads(down', FatalFrame(t), StopAnswer')
                 /\ ~InHand(StopAnswer)'
                 /\ call'.at # "grace"
      <3>1. CASE call'.req = call.req
        <4>1. StopAnswer' = StopAnswer
          BY <3>1 DEF StopAnswer
        <4>2. /\ pump.at \notin Broken => Leads(down, FatalFrame(t), StopAnswer)
              /\ ~InHand(StopAnswer)
              /\ call.at # "grace"
          BY <2>1, <2>4, <3>1 DEF FatalSound
        <4>3. pump'.at \notin Broken => Leads(down', FatalFrame(t), StopAnswer)
          <5>1. SUFFICES ASSUME pump'.at \notin Broken
                         PROVE  Leads(down', FatalFrame(t), StopAnswer)
            OBVIOUS
          <5>2. Leads(down, FatalFrame(t), StopAnswer)
            BY <4>2, <5>1, PumpMoves
          <5>3. CASE down' = down
            BY <5>2, <5>3
          <5>4. ASSUME NEW f \in AnyFrame, Sent(f) PROVE Leads(down', FatalFrame(t), StopAnswer)
            BY <1>2, <5>2, <5>4, LeadsFacts, UpSeq DEF Sent
          <5>5. CASE /\ down # <<>> /\ down' = Tail(down)
                     /\ Head(down).kind \in {"fatal", "completed"} => PumpEvent
            <6>1. Has(down, FatalFrame(t))
              BY <2>1, <5>1, PumpMoves DEF FatalSound
            <6>2. Head(down) # FatalFrame(t)
              BY <2>2, <5>5, <6>1 DEF FatalFrame, Frame
            <6> QED BY <1>2, <5>2, <5>5, <6>2, LeadsFacts, UpSeq
          <5> QED BY <5>1, <5>3, <5>4, <5>5, PumpMoves
        <4>4. ~InHand(StopAnswer)'
          <5>1. ASSUME InHand(StopAnswer)' PROVE FALSE
            <6>1. InHand(StopAnswer') <=> InHand(StopAnswer)
              BY <4>1
            <6>2. StopAnswer # ErrFrame
              BY DEF StopAnswer, ErrFrame, Frame
            <6>3. PumpFinds /\ Head(down) = StopAnswer
              BY <1>2, <4>1, <4>2, <5>1, <6>2, InHandMoves
            <6>4. pump.at \notin Broken
              BY <6>3 DEF PumpFinds, Broken
            <6> QED BY <1>2, <4>2, <6>3, <6>4, LeadsFacts, UpSeq
          <5> QED BY <5>1
        <4>5. call'.at # "grace"
          <5>1. ASSUME TakeStopped PROVE FALSE
            <6>1. Has(queue, Head(queue)) /\ Head(queue) \in AnyFrame /\ Head(queue).kind = "stopped"
              BY <5>1, SeqFacts DEF TakeStopped, Take
            <6>2. Head(queue) = StopAnswer
              BY <6>1 DEF FrameInv, QueueIds, StopAnswer, Frame, AnyFrame
            <6> QED BY <4>2, <6>1, <6>2 DEF InHand
          <5> QED BY <4>2, <5>1, CallMoves DEF CallMoved
        <4> QED BY <4>1, <4>3, <4>4, <4>5
      <3>2. CASE call'.req = NoReq
        BY <1>1, <2>4, <3>2, NoTaskAssumption DEF NoReq
      <3>3. ASSUME NEW k \in Kinds, NEW u \in Tasks \cup {NoTask}, Call(k, u)
            PROVE  /\ pump'.at \notin Broken => Leads(down', FatalFrame(t), StopAnswer')
                   /\ ~InHand(StopAnswer)'
                   /\ call'.at # "grace"
        <4>1. /\ call'.at = "write" /\ call'.req.id = seq + 1 /\ seq + 1 \in 0..MaxCalls
              /\ UNCHANGED <<down, pump>> /\ queue' = <<>>
          BY <3>3, Types, BoundsAssumption DEF Call, procVars
        <4>2. StopAnswer' = Frame(seq + 1, "stopped") /\ Frame(seq + 1, "stopped") \in AnyFrame
          BY <4>1 DEF StopAnswer, Frame, AnyFrame, FrameKinds
        <4>3. ~OnWay(Frame(seq + 1, "stopped"))
          BY <4>2, Types DEF FrameInv, Frames, FrameSound, Frame
        <4>4. pump'.at \notin Broken => Leads(down', FatalFrame(t), StopAnswer')
          BY <1>2, <2>3, <4>1, <4>2, <4>3, LeadsFacts, UpSeq DEF OnWay
        <4>5. ~InHand(StopAnswer)'
          BY <4>1, <4>2, <4>3, QueueFacts DEF OnWay, InHand
        <4> QED BY <4>1, <4>4, <4>5
      <3> QED BY <3>1, <3>2, <3>3, CallMoves DEF CallMoved
    <2> QED BY <1>3, <1>4, <2>3, <2>4 DEF FatalSound
  <1> QED BY <1>6, <1>7

\* Done says nil of a task the plugin has ended, and never over its fatal event.
LEMMA NilStep ==
  ASSUME Domains, RequestInv, TaskInv, FrameInv, NilIsEarned, [Next]_vars
  PROVE  NilIsEarned'
  <1> SUFFICES ASSUME NEW t \in Tasks, done'[t] = "nil"
               PROVE  evented'[t] = "completed" \/ srv'[t] \in {"flushing", "removed"}
    BY DEF NilIsEarned
  <1>1. evented[t] = "completed" \/ srv[t] \in {"flushing", "removed"}
    <2>1. CASE done'[t] = done[t]
      BY <2>1 DEF NilIsEarned
    <2>2. CASE GraceEnds /\ t = call.req.t
      BY <2>2 DEF GraceEnds, FrameInv, GraceSound, StoppedCall
    <2> QED BY <2>1, <2>2, DoneMoves
  <1> QED BY <1>1, EventMoves, StoppedKept

\* The success of a stop never hides a fatal event.
LEMMA FatalKeptStep ==
  ASSUME Domains, RequestInv, TaskInv, FrameInv, FatalInv, NilIsEarned, FatalIsKept, [Next]_vars
  PROVE  FatalIsKept'
  <1> SUFFICES ASSUME NEW t \in warned', done'[t] = "nil" PROVE FALSE
    BY DEF FatalIsKept
  <1>1. t \in Tasks
    BY PlugDomainStep DEF PlugDomain
  <1>2. CASE t \notin warned
    BY <1>1, <1>2, EventMoves DEF NilIsEarned
  <1>3. CASE t \in warned
    <2>1. done'[t] # done[t] /\ evented[t] = "fatal"
      BY <1>3 DEF FatalIsKept, FatalInv, FatalSound
    <2>2. done[t] = "none" /\ GraceEnds /\ t = call.req.t
      BY <1>1, <2>1, DoneMoves
    <2> QED BY <1>3, <2>2 DEF FatalInv, FatalSound, GraceEnds
  <1> QED BY <1>2, <1>3

\* When the pump has ended, no task that was returned is without its Done.
LEMMA ExitedAreDone ==
  ASSUME Domains, TaskInv, ExitInv
  PROVE  NoOrphan
  BY DEF TaskInv, TaskSound, ExitInv, NoOrphan, Domains, TaskDomain

-----------------------------------------------------------------------------
(* What is given up, and what is left while nothing is.                    *)

\* A task that is flushed is that of the stop the plugin handles.
LEMMA FlushStep ==
  ASSUME Domains, FlushInv, [Next]_vars
  PROVE  FlushInv'
  <1> USE DEF FlushInv, callVars, ctxVars, taskVars, procVars, plugVars, histVars
  <1>1. CASE UNCHANGED <<plug, srv>>
    BY <1>1
  <1>2. CASE PluginReads
    BY <1>2 DEF PluginReads, NoReq
  <1>3. CASE PluginAnswers
    <2>1. \A t \in Tasks : srv'[t] = "flushing" =>
            \/ srv[t] = "flushing"
            \/ t = plug.t /\ plug.kind = "stop" /\ plug' = plug
      BY <1>3, ServerMoves
    <2>2. ASSUME NEW t \in Tasks, srv[t] = "flushing" PROVE plug' = plug
      BY <1>3, <2>2 DEF PluginAnswers
    <2> QED BY <2>1, <2>2
  <1>4. CASE PluginRemoves
    <2>1. \A t \in Tasks : srv'[t] = "flushing" => srv[t] = "flushing" /\ t # plug.t
      BY <1>4, ServerMoves DEF PluginRemoves, Domains, PlugDomain
    <2> QED BY <2>1
  <1>5. CASE WriteRequest \/ Block \/ ReadFails \/ CallCancelled \/ TakeLife \/ TakeStarted
            \/ TakeStartError \/ TakeStopped \/ GraceEnds \/ TakeStopError \/ TakeDone \/
            Return \/ CloseClient \/ CloseKills \/ CloseReturns
    BY <1>1, <1>5 DEF WriteRequest, Block, ReadFails, CallCancelled, TakeLife, TakeStarted,
       TakeStartError, TakeStopped, GraceEnds, TakeStopError, TakeDone, Return, CloseClient,
       CloseKills, CloseReturns
  <1>6. CASE PumpEvent \/ PumpFinds \/ PumpDelivers \/ PumpLife \/ PumpUnexpected \/
            PumpFailsTasks \/ PumpKills \/ PumpEnds \/ PumpExits
    BY <1>1, <1>6 DEF PumpEvent, PumpFinds, PumpDelivers, PumpLife, PumpUnexpected,
       PumpFailsTasks, PumpKills, PumpEnds, PumpExits
  <1>7. CASE PluginLife \/ PluginBad \/ PluginDies \/ CtxEnds \/ (\E k \in Kinds, t \in
            Tasks \cup {NoTask} : CallRefused(k, t)) \/ (\E k \in Kinds, t \in Tasks \cup
            {NoTask} : Call(k, t)) \/ (\E t \in Tasks : PluginEvent(t))
    BY <1>1, <1>7 DEF PluginLife, PluginBad, PluginDies, CtxEnds, CallRefused, Call,
       PluginEvent
  <1>8. CASE Closed \/ UNCHANGED vars
    BY <1>1, <1>8 DEF Closed, vars
  <1> QED BY <1>2, <1>3, <1>4, <1>5, <1>6, <1>7, <1>8
         DEF Next, Caller, Pump, Plugin

\* What is lost or given up is never back.
LEMMA CalmKept ==
  ASSUME Domains, Calm', [Next]_vars
  PROVE  Calm
  <1> USE DEF Calm, callVars, ctxVars, taskVars, procVars, plugVars, histVars
  <1>1. CASE UNCHANGED <<pump, proc, dropped>>
    BY <1>1
  <1>2. CASE CallCancelled
    BY <1>2 DEF CallCancelled, Kill
  <1>3. CASE TakeLife
    BY <1>3 DEF TakeLife, Domains, HostDomain
  <1>4. CASE CloseKills
    BY <1>4 DEF CloseKills, Kill
  <1>5. CASE PumpFinds
    BY <1>5 DEF PumpFinds, PumpGoes, Reading, Kill
  <1>6. CASE PumpDelivers
    BY <1>6 DEF PumpDelivers, PumpGoes, Reading, Kill
  <1>7. CASE PumpLife
    BY <1>7 DEF PumpLife, Domains, HostDomain
  <1>8. CASE PumpUnexpected
    BY <1>8 DEF PumpUnexpected, PumpGoes, Reading, Kill
  <1>9. CASE PumpFailsTasks
    BY <1>9 DEF PumpFailsTasks, PumpGoes, Reading, Kill
  <1>10. CASE PumpKills
    BY <1>10 DEF PumpKills, PumpGoes, Reading, Kill
  <1>11. CASE PumpEnds
    BY <1>11 DEF PumpEnds, PumpGoes, Reading, Kill
  <1>12. CASE PumpExits
    BY <1>12 DEF PumpExits, PumpGoes, Reading, Kill
  <1>13. CASE PluginDies
    BY <1>13, Types DEF PluginDies
  <1>14. ASSUME NEW k \in Kinds, NEW t \in Tasks \cup {NoTask}, CallRefused(k, t)
        PROVE  Calm
    BY <1>14 DEF CallRefused, Kill
  <1>15. CASE WriteRequest \/ Block \/ ReadFails \/ TakeStarted \/ TakeStartError \/
            TakeStopped \/ GraceEnds \/ TakeStopError \/ TakeDone \/ Return \/ CloseClient
            \/ CloseReturns
    BY <1>1, <1>15 DEF WriteRequest, Block, ReadFails, TakeStarted, TakeStartError,
       TakeStopped, GraceEnds, TakeStopError, TakeDone, Return, CloseClient, CloseReturns
  <1>16. CASE PumpEvent
    BY <1>1, <1>16 DEF PumpEvent
  <1>17. CASE PluginReads \/ PluginAnswers \/ PluginRemoves \/ PluginLife \/ PluginBad \/
            CtxEnds \/ (\E k \in Kinds, t \in Tasks \cup {NoTask} : Call(k, t)) \/ (\E t \in
            Tasks : PluginEvent(t))
    BY <1>1, <1>17 DEF PluginReads, PluginAnswers, PluginRemoves, PluginLife, PluginBad,
       CtxEnds, Call, PluginEvent
  <1>18. CASE Closed \/ UNCHANGED vars
    BY <1>1, <1>18 DEF Closed, vars
  <1> QED BY <1>2, <1>3, <1>4, <1>5, <1>6, <1>7, <1>8, <1>9, <1>10, <1>11, <1>12, <1>13,
             <1>14, <1>15, <1>16, <1>17, <1>18
         DEF Next, Caller, Pump, Plugin

\* A frame is unexpected only after something has been given up,
LEMMA GivenUpStep ==
  ASSUME Domains, GivenUp, Calm => ~PumpUnexpected, [Next]_vars
  PROVE  GivenUp'
  <1> USE DEF GivenUp, callVars, ctxVars, taskVars, procVars, plugVars, histVars
  <1>1. CASE UNCHANGED <<pump, proc, dropped>>
    BY <1>1
  <1>2. CASE CallCancelled
    BY <1>2 DEF CallCancelled, Kill
  <1>3. CASE TakeLife
    BY <1>3 DEF TakeLife, Domains, HostDomain
  <1>4. CASE CloseKills
    BY <1>4 DEF CloseKills, Kill
  <1>5. CASE PumpFinds
    BY <1>5 DEF PumpFinds, PumpGoes, Reading, Kill, Domains, HostDomain, PumpDomain
  <1>6. CASE PumpDelivers
    BY <1>6 DEF PumpDelivers, PumpGoes, Reading, Kill, Domains, HostDomain, PumpDomain
  <1>7. CASE PumpLife
    BY <1>7 DEF PumpLife, Domains, HostDomain
  <1>8. CASE PumpUnexpected
    BY <1>8 DEF PumpUnexpected, PumpGoes, Calm, Domains, HostDomain
  <1>9. CASE PumpFailsTasks
    <2>1. pump'.at = "kill" /\ pump'.frame = [pump.frame EXCEPT !.kind = pump.at]
      BY <1>9 DEF PumpFailsTasks, PumpGoes
    <2>2. pump'.frame.kind = pump.at
      BY <2>1, Types DEF AnyFrame
    <2> QED BY <1>9, <2>1, <2>2 DEF PumpFailsTasks
  <1>10. CASE PumpKills
    BY <1>10 DEF PumpKills, PumpGoes, Reading, Kill, Domains, HostDomain, PumpDomain
  <1>11. CASE PumpEnds
    BY <1>11 DEF PumpEnds, PumpGoes, Reading, Kill, Domains, HostDomain, PumpDomain
  <1>12. CASE PumpExits
    BY <1>12 DEF PumpExits, PumpGoes, Reading, Kill, Domains, HostDomain, PumpDomain
  <1>13. CASE PluginDies
    BY <1>13, Types DEF PluginDies
  <1>14. ASSUME NEW k \in Kinds, NEW t \in Tasks \cup {NoTask}, CallRefused(k, t)
        PROVE  GivenUp'
    BY <1>14 DEF CallRefused, Kill
  <1>15. CASE WriteRequest \/ Block \/ ReadFails \/ TakeStarted \/ TakeStartError \/
            TakeStopped \/ GraceEnds \/ TakeStopError \/ TakeDone \/ Return \/ CloseClient
            \/ CloseReturns
    BY <1>1, <1>15 DEF WriteRequest, Block, ReadFails, TakeStarted, TakeStartError,
       TakeStopped, GraceEnds, TakeStopError, TakeDone, Return, CloseClient, CloseReturns
  <1>16. CASE PumpEvent
    BY <1>1, <1>16 DEF PumpEvent
  <1>17. CASE PluginReads \/ PluginAnswers \/ PluginRemoves \/ PluginLife \/ PluginBad \/
            CtxEnds \/ (\E k \in Kinds, t \in Tasks \cup {NoTask} : Call(k, t)) \/ (\E t \in
            Tasks : PluginEvent(t))
    BY <1>1, <1>17 DEF PluginReads, PluginAnswers, PluginRemoves, PluginLife, PluginBad,
       CtxEnds, Call, PluginEvent
  <1>18. CASE Closed \/ UNCHANGED vars
    BY <1>1, <1>18 DEF Closed, vars
  <1> QED BY <1>2, <1>3, <1>4, <1>5, <1>6, <1>7, <1>8, <1>9, <1>10, <1>11, <1>12, <1>13,
             <1>14, <1>15, <1>16, <1>17, <1>18
         DEF Next, Caller, Pump, Plugin

\* and so is the kill that follows.
LEMMA KillStep ==
  ASSUME Domains, GivenUp, KillIsJustified, [Next]_vars
  PROVE  KillIsJustified'
  <1> USE DEF KillIsJustified, GivenUp, callVars, ctxVars, taskVars, procVars, plugVars,
          histVars
  <1>1. CASE UNCHANGED <<killed, dropped>>
    BY <1>1
  <1>2. CASE CallCancelled
    BY <1>2 DEF CallCancelled, Kill
  <1>3. CASE TakeLife
    <2>1. killed' = killed
      BY <1>3 DEF TakeLife
    <2>2. dropped => dropped'
      BY <1>3 DEF TakeLife
    <2> QED BY <2>1, <2>2
  <1>4. CASE CloseKills
    BY <1>4 DEF CloseKills, Kill
  <1>5. CASE PumpLife
    <2>1. killed' = killed
      BY <1>5 DEF PumpLife
    <2>2. dropped => dropped'
      BY <1>5 DEF PumpLife
    <2> QED BY <2>1, <2>2
  <1>6. CASE PumpKills
    BY <1>6 DEF PumpKills, Kill, Domains, HostDomain
  <1>7. ASSUME NEW k \in Kinds, NEW t \in Tasks \cup {NoTask}, CallRefused(k, t)
        PROVE  KillIsJustified'
    BY <1>7 DEF CallRefused, Kill
  <1>8. CASE WriteRequest \/ Block \/ ReadFails \/ TakeStarted \/ TakeStartError \/
            TakeStopped \/ GraceEnds \/ TakeStopError \/ TakeDone \/ Return \/ CloseClient
            \/ CloseReturns
    BY <1>1, <1>8 DEF WriteRequest, Block, ReadFails, TakeStarted, TakeStartError,
       TakeStopped, GraceEnds, TakeStopError, TakeDone, Return, CloseClient, CloseReturns
  <1>9. CASE PumpEvent \/ PumpFinds \/ PumpDelivers \/ PumpUnexpected \/ PumpFailsTasks \/
            PumpEnds \/ PumpExits
    BY <1>1, <1>9 DEF PumpEvent, PumpFinds, PumpDelivers, PumpUnexpected, PumpFailsTasks,
       PumpEnds, PumpExits
  <1>10. CASE PluginReads \/ PluginAnswers \/ PluginRemoves \/ PluginLife \/ PluginBad \/
            PluginDies \/ CtxEnds \/ (\E k \in Kinds, t \in Tasks \cup {NoTask} : Call(k,
            t)) \/ (\E t \in Tasks : PluginEvent(t))
    BY <1>1, <1>10 DEF PluginReads, PluginAnswers, PluginRemoves, PluginLife, PluginBad,
       PluginDies, CtxEnds, Call, PluginEvent
  <1>11. CASE Closed \/ UNCHANGED vars
    BY <1>1, <1>11 DEF Closed, vars
  <1> QED BY <1>2, <1>3, <1>4, <1>5, <1>6, <1>7, <1>8, <1>9, <1>10, <1>11
         DEF Next, Caller, Pump, Plugin

\* While nothing is given up, every frame is for someone.
LEMMA NothingUnexpected ==
  ASSUME Domains, CalmInv, Calm
  PROVE  ~PumpUnexpected
  <1> SUFFICES ASSUME PumpUnexpected PROVE FALSE
    OBVIOUS
  <1>1. /\ Head(down) \in AnyFrame /\ Has(down, Head(down))
        /\ Head(down).kind \notin {"fatal", "completed", "bad"} /\ Head(down).id # reg
        /\ Head(down).kind = "life" => Starter(Head(down).id) = {}
    BY SeqFacts DEF PumpUnexpected
  <1>2. AnswerSound(Head(down))
    BY <1>1 DEF CalmInv, AnswerInv, OnWay
  <1>3. Head(down).kind \in Answers \cup {"life"}
    BY <1>1, <1>2 DEF AnswerSound, AnyFrame, FrameKinds, Answers
  <1>4. CASE Head(down).kind \in Answers
    BY <1>1, <1>2, <1>4 DEF AnswerSound, CalmInv, WaiterInv, Active
  <1>5. CASE Head(down).kind = "life"
    <2>1. ~\E t \in starts : startId[t] = Head(down).id
      BY <1>1, <1>5 DEF Starter, Domains, TaskDomain
    <2>2. Head(down).id = call.req.id /\ call.at \in Waiting
      BY <1>1, <1>5, <2>1 DEF CalmInv, LifeInv, LifeKnown
    <2> QED BY <1>1, <2>2 DEF CalmInv, WaiterInv, Active
  <1> QED BY <1>3, <1>4, <1>5

\* The steps that are left while nothing is given up.
LEMMA CalmMoves ==
  ASSUME Domains, CalmInv, Calm, Calm'
  PROVE  /\ ~ReadFails /\ ~CallCancelled /\ ~CloseKills /\ ~PluginDies
         /\ ~PumpFailsTasks /\ ~PumpKills /\ ~PumpEnds /\ ~PumpExits /\ ~PumpUnexpected
         /\ \A k, t : ~CallRefused(k, t)
         /\ WriteRequest => up' = Append(up, call.req) /\ call'.at = "wait" /\ starts' = starts
         /\ TakeLife => call'.at = "wait" /\ starts' = starts
         /\ PumpLife => starts' = starts
         /\ PumpDelivers =>
              /\ UNCHANGED <<reg, shut>> /\ pump' = Reading
              /\ \/ queue' = queue /\ pump.frame.id # call.req.id
                 \/ queue' = Append(queue, pump.frame) /\ pump.frame.id = call.req.id
  <1> USE DEF callVars, ctxVars, taskVars, procVars, plugVars, histVars
  <1>1. ~ReadFails
    <2>1. ASSUME ReadFails
          PROVE  Has(queue, Head(queue)) /\ Head(queue) \in AnyFrame /\ Head(queue).kind = "err"
      BY <2>1, SeqFacts DEF ReadFails, CalmInv, WaiterInv
    <2> QED BY <2>1 DEF CalmInv, AnswerInv, OnWay, InHand, AnswerSound
  <1>2. ~CallCancelled /\ ~CloseKills /\ ~PluginDies /\ ~PumpKills
    BY DEF CallCancelled, CloseKills, PluginDies, PumpKills, Kill, Calm
  <1>3. ~PumpFailsTasks /\ ~PumpEnds /\ ~PumpExits /\ ~PumpUnexpected
    BY DEF PumpFailsTasks, PumpEnds, PumpExits, PumpUnexpected, PumpGoes, Calm
  <1>4. \A k, t : ~CallRefused(k, t)
    BY DEF CallRefused, Kill, Calm
  <1>5. ASSUME WriteRequest
        PROVE  up' = Append(up, call.req) /\ call'.at = "wait" /\ starts' = starts
    <2>1. ~closed /\ proc # "dead"
      BY <1>5 DEF WriteRequest, Calm, CalmInv, WaiterInv
    <2> QED BY <1>5, <2>1, Types DEF WriteRequest, Goto
  <1>6. ASSUME TakeLife PROVE call'.at = "wait" /\ starts' = starts
    BY <1>6, Types DEF TakeLife, Calm, Goto
  <1>7. ASSUME PumpLife PROVE starts' = starts
    BY <1>7 DEF PumpLife, Calm
  <1>8. ASSUME PumpDelivers
        PROVE  /\ UNCHANGED <<reg, shut>> /\ pump' = Reading
               /\ \/ queue' = queue /\ pump.frame.id # call.req.id
                  \/ queue' = Append(queue, pump.frame) /\ pump.frame.id = call.req.id
    BY <1>8 DEF PumpDelivers, PumpGoes, Calm
  <1> QED BY <1>1, <1>2, <1>3, <1>4, <1>5, <1>6, <1>7, <1>8

\* An answer is alone in a sequence that holds one at most.
LEMMA SingleFacts ==
  ASSUME NEW S, NEW s \in Seq(S), Single(s)
  PROVE  /\ s # <<>> => /\ Single(Tail(s))
                        /\ Head(s).kind \in Answers => \A g : Has(Tail(s), g) => g.kind \notin Answers
         /\ \A x \in S : x.kind \notin Answers \/ (\A g : Has(s, g) => g.kind \notin Answers)
                           => Single(Append(s, x))
  <1>1. ASSUME s # <<>> PROVE Single(Tail(s))
    <2>1. ASSUME NEW i \in DOMAIN Tail(s), NEW j \in DOMAIN Tail(s),
                 Tail(s)[i].kind \in Answers, Tail(s)[j].kind \in Answers
          PROVE  i = j
      <3>1. /\ Tail(s)[i] = s[i + 1] /\ Tail(s)[j] = s[j + 1]
            /\ i + 1 \in DOMAIN s /\ j + 1 \in DOMAIN s /\ i \in Nat /\ j \in Nat
        BY <1>1, <2>1, TailFacts
      <3>2. i + 1 = j + 1
        BY <2>1, <3>1 DEF Single
      <3> QED BY <3>1, <3>2
    <2> QED BY <2>1 DEF Single
  <1>2. ASSUME s # <<>>, Head(s).kind \in Answers, NEW g, Has(Tail(s), g)
        PROVE  g.kind \notin Answers
    <2>1. PICK i \in DOMAIN Tail(s) : Tail(s)[i] = g
      BY <1>2 DEF Has
    <2>2. /\ Tail(s)[i] = s[i + 1] /\ i + 1 \in DOMAIN s /\ 1 \in DOMAIN s /\ i + 1 # 1
          /\ Head(s) = s[1]
      BY <1>2, <2>1, TailFacts
    <2> QED BY <1>2, <2>1, <2>2 DEF Single
  <1>3. ASSUME NEW x \in S, x.kind \notin Answers \/ (\A g : Has(s, g) => g.kind \notin Answers)
        PROVE  Single(Append(s, x))
    <2>1. ASSUME NEW i \in DOMAIN Append(s, x), NEW j \in DOMAIN Append(s, x),
                 Append(s, x)[i].kind \in Answers, Append(s, x)[j].kind \in Answers
          PROVE  i = j
      <3>1. CASE i \in DOMAIN s /\ j \in DOMAIN s
        BY <2>1, <3>1, AppendFacts DEF Single
      <3>2. CASE i \in DOMAIN s /\ j = Len(s) + 1
        <4>1. Append(s, x)[i] = s[i] /\ Append(s, x)[j] = x
          BY <3>2, AppendFacts
        <4> QED BY <1>3, <2>1, <3>2, <4>1 DEF Has
      <3>3. CASE j \in DOMAIN s /\ i = Len(s) + 1
        <4>1. Append(s, x)[j] = s[j] /\ Append(s, x)[i] = x
          BY <3>3, AppendFacts
        <4> QED BY <1>3, <2>1, <3>3, <4>1 DEF Has
      <3> QED BY <2>1, <3>1, <3>2, <3>3, AppendFacts
    <2> QED BY <2>1 DEF Single
  <1> QED BY <1>1, <1>2, <1>3

\* A frame that may not follow a final answer does not.
LEMMA NoneAfterFacts ==
  ASSUME NEW S, NEW s \in Seq(S), NEW g
  PROVE  /\ (\A h : Has(s, h) => h.kind \notin Final) => NoneAfter(s, g)
         /\ NoneAfter(s, g) /\ s # <<>> =>
              /\ NoneAfter(Tail(s), g)
              /\ Head(s).kind \in Final => ~Has(Tail(s), g)
         /\ NoneAfter(s, g) => \A x \in S :
              x # g \/ (\A h : Has(s, h) => h.kind \notin Final) => NoneAfter(Append(s, x), g)
  <1>1. ASSUME \A h : Has(s, h) => h.kind \notin Final PROVE NoneAfter(s, g)
    BY <1>1 DEF Has, NoneAfter
  <1>2. ASSUME NoneAfter(s, g), s # <<>> PROVE NoneAfter(Tail(s), g)
    <2>1. ASSUME NEW i \in DOMAIN Tail(s), NEW j \in DOMAIN Tail(s), i < j,
                 Tail(s)[i].kind \in Final
          PROVE  Tail(s)[j] # g
      <3>1. /\ Tail(s)[i] = s[i + 1] /\ Tail(s)[j] = s[j + 1]
            /\ i + 1 \in DOMAIN s /\ j + 1 \in DOMAIN s /\ i + 1 < j + 1
        BY <1>2, <2>1, TailFacts
      <3> QED BY <1>2, <2>1, <3>1 DEF NoneAfter
    <2> QED BY <2>1 DEF NoneAfter
  <1>3. ASSUME NoneAfter(s, g), s # <<>>, Head(s).kind \in Final, Has(Tail(s), g) PROVE FALSE
    <2>1. PICK i \in DOMAIN Tail(s) : Tail(s)[i] = g
      BY <1>3 DEF Has
    <2>2. /\ Tail(s)[i] = s[i + 1] /\ i + 1 \in DOMAIN s /\ 1 \in DOMAIN s /\ 1 < i + 1
          /\ Head(s) = s[1]
      BY <1>3, <2>1, TailFacts
    <2> QED BY <1>3, <2>1, <2>2 DEF NoneAfter
  <1>4. ASSUME NoneAfter(s, g), NEW x \in S, x # g \/ (\A h : Has(s, h) => h.kind \notin Final)
        PROVE  NoneAfter(Append(s, x), g)
    <2>1. ASSUME NEW i \in DOMAIN Append(s, x), NEW j \in DOMAIN Append(s, x), i < j,
                 Append(s, x)[i].kind \in Final
          PROVE  Append(s, x)[j] # g
      <3>1. i \in DOMAIN s /\ Append(s, x)[i] = s[i]
        BY <2>1, AppendFacts
      <3>2. CASE j \in DOMAIN s
        BY <1>4, <2>1, <3>1, <3>2, AppendFacts DEF NoneAfter
      <3>3. CASE j = Len(s) + 1
        BY <1>4, <2>1, <3>1, <3>3, AppendFacts DEF Has
      <3> QED BY <2>1, <3>2, <3>3, AppendFacts
    <2> QED BY <2>1 DEF NoneAfter
  <1> QED BY <1>1, <1>2, <1>3, <1>4

-----------------------------------------------------------------------------
(* The waiter and the requests of the call.                                *)

\* Once the call has its answer there is no other.
LEMMA AnswerTaken ==
  ASSUME Domains, CalmInv, Calm,
         TakeStarted \/ TakeStartError \/ TakeStopped \/ TakeStopError \/ TakeDone
  PROVE  /\ Head(queue) \in AnyFrame /\ InHand(Head(queue)) /\ AnswerSound(Head(queue))
         /\ Head(queue).kind \in Answers /\ up = <<>> /\ ~Asked /\ call.at \in Waiting
         /\ UNCHANGED <<down, up, plug, srv, pump, startId>>
         /\ \A g \in AnyFrame : g.kind \in Answers => ~OnWay(g)'
         /\ \A g \in AnyFrame : InHand(g)' => InHand(g)
  <1> USE DEF taskVars, plugVars
  <1>1. /\ queue # <<>> /\ queue' = Tail(queue) /\ Head(queue).kind \in Answers
        /\ UNCHANGED <<down, up, plug, srv, pump, startId>>
    <2>1. CASE TakeStarted \/ TakeStartError
      BY <2>1 DEF TakeStarted, TakeStartError, Take, Answers
    <2>2. CASE TakeStopped \/ TakeStopError \/ TakeDone
      BY <2>2 DEF TakeStopped, TakeStopError, TakeDone, Take, Answers
    <2> QED BY <2>1, <2>2
  <1>2. Head(queue) \in AnyFrame /\ Has(queue, Head(queue))
    BY <1>1, SeqFacts
  <1>3. AnswerSound(Head(queue)) /\ InHand(Head(queue))
    BY <1>2 DEF CalmInv, AnswerInv, OnWay, InHand
  <1>4. ASSUME NEW g \in AnyFrame, g.kind \in Answers PROVE ~OnWay(g)'
    <2>1. ~Has(down, g)
      BY <1>1, <1>2, <1>3, <1>4 DEF CalmInv, OneAnswer
    <2>2. ~(pump.at = "deliver" /\ pump.frame = g)
      BY <1>1, <1>2, <1>4 DEF CalmInv, OneAnswer
    <2>3. ~Has(queue', g)
      BY <1>1, <1>4, SingleFacts, UpSeq DEF CalmInv, OneAnswer
    <2> QED BY <1>1, <2>1, <2>2, <2>3 DEF OnWay, InHand
  <1>5. \A g \in AnyFrame : InHand(g)' => InHand(g)
    BY <1>1, QueueFacts DEF InHand
  <1> QED BY <1>1, <1>2, <1>3, <1>4, <1>5 DEF AnswerSound

\* The call in progress keeps its waiter.
LEMMA WaiterStep ==
  ASSUME Domains, RequestInv, TaskInv, FrameInv, FlushInv, CalmInv, Calm, Calm', [Next]_vars
  PROVE  WaiterInv'
  <1> USE DEF CalmInv, WaiterInv, callVars, ctxVars, taskVars, procVars, plugVars, histVars
  <1>1. CASE UNCHANGED <<call, reg, shut, closed>>
    BY <1>1
  <1>2. CASE Moves /\ UNCHANGED <<closed, reg, shut>>
    BY <1>2 DEF Moves, Active, Waiting
  <1>3. CASE ReadFails
    BY <1>3, CalmMoves
  <1>4. CASE CallCancelled
    BY <1>4, CalmMoves
  <1>5. CASE Return
    BY <1>5 DEF Return, Idle, Active, Waiting
  <1>6. CASE CloseClient
    BY <1>6 DEF CloseClient, Idle, Active, Waiting
  <1>7. CASE CloseKills
    BY <1>7, CalmMoves
  <1>8. CASE CloseReturns
    BY <1>8, Types DEF CloseReturns, Goto, Active, Waiting
  <1>9. CASE PumpDelivers
    BY <1>9, CalmMoves DEF PumpDelivers
  <1>10. CASE PumpUnexpected
    BY <1>10, CalmMoves
  <1>11. CASE PumpKills
    BY <1>11, CalmMoves
  <1>12. CASE PumpEnds
    BY <1>12, CalmMoves
  <1>13. ASSUME NEW k \in Kinds, NEW t \in Tasks \cup {NoTask}, CallRefused(k, t)
        PROVE  WaiterInv'
    BY <1>13, CalmMoves
  <1>14. ASSUME NEW k \in Kinds, NEW t \in Tasks \cup {NoTask}, Call(k, t)
        PROVE  WaiterInv'
    BY <1>14 DEF Call, Idle, Active, Waiting
  <1>15. CASE WriteRequest \/ Block \/ TakeLife \/ GraceEnds
    BY <1>2, <1>15, CallerMoves DEF WriteRequest, Block, TakeLife, GraceEnds
  <1>16. CASE TakeStarted \/ TakeStartError \/ TakeStopped \/ TakeStopError \/ TakeDone
    BY <1>2, <1>16, CallerMoves DEF TakeStarted, TakeStartError, TakeStopped, TakeStopError,
       TakeDone
  <1>17. CASE PumpEvent \/ PumpFinds \/ PumpLife \/ PumpFailsTasks \/ PumpExits
    BY <1>1, <1>17 DEF PumpEvent, PumpFinds, PumpLife, PumpFailsTasks, PumpExits
  <1>18. CASE PluginReads \/ PluginAnswers \/ PluginRemoves \/ PluginLife \/ PluginBad \/
            PluginDies \/ CtxEnds \/ (\E t \in Tasks : PluginEvent(t))
    BY <1>1, <1>18 DEF PluginReads, PluginAnswers, PluginRemoves, PluginLife, PluginBad,
       PluginDies, CtxEnds, PluginEvent
  <1>19. CASE Closed \/ UNCHANGED vars
    BY <1>1, <1>19 DEF Closed, vars
  <1> QED BY <1>2, <1>3, <1>4, <1>5, <1>6, <1>7, <1>8, <1>9, <1>10, <1>11, <1>12, <1>13,
             <1>14, <1>15, <1>16, <1>17, <1>18, <1>19
         DEF Next, Caller, Pump, Plugin

\* No request but that of the call is on its way or being handled.
LEMMA AskedStep ==
  ASSUME Domains, RequestInv, TaskInv, FrameInv, FlushInv, CalmInv, Calm, Calm', [Next]_vars
  PROVE  AskedInv'
  <1> USE DEF CalmInv, AskedInv, callVars, ctxVars, taskVars, procVars, plugVars, histVars
  <1>1. CASE UNCHANGED <<call, up, plug, srv>>
    BY <1>1 DEF Asked
  <1>2. CASE UNCHANGED <<up, plug, srv>> /\ up = <<>> /\ ~Asked
    BY <1>2, SeqFacts DEF Asked
  <1>3. CASE WriteRequest
    <2>1. /\ up' = Append(up, call.req) /\ call'.at = "wait" /\ call'.req = call.req
          /\ UNCHANGED <<plug, srv>> /\ call.at = "write"
      BY <1>3, CalmMoves, CallerMoves DEF WriteRequest, Moves
    <2>2. \A r \in Requests : Has(up', r) => Has(up, r) \/ r = call.req
      BY <2>1, UpSeq, Types, AppendFacts
    <2>3. ~Asked /\ \A r \in Requests : ~Has(up, r)
      BY <2>1 DEF Waiting
    <2> QED BY <2>1, <2>2, <2>3 DEF Asked, Waiting
  <1>4. CASE Block
    <2>1. /\ UNCHANGED <<up, plug, srv>> /\ call.at \in Waiting /\ call'.at \in Waiting
          /\ call'.req = call.req
      BY <1>4, Types DEF Block, Goto, Waiting
    <2> QED BY <2>1 DEF Asked
  <1>5. CASE ReadFails
    BY <1>5, CalmMoves
  <1>6. CASE CallCancelled
    BY <1>6, CalmMoves
  <1>7. CASE TakeLife
    <2>1. /\ UNCHANGED <<up, plug, srv>> /\ call.at \in Waiting /\ call'.at \in Waiting
          /\ call'.req = call.req
      BY <1>7, CallerMoves, CalmMoves DEF TakeLife, Take, Waiting, Moves
    <2> QED BY <2>1 DEF Asked
  <1>8. CASE GraceEnds
    <2>1. UNCHANGED <<up, plug, srv>> /\ call.at \notin Waiting
      BY <1>8 DEF GraceEnds, Waiting
    <2> QED BY <2>1 DEF Asked
  <1>9. CASE Return
    <2>1. UNCHANGED <<up, plug, srv>> /\ call.at \notin Waiting
      BY <1>9 DEF Return, Waiting
    <2> QED BY <2>1 DEF Asked
  <1>10. CASE CloseClient
    <2>1. UNCHANGED <<up, plug, srv>> /\ call.at \notin Waiting
      BY <1>10 DEF CloseClient, Idle, Waiting
    <2> QED BY <2>1 DEF Asked
  <1>11. CASE CloseReturns
    <2>1. UNCHANGED <<up, plug, srv>> /\ call.at \notin Waiting
      BY <1>11 DEF CloseReturns, Waiting
    <2> QED BY <2>1 DEF Asked
  <1>12. CASE PluginReads
    <2>1. /\ up # <<>> /\ plug' = Head(up) /\ up' = Tail(up) /\ UNCHANGED <<call, srv>>
      BY <1>12 DEF PluginReads
    <2>2. Head(up) = call.req /\ call.at \in Waiting
      BY <2>1, SeqFacts
    <2>3. \A r \in Requests : Has(up', r) => r = call.req /\ call.req.id < r.id
      BY <2>1, <2>2, SeqFacts, OrderedFacts, UpSeq, Types DEF RequestInv, UpOrder
    <2>4. \A r \in Requests : ~Has(up', r)
      BY <2>3, Types
    <2> QED BY <2>1, <2>2, <2>4
  <1>13. CASE PluginAnswers
    <2>1. UNCHANGED <<call, up>> /\ Asked
      BY <1>13, ServerMoves DEF PluginAnswers, Asked
    <2>2. ~Asked'
      <3>1. plug' = NoReq \/ (plug.kind = "stop" /\ plug' = plug /\ srv'[plug.t] = "flushing")
        BY <1>13 DEF PluginAnswers, Domains, PlugDomain, RequestInv, NewReqs, NewReq, Sound,
           NoReq
      <3> QED BY <3>1 DEF Asked
    <2> QED BY <2>1, <2>2
  <1>14. CASE PluginRemoves
    <2>1. UNCHANGED <<call, up>> /\ ~Asked'
      BY <1>14 DEF PluginRemoves, Asked
    <2> QED BY <2>1
  <1>15. ASSUME NEW k \in Kinds, NEW t \in Tasks \cup {NoTask}, Call(k, t)
        PROVE  AskedInv'
    <2>1. UNCHANGED <<up, plug, srv>> /\ call.at \notin Waiting
      BY <1>15 DEF Call, Idle, Waiting
    <2> QED BY <2>1 DEF Asked
  <1>16. CASE TakeStarted \/ TakeStartError \/ TakeStopped \/ TakeStopError \/ TakeDone
    BY <1>2, <1>16, AnswerTaken DEF TakeStarted, TakeStartError, TakeStopped, TakeStopError,
       TakeDone
  <1>17. CASE CloseKills
    BY <1>1, <1>17 DEF CloseKills
  <1>18. CASE PumpEvent \/ PumpFinds \/ PumpDelivers \/ PumpLife \/ PumpUnexpected \/
            PumpFailsTasks \/ PumpKills \/ PumpEnds \/ PumpExits
    BY <1>1, <1>18 DEF PumpEvent, PumpFinds, PumpDelivers, PumpLife, PumpUnexpected,
       PumpFailsTasks, PumpKills, PumpEnds, PumpExits
  <1>19. CASE PluginLife \/ PluginBad \/ PluginDies \/ CtxEnds \/ (\E k \in Kinds, t \in
            Tasks \cup {NoTask} : CallRefused(k, t)) \/ (\E t \in Tasks : PluginEvent(t))
    BY <1>1, <1>19 DEF PluginLife, PluginBad, PluginDies, CtxEnds, CallRefused, PluginEvent
  <1>20. CASE Closed \/ UNCHANGED vars
    BY <1>1, <1>20 DEF Closed, vars
  <1> QED BY <1>2, <1>3, <1>4, <1>5, <1>6, <1>7, <1>8, <1>9, <1>10, <1>11, <1>12, <1>13,
             <1>14, <1>15, <1>16, <1>17, <1>18, <1>19, <1>20
         DEF Next, Caller, Pump, Plugin

-----------------------------------------------------------------------------
(* The tasks in bgStarts.                                                  *)

\* A task leaves bgStarts, while nothing is given up, with an answer that says the
\* plugin does not run it.
LEMMA StartsLeft ==
  ASSUME Domains, RequestInv, FrameInv, CalmInv, Calm,
         TakeStartError \/ GraceEnds \/ TakeStopError
  PROVE  /\ UNCHANGED srv /\ call'.at = "return"
         /\ \A t \in Tasks : t \in starts /\ t \notin starts' => srv[t] # "active"
  <1> USE DEF taskVars, plugVars
  <1>1. \A a : Goto(a) => call'.at = a
    BY Types DEF Goto
  <1>2. UNCHANGED srv /\ call'.at = "return"
    BY <1>1 DEF TakeStartError, GraceEnds, TakeStopError
  <1>3. ASSUME NEW v, Finish(CallTasks, v) PROVE \A t \in starts \ starts' : t = call.req.t
    BY <1>3 DEF Finish, CallTasks
  <1>4. CASE TakeStartError
    <2>1. Head(queue).kind = "startError"
      BY <1>4 DEF TakeStartError, Take
    <2>2. srv[call.req.t] = "none"
      BY <1>4, <2>1, AnswerTaken DEF AnswerSound
    <2>3. \A t \in starts \ starts' : t = call.req.t
      BY <1>3, <1>4 DEF TakeStartError, FailCall
    <2> QED BY <1>2, <2>2, <2>3
  <1>5. CASE GraceEnds
    <2>1. StoppedCall
      BY <1>5 DEF GraceEnds, FrameInv, GraceSound
    <2>2. \A t \in starts \ starts' : t = call.req.t
      BY <1>3, <1>5 DEF GraceEnds
    <2> QED BY <1>2, <2>1, <2>2 DEF StoppedCall
  <1>6. CASE TakeStopError
    <2>1. CASE Head(queue).kind = "stopError"
      BY <1>2, <1>6, <2>1 DEF TakeStopError, FailStop
    <2>2. CASE Head(queue).kind # "stopError"
      <3>1. Head(queue).kind = "refused"
        BY <1>6, <2>2 DEF TakeStopError, Take
      <3>2. StoppedCall
        BY <1>6, <3>1, AnswerTaken DEF AnswerSound
      <3>3. \A t \in starts \ starts' : t = call.req.t
        BY <1>3, <1>6, <2>2 DEF TakeStopError, FailCall
      <3> QED BY <1>2, <3>2, <3>3 DEF StoppedCall
    <2> QED BY <2>1, <2>2
  <1> QED BY <1>4, <1>5, <1>6

\* The task of a start in progress, and one that runs, are in bgStarts.
LEMMA StartsStep ==
  ASSUME Domains, RequestInv, TaskInv, FrameInv, FlushInv, CalmInv, Calm, Calm', [Next]_vars
  PROVE  StartsInv'
  <1> USE DEF CalmInv, StartsInv, callVars, ctxVars, taskVars, procVars, plugVars, histVars
  <1>1. CASE UNCHANGED <<call, starts, srv>>
    BY <1>1
  <1>2. CASE UNCHANGED srv /\ call'.at = "return" /\ \A t \in Tasks : t \in
          starts /\ t \notin starts' => srv[t] # "active"
    BY <1>2 DEF Waiting
  <1>3. CASE UNCHANGED <<starts, srv>> /\ call'.req = call.req /\ (call'.at \in Waiting =>
          call.at \in {"write"} \cup Waiting) /\ call'.at # "write"
    BY <1>3
  <1>4. CASE ReadFails
    BY <1>4, CalmMoves
  <1>5. CASE CallCancelled
    BY <1>5, CalmMoves
  <1>6. CASE Return
    BY <1>6 DEF Return, Idle, Waiting
  <1>7. CASE CloseClient
    BY <1>7 DEF CloseClient, Idle, Waiting
  <1>8. CASE CloseReturns
    BY <1>8, Types DEF CloseReturns, Goto, Waiting
  <1>9. CASE PumpLife
    BY <1>9, CalmMoves DEF PumpLife
  <1>10. CASE PumpFailsTasks
    BY <1>10, CalmMoves
  <1>11. CASE PumpExits
    BY <1>11, CalmMoves
  <1>12. CASE PluginAnswers
    <2>1. UNCHANGED <<call, starts>>
      BY <1>12 DEF PluginAnswers
    <2>2. ASSUME NEW t \in Tasks, srv'[t] = "active", srv[t] # "active" PROVE t \in starts
      <3>1. plug.kind = "start" /\ t = plug.t /\ plug # NoReq
        BY <1>12, <2>2, ServerMoves
      <3>2. plug = call.req /\ call.at \in Waiting
        BY <3>1 DEF AskedInv, Asked
      <3> QED BY <3>1, <3>2
    <2> QED BY <2>1, <2>2
  <1>13. CASE PluginRemoves
    <2>1. UNCHANGED <<call, starts>> /\ \A t \in Tasks : srv'[t] = "active" => srv[t] = "active"
      BY <1>13, ServerMoves DEF PluginRemoves
    <2> QED BY <2>1
  <1>14. ASSUME NEW k \in Kinds, NEW t \in Tasks \cup {NoTask}, CallRefused(k, t)
        PROVE  StartsInv'
    BY <1>14, CalmMoves
  <1>15. ASSUME NEW k \in Kinds, NEW t \in Tasks \cup {NoTask}, Call(k, t)
        PROVE  StartsInv'
    <2>1. UNCHANGED srv /\ starts \subseteq starts'
          /\ (call'.req.kind = "start" => call'.req.t \in starts')
      BY <1>15 DEF Call, RegisterStart
    <2> QED BY <2>1
  <1>16. CASE TakeStartError \/ GraceEnds \/ TakeStopError
    BY <1>2, <1>16, StartsLeft DEF TakeStartError, GraceEnds, TakeStopError
  <1>17. CASE WriteRequest \/ Block \/ TakeLife \/ TakeStarted \/ TakeStopped \/ TakeDone
    BY <1>3, <1>17, CalmMoves, CallerMoves DEF Moves, Waiting, Take, WriteRequest, Block,
       TakeLife, TakeStarted, TakeStopped, TakeDone
  <1>18. CASE CloseKills
    BY <1>1, <1>18 DEF CloseKills
  <1>19. CASE PumpEvent \/ PumpFinds \/ PumpDelivers \/ PumpUnexpected \/ PumpKills \/
            PumpEnds
    BY <1>1, <1>19 DEF PumpEvent, PumpFinds, PumpDelivers, PumpUnexpected, PumpKills,
       PumpEnds
  <1>20. CASE PluginReads \/ PluginLife \/ PluginBad \/ PluginDies \/ CtxEnds \/ (\E t \in
            Tasks : PluginEvent(t))
    BY <1>1, <1>20 DEF PluginReads, PluginLife, PluginBad, PluginDies, CtxEnds, PluginEvent
  <1>21. CASE Closed \/ UNCHANGED vars
    BY <1>1, <1>21 DEF Closed, vars
  <1> QED BY <1>2, <1>3, <1>4, <1>5, <1>6, <1>7, <1>8, <1>9, <1>10, <1>11, <1>12, <1>13,
             <1>14, <1>15, <1>16, <1>17, <1>18, <1>19, <1>20, <1>21
         DEF Next, Caller, Pump, Plugin

-----------------------------------------------------------------------------
(* The answers.                                                            *)

\* What the plugin writes, and when.
SentAnswer(f) ==
  /\ f.id = plug.id /\ f.kind \in Answers
  /\ f.kind \in {"started", "startError"} => plug.kind = "start"
  /\ f.kind \in {"stopped", "stopError", "refused"} => plug.kind = "stop"
  /\ f.kind = "done" => plug.kind = "other"
  /\ f.kind = "startError" => UNCHANGED srv
  /\ f.kind = "stopped" => srv' = [srv EXCEPT ![plug.t] = "flushing"]
  /\ f.kind = "refused" => srv[plug.t] = "removed" /\ UNCHANGED srv
SentLife(f) ==
  /\ f.kind = "life"
  /\ \/ plug.kind \in {"start", "other"} /\ f.id = plug.id
     \/ \E t \in Tasks : srv[t] = "active" /\ f.id = startId[t]

\* What a frame says that the plugin has just written.
LEMMA SentFrame ==
  ASSUME Domains, NEW f \in AnyFrame, Sent(f)
  PROVE  /\ \/ PluginAnswers /\ SentAnswer(f)
            \/ PluginLife /\ SentLife(f)
            \/ f.kind \in {"bad", "fatal", "completed"} /\ UNCHANGED <<plug, srv>>
         /\ UNCHANGED <<call, up, queue, pump, starts, startId>>
  <1> USE DEF callVars, taskVars
  <1>1. \A g \in AnyFrame : Append(down, f) = Append(down, g) => f = g
    BY UpSeq, AppendFacts
  <1>2. UNCHANGED <<call, up, queue, pump, starts, startId>>
    BY DEF Sent, PluginAnswers, PluginLife, PluginBad, PluginEvent
  <1>3. CASE PluginAnswers
    <2>1. PICK k \in FrameKinds :
            /\ down' = Append(down, Frame(plug.id, k))
            /\ k \in {"started", "startError", "stopped", "stopError", "refused", "done"}
            /\ k \in {"started", "startError"} => plug.kind = "start"
            /\ k \in {"stopped", "stopError", "refused"} => plug.kind = "stop"
            /\ k = "done" => plug.kind = "other"
            /\ k = "startError" => UNCHANGED srv
            /\ k = "stopped" => srv' = [srv EXCEPT ![plug.t] = "flushing"]
            /\ k = "refused" => srv[plug.t] = "removed" /\ UNCHANGED srv
      BY <1>3 DEF PluginAnswers, Send, FrameKinds
    <2>2. Frame(plug.id, k) \in AnyFrame
      BY DEF Domains, PlugDomain, Requests, Frame, AnyFrame
    <2>3. f.id = plug.id /\ f.kind = k
      BY <1>1, <2>1, <2>2 DEF Sent, Frame
    <2> QED BY <1>2, <1>3, <2>1, <2>3 DEF SentAnswer, Answers
  <1>4. CASE PluginLife
    <2>1. PICK i \in {startId[t] : t \in {u \in Tasks : srv[u] = "active"}}
                   \cup (IF plug.kind \in {"start", "other"} THEN {plug.id} ELSE {}) :
            down' = Append(down, Frame(i, "life"))
      BY <1>4 DEF PluginLife, Send
    <2>2. i \in 0..MaxCalls
      BY <2>1 DEF Domains, TaskDomain, PlugDomain, Requests
    <2>3. Frame(i, "life") \in AnyFrame
      BY <2>2 DEF Frame, AnyFrame, FrameKinds
    <2>4. f.id = i /\ f.kind = "life"
      BY <1>1, <2>1, <2>3 DEF Sent, Frame
    <2>5. SentLife(f)
      BY <2>1, <2>4 DEF SentLife
    <2> QED BY <1>2, <1>4, <2>5
  <1>5. CASE PluginBad
    <2>1. Frame(0, "bad") \in AnyFrame
      BY BoundsAssumption DEF Frame, AnyFrame, FrameKinds
    <2>2. f.kind = "bad"
      BY <1>1, <1>5, <2>1 DEF Sent, Send, Frame, PluginBad
    <2> QED BY <1>2, <1>5, <2>2 DEF PluginBad
  <1>6. ASSUME NEW t \in Tasks, PluginEvent(t)
        PROVE  f.kind \in {"fatal", "completed"} /\ UNCHANGED <<plug, srv>>
    <2>1. PICK k \in {"fatal", "completed"} : down' = Append(down, Frame(startId[t], k))
      BY <1>6 DEF PluginEvent, Send
    <2>2. Frame(startId[t], k) \in AnyFrame
      BY DEF Frame, AnyFrame, FrameKinds, Domains, TaskDomain
    <2>3. f.kind = k
      BY <1>1, <2>1, <2>2 DEF Sent, Frame
    <2> QED BY <1>6, <2>1, <2>3 DEF PluginEvent
  <1> QED BY <1>2, <1>3, <1>4, <1>5, <1>6 DEF Sent

\* What the plugin answers is sound.
LEMMA AnswerSent ==
  ASSUME Domains, RequestInv, CalmInv, Calm, AskedInv', NEW f \in AnyFrame, Sent(f),
         f.kind # "life", f.kind \notin {"bad", "fatal", "completed"}
  PROVE  /\ AnswerSound(f)' /\ Asked /\ plug = call.req /\ PluginAnswers /\ SentAnswer(f)
  <1>1. PluginAnswers /\ SentAnswer(f) /\ UNCHANGED <<call, up>>
    BY SentFrame DEF SentLife
  <1>2. Asked /\ plug = call.req /\ call.at \in Waiting
    <2>1. Asked
      BY <1>1, ServerMoves DEF PluginAnswers, Asked
    <2> QED BY <2>1 DEF CalmInv, AskedInv
  <1>3. up = <<>>
    BY <1>2, SeqFacts DEF CalmInv, AskedInv
  <1>4. ~Asked'
    <2>1. plug' = NoReq \/ (plug.kind = "stop" /\ plug' = plug /\ srv'[plug.t] = "flushing")
      BY <1>1, <1>2, ServerMoves
         DEF PluginAnswers, Domains, PlugDomain, RequestInv, NewReqs, NewReq, Sound, NoReq
    <2> QED BY <2>1 DEF Asked
  <1>5. f.kind = "startError" => call.req.kind = "start" /\ srv'[call.req.t] = "none"
    BY <1>1, <1>2, ServerMoves DEF SentAnswer, RequestInv, NewReqs, NewReq
  <1>6. f.kind \in {"stopped", "refused"} => StoppedCall'
    <2>1. f.kind = "stopped" => srv'[plug.t] = "flushing"
      BY <1>1, ServerMoves DEF SentAnswer, Domains, PlugDomain, RequestInv, NewReqs, NewReq,
         Sound
    <2> QED BY <1>1, <1>2, <2>1 DEF SentAnswer, StoppedCall
  <1>7. f.kind = "stopError" => call.req.kind = "stop"
    BY <1>1, <1>2 DEF SentAnswer
  <1> QED BY <1>1, <1>2, <1>3, <1>4, <1>5, <1>6, <1>7 DEF AnswerSound, SentAnswer, Answers

\* An answer on its way stays one to the call in progress.
LEMMA AnswerKept ==
  ASSUME Domains, RequestInv, TaskInv, FrameInv, FlushInv, CalmInv, Calm, Calm', NEW f \in
         AnyFrame, OnWay(f), OnWay(f)', [Next]_vars
  PROVE  AnswerSound(f)'
  <1> USE DEF callVars, ctxVars, taskVars, procVars, plugVars, histVars
  <1>0. /\ AnswerSound(f)
        /\ f.kind \in Answers => call.at \in Waiting /\ up = <<>> /\ ~Asked
    BY DEF CalmInv, AnswerInv, AnswerSound
  <1>1. CASE UNCHANGED <<call, up, plug, srv>>
    BY <1>0, <1>1 DEF AnswerSound, Asked, StoppedCall
  <1>2. CASE UNCHANGED <<up, plug, srv>> /\ call'.at \in Waiting /\ call'.req = call.req
    BY <1>0, <1>2 DEF AnswerSound, Asked, StoppedCall
  <1>3. CASE f.kind \notin Answers
    BY <1>0, <1>3 DEF AnswerSound
  <1>4. CASE WriteRequest
    BY <1>0, <1>4 DEF WriteRequest, AnswerSound, Idle, Waiting
  <1>5. CASE ReadFails
    BY <1>5, CalmMoves
  <1>6. CASE CallCancelled
    BY <1>6, CalmMoves
  <1>7. CASE GraceEnds
    BY <1>0, <1>7 DEF GraceEnds, AnswerSound, Idle, Waiting
  <1>8. CASE Return
    BY <1>0, <1>8 DEF Return, AnswerSound, Idle, Waiting
  <1>9. CASE CloseClient
    BY <1>0, <1>9 DEF CloseClient, AnswerSound, Idle, Waiting
  <1>10. CASE CloseReturns
    BY <1>0, <1>10 DEF CloseReturns, AnswerSound, Idle, Waiting
  <1>11. CASE PluginReads
    BY <1>0, <1>11 DEF PluginReads, AnswerSound
  <1>12. CASE PluginAnswers
    <2>1. Asked
      BY <1>12, ServerMoves DEF PluginAnswers, Asked
    <2> QED BY <1>0, <2>1 DEF AnswerSound
  <1>13. CASE PluginRemoves
    <2>1. UNCHANGED <<call, up>> /\ ~Asked'
      BY <1>13 DEF PluginRemoves, Asked
    <2>2. srv[call.req.t] = "none" /\ call.req.t \in Tasks => srv'[call.req.t] = "none"
      BY <1>13, ServerMoves DEF PluginRemoves
    <2>3. call.req.kind # "other" /\ call.at \in Waiting => call.req.t \in Tasks
      BY DEF RequestInv, CallReq, Sound, Active
    <2>4. StoppedCall /\ call.at \in Waiting => StoppedCall'
      BY <2>1, <2>3, StoppedKept DEF StoppedCall
    <2> QED BY <1>0, <2>1, <2>2, <2>3, <2>4 DEF AnswerSound
  <1>14. ASSUME NEW k \in Kinds, NEW t \in Tasks \cup {NoTask}, Call(k, t)
        PROVE  AnswerSound(f)'
    BY <1>0, <1>14 DEF Call, AnswerSound, Idle, Waiting
  <1>15. CASE Block \/ TakeLife
    BY <1>2, <1>15, CallerMoves, CalmMoves, Types DEF Goto, Waiting, Moves, Take, Block,
       TakeLife
  <1>16. CASE TakeStarted \/ TakeStartError \/ TakeStopped \/ TakeStopError \/ TakeDone
    BY <1>3, <1>16, AnswerTaken DEF TakeStarted, TakeStartError, TakeStopped, TakeStopError,
       TakeDone
  <1>17. CASE CloseKills
    BY <1>1, <1>17 DEF CloseKills
  <1>18. CASE PumpEvent \/ PumpFinds \/ PumpDelivers \/ PumpLife \/ PumpUnexpected \/
            PumpFailsTasks \/ PumpKills \/ PumpEnds \/ PumpExits
    BY <1>1, <1>18 DEF PumpEvent, PumpFinds, PumpDelivers, PumpLife, PumpUnexpected,
       PumpFailsTasks, PumpKills, PumpEnds, PumpExits
  <1>19. CASE PluginLife \/ PluginBad \/ PluginDies \/ CtxEnds \/ (\E k \in Kinds, t \in
            Tasks \cup {NoTask} : CallRefused(k, t)) \/ (\E t \in Tasks : PluginEvent(t))
    BY <1>1, <1>19 DEF PluginLife, PluginBad, PluginDies, CtxEnds, CallRefused, PluginEvent
  <1>20. CASE Closed \/ UNCHANGED vars
    BY <1>1, <1>20 DEF Closed, vars
  <1> QED BY <1>2, <1>3, <1>4, <1>5, <1>6, <1>7, <1>8, <1>9, <1>10, <1>11, <1>12, <1>13,
             <1>14, <1>15, <1>16, <1>17, <1>18, <1>19, <1>20
         DEF Next, Caller, Pump, Plugin

\* Every answer on its way is one to the call in progress.
LEMMA AnswerStep ==
  ASSUME Domains, RequestInv, TaskInv, FrameInv, FlushInv, CalmInv, Calm, Calm', AskedInv',
         [Next]_vars
  PROVE  AnswerInv'
  <1> SUFFICES ASSUME NEW f \in AnyFrame, OnWay(f)' PROVE AnswerSound(f)'
    BY DEF AnswerInv
  <1>1. CASE OnWay(f)
    BY <1>1, AnswerKept
  <1>2. CASE Sent(f) /\ f.kind \in {"life", "bad", "fatal", "completed"}
    BY <1>2 DEF AnswerSound, Answers
  <1>3. CASE Sent(f) /\ f.kind \notin {"life", "bad", "fatal", "completed"}
    BY <1>3, AnswerSent
  <1>4. pump'.at \in {"read", "deliver"}
    BY DEF Calm
  <1> QED BY <1>1, <1>2, <1>3, <1>4, OnWayMoves

-----------------------------------------------------------------------------
(* One answer at a time.                                                   *)

\* There is one answer on the way at most.
LEMMA OneAnswerStep ==
  ASSUME Domains, RequestInv, TaskInv, FrameInv, FlushInv, CalmInv, Calm, Calm', AskedInv',
         [Next]_vars
  PROVE  OneAnswer'
  <1> USE DEF CalmInv, OneAnswer, InHand, callVars, ctxVars, taskVars, procVars, plugVars,
          histVars
  <1>0. ASSUME NEW f \in AnyFrame, Sent(f) PROVE OneAnswer'
    <2>2. /\ UNCHANGED <<queue, pump>> /\ down' = Append(down, f)
          /\ \A y : Has(down', y) <=> Has(down, y) \/ y = f
      BY <1>0, SentFrame, SeqFacts DEF Sent
    <2>3. CASE f.kind \notin Answers
      BY <2>2, <2>3, UpSeq, SingleFacts
    <2>4. CASE f.kind \in Answers
      <3>1. Asked
        BY <1>0, <2>4, AnswerSent DEF Answers
      <3>2. \A g \in AnyFrame : g.kind \in Answers => ~OnWay(g)
        BY <3>1 DEF AnswerInv, AnswerSound
      <3>3. \A g : Has(down, g) => g.kind \notin Answers
        BY <3>2, UpSeq DEF OnWay, Has
      <3> QED BY <2>2, <3>2, <3>3, UpSeq, SingleFacts DEF OnWay
    <2> QED BY <2>3, <2>4
  <1>1. CASE UNCHANGED <<queue, pump, down>>
    BY <1>1
  <1>2. CASE queue # <<>> /\ queue' = Tail(queue) /\ UNCHANGED <<down, pump>>
    BY <1>2, UpSeq, SingleFacts, QueueFacts
  <1>3. CASE Return
    BY <1>3, SeqFacts DEF Return, Single
  <1>4. CASE PumpEvent
    <2>1. down # <<>> /\ down' = Tail(down) /\ UNCHANGED <<queue, pump>>
      BY <1>4 DEF PumpEvent
    <2> QED BY <2>1, UpSeq, SingleFacts, SeqFacts
  <1>5. CASE PumpFinds
    <2>1. /\ pump.at = "read" /\ down # <<>> /\ down' = Tail(down) /\ UNCHANGED queue
          /\ pump'.at = "deliver" /\ pump'.frame = Head(down)
      BY <1>5 DEF PumpFinds, PumpGoes
    <2>2. /\ Head(down) \in AnyFrame /\ Has(down, Head(down))
          /\ \A y : Has(down', y) => Has(down, y)
      BY <2>1, SeqFacts
    <2>3. /\ Single(down')
          /\ Head(down).kind \in Answers => \A g : Has(down', g) => g.kind \notin Answers
      BY <2>1, UpSeq, SingleFacts
    <2> QED BY <2>1, <2>2, <2>3
  <1>6. CASE PumpDelivers
    <2>1. /\ pump.at = "deliver" /\ UNCHANGED down /\ pump'.at = "read"
          /\ queue' = queue \/ queue' = Append(queue, pump.frame)
      BY <1>6, CalmMoves DEF PumpDelivers, Reading
    <2>2. \A y : Has(queue', y) => Has(queue, y) \/ y = pump.frame
      BY <2>1, Types, QueueFacts
    <2>3. Single(queue')
      <3>1. pump.frame.kind \notin Answers \/ \A g : Has(queue, g) => g.kind \notin Answers
        BY <2>1, UpSeq, Types DEF Has
      <3> QED BY <2>1, <3>1, UpSeq, SingleFacts, Types
    <2> QED BY <2>1, <2>2, <2>3
  <1>7. CASE PumpLife
    <2>1. down # <<>> /\ down' = Tail(down) /\ UNCHANGED <<queue, pump>>
      BY <1>7 DEF PumpLife
    <2> QED BY <2>1, UpSeq, SingleFacts, SeqFacts
  <1>8. CASE PumpUnexpected
    BY <1>8, CalmMoves
  <1>9. CASE PumpFailsTasks
    BY <1>9, CalmMoves
  <1>10. CASE PumpKills
    BY <1>10, CalmMoves
  <1>11. CASE PumpEnds
    BY <1>11, CalmMoves
  <1>12. CASE PumpExits
    BY <1>12, CalmMoves
  <1>13. CASE PluginAnswers
    BY <1>0, <1>13, PluginSends
  <1>14. CASE PluginLife
    BY <1>0, <1>14, PluginSends
  <1>15. CASE PluginBad
    BY <1>0, <1>15, PluginSends
  <1>16. ASSUME NEW k \in Kinds, NEW t \in Tasks \cup {NoTask}, Call(k, t)
        PROVE  OneAnswer'
    BY <1>16, SeqFacts DEF Call, Single
  <1>17. ASSUME NEW t \in Tasks, PluginEvent(t) PROVE OneAnswer'
    BY <1>0, <1>17, PluginSends
  <1>18. CASE TakeLife \/ TakeStarted \/ TakeStartError \/ TakeStopped \/ TakeStopError \/
            TakeDone
    BY <1>2, <1>18, SeqFacts DEF Take, TakeLife, TakeStarted, TakeStartError, TakeStopped,
       TakeStopError, TakeDone
  <1>19. CASE WriteRequest \/ Block \/ ReadFails \/ CallCancelled \/ GraceEnds \/
            CloseClient \/ CloseKills \/ CloseReturns
    BY <1>1, <1>19 DEF WriteRequest, Block, ReadFails, CallCancelled, GraceEnds,
       CloseClient, CloseKills, CloseReturns
  <1>20. CASE PluginReads \/ PluginRemoves \/ PluginDies \/ CtxEnds \/ (\E k \in Kinds, t
            \in Tasks \cup {NoTask} : CallRefused(k, t))
    BY <1>1, <1>20 DEF PluginReads, PluginRemoves, PluginDies, CtxEnds, CallRefused
  <1>21. CASE Closed \/ UNCHANGED vars
    BY <1>1, <1>21 DEF Closed, vars
  <1> QED BY <1>2, <1>3, <1>4, <1>5, <1>6, <1>7, <1>8, <1>9, <1>10, <1>11, <1>12, <1>13,
             <1>14, <1>15, <1>16, <1>17, <1>18, <1>19, <1>20, <1>21
         DEF Next, Caller, Pump, Plugin

-----------------------------------------------------------------------------
(* The lifecycle frames.                                                   *)

\* A frame is new on the pipe when the plugin has just written it.
LEMMA DownMoves ==
  ASSUME Domains, Calm', [Next]_vars
  PROVE  /\ \A f \in AnyFrame : Has(down', f) => Has(down, f) \/ Sent(f)
         /\ \/ down' = down
            \/ down # <<>> /\ down' = Tail(down)
            \/ \E f \in AnyFrame : Sent(f)
  <1>1. pump'.at \notin Broken
    BY DEF Calm, Broken
  <1>2. CASE down' = down
    BY <1>2
  <1>3. ASSUME NEW g \in AnyFrame, Sent(g)
        PROVE  \A f \in AnyFrame : Has(down', f) => Has(down, f) \/ Sent(f)
    BY <1>3, SeqFacts DEF Sent
  <1>4. CASE down # <<>> /\ down' = Tail(down)
    BY <1>4, SeqFacts
  <1> QED BY <1>1, <1>2, <1>3, <1>4, PumpMoves

\* The last frame of a task's call is one of the task.
LEMMA LastIsTasks ==
  ASSUME Domains, RequestInv, call.at \in Active, call.req.kind # "other"
  PROVE  LastLife = Frame(startId[call.req.t], "life")
  BY DEF LastLife, RequestInv, CallReq, Sound, Kinds

\* A task that is forgotten with its last frame gone has no frame left.
LEMMA LifeLost ==
  ASSUME Domains, RequestInv, NEW f \in AnyFrame, Has(down, f), f.kind = "life", LifeKnown(f),
         UNCHANGED startId, call.at \in Active, call.req.kind # "other",
         ~Has(down, LastLife), \A t \in starts : t \in starts' \/ t = call.req.t
  PROVE  LifeKnown(f)'
  <1>1. PICK t \in starts : startId[t] = f.id
    BY DEF LifeKnown
  <1>2. f = Frame(f.id, "life")
    BY DEF Frame, AnyFrame
  <1>3. t # call.req.t
    BY <1>1, <1>2, LastIsTasks
  <1> QED BY <1>1, <1>3 DEF LifeKnown

\* A call that is over has no lifecycle frame left.
LEMMA LastTaken ==
  ASSUME Domains, RequestInv, FrameInv, CalmInv, Calm
  PROVE  /\ TakeStartError => ~Has(down, LastLife) /\ call.req.kind = "start"
         /\ TakeStopped => ~Has(down, LastLife) /\ call.req.kind = "stop"
         /\ TakeStopError /\ Head(queue).kind = "refused" => ~Has(down, LastLife)
         /\ TakeStopError => call.req.kind = "stop"
         /\ TakeDone => ~Has(down, LastLife) /\ call.req.kind = "other"
         /\ GraceEnds => ~Has(down, LastLife) /\ call.req.kind = "stop"
  <1>1. ASSUME TakeStarted \/ TakeStartError \/ TakeStopped \/ TakeStopError \/ TakeDone,
               Head(queue).kind \in Final
        PROVE  ~Has(down, LastLife)
    BY <1>1, AnswerTaken DEF CalmInv, LastInv
  <1>2. TakeStartError => Head(queue).kind = "startError" /\ call.req.kind = "start"
    BY AnswerTaken DEF TakeStartError, Take, AnswerSound
  <1>3. TakeStopped => Head(queue).kind = "stopped" /\ call.req.kind = "stop"
    BY AnswerTaken DEF TakeStopped, Take, AnswerSound, StoppedCall
  <1>4. TakeStopError => call.req.kind = "stop"
    BY AnswerTaken DEF TakeStopError, Take, AnswerSound, StoppedCall
  <1>5. TakeDone => Head(queue).kind = "done" /\ call.req.kind = "other"
    BY AnswerTaken DEF TakeDone, Take, AnswerSound
  <1>6. GraceEnds => ~Has(down, LastLife) /\ call.req.kind = "stop"
    BY DEF GraceEnds, FrameInv, GraceSound, StoppedCall, CalmInv, LastInv
  <1> QED BY <1>1, <1>2, <1>3, <1>4, <1>5, <1>6 DEF Final

\* A lifecycle frame on stdout keeps its task, or its call.
LEMMA LifeKept ==
  ASSUME Domains, RequestInv, TaskInv, FrameInv, FlushInv, CalmInv, Calm, Calm', NEW f \in
         AnyFrame, Has(down, f), f.kind = "life", [Next]_vars
  PROVE  LifeKnown(f)'
  <1> USE DEF callVars, ctxVars, taskVars, procVars, plugVars, histVars
  <1>0. LifeKnown(f)
    BY DEF CalmInv, LifeInv
  <1>1. CASE UNCHANGED <<call, startId, starts>>
    BY <1>0, <1>1 DEF LifeKnown
  <1>2. CASE UNCHANGED <<starts, startId>> /\ call'.at \in Waiting /\ call'.req = call.req
    BY <1>0, <1>2 DEF LifeKnown
  <1>3. CASE WriteRequest
    BY <1>0, <1>3, CalmMoves DEF WriteRequest, LifeKnown, Waiting
  <1>4. CASE ReadFails
    BY <1>4, CalmMoves
  <1>5. CASE CallCancelled
    BY <1>5, CalmMoves
  <1>6. CASE TakeStarted
    <2>1. UNCHANGED <<starts, startId>> /\ call.req.kind # "other"
      BY <1>6, StartAnswered DEF TakeStarted
    <2> QED BY <1>0, <2>1 DEF LifeKnown
  <1>7. CASE TakeStartError
    <2>1. /\ UNCHANGED <<startId, down>> /\ ~Has(down, LastLife) /\ call.req.kind # "other"
          /\ call.at \in Active
      BY <1>7, LastTaken DEF TakeStartError, Take, Active, Waiting
    <2>2. \A t \in starts : t \in starts' \/ t = call.req.t
      BY <1>7 DEF TakeStartError, FailCall, Finish, CallTasks
    <2> QED BY <1>0, <2>1, <2>2, LifeLost
  <1>8. CASE TakeStopped
    <2>1. UNCHANGED <<starts, startId>> /\ call.req.kind # "other"
      BY <1>8, LastTaken DEF TakeStopped
    <2> QED BY <1>0, <2>1 DEF LifeKnown
  <1>9. CASE GraceEnds
    <2>1. /\ UNCHANGED <<startId, down>> /\ ~Has(down, LastLife) /\ call.req.kind # "other"
          /\ call.at \in Active
      BY <1>9, LastTaken DEF GraceEnds, Take, Active, Waiting
    <2>2. \A t \in starts : t \in starts' \/ t = call.req.t
      BY <1>9 DEF GraceEnds, FailCall, Finish, CallTasks
    <2> QED BY <1>0, <2>1, <2>2, LifeLost
  <1>10. CASE TakeStopError
    <2>1. CASE Head(queue).kind = "stopError"
      <3>1. UNCHANGED <<starts, startId>> /\ call.req.kind # "other"
        BY <1>10, <2>1, LastTaken DEF TakeStopError, FailStop
      <3> QED BY <1>0, <3>1 DEF LifeKnown
    <2>2. CASE Head(queue).kind = "refused"
      <3>1. /\ UNCHANGED <<startId, down>> /\ ~Has(down, LastLife) /\ call.req.kind # "other"
            /\ call.at \in Active
        BY <1>10, <2>2, LastTaken DEF TakeStopError, Take, Active, Waiting
      <3>2. \A t \in starts : t \in starts' \/ t = call.req.t
        BY <1>10, <2>2 DEF TakeStopError, FailCall, Finish, CallTasks
      <3> QED BY <1>0, <3>1, <3>2, LifeLost
    <2> QED BY <1>10, <2>1, <2>2 DEF TakeStopError, Take
  <1>11. CASE TakeDone
    <2>1. UNCHANGED <<starts, startId>> /\ ~Has(down, LastLife) /\ call.req.kind = "other"
      BY <1>11, LastTaken DEF TakeDone
    <2>2. f.id # call.req.id
      <3>1. f.id = call.req.id => f = LastLife
        BY <2>1 DEF LastLife, Frame, AnyFrame
      <3> QED BY <2>1, <3>1
    <2> QED BY <1>0, <2>1, <2>2 DEF LifeKnown
  <1>12. CASE Return
    BY <1>0, <1>12 DEF Return, LifeKnown, Idle, Waiting
  <1>13. CASE CloseClient
    BY <1>0, <1>13 DEF CloseClient, LifeKnown, Idle, Waiting
  <1>14. CASE CloseReturns
    BY <1>0, <1>14 DEF CloseReturns, LifeKnown, Idle, Waiting
  <1>15. CASE PumpLife
    BY <1>0, <1>15, CalmMoves DEF PumpLife, LifeKnown
  <1>16. CASE PumpFailsTasks
    BY <1>16, CalmMoves
  <1>17. CASE PumpExits
    BY <1>17, CalmMoves
  <1>18. ASSUME NEW k \in Kinds, NEW t \in Tasks \cup {NoTask}, CallRefused(k, t)
        PROVE  LifeKnown(f)'
    BY <1>18, CalmMoves
  <1>19. ASSUME NEW k \in Kinds, NEW t \in Tasks \cup {NoTask}, Call(k, t)
        PROVE  LifeKnown(f)'
    <2>1. starts \subseteq starts' /\ call.at \notin Waiting
      BY <1>19 DEF Call, Idle, Waiting, RegisterStart
    <2>2. PICK u \in starts : startId[u] = f.id
      BY <1>0, <2>1 DEF LifeKnown
    <2>3. startId'[u] = startId[u] /\ u \in starts'
      <3>1. u \in Tasks
        BY DEF Domains, TaskDomain
      <3> QED BY <2>1, <3>1, StartIdKept DEF TaskInv, TaskSound
    <2> QED BY <2>2, <2>3 DEF LifeKnown
  <1>20. CASE Block \/ TakeLife
    BY <1>2, <1>20, CallerMoves, CalmMoves, Types DEF Goto, Waiting, Moves, Take, Block,
       TakeLife
  <1>21. CASE CloseKills
    BY <1>1, <1>21 DEF CloseKills
  <1>22. CASE PumpEvent \/ PumpFinds \/ PumpDelivers \/ PumpUnexpected \/ PumpKills \/
            PumpEnds
    BY <1>1, <1>22 DEF PumpEvent, PumpFinds, PumpDelivers, PumpUnexpected, PumpKills,
       PumpEnds
  <1>23. CASE PluginReads \/ PluginAnswers \/ PluginRemoves \/ PluginLife \/ PluginBad \/
            PluginDies \/ CtxEnds \/ (\E t \in Tasks : PluginEvent(t))
    BY <1>1, <1>23 DEF PluginReads, PluginAnswers, PluginRemoves, PluginLife, PluginBad,
       PluginDies, CtxEnds, PluginEvent
  <1>24. CASE Closed \/ UNCHANGED vars
    BY <1>1, <1>24 DEF Closed, vars
  <1> QED BY <1>2, <1>3, <1>4, <1>5, <1>6, <1>7, <1>8, <1>9, <1>10, <1>11, <1>12, <1>13,
             <1>14, <1>15, <1>16, <1>17, <1>18, <1>19, <1>20, <1>21, <1>22, <1>23, <1>24
         DEF Next, Caller, Pump, Plugin

\* Every lifecycle frame on stdout has a task or a call to go to.
LEMMA LifeStep ==
  ASSUME Domains, RequestInv, TaskInv, FrameInv, FlushInv, CalmInv, Calm, Calm', [Next]_vars
  PROVE  LifeInv'
  <1> SUFFICES ASSUME NEW f \in AnyFrame, Has(down', f), f.kind = "life" PROVE LifeKnown(f)'
    BY DEF LifeInv
  <1>1. CASE Has(down, f)
    BY <1>1, LifeKept
  <1>2. CASE Sent(f)
    <2>1. SentLife(f) /\ UNCHANGED <<call, starts, startId>>
      BY <1>2, SentFrame DEF SentAnswer, Answers
    <2>2. ASSUME NEW t \in Tasks, srv[t] = "active", f.id = startId[t] PROVE LifeKnown(f)'
      BY <2>1, <2>2 DEF LifeKnown, CalmInv, StartsInv
    <2>3. CASE plug.kind \in {"start", "other"} /\ f.id = plug.id
      <3>1. plug = call.req /\ call.at \in Waiting
        BY <2>3 DEF CalmInv, AskedInv, Asked, NoReq
      <3>2. CASE call.req.kind = "start"
        <4>1. call.req.t \in starts /\ startId[call.req.t] = f.id
          BY <2>3, <3>1, <3>2 DEF CalmInv, StartsInv, RequestInv, CallReq, Sound, Active
        <4> QED BY <2>1, <4>1 DEF LifeKnown
      <3> QED BY <2>1, <2>3, <3>1, <3>2 DEF LifeKnown
    <2> QED BY <2>1, <2>2, <2>3 DEF SentLife
  <1> QED BY <1>1, <1>2, DownMoves

-----------------------------------------------------------------------------
(* The last lifecycle frame of a call.                                     *)

\* The last lifecycle frame of a call is never written after its answer.
LEMMA SentNotLast ==
  ASSUME Domains, RequestInv, TaskInv, FrameInv, CalmInv, Calm,
         LastLife \in AnyFrame, Sent(LastLife)
  PROVE  call.at # "grace" /\ \A f \in AnyFrame : OnWay(f) => f.kind \notin Final
  <1>1. SentLife(LastLife)
    BY SentFrame DEF SentAnswer, Answers, LastLife, Frame
  <1>2. CASE plug.kind \in {"start", "other"}
    <2>1. Asked
      BY <1>2 DEF Asked, NoReq
    <2> QED BY <2>1 DEF CalmInv, AskedInv, AnswerInv, AnswerSound, Answers, Final, Waiting
  <1>3. ASSUME NEW t \in Tasks, srv[t] = "active", LastLife.id = startId[t]
        PROVE  call.at # "grace" /\ \A f \in AnyFrame : OnWay(f) => f.kind \notin Final
    <2>1. startId[t] # 0
      BY <1>3 DEF TaskInv, TaskSound
    <2>2. CASE call.at \notin Active
      BY <2>2 DEF CalmInv, AnswerInv, AnswerSound, Answers, Final, Active
    <2>3. CASE call.at \in Active
      <3>1. call.req.kind # "other"
        BY <1>3, <2>3 DEF LastLife, Frame, TaskInv, TaskSound, RequestInv, CallReq, Sound
      <3>2. startId[call.req.t] = startId[t] /\ call.req.t \in Tasks
        BY <1>3, <2>3, <3>1, LastIsTasks DEF Frame, RequestInv, CallReq, Sound
      <3>3. call.req.t = t
        BY <2>1, <3>2 DEF TaskInv
      <3>4. ~StoppedCall /\ srv[call.req.t] # "none"
        BY <1>3, <3>3 DEF StoppedCall
      <3> QED BY <3>1, <3>4 DEF FrameInv, GraceSound, CalmInv, AnswerInv, AnswerSound,
         Answers, Final
    <2> QED BY <2>2, <2>3
  <1> QED BY <1>1, <1>2, <1>3 DEF SentLife

\* The last lifecycle frame is the same as long as the call is.
LEMMA LastKept ==
  ASSUME Domains, RequestInv, call.at \in Active, call'.req = call.req, [Next]_vars
  PROVE  LastLife' = LastLife
  <1>1. call.req.kind = "stop" => call.req.t \in Tasks /\ startId[call.req.t] # 0
    BY DEF RequestInv, CallReq, Sound
  <1> QED BY <1>1, StartIdKept DEF LastLife

\* A call that waits has been in progress, with the same request.
LEMMA WaitingMoves ==
  ASSUME Domains, call'.at \in Waiting, [Next]_vars
  PROVE  call.at \in Active /\ call'.req = call.req
  <1> USE DEF callVars, ctxVars, taskVars, procVars, plugVars, histVars
  <1>1. CASE UNCHANGED <<call>>
    BY <1>1 DEF Active
  <1>2. CASE Moves
    BY <1>2 DEF Moves
  <1>3. CASE Return
    BY <1>3 DEF Return, Idle, Waiting
  <1>4. CASE CloseClient
    BY <1>4 DEF CloseClient, Idle, Waiting
  <1>5. CASE CloseReturns
    BY <1>5, Types DEF CloseReturns, Goto, Waiting
  <1>6. ASSUME NEW k \in Kinds, NEW t \in Tasks \cup {NoTask}, Call(k, t)
        PROVE  call.at \in Active /\ call'.req = call.req
    BY <1>6 DEF Call, Waiting
  <1>7. CASE WriteRequest \/ Block \/ ReadFails \/ CallCancelled \/ TakeLife \/ TakeStarted
            \/ TakeStartError \/ TakeStopped \/ GraceEnds \/ TakeStopError \/ TakeDone
    BY <1>2, <1>7, CallerMoves DEF WriteRequest, Block, ReadFails, CallCancelled, TakeLife,
       TakeStarted, TakeStartError, TakeStopped, GraceEnds, TakeStopError, TakeDone
  <1>8. CASE CloseKills
    BY <1>1, <1>8 DEF CloseKills
  <1>9. CASE PumpEvent \/ PumpFinds \/ PumpDelivers \/ PumpLife \/ PumpUnexpected \/
            PumpFailsTasks \/ PumpKills \/ PumpEnds \/ PumpExits
    BY <1>1, <1>9 DEF PumpEvent, PumpFinds, PumpDelivers, PumpLife, PumpUnexpected,
       PumpFailsTasks, PumpKills, PumpEnds, PumpExits
  <1>10. CASE PluginReads \/ PluginAnswers \/ PluginRemoves \/ PluginLife \/ PluginBad \/
            PluginDies \/ CtxEnds \/ (\E k \in Kinds, t \in Tasks \cup {NoTask} :
            CallRefused(k, t)) \/ (\E t \in Tasks : PluginEvent(t))
    BY <1>1, <1>10 DEF PluginReads, PluginAnswers, PluginRemoves, PluginLife, PluginBad,
       PluginDies, CtxEnds, CallRefused, PluginEvent
  <1>11. CASE Closed \/ UNCHANGED vars
    BY <1>1, <1>11 DEF Closed, vars
  <1> QED BY <1>2, <1>3, <1>4, <1>5, <1>6, <1>7, <1>8, <1>9, <1>10, <1>11
         DEF Next, Caller, Pump, Plugin

\* No lifecycle frame comes after the answer that makes its task or call go.
LEMMA LastStep ==
  ASSUME Domains, Domains', RequestInv, TaskInv, FrameInv, FlushInv, CalmInv, Calm, Calm',
         AnswerInv', [Next]_vars
  PROVE  LastInv'
  <1>1. LastLife \in AnyFrame
    BY Types DEF LastLife, Frame, AnyFrame, FrameKinds, Domains, TaskDomain, Requests,
       RequestInv, CallReq, Sound, NoReq
  <1>0. down' \in Seq(AnyFrame)
    BY DEF Domains, PlugDomain, HostDomain, CallDomain, PumpDomain
  <1>2. ASSUME call.at \in Active, call'.req = call.req, Has(down', LastLife)
        PROVE  \/ Has(down, LastLife)
               \/ call.at # "grace" /\ \A f \in AnyFrame : OnWay(f) => f.kind \notin Final
    BY <1>1, <1>2, DownMoves, SentNotLast
  <1>3. CASE call'.at \notin Waiting
    <2>1. \A f \in AnyFrame : OnWay(f)' => f.kind \notin Final
      BY <1>3 DEF AnswerInv, AnswerSound, Answers, Final
    <2>2. (NoneAfter(down, LastLife))'
      <3>1. \A h : Has(down', h) => h.kind \notin Final
        BY <2>1, <1>0 DEF OnWay, Has
      <3> QED BY <3>1, <1>0, NoneAfterFacts
    <2>3. call'.at = "grace" => ~Has(down', LastLife')
      <3> SUFFICES ASSUME call'.at = "grace" PROVE ~Has(down', LastLife')
        OBVIOUS
      <3>1. call'.req = call.req /\ (call.at = "grace" \/ TakeStopped)
        BY CallMoves DEF CallMoved
      <3>2. call.at \in Active
        BY <3>1 DEF TakeStopped, Take, Active, Waiting
      <3>3. LastLife' = LastLife
        BY <3>1, <3>2, LastKept
      <3>4. CASE call.at = "grace"
        BY <1>2, <3>1, <3>2, <3>3, <3>4 DEF CalmInv, LastInv
      <3>5. CASE TakeStopped
        BY <3>3, <3>5, LastTaken DEF TakeStopped
      <3> QED BY <3>1, <3>4, <3>5
    <2> QED BY <2>1, <2>2, <2>3 DEF LastInv, OnWay
  <1>4. CASE call'.at \in Waiting
    <2>1. call.at \in Active /\ call'.req = call.req
      BY <1>4, WaitingMoves
    <2>2. LastLife' = LastLife
      BY <2>1, LastKept
    <2>3. ASSUME NEW f \in AnyFrame, InHand(f)', f.kind \in Final PROVE ~Has(down', LastLife)
      <3>1. CASE InHand(f)
        BY <1>2, <2>1, <2>3, <3>1 DEF CalmInv, LastInv, OnWay
      <3>2. CASE PumpFinds /\ f = Head(down)
        <4>1. down # <<>> /\ down' = Tail(down)
          BY <3>2 DEF PumpFinds
        <4> QED BY <2>3, <3>2, <4>1, UpSeq, NoneAfterFacts DEF CalmInv, LastInv
      <3>3. f # ErrFrame
        BY <2>3 DEF ErrFrame, Frame, Final
      <3> QED BY <2>3, <3>1, <3>2, <3>3, InHandMoves
    <2>4. NoneAfter(down', LastLife)
      <3>1. CASE down' = down
        BY <3>1 DEF CalmInv, LastInv
      <3>2. CASE down # <<>> /\ down' = Tail(down)
        BY <3>2, UpSeq, NoneAfterFacts DEF CalmInv, LastInv
      <3>3. ASSUME NEW x \in AnyFrame, Sent(x) PROVE NoneAfter(down', LastLife)
        <4>1. down' = Append(down, x) /\ NoneAfter(down, LastLife)
          BY <3>3 DEF Sent, CalmInv, LastInv
        <4>2. CASE x = LastLife
          <5>1. \A h : Has(down, h) => h.kind \notin Final
            BY <1>1, <3>3, <4>2, SentNotLast, UpSeq DEF OnWay, Has
          <5> QED BY <4>1, <5>1, UpSeq, NoneAfterFacts
        <4> QED BY <4>1, <4>2, UpSeq, NoneAfterFacts
      <3> QED BY <3>1, <3>2, <3>3, DownMoves
    <2> QED BY <1>4, <2>2, <2>3, <2>4 DEF LastInv, Waiting
  <1> QED BY <1>3, <1>4

-----------------------------------------------------------------------------
(* How many lifecycle frames are not applied.                              *)

\* The places a value has in a sequence, without the first.
LEMMA Shift ==
  ASSUME NEW S, NEW s \in Seq(S), s # <<>>, NEW f
  PROVE  /\ IsFiniteSet({i \in 2..Len(s) : s[i] = f})
         /\ Cardinality({i \in 2..Len(s) : s[i] = f}) = Count(Tail(s), f)
  <1> DEFINE A == {i \in DOMAIN Tail(s) : Tail(s)[i] = f}
             B == {i \in 2..Len(s) : s[i] = f}
             g == [i \in A |-> i + 1]
  <1>1. IsFiniteSet(A)
    <2>1. IsFiniteSet(DOMAIN Tail(s))
      BY TailFacts, FS_Interval
    <2> QED BY <2>1, FS_Subset
  <1>2. \A i \in A : i \in Int /\ i + 1 \in B
    BY TailFacts
  <1>3. \A a, b \in A : g[a] = g[b] => a = b
    BY <1>2
  <1>4. ASSUME NEW j \in B PROVE \E a \in A : g[a] = j
    <2>1. j - 1 \in A /\ j = (j - 1) + 1
      BY TailFacts
    <2> QED BY <2>1
  <1>5. ExistsBijection(A, B)
    <2>1. g \in [A -> B]
      BY <1>2
    <2>2. g \in Bijection(A, B)
      BY <1>3, <1>4, <2>1, Fun_IsBij
    <2> QED BY <2>2 DEF ExistsBijection
  <1> QED BY <1>1, <1>5, FS_Bijection DEF Count

\* How Append and Tail changethe number of times a value is in a sequence.
LEMMA CountFacts ==
  ASSUME NEW S, NEW s \in Seq(S), NEW f
  PROVE  /\ Count(s, f) \in Nat
         /\ ~Has(s, f) => Count(s, f) = 0
         /\ \A x \in S : Count(Append(s, x), f) = Count(s, f) + (IF x = f THEN 1 ELSE 0)
         /\ s # <<>> => Count(s, f) = Count(Tail(s), f) + (IF Head(s) = f THEN 1 ELSE 0)
  <1> DEFINE A == {i \in DOMAIN s : s[i] = f}
  <1>1. IsFiniteSet(A) /\ Cardinality(A) \in Nat
    <2>1. IsFiniteSet(DOMAIN s)
      BY FS_Interval
    <2>2. IsFiniteSet(A)
      BY <2>1, FS_Subset
    <2> QED BY <2>2, FS_CardinalityType
  <1>2. ASSUME ~Has(s, f) PROVE Count(s, f) = 0
    <2>1. A = {}
      BY <1>2 DEF Has
    <2> QED BY <2>1, FS_EmptySet DEF Count
  <1>3. ASSUME NEW x \in S
        PROVE  Count(Append(s, x), f) = Count(s, f) + (IF x = f THEN 1 ELSE 0)
    <2> DEFINE B == {i \in DOMAIN Append(s, x) : Append(s, x)[i] = f}
    <2>1. CASE x = f
      <3>1. B = A \cup {Len(s) + 1} /\ Len(s) + 1 \notin A
        BY <2>1, AppendFacts
      <3> QED BY <1>1, <2>1, <3>1, FS_AddElement DEF Count
    <2>2. CASE x # f
      <3>1. B = A
        BY <2>2, AppendFacts
      <3>2. Count(Append(s, x), f) = Count(s, f) /\ Count(s, f) \in Nat
        BY <1>1, <3>1 DEF Count
      <3> QED BY <2>2, <3>2
    <2> QED BY <2>1, <2>2
  <1>4. ASSUME s # <<>>
        PROVE  Count(s, f) = Count(Tail(s), f) + (IF Head(s) = f THEN 1 ELSE 0)
    <2> DEFINE B == {i \in 2..Len(s) : s[i] = f}
    <2>1. IsFiniteSet(B) /\ Cardinality(B) = Count(Tail(s), f) /\ Cardinality(B) \in Nat
      BY <1>4, Shift, FS_CardinalityType
    <2>2. CASE Head(s) = f
      <3>1. A = B \cup {1} /\ 1 \notin B
        BY <1>4, <2>2, TailFacts
      <3> QED BY <2>1, <2>2, <3>1, FS_AddElement DEF Count
    <2>3. CASE Head(s) # f
      <3>1. A = B
        BY <1>4, <2>3, TailFacts
      <3>2. Count(s, f) = Count(Tail(s), f) /\ Count(s, f) \in Nat
        BY <2>1, <3>1 DEF Count
      <3> QED BY <2>3, <3>2
    <2> QED BY <2>2, <2>3
  <1> QED BY <1>1, <1>2, <1>3, <1>4 DEF Count

\* The same of the pipe and the queue.
LEMMA FrameCounts ==
  ASSUME Domains, NEW f
  PROVE  /\ Count(down, f) \in Nat /\ Count(queue, f) \in Nat /\ Count(<<>>, f) = 0
         /\ \A x \in AnyFrame :
              /\ Count(Append(down, x), f) = Count(down, f) + (IF x = f THEN 1 ELSE 0)
              /\ Count(Append(queue, x), f) = Count(queue, f) + (IF x = f THEN 1 ELSE 0)
         /\ down # <<>> =>
              /\ Count(Tail(down), f) \in Nat
              /\ Count(down, f) = Count(Tail(down), f) + (IF Head(down) = f THEN 1 ELSE 0)
         /\ queue # <<>> =>
              /\ Count(Tail(queue), f) \in Nat
              /\ Count(queue, f) = Count(Tail(queue), f) + (IF Head(queue) = f THEN 1 ELSE 0)
  <1>1. Count(<<>>, f) = 0
    <2>1. {i \in DOMAIN <<>> : <<>>[i] = f} = {}
      OBVIOUS
    <2> QED BY <2>1, FS_EmptySet DEF Count
  <1>2. down \in Seq(AnyFrame) /\ queue \in Seq(AnyFrame)
    BY UpSeq
  <1>3. /\ down # <<>> => Tail(down) \in Seq(AnyFrame)
        /\ queue # <<>> => Tail(queue) \in Seq(AnyFrame)
    BY SeqFacts
  <1>4. \A s \in Seq(AnyFrame) :
          /\ Count(s, f) \in Nat
          /\ \A x \in AnyFrame : Count(Append(s, x), f) = Count(s, f) + (IF x = f THEN 1 ELSE 0)
          /\ s # <<>> => Count(s, f) = Count(Tail(s), f) + (IF Head(s) = f THEN 1 ELSE 0)
    BY CountFacts
  <1> QED BY <1>1, <1>2, <1>3, <1>4

\* The error the host puts in the queue is no lifecycle frame.
LEMMA WaitersCount ==
  ASSUME Domains, FailWaiters, NEW f, f # ErrFrame
  PROVE  Count(queue', f) = Count(queue, f)
  <1>1. ErrFrame \in AnyFrame
    BY QueueFacts
  <1>2. CASE queue' = queue
    BY <1>2
  <1>3. CASE queue' = Append(queue, ErrFrame)
    BY <1>1, <1>3, FrameCounts
  <1> QED BY <1>2, <1>3 DEF FailWaiters

\* One task at a time: what is on its way was written, and is not applied yet.
LEMMA UnappliedKept ==
  ASSUME Domains, RequestInv, TaskInv, FrameInv, UnappliedInv, NEW u \in Tasks, [Next]_vars
  PROVE  UnappliedSound(u)'
  <1> USE DEF callVars, ctxVars, taskVars, procVars, plugVars, histVars
  <1> DEFINE f == LifeFrame(u)
  <1>0. /\ UnappliedSound(u) /\ unapplied \in [Tasks -> Int] /\ life \in Nat
        /\ Count(down, f) \in Nat /\ Count(queue, f) \in Nat
    BY BoundsAssumption, FrameCounts DEF UnappliedInv, Domains, HostDomain
  <1>a. f # ErrFrame /\ f.kind = "life"
    BY DEF LifeFrame, Frame, ErrFrame
  <1>b. ASSUME UNCHANGED <<startId, unapplied, life>>, Pending(u)' <= Pending(u), Pending(u)' \in Int
        PROVE  UnappliedSound(u)'
    BY <1>0, <1>b DEF UnappliedSound, Pending
  <1>c. ASSUME NEW x \in AnyFrame, Sent(x), UNCHANGED <<unapplied, life>>
        PROVE  UnappliedSound(u)'
    <2>1. ~PluginLife
      BY <1>0, <1>c DEF PluginLife
    <2>2. x.kind # "life" /\ UNCHANGED <<queue, pump, startId>>
      BY <1>c, <2>1, SentFrame DEF SentAnswer, Answers
    <2>3. Count(down', f) = Count(down, f) /\ f' = f
      BY <1>0, <1>a, <1>c, <2>2, FrameCounts DEF Sent, LifeFrame
    <2> QED BY <1>0, <1>b, <1>c, <2>2, <2>3 DEF Pending
  <1>1. CASE UNCHANGED <<queue, pump, startId, down, life, unapplied>>
    BY <1>0, <1>1 DEF UnappliedSound, Pending, LifeFrame
  <1>2. CASE queue # <<>> /\ queue' = Tail(queue) /\ UNCHANGED <<startId, unapplied, life,
          down, pump>>
    <2>1. f' = f
      BY <1>2 DEF LifeFrame
    <2>2. Count(queue', f) \in Int /\ Count(queue', f) <= Count(queue, f)
      BY <1>0, <1>2, FrameCounts
    <2> QED BY <1>0, <1>b, <1>2, <2>1, <2>2 DEF Pending
  <1>3. CASE pump'.at # "deliver" /\ UNCHANGED <<startId, unapplied, life, down, queue>>
    <2>1. f' = f
      BY <1>3 DEF LifeFrame
    <2> QED BY <1>0, <1>b, <1>3, <2>1 DEF Pending
  <1>4. CASE TakeLife
    <2>1. /\ queue # <<>> /\ queue' = Tail(queue) /\ UNCHANGED <<down, pump, startId, life>>
          /\ Head(queue).kind = "life"
      BY <1>4 DEF TakeLife, Take
    <2>2. /\ f' = f /\ Count(queue', f) \in Int /\ Count(queue', f) <= Count(queue, f)
          /\ Head(queue) = f => Count(queue', f) = Count(queue, f) - 1
      BY <1>0, <2>1, FrameCounts DEF LifeFrame
    <2>3. CASE UNCHANGED unapplied
      BY <1>0, <1>b, <2>1, <2>2, <2>3 DEF Pending
    <2>4. CASE call.req.kind = "start" /\ Apply(call.req.t)
      <3>1. u = call.req.t => unapplied'[u] = unapplied[u] - 1
        BY <1>0, <2>4 DEF Apply
      <3>2. u # call.req.t => unapplied'[u] = unapplied[u]
        BY <1>0, <2>4 DEF Apply
      <3>3. u = call.req.t => Head(queue) = f
        <4>1. Head(queue) \in AnyFrame /\ Has(queue, Head(queue))
          BY <2>1, QueueFacts, SeqFacts
        <4>2. Head(queue).id = call.req.id
          BY <2>1, <4>1 DEF FrameInv, QueueIds
        <4>3. call.at \in Active
          BY <1>4 DEF TakeLife, Take, Active, Waiting
        <4>4. u = call.req.t => startId[u] = call.req.id
          BY <2>4, <4>3 DEF RequestInv, CallReq, Sound
        <4> QED BY <2>1, <4>1, <4>2, <4>4 DEF LifeFrame, Frame, AnyFrame
      <3> QED BY <1>0, <2>1, <2>2, <3>1, <3>2, <3>3 DEF UnappliedSound, Pending
    <2> QED BY <1>4, <2>3, <2>4 DEF TakeLife
  <1>5. CASE Return
    <2>1. queue' = <<>> /\ f' = f /\ UNCHANGED <<startId, unapplied, life, down, pump>>
      BY <1>5 DEF Return, LifeFrame
    <2> QED BY <1>0, <1>b, <2>1, FrameCounts DEF Pending
  <1>6. CASE PumpEvent
    <2>1. /\ down # <<>> /\ down' = Tail(down) /\ f' = f
          /\ UNCHANGED <<startId, unapplied, life, queue, pump>>
      BY <1>6 DEF PumpEvent, LifeFrame
    <2>2. Count(down', f) \in Int /\ Count(down', f) <= Count(down, f)
      BY <1>0, <2>1, FrameCounts
    <2> QED BY <1>0, <1>b, <2>1, <2>2 DEF Pending
  <1>7. CASE PumpFinds
    <2>1. /\ down # <<>> /\ down' = Tail(down) /\ f' = f /\ pump.at = "read"
          /\ pump' = [at |-> "deliver", frame |-> Head(down)]
          /\ UNCHANGED <<startId, unapplied, life, queue>>
      BY <1>7 DEF PumpFinds, PumpGoes, LifeFrame
    <2>2. Count(down, f) = Count(down', f) + (IF Head(down) = f THEN 1 ELSE 0)
      BY <2>1, FrameCounts
    <2>3. Count(down', f) \in Int
      BY <1>0, <2>1, FrameCounts
    <2> QED BY <1>0, <1>b, <2>1, <2>2, <2>3 DEF Pending
  <1>8. CASE PumpDelivers
    <2>1. /\ pump.at = "deliver" /\ pump'.at # "deliver" /\ f' = f
          /\ UNCHANGED <<startId, unapplied, life, down>>
      BY <1>8 DEF PumpDelivers, PumpGoes, Reading, LifeFrame
    <2>2. CASE queue' = queue
      BY <1>0, <1>b, <2>1, <2>2 DEF Pending
    <2>3. CASE queue' = Append(queue, pump.frame)
      <3>1. Count(queue', f) = Count(queue, f) + (IF pump.frame = f THEN 1 ELSE 0)
        BY <2>3, FrameCounts, Types
      <3> QED BY <1>0, <1>b, <2>1, <3>1 DEF Pending
    <2>4. CASE FailWaiters
      <3>1. Count(queue', f) = Count(queue, f)
        BY <1>a, <2>4, WaitersCount
      <3> QED BY <1>0, <1>b, <2>1, <3>1 DEF Pending
    <2> QED BY <1>8, <2>2, <2>3, <2>4 DEF PumpDelivers
  <1>9. CASE PumpLife
    <2>1. /\ down # <<>> /\ down' = Tail(down) /\ f' = f /\ Head(down).kind = "life"
          /\ UNCHANGED <<startId, life, queue, pump>>
      BY <1>9 DEF PumpLife, LifeFrame
    <2>2. /\ Count(down', f) \in Int /\ Count(down', f) <= Count(down, f)
          /\ Head(down) = f => Count(down', f) = Count(down, f) - 1
      BY <1>0, <2>1, FrameCounts
    <2>3. CASE UNCHANGED unapplied
      BY <1>0, <1>b, <2>1, <2>2, <2>3 DEF Pending
    <2>4. ASSUME NEW t \in Starter(Head(down).id), Apply(t) PROVE UnappliedSound(u)'
      <3>1. u = t => unapplied'[u] = unapplied[u] - 1
        BY <1>0, <2>4 DEF Apply
      <3>2. u # t => unapplied'[u] = unapplied[u]
        BY <1>0, <2>4 DEF Apply
      <3>3. u = t => Head(down) = f
        BY <2>1, <2>4, SeqFacts DEF Starter, LifeFrame, Frame, AnyFrame
      <3> QED BY <1>0, <2>1, <2>2, <3>1, <3>2, <3>3 DEF UnappliedSound, Pending
    <2> QED BY <1>9, <2>3, <2>4 DEF PumpLife
  <1>10. CASE PumpUnexpected
    <2>1. /\ down # <<>> /\ down' = Tail(down) /\ f' = f /\ pump'.at # "deliver"
          /\ UNCHANGED <<startId, unapplied, life>> /\ FailWaiters
      BY <1>10 DEF PumpUnexpected, PumpGoes, LifeFrame
    <2>2. Count(down', f) \in Int /\ Count(down', f) <= Count(down, f)
      BY <1>0, <2>1, FrameCounts
    <2>3. Count(queue', f) = Count(queue, f)
      BY <1>a, <2>1, WaitersCount
    <2> QED BY <1>0, <1>b, <2>1, <2>2, <2>3 DEF Pending
  <1>11. CASE PumpEnds
    <2>1. /\ down' = <<>> /\ f' = f /\ pump'.at # "deliver"
          /\ UNCHANGED <<startId, unapplied, life>> /\ FailWaiters
      BY <1>11 DEF PumpEnds, PumpGoes, LifeFrame
    <2>2. Count(down', f) = 0
      BY <2>1, FrameCounts
    <2>3. Count(queue', f) = Count(queue, f)
      BY <1>a, <2>1, WaitersCount
    <2> QED BY <1>0, <1>b, <2>1, <2>2, <2>3 DEF Pending
  <1>12. CASE PluginAnswers
    <2>1. PICK x \in AnyFrame : Sent(x)
      BY <1>12, PluginSends
    <2> QED BY <1>c, <1>12, <2>1 DEF PluginAnswers
  <1>13. CASE PluginLife
    <2>1. PICK i \in {startId[t] : t \in {w \in Tasks : srv[w] = "active"}}
                   \cup (IF plug.kind \in {"start", "other"} THEN {plug.id} ELSE {}) :
            /\ down' = Append(down, Frame(i, "life"))
            /\ unapplied' = [t \in Tasks |-> unapplied[t] + IF startId[t] = i THEN 1 ELSE 0]
      BY <1>13 DEF PluginLife, Send
    <2>2. Frame(i, "life") \in AnyFrame
      BY <2>1 DEF Frame, AnyFrame, FrameKinds, Domains, TaskDomain, PlugDomain, Requests
    <2>3. life' = life + 1 /\ f' = f /\ UNCHANGED <<startId, queue, pump>>
      BY <1>13 DEF PluginLife, LifeFrame
    <2>4. Frame(i, "life") = f => startId[u] = i
      BY DEF Frame, LifeFrame
    <2>5. Count(down', f) = Count(down, f) + (IF Frame(i, "life") = f THEN 1 ELSE 0)
      BY <2>1, <2>2, FrameCounts
    <2>6. unapplied'[u] = unapplied[u] + IF startId[u] = i THEN 1 ELSE 0
      BY <2>1
    <2> QED BY <1>0, <2>3, <2>4, <2>5, <2>6 DEF UnappliedSound, Pending
  <1>14. CASE PluginBad
    <2>1. PICK x \in AnyFrame : Sent(x)
      BY <1>14, PluginSends
    <2> QED BY <1>c, <1>14, <2>1 DEF PluginBad
  <1>15. ASSUME NEW k \in Kinds, NEW t \in Tasks \cup {NoTask}, Call(k, t)
        PROVE  UnappliedSound(u)'
    <2>1. queue' = <<>> /\ UNCHANGED <<unapplied, life, down, pump>>
      BY <1>15 DEF Call
    <2>2. CASE startId'[u] = startId[u]
      <3>1. f' = f
        BY <2>2 DEF LifeFrame
      <3> QED BY <1>0, <2>1, <3>1, FrameCounts DEF UnappliedSound, Pending
    <2>3. CASE startId'[u] # startId[u]
      <3>1. startId'[u] = seq + 1 /\ seq + 1 \in 0..MaxCalls
        BY <1>15, <2>3, Types, BoundsAssumption DEF Call, Domains, TaskDomain
      <3>2. f' \in AnyFrame /\ f'.id = seq + 1
        BY <3>1 DEF LifeFrame, Frame, AnyFrame, FrameKinds
      <3>3. ~OnWay(f')
        BY <3>2, Types DEF FrameInv, Frames, FrameSound
      <3>4. Count(down, f') = 0
        BY <3>3, UpSeq, CountFacts DEF OnWay
      <3>5. Pending(u)' = 0
        BY <2>1, <3>3, <3>4, FrameCounts DEF Pending, OnWay, InHand
      <3>6. Pending(u) \in Nat
        BY <1>0 DEF Pending
      <3> QED BY <1>0, <2>1, <3>5, <3>6 DEF UnappliedSound
    <2> QED BY <2>2, <2>3
  <1>16. ASSUME NEW t \in Tasks, PluginEvent(t) PROVE UnappliedSound(u)'
    <2>1. PICK x \in AnyFrame : Sent(x)
      BY <1>16, PluginSends
    <2> QED BY <1>c, <1>16, <2>1 DEF PluginEvent
  <1>17. CASE TakeStarted \/ TakeStartError \/ TakeStopped \/ TakeStopError \/ TakeDone
    BY <1>2, <1>17, Types DEF Take, TakeStarted, TakeStartError, TakeStopped, TakeStopError,
       TakeDone
  <1>18. CASE PumpFailsTasks \/ PumpKills \/ PumpExits
    BY <1>3, <1>18, Types DEF PumpGoes, Reading, PumpFailsTasks, PumpKills, PumpExits
  <1>19. CASE WriteRequest \/ Block \/ ReadFails \/ CallCancelled \/ GraceEnds \/
            CloseClient \/ CloseKills \/ CloseReturns
    BY <1>1, <1>19 DEF WriteRequest, Block, ReadFails, CallCancelled, GraceEnds,
       CloseClient, CloseKills, CloseReturns
  <1>20. CASE PluginReads \/ PluginRemoves \/ PluginDies \/ CtxEnds \/ (\E k \in Kinds, t
            \in Tasks \cup {NoTask} : CallRefused(k, t))
    BY <1>1, <1>20 DEF PluginReads, PluginRemoves, PluginDies, CtxEnds, CallRefused
  <1>21. CASE Closed \/ UNCHANGED vars
    BY <1>1, <1>21 DEF Closed, vars
  <1> QED BY <1>2, <1>3, <1>4, <1>5, <1>6, <1>7, <1>8, <1>9, <1>10, <1>11, <1>12, <1>13,
             <1>14, <1>15, <1>16, <1>17, <1>18, <1>19, <1>20, <1>21
         DEF Next, Caller, Pump, Plugin

\* How the number of frames not applied changes.
LEMMA UnappliedMoves ==
  ASSUME Domains, [Next]_vars
  PROVE  UNCHANGED unapplied \/ PluginLife \/ (\E t \in Tasks \cup {NoTask} : Apply(t))
  <1> USE DEF callVars, ctxVars, taskVars, procVars, plugVars, histVars
  <1>1. CASE UNCHANGED <<unapplied>>
    BY <1>1
  <1>2. CASE TakeLife
    BY <1>2, Types DEF TakeLife
  <1>3. CASE PumpLife
    BY <1>3 DEF PumpLife, Starter
  <1>4. CASE PluginLife
    BY <1>4 DEF PluginLife, Send, Frame
  <1>5. CASE WriteRequest \/ Block \/ ReadFails \/ CallCancelled \/ TakeStarted \/
            TakeStartError \/ TakeStopped \/ GraceEnds \/ TakeStopError \/ TakeDone \/
            Return \/ CloseClient \/ CloseKills \/ CloseReturns
    BY <1>1, <1>5 DEF WriteRequest, Block, ReadFails, CallCancelled, TakeStarted,
       TakeStartError, TakeStopped, GraceEnds, TakeStopError, TakeDone, Return, CloseClient,
       CloseKills, CloseReturns
  <1>6. CASE PumpEvent \/ PumpFinds \/ PumpDelivers \/ PumpUnexpected \/ PumpFailsTasks \/
            PumpKills \/ PumpEnds \/ PumpExits
    BY <1>1, <1>6 DEF PumpEvent, PumpFinds, PumpDelivers, PumpUnexpected, PumpFailsTasks,
       PumpKills, PumpEnds, PumpExits
  <1>7. CASE PluginReads \/ PluginAnswers \/ PluginRemoves \/ PluginBad \/ PluginDies \/
            CtxEnds \/ (\E k \in Kinds, t \in Tasks \cup {NoTask} : CallRefused(k, t)) \/
            (\E k \in Kinds, t \in Tasks \cup {NoTask} : Call(k, t)) \/ (\E t \in Tasks :
            PluginEvent(t))
    BY <1>1, <1>7 DEF PluginReads, PluginAnswers, PluginRemoves, PluginBad, PluginDies,
       CtxEnds, CallRefused, Call, PluginEvent
  <1>8. CASE Closed \/ UNCHANGED vars
    BY <1>1, <1>8 DEF Closed, vars
  <1> QED BY <1>2, <1>3, <1>4, <1>5, <1>6, <1>7, <1>8
         DEF Next, Caller, Pump, Plugin

\* The plugin has written every lifecycle frame the host applies.
LEMMA UnappliedStep ==
  ASSUME Domains, RequestInv, TaskInv, FrameInv, UnappliedInv, [Next]_vars
  PROVE  UnappliedInv'
  <1>1. unapplied' \in [Tasks -> Int]
    <2>1. CASE UNCHANGED unapplied
      BY <2>1 DEF UnappliedInv
    <2>2. ASSUME NEW t, Apply(t) PROVE unapplied' \in [Tasks -> Int]
      <3>1. \A w \in Tasks : unapplied'[w] = IF w = t THEN unapplied[w] - 1 ELSE unapplied[w]
        BY <2>2 DEF Apply, UnappliedInv
      <3>2. \A w \in Tasks : unapplied'[w] \in Int
        BY <3>1 DEF UnappliedInv
      <3>3. unapplied' = [w \in Tasks |-> unapplied'[w]]
        BY <2>2 DEF Apply, UnappliedInv
      <3> QED BY <3>2, <3>3
    <2>3. CASE PluginLife
      BY <2>3 DEF PluginLife, UnappliedInv
    <2> QED BY <2>1, <2>2, <2>3, UnappliedMoves
  <1>2. \A u \in Tasks : UnappliedSound(u)'
    BY UnappliedKept
  <1> QED BY <1>1, <1>2 DEF UnappliedInv

-----------------------------------------------------------------------------
(* The invariant.                                                          *)

\* The calm is kept, or it is over for good.
LEMMA CalmStep ==
  ASSUME Domains, Domains', RequestInv, TaskInv, FrameInv, FlushInv, CalmInv, [Next]_vars
  PROVE  CalmInv'
  <1> SUFFICES ASSUME Calm'
               PROVE  (/\ WaiterInv /\ AskedInv /\ StartsInv /\ AnswerInv /\ OneAnswer
                       /\ LifeInv /\ LastInv)'
    BY DEF CalmInv
  <1>1. Calm
    BY CalmKept
  <1>2. AskedInv'
    BY <1>1, AskedStep
  <1>3. AnswerInv'
    BY <1>1, <1>2, AnswerStep
  <1>4. WaiterInv' /\ StartsInv'
    BY <1>1, WaiterStep, StartsStep
  <1>5. OneAnswer' /\ LifeInv'
    BY <1>1, <1>2, OneAnswerStep, LifeStep
  <1>6. LastInv'
    BY <1>1, <1>3, LastStep
  <1> QED BY <1>2, <1>3, <1>4, <1>5, <1>6

\* The invariant holds at the start,
LEMMA InitInv == Init => IInv
  <1> SUFFICES ASSUME Init PROVE IInv
    OBVIOUS
  <1> USE DEF Init, Idle, NoReq, Reading, ErrFrame, Frame
  <1>1. \A y : ~Has(<<>>, y)
    BY EmptyFits DEF Has
  <1>2. Domains
    <2>0. 0 \in 0..MaxCalls /\ 0 \in 0..MaxLife /\ 0 \in 0..MaxBad
      <3>1. MaxCalls \in Nat /\ MaxLife \in Nat /\ MaxBad \in Nat
        BY BoundsAssumption
      <3> QED BY <3>1
    <2>1. NoReq \in Requests /\ ErrFrame \in AnyFrame
      BY BoundsAssumption DEF Requests, AnyFrame, FrameKinds
    <2>2. CallDomain
      BY <2>0, <2>1, EmptyFits, Zenon DEF CallDomain
    <2>3. PumpDomain
      BY <2>1, EmptyFits DEF PumpDomain
    <2>4. TaskDomain
      BY BoundsAssumption DEF TaskDomain
    <2>5. PlugDomain
      BY <2>1 DEF PlugDomain
    <2>6. HostDomain
      BY <2>0, Zenon DEF HostDomain
    <2> QED BY <2>2, <2>3, <2>4, <2>5, <2>6 DEF Domains
  <1>3. RequestInv
    BY <1>1, <1>2, Types DEF RequestInv, CallReq, NewReqs, UpOrder, Ordered, Active, Waiting,
       Has
  <1>4. TaskInv /\ ExitInv /\ FlushInv /\ GivenUp /\ FatalInv
    BY DEF TaskInv, TaskSound, ExitInv, FlushInv, GivenUp, FatalInv
  <1>5. FrameInv
    BY <1>1 DEF FrameInv, Frames, QueueIds, GraceSound, OnWay, InHand
  <1>6. CalmInv
    <2>1. WaiterInv /\ AskedInv /\ StartsInv /\ LifeInv
      BY <1>1 DEF WaiterInv, AskedInv, StartsInv, LifeInv, Asked, Active, Waiting
    <2>2. AnswerInv /\ OneAnswer /\ LastInv
      <3>1. \A f : ~OnWay(f) /\ ~InHand(f)
        BY <1>1 DEF OnWay, InHand
      <3>2. \A i \in DOMAIN down : FALSE
        BY <1>1 DEF Has
      <3>3. \A i \in DOMAIN queue : FALSE
        BY <1>1 DEF Has
      <3> QED BY <1>1, <3>1, <3>2, <3>3 DEF AnswerInv, OneAnswer, Single, LastInv, NoneAfter
    <2> QED BY <2>1, <2>2 DEF CalmInv
  <1>7. NilIsEarned /\ FatalIsKept /\ KillIsJustified
    BY DEF NilIsEarned, FatalIsKept, KillIsJustified
  <1>8. UnappliedInv
    <2>1. Domains /\ \A t \in Tasks : Pending(t) = 0
      BY <1>2, FrameCounts DEF Pending
    <2>2. unapplied = [t \in Tasks |-> 0] /\ life = 0
      OBVIOUS
    <2> QED BY <2>1, <2>2 DEF UnappliedInv, UnappliedSound
  <1> QED BY <1>2, <1>3, <1>4, <1>5, <1>6, <1>7, <1>8 DEF IInv

\* and every step keeps it.
LEMMA StepInv == IInv /\ [Next]_vars => IInv'
  <1> SUFFICES ASSUME IInv, [Next]_vars PROVE IInv'
    OBVIOUS
  <1> USE DEF IInv
  <1>1. Domains'
    BY CallDomainStep, PumpDomainStep, TaskDomainStep, PlugDomainStep, HostDomainStep DEF
       Domains
  <1>2. RequestInv'
    BY CallReqStep, NewReqsStep, UpOrderStep DEF RequestInv
  <1>3. TaskInv' /\ ExitInv'
    BY TaskStep, ExitStep
  <1>4. FrameInv'
    BY FramesStep, QueueIdsStep, GraceStep DEF FrameInv
  <1>5. FatalInv' /\ NilIsEarned' /\ FatalIsKept'
    BY FatalStep, NilStep, FatalKeptStep
  <1>6. FlushInv' /\ CalmInv'
    BY <1>1, FlushStep, CalmStep
  <1>7. GivenUp' /\ KillIsJustified'
    BY NothingUnexpected, GivenUpStep, KillStep
  <1>8. UnappliedInv'
    BY UnappliedStep
  <1> QED BY <1>1, <1>2, <1>3, <1>4, <1>5, <1>6, <1>7, <1>8

-----------------------------------------------------------------------------
(* The theorems.                                                           *)

\* Every part of the inductive invariant holds of every behaviour of the host and the
\* plugin.
THEOREM InvHolds == Spec => []IInv
  <1>1. Init => IInv
    BY InitInv
  <1>2. IInv /\ [Next]_vars => IInv'
    BY StepInv
  <1> QED BY <1>1, <1>2, PTL DEF Spec

\* Every variable of StdioClient and remoteBackgroundTask stays in its domain: a waiter's
\* queue never holds more than its capacity, and no lifecycle frame is applied that the
\* plugin has not written.
THEOREM TypeHolds == Spec => []TypeOK
  <1>1. ASSUME IInv PROVE TypeOK
    <2>1. Domains /\ UnappliedInv
      BY <1>1 DEF IInv
    <2>2. \A t \in Tasks : unapplied[t] \in 0..MaxLife
      <3>1. life \in 0..MaxLife /\ MaxLife \in Nat
        BY <2>1, BoundsAssumption DEF Domains, HostDomain
      <3> SUFFICES ASSUME NEW t \in Tasks PROVE unapplied[t] \in 0..MaxLife
        OBVIOUS
      <3>2. Pending(t) \in Nat
        BY <2>1, FrameCounts DEF Pending
      <3>3. unapplied[t] \in Int /\ Pending(t) <= unapplied[t] /\ unapplied[t] <= life
        BY <2>1 DEF UnappliedInv, UnappliedSound
      <3> QED BY <3>1, <3>2, <3>3
    <2>3. unapplied \in [Tasks -> 0..MaxLife]
      BY <2>1, <2>2 DEF UnappliedInv
    <2>4. /\ call.at \in {"idle", "write", "wait", "blocked", "grace", "return",
                         "closing", "closed"}
          /\ call.req \in Requests /\ {seq, reg} \subseteq 0..MaxCalls
          /\ queue \in Seq(AnyFrame) /\ Len(queue) <= QueueCap
      BY <2>1 DEF Domains, CallDomain, Active, Waiting
    <2>5. /\ pump.at \in {"read", "deliver", "unexpected", "full", "kill", "failing",
                         "exited"}
          /\ pump.frame \in AnyFrame /\ down \in Seq(AnyFrame)
      BY <2>1 DEF Domains, PumpDomain, Broken
    <2>6. /\ startId \in [Tasks -> 0..MaxCalls]
          /\ UNION {starts, byId, finished, returned, warned} \subseteq Tasks
          /\ done \in [Tasks -> {"none", "err", "nil"}]
      BY <2>1 DEF Domains, TaskDomain, PlugDomain
    <2>7. /\ plug \in Requests /\ up \in Seq(Requests)
          /\ srv \in [Tasks -> {"none", "active", "flushing", "removed"}]
          /\ evented \in [Tasks -> {"none", "fatal", "completed"}]
      BY <2>1 DEF Domains, PlugDomain
    <2>8. /\ {runCtx, callerCtx} \subseteq {"live", "cancelled"}
          /\ proc \in {"alive", "dead"}
          /\ killed \in {"no", "cancel", "close", "unexpected", "full"}
          /\ life \in 0..MaxLife /\ bad \in 0..MaxBad
      BY <2>1 DEF Domains, HostDomain
    <2>9. {shut, closed, waited, dropped} \subseteq BOOLEAN
      BY <2>1 DEF Domains, HostDomain, CallDomain
    <2> QED BY <2>3, <2>4, <2>5, <2>6, <2>7, <2>8, <2>9 DEF TypeOK
  <1> QED BY <1>1, InvHolds, PTL

\* When the read pump has ended, every task Start has returned has completed its Done:
\* readLoop fails what is in bgStarts and bgTasks before it returns, and TakeStarted
\* (the end of StartBackground) needs an answer that nobody queues after that.
THEOREM NoOrphanHolds == Spec => []NoOrphan
  <1>1. IInv => NoOrphan
    BY ExitedAreDone DEF IInv
  <1> QED BY <1>1, InvHolds, PTL

\* Done says nil only of a task whose end the plugin has told of, by a completed event
\* (dispatchBackgroundEvent) or by a StopResponse (Stop, after waitForStopTerminalEvent);
\* no failure of a call, of a task or of the plugin completes it with nil.
THEOREM NilIsEarnedHolds == Spec => []NilIsEarned
  <1>1. IInv => NilIsEarned
    BY DEF IInv
  <1> QED BY <1>1, InvHolds, PTL

\* The success of a stop never hides the fatal event the plugin wrote before it answered
\* that stop: the event is ahead of the StopResponse on stdout, and readLoop puts it on
\* Done before it hands the answer to Stop.
THEOREM FatalIsKeptHolds == Spec => []FatalIsKept
  <1>1. IInv => FatalIsKept
    BY DEF IInv
  <1> QED BY <1>1, InvHolds, PTL

\* readLoop takes a frame for unexpected, and kills the plugin, only after the host has
\* given up a call or a task itself: until then each frame finds its waiter or its task,
\* however the reads, the writes and the stops interleave.
THEOREM KillIsJustifiedHolds == Spec => []KillIsJustified
  <1>1. IInv => KillIsJustified
    BY DEF IInv
  <1> QED BY <1>1, InvHolds, PTL
=============================================================================
