---------------------------- MODULE SendTraffic ----------------------------
(***************************************************************************)
(* The traffic unit: Unit.Run of units/traffic/send/unit.go.  A loop sends *)
(* N messages at a fixed rate, each from a goroutine of its own, with at   *)
(* most MaxInFlight of them at work, and collects their results from a     *)
(* channel until all are in or the context is over.                        *)
(*                                                                         *)
(* Time is counted in ticks, and a message is due every Gap ticks.  The    *)
(* channel of results is the set of the messages at stage "queued": their  *)
(* order only decides LastMessageID, which is left out, as are the choice  *)
(* of target and sender and the latencies.                                 *)
(***************************************************************************)
EXTENDS Integers, FiniteSets

CONSTANTS
  N,            \* totalMessages
  MaxInFlight,  \* the spec's max_in_flight, or 1
  Gap,          \* the ticks between two messages at the spec's rate
  MaxNow        \* a bound on the clock

ASSUME NAssumption == N \in Nat \ {0}
ASSUME MaxInFlightAssumption == MaxInFlight \in Nat \ {0}
ASSUME ClockAssumption == Gap \in Nat /\ MaxNow \in Nat /\ (N - 1) * Gap <= MaxNow

Messages == 0..(N - 1)

VARIABLES
  pc,         \* where the loop is
  launched,   \* how many messages have been launched
  inFlight,   \* how many of them the loop has no result of
  completed,  \* how many results have been applied
  sendackOK, sendackErrors,   \* the summary
  stage,      \* where the goroutine of each message is
  outcome,    \* what SendAndWaitAck returned for it
  ctx,        \* the context of the run
  now         \* the clock

vars == <<pc, launched, inFlight, completed, sendackOK, sendackErrors, stage, outcome, ctx, now>>
loopVars == <<pc, launched, inFlight, completed, sendackOK, sendackErrors>>
countVars == <<launched, inFlight, completed, sendackOK, sendackErrors>>

Init ==
  /\ pc = "top"
  /\ launched = 0 /\ inFlight = 0 /\ completed = 0
  /\ sendackOK = 0 /\ sendackErrors = 0
  /\ stage = [m \in Messages |-> "none"]
  /\ outcome = [m \in Messages |-> "none"]
  /\ ctx = "live" /\ now = 0

At(s) == {m \in Messages : stage[m] = s}

-----------------------------------------------------------------------------
(* The loop.                                                               *)

\* scheduledStart.
Due(m) == m * Gap

Room == inFlight < MaxInFlight
MayLaunch == launched < N /\ Room

AllLaunched == launched = N
AllIn == completed = N

\* The for loop ends and the summary becomes an output.
Finish ==
  /\ pc = "top" /\ AllIn
  /\ pc' = "ok"
  /\ UNCHANGED <<countVars, stage, outcome, ctx, now>>

\* The goroutine of the next message is started; the context is not looked at.
Launch ==
  /\ launched' = launched + 1
  /\ inFlight' = inFlight + 1
  /\ stage' = [stage EXCEPT ![launched] = "sending"]
  /\ pc' = "top"
  /\ UNCHANGED <<completed, sendackOK, sendackErrors, outcome, ctx, now>>

DueUnlessBusy == now >= Due(launched) \/ inFlight > 0
DueNow == now >= Due(launched)
LaunchDue ==
  /\ pc = "top" /\ ~AllIn /\ MayLaunch /\ DueNow
  /\ Launch

\* It is too early for the next message, or there is no room for it.
Wait ==
  /\ pc = "top" /\ ~AllIn
  /\ \/ MayLaunch /\ ~DueNow /\ pc' = IF inFlight = 0 THEN "sleep" ELSE "select"
     \/ ~MayLaunch /\ pc' = "collect"
  /\ UNCHANGED <<countVars, stage, outcome, ctx, now>>

\* waitForSchedule ends, and the loop looks at the clock again.
WakeUp ==
  /\ pc = "sleep" /\ DueNow
  /\ pc' = "top"
  /\ UNCHANGED <<countVars, stage, outcome, ctx, now>>

\* The timer of the select: the message is launched at once.
TimerFires ==
  /\ pc = "select" /\ DueNow
  /\ Launch

\* terminalContextError.
Terminal(m) == outcome[m] = "cancelled" /\ ctx = "cancelled"

\* applyResult.
Apply(m) ==
  IF outcome[m] = "ok"
  THEN sendackOK' = sendackOK + 1 /\ UNCHANGED sendackErrors
  ELSE sendackErrors' = sendackErrors + 1 /\ UNCHANGED sendackOK

SlotFreed == inFlight' = inFlight - 1

\* A result is received: it ends the run, or it is counted and the loop goes on
\* from its top.
TakeResult(m) ==
  /\ pc \in {"select", "collect"} /\ stage[m] = "queued"
  /\ stage' = [stage EXCEPT ![m] = "taken"]
  /\ \/ /\ Terminal(m)
        /\ pc' = "err"
        /\ UNCHANGED countVars
     \/ /\ ~Terminal(m)
        /\ Apply(m) /\ SlotFreed
        /\ completed' = completed + 1
        /\ pc' = "top"
        /\ UNCHANGED launched
  /\ UNCHANGED <<outcome, ctx, now>>

\* The other arm of each select, and waitForSchedule.
BreakSelect == pc' = "top"
ReturnError == pc' = "err"
SeeCancel ==
  /\ pc \in {"sleep", "select", "collect"} /\ ctx = "cancelled"
  /\ ReturnError
  /\ UNCHANGED <<countVars, stage, outcome, ctx, now>>

-----------------------------------------------------------------------------
(* The goroutines, the context and the clock.                              *)

\* sendOne returns: no sender, an error, a sendack, or the error of the context
\* when that is over.
SendReturns(m) ==
  /\ stage[m] = "sending"
  /\ \E o \in {"ok", "err", "cancelled"} :
       /\ o = "cancelled" => ctx = "cancelled"
       /\ outcome' = [outcome EXCEPT ![m] = o]
  /\ stage' = [stage EXCEPT ![m] = "posting"]
  /\ UNCHANGED <<loopVars, ctx, now>>

\* The result is put into the channel, or dropped when the context is over: the
\* select takes either when both are possible.
Post(m) ==
  /\ stage[m] = "posting"
  /\ \/ Cardinality(At("queued")) < MaxInFlight /\ stage' = [stage EXCEPT ![m] = "queued"]
     \/ ctx = "cancelled" /\ stage' = [stage EXCEPT ![m] = "dropped"]
  /\ UNCHANGED <<loopVars, outcome, ctx, now>>

Cancel ==
  /\ ctx = "live"
  /\ ctx' = "cancelled"
  /\ UNCHANGED <<loopVars, stage, outcome, now>>

Tick ==
  /\ now < MaxNow
  /\ now' = now + 1
  /\ UNCHANGED <<loopVars, stage, outcome, ctx>>

-----------------------------------------------------------------------------
Loop == Finish \/ LaunchDue \/ Wait \/ WakeUp \/ TimerFires \/ SeeCancel \/ \E m \in Messages : TakeResult(m)

\* Run has returned and its goroutines are gone.
Over ==
  /\ pc \in {"ok", "err"} /\ At("sending") \cup At("posting") = {}
  /\ UNCHANGED vars

Next == Loop \/ Cancel \/ Tick \/ (\E m \in Messages : SendReturns(m) \/ Post(m)) \/ Over

Spec == Init /\ [][Next]_vars

\* The loop runs, the clock goes on and a goroutine that has a result posts it;
\* a send may take for ever.
FairSpec == Spec /\ WF_vars(Loop) /\ WF_vars(Tick) /\ \A m \in Messages : WF_vars(Post(m))

-----------------------------------------------------------------------------
(* Properties.                                                             *)

\* Every variable stays in its domain, and inFlight is the number of messages the
\* loop waits for (inFlight, completed and launched of Run).
TypeOK ==
  /\ pc \in {"top", "sleep", "select", "collect", "ok", "err"}
  /\ launched \in 0..N /\ completed \in 0..N /\ inFlight \in 0..MaxInFlight
  /\ sendackOK \in 0..N /\ sendackErrors \in 0..N
  /\ stage \in [Messages -> {"none", "sending", "posting", "queued", "taken", "dropped"}]
  /\ outcome \in [Messages -> {"none", "ok", "err", "cancelled"}]
  /\ ctx \in {"live", "cancelled"} /\ now \in 0..MaxNow
  /\ launched = completed + inFlight

\* A run that succeeds has the fate of every message in its summary, each counted
\* once, whatever the order of the results (applyResult).
Accounted ==
  pc = "ok" =>
    /\ sendackOK = Cardinality({m \in Messages : outcome[m] = "ok"})
    /\ sendackErrors = Cardinality({m \in Messages : outcome[m] = "err"})
    /\ sendackOK + sendackErrors = N

\* A message that failed because the run was cancelled is never counted as a
\* failure of the server (TestSendReturnsContextErrorFromInFlightSend), however
\* many others are counted after the cancellation.
NoBlame == sendackErrors <= Cardinality({m \in Messages : outcome[m] = "err"})

\* At most MaxInFlight goroutines are at work or have their result in the channel,
\* so that none of them ever waits to post it (results, MaxInFlight).
InFlightBounded ==
  Cardinality(At("sending") \cup At("posting") \cup At("queued")) <= MaxInFlight

\* No message is launched before it is due: results that come early do not make
\* the unit send faster (Spec: Rate is the total offered send rate).
Paced == [][\A m \in Messages : stage[m] = "none" /\ stage'[m] = "sending" => now >= m * Gap]_vars

\* A cancelled run returns, even if no send ever does.
CancelEnds == ctx = "cancelled" ~> pc \in {"ok", "err"}
=============================================================================
