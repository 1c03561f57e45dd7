-------------------------- MODULE MetricsCollector --------------------------
(***************************************************************************)
(* The background task of the metrics collector: collector of              *)
(* units/wukongim/metrics_collector/collector.go.  Its goroutine scrapes   *)
(* every node once per tick, writes one record per node to the artifact    *)
(* and counts it, until it is stopped, the run is cancelled, the artifact  *)
(* cannot be written or too many ticks in a row have failed.  Stop waits   *)
(* for it and publishes the summary.                                       *)
(*                                                                         *)
(* Of the summary the ticks and the counts per node are kept; samples,     *)
(* filters and latencies are left out.  The kernel and the plugin server   *)
(* stop a task with one call at a time, and may call again.                *)
(***************************************************************************)
EXTENDS Integers, FiniteSets

CONSTANTS
  Nodes,      \* len(target.APIAddrs)
  MaxLimit,   \* the greatest max_consecutive_errors looked at
  MaxTicks    \* a bound on the ticks

ASSUME NodesAssumption == Nodes \in Nat \ {0}
ASSUME BoundsAssumption == MaxLimit \in Nat /\ MaxTicks \in Nat

Addrs == 1..Nodes

VARIABLES
  spec,       \* fail_on_scrape_error and max_consecutive_errors
  pc,         \* where the goroutine is
  ctx,        \* its context, a child of the run's
  result,     \* what the scrape of each node has given in this tick
  next,       \* the node whose record is written next
  consecutive,  \* consecutiveErrorTicks
  scrapeTicks, success, errors,   \* the state: the ticks and the counts of the nodes
  done,       \* the channel Done: open, or closed with or without an error
  records,    \* how many records of each node the artifact has
  artifact,   \* open or closed
  stop,       \* a call of Stop is waiting, or the result of the last one
  finalized,  \* finalizeOnce and finalizeErr
  summary,    \* the output
  failing     \* history: the ticks in which a node failed by itself

vars == <<spec, pc, ctx, result, next, consecutive, scrapeTicks, success, errors, done,
          records, artifact, stop, finalized, summary, failing>>
stateVars == <<scrapeTicks, success, errors>>
loopVars == <<pc, result, next, consecutive, stateVars, done, records, failing>>
stopVars == <<artifact, stop, finalized, summary>>

Zero == [a \in Addrs |-> 0]
NoSummary == [ticks |-> 0, success |-> Zero, errors |-> Zero]

Init ==
  /\ spec \in [strict : BOOLEAN, limit : 0..MaxLimit]
  /\ pc = "tick" /\ ctx = "live"
  /\ result = [a \in Addrs |-> "none"] /\ next = 1
  /\ consecutive = 0
  /\ scrapeTicks = 0 /\ success = Zero /\ errors = Zero
  /\ done = "open"
  /\ records = Zero /\ artifact = "open"
  /\ stop = "none" /\ finalized = "no" /\ summary = NoSummary
  /\ failing = {}

-----------------------------------------------------------------------------
(* The goroutine.                                                          *)

\* scrapeTick starts, unless the context is over.
StartTick ==
  /\ pc = "tick"
  /\ \/ /\ ctx = "live" /\ scrapeTicks < MaxTicks
        /\ pc' = "scrape"
        /\ scrapeTicks' = scrapeTicks + 1
        /\ result' = [a \in Addrs |-> "none"] /\ next' = 1
        /\ UNCHANGED <<success, errors, done, consecutive, records, failing>>
     \/ /\ ctx = "over"
        /\ pc' = "return" /\ done' = "closed"
        /\ UNCHANGED <<result, next, consecutive, stateVars, records, failing>>
  /\ UNCHANGED <<spec, ctx, stopVars>>

\* scrapeNode: a success, one with lines that cannot be parsed, a failure of the
\* node, or one of the context.
Scrape(a) ==
  /\ pc = "scrape" /\ result[a] = "none"
  /\ \E r \in {"ok", "parse", "err", "cut"} :
       /\ r = "cut" => ctx = "over"
       /\ result' = [result EXCEPT ![a] = r]
       /\ failing' = IF r \in {"parse", "err"} THEN failing \cup {scrapeTicks} ELSE failing
  /\ UNCHANGED <<spec, pc, ctx, next, consecutive, stateVars, done, records, stopVars>>

AllScraped ==
  /\ pc = "scrape" /\ \A a \in Addrs : result[a] # "none"
  /\ pc' = "record"
  /\ UNCHANGED <<spec, ctx, result, next, consecutive, stateVars, done, records, failing, stopVars>>

\* recordResult: a scrape with parse errors counts as a success of the node.
Count(a) ==
  \/ result[a] \in {"err", "cut"} /\ errors' = [errors EXCEPT ![a] = @ + 1] /\ UNCHANGED success
  \/ result[a] \in {"ok", "parse"} /\ success' = [success EXCEPT ![a] = @ + 1] /\ UNCHANGED errors

\* The record of the next node is written and counted, or the artifact fails.
Record ==
  /\ pc = "record" /\ next <= Nodes
  /\ \/ /\ artifact = "open"
        /\ records' = [records EXCEPT ![next] = @ + 1] /\ Count(next)
        /\ next' = next + 1
        /\ UNCHANGED <<scrapeTicks, pc, done>>
     \/ /\ pc' = "return" /\ done' = "writeFailed"
        /\ UNCHANGED <<next, records, stateVars>>
  /\ UNCHANGED <<spec, ctx, result, consecutive, failing, stopVars>>

\* hadScrapeError of scrapeTick.
HadScrapeError == \E a \in Addrs : result[a] # "ok"

LimitReached == spec.limit = 0 \/ consecutive' >= spec.limit

StopIgnored == FALSE
StopSeen == ctx = "over"

\* The tick is over: the loop ends when it has been stopped, whatever failed, or
\* when it has had too many errors in a row.
Judge ==
  /\ pc = "record" /\ next > Nodes
  /\ \/ /\ StopSeen
        /\ pc' = "return" /\ done' = "closed"
        /\ UNCHANGED consecutive
     \/ /\ ~StopSeen /\ HadScrapeError
        /\ consecutive' = consecutive + 1
        /\ IF spec.strict /\ LimitReached
           THEN pc' = "return" /\ done' = "tooManyErrors"
           ELSE pc' = "sleep" /\ UNCHANGED done
     \/ /\ ~StopSeen /\ ~HadScrapeError
        /\ consecutive' = 0
        /\ pc' = "sleep" /\ UNCHANGED done
  /\ UNCHANGED <<spec, ctx, result, next, stateVars, records, failing, stopVars>>

\* The interval is over, or the context.
WakeUp ==
  /\ pc = "sleep"
  /\ \/ /\ scrapeTicks < MaxTicks
        /\ pc' = "tick" /\ UNCHANGED done
     \/ /\ StopSeen
        /\ pc' = "return" /\ done' = "closed"
  /\ UNCHANGED <<spec, ctx, result, next, consecutive, stateVars, records, failing, stopVars>>

\* run returns, and its defer closes stopped.
CloseIfNormal == pc' = IF done = "closed" THEN "stopped" ELSE "gone"
CloseStopped == pc' = "stopped"
Return ==
  /\ pc = "return"
  /\ CloseStopped
  /\ UNCHANGED <<spec, ctx, result, next, consecutive, stateVars, done, records, failing, stopVars>>

-----------------------------------------------------------------------------
(* Stop, and the context of the run.                                       *)

Stop ==
  /\ stop # "waiting"
  /\ stop' = "waiting"
  /\ ctx' = "over"
  /\ UNCHANGED <<spec, loopVars, artifact, finalized, summary>>

\* The context of this call is over.
StopGivesUp ==
  /\ stop = "waiting"
  /\ stop' = "gaveUp"
  /\ UNCHANGED <<spec, ctx, loopVars, artifact, finalized, summary>>

LoopTold == ctx = "over"
LoopEnded == pc = "stopped"

NotFinalized == finalized = "no"

\* The goroutine has ended: the first call to see it closes the artifact, a second
\* close being an error, and publishes the summary.
StopFinalizes ==
  /\ stop = "waiting" /\ LoopEnded /\ NotFinalized
  /\ artifact' = "closed" /\ summary' = [ticks |-> scrapeTicks, success |-> success, errors |-> errors]
  /\ \E e \in {"ok", "err"} :
       /\ artifact = "closed" => e = "err"
       /\ finalized' = e /\ stop' = e
  /\ UNCHANGED <<spec, ctx, loopVars>>

StopAgain ==
  /\ stop = "waiting" /\ LoopEnded /\ ~NotFinalized
  /\ stop' = finalized
  /\ UNCHANGED <<spec, ctx, loopVars, artifact, finalized, summary>>

RunCancelled ==
  /\ ctx = "live"
  /\ ctx' = "over"
  /\ UNCHANGED <<spec, loopVars, stopVars>>

-----------------------------------------------------------------------------
Loop == StartTick \/ AllScraped \/ Record \/ Judge \/ WakeUp \/ Return \/ \E a \in Addrs : Scrape(a)

Next == Loop \/ Stop \/ StopGivesUp \/ StopFinalizes \/ StopAgain \/ RunCancelled

Spec == Init /\ [][Next]_vars

\* The goroutine runs, with every scrape ending at its timeout, and a Stop sees
\* that it has ended.
FairSpec == Spec /\ WF_vars(Loop) /\ WF_vars(StopFinalizes \/ StopAgain)

-----------------------------------------------------------------------------
(* Properties.                                                             *)

\* The last k ticks have all failed by themselves.
LastFailed(k) == scrapeTicks >= k /\ (scrapeTicks - k + 1)..scrapeTicks \subseteq failing

\* The ticks in a row that are too many.
Threshold == IF spec.limit = 0 THEN 1 ELSE spec.limit

\* Every variable stays in its domain: no count passes the number of ticks, and in
\* strict mode consecutiveErrorTicks stays within the threshold (collectorState).
TypeOK ==
  /\ spec \in [strict : BOOLEAN, limit : 0..MaxLimit]
  /\ pc \in {"tick", "scrape", "record", "sleep", "return", "stopped"}
  /\ ctx \in {"live", "over"}
  /\ result \in [Addrs -> {"none", "ok", "parse", "err", "cut"}] /\ next \in 1..(Nodes + 1)
  /\ consecutive \in 0..(IF spec.strict THEN Threshold ELSE MaxTicks)
  /\ scrapeTicks \in 0..MaxTicks
  /\ success \in [Addrs -> 0..MaxTicks] /\ errors \in [Addrs -> 0..MaxTicks]
  /\ done \in {"open", "closed", "writeFailed", "tooManyErrors"}
  /\ records \in [Addrs -> 0..MaxTicks] /\ artifact \in {"open", "closed"}
  /\ stop \in {"none", "waiting", "gaveUp", "ok", "err"}
  /\ finalized \in {"no", "ok", "err"}
  /\ failing \subseteq 1..MaxTicks

\* The published summary is that of the whole run: it counts every record of the
\* artifact once, and as long as the artifact can be written every node has a record
\* for each tick, the one that the stop has cut short included (Stop waits for
\* stopped; TestCollectorStopDuringInFlightScrapeFlushesRecords).
SummaryAgrees ==
  finalized # "no" =>
    /\ \A a \in Addrs : summary.success[a] + summary.errors[a] = records[a]
    /\ done # "writeFailed" => \A a \in Addrs : records[a] = summary.ticks

\* The collector fails the run only when it cannot write, or in strict mode when as
\* many ticks as the spec says have failed in a row by themselves: neither errors
\* further back nor the scrapes a stop has cut short count (loop, fail_on_scrape_error).
FatalIsEarned == done = "tooManyErrors" => spec.strict /\ LastFailed(Threshold)

\* In strict mode it does fail then, and does not sleep over it.
FatalIsDue == spec.strict /\ pc = "sleep" => ~LastFailed(Threshold)

\* A second Stop gives the result of the first, and changes neither the artifact
\* nor the summary (finalizeOnce, TestStopIsIdempotent).
StopStands ==
  [][finalized # "no" =>
       /\ UNCHANGED <<finalized, summary, artifact>>
       /\ stop' \in {"waiting", "gaveUp", finalized}]_vars

\* The collector is a background task as the kernel and the plugin server know them
\* (contract.BackgroundTask): its Done completes once, and after the last record; a Stop
\* that does not give up comes after that, publishes all the records or says that it
\* could not, and any other gives the same answer (Stop, run, finalizeOnce).
DoneSeen == IF done \in {"open", "closed"} THEN done ELSE "failed"
Summary == [ticks |-> scrapeTicks, success |-> success, errors |-> errors]
Published == IF finalized = "no" THEN <<>> ELSE <<[work |-> <<summary, records>>, answer |-> finalized]>>
Task == INSTANCE BackgroundTask
        WITH done <- DoneSeen, work <- <<Summary, records>>, stop <- stop, published <- Published
ActsAsTask == Task!Spec

\* A Stop returns even if its context has no end, after a fatal error too, and can
\* be called again after it gave up.
StopReturns == stop = "waiting" ~> stop # "waiting"
=============================================================================
