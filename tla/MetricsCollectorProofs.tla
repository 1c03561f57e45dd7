----------------------- MODULE MetricsCollectorProofs -----------------------
(***************************************************************************)
(* Proofs of MetricsCollector's safety properties, for any number of nodes *)
(* and ticks and any threshold.                                            *)
(***************************************************************************)
EXTENDS MetricsCollector, TLAPS

InTick == pc \in {"scrape", "record"}
Ended == pc \in {"return", "stopped"}

\* The ticks that have been judged, or need not be.
Judged == IF InTick THEN scrapeTicks - 1 ELSE scrapeTicks

\* The domains, without the bounds.
Domains ==
  /\ spec \in [strict : BOOLEAN, limit : 0..MaxLimit]
  /\ pc \in {"tick", "scrape", "record", "sleep", "return", "stopped"}
  /\ ctx \in {"live", "over"}
  /\ result \in [Addrs -> {"none", "ok", "parse", "err", "cut"}] /\ next \in 1..(Nodes + 1)
  /\ consecutive \in Nat
  /\ scrapeTicks \in 0..MaxTicks /\ success \in [Addrs -> Nat] /\ errors \in [Addrs -> Nat]
  /\ done \in {"open", "closed", "writeFailed", "tooManyErrors"}
  /\ records \in [Addrs -> Nat] /\ artifact \in {"open", "closed"}
  /\ stop \in {"none", "waiting", "gaveUp", "ok", "err"}
  /\ finalized \in {"no", "ok", "err"}
  /\ failing \subseteq 1..scrapeTicks
  /\ InTick => scrapeTicks >= 1

\* A record is written for each node and tick, in the order of the nodes, and counted.
RecordsInOrder ==
  /\ \A a \in Addrs : success[a] + errors[a] = records[a] /\ records[a] <= scrapeTicks
  /\ Ended <=> done # "open"
  /\ pc \in {"tick", "sleep"} => \A a \in Addrs : records[a] = scrapeTicks
  /\ pc = "scrape" => next = 1
  /\ InTick => \A a \in Addrs : records[a] = IF a < next THEN scrapeTicks ELSE scrapeTicks - 1
  /\ Ended /\ done # "writeFailed" => \A a \in Addrs : records[a] = scrapeTicks
  /\ finalized # "no" => /\ pc = "stopped"
                       /\ summary = [ticks |-> scrapeTicks, success |-> success, errors |-> errors]

\* What this tick has seen: a scrape is cut short only by the context, and the tick
\* fails by itself only through a node.
TickSeen ==
  /\ \A a \in Addrs : result[a] = "cut" => ctx = "over"
  /\ InTick => (scrapeTicks \in failing <=> \E a \in Addrs : result[a] \in {"parse", "err"})
  /\ pc = "record" => \A a \in Addrs : result[a] # "none"

\* consecutiveErrorTicks is the length of the last row of failed ticks.
RowIsCounted ==
  ~Ended =>
    /\ consecutive <= Judged
    /\ \A t \in (Judged - consecutive + 1)..Judged : t \in failing
    /\ consecutive < Judged => Judged - consecutive \notin failing

BelowThreshold ==
  spec.strict => consecutive <= Threshold /\ (~Ended => consecutive < Threshold)

ConsecutiveBounded == consecutive <= scrapeTicks

Inv == /\ Domains /\ RecordsInOrder /\ TickSeen /\ RowIsCounted
       /\ BelowThreshold /\ ConsecutiveBounded /\ FatalIsEarned

-----------------------------------------------------------------------------
\* Count adds one to the success or the error count of a node, and nothing else.
LEMMA CountAdds ==
  ASSUME Domains, NEW a \in Addrs, Count(a)
  PROVE  /\ success' \in [Addrs -> Nat] /\ errors' \in [Addrs -> Nat]
         /\ success'[a] + errors'[a] = success[a] + errors[a] + 1
         /\ \A b \in Addrs \ {a} : success'[b] = success[b] /\ errors'[b] = errors[b]
  BY DEF Domains, Count

LEMMA InitInv == Init => Inv
  BY NodesAssumption, BoundsAssumption
  DEF Init, Inv, Domains, RecordsInOrder, TickSeen, RowIsCounted, BelowThreshold, Threshold,
      ConsecutiveBounded, FatalIsEarned, Judged, InTick, Ended, Zero, Addrs

LEMMA DomainsStep == ASSUME Domains, [Next]_vars PROVE Domains'
  <1> USE NodesAssumption, BoundsAssumption DEF Domains, InTick, stateVars
  <1>1. CASE StartTick
    <2>1. /\ pc' \in {"scrape", "return"} /\ done' \in {"open", "closed", "writeFailed", "tooManyErrors"}
          /\ result' \in [Addrs -> {"none", "ok", "parse", "err", "cut"}] /\ next' \in 1..(Nodes + 1)
      BY <1>1 DEF StartTick
    <2>2. /\ scrapeTicks' \in 0..MaxTicks /\ failing' \subseteq 1..scrapeTicks'
          /\ pc' = "scrape" => scrapeTicks' >= 1
      <3>1. scrapeTicks \in Nat /\ \A t \in failing : t \in Int /\ 1 <= t /\ t <= scrapeTicks
        BY DEF Domains
      <3>2. CASE /\ scrapeTicks < MaxTicks /\ scrapeTicks' = scrapeTicks + 1 /\ UNCHANGED failing
        BY <3>1, <3>2
      <3>3. CASE pc' = "return" /\ UNCHANGED <<scrapeTicks, failing>>
        BY <3>3
      <3> QED BY <1>1, <3>2, <3>3 DEF StartTick
    <2>3. UNCHANGED <<spec, ctx, consecutive, success, errors, records, stopVars>>
      BY <1>1 DEF StartTick
    <2> QED BY <2>1, <2>2, <2>3 DEF stopVars
  <1>2. ASSUME NEW a \in Addrs, Scrape(a) PROVE Domains'
    <2>1. failing' \subseteq failing \cup {scrapeTicks}
      BY <1>2 DEF Scrape
    <2> QED BY <1>2, <2>1 DEF Scrape, stopVars
  <1>3. CASE AllScraped
    BY <1>3 DEF AllScraped, stopVars
  <1>4. CASE Record
    <2>1. next \in Addrs
      BY <1>4 DEF Record, Addrs
    <2>2. CASE /\ records' = [records EXCEPT ![next] = @ + 1] /\ Count(next)
               /\ next' = next + 1 /\ UNCHANGED <<scrapeTicks, pc, done>>
      <3>1. success' \in [Addrs -> Nat] /\ errors' \in [Addrs -> Nat]
        BY <2>1, <2>2, CountAdds
      <3>2. records' \in [Addrs -> Nat] /\ next' \in 1..(Nodes + 1)
        BY <1>4, <2>1, <2>2 DEF Record
      <3> QED BY <1>4, <2>2, <3>1, <3>2 DEF Record, stopVars
    <2>3. CASE /\ pc' = "return" /\ done' = "writeFailed"
               /\ UNCHANGED <<next, records, stateVars>>
      BY <1>4, <2>3 DEF Record, stopVars
    <2> QED BY <1>4, <2>2, <2>3 DEF Record
  <1>5. CASE Judge
    BY <1>5 DEF Judge, stopVars
  <1>6. CASE WakeUp \/ Return
    BY <1>6, ZenonT(30) DEF WakeUp, Return, CloseStopped, stopVars
  <1>7. CASE Stop \/ StopGivesUp \/ StopFinalizes \/ StopAgain \/ RunCancelled
    <2>1. CASE Stop \/ StopGivesUp
      BY <2>1 DEF Stop, StopGivesUp, loopVars, stopVars
    <2>2. CASE StopFinalizes \/ StopAgain
      BY <2>2 DEF StopFinalizes, StopAgain, NotFinalized, loopVars, stopVars
    <2>3. CASE RunCancelled
      BY <2>3 DEF RunCancelled, loopVars, stopVars
    <2> QED BY <1>7, <2>1, <2>2, <2>3
  <1>8. CASE UNCHANGED vars
    BY <1>8 DEF vars
  <1> QED BY <1>1, <1>2, <1>3, <1>4, <1>5, <1>6, <1>7, <1>8 DEF Next, Loop

LEMMA RecordsStep == ASSUME Domains, RecordsInOrder, [Next]_vars PROVE RecordsInOrder'
  <1> USE NodesAssumption, BoundsAssumption DEF RecordsInOrder, InTick, Ended, stateVars
  <1>1. CASE StartTick
    <2>1. Addrs \subseteq Int /\ \A a \in Addrs : a >= 1 /\ records[a] \in Nat
      BY DEF Addrs, Domains
    <2> QED BY <1>1, <2>1 DEF Domains, StartTick, stopVars
  <1>2. ASSUME NEW a \in Addrs, Scrape(a) PROVE RecordsInOrder'
    BY <1>2 DEF Scrape, stopVars
  <1>3. CASE AllScraped
    BY <1>3 DEF AllScraped, stopVars
  <1>4. CASE Record
    <2>0. /\ pc = "record" /\ next \in Addrs /\ next \in Int
          /\ UNCHANGED <<stop, finalized, summary>>
      BY <1>4 DEF Record, Domains, Addrs, stopVars
    <2>1. CASE /\ records' = [records EXCEPT ![next] = @ + 1] /\ Count(next)
               /\ next' = next + 1 /\ UNCHANGED <<scrapeTicks, pc, done>>
      <3>1. \A b \in Addrs : success'[b] + errors'[b] = records'[b]
        BY <2>0, <2>1, CountAdds DEF Domains
      <3>2. ASSUME NEW b \in Addrs
            PROVE  records'[b] = IF b < next' THEN scrapeTicks' ELSE scrapeTicks' - 1
        <4>1. b \in Int /\ scrapeTicks \in Int /\ records[b] \in Nat
          BY DEF Addrs, Domains
        <4> QED BY <2>0, <2>1, <4>1 DEF Domains
      <3> QED BY <2>0, <2>1, <3>1, <3>2 DEF Domains
    <2>2. CASE /\ pc' = "return" /\ done' = "writeFailed"
               /\ UNCHANGED <<next, records, stateVars>>
      BY <2>0, <2>2
    <2> QED BY <1>4, <2>1, <2>2 DEF Record
  <1>5. CASE Judge
    <2>1. ASSUME NEW a \in Addrs PROVE records[a] = scrapeTicks
      <3>1. a \in Int /\ a < next
        BY <1>5 DEF Judge, Addrs, Domains
      <3> QED BY <1>5, <3>1 DEF Judge
    <2> QED BY <1>5, <2>1 DEF Judge, stopVars
  <1>6. CASE WakeUp \/ Return
    BY <1>6 DEF WakeUp, Return, CloseStopped, stopVars
  <1>7. CASE Stop \/ StopGivesUp \/ StopFinalizes \/ StopAgain \/ RunCancelled
    BY <1>7 DEF Stop, StopGivesUp, StopFinalizes, StopAgain, LoopEnded, NotFinalized, RunCancelled,
       loopVars, stopVars
  <1>8. CASE UNCHANGED vars
    BY <1>8 DEF vars
  <1> QED BY <1>1, <1>2, <1>3, <1>4, <1>5, <1>6, <1>7, <1>8 DEF Next, Loop

LEMMA TickSeenStep == ASSUME Domains, TickSeen, [Next]_vars PROVE TickSeen'
  <1> USE BoundsAssumption DEF TickSeen, InTick, stateVars
  <1>1. CASE StartTick
    <2>1. scrapeTicks \in Nat /\ scrapeTicks + 1 \notin failing
      BY DEF Domains
    <2> QED BY <1>1, <2>1 DEF StartTick
  <1>2. ASSUME NEW a \in Addrs, Scrape(a) PROVE TickSeen'
    <2>1. PICK r \in {"ok", "parse", "err", "cut"} :
            /\ r = "cut" => ctx = "over"
            /\ result' = [result EXCEPT ![a] = r]
            /\ failing' = IF r \in {"parse", "err"} THEN failing \cup {scrapeTicks} ELSE failing
      BY <1>2 DEF Scrape
    <2>2. /\ pc = "scrape" /\ result[a] = "none" /\ UNCHANGED <<pc, ctx, stateVars>>
          /\ result'[a] = r /\ \A b \in Addrs \ {a} : result'[b] = result[b]
      BY <1>2, <2>1 DEF Scrape, Domains
    <2> QED BY <2>1, <2>2
  <1>3. CASE AllScraped
    BY <1>3 DEF AllScraped
  <1>4. CASE Record
    BY <1>4 DEF Record
  <1>5. CASE Judge
    BY <1>5 DEF Judge
  <1>6. CASE WakeUp \/ Return
    BY <1>6 DEF WakeUp, Return, CloseStopped
  <1>7. CASE Stop \/ StopGivesUp \/ StopFinalizes \/ StopAgain \/ RunCancelled
    BY <1>7 DEF Stop, StopGivesUp, StopFinalizes, StopAgain, RunCancelled, loopVars
  <1>8. CASE UNCHANGED vars
    BY <1>8 DEF vars
  <1> QED BY <1>1, <1>2, <1>3, <1>4, <1>5, <1>6, <1>7, <1>8 DEF Next, Loop

LEMMA RowStep ==
  ASSUME Domains, TickSeen, RowIsCounted, [Next]_vars
  PROVE  RowIsCounted'
  <1> USE BoundsAssumption DEF Domains, RowIsCounted, Judged, InTick, Ended, stateVars
  <1>1. CASE StartTick
    BY <1>1 DEF StartTick
  <1>2. ASSUME NEW a \in Addrs, Scrape(a) PROVE RowIsCounted'
    <2>1. /\ pc = "scrape" /\ UNCHANGED <<pc, consecutive, scrapeTicks>>
          /\ failing \subseteq failing' /\ failing' \subseteq failing \cup {scrapeTicks}
      BY <1>2 DEF Scrape
    <2> QED BY <2>1
  <1>3. CASE AllScraped
    BY <1>3 DEF AllScraped
  <1>4. CASE Record
    BY <1>4 DEF Record
  <1>5. CASE Judge
    <2>0. pc = "record" /\ scrapeTicks >= 1 /\ UNCHANGED <<scrapeTicks, failing>>
      BY <1>5 DEF Judge
    <2>1. CASE pc' = "return"
      BY <2>1
    <2>2. CASE HadScrapeError /\ ctx # "over" /\ pc' = "sleep" /\ consecutive' = consecutive + 1
      <3>1. scrapeTicks \in failing
        BY <2>0, <2>2 DEF HadScrapeError, TickSeen
      <3> QED BY <2>0, <2>2, <3>1
    <2>3. CASE ~HadScrapeError /\ pc' = "sleep" /\ consecutive' = 0
      <3>1. scrapeTicks \notin failing
        BY <2>0, <2>3 DEF HadScrapeError, TickSeen
      <3> QED BY <2>0, <2>3, <3>1
    <2> QED BY <1>5, <2>1, <2>2, <2>3 DEF Judge, StopSeen
  <1>6. CASE WakeUp \/ Return
    BY <1>6 DEF WakeUp, Return, CloseStopped
  <1>7. CASE Stop \/ StopGivesUp \/ StopFinalizes \/ StopAgain \/ RunCancelled
    BY <1>7 DEF Stop, StopGivesUp, StopFinalizes, StopAgain, RunCancelled, loopVars
  <1>8. CASE UNCHANGED vars
    BY <1>8 DEF vars
  <1> QED BY <1>1, <1>2, <1>3, <1>4, <1>5, <1>6, <1>7, <1>8 DEF Next, Loop

\* In strict mode the loop goes on only below the threshold.
LEMMA ThresholdStep ==
  ASSUME Domains, BelowThreshold, ConsecutiveBounded, RowIsCounted, [Next]_vars
  PROVE  BelowThreshold' /\ ConsecutiveBounded'
  <1> USE BoundsAssumption
      DEF Domains, BelowThreshold, ConsecutiveBounded, Threshold, Ended, stateVars
  <1>1. CASE Judge
    <2>0. pc = "record" /\ consecutive <= scrapeTicks - 1 /\ UNCHANGED <<spec, scrapeTicks>>
      BY <1>1 DEF Judge, RowIsCounted, Judged, InTick
    <2> QED BY <1>1, <2>0 DEF Judge, StopSeen, LimitReached
  <1>2. CASE StartTick
    BY <1>2 DEF StartTick
  <1>3. CASE AllScraped \/ Record \/ WakeUp \/ Return \/ \E a \in Addrs : Scrape(a)
    BY <1>3 DEF AllScraped, Record, WakeUp, Return, CloseStopped, Scrape
  <1>4. CASE Stop \/ StopGivesUp \/ StopFinalizes \/ StopAgain \/ RunCancelled
    BY <1>4 DEF Stop, StopGivesUp, StopFinalizes, StopAgain, RunCancelled, loopVars
  <1>5. CASE UNCHANGED vars
    BY <1>5 DEF vars
  <1> QED BY <1>1, <1>2, <1>3, <1>4, <1>5 DEF Next, Loop

\* The loop gives up after a tick that has failed by itself, as the last of a row.
LEMMA EarnedStep ==
  ASSUME Domains, RecordsInOrder, TickSeen, RowIsCounted, FatalIsEarned, [Next]_vars
  PROVE  FatalIsEarned'
  <1> USE BoundsAssumption DEF Domains, FatalIsEarned, LastFailed, Threshold, stateVars
  <1>1. CASE Judge
    <2>0. /\ pc = "record" /\ scrapeTicks >= 1 /\ done = "open"
          /\ UNCHANGED <<spec, scrapeTicks, failing>>
      BY <1>1 DEF Judge, RecordsInOrder, InTick, Ended
    <2>1. CASE done' # "tooManyErrors"
      BY <2>1
    <2>2. CASE done' = "tooManyErrors"
      <3>1. ctx # "over" /\ HadScrapeError /\ consecutive' = consecutive + 1 /\ spec.strict /\ LimitReached
        BY <1>1, <2>0, <2>2 DEF Judge, StopSeen
      <3>2. scrapeTicks \in failing
        BY <2>0, <3>1 DEF HadScrapeError, TickSeen, InTick
      <3>3. /\ consecutive <= scrapeTicks - 1
            /\ \A t \in (scrapeTicks - consecutive)..(scrapeTicks - 1) : t \in failing
        BY <2>0 DEF RowIsCounted, Judged, InTick, Ended
      <3>4. Threshold \in Nat /\ Threshold >= 1 /\ Threshold <= consecutive + 1
        BY <3>1 DEF LimitReached
      <3>5. \A t \in (scrapeTicks - Threshold + 1)..scrapeTicks : t \in failing
        BY <3>2, <3>3, <3>4
      <3> QED BY <2>0, <3>1, <3>3, <3>4, <3>5
    <2> QED BY <2>1, <2>2
  <1>2. CASE StartTick \/ Record
    <2>1. done = "open" /\ done' # "tooManyErrors"
      BY <1>2 DEF StartTick, Record, RecordsInOrder, Ended
    <2> QED BY <2>1
  <1>3. ASSUME NEW a \in Addrs, Scrape(a) PROVE FatalIsEarned'
    <2>1. done = "open" /\ done' = done
      BY <1>3 DEF Scrape, RecordsInOrder, Ended
    <2> QED BY <2>1
  <1>4. CASE AllScraped \/ WakeUp \/ Return
    BY <1>4 DEF AllScraped, WakeUp, Return
  <1>5. CASE Stop \/ StopGivesUp \/ StopFinalizes \/ StopAgain \/ RunCancelled
    BY <1>5 DEF Stop, StopGivesUp, StopFinalizes, StopAgain, RunCancelled, loopVars
  <1>6. CASE UNCHANGED vars
    BY <1>6 DEF vars
  <1> QED BY <1>1, <1>2, <1>3, <1>4, <1>5, <1>6 DEF Next, Loop

LEMMA Invariant == Spec => []Inv
  <1>1. Inv /\ [Next]_vars => Inv'
    BY DomainsStep, RecordsStep, TickSeenStep, RowStep, ThresholdStep, EarnedStep DEF Inv
  <1> QED BY InitInv, <1>1, PTL DEF Spec

-----------------------------------------------------------------------------
\* Every variable stays in its domain, whatever the bounds (collectorState).
THEOREM TypeCorrect == Spec => []TypeOK
  <1>1. Inv => TypeOK
    <2> SUFFICES ASSUME Inv PROVE TypeOK
      OBVIOUS
    <2>1. scrapeTicks \in 0..MaxTicks /\ consecutive \in Nat /\ consecutive <= scrapeTicks
      BY DEF Inv, Domains, ConsecutiveBounded
    <2>2. \A a \in Addrs : /\ records[a] \in 0..MaxTicks
                          /\ success[a] \in 0..MaxTicks /\ errors[a] \in 0..MaxTicks
      BY <2>1, BoundsAssumption DEF Inv, Domains, RecordsInOrder
    <2>3. /\ records \in [Addrs -> 0..MaxTicks]
          /\ success \in [Addrs -> 0..MaxTicks] /\ errors \in [Addrs -> 0..MaxTicks]
      BY <2>2 DEF Inv, Domains
    <2>4. consecutive \in 0..(IF spec.strict THEN Threshold ELSE MaxTicks)
      BY <2>1, BoundsAssumption DEF Inv, Domains, BelowThreshold, Threshold
    <2>5. failing \subseteq 1..MaxTicks
      BY <2>1, BoundsAssumption DEF Inv, Domains
    <2> QED BY <2>1, <2>3, <2>4, <2>5 DEF Inv, Domains, TypeOK
  <1> QED BY Invariant, <1>1, PTL

\* The published summary counts every record of the artifact, and every node of
\* every tick has one (Stop, finalizeOnce).
THEOREM SummaryIsWhole == Spec => []SummaryAgrees
  <1>1. Inv => SummaryAgrees
    BY DEF Inv, Domains, RecordsInOrder, SummaryAgrees, Ended
  <1> QED BY Invariant, <1>1, PTL

\* The collector fails the run for its scrapes only in strict mode, after as many
\* failed ticks in a row as the spec says, whatever a stop cuts short (loop).
THEOREM FailsWhenEarned == Spec => []FatalIsEarned
  <1>1. Inv => FatalIsEarned
    BY DEF Inv
  <1> QED BY Invariant, <1>1, PTL

\* And it does fail then (loop).
THEOREM FailsWhenDue == Spec => []FatalIsDue
  <1>1. Inv => FatalIsDue
    <2> SUFFICES ASSUME Inv, spec.strict, pc = "sleep", LastFailed(Threshold) PROVE FALSE
      BY DEF FatalIsDue
    <2>1. /\ consecutive \in Nat /\ scrapeTicks \in Nat /\ Threshold \in Nat
          /\ consecutive < Threshold /\ Threshold <= scrapeTicks
          /\ \A t \in (scrapeTicks - Threshold + 1)..scrapeTicks : t \in failing
      BY BoundsAssumption DEF Inv, Domains, BelowThreshold, Threshold, LastFailed, Ended
    <2>2. consecutive < scrapeTicks => scrapeTicks - consecutive \notin failing
      BY DEF Inv, RowIsCounted, Judged, InTick, Ended
    <2> QED BY <2>1, <2>2
  <1> QED BY Invariant, <1>1, PTL

\* What a Stop can have given once there is a verdict.
VerdictGiven == finalized # "no" => stop \in {"waiting", "gaveUp", finalized}

LEMMA VerdictStep ==
  ASSUME VerdictGiven, [Next]_vars
  PROVE  /\ VerdictGiven'
         /\ finalized # "no" => UNCHANGED <<finalized, summary, artifact>>
  <1> USE DEF VerdictGiven
  <1>1. CASE Loop
    BY <1>1 DEF Loop, StartTick, Scrape, AllScraped, Record, Judge, WakeUp, Return, stopVars
  <1>2. CASE Stop \/ StopGivesUp \/ StopAgain \/ RunCancelled
    BY <1>2 DEF Stop, StopGivesUp, StopAgain, RunCancelled, stopVars
  <1>3. CASE StopFinalizes
    BY <1>3 DEF StopFinalizes, NotFinalized
  <1>4. CASE UNCHANGED vars
    BY <1>4 DEF vars
  <1> QED BY <1>1, <1>2, <1>3, <1>4 DEF Next

\* A second Stop gives the result of the first and changes nothing (finalizeOnce).
THEOREM SecondStopIsFirst == Spec => StopStands
  <1>1. Init => VerdictGiven
    BY DEF Init, VerdictGiven
  <1>2. VerdictGiven /\ [Next]_vars => VerdictGiven'
    BY VerdictStep
  <1>3. VerdictGiven /\ [Next]_vars =>
          [finalized # "no" =>
             /\ UNCHANGED <<finalized, summary, artifact>>
             /\ stop' \in {"waiting", "gaveUp", finalized}]_vars
    BY VerdictStep DEF VerdictGiven
  <1> QED BY <1>1, <1>2, <1>3, PTL DEF Spec, StopStands

-----------------------------------------------------------------------------
(* The collector as a background task.                                     *)

\* No step but the end of the worker touches Done, and none but the first Stop that
\* sees it gone publishes.
LEMMA TaskStep == ASSUME Inv, [Next]_vars PROVE [Task!Next]_(Task!vars)
  <1> USE DEF Task!vars, Task!Next, DoneSeen, Summary, Published, stateVars, stopVars
  <1>1. /\ Ended <=> done # "open"
        /\ finalized # "no" => pc = "stopped" /\ summary = Summary
        /\ done \in {"open", "closed", "writeFailed", "tooManyErrors"}
    BY DEF Inv, Domains, RecordsInOrder
  <1>2. ASSUME finalized = "no", UNCHANGED <<stop, stopVars>>, pc \in {"tick", "record", "sleep"},
               \/ UNCHANGED done
               \/ done' # "open" /\ UNCHANGED <<stateVars, records>>
        PROVE  [Task!Next]_(Task!vars)
    <2>1. done = "open" /\ Published = <<>> /\ Published' = <<>>
      BY <1>1, <1>2 DEF Ended
    <2>2. CASE UNCHANGED done
      <3>1. Task!Work
        BY <1>2, <2>1, <2>2 DEF Task!Work
      <3> QED BY <3>1
    <2>3. CASE done' # "open" /\ UNCHANGED <<stateVars, records>>
      <3>1. Task!Exit
        BY <1>2, <2>1, <2>3 DEF Task!Exit
      <3> QED BY <3>1
    <2> QED BY <1>2, <2>2, <2>3
  <1>3. CASE StartTick
    BY <1>1, <1>2, <1>3 DEF StartTick, Ended
  <1>4. CASE Record
    BY <1>1, <1>2, <1>4 DEF Record, Ended
  <1>5. CASE Judge
    BY <1>1, <1>2, <1>5 DEF Judge, Ended
  <1>6. CASE WakeUp
    BY <1>1, <1>2, <1>6 DEF WakeUp, Ended
  <1>7. CASE AllScraped \/ Return \/ \E a \in Addrs : Scrape(a)
    BY <1>7 DEF AllScraped, Return, Scrape
  <1>8. CASE Stop
    <2>1. Task!Stop
      BY <1>8 DEF Stop, loopVars, Task!Stop
    <2> QED BY <2>1
  <1>9. CASE StopGivesUp
    <2>1. Task!GiveUp
      BY <1>9 DEF StopGivesUp, loopVars, Task!GiveUp
    <2> QED BY <2>1
  <1>10. CASE StopFinalizes
    <2>1. done # "open" /\ Published = <<>>
      BY <1>1, <1>10 DEF StopFinalizes, LoopEnded, NotFinalized, Ended
    <2>2. Published' = <<[work |-> <<Summary, records>>, answer |-> stop']>>
      BY <1>10 DEF StopFinalizes, loopVars
    <2>3. Task!Publish
      BY <1>10, <2>1, <2>2 DEF StopFinalizes, loopVars, Task!Publish
    <2> QED BY <2>3
  <1>11. CASE StopAgain
    <2>1. Task!Repeat
      BY <1>11 DEF StopAgain, NotFinalized, loopVars, Task!Repeat
    <2> QED BY <2>1
  <1>12. CASE RunCancelled \/ UNCHANGED vars
    BY <1>12 DEF RunCancelled, loopVars, vars
  <1> QED BY <1>3, <1>4, <1>5, <1>6, <1>7, <1>8, <1>9, <1>10, <1>11, <1>12 DEF Next, Loop

\* The metrics collector keeps the promises of contract.BackgroundTask, on which the kernel
\* relies when it closes the outputs (Stop, run).
THEOREM ActsAsTaskHolds == Spec => ActsAsTask
  <1>1. Init => Task!Init
    BY DEF Init, Task!Init, DoneSeen, Published
  <1>2. Inv /\ [Next]_vars => [Task!Next]_(Task!vars)
    BY TaskStep
  <1> QED BY Invariant, <1>1, <1>2, PTL DEF Spec, ActsAsTask, Task!Spec
=============================================================================
