---------------------------- MODULE TrafficProofs ----------------------------
(***************************************************************************)
(* Proofs about the traffic units.  First the loop of traffic.send         *)
(* (SendTraffic): its safety properties for any number of messages, any    *)
(* rate and any bound on the goroutines.  Then a benchmark from its users  *)
(* to its verdict (Workload): its safety properties for all scenarios,     *)
(* any number of users, targets, senders, gateways, addresses and          *)
(* messages.                                                               *)
(***************************************************************************)
EXTENDS SendTraffic, Workload, FiniteSetTheorems, TLAPS

-----------------------------------------------------------------------------
(* traffic.send.                                                           *)

\* The results that have been applied as a success, and as an error.
TakenOK == {m \in Messages : stage[m] = "taken" /\ outcome[m] = "ok"}
TakenErr == {m \in Messages : stage[m] = "taken" /\ outcome[m] = "err"}
Working == At("sending") \cup At("posting") \cup At("queued")
Outcome(o) == {m \in Messages : outcome[m] = o}

Domains ==
  /\ pc \in {"top", "sleep", "select", "collect", "ok", "err"}
  /\ launched \in 0..N /\ completed \in Nat /\ inFlight \in 0..MaxInFlight
  /\ sendackOK \in Nat /\ sendackErrors \in Nat
  /\ stage \in [Messages -> {"none", "sending", "posting", "queued", "taken", "dropped"}]
  /\ outcome \in [Messages -> {"none", "ok", "err", "cancelled"}]
  /\ ctx \in {"live", "cancelled"} /\ now \in 0..MaxNow

\* The messages are launched in order, and have an outcome when their send returns.
InOrder ==
  /\ \A m \in Messages : stage[m] = "none" <=> m >= launched
  /\ \A m \in Messages : outcome[m] = "none" <=> stage[m] \in {"none", "sending"}
  /\ \A m \in Messages : outcome[m] = "cancelled" => ctx = "cancelled"
  /\ pc \in {"sleep", "select"} => MayLaunch

\* Each applied result is counted once, and each message waited for has a slot.
Counted ==
  /\ sendackOK = Cardinality(TakenOK) /\ sendackErrors = Cardinality(TakenErr)
  /\ completed = sendackOK + sendackErrors
  /\ launched = completed + inFlight
  /\ pc = "ok" => completed = N

Inv == Domains /\ InOrder /\ Counted

-----------------------------------------------------------------------------
LEMMA MessagesAreFinite ==
  /\ IsFiniteSet(Messages) /\ Cardinality(Messages) = N
  /\ \A S \in SUBSET Messages : IsFiniteSet(S) /\ Cardinality(S) \in Nat
  <1>1. IsFiniteSet(Messages) /\ Cardinality(Messages) = N
    BY NAssumption, FS_Interval DEF Messages
  <1> QED BY <1>1, FS_Subset, FS_CardinalityType

LEMMA InitInv == Init => Inv
  <1> SUFFICES ASSUME Init PROVE Inv
    OBVIOUS
  <1>1. TakenOK = {} /\ TakenErr = {}
    BY DEF Init, TakenOK, TakenErr
  <1>2. Counted
    BY <1>1, FS_EmptySet, NAssumption DEF Init, Counted
  <1>3. Domains /\ InOrder
    BY NAssumption, MaxInFlightAssumption, ClockAssumption DEF Init, Domains, InOrder, Messages
  <1> QED BY <1>2, <1>3 DEF Inv

\* The next message is launched.
LEMMA LaunchKeeps ==
  ASSUME Inv, MayLaunch, Launch
  PROVE  Inv'
  <1> USE NAssumption, MaxInFlightAssumption DEF Inv
  <1>1. launched \in Messages /\ stage[launched] = "none"
    BY DEF Domains, InOrder, MayLaunch, Messages
  <1>2. Domains' /\ InOrder'
    BY <1>1 DEF Launch, Domains, InOrder, MayLaunch, Room, Messages
  <1>3. TakenOK' = TakenOK /\ TakenErr' = TakenErr
    BY <1>1 DEF Launch, TakenOK, TakenErr, Domains
  <1>4. Counted'
    BY <1>3 DEF Launch, Counted, Domains
  <1> QED BY <1>2, <1>4

\* The results applied are as many as the sum of both counts says.
LEMMA TakenAreCompleted ==
  ASSUME Inv
  PROVE  /\ TakenOK \cup TakenErr \in SUBSET Messages
         /\ Cardinality(TakenOK \cup TakenErr) = completed
  <1>1. TakenOK \in SUBSET Messages /\ TakenErr \in SUBSET Messages /\ TakenOK \cap TakenErr = {}
    BY DEF TakenOK, TakenErr
  <1>2. Cardinality(TakenOK \cup TakenErr) = Cardinality(TakenOK) + Cardinality(TakenErr)
    <2>1. IsFiniteSet(TakenOK) /\ IsFiniteSet(TakenErr)
      BY <1>1, MessagesAreFinite
    <2>2. Cardinality(TakenOK) \in Nat /\ Cardinality(TakenErr) \in Nat
      BY <2>1, FS_CardinalityType
    <2>3. Cardinality(TakenOK \cap TakenErr) = 0
      BY <1>1, FS_EmptySet
    <2>4. Cardinality(TakenOK \cup TakenErr) =
            Cardinality(TakenOK) + Cardinality(TakenErr) - Cardinality(TakenOK \cap TakenErr)
      BY <2>1, FS_Union
    <2> QED BY <2>2, <2>3, <2>4
  <1> QED BY <1>1, <1>2 DEF Inv, Counted

\* A result is applied, or ends the run.
LEMMA TakeKeeps ==
  ASSUME Inv, NEW m \in Messages, TakeResult(m)
  PROVE  Inv'
  <1> USE DEF Inv
  <1>1. /\ stage[m] = "queued" /\ stage' = [stage EXCEPT ![m] = "taken"]
        /\ UNCHANGED <<outcome, ctx, now, launched>>
        /\ m \notin TakenOK /\ m \notin TakenErr
        /\ outcome[m] \in {"ok", "err", "cancelled"}
    BY DEF TakeResult, TakenOK, TakenErr, Domains, InOrder, countVars
  <1>2. /\ TakenOK' = IF outcome[m] = "ok" THEN TakenOK \cup {m} ELSE TakenOK
        /\ TakenErr' = IF outcome[m] = "err" THEN TakenErr \cup {m} ELSE TakenErr
    BY <1>1 DEF TakenOK, TakenErr, Domains
  <1>3. /\ IsFiniteSet(TakenOK) /\ IsFiniteSet(TakenErr)
        /\ Cardinality(TakenOK \cup {m}) = Cardinality(TakenOK) + 1
        /\ Cardinality(TakenErr \cup {m}) = Cardinality(TakenErr) + 1
    <2>1. IsFiniteSet(TakenOK) /\ IsFiniteSet(TakenErr)
      BY MessagesAreFinite DEF TakenOK, TakenErr
    <2> QED BY <1>1, <2>1, FS_AddElement
  <1>4. CASE Terminal(m)
    <2>1. pc' = "err" /\ UNCHANGED countVars
      BY <1>4 DEF TakeResult
    <2>2. outcome[m] = "cancelled"
      BY <1>4 DEF Terminal
    <2> QED BY <1>1, <1>2, <2>1, <2>2 DEF Domains, InOrder, Counted, countVars
  <1>5. CASE ~Terminal(m)
    <2>1. outcome[m] \in {"ok", "err"}
      BY <1>1, <1>5 DEF Terminal, InOrder
    <2>2. /\ pc' = "top" /\ completed' = completed + 1 /\ inFlight' = inFlight - 1
          /\ \/ outcome[m] = "ok" /\ sendackOK' = sendackOK + 1 /\ UNCHANGED sendackErrors
             \/ outcome[m] = "err" /\ sendackErrors' = sendackErrors + 1 /\ UNCHANGED sendackOK
      BY <1>5, <2>1 DEF TakeResult, Apply, SlotFreed
    <2>3. inFlight >= 1
      <3>1. Cardinality(TakenOK \cup TakenErr \cup {m}) = completed + 1
        <4>1. /\ IsFiniteSet(TakenOK \cup TakenErr) /\ m \notin TakenOK \cup TakenErr
              /\ Cardinality(TakenOK \cup TakenErr) = completed
          BY <1>1, TakenAreCompleted, MessagesAreFinite
        <4> QED BY <4>1, FS_AddElement
      <3>2. TakenOK \cup TakenErr \cup {m} \subseteq 0..(launched - 1)
        BY <1>1 DEF TakenOK, TakenErr, InOrder, Domains, Messages
      <3>3. Cardinality(TakenOK \cup TakenErr \cup {m}) <= launched
        <4>1. /\ IsFiniteSet(0..(launched - 1))
              /\ Cardinality(0..(launched - 1)) = launched
          BY NAssumption, FS_Interval DEF Domains
        <4> QED BY <3>2, <4>1, FS_Subset
      <3> QED BY <3>1, <3>3 DEF Counted, Domains
    <2>4. Domains' /\ InOrder'
      BY <1>1, <2>2, <2>3, MaxInFlightAssumption DEF Domains, InOrder
    <2>5. Counted'
      BY <1>1, <1>2, <1>3, <2>2, <2>3 DEF Counted, Domains
    <2> QED BY <2>4, <2>5
  <1> QED BY <1>4, <1>5

\* The goroutines count nothing.
LEMMA GoroutineKeeps ==
  ASSUME Inv, NEW m \in Messages, SendReturns(m) \/ Post(m)
  PROVE  Inv'
  <1> USE DEF Inv
  <1>1. /\ stage[m] \in {"sending", "posting"} /\ UNCHANGED <<loopVars, ctx, now>>
        /\ stage'[m] \in {"posting", "queued", "dropped"}
        /\ \A k \in Messages \ {m} : stage'[k] = stage[k] /\ outcome'[k] = outcome[k]
        /\ Domains'
    BY DEF SendReturns, Post, Domains, loopVars
  <1>2. InOrder'
    BY <1>1 DEF SendReturns, Post, Domains, InOrder, MayLaunch, Room, loopVars
  <1>3. TakenOK' = TakenOK /\ TakenErr' = TakenErr
    BY <1>1 DEF TakenOK, TakenErr
  <1>4. Counted'
    BY <1>1, <1>3 DEF Counted, loopVars
  <1> QED BY <1>1, <1>2, <1>4

LEMMA NextInv == ASSUME Inv, [Next]_vars PROVE Inv'
  <1>1. CASE LaunchDue \/ TimerFires
    BY <1>1, LaunchKeeps DEF LaunchDue, TimerFires, Inv, InOrder
  <1>2. ASSUME NEW m \in Messages, TakeResult(m) PROVE Inv'
    BY <1>2, TakeKeeps
  <1>3. ASSUME NEW m \in Messages, SendReturns(m) \/ Post(m) PROVE Inv'
    BY <1>3, GoroutineKeeps
  <1>4. CASE Finish \/ Wait \/ WakeUp \/ SeeCancel \/ Cancel \/ Tick \/ UNCHANGED vars
    <2> USE DEF Inv
    <2>1. UNCHANGED <<countVars, stage, outcome>> /\ (ctx' = ctx \/ ctx' = "cancelled")
      BY <1>4 DEF Finish, Wait, WakeUp, SeeCancel, ReturnError, Cancel, Tick, loopVars, countVars, vars
    <2>2. TakenOK' = TakenOK /\ TakenErr' = TakenErr
      BY <2>1 DEF TakenOK, TakenErr
    <2>3. Domains' /\ InOrder'
      BY <1>4, <2>1, ClockAssumption DEF Finish, Wait, WakeUp, SeeCancel, ReturnError, Cancel, Tick,
         Domains, InOrder, MayLaunch, Room, loopVars, countVars, vars
    <2>4. Counted'
      BY <1>4, <2>1, <2>2 DEF Finish, Wait, WakeUp, SeeCancel, ReturnError, Cancel, Tick, AllIn,
         Counted, loopVars, countVars, vars
    <2> QED BY <2>3, <2>4
  <1> QED BY <1>1, <1>2, <1>3, <1>4 DEF Next, Loop, Over

LEMMA Invariant == Spec => []Inv
  BY InitInv, NextInv, PTL DEF Spec

-----------------------------------------------------------------------------
\* Every variable of Run stays in its domain, for any N and MaxInFlight.
THEOREM TypeCorrect == Spec => []TypeOK
  <1>1. Inv => TypeOK
    BY NAssumption DEF Inv, Domains, Counted, TypeOK
  <1> QED BY Invariant, <1>1, PTL

\* No cancelled message is counted as a failure of the server (terminalContextError).
THEOREM NobodyIsBlamed == Spec => []NoBlame
  <1>1. Inv => NoBlame
    <2> SUFFICES ASSUME Inv PROVE NoBlame
      OBVIOUS
    <2>1. TakenErr \subseteq Outcome("err") /\ Outcome("err") \subseteq Messages
      BY DEF TakenErr, Outcome
    <2>2. Cardinality(TakenErr) <= Cardinality(Outcome("err"))
      BY <2>1, MessagesAreFinite, FS_Subset
    <2> QED BY <2>2 DEF Inv, Counted, NoBlame, Outcome
  <1> QED BY Invariant, <1>1, PTL

\* The summary of a run that succeeds has each message once (applyResult).
THEOREM EveryMessageCounts == Spec => []Accounted
  <1>1. Inv => Accounted
    <2> SUFFICES ASSUME Inv, pc = "ok"
                 PROVE  /\ sendackOK = Cardinality(Outcome("ok"))
                        /\ sendackErrors = Cardinality(Outcome("err"))
                        /\ sendackOK + sendackErrors = N
      BY DEF Accounted, Outcome
    <2>1. Cardinality(TakenOK \cup TakenErr) = N
      BY TakenAreCompleted DEF Inv, Counted
    <2>2. TakenOK \cup TakenErr = Messages
      BY <2>1, TakenAreCompleted, MessagesAreFinite, FS_Subset
    <2>3. TakenOK = Outcome("ok") /\ TakenErr = Outcome("err")
      BY <2>2 DEF TakenOK, TakenErr, Outcome
    <2> QED BY <2>3 DEF Inv, Counted
  <1> QED BY Invariant, <1>1, PTL

\* At most MaxInFlight goroutines work or wait to post (results, inFlight).
THEOREM SlotsAreEnough == Spec => []InFlightBounded
  <1>1. Inv => InFlightBounded
    <2> SUFFICES ASSUME Inv PROVE Cardinality(Working) <= MaxInFlight
      BY DEF InFlightBounded, Working
    <2> DEFINE Taken == TakenOK \cup TakenErr
    <2>1. Working \in SUBSET Messages /\ Taken \in SUBSET Messages /\ Working \cap Taken = {}
      BY DEF Working, At, TakenOK, TakenErr
    <2>2. /\ IsFiniteSet(Working) /\ IsFiniteSet(Taken)
          /\ Cardinality(Working) \in Nat /\ Cardinality(Taken) \in Nat
      BY <2>1, MessagesAreFinite
    <2>3. Cardinality(Working \cup Taken) = Cardinality(Working) + Cardinality(Taken)
      BY <2>1, <2>2, FS_Union, FS_EmptySet
    <2>4. Working \cup Taken \subseteq 0..(launched - 1)
      BY NAssumption DEF Inv, Working, At, TakenOK, TakenErr, InOrder, Domains, Messages
    <2>5. IsFiniteSet(0..(launched - 1)) /\ Cardinality(0..(launched - 1)) = launched
      BY NAssumption, FS_Interval DEF Inv, Domains
    <2>6. Cardinality(Working \cup Taken) <= launched
      BY <2>4, <2>5, FS_Subset
    <2>7. Cardinality(Taken) = completed
      BY TakenAreCompleted
    <2> QED BY <2>2, <2>3, <2>6, <2>7, MaxInFlightAssumption, NAssumption DEF Inv, Counted, Domains
  <1> QED BY Invariant, <1>1, PTL

\* No message is launched before it is due, whatever comes early (scheduledStart).
THEOREM NeverEarly == Spec => Paced
  <1>1. Inv /\ [Next]_vars =>
          [\A m \in Messages : stage[m] = "none" /\ stage'[m] = "sending" => now >= m * Gap]_vars
    <2> SUFFICES ASSUME Inv, [Next]_vars, NEW m \in Messages, stage[m] = "none", stage'[m] = "sending"
                 PROVE  now >= m * Gap
      OBVIOUS
    <2>1. LaunchDue \/ TimerFires
      BY DEF Inv, Domains, Next, Loop, Finish, Wait, WakeUp, TakeResult, SeeCancel, SendReturns,
         Post, Cancel, Tick, Over, loopVars, vars
    <2>2. m = launched
      BY <2>1 DEF LaunchDue, TimerFires, Launch, Inv, Domains
    <2> QED BY <2>1, <2>2 DEF LaunchDue, TimerFires, DueNow, Due
  <1> QED BY Invariant, <1>1, PTL DEF Spec, Paced

-----------------------------------------------------------------------------
(* A benchmark from its users to its verdict: the inductive invariant.     *)

\* The units that have begun, and those a unit comes after.
Begun == ran \cup ({at.unit} \ {"none"})
Before(u) == Needs(u) \cap Units

\* What the unit that makes the channels puts out.
WantedTargets ==
  CASE spec.channels = "prepared" -> Groups(spec.overlap = "disallowed")
    [] spec.channels = "static" -> Groups(TRUE)
    [] spec.channels = "pairs" -> Pairs

\* How many of the first k numbers come to place j when they go over n places in turn.
Share(k, n, j) == (k \div n) + (IF j < k % n THEN 1 ELSE 0)

\* The messages to a target, those of them a user sent, and the users on a gateway.
SentTo(t) == {i \in DOMAIN log : log[i].target = t}
SentBy(t, u) == {i \in DOMAIN log : log[i].target = t /\ log[i].sender = u}
On(g) == {u \in DOMAIN clients : clients[u] = g}
Acked == {i \in DOMAIN log : log[i].acked}

WorkloadDomains ==
  /\ spec \in Specs /\ ran \subseteq Units
  /\ at \in [unit : Units \cup {"none"}, step : Nat, addr : Nat]
  /\ at.unit = "none" => at = Idle
  /\ at.unit # "none" => at.step > 0 /\ at.unit \notin ran /\ failed = "none"
  /\ server = [tokens |-> server.tokens, channels |-> server.channels, members |-> server.members]
  /\ server.tokens \subseteq Users

\* A unit runs once, after what it needs, and only on a spec it accepts.
TurnInv == \A u \in Begun : u \in Units /\ CanRun(u) /\ Before(u) \subseteq ran

\* What the cluster has answered is there, and stays.
Asked(u, n) == u \in ran \/ (at.unit = u /\ at.step > n)
ServerInv ==
  /\ Asked("prepare_tokens", 1) => server.tokens = Users
  /\ Asked("prepare_group_channels", 1) => {<<"group", c>> : c \in 1..spec.count} \subseteq server.channels
  /\ Asked("prepare_group_channels", 2) =>
       \A c \in 1..spec.count :
         server.members[<<"group", c>>] =
           {Member(spec.overlap = "disallowed", c, m) : m \in 1..spec.members}

TargetsInv == targets = IF Channels \in ran THEN WantedTargets ELSE <<>>

\* The users that are connected: the first ones, over the gateways in turn.
Online == IF at.unit = "session_pool" THEN at.step - 1
          ELSE IF "session_pool" \in ran THEN spec.total ELSE 0
ClientsInv ==
  /\ Online \in Nat /\ (at.unit = "session_pool" => Online <= spec.total)
  /\ DOMAIN clients = 0..Online - 1
  /\ \A u \in DOMAIN clients : clients[u] = Gateway(u)
  /\ \A g \in 0..spec.gateways - 1 : Cardinality(On(g)) = Share(Online, spec.gateways, g)

\* The log has the messages in order, each as sendOne makes it.
LogInv ==
  /\ log \in Seq([target : Nat, sender : Int, acked : BOOLEAN, reached : BOOLEAN])
  /\ log # <<>> => "traffic" \in ran \/ at.unit = "traffic" \/ failed = "traffic"
  /\ log # <<>> => Before("traffic") \subseteq ran /\ CanRun("traffic")
  /\ at.unit = "traffic" => Len(log) = at.step - 1 /\ Len(log) <= TotalMessages
  /\ "traffic" \in ran => Len(log) = TotalMessages
  /\ \A i \in DOMAIN log :
       /\ log[i].target = TargetOf(i - 1) /\ log[i].sender = SenderOf(i - 1)
       /\ log[i].reached = Reaches(log[i].sender)

\* Each message has gone to the next target and, in turn, to its next sender.
SharesInv ==
  \A t \in DOMAIN targets :
    /\ Cardinality(SentTo(t)) = Share(Len(log), Len(targets), t - 1)
    /\ spec.traffic = "send" /\ spec.pick = "round_robin" =>
         \A j \in DOMAIN targets[t].senders :
           Cardinality(SentBy(t, targets[t].senders[j])) =
             Share(Share(Len(log), Len(targets), t - 1), Len(targets[t].senders), j - 1)

\* The summary counts the log.
SummaryInv ==
  /\ summary \in [ok : Nat, errors : Nat]
  /\ summary.ok = Cardinality(Acked) /\ summary.ok + summary.errors = Len(log)

\* The verdict is about all messages, and ends the run when it is not passed.
RulesHold ==
  \A i \in DOMAIN spec.rules :
    Compare(MetricValue(spec.rules[i].metric), spec.rules[i].op, spec.rules[i].value)
VerdictInv ==
  /\ verdict \in {"none", "passed", "failed"}
  /\ verdict # "none" =>
       /\ "traffic" \in ran /\ ("assert" \in ran \/ failed = "assert")
       /\ \A i \in DOMAIN spec.rules : spec.rules[i].metric \in Metrics
       /\ verdict = "passed" <=> RulesHold
  /\ "assert" \in ran => verdict = "passed"

WorkloadInv ==
  /\ WorkloadDomains /\ TurnInv /\ ServerInv /\ TargetsInv /\ ClientsInv
  /\ LogInv /\ SharesInv /\ SummaryInv /\ VerdictInv

-----------------------------------------------------------------------------
(* Taking turns: division and remainder.                                   *)

LEMMA DivMod ==
  ASSUME NEW k \in Nat, NEW n \in Nat \ {0}
  PROVE  k \div n \in Nat /\ k % n \in 0..n - 1
  OBVIOUS

LEMMA DivModUnique ==
  ASSUME NEW n \in Nat \ {0}, NEW q \in Nat, NEW r \in 0..n - 1
  PROVE  (n * q + r) \div n = q /\ (n * q + r) % n = r
  OBVIOUS

\* The next number comes to the next place, and after the last to the first.
LEMMA NextPlace ==
  ASSUME NEW k \in Nat, NEW n \in Nat \ {0}
  PROVE  IF k % n = n - 1 THEN (k + 1) % n = 0 /\ (k + 1) \div n = k \div n + 1
                          ELSE (k + 1) % n = (k % n) + 1 /\ (k + 1) \div n = k \div n
  OBVIOUS

LEMMA NeighboursDiffer ==
  ASSUME NEW k \in Nat, NEW n \in Nat \ {0}, n > 1
  PROVE  k % n # (k + 1) % n
  <1>1. CASE k % n = n - 1
    <2>1. (k + 1) % n = 0
      BY <1>1, NextPlace
    <2> QED BY <1>1, <2>1
  <1>2. CASE k % n # n - 1
    <2>1. (k + 1) % n = (k % n) + 1
      BY <1>2, NextPlace
    <2>2. k % n \in Int
      BY DivMod
    <2> QED BY <2>1, <2>2
  <1> QED BY <1>1, <1>2

LEMMA ShareIsNat ==
  ASSUME NEW k \in Nat, NEW n \in Nat \ {0}, NEW j \in 0..n - 1
  PROVE  Share(k, n, j) \in Nat /\ Share(0, n, j) = 0
  <1>1. 0 % n = 0 /\ 0 \div n = 0
    BY DivModUnique
  <1> QED BY <1>1, DivMod DEF Share

\* The share that grows is that of the place whose turn it is, and it is that of full rounds.
LEMMA ShareGrows ==
  ASSUME NEW k \in Nat, NEW n \in Nat \ {0}, NEW j \in 0..n - 1
  PROVE  /\ Share(k + 1, n, j) = Share(k, n, j) + (IF j = k % n THEN 1 ELSE 0)
         /\ j = k % n => Share(k, n, j) = k \div n
  <1>1. k \div n \in Nat /\ k % n \in 0..n - 1
    BY DivMod
  <1>2. CASE k % n = n - 1
    <2>1. (k + 1) % n = 0 /\ (k + 1) \div n = k \div n + 1
      BY <1>2, NextPlace
    <2> QED BY <1>1, <1>2, <2>1 DEF Share
  <1>3. CASE k % n # n - 1
    <2>1. (k + 1) % n = (k % n) + 1 /\ (k + 1) \div n = k \div n
      BY <1>3, NextPlace
    <2> QED BY <1>1, <1>3, <2>1 DEF Share
  <1> QED BY <1>2, <1>3

LEMMA SharesAreNear ==
  ASSUME NEW k \in Nat, NEW n \in Nat \ {0}, NEW i \in 0..n - 1, NEW j \in 0..n - 1
  PROVE  Near(Share(k, n, i), Share(k, n, j))
  BY DivMod DEF Share, Near

-----------------------------------------------------------------------------
(* Specs and what the units compute from them.                             *)

LEMMA SpecTypes ==
  ASSUME spec \in Specs
  PROVE  /\ spec.addrs \in Nat /\ spec.gateways \in Nat
         /\ spec.total \in Int /\ spec.count \in Int /\ spec.members \in Int
         /\ spec.channels \in {"prepared", "static", "pairs"} /\ spec.sender \in {"pool", "fake"}
         /\ spec.skipReadiness \in BOOLEAN /\ spec.skipCapabilities \in BOOLEAN
         /\ spec.bidirectional \in BOOLEAN
         /\ spec.rules \in Seq(RuleSpecs)
         /\ TotalMessages \in Nat \ {0}
  <1>1. spec \in ScenarioSpecs
    BY SpecsAssumption
  <1>2. spec.rate * spec.duration \in Int
    BY <1>1 DEF ScenarioSpecs
  <1>3. TotalMessages \in Nat \ {0}
    BY <1>2 DEF TotalMessages
  <1> QED BY <1>1, <1>3 DEF ScenarioSpecs

LEMMA UnitFacts ==
  ASSUME spec \in Specs
  PROVE  /\ Channels \in {"prepare_group_channels", "static_groups", "person_pairs"}
         /\ Sender \in {"session_pool", "fake_sender"}
         /\ {Channels, Sender, "traffic", "assert"} \subseteq Units
         /\ Units \subseteq {Channels, Sender, "traffic", "assert", "pool", "target", "prepare_tokens"}
         /\ (Channels # "static_groups" \/ Sender # "fake_sender")
              => {"pool", "target", "prepare_tokens"} \subseteq Units
         /\ "none" \notin Units
         /\ Before("traffic") = {Channels, Sender} /\ Before("assert") = {"traffic"}
         /\ Channels = "prepare_group_channels" <=> spec.channels = "prepared"
         /\ Channels = "static_groups" <=> spec.channels = "static"
         /\ Channels = "person_pairs" <=> spec.channels = "pairs"
         /\ Sender = "session_pool" <=> spec.sender = "pool"
  <1>1. /\ Channels \in {"prepare_group_channels", "static_groups", "person_pairs"}
        /\ Sender \in {"session_pool", "fake_sender"}
        /\ Channels = "prepare_group_channels" <=> spec.channels = "prepared"
        /\ Channels = "static_groups" <=> spec.channels = "static"
        /\ Channels = "person_pairs" <=> spec.channels = "pairs"
        /\ Sender = "session_pool" <=> spec.sender = "pool"
    BY SpecTypes DEF Channels, Sender
  <1>2. /\ {Channels, Sender, "traffic", "assert"} \subseteq Units
        /\ Units \subseteq {Channels, Sender, "traffic", "assert", "pool", "target", "prepare_tokens"}
        /\ (Channels # "static_groups" \/ Sender # "fake_sender")
              => {"pool", "target", "prepare_tokens"} \subseteq Units
    BY DEF Units
  <1>3. "none" \notin Units
    BY <1>1, <1>2
  <1>4. Needs("traffic") = {Channels, Sender} /\ Needs("assert") = {"traffic"}
    BY DEF Needs
  <1>5. Before("traffic") = {Channels, Sender} /\ Before("assert") = {"traffic"}
    BY <1>2, <1>4 DEF Before
  <1> QED BY <1>1, <1>2, <1>3, <1>5

\* What the unit that connects the users comes after.
LEMMA PoolNeeds ==
  ASSUME spec \in Specs, Sender = "session_pool"
  PROVE  {"pool", "target", "prepare_tokens", Channels} \subseteq Before("session_pool")
  BY UnitFacts DEF Before, Needs

LEMMA ChannelsNeedPool ==
  ASSUME spec \in Specs, Channels = "person_pairs"
  PROVE  "pool" \in Before("person_pairs")
  BY UnitFacts DEF Before, Needs

\* Targets are numbered from 1, each with users numbered from 1, all different.
TargetsAreSound(T) ==
  /\ DOMAIN T = 1..Len(T) /\ Len(T) \in Nat \ {0}
  /\ \A t \in DOMAIN T :
       LET s == T[t].senders
       IN /\ DOMAIN s = 1..Len(s) /\ Len(s) \in Nat \ {0}
          /\ \A j \in DOMAIN s : s[j] \in Int
          /\ \A i \in DOMAIN s : \A j \in DOMAIN s : s[i] = s[j] => i = j

LEMMA GroupsAreSound ==
  ASSUME spec \in Specs, spec.count > 0, spec.members > 0, NEW d \in BOOLEAN
  PROVE  TargetsAreSound(Groups(d))
  <1> DEFINE G == Groups(d)
             s(c) == [m \in 1..spec.members |-> Member(d, c, m)]
  <1>1. spec.count \in Nat \ {0} /\ spec.members \in Nat \ {0}
    BY SpecTypes
  <1>2. DOMAIN G = 1..spec.count /\ Len(G) = spec.count /\ \A c \in 1..spec.count : G[c].senders = s(c)
    BY <1>1 DEF Groups
  <1>3. ASSUME NEW c \in 1..spec.count
        PROVE  /\ DOMAIN s(c) = 1..spec.members /\ Len(s(c)) = spec.members
               /\ \A m \in 1..spec.members : s(c)[m] = Member(d, c, m)
    BY <1>1
  <1>4. ASSUME NEW c \in 1..spec.count
        PROVE  \E b \in Int : \A m \in 1..spec.members : Member(d, c, m) = b + m
    <2>1. (c - 1) * spec.members \in Int
      BY <1>1
    <2>2. CASE d
      <3>1. \A m \in 1..spec.members : Member(d, c, m) = ((c - 1) * spec.members - 1) + m
        BY <2>1, <2>2, <1>1 DEF Member
      <3> QED BY <3>1, <2>1
    <2>3. CASE ~d
      BY <2>3, <1>1 DEF Member
    <2> QED BY <2>2, <2>3
  <1> HIDE DEF G, s
  <1>5. ASSUME NEW c \in 1..spec.count
        PROVE  /\ \A j \in 1..spec.members : s(c)[j] \in Int
               /\ \A i \in 1..spec.members : \A j \in 1..spec.members : s(c)[i] = s(c)[j] => i = j
    <2>1. PICK b \in Int : \A m \in 1..spec.members : Member(d, c, m) = b + m
      BY <1>4
    <2> QED BY <2>1, <1>3, <1>1
  <1>6. ASSUME NEW t \in DOMAIN G
        PROVE  LET u == G[t].senders
               IN /\ DOMAIN u = 1..Len(u) /\ Len(u) \in Nat \ {0}
                  /\ \A j \in DOMAIN u : u[j] \in Int
                  /\ \A i \in DOMAIN u : \A j \in DOMAIN u : u[i] = u[j] => i = j
    <2>1. t \in 1..spec.count /\ G[t].senders = s(t)
      BY <1>2
    <2>2. DOMAIN s(t) = 1..spec.members /\ Len(s(t)) = spec.members
      BY <2>1, <1>3
    <2> QED BY <2>1, <2>2, <1>1, <1>5
  <1>7. TargetsAreSound(G)
    BY <1>1, <1>2, <1>6 DEF TargetsAreSound
  <1> QED BY <1>7 DEF G

LEMMA PairsAreSound ==
  ASSUME spec \in Specs, PairsAccept
  PROVE  /\ TargetsAreSound(Pairs)
         /\ \A t \in DOMAIN Pairs : \E i \in Users : \E j \in Users \ {i} :
              Pairs[t] = PersonTarget(i, j) /\ Len(Pairs[t].senders) = 1
  <1> DEFINE From(i) == i % spec.total
             To(i) == (i + 1) % spec.total
             n == IF spec.bidirectional THEN 2 * spec.count ELSE spec.count
  <1>1. spec.count \in Nat \ {0} /\ spec.total \in Nat \ {0} /\ spec.total >= 2
    BY SpecTypes DEF PairsAccept, Enough
  <1>2. ASSUME NEW i \in Nat
        PROVE  From(i) \in Users /\ To(i) \in Users /\ From(i) # To(i)
    <2>1. From(i) \in 0..spec.total - 1 /\ To(i) \in 0..spec.total - 1
      BY <1>1, DivMod, i + 1 \in Nat
    <2>2. From(i) # To(i)
      BY <1>1, NeighboursDiffer
    <2> QED BY <2>1, <2>2 DEF Users
  <1>3. /\ DOMAIN Pairs = 1..n /\ Len(Pairs) = n /\ n \in Nat \ {0}
        /\ \A t \in 1..n : \E i \in Nat : \/ Pairs[t] = PersonTarget(From(i), To(i))
                                          \/ Pairs[t] = PersonTarget(To(i), From(i))
    <2>1. CASE spec.bidirectional
      <3>1. Pairs = [k \in 1..2 * spec.count |->
                       IF k % 2 = 1 THEN PersonTarget(From((k - 1) \div 2), To((k - 1) \div 2))
                                    ELSE PersonTarget(To((k - 1) \div 2), From((k - 1) \div 2))]
        BY <2>1 DEF Pairs
      <3>2. \A k \in 1..2 * spec.count : (k - 1) \div 2 \in Nat
        BY <1>1
      <3>3. 2 * spec.count \in Nat \ {0}
        BY <1>1
      <3> HIDE DEF From, To
      <3>4. DOMAIN Pairs = 1..2 * spec.count /\ Len(Pairs) = 2 * spec.count
        BY <3>1, <3>3
      <3>5. \A k \in 1..2 * spec.count : \E i \in Nat :
              Pairs[k] = PersonTarget(From(i), To(i)) \/ Pairs[k] = PersonTarget(To(i), From(i))
        BY <3>1, <3>2
      <3> QED BY <2>1, <3>3, <3>4, <3>5
    <2>2. CASE ~spec.bidirectional
      <3>1. Pairs = [k \in 1..spec.count |-> PersonTarget(From(k - 1), To(k - 1))]
        BY <2>2 DEF Pairs
      <3> HIDE DEF From, To
      <3>2. \A k \in 1..spec.count : k - 1 \in Nat
        BY <1>1
      <3> QED BY <1>1, <2>2, <3>1, <3>2
    <2> QED BY <2>1, <2>2
  <1>4. \A t \in 1..n : \E i \in Users : \E j \in Users \ {i} : Pairs[t] = PersonTarget(i, j)
    BY <1>2, <1>3
  <1>5. ASSUME NEW i, NEW j
        PROVE  PersonTarget(i, j).senders = <<i>> /\ Len(<<i>>) = 1 /\ DOMAIN <<i>> = 1..1 /\ <<i>>[1] = i
    BY DEF PersonTarget
  <1>6. Users \subseteq Int
    BY <1>1 DEF Users
  <1> HIDE DEF n
  <1>7. ASSUME NEW t \in 1..n
        PROVE  LET s == Pairs[t].senders
               IN DOMAIN s = 1..1 /\ Len(s) = 1 /\ s[1] \in Int
    <2>1. PICK i \in Users : \E j \in Users \ {i} : Pairs[t] = PersonTarget(i, j)
      BY <1>4
    <2> QED BY <2>1, <1>5, <1>6
  <1>8. TargetsAreSound(Pairs)
    BY <1>3, <1>7 DEF TargetsAreSound
  <1> QED BY <1>3, <1>4, <1>7, <1>8

-----------------------------------------------------------------------------
(* What a step does.                                                       *)

\* The request a unit is at.
LEMMA PathFacts ==
  ASSUME spec \in Specs, WorkloadDomains, Asks
  PROVE  \/ at.unit = "target" /\ Applied(Path) = server
         \/ at.unit = "prepare_tokens" /\ at.step = 1 /\ Path = "tokens"
         \/ at.unit = "prepare_group_channels" /\ at.step = 1 /\ Path = "channels"
         \/ at.unit = "prepare_group_channels" /\ at.step = 2 /\ Path = "subscribers"
  <1>1. at.step \in Nat /\ at.step > 0 /\ at.step <= Len(Requests(at.unit))
    BY DEF Asks, WorkloadDomains
  <1>2. CASE at.unit = "target"
    <2>1. Path = Probes[at.step] /\ at.step <= Len(Probes)
      BY <1>1, <1>2 DEF Path, Requests
    <2>2. \A i \in 1..Len(Probes) : Probes[i] \in {"healthz", "readyz", "capabilities"}
      <3>1. CASE spec.skipReadiness
        BY <3>1 DEF Probes
      <3>2. CASE ~spec.skipReadiness
        BY <3>2 DEF Probes
      <3> QED BY <3>1, <3>2
    <2>3. Path \in {"healthz", "readyz", "capabilities"}
      BY <2>1, <2>2, <1>1
    <2> QED BY <1>2, <2>3 DEF Applied
  <1>3. CASE at.unit = "prepare_tokens"
    <2>1. Requests(at.unit) = <<"tokens">>
      BY <1>3 DEF Requests
    <2>2. at.step = 1
      BY <1>1, <2>1
    <2> QED BY <1>3, <2>1, <2>2 DEF Path
  <1>4. CASE at.unit = "prepare_group_channels"
    <2>1. Requests(at.unit) = <<"channels", "subscribers">>
      BY <1>4 DEF Requests
    <2>2. at.step = 1 \/ at.step = 2
      BY <1>1, <2>1
    <2> QED BY <1>4, <2>1, <2>2 DEF Path
  <1>5. CASE at.unit \notin {"target", "prepare_tokens", "prepare_group_channels"}
    <2>1. Requests(at.unit) = <<>>
      BY <1>5 DEF Requests
    <2> QED BY <1>1, <2>1
  <1> QED BY <1>2, <1>3, <1>4, <1>5

\* A unit begins, goes on, ends or fails, or it is not about a unit at all.
Begins(u) ==
  /\ at = Idle /\ at' = [unit |-> u, step |-> 1, addr |-> 1] /\ u \in Units \ ran
  /\ failed = "none" /\ UNCHANGED <<ran, failed>> /\ Before(u) \subseteq ran /\ CanRun(u)
GoesOn ==
  /\ at.unit # "none" /\ at'.unit = at.unit /\ at'.step \in {at.step, at.step + 1} /\ at'.addr \in Nat
  /\ at' = [unit |-> at'.unit, step |-> at'.step, addr |-> at'.addr] /\ UNCHANGED <<ran, failed>>
Ends == at.unit # "none" /\ ran' = ran \cup {at.unit} /\ at' = Idle /\ UNCHANGED failed
Fails ==
  /\ failed' \in Units /\ failed = "none" /\ at' = Idle /\ UNCHANGED ran
  /\ failed' = at.unit \/ (at = Idle /\ failed' \notin ran)
Waits == UNCHANGED <<ran, at, failed>>
Moves == (\E u \in Units : Begins(u)) \/ GoesOn \/ Ends \/ Fails \/ Waits

LEMMA StepMoves ==
  ASSUME WorkloadDomains, [WorkloadNext]_workloadVars
  PROVE  spec' = spec /\ Units' = Units /\ Moves
  <1> SUFFICES spec' = spec /\ Moves
    BY DEF Units, Channels, Sender
  <1> USE DEF WorkloadDomains
  <1>1. ASSUME NEW u \in Units, Begin(u)
        PROVE  spec' = spec /\ Moves
    <2>1. Before(u) \subseteq ran
      BY <1>1 DEF Begin, Before
    <2>2. CASE CanRun(u)
      BY <1>1, <2>1, <2>2 DEF Begin, Begins, Moves
    <2>3. CASE ~CanRun(u)
      BY <1>1, <2>3 DEF Begin, Fails, Moves, Idle
    <2> QED BY <2>2, <2>3, <1>1 DEF Begin
  <1>2. CASE Answered
    <2>1. at.unit # "none" /\ UNCHANGED <<spec, ran>>
      BY <1>2 DEF Answered, Asks
    <2>2. \/ at' = [at EXCEPT !.step = @ + 1, !.addr = 1] /\ UNCHANGED failed
          \/ failed' = at.unit /\ at' = Idle
      BY <1>2 DEF Answered
    <2>3. CASE at' = [at EXCEPT !.step = @ + 1, !.addr = 1] /\ UNCHANGED failed
      <3>1. GoesOn
        BY <2>1, <2>3 DEF GoesOn
      <3> QED BY <2>1, <3>1 DEF Moves
    <2>4. CASE failed' = at.unit /\ at' = Idle
      <3>1. Fails
        BY <2>1, <2>4 DEF Fails
      <3> QED BY <2>1, <3>1 DEF Moves
    <2> QED BY <2>2, <2>3, <2>4
  <1>3. CASE Unanswered
    BY <1>3 DEF Unanswered, Asks, GiveUp, GoesOn, Fails, Moves
  <1>4. CASE Output
    BY <1>4 DEF Output, Done, Ends, Moves
  <1>5. CASE Connect
    BY <1>5 DEF Connect, GoesOn, Moves
  <1>6. CASE ConnectFails
    BY <1>6 DEF ConnectFails, Fails, Moves
  <1>7. CASE Connected
    BY <1>7 DEF Connected, Done, Ends, Moves
  <1>8. CASE Send
    BY <1>8 DEF Send, GoesOn, Moves
  <1>9. CASE StopsSending
    BY <1>9 DEF StopsSending, Fails, Moves
  <1>10. CASE Sent
    BY <1>10 DEF Sent, Done, Ends, Moves
  <1>11. CASE Judge
    BY <1>11 DEF Judge, Done, GiveUp, Ends, Fails, Moves
  <1>12. CASE CancelRun
    BY <1>12 DEF CancelRun, Waits, Moves
  <1>13. CASE UNCHANGED workloadVars
    BY <1>13 DEF workloadVars, Waits, Moves
  <1> QED BY <1>1, <1>2, <1>3, <1>4, <1>5, <1>6, <1>7, <1>8, <1>9, <1>10, <1>11, <1>12, <1>13
       DEF WorkloadNext

\* The cluster forgets nothing, and what one request leaves is what the next one needs.
LEMMA ServerMoves ==
  ASSUME WorkloadDomains, [WorkloadNext]_workloadVars
  PROVE  \/ UNCHANGED server
         \/ Asks /\ server' = Applied(Path)
  <1>1. ASSUME NEW u \in Units, Begin(u) PROVE UNCHANGED server
    BY <1>1 DEF Begin
  <1> QED BY <1>1 DEF WorkloadNext, workloadVars, Answered, Unanswered, Output, Connect, ConnectFails,
       Connected, Send, StopsSending, Sent, Judge, CancelRun

LEMMA DomainsStep ==
  ASSUME WorkloadDomains, [WorkloadNext]_workloadVars
  PROVE  WorkloadDomains'
  <1>1. spec' = spec /\ Units' = Units /\ Moves /\ Users' = Users /\ spec \in Specs
    BY StepMoves DEF Users, WorkloadDomains
  <1>2. "none" \notin Units
    BY <1>1, UnitFacts
  <1>3. /\ ran' \subseteq Units
        /\ at' \in [unit : Units \cup {"none"}, step : Nat, addr : Nat]
        /\ at'.unit = "none" => at' = Idle
        /\ at'.unit # "none" => at'.step > 0 /\ at'.unit \notin ran' /\ failed' = "none"
    <2> USE DEF WorkloadDomains
    <2>1. ASSUME NEW u \in Units, Begins(u) PROVE <1>3!:
      BY <2>1, <1>2 DEF Begins, Idle
    <2>2. CASE GoesOn
      BY <2>2, <1>2 DEF GoesOn
    <2>3. CASE Ends
      BY <2>3, <1>2 DEF Ends, Idle
    <2>4. CASE Fails
      BY <2>4, <1>2 DEF Fails, Idle
    <2>5. CASE Waits
      BY <2>5 DEF Waits
    <2> QED BY <1>1, <2>1, <2>2, <2>3, <2>4, <2>5 DEF Moves
  <1>4. /\ server' = [tokens |-> server'.tokens, channels |-> server'.channels,
                      members |-> server'.members]
        /\ server'.tokens \subseteq Users
    <2>1. CASE UNCHANGED server
      BY <2>1 DEF WorkloadDomains
    <2>2. CASE Asks /\ server' = Applied(Path)
      BY <2>2 DEF Applied, WorkloadDomains
    <2> QED BY <2>1, <2>2, ServerMoves
  <1> QED BY <1>1, <1>3, <1>4 DEF WorkloadDomains

LEMMA TurnStep ==
  ASSUME WorkloadDomains, TurnInv, [WorkloadNext]_workloadVars
  PROVE  TurnInv'
  <1>1. spec' = spec /\ Units' = Units /\ Moves
    BY StepMoves
  <1>2. \A u : CanRun(u)' = CanRun(u) /\ Before(u)' = Before(u)
    BY <1>1 DEF CanRun, Before, Needs, Units, Channels, Sender, PoolAccepts, TargetAccepts, GroupsAccept,
       StaticAccepts, PairsAccept, TrafficAccepts, AssertAccepts, Enough, Required
  <1>3. ran \subseteq ran'
    BY <1>1 DEF Moves, Begins, GoesOn, Ends, Fails, Waits
  <1>4. \A u \in Begun' : u \in Begun \/ Begins(u)
    <2>1. ASSUME NEW u \in Units, Begins(u) PROVE Begun' \subseteq Begun \cup {u}
      BY <2>1 DEF Begins, Begun
    <2>2. CASE GoesOn \/ Ends \/ Fails \/ Waits
      BY <2>2 DEF GoesOn, Ends, Fails, Waits, Begun, Idle
    <2> QED BY <1>1, <2>1, <2>2 DEF Moves
  <1>5. \A u : Begins(u) => u \in Units /\ CanRun(u) /\ Before(u) \subseteq ran
    BY DEF Begins
  <1> QED BY <1>1, <1>2, <1>3, <1>4, <1>5 DEF TurnInv

-----------------------------------------------------------------------------
(* What is prepared.                                                       *)

\* A unit has asked more only by an answer, and has ended only when it has asked all.
LEMMA AskedStep ==
  ASSUME WorkloadDomains, [WorkloadNext]_workloadVars,
         NEW u \in {"prepare_tokens", "prepare_group_channels"}, NEW n \in 1..Len(Requests(u)),
         Asked(u, n)'
  PROVE  \/ Asked(u, n)
         \/ at.unit = u /\ at.step = n /\ Asks /\ server' = Applied(Path)
  <1> USE DEF WorkloadDomains
  <1>1. Len(Requests(u)) \in {1, 2}
    BY DEF Requests
  <1>2. CASE Answered \/ Unanswered
    <2>1. /\ Asks /\ ran' = ran /\ server' \in {server, Applied(Path)}
          /\ \/ at' = Idle
             \/ at' = [at EXCEPT !.addr = @ + 1]
             \/ at' = [at EXCEPT !.step = @ + 1, !.addr = 1] /\ server' = Applied(Path)
      BY <1>2 DEF Answered, Unanswered, GiveUp
    <2>2. at.unit # "none"
      BY <2>1 DEF Asks
    <2>3. CASE at' = Idle \/ at' = [at EXCEPT !.addr = @ + 1]
      BY <2>1, <2>3 DEF Asked, Idle
    <2>4. CASE at' = [at EXCEPT !.step = @ + 1, !.addr = 1] /\ server' = Applied(Path)
      BY <2>1, <2>4 DEF Asked
    <2> QED BY <2>1, <2>3, <2>4
  <1>3. CASE Output
    BY <1>1, <1>3 DEF Output, Done, Asks, Asked, Idle
  <1>4. ASSUME NEW w \in Units, Begin(w) PROVE Asked(u, n)
    BY <1>1, <1>4 DEF Begin, Asked, Idle
  <1>5. CASE Connect \/ ConnectFails \/ Connected
    BY <1>5 DEF Connect, ConnectFails, Connected, Done, Asked, Idle
  <1>6. CASE Send \/ StopsSending \/ Sent
    BY <1>6 DEF Send, StopsSending, Sent, Done, Asked, Idle
  <1>7. CASE Judge
    BY <1>7 DEF Judge, Done, GiveUp, Asked, Idle
  <1>8. CASE CancelRun \/ UNCHANGED workloadVars
    BY <1>8 DEF CancelRun, workloadVars, Asked
  <1> QED BY <1>2, <1>3, <1>4, <1>5, <1>6, <1>7, <1>8 DEF WorkloadNext

LEMMA ServerStep ==
  ASSUME WorkloadDomains, ServerInv, [WorkloadNext]_workloadVars
  PROVE  ServerInv'
  <1>1. spec' = spec /\ spec \in Specs /\ Users' = Users
    BY StepMoves DEF WorkloadDomains, Users
  <1>2. Requests("prepare_tokens") = <<"tokens">>
        /\ Requests("prepare_group_channels") = <<"channels", "subscribers">>
    BY DEF Requests
  <1> DEFINE groups == {<<"group", c>> : c \in 1..spec.count}
             disjoint == spec.overlap = "disallowed"
             of(c) == {Member(disjoint, c, m) : m \in 1..spec.members}
  <1>3. /\ server.tokens \subseteq Users
        /\ server.tokens \subseteq server'.tokens /\ server'.tokens \subseteq Users
        /\ server.channels \subseteq server'.channels
        /\ \A c \in 1..spec.count :
             \/ server'.members[<<"group", c>>] = server.members[<<"group", c>>]
             \/ server'.members[<<"group", c>>] = of(c)
        /\ (Asks /\ server' = Applied(Path)) =>
             /\ Path = "tokens" => server'.tokens = Users
             /\ Path = "channels" => groups \subseteq server'.channels
             /\ Path = "subscribers" =>
                  \A c \in 1..spec.count : server'.members[<<"group", c>>] = of(c)
    <2>1. CASE UNCHANGED server /\ ~(Asks /\ server' = Applied(Path))
      BY <2>1 DEF WorkloadDomains
    <2>2. CASE Asks /\ server' = Applied(Path)
      <3>1. CASE Path = "tokens"
        BY <2>2, <3>1 DEF Applied, WorkloadDomains
      <3>2. CASE Path = "channels"
        BY <2>2, <3>2 DEF Applied, WorkloadDomains
      <3>3. CASE Path = "subscribers"
        <4> DEFINE new == [g \in groups |-> of(g[2])]
        <4>1. server' = [server EXCEPT !.members = Overlay(new, @)]
          BY <2>2, <3>3 DEF Applied
        <4>2. server'.members = Overlay(new, server.members)
              /\ server'.tokens = server.tokens /\ server'.channels = server.channels
          BY <4>1 DEF WorkloadDomains
        <4>3. ASSUME NEW c \in 1..spec.count PROVE server'.members[<<"group", c>>] = of(c)
          <5>1. <<"group", c>> \in DOMAIN new /\ new[<<"group", c>>] = of(c)
            OBVIOUS
          <5> HIDE DEF new, of
          <5>2. Overlay(new, server.members)[<<"group", c>>] = new[<<"group", c>>]
            BY <5>1 DEF Overlay
          <5> QED BY <4>2, <5>1, <5>2
        <4> QED BY <3>3, <4>2, <4>3 DEF WorkloadDomains
      <3>4. CASE Path \notin {"tokens", "channels", "subscribers"}
        BY <2>2, <3>4 DEF Applied, WorkloadDomains
      <3> QED BY <3>1, <3>2, <3>3, <3>4
    <2> QED BY <2>1, <2>2, ServerMoves
  <1>4. /\ groups' = groups
        /\ \A c : of(c)' = of(c)
    BY <1>1 DEF Member
  <1> HIDE DEF groups, of, disjoint
  <1>5. Asked("prepare_tokens", 1)' => server'.tokens = Users
    <2> SUFFICES ASSUME Asked("prepare_tokens", 1)' PROVE server'.tokens = Users
      OBVIOUS
    <2>1. \/ Asked("prepare_tokens", 1)
          \/ at.unit = "prepare_tokens" /\ at.step = 1 /\ Asks /\ server' = Applied(Path)
      BY <1>2, AskedStep
    <2>2. Asked("prepare_tokens", 1) => server.tokens = Users
      BY DEF ServerInv
    <2>3. CASE Asked("prepare_tokens", 1)
      BY <2>2, <2>3, <1>3
    <2>4. CASE at.unit = "prepare_tokens" /\ at.step = 1 /\ Asks /\ server' = Applied(Path)
      <3>1. Path = "tokens"
        BY <2>4, <1>2 DEF Path
      <3> QED BY <2>4, <3>1, <1>3
    <2> QED BY <2>1, <2>3, <2>4
  <1>6. Asked("prepare_group_channels", 1)' => groups \subseteq server'.channels
    <2> SUFFICES ASSUME Asked("prepare_group_channels", 1)' PROVE groups \subseteq server'.channels
      OBVIOUS
    <2>1. \/ Asked("prepare_group_channels", 1)
          \/ at.unit = "prepare_group_channels" /\ at.step = 1 /\ Asks /\ server' = Applied(Path)
      BY <1>2, AskedStep
    <2>2. Asked("prepare_group_channels", 1) => groups \subseteq server.channels
      BY DEF ServerInv, groups
    <2> QED BY <2>1, <2>2, <1>1, <1>2, <1>3 DEF Path
  <1>7. Asked("prepare_group_channels", 2)' =>
          \A c \in 1..spec.count : server'.members[<<"group", c>>] = of(c)
    <2> SUFFICES ASSUME Asked("prepare_group_channels", 2)', NEW c \in 1..spec.count
                 PROVE  server'.members[<<"group", c>>] = of(c)
      OBVIOUS
    <2>1. \/ Asked("prepare_group_channels", 2)
          \/ at.unit = "prepare_group_channels" /\ at.step = 2 /\ Asks /\ server' = Applied(Path)
      BY <1>2, AskedStep
    <2>2. Asked("prepare_group_channels", 2) => server.members[<<"group", c>>] = of(c)
      BY DEF ServerInv, of, disjoint
    <2> QED BY <2>1, <2>2, <1>1, <1>2, <1>3 DEF Path
  <1>8. QED
    BY <1>1, <1>4, <1>5, <1>6, <1>7 DEF ServerInv, groups, of, disjoint, Member

\* The targets are put out once, by the unit that makes them.
LEMMA TargetsStep ==
  ASSUME WorkloadDomains, TargetsInv, [WorkloadNext]_workloadVars
  PROVE  TargetsInv'
  <1>1. /\ spec' = spec /\ spec \in Specs /\ Channels' = Channels
        /\ WantedTargets' = WantedTargets
    BY StepMoves DEF WorkloadDomains, Channels, WantedTargets, Groups, Pairs, PersonTarget, Member
  <1>2. Channels \in {"prepare_group_channels", "static_groups", "person_pairs"}
    BY <1>1, UnitFacts
  <1> USE DEF WorkloadDomains
  <1>3. CASE Output
    <2>1. CASE at.unit = Channels
      <3>1. targets' = WantedTargets
        <4>1. spec.channels = "prepared" <=> Channels = "prepare_group_channels"
          BY <1>1, UnitFacts
        <4>2. spec.channels = "static" <=> Channels = "static_groups"
          BY <1>1, UnitFacts
        <4>3. spec.channels \in {"prepared", "static", "pairs"}
          BY <1>1, SpecTypes
        <4> QED BY <1>2, <1>3, <2>1, <4>1, <4>2, <4>3 DEF Output, WantedTargets
      <3> QED BY <1>1, <1>3, <2>1, <3>1 DEF Output, Done, TargetsInv
    <2>2. CASE at.unit # Channels
      <3>1. at.unit \in {"pool", "target", "prepare_tokens", "fake_sender"}
        BY <1>1, <1>2, <1>3, <2>2, UnitFacts DEF Output
      <3>2. UNCHANGED targets
        BY <1>3, <3>1 DEF Output
      <3> QED BY <1>1, <1>3, <2>2, <3>2 DEF Output, Done, TargetsInv
    <2> QED BY <2>1, <2>2
  <1>4. CASE UNCHANGED targets /\ (ran' = ran \/ (at.unit \in {"session_pool", "traffic", "assert"}
                                                   /\ ran' = ran \cup {at.unit}))
    BY <1>1, <1>2, <1>4 DEF TargetsInv
  <1>5. ASSUME NEW u \in Units, Begin(u) PROVE UNCHANGED <<targets, ran>>
    BY <1>5 DEF Begin
  <1> QED BY <1>3, <1>4, <1>5 DEF WorkloadNext, workloadVars, Answered, Unanswered, Connect, ConnectFails,
       Connected, Send, StopsSending, Sent, Judge, CancelRun, Done

\* What the unit that makes the channels accepts gives it sound targets.
LEMMA WantedAreSound ==
  ASSUME spec \in Specs, CanRun(Channels)
  PROVE  TargetsAreSound(WantedTargets)
  <1>1. CASE spec.channels = "prepared"
    <2>1. spec.count > 0 /\ spec.members > 0
      BY <1>1 DEF Channels, CanRun, GroupsAccept
    <2> QED BY <1>1, <2>1, GroupsAreSound DEF WantedTargets
  <1>2. CASE spec.channels = "static"
    <2>1. spec.count > 0 /\ spec.members > 0
      BY <1>2 DEF Channels, CanRun, StaticAccepts
    <2> QED BY <1>2, <2>1, GroupsAreSound DEF WantedTargets
  <1>3. CASE spec.channels = "pairs"
    <2>1. PairsAccept
      BY <1>3 DEF Channels, CanRun
    <2> QED BY <1>3, <2>1, PairsAreSound DEF WantedTargets
  <1> QED BY <1>1, <1>2, <1>3, SpecTypes

LEMMA TargetsSound ==
  ASSUME spec \in Specs, TurnInv, TargetsInv
  PROVE  /\ targets # <<>> => Channels \in ran
         /\ Channels \in ran => TargetsAreSound(targets) /\ targets = WantedTargets
  BY WantedAreSound DEF TurnInv, Begun, TargetsInv

-----------------------------------------------------------------------------
(* The clients.                                                            *)

LEMMA ClientsStep ==
  ASSUME WorkloadDomains, TurnInv, ClientsInv, [WorkloadNext]_workloadVars
  PROVE  ClientsInv'
  <1>1. spec' = spec /\ spec \in Specs /\ Sender' = Sender /\ spec.total \in Int /\ spec.gateways \in Nat
    BY StepMoves, SpecTypes DEF WorkloadDomains, Sender
  <1>2. \A i : Gateway(i)' = Gateway(i)
    BY <1>1 DEF Gateway
  <1>3. CASE at.unit = "session_pool"
    <2>1. spec.total \in Nat \ {0} /\ spec.gateways \in Nat \ {0}
      <3>1. "session_pool" \in Begun /\ Sender = "session_pool"
        BY <1>1, <1>3, UnitFacts DEF TurnInv, Begun
      <3>2. {"pool", "target"} \subseteq ran
        BY <1>1, <3>1, PoolNeeds DEF TurnInv
      <3>3. CanRun("pool") /\ CanRun("target")
        BY <3>2 DEF TurnInv, Begun
      <3> QED BY <1>1, <3>3 DEF CanRun, PoolAccepts, TargetAccepts
    <2>2. at.step \in Nat \ {0} /\ at.unit \notin ran
      BY <1>3 DEF WorkloadDomains
    <2>3. Online = at.step - 1
      BY <1>3 DEF Online
    <2> DEFINE k == at.step - 1
               G == spec.gateways
    <2>4. /\ k \in Nat /\ k <= spec.total /\ DOMAIN clients = 0..k - 1
          /\ \A u \in DOMAIN clients : clients[u] = Gateway(u)
          /\ \A g \in 0..G - 1 : Cardinality(On(g)) = Share(k, G, g)
      <3>1. k \in Nat /\ Online = k
        BY <2>2, <2>3
      <3> QED BY <1>3, <3>1 DEF ClientsInv
    <2>5. CASE Connect
      <3>1. clients' = Overlay(clients, [u \in {k} |-> Gateway(u)]) /\ at' = [at EXCEPT !.step = @ + 1]
            /\ at.step <= spec.total
        BY <2>5 DEF Connect
      <3>2. Online' = k + 1 /\ at'.unit = "session_pool" /\ k + 1 <= spec.total
        BY <1>3, <2>2, <3>1 DEF Online, WorkloadDomains
      <3>3. DOMAIN clients' = 0..k /\ k \notin DOMAIN clients
            /\ \A u \in DOMAIN clients' : clients'[u] = Gateway(u)
        BY <2>4, <3>1 DEF Overlay
      <3>4. ASSUME NEW g \in 0..G - 1
            PROVE  Cardinality(On(g)') = Share(k + 1, G, g)
        <4>1. IsFiniteSet(On(g)) /\ Cardinality(On(g)) \in Nat
          <5>1. On(g) \subseteq 0..k - 1
            BY <2>4 DEF On
          <5>2. IsFiniteSet(0..k - 1)
            BY <2>4, k - 1 \in Int, FS_Interval
          <5> QED BY <5>1, <5>2, FS_Subset, FS_CardinalityType
        <4>2. k \notin On(g)
          BY <3>3 DEF On
        <4>3. On(g)' = IF g = k % G THEN On(g) \cup {k} ELSE On(g)
          <5>1. \A u \in 0..k : u \in On(g)' <=> Gateway(u) = g
            BY <3>3 DEF On
          <5>2. \A u \in 0..k - 1 : u \in On(g) <=> Gateway(u) = g
            BY <2>4 DEF On
          <5>3. On(g)' \subseteq 0..k /\ On(g) \subseteq 0..k - 1 /\ Gateway(k) = k % G
            BY <3>3, <2>4 DEF On, Gateway
          <5>4. 0..k = (0..k - 1) \cup {k}
            BY <2>4
          <5> QED BY <5>1, <5>2, <5>3, <5>4
        <4>4. Cardinality(On(g)') = Cardinality(On(g)) + (IF g = k % G THEN 1 ELSE 0)
          BY <4>1, <4>2, <4>3, FS_AddElement, SMTT(30)
        <4>5. Share(k + 1, G, g) = Share(k, G, g) + (IF g = k % G THEN 1 ELSE 0)
          BY <2>1, <2>4, ShareGrows
        <4> QED BY <4>4, <4>5, <2>4
      <3> QED BY <1>1, <1>2, <2>4, <3>2, <3>3, <3>4 DEF ClientsInv
    <2>6. CASE ConnectFails
      <3>1. clients' = <<>> /\ at' = Idle /\ ran' = ran
        BY <2>6 DEF ConnectFails
      <3>2. Online' = 0
        BY <3>1, <1>3, <2>2 DEF Online, Idle
      <3>3. DOMAIN clients' = {} /\ 0..0 - 1 = {}
        BY <3>1
      <3>4. \A g : On(g)' = {}
        BY <3>3 DEF On
      <3>5. \A g \in 0..G - 1 : Cardinality(On(g)') = Share(0, G, g)
        <4>1. \A g \in 0..G - 1 : Share(0, G, g) = 0
          BY <2>1, ShareIsNat
        <4> QED BY <3>4, <4>1, FS_EmptySet
      <3> QED BY <1>1, <3>1, <3>2, <3>3, <3>5 DEF ClientsInv, Idle
    <2>7. CASE Connected
      <3>1. clients' = clients /\ at' = Idle /\ ran' = ran \cup {"session_pool"} /\ at.step > spec.total
        BY <2>7, <1>3 DEF Connected, Done
      <3>2. Online' = spec.total /\ k = spec.total
        BY <3>1, <1>1, <2>2, <2>4 DEF Online, Idle
      <3>3. \A g : On(g)' = On(g)
        BY <3>1 DEF On
      <3> QED BY <1>1, <1>2, <2>1, <2>4, <3>1, <3>2, <3>3 DEF ClientsInv, Idle
    <2>8. CASE CancelRun \/ UNCHANGED workloadVars
      <3>1. UNCHANGED <<clients, at, ran>>
        BY <2>8 DEF CancelRun, workloadVars
      <3>2. Online' = Online /\ \A g : On(g)' = On(g)
        BY <1>1, <3>1 DEF Online, On
      <3> QED BY <1>1, <1>2, <3>1, <3>2 DEF ClientsInv
    <2>9. ASSUME NEW u \in Units, Begin(u) PROVE FALSE
      BY <2>9, <1>3 DEF Begin, Idle
    <2>10. ~Asks
      <3>1. Requests(at.unit) = <<>>
        BY <1>3 DEF Requests
      <3> QED BY <3>1, <2>2 DEF Asks
    <2> QED BY <2>5, <2>6, <2>7, <2>8, <2>9, <2>10, <1>3
         DEF WorkloadNext, Answered, Unanswered, Output, Send, StopsSending, Sent, Judge
  <1>4. CASE at.unit # "session_pool"
    <2>1. UNCHANGED clients
      <3>1. ASSUME NEW u \in Units, Begin(u) PROVE UNCHANGED clients
        BY <3>1 DEF Begin
      <3> QED BY <1>4, <3>1 DEF WorkloadNext, workloadVars, Answered, Unanswered, Output, Connect,
           ConnectFails, Connected, Send, StopsSending, Sent, Judge, CancelRun
    <2>2. "session_pool" \in ran' <=> "session_pool" \in ran
      BY <1>4, StepMoves DEF Moves, Begins, GoesOn, Ends, Fails, Waits
    <2>3. Online' = Online
      <3>1. CASE at'.unit = "session_pool"
        <4>1. Begins("session_pool")
          BY <1>4, <3>1, StepMoves DEF Moves, Begins, GoesOn, Ends, Fails, Waits, Idle
        <4> QED BY <1>4, <4>1 DEF Begins, Online
      <3>2. CASE at'.unit # "session_pool"
        BY <1>1, <1>4, <2>2, <3>2 DEF Online
      <3> QED BY <3>1, <3>2
    <2>4. at'.unit = "session_pool" => Online' <= spec.total
      <3> SUFFICES ASSUME at'.unit = "session_pool" PROVE Online' <= spec.total
        OBVIOUS
      <3>1. Begins("session_pool")
        BY <1>4, StepMoves DEF Moves, Begins, GoesOn, Ends, Fails, Waits, Idle
      <3>2. Sender = "session_pool"
        BY <1>1, <3>1, UnitFacts DEF Begins
      <3>3. "pool" \in ran
        BY <1>1, <3>1, <3>2, PoolNeeds DEF Begins
      <3>4. spec.total > 0
        BY <3>3 DEF TurnInv, Begun, CanRun, PoolAccepts
      <3> QED BY <1>1, <3>1, <3>4 DEF Begins, Online
    <2>5. \A g : On(g)' = On(g)
      BY <2>1 DEF On
    <2> QED BY <1>1, <1>2, <2>1, <2>3, <2>4, <2>5 DEF ClientsInv
  <1> QED BY <1>3, <1>4

-----------------------------------------------------------------------------
(* The messages.                                                           *)

\* Which target and which of its senders message k has.
LEMMA TurnsAreSound ==
  ASSUME TargetsAreSound(targets), NEW k \in Nat
  PROVE  LET n == Len(targets)
             t == TargetOf(k)
             s == targets[t].senders
         IN /\ t \in DOMAIN targets /\ t \in Nat /\ t = (k % n) + 1
            /\ Turn(k) \in Nat
            /\ \E j \in DOMAIN s : SenderOf(k) = s[j] /\ s[j] \in Int
            /\ spec.pick = "round_robin" => /\ (Turn(k) % Len(s)) + 1 \in DOMAIN s
                                            /\ SenderOf(k) = s[(Turn(k) % Len(s)) + 1]
  <1> DEFINE n == Len(targets)
             t == TargetOf(k)
             s == targets[t].senders
  <1>1. n \in Nat \ {0} /\ DOMAIN targets = 1..n
    BY DEF TargetsAreSound
  <1>2. k % n \in 0..n - 1 /\ k \div n \in Nat
    BY <1>1, DivMod
  <1>3. t = (k % n) + 1 /\ t \in DOMAIN targets /\ t \in Nat
    BY <1>1, <1>2 DEF TargetOf
  <1>4. Turn(k) \in Nat
    BY <1>2 DEF Turn
  <1> HIDE DEF n, t
  <1>5. DOMAIN s = 1..Len(s) /\ Len(s) \in Nat \ {0} /\ \A j \in DOMAIN s : s[j] \in Int
    BY <1>3 DEF TargetsAreSound
  <1>6. SenderOf(k) = IF spec.pick = "round_robin" THEN s[(Turn(k) % Len(s)) + 1] ELSE s[1]
    BY DEF SenderOf, t
  <1> HIDE DEF s
  <1>7. (Turn(k) % Len(s)) + 1 \in DOMAIN s /\ 1 \in DOMAIN s
    <2>1. Turn(k) % Len(s) \in 0..Len(s) - 1
      BY <1>4, <1>5, DivMod
    <2> QED BY <2>1, <1>5
  <1>8. \E j \in DOMAIN s : SenderOf(k) = s[j] /\ s[j] \in Int
    BY <1>5, <1>6, <1>7
  <1> QED BY <1>3, <1>4, <1>6, <1>7, <1>8 DEF n, t, s

\* While messages are sent, targets and clients stay what they are.
LEMMA LogStays ==
  ASSUME WorkloadDomains, TurnInv, TargetsInv, LogInv, [WorkloadNext]_workloadVars, TargetsInv',
         log # <<>> \/ at.unit = "traffic"
  PROVE  /\ {Channels, Sender} \subseteq ran /\ CanRun("traffic")
         /\ TargetsAreSound(targets) /\ UNCHANGED <<targets, spec>>
         /\ \A s : Reaches(s)' = Reaches(s)
         /\ \A k : TargetOf(k)' = TargetOf(k) /\ SenderOf(k)' = SenderOf(k)
  <1>1. spec' = spec /\ spec \in Specs /\ Channels' = Channels /\ WantedTargets' = WantedTargets
    BY StepMoves DEF WorkloadDomains, Channels, WantedTargets, Groups, Pairs, PersonTarget, Member
  <1>2. {Channels, Sender} \subseteq ran /\ CanRun("traffic")
    <2>1. Before("traffic") \subseteq ran /\ CanRun("traffic")
      BY DEF LogInv, TurnInv, Begun
    <2> QED BY <1>1, <2>1, UnitFacts
  <1>3. ran \subseteq ran'
    BY StepMoves DEF Moves, Begins, GoesOn, Ends, Fails, Waits
  <1>4. targets' = targets
    BY <1>1, <1>2, <1>3 DEF TargetsInv
  <1>5. \A s : Reaches(s)' = Reaches(s)
    <2>1. CASE Sender = "session_pool"
      <3>1. at.unit # "session_pool"
        BY <1>2, <2>1 DEF WorkloadDomains
      <3>2. ASSUME NEW u \in Units, Begin(u) PROVE UNCHANGED clients
        BY <3>2 DEF Begin
      <3>3. UNCHANGED clients
        BY <3>1, <3>2 DEF WorkloadNext, workloadVars, Answered, Unanswered, Output, Connect,
           ConnectFails, Connected, Send, StopsSending, Sent, Judge, CancelRun
      <3> QED BY <1>1, <3>3 DEF Reaches
    <2>2. CASE Sender # "session_pool"
      <3>1. spec.sender = "fake"
        BY <1>1, <2>2, UnitFacts, SpecTypes
      <3> QED BY <1>1, <3>1 DEF Reaches
    <2> QED BY <2>1, <2>2
  <1>6. \A k : TargetOf(k)' = TargetOf(k) /\ SenderOf(k)' = SenderOf(k)
    BY <1>1, <1>4 DEF TargetOf, SenderOf, Turn
  <1>7. TargetsAreSound(targets)
    BY <1>1, <1>2, TargetsSound
  <1> QED BY <1>1, <1>2, <1>4, <1>5, <1>6, <1>7

\* Only the traffic unit writes the log and the summary.
LEMMA TrafficMoves ==
  ASSUME WorkloadDomains, [WorkloadNext]_workloadVars
  PROVE  /\ at.unit # "traffic" => UNCHANGED <<log, summary>>
         /\ at.unit = "traffic" => \/ Send \/ StopsSending \/ Sent
                                   \/ UNCHANGED <<ran, at, failed, log, summary>>
  <1>1. ASSUME NEW u \in Units, Begin(u) PROVE at.unit # "traffic" /\ UNCHANGED <<log, summary>>
    BY <1>1 DEF Begin, Idle
  <1>2. ASSUME at.unit = "traffic" PROVE ~Asks
    <2>1. Requests(at.unit) = <<>> /\ at.step \in Nat /\ at.step > 0
      BY <1>2 DEF Requests, WorkloadDomains
    <2> QED BY <2>1 DEF Asks
  <1> QED BY <1>1, <1>2 DEF WorkloadNext, workloadVars, Answered, Unanswered, Output, Connect,
       ConnectFails, Connected, Send, StopsSending, Sent, Judge, CancelRun

\* What Send appends to the log.
LEMMA SendAppends ==
  ASSUME WorkloadDomains, TurnInv, TargetsInv, LogInv, TargetsInv', Send
  PROVE  \E acked \in BOOLEAN :
           LET k == Len(log)
               message == [target |-> TargetOf(k), sender |-> SenderOf(k), acked |-> acked,
                           reached |-> Reaches(SenderOf(k))]
           IN /\ k \in Nat /\ k < TotalMessages /\ at.step = k + 1
              /\ log' = Append(log, message) /\ DOMAIN log' = DOMAIN log \cup {k + 1}
              /\ Len(log') = k + 1 /\ k + 1 \notin DOMAIN log
              /\ \A i \in DOMAIN log : log'[i] = log[i]
              /\ log'[k + 1] = message
              /\ message \in [target : Nat, sender : Int, acked : BOOLEAN, reached : BOOLEAN]
              /\ summary' = Count(summary, acked, Reaches(SenderOf(k)))
              /\ at' = [at EXCEPT !.step = @ + 1] /\ UNCHANGED <<spec, ran, failed>>
  <1> DEFINE k == Len(log)
             message(acked) == [target |-> TargetOf(k), sender |-> SenderOf(k), acked |-> acked,
                                reached |-> Reaches(SenderOf(k))]
  <1>1. [WorkloadNext]_workloadVars /\ at.unit = "traffic"
    BY DEF WorkloadNext, Send
  <1>2. k \in Nat /\ at.step = k + 1 /\ k < TotalMessages
    <2>1. k \in Nat /\ k = at.step - 1 /\ at.step \in Nat
      BY <1>1 DEF LogInv, WorkloadDomains
    <2>2. TotalMessages \in Nat /\ at.step <= TotalMessages
      BY SpecTypes DEF Send, WorkloadDomains
    <2> QED BY <2>1, <2>2
  <1>3. TargetsAreSound(targets)
    BY <1>1, LogStays
  <1>4. TargetOf(k) \in Nat /\ SenderOf(k) \in Int
    BY <1>2, <1>3, TurnsAreSound
  <1>5. PICK acked \in BOOLEAN : log' = Append(log, message(acked))
                                 /\ summary' = Count(summary, acked, Reaches(SenderOf(k)))
    <2>1. at.step - 1 = k
      BY <1>2
    <2> QED BY <2>1 DEF Send
  <1>6. message(acked) \in [target : Nat, sender : Int, acked : BOOLEAN, reached : BOOLEAN]
    BY <1>4 DEF Reaches
  <1>7. log \in Seq([target : Nat, sender : Int, acked : BOOLEAN, reached : BOOLEAN])
    BY DEF LogInv
  <1>8. at' = [at EXCEPT !.step = @ + 1] /\ UNCHANGED <<spec, ran, failed>>
    BY DEF Send
  <1> HIDE DEF message
  <1>9. /\ DOMAIN log' = DOMAIN log \cup {k + 1} /\ Len(log') = k + 1 /\ k + 1 \notin DOMAIN log
        /\ \A i \in DOMAIN log : log'[i] = log[i]
        /\ log'[k + 1] = message(acked)
    BY <1>5, <1>6, <1>7
  <1> QED BY <1>2, <1>5, <1>6, <1>8, <1>9 DEF message

LEMMA LogStep ==
  ASSUME WorkloadDomains, TurnInv, TargetsInv, LogInv, [WorkloadNext]_workloadVars, TargetsInv'
  PROVE  LogInv'
  <1>1. spec' = spec /\ spec \in Specs /\ Units' = Units /\ Moves
    BY StepMoves DEF WorkloadDomains
  <1>2. Before("traffic")' = Before("traffic") /\ CanRun("traffic")' = CanRun("traffic")
        /\ TotalMessages' = TotalMessages /\ TotalMessages \in Nat \ {0}
    BY <1>1, SpecTypes DEF Before, Needs, Units, Channels, Sender, CanRun, TrafficAccepts, TotalMessages
  <1>3. ran \subseteq ran'
    BY <1>1 DEF Moves, Begins, GoesOn, Ends, Fails, Waits
  <1>4. Before("traffic") = {Channels, Sender}
    BY <1>1, UnitFacts
  <1>5. CASE Send
    <2>1. PICK acked \in BOOLEAN :
            LET k == Len(log)
                message == [target |-> TargetOf(k), sender |-> SenderOf(k), acked |-> acked,
                            reached |-> Reaches(SenderOf(k))]
            IN /\ k \in Nat /\ k < TotalMessages /\ at.step = k + 1
               /\ log' = Append(log, message) /\ DOMAIN log' = DOMAIN log \cup {k + 1}
               /\ Len(log') = k + 1
               /\ \A i \in DOMAIN log : log'[i] = log[i]
               /\ log'[k + 1] = message
               /\ message \in [target : Nat, sender : Int, acked : BOOLEAN, reached : BOOLEAN]
               /\ at' = [at EXCEPT !.step = @ + 1] /\ UNCHANGED <<spec, ran, failed>>
      BY <1>5, SendAppends
    <2>2. at.unit = "traffic"
      BY <1>5 DEF Send
    <2>3. log' \in Seq([target : Nat, sender : Int, acked : BOOLEAN, reached : BOOLEAN])
      BY <2>1 DEF LogInv
    <2>4. at'.unit = "traffic" /\ at'.step = Len(log') + 1 /\ Len(log') <= TotalMessages
      BY <2>1, <2>2, <1>2 DEF WorkloadDomains
    <2>5. /\ \A s : Reaches(s)' = Reaches(s)
          /\ \A k : TargetOf(k)' = TargetOf(k) /\ SenderOf(k)' = SenderOf(k)
          /\ Before("traffic") \subseteq ran /\ CanRun("traffic")
      BY <2>2, <1>4, LogStays
    <2>6. "traffic" \notin ran'
      BY <2>1, <2>2 DEF WorkloadDomains
    <2>7. ASSUME NEW i \in DOMAIN log'
          PROVE  /\ log'[i].target = TargetOf(i - 1) /\ log'[i].sender = SenderOf(i - 1)
                 /\ log'[i].reached = Reaches(log'[i].sender)
      <3>1. CASE i \in DOMAIN log
        BY <2>1, <3>1 DEF LogInv
      <3>2. CASE i = Len(log) + 1
        <4>1. i - 1 = Len(log)
          BY <2>1, <3>2
        <4> QED BY <2>1, <3>2, <4>1
      <3> QED BY <2>1, <3>1, <3>2
    <2> QED BY <1>2, <1>3, <2>3, <2>4, <2>5, <2>6, <2>7 DEF LogInv
  <1>6. CASE log' = log /\ ~Send
    <2>1. \A i \in DOMAIN log :
            /\ log[i].target = TargetOf(i - 1)' /\ log[i].sender = SenderOf(i - 1)'
            /\ log[i].reached = Reaches(log[i].sender)'
      <3>1. CASE log = <<>>
        BY <3>1
      <3>2. CASE log # <<>>
        <4>1. /\ \A s : Reaches(s)' = Reaches(s)
              /\ \A k : TargetOf(k)' = TargetOf(k) /\ SenderOf(k)' = SenderOf(k)
          BY <3>2, LogStays
        <4>2. \A i \in DOMAIN log :
                /\ log[i].target = TargetOf(i - 1) /\ log[i].sender = SenderOf(i - 1)
                /\ log[i].reached = Reaches(log[i].sender)
          BY DEF LogInv
        <4> QED BY <1>6, <4>1, <4>2
      <3> QED BY <3>1, <3>2
    <2>2. log # <<>> => "traffic" \in ran' \/ at'.unit = "traffic" \/ failed' = "traffic"
      <3> SUFFICES ASSUME log # <<>> PROVE "traffic" \in ran' \/ at'.unit = "traffic" \/ failed' = "traffic"
        OBVIOUS
      <3>1. "traffic" \in ran \/ at.unit = "traffic" \/ failed = "traffic"
        BY DEF LogInv
      <3> QED BY <3>1, <1>1 DEF Moves, Begins, GoesOn, Ends, Fails, Waits, Idle
    <2>3. at'.unit = "traffic" => Len(log) = at'.step - 1 /\ Len(log) <= TotalMessages
      <3> SUFFICES ASSUME at'.unit = "traffic"
                   PROVE  Len(log) = at'.step - 1 /\ Len(log) <= TotalMessages
        OBVIOUS
      <3>1. CASE at.unit = "traffic"
        <4>1. UNCHANGED at
          BY <1>6, <3>1, TrafficMoves DEF StopsSending, Sent, Done, Idle
        <4> QED BY <3>1, <4>1 DEF LogInv
      <3>2. CASE at.unit # "traffic"
        <4>1. Begins("traffic")
          BY <1>1, <3>2 DEF Moves, Begins, GoesOn, Ends, Fails, Waits, Idle
        <4>2. log = <<>>
          BY <4>1 DEF Begins, LogInv, Idle
        <4> QED BY <4>1, <4>2, <1>2 DEF Begins
      <3> QED BY <3>1, <3>2
    <2>4. "traffic" \in ran' => Len(log) = TotalMessages
      <3> SUFFICES ASSUME "traffic" \in ran' PROVE Len(log) = TotalMessages
        OBVIOUS
      <3>1. CASE "traffic" \in ran
        BY <3>1 DEF LogInv
      <3>2. CASE "traffic" \notin ran
        <4>1. at.unit = "traffic"
          BY <1>1, <3>2 DEF Moves, Begins, GoesOn, Ends, Fails, Waits
        <4>2. Sent
          BY <1>6, <3>2, <4>1, TrafficMoves DEF StopsSending
        <4>3. at.step > TotalMessages /\ Len(log) = at.step - 1 /\ Len(log) <= TotalMessages
              /\ at.step \in Nat
          BY <4>1, <4>2 DEF LogInv, Sent, WorkloadDomains
        <4> QED BY <4>3, <1>2
      <3> QED BY <3>1, <3>2
    <2> QED BY <1>2, <1>3, <1>6, <2>1, <2>2, <2>3, <2>4 DEF LogInv
  <1>7. Send \/ log' = log
    BY TrafficMoves DEF StopsSending, Sent
  <1> QED BY <1>5, <1>6, <1>7

-----------------------------------------------------------------------------
(* Counting the messages.                                                  *)

LEMMA LogSets ==
  ASSUME LogInv, NEW S \in SUBSET DOMAIN log
  PROVE  IsFiniteSet(S) /\ Cardinality(S) \in Nat /\ Cardinality(S) <= Len(log) /\ Len(log) \in Nat
  <1>1. Len(log) \in Nat /\ DOMAIN log = 1..Len(log)
    BY DEF LogInv
  <1>2. IsFiniteSet(1..Len(log)) /\ Cardinality(1..Len(log)) = Len(log)
    BY <1>1, FS_Interval
  <1> QED BY <1>1, <1>2, FS_Subset, FS_CardinalityType

LEMMA SharesStep ==
  ASSUME WorkloadDomains, TurnInv, TargetsInv, LogInv, SharesInv, [WorkloadNext]_workloadVars,
         TargetsInv'
  PROVE  SharesInv'
  <1>1. spec' = spec /\ spec \in Specs /\ Channels' = Channels /\ WantedTargets' = WantedTargets
    BY StepMoves DEF WorkloadDomains, Channels, WantedTargets, Groups, Pairs, PersonTarget, Member
  <1>2. CASE Send
    <2> DEFINE L == Len(log)
               n == Len(targets)
               at0 == TargetOf(L)
    <2>1. /\ L \in Nat /\ DOMAIN log' = DOMAIN log \cup {L + 1} /\ Len(log') = L + 1
          /\ L + 1 \notin DOMAIN log /\ \A i \in DOMAIN log : log'[i] = log[i]
          /\ log'[L + 1].target = at0 /\ log'[L + 1].sender = SenderOf(L)
      <3>1. PICK acked \in BOOLEAN :
              LET message == [target |-> TargetOf(L), sender |-> SenderOf(L), acked |-> acked,
                              reached |-> Reaches(SenderOf(L))]
              IN /\ L \in Nat /\ DOMAIN log' = DOMAIN log \cup {L + 1} /\ Len(log') = L + 1
                 /\ L + 1 \notin DOMAIN log /\ \A i \in DOMAIN log : log'[i] = log[i]
                 /\ log'[L + 1] = message
        BY <1>2, SendAppends
      <3> QED BY <3>1
    <2>2. targets' = targets /\ TargetsAreSound(targets)
      BY <1>2, LogStays DEF Send
    <2>3. n \in Nat \ {0} /\ DOMAIN targets = 1..n
      BY <2>2 DEF TargetsAreSound
    <2>4. at0 \in DOMAIN targets /\ at0 = (L % n) + 1 /\ L % n \in Int
      <3>1. L % n \in 0..n - 1
        BY <2>1, <2>3, DivMod
      <3>2. at0 \in DOMAIN targets
        BY <2>1, <2>2, TurnsAreSound
      <3>3. at0 = (L % n) + 1
        BY DEF TargetOf
      <3> QED BY <3>1, <3>2, <3>3
    <2> HIDE DEF L, n, at0
    <2>5. ASSUME NEW t \in DOMAIN targets
          PROVE  /\ Cardinality(SentTo(t)') = Share(L + 1, n, t - 1)
                 /\ Share(L + 1, n, t - 1) = Share(L, n, t - 1) + (IF t = at0 THEN 1 ELSE 0)
                 /\ t = at0 => Share(L, n, t - 1) = L \div n
                 /\ Share(L, n, t - 1) \in Nat
      <3>1. SentTo(t)' = IF t = at0 THEN SentTo(t) \cup {L + 1} ELSE SentTo(t)
        BY <2>1 DEF SentTo
      <3>2. IsFiniteSet(SentTo(t)) /\ Cardinality(SentTo(t)) \in Nat /\ L + 1 \notin SentTo(t)
        BY <2>1, LogSets DEF SentTo
      <3>3. Cardinality(SentTo(t)') = Cardinality(SentTo(t)) + (IF t = at0 THEN 1 ELSE 0)
        <4>1. CASE t = at0
          BY <3>1, <3>2, <4>1, FS_AddElement
        <4>2. CASE t # at0
          BY <3>1, <3>2, <4>2
        <4> QED BY <4>1, <4>2
      <3>4. Cardinality(SentTo(t)) = Share(L, n, t - 1)
        BY DEF SharesInv, L, n
      <3>5. t - 1 \in 0..n - 1 /\ (t - 1 = L % n <=> t = at0)
        BY <2>3, <2>4
      <3>6. /\ Share(L + 1, n, t - 1) = Share(L, n, t - 1) + (IF t - 1 = L % n THEN 1 ELSE 0)
            /\ t - 1 = L % n => Share(L, n, t - 1) = L \div n
        BY <2>1, <2>3, <3>5, ShareGrows
      <3> QED BY <3>2, <3>3, <3>4, <3>5, <3>6
    <2>6. ASSUME NEW t \in DOMAIN targets, spec.traffic = "send", spec.pick = "round_robin",
                 NEW j \in DOMAIN targets[t].senders
          PROVE  Cardinality(SentBy(t, targets[t].senders[j])') =
                   Share(Share(L + 1, n, t - 1), Len(targets[t].senders), j - 1)
      <3> DEFINE s == targets[t].senders
                 u == s[j]
                 q == Share(L, n, t - 1)
      <3>1. DOMAIN s = 1..Len(s) /\ Len(s) \in Nat \ {0} /\ q \in Nat
            /\ \A i \in DOMAIN s : s[i] = s[j] => i = j
        BY <2>2, <2>5 DEF TargetsAreSound
      <3>2. Cardinality(SentBy(t, u)) = Share(q, Len(s), j - 1)
        BY <2>6 DEF SharesInv, L, n
      <3>3. IsFiniteSet(SentBy(t, u)) /\ Cardinality(SentBy(t, u)) \in Nat /\ L + 1 \notin SentBy(t, u)
        BY <2>1, LogSets DEF SentBy
      <3>4. SentBy(t, u)' = {i \in DOMAIN log' : log'[i].target = t /\ log'[i].sender = u}
        BY <2>2 DEF SentBy
      <3> HIDE DEF s, u, q
      <3>5. CASE t = at0
        <4>1. q = L \div n /\ Share(L + 1, n, t - 1) = q + 1
          BY <2>5, <3>5 DEF q
        <4>2. Turn(L) = q
          BY <2>6, <4>1 DEF Turn, n
        <4>3. (q % Len(s)) + 1 \in DOMAIN s /\ SenderOf(L) = s[(q % Len(s)) + 1]
          BY <2>1, <2>2, <2>6, <3>5, <4>2, TurnsAreSound DEF at0, s
        <4>4. SenderOf(L) = u <=> j - 1 = q % Len(s)
          <5>1. q % Len(s) \in 0..Len(s) - 1 /\ j \in 1..Len(s)
            BY <3>1, DivMod DEF s
          <5> QED BY <4>3, <5>1, <3>1 DEF u
        <4>5. SentBy(t, u)' = IF j - 1 = q % Len(s) THEN SentBy(t, u) \cup {L + 1} ELSE SentBy(t, u)
          BY <2>1, <3>4, <3>5, <4>4 DEF SentBy
        <4>6. Cardinality(SentBy(t, u)') =
                Cardinality(SentBy(t, u)) + (IF j - 1 = q % Len(s) THEN 1 ELSE 0)
          <5>1. CASE j - 1 = q % Len(s)
            BY <3>3, <4>5, <5>1, FS_AddElement
          <5>2. CASE j - 1 # q % Len(s)
            BY <3>3, <4>5, <5>2
          <5> QED BY <5>1, <5>2
        <4>7. Share(q + 1, Len(s), j - 1) =
                Share(q, Len(s), j - 1) + (IF j - 1 = q % Len(s) THEN 1 ELSE 0)
          <5>1. j - 1 \in 0..Len(s) - 1
            BY <3>1 DEF s
          <5> QED BY <3>1, <5>1, ShareGrows
        <4> QED BY <3>2, <4>1, <4>6, <4>7 DEF s, u
      <3>6. CASE t # at0
        <4>1. SentBy(t, u)' = SentBy(t, u)
          BY <2>1, <3>4, <3>6 DEF SentBy
        <4>2. Share(L + 1, n, t - 1) = q
          BY <2>5, <3>1, <3>6 DEF q
        <4> QED BY <3>2, <4>1, <4>2 DEF s, u
      <3> QED BY <3>5, <3>6
    <2>7. \A t : \A u : SentBy(t, u)' = {i \in DOMAIN log' : log'[i].target = t /\ log'[i].sender = u}
      BY DEF SentBy
    <2>8. \A t \in DOMAIN targets' : \A j \in DOMAIN targets'[t].senders :
             SentBy(t, targets[t].senders[j])' =
               {i \in DOMAIN log' : log'[i].target = t /\ log'[i].sender = targets'[t].senders[j]}
      BY <2>2, <2>7
    <2> QED BY <1>1, <2>1, <2>2, <2>5, <2>6 DEF SharesInv, n, SentBy
  <1>3. CASE log' = log
    <2>1. CASE log = <<>>
      <3> SUFFICES ASSUME NEW t \in DOMAIN targets'
                   PROVE  /\ Cardinality(SentTo(t)') = Share(Len(log'), Len(targets'), t - 1)
                          /\ \A j \in DOMAIN targets'[t].senders :
                               Cardinality(SentBy(t, targets[t].senders[j])') =
                                 Share(Share(Len(log'), Len(targets'), t - 1),
                                       Len(targets'[t].senders), j - 1)
        BY DEF SharesInv
      <3>1. TargetsAreSound(targets')
        <4>1. targets' = WantedTargets /\ Channels \in ran'
          BY <1>1 DEF TargetsInv
        <4>2. Channels \in ran \/ Channels \in Begun
          BY <4>1, StepMoves DEF Moves, Begins, GoesOn, Ends, Fails, Waits, Begun
        <4> QED BY <1>1, <4>1, <4>2, WantedAreSound DEF TurnInv, Begun
      <3>2. DOMAIN log' = {} /\ Len(log') = 0
        BY <1>3, <2>1
      <3>3. SentTo(t)' = {}
        BY <3>2 DEF SentTo
      <3>4. Len(targets') \in Nat \ {0} /\ t \in 1..Len(targets')
        BY <3>1 DEF TargetsAreSound
      <3>5. Share(0, Len(targets'), t - 1) = 0
        BY <3>4, ShareIsNat
      <3>6. ASSUME NEW j \in DOMAIN targets'[t].senders
            PROVE  /\ SentBy(t, targets[t].senders[j])' = {}
                   /\ Share(0, Len(targets'[t].senders), j - 1) = 0
        <4>1. SentBy(t, targets[t].senders[j])' = {}
          BY <3>2 DEF SentBy
        <4>2. Len(targets'[t].senders) \in Nat \ {0} /\ j \in 1..Len(targets'[t].senders)
          BY <3>1 DEF TargetsAreSound
        <4>3. j - 1 \in 0..Len(targets'[t].senders) - 1
          BY <4>2
        <4> QED BY <4>1, <4>2, <4>3, ShareIsNat
      <3> QED BY <3>2, <3>3, <3>5, <3>6, FS_EmptySet
    <2>2. CASE log # <<>>
      <3>1. targets' = targets
        BY <2>2, LogStays
      <3>2. \A t : SentTo(t)' = SentTo(t)
        BY <1>3 DEF SentTo
      <3>3. \A t : \A j : SentBy(t, targets[t].senders[j])' = SentBy(t, targets[t].senders[j])
        BY <1>3, <3>1 DEF SentBy
      <3> QED BY <1>1, <1>3, <3>1, <3>2, <3>3 DEF SharesInv
    <2> QED BY <2>1, <2>2
  <1> QED BY <1>2, <1>3, TrafficMoves DEF StopsSending, Sent

LEMMA SummaryStep ==
  ASSUME WorkloadDomains, TurnInv, TargetsInv, LogInv, SummaryInv, [WorkloadNext]_workloadVars,
         TargetsInv'
  PROVE  SummaryInv'
  <1>1. CASE Send
    <2>1. PICK acked \in BOOLEAN :
            LET k == Len(log)
            IN /\ k \in Nat /\ DOMAIN log' = DOMAIN log \cup {k + 1} /\ Len(log') = k + 1
               /\ k + 1 \notin DOMAIN log /\ \A i \in DOMAIN log : log'[i] = log[i]
               /\ log'[k + 1].acked = acked
               /\ summary' = Count(summary, acked, Reaches(SenderOf(k)))
      BY <1>1, SendAppends
    <2>2. IsFiniteSet(Acked) /\ Cardinality(Acked) \in Nat /\ Len(log) + 1 \notin Acked
      BY <2>1, LogSets DEF Acked
    <2>3. Acked' = IF acked THEN Acked \cup {Len(log) + 1} ELSE Acked
      BY <2>1 DEF Acked
    <2>4. Cardinality(Acked') = Cardinality(Acked) + (IF acked THEN 1 ELSE 0)
      <3>1. CASE acked
        BY <2>2, <2>3, <3>1, FS_AddElement
      <3>2. CASE ~acked
        BY <2>2, <2>3, <3>2
      <3> QED BY <3>1, <3>2
    <2>5. /\ summary.ok \in Nat /\ summary.errors \in Nat
          /\ summary = [ok |-> summary.ok, errors |-> summary.errors]
          /\ summary' = [ok |-> summary.ok + (IF acked THEN 1 ELSE 0),
                         errors |-> summary.errors + (IF acked THEN 0 ELSE 1)]
      <3>1. summary.ok \in Nat /\ summary.errors \in Nat
            /\ summary = [ok |-> summary.ok, errors |-> summary.errors]
        BY DEF SummaryInv
      <3>2. CASE acked
        BY <2>1, <3>1, <3>2 DEF Count
      <3>3. CASE ~acked
        BY <2>1, <3>1, <3>3 DEF Count
      <3> QED BY <3>1, <3>2, <3>3
    <2>6. summary.ok = Cardinality(Acked) /\ summary.ok + summary.errors = Len(log)
      BY DEF SummaryInv
    <2>7. CASE acked
      BY <2>1, <2>2, <2>4, <2>5, <2>6, <2>7 DEF SummaryInv
    <2>8. CASE ~acked
      BY <2>1, <2>2, <2>4, <2>5, <2>6, <2>8 DEF SummaryInv
    <2> QED BY <2>7, <2>8
  <1>2. CASE UNCHANGED <<log, summary>>
    BY <1>2 DEF SummaryInv, Acked
  <1>3. Send \/ UNCHANGED <<log, summary>>
    BY TrafficMoves DEF StopsSending, Sent
  <1> QED BY <1>1, <1>2, <1>3

\* The verdict is passed once, on what will not change any more.
LEMMA VerdictStep ==
  ASSUME WorkloadDomains, TurnInv, VerdictInv, [WorkloadNext]_workloadVars
  PROVE  VerdictInv'
  <1>1. spec' = spec /\ spec \in Specs /\ Moves
    BY StepMoves DEF WorkloadDomains
  <1>2. ran \subseteq ran'
    BY <1>1 DEF Moves, Begins, GoesOn, Ends, Fails, Waits
  <1>3. CASE Judge
    <2>1. "traffic" \in ran /\ at.unit = "assert" /\ UNCHANGED <<log, summary>>
      BY <1>1, <1>3, UnitFacts DEF TurnInv, Begun, Judge
    <2>2. at.unit \notin ran /\ failed = "none"
      BY <2>1 DEF WorkloadDomains
    <2>3. verdict = "none"
      BY <2>1, <2>2 DEF VerdictInv
    <2>4. RulesHold' = RulesHold
      BY <1>1, <2>1 DEF RulesHold, MetricValue, Compare
    <2>5. CASE \E i \in DOMAIN spec.rules : spec.rules[i].metric \notin Metrics
      BY <1>3, <2>1, <2>2, <2>3, <2>5 DEF Judge, GiveUp, VerdictInv
    <2>6. CASE \A i \in DOMAIN spec.rules : spec.rules[i].metric \in Metrics
      <3>1. CASE RulesHold
        <4>1. verdict' = "passed" /\ ran' = ran \cup {"assert"} /\ failed' = failed
          BY <1>3, <2>1, <2>6, <3>1 DEF Judge, Done, RulesHold
        <4> QED BY <1>1, <2>1, <2>4, <2>6, <3>1, <4>1 DEF VerdictInv, Metrics
      <3>2. CASE ~RulesHold
        <4>1. verdict' = "failed" /\ ran' = ran /\ failed' = "assert"
          BY <1>3, <2>1, <2>6, <3>2 DEF Judge, GiveUp, RulesHold
        <4> QED BY <1>1, <2>1, <2>2, <2>4, <2>6, <3>2, <4>1 DEF VerdictInv, Metrics
      <3> QED BY <3>1, <3>2
    <2> QED BY <2>5, <2>6
  <1>4. CASE verdict' = verdict /\ ~Judge
    <2>1. ASSUME verdict # "none"
          PROVE  /\ "traffic" \in ran' /\ ("assert" \in ran' \/ failed' = "assert")
                 /\ RulesHold' = RulesHold
      <3>1. "traffic" \in ran /\ ("assert" \in ran \/ failed = "assert")
        BY <2>1 DEF VerdictInv
      <3>2. UNCHANGED <<log, summary>>
        <4>1. at.unit # "traffic"
          BY <3>1 DEF WorkloadDomains
        <4> QED BY <4>1, TrafficMoves
      <3>3. RulesHold' = RulesHold
        BY <1>1, <3>2 DEF RulesHold, MetricValue, Compare
      <3>4. failed = "assert" => failed' = "assert"
        BY <1>1 DEF Moves, Begins, GoesOn, Ends, Fails, Waits
      <3> QED BY <1>2, <3>1, <3>3, <3>4
    <2>2. "assert" \in ran' => "assert" \in ran
      <3> SUFFICES ASSUME "assert" \in ran', "assert" \notin ran PROVE FALSE
        OBVIOUS
      <3>1. Ends /\ at.unit = "assert"
        BY <1>1 DEF Moves, Begins, GoesOn, Ends, Fails, Waits
      <3>2. ~Asks
        <4>1. Requests(at.unit) = <<>> /\ at.step \in Nat /\ at.step > 0
          BY <3>1 DEF Requests, WorkloadDomains
        <4> QED BY <4>1 DEF Asks
      <3>3. ASSUME NEW u \in Units, Begin(u) PROVE FALSE
        BY <3>1, <3>3 DEF Begin, Idle
      <3> QED BY <1>4, <3>1, <3>2, <3>3 DEF WorkloadNext, workloadVars, Answered, Unanswered, Output,
           Connect, ConnectFails, Connected, Send, StopsSending, Sent, CancelRun
    <2> QED BY <1>1, <1>4, <2>1, <2>2 DEF VerdictInv, Metrics
  <1>5. ASSUME NEW u \in Units, Begin(u) PROVE UNCHANGED verdict
    BY <1>5 DEF Begin
  <1> QED BY <1>3, <1>4, <1>5 DEF WorkloadNext, workloadVars, Answered, Unanswered, Output, Connect,
       ConnectFails, Connected, Send, StopsSending, Sent, CancelRun

-----------------------------------------------------------------------------
(* The theorems.                                                           *)

LEMMA WorkloadInitInv == WorkloadInit => WorkloadInv
  <1> SUFFICES ASSUME WorkloadInit PROVE WorkloadInv
    OBVIOUS
  <1>1. spec \in Specs /\ "none" \notin Units
    BY UnitFacts DEF WorkloadInit
  <1>2. WorkloadDomains
    BY <1>1 DEF WorkloadInit, WorkloadDomains, Idle
  <1>3. TurnInv /\ ServerInv /\ TargetsInv /\ VerdictInv
    BY DEF WorkloadInit, Idle, TurnInv, Begun, ServerInv, Asked, TargetsInv, VerdictInv
  <1>4. ClientsInv
    <2>1. Online = 0 /\ DOMAIN clients = {} /\ 0..0 - 1 = {}
      BY DEF WorkloadInit, Idle, Online
    <2>2. \A g : On(g) = {}
      BY <2>1 DEF On
    <2>3. ASSUME NEW g \in 0..spec.gateways - 1 PROVE Cardinality(On(g)) = Share(0, spec.gateways, g)
      <3>1. spec.gateways \in Nat \ {0}
        BY <1>1, SpecTypes
      <3>2. Share(0, spec.gateways, g) = 0
        BY <3>1, ShareIsNat
      <3> QED BY <2>2, <3>2, FS_EmptySet
    <2> QED BY <2>1, <2>3 DEF ClientsInv, WorkloadInit, Idle
  <1>5. LogInv
    BY <1>1 DEF WorkloadInit, Idle, LogInv
  <1>6. SharesInv
    BY DEF WorkloadInit, SharesInv
  <1>7. SummaryInv
    <2>1. Acked = {} /\ Len(log) = 0
      BY DEF WorkloadInit, Acked
    <2> QED BY <2>1, FS_EmptySet DEF WorkloadInit, SummaryInv
  <1> QED BY <1>2, <1>3, <1>4, <1>5, <1>6, <1>7 DEF WorkloadInv

\* Every step of the units, of the cluster and of the caller keeps the invariant.
THEOREM WorkloadInvHolds == WorkloadSpec => []WorkloadInv
  <1>1. WorkloadInit => WorkloadInv
    BY WorkloadInitInv
  <1>2. WorkloadInv /\ [WorkloadNext]_workloadVars => WorkloadInv'
    <2> SUFFICES ASSUME WorkloadInv, [WorkloadNext]_workloadVars PROVE WorkloadInv'
      OBVIOUS
    <2>1. TargetsInv'
      BY TargetsStep DEF WorkloadInv
    <2> QED BY <2>1, DomainsStep, TurnStep, ServerStep, ClientsStep, LogStep, SharesStep, SummaryStep,
         VerdictStep DEF WorkloadInv
  <1> QED BY <1>1, <1>2, PTL DEF WorkloadSpec

\* While a user is connected every user has a token.
LEMMA OnlineHaveTokens ==
  ASSUME WorkloadInv, clients # <<>>
  PROVE  DOMAIN clients \subseteq Users /\ server.tokens = Users
  <1>1. spec \in Specs
    BY DEF WorkloadInv, WorkloadDomains
  <1>2. Online \in Nat /\ DOMAIN clients = 0..Online - 1
    BY DEF WorkloadInv, ClientsInv
  <1>3. CASE "session_pool" \in Begun
    <2>1. Sender = "session_pool"
      BY <1>1, <1>3, UnitFacts DEF WorkloadInv, TurnInv
    <2>2. "prepare_tokens" \in ran
      BY <1>1, <1>3, <2>1, PoolNeeds DEF WorkloadInv, TurnInv
    <2>3. server.tokens = Users
      BY <2>2 DEF WorkloadInv, ServerInv, Asked
    <2>4. Online <= spec.total
      <3>1. spec.total \in Int
        BY <1>1, SpecTypes
      <3> QED BY <1>3, <3>1 DEF WorkloadInv, ClientsInv, Online, Begun
    <2>5. spec.total \in Int
      BY <1>1, SpecTypes
    <2> QED BY <1>2, <2>3, <2>4, <2>5 DEF Users
  <1>4. CASE "session_pool" \notin Begun
    <2>1. Online = 0
      BY <1>4 DEF Online, Begun
    <2>2. DOMAIN clients = {}
      BY <1>2, <2>1
    <2>3. clients = <<>>
      BY <2>2
    <2> QED BY <2>3
  <1> QED BY <1>3, <1>4

\* A message that reaches the server finds its sender's token and its channel with the
\* sender in it, whatever was asked how often and at which address (postAny, buildGroups,
\* person_pairs).
THEOREM PreparedBeforeUseHolds == WorkloadSpec => []PreparedBeforeUse
  <1>1. WorkloadInv => PreparedBeforeUse
    <2> SUFFICES ASSUME WorkloadInv PROVE PreparedBeforeUse
      OBVIOUS
    <2>1. spec \in Specs
      BY DEF WorkloadInv, WorkloadDomains
    <2>2. DOMAIN clients \subseteq server.tokens
      <3>1. CASE clients = <<>>
        BY <3>1
      <3>2. CASE clients # <<>>
        BY <3>2, OnlineHaveTokens
      <3> QED BY <3>1, <3>2
    <2>3. ASSUME spec.sender = "pool", NEW i \in DOMAIN log, log[i].reached
          PROVE  LET channel == targets[log[i].target].channel
                 IN CASE spec.channels = "static" -> TRUE
                      [] spec.channels = "prepared" ->
                           /\ channel \in server.channels
                           /\ log[i].sender \in server.members[channel]
                      [] spec.channels = "pairs" -> channel[2] \in server.tokens \ {log[i].sender}
      <3> DEFINE t == TargetOf(i - 1)
                 s == targets[t].senders
      <3>1. Channels \in ran /\ TargetsAreSound(targets) /\ targets = WantedTargets
        <4>1. Before("traffic") \subseteq ran
          BY <2>3 DEF WorkloadInv, LogInv
        <4> QED BY <2>1, <4>1, UnitFacts, TargetsSound DEF WorkloadInv
      <3>2. i - 1 \in Nat /\ log[i].target = t /\ log[i].sender = SenderOf(i - 1)
        BY <2>3 DEF WorkloadInv, LogInv
      <3>3. PICK j \in DOMAIN s : log[i].sender = s[j]
        <4>1. \E j \in DOMAIN s : SenderOf(i - 1) = s[j] /\ s[j] \in Int
          BY <3>1, <3>2, TurnsAreSound
        <4> HIDE DEF s, t
        <4> QED BY <3>2, <4>1
      <3>4. t \in DOMAIN targets
        BY <3>1, <3>2, TurnsAreSound
      <3> HIDE DEF t
      <3>5. CASE spec.channels = "prepared"
        <4> DEFINE d == spec.overlap = "disallowed"
        <4>1. targets = Groups(d)
          BY <3>1, <3>5 DEF WantedTargets
        <4>2. t \in 1..spec.count /\ targets[t].channel = <<"group", t>>
              /\ s = [m \in 1..spec.members |-> Member(d, t, m)]
          BY <3>4, <4>1 DEF Groups
        <4>3. j \in 1..spec.members /\ log[i].sender = Member(d, t, j)
          BY <3>3, <4>2
        <4>4. Asked("prepare_group_channels", 1) /\ Asked("prepare_group_channels", 2)
          BY <2>1, <3>1, <3>5, UnitFacts DEF Asked
        <4>5. /\ {<<"group", c>> : c \in 1..spec.count} \subseteq server.channels
              /\ \A c \in 1..spec.count :
                   server.members[<<"group", c>>] = {Member(d, c, m) : m \in 1..spec.members}
          BY <4>4 DEF WorkloadInv, ServerInv
        <4> HIDE DEF d, s
        <4> QED BY <3>5, <4>2, <4>3, <3>2, <4>5
      <3>6. CASE spec.channels = "pairs"
        <4>1. PairsAccept
          <5>1. CanRun(Channels)
            BY <3>1 DEF WorkloadInv, TurnInv, Begun
          <5> QED BY <5>1, <3>6 DEF Channels, CanRun
        <4>2. PICK a \in Users : \E b \in Users \ {a} : targets[t] = PersonTarget(a, b)
          BY <2>1, <3>1, <3>4, <3>6, <4>1, PairsAreSound DEF WantedTargets
        <4>3. PICK b \in Users \ {a} : targets[t] = PersonTarget(a, b)
          BY <4>2
        <4>4. s = <<a>> /\ targets[t].channel = <<"person", b>>
          BY <4>3 DEF PersonTarget
        <4>5. log[i].sender = a
          BY <3>3, <4>4
        <4>6. clients # <<>>
          <5>1. Reaches(log[i].sender)
            BY <2>3 DEF WorkloadInv, LogInv
          <5> QED BY <2>3, <5>1 DEF Reaches
        <4>7. server.tokens = Users
          BY <4>6, OnlineHaveTokens
        <4> QED BY <3>6, <4>3, <4>4, <4>5, <3>2, <4>7
      <3>7. CASE spec.channels = "static"
        BY <3>7
      <3> QED BY <2>1, <3>5, <3>6, <3>7, SpecTypes
    <2> QED BY <2>2, <2>3 DEF PreparedBeforeUse
  <1> QED BY <1>1, WorkloadInvHolds, PTL

\* The users of two groups that may not overlap.
LEMMA GroupsApart ==
  ASSUME spec \in Specs, spec.members > 0, NEW t \in 1..spec.count, NEW o \in 1..spec.count, t # o,
         NEW a \in 1..spec.members, NEW b \in 1..spec.members
  PROVE  Member(TRUE, t, a) # Member(TRUE, o, b)
  <1> DEFINE M == spec.members
  <1>1. M \in Nat \ {0} /\ spec.count \in Int
    BY SpecTypes
  <1>2. t - 1 \in Nat /\ o - 1 \in Nat /\ a - 1 \in 0..M - 1 /\ b - 1 \in 0..M - 1
    BY <1>1
  <1>3. (M * (t - 1) + (a - 1)) \div M = t - 1 /\ (M * (o - 1) + (b - 1)) \div M = o - 1
    BY <1>1, <1>2, DivModUnique
  <1>4. Member(TRUE, t, a) = M * (t - 1) + (a - 1) /\ Member(TRUE, o, b) = M * (o - 1) + (b - 1)
    <2>1. M * (t - 1) = (t - 1) * M /\ M * (o - 1) = (o - 1) * M
          /\ (t - 1) * M \in Int /\ (o - 1) * M \in Int
      BY <1>1, <1>2
    <2> QED BY <1>1, <1>2, <2>1 DEF Member
  <1>5. t - 1 # o - 1
    BY <1>2
  <1> QED BY <1>3, <1>4, <1>5

\* The load is even over targets, gateways and, in turn, senders, and groups that may not
\* overlap share no sender (sendOne, pickSender, session_pool, buildGroups).
THEOREM EvenLoadHolds == WorkloadSpec => []EvenLoad
  <1>1. WorkloadInv => EvenLoad
    <2> SUFFICES ASSUME WorkloadInv PROVE EvenLoad
      OBVIOUS
    <2>1. spec \in Specs /\ Len(log) \in Nat
      BY DEF WorkloadInv, WorkloadDomains, LogInv
    <2>2. ASSUME NEW t \in DOMAIN targets
          PROVE  TargetsAreSound(targets) /\ targets = WantedTargets /\ Channels \in ran
      <3>1. targets # <<>>
        BY <2>2
      <3> QED BY <2>1, <3>1, TargetsSound DEF WorkloadInv
    <2>3. ASSUME NEW t \in DOMAIN targets, NEW o \in DOMAIN targets
          PROVE  Near(Cardinality(SentTo(t)), Cardinality(SentTo(o)))
      <3>1. Len(targets) \in Nat \ {0} /\ t - 1 \in 0..Len(targets) - 1 /\ o - 1 \in 0..Len(targets) - 1
        BY <2>2 DEF TargetsAreSound
      <3>2. Near(Share(Len(log), Len(targets), t - 1), Share(Len(log), Len(targets), o - 1))
        BY <2>1, <3>1, SharesAreNear
      <3> QED BY <3>2 DEF WorkloadInv, SharesInv
    <2>4. ASSUME spec.traffic = "send", spec.pick = "round_robin", NEW t \in DOMAIN targets,
                 NEW i \in DOMAIN targets[t].senders, NEW j \in DOMAIN targets[t].senders
          PROVE  Near(Cardinality(SentBy(t, targets[t].senders[i])),
                      Cardinality(SentBy(t, targets[t].senders[j])))
      <3> DEFINE n == Len(targets[t].senders)
                 q == Share(Len(log), Len(targets), t - 1)
      <3>1. Len(targets) \in Nat \ {0} /\ t - 1 \in 0..Len(targets) - 1
            /\ n \in Nat \ {0} /\ i - 1 \in 0..n - 1 /\ j - 1 \in 0..n - 1
        <4>1. n \in Nat \ {0} /\ DOMAIN targets[t].senders = 1..n
              /\ Len(targets) \in Nat \ {0} /\ DOMAIN targets = 1..Len(targets)
          BY <2>2 DEF TargetsAreSound
        <4> HIDE DEF n
        <4>2. i \in 1..n /\ j \in 1..n /\ t \in 1..Len(targets)
          BY <4>1
        <4> QED BY <4>1, <4>2
      <3>2. q \in Nat
        BY <2>1, <3>1, ShareIsNat
      <3>3. Cardinality(SentBy(t, targets[t].senders[i])) = Share(q, n, i - 1)
            /\ Cardinality(SentBy(t, targets[t].senders[j])) = Share(q, n, j - 1)
        BY <2>4 DEF WorkloadInv, SharesInv
      <3> HIDE DEF n, q
      <3> QED BY <3>1, <3>2, <3>3, SharesAreNear
    <2>5. ASSUME NEW g \in 0..spec.gateways - 1, NEW o \in 0..spec.gateways - 1
          PROVE  Near(Cardinality(On(g)), Cardinality(On(o)))
      <3>1. spec.gateways \in Nat \ {0}
        BY <2>1, SpecTypes
      <3>2. Online \in Nat /\ Cardinality(On(g)) = Share(Online, spec.gateways, g)
            /\ Cardinality(On(o)) = Share(Online, spec.gateways, o)
        BY DEF WorkloadInv, ClientsInv
      <3> QED BY <3>1, <3>2, SharesAreNear
    <2>6. ASSUME spec.channels = "prepared", spec.overlap = "disallowed",
                 NEW t \in DOMAIN targets, NEW o \in DOMAIN targets, t # o,
                 NEW a \in DOMAIN targets[t].senders, NEW b \in DOMAIN targets[o].senders
          PROVE  targets[t].senders[a] # targets[o].senders[b]
      <3>1. targets = Groups(TRUE)
        BY <2>2, <2>6 DEF WantedTargets
      <3>2. t \in 1..spec.count /\ o \in 1..spec.count
            /\ a \in 1..spec.members /\ b \in 1..spec.members
            /\ targets[t].senders[a] = Member(TRUE, t, a) /\ targets[o].senders[b] = Member(TRUE, o, b)
        BY <2>6, <3>1 DEF Groups
      <3>3. spec.members > 0
        BY <2>1, <3>2, SpecTypes
      <3> QED BY <2>1, <2>6, <3>2, <3>3, GroupsApart
    <2> DEFINE senders(t) == {targets[t].senders[i] : i \in DOMAIN targets[t].senders}
    <2>7. \A t, o \in DOMAIN targets :
            Near(Cardinality({i \in DOMAIN log : log[i].target = t}),
                 Cardinality({i \in DOMAIN log : log[i].target = o}))
      BY <2>3 DEF SentTo
    <2>8. spec.traffic = "send" /\ spec.pick = "round_robin" =>
            \A t \in DOMAIN targets : \A u, v \in senders(t) :
              Near(Cardinality({i \in DOMAIN log : log[i].target = t /\ log[i].sender = u}),
                   Cardinality({i \in DOMAIN log : log[i].target = t /\ log[i].sender = v}))
      <3> SUFFICES ASSUME spec.traffic = "send", spec.pick = "round_robin", NEW t \in DOMAIN targets,
                          NEW u \in senders(t), NEW v \in senders(t)
                   PROVE  Near(Cardinality(SentBy(t, u)), Cardinality(SentBy(t, v)))
        BY DEF SentBy
      <3>1. PICK i \in DOMAIN targets[t].senders : u = targets[t].senders[i]
        OBVIOUS
      <3>2. PICK j \in DOMAIN targets[t].senders : v = targets[t].senders[j]
        OBVIOUS
      <3> QED BY <2>4, <3>1, <3>2
    <2>9. \A g, o \in 0..spec.gateways - 1 :
            Near(Cardinality({u \in DOMAIN clients : clients[u] = g}),
                 Cardinality({u \in DOMAIN clients : clients[u] = o}))
      BY <2>5 DEF On
    <2>10. spec.channels = "prepared" /\ spec.overlap = "disallowed" =>
             \A t, o \in DOMAIN targets : t # o => senders(t) \cap senders(o) = {}
      BY <2>6
    <2> QED BY <2>7, <2>8, <2>9, <2>10 DEF EvenLoad
  <1> QED BY <1>1, WorkloadInvHolds, PTL

\* The verdict is the truth about every message of the rate and the duration, and a run
\* that goes through has passed it (Run of group_send and of report.assert).
THEOREM VerdictIsTrueHolds == WorkloadSpec => []VerdictIsTrue
  <1>1. WorkloadInv => VerdictIsTrue
    <2> SUFFICES ASSUME WorkloadInv PROVE VerdictIsTrue
      OBVIOUS
    <2> DEFINE acked == Cardinality(Acked)
               lost == TotalMessages - acked
               number(rule) == CASE rule.metric = "sendack_ok" -> acked [] OTHER -> lost
               of(rule) == IF rule.metric = "sendack_error_rate" THEN TotalMessages ELSE 1
               left(rule) == number(rule) * rule.value[2]
               right(rule) == rule.value[1] * of(rule)
               holds(rule) == rule.op \in (IF left(rule) < right(rule) THEN {"lt", "lte"}
                                           ELSE IF left(rule) > right(rule) THEN {"gt", "gte"}
                                           ELSE {"eq", "lte", "gte"})
    <2>1. spec \in Specs /\ TotalMessages \in Nat \ {0} /\ spec.rules \in Seq(RuleSpecs)
      BY SpecTypes DEF WorkloadInv, WorkloadDomains
    <2>2. ASSUME verdict # "none"
          PROVE  verdict = "passed" <=> \A i \in DOMAIN spec.rules : holds(spec.rules[i])
      <3>1. "traffic" \in ran /\ (\A i \in DOMAIN spec.rules : spec.rules[i].metric \in Metrics)
            /\ (verdict = "passed" <=> RulesHold)
        BY <2>2 DEF WorkloadInv, VerdictInv
      <3>2. summary.ok = acked /\ summary.errors = lost /\ acked \in Nat /\ lost \in Nat
            /\ summary.ok + summary.errors = TotalMessages
        BY <2>1, <3>1 DEF WorkloadInv, SummaryInv, LogInv
      <3>3. ASSUME NEW i \in DOMAIN spec.rules
            PROVE  holds(spec.rules[i]) <=>
                     Compare(MetricValue(spec.rules[i].metric), spec.rules[i].op, spec.rules[i].value)
        <4> DEFINE rule == spec.rules[i]
                   got == MetricValue(rule.metric)
        <4>1. rule \in RuleSpecs /\ rule.metric \in Metrics
          BY <2>1, <3>1
        <4>2. rule.value[1] \in Int /\ rule.value[2] \in Int /\ rule.op \in STRING
          BY <4>1 DEF RuleSpecs
        <4>3. got[1] = number(rule) /\ got[2] = of(rule)
          <5> HIDE DEF acked, lost, rule
          <5>1. CASE rule.metric = "sendack_ok"
            BY <3>2, <5>1 DEF MetricValue, rule
          <5>2. CASE rule.metric = "sendack_errors"
            BY <3>2, <5>2 DEF MetricValue, rule
          <5>3. CASE rule.metric = "sendack_error_rate"
            BY <2>1, <3>2, <5>3 DEF MetricValue, rule
          <5> QED BY <4>1, <5>1, <5>2, <5>3 DEF Metrics
        <4>4. number(rule) \in Int /\ of(rule) \in Int
          BY <2>1, <3>2
        <4> HIDE DEF number, of, rule, got
        <4>5. left(rule) \in Int /\ right(rule) \in Int
          BY <4>2, <4>4
        <4>6. got[1] * rule.value[2] = left(rule) /\ rule.value[1] * got[2] = right(rule)
          BY <4>3
        <4> HIDE DEF left, right
        <4>7. Compare(got, rule.op, rule.value) <=>
                CASE rule.op = "eq" -> left(rule) = right(rule)
                  [] rule.op = "lt" -> left(rule) < right(rule)
                  [] rule.op = "lte" -> left(rule) <= right(rule)
                  [] rule.op = "gt" -> left(rule) > right(rule)
                  [] rule.op = "gte" -> left(rule) >= right(rule)
                  [] OTHER -> FALSE
          BY <4>6 DEF Compare
        <4>8. holds(rule) <=> Compare(got, rule.op, rule.value)
          <5>1. CASE left(rule) < right(rule)
            BY <4>5, <4>7, <5>1
          <5>2. CASE left(rule) > right(rule)
            BY <4>5, <4>7, <5>2
          <5>3. CASE left(rule) = right(rule)
            BY <4>5, <4>7, <5>3
          <5> QED BY <4>5, <5>1, <5>2, <5>3
        <4> QED BY <4>8 DEF rule, got
      <3> QED BY <3>1, <3>3 DEF RulesHold
    <2>3. ran = Units => verdict = "passed" /\ Len(log) = TotalMessages
      BY <2>1, UnitFacts DEF WorkloadInv, VerdictInv, LogInv
    <2> QED BY <2>2, <2>3 DEF VerdictIsTrue, Acked
  <1> QED BY <1>1, WorkloadInvHolds, PTL
=============================================================================
