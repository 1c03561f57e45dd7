------------------------------ MODULE Workload ------------------------------
(***************************************************************************)
(* The units of a benchmark against WuKongIM, from the identities to the   *)
(* verdict: identity.pool, wukongim.target, prepare_tokens and             *)
(* prepare_group_channels (units/wukongim, over internal/benchapi),        *)
(* identity.person_pairs, core.static_groups, the session pool or its      *)
(* fakes, traffic.group_send or traffic.send, and report.assert.           *)
(*                                                                         *)
(* The engine runs them one after the other, in any order that respects    *)
(* their inputs, until one fails; it does not look at its context between  *)
(* them. A session is modelled in module SessionPool and the loop of       *)
(* traffic.send in SendTraffic: here a client is there or not, and the     *)
(* messages of traffic.send come to an end in their order.                 *)
(*                                                                         *)
(* Users are numbered as in the pool. A channel is a group or a person.    *)
(***************************************************************************)
EXTENDS Integers, Sequences, FiniteSets

CONSTANT Specs  \* what the scenarios say of their units

\* The fields of the specs of a scenario that matter here, in the types of the code.
\* A rate is in messages of ten seconds and the value of a rule is a fraction.
RuleSpecs == [metric : STRING, op : STRING, value : Int \X (Nat \ {0})]
ScenarioSpecs ==
  [addrs : Nat, gateways : Nat, skipReadiness : BOOLEAN, skipCapabilities : BOOLEAN,
   total : Int, count : Int, members : Int, overlap : STRING, bidirectional : BOOLEAN,
   channels : {"prepared", "static", "pairs"}, sender : {"pool", "fake"},
   traffic : {"send", "group_send"}, pick : STRING, rate : Int, duration : Int,
   rules : Seq(RuleSpecs)]
ASSUME SpecsAssumption == Specs \subseteq ScenarioSpecs

VARIABLES
  spec,      \* the scenario
  ran,       \* the units that have run
  at,        \* the unit that runs, the step it is at and the address it tries
  failed,    \* the unit that failed, or "none"
  cancelled, \* the context of the run is over
  server,    \* what the cluster keeps: users with a token, channels, their members
  targets,   \* the output of the unit that makes the channels
  clients,   \* Pool.clients: the gateway of each user that is connected
  log,       \* history: every message, its target, sender and fate
  summary,   \* the counts of the traffic unit
  verdict    \* the result of report.assert: "none", "passed" or "failed"

workloadVars == <<spec, ran, at, failed, cancelled, server, targets, clients, log, summary,
                  verdict>>

\* The function f, and g where f is not defined.
Overlay(f, g) == [x \in DOMAIN f \cup DOMAIN g |-> IF x \in DOMAIN f THEN f[x] ELSE g[x]]

Idle == [unit |-> "none", step |-> 0, addr |-> 0]

\* The units of the scenario, and the ones each of them comes after: for its
\* inputs, or because the scenario says so (the sessions, after the preparation).
Channels == CASE spec.channels = "prepared" -> "prepare_group_channels"
              [] spec.channels = "static" -> "static_groups"
              [] spec.channels = "pairs" -> "person_pairs"
Sender == IF spec.sender = "pool" THEN "session_pool" ELSE "fake_sender"
Units ==
  {Channels, Sender, "traffic", "assert"}
    \cup (IF Channels = "static_groups" /\ Sender = "fake_sender" THEN {}
          ELSE {"pool", "target", "prepare_tokens"})
Needs(u) ==
  CASE u \in {"prepare_tokens", "prepare_group_channels"} -> {"pool", "target"}
    [] u = "person_pairs" -> {"pool"}
    [] u = "session_pool" -> {"pool", "target", "prepare_tokens", Channels}
    [] u = "traffic" -> {Channels, Sender}
    [] u = "assert" -> {"traffic"}
    [] OTHER -> {}

-----------------------------------------------------------------------------
(* What the units compute.                                                 *)

Users == 0..spec.total - 1

\* buildGroups: consecutive users, or the same first ones in every group.
Required == IF spec.overlap = "disallowed" THEN spec.count * spec.members ELSE spec.members
Member(disjoint, c, m) == IF disjoint THEN (c - 1) * spec.members + m - 1 ELSE m - 1
Groups(disjoint) ==
  [c \in 1..spec.count |->
     [channel |-> <<"group", c>>, senders |-> [m \in 1..spec.members |-> Member(disjoint, c, m)]]]

\* person_pairs: a ring, each pair once or in both directions.
PersonTarget(sender, recipient) == [channel |-> <<"person", recipient>>, senders |-> <<sender>>]
Pairs ==
  LET From(i) == i % spec.total
      To(i) == (i + 1) % spec.total
  IN IF spec.bidirectional
     THEN [k \in 1..2 * spec.count |->
             LET i == (k - 1) \div 2
             IN IF k % 2 = 1 THEN PersonTarget(From(i), To(i)) ELSE PersonTarget(To(i), From(i))]
     ELSE [k \in 1..spec.count |-> PersonTarget(From(k - 1), To(k - 1))]

\* totalMessages: the rate is in messages of ten seconds.
TotalMessages == LET total == (spec.rate * spec.duration + 5) \div 10 IN IF total < 1 THEN 1 ELSE total

\* sendOne and pickSender of the two traffic units, for message k from zero.
TargetOf(k) == (k % Len(targets)) + 1
TurnByMessage(k) == k
Turn(k) == IF spec.traffic = "send" THEN k \div Len(targets) ELSE k
SenderOf(k) ==
  LET senders == targets[TargetOf(k)].senders
  IN IF spec.pick = "round_robin" THEN senders[(Turn(k) % Len(senders)) + 1] ELSE senders[1]

\* Validate of each unit, and what Run looks at before it does anything.
Enough(n) == spec.total >= n
PoolAccepts == spec.total > 0
TargetAccepts == spec.addrs > 0 /\ spec.gateways > 0
GroupsAccept ==
  /\ spec.count > 0 /\ spec.members > 0
  /\ spec.overlap \in {"allowed", "disallowed"} /\ Enough(Required)
StaticAccepts == spec.count > 0 /\ spec.members > 0
PairsAccept == spec.count > 0 /\ Enough(2)
TrafficAccepts == spec.rate > 0 /\ spec.pick \in {"", "first_online", "round_robin"}
AssertAccepts == \A i \in DOMAIN spec.rules : spec.rules[i].metric # "" /\ spec.rules[i].op # ""

CanRun(u) ==
  CASE u = "pool" -> PoolAccepts
    [] u = "target" -> TargetAccepts
    [] u = "prepare_group_channels" -> GroupsAccept
    [] u = "static_groups" -> StaticAccepts
    [] u = "person_pairs" -> PairsAccept
    [] u = "traffic" -> TrafficAccepts
    [] u = "assert" -> AssertAccepts
    [] OTHER -> TRUE

-----------------------------------------------------------------------------
(* The bench API.                                                          *)

\* The calls of a unit on the API, in order.
Probes == (IF spec.skipReadiness THEN <<>> ELSE <<"healthz", "readyz">>)
            \o (IF spec.skipCapabilities THEN <<>> ELSE <<"capabilities">>)
Requests(u) ==
  CASE u = "target" -> Probes
    [] u = "prepare_tokens" -> <<"tokens">>
    [] u = "prepare_group_channels" -> <<"channels", "subscribers">>
    [] OTHER -> <<>>

\* What the cluster keeps of a request: it has the state of the request, and keeps
\* it when the request comes again.
Applied(path) ==
  CASE path = "tokens" -> [server EXCEPT !.tokens = @ \cup Users]
    [] path = "channels" -> [server EXCEPT !.channels = @ \cup {<<"group", c>> : c \in 1..spec.count}]
    [] path = "subscribers" ->
         [server EXCEPT !.members =
            Overlay([g \in {<<"group", c>> : c \in 1..spec.count} |->
                    {Member(spec.overlap = "disallowed", g[2], m) : m \in 1..spec.members}], @)]
    [] OTHER -> server

Asks == at.unit # "none" /\ at.step <= Len(Requests(at.unit))
Path == Requests(at.unit)[at.step]

\* doJSON answers 2xx, and what it answers can be read.
Answered ==
  /\ Asks /\ ~cancelled
  /\ server' = Applied(Path)
  /\ \/ at' = [at EXCEPT !.step = @ + 1, !.addr = 1] /\ UNCHANGED failed
     \/ Path = "capabilities" /\ failed' = at.unit /\ at' = Idle
  /\ UNCHANGED <<spec, ran, cancelled, targets, clients, log, summary, verdict>>

\* getAny and postAny: doJSON fails, though the request may have been applied; the
\* next address is tried, also when it is the context that is over.
GiveUpNever == at' = [at EXCEPT !.step = @ + 1, !.addr = 1] /\ UNCHANGED failed
GiveUp == failed' = at.unit /\ at' = Idle
Unanswered ==
  /\ Asks
  /\ server' \in {server, Applied(Path)}
  /\ IF at.addr < spec.addrs
     THEN at' = [at EXCEPT !.addr = @ + 1] /\ UNCHANGED failed
     ELSE GiveUp
  /\ UNCHANGED <<spec, ran, cancelled, targets, clients, log, summary, verdict>>

-----------------------------------------------------------------------------
(* The units.                                                              *)

WorkloadInit ==
  /\ spec \in Specs /\ ran = {} /\ at = Idle /\ failed = "none" /\ cancelled = FALSE
  /\ server = [tokens |-> {}, channels |-> {}, members |-> <<>>]
  /\ targets = <<>> /\ clients = <<>> /\ log = <<>> /\ summary = [ok |-> 0, errors |-> 0]
  /\ verdict = "none"

Begin(u) ==
  /\ at = Idle /\ failed = "none" /\ u \in Units \ ran /\ Needs(u) \cap Units \subseteq ran
  /\ IF CanRun(u) THEN at' = [unit |-> u, step |-> 1, addr |-> 1] /\ UNCHANGED failed
     ELSE failed' = u /\ UNCHANGED at
  /\ UNCHANGED <<spec, ran, cancelled, server, targets, clients, log, summary, verdict>>

Done == ran' = ran \cup {at.unit} /\ at' = Idle

\* The units that set their output when the API has answered all they asked.
Output ==
  /\ at.unit \notin {"none", "session_pool", "traffic", "assert"} /\ ~Asks
  /\ targets' = CASE at.unit = "prepare_group_channels" -> Groups(spec.overlap = "disallowed")
                  [] at.unit = "static_groups" -> Groups(TRUE)
                  [] at.unit = "person_pairs" -> Pairs
                  [] OTHER -> targets
  /\ Done
  /\ UNCHANGED <<spec, failed, cancelled, server, clients, log, summary, verdict>>

\* session_pool: one client after the other, over the gateways in turn.
Gateway(i) == i % spec.gateways
Connect ==
  /\ at.unit = "session_pool" /\ at.step <= spec.total /\ ~cancelled
  /\ clients' = Overlay(clients, [u \in {at.step - 1} |-> Gateway(u)])
  /\ at' = [at EXCEPT !.step = @ + 1]
  /\ UNCHANGED <<spec, ran, failed, cancelled, server, targets, log, summary, verdict>>

ConnectFails ==
  /\ at.unit = "session_pool" /\ at.step <= spec.total
  /\ clients' = <<>> /\ failed' = at.unit /\ at' = Idle
  /\ UNCHANGED <<spec, ran, cancelled, server, targets, log, summary, verdict>>

Connected ==
  /\ at.unit = "session_pool" /\ at.step > spec.total /\ Done
  /\ UNCHANGED <<spec, failed, cancelled, server, targets, clients, log, summary, verdict>>

\* A message and its sendack. A fake acknowledges every message and looks at no
\* context; a session does not outlive its context.
Reaches(sender) == spec.sender = "fake" \/ sender \in DOMAIN clients
MayAck(sender) == Reaches(sender) /\ (spec.sender = "fake" \/ ~cancelled)
MayFail(sender) == ~Reaches(sender) \/ spec.sender = "pool"

CountOfServer(s, acked, reached) ==
  IF acked THEN [s EXCEPT !.ok = @ + 1] ELSE IF reached THEN [s EXCEPT !.errors = @ + 1] ELSE s
Count(s, acked, reached) == IF acked THEN [s EXCEPT !.ok = @ + 1] ELSE [s EXCEPT !.errors = @ + 1]

Send ==
  /\ at.unit = "traffic" /\ at.step <= TotalMessages
  /\ LET k == at.step - 1
         sender == SenderOf(k)
     IN \E acked \in BOOLEAN :
          /\ acked => MayAck(sender)
          /\ ~acked => MayFail(sender)
          /\ log' = Append(log, [target |-> TargetOf(k), sender |-> sender, acked |-> acked,
                                 reached |-> Reaches(sender)])
          /\ summary' = Count(summary, acked, Reaches(sender))
  /\ at' = [at EXCEPT !.step = @ + 1]
  /\ UNCHANGED <<spec, ran, failed, cancelled, server, targets, clients, verdict>>

\* traffic.send ends with the context; traffic.group_send goes on.
StopsSending ==
  /\ at.unit = "traffic" /\ at.step <= TotalMessages /\ spec.traffic = "send" /\ cancelled
  /\ failed' = at.unit /\ at' = Idle
  /\ UNCHANGED <<spec, ran, cancelled, server, targets, clients, log, summary, verdict>>

Sent ==
  /\ at.unit = "traffic" /\ at.step > TotalMessages /\ Done
  /\ UNCHANGED <<spec, failed, cancelled, server, targets, clients, log, summary, verdict>>

\* metricValue, as a fraction, and compare.
MetricValue(metric) ==
  LET total == summary.ok + summary.errors
  IN CASE metric = "sendack_ok" -> <<summary.ok, 1>>
       [] metric = "sendack_errors" -> <<summary.errors, 1>>
       [] metric = "sendack_error_rate" -> IF total = 0 THEN <<0, 1>> ELSE <<summary.errors, total>>
Compare(got, op, want) ==
  LET l == got[1] * want[2]
      r == want[1] * got[2]
  IN CASE op = "eq" -> l = r
       [] op = "lt" -> l < r
       [] op = "lte" -> l <= r
       [] op = "gt" -> l > r
       [] op = "gte" -> l >= r
       [] OTHER -> FALSE
Metrics == {"sendack_ok", "sendack_errors", "sendack_error_rate"}

\* report.assert: the result is set before the unit fails on it.
Judge ==
  /\ at.unit = "assert"
  /\ IF \E i \in DOMAIN spec.rules : spec.rules[i].metric \notin Metrics
     THEN GiveUp /\ UNCHANGED <<ran, verdict>>
     ELSE IF \A i \in DOMAIN spec.rules :
               Compare(MetricValue(spec.rules[i].metric), spec.rules[i].op, spec.rules[i].value)
          THEN verdict' = "passed" /\ Done /\ UNCHANGED failed
          ELSE verdict' = "failed" /\ GiveUp /\ UNCHANGED ran
  /\ UNCHANGED <<spec, cancelled, server, targets, clients, log, summary>>

CancelRun ==
  /\ ~cancelled /\ cancelled' = TRUE
  /\ UNCHANGED <<spec, ran, at, failed, server, targets, clients, log, summary, verdict>>

WorkloadNext ==
  \/ \E u \in Units : Begin(u)
  \/ Answered \/ Unanswered \/ Output
  \/ Connect \/ ConnectFails \/ Connected
  \/ Send \/ StopsSending \/ Sent \/ Judge
  \/ CancelRun

WorkloadSpec == WorkloadInit /\ [][WorkloadNext]_workloadVars

-----------------------------------------------------------------------------
(* Properties.                                                             *)

\* A message that reaches the server finds there what was prepared for it, over
\* whichever addresses and however often the requests went: the tokens of its
\* sender and, for a group, the channel with its sender among the members; a
\* person is another one, and has a token too (postAny, buildGroups, person_pairs).
PreparedBeforeUse ==
  /\ DOMAIN clients \subseteq server.tokens
  /\ spec.sender = "pool" => \A i \in DOMAIN log :
       LET channel == targets[log[i].target].channel
       IN log[i].reached => CASE spec.channels = "static" -> TRUE
            [] spec.channels = "prepared" ->
                 /\ channel \in server.channels
                 /\ log[i].sender \in server.members[channel]
            [] spec.channels = "pairs" -> channel[2] \in server.tokens \ {log[i].sender}

\* The load is even: over the targets, over the gateways and, where traffic.send
\* takes senders in turn, over the senders of each target; and with overlap
\* disallowed no user loads two groups (sendOne, pickSender, session_pool, buildGroups).
Near(a, b) == a - b \in -1..1
EvenLoad ==
  LET sent(t) == Cardinality({i \in DOMAIN log : log[i].target = t})
      by(t, u) == Cardinality({i \in DOMAIN log : log[i].target = t /\ log[i].sender = u})
      senders(t) == {targets[t].senders[i] : i \in DOMAIN targets[t].senders}
      on(g) == Cardinality({u \in DOMAIN clients : clients[u] = g})
  IN /\ at.unit = "traffic" => \A t, o \in DOMAIN targets : Near(sent(t), sent(o))
     /\ spec.traffic = "send" /\ spec.pick = "round_robin" =>
          \A t \in DOMAIN targets : \A u, v \in senders(t) : Near(by(t, u), by(t, v))
     /\ \A g, o \in 0..spec.gateways - 1 : Near(on(g), on(o))
     /\ spec.channels = "prepared" /\ spec.overlap = "disallowed" =>
          \A t, o \in DOMAIN targets : t # o => senders(t) \cap senders(o) = {}

\* The verdict is the truth about every message of the rate and the duration, also
\* of those without a client and of those after a cancellation; and a run that goes
\* through has passed it (Run of group_send and of report.assert).
VerdictIsTrue ==
  LET acked == Cardinality({i \in DOMAIN log : log[i].acked})
      lost == TotalMessages - acked
      holds(rule) ==
        LET n == CASE rule.metric = "sendack_ok" -> acked [] OTHER -> lost
            d == IF rule.metric = "sendack_error_rate" THEN TotalMessages ELSE 1
            l == n * rule.value[2]
            r == rule.value[1] * d
        IN rule.op \in (IF l < r THEN {"lt", "lte"} ELSE IF l > r THEN {"gt", "gte"}
                        ELSE {"eq", "lte", "gte"})
  IN /\ verdict # "none" =>
          (verdict = "passed" <=> \A i \in DOMAIN spec.rules : holds(spec.rules[i]))
     /\ ran = Units => verdict = "passed" /\ Len(log) = TotalMessages
=============================================================================
