----------------------------- MODULE MCWorkload -----------------------------
(* Instances of Workload for TLC: each of the examples of the repository, small, *)
(* and specs at the limits of what the units accept.                             *)
EXTENDS Workload

Rule(metric, op, num, den) == [metric |-> metric, op |-> op, value |-> <<num, den>>]
NoErrors == <<Rule("sendack_error_rate", "eq", 0, 1)>>

Group == [addrs |-> 2, gateways |-> 2, skipReadiness |-> FALSE, skipCapabilities |-> FALSE,
          total |-> 4, count |-> 2, members |-> 2, overlap |-> "disallowed", bidirectional |-> FALSE,
          channels |-> "prepared", sender |-> "pool", traffic |-> "group_send",
          pick |-> "round_robin", rate |-> 20, duration |-> 2, rules |-> NoErrors]
Mixed == [Group EXCEPT !.traffic = "send", !.rate = 25]
Person == [Mixed EXCEPT !.channels = "pairs", !.bidirectional = TRUE, !.total = 3, !.gateways = 3]
Dry == [Group EXCEPT !.channels = "static", !.sender = "fake"]
Loose == [Group EXCEPT !.skipReadiness = TRUE, !.addrs = 1]

MCSpecs ==
  {Group, Mixed, Person, Dry, [Person EXCEPT !.bidirectional = FALSE, !.count = 4],
   [Mixed EXCEPT !.overlap = "allowed", !.pick = "first_online", !.skipCapabilities = TRUE],
   [Dry EXCEPT !.channels = "prepared", !.traffic = "send"]}
  \cup {[Person EXCEPT !.total = n, !.addrs = 1] : n \in 0..2}
  \cup {[Loose EXCEPT !.total = n, !.overlap = o, !.count = 3] : n \in {1, 5, 6}, o \in {"allowed", "disallowed", "x"}}
  \cup {[Dry EXCEPT !.rate = n, !.duration = 1, !.pick = p, !.count = c] :
          n \in {0, 1, 14, 15}, p \in {"", "x"}, c \in {0, 3}}
  \cup {[Loose EXCEPT !.channels = "static", !.total = 3, !.rules = <<Rule(m, o, n, 2)>>] :
          m \in Metrics \cup {"", "p99"}, o \in {"eq", "lt", "lte", "gt", "gte", "", "ne"}, n \in {1, 6}}
  \cup {[Loose EXCEPT !.addrs = 0], [Loose EXCEPT !.gateways = 0]}
=============================================================================
