---------------------------- MODULE MCRemoteRun ----------------------------
EXTENDS RemoteRun

CONSTANTS count, latency, log, small, large, bad, stray

Port(name, sensitive, reportable, max, boundary) ==
  [name |-> name, type |-> "t", boundary |-> boundary, transport |-> "", encodings |-> {"json"},
   max |-> max, sensitive |-> sensitive, reportable |-> reportable, optional |-> FALSE]

MCSize == (small :> 1) @@ (large :> 3)
MCOutputs == <<Port("summary", FALSE, TRUE, 2, ""), Port("token", TRUE, TRUE, 0, "data")>>
MCInputDefs ==
  {[Port("in", sensitive, FALSE, max, boundary) EXCEPT !.optional = sensitive] :
     sensitive \in BOOLEAN, max \in {0, 1}, boundary \in {"", "runtime"}}
============================================================================
