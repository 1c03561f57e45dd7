------------------------------ MODULE UnitRun ------------------------------
(***************************************************************************)
(* What a unit may do to its run environment, and what is left of it when  *)
(* Run has returned: runEnv, metricStore and runArtifactWriter             *)
(* (benchkit/kernel/kernel.go) for a unit in the process of the engine.    *)
(* Module RemoteRun implements it for a unit in a plugin.                  *)
(*                                                                         *)
(* A key of the metrics is a name with its labels. An output is the JSON   *)
(* document its value encodes to. The n-th open of the run has handle n.   *)
(***************************************************************************)
EXTENDS Integers, Sequences

CONSTANTS
  Counters,   \* the keys the unit counts under
  Durations,  \* the keys it observes durations under
  Amounts,    \* what it adds, observes and writes
  Artifacts,  \* the artifacts its definition declares
  Ports,      \* the outputs its definition declares
  Documents   \* what it may output

VARIABLES
  status,    \* "running", "ok" or "failed"
  metrics,   \* metricStore.items
  files,     \* the artifact writers, in the order they were opened
  recorded,  \* the size in the result of each artifact
  outputs    \* the outputs of the unit in the outputStore

vars == <<status, metrics, files, recorded, outputs>>

\* metricStore.addCounter: the item of the key, made at the first count.
AddCounter(items, key, delta) ==
  LET item == IF key \in DOMAIN items THEN items[key]
              ELSE [count |-> 0, sum |-> 0, min |-> 0, max |-> 0]
  IN [k \in DOMAIN items \cup {key} |->
        IF k # key THEN items[k]
        ELSE [count |-> item.count + 1, sum |-> item.sum + delta,
              min |-> item.min, max |-> item.max]]

\* metricStore.observeDuration.
AddDuration(items, key, value) ==
  LET item == IF key \in DOMAIN items THEN items[key]
              ELSE [count |-> 0, sum |-> 0, min |-> value, max |-> value]
  IN [k \in DOMAIN items \cup {key} |->
        IF k # key THEN items[k]
        ELSE [count |-> item.count + 1, sum |-> item.sum + value,
              min |-> IF value < item.min THEN value ELSE item.min,
              max |-> IF value > item.max THEN value ELSE item.max]]

\* percentileNearestRank: the rank of a percentile among n sorted samples.
NearestRank(n, percent) ==
  LET rank == (percent * n + 99) \div 100
  IN CASE rank < 1 -> 1 [] rank > n -> n [] OTHER -> rank

OpenHandles == {h \in DOMAIN files : files[h].open}

Init ==
  /\ status = "running" /\ metrics = <<>> /\ files = <<>>
  /\ recorded = <<>> /\ outputs = <<>>

EmitCounter(key, delta) ==
  /\ status = "running" /\ metrics' = AddCounter(metrics, key, delta)
  /\ UNCHANGED <<status, files, recorded, outputs>>

ObserveDuration(key, value) ==
  /\ status = "running" /\ metrics' = AddDuration(metrics, key, value)
  /\ UNCHANGED <<status, files, recorded, outputs>>

\* OpenArtifact: one that fails has changed nothing.
OpenArtifact(name) ==
  /\ status = "running"
  /\ files' = Append(files, [name |-> name, size |-> 0, open |-> TRUE])
  /\ UNCHANGED <<status, metrics, recorded, outputs>>

\* runArtifactWriter.Write: n is what the file took.
Write(h, n) ==
  /\ status = "running" /\ h \in OpenHandles
  /\ files' = [files EXCEPT ![h].size = @ + n]
  /\ UNCHANGED <<status, metrics, recorded, outputs>>

\* runArtifactWriter.Close and recordArtifact.
Close(h) ==
  /\ status = "running" /\ h \in OpenHandles
  /\ files' = [files EXCEPT ![h].open = FALSE]
  /\ recorded' = [n \in DOMAIN recorded \cup {files[h].name} |->
                    IF n = files[h].name THEN files[h].size ELSE recorded[n]]
  /\ UNCHANGED <<status, metrics, outputs>>

SetOutput(port, document) ==
  /\ status = "running"
  /\ outputs' = [p \in DOMAIN outputs \cup {port} |->
                   IF p = port THEN document ELSE outputs[p]]
  /\ UNCHANGED <<status, metrics, files, recorded>>

\* What the result says of an artifact is the size of one of its files.
Truthful ==
  \A n \in DOMAIN recorded' : \E h \in DOMAIN files' :
     /\ files'[h].name = n /\ files'[h].size = recorded'[n] /\ ~files'[h].open

\* Run returns without an error: nothing the unit did is lost. The handles it
\* left open stay open here, and are closed for a unit in a plugin.
Return ==
  /\ status = "running" /\ status' = "ok"
  /\ \/ UNCHANGED <<files, recorded>>
     \/ /\ files' = [h \in DOMAIN files |-> [files[h] EXCEPT !.open = FALSE]]
        /\ DOMAIN recorded' = {files[h].name : h \in DOMAIN files} /\ Truthful
        /\ \A n \in DOMAIN recorded : (\A h \in OpenHandles : files[h].name # n)
                                         => recorded'[n] = recorded[n]
  /\ UNCHANGED <<metrics, outputs>>

\* Run returns an error: nothing is made up. In this process nothing is lost
\* either; a plugin takes with it what it has not yet sent.
Fail ==
  /\ status = "running" /\ status' = "failed"
  /\ metrics' \in {metrics, <<>>}
  /\ DOMAIN outputs' \subseteq DOMAIN outputs
  /\ \A p \in DOMAIN outputs' : outputs'[p] = outputs[p]
  /\ DOMAIN files' = DOMAIN files
  /\ \A h \in DOMAIN files : files'[h].name = files[h].name /\ files'[h].size <= files[h].size
  /\ Truthful

Next ==
  \/ \E key \in Counters, n \in Amounts : EmitCounter(key, n)
  \/ \E key \in Durations, n \in Amounts : ObserveDuration(key, n)
  \/ \E name \in Artifacts : OpenArtifact(name)
  \/ \E h \in OpenHandles, n \in Amounts : Write(h, n)
  \/ \E h \in OpenHandles : Close(h)
  \/ \E port \in Ports, document \in Documents : SetOutput(port, document)
  \/ Return \/ Fail

Spec == Init /\ [][Next]_vars
=============================================================================
