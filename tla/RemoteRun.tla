----------------------------- MODULE RemoteRun -----------------------------
(***************************************************************************)
(* The run of a foreground unit in a plugin, and the run that takes one of *)
(* its outputs: remoteRunEnv and handleRun (sdk/go/wkbench/plugin/         *)
(* server.go) over the aggregates of TestRunEnv (benchkit/contract/        *)
(* types.go), the host's side of the call (StdioClient.Run and             *)
(* runArtifactState, benchkit/pluginhost/stdio_client.go), its runEnv      *)
(* (benchkit/kernel/kernel.go) and the wrapper of the next unit            *)
(* (remote_unit.go).                                                       *)
(*                                                                         *)
(* The frames of the call are in order in the pipe. The host may lag       *)
(* behind the unit, except when the unit asks for an answer. What the      *)
(* plugin does after the host has given the call up is in module           *)
(* PluginHost.                                                             *)
(***************************************************************************)
EXTENDS Integers, Sequences, FiniteSets, SequencesExt

CONSTANTS
  Counters, Durations, Amounts, Artifacts, Documents,  \* as in UnitRun
  Size,        \* the length of each document
  Unencodable, \* a value that has no JSON
  Outputs,     \* the definitions of the outputs, in order
  StrayPort,   \* an output that is not declared
  InputDefs,   \* the definitions an input of the next unit may have
  ChunkMax,    \* artifactChunkMaxBytes
  DefaultMax,  \* DefaultInlinePortMaxPayloadBytes
  MaxEffort    \* bound: values emitted, outputs set, artifacts opened and bytes in them

\* PortDef.
PortDefs == [name : STRING, type : STRING, boundary : STRING, transport : STRING,
             encodings : SUBSET STRING, max : Nat,
             sensitive : BOOLEAN, reportable : BOOLEAN, optional : BOOLEAN]
ASSUME OutputsAssumption == Outputs \in Seq(PortDefs) /\ InputDefs \subseteq PortDefs
ASSUME AmountsAssumption == Amounts \subseteq Nat
ASSUME SizeAssumption == Size \in [Documents -> Nat]
ASSUME ChunkAssumption == ChunkMax \in Nat \ {0}

VARIABLES
  pc,        \* the unit in the plugin: "run", "ask" (for an answer), "outputs"
             \* (writeOutputs) or "gone"
  env,       \* remoteRunEnv: the metrics and the outputs kept in the plugin
  looked,    \* writeOutputs: how many outputs it has looked at
  pipe,      \* the frames of the call on their way to the host
  result,    \* StdioClient.Run: "running", "ok" or "failed"
  metrics, files, recorded,  \* the host's runEnv, as in UnitRun
  outputs,   \* outputStore: the document of each output, and whether it is reported
  given      \* the next run: nothing yet, a refusal, or what its request holds

vars == <<pc, env, looked, pipe, result, metrics, files, recorded, outputs, given>>

Ports == {def.name : def \in ToSet(Outputs)}
DefOf(p) == CHOOSE def \in ToSet(Outputs) : def.name = p
OpenHandles == {h \in DOMAIN files : files[h].open}
Put(f, x, y) == [z \in DOMAIN f \cup {x} |-> IF z = x THEN y ELSE f[z]]

-----------------------------------------------------------------------------
(* The aggregates of the plugin and how the host takes them over.          *)

\* TestRunEnv.EmitCounter.
EmitCounter(items, key, delta) ==
  LET old == IF key \in DOMAIN items THEN items[key]
             ELSE [count |-> 0, sum |-> 0, min |-> 0, max |-> 0]
  IN Put(items, key, [count |-> old.count + 1, sum |-> old.sum + delta,
                      min |-> old.min, max |-> old.max])

\* TestRunEnv.ObserveDuration.
ObserveDuration(items, key, value) ==
  LET old == IF key \in DOMAIN items THEN items[key]
             ELSE [count |-> 0, sum |-> 0, min |-> value, max |-> value]
  IN Put(items, key, [count |-> old.count + 1, sum |-> old.sum + value,
                      min |-> IF value < old.min THEN value ELSE old.min,
                      max |-> IF value > old.max THEN value ELSE old.max])

\* metricStore.recordSnapshot, for a key it has or has not.
Record(item, s, duration) ==
  LET first == item.count = 0
  IN [count |-> item.count + s.count, sum |-> item.sum + s.sum,
      min |-> IF duration /\ (first \/ item.min = 0 \/ s.min < item.min) THEN s.min ELSE item.min,
      max |-> IF duration /\ (first \/ s.max > item.max) THEN s.max ELSE item.max]

\* applyMetricFlush: every snapshot that counts something is recorded.
Merged(items, snapshots) ==
  [key \in DOMAIN items \cup DOMAIN snapshots |->
     IF key \notin DOMAIN snapshots THEN items[key]
     ELSE Record(IF key \in DOMAIN items THEN items[key]
                 ELSE [count |-> 0, sum |-> 0, min |-> 0, max |-> 0],
                 snapshots[key], key \in Durations)]

-----------------------------------------------------------------------------
(* The unit in the plugin.                                                 *)

Init ==
  /\ pc = "run" /\ looked = 0 /\ env = [metrics |-> <<>>, outputs |-> <<>>] /\ pipe = <<>>
  /\ result = "running" /\ metrics = <<>> /\ files = <<>> /\ recorded = <<>>
  /\ outputs = <<>> /\ given = [got |-> "nothing"]

hostVars == <<result, metrics, files, recorded, outputs, given>>

\* The bytes for a handle in a sequence of frames, each by its frame and its place there,
\* and those a file will have when the host has caught up.
Bytes(h, frames) ==
  UNION {{i} \X (1..frames[i].n) : i \in {j \in DOMAIN frames : frames[j].t = "chunk" /\ frames[j].h = h}}
Coming(h) == Cardinality(Bytes(h, pipe))
Written(h) == files[h].size + Coming(h)

\* What the unit has done so far.
Effort ==
  FoldSet(LAMBDA k, n : n + env.metrics[k].count, 0, DOMAIN env.metrics)
    + Cardinality(DOMAIN env.outputs)
    + FoldSet(LAMBDA h, n : n + 1 + Written(h), 0, DOMAIN files)

UnitEmits ==
  /\ pc # "gone" /\ result = "running" /\ Effort < MaxEffort
  /\ \E n \in Amounts :
       \/ \E key \in Counters : env' = [env EXCEPT !.metrics = EmitCounter(@, key, n)]
       \/ \E key \in Durations : env' = [env EXCEPT !.metrics = ObserveDuration(@, key, n)]
  /\ UNCHANGED <<pc, looked, pipe, hostVars>>

\* remoteRunEnv.OpenArtifact, up to the wait for the answer.
UnitOpens(name) ==
  /\ pc = "run" /\ result = "running" /\ Effort < MaxEffort
  /\ pipe' = Append(pipe, [t |-> "open", name |-> name]) /\ pc' = "ask"
  /\ UNCHANGED <<env, looked, hostVars>>

\* remoteArtifactWriter.Write: nobody answers a chunk.
ChunksWhole(h, n) == [i \in 1..(n \div ChunkMax) |-> [t |-> "chunk", h |-> h, n |-> ChunkMax]]
Chunks(h, n) ==
  [i \in 1..((n + ChunkMax - 1) \div ChunkMax) |->
     [t |-> "chunk", h |-> h, n |-> IF i * ChunkMax > n THEN n % ChunkMax ELSE ChunkMax]]

UnitWrites(h, n) ==
  /\ pc = "run" /\ result = "running" /\ h \in OpenHandles /\ Effort + n <= MaxEffort
  /\ pipe' = pipe \o Chunks(h, n)
  /\ UNCHANGED <<pc, env, looked, hostVars>>

\* remoteArtifactWriter.Close and closeArtifact.
UnitCloses(h) ==
  /\ pc = "run" /\ result = "running" /\ h \in OpenHandles
  /\ pipe' = Append(pipe, [t |-> "close", h |-> h]) /\ pc' = "ask"
  /\ UNCHANGED <<env, looked, hostVars>>

UnitSetsOutput(p, v) ==
  /\ pc = "run" /\ result = "running" /\ (p \in DOMAIN env.outputs \/ Effort < MaxEffort)
  /\ env' = [env EXCEPT !.outputs = Put(@, p, v)]
  /\ UNCHANGED <<pc, looked, pipe, hostVars>>

\* An output of which the plugin sends a report, and the host keeps one.
Reported(p) == DefOf(p).reportable /\ ~DefOf(p).sensitive

\* Run has returned without an error, to handleRun.
UnitReturns ==
  /\ pc = "run" /\ result = "running" /\ pc' = "outputs"
  /\ UNCHANGED <<env, looked, pipe, hostVars>>

\* writeOutputs: the next output of the definition, if it is set. One that
\* cannot be encoded ends the run.
PluginWritesOutput ==
  /\ pc = "outputs" /\ result = "running" /\ looked < Len(Outputs)
  /\ looked' = looked + 1
  /\ LET p == Outputs[looked + 1].name
     IN IF p \notin DOMAIN env.outputs THEN UNCHANGED <<pc, pipe>>
        ELSE IF env.outputs[p] = Unencodable THEN pipe' = Append(pipe, [t |-> "error"]) /\ pc' = "gone"
        ELSE /\ pipe' = Append(pipe, [t |-> "output", port |-> p, doc |-> env.outputs[p],
                                      reported |-> Reported(p)])
             /\ UNCHANGED pc
  /\ UNCHANGED <<env, hostVars>>

\* flushRunEnvMetrics, when there are metrics, and the response.
LastFrames ==
  IF DOMAIN env.metrics = {} THEN <<[t |-> "done"]>>
  ELSE <<[t |-> "flush", metrics |-> env.metrics], [t |-> "done"]>>

PluginAnswers ==
  /\ pc = "outputs" /\ result = "running" /\ looked = Len(Outputs)
  /\ pipe' = pipe \o LastFrames /\ pc' = "gone"
  /\ UNCHANGED <<env, looked, hostVars>>

UnitFails ==
  /\ pc = "run" /\ result = "running"
  /\ pipe' = Append(pipe, [t |-> "error"]) /\ pc' = "gone"
  /\ UNCHANGED <<env, looked, hostVars>>

-----------------------------------------------------------------------------
(* The host: StdioClient.Run and handleRunLifecycleFrame.                  *)

Arrives(t) == result = "running" /\ pipe # <<>> /\ Head(pipe).t = t

\* runArtifactState.open and runEnv.OpenArtifact.
HostOpens ==
  /\ Arrives("open") /\ pipe' = Tail(pipe) /\ pc' = "run"
  /\ files' = Append(files, [name |-> Head(pipe).name, size |-> 0, open |-> TRUE])
  /\ UNCHANGED <<env, looked, result, metrics, recorded, outputs, given>>

\* runArtifactState.write and runArtifactWriter.Write.
HostWrites ==
  /\ Arrives("chunk") /\ pipe' = Tail(pipe)
  /\ files' = [files EXCEPT ![Head(pipe).h].size = @ + Head(pipe).n]
  /\ UNCHANGED <<pc, env, looked, result, metrics, recorded, outputs, given>>

\* runArtifactState.close, runArtifactWriter.Close and recordArtifact.
HostCloses ==
  /\ Arrives("close") /\ pipe' = Tail(pipe) /\ pc' = "run"
  /\ LET h == Head(pipe).h
     IN /\ files' = [files EXCEPT ![h].open = FALSE]
        /\ recorded' = Put(recorded, files[h].name, files[h].size)
  /\ UNCHANGED <<env, looked, result, metrics, outputs, given>>

\* setOutputFromFrame and runEnv.SetOutput.
HostSetsOutput ==
  /\ Arrives("output") /\ pipe' = Tail(pipe)
  /\ outputs' = Put(outputs, Head(pipe).port,
                    [doc |-> Head(pipe).doc, reported |-> Head(pipe).reported])
  /\ UNCHANGED <<pc, env, looked, result, metrics, files, recorded, given>>

HostFlushes ==
  /\ Arrives("flush") /\ pipe' = Tail(pipe)
  /\ metrics' = Merged(metrics, Head(pipe).metrics)
  /\ UNCHANGED <<pc, env, looked, result, files, recorded, outputs, given>>

\* runArtifactState.closeAll, deferred by Run: in any order.
CloseAll(writers) ==
  LET left == {h \in DOMAIN writers : writers[h].open}
      names == {writers[h].name : h \in left}
  IN /\ files' = [h \in DOMAIN writers |-> [writers[h] EXCEPT !.open = FALSE]]
     /\ \E last \in [names -> left] :
          /\ \A n \in names : writers[last[n]].name = n
          /\ recorded' = [n \in DOMAIN recorded \cup names |->
                            IF n \in names THEN writers[last[n]].size ELSE recorded[n]]
LeaveOpen(writers) == files' = writers /\ UNCHANGED recorded
Leave(writers) == CloseAll(writers)

HostReturns ==
  /\ Arrives("done") /\ pipe' = Tail(pipe) /\ result' = "ok" /\ Leave(files)
  /\ UNCHANGED <<pc, env, looked, metrics, outputs, given>>

\* The plugin reports an error, the context of the run is over, the plugin is
\* gone, or an artifact cannot be opened or closed: nobody waits for the frames
\* that are left. ...
HostFails ==
  /\ result = "running" /\ result' = "failed" /\ Leave(files) /\ pipe' = <<>>
  /\ UNCHANGED <<pc, env, looked, metrics, outputs, given>>

\* ... or takes only a part of a chunk.
WriteFails ==
  /\ Arrives("chunk") /\ pipe' = <<>> /\ result' = "failed"
  /\ \E n \in 0..Head(pipe).n - 1 : Leave([files EXCEPT ![Head(pipe).h].size = @ + n])
  /\ UNCHANGED <<pc, env, looked, metrics, outputs, given>>

-----------------------------------------------------------------------------
(* The unit that takes an output, also in a plugin.                        *)

\* PortDef.Metadata.
Metadata(def) ==
  [def EXCEPT !.boundary = IF @ = "" THEN "data" ELSE @,
              !.transport = IF @ = "" THEN "inline" ELSE @,
              !.max = IF @ = 0 THEN DefaultMax ELSE @]

\* validatePhase1InputPort.
Crosses(def) ==
  LET meta == Metadata(def)
  IN /\ meta.boundary = "data" /\ meta.transport = "inline" /\ ~meta.sensitive
     /\ meta.encodings = {} \/ "json" \in meta.encodings

\* encodeInputPortValues, with what InputSourcePort says of the output.
EncodesByConsumer(p, def, doc) == Crosses(def) /\ Size[doc] <= Metadata(def).max
Encodes(p, def, doc) ==
  /\ Crosses(def) /\ Size[doc] <= Metadata(def).max
  /\ DefOf(p).type = def.type
  /\ Crosses(DefOf(p)) /\ Size[doc] <= Metadata(DefOf(p)).max

\* RemoteUnit.Run up to the request: an input that is not there may be optional.
NextUnitRuns(p, def) ==
  /\ result = "ok" /\ given.got = "nothing" /\ DefOf(p).type = def.type
  /\ given' = IF p \in DOMAIN outputs
              THEN IF Encodes(p, def, outputs[p].doc)
                   THEN [got |-> "input", port |-> p, doc |-> outputs[p].doc]
                   ELSE [got |-> "refused"]
              ELSE [got |-> IF def.optional THEN "no input" ELSE "refused"]
  /\ UNCHANGED <<pc, env, looked, pipe, result, metrics, files, recorded, outputs>>

Next ==
  \/ UnitEmits \/ UnitReturns \/ UnitFails \/ PluginWritesOutput \/ PluginAnswers
  \/ \E name \in Artifacts : UnitOpens(name)
  \/ \E h \in OpenHandles, n \in Amounts : UnitWrites(h, n)
  \/ \E h \in OpenHandles : UnitCloses(h)
  \/ \E p \in Ports \cup {StrayPort}, v \in Documents \cup {Unencodable} : UnitSetsOutput(p, v)
  \/ HostOpens \/ HostWrites \/ HostCloses \/ HostSetsOutput \/ HostFlushes
  \/ HostReturns \/ HostFails \/ WriteFails
  \/ \E p \in Ports, def \in InputDefs : NextUnitRuns(p, def)

Spec == Init /\ [][Next]_vars

-----------------------------------------------------------------------------
(* Properties.                                                             *)

\* No handle of the run is left open, and every artifact that was opened is in
\* the result, whether the run succeeds or fails (closeAll).
NothingLeftOpen ==
  result # "running" => /\ OpenHandles = {}
                        /\ DOMAIN recorded = {files[h].name : h \in DOMAIN files}

\* A value of a sensitive output is not reported and not sent to a plugin,
\* though the input it is wired to does not say that it is sensitive
\* (writeOutputs, setOutputFromFrame, encodeInputPortValues).
SecretsStay ==
  /\ \A p \in DOMAIN outputs : outputs[p].reported => ~DefOf(p).sensitive
  /\ given.got = "input" => ~DefOf(given.port).sensitive

\* A run in a plugin is a run in the process of the engine: its metrics, the
\* sizes of its artifacts and its outputs are those of the calls the unit made,
\* and a run that fails makes nothing up. Until the host has caught up, what is
\* in the plugin and in the pipe counts.
MetricsSeen == IF result = "running" THEN env.metrics ELSE metrics
FilesSeen ==
  [h \in DOMAIN files |->
     [files[h] EXCEPT !.size = IF result = "running" THEN Written(h) ELSE @]]
OutputsSeen ==
  IF result = "running" THEN [p \in DOMAIN env.outputs \cap Ports |-> env.outputs[p]]
  ELSE [p \in DOMAIN outputs |-> outputs[p].doc]
LocalRun == INSTANCE UnitRun WITH
  status <- result, Documents <- Documents \cup {Unencodable},
  metrics <- MetricsSeen, files <- FilesSeen, outputs <- OutputsSeen
RunsAsLocal == LocalRun!Spec
=============================================================================
