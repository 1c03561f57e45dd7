# A verification of wkbench

wkbench runs a scenario: a graph of units that prepare data, drive traffic and
collect metrics. Some units are in the program, most in plugin processes it
talks to over stdin and stdout. This directory holds TLA+ models of the parts of
wkbench where several goroutines or processes meet, what TLC finds of them on
small instances, and proofs for every instance. All paths are relative to
`src/`.

## The system

| part | state | operations | talks to |
|---|---|---|---|
| kernel (`benchkit/kernel/kernel.go`) | result, active background tasks, their monitors, the channel `backgroundErrors`, `fatalBackgrounds`, outputs, metrics | `Engine.Plan`, `Engine.Run`, `stopBackgrounds`, `outputStore.cleanup`, `metricStore` | units through `contract.RunUnit` and `contract.BackgroundUnit` |
| plugin host (`benchkit/pluginhost/stdio_client.go`, `remote_unit.go`) | request waiters, remote tasks by task id and by start request, artifact handles, closed/wait state | `Validate`, `Plan`, `Run`, `Start`, `Stop`, the read pump, `shutdown`, `Close` | the kernel (as units) and a plugin process (frames) |
| plugin SDK server (`sdk/go/wkbench/plugin/server.go`) | task records, one monitor goroutine per task | `Serve`, `handleStart`, `handleStop`, monitors, events | the host (frames) and the plugin's units |
| protocol (`benchkit/protocol`) | none | length-prefixed protobuf frames | host and server |
| command line (`cmd/wkbench`, `benchkit/registry`) | the plugin config file, the plugin processes, the registry of kinds, the clients to close, the exit code | the engine commands, `plugin add`, `list`, `doctor`, `inspect`, `check`; loading of official and external plugins | host client, kernel, report |
| scenario graph (`buildGraph`, `resolveInput`, `topoSort` in the kernel, `benchkit/registry`) | graph, order | `Engine.Validate`, `Explain`, `Plan`, the start of `Run` | kernel, units |
| run environment of a unit (`runEnv`, `metricStore`, `outputStore` in the kernel; `remoteRunEnv` in the server; `TestRunEnv` in `benchkit/contract`) | metrics, artifact writers, outputs | counters, durations, artifacts, outputs, inputs | a unit, in the process of the engine or in a plugin |
| traffic (`units/traffic/send`, `group_send`) | in-flight sends, counters | the send loop, one goroutine per message | session pool |
| session pool (`units/wkproto/session_pool`) | a connection and an operation lock (`opMu`) per user | connect, `SendAndWaitAck`, close | traffic, and the server under test |
| metrics collector (`units/wukongim/metrics_collector`) | samples, artifact, `done`, `stopped` | scrape loop, `Stop`, finalisation | kernel, as a background unit |
| data, preparation and assertion units (`units/identity`, `core`, `wukongim`, `report`) | their outputs, and what the cluster keeps | one pass each; the bench API with its addresses | the engine, the WuKongIM cluster |
| report, DSL, scaffolding | none that outlives a call | one pass | |

What is hard here is the life of a background task. It runs beside the
foreground units, may fail at any moment, must be stopped and flushed before the
outputs are closed, and its failure has to end the run and be blamed on it and
on nothing else. Three goroutines of the kernel, two of the server and the read
pump of the host pass its `Done` value along, and each hand-over is a race. Next
come the run of a foreground unit in a plugin, whose metrics, artifacts and outputs
reach the engine in frames and must be those of a run in the engine's own process,
and a failure of one of several plugins while they are loaded.

What makes each part correct:

* kernel: no failure is lost and none is blamed on another unit; everything
  started is stopped before the outputs go; the run's status and the units'
  results agree; a failure ends the run; the shutdown ends.
* server: one event per task, true, never missing, never after the record is
  gone; a failed stop can be tried again; metrics are flushed once.
* host: every call gets its own answer; a task's `Done` completes exactly once;
  a failure of one call does not take down the others without need; nothing
  blocks when the plugin dies.
* traffic and session pool: every send is counted once; acknowledgements go to
  the send that waits for them; closing wakes everybody.
* collector: the summary and the artifact are written once, after the last
  sample; `Stop` and the end of the loop may come in either order.
* graph: wiring never guesses; the order respects every dependency and is complete; a
  scenario is refused only when it has no order.
* run of a remote unit: what the engine keeps is what the unit did; nothing is left
  open; no secret leaves its process.
* command line: no plugin survives its command; a configured plugin is found from
  everywhere; a kind means the same whatever the order of the plugins.
* data and preparation units: what a message needs is on the cluster before it is sent,
  the load is even, and the verdict is about every message.

The hazards, at their lines, are listed in `PROJECT.json`.

## Plan

Done, in this order (M for model-checked, P for proved):

1. `Kernel` (M, P in `KernelProofs`): the loop of the engine and its background tasks.
2. `PluginServer` (M, P in `PluginServerProofs`): the server side of background tasks.
3. `PluginHost` (M, P in `PluginHostProofs`): the host side of background tasks.
4. `SessionPool` (M, P in `SessionPoolProofs`), `SendTraffic` (M, P in `TrafficProofs`),
   `MetricsCollector` (M, P in `MetricsCollectorProofs`).
5. `ScenarioGraph` (M), which implements `UnitOrder`, and `Command` on top of it (M): one
   module extends the other, so that a command really calls the engine. Both are proved in
   `CommandProofs`.
6. `RemoteRun` (M, P in `RemoteRunProofs`), which implements `UnitRun`.
7. `Workload` (M, P in `TrafficProofs`): the units of a benchmark one after the other.

8. `BackgroundTask`, what the kernel may expect of a task, which `MetricsCollector` implements (P).

Left: host and server together as one task. It is a weaker one: the host completes `Done` itself when a
call fails or the plugin is lost, while the worker may go on in the plugin, so `Done` does not
say there that the worker has exited. What it does say is `NilIsEarned`, `FatalIsKept` and `NoOrphan`.

## Kernel.tla: `Engine.Run`

Units are numbers, their place in `graph.order`. The engine is one process with
a program counter: `loop`, `validate`, `plan`, `exec` and `run` are the points of
the loop over the units, `stop` to `record` the points of `stopBackgrounds`,
`cleanup` is `outputStore.cleanup`. A call of a unit is one action, with the
code up to the engine's next look at shared state: that is enough
because the only state it shares with the monitors is `backgroundErrors`
(`posted`), the monitors' exits, and the run context.

A monitor waits on its task's `Done` (`watching`), posts the error it got
(`posting`), cancels the run context (`cancelling`) and exits; or it is told to
stop. The `select`s of the code are disjuncts: any ready case may be taken, and a
timer may fire at any time while it is awaited. `TaskEnds` puts an error on
`Done` or closes it, whenever the task likes. A unit's call returns success, an
error of its own, or an error because its context is cancelled; `blame` is a
history variable that remembers which.

`posted` is a set because a task posts at most one error; the capacity of the
channel stays as the guard of `MonitorPosts`. Metrics, artifacts, timelines,
times and error texts are left out.

Runs:

* `kernel`: four units, of which 1 and 3 are background ones: a background failure can
  come before, during and after a foreground unit, two tasks are stopped in reverse
  order, and one starts with another running. Every call may fail, every task may end at
  any point, the caller may cancel. No bound cuts a behaviour: the state space is finite.
  `NoLostFatal`, `OwnBlame`, `QuietBeforeCleanup` and `StatusAgrees` hold; that no result is
  rewritten (`VerdictsStand`) and that no monitor blocks on `backgroundErrors` (`PostHasRoom`)
  is proved only.

The run also checks `FailureEndsRun` and `ShutdownCompletes`, which hold under
`Fairness`: the engine's goroutine and the monitors take a step they can take, and every
call but a foreground `Run` returns. A `Run` has to return only once its context is cancelled, which is
what the engine relies on (it has nothing else to end a unit with); no task ever
has to complete `Done`.

## PluginServer.tla: the SDK server

`Serve` handles one request at a time; `serve` is where it is, `on` the task the
request is about. `handleStop` is split at every place where the monitor of the
task can do something in between: `stopping` (the task's own `Stop` runs), `outputs`,
`metrics`, `respond`, then the flush of a ready event (`flush`, `observe`, `emit`,
`write`), then `close` and `join`. The monitor runs through the same `observe`,
`emit`, `write`; the two share `observeBackgroundDone` and
`emitObservedBackgroundEvent`, whose locked sections are `ObserveDone` and
`ShouldEmit`.

A `Done` channel is what the task has put on it (`buf`) and whether it is closed.
A task sends at most one value, may close, may do both, may do neither.
`sent[t]` is the log of the frames written for `t`, by kind; frames of other
requests do not appear (Validate, Plan, Run, Handshake and ListUnits are the one
state `busy`). `pipe` is the reader at the other end: when it is gone every write
fails, Serve returns and the process ends. `early` and `said` are histories.

The run of a foreground unit, one request here, is the subject of `RemoteRun`. A task that
opens an artifact outside `Start` would read stdin together with Serve; the only background
unit of the repository opens its artifact in `Start`, so that race is left out.

Runs:

* `plugin_server`: two tasks. The first is asked to stop up to twice (`MaxStops`, the only
  bound: the second request is what meets a task after a failed stop or after its
  removal; a third meets nothing new), the second never: it starts, runs and ends while
  Serve starts or stops the other. The tasks share nothing but Serve and the pipe.
  `Fairness`: Serve and the monitors take steps they can take. No unit has to return from
  `Start`, `Stop` or `Run`, so `EndEventually` says that an end is reported even while Serve
  is stuck in another unit's call.
* `plugin_server_fatal`: violated. See below.

### A fatal error reported as "completed"

`FatalIsReported` says that an error a task put on `Done` before the flush of its
stop reaches the host as `fatal_error`. The design
(`docs/superpowers/specs/2026-06-04-wkbench-remote-background-lifecycle-design.md:245`)
says so of every `Done` error. TLC finds that it can be lost when the task closes
`Done` after the error, as `metrics_collector/collector.go:122-124` does: the
monitor and `flushReadyBackgroundEvent` each receive one value, the error and the
nil of the closed channel, and `observeBackgroundDone` keeps whichever is recorded
first (`server.go:397`). For a task that does not close, or closes without an
error, `EndIsReported` holds.

## PluginHost.tla: the host's client

Three parties share one state. The caller is the goroutine of `Engine.Run`: one call
at a time, `call.at` is where it is (`write`, `wait`, `blocked`, `grace`, `return`,
`closing`), `reg`, `queue` and `shut` are the waiter it has registered. The two
`select`s of `waitForRequestFrame` are two states: in `wait` the context is not
looked at, in `blocked` it is. The read pump (`pump`) takes one frame at a time from
`down`; where the code releases `reqMu` between finding a waiter and filling its
queue, or between failing the waiters, failing the tasks and killing the process,
the model has a step of its own, since the caller can run in between. The plugin
reads requests from `up`, answers them, and its tasks write lifecycle frames and
events; it is what `PluginServer` lets a host see, and may die or write a frame the
reader refuses at any moment. Both contexts may end at any moment; a timer
(grace of a stop, `Close`) may fire whenever it is awaited.

`Finish`, `CompleteDone`, `Kill`, `FailWaiters`, `AllTasks` are the methods of the
same purpose. The `sync.Once` of a task's `Done` is the test on `done[t]`; a task in
`finished` is one whose cleanup has run. The field `stopping` is written and never
read in the code, so it is left out. The answers of the host to `ArtifactOpen` and
`ArtifactClose` are part of applying a frame: `TakeLife` and `PumpLife` succeed or
fail. Pipes hold any number of frames.

Properties: `NilIsEarned` and `FatalIsKept` say what `Done` may tell the kernel;
`NoOrphan` that a pump that has ended leaves no task waiting, whatever `Start` was
doing; `KillIsJustified` that a frame is never unexpected unless the host itself has
given something up; `CallReturns` and `DeathIsReported` that nothing hangs.

Runs (`QueueCap` is 1: a queue fills with the second frame, as one of 64 does with the
65th; `MaxCalls` bounds the requests and `MaxLife` the lifecycle frames):

* `plugin_host`: two symmetric tasks, two requests, one lifecycle frame: both tasks start,
  or one starts and is stopped, or another call meets a task. A stop of one task while
  the other runs needs a third request and is beyond this bound.
* `plugin_host_one`: one task, two requests (a start and a stop, or other calls), one
  lifecycle frame and one frame the reader refuses. `FairSpec`: the caller's goroutine, the
  pump and the timers take steps they can take, and the plugin handles its requests or
  dies. Nothing in `Stop` ends the wait for a plugin that lives and does not answer: the
  kernel passes the caller's context (`kernel.go:504`), which need not have a deadline. `CallReturns`
  excepts a plugin that has written an unreadable frame: the pump ends, the plugin and
  its stdin stay, and the next call waits for an answer nobody reads.
* `plugin_host_life`: violated. See below.

### A frame after the answer to a start is dropped

`LifeApplied` says that once nothing is in flight every lifecycle frame of a running
task has been applied. `Start` leaves its waiter registered until it returns
(`stdio_client.go:375`), the pump gives the waiter every frame with its request id,
and `Start` stops reading at the `StartResponse`. A frame that comes in between is
lost without an error. The metrics collector writes such frames: it opens its
artifact in `Start` and writes to it from its own goroutine. The design
(`docs/superpowers/specs/2026-06-04-wkbench-remote-background-lifecycle-design.md:21-22`)
has background units publish into the same `RunEnv`.

A second `Stop` of a task whose first one has succeeded is answered CONFIG_ERROR by the
plugin, which has removed the record; the kernel stops each task once, so the models leave
it at `refused`.

## SessionPool.tla: the WKProto sessions

`pool` is where `Unit.Run` and the life of the pool are: clients are connected one
after the other (`Dial`, `Connected`, `ConnectFails`), the pool becomes an output
(`ready`), the kernel closes it when the units have returned (`StartClose`). A unit
returns with calls in progress only when its context is over, so a close may meet
calls at any point.

A request is one call of `SendAndWaitAck`; `at[r]` is where it is: waiting for `opMu`
(`lock`), about to write (`write`), or reading (`read`). The code has no reader
goroutine and no table of pending calls: the caller reads frames itself until one
matches (`sendackMatchesRequest`). The context is looked at after each write and each
frame, and nowhere else, so a call can fail although its message was sent and even
although its sendack has come. A deadline may pass before a frame, in the middle of
one (then the stream is `torn` and only errors come from it) or just after one: `readFrame`
returns a whole frame together with `ctx.Err()`, so the frame is gone and the stream is whole.
A message that cannot be decrypted ends a call in the same way. `mu` and `writeMu` are held
inside one action. The server answers the messages it has in any order, as a success or
not, sends other frames, and may reset the connection.

Runs:

* `session_pool`: two clients, and three calls on the first, so that a call waits for others and
  for what they leave behind. Two of the calls have the same number (`TwoUnits`, below); the
  second client is there to connect, to fail and to be closed. `MaxPush` is 1: one frame
  that is no sendack shows that it is passed over. Nothing else is bounded.
  `NoLeak` says that no connection survives a failed connect or the close; `AcksCountOnce`
  that the calls of one number that succeed are no more than the messages of that number the
  server has acknowledged. That nobody takes a sendack that another call of the client waits for
  (`AckNotStolen`) is proved only. `FairSpec`: the goroutines take steps they can take and each
  deadline passes; the server owes nothing. Then every call returns (`CallReturns`).

### Two units on one pool

A call would like to succeed on the sendack of its own message, but `sendackMatchesRequest` compares
the numbers of messages only, and they need not differ: `NextID` counts
for each unit (`benchkit/kernel/kernel.go:1239`), and two `traffic.send` units may share
a pool (`examples/wukongim-send-rate-mixed.yaml:58-74`): both send `msg-1`, `msg-2` and so
on. When a call of the first unit gives up at its deadline, its sendack stays on the
connection, and the call of the second unit with that number reads it and succeeds,
whatever the server says of its own message. The port
(`benchkit/ports/wkproto/message_sender.go:22`) promises "the matching sendack".

What the code does keep is the count: a sendack is read once, so no acknowledgement makes two
calls succeed. `AcksCountOnce` says so and the run checks it in the very case: r1 and r2 are
calls of one unit, r3 is a call of another with the number of r1. `AcksCounted` proves it for any
numbers, and `SuccessIsOwn` proves what follows for a call that shares its number with no other
call on its client: it succeeds only if its own message is acknowledged.

## SendTraffic.tla: the loop of `traffic.send`

The loop's program counter: `top` (the head of the `for`), `sleep` (`waitForSchedule`),
`select` (a result, the timer or the context), `collect` (a result or the context), `ok`
and `err` (returned). Each message has a `stage`: its goroutine is `sending` (`sendOne`),
`posting` (at its select), its result is `queued` in the channel, `taken` by the loop or
`dropped`. Time is counted in ticks and a message is due every `Gap` of them. The
channel is a set: the order of results decides only `LastMessageID`.

A goroutine's send returns a success, an error, or the error of the context once that
is over; it may also never return. `terminalContextError` looks at the context when the
result is taken.

Runs:

* `send_traffic`: five messages, at most three at work: the loop fills its slots,
  waits, and fills them again; results come between two launches, at a time when the next
  message is due and when it is not. `MaxNow` is one tick more than the last message needs.
  `FairSpec`: the loop runs, the clock goes on, a goroutine with a result posts it.
  `CancelEnds` holds though sends hang.

`Accounted` and `Paced` hold; that no cancelled send is counted as an error of the server
(`NoBlame`) and that no goroutine waits for room (`InFlightBounded`) is proved only. `Paced` is the only sense in
which the rate is kept: a message may be late by any time; the loop then sends what
is due at once, and reports only the elapsed time.

## MetricsCollector.tla: the collector's goroutine and its Stop

`pc` is where the goroutine is: `tick`, `scrape` (one goroutine per node, in any order),
`record` (the records of the tick, in the order of the nodes), `sleep`, `return`, `stopped`.
`Record` fails when the artifact cannot be written. `Judge` is the rest of the loop's body:
a context that is over ends it without an error before the errors of the tick are looked
at. `Stop` cancels (`cancelOnce`), waits for `stopped` or its own context, and
finalises once (`finalizeOnce`). The kernel and the server make one call of `Stop` at a time,
and may make another. The counters of the nodes and the summary are kept; samples and
latencies are not. `failing` is a history of the ticks in which a node failed by
itself, as opposed to being cut short by a stop.

Runs:

* `metrics_collector`: two nodes, both settings of `fail_on_scrape_error`,
  `max_consecutive_errors` 0 to 2 (0 means the first; 2 needs a count that is reset), four
  ticks (two failures, a success and a failure, or the other way round).
  `FairSpec`: the goroutine takes steps it can take (every scrape has a timeout), and a
  `Stop` that can finish does. `StopReturns` holds also after a fatal error.

`SummaryAgrees` and `FatalIsEarned` hold. That a strict collector never goes on after its
limit (`FatalIsDue`), that a second finalisation changes nothing (`StopStands`) and that the
collector is a background task (`ActsAsTask`) is proved only.

`BackgroundTask` is what `contract.BackgroundTask` lets the kernel and the server expect, without a
loop: the worker works until it exits, which completes `Done` once; a `Stop` gives up, or comes after
the exit and publishes all the work, once; every later `Stop` repeats its answer. For the collector the
work is the counts of its nodes and the records of the artifact, and what is published is the summary
with the artifact as it was then: nothing is written to a closed artifact.

## ScenarioGraph.tla and UnitOrder.tla: from a scenario to an order

`ScenarioGraph` is one call on the engine: `BuildGraph` resolves every kind (`Resolve`, also
of an unversioned one) and wires every input (`SourcesFor`, `Wireable`, `Bind`), then
`topoSort` visits the units depth first (`stack` is the recursion of `visit`, the units on it
are the `temporary` ones, those in `order` the `permanent` ones), then each unit validates
and, for `plan`, plans. The names of units are numbers, so that sorted names are sorted
numbers. What a unit answers is its own; for `run` the rest is `Kernel`.

`UnitOrder` promises what the order is for, without an algorithm: a unit is emitted only
after all it depends on, the order is accepted only when complete, a scenario is refused only
if no ranking of its units puts every dependency below what depends on it, and every scenario
gets its verdict. `SortsUnits` is the refinement: `ScenarioGraph` implements `UnitOrder` with
`deps` the dependencies `BuildGraph` has computed. `WiringIsSound` is about the other half:
every input of an ordered unit is bound to another unit's output of its type, and an input
nobody bound by hand to the only one there is.

## Command.tla: the command line

A script of commands runs in directories of a small project; `stage` is where the command is.
A config file is found upwards (`ConfigDir`), read, and rewritten by `Add`, also badly: a
write that fails leaves the old file, or an empty one (`Written`). Paths are lists of components
with `.` and `..`; `Clean` takes them one by one (`CleanStep`) as `filepath.Clean` does, and `Rel` and
`PathFrom` are built on it. A directory has no `.` and `..` (`Directories`): it comes from `os.Getwd`
and `filepath.Dir`, which leave none. Apart from that commands and config files hold whatever
their types allow (`Commands`, `ConfigFiles`). Links lead elsewhere; a path without a
separator is one for `$PATH`, where nothing is found. `StartPlugin`, `Shake`, `Loaded` and
`RegisterUnit` are `loadExternalPlugins` for the batch of official plugins, for that of the
configured and given ones, and for the one that `plugin check` loads; `inspect`, `doctor` and
the first half of `check` start a plugin, ask for its manifest and close it. Then the engine
is called, which is `ScenarioGraph` by `EXTENDS`: `EngineStep` is a step of it. Every way out
goes through `ExitWith`, and `CloseClient` closes what is left, the last one first.

Run `command`: about 10,800 scenarios under one `plan` (three units of five kinds, one of
which has references and predecessors that exist, do not exist, or are the unit itself; three
sources in every order that `after` can give them, cycles included; cycles through inputs bound
by type), and about 850 scripts over four states of the config files on three scenarios (add
a plugin by eleven paths from three directories and use it from three; inspect and check; every
engine command with two plugins on the command line, with and without the official one). The
plugins are one for each thing that matters: two that share a kind with each other or with
the official one, one that declares its kind once or twice as it likes, one that fails, one that
hangs or answers, one with a port that may not cross, one whose kind is spelt as a qualified kind of
its own and one whose kind is spelt as that of another, one that is not there, and a link.
The scenario of the scripts has units of the program only, or one of a plugin, by its bare or its
qualified kind. Nothing bounds the behaviours.

A kind is one string, here the list of its words and of the `/` and `:` between them, and
`Qualified` joins the name, a `:` and the kind as `main.go:207` does: the qualified kind of one unit
may be the bare kind of another. A plugin `p` with the kinds `p:x/v1` and `x/v1` passes `plugin check`
and cannot be loaded, since `p:x/v1` is taken when the second unit is registered (`main.go:208`).
`Resolve` looks for the kind itself, or for the only one that goes on with `/` (`registry.go:55-58`).
What an executable answers to a handshake is not fixed: `Exe` gives the set of its answers, `Shake`
takes one for each process, and so the process that `plugin check` loads may have another manifest
than the one it has inspected. The units of a batch are places in the
manifests of the processes that answered (`Offers`), `RegisterUnit` takes them in that order
(`NextUnit`), and the registry says which process provides a kind, `Binary` for the program itself.
A process is an executable with its number among the clients. Two plugins that have
a kind in common have the same definition of it in the model (`Definitions`).

`NoPluginLeft`, `AddedIsFound`, `ResolvesAsDocumented` and `KindsAreServed` hold. The
third says what `docs/plugin-authoring.md:214` promises, for the official plugins and the
external ones as two batches, and that a qualified kind is always the one of the process that
declares it. A bare kind spelt as a qualified one is the exception it states. `KindsAreServed`: each
kind the engine may be asked for is built in or of a process that is not closed yet. That a manifest `plugin
check` has accepted can be registered (`CheckedPluginRegisters`) is proved only, with its two
conditions: the process answers as the inspected one did, and none of its kinds is spelt as a
qualified one.

`Fairness`: a command goes on unless it waits for a plugin that may be silent (`Silent`). Its ENABLED is
spelt out because TLC is slow on it; that this is right, and that a command can always take a step
until the script is over, the run shows by checking for deadlocks (`Finished` in
`MCCommand` is the end of a script). `CommandReturns` says that every command comes to its end unless
it waits for ever for a plugin (`Unanswered`), and there are two places where it may. A plugin that is
loaded has no timeout for its handshake (`main.go:187`; only `check` sets `HandshakeTimeout`), while
`plugin inspect`, `plugin doctor` and the first half of `plugin check` give up. And the
engine is called with `context.Background()` (`main.go:301`, `342`, `366`, `379`; `plugin_check.go:98-107`), so
that `waitForRequestFrame` returns for a unit of a plugin only when the plugin answers or dies
(`WaitsForUnit`). A unit of the program itself is taken to return.

Left out: blanks around names and paths (`strings.TrimSpace`), and names in a config file that have a
separator or are `.` or `..`. A name that starts with a dot is a path for `check` and may be a name
for `inspect` (`LooksLikePath`, `Dotted`).

## UnitRun.tla and RemoteRun.tla: the run of a unit, here and in a plugin

`UnitRun` is what a unit may do to its `runEnv` in the process of the engine and what the
result says when `Run` has returned. `RemoteRun` is the same run in a plugin: the metrics are
aggregated in the plugin and sent once, at the end (`flush`); the outputs are sent after `Run`
has returned without an error; artifacts are opened and closed with an answer and written in
chunks without one, so the host may lag behind. The run may fail on either side at any point;
the host closes what is open (`closeAll`) and drops the frames that are left. Then another
unit in a plugin may be given an output (`NextUnitRuns`).

`RunsAsLocal` is the refinement: until the host has caught up, what is in the plugin and in the
pipe counts. In a run that succeeds nothing is lost: metrics, sizes and outputs are equal.
In one that fails nothing is made up, but the metrics of the plugin and the outputs not yet
sent are lost, where a unit in the engine's process would have kept them: `Fail` of `UnitRun`
allows both, and that is a limit of the plugin protocol a reader of a report should know.
`NothingLeftOpen` and `SecretsStay` are invariants of their own.

Run `remote_run`: a counter, a duration, an artifact opened any number of times, two outputs
(a reportable one, and a sensitive one that also says reportable), one output that is not
declared and one value that has no JSON. `MaxEffort` is 5, over values, outputs, handles and
bytes: two handles with bytes, or two values of one key and an output, fit in. Amounts 0, 1 and
3 with chunks of two bytes give no, one and two chunks; 0 as a duration is the minimum that
`recordSnapshot` takes for an unset one, which is harmless because every key arrives once.

## Workload.tla: the units of a benchmark

The scenarios are those of `examples/`, small, and specs at the limits of what the units
accept. The engine runs units one after the other, in any order their inputs allow, until one
fails; it does not look at its context in between, and neither does `traffic.group_send`. A unit
that calls the bench API asks its requests one by one; each goes to the addresses in turn
until one answers, and a request may have been applied without an answer, as often as there
are addresses (`Unanswered`). The sessions connect over the gateways in turn. `log` is a
history of the messages.

`PreparedBeforeUse`: whatever was lost and repeated, a message that reaches the server finds
its sender's token and its channel with the sender in it. `EvenLoad`: targets, gateways and,
for `traffic.send`, the senders of a target are used evenly, and disjoint groups are disjoint.
It is not stated of the senders of `traffic.group_send`, which takes them by the number of the
message (`group_send/unit.go:203`): with two groups of two members each, only one member of
each group ever sends. `Compare` compares exact fractions where
`report/assert` (`unit.go:138-166`) compares float64: the specs of the run have no threshold at
which the two differ. `VerdictIsTrue`: `report.assert` judges all the messages of rate and
duration, also those without a client and those after a cancellation, which `group_send`
goes on to count as errors.

Run `workload`: up to four messages, groups, users and two addresses and gateways; the rules
have every metric and operator. Nothing is cut off.

## Proofs

`KernelProofs.tla` proves, for every number of units and every choice of
background units, all the safety properties of `kernel` and more: `TypeCorrect`,
`FatalNeverLost`, `BlameIsOwn`, `CleanupIsQuiet`, `StatusIsSummary`, `VerdictsAreFinal`;
that cleanup never has to make up a result (`CleanupFindsResult`, for
`outputStore.cleanup`'s own result for a unit without one); and that a monitor with an error always
finds room in `backgroundErrors` (`MonitorsNeverBlock`): its send has no other way out, and the shutdown
waits for it. They rest on `NAssumption` (there is a
unit) and `BackgroundAssumption` (background units are units). The last one needs `PostedOnce` besides:
an error in the channel is that of a monitor that will not post again.

None of the properties is inductive. `IInv` adds what the code relies on without
saying it:

* `WalkInv`: where in the loop the engine is says which units can have a result, a
  task or an output; none beyond the current one has.
* `TaskInv`: a task is running exactly while its unit is in `active`, and the one
  being stopped is the last of them.
* `MonitorInv`: there is a monitor exactly when there is a `Done`, what it is doing
  agrees with what is on `Done`, and a monitor of a recorded task has exited.
* `FatalInv`: an error that has left `Done` is in the hands of the monitor, in the
  channel, in `fatal`, or already a result.
* `BlameInv`, `VerdictInv`, `OutputInv`: the same for blame, for the status against
  the results and `shutdownErr`, and for the outputs.

One lemma per conjunct shows it is preserved by each action (`TypeStep` to
`OutputStep`); `Inductive` puts them together; each theorem then is initial state,
step and consequence, joined by a temporal step. `VerdictsAreFinal` uses `IInv`
for the step itself: `RecordTask` writes a result only where there is none
because an active unit has none.

`SessionPoolProofs.tla` proves all the safety properties of `session_pool` for any number of
clients and calls, from `NoRequestAssumption`, `ViaAssumption` and `PushAssumption`. `NoLeak` needs
`OneDialed` (at most one client is being connected, and none after the pool is ready: what
makes `CloseOwn` and `Pool.Close` together close everything). `AcksCountOnce` needs `AckInv`: no
acknowledgement is on its way twice (`NotTwice`), and the calls of a number that have succeeded, together
with the successful sendacks of that number still on the connection, are no more than the acknowledged
messages (`Balanced`). A server that answers adds one to both sides, a call that reads its sendack moves
one from the connection to the calls, and a frame that is passed over or lost takes one away.
`SuccessIsOwn` is the case of a number that one call has. `AckNotStolen`
needs that `opMu` lets only one call read (the last part of `TypeOK`) and `KnownAreWritten`
(the server does not know a message before it is written, so an acknowledgement cannot
precede the call's reading).

`PluginServerProofs.tla` proves the three invariants of `plugin_server` for any number of tasks
and stops, from `NoTaskAssumption` and `MaxStopsAssumption`. `ServeInv` and `MonitorInv` say what
record Serve and the monitor work on: a monitor runs from the answer to a start to the removal of
the record. `OneEventHolds` needs `EventInv` (`eventSent` is set exactly when somebody has written
the event or is about to, so the monitor and the flush write one between them) and `OrderInv`
(metrics and the StopResponse belong to the stop that succeeds). `EndIsReportedHolds` needs `DoneInv` (what
has been received from `Done` is what the task said, or the nil of the closed channel) and
`EarlyInv`: whoever observes an end that came before the flush also marks its event, and the record
goes only after the monitor has. `StopIsRetryableHolds` follows from `ServeInv` and `MonitorInv`.

`PluginHostProofs.tla` proves the five invariants of `plugin_host` and `plugin_host_one` for any number of
tasks, calls and frames and any capacity of a queue. The reader, the caller and the plugin share four
sequences (requests, stdout, the queue of a waiter, the frame in the pump's hand), so most of the
invariant is about frames on their way:

* `RequestInv`, `TaskInv`: requests are numbered in the order they are made, an id belongs to
  one call, and the host knows every started task until it is finished.
* `FrameInv`: an event is that of its task, a StopResponse means that the plugin has
  stopped the call's task, and the grace of a stop begins only after it (`StoppedCall`). So a nil on
  `Done` is the word of a completed event or of a stop that succeeded: `NilIsEarnedHolds`.
* `ExitInv`: a pump that has ended has finished every task, and `Start` finishes the one it returns
  to a pump that has: `NoOrphanHolds`.
* `FatalInv`: a fatal event written before the StopResponse is ahead of it on stdout, or ahead
  of it in the pump's work, or already on `Done` (`Leads`). The order of two frames cannot
  change on the way: `FatalIsKeptHolds`.
* `CalmInv`: while the process lives and the host has dropped and given up nothing, the call in
  progress has one request or one answer on its way, and every lifecycle frame is for a task the
  host knows. Calm is never regained, so an unexpected frame, which makes the pump kill
  the process, proves that something has been given up: `KillIsJustifiedHolds`.
* `UnappliedInv`: each lifecycle frame on its way counts as written and not yet applied, so
  that `unapplied` never falls below zero: the part of `TypeHolds` that is not obvious.

`TrafficProofs.tla` proves all the safety properties of `send_traffic` for any number of
messages, bound on goroutines and rate, from `NAssumption`, `MaxInFlightAssumption` and
`ClockAssumption`. `Inv` ties the loop's counters to the goroutines: messages are
launched in order (`InOrder`), `launched = completed + inFlight`, and the counts of the
summary are the cardinalities of the sets of results taken (`Counted`). From that
`inFlight` never falls below zero, since no more results are taken than messages launched.

It also proves the three invariants of `workload` for all scenarios and any number of users,
targets, gateways, addresses and messages; `SpecsAssumption` gives the fields of a spec the types
they have in Go, and nothing else. `PreparedBeforeUseHolds` rests on `ServerInv`: what a unit has
asked for and got an answer to is on the cluster, and stays, however often it was asked. `EvenLoadHolds`
rests on `ClientsInv` and `LogInv` (the log is the messages `sendOne` makes, in order, for
targets and clients that are fixed by then) and on `SharesInv`: of `k` numbers taken over `n` places
in turn, place `j` gets `k \div n`, and one more when `j < k % n` (`Share`), first for the targets and then,
within a target, for its senders. `VerdictIsTrueHolds` needs that the summary counts the log
(`SummaryInv`) and that nothing writes either once `report.assert` runs (`VerdictInv`).

`MetricsCollectorProofs.tla` proves all the safety properties of `metrics_collector` for any number
of nodes, ticks and limits, from `NodesAssumption` and `BoundsAssumption`. The summary is whole
because the records of the current tick are those of the nodes before `next`, and because
after `stopped` nothing changes them; the failing property rests on the count of
consecutive errors being a run of failing ticks that ends with the last one judged.
`ActsAsTaskHolds` is the refinement of `BackgroundTask`, one case per action (`TaskStep`): `Done` is
completed where the loop is left, so no step that writes can come after it, and the first `Stop`
finds the goroutine gone and the summary that of its counts.

`CommandProofs.tla` proves `WiringIsSound`, that plans follow the order
(`PlansFollowOrder`) and that no unit is ordered or planned twice (`EachOnce`), for any scenario and registry, from
`NamesAssumption` (names are ordered like numbers) and `DefinitionsAssumption` (a definition
names each input once: true of the units of the program, and for a plugin an assumption about its
manifest, since `validatePluginCheckPorts` does not ask for it). `Inv` says that `bindings`
is `Bind` of an acceptable scenario once there is one (`BoundInv`), that each ordered unit has
its dependencies before it (`OrderInv`), and that stack and order have no repetition and share
nothing (`OnceInv`): a dependency that is on the stack is a cycle because the stack never
holds an ordered unit.

`OrderIsSound` is the refinement: the initial states of `ScenarioGraph` are those of `UnitOrder`, and every
step is a step of `UnitOrder` or a stutter. The step that matters is the refusal.
`PathInv` says that each unit on the stack depends on the one above it, so a dependency found on
the stack closes a circle (`CircleHasNoOrder`: on a circle no ranking can fall at every step), and
`UnitOrder` allows the refusal. Scenarios are finite (`IsFiniteSet(Units)` in `GraphInit`). That every scenario gets its
verdict (`UnitOrder!Decided`) is liveness and stays with TLC.

The same module proves the four other invariants of `command` for any plugins, config files and scripts, from
`ExeAssumption` (a process has something to answer with, and the name and kinds of a manifest are lists of
words) and `BuiltinsAssumption` (no kind of `defaultRegistry` has a `:`). `CommandInv` has three parts. `ClientsInv`: the clients are
numbered as they were started and the running processes are theirs, so that closing the last one
each time leaves none (`NoPluginLeftHolds`). `LoadedInv`: what a batch may have loaded at each stage;
`plugin check` loads one process more, of the plugin it has inspected, and nothing else. `RegistryInv`: at every moment
of the loading the registry is `Sound`: each unit dealt with (`Settled`) is there under its qualified
kind, and each kind comes from the binary, from a unit by its qualified kind, or from the only unit of its batch
when no unit of the official batch had the bare kind to itself (`From`). `ResolvesHolds` and `CheckedRegistersHolds`
follow, the latter because a manifest without issues has no kind twice and a name tells its kinds apart
(`KindNames`): what is left is a kind that is spelt as the qualified one.

`KindsAreServedHolds` joins the first two parts to the third. `ServedInv`: while plugins are loaded, each that has
answered in a batch that is kept still runs, since only an inspection closes a client it has shaken hands with,
and what it has inspected is of a batch of its own. A kind that is not built in comes from a unit that has been
dealt with (`Sound`), hence from the process that answered, which runs (`LoadedServes`); the calls on
the engine leave processes and registry alone, and the clients are closed only after the last of them.

`AddedIsFoundHolds` is about paths of any length. `Cleaned` is a recursive function: that it obeys its
equation (`CleanedIs`) and equals every list that takes the same steps (`CleanedAs`) are inductions over
the set of places up to the length of the path (`UpTo`, from the well-foundedness of the numbers), which need no
operator as a parameter. `WayBack` is the argument: going down a directory, then up with `..` as often as the
two paths differ, then down what is left ends at the path that `Rel` was asked for. So a relative path
that is cleaned, made absolute, made relative to the project and cleaned again leads to where it
led before (`StoredLeads`). `ProjectInv` adds the types of scripts and config files, and that an added name
belongs to a file that exists: `Add` keeps the entries of other names (`Renewed`), since two names never
share an entry.

`RemoteRunProofs.tla` proves all three properties of `remote_run` for any outputs, documents,
chunk size and effort, from the assumptions named in `RemoteRun`. `PipeInv` says that the pipe
holds frames and that one that closes a handle names a handle of the run, `FilesInv` that a
recorded artifact was opened and a file that is closed is recorded, `ReportInv` that reported
outputs are not sensitive: `NothingLeftOpen` and `SecretsStay` follow.

`RunsAsLocalHolds` is the refinement, with one lemma per action: the step is a step of `UnitRun`
or changes nothing the engine can tell. The bytes on their way are a cardinality (`Coming`), so
that frames that are appended add theirs, a frame that is taken removes its own, and the chunks of
a write add up to its length (`BytesOfChunks`). `RunInv` is what it needs besides. `FramesInv`: a
frame says what the plugin has and is about an open handle; a question is the last frame until it
is answered, so nothing is on its way to a file that is opened or closed; the response is the last
frame, and comes after the metrics unless there are none. `OutputsInv`: the host has each output
that was looked at, or it is on its way, or an error is. `MetricsInv`: the host has no metrics or
all of them, since they are merged once, into none. `RecordedInv`: the result has the size of a
closed file.

`RankIsNearest` proves that `percentileNearestRank` takes the nearest rank, for any number of
samples and any percentage from 1 to 100; it is a theorem about a pure function no run needs.

What stays with TLC:

* Liveness: the prover has no ENABLED and no fairness. So the liveness part of `SortsUnits`, and
  `CommandReturns`, `CallReturns`, `EndEventually` and the like.
* The two properties that do not hold, `FatalIsReported` and `LifeApplied`.

## Mistakes the properties catch

For each property `PROJECT.json` names a variant of a definition, a mistake that
could be made in the code, under which TLC finds the property violated: the late
`Done` forgotten, the check of background errors left out after Validate, a loop that stops
one task too few, the cancellation or the close of `monitorStop` left out; in the server the
mark `eventSent` left out, the flush that does not look at `Done`; in the host a task
looked for by its id only, a queue one longer, a failed call that ends its task
without an error, a waiter taken off the map and never closed; a call that keeps `opMu` when it
fails, any sendack taken for one's own; a loop that ends with the last launch; a `Stop` that
does not wait; an explicit reference not checked for its type, a cycle passed over; the
clients of an earlier batch not closed, a client closed as soon as its manifest is known, a relative
path stored as it was typed, the first of two equal kinds taken; a last chunk left out, handles left open, only the consumer's port asked
whether a value may cross; a request given up but taken for done, the senders of all targets
in one turn, only the server's errors counted. The variants
stand in the modules just before the definition the code has.

## Not modelled

* Pure I/O, formatting and parsing: the Markdown and JSON of reports and of the `explain` and
  `plan` output, YAML and `${...}` in `benchkit/dsl`, flags, the templates of `new-unit` and
  `plugin init`, protobuf and the frames on the pipe (a pipe is a FIFO of whole frames), the
  Prometheus text and its filters. `benchkit/protocol/wkbench_plugin.pb.go`, a fifth of the
  code, is generated.
* `pluginhost.Catalog` has no caller outside its tests.
* Timestamps, latencies, percentiles beyond the rank, payloads, prefixes of names.
* Trimming: `RemoteRun` takes encodings and boundaries to be written without spaces.
* In `SessionPool` a deadline in the middle of a written frame is an error, and what the server
  makes of half a message is left out.

Limits of the code the models show and no document promises otherwise: a cancellation by one
failing task makes a remote call in flight kill its plugin, with the healthy background tasks
in it (`stdio_client.go:719`); an unreadable frame leaves a plugin alive behind a pump that has
ended (`stdio_client.go:121`); a plugin that does not answer while it is loaded, or a unit of it that
does not answer the engine, hangs the command (`main.go:187`, `main.go:301`, `main.go:342`); `plugin check ./x` is cleaned to `x`, which `exec` looks up in `$PATH`
(`plugin_check.go:209`).
