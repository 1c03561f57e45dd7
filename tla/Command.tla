------------------------------ MODULE Command ------------------------------
(***************************************************************************)
(* The wkbench command line over a project directory: the plugin config    *)
(* file and the paths in it, the processes of the plugins and the registry *)
(* they fill, the call on the engine (module ScenarioGraph), the report    *)
(* and the exit code (cmd/wkbench: main.go, plugin_config.go,              *)
(* plugin_commands.go, plugin_check.go, official_plugins.go). A script of  *)
(* commands runs one after the other; each has its working directory.      *)
(*                                                                         *)
(* A path is a record: absolute or not, and its components as they were    *)
(* written. A directory and an executable are the components of an         *)
(* absolute path. A name looked up in $PATH finds nothing. The name of a   *)
(* plugin is the list of its words and separators, as a kind is.           *)
(***************************************************************************)
EXTENDS ScenarioGraph

CONSTANTS
  Exe,       \* what a process of each executable may answer to a handshake:
             \* "ok" with a manifest, "fail", or "hang" for nothing
  Official,  \* the executables of the official plugins
  Builtins,  \* the kinds of defaultRegistry
  Links,     \* the executables that are symbolic links, and where they lead
  Versions,  \* the words v1, v2 and so on
  Dotted     \* the names of files that start with a dot

\* A process answers something or nothing, and the units of a manifest have a kind each.
ASSUME ExeAssumption ==
  \A e \in DOMAIN Exe :
    /\ Exe[e] # {}
    /\ \A a \in Exe[e] : a.manifest.name \in Seq(STRING) /\ a.manifest.kinds \in Seq(Seq(STRING))
\* No kind of defaultRegistry has a ":" in it.
ASSUME BuiltinsAssumption ==
  Builtins \subseteq Seq(STRING) /\ \A k \in Builtins : ":" \notin ToSet(k)

VARIABLES
  script,   \* the commands to come
  cmd,      \* the command
  stage,    \* where it is
  files,    \* the config files, by the directory that holds .wkbench
  queue,    \* the plugins to start
  batch,    \* what for: "official", "external", "check" or "inspect"
  loaded,   \* the plugins that answered: their batch, process and manifest
  todo,     \* loadExternalPlugins: the units to register
  clients,  \* the clients to close, the oldest first
  running,  \* the processes of plugins that run
  reported, \* whether the report is written
  code,     \* the exit code
  meant     \* history: the executable each added name stands for, as long as its file is whole

commandVars == <<script, cmd, stage, files, queue, batch, loaded, todo, clients,
                 running, reported, code, meant>>

EngineCommands == {"validate", "explain", "plan", "run"}

-----------------------------------------------------------------------------
(* Paths.                                                                  *)

\* The components of a path: names, the directory itself and the one above.
DirNames == STRING \ {".", ".."}
Components == DirNames \cup {".", ".."}
Paths == [abs : BOOLEAN, comps : Seq(Components)]

\* The directories, as os.Getwd, filepath.Abs and filepath.Dir leave them.
Directories == Seq(DirNames)

\* filepath.Clean: what is left after each component, and after all.
CleanStep(abs, done, c) ==
  CASE c = "." -> done
    [] c = ".." /\ done # <<>> /\ Last(done) # ".." -> Front(done)
    [] c = ".." /\ done = <<>> /\ abs -> done
    [] OTHER -> Append(done, c)
Cleaned(p) ==
  LET done[i \in 0..Len(p.comps)] ==
        IF i = 0 THEN <<>> ELSE CleanStep(p.abs, done[i - 1], p.comps[i])
  IN done
Clean(p) ==
  LET cleaned == Cleaned(p)[Len(p.comps)]
  IN [abs |-> p.abs, comps |-> IF cleaned = <<>> /\ ~p.abs THEN <<".">> ELSE cleaned]

\* filepath.Join of a directory and a path, and resolvePluginPath.
PathFrom(dir, p) == Clean(IF p.abs THEN p ELSE [abs |-> TRUE, comps |-> dir \o p.comps])

\* filepath.Rel of two absolute paths.
Rel(dir, comps) ==
  LET common == LongestCommonPrefix({dir, comps})
      ups == [i \in 1..Len(dir) - Len(common) |-> ".."]
  IN [abs |-> FALSE, comps |-> ups \o SubSeq(comps, Len(common) + 1, Len(comps))]

\* A path that is not the empty string.
Given(p) == p.abs \/ p.comps # <<>>

\* exec: a path without a separator is looked up in $PATH.
Executable(p) ==
  IF ~p.abs /\ Len(p.comps) = 1 THEN <<"PATH", p.comps[1]>> ELSE PathFrom(cmd.cwd, p).comps

\* findPluginConfig: the nearest directory upwards with a config file.
ConfigDirs == {d \in DOMAIN files : IsPrefix(d, cmd.cwd)}
ConfigDir == CHOOSE d \in ConfigDirs : \A o \in ConfigDirs : Len(o) <= Len(d)
ConfigRead == ConfigDirs # {} => files[ConfigDir].readable
Entries == IF ConfigDirs = {} THEN <<>> ELSE files[ConfigDir].plugins

\* normalizePluginPathForConfig: the path as seen from the project directory.
NormalizeAsGiven(dir, p) == Clean(p)
Normalize(dir, p) ==
  IF p.abs THEN Clean(p) ELSE Clean(Rel(dir, PathFrom(cmd.cwd, p).comps))

\* What exec runs, and canonicalPluginPath: the end of a symbolic link.
Target(comps) == IF comps \in DOMAIN Links THEN Links[comps] ELSE comps
Canonical(p) == Target(PathFrom(cmd.cwd, p).comps)

\* dedupePluginPaths: the first of the paths that lead to one executable.
Dedupe(paths) ==
  FoldLeft(LAMBDA kept, p : IF \E q \in ToSet(kept) : Canonical(q) = Canonical(p)
                            THEN kept ELSE Append(kept, p), <<>>, paths)

-----------------------------------------------------------------------------
(* Manifests.                                                              *)

\* validatePluginCheckPorts: what keeps a port from crossing the RPC.
PortIssue(port) ==
  ~(port.named /\ port.typed /\ port.data /\ port.inline /\ port.json) \/ port.sensitive \/ port.negative

\* hasVersionSuffixForCheck: something, and then /vN.
Versioned(kind) == Len(kind) > 2 /\ kind[Len(kind) - 1] = "/" /\ Last(kind) \in Versions

\* validatePluginCheckManifest.
HasIssues(m) ==
  \/ m.name = <<>> \/ ~m.v1
  \/ \E i \in DOMAIN m.kinds : \/ ~Versioned(m.kinds[i])
                               \/ \E j \in 1..i - 1 : m.kinds[j] = m.kinds[i]
  \/ \E port \in m.ports : PortIssue(port)

\* The qualified kind is a string like any other: another unit's bare kind may be
\* spelt the same.
Qualified(name, kind) == name \o <<":">> \o kind

-----------------------------------------------------------------------------
(* What a command is given, and what a config file holds.                  *)

Commands ==
  [do : {"list"}, cwd : Directories]
  \cup [do : {"add"}, cwd : Directories, name : STRING, path : Paths]
  \cup [do : {"doctor", "inspect", "check"}, cwd : Directories, path : Paths, scenario : BOOLEAN]
  \cup [do : EngineCommands \cup {"list-units"}, cwd : Directories, official : BOOLEAN,
        plugins : Seq(Paths), report : BOOLEAN]

ConfigEntries == [name : STRING, path : Paths, enabled : BOOLEAN]
ConfigFiles == [readable : BOOLEAN, plugins : Seq(ConfigEntries)]

-----------------------------------------------------------------------------
CommandInit ==
  /\ script \in Seq(Commands)
  /\ DOMAIN files \subseteq Directories /\ \A dir \in DOMAIN files : files[dir] \in ConfigFiles
  /\ registry = <<>> /\ GraphInit
  /\ cmd = [do |-> "none"] /\ stage = "shell" /\ queue = <<>> /\ batch = "none"
  /\ loaded = <<>> /\ todo = {} /\ clients = <<>> /\ running = {}
  /\ reported = FALSE /\ code = 0 /\ meant = <<>>

engineVars == <<scenario, mode, phase, bindings, stack, order, planned, outcome>>
pluginVars == <<queue, batch, loaded, todo, clients, running>>

\* The clients that are left are closed, and the command ends.
ExitWith(c) == stage' = "close" /\ code' = c

\* The shell starts the next command of the script.
NextCommand ==
  /\ stage = "shell" /\ script # <<>>
  /\ cmd' = Head(script) /\ script' = Tail(script) /\ stage' = "start"
  /\ loaded' = <<>> /\ reported' = FALSE
  /\ UNCHANGED <<engineVars, registry, files, queue, batch, todo, clients, running, code, meant>>

\* runPluginList, and runListUnits once the plugins are loaded.
ListPlugins ==
  /\ cmd.do = "list" /\ stage = "start" /\ ExitWith(IF ConfigRead THEN 0 ELSE 1)
  /\ UNCHANGED <<engineVars, registry, pluginVars, script, cmd, files, reported, meant>>

ListUnits ==
  /\ cmd.do = "list-units" /\ stage = "engine" /\ ExitWith(0)
  /\ UNCHANGED <<engineVars, registry, pluginVars, script, cmd, files, reported, meant>>

\* writePluginConfigFile.
Written(dir, plugins) ==
  [d \in DOMAIN files \cup {dir} |->
     IF d = dir THEN [readable |-> TRUE, plugins |-> plugins] ELSE files[d]]

\* runPluginAdd and pluginConfigPathForWrite: the entry
\* replaces the first one of its name. A write that fails leaves the file alone, or empty.
Add ==
  /\ stage = "start" /\ cmd.do = "add"
  /\ LET dir == IF ConfigDirs = {} THEN cmd.cwd ELSE ConfigDir
         entry == [name |-> cmd.name, path |-> Normalize(dir, cmd.path), enabled |-> TRUE]
         same == SelectInSeq(Entries, LAMBDA e : e.name = cmd.name)
         plugins == IF same = 0 THEN Append(Entries, entry) ELSE ReplaceAt(Entries, same, entry)
         accepted == ConfigRead /\ cmd.name # "" /\ Given(cmd.path)
     IN \/ /\ accepted
           /\ files' = Written(dir, plugins)
           /\ meant' = [n \in DOMAIN meant \cup {<<dir, cmd.name>>} |->
                          IF n = <<dir, cmd.name>> THEN PathFrom(cmd.cwd, cmd.path).comps ELSE meant[n]]
           /\ ExitWith(0)
        \/ ExitWith(1) /\ UNCHANGED <<files, meant>>
        \/ /\ accepted /\ ExitWith(1)
           /\ files' = Written(dir, <<>>)
           /\ meant' = [n \in {n \in DOMAIN meant : n[1] # dir} |-> meant[n]]
  /\ UNCHANGED <<engineVars, registry, pluginVars, script, cmd, reported>>

\* pluginCheckTargetLooksLikePath.
LooksLikePath(p) ==
  p.abs \/ Len(p.comps) > 1 \/ (Len(p.comps) = 1 /\ p.comps[1] \in {".", ".."} \cup Dotted)

\* resolvePluginInspectTarget and resolvePluginCheckTarget: a configured name,
\* or a path. check takes what looks like a path for one without a look at the
\* config file; inspect leaves the target alone when there is no config file.
Configured(p) == IF p.abs \/ Len(p.comps) # 1 \/ (cmd.do = "check" /\ LooksLikePath(p)) THEN 0
                 ELSE SelectInSeq(Entries, LAMBDA e : e.name = p.comps[1])
TargetPath(p) ==
  CASE Configured(p) # 0 -> PathFrom(ConfigDir, Entries[Configured(p)].path)
    [] Configured(p) = 0 /\ cmd.do = "inspect" /\ ConfigDirs = {} -> p
    [] OTHER -> Clean(p)

\* The plugins to start and ask for their manifests.
Inspect(exes) == queue' = exes /\ batch' = "inspect" /\ stage' = "load" /\ code' = 0
CannotInspect == ExitWith(1) /\ UNCHANGED <<queue, batch>>
restVars == <<engineVars, registry, script, cmd, files, loaded, todo, clients, running, reported, meant>>

BeginDoctor ==
  /\ stage = "start" /\ cmd.do = "doctor"
  /\ LET enabled == SelectSeq(Entries, LAMBDA e : e.enabled)
     IN IF ConfigRead THEN Inspect([i \in DOMAIN enabled |-> PathFrom(ConfigDir, enabled[i].path).comps])
        ELSE CannotInspect
  /\ UNCHANGED restVars

BeginInspect ==
  /\ stage = "start" /\ cmd.do = "inspect"
  /\ IF ConfigRead THEN Inspect(<<Executable(TargetPath(cmd.path))>>) ELSE CannotInspect
  /\ UNCHANGED restVars

BeginCheck ==
  /\ stage = "start" /\ cmd.do = "check"
  /\ IF Given(cmd.path) /\ (ConfigRead \/ LooksLikePath(cmd.path))
     THEN Inspect(<<Executable(TargetPath(cmd.path))>>) ELSE CannotInspect
  /\ UNCHANGED restVars

\* defaultRegistry: the units of the program itself.
Binary == [exe |-> <<>>, nth |-> 0]
DefaultRegistry == [k \in Builtins |-> Binary]

\* runWithStderr: the registry starts with the built-in units, the official
\* plugins come first unless they are disabled.
BeginLoading ==
  /\ stage = "start" /\ cmd.do \in EngineCommands \cup {"list-units"}
  /\ registry' = DefaultRegistry
  /\ IF cmd.official
     THEN queue' = Official /\ batch' = "official" /\ stage' = "load"
     ELSE stage' = "paths" /\ UNCHANGED <<queue, batch>>
  /\ code' = 0
  /\ UNCHANGED <<engineVars, script, cmd, files, loaded, todo, clients, running, reported, meant>>

\* loadConfiguredPluginPaths.
ResolvePaths ==
  /\ stage = "paths"
  /\ LET enabled == SelectSeq(Entries, LAMBDA e : e.enabled)
         paths == Dedupe([i \in DOMAIN enabled |-> PathFrom(ConfigDir, enabled[i].path)]
                           \o cmd.plugins)
     IN IF ConfigRead /\ \A e \in ToSet(enabled) : e.name # "" /\ Given(e.path)
        THEN /\ queue' = [i \in DOMAIN paths |-> Executable(paths[i])]
             /\ batch' = "external" /\ stage' = "load" /\ UNCHANGED code
        ELSE ExitWith(1) /\ UNCHANGED <<queue, batch>>
  /\ UNCHANGED restVars

\* StartStdioCommand: one more process, of an executable that may run already.
StartPlugin ==
  /\ stage = "load" /\ queue # <<>>
  /\ LET exe == Head(queue)
         starts == Target(exe) \in DOMAIN Exe
         goesOn == batch = "inspect" /\ cmd.do = "doctor"
         process == [exe |-> exe, nth |-> Len(clients) + 1]
     IN CASE starts -> /\ running' = running \cup {process} /\ clients' = Append(clients, process)
                       /\ stage' = "shake" /\ UNCHANGED <<queue, code>>
          [] ~starts /\ goesOn -> /\ queue' = Tail(queue) /\ code' = 1
                                  /\ UNCHANGED <<running, clients, stage>>
          [] OTHER -> ExitWith(1) /\ queue' = <<>> /\ UNCHANGED <<running, clients>>
  /\ UNCHANGED <<engineVars, registry, script, cmd, files, batch, loaded, todo, reported, meant>>

\* Whether a handshake ends though the plugin does not answer: inspection and
\* check set a timeout, loading does not.
TimedCheckOnly == batch = "check"
Timed == batch \in {"inspect", "check"}

\* The client of an inspection is closed as soon as it has answered.
CloseAnswered == running' = running \ {Last(clients)} /\ clients' = Front(clients)
CloseInspected ==
  IF batch = "inspect"
  THEN running' = running \ {Last(clients)} /\ clients' = Front(clients)
  ELSE UNCHANGED <<running, clients>>

\* StdioClient.Handshake: the process answers, or its time is over.
Shake ==
  /\ stage = "shake"
  /\ CloseInspected
  /\ \E answer \in Exe[Target(Head(queue))] :
       LET goesOn == batch = "inspect" /\ cmd.do = "doctor"
       IN /\ answer.shake # "hang" \/ Timed
          /\ CASE answer.shake = "ok" ->
                    /\ loaded' = Append(loaded, [batch |-> batch, client |-> Last(clients),
                                                 manifest |-> answer.manifest])
                    /\ queue' = Tail(queue) /\ stage' = "load" /\ UNCHANGED code
               [] answer.shake # "ok" /\ goesOn ->
                    queue' = Tail(queue) /\ stage' = "load" /\ code' = 1 /\ UNCHANGED loaded
               [] OTHER -> ExitWith(1) /\ queue' = <<>> /\ UNCHANGED loaded
  /\ UNCHANGED <<engineVars, registry, script, cmd, files, batch, todo, reported, meant>>

\* runPluginCheckManifest and the end of the other inspections. With a scenario,
\* runPluginCheckScenario starts the plugin it has checked once more, and loads it.
Inspected ==
  /\ stage = "load" /\ queue = <<>> /\ batch = "inspect"
  /\ LET clean == ~HasIssues(loaded[1].manifest)
     IN CASE cmd.do # "check" -> ExitWith(code) /\ UNCHANGED <<queue, batch, registry>>
          [] cmd.do = "check" /\ clean /\ cmd.scenario ->
               /\ registry' = DefaultRegistry
               /\ queue' = <<loaded[1].client.exe>> /\ batch' = "check" /\ UNCHANGED <<stage, code>>
          [] OTHER -> ExitWith(IF clean THEN 0 ELSE 1) /\ UNCHANGED <<queue, batch, registry>>
  /\ UNCHANGED <<engineVars, script, cmd, files, loaded, todo, clients, running, reported, meant>>

\* loadExternalPlugins: the units of the plugins of a batch, and those that have a kind.
KindsOf(p) == p.manifest.kinds
Offers(b) ==
  UNION {{i} \X DOMAIN KindsOf(loaded[i]) : i \in {n \in DOMAIN loaded : loaded[n].batch = b}}
KindAt(u) == KindsOf(loaded[u[1]])[u[2]]
NameAt(u) == loaded[u[1]].manifest.name
ClientAt(u) == loaded[u[1]].client
Providing(b, kind) == {u \in Offers(b) : KindAt(u) = kind}

\* loadExternalPlugins: every plugin of the batch has answered.
Loaded ==
  /\ stage = "load" /\ queue = <<>> /\ batch # "inspect"
  /\ todo' = Offers(batch) /\ stage' = "register"
  /\ UNCHANGED <<engineVars, registry, script, cmd, files, queue, batch, loaded, clients, running,
                 reported, code, meant>>

\* The units are taken plugin by plugin, in the order of the manifests.
NextUnit ==
  CHOOSE u \in todo : \A o \in todo : u[1] < o[1] \/ (u[1] = o[1] /\ u[2] <= o[2])

\* A kind counted once, and one that the registry takes.
FirstComeFirstServed(b, kind) == Providing(b, kind) # {}
Unambiguous(b, kind) == \E u \in Providing(b, kind) : Providing(b, kind) = {u}
Named(kind) == kind # <<>>

\* loadExternalPlugins: the qualified kind must be new, the bare kind may not be.
RegisterUnit ==
  /\ stage = "register" /\ todo # {}
  /\ LET u == NextUnit
         kind == KindAt(u)
         qualified == Qualified(NameAt(u), kind)
         kinds == {qualified} \cup IF Unambiguous(batch, kind) /\ Named(kind) THEN {kind} ELSE {}
     IN IF qualified \in DOMAIN registry
        THEN ExitWith(1) /\ todo' = {} /\ UNCHANGED registry
        ELSE /\ registry' = [k \in DOMAIN registry \cup kinds |->
                               IF k \in DOMAIN registry THEN registry[k] ELSE ClientAt(u)]
             /\ todo' = todo \ {u} /\ UNCHANGED <<stage, code>>
  /\ UNCHANGED <<engineVars, script, cmd, files, queue, batch, loaded, clients, running,
                 reported, meant>>

Registered ==
  /\ stage = "register" /\ todo = {}
  /\ stage' = IF batch = "official" THEN "paths" ELSE "engine"
  /\ UNCHANGED <<engineVars, registry, pluginVars, script, cmd, files, reported, code, meant>>

\* runExplain, runPlan, runValidate, runScenario and runPluginCheckScenario:
\* the arguments and the scenario are read, and the engine is called.
CallEngine ==
  /\ stage = "engine" /\ cmd.do # "list-units"
  /\ \/ ExitWith(1) /\ UNCHANGED graphVars
     \/ /\ Call(IF cmd.do = "check" THEN "validate" ELSE cmd.do)
        /\ stage' = "wait" /\ UNCHANGED code
  /\ UNCHANGED <<pluginVars, script, cmd, files, reported, meant>>

\* The exit code of a result.
ResultCode == IF outcome = "ok" THEN 0 ELSE IF cmd.do = "run" THEN 2 ELSE 1

EngineIsBack == stage = "wait" /\ phase = "idle"

\* runPluginCheckScenario goes on from validate to explain to plan.
ToCheck == cmd.do = "check" /\ outcome = "ok" /\ mode # "plan"
CheckGoesOn ==
  /\ EngineIsBack /\ ToCheck /\ Call(IF mode = "validate" THEN "explain" ELSE "plan")
  /\ UNCHANGED <<pluginVars, script, cmd, files, stage, reported, code, meant>>

\* report.WriteDir, whatever the result.
ToReport == cmd.do = "run" /\ cmd.report /\ ~reported
WriteReport ==
  /\ EngineIsBack /\ ToReport
  /\ (reported' = TRUE /\ UNCHANGED <<stage, code>>) \/ (ExitWith(3) /\ UNCHANGED reported)
  /\ UNCHANGED <<graphVars, pluginVars, script, cmd, files, meant>>

EngineReturned ==
  /\ EngineIsBack /\ ~ToCheck /\ ~ToReport /\ ExitWith(ResultCode)
  /\ UNCHANGED <<graphVars, pluginVars, script, cmd, files, reported, meant>>

\* The clients a failed or finished command still has to close.
ToCloseOfBatch == SelectSeq(clients, LAMBDA p : batch # "external" \/ p.exe \notin ToSet(Official))
ToClose == clients

\* closePluginClients: the last one started is closed first.
CloseClient ==
  /\ stage = "close" /\ ToClose # <<>>
  /\ clients' = Front(ToClose)
  /\ running' = running \ {Last(ToClose)}
  /\ UNCHANGED <<graphVars, script, cmd, stage, files, queue, batch, loaded, todo, reported, code, meant>>

Exit ==
  /\ stage = "close" /\ ToClose = <<>>
  /\ stage' = "shell"
  /\ UNCHANGED <<graphVars, script, cmd, files, pluginVars, reported, code, meant>>

EngineStep == stage = "wait" /\ GraphNext /\ UNCHANGED commandVars

CommandNext ==
  \/ NextCommand \/ ListPlugins \/ ListUnits \/ Add
  \/ BeginDoctor \/ BeginInspect \/ BeginCheck \/ BeginLoading \/ ResolvePaths
  \/ StartPlugin \/ Shake \/ Inspected \/ Loaded \/ RegisterUnit \/ Registered
  \/ CallEngine \/ EngineStep \/ CheckGoesOn \/ WriteReport \/ EngineReturned
  \/ CloseClient \/ Exit

commandAll == <<graphVars, commandVars>>

\* The units the engine is asking: the next one of Validate, Explain and Plan, or any of
\* a run. They are called with context.Background(), and a plugin's may never answer.
Asked == IF mode = "run" THEN Ordered ELSE {order[i] : i \in DOMAIN order \cap {Len(planned) + 1}}
WaitsForUnit ==
  /\ stage = "wait" /\ phase = "units"
  /\ \E u \in Asked : \E k \in Resolve(scenario.units[u].use) : registry[k] # Binary

\* Nothing bounds the answer of a plugin to the handshake of loading, or of its units.
Silent ==
  \/ stage = "shake" /\ ~Timed /\ \E answer \in Exe[Target(Head(queue))] : answer.shake = "hang"
  \/ WaitsForUnit

\* Everything goes on by itself, unless it waits for a plugin that may be silent. This is
\* WF_commandAll(~Silent /\ CommandNext), with its ENABLED spelt out: a command can take a
\* step until the script is at its end.
Fairness ==
  <>[](Silent \/ (stage = "shell" /\ script = <<>>)) \/ []<><<CommandNext>>_commandAll

CommandSpec == CommandInit /\ [][CommandNext]_commandAll /\ Fairness

-----------------------------------------------------------------------------
(* Properties.                                                             *)

\* Every plugin process that a command has started is closed when it ends,
\* whichever plugin fails at whatever point (loadExternalPlugins, runWithStderr,
\* inspectPluginManifestWithTimeout).
NoPluginLeft == running = ToSet(clients) /\ (stage = "shell" => running = {})

\* What "plugin add" stores leads to the executable it was given, from whatever
\* directory it was called and from whatever directory the project is used
\* (normalizePluginPathForConfig against resolvePluginPath).
AddedIsFound ==
  \A n \in DOMAIN meant :
     \E e \in ToSet(files[n[1]].plugins) : e.name = n[2] /\ PathFrom(n[1], e.path).comps = meant[n]

\* Once the plugins are loaded, a qualified kind belongs to the process that declares it
\* and a bare one to the built-in unit, or to the only plugin of the first batch in which
\* just one unit has it: the order of the plugins does not matter. A bare kind that is
\* spelt as the qualified kind of a unit is that unit's (loadExternalPlugins,
\* docs/plugin-authoring.md:214).
Batches == {"official", "external", "check"}
ResolvesAsDocumented ==
  stage = "engine" =>
    \A b \in Batches : \A u \in Offers(b) :
      LET kind == KindAt(u)
          only(c) == \E o \in Offers(c) : Providing(c, kind) = {o}
          another == \E c \in Batches : \E o \in Offers(c) : Qualified(NameAt(o), KindAt(o)) = kind
      IN /\ registry[Qualified(NameAt(u), kind)] = ClientAt(u)
         /\ kind \in Builtins => registry[kind] = Binary
         /\ kind \notin Builtins /\ ~another /\ Named(kind) /\ only(b)
              /\ ~(b = "external" /\ only("official")) => registry[kind] = ClientAt(u)
         /\ kind \notin Builtins /\ ~another /\ (\A c \in Batches : ~only(c))
              => kind \notin DOMAIN registry

\* A manifest that "plugin check" has accepted and that the plugin answers again when it is
\* loaded can be registered, unless one of its kinds is spelt as the qualified kind of another
\* one (validatePluginCheckManifest against loadExternalPlugins).
CheckedPluginRegisters ==
  batch = "check" /\ stage = "register" /\ todo # {} /\ loaded[2].manifest = loaded[1].manifest =>
    LET qualified == Qualified(NameAt(NextUnit), KindAt(NextUnit))
    IN qualified \in DOMAIN registry => \E o \in Offers("check") : KindAt(o) = qualified

\* Each kind the engine may be asked for is of the binary or of a plugin process that runs:
\* none is closed before the engine has returned, and none that failed to load is left in
\* the registry (runWithStderr, loadExternalPlugins, runPluginCheckScenario).
KindsAreServed ==
  stage \in {"engine", "wait"} => \A k \in DOMAIN registry \ Builtins : registry[k] \in running

\* A command returns, whatever the plugins do, unless it waits for ever for one: for the
\* handshake of a plugin that is loaded, or for a unit of a plugin, which nothing bounds.
\* Inspection and check give up on the handshake (inspectPluginManifestWithTimeout,
\* loadExternalPlugins, runValidate, runExplain, runPlan, runScenario, runPluginCheckScenario).
Unanswered ==
  \/ /\ stage = "shake" /\ batch \in {"official", "external"}
     /\ \E answer \in Exe[Target(Head(queue))] : answer.shake = "hang"
  \/ WaitsForUnit
CommandReturns == []<>(stage = "shell") \/ <>[]Unanswered
=============================================================================
