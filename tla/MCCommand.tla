----------------------------- MODULE MCCommand -----------------------------
(* Instances of Command for TLC: scripts of commands over plugins that fail,  *)
(* hang or share kinds, and one command over many scenarios.                  *)
EXTENDS Command

K(base, ver) == <<base, "/", ver>>
P(kind) == <<"p", ":">> \o kind
A(comps) == [abs |-> TRUE, comps |-> comps]
R(comps) == [abs |-> FALSE, comps |-> comps]
In(name, type, optional) == [name |-> name, type |-> type, optional |-> optional]
Def(inputs, outputs) == [inputs |-> inputs, outputs |-> outputs]
Out(type) == {[name |-> "o", type |-> type]}

MCNames == {1, 2, 3, 9}
MCVersions == {"v1", "v2"}
MCDotted == {".x"}
MCDefinitions ==
  (K("src", "v1") :> Def({}, Out("T"))) @@ (K("src", "v2") :> Def({}, Out("T")))
  @@ (K("mid", "v1") :> Def({In("i", "T", FALSE)}, Out("U")))
  @@ (K("back", "v1") :> Def({In("i", "U", FALSE)}, Out("T")))
  @@ (K("end", "v1") :> Def({In("i", "T", TRUE), In("j", "U", TRUE)}, {}))
  @@ (K("tick", "v1") :> Def({}, {})) @@ (P(K("tick", "v1")) :> Def({}, {}))
MCBuiltins == {K("src", "v1"), K("src", "v2"), K("mid", "v1"), K("back", "v1"), K("end", "v1")}

Port(sensitive) == [named |-> TRUE, typed |-> TRUE, data |-> TRUE, inline |-> TRUE, json |-> TRUE,
                    negative |-> FALSE, sensitive |-> sensitive]
Plugin(shake, name, kinds, ports) ==
  [shake |-> shake,
   manifest |-> [name |-> <<name>>, v1 |-> TRUE, kinds |-> kinds, ports |-> ports]]

\* flip declares its kind once, or twice; echo/v1 of p is the official plugin's too;
\* self and other have a kind that is spelt as a qualified one of p.
MCExe ==
  (<<"off">> :> {Plugin("ok", "off", <<K("echo", "v1"), K("src", "v1")>>, {})})
  @@ (<<"r", "p">> :> {Plugin("ok", "p", <<K("echo", "v1"), K("tick", "v1")>>, {Port(FALSE)})})
  @@ (<<"r", "q">> :> {Plugin("ok", "q", <<K("tick", "v1")>>, {Port(TRUE)})})
  @@ (<<"r", "flip">> :> {Plugin("ok", "f", kinds, {}) :
                            kinds \in {<<K("tick", "v1")>>, <<K("tick", "v1"), K("tick", "v1")>>}})
  @@ (<<"r", "self">> :> {Plugin("ok", "p", <<P(K("x", "v1")), K("x", "v1")>>, {})})
  @@ (<<"r", "other">> :> {Plugin("ok", "o", <<P(K("tick", "v1"))>>, {})})
  @@ (<<"r", "bad">> :> {Plugin("fail", "bad", <<>>, {})})
  @@ (<<"r", "hang">> :> {Plugin("hang", "h", <<>>, {}), Plugin("ok", "h", <<K("late", "v1")>>, {})})
MCOfficial == <<<<"off">>>>
MCLinks == <<"r", "s", "lp">> :> <<"r", "p">>

Unit(use, inputs, after) == [use |-> use, inputs |-> inputs, after |-> after]
Uses == {K("src", "v1"), <<"src">>, <<"mid">>, K("back", "v1"), K("end", "v1")}
Refs == {<<>>} \cup {"i" :> [unit |-> u, port |-> p] : u \in {1, 2, 9}, p \in {"o", "x"}}
Plain(use) == Unit(use, <<>>, {})
Scenario(units) == [version |-> TRUE, units |-> units]

\* Three units of every kind, one of which has references and predecessors of its own;
\* and three sources in every order.
Scenarios ==
  {Scenario([n \in 1..3 |-> IF n = m THEN Unit(use[n], refs, after) ELSE Plain(use[n])]) :
     use \in [1..3 -> Uses], m \in 1..3, refs \in Refs, after \in {{}, {1}, {3}, {9}}}
  \cup {Scenario([n \in 1..3 |-> Unit(K("src", "v1"), <<>>, after[n])]) : after \in [1..3 -> SUBSET (1..3)]}
  \cup {[version |-> v, units |-> <<>>] : v \in BOOLEAN}

Engine(do, cwd, official, plugins) ==
  [do |-> do, cwd |-> cwd, official |-> official, plugins |-> plugins, report |-> do = "run"]
AddAs(cwd, name, path) == [do |-> "add", cwd |-> cwd, name |-> name, path |-> path]
Look(do, cwd, path) == [do |-> do, cwd |-> cwd, path |-> path, scenario |-> do = "check"]

Dirs == {<<"r">>, <<"r", "s">>, <<"r", "s", "t">>}
GivenPaths == {A(<<"r", ".", "p">>), R(<<".", "p">>), R(<<"..", "q">>), R(<<"lp">>), R(<<"s", "..", "..", "hang">>),
          R(<<"p">>), A(<<"r", "flip">>), A(<<"r", "self">>), A(<<"r", "other">>), A(<<"r", "bad">>),
          A(<<"r", "gone">>)}
Entry(name, comps, enabled) == [name |-> name, path |-> R(comps), enabled |-> enabled]
Files ==
  {<<>>,
   <<"r">> :> [readable |-> FALSE, plugins |-> <<>>],
   <<"r">> :> [readable |-> TRUE, plugins |-> <<Entry("a", <<"q">>, TRUE), Entry("b", <<"bad">>, FALSE)>>],
   <<"r", "s">> :> [readable |-> TRUE, plugins |-> <<Entry("a", <<"..", "p">>, TRUE), Entry(".x", <<"..", "p">>, FALSE)>>]}
Scripts ==
  {<<AddAs(d, n, p), c>> : d \in Dirs, n \in {"a", "c"}, p \in GivenPaths,
     c \in {Engine("plan", e, TRUE, <<>>) : e \in Dirs}
           \cup {Look("doctor", <<"r", "s">>, R(<<"a">>)), [do |-> "list", cwd |-> <<"r">>]}}
  \cup {<<Look(do, d, p)>> : do \in {"inspect", "check"}, d \in Dirs, p \in GivenPaths \cup {R(<<"a">>), R(<<".x">>)}}
  \cup {<<Engine(do, d, official, <<p, q>>)>> : do \in EngineCommands \cup {"list-units"},
          d \in {<<"r">>, <<"r", "s">>}, official \in BOOLEAN, p \in GivenPaths, q \in {A(<<"r", "p">>), A(<<"r", "q">>)}}

\* Units of the program alone, and with one of a plugin.
Simple == Scenario([n \in 1..2 |-> Plain(IF n = 1 THEN K("src", "v1") ELSE <<"mid">>)])
Ticking(use) == Scenario([n \in 1..2 |-> Plain(IF n = 1 THEN K("src", "v1") ELSE use)])

MCInit ==
  /\ \/ scenario \in Scenarios /\ files = <<>> /\ script = <<Engine("plan", <<"r">>, FALSE, <<>>)>>
     \/ scenario \in {Simple, Ticking(<<"tick">>), Ticking(P(<<"tick">>))} /\ files \in Files /\ script \in Scripts
  /\ CommandInit

\* The script is at its end. Nowhere else may a command be stuck: with the deadlock check,
\* this is what lets Fairness leave the ENABLED of CommandNext out.
Finished == stage = "shell" /\ script = <<>> /\ UNCHANGED commandAll
MCSpec == MCInit /\ [][CommandNext \/ Finished]_commandAll /\ Fairness
=============================================================================
