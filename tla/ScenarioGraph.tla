--------------------------- MODULE ScenarioGraph ---------------------------
(***************************************************************************)
(* How the kernel turns a scenario into an ordered, wired set of units and *)
(* asks each of them to validate and to plan: Engine.Validate, Explain and *)
(* Plan, buildGraph, resolveInput, topoSort (benchkit/kernel/kernel.go)    *)
(* and Registry.Resolve (benchkit/registry/registry.go).                   *)
(*                                                                         *)
(* The names of units are numbers, so that their sorted order is that of   *)
(* the numbers. A kind is one string, here the list of its words and of    *)
(* the "/" and ":" between them: echo/v1 is <<"echo", "/", "v1">>.         *)
(***************************************************************************)
EXTENDS Integers, FiniteSets, SequencesExt

CONSTANTS
  Names,       \* what a unit may be called, and what a reference may name
  Definitions  \* the inputs and outputs of each kind that may be registered

ASSUME NamesAssumption == Names \subseteq Nat
ASSUME DefinitionsAssumption ==
  \A d \in DOMAIN Definitions : \A i, j \in Definitions[d].inputs : i.name = j.name => i = j

VARIABLES
  scenario,    \* the scenario: its version, and its units by name
  registry,    \* who provides each registered kind
  mode,        \* the call: "validate", "explain", "plan" or "run"
  phase,       \* where the call is
  bindings,    \* graphNode.bindings: the wired inputs of each unit
  stack,       \* topoSort: the units being visited, the outermost first
  order,       \* topoSort: the units in order
  planned,     \* the units validated, and planned when mode is "plan"
  outcome      \* what the call returned: "none", "ok" or "error"

graphVars ==
  <<scenario, registry, mode, phase, bindings, stack, order, planned, outcome>>

Units == DOMAIN scenario.units
Ordered == {order[i] : i \in DOMAIN order}
OnStack == {stack[i] : i \in DOMAIN stack}

-----------------------------------------------------------------------------
(* The registry.                                                           *)

\* An exact kind, or the only one that goes on with "/" where it ends.
Resolve(use) ==
  IF use \in DOMAIN registry THEN {use}
  ELSE LET matches == {k \in DOMAIN registry : IsPrefix(use \o <<"/">>, k)}
       IN IF use # <<>> /\ Cardinality(matches) = 1 THEN matches ELSE {}

DefinitionOf(u) ==
  LET k == CHOOSE k \in Resolve(scenario.units[u].use) : TRUE
  IN Definitions[k]

-----------------------------------------------------------------------------
(* The wiring.                                                             *)

Providers ==
  UNION {{[unit |-> u, port |-> o.name, type |-> o.type] : o \in DefinitionOf(u).outputs}
         : u \in Units}

Explicit(u, in) == in.name \in DOMAIN scenario.units[u].inputs

\* resolveInput: the outputs an input may be bound to. A reference that does
\* not parse names no output.
SourcesUnchecked(u, in) ==
  {p \in Providers :
     IF Explicit(u, in)
     THEN scenario.units[u].inputs[in.name] = [unit |-> p.unit, port |-> p.port]
     ELSE p.unit # u /\ p.type = in.type}

SourcesFor(u, in) ==
  {p \in Providers :
     /\ p.type = in.type
     /\ IF Explicit(u, in)
        THEN scenario.units[u].inputs[in.name] = [unit |-> p.unit, port |-> p.port]
        ELSE p.unit # u}

Wireable(u, in) ==
  \/ \E p \in Providers : SourcesFor(u, in) = {p}
  \/ SourcesFor(u, in) = {} /\ in.optional /\ ~Explicit(u, in)

Bind(u) ==
  UNION {{[input |-> in.name, unit |-> p.unit, port |-> p.port] : p \in SourcesFor(u, in)}
         : in \in DefinitionOf(u).inputs}

Acceptable ==
  /\ scenario.version /\ Units # {}
  /\ \A u \in Units : Resolve(scenario.units[u].use) # {}
  /\ \A u \in Units : \A in \in DefinitionOf(u).inputs : Wireable(u, in)

Deps(u) == {b.unit : b \in bindings[u]} \cup scenario.units[u].after

-----------------------------------------------------------------------------
GraphInit ==
  /\ Units \subseteq Names /\ \A u \in Units : scenario.units[u].after \subseteq Names
  /\ IsFiniteSet(Units)
  /\ DOMAIN registry \subseteq DOMAIN Definitions
  /\ mode = "none" /\ phase = "idle" /\ outcome = "none"
  /\ bindings = <<>> /\ stack = <<>> /\ order = <<>> /\ planned = <<>>

\* The command line, or a test, calls the engine.
Call(m) ==
  /\ phase = "idle"
  /\ mode' = m /\ phase' = "build" /\ outcome' = "none"
  /\ bindings' = <<>> /\ stack' = <<>> /\ order' = <<>> /\ planned' = <<>>
  /\ UNCHANGED <<scenario, registry>>

Refused == phase' = "idle" /\ outcome' = "error"

\* buildGraph up to topoSort: every kind resolved, every input wired.
BuildGraph ==
  /\ phase = "build"
  /\ IF Acceptable
     THEN /\ bindings' = [u \in Units |-> Bind(u)]
          /\ phase' = "sort" /\ UNCHANGED outcome
     ELSE Refused /\ UNCHANGED bindings
  /\ UNCHANGED <<scenario, registry, mode, stack, order, planned>>

Least(S) == CHOOSE x \in S : \A y \in S : x <= y

\* What visit does not return early for: the dependencies not ordered yet.
UnvisitedNorBusy(u) == Deps(u) \ (Ordered \cup OnStack)
Unvisited(u) == Deps(u) \ Ordered

\* topoSort, between two units: the next name in sorted order.
VisitRoot ==
  /\ phase = "sort" /\ stack = <<>> /\ Units \ Ordered # {}
  /\ stack' = <<Least(Units \ Ordered)>>
  /\ UNCHANGED <<scenario, registry, mode, phase, bindings, order, planned, outcome>>

\* visit: the next dependency of the unit on top of the stack, which is
\* unknown, or being visited already, or visited now.
VisitDependency ==
  /\ phase = "sort" /\ stack # <<>>
  /\ LET todo == Unvisited(stack[Len(stack)])
         dep == Least(todo)
     IN /\ todo # {}
        /\ IF dep \notin Units \/ dep \in OnStack
           THEN Refused /\ UNCHANGED stack
           ELSE stack' = Append(stack, dep) /\ UNCHANGED <<phase, outcome>>
  /\ UNCHANGED <<scenario, registry, mode, bindings, order, planned>>

\* visit: every dependency is ordered, so the unit is.
Order ==
  /\ phase = "sort" /\ stack # <<>> /\ Unvisited(stack[Len(stack)]) = {}
  /\ order' = Append(order, stack[Len(stack)])
  /\ stack' = SubSeq(stack, 1, Len(stack) - 1)
  /\ UNCHANGED <<scenario, registry, mode, phase, bindings, planned, outcome>>

Sorted ==
  /\ phase = "sort" /\ stack = <<>> /\ Units \subseteq Ordered
  /\ phase' = "units"
  /\ UNCHANGED <<scenario, registry, mode, bindings, stack, order, planned, outcome>>

\* Engine.Validate, Explain and Plan: the next unit validates, and plans when
\* asked to. One that does not ends the call. What a unit answers is its own, and
\* whether it does: the engine waits for it as long as its context lets it.
CheckUnit ==
  /\ phase = "units" /\ mode # "run" /\ Len(planned) < Len(order)
  /\ \/ planned' = Append(planned, order[Len(planned) + 1]) /\ UNCHANGED <<phase, outcome>>
     \/ Refused /\ UNCHANGED planned
  /\ UNCHANGED <<scenario, registry, mode, bindings, stack, order>>

AllChecked ==
  /\ phase = "units" /\ mode # "run" /\ Len(planned) = Len(order)
  /\ phase' = "idle" /\ outcome' = "ok"
  /\ UNCHANGED <<scenario, registry, mode, bindings, stack, order, planned>>

\* Engine.Run goes on from the order to the loop of module Kernel.
RunUnits ==
  /\ phase = "units" /\ mode = "run"
  /\ phase' = "idle" /\ outcome' \in {"ok", "error"}
  /\ UNCHANGED <<scenario, registry, mode, bindings, stack, order, planned>>

GraphNext ==
  \/ BuildGraph \/ VisitRoot \/ VisitDependency \/ Order \/ Sorted
  \/ CheckUnit \/ AllChecked \/ RunUnits

\* The engine, whoever calls it.
GraphSpec ==
  GraphInit /\ [][GraphNext \/ \E m \in {"validate", "explain", "plan", "run"} : Call(m)]_graphVars

-----------------------------------------------------------------------------
(* Properties.                                                             *)

\* Wiring never guesses (resolveInput): a unit that is in the order has every
\* input that it must have, from another output of the same type, and an input
\* nobody bound by hand has the only output of that type outside its unit.
WiringIsSound ==
  \A u \in Ordered : \A in \in DefinitionOf(u).inputs :
     LET bound == {b \in bindings[u] : b.input = in.name}
         typed == {p \in Providers : p.type = in.type}
     IN /\ bound = {} => in.optional /\ ~Explicit(u, in) /\ typed \subseteq {p \in typed : p.unit = u}
        /\ \A b \in bound :
             /\ \E p \in typed : p.unit = b.unit /\ p.port = b.port
             /\ b.unit # u
             /\ ~Explicit(u, in) => \A p \in typed : p.unit = u \/ (p.unit = b.unit /\ p.port = b.port)
             /\ \A c \in bound : c = b

\* No unit is ordered twice, validated or planned twice, or ordered while it is
\* being visited (topoSort: temporary and permanent).
EachOnce ==
  /\ \A i, j \in DOMAIN order : order[i] = order[j] => i = j
  /\ \A i, j \in DOMAIN planned : planned[i] = planned[j] => i = j
  /\ OnStack \cap Ordered = {}

\* A unit is validated and planned only when every unit it takes an input from,
\* or must follow, has been (Engine.Validate, Explain, Plan).
PlansFollowOrder ==
  \A i \in DOMAIN planned : Deps(planned[i]) \subseteq {planned[j] : j \in 1..i - 1}

\* The sort implements the promise of module UnitOrder: dependencies first, no
\* unit left out, and a refusal only when no order exists (topoSort).
DepsSeen == IF bindings = <<>> THEN <<>> ELSE [u \in Units |-> Deps(u)]
VerdictSeen ==
  CASE phase = "sort" -> "sorting"
    [] phase # "sort" /\ bindings = <<>> -> "none"
    [] OTHER -> IF Units \subseteq Ordered THEN "sorted" ELSE "refused"
UnitsInOrder == INSTANCE UnitOrder WITH deps <- DepsSeen, order <- order, verdict <- VerdictSeen
SortsUnits == UnitsInOrder!Spec
=============================================================================
