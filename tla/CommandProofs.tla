---------------------------- MODULE CommandProofs ----------------------------
(***************************************************************************)
(* Proofs about ScenarioGraph, for any scenario, any registry and any      *)
(* definitions of units: what buildGraph binds, the order in which         *)
(* topoSort, Validate and Plan take the units, and that this order is what *)
(* module UnitOrder promises. Then proofs about Command, for any plugins:  *)
(* their processes, the registry they fill, and the paths of the config    *)
(* files, which "plugin add" writes.                                       *)
(***************************************************************************)
EXTENDS Command, TLAPS, WellFoundedInduction, FiniteSetTheorems

Sequences ==
  (\E S : stack \in Seq(S)) /\ (\E S : order \in Seq(S)) /\ (\E S : planned \in Seq(S))

\* Until the sort there is nothing; from the sort on, the scenario was acceptable
\* and the bindings are those of buildGraph.
BoundInv ==
  /\ Units \subseteq Names /\ \A u \in Units : scenario.units[u].after \subseteq Names
  /\ IsFiniteSet(Units)
  /\ DOMAIN registry \subseteq DOMAIN Definitions
  /\ order = <<>> => planned = <<>>
  /\ phase = "build" => order = <<>> /\ stack = <<>> /\ bindings = <<>>
  /\ phase \in {"sort", "units"} \/ order # <<>> =>
       Acceptable /\ bindings = [u \in Units |-> Bind(u)]

\* A unit in the order follows its dependencies, and what has been planned is a
\* prefix of the order.
OrderInv ==
  /\ \A i \in DOMAIN order : \A d \in Deps(order[i]) : \E j \in 1..i - 1 : order[j] = d
  /\ planned # <<>> => phase # "sort"
  /\ \A i \in DOMAIN planned : i \in DOMAIN order /\ planned[i] = order[i]

\* The stack and the order hold units of the scenario, each one once.
OnceInv ==
  /\ OnStack \cup Ordered \subseteq Units
  /\ OnStack \cap Ordered = {}
  /\ \A i, j \in DOMAIN stack : stack[i] = stack[j] => i = j
  /\ \A i, j \in DOMAIN order : order[i] = order[j] => i = j

\* Each unit on the stack is a dependency of the one below it.
PathInv == \A i \in DOMAIN stack : i # 1 => stack[i] \in Deps(stack[i - 1])

Inv == Sequences /\ BoundInv /\ OrderInv /\ OnceInv /\ PathInv

-----------------------------------------------------------------------------
(* Lemmas.                                                                 *)

\* A set of numbers that is not empty has a least one.
LEMMA LeastNumber ==
  ASSUME NEW S, S \subseteq Nat, S # {}
  PROVE  \E x \in S : \A y \in S : x <= y
  <1>1. PICK x \in S : \A y \in S : ~(<<y, x>> \in OpToRel(<, Nat))
    BY NatLessThanWellFounded, WFMin
  <1>2. \A y \in S : x <= y
    <2>1. SUFFICES ASSUME NEW y \in S PROVE ~(y < x)
      OBVIOUS
    <2>2. y < x => <<y, x>> \in OpToRel(<, Nat)
      BY Zenon DEF OpToRel
    <2> QED BY <1>1, <2>2
  <1> QED BY <1>2

\* A set of names that is not empty has a least one.
LEMMA LeastOf ==
  ASSUME NEW S, S \subseteq Names, S # {}
  PROVE  Least(S) \in S
  <1>1. \E x \in S : \A y \in S : x <= y
    BY NamesAssumption, LeastNumber
  <1> QED BY <1>1 DEF Least

\* A list that gains an element.
LEMMA Appended ==
  ASSUME NEW s, NEW x, \E S : s \in Seq(S)
  PROVE  /\ \E S : Append(s, x) \in Seq(S)
         /\ Len(s) \in Nat /\ DOMAIN s = 1..Len(s) /\ DOMAIN Append(s, x) = 1..Len(s) + 1
         /\ Append(s, x)[Len(s) + 1] = x
         /\ \A i \in DOMAIN s : Append(s, x)[i] = s[i]
  <1>1. PICK S : s \in Seq(S)
    OBVIOUS
  <1>2. s \in Seq(S \cup {x})
    BY <1>1
  <1>3. Append(s, x) \in Seq(S \cup {x})
    BY <1>2
  <1>4. /\ Len(s) \in Nat /\ DOMAIN s = 1..Len(s) /\ DOMAIN Append(s, x) = 1..Len(s) + 1
        /\ Append(s, x)[Len(s) + 1] = x
        /\ \A i \in DOMAIN s : Append(s, x)[i] = s[i]
    BY <1>2
  <1> QED BY <1>3, <1>4

\* A list that loses its last element.
LEMMA Popped ==
  ASSUME NEW s, \E S : s \in Seq(S), s # <<>>, NEW t, t = SubSeq(s, 1, Len(s) - 1)
  PROVE  /\ \E S : t \in Seq(S)
         /\ Len(s) \in Nat \ {0} /\ DOMAIN s = 1..Len(s) /\ DOMAIN t = 1..Len(s) - 1
         /\ \A i \in DOMAIN t : t[i] = s[i]
  <1>1. PICK S : s \in Seq(S)
    OBVIOUS
  <1>2. Len(s) \in Nat \ {0} /\ DOMAIN s = 1..Len(s) /\ \A i \in 1..Len(s) : s[i] \in S
    BY <1>1
  <1>3. /\ t \in Seq(S) /\ DOMAIN t = 1..Len(s) - 1
        /\ \A i \in DOMAIN t : t[i] = s[i]
    BY <1>1, <1>2
  <1> QED BY <1>2, <1>3

-----------------------------------------------------------------------------
(* The steps.                                                              *)

LEMMA Initially == GraphInit => Inv
  <1> SUFFICES ASSUME GraphInit PROVE Inv
    OBVIOUS
  <1>1. stack \in Seq({}) /\ order \in Seq({}) /\ planned \in Seq({})
    BY DEF GraphInit
  <1>2. DOMAIN stack = {} /\ DOMAIN order = {} /\ DOMAIN planned = {}
    BY DEF GraphInit
  <1> QED BY <1>1, <1>2
           DEF GraphInit, Inv, Sequences, BoundInv, OrderInv, OnceInv, PathInv, OnStack, Ordered

\* A call starts with nothing.
LEMMA Starts ==
  ASSUME Inv, NEW m, Call(m)
  PROVE  Inv'
  <1>1. /\ stack' = <<>> /\ order' = <<>> /\ planned' = <<>> /\ phase' = "build"
        /\ UNCHANGED <<scenario, registry>>
    BY DEF Call
  <1>2. stack' \in Seq({}) /\ order' \in Seq({}) /\ planned' \in Seq({})
    BY <1>1
  <1>3. DOMAIN stack' = {} /\ DOMAIN order' = {} /\ DOMAIN planned' = {}
    BY <1>1
  <1>4. /\ Units' \subseteq Names /\ \A u \in Units' : scenario'.units[u].after \subseteq Names
        /\ IsFiniteSet(Units)'
    BY <1>1 DEF Inv, BoundInv, Units
  <1>5. BoundInv'
    BY <1>1, <1>4 DEF Call, Inv, BoundInv
  <1> QED BY <1>1, <1>2, <1>3, <1>5 DEF Inv, Sequences, OrderInv, OnceInv, PathInv, OnStack, Ordered

\* What depends on the scenario and the registry alone.
LEMMA SameScenario ==
  ASSUME UNCHANGED <<scenario, registry>>
  PROVE  /\ Units' = Units /\ Acceptable' = Acceptable
         /\ [u \in Units |-> Bind(u)]' = [u \in Units |-> Bind(u)]
         /\ UNCHANGED bindings => \A u : Deps(u)' = Deps(u)
  BY DEF Units, Acceptable, Bind, Wireable, SourcesFor, Explicit, Providers, DefinitionOf, Resolve, Deps

LEMMA PathStays ==
  ASSUME PathInv, UNCHANGED <<scenario, bindings, stack>>
  PROVE  PathInv'
  BY DEF PathInv, Deps

LEMMA Builds ==
  ASSUME Inv, BuildGraph
  PROVE  Inv'
  <1>1. /\ UNCHANGED <<scenario, registry, stack, order, planned>>
        /\ phase = "build" /\ order = <<>> /\ stack = <<>> /\ planned = <<>>
    BY DEF BuildGraph, Inv, BoundInv
  <1>2. DOMAIN order = {} /\ DOMAIN stack = {} /\ DOMAIN planned = {}
    BY <1>1
  <1>3. \/ phase' = "idle"
        \/ phase' = "sort" /\ Acceptable /\ bindings' = [u \in Units |-> Bind(u)]
    BY DEF BuildGraph, Refused
  <1>4. BoundInv'
    BY <1>1, <1>3, SameScenario DEF Inv, BoundInv
  <1> QED BY <1>1, <1>2, <1>4 DEF Inv, Sequences, OrderInv, OnceInv, PathInv, OnStack, Ordered

\* A step that leaves the order alone, and adds a unit to the stack at most.
LEMMA StackGrows ==
  ASSUME Inv, phase = "sort", UNCHANGED <<scenario, registry, bindings, order, planned>>,
         phase' \in {"sort", "idle"},
         \/ stack' = stack
         \/ \E u \in Units \ (Ordered \cup OnStack) :
              stack' = Append(stack, u) /\ (stack # <<>> => u \in Deps(stack[Len(stack)]))
  PROVE  Inv'
  <1>1. BoundInv'
    BY SameScenario DEF Inv, BoundInv
  <1>2. OrderInv'
    BY SameScenario DEF Inv, OrderInv
  <1>3. CASE stack' = stack
    <2>1. Sequences' /\ OnceInv'
      BY <1>3, SameScenario DEF Inv, Sequences, OnceInv, OnStack, Ordered
    <2>2. PathInv'
      BY <1>3, PathStays DEF Inv
    <2> QED BY <1>1, <1>2, <2>1, <2>2 DEF Inv
  <1>4. CASE \E u \in Units \ (Ordered \cup OnStack) :
               stack' = Append(stack, u) /\ (stack # <<>> => u \in Deps(stack[Len(stack)]))
    <2>1. PICK u \in Units \ (Ordered \cup OnStack) :
               stack' = Append(stack, u) /\ (stack # <<>> => u \in Deps(stack[Len(stack)]))
      BY <1>4
    <2>2. Sequences'
      BY <2>1, Appended DEF Inv, Sequences
    <2>3. /\ Len(stack) \in Nat /\ DOMAIN stack = 1..Len(stack) /\ DOMAIN stack' = 1..Len(stack) + 1
          /\ stack'[Len(stack) + 1] = u
          /\ \A i \in DOMAIN stack : stack'[i] = stack[i]
      BY <2>1, Appended DEF Inv, Sequences
    <2>4. OnStack' = OnStack \cup {u} /\ Ordered' = Ordered
      BY <2>3 DEF OnStack, Ordered
    <2>5. \A i, j \in DOMAIN stack' : stack'[i] = stack'[j] => i = j
      <3>1. \A i \in DOMAIN stack : stack'[i] # u
        BY <2>3 DEF OnStack
      <3>2. \A i, j \in DOMAIN stack : stack'[i] = stack'[j] => i = j
        BY <2>3 DEF Inv, OnceInv
      <3>3. \A i \in DOMAIN stack' : i \in DOMAIN stack \/ i = Len(stack) + 1
        BY <2>3
      <3> QED BY <2>3, <3>1, <3>2, <3>3
    <2>6. OnceInv'
      BY <2>1, <2>4, <2>5, SameScenario DEF Inv, OnceInv
    <2>7. ASSUME NEW i \in DOMAIN stack', i # 1 PROVE stack'[i] \in Deps(stack'[i - 1])
      <3>1. i - 1 \in DOMAIN stack
        BY <2>3, <2>7
      <3>2. CASE i \in DOMAIN stack
        BY <2>3, <2>7, <3>1, <3>2 DEF Inv, PathInv
      <3>3. CASE i = Len(stack) + 1
        <4>1. stack # <<>> /\ i - 1 = Len(stack) /\ Len(stack) \in DOMAIN stack
          BY <2>3, <3>1, <3>3
        <4> QED BY <2>1, <2>3, <3>3, <4>1
      <3> QED BY <2>3, <3>2, <3>3
    <2>8. PathInv'
      <3>1. \A x : Deps(x)' = Deps(x)
        BY SameScenario
      <3>2. \A i \in DOMAIN stack' : Deps(stack'[i - 1]) = Deps(stack[i - 1])'
        BY SameScenario DEF Deps
      <3> QED BY <2>7, <3>2 DEF PathInv
    <2> QED BY <1>1, <1>2, <2>2, <2>6, <2>8 DEF Inv
  <1> QED BY <1>3, <1>4

\* An output that a unit of the scenario has.
LEMMA SourcesAre ==
  ASSUME NEW u, NEW in, NEW p \in SourcesFor(u, in)
  PROVE  p \in Providers /\ p.unit \in Units /\ p.type = in.type
  <1>1. p \in Providers /\ p.type = in.type
    BY DEF SourcesFor
  <1>2. PICK v \in Units : p \in {[unit |-> v, port |-> o.name, type |-> o.type] : o \in DefinitionOf(v).outputs}
    BY <1>1 DEF Providers
  <1> QED BY <1>1, <1>2

\* A binding is an input with a source of it.
LEMMA BindingsOf ==
  ASSUME NEW u, NEW b
  PROVE  b \in Bind(u) <=>
           \E in \in DefinitionOf(u).inputs : \E p \in SourcesFor(u, in) :
              b = [input |-> in.name, unit |-> p.unit, port |-> p.port]
  <1> DEFINE Of(in) == {[input |-> in.name, unit |-> p.unit, port |-> p.port] : p \in SourcesFor(u, in)}
  <1>1. b \in Bind(u) <=> \E in \in DefinitionOf(u).inputs : b \in Of(in)
    BY DEF Bind
  <1> QED BY <1>1

\* The names of the inputs of a unit are distinct.
LEMMA InputsDiffer ==
  ASSUME Inv, Acceptable, NEW u \in Units, NEW i \in DefinitionOf(u).inputs,
         NEW j \in DefinitionOf(u).inputs, i.name = j.name
  PROVE  i = j
  <1> DEFINE k == CHOOSE k \in Resolve(scenario.units[u].use) : TRUE
  <1>1. k \in Resolve(scenario.units[u].use)
    BY DEF Acceptable
  <1>2. k \in DOMAIN registry
    BY <1>1 DEF Resolve
  <1>3. k \in DOMAIN Definitions
    BY <1>2 DEF Inv, BoundInv
  <1>4. DefinitionOf(u) = Definitions[k]
    BY DEF DefinitionOf
  <1> HIDE DEF k
  <1> QED BY <1>3, <1>4, DefinitionsAssumption

\* What a unit depends on has a name.
LEMMA DepsAreNames ==
  ASSUME Inv, phase = "sort", NEW u \in Units
  PROVE  Deps(u) \subseteq Names
  <1>1. bindings[u] = Bind(u)
    BY DEF Inv, BoundInv
  <1>2. \A b \in Bind(u) : b.unit \in Units
    BY BindingsOf, SourcesAre
  <1> QED BY <1>1, <1>2 DEF Deps, Inv, BoundInv

LEMMA Visits ==
  ASSUME Inv, VisitRoot \/ VisitDependency
  PROVE  Inv'
  <1>1. CASE VisitRoot
    <2> DEFINE u == Least(Units \ Ordered)
    <2>1. u \in Units \ Ordered
      BY <1>1, LeastOf DEF VisitRoot, Inv, BoundInv
    <2>2. stack = <<>> /\ stack' = <<u>> /\ OnStack = {}
      BY <1>1 DEF VisitRoot, OnStack
    <2>3. stack' = Append(stack, u)
      BY <2>2
    <2> HIDE DEF u
    <2> QED BY <1>1, <2>1, <2>2, <2>3, StackGrows DEF VisitRoot
  <1>2. CASE VisitDependency
    <2> DEFINE rest == Unvisited(stack[Len(stack)])
               dep == Least(rest)
    <2>1. CASE dep \notin Units \/ dep \in OnStack
      BY <1>2, <2>1, StackGrows DEF VisitDependency, Refused
    <2>2. CASE dep \in Units /\ dep \notin OnStack
      <3>1. stack' = Append(stack, dep) /\ UNCHANGED phase /\ rest # {}
        BY <1>2, <2>2 DEF VisitDependency
      <3>2. dep \in rest
        <4>1. stack[Len(stack)] \in Units
          BY <1>2, Appended DEF VisitDependency, Inv, Sequences, OnceInv, OnStack
        <4>2. rest \subseteq Names
          BY <1>2, <4>1, DepsAreNames DEF Unvisited, VisitDependency
        <4> QED BY <3>1, <4>2, LeastOf
      <3>3. dep \in Deps(stack[Len(stack)]) /\ dep \notin Ordered
        BY <3>2 DEF Unvisited
      <3> HIDE DEF dep, rest
      <3> QED BY <1>2, <2>2, <3>1, <3>3, StackGrows DEF VisitDependency
    <2> QED BY <2>1, <2>2
  <1> QED BY <1>1, <1>2

\* The unit on top of the stack goes to the order.
LEMMA Orders ==
  ASSUME Inv, Order
  PROVE  Inv'
  <1> DEFINE u == stack[Len(stack)]
  <1>1. /\ phase = "sort" /\ stack # <<>> /\ order' = Append(order, u)
        /\ stack' = SubSeq(stack, 1, Len(stack) - 1)
        /\ UNCHANGED <<scenario, registry, phase, bindings, planned>>
    BY DEF Order
  <1>2. Deps(u) \subseteq Ordered
    BY DEF Order, Unvisited
  <1>3. /\ \E S : stack' \in Seq(S)
        /\ Len(stack) \in Nat \ {0} /\ DOMAIN stack = 1..Len(stack) /\ DOMAIN stack' = 1..Len(stack) - 1
        /\ \A i \in DOMAIN stack' : stack'[i] = stack[i]
    BY <1>1, Popped DEF Inv, Sequences
  <1>4. u \in OnStack /\ u \in Units /\ u \notin Ordered
    BY <1>3 DEF OnStack, Inv, OnceInv
  <1>5. OnStack' = OnStack \ {u}
    BY <1>3 DEF OnStack, Inv, OnceInv
  <1> HIDE DEF u
  <1>6a. \E S : order' \in Seq(S)
    BY <1>1, Appended DEF Inv, Sequences
  <1>6. /\ Len(order) \in Nat /\ DOMAIN order = 1..Len(order) /\ DOMAIN order' = 1..Len(order) + 1
        /\ order'[Len(order) + 1] = u
        /\ \A i \in DOMAIN order : order'[i] = order[i]
    BY <1>1, Appended DEF Inv, Sequences
  <1>7. Ordered' = Ordered \cup {u}
    BY <1>6 DEF Ordered
  <1>8. Sequences'
    BY <1>1, <1>3, <1>6a DEF Inv, Sequences
  <1>9. BoundInv'
    <2>1. planned' = <<>>
      BY <1>1 DEF Inv, OrderInv
    <2> QED BY <1>1, <2>1, SameScenario DEF Inv, BoundInv
  <1>10. OrderInv'
    <2>1. \A i \in DOMAIN order : \A d \in Deps(order[i]) : \E j \in 1..i - 1 : order[j] = d /\ j \in DOMAIN order
      BY <1>6 DEF Inv, OrderInv
    <2>2. \A x : Deps(x)' = Deps(x)
      BY <1>1, SameScenario
    <2>3. \A i \in DOMAIN order : \A d \in Deps(order'[i]) : \E j \in 1..i - 1 : order'[j] = d
      BY <1>6, <2>1
    <2>4. \A d \in Deps(u) : \E j \in 1..Len(order) : order'[j] = d
      BY <1>2, <1>6 DEF Ordered
    <2>6. \A i \in DOMAIN order' : \A d \in Deps(order'[i]) : \E j \in 1..i - 1 : order'[j] = d
      <3>1. SUFFICES ASSUME NEW i \in DOMAIN order', NEW d \in Deps(order'[i])
                     PROVE  \E j \in 1..i - 1 : order'[j] = d
        OBVIOUS
      <3>2. CASE i \in DOMAIN order
        BY <2>3, <3>1, <3>2
      <3>3. CASE i = Len(order) + 1
        <4>1. order'[i] = u /\ i - 1 = Len(order)
          BY <1>6, <3>3
        <4>2. d \in Deps(u)
          BY <3>1, <4>1
        <4> QED BY <2>4, <4>1, <4>2
      <3> QED BY <1>6, <3>1, <3>2, <3>3
    <2>7. \A i \in DOMAIN order' : Deps(order[i])' = Deps(order'[i])
      BY <1>1 DEF Deps
    <2>5. planned' = <<>> /\ DOMAIN planned' = {}
      BY <1>1 DEF Inv, OrderInv
    <2> QED BY <2>5, <2>6, <2>7 DEF OrderInv
  <1>11. OnceInv'
    <2>1. \A i, j \in DOMAIN order' : order'[i] = order'[j] => i = j
      BY <1>4, <1>6 DEF Inv, OnceInv, Ordered
    <2>2. \A i, j \in DOMAIN stack' : stack'[i] = stack'[j] => i = j
      BY <1>3 DEF Inv, OnceInv
    <2> QED BY <1>1, <1>4, <1>5, <1>7, <2>1, <2>2, SameScenario DEF Inv, OnceInv
  <1>12. PathInv'
    <2>1. ASSUME NEW i \in DOMAIN stack', i # 1 PROVE stack'[i] \in Deps(stack'[i - 1])
      <3>1. i \in DOMAIN stack /\ i - 1 \in DOMAIN stack'
        BY <1>3, <2>1
      <3> QED BY <1>3, <2>1, <3>1 DEF Inv, PathInv
    <2>2. \A i \in DOMAIN stack' : Deps(stack'[i - 1]) = Deps(stack[i - 1])'
      BY <1>1 DEF Deps
    <2> QED BY <2>1, <2>2 DEF PathInv
  <1> QED BY <1>8, <1>9, <1>10, <1>11, <1>12 DEF Inv

\* The steps after the sort.
LEMMA Plans ==
  ASSUME Inv, Sorted \/ CheckUnit \/ AllChecked \/ RunUnits
  PROVE  Inv'
  <1>1. /\ UNCHANGED <<scenario, registry, bindings, stack, order>>
        /\ phase \in {"sort", "units"} /\ phase' \in {"units", "idle"}
    BY DEF Sorted, CheckUnit, AllChecked, RunUnits, Refused
  <1>2. OnceInv'
    BY <1>1, SameScenario DEF Inv, OnceInv, OnStack, Ordered
  <1>3. CASE planned' = planned
    BY <1>1, <1>2, <1>3, SameScenario, PathStays DEF Inv, Sequences, BoundInv, OrderInv
  <1>4. CASE planned' # planned
    <2>1. /\ Len(planned) < Len(order) /\ planned' = Append(planned, order[Len(planned) + 1])
          /\ phase = "units" /\ phase' = "units"
      BY <1>4 DEF Sorted, CheckUnit, AllChecked, RunUnits
    <2>2. /\ Len(planned) \in Nat /\ DOMAIN planned = 1..Len(planned)
          /\ DOMAIN planned' = 1..Len(planned) + 1
          /\ planned'[Len(planned) + 1] = order[Len(planned) + 1]
          /\ \A i \in DOMAIN planned : planned'[i] = planned[i]
      BY <2>1, Appended DEF Inv, Sequences
    <2>3. Len(order) \in Nat /\ DOMAIN order = 1..Len(order)
      BY Appended DEF Inv, Sequences
    <2>4. Sequences'
      BY <1>1, <2>1, Appended DEF Inv, Sequences
    <2>5. OrderInv'
      <3>1. \A i \in DOMAIN planned' : i \in DOMAIN order /\ planned'[i] = order[i]
        BY <2>1, <2>2, <2>3 DEF Inv, OrderInv
      <3> QED BY <1>1, <2>1, <3>1, SameScenario DEF Inv, OrderInv
    <2>6. BoundInv'
      <3>1. order # <<>>
        BY <2>1, <2>2
      <3> QED BY <1>1, <2>1, <3>1, SameScenario DEF Inv, BoundInv
    <2> QED BY <1>1, <1>2, <2>4, <2>5, <2>6, PathStays DEF Inv
  <1> QED BY <1>3, <1>4

LEMMA Stutters ==
  ASSUME Inv, UNCHANGED graphVars
  PROVE  Inv'
  <1> USE SameScenario DEF graphVars, Inv
  <1>1. Sequences'
    BY DEF Sequences
  <1>2. BoundInv'
    BY DEF BoundInv
  <1>3. OrderInv'
    BY DEF OrderInv
  <1>4. OnceInv'
    BY DEF OnceInv, OnStack, Ordered
  <1>5. PathInv'
    BY PathStays
  <1> QED BY <1>1, <1>2, <1>3, <1>4, <1>5

\* The invariant holds of the engine, whoever calls it.
THEOREM InvHolds == GraphSpec => []Inv
  <1> DEFINE N == GraphNext \/ \E m \in {"validate", "explain", "plan", "run"} : Call(m)
  <1>1. Inv /\ [N]_graphVars => Inv'
    <2> SUFFICES ASSUME Inv, [N]_graphVars PROVE Inv'
      OBVIOUS
    <2>1. CASE GraphNext
      BY <2>1, Builds, Visits, Orders, Plans DEF GraphNext
    <2>2. CASE \E m \in {"validate", "explain", "plan", "run"} : Call(m)
      BY <2>2, Starts
    <2> QED BY <2>1, <2>2, Stutters
  <1> QED BY <1>1, Initially, PTL DEF GraphSpec

-----------------------------------------------------------------------------
(* What it means.                                                          *)

\* Every input of a unit in the order is bound soundly, and never by a guess
\* (resolveInput, WiringIsSound).
THEOREM WiringHolds == GraphSpec => []WiringIsSound
  <1>1. Inv => WiringIsSound
    <2> SUFFICES ASSUME Inv, NEW u \in Ordered, NEW in \in DefinitionOf(u).inputs
                 PROVE  LET bound == {b \in bindings[u] : b.input = in.name}
                            typed == {p \in Providers : p.type = in.type}
                        IN /\ bound = {} => in.optional /\ ~Explicit(u, in) /\ typed \subseteq {p \in typed : p.unit = u}
                           /\ \A b \in bound :
                                /\ \E p \in typed : p.unit = b.unit /\ p.port = b.port
                                /\ b.unit # u
                                /\ ~Explicit(u, in) => \A p \in typed : p.unit = u \/ (p.unit = b.unit /\ p.port = b.port)
                                /\ \A c \in bound : c = b
      BY DEF WiringIsSound
    <2> DEFINE typed == {p \in Providers : p.type = in.type}
               bound == {b \in bindings[u] : b.input = in.name}
               source == SourcesFor(u, in)
    <2>1. Acceptable /\ bindings[u] = Bind(u) /\ u \in Units
      BY Appended DEF Inv, Sequences, BoundInv, OnceInv, Ordered
    <2>2. Wireable(u, in)
      BY <2>1 DEF Acceptable
    <2>3. \A b \in bound : \E p \in source : b = [input |-> in.name, unit |-> p.unit, port |-> p.port]
      <3>1. SUFFICES ASSUME NEW b \in bound
                     PROVE  \E p \in source : b = [input |-> in.name, unit |-> p.unit, port |-> p.port]
        OBVIOUS
      <3>2. PICK j \in DefinitionOf(u).inputs :
                  \E p \in SourcesFor(u, j) : b = [input |-> j.name, unit |-> p.unit, port |-> p.port]
        BY <2>1, BindingsOf
      <3>3. j.name = in.name
        BY <3>2
      <3> QED BY <2>1, <3>2, <3>3, InputsDiffer
    <2>4. \A p \in source : [input |-> in.name, unit |-> p.unit, port |-> p.port] \in bound
      BY <2>1, BindingsOf
    <2>5. \A b \in bound : b.unit # u
      <3>1. SUFFICES ASSUME NEW b \in bound, b.unit = u PROVE FALSE
        OBVIOUS
      <3>2. u \in Deps(u)
        BY <3>1 DEF Deps
      <3>3. PICK i \in DOMAIN order : order[i] = u
        BY DEF Ordered
      <3>4. PICK j \in 1..i - 1 : order[j] = u
        BY <3>2, <3>3 DEF Inv, OrderInv
      <3>5. j \in DOMAIN order /\ j # i
        BY Appended DEF Inv, Sequences
      <3> QED BY <3>3, <3>4, <3>5 DEF Inv, OnceInv
    <2>6. ~Explicit(u, in) => source = {p \in typed : p.unit # u}
      BY DEF SourcesFor
    <2>7. source \subseteq typed
      BY SourcesAre
    <2>8. CASE source = {} /\ in.optional /\ ~Explicit(u, in)
      BY <2>3, <2>6, <2>8
    <2>9. CASE \E p \in Providers : source = {p}
      <3>1. PICK p \in typed : source = {p}
        BY <2>7, <2>9
      <3>2. bound = {[input |-> in.name, unit |-> p.unit, port |-> p.port]}
        BY <2>3, <2>4, <3>1
      <3> HIDE DEF bound, typed, source
      <3>3. \A b \in bound : b.unit = p.unit /\ b.port = p.port /\ \A c \in bound : c = b
        BY <3>2
      <3>4. ~Explicit(u, in) => \A q \in typed : q.unit = u \/ q = p
        BY <2>6, <3>1
      <3> QED BY <2>5, <3>1, <3>2, <3>3, <3>4 DEF bound, typed
    <2> QED BY <2>2, <2>8, <2>9 DEF Wireable
  <1> QED BY <1>1, InvHolds, PTL

\* A unit is validated and planned after every unit it depends on (topoSort, Plan).
THEOREM PlansHold == GraphSpec => []PlansFollowOrder
  <1>1. Inv => PlansFollowOrder
    <2> SUFFICES ASSUME Inv, NEW i \in DOMAIN planned, NEW d \in Deps(planned[i])
                 PROVE  \E j \in 1..i - 1 : planned[j] = d
      BY DEF PlansFollowOrder
    <2>1. i \in DOMAIN order /\ planned[i] = order[i]
      BY DEF Inv, OrderInv
    <2>2. PICK j \in 1..i - 1 : order[j] = d
      BY <2>1 DEF Inv, OrderInv
    <2>3. j \in DOMAIN planned
      BY Appended DEF Inv, Sequences
    <2> QED BY <2>2, <2>3 DEF Inv, OrderInv
  <1> QED BY <1>1, InvHolds, PTL

\* No unit is ordered or planned twice (topoSort).
THEOREM OnceHolds == GraphSpec => []EachOnce
  <1>1. Inv => EachOnce
    BY DEF Inv, OnceInv, OrderInv, EachOnce
  <1> QED BY <1>1, InvHolds, PTL

-----------------------------------------------------------------------------
(* The sort keeps the promise of module UnitOrder.                         *)

LEMMA Seen ==
  ASSUME Inv
  PROVE  /\ phase = "sort" => VerdictSeen = "sorting" /\ bindings # <<>>
         /\ phase # "sort" /\ bindings = <<>> => VerdictSeen = "none" /\ order = <<>>
         /\ phase # "sort" /\ bindings # <<>> =>
              VerdictSeen = IF Units \subseteq Ordered THEN "sorted" ELSE "refused"
         /\ bindings = <<>> => DepsSeen = <<>>
         /\ bindings # <<>> => DepsSeen = [u \in Units |-> Deps(u)]
  <1>1. ASSUME Units # {}, bindings = [u \in Units |-> Bind(u)] PROVE bindings # <<>>
    <2>1. DOMAIN bindings = Units /\ DOMAIN <<>> = {}
      BY <1>1
    <2> QED BY <1>1, <2>1
  <1>2. phase = "sort" \/ order # <<>> => bindings # <<>>
    BY <1>1 DEF Inv, BoundInv, Acceptable
  <1> QED BY <1>2 DEF VerdictSeen, DepsSeen

\* Units that depend on each other in a circle have no order.
LEMMA CircleHasNoOrder ==
  ASSUME Inv, phase = "sort", stack # <<>>, NEW dep \in Deps(stack[Len(stack)]),
         dep \notin Units \/ dep \in OnStack
  PROVE  ~(\E rank \in [Units -> 1..Cardinality(Units)] :
              \A u \in Units : \A d \in Deps(u) : d \in Units /\ rank[d] < rank[u])
  <1> SUFFICES ASSUME NEW rank \in [Units -> 1..Cardinality(Units)],
                      \A u \in Units : \A d \in Deps(u) : d \in Units /\ rank[d] < rank[u]
               PROVE  FALSE
    OBVIOUS
  <1>1. /\ Len(stack) \in Nat \ {0} /\ DOMAIN stack = 1..Len(stack)
        /\ \A i \in DOMAIN stack : stack[i] \in Units
    <2>1. Len(stack) \in Nat \ {0} /\ DOMAIN stack = 1..Len(stack)
      BY Popped DEF Inv, Sequences
    <2> QED BY <2>1 DEF Inv, OnceInv, OnStack
  <1>2. \A u \in Units : rank[u] \in Nat
    <2>1. Cardinality(Units) \in Nat
      BY FS_CardinalityType DEF Inv, BoundInv
    <2> QED BY <2>1
  <1>3. dep \in Units
    BY <1>1
  <1>4. PICK k \in DOMAIN stack : stack[k] = dep
    BY <1>3 DEF OnStack
  <1> DEFINE circle == {rank[stack[i]] : i \in k..Len(stack)}
  <1>5. circle \subseteq Nat /\ circle # {}
    BY <1>1, <1>2, <1>4
  <1>6. PICK r \in circle : \A s \in circle : r <= s
    BY <1>5, LeastNumber
  <1>7. PICK i \in k..Len(stack) : r = rank[stack[i]]
    OBVIOUS
  <1> DEFINE next == IF i = Len(stack) THEN k ELSE i + 1
  <1>8. next \in k..Len(stack) /\ i \in DOMAIN stack /\ next \in DOMAIN stack
    <2>1. k \in 1..Len(stack) /\ Len(stack) \in Nat /\ i \in k..Len(stack)
      BY <1>1, <1>4, <1>7
    <2>2. next \in k..Len(stack) /\ next \in 1..Len(stack) /\ i \in 1..Len(stack)
      BY <2>1
    <2> HIDE DEF next, circle
    <2> QED BY <1>1, <2>1, <2>2
  <1>9. stack[next] \in Deps(stack[i])
    <2>1. CASE i = Len(stack)
      BY <1>4, <2>1
    <2>2. CASE i # Len(stack)
      <3>1. next = i + 1 /\ next # 1 /\ next - 1 = i
        <4>1. k \in 1..Len(stack) /\ Len(stack) \in Nat /\ i \in k..Len(stack)
          BY <1>1, <1>4, <1>7
        <4> QED BY <2>2, <4>1
      <3> QED BY <1>8, <3>1 DEF Inv, PathInv
    <2> QED BY <2>1, <2>2
  <1>10. rank[stack[next]] < rank[stack[i]] /\ rank[stack[next]] \in circle
    BY <1>1, <1>8, <1>9
  <1>11. rank[stack[next]] \in Nat /\ rank[stack[i]] \in Nat
    BY <1>1, <1>2, <1>8
  <1> HIDE DEF circle, next
  <1> QED BY <1>6, <1>7, <1>10, <1>11

\* Each step of the engine is a step of UnitOrder, or none of its business.
LEMMA StepsAreSorts ==
  ASSUME Inv, Inv', GraphNext \/ (\E m \in {"validate", "explain", "plan", "run"} : Call(m))
  PROVE  \/ DepsSeen' = DepsSeen /\ order' = order /\ VerdictSeen' = VerdictSeen
         \/ VerdictSeen = "none" /\ order' = <<>> /\ VerdictSeen' = "sorting"
         \/ /\ VerdictSeen = "sorting" /\ DepsSeen' = DepsSeen
            /\ \/ /\ VerdictSeen' = "sorting"
                  /\ \E u \in DOMAIN DepsSeen : /\ u \notin Ordered /\ DepsSeen[u] \subseteq Ordered
                                                /\ order' = Append(order, u)
               \/ Ordered = DOMAIN DepsSeen /\ VerdictSeen' = "sorted" /\ order' = order
               \/ /\ VerdictSeen' = "refused" /\ order' = order
                  /\ ~(\E rank \in [DOMAIN DepsSeen -> 1..Cardinality(DOMAIN DepsSeen)] :
                         \A u \in DOMAIN DepsSeen : \A d \in DepsSeen[u] :
                            d \in DOMAIN DepsSeen /\ rank[d] < rank[u])
         \/ /\ VerdictSeen \in {"sorted", "refused"} /\ VerdictSeen' = "none"
            /\ DepsSeen' = <<>> /\ order' = <<>>
  <1> DEFINE Same == DepsSeen' = DepsSeen /\ order' = order /\ VerdictSeen' = VerdictSeen
  <1>1. CASE \E m \in {"validate", "explain", "plan", "run"} : Call(m)
    <2>1. /\ phase = "idle" /\ phase' = "build" /\ bindings' = <<>> /\ order' = <<>>
      BY <1>1 DEF Call
    <2>2. DepsSeen' = <<>> /\ VerdictSeen' = "none"
      BY <2>1 DEF DepsSeen, VerdictSeen
    <2> QED BY <2>1, <2>2, Seen
  <1>2. CASE BuildGraph
    <2>1. phase = "build" /\ bindings = <<>> /\ order' = order /\ order = <<>>
      BY <1>2 DEF BuildGraph, Inv, BoundInv
    <2>2. CASE phase' = "sort"
      BY <2>1, <2>2, Seen DEF VerdictSeen
    <2>3. CASE phase' # "sort"
      <3>1. phase' = "idle" /\ bindings' = <<>>
        BY <1>2, <2>1, <2>3 DEF BuildGraph, Refused
      <3> QED BY <2>1, <3>1 DEF VerdictSeen, DepsSeen
    <2> QED BY <2>2, <2>3
  <1>3. ASSUME UNCHANGED <<scenario, registry, bindings>>
        PROVE  DepsSeen' = DepsSeen /\ Units' = Units
    BY <1>3, SameScenario DEF DepsSeen
  <1>4. ASSUME phase = "sort"
        PROVE  /\ VerdictSeen = "sorting" /\ DepsSeen = [u \in Units |-> Deps(u)]
               /\ bindings # <<>> /\ DOMAIN DepsSeen = Units
    BY <1>4, Seen
  <1>5. CASE VisitRoot
    BY <1>3, <1>5 DEF VisitRoot, VerdictSeen
  <1>6. CASE VisitDependency
    <2> DEFINE rest == Unvisited(stack[Len(stack)])
               dep == Least(rest)
    <2>0. /\ phase = "sort" /\ stack # <<>> /\ rest # {}
          /\ UNCHANGED <<scenario, registry, bindings, order>>
          /\ IF dep \notin Units \/ dep \in OnStack THEN phase' = "idle" ELSE UNCHANGED phase
      BY <1>6 DEF VisitDependency, Refused
    <2>1. CASE ~(dep \notin Units \/ dep \in OnStack)
      BY <1>3, <2>0, <2>1 DEF VerdictSeen
    <2>2. CASE dep \notin Units \/ dep \in OnStack
      <3>1. stack[Len(stack)] \in Units \ Ordered
        <4>1. Len(stack) \in DOMAIN stack
          BY <2>0, Popped DEF Inv, Sequences
        <4> QED BY <4>1 DEF Inv, OnceInv, OnStack
      <3>2. dep \in Deps(stack[Len(stack)])
        <4>1. rest \subseteq Names
          BY <2>0, <3>1, DepsAreNames DEF Unvisited
        <4>2. dep \in rest
          BY <2>0, <4>1, LeastOf
        <4> QED BY <4>2 DEF Unvisited
      <3> HIDE DEF dep, rest
      <3>3. ~(\E rank \in [Units -> 1..Cardinality(Units)] :
              \A u \in Units : \A d \in Deps(u) : d \in Units /\ rank[d] < rank[u])
        BY <2>0, <2>2, <3>2, CircleHasNoOrder
      <3>4. VerdictSeen' = "refused"
        <4>1. phase' = "idle" /\ bindings' # <<>> /\ Units' = Units /\ Ordered' = Ordered
          BY <1>3, <1>4, <2>0, <2>2 DEF Ordered
        <4> QED BY <3>1, <4>1 DEF VerdictSeen
      <3>5. \A u \in Units : DepsSeen[u] = Deps(u)
        BY <1>4, <2>0
      <3>6. ~(\E rank \in [DOMAIN DepsSeen -> 1..Cardinality(DOMAIN DepsSeen)] :
                \A u \in DOMAIN DepsSeen : \A d \in DepsSeen[u] :
                   d \in DOMAIN DepsSeen /\ rank[d] < rank[u])
        BY <1>4, <2>0, <3>3, <3>5
      <3> QED BY <1>3, <1>4, <2>0, <3>4, <3>6
    <2> QED BY <2>1, <2>2
  <1>7. CASE Order
    <2> DEFINE u == stack[Len(stack)]
    <2>1. /\ phase = "sort" /\ phase' = "sort" /\ stack # <<>> /\ order' = Append(order, u)
          /\ Unvisited(u) = {} /\ UNCHANGED <<scenario, registry, bindings>>
      BY <1>7 DEF Order
    <2>2. u \in Units \ Ordered
      <3>1. Len(stack) \in DOMAIN stack
        BY <2>1, Popped DEF Inv, Sequences
      <3> QED BY <3>1 DEF Inv, OnceInv, OnStack
    <2> HIDE DEF u
    <2>3. Deps(u) \subseteq Ordered
      BY <2>1 DEF Unvisited
    <2>4. u \in DOMAIN DepsSeen /\ DepsSeen[u] = Deps(u)
      BY <1>4, <2>1, <2>2
    <2>5. VerdictSeen' = "sorting" /\ VerdictSeen = "sorting" /\ DepsSeen' = DepsSeen
      BY <1>3, <1>4, <2>1 DEF VerdictSeen
    <2> QED BY <2>1, <2>2, <2>3, <2>4, <2>5
  <1>8. CASE Sorted
    <2>1. /\ phase = "sort" /\ phase' = "units" /\ Units \subseteq Ordered
          /\ UNCHANGED <<scenario, registry, bindings, order>>
      BY <1>8 DEF Sorted
    <2>2. bindings' # <<>> /\ Units' = Units /\ Ordered' = Ordered
      BY <1>3, <1>4, <2>1 DEF Ordered
    <2>3. VerdictSeen' = "sorted"
      BY <2>1, <2>2 DEF VerdictSeen
    <2>4. Ordered = DOMAIN DepsSeen
      BY <1>4, <2>1 DEF Inv, OnceInv
    <2> QED BY <1>3, <1>4, <2>1, <2>3, <2>4
  <1>9. CASE CheckUnit \/ AllChecked \/ RunUnits
    <2>1. /\ phase = "units" /\ phase' \in {"units", "idle"}
          /\ UNCHANGED <<scenario, registry, bindings, order>>
      BY <1>9 DEF CheckUnit, AllChecked, RunUnits, Refused
    <2>2. Ordered' = Ordered
      BY <2>1 DEF Ordered
    <2> QED BY <1>3, <2>1, <2>2 DEF VerdictSeen
  <1> QED BY <1>1, <1>2, <1>5, <1>6, <1>7, <1>8, <1>9 DEF GraphNext

\* The engine, whatever scenarios it is called with, does what UnitOrder promises,
\* step by step: a unit is ordered once all it depends on is, the order is accepted
\* when it is complete, and a scenario is refused only when it has no order (topoSort).
THEOREM OrderIsSound == GraphSpec => UnitsInOrder!Init /\ [][UnitsInOrder!Next]_(UnitsInOrder!vars)
  <1> DEFINE N == GraphNext \/ \E m \in {"validate", "explain", "plan", "run"} : Call(m)
  <1>1. GraphInit => UnitsInOrder!Init
    BY DEF GraphInit, UnitsInOrder!Init, DepsSeen, VerdictSeen
  <1>2. Inv /\ Inv' /\ [N]_graphVars => [UnitsInOrder!Next]_(UnitsInOrder!vars)
    <2> SUFFICES ASSUME Inv, Inv', [N]_graphVars PROVE [UnitsInOrder!Next]_(UnitsInOrder!vars)
      OBVIOUS
    <2>1. CASE UNCHANGED graphVars
      <3>1. DepsSeen' = DepsSeen /\ order' = order /\ VerdictSeen' = VerdictSeen
        BY <2>1, SameScenario DEF graphVars, DepsSeen, VerdictSeen, Ordered
      <3> QED BY <3>1 DEF UnitsInOrder!vars
    <2>2. CASE N
      <3> USE DEF UnitsInOrder!Next, UnitsInOrder!Sort, UnitsInOrder!vars, UnitsInOrder!Ordered,
                  Ordered
      <3>1. CASE DepsSeen' = DepsSeen /\ order' = order /\ VerdictSeen' = VerdictSeen
        BY <3>1
      <3>2. CASE VerdictSeen = "none" /\ order' = <<>> /\ VerdictSeen' = "sorting"
        BY <3>2 DEF UnitsInOrder!Receive
      <3>3. CASE /\ VerdictSeen \in {"sorted", "refused"} /\ VerdictSeen' = "none"
                 /\ DepsSeen' = <<>> /\ order' = <<>>
        BY <3>3 DEF UnitsInOrder!Forget
      <3>4. CASE VerdictSeen = "sorting" /\ DepsSeen' = DepsSeen
        <4>1. ASSUME NEW u \in DOMAIN DepsSeen, u \notin Ordered, DepsSeen[u] \subseteq Ordered,
                     order' = Append(order, u), VerdictSeen' = "sorting"
              PROVE  UnitsInOrder!Emit(u)
          BY <3>4, <4>1 DEF UnitsInOrder!Emit
        <4>2. ASSUME Ordered = DOMAIN DepsSeen, VerdictSeen' = "sorted", order' = order
              PROVE  UnitsInOrder!Accept
          BY <3>4, <4>2 DEF UnitsInOrder!Accept
        <4>3. ASSUME ~(\E rank \in [DOMAIN DepsSeen -> 1..Cardinality(DOMAIN DepsSeen)] :
                         \A u \in DOMAIN DepsSeen : \A d \in DepsSeen[u] :
                            d \in DOMAIN DepsSeen /\ rank[d] < rank[u]),
                     VerdictSeen' = "refused", order' = order
              PROVE  UnitsInOrder!Refuse
          BY <3>4, <4>3, Zenon
             DEF UnitsInOrder!Refuse, UnitsInOrder!Sortable, UnitsInOrder!Cardinality, Cardinality
        <4> QED BY <2>2, <3>1, <3>2, <3>3, <3>4, <4>1, <4>2, <4>3, StepsAreSorts
      <3> HIDE DEF UnitsInOrder!Next
      <3> QED BY <2>2, <3>1, <3>2, <3>3, <3>4, StepsAreSorts
    <2> QED BY <2>1, <2>2
  <1> QED BY <1>1, <1>2, InvHolds, PTL DEF GraphSpec

-----------------------------------------------------------------------------
(* The command line: the processes of the plugins and the registry.        *)

\* The clients are numbered in the order they were started in, the processes that
\* run are theirs, and a command that has ended has none.
ClientsInv ==
  /\ \E S : clients \in Seq(S)
  /\ \A i \in DOMAIN clients : clients[i].nth = i
  /\ running = ToSet(clients)
  /\ stage = "shake" => clients # <<>>
  /\ stage = "shell" => clients = <<>>

\* The stages in which plugins are loaded, or have just been.
Loading == {"load", "shake", "register", "engine"}

\* What has answered has a manifest, and is of the batches so far. "plugin check" loads
\* the plugin it has inspected once more, and that one only.
Typed(m) == m.name \in Seq(STRING) /\ m.kinds \in Seq(Seq(STRING))
LoadedInv ==
  /\ \E S : loaded \in Seq(S)
  /\ \A i \in DOMAIN loaded : Typed(loaded[i].manifest)
  /\ stage = "shake" => Target(Head(queue)) \in DOMAIN Exe
  /\ stage = "start" => loaded = <<>>
  /\ stage = "paths" => \A i \in DOMAIN loaded : loaded[i].batch = "official"
  /\ stage \in Loading =>
       /\ batch \in {"official", "external", "inspect", "check"}
       /\ batch = "inspect" => stage \in {"load", "shake"}
       /\ batch = "official" => \A i \in DOMAIN loaded : loaded[i].batch = "official"
       /\ batch = "external" =>
            \A i \in DOMAIN loaded : loaded[i].batch \in {"official", "external"}
       /\ batch = "inspect" /\ cmd.do = "check" =>
            \/ loaded = <<>> /\ \E exe \in {Head(queue)} : queue = <<exe>>
            \/ queue = <<>> /\ Len(loaded) = 1 /\ loaded[1].batch = "inspect" /\ stage # "shake"
       /\ batch = "check" =>
            /\ loaded[1].batch = "inspect" /\ ~HasIssues(loaded[1].manifest)
            /\ \/ /\ Len(loaded) = 1 /\ stage \in {"load", "shake"}
                  /\ \E exe \in {Head(queue)} : queue = <<exe>>
               \/ /\ Len(loaded) = 2 /\ queue = <<>> /\ stage # "shake"
                  /\ loaded[2].batch = "check"

\* The units that loading has dealt with.
AllOffers == Offers("official") \cup Offers("external") \cup Offers("check")
Settled == AllOffers \ (IF stage \in {"load", "shake"} THEN Offers(batch)
                        ELSE IF stage = "register" THEN todo ELSE {})

\* Where a kind of the registry comes from: the binary itself, or a unit that has been
\* dealt with, by its qualified kind or as the only one of its batch.
BareOf(u) ==
  LET kind == KindAt(u)
      b == loaded[u[1]].batch
  IN Named(kind) /\ Providing(b, kind) = {u}
From(k, u) ==
  LET kind == KindAt(u)
  IN \/ k = Qualified(NameAt(u), kind)
     \/ /\ k = kind /\ BareOf(u)
        /\ loaded[u[1]].batch = "external" =>
             \A o \in Offers("official") : Providing("official", kind) # {o}
Sound ==
  /\ \A k \in Builtins : k \in DOMAIN registry /\ registry[k] = Binary
  /\ \A u \in Settled :
       /\ Qualified(NameAt(u), KindAt(u)) \in DOMAIN registry
       /\ registry[Qualified(NameAt(u), KindAt(u))] = ClientAt(u)
       /\ BareOf(u) => KindAt(u) \in DOMAIN registry
  /\ \A k \in DOMAIN registry :
       k \in Builtins \/ \E u \in Settled : registry[k] = ClientAt(u) /\ From(k, u)
RegistryInv ==
  /\ stage = "register" => todo \subseteq Offers(batch)
  /\ stage = "paths" \/ (stage \in Loading /\ batch # "inspect") => Sound

CommandInv == ClientsInv /\ LoadedInv /\ RegistryInv

\* The sequence of the clients, its last one and what is left without it.
LEMMA LastClient ==
  ASSUME ClientsInv, clients # <<>>
  PROVE  /\ \E S : Front(clients) \in Seq(S)
         /\ \A i \in DOMAIN Front(clients) : Front(clients)[i].nth = i
         /\ running \ {Last(clients)} = ToSet(Front(clients))
  <1>1. /\ \E S : Front(clients) \in Seq(S)
        /\ Len(clients) \in Nat \ {0} /\ DOMAIN clients = 1..Len(clients)
        /\ DOMAIN Front(clients) = 1..Len(clients) - 1
        /\ \A i \in DOMAIN Front(clients) : Front(clients)[i] = clients[i]
    BY Popped DEF ClientsInv, Front
  <1>2. \A i, j \in DOMAIN clients : clients[i] = clients[j] => i = j
    BY DEF ClientsInv
  <1>3. \A p : p \in ToSet(clients) \ {Last(clients)} <=> p \in ToSet(Front(clients))
    <2>1. Last(clients) = clients[Len(clients)]
      BY DEF Last
    <2>2. ASSUME NEW p \in ToSet(clients), p # Last(clients) PROVE p \in ToSet(Front(clients))
      <3>1. PICK i \in DOMAIN clients : p = clients[i]
        BY DEF ToSet
      <3>2. i \in DOMAIN Front(clients)
        BY <1>1, <2>1, <2>2, <3>1
      <3> QED BY <1>1, <3>1, <3>2 DEF ToSet
    <2>3. ASSUME NEW p \in ToSet(Front(clients)) PROVE p \in ToSet(clients) /\ p # Last(clients)
      <3>1. PICK i \in DOMAIN Front(clients) : p = clients[i]
        BY <1>1 DEF ToSet
      <3>2. i \in DOMAIN clients /\ i # Len(clients) /\ Len(clients) \in DOMAIN clients
        BY <1>1
      <3> QED BY <1>2, <2>1, <3>1, <3>2 DEF ToSet
    <2> QED BY <2>2, <2>3
  <1> QED BY <1>1, <1>3 DEF ClientsInv

\* Clients are started by StartPlugin and closed by Shake and CloseClient only.
LEMMA ClientsStep ==
  ASSUME ClientsInv, [CommandNext]_commandAll
  PROVE  ClientsInv'
  <1>1. CASE StartPlugin
    <2> DEFINE process == [exe |-> Head(queue), nth |-> Len(clients) + 1]
    <2>1. CASE Target(Head(queue)) \in DOMAIN Exe
      <3>1. running' = running \cup {process} /\ clients' = Append(clients, process) /\ stage' = "shake"
        BY <1>1, <2>1 DEF StartPlugin
      <3>2. /\ \E S : clients' \in Seq(S)
            /\ Len(clients) \in Nat /\ DOMAIN clients = 1..Len(clients)
            /\ DOMAIN clients' = 1..Len(clients) + 1 /\ clients'[Len(clients) + 1] = process
            /\ \A i \in DOMAIN clients : clients'[i] = clients[i]
        <4>1. \E S : clients \in Seq(S)
          BY DEF ClientsInv
        <4> HIDE DEF process
        <4>2. /\ \E S : Append(clients, process) \in Seq(S)
              /\ Len(clients) \in Nat /\ DOMAIN clients = 1..Len(clients)
              /\ DOMAIN Append(clients, process) = 1..Len(clients) + 1
              /\ Append(clients, process)[Len(clients) + 1] = process
              /\ \A i \in DOMAIN clients : Append(clients, process)[i] = clients[i]
          BY <4>1, Appended, ZenonT(30)
        <4> QED BY <3>1, <4>2
      <3>3. process.nth = Len(clients) + 1
        OBVIOUS
      <3> HIDE DEF process
      <3>4. \A i \in DOMAIN clients' : clients'[i].nth = i
        BY <3>2, <3>3 DEF ClientsInv
      <3>5. running' = ToSet(clients')
        <4>1. ToSet(clients') = ToSet(clients) \cup {process}
          BY <3>2 DEF ToSet
        <4> QED BY <3>1, <4>1 DEF ClientsInv
      <3>6. clients' # <<>>
        BY <3>2
      <3> QED BY <3>1, <3>2, <3>4, <3>5, <3>6 DEF ClientsInv
    <2>2. CASE Target(Head(queue)) \notin DOMAIN Exe
      <3>1. UNCHANGED <<clients, running>> /\ stage' \in {"load", "close"}
        BY <1>1, <2>2 DEF StartPlugin, ExitWith
      <3> QED BY <3>1 DEF ClientsInv, ToSet
    <2> QED BY <2>1, <2>2
  <1>2. CASE Shake
    <2>1. stage = "shake" /\ stage' \in {"load", "close"} /\ CloseInspected
      BY <1>2 DEF Shake, ExitWith
    <2>2. clients # <<>>
      BY <2>1 DEF ClientsInv
    <2>3. \/ UNCHANGED <<clients, running>>
          \/ clients' = Front(clients) /\ running' = running \ {Last(clients)}
      BY <2>1 DEF CloseInspected
    <2>4. CASE UNCHANGED <<clients, running>>
      BY <2>1, <2>4 DEF ClientsInv, ToSet
    <2>5. CASE clients' = Front(clients) /\ running' = running \ {Last(clients)}
      BY <2>1, <2>2, <2>5, LastClient DEF ClientsInv
    <2> QED BY <2>3, <2>4, <2>5
  <1>3. CASE CloseClient
    <2>1. /\ stage' = "close" /\ clients # <<>>
          /\ clients' = Front(clients) /\ running' = running \ {Last(clients)}
      BY <1>3 DEF CloseClient, ToClose
    <2> QED BY <2>1, LastClient DEF ClientsInv
  <1>4. ASSUME UNCHANGED <<clients, running>>, stage' # "shake", stage' = "shell" => clients = <<>>
        PROVE  ClientsInv'
    BY <1>4 DEF ClientsInv, ToSet
  <1>5. CASE Exit
    BY <1>4, <1>5 DEF Exit, pluginVars, ToClose
  <1>6. CASE \/ NextCommand \/ ListPlugins \/ ListUnits \/ Add
             \/ BeginDoctor \/ BeginInspect \/ BeginCheck \/ BeginLoading \/ ResolvePaths
             \/ Inspected \/ Loaded \/ RegisterUnit \/ Registered
             \/ CallEngine \/ EngineStep \/ CheckGoesOn \/ WriteReport \/ EngineReturned
    <2>1. UNCHANGED <<clients, running>> /\ stage' # "shake" /\ stage' # "shell"
      <3> USE DEF ExitWith, pluginVars, restVars, Inspect, CannotInspect
      <3>1. CASE NextCommand \/ ListPlugins \/ ListUnits \/ Add
        BY <3>1 DEF NextCommand, ListPlugins, ListUnits, Add
      <3>2. CASE BeginDoctor \/ BeginInspect \/ BeginCheck \/ BeginLoading \/ ResolvePaths
        BY <3>2 DEF BeginDoctor, BeginInspect, BeginCheck, BeginLoading, ResolvePaths
      <3>3. CASE Inspected \/ Loaded \/ RegisterUnit \/ Registered
        BY <3>3 DEF Inspected, Loaded, RegisterUnit, Registered
      <3>4. CASE CallEngine \/ EngineStep \/ CheckGoesOn \/ WriteReport \/ EngineReturned
        BY <3>4 DEF CallEngine, EngineStep, CheckGoesOn, WriteReport, EngineReturned, commandVars,
                    EngineIsBack
      <3> QED BY <1>6, <3>1, <3>2, <3>3, <3>4
    <2> QED BY <1>4, <2>1
  <1>7. CASE UNCHANGED commandAll
    BY <1>7 DEF commandAll, commandVars, ClientsInv, ToSet
  <1> QED BY <1>1, <1>2, <1>3, <1>5, <1>6, <1>7 DEF CommandNext

\* What loaded is, in a stage where it is not used any more.
LEMMA LoadedKept ==
  ASSUME LoadedInv, UNCHANGED loaded, stage' \notin Loading \cup {"start", "paths"}
  PROVE  LoadedInv'
  BY DEF LoadedInv, Loading

LEMMA NothingLoaded ==
  ASSUME loaded' = <<>>
  PROVE  /\ \E S : loaded' \in Seq(S)
         /\ DOMAIN loaded' = {}
  <1>1. loaded' \in Seq({}) /\ DOMAIN loaded' = {}
    OBVIOUS
  <1> QED BY <1>1

\* A stage that goes on with the same batch and the same plugins.
LEMMA SameBatch ==
  ASSUME LoadedInv, UNCHANGED <<loaded, batch, cmd, queue>>, stage \in Loading, stage' \in Loading,
         stage' = "shake" => queue # <<>> /\ Target(Head(queue)) \in DOMAIN Exe,
         stage' \in {"register", "engine"} =>
           (queue = <<>> \/ batch # "check") /\ batch # "inspect"
  PROVE  LoadedInv'
  <1>1. stage' # "start" /\ stage' # "paths"
    BY DEF Loading
  <1>2. batch = "check" /\ Len(loaded) = 1 => stage' \in {"load", "shake"}
    <2>1. \A exe : <<exe>> # <<>>
      OBVIOUS
    <2> QED BY <2>1 DEF LoadedInv, Loading
  <1>3. batch = "check" /\ Len(loaded) = 2 => stage' # "shake"
    <2>1. batch = "check" /\ Len(loaded) = 2 => queue = <<>>
      BY DEF LoadedInv
    <2> QED BY <2>1
  <1>4. batch = "inspect" => stage' \in {"load", "shake"}
    BY DEF Loading
  <1> QED BY <1>1, <1>2, <1>3, <1>4 DEF LoadedInv

LEMMA BeginsLoaded ==
  ASSUME LoadedInv,
         BeginDoctor \/ BeginInspect \/ BeginCheck \/ BeginLoading
  PROVE  LoadedInv'
  <1>1. stage = "start" /\ loaded = <<>> /\ loaded' = <<>> /\ cmd' = cmd
    BY DEF LoadedInv, BeginDoctor, BeginInspect, BeginCheck, BeginLoading, restVars
  <1>2. (\E S : loaded' \in Seq(S)) /\ DOMAIN loaded' = {}
    BY <1>1, NothingLoaded
  <1>3. CASE stage' = "close"
    BY <1>1, <1>3, LoadedKept DEF Loading
  <1>4. CASE BeginLoading
    <2>1. stage' = "paths" \/ (stage' = "load" /\ batch' = "official")
      BY <1>4 DEF BeginLoading
    <2> QED BY <1>1, <1>2, <2>1 DEF LoadedInv, Loading
  <1>5. CASE (BeginDoctor \/ BeginInspect \/ BeginCheck) /\ stage' # "close"
    <2>1. stage' = "load" /\ batch' = "inspect"
      BY <1>5 DEF BeginDoctor, BeginInspect, BeginCheck, Inspect, CannotInspect, ExitWith
    <2>2. cmd.do = "check" => \E exe \in {Head(queue')} : queue' = <<exe>>
      <3>1. SUFFICES ASSUME cmd.do = "check" PROVE \E exe \in {Head(queue')} : queue' = <<exe>>
        OBVIOUS
      <3>2. BeginCheck
        BY <1>5, <3>1 DEF BeginDoctor, BeginInspect
      <3>3. queue' = <<Executable(TargetPath(cmd.path))>>
        BY <2>1, <3>2 DEF BeginCheck, Inspect, CannotInspect, ExitWith
      <3> QED BY <3>3
    <2> QED BY <1>1, <1>2, <2>1, <2>2 DEF LoadedInv, Loading
  <1> QED BY <1>3, <1>4, <1>5

\* A plugin that has answered is appended.
LEMMA ShakeLoaded ==
  ASSUME LoadedInv, Shake
  PROVE  LoadedInv'
  <1>1. /\ stage = "shake" /\ UNCHANGED <<cmd, batch>> /\ stage' \in {"load", "close"}
        /\ Target(Head(queue)) \in DOMAIN Exe
    BY DEF Shake, ExitWith, LoadedInv
  <1>2. PICK answer \in Exe[Target(Head(queue))] :
          CASE answer.shake = "ok" ->
                 /\ loaded' = Append(loaded, [batch |-> batch, client |-> Last(clients),
                                              manifest |-> answer.manifest])
                 /\ queue' = Tail(queue) /\ stage' = "load"
            [] answer.shake # "ok" /\ batch = "inspect" /\ cmd.do = "doctor" ->
                 queue' = Tail(queue) /\ stage' = "load" /\ UNCHANGED loaded
            [] OTHER -> stage' = "close" /\ queue' = <<>> /\ UNCHANGED loaded
    BY DEF Shake, ExitWith
  <1>3. CASE stage' = "close"
    <2>1. UNCHANGED loaded
      BY <1>2, <1>3
    <2> QED BY <1>3, <2>1, LoadedKept DEF Loading
  <1>4. CASE stage' = "load" /\ answer.shake # "ok"
    <2>1. UNCHANGED loaded /\ batch = "inspect" /\ cmd.do = "doctor"
      BY <1>2, <1>4
    <2> QED BY <1>1, <1>4, <2>1 DEF LoadedInv, Loading
  <1>5. CASE stage' = "load" /\ answer.shake = "ok"
    <2> DEFINE p == [batch |-> batch, client |-> Last(clients), manifest |-> answer.manifest]
    <2>1. loaded' = Append(loaded, p) /\ queue' = Tail(queue)
      BY <1>2, <1>5
    <2>2. /\ \E S : loaded' \in Seq(S)
          /\ Len(loaded) \in Nat /\ DOMAIN loaded = 1..Len(loaded)
          /\ DOMAIN loaded' = 1..Len(loaded) + 1 /\ loaded'[Len(loaded) + 1] = p
          /\ \A i \in DOMAIN loaded : loaded'[i] = loaded[i]
      <3>1. \E S : loaded \in Seq(S)
        BY DEF LoadedInv
      <3> HIDE DEF p
      <3>2. /\ \E S : Append(loaded, p) \in Seq(S)
            /\ Len(loaded) \in Nat /\ DOMAIN loaded = 1..Len(loaded)
            /\ DOMAIN Append(loaded, p) = 1..Len(loaded) + 1
            /\ Append(loaded, p)[Len(loaded) + 1] = p
            /\ \A i \in DOMAIN loaded : Append(loaded, p)[i] = loaded[i]
        BY <3>1, Appended, ZenonT(30)
      <3> QED BY <2>1, <3>2
    <2>3. Typed(p.manifest) /\ p.batch = batch
      BY <1>1, ExeAssumption DEF Typed
    <2> HIDE DEF p
    <2>4. \A i \in DOMAIN loaded' : i \in DOMAIN loaded \/ (i = Len(loaded) + 1 /\ loaded'[i] = p)
      BY <2>2
    <2>5. Len(loaded') = Len(loaded) + 1
      BY <2>2
    <2>6. \A i \in DOMAIN loaded' : Typed(loaded'[i].manifest)
      BY <2>2, <2>3, <2>4 DEF LoadedInv
    <2>7. CASE batch = "inspect" /\ cmd.do = "check"
      <3>1. loaded = <<>> /\ \E exe \in {Head(queue)} : queue = <<exe>>
        BY <1>1, <2>7 DEF LoadedInv, Loading
      <3>2. queue' = <<>> /\ Len(loaded) = 0
        BY <2>1, <3>1
      <3>3. loaded'[1] = p /\ Len(loaded') = 1 /\ loaded'[1].batch = "inspect"
        BY <2>2, <2>3, <2>5, <2>7, <3>2
      <3> QED BY <1>1, <1>5, <2>2, <2>6, <2>7, <3>2, <3>3 DEF LoadedInv, Loading
    <2>8. CASE batch = "check"
      <3>1. /\ Len(loaded) = 1 /\ \E exe \in {Head(queue)} : queue = <<exe>>
            /\ loaded[1].batch = "inspect" /\ ~HasIssues(loaded[1].manifest)
        BY <1>1, <2>8 DEF LoadedInv, Loading
      <3>2. /\ queue' = <<>> /\ loaded'[1] = loaded[1] /\ loaded'[2] = p
            /\ Len(loaded') = 2 /\ loaded'[2].batch = "check"
        BY <2>1, <2>2, <2>3, <2>5, <2>8, <3>1
      <3>3. loaded'[1].batch = "inspect" /\ ~HasIssues(loaded'[1].manifest)
        BY <3>1, <3>2
      <3> QED BY <1>1, <1>5, <2>2, <2>6, <2>8, <3>2, <3>3 DEF LoadedInv, Loading, HasIssues
    <2>9. CASE batch # "check" /\ ~(batch = "inspect" /\ cmd.do = "check")
      <3>1. batch \in {"official", "external", "inspect"}
        BY <1>1, <2>9 DEF LoadedInv, Loading
      <3>2. batch = "official" => \A i \in DOMAIN loaded' : loaded'[i].batch = "official"
        BY <1>1, <2>2, <2>3, <2>4 DEF LoadedInv, Loading
      <3>3. batch = "external" => \A i \in DOMAIN loaded' : loaded'[i].batch \in {"official", "external"}
        BY <1>1, <2>2, <2>3, <2>4 DEF LoadedInv, Loading
      <3> QED BY <1>1, <1>5, <2>2, <2>6, <2>9, <3>1, <3>2, <3>3 DEF LoadedInv, Loading
    <2> QED BY <2>7, <2>8, <2>9
  <1> QED BY <1>1, <1>2, <1>3, <1>4, <1>5

LEMMA LoadedStep ==
  ASSUME LoadedInv, [CommandNext]_commandAll
  PROVE  LoadedInv'
  <1> USE DEF ExitWith
  <1>1. CASE NextCommand
    <2>1. stage' = "start" /\ loaded' = <<>>
      BY <1>1 DEF NextCommand
    <2>2. (\E S : loaded' \in Seq(S)) /\ DOMAIN loaded' = {}
      BY <2>1, NothingLoaded
    <2> QED BY <2>1, <2>2 DEF LoadedInv, Loading
  <1>2. CASE BeginDoctor \/ BeginInspect \/ BeginCheck \/ BeginLoading
    BY <1>2, BeginsLoaded
  <1>3. CASE ResolvePaths
    <2>1. /\ stage = "paths" /\ UNCHANGED <<loaded, cmd>>
          /\ stage' = "close" \/ (stage' = "load" /\ batch' = "external")
      BY <1>3 DEF ResolvePaths, restVars
    <2> QED BY <2>1, LoadedKept DEF LoadedInv, Loading
  <1>4. CASE StartPlugin
    <2>1. stage = "load" /\ queue # <<>> /\ UNCHANGED <<loaded, batch, cmd>>
      BY <1>4 DEF StartPlugin
    <2>2. CASE Target(Head(queue)) \in DOMAIN Exe
      <3>1. stage' = "shake" /\ UNCHANGED queue
        BY <1>4, <2>2 DEF StartPlugin
      <3> QED BY <2>1, <2>2, <3>1, SameBatch DEF Loading
    <2>3. CASE Target(Head(queue)) \notin DOMAIN Exe
      <3>1. stage' = "close" \/ (stage' = "load" /\ batch = "inspect" /\ cmd.do = "doctor")
        BY <1>4, <2>1, <2>3 DEF StartPlugin
      <3> QED BY <2>1, <3>1, LoadedKept DEF LoadedInv, Loading
    <2> QED BY <2>2, <2>3
  <1>5. CASE Shake
    BY <1>5, ShakeLoaded
  <1>6. CASE Inspected
    <2>1. stage = "load" /\ queue = <<>> /\ batch = "inspect" /\ UNCHANGED <<loaded, cmd>>
      BY <1>6 DEF Inspected
    <2>2. CASE stage' = "close"
      BY <2>1, <2>2, LoadedKept DEF Loading
    <2>3. CASE stage' # "close"
      <3>1. /\ stage' = "load" /\ cmd.do = "check" /\ ~HasIssues(loaded[1].manifest)
            /\ \E exe \in {Head(queue')} : queue' = <<exe>>
            /\ batch' = "check"
        <4>1. /\ stage' = "load" /\ cmd.do = "check" /\ ~HasIssues(loaded[1].manifest)
              /\ queue' = <<loaded[1].client.exe>> /\ batch' = "check"
          BY <1>6, <2>1, <2>3 DEF Inspected
        <4> QED BY <4>1
      <3>2. Len(loaded) = 1 /\ loaded[1].batch = "inspect"
        <4>1. \A exe : queue # <<exe>>
          BY <2>1
        <4> QED BY <2>1, <3>1, <4>1 DEF LoadedInv, Loading
      <3>3. (\E S : loaded \in Seq(S)) /\ \A i \in DOMAIN loaded : Typed(loaded[i].manifest)
        BY DEF LoadedInv
      <3>4. ~HasIssues(loaded'[1].manifest)
        BY <2>1, <3>1
      <3> QED BY <2>1, <3>1, <3>2, <3>3, <3>4 DEF LoadedInv, Loading
    <2> QED BY <2>2, <2>3
  <1>7. CASE Loaded
    BY <1>7, SameBatch DEF Loaded, Loading
  <1>8. CASE RegisterUnit
    <2>1. /\ stage = "register" /\ stage' \in {"register", "close"}
          /\ UNCHANGED <<loaded, batch, cmd, queue>>
      BY <1>8 DEF RegisterUnit
    <2>2. CASE stage' = "close"
      BY <2>1, <2>2, LoadedKept DEF Loading
    <2>3. CASE stage' = "register"
      BY <2>1, <2>3 DEF LoadedInv, Loading
    <2> QED BY <2>1, <2>2, <2>3
  <1>9. CASE Registered
    <2>1. /\ stage = "register" /\ UNCHANGED <<loaded, batch, cmd, queue>>
          /\ stage' = IF batch = "official" THEN "paths" ELSE "engine"
      BY <1>9 DEF Registered, pluginVars
    <2> QED BY <2>1 DEF LoadedInv, Loading
  <1>10. CASE \/ ListPlugins \/ ListUnits \/ Add
              \/ CallEngine \/ EngineStep \/ CheckGoesOn \/ WriteReport \/ EngineReturned
              \/ CloseClient \/ Exit
    <2>1. UNCHANGED loaded /\ stage' \in {"close", "wait", "shell"}
      <3> USE DEF pluginVars, EngineIsBack
      <3>1. CASE ListPlugins \/ ListUnits \/ Add
        BY <3>1 DEF ListPlugins, ListUnits, Add
      <3>2. CASE CallEngine \/ EngineStep \/ CheckGoesOn \/ WriteReport \/ EngineReturned
        BY <3>2 DEF CallEngine, EngineStep, CheckGoesOn, WriteReport, EngineReturned, commandVars
      <3>3. CASE CloseClient \/ Exit
        BY <3>3 DEF CloseClient, Exit
      <3> QED BY <1>10, <3>1, <3>2, <3>3
    <2> QED BY <2>1, LoadedKept DEF Loading
  <1>11. CASE UNCHANGED commandAll
    BY <1>11 DEF commandAll, commandVars, LoadedInv, Loading
  <1> QED BY <1>1, <1>2, <1>3, <1>4, <1>5, <1>6, <1>7, <1>8, <1>9, <1>10, <1>11 DEF CommandNext

-----------------------------------------------------------------------------
(* The registry.                                                           *)

\* The units that a batch offers.
LEMMA OffersAre ==
  ASSUME NEW b, NEW u
  PROVE  u \in Offers(b) <=>
           \E i \in DOMAIN loaded : \E j \in DOMAIN KindsOf(loaded[i]) :
              loaded[i].batch = b /\ u = <<i, j>>
  BY DEF Offers

\* An offer is a plugin and a place in its manifest, and its kind is one of the manifest.
LEMMA OfferTypes ==
  ASSUME LoadedInv, NEW b, NEW u \in Offers(b)
  PROVE  /\ u[1] \in DOMAIN loaded /\ u[1] \in Nat /\ loaded[u[1]].batch = b
         /\ u[2] \in DOMAIN KindsOf(loaded[u[1]]) /\ u[2] \in Nat /\ u = <<u[1], u[2]>>
         /\ KindAt(u) \in Seq(STRING)
  <1>0. PICK i \in DOMAIN loaded :
             \E j \in DOMAIN KindsOf(loaded[i]) : loaded[i].batch = b /\ u = <<i, j>>
    BY OffersAre
  <1>1. PICK j \in DOMAIN KindsOf(loaded[i]) : loaded[i].batch = b /\ u = <<i, j>>
    BY <1>0
  <1>2. i \in Nat
    <2>1. PICK S : loaded \in Seq(S)
      BY DEF LoadedInv
    <2> QED BY <1>1, <2>1
  <1>3. KindsOf(loaded[i]) \in Seq(Seq(STRING))
    BY <1>1 DEF LoadedInv, Typed, KindsOf
  <1>4. j \in Nat /\ KindsOf(loaded[i])[j] \in Seq(STRING)
    <2>1. \A T : \A s \in Seq(T) : \A n \in DOMAIN s : n \in Nat /\ s[n] \in T
      OBVIOUS
    <2> QED BY <1>1, <1>3, <2>1
  <1>5. u[1] = i /\ u[2] = j
    BY <1>1
  <1> QED BY <1>1, <1>2, <1>4, <1>5 DEF KindAt

\* The units that are left have a first one.
LEMMA NextUnitIs ==
  ASSUME LoadedInv, todo # {}, todo \subseteq Offers(batch)
  PROVE  NextUnit \in todo
  <1> DEFINE First == {u[1] : u \in todo}
  <1>1. First \subseteq Nat /\ First # {}
    BY OfferTypes
  <1>2. PICK i \in First : \A n \in First : i <= n
    BY <1>1, LeastNumber
  <1> DEFINE Second == {u[2] : u \in {o \in todo : o[1] = i}}
  <1>3. Second \subseteq Nat /\ Second # {}
    BY OfferTypes
  <1>4. PICK j \in Second : \A n \in Second : j <= n
    BY <1>3, LeastNumber
  <1>5. PICK u \in todo : u[1] = i /\ u[2] = j
    OBVIOUS
  <1>6. ASSUME NEW o \in todo PROVE u[1] < o[1] \/ (u[1] = o[1] /\ u[2] <= o[2])
    <2>1. u[1] \in Nat /\ o[1] \in Nat /\ u[2] \in Nat /\ o[2] \in Nat
      BY OfferTypes
    <2>2. i <= o[1]
      BY <1>2
    <2>3. o[1] = i => j <= o[2]
      BY <1>4
    <2> HIDE DEF First, Second
    <2> QED BY <1>5, <2>1, <2>2, <2>3
  <1> QED BY <1>6 DEF NextUnit

\* What is said of a unit depends on the plugins that have answered only.
LEMMA SameOffers ==
  ASSUME UNCHANGED loaded
  PROVE  /\ AllOffers' = AllOffers
         /\ \A b : Offers(b)' = Offers(b)
         /\ \A u : KindAt(u)' = KindAt(u) /\ NameAt(u)' = NameAt(u) /\ ClientAt(u)' = ClientAt(u)
         /\ \A u : BareOf(u)' = BareOf(u)
         /\ \A k, u : From(k, u)' = From(k, u)
         /\ \A b, kind : Providing(b, kind)' = Providing(b, kind)
  <1>1. \A b : Offers(b)' = Offers(b)
    BY DEF Offers
  <1>2. \A u : KindAt(u)' = KindAt(u) /\ NameAt(u)' = NameAt(u) /\ ClientAt(u)' = ClientAt(u)
    BY DEF KindAt, NameAt, ClientAt
  <1>3. \A b, kind : Providing(b, kind)' = Providing(b, kind)
    BY DEF Providing, Offers, KindAt
  <1>4. \A u : BareOf(u)' = BareOf(u)
    BY DEF BareOf, Providing, Offers, KindAt
  <1>5. \A k, u : From(k, u)' = From(k, u)
    BY DEF From, BareOf, Providing, Offers, KindAt, NameAt
  <1>6. AllOffers' = AllOffers
    BY <1>1 DEF AllOffers
  <1> QED BY <1>1, <1>2, <1>3, <1>4, <1>5, <1>6

LEMMA SoundKept ==
  ASSUME Sound, UNCHANGED <<loaded, registry>>, Settled' = Settled
  PROVE  Sound'
  <1>1. \A u : Qualified(NameAt(u), KindAt(u))' = Qualified(NameAt(u), KindAt(u))
    BY SameOffers DEF Qualified
  <1> QED BY <1>1, SameOffers DEF Sound

\* The registry of a command that has loaded nothing.
LEMMA Builtin ==
  ASSUME registry' = DefaultRegistry, AllOffers' = {}
  PROVE  Sound'
  <1>1. Settled' = {}
    BY DEF Settled
  <1> QED BY <1>1 DEF Sound, DefaultRegistry

\* A plugin that answers is appended, with the process that has answered.
LEMMA ShakeAppends ==
  ASSUME Shake, loaded' # loaded
  PROVE  \E p : loaded' = Append(loaded, p) /\ p.batch = batch /\ p.client = Last(clients)
  <1>1. PICK answer : loaded' = Append(loaded, [batch |-> batch, client |-> Last(clients),
                                                manifest |-> answer.manifest])
    BY DEF Shake
  <1> QED BY <1>1

\* A plugin of the batch answers: what has been dealt with before is as it was.
LEMMA SoundGrows ==
  ASSUME LoadedInv, RegistryInv, Shake, batch # "inspect", stage' = "load", loaded' # loaded
  PROVE  Sound'
  <1>1. PICK p : /\ stage = "shake" /\ loaded' = Append(loaded, p) /\ p.batch = batch
                 /\ UNCHANGED <<batch, registry>>
    BY ShakeAppends DEF Shake
  <1>2. p.batch = batch
    BY <1>1
  <1>3. /\ Len(loaded) \in Nat /\ DOMAIN loaded = 1..Len(loaded)
        /\ DOMAIN loaded' = 1..Len(loaded) + 1 /\ loaded'[Len(loaded) + 1] = p
        /\ \A i \in DOMAIN loaded : loaded'[i] = loaded[i]
    <2>1. \E S : loaded \in Seq(S)
      BY DEF LoadedInv
    <2>2. /\ Len(loaded) \in Nat /\ DOMAIN loaded = 1..Len(loaded)
          /\ DOMAIN Append(loaded, p) = 1..Len(loaded) + 1
          /\ Append(loaded, p)[Len(loaded) + 1] = p
          /\ \A i \in DOMAIN loaded : Append(loaded, p)[i] = loaded[i]
      BY <2>1, Appended, ZenonT(30)
    <2> QED BY <1>1, <2>2
  <1>4. ASSUME NEW b, b # batch PROVE Offers(b)' = Offers(b)
    <2>1. {n \in DOMAIN loaded' : loaded'[n].batch = b} = {n \in DOMAIN loaded : loaded[n].batch = b}
      BY <1>2, <1>3, <1>4
    <2>2. \A n \in DOMAIN loaded : KindsOf(loaded'[n]) = KindsOf(loaded[n])
      BY <1>3
    <2> QED BY <2>1, <2>2 DEF Offers
  <1>5. ASSUME NEW b, NEW u \in Offers(b)
        PROVE  /\ KindAt(u)' = KindAt(u) /\ NameAt(u)' = NameAt(u) /\ ClientAt(u)' = ClientAt(u)
               /\ loaded'[u[1]] = loaded[u[1]]
    <2>1. u[1] \in DOMAIN loaded
      BY <1>5, OfferTypes
    <2> QED BY <1>3, <2>1 DEF KindAt, NameAt, ClientAt
  <1>6. ASSUME NEW b, b # batch, NEW kind PROVE Providing(b, kind)' = Providing(b, kind)
    BY <1>4, <1>5, <1>6 DEF Providing
  <1>7. Settled' = Settled /\ \A u \in Settled : \E b : b # batch /\ u \in Offers(b)
    <2>1. Settled = AllOffers \ Offers(batch) /\ Settled' = AllOffers' \ Offers(batch)'
      BY <1>1 DEF Settled
    <2>2. \A b : b # batch => Offers(b)' = Offers(b)
      BY <1>4
    <2>3. \A b, u : u \in Offers(b) => loaded[u[1]].batch = b
      BY OfferTypes
    <2>4. \A b, u : u \in Offers(b)' => loaded'[u[1]].batch = b
      BY DEF Offers
    <2>5. \A b : b # batch => Offers(b) \cap Offers(batch) = {} /\ Offers(b)' \cap Offers(batch)' = {}
      BY <2>3, <2>4, <1>1
    <2> DEFINE batches == {"official", "external", "check"}
    <2>6. \A u : u \in AllOffers <=> \E b \in batches : u \in Offers(b)
      BY DEF AllOffers
    <2>7. \A u : u \in AllOffers' <=> \E b \in batches : u \in Offers(b)'
      BY DEF AllOffers
    <2> HIDE DEF batches
    <2>8. \A u : u \in Settled <=> \E b \in batches : b # batch /\ u \in Offers(b)
      BY <2>1, <2>5, <2>6
    <2>9. \A u : u \in Settled' <=> \E b \in batches : b # batch /\ u \in Offers(b)'
      BY <1>1, <2>1, <2>5, <2>7
    <2>10. \A u : u \in Settled' <=> u \in Settled
      BY <2>2, <2>8, <2>9
    <2>11. Settled' = Settled
      BY <2>1, <2>10
    <2> QED BY <2>8, <2>11
  <1>8. ASSUME NEW u \in Settled
        PROVE  /\ KindAt(u)' = KindAt(u) /\ NameAt(u)' = NameAt(u) /\ ClientAt(u)' = ClientAt(u)
               /\ BareOf(u)' = BareOf(u)
               /\ \A k : From(k, u)' = From(k, u)
    <2>1. PICK b : b # batch /\ u \in Offers(b)
      BY <1>7
    <2>2. /\ KindAt(u)' = KindAt(u) /\ NameAt(u)' = NameAt(u) /\ ClientAt(u)' = ClientAt(u)
          /\ loaded[u[1]].batch = b /\ loaded'[u[1]].batch = b
      BY <1>5, <2>1, OfferTypes
    <2>3. BareOf(u)' = BareOf(u)
      BY <1>6, <2>1, <2>2 DEF BareOf
    <2>4. b = "external" => batch # "official"
      BY <1>1, <2>1, <2>2, OfferTypes DEF LoadedInv, Loading
    <2>5. b = "external" => /\ Offers("official")' = Offers("official")
                            /\ Providing("official", KindAt(u))' = Providing("official", KindAt(u))
      BY <1>4, <1>6, <2>2, <2>4
    <2>6. ASSUME NEW k PROVE From(k, u)' = From(k, u)
      BY <2>2, <2>3, <2>5 DEF From
    <2> QED BY <2>2, <2>3, <2>6
  <1>9. Sound
    BY <1>1 DEF RegistryInv, Loading
  <1>10. \A u \in Settled : Qualified(NameAt(u), KindAt(u))' = Qualified(NameAt(u), KindAt(u))
    BY <1>8 DEF Qualified
  <1> QED BY <1>1, <1>7, <1>8, <1>9, <1>10 DEF Sound

\* RegisterUnit: one more unit has been dealt with.
LEMMA SoundRegistered ==
  ASSUME LoadedInv, RegistryInv, RegisterUnit, stage' = "register"
  PROVE  RegistryInv'
  <1> DEFINE u == NextUnit
             kind == KindAt(u)
             q == Qualified(NameAt(u), kind)
             kinds == {q} \cup IF Unambiguous(batch, kind) /\ Named(kind) THEN {kind} ELSE {}
  <1>1. /\ stage = "register" /\ todo # {} /\ UNCHANGED <<loaded, batch>>
        /\ batch \in {"official", "external", "check"} /\ todo \subseteq Offers(batch) /\ Sound
    <2>1. stage = "register" /\ todo # {} /\ UNCHANGED <<loaded, batch>>
      BY DEF RegisterUnit
    <2>2. batch \in {"official", "external", "check"}
      BY <2>1 DEF LoadedInv, Loading
    <2> QED BY <2>1, <2>2 DEF RegistryInv, Loading
  <1>2. /\ q \notin DOMAIN registry /\ todo' = todo \ {u}
        /\ registry' = [k \in DOMAIN registry \cup kinds |->
                          IF k \in DOMAIN registry THEN registry[k] ELSE ClientAt(u)]
    BY DEF RegisterUnit, ExitWith
  <1>3. u \in todo /\ u \in Offers(batch) /\ u \in AllOffers /\ loaded[u[1]].batch = batch
    <2>1. NextUnit \in todo
      BY <1>1, NextUnitIs
    <2>2. NextUnit \in AllOffers
      BY <1>1, <2>1 DEF AllOffers
    <2> QED BY <1>1, <2>1, <2>2, OfferTypes
  <1>4. Settled' = Settled \cup {u}
    <2>1. Settled = AllOffers \ todo /\ Settled' = AllOffers' \ todo'
      BY <1>1 DEF Settled
    <2>2. AllOffers' = AllOffers
      BY <1>1, SameOffers
    <2> HIDE DEF u
    <2> QED BY <1>2, <1>3, <2>1, <2>2
  <1>5. /\ DOMAIN registry' = DOMAIN registry \cup kinds
        /\ \A k \in DOMAIN registry : registry'[k] = registry[k]
        /\ \A k \in kinds \ DOMAIN registry : registry'[k] = ClientAt(u)
    <2> HIDE DEF kinds, u
    <2> QED BY <1>2
  <1>6. u \in Providing(batch, kind)
    BY <1>3 DEF Providing
  <1>7. BareOf(u) => Unambiguous(batch, kind) /\ Named(kind)
    <2> HIDE DEF u
    <2> QED BY <1>3, <1>6 DEF BareOf, Unambiguous
  <1>8. ASSUME Unambiguous(batch, kind), Named(kind), kind \notin DOMAIN registry
        PROVE  From(kind, u)
    <2>1. Providing(batch, kind) = {u}
      BY <1>6, <1>8 DEF Unambiguous
    <2>2. BareOf(u)
      BY <1>3, <1>8, <2>1 DEF BareOf
    <2>3. ASSUME batch = "external", NEW o \in Offers("official"), Providing("official", kind) = {o}
          PROVE  FALSE
      <3>1. loaded[o[1]].batch = "official" /\ KindAt(o) = kind
        <4>1. o \in Providing("official", kind)
          BY <2>3
        <4> QED BY <2>3, <4>1, OfferTypes DEF Providing
      <3>2. o \notin todo
        BY <1>1, <2>3, <3>1, OfferTypes
      <3>3. o \in Settled
        BY <1>1, <2>3, <3>2 DEF Settled, AllOffers
      <3>4. BareOf(o)
        <4> HIDE DEF u, kind
        <4> QED BY <1>8, <2>3, <3>1 DEF BareOf
      <3>5. KindAt(o) \in DOMAIN registry
        BY <1>1, <3>3, <3>4 DEF Sound
      <3> QED BY <1>8, <3>1, <3>5
    <2> QED BY <1>3, <2>2, <2>3 DEF From
  <1>9. From(q, u)
    BY DEF From
  <1>10. \A k \in kinds \ DOMAIN registry : From(k, u)
    BY <1>8, <1>9
  <1>11. q \in kinds /\ (BareOf(u) => kind \in kinds)
    BY <1>7
  <1>12. /\ \A o : KindAt(o)' = KindAt(o) /\ NameAt(o)' = NameAt(o) /\ ClientAt(o)' = ClientAt(o)
         /\ \A o : BareOf(o)' = BareOf(o)
         /\ \A k, o : From(k, o)' = From(k, o)
         /\ \A o : Qualified(NameAt(o), KindAt(o))' = Qualified(NameAt(o), KindAt(o))
    BY <1>1, SameOffers DEF Qualified
  <1>13. q = Qualified(NameAt(u), KindAt(u)) /\ kind = KindAt(u)
    OBVIOUS
  <1> HIDE DEF u, kind, q, kinds
  <1>14. \A k \in Builtins : k \in DOMAIN registry' /\ registry'[k] = Binary
    BY <1>1, <1>5 DEF Sound
  <1>15. ASSUME NEW o \in Settled'
         PROVE  /\ Qualified(NameAt(o), KindAt(o)) \in DOMAIN registry'
                /\ registry'[Qualified(NameAt(o), KindAt(o))] = ClientAt(o)
                /\ BareOf(o) => KindAt(o) \in DOMAIN registry'
    <2>1. CASE o = u
      BY <1>2, <1>5, <1>11, <1>13, <2>1
    <2>2. CASE o \in Settled
      BY <1>1, <1>5, <2>2 DEF Sound
    <2> QED BY <1>4, <2>1, <2>2
  <1>16. \A k \in DOMAIN registry' :
            k \in Builtins \/ \E o \in Settled' : registry'[k] = ClientAt(o) /\ From(k, o)
    <2> TAKE k \in DOMAIN registry'
    <2>1. CASE k \in DOMAIN registry
      BY <1>1, <1>4, <1>5, <2>1 DEF Sound
    <2>2. CASE k \in kinds \ DOMAIN registry
      BY <1>4, <1>5, <1>10, <2>2
    <2> QED BY <1>5, <2>1, <2>2
  <1>17. Sound'
    BY <1>12, <1>14, <1>15, <1>16 DEF Sound
  <1>18. todo' \subseteq Offers(batch)'
    BY <1>1, <1>2, SameOffers
  <1> QED BY <1>17, <1>18 DEF RegistryInv

\* What is true of the registry stays true when neither it, nor the plugins, nor what
\* has been dealt with changes.
LEMMA RegistryKept ==
  ASSUME RegistryInv, UNCHANGED <<loaded, registry>>, Settled' = Settled, stage' # "register",
         Sound
  PROVE  RegistryInv'
  BY SoundKept DEF RegistryInv

LEMMA RegistryStep ==
  ASSUME LoadedInv, RegistryInv, [CommandNext]_commandAll
  PROVE  RegistryInv'
  <1> USE DEF ExitWith
  <1>1. ASSUME \/ stage' \notin Loading \cup {"paths"}
               \/ stage' \in Loading \ {"register"} /\ batch' = "inspect"
        PROVE  RegistryInv'
    BY <1>1 DEF RegistryInv, Loading
  <1>2. CASE BeginDoctor \/ BeginInspect \/ BeginCheck
    BY <1>1, <1>2 DEF BeginDoctor, BeginInspect, BeginCheck, Inspect, CannotInspect, Loading
  <1>3. CASE BeginLoading
    <2>1. /\ loaded' = <<>> /\ registry' = DefaultRegistry
          /\ stage' \in {"paths", "load"}
      BY <1>3 DEF BeginLoading, LoadedInv
    <2>2. \A b : Offers(b)' = {}
      <3>1. DOMAIN loaded' = {}
        BY <2>1, NothingLoaded
      <3> QED BY <3>1 DEF Offers
    <2>3. Sound'
      BY <2>1, <2>2, Builtin DEF AllOffers
    <2> QED BY <2>1, <2>3 DEF RegistryInv
  <1>4. CASE ResolvePaths
    <2>1. CASE stage' = "close"
      BY <1>1, <2>1 DEF Loading
    <2>2. CASE stage' # "close"
      <3>1. /\ stage = "paths" /\ stage' = "load" /\ batch' = "external" /\ UNCHANGED <<loaded, registry>>
        BY <1>4, <2>2 DEF ResolvePaths, restVars
      <3>2. Offers("external") = {}
        <4>1. \A i \in DOMAIN loaded : loaded[i].batch = "official"
          BY <3>1 DEF LoadedInv
        <4>2. \A u : u \notin Offers("external")
          BY <4>1, OffersAre
        <4> QED BY <4>2
      <3>3. Settled = AllOffers /\ Settled' = AllOffers' \ Offers("external")'
        BY <3>1 DEF Settled
      <3>4. AllOffers' = AllOffers /\ Offers("external")' = Offers("external")
        BY <3>1, SameOffers
      <3>5. Sound
        BY <3>1 DEF RegistryInv
      <3> QED BY <3>1, <3>2, <3>3, <3>4, <3>5, RegistryKept
    <2> QED BY <2>1, <2>2
  <1>5. CASE StartPlugin
    <2>1. CASE stage' = "close" \/ batch = "inspect"
      BY <1>1, <1>5, <2>1 DEF StartPlugin, Loading
    <2>2. CASE stage' # "close" /\ batch # "inspect"
      <3>1. /\ stage = "load" /\ stage' \in {"load", "shake"} /\ UNCHANGED <<loaded, registry, batch>>
        BY <1>5, <2>2 DEF StartPlugin
      <3>2. Settled' = Settled
        BY <3>1, SameOffers DEF Settled
      <3>3. Sound
        BY <2>2, <3>1 DEF RegistryInv, Loading
      <3> QED BY <3>1, <3>2, <3>3, RegistryKept
    <2> QED BY <2>1, <2>2
  <1>6. CASE Shake
    <2>1. CASE stage' = "close" \/ batch = "inspect"
      BY <1>1, <1>6, <2>1 DEF Shake, Loading
    <2>2. CASE stage' # "close" /\ batch # "inspect"
      <3>1. /\ stage = "shake" /\ stage' = "load" /\ UNCHANGED <<registry, batch>>
        BY <1>6, <2>2 DEF Shake
      <3>2. CASE loaded' # loaded
        BY <1>6, <2>2, <3>1, <3>2, SoundGrows DEF RegistryInv
      <3>3. CASE loaded' = loaded
        <4>1. Settled' = Settled
          BY <3>1, <3>3, SameOffers DEF Settled
        <4>2. Sound
          BY <2>2, <3>1 DEF RegistryInv, Loading
        <4> QED BY <3>1, <3>3, <4>1, <4>2, RegistryKept
      <3> QED BY <3>2, <3>3
    <2> QED BY <2>1, <2>2
  <1>7. CASE Inspected
    <2>1. stage = "load" /\ queue = <<>> /\ batch = "inspect" /\ UNCHANGED loaded
      BY <1>7 DEF Inspected
    <2>2. CASE stage' = "close"
      BY <1>1, <2>2 DEF Loading
    <2>3. CASE stage' # "close"
      <3>1. stage' = "load" /\ cmd.do = "check" /\ registry' = DefaultRegistry
        BY <1>7, <2>1, <2>3 DEF Inspected
      <3>2. Len(loaded) = 1 /\ loaded[1].batch = "inspect"
        <4>1. \A exe : queue # <<exe>>
          BY <2>1
        <4> QED BY <2>1, <3>1, <4>1 DEF LoadedInv, Loading
      <3>3. \A i \in DOMAIN loaded : loaded[i].batch = "inspect"
        <4>1. PICK S : loaded \in Seq(S)
          BY DEF LoadedInv
        <4>2. DOMAIN loaded = 1..Len(loaded)
          BY <4>1
        <4> QED BY <3>2, <4>2
      <3>4. \A b \in {"official", "external", "check"} : Offers(b) = {}
        BY <3>3, OffersAre
      <3>5. AllOffers' = {}
        BY <2>1, <3>4, SameOffers DEF AllOffers
      <3>6. Sound'
        BY <3>1, <3>5, Builtin
      <3> QED BY <3>1, <3>6 DEF RegistryInv
    <2> QED BY <2>2, <2>3
  <1>8. CASE Loaded
    <2>1. /\ stage = "load" /\ batch # "inspect" /\ todo' = Offers(batch) /\ stage' = "register"
          /\ UNCHANGED <<loaded, registry, batch>>
      BY <1>8 DEF Loaded
    <2>2. todo' = Offers(batch)' /\ AllOffers' = AllOffers
      BY <2>1, SameOffers
    <2>3. Settled = AllOffers \ Offers(batch) /\ Settled' = AllOffers' \ todo'
      BY <2>1 DEF Settled
    <2>4. Sound'
      BY <2>1, <2>2, <2>3, SoundKept DEF RegistryInv, Loading
    <2> QED BY <2>1, <2>2, <2>4 DEF RegistryInv
  <1>9. CASE RegisterUnit
    <2>1. CASE stage' = "close"
      BY <1>1, <2>1 DEF Loading
    <2>2. CASE stage' # "close"
      <3>1. stage' = "register"
        BY <1>9, <2>2 DEF RegisterUnit
      <3> QED BY <1>9, <3>1, SoundRegistered
    <2> QED BY <2>1, <2>2
  <1>10. CASE Registered
    <2>1. /\ stage = "register" /\ todo = {} /\ stage' \in {"paths", "engine"}
          /\ UNCHANGED <<loaded, registry>>
      BY <1>10 DEF Registered, pluginVars
    <2>2. Settled' = Settled
      BY <2>1, SameOffers DEF Settled
    <2>3. Sound
      BY <2>1 DEF RegistryInv, LoadedInv, Loading
    <2> QED BY <2>1, <2>2, <2>3, RegistryKept
  <1>11. CASE \/ NextCommand \/ ListPlugins \/ ListUnits \/ Add
              \/ CallEngine \/ EngineStep \/ CheckGoesOn \/ WriteReport \/ EngineReturned
              \/ CloseClient \/ Exit
    <2>1. stage' \in {"start", "close", "wait", "shell"}
      <3> USE DEF EngineIsBack
      <3>1. CASE NextCommand \/ ListPlugins \/ ListUnits \/ Add
        BY <3>1 DEF NextCommand, ListPlugins, ListUnits, Add
      <3>2. CASE CallEngine \/ EngineStep \/ CheckGoesOn \/ WriteReport \/ EngineReturned
        BY <3>2 DEF CallEngine, EngineStep, CheckGoesOn, WriteReport, EngineReturned, commandVars
      <3>3. CASE CloseClient \/ Exit
        BY <3>3 DEF CloseClient, Exit
      <3> QED BY <1>11, <3>1, <3>2, <3>3
    <2> QED BY <1>1, <2>1 DEF Loading
  <1>12. CASE UNCHANGED commandAll
    <2>1. UNCHANGED <<loaded, registry, stage, batch, todo>>
      BY <1>12 DEF commandAll, commandVars, graphVars
    <2>2. Settled' = Settled
      BY <2>1, SameOffers DEF Settled
    <2>3. Sound => Sound'
      BY <2>1, <2>2, SoundKept
    <2>4. Offers(batch)' = Offers(batch)
      BY <2>1, SameOffers
    <2> QED BY <2>1, <2>3, <2>4 DEF RegistryInv
  <1> QED BY <1>2, <1>3, <1>4, <1>5, <1>6, <1>7, <1>8, <1>9, <1>10, <1>11, <1>12 DEF CommandNext

\* The invariant of the command line.
THEOREM CommandInvHolds == CommandSpec => []CommandInv
  <1>1. CommandInit => CommandInv
    <2> SUFFICES ASSUME CommandInit PROVE CommandInv
      OBVIOUS
    <2>1. stage = "shell" /\ loaded = <<>> /\ clients = <<>> /\ running = {}
      BY DEF CommandInit
    <2>2. clients \in Seq({}) /\ DOMAIN clients = {} /\ loaded \in Seq({}) /\ DOMAIN loaded = {}
      BY <2>1
    <2>3. ToSet(clients) = {}
      BY <2>2 DEF ToSet
    <2> QED BY <2>1, <2>2, <2>3 DEF CommandInv, ClientsInv, LoadedInv, RegistryInv, Loading
  <1>2. CommandInv /\ [CommandNext]_commandAll => CommandInv'
    BY ClientsStep, LoadedStep, RegistryStep DEF CommandInv
  <1> QED BY <1>1, <1>2, PTL DEF CommandSpec

\* Whichever plugin fails at whatever point, the clients are the processes that run,
\* and a command that has ended leaves none (loadExternalPlugins, runWithStderr,
\* inspectPluginManifestWithTimeout).
THEOREM NoPluginLeftHolds == CommandSpec => []NoPluginLeft
  <1>1. CommandInv => NoPluginLeft
    <2> SUFFICES ASSUME CommandInv PROVE NoPluginLeft
      OBVIOUS
    <2>1. stage = "shell" => ToSet(clients) = {}
      <3>1. clients = <<>> => ToSet(clients) = {}
        <4>1. ToSet(<<>>) = {}
          BY DEF ToSet
        <4> QED BY <4>1
      <3> QED BY <3>1 DEF CommandInv, ClientsInv
    <2> QED BY <2>1 DEF CommandInv, ClientsInv, NoPluginLeft
  <1> QED BY <1>1, CommandInvHolds, PTL

\* A list of one word.
LEMMA OneWord ==
  ASSUME NEW S, NEW x \in S
  PROVE  <<x>> \in Seq(S) /\ Len(<<x>>) = 1 /\ <<x>>[1] = x
  OBVIOUS

\* A qualified kind is the name, a colon and the kind: it is not one of the program's own,
\* and it tells the kinds of one name apart.
LEMMA QualifiedIs ==
  ASSUME NEW name \in Seq(STRING), NEW kind \in Seq(STRING)
  PROVE  /\ Len(name) \in Nat /\ Len(kind) \in Nat
         /\ DOMAIN Qualified(name, kind) = 1..Len(name) + 1 + Len(kind)
         /\ Len(Qualified(name, kind)) = Len(name) + 1 + Len(kind)
         /\ Qualified(name, kind)[Len(name) + 1] = ":"
         /\ \A i \in 1..Len(kind) : Qualified(name, kind)[Len(name) + 1 + i] = kind[i]
  <1> DEFINE S == STRING \cup {":"}
             colon == <<":">>
             start == name \o colon
  <1>1. name \in Seq(S) /\ kind \in Seq(S) /\ ":" \in S
    OBVIOUS
  <1> HIDE DEF S
  <1>2. colon \in Seq(S) /\ Len(colon) = 1 /\ colon[1] = ":"
    BY <1>1, OneWord
  <1> HIDE DEF colon
  <1>3. /\ start \in Seq(S) /\ Len(start) = Len(name) + 1 /\ Len(name) \in Nat
        /\ start[Len(name) + 1] = ":"
    <2>1. colon \in Seq(S)
      BY <1>2
    <2>2. /\ start \in Seq(S) /\ Len(start) = Len(name) + Len(colon) /\ Len(name) \in Nat
          /\ \A i \in 1..Len(colon) : start[Len(name) + i] = colon[i]
      BY <1>1, <2>1
    <2>3. 1 \in 1..Len(colon)
      BY <1>2
    <2> HIDE DEF start
    <2> QED BY <1>2, <2>2, <2>3
  <1>4. Qualified(name, kind) = start \o kind
    BY DEF Qualified, colon
  <1> HIDE DEF start
  <1>5. /\ DOMAIN (start \o kind) = 1..Len(start) + Len(kind) /\ Len(start \o kind) = Len(start) + Len(kind)
        /\ \A i \in 1..Len(start) : (start \o kind)[i] = start[i]
        /\ \A i \in 1..Len(kind) : (start \o kind)[Len(start) + i] = kind[i]
        /\ Len(kind) \in Nat
    BY <1>1, <1>3
  <1>6. Len(name) + 1 \in 1..Len(start)
    BY <1>3
  <1> QED BY <1>3, <1>4, <1>5, <1>6

LEMMA KindNames ==
  ASSUME NEW name \in Seq(STRING), NEW k1 \in Seq(STRING), NEW k2 \in Seq(STRING)
  PROVE  /\ Qualified(name, k1) = Qualified(name, k2) => k1 = k2
         /\ Qualified(name, k1) \notin Builtins
  <1>1. ASSUME Qualified(name, k1) = Qualified(name, k2) PROVE k1 = k2
    <2> DEFINE q(k) == Qualified(name, k)
    <2>1. /\ Len(name) \in Nat /\ Len(k1) \in Nat /\ Len(k2) \in Nat
          /\ Len(q(k1)) = Len(name) + 1 + Len(k1) /\ Len(q(k2)) = Len(name) + 1 + Len(k2)
          /\ \A i \in 1..Len(k1) : q(k1)[Len(name) + 1 + i] = k1[i]
          /\ \A i \in 1..Len(k2) : q(k2)[Len(name) + 1 + i] = k2[i]
      BY QualifiedIs
    <2>2. q(k1) = q(k2)
      BY <1>1
    <2> HIDE DEF q
    <2>3. Len(k1) = Len(k2)
      BY <2>1, <2>2
    <2>4. \A i \in 1..Len(k1) : k1[i] = k2[i]
      BY <2>1, <2>2, <2>3
    <2> QED BY <2>3, <2>4
  <1>2. ":" \in ToSet(Qualified(name, k1))
    <2> DEFINE q == Qualified(name, k1)
    <2>1. DOMAIN q = 1..Len(name) + 1 + Len(k1) /\ Len(name) \in Nat /\ Len(k1) \in Nat
      BY QualifiedIs
    <2>2. q[Len(name) + 1] = ":"
      BY QualifiedIs
    <2> HIDE DEF q
    <2>3. Len(name) + 1 \in DOMAIN q
      BY <2>1
    <2>4. ":" \in ToSet(q)
      BY <2>2, <2>3 DEF ToSet
    <2> QED BY <2>4 DEF q
  <1> QED BY <1>1, <1>2, BuiltinsAssumption

\* A bare kind that is not built in, nor spelt as the qualified kind of a unit, is the one
\* of the only unit of a batch that has it.
LEMMA BareComesFrom ==
  ASSUME LoadedInv, Sound, NEW kind, kind \in DOMAIN registry, kind \notin Builtins,
         \A c \in Batches : \A o \in Offers(c) : Qualified(NameAt(o), KindAt(o)) # kind
  PROVE  \E c \in Batches : \E v \in Offers(c) :
            /\ registry[kind] = ClientAt(v) /\ Providing(c, kind) = {v}
            /\ c = "external" => \A o \in Offers("official") : Providing("official", kind) # {o}
  <1>1. PICK v \in Settled : registry[kind] = ClientAt(v) /\ From(kind, v)
    BY DEF Sound
  <1>2. PICK c \in Batches : v \in Offers(c)
    BY DEF Settled, AllOffers, Batches
  <1>3. loaded[v[1]].batch = c
    BY <1>2, OfferTypes
  <1>4. kind # Qualified(NameAt(v), KindAt(v))
    BY <1>2
  <1>5. KindAt(v) = kind /\ BareOf(v)
        /\ (c = "external" => \A o \in Offers("official") : Providing("official", kind) # {o})
    BY <1>1, <1>3, <1>4 DEF From
  <1>6. Providing(c, kind) = {v}
    BY <1>3, <1>5 DEF BareOf
  <1> QED BY <1>1, <1>2, <1>5, <1>6

\* The batches of one command.
LEMMA BatchesOfACommand ==
  ASSUME LoadedInv, stage = "engine",
         NEW b \in {"official", "external", "check"}, NEW c \in {"official", "external", "check"},
         Offers(b) # {}, Offers(c) # {}
  PROVE  b = c \/ {b, c} = {"official", "external"}
  <1>1. PICK i \in DOMAIN loaded : loaded[i].batch = b
    BY OffersAre
  <1>2. PICK j \in DOMAIN loaded : loaded[j].batch = c
    BY OffersAre
  <1>3. batch \in {"official", "external", "check"}
    BY DEF LoadedInv, Loading
  <1>4. CASE batch = "official"
    BY <1>1, <1>2, <1>4 DEF LoadedInv, Loading
  <1>5. CASE batch = "external"
    <2>1. b \in {"official", "external"} /\ c \in {"official", "external"}
      BY <1>1, <1>2, <1>5 DEF LoadedInv, Loading
    <2> QED BY <2>1
  <1>6. CASE batch = "check"
    <2>1. loaded[1].batch = "inspect" /\ Len(loaded) = 2 /\ loaded[2].batch = "check"
      BY <1>6 DEF LoadedInv, Loading
    <2>2. i \in {1, 2} /\ j \in {1, 2}
      <3>1. PICK S : loaded \in Seq(S)
        BY DEF LoadedInv
      <3>2. DOMAIN loaded = 1..2
        BY <2>1, <3>1
      <3> QED BY <3>2
    <2> QED BY <1>1, <1>2, <2>1, <2>2
  <1> QED BY <1>3, <1>4, <1>5, <1>6

\* Once the plugins are loaded, a qualified kind belongs to the process that declares it, and
\* a bare one that nobody's qualified kind is spelt as to the built-in unit or to the only unit
\* of the first batch that has just one: whatever the plugins, their units and their order
\* (loadExternalPlugins).
THEOREM ResolvesHolds == CommandSpec => []ResolvesAsDocumented
  <1>1. CommandInv => ResolvesAsDocumented
    <2> SUFFICES ASSUME CommandInv, stage = "engine" PROVE ResolvesAsDocumented
      BY DEF ResolvesAsDocumented
    <2>1. LoadedInv /\ Sound /\ Settled = AllOffers
      BY DEF CommandInv, RegistryInv, LoadedInv, Loading, Settled
    <2> SUFFICES ASSUME NEW b \in Batches, NEW u \in Offers(b), NEW kind, kind = KindAt(u)
                 PROVE  LET only(c) == \E o \in Offers(c) : Providing(c, kind) = {o}
                            another == \E c \in Batches : \E o \in Offers(c) :
                                          Qualified(NameAt(o), KindAt(o)) = kind
                        IN /\ registry[Qualified(NameAt(u), kind)] = ClientAt(u)
                           /\ kind \in Builtins => registry[kind] = Binary
                           /\ kind \notin Builtins /\ ~another /\ Named(kind) /\ only(b)
                                /\ ~(b = "external" /\ only("official"))
                                => registry[kind] = ClientAt(u)
                           /\ kind \notin Builtins /\ ~another /\ (\A c \in Batches : ~only(c))
                                => kind \notin DOMAIN registry
      BY DEF ResolvesAsDocumented
    <2> DEFINE only(c) == \E o \in Offers(c) : Providing(c, kind) = {o}
               another == \E c \in Batches : \E o \in Offers(c) : Qualified(NameAt(o), KindAt(o)) = kind
    <2>2. u \in Settled /\ loaded[u[1]].batch = b
      BY <2>1, OfferTypes DEF AllOffers, Batches
    <2>3. registry[Qualified(NameAt(u), kind)] = ClientAt(u)
      BY <2>1, <2>2 DEF Sound
    <2>4. kind \in Builtins => registry[kind] = Binary
      BY <2>1 DEF Sound
    <2>5. ASSUME kind \notin Builtins, ~another, Named(kind), only(b), ~(b = "external" /\ only("official"))
          PROVE  registry[kind] = ClientAt(u)
      <3>1. Providing(b, kind) = {u}
        <4>1. u \in Providing(b, kind)
          BY DEF Providing
        <4> QED BY <2>5, <4>1
      <3>2. kind \in DOMAIN registry
        <4>1. BareOf(u)
          BY <2>2, <2>5, <3>1 DEF BareOf
        <4> QED BY <2>1, <2>2, <4>1 DEF Sound
      <3>3. PICK c \in Batches : \E v \in Offers(c) :
                 /\ registry[kind] = ClientAt(v) /\ Providing(c, kind) = {v}
                 /\ c = "external" => \A o \in Offers("official") : Providing("official", kind) # {o}
        BY <2>1, <2>5, <3>2, BareComesFrom
      <3>4. PICK v \in Offers(c) :
                 /\ registry[kind] = ClientAt(v) /\ Providing(c, kind) = {v}
                 /\ c = "external" => \A o \in Offers("official") : Providing("official", kind) # {o}
        BY <3>3
      <3>5. b = c \/ {b, c} = {"official", "external"}
        BY <2>1, <3>4, BatchesOfACommand DEF Batches
      <3>6. CASE b = c
        BY <3>1, <3>4, <3>6
      <3>7. CASE b = "external" /\ c = "official"
        BY <2>5, <3>4, <3>7
      <3>8. CASE b = "official" /\ c = "external"
        BY <3>1, <3>4, <3>8
      <3> QED BY <3>5, <3>6, <3>7, <3>8
    <2>6. ASSUME kind \notin Builtins, ~another, \A c \in Batches : ~only(c), kind \in DOMAIN registry
          PROVE  FALSE
      BY <2>1, <2>6, BareComesFrom
    <2> QED BY <2>3, <2>4, <2>5, <2>6
  <1> QED BY <1>1, CommandInvHolds, PTL

\* A manifest that "plugin check" accepts has no kind twice, and its plugin is the only one
\* loaded: if it answers as it did when it was inspected, a qualified kind that is taken is
\* spelt as one of its kinds, and nothing else refuses it (validatePluginCheckManifest,
\* loadExternalPlugins).
THEOREM CheckedRegistersHolds == CommandSpec => []CheckedPluginRegisters
  <1>1. CommandInv => CheckedPluginRegisters
    <2> DEFINE u == NextUnit
               q == Qualified(NameAt(u), KindAt(u))
    <2> SUFFICES ASSUME CommandInv, batch = "check", stage = "register", todo # {},
                        loaded[2].manifest = loaded[1].manifest, q \in DOMAIN registry
                 PROVE  \E o \in Offers("check") : KindAt(o) = q
      BY DEF CheckedPluginRegisters
    <2>1. LoadedInv /\ Sound /\ todo \subseteq Offers("check") /\ Settled = AllOffers \ todo
      BY DEF CommandInv, RegistryInv, Loading, Settled
    <2>2. u \in todo /\ u \in Offers("check")
      BY <2>1, NextUnitIs
    <2> HIDE DEF u
    <2>3. /\ loaded[1].batch = "inspect" /\ ~HasIssues(loaded[1].manifest)
          /\ Len(loaded) = 2 /\ loaded[2].batch = "check"
      BY DEF CommandInv, LoadedInv, Loading
    <2>4. DOMAIN loaded = 1..2
      <3>1. PICK S : loaded \in Seq(S)
        BY <2>1 DEF LoadedInv
      <3> QED BY <2>3, <3>1
    <2>5. ASSUME NEW c \in Batches, NEW v \in Offers(c)
          PROVE  c = "check" /\ v[1] = 2 /\ KindAt(v) \in Seq(STRING) /\ NameAt(v) = loaded[2].manifest.name
      <3>1. v[1] \in 1..2 /\ loaded[v[1]].batch = c /\ KindAt(v) \in Seq(STRING)
        BY <2>1, <2>4, OfferTypes
      <3> QED BY <2>3, <3>1 DEF NameAt, Batches
    <2> DEFINE name == loaded[2].manifest.name
               kinds == loaded[1].manifest.kinds
    <2>6. name \in Seq(STRING) /\ kinds \in Seq(Seq(STRING)) /\ KindsOf(loaded[2]) = kinds
      BY <2>1, <2>4 DEF LoadedInv, Typed, KindsOf
    <2>7. u[1] = 2 /\ KindAt(u) \in Seq(STRING) /\ NameAt(u) = name
      BY <2>2, <2>5 DEF Batches
    <2>8. q \notin Builtins
      BY <2>6, <2>7, KindNames
    <2>9. PICK v \in Settled : From(q, v)
      BY <2>1, <2>8 DEF Sound
    <2>10. PICK c \in Batches : v \in Offers(c)
      BY <2>1 DEF AllOffers, Batches
    <2>11. c = "check" /\ v[1] = 2 /\ KindAt(v) \in Seq(STRING) /\ NameAt(v) = name
      BY <2>5, <2>10
    <2>12. CASE q = KindAt(v)
      BY <2>10, <2>11, <2>12
    <2>13. q # Qualified(NameAt(v), KindAt(v))
      <3>1. SUFFICES ASSUME q = Qualified(NameAt(v), KindAt(v)) PROVE FALSE
        OBVIOUS
      <3>2. KindAt(u) = KindAt(v)
        <4>1. Qualified(name, KindAt(u)) = Qualified(name, KindAt(v))
          BY <2>7, <2>11, <3>1
        <4> QED BY <2>6, <2>7, <2>11, <4>1, KindNames
      <3>3. u # v
        BY <2>1, <2>2
      <3> HIDE DEF name, q
      <3>4. /\ u[2] \in DOMAIN kinds /\ u[2] \in Nat /\ u = <<2, u[2]>> /\ KindAt(u) = kinds[u[2]]
            /\ v[2] \in DOMAIN kinds /\ v[2] \in Nat /\ v = <<2, v[2]>> /\ KindAt(v) = kinds[v[2]]
        BY <2>1, <2>2, <2>6, <2>7, <2>10, <2>11, OfferTypes DEF KindAt
      <3>5. \A i \in DOMAIN kinds : \A j \in 1..i - 1 : kinds[j] # kinds[i]
        BY <2>3 DEF HasIssues
      <3> HIDE DEF kinds
      <3>6. u[2] # v[2] /\ (u[2] < v[2] \/ v[2] < u[2])
        BY <3>3, <3>4
      <3>7. 1 <= u[2] /\ 1 <= v[2]
        <4>1. \A T : \A s \in Seq(T) : \A n \in DOMAIN s : 1 <= n
          OBVIOUS
        <4> QED BY <2>6, <3>4, <4>1
      <3>8. kinds[u[2]] = kinds[v[2]]
        BY <3>2, <3>4
      <3>9. CASE u[2] < v[2]
        <4>1. u[2] \in 1..v[2] - 1
          BY <3>4, <3>7, <3>9
        <4> QED BY <3>4, <3>5, <3>8, <4>1
      <3>10. CASE v[2] < u[2]
        <4>1. v[2] \in 1..u[2] - 1
          BY <3>4, <3>7, <3>10
        <4> QED BY <3>4, <3>5, <3>8, <4>1
      <3> QED BY <3>6, <3>9, <3>10
    <2> QED BY <2>9, <2>12, <2>13 DEF From
  <1> QED BY <1>1, CommandInvHolds, PTL

\* The process of a plugin that has answered and is kept runs; what an inspection has asked
\* is not kept, and closed.
ServedInv ==
  /\ stage \in {"load", "shake"} /\ batch = "inspect" =>
       \A i \in DOMAIN loaded : loaded[i].batch = "inspect"
  /\ stage \in Loading \cup {"paths"} =>
       \A i \in DOMAIN loaded : loaded[i].batch # "inspect" => loaded[i].client \in running

LEMMA NothingServed ==
  ASSUME loaded' = <<>>
  PROVE  ServedInv'
  <1>1. DOMAIN loaded' = {}
    BY NothingLoaded
  <1> QED BY <1>1 DEF ServedInv

LEMMA ServedKept ==
  ASSUME ServedInv, UNCHANGED loaded, running \subseteq running',
         stage' \in Loading \cup {"paths"} => stage \in Loading \cup {"paths"},
         stage' \in {"load", "shake"} /\ batch' = "inspect" => stage \in {"load", "shake"} /\ batch = "inspect"
  PROVE  ServedInv'
  BY DEF ServedInv

LEMMA StartServes ==
  ASSUME ServedInv, StartPlugin
  PROVE  ServedInv'
  <1>1. stage = "load" /\ stage' \in {"load", "shake", "close"} /\ UNCHANGED <<loaded, batch>>
    BY DEF StartPlugin, ExitWith
  <1>2. running \subseteq running'
    BY DEF StartPlugin, ExitWith
  <1> QED BY <1>1, <1>2, ServedKept DEF Loading

LEMMA ShakeServes ==
  ASSUME ClientsInv, LoadedInv, ServedInv, Shake
  PROVE  ServedInv'
  <1>1. stage = "shake" /\ UNCHANGED batch /\ stage' \in {"load", "close"}
    BY DEF Shake, ExitWith
  <1>2. CASE loaded' = loaded
    <2>1. CASE stage' = "close"
      BY <2>1 DEF ServedInv, Loading
    <2>2. CASE stage' = "load" /\ batch = "inspect"
      BY <1>1, <1>2, <2>2 DEF ServedInv
    <2>3. CASE stage' = "load" /\ batch # "inspect"
      BY <1>1, <1>2, <2>3, ServedKept DEF Shake, CloseInspected, Loading
    <2> QED BY <1>1, <2>1, <2>2, <2>3
  <1>3. CASE loaded' # loaded
    <2>1. PICK p : loaded' = Append(loaded, p) /\ p.batch = batch /\ p.client = Last(clients)
      BY <1>3, ShakeAppends
    <2>2. \A i \in DOMAIN loaded' : (i \in DOMAIN loaded /\ loaded'[i] = loaded[i]) \/ loaded'[i] = p
      <3>1. \E S : loaded \in Seq(S)
        BY DEF LoadedInv
      <3>2. /\ Len(loaded) \in Nat /\ DOMAIN loaded = 1..Len(loaded)
            /\ DOMAIN Append(loaded, p) = 1..Len(loaded) + 1
            /\ Append(loaded, p)[Len(loaded) + 1] = p
            /\ \A i \in DOMAIN loaded : Append(loaded, p)[i] = loaded[i]
        BY <3>1, Appended, ZenonT(30)
      <3> QED BY <2>1, <3>2
    <2>3. p.client \in running
      <3>1. clients # <<>>
        BY <1>1 DEF ClientsInv
      <3>2. PICK S : clients \in Seq(S)
        BY DEF ClientsInv
      <3>3. Len(clients) \in DOMAIN clients
        BY <3>1, <3>2
      <3>4. Last(clients) \in ToSet(clients)
        BY <3>3 DEF Last, ToSet
      <3> QED BY <2>1, <3>4 DEF ClientsInv
    <2>4. CASE stage' = "close"
      BY <2>4 DEF ServedInv, Loading
    <2>5. CASE stage' = "load" /\ batch = "inspect"
      <3>1. \A i \in DOMAIN loaded' : loaded'[i].batch = "inspect"
        BY <1>1, <2>1, <2>2, <2>5 DEF ServedInv
      <3> QED BY <2>5, <3>1 DEF ServedInv
    <2>6. CASE stage' = "load" /\ batch # "inspect"
      <3>1. UNCHANGED running
        BY <2>6 DEF Shake, CloseInspected
      <3>2. \A i \in DOMAIN loaded' : loaded'[i].batch # "inspect" => loaded'[i].client \in running
        BY <1>1, <2>2, <2>3 DEF ServedInv, Loading
      <3> QED BY <1>1, <2>6, <3>1, <3>2 DEF ServedInv
    <2> QED BY <1>1, <2>4, <2>5, <2>6
  <1> QED BY <1>2, <1>3

LEMMA ServedStep ==
  ASSUME ClientsInv, LoadedInv, ServedInv, [CommandNext]_commandAll
  PROVE  ServedInv'
  <1> USE DEF ExitWith
  <1>1. CASE NextCommand
    BY <1>1, NothingServed DEF NextCommand
  <1>2. CASE BeginDoctor \/ BeginInspect \/ BeginCheck \/ BeginLoading
    <2>1. stage = "start" /\ loaded' = loaded
      BY <1>2 DEF BeginDoctor, BeginInspect, BeginCheck, BeginLoading, restVars
    <2> QED BY <2>1, NothingServed DEF LoadedInv
  <1>3. CASE ResolvePaths
    <2>1. /\ stage = "paths" /\ UNCHANGED <<loaded, running>>
          /\ stage' = "close" \/ (stage' = "load" /\ batch' = "external")
      BY <1>3 DEF ResolvePaths, restVars
    <2> QED BY <2>1, ServedKept DEF Loading
  <1>4. CASE StartPlugin
    BY <1>4, StartServes
  <1>5. CASE Shake
    BY <1>5, ShakeServes
  <1>6. CASE Inspected \/ Loaded \/ RegisterUnit \/ Registered
    <2>1. /\ stage \in {"load", "register"} /\ UNCHANGED <<loaded, running>>
          /\ stage' \in {"load", "shake"} /\ batch' = "inspect" => stage = "load" /\ batch = "inspect"
      BY <1>6 DEF Inspected, Loaded, RegisterUnit, Registered, pluginVars
    <2> QED BY <2>1, ServedKept DEF Loading
  <1>7. CASE \/ ListPlugins \/ ListUnits \/ Add
             \/ CallEngine \/ EngineStep \/ CheckGoesOn \/ WriteReport \/ EngineReturned
             \/ CloseClient \/ Exit
    <2>1. stage' \in {"close", "wait", "shell"}
      <3> USE DEF EngineIsBack
      <3>1. CASE ListPlugins \/ ListUnits \/ Add
        BY <3>1 DEF ListPlugins, ListUnits, Add
      <3>2. CASE CallEngine \/ EngineStep \/ CheckGoesOn \/ WriteReport \/ EngineReturned
        BY <3>2 DEF CallEngine, EngineStep, CheckGoesOn, WriteReport, EngineReturned, commandVars
      <3>3. CASE CloseClient \/ Exit
        BY <3>3 DEF CloseClient, Exit
      <3> QED BY <1>7, <3>1, <3>2, <3>3
    <2> QED BY <2>1 DEF ServedInv, Loading
  <1>8. CASE UNCHANGED commandAll
    BY <1>8 DEF commandAll, commandVars, ServedInv
  <1> QED BY <1>1, <1>2, <1>3, <1>4, <1>5, <1>6, <1>7, <1>8 DEF CommandNext

\* KindsAreServed where the engine is about to be called, and while it works.
AllServed == \A k \in DOMAIN registry \ Builtins : registry[k] \in running

LEMMA LoadedServes ==
  ASSUME CommandInv, ServedInv, stage = "engine"
  PROVE  AllServed
  <1>1. LoadedInv /\ Sound /\ Settled = AllOffers
    BY DEF CommandInv, RegistryInv, LoadedInv, Loading, Settled
  <1> SUFFICES ASSUME NEW k \in DOMAIN registry, k \notin Builtins
               PROVE  registry[k] \in running
    BY DEF AllServed
  <1>2. PICK u \in AllOffers : registry[k] = ClientAt(u)
    BY <1>1 DEF Sound
  <1>3. PICK b \in {"official", "external", "check"} : u \in Offers(b)
    BY DEF AllOffers
  <1>4. u[1] \in DOMAIN loaded /\ loaded[u[1]].batch # "inspect"
    BY <1>1, <1>3, OfferTypes
  <1> QED BY <1>2, <1>4 DEF ServedInv, ClientAt, Loading

\* The engine never asks for a kind whose plugin does not run: when it is called and as long
\* as it works, each kind of the registry is built in, or belongs to the process of a plugin
\* that has answered and is not closed yet (runWithStderr, loadExternalPlugins,
\* runPluginCheckScenario).
THEOREM KindsAreServedHolds == CommandSpec => []KindsAreServed
  <1>1. CommandInit => ServedInv /\ (stage = "wait" => AllServed)
    BY DEF CommandInit, ServedInv, Loading
  <1>2. ClientsInv /\ LoadedInv /\ ServedInv /\ [CommandNext]_commandAll => ServedInv'
    BY ServedStep
  <1>3. /\ CommandInv /\ ServedInv /\ (stage = "wait" => AllServed) /\ [CommandNext]_commandAll
        => (stage = "wait" => AllServed)'
    <2> SUFFICES ASSUME CommandInv, ServedInv, stage = "wait" => AllServed,
                        [CommandNext]_commandAll, stage' = "wait"
                 PROVE  AllServed'
      OBVIOUS
    <2>1. stage \in {"engine", "wait"} /\ UNCHANGED <<registry, running>>
      <3> USE DEF ExitWith, pluginVars, EngineIsBack
      <3>1. CASE \/ NextCommand \/ ListPlugins \/ ListUnits \/ Add
                 \/ BeginDoctor \/ BeginInspect \/ BeginCheck \/ BeginLoading \/ ResolvePaths
        BY <3>1 DEF NextCommand, ListPlugins, ListUnits, Add, BeginDoctor, BeginInspect, BeginCheck,
                    BeginLoading, ResolvePaths, Inspect, CannotInspect
      <3>2. CASE StartPlugin \/ Shake \/ Inspected \/ Loaded \/ RegisterUnit \/ Registered
        BY <3>2 DEF StartPlugin, Shake, Inspected, Loaded, RegisterUnit, Registered
      <3>3. CASE CallEngine \/ CheckGoesOn \/ WriteReport \/ EngineReturned
        BY <3>3 DEF CallEngine, CheckGoesOn, WriteReport, EngineReturned, Call, graphVars
      <3>4. CASE EngineStep
        BY <3>4 DEF EngineStep, commandVars, GraphNext, BuildGraph, VisitRoot, VisitDependency,
                    Order, Sorted, CheckUnit, AllChecked, RunUnits
      <3>5. CASE CloseClient \/ Exit
        BY <3>5 DEF CloseClient, Exit
      <3>6. CASE UNCHANGED commandAll
        BY <3>6 DEF commandAll, commandVars, graphVars
      <3> QED BY <3>1, <3>2, <3>3, <3>4, <3>5, <3>6 DEF CommandNext
    <2>2. AllServed
      BY <2>1, LoadedServes
    <2> QED BY <2>1, <2>2 DEF AllServed
  <1>4. CommandInv => ClientsInv /\ LoadedInv
    BY DEF CommandInv
  <1>5. CommandInv /\ ServedInv /\ (stage = "wait" => AllServed) => KindsAreServed
    BY LoadedServes DEF KindsAreServed, AllServed
  <1> QED BY <1>1, <1>2, <1>3, <1>4, <1>5, CommandInvHolds, PTL DEF CommandSpec

-----------------------------------------------------------------------------
(* Paths.                                                                  *)

\* Induction over the numbers up to n, for a set.
LEMMA UpTo ==
  ASSUME NEW n \in Nat, NEW S, 0 \in S, \A i \in 0..n - 1 : i \in S => i + 1 \in S
  PROVE  0..n \subseteq S
  <1> DEFINE rest == {i \in 0..n : i \notin S}
  <1>1. SUFFICES ASSUME rest # {} PROVE FALSE
    OBVIOUS
  <1>2. PICK m \in rest : \A i \in rest : m <= i
    <2>1. rest \subseteq Nat
      OBVIOUS
    <2> HIDE DEF rest
    <2> QED BY <1>1, <2>1, LeastNumber
  <1>3. m # 0 /\ m - 1 \in 0..n - 1
    BY <1>2
  <1>4. m - 1 \in S
    BY <1>2, <1>3
  <1>5. (m - 1) + 1 \in S /\ (m - 1) + 1 = m
    BY <1>3, <1>4
  <1> QED BY <1>2, <1>5

\* The recursive function of filepath.Clean is one that obeys its equation.
LEMMA CleanedIs ==
  ASSUME NEW p, Len(p.comps) \in Nat
  PROVE  /\ DOMAIN Cleaned(p) = 0..Len(p.comps)
         /\ Cleaned(p)[0] = <<>>
         /\ \A i \in 1..Len(p.comps) :
              Cleaned(p)[i] = CleanStep(p.abs, Cleaned(p)[i - 1], p.comps[i])
  <1> DEFINE N == Len(p.comps)
             Of(f, n) == f = [i \in 0..n |-> IF i = 0 THEN <<>> ELSE CleanStep(p.abs, f[i - 1], p.comps[i])]
             S == {n \in 0..N : \E f : Of(f, n)}
  <1>1. 0 \in S
    <2>1. Of([i \in 0..0 |-> <<>>], 0)
      OBVIOUS
    <2> HIDE DEF Of
    <2>2. \E f : Of(f, 0)
      BY <2>1
    <2> QED BY <2>2
  <1>2. ASSUME NEW n \in 0..N - 1, n \in S PROVE n + 1 \in S
    <2>1. PICK f : Of(f, n)
      BY <1>2
    <2> DEFINE g == [i \in 0..n + 1 |-> IF i <= n THEN f[i] ELSE CleanStep(p.abs, f[n], p.comps[n + 1])]
    <2>2. \A i \in 0..n + 1 : g[i] = IF i = 0 THEN <<>> ELSE CleanStep(p.abs, g[i - 1], p.comps[i])
      <3> SUFFICES ASSUME NEW i \in 0..n + 1
                   PROVE  g[i] = IF i = 0 THEN <<>> ELSE CleanStep(p.abs, g[i - 1], p.comps[i])
        OBVIOUS
      <3>1. CASE i = 0
        <4>1. f[0] = <<>>
          BY <2>1
        <4> QED BY <3>1, <4>1
      <3>2. CASE i \in 1..n
        <4>1. f[i] = CleanStep(p.abs, f[i - 1], p.comps[i])
          BY <2>1, <3>2
        <4>2. g[i] = f[i] /\ g[i - 1] = f[i - 1]
          BY <3>2
        <4> QED BY <3>2, <4>1, <4>2
      <3>3. CASE i = n + 1
        <4>1. g[i] = CleanStep(p.abs, f[n], p.comps[n + 1]) /\ g[i - 1] = f[n]
          BY <3>3
        <4> QED BY <3>3, <4>1
      <3> QED BY <3>1, <3>2, <3>3
    <2>3. Of(g, n + 1)
      <3>1. g = [i \in 0..n + 1 |-> g[i]]
        OBVIOUS
      <3> HIDE DEF g
      <3> QED BY <2>2, <3>1
    <2>4. n + 1 \in 0..N
      OBVIOUS
    <2> HIDE DEF Of, g
    <2> QED BY <2>3, <2>4
  <1>3. N \in S
    <2> HIDE DEF S
    <2>1. 0..N \subseteq S
      BY <1>1, <1>2, UpTo
    <2> QED BY <2>1
  <1>4. Of(Cleaned(p), N)
    <2>1. \E f : Of(f, N)
      BY <1>3
    <2>2. Cleaned(p) = CHOOSE f : Of(f, N)
      BY DEF Cleaned
    <2> HIDE DEF Of
    <2> QED BY <2>1, <2>2
  <1> HIDE DEF S
  <1>5. ASSUME NEW f, Of(f, N)
        PROVE  /\ DOMAIN f = 0..N /\ f[0] = <<>>
               /\ \A i \in 1..N : f[i] = CleanStep(p.abs, f[i - 1], p.comps[i])
    <2>1. f = [i \in 0..N |-> IF i = 0 THEN <<>> ELSE CleanStep(p.abs, f[i - 1], p.comps[i])]
      BY <1>5
    <2>2. N \in Nat
      OBVIOUS
    <2> HIDE DEF N, Of
    <2>3. DOMAIN f = 0..N
      BY <2>1
    <2>4. \A i \in 0..N : f[i] = IF i = 0 THEN <<>> ELSE CleanStep(p.abs, f[i - 1], p.comps[i])
      BY <2>1
    <2>5. f[0] = <<>>
      BY <2>2, <2>4
    <2>6. ASSUME NEW i \in 1..N PROVE f[i] = CleanStep(p.abs, f[i - 1], p.comps[i])
      <3>1. i \in 0..N /\ i # 0
        BY <2>2
      <3> QED BY <2>4, <3>1
    <2> QED BY <2>3, <2>5, <2>6
  <1> HIDE DEF Of
  <1> QED BY <1>4, <1>5

\* What any list has that starts empty and takes the steps of filepath.Clean.
LEMMA CleanedAs ==
  ASSUME NEW p, Len(p.comps) \in Nat, NEW g, g[0] = <<>>,
         \A i \in 1..Len(p.comps) : g[i] = CleanStep(p.abs, g[i - 1], p.comps[i])
  PROVE  Cleaned(p)[Len(p.comps)] = g[Len(p.comps)]
  <1> DEFINE N == Len(p.comps)
             S == {i \in 0..N : Cleaned(p)[i] = g[i]}
  <1>1. 0 \in S
    BY CleanedIs
  <1>2. ASSUME NEW i \in 0..N - 1, i \in S PROVE i + 1 \in S
    <2>1. i + 1 \in 1..N /\ (i + 1) - 1 = i
      OBVIOUS
    <2>2. Cleaned(p)[i + 1] = CleanStep(p.abs, Cleaned(p)[i], p.comps[i + 1])
      BY <2>1, CleanedIs
    <2>3. g[i + 1] = CleanStep(p.abs, g[i], p.comps[i + 1])
      BY <2>1
    <2> QED BY <1>2, <2>1, <2>2, <2>3
  <1>3. 0..N \subseteq S
    <2> HIDE DEF S
    <2> QED BY <1>1, <1>2, UpTo
  <1> QED BY <1>3

\* What each kind of component does to the ones before it: a name is kept,
LEMMA StepOfName ==
  ASSUME NEW abs, NEW done, NEW c \in DirNames
  PROVE  CleanStep(abs, done, c) = Append(done, c)
  BY DEF CleanStep, DirNames

\* "." is dropped,
LEMMA StepOfDot ==
  ASSUME NEW abs, NEW done
  PROVE  CleanStep(abs, done, ".") = done
  BY DEF CleanStep

\* ".." takes a name away,
LEMMA StepUp ==
  ASSUME NEW abs, NEW done \in Directories, done # <<>>
  PROVE  CleanStep(abs, done, "..") = SubSeq(done, 1, Len(done) - 1)
  <1>1. Last(done) # ".."
    BY DEF Last, Directories, DirNames
  <1> QED BY <1>1 DEF CleanStep, Front

\* and is kept at the start of a path that is not absolute.
LEMMA StepUpKept ==
  ASSUME NEW done \in Seq(Components), done # <<>> => done[Len(done)] = ".."
  PROVE  CleanStep(FALSE, done, "..") = Append(done, "..")
  BY DEF CleanStep, Last, Components

\* Lists that are built one element at a time.
LEMMA ListsOf ==
  ASSUME NEW S
  PROVE  /\ <<>> \in Seq(S)
         /\ \A x \in S : <<x>> \in Seq(S)
         /\ \A s \in Seq(S) : \A x \in S : Append(s, x) \in Seq(S)
  OBVIOUS

\* A step leaves components, and of an absolute path names only.
LEMMA StepTypes ==
  ASSUME NEW abs \in BOOLEAN, NEW c \in Components
  PROVE  /\ \A done \in Seq(Components) : CleanStep(abs, done, c) \in Seq(Components)
         /\ abs => \A done \in Directories : CleanStep(abs, done, c) \in Directories
  <1>1. ASSUME NEW done \in Seq(Components) PROVE CleanStep(abs, done, c) \in Seq(Components)
    <2>1. done # <<>> => Front(done) \in Seq(Components)
      BY DEF Front
    <2>2. Append(done, c) \in Seq(Components)
      BY ListsOf
    <2> QED BY <2>1, <2>2 DEF CleanStep
  <1>2. ASSUME abs, NEW done \in Directories PROVE CleanStep(abs, done, c) \in Directories
    <2>1. CASE c = "."
      BY <1>2, <2>1, StepOfDot
    <2>2. CASE c = ".." /\ done = <<>>
      BY <1>2, <2>2 DEF CleanStep
    <2>3. CASE c = ".." /\ done # <<>>
      <3>1. CleanStep(abs, done, c) = SubSeq(done, 1, Len(done) - 1)
        BY <2>3, <1>2, StepUp
      <3> QED BY <3>1, <1>2, <2>3 DEF Directories
    <2>4. CASE c \in DirNames
      <3>1. CleanStep(abs, done, c) = Append(done, c)
        BY <2>4, StepOfName
      <3>2. Append(done, c) \in Directories
        BY <2>4, <1>2, ListsOf DEF Directories
      <3> QED BY <3>1, <3>2
    <2> QED BY <2>1, <2>2, <2>3, <2>4 DEF Components
  <1> QED BY <1>1, <1>2

\* Clean makes a path of a path, and a directory of an absolute one.
LEMMA CleanTypes ==
  ASSUME NEW p \in Paths
  PROVE  /\ Clean(p) \in Paths
         /\ Clean(p).abs = p.abs
         /\ p.abs => Clean(p).comps \in Directories
  <1> DEFINE N == Len(p.comps)
             S == {i \in 0..N : Cleaned(p)[i] \in Seq(Components) /\ (p.abs => Cleaned(p)[i] \in Directories)}
  <1>1. p.abs \in BOOLEAN /\ p.comps \in Seq(Components) /\ N \in Nat
    BY DEF Paths
  <1>2. 0 \in S
    <2>1. Cleaned(p)[0] = <<>>
      BY <1>1, CleanedIs
    <2>2. <<>> \in Seq(Components) /\ <<>> \in Directories
      BY ListsOf DEF Directories
    <2>3. Cleaned(p)[0] \in Seq(Components) /\ Cleaned(p)[0] \in Directories
      BY Zenon, <2>1, <2>2
    <2>4. 0 \in 0..N
      BY <1>1
    <2> QED BY Zenon, <2>3, <2>4
  <1>3. ASSUME NEW i \in 0..N - 1, i \in S PROVE i + 1 \in S
    <2>1. i + 1 \in 1..N /\ (i + 1) - 1 = i
      BY <1>1
    <2>2. Cleaned(p)[i + 1] = CleanStep(p.abs, Cleaned(p)[i], p.comps[i + 1])
      BY <1>1, <2>1, CleanedIs
    <2>3. p.comps[i + 1] \in Components
      BY <1>1, <2>1
    <2>4. Cleaned(p)[i] \in Seq(Components) /\ (p.abs => Cleaned(p)[i] \in Directories)
      BY <1>3
    <2>5. Cleaned(p)[i + 1] \in Seq(Components) /\ (p.abs => Cleaned(p)[i + 1] \in Directories)
      BY <1>1, <2>2, <2>3, <2>4, StepTypes
    <2> QED BY <2>1, <2>5
  <1>4. N \in S
    <2> HIDE DEF S
    <2>1. 0..N \subseteq S
      BY <1>1, <1>2, <1>3, UpTo
    <2> QED BY <1>1, <2>1
  <1>5. <<".">> \in Seq(Components)
    <2>1. "." \in Components
      BY DEF Components
    <2> QED BY <2>1, ListsOf
  <1> QED BY <1>1, <1>4, <1>5 DEF Clean, Paths

\* The beginnings of a list, each one element longer than the one before.
LEMMA Grows ==
  ASSUME NEW S, NEW s \in Seq(S), NEW i \in 1..Len(s)
  PROVE  /\ SubSeq(s, 1, i - 1) \in Seq(S) /\ Len(SubSeq(s, 1, i - 1)) = i - 1
         /\ SubSeq(s, 1, i) = Append(SubSeq(s, 1, i - 1), s[i])
  OBVIOUS

\* A path without "." and ".." is as Clean leaves it.
LEMMA CleanAsIs ==
  ASSUME NEW p, p.comps \in Directories, p.comps # <<>> \/ p.abs
  PROVE  Clean(p).comps = p.comps
  <1> DEFINE N == Len(p.comps)
             g == [i \in 0..N |-> SubSeq(p.comps, 1, i)]
  <1>1. p.comps \in Seq(DirNames) /\ N \in Nat
    BY DEF Directories
  <1>2. g[0] = <<>>
    BY <1>1
  <1>3. ASSUME NEW i \in 1..N PROVE g[i] = CleanStep(p.abs, g[i - 1], p.comps[i])
    <2>1. g[i] = Append(g[i - 1], p.comps[i])
      <3>1. SubSeq(p.comps, 1, i) = Append(SubSeq(p.comps, 1, i - 1), p.comps[i])
        BY <1>1, Grows
      <3>2. i \in 0..N /\ i - 1 \in 0..N
        BY <1>1
      <3> QED BY <3>1, <3>2
    <2>2. p.comps[i] \in DirNames
      BY <1>1
    <2> HIDE DEF g
    <2> QED BY <2>1, <2>2, StepOfName
  <1>4. g[N] = p.comps
    <2>1. \A S : \A s \in Seq(S) : SubSeq(s, 1, Len(s)) = s
      OBVIOUS
    <2>2. g[N] = SubSeq(p.comps, 1, N)
      BY <1>1
    <2> QED BY <1>1, <2>1, <2>2
  <1>5. Cleaned(p)[N] = p.comps
    <2> HIDE DEF g
    <2> QED BY <1>1, <1>2, <1>3, <1>4, CleanedAs
  <1> QED BY <1>5 DEF Clean

\* The longest common beginning of two lists.
LEMMA CommonOfTwo ==
  ASSUME NEW S, NEW s \in Seq(S), NEW t \in Seq(S)
  PROVE  LET common == LongestCommonPrefix({s, t})
         IN /\ Len(common) \in 0..Len(s) /\ Len(common) <= Len(t)
            /\ SubSeq(s, 1, Len(common)) = SubSeq(t, 1, Len(common))
  <1> DEFINE both == CommonPrefixes({s, t})
             L == {n \in 0..Len(s) : n <= Len(t) /\ SubSeq(s, 1, n) = SubSeq(t, 1, n)}
  <1>1. Len(s) \in Nat /\ Len(t) \in Nat
    OBVIOUS
  <1>2. ASSUME NEW n \in 0..Len(s) PROVE SubSeq(s, 1, n) \in Seq(S) /\ Len(SubSeq(s, 1, n)) = n
    OBVIOUS
  <1>3. ASSUME NEW n \in 0..Len(t) PROVE SubSeq(t, 1, n) \in Seq(S) /\ Len(SubSeq(t, 1, n)) = n
    OBVIOUS
  <1>4. ASSUME NEW x \in both PROVE Len(x) \in L
    <2>1. IsPrefix(x, s) /\ IsPrefix(x, t)
      BY DEF CommonPrefixes
    <2>2. Len(x) \in Nat
      <3>1. PICK seq \in {s, t} : x \in Prefixes(seq)
        BY DEF CommonPrefixes
      <3>2. CASE seq = s
        BY <3>1, <3>2, <1>1, <1>2 DEF Prefixes
      <3>3. CASE seq = t
        BY <3>1, <3>3, <1>1, <1>3 DEF Prefixes
      <3> QED BY <3>1, <3>2, <3>3
    <2> QED BY <2>1, <2>2, <1>1 DEF IsPrefix
  <1>5. ASSUME NEW n \in L PROVE SubSeq(s, 1, n) \in both /\ Len(SubSeq(s, 1, n)) = n
    <2> DEFINE x == SubSeq(s, 1, n)
    <2>1. n \in 0..Len(s) /\ n \in 0..Len(t) /\ x = SubSeq(t, 1, n)
      BY <1>1
    <2>2. x \in Seq(S) /\ Len(x) = n /\ SubSeq(x, 1, n) = x
      BY <2>1
    <2>3. x \in Prefixes(s)
      BY <2>1 DEF Prefixes
    <2>4. IsPrefix(x, s) /\ IsPrefix(x, t)
      BY <2>1, <2>2, <1>1 DEF IsPrefix
    <2> HIDE DEF x
    <2>5. x \in both
      BY <2>3, <2>4 DEF CommonPrefixes
    <2> QED BY <2>2, <2>5 DEF x
  <1>6. PICK m \in L : \A n \in L : n <= m
    <2> DEFINE D == {Len(s) - n : n \in L}
    <2>1. D \subseteq Nat
      BY <1>1
    <2>2. 0 \in L
      BY <1>1
    <2>3. PICK d \in D : \A e \in D : d <= e
      <3>1. D # {}
        BY <2>2
      <3> HIDE DEF D
      <3> QED BY <2>1, <3>1, LeastNumber
    <2>4. PICK m \in L : d = Len(s) - m
      BY <2>3
    <2>5. ASSUME NEW n \in L PROVE n <= m
      <3>1. Len(s) - m <= Len(s) - n
        BY <2>3, <2>4
      <3>2. n \in Nat /\ m \in Nat
        BY <1>1
      <3> QED BY <1>1, <3>1, <3>2
    <2> QED BY <2>5
  <1> HIDE DEF L
  <1>7. \E x \in both : \A y \in both : Len(y) <= Len(x)
    <2>1. SubSeq(s, 1, m) \in both /\ Len(SubSeq(s, 1, m)) = m
      BY <1>5
    <2> HIDE DEF both
    <2> QED BY <1>4, <1>6, <2>1
  <1>8. LongestCommonPrefix({s, t}) \in both
    <2> HIDE DEF both
    <2>1. LongestCommonPrefix({s, t}) = CHOOSE x \in both : \A y \in both : Len(y) <= Len(x)
      BY DEF LongestCommonPrefix, both
    <2> QED BY <1>7, <2>1
  <1> HIDE DEF both
  <1>9. Len(LongestCommonPrefix({s, t})) \in L
    BY <1>4, <1>8
  <1> QED BY <1>9 DEF L

\* Two lists, one after the other.
LEMMA JoinedLists ==
  ASSUME NEW S, NEW s \in Seq(S), NEW t \in Seq(S)
  PROVE  /\ s \o t \in Seq(S) /\ Len(s \o t) = Len(s) + Len(t)
         /\ \A i \in 1..Len(s) : (s \o t)[i] = s[i]
         /\ \A i \in Len(s) + 1..Len(s) + Len(t) : (s \o t)[i] = t[i - Len(s)]
  OBVIOUS

\* filepath.Rel goes up to a directory above both, and down from there.
Between(dir, comps, k) ==
  [i \in 1..Len(dir) - k |-> ".."] \o SubSeq(comps, k + 1, Len(comps))

LEMMA RelIs ==
  ASSUME NEW dir \in Directories, NEW comps \in Directories
  PROVE  \E k \in 0..Len(dir) :
           /\ k <= Len(comps) /\ SubSeq(dir, 1, k) = SubSeq(comps, 1, k)
           /\ Rel(dir, comps) = [abs |-> FALSE, comps |-> Between(dir, comps, k)]
  BY CommonOfTwo DEF Rel, Between, Directories

\* The way from one directory to another: first up, then down.
LEMMA BetweenIs ==
  ASSUME NEW dir \in Directories, NEW comps \in Directories, NEW k \in 0..Len(dir), k <= Len(comps)
  PROVE  LET up == Len(dir) - k
             rel == Between(dir, comps, k)
         IN /\ up \in Nat /\ rel \in Seq(Components) /\ Len(rel) = up + Len(comps) - k
            /\ \A i \in 1..up : rel[i] = ".."
            /\ \A i \in up + 1..Len(rel) : rel[i] = comps[k + i - up]
  <1> DEFINE up == Len(dir) - k
             ups == [i \in 1..up |-> ".."]
             down == SubSeq(comps, k + 1, Len(comps))
  <1>1. Len(dir) \in Nat /\ Len(comps) \in Nat /\ up \in Nat /\ k \in Nat
    BY DEF Directories
  <1>2. ups \in Seq(Components) /\ Len(ups) = up
    <2>1. \A S : \A x \in S : LET s == [i \in 1..up |-> x] IN s \in Seq(S) /\ Len(s) = up
      BY <1>1
    <2>2. ".." \in Components
      BY DEF Components
    <2> QED BY <2>1, <2>2
  <1>3. down \in Seq(Components) /\ Len(down) = Len(comps) - k
        /\ \A i \in 1..Len(down) : down[i] = comps[k + i]
    <2>1. comps \in Seq(Components)
      BY DEF Directories, Components
    <2>2. ASSUME NEW S, NEW s \in Seq(S), k <= Len(s)
          PROVE  LET d == SubSeq(s, k + 1, Len(s))
                 IN d \in Seq(S) /\ Len(d) = Len(s) - k /\ \A i \in 1..Len(d) : d[i] = s[k + i]
      BY <1>1, <2>2
    <2> QED BY <2>1, <2>2
  <1> HIDE DEF ups, down
  <1>4. LET rel == ups \o down
        IN /\ rel \in Seq(Components) /\ Len(rel) = up + Len(comps) - k
           /\ \A i \in 1..up : rel[i] = ups[i]
           /\ \A i \in up + 1..Len(rel) : rel[i] = down[i - up]
    <2>1. /\ ups \o down \in Seq(Components) /\ Len(ups \o down) = Len(ups) + Len(down)
          /\ \A i \in 1..Len(ups) : (ups \o down)[i] = ups[i]
          /\ \A i \in Len(ups) + 1..Len(ups) + Len(down) : (ups \o down)[i] = down[i - Len(ups)]
      BY <1>2, <1>3, JoinedLists
    <2>2. Len(ups) = up /\ Len(ups) + Len(down) = up + Len(comps) - k
      BY <1>1, <1>2, <1>3
    <2> QED BY <2>1, <2>2
  <1>5. \A i \in up + 1..up + Len(comps) - k : i - up \in 1..Len(down) /\ k + (i - up) = k + i - up
    BY <1>1, <1>3
  <1>6. \A i \in 1..up : ups[i] = ".."
    BY DEF ups
  <1>7. Between(dir, comps, k) = ups \o down
    BY DEF Between, ups, down
  <1> QED BY <1>1, <1>3, <1>4, <1>5, <1>6, <1>7

\* Clean leaves the way from one directory to another as Rel has made it.
LEMMA CleanedRel ==
  ASSUME NEW dir \in Directories, NEW comps \in Directories,
         NEW k \in 0..Len(dir), k <= Len(comps)
  PROVE  \A p : p.abs = FALSE /\ p.comps = Between(dir, comps, k)
                 => Clean(p) = [abs |-> FALSE, comps |-> IF p.comps = <<>> THEN <<".">> ELSE p.comps]
  <1> SUFFICES ASSUME NEW p, p.abs = FALSE, p.comps = Between(dir, comps, k)
               PROVE  Clean(p) = [abs |-> FALSE, comps |-> IF p.comps = <<>> THEN <<".">> ELSE p.comps]
    OBVIOUS
  <1> DEFINE rel == Between(dir, comps, k)
             up == Len(dir) - k
             N == Len(rel)
             g == [i \in 0..N |-> SubSeq(rel, 1, i)]
  <1>1. /\ up \in Nat /\ rel \in Seq(Components) /\ N = up + Len(comps) - k
        /\ \A i \in 1..up : rel[i] = ".."
        /\ \A i \in up + 1..N : rel[i] = comps[k + i - up]
    BY BetweenIs
  <1>2. N \in Nat /\ k \in Nat /\ Len(comps) \in Nat /\ up <= N
    BY <1>1 DEF Directories
  <1> HIDE DEF rel
  <1>3. g[0] = <<>>
    BY <1>1, <1>2
  <1>4. ASSUME NEW i \in 1..N PROVE g[i] = CleanStep(FALSE, g[i - 1], rel[i])
    <2>1. g[i] = Append(g[i - 1], rel[i]) /\ g[i - 1] \in Seq(Components) /\ Len(g[i - 1]) = i - 1
      <3>1. /\ SubSeq(rel, 1, i) = Append(SubSeq(rel, 1, i - 1), rel[i])
            /\ SubSeq(rel, 1, i - 1) \in Seq(Components) /\ Len(SubSeq(rel, 1, i - 1)) = i - 1
        BY <1>1, Grows
      <3>2. i \in 0..N /\ i - 1 \in 0..N
        BY <1>2
      <3> QED BY <3>1, <3>2
    <2>2. CASE i <= up
      <3>1. rel[i] = ".."
        BY <1>1, <2>2
      <3>2. g[i - 1] # <<>> => g[i - 1][Len(g[i - 1])] = ".."
        <4>1. CASE i = 1
          BY <1>3, <4>1
        <4>2. CASE i # 1
          <5>1. i - 1 \in 1..up /\ i - 1 \in 0..N /\ i - 1 \in 1..N
            BY <1>1, <1>2, <2>2, <4>2
          <5>2. SubSeq(rel, 1, i - 1)[i - 1] = rel[i - 1]
            BY <1>1, <5>1
          <5> QED BY <1>1, <2>1, <5>1, <5>2
        <4> QED BY <4>1, <4>2
      <3> HIDE DEF g
      <3> QED BY <2>1, <3>1, <3>2, StepUpKept
    <2>3. CASE i > up
      <3>1. rel[i] \in DirNames
        <4>1. i \in up + 1..N /\ k + i - up \in 1..Len(comps)
          BY <1>1, <1>2, <2>3
        <4>2. comps[k + i - up] \in DirNames
          BY <4>1 DEF Directories
        <4> QED BY <1>1, <4>1, <4>2
      <3> HIDE DEF g
      <3> QED BY <2>1, <3>1, StepOfName
    <2>4. i <= up \/ i > up
      BY <1>2
    <2> HIDE DEF g, up
    <2> QED BY <2>2, <2>3, <2>4
  <1>5. g[N] = rel
    <2>1. \A S : \A s \in Seq(S) : SubSeq(s, 1, Len(s)) = s
      OBVIOUS
    <2>2. g[N] = SubSeq(rel, 1, N)
      BY <1>2
    <2> QED BY <1>1, <2>1, <2>2
  <1>6. p.comps = rel
    BY DEF rel
  <1>7. Cleaned(p)[Len(p.comps)] = rel
    <2> HIDE DEF g
    <2> QED BY <1>2, <1>3, <1>4, <1>5, <1>6, CleanedAs
  <1> QED BY <1>6, <1>7 DEF Clean

\* Down a directory, up again some of the way, and down to another one.
Walk(comps, from, to, k, up, down) ==
  /\ Len(from) = k + up /\ Len(to) = k + down /\ SubSeq(from, 1, k) = SubSeq(to, 1, k)
  /\ Len(comps) = k + up + up + down
  /\ \A i \in 1..k + up : comps[i] = from[i]
  /\ \A i \in 1..up : comps[k + up + i] = ".."
  /\ \A i \in 1..down : comps[k + up + up + i] = to[k + i]

LEMMA DownUpDown ==
  ASSUME NEW dir \in Directories, NEW comps \in Directories,
         NEW k \in Nat, NEW up \in Nat, NEW down \in Nat,
         NEW p, Walk(p.comps, dir, comps, k, up, down)
  PROVE  Cleaned(p)[Len(p.comps)] = comps
  <1> DEFINE L == k + up
             T == L + up
             N == T + down
             g == [i \in 0..N |->
                     IF i <= L THEN SubSeq(dir, 1, i)
                     ELSE IF i <= T THEN SubSeq(dir, 1, L + L - i)
                     ELSE SubSeq(comps, 1, k + (i - T))]
  <1>0. /\ Len(dir) = k + up /\ Len(comps) = k + down /\ SubSeq(dir, 1, k) = SubSeq(comps, 1, k)
        /\ Len(p.comps) = k + up + up + down
        /\ \A i \in 1..k + up : p.comps[i] = dir[i]
        /\ \A i \in 1..up : p.comps[k + up + i] = ".."
        /\ \A i \in 1..down : p.comps[k + up + up + i] = comps[k + i]
    BY DEF Walk
  <1>1. /\ dir \in Seq(DirNames) /\ comps \in Seq(DirNames)
        /\ SubSeq(dir, 1, L) = dir /\ SubSeq(comps, 1, k + down) = comps /\ SubSeq(dir, 1, 0) = <<>>
    <2>1. dir \in Seq(DirNames) /\ comps \in Seq(DirNames)
      BY DEF Directories
    <2>2. \A S : \A s \in Seq(S) : SubSeq(s, 1, Len(s)) = s /\ SubSeq(s, 1, 0) = <<>>
      OBVIOUS
    <2> QED BY <1>0, <2>1, <2>2
  <1>2. /\ L \in Nat /\ T \in Nat /\ N \in Nat /\ L <= T /\ T <= N /\ L = k + up /\ T = L + up /\ N = T + down
    OBVIOUS
  <1> HIDE DEF L, T, N
  <1>3. \A i \in 0..L : g[i] = SubSeq(dir, 1, i)
    BY <1>2
  <1>4. \A i \in 0..up : g[L + i] = SubSeq(dir, 1, L - i)
    <2> SUFFICES ASSUME NEW i \in 0..up PROVE g[L + i] = SubSeq(dir, 1, L - i)
      OBVIOUS
    <2>1. CASE i = 0
      <3>1. L + i = L /\ L - i = L /\ L \in 0..L
        BY <1>2, <2>1
      <3> QED BY <1>3, <3>1
    <2>2. CASE i # 0
      <3>1. L + i \in 0..N /\ ~(L + i <= L) /\ L + i <= T
        BY <1>2, <2>2
      <3>2. g[L + i] = SubSeq(dir, 1, L + L - (L + i))
        BY <3>1
      <3>3. L + L - (L + i) = L - i
        BY <1>2
      <3> QED BY <3>2, <3>3
    <2> QED BY <2>1, <2>2
  <1>5. \A i \in 0..down : g[T + i] = SubSeq(comps, 1, k + i)
    <2> SUFFICES ASSUME NEW i \in 0..down PROVE g[T + i] = SubSeq(comps, 1, k + i)
      OBVIOUS
    <2>1. CASE i = 0
      <3>1. g[L + up] = SubSeq(dir, 1, L - up)
        <4> HIDE DEF g
        <4>1. up \in 0..up
          OBVIOUS
        <4> QED BY <1>4, <4>1
      <3>2. L - up = k /\ T + i = L + up /\ k + i = k
        BY <1>2, <2>1
      <3> QED BY <1>0, <3>1, <3>2
    <2>2. CASE i # 0
      <3>1. T + i \in 0..N /\ ~(T + i <= L) /\ ~(T + i <= T)
        BY <1>2, <2>2
      <3>2. g[T + i] = SubSeq(comps, 1, k + ((T + i) - T))
        BY <3>1
      <3>3. k + ((T + i) - T) = k + i
        BY <1>2
      <3> QED BY <3>2, <3>3
    <2> QED BY <2>1, <2>2
  <1> HIDE DEF g
  <1>6. g[0] = <<>> /\ g[N] = comps
    <2>1. 0 \in 0..L /\ down \in 0..down
      BY <1>2
    <2>2. g[0] = SubSeq(dir, 1, 0) /\ g[T + down] = SubSeq(comps, 1, k + down)
      BY <1>3, <1>5, <2>1
    <2> QED BY <1>1, <1>2, <2>2
  <1>7. ASSUME NEW i \in 1..L PROVE g[i] = CleanStep(p.abs, g[i - 1], p.comps[i])
    <2>1. dir[i] \in DirNames /\ SubSeq(dir, 1, i) = Append(SubSeq(dir, 1, i - 1), dir[i])
      BY <1>1, <1>2, Grows
    <2>2. g[i] = SubSeq(dir, 1, i) /\ g[i - 1] = SubSeq(dir, 1, i - 1) /\ p.comps[i] = dir[i]
      BY <1>0, <1>2, <1>3
    <2>3. CleanStep(p.abs, SubSeq(dir, 1, i - 1), dir[i]) = Append(SubSeq(dir, 1, i - 1), dir[i])
      BY <2>1, StepOfName
    <2> QED BY <2>1, <2>2, <2>3
  <1>8. ASSUME NEW i \in 1..up PROVE g[L + i] = CleanStep(p.abs, g[L + i - 1], p.comps[L + i])
    <2>1. i - 1 \in 0..up /\ i \in 0..up /\ L + (i - 1) = L + i - 1 /\ L - (i - 1) \in 1..L
      BY <1>2
    <2> DEFINE m == L - (i - 1)
    <2>2. g[L + i - 1] = SubSeq(dir, 1, m) /\ m \in 1..L /\ L - i = m - 1
      <3>1. g[L + (i - 1)] = SubSeq(dir, 1, L - (i - 1))
        BY <1>4, <2>1
      <3>2. L - i = m - 1
        BY <1>2
      <3> QED BY <2>1, <3>1, <3>2
    <2>3. g[L + i] = SubSeq(dir, 1, m - 1)
      BY <1>4, <2>1, <2>2
    <2> HIDE DEF m
    <2>4. /\ SubSeq(dir, 1, m) \in Directories /\ SubSeq(dir, 1, m) # <<>>
          /\ SubSeq(SubSeq(dir, 1, m), 1, Len(SubSeq(dir, 1, m)) - 1) = SubSeq(dir, 1, m - 1)
      <3>1. \A S : \A s \in Seq(S) : \A n \in 1..Len(s) :
              /\ SubSeq(s, 1, n) \in Seq(S) /\ SubSeq(s, 1, n) # <<>>
              /\ SubSeq(SubSeq(s, 1, n), 1, Len(SubSeq(s, 1, n)) - 1) = SubSeq(s, 1, n - 1)
        OBVIOUS
      <3>2. m \in 1..Len(dir)
        BY <1>0, <1>2, <2>2
      <3> QED BY <1>1, <3>1, <3>2 DEF Directories
    <2>5. CleanStep(p.abs, SubSeq(dir, 1, m), "..") = SubSeq(dir, 1, m - 1)
      BY <2>4, StepUp
    <2>6. p.comps[L + i] = ".."
      BY <1>0, <1>2
    <2> QED BY <2>2, <2>3, <2>5, <2>6
  <1>9. ASSUME NEW i \in 1..down PROVE g[T + i] = CleanStep(p.abs, g[T + i - 1], p.comps[T + i])
    <2> DEFINE m == k + i
    <2>1. i - 1 \in 0..down /\ i \in 0..down /\ T + (i - 1) = T + i - 1 /\ m - 1 = k + (i - 1)
      BY <1>2
    <2>2. g[T + i] = SubSeq(comps, 1, m) /\ g[T + i - 1] = SubSeq(comps, 1, m - 1)
      <3>1. g[T + (i - 1)] = SubSeq(comps, 1, k + (i - 1))
        BY <1>5, <2>1
      <3>2. g[T + i] = SubSeq(comps, 1, m)
        BY <1>5, <2>1
      <3> HIDE DEF m
      <3> QED BY <2>1, <3>1, <3>2
    <2>3. m \in 1..Len(comps)
      BY <1>0
    <2>5. p.comps[T + i] = comps[m]
      BY <1>0, <1>2
    <2> HIDE DEF m
    <2>4. comps[m] \in DirNames /\ SubSeq(comps, 1, m) = Append(SubSeq(comps, 1, m - 1), comps[m])
      BY <1>1, <2>3, Grows
    <2>6. CleanStep(p.abs, SubSeq(comps, 1, m - 1), comps[m]) = Append(SubSeq(comps, 1, m - 1), comps[m])
      BY <2>4, StepOfName
    <2> QED BY <2>2, <2>4, <2>5, <2>6
  <1>10. ASSUME NEW i \in 1..N PROVE g[i] = CleanStep(p.abs, g[i - 1], p.comps[i])
    <2>1. CASE i \in 1..L
      BY <1>7, <2>1
    <2>2. CASE i \in L + 1..T
      <3>1. i - L \in 1..up /\ L + (i - L) = i
        BY <1>2, <2>2
      <3>2. PICK j \in 1..up : L + j = i
        BY <3>1
      <3>3. g[L + j] = CleanStep(p.abs, g[L + j - 1], p.comps[L + j])
        BY <1>8
      <3>4. L + j - 1 = i - 1
        BY <1>2, <3>2
      <3> QED BY <3>2, <3>3, <3>4
    <2>3. CASE i \in T + 1..N
      <3>1. i - T \in 1..down /\ T + (i - T) = i
        BY <1>2, <2>3
      <3>2. PICK j \in 1..down : T + j = i
        BY <3>1
      <3>3. g[T + j] = CleanStep(p.abs, g[T + j - 1], p.comps[T + j])
        BY <1>9
      <3>4. T + j - 1 = i - 1
        BY <1>2, <3>2
      <3> QED BY <3>2, <3>3, <3>4
    <2> QED BY <1>2, <2>1, <2>2, <2>3
  <1>11. N = Len(p.comps) /\ Len(p.comps) \in Nat
    BY <1>0, <1>2
  <1> QED BY <1>6, <1>10, <1>11, CleanedAs

\* Down a directory, and no further.
LEMMA DownAndStay ==
  ASSUME NEW dir \in Directories, NEW p, p.comps = dir \o <<".">>
  PROVE  Cleaned(p)[Len(p.comps)] = dir
  <1> DEFINE L == Len(dir)
             g == [i \in 0..L + 1 |-> IF i <= L THEN SubSeq(dir, 1, i) ELSE dir]
  <1>1. dir \in Seq(DirNames) /\ L \in Nat /\ SubSeq(dir, 1, L) = dir /\ SubSeq(dir, 1, 0) = <<>>
    <2>1. dir \in Seq(DirNames)
      BY DEF Directories
    <2>2. \A S : \A s \in Seq(S) : SubSeq(s, 1, Len(s)) = s /\ SubSeq(s, 1, 0) = <<>>
      OBVIOUS
    <2> QED BY <2>1, <2>2
  <1>2. Len(p.comps) = L + 1 /\ p.comps[L + 1] = "." /\ \A i \in 1..L : p.comps[i] = dir[i]
    <2> DEFINE here == <<".">>
    <2>1. "." \in Components /\ dir \in Seq(Components)
      BY DEF Directories, Components
    <2>2. here \in Seq(Components) /\ Len(here) = 1 /\ here[1] = "."
      BY <2>1, ListsOf
    <2>3. p.comps = dir \o here
      OBVIOUS
    <2> HIDE DEF here
    <2>4. /\ Len(p.comps) = L + Len(here)
          /\ \A i \in 1..L : p.comps[i] = dir[i]
          /\ \A i \in L + 1..L + Len(here) : p.comps[i] = here[i - L]
      BY <2>1, <2>2, <2>3, JoinedLists
    <2>5. L + 1 \in L + 1..L + Len(here) /\ (L + 1) - L = 1
      BY <1>1, <2>2
    <2> QED BY <2>2, <2>4, <2>5
  <1>3. g[0] = <<>> /\ g[L + 1] = dir /\ \A i \in 0..L : g[i] = SubSeq(dir, 1, i)
    <2> HIDE DEF L
    <2>1. \A i \in 0..L : g[i] = SubSeq(dir, 1, i)
      BY <1>1
    <2>2. g[L + 1] = dir
      BY <1>1
    <2>3. 0 \in 0..L
      BY <1>1
    <2> HIDE DEF g
    <2> QED BY <1>1, <2>1, <2>2, <2>3
  <1> HIDE DEF g, L
  <1>4. ASSUME NEW i \in 1..L PROVE g[i] = CleanStep(p.abs, g[i - 1], p.comps[i])
    <2>1. dir[i] \in DirNames /\ SubSeq(dir, 1, i) = Append(SubSeq(dir, 1, i - 1), dir[i])
      BY <1>1, Grows DEF L
    <2>2. g[i] = SubSeq(dir, 1, i) /\ g[i - 1] = SubSeq(dir, 1, i - 1) /\ p.comps[i] = dir[i]
      <3>1. i \in 0..L /\ i - 1 \in 0..L
        BY <1>1
      <3> QED BY <1>2, <1>3, <3>1
    <2> QED BY <2>1, <2>2, StepOfName
  <1>5. g[L + 1] = CleanStep(p.abs, g[L], p.comps[L + 1])
    <2>1. g[L] = dir
      BY <1>1, <1>3
    <2> QED BY <1>2, <1>3, <2>1, StepOfDot
  <1>6. ASSUME NEW i \in 1..L + 1 PROVE g[i] = CleanStep(p.abs, g[i - 1], p.comps[i])
    <2>1. CASE i \in 1..L
      BY <1>4, <2>1
    <2>2. CASE i = L + 1
      <3>1. i - 1 = L
        BY <1>1, <2>2
      <3> QED BY <1>5, <2>2, <3>1
    <2> QED BY <1>1, <2>1, <2>2
  <1>7. Len(p.comps) \in Nat /\ \A i \in 1..Len(p.comps) : g[i] = CleanStep(p.abs, g[i - 1], p.comps[i])
    BY <1>1, <1>2, <1>6
  <1>8. Cleaned(p)[Len(p.comps)] = g[Len(p.comps)]
    BY <1>3, <1>7, CleanedAs
  <1> QED BY <1>2, <1>3, <1>8

\* From a directory, the way to another one leads there.
LEMMA WayBack ==
  ASSUME NEW dir \in Directories, NEW comps \in Directories
  PROVE  PathFrom(dir, Clean(Rel(dir, comps))).comps = comps
  <1>1. PICK k \in 0..Len(dir) :
          /\ k <= Len(comps) /\ SubSeq(dir, 1, k) = SubSeq(comps, 1, k)
          /\ Rel(dir, comps) = [abs |-> FALSE, comps |-> Between(dir, comps, k)]
    BY RelIs
  <1> DEFINE rel == Between(dir, comps, k)
             up == Len(dir) - k
             down == Len(comps) - k
             way == IF rel = <<>> THEN <<".">> ELSE rel
             p == [abs |-> TRUE, comps |-> dir \o way]
  <1>2. Clean(Rel(dir, comps)) = [abs |-> FALSE, comps |-> way]
    <2>1. Rel(dir, comps).abs = FALSE /\ Rel(dir, comps).comps = rel
      BY <1>1
    <2>2. Clean(Rel(dir, comps))
            = [abs |-> FALSE, comps |-> IF Rel(dir, comps).comps = <<>> THEN <<".">> ELSE Rel(dir, comps).comps]
      <3> DEFINE r == Rel(dir, comps)
      <3>1. k <= Len(comps) /\ r.abs = FALSE /\ r.comps = Between(dir, comps, k)
        BY <1>1, <2>1
      <3> HIDE DEF rel, up, down, way, p, r
      <3>2. Clean(r) = [abs |-> FALSE, comps |-> IF r.comps = <<>> THEN <<".">> ELSE r.comps]
        <4>1. \A q : q.abs = FALSE /\ q.comps = Between(dir, comps, k)
                     => Clean(q) = [abs |-> FALSE, comps |-> IF q.comps = <<>> THEN <<".">> ELSE q.comps]
          BY <3>1, CleanedRel
        <4> QED BY <3>1, <4>1
      <3> QED BY <3>2 DEF r
    <2> QED BY <2>1, <2>2
  <1>3. PathFrom(dir, Clean(Rel(dir, comps))) = Clean(p)
    <2> HIDE DEF way
    <2> QED BY <1>2 DEF PathFrom
  <1>4. Len(dir) \in Nat /\ Len(comps) \in Nat /\ dir \in Seq(DirNames) /\ comps \in Seq(DirNames)
        /\ dir \in Seq(Components)
    BY DEF Directories, Components
  <1>5. /\ up \in Nat /\ down \in Nat /\ Len(dir) = k + up /\ Len(comps) = k + down /\ k \in Nat
    BY <1>1, <1>4
  <1>6. /\ rel \in Seq(Components) /\ Len(rel) = up + down
        /\ \A i \in 1..up : rel[i] = ".."
        /\ \A i \in 1..down : rel[up + i] = comps[k + i]
    <2>1. /\ rel \in Seq(Components) /\ Len(rel) = up + Len(comps) - k
          /\ \A i \in 1..up : rel[i] = ".."
          /\ \A i \in up + 1..Len(rel) : rel[i] = comps[k + i - up]
      BY <1>1, BetweenIs
    <2> HIDE DEF rel, up, down
    <2>2. Len(rel) = up + down
      BY <1>5, <2>1
    <2>3. ASSUME NEW i \in 1..down PROVE rel[up + i] = comps[k + i]
      <3>1. up + i \in up + 1..Len(rel) /\ k + (up + i) - up = k + i
        BY <1>5, <2>2
      <3> QED BY <2>1, <3>1
    <2> QED BY <2>1, <2>2, <2>3
  <1> HIDE DEF rel, up, down
  <1>7. CASE rel = <<>>
    <2>1. dir = comps
      <3>1. Len(rel) = 0
        BY <1>7
      <3>2. k = Len(dir) /\ k = Len(comps)
        BY <1>5, <1>6, <3>1
      <3>3. \A S : \A s \in Seq(S) : SubSeq(s, 1, Len(s)) = s
        OBVIOUS
      <3>4. SubSeq(dir, 1, k) = dir /\ SubSeq(comps, 1, k) = comps
        BY <1>4, <3>2, <3>3
      <3> QED BY <1>1, <3>4
    <2>2. p.comps = dir \o <<".">> /\ p.abs
      BY <1>7
    <2> HIDE DEF p
    <2>3. Cleaned(p)[Len(p.comps)] = dir
      BY <2>2, DownAndStay
    <2>4. Clean(p).comps = dir
      BY <2>2, <2>3 DEF Clean
    <2> QED BY <1>3, <2>1, <2>4
  <1>8. CASE rel # <<>>
    <2>1. p.comps = dir \o rel /\ p.abs
      BY <1>8
    <2> HIDE DEF p
    <2>2. /\ Len(p.comps) = k + up + up + down
          /\ \A i \in 1..k + up : p.comps[i] = dir[i]
          /\ \A i \in k + up + 1..k + up + up + down : p.comps[i] = rel[i - (k + up)]
      <3>1. /\ Len(dir \o rel) = Len(dir) + Len(rel)
            /\ \A i \in 1..Len(dir) : (dir \o rel)[i] = dir[i]
            /\ \A i \in Len(dir) + 1..Len(dir) + Len(rel) : (dir \o rel)[i] = rel[i - Len(dir)]
        BY <1>4, <1>6, JoinedLists, ZenonT(30)
      <3>2. Len(dir) + Len(rel) = k + up + up + down
        BY <1>5, <1>6
      <3> QED BY <1>5, <2>1, <3>1, <3>2
    <2>3. ASSUME NEW i \in 1..up PROVE p.comps[k + up + i] = ".."
      <3>1. k + up + i \in k + up + 1..k + up + up + down /\ (k + up + i) - (k + up) = i
        BY <1>5
      <3> QED BY <1>6, <2>2, <3>1
    <2>4. ASSUME NEW i \in 1..down PROVE p.comps[k + up + up + i] = comps[k + i]
      <3>1. k + up + up + i \in k + up + 1..k + up + up + down /\ (k + up + up + i) - (k + up) = up + i
        BY <1>5
      <3>2. p.comps[k + up + up + i] = rel[(k + up + up + i) - (k + up)]
        BY <2>2, <3>1
      <3>3. rel[up + i] = comps[k + i]
        BY <1>5, <1>6
      <3> QED BY <3>1, <3>2, <3>3
    <2>5. Cleaned(p)[Len(p.comps)] = comps
      <3>1. SubSeq(dir, 1, k) = SubSeq(comps, 1, k)
        BY <1>1
      <3>2. Walk(p.comps, dir, comps, k, up, down)
        BY <1>5, <2>2, <2>3, <2>4, <3>1 DEF Walk
      <3> QED BY <1>5, <3>2, DownUpDown
    <2>6. Clean(p).comps = comps
      BY <2>1, <2>5 DEF Clean
    <2> QED BY <1>3, <2>6
  <1> QED BY <1>7, <1>8

\* What "plugin add" stores leads, from the directory of the config file, where the path
\* it was given leads from the working directory.
LEMMA StoredLeads ==
  ASSUME NEW dir \in Directories, cmd.cwd \in Directories, NEW p \in Paths
  PROVE  /\ Normalize(dir, p) \in Paths
         /\ PathFrom(dir, Normalize(dir, p)).comps = PathFrom(cmd.cwd, p).comps
  <1>1. CASE p.abs
    <2>1. Clean(p) \in Paths /\ Clean(p).abs /\ Clean(p).comps \in Directories
      BY <1>1, CleanTypes
    <2>2. Clean(Clean(p)).comps = Clean(p).comps
      BY <2>1, CleanAsIs
    <2>3. PathFrom(cmd.cwd, p) = Clean(p) /\ Normalize(dir, p) = Clean(p)
      BY <1>1 DEF PathFrom, Normalize
    <2>4. PathFrom(dir, Clean(p)) = Clean(Clean(p))
      BY <2>1 DEF PathFrom
    <2> QED BY <2>1, <2>2, <2>3, <2>4
  <1>2. CASE ~p.abs
    <2> DEFINE whole == [abs |-> TRUE, comps |-> cmd.cwd \o p.comps]
               end == Clean(whole).comps
    <2>1. whole \in Paths /\ whole.abs
      <3>1. cmd.cwd \in Seq(Components) /\ p.comps \in Seq(Components)
        BY DEF Directories, Components, Paths
      <3>2. cmd.cwd \o p.comps \in Seq(Components)
        BY <3>1, JoinedLists
      <3> QED BY <3>2 DEF Paths
    <2>2. end \in Directories
      <3> HIDE DEF whole
      <3> QED BY <2>1, CleanTypes
    <2>3. PathFrom(cmd.cwd, p).comps = end
      BY <1>2 DEF PathFrom
    <2>4. Normalize(dir, p) = Clean(Rel(dir, end))
      BY <1>2, <2>3 DEF Normalize
    <2> HIDE DEF end
    <2>5. PathFrom(dir, Clean(Rel(dir, end))).comps = end
      BY <2>2, WayBack
    <2>6. Rel(dir, end) \in Paths
      <3>1. PICK k \in 0..Len(dir) :
              /\ k <= Len(end)
              /\ Rel(dir, end) = [abs |-> FALSE, comps |-> Between(dir, end, k)]
        BY <2>2, RelIs
      <3>2. Between(dir, end, k) \in Seq(Components)
        BY <2>2, <3>1, BetweenIs
      <3> QED BY <3>1, <3>2 DEF Paths
    <2>7. Clean(Rel(dir, end)) \in Paths
      BY <2>6, CleanTypes
    <2> QED BY <2>3, <2>4, <2>5, <2>7
  <1> QED BY <1>1, <1>2

-----------------------------------------------------------------------------
(* The config files.                                                       *)

\* The commands and the config files are as they should be, and an added name stands
\* for an entry of a file that there is.
ProjectInv ==
  /\ script \in Seq(Commands)
  /\ cmd.do = "none" \/ cmd \in Commands
  /\ DOMAIN files \subseteq Directories /\ \A dir \in DOMAIN files : files[dir] \in ConfigFiles
  /\ \A n \in DOMAIN meant : n = <<n[1], n[2]>> /\ n[1] \in DOMAIN files
  /\ AddedIsFound

\* A step that leaves the commands and the files alone.
LEMMA SameProject ==
  ASSUME ProjectInv, UNCHANGED <<script, cmd, files, meant>>
  PROVE  ProjectInv'
  BY DEF ProjectInv, AddedIsFound

\* What a command is called with.
LEMMA CommandTypes ==
  ASSUME NEW c \in Commands
  PROVE  /\ c.cwd \in Directories
         /\ c.do = "add" => c.name \in STRING /\ c.path \in Paths
         /\ c.do # "none"
  BY DEF Commands, EngineCommands

\* The nearest config file is one of those upwards.
LEMMA NearestIs ==
  ASSUME ConfigDirs # {}, cmd.cwd \in Directories, DOMAIN files \subseteq Directories
  PROVE  ConfigDir \in ConfigDirs
  <1> DEFINE D == {Len(cmd.cwd) - Len(d) : d \in ConfigDirs}
  <1>1. Len(cmd.cwd) \in Nat /\ \A d \in ConfigDirs : Len(d) \in Nat /\ Len(d) <= Len(cmd.cwd)
    BY DEF ConfigDirs, Directories, IsPrefix
  <1>2. D \subseteq Nat /\ D # {}
    BY <1>1
  <1>3. PICK least \in D : \A e \in D : least <= e
    <2> HIDE DEF D
    <2> QED BY <1>2, LeastNumber
  <1>4. PICK d \in ConfigDirs : least = Len(cmd.cwd) - Len(d)
    BY <1>3
  <1>5. ASSUME NEW o \in ConfigDirs PROVE Len(o) <= Len(d)
    <2>1. Len(cmd.cwd) - Len(d) <= Len(cmd.cwd) - Len(o)
      BY <1>3, <1>4
    <2> QED BY <1>1, <2>1
  <1> QED BY <1>5 DEF ConfigDir

\* The entry that is added takes the place of the first one of its name, or comes last.
LEMMA EntryTakesItsPlace ==
  ASSUME NEW entries, NEW name,
         NEW same, same = SelectInSeq(entries, LAMBDA e : e.name = name), Len(entries) \in Nat
  PROVE  same # 0 => same \in 1..Len(entries) /\ entries[same].name = name
  <1> DEFINE I == {i \in 1..Len(entries) : entries[i].name = name}
  <1>1. same = IF I # {} THEN Min(I) ELSE 0
    BY DEF SelectInSeq
  <1>2. ASSUME I # {} PROVE Min(I) \in I
    <2>1. \E x \in I : \A y \in I : x <= y
      <3>1. I \subseteq Nat
        OBVIOUS
      <3> HIDE DEF I
      <3> QED BY <1>2, <3>1, LeastNumber
    <2> HIDE DEF I
    <2> QED BY <2>1 DEF Min
  <1> HIDE DEF I
  <1>3. same # 0 => same \in I
    BY <1>1, <1>2
  <1> QED BY <1>3 DEF I

\* A list with one more element at the end, or another one at a place.
LEMMA Renewed ==
  ASSUME NEW S, NEW s \in Seq(S), NEW x \in S
  PROVE  /\ Append(s, x) \in Seq(S) /\ x \in ToSet(Append(s, x)) /\ ToSet(s) \subseteq ToSet(Append(s, x))
         /\ \A i \in 1..Len(s) :
              /\ ReplaceAt(s, i, x) \in Seq(S) /\ x \in ToSet(ReplaceAt(s, i, x))
              /\ \A y \in ToSet(s) : y # s[i] => y \in ToSet(ReplaceAt(s, i, x))
  <1>1. Len(s) \in Nat /\ DOMAIN s = 1..Len(s)
    OBVIOUS
  <1>2. Append(s, x) \in Seq(S) /\ x \in ToSet(Append(s, x)) /\ ToSet(s) \subseteq ToSet(Append(s, x))
    <2> DEFINE t == Append(s, x)
    <2>1. t \in Seq(S) /\ DOMAIN t = 1..Len(s) + 1 /\ t[Len(s) + 1] = x /\ \A i \in 1..Len(s) : t[i] = s[i]
      OBVIOUS
    <2> HIDE DEF t
    <2>2. \A i \in 1..Len(s) : i \in DOMAIN t
      BY <1>1, <2>1
    <2>3. Len(s) + 1 \in DOMAIN t
      BY <1>1, <2>1
    <2>4. x \in ToSet(t) /\ ToSet(s) \subseteq ToSet(t)
      BY <1>1, <2>1, <2>2, <2>3 DEF ToSet
    <2> QED BY <2>1, <2>4 DEF t
  <1>3. ASSUME NEW i \in 1..Len(s)
        PROVE  /\ ReplaceAt(s, i, x) \in Seq(S) /\ x \in ToSet(ReplaceAt(s, i, x))
               /\ \A y \in ToSet(s) : y # s[i] => y \in ToSet(ReplaceAt(s, i, x))
    <2> DEFINE t == [s EXCEPT ![i] = x]
    <2>1. t \in Seq(S) /\ DOMAIN t = 1..Len(s) /\ t[i] = x /\ \A j \in 1..Len(s) : j # i => t[j] = s[j]
      BY <1>1
    <2>2. ReplaceAt(s, i, x) = t
      BY DEF ReplaceAt
    <2> HIDE DEF t
    <2>3. x \in ToSet(t) /\ \A y \in ToSet(s) : y # s[i] => y \in ToSet(t)
      BY <1>1, <2>1 DEF ToSet
    <2> QED BY <2>1, <2>2, <2>3
  <1> QED BY <1>2, <1>3

\* "plugin add" keeps the entries of other names, and adds the one it promises.
LEMMA AddStep ==
  ASSUME ProjectInv, Add
  PROVE  ProjectInv'
  <1> DEFINE dir == IF ConfigDirs = {} THEN cmd.cwd ELSE ConfigDir
             entry == [name |-> cmd.name, path |-> Normalize(dir, cmd.path), enabled |-> TRUE]
             same == SelectInSeq(Entries, LAMBDA e : e.name = cmd.name)
             plugins == IF same = 0 THEN Append(Entries, entry) ELSE ReplaceAt(Entries, same, entry)
             end == PathFrom(cmd.cwd, cmd.path).comps
             new == <<dir, cmd.name>>
  <1>1. cmd.cwd \in Directories /\ cmd.name \in STRING /\ cmd.path \in Paths
    BY CommandTypes DEF ProjectInv, Add
  <1>2. UNCHANGED <<script, cmd>>
    BY DEF Add
  <1>3. ConfigDirs # {} => ConfigDir \in ConfigDirs /\ ConfigDir \in DOMAIN files
    BY <1>1, NearestIs DEF ProjectInv, ConfigDirs
  <1>4. dir \in Directories
    BY <1>1, <1>3 DEF ProjectInv
  <1>5. /\ Entries \in Seq(ConfigEntries)
        /\ dir \in DOMAIN files => files[dir].plugins = Entries
    <2>1. CASE ConfigDirs # {}
      BY <1>3, <2>1 DEF Entries, ProjectInv, ConfigFiles
    <2>2. CASE ConfigDirs = {}
      <3>1. dir = cmd.cwd /\ Entries = <<>> /\ IsPrefix(cmd.cwd, cmd.cwd)
        BY <1>1, <2>2 DEF Entries, IsPrefix, Directories
      <3>2. dir \notin DOMAIN files
        BY <2>2, <3>1 DEF ConfigDirs
      <3> QED BY <3>1, <3>2, ListsOf
    <2> QED BY <2>1, <2>2
  <1>6. /\ Normalize(dir, cmd.path) \in Paths /\ PathFrom(dir, Normalize(dir, cmd.path)).comps = end
    <2> HIDE DEF dir
    <2> QED BY <1>1, <1>4, StoredLeads
  <1>7. entry \in ConfigEntries /\ entry.name = cmd.name /\ entry.path = Normalize(dir, cmd.path)
    <2> HIDE DEF dir
    <2> QED BY <1>1, <1>6 DEF ConfigEntries
  <1> HIDE DEF dir, entry
  <1>8. /\ plugins \in Seq(ConfigEntries) /\ entry \in ToSet(plugins)
        /\ \A e \in ToSet(Entries) : e.name # cmd.name => e \in ToSet(plugins)
    <2>1. same # 0 => same \in 1..Len(Entries) /\ Entries[same].name = cmd.name
      <3>1. Len(Entries) \in Nat
        BY <1>5
      <3> QED BY Zenon, <3>1, EntryTakesItsPlace
    <2> HIDE DEF same
    <2>2. CASE same = 0
      BY <1>5, <1>7, <2>2, Renewed
    <2>3. CASE same # 0
      <3>1. /\ ReplaceAt(Entries, same, entry) \in Seq(ConfigEntries)
            /\ entry \in ToSet(ReplaceAt(Entries, same, entry))
            /\ \A e \in ToSet(Entries) : e # Entries[same] => e \in ToSet(ReplaceAt(Entries, same, entry))
        BY <1>5, <1>7, <2>1, <2>3, Renewed
      <3> QED BY <2>1, <2>3, <3>1
    <2> QED BY <2>2, <2>3
  <1> HIDE DEF same, plugins, end
  <1>9. CASE files' = Written(dir, plugins)
             /\ meant' = [n \in DOMAIN meant \cup {new} |-> IF n = new THEN end ELSE meant[n]]
    <2>1. DOMAIN files' = DOMAIN files \cup {dir} /\ files'[dir] = [readable |-> TRUE, plugins |-> plugins]
          /\ \A d \in DOMAIN files : d # dir => files'[d] = files[d]
      BY <1>9 DEF Written
    <2>2. files'[dir] \in ConfigFiles /\ files'[dir].plugins = plugins
      BY <1>8, <2>1 DEF ConfigFiles
    <2>3. ASSUME NEW n \in DOMAIN meant'
          PROVE  /\ n = <<n[1], n[2]>> /\ n[1] \in DOMAIN files'
                 /\ \E e \in ToSet(files'[n[1]].plugins) :
                      e.name = n[2] /\ PathFrom(n[1], e.path).comps = meant'[n]
      <3>1. CASE n = new
        <4>1. n[1] = dir /\ n[2] = cmd.name /\ meant'[n] = end /\ n = <<n[1], n[2]>>
          BY <1>9, <3>1
        <4>2. entry.name = n[2] /\ PathFrom(n[1], entry.path).comps = meant'[n]
          BY <1>6, <1>7, <4>1
        <4>3. entry \in ToSet(files'[n[1]].plugins)
          BY <1>8, <2>2, <4>1
        <4> QED BY <2>1, <4>1, <4>2, <4>3
      <3>2. CASE n # new
        <4>1. n \in DOMAIN meant /\ meant'[n] = meant[n]
          BY <1>9, <3>2
        <4>2. n = <<n[1], n[2]>> /\ n[1] \in DOMAIN files
          BY <4>1 DEF ProjectInv
        <4>3. PICK e \in ToSet(files[n[1]].plugins) :
                e.name = n[2] /\ PathFrom(n[1], e.path).comps = meant[n]
          BY <4>1 DEF ProjectInv, AddedIsFound
        <4>4. CASE n[1] # dir
          BY <2>1, <4>1, <4>2, <4>3, <4>4
        <4>5. CASE n[1] = dir
          <5>1. n[2] # cmd.name
            BY <3>2, <4>2, <4>5
          <5>2. e \in ToSet(plugins)
            BY <1>5, <1>8, <4>2, <4>3, <4>5, <5>1
          <5> QED BY <2>1, <2>2, <4>1, <4>2, <4>3, <4>5, <5>2
        <4> QED BY <4>4, <4>5
      <3> QED BY <3>1, <3>2
    <2>4. AddedIsFound'
      BY <2>3 DEF AddedIsFound
    <2>5. /\ \A n \in DOMAIN meant' : n = <<n[1], n[2]>> /\ n[1] \in DOMAIN files'
      BY <2>3
    <2>6. DOMAIN files' \subseteq Directories /\ \A d \in DOMAIN files' : files'[d] \in ConfigFiles
      BY <1>4, <2>1, <2>2 DEF ProjectInv
    <2> QED BY <1>2, <2>4, <2>5, <2>6 DEF ProjectInv
  <1>10. CASE UNCHANGED <<files, meant>>
    BY <1>2, <1>10, SameProject
  <1>11. CASE files' = Written(dir, <<>>)
              /\ meant' = [n \in {n \in DOMAIN meant : n[1] # dir} |-> meant[n]]
    <2>1. DOMAIN files' = DOMAIN files \cup {dir} /\ files'[dir] = [readable |-> TRUE, plugins |-> <<>>]
          /\ \A d \in DOMAIN files : d # dir => files'[d] = files[d]
      BY <1>11 DEF Written
    <2>2. files'[dir] \in ConfigFiles
      BY <2>1, ListsOf DEF ConfigFiles
    <2>3. ASSUME NEW n \in DOMAIN meant'
          PROVE  /\ n = <<n[1], n[2]>> /\ n[1] \in DOMAIN files'
                 /\ \E e \in ToSet(files'[n[1]].plugins) :
                      e.name = n[2] /\ PathFrom(n[1], e.path).comps = meant'[n]
      <3>1. n \in DOMAIN meant /\ n[1] # dir /\ meant'[n] = meant[n]
        BY <1>11
      <3>2. n = <<n[1], n[2]>> /\ n[1] \in DOMAIN files
        BY <3>1 DEF ProjectInv
      <3>3. files'[n[1]] = files[n[1]]
        BY <2>1, <3>1, <3>2
      <3>4. \E e \in ToSet(files[n[1]].plugins) : e.name = n[2] /\ PathFrom(n[1], e.path).comps = meant[n]
        BY <3>1 DEF ProjectInv, AddedIsFound
      <3> QED BY <2>1, <3>1, <3>2, <3>3, <3>4
    <2>4. AddedIsFound'
      BY <2>3 DEF AddedIsFound
    <2>5. DOMAIN files' \subseteq Directories /\ \A d \in DOMAIN files' : files'[d] \in ConfigFiles
      BY <1>4, <2>1, <2>2 DEF ProjectInv
    <2> QED BY <1>2, <2>3, <2>4, <2>5 DEF ProjectInv
  <1>12. \/ /\ files' = Written(dir, plugins)
            /\ meant' = [n \in DOMAIN meant \cup {new} |-> IF n = new THEN end ELSE meant[n]]
         \/ UNCHANGED <<files, meant>>
         \/ /\ files' = Written(dir, <<>>)
            /\ meant' = [n \in {n \in DOMAIN meant : n[1] # dir} |-> meant[n]]
    BY DEF Add, dir, entry, same, plugins, end
  <1> QED BY <1>9, <1>10, <1>11, <1>12

\* Every step of a command keeps it: only the next command and "plugin add" change a part.
LEMMA ProjectStep ==
  ASSUME ProjectInv, [CommandNext]_commandAll
  PROVE  ProjectInv'
  <1>1. CASE NextCommand
    <2>1. cmd' = Head(script) /\ script' = Tail(script) /\ script # <<>> /\ UNCHANGED <<files, meant>>
      BY <1>1 DEF NextCommand
    <2>2. \A S : \A s \in Seq(S) : s # <<>> => Head(s) \in S /\ Tail(s) \in Seq(S)
      OBVIOUS
    <2>3. cmd' \in Commands /\ script' \in Seq(Commands)
      BY <2>1, <2>2 DEF ProjectInv
    <2> QED BY <2>1, <2>3 DEF ProjectInv, AddedIsFound
  <1>2. CASE Add
    BY <1>2, AddStep
  <1>3. ASSUME ~NextCommand, ~Add PROVE UNCHANGED <<script, cmd, files, meant>>
    <2>1. CASE ListPlugins \/ ListUnits
      BY <2>1 DEF ListPlugins, ListUnits
    <2>2. CASE BeginDoctor \/ BeginInspect \/ BeginCheck \/ ResolvePaths
      BY <2>2 DEF BeginDoctor, BeginInspect, BeginCheck, ResolvePaths, restVars
    <2>3. CASE BeginLoading \/ StartPlugin \/ Shake
      BY <2>3 DEF BeginLoading, StartPlugin, Shake
    <2>4. CASE Inspected \/ Loaded \/ RegisterUnit \/ Registered
      BY <2>4 DEF Inspected, Loaded, RegisterUnit, Registered
    <2>5. CASE CallEngine \/ EngineStep \/ CheckGoesOn \/ WriteReport \/ EngineReturned
      BY <2>5 DEF CallEngine, EngineStep, CheckGoesOn, WriteReport, EngineReturned, commandVars
    <2>6. CASE CloseClient \/ Exit
      BY <2>6 DEF CloseClient, Exit
    <2>7. CASE UNCHANGED commandAll
      BY <2>7 DEF commandAll, commandVars
    <2> QED BY <1>3, <2>1, <2>2, <2>3, <2>4, <2>5, <2>6, <2>7 DEF CommandNext
  <1> QED BY <1>1, <1>2, <1>3, SameProject

\* What "plugin add" stores leads to the executable it was given, from whatever directory
\* it was called, whatever the paths, and whatever else is added or fails to be written
\* later (normalizePluginPathForConfig against resolvePluginPath).
THEOREM AddedIsFoundHolds == CommandSpec => []AddedIsFound
  <1>1. CommandInit => ProjectInv
    <2> SUFFICES ASSUME CommandInit PROVE ProjectInv
      OBVIOUS
    <2>1. cmd.do = "none" /\ DOMAIN meant = {}
      BY DEF CommandInit
    <2> QED BY <2>1 DEF CommandInit, ProjectInv, AddedIsFound
  <1>2. ProjectInv /\ [CommandNext]_commandAll => ProjectInv'
    BY ProjectStep
  <1>3. ProjectInv => AddedIsFound
    BY DEF ProjectInv
  <1> QED BY <1>1, <1>2, <1>3, PTL DEF CommandSpec
=============================================================================
