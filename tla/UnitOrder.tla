----------------------------- MODULE UnitOrder -----------------------------
(***************************************************************************)
(* What Engine.Validate, Explain, Plan and Run promise of the order of     *)
(* the units, whatever the algorithm: a unit follows everything it depends *)
(* on, the order is complete when it is accepted, and a scenario is        *)
(* refused only when no such order exists.                                 *)
(***************************************************************************)
EXTENDS Integers, Sequences, FiniteSets

VARIABLES
  deps,    \* the units of the scenario, and what each one depends on
  order,   \* the order so far
  verdict  \* "none", "sorting", "sorted" or "refused"

vars == <<deps, order, verdict>>

Ordered == {order[i] : i \in DOMAIN order}

\* The units can be ranked with every dependency below what depends on it.
Sortable ==
  LET graph == deps
      units == DOMAIN graph
  IN \E rank \in [units -> 1..Cardinality(units)] :
        \A u \in units : \A d \in graph[u] : d \in units /\ rank[d] < rank[u]

Init == deps = <<>> /\ order = <<>> /\ verdict = "none"

\* A scenario arrives, with whatever units and dependencies it has.
Receive == verdict = "none" /\ order' = <<>> /\ verdict' = "sorting"

Emit(u) ==
  /\ verdict = "sorting" /\ u \notin Ordered /\ deps[u] \subseteq Ordered
  /\ order' = Append(order, u)
  /\ UNCHANGED <<deps, verdict>>

Accept ==
  /\ verdict = "sorting" /\ Ordered = DOMAIN deps
  /\ verdict' = "sorted" /\ UNCHANGED <<deps, order>>

Refuse ==
  /\ verdict = "sorting" /\ ~Sortable
  /\ verdict' = "refused" /\ UNCHANGED <<deps, order>>

\* The next call on the engine starts afresh.
Forget == verdict \in {"sorted", "refused"} /\ deps' = <<>> /\ order' = <<>> /\ verdict' = "none"

Sort == (\E u \in DOMAIN deps : Emit(u)) \/ Accept \/ Refuse
Next == Receive \/ Sort \/ Forget

\* Every scenario gets its verdict.
Decided == (verdict = "sorting") ~> (verdict # "sorting")

Spec == Init /\ [][Next]_vars /\ Decided
=============================================================================
