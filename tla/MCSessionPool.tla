--------------------------- MODULE MCSessionPool ---------------------------
(* Instances of SessionPool for TLC.                                       *)
EXTENDS SessionPool, TLC

CONSTANTS c1, c2, r1, r2, r3

\* The calls of two units on one pool: NextID gives r1 and r2, of the first unit,
\* numbers of their own, and r3, of the second, that of r1 again. All of them
\* are made on the first client.
MCVia == (r1 :> c1) @@ (r2 :> c1) @@ (r3 :> c1)
TwoUnits == (r1 :> 1) @@ (r2 :> 2) @@ (r3 :> 1)
=============================================================================
