----------------------------- MODULE MCJobRunner -----------------------------
(* Two jobs of two steps; the first step of both has the same key, as two  *)
(* covers of one song share its separation.                                *)
EXTENDS JobRunner

CONSTANTS a, b, shared, a2, a3, b2

TwoNeeds == [i \in {1, 2} |-> IF i = 1 THEN {} ELSE {1}]
Chain(k1, k2) == [keys |-> <<k1, k2>>, sig |-> "graph"]

\* Job a may be resumed with another parameter of its second step.
TwoPlans == [j \in {a, b} |-> IF j = a THEN {Chain(shared, a2), Chain(shared, a3)}
                                       ELSE {Chain(shared, b2)}]
SoloPlans == [j \in {a} |-> TwoPlans[a]]
==============================================================================
