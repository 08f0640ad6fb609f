---------------------------- MODULE MCMetricQuery ----------------------------
(* Small instances of MetricQuery.                                         *)
EXTENDS MetricQuery, TLC

CONSTANTS r1, r2

OneRequest == {r1}
TwoRequests == {r1, r2}

SingleVerb == {1}
ThreeVerbs == {3}
CatalogFanOuts == {1, 3}    \* no mapping, and COMPLETION_VERBS

Symmetry == Permutations(Requests)

=============================================================================
