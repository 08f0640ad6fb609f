---------------------------- MODULE MCMetricCache ----------------------------
(* Small instances of MetricCache.                                         *)
EXTENDS MetricCache, TLC

CONSTANTS r1, r2, s1, s2, s3

OneRequest == {r1}
TwoRequests == {r1, r2}

OneStatement == {s1}
TwoStatements == {s1, s2}
ThreeStatements == {s1, s2, s3}

OneVerb == {1}
TwoVerbs == {1, 2}

AllFirst == [s \in Statements |-> 1]
SecondDiffers == [s \in Statements |-> IF s = s2 THEN 2 ELSE 1]

Distinct == {1}         \* no two statements are stored in the same instant
SameInstant == {0, 1}
OneOrTwo == {1, 2}

Symmetry == Permutations(Requests)
(* The order in which statements are stored is the same up to their names. *)
InOrder ==
    /\ stored'[s2] # 0 => stored'[s1] # 0
    /\ stored'[s3] # 0 => stored'[s2] # 0

FullSymmetry == Permutations(Requests) \cup Permutations(Statements)

=============================================================================
