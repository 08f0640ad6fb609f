---------------------------- MODULE MCMetricValues ----------------------------
(* A learner in one topic of one course, with some activity elsewhere.     *)
EXTENDS MetricValues

Iri(path, id) == [path |-> path, id |-> id]
Activity(type, iri) == [type |-> type, iri |-> iri]

MCDigits == {"3", "7", "8"}

Moodle7 == Iri(<<"course", "view.php">>, "7")
Path7 == Iri(<<"course", "7">>, NoId)
Path8 == Iri(<<"courses", "8">>, NoId)
Topic3 == Iri(<<"course", "7", "topic", "3">>, NoId)
Element(name) == Iri(<<"mod", name, "view.php">>, "7")

InTopic == {Activity("topic", Topic3)}
InCourse == {Activity("course", Moodle7)}

Statement(id, verb, element, time) ==
    [id |-> id, verb |-> verb, object |-> Element(element), time |-> time,
     parent |-> InTopic, grouping |-> InCourse, raw |-> Missing,
     scaled |-> Missing, max |-> Missing, completion |-> Missing,
     duration |-> NoDuration]

PT(h, m, s) == [days |-> 0, hours |-> h, minutes |-> m, halfSeconds |-> s]

(* Two attempts at a quiz, the better one first, of 24 hours exactly; the  *)
(* same quiz completed; four more elements completed, with and without a   *)
(* flag, by other verbs, in another course, or without a context.          *)
Attempts1 ==
    {[Statement("a", "answered", "quiz", 3) EXCEPT
        !.raw = 8, !.max = 10, !.duration = PT(24, 0, 0)],
     [Statement("b", "answered", "quiz", 6) EXCEPT
        !.raw = 3, !.max = 5, !.duration = PT(0, 1, 1)],
     [Statement("c", HaskiCompleted, "quiz", 7) EXCEPT
        !.duration = PT(24, 0, 1), !.grouping = InCourse \cup {Activity("other", Path8)}]}

Completions ==
    {[Statement("d", AdlCompleted, "page", 5) EXCEPT
        !.scaled = 1, !.max = 1, !.grouping = {Activity("other", Path7)}],
     [Statement("e", AdlCompleted, "video", 2) EXCEPT
        !.duration = [PT(2, 0, 0) EXCEPT !.days = 1]],
     [Statement("f", HaskiCompleted, "quiz", 1) EXCEPT !.completion = 0],
     [Statement("g", AdlPassed, "test", 4) EXCEPT
        !.raw = 5, !.max = 5, !.duration = PT(0, 0, 1),
        !.parent = @ \cup {Activity("other", Element("test"))}]}

MCPool == Attempts1 \cup Completions

MCCourse == Moodle7
MCTopic == Topic3

(* What the proofs ask of the pool.                                        *)
ASSUME PoolIsPlain == TimesDiffer /\ ScoresBounded

=============================================================================
