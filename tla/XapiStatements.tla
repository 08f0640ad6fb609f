---------------------------- MODULE XapiStatements ----------------------------
(***************************************************************************)
(* xAPI statements as the metric providers see them, and the helpers of    *)
(* computation/utils that read them.                                       *)
(*                                                                         *)
(* An IRI is a path, split at its slashes, and the digits of an `id='      *)
(* parameter (NoId without one): all that the regular expressions look at. *)
(* An activity is an IRI with the kind that its definition.type declares.  *)
(* A field that a statement does not have is Missing; scores are numbers   *)
(* of at least 0.                                                          *)
(***************************************************************************)
EXTENDS Integers, Sequences, FiniteSets

CONSTANT Digits         \* the path segments that consist of digits

NoId == ""
NoIri == [path |-> <<>>, id |-> NoId]
Missing == -1

Segments(iri) == {iri.path[i] : i \in DOMAIN iri.path}

(* `/a/b' occurs in the path, b standing for any segment in B.             *)
After(iri, a, B) ==
    {i \in 2..Len(iri.path) : iri.path[i - 1] = a /\ iri.path[i] \in B}

(* The id includes `/a/'.                                                  *)
Within(iri, a) == \E i \in 1..(Len(iri.path) - 1) : iri.path[i] = a

LeastIndex(I) == CHOOSE i \in I : \A j \in I : i <= j

-----------------------------------------------------------------------------
(* course-helpers.ts                                                       *)

OtherResources == {"mod", "topic", "topics", "element", "activity"}

IsCourseActivity(a) ==
    /\ a.iri # NoIri
    /\ \/ a.type = "course"
       \/ /\ \A r \in OtherResources : ~Within(a.iri, r)
          /\ \/ After(a.iri, "course", {"view.php"}) # {}
             \/ Len(a.iri.path) \in
                   UNION {After(a.iri, c, Segments(a.iri)) : c \in {"course", "courses"}}

ContextActivities(s) == s.parent \cup s.grouping

ExtractCourseIds(s) ==
    {a.iri : a \in {b \in ContextActivities(s) : IsCourseActivity(b)}}

(* The id parameter wins over the path.                                    *)
ExtractCourseIdFromUrl(iri) ==
    LET named == UNION {After(iri, c, Segments(iri)) : c \in {"course", "courses"}}
    IN  IF iri.id # NoId THEN iri.id
        ELSE IF named # {} THEN iri.path[LeastIndex(named)]
        ELSE NoId

MatchesCourse(iri, target) ==
    \/ iri = target
    \/ /\ ExtractCourseIdFromUrl(iri) # NoId
       /\ ExtractCourseIdFromUrl(iri) = ExtractCourseIdFromUrl(target)

-----------------------------------------------------------------------------
(* topic-helpers.ts                                                        *)

IsTopicActivity(a) ==
    /\ a.iri # NoIri
    /\ a.type = "topic" \/ Within(a.iri, "topic") \/ Within(a.iri, "topics")

ExtractTopicIds(s) ==
    {a.iri : a \in {b \in ContextActivities(s) : IsTopicActivity(b)}}

(* /course/{digits}/topic/                                                 *)
ExtractCourseIdFromTopicUrl(iri) ==
    LET named == {i \in After(iri, "course", Digits) :
                     i + 1 < Len(iri.path) /\ iri.path[i + 1] = "topic"}
    IN  IF named = {} THEN NoId ELSE iri.path[LeastIndex(named)]

-----------------------------------------------------------------------------
(* duration-helpers.ts, in half-seconds.  A duration with a date part does *)
(* not start with PT and counts as nothing.                                *)

ParseDuration(d) ==
    IF d.days # 0 THEN 0 ELSE 7200 * d.hours + 120 * d.minutes + d.halfSeconds

NoDuration == [days |-> 0, hours |-> 0, minutes |-> 0, halfSeconds |-> 0]

Day == 2 * 86400

(* The guard that the time-spent metrics share; without a duration 0.      *)
Seconds(s) ==
    IF ParseDuration(s.duration) <= Day THEN ParseDuration(s.duration) ELSE 0

(* Math.round, from half-seconds to seconds.                               *)
Rounded(halfSeconds) == (halfSeconds + 1) \div 2

-----------------------------------------------------------------------------
(* attempt-helpers.ts                                                      *)

ExtractScore(s) == IF s.raw # Missing THEN s.raw ELSE s.scaled

HaskiCompleted == "xapi.completed"
AdlCompleted == "adl.completed"
AdlPassed == "adl.passed"
CompletionVerbs == {HaskiCompleted, AdlCompleted, AdlPassed}

(* An explicit completion flag counts more than the verb.                  *)
IsCompleted(s) ==
    IF s.completion # Missing THEN s.completion = 1 ELSE s.verb \in CompletionVerbs

(* The members of I in the order R, and the elements of a sequence at the  *)
(* positions in I.                                                         *)
InOrder(I, R) ==
    [n \in 1..Cardinality(I) |->
        CHOOSE i \in I : Cardinality({j \in I : <<j, i>> \in R}) = n - 1]

At(S, I) ==
    LET order == InOrder(I, {p \in I \X I : p[1] < p[2]})
    IN  [n \in DOMAIN order |-> S[order[n]]]

Completed(S) == At(S, {i \in DOMAIN S : IsCompleted(S[i])})

(* The first element of a stable sort: no other one comes before it.       *)
FirstBy(seq, Before(_, _)) ==
    seq[CHOOSE i \in DOMAIN seq :
           \A j \in DOMAIN seq :
              ~Before(seq[j], seq[i]) /\ (j < i => Before(seq[i], seq[j]))]

MoreRecent(s, t) == s.time > t.time

(* Statements without a score come last: Missing is below every score.     *)
ScoreThenTime(s, t) ==
    \/ ExtractScore(s) > ExtractScore(t)
    \/ ExtractScore(s) = ExtractScore(t) /\ MoreRecent(s, t)

\* Mutant of SelectBestAttempt: the latest attempt counts.
SelectLatestAttempt(attempts) == FirstBy(attempts, MoreRecent)

SelectBestAttempt(attempts) ==
    IF \E i \in DOMAIN attempts : ExtractScore(attempts[i]) # Missing
    THEN FirstBy(attempts, ScoreThenTime)
    ELSE FirstBy(IF Completed(attempts) # <<>> THEN Completed(attempts) ELSE attempts,
                 MoreRecent)

=============================================================================
