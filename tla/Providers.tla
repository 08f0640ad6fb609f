------------------------------ MODULE Providers ------------------------------
(***************************************************************************)
(* The twelve metric providers (computation/providers): what compute()     *)
(* returns for a sequence of statements, and which parameters              *)
(* validateParams() accepts.  A list that the code sorts by course, topic  *)
(* or element id is a function on these ids.  The metadata beside the      *)
(* value are left out.                                                     *)
(***************************************************************************)
EXTENDS XapiStatements, SequencesExt, TLC

(* providers/index.ts, by the level of the dashboard.                      *)
CourseMetrics ==
    {"courses-scores", "courses-max-scores", "courses-time-spent"}
TopicMetrics ==
    {"course-topics-scores", "course-topics-max-scores", "course-topics-time-spent"}
ElementMetrics ==
    {"topic-elements-best-attempts", "topic-elements-max-scores",
     "topic-elements-time-spent"}
LastElements ==
    {"course-last-elements", "topic-last-elements", "user-last-elements"}
MetricIds == CourseMetrics \cup TopicMetrics \cup ElementMetrics \cup LastElements

(* Parameters: NoIri where one is missing; since and until are times, or 0. *)
NeedsCourse == TopicMetrics \cup {"course-last-elements"}
NeedsTopic == ElementMetrics \cup {"topic-last-elements"}
TakesTimeRange ==
    LastElements \cup {"courses-scores", "courses-time-spent",
        "course-topics-scores", "course-topics-time-spent",
        "topic-elements-time-spent"}

ValidateParams(metric, p) ==
    /\ p.userId # ""
    /\ metric \in NeedsCourse => p.courseId # NoIri
    /\ metric \in NeedsTopic => p.topicId # NoIri
    /\ (metric \in TakesTimeRange /\ p.since # 0 /\ p.until # 0)
          => p.since <= p.until

-----------------------------------------------------------------------------

BelongsToCourse(s, courseId) ==
    \/ \E iri \in ExtractCourseIds(s) : MatchesCourse(iri, courseId)
    \/ \E iri \in ExtractTopicIds(s) :
          /\ ExtractCourseIdFromTopicUrl(iri) # NoId
          /\ ExtractCourseIdFromTopicUrl(iri) = ExtractCourseIdFromUrl(courseId)

(* topicId is an IRI (buildLRSFilters refuses others), so that of the three *)
(* alternatives, equality and inclusion in `/topic/...', equality is left. *)
BelongsToTopic(s, topicId) == \E a \in s.parent : a.iri = topicId

(* Which statements a metric counts, and in which groups it counts them.   *)
CoursesOf(s, p) == ExtractCourseIds(s)
TopicsOf(s, p) ==
    IF BelongsToCourse(s, p.courseId) THEN ExtractTopicIds(s) ELSE {}
ElementOf(s, p) ==
    IF BelongsToTopic(s, p.topicId) /\ s.object # NoIri THEN {s.object} ELSE {}

GroupsOf(metric, s, p) ==
    CASE metric \in CourseMetrics -> CoursesOf(s, p)
      [] metric \in TopicMetrics -> TopicsOf(s, p)
      [] metric \in ElementMetrics -> ElementOf(s, p)

GroupsIn(metric, S, p) == UNION {GroupsOf(metric, S[i], p) : i \in DOMAIN S}

(* The statements of one group, in order.                                  *)
GroupOf(metric, S, p, g) ==
    At(S, {i \in DOMAIN S : g \in GroupsOf(metric, S[i], p)})

Elements(S) == {S[i].object : i \in DOMAIN S} \ {NoIri}
Attempts(S, e) == At(S, {i \in DOMAIN S : S[i].object = e})
WithObject(S) == At(S, {i \in DOMAIN S : S[i].object # NoIri})

-----------------------------------------------------------------------------
(* courses-scores, course-topics-scores: the best attempt of each element. *)

BestScore(attempts) == ExtractScore(SelectBestAttempt(attempts))

ScoredSum(S) ==
    SumFunction([e \in {f \in Elements(S) : BestScore(Attempts(S, f)) # Missing} |->
                    BestScore(Attempts(S, e))])

Scores(metric, S, p) ==
    [g \in GroupsIn(metric, WithObject(S), p) |->
        ScoredSum(GroupOf(metric, S, p, g))]

(* ...-max-scores: the largest score.max of each element.                  *)
WithMax(S) == At(S, {i \in DOMAIN S : S[i].object # NoIri /\ S[i].max # Missing})

\* Mutant of MaxScore: the first one found counts.
FirstMaxScore(S) == S[1].max

MaxScore(S) == Max({S[i].max : i \in DOMAIN S})

MaxScores(metric, S, p) ==
    [g \in GroupsIn(metric, WithMax(S), p) |->
        LET counted == GroupOf(metric, WithMax(S), p, g)
        IN  SumFunction([e \in Elements(counted) |-> MaxScore(Attempts(counted, e))])]

(* ...-time-spent: the sum of the durations, rounded at the end.  Only     *)
(* topic-elements-time-spent needs an element.                             *)
Timed(S) == At(S, {i \in DOMAIN S : Seconds(S[i]) > 0})

TimeSpent(metric, S, p) ==
    [g \in GroupsIn(metric, Timed(S), p) |->
        LET counted == GroupOf(metric, Timed(S), p, g)
        IN  Rounded(SumFunction([i \in DOMAIN counted |-> Seconds(counted[i])]))]

(* topic-elements-best-attempts.  completedAt is taken from the first      *)
(* completed statement, whichever attempt is the best; 0 if there is none. *)
BestAttempt(attempts) ==
    LET best == SelectBestAttempt(attempts)
    IN  [score |-> ExtractScore(best),
         completionStatus |-> IsCompleted(best),
         completedAt |-> IF Completed(attempts) = <<>> THEN 0
                         ELSE Completed(attempts)[1].time]

TopicElementsBestAttempts(S, p) ==
    [e \in GroupsIn("topic-elements-best-attempts", S, p) |->
        BestAttempt(GroupOf("topic-elements-best-attempts", S, p, e))]

-----------------------------------------------------------------------------
(* The last three elements.                                                *)

Completion(s) == [elementId |-> s.object, completedAt |-> s.time]

(* A stable sort, the latest first.                                        *)
Latest(completions) ==
    LET time(i) == completions[i].completedAt
        I == DOMAIN completions
        order == InOrder(I, {p \in I \X I :
                                \/ time(p[1]) > time(p[2])
                                \/ time(p[1]) = time(p[2]) /\ p[1] < p[2]})
    IN  [n \in DOMAIN order |-> completions[order[n]]]

\* Mutant of TopThree: off by one.
TopFour(list) == SubSeq(list, 1, IF Len(list) < 4 THEN Len(list) ELSE 4)

TopThree(list) == SubSeq(list, 1, IF Len(list) < 3 THEN Len(list) ELSE 3)

(* course-last-elements: a list of completions, not of elements, and taken *)
(* from whatever the LRS returned.                                         *)
CourseLastElements(S) ==
    LET counted == At(S, {i \in DOMAIN S : S[i].verb \in CompletionVerbs /\ S[i].time # 0})
    IN  TopThree(Latest([i \in DOMAIN counted |-> Completion(counted[i])]))

(* The Map from elements to their latest completion, in insertion order.   *)
FirstOfElements(S) ==
    At(S, {i \in DOMAIN S : \A j \in DOMAIN S : j < i => S[j].object # S[i].object})

\* Mutant of LatestPerElement: the first completion stays.
FirstPerElement(S) ==
    LET first == FirstOfElements(S)
    IN  [i \in DOMAIN first |-> Completion(first[i])]

LatestPerElement(S) ==
    LET first == FirstOfElements(S)
        times(e) == {S[i].time : i \in {j \in DOMAIN S : S[j].object = e}}
    IN  [i \in DOMAIN first |->
            [elementId |-> first[i].object, completedAt |-> Max(times(first[i].object))]]

Counts(metric, s, p) ==
    /\ s.object # NoIri
    /\ s.time # 0
    /\ IF metric = "topic-last-elements"
       THEN BelongsToTopic(s, p.topicId) /\ s.verb \in CompletionVerbs
       ELSE IsCompleted(s)

LastCompleted(metric, S, p) ==
    TopThree(Latest(LatestPerElement(
        At(S, {i \in DOMAIN S : Counts(metric, S[i], p)}))))

-----------------------------------------------------------------------------

(* The providers, and the service's choice among them.                     *)

CoursesScores(S, p) == Scores("courses-scores", S, p)
CoursesMaxScores(S, p) == MaxScores("courses-max-scores", S, p)
CoursesTimeSpent(S, p) == TimeSpent("courses-time-spent", S, p)
CourseTopicsScores(S, p) == Scores("course-topics-scores", S, p)
CourseTopicsMaxScores(S, p) == MaxScores("course-topics-max-scores", S, p)
CourseTopicsTimeSpent(S, p) == TimeSpent("course-topics-time-spent", S, p)
TopicElementsMaxScores(S, p) == MaxScores("topic-elements-max-scores", S, p)
TopicElementsTimeSpent(S, p) == TimeSpent("topic-elements-time-spent", S, p)
TopicLastElements(S, p) == LastCompleted("topic-last-elements", S, p)
UserLastElements(S, p) == LastCompleted("user-last-elements", S, p)

Compute(metric, p, S) ==
    CASE metric = "courses-scores" -> CoursesScores(S, p)
      [] metric = "courses-max-scores" -> CoursesMaxScores(S, p)
      [] metric = "courses-time-spent" -> CoursesTimeSpent(S, p)
      [] metric = "course-topics-scores" -> CourseTopicsScores(S, p)
      [] metric = "course-topics-max-scores" -> CourseTopicsMaxScores(S, p)
      [] metric = "course-topics-time-spent" -> CourseTopicsTimeSpent(S, p)
      [] metric = "topic-elements-best-attempts" -> TopicElementsBestAttempts(S, p)
      [] metric = "topic-elements-max-scores" -> TopicElementsMaxScores(S, p)
      [] metric = "topic-elements-time-spent" -> TopicElementsTimeSpent(S, p)
      [] metric = "course-last-elements" -> CourseLastElements(S)
      [] metric = "topic-last-elements" -> TopicLastElements(S, p)
      [] metric = "user-last-elements" -> UserLastElements(S, p)

=============================================================================
