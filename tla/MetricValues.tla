----------------------------- MODULE MetricValues -----------------------------
(***************************************************************************)
(* What clients are shown of a metric while learners go on: the statements *)
(* of the LRS, fetched in full on a cache miss and incrementally on a hit  *)
(* (REQ-FN-030), in the order in which they come, through compute() of the *)
(* metric's provider.  MetricCache looks at which statements there are;    *)
(* here it is what is made of them.                                        *)
(*                                                                         *)
(* Refreshes do not overlap, the LRS answers, and it stores no more than   *)
(* one query returns: what happens otherwise is the business of            *)
(* MetricCache.                                                            *)
(***************************************************************************)
EXTENDS Providers

CONSTANTS
    Pool,           \* the statements that learners may produce
    MaxStatements,  \* what one LRS query returns at most
    MaxStored,      \* how many statements they produce
    CourseId, TopicId   \* the parameters that clients give

ASSUME MetricValuesAssumption ==
    /\ IsFiniteSet(Pool)
    /\ MaxStatements \in Nat
    /\ MaxStored \in 0..MaxStatements
    /\ \A s \in Pool :
          /\ s.time \in Nat
          /\ {s.raw, s.scaled, s.max} \subseteq Nat \cup {Missing}
          /\ {s.duration.days, s.duration.hours, s.duration.minutes,
               s.duration.halfSeconds} \subseteq Nat

(* What the code does not guarantee, but the values need: timestamps tell  *)
(* statements apart, so that sorting by them leaves no choice; a score     *)
(* comes with its maximum.                                                 *)
TimesDiffer == \A s, t \in Pool : s.time = t.time => s = t

ScoresBounded ==
    \A s \in Pool :
        ExtractScore(s) # Missing => s.max # Missing /\ ExtractScore(s) <= s.max

VARIABLES
    metric,         \* the metric that is asked for, always the same
    lrs,            \* the statements in the LRS, in the order of `stored'
    entry,          \* the cache entry
    shown           \* the value that was answered last

vars == <<metric, lrs, entry, shown>>

(* The parameters of the metric.                                           *)
Params ==
    [userId |-> "learner", since |-> 0, until |-> 0,
     courseId |-> IF metric \in NeedsCourse THEN CourseId ELSE NoIri,
     topicId |-> IF metric \in NeedsTopic THEN TopicId ELSE NoIri]

ActivityFilter == IF Params.topicId # NoIri THEN Params.topicId ELSE Params.courseId

(* The verbs that are queried: `passed' counts as a completion, but is not *)
(* among them.                                                             *)
AnyVerb == "any"
ServicesCompleted == "services.completed"
QueriedVerbs ==
    IF metric \in {"course-last-elements", "topic-last-elements"}
    THEN <<AdlCompleted, HaskiCompleted, ServicesCompleted>>
    ELSE <<AnyVerb>>

(* An LRS query with related_activities: the activity is the statement's   *)
(* object or in its context.                                               *)
Matches(s, verb) ==
    /\ verb \in {AnyVerb, s.verb}
    /\ ActivityFilter \in {NoIri, s.object} \cup {a.iri : a \in ContextActivities(s)}

(* What queryStatementsForMetric returns of a part of the LRS: verb after  *)
(* verb, newest first.  Nothing has two verbs, so that nothing comes twice. *)
Fetched(part) ==
    LET found == {q \in (1..Len(QueriedVerbs)) \X (1..Len(part)) :
                     Matches(part[q[2]], QueriedVerbs[q[1]])}
        order == InOrder(found, {p \in found \X found :
                                    \/ p[1][1] < p[2][1]
                                    \/ p[1][1] = p[2][1] /\ p[1][2] > p[2][2]})
    IN  [n \in DOMAIN order |-> part[order[n][2]]]

Cursor(S) == Max({i \in DOMAIN lrs : Contains(S, lrs[i])})

\* Mutant of Merged: the new statements replace the cached ones.
MergedReplacing(old, new) == new

(* mergeStatements: known ids keep their place, new ones are appended.     *)
Merged(old, new) == old \o At(new, {i \in DOMAIN new : ~Contains(old, new[i])})

Value(S) == Compute(metric, Params, S)

NoEntry == [exists |-> FALSE, statements |-> <<>>, value |-> Value(<<>>), upTo |-> 0]

(* upTo is history: how much of the LRS had been seen by then.             *)
EntryOf(S) ==
    [exists |-> TRUE, statements |-> S, value |-> Value(S), upTo |-> Len(lrs)]

-----------------------------------------------------------------------------

Init ==
    /\ metric \in MetricIds
    /\ ValidateParams(metric, Params)
    /\ lrs = <<>>
    /\ entry = NoEntry
    /\ shown = Value(<<>>)

(* The LRS stores a statement.                                             *)
Insert(s) ==
    /\ Len(lrs) < MaxStored
    /\ ~Contains(lrs, s)
    /\ lrs' = Append(lrs, s)
    /\ UNCHANGED <<metric, entry, shown>>

(* computeMetric on a cache miss.                                          *)
ComputeMetric ==
    /\ ~entry.exists
    /\ entry' = EntryOf(Fetched(lrs))
    /\ shown' = entry'.value
    /\ UNCHANGED <<metric, lrs>>

(* refreshCachedMetric; without a cursor the entry is served as it is.     *)
RefreshCachedMetric ==
    LET cursor == Cursor(entry.statements)
        new == Fetched(SubSeq(lrs, cursor + 1, Len(lrs)))
    IN
    /\ entry.exists
    /\ entry' = IF entry.statements = <<>> THEN entry
                ELSE EntryOf(Merged(entry.statements, new))
    /\ shown' = entry'.value
    /\ UNCHANGED <<metric, lrs>>

(* The entry expires or is invalidated.                                    *)
Drop ==
    /\ entry.exists
    /\ entry' = NoEntry
    /\ UNCHANGED <<metric, lrs, shown>>

Next ==
    \/ \E s \in Pool : Insert(s)
    \/ ComputeMetric
    \/ RefreshCachedMetric
    \/ Drop

Spec == Init /\ [][Next]_vars

-----------------------------------------------------------------------------

KnownToEntry == SubSeq(lrs, 1, entry.upTo)

(* Every variable has its type, an entry holds nothing twice, and a list   *)
(* of last elements has at most three.                                     *)
TypeOK ==
    /\ metric \in MetricIds
    /\ ToSet(lrs) \subseteq Pool
    /\ entry.exists \in BOOLEAN
    /\ entry.upTo \in 0..Len(lrs)
    /\ \A S \in {lrs, entry.statements} :
          /\ ToSet(S) \subseteq ToSet(lrs)
          /\ IsInjective(S)
    /\ metric \in LastElements => Len(shown) <= 3

(* The completion date is the first found, in an order that an incremental *)
(* merge changes; the rest of the best attempt does not depend on it.      *)
WithoutDate(v) ==
    [e \in DOMAIN v |-> [score |-> v[e].score, status |-> v[e].completionStatus]]

SameValue(v, w) ==
    IF metric = "topic-elements-best-attempts"
    THEN WithoutDate(v) = WithoutDate(w)
    ELSE v = w

(* REQ-FN-030: the value computed from what an entry has gathered in many  *)
(* refreshes is the value of one full fetch, although its statements come  *)
(* in another order.                                                       *)
IncrementalIsFull ==
    entry.exists => SameValue(entry.value, Value(Fetched(KnownToEntry)))

(* No course, topic or element scores more than its maximum, as long as no *)
(* statement does: two providers, which choose among the attempts of an    *)
(* element in different ways, agree.                                       *)
ScoreMetrics == {"courses-scores", "course-topics-scores"}

MaximumOf ==
    [m \in ScoreMetrics |->
        IF m = "courses-scores" THEN "courses-max-scores" ELSE "course-topics-max-scores"]

ScoresWithinMaximum ==
    metric \in ScoreMetrics =>
        LET maximum == Compute(MaximumOf[metric], Params, Fetched(lrs))
        IN  \A g \in DOMAIN shown :
               shown[g] > 0 => g \in DOMAIN maximum /\ shown[g] <= maximum[g]

(* The last elements shown to a client are three different elements with   *)
(* their latest completions, none later is left out, and they are in order. *)
CountedAs(S) == {s \in ToSet(S) : Counts(metric, s, Params)}

LatestOf(e, C) == Max({s.time : s \in {t \in C : t.object = e}})

LastElementsAreLatest ==
    (entry.exists /\ metric \in {"topic-last-elements", "user-last-elements"}) =>
        LET list == entry.value
            counted == CountedAs(Fetched(KnownToEntry))
            listed == {list[i].elementId : i \in DOMAIN list}
        IN  /\ Cardinality(listed) = Len(list)
            /\ \A i \in DOMAIN list :
                  list[i].completedAt = LatestOf(list[i].elementId, counted)
            /\ \A i, j \in DOMAIN list :
                  i < j => list[i].completedAt > list[j].completedAt
            /\ \A s \in counted :
                  \/ s.object \in listed
                  \/ /\ Len(list) = 3
                     /\ s.time < list[3].completedAt

NotLess(v, w) ==
    CASE metric = "topic-elements-best-attempts" ->
            \A e \in DOMAIN v : e \in DOMAIN w /\ v[e].score <= w[e].score
      [] metric \in LastElements ->
            /\ Len(v) <= Len(w)
            /\ \A i \in DOMAIN v : v[i].completedAt <= w[i].completedAt
      [] OTHER ->
            \A g \in DOMAIN v : g \in DOMAIN w /\ v[g] <= w[g]

(* A learner who goes on never loses anything: whatever was cached,        *)
(* merged, dropped and fetched again, scores, maxima and times do not      *)
(* fall, no course, topic or element disappears, and the lists of last     *)
(* elements do not go back in time.  Of a best attempt this is the score:  *)
(* its completion status may fall, as a better attempt need not be         *)
(* completed.                                                              *)
NeverDecreases == [][NotLess(shown, shown')]_vars

=============================================================================
