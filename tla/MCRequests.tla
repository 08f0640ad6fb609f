------------------------------ MODULE MCRequests ------------------------------
(* Two clients: readers of several metrics with and without errors in      *)
(* their requests, and an administrator.                                   *)
EXTENDS Requests

CONSTANTS c1, c2

TwoClients == {c1, c2}
Symmetry == Permutations(Clients)

Course == <<"https", Colon, "//moodle/course/view.php?id", Equals, "7">>
Topic == <<"https", Colon, "//moodle/course/7/topic/3">>
January == <<"2025-01-01T00", Colon, "00Z">>
June == <<"2025-06-01T00", Colon, "00Z">>
MCTimes == (January :> 1) @@ (June :> 6)

Kempten == <<"hs-ke">>
BothSchools == <<"hs-ke", Comma, "hs-rv">>
MCInstancePattern == {DefaultInstance, Kempten, BothSchools, <<Star>>}
MCPatternTokens == {"cache", Colon, Star, "hs-ke", "default"} \cup Metrics!MetricIds
MCIris == {Course, Topic}
MCUrl == [protocol |-> "https", host |-> <<"lrs", "haski", "app">>]
Lrs(place) == [protocol |-> "https", host |-> <<place, "lrs", "haski", "app">>]
MCEndpoints == (DefaultInstance :> Lrs("alt")) @@ (Kempten :> Lrs("ke"))

Token(scopes) ==
    [verified |-> TRUE, hasSub |-> TRUE, hasScopes |-> TRUE, scopes |-> scopes]
Reader == Token({"analytics:read"})
Admin == Token({"admin:cache"})

(* The tokens of all texts above and below, and how they are encoded.      *)
MCTokens ==
    {Colon, Comma, Equals, Star, "%3A", "%2C", "%3D", "%253A", "cache", "v1",
     "course", "topic", "element", "global"}
        \cup ToSet(FilterNames) \cup Metrics!MetricIds
        \cup UNION {ToSet(text) : text \in
                MCInstancePattern \cup MCIris \cup DOMAIN MCTimes}
        \cup {"no-such-metric", "ann", "g", "7", "june", "HS KE"}

MCEscape ==
    [t \in MCTokens \ {"%2C", "%3D", "%253A"} |->
        CASE t = Colon -> "%3A" [] t = Comma -> "%2C" [] t = Equals -> "%3D"
          [] t = "%3A" -> "%253A" [] OTHER -> t]

NoParams == [name \in ToSet(FilterNames) \cup {"instanceId"} |-> Empty]
NoDto == [key |-> Empty, pattern |-> Empty, all |-> "absent"]
Ann == [NoParams EXCEPT !.userId = <<"ann">>, !.since = June]
AtKempten ==
    [NoParams EXCEPT !.userId = <<"ann">>, !.courseId = Course, !.groupId = <<"g">>,
        !.until = January, !.instanceId = Kempten]

Request(route, token, metric, params, dto) ==
    [route |-> route, token |-> token, metric |-> metric, params |-> params, dto |-> dto]
Results(metric, params) == Request("results", Reader, metric, params, NoDto)
Invalidation(dto) == Request("invalidate", Admin, "", NoParams, dto)

(* A group with a comma in its name is read as a group and more filters,   *)
(* whether the request lacks what follows the comma or not.                *)
And(name, value) == <<Comma, name, Equals>> \o value
WithoutUser ==
    [AtKempten EXCEPT !.userId = Empty, !.until = Empty,
        !.groupId = @ \o And("until", EncodedValue(January)) \o And("userId", <<"ann">>)]

(* Results that can be had: two keys, one of them asked for in two ways.   *)
Valid ==
    {Results("courses-scores", Ann),
     Results("courses-scores", [Ann EXCEPT !.instanceId = DefaultInstance]),
     Results("course-topics-scores", AtKempten)}

(* ...and that cannot, unless they are found: time range, user, course, no *)
(* IRI, no such metric, and what the DTO refuses.                          *)
Invalid ==
    {Results("courses-scores", [Ann EXCEPT !.until = January]),
     Results("courses-scores", [Ann EXCEPT !.userId = Empty]),
     Results("course-topics-scores", [AtKempten EXCEPT !.courseId = <<"7">>]),
     Results("no-such-metric", Ann),
     Results("course-topics-scores", WithoutUser),
     Results("course-topics-scores", Ann),
     Results("courses-scores", [Ann EXCEPT !.until = <<"june">>]),
     Results("courses-scores", [Ann EXCEPT !.instanceId = <<"HS KE">>])}

Others ==
    {Request(route, Reader, "courses-scores", NoParams, NoDto) :
        route \in {"catalog", "detail", "instances"}}
    \cup {Request("detail", Reader, "no-such-metric", NoParams, NoDto)}

Refused ==
    {Request("results", token, "courses-scores", Ann, NoDto) :
        token \in {Admin, [Reader EXCEPT !.verified = FALSE], [Reader EXCEPT !.hasSub = FALSE]}}
    \cup {Request("invalidate", Reader, "", NoParams, [NoDto EXCEPT !.all = "true"])}

Invalidations ==
    {Invalidation([NoDto EXCEPT !.key = GenerateCacheKey("courses-scores", Ann)]),
     Invalidation([NoDto EXCEPT !.pattern =
        GenerateCacheKeyPattern("course-topics-scores", Kempten)]),
     Invalidation([NoDto EXCEPT !.pattern = <<"cache", Colon, Star, Equals, "ann", Star>>]),
     Invalidation([NoDto EXCEPT !.all = "true"]),
     Invalidation([NoDto EXCEPT !.all = "false"]),
     Invalidation([NoDto EXCEPT !.pattern = <<Star>>, !.all = "true"])}

MCInputs == Valid \cup Invalid \cup Others \cup Refused \cup Invalidations

=============================================================================
