------------------------------- MODULE Requests -------------------------------
(***************************************************************************)
(* HTTP requests from the guards to their answers: metric results, with    *)
(* the cache and the LRS behind them, the catalogue, the instances, and    *)
(* the invalidation of cache entries by an administrator.  MetricCache     *)
(* follows one cache key and its statements; here there are many keys, and *)
(* an entry is known by the LRS queries that contributed to it.            *)
(*                                                                         *)
(* From the LRS' answer to the write of the result is one step: what       *)
(* happens in between is the business of MetricCache.                      *)
(***************************************************************************)
EXTENDS CacheKeys

CONSTANTS
    Clients,        \* each has at most one request under way
    Inputs,         \* the requests they may send
    Times,          \* ISO 8601 texts, with the instants that they stand for
    InstancePattern,    \* the instanceIds that the DTO accepts
    PatternTokens,  \* what a pattern may consist of
    Iris,           \* the texts that start with http://, https:// or urn:
    Endpoints,      \* lrs.instances, by id
    LrsUrl,         \* lrs.url
    AuthEnabled,
    ThrottlerStorage,   \* "redis", or "memory" in tests
    Degradation     \* "cache", "default" or "off", as in MetricCache

(* Parameters are texts, and an instanceId that the DTO accepts has no     *)
(* colon.  A metric is one token: one with a colon has no provider, and    *)
(* its keys are none under which a result is stored.  The id of an         *)
(* instance is not empty.                                                  *)
ASSUME RequestsAssumption ==
    /\ \A r \in Inputs : r.route = "results" =>
          /\ r.metric \in Tokens \ {Colon}
          /\ r.params \in [ParamNames \cup {"instanceId"} -> Text]
          /\ \A name \in ParamNames : r.params[name] \in Values
    /\ \A instance \in InstancePattern : Free(instance, Colon)
    /\ Empty \notin DOMAIN Endpoints
    /\ AuthEnabled \in BOOLEAN
    /\ ThrottlerStorage \in {"redis", "memory"}
    /\ Degradation \in {"cache", "default", "off"}

Metrics == INSTANCE Providers WITH Digits <- {}

VARIABLES
    cache,          \* MetricCacheEntry per key
    redisUp,        \* Redis answers
    job,            \* per client: the request under way
    answer          \* the answer that the last step has given, or NoAnswer

vars == <<cache, redisUp, job, answer>>

-----------------------------------------------------------------------------
(* Guards and DTOs.                                                        *)

(* JwtStrategy.validate, for a token that passport has accepted.           *)
NoUser == [scopes |-> {}]
User(token) ==
    IF token.verified /\ token.hasSub /\ token.hasScopes
    THEN [scopes |-> token.scopes] ELSE NoUser

RequiredScopes(route) ==
    IF route = "invalidate" THEN {"admin:cache"} ELSE {"analytics:read"}

(* MetricResultsQueryDto: what is given has its format.                    *)
ValidQuery(p) ==
    /\ {p.since, p.until} \subseteq {Empty} \cup DOMAIN Times
    /\ p.instanceId \in {Empty} \cup InstancePattern

(* CacheInvalidateDto, `all' after its conversion, and the check of the    *)
(* controller: exactly one option, and `all' not false.                    *)
ValidInvalidation(dto) ==
    /\ Cardinality({o \in {"key", "pattern"} : dto[o] # Empty}
          \cup {o \in {"all"} : dto.all # "absent"}) = 1
    /\ ToSet(dto.pattern) \subseteq PatternTokens
    /\ dto.all # "false"

(* JwtAuthGuard, ScopesGuard, the validation pipe: the first that refuses. *)
(* Without authentication there is no user, and ScopesGuard refuses all.   *)
Guards(r) ==
    << [passes |-> ~AuthEnabled \/ User(r.token) # NoUser, status |-> 401],
       [passes |-> AuthEnabled /\ User(r.token).scopes \cap RequiredScopes(r.route) # {},
        status |-> 403],
       [passes |-> /\ r.route = "results" => ValidQuery(r.params)
                   /\ r.route = "invalidate" => ValidInvalidation(r.dto),
        status |-> 400] >>

GuardStatus(r) ==
    LET refusing == {i \in DOMAIN Guards(r) : ~Guards(r)[i].passes}
        first == CHOOSE i \in refusing : \A j \in refusing : i <= j
    IN  IF refusing = {} THEN 200 ELSE Guards(r)[first].status

(* The throttler comes first: its limit is external, and its storage fails *)
(* every request while Redis is down.                                      *)
Admission(r) ==
    {429, IF ThrottlerStorage = "redis" /\ ~redisUp THEN 500 ELSE GuardStatus(r)}

-----------------------------------------------------------------------------
(* The metric and its LRS query.                                           *)

\* Mutant of KnownMetric: nothing is looked up.
KnownMetricAny(metricId) == TRUE

KnownMetric(metricId) == metricId \in Metrics!MetricIds

Time(text) == IF text = Empty THEN 0 ELSE Times[text]

Accepts(metricId, p) ==
    Metrics!ValidateParams(metricId,
        [userId |-> IF p.userId = Empty THEN "" ELSE "user",
         courseId |-> IF p.courseId = Empty THEN Metrics!NoIri ELSE p.courseId,
         topicId |-> IF p.topicId = Empty THEN Metrics!NoIri ELSE p.topicId,
         since |-> Time(p.since), until |-> Time(p.until)])

(* An endpoint is a protocol and the labels of its host; the actor's home  *)
(* page is the Moodle beside the LRS.                                      *)
NormalizeActorHomePage(endpoint) ==
    LET inner == {i \in 2..(Len(endpoint.host) - 1) : endpoint.host[i] = "lrs"}
    IN  CASE inner # {} ->
               [endpoint EXCEPT !.host[CHOOSE i \in inner : \A j \in inner : i <= j] = "moodle"]
          [] inner = {} /\ Len(endpoint.host) > 1 /\ endpoint.host[1] = "lrs" ->
               [endpoint EXCEPT !.host[1] = "moodle"]
          [] OTHER -> endpoint

(* Unknown instances, lists and the wildcard stand for lrs.url.            *)
ResolveLrsEndpoint(instanceId) ==
    IF instanceId \in DOMAIN Endpoints THEN Endpoints[instanceId] ELSE LrsUrl

Activity(p) ==
    CASE p.elementId # Empty -> [id |-> p.elementId, related |-> FALSE]
      [] p.elementId = Empty /\ p.topicId # Empty -> [id |-> p.topicId, related |-> TRUE]
      [] OTHER -> [id |-> p.courseId, related |-> p.courseId # Empty]

NoAgent == [name |-> Empty]

BuildLRSFilters(p) ==
    [since |-> p.since, until |-> p.until, activity |-> Activity(p),
     agent |-> IF p.userId = Empty THEN NoAgent
               ELSE [homePage |-> NormalizeActorHomePage(ResolveLrsEndpoint(p.instanceId)),
                     name |-> p.userId]]

FiltersValid(p) == Activity(p).id \in {Empty} \cup Iris

(* A metric with parameters, and its key: a table, for TLC to fill once.   *)
Asked(r) == [metric |-> r.metric, params |-> r.params]
Questions == {Asked(r) : r \in {i \in Inputs : i.route = "results"}}
Keys == [q \in Questions |-> GenerateCacheKey(q.metric, q.params)]
Key(r) == Keys[Asked(r)]

(* Requests for results that pass the guards, and those that share a key.  *)
Admitted(r) == r \in Inputs /\ r.route = "results" /\ GuardStatus(r) = 200
Sharing(r) == {q \in Inputs : Admitted(q) /\ Key(q) = Key(r)}

(* handleError and the words that computeMetric looks for in its messages. *)
AvailabilityErrors == {"open", "timeout", "connection", "network"}
OtherErrors == {"auth", "rate_limit", "server", "reset"}

-----------------------------------------------------------------------------

NoEntry == [exists |-> FALSE, queries |-> {}]

NoAnswer == [kind |-> "none"]

(* Of an answer without data only the status is kept.                      *)
Answered(status) == [kind |-> "other", status |-> status]

Idle == [phase |-> "idle"]

Init ==
    /\ cache = << >>
    /\ redisUp = TRUE
    /\ job = [c \in Clients |-> Idle]
    /\ answer = NoAnswer

Respond(c, status) ==
    /\ job' = [job EXCEPT ![c] = Idle]
    /\ answer' = Answered(status)

RespondWithData(c, kind, e) ==
    /\ job' = [job EXCEPT ![c] = Idle]
    /\ answer' = [kind |-> kind, status |-> 200, request |-> job[c].request, entry |-> e]

Admit(c, r) ==
    /\ job[c] = Idle
    /\ \E status \in Admission(r) :
          IF status = 200
          THEN /\ job' = [job EXCEPT ![c] =
                           [phase |-> "admitted", request |-> r, found |-> NoEntry, keys |-> {}]]
               /\ answer' = NoAnswer
          ELSE /\ answer' = Answered(status)
               /\ UNCHANGED job
    /\ UNCHANGED <<cache, redisUp>>

Handling(c, route) ==
    /\ job[c].phase = "admitted"
    /\ job[c].request.route = route

Stored(key) ==
    IF redisUp /\ key \in DOMAIN cache THEN cache[key] ELSE NoEntry

GoOn(c, phase, found) ==
    /\ job' = [job EXCEPT ![c] = [@ EXCEPT !.phase = phase, !.found = found]]
    /\ answer' = NoAnswer

(* computeMetric on a hit: neither the metric nor its parameters are       *)
(* looked at again.  An entry without a cursor is served as it is, and so  *)
(* is one whose cursor has reached `until'.                                *)
Hit(c) ==
    LET r == job[c].request
        e == Stored(Key(r))
    IN
    /\ Handling(c, "results")
    /\ e.exists
    /\ \/ /\ ~e.cursor \/ r.params.until # Empty
          /\ RespondWithData(c, "cached", e)
       \/ /\ e.cursor
          /\ IF FiltersValid(r.params)
             THEN GoOn(c, "querying", e)
             ELSE Respond(c, 400)
    /\ UNCHANGED <<cache, redisUp>>

(* On a miss the provider is loaded and validates, and the filters are     *)
(* built, before the LRS is asked.                                         *)
Miss(c) ==
    LET r == job[c].request
    IN
    /\ Handling(c, "results")
    /\ ~Stored(Key(r)).exists
    /\ CASE ~KnownMetric(r.metric) -> Respond(c, 404)
         [] KnownMetric(r.metric)
                /\ ~(Accepts(r.metric, r.params) /\ FiltersValid(r.params)) ->
              Respond(c, 400)
         [] OTHER -> GoOn(c, "querying", NoEntry)
    /\ UNCHANGED <<cache, redisUp>>

(* The LRS answers; the result is computed, written and returned.  On a    *)
(* hit without anything new the entry found is written back.               *)
Compute(c) ==
    LET r == job[c].request
        found == job[c].found
        computed(cursor) ==
            [exists |-> TRUE, question |-> Asked(r),
             queries |-> found.queries \cup {BuildLRSFilters(r.params)},
             cursor |-> cursor]
        Write(e) ==
            cache' = IF redisUp
                     THEN [k \in {Key(r)} \cup DOMAIN cache |->
                             IF k = Key(r) THEN e ELSE cache[k]]
                     ELSE cache
    IN
    /\ job[c].phase = "querying"
    /\ \/ /\ ~found.exists
          /\ \E cursor \in BOOLEAN :
                /\ Write(computed(cursor))
                /\ RespondWithData(c, "available", computed(cursor))
       \/ /\ found.exists
          /\ Write(found)
          /\ RespondWithData(c, "cached", found)
       \/ /\ found.exists
          /\ Write(computed(TRUE))
          /\ RespondWithData(c, "available", computed(TRUE))
    /\ UNCHANGED redisUp

(* The LRS does not answer, or rejects the query, or the breaker is open.  *)
QueryFails(c, error) ==
    /\ job[c].phase = "querying"
    /\ \/ /\ job[c].found.exists
          /\ RespondWithData(c, "cached", job[c].found)
       \/ /\ ~job[c].found.exists
          /\ error \in AvailabilityErrors
          /\ IF Degradation = "off"
             THEN Respond(c, 503)
             ELSE GoOn(c, "fallback", NoEntry)
       \/ /\ ~job[c].found.exists
          /\ error = "rejected"
          /\ Respond(c, 400)
       \/ /\ ~job[c].found.exists
          /\ error \in OtherErrors
          /\ Respond(c, 500)
    /\ UNCHANGED <<cache, redisUp>>

Fallback(c) ==
    LET e == Stored(Key(job[c].request))
    IN
    /\ job[c].phase = "fallback"
    /\ IF Degradation = "cache" /\ e.exists
       THEN RespondWithData(c, "degraded", e)
       ELSE Respond(c, 200)
    /\ UNCHANGED <<cache, redisUp>>

(* The catalogue is the list of the providers; an instance is reported     *)
(* with whatever health the LRS has.                                       *)
ReadTables(c) ==
    /\ \/ Handling(c, "catalog") \/ Handling(c, "instances")
       \/ Handling(c, "detail") /\ KnownMetric(job[c].request.metric)
    /\ Respond(c, 200)
    /\ UNCHANGED <<cache, redisUp>>

DetailNotFound(c) ==
    /\ Handling(c, "detail")
    /\ ~KnownMetric(job[c].request.metric)
    /\ Respond(c, 404)
    /\ UNCHANGED <<cache, redisUp>>

-----------------------------------------------------------------------------
(* CacheAdminService.invalidateCache reports success whatever Redis does.  *)

InvalidateKey(c) ==
    /\ Handling(c, "invalidate")
    /\ job[c].request.dto.key # Empty
    /\ cache' = IF redisUp
                THEN [k \in DOMAIN cache \ {job[c].request.dto.key} |-> cache[k]]
                ELSE cache
    /\ Respond(c, 200)
    /\ UNCHANGED redisUp

Pattern(dto) == IF dto.all = "true" THEN <<"cache", Colon, Star>> ELSE dto.pattern

(* invalidatePattern scans first and deletes later.                        *)
Scan(c) ==
    LET dto == job[c].request.dto
    IN
    /\ Handling(c, "invalidate")
    /\ dto.key = Empty
    /\ IF redisUp
       THEN /\ job' = [job EXCEPT ![c] = [@ EXCEPT !.phase = "deleting",
                         !.keys = {k \in DOMAIN cache : GlobMatches(Pattern(dto), k)}]]
            /\ answer' = NoAnswer
       ELSE Respond(c, 200)
    /\ UNCHANGED <<cache, redisUp>>

DeleteScanned(c) ==
    /\ job[c].phase = "deleting"
    /\ cache' = IF redisUp
                THEN [k \in DOMAIN cache \ job[c].keys |-> cache[k]]
                ELSE cache
    /\ Respond(c, 200)
    /\ UNCHANGED redisUp

Expire(k) ==
    /\ k \in DOMAIN cache
    /\ cache' = [other \in DOMAIN cache \ {k} |-> cache[other]]
    /\ answer' = NoAnswer
    /\ UNCHANGED <<redisUp, job>>

RedisChange ==
    /\ redisUp' = ~redisUp
    /\ answer' = NoAnswer
    /\ UNCHANGED <<cache, job>>

Next ==
    \/ \E c \in Clients :
          \/ \E r \in Inputs : Admit(c, r)
          \/ Hit(c)
          \/ Miss(c)
          \/ Compute(c)
          \/ \E error \in AvailabilityErrors \cup OtherErrors \cup {"rejected"} :
                QueryFails(c, error)
          \/ Fallback(c)
          \/ ReadTables(c)
          \/ DetailNotFound(c)
          \/ InvalidateKey(c)
          \/ Scan(c)
          \/ DeleteScanned(c)
    \/ \E k \in DOMAIN cache : Expire(k)
    \/ RedisChange

Spec == Init /\ [][Next]_vars

-----------------------------------------------------------------------------

(* Every variable has its type, and the cache holds results of metrics     *)
(* that exist.                                                             *)
TypeOK ==
    /\ \A k \in DOMAIN cache : cache[k].question.metric \in Metrics!MetricIds
    /\ redisUp \in BOOLEAN
    /\ \A c \in Clients :
          /\ job[c] # Idle =>
                /\ job[c].phase \in {"admitted", "querying", "fallback", "deleting"}
                /\ job[c].request \in Inputs
    /\ answer # NoAnswer =>
          answer.status \in {200, 400, 401, 403, 404, 429, 500, 503}

HasData ==
    answer.kind \in {"available", "cached", "degraded"}

(* The parameters of a request with its instance resolved, as its key has  *)
(* them.                                                                   *)
Normalized(p) == [p EXCEPT !.instanceId = InstanceOf(p)]

(* The requests that a key cannot tell apart: those with values that are   *)
(* not plain, and those of no instance from those of an instance that is   *)
(* called `default' and has an endpoint of its own.                        *)
Legible(r) == \A q \in Sharing(r) : PlainParams(q.params)

OneDefault(r) ==
    \/ DefaultInstance \in DOMAIN Endpoints => Endpoints[DefaultInstance] = LrsUrl
    \/ \A q \in Sharing(r) : q.params.instanceId = r.params.instanceId

(* A client gets the result that it has asked for: what the entry under    *)
(* its key holds was computed for its metric and instance and, if the key  *)
(* is legible, for its parameters; and then every LRS query that           *)
(* contributed to it, in however many refreshes, is the one that its own   *)
(* request would make, if `default' is one place.                          *)
AnswersOwnRequest ==
    HasData =>
        LET r == answer.request
            e == answer.entry
        IN  /\ e.question.metric = r.metric
            /\ InstanceOf(e.question.params) = InstanceOf(r.params)
            /\ Legible(r) =>
                  /\ Normalized(e.question.params) = Normalized(r.params)
                  /\ OneDefault(r) => e.queries = {BuildLRSFilters(r.params)}

(* Hits skip the provider's validation, and refreshes that fail are not    *)
(* errors: yet nobody is given data who lacks the scope, or asks for a     *)
(* metric that does not exist, or, if his key is legible, whose parameters *)
(* its provider would refuse.                                              *)
ValidatedBeforeAnswer ==
    HasData =>
        LET r == answer.request
        IN  /\ GuardStatus(r) = 200
            /\ KnownMetric(r.metric)
            /\ Legible(r) => Accepts(r.metric, r.params) /\ FiltersValid(r.params)

\* A table, like that of the keys.
Reaches ==
    [named \in Questions |->
        LET pattern == GenerateCacheKeyPattern(named.metric, InstanceOf(named.params))
        IN  [q \in Questions |-> GlobMatches(pattern, Keys[q])]]

\* Neither the metric nor the instance is a wildcard or has a colon.
Nameable(q) ==
    /\ q.metric # Star
    /\ Free(InstanceOf(q.params), Star) /\ Free(InstanceOf(q.params), Colon)

(* A stored key is that of the question it was last computed for, and has  *)
(* six segments, for there is always a user among its filters; and the     *)
(* pattern for a metric at an instance reaches exactly the keys of both:   *)
(* an invalidation by pattern neither misses results nor takes others'.    *)
KeysNameTheirEntries ==
    \A k \in DOMAIN cache :
        LET q == cache[k].question
        IN  /\ k = Keys[q]
            /\ Cardinality({i \in DOMAIN k : k[i] = Colon}) = 5
            /\ \A named \in Questions :
                  Nameable(named) =>
                     (Reaches[named][q] <=>
                         /\ named.metric = q.metric
                         /\ InstanceOf(named.params) = InstanceOf(q.params))

=============================================================================
