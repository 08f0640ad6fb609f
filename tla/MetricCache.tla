----------------------------- MODULE MetricCache -----------------------------
(***************************************************************************)
(* The cache-aside path of ComputationService for one cache key: computing *)
(* a metric on a miss, refreshing it incrementally on a hit (REQ-FN-030),  *)
(* and what goes on meanwhile: other requests for the same metric, new     *)
(* statements in the LRS, expiry, invalidation by an administrator, and    *)
(* Redis or the LRS failing.                                               *)
(*                                                                         *)
(* A step is what happens between two awaits of a request, or one command  *)
(* at Redis, or one query at the LRS.  A result is represented by the set  *)
(* of statements it was computed from.  The circuit breaker is the         *)
(* business of MetricQuery: here a call may fail because it rejects it.    *)
(*                                                                         *)
(* Times are counted in the ticks of the LRS clock, which is finer than    *)
(* the milliseconds that the service compares.                             *)
(***************************************************************************)
EXTENDS Integers, FiniteSets

CONSTANTS
    Requests,       \* the requests being served
    Statements,     \* the statements that learners may produce
    Verbs,          \* the positions of METRIC_VERB_MAP[metricId]: one LRS
                    \* query for each
    VerbOf,         \* the verb of each statement
    MaxStatements,  \* what one LRS query returns at most
    TicksPerMs,     \* of the LRS clock
    Advances,       \* what the LRS clock may advance by between two inserts
    Until,          \* params.until, or NoUntil
    NoUntil,
    Degradation,    \* "cache", "default" or "off": the two settings of
                    \* gracefulDegradation, enabled and cacheFallback
    ProviderThrows, \* the metric's compute() may throw
    MaxInvalidations    \* bound of the model

ASSUME MetricCacheAssumption ==
    /\ IsFiniteSet(Statements)
    /\ Verbs \subseteq Nat
    /\ VerbOf \in [Statements -> Verbs]
    /\ MaxStatements \in Nat \ {0}
    /\ TicksPerMs \in Nat \ {0}
    /\ Advances \subseteq Nat
    /\ NoUntil \notin Nat
    /\ Until \in (Nat \ {0}) \cup {NoUntil}
    /\ Degradation \in {"cache", "default", "off"}
    /\ ProviderThrows \in BOOLEAN
    /\ MaxInvalidations \in Nat

VARIABLES
    stored,         \* per statement: when the LRS stored it, or 0
    clock,          \* the latest time the LRS has given out
    lrsUp,          \* the LRS answers, and the circuit breaker lets it be asked
    redisUp,        \* Redis answers
    entry,          \* the MetricCacheEntry under the key, or NoEntry
    scanned,        \* an invalidation by pattern has collected the key
    phase,          \* per request: where it is
    cached,         \* per request: the entry it found
    pending,        \* per request: verbs whose query is not yet evaluated
    got,            \* per request: statements its queries returned
    answer,         \* per request that is not under way: its latest answer
    \* History, read by the properties only:
    before,         \* per request: matching statements when it began
    began,          \* per request that queries after a miss: how many
                    \* invalidations there were when it began
    invalidations   \* how many invalidations have deleted the key

lrsVars == <<stored, clock, lrsUp>>
requestVars == <<phase, cached, pending, got, answer, before, began>>
cacheVars == <<redisUp, entry, scanned, invalidations>>
vars == <<lrsVars, requestVars, cacheVars>>

-----------------------------------------------------------------------------

InRange(t) == t # 0 /\ (Until = NoUntil \/ t <= Until)

(* The LRS has it, and a full query returns it.                            *)
Matching == {s \in Statements : InRange(stored[s])}

NoCursor == 0

\* Mutants of LatestCursor: the time of the write, also when nothing was
\* found; the service's own clock, which runs ahead.
WriteTimeCursor(S) == clock
AheadCursor(S) == IF S = {} THEN NoCursor ELSE clock + 1

(* What Date.parse leaves of a time: whole milliseconds.                   *)
Parsed(t) == t - (t % TicksPerMs)

(* resolveLatestCursor takes the first statement of the latest             *)
(* millisecond, in the order of the queries: verb by verb, newest first.   *)
LatestCursor(S) ==
    LET latest == {s \in S : \A x \in S : Parsed(stored[x]) <= Parsed(stored[s])}
        first == {s \in latest : \A x \in latest : VerbOf[s] <= VerbOf[x]}
    IN  IF S = {} THEN NoCursor
        ELSE CHOOSE t \in {stored[s] : s \in first} :
                \A s \in first : stored[s] <= t

NoEntry == [statements |-> {}, cursor |-> NoCursor, exists |-> FALSE, from |-> 0]

(* `from' is history: the number of invalidations when the request began   *)
(* whose full fetch the entry goes back to.                                *)
EntryOf(S, cursor, from) ==
    [statements |-> S, cursor |-> cursor, exists |-> TRUE, from |-> from]

Answer(kind, S) == [kind |-> kind, statements |-> S]

NoAnswer == Answer("none", {})

-----------------------------------------------------------------------------

Init ==
    /\ stored = [s \in Statements |-> 0]
    /\ clock = 0
    /\ lrsUp = TRUE
    /\ redisUp = TRUE
    /\ entry = NoEntry
    /\ scanned = FALSE
    /\ phase = [r \in Requests |-> "idle"]
    /\ cached = [r \in Requests |-> NoEntry]
    /\ pending = [r \in Requests |-> {}]
    /\ got = [r \in Requests |-> {}]
    /\ answer = [r \in Requests |-> NoAnswer]
    /\ before = [r \in Requests |-> {}]
    /\ began = [r \in Requests |-> 0]
    /\ invalidations = 0

(* CacheService: a Redis that fails hides the entry from get, and set and  *)
(* delete leave it as it is; the caller is not told.  getIgnoringExpiry    *)
(* is the same plain GET.                                                  *)
Get == IF redisUp THEN entry ELSE NoEntry

GetIgnoringExpiry == Get

Set(e) == entry' = IF redisUp THEN e ELSE entry

(* A request has its answer; the slot is free for the next one.            *)
Respond(r, a) ==
    /\ phase' = [phase EXCEPT ![r] = "idle"]
    /\ cached' = [cached EXCEPT ![r] = NoEntry]
    /\ pending' = [pending EXCEPT ![r] = {}]
    /\ got' = [got EXCEPT ![r] = {}]
    /\ answer' = [answer EXCEPT ![r] = a]
    /\ began' = [began EXCEPT ![r] = 0]

(* computeMetric: get the entry, which a failing Redis hides.  An entry    *)
(* without a cursor, or whose cursor has reached the millisecond of        *)
(* `until', is served as it is; in the other cases the LRS is queried.     *)
Served(e) ==
    /\ e.exists
    /\ \/ e.cursor = NoCursor
       \/ Until # NoUntil /\ ~(Parsed(e.cursor) < Parsed(Until))

Lookup(r) ==
    /\ phase[r] = "idle"
    /\ before' = [before EXCEPT ![r] = Matching]
    /\ IF Served(Get)
       THEN Respond(r, Answer("cached", Get.statements))
       ELSE /\ phase' = [phase EXCEPT ![r] = "querying"]
            /\ cached' = [cached EXCEPT ![r] = Get]
            /\ pending' = [pending EXCEPT ![r] = Verbs]
            /\ began' = [began EXCEPT ![r] = IF Get.exists THEN 0 ELSE invalidations]
            /\ answer' = [answer EXCEPT ![r] = NoAnswer]
            /\ UNCHANGED got
    /\ UNCHANGED <<lrsVars, cacheVars>>

(* What the request asks for: on a hit `since' is the cursor, and the LRS  *)
(* takes it as exclusive.                                                  *)
Asked(r) == {s \in Matching : stored[s] > cached[r].cursor}

(* queryStatements returns no more than maxStatements of what a query      *)
(* matches: the newest, the others are never asked for.                    *)
Newest(S) ==
    IF Cardinality(S) <= MaxStatements THEN {S}
    ELSE {K \in SUBSET S :
            /\ Cardinality(K) = MaxStatements
            /\ \A k \in K, s \in S \ K : stored[s] <= stored[k]}

(* The LRS evaluates the query of one verb.                                *)
Query(r, v) ==
    /\ phase[r] = "querying"
    /\ v \in pending[r]
    /\ lrsUp
    /\ pending' = [pending EXCEPT ![r] = @ \ {v}]
    /\ \E K \in Newest({s \in Asked(r) : VerbOf[s] = v}) :
          got' = [got EXCEPT ![r] = @ \cup K]
    /\ UNCHANGED <<lrsVars, cacheVars, phase, cached, answer, before, began>>

(* A query fails, or the circuit breaker rejects it.  On a hit the cached  *)
(* result is served; on a miss an availability error leads to the          *)
(* fallback, and any other error is the client's.                          *)
QueryFails(r) ==
    /\ phase[r] = "querying"
    /\ pending[r] # {}
    /\ ~lrsUp
    /\ \/ /\ cached[r].exists
          /\ Respond(r, Answer("cached", cached[r].statements))
       \/ /\ ~cached[r].exists
          /\ Degradation # "off"
          /\ phase' = [phase EXCEPT ![r] = "fallback"]
          /\ pending' = [pending EXCEPT ![r] = {}]
          /\ got' = [got EXCEPT ![r] = {}]
          /\ began' = [began EXCEPT ![r] = 0]
          /\ UNCHANGED <<cached, answer>>
       \/ /\ ~cached[r].exists
          /\ Respond(r, Answer("error", {}))
    /\ UNCHANGED <<lrsVars, cacheVars, before>>

(* executeFallback: the entry if there is one now, else the default value. *)
FallbackAnswer ==
    IF Degradation = "cache" /\ GetIgnoringExpiry.exists
    THEN Answer("degraded", GetIgnoringExpiry.statements)
    ELSE Answer("unavailable", {})

\* Mutant of Fallback: the request waits for a cached value to appear.
FallbackWaiting(r) ==
    /\ phase[r] = "fallback"
    /\ FallbackAnswer.kind = "degraded"
    /\ Respond(r, FallbackAnswer)
    /\ UNCHANGED <<lrsVars, cacheVars, before>>

Fallback(r) ==
    /\ phase[r] = "fallback"
    /\ Respond(r, FallbackAnswer)
    /\ UNCHANGED <<lrsVars, cacheVars, before>>

(* What a request whose queries have all come back writes to the cache:    *)
(* the full result; on a hit the merged one, or if nothing is new the very *)
(* entry it had found.  In the merged list the cached statements come      *)
(* first, so that the cursor moves only to a later millisecond.            *)
MergedCursor(r) ==
    IF Parsed(LatestCursor(got[r])) > Parsed(cached[r].cursor)
    THEN LatestCursor(got[r]) ELSE cached[r].cursor

\* Mutant of NewEntry: the statements are replaced, not merged.
NewEntryUnmerged(r) ==
    IF ~cached[r].exists
    THEN EntryOf(got[r], LatestCursor(got[r]), began[r])
    ELSE IF got[r] = {} THEN cached[r]
    ELSE EntryOf(got[r], LatestCursor(got[r]), cached[r].from)

NewEntry(r) ==
    IF ~cached[r].exists
    THEN EntryOf(got[r], LatestCursor(got[r]), began[r])
    ELSE IF got[r] = {} THEN cached[r]
    ELSE EntryOf(cached[r].statements \cup got[r], MergedCursor(r), cached[r].from)

(* Compute, set, respond.  A set that fails is only logged.                *)
Store(r) ==
    /\ phase[r] = "querying"
    /\ pending[r] = {}
    /\ Set(NewEntry(r))
    /\ Respond(r, Answer("fresh", NewEntry(r).statements))
    /\ UNCHANGED <<lrsVars, redisUp, scanned, before, invalidations>>

(* compute() throws: nothing is written, the client gets a 500.            *)
ComputeFails(r) ==
    /\ ProviderThrows
    /\ phase[r] = "querying"
    /\ pending[r] = {}
    /\ ~cached[r].exists \/ got[r] # {}
    /\ Respond(r, Answer("error", {}))
    /\ UNCHANGED <<lrsVars, cacheVars, before>>

-----------------------------------------------------------------------------
(* The rest of the world.                                                  *)

(* The LRS stores a statement; the times it gives out never decrease.      *)
Insert(s) ==
    /\ stored[s] = 0
    /\ \E d \in Advances :
          /\ clock + d > 0
          /\ clock' = clock + d
          /\ stored' = [stored EXCEPT ![s] = clock + d]
    /\ UNCHANGED <<lrsUp, requestVars, cacheVars>>

(* The TTL of the entry runs out.                                          *)
Expire ==
    /\ entry.exists
    /\ entry' = NoEntry
    /\ UNCHANGED <<lrsVars, redisUp, scanned, requestVars, invalidations>>

(* CacheAdminService.invalidateCache with a key: one DEL.                  *)

\* Mutant of Deleted: another key is deleted.
DeletedAnotherKey ==
    /\ invalidations < MaxInvalidations
    /\ entry' = entry
    /\ invalidations' = invalidations + 1

Deleted ==
    /\ invalidations < MaxInvalidations
    /\ entry' = NoEntry
    /\ invalidations' = invalidations + 1

InvalidateKey ==
    /\ redisUp
    /\ Deleted
    /\ UNCHANGED <<lrsVars, redisUp, scanned, requestVars>>

(* With a pattern: SCAN collects the keys, a pipeline deletes them later.  *)
Scan ==
    /\ redisUp
    /\ ~scanned
    /\ entry.exists
    /\ scanned' = TRUE
    /\ UNCHANGED <<lrsVars, redisUp, entry, requestVars, invalidations>>

DeleteScanned ==
    /\ scanned
    /\ scanned' = FALSE
    /\ \/ redisUp /\ Deleted
       \/ ~redisUp /\ UNCHANGED <<entry, invalidations>>
    /\ UNCHANGED <<lrsVars, redisUp, requestVars>>

LrsChange ==
    /\ lrsUp' = ~lrsUp
    /\ UNCHANGED <<stored, clock, requestVars, cacheVars>>

RedisChange ==
    /\ redisUp' = ~redisUp
    /\ UNCHANGED <<lrsVars, entry, scanned, requestVars, invalidations>>

QueryStep(r) == QueryFails(r) \/ \E v \in Verbs : Query(r, v)

Next ==
    \/ \E r \in Requests :
          \/ Lookup(r)
          \/ \E v \in Verbs : Query(r, v)
          \/ QueryFails(r)
          \/ Fallback(r)
          \/ Store(r)
          \/ ComputeFails(r)
    \/ \E s \in Statements : Insert(s)
    \/ Expire
    \/ InvalidateKey
    \/ Scan
    \/ DeleteScanned
    \/ LrsChange
    \/ RedisChange

Spec == Init /\ [][Next]_vars

(* Requests keep coming and every call of theirs settles.  An entry that   *)
(* is served without being written back reaches its TTL; the others may be *)
(* renewed for ever, so that their expiry is not fair.                     *)
FairSpec ==
    /\ Spec
    /\ \A r \in Requests :
          /\ WF_vars(Lookup(r))
          /\ WF_vars(QueryStep(r))
          /\ WF_vars(Fallback(r))
          /\ WF_vars(Store(r) \/ ComputeFails(r))
    /\ WF_vars(Expire /\ Served(entry))

-----------------------------------------------------------------------------

EntryType ==
    [statements : SUBSET Statements, cursor : 0..clock,
     exists : BOOLEAN, from : 0..MaxInvalidations]

(* Every variable has its type.                                            *)
TypeOK ==
    /\ stored \in [Statements -> 0..clock]
    /\ clock \in Nat
    /\ lrsUp \in BOOLEAN /\ redisUp \in BOOLEAN /\ scanned \in BOOLEAN
    /\ entry \in EntryType
    /\ phase \in [Requests -> {"idle", "querying", "fallback"}]
    /\ cached \in [Requests -> EntryType]
    /\ pending \in [Requests -> SUBSET Verbs]
    /\ got \in [Requests -> SUBSET Statements]
    /\ answer \in [Requests ->
          [kind : {"none", "fresh", "cached", "degraded", "unavailable", "error"},
           statements : SUBSET Statements]]
    /\ before \in [Requests -> SUBSET Statements]
    /\ began \in [Requests -> 0..MaxInvalidations]
    /\ invalidations \in 0..MaxInvalidations

(* A set of statements has s, or s fell to the limit of a query: there are *)
(* as many statements in the set that are no older.                        *)
Accounted(S, s) ==
    \/ s \in S
    \/ Cardinality({t \in S : stored[t] >= stored[s]}) >= MaxStatements

CoversCursor(e) ==
    \A s \in Statements :
        (InRange(stored[s]) /\ stored[s] <= e.cursor) => Accounted(e.statements, s)

(* No statement is lost behind the cursor, but for the limit of a query:   *)
(* the entry, and every copy of it that a request still holds, accounts    *)
(* for all that was stored up to its cursor.  An overlapping request may   *)
(* write an older entry over a newer one, but never one with a hole that   *)
(* no later query would fill.                                              *)
CursorComplete ==
    /\ CoversCursor(entry)
    /\ \A r \in Requests : CoversCursor(cached[r])

(* An answer that comes from the LRS accounts for every statement that was *)
(* there when its request began.                                           *)
FreshAnswersComplete ==
    \A r \in Requests :
        (phase[r] = "idle" /\ answer[r].kind = "fresh")
            => \A s \in before[r] : Accounted(answer[r].statements, s)

(* With a time range that ends in the past, the LRS is asked no more once  *)
(* the cursor has reached the millisecond in which the range ends.  The    *)
(* entry then has statements of the range only, and nothing is missing     *)
(* that was stored before that millisecond or at its start, but for the    *)
(* limit of a query.                                                       *)
RangeReachedIsComplete ==
    (Until # NoUntil /\ entry.cursor # NoCursor /\ Served(entry)) =>
        /\ entry.statements \subseteq Matching
        /\ \A s \in Matching :
              stored[s] <= Parsed(Until) => Accounted(entry.statements, s)

(* Once the LRS stays up, every answer is in the end computed from all the *)
(* statements, but for the limit of a query, whatever Redis does and       *)
(* however requests overlap.                                               *)
Converges ==
    <>[]lrsUp =>
        <>[](\A r \in Requests : phase[r] = "idle" =>
                /\ answer[r].statements \subseteq Matching
                /\ \A s \in Matching : Accounted(answer[r].statements, s))

(* A request is answered, whatever fails.                                  *)
RequestsAnswered ==
    \A r \in Requests : phase[r] # "idle" ~> phase[r] = "idle"

(* REQ-FN-030:25: after an invalidation the next request makes a full      *)
(* fetch.  A request that was under way undoes it: a refresh puts the old  *)
(* entry back, a miss stores what it queried before.  Nothing else does:   *)
(* data from before the last invalidation come back to the cache only if a *)
(* request has had them since then, or has been querying since then.       *)
Old(e) == e.exists /\ e.from < invalidations

Holds(r) ==
    /\ phase[r] = "querying"
    /\ IF cached[r].exists THEN Old(cached[r]) ELSE began[r] < invalidations

InvalidationUndoneOnlyByHolders ==
    [][(~Old(entry) /\ \A r \in Requests : ~Holds(r)) => ~Old(entry)']_vars

=============================================================================
