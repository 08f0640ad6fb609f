--------------------------- MODULE MetricCacheProofs ---------------------------
(***************************************************************************)
(* The safety properties of MetricCache, for any number of requests and    *)
(* statements, any time range and any pattern of failures.                 *)
(*                                                                         *)
(* The completeness properties hold for metrics whose refresh is one       *)
(* snapshot of the LRS (OneSnapshot); the run verb_skew shows that with    *)
(* two verbs they do not.                                                  *)
(***************************************************************************)
EXTENDS MetricCache, FiniteSetTheorems, TLAPS

AnswerType ==
    [kind : {"none", "fresh", "cached", "degraded", "unavailable", "error"},
     statements : SUBSET Statements]

-----------------------------------------------------------------------------
(* The cursor.                                                             *)

(* A bounded set of natural numbers has a largest element: of the finite   *)
(* sets of the elements above one of its elements, a smallest is empty.    *)
LEMMA LargestExists ==
    ASSUME NEW n \in Nat, NEW T \in SUBSET (0..n), T # {}
    PROVE  \E t \in T : \A u \in T : u <= t
<1> DEFINE Above(t) == {u \in T : u > t}
           F == {Above(t) : t \in T}
<1>1. F \subseteq FiniteSubsetsOf(T)
  <2>1. IsFiniteSet(T)
    <3>1. IsFiniteSet(0..n)
      BY FS_Interval
    <3> QED
      BY <3>1, FS_Subset
  <2>2. \A t \in T : Above(t) \in SUBSET T
    OBVIOUS
  <2>3. \A t \in T : IsFiniteSet(Above(t))
    BY <2>1, <2>2, FS_Subset
  <2> QED
    BY <2>2, <2>3 DEF FiniteSubsetsOf
<1>2. PICK S \in F : \A R \in F : <<R, S>> \notin StrictSubsetOrdering(T)
  <2>1. IsWellFoundedOn(StrictSubsetOrdering(T), FiniteSubsetsOf(T))
    BY FS_StrictSubsetOrderingWellFounded
  <2>2. F # {}
    OBVIOUS
  <2> HIDE DEF F
  <2> QED
    BY <1>1, <2>1, <2>2, WFMin
<1>3. PICK t \in T : S = Above(t)
  OBVIOUS
<1>4. ASSUME NEW u \in T, u > t PROVE FALSE
  <2>1. /\ Above(u) \in SUBSET T /\ Above(t) \in SUBSET T
        /\ Above(u) \subseteq Above(t)
        /\ u \in Above(t) /\ u \notin Above(u)
    <3>1. \A w \in T : w \in Nat
      OBVIOUS
    <3>2. t \in Nat /\ u \in Nat
      BY <3>1
    <3>3. \A w \in T : w > u => w > t
      BY <1>4, <3>1, <3>2
    <3>4. u \in Above(t)
      BY <1>4
    <3>5. u \notin Above(u)
      BY <3>2
    <3>6. Above(u) \subseteq Above(t)
      BY <3>3
    <3> QED
      BY <3>4, <3>5, <3>6
  <2>2. <<Above(u), S>> \in StrictSubsetOrdering(T)
    BY <1>3, <2>1 DEF StrictSubsetOrdering
  <2> QED
    BY <1>2, <2>2
<1> QED
  BY <1>4

(* So a set of natural numbers has a smallest: the one that is furthest    *)
(* below some element.                                                     *)
LEMMA SmallestExists ==
    ASSUME NEW V \in SUBSET Nat, V # {}
    PROVE  \E v \in V : \A w \in V : v <= w
<1>1. PICK v0 \in V : TRUE
  OBVIOUS
<1> DEFINE T == {d \in 0..v0 : v0 - d \in V}
<1>2. v0 \in Nat /\ 0 \in T /\ T \in SUBSET (0..v0)
  BY <1>1
<1>3. PICK d \in T : \A u \in T : u <= d
  <2>1. T # {}
    BY <1>2
  <2> HIDE DEF T
  <2> QED
    BY <1>2, <2>1, LargestExists
<1>4. ASSUME NEW w \in V, w < v0 - d PROVE FALSE
  <2>1. v0 - w \in 0..v0 /\ v0 - (v0 - w) = w /\ d < v0 - w
    BY <1>2, <1>3, <1>4
  <2>2. v0 - w \in T
    BY <2>1
  <2> QED
    BY <1>2, <1>3, <2>1, <2>2
<1>5. v0 - d \in V /\ v0 - d \in Nat
  BY <1>2, <1>3
<1>6. \A w \in V : v0 - d <= w
  BY <1>4, <1>5
<1> QED
  BY <1>5, <1>6

(* Parsing a time drops a part of a millisecond.                           *)
LEMMA ParsedIsEarlier ==
    ASSUME NEW t \in Nat
    PROVE  Parsed(t) \in Nat /\ Parsed(t) <= t
<1>1. TicksPerMs \in Nat /\ TicksPerMs > 0
  BY MetricCacheAssumption
<1>2. t % TicksPerMs \in 0..t
  BY <1>1
<1> QED
  BY <1>2 DEF Parsed

(* LatestCursor picks the time of one of the statements.                   *)
LEMMA LatestCursorIsOfAStatement ==
    ASSUME TypeOK, NEW S \in SUBSET Statements
    PROVE  /\ LatestCursor(S) \in 0..clock
           /\ S = {} => LatestCursor(S) = NoCursor
           /\ S # {} => \E s \in S : LatestCursor(S) = stored[s]
<1> DEFINE latest == {s \in S : \A x \in S : Parsed(stored[x]) <= Parsed(stored[s])}
           first == {s \in latest : \A x \in latest : VerbOf[s] <= VerbOf[x]}
           times == {stored[s] : s \in first}
<1>1. /\ clock \in Nat
      /\ \A s \in S : stored[s] \in 0..clock /\ VerbOf[s] \in Nat
  BY MetricCacheAssumption DEF TypeOK
<1>2. CASE S = {}
  BY <1>1, <1>2 DEF LatestCursor, NoCursor
<1>3. CASE S # {}
  <2>1. latest # {}
    <3> DEFINE P == {Parsed(stored[s]) : s \in S}
    <3>1. P \in SUBSET (0..clock)
      <4>1. ASSUME NEW s \in S PROVE Parsed(stored[s]) \in 0..clock
        <5>1. stored[s] \in Nat /\ stored[s] <= clock
          BY <1>1
        <5>2. Parsed(stored[s]) \in Nat /\ Parsed(stored[s]) <= stored[s]
          BY <5>1, ParsedIsEarlier
        <5> QED
          BY <1>1, <5>1, <5>2
      <4> QED
        BY <4>1
    <3>2. P # {}
      BY <1>3
    <3>3. PICK p \in P : \A q \in P : q <= p
      <4> HIDE DEF P
      <4> QED
        BY <1>1, <3>1, <3>2, LargestExists
    <3> QED
      BY <3>3
  <2>2. first # {}
    <3> DEFINE V == {VerbOf[s] : s \in latest}
    <3>1. V \in SUBSET Nat
      BY <1>1
    <3>2. V # {}
      BY <2>1
    <3>3. PICK v \in V : \A w \in V : v <= w
      <4> HIDE DEF V
      <4> QED
        BY <3>1, <3>2, SmallestExists
    <3> QED
      BY <3>3
  <2>3. PICK t \in times : \A u \in times : u <= t
    <3>1. times \in SUBSET (0..clock)
      BY <1>1
    <3>2. times # {}
      BY <2>2
    <3> HIDE DEF times
    <3> QED
      BY <1>1, <3>1, <3>2, LargestExists
  <2>4. LatestCursor(S) \in times
    <3>1. LatestCursor(S) = CHOOSE u \in times : \A s \in first : stored[s] <= u
      BY <1>3 DEF LatestCursor
    <3>2. t \in times /\ \A s \in first : stored[s] <= t
      BY <2>3
    <3> HIDE DEF times, first
    <3> QED
      BY <3>1, <3>2
  <2>5. \A u \in times : \E s \in S : u = stored[s]
    OBVIOUS
  <2> HIDE DEF times
  <2>6. PICK s \in S : LatestCursor(S) = stored[s]
    BY <2>4, <2>5
  <2> QED
    BY <1>1, <1>3, <2>6
<1> QED
  BY <1>2, <1>3

-----------------------------------------------------------------------------
(* Types.                                                                  *)

LEMMA NoEntryTyped == ASSUME TypeOK PROVE NoEntry \in EntryType
BY MetricCacheAssumption DEF TypeOK, NoEntry, EntryType, NoCursor

(* What a request writes to the cache is an entry.                         *)
LEMMA NewEntryTyped ==
    ASSUME TypeOK, NEW r \in Requests
    PROVE  NewEntry(r) \in EntryType
<1>1. /\ cached[r] \in EntryType
      /\ got[r] \in SUBSET Statements
      /\ cached[r].statements \cup got[r] \in SUBSET Statements
      /\ began[r] \in 0..MaxInvalidations
      /\ cached[r].from \in 0..MaxInvalidations
      /\ cached[r].cursor \in 0..clock
  BY DEF TypeOK, EntryType
<1>2. LatestCursor(got[r]) \in 0..clock /\ MergedCursor(r) \in 0..clock
  BY <1>1, LatestCursorIsOfAStatement DEF MergedCursor
<1> QED
  BY <1>1, <1>2 DEF NewEntry, EntryOf, EntryType

(* A response clears what the request has kept.                            *)
LEMMA RespondTyped ==
    ASSUME TypeOK, UNCHANGED clock,
           NEW r \in Requests, NEW a \in AnswerType, Respond(r, a)
    PROVE  /\ phase' \in [Requests -> {"idle", "querying", "fallback"}]
           /\ cached' \in [Requests -> EntryType']
           /\ pending' \in [Requests -> SUBSET Verbs]
           /\ got' \in [Requests -> SUBSET Statements]
           /\ answer' \in [Requests -> AnswerType]
           /\ began' \in [Requests -> 0..MaxInvalidations]
<1>1. EntryType' = EntryType /\ NoEntry \in EntryType
  BY NoEntryTyped DEF EntryType
<1>2. 0 \in 0..MaxInvalidations
  BY MetricCacheAssumption
<1> QED
  BY <1>1, <1>2 DEF TypeOK, Respond, AnswerType

LEMMA InitTyped == Init => TypeOK
<1> SUFFICES ASSUME Init PROVE TypeOK
  OBVIOUS
<1>1. NoEntry \in EntryType
  BY MetricCacheAssumption DEF Init, NoEntry, EntryType, NoCursor
<1>2. NoAnswer \in AnswerType
  BY DEF NoAnswer, Answer, AnswerType
<1>3. /\ answer \in [Requests -> AnswerType]
      /\ cached \in [Requests -> EntryType]
      /\ entry \in EntryType
  BY <1>1, <1>2 DEF Init
<1>4. /\ stored \in [Statements -> 0..clock] /\ clock \in Nat
      /\ invalidations \in 0..MaxInvalidations
      /\ began \in [Requests -> 0..MaxInvalidations]
  BY MetricCacheAssumption DEF Init
<1>5. /\ phase \in [Requests -> {"idle", "querying", "fallback"}]
      /\ pending \in [Requests -> SUBSET Verbs]
      /\ got \in [Requests -> SUBSET Statements]
      /\ before \in [Requests -> SUBSET Statements]
      /\ lrsUp \in BOOLEAN /\ redisUp \in BOOLEAN /\ scanned \in BOOLEAN
  BY DEF Init
<1> QED
  BY <1>3, <1>4, <1>5 DEF TypeOK, AnswerType

(* Every step keeps the types.                                             *)
LEMMA NextTyped == TypeOK /\ [Next]_vars => TypeOK'
<1> SUFFICES ASSUME TypeOK, [Next]_vars PROVE TypeOK'
  OBVIOUS
<1>1. NoEntry \in EntryType /\ Get \in EntryType
  BY NoEntryTyped DEF Get, TypeOK
<1>2. /\ Matching \in SUBSET Statements
      /\ \A r \in Requests : Asked(r) \in SUBSET Statements
  BY DEF Matching, Asked
<1>3. \A r \in Requests :
         /\ cached[r] \in EntryType
         /\ cached[r].statements \in SUBSET Statements
         /\ NewEntry(r) \in EntryType
         /\ NewEntry(r).statements \in SUBSET Statements
         /\ Get.statements \in SUBSET Statements
  BY <1>1, NewEntryTyped DEF TypeOK, EntryType
<1>4. ASSUME NEW S \in SUBSET Statements
      PROVE  \A k \in {"none", "fresh", "cached", "degraded", "unavailable", "error"} :
                Answer(k, S) \in AnswerType
  BY DEF Answer, AnswerType
<1>5. CASE UNCHANGED vars
  BY <1>5
  DEF vars, lrsVars, requestVars, cacheVars, TypeOK, EntryType
<1>6. ASSUME NEW r \in Requests, NEW a \in AnswerType, Respond(r, a),
             UNCHANGED <<lrsVars, redisUp, scanned, invalidations>>,
             entry' \in EntryType,
             before' \in [Requests -> SUBSET Statements]
      PROVE  TypeOK'
  <2>1. UNCHANGED clock
    BY <1>6 DEF lrsVars
  <2>2. EntryType' = EntryType
    BY <2>1 DEF EntryType
  <2> QED
    BY <1>6, <2>1, <2>2, RespondTyped DEF TypeOK, lrsVars, AnswerType
<1>7. ASSUME NEW r \in Requests, Lookup(r) PROVE TypeOK'
  <2>1. /\ UNCHANGED <<lrsVars, redisUp, scanned, invalidations, entry>>
        /\ entry' \in EntryType
        /\ before' \in [Requests -> SUBSET Statements]
    BY <1>2, <1>7 DEF Lookup, cacheVars, TypeOK
  <2>2. CASE Served(Get)
    BY <1>3, <1>4, <1>6, <1>7, <2>1, <2>2 DEF Lookup
  <2>3. CASE ~Served(Get)
    <3>1. EntryType' = EntryType
      BY <2>1 DEF EntryType, lrsVars
    <3>2. /\ phase' = [phase EXCEPT ![r] = "querying"]
          /\ cached' = [cached EXCEPT ![r] = Get]
          /\ pending' = [pending EXCEPT ![r] = Verbs]
          /\ answer' = [answer EXCEPT ![r] = NoAnswer]
          /\ began' = [began EXCEPT ![r] = IF Get.exists THEN 0 ELSE invalidations]
          /\ UNCHANGED got
      BY <1>7, <2>3 DEF Lookup
    <3>3. phase' \in [Requests -> {"idle", "querying", "fallback"}]
      BY <3>2 DEF TypeOK
    <3>4. cached' \in [Requests -> EntryType']
      BY <1>1, <3>1, <3>2 DEF TypeOK
    <3>5. pending' \in [Requests -> SUBSET Verbs]
      BY <3>2 DEF TypeOK
    <3>6. UNCHANGED <<stored, clock, lrsUp, redisUp, scanned, invalidations>>
      BY <2>1 DEF lrsVars
    <3>7. began' \in [Requests -> 0..MaxInvalidations]
      BY <3>2, MetricCacheAssumption DEF TypeOK
    <3>8. answer' \in [Requests -> AnswerType]
      BY <1>4, <3>2 DEF NoAnswer, TypeOK, AnswerType
    <3> QED
      BY <2>1, <3>1, <3>2, <3>3, <3>4, <3>5, <3>6, <3>7, <3>8 DEF TypeOK, AnswerType
  <2> QED
    BY <2>2, <2>3
<1>8. ASSUME NEW r \in Requests, NEW v \in Verbs, Query(r, v) PROVE TypeOK'
  <2>1. EntryType' = EntryType
    BY <1>8 DEF Query, EntryType, lrsVars
  <2>2. PICK K \in Newest({s \in Asked(r) : VerbOf[s] = v}) :
           got' = [got EXCEPT ![r] = @ \cup K]
    BY <1>8 DEF Query
  <2>3. K \in SUBSET Statements
    BY <1>2, <2>2 DEF Newest
  <2> QED
    BY <1>8, <2>1, <2>2, <2>3 DEF Query, TypeOK, lrsVars, cacheVars
<1>9. ASSUME NEW r \in Requests, QueryFails(r) PROVE TypeOK'
  <2>1. /\ UNCHANGED <<lrsVars, redisUp, scanned, invalidations, entry>>
        /\ entry' \in EntryType
        /\ before' \in [Requests -> SUBSET Statements]
    BY <1>9 DEF QueryFails, cacheVars, TypeOK
  <2>2. CASE Respond(r, Answer("cached", cached[r].statements))
    BY <1>3, <1>4, <1>6, <2>1, <2>2
  <2>3. CASE Respond(r, Answer("error", {}))
    BY <1>4, <1>6, <2>1, <2>3
  <2>4. CASE /\ phase' = [phase EXCEPT ![r] = "fallback"]
             /\ pending' = [pending EXCEPT ![r] = {}]
             /\ got' = [got EXCEPT ![r] = {}]
             /\ began' = [began EXCEPT ![r] = 0]
             /\ UNCHANGED <<cached, answer>>
    <3>1. EntryType' = EntryType
      BY <2>1 DEF EntryType, lrsVars
    <3>2. began' \in [Requests -> 0..MaxInvalidations]
      BY <2>4, MetricCacheAssumption DEF TypeOK
    <3> QED
      BY <2>1, <2>4, <3>1, <3>2 DEF TypeOK, lrsVars
  <2> QED
    BY <1>9, <2>2, <2>3, <2>4 DEF QueryFails
<1>10. ASSUME NEW r \in Requests, Fallback(r) PROVE TypeOK'
  <2>1. /\ UNCHANGED <<lrsVars, redisUp, scanned, invalidations, entry>>
        /\ entry' \in EntryType
        /\ before' \in [Requests -> SUBSET Statements]
    BY <1>10 DEF Fallback, cacheVars, TypeOK
  <2>2. FallbackAnswer \in AnswerType
    BY <1>3, <1>4 DEF FallbackAnswer, GetIgnoringExpiry
  <2> QED
    BY <1>6, <1>10, <2>1, <2>2 DEF Fallback
<1>11. ASSUME NEW r \in Requests, Store(r) PROVE TypeOK'
  <2>1. /\ UNCHANGED <<lrsVars, redisUp, scanned, invalidations>>
        /\ entry' \in EntryType
        /\ before' \in [Requests -> SUBSET Statements]
    BY <1>3, <1>11 DEF Store, Set, TypeOK
  <2> QED
    BY <1>3, <1>4, <1>6, <1>11, <2>1 DEF Store
<1>12. ASSUME NEW r \in Requests, ComputeFails(r) PROVE TypeOK'
  <2>1. /\ UNCHANGED <<lrsVars, redisUp, scanned, invalidations, entry>>
        /\ entry' \in EntryType
        /\ before' \in [Requests -> SUBSET Statements]
    BY <1>12 DEF ComputeFails, cacheVars, TypeOK
  <2> QED
    BY <1>4, <1>6, <1>12, <2>1 DEF ComputeFails
<1>13. ASSUME NEW s \in Statements, Insert(s) PROVE TypeOK'
  <2>1. PICK d \in Advances :
           /\ clock' = clock + d
           /\ stored' = [stored EXCEPT ![s] = clock + d]
    BY <1>13 DEF Insert
  <2>2. /\ clock \in Nat /\ clock' \in Nat /\ clock <= clock'
        /\ 0..clock \subseteq 0..clock'
    BY <2>1, MetricCacheAssumption DEF TypeOK
  <2>3. stored' \in [Statements -> 0..clock']
    BY <2>1, <2>2 DEF TypeOK
  <2>4. EntryType \subseteq EntryType'
    BY <2>2 DEF EntryType
  <2> QED
    BY <1>13, <2>2, <2>3, <2>4
    DEF Insert, TypeOK, requestVars, cacheVars
<1>14. ASSUME UNCHANGED <<stored, clock, requestVars>>,
              lrsUp' \in BOOLEAN, redisUp' \in BOOLEAN, scanned' \in BOOLEAN,
              entry' \in {entry, NoEntry},
              invalidations' \in 0..MaxInvalidations
       PROVE  TypeOK'
  BY <1>1, <1>14 DEF TypeOK, EntryType, requestVars
<1>15. CASE Expire
  BY <1>14, <1>15 DEF Expire, TypeOK, lrsVars
<1>16. ASSUME Deleted
       PROVE  entry' = NoEntry /\ invalidations' \in 0..MaxInvalidations
  BY <1>16, MetricCacheAssumption DEF Deleted, TypeOK
<1>17. CASE InvalidateKey
  BY <1>14, <1>16, <1>17 DEF InvalidateKey, TypeOK, lrsVars
<1>18. CASE DeleteScanned
  BY <1>14, <1>16, <1>18 DEF DeleteScanned, TypeOK, lrsVars
<1>19. CASE Scan \/ LrsChange \/ RedisChange
  BY <1>14, <1>19
  DEF Scan, LrsChange, RedisChange, TypeOK, lrsVars, cacheVars
<1> QED
  BY <1>5, <1>7, <1>8, <1>9, <1>10, <1>11, <1>12, <1>13, <1>15, <1>17,
     <1>18, <1>19
  DEF Next

(* Every variable has its type; an entry's cursor is a time that the LRS   *)
(* has given out already.                                                  *)
THEOREM TypeCorrect == Spec => []TypeOK
BY InitTyped, NextTyped, PTL DEF Spec

-----------------------------------------------------------------------------
(* Completeness.                                                           *)

(* All that a refresh asks for is read by one query, and no statement that *)
(* is stored later has the time of one that was read.                      *)
OneSnapshot ==
    /\ \E v : Verbs = {v}
    /\ 0 \notin Advances

(* An entry has matching statements only, and accounts for those up to its *)
(* cursor.                                                                 *)
EntrySound(e) ==
    /\ e.statements \subseteq Matching
    /\ CoversCursor(e)
    /\ ~e.exists => e = NoEntry

(* What a request has got continues the entry it found without a gap, and  *)
(* with it accounts for what was there when it began.                      *)
RequestSound(r) ==
    /\ EntrySound(cached[r])
    /\ got[r] \subseteq Matching
    /\ phase[r] # "querying" => got[r] = {}
    /\ before[r] \subseteq Matching
    /\ \A g \in got[r], s \in Statements :
          (/\ InRange(stored[s])
           /\ cached[r].cursor < stored[s]
           /\ stored[s] <= stored[g]) => Accounted(got[r], s)
    /\ phase[r] = "querying" =>
          \A s \in before[r] :
             VerbOf[s] \notin pending[r] =>
                Accounted(cached[r].statements \cup got[r], s)
    /\ phase[r] = "idle" /\ answer[r].kind = "fresh" =>
          \A s \in before[r] : Accounted(answer[r].statements, s)

IndInv ==
    /\ TypeOK
    /\ EntrySound(entry)
    /\ \A r \in Requests : RequestSound(r)

(* An absent entry has nothing and covers nothing.                         *)
LEMMA NoEntrySound == ASSUME TypeOK PROVE EntrySound(NoEntry)
<1>1. \A s \in Statements : InRange(stored[s]) => ~(stored[s] <= NoCursor)
  BY DEF TypeOK, InRange, NoCursor
<1> QED
  BY <1>1 DEF EntrySound, CoversCursor, NoEntry

(* A larger set accounts for more.                                         *)
LEMMA AccountedGrows ==
    ASSUME NEW S \in SUBSET Statements, NEW T \in SUBSET Statements,
           S \subseteq T, NEW s \in Statements, Accounted(S, s)
    PROVE  Accounted(T, s)
<1> DEFINE Later(R) == {t \in R : stored[t] >= stored[s]}
<1>1. CASE s \in S
  BY <1>1 DEF Accounted
<1>2. CASE Cardinality(Later(S)) >= MaxStatements
  <2>1. IsFiniteSet(T) /\ Later(T) \in SUBSET T
    BY MetricCacheAssumption, FS_Subset
  <2>2. IsFiniteSet(Later(T)) /\ Later(S) \in SUBSET Later(T)
    BY <2>1, FS_Subset
  <2>3. Cardinality(Later(S)) <= Cardinality(Later(T))
    BY <2>2, FS_Subset
  <2>4. IsFiniteSet(Later(S))
    BY <2>2, FS_Subset
  <2>5. Cardinality(Later(S)) \in Nat /\ Cardinality(Later(T)) \in Nat
    BY <2>2, <2>4, FS_CardinalityType
  <2>6. Cardinality(Later(T)) >= MaxStatements
    BY <1>2, <2>3, <2>5, MetricCacheAssumption
  <2> QED
    BY <2>6 DEF Accounted
<1> QED
  BY <1>1, <1>2 DEF Accounted

(* What the LRS stores later changes nothing about that.                   *)
LEMMA AccountedStays ==
    ASSUME TypeOK, NEW S \in SUBSET Statements, NEW s \in Statements,
           stored[s] # 0, \A x \in Statements : stored'[x] \in Nat,
           \A x \in Statements : stored[x] # 0 => stored'[x] = stored[x],
           Accounted(S, s)
    PROVE  \/ s \in S
           \/ Cardinality({t \in S : stored'[t] >= stored'[s]}) >= MaxStatements
<1> DEFINE Later == {t \in S : stored[t] >= stored[s]}
           LaterNow == {t \in S : stored'[t] >= stored'[s]}
<1>1. CASE s \in S
  BY <1>1
<1>2. CASE Cardinality(Later) >= MaxStatements
  <2>1. \A t \in Later : t \in S /\ stored'[t] >= stored'[s]
    <3>1. \A t \in S : stored[t] \in Nat /\ stored[s] \in Nat
      BY DEF TypeOK
    <3> QED
      BY <3>1
  <2>2. IsFiniteSet(S) /\ LaterNow \in SUBSET S /\ Later \in SUBSET LaterNow
    BY <2>1, MetricCacheAssumption, FS_Subset
  <2>3. IsFiniteSet(LaterNow)
    BY <2>2, FS_Subset
  <2>4. IsFiniteSet(Later) /\ Cardinality(Later) <= Cardinality(LaterNow)
    BY <2>2, <2>3, FS_Subset
  <2>5. Cardinality(Later) \in Nat /\ Cardinality(LaterNow) \in Nat
    BY <2>3, <2>4, FS_CardinalityType
  <2>6. Cardinality(LaterNow) >= MaxStatements
    BY <1>2, <2>4, <2>5, MetricCacheAssumption
  <2> QED
    BY <2>6
<1> QED
  BY <1>1, <1>2 DEF Accounted

(* What one query returns accounts for all that it matches.                *)
LEMMA NewestAccounts ==
    ASSUME NEW S \in SUBSET Statements, NEW K \in Newest(S), NEW s \in S
    PROVE  K \in SUBSET S /\ Accounted(K, s)
<1>1. CASE Cardinality(S) <= MaxStatements
  <2>1. K = S
    BY <1>1 DEF Newest
  <2> QED
    BY <2>1 DEF Accounted
<1>2. CASE ~(Cardinality(S) <= MaxStatements)
  <2>1. /\ K \in SUBSET S
        /\ Cardinality(K) = MaxStatements
        /\ \A k \in K, x \in S \ K : stored[x] <= stored[k]
    BY <1>2 DEF Newest
  <2>2. s \notin K => {t \in K : stored[t] >= stored[s]} = K
    BY <2>1
  <2>3. MaxStatements >= MaxStatements
    BY MetricCacheAssumption
  <2> QED
    BY <2>1, <2>2, <2>3 DEF Accounted
<1> QED
  BY <1>1, <1>2

(* The merge of an entry with what a refresh got, or the full result, is   *)
(* again without a hole before its cursor.                                 *)
LEMMA NewEntrySound ==
    ASSUME IndInv, NEW r \in Requests
    PROVE  /\ EntrySound(NewEntry(r))
           /\ NewEntry(r).statements \in SUBSET Statements
           /\ cached[r].statements \cup got[r] \subseteq NewEntry(r).statements
<1> DEFINE old == cached[r]
           S == old.statements \cup got[r]
<1>1. /\ TypeOK /\ RequestSound(r) /\ EntrySound(old)
      /\ S \in SUBSET Statements
      /\ old.statements \in SUBSET Statements /\ got[r] \in SUBSET Statements
      /\ old.cursor \in Nat
      /\ \A s \in Statements : stored[s] \in Nat
  <2>1. TypeOK /\ RequestSound(r) /\ EntrySound(old)
    BY DEF IndInv, RequestSound
  <2>2. /\ old \in EntryType /\ got[r] \in SUBSET Statements
        /\ clock \in Nat /\ \A s \in Statements : stored[s] \in 0..clock
    BY <2>1 DEF TypeOK
  <2>3. old.statements \in SUBSET Statements /\ old.cursor \in 0..clock
    BY <2>2 DEF EntryType
  <2> HIDE DEF old
  <2> QED
    BY <2>1, <2>2, <2>3
<1>2. ASSUME NEW c, c = old.cursor \/ \E g \in got[r] : c = stored[g],
             NEW from
      PROVE  EntrySound(EntryOf(S, c, from))
  <2>1. ASSUME NEW s \in Statements, InRange(stored[s]), stored[s] <= c
        PROVE  Accounted(S, s)
    <3>1. CASE stored[s] <= old.cursor
      <4>1. Accounted(old.statements, s)
        BY <1>1, <2>1, <3>1 DEF EntrySound, CoversCursor
      <4> QED
        BY <1>1, <4>1, AccountedGrows
    <3>2. CASE old.cursor < stored[s]
      <4>1. PICK g \in got[r] : c = stored[g]
        BY <1>1, <1>2, <2>1, <3>2
      <4>2. Accounted(got[r], s)
        BY <1>1, <2>1, <3>2, <4>1 DEF RequestSound
      <4> QED
        BY <1>1, <4>2, AccountedGrows
    <3> QED
      BY <1>1, <3>1, <3>2
  <2>2. S \subseteq Matching
    BY <1>1 DEF RequestSound, EntrySound
  <2>3. EntryOf(S, c, from) = [statements |-> S, cursor |-> c,
                               exists |-> TRUE, from |-> from]
    BY DEF EntryOf
  <2> QED
    BY <2>1, <2>2, <2>3 DEF EntrySound, CoversCursor
<1>3. /\ got[r] = {} => LatestCursor(got[r]) = NoCursor
      /\ got[r] # {} => \E g \in got[r] : LatestCursor(got[r]) = stored[g]
  BY <1>1, LatestCursorIsOfAStatement
<1>4. CASE ~old.exists
  <2>1. old.statements = {} /\ old.cursor = NoCursor /\ got[r] = S
    BY <1>1, <1>4 DEF EntrySound, NoEntry
  <2>2. NewEntry(r) = EntryOf(S, LatestCursor(got[r]), began[r])
    BY <1>4, <2>1 DEF NewEntry
  <2> QED
    BY <1>1, <1>2, <1>3, <2>1, <2>2 DEF EntryOf
<1>5. CASE old.exists /\ got[r] = {}
  BY <1>1, <1>5 DEF NewEntry
<1>6. CASE old.exists /\ got[r] # {}
  <2>1. MergedCursor(r) = old.cursor \/ \E g \in got[r] : MergedCursor(r) = stored[g]
    BY <1>3, <1>6 DEF MergedCursor
  <2>2. NewEntry(r) = EntryOf(S, MergedCursor(r), old.from)
    BY <1>6 DEF NewEntry
  <2> QED
    BY <1>1, <1>2, <2>1, <2>2 DEF EntryOf
<1> QED
  BY <1>4, <1>5, <1>6

(* A request that takes no part in a step stays sound while the LRS has    *)
(* the same statements.                                                    *)
LEMMA OthersSound ==
    ASSUME UNCHANGED stored, NEW q, RequestSound(q),
           UNCHANGED <<phase[q], cached[q], pending[q], got[q], answer[q],
                       before[q]>>
    PROVE  RequestSound(q)'
BY DEF RequestSound, EntrySound, CoversCursor, Accounted, Matching, InRange

(* The same for the entry.                                                 *)
LEMMA EntryUnaffected ==
    ASSUME TypeOK, UNCHANGED stored, EntrySound(entry),
           entry' \in {entry, NoEntry}
    PROVE  EntrySound(entry)'
<1>1. EntrySound(NoEntry)
  BY NoEntrySound
<1>2. CASE entry' = entry
  BY <1>1, <1>2 DEF EntrySound, CoversCursor, Accounted, Matching, InRange
<1>3. CASE entry' = NoEntry
  BY <1>1, <1>3 DEF EntrySound, CoversCursor, Accounted, Matching, InRange
<1> QED
  BY <1>2, <1>3

(* A request that answers holds nothing any more.                          *)
LEMMA RespondSound ==
    ASSUME IndInv, UNCHANGED stored,
           NEW r \in Requests, NEW a, Respond(r, a),
           before'[r] \subseteq Matching,
           \A q \in Requests \ {r} : before'[q] = before[q],
           a.kind = "fresh" => \A s \in before'[r] : Accounted(a.statements, s)
    PROVE  \A q \in Requests : RequestSound(q)'
<1>1. ASSUME NEW q \in Requests, q # r PROVE RequestSound(q)'
  BY <1>1, OthersSound DEF IndInv, TypeOK, Respond
<1>2. RequestSound(r)'
  <2>1. /\ phase'[r] = "idle" /\ cached'[r] = NoEntry /\ got'[r] = {}
        /\ answer'[r] = a
    BY DEF IndInv, TypeOK, Respond
  <2>2. EntrySound(NoEntry)
    BY NoEntrySound DEF IndInv
  <2> QED
    BY <2>1, <2>2
    DEF RequestSound, EntrySound, CoversCursor, Accounted, Matching, InRange
<1> QED
  BY <1>1, <1>2

(* The request that begins finds an entry, or none, that is sound.         *)
LEMMA LookupSound ==
    ASSUME IndInv, NEW r \in Requests, Lookup(r)
    PROVE  EntrySound(entry)' /\ \A q \in Requests : RequestSound(q)'
<1>1. /\ UNCHANGED stored /\ entry' = entry
      /\ before'[r] = Matching
      /\ \A q \in Requests \ {r} : before'[q] = before[q]
  BY DEF Lookup, lrsVars, cacheVars, IndInv, TypeOK
<1>2. EntrySound(entry)'
  BY <1>1, EntryUnaffected DEF IndInv
<1>3. CASE Served(Get)
  <2>1. Respond(r, Answer("cached", Get.statements))
    BY <1>3 DEF Lookup
  <2>2. Answer("cached", Get.statements).kind # "fresh"
    BY DEF Answer
  <2> QED
    BY <1>1, <1>2, <2>1, <2>2, RespondSound
<1>4. CASE ~Served(Get)
  <2>1. /\ phase' = [phase EXCEPT ![r] = "querying"]
        /\ cached' = [cached EXCEPT ![r] = Get]
        /\ pending' = [pending EXCEPT ![r] = Verbs]
        /\ answer' = [answer EXCEPT ![r] = NoAnswer]
        /\ UNCHANGED got
    BY <1>4 DEF Lookup
  <2>2. ASSUME NEW q \in Requests, q # r PROVE RequestSound(q)'
    BY <1>1, <2>1, <2>2, OthersSound DEF IndInv, TypeOK
  <2>3. EntrySound(Get)
    BY NoEntrySound DEF IndInv, Get
  <2>4. /\ phase'[r] = "querying" /\ cached'[r] = Get
        /\ pending'[r] = Verbs /\ got'[r] = {}
    BY <2>1 DEF IndInv, TypeOK, Lookup, RequestSound
  <2>5. RequestSound(r)'
    <3>1. /\ Matching' = Matching
          /\ \A s \in Matching : VerbOf[s] \in Verbs
          /\ \A s \in Statements : stored'[s] = stored[s]
      BY <1>1, MetricCacheAssumption DEF Matching, InRange
    <3>2. EntrySound(cached[r])'
      BY <1>1, <2>3, <2>4
      DEF EntrySound, CoversCursor, Accounted, Matching, InRange
    <3> QED
      BY <1>1, <2>4, <3>1, <3>2 DEF RequestSound
  <2> QED
    BY <1>2, <2>2, <2>5
<1> QED
  BY <1>3, <1>4

(* One query that reads all that is newer than the cursor.                 *)
LEMMA QuerySound ==
    ASSUME IndInv, OneSnapshot, NEW r \in Requests, NEW v \in Verbs, Query(r, v)
    PROVE  EntrySound(entry)' /\ \A q \in Requests : RequestSound(q)'
<1>1. /\ UNCHANGED <<stored, phase, cached, answer, before>>
      /\ entry' = entry
      /\ phase[r] = "querying"
      /\ pending' = [pending EXCEPT ![r] = @ \ {v}]
  BY DEF Query, lrsVars, cacheVars
<1>2. PICK K \in Newest(Asked(r)) : got' = [got EXCEPT ![r] = @ \cup K]
  <2>1. \A s \in Statements : VerbOf[s] = v
    BY MetricCacheAssumption DEF OneSnapshot
  <2>2. {s \in Asked(r) : VerbOf[s] = v} = Asked(r)
    BY <2>1 DEF Asked, Matching
  <2> QED
    BY <2>2 DEF Query
<1>3. /\ Asked(r) \in SUBSET Statements /\ K \in SUBSET Asked(r)
      /\ \A s \in Asked(r) : Accounted(K, s)
  <2>1. Asked(r) \in SUBSET Statements
    BY DEF Asked, Matching
  <2>2. K \in SUBSET Asked(r)
    BY <1>2 DEF Newest
  <2> QED
    BY <1>2, <2>1, <2>2, NewestAccounts
<1>4. EntrySound(entry)'
  BY <1>1, EntryUnaffected DEF IndInv
<1>5. ASSUME NEW q \in Requests, q # r PROVE RequestSound(q)'
  BY <1>1, <1>2, <1>5, OthersSound DEF IndInv, TypeOK
<1>6. RequestSound(r)'
  <2>1. /\ RequestSound(r)
        /\ got'[r] = got[r] \cup K
        /\ cached'[r] = cached[r] /\ phase'[r] = "querying"
        /\ before'[r] = before[r]
        /\ Matching' = Matching
    BY <1>1, <1>2 DEF IndInv, TypeOK, Matching, InRange
  <2>2. EntrySound(cached[r])'
    BY <1>1, <2>1 DEF RequestSound, EntrySound, CoversCursor, Accounted, InRange
  <2>3. got'[r] \subseteq Matching' /\ got'[r] \in SUBSET Statements
    BY <1>3, <2>1 DEF RequestSound, Asked, Matching
  <2>4. ASSUME NEW s \in Statements, InRange(stored[s]),
               cached[r].cursor < stored[s]
        PROVE  Accounted(got'[r], s)
    <3>1. /\ cached[r].cursor \in Nat
          /\ stored[s] \in Nat
      BY DEF IndInv, TypeOK, EntryType
    <3>2. s \in Asked(r)
      BY <2>4, <3>1 DEF Asked, Matching
    <3>3. Accounted(K, s) /\ K \in SUBSET Statements /\ K \subseteq got'[r]
      BY <1>3, <2>1, <3>2
    <3> QED
      BY <2>3, <3>3, AccountedGrows
  <2>5. ASSUME NEW s \in before[r]
        PROVE  Accounted(cached[r].statements \cup got'[r], s)
    <3> DEFINE S == cached[r].statements \cup got'[r]
    <3>1. /\ cached[r].cursor \in Nat
          /\ s \in Statements /\ InRange(stored[s]) /\ stored[s] \in Nat
          /\ cached[r].statements \in SUBSET Statements
          /\ S \in SUBSET Statements
      BY <2>1, <2>3 DEF IndInv, TypeOK, EntryType, RequestSound, Matching
    <3>2. CASE stored[s] <= cached[r].cursor
      <4>1. Accounted(cached[r].statements, s)
        BY <2>1, <3>1, <3>2 DEF RequestSound, EntrySound, CoversCursor
      <4> QED
        BY <3>1, <4>1, AccountedGrows
    <3>3. CASE cached[r].cursor < stored[s]
      <4>1. Accounted(got'[r], s)
        BY <2>4, <3>1, <3>3
      <4> QED
        BY <2>3, <3>1, <4>1, AccountedGrows
    <3> QED
      BY <3>1, <3>2, <3>3
  <2>6. UNCHANGED stored
    BY <1>1
  <2>7. ASSUME NEW s \in Statements, NEW S, Accounted(S, s)
        PROVE  \/ s \in S
               \/ Cardinality({t \in S : stored'[t] >= stored'[s]}) >= MaxStatements
    BY <2>6, <2>7 DEF Accounted
  <2>8. /\ before[r] \subseteq Matching'
        /\ \A s \in before[r] : s \in Statements
    BY <2>1 DEF RequestSound, Matching
  <2> QED
    BY <2>1, <2>2, <2>3, <2>4, <2>5, <2>6, <2>7, <2>8
    DEF RequestSound, InRange, Accounted
<1> QED
  BY <1>4, <1>5, <1>6

(* A query that fails leaves a request with the entry it had found, or     *)
(* with nothing.                                                           *)
LEMMA QueryFailsSound ==
    ASSUME IndInv, NEW r \in Requests, QueryFails(r)
    PROVE  EntrySound(entry)' /\ \A q \in Requests : RequestSound(q)'
<1>1. UNCHANGED <<stored, before>> /\ entry' = entry
  BY DEF QueryFails, lrsVars, cacheVars
<1>2. EntrySound(entry)'
  BY <1>1, EntryUnaffected DEF IndInv
<1>3. ASSUME NEW a, a.kind # "fresh", Respond(r, a)
      PROVE  \A q \in Requests : RequestSound(q)'
  BY <1>1, <1>3, RespondSound DEF IndInv, RequestSound
<1>4. /\ Answer("cached", cached[r].statements).kind # "fresh"
      /\ Answer("error", {}).kind # "fresh"
  BY DEF Answer
<1>5. CASE /\ phase' = [phase EXCEPT ![r] = "fallback"]
           /\ pending' = [pending EXCEPT ![r] = {}]
           /\ got' = [got EXCEPT ![r] = {}]
           /\ began' = [began EXCEPT ![r] = 0]
           /\ UNCHANGED <<cached, answer>>
  <2>1. ASSUME NEW q \in Requests, q # r PROVE RequestSound(q)'
    BY <1>1, <1>5, <2>1, OthersSound DEF IndInv, TypeOK
  <2>2. RequestSound(r)'
    <3>1. /\ phase'[r] = "fallback" /\ got'[r] = {}
          /\ cached'[r] = cached[r] /\ before'[r] = before[r]
          /\ RequestSound(r)
      BY <1>1, <1>5 DEF IndInv, TypeOK
    <3> QED
      BY <1>1, <3>1
      DEF RequestSound, EntrySound, CoversCursor, Accounted, Matching, InRange
  <2> QED
    BY <1>2, <2>1, <2>2
<1> QED
  BY <1>2, <1>3, <1>4, <1>5 DEF QueryFails

(* What is stored has no hole, and what is answered misses nothing that    *)
(* was there when the request began.                                       *)
LEMMA StoreSound ==
    ASSUME IndInv, NEW r \in Requests, Store(r)
    PROVE  EntrySound(entry)' /\ \A q \in Requests : RequestSound(q)'
<1>1. /\ UNCHANGED <<stored, before>>
      /\ phase[r] = "querying" /\ pending[r] = {}
      /\ entry' \in {entry, NewEntry(r)}
      /\ Respond(r, Answer("fresh", NewEntry(r).statements))
  BY DEF Store, Set, lrsVars
<1>2. /\ EntrySound(NewEntry(r))
      /\ NewEntry(r).statements \in SUBSET Statements
      /\ cached[r].statements \cup got[r] \subseteq NewEntry(r).statements
  BY NewEntrySound
<1>3. EntrySound(entry)'
  BY <1>1, <1>2
  DEF IndInv, EntrySound, CoversCursor, Accounted, Matching, InRange
<1>4. ASSUME NEW s \in before[r]
      PROVE  Accounted(Answer("fresh", NewEntry(r).statements).statements, s)
  <2>1. /\ Accounted(cached[r].statements \cup got[r], s)
        /\ s \in Statements
        /\ cached[r].statements \cup got[r] \in SUBSET Statements
    BY <1>1, <1>2 DEF IndInv, RequestSound, Matching
  <2>2. Accounted(NewEntry(r).statements, s)
    BY <1>2, <2>1, AccountedGrows
  <2> QED
    BY <2>2 DEF Answer
<1> HIDE DEF Answer
<1> QED
  BY <1>1, <1>3, <1>4, RespondSound DEF IndInv, RequestSound

(* The other ends of a request.                                            *)
LEMMA EndsSound ==
    ASSUME IndInv, NEW r \in Requests, Fallback(r) \/ ComputeFails(r)
    PROVE  EntrySound(entry)' /\ \A q \in Requests : RequestSound(q)'
<1>1. UNCHANGED <<stored, before>> /\ entry' = entry
  BY DEF Fallback, ComputeFails, lrsVars, cacheVars
<1>2. EntrySound(entry)'
  BY <1>1, EntryUnaffected DEF IndInv
<1>3. ASSUME NEW a, a.kind # "fresh", Respond(r, a)
      PROVE  \A q \in Requests : RequestSound(q)'
  BY <1>1, <1>3, RespondSound DEF IndInv, RequestSound
<1>4. FallbackAnswer.kind # "fresh" /\ Answer("error", {}).kind # "fresh"
  BY DEF FallbackAnswer, Answer
<1>5. CASE Fallback(r)
  <2>1. Respond(r, FallbackAnswer)
    BY <1>5 DEF Fallback
  <2> QED
    BY <1>2, <1>3, <1>4, <2>1
<1>6. CASE ComputeFails(r)
  <2>1. Respond(r, Answer("error", {}))
    BY <1>6 DEF ComputeFails
  <2> QED
    BY <1>2, <1>3, <1>4, <2>1
<1> QED
  BY <1>5, <1>6

(* A statement that the LRS stores is later than every cursor, so that it  *)
(* is behind none.                                                         *)
LEMMA InsertSound ==
    ASSUME IndInv, OneSnapshot, NEW s \in Statements, Insert(s)
    PROVE  EntrySound(entry)' /\ \A q \in Requests : RequestSound(q)'
<1>1. PICK d \in Advances :
         /\ stored[s] = 0
         /\ clock' = clock + d
         /\ stored' = [stored EXCEPT ![s] = clock + d]
         /\ UNCHANGED <<requestVars, cacheVars>>
  BY DEF Insert
<1>2. /\ clock \in Nat /\ clock + d \in Nat /\ clock < clock + d
  BY MetricCacheAssumption DEF OneSnapshot, IndInv, TypeOK
<1>3. /\ stored'[s] = clock + d
      /\ \A x \in Statements \ {s} : stored'[x] = stored[x]
      /\ \A x \in Statements : stored[x] \in 0..clock
  BY <1>1 DEF IndInv, TypeOK
<1>4. \A x \in Matching :
         x \in Statements /\ x # s /\ stored'[x] = stored[x] /\ x \in Matching'
  BY <1>1, <1>3 DEF Matching, InRange
<1>5. \A x \in Statements :
         stored'[x] <= clock /\ InRange(stored[x])' =>
            stored'[x] = stored[x] /\ InRange(stored[x])
  BY <1>2, <1>3 DEF InRange
<1>6. UNCHANGED <<entry, phase, cached, pending, got, answer, before>>
  BY <1>1 DEF requestVars, cacheVars
<1>7. ASSUME NEW x \in Statements, x # s, stored[x] # 0,
             NEW S \in SUBSET Statements, Accounted(S, x)
      PROVE  \/ x \in S
             \/ Cardinality({t \in S : stored'[t] >= stored'[x]}) >= MaxStatements
  <2>1. \A y \in Statements : stored'[y] \in Nat
    BY <1>2, <1>3
  <2>2. \A y \in Statements : stored[y] # 0 => stored'[y] = stored[y]
    BY <1>1, <1>3
  <2> QED
    BY <1>7, <2>1, <2>2, AccountedStays DEF IndInv
<1>8. ASSUME NEW e, e \in EntryType, EntrySound(e)
      PROVE  /\ e.statements \subseteq Matching'
             /\ \A x \in Statements :
                   (InRange(stored[x])' /\ stored'[x] <= e.cursor) =>
                      \/ x \in e.statements
                      \/ Cardinality({t \in e.statements : stored'[t] >= stored'[x]})
                            >= MaxStatements
             /\ ~e.exists => e = NoEntry
  <2>1. e.cursor \in 0..clock /\ e.statements \in SUBSET Statements
    BY <1>8 DEF EntryType
  <2>2. e.statements \subseteq Matching'
    BY <1>4, <1>8 DEF EntrySound
  <2>3. ASSUME NEW x \in Statements, InRange(stored[x])', stored'[x] <= e.cursor
        PROVE  \/ x \in e.statements
               \/ Cardinality({t \in e.statements : stored'[t] >= stored'[x]})
                     >= MaxStatements
    <3>1. stored'[x] <= clock /\ x # s
      BY <1>2, <1>3, <2>1, <2>3
    <3>2. stored'[x] = stored[x] /\ InRange(stored[x]) /\ stored[x] # 0
      BY <1>5, <2>3, <3>1 DEF InRange
    <3>3. Accounted(e.statements, x)
      BY <1>8, <2>3, <3>2 DEF EntrySound, CoversCursor
    <3> QED
      BY <1>7, <2>1, <3>1, <3>2, <3>3
  <2> QED
    BY <1>8, <2>2, <2>3 DEF EntrySound
<1>9. EntrySound(entry)'
  <2>1. entry \in EntryType /\ EntrySound(entry)
    BY DEF IndInv, TypeOK
  <2> QED
    BY <1>6, <1>8, <2>1 DEF EntrySound, CoversCursor, Accounted, NoEntry, NoCursor
<1>10. ASSUME NEW q \in Requests PROVE RequestSound(q)'
  <2>1. /\ RequestSound(q) /\ EntrySound(cached[q])
        /\ cached[q] \in EntryType /\ cached[q].cursor \in 0..clock
        /\ cached[q].statements \in SUBSET Statements
        /\ got[q] \in SUBSET Statements
        /\ answer[q].statements \in SUBSET Statements
    BY DEF IndInv, TypeOK, EntryType, RequestSound
  <2>2. EntrySound(cached[q])'
    BY <1>6, <1>8, <2>1 DEF EntrySound, CoversCursor, Accounted, NoEntry, NoCursor
  <2>3. got[q] \subseteq Matching' /\ before[q] \subseteq Matching'
    BY <1>4, <2>1 DEF RequestSound
  <2>4. ASSUME NEW g \in got[q], NEW x \in Statements,
               InRange(stored[x])', cached[q].cursor < stored'[x],
               stored'[x] <= stored'[g]
        PROVE  \/ x \in got[q]
               \/ Cardinality({t \in got[q] : stored'[t] >= stored'[x]})
                     >= MaxStatements
    <3>1. g \in Statements /\ stored'[g] = stored[g] /\ stored[g] <= clock
      BY <1>2, <1>3, <1>4, <2>1 DEF RequestSound
    <3>2. stored'[x] <= clock /\ x # s
      BY <1>2, <1>3, <2>4, <3>1
    <3>3. stored'[x] = stored[x] /\ InRange(stored[x]) /\ stored[x] # 0
      BY <1>5, <2>4, <3>2 DEF InRange
    <3>4. Accounted(got[q], x)
      BY <2>1, <2>4, <3>1, <3>3 DEF RequestSound
    <3> QED
      BY <1>7, <2>1, <3>2, <3>3, <3>4
  <2>5. ASSUME NEW x \in before[q], NEW S \in SUBSET Statements, Accounted(S, x)
        PROVE  \/ x \in S
               \/ Cardinality({t \in S : stored'[t] >= stored'[x]}) >= MaxStatements
    <3>1. x \in Statements /\ x # s /\ stored[x] # 0
      BY <1>1, <1>4, <2>1 DEF RequestSound, Matching, InRange
    <3> QED
      BY <1>7, <2>5, <3>1
  <2>6. cached[q].statements \cup got[q] \in SUBSET Statements
    BY <2>1
  <2> QED
    BY <1>6, <2>1, <2>2, <2>3, <2>4, <2>5, <2>6 DEF RequestSound, Accounted
<1> QED
  BY <1>9, <1>10

(* Expiry, invalidation and the comings and goings of Redis and the LRS.   *)
LEMMA WorldSound ==
    ASSUME IndInv,
           \/ Expire \/ InvalidateKey \/ Scan \/ DeleteScanned
           \/ LrsChange \/ RedisChange \/ UNCHANGED vars
    PROVE  EntrySound(entry)' /\ \A q \in Requests : RequestSound(q)'
<1>1. UNCHANGED <<stored, requestVars>> /\ entry' \in {entry, NoEntry}
  BY DEF Expire, InvalidateKey, Scan, DeleteScanned, Deleted, LrsChange,
         RedisChange, vars, lrsVars, cacheVars
<1>2. EntrySound(entry)'
  BY <1>1, EntryUnaffected DEF IndInv
<1>3. ASSUME NEW q \in Requests PROVE RequestSound(q)'
  BY <1>1, OthersSound DEF IndInv, requestVars
<1> QED
  BY <1>2, <1>3

LEMMA NextSound == OneSnapshot /\ IndInv /\ [Next]_vars => IndInv'
<1> SUFFICES ASSUME OneSnapshot, IndInv, [Next]_vars PROVE IndInv'
  OBVIOUS
<1>1. TypeOK'
  BY NextTyped DEF IndInv
<1>2. EntrySound(entry)' /\ \A q \in Requests : RequestSound(q)'
  BY LookupSound, QuerySound, QueryFailsSound, StoreSound, EndsSound,
     InsertSound, WorldSound
  DEF Next
<1> QED
  BY <1>1, <1>2 DEF IndInv

LEMMA InitSound == Init => IndInv
<1> SUFFICES ASSUME Init PROVE IndInv
  OBVIOUS
<1>1. TypeOK /\ EntrySound(NoEntry)
  BY InitTyped, NoEntrySound
<1>2. EntrySound(entry)
  BY <1>1 DEF Init
<1>3. ASSUME NEW r \in Requests PROVE RequestSound(r)
  <2>1. /\ phase[r] = "idle" /\ cached[r] = NoEntry /\ got[r] = {}
        /\ answer[r].kind = "none" /\ before[r] = {}
    BY DEF Init, NoAnswer, Answer
  <2> QED
    BY <1>1, <2>1 DEF RequestSound
<1> QED
  BY <1>1, <1>2, <1>3 DEF IndInv

LEMMA Soundness == OneSnapshot => (Spec => []IndInv)
<1> SUFFICES ASSUME OneSnapshot PROVE Spec => []IndInv
  OBVIOUS
<1>1. IndInv /\ [Next]_vars => IndInv'
  BY NextSound
<1> QED
  BY <1>1, InitSound, PTL DEF Spec

-----------------------------------------------------------------------------
(* What follows from the invariant.                                        *)

(* No statement is lost behind a cursor but to the limit of a query,       *)
(* however refreshes overlap, whatever is written over what, and whenever  *)
(* entries are dropped.                                                    *)
THEOREM NoHoleBehindTheCursor == OneSnapshot => (Spec => []CursorComplete)
<1> SUFFICES ASSUME OneSnapshot PROVE Spec => []CursorComplete
  OBVIOUS
<1>1. IndInv => CursorComplete
  BY DEF IndInv, RequestSound, EntrySound, CursorComplete
<1> QED
  BY <1>1, Soundness, PTL

(* An answer computed for a request accounts for every statement that the  *)
(* LRS had when the request began.                                         *)
THEOREM FreshIsComplete == OneSnapshot => (Spec => []FreshAnswersComplete)
<1> SUFFICES ASSUME OneSnapshot PROVE Spec => []FreshAnswersComplete
  OBVIOUS
<1>1. IndInv => FreshAnswersComplete
  BY DEF IndInv, RequestSound, FreshAnswersComplete
<1> QED
  BY <1>1, Soundness, PTL

(* An entry that is served without asking the LRS, because its cursor has  *)
(* reached the millisecond in which the time range ends, accounts for      *)
(* every statement that was stored no later than the start of it.          *)
THEOREM ReachedIsComplete == OneSnapshot => (Spec => []RangeReachedIsComplete)
<1> SUFFICES ASSUME OneSnapshot PROVE Spec => []RangeReachedIsComplete
  OBVIOUS
<1>1. IndInv => RangeReachedIsComplete
  <2> SUFFICES ASSUME IndInv, Until # NoUntil, entry.cursor # NoCursor,
                      Served(entry), NEW s \in Matching,
                      stored[s] <= Parsed(Until)
               PROVE  Accounted(entry.statements, s)
    BY DEF IndInv, EntrySound, RangeReachedIsComplete
  <2>1. /\ Until \in Nat /\ entry.cursor \in Nat
        /\ s \in Statements /\ InRange(stored[s]) /\ stored[s] \in Nat
    BY MetricCacheAssumption DEF IndInv, TypeOK, EntryType, Matching
  <2>2. /\ Parsed(Until) \in Nat
        /\ Parsed(entry.cursor) \in Nat /\ Parsed(entry.cursor) <= entry.cursor
    BY <2>1, ParsedIsEarlier
  <2>3. ~(Parsed(entry.cursor) < Parsed(Until))
    BY DEF Served
  <2>4. stored[s] <= entry.cursor
    BY <2>1, <2>2, <2>3
  <2> QED
    BY <2>1, <2>4 DEF IndInv, EntrySound, CoversCursor
<1> QED
  BY <1>1, Soundness, PTL

(* Data from before an invalidation come back to the cache only from a     *)
(* request that has had them, or has been querying, ever since, for        *)
(* metrics of any number of verbs.                                         *)
THEOREM OnlyHoldersUndo == Spec => InvalidationUndoneOnlyByHolders
<1>1. TypeOK /\ [Next]_vars =>
        [(~Old(entry) /\ \A r \in Requests : ~Holds(r)) => ~Old(entry)']_vars
  <2> SUFFICES ASSUME TypeOK, Next, ~Old(entry), \A r \in Requests : ~Holds(r)
               PROVE  ~Old(entry)'
    OBVIOUS
  <2>1. CASE entry' = NoEntry
    BY <2>1 DEF Old, NoEntry
  <2>2. CASE UNCHANGED <<entry, invalidations>>
    BY <2>2 DEF Old
  <2>3. ASSUME NEW r \in Requests, Store(r) PROVE ~Old(entry)'
    <3>1. UNCHANGED invalidations /\ entry' \in {entry, NewEntry(r)}
      BY <2>3 DEF Store, Set
    <3>2. CASE entry' = entry
      BY <2>2, <3>1, <3>2
    <3>3. CASE entry' = NewEntry(r)
      <4>1. phase[r] = "querying" /\ ~Holds(r)
        BY <2>3 DEF Store
      <4>2. CASE cached[r].exists
        <5>1. ~(cached[r].from < invalidations)
          BY <4>1, <4>2 DEF Holds, Old
        <5>2. NewEntry(r).from = cached[r].from
          BY <4>2 DEF NewEntry, EntryOf
        <5> QED
          BY <3>1, <3>3, <5>1, <5>2 DEF Old
      <4>3. CASE ~cached[r].exists
        <5>1. ~(began[r] < invalidations)
          BY <4>1, <4>3 DEF Holds
        <5>2. NewEntry(r).from = began[r]
          BY <4>3 DEF NewEntry, EntryOf
        <5> QED
          BY <3>1, <3>3, <5>1, <5>2 DEF Old
      <4> QED
        BY <4>2, <4>3
    <3> QED
      BY <3>1, <3>2, <3>3
  <2> QED
    BY <2>1, <2>2, <2>3
    DEF Next, Lookup, Query, QueryFails, Fallback, ComputeFails, Insert,
        Expire, InvalidateKey, Scan, DeleteScanned, Deleted, LrsChange,
        RedisChange, cacheVars
<1> QED
  BY <1>1, TypeCorrect, PTL DEF Spec, InvalidationUndoneOnlyByHolders

=============================================================================
