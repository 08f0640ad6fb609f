------------------------------- MODULE CacheKeys -------------------------------
(***************************************************************************)
(* The keys under which metric results are cached and the patterns that    *)
(* name many of them (data-access/utils/cache-key.util.ts), with the       *)
(* parameters that ComputationService puts into a key.                     *)
(*                                                                         *)
(* A text is a sequence of tokens: the delimiters, and runs of other       *)
(* characters, which nothing here looks into.  A missing or empty          *)
(* parameter is the empty text.                                            *)
(***************************************************************************)
EXTENDS Integers, Sequences, SequencesExt, FiniteSets, TLC

CONSTANTS
    Tokens,     \* what texts consist of
    Escape      \* encodeURIComponent, of the tokens that values consist of

Colon == ":"
Comma == ","
Equals == "="
Star == "*"
Empty == <<>>

ASSUME CacheKeysAssumption ==
    /\ {Colon, Comma, Equals, Star, "cache", "v1", "default", "course", "topic",
        "element", "global", "courseId", "elementId", "groupId", "since",
        "topicId", "until", "userId"} \subseteq Tokens
    /\ Colon \in DOMAIN Escape /\ DOMAIN Escape \subseteq Tokens
    /\ \A t \in DOMAIN Escape : Escape[t] \in Tokens \ {Colon, Comma, Equals}
    /\ \A t, u \in DOMAIN Escape : Escape[t] = Escape[u] => t = u

(* Every character that means something in a URL is encoded, the percent   *)
(* sign of what is encoded already among them: no two texts become one.    *)
Encoded(text) == [i \in DOMAIN text |-> Escape[text[i]]]

\* Mutant of EncodedValue: values are written as they are.
EncodedNever(value) == value

(* Only a value with a colon is encoded, but then all of it.               *)
EncodedValue(value) == IF Contains(value, Colon) THEN Encoded(value) ELSE value

-----------------------------------------------------------------------------
(* Array.join.                                                             *)

Joined(texts, delimiter) ==
    FlattenSeq([i \in DOMAIN texts |->
        IF i = 1 THEN texts[i] ELSE <<delimiter>> \o texts[i]])

-----------------------------------------------------------------------------
(* ComputationService.generateCacheKey: scope, instance and filters.       *)

DefaultInstance == <<"default">>

InstanceOf(p) == IF p.instanceId = Empty THEN DefaultInstance ELSE p.instanceId

Scope(p) ==
    CASE p.courseId # Empty -> "course"
      [] p.courseId = Empty /\ p.topicId # Empty -> "topic"
      [] p.courseId = Empty /\ p.topicId = Empty /\ p.elementId # Empty -> "element"
      [] OTHER -> "global"

FilterNames ==
    <<"courseId", "elementId", "groupId", "since", "topicId", "until", "userId">>

\* Mutants of KeyFilters: one parameter is forgotten.
KeyFiltersWithoutUser(p) ==
    SelectSeq(FilterNames, LAMBDA name : name # "userId" /\ p[name] # Empty)
KeyFiltersWithoutUntil(p) ==
    SelectSeq(FilterNames, LAMBDA name : name # "until" /\ p[name] # Empty)

(* The names of the filters of a key, sorted.                              *)
KeyFilters(p) ==
    FlattenSeq([i \in DOMAIN FilterNames |->
        IF p[FilterNames[i]] # Empty THEN <<FilterNames[i]>> ELSE <<>>])

FilterSegment(p) ==
    Joined([i \in DOMAIN KeyFilters(p) |->
               <<KeyFilters(p)[i], Equals>> \o EncodedValue(p[KeyFilters(p)[i]])],
           Comma)

(* Without filters the key has one segment less.                           *)
GenerateCacheKey(metricId, p) ==
    Joined(<< <<"cache">>, <<metricId>>, InstanceOf(p), <<Scope(p)>> >>
               \o (IF FilterSegment(p) = Empty THEN <<>> ELSE <<FilterSegment(p)>>)
               \o << <<"v1">> >>,
           Colon)

(* Always six segments.                                                    *)
GenerateCacheKeyPattern(metricId, instanceId) ==
    Joined(<< <<"cache">>, <<metricId>>, instanceId, <<Star>>, <<Star>>, <<Star>> >>,
           Colon)

(* Redis' glob matching, of patterns whose only wildcard is the star: the  *)
(* positions of the text that the pattern can have reached, token by token. *)
GlobMatches(pattern, text) ==
    LET reached[n \in 0..Len(pattern)] ==
            IF n = 0 THEN {0}
            ELSE LET known == reached[n - 1]
                 IN  IF pattern[n] = Star THEN UNION {i..Len(text) : i \in known}
                     ELSE {i \in 1..Len(text) : i - 1 \in known /\ text[i] = pattern[n]}
    IN  Len(text) \in reached[Len(pattern)]

-----------------------------------------------------------------------------
(* Values that a key tells apart: encoded ones, and others that neither    *)
(* look encoded nor have a comma, after which a further filter is read.    *)

Text == Seq(Tokens)
Values == Seq(DOMAIN Escape)

Free(text, token) == \A i \in 1..Len(text) : text[i] # token

Plain(value) ==
    \/ Contains(value, Colon)
    \/ ~Contains(value, Comma) /\ ~Contains(value, Escape[Colon])

ParamNames == {FilterNames[i] : i \in 1..7}

PlainParams(p) == \A name \in ParamNames : Plain(p[name])

=============================================================================
