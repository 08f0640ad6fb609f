------------------------------- MODULE LrsConfig -------------------------------
(***************************************************************************)
(* From the environment to the LRS instances and to the one LRS that       *)
(* LRSClient queries: the schemas and parsers of core/config, which run    *)
(* once, when the service starts.                                          *)
(*                                                                         *)
(* Texts are sequences, so that a missing variable is the empty sequence;  *)
(* `blank' names the variables that are set, to nothing.  A number is      *)
(* known by what Joi (`number') and parseInt (`parsed') make of its text:  *)
(* they differ for 1e4.  A header list is a sequence of <<name, value>>,   *)
(* and of <<text>> where there is no colon.                                *)
(***************************************************************************)
EXTENDS Integers, Sequences, SequencesExt

CONSTANTS
    Uris, HttpUris,     \* the texts that are URIs, and http or https ones
    InstanceIds         \* the ids that match [a-z0-9]+(-[a-z0-9]+)*

ASSUME LrsConfigAssumption == HttpUris \subseteq Uris

Empty == <<>>
NaN == -1
DefaultTimeout == 10000

Or(text, other) == IF text # Empty THEN text ELSE other

Failed == [ok |-> FALSE, instances |-> <<>>]
Parsed(instances) == [ok |-> TRUE, instances |-> instances]

-----------------------------------------------------------------------------
(* Schemas.                                                                *)

AuthForms ==
    { <<"basic", {"username", "password"}>>, <<"basic", {"key", "secret"}>>,
      <<"bearer", {"token"}>>, <<"custom", {"headers"}>> }

(* An object of no headers is an object.                                   *)
LrsAuthSchema(auth) ==
    LET given == DOMAIN auth \ {"type"}
    IN  /\ <<auth.type, given>> \in AuthForms
        /\ \A field \in given \ {"headers"} : auth[field] # Empty

LrsInstanceSchema(i) ==
    /\ i.id \in InstanceIds
    /\ i.name # Empty
    /\ i.endpoint \in HttpUris
    /\ i.timeoutMs >= 1000
    /\ LrsAuthSchema(i.auth)

-----------------------------------------------------------------------------
(* LRS_INSTANCES: not set, no JSON, JSON of another kind, or an array.     *)

(* Only the aliases of basic authentication are rewritten.                 *)
NormalizedAuth(auth) ==
    IF "key" \in DOMAIN auth
    THEN [type |-> "basic", username |-> auth.key, password |-> auth.secret]
    ELSE auth

\* Mutant of UniqueIds: ids are not compared.
AnyIds(instances) == TRUE

UniqueIds(instances) ==
    \A m, n \in DOMAIN instances : instances[m].id = instances[n].id => m = n

ParseLRSInstancesFromJSON(json) ==
    IF /\ json.kind = "array"
       /\ json.instances # <<>>
       /\ \A n \in DOMAIN json.instances : LrsInstanceSchema(json.instances[n])
       /\ UniqueIds(json.instances)
    THEN Parsed([n \in DOMAIN json.instances |->
                    [json.instances[n] EXCEPT !.auth = NormalizedAuth(@)]])
    ELSE Failed

-----------------------------------------------------------------------------
(* LRS_<ID>_ENDPOINT, LRS_<ID>_AUTH_TYPE, ...: a sequence of the variables *)
(* found, by id.                                                           *)

Headers(list) == SelectSeq(list, LAMBDA h : Len(h) = 2 /\ Empty \notin ToSet(h))

(* A pair must be complete, but each half is then taken from the variables *)
(* of the username/password pair if it is there.                           *)
BasicAuth(v) ==
    [type |-> "basic", username |-> Or(v.username, v.key),
     password |-> Or(v.password, v.secret)]

CredentialsGiven(v) ==
    CASE v.authType = "basic" ->
            \/ v.username # Empty /\ v.password # Empty
            \/ v.key # Empty /\ v.secret # Empty
      [] v.authType = "bearer" -> v.token # Empty
      [] v.authType = "custom" -> Headers(v.headers) # <<>>
      [] OTHER -> FALSE

PrefixedAuth(v) ==
    CASE v.authType = "basic" -> BasicAuth(v)
      [] v.authType = "bearer" -> [type |-> "bearer", token |-> v.token]
      [] v.authType = "custom" -> [type |-> "custom", headers |-> Headers(v.headers)]

PrefixedInstance(v) ==
    [id |-> v.id, name |-> Or(v.name, v.id), endpoint |-> v.endpoint,
     timeoutMs |-> v.timeoutMs, auth |-> PrefixedAuth(v)]

ParseLRSInstancesFromPrefixedEnvVars(prefixed) ==
    IF \A n \in DOMAIN prefixed :
          /\ prefixed[n].endpoint # Empty
          /\ CredentialsGiven(prefixed[n])
          /\ LrsInstanceSchema(PrefixedInstance(prefixed[n]))
    THEN Parsed([n \in DOMAIN prefixed |-> PrefixedInstance(prefixed[n])])
    ELSE Failed

(* A set LRS_INSTANCES counts even if it is wrong.                         *)
ParseLRSInstances(env) ==
    IF env.json.kind # "unset"
    THEN ParseLRSInstancesFromJSON(env.json)
    ELSE IF env.prefixed = <<>> THEN Failed
    ELSE ParseLRSInstancesFromPrefixedEnvVars(env.prefixed)

-----------------------------------------------------------------------------
(* The environments that can be read in this way: lists are sequences, an  *)
(* entry of LRS_INSTANCES has its fields, empty where JSON has none, and   *)
(* the ids under which prefixed variables are found are a set.             *)

IsList(s) == s \in Seq(ToSet(s))

IsEnvironment(env) ==
    /\ IsList(env.json.instances) /\ IsList(env.prefixed)
    /\ \A n \in DOMAIN env.json.instances :
          {"id", "auth"} \subseteq DOMAIN env.json.instances[n]
    /\ \A m, n \in DOMAIN env.prefixed :
          env.prefixed[m].id = env.prefixed[n].id => m = n

-----------------------------------------------------------------------------
(* configValidationSchema and configFactory.                               *)

LrsVariablesValid(env) ==
    /\ env.blank \cap {"LRS_DOMAIN", "LRS_USER", "LRS_SECRET", "LRS_INSTANCES"} = {}
    /\ env.domain \in {Empty} \cup Uris
    /\ env.timeout.number >= 1000

(* The other variables are valid or not; a number that parseInt reads in   *)
(* another way than Joi matters here for LRS_TIMEOUT only.                 *)
ConfigValidationSchema(env) == env.othersValid /\ LrsVariablesValid(env)

LegacyInstance(env) ==
    [id |-> <<"default">>, name |-> <<"Default LRS">>, endpoint |-> env.domain,
     timeoutMs |-> env.timeout.parsed,
     auth |-> [type |-> "basic", username |-> env.user, password |-> env.secret]]

(* Whatever is wrong with the instances, the legacy variables help.        *)
LrsInstances(env) ==
    LET parsed == ParseLRSInstances(env)
    IN  CASE parsed.ok -> parsed
          [] ~parsed.ok /\ env.domain # Empty /\ env.user # Empty
                /\ LrsInstanceSchema(LegacyInstance(env)) ->
               Parsed(<<LegacyInstance(env)>>)
          [] OTHER -> Failed

(* The `lrs' section.                                                      *)
ConfigFactory(env) ==
    LET instances == LrsInstances(env).instances
    IN  [url |-> Or(env.domain, instances[1].endpoint),
         apiKey |-> env.user, apiSecret |-> env.secret,
         timeout |-> env.timeout.parsed, instances |-> instances]

Starts(env) == ConfigValidationSchema(env) /\ LrsInstances(env).ok

(* LRSClient's constructor: the one LRS that is queried.                   *)
ClientConfig(lrs) ==
    [id |-> <<"default">>, endpoint |-> lrs.url, timeoutMs |-> lrs.timeout,
     auth |-> [type |-> "basic", username |-> lrs.apiKey, password |-> lrs.apiSecret]]

=============================================================================
