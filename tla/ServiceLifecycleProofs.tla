------------------------ MODULE ServiceLifecycleProofs ------------------------
(***************************************************************************)
(* Theorems about ServiceLifecycle, for any set of environments and any    *)
(* number of retries: the state of its clients is typed, and the cache     *)
(* client gives up only after that many refused connections in a row.      *)
(***************************************************************************)
EXTENDS ServiceLifecycle, FiniteSetTheorems, SequenceTheorems, TLAPS

Statuses == {"wait", "connecting", "ready", "reconnecting", "end"}
Clients == [status : Statuses, attempts : 0..(MaxRetries + 1)]

(* The clients as a function, which TypeOK leaves open.                    *)
Typed ==
    /\ clients \in [Names -> Clients]
    /\ refused \in 0..(MaxRetries + 1)

(* ioredis' counter is ahead of the refusals by the loss of the connection *)
(* at most, and it is past the limit when the client has ended.            *)
AttemptsMatchRefusals ==
    LET cache == clients["cache"]
    IN  /\ cache.status = "ready" => cache.attempts = 0
        /\ cache.status = "end" => cache.attempts > MaxRetries
        /\ cache.attempts <= refused + 1

Inv == TypeOK /\ Typed /\ AttemptsMatchRefusals

-----------------------------------------------------------------------------

(* Bounded() keeps a counter within its bound, and equal to it below.      *)
LEMMA BoundedRange ==
    ASSUME NEW n \in Nat
    PROVE  /\ Bounded(n) \in 0..(MaxRetries + 1)
           /\ Bounded(n) <= n
           /\ n <= MaxRetries + 1 => Bounded(n) = n
           /\ n > MaxRetries => Bounded(n) > MaxRetries
BY ServiceLifecycleAssumption, SMT DEF Bounded

(* A closed connection is attempted again, or it is the cache client's and *)
(* its attempts are past the limit.                                        *)
LEMMA ClosedClient ==
    ASSUME Typed, NEW c \in Names
    PROVE  /\ Closed(c) \in Clients
           /\ Closed(c).attempts = Bounded(clients[c].attempts + 1)
           /\ Closed(c).status \in {"end", "reconnecting"}
           /\ Closed(c).status = "end" =>
                 c = "cache" /\ Closed(c).attempts > MaxRetries
<1>1. clients[c].attempts + 1 \in Nat
    BY ServiceLifecycleAssumption DEF Typed, Clients
<1>2. Bounded(clients[c].attempts + 1) \in 0..(MaxRetries + 1)
    BY <1>1, BoundedRange
<1> QED
    BY <1>2 DEF Closed, GivesUp, Clients, Statuses

LEMMA InitInv == Init => Inv
<1> SUFFICES ASSUME Init PROVE Inv
    OBVIOUS
<1>1. Created \in Clients /\ Created.status = "wait" /\ Created.attempts = 0
    BY ServiceLifecycleAssumption DEF Created, Clients, Statuses
<1>2. clients \in [Names -> Clients] /\ \A c \in Names : clients[c] = Created
    BY <1>1 DEF Init
<1>3. Typed
    BY <1>2, ServiceLifecycleAssumption DEF Init, Typed
<1>4. AttemptsMatchRefusals
    BY <1>1, <1>2, <1>3, ServiceLifecycleAssumption
    DEF AttemptsMatchRefusals, Names, Typed
<1>5. TypeOK
    BY <1>1, <1>2, <1>3, ServiceLifecycleAssumption DEF Init, TypeOK, Typed, Clients
<1> QED
    BY <1>3, <1>4, <1>5 DEF Inv

-----------------------------------------------------------------------------

LEMMA ConnectedStep ==
    ASSUME Inv, NEW c \in Names, Connected(c)
    PROVE  Inv'
<1>1. clients \in [Names -> Clients]
    BY DEF Inv, Typed
<1>2. clients'[c] = Ready(clients[c]) /\ \A d \in Names \ {c} : clients'[d] = clients[d]
    BY <1>1 DEF Connected
<1>3. /\ clients'[c] \in Clients
      /\ clients'[c].status = "ready" /\ clients'[c].attempts = 0
    BY <1>2, ServiceLifecycleAssumption DEF Ready, Clients, Statuses
<1>4. refused' \in 0..(MaxRetries + 1)
    BY ServiceLifecycleAssumption DEF Connected, Inv, Typed
<1>5. Typed'
    BY <1>1, <1>3, <1>4 DEF Connected, Typed
<1>6. AttemptsMatchRefusals'
    <2>1. CASE c = "cache"
        BY <1>3, <1>4, <2>1, ServiceLifecycleAssumption DEF AttemptsMatchRefusals
    <2>2. CASE c # "cache"
        <3>1. clients'["cache"] = clients["cache"] /\ refused' = refused
            BY <1>2, <2>2 DEF Connected, Names
        <3> QED
            BY <3>1 DEF Inv, AttemptsMatchRefusals
    <2> QED
        BY <2>1, <2>2
<1>7. TypeOK'
    BY <1>2, <1>3, <1>4, ServiceLifecycleAssumption DEF Inv, TypeOK, Connected
<1> QED
    BY <1>5, <1>6, <1>7 DEF Inv

(* A connection is refused, or lost: attempts and refusals advance         *)
(* together, and a loss starts from no attempts.                           *)
LEMMA ClosedStep ==
    ASSUME Inv, NEW c \in Names, Refused(c) \/ ConnectionLost(c)
    PROVE  Inv'
<1>1. clients \in [Names -> Clients] /\ refused \in 0..(MaxRetries + 1)
    BY DEF Inv, Typed
<1>2. clients'[c] = Closed(c) /\ \A d \in Names \ {c} : clients'[d] = clients[d]
    BY <1>1 DEF Refused, ConnectionLost
<1>3. /\ Closed(c) \in Clients
      /\ Closed(c).attempts = Bounded(clients[c].attempts + 1)
      /\ Closed(c).status \in {"end", "reconnecting"}
      /\ Closed(c).status = "end" => c = "cache" /\ Closed(c).attempts > MaxRetries
    BY ClosedClient DEF Inv
<1>4. /\ Bounded(refused + 1) \in 0..(MaxRetries + 1)
      /\ refused <= MaxRetries => Bounded(refused + 1) = refused + 1
      /\ refused > MaxRetries => Bounded(refused + 1) > MaxRetries
    <2>1. refused + 1 \in Nat
        BY <1>1, ServiceLifecycleAssumption
    <2> QED
        BY <1>1, <2>1, BoundedRange, ServiceLifecycleAssumption
<1>5. refused' \in {refused, Bounded(refused + 1)}
    BY DEF Refused, ConnectionLost
<1>6. Typed'
    <2>1. clients' = [clients EXCEPT ![c] = Closed(c)]
        BY DEF Refused, ConnectionLost
    <2> QED
        BY <1>1, <1>3, <1>4, <1>5, <2>1 DEF Typed
<1>7. AttemptsMatchRefusals'
    <2>1. CASE c # "cache"
        <3>1. clients'["cache"] = clients["cache"] /\ refused' = refused
            BY <1>2, <2>1 DEF Refused, ConnectionLost, Names
        <3> QED
            BY <3>1 DEF Inv, AttemptsMatchRefusals
    <2>2. CASE c = "cache"
        <3>1. /\ clients["cache"].attempts \in 0..(MaxRetries + 1)
              /\ clients["cache"].attempts + 1 \in Nat
            BY <1>1, ServiceLifecycleAssumption DEF Names, Clients
        <3>2. Closed(c).attempts <= clients["cache"].attempts + 1
              /\ Closed(c).attempts <= MaxRetries + 1
              /\ Closed(c).attempts \in Nat
            BY <1>3, <2>2, <3>1, BoundedRange, ServiceLifecycleAssumption
        <3>3. CASE Refused(c)
            <4>1. refused' = Bounded(refused + 1)
                BY <2>2, <3>3 DEF Refused
            <4>2. clients["cache"].attempts <= refused + 1
                BY DEF Inv, AttemptsMatchRefusals
            <4>3. Closed(c).attempts <= refused' + 1
                BY <1>1, <1>4, <3>1, <3>2, <4>1, <4>2, ServiceLifecycleAssumption
            <4> QED
                BY <1>2, <1>3, <2>2, <4>3 DEF AttemptsMatchRefusals
        <3>4. CASE ConnectionLost(c)
            <4>1. refused' = refused /\ clients["cache"].attempts = 0
                BY <2>2, <3>4 DEF ConnectionLost, Inv, AttemptsMatchRefusals
            <4>2. Closed(c).attempts <= refused' + 1
                BY <1>1, <3>1, <3>2, <4>1, ServiceLifecycleAssumption
            <4> QED
                BY <1>2, <1>3, <2>2, <4>2 DEF AttemptsMatchRefusals
        <3> QED
            BY <3>3, <3>4
    <2> QED
        BY <2>1, <2>2
<1>8. TypeOK'
    <2>1. /\ Closed(c).attempts \in 0..(MaxRetries + 1)
          /\ Closed(c).status = "end" => c = "cache"
        BY <1>3 DEF Clients
    <2> QED
        BY <1>2, <1>3, <1>6, <2>1 DEF Inv, TypeOK, Typed, Refused, ConnectionLost
<1> QED
    BY <1>6, <1>7, <1>8 DEF Inv

LEMMA StartStep ==
    ASSUME Inv, Start
    PROVE  Inv'
<1>1. clients \in [Names -> Clients]
    BY DEF Inv, Typed
<1>2. /\ \A c \in {"throttler", "cache"} :
            clients'[c] = [clients[c] EXCEPT !.status = "connecting"]
      /\ clients'["health"] = clients["health"]
    BY <1>1 DEF Start, Names
<1>3. \A c \in Names :
         /\ clients'[c] \in Clients
         /\ clients'[c].status \in {clients[c].status, "connecting"}
         /\ clients'[c].attempts = clients[c].attempts
    BY <1>1, <1>2 DEF Clients, Statuses, Names
<1>4. clients'["cache"].status = "connecting"
    BY <1>1, <1>2 DEF Names, Clients
<1>5. Typed'
    BY <1>1, <1>3 DEF Start, Inv, Typed
<1>6. AttemptsMatchRefusals'
    BY <1>3, <1>4 DEF Start, Inv, AttemptsMatchRefusals, Names
<1>7. TypeOK'
    BY <1>3 DEF Start, Inv, TypeOK
<1> QED
    BY <1>5, <1>6, <1>7 DEF Inv

LEMMA CheckReadinessStep ==
    ASSUME Inv, CheckReadiness
    PROVE  Inv'
<1>1. clients \in [Names -> Clients]
    BY DEF Inv, Typed
<1>2. /\ clients'["health"] = Woken(clients["health"])
      /\ \A c \in Names \ {"health"} : clients'[c] = clients[c]
    BY <1>1 DEF CheckReadiness, Names
<1>3. /\ clients'["health"] \in Clients
      /\ clients'["health"].status \in {clients["health"].status, "connecting"}
      /\ clients'["health"].attempts = clients["health"].attempts
    BY <1>1, <1>2 DEF Woken, Clients, Statuses, Names
<1>4. Typed'
    BY <1>1, <1>3 DEF CheckReadiness, Inv, Typed
<1>5. AttemptsMatchRefusals'
    BY <1>2 DEF CheckReadiness, Inv, AttemptsMatchRefusals, Names
<1>6. TypeOK'
    BY <1>2, <1>3 DEF CheckReadiness, Inv, TypeOK
<1> QED
    BY <1>4, <1>5, <1>6 DEF Inv

LEMMA NextInv == Inv /\ [Next]_vars => Inv'
<1> SUFFICES ASSUME Inv, [Next]_vars PROVE Inv'
    OBVIOUS
<1>1. CASE StartFails
    BY <1>1 DEF StartFails, Inv, TypeOK, Typed, AttemptsMatchRefusals
<1>2. CASE Start
    BY <1>2, StartStep
<1>3. CASE Listen
    BY <1>3 DEF Listen, Inv, TypeOK, Typed, AttemptsMatchRefusals
<1>4. ASSUME NEW c \in Names, Connected(c) PROVE Inv'
    BY <1>4, ConnectedStep
<1>5. ASSUME NEW c \in Names, Refused(c) \/ ConnectionLost(c) PROVE Inv'
    BY <1>5, ClosedStep
<1>6. CASE CheckReadiness
    BY <1>6, CheckReadinessStep
<1>7. CASE Pong
    BY <1>7 DEF Pong, Inv, TypeOK, Typed, AttemptsMatchRefusals
<1>8. CASE PingFails
    BY <1>8 DEF PingFails, Inv, TypeOK, Typed, AttemptsMatchRefusals
<1>9. CASE RedisChange
    BY <1>9 DEF RedisChange, Inv, TypeOK, Typed, AttemptsMatchRefusals
<1>10. CASE UNCHANGED vars
    BY <1>10 DEF vars, Inv, TypeOK, Typed, AttemptsMatchRefusals
<1> QED
    BY <1>1, <1>2, <1>3, <1>4, <1>5, <1>6, <1>7, <1>8, <1>9, <1>10 DEF Next

LEMMA InvGivesUp == Inv => GivesUpOnlyAfterRetries
<1> SUFFICES ASSUME Inv, clients["cache"].status = "end"
             PROVE  refused >= MaxRetries
    BY DEF GivesUpOnlyAfterRetries
<1>1. /\ clients["cache"].attempts \in Int
      /\ clients["cache"].attempts > MaxRetries
      /\ clients["cache"].attempts <= refused + 1
      /\ refused \in Int
    BY ServiceLifecycleAssumption DEF Inv, Typed, AttemptsMatchRefusals, Clients, Names
<1> QED
    BY <1>1, ServiceLifecycleAssumption

-----------------------------------------------------------------------------

(* Every variable keeps its type, and of the three clients only the        *)
(* cache's, whose retryStrategy gives up, ever ends.                       *)
THEOREM TypeCorrect == Spec => []TypeOK
<1>1. Inv => TypeOK
    BY DEF Inv
<1> QED
    BY <1>1, InitInv, NextInv, PTL DEF Spec

(* The cache client gives up only after MaxRetries refused connections in  *)
(* a row: what it counted in outages that it came back from is forgotten.  *)
THEOREM GivesUpLate == Spec => []GivesUpOnlyAfterRetries
BY InitInv, NextInv, InvGivesUp, PTL DEF Spec


-----------------------------------------------------------------------------
(* The instances that a parser has accepted.                               *)
Usable(instances) ==
    /\ Len(instances) \in Nat \ {0}
    /\ DOMAIN instances = 1..Len(instances)
    /\ UniqueIds(instances)
    /\ \A n \in DOMAIN instances : Complete(instances[n].auth)

(* Different ids are as many as there are instances.                       *)
LEMMA IdsCounted ==
    ASSUME NEW s, NEW k \in Nat, DOMAIN s = 1..k, UniqueIds(s)
    PROVE  Cardinality({s[n].id : n \in DOMAIN s}) = k
<1> DEFINE Ids == {s[n].id : n \in 1..k}
           f == [n \in 1..k |-> s[n].id]
<1>1. IsFiniteSet(1..k) /\ Cardinality(1..k) = k
    BY FS_Interval
<1>2. f \in Bijection(1..k, Ids)
    BY DEF Bijection, Injection, Surjection, IsInjective, UniqueIds
<1>3. ExistsBijection(1..k, Ids)
    BY <1>2 DEF ExistsBijection
<1>4. Cardinality(Ids) = k
    BY <1>1, <1>3, FS_Bijection
<1> QED
    BY <1>4

(* A list that is mapped keeps its length.                                 *)
LEMMA MappedList ==
    ASSUME NEW s, IsList(s), s # <<>>, NEW t, t = [n \in DOMAIN s |-> t[n]]
    PROVE  Len(t) \in Nat \ {0} /\ DOMAIN t = DOMAIN s /\ DOMAIN t = 1..Len(t)
<1>1. /\ Len(s) \in Nat \ {0}
      /\ DOMAIN s = 1..Len(s)
    BY EmptySeq, LenProperties DEF IsList
<1>2. [n \in 1..Len(s) |-> t[n]] \in Seq({t[n] : n \in 1..Len(s)})
    BY <1>1, IsASeq
<1>3. t \in Seq({t[n] : n \in 1..Len(s)})
    BY <1>1, <1>2
<1>4. Len(t) \in Nat /\ DOMAIN t = 1..Len(t) /\ DOMAIN t = DOMAIN s
    BY <1>3, LenProperties
<1>5. Len(t) = Len(s)
    BY <1>1, <1>4
<1> QED
    BY <1>1, <1>4, <1>5

(* What passes the schema has all its credentials, under either pair of    *)
(* names for them.                                                         *)
LEMMA SchemaComplete ==
    ASSUME NEW auth, LrsAuthSchema(auth)
    PROVE  Complete(auth) /\ Complete(NormalizedAuth(auth))
<1> DEFINE given == DOMAIN auth \ {"type"}
<1>1. /\ <<auth.type, given>> \in AuthForms
      /\ \A field \in given \ {"headers"} : auth[field] # Empty
    BY DEF LrsAuthSchema
<1>2. auth.type = "custom" \/ "headers" \notin given
    BY <1>1 DEF AuthForms
<1>3. Complete(auth)
    BY <1>1, <1>2 DEF Complete
<1>4. CASE "key" \in DOMAIN auth
    <2>1. given = {"key", "secret"}
        BY <1>1, <1>4 DEF AuthForms
    <2>2. auth.key # Empty /\ auth.secret # Empty
        BY <1>1, <2>1
    <2> QED
        BY <1>3, <1>4, <2>2 DEF NormalizedAuth, Complete
<1>5. CASE "key" \notin DOMAIN auth
    BY <1>3, <1>5 DEF NormalizedAuth
<1> QED
    BY <1>4, <1>5


LEMMA JsonUsable ==
    ASSUME NEW e, IsEnvironment(e), ParseLRSInstancesFromJSON(e.json).ok
    PROVE  Usable(ParseLRSInstancesFromJSON(e.json).instances)
<1> DEFINE given == e.json.instances
           parsed == [n \in DOMAIN given |-> [given[n] EXCEPT !.auth = NormalizedAuth(@)]]
<1>1. /\ ParseLRSInstancesFromJSON(e.json).instances = parsed
      /\ given # <<>> /\ UniqueIds(given)
      /\ \A n \in DOMAIN given : LrsInstanceSchema(given[n])
    BY DEF ParseLRSInstancesFromJSON, Parsed, Failed
<1>2. \A n \in DOMAIN given :
         /\ parsed[n].id = given[n].id
         /\ parsed[n].auth = NormalizedAuth(given[n].auth)
    BY DEF IsEnvironment
<1>3. \A n \in DOMAIN given : Complete(parsed[n].auth)
    BY <1>1, <1>2, SchemaComplete DEF LrsInstanceSchema
<1>4. parsed = [n \in DOMAIN given |-> parsed[n]]
    OBVIOUS
<1>5. IsList(given)
    BY DEF IsEnvironment
<1> HIDE DEF given, parsed
<1>6. Len(parsed) \in Nat \ {0} /\ DOMAIN parsed = DOMAIN given
      /\ DOMAIN parsed = 1..Len(parsed)
    BY <1>1, <1>4, <1>5, MappedList
<1>7. UniqueIds(parsed)
    BY <1>1, <1>2, <1>6 DEF UniqueIds
<1> QED
    BY <1>1, <1>3, <1>6, <1>7 DEF Usable

LEMMA PrefixedUsable ==
    ASSUME NEW e, IsEnvironment(e), e.prefixed # <<>>,
           ParseLRSInstancesFromPrefixedEnvVars(e.prefixed).ok
    PROVE  Usable(ParseLRSInstancesFromPrefixedEnvVars(e.prefixed).instances)
<1> DEFINE given == e.prefixed
           parsed == [n \in DOMAIN given |-> PrefixedInstance(given[n])]
<1>1. /\ ParseLRSInstancesFromPrefixedEnvVars(e.prefixed).instances = parsed
      /\ \A n \in DOMAIN given : LrsInstanceSchema(parsed[n])
    BY DEF ParseLRSInstancesFromPrefixedEnvVars, Parsed, Failed
<1>2. \A n \in DOMAIN given : parsed[n].id = given[n].id
    BY DEF PrefixedInstance
<1>3. \A n \in DOMAIN given : Complete(parsed[n].auth)
    <2> HIDE DEF given, parsed
    <2> TAKE n \in DOMAIN given
    <2>1. LrsAuthSchema(parsed[n].auth)
        BY <1>1 DEF LrsInstanceSchema
    <2> QED
        BY ONLY <2>1, SchemaComplete
<1>4. parsed = [n \in DOMAIN given |-> parsed[n]]
    OBVIOUS
<1>5. IsList(given) /\ \A m, n \in DOMAIN given : given[m].id = given[n].id => m = n
    BY DEF IsEnvironment
<1>6. given # <<>>
    OBVIOUS
<1> HIDE DEF given, parsed
<1>7. Len(parsed) \in Nat \ {0} /\ DOMAIN parsed = DOMAIN given
      /\ DOMAIN parsed = 1..Len(parsed)
    BY <1>4, <1>5, <1>6, MappedList
<1>8. UniqueIds(parsed)
    BY <1>2, <1>5, <1>7 DEF UniqueIds
<1> QED
    BY <1>1, <1>3, <1>7, <1>8 DEF Usable

(* Whatever the source of the instances, a start has usable ones; from the *)
(* legacy variables it makes one.                                          *)
LEMMA StartUsable ==
    ASSUME NEW e, IsEnvironment(e), LrsInstances(e).ok
    PROVE  /\ Usable(LrsInstances(e).instances)
           /\ ~ParseLRSInstances(e).ok =>
                 /\ LrsInstances(e).instances = <<LegacyInstance(e)>>
                 /\ e.domain # Empty
<1>1. CASE ParseLRSInstances(e).ok
    <2>1. LrsInstances(e) = ParseLRSInstances(e)
        BY <1>1 DEF LrsInstances
    <2>2. CASE e.json.kind # "unset"
        BY <1>1, <2>1, <2>2, JsonUsable DEF ParseLRSInstances
    <2>3. CASE e.json.kind = "unset"
        <3>1. e.prefixed # <<>>
            BY <1>1, <2>3 DEF ParseLRSInstances, Failed
        <3> QED
            BY <1>1, <2>1, <2>3, <3>1, PrefixedUsable DEF ParseLRSInstances
    <2> QED
        BY <1>1, <2>2, <2>3
<1>2. CASE ~ParseLRSInstances(e).ok
    <2>1. /\ LrsInstances(e) = Parsed(<<LegacyInstance(e)>>)
          /\ e.domain # Empty
          /\ LrsInstanceSchema(LegacyInstance(e))
        BY <1>2 DEF LrsInstances, Failed
    <2>2. LrsInstances(e).instances = <<LegacyInstance(e)>>
        BY <2>1 DEF Parsed
    <2>3. Complete(LegacyInstance(e).auth)
        BY <2>1, SchemaComplete DEF LrsInstanceSchema
    <2>4. Usable(<<LegacyInstance(e)>>)
        BY <2>3 DEF Usable, UniqueIds
    <2> QED
        BY <2>1, <2>2, <2>4
<1> QED
    BY <1>1, <1>2

(* The configuration of a service that runs is that of its environment.    *)
LrsOfEnv ==
    /\ env \in Envs
    /\ phase \in {"initializing", "listening"} =>
          LrsInstances(env).ok /\ lrs = ConfigFactory(env)

LEMMA LrsOfEnvInvariance == Spec => []LrsOfEnv
<1>1. Init => LrsOfEnv
    BY DEF Init, LrsOfEnv
<1>2. LrsOfEnv /\ [Next]_vars => LrsOfEnv'
    <2> SUFFICES ASSUME LrsOfEnv, [Next]_vars PROVE LrsOfEnv'
        OBVIOUS
    <2>1. CASE StartFails
        BY <2>1 DEF StartFails, LrsOfEnv
    <2>2. CASE Start
        BY <2>2 DEF Start, Starts, LrsOfEnv
    <2>3. CASE Listen
        BY <2>3 DEF Listen, LrsOfEnv
    <2>4. ASSUME NEW c \in Names, Connected(c) \/ Refused(c) \/ ConnectionLost(c)
          PROVE  LrsOfEnv'
        BY <2>4 DEF Connected, Refused, ConnectionLost, LrsOfEnv
    <2>5. CASE CheckReadiness \/ Pong \/ PingFails \/ RedisChange
        BY <2>5 DEF CheckReadiness, Pong, PingFails, RedisChange, LrsOfEnv
    <2>6. CASE UNCHANGED vars
        BY <2>6 DEF vars, LrsOfEnv
    <2> QED
        BY <2>1, <2>2, <2>3, <2>4, <2>5, <2>6 DEF Next
<1> QED
    BY <1>1, <1>2, PTL DEF Spec

(* A service that runs has LRS instances, whatever its environment was,    *)
(* with different ids and credentials that are not empty; and where only   *)
(* the legacy variables were left, the client queries the instance that    *)
(* was made of them.                                                       *)
THEOREM RunsConfigured == Spec => []ConfiguredLrs
<1>1. LrsOfEnv => ConfiguredLrs
    <2> SUFFICES ASSUME LrsOfEnv, phase \in {"initializing", "listening"}
                 PROVE  ConfiguredLrs
        BY DEF ConfiguredLrs
    <2> DEFINE instances == LrsInstances(env).instances
    <2>1. /\ IsEnvironment(env) /\ LrsInstances(env).ok /\ lrs = ConfigFactory(env)
        BY EnvsAssumption DEF LrsOfEnv
    <2>2. lrs.instances = instances
        BY <2>1 DEF ConfigFactory
    <2>3. /\ Usable(instances)
          /\ ~ParseLRSInstances(env).ok =>
                instances = <<LegacyInstance(env)>> /\ env.domain # Empty
        BY <2>1, StartUsable
    <2>4. ~ParseLRSInstances(env).ok =>
             \A field \in {"id", "endpoint", "timeoutMs", "auth"} :
                ClientConfig(lrs)[field] = instances[1][field]
        <3> SUFFICES ASSUME ~ParseLRSInstances(env).ok,
                            NEW field \in {"id", "endpoint", "timeoutMs", "auth"}
                     PROVE  ClientConfig(lrs)[field] = LegacyInstance(env)[field]
            BY <2>3
        <3>1. /\ lrs.url = env.domain /\ lrs.timeout = env.timeout.parsed
              /\ lrs.apiKey = env.user /\ lrs.apiSecret = env.secret
            BY <2>1, <2>3 DEF ConfigFactory, Or
        <3>2. /\ ClientConfig(lrs).id = LegacyInstance(env).id
              /\ ClientConfig(lrs).endpoint = LegacyInstance(env).endpoint
              /\ ClientConfig(lrs).timeoutMs = LegacyInstance(env).timeoutMs
              /\ ClientConfig(lrs).auth = LegacyInstance(env).auth
            BY <3>1 DEF ClientConfig, LegacyInstance
        <3> QED
            BY <3>2
    <2> HIDE DEF instances
    <2>5. instances # <<>>
        BY <2>3 DEF Usable
    <2>6. Cardinality({instances[n].id : n \in DOMAIN instances}) = Len(instances)
        BY <2>3, IdsCounted DEF Usable
    <2>7. ~ParseLRSInstances(env).ok => Len(instances) = 1
        BY <2>3
    <2> QED
        BY <2>2, <2>3, <2>4, <2>5, <2>6, <2>7 DEF ConfiguredLrs, Usable
<1> QED
    BY <1>1, LrsOfEnvInvariance, PTL

=============================================================================
