--------------------------- MODULE ServiceLifecycle ---------------------------
(***************************************************************************)
(* The service from its start: configuration, the modules' initialisation, *)
(* and its three Redis clients, of the cache, of the readiness probe and   *)
(* of the rate limiter, while Redis comes and goes.                        *)
(*                                                                         *)
(* A client is in one of ioredis' states.  A lost connection is attempted  *)
(* again after a delay for as long as the client's retryStrategy says so;  *)
(* `end' is final, unless somebody calls connect().                        *)
(***************************************************************************)
EXTENDS LrsConfig, FiniteSets

CONSTANTS
    Envs,           \* the environments the service may be started in
    MaxRetries      \* CacheService.maxRetries: 3

ASSUME ServiceLifecycleAssumption == MaxRetries \in Nat
ASSUME EnvsAssumption == \A e \in Envs : IsEnvironment(e)

VARIABLES
    env,            \* the environment
    phase,          \* of main.ts: configuring, initializing, listening, failed
    lrs,            \* the `lrs' section of the configuration
    clients,        \* state and failed attempts, per Redis client
    redisUp,        \* Redis accepts connections and answers
    probe,          \* a readiness check is under way
    ready,          \* the last answer to one
    refused         \* history: how often in a row the cache client has failed
                    \* to get a connection since it had one

vars == <<env, phase, lrs, clients, redisUp, probe, ready, refused>>

Names == {"cache", "health", "throttler"}

NoLrs == [instances |-> <<>>]

(* Bound of the model: attempts are counted as far as anybody cares.       *)
Bounded(n) == IF n > MaxRetries + 1 THEN MaxRetries + 1 ELSE n

Created == [status |-> "wait", attempts |-> 0]

\* Mutant of Ready: the attempts go on counting.
ReadyStillCounting(client) == [client EXCEPT !.status = "ready"]

Ready(client) == [status |-> "ready", attempts |-> 0]

\* Mutant of GivesUp: every client has the cache client's strategy.
EveryClientGivesUp(c, times) == times > MaxRetries

(* retryStrategy: the cache client's gives up, ioredis' own never does.    *)
GivesUp(c, times) == c = "cache" /\ times > MaxRetries

Closed(c) ==
    LET times == Bounded(clients[c].attempts + 1)
    IN  [status |-> IF GivesUp(c, times) THEN "end" ELSE "reconnecting",
         attempts |-> times]

-----------------------------------------------------------------------------

Init ==
    /\ env \in Envs
    /\ phase = "configuring"
    /\ lrs = NoLrs
    /\ clients = [c \in Names |-> Created]
    /\ redisUp \in BOOLEAN
    /\ probe = FALSE
    /\ ready = "unknown"
    /\ refused = 0

(* ConfigModule refuses the environment, and the process exits.            *)
StartFails ==
    /\ phase = "configuring"
    /\ ~Starts(env)
    /\ phase' = "failed"
    /\ UNCHANGED <<env, lrs, clients, redisUp, probe, ready, refused>>

(* The providers are constructed; the rate limiter's client connects at    *)
(* once, the cache's in onModuleInit, the probe's when it is used.         *)
Start ==
    /\ phase = "configuring"
    /\ Starts(env)
    /\ phase' = "initializing"
    /\ lrs' = ConfigFactory(env)
    /\ clients' = [clients EXCEPT !["throttler"].status = "connecting",
                                  !["cache"].status = "connecting"]
    /\ UNCHANGED <<env, redisUp, probe, ready, refused>>

(* onModuleInit has come back, with or without a connection.               *)
Listen ==
    /\ phase = "initializing"
    /\ clients["cache"].status # "connecting"
    /\ phase' = "listening"
    /\ UNCHANGED <<env, lrs, clients, redisUp, probe, ready, refused>>

Connecting(c) == clients[c].status \in {"connecting", "reconnecting"}

Connected(c) ==
    /\ Connecting(c)
    /\ redisUp
    /\ clients' = [clients EXCEPT ![c] = Ready(@)]
    /\ refused' = IF c = "cache" THEN 0 ELSE refused
    /\ UNCHANGED <<env, phase, lrs, redisUp, probe, ready>>

Refused(c) ==
    /\ Connecting(c)
    /\ ~redisUp
    /\ clients' = [clients EXCEPT ![c] = Closed(c)]
    /\ refused' = IF c = "cache" THEN Bounded(refused + 1) ELSE refused
    /\ UNCHANGED <<env, phase, lrs, redisUp, probe, ready>>

ConnectionLost(c) ==
    /\ clients[c].status = "ready"
    /\ ~redisUp
    /\ clients' = [clients EXCEPT ![c] = Closed(c)]
    /\ UNCHANGED <<env, phase, lrs, redisUp, probe, ready, refused>>

-----------------------------------------------------------------------------
(* RedisHealthIndicator.isHealthy under checkReadiness.                    *)

\* Mutant of Woken: the first command of a lazy client does not connect it.
WokenIfEnded(client) ==
    IF client.status = "end" THEN [client EXCEPT !.status = "connecting"] ELSE client

(* connect() if the client has ended, and the ping of one that waits.      *)
Woken(client) ==
    IF client.status \in {"wait", "end"}
    THEN [client EXCEPT !.status = "connecting"] ELSE client

CheckReadiness ==
    /\ phase = "listening"
    /\ ~probe
    /\ probe' = TRUE
    /\ clients' = [clients EXCEPT !["health"] = Woken(@)]
    /\ UNCHANGED <<env, phase, lrs, redisUp, ready, refused>>

(* The ping is queued until the client is ready.                           *)
Pong ==
    /\ probe
    /\ clients["health"].status = "ready"
    /\ redisUp
    /\ probe' = FALSE
    /\ ready' = "up"
    /\ UNCHANGED <<env, phase, lrs, clients, redisUp, refused>>

(* It fails with the attempts to connect, or after three seconds.          *)
PingFails ==
    /\ probe
    /\ ~redisUp \/ clients["health"].status # "ready"
    /\ probe' = FALSE
    /\ ready' = "down"
    /\ UNCHANGED <<env, phase, lrs, clients, redisUp, refused>>

RedisChange ==
    /\ redisUp' = ~redisUp
    /\ UNCHANGED <<env, phase, lrs, clients, probe, ready, refused>>

Next ==
    \/ StartFails
    \/ Start
    \/ Listen
    \/ \E c \in Names : Connected(c) \/ Refused(c) \/ ConnectionLost(c)
    \/ CheckReadiness
    \/ Pong
    \/ PingFails
    \/ RedisChange

Spec == Init /\ [][Next]_vars

(* main.ts runs on; ioredis' timers fire; an orchestrator goes on probing. *)
Fairness ==
    /\ WF_vars(Start)
    /\ WF_vars(Listen)
    /\ \A c \in Names : WF_vars(Connected(c)) /\ WF_vars(Refused(c))
    /\ WF_vars(CheckReadiness)
    /\ WF_vars(Pong)

FairSpec == Spec /\ Fairness

-----------------------------------------------------------------------------

(* Every variable has its type; only the cache client ends.                *)
TypeOK ==
    /\ env \in Envs
    /\ phase \in {"configuring", "initializing", "listening", "failed"}
    /\ \A c \in Names :
          /\ clients[c].status \in
                {"wait", "connecting", "ready", "reconnecting"}
                    \cup (IF c = "cache" THEN {"end"} ELSE {})
          /\ clients[c].attempts \in 0..(MaxRetries + 1)
    /\ redisUp \in BOOLEAN /\ probe \in BOOLEAN
    /\ ready \in {"unknown", "up", "down"}
    /\ refused \in 0..(MaxRetries + 1)

(* A service that runs has at least one LRS instance, and the instances    *)
(* have different ids and credentials that are not empty.  If nothing but  *)
(* the legacy variables could be used, the client queries the instance     *)
(* that was made of them, in its name.                                     *)
Complete(auth) ==
    \/ auth.type = "custom"
    \/ \A field \in DOMAIN auth \ {"type"} : auth[field] # Empty

ConfiguredLrs ==
    phase \in {"initializing", "listening"} =>
        /\ lrs.instances # <<>>
        /\ Cardinality({lrs.instances[n].id : n \in DOMAIN lrs.instances})
              = Len(lrs.instances)
        /\ \A n \in DOMAIN lrs.instances : Complete(lrs.instances[n].auth)
        /\ ~ParseLRSInstances(env).ok =>
              /\ Len(lrs.instances) = 1
              /\ \A field \in {"id", "endpoint", "timeoutMs", "auth"} :
                    ClientConfig(lrs)[field] = lrs.instances[1][field]

(* The cache client gives up only when as many attempts in a row as it has *)
(* been given were refused: outages that it came back from do not count.   *)
GivesUpOnlyAfterRetries ==
    clients["cache"].status = "end" => refused >= MaxRetries

(* A service with a valid environment comes up although Redis may be away, *)
(* and once Redis stays, probes find it ready.                             *)
ReadinessRecovers ==
    (Starts(env) /\ <>[]redisUp) => <>[](ready = "up")

-----------------------------------------------------------------------------
(* health.controller.ts: "Returns 200 if the application and all           *)
(* dependencies are ready"; cache.service.ts: "Supports automatic          *)
(* reconnection".  With Redis back for good and the probe content, the     *)
(* cache client is connected again.                                        *)
CacheReconnects ==
    <>[](redisUp /\ ready = "up") => <>[](clients["cache"].status = "ready")

=============================================================================
