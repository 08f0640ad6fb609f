--------------------------- MODULE CircuitBreaker ---------------------------
(***************************************************************************)
(* One CircuitBreaker object (core/resilience/circuit-breaker.ts) shared   *)
(* by concurrent callers.  execute() decides synchronously whether to call *)
(* the protected function; the outcome is recorded when its promise        *)
(* settles, by which time other calls may have moved the breaker on.       *)
(***************************************************************************)
EXTENDS BreakerTransitions, FiniteSets

CONSTANT Calls      \* the call sites: each has at most one call in flight

ASSUME CallsAssumption == IsFiniteSet(Calls)

VARIABLES
    breaker,        \* the object's private fields
    call,           \* what the latest call of each site has come to
    serviceUp,      \* the protected service answers
    exposed,        \* running calls that met the service while it was down
    \* History, read by the properties only:
    trials,         \* running calls let in by the current half-open period
    streak          \* failed outcomes since the last successful one

vars == <<breaker, call, serviceUp, exposed, trials, streak>>

Running == {c \in Calls : call[c] = "running"}

CallState == {"idle", "running", "ok", "failed", "rejected"}

Init ==
    /\ breaker = Closed
    /\ call = [c \in Calls |-> "idle"]
    /\ serviceUp = TRUE
    /\ exposed = {}
    /\ trials = {}
    /\ streak = 0

-----------------------------------------------------------------------------
(* execute(): fail fast, or count the attempt and start the call.          *)

Reject(c) ==
    /\ call[c] # "running"
    /\ Rejects(Entered(breaker))
    /\ breaker' = Entered(breaker)
    /\ call' = [call EXCEPT ![c] = "rejected"]
    /\ UNCHANGED <<serviceUp, exposed, trials, streak>>

Admit(c) ==
    LET entered == Entered(breaker) IN
    /\ call[c] # "running"
    /\ ~Rejects(entered)
    /\ breaker' = Admitted(entered)
    /\ call' = [call EXCEPT ![c] = "running"]
    /\ exposed' = IF serviceUp THEN exposed ELSE exposed \cup {c}
    /\ trials' = IF entered.state = "HALF_OPEN" THEN trials \cup {c} ELSE trials
    /\ UNCHANGED <<serviceUp, streak>>

Execute(c) == Admit(c) \/ Reject(c)

(* The promise of the protected function settles.                          *)

Settled(c, outcome) ==
    /\ call' = [call EXCEPT ![c] = outcome]
    /\ exposed' = exposed \ {c}
    /\ trials' = IF breaker'.state = "HALF_OPEN" THEN trials \ {c} ELSE {}
    /\ UNCHANGED serviceUp

Succeed(c) ==
    /\ call[c] = "running"
    /\ breaker' = OnSuccess(breaker)
    /\ Settled(c, "ok")
    /\ streak' = 0

Fail(c) ==
    /\ call[c] = "running"
    /\ c \in exposed
    /\ breaker' = OnFailure(breaker)
    /\ Settled(c, "failed")
    /\ streak' = IF streak < Threshold THEN streak + 1 ELSE streak

Settle(c) == Succeed(c) \/ Fail(c)

-----------------------------------------------------------------------------

Reset ==
    /\ breaker' = Closed
    /\ trials' = {}
    /\ UNCHANGED <<call, serviceUp, exposed, streak>>

Tick ==
    /\ CanAge(breaker)
    /\ breaker' = Aged(breaker)
    /\ UNCHANGED <<call, serviceUp, exposed, trials, streak>>

ServiceChange ==
    /\ serviceUp' = ~serviceUp
    /\ exposed' = IF serviceUp THEN Running ELSE exposed
    /\ UNCHANGED <<breaker, call, trials, streak>>

Next ==
    \/ \E c \in Calls : Execute(c) \/ Succeed(c) \/ Fail(c)
    \/ Reset
    \/ Tick
    \/ ServiceChange

Spec == Init /\ [][Next]_vars

(* The clock runs, callers keep calling, and every call settles: the HTTP  *)
(* client has a timeout.  Nothing is assumed of the service.               *)
FairSpec ==
    /\ Spec
    /\ WF_vars(Tick)
    /\ \A c \in Calls : WF_vars(Execute(c)) /\ WF_vars(Settle(c))

-----------------------------------------------------------------------------
(* Every variable has its type, and the history variables only speak of    *)
(* running calls.                                                          *)
TypeOK ==
    /\ breaker \in Breaker
    /\ call \in [Calls -> CallState]
    /\ serviceUp \in BOOLEAN
    /\ exposed \subseteq Running
    /\ trials \subseteq Running
    /\ streak \in 0..Threshold

(* In every state the object passes through, whatever calls of earlier     *)
(* periods settle meanwhile, its fields agree with each other, and a       *)
(* half-open period leaves no trials behind.                               *)
CountersMatchState ==
    /\ Consistent(breaker)
    /\ trials # {} => breaker.state = "HALF_OPEN"

(* Each half-open slot is held by a trial in flight or paid for by a       *)
(* success: none leaks, whatever calls of earlier periods do meanwhile.    *)
TrialAccounting ==
    breaker.state = "HALF_OPEN" =>
        breaker.halfOpenAttempts <= breaker.successCount + Cardinality(trials)

(* A half-open breaker that turns callers away is never left with nobody   *)
(* to decide its fate: it has no timer out of HALF_OPEN, so without a      *)
(* trial in flight it would fail fast for ever.                            *)
HalfOpenNeverWedged ==
    (breaker.state = "HALF_OPEN" /\ Rejects(breaker)) => trials # {}

(* While the service is being tested, at most halfOpenRequests calls of    *)
(* the half-open period are in flight at once.                             *)
TrialsBounded == Cardinality(trials) <= HalfOpenRequests

(* failureCount never runs ahead of the failures really seen in a row.     *)
FailureCountIsAStreak ==
    breaker.state = "CLOSED" => breaker.failureCount <= streak

(* The circuit opens from CLOSED only after `threshold' failures in a row: *)
(* one success among them, in whatever order the calls settle, is enough   *)
(* to keep it closed.                                                      *)
OpensOnlyAfterStreak ==
    [][breaker.state = "CLOSED" /\ breaker'.state = "OPEN"
        => streak' = Threshold]_vars

(* The breaker keeps the contract of a circuit breaker.                    *)
Contract == INSTANCE BreakerContract
            WITH state <- breaker.state,
                 cooled <- breaker.openedAge = Timeout,
                 admitted <- Running,
                 Call <- Calls

KeepsContract == Contract!Spec

(* Once the service stays up and is called, the circuit closes for good.   *)
Recovers == <>[]serviceUp => <>[](breaker.state = "CLOSED")

=============================================================================
