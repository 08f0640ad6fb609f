----------------------------- MODULE MetricQuery -----------------------------
(***************************************************************************)
(* How ComputationService (metrics/services/computation.service.ts) asks   *)
(* the LRS for statements.  It owns one circuit breaker and enters it at   *)
(* two levels: computeMetric and refreshCachedMetric wrap the whole of     *)
(* queryStatementsForMetric in execute(), and that function wraps each LRS *)
(* query, one per verb of METRIC_VERB_MAP or a single one, in execute() of *)
(* the same breaker.                                                       *)
(*                                                                         *)
(* Everything from the outer execute() to the last inner one runs without  *)
(* a wait, so Start is one step.  Each settlement is a step of its own:    *)
(* the outer promise follows its inner ones some microtasks later, and     *)
(* continuations of other requests may run in between.                     *)
(***************************************************************************)
EXTENDS BreakerTransitions, FiniteSets

CONSTANTS
    Requests,       \* the metric requests being served
    MaxFanOut,      \* the most LRS queries a metric needs
    FanOuts         \* the numbers of LRS queries a metric may need

ASSUME FanOutAssumption ==
    /\ IsFiniteSet(Requests)
    /\ MaxFanOut \in Nat
    /\ FanOuts \subseteq 1..MaxFanOut

VARIABLES
    breaker,        \* ComputationService.circuitBreaker
    query,          \* per request: the outer execute()
    inner,          \* per request: its inner execute() calls, in order
    lrsUp,          \* the LRS answers
    exposed,        \* inner calls in flight that met the LRS while it was down
    \* History, read by the properties only:
    probes,         \* calls in flight let in by the current half-open period
    lrsFailures     \* failed LRS queries since the last successful one

vars == <<breaker, query, inner, lrsUp, exposed, probes, lrsFailures>>

(* A call of the breaker: <<r, 0>> is the outer one of request r, <<r, i>> *)
(* its i-th inner one.                                                     *)
Outer(r) == <<r, 0>>

Slots == 0..MaxFanOut

CallIds == Requests \X Slots

InnerRunning(r) == {i \in DOMAIN inner[r] : inner[r][i] = "running"}

Running == {c \in CallIds :
               IF c[2] = 0 THEN query[c[1]] = "running"
                           ELSE c[2] \in InnerRunning(c[1])}

Init ==
    /\ breaker = Closed
    /\ query = [r \in Requests |-> "idle"]
    /\ inner = [r \in Requests |-> <<>>]
    /\ lrsUp = TRUE
    /\ exposed = {}
    /\ probes = {}
    /\ lrsFailures = 0

-----------------------------------------------------------------------------
(* n execute() calls of breaker b in a row: as many are let through as it  *)
(* has half-open slots left, the rest fail fast.                           *)

\* Mutant of Room: off by one in the half-open limit.
RoomForOneMore(b, n) ==
    IF b.state = "HALF_OPEN" /\ HalfOpenRequests - b.halfOpenAttempts + 1 < n
    THEN HalfOpenRequests - b.halfOpenAttempts + 1
    ELSE n

Room(b, n) ==
    IF b.state = "HALF_OPEN" /\ HalfOpenRequests - b.halfOpenAttempts < n
    THEN HalfOpenRequests - b.halfOpenAttempts
    ELSE n

\* Mutant of AfterFanOut: inner calls take no slots.
AfterFanOutUncounted(b, n) == b

AfterFanOut(b, n) ==
    IF b.state = "HALF_OPEN"
    THEN [b EXCEPT !.halfOpenAttempts = @ + Room(b, n)]
    ELSE b

(* A request whose earlier inner calls are all settled starts a query; the *)
(* slot r stands for as many successive requests as the run takes.         *)
Startable(r) == query[r] # "running" /\ InnerRunning(r) = {}

(* The outer execute() fails fast.                                         *)
StartRejected(r) ==
    /\ Startable(r)
    /\ Rejects(Entered(breaker))
    /\ breaker' = Entered(breaker)
    /\ query' = [query EXCEPT ![r] = "open"]
    /\ inner' = [inner EXCEPT ![r] = <<>>]
    /\ UNCHANGED <<lrsUp, exposed, probes, lrsFailures>>

(* The outer execute() calls queryStatementsForMetric, which makes n inner *)
(* ones: the first k are let through.                                      *)
Start(r, n) ==
    LET outer == Admitted(Entered(breaker))
        k == Room(outer, n)
        started == {Outer(r)} \cup {<<r, i>> : i \in 1..k}
    IN
    /\ Startable(r)
    /\ ~Rejects(Entered(breaker))
    /\ breaker' = AfterFanOut(outer, n)
    /\ query' = [query EXCEPT ![r] = "running"]
    /\ inner' = [inner EXCEPT ![r] =
                   [i \in 1..n |-> IF i <= k THEN "running" ELSE "rejected"]]
    /\ exposed' = IF lrsUp THEN exposed ELSE exposed \cup (started \ {Outer(r)})
    /\ probes' = IF outer.state = "HALF_OPEN" THEN probes \cup started
                                              ELSE probes
    /\ UNCHANGED <<lrsUp, lrsFailures>>

Settled(c) ==
    /\ exposed' = exposed \ {c}
    /\ probes' = IF breaker'.state = "HALF_OPEN" THEN probes \ {c} ELSE {}
    /\ UNCHANGED lrsUp

(* One LRS query comes back, whether or not the outer call still waits.    *)
InnerSucceed(r, i) ==
    /\ i \in InnerRunning(r)
    /\ breaker' = OnSuccess(breaker)
    /\ inner' = [inner EXCEPT ![r][i] = "ok"]
    /\ Settled(<<r, i>>)
    /\ lrsFailures' = 0
    /\ UNCHANGED query

InnerFail(r, i) ==
    /\ i \in InnerRunning(r)
    /\ <<r, i>> \in exposed
    /\ breaker' = OnFailure(breaker)
    /\ inner' = [inner EXCEPT ![r][i] = "failed"]
    /\ Settled(<<r, i>>)
    /\ lrsFailures' = IF lrsFailures < Threshold THEN lrsFailures + 1
                                                 ELSE lrsFailures
    /\ UNCHANGED query

(* Promise.all: all inner calls, or the first that is rejected.            *)
AllIn(r) == \A i \in DOMAIN inner[r] : inner[r][i] = "ok"

\* Mutants of Broken: only one of the two kinds of failure is passed on.
BrokenByLrs(r) == \E i \in DOMAIN inner[r] : inner[r][i] = "failed"
BrokenByBreaker(r) == \E i \in DOMAIN inner[r] : inner[r][i] = "rejected"

Broken(r) == \E i \in DOMAIN inner[r] : inner[r][i] \in {"failed", "rejected"}

OuterSucceed(r) ==
    /\ query[r] = "running"
    /\ AllIn(r)
    /\ breaker' = OnSuccess(breaker)
    /\ query' = [query EXCEPT ![r] = "ok"]
    /\ Settled(Outer(r))
    /\ UNCHANGED <<inner, lrsFailures>>

(* The error of the inner call is the outer one's too; the inner calls     *)
(* still running are left to themselves.                                   *)
OuterFail(r) ==
    /\ query[r] = "running"
    /\ Broken(r)
    /\ breaker' = OnFailure(breaker)
    /\ query' = [query EXCEPT ![r] =
                   IF \E i \in DOMAIN inner[r] : inner[r][i] = "rejected"
                   THEN "open" ELSE "failed"]
    /\ Settled(Outer(r))
    /\ UNCHANGED <<inner, lrsFailures>>

OuterSettle(r) == OuterSucceed(r) \/ OuterFail(r)

-----------------------------------------------------------------------------

Tick ==
    /\ CanAge(breaker)
    /\ breaker' = Aged(breaker)
    /\ UNCHANGED <<query, inner, lrsUp, exposed, probes, lrsFailures>>

LrsChange ==
    /\ lrsUp' = ~lrsUp
    /\ exposed' = IF lrsUp THEN {c \in Running : c[2] # 0} ELSE exposed
    /\ UNCHANGED <<breaker, query, inner, probes, lrsFailures>>

Ask(r) == StartRejected(r) \/ \E n \in FanOuts : Start(r, n)

InnerSettle(r, i) == InnerSucceed(r, i) \/ InnerFail(r, i)

Next ==
    \/ \E r \in Requests :
          \/ StartRejected(r)
          \/ \E n \in FanOuts : Start(r, n)
          \/ \E i \in Slots : InnerSucceed(r, i) \/ InnerFail(r, i)
          \/ OuterSucceed(r)
          \/ OuterFail(r)
    \/ Tick
    \/ LrsChange

Spec == Init /\ [][Next]_vars

(* The clock runs, clients keep asking, LRS queries settle (they have a    *)
(* timeout) and so do the promises that wait for them.                     *)
FairSpec ==
    /\ Spec
    /\ WF_vars(Tick)
    /\ \A r \in Requests :
          /\ WF_vars(Ask(r))
          /\ WF_vars(OuterSettle(r))
          /\ \A i \in Slots : WF_vars(InnerSettle(r, i))

-----------------------------------------------------------------------------
(* Every variable has its type.                                            *)
TypeOK ==
    /\ breaker \in Breaker
    /\ query \in [Requests -> {"idle", "running", "ok", "failed", "open"}]
    /\ inner \in [Requests ->
          UNION {[1..n -> {"running", "ok", "failed", "rejected"}] :
                    n \in {0} \cup FanOuts}]
    /\ lrsUp \in BOOLEAN
    /\ exposed \subseteq Running
    /\ probes \subseteq Running
    /\ lrsFailures \in 0..Threshold

(* The accounting of half-open slots survives being entered twice by the   *)
(* same request, orphaned inner calls included.                            *)
ProbeAccounting ==
    breaker.state = "HALF_OPEN" =>
        breaker.halfOpenAttempts <= breaker.successCount + Cardinality(probes)

CanSettle(c) ==
    IF c[2] = 0 THEN AllIn(c[1]) \/ Broken(c[1])
                ELSE c[2] \in InnerRunning(c[1])

(* When the half-open breaker turns requests away, some call that holds a  *)
(* slot can settle by itself: an outer call that waits for inner calls     *)
(* never waits for a slot only it could free.                              *)
HalfOpenNeverWedged ==
    (breaker.state = "HALF_OPEN" /\ Rejects(breaker)) =>
        \E c \in probes : CanSettle(c)

(* How much the LRS is really tested: every request that probes it holds a *)
(* slot for its own outer call, so fewer than halfOpenRequests LRS queries *)
(* of the half-open period run at once, and with the default of 1 none.    *)
LrsProbes == {c \in probes : c[2] # 0}

OuterHoldsASlot ==
    Cardinality(LrsProbes) + Cardinality({c[1] : c \in LrsProbes})
        <= HalfOpenRequests

(* Nested use keeps the contract of a circuit breaker.                     *)
Contract == INSTANCE BreakerContract
            WITH state <- breaker.state,
                 cooled <- breaker.openedAge = Timeout,
                 admitted <- Running,
                 Call <- CallIds

KeepsContract == Contract!Spec

(* No query hangs between its inner calls and its answer.                  *)
QueriesAnswered ==
    \A r \in Requests : query[r] = "running" ~> query[r] # "running"

(* circuit-breaker.ts:29-30: once the LRS stays up, requests get through   *)
(* and the circuit closes for good.                                        *)
Recovers == <>[]lrsUp => <>[](breaker.state = "CLOSED")

(* With single-query metrics a failed LRS query is counted for itself and  *)
(* once more for the outer call that it fails, and this second report may  *)
(* come late, after another query's success.  So about half of `threshold' *)
(* failures in a row open the circuit (.env.example:188 speaks of all of   *)
(* them): twice the failures since the last success exceed the threshold   *)
(* less the number of requests that are served at a time, so that with no  *)
(* more requests than the threshold there is at least one.                 *)
OpensOnlyOnLrsFailures ==
    [][breaker.state = "CLOSED" /\ breaker'.state = "OPEN"
        => 2 * lrsFailures' + Cardinality(Requests) > Threshold]_vars

=============================================================================
