------------------------- MODULE BreakerTransitions -------------------------
(***************************************************************************)
(* The state of one CircuitBreaker object and what each of its methods     *)
(* does to it, as operators on a record.  CircuitBreaker and MetricQuery   *)
(* are built from them: both have one breaker and differ in who calls it.  *)
(*                                                                         *)
(* Every method body here is synchronous JavaScript, so each operator is   *)
(* one atomic step.  Logging, the metrics registry (which only logs) and   *)
(* lastStateChange (which nothing reads back) are left out.                *)
(*                                                                         *)
(* openedAt is kept as an age: NotOpened for null, else the clock ticks    *)
(* since it was set, saturated at Timeout, which is all that               *)
(* shouldAttemptReset can tell apart.                                      *)
(***************************************************************************)
EXTENDS Integers

CONSTANTS
    Threshold,          \* config.threshold: failures that open the circuit
    Timeout,            \* config.timeout, in ticks of the model's clock
    HalfOpenRequests    \* config.halfOpenRequests

(* `||' in the constructor replaces 0, and the environment schema has a    *)
(* minimum of 1 for both counts and of 5000 ms for the timeout.            *)
ASSUME ConfigAssumption ==
    /\ Threshold \in Nat \ {0}
    /\ Timeout \in Nat \ {0}
    /\ HalfOpenRequests \in Nat \ {0}

NotOpened == -1

BreakerState == {"CLOSED", "OPEN", "HALF_OPEN"}

Breaker == [state            : BreakerState,
            failureCount     : 0..Threshold,
            successCount     : 0..HalfOpenRequests,
            openedAge        : NotOpened..Timeout,
            halfOpenAttempts : 0..HalfOpenRequests]

-----------------------------------------------------------------------------
(* The three transitions.  A new breaker is a closed one.                  *)

Closed == [state            |-> "CLOSED",
           failureCount     |-> 0,
           successCount     |-> 0,
           openedAge        |-> NotOpened,
           halfOpenAttempts |-> 0]

\* Mutant of ToOpen: the timer of the previous opening is kept.
ToOpenKeepingTimer(b) ==
    [b EXCEPT !.state = "OPEN", !.successCount = 0, !.halfOpenAttempts = 0,
              !.openedAge = IF @ = NotOpened THEN 0 ELSE @]

ToOpen(b) ==
    [b EXCEPT !.state = "OPEN", !.openedAge = 0,
              !.successCount = 0, !.halfOpenAttempts = 0]

ToHalfOpen(b) ==
    [b EXCEPT !.state = "HALF_OPEN", !.successCount = 0,
              !.halfOpenAttempts = 0]

-----------------------------------------------------------------------------
(* execute(), up to the call of the protected function.                    *)

ShouldAttemptReset(b) == b.openedAge # NotOpened /\ b.openedAge >= Timeout

Entered(b) ==
    IF b.state = "OPEN" /\ ShouldAttemptReset(b) THEN ToHalfOpen(b) ELSE b

\* Mutant of Rejects: off by one in the half-open limit.
RejectsOnlyAboveLimit(b) ==
    \/ b.state = "OPEN"
    \/ b.state = "HALF_OPEN" /\ b.halfOpenAttempts > HalfOpenRequests

Rejects(b) ==
    \/ b.state = "OPEN"
    \/ b.state = "HALF_OPEN" /\ b.halfOpenAttempts >= HalfOpenRequests

\* Mutant of Admitted: a call that is let through is counted twice.
AdmittedTwice(b) ==
    IF b.state = "HALF_OPEN"
    THEN [b EXCEPT !.halfOpenAttempts =
                     IF @ + 2 > HalfOpenRequests THEN HalfOpenRequests
                                                 ELSE @ + 2]
    ELSE b

Admitted(b) ==
    IF b.state = "HALF_OPEN" THEN [b EXCEPT !.halfOpenAttempts = @ + 1] ELSE b

-----------------------------------------------------------------------------
(* What the outcome of the protected function does.                        *)

\* Mutant of OnSuccess: a success does not end the run of failures.
OnSuccessKeepingFailures(b) ==
    IF b.state = "HALF_OPEN"
    THEN IF b.successCount + 1 >= HalfOpenRequests
         THEN Closed
         ELSE [b EXCEPT !.successCount = @ + 1]
    ELSE b

OnSuccess(b) ==
    CASE b.state = "HALF_OPEN" ->
           IF b.successCount + 1 >= HalfOpenRequests
           THEN Closed
           ELSE [b EXCEPT !.successCount = @ + 1]
      [] b.state = "CLOSED" -> [b EXCEPT !.failureCount = 0]
      [] OTHER -> b

\* Mutants of OnFailure: a failed trial is not taken as one; the threshold
\* must be exceeded.
OnFailureIgnoringTrials(b) ==
    IF b.state = "CLOSED"
    THEN LET counted == [b EXCEPT !.failureCount = @ + 1]
         IN  IF counted.failureCount >= Threshold THEN ToOpen(counted)
                                                  ELSE counted
    ELSE b

OnFailureAboveThreshold(b) ==
    CASE b.state = "HALF_OPEN" -> ToOpen(b)
      [] b.state = "CLOSED" -> IF b.failureCount >= Threshold
                               THEN ToOpen(b)
                               ELSE [b EXCEPT !.failureCount = @ + 1]
      [] OTHER -> b

OnFailure(b) ==
    CASE b.state = "HALF_OPEN" -> ToOpen(b)
      [] b.state = "CLOSED" ->
           LET counted == [b EXCEPT !.failureCount = @ + 1]
           IN  IF counted.failureCount >= Threshold THEN ToOpen(counted)
                                                    ELSE counted
      [] OTHER -> b

-----------------------------------------------------------------------------
(* One tick of the clock that Date.now() reads.                            *)

CanAge(b) == b.openedAge # NotOpened /\ b.openedAge < Timeout

Aged(b) == [b EXCEPT !.openedAge = @ + 1]

-----------------------------------------------------------------------------
(* The fields agree with each other: each transition resets exactly what   *)
(* the new state needs, so that no count of one period is carried into a   *)
(* later one.                                                              *)
Consistent(b) ==
    /\ b.state = "CLOSED" =>
          /\ b.failureCount < Threshold
          /\ b.successCount = 0
          /\ b.halfOpenAttempts = 0
          /\ b.openedAge = NotOpened
    /\ b.state = "OPEN" =>
          /\ b.failureCount = Threshold
          /\ b.successCount = 0
          /\ b.halfOpenAttempts = 0
          /\ b.openedAge # NotOpened
    /\ b.state = "HALF_OPEN" =>
          /\ b.failureCount = Threshold
          /\ b.successCount < HalfOpenRequests
          /\ b.openedAge = Timeout

=============================================================================
