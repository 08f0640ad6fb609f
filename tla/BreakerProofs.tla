---------------------------- MODULE BreakerProofs ----------------------------
(***************************************************************************)
(* What each method of the breaker does to a consistent one: it stays      *)
(* consistent, and its counters move as the accounting arguments of        *)
(* CircuitBreakerProofs and MetricQueryProofs need.                        *)
(***************************************************************************)
EXTENDS BreakerTransitions, FiniteSetTheorems, TLAPS

(* Removing one element lowers a cardinality by at most one.               *)
LEMMA CardinalityAfterRemoval ==
    ASSUME NEW S, IsFiniteSet(S), NEW x
    PROVE  /\ IsFiniteSet(S \ {x})
           /\ Cardinality(S) \in Nat
           /\ Cardinality(S \ {x}) \in Nat
           /\ Cardinality(S \ {x}) <= Cardinality(S)
           /\ Cardinality(S) <= Cardinality(S \ {x}) + 1
<1>1. /\ IsFiniteSet(S \ {x})
      /\ Cardinality(S) \in Nat
      /\ Cardinality(S \ {x}) \in Nat
  BY FS_RemoveElement, FS_CardinalityType
<1>2. Cardinality(S \ {x}) = Cardinality(S) - 1
      \/ Cardinality(S \ {x}) = Cardinality(S)
  BY FS_RemoveElement
<1> QED
  BY <1>1, <1>2

Sound(b) == b \in Breaker /\ Consistent(b)

(* A new breaker is consistent.                                            *)
LEMMA ClosedSound == Sound(Closed)
BY ConfigAssumption DEF Sound, Consistent, Closed, Breaker, BreakerState,
   NotOpened

(* execute() may move an open breaker to HALF_OPEN, and only once it has   *)
(* cooled down; otherwise it leaves it alone.                              *)
LEMMA EnteredSound ==
    ASSUME NEW b, Sound(b)
    PROVE  /\ Sound(Entered(b))
           /\ \/ Entered(b) = b
              \/ /\ b.state = "OPEN"
                 /\ b.openedAge = Timeout
                 /\ Entered(b).state = "HALF_OPEN"
                 /\ Entered(b).successCount = 0
                 /\ Entered(b).halfOpenAttempts = 0
           /\ Entered(b).openedAge = b.openedAge
<1>1. CASE b.state = "OPEN" /\ ShouldAttemptReset(b)
  <2>1. Entered(b) = ToHalfOpen(b)
    BY <1>1 DEF Entered
  <2>2. b.openedAge = Timeout
    BY <1>1, ConfigAssumption
    DEF Sound, ShouldAttemptReset, Breaker, NotOpened
  <2> DEFINE h == ToHalfOpen(b)
  <2>3. h \in Breaker
    <3>1. "HALF_OPEN" \in BreakerState
      BY DEF BreakerState
    <3>2. 0 \in 0..HalfOpenRequests
      BY ConfigAssumption
    <3> QED
      BY <3>1, <3>2 DEF ToHalfOpen, Sound, Breaker
  <2>4. /\ h.state = "HALF_OPEN"
        /\ h.failureCount = b.failureCount
        /\ h.successCount = 0
        /\ h.openedAge = b.openedAge
        /\ h.halfOpenAttempts = 0
    BY DEF ToHalfOpen, Sound, Breaker
  <2>5. Consistent(h)
    BY <1>1, <2>2, <2>4, ConfigAssumption DEF Sound, Consistent
  <2> QED
    BY <1>1, <2>1, <2>2, <2>3, <2>4, <2>5 DEF Sound
<1>2. CASE ~(b.state = "OPEN" /\ ShouldAttemptReset(b))
  BY <1>2 DEF Entered
<1> QED
  BY <1>1, <1>2

(* A call that is let through takes one half-open slot, and nothing else.  *)
LEMMA AdmittedSound ==
    ASSUME NEW b, Sound(b), ~Rejects(b)
    PROVE  /\ Sound(Admitted(b))
           /\ b.state \in {"CLOSED", "HALF_OPEN"}
           /\ Admitted(b).state = b.state
           /\ Admitted(b).successCount = b.successCount
           /\ Admitted(b).failureCount = b.failureCount
           /\ Admitted(b).openedAge = b.openedAge
           /\ b.state = "HALF_OPEN" =>
                Admitted(b).halfOpenAttempts = b.halfOpenAttempts + 1
BY ConfigAssumption
DEF Admitted, Rejects, Sound, Consistent, Breaker, BreakerState, NotOpened

(* A success closes a half-open breaker or is counted.                     *)
LEMMA OnSuccessSound ==
    ASSUME NEW b, Sound(b)
    PROVE  /\ Sound(OnSuccess(b))
           /\ \/ OnSuccess(b).state = b.state
              \/ b.state = "HALF_OPEN" /\ OnSuccess(b).state = "CLOSED"
           /\ OnSuccess(b).state = b.state => OnSuccess(b).openedAge = b.openedAge
           /\ OnSuccess(b).state = "CLOSED" =>
                /\ OnSuccess(b).failureCount = 0
                /\ OnSuccess(b).openedAge = NotOpened
           /\ OnSuccess(b).state = "HALF_OPEN" =>
                /\ OnSuccess(b).successCount = b.successCount + 1
                /\ OnSuccess(b).halfOpenAttempts = b.halfOpenAttempts
<1>1. CASE b.state = "CLOSED"
  BY <1>1, ConfigAssumption
  DEF OnSuccess, Sound, Consistent, Breaker, BreakerState, NotOpened
<1>2. CASE b.state = "OPEN"
  BY <1>2 DEF OnSuccess, Sound
<1>3. CASE b.state = "HALF_OPEN"
  <2>1. CASE b.successCount + 1 >= HalfOpenRequests
    <3>1. OnSuccess(b) = Closed
      BY <1>3, <2>1 DEF OnSuccess
    <3> QED
      BY <1>3, <3>1, ClosedSound DEF Closed
  <2>2. CASE ~(b.successCount + 1 >= HalfOpenRequests)
    <3>1. OnSuccess(b) = [b EXCEPT !.successCount = @ + 1]
      BY <1>3, <2>2 DEF OnSuccess
    <3> QED
      BY <1>3, <2>2, <3>1, ConfigAssumption
      DEF Sound, Consistent, Breaker, BreakerState, NotOpened
  <2> QED
    BY <2>1, <2>2
<1> QED
  BY <1>1, <1>2, <1>3 DEF Sound, Breaker, BreakerState

(* Opening a breaker whose failures have reached the threshold.            *)
LEMMA ToOpenSound ==
    ASSUME NEW b \in Breaker, b.failureCount = Threshold
    PROVE  /\ Sound(ToOpen(b))
           /\ ToOpen(b).state = "OPEN"
           /\ ToOpen(b).openedAge = 0
<1>1. ToOpen(b) \in Breaker
  <2>1. "OPEN" \in BreakerState
    BY DEF BreakerState
  <2>2. 0 \in 0..HalfOpenRequests /\ 0 \in NotOpened..Timeout
    BY ConfigAssumption DEF NotOpened
  <2> QED
    BY <2>1, <2>2 DEF ToOpen, Breaker
<1>2. /\ ToOpen(b).state = "OPEN"
      /\ ToOpen(b).failureCount = Threshold
      /\ ToOpen(b).successCount = 0
      /\ ToOpen(b).openedAge = 0
      /\ ToOpen(b).halfOpenAttempts = 0
  BY DEF ToOpen, Breaker
<1> QED
  BY <1>1, <1>2 DEF Sound, Consistent, NotOpened

(* A failure opens a half-open breaker; it opens a closed one only when    *)
(* failureCount reaches Threshold.                                         *)
LEMMA OnFailureSound ==
    ASSUME NEW b, Sound(b)
    PROVE  /\ Sound(OnFailure(b))
           /\ OnFailure(b).state # "HALF_OPEN"
           /\ b.state = "OPEN" => OnFailure(b) = b
           /\ b.state # "OPEN" /\ OnFailure(b).state = "OPEN" =>
                OnFailure(b).openedAge = 0
           /\ b.state = "HALF_OPEN" => OnFailure(b).state = "OPEN"
           /\ b.state = "CLOSED" =>
                \/ /\ OnFailure(b).state = "CLOSED"
                   /\ OnFailure(b).failureCount = b.failureCount + 1
                   /\ OnFailure(b).openedAge = NotOpened
                \/ /\ OnFailure(b).state = "OPEN"
                   /\ b.failureCount + 1 = Threshold
<1>1. CASE b.state = "CLOSED"
  <2> DEFINE counted == [b EXCEPT !.failureCount = @ + 1]
  <2>1. CASE counted.failureCount >= Threshold
    <3>1. OnFailure(b) = ToOpen(counted)
      BY <1>1, <2>1 DEF OnFailure
    <3>2. b.failureCount + 1 = Threshold
      BY <1>1, <2>1, ConfigAssumption DEF Sound, Consistent, Breaker
    <3>3. counted \in Breaker /\ counted.failureCount = Threshold
      BY <3>2, ConfigAssumption DEF Sound, Breaker
    <3>4. /\ Sound(ToOpen(counted))
          /\ ToOpen(counted).state = "OPEN"
          /\ ToOpen(counted).openedAge = 0
      BY <3>3, ToOpenSound
    <3> QED
      BY <1>1, <3>1, <3>2, <3>4
  <2>2. CASE ~(counted.failureCount >= Threshold)
    <3>1. OnFailure(b) = counted
      BY <1>1, <2>2 DEF OnFailure
    <3> QED
      BY <1>1, <2>2, <3>1, ConfigAssumption
      DEF Sound, Consistent, Breaker, BreakerState, NotOpened
  <2> QED
    BY <2>1, <2>2
<1>2. CASE b.state = "OPEN"
  BY <1>2 DEF OnFailure, Sound
<1>3. CASE b.state = "HALF_OPEN"
  <2>1. OnFailure(b) = ToOpen(b)
    BY <1>3 DEF OnFailure
  <2>2. b \in Breaker /\ b.failureCount = Threshold
    BY <1>3 DEF Sound, Consistent
  <2> QED
    BY <1>3, <2>1, <2>2, ToOpenSound
<1> QED
  BY <1>1, <1>2, <1>3 DEF Sound, Breaker, BreakerState

(* Time only ages an opening, and only while the breaker is open: in every *)
(* other state there is none, or it has cooled down already.               *)
LEMMA AgedSound ==
    ASSUME NEW b, Sound(b), CanAge(b)
    PROVE  /\ Sound(Aged(b))
           /\ b.state = "OPEN"
           /\ Aged(b).state = "OPEN"
           /\ Aged(b).openedAge = b.openedAge + 1
BY ConfigAssumption
DEF CanAge, Aged, Sound, Consistent, Breaker, BreakerState, NotOpened

=============================================================================
