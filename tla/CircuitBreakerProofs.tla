------------------------ MODULE CircuitBreakerProofs ------------------------
(***************************************************************************)
(* The safety properties of CircuitBreaker, for any number of callers and  *)
(* any configuration.  The inductive invariant pairs the two bounds on     *)
(* the half-open slots: a trial in flight holds one (TrialsHoldSlots), and *)
(* a taken one is held or paid for (TrialAccounting).                      *)
(***************************************************************************)
EXTENDS CircuitBreaker, BreakerProofs

TrialsHoldSlots == Cardinality(trials) <= breaker.halfOpenAttempts

IndInv ==
    /\ TypeOK
    /\ CountersMatchState
    /\ TrialsHoldSlots
    /\ TrialAccounting
    /\ FailureCountIsAStreak

-----------------------------------------------------------------------------

(* Trials are finitely many, so they can be counted.                       *)
LEMMA TrialsFinite ==
    ASSUME TypeOK
    PROVE  IsFiniteSet(trials) /\ Cardinality(trials) \in Nat
<1>1. trials \subseteq Calls
  BY DEF TypeOK, Running
<1> QED
  BY <1>1, CallsAssumption, FS_Subset, FS_CardinalityType

(* No call is running at first, and a new breaker is consistent.           *)
LEMMA InitIndInv == Init => IndInv
<1> SUFFICES ASSUME Init PROVE IndInv
  OBVIOUS
<1>1. Sound(breaker) /\ breaker.state = "CLOSED" /\ breaker.failureCount = 0
  BY ClosedSound DEF Init, Closed
<1>2. TypeOK
  BY <1>1, ConfigAssumption DEF Init, TypeOK, Running, CallState, Sound
<1>3. CountersMatchState
  BY <1>1 DEF Init, CountersMatchState, Sound
<1>4. Cardinality(trials) = 0
  BY FS_EmptySet DEF Init
<1>5. TrialsHoldSlots /\ TrialAccounting
  BY <1>1, <1>4 DEF TrialsHoldSlots, TrialAccounting, Sound, Consistent
<1>6. FailureCountIsAStreak
  BY <1>1 DEF Init, FailureCountIsAStreak
<1> QED
  BY <1>2, <1>3, <1>5, <1>6 DEF IndInv

-----------------------------------------------------------------------------
(* One lemma per action.                                                   *)

(* Failing fast changes neither the breaker nor the trials: if execute()   *)
(* had moved it to HALF_OPEN there would have been a slot.                 *)
LEMMA RejectIndInv ==
    ASSUME IndInv, NEW c \in Calls, Reject(c)
    PROVE  IndInv' /\ breaker' = breaker /\ Running' = Running
<1>1. Sound(breaker)
  BY DEF IndInv, TypeOK, CountersMatchState, Sound
<1>2. breaker' = breaker
  <2>1. CASE Entered(breaker) = breaker
    BY <2>1 DEF Reject
  <2>2. CASE Entered(breaker) # breaker
    <3>1. Entered(breaker).state = "HALF_OPEN"
          /\ Entered(breaker).halfOpenAttempts = 0
      BY <1>1, <2>2, EnteredSound
    <3> QED
      BY <3>1, ConfigAssumption DEF Reject, Rejects
  <2> QED
    BY <2>1, <2>2
<1>3. Running' = Running /\ call' \in [Calls -> CallState]
  BY DEF IndInv, TypeOK, Reject, Running, CallState
<1> QED
  BY <1>2, <1>3
  DEF IndInv, TypeOK, CountersMatchState, TrialsHoldSlots, TrialAccounting,
      FailureCountIsAStreak, Reject

(* A call that is let in takes a slot and becomes a trial, or the breaker  *)
(* is closed.                                                              *)
LEMMA AdmitIndInv ==
    ASSUME IndInv, NEW c \in Calls, Admit(c)
    PROVE  IndInv' /\ Running' = Running \cup {c} /\ c \notin Running
<1> DEFINE entered == Entered(breaker)
<1>1. Sound(breaker) /\ TypeOK
  BY DEF IndInv, TypeOK, CountersMatchState, Sound
<1>2. Sound(entered) /\ ~Rejects(entered)
  BY <1>1, EnteredSound DEF Admit
<1>3. /\ Sound(breaker')
      /\ entered.state \in {"CLOSED", "HALF_OPEN"}
      /\ breaker'.state = entered.state
      /\ breaker'.successCount = entered.successCount
      /\ breaker'.failureCount = entered.failureCount
      /\ entered.state = "HALF_OPEN" =>
           breaker'.halfOpenAttempts = entered.halfOpenAttempts + 1
  BY <1>2, AdmittedSound DEF Admit
<1>4. \/ entered = breaker
      \/ /\ breaker.state = "OPEN"
         /\ entered.state = "HALF_OPEN"
         /\ entered.successCount = 0
         /\ entered.halfOpenAttempts = 0
  BY <1>1, EnteredSound
<1>5. /\ Running' = Running \cup {c}
      /\ c \notin Running
      /\ call' \in [Calls -> CallState]
  BY <1>1 DEF TypeOK, Admit, Running, CallState
<1>6. TypeOK'
  BY <1>1, <1>3, <1>5 DEF TypeOK, Admit, Sound
<1>7. CountersMatchState'
  <2>1. trials' # {} => breaker'.state = "HALF_OPEN"
    BY <1>3, <1>4 DEF Admit, IndInv, CountersMatchState
  <2> QED
    BY <1>3, <2>1 DEF CountersMatchState, Sound
<1>8. IsFiniteSet(trials) /\ Cardinality(trials) \in Nat
  BY <1>1, TrialsFinite
<1>9. TrialsHoldSlots' /\ TrialAccounting'
  <2>1. CASE entered.state = "HALF_OPEN"
    <3>1. trials' = trials \cup {c} /\ c \notin trials
      BY <1>1, <1>5, <2>1 DEF Admit, TypeOK
    <3>2. Cardinality(trials') = Cardinality(trials) + 1
      BY <1>8, <3>1, FS_AddElement
    <3>3. CASE entered = breaker
      <4>1. /\ breaker'.halfOpenAttempts = breaker.halfOpenAttempts + 1
            /\ breaker'.successCount = breaker.successCount
        BY <1>3, <2>1, <3>3
      <4>2. /\ Cardinality(trials) <= breaker.halfOpenAttempts
            /\ breaker.halfOpenAttempts
                 <= breaker.successCount + Cardinality(trials)
        BY <2>1, <3>3 DEF IndInv, TrialsHoldSlots, TrialAccounting
      <4>3. breaker.halfOpenAttempts \in Nat /\ breaker.successCount \in Nat
        BY <1>1, ConfigAssumption DEF Sound, Breaker
      <4> QED
        BY <1>8, <3>2, <4>1, <4>2, <4>3 DEF TrialsHoldSlots, TrialAccounting
    <3>4. CASE entered # breaker
      <4>1. trials = {}
        BY <1>4, <3>4 DEF IndInv, CountersMatchState
      <4>2. Cardinality(trials') = 1
        BY <3>2, <4>1, FS_EmptySet
      <4>3. breaker'.halfOpenAttempts = 1 /\ breaker'.successCount = 0
        BY <1>3, <1>4, <2>1, <3>4
      <4> QED
        BY <4>2, <4>3 DEF TrialsHoldSlots, TrialAccounting
    <3> QED
      BY <3>3, <3>4
  <2>2. CASE entered.state = "CLOSED"
    <3>1. breaker'.state = "CLOSED" /\ breaker.state = "CLOSED"
          /\ trials' = trials
      BY <1>3, <1>4, <2>2 DEF Admit
    <3>2. trials' = {} /\ Cardinality(trials') = 0
      BY <3>1, FS_EmptySet DEF IndInv, CountersMatchState
    <3>3. breaker'.halfOpenAttempts = 0
      BY <1>3, <3>1 DEF Sound, Consistent
    <3> QED
      BY <3>1, <3>2, <3>3 DEF TrialsHoldSlots, TrialAccounting
  <2> QED
    BY <1>3, <2>1, <2>2
<1>10. FailureCountIsAStreak'
  BY <1>3, <1>4 DEF Admit, IndInv, FailureCountIsAStreak
<1> QED
  BY <1>5, <1>6, <1>7, <1>9, <1>10 DEF IndInv

(* What Succeed and Fail have in common.                                   *)
LEMMA SettledRunning ==
    ASSUME TypeOK, NEW c \in Calls, c \in Running, NEW outcome,
           outcome \in {"ok", "failed"}, Settled(c, outcome)
    PROVE  /\ Running' = Running \ {c}
           /\ call' \in [Calls -> CallState]
           /\ exposed' \subseteq Running'
           /\ trials' \subseteq Running'
           /\ serviceUp' \in BOOLEAN
<1>1. Running' = Running \ {c} /\ call' \in [Calls -> CallState]
  BY DEF TypeOK, Settled, Running, CallState
<1> QED
  BY <1>1 DEF TypeOK, Settled

(* A success gives a slot back as success credit, whether or not the call  *)
(* that succeeds is a trial.                                               *)
LEMMA SucceedIndInv ==
    ASSUME IndInv, NEW c \in Calls, Succeed(c)
    PROVE  IndInv' /\ Running' = Running \ {c} /\ c \in Running
<1>1. Sound(breaker) /\ TypeOK /\ c \in Running
  BY DEF IndInv, TypeOK, CountersMatchState, Sound, Succeed, Running
<1>2. /\ Sound(breaker')
      /\ \/ breaker'.state = breaker.state
         \/ breaker.state = "HALF_OPEN" /\ breaker'.state = "CLOSED"
      /\ breaker'.state = "CLOSED" => breaker'.failureCount = 0
      /\ breaker'.state = "HALF_OPEN" =>
           /\ breaker'.successCount = breaker.successCount + 1
           /\ breaker'.halfOpenAttempts = breaker.halfOpenAttempts
  BY <1>1, OnSuccessSound DEF Succeed
<1>3. /\ Running' = Running \ {c}
      /\ call' \in [Calls -> CallState]
      /\ exposed' \subseteq Running'
      /\ trials' \subseteq Running'
      /\ serviceUp' \in BOOLEAN
  BY <1>1, SettledRunning DEF Succeed
<1>4. TypeOK'
  BY <1>2, <1>3, ConfigAssumption DEF TypeOK, Succeed, Sound
<1>5. CountersMatchState'
  BY <1>2 DEF CountersMatchState, Succeed, Settled, Sound
<1>6. TrialsHoldSlots' /\ TrialAccounting'
  <2>1. CASE breaker'.state = "HALF_OPEN"
    <3>1. trials' = trials \ {c} /\ breaker.state = "HALF_OPEN"
      BY <1>2, <2>1 DEF Succeed, Settled
    <3>2. IsFiniteSet(trials) /\ Cardinality(trials) \in Nat
      BY <1>1, TrialsFinite
    <3>3. /\ Cardinality(trials') <= Cardinality(trials)
          /\ Cardinality(trials) <= Cardinality(trials') + 1
          /\ Cardinality(trials') \in Nat
      BY <3>1, <3>2, CardinalityAfterRemoval
    <3>4. /\ Cardinality(trials) <= breaker.halfOpenAttempts
          /\ breaker.halfOpenAttempts
               <= breaker.successCount + Cardinality(trials)
      BY <3>1 DEF IndInv, TrialsHoldSlots, TrialAccounting
    <3>5. breaker.halfOpenAttempts \in Nat /\ breaker.successCount \in Nat
      BY <1>1, ConfigAssumption DEF Sound, Breaker
    <3> QED
      BY <1>2, <2>1, <3>2, <3>3, <3>4, <3>5
      DEF TrialsHoldSlots, TrialAccounting
  <2>2. CASE breaker'.state # "HALF_OPEN"
    <3>1. trials' = {} /\ Cardinality(trials') = 0
      BY <2>2, FS_EmptySet DEF Succeed, Settled
    <3>2. breaker'.halfOpenAttempts \in Nat
      BY <1>2, ConfigAssumption DEF Sound, Breaker
    <3> QED
      BY <2>2, <3>1, <3>2 DEF TrialsHoldSlots, TrialAccounting
  <2> QED
    BY <2>1, <2>2
<1>7. FailureCountIsAStreak'
  BY <1>2 DEF FailureCountIsAStreak, Succeed
<1> QED
  BY <1>1, <1>3, <1>4, <1>5, <1>6, <1>7 DEF IndInv

(* A failure leaves no half-open period, and so no trials.                 *)
LEMMA FailIndInv ==
    ASSUME IndInv, NEW c \in Calls, Fail(c)
    PROVE  /\ IndInv'
           /\ Running' = Running \ {c} /\ c \in Running
           /\ breaker.state = "CLOSED" /\ breaker'.state = "OPEN" =>
                streak' = Threshold
<1>1. Sound(breaker) /\ TypeOK /\ c \in Running
  BY DEF IndInv, TypeOK, CountersMatchState, Sound, Fail, Running
<1>2. /\ Sound(breaker')
      /\ breaker'.state # "HALF_OPEN"
      /\ breaker.state = "OPEN" => breaker' = breaker
      /\ breaker.state = "HALF_OPEN" => breaker'.state = "OPEN"
      /\ breaker.state = "CLOSED" =>
           \/ /\ breaker'.state = "CLOSED"
              /\ breaker'.failureCount = breaker.failureCount + 1
           \/ /\ breaker'.state = "OPEN"
              /\ breaker.failureCount + 1 = Threshold
  BY <1>1, OnFailureSound DEF Fail
<1>3. /\ Running' = Running \ {c}
      /\ call' \in [Calls -> CallState]
      /\ exposed' \subseteq Running'
      /\ trials' \subseteq Running'
      /\ serviceUp' \in BOOLEAN
  BY <1>1, SettledRunning DEF Fail
<1>4. streak \in 0..Threshold /\ streak' \in 0..Threshold
  BY <1>1, ConfigAssumption DEF TypeOK, Fail
<1>5. TypeOK'
  BY <1>2, <1>3, <1>4 DEF TypeOK, Sound
<1>6. trials' = {} /\ Cardinality(trials') = 0
  BY <1>2, FS_EmptySet DEF Fail, Settled
<1>7. CountersMatchState'
  BY <1>2, <1>6 DEF CountersMatchState, Sound
<1>8. TrialsHoldSlots' /\ TrialAccounting'
  <2>1. breaker'.halfOpenAttempts \in Nat
    BY <1>2, ConfigAssumption DEF Sound, Breaker
  <2> QED
    BY <1>2, <1>6, <2>1 DEF TrialsHoldSlots, TrialAccounting
<1>9. breaker.state = "CLOSED" =>
        /\ breaker.failureCount \in Nat
        /\ breaker.failureCount < Threshold
        /\ breaker.failureCount <= streak
  BY <1>1, ConfigAssumption
  DEF IndInv, FailureCountIsAStreak, Sound, Consistent, Breaker
<1>10. FailureCountIsAStreak'
  <2> SUFFICES ASSUME breaker'.state = "CLOSED"
               PROVE  breaker'.failureCount <= streak'
    BY DEF FailureCountIsAStreak
  <2>1. breaker.state = "CLOSED"
    BY <1>1, <1>2 DEF Sound, Breaker, BreakerState
  <2>2. breaker'.failureCount = breaker.failureCount + 1
    BY <1>2, <2>1
  <2> QED
    BY <1>4, <1>9, <2>1, <2>2, ConfigAssumption DEF Fail
<1>11. breaker.state = "CLOSED" /\ breaker'.state = "OPEN" =>
         streak' = Threshold
  BY <1>2, <1>4, <1>9, ConfigAssumption DEF Fail
<1> QED
  BY <1>1, <1>3, <1>5, <1>7, <1>8, <1>10, <1>11 DEF IndInv

(* A manual reset ends every period and forgets its trials.                *)
LEMMA ResetIndInv ==
    ASSUME IndInv, Reset
    PROVE  IndInv' /\ Running' = Running
<1>1. TypeOK /\ Running' = Running
  BY DEF IndInv, Reset, Running
<1>2. /\ Sound(breaker')
      /\ breaker'.state = "CLOSED"
      /\ breaker'.failureCount = 0
      /\ breaker'.halfOpenAttempts = 0
  BY ClosedSound DEF Reset, Closed
<1>3. TypeOK'
  BY <1>1, <1>2 DEF TypeOK, Reset, Sound
<1>4. CountersMatchState'
  BY <1>2 DEF CountersMatchState, Reset, Sound
<1>5. TrialsHoldSlots' /\ TrialAccounting'
  BY <1>2, FS_EmptySet DEF TrialsHoldSlots, TrialAccounting, Reset
<1>6. FailureCountIsAStreak'
  BY <1>1, <1>2, ConfigAssumption DEF FailureCountIsAStreak, TypeOK, Reset
<1> QED
  BY <1>1, <1>3, <1>4, <1>5, <1>6 DEF IndInv

(* The clock only moves an open breaker.                                   *)
LEMMA TickIndInv ==
    ASSUME IndInv, Tick
    PROVE  IndInv' /\ Running' = Running
<1>1. Sound(breaker) /\ TypeOK /\ Running' = Running
  BY DEF IndInv, TypeOK, CountersMatchState, Sound, Tick, Running
<1>2. Sound(breaker') /\ breaker.state = "OPEN" /\ breaker'.state = "OPEN"
  BY <1>1, AgedSound DEF Tick
<1>3. TypeOK'
  BY <1>1, <1>2 DEF TypeOK, Tick, Sound
<1>4. trials' = {} /\ Cardinality(trials') = 0
  BY <1>2, FS_EmptySet DEF Tick, IndInv, CountersMatchState
<1>5. breaker'.halfOpenAttempts \in Nat
  BY <1>2, ConfigAssumption DEF Sound, Breaker
<1> QED
  BY <1>1, <1>2, <1>3, <1>4, <1>5
  DEF IndInv, CountersMatchState, TrialsHoldSlots, TrialAccounting,
      FailureCountIsAStreak, Sound

(* What becomes of the service does not touch the breaker.                 *)
LEMMA ServiceChangeIndInv ==
    ASSUME IndInv, ServiceChange
    PROVE  IndInv' /\ Running' = Running /\ breaker' = breaker
<1>1. Running' = Running
  BY DEF ServiceChange, Running
<1> QED
  BY <1>1
  DEF IndInv, ServiceChange, TypeOK, CountersMatchState, TrialsHoldSlots,
      TrialAccounting, FailureCountIsAStreak

-----------------------------------------------------------------------------
(* The inductive invariant, and what follows from it.                      *)

(* Every step, of any caller, preserves the accounting.                    *)
LEMMA NextIndInv == IndInv /\ [Next]_vars => IndInv'
<1> SUFFICES ASSUME IndInv, [Next]_vars PROVE IndInv'
  OBVIOUS
<1>1. CASE UNCHANGED vars
  BY <1>1
  DEF vars, IndInv, TypeOK, CountersMatchState, TrialsHoldSlots,
      TrialAccounting, FailureCountIsAStreak, Running
<1>2. ASSUME NEW c \in Calls, Execute(c) PROVE IndInv'
  BY <1>2, AdmitIndInv, RejectIndInv DEF Execute
<1>3. ASSUME NEW c \in Calls, Succeed(c) PROVE IndInv'
  BY <1>3, SucceedIndInv
<1>4. ASSUME NEW c \in Calls, Fail(c) PROVE IndInv'
  BY <1>4, FailIndInv
<1>5. CASE Reset
  BY <1>5, ResetIndInv
<1>6. CASE Tick
  BY <1>6, TickIndInv
<1>7. CASE ServiceChange
  BY <1>7, ServiceChangeIndInv
<1> QED
  BY <1>1, <1>2, <1>3, <1>4, <1>5, <1>6, <1>7 DEF Next

(* The invariant holds in every reachable state.                           *)
LEMMA Invariance == Spec => []IndInv
  BY InitIndInv, NextIndInv, PTL DEF Spec

(* The fields of the breaker keep their types, and exposed and trials only *)
(* speak of running calls.                                                 *)
THEOREM TypeCorrect == Spec => []TypeOK
<1>1. IndInv => TypeOK
  BY DEF IndInv
<1> QED
  BY <1>1, Invariance, PTL

(* The fields of the breaker agree with its state, whatever settles when.  *)
THEOREM CountersConsistent == Spec => []CountersMatchState
<1>1. IndInv => CountersMatchState
  BY DEF IndInv
<1> QED
  BY <1>1, Invariance, PTL

(* No half-open slot leaks.                                                *)
THEOREM TrialsAccounted == Spec => []TrialAccounting
<1>1. IndInv => TrialAccounting
  BY DEF IndInv
<1> QED
  BY <1>1, Invariance, PTL

(* A half-open breaker that turns callers away has a trial in flight: all  *)
(* its slots are taken and fewer are paid for by successes.                *)
THEOREM NeverWedged == Spec => []HalfOpenNeverWedged
<1>1. IndInv => HalfOpenNeverWedged
  <2> SUFFICES ASSUME IndInv, breaker.state = "HALF_OPEN", Rejects(breaker)
               PROVE  trials # {}
    BY DEF HalfOpenNeverWedged
  <2>1. /\ breaker.halfOpenAttempts >= HalfOpenRequests
        /\ breaker.halfOpenAttempts \in Nat
        /\ breaker.successCount < HalfOpenRequests
        /\ breaker.successCount \in Nat
        /\ breaker.halfOpenAttempts
             <= breaker.successCount + Cardinality(trials)
    BY ConfigAssumption
    DEF IndInv, TypeOK, CountersMatchState, Consistent, TrialAccounting,
        Rejects, Breaker
  <2>2. trials = {} => Cardinality(trials) = 0
    BY FS_EmptySet
  <2> QED
    BY <2>1, <2>2, ConfigAssumption
<1> QED
  BY <1>1, Invariance, PTL

(* At most halfOpenRequests trials are in flight at once.                  *)
THEOREM TrialsWithinLimit == Spec => []TrialsBounded
<1>1. IndInv => TrialsBounded
  <2> SUFFICES ASSUME IndInv PROVE TrialsBounded
    OBVIOUS
  <2>1. breaker.halfOpenAttempts \in 0..HalfOpenRequests
    BY DEF IndInv, TypeOK, Breaker
  <2>2. Cardinality(trials) \in Nat
    BY TrialsFinite DEF IndInv
  <2> QED
    BY <2>1, <2>2, ConfigAssumption DEF IndInv, TrialsHoldSlots, TrialsBounded
<1> QED
  BY <1>1, Invariance, PTL

(* The circuit opens from CLOSED only on the last of `threshold' failures  *)
(* in a row.                                                               *)
THEOREM OpensAfterStreak == Spec => OpensOnlyAfterStreak
<1>1. IndInv /\ [Next]_vars =>
        [breaker.state = "CLOSED" /\ breaker'.state = "OPEN"
           => streak' = Threshold]_vars
  <2> SUFFICES ASSUME IndInv, Next,
                      breaker.state = "CLOSED", breaker'.state = "OPEN"
               PROVE  streak' = Threshold
    OBVIOUS
  <2>1. Sound(breaker)
    BY DEF IndInv, TypeOK, CountersMatchState, Sound
  <2>2. ASSUME NEW c \in Calls, Execute(c) PROVE FALSE
    <3>1. Entered(breaker) = breaker
      BY DEF Entered
    <3> QED
      BY <2>2, <3>1 DEF Execute, Admit, Reject, Admitted
  <2>3. ASSUME NEW c \in Calls, Succeed(c) PROVE FALSE
    BY <2>1, <2>3, OnSuccessSound DEF Succeed
  <2>4. ASSUME NEW c \in Calls, Fail(c) PROVE streak' = Threshold
    BY <2>4, FailIndInv
  <2>5. ~Reset /\ ~Tick /\ ~ServiceChange
    BY <2>1, AgedSound DEF Reset, Closed, Tick, ServiceChange
  <2> QED
    BY <2>2, <2>3, <2>4, <2>5 DEF Next
<1> QED
  BY <1>1, Invariance, PTL DEF Spec, OpensOnlyAfterStreak

-----------------------------------------------------------------------------
(* The breaker implements the contract: a step of it is a step of the      *)
(* contract, or changes nothing the contract speaks of.                    *)

LEMMA InitContract == Init => Contract!Init
BY ConfigAssumption
DEF Init, Contract!Init, Closed, NotOpened, Running

(* Letting a call in: from OPEN only when cooled, and then to HALF_OPEN.   *)
LEMMA AdmitContract ==
    ASSUME IndInv, NEW c \in Calls, Admit(c)
    PROVE  Contract!Admit
<1> DEFINE entered == Entered(breaker)
<1>1. Sound(breaker)
  BY DEF IndInv, TypeOK, CountersMatchState, Sound
<1>2. Sound(entered) /\ ~Rejects(entered)
  BY <1>1, EnteredSound DEF Admit
<1>3. /\ breaker'.state = entered.state
      /\ breaker'.openedAge = entered.openedAge
      /\ entered.state # "OPEN"
  BY <1>2, AdmittedSound DEF Admit
<1>4. /\ entered.openedAge = breaker.openedAge
      /\ \/ entered = breaker
         \/ /\ breaker.state = "OPEN"
            /\ breaker.openedAge = Timeout
            /\ entered.state = "HALF_OPEN"
  BY <1>1, EnteredSound
<1>5. Running' = Running \cup {c} /\ Running' \in SUBSET Calls
  BY AdmitIndInv DEF Running
<1> QED
  BY <1>3, <1>4, <1>5 DEF Contract!Admit

(* A call settles: the state moves only along the contract's arrows, and   *)
(* every opening starts a new cooling period.                              *)
LEMMA SettleContract ==
    ASSUME IndInv, NEW c \in Calls, Succeed(c) \/ Fail(c)
    PROVE  Contract!Settle
<1>1. Sound(breaker)
  BY DEF IndInv, TypeOK, CountersMatchState, Sound
<1>2. c \in Running /\ Running' = Running \ {c}
  BY SucceedIndInv, FailIndInv
<1>3. CASE Succeed(c)
  <2>1. /\ \/ breaker'.state = breaker.state
              /\ breaker'.openedAge = breaker.openedAge
           \/ /\ breaker.state = "HALF_OPEN"
              /\ breaker'.state = "CLOSED"
              /\ breaker'.openedAge = NotOpened
    BY <1>1, <1>3, OnSuccessSound DEF Succeed
  <2> QED
    BY <1>2, <2>1, ConfigAssumption DEF Contract!Settle, NotOpened
<1>4. CASE Fail(c)
  <2>1. \/ breaker' = breaker
        \/ /\ breaker.state # "OPEN"
           /\ breaker'.state = "OPEN"
           /\ breaker'.openedAge = 0
        \/ /\ breaker.state = "CLOSED"
           /\ breaker'.state = "CLOSED"
           /\ breaker'.openedAge = NotOpened
    <3>1. breaker.state \in {"CLOSED", "OPEN", "HALF_OPEN"}
      BY <1>1 DEF Sound, Breaker, BreakerState
    <3> QED
      BY <1>1, <1>4, <3>1, OnFailureSound DEF Fail
  <2>2. breaker.state = "CLOSED" => breaker.openedAge = NotOpened
    BY <1>1 DEF Sound, Consistent
  <2> QED
    BY <1>2, <2>1, <2>2, ConfigAssumption DEF Contract!Settle, NotOpened
<1> QED
  BY <1>3, <1>4

(* Whatever the callers, the clock and the service do, an open breaker     *)
(* lets nothing through until it has cooled down.                          *)
THEOREM ImplementsContract == Spec => KeepsContract
<1>1. IndInv /\ [Next]_vars => [Contract!Next]_(Contract!vars)
  <2> SUFFICES ASSUME IndInv, [Next]_vars
               PROVE  [Contract!Next]_(Contract!vars)
    OBVIOUS
  <2>1. Sound(breaker)
    BY DEF IndInv, TypeOK, CountersMatchState, Sound
  <2>2. CASE UNCHANGED vars
    BY <2>2 DEF vars, Contract!vars, Running
  <2>3. ASSUME NEW c \in Calls, Execute(c)
        PROVE  [Contract!Next]_(Contract!vars)
    <3>1. CASE Admit(c)
      BY <3>1, AdmitContract DEF Contract!Next
    <3>2. CASE Reject(c)
      BY <3>2, RejectIndInv DEF Contract!vars
    <3> QED
      BY <2>3, <3>1, <3>2 DEF Execute
  <2>4. ASSUME NEW c \in Calls, Succeed(c) \/ Fail(c)
        PROVE  [Contract!Next]_(Contract!vars)
    BY <2>4, SettleContract DEF Contract!Next
  <2>5. CASE Reset
    <3>1. /\ breaker'.state = "CLOSED"
          /\ breaker'.openedAge # Timeout
          /\ Running' = Running
      BY <2>5, ResetIndInv, ConfigAssumption DEF Reset, Closed, NotOpened
    <3> QED
      BY <3>1 DEF Contract!Reset, Contract!Next
  <2>6. CASE Tick
    <3>1. /\ breaker.state = "OPEN" /\ breaker'.state = "OPEN"
          /\ breaker.openedAge < Timeout
          /\ Running' = Running
      BY <2>1, <2>6, AgedSound, TickIndInv DEF Tick, CanAge
    <3>2. breaker.openedAge # Timeout
      BY <2>1, <3>1, ConfigAssumption DEF Sound, Breaker, NotOpened
    <3>3. CASE breaker'.openedAge = Timeout
      BY <3>1, <3>3 DEF Contract!CoolDown, Contract!Next
    <3>4. CASE breaker'.openedAge # Timeout
      BY <3>1, <3>2, <3>4 DEF Contract!vars
    <3> QED
      BY <3>3, <3>4
  <2>7. CASE ServiceChange
    BY <2>7, ServiceChangeIndInv DEF Contract!vars
  <2> QED
    BY <2>2, <2>3, <2>4, <2>5, <2>6, <2>7 DEF Next
<1> QED
  BY <1>1, InitContract, Invariance, PTL
  DEF Spec, KeepsContract, Contract!Spec

=============================================================================
