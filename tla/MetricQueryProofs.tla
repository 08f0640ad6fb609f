--------------------------- MODULE MetricQueryProofs ---------------------------
(***************************************************************************)
(* The safety properties of MetricQuery, for any number of requests, any   *)
(* fan-out and any configuration of the breaker.                           *)
(*                                                                         *)
(* A request enters the breaker at two levels, and ProbesOfARequest is     *)
(* what makes this harmless: the inner calls that probe the LRS do so      *)
(* under an outer call that holds a slot of its own, and an outer call     *)
(* that holds a slot waits for no inner call from outside the period.      *)
(***************************************************************************)
EXTENDS MetricQuery, BreakerProofs, FunctionTheorems

ProbesHoldSlots ==
    /\ probes # {} => breaker.state = "HALF_OPEN"
    /\ Cardinality(probes) <= breaker.halfOpenAttempts

ProbesOfARequest ==
    /\ \A c \in probes : Outer(c[1]) \in probes
    /\ \A r \in Requests : Outer(r) \in probes =>
          \A i \in InnerRunning(r) : <<r, i>> \in probes

IndInv ==
    /\ TypeOK
    /\ Consistent(breaker)
    /\ ProbesHoldSlots
    /\ ProbesOfARequest
    /\ ProbeAccounting

-----------------------------------------------------------------------------
(* The operators of the model.                                             *)

(* The inner calls of a request are a sequence, no longer than MaxFanOut.  *)
LEMMA InnerTyped ==
    ASSUME TypeOK, NEW r \in Requests
    PROVE  \E n \in 0..MaxFanOut :
              /\ inner[r] \in [1..n -> {"running", "ok", "failed", "rejected"}]
              /\ DOMAIN inner[r] = 1..n
<1> DEFINE Calls(n) == [1..n -> {"running", "ok", "failed", "rejected"}]
<1>1. PICK n \in {0} \cup FanOuts : inner[r] \in Calls(n)
  <2>1. inner[r] \in UNION {Calls(n) : n \in {0} \cup FanOuts}
    BY DEF TypeOK
  <2> HIDE DEF Calls
  <2> QED
    BY <2>1
<1>2. n \in 0..MaxFanOut
  BY FanOutAssumption
<1> QED
  BY <1>1, <1>2

(* What Running says of the two levels of calls.                           *)
LEMMA RunningCalls ==
    ASSUME TypeOK, NEW r \in Requests
    PROVE  /\ Outer(r) \in Running <=> query[r] = "running"
           /\ \A i : <<r, i>> \in Running /\ i # 0 <=> i \in InnerRunning(r)
           /\ InnerRunning(r) \subseteq 1..MaxFanOut
           /\ 0 \notin InnerRunning(r)
<1>1. InnerRunning(r) \subseteq 1..MaxFanOut
  BY InnerTyped, FanOutAssumption DEF InnerRunning
<1>2. 0 \in Slots /\ 1..MaxFanOut \subseteq Slots
  BY FanOutAssumption DEF Slots
<1> QED
  BY <1>1, <1>2 DEF Running, CallIds, Outer

(* Calls are finitely many, so the probes can be counted.                  *)
LEMMA ProbesFinite ==
    ASSUME TypeOK
    PROVE  /\ IsFiniteSet(CallIds)
           /\ probes \subseteq CallIds
           /\ IsFiniteSet(probes)
           /\ Cardinality(probes) \in Nat
<1>1. IsFiniteSet(CallIds)
  <2>1. IsFiniteSet(Slots)
    BY FS_Interval, FanOutAssumption DEF Slots
  <2> QED
    BY <2>1, FS_Product, FanOutAssumption DEF CallIds
<1>2. probes \subseteq CallIds
  BY DEF TypeOK, Running
<1> QED
  BY <1>1, <1>2, FS_Subset, FS_CardinalityType

(* The calls that a query starts at once: its outer one and k inner ones.  *)
StartedCalls(r, k) == {Outer(r)} \cup {<<r, i>> : i \in 1..k}

LEMMA StartedCallsCounted ==
    ASSUME NEW r, NEW k \in Nat
    PROVE  /\ IsFiniteSet(StartedCalls(r, k))
           /\ Cardinality(StartedCalls(r, k)) = k + 1
<1> DEFINE f == [i \in 0..k |-> <<r, i>>]
<1>1. f \in Bijection(0..k, StartedCalls(r, k))
  <2>1. f \in [0..k -> StartedCalls(r, k)]
    BY DEF StartedCalls, Outer
  <2>2. \A i, j \in 0..k : f[i] = f[j] => i = j
    OBVIOUS
  <2>3. \A c \in StartedCalls(r, k) : \E i \in 0..k : f[i] = c
    BY DEF StartedCalls, Outer
  <2> QED
    BY <2>1, <2>2, <2>3, Fun_IsBij
<1>2. IsFiniteSet(0..k) /\ Cardinality(0..k) = k + 1
  BY FS_Interval
<1> QED
  BY <1>1, <1>2, FS_Bijection DEF ExistsBijection

(* A run of n calls takes no more slots than there are, and changes        *)
(* nothing else.                                                           *)
LEMMA AfterFanOutSound ==
    ASSUME NEW b, Sound(b), NEW n \in Nat
    PROVE  /\ Sound(AfterFanOut(b, n))
           /\ Room(b, n) \in 0..n
           /\ AfterFanOut(b, n).state = b.state
           /\ AfterFanOut(b, n).successCount = b.successCount
           /\ AfterFanOut(b, n).failureCount = b.failureCount
           /\ AfterFanOut(b, n).openedAge = b.openedAge
           /\ b.state = "HALF_OPEN" =>
                AfterFanOut(b, n).halfOpenAttempts
                    = b.halfOpenAttempts + Room(b, n)
           /\ b.state # "HALF_OPEN" => Room(b, n) = n
<1>1. CASE b.state = "HALF_OPEN"
  <2>1. b.halfOpenAttempts \in 0..HalfOpenRequests
    BY DEF Sound, Breaker
  <2>2. /\ Room(b, n) \in 0..n
        /\ b.halfOpenAttempts + Room(b, n) \in 0..HalfOpenRequests
    BY <1>1, <2>1, ConfigAssumption DEF Room
  <2>3. AfterFanOut(b, n)
          = [b EXCEPT !.halfOpenAttempts = @ + Room(b, n)]
    BY <1>1 DEF AfterFanOut
  <2> HIDE DEF Room
  <2> QED
    BY <1>1, <2>2, <2>3
    DEF Sound, Consistent, Breaker
<1>2. CASE b.state # "HALF_OPEN"
  BY <1>2 DEF AfterFanOut, Room
<1> QED
  BY <1>1, <1>2

-----------------------------------------------------------------------------
(* The calls each action starts or settles.                                *)

(* A new query starts its outer call and as many inner ones as there is    *)
(* room for; none of them was running before.                              *)
LEMMA StartRuns ==
    ASSUME TypeOK, Sound(breaker), NEW r \in Requests, NEW n \in FanOuts,
           Start(r, n)
    PROVE  LET k == Room(Admitted(Entered(breaker)), n)
           IN  /\ k \in 0..n
               /\ TypeOK'
               /\ Running' = Running \cup StartedCalls(r, k)
               /\ Running \cap StartedCalls(r, k) = {}
               /\ InnerRunning(r)' = 1..k
               /\ \A q \in Requests \ {r} : InnerRunning(q)' = InnerRunning(q)
<1> DEFINE outer == Admitted(Entered(breaker))
           k == Room(outer, n)
<1>1. n \in Nat /\ n \in 1..MaxFanOut
  BY FanOutAssumption
<1>2. Sound(outer)
  BY EnteredSound, AdmittedSound DEF Start
<1>3. k \in 0..n /\ Sound(breaker')
  BY <1>1, <1>2, AfterFanOutSound DEF Start
<1> HIDE DEF k
<1>4. /\ query' = [query EXCEPT ![r] = "running"]
      /\ inner' = [inner EXCEPT ![r] =
                     [i \in 1..n |-> IF i <= k THEN "running" ELSE "rejected"]]
      /\ exposed' \subseteq exposed \cup StartedCalls(r, k)
      /\ probes' \subseteq probes \cup StartedCalls(r, k)
      /\ UNCHANGED <<lrsUp, lrsFailures>>
  BY DEF Start, StartedCalls, k
<1>5. InnerRunning(r)' = 1..k
  BY <1>1, <1>3, <1>4 DEF TypeOK, InnerRunning
<1>6. \A q \in Requests \ {r} :
         query'[q] = query[q] /\ InnerRunning(q)' = InnerRunning(q)
  BY <1>4 DEF TypeOK, InnerRunning
<1>7. query'[r] = "running" /\ query[r] # "running" /\ InnerRunning(r) = {}
  BY <1>4 DEF TypeOK, Start, Startable
<1>8. StartedCalls(r, k) \subseteq CallIds
  BY <1>1, <1>3, FanOutAssumption DEF StartedCalls, CallIds, Slots, Outer
<1>9. Running' = Running \cup StartedCalls(r, k)
  <2> SUFFICES ASSUME NEW q \in Requests, NEW i \in Slots
               PROVE  <<q, i>> \in Running' <=>
                         <<q, i>> \in Running \cup StartedCalls(r, k)
    BY <1>8 DEF Running, CallIds
  <2>1. <<q, i>> \in Running' <=>
           IF i = 0 THEN query'[q] = "running" ELSE i \in InnerRunning(q)'
    BY DEF Running, CallIds
  <2>2. <<q, i>> \in Running <=>
           IF i = 0 THEN query[q] = "running" ELSE i \in InnerRunning(q)
    BY DEF Running, CallIds
  <2>3. <<q, i>> \in StartedCalls(r, k) <=> q = r /\ (i = 0 \/ i \in 1..k)
    BY DEF StartedCalls, Outer
  <2> QED
    BY <1>5, <1>6, <1>7, <2>1, <2>2, <2>3
<1>10. Running \cap StartedCalls(r, k) = {}
  BY <1>7 DEF Running, StartedCalls, Outer
<1>11. TypeOK'
  <2> DEFINE Calls(m) == [1..m -> {"running", "ok", "failed", "rejected"}]
  <2>1. inner' \in [Requests -> UNION {Calls(m) : m \in {0} \cup FanOuts}]
    <3>1. inner'[r] \in Calls(n)
      BY <1>4 DEF TypeOK
    <3>2. inner \in [Requests -> UNION {Calls(m) : m \in {0} \cup FanOuts}]
      BY DEF TypeOK
    <3> HIDE DEF Calls
    <3> QED
      BY <1>4, <3>1, <3>2
  <2>2. breaker' \in Breaker
    BY <1>3 DEF Sound
  <2> QED
    BY <1>4, <1>9, <2>1, <2>2 DEF TypeOK
<1> QED
  BY <1>3, <1>5, <1>6, <1>9, <1>10, <1>11 DEF k

(* An outer call that fails fast starts nothing, and the breaker is as it  *)
(* was: had execute() moved it to HALF_OPEN there would have been a slot.  *)
LEMMA StartRejectedRuns ==
    ASSUME TypeOK, Sound(breaker), NEW r \in Requests, StartRejected(r)
    PROVE  /\ breaker' = breaker
           /\ TypeOK'
           /\ Running' = Running
           /\ \A q \in Requests : InnerRunning(q)' = InnerRunning(q)
<1>1. breaker' = breaker
  <2>1. CASE Entered(breaker) = breaker
    BY <2>1 DEF StartRejected
  <2>2. CASE Entered(breaker) # breaker
    <3>1. Entered(breaker).state = "HALF_OPEN"
          /\ Entered(breaker).halfOpenAttempts = 0
      BY <2>2, EnteredSound
    <3> QED
      BY <3>1, ConfigAssumption DEF StartRejected, Rejects
  <2> QED
    BY <2>1, <2>2
<1>2. \A q \in Requests : InnerRunning(q)' = InnerRunning(q)
  BY DEF StartRejected, Startable, TypeOK, InnerRunning
<1>3. \A q \in Requests : query'[q] = "running" <=> query[q] = "running"
  BY DEF StartRejected, Startable, TypeOK
<1>4. Running' = Running
  BY <1>2, <1>3 DEF Running, CallIds
<1>5. TypeOK'
  <2> DEFINE Calls(m) == [1..m -> {"running", "ok", "failed", "rejected"}]
  <2>1. inner' \in [Requests -> UNION {Calls(m) : m \in {0} \cup FanOuts}]
    <3>1. inner'[r] \in Calls(0)
      BY DEF StartRejected, TypeOK
    <3>2. inner \in [Requests -> UNION {Calls(m) : m \in {0} \cup FanOuts}]
      BY DEF TypeOK
    <3> HIDE DEF Calls
    <3> QED
      BY <3>1, <3>2 DEF StartRejected
  <2> QED
    BY <1>1, <1>4, <2>1 DEF TypeOK, StartRejected
<1> QED
  BY <1>1, <1>2, <1>4, <1>5

(* An inner call that settles runs no more, and no other call is affected. *)
LEMMA InnerSettledRuns ==
    ASSUME TypeOK, NEW r \in Requests, NEW i \in InnerRunning(r),
           NEW outcome \in {"ok", "failed"},
           inner' = [inner EXCEPT ![r][i] = outcome],
           Settled(<<r, i>>),
           UNCHANGED query
    PROVE  /\ Running' = Running \ {<<r, i>>}
           /\ <<r, i>> \in Running /\ i # 0
           /\ \A q \in Requests : InnerRunning(q)' \subseteq InnerRunning(q)
           /\ inner' \in [Requests ->
                UNION {[1..n -> {"running", "ok", "failed", "rejected"}] :
                          n \in {0} \cup FanOuts}]
           /\ exposed' \subseteq Running' /\ probes' \subseteq Running'
<1> DEFINE Calls(m) == [1..m -> {"running", "ok", "failed", "rejected"}]
<1>1. /\ inner \in [Requests -> UNION {Calls(m) : m \in {0} \cup FanOuts}]
      /\ exposed \subseteq Running /\ probes \subseteq Running
  BY DEF TypeOK
<1>2. PICK m \in {0} \cup FanOuts : inner[r] \in Calls(m)
  <2> HIDE DEF Calls
  <2> QED
    BY <1>1
<1>3. /\ inner'[r] = [inner[r] EXCEPT ![i] = outcome]
      /\ \A q \in Requests \ {r} : inner'[q] = inner[q]
      /\ i \in 1..m
  BY <1>1, <1>2 DEF InnerRunning
<1>4. inner'[r] \in Calls(m)
  BY <1>2, <1>3
<1>5. inner' \in [Requests -> UNION {Calls(n) : n \in {0} \cup FanOuts}]
  <2> HIDE DEF Calls
  <2> QED
    BY <1>1, <1>4
<1>6. /\ InnerRunning(r)' = InnerRunning(r) \ {i}
      /\ \A q \in Requests \ {r} : InnerRunning(q)' = InnerRunning(q)
  BY <1>2, <1>3 DEF InnerRunning
<1>7. <<r, i>> \in Running /\ i # 0
  BY RunningCalls
<1>8. Running' = Running \ {<<r, i>>}
  <2> SUFFICES ASSUME NEW q \in Requests, NEW j \in Slots
               PROVE  <<q, j>> \in Running' <=>
                         <<q, j>> \in Running /\ <<q, j>> # <<r, i>>
    BY DEF Running, CallIds
  <2>1. <<q, j>> \in Running' <=>
           IF j = 0 THEN query[q] = "running" ELSE j \in InnerRunning(q)'
    BY DEF Running, CallIds
  <2>2. <<q, j>> \in Running <=>
           IF j = 0 THEN query[q] = "running" ELSE j \in InnerRunning(q)
    BY DEF Running, CallIds
  <2> QED
    BY <1>6, <1>7, <2>1, <2>2
<1>9. exposed' \subseteq Running' /\ probes' \subseteq Running'
  BY <1>1, <1>8 DEF Settled
<1> QED
  BY <1>5, <1>6, <1>7, <1>8, <1>9

(* The same for an outer call; its inner calls are left to themselves.     *)
LEMMA OuterSettledRuns ==
    ASSUME TypeOK, NEW r \in Requests, query[r] = "running",
           NEW outcome \in {"ok", "failed", "open"},
           query' = [query EXCEPT ![r] = outcome],
           Settled(Outer(r)),
           UNCHANGED inner
    PROVE  /\ Running' = Running \ {Outer(r)}
           /\ Outer(r) \in Running
           /\ \A q \in Requests : InnerRunning(q)' = InnerRunning(q)
           /\ query' \in [Requests ->
                            {"idle", "running", "ok", "failed", "open"}]
           /\ exposed' \subseteq Running' /\ probes' \subseteq Running'
<1>1. \A q \in Requests : InnerRunning(q)' = InnerRunning(q)
  BY DEF InnerRunning
<1>2. query' \in [Requests -> {"idle", "running", "ok", "failed", "open"}]
  BY DEF TypeOK
<1>3. \A q \in Requests :
         query'[q] = "running" <=> query[q] = "running" /\ q # r
  BY DEF TypeOK
<1>4. Running' = Running \ {Outer(r)}
  <2> SUFFICES ASSUME NEW q \in Requests, NEW j \in Slots
               PROVE  <<q, j>> \in Running' <=>
                         <<q, j>> \in Running /\ <<q, j>> # Outer(r)
    BY DEF Running, CallIds
  <2>1. <<q, j>> \in Running' <=>
           IF j = 0 THEN query'[q] = "running" ELSE j \in InnerRunning(q)'
    BY DEF Running, CallIds
  <2>2. <<q, j>> \in Running <=>
           IF j = 0 THEN query[q] = "running" ELSE j \in InnerRunning(q)
    BY DEF Running, CallIds
  <2> QED
    BY <1>1, <1>3, <2>1, <2>2 DEF Outer
<1>5. Outer(r) \in Running
  BY RunningCalls
<1>6. exposed' \subseteq Running' /\ probes' \subseteq Running'
  BY <1>4 DEF Settled, TypeOK
<1> QED
  BY <1>1, <1>2, <1>4, <1>5, <1>6

-----------------------------------------------------------------------------
(* The inductive invariant, one lemma per action.                          *)

(* At first no call is running.                                            *)
LEMMA InitIndInv == Init => IndInv
<1> SUFFICES ASSUME Init PROVE IndInv
  OBVIOUS
<1>1. Sound(breaker) /\ breaker.state = "CLOSED" /\ breaker.halfOpenAttempts = 0
  BY ClosedSound DEF Init, Closed
<1>2. TypeOK
  <2> DEFINE Calls(m) == [1..m -> {"running", "ok", "failed", "rejected"}]
  <2>1. inner \in [Requests -> UNION {Calls(m) : m \in {0} \cup FanOuts}]
    <3>1. <<>> \in Calls(0)
      OBVIOUS
    <3> HIDE DEF Calls
    <3> QED
      BY <3>1 DEF Init
  <2> QED
    BY <1>1, <2>1, ConfigAssumption DEF TypeOK, Init, Sound
<1>3. Cardinality(probes) = 0
  BY FS_EmptySet DEF Init
<1> QED
  BY <1>1, <1>2, <1>3
  DEF IndInv, Init, Sound, ProbesHoldSlots, ProbesOfARequest, ProbeAccounting

(* Failing fast leaves the breaker and every call as they were.            *)
LEMMA StartRejectedIndInv ==
    ASSUME IndInv, NEW r \in Requests, StartRejected(r)
    PROVE  IndInv' /\ breaker' = breaker /\ Running' = Running
<1>1. /\ TypeOK' /\ breaker' = breaker /\ Running' = Running
      /\ \A q \in Requests : InnerRunning(q)' = InnerRunning(q)
  BY StartRejectedRuns DEF IndInv, Sound, TypeOK
<1>2. probes' = probes
  BY DEF StartRejected
<1> QED
  BY <1>1, <1>2
  DEF IndInv, ProbesHoldSlots, ProbesOfARequest, ProbeAccounting

(* A query that is let in makes its outer call and the inner ones with a   *)
(* slot probes of the half-open period, or the breaker is closed.          *)
LEMMA StartIndInv ==
    ASSUME IndInv, NEW r \in Requests, NEW n \in FanOuts, Start(r, n)
    PROVE  IndInv'
<1> DEFINE entered == Entered(breaker)
           outer == Admitted(entered)
           k == Room(outer, n)
<1>1. Sound(breaker) /\ TypeOK
  BY DEF IndInv, TypeOK, Sound
<1>2. \/ entered = breaker
      \/ /\ breaker.state = "OPEN"
         /\ entered.state = "HALF_OPEN"
         /\ entered.successCount = 0
         /\ entered.halfOpenAttempts = 0
  BY <1>1, EnteredSound
<1>3. /\ Sound(outer)
      /\ entered.state \in {"CLOSED", "HALF_OPEN"}
      /\ outer.state = entered.state
      /\ outer.successCount = entered.successCount
      /\ entered.state = "HALF_OPEN" =>
           outer.halfOpenAttempts = entered.halfOpenAttempts + 1
  BY <1>1, EnteredSound, AdmittedSound DEF Start
<1>4. /\ Sound(breaker')
      /\ k \in 0..n
      /\ breaker'.state = outer.state
      /\ breaker'.successCount = outer.successCount
      /\ outer.state = "HALF_OPEN" =>
           breaker'.halfOpenAttempts = outer.halfOpenAttempts + k
  <2>1. n \in Nat
    BY FanOutAssumption
  <2>2. breaker' = AfterFanOut(outer, n)
    BY DEF Start
  <2> QED
    BY <1>3, <2>1, <2>2, AfterFanOutSound
<1>5. /\ TypeOK'
      /\ Running \cap StartedCalls(r, k) = {}
      /\ InnerRunning(r)' = 1..k
      /\ \A q \in Requests \ {r} : InnerRunning(q)' = InnerRunning(q)
  BY <1>1, StartRuns
<1>6. probes' = IF outer.state = "HALF_OPEN"
                THEN probes \cup StartedCalls(r, k) ELSE probes
  BY DEF Start, StartedCalls
<1>7. probes \subseteq Running
  BY <1>1 DEF TypeOK
<1> HIDE DEF entered, outer, k
<1>8. CASE entered.state = "HALF_OPEN"
  <2>1. probes' = probes \cup StartedCalls(r, k)
    BY <1>3, <1>6, <1>8
  <2>2. Cardinality(probes') = Cardinality(probes) + k + 1
    <3>1. probes \cap StartedCalls(r, k) = {}
      BY <1>5, <1>7
    <3>2. /\ IsFiniteSet(probes) /\ Cardinality(probes) \in Nat
          /\ IsFiniteSet(StartedCalls(r, k))
          /\ Cardinality(StartedCalls(r, k)) = k + 1
          /\ k \in Nat
      BY <1>1, <1>4, ProbesFinite, StartedCallsCounted, FanOutAssumption
    <3>3. Cardinality(probes \cup StartedCalls(r, k))
            = Cardinality(probes) + Cardinality(StartedCalls(r, k))
                - Cardinality({})
      BY <3>1, <3>2, FS_Union
    <3> QED
      BY <2>1, <3>2, <3>3, FS_EmptySet
  <2>3. ProbesHoldSlots' /\ ProbeAccounting'
    <3>1. /\ k \in Nat
          /\ Cardinality(probes) \in Nat
          /\ entered.halfOpenAttempts \in Nat
          /\ breaker'.halfOpenAttempts = entered.halfOpenAttempts + 1 + k
          /\ breaker'.successCount = entered.successCount
          /\ entered.successCount \in Nat
      <4>1. entered \in Breaker
        BY <1>1, EnteredSound DEF entered, Sound
      <4>2. entered.halfOpenAttempts \in Nat /\ entered.successCount \in Nat
        BY <4>1, ConfigAssumption DEF Breaker
      <4> QED
        BY <1>1, <1>3, <1>4, <1>8, <4>2, ProbesFinite, FanOutAssumption
    <3>2. /\ Cardinality(probes) <= entered.halfOpenAttempts
          /\ entered.halfOpenAttempts
               <= entered.successCount + Cardinality(probes)
      <4>1. CASE entered = breaker
        BY <1>8, <4>1 DEF IndInv, ProbesHoldSlots, ProbeAccounting
      <4>2. CASE entered # breaker
        <5>1. probes = {}
          BY <1>2, <4>2 DEF IndInv, ProbesHoldSlots
        <5> QED
          BY <1>2, <4>2, <5>1, FS_EmptySet
      <4> QED
        BY <4>1, <4>2
    <3>3. breaker'.state = "HALF_OPEN"
      BY <1>3, <1>4, <1>8
    <3> QED
      BY <2>2, <3>1, <3>2, <3>3 DEF ProbesHoldSlots, ProbeAccounting
  <2>4. ProbesOfARequest'
    <3>1. \A c \in probes' : Outer(c[1]) \in probes'
      <4>1. \A c \in StartedCalls(r, k) :
               Outer(c[1]) = Outer(r) /\ Outer(r) \in StartedCalls(r, k)
        BY DEF StartedCalls, Outer
      <4> QED
        BY <2>1, <4>1 DEF IndInv, ProbesOfARequest
    <3>2. ASSUME NEW q \in Requests, Outer(q) \in probes',
                 NEW i \in InnerRunning(q)'
          PROVE  <<q, i>> \in probes'
      <4>1. CASE q = r
        BY <1>5, <2>1, <3>2, <4>1 DEF StartedCalls
      <4>2. CASE q # r
        <5>1. Outer(q) \in probes /\ i \in InnerRunning(q)
          BY <1>5, <2>1, <3>2, <4>2 DEF StartedCalls, Outer
        <5> QED
          BY <2>1, <5>1 DEF IndInv, ProbesOfARequest
      <4> QED
        BY <4>1, <4>2
    <3> QED
      BY <3>1, <3>2 DEF ProbesOfARequest
  <2> QED
    BY <1>4, <1>5, <2>3, <2>4 DEF IndInv, Sound
<1>9. CASE entered.state = "CLOSED"
  <2>1. /\ breaker'.state = "CLOSED"
        /\ probes' = probes
        /\ breaker.state = "CLOSED"
    BY <1>2, <1>3, <1>4, <1>6, <1>9
  <2>2. probes = {} /\ Cardinality(probes) = 0
    BY <2>1, FS_EmptySet DEF IndInv, ProbesHoldSlots
  <2>3. breaker'.halfOpenAttempts = 0
    BY <1>4, <2>1 DEF Sound, Consistent
  <2> QED
    BY <1>4, <1>5, <2>1, <2>2, <2>3
    DEF IndInv, Sound, ProbesHoldSlots, ProbeAccounting, ProbesOfARequest
<1> QED
  BY <1>3, <1>8, <1>9

(* What the settling of any call does to the accounting: a success that    *)
(* leaves the breaker half-open pays for the one slot that it frees.       *)
LEMMA SettledKeepsAccounts ==
    ASSUME IndInv, NEW c, Settled(c), Sound(breaker'),
           breaker'.state = "HALF_OPEN" =>
              /\ breaker.state = "HALF_OPEN"
              /\ breaker'.successCount = breaker.successCount + 1
              /\ breaker'.halfOpenAttempts = breaker.halfOpenAttempts
    PROVE  ProbesHoldSlots' /\ ProbeAccounting'
<1>1. CASE breaker'.state = "HALF_OPEN"
  <2>1. probes' = probes \ {c}
    BY <1>1 DEF Settled
  <2>2. IsFiniteSet(probes) /\ Cardinality(probes) \in Nat
    BY ProbesFinite DEF IndInv
  <2>3. /\ Cardinality(probes') <= Cardinality(probes)
        /\ Cardinality(probes) <= Cardinality(probes') + 1
        /\ Cardinality(probes') \in Nat
    BY <2>1, <2>2, CardinalityAfterRemoval
  <2>4. /\ Cardinality(probes) <= breaker.halfOpenAttempts
        /\ breaker.halfOpenAttempts
             <= breaker.successCount + Cardinality(probes)
    BY <1>1 DEF IndInv, ProbesHoldSlots, ProbeAccounting
  <2>5. breaker.halfOpenAttempts \in Nat /\ breaker.successCount \in Nat
    BY ConfigAssumption DEF IndInv, TypeOK, Breaker
  <2> QED
    BY <1>1, <2>2, <2>3, <2>4, <2>5 DEF ProbesHoldSlots, ProbeAccounting
<1>2. CASE breaker'.state # "HALF_OPEN"
  <2>1. probes' = {} /\ Cardinality(probes') = 0
    BY <1>2, FS_EmptySet DEF Settled
  <2>2. breaker'.halfOpenAttempts \in Nat
    BY ConfigAssumption DEF Sound, Breaker
  <2> QED
    BY <1>2, <2>1, <2>2 DEF ProbesHoldSlots, ProbeAccounting
<1> QED
  BY <1>1, <1>2

(* An LRS query that comes back, in time or not.                           *)
LEMMA InnerSettleIndInv ==
    ASSUME IndInv, NEW r \in Requests, NEW i \in Slots, InnerSettle(r, i)
    PROVE  /\ IndInv'
           /\ <<r, i>> \in Running
           /\ Running' = Running \ {<<r, i>>}
<1>1. /\ Sound(breaker) /\ TypeOK
      /\ i \in InnerRunning(r)
      /\ Settled(<<r, i>>)
      /\ UNCHANGED query
      /\ \E outcome \in {"ok", "failed"} :
            inner' = [inner EXCEPT ![r][i] = outcome]
  BY DEF IndInv, TypeOK, Sound, InnerSettle, InnerSucceed, InnerFail
<1>2. /\ Sound(breaker')
      /\ breaker'.state = "HALF_OPEN" =>
           /\ breaker.state = "HALF_OPEN"
           /\ breaker'.successCount = breaker.successCount + 1
           /\ breaker'.halfOpenAttempts = breaker.halfOpenAttempts
  <2>1. CASE breaker' = OnSuccess(breaker)
    BY <1>1, <2>1, OnSuccessSound
  <2>2. CASE breaker' = OnFailure(breaker)
    BY <1>1, <2>2, OnFailureSound
  <2> QED
    BY <2>1, <2>2 DEF InnerSettle, InnerSucceed, InnerFail
<1>3. /\ Running' = Running \ {<<r, i>>}
      /\ <<r, i>> \in Running /\ i # 0
      /\ \A q \in Requests : InnerRunning(q)' \subseteq InnerRunning(q)
      /\ inner' \in [Requests ->
            UNION {[1..n -> {"running", "ok", "failed", "rejected"}] :
                      n \in {0} \cup FanOuts}]
      /\ exposed' \subseteq Running' /\ probes' \subseteq Running'
  BY <1>1, InnerSettledRuns
<1>4. lrsFailures' \in 0..Threshold /\ lrsUp' = lrsUp
  BY <1>1, ConfigAssumption
  DEF TypeOK, InnerSettle, InnerSucceed, InnerFail, Settled
<1>5. TypeOK'
  BY <1>1, <1>2, <1>3, <1>4 DEF TypeOK, Sound
<1>6. ProbesHoldSlots' /\ ProbeAccounting'
  BY <1>1, <1>2, SettledKeepsAccounts
<1>7. ProbesOfARequest'
  <2>1. probes' = probes \ {<<r, i>>} \/ probes' = {}
    BY <1>1 DEF Settled
  <2>2. \A q \in Requests : i # 0 /\ Outer(q) # <<r, i>>
    BY <1>3 DEF Outer
  <2>3. \A q \in Requests : \A j \in InnerRunning(q)' :
           Outer(q) \in probes' => <<q, j>> # <<r, i>>
    BY <1>3 DEF Running
  <2>4. \A c \in probes : c[1] \in Requests
    BY <1>1 DEF TypeOK, Running, CallIds
  <2> QED
    BY <1>3, <2>1, <2>2, <2>3, <2>4 DEF IndInv, ProbesOfARequest
<1> QED
  BY <1>2, <1>3, <1>5, <1>6, <1>7 DEF IndInv, Sound

(* The outer call of a request comes to its end.  A success means that all *)
(* inner calls are in, so that none of them is left probing without it; a  *)
(* failure ends the half-open period.                                      *)
LEMMA OuterSettleIndInv ==
    ASSUME IndInv, NEW r \in Requests, OuterSettle(r)
    PROVE  /\ IndInv'
           /\ Outer(r) \in Running
           /\ Running' = Running \ {Outer(r)}
<1>1. /\ Sound(breaker) /\ TypeOK
      /\ query[r] = "running"
      /\ Settled(Outer(r))
      /\ UNCHANGED <<inner, lrsFailures>>
      /\ \E outcome \in {"ok", "failed", "open"} :
            query' = [query EXCEPT ![r] = outcome]
  BY DEF IndInv, TypeOK, Sound, OuterSettle, OuterSucceed, OuterFail
<1>2. /\ Sound(breaker')
      /\ breaker'.state = "HALF_OPEN" =>
           /\ breaker.state = "HALF_OPEN"
           /\ breaker'.successCount = breaker.successCount + 1
           /\ breaker'.halfOpenAttempts = breaker.halfOpenAttempts
           /\ AllIn(r)
  <2>1. CASE breaker' = OnSuccess(breaker) /\ AllIn(r)
    BY <1>1, <2>1, OnSuccessSound
  <2>2. CASE breaker' = OnFailure(breaker)
    BY <1>1, <2>2, OnFailureSound
  <2> QED
    BY <2>1, <2>2 DEF OuterSettle, OuterSucceed, OuterFail
<1>3. /\ Running' = Running \ {Outer(r)}
      /\ Outer(r) \in Running
      /\ \A q \in Requests : InnerRunning(q)' = InnerRunning(q)
      /\ query' \in [Requests -> {"idle", "running", "ok", "failed", "open"}]
      /\ exposed' \subseteq Running' /\ probes' \subseteq Running'
  BY <1>1, OuterSettledRuns
<1>4. TypeOK'
  BY <1>1, <1>2, <1>3 DEF TypeOK, Sound, Settled
<1>5. ProbesHoldSlots' /\ ProbeAccounting'
  BY <1>1, <1>2, SettledKeepsAccounts
<1>6. ProbesOfARequest'
  <2>1. CASE breaker'.state = "HALF_OPEN"
    <3>1. probes' = probes \ {Outer(r)} /\ InnerRunning(r) = {}
      BY <1>1, <1>2, <2>1 DEF Settled, AllIn, InnerRunning
    <3>2. \A c \in probes : c[1] = r => c = Outer(r)
      BY <1>1, <3>1 DEF TypeOK, Running, CallIds, Outer
    <3>3. \A c \in probes : c[1] \in Requests
      BY <1>1 DEF TypeOK, Running, CallIds
    <3> QED
      BY <1>3, <3>1, <3>2, <3>3 DEF IndInv, ProbesOfARequest, Outer
  <2>2. CASE breaker'.state # "HALF_OPEN"
    BY <1>1, <2>2 DEF Settled, ProbesOfARequest
  <2> QED
    BY <2>1, <2>2
<1> QED
  BY <1>2, <1>3, <1>4, <1>5, <1>6 DEF IndInv, Sound

(* The clock only moves an open breaker, and then there are no probes.     *)
LEMMA TickIndInv ==
    ASSUME IndInv, Tick
    PROVE  IndInv' /\ Running' = Running
<1>1. Sound(breaker) /\ TypeOK /\ Running' = Running
  BY DEF IndInv, TypeOK, Sound, Tick, Running, InnerRunning
<1>2. Sound(breaker') /\ breaker.state = "OPEN" /\ breaker'.state = "OPEN"
  BY <1>1, AgedSound DEF Tick
<1>3. TypeOK'
  BY <1>1, <1>2 DEF TypeOK, Tick, Sound
<1>4. probes' = {} /\ Cardinality(probes') = 0
  BY <1>2, FS_EmptySet DEF Tick, IndInv, ProbesHoldSlots
<1>5. breaker'.halfOpenAttempts \in Nat
  BY <1>2, ConfigAssumption DEF Sound, Breaker
<1> QED
  BY <1>1, <1>2, <1>3, <1>4, <1>5
  DEF IndInv, ProbesHoldSlots, ProbesOfARequest, ProbeAccounting, Sound

(* What becomes of the LRS does not touch the breaker.                     *)
LEMMA LrsChangeIndInv ==
    ASSUME IndInv, LrsChange
    PROVE  IndInv' /\ Running' = Running /\ breaker' = breaker
<1>1. /\ Running' = Running
      /\ \A r \in Requests : InnerRunning(r)' = InnerRunning(r)
  BY DEF LrsChange, Running, InnerRunning
<1>2. TypeOK'
  BY <1>1 DEF IndInv, TypeOK, LrsChange
<1> QED
  BY <1>1, <1>2
  DEF IndInv, LrsChange, ProbesHoldSlots, ProbesOfARequest, ProbeAccounting

(* Every step preserves the accounting of the slots.                       *)
LEMMA NextIndInv == IndInv /\ [Next]_vars => IndInv'
<1> SUFFICES ASSUME IndInv, [Next]_vars PROVE IndInv'
  OBVIOUS
<1>1. CASE UNCHANGED vars
  BY <1>1
  DEF vars, IndInv, TypeOK, ProbesHoldSlots, ProbesOfARequest,
      ProbeAccounting, Running, InnerRunning
<1>2. ASSUME NEW r \in Requests, StartRejected(r) PROVE IndInv'
  BY <1>2, StartRejectedIndInv
<1>3. ASSUME NEW r \in Requests, NEW n \in FanOuts, Start(r, n) PROVE IndInv'
  BY <1>3, StartIndInv
<1>4. ASSUME NEW r \in Requests, NEW i \in Slots, InnerSettle(r, i)
      PROVE  IndInv'
  BY <1>4, InnerSettleIndInv
<1>5. ASSUME NEW r \in Requests, OuterSettle(r) PROVE IndInv'
  BY <1>5, OuterSettleIndInv
<1>6. CASE Tick
  BY <1>6, TickIndInv
<1>7. CASE LrsChange
  BY <1>7, LrsChangeIndInv
<1> QED
  BY <1>1, <1>2, <1>3, <1>4, <1>5, <1>6, <1>7
  DEF Next, InnerSettle, OuterSettle

LEMMA Invariance == Spec => []IndInv
  BY InitIndInv, NextIndInv, PTL DEF Spec

-----------------------------------------------------------------------------
(* What follows from the invariant.                                        *)

(* Every variable has its type; exposed and probes only speak of calls     *)
(* that are running.                                                       *)
THEOREM TypeCorrect == Spec => []TypeOK
<1>1. IndInv => TypeOK
  BY DEF IndInv
<1> QED
  BY <1>1, Invariance, PTL

(* Entered at two levels by every request, and left by orphaned LRS        *)
(* queries, the half-open breaker loses no slot.                           *)
THEOREM ProbesAccounted == Spec => []ProbeAccounting
<1>1. IndInv => ProbeAccounting
  BY DEF IndInv
<1> QED
  BY <1>1, Invariance, PTL

(* A half-open breaker that turns requests away has a probe in flight, and *)
(* one that can settle: if the outer call of a request waits, it waits for *)
(* an LRS query that runs.                                                 *)
THEOREM NeverWedged == Spec => []HalfOpenNeverWedged
<1>1. IndInv => HalfOpenNeverWedged
  <2> SUFFICES ASSUME IndInv, breaker.state = "HALF_OPEN", Rejects(breaker)
               PROVE  \E c \in probes : CanSettle(c)
    BY DEF HalfOpenNeverWedged
  <2>1. /\ breaker.halfOpenAttempts >= HalfOpenRequests
        /\ breaker.halfOpenAttempts \in Nat
        /\ breaker.successCount < HalfOpenRequests
        /\ breaker.successCount \in Nat
        /\ breaker.halfOpenAttempts
             <= breaker.successCount + Cardinality(probes)
    BY ConfigAssumption
    DEF IndInv, TypeOK, Consistent, ProbeAccounting, Rejects, Breaker
  <2>2. PICK c \in probes : TRUE
    <3>1. probes = {} => Cardinality(probes) = 0
      BY FS_EmptySet
    <3> QED
      BY <2>1, <3>1, ConfigAssumption
  <2>3. TypeOK /\ c \in Running /\ c[1] \in Requests
    BY DEF IndInv, TypeOK, Running, CallIds
  <2>4. CASE c[2] # 0
    BY <2>3, <2>4 DEF CanSettle, Running
  <2>5. CASE c[2] = 0 /\ (AllIn(c[1]) \/ Broken(c[1]))
    BY <2>5 DEF CanSettle
  <2>6. CASE c[2] = 0 /\ ~AllIn(c[1]) /\ ~Broken(c[1])
    <3>1. PICK i : i \in InnerRunning(c[1])
      BY <2>3, <2>6, InnerTyped DEF AllIn, Broken, InnerRunning
    <3>2. <<c[1], i>> \in probes
      BY <2>3, <3>1 DEF IndInv, ProbesOfARequest
    <3>3. i # 0
      BY <2>3, <3>1, RunningCalls
    <3> QED
      BY <3>1, <3>2, <3>3 DEF CanSettle
  <2> QED
    BY <2>4, <2>5, <2>6
<1> QED
  BY <1>1, Invariance, PTL

(* Every LRS query that probes has a slot of its own and one for the outer *)
(* call of its request: with the default of one slot the LRS is not        *)
(* probed at all.                                                          *)
THEOREM ProbesShareSlots == Spec => []OuterHoldsASlot
<1>1. IndInv => OuterHoldsASlot
  <2> SUFFICES ASSUME IndInv PROVE OuterHoldsASlot
    OBVIOUS
  <2> DEFINE asking == {c[1] : c \in LrsProbes}
             others == probes \ LrsProbes
             f == [r \in asking |-> Outer(r)]
  <2>1. /\ TypeOK
        /\ IsFiniteSet(probes) /\ Cardinality(probes) \in Nat
        /\ LrsProbes \subseteq probes
    BY ProbesFinite DEF IndInv, LrsProbes
  <2>2. /\ IsFiniteSet(others) /\ Cardinality(others) \in Nat
        /\ IsFiniteSet(LrsProbes) /\ Cardinality(LrsProbes) \in Nat
        /\ Cardinality(others) = Cardinality(probes) - Cardinality(LrsProbes)
    <3>1. probes \cap LrsProbes = LrsProbes
      BY <2>1
    <3>2. /\ IsFiniteSet(others)
          /\ Cardinality(others) = Cardinality(probes) - Cardinality(LrsProbes)
      BY ONLY <2>1, <3>1, FS_Difference
    <3>3. IsFiniteSet(LrsProbes)
      BY ONLY <2>1, FS_Subset
    <3>4. Cardinality(others) \in Nat /\ Cardinality(LrsProbes) \in Nat
      BY ONLY <3>2, <3>3, FS_CardinalityType
    <3> QED
      BY ONLY <3>2, <3>3, <3>4
  <2>3. Cardinality(asking) <= Cardinality(others)
    <3>1. f \in [asking -> others]
      BY DEF IndInv, ProbesOfARequest, LrsProbes, Outer
    <3>2. \A q, r \in asking : f[q] = f[r] => q = r
      BY DEF Outer
    <3>3. f \in Injection(asking, others)
      BY <3>1, <3>2, Fun_IsInj
    <3> QED
      BY <2>2, <3>3, FS_Injection
  <2>4. IsFiniteSet(asking) /\ Cardinality(asking) \in Nat
    <3>1. asking \subseteq Requests
      BY <2>1 DEF LrsProbes, TypeOK, Running, CallIds
    <3> QED
      BY <3>1, FS_Subset, FS_CardinalityType, FanOutAssumption
  <2>5. /\ breaker.halfOpenAttempts \in Nat
        /\ breaker.halfOpenAttempts <= HalfOpenRequests
        /\ Cardinality(probes) <= breaker.halfOpenAttempts
    BY ConfigAssumption DEF IndInv, TypeOK, Breaker, ProbesHoldSlots
  <2> QED
    BY <2>1, <2>2, <2>3, <2>4, <2>5, ConfigAssumption DEF OuterHoldsASlot
<1> QED
  BY <1>1, Invariance, PTL

-----------------------------------------------------------------------------
(* What opens the circuit.                                                 *)

(* The outer calls whose failure is certain but not yet reported to the    *)
(* breaker.                                                                *)
OwedReports == {r \in Requests : query[r] = "running" /\ Broken(r)}

(* A success of the last inner call of a request leaves it owing nothing;  *)
(* with several calls per request one that failed earlier may still be     *)
(* owed.                                                                   *)
Settlement == IF FanOuts = {1} THEN 1 ELSE 0

(* Each failed LRS query accounts for two reports at most, its own and the *)
(* one of its outer call; those that outlive a success are one per request.*)
ReportsExplained ==
    breaker.state = "CLOSED" /\ Requests # {} =>
        breaker.failureCount + Cardinality(OwedReports) + Settlement
            <= 2 * lrsFailures + Cardinality(Requests)

(* The same as OpensOnlyOnLrsFailures for metrics of any fan-out, where    *)
(* one report less is sure to come from a failed query.                    *)
OpensOnlyOnFailedQueries ==
    [][breaker.state = "CLOSED" /\ breaker'.state = "OPEN"
        => 2 * lrsFailures' + Cardinality(Requests) >= Threshold]_vars

(* The circuit does not open for other reports than of LRS failures: one   *)
(* at least is later than the last success.                                *)
OpensAfterLrsFailure ==
    [][breaker.state = "CLOSED" /\ breaker'.state = "OPEN" => lrsFailures' > 0]_vars

(* Owed reports are at most one per request.                               *)
LEMMA OwedReportsCounted ==
    /\ IsFiniteSet(Requests) /\ Cardinality(Requests) \in Nat
    /\ IsFiniteSet(OwedReports) /\ Cardinality(OwedReports) \in Nat
    /\ Cardinality(OwedReports) <= Cardinality(Requests)
    /\ \A r \in Requests :
          r \notin OwedReports =>
             Cardinality(OwedReports) + 1 <= Cardinality(Requests)
<1>1. /\ IsFiniteSet(Requests) /\ Cardinality(Requests) \in Nat
      /\ IsFiniteSet(OwedReports) /\ Cardinality(OwedReports) \in Nat
      /\ Cardinality(OwedReports) <= Cardinality(Requests)
      /\ Cardinality(OwedReports) = Cardinality(Requests)
            => OwedReports = Requests
  BY FanOutAssumption, FS_Subset, FS_CardinalityType DEF OwedReports
<1> QED
  BY <1>1

(* A failed LRS query adds one failure, one report and the debt of one.    *)
LEMMA InnerFailExplained ==
    ASSUME IndInv, ReportsExplained, NEW r \in Requests, NEW i \in Slots,
           InnerFail(r, i)
    PROVE  /\ ReportsExplained'
           /\ breaker.state = "CLOSED" /\ breaker'.state = "OPEN" =>
                2 * lrsFailures' + Cardinality(Requests)
                    >= Threshold + Settlement
<1> DEFINE owed == OwedReports
<1>1. Sound(breaker) /\ TypeOK /\ Settlement \in {0, 1}
  BY DEF IndInv, TypeOK, Sound, Settlement
<1>2. /\ breaker.state = "HALF_OPEN" => breaker'.state = "OPEN"
      /\ breaker.state = "OPEN" => breaker' = breaker
      /\ breaker.state = "CLOSED" =>
           \/ /\ breaker'.state = "CLOSED"
              /\ breaker'.failureCount = breaker.failureCount + 1
           \/ /\ breaker'.state = "OPEN"
              /\ breaker.failureCount + 1 = Threshold
  BY <1>1, OnFailureSound DEF InnerFail
<1>3. breaker.state \in {"CLOSED", "OPEN", "HALF_OPEN"}
  BY <1>1 DEF Sound, Breaker, BreakerState
<1>4. owed' \subseteq owed \cup {r}
  <2>1. \A q \in Requests \ {r} : Broken(q)' <=> Broken(q)
    BY <1>1 DEF InnerFail, TypeOK, Broken
  <2> QED
    BY <2>1 DEF InnerFail, OwedReports
<1>5. /\ Cardinality(Requests) \in Nat /\ Cardinality(owed) \in Nat
      /\ Cardinality(owed') \in Nat
      /\ Cardinality(owed') <= Cardinality(owed) + 1
      /\ Cardinality(owed') <= Cardinality(Requests)
  <2>1. /\ Cardinality(Requests) \in Nat
        /\ IsFiniteSet(owed) /\ Cardinality(owed) \in Nat
    BY OwedReportsCounted
  <2>2. owed' \in SUBSET Requests /\ IsFiniteSet(Requests)
    BY FanOutAssumption DEF OwedReports
  <2>3. /\ IsFiniteSet(owed \cup {r})
        /\ Cardinality(owed \cup {r}) <= Cardinality(owed) + 1
    BY <2>1, FS_AddElement
  <2> HIDE DEF owed
  <2>4. /\ Cardinality(owed') <= Cardinality(owed \cup {r})
        /\ Cardinality(owed') <= Cardinality(Requests)
        /\ IsFiniteSet(owed')
    BY <1>4, <2>2, <2>3, FS_Subset
  <2>5. Cardinality(owed') \in Nat /\ Cardinality(owed \cup {r}) \in Nat
    BY <2>3, <2>4, FS_CardinalityType
  <2> QED
    BY <2>1, <2>3, <2>4, <2>5
<1>6. /\ lrsFailures \in 0..Threshold
      /\ lrsFailures' = IF lrsFailures < Threshold THEN lrsFailures + 1
                                                   ELSE lrsFailures
  BY <1>1 DEF TypeOK, InnerFail
<1>7. CASE breaker.state = "CLOSED"
  <2>1. /\ breaker.failureCount \in Nat
        /\ breaker.failureCount + 1 <= Threshold
    BY <1>1, <1>7, ConfigAssumption DEF Sound, Consistent, Breaker
  <2>2. breaker.failureCount + Cardinality(owed) + Settlement
          <= 2 * lrsFailures + Cardinality(Requests)
    BY <1>7 DEF ReportsExplained
  <2> HIDE DEF owed
  <2>3. breaker.failureCount + 1 + Cardinality(owed') + Settlement
          <= 2 * lrsFailures' + Cardinality(Requests)
    BY <1>1, <1>5, <1>6, <2>1, <2>2, ConfigAssumption
  <2>4. breaker'.state = "OPEN" =>
          2 * lrsFailures' + Cardinality(Requests) >= Threshold + Settlement
    BY <1>1, <1>2, <1>5, <1>6, <1>7, <2>1, <2>3, ConfigAssumption
  <2>5. ReportsExplained'
    BY <1>2, <1>7, <2>3 DEF ReportsExplained, owed, Settlement
  <2> QED
    BY <2>4, <2>5
<1>8. CASE breaker.state # "CLOSED"
  BY <1>2, <1>3, <1>8 DEF ReportsExplained
<1> QED
  BY <1>7, <1>8

(* The report of the outer call pays its debt.                             *)
LEMMA OuterFailExplained ==
    ASSUME IndInv, ReportsExplained, NEW r \in Requests, OuterFail(r)
    PROVE  /\ ReportsExplained'
           /\ breaker.state = "CLOSED" /\ breaker'.state = "OPEN" =>
                2 * lrsFailures' + Cardinality(Requests)
                    >= Threshold + Settlement
<1> DEFINE owed == OwedReports
<1>1. Sound(breaker) /\ TypeOK /\ Settlement \in {0, 1}
  BY DEF IndInv, TypeOK, Sound, Settlement
<1>2. /\ breaker.state = "HALF_OPEN" => breaker'.state = "OPEN"
      /\ breaker.state = "OPEN" => breaker' = breaker
      /\ breaker.state = "CLOSED" =>
           \/ /\ breaker'.state = "CLOSED"
              /\ breaker'.failureCount = breaker.failureCount + 1
           \/ /\ breaker'.state = "OPEN"
              /\ breaker.failureCount + 1 = Threshold
  BY <1>1, OnFailureSound DEF OuterFail
<1>3. breaker.state \in {"CLOSED", "OPEN", "HALF_OPEN"}
  BY <1>1 DEF Sound, Breaker, BreakerState
<1>4. r \in owed /\ owed' = owed \ {r}
  BY <1>1 DEF OuterFail, TypeOK, OwedReports, Broken
<1>5. /\ Cardinality(Requests) \in Nat /\ Cardinality(owed) \in Nat
      /\ Cardinality(owed') = Cardinality(owed) - 1
  BY <1>4, OwedReportsCounted, FS_RemoveElement
<1>6. lrsFailures \in Nat /\ lrsFailures' = lrsFailures
  BY <1>1, ConfigAssumption DEF TypeOK, OuterFail
<1>7. CASE breaker.state = "CLOSED"
  <2>1. breaker.failureCount \in Nat
    BY <1>1, ConfigAssumption DEF Sound, Breaker
  <2>2. breaker.failureCount + Cardinality(owed) + Settlement
          <= 2 * lrsFailures + Cardinality(Requests)
    BY <1>7 DEF ReportsExplained
  <2>3. Cardinality(owed) >= 1
    BY <1>4, OwedReportsCounted, FS_EmptySet
  <2> HIDE DEF owed
  <2>4. breaker.failureCount + 1 + Cardinality(owed') + Settlement
          <= 2 * lrsFailures' + Cardinality(Requests)
    BY <1>1, <1>5, <1>6, <2>1, <2>2
  <2>5. breaker'.state = "OPEN" =>
          2 * lrsFailures' + Cardinality(Requests) >= Threshold + Settlement
    BY <1>1, <1>2, <1>5, <1>6, <1>7, <2>1, <2>2, <2>3, ConfigAssumption
  <2>6. ReportsExplained'
    BY <1>2, <1>7, <2>4 DEF ReportsExplained, owed, Settlement
  <2> QED
    BY <2>5, <2>6
<1>8. CASE breaker.state # "CLOSED"
  BY <1>2, <1>3, <1>8 DEF ReportsExplained
<1> QED
  BY <1>7, <1>8

(* A success of any level starts the count anew; what is still owed is     *)
(* owed by the other requests, or by this one for another inner call.      *)
LEMMA SucceedExplained ==
    ASSUME IndInv, NEW r \in Requests,
           OuterSucceed(r) \/ \E i \in Slots : InnerSucceed(r, i)
    PROVE  breaker.state # "OPEN" =>
              ReportsExplained' /\ breaker'.state # "OPEN"
<1>1. Sound(breaker) /\ TypeOK /\ breaker' = OnSuccess(breaker)
  BY DEF IndInv, TypeOK, Sound, OuterSucceed, InnerSucceed
<1>2. /\ \/ breaker'.state = breaker.state
         \/ breaker.state = "HALF_OPEN" /\ breaker'.state = "CLOSED"
      /\ breaker'.state = "CLOSED" => breaker'.failureCount = 0
  BY <1>1, OnSuccessSound
<1>3. lrsFailures' \in Nat
  <2>1. lrsFailures' = lrsFailures \/ lrsFailures' = 0
    BY DEF OuterSucceed, InnerSucceed
  <2> QED
    BY <1>1, <2>1, ConfigAssumption DEF TypeOK
<1>4. /\ Cardinality(Requests) \in Nat /\ Cardinality(OwedReports') \in Nat
      /\ Cardinality(OwedReports') <= Cardinality(Requests)
      /\ r \notin OwedReports' =>
            Cardinality(OwedReports') + 1 <= Cardinality(Requests)
  <2>1. OwedReports' \in SUBSET Requests
    BY DEF OwedReports
  <2>2. /\ IsFiniteSet(Requests) /\ Cardinality(Requests) \in Nat
        /\ IsFiniteSet(OwedReports') /\ Cardinality(OwedReports') \in Nat
        /\ Cardinality(OwedReports') <= Cardinality(Requests)
        /\ Cardinality(OwedReports') = Cardinality(Requests)
              => OwedReports' = Requests
    BY <2>1, FanOutAssumption, FS_Subset, FS_CardinalityType
  <2> QED
    BY <2>2
<1>5. FanOuts = {1} => r \notin OwedReports'
  <2>1. CASE OuterSucceed(r)
    BY <1>1, <2>1 DEF OuterSucceed, TypeOK, OwedReports
  <2>2. ASSUME FanOuts = {1}, NEW i \in Slots, InnerSucceed(r, i)
        PROVE  ~Broken(r)'
    <3> DEFINE Calls(m) == [1..m -> {"running", "ok", "failed", "rejected"}]
    <3>1. PICK m \in {0, 1} : inner[r] \in Calls(m)
      <4>1. inner \in [Requests -> UNION {Calls(m) : m \in {0, 1}}]
        BY <1>1, <2>2 DEF TypeOK
      <4> HIDE DEF Calls
      <4> QED
        BY <4>1
    <3>2. DOMAIN inner[r] = {1} /\ i = 1
      BY <2>2, <3>1 DEF InnerSucceed, InnerRunning
    <3>3. DOMAIN inner'[r] = {1} /\ inner'[r][1] = "ok"
      BY <1>1, <2>2, <3>2 DEF InnerSucceed, TypeOK
    <3> QED
      BY <3>3 DEF Broken
  <2> QED
    BY <2>1, <2>2 DEF OwedReports
<1>6. breaker'.state = "CLOSED" =>
        breaker'.failureCount + Cardinality(OwedReports') + Settlement
          <= 2 * lrsFailures' + Cardinality(Requests)
  BY <1>2, <1>3, <1>4, <1>5 DEF Settlement
<1> QED
  BY <1>2, <1>6 DEF ReportsExplained, Settlement

(* A new query owes nothing while the breaker is closed.                   *)
LEMMA StartExplained ==
    ASSUME IndInv, ReportsExplained, NEW r \in Requests, NEW n \in FanOuts,
           Start(r, n)
    PROVE  ReportsExplained' /\ breaker'.state # "OPEN"
<1> DEFINE outer == Admitted(Entered(breaker))
<1>1. Sound(breaker) /\ TypeOK /\ n \in Nat
  BY FanOutAssumption DEF IndInv, TypeOK, Sound
<1>2. /\ Sound(Entered(breaker)) /\ ~Rejects(Entered(breaker))
      /\ breaker.state # "CLOSED" => Entered(breaker).state # "CLOSED"
  <2>1. \/ Entered(breaker) = breaker
        \/ Entered(breaker).state = "HALF_OPEN"
    BY <1>1, EnteredSound
  <2> QED
    BY <1>1, <2>1, EnteredSound DEF Start
<1>3. /\ breaker'.state = Entered(breaker).state
      /\ breaker'.state \in {"CLOSED", "HALF_OPEN"}
  <2>1. /\ Sound(outer)
        /\ outer.state = Entered(breaker).state
        /\ outer.state \in {"CLOSED", "HALF_OPEN"}
    BY <1>2, AdmittedSound
  <2> QED
    BY <1>1, <2>1, AfterFanOutSound DEF Start
<1>4. CASE breaker.state = "CLOSED"
  <2>1. breaker' = breaker /\ Room(outer, n) = n
    <3>1. outer = breaker
      BY <1>4 DEF Entered, Admitted
    <3> QED
      BY <1>4, <3>1 DEF Start, AfterFanOut, Room
  <2>2. OwedReports' \subseteq OwedReports
    <3>1. ~Broken(r)'
      <4>1. inner'[r] = [i \in 1..n |-> "running"]
        <5>1. inner'[r] = [i \in 1..n |-> IF i <= n THEN "running"
                                                    ELSE "rejected"]
          BY <1>1, <2>1 DEF Start, TypeOK
        <5> QED
          BY <1>1, <5>1
      <4> QED
        BY <4>1 DEF Broken
    <3>2. \A q \in Requests \ {r} :
             query'[q] = query[q] /\ (Broken(q)' <=> Broken(q))
      BY <1>1 DEF Start, TypeOK, Broken
    <3> QED
      BY <3>1, <3>2 DEF OwedReports
  <2>3. /\ Cardinality(OwedReports') \in Nat
        /\ Cardinality(OwedReports) \in Nat
        /\ Cardinality(OwedReports') <= Cardinality(OwedReports)
    BY <2>2, OwedReportsCounted, FS_Subset, FS_CardinalityType
  <2>4. /\ lrsFailures' = lrsFailures /\ lrsFailures \in Nat
        /\ Cardinality(Requests) \in Nat
        /\ Settlement \in {0, 1}
        /\ breaker.failureCount \in Nat
    BY <1>1, OwedReportsCounted, ConfigAssumption
    DEF Start, TypeOK, Settlement, Breaker
  <2>5. breaker.failureCount + Cardinality(OwedReports) + Settlement
          <= 2 * lrsFailures + Cardinality(Requests)
    BY <1>4 DEF ReportsExplained
  <2>6. breaker.failureCount + Cardinality(OwedReports') + Settlement
          <= 2 * lrsFailures' + Cardinality(Requests)
    BY <2>3, <2>4, <2>5
  <2> QED
    BY <1>3, <2>1, <2>6 DEF ReportsExplained, Settlement
<1>5. CASE breaker.state # "CLOSED"
  BY <1>2, <1>3, <1>5 DEF ReportsExplained
<1> QED
  BY <1>4, <1>5

(* Every step keeps the reports explained, and when it opens the circuit   *)
(* the failures counted explain the threshold.                             *)
LEMMA NextExplained ==
    ASSUME IndInv, ReportsExplained, [Next]_vars
    PROVE  /\ ReportsExplained'
           /\ breaker.state = "CLOSED" /\ breaker'.state = "OPEN" =>
                2 * lrsFailures' + Cardinality(Requests)
                    >= Threshold + Settlement
<1>1. Sound(breaker)
  BY DEF IndInv, TypeOK, Sound
<1>2. CASE breaker' = breaker /\ lrsFailures' = lrsFailures
             /\ OwedReports' = OwedReports
  BY <1>2 DEF ReportsExplained, Settlement
<1>3. CASE UNCHANGED vars
  BY <1>2, <1>3 DEF vars, OwedReports, Broken
<1>4. ASSUME NEW r \in Requests, StartRejected(r)
      PROVE  breaker' = breaker /\ breaker.state # "CLOSED"
  <2>1. breaker' = breaker
    BY <1>4, StartRejectedIndInv
  <2>2. Rejects(Entered(breaker))
    BY <1>4 DEF StartRejected
  <2> QED
    BY <2>1, <2>2 DEF Entered, Rejects
<1>5. ASSUME NEW r \in Requests,
             OuterSucceed(r) \/ \E i \in Slots : InnerSucceed(r, i)
      PROVE  /\ ReportsExplained'
             /\ ~(breaker.state = "CLOSED" /\ breaker'.state = "OPEN")
  <2>1. breaker.state = "OPEN" => breaker'.state = "OPEN"
    BY <1>1, <1>5, OnSuccessSound DEF OuterSucceed, InnerSucceed
  <2>2. breaker.state # "OPEN" => ReportsExplained' /\ breaker'.state # "OPEN"
    BY <1>5, SucceedExplained
  <2> QED
    BY <2>1, <2>2 DEF ReportsExplained
<1>6. CASE Tick
  BY <1>1, <1>6, AgedSound DEF Tick, ReportsExplained
<1>7. CASE LrsChange
  BY <1>2, <1>7 DEF LrsChange, OwedReports, Broken
<1>8. CASE \E r \in Requests : StartRejected(r)
  BY <1>4, <1>8 DEF ReportsExplained
<1> QED
  BY <1>3, <1>5, <1>6, <1>7, <1>8, StartExplained, InnerFailExplained,
     OuterFailExplained
  DEF Next

LEMMA ExplainedInvariance == Spec => [](IndInv /\ ReportsExplained)
<1>1. Init => ReportsExplained
  <2> SUFFICES ASSUME Init, Requests # {} PROVE ReportsExplained
    BY DEF ReportsExplained
  <2>1. OwedReports = {} /\ breaker.failureCount = 0 /\ lrsFailures = 0
    BY DEF Init, OwedReports, Closed
  <2>2. /\ Cardinality(OwedReports) = 0
        /\ Cardinality(Requests) \in Nat /\ Cardinality(Requests) # 0
    BY <2>1, OwedReportsCounted, FS_EmptySet
  <2> QED
    BY <2>1, <2>2 DEF ReportsExplained, Settlement
<1>2. IndInv /\ ReportsExplained /\ [Next]_vars => (IndInv /\ ReportsExplained)'
  BY NextIndInv, NextExplained
<1> QED
  BY <1>1, <1>2, InitIndInv, PTL DEF Spec

(* With single-query metrics, when the circuit opens, twice the LRS        *)
(* failures since the last success make up the threshold, but for less     *)
(* than one report per request, which may be late ones of failures before  *)
(* that success.  With no more requests at a time than the threshold, at   *)
(* least one failure is therefore later.                                   *)
THEOREM OpensForFailuresOnly ==
    FanOuts = {1} =>
       (Spec => /\ OpensOnlyOnLrsFailures
                /\ Cardinality(Requests) <= Threshold => OpensAfterLrsFailure)
<1> SUFFICES ASSUME FanOuts = {1}
             PROVE  Spec => /\ OpensOnlyOnLrsFailures
                            /\ Cardinality(Requests) <= Threshold => OpensAfterLrsFailure
  OBVIOUS
<1>1. ASSUME IndInv, ReportsExplained, [Next]_vars,
             breaker.state = "CLOSED", breaker'.state = "OPEN"
      PROVE  /\ 2 * lrsFailures' + Cardinality(Requests) > Threshold
             /\ Cardinality(Requests) <= Threshold => lrsFailures' > 0
  <2>1. 2 * lrsFailures' + Cardinality(Requests) >= Threshold + 1
    BY <1>1, NextExplained DEF Settlement
  <2>2. lrsFailures' \in Nat /\ Cardinality(Requests) \in Nat
    BY <1>1, NextIndInv, OwedReportsCounted, ConfigAssumption DEF IndInv, TypeOK
  <2> QED
    BY <2>1, <2>2, ConfigAssumption
<1>2. Spec => OpensOnlyOnLrsFailures
  <2>1. IndInv /\ ReportsExplained /\ [Next]_vars =>
          [breaker.state = "CLOSED" /\ breaker'.state = "OPEN"
             => 2 * lrsFailures' + Cardinality(Requests) > Threshold]_vars
    BY <1>1
  <2> QED
    BY <2>1, ExplainedInvariance, PTL DEF Spec, OpensOnlyOnLrsFailures
<1>3. ASSUME Cardinality(Requests) <= Threshold PROVE Spec => OpensAfterLrsFailure
  <2>1. IndInv /\ ReportsExplained /\ [Next]_vars =>
          [breaker.state = "CLOSED" /\ breaker'.state = "OPEN" => lrsFailures' > 0]_vars
    BY <1>1, <1>3
  <2> QED
    BY <2>1, ExplainedInvariance, PTL DEF Spec, OpensAfterLrsFailure
<1> QED
  BY <1>2, <1>3

(* With metrics of any fan-out the bounds are one less.                    *)
THEOREM OpensForFailedQueries ==
    Spec => /\ OpensOnlyOnFailedQueries
            /\ Cardinality(Requests) < Threshold => OpensAfterLrsFailure
<1>1. ASSUME IndInv, ReportsExplained, [Next]_vars,
             breaker.state = "CLOSED", breaker'.state = "OPEN"
      PROVE  /\ 2 * lrsFailures' + Cardinality(Requests) >= Threshold
             /\ Cardinality(Requests) < Threshold => lrsFailures' > 0
  <2>1. 2 * lrsFailures' + Cardinality(Requests) >= Threshold + Settlement
    BY <1>1, NextExplained
  <2>2. /\ lrsFailures' \in Nat /\ Cardinality(Requests) \in Nat
        /\ Settlement \in {0, 1}
    BY <1>1, NextIndInv, OwedReportsCounted, ConfigAssumption
    DEF IndInv, TypeOK, Settlement
  <2> QED
    BY <2>1, <2>2, ConfigAssumption
<1>2. Spec => OpensOnlyOnFailedQueries
  <2>1. IndInv /\ ReportsExplained /\ [Next]_vars =>
          [breaker.state = "CLOSED" /\ breaker'.state = "OPEN"
             => 2 * lrsFailures' + Cardinality(Requests) >= Threshold]_vars
    BY <1>1
  <2> QED
    BY <2>1, ExplainedInvariance, PTL DEF Spec, OpensOnlyOnFailedQueries
<1>3. ASSUME Cardinality(Requests) < Threshold PROVE Spec => OpensAfterLrsFailure
  <2>1. IndInv /\ ReportsExplained /\ [Next]_vars =>
          [breaker.state = "CLOSED" /\ breaker'.state = "OPEN" => lrsFailures' > 0]_vars
    BY <1>1, <1>3
  <2> QED
    BY <2>1, ExplainedInvariance, PTL DEF Spec, OpensAfterLrsFailure
<1> QED
  BY <1>2, <1>3

-----------------------------------------------------------------------------
(* Nested use keeps the contract of the breaker: a step of MetricQuery is  *)
(* a step of the contract, or changes nothing the contract speaks of.      *)

LEMMA InitContract == Init => Contract!Init
<1> SUFFICES ASSUME Init PROVE Contract!Init
  OBVIOUS
<1>1. \A r \in Requests : query[r] # "running" /\ InnerRunning(r) = {}
  BY DEF Init, InnerRunning
<1>2. Running = {}
  BY <1>1 DEF Running, CallIds
<1> QED
  BY <1>2, ConfigAssumption DEF Init, Contract!Init, Closed, NotOpened

(* The calls of a query are let in together: from OPEN only when it has    *)
(* cooled down, and then by moving to HALF_OPEN.                           *)
LEMMA StartContract ==
    ASSUME IndInv, NEW r \in Requests, NEW n \in FanOuts, Start(r, n)
    PROVE  Contract!Admit
<1> DEFINE entered == Entered(breaker)
           outer == Admitted(entered)
<1>1. Sound(breaker) /\ TypeOK /\ n \in Nat
  BY FanOutAssumption DEF IndInv, TypeOK, Sound
<1>2. Sound(entered) /\ ~Rejects(entered)
  BY <1>1, EnteredSound DEF Start
<1>3. /\ Sound(outer)
      /\ outer.state = entered.state
      /\ outer.openedAge = entered.openedAge
      /\ entered.state # "OPEN"
  BY <1>2, AdmittedSound
<1>4. breaker'.state = outer.state /\ breaker'.openedAge = outer.openedAge
  BY <1>1, <1>3, AfterFanOutSound DEF Start
<1>5. /\ entered.openedAge = breaker.openedAge
      /\ \/ entered = breaker
         \/ /\ breaker.state = "OPEN"
            /\ breaker.openedAge = Timeout
            /\ entered.state = "HALF_OPEN"
  BY <1>1, EnteredSound
<1>6. Running \subseteq Running' /\ Running' \in SUBSET CallIds
  BY <1>1, StartRuns DEF Running
<1> QED
  BY <1>3, <1>4, <1>5, <1>6 DEF Contract!Admit

(* A call of either level settles.                                         *)
LEMMA SettleContract ==
    ASSUME IndInv,
           NEW c \in Running, Running' = Running \ {c},
           breaker' = OnSuccess(breaker) \/ breaker' = OnFailure(breaker)
    PROVE  Contract!Settle
<1>1. Sound(breaker)
  BY DEF IndInv, TypeOK, Sound
<1>2. CASE breaker' = OnSuccess(breaker)
  <2>1. \/ /\ breaker'.state = breaker.state
           /\ breaker'.openedAge = breaker.openedAge
        \/ /\ breaker.state = "HALF_OPEN"
           /\ breaker'.state = "CLOSED"
           /\ breaker'.openedAge = NotOpened
    BY <1>1, <1>2, OnSuccessSound
  <2> QED
    BY <2>1, ConfigAssumption DEF Contract!Settle, NotOpened
<1>3. CASE breaker' = OnFailure(breaker)
  <2>1. breaker.state \in {"CLOSED", "OPEN", "HALF_OPEN"}
    BY <1>1 DEF Sound, Breaker, BreakerState
  <2>2. \/ breaker' = breaker
        \/ /\ breaker.state # "OPEN"
           /\ breaker'.state = "OPEN"
           /\ breaker'.openedAge = 0
        \/ /\ breaker.state = "CLOSED"
           /\ breaker'.state = "CLOSED"
           /\ breaker'.openedAge = NotOpened
    BY <1>1, <1>3, <2>1, OnFailureSound
  <2>3. breaker.state = "CLOSED" => breaker.openedAge = NotOpened
    BY <1>1 DEF Sound, Consistent
  <2> QED
    BY <2>2, <2>3, ConfigAssumption DEF Contract!Settle, NotOpened
<1> QED
  BY <1>2, <1>3

(* However requests overlap, and although each of them enters the breaker  *)
(* again from within, an open breaker lets no call through until it has    *)
(* cooled down.                                                            *)
THEOREM ImplementsContract == Spec => KeepsContract
<1>1. IndInv /\ [Next]_vars => [Contract!Next]_(Contract!vars)
  <2> SUFFICES ASSUME IndInv, [Next]_vars
               PROVE  [Contract!Next]_(Contract!vars)
    OBVIOUS
  <2>1. Sound(breaker)
    BY DEF IndInv, TypeOK, Sound
  <2>2. CASE UNCHANGED vars
    BY <2>2 DEF vars, Contract!vars, Running, InnerRunning
  <2>3. ASSUME NEW r \in Requests, StartRejected(r)
        PROVE  [Contract!Next]_(Contract!vars)
    BY <2>3, StartRejectedIndInv DEF Contract!vars
  <2>4. ASSUME NEW r \in Requests, NEW n \in FanOuts, Start(r, n)
        PROVE  [Contract!Next]_(Contract!vars)
    BY <2>4, StartContract DEF Contract!Next
  <2>5. ASSUME NEW r \in Requests, NEW i \in Slots, InnerSettle(r, i)
        PROVE  [Contract!Next]_(Contract!vars)
    <3>1. breaker' = OnSuccess(breaker) \/ breaker' = OnFailure(breaker)
      BY <2>5 DEF InnerSettle, InnerSucceed, InnerFail
    <3>2. <<r, i>> \in Running /\ Running' = Running \ {<<r, i>>}
      BY <2>5, InnerSettleIndInv
    <3> QED
      BY <3>1, <3>2, SettleContract DEF Contract!Next
  <2>6. ASSUME NEW r \in Requests, OuterSettle(r)
        PROVE  [Contract!Next]_(Contract!vars)
    <3>1. breaker' = OnSuccess(breaker) \/ breaker' = OnFailure(breaker)
      BY <2>6 DEF OuterSettle, OuterSucceed, OuterFail
    <3>2. Outer(r) \in Running /\ Running' = Running \ {Outer(r)}
      BY <2>6, OuterSettleIndInv
    <3> QED
      BY <3>1, <3>2, SettleContract DEF Contract!Next
  <2>7. CASE Tick
    <3>1. /\ breaker.state = "OPEN" /\ breaker'.state = "OPEN"
          /\ breaker.openedAge < Timeout
          /\ Running' = Running
      BY <2>1, <2>7, AgedSound, TickIndInv DEF Tick, CanAge
    <3>2. breaker.openedAge # Timeout
      BY <2>1, <3>1, ConfigAssumption DEF Sound, Breaker, NotOpened
    <3>3. CASE breaker'.openedAge = Timeout
      BY <3>1, <3>3 DEF Contract!CoolDown, Contract!Next
    <3>4. CASE breaker'.openedAge # Timeout
      BY <3>1, <3>2, <3>4 DEF Contract!vars
    <3> QED
      BY <3>3, <3>4
  <2>8. CASE LrsChange
    BY <2>8, LrsChangeIndInv DEF Contract!vars
  <2> QED
    BY <2>2, <2>3, <2>4, <2>5, <2>6, <2>7, <2>8
    DEF Next, InnerSettle, OuterSettle
<1> QED
  BY <1>1, InitContract, Invariance, PTL
  DEF Spec, KeepsContract, Contract!Spec

=============================================================================
