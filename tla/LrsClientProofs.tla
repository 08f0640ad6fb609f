--------------------------- MODULE LrsClientProofs ---------------------------
(***************************************************************************)
(* A paged and retried query returns a snapshot, for any page size, limit, *)
(* number of retries and speed at which the LRS grows.  While it runs, its *)
(* statements are those from `instant' down to the next page's first, and  *)
(* that one is still later than the cursor (Progress).                     *)
(***************************************************************************)
EXTENDS LrsClient, SequenceTheorems, TLAPS

(* The k statements up to number n, newest first.                          *)
Desc(n, k) == [i \in 1..k |-> n - i + 1]

Scalars ==
    /\ stored \in 0..MaxStored
    /\ since \in 0..stored
    /\ phase \in {"idle", "requested", "replied", "backoff", "ok", "failed"}
    /\ from \in 0..stored
    /\ instant \in NoInstant..stored
    /\ instant # NoInstant => since <= instant

(* Between two pages.                                                      *)
Progress ==
    Running =>
        IF from = FirstPage THEN statements = <<>>
        ELSE /\ since < from /\ from < instant
             /\ instant - from < MaxStatements
             /\ statements = Desc(instant, instant - from)

Top == IF from = FirstPage THEN instant ELSE from

ReplyExpected ==
    IF phase = "replied"
    THEN instant # NoInstant /\ reply = Page(Top)
    ELSE reply = NoReply

IndInv == Scalars /\ Progress /\ ReplyExpected

-----------------------------------------------------------------------------

(* A descending run is a sequence.                                         *)
LEMMA DescIsSeq ==
    ASSUME NEW n \in Int, NEW k \in Nat
    PROVE  /\ Desc(n, k) \in Seq(Int)
           /\ Len(Desc(n, k)) = k
           /\ \A i \in 1..k : Desc(n, k)[i] = n - i + 1
<1>1. \A i \in 1..k : n - i + 1 \in Int
  OBVIOUS
<1>2. Desc(n, k) \in Seq(Int)
  BY <1>1, IsASeq DEF Desc
<1>3. DOMAIN Desc(n, k) = 1..k
  BY DEF Desc
<1>4. Len(Desc(n, k)) = k
  BY <1>2, <1>3, LenProperties
<1> QED
  BY <1>2, <1>4 DEF Desc

(* Pages that follow each other make one longer run.                       *)
LEMMA DescConcat ==
    ASSUME NEW n \in Int, NEW k \in Nat, NEW m \in Nat
    PROVE  Desc(n, k) \o Desc(n - k, m) = Desc(n, k + m)
<1> DEFINE S == Desc(n, k)
           T == Desc(n - k, m)
           U == Desc(n, k + m)
<1>1. S \in Seq(Int) /\ Len(S) = k /\ \A i \in 1..k : S[i] = n - i + 1
  BY DescIsSeq
<1>2. T \in Seq(Int) /\ Len(T) = m /\ \A i \in 1..m : T[i] = (n - k) - i + 1
  BY DescIsSeq
<1>3. U \in Seq(Int) /\ Len(U) = k + m /\ \A i \in 1..(k + m) : U[i] = n - i + 1
  BY DescIsSeq
<1> HIDE DEF S, T, U
<1>4. /\ S \o T \in Seq(Int)
      /\ Len(S \o T) = k + m
      /\ \A i \in 1..(k + m) : (S \o T)[i] = IF i <= k THEN S[i] ELSE T[i - k]
  BY <1>1, <1>2, ConcatProperties
<1>5. ASSUME NEW i \in 1..(k + m) PROVE (S \o T)[i] = U[i]
  <2>1. CASE i <= k
    BY <1>1, <1>3, <1>4, <2>1
  <2>2. CASE ~(i <= k)
    <3>1. i - k \in 1..m
      BY <2>2
    <3>2. T[i - k] = (n - k) - (i - k) + 1
      BY <1>2, <3>1
    <3>3. (n - k) - (i - k) + 1 = n - i + 1
      OBVIOUS
    <3>4. (S \o T)[i] = T[i - k]
      BY <1>4, <2>2
    <3>5. U[i] = n - i + 1
      BY <1>3
    <3> QED
      BY <3>2, <3>3, <3>4, <3>5
  <2> QED
    BY <2>1, <2>2
<1> QED
  BY <1>3, <1>4, <1>5, SeqEqual DEF S, T, U

(* The limit keeps the newest statements of a run.                         *)
LEMMA DescTrimmed ==
    ASSUME NEW n \in Int, NEW k \in Nat
    PROVE  Trimmed(Desc(n, k)) = Desc(n, Smaller(k, MaxStatements))
<1> DEFINE S == Desc(n, k)
           m == Smaller(k, MaxStatements)
           T == SubSeq(S, 1, m)
           U == Desc(n, m)
<1>1. m \in Nat /\ m <= k
  BY LrsClientAssumption DEF Smaller
<1>2. S \in Seq(Int) /\ Len(S) = k /\ \A i \in 1..k : S[i] = n - i + 1
  BY DescIsSeq
<1>3. U \in Seq(Int) /\ Len(U) = m /\ \A i \in 1..m : U[i] = n - i + 1
  BY <1>1, DescIsSeq
<1>4. Trimmed(S) = T
  BY <1>2 DEF Trimmed
<1> HIDE DEF S, U, m
<1>5. T \in Seq(Int) /\ Len(T) = m /\ \A i \in 1..m : T[i] = S[i]
  BY <1>1, <1>2, SubSeqProperties
<1>6. \A i \in 1..m : T[i] = U[i]
  BY <1>1, <1>2, <1>3, <1>5
<1>7. T = U
  BY <1>3, <1>5, <1>6, SeqEqual
<1> QED
  BY <1>4, <1>7 DEF S, U, m

(* A page is such a run, and ends after the cursor.                        *)
LEMMA PageIsDesc ==
    ASSUME Scalars, NEW top \in Int, since <= top
    PROVE  LET n == Smaller(top - since, PageSize)
           IN  /\ n \in Nat /\ n <= top - since
               /\ Page(top).statements = Desc(top, n)
               /\ Page(top).more = IF top - n > since THEN top - n ELSE NoMore
               /\ top - n > since => n > 0
  BY LrsClientAssumption DEF Scalars, Smaller, Page, Desc

-----------------------------------------------------------------------------

(* Before the first query nothing is collected.                            *)
LEMMA InitIndInv == Init => IndInv
  BY LrsClientAssumption
  DEF Init, IndInv, Scalars, Progress, ReplyExpected, Running, NoInstant,
      FirstPage

(* A new query starts with nothing.                                        *)
LEMMA CallIndInv ==
    ASSUME IndInv, NEW c \in 0..stored, QueryStatements(c)
    PROVE  IndInv'
  BY DEF QueryStatements, IndInv, Scalars, Progress, ReplyExpected, Running,
         NoInstant, FirstPage

(* The LRS evaluates a request for a page.                                 *)
LEMMA EvaluateIndInv ==
    ASSUME IndInv, Evaluate
    PROVE  IndInv'
<1>1. Scalars'
  BY DEF Evaluate, IndInv, Scalars, NoInstant, FirstPage
<1>2. Progress'
  BY DEF Evaluate, IndInv, Progress, Running, FirstPage
<1>3. ReplyExpected'
  <2>1. (IF from = FirstPage THEN stored ELSE from) = Top'
    BY DEF Evaluate, Top
  <2>2. instant' # NoInstant
    BY LrsClientAssumption
    DEF Evaluate, IndInv, Scalars, Progress, Running, FirstPage, NoInstant
  <2> QED
    BY <2>1, <2>2 DEF Evaluate, ReplyExpected, Page
<1> QED
  BY <1>1, <1>2, <1>3 DEF IndInv

(* What has been collected when a page arrives.                            *)
LEMMA CollectedIsDesc ==
    ASSUME IndInv, phase = "replied"
    PROVE  LET n == Smaller(Top - since, PageSize)
               k == instant - Top + n
           IN  /\ instant \in since..stored
               /\ Top \in since..instant
               /\ n \in Nat /\ n <= Top - since
               /\ k \in Nat /\ k <= instant - since
               /\ Collected = Desc(instant, k)
               /\ Len(Collected) = k
               /\ reply.more = IF Top - n > since THEN Top - n ELSE NoMore
               /\ Top - n > since => n > 0
<1> DEFINE n == Smaller(Top - since, PageSize)
           k == instant - Top + n
<1>1. /\ Scalars /\ Running
      /\ instant \in since..stored /\ reply = Page(Top)
  BY DEF IndInv, Scalars, ReplyExpected, Running, NoInstant
<1>2. /\ Top \in since..instant
      /\ statements = Desc(instant, instant - Top)
  <2>1. CASE from = FirstPage
    <3>1. Desc(instant, 0) = <<>>
      BY DEF Desc
    <3> QED
      BY <1>1, <2>1, <3>1 DEF IndInv, Scalars, Progress, Top
  <2>2. CASE from # FirstPage
    BY <1>1, <2>2 DEF IndInv, Scalars, Progress, Top
  <2> QED
    BY <2>1, <2>2
<1>3. /\ n \in Nat /\ n <= Top - since
      /\ reply.statements = Desc(Top, n)
      /\ reply.more = IF Top - n > since THEN Top - n ELSE NoMore
      /\ Top - n > since => n > 0
  BY <1>1, <1>2, PageIsDesc DEF Scalars
<1>4. k \in Nat /\ k <= instant - since
  BY <1>1, <1>2, <1>3 DEF Scalars
<1>5. Collected = Desc(instant, k)
  <2>1. /\ instant \in Int /\ n \in Nat
        /\ instant - (instant - Top) = Top /\ instant - Top \in Nat
    BY <1>1, <1>2, <1>3 DEF Scalars
  <2> HIDE DEF n
  <2>2. Desc(instant, instant - Top) \o Desc(instant - (instant - Top), n)
          = Desc(instant, (instant - Top) + n)
    BY <2>1, DescConcat
  <2> QED
    BY <1>2, <1>3, <2>1, <2>2 DEF Collected
<1>6. Len(Collected) = k
  BY <1>1, <1>4, <1>5, DescIsSeq DEF Scalars
<1> QED
  BY <1>1, <1>2, <1>3, <1>4, <1>5, <1>6

(* A page continues the run collected so far.                              *)
LEMMA ReceivePageIndInv ==
    ASSUME IndInv, ReceivePage
    PROVE  IndInv'
<1> DEFINE n == Smaller(Top - since, PageSize)
           k == instant - Top + n
<1>1. phase = "replied"
  BY DEF ReceivePage
<1>2. /\ instant \in since..stored
      /\ Top \in since..instant
      /\ n \in Nat /\ n <= Top - since
      /\ k \in Nat /\ Collected = Desc(instant, k)
      /\ Len(Collected) = k
      /\ reply.more = IF Top - n > since THEN Top - n ELSE NoMore
      /\ Top - n > since => n > 0
  BY <1>1, CollectedIsDesc
<1>3. ReplyExpected'
  BY DEF ReceivePage, ReplyExpected
<1> HIDE DEF n, k
<1>4. CASE Complete
  <2>1. Scalars'
    BY <1>4 DEF ReceivePage, IndInv, Scalars
  <2>2. Progress'
    BY <1>4 DEF ReceivePage, Progress, Running
  <2> QED
    BY <1>3, <2>1, <2>2 DEF IndInv
<1>5. CASE ~Complete
  <2>1. /\ reply.more = Top - n /\ Top - n > since /\ n > 0
        /\ k < MaxStatements
    <3>1. reply.more # NoMore /\ ~(k >= MaxStatements)
      BY <1>2, <1>5 DEF Complete
    <3>2. Top - n > since
      BY <1>2, <3>1
    <3> QED
      BY <1>2, <3>1, <3>2, LrsClientAssumption
  <2>2. /\ from' = Top - n /\ since' = since /\ instant' = instant
        /\ stored' = stored /\ statements' = Collected /\ phase' = "requested"
    BY <1>5, <2>1 DEF ReceivePage
  <2>3. /\ stored \in 0..MaxStored /\ since \in 0..stored
        /\ instant \in NoInstant..stored
    BY DEF IndInv, Scalars
  <2>4. Scalars'
    BY <1>2, <2>1, <2>2, <2>3 DEF Scalars
  <2>5. from' # FirstPage
    BY <1>2, <2>1, <2>2, <2>3 DEF FirstPage
  <2>6. instant - from' = k /\ since < from' /\ from' < instant
    BY <1>2, <2>1, <2>2, <2>3 DEF k
  <2>7. Progress'
    BY <1>2, <2>1, <2>2, <2>5, <2>6 DEF Progress
  <2> QED
    BY <1>3, <2>4, <2>7 DEF IndInv
<1> QED
  BY <1>4, <1>5

(* The other steps leave what is collected alone.                          *)
LEMMA OtherIndInv ==
    ASSUME IndInv,
           \/ \E e \in LrsErrors : ReceiveError(e)
           \/ ReceiveMalformed
           \/ Retry
           \/ Insert
    PROVE  IndInv'
<1>1. ASSUME NEW e \in LrsErrors, ReceiveError(e) PROVE IndInv'
  BY <1>1 DEF ReceiveError, IndInv, Scalars, Progress, ReplyExpected, Running
<1>2. CASE ReceiveMalformed
  BY <1>2 DEF ReceiveMalformed, IndInv, Scalars, Progress, ReplyExpected, Running
<1>3. CASE Retry
  BY <1>3 DEF Retry, IndInv, Scalars, Progress, ReplyExpected, Running
<1>4. CASE Insert
  <2>1. Scalars'
    BY <1>4, LrsClientAssumption DEF Insert, IndInv, Scalars, NoInstant
  <2>2. Progress'
    BY <1>4 DEF Insert, IndInv, Progress, Running
  <2>3. ReplyExpected'
    BY <1>4 DEF Insert, IndInv, ReplyExpected, Page, Top
  <2> QED
    BY <2>1, <2>2, <2>3 DEF IndInv
<1> QED
  BY <1>1, <1>2, <1>3, <1>4

(* What has been collected is a run of the statements that the LRS held    *)
(* when the first page was evaluated, in every reachable state.            *)
THEOREM Invariance == Spec => []IndInv
<1>1. IndInv /\ [Next]_vars => IndInv'
  <2> SUFFICES ASSUME IndInv, [Next]_vars PROVE IndInv'
    OBVIOUS
  <2>1. CASE UNCHANGED vars
    BY <2>1 DEF vars, IndInv, Scalars, Progress, ReplyExpected, Running, Page, Top
  <2>2. ASSUME NEW c \in 0..stored, QueryStatements(c) PROVE IndInv'
    BY <2>2, CallIndInv
  <2> QED
    BY <2>1, <2>2, EvaluateIndInv, ReceivePageIndInv, OtherIndInv DEF Next
<1> QED
  BY <1>1, InitIndInv, PTL DEF Spec

-----------------------------------------------------------------------------

(* A query that ends returns what the LRS held at its instant, the newest  *)
(* first and MaxStatements at most.                                        *)
LEMMA CompleteIsNewest ==
    ASSUME IndInv, phase = "replied", Complete
    PROVE  /\ instant # NoInstant
           /\ Trimmed(Collected) = Snapshot!Newest(since, instant)
<1> DEFINE n == Smaller(Top - since, PageSize)
           k == instant - Top + n
<1>1. /\ instant \in since..stored
      /\ Top \in since..instant
      /\ n \in Nat /\ n <= Top - since
      /\ k \in Nat /\ k <= instant - since
      /\ Collected = Desc(instant, k)
      /\ Len(Collected) = k
      /\ reply.more = IF Top - n > since THEN Top - n ELSE NoMore
  BY CollectedIsDesc
<1>2. since \in Nat /\ instant \in Nat /\ instant # NoInstant
  BY <1>1, LrsClientAssumption DEF IndInv, Scalars, NoInstant
<1>3. Trimmed(Collected) = Desc(instant, Smaller(k, MaxStatements))
  BY <1>1, <1>2, DescTrimmed
<1> HIDE DEF n
<1>4. Smaller(k, MaxStatements) = Smaller(instant - since, MaxStatements)
  <2>1. CASE reply.more = NoMore
    <3>1. ~(Top - n > since)
      BY <1>1, <1>2, <2>1 DEF NoMore
    <3> QED
      BY <1>1, <1>2, <3>1
  <2>2. CASE Len(Collected) >= MaxStatements
    BY <1>1, <1>2, <2>2, LrsClientAssumption DEF Smaller
  <2> QED
    BY <2>1, <2>2 DEF Complete
<1>5. Snapshot!Newest(since, instant)
        = Desc(instant, Smaller(instant - since, MaxStatements))
  BY DEF Snapshot!Newest, Snapshot!Smaller, Smaller, Desc
<1> QED
  BY <1>2, <1>3, <1>4, <1>5

(* Whatever fails, is retried or is stored meanwhile, the answer of a      *)
(* query is a snapshot taken while it ran: the step that MetricCache makes *)
(* of it.                                                                  *)
THEOREM ImplementsSnapshot == Spec => IsSnapshot
<1>1. Init => Snapshot!Init
  BY DEF Init, Snapshot!Init, Running
<1>2. IndInv /\ [Next]_vars => [Snapshot!Next]_(Snapshot!vars)
  <2> SUFFICES ASSUME IndInv, [Next]_vars
               PROVE  [Snapshot!Next]_(Snapshot!vars)
    OBVIOUS
  <2>1. CASE UNCHANGED vars
    BY <2>1 DEF vars, Snapshot!vars, Running
  <2>2. ASSUME NEW c \in 0..stored, QueryStatements(c)
        PROVE  Snapshot!Next
    <3>1. Snapshot!Call(c)
      BY <2>2
      DEF IndInv, Scalars, QueryStatements, Running, Snapshot!Call
    <3> QED
      BY <3>1 DEF Snapshot!Next
  <2>3. CASE Evaluate
    BY <2>3 DEF Evaluate, Running, Snapshot!Look, Snapshot!Next, Snapshot!vars
  <2>4. CASE ReceivePage
    <3>1. CASE Complete
      <4>1. /\ instant # NoInstant
            /\ statements' = Snapshot!Newest(since, instant)
        BY <2>4, <3>1, CompleteIsNewest DEF ReceivePage
      <4> QED
        BY <2>4, <3>1, <4>1
        DEF ReceivePage, Running, Snapshot!Return, Snapshot!Next
    <3>2. CASE ~Complete
      BY <2>4, <3>2 DEF ReceivePage, Running, Snapshot!vars
    <3> QED
      BY <3>1, <3>2
  <2>5. ASSUME NEW e \in LrsErrors, ReceiveError(e)
        PROVE  [Snapshot!Next]_(Snapshot!vars)
    BY <2>5
    DEF ReceiveError, Running, Snapshot!Throw, Snapshot!Next, Snapshot!vars
  <2>6. CASE ReceiveMalformed
    BY <2>6 DEF ReceiveMalformed, Running, Snapshot!Throw, Snapshot!Next
  <2>7. CASE Retry
    BY <2>7 DEF Retry, Running, Snapshot!vars
  <2>8. CASE Insert
    BY <2>8 DEF Insert, Running, Snapshot!Insert, Snapshot!Next
  <2> QED
    BY <2>1, <2>2, <2>3, <2>4, <2>5, <2>6, <2>7, <2>8 DEF Next
<1> QED
  BY <1>1, <1>2, Invariance, PTL DEF Spec, IsSnapshot, Snapshot!Spec

-----------------------------------------------------------------------------

(* The retries of a page: one that runs has not used them up, and one that *)
(* waits has another one coming.                                           *)
Attempts ==
    /\ attempt \in 0..(MaxRetries + 1)
    /\ Running => attempt <= MaxRetries
    /\ phase = "backoff" => attempt < MaxRetries
    /\ GivesUpOnlyWhenExhausted

(* Attempts are counted, in every reachable state.                         *)
LEMMA AttemptsInvariance == Spec => []Attempts
<1> USE LrsClientAssumption DEF Attempts, GivesUpOnlyWhenExhausted, Running
<1>1. Init => Attempts
  BY DEF Init
<1>2. Attempts /\ [Next]_vars => Attempts'
  <2> SUFFICES ASSUME Attempts, [Next]_vars PROVE Attempts'
    OBVIOUS
  <2>1. CASE UNCHANGED vars
    BY <2>1 DEF vars
  <2>2. ASSUME NEW c \in 0..stored, QueryStatements(c) PROVE Attempts'
    BY <2>2 DEF QueryStatements
  <2>3. CASE Evaluate
    BY <2>3 DEF Evaluate
  <2>4. CASE ReceivePage
    BY <2>4 DEF ReceivePage
  <2>5. ASSUME NEW e \in LrsErrors, ReceiveError(e) PROVE Attempts'
    BY <2>5 DEF ReceiveError, Retries, FailsFast
  <2>6. CASE ReceiveMalformed
    BY <2>6 DEF ReceiveMalformed
  <2>7. CASE Retry
    BY <2>7 DEF Retry
  <2>8. CASE Insert
    BY <2>8 DEF Insert
  <2> QED
    BY <2>1, <2>2, <2>3, <2>4, <2>5, <2>6, <2>7, <2>8 DEF Next
<1> HIDE DEF Attempts, GivesUpOnlyWhenExhausted, Running
<1> QED
  BY <1>1, <1>2, PTL DEF Spec

(* The client gives up on a page only when no attempt is left or no        *)
(* repetition can help.                                                    *)
THEOREM GivesUpLast == Spec => []GivesUpOnlyWhenExhausted
<1>1. Attempts => GivesUpOnlyWhenExhausted
  BY DEF Attempts
<1> QED
  BY <1>1, AttemptsInvariance, PTL

-----------------------------------------------------------------------------

(* A run from a stored statement down to a later one than the cursor's     *)
(* names statements of the LRS only.                                       *)
LEMMA DescWithin ==
    ASSUME NEW s \in Nat, NEW n \in 0..s, NEW k \in 0..n
    PROVE  Desc(n, k) \in Seq(1..s)
<1>1. \A i \in 1..k : n - i + 1 \in 1..s
  OBVIOUS
<1> QED
  BY <1>1, IsASeq DEF Desc

(* What a query has collected, and what it has returned, is in the LRS.    *)
Kept ==
    /\ statements \in Seq(1..stored)
    /\ error \in LrsErrors \cup {Malformed, NoError}

(* A page leaves the types as they are.                                    *)
LEMMA KeptByPage ==
    ASSUME IndInv, ReceivePage
    PROVE  statements' \in Seq(1..stored')
<1> DEFINE n == Smaller(Top - since, PageSize)
           k == instant - Top + n
<1>1. /\ instant \in since..stored
      /\ k \in Nat /\ k <= instant - since
      /\ Collected = Desc(instant, k)
  BY CollectedIsDesc DEF ReceivePage
<1>2. stored \in Nat /\ since \in Nat /\ stored' = stored
  BY LrsClientAssumption DEF IndInv, Scalars, ReceivePage
<1> HIDE DEF k
<1>3. instant \in 0..stored /\ k \in 0..instant
  BY <1>1, <1>2
<1>4. CASE Complete
  <2>1. Smaller(k, MaxStatements) \in 0..instant
    BY <1>3, LrsClientAssumption DEF Smaller
  <2>2. statements' = Desc(instant, Smaller(k, MaxStatements))
    BY <1>1, <1>2, <1>3, <1>4, DescTrimmed DEF ReceivePage
  <2> QED
    BY <1>2, <1>3, <2>1, <2>2, DescWithin
<1>5. CASE ~Complete
  BY <1>1, <1>2, <1>3, <1>5, DescWithin DEF ReceivePage
<1> QED
  BY <1>4, <1>5

(* Every step keeps the types.                                             *)
LEMMA KeptStep ==
    ASSUME IndInv, Kept, [Next]_vars
    PROVE  Kept'
<1>1. stored \in Nat
  BY LrsClientAssumption DEF IndInv, Scalars
<1>2. CASE UNCHANGED vars
  BY <1>2 DEF vars, Kept
<1>3. ASSUME NEW c \in 0..stored, QueryStatements(c) PROVE Kept'
  BY <1>3 DEF QueryStatements, Kept
<1>4. CASE Evaluate
  BY <1>4 DEF Evaluate, Kept
<1>5. CASE ReceivePage
  BY <1>5, KeptByPage DEF ReceivePage, Kept
<1>6. ASSUME NEW e \in LrsErrors, ReceiveError(e) PROVE Kept'
  <2>1. /\ statements' \in {statements, <<>>}
        /\ error' = e /\ stored' = stored
    BY <1>6 DEF ReceiveError
  <2>2. <<>> \in Seq(1..stored)
    OBVIOUS
  <2>3. statements' \in Seq(1..stored')
    BY <2>1, <2>2 DEF Kept
  <2> QED
    BY <2>1, <2>3 DEF Kept
<1>7. CASE ReceiveMalformed
  BY <1>7 DEF ReceiveMalformed, Kept
<1>8. CASE Retry
  BY <1>8 DEF Retry, Kept
<1>9. CASE Insert
  <2>1. stored' = stored + 1 /\ statements' = statements /\ error' = error
    BY <1>9 DEF Insert
  <2>2. 1..stored \subseteq 1..stored'
    BY <1>1, <2>1
  <2>3. statements \in Seq(1..stored')
    BY <2>2, SeqMonotonic DEF Kept
  <2> QED
    BY <2>1, <2>3 DEF Kept
<1> QED
  BY <1>2, <1>3, <1>4, <1>5, <1>6, <1>7, <1>8, <1>9 DEF Next

(* A page on its way has statements of the LRS, and a link to one.         *)
LEMMA ReplyType ==
    ASSUME IndInv
    PROVE  reply.statements \in Seq(1..stored) /\ reply.more \in -1..stored
<1> DEFINE n == Smaller(Top - since, PageSize)
<1>1. stored \in Nat
  BY LrsClientAssumption DEF IndInv, Scalars
<1>2. CASE phase = "replied"
  <2>1. /\ instant \in since..stored
        /\ Top \in since..instant
        /\ n \in Nat /\ n <= Top - since
        /\ reply.more = IF Top - n > since THEN Top - n ELSE NoMore
    BY <1>2, CollectedIsDesc
  <2>2. since \in Nat /\ Scalars
    BY DEF IndInv, Scalars
  <2>3. reply.statements = Desc(Top, n)
    BY <1>2, <2>1, <2>2, PageIsDesc DEF IndInv, ReplyExpected
  <2> HIDE DEF n
  <2>4. Top \in 0..stored /\ n \in 0..Top
    BY <1>1, <2>1, <2>2
  <2>5. reply.statements \in Seq(1..stored)
    BY <1>1, <2>3, <2>4, DescWithin
  <2> QED
    BY <1>1, <2>1, <2>4, <2>5 DEF NoMore
<1>3. CASE phase # "replied"
  <2>1. reply.statements = <<>> /\ reply.more = -1
    BY <1>3 DEF IndInv, ReplyExpected, NoReply
  <2> QED
    BY <1>1, <2>1
<1> QED
  BY <1>2, <1>3

(* Every variable has its type: pages, collections and answers hold        *)
(* nothing that the LRS does not, and no page is retried too often.        *)
THEOREM TypeCorrect == Spec => []TypeOK
<1>1. Init => Kept
  BY DEF Init, Kept
<1>2. IndInv /\ Attempts /\ Kept => TypeOK
  BY ReplyType DEF IndInv, Scalars, Attempts, Kept, TypeOK
<1> QED
  BY <1>1, <1>2, KeptStep, Invariance, AttemptsInvariance, PTL DEF Spec

=============================================================================
