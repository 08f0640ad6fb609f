------------------------------ MODULE LrsClient ------------------------------
(***************************************************************************)
(* LRSClient.queryStatements: one query of an LRS that grows meanwhile,    *)
(* fetched page by page, each page with its retries.                       *)
(*                                                                         *)
(* Statements are numbered in the order in which the LRS stores them; the  *)
(* service never asks for `ascending', so that pages come newest first.    *)
(* `more' is a link with the number of the next page's first statement     *)
(* (docs/resources/xapi/API-lrs-documentation.md, Pagination).             *)
(***************************************************************************)
EXTENDS Integers, Sequences

CONSTANTS
    MaxRetries,     \* config.maxRetries
    MaxStatements,  \* maxStatements
    PageSize,       \* statements that the LRS puts on a page
    MaxStored       \* bound of the model

ASSUME LrsClientAssumption ==
    /\ MaxRetries \in Nat
    /\ MaxStatements \in Nat \ {0}
    /\ PageSize \in Nat \ {0}
    /\ MaxStored \in Nat

VARIABLES
    stored,     \* how many statements the LRS has
    since,      \* filters.since as the number of the cursor's statement
    phase,      \* where the query is
    from,       \* the next page: FirstPage, or the number in the `more' link
    attempt,    \* attempts at this page before this one
    reply,      \* the page on its way to the client
    statements, \* what the client has collected
    error,      \* the last error of this page
    \* History, read by the properties only:
    instant     \* `stored' when the LRS last evaluated the first page

vars == <<stored, since, phase, from, attempt, reply, statements, error,
          instant>>

-----------------------------------------------------------------------------
(* Errors as categorizeError tells them apart.                             *)

LrsErrors == {"timeout", "connection", "auth", "rate_limit", "server",
              "client", "unknown"}

Malformed == "malformed"    \* counted as "unknown" too
NoError == "none"

(* 4xx except 429 is not retried.                                          *)
FailsFast(e) == e \in {"auth", "client"}

-----------------------------------------------------------------------------
(* The LRS.                                                                *)

FirstPage == 0
NoMore == 0
NoReply == [statements |-> <<>>, more |-> -1]
NoInstant == -1

Smaller(m, n) == IF m < n THEN m ELSE n

(* The page that starts at statement `top'.                                *)
Page(top) ==
    LET n == Smaller(top - since, PageSize)
    IN  [statements |-> [i \in 1..n |-> top - i + 1],
         more       |-> IF top - n > since THEN top - n ELSE NoMore]

-----------------------------------------------------------------------------

Init ==
    /\ stored = 0
    /\ since = 0
    /\ phase = "idle"
    /\ from = FirstPage
    /\ attempt = 0
    /\ reply = NoReply
    /\ statements = <<>>
    /\ error = NoError
    /\ instant = NoInstant

Running == phase \in {"requested", "replied", "backoff"}

(* queryStatements sends the request for the first page.                   *)
QueryStatements(c) ==
    /\ ~Running
    /\ phase' = "requested"
    /\ since' = c
    /\ from' = FirstPage
    /\ attempt' = 0
    /\ reply' = NoReply
    /\ statements' = <<>>
    /\ error' = NoError
    /\ instant' = NoInstant
    /\ UNCHANGED stored

(* The LRS evaluates the request: the first page as of now, a later one    *)
(* from where its link says.                                               *)
Evaluate ==
    /\ phase = "requested"
    /\ phase' = "replied"
    /\ reply' = Page(IF from = FirstPage THEN stored ELSE from)
    /\ instant' = IF from = FirstPage THEN stored ELSE instant
    /\ UNCHANGED <<stored, since, from, attempt, statements, error>>

Collected == statements \o reply.statements

\* Mutant of Complete: that there is no link is not noticed.
CompleteAtLimitOnly == Len(Collected) >= MaxStatements

(* No further page is needed.                                              *)
Complete == reply.more = NoMore \/ Len(Collected) >= MaxStatements

\* Mutant of Trimmed: the oldest statements are kept instead of the newest.
TrimmedToOldest(S) ==
    SubSeq(S, IF Len(S) > MaxStatements THEN Len(S) - MaxStatements + 1 ELSE 1,
           Len(S))

Trimmed(S) == SubSeq(S, 1, Smaller(Len(S), MaxStatements))

(* A page arrives: the query returns, or the next page is requested with a *)
(* fresh budget of retries.                                                *)
ReceivePage ==
    /\ phase = "replied"
    /\ IF Complete
       THEN /\ phase' = "ok"
            /\ statements' = Trimmed(Collected)
            /\ UNCHANGED <<from, attempt, error>>
       ELSE /\ phase' = "requested"
            /\ statements' = Collected
            /\ from' = reply.more
            /\ attempt' = 0
            /\ error' = NoError
    /\ reply' = NoReply
    /\ UNCHANGED <<stored, since, instant>>

\* Mutants of Retries: one attempt too many, or one too few.
RetriesOnceMore(e) == ~FailsFast(e) /\ attempt <= MaxRetries
RetriesOnceLess(e) == ~FailsFast(e) /\ attempt + 1 < MaxRetries

(* A failed attempt is followed by another one, after a delay.             *)
Retries(e) == ~FailsFast(e) /\ attempt < MaxRetries

(* The request fails, before or after the LRS has evaluated it: the client *)
(* waits and tries again, or gives up.  (After its last attempt it does    *)
(* not wait.)                                                              *)
ReceiveError(e) ==
    /\ phase \in {"requested", "replied"}
    /\ error' = e
    /\ reply' = NoReply
    /\ IF Retries(e)
       THEN /\ phase' = "backoff"
            /\ UNCHANGED <<attempt, statements>>
       ELSE /\ phase' = "failed"
            /\ attempt' = attempt + 1
            /\ statements' = <<>>
    /\ UNCHANGED <<stored, since, from, instant>>

(* An answer with status 200 that holds no statements: the error is thrown *)
(* outside of the retry loop.                                              *)
ReceiveMalformed ==
    /\ phase = "replied"
    /\ phase' = "failed"
    /\ error' = Malformed
    /\ reply' = NoReply
    /\ statements' = <<>>
    /\ UNCHANGED <<stored, since, from, attempt, instant>>

(* The delay of min(100 * 2^attempt, 500) ms is over.                      *)
Retry ==
    /\ phase = "backoff"
    /\ phase' = "requested"
    /\ attempt' = attempt + 1
    /\ UNCHANGED <<stored, since, from, reply, statements, error, instant>>

Insert ==
    /\ stored < MaxStored
    /\ stored' = stored + 1
    /\ UNCHANGED <<since, phase, from, attempt, reply, statements, error,
                   instant>>

Receive ==
    \/ ReceivePage
    \/ ReceiveMalformed
    \/ \E e \in LrsErrors : ReceiveError(e)

Next ==
    \/ \E c \in 0..stored : QueryStatements(c)
    \/ Evaluate
    \/ ReceivePage
    \/ ReceiveMalformed
    \/ \E e \in LrsErrors : ReceiveError(e)
    \/ Retry
    \/ Insert

Spec == Init /\ [][Next]_vars

(* Every request is answered or times out, and timers fire.  Nothing is    *)
(* assumed of what the answer is.                                          *)
FairSpec ==
    /\ Spec
    /\ WF_vars(Evaluate \/ Receive)
    /\ WF_vars(Retry)

-----------------------------------------------------------------------------
(* Every variable has its type, and no page is retried too often.          *)
TypeOK ==
    /\ stored \in 0..MaxStored
    /\ since \in 0..stored
    /\ phase \in {"idle", "requested", "replied", "backoff", "ok", "failed"}
    /\ from \in 0..stored
    /\ attempt \in 0..(MaxRetries + 1)
    /\ reply.statements \in Seq(1..stored)
    /\ reply.more \in -1..stored
    /\ statements \in Seq(1..stored)
    /\ error \in LrsErrors \cup {Malformed, NoError}
    /\ instant \in NoInstant..stored

(* A query that is paged, retried and overtaken by new statements still    *)
(* returns what the LRS held at one instant, without gap or duplicate; if  *)
(* that is too much, the newest.                                           *)
Snapshot == INSTANCE LrsSnapshot
            WITH phase <- IF Running THEN "running" ELSE phase,
                 answer <- IF phase = "ok" THEN statements ELSE <<>>

IsSnapshot == Snapshot!Spec

(* The client gives up only for an error that a repetition cannot help, or *)
(* when all attempts at one page have failed, whatever their errors were.  *)
GivesUpOnlyWhenExhausted ==
    phase = "failed" =>
        \/ error \in {"auth", "client", Malformed}
        \/ attempt = MaxRetries + 1

(* A query ends, although the LRS may store statements faster than the     *)
(* client fetches them.                                                    *)
QueryEnds == Running ~> ~Running

=============================================================================
