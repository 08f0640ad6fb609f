----------------------------- MODULE LrsSnapshot -----------------------------
(***************************************************************************)
(* What a statement query promises its caller: the newest statements, as   *)
(* they were at one instant between the call and its answer, or an error.  *)
(* MetricCache takes this for granted when it makes a query one step.      *)
(*                                                                         *)
(* Statements are numbered in the order in which the LRS stores them.      *)
(***************************************************************************)
EXTENDS Integers, Sequences

CONSTANTS
    MaxStatements,  \* the most statements an answer may have
    NoInstant

VARIABLES
    stored,     \* how many statements the LRS has
    since,      \* the query's cursor: only later statements are asked for
    phase,      \* "idle", "running", "ok" or "failed"
    instant,    \* `stored' at the instant the answer speaks of
    answer      \* the statements returned, newest first

vars == <<stored, since, phase, instant, answer>>

Smaller(m, n) == IF m < n THEN m ELSE n

(* The statements c + 1 .. n, newest first, MaxStatements of them at most. *)
Newest(c, n) == [i \in 1..Smaller(n - c, MaxStatements) |-> n - i + 1]

Init ==
    /\ stored = 0
    /\ since = 0
    /\ phase = "idle"
    /\ instant = NoInstant
    /\ answer = <<>>

Call(c) ==
    /\ phase # "running"
    /\ c \in 0..stored
    /\ phase' = "running"
    /\ since' = c
    /\ instant' = NoInstant
    /\ answer' = <<>>
    /\ UNCHANGED stored

(* The instant may be chosen again until the query is answered.            *)
Look ==
    /\ phase = "running"
    /\ instant' = stored
    /\ UNCHANGED <<stored, since, phase, answer>>

Return ==
    /\ phase = "running"
    /\ instant # NoInstant
    /\ phase' = "ok"
    /\ answer' = Newest(since, instant)
    /\ UNCHANGED <<stored, since, instant>>

Throw ==
    /\ phase = "running"
    /\ phase' = "failed"
    /\ UNCHANGED <<stored, since, instant, answer>>

Insert ==
    /\ stored' = stored + 1
    /\ UNCHANGED <<since, phase, instant, answer>>

Next == (\E c \in 0..stored : Call(c)) \/ Look \/ Return \/ Throw \/ Insert

Spec == Init /\ [][Next]_vars

=============================================================================
