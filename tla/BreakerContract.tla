--------------------------- MODULE BreakerContract ---------------------------
(***************************************************************************)
(* What a circuit breaker promises its users, without counters or clock:   *)
(* the transition table in the header of core/resilience/circuit-breaker.ts*)
(* and the cooling period.  An open breaker lets nothing through until it  *)
(* has cooled down; it leaves OPEN only for HALF_OPEN; and every way back  *)
(* into OPEN starts a new cooling period.                                  *)
(***************************************************************************)

VARIABLES
    state,      \* "CLOSED", "OPEN" or "HALF_OPEN"
    cooled,     \* the timeout has passed since the last opening
    admitted    \* the calls that are being let through to the service

CONSTANT Call

vars == <<state, cooled, admitted>>

TypeOK ==
    /\ state \in {"CLOSED", "OPEN", "HALF_OPEN"}
    /\ cooled \in BOOLEAN
    /\ admitted \subseteq Call

Init ==
    /\ state = "CLOSED"
    /\ cooled = FALSE
    /\ admitted = {}

(* A call is let through: never from OPEN before it has cooled, and from   *)
(* OPEN only by moving to HALF_OPEN.  The same step lets in the calls that *)
(* the call makes in turn before it first waits.                           *)
Admit ==
    /\ \/ state = "OPEN" /\ cooled /\ state' = "HALF_OPEN"
       \/ state # "OPEN" /\ state' = state
    /\ cooled' = cooled
    /\ admitted' \in SUBSET Call
    /\ admitted \subseteq admitted'

(* A call that was let through settles.                                    *)
Settle ==
    /\ \E c \in admitted : admitted' = admitted \ {c}
    /\ \/ state' = state /\ cooled' = cooled
       \/ state # "OPEN" /\ state' = "OPEN" /\ cooled' = FALSE
       \/ state = "HALF_OPEN" /\ state' = "CLOSED" /\ cooled' = FALSE

CoolDown ==
    /\ state = "OPEN"
    /\ cooled' = TRUE
    /\ UNCHANGED <<state, admitted>>

Reset ==
    /\ state' = "CLOSED"
    /\ cooled' = FALSE
    /\ UNCHANGED admitted

Next == Admit \/ Settle \/ CoolDown \/ Reset

Spec == Init /\ [][Next]_vars

=============================================================================
