---------------------------- MODULE ExclusiveRun ----------------------------
(***************************************************************************)
(* What durable ownership promises of one Run, without leases, epochs or   *)
(* time: there is never more than one executor, only the executor advances *)
(* the Run, round by round, and the outcome is settled once.               *)
(***************************************************************************)
EXTENDS Naturals

CONSTANT Executors

VARIABLES holders,   \* the executor of the Run, a set of at most one element
          rounds,    \* committed rounds
          outcome    \* "open", or how the Run ended

vars == <<holders, rounds, outcome>>

Outcomes == {"done", "failed", "canceled"}

Init == holders = {} /\ rounds = 0 /\ outcome = "open"

Take(t) ==
    /\ holders = {}
    /\ holders' = {t}
    /\ UNCHANGED <<rounds, outcome>>

\* Released, expired or dead.
Lose ==
    /\ holders # {}
    /\ holders' = {}
    /\ UNCHANGED <<rounds, outcome>>

Advance(t) ==
    /\ holders = {t}
    /\ outcome = "open"
    /\ rounds' = rounds + 1
    /\ UNCHANGED <<holders, outcome>>

Settle(t) ==
    /\ holders = {t}
    /\ outcome = "open"
    /\ outcome' \in Outcomes
    /\ UNCHANGED <<holders, rounds>>

\* A Run whose creator never became its executor is given up unstarted.
Abandon ==
    /\ holders = {} /\ rounds = 0 /\ outcome = "open"
    /\ outcome' = "canceled"
    /\ UNCHANGED <<holders, rounds>>

Next ==
    \/ Lose
    \/ Abandon
    \/ \E t \in Executors : Take(t) \/ Advance(t) \/ Settle(t)

Spec == Init /\ [][Next]_vars
=============================================================================
