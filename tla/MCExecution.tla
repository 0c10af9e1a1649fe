---------------------------- MODULE MCExecution ----------------------------
(***************************************************************************)
(* What executes inside a process: one Root Run in AgentCore, and the      *)
(* coordinators of a long task.  Every behaviour is one of Engine or of    *)
(* LongTask, as `part' says; liveness is checked on the smaller instances  *)
(* of MCLive.                                                              *)
(***************************************************************************)
EXTENDS Engine, LongTask, TLC

CONSTANTS x1, x2, w1, k1

VARIABLE part

-----------------------------------------------------------------------------
(* Engine: a child and two units of durable work that may report at once.  *)

MCPair == {x1, x2}
MCKids == {k1}
MCHostPhases == {"drive", "commit"}

(* LongTask: a recipe of two units, the first of which can be split into   *)
(* two, and two Runs of one dispatcher with one worker id.                 *)

MCWorkers == {w1}
MCWorkerOf == [c \in MCPair |-> w1]
MCUnits == 1..4
MCRecipe == {1, 2}
MCDeps == [u \in MCUnits |-> IF u = 2 THEN {1} ELSE {}]
MCAttempts == [u \in MCUnits |-> 1]
MCMaxEpoch == [u \in MCUnits |-> IF u = 1 THEN 2 ELSE 1]
MCChildrenOf == [u \in MCUnits |-> IF u = 1 THEN {3, 4} ELSE {}]

-----------------------------------------------------------------------------
ExecutionInit ==
    /\ part \in {"engine", "long"}
    /\ EngInit
    /\ part = "engine" \/ cf = CHOOSE c \in Submissions : c.begin = "new"
    /\ LTInit

\* Bounds of a second life: it presents its answer only where the policy defers
\* it, and only a reactive Run is stopped in it, for one reason.
Lean ==
    lives > 1 =>
        /\ cf.presents <=> Deferred
        /\ stop # {} => cf.mode = "reactive" /\ Cardinality(stop) = 1

\* Bound: a Run whose round limit is extended has no child and no durable task,
\* streams its answer and is not stopped.
Extends ==
    rounds.more > 0 \/ rounds.final \/ checkpoint.more > 0 \/ checkpoint.final =>
        /\ cf.policy = "plain" /\ ~cf.presents /\ stop = {}
        /\ job.at = "none" /\ \A k \in MCKids : kid[k] = NoKid

ExecutionNext ==
    \/ part = "engine" /\ EngNext /\ Lean' /\ Extends' /\ UNCHANGED <<part, ltVars>>
    \/ part = "long" /\ LTNext /\ UNCHANGED <<part, engVars>>

ExecutionSpec ==
    ExecutionInit /\ [][ExecutionNext]_<<part, engVars, ltVars>>

\* The two units of the durable work, and the two Runs that use the
\* dispatcher's one worker id, are interchangeable.
ExecutionSymmetry == Permutations(MCPair)

\* WorkStands: what is finished stays finished: no step touches a completed
\* unit of a durable task or replaces the outcome a Run ended with.
WorkStands == [][WorkKept /\ OutcomeStands]_<<ltVars, engVars>>
=============================================================================
