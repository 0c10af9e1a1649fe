------------------------------- MODULE MCLive -------------------------------
(***************************************************************************)
(* What must come to an end, each on a small instance of its component:    *)
(* the settlement of a Run, a batch of tool calls, a private model task,   *)
(* the coordinator of a long task, the execution of a whole Root Run and   *)
(* a recovery worker's visit of every Run.                                 *)
(* Every behaviour is one of one component, the one `part' names; the      *)
(* others stay in one initial state.                                       *)
(***************************************************************************)
EXTENDS RunState, ToolExecutor, ModelTasks, LongTask, Engine, RecoveryScan

CONSTANTS c1, w1, k1, u1, u2, v1

VARIABLE part

-----------------------------------------------------------------------------
(* RunState: plans of up to three steps, two tools, with and without       *)
(* dependencies, and revisions that reuse step ids, one of them putting    *)
(* new work before a model step that may be running.                       *)

ToolWork(id, name, deps) ==
    [id |-> id, kind |-> "tool", tool |-> name, deps |-> deps, st |-> "pending"]
ModelWork(id, deps) ==
    [id |-> id, kind |-> "model", tool |-> "none", deps |-> deps, st |-> "pending"]

MCPlans ==
    { <<ToolWork(1, "read", {}), ModelWork(2, {1})>>,
      <<ToolWork(4, "read", {}), ModelWork(2, {}), ToolWork(3, "write", {2})>>,
      <<ModelWork(5, {})>> }

(* ToolExecutor: three reads that may overlap, three of which one may not, *)
(* three appends, and one call too many.                                   *)

Call(i, name) == [id |-> i, tool |-> name, args |-> "plain"]

MCLongBatches ==
    {<<Call(1, "read"), Call(2, "read"), Call(3, "read")>>,
     <<Call(1, "read"), Call(2, "slow"), Call(3, "read")>>,
     <<Call(1, "append"), Call(2, "append"), Call(3, "append")>>,
     <<Call(1, "read"), Call(2, "read"), Call(3, "read"), Call(4, "read")>>}

(* LongTask: one coordinator and a recipe of two units, the first of which *)
(* can be split; the budget is one token of usage.                         *)

MCCoords == {c1}
MCWorkers == {w1}
MCWorkerOf == [c \in MCCoords |-> w1]
MCUnits == 1..4
MCRecipe == {1, 2}
MCDeps == [u \in MCUnits |-> IF u = 2 THEN {1} ELSE {}]
MCAttempts == [u \in MCUnits |-> 1]
MCMaxEpoch == [u \in MCUnits |-> 1]
MCChildrenOf == [u \in MCUnits |-> IF u = 1 THEN {3, 4} ELSE {}]

(* Engine: one child, two units of durable work, one life, and of the      *)
(* submissions those with most to wait for: a Run that may be promoted,    *)
(* children that are presented and an answer presented live.               *)

MCKids == {k1}
MCWorkUnits == {u1, u2}
Slowest ==
    {c \in Submissions : c.mode = "auto" /\ c.planner /\ c.presents /\ c.policy = "live"}

(* RecoveryScan: one worker and two Runs.  With a schedule the Runs are    *)
(* there and nothing raises, without one they arrive and a scan may fail.  *)

MCScanners == {v1}

OneWorker ==
    IF scan[v1].scheduled THEN indexed = RunIds /\ troubles = MaxTroubles ELSE troubles = 0

-----------------------------------------------------------------------------
Parts == {"state", "batch", "task", "long", "engine", "scan"}

LiveInit ==
    /\ part \in Parts
    /\ Init
    /\ ExecInit /\ (part = "batch" \/ batch = CHOOSE b \in Batches : TRUE)
    /\ TaskInit
    /\ \/ part = "task"
       \/ /\ kind = "structured" /\ heeds
          /\ prompt = CHOOSE p \in Prompts : TRUE
    /\ LTInit
    /\ EngInit
    /\ ScanInit
    /\ IF part = "scan" THEN OneWorker
       ELSE indexed = {} /\ troubles = 0 /\ \A x \in Scanners : scan[x] = OffDuty
    /\ IF part = "engine" THEN cf \in Slowest
       ELSE cf = CHOOSE c \in Submissions : c.begin = "new"

LiveNext ==
    \/ /\ part = "state" /\ Next
       /\ UNCHANGED <<part, execVars, taskVars, ltVars, engVars, scanVars>>
    \/ /\ part = "batch" /\ ExecNext
       /\ UNCHANGED <<part, vars, taskVars, ltVars, engVars, scanVars>>
    \/ /\ part = "task" /\ TaskNext
       /\ UNCHANGED <<part, vars, execVars, ltVars, engVars, scanVars>>
    \/ /\ part = "long" /\ LTNext
       /\ UNCHANGED <<part, vars, execVars, taskVars, engVars, scanVars>>
    \/ /\ part = "engine" /\ EngNext
       /\ UNCHANGED <<part, vars, execVars, taskVars, ltVars, scanVars>>
    \/ /\ part = "scan" /\ ScanNext
       /\ UNCHANGED <<part, vars, execVars, taskVars, ltVars, engVars>>

\* The fairness of the six specifications, each for its own part.
LiveFairness ==
    /\ Fairness
    /\ WF_execVars(part = "batch" /\ ExecutorStep)
    /\ WF_execVars(part = "batch" /\ ExpireApproval)
    /\ WF_execVars(part = "batch" /\ \E w \in ExecWorkers : CommittedReturns(w))
    /\ WF_taskVars(part = "task" /\ TaskStep)
    /\ WF_taskVars(part = "task" /\ Woken)
    /\ \A c \in Coords :
         /\ WF_ltVars(part = "long" /\ Dispatch(c) /\ co[c].at # "new")
         /\ WF_ltVars(part = "long" /\ Coordinate(c))
         /\ WF_ltVars(part = "long" /\ \E x \in active[c] :
                        CompleteUnit(c, x) \/ FailUnit(c, x) \/ Interrupt(c, x))
    /\ WF_ltVars(part = "long" /\ Tick)
    /\ WF_engVars(part = "engine" /\ Main)
    /\ WF_engVars(part = "engine" /\ Children)
    /\ WF_engVars(part = "engine" /\ Executor)
    /\ \A x \in Scanners : WF_scanVars(part = "scan" /\ ScanStep(x))

LiveSpec ==
    /\ LiveInit
    /\ [][LiveNext]_<<part, vars, execVars, taskVars, ltVars, engVars, scanVars>>
    /\ LiveFairness

\* WorkReturns: what is under way comes to its end by itself: the settlement of
\* a Run and the coordinator of a durable task.
WorkReturns == SettlementEnds /\ CoordinatorReturns

\* StopsAreHonoured: what is asked to stop comes to its end: a batch of tool
\* calls, a private model task and the execution of a Root Run.
StopsAreHonoured == StopEndsBatch /\ StopEndsTask /\ StopEnds
=============================================================================
