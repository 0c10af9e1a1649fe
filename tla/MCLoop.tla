------------------------------- MODULE MCLoop -------------------------------
(***************************************************************************)
(* What one Run asks its models: the model loop with its recovery in one   *)
(* configuration of each kind, the planning of the Run, and its private    *)
(* model tasks.  Every behaviour is one of RuntimeLoop, of Planning or of  *)
(* ModelTasks, as `part' says.                                             *)
(***************************************************************************)
EXTENDS RuntimeLoop, Planning, ModelTasks

VARIABLE part

-----------------------------------------------------------------------------
(* RuntimeLoop *)

\* One cause is switched off, the others are granted once.
Once == [c \in Causes |-> IF c = "malformed" THEN 0 ELSE 1]

LoopProfile(mode, enforce, require, force, validated, gated, durable) ==
    [mode |-> mode, enforce |-> enforce, require |-> require, force |-> force,
     validated |-> validated, gated |-> gated, durable |-> durable]

MixedProfiles ==
    {LoopProfile("reactive", TRUE, FALSE, TRUE, FALSE, {}, FALSE),
     LoopProfile("reactive", TRUE, FALSE, FALSE, FALSE, {}, TRUE),
     LoopProfile("reactive", FALSE, TRUE, TRUE, TRUE, {"a"}, TRUE),
     LoopProfile("auto", FALSE, FALSE, FALSE, TRUE, {}, TRUE),
     LoopProfile("planned", FALSE, TRUE, FALSE, FALSE, {"b"}, TRUE),
     LoopProfile("planned", TRUE, FALSE, FALSE, FALSE, {}, FALSE)}

-----------------------------------------------------------------------------
(* Planning: load <- fetch, a private two-step capability read = open,     *)
(* scan, and a free tool save that needs read's last tool.                 *)

MCTools == {"load", "fetch", "open", "scan", "save"}
MCPrerequisites == [t \in MCTools |->
    CASE t = "load" -> <<>> [] t = "fetch" -> <<"load">>
      [] t = "open" -> <<"load">> [] t = "scan" -> <<"open">>
      [] t = "save" -> <<"scan">>]
MCCapabilityOf == [t \in MCTools |-> IF t \in {"open", "scan"} THEN "read" ELSE "-"]

Free == [satisfied |-> {}, excluded |-> {}, edges |-> {}, required |-> {},
         executed |-> {}, executors |-> {}, fallback |-> TRUE]
MCConstraints ==
    {Free,
     [Free EXCEPT !.fallback = FALSE, !.required = {"fetch"}],
     [Free EXCEPT !.satisfied = {"load"}, !.excluded = {"save"}],
     [Free EXCEPT !.excluded = {"load"}, !.edges = {<<"fetch", "load">>, <<"read", "load">>}],
     [Free EXCEPT !.executed = {"open"}, !.required = {"fetch"}],
     [Free EXCEPT !.excluded = {"load"}],
     [Free EXCEPT !.satisfied = {"read"}]}

PlanStep(id, type, exec, tools, deps) ==
    [id |-> PlanId(id), type |-> type, exec |-> exec, tools |-> tools, deps |-> deps]
Use(id, tool, deps) == PlanStep(id, "read", "tool", <<tool>>, deps)
Think(id, deps) == PlanStep(id, "analyze", "model", <<>>, deps)
Raw(list, spec) == [needs |-> "yes", steps |-> list, spec |-> spec]

MCOutputs ==
    {[needs |-> "missing", steps |-> <<>>, spec |-> "none"],
     [needs |-> "no", steps |-> <<>>, spec |-> "none"],
     Raw(<<Use("a", "fetch", {})>>, "ok"),
     Raw(<<Use("b", "fetch", {}), Think("c", {PlanId("b")})>>, "none"),
     Raw(<<Use("d", "read", {})>>, "ok"),
     Raw(<<Use("g", "load", {}), Think("c", {})>>, "none"),
     Raw(<<Think("e", {}), Use("b", "save", {PlanId("e")})>>, "none"),
     Raw(<<Use("h", "read", {}), Use("a", "fetch", {PlanId("h")})>>, "none")}

-----------------------------------------------------------------------------
LoopsInit ==
    /\ part \in {"loop", "plan", "task"}
    /\ LoopInit
    /\ part = "loop" \/ profile = CHOOSE p \in Profiles : TRUE
    /\ PInit
    /\ part = "plan" \/ cons = Free
    /\ TaskInit
    /\ \/ part = "task"
       \/ /\ kind = "structured" /\ heeds
          /\ prompt = CHOOSE p \in Prompts : TRUE

\* Bound: the other Runs reserve attempts while no await of the task has raised,
\* and beside the shorter plan only.
Apart == attempts \cap PeerIds # {} => faults = 0 /\ (kind = "plan" => prompt =< Guidance)

\* Bound: a model that is offered no tool and calls one all the same is granted
\* one more round to answer in only in the Run that may use up every extension
\* of its limit: there it is enough to reach the end of run()'s range.
Stubborn == seen.finals =< IF profile.enforce /\ profile.force THEN 2 ELSE 1

LoopsNext ==
    \/ part = "loop" /\ LoopNext /\ Stubborn' /\ UNCHANGED <<part, pvars, taskVars>>
    \/ part = "plan" /\ PNext /\ UNCHANGED <<part, loopVars, taskVars>>
    \/ part = "task" /\ TaskNext /\ Apart' /\ UNCHANGED <<part, loopVars, pvars>>

\* The fairness of LoopSpec, for its own part.
LoopsSpec ==
    /\ LoopsInit /\ [][LoopsNext]_<<part, loopVars, pvars, taskVars>>
    /\ WF_loopVars(part = "loop" /\ LoopStep)
    /\ WF_loopVars(part = "loop" /\ Resume)

\* Every Run ends, or lies down without a checkpoint to be resumed from: the
\* loop of AgentRuntime.run, its retries, replans, extensions and resumptions
\* are bounded together (RunEnds of RuntimeLoop).
LoopEnds == part = "loop" => RunEnds

\* The same behaviours without a claim of progress, for the runs of one
\* invariant.
LoopsSafety == LoopsInit /\ [][LoopsNext]_<<part, loopVars, pvars, taskVars>>

\* TaskSteps: no answer of a private task is accepted beyond the token limit of
\* the tree, no Provider call begins after the stop, and no plan starts that
\* needs more rounds than are left (settle_model_attempt, raise_if_stopped,
\* plan revision).
TaskSteps ==
    [][AcceptedWithinTokens /\ NoCallAfterStop /\ PlanFits]_<<taskVars, pvars>>
=============================================================================
