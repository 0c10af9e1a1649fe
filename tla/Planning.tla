------------------------------ MODULE Planning ------------------------------
(***************************************************************************)
(* The planning of one Run, from the host's constraints to the plan that   *)
(* authorizes every tool call, and its revisions while the plan runs.      *)
(*                                                                         *)
(* The Planner is a model: its answer is any member of Outputs.  The host  *)
(* normalizes it, asks again a bounded number of times, compiles public    *)
(* capabilities into private tools, inserts the prerequisites that are     *)
(* missing, and checks what the result grants.  After each tool round the  *)
(* plan is revised: finished steps are history, the rest is replaced.      *)
(*                                                                         *)
(*   planner.py                     normalization and the repair loop      *)
(*   plan_compiler.py               lowering and prerequisites             *)
(*   engine/planning_validation.py  constraints and authority              *)
(*   engine/planning_phase.py       the first plan                         *)
(*   engine/dynamic_planning.py     its revisions                          *)
(*                                                                         *)
(* Titles, goals, guidance texts and prompts are left out.  Approvals and  *)
(* the rest of a round are in RunState and RuntimeLoop.                    *)
(***************************************************************************)
EXTENDS Integers, FiniteSets, SequencesExt

CONSTANTS
    Tools,              \* registered runtime tools
    Prerequisites,      \* tool -> sequence of tools of its context contract
    CapabilityOf,       \* tool -> its planning capability, or NoCapability
    NoCapability,
    Enabled,            \* tools enabled for the request
    ConstraintChoices,  \* what the host's planning policy may return
    Outputs,            \* what the Planner may answer
    PlanRounds,          \* RuntimeLimits.max_model_rounds
    MaxPlanSteps,       \* PlannerLimits.max_steps
    MaxToolSteps,       \* PlannerLimits.max_tool_steps
    MaxRepairAttempts,  \* PlannerLimits.max_repair_attempts
    MinVisibleSteps     \* PlanningConstraints.min_initial_visible_steps

ASSUME PlanningAssumption ==
    /\ Enabled \subseteq Tools
    /\ Prerequisites \in [Tools -> Seq(Tools)]
    /\ {PlanRounds, MaxPlanSteps, MaxToolSteps, MaxRepairAttempts} \subseteq Nat
    /\ MinVisibleSteps \in Nat \ {0}

VARIABLES
    planAt,        \* where the Run is
    cons,      \* PlanningCapabilities.constraints
    asked,     \* required_any_tool_names of the request's own constraints
    attempt,   \* planner attempts of this planning operation
    work,      \* the WorkPlan under review
    steps,     \* the steps of the Run's snapshot
    compiled,  \* the plan just compiled and what it took as satisfied
    rounds,    \* model rounds that remain
    outcome,   \* outcome of the last tool round
    origin     \* who wrote the plan in force

pvars == <<planAt, cons, asked, attempt, work, steps, compiled, rounds, outcome, origin>>

Finished == {"done", "failed", "blocked"}
Ended == {"completed", "blocked", "failed", "canceled", "handed_over", "exhausted"}
Places == {"policy", "planning", "review", "running"} \cup Ended

\* Step ids: the Planner's own, and the two kinds the compiler derives.
PlanId(name) == [kind |-> "plan", base |-> name, n |-> 0]
HostId(tool, n) == [kind |-> "host", base |-> tool, n |-> n]
ProtocolId(id, n) == [kind |-> "protocol", base |-> id.base, n |-> n]
RespondId == PlanId("respond")

UniqueStepId(id, used) ==
    CHOOSE free \in {[id EXCEPT !.n = @ + k] : k \in 0..Cardinality(used)} :
        free \notin used /\ \A k \in id.n..(free.n - 1) : [id EXCEPT !.n = k] \in used

ModelStep(id) == [id |-> id, exec |-> "model", tool |-> "none", deps |-> {},
                  st |-> "pending"]
ToolStep(id, tool, deps) == [id |-> id, exec |-> "tool", tool |-> tool, deps |-> deps,
                             st |-> "pending"]

IdsOf(s) == {s[i].id : i \in DOMAIN s}
ToolsIn(s, states) == {s[i].tool : i \in {j \in DOMAIN s : s[j].exec = "tool" /\ s[j].st \in states}}
CountTools(s) == Cardinality({i \in DOMAIN s : s[i].exec = "tool"})
Unfinished(s) == SelectSeq(s, LAMBDA x : x.st \notin Finished)

-----------------------------------------------------------------------------
(* What the Planner sees: one name per capability.                         *)

PlanningName(t) == IF CapabilityOf[t] = NoCapability THEN t ELSE CapabilityOf[t]
AvailableNames == {PlanningName(t) : t \in Enabled}
Members(name) == {t \in Enabled : CapabilityOf[t] = name /\ name # NoCapability}
Capabilities == {CapabilityOf[t] : t \in Enabled} \ {NoCapability}

\* planning_tool_guidance: the planning names a planning name requires.
Requires(name) ==
    {PlanningName(d) : d \in UNION {ToSet(Prerequisites[t]) \cap Enabled :
                                      t \in {u \in Enabled : PlanningName(u) = name}}}
      \ {name}

\* A tool of the capability that no other tool of it requires.
TerminalTools(name) ==
    Members(name) \ UNION {ToSet(Prerequisites[t]) : t \in Members(name)}

EffectiveNames(c) == AvailableNames \ (c.satisfied \cup c.excluded)

\* project_completed_steps_for_planning, as the set of names that are done.
CompletedNames(s) ==
    {PlanningName(t) : t \in {u \in ToolsIn(s, {"done"}) :
        CapabilityOf[u] = NoCapability \/ u \in TerminalTools(CapabilityOf[u])}}

\* ... and as the ids the Planner may not use again.
CompletedIds(s) ==
    {s[i].id : i \in {j \in DOMAIN s :
        /\ s[j].st \in Finished
        /\ \/ s[j].st # "done" \/ s[j].exec = "model"
           \/ PlanningName(s[j].tool) \in CompletedNames(<<s[j]>>)}}

-----------------------------------------------------------------------------
(* The host's constraints.                                                 *)

ValidConstraints(c) ==
    /\ c.satisfied \cup c.excluded \cup c.required \subseteq AvailableNames
    /\ c.executed \subseteq Enabled
    /\ c.required # {} => "tool" \notin c.executors
    /\ c.satisfied \cap c.excluded = {}
    /\ c.required \cap (c.satisfied \cup c.excluded) = {}
    /\ \A e \in c.edges : e[1] \in AvailableNames /\ e[2] \in Requires(e[1])
    /\ \A name \in EffectiveNames(c) : \A d \in Requires(name) \cap c.excluded :
         <<name, d>> \in c.edges

Refines(base, refined) ==
    /\ base.satisfied \subseteq refined.satisfied
    /\ base.excluded \subseteq refined.excluded
    /\ base.edges \subseteq refined.edges
    /\ base.required \subseteq refined.required
    /\ base.executed \subseteq refined.executed
    /\ base.executors \subseteq refined.executors
    /\ refined.fallback => base.fallback

-----------------------------------------------------------------------------
(* normalize_work_plan: every rejection is repaired or reported alike.     *)

\* _planner_step_enum; "confirm" is known and refused.
PlannerStepTypes == {"read", "analyze", "write", "review"}

StepRejected(raw, i) ==
    LET s == raw.steps[i]
        earlier == {raw.steps[j].id : j \in 1..(i - 1)}
        named == ToSet(s.tools)
    IN \/ s.id \in earlier
       \/ s.type \notin PlannerStepTypes
       \/ s.exec \notin {"tool", "model"} \ cons.executors
       \/ ~(s.deps \subseteq earlier)
       \/ s.exec = "tool" /\ \/ Cardinality(named) # 1
                             \/ ~(named \subseteq EffectiveNames(cons))
       \/ s.exec = "model" /\ (named # {} \/ s.type = "read")

\* _is_implicit_respond_step
Visible(raw) == {i \in DOMAIN raw.steps : raw.steps[i].id # RespondId}

\* revise_plan leaves the round of the final answer out.
ToolStepLimit(first) ==
    IF first \/ rounds - 1 >= MaxToolSteps THEN MaxToolSteps
    ELSE IF rounds = 0 THEN 0 ELSE rounds - 1

\* _normalize_task_spec: a task spec names no tools, units or permissions.
SpecRejected(raw) == raw.spec = "host_owned"

Rejected(raw, first) ==
    \/ raw.needs = "missing"
    \/ raw.needs = "yes" /\
         \/ raw.steps = <<>> \/ Len(raw.steps) > MaxPlanSteps
         \/ SpecRejected(raw)
         \/ \E i \in DOMAIN raw.steps : StepRejected(raw, i)
         \/ Cardinality(Visible(raw)) < (IF first THEN MinVisibleSteps ELSE 1)
         \/ CountTools(raw.steps) > ToolStepLimit(first)

WorkPlanOf(raw) ==
    IF raw.needs = "yes" THEN [steps |-> raw.steps, spec |-> raw.spec]
    ELSE [steps |-> <<[id |-> RespondId, type |-> "review", exec |-> "model",
                       tools |-> <<>>, deps |-> {}]>>,
          spec |-> "none"]

\* _validate_required_tool_selection
RequiredSelected(plan) ==
    \/ cons.required = {}
    \/ CompletedNames(steps) \cap cons.required # {}
    \/ \E i \in DOMAIN plan.steps : ToSet(plan.steps[i].tools) \cap cons.required # {}

Accepted(raw, first) ==
    /\ ~Rejected(raw, first)
    /\ CompletedIds(steps) \cap IdsOf(WorkPlanOf(raw).steps) = {}
    /\ RequiredSelected(WorkPlanOf(raw))

-----------------------------------------------------------------------------
(* compile_work_plan.                                                      *)

AppendHostStep(acc, tool) ==
    LET id == UniqueStepId(HostId(tool, acc.n + 1), acc.ids)
    IN [acc EXCEPT !.steps = Append(@, ToolStep(id, tool, {})),
                   !.done = @ \cup {tool}, !.ids = @ \cup {id}, !.n = @ + 1]

Violation(acc) == [acc EXCEPT !.ok = FALSE]

RECURSIVE AppendPrerequisites(_, _, _, _)
AppendPrerequisites(acc, tool, path, c) ==
    IF tool \in path THEN Violation(acc)
    ELSE FoldLeft(LAMBDA sofar, d :
           IF ~sofar.ok \/ d \in sofar.done \/ <<tool, d>> \in c.edges THEN sofar
           ELSE IF d \in c.excluded THEN Violation(sofar)
           ELSE LET below == AppendPrerequisites(sofar, d, path \cup {tool}, c)
                IN IF ~below.ok \/ d \in below.done THEN below ELSE AppendHostStep(below, d),
         acc, Prerequisites[tool])

\* _ordered_runtime_names: a depth-first order of a capability's tools.
RECURSIVE VisitTool(_, _, _)
VisitTool(order, tool, name) ==
    IF tool \in ToSet(order) THEN order
    ELSE Append(FoldLeft(LAMBDA sofar, d : VisitTool(sofar, d, name), order,
                         SelectSeq(Prerequisites[tool], LAMBDA d : d \in Members(name))),
                tool)
OrderedTools(name) ==
    FoldLeft(LAMBDA order, t : VisitTool(order, t, name), <<>>, SetToSeq(Members(name)))

\* A capability becomes its tools that are not completed, in a chain whose
\* last step keeps the Planner's id.
LowerCapability(acc, s, name, c) ==
    LET chain == SelectSeq(OrderedTools(name), LAMBDA t : t \notin acc.done)
        Lower(sofar, k) ==
            LET before == AppendPrerequisites(sofar, chain[k], {}, c)
                id == IF k = Len(chain) THEN s.id
                      ELSE UniqueStepId(ProtocolId(s.id, k), before.ids)
                deps == IF k = 1 THEN s.deps ELSE {before.last}
            IN IF ~before.ok THEN before
               ELSE [before EXCEPT !.steps = Append(@, ToolStep(id, chain[k], deps)),
                                   !.done = @ \cup {chain[k]}, !.ids = @ \cup {id},
                                   !.last = id]
    IN IF chain = <<>> THEN Violation(acc)
       ELSE FoldLeft(Lower, acc, [k \in DOMAIN chain |-> k])

CompileStep(acc, s, c) ==
    IF ~acc.ok THEN acc
    ELSE IF s.exec = "model"
    THEN [acc EXCEPT !.steps = Append(@, [ModelStep(s.id) EXCEPT !.deps = s.deps])]
    ELSE LET name == s.tools[1] IN
         IF name \in Tools
         THEN IF name \notin Enabled \/ CapabilityOf[name] # NoCapability
              THEN Violation(acc)
              ELSE LET before == AppendPrerequisites(acc, name, {}, c)
                   IN IF ~before.ok THEN before
                      ELSE [before EXCEPT !.steps = Append(@, ToolStep(s.id, name, s.deps)),
                                          !.done = @ \cup {name}]
         ELSE IF name \notin Capabilities THEN Violation(acc)
         ELSE LowerCapability(acc, s, name, c)

CompileWorkPlan(plan, c, satisfied) ==
    FoldLeft(LAMBDA acc, s : CompileStep(acc, s, c),
             [steps |-> <<>>, done |-> satisfied \cup c.executed \cup c.satisfied,
              ids |-> IdsOf(plan.steps), n |-> 0, last |-> RespondId, ok |-> TRUE],
             plan.steps)

\* validate_plan_authority
HasAuthority(s, c, limit) ==
    /\ \A i \in DOMAIN s : s[i].exec \notin c.executors
    /\ \A t \in ToolsIn(s, {"pending", "running"}) : t \in Enabled \ (c.satisfied \cup c.excluded)
    /\ CountTools(s) =< limit

-----------------------------------------------------------------------------
(* RunStateMachine.initialize and revise_plan, and the validation of the   *)
(* snapshot they build.                                                    *)

StartFirst(s) ==
    LET first == SelectInSeq(s, LAMBDA x : x.st # "done")
    IN IF first = 0 THEN s ELSE [s EXCEPT ![first].st = "running"]

RevisePlan(old, new) ==
    LET history == SelectSeq(old, LAMBDA x : x.st \in Finished)
        kept == SelectSeq(new, LAMBDA x : x.id \notin IdsOf(history))
        future == IF kept # <<>> THEN kept
                  ELSE <<ModelStep(UniqueStepId(RespondId, IdsOf(history)))>>
        running == {x.id : x \in {y \in ToSet(old) : y.st = "running"}} \cap IdsOf(future)
        Carried(x) == [x EXCEPT !.st = IF x.id \in running THEN "running" ELSE "pending"]
    IN history \o IF running = {} THEN StartFirst(future)
                  ELSE [i \in DOMAIN future |-> Carried(future[i])]

LegalSteps(s) ==
    \A i \in DOMAIN s : s[i].st = "running" =>
        \A d \in s[i].deps : \E x \in ToSet(s) : x.id = d /\ x.st = "done"

Running(s) == SelectInSeq(s, LAMBDA x : x.st = "running")
FinishStep(s, i, st) ==
    LET after == [s EXCEPT ![i].st = st]
        next == SelectInSeq(after, LAMBDA x : x.st \notin Finished)
    IN IF st # "done" \/ next = 0 THEN after ELSE [after EXCEPT ![next].st = "running"]

-----------------------------------------------------------------------------
NoWork == [steps |-> <<>>, spec |-> "none"]
NoCompiled == [steps |-> <<>>, given |-> {}]

PInit ==
    /\ planAt = "policy" /\ cons \in ConstraintChoices /\ asked = cons.required
    /\ attempt = 0 /\ work = NoWork /\ steps = <<>> /\ compiled = NoCompiled
    /\ rounds = PlanRounds /\ outcome = "none" /\ origin = "none"

First == outcome = "none"

\* The planning policy's constraints are checked before the Planner runs.
ApplyPolicy ==
    /\ planAt = "policy"
    /\ planAt' = IF ValidConstraints(cons) THEN "planning" ELSE "failed"
    /\ UNCHANGED <<cons, asked, attempt, work, steps, compiled, rounds, outcome, origin>>

\* controller.revise_plan and install_plan: an illegal snapshot fails the Run.
Install(next, by) ==
    IF LegalSteps(next)
    THEN planAt' = "running" /\ steps' = next /\ origin' = by
    ELSE planAt' = "failed" /\ UNCHANGED <<steps, origin>>

SafePlan == <<ModelStep(PlanId("safe"))>>

\* The first plan: a failed Planner is replaced by a model-only plan if the
\* host allows it.
FallbackFirst ==
    IF cons.fallback THEN Install(StartFirst(SafePlan), "host")
    ELSE planAt' = "failed" /\ UNCHANGED <<steps, origin>>

\* A revision: after a failed tool the host writes a model-only plan, else
\* the rest of the plan in force stays.
FallbackRevision ==
    IF outcome = "failed"
    THEN IF HasAuthority(SafePlan, cons, 0) THEN Install(RevisePlan(steps, SafePlan), "host")
         ELSE planAt' = "failed" /\ UNCHANGED <<steps, origin>>
    ELSE LET rest == Unfinished(steps)
         IN /\ planAt' = IF HasAuthority(rest, cons, CountTools(rest)) THEN "running" ELSE "failed"
            /\ origin' = "kept" /\ UNCHANGED steps

Fallback == IF First THEN FallbackFirst ELSE FallbackRevision

\* One attempt of _create_from_messages.
PlannerAccepted(raw) ==
    /\ planAt = "planning" /\ Accepted(raw, First)
    /\ work' = WorkPlanOf(raw) /\ attempt' = 0 /\ planAt' = "review"
    /\ UNCHANGED <<cons, asked, steps, compiled, rounds, outcome, origin>>

PlannerRejected(raw) ==
    /\ planAt = "planning" /\ ~Accepted(raw, First)
    /\ IF attempt < MaxRepairAttempts
       THEN attempt' = attempt + 1 /\ UNCHANGED <<planAt, steps, origin>>
       ELSE attempt' = 0 /\ Fallback
    /\ UNCHANGED <<cons, asked, work, compiled, rounds, outcome>>

\* A ModelGatewayError, or the deadline of one attempt.
PlannerUnavailable ==
    /\ planAt = "planning"
    /\ IF First THEN planAt' = "failed" /\ UNCHANGED <<steps, origin>> ELSE FallbackRevision
    /\ attempt' = 0
    /\ UNCHANGED <<cons, asked, work, compiled, rounds, outcome>>

\* Mistake: what earlier rounds completed is not passed to the compiler.
SatisfiedByPolicy == cons.executed

\* The runtime tools a revision need not run again.
SatisfiedTools == ToolsIn(steps, {"done"}) \cup cons.executed

\* The rest of PlanningCapability.execute: refined constraints, compilation,
\* authority, admission, installation.
ReviewFirst(refined, mode) ==
    /\ planAt = "review" /\ First
    /\ work.spec # "ok" => refined = cons
    /\ LET result == CompileWorkPlan(work, refined, SatisfiedTools)
           legal == /\ Refines(cons, refined) /\ ValidConstraints(refined) /\ result.ok
                    /\ HasAuthority(result.steps, refined, IF PlanRounds < 2 THEN 0 ELSE PlanRounds - 2)
       IN IF ~legal
          THEN planAt' = "failed" /\ UNCHANGED <<cons, steps, compiled, origin>>
          ELSE /\ cons' = refined
               /\ compiled' = [steps |-> result.steps, given |-> SatisfiedTools]
               /\ IF work.spec = "ok" /\ mode # "inline"
                  THEN planAt' = "handed_over" /\ UNCHANGED <<steps, origin>>
                  ELSE Install(StartFirst(result.steps), "planner")
    /\ work' = NoWork /\ UNCHANGED <<asked, attempt, rounds, outcome>>

\* The rest of _replan.
ReviewRevision ==
    /\ planAt = "review" /\ ~First
    /\ LET result == CompileWorkPlan(work, cons, SatisfiedTools)
           next == RevisePlan(steps, result.steps)
       IN IF result.ok /\ HasAuthority(Unfinished(next), cons, IF rounds = 0 THEN 0 ELSE rounds - 1)
          THEN /\ compiled' = [steps |-> result.steps, given |-> SatisfiedTools]
               /\ Install(next, "planner")
          ELSE planAt' = "failed" /\ UNCHANGED <<steps, compiled, origin>>
    /\ work' = NoWork /\ UNCHANGED <<cons, asked, attempt, rounds, outcome>>

-----------------------------------------------------------------------------
(* Rounds: the model calls the tool of the current transition, or answers. *)

\* allowed_tool_names_for_current_transition: the running tool step, or the
\* tool step right after a running model step.
CurrentTool(s) ==
    LET r == Running(s)
        after == SelectInSubSeq(s, r + 1, Len(s), LAMBDA x : x.st \notin Finished)
    IN IF r = 0 THEN 0
       ELSE IF s[r].exec = "tool" THEN r
       ELSE IF after > 0 /\ s[after].exec = "tool" THEN after ELSE 0

\* on_tool_calls_started
StartTool(s) ==
    [i \in DOMAIN s |->
        IF i = CurrentTool(s) THEN [s[i] EXCEPT !.st = "running"]
        ELSE IF s[i].st = "running" THEN [s[i] EXCEPT !.st = "done"] ELSE s[i]]

\* A tool round: a failed one is replanned or ends the Run, another one is
\* replanned only when the tool's result asks for it.
ToolRound(result, next) ==
    /\ planAt = "running" /\ rounds > 0 /\ CurrentTool(steps) > 0
    /\ next \in IF result = "failed" THEN {"planning", "failed"} ELSE {"running", "planning"}
    /\ rounds' = rounds - 1 /\ outcome' = result
    /\ LET begun == StartTool(steps)
           after == CASE result = "completed" -> FinishStep(begun, CurrentTool(steps), "done")
                      [] result = "progressed" -> begun
                      [] result = "failed" -> FinishStep(begun, CurrentTool(steps), "failed")
       IN IF LegalSteps(begun) /\ LegalSteps(after)
          THEN steps' = after /\ planAt' = next
          ELSE planAt' = "failed" /\ UNCHANGED steps
    /\ compiled' = NoCompiled /\ UNCHANGED <<cons, asked, attempt, work, origin>>

\* A final answer when the current transition does not require a tool: open
\* model steps are covered, open tool steps leave the Run blocked.
Answer ==
    /\ planAt = "running" /\ rounds > 0
    /\ Running(steps) > 0 => steps[Running(steps)].exec = "model"
    /\ rounds' = rounds - 1
    /\ planAt' = IF CountTools(Unfinished(steps)) = 0 THEN "completed" ELSE "blocked"
    /\ steps' = [i \in DOMAIN steps |->
                   IF steps[i].st \in Finished THEN steps[i]
                   ELSE [steps[i] EXCEPT !.st = IF @ = "running" \/ planAt' = "completed"
                                                THEN "done" ELSE "blocked"]]
    /\ UNCHANGED <<cons, asked, attempt, work, compiled, outcome, origin>>

RoundsExhausted ==
    /\ planAt = "running" /\ rounds = 0 /\ planAt' = "exhausted"
    /\ UNCHANGED <<cons, asked, attempt, work, steps, compiled, rounds, outcome, origin>>

CancelRun ==
    /\ planAt \notin Ended /\ planAt' = "canceled"
    /\ UNCHANGED <<cons, asked, attempt, work, steps, compiled, rounds, outcome, origin>>

PNext ==
    \/ ApplyPolicy
    \/ \E raw \in Outputs : PlannerAccepted(raw) \/ PlannerRejected(raw)
    \/ PlannerUnavailable
    \/ \E refined \in ConstraintChoices, mode \in {"inline", "durable"} : ReviewFirst(refined, mode)
    \/ ReviewRevision
    \/ \E result \in {"completed", "progressed", "failed"},
          next \in {"running", "planning", "failed"} : ToolRound(result, next)
    \/ Answer \/ RoundsExhausted \/ CancelRun

PSpec == PInit /\ [][PNext]_pvars

-----------------------------------------------------------------------------
(* Properties.                                                             *)

ToolSteps(s) == {i \in DOMAIN s : s[i].exec = "tool"}

PlanningConstraints ==
    [satisfied : SUBSET STRING, excluded : SUBSET STRING,
     edges : SUBSET (STRING \X STRING), required : SUBSET STRING,
     executed : SUBSET STRING, executors : SUBSET STRING, fallback : BOOLEAN]

IsExecutionPlan(s) ==
    /\ \A i \in DOMAIN s : /\ s[i].st \in Finished \cup {"pending", "running"}
                          /\ s[i].exec = "tool" <=> s[i].tool \in Tools
                          /\ s[i].deps \subseteq IdsOf(s)
    /\ Cardinality(IdsOf(s)) = Len(s)

\* Types of the planning state.
PlanTypeOK ==
    /\ planAt \in Places /\ cons \in PlanningConstraints
    /\ attempt \in 0..MaxRepairAttempts /\ rounds \in 0..PlanRounds
    /\ outcome \in {"none", "completed", "progressed", "failed"}
    /\ origin \in {"none", "planner", "host", "kept"}
    /\ IsExecutionPlan(steps)

\* In every plan the compiler hands over, a tool comes after each of its
\* prerequisites, unless the host declared the prerequisite or the edge
\* satisfied or an earlier round completed it (compile_work_plan).
CompiledOrdered ==
    LET s == compiled.steps
    IN \A i \in ToolSteps(s) : \A d \in ToSet(Prerequisites[s[i].tool]) :
         \/ d \in compiled.given \cup cons.executed \cup cons.satisfied
         \/ <<s[i].tool, d>> \in cons.edges
         \/ \E j \in ToolSteps(s) : j < i /\ s[j].tool = d

\* The host never inserts a prerequisite that this Run already completed: a
\* revision starts from what the rounds before it did.
NoRepeatedPrerequisite ==
    \A i, j \in ToolSteps(steps) :
        (i < j /\ steps[i].st = "done" /\ steps[j].id.kind = "host")
            => steps[i].tool # steps[j].tool

\* A plan that starts, or a revision that replaces it, never needs more rounds
\* than are left: one for each tool step, the prerequisites the host inserted
\* included, and one for the answer.
PlanFits ==
    (planAt = "review" /\ planAt' = "running") =>
      CountTools(Unfinished(steps')) = 0 \/ CountTools(Unfinished(steps')) < rounds'

\* A Run that answered under a Planner's plan has completed a tool the
\* request requires, however often the plan was revised or a tool failed.
RequiredDone ==
    (planAt = "completed" /\ origin # "host") =>
        asked = {} \/ CompletedNames(steps) \cap asked # {}

\* A tool is completed only after its prerequisites were.
PrerequisitesMet ==
    \A i \in ToolSteps(steps) : steps[i].st = "done" =>
        \A d \in ToSet(Prerequisites[steps[i].tool]) :
            \/ d \in cons.executed \cup cons.satisfied \/ <<steps[i].tool, d>> \in cons.edges
            \/ \E j \in ToolSteps(steps) : steps[j].tool = d /\ steps[j].st = "done"

\* PlanInv: the plan is well formed and ordered by its prerequisites, nothing
\* done is inserted again, and an answer has done what was required.
PlanInv == PlanTypeOK /\ CompiledOrdered /\ NoRepeatedPrerequisite /\ RequiredDone
=============================================================================
