------------------------------ MODULE RunState ------------------------------
(***************************************************************************)
(* The plan and the outcome of one Run: RunStateMachine's reducers, the    *)
(* AgentRunController that commits their results, and the execution that   *)
(* drives it.                                                              *)
(*                                                                         *)
(* The controller commits under a lock, so at most one commit is pending.  *)
(* While it is, the caller may be canceled, the repository may have        *)
(* written or not, another authority may have canceled the stored Run, or  *)
(* the write may fail.  Every RunSnapshot validates itself: a transition   *)
(* that breaks the rules raises, and the exception settles the Run.        *)
(*                                                                         *)
(*   src/purra/run_state.py             snapshots and reducers             *)
(*   src/purra/run_controller.py        commits and receipts               *)
(*   src/purra/adapters/memory.py       _apply_commit                      *)
(*   src/purra/engine/dynamic_planning.py, engine/durable_execution.py,    *)
(*   src/purra/engine/orchestrator.py, runtime/orchestrator.py   callers   *)
(***************************************************************************)
EXTENDS Integers, FiniteSets, SequencesExt, Listing

CONSTANTS
    Plans,         \* execution plans the Planner may return
    RespondId,     \* id of the "respond" step; larger ids are its variants
    MaxRevisions,  \* bound: plan revisions in one Run
    MayDecline     \* whether a user may decline an approval

TerminalStatus == {"done", "blocked", "failed", "canceled"}
Finished == {"done", "blocked", "failed"}
StepStatuses == Finished \cup {"pending", "running"}

ToolNames == {"none"} \cup UNION {{plan[i].tool : i \in DOMAIN plan} : plan \in Plans}

\* TaskStep and RunSnapshot.
PlanStep == [id : Nat, kind : {"tool", "model"}, tool : ToolNames, deps : SUBSET Nat, st : StepStatuses]
Snapshot == [status : TerminalStatus \cup {"running"}, steps : Seq(PlanStep)]

ASSUME PlanAssumption ==
    /\ RespondId \in Nat /\ MaxRevisions \in Nat /\ MayDecline \in BOOLEAN
    /\ \A plan \in Plans :
         /\ plan \in Seq(PlanStep) /\ plan # <<>>
         /\ \A i, j \in DOMAIN plan : plan[i].id = plan[j].id => i = j
         /\ \A i \in DOMAIN plan :
              /\ plan[i].id < RespondId /\ plan[i].st = "pending"
              /\ plan[i].deps \subseteq {plan[j].id : j \in 1..(i - 1)}

VARIABLES
    snap,       \* the controller's RunSnapshot
    stored,     \* the repository's Run record
    op,         \* the commit in flight
    phase,      \* where the execution is
    requested,  \* the tool of the batch being executed
    declined,   \* loop.declined_response_pending
    revisions   \* bound: plan revisions so far

vars == <<snap, stored, op, phase, requested, declined, revisions>>

Ids(steps) == {steps[i].id : i \in DOMAIN steps}
StatusOf(steps, id) == (CHOOSE s \in ToSet(steps) : s.id = id).st
SetStatus(steps, i, st) == [steps EXCEPT ![i].st = st]

-----------------------------------------------------------------------------
(* RunStateMachine: pure reducers.                                         *)

\* RunSnapshot.__post_init__: what every constructed snapshot must satisfy.
LegalSnapshot(s) ==
    LET running == {i \in DOMAIN s.steps : s.steps[i].st = "running"}
    IN /\ Cardinality(Ids(s.steps)) = Len(s.steps)
       /\ Cardinality(running) =< 1
       /\ s.status \in TerminalStatus => running = {}
       /\ \A i \in running : \A d \in s.steps[i].deps :
            \E j \in DOMAIN s.steps : s.steps[j].id = d /\ s.steps[j].st = "done"

Running(steps) == SelectInSeq(steps, LAMBDA s : s.st = "running")
RunningOf(steps, kind) == SelectInSeq(steps, LAMBDA s : s.st = "running" /\ s.kind = kind)
NextIncomplete(steps) == SelectInSeq(steps, LAMBDA s : s.st \notin Finished)

\* The first step that is not done starts at once.
Initialize(plan) ==
    LET first == SelectInSeq(plan, LAMBDA s : s.st # "done")
    IN IF first = 0 THEN plan ELSE SetStatus(plan, first, "running")

UniqueStepId(used) ==
    CHOOSE n \in RespondId..(RespondId + Cardinality(used)) :
        n \notin used /\ \A m \in RespondId..(n - 1) : m \in used

Respond(id) == [id |-> id, kind |-> "model", tool |-> "none", deps |-> {},
                st |-> "pending"]

\* Mutant of RevisePlan: finished steps that the new plan omits are dropped.
RevisePlanForgets(steps, plan) == Initialize(plan)

\* Finished history stays, the rest is replaced; a running step that the new
\* plan names keeps running and nothing else is started.
RevisePlan(steps, plan) ==
    LET history == Picked(steps, {s \in ToSet(steps) : s.st \in Finished})
        open == Picked(plan, {s \in ToSet(plan) : s.id \notin Ids(history)})
        future == IF open = <<>> THEN <<Respond(UniqueStepId(Ids(history)))>> ELSE open
        current == {s.id : s \in {x \in ToSet(steps) : x.st = "running"}}
        fresh == IF current \cap Ids(future) = {} THEN Initialize(future)
                 ELSE [i \in DOMAIN future |->
                         [future[i] EXCEPT !.st = IF future[i].id \in current
                                                  THEN "running" ELSE "pending"]]
    IN history \o fresh

OnModelDelta(s) ==
    LET next == NextIncomplete(s.steps)
    IN IF \/ s.status \in TerminalStatus
          \/ RunningOf(s.steps, "tool") # 0
          \/ next = 0
       THEN s
       ELSE IF s.steps[next].kind = "model"
            THEN [s EXCEPT !.steps = SetStatus(@, next, "running")]
            ELSE s

\* allowed_tool_names_for_current_transition: the tool of the running tool
\* step, or of the step right after the running model step.
AllowedTools(s) ==
    LET run == Running(s.steps)
        after == {i \in DOMAIN s.steps : i > run /\ s.steps[i].st \notin Finished}
        step == IF run # 0 /\ s.steps[run].kind = "tool" THEN {run}
                ELSE {i \in after : \A j \in after : i =< j}
    IN IF s.status \in TerminalStatus \/ run = 0 THEN {}
       ELSE {s.steps[i].tool : i \in {j \in step : s.steps[j].kind = "tool"}}

\* The running model step is done; the running tool step, or else the first
\* unfinished step, runs the batch.
OnToolCallsStarted(s) ==
    LET model == RunningOf(s.steps, "model")
        steps == IF model = 0 THEN s.steps ELSE SetStatus(s.steps, model, "done")
        tool == IF RunningOf(steps, "tool") # 0 THEN RunningOf(steps, "tool")
                ELSE NextIncomplete(steps)
    IN IF s.status \in TerminalStatus THEN s
       ELSE [s EXCEPT !.steps = SetStatus(steps, tool, "running")]

CanStartTools(s) ==
    s.status \in TerminalStatus \/
    LET model == RunningOf(s.steps, "model")
        steps == IF model = 0 THEN s.steps ELSE SetStatus(s.steps, model, "done")
        next == NextIncomplete(steps)
    IN RunningOf(steps, "tool") # 0 \/ (next # 0 /\ steps[next].kind = "tool")

OnToolRoundCompleted(s, outcome) ==
    LET tool == RunningOf(s.steps, "tool")
        done == SetStatus(s.steps, tool, "done")
        next == NextIncomplete(done)
    IN IF s.status \in TerminalStatus \/ tool = 0 \/ outcome = "progressed" THEN s
       ELSE IF outcome = "declined"
            THEN [s EXCEPT !.steps = SetStatus(@, tool, "blocked")]
            ELSE [s EXCEPT !.steps = IF next = 0 THEN done
                                     ELSE SetStatus(done, next, "running")]

OnToolRoundFailed(s) ==
    IF s.status \in TerminalStatus THEN s
    ELSE [s EXCEPT !.steps = SetStatus(@, RunningOf(@, "tool"), "failed")]

\* Open model steps are covered by the answer unless other work is open.
Complete(s) ==
    LET open == {i \in DOMAIN s.steps : s.steps[i].st \in {"pending", "running"}}
        work == \E i \in open : s.steps[i].kind = "tool"
        close(i) == IF s.steps[i].kind = "model" /\ (s.steps[i].st = "running" \/ ~work)
                    THEN "done" ELSE "blocked"
    IN IF s.status \in TerminalStatus THEN s
       ELSE [status |-> IF work THEN "blocked" ELSE "done",
             steps |-> [i \in DOMAIN s.steps |->
                          IF i \in open THEN [s.steps[i] EXCEPT !.st = close(i)]
                          ELSE s.steps[i]]]

\* Steps whose status is in from become to, the Run becomes status.
Close(s, from, to, status) ==
    IF s.status \in TerminalStatus THEN s
    ELSE [status |-> status,
          steps |-> [i \in DOMAIN s.steps |->
                       IF s.steps[i].st \in from THEN [s.steps[i] EXCEPT !.st = to]
                       ELSE s.steps[i]]]

FinishDurable(s) == Close(s, StepStatuses, "done", "running")
CompleteDurable(s) == Close(s, StepStatuses, "done", "done")
Fail(s) == Close(s, {"running"}, "failed", "failed")
Cancel(s) == Close(s, {"pending", "running"}, "blocked", "canceled")

\* Unit states projected onto the plan; a done step stays done.
SyncDurable(s, report) ==
    IF s.status \in TerminalStatus THEN s
    ELSE [s EXCEPT !.steps =
            [i \in DOMAIN s.steps |->
               IF s.steps[i].st = "done" THEN s.steps[i]
               ELSE [s.steps[i] EXCEPT !.st = report[s.steps[i].id]]]]

-----------------------------------------------------------------------------
(* AgentRunController: one commit at a time.                               *)

Idle == [kind |-> "idle"]

\* Where an exception takes the execution: a handler that settles the Run, the
\* finally block, out.
Raised == CASE phase = "settle" -> "finally"
            [] phase = "finally" -> "ended"
            [] OTHER -> "settle"

\* CancelledError is no Exception: it goes straight to the finally block.
Interrupted == IF phase = "finally" THEN "ended" ELSE "finally"

\* _apply: an unchanged state commits nothing, an illegal one raises.
Apply(after, next) ==
    /\ op.kind = "idle"
    /\ IF after = snap
       THEN phase' = next /\ UNCHANGED op
       ELSE IF LegalSnapshot(after)
       THEN /\ op' = [kind |-> "steps", after |-> after, next |-> next,
                      written |-> FALSE, canceled |-> FALSE]
            /\ UNCHANGED phase
       ELSE phase' = Raised /\ UNCHANGED op
    /\ UNCHANGED <<snap, stored>>

\* _install_plan_unlocked and _revise_plan_unlocked.
ApplyPlan(steps, next) ==
    /\ op.kind = "idle"
    /\ LET after == [snap EXCEPT !.steps = steps]
       IN IF snap.status = "running" /\ LegalSnapshot(after)
          THEN /\ op' = [kind |-> "plan", after |-> after, next |-> next,
                         written |-> FALSE, canceled |-> FALSE]
               /\ UNCHANGED phase
          ELSE phase' = Raised /\ UNCHANGED op
    /\ UNCHANGED <<snap, stored>>

\* TaskStepUpdates of a transition, applied by _apply_commit to the record.
Updated(steps) ==
    LET changed == {i \in DOMAIN op.after.steps : op.after.steps[i] # snap.steps[i]}
        ids == {op.after.steps[i].id : i \in changed}
    IN [i \in DOMAIN steps |->
          IF steps[i].id \in ids
          THEN [steps[i] EXCEPT !.st = StatusOf(op.after.steps, steps[i].id)]
          ELSE steps[i]]

\* The repository's transaction.
CommitWrites ==
    /\ op.kind # "idle" /\ ~op.written
    /\ stored.status = "running"
    /\ stored' = [status |-> op.after.status,
                  steps |-> IF op.kind = "plan" THEN op.after.steps
                            ELSE Updated(stored.steps)]
    /\ op' = [op EXCEPT !.written = TRUE]
    /\ UNCHANGED <<snap, phase, requested, declined, revisions>>

\* "terminal run cannot accept another commit", or a storage error.
CommitFails ==
    /\ op.kind # "idle" /\ ~op.written
    /\ op' = Idle
    /\ phase' = Raised
    /\ UNCHANGED <<snap, stored, requested, declined, revisions>>

\* RunCancellationConflictError: the repository holds a cancellation fence, and
\* the controller commits the cancellation instead.  The error replaces a
\* cancellation of the caller that was being forwarded.
CommitConflict ==
    /\ op.kind = "steps" /\ ~op.written
    /\ op.after.status # "canceled"
    /\ op' = [op EXCEPT !.after = Cancel(snap), !.canceled = FALSE]
    /\ UNCHANGED <<snap, stored, phase, requested, declined, revisions>>

\* _await_repository_receipt: the caller's cancellation is forwarded once.
CallerCanceled ==
    /\ op.kind # "idle" /\ ~op.canceled
    /\ op' = [op EXCEPT !.canceled = TRUE]
    /\ UNCHANGED <<snap, stored, phase, requested, declined, revisions>>

\* The repository task was canceled: the port promises that nothing is durable.
CommitRolledBack ==
    /\ op.kind # "idle" /\ op.canceled /\ ~op.written
    /\ op' = Idle
    /\ phase' = Interrupted
    /\ UNCHANGED <<snap, stored, requested, declined, revisions>>

\* Mutant of Receipt: the caller's cancellation discards the receipt.
ReceiptDiscarded ==
    /\ op.kind # "idle" /\ op.written
    /\ snap' = IF op.canceled THEN snap ELSE op.after
    /\ phase' = IF op.canceled THEN Interrupted ELSE op.next
    /\ op' = Idle
    /\ UNCHANGED <<stored, requested, declined, revisions>>

\* A durable receipt is applied first, then cancellation propagates.
Receipt ==
    /\ op.kind # "idle" /\ op.written
    /\ snap' = op.after
    /\ phase' = IF op.canceled THEN Interrupted ELSE op.next
    /\ op' = Idle
    /\ UNCHANGED <<stored, requested, declined, revisions>>

\* _prepare_child_cancellations: the tree authority cancels the stored Run of a
\* child in its own transaction.
TreeCancels ==
    /\ stored.status = "running"
    /\ stored' = Cancel(stored)
    /\ UNCHANGED <<snap, op, phase, requested, declined, revisions>>

-----------------------------------------------------------------------------
(* The execution.                                                          *)

InstallPlan(plan, next) ==
    /\ phase = "plan"
    /\ ApplyPlan(Initialize(plan), next)
    /\ UNCHANGED <<requested, declined, revisions>>

\* A reactive Run has no plan; its tools are not scoped to one.
ReactiveRun ==
    /\ phase = "plan"
    /\ op.kind = "idle"
    /\ phase' = "answer"
    /\ UNCHANGED <<snap, stored, op, requested, declined, revisions>>

\* A content delta; the last one belongs to the final answer.
ModelDelta(next) ==
    /\ phase = "model"
    /\ Apply(OnModelDelta(snap), next)
    /\ UNCHANGED <<requested, declined, revisions>>

\* An authorized batch, after resolve_tool_protocol and _authorization.
ToolCallsStarted(tool) ==
    /\ phase = "model" /\ op.kind = "idle"
    /\ ~declined
    /\ tool \in AllowedTools(snap)
    /\ requested' = tool
    /\ IF CanStartTools(snap) THEN Apply(OnToolCallsStarted(snap), "tools")
       ELSE phase' = Raised /\ UNCHANGED <<snap, stored, op>>
    /\ UNCHANGED <<declined, revisions>>

ToolRoundCompleted(outcome, next) ==
    /\ phase = "tools"
    /\ outcome = "declined" => MayDecline /\ next = "model"
    /\ Apply(OnToolRoundCompleted(snap, outcome), next)
    /\ declined' = (declined \/ outcome = "declined")
    /\ UNCHANGED <<requested, revisions>>

\* An invalid input is tried again; a lost or missing call is replanned.
ToolRoundFailed(next) ==
    /\ phase = "tools" \/ (phase = "model" /\ next = "failing" /\ ~declined /\ snap.steps # <<>>)
    /\ op.kind = "idle"
    /\ phase' = next
    /\ UNCHANGED <<snap, stored, op, requested, declined, revisions>>

\* on_tool_round_failed before a recovery replan.
MarkFailed ==
    /\ phase = "failing"
    /\ IF snap.status \in TerminalStatus \/ RunningOf(snap.steps, "tool") # 0
       THEN Apply(OnToolRoundFailed(snap), "replanFailed")
       ELSE /\ op.kind = "idle"
            /\ phase' = Raised
            /\ UNCHANGED <<snap, stored, op>>
    /\ UNCHANGED <<requested, declined, revisions>>

ReviseTo(plan) ==
    /\ phase \in {"replan", "replanFailed"}
    /\ revisions < MaxRevisions
    /\ ApplyPlan(RevisePlan(snap.steps, plan), "model")
    /\ revisions' = revisions + 1
    /\ UNCHANGED <<requested, declined>>

\* The planner failed: a failed batch falls back to a model-only plan, otherwise
\* the previous plan stays.
ReviseFallback ==
    /\ op.kind = "idle"
    /\ \/ /\ phase = "replanFailed"
          /\ ApplyPlan(RevisePlan(snap.steps,
                         <<Respond(UniqueStepId(Ids(snap.steps)))>>), "model")
       \/ /\ phase = "replan"
          /\ phase' = "model"
          /\ UNCHANGED <<snap, stored, op>>
    /\ UNCHANGED <<requested, declined, revisions>>

\* RunCommit refuses to publish an answer with a Run that is not done.
Answer(published) ==
    /\ phase = "answer"
    /\ IF published /\ Complete(snap).status = "blocked"
       THEN /\ op.kind = "idle"
            /\ phase' = Raised
            /\ UNCHANGED <<snap, stored, op>>
       ELSE Apply(Complete(snap), "ended")
    /\ UNCHANGED <<requested, declined, revisions>>

DurableProgress(report) ==
    /\ phase = "durable"
    /\ Apply(SyncDurable(snap, report), "durable")
    /\ UNCHANGED <<requested, declined, revisions>>

DurableEnds ==
    /\ phase = "durable"
    /\ \/ Apply(FinishDurable(snap), "answer")
       \/ Apply(CompleteDurable(snap), "ended")
       \/ Apply(Complete(snap), "ended")        \* a partial result
       \/ Apply(Fail(snap), "ended")
       \/ Apply(Cancel(snap), "ended")
    /\ UNCHANGED <<requested, declined, revisions>>

Working == {"plan", "model", "tools", "failing", "replan", "replanFailed",
            "answer", "durable"}

\* An exception or a cancellation anywhere else in the execution.
Abort(next) ==
    /\ phase \in Working \/ (phase = "settle" /\ next = "finally")
    /\ op.kind = "idle"
    /\ phase' = next
    /\ UNCHANGED <<snap, stored, op, requested, declined, revisions>>

\* _settle_execution_exception, then the finally block of _execute_run.
Settle ==
    /\ \/ phase = "settle" /\ (Apply(Fail(snap), "ended") \/ Apply(Cancel(snap), "ended"))
       \/ phase = "finally" /\ Apply(Cancel(snap), "ended")
    /\ UNCHANGED <<requested, declined, revisions>>

-----------------------------------------------------------------------------

Init ==
    /\ snap = [status |-> "running", steps |-> <<>>]
    /\ stored = snap
    /\ op = Idle
    /\ phase = "plan"
    /\ requested = "none"
    /\ declined = FALSE
    /\ revisions = 0

ControllerStep ==
    \/ CommitWrites \/ CommitFails \/ CommitConflict \/ CallerCanceled
    \/ CommitRolledBack \/ Receipt

ExecutionStep ==
    \/ \E plan \in Plans, next \in {"model", "durable"} : InstallPlan(plan, next)
    \/ ReactiveRun
    \/ \E next \in {"model", "answer"} : ModelDelta(next)
    \/ \E tool \in AllowedTools(snap) : ToolCallsStarted(tool)
    \/ \E outcome \in {"progressed", "completed", "declined"},
          next \in {"model", "replan"} : ToolRoundCompleted(outcome, next)
    \/ \E next \in {"model", "failing", "settle"} : ToolRoundFailed(next)
    \/ MarkFailed
    \/ \E plan \in Plans : ReviseTo(plan)
    \/ ReviseFallback
    \/ \E published \in BOOLEAN : Answer(published)
    \/ \E report \in [Ids(snap.steps) -> StepStatuses] : DurableProgress(report)
    \/ DurableEnds
    \/ \E next \in {"settle", "finally"} : Abort(next)
    \/ Settle

Next == ControllerStep \/ ExecutionStep \/ TreeCancels

Spec == Init /\ [][Next]_vars

\* The execution and the repository go on; errors and cancellations need not
\* happen.
Fairness ==
    /\ WF_vars(CommitWrites \/ CommitFails \/ CommitRolledBack)
    /\ WF_vars(Receipt)
    /\ WF_vars(Settle)

FairSpec == Spec /\ Fairness

-----------------------------------------------------------------------------
(* Properties.                                                             *)

Phases == Working \cup {"settle", "finally", "ended"}

RunCommit == [kind : {"steps", "plan"}, after : Snapshot, next : Phases \ {"plan"},
              written : BOOLEAN, canceled : BOOLEAN]

\* RunTypeOK: types, and both records are legal snapshots at all times.
RunTypeOK ==
    /\ snap \in Snapshot /\ LegalSnapshot(snap) /\ stored \in Snapshot /\ LegalSnapshot(stored)
    /\ op = Idle \/ op \in RunCommit
    /\ phase \in Phases /\ declined \in BOOLEAN /\ revisions \in 0..MaxRevisions

\* SnapshotMirrorsStore: with no commit in flight the controller knows what is
\* durable, also after a cancellation that raced the commit; only the tree
\* authority's cancellation can be news to it.
SnapshotMirrorsStore ==
    op.kind = "idle" /\ snap # stored =>
        stored.status = "canceled" /\ snap.status = "running"

SettledWhole(s) ==
    /\ s.status \in {"done", "blocked", "canceled"} =>
         \A i \in DOMAIN s.steps : s.steps[i].st \in Finished
    /\ s.status = "failed" => \A i \in DOMAIN s.steps : s.steps[i].st # "running"

\* NothingLeftOpen: a Run that is done, blocked or canceled has no open step and
\* a failed one no running step, whoever settled it.
NothingLeftOpen == SettledWhole(stored)

\* Only the status of steps differs.
SameSteps(a, b) ==
    Len(a) = Len(b) /\ \A i \in DOMAIN a : b[i] = [a[i] EXCEPT !.st = b[i].st]

DoneKept(a, b) ==
    \A i \in DOMAIN a : a[i].st = "done" =>
        \E j \in DOMAIN b : b[j].id = a[i].id /\ b[j].st = "done"

\* CommitSound: what a commit in flight will make of the Run, and that the
\* record holds it once it is written and the old snapshot before, unless
\* the tree authority's cancellation replaced it.
CommitSound ==
    op.kind # "idle" =>
        /\ snap.status = "running" /\ LegalSnapshot(op.after) /\ SettledWhole(op.after)
        /\ DoneKept(snap.steps, op.after.steps)
        /\ op.kind = "steps" => SameSteps(snap.steps, op.after.steps)
        /\ IF op.written
           THEN stored = op.after \/ (stored.status = "canceled" /\ op.after.status = "running")
           ELSE stored = snap \/ stored.status = "canceled"

\* RunRecords: what holds of the two records whatever the Planner returns.
RunRecords ==
    /\ RunTypeOK /\ SnapshotMirrorsStore /\ NothingLeftOpen /\ CommitSound
    /\ phase = "plan" => snap.steps = <<>>

\* The running step of the plan is the tool step that grants the batch.
Grants(steps, name) ==
    \E i \in DOMAIN steps :
        steps[i].st = "running" /\ steps[i].kind = "tool" /\ steps[i].tool = name

\* The batch is that of the first open step after a model step that has ended,
\* and the running step is a tool step before that model step.
Overtakes(steps, name) ==
    \E i, m, j \in DOMAIN steps :
        /\ i < m /\ steps[i].st = "running" /\ steps[i].kind = "tool"
        /\ m < j /\ steps[m].st = "done" /\ steps[m].kind = "model"
        /\ steps[j].st \notin Finished /\ steps[j].kind = "tool" /\ steps[j].tool = name
        /\ \A k \in (m + 1)..(j - 1) : steps[k].st \in Finished

Matches(steps, name, revised) ==
    Grants(steps, name) \/ (revised # 0 /\ Overtakes(steps, name))

\* ToolMatchesStep: while a batch runs, and before its start is durable, the
\* running step of the plan is the tool step that grants exactly the tool being
\* executed.  Only a revision, which keeps a model step running wherever the new
\* plan puts it, can let a batch overtake the open work before that model step.
ToolMatchesStep ==
    /\ phase = "tools" /\ op.kind = "idle" /\ snap.status = "running" =>
         Matches(snap.steps, requested, revisions)
    /\ op.kind # "idle" /\ op.next = "tools" /\ op.after.status = "running" =>
         Matches(op.after.steps, requested, revisions)

InOrderly(steps) ==
    \A i \in DOMAIN steps : steps[i].st = "running" /\ steps[i].kind = "model" =>
        \A j \in 1..(i - 1) : steps[j].st \in Finished

Rounds == {"model", "tools", "failing", "replan", "replanFailed"}

\* WorkInOrder: in the rounds of a planned Run a running model step is the first
\* one that is not finished, until the Planner revises the plan.
WorkInOrder ==
    revisions = 0 =>
        /\ phase \in Rounds => InOrderly(snap.steps)
        /\ op.kind # "idle" /\ op.next \in Rounds => InOrderly(op.after.steps)

\* HistoryKept: a step that is done stays done and stays in the plan, and a
\* settled Run never changes, whatever revisions, reports or writers follow.
HistoryKept ==
    [][/\ DoneKept(stored.steps, stored'.steps)
       /\ stored.status # "running" => stored' = stored]_vars

\* SettlementEnds: an execution that starts to settle its Run ends, however often
\* it is canceled and whatever its commits run into.
SettlementEnds == phase \in {"settle", "finally"} ~> phase = "ended"

\* RunInv: the controller's snapshot mirrors the store, a settled Run leaves no
\* step open, and the tool at work is the running step's or overtakes it.
RunInv == RunRecords /\ ToolMatchesStep /\ WorkInOrder
=============================================================================
