-------------------------------- MODULE Engine --------------------------------
(***************************************************************************)
(* One Root Run inside AgentCore: submission, the phases of _execute_run   *)
(* (start or attach, context reservation, planning, preparation, the model *)
(* loop, promotion of an AUTO Run to a planned one), the hand-over to a    *)
(* durable task with its observer queue, the delivery of a child's result  *)
(* to the public, settlement, presentation, and the finally block.  The    *)
(* other tasks of the process run between any two awaits of it: the stop   *)
(* signal, a child Agent, the delivery task, the durable executor and its  *)
(* observers, a host that spawns an Agent, and the death of the process.   *)
(***************************************************************************)
EXTENDS Integers, Sequences, FiniteSets

CONSTANTS
    MaxRounds,    \* RuntimeLimits.max_model_rounds: the base budget of a loop
    ExtraRounds,  \* max_progress_rounds and the retries the recovery policy grants
    Kids,         \* child Agents
    WorkUnits,        \* units of the durable task that may report at once
    MaxUpdates,   \* bound: updates the durable task reports
    MaxLives,     \* bound: processes that execute the Run in turn
    HostPhases    \* the phases in which the host calls AgentCore.spawn_agents

ASSUME EngineAssumption ==
    /\ MaxRounds \in Nat \ {0}
    /\ ExtraRounds \in Nat
    /\ MaxUpdates \in Nat
    /\ MaxLives \in Nat \ {0}
    /\ HostPhases \subseteq STRING
    /\ IsFiniteSet(Kids) /\ IsFiniteSet(WorkUnits)
    /\ {"free", "final"} \cap Kids = {}

VARIABLES
    cf,         \* the submission: request, options and what the Core was built with
    pc,         \* where _execute_run stands
    run,        \* the canonical Run
    stop,       \* the ExecutionStopSignal: cancellation and deadline
    rounds,     \* model rounds: in all loops, in this one, and what it may use
    promoted,   \* how an AUTO Run has been promoted to a plan
    checkpoint, \* the saved execution checkpoint
    result,     \* the AgentRuntimeResult on its way to settlement
    tree,       \* the Root's row in the Agent tree and this process's binding
    kid,        \* the children's Runs and the receiver tasks that join them
    delivery,   \* the tasks that present their results, and the journal's markers
    lock,       \* who holds public_locks[run_id]
    job,        \* the durable executor and what its observers wait for
    queue,      \* asyncio.Queue of updates not yet applied
    journal,    \* the durable updates that the Run has persisted
    held,       \* process-held resources: approvals, operations, subscriptions
    lives       \* processes started so far

mainVars == <<pc, run, result>>
loopVars == <<rounds, promoted, checkpoint>>
treeVars == <<tree, kid, delivery, lock>>
jobVars == <<job, queue, journal>>
hostVars == <<cf, stop, held, lives>>
engVars == <<mainVars, loopVars, treeVars, jobVars, hostVars>>

Modes == {"reactive", "auto", "planned"}
\* How the answer goes out: committed as it streamed, held back until the Run has
\* ended, or presented live from the result.
Policies == {"plain", "verbatim", "live"}
Begins == {"new", "checkpoint", "continuation"}

\* A submission that AgentCore can be given.
Submissions ==
    {c \in [mode : Modes, planner : BOOLEAN, begin : Begins, policy : Policies, presents : BOOLEAN] :
        c.mode = "reactive" => c.planner}

RunEnds == {"done", "failed", "canceled"}
Terminal == run.status \in RunEnds
Deferred == cf.policy # "plain"

----------------------------------------------------------------------------
\* AgentRunController.fail, cancel and complete: a terminal Run stays as it is.
FailRun(code) ==
    IF Terminal THEN run ELSE [run EXCEPT !.status = "failed", !.error = code]

CancelRun(code) ==
    IF Terminal THEN run ELSE [run EXCEPT !.status = "canceled", !.error = code]

CompleteRun(shown) ==
    IF Terminal THEN run ELSE [run EXCEPT !.status = "done", !.shown = shown]

\* ExecutionStopSignal: the parent's cancellation names the reason even when
\* the deadline elapsed first.
Stopped == stop # {}
StopReason ==
    IF "canceled" \in stop THEN "request_canceled" ELSE "run_deadline_exceeded"

\* raise_if_stopped and await_with_cancellation, when nothing nearer catches:
\* OperationCanceled cancels the Run and any other error fails it.
RunSettled(code) ==
    IF code = "request_canceled" THEN CancelRun(code) ELSE FailRun(code)

\* The except clauses around a context stage: cancellation cancels, an
\* overflow and every other error - the deadline's too - fail the Run.
StageCodes ==
    {"context_overflow_initial", "context_setup_failed"}
StageFailure(code) ==
    IF code = "request_canceled" THEN CancelRun(code) ELSE FailRun(code)
StageEnds ==
    StageCodes \cup (IF "canceled" \in stop THEN {"request_canceled"} ELSE {})

NoJob ==
    [at |-> "none", left |-> MaxUpdates, waits |-> [u \in WorkUnits |-> "idle"], applied |-> 0, told |-> {}]
NoKid == [at |-> "none", asked |-> FALSE, joined |-> "no", received |-> FALSE]
NoDelivery == [at |-> "idle", marker |-> "none", shows |-> 0]
NoCheckpoint == [next |-> 0, all |-> 0, limit |-> 0, more |-> 0, final |-> FALSE, promoted |-> "no"]

\* _build_loop_state: run() iterates over a fixed range, which has room for
\* every extension of the base limit and for one round to answer in.
RangeOf(base) == base + ExtraRounds + 1
FreshRounds(used, base) ==
    [all |-> used, here |-> 0, limit |-> base, last |-> RangeOf(base), more |-> 0, final |-> FALSE]

EngInit ==
    /\ cf \in {c \in Submissions : c.begin # "checkpoint"}
    /\ pc = "submit"
    /\ run = [status |-> "none", error |-> "", shown |-> "none"]
    /\ stop = {}
    /\ rounds = FreshRounds(0, MaxRounds)
    /\ promoted = "no"
    /\ checkpoint = NoCheckpoint
    /\ result = "none"
    /\ tree = [root |-> "none", bound |-> FALSE]
    /\ kid = [k \in Kids |-> NoKid]
    /\ delivery = [k \in Kids |-> NoDelivery]
    /\ lock = "free"
    /\ job = NoJob
    /\ queue = <<>>
    /\ journal = {}
    /\ held = {}
    /\ lives = 1

----------------------------------------------------------------------------
(* Submission, start and binding to the tree. *)

\* submit: a continuation needs a configured preset, and a configured preset
\* must be the one the Run was persisted with.
Acceptable(preset) ==
    /\ preset # "other"
    /\ cf.begin = "continuation" => preset = "same"

Submit ==
    /\ pc = "submit"
    /\ \E preset \in {"none", "same", "other"} :
          pc' = IF Acceptable(preset) THEN "start" ELSE "refused"
    /\ UNCHANGED <<run, result, loopVars, treeVars, jobVars, hostVars>>

\* _start_or_attach_run: the Run is created, or the persisted one is attached
\* with the checkpoint that resume() selected.  A store that fails, a checkpoint
\* that is no longer the canonical one and a request that differs from the
\* persisted one raise before the controller has a Run to settle.
StartOrAttach ==
    /\ pc = "start"
    /\ \/ run' = [run EXCEPT !.status = "running"] /\ pc' = "bind" /\ held' = {"operations", "subscription"}
       \/ run' = run /\ pc' = "refused" /\ held' = held
    /\ UNCHANGED <<result, loopVars, treeVars, jobVars, cf, stop, lives>>

\* _bind_agent_tree_run: a new Root row, or the row a checkpoint belongs to.
BindTree ==
    /\ pc = "bind"
    /\ tree' = [root |-> IF cf.begin = "checkpoint" THEN tree.root ELSE "running",
                bound |-> TRUE]
    /\ pc' = "profile"
    /\ UNCHANGED <<run, result, loopVars, kid, delivery, lock, jobVars, hostVars>>

\* Which way _execute_run goes once the Run is bound.
RouteOf ==
    IF cf.mode = "planned" /\ ~cf.planner THEN "unplannable"
    ELSE IF cf.begin = "checkpoint" THEN "resume"
    ELSE IF Stopped THEN "stopped"
    ELSE IF cf.begin = "continuation" THEN "handover"
    ELSE "reserve"

Route ==
    /\ pc = "profile"
    /\ CASE RouteOf = "unplannable" -> pc' = "close" /\ run' = FailRun("planning_unavailable")
         [] RouteOf = "stopped" -> pc' = "close" /\ run' = RunSettled(StopReason)
         [] OTHER -> pc' = RouteOf /\ run' = run
    /\ UNCHANGED <<result, loopVars, treeVars, jobVars, hostVars>>

----------------------------------------------------------------------------
(* Context and planning. *)

\* compact_before_planning, the context claims and build_initial or
\* build_reactive: compaction fails open, everything else ends the Run.
Reserve ==
    /\ pc = "reserve"
    /\ \/ ~Stopped /\ pc' = "plan" /\ run' = run
       \/ \E code \in StageEnds : pc' = "close" /\ run' = StageFailure(code)
    /\ UNCHANGED <<result, loopVars, treeVars, jobVars, hostVars>>

\* _resolve_initial_planning: nothing to do in a reactive Run; a planned one
\* ends with a plan to run inline, with a task admitted elsewhere, or ended.
Planless == cf.mode # "planned" /\ promoted = "no"

Plan ==
    /\ pc = "plan"
    /\ \/ Planless /\ pc' = "prepare" /\ run' = run
       \/ ~Planless /\ pc' = (IF promoted = "remaining" THEN "drive" ELSE "prepare") /\ run' = run
       \/ ~Planless /\ pc' = "handover" /\ run' = run
       \/ ~Planless /\ pc' = "close" /\ run' = FailRun("planning_failed")
       \/ ~Planless /\ "canceled" \in stop /\ pc' = "close" /\ run' = CancelRun("request_canceled")
    /\ UNCHANGED <<result, loopVars, treeVars, jobVars, hostVars>>

\* _prepare_runtime_phase: claims of the task, the staged context, compaction
\* after planning (fails open), and the check against the provider budget.
\* A Run promoted for its remaining work skips it and keeps its context.
Prepare ==
    /\ pc = "prepare"
    /\ \/ ~Stopped /\ pc' = "drive" /\ run' = run
       \/ \E code \in StageEnds : pc' = "close" /\ run' = StageFailure(code)
    /\ UNCHANGED <<result, loopVars, treeVars, jobVars, hostVars>>

----------------------------------------------------------------------------
(* The model loop and the promotion of an AUTO Run. *)

RoundsLeft == rounds.here < rounds.limit /\ rounds.here < rounds.last

\* How a round changes the limit: tools called in the last round add one to
\* answer in, and a batch that progressed or a failed call that is retried adds
\* one as long as the allowance lasts.
Extended(answer, more) ==
    [all |-> rounds.all + 1, here |-> rounds.here + 1, last |-> rounds.last,
     limit |-> rounds.limit + more + (IF answer THEN 1 ELSE 0),
     more |-> rounds.more + more, final |-> rounds.final \/ answer]

\* One round of AgentRuntime.run inside _drive_runtime.
Round ==
    /\ pc = "drive" /\ RoundsLeft /\ ~Stopped
    /\ \E answer \in BOOLEAN, more \in {0, 1} :
          /\ answer => rounds.here + 1 >= rounds.limit
          /\ rounds.more + more <= ExtraRounds
          /\ rounds' = Extended(answer, more)
    /\ UNCHANGED <<mainVars, promoted, checkpoint, treeVars, jobVars, hostVars>>

\* save_checkpoint: after a round's tools, with the profile the Run has now.
SaveCheckpoint ==
    /\ pc = "drive" /\ rounds.here > 0
    /\ checkpoint' = [next |-> rounds.here + 1, all |-> rounds.all, limit |-> rounds.limit,
                      more |-> rounds.more, final |-> rounds.final, promoted |-> promoted]
    /\ UNCHANGED <<mainVars, rounds, promoted, treeVars, jobVars, hostVars>>

\* What _drive_runtime returns: the loop's result, or the one it builds from
\* the exception that ended the loop.
Returns ==
    IF Stopped THEN {StopReason}
    ELSE {"runtime_exception"}
         \cup (IF rounds.here > 0 THEN {"completed"} ELSE {})
         \cup (IF RoundsLeft THEN {} ELSE {"max_model_rounds"})

Drive ==
    /\ pc = "drive"
    /\ result' \in Returns
    /\ pc' = "settle"
    /\ UNCHANGED <<run, loopVars, treeVars, jobVars, hostVars>>

\* UserInputRequired or ApprovalRequired: the Run stays open for a resume.
Suspend ==
    /\ pc = "drive" /\ checkpoint.next > 0 /\ ~Stopped
    /\ pc' = "suspend"
    /\ UNCHANGED <<run, result, loopVars, treeVars, jobVars, hostVars>>

\* A phase that has settled the Run returns no result; only the path of a
\* resumed Run then goes through _settle_runtime_result all the same.
AfterEnd == IF cf.begin = "checkpoint" THEN "settle" ELSE "close"

MayPromote == cf.mode = "auto" /\ cf.planner /\ rounds.here > 0

\* The rounds a promoted loop may use: a fresh loop counts its rounds and its
\* extensions from zero; one that resumes goes on from the round and the
\* extensions it had reached, and may at least take its next round.
RemainingRounds == MaxRounds - rounds.here
ResumedLimit == IF rounds.here + 1 > RemainingRounds THEN rounds.here + 1 ELSE RemainingRounds
PromotedRounds(phase) ==
    IF phase = "initial"
    THEN FreshRounds(rounds.all, RemainingRounds)
    ELSE [rounds EXCEPT !.limit = ResumedLimit, !.last = RangeOf(ResumedLimit)]

\* _promote_auto_run: an AutoPlanningRequest, before the requested tools ran or
\* for the work that remains, starts planning with the rounds that are left.
Promote(phase) ==
    /\ pc = "drive" /\ MayPromote /\ ~Stopped /\ promoted = "no"
    /\ RemainingRounds >= 1
    /\ pc' = "reserve" /\ promoted' = phase
    /\ rounds' = PromotedRounds(phase)
    /\ UNCHANGED <<run, result, checkpoint, treeVars, jobVars, hostVars>>

\* No round is left to plan with, or the promoted loop asks for a plan again.
PromoteRefused ==
    /\ pc = "drive" /\ MayPromote /\ ~Stopped
    /\ \/ /\ promoted = "no" /\ RemainingRounds < 1
          /\ run' = FailRun("planning_activation_budget_exhausted")
       \/ /\ promoted # "no"
          /\ run' = FailRun("invalid_planning_control_call")
    /\ pc' = AfterEnd
    /\ UNCHANGED <<result, loopVars, treeVars, jobVars, hostVars>>

----------------------------------------------------------------------------
(* Child Agents, their receiver tasks and the delivery of their results. *)

Active(k) == kid[k].at = "live"
KidSettled(k) == kid[k].at \in RunEnds

\* delegateToAgents: the Root spawns a child and receives it.
Delegate(k) ==
    /\ pc = "drive" /\ ~Stopped /\ tree.root = "running"
    /\ kid[k] = NoKid
    /\ kid' = [kid EXCEPT ![k].at = "live", ![k].asked = TRUE, ![k].joined = "receiver"]
    /\ UNCHANGED <<mainVars, loopVars, tree, delivery, lock, jobVars, hostVars>>

\* AgentCore.spawn_agents, called by the host while the Root runs.
HostSpawn(k) ==
    /\ pc \in HostPhases /\ tree.root = "running"
    /\ kid[k] = NoKid
    /\ kid' = [kid EXCEPT ![k].at = "live"]
    /\ UNCHANGED <<mainVars, loopVars, tree, delivery, lock, jobVars, hostVars>>

\* The join executes a child's Run to its end, under the Root's stop signal.
KidEnds(k) ==
    /\ Active(k) /\ kid[k].joined # "no"
    /\ \E e \in {"done", "failed"} \cup (IF Stopped THEN {"canceled"} ELSE {}) :
          kid' = [kid EXCEPT ![k].at = e]
    /\ UNCHANGED <<mainVars, loopVars, tree, delivery, lock, jobVars, hostVars>>

\* AgentResultReceiver.receive at a decision boundary of the Root.
Receive(k) ==
    /\ pc = "drive" /\ KidSettled(k) /\ kid[k].joined = "receiver" /\ ~kid[k].received
    /\ kid' = [kid EXCEPT ![k].received = TRUE]
    /\ UNCHANGED <<mainVars, loopVars, tree, delivery, lock, jobVars, hostVars>>

\* deliver_agent_results schedules a report as soon as a result is there.
DeliverQueue(k) ==
    /\ cf.presents /\ tree.bound /\ kid[k].joined # "no" /\ KidSettled(k)
    /\ delivery[k].at = "idle"
    /\ delivery' = [delivery EXCEPT ![k].at = "queued"]
    /\ UNCHANGED <<mainVars, loopVars, tree, kid, lock, jobVars, hostVars>>

\* AgentResultDelivery.completed: an earlier delivery that did not complete
\* needs reconciliation, whichever child it was for.
Unreconciled == \E k \in Kids : delivery[k].marker \in {"started", "aborted"}

\* Mutant: the marker is written only when the delivery has completed.
DeliverStartUnmarked(k) ==
    /\ delivery[k].at = "queued" /\ lock = "free"
    /\ CASE Unreconciled -> delivery' = [delivery EXCEPT ![k].at = "broken"] /\ lock' = lock
         [] ~Unreconciled /\ delivery[k].marker = "completed" ->
               delivery' = [delivery EXCEPT ![k].at = "over"] /\ lock' = lock
         [] OTHER ->
               /\ delivery' = [delivery EXCEPT ![k].at = "showing", ![k].shows = @ + 1]
               /\ lock' = k
    /\ UNCHANGED <<mainVars, loopVars, tree, kid, jobVars, hostVars>>

\* _deliver, with the public lock: nothing twice, nothing after a failure;
\* the started marker is persisted before the first word is shown.
DeliverStart(k) ==
    /\ delivery[k].at = "queued" /\ lock = "free"
    /\ CASE Unreconciled -> delivery' = [delivery EXCEPT ![k].at = "broken"] /\ lock' = lock
         [] ~Unreconciled /\ delivery[k].marker = "completed" ->
               delivery' = [delivery EXCEPT ![k].at = "over"] /\ lock' = lock
         [] OTHER ->
               /\ delivery' = [delivery EXCEPT ![k] = [at |-> "showing", marker |-> "started", shows |-> @.shows + 1]]
               /\ lock' = k
    /\ UNCHANGED <<mainVars, loopVars, tree, kid, jobVars, hostVars>>

\* Mutant of DeliverEnd: a delivery that fails keeps the public lock.
DeliverEndKeepsLock(k) ==
    /\ delivery[k].at = "showing"
    /\ \/ /\ delivery' = [delivery EXCEPT ![k].at = "over", ![k].marker = "completed"]
          /\ lock' = "free"
       \/ /\ delivery' = [delivery EXCEPT ![k].at = "broken", ![k].marker = "aborted"]
          /\ lock' = lock
    /\ UNCHANGED <<mainVars, loopVars, tree, kid, jobVars, hostVars>>

\* The delivery ends, or fails with its marker aborted; the lock is released.
DeliverEnd(k) ==
    /\ delivery[k].at = "showing"
    /\ \/ delivery' = [delivery EXCEPT ![k].at = "over", ![k].marker = "completed"]
       \/ delivery' = [delivery EXCEPT ![k].at = "broken", ![k].marker = "aborted"]
    /\ lock' = "free"
    /\ UNCHANGED <<mainVars, loopVars, tree, kid, jobVars, hostVars>>

\* A receiver task is over when its child is settled and reported.
JoinOver(k) ==
    KidSettled(k) /\ (cf.presents => delivery[k].at \in {"over", "broken"})

----------------------------------------------------------------------------
(* The hand-over to a durable task: its observers report through a queue and *)
(* wait until the Run has persisted what they reported.                      *)

Waiting == {u \in WorkUnits : job.waits[u] = "waiting"}

\* complete_admitted_task: a task that needs confirmation or clarification, or
\* is not admitted, completes with a message; a durable one is dispatched.
Handover ==
    /\ pc = "handover"
    /\ \/ /\ ~Stopped
          /\ pc' = "durable" /\ run' = run
          /\ job' = [job EXCEPT !.at = "running"]
       \/ /\ cf.begin # "continuation"
          /\ pc' = AfterEnd /\ run' = CompleteRun("none") /\ job' = job
       \/ /\ Stopped
          /\ pc' = "close" /\ run' = RunSettled(StopReason) /\ job' = job
    /\ UNCHANGED <<result, loopVars, treeVars, queue, journal, hostVars>>

\* observe: the update is queued and the unit waits for its acknowledgement.
\* An update may break the admitted contract.
Observe(u, good) ==
    /\ job.at = "running" /\ job.waits[u] = "idle" /\ job.left > 0
    /\ job' = [job EXCEPT !.waits[u] = "waiting", !.left = @ - 1]
    /\ queue' = Append(queue, [unit |-> u, good |-> good, id |-> job.left])
    /\ UNCHANGED <<mainVars, loopVars, treeVars, journal, hostVars>>

\* The consumer persists the head of the queue before it acknowledges it; a
\* contract violation is acknowledged as an error and ends the hand-over.
ApplyUpdate ==
    /\ pc = "durable" /\ queue # <<>> /\ job.applied = 0
    /\ LET update == Head(queue) IN
         \/ /\ update.good
            /\ journal' = journal \cup {update.id}
            /\ job' = [job EXCEPT !.applied = update.id]
            /\ pc' = pc
         \/ /\ ~update.good
            /\ journal' = journal
            /\ job' = [job EXCEPT !.waits[update.unit] = "refused"]
            /\ pc' = "withdraw"
    /\ UNCHANGED <<run, result, loopVars, treeVars, queue, hostVars>>

Acknowledge ==
    /\ pc = "durable" /\ job.applied # 0
    /\ queue' = Tail(queue)
    /\ job' = [job EXCEPT !.waits[Head(queue).unit] = "told", !.applied = 0,
                          !.told = @ \cup {Head(queue).id}]
    /\ UNCHANGED <<mainVars, loopVars, treeVars, journal, hostVars>>

\* The unit goes on with its work once it has been told.
Continue(u) ==
    /\ job.at = "running" /\ job.waits[u] = "told"
    /\ job' = [job EXCEPT !.waits[u] = "idle"]
    /\ UNCHANGED <<mainVars, loopVars, treeVars, queue, journal, hostVars>>

JobEnds == {"completed", "partial", "failed", "paused", "canceled"}

\* The executor returns; a stop or an error of its own makes it raise.
JobReturns ==
    /\ job.at = "running" /\ \A u \in WorkUnits : job.waits[u] = "idle"
    /\ \E e \in IF Stopped THEN {"raised"} ELSE JobEnds : job' = [job EXCEPT !.at = e]
    /\ UNCHANGED <<mainVars, loopVars, treeVars, queue, journal, hostVars>>

\* The queue is drained and the executor has returned: what became of the task
\* decides what becomes of the Run.
DurableDone ==
    /\ pc = "durable" /\ queue = <<>> /\ job.at # "running"
    /\ \/ /\ job.at = "completed" /\ Deferred
          /\ result' = "completed" /\ pc' = "settle" /\ run' = run
       \/ /\ (job.at = "completed" /\ ~Deferred) \/ job.at = "partial"
          /\ run' = CompleteRun("none") /\ pc' = AfterEnd /\ result' = result
       \/ /\ job.at = "failed"
          /\ run' = FailRun("long_task_execution_failed") /\ pc' = AfterEnd /\ result' = result
       \/ /\ job.at \in {"paused", "canceled"}
          /\ run' = CancelRun("long_task_" \o job.at) /\ pc' = AfterEnd /\ result' = result
       \/ /\ job.at = "raised"
          /\ run' = RunSettled(StopReason) /\ pc' = "close" /\ result' = result
    /\ UNCHANGED <<loopVars, treeVars, jobVars, hostVars>>

\* _cleanup_durable_execution: the executor is cancelled and so is every
\* acknowledgement that a unit still waits for; then the executor is awaited.
Withdrawn == [job EXCEPT !.at = "withdrawn", !.waits = [u \in WorkUnits |-> "idle"], !.applied = 0]

Withdraw ==
    /\ pc = "withdraw"
    /\ job' = Withdrawn
    /\ queue' = <<>>
    /\ run' = FailRun("durable_plan_revision_contract_violation")
    /\ pc' = AfterEnd
    /\ UNCHANGED <<result, loopVars, treeVars, journal, hostVars>>

----------------------------------------------------------------------------
(* Settlement, presentation and commit. *)

Quiescent == \A k \in Kids : ~Active(k)
AllReceived == \A k \in Kids : kid[k].joined = "receiver" => kid[k].received

\* _settle_runtime_result up to its barriers.
SettleRun ==
    /\ pc = "settle"
    /\ CASE result = "none" -> run' = FailRun("runtime_returned_no_result") /\ pc' = "close"
         [] result = "request_canceled" -> run' = CancelRun(result) /\ pc' = "close"
         [] result \notin {"none", "request_canceled", "completed"} -> run' = FailRun(result) /\ pc' = "close"
         [] result = "completed" /\ Stopped -> run' = RunSettled(StopReason) /\ pc' = "close"
         [] result = "completed" /\ ~Stopped /\ ~AllReceived -> run' = FailRun("agent_results_pending") /\ pc' = "close"
         [] result = "completed" /\ ~Stopped /\ AllReceived /\ ~Quiescent -> run' = FailRun("root_run_not_quiescent") /\ pc' = "close"
         [] OTHER -> run' = run /\ pc' = "await"
    /\ UNCHANGED <<result, loopVars, treeVars, jobVars, hostVars>>

\* _require_parent_delivery_settled: the receiver tasks, then the public lane.
Await ==
    /\ pc = "await"
    /\ \A k \in Kids : kid[k].joined = "receiver" => JoinOver(k)
    /\ lock = "free"
    /\ IF Unreconciled \/ \E k \in Kids : kid[k].joined = "receiver" /\ delivery[k].at = "broken"
       THEN run' = FailRun("parent_delivery_reconciliation_required") /\ pc' = "close"
       ELSE run' = run /\ pc' = (IF cf.policy = "live" THEN "present" ELSE "commit")
    /\ UNCHANGED <<result, loopVars, treeVars, jobVars, hostVars>>

\* RootOutputObserver.open_model_stream for the final answer: the barriers are
\* checked again and the public lock is taken.
Present ==
    /\ pc = "present"
    /\ CASE Stopped -> run' = RunSettled(StopReason) /\ pc' = "close" /\ UNCHANGED <<lock, result>>
         [] ~Stopped /\ (~Quiescent \/ Unreconciled) ->
               result' = "unpresented" /\ pc' = "commit" /\ UNCHANGED <<lock, run>>
         [] OTHER -> lock = "free" /\ lock' = "final" /\ pc' = "showing" /\ UNCHANGED <<run, result>>
    /\ UNCHANGED <<loopVars, tree, kid, delivery, jobVars, hostVars>>

\* The stream ends: finished behind the barrier, refused by it, failed, or
\* stopped.  A failed presentation does not undo the execution.
EndPresentation ==
    /\ pc = "showing"
    /\ lock' = "free"
    /\ \/ Stopped /\ run' = RunSettled(StopReason) /\ pc' = "close" /\ result' = result
       \/ ~Stopped /\ Quiescent /\ result' = "presented" /\ pc' = "commit" /\ run' = run
       \/ ~Stopped /\ result' = "unpresented" /\ pc' = "commit" /\ run' = run
    /\ UNCHANGED <<loopVars, tree, kid, delivery, jobVars, hostVars>>

Shown ==
    IF result = "presented" \/ cf.policy = "verbatim" THEN "completed"
    ELSE IF result = "unpresented" THEN "failed" ELSE "none"

Commit ==
    /\ pc = "commit"
    /\ run' = IF Stopped THEN RunSettled(StopReason) ELSE CompleteRun(Shown)
    /\ pc' = "close"
    /\ UNCHANGED <<result, loopVars, treeVars, jobVars, hostVars>>

----------------------------------------------------------------------------
(* The finally block, suspension, crash and resume. *)

\* results.close cancels the receiver tasks: the children they execute are
\* cancelled and a delivery that was showing is marked aborted.
KidsClosed ==
    [k \in Kids |->
       [kid[k] EXCEPT !.at = IF @ = "live" /\ kid[k].joined # "no" THEN "canceled" ELSE @,
                      !.joined = "no", !.received = FALSE]]
DeliveriesClosed ==
    [k \in Kids |->
       [delivery[k] EXCEPT !.at = IF @ \in {"queued", "showing"} THEN "broken" ELSE @,
                           !.marker = IF delivery[k].at = "showing" THEN "aborted" ELSE @]]

CloseResults ==
    /\ pc \in {"close", "suspend"}
    /\ kid' = KidsClosed /\ delivery' = DeliveriesClosed /\ lock' = "free"
    /\ pc' = IF pc = "close" THEN "release" ELSE "parked"
    /\ held' = held \ {"subscription"}
    /\ UNCHANGED <<run, result, loopVars, tree, jobVars, cf, stop, lives>>

\* Pending approvals are cancelled, a Run that nobody settled is cancelled,
\* and the operations of a terminal Run are released.
Release ==
    /\ pc = "release"
    /\ run' = CancelRun("execution_owner_stopped")
    /\ held' = {}
    /\ pc' = "untree"
    /\ UNCHANGED <<result, loopVars, treeVars, jobVars, cf, stop, lives>>

\* _settle_root_agent_tree_run: a Root that is DONE completes only when its
\* descendants have ended; the others take their descendants with them.
SettleTree ==
    /\ pc = "untree"
    /\ tree' = [root |-> IF run.status = "done" /\ ~Quiescent THEN tree.root ELSE run.status, bound |-> FALSE]
    /\ kid' = IF run.status = "done" THEN kid
              ELSE [k \in Kids |-> IF Active(k) THEN [kid[k] EXCEPT !.at = "canceled"] ELSE kid[k]]
    /\ pc' = "ended"
    /\ UNCHANGED <<run, result, loopVars, delivery, lock, jobVars, hostVars>>

Body ==
    {"bind", "profile", "resume", "reserve", "plan", "prepare", "drive", "handover",
     "durable", "settle", "await", "present", "showing", "commit"}

\* AgentRunSupervisor.close: the task is cancelled at whatever it awaits.
InterruptRun ==
    /\ pc \in Body
    /\ pc' = "close"
    /\ job' = IF pc = "durable" THEN Withdrawn ELSE job
    /\ queue' = <<>>
    /\ UNCHANGED <<run, result, loopVars, treeVars, journal, hostVars>>

\* The process dies; what it kept in memory is gone.
LoseProcess ==
    /\ pc \in Body \cup {"close", "release", "untree"}
    /\ pc' = "dead"
    /\ tree' = [tree EXCEPT !.bound = FALSE]
    /\ kid' = [k \in Kids |-> [kid[k] EXCEPT !.joined = "no", !.received = FALSE]]
    /\ delivery' = [k \in Kids |-> [delivery[k] EXCEPT !.at = "idle"]]
    /\ lock' = "free"
    /\ job' = [NoJob EXCEPT !.left = job.left, !.told = job.told] /\ queue' = <<>>
    /\ held' = {}
    /\ UNCHANGED <<run, result, loopVars, journal, cf, stop, lives>>

\* _resume_runtime: the loop goes on in the checkpoint's profile, at its round,
\* with its limit and its extensions; its range is that of an unpromoted Run.
Restored ==
    [all |-> checkpoint.all, here |-> checkpoint.next - 1, limit |-> checkpoint.limit,
     last |-> RangeOf(MaxRounds), more |-> checkpoint.more, final |-> checkpoint.final]

\* AgentCore.resume: an open Run with a checkpoint and no delivery to reconcile.
ResumeRun ==
    /\ pc \in {"dead", "parked", "refused"} /\ lives < MaxLives
    /\ run.status = "running" /\ checkpoint.next > 0 /\ ~Unreconciled
    /\ lives' = lives + 1
    /\ cf' = [cf EXCEPT !.begin = "checkpoint"]
    /\ pc' = "start" /\ stop' = {} /\ result' = "none"
    /\ rounds' = Restored
    /\ promoted' = checkpoint.promoted
    /\ delivery' = [k \in Kids |-> [delivery[k] EXCEPT !.at = "idle"]]
    /\ UNCHANGED <<run, checkpoint, tree, kid, lock, jobVars, held>>

\* _resume_child_runs: the children whose results are still pending are joined
\* again before the loop goes on; a required one that failed fails the Root.
Rejoin(k) ==
    /\ pc = "resume" /\ kid[k].asked /\ kid[k].joined = "no"
    /\ kid' = [kid EXCEPT ![k].joined = "resume"]
    /\ UNCHANGED <<mainVars, loopVars, tree, delivery, lock, jobVars, hostVars>>

ResumeChildren ==
    /\ pc = "resume"
    /\ \/ Stopped /\ run' = RunSettled(StopReason) /\ pc' = "close"
       \/ /\ \A k \in Kids : /\ kid[k].asked => ~Active(k)
                             /\ kid[k].joined = "resume" => JoinOver(k)
          /\ \/ /\ run' = run /\ pc' = "drive"
                /\ \A k \in Kids : kid[k].joined = "resume" => delivery[k].at # "broken"
             \/ /\ \E k \in Kids : kid[k].joined = "resume" /\ delivery[k].at = "broken"
                /\ run' = FailRun("parent_delivery_reconciliation_required") /\ pc' = "close"
             \/ /\ \E k \in Kids : kid[k].joined = "resume" /\ kid[k].at = "failed"
                /\ run' = FailRun("required_child_run_failed") /\ pc' = "close"
    /\ UNCHANGED <<result, loopVars, treeVars, jobVars, hostVars>>

\* The host's cancellation, or the deadline's timer.
StopRun(why) ==
    /\ why \notin stop /\ pc \in Body
    /\ stop' = stop \cup {why}
    /\ UNCHANGED <<mainVars, loopVars, treeVars, jobVars, cf, held, lives>>

----------------------------------------------------------------------------
Main ==
    \/ Submit \/ StartOrAttach \/ BindTree \/ Route
    \/ Reserve \/ Plan \/ Prepare \/ Drive
    \/ Handover \/ ApplyUpdate \/ Acknowledge \/ DurableDone \/ Withdraw
    \/ SettleRun \/ Await \/ Present \/ EndPresentation \/ Commit
    \/ CloseResults \/ Release \/ SettleTree \/ ResumeChildren
    \/ \E k \in Kids : Rejoin(k)

DriveLoop == Round \/ SaveCheckpoint \/ (\E p \in {"initial", "remaining"} : Promote(p)) \/ PromoteRefused \/ Suspend

Children ==
    \E k \in Kids : \/ KidEnds(k) \/ DeliverQueue(k) \/ DeliverStart(k) \/ DeliverEnd(k)

Executor == JobReturns \/ \E u \in WorkUnits : Continue(u)

Host ==
    \/ \E k \in Kids : Delegate(k) \/ HostSpawn(k) \/ Receive(k)
    \/ \E u \in WorkUnits, good \in BOOLEAN : Observe(u, good)
    \/ \E why \in {"canceled", "deadline"} : StopRun(why)
    \/ InterruptRun \/ LoseProcess \/ ResumeRun

EngNext == Main \/ DriveLoop \/ Children \/ Executor \/ Host

\* The event loop runs a task that can run; nothing forces the model, the
\* host or a crash.
EngSpec ==
    /\ EngInit /\ [][EngNext]_engVars
    /\ WF_engVars(Main) /\ WF_engVars(Children) /\ WF_engVars(Executor)

----------------------------------------------------------------------------
(* Properties. *)

Promotions == {"no", "initial", "remaining"}
RoundCounts ==
    [all : Nat, here : Nat, limit : Nat, last : Nat, more : 0..ExtraRounds, final : BOOLEAN]
Checkpoints ==
    [next : Nat, all : Nat, limit : Nat, more : 0..ExtraRounds, final : BOOLEAN, promoted : Promotions]
Updates == [unit : WorkUnits, good : BOOLEAN, id : Nat]
KidRecords ==
    [at : RunEnds \cup {"none", "live"}, asked : BOOLEAN, joined : {"no", "receiver", "resume"}, received : BOOLEAN]
Deliveries ==
    [at : {"idle", "queued", "showing", "over", "broken"},
     marker : {"none", "started", "completed", "aborted"}, shows : Nat]
JobRecords ==
    [at : {"none", "running", "raised", "withdrawn"} \cup JobEnds, left : Nat,
     waits : [WorkUnits -> {"idle", "waiting", "told", "refused"}], applied : Nat, told : SUBSET Nat]

\* EngTypeOK: the shapes of _execute_run's locals, of the Run, of the tree rows
\* and of the durable hand-over.
EngTypeOK ==
    /\ cf \in Submissions
    /\ pc \in Body \cup {"submit", "start", "refused", "withdraw", "close", "release", "untree", "suspend", "parked", "dead", "ended"}
    /\ run = [status |-> run.status, error |-> run.error, shown |-> run.shown]
    /\ run.status \in RunEnds \cup {"none", "running"}
    /\ run.shown \in {"none", "completed", "failed"}
    /\ stop \subseteq {"canceled", "deadline"}
    /\ rounds \in RoundCounts
    /\ promoted \in Promotions
    /\ checkpoint \in Checkpoints
    /\ tree \in [root : RunEnds \cup {"none", "running"}, bound : BOOLEAN]
    /\ kid \in [Kids -> KidRecords]
    /\ delivery \in [Kids -> Deliveries]
    /\ lock \in Kids \cup {"free", "final"}
    /\ job \in JobRecords
    /\ queue \in Seq(Updates)
    /\ journal \subseteq Nat
    /\ held \subseteq {"operations", "subscription"}
    /\ lives \in 1..MaxLives

\* The children that the Root asked for itself have ended.
OwnQuiescent == \A k \in Kids : kid[k].asked => ~Active(k)

\* TreeFollowsRun: once an execution is over the Run has ended, no child the Root asked for runs,
\* nothing is held, and the Root's row in the Agent tree says what the canonical
\* Run says - but for a DONE Run with an Agent that the host spawned and that
\* still runs: the tree then refuses to complete the Root (the finally block of
\* _execute_run and _settle_root_agent_tree_run).
TreeFollowsRun ==
    pc = "ended" => /\ Terminal
                    /\ \/ tree.root = run.status
                       \/ run.status = "done" /\ \E k \in Kids : Active(k) /\ ~kid[k].asked
                    /\ ~tree.bound
                    /\ OwnQuiescent
                    /\ held = {}

\* FinalBehindBarriers: the final answer streams, and a Run becomes DONE through
\* settlement, only when no child it asked for runs and every delivery that
\* began completed (RootOutputObserver, _require_root_agent_tree_quiescent).
FinalBehindBarriers ==
    pc \in {"showing", "commit"} =>
        /\ OwnQuiescent
        /\ ~Unreconciled
        /\ lock \in {"free", "final"}

\* DeliveredOnce: a child's result is presented to the public at most once,
\* whatever dies or resumes in between (the started marker of _deliver).
DeliveredOnce == \A k \in Kids : delivery[k].shows <= 1

\* RoundBudget: until a round is granted to answer in, the rounds of the first
\* loop, of the loop it was promoted to and of the resumed ones together exceed
\* max_model_rounds by no more than the extensions that were granted; afterwards
\* the range of run() holds them all in one process, and a promoted loop that
\* was resumed forgets at most the rounds used before its promotion
\* (_promote_auto_run, _build_loop_state, _restore_checkpoint).
RoundBudget ==
    /\ ~rounds.final => rounds.all <= MaxRounds + rounds.more
    /\ cf.begin # "checkpoint" => rounds.all <= RangeOf(MaxRounds)
    /\ rounds.all < RangeOf(MaxRounds) + (IF promoted = "initial" THEN MaxRounds ELSE 1)

\* ToldIsPersisted: a unit of a durable task that was told its update is
\* accepted finds it in the Run's journal also after a crash, and none waits
\* for a hand-over that is over (complete_admitted_task,
\* _cleanup_durable_execution).
ToldIsPersisted ==
    /\ job.told \subseteq journal
    /\ pc \notin {"durable", "withdraw"} => Waiting = {}

\* Where _execute_run stands when it works on an answer, and when nobody is
\* joined: before the children are taken up, and after they were let go.
Executing ==
    {"reserve", "plan", "prepare", "drive", "handover", "durable", "withdraw",
     "settle", "await", "present", "showing", "commit"}
Before == {"submit", "start", "bind", "profile"}
After == {"refused", "release", "untree", "ended", "parked", "dead"}

\* RunInPhase: the Run is open while its execution is being set up, and it has
\* ended, with nothing held, when the tree is told.
RunInPhase ==
    /\ pc \in {"submit", "start"} => run.status \in {"none", "running"}
    /\ pc \in {"bind", "profile", "resume"} => run.status = "running"
    /\ pc \in {"untree", "ended"} => Terminal /\ held = {}

OwnJoined == \A k \in Kids : kid[k].asked /\ Active(k) => kid[k].joined # "no"

\* KidsInPhase: only children that the Root asked for are joined; whoever it asked
\* for and still runs is joined while the Root works, so that a Run which becomes
\* DONE lets go of nobody, and an answer is settled after all of them.
KidsInPhase ==
    /\ \A k \in Kids : kid[k].joined # "no" => kid[k].asked
    /\ pc \in Before \cup After => \A k \in Kids : kid[k].joined = "no"
    /\ pc \in Before /\ cf.begin # "checkpoint" => \A k \in Kids : ~kid[k].asked
    /\ pc \in Executing => OwnJoined
    /\ pc = "close" /\ run.status = "done" => OwnJoined
    /\ pc \in {"release", "untree"} /\ run.status = "done" => OwnQuiescent
    /\ pc \in {"await", "present", "showing", "commit"} => OwnQuiescent

\* DeliveriesInPhase: nothing is presented of a child nobody joined or twice, the
\* public lock is held by who shows something, and from the last barrier on
\* nothing is left to be shown but the answer.
DeliveriesInPhase ==
    /\ ~cf.presents => \A k \in Kids : delivery[k].at = "idle"
    /\ \A k \in Kids : /\ delivery[k].marker = "none" => delivery[k].shows = 0
                       /\ lock = k => delivery[k].at = "showing"
                       /\ pc \notin After /\ kid[k].joined = "no" => delivery[k].at = "idle"
                       /\ pc \in After => delivery[k].at \notin {"queued", "showing"}
                       /\ pc \in Executing /\ kid[k].joined = "resume" => JoinOver(k)
    /\ pc \in {"present", "showing", "commit"} =>
          ~Unreconciled /\ \A k \in Kids : kid[k].joined # "no" => JoinOver(k)

\* BudgetFits: what a loop used before and may still use fits the Run's budget,
\* for the loop that runs and for the one a checkpoint would restore.
RoundsFit(c, here, how) ==
    /\ here <= c.all /\ here <= c.limit /\ here <= RangeOf(MaxRounds)
    /\ ~c.final => c.all - here + c.limit <= MaxRounds + c.more
    /\ IF how = "initial" THEN c.all - here < MaxRounds ELSE c.all = here
BudgetFits ==
    /\ RoundsFit(rounds, rounds.here, promoted)
    /\ rounds.here <= rounds.last /\ rounds.last <= RangeOf(MaxRounds)
    /\ cf.begin # "checkpoint" => rounds.all - rounds.here + rounds.last <= RangeOf(MaxRounds)
    /\ checkpoint.next > 0 =>
          /\ checkpoint.limit >= 1
          /\ RoundsFit(checkpoint, checkpoint.next - 1, checkpoint.promoted)

\* ReportsInPhase: an update that was applied is persisted and still the head of
\* the queue, the executor works only during the hand-over, nobody waits for an
\* acknowledgement once it has returned, and the queue holds no more updates
\* than were reported.
ReportsInPhase ==
    /\ job.applied # 0 => /\ pc = "durable" /\ queue # <<>>
                          /\ job.applied = Head(queue).id /\ job.applied \in journal
    /\ job.at = "running" => pc \in {"durable", "withdraw"}
    /\ job.at # "running" => Waiting = {}
    /\ Len(queue) + job.left <= MaxUpdates

\* StopEnds: an execution that is asked to stop comes to an end.
StopEnds == (Stopped /\ pc \in Body) ~> (pc \in {"ended", "parked", "dead"})

\* EngineInv: what holds of a Root Run between any two of its awaits, through
\* hand-over, promotion, crash and resumption.
EngineInv ==
    /\ EngTypeOK
    /\ TreeFollowsRun
    /\ FinalBehindBarriers
    /\ DeliveredOnce
    /\ RoundBudget
    /\ ToldIsPersisted
    /\ RunInPhase
    /\ KidsInPhase
    /\ DeliveriesInPhase
    /\ BudgetFits
    /\ ReportsInPhase

\* OutcomeStands: what a Run ended with is never replaced, also not by the
\* settlement that follows a phase which had already ended it.
OutcomeStands == Terminal => run' = run
===============================================================================
