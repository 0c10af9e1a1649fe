# TLA+ models of the PurrA agent runtime

PurrA runs agents: a *Run* asks a model, executes tools, revises its plan, streams
output, may spawn child Runs, hand work over to a durable task, keep artifacts and
memories, and may be suspended, taken over by another process, canceled or killed at any
point.  This directory holds TLA+ modules that model the control of the Python SDK
(`src/purra`, `integrations/sqlite/python`, `integrations/mem0/python`), the TLC
configurations that check them on small instances and TLAPS proofs about the core.
`PROJECT.json` lists components, runs, mutants, the map from definitions to source lines,
findings, hazards and theorems.

## 1. Inventory of the system

| component | state | operations | hard part | module |
|---|---|---|---|---|
| durable run ownership (`purra_sqlite`, `execution/supervisor.py`, `engine/orchestrator.py`) | Run record, lease row (owner, expiry, attempt = epoch, cancellation), claim and selected checkpoint of each task | submit, resume, bind, claim, renew, release, request cancellation, guarded writes, checkpoint, settle | expiry, takeover, same-owner resume, late heartbeats, crashes | `RunLease` |
| durable approvals and tool claims (`purra_sqlite/approvals.py`, `_Idempotency`) | approval record, claim, association, receipt | prepare, decide, refresh, request, execute_once, reconcile_tool | the effect is outside every transaction | `ToolDispatch` |
| recovery worker (`worker.py`, `recovery_schedule.py`, `recovery_cursor.py`) | queue, schedule rows and their counter, durable cursor | scan, check, settle, wake, prune, acknowledge | starvation, a wake lost to a late settlement, a skipped Run | `RecoveryScan` |
| run state and controller (`run_state.py`, `run_controller.py`) | snapshot (status, steps), stored record, commit in flight | reducers, install and revise plan, commits, settlement | cancellation racing a commit, revisions while a step runs | `RunState` |
| dynamic planning (`planner.py`, `plan_compiler.py`, `engine/planning_*.py`, `engine/dynamic_planning.py`) | constraints, steps, authority, history | normalize, repair, compile, insert prerequisites, validate, revise, fall back | ids across revisions, failed prerequisites, round limits | `Planning` |
| runtime loop (`runtime/*`, `recovery/*`) | loop state, recovery ledger, checkpoint, answer | provider attempt, classification, authorization, tool batch, replanning, response checks, resume | retries after shown text or effects, budgets that add up | `RuntimeLoop`, `Recovery` |
| engine (`engine/orchestrator.py`, `engine/durable_execution.py`, `engine/agent_result_delivery.py`, `engine/planning_promotion.py`) | Run, tree row, deliveries, durable job, observer queue, locks | submit, attach, prepare, plan, drive, promote, hand over, deliver, settle, present, clean up | every await may be the last, in a first or a resumed life | `Engine` |
| model invocation (`model_invocation/*`, `model_execution.py`, `planning_stream.py`) | attempts, usage, streams, operations, timers | complete, stream, parse a plan, repair, settle, close | budgets shared by a tree, closes at any point, idle timers | `ModelStream`, `ModelTasks` |
| tool executor (`tools/*`) | batch, gate, operations, live approval, receipts | admit, dispatch, approve, execute, fail, stop | parallel calls, effects and their reports | `ToolExecutor` |
| output journal (`adapters/memory.py`, `output/*`) | events, streams, operations, terminal event | open, append, commit, abort, lifecycle commit, subscribe | order, duplicates, terminal fence, wake-ups | `OutputJournal`, `ModelStream` |
| agent tree (`agent_tree/*`, `agent_tree_execution.py`) | agents, runs, leases, canonical records, joins | spawn, continue, claim, settle, join, cancel, close | slots, join and cancel races, crashed owners | `RunTree`, `AgentJoin` |
| long tasks (`long_tasks/*`, `adapters/durable_memory.py`, `adapters/_long_task_mixins.py`) | task, units, leases, coordinators | dispatch, claim, complete, fail, expand, interrupt, cancel, resume, recover | unit leases, cancellation against completion, budgets | `LongTask` |
| artifacts (`artifacts/*`, `adapters/durable_memory.py`) | artifacts, batches, receipts, claims, owner index | create, claim, append, finalize, discard, release, sweep | two writers, expiring claims, retention | `Artifacts` |
| mem0 memory (`purra_mem0/memory.py`, `_journal.py`) | operations, records, rules, SDK content | add, extract, update, delete, control, review, reconcile, discard, read | two stores without a common transaction | `MemoryJournal` |

The components meet in the Run record: executions write it under the lease guard, the
controller's snapshot mirrors it, the approval store and the claim in it gate the external
effect, the agent tree cancels it from outside, the output journal is committed with it,
and a recovery worker finds it when its process is gone.

## 2. Modules

Text, titles, summaries, traces, payloads and digests are abstracted throughout: a
checkpoint is its number, a plan step is id, kind, tool, dependencies and status, content
is a model value.  A step is what happens between two awaits; a store method that holds
one lock or one `BEGIN IMMEDIATE` transaction is one action.

### Ownership and durable calls

`RunLease` – durable ownership of one Root Run; between two transactions of an execution
anything may happen.  `pc[t]` follows one supervisor task: `idle`,
`get`/`claim`/`confirm` (the three transactions of `_LeaseSession.bind`), `attach`
(`_start_or_attach_run`), `round`/`call`/`settled` (between checkpoint, reservation and
settlement of a model attempt), `close` (`_LeaseSession.close`), `abort` (closing the
stream of a fresh Run whose bind failed), `ended`.  `run.ckpt` numbers the stored
checkpoint, `run.attempts` and `run.ckptAttempts` are `model_attempt_count` and
`checkpoint_attempt_count`.  `workers` is a history variable.  A crash ends every task of
an owner and stores nothing; `StoreError` is a settlement or release that fails.

`ExclusiveRun` – what ownership promises, with no lease, epoch or clock: at most one
executor, only the executor commits rounds, one outcome.

`ToolDispatch` – EXTENDS `RunLease` with one approved write: the tool-ready checkpoint,
the approval record, the claim in the store, the association that ties a claim to an
approval revision and an epoch, the receipt, and `effects`, a count of how often the
effect really happened.  The handler runs between two transactions (`flying`); when its
execution stops or dies the request may still take effect later.  The host may reconcile
an outstanding claim; it is assumed honest (a result it reports is the case, a proof of
non-execution excludes a late effect).

`RecoveryScan` – workers that scan Runs: discovery (the running ids, or a page after the
durable cursor), the rotation of the queue, check, inspect, resume and settle of each
candidate, acknowledgement of the processed prefix, stop, exceptions and crashes; the
schedule with its rows and the one counter of the scope; the host's wakes and pruning.
The revision of the cursor's row is reduced to what comparing it finds out (`fresh`).
`inspect` and `resume` are the host's and reduced to their answers.

### One Run in its process

`Engine` – `_execute_run` of one Root Run as the other tasks of the process see it:
submission, start or attach (which may raise), context, planning modes, the loop as rounds
with the extensions of its limit and its possible endings, promotion, the durable hand-over with its observers and their queue, delivery of
a child's result, settlement, presentation and the finally block, in up to `MaxLives`
processes.  `RuntimeLoop` – the loop inside it: every pass of `AgentRuntime.run`, with the
place of the suspension in `at`, `_RuntimeLoopState` in `loop`, the streamed answer in
`ans` and the last checkpoint in `ck`.  `Recovery` – the ledger and the resolvers, as pure
operators of a ledger and a question.  `Planning` – from the host's constraints and a
Planner's answer to the plan that authorizes calls, and its revisions (uses RECURSIVE
operators, for TLC only).  `RunState` – the reducers of `RunStateMachine` as operators on
snapshots, the commit protocol of `AgentRunController` (a commit in flight may be written,
refused, replaced by a cancellation, rolled back, and its caller canceled), the
repository's `_apply_commit`, the callers and the two settlement levels of `_execute_run`.
`Listing` – the ordered and filtered lists that `RunState` and `RecoveryScan` use.

`ToolExecutor` – one batch of calls: admission as a whole, serial or parallel workers
behind one gate, and around each call its operation, scope validator, live approval,
handler, receipt and completion event.  The start of a handler is its dispatch
(`ensure_future` in `Scope`); its first line runs one turn of the event loop later.  `ModelTasks` – one private model task (structured,
text, plan, or a stream a host reads itself) with its attempts, tokens, repairs, timers and
the stop signal; other Runs of the tree appear by the calls they make on the shared budget.

### Stores

`OutputJournal` – the canonical log of one Root Run as `InMemoryOutputTransactionAdapter`
keeps it, and the rules that refuse an append.  `ModelStream` – EXTENDS it with its writers
and readers: one model invocation at a time through opening the stream, reading chunks,
batching fragments (`buf`, the flush `timer`, the batch lock), committing or aborting, and
settling its operation.  Every `await` of that path may raise (`Fault`); `hurt` are the
streams whose own cleanup failed and which are left to the terminal commit.  A subscriber
replays pages, waits to be woken and ends at the terminal event.

`RunTree` – the run tree repository of one Root with the canonical records it shares a
lock with.  Of the callers only this is assumed: a child's execution shows some claim it
was once given, current or stale, and the Root shows none.  The runs that may ever exist
are constants: command `b` of run `By[b]` creates `Kids[b]`.  `AgentJoin` – EXTENDS it with
its callers: the executions of the Root and of claimed children, and one join per command,
each through the awaits of `_execute_and_join`, its cancellation handler and its finally
block; `Crash` ends all of them, `Resume` starts the Root again under a new owner.
`CanceledTask` ends a canceled execution as a whole; in the code only the heartbeat is
canceled and the inner task runs on, but every write it still tries is fenced.
`JoinTree` – both uses of the tree in one specification, by any callers and by `AgentJoin`,
with the invariant that ties tree, canonical records and executions together.

`LongTask` – the record and units of a durable task, the dispatches that create, join and
resume it, and coordinators that claim, run and settle units; the reload of the task after a
wait (`coordinator.py:117`) is the one at the head of the loop (`Loop`).  `Artifacts` – the store with
its claims, the lifecycle that validates a command over several store calls, and the
maintenance sweep, which goes by the store's clock (a timestamp that the host may give instead
is left out).  `MemoryJournal` – the journal and the SDK as two stores, with threads of
several processes that write, repair, control, review and read; the SDK is external and a
map from ids to contents.  Some of the adapters are managed (built with `MemoryProviders`),
the others raw: a raw one admits no provider calls, verifies no providers and records no
stop.  The last check of a write and its commit are two steps, and after the commit a
thread is still on its way out (`final`), where a stop leaves an error in the plan of a
complete operation.

### Instances

`MCRunLease`, `MCToolDispatch`, `MCModelStream`, `MCAgentJoin`, `MCJoinTree`,
`MCExecution`, `MCLoop`, `MCStores` and `MCLive` give the constants for TLC.  Most of them
hold several components that do not interact in the instance: a variable `part`, chosen in
the initial state, names the component whose behaviour it is, the next-state relation is
the disjunction of the components' relations, each guarded by its part, and the others stay
in one initial state.  A run of such a module is several independent model checkings in one:
an invariant of a component is checked on the states of its part, and fairness is stated
per part.  Nothing is added to or taken from a component's actions by this.

## 3. Runs

Several properties are conjunctions of named parts; the table names the parts.

| run | what it shows |
|---|---|
| `lease` | three executions of one Run in two processes: `OneWriter`; `LeaseInv`, the inductive invariant; `ExclusiveExecution` (RunLease implements ExclusiveRun) and, under fairness, `ExecutionsEnd` |
| `tool_dispatch` | an approved write: `EffectOnce`, `ReceiptTrue`, `DispatchInv` (`UnknownBlocksTakeover`, `FreshView`), `DispatchSteps` (`ReceiptFinal`, `DispatchStillAllowed`); two recovery workers on one cursor: `ScanInv` (`CursorExact`, `QueueSound`, `PageSound`, `PageExact`, `SeenStands`) |
| `stream` | two invocations, and one with a subscriber: `JournalInv` (`TerminalFence`: nothing follows the terminal event of a Run; `ContentExact`: the stored stream is a gapless prefix of what the provider sent, all of it once committed; `ProjectionAfterSource`, `SubscriberComplete`, and what each stage of an invocation relies on), `InvocationSettled` (no stream or operation of an ended invocation stays open) and, under fairness, `WatchedEnds` |
| `join` | the tree with any callers: `TreeInv` (`NoOrphan`, `CanceledEverywhere`, `LeaseHeld`), `ParallelLimit`, `OutcomeFinal`; with joins, lease loss, suspension, a closed Agent, a crash and a resumed Root: `JoinInv` (`RecordsAgree`: tree and canonical record never contradict each other; `PredecessorsDone`) |
| `join_live` | nested joins for one slot and a continued Agent: `ContextChain` (one unfinished run per Agent, its version counts completions) and, under fairness, `JoinsEnd` and `StopReachesAll` |
| `execution` | a Root Run in the Core, in two lives: `EngineInv` (`TreeFollowsRun`, `FinalBehindBarriers`, `DeliveredOnce`, `RoundBudget`, `ToldIsPersisted`); a durable task with two coordinators: `LongTaskInv` (`CompletedMeansAll`, `CancelBeatsCompletion`, `ProgressExact`, `OneSettler`, `ParallelBounded`); both: `WorkStands` (`OutcomeStands`, `WorkKept`) |
| `loop` | the model loop: `LoopInv` (`LimitAccounted`, `GrantedRetryRuns`, `CompletedChecked`), `LoopSteps` (`ShownTextStands`, `UncertainEffectEndsRun`, `DeclineStopsTools`) and, under fairness, `LoopEnds`; planning: `PlanInv` (`CompiledOrdered`, `NoRepeatedPrerequisite`, `RequiredDone`); model tasks: `TaskInv` (`RepairFromSettled`, `NothingLeft`, `IdleIsTheProvider`, `PlanCommittedExact`, and what each stage of a task relies on), `TaskSteps` (`AcceptedWithinTokens`, `NoCallAfterStop`, and `PlanFits` of planning) |
| `stores` | artifacts: `ArtifactInv` (`CoverageOnce`, `FinalizedExact`, `ClaimsCurrent`, `OwnerIndexExact`), `ArtifactSteps` (`SweepSparesLive`, `CommittedFixed`); memory: `MemoryInv` (`ContentMatches`, `ExtractionsVerified`), `MemorySteps` (`AnswerCurrent`, `VersionsGrow`, `ErrorsRepaired`: an extraction whose provider failed is completed by no repair) |
| `live` | the run state: `RunInv` (`SnapshotMirrorsStore`, `NothingLeftOpen`, `ToolMatchesStep`), `HistoryKept`; batches of calls: `BatchInv` (`EveryCallAnswered`, `AdmittedIsSafe`, `EffectTold`, `OperationsSettled`), `BatchSteps` (`NoStartAfterFailure`, `DecisionStands`); the recovery schedule: `SettledAsSeen`; and what must come to an end: `WorkReturns` (`SettlementEnds`, `CoordinatorReturns`), `StopsAreHonoured` (`StopEndsBatch`, `StopEndsTask`, `StopEnds`), `DueIsTakenUp` |
| `lease_slow_bind` (violation) | `OneWriter` fails if a lease may expire between claim and the confirming read of `bind` |
| `planning_retry` (violation) | `PrerequisitesMet` fails after a revision that follows a failed prerequisite |
| `task_close` (violation) | `ClosedIsSettled` fails when a stream is closed before its first read |

The type invariant of each module is checked with the properties of its part.

**Bounds.**  *lease, tool_dispatch*: three tasks in two owners are the smallest instance
with a same-owner resume and a foreign takeover at once; `LeaseMs = 2`, `MaxTime = 4` let a
lease expire, be renewed and be claimed again by both; `MaxAttempts = 3` allows a retried
round and a takeover after it.  `lease` has one checkpoint, `tool_dispatch` two, so that a
selected checkpoint can be overtaken, and `ApprovalExpiry = 3` inside the horizon; it uses
the symmetry of the two tasks of one owner, its properties name no task.  Its two recovery
workers share the cursor over Runs 1 and 3, Run 2 arrives, pages have two ids and a scan
handles one, so that a page is left half done; one exception, stop or crash.
*stream*: two invocations of two chunks, or one of three; one of two chunks with a subscriber; batches
of two fragments, an output budget of two batches and pages of three events make full
batches, exhausted budgets and several pages occur.
*join*: a Root and two children of which one depends on the other, one slot (the tightest
grant), two owners, two epochs, so that a run is reclaimed, and a crash with a second boot.
*join_live*: a chain of three runs and a continuation, in one process that stays up
(`UpNext`: no crash, and leases hold; both happen in *join*).  `Asking`, `HostCancels` and
`HostCloses` name the runs and Agents that ask the user or are acted on by the host, so that
each run spends its states on one kind of interference.
*execution*: two rounds and one extension of each kind (`ExtraRounds = 1`), one child, two
units that report at once, two lives, a host that spawns in the two phases that matter
(`Lean`: a second life presents only where the policy defers the answer, and is stopped only
in a reactive Run; `Extends`: a Run whose limit is extended has no child and no durable task,
streams its answer and is not stopped); a task of two units of which one splits into two,
claimed by two Runs of one dispatcher, one attempt each, a deadline and an expiring lease.
*loop*: two rounds with one extension by progress, one grant per cause of recovery but one,
which is switched off (`Once`), one crash and six configurations (reactive with a round to
answer in, with and without a forced tool; reactive with everything required; automatic;
planned and checked; planned without durable rounds).  A model may call tools in the round
that offers none; a second such round is granted only in the Run with the forced tool, where
it reaches the end of the range (`Stubborn`);
planning over five tools with a private two-step capability, seven constraints and eight
answers of a Planner, two of which need an inserted prerequisite; tasks with two attempts, a
token limit that two ordinary answers exceed, two chunks, one retry, one peer and one await
that raises (`Apart`: the peer makes its calls where no await raises, and beside the shorter plan).
*stores*: two writers, two keys, two contents, a claim that expires and a retention inside
the horizon, four revisions; two processes, two operation keys, one record, one source, two
epochs, any mixture of managed and raw adapters (`Bounded`: an authorization ends or a record
expires beside one operation only; `Stops`: a call is stopped in the first of two operations
or on its way out; `Mixed`: where both kinds of adapters share a scope they extract and the
rules stand).
*live*: plans of one to three steps that share ids, one of which puts new work before a model
step that may be running, so that a batch overtakes it; two revisions, batches of up
to three calls and a concurrency of two, one life of the engine and the automatic
submissions with most to wait for (`Slowest`; *execution* takes all), one coordinator, and a
recovery worker over two Runs with three revisions of the schedule; a Run is watched for
starvation where the order of ids puts it last (`Watched`).

Deadlock is not checked: executions end and clocks have a horizon.

**Fairness.**  A started asyncio task keeps being scheduled, so a step of a task that is
enabled for ever is taken; timers fire; a store call ends.  Nothing is assumed of
submissions, approvals, cancellations, host commands, suspensions, crashes or errors.  In
particular: `lease` – tasks, monitor and clock; `stream` – producer, timer and subscriber,
and the provider's idle timeout ends a silent read; `join_live` – executions and joins, and
strong fairness of `Finish`, because a Run's rounds are bounded; `loop` – the loop and the
resumption of a Run that has a checkpoint; `live` – a pending commit ends and its receipt is
applied; the executor's steps, the expiry of an approval, and a handler that has committed
returns (a handler that ignores its cancellation is not assumed to); a model task's steps
and the wake-up of its timers; coordinator, units and clock of a durable task; the main
task, children and executor of the Core; a worker's steps, including that the host serves a
worker again that left, which `RecoveryWorker` leaves to the host.

## 4. Proofs

Every theorem holds for all values of the constants that satisfy the named assumptions of
the modules, i.e. for any number of tasks, owners, runs, workers, processes and keys.  Each
invariant below was first checked by TLC as an invariant of the run of its component.

**`ToolDispatchProofs`, ownership** – `LeaseInv` is inductive; `OneWriter`, `FreshView`,
`OneWorkerPerRound`, `NoRevival` and `OnlyHolderFrees` follow.  `OneWriter` alone is not
inductive: one has to know that two tasks never hold the same epoch (`ClaimInv`), that a task
between claim and confirming read is alone there and that nobody holds the epoch it will adopt
(`ConfirmInv`), that a fresh Run has no checkpoint and no other task while it is being bound
(`StartingInv`), that the holder of the current epoch sees the stored checkpoint (`ViewInv`)
and that attempts after a checkpoint carry the current epoch (`WorkerInv`).
`ImplementsExclusiveRun` matches each step with a step of `ExclusiveRun`.  These theorems and
those about `ToolDispatch` assume `PromptBind`, i.e. that the confirming read of `bind`
happens before the claimed lease expires; `lease_slow_bind` shows that the assumption is
needed.

**`ToolDispatchProofs`, the call** – `DispatchInv`, `EffectOnce`, `ReceiptTrue` and `DispatchSteps`.
The invariant is `CallInv`: `LeaseInv` and what the records of the one gated call say about
the wire.  A request is on the wire only while the claim is in the store without a receipt;
two tasks never have one at the same time; the effect has happened only if a request was
sent; a task that is past the claim holds the association it stored.  `CallFrame` reduces a
step that does not touch the call to `LeaseInv`; the steps of RunLease reuse the lemmas of
the first part, because the steps of the call are steps of the lease that leave it alone.

**`JoinTreeProofs`, the tree** – `TreeInv`, `ParallelLimit`, `OutcomeFinal` and `ContextChain`.
`TreeInv` adds `LeaseHeld` to the type invariant, `NoOrphan` and `CanceledEverywhere`: a lease
belongs to a running or waiting run.  It is needed because `suspend_run`, `renew_run_lease`
and the fence of canonical writes look at the claim only; it is what keeps a late call from
reopening an ended run.  `NoOrphan` of a new run follows from the requester being unfinished;
the unfinished part of a subtree is closed downwards, so ending all of it leaves no orphan;
slots are counted with the library's theorems on cardinalities.  `ContextChain` needs in
addition that an Agent whose first run does not exist has no run at all (`FirstRunFirst`), so
that a spawn makes its Agent's only run; and two sets of completed runs that differ by the run
that completes differ by one.  The assumptions are the shape of the tree (`TreeShape`: `Below`
is the transitive closure of `Parent`, without cycles), that commands create children of their
requester and no two the same (`CommandShape`), that a run is the first of its Agent or a
continuation (`AgentShape`) and that limits are natural numbers and the set of runs is finite
(`LimitShape`).

**`JoinTreeProofs`, the joins** – `JoinImplementsTree`: every step of the executions, joins and host is a
step of `RunTree` or leaves the tree alone, so the theorems above hold of it; and `JoinInv`.
The invariant `WorkInv` says of each execution that its claim is one its run can have
(`Member`), that its predecessors are done while it works (`Ready`), and what its stage and
its claim say about the two records of its run while the claim is valid (`ExecSound`); of each
join that its tasks are its own children and are at work (`Party`).  The argument: a claim
that was lost stays lost because epochs grow, so an execution with a stale claim needs no
fact about its records; a run has one valid claim and no two executions share one
(`Distinct`), so when one settles a run the facts of all others are about other runs; each
call on the tree either begins no run (`NoneBegins`) and ends runs only with their canonical
record (`EndsWell`), or is the settlement of the caller.  `Kids` of two commands are disjoint,
so nobody else awaits the tasks a join collects.

**`StoresProofs`, artifacts** – `ArtifactInv` and `ArtifactSteps`, without assumptions beyond
`ArtAssumption`.  A worker goes through several store calls; `Knows` says what it may
rely on between them.  Nobody knows a later revision than the stored one, and every stored
change raises it; so an equal revision at the commit means that nothing was stored since the
worker looked, and what it validated is what is there.  `FrameStep` covers steps of the
lifecycle alone, `WorkerStep` and `OthersOutdated` a commit: the one worker's facts are
re-established, the knowledge of the others becomes outdated.

**`StoresProofs`, memory** – `MemoryInv` and `MemorySteps`.  An operation in a fenced state is
the only one of its scope (the partial unique index), and one thread works on it, so the SDK's
content and the journal's rows may differ only where the fenced operation's plan says so;
`WorkStep`, `ReadStep` and `PlanStep` are the three ways a step can relate to that fence.
That an extraction of a managed adapter is complete only if it was verified, and that no repair
completes one whose provider failed, needs to know what a thread has checked at each step
(`JobSound`): the error may come between the last check and the commit, so "complete without an
error" is no invariant, and the plan's flag is the writer's until the thread has left (`FenceInv`
covers threads on their way out).  Nothing is said of raw adapters here, which verify nothing.
The theorems assume `~TwinRepair`: no two repairs of one key overlap.  The adapter knows only
its own tasks and documents repairs as being for the time after the writer; section 6 says
what happens otherwise.

**`ProcessProofs`** – `BatchInv` and `BatchSteps`, for batches of any number of calls with any
ids (`LongBatches` is any set of sequences of calls, `CallRecords` has every natural number as
an id) and any limits.  What the contract of a batch says at its end is not
inductive; `BatchInv` adds what holds between two awaits.  `WorkerSound`: a worker at a call is
the only one there, the call has no receipt and no event yet, and its operation and its
handler are where its stage says.  `CallSound`: calls that nobody took are untouched, an open
operation has a worker, every earlier call of the serial loop succeeded, and while the gate is
open no call has failed.  `PhaseSound`: the serial loop has its gate open until it ends, a tool
that needs an approval is alone in its batch, and what overlaps is reads.  So a call that fails
in the serial loop is the last one taken and answers all later ones; a parallel batch has no
effect to report; and a handler begins only where no call has failed.  `CallFailsStep`,
`RaisesStep` and `StageStep` are the three ways a worker's step can end, and the actions are
reduced to them.  That the worst outcome and the last call of `Aggregate` exist
(`AggregateIsCode`) needs a greatest element of a set of call numbers, which is the library's
theorem on least elements of well-founded relations.

The second part is `ScanInv` and `SettledAsSeen`, for any workers, Run ids, page size, limit of
a scan and backoff.  `CursorExact` alone is not inductive: what an acknowledgement writes depends
on the page that was read many steps before.  `PageSound` says that what a scan has processed,
the Run at work and the rest of its batch are consecutive in its page, `PageExact` that a page
whose cursor row is still the stored one has every Run up to its end that is neither processed
nor new, so that moving to the last processed Run skips none (`PageAcknowledged`).  `QueueSound`
keeps a worker's queue free of repetitions across the rotation (`RotatedSeq`) and the next
discovery (`QueuedSeq`).  `SeenStands`: a row that still has the revision of a scan's check is
the row it returned, because a revision that is issued is larger than every one before it
(`RowFacts`, `SoundWithRow`); pruning a row must issue one too.  `AscendingLists` says what an
ordered listing is: every element once and in order, by the theorems on injections of finite
sets.

The third part is the run state.  `RunRecords` and `HistoryKept` hold for every set of plans.
The records need `CommitSound`: what the commit in flight will make of the Run (a legal
snapshot, settled whole, with every done step done), and that the repository has it once it is
written and the old snapshot before, or the tree authority's cancellation.  A reducer restates
the statuses of steps (`Restated`, `Reduces`), so each is one small lemma, and the updates by
step id that `_apply_commit` writes make the same list (`UpdatedSteps`), because the ids of a
legal snapshot are distinct (`IdsDistinct`, by a surjection between sets of one size).  A
revision is history and future (`RevisedAs`, `RevisePlanParts`), and history is a listing by
rank (`PickedPlaces`).  `RunInv` adds that the tool at work is the running step's, for every set
of plans and every revision.  Until the first revision `WorkInOrder` is inductive: a running
model step is the first one that is not finished, so the first unfinished step after it, which is
authorized, is the first unfinished one, which is started.  A revision may put work before a
model step that is running; then the two may differ, and `CallsStartedGrant` shows that they
differ in one way only: the step that is started is open tool work before the model step that
ended, and the batch is that of the first open step after it (`Overtakes`).

**`LongTaskProofs`** – `LongTaskInv` and `CompletedWorkKept` (the part of `WorkStands` that is
about durable tasks), for any recipe, splits, coordinators, limits and clock.  Two parts make
the invariant inductive.  `SoundStore`: a unit is required exactly while it exists and was not
split, a unit that was never created has never been claimed, a claimed or completed unit has
its dependencies completed, and the totals follow the units, where `failed_units` may lag
behind (`_cancel` and `resume` do not count again).  `ExecutionsSound`: an execution has the
epoch of a claim its unit really had, and no other execution has the same.  The repository's
methods fall into two kinds.  Most of them claim, complete and split nothing (`Kept`): they
leave finished units alone and take leases away, whatever order their calls come in
(`KeptTransitive`).  The others are treated one by one: a claim (`ClaimFit`), a completion, a
renewal, the split (`ExpandedFit`: a unit that waits for the one being split cannot be claimed
or completed, so that replacing its dependencies disturbs nothing) and the creation.
`OneSettler` then follows from the epochs: a claim raises it, and two executions with the
unit's current epoch are one.

**`EngineProofs`** – `EngineInv` and `OutcomeIsFinal` (the part of `WorkStands` that is about a
Root Run), for any children, units, limits, lives and host phases.  `EngCore` is inductive: to
what a Run promises (`TreeFollowsRun`, `DeliveredOnce`, `FinalBehindBarriers`, `RoundBudget`,
`ToldIsPersisted`) it adds for each phase of `_execute_run` what that phase relies on.
`RunInPhase`: the Run is open until it is settled and nothing is held when the tree is told.
`KidsInPhase`: whoever the Root asked for and still runs is joined while the Root works, so the
settlement of an answer lets go of nobody.  `DeliveriesInPhase`: from the last barrier on nothing
is left to be shown but the answer.  `BudgetFits`: what was used before and what the limit still
allows fit the base budget and the extensions granted so far, and the round at hand is inside
the range of `run()`, which is computed once per loop; both also for the loop a checkpoint
would restore.  `RoundBudget` follows: until a round is granted to answer in, all loops of a Run
together use no more than base budget and extensions; the range bounds them in one process, and
a promoted loop that was resumed may exceed it by less than the base budget.  `ReportsInPhase`: an update that was applied is persisted and
still the head of its queue, which is what makes a report after a hand-over complete.

**`LoopProofs`** – `LoopInv` and `LoopSteps`, for any limits, profiles, extensions and crashes.
`LimitAccounted` and `GrantedRetryRuns` depend on grants made many rounds earlier, so the
invariant says at each place of the loop what that place relies on: which grants the ledger
holds (`LedgerFits`), which of them the rounds and the attempt account for (`RoundsInPhase`,
`AttemptInPhase`), what the answer at hand may hold (`HistoryInPhase`) and that a checkpoint holds
a loop the resumed process can go on with (`CheckpointSound`).  Nothing is assumed of the answers:
a model may also call tools in the round that offers none.  The batch is then authorized like any
other and one more such round is granted (`seen.finals` counts them), so the limit stays
accounted for; but the range of `run()` has room for one of them only.  `GrantedRetryRuns` and
`RoundsInPhase` therefore except a Run that was granted several and is at the end of the range
(`OutOfRange`).  After a decline such calls are rejected (`tool_authorization.py:154`), so
`DeclineStopsTools` needs no exception.

**`LoopProofs`, model tasks** – `TaskInv` and `TaskStepsHold` (the part of `TaskSteps` that is
about model tasks), for any limits, prompts, usages, records, peers and faults.  The promises are
about the end of a task, so the invariant (`TaskCore`) says for every stage what the attempt at
hand has in the three stores: attempts after it are untouched and attempts before it are closed
(`OtherAttempts`), whether it is reserved, its operation running and its stream open
(`AttemptInStage`), what of the answer was told, booked and kept (`AnswerInStage`, `RefsInStage`).
`NothingLeft` then follows (`StagesClose`).  For `PlanCommittedExact` the parser must agree with
the document after every chunk (`PlanInStage`): `FeedFollows` and `FinishFollows` show that
feeding a chunk and closing the document keep its counts and its state those of the records read
so far.  Most steps only move on or raise; `MoveStep`, `GoStep` and `RaiseStep` treat them once.

**`JournalProofs`** – `JournalInv` and `InvocationSettled`, for any invocations, chunks, failing
awaits, timers and subscribers.  Both are inductive together (`StreamCore`): a journal stays exact
because its producer knows at each await what it has written already.  `StreamInStage` and
`AttemptInStage` say at each stage whether the stream is open and the attempt and operation
settled, `BufferInStage` that producer and flush timer take turns at the batch and where it is
empty, and `SubscribersFollow` that nobody is ahead of the journal and the result settles once.
The lemmas go upwards: the repository's calls (`AppendKeeps`, `OpenKeeps`, `EndKeeps`,
`TerminateKeeps`), what a flush adds to the content of a stream (`FlushIsNew`, `FlushedContent`)
and that nothing else touches it (`ContentKept`), what an error may leave behind (`Raising`), then
one lemma per action.

**Only model-checked.**  Liveness and `ENABLED`, which the prover does not handle, and planning
(`PlanInv`, `PlanFits`, and `TaskSteps` as a whole because `PlanFits` is part of it): what the
plan compiler does is a recursion over the steps of a plan (`Planning` has RECURSIVE operators),
and induction over data is out of the prover's reach.

Writing the proofs changed the models.  TLA+ leaves open which arm of a `CASE`
with overlapping guards is taken, TLC takes the first.  Where the order of the tests in the
code decides (`Begin` of `AgentJoin`, `RouteOf` and `Shown` of `Engine`) the definitions are
now nested conditions.  `Aggregate` of `ToolExecutor` is a function of the set of answered calls instead
of a filtered sequence, and what `LongBatches` may hold is an assumption.  The proof of
`LongTaskInv` failed on a split whose children exist already or depend on their parent, which
`expand_unit` refuses: the model now has that refusal (`SplitConflicts`).  Filtered and sorted
lists (`Listing`) are defined by the rank of their elements, since the community modules'
`SelectSeq` and `SetToSortSeq` rest on recursion; so are the new drafts of an append in
`OutputJournal`, and `PlanOf` of `ModelTasks` names the place of the plan instead of filtering its
document.  The proof of `InvocationSettled` failed on an abort that raises while it takes the lock
of a stream that never had a batch: the code raises there before its first await
(`processor.py:339`–`367`), and `Fault` now needs the batch.  `GrantedRetryRuns` was stated with a
history flag that missed the retry granted after a failed batch; the flag now follows the decision
(`RuntimeLoop`, `seen.granted`).

## 5. Findings

The three violation runs; `PROJECT.json` quotes the lines they contradict.

* `lease_slow_bind`: two tasks of one owner adopt one epoch.
* `planning_retry`: a prerequisite that failed is inserted again under the same step id, the
  revision drops it as history, and the tool that needs it runs.
* `task_close`: closing a model task's stream before its first read leaves attempt, operation
  and journal stream open.

## 6. Observations

Behaviour met while modelling that the models contain, without a run of its own.

* Run state: the tool that is authorized is that of the step after the running model step,
  the step that is marked running is the first incomplete one (`run_state.py:376`).  They differ
  after a revision that puts work before a running model step: the batch overtakes it, and
  when the batch ends, the step that was marked is completed (`Overtakes`; a plan of `live` does
  this).
* Agent tree: a parent goes on as WAITING when its slot was taken while it joined
  (`agent_tree_execution.py:292`), and a join can report a stall while another one is at work
  (`:241`).
* Runtime loop: `range` is evaluated once, so `absolute_round_limit += 1` has no effect; a
  tool-ready checkpoint raises when no round is left; an empty answer after a decline
  completes unchecked.  Tools called in the tool-free finalization round are executed and another
  such round is granted, until the fixed range ends the Run with `max_model_rounds`, even where a
  retry had been granted.
* Planning: constraints are compared by tool names where capability names are meant
  (`engine/planning_validation.py`); a failed replanning falls back to the model-only plan even
  where the host forbids it; a revision that reuses the id of a RUNNING step keeps it RUNNING.
* Engine: the durable completion path does not pass the quiescence barrier; an Agent spawned
  by the host behind it leaves the tree's Root RUNNING under a finished Run; a deadline during
  the context stages is reported as a failed context; a promotion of kind "remaining" charges
  used rounds twice; a loop promoted as "initial" that is resumed gets the range of a Run without
  a promotion, the rounds used before it are forgotten.
* Tool executor: when a second artifact append fails its scope after the first committed, the
  batch is reported NOT_STARTED; the cancellation of a serial batch leaves later calls without
  receipts; cancellation of the task during a linearizable handler is swallowed.
* Model tasks: a failing abort of `complete` leaves its operation running; a chunk that arrives
  with the stop loses its usage; with a token limit one unreported attempt makes every later
  settlement in the tree raise; only structured tasks follow the Run's signal by themselves.
* Long tasks: a terminal task can change its status by deadline or budget; interrupting one of
  several parallel units pauses the task and leaves the others claimed; two dispatches of one
  key around the end of a task can leave two tasks.
* Artifacts: two workers of one Run share one claim, and the release of one ends the other's.
* Memory: `Journal.commit` does not look at the operation's state, so of two processes that
  repair one key the late one overwrites later changes; the instance excludes overlapping
  repairs of one key (`TwinRepair = FALSE`).  A crash between plan and SDK effect fences the
  scope until it is discarded; a failed review is refused for its key for ever.  A stop after the
  last check leaves a provider error on an operation that is complete (`providers.py:132`), and a
  raw adapter completes and reconciles extractions without any verification.
* Recovery: an unregistered Run has the scope's counter as its revision, so the settlement of
  another Run makes its own settlement a no-op; a check that raises every time keeps the cursor
  at its Run.

Hazards without a property: a canceled Run whose owner is gone (`purra_sqlite/__init__.py:393`)
waits for the host's orphan recovery, which is not modelled.

## 7. Plan

Modelled: ownership and tool dispatch, recovery scans, run state, planning, loop, engine,
tool executor, model tasks, output journal, agent tree, long tasks, artifacts, memory.

Proved: every safety property of the runs except those of planning (section 4).  What is
left is to model more: queued guidance of a host, orphan and Run recovery, the events of child Runs
under one Root.

## 8. Not modelled

* The TypeScript SDK: a second implementation of the same contracts.
* Provider, MCP and interaction adapters: translation between contracts and external services.
* Context budgets and compaction: arithmetic on token estimates and prompts; that they may fail
  or run into the deadline is in `Engine`.
* Observability, evaluation and the test kit: reports over recorded events.
* Storage codecs, schema migrations, and the vendored Mem0 SDK.
* Of modelled components: orphan and Run recovery (driven by a store the repository only
  declares), queued guidance of a host, the per-root sequence of child Runs' events, the
  publication of a stream's content as the final answer, capability narrowing and priorities in
  the tree, `bind_unit_run` and `update_unit_progress` of long tasks.
