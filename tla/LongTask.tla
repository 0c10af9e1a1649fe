------------------------------ MODULE LongTask ------------------------------
(***************************************************************************)
(* A durable task: its record and its units in the repository, the         *)
(* coordinators that claim, run and settle the units, and the dispatches   *)
(* by which Runs create, join and resume the task.                         *)
(*                                                                         *)
(*   src/purra/adapters/durable_memory.py    InMemoryLongTaskRepository    *)
(*   src/purra/adapters/_long_task_mixins.py unit claims and settlement    *)
(*   src/purra/long_tasks/coordinator.py     LongTaskUnitSettlement.run    *)
(*   src/purra/long_tasks/dispatcher.py      RecipeLongTaskDispatcher      *)
(*   src/purra/recovery/disposition.py       decide_failure                *)
(*                                                                         *)
(* Every repository method runs under one lock and is one step here; the   *)
(* coordinator and its unit executions interleave between the calls.       *)
(* Positions are unit numbers.  The record's revision is not kept: the     *)
(* one comparison the coordinator makes (start) can fail only because      *)
(* usage was recorded since the load, see Start.                           *)
(***************************************************************************)
EXTENDS Integers, FiniteSets, FiniteSetsExt

CONSTANTS
    Coords,        \* the Runs that dispatch and execute the task
    Workers,       \* worker ids of the dispatchers
    WorkerOf,      \* worker id each Run's dispatcher uses
    NoWorker,
    Units,         \* unit ids (= positions): the recipe's and split children
    Recipe,        \* the units the recipe compiles to
    Deps,          \* dependencies of each unit specification
    Attempts,      \* max_attempts of each specification
    ChildrenOf,    \* what the runner's split_unit makes of a unit, {} for None
    MaxParallel,   \* the recipe's max_parallelism
    LeaseMs,       \* lease duration
    Deadline,      \* deadline_at_ms; 0 stands for none
    Budget,        \* max_invocation_attempts; usage is recorded one at a time
    PauseOnBudget, \* budget_exhaustion_disposition = PAUSE_RECOVERABLE
    RetryFailed,   \* failed_resume_attempts of the descriptor
    MaxTime,       \* bound: the clock stops here
    MaxEpoch,      \* bound: claims up to which a unit resumes a checkpoint
    MaxUsage       \* bound: usage records

\* LongTaskCreateCommand: unit ids and positions are unique by construction.
LegalCommand ==
    /\ Recipe # {} /\ Recipe \subseteq Units
    /\ Attempts \in [Units -> Nat \ {0}]
    /\ \A u \in Recipe : Deps[u] \subseteq {v \in Recipe : v < u}
    /\ MaxParallel \in Nat \ {0} /\ Deadline \in Nat

ASSUME LongTaskAssumption ==
    /\ LegalCommand
    /\ WorkerOf \in [Coords -> Workers] /\ NoWorker \notin Workers
    /\ Units \subseteq Nat \ {0} /\ Deps \in [Units -> SUBSET Units]
    /\ ChildrenOf \in [Units -> SUBSET (Units \ Recipe)]
    /\ LeaseMs \in Nat \ {0}
    /\ {Budget, RetryFailed, MaxTime, MaxUsage} \subseteq Nat
    /\ MaxEpoch \in [Units -> Nat]
    /\ PauseOnBudget \in BOOLEAN
    /\ IsFiniteSet(Units)

VARIABLES
    now,    \* clock_ms
    task,   \* LongTaskRecord
    unit,   \* LongTaskUnitRecord of every unit
    bound,  \* Runs with a LongTaskRunBinding
    co,     \* each Run's dispatch and coordinator: where it is, what it loaded
    active  \* each coordinator's unit executions

ltVars == <<now, task, unit, bound, co, active>>

TaskStatus == {"none", "pending", "running", "paused",
               "completed", "failed", "canceled"}
TaskTerminal == {"completed", "failed", "canceled"}
TaskActive == {"pending", "running", "paused"}
UnitStatus == {"absent", "pending", "claimed", "waiting_retry", "blocked",
               "expanded", "completed", "failed", "canceled"}
UnitTerminal == {"absent", "expanded", "completed", "failed", "canceled"}
Resting == {"new", "returned", "raised", "dead", "twin"}
CoSteps == Resting \cup {"lookup", "create", "link", "resume", "enter", "start",
            "loop", "claim", "finalize", "wait", "stop", "abort", "expire", "drain"}

\* LongTaskRecord, with total/completed/failed_units and usage.
TaskRecords == [status : TaskStatus, cancel : BOOLEAN, total : Nat,
                done : Nat, failed : Nat, usage : Nat]

\* LongTaskUnitRecord; LongTaskUnitSpec gives deps and the first max.
UnitRecords == [st : UnitStatus, deps : SUBSET Units, req : BOOLEAN,
                att : Nat, max : Nat \ {0}, worker : Workers \cup {NoWorker},
                epoch : Nat, exp : Nat]

Execution == [u : Units, ep : Nat, st : {"run", "cancel", "ended", "error"}]

LTTypeOK ==
    /\ now \in Nat
    /\ task \in TaskRecords
    /\ unit \in [Units -> UnitRecords]
    /\ bound \subseteq Coords
    /\ co \in [Coords -> [at : CoSteps, saw : TaskStatus, use : Nat,
                          sig : BOOLEAN]]
    /\ active \in [Coords -> SUBSET Execution]

NoUnit == [st |-> "absent", deps |-> {}, req |-> FALSE, att |-> 0, max |-> 1,
           worker |-> NoWorker, epoch |-> 0, exp |-> 0]

\* _unit_from_spec.
UnitFromSpec(u, deps) ==
    [NoUnit EXCEPT !.st = "pending", !.deps = deps, !.req = TRUE,
                   !.max = Attempts[u]]

LTInit ==
    /\ now = 1
    /\ task = [status |-> "none", cancel |-> FALSE, total |-> 0, done |-> 0,
               failed |-> 0, usage |-> 0]
    /\ unit = [u \in Units |-> NoUnit]
    /\ bound = {}
    /\ co = [c \in Coords |-> [at |-> "new", saw |-> "none", use |-> 0,
                               sig |-> FALSE]]
    /\ active = [c \in Coords |-> {}]

-----------------------------------------------------------------------------
(* The repository's helpers, as operators on the pair [t, u] they update.  *)

Store == [t |-> task, u |-> unit]
Put(s) == /\ task' = s.t
          /\ unit' = s.u

Live(s, u) == s.u[u].st = "claimed" /\ s.u[u].exp > now
Stale(s, u) == s.u[u].st = "claimed" /\ s.u[u].exp <= now
OpenUnits(s) == {u \in Units : s.u[u].st \notin UnitTerminal}
RequiredIn(s, st) == {u \in Units : s.u[u].req /\ s.u[u].st = st}

\* _set_status
SetTaskStatus(s, st) == [s EXCEPT !.t.status = st]

\* replace(unit, status = st, worker_id = None, lease_expires_at_ms = None)
EndUnits(s, set, st) ==
    [s EXCEPT !.u = [u \in Units |->
        IF u \in set THEN [s.u[u] EXCEPT !.st = st, !.worker = NoWorker, !.exp = 0]
                     ELSE s.u[u]]]

\* _refresh_totals
RefreshTotals(s) ==
    [s EXCEPT !.t.total = Cardinality({u \in Units : s.u[u].req}),
              !.t.done = Cardinality(RequiredIn(s, "completed")),
              !.t.failed = Cardinality(RequiredIn(s, "failed"))]

\* _cancel: the totals are not refreshed.
CancelTask(s) == SetTaskStatus(EndUnits(s, OpenUnits(s), "canceled"), "canceled")

\* _fail_task
FailTask(s, u) ==
    SetTaskStatus(RefreshTotals(EndUnits(s, OpenUnits(s) \ {u}, "canceled")), "failed")

\* _expire_deadline
ExpireDeadline(s) ==
    SetTaskStatus(RefreshTotals(EndUnits(s, OpenUnits(s), "failed")), "failed")

\* _fail_budget
FailBudget(s) ==
    SetTaskStatus(RefreshTotals(EndUnits(s, OpenUnits(s),
                  IF PauseOnBudget THEN "blocked" ELSE "failed")),
              IF PauseOnBudget THEN "paused" ELSE "failed")

\* replace(unit, max_attempts = unit.max_attempts + n)
MoreAttempts(s, set, n) ==
    [s EXCEPT !.u = [u \in Units |->
        IF u \in set THEN [s.u[u] EXCEPT !.max = @ + n] ELSE s.u[u]]]

\* _release_active_units: back to pending, the attempt is given back.
ReleaseActive(s) ==
    LET held == {u \in Units : s.u[u].st = "claimed"} IN
    MoreAttempts(EndUnits(s, held, "pending"), held, 1)

\* _deadline_elapsed
Elapsed == Deadline # 0 /\ Deadline <= now

\* Dependencies are satisfied by COMPLETED units only.
DepsDone(s, u) == \A d \in s.u[u].deps : s.u[d].st = "completed"

\* _has_runnable_work
HasRunnableWork(s) ==
    \E u \in Units :
        \/ Live(s, u)
        \/ /\ s.u[u].st \in {"pending", "waiting_retry"}
           /\ s.u[u].att < s.u[u].max
           /\ DepsDone(s, u)

\* Mutant: the cancellation request is not looked at again.
FinalizedLate(s) ==
    IF s.t.status = "running" /\ \A u \in Units : s.u[u].req => s.u[u].st = "completed"
    THEN SetTaskStatus(s, "completed") ELSE s

\* finalize_if_complete
Finalized(s) ==
    LET open == {u \in Units : s.u[u].req /\ s.u[u].st # "completed"}
        stranded == Min(open)
    IN  CASE Elapsed -> ExpireDeadline(s)
          [] ~Elapsed /\ s.t.cancel -> CancelTask(s)
          [] ~Elapsed /\ ~s.t.cancel /\ s.t.status # "running" -> s
          [] OTHER ->
               IF RequiredIn(s, "failed") # {} THEN SetTaskStatus(s, "failed")
               ELSE IF open = {} THEN SetTaskStatus(s, "completed")
               ELSE IF HasRunnableWork(s) THEN s
               ELSE IF RequiredIn(s, "blocked") # {} THEN SetTaskStatus(s, "paused")
               ELSE FailTask(EndUnits(s, {stranded}, "failed"), stranded)

\* Units whose last allowed claim ran out (normalized by the next claim).
Spent(s) == {u \in Units : Stale(s, u) /\ s.u[u].att >= s.u[u].max}

\* What claim_ready_unit may hand out, before the position order.
Candidates(s) ==
    {u \in Units :
        /\ s.u[u].st \in {"pending", "waiting_retry"} \/ Stale(s, u)
        /\ s.u[u].att < s.u[u].max
        /\ DepsDone(s, u)}

\* replace(unit, status = CLAIMED, ...): an attempt, a worker and a new lease.
Leased(s, u, w) ==
    [s EXCEPT !.u[u] = [s.u[u] EXCEPT !.st = "claimed", !.att = @ + 1, !.worker = w,
                                      !.epoch = @ + 1, !.exp = now + LeaseMs]]

\* _claim_unit: the store it leaves and the unit it returns, 0 for None.
Claimed(s, w) ==
    LET spent == Spent(s)
        normal == EndUnits(s, spent, "failed")
        reqFailed == {u \in spent : s.u[u].req}
        cands == Candidates(normal)
        full == Cardinality({u \in Units : Live(normal, u)}) >= MaxParallel
        u == Min(cands)
    IN  IF Elapsed THEN [s |-> ExpireDeadline(s), u |-> 0]
        ELSE IF Budget # 0 /\ s.t.usage >= Budget
        THEN [s |-> FailBudget(s), u |-> 0]
        ELSE IF s.t.status # "running" \/ s.t.cancel THEN [s |-> s, u |-> 0]
        ELSE IF reqFailed # {}
        THEN [s |-> FailTask(normal, Min(reqFailed)), u |-> 0]
        ELSE IF full \/ cands = {} THEN [s |-> normal, u |-> 0]
        ELSE [s |-> Leased(normal, u, w), u |-> u]

\* _require_unit_claim, apart from the deadline it checks first.
HoldsUnit(c, x) ==
    /\ task.status = "running"
    /\ unit[x.u].st = "claimed"
    /\ unit[x.u].worker = WorkerOf[c]
    /\ unit[x.u].epoch = x.ep
    /\ unit[x.u].exp > now

-----------------------------------------------------------------------------
(* Dispatch: find the task of the idempotency key, create it or join it.   *)

\* What was loaded is kept only as long as the code still uses it.
Goto(c, where) ==
    co' = [co EXCEPT ![c] = [at |-> where, use |-> 0,
                             saw |-> IF where = "resume" THEN @.saw ELSE "none",
                             sig |-> @.sig /\ where \notin Resting]]
Joins(c) == co' = [co EXCEPT ![c].at = "link", ![c].saw = task.status]
Twin == \E c \in Coords : co[c].at = "twin"

\* _find_reusable, find_active.  Bound: dispatches after a second task was
\* created for the key are not followed.
FindActive(c) ==
    /\ co[c].at = "new" /\ ~Twin
    /\ IF task.status \in TaskActive THEN Joins(c) ELSE Goto(c, "lookup")
    /\ UNCHANGED <<now, task, unit, bound, active>>

\* _find_reusable, find_by_idempotency_key: anything but a COMPLETED or
\* FAILED task is a scope conflict.
FindByKey(c) ==
    /\ co[c].at = "lookup"
    /\ \/ task.status = "none" /\ Goto(c, "create")
       \/ task.status \in {"completed", "failed"} /\ Joins(c)
       \/ task.status \notin {"none", "completed", "failed"} /\ Goto(c, "raised")
    /\ UNCHANGED <<now, task, unit, bound, active>>

\* compile_recipe_units: one required unit per recipe step.
RecipeUnits == [u \in Units |-> IF u \in Recipe THEN UnitFromSpec(u, Deps[u])
                                                ELSE NoUnit]

\* repository.create
Created == [t |-> [task EXCEPT !.status = "pending", !.total = Cardinality(Recipe)],
            u |-> RecipeUnits]

\* _create: the repository returns an active task of the same scope; once
\* that task ended it creates a second one under the same key.
Create(c) ==
    /\ co[c].at = "create"
    /\ \/ /\ task.status = "none"
          /\ Put(Created)
          /\ bound' = bound \cup {c}
          /\ Goto(c, "enter")
       \/ /\ task.status \in TaskActive
          /\ Joins(c)
          /\ UNCHANGED <<task, unit, bound>>
       \/ /\ task.status \in TaskTerminal
          /\ Goto(c, "twin")
          /\ UNCHANGED <<task, unit, bound>>
    /\ UNCHANGED <<now, active>>

\* _link_and_resume, the binding.
Link(c) ==
    /\ co[c].at = "link"
    /\ bound' = bound \cup {c}
    /\ Goto(c, IF \/ co[c].saw = "paused"
                  \/ co[c].saw = "failed" /\ RetryFailed > 0
               THEN "resume" ELSE "enter")
    /\ UNCHANGED <<now, task, unit, active>>

\* Mutant: a resume restarts every unit of the task.
ResumeAll(c) ==
    /\ co[c].at = "resume" /\ task.status = "paused"
    /\ Put(SetTaskStatus(EndUnits(Store, {u \in Units : unit[u].st # "absent"},
                              "pending"), "running"))
    /\ Goto(c, "enter")
    /\ UNCHANGED <<now, bound, active>>

\* repository.resume: blocked, failed and canceled units get new attempts.
Resumable == {"blocked", "failed", "canceled"}
Resumed(asked) ==
    LET targets == {u \in Units : unit[u].st \in Resumable}
        extra == IF /\ asked = 0 /\ targets # {}
                    /\ \A u \in targets : unit[u].st = "blocked"
                 THEN 1 ELSE asked
        s == MoreAttempts(EndUnits(Store, targets, "pending"), targets, extra)
    IN  [ok |-> /\ task.status \in {"paused", "failed"}
                /\ (targets # {}) <=> (extra > 0),
         s |-> [SetTaskStatus(s, "running") EXCEPT !.t.failed = 0]]

\* _link_and_resume, the call of resume; a RUNNING task is returned as it is.
Resume(c) ==
    LET r == Resumed(IF co[c].saw = "failed" THEN RetryFailed ELSE 0) IN
    /\ co[c].at = "resume"
    /\ IF task.status # "running" /\ r.ok THEN Put(r.s) ELSE UNCHANGED <<task, unit>>
    /\ Goto(c, IF task.status = "running" \/ r.ok THEN "enter" ELSE "raised")
    /\ UNCHANGED <<now, bound, active>>

-----------------------------------------------------------------------------
(* The coordinator's loop.                                                 *)

\* run, up to the loop; repository.cancel refuses a terminal task.
Enter(c) ==
    /\ co[c].at = "enter"
    /\ \/ /\ task.cancel
          /\ IF task.status \in {"completed", "failed"}
             THEN Goto(c, "raised") /\ UNCHANGED <<task, unit>>
             ELSE Goto(c, "returned") /\ Put(CancelTask(Store))
       \/ /\ ~task.cancel
          /\ \/ /\ task.status = "pending"
                /\ co' = [co EXCEPT ![c].at = "start", ![c].use = task.usage]
             \/ task.status = "running" /\ Goto(c, "loop")
             \/ task.status \notin {"pending", "running"} /\ Goto(c, "returned")
          /\ UNCHANGED <<task, unit>>
    /\ UNCHANGED <<now, bound, active>>

\* repository.start.  A PENDING record that is still PENDING and not asked
\* to cancel can only have changed its revision by recorded usage.
Start(c) ==
    /\ co[c].at = "start"
    /\ \/ Elapsed /\ Put(ExpireDeadline(Store)) /\ Goto(c, "returned")
       \/ /\ ~Elapsed /\ task.cancel
          /\ Put(CancelTask(Store)) /\ Goto(c, "returned")
       \/ /\ ~Elapsed /\ ~task.cancel
          /\ \/ /\ task.status = "pending" /\ task.usage = co[c].use
                /\ Put(SetTaskStatus(Store, "running")) /\ Goto(c, "loop")
             \/ /\ task.status = "running"
                /\ Goto(c, "loop") /\ UNCHANGED <<task, unit>>
             \/ /\ \/ task.status \notin {"pending", "running"}
                   \/ task.status = "pending" /\ task.usage # co[c].use
                /\ Goto(c, "raised") /\ UNCHANGED <<task, unit>>
    /\ UNCHANGED <<now, bound, active>>

Unfinished(c) == {x \in active[c] : x.st \in {"run", "cancel"}}

\* cancel_active, first half: every unfinished execution is canceled.
Canceling(c) ==
    active' = [active EXCEPT ![c] = {[x EXCEPT !.st = "cancel"] : x \in Unfinished(c)}]

\* The head of the loop, entered from the wait for executions too: the
\* stop signal, the reload, what to do next.  The deadline timer of the
\* ExecutionStopSignal may fire late.
Loop(c) ==
    /\ co[c].at \in {"loop", "wait"}
    /\ \/ /\ \E x \in active[c] : x.st = "error"
          /\ Goto(c, "abort") /\ Canceling(c)
       \/ /\ \A x \in active[c] : x.st # "error"
          /\ \/ co[c].sig /\ Goto(c, "stop") /\ Canceling(c)
             \/ ~co[c].sig /\ Elapsed /\ Goto(c, "expire") /\ Canceling(c)
             \/ ~co[c].sig /\ task.cancel /\ Goto(c, "stop") /\ Canceling(c)
             \/ /\ ~co[c].sig /\ ~task.cancel /\ task.status # "running"
                /\ Goto(c, "drain") /\ Canceling(c)
             \/ /\ ~co[c].sig /\ ~task.cancel /\ task.status = "running"
                /\ Goto(c, "claim")
                /\ active' = [active EXCEPT ![c] = Unfinished(c)]
    /\ UNCHANGED <<now, task, unit, bound>>

\* claim_ready_unit until the parallelism is reached or None is returned.
Claim(c) ==
    LET r == Claimed(Store, WorkerOf[c]) IN
    /\ co[c].at = "claim"
    /\ IF Cardinality(active[c]) >= MaxParallel
       THEN Goto(c, "wait") /\ UNCHANGED <<task, unit, active>>
       ELSE /\ Put(r.s)
            /\ IF r.u # 0
               THEN /\ active' = [active EXCEPT ![c] = @ \cup
                          {[u |-> r.u, ep |-> r.s.u[r.u].epoch, st |-> "run"]}]
                    /\ IF Cardinality(active[c]) + 1 < MaxParallel
                       THEN UNCHANGED co ELSE Goto(c, "wait")
               ELSE /\ Goto(c, IF active[c] = {} THEN "finalize" ELSE "wait")
                    /\ UNCHANGED active
    /\ UNCHANGED <<now, bound>>

Finalize(c) ==
    LET s == Finalized(Store) IN
    /\ co[c].at = "finalize"
    /\ Put(s)
    /\ Goto(c, IF s.t.status = "running" THEN "loop" ELSE "returned")
    /\ UNCHANGED <<now, bound, active>>

\* _stop_active after its executions ended: the reload, then cancel or pause.
Stop(c) ==
    /\ co[c].at \in {"stop", "abort"} /\ active[c] = {}
    /\ \/ /\ task.cancel /\ task.status \notin {"completed", "failed"}
          /\ Put(CancelTask(Store))
       \/ /\ ~task.cancel /\ task.status = "running"
          /\ Put(SetTaskStatus(ReleaseActive(Store), "paused"))
       \/ /\ \/ task.cancel /\ task.status \in {"completed", "failed"}
             \/ ~task.cancel /\ task.status # "running"
          /\ UNCHANGED <<task, unit>>
    /\ Goto(c, IF \/ co[c].at = "abort"
                  \/ task.cancel /\ task.status \in {"completed", "failed"}
               THEN "raised" ELSE "returned")
    /\ UNCHANGED <<now, bound, active>>

\* expire_deadline after the executions ended.
Expire(c) ==
    /\ co[c].at = "expire" /\ active[c] = {}
    /\ IF task.status \in TaskTerminal THEN UNCHANGED <<task, unit>>
                                       ELSE Put(ExpireDeadline(Store))
    /\ Goto(c, "returned")
    /\ UNCHANGED <<now, bound, active>>

\* Mutant of Drain: the coordinator polls on until the task runs again.
DrainPolls(c) ==
    /\ co[c].at = "drain" /\ active[c] = {}
    /\ Goto(c, "loop")
    /\ UNCHANGED <<now, task, unit, bound, active>>

\* The task no longer runs: the executions are awaited, then run returns.
Drain(c) ==
    /\ co[c].at = "drain" /\ active[c] = {}
    /\ Goto(c, "returned")
    /\ UNCHANGED <<now, task, unit, bound, active>>

-----------------------------------------------------------------------------
(* One unit execution: settle_claimed and its heartbeat.                   *)

\* The loop takes a finished execution out of active only when it waits; one
\* that finishes between two claims still counts.
Ends(c, x) ==
    active' = [active EXCEPT ![c] = (@ \ {x}) \cup
        {[x EXCEPT !.st = "ended"] : y \in {z \in {x} : co[c].at = "claim"}}]
Fails(c, x) == active' = [active EXCEPT ![c] = (@ \ {x}) \cup
                                               {[x EXCEPT !.st = "error"]}]

\* Every fenced write checks the deadline before the claim.
Fenced(c, x, s) ==
    IF Elapsed THEN Put(ExpireDeadline(Store))
    ELSE IF HoldsUnit(c, x) THEN Put(s) ELSE UNCHANGED <<task, unit>>

\* complete_unit
Completed(u) == RefreshTotals(EndUnits(Store, {u}, "completed"))

\* settle_claimed after the runner returned; a unit already COMPLETED answers
\* before the fence.  The settlement observer is told afterwards and may
\* raise: that error leaves the coordinator, the unit stays settled.
CompleteUnit(c, x) ==
    /\ x.st = "run"
    /\ IF unit[x.u].st = "completed" THEN UNCHANGED <<task, unit>>
       ELSE Fenced(c, x, Completed(x.u))
    /\ Ends(c, x) \/ Fails(c, x)
    /\ UNCHANGED <<now, bound, co>>

\* renew_unit_lease
Renewed(u) == [Store EXCEPT !.u[u].exp = now + LeaseMs]

\* _run_with_heartbeat: a refused renewal ends the execution.
Heartbeat(c, x) ==
    /\ x.st = "run"
    /\ Fenced(c, x, Renewed(x.u))
    /\ IF HoldsUnit(c, x) /\ ~Elapsed THEN UNCHANGED active ELSE Ends(c, x)
    /\ UNCHANGED <<now, bound, co>>

\* interrupt_unit: the attempt is given back and the task pauses.
UnitInterrupted(u) ==
    SetTaskStatus(MoreAttempts(EndUnits(Store, {u}, "pending"), {u}, 1), "paused")

\* _checkpoint_interrupted
Interrupt(c, x) ==
    /\ \/ x.st = "cancel"
       \/ x.st = "run" /\ (co[c].sig \/ Elapsed)
    /\ IF task.status # "running" THEN UNCHANGED <<task, unit>>
       ELSE Fenced(c, x, UnitInterrupted(x.u))
    /\ Ends(c, x)
    /\ UNCHANGED <<now, bound, co>>

Signals == [cat : {"canceled", "permanent", "transient", "other"},
            effect : {"none", "unknown", "committed"}, checkpoint : BOOLEAN,
            splittable : BOOLEAN, retryable : BOOLEAN]

\* decide_failure
DecideFailure(sig, remaining) ==
    CASE sig.cat = "canceled" -> "cancel"
      [] sig.cat = "permanent" -> "fail"
      [] sig.cat \in {"transient", "other"} ->
           IF sig.effect = "unknown" THEN "fail"
           ELSE IF sig.effect = "committed"
           THEN IF sig.checkpoint THEN "resume" ELSE "fail"
           ELSE IF sig.checkpoint THEN "resume"
           ELSE IF sig.splittable THEN "split"
           ELSE IF sig.retryable /\ remaining > 0 THEN "retry"
           ELSE IF sig.cat = "transient" /\ sig.retryable THEN "pause"
           ELSE "fail"

DecisionsWithAttempts == {DecideFailure(sig, 1) : sig \in Signals}
DecisionsExhausted == {DecideFailure(sig, 0) : sig \in Signals}

\* settle_unit_failure
Settled(u, d, systemic) ==
    LET st == CASE d \in {"retry", "resume"} -> "waiting_retry"
                [] d = "pause" -> "blocked"
                [] d = "cancel" -> "canceled"
                [] d = "fail" -> "failed"
        s1 == EndUnits(Store, {u}, st)
        s == IF d = "resume" /\ unit[u].att >= unit[u].max
             THEN MoreAttempts(s1, {u}, 1) ELSE s1
    IN  CASE d = "cancel" -> CancelTask(s)
          [] d = "fail" -> FailTask(s, u)
          [] d = "pause" /\ (systemic \/ ~HasRunnableWork(s)) ->
               SetTaskStatus(ReleaseActive(s), "paused")
          [] OTHER -> s

\* expand_unit refuses children whose ids exist or that depend on their parent.
\* It refuses a cycle of dependencies too: the specifications of the instances
\* have none, and the proofs do not rely on it.
SplitConflicts(u) ==
    \E v \in ChildrenOf[u] : unit[v].st # "absent" \/ u \in unit[u].deps \cup Deps[v]

\* expand_unit: the children inherit the parent's dependencies, whoever
\* waited for the parent waits for the children.
Expanded(u) ==
    LET kids == ChildrenOf[u]
        deps(v) == IF u \in unit[v].deps THEN (unit[v].deps \ {u}) \cup kids
                                         ELSE unit[v].deps
        s == EndUnits(Store, {u}, "expanded")
    IN  RefreshTotals([s EXCEPT !.u = [v \in Units |->
            CASE v \in kids -> UnitFromSpec(v, unit[u].deps \cup Deps[v])
              [] v = u -> [s.u[v] EXCEPT !.req = FALSE]
              [] OTHER -> [s.u[v] EXCEPT !.deps = deps(v)]]])

\* The error branch of _settle_claimed_unit.  A lost lease or an elapsed
\* deadline is normalized, except from expand_unit: that error leaves the
\* coordinator.  Bound: a checkpoint resume is offered before claim MaxEpoch.
FailUnit(c, x) ==
    /\ x.st = "run" /\ ~co[c].sig
    /\ IF task.status # "running"
       THEN Ends(c, x) /\ UNCHANGED <<task, unit>>
       ELSE \E systemic \in BOOLEAN,
               d \in IF unit[x.u].max > unit[x.u].att
                     THEN DecisionsWithAttempts ELSE DecisionsExhausted :
              /\ systemic => d = "pause"
              /\ d = "resume" => x.ep < MaxEpoch[x.u]
              /\ IF d = "split" /\ ChildrenOf[x.u] # {}
                 THEN /\ Fenced(c, x, IF SplitConflicts(x.u) THEN Store ELSE Expanded(x.u))
                      /\ IF Elapsed \/ ~HoldsUnit(c, x) \/ SplitConflicts(x.u)
                         THEN Fails(c, x) ELSE Ends(c, x)
                 ELSE /\ Fenced(c, x, Settled(x.u, IF d = "split" THEN "fail"
                                                   ELSE d, systemic))
                      /\ Ends(c, x)
    /\ UNCHANGED <<now, bound, co>>

-----------------------------------------------------------------------------
(* The environment.                                                        *)

\* The Run's own stop signal: canceled, or its lease was lost.  Bound: one
\* Run at a time.
Signal(c) ==
    /\ co[c].at \notin Resting /\ \A d \in Coords : ~co[d].sig
    /\ co' = [co EXCEPT ![c].sig = TRUE]
    /\ UNCHANGED <<now, task, unit, bound, active>>

RequestCancel ==
    /\ task.status \in TaskActive /\ ~task.cancel
    /\ task' = [task EXCEPT !.cancel = TRUE]
    /\ UNCHANGED <<now, unit, bound, co, active>>

\* record_usage: the host reports one more linked Run.
RecordUsage ==
    /\ task.status # "none" /\ task.usage < MaxUsage
    /\ LET s == [Store EXCEPT !.t.usage = @ + 1] IN
       Put(IF Budget # 0 /\ s.t.usage > Budget THEN FailBudget(s) ELSE s)
    /\ UNCHANGED <<now, bound, co, active>>

\* The process of a coordinator dies with its executions.  Bound: one crash.
Crash(c) ==
    /\ co[c].at \notin Resting /\ \A d \in Coords : co[d].at # "dead"
    /\ Goto(c, "dead")
    /\ active' = [active EXCEPT ![c] = {}]
    /\ UNCHANGED <<now, task, unit, bound>>

\* recover_after_restart, called when a process comes up again.
RecoverAfterRestart ==
    /\ \E c \in Coords : co[c].at = "dead"
    /\ task.status = "running" /\ \A u \in Units : ~Live(Store, u)
    /\ Put(IF task.cancel THEN CancelTask(Store)
           ELSE SetTaskStatus(ReleaseActive(Store), "paused"))
    /\ UNCHANGED <<now, bound, co, active>>

Tick ==
    /\ now < MaxTime
    /\ now' = now + 1
    /\ UNCHANGED <<task, unit, bound, co, active>>

Dispatch(c) == FindActive(c) \/ FindByKey(c) \/ Create(c) \/ Link(c) \/ Resume(c)
Coordinate(c) == \/ Enter(c) \/ Start(c) \/ Loop(c) \/ Claim(c) \/ Finalize(c)
                 \/ Stop(c) \/ Expire(c) \/ Drain(c)
Execute(c, x) == \/ CompleteUnit(c, x) \/ Heartbeat(c, x) \/ Interrupt(c, x)
                 \/ FailUnit(c, x)

LTNext ==
    \/ \E c \in Coords : Dispatch(c) \/ Coordinate(c) \/ Signal(c) \/ Crash(c)
    \/ \E c \in Coords : \E x \in active[c] : Execute(c, x)
    \/ RequestCancel \/ RecordUsage \/ RecoverAfterRestart \/ Tick

\* asyncio runs the coordinator and its executions; a runner returns, raises
\* or honours its cancellation.
LTSpec ==
    /\ LTInit /\ [][LTNext]_ltVars
    /\ \A c \in Coords :
         /\ WF_ltVars(Dispatch(c) /\ co[c].at # "new")
         /\ WF_ltVars(Coordinate(c))
         /\ WF_ltVars(\E x \in active[c] : CompleteUnit(c, x) \/ FailUnit(c, x)
                                           \/ Interrupt(c, x))
    /\ WF_ltVars(Tick)

-----------------------------------------------------------------------------
(* Properties.                                                             *)

\* finalize_if_complete: a task is COMPLETED only with every required unit
\* completed, split children included.
CompletedMeansAll ==
    task.status = "completed" => \A u \in Units : unit[u].req => unit[u].st = "completed"

\* A cancellation that was accepted is never answered by COMPLETED.
CancelBeatsCompletion == ~(task.cancel /\ task.status = "completed")

\* completed_units is exact and the record's own bound holds in every state
\* (LongTaskRecord refuses progress beyond total_units).
ProgressExact ==
    /\ task.done = Cardinality(RequiredIn(Store, "completed"))
    /\ task.done + task.failed <= task.total

\* The lease epochs leave at most one execution that may settle a unit, even
\* when two coordinators share a worker id, and it started after everything
\* the unit depends on was completed.
OneSettler ==
    \A u \in Units :
        LET holders == {h \in Coords \X UNION {active[c] : c \in Coords} :
                          /\ h[2] \in active[h[1]] /\ h[2].u = u
                          /\ h[2].st \in {"run", "cancel"} /\ HoldsUnit(h[1], h[2])}
        IN  /\ Cardinality(holders) <= 1
            /\ holders # {} => DepsDone(Store, u)

\* max_parallelism bounds the units leased at any time, over all coordinators.
ParallelBounded == Cardinality({u \in Units : Live(Store, u)}) <= MaxParallel

\* A unit is required as long as it exists and was not split, and it is claimed
\* after everything it depends on was completed.
UnitSound(s, u) ==
    /\ s.u[u].req <=> s.u[u].st \notin {"absent", "expanded"}
    /\ s.u[u].st = "absent" => s.u[u].epoch = 0
    /\ s.u[u].st \in {"claimed", "completed"} => DepsDone(s, u)

\* The totals follow the units; failed_units may lag behind.
TotalsSound(s) ==
    /\ s.t.total = Cardinality({u \in Units : s.u[u].req})
    /\ s.t.done = Cardinality(RequiredIn(s, "completed"))
    /\ s.t.failed <= Cardinality(RequiredIn(s, "failed"))

\* What the task's record and its units say about each other.
SoundStore(s) ==
    /\ \A u \in Units : UnitSound(s, u)
    /\ TotalsSound(s)
    /\ s.t.status = "none" => \A u \in Units : s.u[u].st = "absent"

\* An execution belongs to one claim of its unit and no other does.
ExecutionsSound ==
    \A c \in Coords : \A x \in active[c] :
        /\ x.ep \in 1..unit[x.u].epoch
        /\ \A d \in Coords : \A y \in active[d] :
             y.u = x.u /\ y.ep = x.ep => c = d /\ x = y

\* A completed unit is never run again: no resume, split, failure, deadline
\* or cancellation of the task touches it.
WorkKept == \A u \in Units : unit[u].st = "completed" => unit'[u] = unit[u]

\* A coordinator that stays alive returns: its task is settled, paused or
\* handed over, it does not poll for ever.
CoordinatorReturns ==
    \A c \in Coords : co[c].at = "loop" ~> co[c].at \in Resting

\* LongTaskInv: what holds of a durable task and its units, whichever
\* coordinators, expired leases, splits, cancellations and limits met it.  With
\* the last two conjuncts it is inductive.
LongTaskInv ==
    /\ LTTypeOK
    /\ CompletedMeansAll
    /\ CancelBeatsCompletion
    /\ ProgressExact
    /\ OneSettler
    /\ ParallelBounded
    /\ SoundStore(Store)
    /\ ExecutionsSound
=============================================================================
