----------------------------- MODULE ToolExecutor -----------------------------
(***************************************************************************)
(* CoreToolExecutor: one batch of tool calls of the model.  The batch is   *)
(* admitted or refused as a whole; then its calls run one after another,   *)
(* or, when all of them are reads that may run together, in workers that   *)
(* share one dispatch gate.  Around a call: its operation record, the      *)
(* host's scope validator, the live approval with its four ways to be      *)
(* settled, the handler, its receipt and its completion event.  The stop   *)
(* signal, the deadline, the cancellation of the surrounding task and a    *)
(* sink that cannot write come in between any two awaits.                  *)
(***************************************************************************)
EXTENDS Integers, Sequences, FiniteSets, SequencesExt

CONSTANTS
    MaxBatch,        \* ToolExecutionLimits.max_calls_per_batch
    MaxConcurrency,  \* ToolExecutionLimits.max_concurrency
    LongBatches,     \* bound: the batches tried besides those of one or two calls
    SinkMayFail      \* whether the output can refuse a completion event

VARIABLES
    batch,      \* the calls the model asked for
    batchPhase,      \* admit, serial, parallel, over or raised
    halted,     \* the cause of the stop signal, or "no"
    gate,       \* whether new calls may be dispatched (scheduling)
    nextCall,   \* the next call to take
    at,         \* per worker: its stage and its call
    ran,        \* per call: what became of its handler
    operation,  \* per call: its operation record
    approval,   \* the future of the live approval
    callReceipts,   \* per call: the code of its result, "none" while there is none
    completed,  \* per call: how many tool.call.completed events it has
    reply       \* the ToolBatchResult

execVars == <<batch, batchPhase, halted, gate, nextCall, at, ran, operation, approval, callReceipts, completed, reply>>

Reads == {"read", "slow"}               \* mode READ; only "read" is concurrency_safe
Registered == Reads \cup {"write", "confirm", "append"}
Tools == Registered \cup {"ghost", "foreign"}   \* not registered; not in the scope
Arguments == {"plain", "quoted", "broken", "huge", "unfit"}
CallRecords == [id : Nat, tool : Tools, args : Arguments]

\* What the model may send: everything in short batches, long ones well formed.
Batches ==
    {<<c>> : c \in [id : {1}, tool : Tools, args : Arguments]}
    \cup {<<c, d>> : c \in [id : {1}, tool : Tools, args : Arguments],
                     d \in [id : {1, 2}, tool : Tools, args : {"plain", "quoted", "unfit"}]}
    \cup LongBatches

ASSUME ExecutorAssumption ==
    /\ MaxBatch \in Nat \ {0}
    /\ MaxConcurrency \in Nat \ {0}
    /\ SinkMayFail \in BOOLEAN
    /\ LongBatches \subseteq Seq(CallRecords)

Count == Len(batch)
Indices == 1..Count
ExecWorkers == 1..MaxConcurrency
Tool(i) == batch[i].tool
Halted == halted # "no"

NoReply == [outcome |-> "none", effect |-> "unknown"]
IdleWorker == [stage |-> "idle", call |-> 0]

ExecInit ==
    /\ batch \in Batches
    /\ batchPhase = "admit"
    /\ halted = "no"
    /\ gate = TRUE
    /\ nextCall = 1
    /\ at = [w \in ExecWorkers |-> IdleWorker]
    /\ ran = [i \in Indices |-> "none"]
    /\ operation = [i \in Indices |-> "none"]
    /\ approval = "none"
    /\ callReceipts = [i \in Indices |-> "none"]
    /\ completed = [i \in Indices |-> 0]
    /\ reply = NoReply

----------------------------------------------------------------------------
(* Admission of the whole batch, before anything happens. *)

\* preflight_tool_calls: size, ids, then every call's raw arguments.
PreflightFails ==
    \/ Count > MaxBatch
    \/ \E i, j \in Indices : i # j /\ batch[i].id = batch[j].id
    \/ \E i \in Indices : batch[i].args \in {"broken", "huge"}

Unregistered == \E i \in Indices : Tool(i) = "ghost"
OutsideScope == \E i \in Indices : Tool(i) = "foreign"

\* _is_recoverable_artifact_batch: every call is for the one tool that proposes
\* batches, is linearizable and is made durable by the host.
ArtifactBatch == \A i \in Indices : Tool(i) = "append"

MixesWrites ==
    /\ Count > 1
    /\ \E i \in Indices : Tool(i) \notin Reads
    /\ ~ArtifactBatch

\* normalize_tool_arguments_to_schema decodes a structure sent as a string; what
\* still does not fit fails validate_tool_arguments_schema.
Normalized == [i \in Indices |-> IF batch[i].args = "quoted" THEN [batch[i] EXCEPT !.args = "plain"] ELSE batch[i]]
Unfit == \E i \in Indices : Normalized[i].args # "plain"

Refusal ==
    CASE PreflightFails -> "failed"
      [] ~PreflightFails /\ Unregistered -> "rejected"
      [] ~PreflightFails /\ ~Unregistered /\ OutsideScope -> "rejected"
      [] OTHER -> IF MixesWrites \/ Unfit THEN "failed" ELSE "none"

MayOverlap == MaxConcurrency > 1 /\ Count > 1 /\ \A i \in Indices : Tool(i) = "read"

\* A refused batch answers every call; a parallel one passes the scope validator
\* for all its calls first.
AdmitBatch ==
    /\ batchPhase = "admit"
    /\ \/ /\ Halted
          /\ batchPhase' = "over" /\ reply' = [outcome |-> "canceled", effect |-> "unknown"]
          /\ UNCHANGED <<batch, callReceipts>>
       \/ /\ ~Halted /\ Refusal # "none"
          /\ batchPhase' = "over" /\ reply' = [outcome |-> Refusal, effect |-> "not_started"]
          /\ callReceipts' = [i \in Indices |-> "refused"] /\ batch' = batch
       \/ /\ ~Halted /\ Refusal = "none"
          /\ batch' = Normalized
          /\ \/ /\ ~MayOverlap /\ batchPhase' = "serial" /\ UNCHANGED <<callReceipts, reply>>
             \/ /\ MayOverlap /\ batchPhase' = "parallel" /\ UNCHANGED <<callReceipts, reply>>
             \/ /\ MayOverlap /\ batchPhase' = "over"
                /\ \E o \in {"rejected", "failed"} : reply' = [outcome |-> o, effect |-> "not_started"]
                /\ callReceipts' = [i \in Indices |-> "refused"]
    /\ UNCHANGED <<halted, gate, nextCall, at, ran, operation, approval, completed>>

----------------------------------------------------------------------------
(* One call: its receipt, its event and its operation record. *)

Lanes == IF batchPhase = "serial" THEN {1} ELSE {w \in ExecWorkers : w <= Count}
OpenCall(i) == operation[i] = "open"

\* _failed_call_batch with _append_unexecuted_results: the call's own receipt and,
\* unless the batch was stopped, one for every call after it.
Answered(i, code, rest) ==
    [j \in Indices |-> IF j = i THEN code
                       ELSE IF j > i /\ rest THEN "aborted" ELSE callReceipts[j]]
Told(i, rest) ==
    [j \in Indices |-> IF j = i \/ (j > i /\ rest) THEN completed[j] + 1 ELSE completed[j]]

\* Mutant: a failed call leaves its operation open.
FailsOpen(w, outcome, effect, rest) ==
    LET i == at[w].call  serial == batchPhase = "serial" IN
    /\ callReceipts' = Answered(i, outcome, rest /\ serial)
    /\ completed' = Told(i, rest /\ serial)
    /\ gate' = FALSE
    /\ at' = [at EXCEPT ![w] = IF serial THEN IdleWorker ELSE [stage |-> "done", call |-> i]]
    /\ batchPhase' = IF serial THEN "over" ELSE batchPhase
    /\ reply' = IF serial THEN [outcome |-> outcome, effect |-> effect] ELSE reply
    /\ operation' = operation

\* A call that ends without success: a serial batch ends with it, a parallel one
\* closes its gate.
CallFails(w, outcome, effect, rest) ==
    LET i == at[w].call  serial == batchPhase = "serial" IN
    /\ callReceipts' = Answered(i, outcome, rest /\ serial)
    /\ completed' = Told(i, rest /\ serial)
    /\ operation' = [operation EXCEPT ![i] = IF OpenCall(i) THEN outcome ELSE @]
    /\ gate' = FALSE
    /\ at' = [at EXCEPT ![w] = IF serial THEN IdleWorker ELSE [stage |-> "done", call |-> i]]
    /\ batchPhase' = IF serial THEN "over" ELSE batchPhase
    /\ reply' = IF serial THEN [outcome |-> outcome, effect |-> effect] ELSE reply

\* An exception leaves the executor: the other workers are cancelled, which
\* settles the operation of a handler that ran and leaves the others open.
Raises(i) ==
    /\ batchPhase' = "raised"
    /\ gate' = FALSE
    /\ at' = [w \in ExecWorkers |-> IdleWorker]
    /\ operation' = [j \in Indices |->
          IF OpenCall(j) /\ j # i /\ \E w \in ExecWorkers : at[w] = [stage |-> "run", call |-> j]
          THEN "canceled" ELSE operation[j]]

----------------------------------------------------------------------------
(* The stages of a call. *)

\* A worker takes the next call while the gate is open; the serial loop goes on
\* with its next one.
Take(w) ==
    /\ batchPhase \in {"serial", "parallel"} /\ w \in Lanes /\ at[w].stage = "idle"
    /\ nextCall <= Count
    /\ batchPhase = "parallel" => gate /\ ~Halted
    /\ nextCall' = nextCall + 1
    /\ at' = [at EXCEPT ![w] = [stage |-> "gate", call |-> nextCall]]
    /\ UNCHANGED <<batch, batchPhase, halted, gate, ran, operation, approval, callReceipts, completed, reply>>

\* The first gate, then _start_tool_operation.
StartCall(w) ==
    /\ at[w].stage = "gate"
    /\ \/ /\ Halted /\ CallFails(w, "canceled", "unknown", FALSE)
       \/ /\ ~Halted /\ ~gate /\ CallFails(w, "failed", "not_started", FALSE)
       \/ /\ ~Halted /\ gate
          /\ operation' = [operation EXCEPT ![at[w].call] = "open"]
          /\ at' = [at EXCEPT ![w].stage = "scope"]
          /\ UNCHANGED <<batchPhase, gate, callReceipts, completed, reply>>
    /\ UNCHANGED <<batch, halted, nextCall, ran, approval>>

\* What the scope validator can answer: yes, no, an error of its own; a stop of
\* the Run is a cancellation, a deadline one more error.
ScopeAnswers ==
    {"allowed", "rejected", "failed"}
    \cup (IF halted = "canceled" THEN {"canceled"} ELSE {})
    \cup (IF batchPhase = "parallel" THEN {"control"} ELSE {})

\* Mutant: the second gate is not checked.
ScopeOnce(w) ==
    /\ at[w].stage = "scope" /\ Tool(at[w].call) # "confirm"
    /\ at' = [at EXCEPT ![w].stage = "run"]
    /\ ran' = [ran EXCEPT ![at[w].call] = "running"]
    /\ UNCHANGED <<batch, batchPhase, halted, gate, nextCall, operation, approval, callReceipts, completed, reply>>

\* The validator's answer and the second gate; nothing is awaited between that
\* gate and the start of a handler that needs no approval.
Scope(w) ==
    /\ at[w].stage = "scope"
    /\ LET i == at[w].call IN
       \E a \in ScopeAnswers :
         \/ /\ a \in {"rejected", "failed", "canceled"}
            /\ CallFails(w, a, "not_started", TRUE) /\ UNCHANGED <<ran, approval>>
         \/ /\ a = "control" /\ Raises(i)
            /\ UNCHANGED <<ran, approval, callReceipts, completed, reply>>
         \/ /\ a = "allowed" /\ (Halted \/ ~gate)
            /\ CallFails(w, IF Halted THEN "canceled" ELSE "failed", "not_started", FALSE)
            /\ UNCHANGED <<ran, approval>>
         \/ /\ a = "allowed" /\ ~Halted /\ gate
            /\ IF Tool(i) = "confirm"
               THEN at' = [at EXCEPT ![w].stage = "approve"] /\ approval' = "pending" /\ ran' = ran
               ELSE at' = [at EXCEPT ![w].stage = "run"] /\ approval' = approval
                    /\ ran' = [ran EXCEPT ![i] = "running"]
            /\ UNCHANGED <<batchPhase, gate, operation, callReceipts, completed, reply>>
    /\ UNCHANGED <<batch, halted, nextCall>>

ApprovalDecisions == {"approved", "declined", "canceled", "timed_out", "unavailable"}

\* InMemoryApprovalGateway: resolve, the timer, the signal's waiter, cancel_pending
\* and close all settle one future, and the first of them counts.
SettleApproval(decision) ==
    /\ approval = "pending"
    /\ approval' = decision
    /\ UNCHANGED <<batch, batchPhase, halted, gate, nextCall, at, ran, operation, callReceipts, completed, reply>>

\* The host's answer, the timer and the signal's waiter of request, cancel_pending
\* and close; an output that refuses the request leaves it unavailable.
Resolve(decision) == decision \in {"approved", "declined"} /\ SettleApproval(decision)
ExpireApproval == SettleApproval("timed_out")
CancelPending == SettleApproval("canceled")
Unavailable == SettleApproval("unavailable")

\* The answer of the gateway: only an approval goes on; a decline ends the call
\* and the others end the batch.
Approved(w) ==
    /\ at[w].stage = "approve" /\ approval \notin {"none", "pending"}
    /\ \/ /\ approval = "approved"
          /\ at' = [at EXCEPT ![w].stage = "rescope"]
          /\ UNCHANGED <<batchPhase, gate, operation, callReceipts, completed, reply>>
       \/ /\ approval # "approved"
          /\ CallFails(w, IF approval \in {"timed_out", "unavailable"} THEN "failed" ELSE approval,
                   IF approval = "declined" THEN "unknown" ELSE "not_started", TRUE)
    /\ UNCHANGED <<batch, halted, nextCall, ran, approval>>

\* The scope is validated again after the approval, and the stop checked again.
Rescope(w) ==
    /\ at[w].stage = "rescope"
    /\ LET i == at[w].call IN
       \E a \in ScopeAnswers \cup {"control"} :
         \/ /\ a \in {"rejected", "failed", "canceled"}
            /\ CallFails(w, a, "not_started", TRUE) /\ ran' = ran
         \/ /\ a = "control" /\ Raises(i) /\ UNCHANGED <<ran, callReceipts, completed, reply>>
         \/ /\ a = "allowed" /\ Halted /\ CallFails(w, "canceled", "unknown", FALSE) /\ ran' = ran
         \/ /\ a = "allowed" /\ ~Halted
            /\ at' = [at EXCEPT ![w].stage = "run"]
            /\ ran' = [ran EXCEPT ![i] = "running"]
            /\ UNCHANGED <<batchPhase, gate, operation, callReceipts, completed, reply>>
    /\ UNCHANGED <<batch, halted, nextCall, approval>>

\* The handler's effect takes place somewhere in its run.
TakesEffect(i) ==
    /\ ran[i] = "running" /\ Tool(i) \notin Reads /\ at[1] = [stage |-> "run", call |-> i]
    /\ ran' = [ran EXCEPT ![i] = "effected"]
    /\ UNCHANGED <<batch, batchPhase, halted, gate, nextCall, at, operation, approval, callReceipts, completed, reply>>

\* The effect state of a batch whose handler returned an error: nothing for a
\* read, committed once an earlier call has ended, else what the handler says.
EffectAfterError(i, said) ==
    CASE Tool(i) \in Reads -> "not_started"
      [] Tool(i) \notin Reads /\ i > 1 -> "committed"
      [] OTHER -> said

\* A handler that raises, or returns something else, may have changed anything.
EffectAfterRaise(i) == IF Tool(i) \in Reads THEN "not_started" ELSE "unknown"

Says(i) == {"unknown", IF ran[i] = "effected" THEN "committed" ELSE "not_started"}

\* The handler returned: success ends the call, and the last success ends the
\* batch; an error, an oversized result or an exception ends the batch.
HandlerSucceeds(w) ==
    /\ at[w].stage = "run"
    /\ LET i == at[w].call  last == batchPhase = "serial" /\ i = Count IN
       \E o \in {"completed", "progressed"} :
         /\ callReceipts' = [callReceipts EXCEPT ![i] = o]
         /\ completed' = [completed EXCEPT ![i] = @ + 1]
         /\ operation' = [operation EXCEPT ![i] = IF @ = "open" THEN "succeeded" ELSE @]
         /\ ran' = [ran EXCEPT ![i] = IF @ = "running" THEN "returned" ELSE @]
         /\ at' = [at EXCEPT ![w] = IdleWorker]
         /\ batchPhase' = IF last THEN "over" ELSE batchPhase
         /\ reply' = IF last THEN [outcome |-> o, effect |-> "unknown"] ELSE reply
    /\ UNCHANGED <<batch, halted, gate, nextCall, approval>>

HandlerFails(w) ==
    /\ at[w].stage = "run"
    /\ LET i == at[w].call IN
         \/ \E said \in Says(i) : CallFails(w, "failed", EffectAfterError(i, said), TRUE)
         \/ CallFails(w, "failed", EffectAfterRaise(i), TRUE)
    /\ UNCHANGED <<batch, halted, nextCall, ran, approval>>

\* A control failure of a parallel call - a lost lease, an output that cannot be
\* written - goes up; a serial one is a failure like any other.
HandlerControl(w) ==
    /\ at[w].stage = "run" /\ batchPhase = "parallel"
    /\ Raises(at[w].call)
    /\ UNCHANGED <<batch, halted, nextCall, ran, approval, callReceipts, completed, reply>>

\* await_with_cancellation: the stop cancels the handler and waits for it; a
\* linearizable one that has committed returns its receipt instead.
HandlerStopped(w) ==
    /\ at[w].stage = "run" /\ Halted
    /\ LET i == at[w].call IN
         /\ Tool(i) = "append" => ran[i] = "running"
         /\ IF halted = "canceled" THEN CallFails(w, "canceled", "unknown", FALSE)
            ELSE CallFails(w, "failed", EffectAfterRaise(i), TRUE)
    /\ UNCHANGED <<batch, halted, nextCall, ran, approval>>

\* The completion event cannot be written: the exception leaves the executor
\* with the operation of that call still open.
SinkFails(w) ==
    /\ SinkMayFail /\ at[w].stage = "run"
    /\ Raises(at[w].call)
    /\ UNCHANGED <<batch, halted, nextCall, ran, approval, callReceipts, completed, reply>>

\* _execute_parallel after its workers: what was never dispatched is answered
\* too, and the worst outcome is the batch's.
Rank == [completed |-> 0, progressed |-> 1, declined |-> 2, rejected |-> 3, failed |-> 4, canceled |-> 5]
EndsBatch(o) == o \notin {"completed", "progressed"}

\* aggregate_outcomes of the calls that ended, and of the stop: the worst ending
\* counts, without one the last call decides.
Aggregate(done) ==
    LET codes == {callReceipts[i] : i \in done} \cup (IF Halted THEN {"canceled"} ELSE {})
        bad == {o \in codes : EndsBatch(o)}
        last == CHOOSE i \in done : \A j \in done : j =< i
    IN  IF codes = {} THEN "completed"
        ELSE IF bad = {} THEN callReceipts[last]
        ELSE CHOOSE o \in bad : \A p \in bad : Rank[p] =< Rank[o]

Join ==
    /\ batchPhase = "parallel"
    /\ \A w \in Lanes : at[w].stage \in {"idle", "done"}
    /\ nextCall > Count \/ ~gate \/ Halted
    /\ reply' = [outcome |-> Aggregate({i \in Indices : callReceipts[i] # "none"}),
                 effect |-> "not_started"]
    /\ callReceipts' = [i \in Indices |-> IF callReceipts[i] = "none" THEN "aborted" ELSE callReceipts[i]]
    /\ completed' = [i \in Indices |-> IF callReceipts[i] = "none" THEN completed[i] + 1 ELSE completed[i]]
    /\ batchPhase' = "over"
    /\ UNCHANGED <<batch, halted, gate, nextCall, at, ran, operation, approval>>

----------------------------------------------------------------------------
(* What happens around the batch. *)

\* ExecutionStopSignal.set by the host or by the deadline's timer.
HaltRun(why) ==
    /\ batchPhase \in {"admit", "serial", "parallel"} /\ ~Halted
    /\ halted' = why
    /\ UNCHANGED <<batch, batchPhase, gate, nextCall, at, ran, operation, approval, callReceipts, completed, reply>>

\* The task around the batch is cancelled; a linearizable handler that has
\* committed answers with its receipt and the batch goes on.
Abandon ==
    /\ batchPhase \in {"serial", "parallel"}
    /\ \A i \in Indices : Tool(i) = "append" /\ at[1] = [stage |-> "run", call |-> i] => ran[i] = "running"
    /\ Raises(0)
    /\ approval' = IF approval = "pending" THEN "canceled" ELSE approval
    /\ UNCHANGED <<batch, halted, nextCall, ran, callReceipts, completed, reply>>

\* release_terminal_run: the Run that the exception ended drops the operations
\* that are still open.
ReleaseOperations ==
    /\ batchPhase = "raised" /\ \E i \in Indices : OpenCall(i)
    /\ operation' = [i \in Indices |-> IF OpenCall(i) THEN "released" ELSE operation[i]]
    /\ UNCHANGED <<batch, batchPhase, halted, gate, nextCall, at, ran, approval, callReceipts, completed, reply>>

ExecutorStep ==
    \/ AdmitBatch \/ Join \/ ReleaseOperations
    \/ \E w \in ExecWorkers : Take(w) \/ StartCall(w) \/ Scope(w) \/ Approved(w) \/ Rescope(w) \/ HandlerStopped(w)

Handlers ==
    \/ \E w \in ExecWorkers : HandlerSucceeds(w) \/ HandlerFails(w) \/ HandlerControl(w) \/ SinkFails(w)
    \/ \E i \in Indices : TakesEffect(i)

Around ==
    \/ \E why \in {"canceled", "deadline"} : HaltRun(why)
    \/ (\E d \in ApprovalDecisions : Resolve(d)) \/ ExpireApproval \/ CancelPending \/ Unavailable
    \/ Abandon

ExecNext == ExecutorStep \/ Handlers \/ Around

\* A linearizable handler that has committed returns its receipt.
CommittedReturns(w) ==
    /\ at[w].stage = "run" /\ Tool(at[w].call) = "append" /\ ran[at[w].call] = "effected"
    /\ Halted /\ HandlerSucceeds(w)

\* The event loop runs what can run, the approval's timer and the signal's
\* waiter included; a handler need not return, but once the batch is stopped it
\* honours its cancellation, a linearizable one with the receipt it committed.
ExecSpec ==
    /\ ExecInit /\ [][ExecNext]_execVars
    /\ WF_execVars(ExecutorStep)
    /\ WF_execVars(ExpireApproval)
    /\ WF_execVars(\E w \in ExecWorkers : CommittedReturns(w))

----------------------------------------------------------------------------
(* Properties. *)

Codes == {"none", "refused", "aborted", "completed", "progressed", "declined", "rejected", "failed", "canceled"}

Busy == {"gate", "scope", "approve", "rescope", "run"}
Ended == {"completed", "progressed"}

\* ExecTypeOK: the executor's locals, the receipts and the reply of a batch.
ExecTypeOK ==
    /\ batch \in Seq(CallRecords)
    /\ batchPhase \in {"admit", "serial", "parallel", "over", "raised"}
    /\ halted \in {"no", "canceled", "deadline"} /\ gate \in BOOLEAN
    /\ nextCall \in 1..(Count + 1)
    /\ at \in [ExecWorkers -> [stage : Busy \cup {"idle", "done"}, call : 0..Count]]
    /\ ran \in [Indices -> {"none", "running", "effected", "returned"}]
    /\ operation \in [Indices -> {"none", "open", "succeeded", "released"} \cup Codes]
    /\ callReceipts \in [Indices -> Codes]
    /\ completed \in [Indices -> 0..1]
    /\ approval \in ApprovalDecisions \cup {"none", "pending"}
    /\ reply \in [outcome : Codes, effect : {"unknown", "not_started", "committed"}]

AtWork(w) == at[w].stage \in Busy
Dispatching == batchPhase \in {"serial", "parallel"}

\* What a worker has done for its call, and that nobody else is at it.
WorkerSound(w) ==
    LET i == at[w].call IN
    AtWork(w) =>
        /\ Dispatching /\ w \in Lanes /\ i \in 1..(nextCall - 1)
        /\ callReceipts[i] = "none" /\ completed[i] = 0
        /\ operation[i] = IF at[w].stage = "gate" THEN "none" ELSE "open"
        /\ IF at[w].stage = "run" THEN ran[i] \in {"running", "effected"} ELSE ran[i] = "none"
        /\ batchPhase = "serial" => i = nextCall - 1
        /\ at[w].stage \in {"approve", "rescope"} => Tool(i) = "confirm"
        /\ at[w].stage = "approve" => approval # "none"
        /\ at[w].stage = "rescope" => approval = "approved"
        /\ \A v \in ExecWorkers \ {w} : AtWork(v) => at[v].call # i

\* What is recorded of a call.
CallSound(i) ==
    /\ Dispatching \/ batchPhase = "admit" =>
          /\ i >= nextCall => callReceipts[i] = "none" /\ operation[i] = "none" /\ ran[i] = "none"
          /\ callReceipts[i] = "none" <=> completed[i] = 0
          /\ callReceipts[i] \notin {"refused", "aborted"}
          /\ gate => callReceipts[i] \in Ended \cup {"none"}
    /\ Dispatching /\ ran[i] = "effected" =>
          callReceipts[i] \in Ended \/ \E w \in ExecWorkers : at[w] = [stage |-> "run", call |-> i]
    /\ ran[i] = "effected" => Tool(i) \notin Reads
    /\ OpenCall(i) => batchPhase = "raised" \/ \E w \in ExecWorkers : AtWork(w) /\ at[w].call = i
    /\ batchPhase = "serial" /\ i < nextCall =>
          callReceipts[i] \in Ended \/ (AtWork(1) /\ at[1].call = i)

\* The batch as a whole: the serial loop ends with its first failure, a tool that
\* needs an approval is alone, and only reads overlap.
PhaseSound ==
    /\ batchPhase = "admit" => nextCall = 1 /\ gate /\ approval = "none"
    /\ batchPhase = "serial" => gate
    /\ batchPhase = "parallel" => \A i \in Indices : Tool(i) = "read"
    /\ Dispatching =>
          /\ Count <= MaxBatch
          /\ \A i \in Indices : Tool(i) \in Registered /\ batch[i].args = "plain"
          /\ \A i, j \in Indices : i # j =>
                /\ batch[i].id # batch[j].id
                /\ Tool(i) \notin Reads => Tool(i) = "append" /\ Tool(j) = "append"
    /\ approval # "none" => nextCall > Count /\ \A w \in ExecWorkers : at[w].stage \notin {"gate", "scope"}

\* EveryCallAnswered: a batch that is not cancelled returns one result for every
\* call the model announced, and every call that was admitted has its completion
\* event exactly when it has its result (_append_unexecuted_results, "Provider
\* protocols require one tool result for every announced call").
EveryCallAnswered ==
    /\ batchPhase = "over" /\ reply.outcome # "canceled" => \A i \in Indices : callReceipts[i] # "none"
    /\ \A i \in Indices : callReceipts[i] \notin {"none", "refused"} => completed[i] = 1

\* AdmittedIsSafe: a handler runs only in a batch with distinct ids, registered
\* and permitted tools and fitting arguments, and a tool that writes shares its
\* batch only with calls of the recoverable artifact tool (execute_batch).
AdmittedIsSafe ==
    (\E i \in Indices : ran[i] # "none") =>
        /\ Count <= MaxBatch
        /\ \A i \in Indices : Tool(i) \in Registered /\ batch[i].args = "plain"
        /\ \A i, j \in Indices : i # j =>
              /\ batch[i].id # batch[j].id
              /\ Tool(i) \notin Reads => Tool(i) = "append" /\ Tool(j) = "append"

\* NoStartAfterFailure: once a call of the batch has failed, was declined or was
\* cancelled, no other handler of it begins, also not one whose scope was being
\* validated meanwhile (the gate of _execute_parallel, the return of the loop).
NoStartAfterFailure ==
    \A i \in Indices : ran[i] = "none" /\ ran'[i] = "running" =>
       /\ \A j \in Indices : callReceipts[j] \in Ended \cup {"none"}
       /\ ~Halted

\* EffectTold: a batch reported as not started has not changed anything by the
\* call it ended with, and a call whose handler took effect and which was not
\* completed is never reported as not started (failure_effect_state).
EffectTold ==
    batchPhase = "over" /\ reply.effect = "not_started" =>
        \A i \in Indices : ran[i] = "effected" => callReceipts[i] \in Ended

\* OperationsSettled: a batch that returns leaves no operation open, and none is
\* settled for a call that never ran or was never answered.
OperationsSettled ==
    /\ batchPhase = "over" => \A i \in Indices : ~OpenCall(i)
    /\ \A i \in Indices : operation[i] = "succeeded" <=> callReceipts[i] \in Ended

\* DecisionStands: the first decision on an approval counts, and a handler that
\* needs one runs only after it was approved (InMemoryApprovalGateway._settle).
DecisionStands ==
    /\ approval \in ApprovalDecisions => approval' = approval
    /\ \A i \in Indices : Tool(i) = "confirm" /\ ran[i] = "none" /\ ran'[i] # "none" => approval = "approved"

\* StopEndsBatch: a batch whose Run is asked to stop comes to an end, as far as
\* its handlers honour their cancellation.
StopEndsBatch == Halted ~> batchPhase \in {"over", "raised"}

\* BatchInv: every announced call of a batch is answered once and its operation
\* settled, only safe calls overlap, and an effect is never reported away.  With
\* what the workers and the records say between two awaits it is inductive.
BatchInv ==
    /\ ExecTypeOK
    /\ PhaseSound
    /\ \A w \in ExecWorkers : WorkerSound(w)
    /\ \A i \in Indices : CallSound(i)
    /\ EveryCallAnswered
    /\ AdmittedIsSafe
    /\ EffectTold
    /\ OperationsSettled

\* BatchSteps: no call starts after a failure of the batch, and the first decision
\* on an approval stands.
BatchSteps == [][NoStartAfterFailure /\ DecisionStands]_execVars
===============================================================================
