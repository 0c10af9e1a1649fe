------------------------------ MODULE RunLease ------------------------------
(***************************************************************************)
(* Durable ownership of one Root Run.                                      *)
(*                                                                         *)
(* Several executions (tasks of an AgentRunSupervisor, possibly in several *)
(* processes) compete for one Run kept in a SQLite store.  Every store     *)
(* method is one BEGIN IMMEDIATE transaction, hence one atomic action; the *)
(* steps of an execution between two transactions interleave freely with   *)
(* the other executions, with the lease monitor, with the clock and with   *)
(* process crashes.                                                        *)
(*                                                                         *)
(*   integrations/sqlite/python/src/purra_sqlite/__init__.py  lease store  *)
(*   src/purra/execution/supervisor.py         tasks, _LeaseSession        *)
(*   src/purra/engine/orchestrator.py          resume, attach, settlement  *)
(*   src/purra/adapters/memory.py              the Run record              *)
(***************************************************************************)
EXTENDS Integers, FiniteSets

CONSTANTS
    Tasks,        \* executions: one submit or resume call each
    Owners,       \* execution owner ids (one per supervisor)
    OwnerOf,      \* the owner id each task runs under
    NoOwner,      \* lease.owner_id is None
    LeaseMs,      \* lease_duration_ms
    MaxTime,      \* bound: horizon of the clock
    MaxRound,     \* bound: checkpoints a Run may commit
    MaxAttempts,  \* runtime_limits.max_model_invocation_attempts
    PromptBind    \* assume a lease never expires between claim and re-read

ASSUME OwnerAssumption ==
    /\ OwnerOf \in [Tasks -> Owners]
    /\ NoOwner \notin Owners

ASSUME BoundAssumption ==
    /\ LeaseMs \in Nat \ {0}
    /\ MaxTime \in Nat
    /\ MaxRound \in Nat
    /\ MaxAttempts \in Nat
    /\ PromptBind \in BOOLEAN

VARIABLES
    now,      \* wall clock, shared by all processes
    run,      \* the stored Run record
    lease,    \* the stored RunExecutionLease row
    pc,       \* where each task is
    view,     \* the checkpoint a task selected or last committed (0: none)
    claim,    \* execution_claim: the epoch the task holds (0: unset)
    signal,   \* the task's cancellation event
    workers   \* history: epochs that reserved attempts since the checkpoint

leaseVars == <<now, run, lease, pc, view, claim, signal, workers>>

Terminal == {"done", "failed", "canceled"}

\* The lease is bound and the Run's stream is being driven.
Working == {"attach", "round", "call", "settled"}

Pcs == Working \cup {"idle", "get", "claim", "confirm", "abort", "close", "ended"}

RunExecutionLease ==
    [row : BOOLEAN, owner : Owners \cup {NoOwner}, expires : Nat, epoch : Nat,
     cancel : BOOLEAN]

TypeOK ==
    /\ now \in Nat
    /\ run \in [status : {"absent", "running"} \cup Terminal,
                ckpt : Nat, attempts : Nat, settled : Nat, ckptAttempts : Nat]
    /\ lease \in RunExecutionLease
    /\ pc \in [Tasks -> Pcs]
    /\ view \in [Tasks -> Nat]
    /\ claim \in [Tasks -> Nat]
    /\ signal \in [Tasks -> BOOLEAN]
    /\ workers \in SUBSET Nat

Init ==
    /\ now = 0
    /\ run = [status |-> "absent", ckpt |-> 0, attempts |-> 0,
              settled |-> 0, ckptAttempts |-> 0]
    /\ lease = [row |-> FALSE, owner |-> NoOwner, expires |-> 0,
                epoch |-> 0, cancel |-> FALSE]
    /\ pc = [t \in Tasks |-> "idle"]
    /\ view = [t \in Tasks |-> 0]
    /\ claim = [t \in Tasks |-> 0]
    /\ signal = [t \in Tasks |-> FALSE]
    /\ workers = {}

-----------------------------------------------------------------------------
(* Store predicates.                                                       *)

LiveLease == lease.owner # NoOwner /\ lease.expires > now

\* Mutant of Guard: the claim epoch is not compared with the lease attempt.
GuardNoEpoch(t) ==
    \/ ~lease.row
    \/ lease.owner = OwnerOf[t] /\ lease.expires > now

\* Mutant of Guard: an expired lease still admits its last owner.
GuardNoExpiry(t) ==
    \/ ~lease.row
    \/ lease.owner = OwnerOf[t] /\ (claim[t] = 0 \/ claim[t] = lease.epoch)

\* SqliteAgentAdapters._guard: what every mutating runs/outputs method checks
\* in its own transaction.
Guard(t) ==
    \/ ~lease.row
    \/ /\ lease.owner = OwnerOf[t]
       /\ lease.expires > now
       /\ claim[t] = 0 \/ claim[t] = lease.epoch

\* The model/tool work after the checkpoint has no durable outcome.
AttemptOutstanding == run.ckpt # 0 /\ run.attempts # run.ckptAttempts

\* Mutant of Claimable: takeover although an attempt after the checkpoint is
\* unresolved.
ClaimableWithAttempt ==
    /\ run.status = "running"
    /\ ~lease.cancel
    /\ ~LiveLease

\* _Leases.claim: the conditions under which the claim is granted.
Claimable ==
    /\ run.status = "running"
    /\ ~lease.cancel
    /\ ~LiveLease
    /\ ~AttemptOutstanding

Goto(t, where) == pc' = [pc EXCEPT ![t] = where]

-----------------------------------------------------------------------------
(* Clock, cancellation requests and crashes: the environment.              *)

Tick ==
    /\ now < MaxTime
    /\ PromptBind => \A t \in Tasks : pc[t] = "confirm" => now + 1 < lease.expires
    /\ now' = now + 1
    /\ UNCHANGED <<run, lease, pc, view, claim, signal, workers>>

\* _Leases.request_cancellation, called by a handle or by another process.
RequestCancellation ==
    /\ run.status = "running"
    /\ ~lease.cancel
    /\ lease' = [lease EXCEPT !.row = TRUE, !.cancel = TRUE]
    /\ UNCHANGED <<now, run, pc, view, claim, signal, workers>>

\* The process of supervisor o dies: no settlement, no release.
Crash(o) ==
    /\ \E t \in Tasks : OwnerOf[t] = o /\ pc[t] \notin {"idle", "ended"}
    /\ pc' = [t \in Tasks |-> IF OwnerOf[t] = o /\ pc[t] # "idle"
                                THEN "ended" ELSE pc[t]]
    /\ UNCHANGED <<now, run, lease, view, claim, signal, workers>>

-----------------------------------------------------------------------------
(* Starting an execution: AgentRunSupervisor._execute and _LeaseSession.   *)

\* A fresh submit: the stream creates the Run and yields its identity.
Begin(t) ==
    /\ pc[t] = "idle"
    /\ run.status = "absent"
    /\ run' = [run EXCEPT !.status = "running"]
    /\ Goto(t, "get")
    /\ UNCHANGED <<now, lease, view, claim, signal, workers>>

\* AgentCore.resume: selects the stored checkpoint before any lease is held.
Resume(t) ==
    /\ pc[t] = "idle"
    /\ run.status = "running"
    /\ run.ckpt # 0
    /\ view' = [view EXCEPT ![t] = run.ckpt]
    /\ Goto(t, "claim")
    /\ UNCHANGED <<now, run, lease, claim, signal, workers>>

\* First read of _LeaseSession.bind, without force_claim: an owner that already
\* holds the row does not claim it again.
BindGet(t) ==
    /\ pc[t] = "get"
    /\ Goto(t, IF lease.owner = OwnerOf[t] THEN "confirm" ELSE "claim")
    /\ UNCHANGED <<now, run, lease, view, claim, signal, workers>>

\* After a failed bind a fresh stream is closed ("abort"), a resume just ends.
Unbound(t) == IF view[t] = 0 THEN "abort" ELSE "ended"

BindClaim(t) ==
    /\ pc[t] = "claim"
    /\ Claimable
    /\ now + LeaseMs =< MaxTime
    /\ lease' = [lease EXCEPT !.row = TRUE, !.owner = OwnerOf[t],
                              !.expires = now + LeaseMs, !.epoch = @ + 1]
    /\ Goto(t, "confirm")
    /\ UNCHANGED <<now, run, view, claim, signal, workers>>

BindRefused(t) ==
    /\ pc[t] = "claim"
    /\ ~Claimable
    /\ Goto(t, Unbound(t))
    /\ UNCHANGED <<now, run, lease, view, claim, signal, workers>>

\* A storage error (busy timeout) in one of bind's transactions.
BindError(t) ==
    /\ pc[t] \in {"get", "claim", "confirm"}
    /\ Goto(t, Unbound(t))
    /\ UNCHANGED <<now, run, lease, view, claim, signal, workers>>

\* Second read of bind: the epoch adopted is the one stored NOW.
BindConfirm(t) ==
    /\ pc[t] = "confirm"
    /\ IF lease.owner = OwnerOf[t]
       THEN /\ claim' = [claim EXCEPT ![t] = lease.epoch]
            /\ Goto(t, IF view[t] = 0 THEN "round" ELSE "attach")
       ELSE /\ Goto(t, Unbound(t))
            /\ UNCHANGED claim
    /\ UNCHANGED <<now, run, lease, view, signal, workers>>

\* AgentCore._start_or_attach_run and AgentRunController.attach.
CanAttach(t) == run.status = "running" /\ run.ckpt = view[t]

Attach(t) ==
    /\ pc[t] = "attach"
    /\ CanAttach(t)
    /\ Goto(t, "round")
    /\ UNCHANGED <<now, run, lease, view, claim, signal, workers>>

\* Not canonical any more, other preset, storage error or host shutdown: the
\* controller has no snapshot, so nothing is committed.
AttachFails(t) ==
    /\ pc[t] = "attach"
    /\ Goto(t, "close")
    /\ UNCHANGED <<now, run, lease, view, claim, signal, workers>>

-----------------------------------------------------------------------------
(* Work: each step is one guarded transaction on the Run.                  *)

Reserve(t) ==
    /\ pc[t] \in {"round", "settled"}  \* "settled": retry_round
    /\ Guard(t)
    /\ run.status = "running"
    /\ run.attempts < MaxAttempts
    /\ run' = [run EXCEPT !.attempts = @ + 1]
    /\ workers' = workers \cup {claim[t]}
    /\ Goto(t, "call")
    /\ UNCHANGED <<now, lease, view, claim, signal>>

\* A failed attempt is settled with its usage as a successful one is.
SettleAttempt(t) ==
    /\ pc[t] = "call"
    /\ Guard(t)
    /\ run.status = "running"
    /\ run' = [run EXCEPT !.settled = @ + 1]
    /\ Goto(t, "settled")
    /\ UNCHANGED <<now, lease, view, claim, signal, workers>>

\* _apply_commit of a model-ready checkpoint.
CheckpointRun(t) == [run EXCEPT !.ckpt = view[t] + 1, !.ckptAttempts = run.attempts]

SaveCheckpoint(t) ==
    /\ pc[t] = "settled"
    /\ Guard(t)
    /\ run.status = "running"
    /\ run.ckpt =< view[t] + 1
    /\ view[t] < MaxRound
    /\ run' = CheckpointRun(t)
    /\ view' = [view EXCEPT ![t] = @ + 1]
    /\ workers' = {}
    /\ Goto(t, "round")
    /\ UNCHANGED <<now, lease, claim, signal>>

Finish(t) ==
    /\ pc[t] = "settled"
    /\ Guard(t)
    /\ run.status = "running"
    /\ run' = [run EXCEPT !.status = "done"]
    /\ Goto(t, "close")
    /\ UNCHANGED <<now, lease, view, claim, signal, workers>>

\* UserInputRequired after a committed checkpoint: the Run stays running.
Suspend(t) ==
    /\ pc[t] = "round"
    /\ view[t] # 0
    /\ Goto(t, "close")
    /\ UNCHANGED <<now, run, lease, view, claim, signal, workers>>

\* Any other end of the stream: _settle_execution_exception or the finally
\* block of _execute_run commits a terminal status.  It is chosen at every
\* point (tool or Provider error, deadline, cancellation, host shutdown).
Stop(t, status) ==
    /\ pc[t] \in Working \ {"attach"}
    /\ status \in {"failed", "canceled"}
    /\ Guard(t)
    /\ run.status = "running"
    /\ run' = [run EXCEPT !.status = status]
    /\ Goto(t, "close")
    /\ UNCHANGED <<now, lease, view, claim, signal, workers>>

\* Mutant of Rejected: a write the store refuses is tried again for ever.
RejectedRetries(t) ==
    /\ pc[t] \in Working \ {"attach"}
    /\ ~Guard(t) \/ run.status # "running"
    /\ UNCHANGED leaseVars

\* run_lease_lost or "terminal run cannot accept another commit".
Rejected(t) ==
    /\ pc[t] \in Working \ {"attach"}
    /\ ~Guard(t) \/ run.status # "running"
    /\ Goto(t, "close")
    /\ UNCHANGED <<now, run, lease, view, claim, signal, workers>>

\* The store fails (busy timeout) in the settlement as well, or in release: the
\* execution goes away and leaves the Run, or the lease, as it is.
StoreError(t) ==
    /\ pc[t] \in (Working \ {"attach"}) \cup {"close"}
    /\ Goto(t, IF pc[t] = "close" THEN "ended" ELSE "close")
    /\ UNCHANGED <<now, run, lease, view, claim, signal, workers>>

\* Closing the stream of a fresh Run whose bind failed: the finally block of
\* _execute_run cancels the Run if the store lets it.
AbortFresh(t) ==
    /\ pc[t] = "abort"
    /\ run' = IF Guard(t) /\ run.status = "running"
                THEN [run EXCEPT !.status = "canceled"] ELSE run
    /\ Goto(t, "ended")
    /\ UNCHANGED <<now, lease, view, claim, signal, workers>>

\* _Leases.release.
Release(t) ==
    IF lease.owner = OwnerOf[t] /\ claim[t] = lease.epoch
    THEN [lease EXCEPT !.owner = NoOwner, !.expires = 0] ELSE lease

\* _LeaseSession.close.
Close(t) ==
    /\ pc[t] = "close"
    /\ lease' = Release(t)
    /\ Goto(t, "ended")
    /\ UNCHANGED <<now, run, view, claim, signal, workers>>

-----------------------------------------------------------------------------
(* The lease monitor of a bound task.                                      *)

\* One poll of _monitor_lease.
LeaseTrouble(t) ==
    lease.cancel \/ lease.owner # OwnerOf[t] \/ claim[t] # lease.epoch

MonitorPoll(t) ==
    /\ pc[t] \in Working
    /\ ~signal[t]
    /\ LeaseTrouble(t)
    /\ signal' = [signal EXCEPT ![t] = TRUE]
    /\ UNCHANGED <<now, run, lease, pc, view, claim, workers>>

\* _Leases.renew.
Renewable(t) ==
    /\ lease.owner = OwnerOf[t]
    /\ lease.expires > now
    /\ claim[t] = lease.epoch

MonitorRenew(t) ==
    /\ pc[t] \in Working
    /\ ~signal[t]
    /\ IF Renewable(t)
       THEN /\ now + LeaseMs =< MaxTime
            /\ lease' = [lease EXCEPT !.expires = now + LeaseMs]
            /\ UNCHANGED signal
       ELSE /\ signal' = [signal EXCEPT ![t] = TRUE]
            /\ UNCHANGED lease
    /\ UNCHANGED <<now, run, pc, view, claim, workers>>

-----------------------------------------------------------------------------

BindStep(t) ==
    \/ Begin(t) \/ Resume(t) \/ BindGet(t) \/ BindClaim(t) \/ BindRefused(t)
    \/ BindError(t) \/ BindConfirm(t) \/ Attach(t) \/ AttachFails(t)

RoundStep(t) ==
    \/ Reserve(t) \/ SettleAttempt(t) \/ SaveCheckpoint(t) \/ Finish(t)
    \/ Suspend(t) \/ (\E s \in Terminal : Stop(t, s)) \/ Rejected(t)
    \/ AbortFresh(t) \/ Close(t)

WorkStep(t) == RoundStep(t) \/ StoreError(t)

MonitorStep(t) == MonitorPoll(t) \/ MonitorRenew(t)

Next ==
    \/ Tick
    \/ RequestCancellation
    \/ \E o \in Owners : Crash(o)
    \/ \E t \in Tasks : BindStep(t) \/ WorkStep(t) \/ MonitorStep(t)

Spec == Init /\ [][Next]_leaseVars

\* A task that has started keeps taking its own steps, and time passes.  Nothing
\* is assumed of new submissions, of cancellations, of crashes or of storage
\* errors: an execution that ends must end without the help of a failing store.
Fairness ==
    /\ WF_leaseVars(Tick)
    /\ \A t \in Tasks :
         /\ WF_leaseVars(pc[t] # "idle" /\ (BindStep(t) \/ RoundStep(t)))
         /\ WF_leaseVars(MonitorPoll(t))

FairSpec == Spec /\ Fairness

-----------------------------------------------------------------------------
(* Properties.                                                             *)

Executing == {"round", "call", "settled"}

\* The task could commit to the Run right now.
CanWrite(t) == pc[t] \in Executing /\ Guard(t) /\ run.status = "running"

\* A fresh submit that has created the Run and is not bound to its lease.
Starting(t) ==
    \/ pc[t] \in {"get", "abort"}
    \/ pc[t] \in {"claim", "confirm"} /\ view[t] = 0

UnstartedInv ==
    run.status = "absent" =>
        /\ run.ckpt = 0 /\ workers = {}
        /\ lease.epoch = 0 /\ lease.owner = NoOwner
        /\ \A t \in Tasks : pc[t] = "idle"

StartingInv ==
    \A t \in Tasks : Starting(t) =>
        /\ run.ckpt = 0 /\ workers = {}
        /\ \A u \in Tasks : claim[u] = 0 /\ (u # t => pc[u] = "idle")
        /\ pc[t] \in {"get", "claim"} => lease.epoch = 0 /\ lease.owner = NoOwner

ClaimInv ==
    /\ ~lease.row => lease.epoch = 0
    /\ \A t \in Tasks : claim[t] =< lease.epoch
    /\ \A t \in Tasks : pc[t] \in Working \cup {"close"} => claim[t] # 0
    /\ \A t, u \in Tasks : claim[t] = claim[u] /\ claim[t] # 0 => t = u

ConfirmInv ==
    \A t \in Tasks : pc[t] = "confirm" =>
        /\ lease.owner = OwnerOf[t] /\ lease.expires > now /\ lease.epoch # 0
        /\ \A u \in Tasks : claim[u] # lease.epoch
        /\ \A u \in Tasks : u # t => pc[u] # "confirm"

ViewInv ==
    \A t \in Tasks :
        /\ view[t] # 0 => run.ckpt # 0
        /\ pc[t] \in Executing /\ claim[t] = lease.epoch => view[t] = run.ckpt

WorkerInv ==
    /\ run.ckptAttempts =< run.attempts
    /\ workers # {} /\ run.ckpt # 0 => run.ckptAttempts < run.attempts
    /\ workers \subseteq {lease.epoch}

\* LeaseInv: the inductive reason for the properties below.  An epoch belongs to
\* one execution, a lease just claimed is still that execution's own when it is
\* read back, and everything that advances the Run carries the current epoch.
LeaseInv ==
    /\ TypeOK
    /\ UnstartedInv
    /\ StartingInv
    /\ ClaimInv
    /\ ConfirmInv
    /\ ViewInv
    /\ WorkerInv

\* OneWriter: at every moment at most one execution's transactions pass the
\* store's guard, even when a supervisor resumes a Run it (or a stalled task of
\* its own) already claimed.
OneWriter == \A t, u \in Tasks : CanWrite(t) /\ CanWrite(u) => t = u

\* FreshView: an execution that can still write works from the checkpoint that
\* is stored; the checkpoint was selected before the lease was claimed, and
\* others may have advanced the Run in between.
FreshView == \A t \in Tasks : CanWrite(t) => view[t] = run.ckpt

\* OneWorkerPerRound: the model attempts made since the last checkpoint all
\* belong to one execution; an interrupted round is never redone by a takeover.
OneWorkerPerRound == \A e, f \in workers : e = f

\* NoRevival: a lapsed lease becomes live again only as a new claim with a new
\* epoch, never through a late heartbeat of its last owner.
NoRevival ==
    [][LiveLease' /\ ~LiveLease => lease'.epoch > lease.epoch]_leaseVars

\* OnlyHolderFrees: a live lease is given up only by the execution that holds
\* its epoch; the clean-up of a replaced execution leaves it alone.
OnlyHolderFrees ==
    [][LiveLease /\ lease'.owner = NoOwner =>
         \E t \in Tasks : /\ claim[t] = lease.epoch
                          /\ pc[t] = "close" /\ pc'[t] = "ended"]_leaseVars

\* ExclusiveExecution: the leased, checkpointed Run implements ExclusiveRun: one
\* executor at a time, one committed round per step of its executor, one outcome.
Holders == {t \in Tasks : /\ pc[t] \in Working \cup {"close"}
                          /\ claim[t] = lease.epoch
                          /\ lease.owner = OwnerOf[t]
                          /\ lease.expires > now}

Outcome == IF run.status \in Terminal THEN run.status ELSE "open"

Exclusive == INSTANCE ExclusiveRun
             WITH Executors <- Tasks, holders <- Holders,
                  rounds <- run.ckpt, outcome <- Outcome

ExclusiveExecution == Exclusive!Spec

\* ExecutionsEnd: every started execution ends, also one that lost its lease, was
\* refused it or found its checkpoint replaced.
ExecutionsEnd == \A t \in Tasks : pc[t] # "idle" ~> pc[t] = "ended"
=============================================================================
