---------------------------- MODULE ToolDispatch ----------------------------
(***************************************************************************)
(* One approved write of a durable Run: the approval record, the durable   *)
(* tool claim, the receipt and the external effect, on top of the leased   *)
(* Run of RunLease.                                                        *)
(*                                                                         *)
(* The model's answer may hold the gated call.  The runtime then commits a *)
(* tool-ready checkpoint with a pending approval and suspends; a later     *)
(* execution resumes at the call, re-checks the approval, claims the call  *)
(* durably, runs the handler OUTSIDE any transaction and records the       *)
(* receipt.  Any of these may be separated by a crash, a lost lease, a     *)
(* cancellation, the expiry of the approval or a host reconciliation.      *)
(*                                                                         *)
(*   integrations/sqlite/python/src/purra_sqlite/approvals.py              *)
(*   integrations/sqlite/python/src/purra_sqlite/__init__.py               *)
(*   src/purra/runtime/orchestrator.py     the tool-ready boundary         *)
(*   src/purra/tools/executor.py           what a failed call leads to     *)
(***************************************************************************)
EXTENDS RunLease

CONSTANT ApprovalExpiry   \* expires_at_ms the host stores with the intent

ASSUME ExpiryAssumption == ApprovalExpiry \in Nat

VARIABLES
    kind,      \* class of the stored checkpoint: "model" or "tool" ready
    tool,      \* where each task is in the gated call
    appr,      \* the ApprovalRecord
    toolClaim, \* the (run, call) key is in the store's claims
    assoc,     \* the approvalExecutions association
    receipt,   \* the stored tool receipt
    effects    \* history: how often the external effect happened

toolVars == <<kind, tool, appr, toolClaim, assoc, receipt, effects>>
vars == <<leaseVars, toolVars>>

NoAssoc == [state |-> "none", rev |-> 0, owner |-> NoOwner, epoch |-> 0]

ToolSteps == {"none", "prepare", "request", "dispatch", "flying",
              "committed", "notStarted", "unknown", "done", "refused", "failed"}

ApprovalRecord ==
    [status : {"none", "pending", "approved", "rejected", "expired", "canceled"},
     rev : Nat, audit : Nat, decision : {"none", "approve", "reject"}]

ToolTypeOK ==
    /\ TypeOK
    /\ kind \in {"model", "tool"}
    /\ tool \in [Tasks -> ToolSteps]
    /\ appr \in ApprovalRecord
    /\ toolClaim \in BOOLEAN
    /\ assoc \in [state : {"none", "claimed", "complete"}, rev : Nat,
                  owner : Owners \cup {NoOwner}, epoch : Nat]
    /\ receipt \in {"none", "committed", "notStarted"}
    /\ effects \in Nat

ToolInit ==
    /\ Init
    /\ kind = "model"
    /\ tool = [t \in Tasks |-> "none"]
    /\ appr = [status |-> "none", rev |-> 0, audit |-> 0, decision |-> "none"]
    /\ toolClaim = FALSE
    /\ assoc = NoAssoc
    /\ receipt = "none"
    /\ effects = 0

ToolGoto(t, where) == tool' = [tool EXCEPT ![t] = where]

-----------------------------------------------------------------------------
(* Store predicates.                                                       *)

\* SqliteApprovalStore._require_owner.
RequireOwner(t) ==
    /\ claim[t] # 0
    /\ lease.owner = OwnerOf[t]
    /\ claim[t] = lease.epoch
    /\ lease.expires > now

\* SqliteApprovalStore._run_state, first component.
RunCanceled == run.status # "running" \/ lease.cancel

\* SqliteApprovalStore._refresh: canceled before expired, only while usable.
Refreshed(record) ==
    LET status == IF RunCanceled THEN "canceled"
                  ELSE IF now >= ApprovalExpiry THEN "expired"
                  ELSE record.status
    IN IF record.status \in {"pending", "approved"} /\ status # record.status
         THEN [record EXCEPT !.status = status, !.rev = @ + 1]
         ELSE record

\* SqliteApprovalStore._completed_receipt.
CompletedReceipt ==
    /\ receipt # "none"
    /\ assoc.state = "complete"
    /\ assoc.rev = appr.audit

\* Mutant of Dispatchable: cancellation and expiry are not checked again.
DispatchableOnce(t) ==
    /\ RequireOwner(t)
    /\ kind = "tool"
    /\ run.attempts = run.settled
    /\ CompletedReceipt \/ appr.status = "approved"

\* SqliteApprovalStore._dispatch_record, checked by the gateway's request and
\* once more in the transaction that claims the call.
Dispatchable(t) ==
    /\ RequireOwner(t)
    /\ kind = "tool"
    /\ run.attempts = run.settled
    /\ \/ CompletedReceipt
       \/ /\ ~RunCanceled
          /\ appr.status = "approved"
          /\ now < ApprovalExpiry

\* Mutant of UnknownEffect: a takeover does not look at outstanding claims.
UnknownEffectIgnored == FALSE

\* _Leases.claim: a tool-ready Run with an unresolved claim is not taken over.
UnknownEffect == kind = "tool" /\ toolClaim

-----------------------------------------------------------------------------
(* The gated call in one execution.                                        *)

\* The settled response holds the gated call, or it does not.
AnswerWithCall(t) ==
    /\ SettleAttempt(t)
    /\ appr.status = "none"
    /\ ToolGoto(t, "prepare")
    /\ UNCHANGED <<kind, appr, toolClaim, assoc, receipt, effects>>

\* _restore_checkpoint of a tool-ready checkpoint: straight to the call.
AttachTool(t) ==
    /\ pc[t] = "attach"
    /\ CanAttach(t)
    /\ kind = "tool"
    /\ Goto(t, "settled")
    /\ ToolGoto(t, "prepare")
    /\ UNCHANGED <<now, run, lease, view, claim, signal, workers>>
    /\ UNCHANGED <<kind, appr, toolClaim, assoc, receipt, effects>>

\* The record prepare works with, created when there is none yet.
PreparedRecord ==
    IF appr.status = "none"
    THEN [status |-> "pending", rev |-> 1, audit |-> 0, decision |-> "none"]
    ELSE appr

CanPrepare(t) ==
    /\ RequireOwner(t)
    /\ run.attempts = run.settled
    /\ ~RunCanceled
    /\ appr.status # "none" \/ now < ApprovalExpiry

\* SqliteApprovalStore.prepare: record and tool-ready checkpoint in one
\* transaction, then suspend, go on or fail.
Prepare(t) ==
    /\ pc[t] = "settled" /\ tool[t] = "prepare"
    /\ CanPrepare(t)
    /\ kind = "tool" \/ view[t] < MaxRound
    /\ LET record == Refreshed(PreparedRecord)
           next == IF CompletedReceipt \/ record.status = "approved" THEN "request"
                   ELSE IF record.status = "pending" THEN "none" ELSE "failed"
       IN /\ appr' = record
          /\ ToolGoto(t, next)
          /\ Goto(t, IF next = "none" THEN "close" ELSE "settled")
    /\ IF kind = "model"
       THEN /\ run' = CheckpointRun(t)
            /\ view' = [view EXCEPT ![t] = @ + 1]
            /\ kind' = "tool"
            /\ workers' = {}
       ELSE UNCHANGED <<run, view, kind, workers>>
    /\ UNCHANGED <<now, lease, claim, signal, toolClaim, assoc, receipt, effects>>

PrepareFails(t) ==
    /\ pc[t] = "settled" /\ tool[t] = "prepare"
    /\ ~CanPrepare(t)
    /\ ToolGoto(t, "failed")
    /\ UNCHANGED <<leaseVars, kind, appr, toolClaim, assoc, receipt, effects>>

\* _DurableApprovalGateway.request; any refusal is an unavailable approval with
\* the effect not started.
RequestApproval(t) ==
    /\ pc[t] = "settled" /\ tool[t] = "request"
    /\ ToolGoto(t, IF ~signal[t] /\ Dispatchable(t) THEN "dispatch" ELSE "refused")
    /\ UNCHANGED <<leaseVars, kind, appr, toolClaim, assoc, receipt, effects>>

OwnAssoc(t) == [state |-> "claimed", rev |-> appr.audit,
                owner |-> OwnerOf[t], epoch |-> claim[t]]

\* The claim is free and the call may be dispatched.
AcquireClaim(t) == Dispatchable(t) /\ receipt = "none" /\ ~toolClaim

\* Mutant of PersistClaim: the claim is not durable before the handler runs.
PersistClaimLater(t) == UNCHANGED <<toolClaim, assoc>>

PersistClaim(t) == toolClaim' = TRUE /\ assoc' = OwnAssoc(t)

\* First transaction of _Idempotency.execute_once: replay, refuse or claim.
ExecuteOnce(t) ==
    /\ pc[t] = "settled" /\ tool[t] = "dispatch"
    /\ IF AcquireClaim(t)
       THEN PersistClaim(t) /\ ToolGoto(t, "flying")
       ELSE /\ ToolGoto(t, IF Dispatchable(t) /\ receipt # "none"
                             THEN "done" ELSE "failed")
            /\ UNCHANGED <<toolClaim, assoc>>
    /\ UNCHANGED <<leaseVars, kind, appr, receipt, effects>>

\* The handler: it returns a result with a known or an unknown effect state, or
\* it raises.
Handler(t, effect, next) ==
    /\ pc[t] = "settled" /\ tool[t] = "flying"
    /\ next = "committed" => effect = 1
    /\ next = "notStarted" => effect = 0
    /\ effects' = effects + effect
    /\ ToolGoto(t, next)
    /\ UNCHANGED <<leaseVars, kind, appr, toolClaim, assoc, receipt>>

\* A request of a stopped or dead execution reaches the remote side late, or
\* never.
LateEffect(t, effect) ==
    /\ tool[t] = "flying" /\ pc[t] # "settled"
    /\ effects' = effects + effect
    /\ ToolGoto(t, "none")
    /\ UNCHANGED <<leaseVars, kind, appr, toolClaim, assoc, receipt>>

\* Mutant of MayRecord: a late result is recorded after ownership was lost.
MayRecordLate(t) == tool[t] # "unknown"

\* execute_once after the handler: a known effect state, the same owner and
\* epoch, and the association exactly as this execution claimed it.
MayRecord(t) ==
    /\ tool[t] # "unknown"
    /\ RequireOwner(t)
    /\ assoc = OwnAssoc(t)

\* Second transaction of execute_once; StorageSession.save_tool_receipt refuses
\* to replace a different receipt.
RecordReceipt(t) ==
    /\ pc[t] = "settled" /\ tool[t] \in {"committed", "notStarted", "unknown"}
    /\ IF MayRecord(t) /\ receipt \in {"none", tool[t]}
       THEN /\ assoc' = [assoc EXCEPT !.state = "complete"]
            /\ receipt' = tool[t]
            /\ toolClaim' = FALSE
            /\ ToolGoto(t, "done")
       ELSE /\ ToolGoto(t, "failed")
            /\ UNCHANGED <<assoc, receipt, toolClaim>>
    /\ UNCHANGED <<leaseVars, kind, appr, effects>>

\* A finished call, and a refused one the planner may work around, go on to the
\* next model-ready checkpoint.
CheckpointAfterCall(t) ==
    /\ tool[t] \in {"none", "done", "refused"}
    /\ SaveCheckpoint(t)
    /\ kind' = "model"
    /\ ToolGoto(t, "none")
    /\ UNCHANGED <<appr, toolClaim, assoc, receipt, effects>>

-----------------------------------------------------------------------------
(* The host: decisions, refreshes and reconciliation.                      *)

\* SqliteApprovalStore.decide inside its transaction.
Decide(decision) ==
    /\ appr.status = "pending"
    /\ LET record == Refreshed(appr)
       IN appr' = IF record.status # "pending" THEN record
                  ELSE [status |-> IF decision = "approve" THEN "approved"
                                                           ELSE "rejected",
                        rev |-> record.rev + 1, audit |-> record.rev + 1,
                        decision |-> decision]
    /\ UNCHANGED <<leaseVars, kind, tool, toolClaim, assoc, receipt, effects>>

\* SqliteApprovalStore.refresh.
RefreshApproval ==
    /\ appr.status # "none"
    /\ appr' = Refreshed(appr)
    /\ appr' # appr
    /\ UNCHANGED <<leaseVars, kind, tool, toolClaim, assoc, receipt, effects>>

\* SqliteAgentAdapters.reconcile_tool, its checks.
Reconcilable ==
    /\ toolClaim
    /\ ~LiveLease
    /\ assoc.state = "claimed" /\ assoc.rev = appr.audit

\* The host supplies authoritative evidence: a result that is the case, or a
\* proof that the call was not executed and cannot be any more.
ReconcileResult(result) ==
    /\ Reconcilable
    /\ result = "committed" => effects > 0
    /\ result = "notStarted" => effects = 0 /\ \A t \in Tasks : tool[t] # "flying"
    /\ receipt' = result
    /\ assoc' = [assoc EXCEPT !.state = "complete"]
    /\ toolClaim' = FALSE
    /\ UNCHANGED <<leaseVars, kind, tool, appr, effects>>

ReconcileNotExecuted ==
    /\ Reconcilable
    /\ effects = 0 /\ \A t \in Tasks : tool[t] # "flying"
    /\ assoc' = NoAssoc
    /\ toolClaim' = FALSE
    /\ UNCHANGED <<leaseVars, kind, tool, appr, receipt, effects>>

-----------------------------------------------------------------------------
(* The steps of RunLease, with the gated call in the way.                  *)

LeaseStep(t) ==
    \/ Begin(t) \/ Resume(t) \/ BindGet(t) \/ BindError(t) \/ BindConfirm(t)
    \/ ~UnknownEffect /\ (BindClaim(t) \/ BindRefused(t))
    \/ kind = "model" /\ Attach(t)
    \/ AttachFails(t)
    \/ tool[t] = "none" /\ (Reserve(t) \/ SettleAttempt(t) \/ Finish(t))
    \/ Suspend(t)
    \/ \E s \in Terminal : Stop(t, s)
    \/ Rejected(t) \/ StoreError(t)
    \/ AbortFresh(t)
    \/ MonitorStep(t)

\* claim raises tool_effect_unknown.
RefuseUnknown(t) ==
    /\ pc[t] = "claim"
    /\ UnknownEffect
    /\ Goto(t, Unbound(t))
    /\ UNCHANGED <<now, run, lease, view, claim, signal, workers>>

\* A stopped execution abandons the call it was in; a request on the wire stays.
CloseTool(t) ==
    /\ Close(t)
    /\ ToolGoto(t, IF tool[t] = "flying" THEN "flying" ELSE "none")
    /\ UNCHANGED <<kind, appr, toolClaim, assoc, receipt, effects>>

EnvStep == Tick \/ RequestCancellation \/ \E o \in Owners : Crash(o)

CallStep(t) ==
    \/ AnswerWithCall(t) \/ AttachTool(t) \/ Prepare(t) \/ PrepareFails(t)
    \/ RequestApproval(t) \/ ExecuteOnce(t)
    \/ \E e \in {0, 1}, n \in {"committed", "notStarted", "unknown", "failed"} : Handler(t, e, n)
    \/ \E e \in {0, 1} : LateEffect(t, e)
    \/ RecordReceipt(t) \/ CheckpointAfterCall(t) \/ CloseTool(t)

HostStep ==
    \/ \E d \in {"approve", "reject"} : Decide(d)
    \/ RefreshApproval
    \/ \E r \in {"committed", "notStarted"} : ReconcileResult(r)
    \/ ReconcileNotExecuted

ToolNext ==
    \/ EnvStep /\ UNCHANGED toolVars
    \/ \E t \in Tasks : (LeaseStep(t) \/ RefuseUnknown(t)) /\ UNCHANGED toolVars
    \/ \E t \in Tasks : CallStep(t)
    \/ HostStep

ToolSpec == ToolInit /\ [][ToolNext]_vars

-----------------------------------------------------------------------------
(* Properties.                                                             *)

\* EffectOnce: whatever crashes, takeovers, replays and reconciliations happen,
\* the external effect of an approved call happens at most once (given that the
\* host's proofs of non-execution are true).
EffectOnce == effects =< 1

\* ReceiptTrue: a stored receipt tells what happened outside, also when a late
\* result and a host reconciliation compete for it.
ReceiptTrue ==
    receipt # "none" => receipt = IF effects = 0 THEN "notStarted" ELSE "committed"

\* UnknownBlocksTakeover: while the outcome of a dispatched call is unknown, no
\* execution but the one that dispatched it can write to the Run.
UnknownBlocksTakeover ==
    toolClaim => \A t \in Tasks : CanWrite(t) => claim[t] = assoc.epoch

\* ReceiptFinal: a receipt and its approval association never change again.
ReceiptFinal ==
    receipt # "none" => receipt' = receipt /\ assoc' = assoc

\* DispatchStillAllowed: at the instant a call is claimed for dispatch its Run is
\* neither settled nor asked to cancel and its approval is unexpired, however
\* long ago the gateway's own check passed.
DispatchStillAllowed ==
    ~toolClaim /\ toolClaim' =>
      /\ ~RunCanceled
      /\ appr.status = "approved" /\ now < ApprovalExpiry
      /\ LiveLease

\* Where a task is in its execution while it is in, or has left, the call.
AtCall == {"settled", "close", "ended"}

\* A request on the wire: no effect and no receipt yet, and the claim is the
\* one of the execution that sent it.
FlightInv ==
    \A t \in Tasks : tool[t] = "flying" =>
        /\ effects = 0 /\ receipt = "none"
        /\ toolClaim /\ claim[t] # 0 /\ claim[t] = assoc.epoch

\* What an execution knows of its call is still so while the claim is its own.
ResultInv ==
    \A t \in Tasks :
        /\ tool[t] # "none" => pc[t] \in AtCall
        /\ tool[t] = "committed" => effects # 0
        /\ tool[t] = "notStarted" /\ toolClaim /\ claim[t] = assoc.epoch => effects = 0

\* The durable claim belongs to the last epoch of a Run that waits at the call,
\* and the execution of that epoch does not get past the call; a claim that is
\* gone left a receipt, or nothing at all.
ClaimedInv ==
    /\ toolClaim =>
         /\ kind = "tool" /\ receipt = "none" /\ assoc.state = "claimed"
         /\ assoc.epoch = lease.epoch
         /\ \E t \in Tasks : claim[t] = assoc.epoch
         /\ \A t \in Tasks : claim[t] = assoc.epoch =>
              /\ pc[t] \in AtCall
              /\ pc[t] = "settled" => tool[t] \in {"flying", "committed", "notStarted",
                                                 "unknown", "failed"}
    /\ ~toolClaim =>
         IF receipt = "none" THEN effects = 0 /\ assoc.state = "none"
                             ELSE assoc.state = "complete"

\* DispatchInv: the inductive reason for the properties of the gated call, the
\* ownership of the Run included.  An unknown outcome keeps every other
\* execution from writing, and whoever can write works from the stored
\* checkpoint, also after a suspended approval was resumed elsewhere.
DispatchInv ==
    /\ ToolTypeOK
    /\ LeaseInv
    /\ FlightInv
    /\ ResultInv
    /\ ClaimedInv
    /\ UnknownBlocksTakeover
    /\ FreshView

\* DispatchSteps: receipts are final, and a call is claimed for dispatch only
\* while it is still allowed.
DispatchSteps == [][ReceiptFinal /\ DispatchStillAllowed]_vars
=============================================================================
