------------------------- MODULE ToolDispatchProofs -------------------------
(***************************************************************************)
(* Proofs about RunLease and ToolDispatch for every set of tasks and       *)
(* owners, every lease duration and approval expiry and all bounds.        *)
(*                                                                         *)
(* The lease.  OneWriter and its companions are not inductive.  LeaseInv   *)
(* strengthens them with where an epoch comes from: a task waiting to      *)
(* re-read its claim is alone in doing so and nobody holds the epoch it    *)
(* will read, and before the first bind there is no epoch at all.  One     *)
(* lemma per action, one step per conjunct.  PromptBind is the assumption  *)
(* that the re-read of bind happens before the claimed lease expires;      *)
(* without it OneWriter is false (MCRunLeaseSlowBind).                     *)
(*                                                                         *)
(* The call.  The effect of an approved call happens at most once, a       *)
(* receipt tells what happened, and an outcome that is not known keeps     *)
(* every other execution from the Run.  The steps of the lease that leave  *)
(* the call alone satisfy CallFrame: a task that is bound to the call      *)
(* keeps its epoch and does not come back to it, and while a claim is out  *)
(* nobody opens or adopts an epoch.  The steps of the call itself are      *)
(* taken one by one; the ownership of the Run (LeaseInv) is carried over   *)
(* from the first part, with its assumption PromptBind.                    *)
(***************************************************************************)
EXTENDS ToolDispatch, TLAPS

-----------------------------------------------------------------------------
(* The lease.                                                              *)

USE DEF RunExecutionLease

\* A fresh submit creates the Run: nothing has been claimed, so every other
\* task is idle.
LEMMA BeginStep ==
    ASSUME LeaseInv, NEW t \in Tasks, Begin(t)
    PROVE  LeaseInv'
<1>1. TypeOK'
  BY DEF Begin, Goto, LeaseInv, TypeOK, Pcs
<1>2. UnstartedInv'
  BY DEF Begin, UnstartedInv
<1>3. StartingInv'
  BY DEF Begin, Goto, LeaseInv, TypeOK, UnstartedInv, StartingInv, ClaimInv,
     Starting
<1>4. ClaimInv'
  BY DEF Begin, Goto, LeaseInv, ClaimInv, Working
<1>5. ConfirmInv'
  BY DEF Begin, Goto, LeaseInv, ConfirmInv
<1>6. ViewInv'
  BY DEF Begin, Goto, LeaseInv, ViewInv, Executing
<1>7. WorkerInv'
  BY DEF Begin, LeaseInv, WorkerInv
<1> QED BY <1>1, <1>2, <1>3, <1>4, <1>5, <1>6, <1>7 DEF LeaseInv

\* Selecting a checkpoint holds no lease: only the task's own view changes.
LEMMA ResumeStep ==
    ASSUME LeaseInv, NEW t \in Tasks, Resume(t)
    PROVE  LeaseInv'
<1>1. TypeOK'
  BY DEF Resume, Goto, LeaseInv, TypeOK, Pcs
<1>2. UnstartedInv'
  BY DEF Resume, UnstartedInv
<1>3. StartingInv'
  BY DEF Resume, Goto, LeaseInv, TypeOK, StartingInv, Starting
<1>4. ClaimInv'
  BY DEF Resume, Goto, LeaseInv, ClaimInv, Working
<1>5. ConfirmInv'
  BY DEF Resume, Goto, LeaseInv, ConfirmInv
<1>6. ViewInv'
  BY DEF Resume, Goto, LeaseInv, TypeOK, ViewInv
<1>7. WorkerInv'
  BY DEF Resume, LeaseInv, WorkerInv
<1> QED BY <1>1, <1>2, <1>3, <1>4, <1>5, <1>6, <1>7 DEF LeaseInv

\* A fresh execution cannot find itself as owner, so it goes on to claim.
LEMMA BindGetStep ==
    ASSUME LeaseInv, NEW t \in Tasks, BindGet(t)
    PROVE  LeaseInv'
<1>1. TypeOK'
  BY DEF BindGet, Goto, LeaseInv, TypeOK, Pcs
<1>2. UnstartedInv'
  BY DEF BindGet, LeaseInv, UnstartedInv
<1>3. StartingInv'
  BY DEF BindGet, Goto, LeaseInv, StartingInv, Starting
<1>4. ClaimInv'
  BY DEF BindGet, Goto, LeaseInv, ClaimInv, Working
<1>5. ConfirmInv'
  <2>1. lease.owner # OwnerOf[t]
    BY OwnerAssumption DEF BindGet, LeaseInv, StartingInv, Starting
  <2>2. pc' = [pc EXCEPT ![t] = "claim"]
    BY <2>1 DEF BindGet, Goto
  <2> QED
    BY <2>2 DEF BindGet, LeaseInv, TypeOK, ConfirmInv
<1>6. ViewInv'
  BY DEF BindGet, Goto, LeaseInv, ViewInv, Executing
<1>7. WorkerInv'
  BY DEF BindGet, LeaseInv, WorkerInv
<1> QED BY <1>1, <1>2, <1>3, <1>4, <1>5, <1>6, <1>7 DEF LeaseInv

\* A claim opens an epoch that no task holds yet and, the old lease being
\* dead, no other task is waiting to confirm.
LEMMA BindClaimStep ==
    ASSUME LeaseInv, NEW t \in Tasks, BindClaim(t)
    PROVE  LeaseInv'
<1>1. TypeOK'
  <2>1. now + LeaseMs \in Nat /\ lease.epoch + 1 \in Nat
    BY BoundAssumption DEF LeaseInv, TypeOK
  <2>2. lease' \in RunExecutionLease
    BY <2>1, OwnerAssumption DEF BindClaim, LeaseInv, TypeOK
  <2> QED
    BY <2>2 DEF BindClaim, Goto, LeaseInv, TypeOK, Pcs, Working
<1>2. UnstartedInv'
  BY DEF BindClaim, LeaseInv, UnstartedInv
<1>3. StartingInv'
  BY DEF BindClaim, Goto, LeaseInv, TypeOK, StartingInv, Starting
<1>4. ClaimInv'
  BY DEF BindClaim, Goto, LeaseInv, TypeOK, ClaimInv, Working
<1>5. ConfirmInv'
  <2>1. lease'.owner = OwnerOf[t] /\ lease'.expires > now /\ lease'.epoch = lease.epoch + 1
    BY BoundAssumption DEF BindClaim, LeaseInv, TypeOK
  <2>2. \A u \in Tasks : pc[u] # "confirm"
    BY OwnerAssumption DEF BindClaim, Claimable, LiveLease, LeaseInv, ConfirmInv
  <2>3. \A u \in Tasks : claim[u] # lease.epoch + 1
    BY DEF LeaseInv, TypeOK, ClaimInv
  <2>5. \A u \in Tasks : pc'[u] = "confirm" => u = t
    BY <2>2 DEF BindClaim, Goto, LeaseInv, TypeOK
  <2>6. UNCHANGED <<now, run, view, claim>>
    BY DEF BindClaim
  <2>7. lease.epoch + 1 # 0
    BY DEF LeaseInv, TypeOK
  <2> QED
    BY <2>1, <2>3, <2>5, <2>6, <2>7 DEF ConfirmInv
<1>6. ViewInv'
  BY DEF BindClaim, LeaseInv, TypeOK, ClaimInv, ViewInv
<1>7. WorkerInv'
  BY DEF BindClaim, Claimable, AttemptOutstanding, LeaseInv, TypeOK,
     StartingInv, ViewInv, WorkerInv, Starting
<1> QED BY <1>1, <1>2, <1>3, <1>4, <1>5, <1>6, <1>7 DEF LeaseInv

\* A refused claim only moves the task.
LEMMA BindRefusedStep ==
    ASSUME LeaseInv, NEW t \in Tasks, BindRefused(t)
    PROVE  LeaseInv'
<1>1. TypeOK'
  BY DEF BindRefused, Goto, Unbound, LeaseInv, TypeOK, Pcs
<1>2. UnstartedInv'
  BY DEF BindRefused, LeaseInv, UnstartedInv
<1>3. StartingInv'
  BY DEF BindRefused, Goto, Unbound, LeaseInv, StartingInv, Starting
<1>4. ClaimInv'
  BY DEF BindRefused, Goto, Unbound, LeaseInv, ClaimInv, Working
<1>5. ConfirmInv'
  BY DEF BindRefused, Goto, Unbound, LeaseInv, ConfirmInv
<1>6. ViewInv'
  BY DEF BindRefused, Goto, Unbound, LeaseInv, ViewInv, Executing
<1>7. WorkerInv'
  BY DEF BindRefused, LeaseInv, WorkerInv
<1> QED BY <1>1, <1>2, <1>3, <1>4, <1>5, <1>6, <1>7 DEF LeaseInv

\* A failed bind only moves the task; the row keeps its owner until it
\* expires.
LEMMA BindErrorStep ==
    ASSUME LeaseInv, NEW t \in Tasks, BindError(t)
    PROVE  LeaseInv'
<1>1. TypeOK'
  BY DEF BindError, Goto, Unbound, LeaseInv, TypeOK, Pcs
<1>2. UnstartedInv'
  BY DEF BindError, LeaseInv, UnstartedInv
<1>3. StartingInv'
  BY DEF BindError, Goto, Unbound, LeaseInv, StartingInv, Starting
<1>4. ClaimInv'
  BY DEF BindError, Goto, Unbound, LeaseInv, ClaimInv, Working
<1>5. ConfirmInv'
  BY DEF BindError, Goto, Unbound, LeaseInv, ConfirmInv
<1>6. ViewInv'
  BY DEF BindError, Goto, Unbound, LeaseInv, ViewInv, Executing
<1>7. WorkerInv'
  BY DEF BindError, LeaseInv, WorkerInv
<1> QED BY <1>1, <1>2, <1>3, <1>4, <1>5, <1>6, <1>7 DEF LeaseInv

\* The epoch adopted is the one this task opened: it is new to every claim.
LEMMA BindConfirmStep ==
    ASSUME LeaseInv, NEW t \in Tasks, BindConfirm(t)
    PROVE  LeaseInv'
<1>1. TypeOK'
  BY DEF BindConfirm, Goto, Unbound, LeaseInv, TypeOK, Pcs, Working
<1>2. UnstartedInv'
  BY DEF BindConfirm, LeaseInv, UnstartedInv
<1>3. StartingInv'
  BY DEF BindConfirm, Goto, Unbound, LeaseInv, TypeOK, StartingInv, Starting
<1>4. ClaimInv'
  BY DEF BindConfirm, Goto, LeaseInv, TypeOK, ClaimInv, ConfirmInv
<1>5. ConfirmInv'
  BY DEF BindConfirm, Goto, LeaseInv, TypeOK, ConfirmInv
<1>6. ViewInv'
  BY DEF BindConfirm, Goto, Unbound, LeaseInv, TypeOK, StartingInv, ViewInv,
     Executing, Starting
<1>7. WorkerInv'
  BY DEF BindConfirm, LeaseInv, WorkerInv
<1> QED BY <1>1, <1>2, <1>3, <1>4, <1>5, <1>6, <1>7 DEF LeaseInv

\* Attaching compares the selected checkpoint with the stored one.
LEMMA AttachStep ==
    ASSUME LeaseInv, NEW t \in Tasks, Attach(t)
    PROVE  LeaseInv'
<1>1. TypeOK'
  BY DEF Attach, Goto, LeaseInv, TypeOK, Pcs, Working
<1>2. UnstartedInv'
  BY DEF Attach, LeaseInv, UnstartedInv
<1>3. StartingInv'
  BY DEF Attach, Goto, LeaseInv, StartingInv, Starting
<1>4. ClaimInv'
  BY DEF Attach, Goto, LeaseInv, ClaimInv, Working
<1>5. ConfirmInv'
  BY DEF Attach, Goto, LeaseInv, ConfirmInv
<1>6. ViewInv'
  BY DEF Attach, Goto, CanAttach, LeaseInv, ViewInv
<1>7. WorkerInv'
  BY DEF Attach, LeaseInv, WorkerInv
<1> QED BY <1>1, <1>2, <1>3, <1>4, <1>5, <1>6, <1>7 DEF LeaseInv

\* A failed attach commits nothing.
LEMMA AttachFailsStep ==
    ASSUME LeaseInv, NEW t \in Tasks, AttachFails(t)
    PROVE  LeaseInv'
<1>1. TypeOK'
  BY DEF AttachFails, Goto, LeaseInv, TypeOK, Pcs
<1>2. UnstartedInv'
  BY DEF AttachFails, LeaseInv, UnstartedInv
<1>3. StartingInv'
  BY DEF AttachFails, Goto, LeaseInv, StartingInv, Starting
<1>4. ClaimInv'
  BY DEF AttachFails, Goto, LeaseInv, ClaimInv, Working
<1>5. ConfirmInv'
  BY DEF AttachFails, Goto, LeaseInv, ConfirmInv
<1>6. ViewInv'
  BY DEF AttachFails, Goto, LeaseInv, ViewInv, Executing
<1>7. WorkerInv'
  BY DEF AttachFails, LeaseInv, WorkerInv
<1> QED BY <1>1, <1>2, <1>3, <1>4, <1>5, <1>6, <1>7 DEF LeaseInv

\* Attempts are reserved under the current epoch only.
LEMMA ReserveStep ==
    ASSUME LeaseInv, NEW t \in Tasks, Reserve(t)
    PROVE  LeaseInv'
<1>1. TypeOK'
  BY DEF Reserve, Goto, LeaseInv, TypeOK, Pcs, Working
<1>2. UnstartedInv'
  BY DEF Reserve, UnstartedInv
<1>3. StartingInv'
  BY DEF Reserve, Goto, LeaseInv, StartingInv, Starting
<1>4. ClaimInv'
  BY DEF Reserve, Goto, LeaseInv, ClaimInv, Working
<1>5. ConfirmInv'
  BY DEF Reserve, Goto, LeaseInv, ConfirmInv
<1>6. ViewInv'
  BY DEF Reserve, Goto, LeaseInv, ViewInv, Executing
<1>7. WorkerInv'
  BY DEF Reserve, Guard, LeaseInv, TypeOK, ClaimInv, WorkerInv, Working
<1> QED BY <1>1, <1>2, <1>3, <1>4, <1>5, <1>6, <1>7 DEF LeaseInv

\* Settling an attempt leaves checkpoint and lease alone.
LEMMA SettleAttemptStep ==
    ASSUME LeaseInv, NEW t \in Tasks, SettleAttempt(t)
    PROVE  LeaseInv'
<1>1. TypeOK'
  BY DEF SettleAttempt, Goto, LeaseInv, TypeOK, Pcs, Working
<1>2. UnstartedInv'
  BY DEF SettleAttempt, UnstartedInv
<1>3. StartingInv'
  BY DEF SettleAttempt, Goto, LeaseInv, StartingInv, Starting
<1>4. ClaimInv'
  BY DEF SettleAttempt, Goto, LeaseInv, ClaimInv, Working
<1>5. ConfirmInv'
  BY DEF SettleAttempt, Goto, LeaseInv, ConfirmInv
<1>6. ViewInv'
  BY DEF SettleAttempt, Goto, LeaseInv, ViewInv, Executing
<1>7. WorkerInv'
  BY DEF SettleAttempt, LeaseInv, WorkerInv
<1> QED BY <1>1, <1>2, <1>3, <1>4, <1>5, <1>6, <1>7 DEF LeaseInv

\* A checkpoint is committed by the holder of the current epoch, whose view
\* is the stored checkpoint; everyone else is left with an older epoch.
LEMMA SaveCheckpointStep ==
    ASSUME LeaseInv, NEW t \in Tasks, SaveCheckpoint(t)
    PROVE  LeaseInv'
<1>1. TypeOK'
  <2>1. view[t] + 1 \in Nat
    BY DEF LeaseInv, TypeOK
  <2>2. run' \in [status : {"absent", "running"} \cup Terminal,
                  ckpt : Nat, attempts : Nat, settled : Nat, ckptAttempts : Nat]
    BY <2>1 DEF SaveCheckpoint, CheckpointRun, LeaseInv, TypeOK
  <2> QED
    BY <2>1, <2>2 DEF SaveCheckpoint, Goto, LeaseInv, TypeOK, Pcs, Working
<1>2. UnstartedInv'
  BY DEF SaveCheckpoint, CheckpointRun, UnstartedInv
<1>3. StartingInv'
  BY DEF SaveCheckpoint, Goto, LeaseInv, StartingInv, Starting
<1>4. ClaimInv'
  BY DEF SaveCheckpoint, Goto, LeaseInv, ClaimInv, Working
<1>5. ConfirmInv'
  BY DEF SaveCheckpoint, Goto, LeaseInv, ConfirmInv
<1>6. ViewInv'
  BY DEF SaveCheckpoint, Guard, CheckpointRun, LeaseInv, TypeOK, ClaimInv,
     ViewInv, Working
<1>7. WorkerInv'
  BY DEF SaveCheckpoint, CheckpointRun, LeaseInv, TypeOK, WorkerInv
<1> QED BY <1>1, <1>2, <1>3, <1>4, <1>5, <1>6, <1>7 DEF LeaseInv

\* A terminal commit only changes the status.
LEMMA FinishStep ==
    ASSUME LeaseInv, NEW t \in Tasks, Finish(t)
    PROVE  LeaseInv'
<1>1. TypeOK'
  BY DEF Finish, Goto, LeaseInv, TypeOK, Terminal, Pcs
<1>2. UnstartedInv'
  BY DEF Finish, UnstartedInv
<1>3. StartingInv'
  BY DEF Finish, Goto, LeaseInv, StartingInv, Starting
<1>4. ClaimInv'
  BY DEF Finish, Goto, LeaseInv, ClaimInv, Working
<1>5. ConfirmInv'
  BY DEF Finish, Goto, LeaseInv, ConfirmInv
<1>6. ViewInv'
  BY DEF Finish, Goto, LeaseInv, ViewInv, Executing
<1>7. WorkerInv'
  BY DEF Finish, LeaseInv, WorkerInv
<1> QED BY <1>1, <1>2, <1>3, <1>4, <1>5, <1>6, <1>7 DEF LeaseInv

\* A suspension only moves the task.
LEMMA SuspendStep ==
    ASSUME LeaseInv, NEW t \in Tasks, Suspend(t)
    PROVE  LeaseInv'
<1>1. TypeOK'
  BY DEF Suspend, Goto, LeaseInv, TypeOK, Pcs
<1>2. UnstartedInv'
  BY DEF Suspend, LeaseInv, UnstartedInv
<1>3. StartingInv'
  BY DEF Suspend, Goto, LeaseInv, StartingInv, Starting
<1>4. ClaimInv'
  BY DEF Suspend, Goto, LeaseInv, ClaimInv, Working
<1>5. ConfirmInv'
  BY DEF Suspend, Goto, LeaseInv, ConfirmInv
<1>6. ViewInv'
  BY DEF Suspend, Goto, LeaseInv, ViewInv, Executing
<1>7. WorkerInv'
  BY DEF Suspend, LeaseInv, WorkerInv
<1> QED BY <1>1, <1>2, <1>3, <1>4, <1>5, <1>6, <1>7 DEF LeaseInv

\* A terminal commit only changes the status.
LEMMA StopStep ==
    ASSUME LeaseInv, NEW t \in Tasks, NEW s \in Terminal, Stop(t, s)
    PROVE  LeaseInv'
<1>1. TypeOK'
  BY DEF Stop, Goto, LeaseInv, TypeOK, Pcs
<1>2. UnstartedInv'
  BY DEF Stop, UnstartedInv
<1>3. StartingInv'
  BY DEF Stop, Goto, LeaseInv, StartingInv, Working, Starting
<1>4. ClaimInv'
  BY DEF Stop, Goto, LeaseInv, ClaimInv
<1>5. ConfirmInv'
  BY DEF Stop, Goto, LeaseInv, ConfirmInv
<1>6. ViewInv'
  BY DEF Stop, Goto, LeaseInv, ViewInv, Executing
<1>7. WorkerInv'
  BY DEF Stop, LeaseInv, WorkerInv
<1> QED BY <1>1, <1>2, <1>3, <1>4, <1>5, <1>6, <1>7 DEF LeaseInv

\* A refused write changes nothing in the store.
LEMMA RejectedStep ==
    ASSUME LeaseInv, NEW t \in Tasks, Rejected(t)
    PROVE  LeaseInv'
<1>1. TypeOK'
  BY DEF Rejected, Goto, LeaseInv, TypeOK, Pcs
<1>2. UnstartedInv'
  BY DEF Rejected, LeaseInv, UnstartedInv, Working
<1>3. StartingInv'
  BY DEF Rejected, Goto, LeaseInv, StartingInv, Working, Starting
<1>4. ClaimInv'
  BY DEF Rejected, Goto, LeaseInv, ClaimInv
<1>5. ConfirmInv'
  BY DEF Rejected, Goto, LeaseInv, ConfirmInv
<1>6. ViewInv'
  BY DEF Rejected, Goto, LeaseInv, ViewInv, Executing
<1>7. WorkerInv'
  BY DEF Rejected, LeaseInv, WorkerInv
<1> QED BY <1>1, <1>2, <1>3, <1>4, <1>5, <1>6, <1>7 DEF LeaseInv

\* An execution that gives up leaves run and lease alone.
LEMMA StoreErrorStep ==
    ASSUME LeaseInv, NEW t \in Tasks, StoreError(t)
    PROVE  LeaseInv'
<1>1. TypeOK'
  BY DEF StoreError, Goto, LeaseInv, TypeOK, Pcs
<1>2. UnstartedInv'
  BY DEF StoreError, LeaseInv, UnstartedInv, Working
<1>3. StartingInv'
  BY DEF StoreError, Goto, LeaseInv, StartingInv, Working, Starting
<1>4. ClaimInv'
  BY DEF StoreError, Goto, LeaseInv, ClaimInv, Working
<1>5. ConfirmInv'
  BY DEF StoreError, Goto, LeaseInv, ConfirmInv
<1>6. ViewInv'
  BY DEF StoreError, Goto, LeaseInv, ViewInv, Executing
<1>7. WorkerInv'
  BY DEF StoreError, LeaseInv, WorkerInv
<1> QED BY <1>1, <1>2, <1>3, <1>4, <1>5, <1>6, <1>7 DEF LeaseInv

\* Closing an unbound fresh Run may cancel it and nothing else.
LEMMA AbortFreshStep ==
    ASSUME LeaseInv, NEW t \in Tasks, AbortFresh(t)
    PROVE  LeaseInv'
<1>1. TypeOK'
  BY DEF AbortFresh, Goto, LeaseInv, TypeOK, Terminal, Pcs
<1>2. UnstartedInv'
  BY DEF AbortFresh, LeaseInv, UnstartedInv
<1>3. StartingInv'
  BY DEF AbortFresh, Goto, LeaseInv, StartingInv, Starting
<1>4. ClaimInv'
  BY DEF AbortFresh, Goto, LeaseInv, ClaimInv, Working
<1>5. ConfirmInv'
  BY DEF AbortFresh, Goto, LeaseInv, ConfirmInv
<1>6. ViewInv'
  BY DEF AbortFresh, Goto, LeaseInv, ViewInv, Executing
<1>7. WorkerInv'
  BY DEF AbortFresh, LeaseInv, WorkerInv
<1> QED BY <1>1, <1>2, <1>3, <1>4, <1>5, <1>6, <1>7 DEF LeaseInv

\* A release clears the owner and leaves epoch and claims alone.
LEMMA CloseStep ==
    ASSUME LeaseInv, NEW t \in Tasks, Close(t)
    PROVE  LeaseInv'
<1>1. TypeOK'
  BY DEF Close, Goto, Release, LeaseInv, TypeOK, Pcs
<1>2. UnstartedInv'
  BY DEF Close, LeaseInv, UnstartedInv
<1>3. StartingInv'
  BY DEF Close, Goto, LeaseInv, StartingInv, Starting
<1>4. ClaimInv'
  BY DEF Close, Goto, Release, LeaseInv, ClaimInv
<1>5. ConfirmInv'
  BY DEF Close, Goto, Release, LeaseInv, ConfirmInv
<1>6. ViewInv'
  BY DEF Close, Goto, Release, LeaseInv, ViewInv, Executing
<1>7. WorkerInv'
  BY DEF Close, Release, LeaseInv, WorkerInv
<1> QED BY <1>1, <1>2, <1>3, <1>4, <1>5, <1>6, <1>7 DEF LeaseInv

\* A poll only raises the task's signal.
LEMMA MonitorPollStep ==
    ASSUME LeaseInv, NEW t \in Tasks, MonitorPoll(t)
    PROVE  LeaseInv'
<1>1. TypeOK'
  BY DEF MonitorPoll, LeaseInv, TypeOK
<1>2. UnstartedInv'
  BY DEF MonitorPoll, LeaseInv, UnstartedInv
<1>3. StartingInv'
  BY DEF MonitorPoll, LeaseInv, StartingInv, Starting
<1>4. ClaimInv'
  BY DEF MonitorPoll, LeaseInv, ClaimInv
<1>5. ConfirmInv'
  BY DEF MonitorPoll, LeaseInv, ConfirmInv
<1>6. ViewInv'
  BY DEF MonitorPoll, LeaseInv, ViewInv
<1>7. WorkerInv'
  BY DEF MonitorPoll, LeaseInv, WorkerInv
<1> QED BY <1>1, <1>2, <1>3, <1>4, <1>5, <1>6, <1>7 DEF LeaseInv

\* A renewal moves the expiry of a lease that is still live.
LEMMA MonitorRenewStep ==
    ASSUME LeaseInv, NEW t \in Tasks, MonitorRenew(t)
    PROVE  LeaseInv'
<1>1. TypeOK'
  <2>1. now + LeaseMs \in Nat
    BY BoundAssumption DEF LeaseInv, TypeOK
  <2>2. lease' \in RunExecutionLease
    BY <2>1 DEF MonitorRenew, LeaseInv, TypeOK
  <2> QED
    BY <2>2 DEF MonitorRenew, LeaseInv, TypeOK
<1>2. UnstartedInv'
  BY DEF MonitorRenew, LeaseInv, TypeOK, UnstartedInv
<1>3. StartingInv'
  BY DEF MonitorRenew, LeaseInv, TypeOK, StartingInv, Starting
<1>4. ClaimInv'
  BY DEF MonitorRenew, LeaseInv, TypeOK, ClaimInv
<1>5. ConfirmInv'
  BY DEF MonitorRenew, Renewable, LeaseInv, ConfirmInv
<1>6. ViewInv'
  BY DEF MonitorRenew, LeaseInv, TypeOK, ViewInv
<1>7. WorkerInv'
  BY DEF MonitorRenew, LeaseInv, TypeOK, WorkerInv
<1> QED BY <1>1, <1>2, <1>3, <1>4, <1>5, <1>6, <1>7 DEF LeaseInv

\* Time passes; with PromptBind not over a claim that waits for its re-read.
LEMMA TickStep ==
    ASSUME LeaseInv, PromptBind, Tick
    PROVE  LeaseInv'
<1>1. TypeOK'
  BY DEF Tick, LeaseInv, TypeOK
<1>2. UnstartedInv'
  BY DEF Tick, LeaseInv, UnstartedInv
<1>3. StartingInv'
  BY DEF Tick, LeaseInv, StartingInv, Starting
<1>4. ClaimInv'
  BY DEF Tick, LeaseInv, ClaimInv
<1>5. ConfirmInv'
  BY DEF Tick, LeaseInv, ConfirmInv
<1>6. ViewInv'
  BY DEF Tick, LeaseInv, ViewInv
<1>7. WorkerInv'
  BY DEF Tick, LeaseInv, WorkerInv
<1> QED BY <1>1, <1>2, <1>3, <1>4, <1>5, <1>6, <1>7 DEF LeaseInv

\* A cancellation request marks the row.
LEMMA RequestCancellationStep ==
    ASSUME LeaseInv, RequestCancellation
    PROVE  LeaseInv'
<1>1. TypeOK'
  BY DEF RequestCancellation, LeaseInv, TypeOK
<1>2. UnstartedInv'
  BY DEF RequestCancellation, UnstartedInv
<1>3. StartingInv'
  BY DEF RequestCancellation, LeaseInv, StartingInv, Starting
<1>4. ClaimInv'
  BY DEF RequestCancellation, LeaseInv, ClaimInv
<1>5. ConfirmInv'
  BY DEF RequestCancellation, LeaseInv, ConfirmInv
<1>6. ViewInv'
  BY DEF RequestCancellation, LeaseInv, ViewInv
<1>7. WorkerInv'
  BY DEF RequestCancellation, LeaseInv, WorkerInv
<1> QED BY <1>1, <1>2, <1>3, <1>4, <1>5, <1>6, <1>7 DEF LeaseInv

\* A crash ends the tasks of one process and leaves the store alone.
LEMMA CrashStep ==
    ASSUME LeaseInv, NEW o \in Owners, Crash(o)
    PROVE  LeaseInv'
<1>1. TypeOK'
  BY DEF Crash, LeaseInv, TypeOK, Pcs
<1>2. UnstartedInv'
  BY DEF Crash, LeaseInv, UnstartedInv
<1>3. StartingInv'
  BY DEF Crash, LeaseInv, StartingInv, Starting
<1>4. ClaimInv'
  BY DEF Crash, LeaseInv, ClaimInv, Working
<1>5. ConfirmInv'
  BY DEF Crash, LeaseInv, ConfirmInv
<1>6. ViewInv'
  BY DEF Crash, LeaseInv, ViewInv, Executing
<1>7. WorkerInv'
  BY DEF Crash, LeaseInv, WorkerInv
<1> QED BY <1>1, <1>2, <1>3, <1>4, <1>5, <1>6, <1>7 DEF LeaseInv

\* LeaseInv is a predicate of leaseVars.
LEMMA StutterStep ==
    ASSUME LeaseInv, UNCHANGED leaseVars
    PROVE  LeaseInv'
BY DEF leaseVars, LeaseInv, TypeOK, UnstartedInv, StartingInv, ClaimInv,
   ConfirmInv, ViewInv, WorkerInv, Starting

\* The initial state satisfies the invariant.
LEMMA InitInv == Init => LeaseInv
<1> SUFFICES ASSUME Init PROVE LeaseInv
  OBVIOUS
<1>1. TypeOK
  BY OwnerAssumption DEF Init, TypeOK, Pcs, Working, Terminal
<1>2. UnstartedInv /\ StartingInv /\ ClaimInv /\ ConfirmInv /\ ViewInv /\ WorkerInv
  BY DEF Init, UnstartedInv, StartingInv, ClaimInv, ConfirmInv, ViewInv,
     WorkerInv, Starting, Working, Executing
<1> QED BY <1>1, <1>2 DEF LeaseInv

\* Every step of the leased Run preserves the invariant.
LEMMA NextStep ==
    ASSUME LeaseInv, PromptBind, Next
    PROVE  LeaseInv'
<1>1. CASE Tick
  BY <1>1, TickStep
<1>2. CASE RequestCancellation
  BY <1>2, RequestCancellationStep
<1>3. ASSUME NEW o \in Owners, Crash(o) PROVE LeaseInv'
  BY <1>3, CrashStep
<1>4. ASSUME NEW t \in Tasks, BindStep(t) PROVE LeaseInv'
  BY <1>4, BeginStep, ResumeStep, BindGetStep, BindClaimStep, BindRefusedStep,
     BindErrorStep, BindConfirmStep, AttachStep, AttachFailsStep DEF BindStep
<1>5. ASSUME NEW t \in Tasks, WorkStep(t) PROVE LeaseInv'
  BY <1>5, ReserveStep, SettleAttemptStep, SaveCheckpointStep, FinishStep,
     SuspendStep, StopStep, RejectedStep, StoreErrorStep, AbortFreshStep,
     CloseStep DEF WorkStep, RoundStep
<1>6. ASSUME NEW t \in Tasks, MonitorStep(t) PROVE LeaseInv'
  BY <1>6, MonitorPollStep, MonitorRenewStep DEF MonitorStep
<1> QED BY <1>1, <1>2, <1>3, <1>4, <1>5, <1>6 DEF Next

\* LeaseInvariant: in every behaviour an epoch belongs to one execution and
\* whatever advances the Run carries the current epoch, for any tasks,
\* owners, lease duration and bounds, provided no lease expires between a
\* claim and its re-read.
THEOREM LeaseInvariant ==
    ASSUME PromptBind
    PROVE  Spec => []LeaseInv
<1>1. LeaseInv /\ [Next]_leaseVars => LeaseInv'
  BY NextStep, StutterStep
<1> QED BY <1>1, InitInv, PTL DEF Spec

\* Whatever passes the store's guard carries the epoch of a live lease: a
\* bound task always has a claim, so the branch of _guard without one is
\* closed.
LEMMA WriterHolds ==
    ASSUME LeaseInv, NEW t \in Tasks, CanWrite(t)
    PROVE  claim[t] = lease.epoch /\ lease.owner = OwnerOf[t] /\ lease.expires > now
BY DEF LeaseInv, TypeOK, ClaimInv, CanWrite, Executing, Guard, Working

\* OneWriterHolds: at most one execution can ever pass _guard.
THEOREM OneWriterHolds ==
    ASSUME PromptBind
    PROVE  Spec => []OneWriter
<1>1. LeaseInv => OneWriter
  <2> SUFFICES ASSUME LeaseInv, NEW t \in Tasks, NEW u \in Tasks, CanWrite(t), CanWrite(u)
               PROVE  t = u
    BY DEF OneWriter
  <2>1. claim[t] = lease.epoch /\ claim[u] = lease.epoch
    BY WriterHolds
  <2>2. claim[t] # 0
    BY DEF CanWrite, LeaseInv, ClaimInv, Executing, Working
  <2> QED BY <2>1, <2>2 DEF LeaseInv, ClaimInv
<1> QED BY <1>1, LeaseInvariant, PTL

\* FreshViewHolds: whoever can write works from the stored checkpoint.
THEOREM FreshViewHolds ==
    ASSUME PromptBind
    PROVE  Spec => []FreshView
<1>1. LeaseInv => FreshView
  BY WriterHolds DEF FreshView, LeaseInv, ViewInv, CanWrite
<1> QED BY <1>1, LeaseInvariant, PTL

\* OneWorkerPerRoundHolds: no takeover redoes an interrupted round.
THEOREM OneWorkerPerRoundHolds ==
    ASSUME PromptBind
    PROVE  Spec => []OneWorkerPerRound
<1>1. LeaseInv => OneWorkerPerRound
  BY DEF LeaseInv, WorkerInv, OneWorkerPerRound
<1> QED BY <1>1, LeaseInvariant, PTL

\* Only a claim makes a dead lease live, and a claim increments the epoch.
LEMMA RevivalStep ==
    ASSUME LeaseInv, Next, LiveLease', ~LiveLease
    PROVE  lease'.epoch > lease.epoch
<1>1. CASE Tick
  BY <1>1 DEF Tick, LiveLease, LeaseInv, TypeOK
<1>2. CASE RequestCancellation
  BY <1>2 DEF RequestCancellation, LiveLease, LeaseInv, TypeOK
<1>3. ASSUME NEW o \in Owners, Crash(o) PROVE FALSE
  BY <1>3 DEF Crash, LiveLease
<1>4. ASSUME NEW t \in Tasks, BindStep(t) PROVE lease'.epoch > lease.epoch
  <2>1. CASE BindClaim(t)
    BY <2>1 DEF BindClaim, LeaseInv, TypeOK
  <2>2. CASE ~BindClaim(t)
    BY <1>4, <2>2 DEF BindStep, Begin, Resume, BindGet, BindRefused, BindError,
                      BindConfirm, Attach, AttachFails, LiveLease
  <2> QED BY <2>1, <2>2
<1>5. ASSUME NEW t \in Tasks, WorkStep(t) PROVE FALSE
  <2>1. CASE Close(t)
    BY <2>1 DEF Close, Release, LiveLease, LeaseInv, TypeOK
  <2>2. CASE ~Close(t)
    BY <1>5, <2>2 DEF WorkStep, RoundStep, Reserve, SettleAttempt, SaveCheckpoint,
       Finish, Suspend, Stop, Rejected, StoreError, AbortFresh, LiveLease
  <2> QED BY <2>1, <2>2
<1>6. ASSUME NEW t \in Tasks, MonitorStep(t) PROVE FALSE
  BY <1>6, OwnerAssumption DEF MonitorStep, MonitorPoll, MonitorRenew,
     Renewable, LiveLease
<1> QED BY <1>1, <1>2, <1>3, <1>4, <1>5, <1>6 DEF Next

\* NoRevivalHolds: a late heartbeat never revives a lease.
THEOREM NoRevivalHolds ==
    ASSUME PromptBind
    PROVE  Spec => NoRevival
<1>1. LeaseInv /\ [Next]_leaseVars
        => [LiveLease' /\ ~LiveLease => lease'.epoch > lease.epoch]_leaseVars
  BY RevivalStep
<1> QED BY <1>1, LeaseInvariant, PTL DEF Spec, NoRevival

\* Only the close of the execution that holds the epoch clears a live lease.
LEMMA FreeingStep ==
    ASSUME LeaseInv, Next, LiveLease, lease'.owner = NoOwner
    PROVE  \E t \in Tasks : /\ claim[t] = lease.epoch
                            /\ pc[t] = "close" /\ pc'[t] = "ended"
<1>1. CASE Tick
  BY <1>1 DEF Tick, LiveLease
<1>2. CASE RequestCancellation
  BY <1>2 DEF RequestCancellation, LiveLease, LeaseInv, TypeOK
<1>3. ASSUME NEW o \in Owners, Crash(o) PROVE FALSE
  BY <1>3 DEF Crash, LiveLease
<1>4. ASSUME NEW t \in Tasks, BindStep(t) PROVE FALSE
  <2>1. CASE BindClaim(t)
    BY <2>1 DEF BindClaim, Claimable
  <2>2. CASE ~BindClaim(t)
    BY <1>4, <2>2 DEF BindStep, Begin, Resume, BindGet, BindRefused, BindError,
                      BindConfirm, Attach, AttachFails, LiveLease
  <2> QED BY <2>1, <2>2
<1>5. ASSUME NEW t \in Tasks, WorkStep(t)
      PROVE  claim[t] = lease.epoch /\ pc[t] = "close" /\ pc'[t] = "ended"
  <2>1. CASE Close(t)
    BY <2>1 DEF Close, Release, Goto, LiveLease, LeaseInv, TypeOK
  <2>2. CASE ~Close(t)
    BY <1>5, <2>2 DEF WorkStep, RoundStep, Reserve, SettleAttempt, SaveCheckpoint,
       Finish, Suspend, Stop, Rejected, StoreError, AbortFresh, LiveLease
  <2> QED BY <2>1, <2>2
<1>6. ASSUME NEW t \in Tasks, MonitorStep(t) PROVE FALSE
  BY <1>6 DEF MonitorStep, MonitorPoll, MonitorRenew, LiveLease, LeaseInv,
     TypeOK
<1> QED BY <1>1, <1>2, <1>3, <1>4, <1>5, <1>6 DEF Next

\* OnlyHolderFreesHolds: a replaced execution never releases its successor's
\* lease.
THEOREM OnlyHolderFreesHolds ==
    ASSUME PromptBind
    PROVE  Spec => OnlyHolderFrees
<1>1. LeaseInv /\ [Next]_leaseVars
        => [LiveLease /\ lease'.owner = NoOwner =>
              \E t \in Tasks : /\ claim[t] = lease.epoch
                               /\ pc[t] = "close" /\ pc'[t] = "ended"]_leaseVars
  BY FreeingStep
<1> QED BY <1>1, LeaseInvariant, PTL DEF Spec, OnlyHolderFrees

-----------------------------------------------------------------------------
(* RunLease implements ExclusiveRun, for any set of tasks and owners, any  *)
(* lease duration and any bounds.  Each step of the leased Run is matched  *)
(* with the step of the abstract Run that it is, or with a stutter.        *)

\* A task counts as a holder from the moment its bind confirmed the lease.
Active == Working \cup {"close"}

Simulated == Exclusive!Next \/ UNCHANGED Exclusive!vars

\* At most one execution holds the lease (from the uniqueness of epochs).
LEMMA OneHolder ==
    ASSUME LeaseInv, NEW t \in Holders, NEW u \in Holders
    PROVE  t = u
BY DEF Holders, LeaseInv, ClaimInv

\* The holder depends only on the lease, the clock, the claims and on who is
\* active.
LEMMA SameHolders ==
    ASSUME UNCHANGED <<lease, now, claim>>,
           \A u \in Tasks : pc[u] \in Active <=> pc'[u] \in Active
    PROVE  Holders' = Holders
BY DEF Holders, Active

\* A step that keeps the holder, the checkpoint and the status is a stutter.
LEMMA QuietStep ==
    ASSUME Holders' = Holders, UNCHANGED run
    PROVE  Simulated
BY DEF Simulated, Exclusive!vars, Outcome

\* Whoever may write to the Run is its holder.
LEMMA WriterIsHolder ==
    ASSUME LeaseInv, NEW t \in Tasks, CanWrite(t)
    PROVE  Holders = {t}
<1>1. t \in Holders
  BY WriterHolds DEF Holders, CanWrite, Executing, Working
<1> QED BY <1>1, OneHolder

\* The holder disappears or stays: what the passage of time and a crash do.
LEMMA ShrinkStep ==
    ASSUME LeaseInv, Holders' \subseteq Holders, UNCHANGED run
    PROVE  Simulated
<1>1. CASE Holders' = Holders
  BY <1>1, QuietStep
<1>2. CASE Holders' # Holders
  <2>1. Holders # {} /\ Holders' = {}
    BY <1>2, OneHolder
  <2> QED BY <2>1 DEF Simulated, Exclusive!Next, Exclusive!Lose, Outcome
<1> QED BY <1>1, <1>2

\* Time and crashes can only end a holding; a cancellation request is a stutter.
LEMMA EnvironmentSimulated ==
    ASSUME LeaseInv,
           Tick \/ RequestCancellation \/ \E o \in Owners : Crash(o)
    PROVE  Simulated
<1>1. CASE Tick
  <2>1. Holders' \subseteq Holders
    BY <1>1 DEF Tick, Holders, LeaseInv, TypeOK
  <2> QED BY <1>1, <2>1, ShrinkStep DEF Tick
<1>2. CASE RequestCancellation
  <2>1. Holders' = Holders
    BY <1>2 DEF RequestCancellation, Holders, LeaseInv, TypeOK
  <2> QED BY <1>2, <2>1, QuietStep DEF RequestCancellation
<1>3. ASSUME NEW o \in Owners, Crash(o) PROVE Simulated
  <2>1. Holders' \subseteq Holders
    BY <1>3 DEF Crash, Holders, Working
  <2> QED BY <1>3, <2>1, ShrinkStep DEF Crash
<1> QED BY <1>1, <1>2, <1>3

\* The confirming read of bind is Take; everything before and after it stutters.
LEMMA BindSimulated ==
    ASSUME LeaseInv, NEW t \in Tasks, BindStep(t)
    PROVE  Simulated
<1>1. CASE Begin(t)
  <2>1. Holders' = Holders
    BY <1>1, SameHolders DEF Begin, Goto, Active, Working, LeaseInv, TypeOK
  <2>2. run'.ckpt = run.ckpt /\ Outcome' = Outcome
    BY <1>1 DEF Begin, Outcome, Terminal, LeaseInv, TypeOK
  <2> QED BY <2>1, <2>2 DEF Simulated, Exclusive!vars
<1>2. CASE Resume(t) \/ BindGet(t) \/ BindRefused(t) \/ BindError(t)
  <2>1. Holders' = Holders
    BY <1>2, SameHolders DEF Resume, BindGet, BindRefused, BindError, Unbound, Goto,
                             Active, Working, LeaseInv, TypeOK
  <2> QED BY <1>2, <2>1, QuietStep DEF Resume, BindGet, BindRefused, BindError
<1>3. CASE BindClaim(t)
  <2>1. Holders = {}
    BY <1>3, OwnerAssumption DEF BindClaim, Claimable, LiveLease, Holders
  <2>2. Holders' = {}
    BY <1>3 DEF BindClaim, Holders, LeaseInv, TypeOK, ClaimInv
  <2> QED BY <1>3, <2>1, <2>2, QuietStep DEF BindClaim
<1>4. CASE BindConfirm(t)
  <2>1. Holders = {}
    BY <1>4 DEF BindConfirm, Holders, LeaseInv, ConfirmInv
  <2>2. Holders' = {t}
    BY <1>4 DEF BindConfirm, Goto, Holders, Working, LeaseInv, TypeOK, ConfirmInv
  <2> QED BY <1>4, <2>1, <2>2 DEF BindConfirm, Simulated, Exclusive!Next, Exclusive!Take, Outcome
<1>5. CASE Attach(t) \/ AttachFails(t)
  <2>1. Holders' = Holders
    BY <1>5, SameHolders DEF Attach, AttachFails, Goto, Active, Working, LeaseInv, TypeOK
  <2> QED BY <1>5, <2>1, QuietStep DEF Attach, AttachFails
<1> QED BY <1>1, <1>2, <1>3, <1>4, <1>5 DEF BindStep

\* A checkpoint is Advance, a terminal commit Settle (or Abandon when the bind
\* of a fresh Run failed), the release Lose; attempts stutter.
LEMMA WorkSimulated ==
    ASSUME LeaseInv, NEW t \in Tasks, WorkStep(t)
    PROVE  Simulated
<1>1. CASE Reserve(t) \/ SettleAttempt(t)
  <2>1. Holders' = Holders
    BY <1>1, SameHolders DEF Reserve, SettleAttempt, Goto, Active, Working, LeaseInv, TypeOK
  <2>2. run'.ckpt = run.ckpt /\ run'.status = run.status
    BY <1>1 DEF Reserve, SettleAttempt, LeaseInv, TypeOK
  <2> QED BY <2>1, <2>2 DEF Simulated, Exclusive!vars, Outcome
<1>2. CASE SaveCheckpoint(t)
  <2>1. Holders = {t}
    BY <1>2, WriterIsHolder DEF SaveCheckpoint, CanWrite, Executing
  <2>2. Holders' = Holders
    BY <1>2, SameHolders DEF SaveCheckpoint, Goto, Active, Working, LeaseInv, TypeOK
  <2>3. view[t] = run.ckpt
    BY <2>1, <1>2 DEF SaveCheckpoint, Holders, LeaseInv, ViewInv, Executing
  <2>4. run'.ckpt = run.ckpt + 1 /\ run'.status = run.status /\ run.status = "running"
    BY <1>2, <2>3 DEF SaveCheckpoint, CheckpointRun, LeaseInv, TypeOK
  <2> QED BY <2>1, <2>2, <2>4
          DEF Simulated, Exclusive!Next, Exclusive!Advance, Outcome, Terminal
<1>3. CASE Finish(t) \/ \E s \in Terminal : Stop(t, s)
  <2>1. Holders = {t}
    BY <1>3, WriterIsHolder DEF Finish, Stop, CanWrite, Executing, Working
  <2>2. Holders' = Holders
    BY <1>3, SameHolders DEF Finish, Stop, Goto, Active, Working, LeaseInv, TypeOK
  <2>3. run'.ckpt = run.ckpt /\ run.status = "running" /\ run'.status \in Terminal
    BY <1>3 DEF Finish, Stop, Terminal, LeaseInv, TypeOK
  <2> QED BY <2>1, <2>2, <2>3
          DEF Simulated, Exclusive!Next, Exclusive!Settle, Exclusive!Outcomes, Outcome, Terminal
<1>4. CASE Suspend(t) \/ Rejected(t)
  <2>1. Holders' = Holders
    BY <1>4, SameHolders DEF Suspend, Rejected, Goto, Active, Working, LeaseInv, TypeOK
  <2> QED BY <1>4, <2>1, QuietStep DEF Suspend, Rejected
<1>5. CASE AbortFresh(t)
  <2>1. Holders = {} /\ run.ckpt = 0
    BY <1>5 DEF AbortFresh, Holders, Working, LeaseInv, StartingInv, Starting
  <2>2. Holders' = Holders
    BY <1>5, SameHolders DEF AbortFresh, Goto, Active, Working, LeaseInv, TypeOK
  <2>3. CASE run' = run
    BY <2>2, <2>3, QuietStep
  <2>4. CASE run' # run
    <3>1. run'.ckpt = run.ckpt /\ run.status = "running" /\ run'.status = "canceled"
      BY <1>5, <2>4 DEF AbortFresh, LeaseInv, TypeOK
    <3> QED BY <2>1, <2>2, <3>1 DEF Simulated, Exclusive!Next, Exclusive!Abandon, Outcome, Terminal
  <2> QED BY <2>3, <2>4
<1>6. CASE Close(t)
  <2>1. Holders' \subseteq Holders
    BY <1>6, OwnerAssumption DEF Close, Release, Goto, Holders, Working, LeaseInv, TypeOK
  <2> QED BY <1>6, <2>1, ShrinkStep DEF Close
<1>7. CASE StoreError(t)
  <2>1. Holders' \subseteq Holders
    BY <1>7 DEF StoreError, Goto, Holders, Working, LeaseInv, TypeOK
  <2> QED BY <1>7, <2>1, ShrinkStep DEF StoreError
<1> QED BY <1>1, <1>2, <1>3, <1>4, <1>5, <1>6, <1>7 DEF WorkStep, RoundStep

\* Polling and renewing never change who holds the Run.
LEMMA MonitorSimulated ==
    ASSUME LeaseInv, NEW t \in Tasks, MonitorStep(t)
    PROVE  Simulated
<1>1. CASE MonitorPoll(t)
  BY <1>1, SameHolders, QuietStep DEF MonitorPoll
<1>2. CASE MonitorRenew(t)
  <2>1. CASE Renewable(t)
    <3>1. lease'.expires > now /\ lease'.owner = lease.owner /\ lease'.epoch = lease.epoch
      BY <1>2, <2>1, BoundAssumption DEF MonitorRenew, LeaseInv, TypeOK
    <3>2. Holders' = Holders
      BY <1>2, <2>1, <3>1 DEF MonitorRenew, Renewable, Holders
    <3> QED BY <1>2, <3>2, QuietStep DEF MonitorRenew
  <2>2. CASE ~Renewable(t)
    BY <1>2, <2>2, SameHolders, QuietStep DEF MonitorRenew
  <2> QED BY <2>1, <2>2
<1> QED BY <1>1, <1>2 DEF MonitorStep

\* ImplementsExclusiveRun: at every moment at most one execution drives the Run,
\* it alone commits rounds, one by one, and the Run is settled once.
THEOREM ImplementsExclusiveRun ==
    ASSUME PromptBind
    PROVE  Spec => ExclusiveExecution
<1>1. Init => Exclusive!Init
  BY DEF Init, Exclusive!Init, Holders, Outcome, Terminal, Working
<1>2. LeaseInv /\ [Next]_leaseVars => [Exclusive!Next]_Exclusive!vars
  <2> SUFFICES ASSUME LeaseInv, [Next]_leaseVars PROVE Simulated
    BY DEF Simulated
  <2>1. CASE Next
    BY <2>1, EnvironmentSimulated, BindSimulated, WorkSimulated, MonitorSimulated DEF Next
  <2>2. CASE UNCHANGED leaseVars
    BY <2>2, SameHolders, QuietStep DEF leaseVars
  <2> QED BY <2>1, <2>2
<1> QED BY <1>1, <1>2, LeaseInvariant, PTL DEF Spec, ExclusiveExecution, Exclusive!Spec


-----------------------------------------------------------------------------
(* The call.                                                               *)

USE DEF ApprovalRecord

CallInv ==
    /\ ToolTypeOK
    /\ LeaseInv
    /\ FlightInv
    /\ ResultInv
    /\ ClaimedInv
    /\ EffectOnce
    /\ ReceiptTrue

\* The task is in the call, or the claim is of its epoch.
Bound(t) == tool[t] # "none" \/ (toolClaim /\ claim[t] = assoc.epoch)

CallFrame ==
    /\ \A t \in Tasks : Bound(t) => /\ pc'[t] \in AtCall
                                    /\ claim'[t] = claim[t]
                                    /\ pc'[t] = "settled" => pc[t] = "settled"
    /\ toolClaim => /\ lease'.epoch = lease.epoch
                    /\ \A t \in Tasks : claim'[t] = assoc.epoch => claim[t] = assoc.epoch

-----------------------------------------------------------------------------
(* Steps that leave the call alone.                                        *)

\* A task bound to the call has settled its attempt, is closing or has ended.
LEMMA BoundAtCall ==
    ASSUME CallInv, NEW t \in Tasks, Bound(t)
    PROVE  pc[t] \in AtCall
BY DEF CallInv, Bound, ResultInv, ClaimedInv

\* A step within the frame keeps the invariant of the call.
LEMMA FrameStep ==
    ASSUME CallInv, LeaseInv', CallFrame, UNCHANGED toolVars
    PROVE  CallInv'
<1>1. ToolTypeOK'
  BY DEF CallInv, ToolTypeOK, LeaseInv, toolVars
<1>2. FlightInv'
  BY DEF CallInv, FlightInv, CallFrame, Bound, toolVars
<1>3. ResultInv'
  BY DEF CallInv, ResultInv, CallFrame, Bound, toolVars
<1>4. ClaimedInv'
  <2>1. CASE toolClaim
    <3>1. kind' = "tool" /\ receipt' = "none" /\ assoc'.state = "claimed"
      BY <2>1 DEF CallInv, ClaimedInv, toolVars
    <3>2. assoc'.epoch = lease'.epoch
      BY <2>1 DEF CallInv, ClaimedInv, CallFrame, toolVars
    <3>3. \E t \in Tasks : claim'[t] = assoc'.epoch
      BY <2>1 DEF CallInv, ClaimedInv, CallFrame, Bound, toolVars
    <3>4. ASSUME NEW t \in Tasks, claim'[t] = assoc'.epoch
          PROVE  /\ pc'[t] \in AtCall
                 /\ pc'[t] = "settled" => tool'[t] \in {"flying", "committed",
                                             "notStarted", "unknown", "failed"}
      BY <2>1, <3>4 DEF CallInv, ClaimedInv, CallFrame, Bound, toolVars
    <3> QED BY <2>1, <3>1, <3>2, <3>3, <3>4 DEF ClaimedInv, toolVars
  <2>2. CASE ~toolClaim
    BY <2>2 DEF CallInv, ClaimedInv, toolVars
  <2> QED BY <2>1, <2>2
<1>5. EffectOnce' /\ ReceiptTrue'
  BY DEF CallInv, EffectOnce, ReceiptTrue, toolVars
<1> QED BY <1>1, <1>2, <1>3, <1>4, <1>5 DEF CallInv

\* A task that is not bound moves, the lease and the claims stay.
LEMMA MoveFrame ==
    ASSUME CallInv, NEW t \in Tasks, NEW where, Goto(t, where),
           lease'.epoch = lease.epoch, claim' = claim,
           pc[t] \notin AtCall \/ where \in {"close", "ended"} \/ ~Bound(t)
    PROVE  CallFrame
<1> SUFFICES ASSUME NEW u \in Tasks, Bound(u)
             PROVE  pc'[u] \in AtCall /\ (pc'[u] = "settled" => pc[u] = "settled")
  BY DEF CallFrame
<1>1. pc[u] \in AtCall
  BY BoundAtCall
<1>2. pc' = [pc EXCEPT ![t] = where] /\ pc \in [Tasks -> Pcs]
  BY DEF Goto, CallInv, LeaseInv, TypeOK
<1> QED BY <1>1, <1>2 DEF AtCall

\* Steps of the environment: time, cancellation requests and crashes.
LEMMA EnvFrame ==
    ASSUME CallInv, EnvStep
    PROVE  CallFrame
<1>1. CASE Tick
  BY <1>1, BoundAtCall DEF Tick, CallFrame
<1>2. CASE RequestCancellation
  BY <1>2, BoundAtCall DEF RequestCancellation, CallFrame, CallInv, LeaseInv, TypeOK
<1>3. ASSUME NEW o \in Owners, Crash(o) PROVE CallFrame
  BY <1>3, BoundAtCall DEF Crash, CallFrame, AtCall
<1> QED BY <1>1, <1>2, <1>3 DEF EnvStep

\* A new epoch is opened only when no claim is out.
LEMMA BindClaimFrame ==
    ASSUME CallInv, NEW t \in Tasks, ~UnknownEffect, BindClaim(t)
    PROVE  CallFrame
<1>1. ~toolClaim
  BY DEF UnknownEffect, CallInv, ClaimedInv
<1>2. ASSUME NEW u \in Tasks, Bound(u)
      PROVE  pc'[u] \in AtCall /\ (pc'[u] = "settled" => pc[u] = "settled")
  <2>1. pc[u] \in AtCall
    BY <1>2, BoundAtCall
  <2> QED BY <2>1 DEF BindClaim, Goto, AtCall, CallInv, LeaseInv, TypeOK
<1> QED BY <1>1, <1>2 DEF CallFrame, BindClaim

\* Nobody adopts the epoch of a claim that is out: its task holds it already.
LEMMA BindConfirmFrame ==
    ASSUME CallInv, NEW t \in Tasks, BindConfirm(t)
    PROVE  CallFrame
<1>1. pc[t] = "confirm" /\ lease' = lease /\ claim \in [Tasks -> Nat] /\ pc \in [Tasks -> Pcs]
  BY DEF BindConfirm, CallInv, LeaseInv, TypeOK
<1>2. ~toolClaim
  BY <1>1 DEF CallInv, ClaimedInv, LeaseInv, ConfirmInv
<1>3. ~Bound(t)
  BY <1>1, BoundAtCall DEF AtCall
<1>4. ASSUME NEW u \in Tasks, Bound(u)
      PROVE  pc'[u] = pc[u] /\ claim'[u] = claim[u]
  BY <1>1, <1>3, <1>4 DEF BindConfirm, Goto
<1> QED BY <1>1, <1>2, <1>4, BoundAtCall DEF CallFrame

\* The steps of the lease that a task takes beside the call.
LEMMA LeaseFrame ==
    ASSUME CallInv, NEW t \in Tasks, LeaseStep(t) \/ RefuseUnknown(t)
    PROVE  CallFrame
<1>1. CASE Begin(t) \/ Resume(t) \/ AttachFails(t) \/ Attach(t) \/ SettleAttempt(t)
           \/ Suspend(t) \/ AbortFresh(t)
  BY <1>1, MoveFrame DEF Begin, Resume, AttachFails, Attach, SettleAttempt, Suspend,
     AbortFresh, AtCall
<1>2. CASE BindGet(t) \/ BindError(t) \/ BindRefused(t) \/ RefuseUnknown(t)
  <2>1. PICK where : Goto(t, where)
    BY <1>2 DEF BindGet, BindError, BindRefused, RefuseUnknown
  <2>2. pc[t] \notin AtCall /\ lease' = lease /\ claim' = claim
    BY <1>2 DEF BindGet, BindError, BindRefused, RefuseUnknown, AtCall
  <2> QED BY <2>1, <2>2, MoveFrame
<1>3. CASE tool[t] = "none" /\ (Reserve(t) \/ Finish(t))
  <2>1. PICK where : Goto(t, where)
    BY <1>3 DEF Reserve, Finish
  <2>2. lease' = lease /\ claim' = claim /\ pc[t] \in {"round", "settled"}
    BY <1>3 DEF Reserve, Finish
  <2>3. pc[t] \notin AtCall \/ ~Bound(t)
    BY <1>3, <2>2 DEF Bound, AtCall, CallInv, ClaimedInv
  <2> QED BY <2>1, <2>2, <2>3, MoveFrame
<1>4. CASE \E s \in Terminal : Stop(t, s)
  BY <1>4, MoveFrame DEF Stop
<1>5. CASE Rejected(t) \/ StoreError(t)
  BY <1>5, MoveFrame DEF Rejected, StoreError
<1>6. CASE MonitorStep(t)
  <2>1. lease'.epoch = lease.epoch /\ pc' = pc /\ claim' = claim
    BY <1>6 DEF MonitorStep, MonitorPoll, MonitorRenew, CallInv, LeaseInv, TypeOK
  <2> QED BY <2>1, BoundAtCall DEF CallFrame
<1> QED BY <1>1, <1>2, <1>3, <1>4, <1>5, <1>6, BindClaimFrame, BindConfirmFrame
        DEF LeaseStep

-----------------------------------------------------------------------------
(* The ownership of the Run in the steps that ToolDispatch adds.           *)

\* A takeover that is refused because of a claim only moves the task.
LEMMA RefuseUnknownLease ==
    ASSUME LeaseInv, NEW t \in Tasks, RefuseUnknown(t)
    PROVE  LeaseInv'
<1>1. TypeOK'
  BY DEF RefuseUnknown, Goto, Unbound, LeaseInv, TypeOK, Pcs
<1>2. UnstartedInv' /\ StartingInv'
  BY DEF RefuseUnknown, Goto, Unbound, LeaseInv, TypeOK, UnstartedInv, StartingInv, Starting
<1>3. ClaimInv' /\ ConfirmInv' /\ WorkerInv'
  BY DEF RefuseUnknown, Goto, Unbound, LeaseInv, ClaimInv, ConfirmInv, WorkerInv, Working
<1>4. ViewInv'
  BY DEF RefuseUnknown, Goto, Unbound, LeaseInv, ViewInv, Executing
<1> QED BY <1>1, <1>2, <1>3, <1>4 DEF LeaseInv

\* Attaching at the call compares the checkpoint as attaching at a round does.
LEMMA AttachToolLease ==
    ASSUME LeaseInv, NEW t \in Tasks, AttachTool(t)
    PROVE  LeaseInv'
<1>1. TypeOK'
  BY DEF AttachTool, Goto, LeaseInv, TypeOK, Pcs, Working
<1>2. UnstartedInv' /\ StartingInv'
  BY DEF AttachTool, Goto, LeaseInv, TypeOK, UnstartedInv, StartingInv, Starting
<1>3. ClaimInv' /\ ConfirmInv' /\ WorkerInv'
  BY DEF AttachTool, Goto, LeaseInv, ClaimInv, ConfirmInv, WorkerInv, Working
<1>4. ViewInv'
  BY DEF AttachTool, Goto, CanAttach, LeaseInv, ViewInv, Executing
<1> QED BY <1>1, <1>2, <1>3, <1>4 DEF LeaseInv

\* The tool-ready checkpoint is committed by the holder of the current epoch.
LEMMA PrepareLease ==
    ASSUME LeaseInv, NEW t \in Tasks, Prepare(t)
    PROVE  LeaseInv'
<1>1. PICK where \in {"settled", "close"} : Goto(t, where)
  BY DEF Prepare
<1>2. /\ pc[t] = "settled" /\ claim[t] = lease.epoch /\ run.status = "running"
      /\ lease' = lease /\ claim' = claim /\ now' = now /\ signal' = signal
  BY DEF Prepare, CanPrepare, RequireOwner, RunCanceled
<1>3. view[t] = run.ckpt
  BY <1>2 DEF LeaseInv, ViewInv, Executing
<1> DEFINE Commits ==
             /\ run' = [run EXCEPT !.ckpt = run.ckpt + 1, !.ckptAttempts = run.attempts]
             /\ view' = [view EXCEPT ![t] = view[t] + 1] /\ workers' = {}
<1>4. UNCHANGED <<run, view, workers>> \/ Commits
  BY <1>3 DEF Prepare, CheckpointRun
<1>5. TypeOK'
  <2>1. view[t] + 1 \in Nat /\ run.ckpt + 1 \in Nat
    BY DEF LeaseInv, TypeOK
  <2>2. /\ view' \in [Tasks -> Nat] /\ workers' \in SUBSET Nat
        /\ run' \in [status : {"absent", "running"} \cup Terminal, ckpt : Nat,
                     attempts : Nat, settled : Nat, ckptAttempts : Nat]
    BY <1>4, <2>1 DEF LeaseInv, TypeOK
  <2> QED BY <1>1, <1>2, <2>2 DEF Goto, LeaseInv, TypeOK, Pcs, Working
<1>6. UnstartedInv' /\ StartingInv'
  <2>1. run'.status = "running"
    BY <1>2, <1>4 DEF LeaseInv, TypeOK
  <2>2. \A u \in Tasks : ~Starting(u)
    BY <1>2 DEF LeaseInv, StartingInv, Starting
  <2>3. \A u \in Tasks : ~Starting(u)'
    BY <1>1, <1>2, <1>4, <2>2 DEF Goto, LeaseInv, TypeOK, Starting
  <2> QED BY <2>1, <2>3 DEF UnstartedInv, StartingInv
<1>7. ClaimInv' /\ ConfirmInv'
  BY <1>1, <1>2 DEF Goto, LeaseInv, TypeOK, ClaimInv, ConfirmInv, Working
<1>8. ViewInv'
  <2>1. \A u \in Tasks : pc'[u] \in Executing => pc[u] \in Executing
    BY <1>1, <1>2 DEF Goto, LeaseInv, TypeOK, Executing
  <2>2. CASE UNCHANGED <<run, view, workers>>
    BY <1>2, <2>1, <2>2 DEF LeaseInv, ViewInv
  <2>3. CASE Commits
    <3>1. /\ run'.ckpt = run.ckpt + 1 /\ run'.ckpt # 0
          /\ view'[t] = run'.ckpt
      BY <1>3, <2>3 DEF LeaseInv, TypeOK
    <3>2. \A u \in Tasks : u # t => claim[u] # lease.epoch
      BY <1>2 DEF LeaseInv, ClaimInv, Working
    <3> QED BY <1>2, <3>1, <3>2 DEF ViewInv
  <2> QED BY <1>4, <2>2, <2>3
<1>9. WorkerInv'
  <2>1. CASE UNCHANGED <<run, view, workers>>
    BY <1>2, <2>1 DEF LeaseInv, WorkerInv
  <2>2. CASE Commits
    BY <2>2 DEF LeaseInv, TypeOK, WorkerInv
  <2> QED BY <1>4, <2>1, <2>2
<1> QED BY <1>5, <1>6, <1>7, <1>8, <1>9 DEF LeaseInv

-----------------------------------------------------------------------------
(* The steps of the call.                                                  *)

Outstanding == {"flying", "committed", "notStarted", "unknown", "failed"}

\* A task moves in its call and the claim, the receipt and the effect stay: it
\* must not pass the call while the claim is of its epoch.
LEMMA AdvanceStep ==
    ASSUME CallInv, LeaseInv', NEW t \in Tasks,
           NEW next \in ToolSteps \ {"flying", "committed", "notStarted"}, NEW where,
           ToolGoto(t, next), Goto(t, where),
           UNCHANGED <<toolClaim, assoc, receipt, effects, claim>>,
           lease'.epoch = lease.epoch,
           appr' \in ApprovalRecord, kind' \in {"model", "tool"},
           toolClaim => kind' = "tool",
           next # "none" => where \in AtCall,
           toolClaim /\ claim[t] = assoc.epoch
             => where \in AtCall /\ (where = "settled" => next \in Outstanding)
    PROVE  CallInv'
<1>1. /\ tool' = [tool EXCEPT ![t] = next] /\ tool \in [Tasks -> ToolSteps]
      /\ pc' = [pc EXCEPT ![t] = where] /\ pc \in [Tasks -> Pcs]
  BY DEF ToolGoto, Goto, CallInv, ToolTypeOK, TypeOK
<1>2. ToolTypeOK'
  BY <1>1 DEF CallInv, ToolTypeOK, LeaseInv
<1>3. FlightInv'
  BY <1>1 DEF CallInv, FlightInv
<1>4. ResultInv'
  BY <1>1 DEF CallInv, ResultInv
<1>5. ClaimedInv'
  <2>1. ASSUME toolClaim, NEW u \in Tasks, claim[u] = assoc.epoch
        PROVE  pc'[u] \in AtCall /\ (pc'[u] = "settled" => tool'[u] \in Outstanding)
    BY <1>1, <2>1 DEF CallInv, ClaimedInv, Outstanding
  <2> QED BY <2>1 DEF CallInv, ClaimedInv, Outstanding
<1>6. EffectOnce' /\ ReceiptTrue'
  BY DEF CallInv, EffectOnce, ReceiptTrue
<1> QED BY <1>2, <1>3, <1>4, <1>5, <1>6 DEF CallInv

\* A task whose epoch a claim is of is not before the dispatch.
LEMMA Unclaimed ==
    ASSUME CallInv, NEW t \in Tasks, pc[t] \notin AtCall \/ pc[t] = "settled",
           tool[t] \notin Outstanding, toolClaim
    PROVE  claim[t] # assoc.epoch
BY DEF CallInv, ClaimedInv, Outstanding, AtCall

\* The task stays where it is.
LEMMA Stays ==
    ASSUME CallInv, NEW t \in Tasks, pc' = pc
    PROVE  Goto(t, pc[t])
BY DEF Goto, CallInv, ToolTypeOK, TypeOK

\* The settled response holds the gated call, or it does not.
LEMMA AnswerWithCallStep ==
    ASSUME CallInv, NEW t \in Tasks, AnswerWithCall(t)
    PROVE  CallInv'
<1>1. SettleAttempt(t) /\ LeaseInv'
  BY SettleAttemptStep DEF AnswerWithCall, CallInv
<1>2. /\ pc[t] = "call" /\ Goto(t, "settled") /\ ToolGoto(t, "prepare")
      /\ lease' = lease /\ claim' = claim
      /\ UNCHANGED <<kind, appr, toolClaim, assoc, receipt, effects>>
  BY <1>1 DEF SettleAttempt, AnswerWithCall
<1>3. tool[t] = "none"
  BY <1>2, BoundAtCall DEF Bound, AtCall
<1>4. toolClaim => claim[t] # assoc.epoch
  BY <1>2, <1>3, Unclaimed DEF AtCall, Outstanding
<1> QED BY <1>1, <1>2, <1>4, AdvanceStep DEF ToolSteps, AtCall, CallInv, ToolTypeOK, ClaimedInv

\* A tool-ready checkpoint is restored: the task goes straight to the call.
LEMMA AttachToolStep ==
    ASSUME CallInv, NEW t \in Tasks, AttachTool(t)
    PROVE  CallInv'
<1>1. LeaseInv'
  BY AttachToolLease DEF CallInv
<1>2. /\ pc[t] = "attach" /\ Goto(t, "settled") /\ ToolGoto(t, "prepare")
      /\ lease' = lease /\ claim' = claim
      /\ UNCHANGED <<kind, appr, toolClaim, assoc, receipt, effects>>
  BY DEF AttachTool
<1>3. tool[t] = "none"
  BY <1>2, BoundAtCall DEF Bound, AtCall
<1>4. toolClaim => claim[t] # assoc.epoch
  BY <1>2, <1>3, Unclaimed DEF AtCall, Outstanding
<1> QED BY <1>1, <1>2, <1>4, AdvanceStep DEF ToolSteps, AtCall, CallInv, ToolTypeOK, ClaimedInv

\* A refreshed record is a record.
LEMMA RefreshedType ==
    ASSUME NEW record \in ApprovalRecord
    PROVE  Refreshed(record) \in ApprovalRecord
<1>1. ASSUME NEW st \in {"canceled", "expired"}
      PROVE  [record EXCEPT !.status = st, !.rev = @ + 1] \in ApprovalRecord
  <2>1. record.rev + 1 \in Nat
    OBVIOUS
  <2> QED BY <2>1
<1>2. \/ Refreshed(record) = record
      \/ \E st \in {"canceled", "expired"} :
            Refreshed(record) = [record EXCEPT !.status = st, !.rev = @ + 1]
  BY DEF Refreshed
<1> QED BY <1>1, <1>2

\* prepare: the approval record and its checkpoint in one transaction.
LEMMA PrepareStep ==
    ASSUME CallInv, NEW t \in Tasks, Prepare(t)
    PROVE  CallInv'
<1>1. LeaseInv'
  BY PrepareLease DEF CallInv
<1>2. PICK next \in {"request", "none", "failed"} :
         ToolGoto(t, next) /\ Goto(t, IF next = "none" THEN "close" ELSE "settled")
  BY DEF Prepare
<1>3. /\ pc[t] = "settled" /\ tool[t] = "prepare" /\ kind' = "tool"
      /\ lease' = lease /\ UNCHANGED <<claim, toolClaim, assoc, receipt, effects>>
  BY DEF Prepare, CallInv, ToolTypeOK
<1>4. appr' \in ApprovalRecord
  <2>1. PreparedRecord \in ApprovalRecord
    BY DEF PreparedRecord, CallInv, ToolTypeOK
  <2> QED BY <2>1, RefreshedType DEF Prepare
<1>5. toolClaim => claim[t] # assoc.epoch
  BY <1>3, Unclaimed DEF Outstanding
<1> QED BY <1>1, <1>2, <1>3, <1>4, <1>5, AdvanceStep DEF ToolSteps, AtCall

\* A call that fails to prepare, and the gateway's answer.
LEMMA RequestStep ==
    ASSUME CallInv, NEW t \in Tasks, PrepareFails(t) \/ RequestApproval(t)
    PROVE  CallInv'
<1>1. LeaseInv' /\ leaseVars' = leaseVars
  BY StutterStep DEF CallInv, PrepareFails, RequestApproval, leaseVars
<1>2. PICK next \in {"failed", "dispatch", "refused"} : ToolGoto(t, next)
  BY DEF PrepareFails, RequestApproval
<1>3. /\ pc[t] = "settled" /\ tool[t] \in {"prepare", "request"}
      /\ UNCHANGED <<kind, appr, toolClaim, assoc, receipt, effects>>
  BY DEF PrepareFails, RequestApproval
<1>4. Goto(t, pc[t]) /\ lease' = lease /\ claim' = claim
  BY <1>1, Stays DEF leaseVars
<1>5. toolClaim => claim[t] # assoc.epoch
  BY <1>3, Unclaimed DEF Outstanding
<1> QED BY <1>1, <1>2, <1>3, <1>4, <1>5, AdvanceStep
        DEF ToolSteps, AtCall, CallInv, ToolTypeOK, ClaimedInv

\* The claim is taken: nothing was ever sent, and the epoch is the last one.
LEMMA DispatchStep ==
    ASSUME CallInv, NEW t \in Tasks, ExecuteOnce(t), AcquireClaim(t)
    PROVE  CallInv'
<1>1. LeaseInv' /\ UNCHANGED leaseVars
  BY StutterStep DEF CallInv, ExecuteOnce, leaseVars
<1>2. /\ tool' = [tool EXCEPT ![t] = "flying"] /\ tool \in [Tasks -> ToolSteps]
      /\ toolClaim' /\ assoc' = OwnAssoc(t)
      /\ UNCHANGED <<kind, appr, receipt, effects, pc, claim, lease>>
  BY <1>1 DEF ExecuteOnce, PersistClaim, ToolGoto, leaseVars, CallInv, ToolTypeOK
<1>3. /\ pc[t] = "settled" /\ ~toolClaim /\ receipt = "none" /\ effects = 0
      /\ kind = "tool" /\ claim[t] # 0 /\ claim[t] = lease.epoch
  BY DEF ExecuteOnce, AcquireClaim, Dispatchable, RequireOwner, CallInv, ClaimedInv
<1>4. assoc'.state = "claimed" /\ assoc'.epoch = claim[t]
  BY <1>2 DEF OwnAssoc
<1>5. \A u \in Tasks : claim[u] = claim[t] => u = t
  BY <1>3 DEF CallInv, LeaseInv, ClaimInv
<1>6. ToolTypeOK'
  <2>1. assoc' \in [state : {"none", "claimed", "complete"}, rev : Nat,
                    owner : Owners \cup {NoOwner}, epoch : Nat]
    BY <1>2, OwnerAssumption DEF OwnAssoc, CallInv, ToolTypeOK, TypeOK
  <2> QED BY <1>1, <1>2, <2>1 DEF CallInv, ToolTypeOK, LeaseInv, ToolSteps
<1>7. FlightInv'
  BY <1>2, <1>3, <1>4 DEF CallInv, FlightInv
<1>8. ResultInv'
  BY <1>2, <1>3 DEF CallInv, ResultInv, AtCall
<1>9. ClaimedInv'
  BY <1>2, <1>3, <1>4, <1>5 DEF ClaimedInv, AtCall
<1>10. EffectOnce' /\ ReceiptTrue'
  BY <1>2 DEF CallInv, EffectOnce, ReceiptTrue
<1> QED BY <1>1, <1>6, <1>7, <1>8, <1>9, <1>10 DEF CallInv

\* First transaction of execute_once: replay, refuse or claim.
LEMMA ExecuteOnceStep ==
    ASSUME CallInv, NEW t \in Tasks, ExecuteOnce(t)
    PROVE  CallInv'
<1>1. CASE AcquireClaim(t)
  BY <1>1, DispatchStep
<1>2. CASE ~AcquireClaim(t)
  <2>1. LeaseInv' /\ leaseVars' = leaseVars
    BY StutterStep DEF CallInv, ExecuteOnce, leaseVars
  <2>2. PICK next \in {"failed", "done"} : ToolGoto(t, next)
    BY <1>2 DEF ExecuteOnce
  <2>3. /\ pc[t] = "settled" /\ tool[t] = "dispatch"
        /\ UNCHANGED <<kind, appr, toolClaim, assoc, receipt, effects>>
    BY <1>2 DEF ExecuteOnce
  <2>4. Goto(t, pc[t]) /\ lease' = lease /\ claim' = claim
    BY <2>1, Stays DEF leaseVars
  <2>5. toolClaim => claim[t] # assoc.epoch
    BY <2>3, Unclaimed DEF Outstanding
  <2> QED BY <2>1, <2>2, <2>3, <2>4, <2>5, AdvanceStep
          DEF ToolSteps, AtCall, CallInv, ToolTypeOK, ClaimedInv
<1> QED BY <1>1, <1>2

\* A request on the wire is the only one.
LEMMA OneFlight ==
    ASSUME CallInv, NEW t \in Tasks, NEW u \in Tasks, tool[t] = "flying", tool[u] = "flying"
    PROVE  t = u
BY DEF CallInv, FlightInv, LeaseInv, ClaimInv

\* The request of a task arrives, in time or late, with or without an effect.
LEMMA ArrivalStep ==
    ASSUME CallInv, NEW t \in Tasks, NEW e \in {0, 1}, NEW next \in ToolSteps \ {"flying"},
           tool[t] = "flying", effects' = effects + e, ToolGoto(t, next),
           UNCHANGED <<leaseVars, kind, appr, toolClaim, assoc, receipt>>,
           next = "committed" => e = 1,
           next = "notStarted" => e = 0,
           pc[t] = "settled" => next \in Outstanding
    PROVE  CallInv'
<1>1. LeaseInv'
  BY StutterStep DEF CallInv
<1>2. /\ tool' = [tool EXCEPT ![t] = next] /\ tool \in [Tasks -> ToolSteps]
      /\ UNCHANGED <<pc, claim, lease, kind, appr, toolClaim, assoc, receipt>>
  BY DEF ToolGoto, CallInv, ToolTypeOK, leaseVars
<1>3. /\ effects = 0 /\ effects' = e /\ receipt = "none" /\ toolClaim
      /\ claim[t] = assoc.epoch /\ claim[t] # 0 /\ pc[t] \in AtCall
  BY DEF CallInv, FlightInv, ResultInv
<1>4. \A u \in Tasks : u # t => tool[u] # "flying" /\ claim[u] # assoc.epoch
  BY <1>3, OneFlight DEF CallInv, LeaseInv, ClaimInv
<1>5. ToolTypeOK'
  BY <1>1, <1>2, <1>3 DEF CallInv, ToolTypeOK, LeaseInv
<1>6. FlightInv'
  BY <1>2, <1>4 DEF FlightInv
<1>7. ResultInv'
  BY <1>2, <1>3, <1>4 DEF CallInv, ResultInv
<1>8. ClaimedInv'
  BY <1>2, <1>3, <1>4 DEF CallInv, ClaimedInv, Outstanding
<1>9. EffectOnce' /\ ReceiptTrue'
  BY <1>2, <1>3 DEF EffectOnce, ReceiptTrue
<1> QED BY <1>1, <1>5, <1>6, <1>7, <1>8, <1>9 DEF CallInv

\* The handler has its effect while its task still waits for it.
LEMMA HandlerStep ==
    ASSUME CallInv, NEW t \in Tasks, NEW e \in {0, 1},
           NEW n \in {"committed", "notStarted", "unknown", "failed"}, Handler(t, e, n)
    PROVE  CallInv'
BY ArrivalStep DEF Handler, ToolSteps, Outstanding

\* The handler of a dead or canceled task has its effect late.
LEMMA LateEffectStep ==
    ASSUME CallInv, NEW t \in Tasks, NEW e \in {0, 1}, LateEffect(t, e)
    PROVE  CallInv'
BY ArrivalStep DEF LateEffect, ToolSteps

\* The claim is resolved by a receipt that is true; what other tasks remember
\* of their calls does not count any more.
LEMMA ResolvedStep ==
    ASSUME CallInv, toolClaim, UNCHANGED <<leaseVars, kind, appr, effects>>,
           ~toolClaim', toolClaim' \in BOOLEAN,
           assoc' = [assoc EXCEPT !.state = "complete"],
           receipt' = IF effects = 0 THEN "notStarted" ELSE "committed",
           tool' \in [Tasks -> ToolSteps],
           \A u \in Tasks : /\ tool'[u] # "flying"
                            /\ tool'[u] \in {tool[u], "done"}
                            /\ tool'[u] # tool[u] => pc[u] \in AtCall
    PROVE  CallInv'
<1>1. LeaseInv' /\ pc' = pc /\ claim' = claim
  BY StutterStep DEF CallInv, leaseVars
<1>2. ToolTypeOK'
  BY <1>1 DEF CallInv, ToolTypeOK, LeaseInv
<1>3. FlightInv'
  BY DEF FlightInv
<1>4. ResultInv'
  BY <1>1 DEF CallInv, ResultInv
<1>5. ClaimedInv'
  BY DEF CallInv, ClaimedInv, ToolTypeOK
<1>6. EffectOnce' /\ ReceiptTrue'
  BY DEF CallInv, EffectOnce, ReceiptTrue
<1> QED BY <1>1, <1>2, <1>3, <1>4, <1>5, <1>6 DEF CallInv

\* The receipt is stored by the execution that holds the claim.
LEMMA RecordReceiptStep ==
    ASSUME CallInv, NEW t \in Tasks, RecordReceipt(t)
    PROVE  CallInv'
<1>1. /\ pc[t] = "settled" /\ tool[t] \in {"committed", "notStarted", "unknown"}
      /\ UNCHANGED <<leaseVars, kind, appr, effects>>
  BY DEF RecordReceipt
<1>2. CASE MayRecord(t) /\ receipt \in {"none", tool[t]}
  <2>1. assoc.state = "claimed" /\ assoc.epoch = claim[t] /\ claim[t] # 0 /\ tool[t] # "unknown"
    BY <1>2 DEF MayRecord, OwnAssoc, RequireOwner
  <2>2. toolClaim
    BY <2>1 DEF CallInv, ClaimedInv
  <2>3. tool[t] = IF effects = 0 THEN "notStarted" ELSE "committed"
    BY <1>1, <2>1, <2>2 DEF CallInv, ResultInv
  <2>4. /\ assoc' = [assoc EXCEPT !.state = "complete"] /\ receipt' = tool[t]
        /\ toolClaim' = FALSE /\ tool' = [tool EXCEPT ![t] = "done"]
        /\ tool \in [Tasks -> ToolSteps]
    BY <1>2 DEF RecordReceipt, ToolGoto, CallInv, ToolTypeOK
  <2>5. \A u \in Tasks : tool[u] = "flying" => u = t
    BY <2>1, <2>2 DEF CallInv, FlightInv, LeaseInv, ClaimInv
  <2>6. tool' \in [Tasks -> ToolSteps]
    BY <2>4 DEF ToolSteps
  <2>7. \A u \in Tasks : /\ tool'[u] # "flying" /\ tool'[u] \in {tool[u], "done"}
                         /\ tool'[u] # tool[u] => pc[u] \in AtCall
    BY <1>1, <2>4, <2>5 DEF AtCall
  <2>8. ~toolClaim' /\ toolClaim' \in BOOLEAN
    BY <2>4
  <2> QED BY <1>1, <2>2, <2>3, <2>4, <2>6, <2>7, <2>8, ResolvedStep
<1>3. CASE ~(MayRecord(t) /\ receipt \in {"none", tool[t]})
  <2>1. LeaseInv' /\ Goto(t, pc[t]) /\ lease' = lease /\ claim' = claim
    BY <1>1, StutterStep, Stays DEF CallInv, leaseVars
  <2>2. ToolGoto(t, "failed") /\ UNCHANGED <<kind, appr, assoc, receipt, toolClaim, effects>>
    BY <1>1, <1>3 DEF RecordReceipt
  <2> QED BY <1>1, <2>1, <2>2, AdvanceStep
          DEF ToolSteps, AtCall, Outstanding, CallInv, ToolTypeOK, ClaimedInv
<1> QED BY <1>2, <1>3

\* A call that is over, or was refused, is left behind: its epoch has no claim.
LEMMA CheckpointAfterCallStep ==
    ASSUME CallInv, NEW t \in Tasks, CheckpointAfterCall(t)
    PROVE  CallInv'
<1>1. SaveCheckpoint(t) /\ LeaseInv'
  BY SaveCheckpointStep DEF CheckpointAfterCall, CallInv
<1>2. /\ pc[t] = "settled" /\ tool[t] \notin Outstanding /\ Goto(t, "round")
      /\ ToolGoto(t, "none") /\ lease' = lease /\ claim' = claim /\ kind' = "model"
      /\ UNCHANGED <<appr, toolClaim, assoc, receipt, effects>>
  BY <1>1 DEF SaveCheckpoint, CheckpointAfterCall, Outstanding
<1>3. ~toolClaim
  <2>1. claim[t] = lease.epoch
    BY <1>1, WriterHolds DEF SaveCheckpoint, CanWrite, Executing, CallInv
  <2> QED BY <1>2, <2>1, Unclaimed DEF CallInv, ClaimedInv
<1> QED BY <1>1, <1>2, <1>3, AdvanceStep DEF ToolSteps, CallInv, ToolTypeOK

\* Closing gives up the lease; a request on the wire stays on it.
LEMMA CloseToolStep ==
    ASSUME CallInv, NEW t \in Tasks, CloseTool(t)
    PROVE  CallInv'
<1>1. Close(t) /\ LeaseInv'
  BY CloseStep DEF CloseTool, CallInv
<1>2. /\ pc[t] = "close" /\ Goto(t, "ended") /\ claim' = claim /\ lease'.epoch = lease.epoch
      /\ UNCHANGED <<kind, appr, toolClaim, assoc, receipt, effects>>
  BY <1>1 DEF Close, Release, CloseTool, CallInv, LeaseInv, TypeOK
<1>3. CASE tool[t] = "flying"
  <2>1. UNCHANGED toolVars
    BY <1>2, <1>3 DEF CloseTool, ToolGoto, toolVars, CallInv, ToolTypeOK
  <2> QED BY <1>1, <1>2, <2>1, MoveFrame, FrameStep
<1>4. CASE tool[t] # "flying"
  <2>1. ToolGoto(t, "none")
    BY <1>4 DEF CloseTool
  <2> QED BY <1>1, <1>2, <2>1, AdvanceStep
          DEF ToolSteps, AtCall, CallInv, ToolTypeOK, ClaimedInv
<1> QED BY <1>3, <1>4

-----------------------------------------------------------------------------
(* The host.                                                               *)

\* A decision or a refresh changes the approval record and nothing else.
LEMMA ApprovalStep ==
    ASSUME CallInv, RefreshApproval \/ \E d \in {"approve", "reject"} : Decide(d)
    PROVE  CallInv'
<1>1. UNCHANGED <<leaseVars, kind, tool, toolClaim, assoc, receipt, effects>>
  BY DEF RefreshApproval, Decide
<1>2. LeaseInv' /\ pc' = pc /\ claim' = claim /\ lease' = lease
  BY <1>1, StutterStep DEF CallInv, leaseVars
<1>3. appr' \in ApprovalRecord
  <2>1. appr \in ApprovalRecord
    BY DEF CallInv, ToolTypeOK
  <2>2. Refreshed(appr) \in ApprovalRecord
    BY <2>1, RefreshedType
  <2>3. Refreshed(appr).rev + 1 \in Nat
    BY <2>2
  <2> QED BY <2>2, <2>3 DEF RefreshApproval, Decide
<1>4. ToolTypeOK'
  BY <1>1, <1>2, <1>3 DEF CallInv, ToolTypeOK, LeaseInv
<1>5. FlightInv' /\ ResultInv' /\ ClaimedInv' /\ EffectOnce' /\ ReceiptTrue'
  BY <1>1, <1>2 DEF CallInv, FlightInv, ResultInv, ClaimedInv, EffectOnce, ReceiptTrue
<1> QED BY <1>2, <1>4, <1>5 DEF CallInv

\* The host's result is the case, so nothing is on the wire any more.
LEMMA ReconcileResultStep ==
    ASSUME CallInv, NEW r \in {"committed", "notStarted"}, ReconcileResult(r)
    PROVE  CallInv'
<1>1. /\ toolClaim /\ UNCHANGED <<leaseVars, kind, tool, appr, effects>>
      /\ ~toolClaim' /\ toolClaim' \in BOOLEAN
      /\ assoc' = [assoc EXCEPT !.state = "complete"] /\ receipt' = r
  BY DEF ReconcileResult, Reconcilable
<1>2. r = IF effects = 0 THEN "notStarted" ELSE "committed"
  BY DEF ReconcileResult, CallInv, ToolTypeOK
<1>3. \A u \in Tasks : tool[u] # "flying"
  BY DEF ReconcileResult, CallInv, FlightInv, ToolTypeOK
<1>4. tool' \in [Tasks -> ToolSteps]
  BY <1>1 DEF CallInv, ToolTypeOK
<1> QED BY <1>1, <1>2, <1>3, <1>4, ResolvedStep

\* A proof of non-execution frees the call for another dispatch.
LEMMA ReconcileNotExecutedStep ==
    ASSUME CallInv, ReconcileNotExecuted
    PROVE  CallInv'
<1>1. /\ toolClaim /\ effects = 0 /\ UNCHANGED <<leaseVars, kind, tool, appr, receipt, effects>>
      /\ toolClaim' = FALSE /\ assoc' = NoAssoc /\ \A u \in Tasks : tool[u] # "flying"
  BY DEF ReconcileNotExecuted, Reconcilable
<1>2. LeaseInv' /\ pc' = pc
  BY <1>1, StutterStep DEF CallInv, leaseVars
<1>3. ToolTypeOK'
  BY <1>1, <1>2, OwnerAssumption DEF NoAssoc, CallInv, ToolTypeOK, LeaseInv
<1>4. FlightInv' /\ ResultInv'
  BY <1>1, <1>2 DEF CallInv, FlightInv, ResultInv
<1>5. ClaimedInv'
  BY <1>1 DEF CallInv, ClaimedInv, NoAssoc
<1>6. EffectOnce' /\ ReceiptTrue'
  BY <1>1 DEF CallInv, EffectOnce, ReceiptTrue
<1> QED BY <1>2, <1>3, <1>4, <1>5, <1>6 DEF CallInv

-----------------------------------------------------------------------------
(* The theorems.                                                           *)

\* At first nothing is called.
LEMMA ToolInitInv == ToolInit => CallInv
<1> SUFFICES ASSUME ToolInit PROVE CallInv
  OBVIOUS
<1>1. LeaseInv
  BY InitInv DEF ToolInit
<1>2. ToolTypeOK
  BY <1>1 DEF ToolInit, ToolTypeOK, LeaseInv, NoAssoc, ToolSteps
<1>3. FlightInv /\ ResultInv /\ ClaimedInv /\ EffectOnce /\ ReceiptTrue
  BY DEF ToolInit, FlightInv, ResultInv, ClaimedInv, EffectOnce, ReceiptTrue, NoAssoc
<1> QED BY <1>1, <1>2, <1>3 DEF CallInv

\* The lease's own part of a step beside the call.
LEMMA LeaseBeside ==
    ASSUME LeaseInv, PromptBind,
           EnvStep \/ \E t \in Tasks : LeaseStep(t) \/ RefuseUnknown(t)
    PROVE  LeaseInv'
<1>1. CASE EnvStep
  BY <1>1, TickStep, RequestCancellationStep, CrashStep DEF EnvStep
<1>2. ASSUME NEW t \in Tasks, RefuseUnknown(t) PROVE LeaseInv'
  BY <1>2, RefuseUnknownLease
<1>3. ASSUME NEW t \in Tasks, LeaseStep(t) PROVE LeaseInv'
  <2>1. BindStep(t) \/ WorkStep(t) \/ MonitorStep(t)
    BY <1>3 DEF LeaseStep, BindStep, WorkStep, RoundStep
  <2> QED BY <2>1, NextStep DEF Next
<1> QED BY <1>1, <1>2, <1>3

\* Every step keeps CallInv.
LEMMA ToolNextStep ==
    ASSUME CallInv, PromptBind, ToolNext
    PROVE  CallInv'
<1>1. CASE EnvStep /\ UNCHANGED toolVars
  BY <1>1, EnvFrame, LeaseBeside, FrameStep DEF CallInv
<1>2. ASSUME NEW t \in Tasks, LeaseStep(t) \/ RefuseUnknown(t), UNCHANGED toolVars
      PROVE  CallInv'
  BY <1>2, LeaseFrame, LeaseBeside, FrameStep DEF CallInv
<1>3. ASSUME NEW t \in Tasks, CallStep(t) PROVE CallInv'
  BY <1>3, AnswerWithCallStep, AttachToolStep, PrepareStep, RequestStep, ExecuteOnceStep,
     HandlerStep, LateEffectStep, RecordReceiptStep, CheckpointAfterCallStep, CloseToolStep
     DEF CallStep
<1>4. CASE HostStep
  BY <1>4, ApprovalStep, ReconcileResultStep, ReconcileNotExecutedStep DEF HostStep
<1> QED BY <1>1, <1>2, <1>3, <1>4 DEF ToolNext

\* A stuttering step keeps CallInv.
LEMMA ToolStutter ==
    ASSUME CallInv, UNCHANGED vars
    PROVE  CallInv'
<1>1. LeaseInv' /\ UNCHANGED toolVars /\ pc' = pc /\ claim' = claim /\ lease' = lease
  BY StutterStep DEF CallInv, vars, leaseVars
<1>2. CallFrame
  BY <1>1, BoundAtCall DEF CallFrame
<1> QED BY <1>1, <1>2, FrameStep

\* A writer holds the last epoch, and a claim that is out is of that epoch.
LEMMA CallInvImplies ==
    ASSUME CallInv
    PROVE  DispatchInv
<1>1. UnknownBlocksTakeover
  BY WriterHolds DEF CallInv, ClaimedInv, UnknownBlocksTakeover
<1>2. FreshView
  BY WriterHolds DEF FreshView, CallInv, LeaseInv, ViewInv, CanWrite
<1> QED BY <1>1, <1>2 DEF CallInv, DispatchInv

\* CallInvariant: the ownership of the Run, the single request on the wire and
\* the truth of the receipt hold together in every behaviour of the gated call.
THEOREM CallInvariant ==
    ASSUME PromptBind
    PROVE  ToolSpec => []CallInv
<1>1. CallInv /\ [ToolNext]_vars => CallInv'
  BY ToolNextStep, ToolStutter
<1> QED BY <1>1, ToolInitInv, PTL DEF ToolSpec

\* DispatchInvariant: an outcome that is not known keeps every other execution
\* from writing to the Run, and whoever can write works from the stored
\* checkpoint, for any tasks, owners, approval expiry and bounds.
THEOREM DispatchInvariant ==
    ASSUME PromptBind
    PROVE  ToolSpec => []DispatchInv
BY CallInvariant, CallInvImplies, PTL

\* EffectOnceHolds: through crashes, takeovers, replays and reconciliations the
\* handler's external effect happens at most once.
THEOREM EffectOnceHolds ==
    ASSUME PromptBind
    PROVE  ToolSpec => []EffectOnce
<1>1. CallInv => EffectOnce
  BY DEF CallInv
<1> QED BY <1>1, CallInvariant, PTL

\* ReceiptTrueHolds: the receipt execute_once or reconcile_tool stores tells what
\* happened outside.
THEOREM ReceiptTrueHolds ==
    ASSUME PromptBind
    PROVE  ToolSpec => []ReceiptTrue
<1>1. CallInv => ReceiptTrue
  BY DEF CallInv
<1> QED BY <1>1, CallInvariant, PTL

\* Only a dispatch, a recorded result and a reconciliation touch the claim and
\* the receipt.
LEMMA Untouched ==
    ASSUME ToolNext,
           ~(\E t \in Tasks : ExecuteOnce(t) \/ RecordReceipt(t)),
           ~(\E r \in {"committed", "notStarted"} : ReconcileResult(r)),
           ~ReconcileNotExecuted
    PROVE  UNCHANGED <<toolClaim, assoc, receipt>>
<1>1. ASSUME NEW t \in Tasks, CallStep(t) PROVE UNCHANGED <<toolClaim, assoc, receipt>>
  BY <1>1 DEF CallStep, AnswerWithCall, AttachTool, Prepare, PrepareFails, RequestApproval,
     Handler, LateEffect, CheckpointAfterCall, CloseTool
<1>2. CASE HostStep
  BY <1>2 DEF HostStep, Decide, RefreshApproval
<1> QED BY <1>1, <1>2 DEF ToolNext, toolVars

\* A step changes no receipt, and claims a call only while it may be dispatched.
LEMMA DispatchStepsStep ==
    ASSUME CallInv, ToolNext
    PROVE  ReceiptFinal /\ DispatchStillAllowed
<1>1. toolClaim \in BOOLEAN /\ (receipt # "none" => ~toolClaim /\ assoc.state = "complete")
  BY DEF CallInv, ClaimedInv, ToolTypeOK
<1>2. ASSUME NEW t \in Tasks, ExecuteOnce(t) PROVE ReceiptFinal /\ DispatchStillAllowed
  <2>1. CASE AcquireClaim(t)
    <3>1. receipt = "none" /\ Dispatchable(t) /\ ~CompletedReceipt
      BY <2>1 DEF AcquireClaim, CompletedReceipt
    <3>2. LiveLease
      BY <3>1, OwnerAssumption DEF Dispatchable, RequireOwner, LiveLease
    <3> QED BY <3>1, <3>2 DEF Dispatchable, ReceiptFinal, DispatchStillAllowed
  <2>2. CASE ~AcquireClaim(t)
    BY <1>2, <2>2 DEF ExecuteOnce, ReceiptFinal, DispatchStillAllowed
  <2> QED BY <2>1, <2>2
<1>3. ASSUME NEW t \in Tasks, RecordReceipt(t) PROVE ReceiptFinal /\ DispatchStillAllowed
  <2>1. CASE MayRecord(t) /\ receipt \in {"none", tool[t]}
    <3>1. assoc.state = "claimed"
      BY <2>1 DEF MayRecord, OwnAssoc
    <3> QED BY <1>1, <1>3, <2>1, <3>1 DEF RecordReceipt, ReceiptFinal, DispatchStillAllowed
  <2>2. CASE ~(MayRecord(t) /\ receipt \in {"none", tool[t]})
    BY <1>3, <2>2 DEF RecordReceipt, ReceiptFinal, DispatchStillAllowed
  <2> QED BY <2>1, <2>2
<1>4. ASSUME NEW r \in {"committed", "notStarted"}, ReconcileResult(r)
      PROVE  ReceiptFinal /\ DispatchStillAllowed
  BY <1>1, <1>4 DEF ReconcileResult, Reconcilable, ReceiptFinal, DispatchStillAllowed
<1>5. CASE ReconcileNotExecuted
  BY <1>1, <1>5 DEF ReconcileNotExecuted, Reconcilable, ReceiptFinal, DispatchStillAllowed
<1>6. CASE UNCHANGED <<toolClaim, assoc, receipt>>
  BY <1>6 DEF ReceiptFinal, DispatchStillAllowed
<1> QED BY <1>2, <1>3, <1>4, <1>5, <1>6, Untouched

\* DispatchStepsHold: a receipt and its association never change, and a call is
\* claimed for dispatch only under a live lease, an approval in force and a Run
\* that nobody asked to cancel.
THEOREM DispatchStepsHold ==
    ASSUME PromptBind
    PROVE  ToolSpec => DispatchSteps
<1>1. CallInv /\ [ToolNext]_vars => [ReceiptFinal /\ DispatchStillAllowed]_vars
  BY DispatchStepsStep
<1> QED BY <1>1, CallInvariant, PTL DEF ToolSpec, DispatchSteps
=============================================================================
