----------------------------- MODULE AgentJoin -----------------------------
(***************************************************************************)
(* The executions of one run tree and the joins that schedule them:         *)
(* _AgentTreeSchedulingCapability, AgentResultReceiver, the executor that   *)
(* routes a child back through the core, and the settlement of the Root.    *)
(* Each call of the repository is one step; a join or an execution may be   *)
(* overtaken between any two of them (the SQLite port suspends in BEGIN).   *)
(* Which runnable run goes first (priority, age) is left open.              *)
(***************************************************************************)
EXTENDS RunTree

CONSTANTS
    MaxBoots,                 \* bound: how often the Root is executed
    Asking,                   \* bound: the runs that reach a checkpoint and ask the user
    HostCancels, HostCloses   \* bound: the runs and Agents the host acts on

VARIABLES
    execs,     \* the executions alive, or ended and not yet awaited
    joins,     \* the receiver task of each command (AgentResultReceiver)
    got,       \* the results each run has received
    ckpt,      \* the canonical children with an execution checkpoint
    stop,      \* the cancellation signal of the Root
    boot       \* executions of the Root so far, the current lease owner

schedVars == <<execs, joins, got, ckpt, stop, boot>>
vars == <<treeVars, schedVars>>

ASSUME BootShape ==
    /\ MaxBoots \in Nat \ {0} /\ Owners = 1..MaxBoots
    /\ HostCancels \subseteq Runs /\ HostCloses \subseteq Agents

NoJoin == [pc |-> "none", claim |-> NoClaim, pending |-> {}, active |-> {},
           attempted |-> {}, cand |-> {}]

Finished == {"done", "canceled", "failed", "stalled"}
JoinStages == {"start", "aggregate", "remark", "list", "claim", "probe", "wait",
               "cancel", "reap", "release", "releaseCanceled"}

Running == {"begin", "failstop", "submit", "work", "open", "receive", "drain"}
Closing == {"close", "gather"}
Settle == {"complete", "fail", "cancel", "suspend", "leave"}
Over == {"ended", "raised"}

Key(x) == <<x.run, x.claim.epoch>>
Of(r) == {b \in Commands : By[b] = r}
Pending(b) == joins[b].pc \notin Finished \cup {"none"}

\* The execution of a claim, and the task that receives a command's results.
Execution ==
    [run : Runs, claim : Claims \cup {NoClaim}, pc : Running \cup Closing \cup Settle \cup Over,
     then : Settle, cmd : Commands \cup {0}, version : Nat]
ReceiverTask ==
    [pc : JoinStages \cup Finished \cup {"none"}, claim : Claims \cup {NoClaim},
     pending : SUBSET Runs, active : SUBSET (Runs \X Nat), attempted : SUBSET Runs,
     cand : SUBSET Runs]

JoinTypeOK ==
    /\ execs \subseteq Execution /\ joins \in [Commands -> ReceiverTask]
    /\ got \in [Runs -> SUBSET Runs]
    /\ ckpt \subseteq Runs /\ stop \in BOOLEAN /\ boot \in Owners

\* Who acts for whom: an execution has a claim of its own run and works for one
\* command at a time, a join has its requester's claim and awaits executions of
\* the command's runs, each of which is still there.
Parties ==
    /\ \A x \in execs : /\ x.claim \in ClaimsOf(x.run)
                        /\ x.pc \in {"open", "receive", "drain"} =>
                              x.cmd \in Commands /\ By[x.cmd] = x.run
    /\ \A x, y \in execs : Key(x) = Key(y) => x = y
    /\ \A b \in Commands :
          /\ joins[b].pc # "none" => joins[b].claim \in ClaimsOf(By[b])
          /\ joins[b].pending \cup joins[b].cand \subseteq Kids[b]
          /\ \A k \in joins[b].active :
                k[1] \in Kids[b] /\ \E x \in execs : Key(x) = k

RootExec == [run |-> Root, claim |-> NoClaim, pc |-> "work", then |-> "fail",
             cmd |-> 0, version |-> agents[AgentOf[Root]].version]

JoinInit ==
    /\ TreeInit
    /\ execs = {RootExec}
    /\ joins = [b \in Commands |-> NoJoin]
    /\ got = [r \in Runs |-> {}]
    /\ ckpt = {} /\ stop = FALSE /\ boot = 1

-----------------------------------------------------------------------------
(* An execution.                                                           *)

Becomes(x, y) == execs' = (execs \ {x}) \cup {y}
Goes(x, pc) == Becomes(x, [x EXCEPT !.pc = pc])
Leaves(x, then) == Becomes(x, [x EXCEPT !.pc = "close", !.then = then])

\* A task nobody awaits is gone when it ends.
End(x, how) ==
    IF \E b \in Commands : Key(x) \in joins[b].active
    THEN Goes(x, how)
    ELSE execs' = execs \ {x}

\* A predecessor did not complete.
Blocked(r) == \E d \in Deps[r] : runs[d].st # "done"

\* _execute_claimed up to the executor, and _reconcile_canonical_run.
Begin(x) ==
    /\ x.pc = "begin"
    /\ Becomes(x, [x EXCEPT
          !.version = agents[AgentOf[x.run]].version,
          !.pc = IF Blocked(x.run) \/ canon[x.run] = "failed" THEN "fail"
                 ELSE CASE canon[x.run] = "none" -> "submit"
                        [] canon[x.run] = "done" -> "complete"
                        [] canon[x.run] = "canceled" -> "cancel"
                        [] canon[x.run] = "running" /\ x.run \in ckpt -> "work"
                        [] OTHER -> "failstop"])
    /\ UNCHANGED <<treeVars, joins, got, ckpt, stop, boot>>

\* A canonical Run that began and has no cursor is failed, never replayed.
FailStop(x) ==
    /\ x.pc = "failstop"
    /\ \/ CommitCanonical(x.run, x.claim, "failed")
       \/ ~MayWrite(x.run, x.claim) /\ UNCHANGED treeVars
       \/ canon[x.run] # "running" /\ UNCHANGED treeVars
    /\ Goes(x, "fail")
    /\ UNCHANGED <<joins, got, ckpt, stop, boot>>

Submit(x) ==
    /\ x.pc = "submit"
    /\ \/ CreateCanonical(x.run, x.claim) /\ Goes(x, "work")
       \/ ~MayWrite(x.run, x.claim) /\ UNCHANGED treeVars /\ Goes(x, "fail")
    /\ UNCHANGED <<joins, got, ckpt, stop, boot>>

\* delegateToAgents and continueAgent, or receiveAgentResults for a command
\* whose runs exist already (a replayed key).
Delegate(x, b) ==
    /\ x.pc = "work" /\ By[b] = x.run
    /\ \/ SpawnAgents(b, x.claim)
       \/ ContinueAgent(b, x.claim)
       \/ ~Unused(b) /\ ~(Kids[b] \subseteq got[x.run]) /\ UNCHANGED treeVars
    /\ Becomes(x, [x EXCEPT !.pc = "open", !.cmd = b])
    /\ UNCHANGED <<joins, got, ckpt, stop, boot>>

\* AgentResultReceiver.receive: one join task per requester and set of runs,
\* whichever execution asks.
OpenReceiver(x) ==
    /\ x.pc = "open"
    /\ IF HasClaim(x.run, x.claim)
       THEN /\ joins' = IF joins[x.cmd].pc = "none"
                        THEN [joins EXCEPT ![x.cmd] = [NoJoin EXCEPT !.pc = "start", !.claim = x.claim]]
                        ELSE joins
            /\ Goes(x, "receive")
       ELSE Goes(x, "work") /\ UNCHANGED joins
    /\ UNCHANGED <<treeVars, got, ckpt, stop, boot>>

Available(x) == {k \in Kids[x.cmd] : IsTerminal(k)} \ got[x.run]

Receive(x) ==
    /\ x.pc = "receive"
    /\ \/ /\ joins[x.cmd].pc = "done"
          /\ got' = [got EXCEPT ![x.run] = @ \cup Available(x)]
       \/ /\ joins[x.cmd].pc \in Finished \ {"done"}
          /\ UNCHANGED got
       \/ /\ Pending(x.cmd) /\ Available(x) # {}
          /\ \E k \in Kids[x.cmd] : IsActive(k)
          /\ got' = [got EXCEPT ![x.run] = @ \cup Available(x)]
    /\ Goes(x, "work")
    /\ UNCHANGED <<treeVars, joins, ckpt, stop, boot>>

\* asyncio cancels a join: its handler cancels the targets, unless it is
\* already in that handler or in its finally block.
CanceledJoin(j) ==
    CASE j.pc \in {"start", "cancel", "reap", "release", "releaseCanceled"} ->
            [j EXCEPT !.pc = "canceled"]
      [] j.pc \in Finished \cup {"none"} -> j
      [] OTHER -> [j EXCEPT !.pc = "cancel", !.cand = {}]

\* The caller of receive sees the signal and cancels the join; it may itself be
\* canceled while it waits for it.
CancelReceive(x) ==
    /\ stop /\ x.pc = "receive"
    /\ joins' = [joins EXCEPT ![x.cmd] = CanceledJoin(@)]
    /\ Goes(x, "drain")
    /\ UNCHANGED <<treeVars, got, ckpt, stop, boot>>

\* A committed tool round of a child.
Checkpoint(x) ==
    /\ x.pc = "work" /\ x.run \in Asking \ {Root}
    /\ canon[x.run] = "running" /\ MayWrite(x.run, x.claim)
    /\ ckpt' = ckpt \cup {x.run}
    /\ UNCHANGED <<treeVars, execs, joins, got, stop, boot>>

\* _require_root_agent_tree_quiescent, require_received and the wait for the
\* receivers; a child is not asked.
MayFinish(r) ==
    r = Root => /\ Quiescent(r)
                /\ \A b \in Of(r) : joins[b].pc # "none" => Kids[b] \subseteq got[r]
                /\ \A b \in Of(r) : ~Pending(b)

\* The canonical outcome is committed before the tree is told.
Finish(x, how) ==
    /\ x.pc = "work"
    /\ how = "done" => MayFinish(x.run)
    /\ \/ /\ CommitCanonical(x.run, x.claim, how)
          /\ Leaves(x, IF how = "done" THEN "complete" ELSE "fail")
       \/ /\ ~MayWrite(x.run, x.claim) \/ canon[x.run] # "running"
          /\ UNCHANGED treeVars
          /\ Leaves(x, "fail")
    /\ UNCHANGED <<joins, got, ckpt, stop, boot>>

\* UserInputRequired or ApprovalRequired, at a stored checkpoint.
Suspend(x) ==
    /\ x.pc = "work" /\ x.run \in Asking \cap (ckpt \cup {Root})
    /\ Leaves(x, IF x.run = Root THEN "leave" ELSE "suspend")
    /\ UNCHANGED <<treeVars, joins, got, ckpt, stop, boot>>

\* The signal reaches a working execution: its Run is canceled.
StopExec(x) ==
    /\ stop /\ x.pc \in {"work", "open", "receive", "drain"}
    /\ \/ CommitCanonical(x.run, x.claim, "canceled")
       \/ ~MayWrite(x.run, x.claim) /\ UNCHANGED treeVars
       \/ canon[x.run] # "running" /\ UNCHANGED treeVars
    /\ Leaves(x, "cancel")
    /\ UNCHANGED <<joins, got, ckpt, stop, boot>>

Supervised(x) == x.run # Root /\ x.pc \in Running \cup Closing

Heartbeat(x) ==
    /\ Supervised(x)
    /\ RenewRunLease(x.run, x.claim)
    /\ UNCHANGED schedVars

\* The renewal raises: the execution is canceled and its run failed, if the
\* claim still allows that.
LoseLease(x) ==
    /\ Supervised(x) /\ ~Renewable(x.run, x.claim) /\ ~(x.pc \in Closing /\ x.then = "fail")
    /\ Becomes(x, [x EXCEPT !.pc = IF @ = "gather" THEN @ ELSE "close", !.then = "fail"])
    /\ UNCHANGED <<treeVars, joins, got, ckpt, stop, boot>>

\* AgentResultReceiver.close in the finally block of the Run.
Close(x) ==
    /\ x.pc = "close"
    /\ joins' = [b \in Commands |-> IF b \in Of(x.run) THEN CanceledJoin(joins[b]) ELSE joins[b]]
    /\ Goes(x, "gather")
    /\ UNCHANGED <<treeVars, got, ckpt, stop, boot>>

\* A cancellation handler works on its targets one by one.
Gather(x) ==
    /\ x.pc = "gather"
    /\ \A b \in Of(x.run) : ~Pending(b)
    /\ joins' = [b \in Commands |-> IF b \in Of(x.run) THEN NoJoin ELSE joins[b]]
    /\ got' = [got EXCEPT ![x.run] = {}]
    /\ Goes(x, x.then)
    /\ UNCHANGED <<treeVars, ckpt, stop, boot>>

\* _execute_claimed after the executor; _settle_root_agent_tree_run.
Complete(x) ==
    /\ x.pc = "complete"
    /\ \/ CompleteRun(x.run, x.claim, x.version) /\ End(x, "ended")
       \/ /\ ~(Completable(x.run, x.claim) /\ agents[AgentOf[x.run]].version = x.version)
          /\ End(x, "raised") /\ UNCHANGED treeVars
    /\ UNCHANGED <<joins, got, ckpt, stop, boot>>

Fail(x) ==
    /\ x.pc = "fail"
    /\ \/ FailRun(x.run, x.claim) /\ End(x, "ended")
       \/ ~IsActive(x.run) /\ End(x, "ended") /\ UNCHANGED treeVars
       \/ IsActive(x.run) /\ ~HasClaim(x.run, x.claim) /\ End(x, "raised") /\ UNCHANGED treeVars
    /\ UNCHANGED <<joins, got, ckpt, stop, boot>>

CancelRun(x) ==
    /\ x.pc = "cancel"
    /\ CancelSubtree(x.run)
    /\ End(x, "ended")
    /\ UNCHANGED <<joins, got, ckpt, stop, boot>>

Park(x) ==
    /\ x.pc \in {"suspend", "leave"}
    /\ \/ x.pc = "leave" /\ End(x, "ended") /\ UNCHANGED treeVars
       \/ x.pc = "suspend" /\ SuspendRun(x.run, x.claim) /\ End(x, "ended")
       \/ x.pc = "suspend" /\ ~HasClaim(x.run, x.claim) /\ End(x, "raised") /\ UNCHANGED treeVars
    /\ UNCHANGED <<joins, got, ckpt, stop, boot>>

-----------------------------------------------------------------------------
(* A join: _execute_and_join.                                              *)

JoinBecomes(b, j) == joins' = [joins EXCEPT ![b] = j]
JoinGoes(b, pc) == JoinBecomes(b, [joins[b] EXCEPT !.pc = pc])

JoinOnly == UNCHANGED <<got, ckpt, stop, boot>>

\* Every unfinished dependency of a target is a target.
JoinComplete(b) == \A k \in Kids[b] : \A d \in Deps[k] : IsTerminal(d) \/ d \in Kids[b]

\* The requester gives up its slot; it may be waiting for another join.
JoinStart(b) ==
    /\ joins[b].pc = "start"
    /\ \/ JoinComplete(b) /\ MarkWaiting(By[b], joins[b].claim) /\ JoinGoes(b, "aggregate")
       \/ /\ JoinComplete(b) /\ runs[By[b]].st = "waiting" /\ HasClaim(By[b], joins[b].claim)
          /\ JoinGoes(b, "aggregate") /\ UNCHANGED treeVars
       \/ /\ ~JoinComplete(b) \/ ~Renewable(By[b], joins[b].claim)
          /\ JoinGoes(b, "failed") /\ UNCHANGED treeVars
    /\ UNCHANGED execs /\ JoinOnly

Aggregate(b) ==
    /\ joins[b].pc = "aggregate"
    /\ LET open == {k \in Kids[b] : IsActive(k)}
       IN  JoinBecomes(b, [joins[b] EXCEPT !.pending = IF stop THEN @ ELSE open,
                                           !.pc = CASE stop -> "cancel"
                                                    [] ~stop /\ open = {} -> "release"
                                                    [] OTHER -> "remark"])
    /\ UNCHANGED <<treeVars, execs>> /\ JoinOnly

\* Another join may have resumed the requester.
Remark(b) ==
    /\ joins[b].pc = "remark"
    /\ \/ MarkWaiting(By[b], joins[b].claim) /\ JoinGoes(b, "list")
       \/ runs[By[b]].st # "running" /\ JoinGoes(b, "list") /\ UNCHANGED treeVars
       \/ /\ runs[By[b]].st = "running" /\ ~HasClaim(By[b], joins[b].claim)
          /\ JoinGoes(b, "failed") /\ UNCHANGED treeVars
    /\ UNCHANGED execs /\ JoinOnly

ListRunnable(b) ==
    /\ joins[b].pc = "list"
    /\ JoinBecomes(b, [joins[b] EXCEPT !.pc = "claim",
                                       !.cand = {k \in joins[b].pending \ joins[b].attempted : Runnable(k)}])
    /\ UNCHANGED <<treeVars, execs>> /\ JoinOnly

NewExec(r) == [run |-> r, claim |-> [owner |-> boot, epoch |-> runs[r].epoch + 1], pc |-> "begin",
               then |-> "fail", cmd |-> 0, version |-> 0]

ClaimNext(b) ==
    /\ joins[b].pc = "claim"
    /\ \E k \in joins[b].cand :
          \/ /\ ClaimRun(k, boot)
             /\ execs' = execs \cup {NewExec(k)}
             /\ JoinBecomes(b, [joins[b] EXCEPT !.cand = @ \ {k}, !.attempted = @ \cup {k},
                                                !.active = @ \cup {Key(NewExec(k))}])
          \/ /\ ~Claimable(k)
             /\ JoinBecomes(b, [joins[b] EXCEPT !.cand = @ \ {k}])
             /\ UNCHANGED <<treeVars, execs>>
    /\ JoinOnly

\* What was tried and not finished, and what depends on it.  Dependencies are
\* between the runs of one command, so two rounds reach the fixpoint of three.
Stuck(b) ==
    LET more(s) == s \cup {k \in joins[b].pending : Deps[k] \cap s # {}}
    IN  more(more(joins[b].attempted))

Decide(b) ==
    /\ joins[b].pc = "claim" /\ joins[b].cand = {}
    /\ JoinGoes(b, CASE joins[b].active # {} -> "wait"
                     [] joins[b].active = {} /\ joins[b].pending \subseteq Stuck(b) -> "release"
                     [] OTHER -> "probe")
    /\ UNCHANGED <<treeVars, execs>> /\ JoinOnly

\* Without a worker of its own it sleeps while some run of the tree is running.
Probe(b) ==
    /\ joins[b].pc = "probe"
    /\ JoinGoes(b, IF \E d \in Below[Root] : runs[d].st = "running" THEN "aggregate" ELSE "stalled")
    /\ UNCHANGED <<treeVars, execs>> /\ JoinOnly

\* Mutant of Awaited: a task that raised does not count as finished.
AwaitedReturned(b) == {x \in execs : Key(x) \in joins[b].active /\ x.pc = "ended"}

Awaited(b) == {x \in execs : Key(x) \in joins[b].active /\ x.pc \in Over}

\* asyncio.wait: the signal, or the tasks that are over; an exception ends the
\* join at once and leaves the other tasks to themselves.
WaitAny(b) ==
    /\ joins[b].pc = "wait"
    /\ IF stop
       THEN JoinGoes(b, "cancel") /\ UNCHANGED execs
       ELSE LET over == Awaited(b)
                left == joins[b].pending \ {x.run : x \in over}
            IN  /\ over # {}
                /\ execs' = execs \ over
                /\ JoinBecomes(b, [joins[b] EXCEPT
                      !.active = @ \ {Key(x) : x \in over},
                      !.pending = left,
                      !.pc = CASE \E x \in over : x.pc = "raised" -> "failed"
                               [] left = {} /\ \A x \in over : x.pc = "ended" -> "release"
                               [] OTHER -> "aggregate"])
    /\ UNCHANGED treeVars /\ JoinOnly

\* The handler of a cancellation: one subtree after the other.
CancelTarget(b) ==
    /\ joins[b].pc = "cancel"
    /\ \E k \in Kids[b] \ joins[b].cand :
          /\ CancelSubtree(k)
          /\ JoinBecomes(b, [joins[b] EXCEPT !.cand = @ \cup {k}])
    /\ UNCHANGED execs /\ JoinOnly

\* task.cancel(): a settlement under way is given up, a working execution is
\* canceled with its Run.
CanceledTask(x) ==
    CASE x.pc \in Running -> [x EXCEPT !.pc = "close", !.then = "cancel"]
      [] x.pc \in Closing -> [x EXCEPT !.then = "cancel"]
      [] x.pc \in Settle -> [x EXCEPT !.pc = "ended"]
      [] OTHER -> x

CancelTasks(b) ==
    /\ joins[b].pc = "cancel" /\ joins[b].cand = Kids[b]
    /\ execs' = {IF Key(x) \in joins[b].active THEN CanceledTask(x) ELSE x : x \in execs}
    /\ JoinGoes(b, "reap")
    /\ UNCHANGED treeVars /\ JoinOnly

Reap(b) ==
    /\ joins[b].pc = "reap"
    /\ \A x \in execs : Key(x) \in joins[b].active => x.pc \in Over
    /\ execs' = execs \ Awaited(b)
    /\ JoinBecomes(b, [joins[b] EXCEPT !.active = {}, !.pc = "releaseCanceled"])
    /\ UNCHANGED treeVars /\ JoinOnly

\* The finally block: a full grant is tolerated, a lost claim is not.
Release(b) ==
    /\ joins[b].pc \in {"release", "releaseCanceled"}
    /\ LET r == By[b]
           end == IF joins[b].pc = "release" THEN "done" ELSE "canceled"
       IN  \/ ReleaseWaiting(r, joins[b].claim) /\ JoinGoes(b, end)
           \/ runs[r].st # "waiting" /\ JoinGoes(b, end) /\ UNCHANGED treeVars
           \/ /\ runs[r].st = "waiting" /\ HasClaim(r, joins[b].claim) /\ ~SlotFree
              /\ JoinGoes(b, end) /\ UNCHANGED treeVars
           \/ /\ runs[r].st = "waiting" /\ ~HasClaim(r, joins[b].claim)
              /\ JoinGoes(b, "failed") /\ UNCHANGED treeVars
    /\ UNCHANGED execs /\ JoinOnly

-----------------------------------------------------------------------------
(* The host.                                                               *)

RequestStop ==
    /\ Root \in HostCancels /\ ~stop
    /\ \E x \in execs : x.run = Root
    /\ stop' = TRUE
    /\ UNCHANGED <<treeVars, execs, joins, got, ckpt, boot>>

\* cancel_agent_run and close_agent
HostCancel(r) ==
    /\ r # Root /\ CancelSubtree(r) /\ IsActive(r)
    /\ UNCHANGED schedVars

HostClose(a) == CloseAgent(a) /\ UNCHANGED schedVars

Crash ==
    /\ boot < MaxBoots /\ execs # {}
    /\ execs' = {} /\ joins' = [b \in Commands |-> NoJoin] /\ got' = [r \in Runs |-> {}]
    /\ stop' = FALSE
    /\ UNCHANGED <<treeVars, ckpt, boot>>

\* The Root is resumed after a crash or a suspension.
Resume ==
    /\ boot < MaxBoots /\ canon[Root] = "running"
    /\ \A x \in execs : x.run # Root
    /\ boot' = boot + 1
    /\ execs' = execs \cup {RootExec}
    /\ stop' = FALSE
    /\ UNCHANGED <<treeVars, joins, got, ckpt>>

Pass == Tick /\ UNCHANGED schedVars

ExecStep(x) ==
    \/ Begin(x) \/ FailStop(x) \/ Submit(x) \/ OpenReceiver(x) \/ Receive(x)
    \/ CancelReceive(x) \/ StopExec(x) \/ LoseLease(x)
    \/ Close(x) \/ Gather(x)
    \/ Complete(x) \/ Fail(x) \/ CancelRun(x) \/ Park(x)

JoinStep(b) ==
    \/ JoinStart(b) \/ Aggregate(b) \/ Remark(b) \/ ListRunnable(b) \/ ClaimNext(b) \/ Decide(b)
    \/ Probe(b) \/ WaitAny(b) \/ CancelTarget(b) \/ CancelTasks(b) \/ Reap(b) \/ Release(b)

\* A step of a process that stays up.
UpNext ==
    \/ \E x \in execs :
          \/ ExecStep(x)
          \/ Checkpoint(x) \/ Suspend(x) \/ Heartbeat(x)
          \/ \E b \in Commands : Delegate(x, b)
          \/ \E how \in {"done", "failed"} : Finish(x, how)
    \/ \E b \in Commands : JoinStep(b)
    \/ RequestStop
    \/ \E r \in HostCancels : HostCancel(r)
    \/ \E a \in HostCloses : HostClose(a)

JoinNext == UpNext \/ Crash \/ Resume \/ Pass

JoinSpec == JoinInit /\ [][JoinNext]_vars

\* The tasks of a running process are scheduled, and a Run that keeps being
\* able to end does end: its rounds are bounded.  Nothing is assumed of the
\* host, of suspensions or heartbeats; liveness is asked of one execution of
\* the Root, without a crash and while the leases hold.
ExecFair(r, e) ==
    /\ WF_vars(\E x \in execs : Key(x) = <<r, e>> /\ ExecStep(x))
    /\ SF_vars(\E x \in execs : Key(x) = <<r, e>> /\ \E how \in {"done", "failed"} : Finish(x, how))

LiveJoinSpec ==
    /\ JoinInit /\ [][UpNext]_vars
    /\ \A b \in Commands : WF_vars(JoinStep(b))
    /\ ExecFair(Root, 0)
    /\ \A r \in Runs \ {Root} : \A e \in 1..MaxEpoch : ExecFair(r, e)

-----------------------------------------------------------------------------
(* Properties.                                                             *)

\* The tree and the canonical record never contradict each other: a child
\* done in the tree has a canonical result, and no child that ended in the
\* tree is left running, across every order of settlement, lease loss,
\* cancellation and crash between the two commits.
RecordsAgree ==
    \A r \in Runs \ {Root} : /\ runs[r].st = "done" => canon[r] = "done"
                             /\ IsTerminal(r) => canon[r] # "running"

\* No execution works on a run whose predecessors have not all succeeded.
PredecessorsDone ==
    \A x \in execs : x.pc \in {"submit", "work", "open", "receive", "drain"} =>
        \A d \in Deps[x.run] : runs[d].st = "done"

\* What the next settlement of an execution relies on: a child that is about to
\* complete has its canonical result, and one that is about to fail has no
\* canonical Run left running, unless its claim is lost for good.
ExecSound(x) ==
    LET ends(how) == x.pc = how \/ (x.pc \in Closing /\ x.then = how)
    IN  x.run # Root =>
          /\ x.claim.epoch <= runs[x.run].epoch
          /\ x.pc \in {"work", "open", "receive", "drain"} => canon[x.run] # "none"
          /\ ends("complete") => canon[x.run] = "done"
          /\ ends("fail") => canon[x.run] # "running" \/ ~HasClaim(x.run, x.claim)

\* A canonical Run began after the predecessors of its run succeeded, and a
\* claim's epoch is never used again.
Begun ==
    \A r \in Runs : /\ runs[r].st = "none" => runs[r].epoch = 0
                    /\ r # Root /\ canon[r] # "none" => \A d \in Deps[r] : runs[d].st = "done"

\* Every join ends: the sleeping of joins that wait for each other's slots,
\* the waiting for executions and the cancellation handlers all come to an end.
JoinsEnd == \A b \in Commands : Pending(b) ~> ~Pending(b)

\* The execution of the Root is over and its Run may be resumed.
RootParked == canon[Root] = "running" /\ \A x \in execs : x.run # Root

\* After a cancellation of the Root no child is left unfinished, unless the
\* Root suspended itself at that moment and is to be resumed.
StopReachesAll == stop ~> (RootParked \/ \A r \in Runs \ {Root} : ~IsActive(r))

=============================================================================
