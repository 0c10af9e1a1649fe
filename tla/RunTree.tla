------------------------------ MODULE RunTree ------------------------------
(***************************************************************************)
(* The run tree repository of one Root Run (InMemoryRunTreeRepository, also *)
(* the state machine behind the SQLite tree port) together with the         *)
(* canonical Run records it shares its transaction lock with.  Every method *)
(* is one transaction and therefore one action.  Of its callers only this is *)
(* assumed: an execution acts for its own run, a child's under some claim it *)
(* was once given (bind_agent_run_lease), the Root's without one.           *)
(*                                                                         *)
(* The runs that may ever be created are fixed by the constants: a command  *)
(* b, issued by the run By[b], creates the runs Kids[b].  Objectives,       *)
(* results, priorities and idempotency digests are left out; a command with *)
(* a key already used changes nothing, so it is not a step.                 *)
(***************************************************************************)
EXTENDS Integers, FiniteSets

CONSTANTS
    Runs, Root, NoRun,
    Parent,          \* the requesting run of each run, NoRun for the Root
    Below,           \* the causal descendants of each run
    Deps,            \* dependency_run_ids
    Agents, AgentOf,
    Above,           \* the ancestors of each Agent
    Commands, Continuations, By, Kids,
    Owners, NoOwner,
    MaxParallel, MaxDepth, MaxChildren, MaxAgents,   \* the Root's grant
    LeaseMs, MaxTime, MaxEpoch                       \* MaxTime, MaxEpoch: bounds

VARIABLES
    runs,      \* AgentTreeRun: status and lease; expires = 0 is no lease
    agents,    \* AgentNode: context_version, and whether it is not closed
    canon,     \* the status of the canonical Run record
    now

treeVars == <<runs, agents, canon, now>>

ASSUME TreeShape ==
    /\ Root \in Runs /\ NoRun \notin Runs
    /\ Parent \in [Runs -> Runs \cup {NoRun}]
    /\ Parent[Root] = NoRun
    /\ \A r \in Runs \ {Root} : Parent[r] \in Runs
    /\ Below \in [Runs -> SUBSET Runs]
    /\ \A r, d \in Runs : d \in Below[r] <=> (Parent[d] = r \/ Parent[d] \in Below[r])
    /\ \A r \in Runs : r \notin Below[r]
    /\ \A r \in Runs : \A d \in Below[r] : Below[d] \subseteq Below[r]

ASSUME CommandShape ==
    /\ Continuations \subseteq Commands
    /\ By \in [Commands -> Runs] /\ Kids \in [Commands -> SUBSET Runs]
    /\ \A b \in Commands : \A k \in Kids[b] : Parent[k] = By[b]
    /\ \A b, d \in Commands : b # d => Kids[b] \cap Kids[d] = {}
    /\ AgentOf \in [Runs -> Agents] /\ Above \in [Agents -> SUBSET Agents]
    /\ Deps \in [Runs -> SUBSET Runs] /\ Deps[Root] = {}

\* The runs that continue an Agent.
Continued == UNION {Kids[b] : b \in Continuations}

\* Every other run is the first of an Agent that was made for it, and a
\* continuation creates one run of an Agent.
ASSUME AgentShape ==
    /\ \A r, s \in Runs \ Continued : AgentOf[r] = AgentOf[s] => r = s
    /\ \A b \in Commands \ Continuations : Kids[b] \cap Continued = {}
    /\ \A b \in Continuations : \A r, s \in Kids[b] : AgentOf[r] = AgentOf[s] => r = s

ASSUME LimitShape ==
    /\ IsFiniteSet(Runs)
    /\ NoOwner \notin Owners
    /\ MaxParallel \in Nat \ {0} /\ MaxDepth \in Nat /\ MaxChildren \in Nat
    /\ MaxAgents \in Nat /\ LeaseMs \in Nat \ {0} /\ MaxTime \in Nat /\ MaxEpoch \in Nat

Active == {"queued", "running", "waiting"}
Terminal == {"done", "failed", "canceled"}

Claims == [owner : Owners, epoch : 1..MaxEpoch]
NoClaim == [owner |-> NoOwner, epoch |-> 0]

\* The claims an execution of r may carry, current or stale.
ClaimsOf(r) == IF r = Root THEN {NoClaim} ELSE Claims

AgentTreeRun ==
    [st : Active \cup Terminal \cup {"none"}, owner : Owners \cup {NoOwner},
     epoch : 0..MaxEpoch, expires : 0..(MaxTime + LeaseMs)]
AgentNode == [version : Nat, open : BOOLEAN]

TreeTypeOK ==
    /\ runs \in [Runs -> AgentTreeRun]
    /\ \A r \in Runs : runs[r].owner = NoOwner <=> runs[r].expires = 0
    /\ agents \in [Agents -> AgentNode]
    /\ canon \in [Runs -> {"none", "running"} \cup Terminal]
    /\ now \in 0..MaxTime

\* begin_root has run: the Root is running and has no lease in the tree.
TreeInit ==
    /\ runs = [r \in Runs |-> [st |-> IF r = Root THEN "running" ELSE "none",
                               owner |-> NoOwner, epoch |-> 0, expires |-> 0]]
    /\ agents = [a \in Agents |-> [version |-> 0, open |-> TRUE]]
    /\ canon = [r \in Runs |-> IF r = Root THEN "running" ELSE "none"]
    /\ now = 0

-----------------------------------------------------------------------------
(* Reading the tree.                                                       *)

IsActive(r) == runs[r].st \in Active
IsTerminal(r) == runs[r].st \in Terminal

\* _lease_expired_unlocked
Expired(r) ==
    /\ runs[r].st \in {"running", "waiting"}
    /\ runs[r].expires # 0
    /\ now >= runs[r].expires

\* _require_claim_unlocked
HasClaim(r, c) ==
    IF runs[r].owner = NoOwner
    THEN c = NoClaim
    ELSE /\ c = [owner |-> runs[r].owner, epoch |-> runs[r].epoch]
         /\ ~Expired(r)

\* The runs that occupy a slot of the Root's grant.
Occupying == {r \in Runs : runs[r].st = "running" /\ ~Expired(r)}

SlotFree == Cardinality(Occupying) < MaxParallel

Participating == {AgentOf[r] : r \in {s \in Runs : runs[s].st # "none"}}

\* _has_active_run
Busy(a) == \E r \in Runs : AgentOf[r] = a /\ IsActive(r)

-----------------------------------------------------------------------------
(* Creating runs.                                                          *)

\* Mutant of MayCommand: the state of the requester is not looked at.
MayCommandAnyState(b, c) ==
    /\ HasClaim(By[b], c)
    /\ agents[AgentOf[By[b]]].open

\* _require_active_run and the claim of the requester.
MayCommand(b, c) ==
    /\ runs[By[b]].st \in {"running", "waiting"}
    /\ HasClaim(By[b], c)
    /\ agents[AgentOf[By[b]]].open

Enqueue(ks) ==
    runs' = [r \in Runs |->
                IF r \in ks
                THEN [st |-> "queued", owner |-> NoOwner, epoch |-> 0, expires |-> 0]
                ELSE runs[r]]

Unused(b) == \A k \in Kids[b] : runs[k].st = "none"

SpawnAgents(b, c) ==
    /\ b \notin Continuations /\ Unused(b)
    /\ MayCommand(b, c)
    /\ Cardinality(Above[AgentOf[By[b]]]) < MaxDepth
    /\ Cardinality(Kids[b]) <= MaxChildren
    /\ Cardinality(Participating) + Cardinality(Kids[b]) <= MaxAgents
    /\ Enqueue(Kids[b])
    /\ UNCHANGED <<agents, canon, now>>

Idle(a) == ~Busy(a)

\* A stale expected_context_version is refused like the other conflicts and
\* changes nothing; the caller that succeeds has read the current one.
ContinueAgent(b, c) ==
    /\ b \in Continuations /\ Unused(b)
    /\ MayCommand(b, c)
    /\ \A a \in {AgentOf[k] : k \in Kids[b]} :
          /\ a \in Participating
          /\ agents[a].open
          /\ AgentOf[By[b]] \in Above[a] \cup {a}
          /\ Idle(a)
    /\ Enqueue(Kids[b])
    /\ UNCHANGED <<agents, canon, now>>

-----------------------------------------------------------------------------
(* Leases.                                                                 *)

\* Queued, or running on an expired lease, or suspended after an execution.
Reclaimable(r) ==
    \/ runs[r].st = "queued"
    \/ runs[r].st = "running" /\ runs[r].expires # 0 /\ now >= runs[r].expires
    \/ runs[r].st = "waiting" /\ runs[r].owner = NoOwner /\ runs[r].epoch > 0

DepsEnded(r) == \A d \in Deps[r] : IsTerminal(d)

\* list_runnable
Runnable(r) == Reclaimable(r) /\ DepsEnded(r)

Claimable(r) ==
    /\ Runnable(r)
    /\ agents[AgentOf[Root]].open
    /\ SlotFree
    /\ runs[r].epoch < MaxEpoch

ClaimRun(r, o) ==
    /\ Claimable(r)
    /\ runs' = [runs EXCEPT ![r] = [st |-> "running", owner |-> o, epoch |-> @.epoch + 1,
                                    expires |-> now + LeaseMs]]
    /\ UNCHANGED <<agents, canon, now>>

Renewable(r, c) == runs[r].st \in {"running", "waiting"} /\ HasClaim(r, c)

RenewRunLease(r, c) ==
    /\ c.owner # NoOwner /\ Renewable(r, c)
    /\ runs' = [runs EXCEPT ![r].expires = now + LeaseMs]
    /\ UNCHANGED <<agents, canon, now>>

\* The lease is given up; only a caller that holds one may suspend.
SuspendRun(r, c) ==
    /\ c.owner # NoOwner /\ HasClaim(r, c)
    /\ runs' = [runs EXCEPT ![r] = [st |-> "waiting", owner |-> NoOwner, epoch |-> @.epoch, expires |-> 0]]
    /\ UNCHANGED <<agents, canon, now>>

MarkWaiting(r, c) ==
    /\ runs[r].st = "running" /\ HasClaim(r, c)
    /\ runs' = [runs EXCEPT ![r].st = "waiting"]
    /\ UNCHANGED <<agents, canon, now>>

\* Mutant of ReleaseWaiting: a parent always gets its slot back.
ReleaseAnyway(r, c) ==
    /\ runs[r].st = "waiting" /\ HasClaim(r, c)
    /\ agents[AgentOf[Root]].open
    /\ runs' = [runs EXCEPT ![r].st = "running"]
    /\ UNCHANGED <<agents, canon, now>>

ReleaseWaiting(r, c) ==
    /\ runs[r].st = "waiting" /\ HasClaim(r, c)
    /\ agents[AgentOf[Root]].open
    /\ SlotFree
    /\ runs' = [runs EXCEPT ![r].st = "running"]
    /\ UNCHANGED <<agents, canon, now>>

-----------------------------------------------------------------------------
(* Settlement.                                                             *)

\* Mutant of Ended: the lease survives the settlement.
EndedKeepsLease(r, how) == [runs[r] EXCEPT !.st = how]

Ended(r, how) == [st |-> how, owner |-> NoOwner, epoch |-> runs[r].epoch, expires |-> 0]

Quiescent(r) == \A d \in Below[r] : ~IsActive(d)

Completable(r, c) ==
    /\ runs[r].st = "running" /\ HasClaim(r, c)
    /\ Quiescent(r)
    /\ agents[AgentOf[r]].open

\* Mutant of CompleteRun: the result does not become a context checkpoint.
CompleteKeepsContext(r, c, version) ==
    /\ Completable(r, c)
    /\ agents[AgentOf[r]].version = version
    /\ runs' = [runs EXCEPT ![r] = Ended(r, "done")]
    /\ UNCHANGED <<agents, canon, now>>

\* The result becomes the Agent's next context checkpoint.
CompleteRun(r, c, version) ==
    /\ Completable(r, c)
    /\ agents[AgentOf[r]].version = version
    /\ runs' = [runs EXCEPT ![r] = Ended(r, "done")]
    /\ agents' = [agents EXCEPT ![AgentOf[r]].version = @ + 1]
    /\ UNCHANGED <<canon, now>>

\* _prepare_child_cancellations: the canonical records of canceled children
\* are canceled in the same transaction.
CanonCanceled(rs) ==
    [r \in Runs |-> IF r \in rs \ {Root} /\ canon[r] = "running" THEN "canceled" ELSE canon[r]]

FailRun(r, c) ==
    /\ IsActive(r) /\ HasClaim(r, c)
    /\ LET lost == {d \in Below[r] : IsActive(d)}
       IN  /\ runs' = [d \in Runs |-> IF d \in lost \cup {r}
                                      THEN Ended(d, IF d = r THEN "failed" ELSE "canceled")
                                      ELSE runs[d]]
           /\ canon' = CanonCanceled(lost)
    /\ UNCHANGED <<agents, now>>

\* Mutant of CancelSubtree: the descendants are not canceled with the run.
CancelAlone(r) ==
    /\ runs[r].st # "none"
    /\ LET lost == {d \in {r} : IsActive(d)}
       IN  /\ runs' = [d \in Runs |-> IF d \in lost THEN Ended(d, "canceled") ELSE runs[d]]
           /\ canon' = CanonCanceled(lost)
    /\ UNCHANGED <<agents, now>>

\* No claim is required.
CancelSubtree(r) ==
    /\ runs[r].st # "none"
    /\ LET lost == {d \in Below[r] \cup {r} : IsActive(d)}
       IN  /\ runs' = [d \in Runs |-> IF d \in lost THEN Ended(d, "canceled") ELSE runs[d]]
           /\ canon' = CanonCanceled(lost)
    /\ UNCHANGED <<agents, now>>

CloseAgent(a) ==
    /\ a \in Participating /\ agents[a].open /\ ~Busy(a)
    /\ agents' = [agents EXCEPT ![a].open = FALSE]
    /\ UNCHANGED <<runs, canon, now>>

-----------------------------------------------------------------------------
(* Canonical writes.  A child's are fenced by its tree claim.              *)

\* Mutant of MayWrite: the write is not fenced by the tree claim.
MayWriteUnfenced(r, c) == TRUE

\* _require_run_write
MayWrite(r, c) == r = Root \/ HasClaim(r, c)

CreateCanonical(r, c) ==
    /\ canon[r] = "none" /\ MayWrite(r, c)
    /\ canon' = [canon EXCEPT ![r] = "running"]
    /\ UNCHANGED <<runs, agents, now>>

CommitCanonical(r, c, how) ==
    /\ canon[r] = "running" /\ MayWrite(r, c)
    /\ canon' = [canon EXCEPT ![r] = how]
    /\ UNCHANGED <<runs, agents, now>>

Tick ==
    /\ now < MaxTime
    /\ now' = now + 1
    /\ UNCHANGED <<runs, agents, canon>>

-----------------------------------------------------------------------------

Commanding(r, c) ==
    \E b \in Commands : By[b] = r /\ (SpawnAgents(b, c) \/ ContinueAgent(b, c))

Leasing(r, c) ==
    \/ RenewRunLease(r, c)
    \/ SuspendRun(r, c)
    \/ MarkWaiting(r, c)
    \/ ReleaseWaiting(r, c)

Settling(r, c) ==
    \/ CompleteRun(r, c, agents[AgentOf[r]].version)
    \/ FailRun(r, c)

Writing(r, c) ==
    CreateCanonical(r, c) \/ \E how \in Terminal : CommitCanonical(r, c, how)

TreeNext ==
    \/ \E r \in Runs : \E c \in ClaimsOf(r) :
          Commanding(r, c) \/ Leasing(r, c) \/ Settling(r, c) \/ Writing(r, c)
    \/ \E r \in Runs : CancelSubtree(r) \/ \E o \in Owners : ClaimRun(r, o)
    \/ \E a \in Agents : CloseAgent(a)
    \/ Tick

TreeSpec == TreeInit /\ [][TreeNext]_treeVars

-----------------------------------------------------------------------------
(* Properties.                                                             *)

\* A run that has ended has no unfinished run below it, however commands,
\* completions, failures and cancellations of a subtree interleave.
NoOrphan ==
    \A r \in Runs : IsTerminal(r) => \A d \in Below[r] : ~IsActive(d)

\* The runs that occupy a slot never exceed max_parallel_runs, although a
\* parent gives its slot up while it joins and takes one again afterwards.
ParallelLimit == Cardinality(Occupying) <= MaxParallel

\* An Agent has one unfinished run at most, so its runs form a chain: its
\* context version counts the completed ones.
ContextChain ==
    \A a \in Agents :
        /\ \A r, s \in Runs : (AgentOf[r] = a /\ AgentOf[s] = a /\ IsActive(r) /\ IsActive(s)) => r = s
        /\ agents[a].version = Cardinality({r \in Runs : AgentOf[r] = a /\ runs[r].st = "done"})

\* A canceled child is canceled for its executor too: its canonical record
\* is not left running, and no late write of its execution revives it.
CanceledEverywhere ==
    \A r \in Runs \ {Root} : runs[r].st = "canceled" => canon[r] # "running"

\* What has ended stays as it is: no late claim, release, suspension or
\* settlement reopens a run or changes its outcome, nor its canonical record.
OutcomeFinal ==
    [][\A r \in Runs : /\ IsTerminal(r) => runs'[r].st = runs[r].st
                       /\ canon[r] \in Terminal => canon'[r] = canon[r]]_treeVars

\* A lease belongs to a run that is running or waiting.
LeaseHeld == \A r \in Runs : runs[r].owner # NoOwner => runs[r].st \in {"running", "waiting"}

\* TreeInv: a well-formed tree without orphans, in which a canceled child is
\* canceled for its executor too.  LeaseHeld makes it inductive: it is what stops
\* the late suspension, renewal or canonical write of a canceled execution.
TreeInv == TreeTypeOK /\ LeaseHeld /\ NoOrphan /\ CanceledEverywhere
=============================================================================
