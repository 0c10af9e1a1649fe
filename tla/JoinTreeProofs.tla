--------------------------- MODULE JoinTreeProofs ---------------------------
(***************************************************************************)
(* Proofs about the tree of Agents, for every tree, every set of Agents and *)
(* owners, every command and every grant.                                   *)
(*                                                                          *)
(* The first part is about RunTree alone.  NoOrphan and CanceledEverywhere   *)
(* are inductive only together with LeaseHeld: a lease belongs to a run that *)
(* is running or waiting.  It is what stops a late suspend_run, renewal or   *)
(* canonical write of a canceled execution, none of which looks at the       *)
(* status of its run.                                                        *)
(*                                                                          *)
(* The second part is about JoinTree: the executions and joins of AgentJoin  *)
(* use the tree as RunTree allows, and the tree and the canonical records    *)
(* they write never contradict each other.                                   *)
(***************************************************************************)
EXTENDS JoinTree, FiniteSetTheorems, TLAPS

USE DEF AgentTreeRun, AgentNode

\* What TreeTypeOK says of one run.
LEMMA RunFields ==
    ASSUME TreeTypeOK, NEW r \in Runs
    PROVE  /\ runs[r].st \in Active \cup Terminal \cup {"none"}
           /\ runs[r].owner \in Owners \cup {NoOwner}
           /\ runs[r].epoch \in 0..MaxEpoch
           /\ runs[r].expires \in 0..(MaxTime + LeaseMs)
           /\ runs[r] = [st |-> runs[r].st, owner |-> runs[r].owner,
                         epoch |-> runs[r].epoch, expires |-> runs[r].expires]
BY DEF TreeTypeOK

\* Whoever shows a claim with an owner acts for a run that is running or
\* waiting.
LEMMA ClaimIsLive ==
    ASSUME LeaseHeld, NEW r \in Runs, NEW c, HasClaim(r, c), c # NoClaim
    PROVE  runs[r].owner # NoOwner /\ runs[r].st \in {"running", "waiting"}
BY DEF LeaseHeld, HasClaim

\* A step in which one unfinished run changes and stays unfinished leaves no
\* orphan.
LEMMA StaysActive ==
    ASSUME NoOrphan, NEW r \in Runs, IsActive(r),
           runs'[r].st \in Active,
           \A d \in Runs \ {r} : runs'[d].st = runs[d].st
    PROVE  NoOrphan'
BY TreeShape DEF NoOrphan, IsActive, IsTerminal, Active, Terminal

\* Ending a set of runs that contains every unfinished run below it leaves no
\* orphan.
LEMMA EndsClosed ==
    ASSUME NoOrphan, NEW S \in SUBSET Runs,
           \A r \in S : \A d \in Below[r] : IsActive(d) => d \in S,
           \A r \in S : runs'[r].st \in Terminal,
           \A r \in Runs \ S : runs'[r].st = runs[r].st
    PROVE  NoOrphan'
BY TreeShape DEF NoOrphan, IsActive, IsTerminal, Active, Terminal

\* A command creates runs below an unfinished requester, so no run above them
\* has ended.
LEMMA EnqueueStep ==
    ASSUME TreeInv, NEW b \in Commands, Unused(b), runs[By[b]].st \in {"running", "waiting"},
           Enqueue(Kids[b]), UNCHANGED <<agents, canon, now>>
    PROVE  TreeInv'
<1> USE DEF TreeInv
<1>0. By[b] \in Runs /\ Kids[b] \subseteq Runs /\ \A k \in Kids[b] : Parent[k] = By[b] /\ runs[k].st = "none"
  BY CommandShape DEF Unused
<1>1. TreeTypeOK'
  <2>1. runs' \in [Runs -> [st : Active \cup Terminal \cup {"none"}, owner : Owners \cup {NoOwner},
                            epoch : 0..MaxEpoch, expires : 0..(MaxTime + LeaseMs)]]
    BY LimitShape DEF Enqueue, TreeTypeOK, Active
  <2>2. \A r \in Runs : runs'[r].owner = NoOwner <=> runs'[r].expires = 0
    BY DEF Enqueue, TreeTypeOK
  <2> QED BY <2>1, <2>2 DEF TreeTypeOK
<1>2. LeaseHeld'
  BY DEF Enqueue, LeaseHeld
<1>3. NoOrphan'
  <2> SUFFICES ASSUME NEW r \in Runs, runs'[r].st \in Terminal, NEW d \in Below[r], runs'[d].st \in Active
               PROVE  FALSE
    BY DEF NoOrphan, IsTerminal, IsActive
  <2>1. r \notin Kids[b] /\ runs[r].st \in Terminal
    BY DEF Enqueue, Terminal
  <2>2. d \in Runs
    BY TreeShape
  <2>3. CASE d \in Kids[b]
    <3>1. By[b] = r \/ By[b] \in Below[r]
      BY <1>0, <2>2, <2>3, TreeShape
    <3>2. By[b] \in Below[r] => ~IsActive(By[b])
      BY <2>1 DEF NoOrphan, IsTerminal
    <3> QED BY <2>1, <3>1, <3>2 DEF IsActive, Active, Terminal
  <2>4. CASE d \notin Kids[b]
    BY <2>1, <2>2, <2>4 DEF Enqueue, NoOrphan, IsTerminal, IsActive
  <2> QED BY <2>3, <2>4
<1>4. CanceledEverywhere'
  BY DEF Enqueue, CanceledEverywhere
<1> QED BY <1>1, <1>2, <1>3, <1>4

\* A claim takes over an unfinished run.
LEMMA ClaimStep ==
    ASSUME TreeInv, NEW r \in Runs, NEW o \in Owners, ClaimRun(r, o)
    PROVE  TreeInv'
<1> USE DEF TreeInv
<1>0. /\ IsActive(r) /\ runs[r].epoch + 1 \in 0..MaxEpoch
      /\ now + LeaseMs \in 1..(MaxTime + LeaseMs) /\ o # NoOwner
  BY RunFields, LimitShape DEF ClaimRun, Claimable, Runnable, Reclaimable, IsActive, Active, TreeTypeOK
<1>a. runs' = [runs EXCEPT ![r] = [st |-> "running", owner |-> o, epoch |-> runs[r].epoch + 1,
                                    expires |-> now + LeaseMs]]
  BY DEF ClaimRun
<1>1. TreeTypeOK'
  <2>1. runs' \in [Runs -> [st : Active \cup Terminal \cup {"none"}, owner : Owners \cup {NoOwner},
                            epoch : 0..MaxEpoch, expires : 0..(MaxTime + LeaseMs)]]
    BY <1>0, <1>a, LimitShape DEF TreeTypeOK, Active
  <2>2. \A d \in Runs : runs'[d].owner = NoOwner <=> runs'[d].expires = 0
    BY <1>0, <1>a DEF TreeTypeOK
  <2> QED BY <2>1, <2>2 DEF TreeTypeOK, ClaimRun
<1>2. LeaseHeld'
  BY <1>a DEF TreeTypeOK, LeaseHeld
<1>3. NoOrphan'
  BY <1>0, <1>a, StaysActive DEF TreeTypeOK, Active
<1>4. CanceledEverywhere'
  BY <1>a DEF TreeTypeOK, CanceledEverywhere, ClaimRun
<1> QED BY <1>1, <1>2, <1>3, <1>4

\* Renewing, suspending, waiting and releasing keep a run unfinished.  None
\* but the last two looks at the status: LeaseHeld does.
LEMMA LeasingStep ==
    ASSUME TreeInv, NEW r \in Runs, NEW c \in ClaimsOf(r), Leasing(r, c)
    PROVE  TreeInv'
<1> USE DEF TreeInv
<1>1. CASE RenewRunLease(r, c)
  <2>0. /\ runs[r].owner # NoOwner /\ runs[r].st \in {"running", "waiting"}
        /\ now + LeaseMs \in 1..(MaxTime + LeaseMs)
    <3>1. c # NoClaim /\ HasClaim(r, c)
      BY <1>1 DEF RenewRunLease, Renewable, NoClaim
    <3>2. now + LeaseMs \in 1..(MaxTime + LeaseMs)
      BY LimitShape DEF TreeTypeOK
    <3> QED BY <3>1, <3>2, ClaimIsLive
  <2>a. runs' = [runs EXCEPT ![r].expires = now + LeaseMs] /\ UNCHANGED <<agents, canon, now>>
    BY <1>1 DEF RenewRunLease
  <2>1. TreeTypeOK'
    <3>1. runs' \in [Runs -> [st : Active \cup Terminal \cup {"none"}, owner : Owners \cup {NoOwner},
                              epoch : 0..MaxEpoch, expires : 0..(MaxTime + LeaseMs)]]
      BY <2>0, <2>a, LimitShape DEF TreeTypeOK
    <3>2. \A d \in Runs : runs'[d].owner = NoOwner <=> runs'[d].expires = 0
      BY <2>0, <2>a DEF TreeTypeOK
    <3> QED BY <2>a, <3>1, <3>2 DEF TreeTypeOK
  <2>2. LeaseHeld'
    BY <2>a DEF TreeTypeOK, LeaseHeld
  <2>3. NoOrphan'
    BY <2>0, <2>a, StaysActive DEF TreeTypeOK, Active, IsActive
  <2>4. CanceledEverywhere'
    BY <2>a DEF TreeTypeOK, CanceledEverywhere
  <2> QED BY <2>1, <2>2, <2>3, <2>4
<1>2. CASE SuspendRun(r, c)
  <2>0. runs[r].owner # NoOwner /\ runs[r].st \in {"running", "waiting"}
    <3>1. c # NoClaim /\ HasClaim(r, c)
      BY <1>2 DEF SuspendRun, NoClaim
    <3> QED BY <3>1, ClaimIsLive
  <2>a. /\ runs' = [runs EXCEPT ![r] = [st |-> "waiting", owner |-> NoOwner, epoch |-> runs[r].epoch, expires |-> 0]]
        /\ UNCHANGED <<agents, canon, now>>
    BY <1>2 DEF SuspendRun
  <2>1. TreeTypeOK'
    <3>1. runs' \in [Runs -> [st : Active \cup Terminal \cup {"none"}, owner : Owners \cup {NoOwner},
                              epoch : 0..MaxEpoch, expires : 0..(MaxTime + LeaseMs)]]
      BY <2>a, LimitShape DEF TreeTypeOK, Active
    <3>2. \A d \in Runs : runs'[d].owner = NoOwner <=> runs'[d].expires = 0
      BY <2>a DEF TreeTypeOK
    <3> QED BY <2>a, <3>1, <3>2 DEF TreeTypeOK
  <2>2. LeaseHeld'
    BY <2>a DEF TreeTypeOK, LeaseHeld
  <2>3. NoOrphan'
    BY <2>0, <2>a, StaysActive DEF TreeTypeOK, Active, IsActive
  <2>4. CanceledEverywhere'
    BY <2>a DEF TreeTypeOK, CanceledEverywhere
  <2> QED BY <2>1, <2>2, <2>3, <2>4
<1>3. CASE MarkWaiting(r, c) \/ ReleaseWaiting(r, c)
  <2>0. IsActive(r)
    BY <1>3 DEF MarkWaiting, ReleaseWaiting, IsActive, Active
  <2>a. /\ UNCHANGED <<agents, canon, now>>
        /\ \E st \in {"waiting", "running"} : runs' = [runs EXCEPT ![r].st = st]
    BY <1>3 DEF MarkWaiting, ReleaseWaiting
  <2>1. TreeTypeOK'
    BY <2>a DEF TreeTypeOK, Active
  <2>2. LeaseHeld'
    BY <2>a DEF TreeTypeOK, LeaseHeld
  <2>3. NoOrphan'
    BY <2>0, <2>a, StaysActive DEF TreeTypeOK, Active
  <2>4. CanceledEverywhere'
    BY <2>a DEF TreeTypeOK, CanceledEverywhere
  <2> QED BY <2>1, <2>2, <2>3, <2>4
<1> QED BY <1>1, <1>2, <1>3 DEF Leasing

\* Ending a run takes its lease, so TreeTypeOK and LeaseHeld survive whatever
\* set of runs ends.
LEMMA EndingStep ==
    ASSUME TreeTypeOK, LeaseHeld, NEW S \in SUBSET Runs, NEW how \in [S -> Terminal],
           runs' = [d \in Runs |-> IF d \in S THEN Ended(d, how[d]) ELSE runs[d]],
           NEW T \in SUBSET Runs, canon' = CanonCanceled(T),
           agents' \in [Agents -> [version : Nat, open : BOOLEAN]], now' = now
    PROVE  TreeTypeOK' /\ LeaseHeld'
<1>1. runs' \in [Runs -> [st : Active \cup Terminal \cup {"none"}, owner : Owners \cup {NoOwner},
                          epoch : 0..MaxEpoch, expires : 0..(MaxTime + LeaseMs)]]
  BY LimitShape DEF Ended, TreeTypeOK
<1>2. \A r \in Runs : runs'[r].owner = NoOwner <=> runs'[r].expires = 0
  BY DEF Ended, TreeTypeOK
<1>3. canon' \in [Runs -> {"none", "running"} \cup Terminal]
  BY DEF CanonCanceled, TreeTypeOK, Terminal
<1>4. LeaseHeld'
  BY DEF Ended, TreeTypeOK, LeaseHeld
<1> QED BY <1>1, <1>2, <1>3, <1>4 DEF TreeTypeOK

\* Nothing below a run that completes is unfinished.
LEMMA CompleteStep ==
    ASSUME TreeInv, NEW r \in Runs, NEW c, NEW version, CompleteRun(r, c, version)
    PROVE  TreeInv'
<1> USE DEF TreeInv
<1>0. /\ Quiescent(r) /\ canon' = canon /\ now' = now
      /\ runs' = [runs EXCEPT ![r] = Ended(r, "done")]
      /\ agents' = [agents EXCEPT ![AgentOf[r]].version = @ + 1]
  BY DEF CompleteRun, Completable
<1>1. runs' \in [Runs -> [st : Active \cup Terminal \cup {"none"}, owner : Owners \cup {NoOwner},
                          epoch : 0..MaxEpoch, expires : 0..(MaxTime + LeaseMs)]]
  BY <1>0, LimitShape DEF Ended, TreeTypeOK, Terminal
<1>2. \A d \in Runs : runs'[d].owner = NoOwner <=> runs'[d].expires = 0
  BY <1>0 DEF Ended, TreeTypeOK
<1>3. agents' \in [Agents -> [version : Nat, open : BOOLEAN]]
  <2>1. AgentOf[r] \in Agents
    BY CommandShape
  <2>2. agents[AgentOf[r]].version + 1 \in Nat
    BY <2>1 DEF TreeTypeOK
  <2> QED BY <1>0, <2>1, <2>2 DEF TreeTypeOK
<1>4. LeaseHeld'
  BY <1>0 DEF Ended, TreeTypeOK, LeaseHeld
<1>5. NoOrphan'
  <2>1. \A d \in Below[r] : IsActive(d) => d \in {r}
    BY <1>0 DEF Quiescent
  <2>2. runs'[r].st \in Terminal /\ \A d \in Runs \ {r} : runs'[d].st = runs[d].st
    BY <1>0 DEF Ended, TreeTypeOK, Terminal
  <2>3. {r} \in SUBSET Runs
    OBVIOUS
  <2> QED BY <2>1, <2>2, <2>3, EndsClosed
<1>6. CanceledEverywhere'
  BY <1>0 DEF Ended, TreeTypeOK, CanceledEverywhere
<1> QED BY <1>0, <1>1, <1>2, <1>3, <1>4, <1>5, <1>6 DEF TreeTypeOK

\* The unfinished part of a subtree is closed downwards, and its canonical
\* records are canceled in the same transaction.
LEMMA CancelStep ==
    ASSUME TreeInv, NEW r \in Runs, CancelSubtree(r)
    PROVE  TreeInv'
<1> USE DEF TreeInv
<1> DEFINE lost == {d \in Below[r] \cup {r} : IsActive(d)}
<1>0. /\ runs' = [d \in Runs |-> IF d \in lost THEN Ended(d, "canceled") ELSE runs[d]]
      /\ canon' = CanonCanceled(lost) /\ agents' = agents /\ now' = now
  BY DEF CancelSubtree
<1>a. lost \in SUBSET Runs
  BY TreeShape
<1>b. \A s \in lost : \A d \in Below[s] : IsActive(d) => d \in lost
  BY TreeShape
<1> HIDE DEF lost
<1>1. TreeTypeOK' /\ LeaseHeld'
  <2> DEFINE how == [d \in lost |-> "canceled"]
  <2>1. how \in [lost -> Terminal]
    BY DEF Terminal
  <2>2. runs' = [d \in Runs |-> IF d \in lost THEN Ended(d, how[d]) ELSE runs[d]]
    BY <1>0
  <2>3. agents' \in [Agents -> [version : Nat, open : BOOLEAN]]
    BY <1>0 DEF TreeTypeOK
  <2> HIDE DEF how
  <2> QED BY <1>0, <1>a, <2>1, <2>2, <2>3, EndingStep
<1>2. /\ \A s \in lost : runs'[s].st \in Terminal
      /\ \A s \in Runs \ lost : runs'[s].st = runs[s].st
  BY <1>0, <1>a DEF Ended, TreeTypeOK, Terminal
<1>3. NoOrphan'
  BY <1>a, <1>b, <1>2, EndsClosed
<1>4. CanceledEverywhere'
  BY <1>0, <1>a, <1>2 DEF CanonCanceled, CanceledEverywhere
<1> QED BY <1>1, <1>3, <1>4

\* A failure ends the run and cancels what is unfinished below it.
LEMMA FailStep ==
    ASSUME TreeInv, NEW r \in Runs, NEW c, FailRun(r, c)
    PROVE  TreeInv'
<1> USE DEF TreeInv
<1> DEFINE lost == {d \in Below[r] : IsActive(d)}
           ending == lost \cup {r}
           how == [d \in ending |-> IF d = r THEN "failed" ELSE "canceled"]
<1>0. /\ runs' = [d \in Runs |-> IF d \in ending THEN Ended(d, how[d]) ELSE runs[d]]
      /\ canon' = CanonCanceled(lost) /\ agents' = agents /\ now' = now
  <2>1. \A d \in ending : how[d] = IF d = r THEN "failed" ELSE "canceled"
    OBVIOUS
  <2>2. \A d \in Runs : d \in ending <=> d \in lost \cup {r}
    OBVIOUS
  <2> HIDE DEF how
  <2> QED BY <2>1, <2>2 DEF FailRun
<1>a. ending \in SUBSET Runs /\ lost \in SUBSET Runs
  BY TreeShape
<1>b. \A s \in ending : \A d \in Below[s] : IsActive(d) => d \in ending
  BY TreeShape
<1>c. how \in [ending -> Terminal] /\ \A s \in ending : how[s] = "canceled" => s \in lost
  BY DEF Terminal
<1>d. agents' \in [Agents -> [version : Nat, open : BOOLEAN]]
  BY <1>0 DEF TreeTypeOK
<1> HIDE DEF lost, ending, how
<1>1. TreeTypeOK' /\ LeaseHeld'
  BY <1>0, <1>a, <1>c, <1>d, EndingStep
<1>2. /\ \A s \in ending : runs'[s].st = how[s]
      /\ \A s \in Runs \ ending : runs'[s].st = runs[s].st
  BY <1>0, <1>a DEF Ended, TreeTypeOK
<1>3. NoOrphan'
  BY <1>a, <1>b, <1>c, <1>2, EndsClosed
<1>4. CanceledEverywhere'
  <2> SUFFICES ASSUME NEW s \in Runs \ {Root}, runs'[s].st = "canceled"
               PROVE  canon'[s] # "running"
    BY DEF CanceledEverywhere
  <2>1. CASE s \in ending
    BY <1>0, <1>c, <1>2, <2>1 DEF CanonCanceled
  <2>2. CASE s \notin ending
    BY <1>0, <1>2, <2>2 DEF CanonCanceled, CanceledEverywhere
  <2> QED BY <2>1, <2>2
<1> QED BY <1>1, <1>3, <1>4

\* A canonical Run is created under a claim only, and a canceled run has none.
LEMMA WritingStep ==
    ASSUME TreeInv, NEW r \in Runs, NEW c \in ClaimsOf(r), Writing(r, c)
    PROVE  TreeInv'
<1> USE DEF TreeInv
<1>1. CASE CreateCanonical(r, c)
  <2>1. r # Root => runs[r].st # "canceled"
    <3> SUFFICES ASSUME r # Root PROVE runs[r].st # "canceled"
      OBVIOUS
    <3>1. c # NoClaim /\ HasClaim(r, c)
      BY <1>1, LimitShape DEF CreateCanonical, MayWrite, ClaimsOf, Claims, NoClaim
    <3> QED BY <3>1, ClaimIsLive
  <2>2. /\ canon' = [canon EXCEPT ![r] = "running"] /\ UNCHANGED <<runs, agents, now>>
    BY <1>1 DEF CreateCanonical
  <2> QED
    BY <2>1, <2>2 DEF TreeTypeOK, LeaseHeld, NoOrphan, CanceledEverywhere, IsActive, IsTerminal
<1>2. CASE \E how \in Terminal : CommitCanonical(r, c, how)
  BY <1>2 DEF CommitCanonical, TreeTypeOK, LeaseHeld, NoOrphan, CanceledEverywhere, IsActive, IsTerminal, Terminal
<1> QED BY <1>1, <1>2 DEF Writing

\* begin_root leaves one running run without a lease.
LEMMA TreeInvInit == TreeInit => TreeInv
<1> SUFFICES ASSUME TreeInit PROVE TreeInv
  OBVIOUS
<1>1. TreeTypeOK
  BY LimitShape DEF TreeInit, TreeTypeOK, Active
<1>2. LeaseHeld
  BY DEF TreeInit, LeaseHeld
<1>3. NoOrphan /\ CanceledEverywhere
  BY DEF TreeInit, NoOrphan, CanceledEverywhere, IsTerminal, Terminal
<1> QED BY <1>1, <1>2, <1>3 DEF TreeInv

\* Every repository method preserves the invariant.
LEMMA TreeInvStep == TreeInv /\ [TreeNext]_treeVars => TreeInv'
<1> SUFFICES ASSUME TreeInv, [TreeNext]_treeVars PROVE TreeInv'
  OBVIOUS
<1>1. CASE \E r \in Runs : \E c \in ClaimsOf(r) : Commanding(r, c)
  <2>a. PICK r \in Runs : \E c \in ClaimsOf(r) : Commanding(r, c)
    BY <1>1
  <2>1. PICK c \in ClaimsOf(r) : Commanding(r, c)
    BY <2>a
  <2>2. PICK b \in Commands : SpawnAgents(b, c) \/ ContinueAgent(b, c)
    BY <2>1 DEF Commanding
  <2> QED BY <2>2, EnqueueStep DEF SpawnAgents, ContinueAgent, MayCommand
<1>2. CASE \E r \in Runs : \E c \in ClaimsOf(r) : Leasing(r, c)
  BY <1>2, LeasingStep
<1>3. CASE \E r \in Runs : \E c \in ClaimsOf(r) : Settling(r, c)
  BY <1>3, CompleteStep, FailStep DEF Settling
<1>4. CASE \E r \in Runs : \E c \in ClaimsOf(r) : Writing(r, c)
  BY <1>4, WritingStep
<1>5. CASE \E r \in Runs : CancelSubtree(r)
  BY <1>5, CancelStep
<1>6. CASE \E r \in Runs : \E o \in Owners : ClaimRun(r, o)
  BY <1>6, ClaimStep
<1>7. CASE \E a \in Agents : CloseAgent(a)
  <2>1. PICK a \in Agents : agents' = [agents EXCEPT ![a].open = FALSE] /\ UNCHANGED <<runs, canon, now>>
    BY <1>7 DEF CloseAgent
  <2>2. agents' \in [Agents -> [version : Nat, open : BOOLEAN]]
    BY <2>1 DEF TreeInv, TreeTypeOK
  <2> QED
    BY <2>1, <2>2 DEF TreeInv, TreeTypeOK, LeaseHeld, NoOrphan, CanceledEverywhere, IsActive, IsTerminal
<1>8. CASE Tick
  <2>1. now' \in 0..MaxTime /\ UNCHANGED <<runs, agents, canon>>
    BY <1>8, LimitShape DEF Tick, TreeInv, TreeTypeOK
  <2> QED BY <2>1 DEF TreeInv, TreeTypeOK, LeaseHeld, NoOrphan, CanceledEverywhere, IsActive, IsTerminal
<1>9. CASE UNCHANGED treeVars
  BY <1>9 DEF treeVars, TreeInv, TreeTypeOK, LeaseHeld, NoOrphan, CanceledEverywhere, IsActive, IsTerminal
<1> QED BY <1>1, <1>2, <1>3, <1>4, <1>5, <1>6, <1>7, <1>8, <1>9 DEF TreeNext

\* The inductive invariant of the repository.
THEOREM TreeInvariant == TreeSpec => []TreeInv
BY TreeInvInit, TreeInvStep, PTL DEF TreeSpec

\* The repository keeps its records well formed.
THEOREM TreeTypes == TreeSpec => []TreeTypeOK
<1>1. TreeInv => TreeTypeOK
  BY DEF TreeInv
<1> QED BY <1>1, TreeInvariant, PTL

\* No run ends above an unfinished one, whatever the tree and the order of
\* its commands, settlements and cancellations.
THEOREM TreeHasNoOrphan == TreeSpec => []NoOrphan
<1>1. TreeInv => NoOrphan
  BY DEF TreeInv
<1> QED BY <1>1, TreeInvariant, PTL

\* A child canceled in the tree is never left running in its canonical record.
THEOREM TreeCancelsEverywhere == TreeSpec => []CanceledEverywhere
<1>1. TreeInv => CanceledEverywhere
  BY DEF TreeInv
<1> QED BY <1>1, TreeInvariant, PTL

-----------------------------------------------------------------------------
(* Outcomes are final.                                                     *)

\* Every action leaves what has ended as it is.
LEMMA OutcomeStep ==
    ASSUME TreeInv, [TreeNext]_treeVars, NEW s \in Runs
    PROVE  /\ IsTerminal(s) => runs'[s].st = runs[s].st
           /\ canon[s] \in Terminal => canon'[s] = canon[s]
<1> USE DEF TreeInv
<1>1. CASE \E r \in Runs : \E c \in ClaimsOf(r) : Commanding(r, c)
  BY <1>1 DEF Commanding, SpawnAgents, ContinueAgent, Enqueue, Unused, IsTerminal, Terminal
<1>2. CASE \E r \in Runs : \E c \in ClaimsOf(r) : Leasing(r, c)
  <2>a. PICK r \in Runs : \E c \in ClaimsOf(r) : Leasing(r, c)
    BY <1>2
  <2>1. PICK c \in ClaimsOf(r) : Leasing(r, c)
    BY <2>a
  <2>2. CASE SuspendRun(r, c)
    <3>1. c # NoClaim /\ HasClaim(r, c)
      BY <2>2 DEF SuspendRun, NoClaim
    <3>2. runs[r].st \in {"running", "waiting"}
      BY <3>1, ClaimIsLive
    <3> QED BY <2>2, <3>2 DEF SuspendRun, TreeTypeOK, IsTerminal, Terminal
  <2>3. CASE RenewRunLease(r, c)
    BY <2>3 DEF RenewRunLease, TreeTypeOK
  <2>4. CASE MarkWaiting(r, c) \/ ReleaseWaiting(r, c)
    BY <2>4 DEF MarkWaiting, ReleaseWaiting, TreeTypeOK, IsTerminal, Terminal
  <2> QED BY <2>1, <2>2, <2>3, <2>4 DEF Leasing
<1>3. CASE \E r \in Runs : \E c \in ClaimsOf(r) : Settling(r, c)
  <2>a. PICK r \in Runs : \E c \in ClaimsOf(r) : Settling(r, c)
    BY <1>3
  <2>1. PICK c \in ClaimsOf(r) : Settling(r, c)
    BY <2>a
  <2>2. CASE CompleteRun(r, c, agents[AgentOf[r]].version)
    BY <2>2 DEF CompleteRun, Completable, TreeTypeOK, IsTerminal, Terminal
  <2>3. CASE FailRun(r, c)
    BY <2>3 DEF FailRun, CanonCanceled, IsActive, IsTerminal, Active, Terminal
  <2> QED BY <2>1, <2>2, <2>3 DEF Settling
<1>4. CASE \E r \in Runs : \E c \in ClaimsOf(r) : Writing(r, c)
  BY <1>4 DEF Writing, CreateCanonical, CommitCanonical, TreeTypeOK, Terminal
<1>5. CASE \E r \in Runs : CancelSubtree(r)
  BY <1>5 DEF CancelSubtree, CanonCanceled, IsActive, IsTerminal, Active, Terminal
<1>6. CASE \E r \in Runs : \E o \in Owners : ClaimRun(r, o)
  BY <1>6 DEF ClaimRun, Claimable, Runnable, Reclaimable, TreeTypeOK, IsTerminal, Terminal
<1>7. CASE (\E a \in Agents : CloseAgent(a)) \/ Tick \/ UNCHANGED treeVars
  BY <1>7 DEF CloseAgent, Tick, treeVars
<1> QED BY <1>1, <1>2, <1>3, <1>4, <1>5, <1>6, <1>7 DEF TreeNext

\* No late claim, release, suspension, settlement or canonical write changes
\* an outcome.
THEOREM TreeOutcomesFinal == TreeSpec => OutcomeFinal
<1>1. TreeInv /\ [TreeNext]_treeVars =>
        [\A r \in Runs : /\ IsTerminal(r) => runs'[r].st = runs[r].st
                         /\ canon[r] \in Terminal => canon'[r] = canon[r]]_treeVars
  BY OutcomeStep
<1> QED BY <1>1, TreeInvariant, PTL DEF TreeSpec, OutcomeFinal
-----------------------------------------------------------------------------
(* The slots of the Root's grant.                                          *)

\* A step after which no further run occupies a slot respects the grant.
LEMMA FewerOccupy ==
    ASSUME ParallelLimit, Occupying' \subseteq Occupying
    PROVE  ParallelLimit'
<1>1. IsFiniteSet(Occupying)
  <2>1. Occupying \in SUBSET Runs
    BY DEF Occupying
  <2> QED BY <2>1, FS_Subset, LimitShape
<1>2. Occupying' \in SUBSET Occupying
  OBVIOUS
<1>3. Cardinality(Occupying') <= Cardinality(Occupying) /\ Cardinality(Occupying) \in Nat /\ Cardinality(Occupying') \in Nat
  BY <1>1, <1>2, FS_Subset, FS_CardinalityType
<1> QED BY <1>3, LimitShape DEF ParallelLimit

\* With a free slot one more run may occupy one.
LEMMA OneMoreOccupies ==
    ASSUME SlotFree, NEW r \in Runs, Occupying' \subseteq Occupying \cup {r}
    PROVE  ParallelLimit'
<1>1. IsFiniteSet(Occupying)
  <2>1. Occupying \in SUBSET Runs
    BY DEF Occupying
  <2> QED BY <2>1, FS_Subset, LimitShape
<1>2. /\ IsFiniteSet(Occupying \cup {r}) /\ Cardinality(Occupying) \in Nat
      /\ Cardinality(Occupying \cup {r}) <= Cardinality(Occupying) + 1
  BY <1>1, FS_AddElement, FS_CardinalityType
<1>3. Occupying' \in SUBSET (Occupying \cup {r})
  OBVIOUS
<1>4. /\ Cardinality(Occupying') <= Cardinality(Occupying \cup {r})
      /\ Cardinality(Occupying') \in Nat /\ Cardinality(Occupying \cup {r}) \in Nat
  BY <1>2, <1>3, FS_Subset, FS_CardinalityType
<1> QED BY <1>2, <1>4, LimitShape DEF ParallelLimit, SlotFree

\* Only claim_run and release_waiting take a slot, and both look for one.
LEMMA ParallelStep ==
    ASSUME TreeInv, ParallelLimit, [TreeNext]_treeVars
    PROVE  ParallelLimit'
<1> USE DEF TreeInv
<1>1. CASE \E r \in Runs : \E c \in ClaimsOf(r) : Commanding(r, c)
  <2>1. Occupying' \subseteq Occupying
    BY <1>1 DEF Commanding, SpawnAgents, ContinueAgent, Enqueue, Occupying, Expired
  <2> QED BY <2>1, FewerOccupy
<1>2. CASE \E r \in Runs : \E c \in ClaimsOf(r) : Leasing(r, c)
  <2>a. PICK r \in Runs : \E c \in ClaimsOf(r) : Leasing(r, c)
    BY <1>2
  <2>1. PICK c \in ClaimsOf(r) : Leasing(r, c)
    BY <2>a
  <2>2. CASE RenewRunLease(r, c)
    <3>1. runs[r].st = "running" => r \in Occupying
      BY <2>2 DEF RenewRunLease, Renewable, HasClaim, NoClaim, Occupying
    <3>2. Occupying' \subseteq Occupying
      BY <2>2, <3>1 DEF RenewRunLease, TreeTypeOK, Occupying, Expired
    <3> QED BY <3>2, FewerOccupy
  <2>3. CASE SuspendRun(r, c)
    <3>1. Occupying' \subseteq Occupying
      BY <2>3 DEF SuspendRun, TreeTypeOK, Occupying, Expired
    <3> QED BY <3>1, FewerOccupy
  <2>4. CASE MarkWaiting(r, c)
    <3>1. Occupying' \subseteq Occupying
      BY <2>4 DEF MarkWaiting, TreeTypeOK, Occupying, Expired
    <3> QED BY <3>1, FewerOccupy
  <2>5. CASE ReleaseWaiting(r, c)
    <3>1. Occupying' \subseteq Occupying \cup {r}
      BY <2>5 DEF ReleaseWaiting, TreeTypeOK, Occupying, Expired
    <3> QED BY <2>5, <3>1, OneMoreOccupies DEF ReleaseWaiting
  <2> QED BY <2>1, <2>2, <2>3, <2>4, <2>5 DEF Leasing
<1>3. CASE \E r \in Runs : \E c \in ClaimsOf(r) : Settling(r, c)
  <2>a. PICK r \in Runs : \E c \in ClaimsOf(r) : Settling(r, c)
    BY <1>3
  <2>b. \A d \in Runs : runs'[d] = runs[d] \/ runs'[d].st \in Terminal
    <3>1. CASE \E c \in ClaimsOf(r) : CompleteRun(r, c, agents[AgentOf[r]].version)
      BY <3>1 DEF CompleteRun, Ended, TreeTypeOK, Terminal
    <3>2. CASE \E c \in ClaimsOf(r) : FailRun(r, c)
      BY <3>2 DEF FailRun, Ended, Terminal
    <3> QED BY <2>a, <3>1, <3>2 DEF Settling
  <2>c. now' = now
    BY <2>a DEF Settling, CompleteRun, FailRun
  <2>1. Occupying' \subseteq Occupying
    BY <2>b, <2>c DEF Occupying, Expired, Terminal
  <2> QED BY <2>1, FewerOccupy
<1>4. CASE \E r \in Runs : CancelSubtree(r)
  <2>1. Occupying' \subseteq Occupying
    BY <1>4 DEF CancelSubtree, Ended, Occupying, Expired
  <2> QED BY <2>1, FewerOccupy
<1>5. CASE \E r \in Runs : \E o \in Owners : ClaimRun(r, o)
  <2>1. PICK r \in Runs : \E o \in Owners : ClaimRun(r, o)
    BY <1>5
  <2>2. Occupying' \subseteq Occupying \cup {r}
    BY <2>1 DEF ClaimRun, TreeTypeOK, Occupying, Expired
  <2> QED BY <2>1, <2>2, OneMoreOccupies DEF ClaimRun, Claimable
<1>6. CASE Tick
  <2>1. Occupying' \subseteq Occupying
    BY <1>6, LimitShape DEF Tick, TreeTypeOK, Occupying, Expired
  <2> QED BY <2>1, FewerOccupy
<1>7. CASE UNCHANGED <<runs, now>>
  <2>1. Occupying' \subseteq Occupying
    BY <1>7 DEF Occupying, Expired
  <2> QED BY <2>1, FewerOccupy
<1> QED
  BY <1>1, <1>2, <1>3, <1>4, <1>5, <1>6, <1>7
     DEF TreeNext, Writing, CreateCanonical, CommitCanonical, CloseAgent, treeVars

\* Claims and releases never exceed the Root's grant; a lease that expires
\* frees its slot, and renewing one that has not does not take another.
THEOREM TreeParallelLimit == TreeSpec => []ParallelLimit
<1>1. TreeInit => ParallelLimit
  <2> SUFFICES ASSUME TreeInit PROVE ParallelLimit
    OBVIOUS
  <2>1. Occupying = {Root}
    BY TreeShape DEF TreeInit, Occupying, Expired
  <2>2. Cardinality({Root}) = 1
    BY FS_Singleton
  <2> QED BY <2>1, <2>2, LimitShape DEF ParallelLimit
<1>2. TreeInv /\ ParallelLimit /\ [TreeNext]_treeVars => ParallelLimit'
  BY ParallelStep
<1> QED BY <1>1, <1>2, TreeInvariant, PTL DEF TreeSpec
-----------------------------------------------------------------------------
(* The context of an Agent.                                                *)

Done(a) == {r \in Runs : AgentOf[r] = a /\ runs[r].st = "done"}

Alone(a) ==
    \A r, s \in Runs : AgentOf[r] = a /\ AgentOf[s] = a /\ IsActive(r) /\ IsActive(s) => r = s

Counted(a) == agents[a].version = Cardinality(Done(a))

\* An Agent whose first run does not exist has no run at all.
FirstRunFirst ==
    \A r \in Runs, s \in Runs \ Continued :
        AgentOf[r] = AgentOf[s] /\ runs[s].st = "none" => runs[r].st = "none"

ChainInv == FirstRunFirst /\ \A a \in Agents : Alone(a) /\ Counted(a)

\* A step that creates no run, revives none and completes none.
LEMMA ChainFrame ==
    ASSUME ChainInv,
           \A r \in Runs : /\ runs'[r].st = "none" <=> runs[r].st = "none"
                           /\ IsActive(r)' => IsActive(r)
                           /\ runs'[r].st = "done" <=> runs[r].st = "done",
           \A a \in Agents : agents'[a].version = agents[a].version
    PROVE  ChainInv'
<1>1. \A a \in Agents : Done(a)' = Done(a)
  BY DEF Done
<1> QED BY <1>1 DEF ChainInv, FirstRunFirst, Alone, Counted

\* A spawned run is the first of its Agent; a continued Agent exists and is
\* idle.
LEMMA ChainEnqueue ==
    ASSUME TreeInv, ChainInv, NEW b \in Commands, NEW c,
           SpawnAgents(b, c) \/ ContinueAgent(b, c)
    PROVE  ChainInv'
<1>0. /\ Kids[b] \subseteq Runs /\ \A k \in Kids[b] : runs[k].st = "none"
      /\ agents' = agents
      /\ \A r \in Runs : IF r \in Kids[b] THEN runs'[r].st = "queued" ELSE runs'[r] = runs[r]
  BY CommandShape DEF SpawnAgents, ContinueAgent, Unused, Enqueue
<1>1. \A k, l \in Kids[b] : AgentOf[k] = AgentOf[l] => k = l
  <2>1. CASE b \in Continuations
    BY <2>1, AgentShape
  <2>2. CASE b \notin Continuations
    BY <1>0, <2>2, AgentShape
  <2> QED BY <2>1, <2>2
<1>2. \A k \in Kids[b], r \in Runs : AgentOf[r] = AgentOf[k] => ~IsActive(r)
  <2>1. CASE ContinueAgent(b, c)
    BY <2>1, <1>0 DEF ContinueAgent, Idle, Busy
  <2>2. CASE SpawnAgents(b, c)
    <3>1. \A k \in Kids[b] : k \in Runs \ Continued
      BY <1>0, <2>2, AgentShape DEF SpawnAgents
    <3> QED BY <1>0, <3>1 DEF ChainInv, FirstRunFirst, IsActive, Active
  <2> QED BY <2>1, <2>2
<1>3. ASSUME NEW a \in Agents
      PROVE  Alone(a)' /\ Counted(a)'
  <2>1. Done(a)' = Done(a)
    BY <1>0 DEF Done
  <2>2. Counted(a)'
    BY <1>0, <2>1 DEF ChainInv, Counted
  <2>3. \A r \in Runs : IsActive(r)' => r \in Kids[b] \/ IsActive(r)
    BY <1>0 DEF IsActive
  <2>4. Alone(a)'
    BY <1>1, <1>2, <2>3 DEF ChainInv, Alone
  <2> QED BY <2>2, <2>4
<1>4. FirstRunFirst'
  <2> SUFFICES ASSUME NEW r \in Runs, NEW s \in Runs \ Continued, AgentOf[r] = AgentOf[s],
                      runs'[s].st = "none", runs'[r].st # "none"
               PROVE  FALSE
    BY DEF FirstRunFirst
  <2>1. runs[s].st = "none" /\ s \notin Kids[b]
    BY <1>0
  <2>2. runs[r].st = "none"
    BY <2>1 DEF ChainInv, FirstRunFirst
  <2>3. r \in Kids[b]
    BY <1>0, <2>2
  <2>4. CASE SpawnAgents(b, c)
    <3>1. r \in Runs \ Continued
      BY <2>3, <2>4, AgentShape DEF SpawnAgents
    <3> QED BY <2>1, <2>3, <3>1, AgentShape
  <2>5. CASE ContinueAgent(b, c)
    <3>1. PICK t \in Runs : AgentOf[t] = AgentOf[r] /\ runs[t].st # "none"
      BY <2>3, <2>5 DEF ContinueAgent, Participating
    <3> QED BY <2>1, <3>1 DEF ChainInv, FirstRunFirst
  <2> QED BY <2>4, <2>5
<1> QED BY <1>3, <1>4 DEF ChainInv

\* A completion is counted once.
LEMMA ChainComplete ==
    ASSUME TreeInv, ChainInv, NEW r \in Runs, NEW c, NEW version, CompleteRun(r, c, version)
    PROVE  ChainInv'
<1>0. /\ runs[r].st = "running" /\ AgentOf[r] \in Agents
      /\ runs' = [runs EXCEPT ![r] = Ended(r, "done")]
      /\ agents' = [agents EXCEPT ![AgentOf[r]].version = @ + 1]
      /\ runs \in [Runs -> AgentTreeRun] /\ agents \in [Agents -> AgentNode]
  BY CommandShape DEF CompleteRun, Completable, TreeInv, TreeTypeOK
<1>1. runs'[r].st = "done" /\ \A d \in Runs \ {r} : runs'[d] = runs[d]
  BY <1>0 DEF Ended
<1>2. FirstRunFirst' /\ \A a \in Agents : Alone(a)'
  BY <1>0, <1>1 DEF ChainInv, FirstRunFirst, Alone, IsActive, Active
<1>3. ASSUME NEW a \in Agents
      PROVE  Counted(a)'
  <2>1. CASE a # AgentOf[r]
    <3>1. Done(a)' = Done(a) /\ agents'[a].version = agents[a].version
      BY <1>0, <1>1, <2>1 DEF Done
    <3> QED BY <3>1 DEF ChainInv, Counted
  <2>2. CASE a = AgentOf[r]
    <3>1. Done(a)' = Done(a) \cup {r} /\ r \notin Done(a) /\ Done(a) \in SUBSET Runs
      BY <1>0, <1>1, <2>2 DEF Done
    <3>2. IsFiniteSet(Done(a))
      BY <3>1, FS_Subset, LimitShape
    <3>3. Cardinality(Done(a)') = Cardinality(Done(a)) + 1
      BY <3>1, <3>2, FS_AddElement
    <3>4. agents'[a].version = agents[a].version + 1
      BY <1>0, <2>2
    <3> QED BY <3>3, <3>4 DEF ChainInv, Counted
  <2> QED BY <2>1, <2>2
<1> QED BY <1>2, <1>3 DEF ChainInv

\* Every repository method keeps the chain of an Agent.
LEMMA ChainStep ==
    ASSUME TreeInv, ChainInv, [TreeNext]_treeVars
    PROVE  ChainInv'
<1> USE DEF IsActive, Active
<1>0. runs \in [Runs -> AgentTreeRun] /\ agents \in [Agents -> AgentNode]
  BY DEF TreeInv, TreeTypeOK
<1>1. ASSUME NEW r \in Runs, NEW c \in ClaimsOf(r), Commanding(r, c)
      PROVE  ChainInv'
  BY <1>1, ChainEnqueue DEF Commanding
<1>2. ASSUME NEW r \in Runs, NEW c \in ClaimsOf(r), Leasing(r, c)
      PROVE  ChainInv'
  <2>1. agents' = agents
    BY <1>2 DEF Leasing, RenewRunLease, SuspendRun, MarkWaiting, ReleaseWaiting
  <2>2. runs[r].st \in {"running", "waiting"}
    <3>1. CASE RenewRunLease(r, c) \/ MarkWaiting(r, c) \/ ReleaseWaiting(r, c)
      BY <3>1 DEF RenewRunLease, Renewable, MarkWaiting, ReleaseWaiting
    <3>2. CASE SuspendRun(r, c)
      <4>1. c # NoClaim /\ HasClaim(r, c)
        BY <3>2 DEF SuspendRun, NoClaim
      <4> QED BY <4>1, ClaimIsLive DEF TreeInv
    <3> QED BY <1>2, <3>1, <3>2 DEF Leasing
  <2>3. runs'[r].st \in {"running", "waiting"} /\ \A d \in Runs \ {r} : runs'[d] = runs[d]
    BY <1>0, <1>2, <2>2 DEF Leasing, RenewRunLease, SuspendRun, MarkWaiting, ReleaseWaiting
  <2> QED BY <2>1, <2>2, <2>3, ChainFrame
<1>3. ASSUME NEW r \in Runs, NEW c \in ClaimsOf(r), Settling(r, c)
      PROVE  ChainInv'
  <2>1. CASE FailRun(r, c)
    <3>1. agents' = agents
          /\ \A d \in Runs : \/ runs'[d] = runs[d]
                             \/ runs[d].st \in Active /\ runs'[d].st \in {"failed", "canceled"}
      BY <2>1 DEF FailRun, Ended
    <3> QED BY <3>1, ChainFrame
  <2> QED BY <1>3, <2>1, ChainComplete DEF Settling
<1>4. ASSUME NEW r \in Runs, CancelSubtree(r)
      PROVE  ChainInv'
  <2>1. agents' = agents
        /\ \A d \in Runs : \/ runs'[d] = runs[d]
                           \/ runs[d].st \in Active /\ runs'[d].st = "canceled"
    BY <1>4 DEF CancelSubtree, Ended
  <2> QED BY <2>1, ChainFrame
<1>5. ASSUME NEW r \in Runs, NEW o \in Owners, ClaimRun(r, o)
      PROVE  ChainInv'
  <2>1. /\ runs[r].st \in Active /\ runs'[r].st = "running" /\ agents' = agents
        /\ \A d \in Runs \ {r} : runs'[d] = runs[d]
    BY <1>0, <1>5 DEF ClaimRun, Claimable, Runnable, Reclaimable
  <2> QED BY <2>1, ChainFrame
<1>6. CASE UNCHANGED runs /\ \A a \in Agents : agents'[a].version = agents[a].version
  BY <1>6, ChainFrame
<1>7. ASSUME NEW a \in Agents, CloseAgent(a)
      PROVE  ChainInv'
  <2>1. UNCHANGED runs /\ \A x \in Agents : agents'[x].version = agents[x].version
    BY <1>0, <1>7 DEF CloseAgent
  <2> QED BY <1>6, <2>1
<1>8. ASSUME NEW r \in Runs, NEW c \in ClaimsOf(r), Writing(r, c)
      PROVE  ChainInv'
  BY <1>6, <1>8 DEF Writing, CreateCanonical, CommitCanonical
<1>9. CASE Tick \/ UNCHANGED treeVars
  BY <1>6, <1>9 DEF Tick, treeVars
<1> QED BY <1>1, <1>2, <1>3, <1>4, <1>5, <1>7, <1>8, <1>9 DEF TreeNext

\* An Agent has one unfinished run at most and its context version counts the
\* completed ones, whatever is spawned, continued, canceled or completed late:
\* spawn_agents, continue_agent and complete_run together.
THEOREM TreeContextChain == TreeSpec => []ContextChain
<1>1. TreeInit => ChainInv
  <2> SUFFICES ASSUME TreeInit PROVE ChainInv
    OBVIOUS
  <2>1. \A r \in Runs : runs[r].st = IF r = Root THEN "running" ELSE "none"
    BY DEF TreeInit
  <2>2. \A a \in Agents : Done(a) = {} /\ agents[a].version = 0
    BY <2>1 DEF TreeInit, Done
  <2>3. \A a \in Agents : Alone(a)
    BY <2>1 DEF Alone, IsActive, Active
  <2>4. \A a \in Agents : Counted(a)
    BY <2>2, FS_EmptySet DEF Counted
  <2>5. FirstRunFirst
    <3>1. Root \in Runs \ Continued
      BY TreeShape, CommandShape DEF Continued
    <3> QED BY <2>1, <3>1, AgentShape DEF FirstRunFirst
  <2> QED BY <2>3, <2>4, <2>5 DEF ChainInv
<1>2. TreeInv /\ ChainInv /\ [TreeNext]_treeVars => ChainInv'
  BY ChainStep
<1>3. ChainInv => ContextChain
  BY DEF ChainInv, Alone, Counted, Done, ContextChain
<1> QED BY <1>1, <1>2, <1>3, TreeInvariant, PTL DEF TreeSpec

-----------------------------------------------------------------------------
(* What a step of the tree leaves as it was.                               *)

\* A claim that was lost is lost for good, and a run's epoch never falls.
Moved(r) ==
    /\ runs'[r].epoch >= runs[r].epoch
    /\ runs'[r].st = "none" => runs[r].st = "none" /\ runs'[r].epoch = runs[r].epoch
    /\ \A c \in Claims : c.epoch <= runs[r].epoch /\ ~HasClaim(r, c) => ~HasClaim(r, c)'

\* What TreeTypeOK says of the numbers of a run.
LEMMA RunNumbers ==
    ASSUME TreeTypeOK, NEW r \in Runs
    PROVE  /\ runs[r].epoch \in Nat /\ runs[r].expires \in Nat /\ now \in Nat
           /\ \A c \in Claims : c # NoClaim /\ c.epoch \in Nat /\ c.owner \in Owners
                                /\ c = [owner |-> c.owner, epoch |-> c.epoch]
<1>1. runs[r].epoch \in Nat /\ runs[r].expires \in Nat /\ now \in Nat
  BY LimitShape DEF TreeTypeOK, AgentTreeRun
<1>2. \A c \in Claims : c # NoClaim /\ c.epoch \in Nat /\ c.owner \in Owners
                                /\ c = [owner |-> c.owner, epoch |-> c.epoch]
  BY LimitShape DEF Claims, NoClaim
<1> QED BY <1>1, <1>2

\* A record that ends or does not move keeps its epoch, and a claim on it is
\* not given back.
LEMMA MovedQuietly ==
    ASSUME TreeTypeOK, NEW r \in Runs, now' >= now, now' \in Nat,
           \/ runs'[r] = runs[r]
           \/ /\ runs'[r].owner = NoOwner /\ runs'[r].st # "none"
              /\ runs'[r].epoch = runs[r].epoch
    PROVE  Moved(r)
<1>0. runs[r].epoch \in Nat /\ runs[r].expires \in Nat /\ now \in Nat /\ \A c \in Claims : c # NoClaim
  BY RunNumbers
<1>2. ASSUME NEW c \in Claims, ~HasClaim(r, c) PROVE ~HasClaim(r, c)'
  <2>1. CASE runs'[r] = runs[r]
    <3>1. Expired(r) => Expired(r)'
      BY <1>0, <2>1 DEF Expired
    <3> QED BY <1>2, <2>1, <3>1 DEF HasClaim
  <2>2. CASE runs'[r].owner = NoOwner
    BY <1>0, <2>2 DEF HasClaim
  <2> QED BY <2>1, <2>2
<1> QED BY <1>0, <1>2 DEF Moved

\* The holder of a claim changes its record.
LEMMA MovedByHolder ==
    ASSUME TreeTypeOK, NEW r \in Runs, NEW c0, HasClaim(r, c0),
           runs'[r].owner = runs[r].owner, runs'[r].epoch = runs[r].epoch, runs'[r].st # "none"
    PROVE  Moved(r)
<1>0. runs[r].epoch \in Nat /\ \A c \in Claims : c # NoClaim
  BY RunNumbers
<1>1. ASSUME NEW c \in Claims, ~HasClaim(r, c) PROVE ~HasClaim(r, c)'
  BY <1>0, <1>1 DEF HasClaim
<1> QED BY <1>0, <1>1 DEF Moved

\* A claim takes the next epoch.
LEMMA MovedByClaim ==
    ASSUME TreeTypeOK, NEW r \in Runs, NEW o \in Owners, ClaimRun(r, o)
    PROVE  Moved(r)
<1>0. runs[r].epoch \in Nat /\ \A c \in Claims : c # NoClaim /\ c.epoch \in Nat
  BY RunNumbers
<1>1. runs'[r].st = "running" /\ runs'[r].owner = o /\ runs'[r].epoch = runs[r].epoch + 1 /\ o # NoOwner
  BY LimitShape DEF ClaimRun, TreeTypeOK
<1>2. ASSUME NEW c \in Claims, c.epoch <= runs[r].epoch PROVE ~HasClaim(r, c)'
  BY <1>0, <1>1, <1>2 DEF HasClaim
<1> QED BY <1>0, <1>1, <1>2 DEF Moved

Unborn == \A r \in Runs : runs[r].st = "none" => runs[r].epoch = 0

\* Every method of the repository moves the records of the runs this way.
LEMMA TreeMoves ==
    ASSUME TreeInv, Unborn, [TreeNext]_treeVars, NEW s \in Runs
    PROVE  Moved(s) /\ (canon[s] # "none" => canon'[s] # "none")
<1>0. TreeTypeOK /\ runs \in [Runs -> AgentTreeRun] /\ canon \in [Runs -> {"none", "running"} \cup Terminal]
  BY DEF TreeInv, TreeTypeOK
<1>a. TreeTypeOK'
  BY TreeInvStep DEF TreeInv
<1>b. now \in Nat /\ now' \in Nat
  BY <1>0, <1>a, LimitShape DEF TreeTypeOK
<1>c. ASSUME now' = now,
             \/ runs'[s] = runs[s]
             \/ /\ runs'[s].owner = NoOwner /\ runs'[s].st # "none" /\ runs'[s].epoch = runs[s].epoch
      PROVE  Moved(s)
  BY <1>0, <1>b, <1>c, MovedQuietly
<1>1. ASSUME NEW r \in Runs, NEW c \in ClaimsOf(r), Commanding(r, c)
      PROVE  Moved(s) /\ canon' = canon
  <2>1. PICK b \in Commands : SpawnAgents(b, c) \/ ContinueAgent(b, c)
    BY <1>1 DEF Commanding
  <2>2. now' = now /\ canon' = canon /\ Unused(b) /\ Enqueue(Kids[b])
    BY <2>1 DEF SpawnAgents, ContinueAgent
  <2>3. \/ runs'[s] = runs[s]
        \/ /\ runs'[s].owner = NoOwner /\ runs'[s].st # "none" /\ runs'[s].epoch = runs[s].epoch
    BY <2>2, CommandShape DEF Unused, Enqueue, Unborn
  <2> QED BY <1>c, <2>2, <2>3
<1>2. ASSUME NEW r \in Runs, NEW c \in ClaimsOf(r), Leasing(r, c)
      PROVE  Moved(s) /\ canon' = canon
  <2>0. now' = now /\ canon' = canon /\ HasClaim(r, c)
    BY <1>2 DEF Leasing, RenewRunLease, Renewable, SuspendRun, MarkWaiting, ReleaseWaiting
  <2>1. CASE s # r
    <3>1. runs'[s] = runs[s]
      <4>1. CASE RenewRunLease(r, c) \/ SuspendRun(r, c)
        BY <1>0, <2>1, <4>1 DEF RenewRunLease, SuspendRun
      <4>2. CASE MarkWaiting(r, c) \/ ReleaseWaiting(r, c)
        BY <1>0, <2>1, <4>2 DEF MarkWaiting, ReleaseWaiting
      <4> QED BY <1>2, <4>1, <4>2 DEF Leasing
    <3> QED BY <1>c, <2>0, <3>1
  <2>2. CASE s = r /\ SuspendRun(r, c)
    <3>1. runs'[s].owner = NoOwner /\ runs'[s].st # "none" /\ runs'[s].epoch = runs[s].epoch
      BY <1>0, <2>2 DEF SuspendRun
    <3> QED BY <1>c, <2>0, <3>1
  <2>3. CASE s = r /\ (RenewRunLease(r, c) \/ MarkWaiting(r, c) \/ ReleaseWaiting(r, c))
    <3>1. runs'[s].owner = runs[s].owner /\ runs'[s].epoch = runs[s].epoch /\ runs'[s].st # "none"
      BY <1>0, <2>3 DEF RenewRunLease, Renewable, MarkWaiting, ReleaseWaiting, AgentTreeRun
    <3> QED BY <1>0, <2>0, <2>3, <3>1, MovedByHolder
  <2> QED BY <1>2, <2>0, <2>1, <2>2, <2>3 DEF Leasing
<1>3. ASSUME NEW r \in Runs, NEW c \in ClaimsOf(r), Settling(r, c)
      PROVE  Moved(s) /\ (canon[s] # "none" => canon'[s] # "none")
  <2>1. now' = now /\ (canon[s] # "none" => canon'[s] # "none")
    BY <1>3 DEF Settling, CompleteRun, FailRun, CanonCanceled
  <2>2. \/ runs'[s] = runs[s]
        \/ /\ runs'[s].owner = NoOwner /\ runs'[s].st # "none" /\ runs'[s].epoch = runs[s].epoch
    <3>1. CASE CompleteRun(r, c, agents[AgentOf[r]].version)
      BY <1>0, <3>1 DEF CompleteRun, Ended
    <3>2. CASE FailRun(r, c)
      BY <1>0, <3>2 DEF FailRun, Ended
    <3> QED BY <1>3, <3>1, <3>2 DEF Settling
  <2> QED BY <1>c, <2>1, <2>2
<1>4. ASSUME NEW r \in Runs, CancelSubtree(r)
      PROVE  Moved(s) /\ (canon[s] # "none" => canon'[s] # "none")
  <2>1. now' = now /\ (canon[s] # "none" => canon'[s] # "none")
    BY <1>4 DEF CancelSubtree, CanonCanceled
  <2>2. \/ runs'[s] = runs[s]
        \/ /\ runs'[s].owner = NoOwner /\ runs'[s].st # "none" /\ runs'[s].epoch = runs[s].epoch
    BY <1>4 DEF CancelSubtree, Ended
  <2> QED BY <1>c, <2>1, <2>2
<1>5. ASSUME NEW r \in Runs, NEW o \in Owners, ClaimRun(r, o)
      PROVE  Moved(s) /\ canon' = canon
  <2>1. CASE s # r
    <3>1. runs'[s] = runs[s] /\ now' = now
      BY <1>0, <1>5, <2>1 DEF ClaimRun
    <3> QED BY <1>5, <1>c, <3>1 DEF ClaimRun
  <2>2. CASE s = r
    BY <1>0, <1>5, <2>2, MovedByClaim DEF ClaimRun
  <2> QED BY <2>1, <2>2
<1>6. ASSUME NEW r \in Runs, NEW c \in ClaimsOf(r), Writing(r, c)
      PROVE  Moved(s) /\ (canon[s] # "none" => canon'[s] # "none")
  <2>1. now' = now /\ runs' = runs /\ (canon[s] # "none" => canon'[s] # "none")
    BY <1>0, <1>6 DEF Writing, CreateCanonical, CommitCanonical, Terminal
  <2> QED BY <1>c, <2>1
<1>7. ASSUME Tick
      PROVE  Moved(s) /\ canon' = canon
  <2>1. now' >= now /\ runs' = runs /\ canon' = canon
    BY <1>7, <1>b DEF Tick
  <2> QED BY <1>0, <1>b, <2>1, MovedQuietly
<1>8. ASSUME UNCHANGED <<runs, canon, now>>
      PROVE  Moved(s) /\ canon' = canon
  BY <1>c, <1>8
<1> QED
  BY <1>1, <1>2, <1>3, <1>4, <1>5, <1>6, <1>7, <1>8 DEF TreeNext, CloseAgent, treeVars

-----------------------------------------------------------------------------
(* The executions and joins use the tree as RunTree allows.                *)

Acts(r, c) == Commanding(r, c) \/ Leasing(r, c) \/ Settling(r, c) \/ Writing(r, c)

\* An execution is a caller of the tree.
LEMMA ExecIsCaller ==
    ASSUME JoinTypeOK, Parties, NEW x \in execs
    PROVE  /\ x.run \in Runs /\ x.claim \in ClaimsOf(x.run)
           /\ Acts(x.run, x.claim) => TreeNext
<1>1. x.run \in Runs /\ x.claim \in ClaimsOf(x.run)
  BY DEF JoinTypeOK, Execution, Parties
<1> QED BY <1>1 DEF Acts, TreeNext

\* A step of an execution is a step of the tree or leaves it alone.
LEMMA ExecUsesTree ==
    ASSUME JoinTypeOK, Parties, NEW x \in execs, ExecStep(x)
    PROVE  TreeNext \/ UNCHANGED treeVars
<1>0. x.run \in Runs /\ (Acts(x.run, x.claim) => TreeNext)
  BY ExecIsCaller
<1>1. CASE Begin(x) \/ OpenReceiver(x) \/ Receive(x) \/ CancelReceive(x) \/ LoseLease(x)
           \/ Close(x) \/ Gather(x)
  BY <1>1 DEF Begin, OpenReceiver, Receive, CancelReceive, LoseLease, Close, Gather
<1>2. CASE FailStop(x) \/ Submit(x) \/ StopExec(x)
  <2>1. Writing(x.run, x.claim) \/ UNCHANGED treeVars
    BY <1>2 DEF FailStop, Submit, StopExec, Writing, Terminal
  <2> QED BY <1>0, <2>1 DEF Acts
<1>3. CASE Complete(x) \/ Fail(x)
  <2>1. Settling(x.run, x.claim) \/ UNCHANGED treeVars
    BY <1>3 DEF Complete, Fail, Settling, CompleteRun
  <2> QED BY <1>0, <2>1 DEF Acts
<1>4. CASE CancelRun(x)
  BY <1>0, <1>4 DEF CancelRun, TreeNext
<1>5. CASE Park(x)
  <2>1. Leasing(x.run, x.claim) \/ UNCHANGED treeVars
    BY <1>5 DEF Park, Leasing
  <2> QED BY <1>0, <2>1 DEF Acts
<1> QED BY <1>1, <1>2, <1>3, <1>4, <1>5 DEF ExecStep

\* A step of a join is a step of the tree or leaves it alone.
LEMMA JoinTaskUsesTree ==
    ASSUME JoinTypeOK, Parties, NEW b \in Commands, JoinStep(b)
    PROVE  TreeNext \/ UNCHANGED treeVars
<1>0. By[b] \in Runs /\ Kids[b] \subseteq Runs /\ joins[b].cand \subseteq Kids[b] /\ boot \in Owners
  BY CommandShape DEF Parties, JoinTypeOK
<1>1. CASE JoinStart(b) \/ Remark(b) \/ Release(b)
  <2>1. joins[b].claim \in ClaimsOf(By[b])
    BY <1>1 DEF JoinStart, Remark, Release, Parties
  <2>2. Leasing(By[b], joins[b].claim) \/ UNCHANGED treeVars
    BY <1>1 DEF JoinStart, Remark, Release, Leasing
  <2> QED BY <1>0, <2>1, <2>2 DEF TreeNext
<1>2. CASE ClaimNext(b)
  BY <1>0, <1>2 DEF ClaimNext, TreeNext
<1>3. CASE CancelTarget(b)
  BY <1>0, <1>3 DEF CancelTarget, TreeNext
<1>4. CASE Aggregate(b) \/ ListRunnable(b) \/ Decide(b) \/ Probe(b) \/ WaitAny(b)
           \/ CancelTasks(b) \/ Reap(b)
  BY <1>4 DEF Aggregate, ListRunnable, Decide, Probe, WaitAny, CancelTasks, Reap
<1> QED BY <1>1, <1>2, <1>3, <1>4 DEF JoinStep

\* So does every step of the scheduler and of the host.
LEMMA JoinUsesTree ==
    ASSUME JoinTypeOK, Parties, [JoinNext]_vars
    PROVE  [TreeNext]_treeVars
<1>1. ASSUME NEW x \in execs, Checkpoint(x) \/ Suspend(x)
      PROVE  UNCHANGED treeVars
  BY <1>1 DEF Checkpoint, Suspend
<1>2. ASSUME NEW x \in execs, Heartbeat(x)
      PROVE  TreeNext
  BY <1>2, ExecIsCaller DEF Heartbeat, Acts, Leasing
<1>3. ASSUME NEW x \in execs, NEW b \in Commands, Delegate(x, b)
      PROVE  TreeNext \/ UNCHANGED treeVars
  BY <1>3, ExecIsCaller DEF Delegate, Acts, Commanding
<1>4. ASSUME NEW x \in execs, NEW how \in {"done", "failed"}, Finish(x, how)
      PROVE  TreeNext \/ UNCHANGED treeVars
  <2>1. Writing(x.run, x.claim) \/ UNCHANGED treeVars
    BY <1>4 DEF Finish, Writing, Terminal
  <2> QED BY <2>1, ExecIsCaller DEF Acts
<1>5. CASE RequestStop \/ Crash \/ Resume \/ UNCHANGED vars
  BY <1>5 DEF RequestStop, Crash, Resume, vars
<1>6. CASE Pass
  BY <1>6 DEF Pass, TreeNext
<1>7. ASSUME NEW r \in HostCancels, HostCancel(r)
      PROVE  TreeNext
  BY <1>7, BootShape DEF HostCancel, TreeNext
<1>8. ASSUME NEW a \in HostCloses, HostClose(a)
      PROVE  TreeNext
  BY <1>8, BootShape DEF HostClose, TreeNext
<1> QED
  BY <1>1, <1>2, <1>3, <1>4, <1>5, <1>6, <1>7, <1>8, ExecUsesTree, JoinTaskUsesTree
     DEF JoinNext, UpNext

-----------------------------------------------------------------------------
(* What a step of the tree means for the records and for the executions.   *)

Member(x) ==
    /\ x \in Execution /\ x.claim \in ClaimsOf(x.run)
    /\ x.pc \in {"open", "receive", "drain"} => x.cmd \in Commands /\ By[x.cmd] = x.run

Ready(x) ==
    x.pc \in {"submit", "work", "open", "receive", "drain"} => \A d \in Deps[x.run] : runs[d].st = "done"

Good(x) == Member(x) /\ Ready(x) /\ ExecSound(x)

Distinct == \A x, y \in execs : Key(x) = Key(y) => x = y

\* How the execution is going to end.
EndsAs(x, how) == x.pc = how \/ (x.pc \in Closing /\ x.then = how)

\* No canonical Run of a child begins.
NoneBegins ==
    \A r \in Runs \ {Root} : /\ canon'[r] = "running" => canon[r] = "running"
                             /\ canon[r] = "none" => canon'[r] = "none"

\* A child that ends in this step has an agreeing canonical record.
EndsWell ==
    \A r \in Runs \ {Root} : runs'[r].st \in Terminal /\ runs[r].st \notin Terminal =>
        /\ canon'[r] # "running"
        /\ runs'[r].st = "done" => canon'[r] = "done"

\* A predecessor that is done stays done.
LEMMA ReadyStays ==
    ASSUME TreeInv, [TreeNext]_treeVars, NEW r \in Runs, \A d \in Deps[r] : runs[d].st = "done"
    PROVE  \A d \in Deps[r] : runs'[d].st = "done"
BY OutcomeStep, CommandShape DEF IsTerminal, Terminal

\* An execution that does nothing stays sound, unless its canonical Run begins
\* under a claim it has.
LEMMA SoundStays ==
    ASSUME TreeInv, Unborn, [TreeNext]_treeVars, NEW x, Member(x), ExecSound(x),
           x.run # Root /\ canon'[x.run] = "running" =>
               canon[x.run] = "running" \/ ~HasClaim(x.run, x.claim)
    PROVE  ExecSound(x)'
<1> SUFFICES ASSUME x.run # Root PROVE ExecSound(x)'
  BY DEF ExecSound
<1>0. x.run \in Runs /\ x.claim \in Claims
  BY DEF Member, Execution, ClaimsOf
<1>1. /\ Moved(x.run) /\ (canon[x.run] # "none" => canon'[x.run] # "none")
      /\ canon[x.run] = "done" => canon'[x.run] = "done"
  BY <1>0, TreeMoves, OutcomeStep DEF Terminal
<1>2. /\ x.claim.epoch <= runs[x.run].epoch
      /\ x.pc \in {"work", "open", "receive", "drain"} => canon[x.run] # "none"
      /\ EndsAs(x, "complete") => canon[x.run] = "done"
      /\ EndsAs(x, "fail") => canon[x.run] # "running" \/ ~HasClaim(x.run, x.claim)
  BY DEF ExecSound, EndsAs
<1>3. x.claim.epoch <= runs'[x.run].epoch
  <2>1. x.claim.epoch \in Nat /\ runs[x.run].epoch \in Nat /\ runs'[x.run].epoch \in Nat
    BY <1>0, TreeInvStep, RunNumbers, LimitShape DEF TreeInv, TreeTypeOK, AgentTreeRun
  <2> QED BY <1>1, <1>2, <2>1 DEF Moved
<1>4. ~HasClaim(x.run, x.claim) => ~HasClaim(x.run, x.claim)'
  BY <1>0, <1>1, <1>2 DEF Moved
<1> QED BY <1>1, <1>2, <1>3, <1>4 DEF ExecSound, EndsAs

\* Nothing begins and what ends agrees: the records still agree, and the
\* executions that do nothing stay good.
LEMMA TreePart ==
    ASSUME TreeInv, RecordsAgree, Begun, [TreeNext]_treeVars, NoneBegins, EndsWell
    PROVE  RecordsAgree' /\ Begun' /\ \A x : Good(x) => Good(x)'
<1>0. Unborn
  BY DEF Begun, Unborn
<1>1. RecordsAgree'
  <2> SUFFICES ASSUME NEW r \in Runs \ {Root}
               PROVE  /\ runs'[r].st = "done" => canon'[r] = "done"
                      /\ runs'[r].st \in Terminal => canon'[r] # "running"
    BY DEF RecordsAgree, IsTerminal
  <2>1. CASE runs[r].st \in Terminal
    BY <2>1, OutcomeStep DEF RecordsAgree, IsTerminal, Terminal, NoneBegins
  <2>2. CASE runs[r].st \notin Terminal
    BY <2>2 DEF EndsWell, Terminal
  <2> QED BY <2>1, <2>2
<1>2. Begun'
  <2>1. ASSUME NEW r \in Runs PROVE runs'[r].st = "none" => runs'[r].epoch = 0
    BY <1>0, <2>1, TreeMoves DEF Unborn, Moved
  <2>2. ASSUME NEW r \in Runs, r # Root, canon'[r] # "none" PROVE \A d \in Deps[r] : runs'[d].st = "done"
    BY <2>2, ReadyStays DEF NoneBegins, Begun
  <2> QED BY <2>1, <2>2 DEF Begun
<1>3. ASSUME NEW x, Good(x) PROVE Good(x)'
  <2>1. Member(x)' /\ x.run \in Runs
    BY <1>3 DEF Good, Member, Execution
  <2>2. Ready(x)'
    BY <1>3, <2>1, ReadyStays DEF Good, Ready
  <2>3. ExecSound(x)'
    BY <1>0, <1>3, <2>1, SoundStays DEF Good, NoneBegins
  <2> QED BY <2>1, <2>2, <2>3 DEF Good
<1> QED BY <1>1, <1>2, <1>3

\* Commands, leases, the closing of an Agent and time begin and end nothing.
LEMMA QuietTree ==
    ASSUME TreeInv, NEW r \in Runs, NEW c, NEW b \in Commands, NEW o \in Owners, NEW a \in Agents,
           \/ UNCHANGED treeVars
           \/ MarkWaiting(r, c) \/ ReleaseWaiting(r, c) \/ RenewRunLease(r, c) \/ SuspendRun(r, c)
           \/ ClaimRun(r, o)
           \/ SpawnAgents(b, c) \/ ContinueAgent(b, c)
           \/ CloseAgent(a) \/ Tick
    PROVE  NoneBegins /\ EndsWell
<1>0. runs \in [Runs -> AgentTreeRun]
  BY DEF TreeInv, TreeTypeOK
<1>1. canon' = canon
  BY DEF treeVars, MarkWaiting, ReleaseWaiting, RenewRunLease, SuspendRun, ClaimRun, SpawnAgents,
         ContinueAgent, CloseAgent, Tick
<1>2. ASSUME NEW s \in Runs, runs'[s].st \in Terminal PROVE runs[s].st \in Terminal
  <2>1. CASE UNCHANGED treeVars \/ CloseAgent(a) \/ Tick
    BY <1>2, <2>1 DEF treeVars, CloseAgent, Tick
  <2>2. CASE SpawnAgents(b, c) \/ ContinueAgent(b, c)
    BY <1>2, <2>2 DEF SpawnAgents, ContinueAgent, Enqueue, Terminal
  <2>3. CASE ClaimRun(r, o)
    BY <1>0, <1>2, <2>3 DEF ClaimRun, Terminal
  <2>4. CASE SuspendRun(r, c)
    BY <1>0, <1>2, <2>4 DEF SuspendRun, Terminal
  <2>5. CASE MarkWaiting(r, c) \/ ReleaseWaiting(r, c)
    BY <1>0, <1>2, <2>5 DEF MarkWaiting, ReleaseWaiting, Terminal, AgentTreeRun
  <2>6. CASE RenewRunLease(r, c)
    BY <1>0, <1>2, <2>6 DEF RenewRunLease, AgentTreeRun
  <2> QED BY <2>1, <2>2, <2>3, <2>4, <2>5, <2>6
<1> QED BY <1>1, <1>2 DEF NoneBegins, EndsWell

\* An outcome is committed to a canonical Run that is running.
LEMMA CommitWell ==
    ASSUME TreeInv, NEW r \in Runs, NEW c, NEW how \in Terminal, CommitCanonical(r, c, how)
    PROVE  NoneBegins /\ EndsWell
BY DEF TreeInv, TreeTypeOK, CommitCanonical, NoneBegins, EndsWell, Terminal

\* What a cancellation ends is canceled in both records.
LEMMA CancelWell ==
    ASSUME TreeInv, NEW r \in Runs, CancelSubtree(r)
    PROVE  NoneBegins /\ EndsWell
<1>1. NoneBegins
  BY DEF CancelSubtree, CanonCanceled, NoneBegins
<1>2. EndsWell
  BY DEF CancelSubtree, CanonCanceled, EndsWell, Ended, Terminal
<1> QED BY <1>1, <1>2

\* A child that completes has its canonical result.
LEMMA CompleteWell ==
    ASSUME TreeInv, NEW r \in Runs, NEW c, NEW v, CompleteRun(r, c, v), r = Root \/ canon[r] = "done"
    PROVE  NoneBegins /\ EndsWell
<1>0. runs \in [Runs -> AgentTreeRun] /\ canon' = canon /\ runs' = [runs EXCEPT ![r] = Ended(r, "done")]
  BY DEF TreeInv, TreeTypeOK, CompleteRun
<1>1. \A s \in Runs \ {r} : runs'[s] = runs[s]
  BY <1>0
<1> QED BY <1>0, <1>1 DEF NoneBegins, EndsWell

\* A child that fails has no canonical Run running, and what fails with it is
\* canceled in both records.
LEMMA FailWell ==
    ASSUME TreeInv, NEW r \in Runs, NEW c, FailRun(r, c), r = Root \/ canon[r] # "running"
    PROVE  NoneBegins /\ EndsWell
<1>1. NoneBegins
  BY DEF FailRun, CanonCanceled, NoneBegins
<1>2. EndsWell
  <2> SUFFICES ASSUME NEW s \in Runs \ {Root}, runs'[s].st \in Terminal, runs[s].st \notin Terminal
               PROVE  canon'[s] # "running" /\ runs'[s].st # "done"
    BY DEF EndsWell
  <2>1. s = r \/ (s \in Below[r] /\ IsActive(s))
    BY DEF FailRun
  <2>2. CASE s = r
    BY <2>2 DEF FailRun, Ended, CanonCanceled
  <2>3. CASE s # r
    BY <2>1, <2>3 DEF FailRun, Ended, CanonCanceled
  <2> QED BY <2>2, <2>3
<1> QED BY <1>1, <1>2

-----------------------------------------------------------------------------
(* The inductive invariant.                                                *)

ExecsGood == (\A x \in execs : Good(x)) /\ Distinct

Party(b) ==
    /\ joins[b] \in ReceiverTask
    /\ joins[b].pc # "none" => joins[b].claim \in ClaimsOf(By[b])
    /\ joins[b].pending \cup joins[b].cand \subseteq Kids[b]
    /\ \A k \in joins[b].active : k[1] \in Kids[b] /\ \E x \in execs : Key(x) = k

JoinsGood == joins = [b \in Commands |-> joins[b]] /\ \A b \in Commands : Party(b)

Rest == got \in [Runs -> SUBSET Runs] /\ ckpt \subseteq Runs /\ stop \in BOOLEAN /\ boot \in Owners

WorkInv == TreeInv /\ RecordsAgree /\ Begun /\ ExecsGood /\ JoinsGood /\ Rest

\* The invariant by its parts.
LEMMA WorkInvParts ==
    WorkInv <=> /\ TreeInv /\ JoinTypeOK /\ Parties /\ PredecessorsDone
                /\ RecordsAgree /\ Begun /\ \A x \in execs : ExecSound(x)
<1>1. joins \in [Commands -> ReceiverTask] <=>
        joins = [b \in Commands |-> joins[b]] /\ \A b \in Commands : joins[b] \in ReceiverTask
  OBVIOUS
<1>2. JoinsGood /\ ExecsGood /\ Rest <=>
        JoinTypeOK /\ Parties /\ PredecessorsDone /\ \A x \in execs : ExecSound(x)
  <2>1. ExecsGood <=> /\ execs \subseteq Execution /\ Distinct /\ PredecessorsDone
                      /\ \A x \in execs : ExecSound(x)
                      /\ \A x \in execs : /\ x.claim \in ClaimsOf(x.run)
                                          /\ x.pc \in {"open", "receive", "drain"} =>
                                                x.cmd \in Commands /\ By[x.cmd] = x.run
    BY DEF ExecsGood, Good, Member, Ready, PredecessorsDone
  <2>2. JoinsGood <=> /\ joins \in [Commands -> ReceiverTask]
                      /\ \A b \in Commands :
                            /\ joins[b].pc # "none" => joins[b].claim \in ClaimsOf(By[b])
                            /\ joins[b].pending \cup joins[b].cand \subseteq Kids[b]
                            /\ \A k \in joins[b].active :
                                  k[1] \in Kids[b] /\ \E x \in execs : Key(x) = k
    BY <1>1 DEF JoinsGood, Party
  <2> QED BY <2>1, <2>2 DEF JoinTypeOK, Parties, Rest, Distinct
<1> QED BY <1>2 DEF WorkInv

\* An execution that moves to another place, with the fields that change.
Rec(x, pc, then, cmd, version) ==
    [run |-> x.run, claim |-> x.claim, pc |-> pc, then |-> then, cmd |-> cmd, version |-> version]

Places == Running \cup Closing \cup Settle \cup Over

\* What an execution may become.
LEMMA RecMember ==
    ASSUME NEW x, Member(x), NEW pc \in Places, NEW then \in Settle,
           NEW cmd \in Commands \cup {0}, NEW version \in Nat,
           pc \in {"open", "receive", "drain"} => cmd \in Commands /\ By[cmd] = x.run,
           NEW y, y = Rec(x, pc, then, cmd, version)
    PROVE  /\ Member(y) /\ y.run = x.run /\ y.claim = x.claim /\ Key(y) = Key(x)
           /\ y.pc = pc /\ y.then = then
<1>1. y.run = x.run /\ y.claim = x.claim /\ y.pc = pc /\ y.then = then /\ y.cmd = cmd
  BY DEF Rec
<1>2. y \in Execution
  BY DEF Rec, Execution, Member, Places
<1> QED BY <1>1, <1>2 DEF Member, Key

\* The fields of an execution.
LEMMA ExecFields ==
    ASSUME NEW x, Member(x)
    PROVE  /\ x = Rec(x, x.pc, x.then, x.cmd, x.version)
           /\ x.run \in Runs /\ x.pc \in Places /\ x.then \in Settle
           /\ x.cmd \in Commands \cup {0} /\ x.version \in Nat
           /\ \A pc : [x EXCEPT !.pc = pc] = Rec(x, pc, x.then, x.cmd, x.version)
           /\ \A then : [x EXCEPT !.then = then] = Rec(x, x.pc, then, x.cmd, x.version)
<1>0. x \in Execution
  BY DEF Member
<1>1. /\ x = Rec(x, x.pc, x.then, x.cmd, x.version)
      /\ x.run \in Runs /\ x.pc \in Places /\ x.then \in Settle
      /\ x.cmd \in Commands \cup {0} /\ x.version \in Nat
  BY <1>0 DEF Execution, Rec, Places
<1>2. ASSUME NEW pc PROVE [x EXCEPT !.pc = pc] = Rec(x, pc, x.then, x.cmd, x.version)
  BY <1>0 DEF Execution, Rec
<1>3. ASSUME NEW then PROVE [x EXCEPT !.then = then] = Rec(x, x.pc, then, x.cmd, x.version)
  BY <1>0 DEF Execution, Rec
<1> QED BY <1>1, <1>2, <1>3

\* The executions after one of them has moved, and the keys they have.
LEMMA BecomesGood ==
    ASSUME ExecsGood, NEW x \in execs, \A z \in execs \ {x} : Good(z)',
           NEW y, Good(y)', Key(y) = Key(x), Becomes(x, y)
    PROVE  ExecsGood' /\ \A z \in execs : \E w \in execs' : Key(w) = Key(z)
<1>1. execs' = (execs \ {x}) \cup {y}
  BY DEF Becomes
<1>2. Distinct'
  BY <1>1 DEF ExecsGood, Distinct, Key
<1>3. \A z \in execs : \E w \in execs' : Key(w) = Key(z)
  BY <1>1
<1> QED BY <1>1, <1>2, <1>3 DEF ExecsGood

\* Joins that do nothing still have their executions.
LEMMA JoinsStay ==
    ASSUME JoinsGood, joins' = joins, \A z \in execs : \E w \in execs' : Key(w) = Key(z)
    PROVE  JoinsGood'
<1>1. \A b \in Commands : Party(b)'
  BY DEF JoinsGood, Party
<1> QED BY <1>1 DEF JoinsGood

-----------------------------------------------------------------------------
(* Executions move.                                                        *)

Core == TreeInv /\ RecordsAgree /\ Begun /\ ExecsGood

KeysKept == \A z \in execs : \E w \in execs' : Key(w) = Key(z)

AtWork == {"work", "open", "receive", "drain"}

\* What the next place of an execution asks for.
MayBecome(x, y) ==
    /\ Member(y) /\ y.run = x.run /\ y.claim = x.claim /\ Key(y) = Key(x)
    /\ y.pc \in AtWork \cup {"submit"} =>
          x.pc \in AtWork \cup {"submit"} \/ \A d \in Deps[x.run] : runs[d].st = "done"
    /\ x.run # Root =>
          /\ y.pc \in AtWork => x.pc \in AtWork \/ canon'[x.run] # "none"
          /\ EndsAs(y, "complete") => EndsAs(x, "complete") \/ canon'[x.run] = "done"
          /\ EndsAs(y, "fail") =>
                EndsAs(x, "fail") \/ canon'[x.run] # "running" \/ ~HasClaim(x.run, x.claim)'

\* It then stays good.
LEMMA GoodNext ==
    ASSUME TreeInv, [TreeNext]_treeVars, NEW x, Good(x), Good(x)', NEW y, MayBecome(x, y)
    PROVE  Good(y)'
<1>0. x.run \in Runs /\ Member(y)
  BY ExecFields DEF Good, MayBecome
<1>1. Ready(y)'
  <2> SUFFICES ASSUME y.pc \in AtWork \cup {"submit"}
               PROVE  \A d \in Deps[x.run] : runs'[d].st = "done"
    BY DEF Ready, AtWork, MayBecome
  <2>1. CASE x.pc \in AtWork \cup {"submit"}
    BY <2>1 DEF Good, Ready, AtWork
  <2>2. CASE \A d \in Deps[x.run] : runs[d].st = "done"
    BY <1>0, <2>2, ReadyStays
  <2> QED BY <2>1, <2>2 DEF MayBecome
<1>2. ExecSound(y)'
  <2> SUFFICES ASSUME x.run # Root PROVE ExecSound(y)'
    BY DEF ExecSound, MayBecome
  <2>1. /\ x.claim.epoch <= runs'[x.run].epoch
        /\ x.pc \in AtWork => canon'[x.run] # "none"
        /\ EndsAs(x, "complete") => canon'[x.run] = "done"
        /\ EndsAs(x, "fail") => canon'[x.run] # "running" \/ ~HasClaim(x.run, x.claim)'
    BY DEF Good, ExecSound, EndsAs, AtWork
  <2>2. /\ y.claim.epoch <= runs'[y.run].epoch
        /\ y.pc \in AtWork => canon'[y.run] # "none"
        /\ EndsAs(y, "complete") => canon'[y.run] = "done"
        /\ EndsAs(y, "fail") => canon'[y.run] # "running" \/ ~HasClaim(y.run, y.claim)'
    BY <2>1 DEF MayBecome
  <2> QED BY <2>2 DEF ExecSound, EndsAs, AtWork
<1>3. Member(y)'
  BY <1>0 DEF Member
<1> QED BY <1>1, <1>2, <1>3 DEF Good

\* One execution moves while the tree is left alone or moves quietly.
LEMMA ExecMoves ==
    ASSUME Core, [TreeNext]_treeVars, NoneBegins, EndsWell, NEW x \in execs, NEW y,
           MayBecome(x, y), Becomes(x, y)
    PROVE  Core' /\ KeysKept
<1>1. RecordsAgree' /\ Begun' /\ TreeInv'
  BY TreePart, TreeInvStep DEF Core
<1>2. \A z \in execs : Good(z) /\ Good(z)'
  BY TreePart DEF Core, ExecsGood
<1>3. Good(y)'
  BY <1>2, GoodNext DEF Core
<1>4. ExecsGood' /\ KeysKept
  BY <1>2, <1>3, BecomesGood DEF Core, KeysKept, MayBecome
<1> QED BY <1>1, <1>4 DEF Core

\* Executions are dropped while the tree is left alone or moves quietly.
LEMMA ExecsGo ==
    ASSUME Core, [TreeNext]_treeVars, NoneBegins, EndsWell, execs' \subseteq execs
    PROVE  Core'
<1>1. RecordsAgree' /\ Begun' /\ TreeInv'
  BY TreePart, TreeInvStep DEF Core
<1>2. \A z \in execs : Good(z)'
  BY TreePart DEF Core, ExecsGood
<1>3. ExecsGood'
  BY <1>2 DEF Core, ExecsGood, Distinct
<1> QED BY <1>1, <1>3 DEF Core

\* A task ends; nobody loses one it awaits.
LEMMA ExecEnds ==
    ASSUME Core, JoinsGood, [TreeNext]_treeVars, NoneBegins, EndsWell, joins' = joins,
           NEW x \in execs, NEW how \in Over, End(x, how)
    PROVE  Core' /\ JoinsGood'
<1>1. CASE \E b \in Commands : Key(x) \in joins[b].active
  <2>1. Goes(x, how) /\ Member(x)
    BY <1>1 DEF End, Core, ExecsGood, Good
  <2>2. PICK y : y = Rec(x, how, x.then, x.cmd, x.version)
    OBVIOUS
  <2>3. Becomes(x, y)
    BY <2>1, <2>2, ExecFields DEF Goes
  <2>4. Member(y) /\ y.run = x.run /\ y.claim = x.claim /\ Key(y) = Key(x) /\ y.pc = how
    <3>1. how \in Places /\ how \notin {"open", "receive", "drain"}
      BY DEF Places, Over
    <3>2. x.then \in Settle /\ x.cmd \in Commands \cup {0} /\ x.version \in Nat
      BY <2>1, ExecFields
    <3> QED BY <2>1, <2>2, <3>1, <3>2, RecMember
  <2>5. MayBecome(x, y)
    BY <2>4 DEF MayBecome, AtWork, EndsAs, Over, Closing
  <2>6. Core' /\ KeysKept
    BY <2>3, <2>5, ExecMoves
  <2> QED BY <2>6, JoinsStay DEF KeysKept
<1>2. CASE ~\E b \in Commands : Key(x) \in joins[b].active
  <2>1. execs' = execs \ {x}
    BY <1>2 DEF End
  <2>2. Core'
    BY <2>1, ExecsGo
  <2>3. \A b \in Commands : Party(b)'
    BY <1>2, <2>1 DEF JoinsGood, Party
  <2> QED BY <2>2, <2>3 DEF JoinsGood
<1> QED BY <1>1, <1>2

\* How a record that is about to be written ends.
RecEndsAs(pc, then, how) == pc = how \/ (pc \in Closing /\ then = how)

MayMove(x, pc, then, cmd) ==
    /\ pc \in Places /\ then \in Settle /\ cmd \in Commands \cup {0}
    /\ pc \in {"open", "receive", "drain"} => cmd \in Commands /\ By[cmd] = x.run
    /\ pc \in AtWork \cup {"submit"} =>
          x.pc \in AtWork \cup {"submit"} \/ \A d \in Deps[x.run] : runs[d].st = "done"
    /\ x.run # Root =>
          /\ pc \in AtWork => x.pc \in AtWork \/ canon'[x.run] # "none"
          /\ RecEndsAs(pc, then, "complete") => EndsAs(x, "complete") \/ canon'[x.run] = "done"
          /\ RecEndsAs(pc, then, "fail") =>
                EndsAs(x, "fail") \/ canon'[x.run] # "running" \/ ~HasClaim(x.run, x.claim)'

\* ExecMoves for a move given by its fields.
LEMMA MoveTo ==
    ASSUME Core, [TreeNext]_treeVars, NoneBegins, EndsWell, NEW x \in execs,
           NEW pc, NEW then, NEW cmd, NEW version \in Nat, MayMove(x, pc, then, cmd),
           Becomes(x, Rec(x, pc, then, cmd, version))
    PROVE  Core' /\ KeysKept
<1>0. Member(x)
  BY DEF Core, ExecsGood, Good
<1>1. PICK y : y = Rec(x, pc, then, cmd, version)
  OBVIOUS
<1>2. /\ Member(y) /\ y.run = x.run /\ y.claim = x.claim /\ Key(y) = Key(x)
      /\ y.pc = pc /\ y.then = then
  BY <1>0, <1>1, RecMember DEF MayMove
<1>3. MayBecome(x, y)
  BY <1>2 DEF MayBecome, MayMove, EndsAs, RecEndsAs
<1> QED BY <1>1, <1>3, ExecMoves

\* _execute_claimed before the executor.
LEMMA BeginStep ==
    ASSUME WorkInv, NEW x \in execs, Begin(x)
    PROVE  WorkInv'
<1>0. Core /\ Member(x) /\ JoinsGood /\ Rest /\ x.run \in Runs /\ TreeInv
  BY ExecFields DEF WorkInv, Core, ExecsGood, Good
<1>1. UNCHANGED <<treeVars, joins, got, ckpt, stop, boot>> /\ x.pc = "begin"
  BY DEF Begin
<1>2. [TreeNext]_treeVars /\ NoneBegins /\ EndsWell
  BY <1>1 DEF treeVars, NoneBegins, EndsWell
<1>3. PICK pc :
        /\ pc = IF Blocked(x.run) \/ canon[x.run] = "failed" THEN "fail"
                ELSE CASE canon[x.run] = "none" -> "submit"
                       [] canon[x.run] = "done" -> "complete"
                       [] canon[x.run] = "canceled" -> "cancel"
                       [] canon[x.run] = "running" /\ x.run \in ckpt -> "work"
                       [] OTHER -> "failstop"
        /\ Becomes(x, [x EXCEPT !.version = agents[AgentOf[x.run]].version, !.pc = pc])
  BY DEF Begin
<1>4. /\ pc \in {"fail", "submit", "complete", "cancel", "work", "failstop"}
      /\ pc = "fail" => Blocked(x.run) \/ canon[x.run] = "failed"
      /\ pc \in {"submit", "work"} => ~Blocked(x.run)
      /\ pc = "work" => canon[x.run] = "running"
      /\ pc = "complete" => canon[x.run] = "done"
  <2>1. CASE Blocked(x.run) \/ canon[x.run] = "failed"
    BY <1>3, <2>1
  <2>2. CASE ~(Blocked(x.run) \/ canon[x.run] = "failed")
    BY <1>3, <2>2
  <2> QED BY <2>1, <2>2
<1>5. agents[AgentOf[x.run]].version \in Nat
  BY <1>0, CommandShape DEF TreeInv, TreeTypeOK, AgentNode
<1>6. MayMove(x, pc, x.then, x.cmd)
  <2>1. x.then \in Settle /\ x.cmd \in Commands \cup {0} /\ pc \in Places
    BY <1>0, <1>4, ExecFields DEF Places, Running, Settle
  <2>2. x.run # Root /\ Blocked(x.run) => canon[x.run] # "running"
    BY <1>0 DEF Core, Begun, Blocked
  <2>3. canon' = canon
    BY <1>1 DEF treeVars
  <2> QED BY <1>4, <2>1, <2>2, <2>3 DEF MayMove, AtWork, RecEndsAs, Closing, Blocked
<1>7. Becomes(x, Rec(x, pc, x.then, x.cmd, agents[AgentOf[x.run]].version))
  <2>1. PICK v : v = agents[AgentOf[x.run]].version
    OBVIOUS
  <2>2. Becomes(x, [x EXCEPT !.version = v, !.pc = pc])
    BY <1>3, <2>1
  <2>3. [x EXCEPT !.version = v, !.pc = pc] = Rec(x, pc, x.then, x.cmd, v)
    <3> DEFINE y == [x EXCEPT !.version = v]
    <3>1. y = Rec(x, x.pc, x.then, x.cmd, v)
      BY <1>0 DEF Member, Execution, Rec
    <3>2. [x EXCEPT !.version = v, !.pc = pc] = [y EXCEPT !.pc = pc]
      OBVIOUS
    <3> HIDE DEF y
    <3> QED BY <3>1, <3>2 DEF Rec
  <2>4. Becomes(x, Rec(x, pc, x.then, x.cmd, v))
    BY <2>2, <2>3
  <2> QED BY <2>1, <2>4
<1>8. Core' /\ KeysKept
  BY <1>0, <1>2, <1>5, <1>6, <1>7, MoveTo
<1> QED BY <1>0, <1>1, <1>8, JoinsStay DEF WorkInv, Core, KeysKept, Rest

\* An execution leaves for its finally block.
LEMMA LeavesRec ==
    ASSUME NEW x, Member(x), NEW then, Leaves(x, then)
    PROVE  Becomes(x, Rec(x, "close", then, x.cmd, x.version))
<1> DEFINE y == [x EXCEPT !.pc = "close"]
<1>1. y = Rec(x, "close", x.then, x.cmd, x.version)
  BY ExecFields
<1>2. [x EXCEPT !.pc = "close", !.then = then] = [y EXCEPT !.then = then]
  OBVIOUS
<1> HIDE DEF y
<1>3. [x EXCEPT !.pc = "close", !.then = then] = Rec(x, "close", then, x.cmd, x.version)
  BY <1>1, <1>2 DEF Rec
<1> QED BY <1>3 DEF Leaves

\* An execution leaves.
LEMMA LeavesTo ==
    ASSUME Core, [TreeNext]_treeVars, NoneBegins, EndsWell, NEW x \in execs,
           NEW then \in Settle, Leaves(x, then),
           x.run # Root =>
              /\ then = "complete" => canon'[x.run] = "done"
              /\ then = "fail" => canon'[x.run] # "running" \/ ~HasClaim(x.run, x.claim)'
    PROVE  Core' /\ KeysKept
<1>0. Member(x)
  BY DEF Core, ExecsGood, Good
<1>1. MayMove(x, "close", then, x.cmd)
  <2>1. x.cmd \in Commands \cup {0} /\ "close" \in Places
    BY <1>0, ExecFields DEF Places, Closing
  <2> QED BY <2>1 DEF MayMove, AtWork, RecEndsAs, Closing
<1>2. x.version \in Nat /\ Becomes(x, Rec(x, "close", then, x.cmd, x.version))
  BY <1>0, ExecFields, LeavesRec
<1> QED BY <1>1, <1>2, MoveTo

\* An execution goes on working, or from its work to a place that asks for
\* nothing.
LEMMA GoesTo ==
    ASSUME Core, [TreeNext]_treeVars, NoneBegins, EndsWell, NEW x \in execs,
           NEW pc \in Places, Goes(x, pc), MayMove(x, pc, x.then, x.cmd)
    PROVE  Core' /\ KeysKept
<1>0. Member(x)
  BY DEF Core, ExecsGood, Good
<1>1. x.version \in Nat /\ Becomes(x, Rec(x, pc, x.then, x.cmd, x.version))
  BY <1>0, ExecFields DEF Goes
<1> QED BY <1>1, MoveTo

\* What the invariant says of one execution.
LEMMA ExecFacts ==
    ASSUME WorkInv, NEW x \in execs
    PROVE  /\ Core /\ JoinsGood /\ Rest /\ TreeInv /\ JoinTypeOK /\ Parties
           /\ Good(x) /\ Member(x) /\ x.run \in Runs /\ x.claim \in ClaimsOf(x.run)
           /\ x.then \in Settle /\ x.cmd \in Commands \cup {0} /\ x.version \in Nat /\ x.pc \in Places
BY ExecFields, WorkInvParts DEF WorkInv, Core, ExecsGood, Good, Member

\* A step that leaves the tree alone.
LEMMA StillTree ==
    ASSUME UNCHANGED treeVars
    PROVE  /\ [TreeNext]_treeVars /\ NoneBegins /\ EndsWell
           /\ canon' = canon /\ runs' = runs
           /\ \A r, c : HasClaim(r, c)' <=> HasClaim(r, c)
BY DEF treeVars, NoneBegins, EndsWell, HasClaim, Expired

\* The joins and the rest are left alone.
LEMMA OnlyExecs ==
    ASSUME JoinsGood, Rest, Core', KeysKept, UNCHANGED joins, Rest'
    PROVE  WorkInv'
BY JoinsStay DEF WorkInv, Core, KeysKept

\* An execution commits an outcome, or may not: either way no canonical Run is
\* left running for it.
LEMMA CommitOrNot ==
    ASSUME WorkInv, NEW x \in execs, NEW how \in Terminal,
           \/ CommitCanonical(x.run, x.claim, how)
           \/ UNCHANGED treeVars /\ (~MayWrite(x.run, x.claim) \/ canon[x.run] # "running")
    PROVE  /\ [TreeNext]_treeVars /\ NoneBegins /\ EndsWell
           /\ x.run # Root => canon'[x.run] # "running" \/ ~HasClaim(x.run, x.claim)'
<1>0. TreeInv /\ x.run \in Runs /\ JoinTypeOK /\ Parties
  BY ExecFacts
<1>1. CASE CommitCanonical(x.run, x.claim, how)
  <2>1. canon'[x.run] # "running"
    BY <1>0, <1>1 DEF CommitCanonical, TreeInv, TreeTypeOK, Terminal
  <2>2. TreeNext
    BY <1>0, <1>1, ExecIsCaller DEF Acts, Writing
  <2> QED BY <1>0, <1>1, <2>1, <2>2, CommitWell
<1>2. CASE UNCHANGED treeVars /\ (~MayWrite(x.run, x.claim) \/ canon[x.run] # "running")
  BY <1>2, StillTree DEF MayWrite
<1> QED BY <1>1, <1>2

\* A canonical Run without a cursor is failed; its execution then may fail.
LEMMA FailStopStep ==
    ASSUME WorkInv, NEW x \in execs, FailStop(x)
    PROVE  WorkInv'
<1>0. Core /\ JoinsGood /\ Rest /\ x.then \in Settle /\ x.cmd \in Commands \cup {0}
  BY ExecFacts
<1>1. /\ [TreeNext]_treeVars /\ NoneBegins /\ EndsWell
      /\ x.run # Root => canon'[x.run] # "running" \/ ~HasClaim(x.run, x.claim)'
  BY CommitOrNot DEF FailStop, Terminal
<1>2. MayMove(x, "fail", x.then, x.cmd) /\ "fail" \in Places
  <2>1. "fail" \in Places
    BY DEF Places, Settle
  <2> QED BY <1>0, <1>1, <2>1 DEF MayMove, AtWork, RecEndsAs, Closing
<1>3. Goes(x, "fail") /\ UNCHANGED <<joins, got, ckpt, stop, boot>>
  BY DEF FailStop
<1>4. Core' /\ KeysKept
  BY <1>0, <1>1, <1>2, <1>3, GoesTo
<1> QED BY <1>0, <1>3, <1>4, OnlyExecs DEF Rest

\* The outcome of a Run is committed before its execution leaves.
LEMMA FinishStep ==
    ASSUME WorkInv, NEW x \in execs, NEW how \in {"done", "failed"}, Finish(x, how)
    PROVE  WorkInv'
<1>0. Core /\ JoinsGood /\ Rest /\ TreeInv /\ x.run \in Runs
  BY ExecFacts
<1>1. /\ [TreeNext]_treeVars /\ NoneBegins /\ EndsWell
      /\ x.run # Root => canon'[x.run] # "running" \/ ~HasClaim(x.run, x.claim)'
  <2>1. how \in Terminal
    BY DEF Terminal
  <2> QED BY <2>1, CommitOrNot DEF Finish
<1>2. PICK then \in {"complete", "fail"} :
        Leaves(x, then) /\ (then = "complete" => canon'[x.run] = "done")
  <2>1. CASE CommitCanonical(x.run, x.claim, how) /\ Leaves(x, IF how = "done" THEN "complete" ELSE "fail")
    <3>1. canon'[x.run] = how
      BY <1>0, <2>1 DEF CommitCanonical, TreeInv, TreeTypeOK
    <3> QED BY <2>1, <3>1
  <2>2. CASE Leaves(x, "fail")
    BY <2>2
  <2> QED BY <2>1, <2>2 DEF Finish
<1>3. then \in Settle
  BY DEF Settle
<1>4. Core' /\ KeysKept
  BY <1>0, <1>1, <1>2, <1>3, LeavesTo
<1>5. UNCHANGED <<joins, got, ckpt, stop, boot>>
  BY DEF Finish
<1> QED BY <1>0, <1>4, <1>5, OnlyExecs DEF Rest

\* The signal reaches an execution, or it suspends its Run.
LEMMA StopStep ==
    ASSUME WorkInv, NEW x \in execs, StopExec(x) \/ Suspend(x)
    PROVE  WorkInv'
<1>0. Core /\ JoinsGood /\ Rest
  BY ExecFacts
<1>1. [TreeNext]_treeVars /\ NoneBegins /\ EndsWell
  <2>1. CASE StopExec(x)
    BY <2>1, CommitOrNot DEF StopExec, Terminal
  <2>2. CASE Suspend(x)
    BY <2>2, StillTree DEF Suspend
  <2> QED BY <2>1, <2>2
<1>2. PICK then \in {"cancel", "leave", "suspend"} : Leaves(x, then)
  BY DEF StopExec, Suspend
<1>3. then \in Settle /\ then \notin {"complete", "fail"}
  BY DEF Settle
<1>4. Core' /\ KeysKept
  BY <1>0, <1>1, <1>2, <1>3, LeavesTo
<1>5. UNCHANGED <<joins, got, ckpt, stop, boot>>
  BY DEF StopExec, Suspend
<1> QED BY <1>0, <1>4, <1>5, OnlyExecs DEF Rest

\* The heartbeat fails only for a claim that is lost: a valid one belongs to a
\* run that is running or waiting.
LEMMA LoseLeaseStep ==
    ASSUME WorkInv, NEW x \in execs, LoseLease(x)
    PROVE  WorkInv'
<1>0. /\ Core /\ JoinsGood /\ Rest /\ TreeInv /\ Member(x) /\ x.run \in Runs
      /\ x.claim \in ClaimsOf(x.run) /\ x.cmd \in Commands \cup {0} /\ x.version \in Nat
  BY ExecFacts
<1>1. x.run # Root /\ ~Renewable(x.run, x.claim) /\ UNCHANGED <<treeVars, joins, got, ckpt, stop, boot>>
  BY DEF LoseLease, Supervised
<1>2. ~HasClaim(x.run, x.claim)
  <2>1. x.claim # NoClaim
    BY <1>0, <1>1, LimitShape DEF ClaimsOf, Claims, NoClaim
  <2> QED BY <1>0, <1>1, <2>1, ClaimIsLive DEF TreeInv, Renewable
<1>3. [TreeNext]_treeVars /\ NoneBegins /\ EndsWell /\ ~HasClaim(x.run, x.claim)'
  BY <1>1, <1>2, StillTree
<1>4. PICK pc \in Closing : Becomes(x, Rec(x, pc, "fail", x.cmd, x.version))
  <2>1. PICK p \in Closing : p = IF x.pc = "gather" THEN x.pc ELSE "close"
    BY DEF Closing
  <2> DEFINE y == [x EXCEPT !.pc = p]
  <2>2. y = Rec(x, p, x.then, x.cmd, x.version)
    BY <1>0, ExecFields
  <2>3. [x EXCEPT !.pc = IF @ = "gather" THEN @ ELSE "close", !.then = "fail"] = [y EXCEPT !.then = "fail"]
    BY <2>1
  <2> HIDE DEF y
  <2>4. [y EXCEPT !.then = "fail"] = Rec(x, p, "fail", x.cmd, x.version)
    BY <2>2 DEF Rec
  <2> QED BY <2>3, <2>4 DEF LoseLease
<1>5. MayMove(x, pc, "fail", x.cmd)
  BY <1>0, <1>3, <1>4 DEF MayMove, AtWork, RecEndsAs, Closing, Places, Settle
<1>6. Core' /\ KeysKept
  BY <1>0, <1>3, <1>4, <1>5, MoveTo
<1> QED BY <1>0, <1>1, <1>6, OnlyExecs DEF Rest

\* Results are received, a round is committed, the lease renewed.
LEMMA WorkStep ==
    ASSUME WorkInv, NEW x \in execs, Receive(x) \/ Checkpoint(x) \/ Heartbeat(x)
    PROVE  WorkInv'
<1>0. /\ Core /\ JoinsGood /\ Rest /\ TreeInv /\ Member(x) /\ x.run \in Runs /\ JoinTypeOK /\ Parties
      /\ x.then \in Settle /\ x.cmd \in Commands \cup {0}
  BY ExecFacts
<1>1. CASE Receive(x)
  <2>1. UNCHANGED <<treeVars, joins, ckpt, stop, boot>> /\ Goes(x, "work") /\ x.pc = "receive"
    BY <1>1 DEF Receive
  <2>2. got' \in [Runs -> SUBSET Runs]
    <3>1. Available(x) \subseteq Runs
      <4>1. x.cmd \in Commands
        BY <1>0, <2>1 DEF Member
      <4> QED BY <4>1, CommandShape DEF Available
    <3> QED BY <1>0, <1>1, <3>1 DEF Receive, Rest
  <2>3. MayMove(x, "work", x.then, x.cmd) /\ "work" \in Places
    <3>1. "work" \in Places
      BY DEF Places, Running
    <3> QED BY <1>0, <2>1, <3>1 DEF MayMove, AtWork, RecEndsAs, Closing
  <2>4. Core' /\ KeysKept
    BY <1>0, <2>1, <2>3, GoesTo, StillTree
  <2> QED BY <1>0, <2>1, <2>2, <2>4, OnlyExecs DEF Rest
<1>2. CASE Checkpoint(x)
  <2>1. UNCHANGED <<treeVars, execs, joins, got, stop, boot>> /\ ckpt' \subseteq Runs
    BY <1>0, <1>2 DEF Checkpoint, Rest
  <2>2. Core' /\ KeysKept
    BY <1>0, <2>1, StillTree, ExecsGo DEF KeysKept
  <2> QED BY <1>0, <2>1, <2>2, OnlyExecs DEF Rest
<1>3. CASE Heartbeat(x)
  <2>1. UNCHANGED <<execs, joins, got, ckpt, stop, boot>> /\ RenewRunLease(x.run, x.claim)
    BY <1>3 DEF Heartbeat, schedVars
  <2>2. TreeNext
    BY <1>0, <2>1, ExecIsCaller DEF Acts, Leasing
  <2>3. NoneBegins /\ EndsWell
    <3>1. RenewRunLease(x.run, x.claim) => canon' = canon /\ \A s \in Runs : runs'[s].st = runs[s].st
      BY <1>0 DEF RenewRunLease, TreeInv, TreeTypeOK, AgentTreeRun
    <3> QED BY <2>1, <3>1 DEF NoneBegins, EndsWell
  <2>4. Core' /\ KeysKept
    BY <1>0, <2>1, <2>2, <2>3, ExecsGo DEF KeysKept
  <2> QED BY <1>0, <2>1, <2>4, OnlyExecs DEF Rest
<1> QED BY <1>1, <1>2, <1>3

\* A command of a working execution.
LEMMA DelegateStep ==
    ASSUME WorkInv, NEW x \in execs, NEW b \in Commands, Delegate(x, b)
    PROVE  WorkInv'
<1>0. /\ Core /\ JoinsGood /\ Rest /\ TreeInv /\ Member(x) /\ x.run \in Runs /\ JoinTypeOK /\ Parties
      /\ x.then \in Settle /\ x.version \in Nat
  BY ExecFacts
<1>1. /\ UNCHANGED <<joins, got, ckpt, stop, boot>> /\ x.pc = "work" /\ By[b] = x.run
      /\ SpawnAgents(b, x.claim) \/ ContinueAgent(b, x.claim) \/ UNCHANGED treeVars
      /\ Becomes(x, [x EXCEPT !.pc = "open", !.cmd = b])
  BY DEF Delegate
<1>2. [TreeNext]_treeVars
  BY <1>0, <1>1, ExecIsCaller DEF Acts, Commanding
<1>3. NoneBegins /\ EndsWell
  <2>1. canon' = canon
    BY <1>1 DEF SpawnAgents, ContinueAgent, treeVars
  <2>2. ASSUME NEW s \in Runs, runs'[s].st \in Terminal PROVE runs[s].st \in Terminal
    BY <1>1, <2>2 DEF SpawnAgents, ContinueAgent, Enqueue, treeVars, Terminal
  <2> QED BY <2>1, <2>2 DEF NoneBegins, EndsWell
<1>4. Becomes(x, Rec(x, "open", x.then, b, x.version))
  <2> DEFINE y == [x EXCEPT !.pc = "open"]
  <2>1. y = Rec(x, "open", x.then, x.cmd, x.version)
    BY <1>0, ExecFields
  <2>2. [x EXCEPT !.pc = "open", !.cmd = b] = [y EXCEPT !.cmd = b]
    OBVIOUS
  <2> HIDE DEF y
  <2>3. [x EXCEPT !.pc = "open", !.cmd = b] = Rec(x, "open", x.then, b, x.version)
    BY <2>1, <2>2 DEF Rec
  <2> QED BY <1>1, <2>3
<1>5. MayMove(x, "open", x.then, b)
  <2>1. "open" \in Places
    BY DEF Places, Running
  <2> QED BY <1>0, <1>1, <2>1 DEF MayMove, AtWork, RecEndsAs, Closing
<1>6. Core' /\ KeysKept
  BY <1>0, <1>2, <1>3, <1>4, <1>5, MoveTo
<1> QED BY <1>0, <1>1, <1>6, OnlyExecs DEF Rest

\* A child's canonical Run begins under the one valid claim of its run, so no
\* other execution of the run is misled, and after its predecessors succeeded.
LEMMA BeginCanonicalStep ==
    ASSUME Core, NEW x \in execs, x.pc = "submit", x.run # Root, Writing(x.run, x.claim),
           CreateCanonical(x.run, x.claim), Goes(x, "work")
    PROVE  Core' /\ KeysKept
<1>0. /\ TreeInv /\ RecordsAgree /\ Begun /\ ExecsGood /\ Good(x) /\ Member(x) /\ x.run \in Runs
      /\ x.claim \in Claims /\ x.claim # NoClaim /\ x.then \in Settle /\ x.cmd \in Commands \cup {0}
      /\ x.version \in Nat
  <2>1. TreeInv /\ RecordsAgree /\ Begun /\ ExecsGood /\ Good(x) /\ Member(x)
    BY DEF Core, ExecsGood, Good
  <2>2. x.claim \in Claims /\ x.claim # NoClaim
    BY <2>1, LimitShape DEF Member, ClaimsOf, Claims, NoClaim
  <2> QED BY <2>1, <2>2, ExecFields
<1>1. /\ HasClaim(x.run, x.claim) /\ canon[x.run] = "none" /\ runs' = runs
      /\ canon' = [canon EXCEPT ![x.run] = "running"] /\ canon \in [Runs -> {"none", "running"} \cup Terminal]
  BY <1>0 DEF CreateCanonical, MayWrite, TreeInv, TreeTypeOK
<1>2. [TreeNext]_treeVars /\ TreeInv'
  <2>1. TreeNext
    BY <1>0 DEF TreeNext, ClaimsOf
  <2> QED BY <1>0, <2>1, TreeInvStep
<1>3. Unborn /\ (\A d \in Deps[x.run] : runs[d].st = "done")
  BY <1>0 DEF Begun, Unborn, Good, Ready
<1>4. RecordsAgree'
  <2>1. runs[x.run].st \notin Terminal
    BY <1>0, <1>1, ClaimIsLive DEF TreeInv, Terminal
  <2>2. \A r \in Runs \ {x.run} : canon'[r] = canon[r]
    BY <1>1
  <2> QED BY <1>0, <1>1, <2>1, <2>2 DEF RecordsAgree, IsTerminal, Terminal
<1>5. Begun'
  BY <1>0, <1>1, <1>3 DEF Begun
<1>6. ASSUME NEW z \in execs, z # x PROVE Good(z)'
  <2>1. Good(z) /\ Member(z) /\ Member(z)' /\ z.run \in Runs
    BY <1>0, <1>6, ExecFields DEF ExecsGood, Good, Member
  <2>2. Ready(z)'
    BY <1>1, <2>1 DEF Good, Ready
  <2>3. z.run = x.run => ~HasClaim(z.run, z.claim)
    <3> SUFFICES ASSUME z.run = x.run, HasClaim(z.run, z.claim) PROVE FALSE
      OBVIOUS
    <3>1. z.claim = x.claim
      BY <1>0, <1>1 DEF HasClaim
    <3> QED BY <1>0, <1>6, <3>1 DEF ExecsGood, Distinct, Key
  <2>4. z.run # x.run => canon'[z.run] = canon[z.run]
    BY <1>1, <2>1
  <2>5. ExecSound(z)'
    BY <1>0, <1>2, <1>3, <2>1, <2>3, <2>4, SoundStays DEF Good
  <2> QED BY <2>1, <2>2, <2>5 DEF Good
<1>7. PICK y : y = Rec(x, "work", x.then, x.cmd, x.version)
  OBVIOUS
<1>8. /\ Member(y) /\ y.run = x.run /\ y.claim = x.claim /\ Key(y) = Key(x)
      /\ y.pc = "work" /\ Becomes(x, y)
  <2>1. "work" \in Places /\ "work" \notin {"open", "receive", "drain"}
    BY DEF Places, Running
  <2>2. Becomes(x, y)
    BY <1>0, <1>7, ExecFields DEF Goes
  <2>3. /\ Member(y) /\ y.run = x.run /\ y.claim = x.claim /\ Key(y) = Key(x)
        /\ y.pc = "work" /\ y.then = x.then
    BY <1>0, <1>7, <2>1, RecMember
  <2> QED BY <2>2, <2>3
<1>9. Good(y)'
  <2>1. Ready(y)' /\ Member(y)'
    BY <1>1, <1>3, <1>8 DEF Ready, Member
  <2>2. ExecSound(y)'
    <3>1. x.claim.epoch <= runs[x.run].epoch
      BY <1>0 DEF Good, ExecSound
    <3>2. canon'[x.run] = "running"
      BY <1>0, <1>1
    <3> QED BY <1>1, <1>8, <3>1, <3>2 DEF ExecSound, Closing
  <2> QED BY <2>1, <2>2 DEF Good
<1>10. ExecsGood' /\ KeysKept
  BY <1>0, <1>6, <1>8, <1>9, BecomesGood DEF KeysKept
<1> QED BY <1>2, <1>4, <1>5, <1>10 DEF Core

\* A child is submitted, or its claim is lost and it will be failed.
LEMMA SubmitStep ==
    ASSUME WorkInv, NEW x \in execs, Submit(x)
    PROVE  WorkInv'
<1>0. /\ Core /\ JoinsGood /\ Rest /\ TreeInv /\ x.run \in Runs /\ JoinTypeOK /\ Parties
      /\ x.then \in Settle /\ x.cmd \in Commands \cup {0}
  BY ExecFacts
<1>1. UNCHANGED <<joins, got, ckpt, stop, boot>> /\ x.pc = "submit"
  BY DEF Submit
<1>a. "work" \in Places /\ "fail" \in Places
  BY DEF Places, Running, Settle
<1>2. CASE ~MayWrite(x.run, x.claim) /\ UNCHANGED treeVars /\ Goes(x, "fail")
  <2>1. [TreeNext]_treeVars /\ NoneBegins /\ EndsWell /\ (x.run # Root => ~HasClaim(x.run, x.claim)')
    BY <1>2, StillTree DEF MayWrite
  <2>2. MayMove(x, "fail", x.then, x.cmd)
    BY <1>0, <1>a, <2>1 DEF MayMove, AtWork, RecEndsAs, Closing
  <2>3. Core' /\ KeysKept
    BY <1>0, <1>a, <1>2, <2>1, <2>2, GoesTo
  <2> QED BY <1>0, <1>1, <2>3, OnlyExecs DEF Rest
<1>3. CASE CreateCanonical(x.run, x.claim) /\ Goes(x, "work")
  <2>0. Writing(x.run, x.claim)
    BY <1>3 DEF Writing
  <2>1. CASE x.run # Root
    <3>1. Core' /\ KeysKept
      BY <1>0, <1>1, <1>3, <2>0, <2>1, BeginCanonicalStep
    <3> QED BY <1>0, <1>1, <3>1, OnlyExecs DEF Rest
  <2>2. CASE x.run = Root
    <3>1. [TreeNext]_treeVars
      BY <1>0, <2>0, ExecIsCaller DEF Acts
    <3>2. NoneBegins /\ EndsWell
      BY <1>0, <1>3, <2>2 DEF CreateCanonical, TreeInv, TreeTypeOK, NoneBegins, EndsWell
    <3>3. MayMove(x, "work", x.then, x.cmd)
      BY <1>0, <1>1, <1>a, <2>2 DEF MayMove, AtWork, RecEndsAs, Closing
    <3>4. Core' /\ KeysKept
      BY <1>0, <1>a, <1>3, <3>1, <3>2, <3>3, GoesTo
    <3> QED BY <1>0, <1>1, <3>4, OnlyExecs DEF Rest
  <2> QED BY <2>1, <2>2
<1> QED BY <1>2, <1>3 DEF Submit

-----------------------------------------------------------------------------
(* Executions settle their run in the tree.                                *)

\* What is told to the tree agrees with what was committed: a child completes
\* after its canonical result, and fails with no canonical Run running.
LEMMA SettleStep ==
    ASSUME WorkInv, NEW x \in execs, Complete(x) \/ Fail(x) \/ CancelRun(x) \/ Park(x)
    PROVE  WorkInv'
<1>0. /\ Core /\ JoinsGood /\ Rest /\ TreeInv /\ x.run \in Runs /\ JoinTypeOK /\ Parties /\ Good(x)
  BY ExecFacts
<1>1. UNCHANGED <<joins, got, ckpt, stop, boot>>
  BY DEF Complete, Fail, CancelRun, Park
<1>2. [TreeNext]_treeVars
  BY <1>0, ExecUsesTree DEF ExecStep
<1>3. PICK how \in Over : End(x, how)
  BY DEF Complete, Fail, CancelRun, Park, Over
<1>4. NoneBegins /\ EndsWell
  <2>1. CASE UNCHANGED treeVars
    BY <2>1, StillTree
  <2>2. CASE x.pc = "complete" /\ CompleteRun(x.run, x.claim, x.version)
    <3>1. x.run = Root \/ canon[x.run] = "done"
      BY <1>0, <2>2 DEF Good, ExecSound
    <3> QED BY <1>0, <2>2, <3>1, CompleteWell
  <2>3. CASE x.pc = "fail" /\ FailRun(x.run, x.claim)
    <3>1. x.run = Root \/ canon[x.run] # "running"
      BY <1>0, <2>3 DEF Good, ExecSound, FailRun
    <3> QED BY <1>0, <2>3, <3>1, FailWell
  <2>4. CASE CancelSubtree(x.run)
    BY <1>0, <2>4, CancelWell
  <2>5. CASE SuspendRun(x.run, x.claim)
    <3>1. canon' = canon /\ \A s \in Runs : runs'[s].st \in Terminal => runs[s].st \in Terminal
      BY <1>0, <2>5 DEF SuspendRun, TreeInv, TreeTypeOK, Terminal
    <3> QED BY <3>1 DEF NoneBegins, EndsWell
  <2> QED BY <2>1, <2>2, <2>3, <2>4, <2>5 DEF Complete, Fail, CancelRun, Park
<1>5. Core' /\ JoinsGood'
  BY <1>0, <1>1, <1>2, <1>3, <1>4, ExecEnds
<1> QED BY <1>0, <1>1, <1>5 DEF WorkInv, Core, Rest

-----------------------------------------------------------------------------
(* Receiver tasks.                                                         *)

\* The fields of a receiver task.
LEMMA TaskFields ==
    ASSUME NEW j \in ReceiverTask
    PROVE  /\ j.pc \in JoinStages \cup Finished \cup {"none"} /\ j.claim \in Claims \cup {NoClaim}
           /\ j.pending \subseteq Runs /\ j.active \subseteq Runs \X Nat /\ j.attempted \subseteq Runs
           /\ j.cand \subseteq Runs
BY DEF ReceiverTask

\* What a task may become: it keeps its claim, looks at runs of its command and
\* awaits no further executions.
TaskMay(b, j, k) ==
    /\ k \in ReceiverTask
    /\ k.pc # "none" => k.claim \in ClaimsOf(By[b])
    /\ k.pending \cup k.cand \subseteq Kids[b]
    /\ k.active \subseteq j.active

\* A cancellation leaves a task what it was otherwise.
LEMMA CanceledJoinMay ==
    ASSUME NEW b \in Commands, Party(b)
    PROVE  TaskMay(b, joins[b], CanceledJoin(joins[b]))
<1>1. PICK j \in ReceiverTask : j = joins[b]
  BY DEF Party
<1>2. /\ j.pc # "none" => j.claim \in ClaimsOf(By[b])
      /\ j.pending \cup j.cand \subseteq Kids[b]
  BY <1>1 DEF Party
<1>3. CASE j.pc \in {"start", "cancel", "reap", "release", "releaseCanceled"}
  <2>1. CanceledJoin(j) = [j EXCEPT !.pc = "canceled"]
    BY <1>3 DEF CanceledJoin, Finished
  <2>2. PICK k : k = [j EXCEPT !.pc = "canceled"]
    OBVIOUS
  <2>3. /\ k \in ReceiverTask /\ k.claim = j.claim /\ k.pending = j.pending /\ k.cand = j.cand
        /\ k.active = j.active
    BY <2>2 DEF ReceiverTask, Finished
  <2> QED BY <1>1, <1>2, <1>3, <2>1, <2>2, <2>3 DEF TaskMay
<1>4. CASE j.pc \in Finished \cup {"none"}
  <2>1. CanceledJoin(j) = j
    BY <1>4 DEF CanceledJoin, Finished
  <2> QED BY <1>1, <1>2, <2>1 DEF TaskMay
<1>5. CASE j.pc \notin Finished \cup {"none", "start", "cancel", "reap", "release", "releaseCanceled"}
  <2>1. CanceledJoin(j) = [j EXCEPT !.pc = "cancel", !.cand = {}]
    BY <1>5 DEF CanceledJoin
  <2>2. PICK i : i = [j EXCEPT !.pc = "cancel"]
    OBVIOUS
  <2>3. /\ i \in ReceiverTask /\ i.claim = j.claim /\ i.pending = j.pending /\ i.active = j.active
        /\ i.pc = "cancel"
    BY <2>2 DEF ReceiverTask, JoinStages
  <2>4. PICK k : k = [i EXCEPT !.cand = {}]
    OBVIOUS
  <2>5. /\ k \in ReceiverTask /\ k.claim = j.claim /\ k.pending = j.pending /\ k.cand = {}
        /\ k.active = j.active /\ k.pc = "cancel"
    BY <2>3, <2>4 DEF ReceiverTask
  <2>6. CanceledJoin(j) = k
    BY <2>1, <2>2, <2>4
  <2> QED BY <1>1, <1>2, <1>5, <2>5, <2>6 DEF TaskMay
<1> QED BY <1>3, <1>4, <1>5

\* Tasks become what they may, and what they await is still there.
LEMMA JoinsMove ==
    ASSUME JoinsGood, joins' = [b \in Commands |-> joins'[b]],
           \A b \in Commands : joins'[b] = joins[b] \/ TaskMay(b, joins[b], joins'[b]),
           \A b \in Commands : \A k \in joins'[b].active : \E w \in execs' : Key(w) = k
    PROVE  JoinsGood'
<1>1. ASSUME NEW b \in Commands PROVE Party(b)'
  BY <1>1 DEF JoinsGood, Party, TaskMay
<1> QED BY <1>1 DEF JoinsGood

\* What is awaited is still there when the executions keep their keys.
LEMMA AwaitedStay ==
    ASSUME JoinsGood, KeysKept,
           \A b \in Commands : joins'[b] = joins[b] \/ TaskMay(b, joins[b], joins'[b])
    PROVE  \A b \in Commands : \A k \in joins'[b].active : \E w \in execs' : Key(w) = k
<1> SUFFICES ASSUME NEW b \in Commands, NEW k \in joins'[b].active
             PROVE  \E w \in execs' : Key(w) = k
  OBVIOUS
<1>1. k \in joins[b].active
  BY DEF TaskMay
<1>2. PICK z \in execs : Key(z) = k
  BY <1>1 DEF JoinsGood, Party
<1> QED BY <1>2 DEF KeysKept

\* A task that was never started is one.
LEMMA NoJoinTask ==
    /\ NoJoin \in ReceiverTask
    /\ \A c \in Claims \cup {NoClaim} :
          LET j == [NoJoin EXCEPT !.pc = "start", !.claim = c]
          IN  j \in ReceiverTask /\ j.claim = c /\ j.pending = {} /\ j.cand = {} /\ j.active = {}
<1>1. NoJoin \in ReceiverTask
  BY DEF NoJoin, ReceiverTask
<1>2. ASSUME NEW c \in Claims \cup {NoClaim}
      PROVE  LET j == [NoJoin EXCEPT !.pc = "start", !.claim = c]
             IN  j \in ReceiverTask /\ j.claim = c /\ j.pending = {} /\ j.cand = {} /\ j.active = {}
  <2>1. [NoJoin EXCEPT !.pc = "start", !.claim = c] =
          [pc |-> "start", claim |-> c, pending |-> {}, active |-> {}, attempted |-> {}, cand |-> {}]
    <3> DEFINE i == [NoJoin EXCEPT !.pc = "start"]
    <3>1. i = [pc |-> "start", claim |-> NoClaim, pending |-> {}, active |-> {}, attempted |-> {}, cand |-> {}]
      BY DEF NoJoin
    <3>2. [NoJoin EXCEPT !.pc = "start", !.claim = c] = [i EXCEPT !.claim = c]
      OBVIOUS
    <3> HIDE DEF i
    <3> QED BY <3>1, <3>2
  <2>2. [pc |-> "start", claim |-> c, pending |-> {}, active |-> {}, attempted |-> {}, cand |-> {}]
          \in ReceiverTask
    BY DEF ReceiverTask, JoinStages
  <2> QED BY <2>1, <2>2
<1> QED BY <1>1, <1>2

\* AgentResultReceiver: a task is opened, canceled, closed and gathered.
LEMMA ReceiverStep ==
    ASSUME WorkInv, NEW x \in execs, OpenReceiver(x) \/ CancelReceive(x) \/ Close(x) \/ Gather(x)
    PROVE  WorkInv'
<1>0. /\ Core /\ JoinsGood /\ Rest /\ Member(x) /\ x.run \in Runs
      /\ x.then \in Settle /\ x.cmd \in Commands \cup {0} /\ x.claim \in ClaimsOf(x.run)
      /\ x.claim \in Claims \cup {NoClaim}
  BY ExecFacts DEF ClaimsOf
<1>1. UNCHANGED <<treeVars, ckpt, stop, boot>>
  BY DEF OpenReceiver, CancelReceive, Close, Gather
<1>2. [TreeNext]_treeVars /\ NoneBegins /\ EndsWell
  BY <1>1, StillTree
<1>3. got' \in [Runs -> SUBSET Runs]
  BY <1>0 DEF OpenReceiver, CancelReceive, Close, Gather, Rest
<1>4. PICK pc : Goes(x, pc) /\ MayMove(x, pc, x.then, x.cmd) /\ pc \in Places
  <2>1. CASE OpenReceiver(x) \/ CancelReceive(x)
    <3>1. PICK pc \in {"receive", "work", "drain"} : Goes(x, pc)
      BY <2>1 DEF OpenReceiver, CancelReceive
    <3>2. x.pc \in {"open", "receive"} /\ x.cmd \in Commands /\ By[x.cmd] = x.run
      BY <1>0, <2>1 DEF OpenReceiver, CancelReceive, Member
    <3>3. pc \in Places
      BY DEF Places, Running
    <3> QED BY <1>0, <3>1, <3>2, <3>3 DEF MayMove, AtWork, RecEndsAs, Closing
  <2>2. CASE Close(x)
    <3>1. Goes(x, "gather") /\ x.pc = "close"
      BY <2>2 DEF Close
    <3>2. "gather" \in Places
      BY DEF Places, Closing
    <3> QED BY <1>0, <3>1, <3>2 DEF MayMove, AtWork, RecEndsAs, Closing, EndsAs
  <2>3. CASE Gather(x)
    <3>1. Goes(x, x.then) /\ x.pc = "gather"
      BY <2>3 DEF Gather
    <3>2. x.then \in Places /\ x.then \notin AtWork \cup {"submit"} \cup Closing
      BY <1>0 DEF Places, Settle, AtWork, Closing
    <3> QED BY <1>0, <3>1, <3>2 DEF MayMove, AtWork, RecEndsAs, Closing, EndsAs
  <2> QED BY <2>1, <2>2, <2>3
<1>5. Core' /\ KeysKept
  BY <1>0, <1>2, <1>4, GoesTo
<1>6. /\ joins' = [b \in Commands |-> joins'[b]]
      /\ \A b \in Commands : joins'[b] = joins[b] \/ TaskMay(b, joins[b], joins'[b])
  <2>0. joins = [b \in Commands |-> joins[b]] /\ \A b \in Commands : Party(b)
    BY <1>0 DEF JoinsGood
  <2>1. CASE OpenReceiver(x)
    <3>1. x.cmd \in Commands /\ By[x.cmd] = x.run
      BY <1>0, <2>1 DEF OpenReceiver, Member
    <3>2. CASE joins' = joins
      BY <2>0, <3>2
    <3>3. CASE joins' = [joins EXCEPT ![x.cmd] = [NoJoin EXCEPT !.pc = "start", !.claim = x.claim]]
      <4> DEFINE j == [NoJoin EXCEPT !.pc = "start", !.claim = x.claim]
      <4>1. j \in ReceiverTask /\ j.claim = x.claim /\ j.pending = {} /\ j.cand = {} /\ j.active = {}
        BY <1>0, NoJoinTask
      <4>2. joins' = [joins EXCEPT ![x.cmd] = j]
        BY <3>3
      <4> HIDE DEF j
      <4>3. TaskMay(x.cmd, joins[x.cmd], j)
        BY <1>0, <3>1, <4>1 DEF TaskMay
      <4> QED BY <2>0, <3>1, <4>2, <4>3
    <3> QED BY <2>1, <3>2, <3>3 DEF OpenReceiver
  <2>2. CASE CancelReceive(x)
    <3>1. x.cmd \in Commands
      BY <1>0, <2>2 DEF CancelReceive, Member
    <3>2. joins' = [joins EXCEPT ![x.cmd] = CanceledJoin(joins[x.cmd])]
      BY <2>2 DEF CancelReceive
    <3>3. TaskMay(x.cmd, joins[x.cmd], CanceledJoin(joins[x.cmd]))
      BY <2>0, <3>1, CanceledJoinMay
    <3> QED BY <2>0, <3>1, <3>2, <3>3
  <2>3. CASE Close(x)
    BY <2>0, <2>3, CanceledJoinMay DEF Close
  <2>4. CASE Gather(x)
    <3>1. \A b \in Commands : TaskMay(b, joins[b], NoJoin)
      BY NoJoinTask DEF TaskMay, NoJoin
    <3> QED BY <2>0, <2>4, <3>1 DEF Gather
  <2> QED BY <2>1, <2>2, <2>3, <2>4
<1>7. JoinsGood'
  BY <1>0, <1>5, <1>6, JoinsMove, AwaitedStay
<1> QED BY <1>0, <1>1, <1>3, <1>5, <1>7 DEF WorkInv, Core, Rest

\* A task with the fields that change.
TaskRec(j, pc, pending, active, attempted, cand) ==
    [pc |-> pc, claim |-> j.claim, pending |-> pending, active |-> active,
     attempted |-> attempted, cand |-> cand]

\* What a task that runs may become, by its fields.
LEMMA TaskRecMay ==
    ASSUME NEW b \in Commands, Party(b), joins[b].pc # "none",
           NEW pc \in JoinStages \cup Finished, NEW pending \in SUBSET Kids[b],
           NEW active \in SUBSET (Runs \X Nat), NEW attempted \in SUBSET Runs, NEW cand \in SUBSET Kids[b],
           NEW k, k = TaskRec(joins[b], pc, pending, active, attempted, cand)
    PROVE  /\ k \in ReceiverTask /\ k.active = active /\ k.claim = joins[b].claim
           /\ k.claim \in ClaimsOf(By[b]) /\ k.pending \cup k.cand \subseteq Kids[b]
           /\ active \subseteq joins[b].active => TaskMay(b, joins[b], k)
<1>0. joins[b].claim \in Claims \cup {NoClaim} /\ joins[b].claim \in ClaimsOf(By[b]) /\ Kids[b] \subseteq Runs
  BY CommandShape DEF Party, ReceiverTask
<1>1. /\ k.active = active /\ k.claim = joins[b].claim /\ k.pending = pending /\ k.cand = cand /\ k.pc = pc
      /\ k \in ReceiverTask
  BY <1>0 DEF TaskRec, ReceiverTask
<1> QED BY <1>0, <1>1 DEF TaskMay

\* The same for a task that goes on awaiting the same executions.
LEMMA TaskRecStays ==
    ASSUME NEW b \in Commands, Party(b), joins[b].pc # "none", joins[b] \in ReceiverTask,
           NEW pc \in JoinStages, NEW pending \in SUBSET Kids[b], NEW cand \in SUBSET Kids[b],
           NEW k, k = TaskRec(joins[b], pc, pending, joins[b].active, joins[b].attempted, cand)
    PROVE  TaskMay(b, joins[b], k)
<1>1. joins[b].active \in SUBSET (Runs \X Nat) /\ joins[b].attempted \in SUBSET Runs
  BY DEF ReceiverTask
<1>2. pc \in JoinStages \cup Finished /\ joins[b].active \subseteq joins[b].active
  OBVIOUS
<1> QED BY <1>1, <1>2, TaskRecMay

\* The fields of the task of a command, and what an assignment to one of them does.
LEMMA TaskOf ==
    ASSUME JoinsGood, NEW b \in Commands
    PROVE  /\ joins[b].pending \in SUBSET Kids[b] /\ joins[b].cand \in SUBSET Kids[b]
           /\ joins[b].active \in SUBSET (Runs \X Nat) /\ joins[b].attempted \in SUBSET Runs
           /\ Party(b) /\ joins \in [Commands -> ReceiverTask]
           /\ joins[b] = TaskRec(joins[b], joins[b].pc, joins[b].pending, joins[b].active,
                                 joins[b].attempted, joins[b].cand)
<1>1. Party(b) /\ joins \in [Commands -> ReceiverTask]
  BY DEF JoinsGood, Party
<1>2. joins[b] \in ReceiverTask /\ joins[b].pending \cup joins[b].cand \subseteq Kids[b]
  BY <1>1 DEF Party
<1>3. /\ joins[b].active \in SUBSET (Runs \X Nat) /\ joins[b].attempted \in SUBSET Runs
      /\ joins[b] = TaskRec(joins[b], joins[b].pc, joins[b].pending, joins[b].active,
                                 joins[b].attempted, joins[b].cand)
  BY <1>2 DEF ReceiverTask, TaskRec
<1> QED BY <1>1, <1>2, <1>3

\* Only one task moves, and the tree at most quietly.
LEMMA OnlyTask ==
    ASSUME WorkInv, [TreeNext]_treeVars, NoneBegins, EndsWell, NEW b \in Commands, NEW k,
           joins' = [joins EXCEPT ![b] = k], TaskMay(b, joins[b], k),
           UNCHANGED <<execs, got, ckpt, stop, boot>>
    PROVE  WorkInv'
<1>0. Core /\ JoinsGood /\ Rest /\ joins = [d \in Commands |-> joins[d]]
  BY DEF WorkInv, Core, JoinsGood
<1>1. Core' /\ KeysKept
  BY <1>0, ExecsGo DEF KeysKept
<1>2. /\ joins' = [d \in Commands |-> joins'[d]]
      /\ \A d \in Commands : joins'[d] = joins[d] \/ TaskMay(d, joins[d], joins'[d])
  BY <1>0
<1>3. JoinsGood'
  BY <1>0, <1>1, <1>2, JoinsMove, AwaitedStay
<1> QED BY <1>0, <1>1, <1>3 DEF WorkInv, Core, Rest

\* A task goes to its next stage.
LEMMA JoinGoesMay ==
    ASSUME JoinsGood, NEW b \in Commands, joins[b].pc # "none", NEW pc \in JoinStages \cup Finished,
           JoinGoes(b, pc)
    PROVE  \E k : joins' = [joins EXCEPT ![b] = k] /\ TaskMay(b, joins[b], k)
<1>0. Party(b) /\ joins[b] \in ReceiverTask
  BY TaskOf
<1>1. PICK k : k = [joins[b] EXCEPT !.pc = pc]
  OBVIOUS
<1>2. joins' = [joins EXCEPT ![b] = k]
  BY <1>1 DEF JoinGoes, JoinBecomes
<1>3. k = TaskRec(joins[b], pc, joins[b].pending, joins[b].active, joins[b].attempted, joins[b].cand)
  BY <1>0, <1>1 DEF TaskRec, ReceiverTask
<1>4. TaskMay(b, joins[b], k)
  BY <1>0, <1>3, TaskRecMay, TaskOf
<1> QED BY <1>2, <1>4

\* The stages that only move on, after at most one call of the tree.
LEMMA StageStep ==
    ASSUME WorkInv, NEW b \in Commands,
           JoinStart(b) \/ Remark(b) \/ Release(b) \/ Decide(b) \/ Probe(b)
    PROVE  WorkInv'
<1>0. JoinsGood /\ TreeInv /\ JoinTypeOK /\ Parties /\ By[b] \in Runs
  BY WorkInvParts, CommandShape DEF WorkInv
<1>1. UNCHANGED <<execs, got, ckpt, stop, boot>> /\ joins[b].pc # "none"
  BY DEF JoinStart, Remark, Release, Decide, Probe, JoinOnly
<1>2. PICK pc \in JoinStages \cup Finished : JoinGoes(b, pc)
  <2>1. CASE JoinStart(b) \/ Remark(b)
    BY <2>1 DEF JoinStart, Remark, JoinStages, Finished
  <2>2. CASE Release(b)
    BY <2>2 DEF Release, JoinStages, Finished
  <2>3. CASE Decide(b)
    <3>1. CASE joins[b].active # {}
      BY <2>3, <3>1 DEF Decide, JoinStages
    <3>2. CASE joins[b].active = {}
      BY <2>3, <3>2 DEF Decide, JoinStages
    <3> QED BY <3>1, <3>2
  <2>4. CASE Probe(b)
    BY <2>4 DEF Probe, JoinStages, Finished
  <2> QED BY <2>1, <2>2, <2>3, <2>4
<1>3. \E k : joins' = [joins EXCEPT ![b] = k] /\ TaskMay(b, joins[b], k)
  BY <1>0, <1>1, <1>2, JoinGoesMay
<1>4. [TreeNext]_treeVars
  BY <1>0, JoinTaskUsesTree DEF JoinStep
<1>5. NoneBegins /\ EndsWell
  <2>1. CASE UNCHANGED treeVars
    BY <2>1, StillTree
  <2>2. CASE MarkWaiting(By[b], joins[b].claim) \/ ReleaseWaiting(By[b], joins[b].claim)
    <3>1. canon' = canon
      BY <2>2 DEF MarkWaiting, ReleaseWaiting
    <3>2. \A s \in Runs : runs'[s].st \in Terminal => runs[s].st \in Terminal
      BY <1>0, <2>2 DEF MarkWaiting, ReleaseWaiting, TreeInv, TreeTypeOK, AgentTreeRun, Terminal
    <3> QED BY <3>1, <3>2 DEF NoneBegins, EndsWell
  <2> QED BY <2>1, <2>2 DEF JoinStart, Remark, Release, Decide, Probe
<1> QED BY <1>1, <1>3, <1>4, <1>5, OnlyTask

\* The stages that look at the targets or cancel them.
LEMMA TargetsStep ==
    ASSUME WorkInv, NEW b \in Commands, Aggregate(b) \/ ListRunnable(b) \/ CancelTarget(b)
    PROVE  WorkInv'
<1> DEFINE j == joins[b]
<1>0. /\ JoinsGood /\ TreeInv /\ JoinTypeOK /\ Parties /\ Party(b) /\ j \in ReceiverTask
      /\ j.pending \in SUBSET Kids[b] /\ j.cand \in SUBSET Kids[b] /\ Kids[b] \subseteq Runs
      /\ j.active \in SUBSET (Runs \X Nat) /\ j.attempted \in SUBSET Runs
  BY WorkInvParts, TaskOf, CommandShape DEF WorkInv
<1>1. UNCHANGED <<execs, got, ckpt, stop, boot>> /\ j.pc # "none"
  BY DEF Aggregate, ListRunnable, CancelTarget, JoinOnly
<1>2. [TreeNext]_treeVars
  BY <1>0, JoinTaskUsesTree DEF JoinStep
<1>3. NoneBegins /\ EndsWell
  <2>1. CASE UNCHANGED treeVars
    BY <2>1, StillTree
  <2>2. CASE CancelTarget(b)
    BY <1>0, <2>2, CancelWell DEF CancelTarget
  <2> QED BY <2>1, <2>2 DEF Aggregate, ListRunnable
<1>4. \E k : joins' = [joins EXCEPT ![b] = k] /\ TaskMay(b, j, k)
  <2>1. CASE Aggregate(b)
    <3>1. PICK pending \in SUBSET Kids[b], pc \in JoinStages :
            JoinBecomes(b, [j EXCEPT !.pending = pending, !.pc = pc])
      <4> DEFINE open == {k \in Kids[b] : IsActive(k)}
                 pending == IF stop THEN j.pending ELSE open
                 pc == CASE stop -> "cancel"
                         [] ~stop /\ open = {} -> "release"
                         [] OTHER -> "remark"
      <4>1. JoinBecomes(b, [j EXCEPT !.pending = pending, !.pc = pc])
        BY <2>1 DEF Aggregate
      <4>2. pending \in SUBSET Kids[b]
        BY <1>0
      <4>3. pc \in JoinStages
        <5>1. CASE stop
          BY <5>1 DEF JoinStages
        <5>2. CASE ~stop
          BY <5>2 DEF JoinStages
        <5> QED BY <5>1, <5>2
      <4> QED BY <4>1, <4>2, <4>3
    <3>2. PICK i : i = [j EXCEPT !.pending = pending]
      OBVIOUS
    <3>3. i = TaskRec(j, j.pc, pending, j.active, j.attempted, j.cand)
      BY <1>0, <3>2 DEF ReceiverTask, TaskRec
    <3>4. PICK k : k = [i EXCEPT !.pc = pc]
      OBVIOUS
    <3>5. k = TaskRec(j, pc, pending, j.active, j.attempted, j.cand)
      BY <3>3, <3>4 DEF TaskRec
    <3>6. joins' = [joins EXCEPT ![b] = k]
      BY <3>1, <3>2, <3>4 DEF JoinBecomes
    <3>7. TaskMay(b, j, k)
      BY <1>0, <1>1, <3>1, <3>5, TaskRecStays
    <3> QED BY <3>6, <3>7
  <2>2. CASE ListRunnable(b)
    <3>1. PICK cand \in SUBSET Kids[b] : JoinBecomes(b, [j EXCEPT !.pc = "claim", !.cand = cand])
      <4> DEFINE cand == {k \in j.pending \ j.attempted : Runnable(k)}
      <4>1. cand \in SUBSET Kids[b]
        BY <1>0
      <4>2. JoinBecomes(b, [j EXCEPT !.pc = "claim", !.cand = cand])
        BY <2>2 DEF ListRunnable
      <4> QED BY <4>1, <4>2
    <3>2. PICK i : i = [j EXCEPT !.pc = "claim"]
      OBVIOUS
    <3>3. i = TaskRec(j, "claim", j.pending, j.active, j.attempted, j.cand)
      BY <1>0, <3>2 DEF ReceiverTask, TaskRec
    <3>4. PICK k : k = [i EXCEPT !.cand = cand]
      OBVIOUS
    <3>5. k = TaskRec(j, "claim", j.pending, j.active, j.attempted, cand)
      BY <3>3, <3>4 DEF TaskRec
    <3>6. joins' = [joins EXCEPT ![b] = k]
      BY <3>1, <3>2, <3>4 DEF JoinBecomes
    <3>7. "claim" \in JoinStages
      BY DEF JoinStages
    <3>8. TaskMay(b, j, k)
      BY <1>0, <1>1, <3>1, <3>5, <3>7, TaskRecStays
    <3> QED BY <3>6, <3>8
  <2>3. CASE CancelTarget(b)
    <3>1. PICK cand \in SUBSET Kids[b] : JoinBecomes(b, [j EXCEPT !.cand = cand])
      <4>1. PICK t \in Kids[b] : JoinBecomes(b, [j EXCEPT !.cand = j.cand \cup {t}])
        BY <2>3 DEF CancelTarget
      <4>2. j.cand \cup {t} \in SUBSET Kids[b]
        BY <1>0
      <4> QED BY <4>1, <4>2
    <3>2. PICK k : k = [j EXCEPT !.cand = cand]
      OBVIOUS
    <3>3. k = TaskRec(j, j.pc, j.pending, j.active, j.attempted, cand)
      BY <1>0, <3>2 DEF ReceiverTask, TaskRec
    <3>4. joins' = [joins EXCEPT ![b] = k]
      BY <3>1, <3>2 DEF JoinBecomes
    <3>5. j.pc \in JoinStages
      BY <2>3 DEF CancelTarget, JoinStages
    <3>6. TaskMay(b, j, k)
      BY <1>0, <1>1, <3>1, <3>3, <3>5, TaskRecStays
    <3> QED BY <3>4, <3>6
  <2> QED BY <2>1, <2>2, <2>3
<1> QED BY <1>1, <1>2, <1>3, <1>4, OnlyTask

\* A claim begins an execution of its own: its epoch was never used before.
LEMMA NewExecGood ==
    ASSUME WorkInv, NEW b \in Commands, NEW t \in Kids[b], ClaimRun(t, boot),
           execs' = execs \cup {NewExec(t)}
    PROVE  /\ Core' /\ KeysKept /\ Key(NewExec(t)) \in Runs \X Nat /\ Key(NewExec(t))[1] = t
           /\ [TreeNext]_treeVars
<1>0. /\ Core /\ TreeInv /\ t \in Runs /\ t # Root /\ boot \in Owners /\ ExecsGood /\ RecordsAgree /\ Begun
      /\ runs[t].epoch \in Nat /\ runs[t].epoch < MaxEpoch /\ MaxEpoch \in Nat
  <2>1. t \in Runs /\ t # Root
    BY CommandShape, TreeShape
  <2>2. runs[t].epoch < MaxEpoch
    BY DEF ClaimRun, Claimable
  <2> QED BY <2>1, <2>2, RunNumbers, LimitShape DEF WorkInv, Core, Rest, TreeInv
<1>1. TreeNext
  BY <1>0 DEF TreeNext
<1>2. canon' = canon /\ runs \in [Runs -> AgentTreeRun]
      /\ runs'[t].epoch = runs[t].epoch + 1 /\ \A s \in Runs : runs'[s].st \in Terminal => runs[s].st \in Terminal
  BY <1>0 DEF ClaimRun, TreeInv, TreeTypeOK, Terminal
<1>3. NoneBegins /\ EndsWell
  BY <1>2 DEF NoneBegins, EndsWell
<1>4. RecordsAgree' /\ Begun' /\ TreeInv' /\ \A z \in execs : Good(z) /\ Good(z)'
  BY <1>0, <1>1, <1>3, TreePart, TreeInvStep DEF ExecsGood
<1>5. PICK y : y = NewExec(t)
  OBVIOUS
<1>6. /\ y.run = t /\ y.claim.epoch = runs[t].epoch + 1 /\ y.claim \in Claims /\ y.pc = "begin"
      /\ y \in Execution
  <2>1. [owner |-> boot, epoch |-> runs[t].epoch + 1] \in Claims
    BY <1>0 DEF Claims
  <2>2. /\ y.run = t /\ y.claim = [owner |-> boot, epoch |-> runs[t].epoch + 1] /\ y.pc = "begin"
        /\ y.then = "fail" /\ y.cmd = 0 /\ y.version = 0
    BY <1>5 DEF NewExec
  <2>3. "begin" \in Running \cup Closing \cup Settle \cup Over /\ "fail" \in Settle
    BY DEF Running, Settle
  <2>4. y \in Execution
    BY <1>0, <1>5, <2>1, <2>3 DEF NewExec, Execution
  <2> QED BY <2>1, <2>2, <2>4
<1>7. Good(y)'
  <2>1. Member(y)' /\ Ready(y)'
    BY <1>0, <1>6 DEF Member, Ready, ClaimsOf
  <2>2. ExecSound(y)'
    BY <1>0, <1>2, <1>6 DEF ExecSound, Closing
  <2> QED BY <2>1, <2>2 DEF Good
<1>8. ASSUME NEW z \in execs PROVE Key(z) # Key(y)
  <2> SUFFICES ASSUME z.run = t, z.claim.epoch = runs[t].epoch + 1 PROVE FALSE
    BY <1>6 DEF Key
  <2>1. z.claim.epoch <= runs[t].epoch
    BY <1>0, <1>4 DEF Good, ExecSound
  <2> QED BY <1>0, <2>1
<1>9. ExecsGood'
  <2>1. Distinct'
    BY <1>0, <1>5, <1>8 DEF ExecsGood, Distinct, Key
  <2> QED BY <1>4, <1>5, <1>7, <2>1 DEF ExecsGood
<1>10. Key(y) \in Runs \X Nat /\ Key(y)[1] = t
  BY <1>0, <1>6 DEF Key
<1> QED BY <1>1, <1>4, <1>5, <1>9, <1>10 DEF Core, KeysKept

\* A candidate is claimed, or somebody else was faster.
LEMMA ClaimNextStep ==
    ASSUME WorkInv, NEW b \in Commands, ClaimNext(b)
    PROVE  WorkInv'
<1> DEFINE j == joins[b]
<1>0. /\ JoinsGood /\ Rest /\ Party(b) /\ j \in ReceiverTask /\ joins = [d \in Commands |-> joins[d]]
      /\ j.pending \in SUBSET Kids[b] /\ j.cand \in SUBSET Kids[b] /\ Kids[b] \subseteq Runs
      /\ j.active \in SUBSET (Runs \X Nat) /\ j.attempted \in SUBSET Runs
  BY TaskOf, CommandShape DEF WorkInv, JoinsGood
<1>1. UNCHANGED <<got, ckpt, stop, boot>> /\ j.pc # "none" /\ j.pc \in JoinStages
  BY DEF ClaimNext, JoinOnly, JoinStages
<1>2. PICK t \in j.cand :
        \/ /\ ClaimRun(t, boot)
           /\ execs' = execs \cup {NewExec(t)}
           /\ JoinBecomes(b, [j EXCEPT !.cand = @ \ {t}, !.attempted = @ \cup {t},
                                       !.active = @ \cup {Key(NewExec(t))}])
        \/ JoinBecomes(b, [j EXCEPT !.cand = @ \ {t}]) /\ UNCHANGED <<treeVars, execs>>
  BY DEF ClaimNext
<1>3. CASE JoinBecomes(b, [j EXCEPT !.cand = @ \ {t}]) /\ UNCHANGED <<treeVars, execs>>
  <2>1. PICK cand \in SUBSET Kids[b] : cand = j.cand \ {t}
    BY <1>0
  <2>2. PICK k : k = [j EXCEPT !.cand = cand]
    OBVIOUS
  <2>3. k = TaskRec(j, j.pc, j.pending, j.active, j.attempted, cand)
    BY <1>0, <2>2 DEF ReceiverTask, TaskRec
  <2>4. joins' = [joins EXCEPT ![b] = k]
    BY <1>3, <2>1, <2>2 DEF JoinBecomes
  <2>5. TaskMay(b, j, k)
    BY <1>0, <1>1, <2>3, TaskRecMay
  <2> QED BY <1>1, <1>3, <2>4, <2>5, StillTree, OnlyTask
<1>4. CASE /\ ClaimRun(t, boot) /\ execs' = execs \cup {NewExec(t)}
           /\ JoinBecomes(b, [j EXCEPT !.cand = @ \ {t}, !.attempted = @ \cup {t},
                                       !.active = @ \cup {Key(NewExec(t))}])
  <2>1. Core' /\ KeysKept /\ Key(NewExec(t)) \in Runs \X Nat /\ Key(NewExec(t))[1] = t /\ t \in Kids[b]
    BY <1>0, <1>4, NewExecGood
  <2>2. PICK cand \in SUBSET Kids[b], attempted \in SUBSET Runs, active \in SUBSET (Runs \X Nat) :
          /\ cand = j.cand \ {t} /\ attempted = j.attempted \cup {t}
          /\ active = j.active \cup {Key(NewExec(t))}
    <3>1. j.cand \ {t} \in SUBSET Kids[b] /\ j.attempted \cup {t} \in SUBSET Runs
      BY <1>0
    <3>2. j.active \cup {Key(NewExec(t))} \in SUBSET (Runs \X Nat)
      BY <1>0, <2>1
    <3> QED BY <3>1, <3>2
  <2>3. PICK i1 : i1 = [j EXCEPT !.cand = cand]
    OBVIOUS
  <2>4. i1 = TaskRec(j, j.pc, j.pending, j.active, j.attempted, cand)
    BY <1>0, <2>3 DEF ReceiverTask, TaskRec
  <2>5. PICK i2 : i2 = [i1 EXCEPT !.attempted = attempted]
    OBVIOUS
  <2>6. i2 = TaskRec(j, j.pc, j.pending, j.active, attempted, cand)
    BY <2>4, <2>5 DEF TaskRec
  <2>7. PICK k : k = [i2 EXCEPT !.active = active]
    OBVIOUS
  <2>8. k = TaskRec(j, j.pc, j.pending, active, attempted, cand)
    BY <2>6, <2>7 DEF TaskRec
  <2>9. joins' = [joins EXCEPT ![b] = k]
    BY <1>4, <2>2, <2>3, <2>5, <2>7 DEF JoinBecomes
  <2>10. /\ k \in ReceiverTask /\ k.active = active
         /\ k.claim \in ClaimsOf(By[b]) /\ k.pending \cup k.cand \subseteq Kids[b]
    <3>1. /\ k.active = active /\ k.claim = joins[b].claim /\ k.pending = j.pending /\ k.cand = cand
          /\ joins[b].claim \in ClaimsOf(By[b]) /\ joins[b].claim \in Claims \cup {NoClaim}
      BY <1>0, <1>1, <2>8 DEF TaskRec, Party, ReceiverTask
    <3>2. k \in ReceiverTask
      BY <1>0, <1>1, <2>8, <3>1 DEF TaskRec, ReceiverTask
    <3> QED BY <1>0, <3>1, <3>2
  <2>11. \A z \in active : z[1] \in Kids[b] /\ \E x \in execs' : Key(x) = z
    <3>1. \A z \in j.active : z[1] \in Kids[b] /\ \E x \in execs : Key(x) = z
      BY <1>0 DEF Party
    <3> QED BY <1>4, <2>1, <2>2, <3>1
  <2>12. Party(b)'
    <3>1. joins'[b] = k
      BY <1>0, <2>9
    <3> QED BY <2>10, <2>11, <3>1 DEF Party
  <2>13. ASSUME NEW d \in Commands, d # b PROVE Party(d)'
    <3>1. joins'[d] = joins[d] /\ Party(d)
      BY <1>0, <2>9, <2>13 DEF JoinsGood
    <3> QED BY <2>1, <3>1 DEF Party, KeysKept
  <2>14. JoinsGood'
    BY <1>0, <2>9, <2>12, <2>13 DEF JoinsGood
  <2> QED BY <1>0, <1>1, <2>1, <2>14 DEF WorkInv, Core, Rest
<1> QED BY <1>2, <1>3, <1>4

\* A join takes the tasks it awaits out of the executions; they are runs of its
\* own command, so nobody else awaits them.
LEMMA AwaitedGo ==
    ASSUME WorkInv, NEW b \in Commands, UNCHANGED <<treeVars, got, ckpt, stop, boot>>,
           execs' = execs \ Awaited(b), NEW k, joins' = [joins EXCEPT ![b] = k],
           TaskMay(b, joins[b], k), k.active \cap {Key(x) : x \in Awaited(b)} = {}
    PROVE  WorkInv'
<1>0. Core /\ JoinsGood /\ Rest /\ joins = [d \in Commands |-> joins[d]] /\ \A d \in Commands : Party(d)
  BY DEF WorkInv, Core, JoinsGood
<1>1. Core'
  BY <1>0, StillTree, ExecsGo
<1>2. /\ joins' = [d \in Commands |-> joins'[d]] /\ joins'[b] = k
      /\ \A d \in Commands : d # b => joins'[d] = joins[d]
      /\ \A d \in Commands : joins'[d] = joins[d] \/ TaskMay(d, joins[d], joins'[d])
  BY <1>0
<1>3. ASSUME NEW d \in Commands, NEW z \in joins'[d].active
      PROVE  \E w \in execs' : Key(w) = z
  <2>1. z \in joins[d].active
    BY <1>2, <1>3 DEF TaskMay
  <2>2. PICK w \in execs : Key(w) = z
    BY <1>0, <2>1 DEF Party
  <2>3. w \notin Awaited(b)
    <3>1. CASE d = b
      BY <1>2, <1>3, <2>2, <3>1
    <3>2. CASE d # b
      <4>1. z[1] \in Kids[d]
        BY <1>0, <2>1 DEF Party
      <4>2. z \notin joins[b].active
        BY <1>0, <3>2, <4>1, CommandShape DEF Party
      <4> QED BY <2>2, <4>2 DEF Awaited
    <3> QED BY <3>1, <3>2
  <2> QED BY <2>2, <2>3
<1>4. JoinsGood'
  BY <1>0, <1>2, <1>3, JoinsMove
<1> QED BY <1>0, <1>1, <1>4 DEF WorkInv, Core, Rest

\* asyncio.wait and the gathering of canceled tasks.
LEMMA WaitStep ==
    ASSUME WorkInv, NEW b \in Commands, WaitAny(b) \/ Reap(b)
    PROVE  WorkInv'
<1> DEFINE j == joins[b]
<1>0. /\ JoinsGood /\ Party(b) /\ j \in ReceiverTask
      /\ j.pending \in SUBSET Kids[b] /\ j.cand \in SUBSET Kids[b]
      /\ j.active \in SUBSET (Runs \X Nat) /\ j.attempted \in SUBSET Runs
  BY TaskOf DEF WorkInv
<1>1. UNCHANGED <<treeVars, got, ckpt, stop, boot>> /\ j.pc # "none"
  BY DEF WaitAny, Reap, JoinOnly
<1>2. CASE WaitAny(b) /\ stop
  <2>1. JoinGoes(b, "cancel") /\ UNCHANGED execs
    BY <1>2 DEF WaitAny
  <2>2. "cancel" \in JoinStages
    BY DEF JoinStages
  <2>3. \E k : joins' = [joins EXCEPT ![b] = k] /\ TaskMay(b, joins[b], k)
    BY <1>0, <1>1, <2>1, <2>2, JoinGoesMay
  <2> QED BY <1>1, <2>1, <2>3, StillTree, OnlyTask
<1>3. CASE WaitAny(b) /\ ~stop
  <2>1. PICK pc \in JoinStages \cup Finished, pending \in SUBSET Kids[b] :
          /\ JoinBecomes(b, [j EXCEPT !.active = @ \ {Key(x) : x \in Awaited(b)},
                                      !.pending = pending, !.pc = pc])
          /\ execs' = execs \ Awaited(b)
    <3> DEFINE over == Awaited(b)
               left == j.pending \ {x.run : x \in over}
               pc == CASE \E x \in over : x.pc = "raised" -> "failed"
                       [] left = {} /\ \A x \in over : x.pc = "ended" -> "release"
                       [] OTHER -> "aggregate"
    <3>1. /\ JoinBecomes(b, [j EXCEPT !.active = @ \ {Key(x) : x \in over}, !.pending = left, !.pc = pc])
          /\ execs' = execs \ over
      BY <1>3 DEF WaitAny
    <3>2. left \in SUBSET Kids[b]
      BY <1>0
    <3>3. pc \in JoinStages \cup Finished
      <4>1. CASE \E x \in over : x.pc = "raised"
        <5>1. pc = "failed"
          BY <4>1
        <5> QED BY <5>1 DEF Finished
      <4>2. CASE ~\E x \in over : x.pc = "raised"
        <5>1. pc \in {"release", "aggregate"}
          BY <4>2
        <5> QED BY <5>1 DEF JoinStages
      <4> QED BY <4>1, <4>2
    <3> QED BY <3>1, <3>2, <3>3
  <2>2. PICK active \in SUBSET (Runs \X Nat) : active = j.active \ {Key(x) : x \in Awaited(b)}
    BY <1>0
  <2>3. PICK i1 : i1 = [j EXCEPT !.active = active]
    OBVIOUS
  <2>4. i1 = TaskRec(j, j.pc, j.pending, active, j.attempted, j.cand)
    BY <1>0, <2>3 DEF ReceiverTask, TaskRec
  <2>5. PICK i2 : i2 = [i1 EXCEPT !.pending = pending]
    OBVIOUS
  <2>6. i2 = TaskRec(j, j.pc, pending, active, j.attempted, j.cand)
    BY <2>4, <2>5 DEF TaskRec
  <2>7. PICK k : k = [i2 EXCEPT !.pc = pc]
    OBVIOUS
  <2>8. k = TaskRec(j, pc, pending, active, j.attempted, j.cand)
    BY <2>6, <2>7 DEF TaskRec
  <2>9. joins' = [joins EXCEPT ![b] = k]
    BY <2>1, <2>2, <2>3, <2>5, <2>7 DEF JoinBecomes
  <2>10. TaskMay(b, joins[b], k) /\ k.active = active
    <3>1. /\ k.active = active /\ k.claim = j.claim /\ k.pending = pending /\ k.cand = j.cand
          /\ j.claim \in ClaimsOf(By[b]) /\ j.claim \in Claims \cup {NoClaim}
      BY <1>0, <1>1, <2>8 DEF TaskRec, Party, ReceiverTask
    <3>2. k \in ReceiverTask
      <4>1. pending \subseteq Runs /\ j.cand \subseteq Runs
        BY <1>0, CommandShape
      <4> QED BY <1>0, <2>8, <3>1, <4>1 DEF TaskRec, ReceiverTask
    <3>3. active \subseteq j.active
      BY <2>2
    <3> QED BY <1>0, <3>1, <3>2, <3>3 DEF TaskMay
  <2>11. k.active \cap {Key(x) : x \in Awaited(b)} = {}
    BY <2>2, <2>10
  <2> QED BY <1>1, <2>1, <2>9, <2>10, <2>11, AwaitedGo
<1>4. CASE Reap(b)
  <2>1. JoinBecomes(b, [j EXCEPT !.active = {}, !.pc = "releaseCanceled"]) /\ execs' = execs \ Awaited(b)
    BY <1>4 DEF Reap
  <2>2. PICK i1 : i1 = [j EXCEPT !.active = {}]
    OBVIOUS
  <2>3. i1 = TaskRec(j, j.pc, j.pending, {}, j.attempted, j.cand)
    BY <1>0, <2>2 DEF ReceiverTask, TaskRec
  <2>4. PICK k : k = [i1 EXCEPT !.pc = "releaseCanceled"]
    OBVIOUS
  <2>5. k = TaskRec(j, "releaseCanceled", j.pending, {}, j.attempted, j.cand)
    BY <2>3, <2>4 DEF TaskRec
  <2>6. joins' = [joins EXCEPT ![b] = k]
    BY <2>1, <2>2, <2>4 DEF JoinBecomes
  <2>7. "releaseCanceled" \in JoinStages /\ {} \in SUBSET (Runs \X Nat)
    BY DEF JoinStages
  <2>8. TaskMay(b, joins[b], k) /\ k.active = {}
    <3>1. /\ k.active = {} /\ k.claim = j.claim /\ k.pending = j.pending /\ k.cand = j.cand
          /\ j.claim \in ClaimsOf(By[b]) /\ j.claim \in Claims \cup {NoClaim}
      BY <1>0, <1>1, <2>5 DEF TaskRec, Party, ReceiverTask
    <3>2. k \in ReceiverTask
      BY <1>0, <2>5, <2>7, <3>1 DEF TaskRec, ReceiverTask
    <3> QED BY <1>0, <3>1, <3>2 DEF TaskMay
  <2> QED BY <1>1, <2>1, <2>6, <2>8, AwaitedGo
<1> QED BY <1>2, <1>3, <1>4

\* task.cancel() asks an execution for nothing: it will cancel its run, or it
\* gives up a settlement.
LEMMA CanceledTaskMay ==
    ASSUME NEW x, Member(x)
    PROVE  MayBecome(x, CanceledTask(x))
<1>0. /\ x.then \in Settle /\ x.cmd \in Commands \cup {0} /\ x.version \in Nat /\ x.pc \in Places
      /\ x.run \in Runs
  BY ExecFields
<1>1. PICK pc \in Places, then \in Settle :
        /\ CanceledTask(x) = Rec(x, pc, then, x.cmd, x.version)
        /\ \/ pc \in Closing /\ then = "cancel"
           \/ pc \in Over
  <2>0. "cancel" \in Settle /\ "close" \in Closing /\ Closing \subseteq Places /\ Over \subseteq Places /\ "ended" \in Over
    BY DEF Settle, Closing, Places, Over
  <2>1. CASE x.pc \in Running
    <3>1. CanceledTask(x) = [x EXCEPT !.pc = "close", !.then = "cancel"]
      BY <2>1 DEF CanceledTask, Running, Closing, Settle
    <3>2. PICK y : y = [x EXCEPT !.pc = "close"]
      OBVIOUS
    <3>3. y = Rec(x, "close", x.then, x.cmd, x.version)
      BY <3>2, ExecFields
    <3>4. [y EXCEPT !.then = "cancel"] = Rec(x, "close", "cancel", x.cmd, x.version)
      BY <3>3 DEF Rec
    <3>5. CanceledTask(x) = Rec(x, "close", "cancel", x.cmd, x.version)
      BY <3>1, <3>2, <3>4
    <3> QED BY <2>0, <3>5
  <2>2. CASE x.pc \in Closing
    <3>1. CanceledTask(x) = [x EXCEPT !.then = "cancel"]
      BY <2>2 DEF CanceledTask, Running, Closing, Settle
    <3>2. CanceledTask(x) = Rec(x, x.pc, "cancel", x.cmd, x.version)
      BY <3>1, ExecFields
    <3> QED BY <1>0, <2>0, <2>2, <3>2
  <2>3. CASE x.pc \in Settle
    <3>1. CanceledTask(x) = [x EXCEPT !.pc = "ended"]
      BY <2>3 DEF CanceledTask, Running, Closing, Settle
    <3>2. CanceledTask(x) = Rec(x, "ended", x.then, x.cmd, x.version)
      BY <3>1, ExecFields
    <3> QED BY <1>0, <2>0, <3>2
  <2>4. CASE x.pc \in Over
    <3>1. CanceledTask(x) = x
      BY <2>4 DEF CanceledTask, Running, Closing, Settle, Over
    <3> QED BY <1>0, <2>0, <2>4, <3>1, ExecFields
  <2> QED BY <1>0, <2>1, <2>2, <2>3, <2>4 DEF Places
<1>2. PICK y : y = Rec(x, pc, then, x.cmd, x.version)
  OBVIOUS
<1>3. pc \notin AtWork \cup {"submit"}
  BY <1>1 DEF AtWork, Closing, Over
<1>4. /\ Member(y) /\ y.run = x.run /\ y.claim = x.claim /\ Key(y) = Key(x)
      /\ y.pc = pc /\ y.then = then
  <2>1. pc \notin {"open", "receive", "drain"}
    BY <1>3 DEF AtWork
  <2> QED BY <1>0, <1>2, <2>1, RecMember
<1>5. ~EndsAs(y, "complete") /\ ~EndsAs(y, "fail")
  BY <1>1, <1>4 DEF EndsAs, Closing, Over
<1>6. MayBecome(x, y)
  BY <1>3, <1>4, <1>5 DEF MayBecome
<1> QED BY <1>1, <1>2, <1>6

\* The handler of a join cancels the tasks it awaits.
LEMMA CancelTasksStep ==
    ASSUME WorkInv, NEW b \in Commands, CancelTasks(b)
    PROVE  WorkInv'
<1>0. Core /\ JoinsGood /\ Rest /\ joins[b].pc # "none" /\ joins = [d \in Commands |-> joins[d]]
  BY DEF WorkInv, Core, CancelTasks, JoinsGood
<1>1. /\ UNCHANGED <<treeVars, got, ckpt, stop, boot>> /\ JoinGoes(b, "reap")
      /\ execs' = {IF Key(x) \in joins[b].active THEN CanceledTask(x) ELSE x : x \in execs}
  BY DEF CancelTasks, JoinOnly
<1>2. [TreeNext]_treeVars /\ NoneBegins /\ EndsWell
  BY <1>1, StillTree
<1>3. RecordsAgree' /\ Begun' /\ TreeInv' /\ \A z \in execs : Good(z) /\ Good(z)'
  BY <1>0, <1>2, TreePart, TreeInvStep DEF Core, ExecsGood
<1>4. PICK f : f = [x \in execs |-> IF Key(x) \in joins[b].active THEN CanceledTask(x) ELSE x]
  OBVIOUS
<1>a. execs' = {f[x] : x \in execs}
  BY <1>1, <1>4
<1>b. ASSUME NEW x \in execs PROVE Good(f[x])' /\ Key(f[x]) = Key(x)
  <2>1. Good(x) /\ Good(x)' /\ Member(x)
    BY <1>3 DEF Good
  <2>2. PICK y : y = CanceledTask(x)
    OBVIOUS
  <2>3. MayBecome(x, y)
    BY <2>1, <2>2, CanceledTaskMay
  <2>4. Good(y)' /\ Key(y) = Key(x)
    BY <1>0, <1>2, <2>1, <2>3, GoodNext DEF Core, MayBecome
  <2>5. f[x] = y \/ f[x] = x
    BY <1>4, <2>2
  <2> QED BY <2>1, <2>4, <2>5
<1>5. ExecsGood' /\ KeysKept
  <2>1. \A z \in execs' : Good(z)'
    BY <1>a, <1>b
  <2>2. Distinct'
    BY <1>0, <1>a, <1>b DEF Core, ExecsGood, Distinct, Key
  <2>3. KeysKept
    BY <1>a, <1>b DEF KeysKept
  <2> QED BY <2>1, <2>2, <2>3 DEF ExecsGood
<1>6. "reap" \in JoinStages
  BY DEF JoinStages
<1>7. PICK k : joins' = [joins EXCEPT ![b] = k] /\ TaskMay(b, joins[b], k)
  BY <1>0, <1>1, <1>6, JoinGoesMay
<1>8. /\ joins' = [d \in Commands |-> joins'[d]]
      /\ \A d \in Commands : joins'[d] = joins[d] \/ TaskMay(d, joins[d], joins'[d])
  BY <1>0, <1>7
<1>9. JoinsGood'
  BY <1>0, <1>5, <1>8, JoinsMove, AwaitedStay
<1> QED BY <1>0, <1>1, <1>3, <1>5, <1>9 DEF WorkInv, Core, Rest

-----------------------------------------------------------------------------
(* The host, and every step.                                               *)

\* The host stops, cancels, closes, crashes and resumes; time passes.
LEMMA HostStep ==
    ASSUME WorkInv,
           \/ RequestStop \/ Crash \/ Resume \/ Pass \/ UNCHANGED vars
           \/ \E r \in HostCancels : HostCancel(r)
           \/ \E a \in HostCloses : HostClose(a)
    PROVE  WorkInv'
<1>0. Core /\ JoinsGood /\ Rest /\ TreeInv /\ joins = [b \in Commands |-> joins[b]]
  BY DEF WorkInv, Core, JoinsGood
<1>1. ASSUME [TreeNext]_treeVars, NoneBegins, EndsWell, UNCHANGED <<execs, joins>>, Rest'
      PROVE  WorkInv'
  <2>1. Core' /\ KeysKept
    BY <1>0, <1>1, ExecsGo DEF KeysKept
  <2> QED BY <1>0, <1>1, <2>1, OnlyExecs
<1>2. CASE RequestStop
  BY <1>0, <1>1, <1>2, StillTree DEF RequestStop, Rest
<1>3. CASE UNCHANGED vars
  BY <1>0, <1>1, <1>3, StillTree DEF vars, schedVars, Rest
<1>4. CASE Crash
  <2>1. /\ UNCHANGED <<treeVars, ckpt, boot>> /\ execs' = {} /\ joins' = [b \in Commands |-> NoJoin]
        /\ got' = [r \in Runs |-> {}] /\ stop' = FALSE
    BY <1>4 DEF Crash
  <2>2. Core'
    BY <1>0, <2>1, StillTree, ExecsGo
  <2>3. \A b \in Commands : Party(b)'
    <3>1. NoJoin.pc = "none" /\ NoJoin.pending = {} /\ NoJoin.cand = {} /\ NoJoin.active = {}
      BY DEF NoJoin
    <3>2. NoJoin \in ReceiverTask
      BY NoJoinTask
    <3>3. \A b \in Commands : joins'[b] = NoJoin
      BY <2>1
    <3>4. ASSUME NEW b \in Commands PROVE Party(b)'
      <4>1. joins'[b] \in ReceiverTask /\ joins'[b].pc = "none"
        BY <3>1, <3>2, <3>3
      <4>2. joins'[b].pending = {} /\ joins'[b].cand = {} /\ joins'[b].active = {}
        BY <3>1, <3>3
      <4> QED BY <4>1, <4>2 DEF Party
    <3> QED BY <3>4
  <2>4. JoinsGood'
    BY <2>1, <2>3 DEF JoinsGood
  <2>5. Rest'
    <3>1. got' \in [Runs -> SUBSET Runs]
      BY <2>1
    <3>2. ckpt' \subseteq Runs /\ boot' \in Owners
      BY <1>0, <2>1 DEF Rest
    <3>3. stop' \in BOOLEAN
      BY <2>1
    <3> QED BY <3>1, <3>2, <3>3 DEF Rest
  <2> QED BY <2>2, <2>4, <2>5 DEF WorkInv, Core
<1>5. CASE Resume
  <2>1. /\ UNCHANGED <<treeVars, joins, got, ckpt>> /\ execs' = execs \cup {RootExec} /\ stop' = FALSE
        /\ boot' = boot + 1 /\ boot < MaxBoots /\ \A x \in execs : x.run # Root
    BY <1>5 DEF Resume
  <2>2. Rest'
    <3>1. got' \in [Runs -> SUBSET Runs] /\ ckpt' \subseteq Runs
      BY <1>0, <2>1 DEF Rest
    <3>2. boot \in Owners
      BY <1>0 DEF Rest
    <3>3. boot' \in Owners
      BY <2>1, <3>2, BootShape
    <3>4. stop' \in BOOLEAN
      BY <2>1
    <3> QED BY <3>1, <3>3, <3>4 DEF Rest
  <2>3. RecordsAgree' /\ Begun' /\ TreeInv' /\ \A z \in execs : Good(z) /\ Good(z)'
    BY <1>0, <2>1, StillTree, TreePart, TreeInvStep DEF Core, ExecsGood
  <2>4. PICK y : y = RootExec
    OBVIOUS
  <2>5. y.run = Root /\ Good(y)'
    <3>1. /\ y.run = Root /\ y.claim = NoClaim /\ y.pc = "work" /\ y.then = "fail"
      BY <2>4 DEF RootExec
    <3>2. y \in Execution
      <4>1. agents[AgentOf[Root]].version \in Nat
        BY <1>0, CommandShape, TreeShape DEF TreeInv, TreeTypeOK, AgentNode
      <4>2. "work" \in Running \cup Closing \cup Settle \cup Over /\ "fail" \in Settle
        BY DEF Running, Settle
      <4> QED BY <2>4, <4>1, <4>2, TreeShape DEF RootExec, Execution
    <3>3. Member(y)' /\ Ready(y)' /\ ExecSound(y)'
      BY <3>1, <3>2, CommandShape DEF Member, ClaimsOf, Ready, ExecSound
    <3> QED BY <3>1, <3>3 DEF Good
  <2>6. ExecsGood'
    <3>1. Distinct'
      BY <1>0, <2>1, <2>4, <2>5 DEF Core, ExecsGood, Distinct, Key
    <3> QED BY <2>1, <2>3, <2>4, <2>5, <3>1 DEF ExecsGood
  <2>7. KeysKept
    BY <2>1 DEF KeysKept
  <2>8. Core'
    BY <2>3, <2>6 DEF Core
  <2> QED BY <1>0, <2>1, <2>2, <2>7, <2>8, OnlyExecs
<1>6. CASE Pass
  <2>1. TreeNext /\ NoneBegins /\ EndsWell
    BY <1>6 DEF Pass, Tick, TreeNext, NoneBegins, EndsWell
  <2> QED BY <1>0, <1>1, <1>6, <2>1 DEF Pass, schedVars, Rest
<1>7. ASSUME NEW r \in HostCancels, HostCancel(r) PROVE WorkInv'
  <2>1. r \in Runs /\ CancelSubtree(r) /\ UNCHANGED schedVars
    BY <1>7, BootShape DEF HostCancel
  <2>2. TreeNext /\ NoneBegins /\ EndsWell
    BY <1>0, <2>1, CancelWell DEF TreeNext
  <2> QED BY <1>0, <1>1, <2>1, <2>2 DEF schedVars, Rest
<1>8. ASSUME NEW a \in HostCloses, HostClose(a) PROVE WorkInv'
  <2>1. a \in Agents /\ CloseAgent(a) /\ UNCHANGED schedVars
    BY <1>8, BootShape DEF HostClose
  <2>2. TreeNext /\ NoneBegins /\ EndsWell
    BY <2>1 DEF TreeNext, CloseAgent, NoneBegins, EndsWell
  <2> QED BY <1>0, <1>1, <2>1, <2>2 DEF schedVars, Rest
<1> QED BY <1>2, <1>3, <1>4, <1>5, <1>6, <1>7, <1>8

\* Every step of the executions, joins and the host keeps the invariant.
LEMMA WorkInvStep == WorkInv /\ [JoinNext]_vars => WorkInv'
<1> SUFFICES ASSUME WorkInv, [JoinNext]_vars PROVE WorkInv'
  OBVIOUS
<1>1. ASSUME NEW x \in execs, ExecStep(x) PROVE WorkInv'
  BY <1>1, BeginStep, FailStopStep, SubmitStep, ReceiverStep, WorkStep, StopStep, LoseLeaseStep, SettleStep
     DEF ExecStep
<1>2. ASSUME NEW b \in Commands, JoinStep(b) PROVE WorkInv'
  BY <1>2, StageStep, TargetsStep, ClaimNextStep, WaitStep, CancelTasksStep DEF JoinStep
<1>3. ASSUME NEW x \in execs, Checkpoint(x) \/ Suspend(x) \/ Heartbeat(x) PROVE WorkInv'
  BY <1>3, WorkStep, StopStep
<1>4. ASSUME NEW x \in execs, NEW b \in Commands, Delegate(x, b) PROVE WorkInv'
  BY <1>4, DelegateStep
<1>5. ASSUME NEW x \in execs, NEW how \in {"done", "failed"}, Finish(x, how) PROVE WorkInv'
  BY <1>5, FinishStep
<1>6. CASE \/ RequestStop \/ Crash \/ Resume \/ Pass \/ UNCHANGED vars
           \/ \E r \in HostCancels : HostCancel(r)
           \/ \E a \in HostCloses : HostClose(a)
  BY <1>6, HostStep
<1> QED BY <1>1, <1>2, <1>3, <1>4, <1>5, <1>6 DEF JoinNext, UpNext

\* The Root begins alone.
LEMMA WorkInvInit == JoinInit => WorkInv
<1> SUFFICES ASSUME JoinInit PROVE WorkInv
  OBVIOUS
<1>0. /\ TreeInit /\ TreeInv /\ execs = {RootExec} /\ joins = [b \in Commands |-> NoJoin]
      /\ got = [r \in Runs |-> {}] /\ ckpt = {} /\ stop = FALSE /\ boot = 1
  BY TreeInvInit DEF JoinInit
<1>1. RecordsAgree /\ Begun
  BY <1>0 DEF TreeInit, RecordsAgree, Begun, IsTerminal, Terminal
<1>2. PICK y : y = RootExec
  OBVIOUS
<1>3. y.run = Root /\ y.claim = NoClaim /\ y.pc = "work" /\ y.then = "fail"
  BY <1>2 DEF RootExec
<1>4. y \in Execution
  <2>1. agents[AgentOf[Root]].version \in Nat
    BY <1>0, CommandShape, TreeShape DEF TreeInv, TreeTypeOK, AgentNode
  <2>2. "work" \in Running \cup Closing \cup Settle \cup Over /\ "fail" \in Settle
    BY DEF Running, Settle
  <2> QED BY <1>2, <2>1, <2>2, TreeShape DEF RootExec, Execution
<1>5. Good(y)
  BY <1>3, <1>4, CommandShape DEF Good, Member, ClaimsOf, Ready, ExecSound
<1>6. ExecsGood
  BY <1>0, <1>2, <1>5 DEF ExecsGood, Distinct
<1>7. \A b \in Commands : Party(b)
  <2>1. NoJoin.pc = "none" /\ NoJoin.pending = {} /\ NoJoin.cand = {} /\ NoJoin.active = {}
    BY DEF NoJoin
  <2>2. NoJoin \in ReceiverTask
    BY NoJoinTask
  <2>3. \A b \in Commands : joins[b] = NoJoin
    BY <1>0
  <2>4. ASSUME NEW b \in Commands PROVE Party(b)
    <3>1. joins[b] \in ReceiverTask /\ joins[b].pc = "none"
      BY <2>1, <2>2, <2>3
    <3>2. joins[b].pending = {} /\ joins[b].cand = {} /\ joins[b].active = {}
      BY <2>1, <2>3
    <3> QED BY <3>1, <3>2 DEF Party
  <2> QED BY <2>4
<1>8. JoinsGood
  BY <1>0, <1>7 DEF JoinsGood
<1>9. Rest
  <2>1. got \in [Runs -> SUBSET Runs]
    BY <1>0
  <2>2. boot \in Owners
    BY <1>0, BootShape
  <2> QED BY <1>0, <2>1, <2>2 DEF Rest
<1> QED BY <1>0, <1>1, <1>6, <1>8, <1>9 DEF WorkInv

\* The parts of JoinInv that the tree alone cannot disturb.
LEMMA TreeAlone ==
    ASSUME TreeInv, JoinTypeOK, Parties, PredecessorsDone, [TreeNext]_treeVars, UNCHANGED schedVars
    PROVE  JoinTypeOK' /\ Parties' /\ PredecessorsDone'
<1>1. UNCHANGED <<execs, joins, got, ckpt, stop, boot>>
  BY DEF schedVars
<1>2. JoinTypeOK' /\ Parties'
  BY <1>1 DEF JoinTypeOK, Parties, Key
<1>3. PredecessorsDone'
  <2> SUFFICES ASSUME NEW x \in execs, x.pc \in {"submit", "work", "open", "receive", "drain"}
               PROVE  \A d \in Deps[x.run] : runs'[d].st = "done"
    BY <1>1 DEF PredecessorsDone
  <2>1. x.run \in Runs
    BY DEF JoinTypeOK, Execution
  <2> QED BY <2>1, ReadyStays DEF PredecessorsDone
<1> QED BY <1>2, <1>3

BothInv == TreeInv /\ JoinInv

\* The parts of the invariant after a step.
LEMMA PartsNext ==
    WorkInv' => /\ TreeInv' /\ JoinTypeOK' /\ Parties' /\ PredecessorsDone'
                /\ RecordsAgree' /\ Begun' /\ \A x \in execs' : ExecSound(x)'
<1>1. (WorkInv => /\ TreeInv /\ JoinTypeOK /\ Parties /\ PredecessorsDone
                  /\ RecordsAgree /\ Begun /\ \A x \in execs : ExecSound(x))'
  BY WorkInvParts, PTL
<1> QED BY <1>1

\* Used either way, the tree and what uses it keep the invariant, and every
\* step is one RunTree allows.
LEMMA BothStep ==
    ASSUME BothInv, [BothNext]_<<vars, part>>
    PROVE  BothInv' /\ [TreeNext]_treeVars
<1>0. TreeInv /\ JoinTypeOK /\ Parties /\ PredecessorsDone /\ (part = "join" => WorkInv)
  BY WorkInvParts DEF BothInv, JoinInv
<1>1. CASE part' = part /\ part = "tree" /\ TreeNext /\ UNCHANGED schedVars
  BY <1>0, <1>1, TreeAlone, TreeInvStep DEF BothInv, JoinInv
<1>2. CASE part' = part /\ part = "join" /\ JoinNext
  <2>1. WorkInv' /\ [TreeNext]_treeVars
    BY <1>0, <1>2, WorkInvStep, JoinUsesTree
  <2>2. /\ TreeInv' /\ JoinTypeOK' /\ Parties' /\ PredecessorsDone'
        /\ RecordsAgree' /\ Begun' /\ \A x \in execs' : ExecSound(x)'
    BY <2>1, PartsNext
  <2> QED BY <1>2, <2>1, <2>2 DEF BothInv, JoinInv
<1>3. CASE UNCHANGED <<vars, part>>
  <2>1. part' = part /\ UNCHANGED vars /\ UNCHANGED treeVars
    BY <1>3 DEF vars
  <2>2. CASE part = "join"
    <3>1. WorkInv'
      BY <1>0, <2>1, <2>2, WorkInvStep
    <3>2. /\ TreeInv' /\ JoinTypeOK' /\ Parties' /\ PredecessorsDone'
          /\ RecordsAgree' /\ Begun' /\ \A x \in execs' : ExecSound(x)'
      BY <3>1, PartsNext
    <3> QED BY <2>1, <3>2 DEF BothInv, JoinInv
  <2>3. CASE part # "join"
    <3>1. TreeInv' /\ JoinTypeOK' /\ Parties' /\ PredecessorsDone'
      BY <1>0, <2>1, TreeAlone, TreeInvStep DEF vars
    <3> QED BY <2>1, <2>3, <3>1 DEF BothInv, JoinInv
  <2> QED BY <2>1, <2>2, <2>3
<1> QED BY <1>1, <1>2, <1>3 DEF BothNext

\* It holds at the start.
LEMMA BothInitInv == BothInit => BothInv
BY WorkInvInit, WorkInvParts DEF BothInit, BothInv, JoinInv

\* _execute_claimed, the joins and the host use the tree as its repository
\* promises: the scheduler implements RunTree, so every theorem about RunTree
\* holds of it.
THEOREM JoinImplementsTree == JoinSpec => TreeSpec
<1>1. JoinInit => TreeInit
  BY DEF JoinInit
<1>2. WorkInv /\ [JoinNext]_vars => [TreeNext]_treeVars
  BY WorkInvParts, JoinUsesTree
<1>3. JoinSpec => []WorkInv
  BY WorkInvInit, WorkInvStep, PTL DEF JoinSpec
<1> QED BY <1>1, <1>2, <1>3, PTL DEF JoinSpec, TreeSpec

\* The same of both uses together.
THEOREM BothImplementTree == BothSpec => TreeSpec
<1>1. BothInit => TreeInit
  BY DEF BothInit, JoinInit
<1>2. BothSpec => []BothInv
  BY BothInitInv, BothStep, PTL DEF BothSpec
<1>3. BothInv /\ [BothNext]_<<vars, part>> => [TreeNext]_treeVars
  BY BothStep
<1> QED BY <1>1, <1>2, <1>3, PTL DEF BothSpec, TreeSpec

\* No execution works before its predecessors succeeded, and the tree and the
\* canonical record of a child never contradict each other, across every order
\* of settlement, lease loss, cancellation, crash and resumption.
THEOREM JoinInvariant == BothSpec => []JoinInv
<1>1. BothInv => JoinInv
  BY DEF BothInv
<1> QED BY <1>1, BothInitInv, BothStep, PTL DEF BothSpec
=============================================================================
