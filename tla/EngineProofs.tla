----------------------------- MODULE EngineProofs -----------------------------
(***************************************************************************)
(* Proofs about Engine: EngineInv holds of every execution, and the        *)
(* outcome of a Run never changes once it is settled.                      *)
(*                                                                         *)
(* EngCore is inductive.  What a Run promises (its tree is bound and       *)
(* settled with it, a delivery is handed over once, the journal has every  *)
(* report that was given) holds because of where the engine stands when it *)
(* acts, so EngCore says for each phase what the Run, the children, the    *)
(* deliveries, the rounds and the reports can be in it.  There is one      *)
(* lemma per action, with one step per part of EngCore.                    *)
(***************************************************************************)
EXTENDS Engine, SequenceTheorems, TLAPS

\* A record that the Run can be.
IsRun(r) ==
    /\ r = [status |-> r.status, error |-> r.error, shown |-> r.shown]
    /\ r.status \in RunEnds \cup {"none", "running"}
    /\ r.shown \in {"none", "completed", "failed"}

\* The inductive invariant.
EngCore ==
    /\ EngTypeOK /\ TreeFollowsRun /\ DeliveredOnce /\ job.told \subseteq journal
    /\ RunInPhase /\ KidsInPhase /\ DeliveriesInPhase /\ BudgetFits /\ ReportsInPhase

\* What the controller makes of a Run is a Run.
LEMMA Endings ==
    ASSUME EngTypeOK
    PROVE  /\ IsRun(run)
           /\ \A code : /\ IsRun(FailRun(code)) /\ IsRun(CancelRun(code))
                        /\ IsRun(RunSettled(code)) /\ IsRun(StageFailure(code))
           /\ \A shown \in {"none", "completed", "failed"} : IsRun(CompleteRun(shown))
<1>1. PICK s, e, h : run = [status |-> s, error |-> e, shown |-> h]
  BY DEF EngTypeOK
<1>2. IsRun(run) /\ s \in RunEnds \cup {"none", "running"} /\ h \in {"none", "completed", "failed"}
  BY <1>1 DEF EngTypeOK, IsRun
<1>3. ASSUME NEW code PROVE IsRun(FailRun(code)) /\ IsRun(CancelRun(code))
  BY <1>1, <1>2 DEF FailRun, CancelRun, IsRun, RunEnds
<1>4. ASSUME NEW code PROVE IsRun(RunSettled(code)) /\ IsRun(StageFailure(code))
  BY <1>3 DEF RunSettled, StageFailure
<1>5. ASSUME NEW shown \in {"none", "completed", "failed"} PROVE IsRun(CompleteRun(shown))
  BY <1>1, <1>2 DEF CompleteRun, IsRun, RunEnds
<1> QED BY <1>2, <1>3, <1>4, <1>5

\* What a round, a promotion and a resumption make of the counters.
LEMMA RoundShape ==
    ASSUME EngTypeOK
    PROVE  /\ \A answer \in BOOLEAN, more \in {0, 1} :
                 rounds.more + more <= ExtraRounds =>
                     /\ Extended(answer, more) \in RoundCounts
                     /\ Extended(answer, more).all = rounds.all + 1
                     /\ Extended(answer, more).here = rounds.here + 1
                     /\ Extended(answer, more).limit = rounds.limit + more + (IF answer THEN 1 ELSE 0)
                     /\ Extended(answer, more).last = rounds.last
                     /\ Extended(answer, more).more = rounds.more + more
                     /\ Extended(answer, more).final <=> rounds.final \/ answer
           /\ \A m \in Nat : /\ FreshRounds(rounds.all, m) \in RoundCounts
                             /\ [rounds EXCEPT !.limit = m, !.last = RangeOf(m)] \in RoundCounts
<1>1. PICK x, y, m, z, e, f : rounds = [all |-> x, here |-> y, limit |-> m, last |-> z, more |-> e, final |-> f]
  BY DEF EngTypeOK, RoundCounts
<1>2. /\ x \in Nat /\ y \in Nat /\ m \in Nat /\ z \in Nat /\ e \in 0..ExtraRounds /\ f \in BOOLEAN
      /\ ExtraRounds \in Nat
  BY <1>1, EngineAssumption DEF EngTypeOK, RoundCounts, EngineAssumption
<1>3. /\ rounds.all = x /\ rounds.here = y /\ rounds.limit = m /\ rounds.last = z /\ rounds.more = e
      /\ rounds.final = f
  BY <1>1
<1>4. ASSUME NEW answer \in BOOLEAN, NEW more \in {0, 1}, e + more <= ExtraRounds
      PROVE  /\ Extended(answer, more) \in RoundCounts
             /\ Extended(answer, more).all = x + 1
             /\ Extended(answer, more).here = y + 1
             /\ Extended(answer, more).limit = m + more + (IF answer THEN 1 ELSE 0)
             /\ Extended(answer, more).last = z
             /\ Extended(answer, more).more = e + more
             /\ Extended(answer, more).final <=> f \/ answer
  <2>1. Extended(answer, more) =
           [all |-> x + 1, here |-> y + 1, limit |-> m + more + (IF answer THEN 1 ELSE 0),
            last |-> z, more |-> e + more, final |-> f \/ answer]
    BY <1>3 DEF Extended
  <2>2. PICK g \in BOOLEAN : g <=> f \/ answer
    BY <1>2
  <2>3. PICK n \in Nat : n = m + more + (IF answer THEN 1 ELSE 0)
    BY <1>2
  <2>4. Extended(answer, more) =
           [all |-> x + 1, here |-> y + 1, limit |-> n, last |-> z, more |-> e + more, final |-> g]
    BY <2>1, <2>2, <2>3
  <2>5. x + 1 \in Nat /\ y + 1 \in Nat /\ e + more \in 0..ExtraRounds
    BY <1>2, <1>4
  <2> QED BY <1>2, <2>2, <2>3, <2>4, <2>5 DEF RoundCounts
<1>5. ASSUME NEW b \in Nat
      PROVE  /\ FreshRounds(x, b) \in RoundCounts
             /\ [rounds EXCEPT !.limit = b, !.last = RangeOf(b)] \in RoundCounts
  <2>1. RangeOf(b) \in Nat /\ 0 \in 0..ExtraRounds
    BY <1>2 DEF RangeOf
  <2>2. ASSUME NEW r \in RoundCounts, NEW c \in Nat
        PROVE  [r EXCEPT !.limit = b, !.last = c] \in RoundCounts
    BY DEF RoundCounts
  <2>3. [rounds EXCEPT !.limit = b, !.last = RangeOf(b)] \in RoundCounts
    BY <2>1, <2>2 DEF EngTypeOK
  <2> QED BY <1>2, <2>1, <2>3 DEF RoundCounts, FreshRounds
<1> QED BY <1>3, <1>4, <1>5

\* The long task's record has the fields of its type.
LEMMA JobShape ==
    ASSUME job \in JobRecords
    PROVE  /\ job.at \in {"none", "running", "raised", "withdrawn"} \cup JobEnds
           /\ job.left \in Nat /\ job.waits \in [WorkUnits -> {"idle", "waiting", "told", "refused"}]
           /\ job.applied \in Nat /\ job.told \subseteq Nat
           /\ job = [at |-> job.at, left |-> job.left, waits |-> job.waits, applied |-> job.applied,
                     told |-> job.told]
BY DEF JobRecords

\* Changes of single fields of the long task's record keep its type.
LEMMA JobChanges ==
    ASSUME job \in JobRecords, NEW w \in [WorkUnits -> {"idle", "waiting", "told", "refused"}],
           NEW n \in Nat, NEW t \in SUBSET Nat
    PROVE  /\ [job EXCEPT !.waits = w, !.left = n] \in JobRecords
           /\ [job EXCEPT !.applied = n] \in JobRecords
           /\ [job EXCEPT !.waits = w] \in JobRecords
           /\ [job EXCEPT !.waits = w, !.applied = 0, !.told = t] \in JobRecords
           /\ [job EXCEPT !.at = "withdrawn", !.waits = w, !.applied = 0] \in JobRecords
<1>1. PICK r \in JobRecords : r = job
  OBVIOUS
<1>2. [r EXCEPT !.waits = w, !.left = n] \in JobRecords
  BY DEF JobRecords
<1>3. [r EXCEPT !.applied = n] \in JobRecords
  BY DEF JobRecords
<1>4. [r EXCEPT !.waits = w] \in JobRecords
  BY DEF JobRecords
<1>5. [r EXCEPT !.waits = w, !.applied = 0, !.told = t] \in JobRecords
  BY DEF JobRecords
<1>6. [r EXCEPT !.at = "withdrawn", !.waits = w, !.applied = 0] \in JobRecords
  BY DEF JobRecords
<1> QED BY <1>1, <1>2, <1>3, <1>4, <1>5, <1>6

\* What the executor leaves when the process dies.
LEMMA JobLost ==
    ASSUME job \in JobRecords, LoseProcess
    PROVE  /\ job' \in JobRecords /\ job'.at = "none" /\ job'.left = job.left /\ job'.told = job.told
           /\ job'.applied = 0 /\ \A u \in WorkUnits : job'.waits[u] = "idle"
<1>1. PICK n \in Nat, t \in SUBSET Nat : n = job.left /\ t = job.told
  BY JobShape
<1>2. PICK r : r = NoJob
  OBVIOUS
<1>3. r \in JobRecords /\ r.at = "none" /\ r.applied = 0 /\ \A u \in WorkUnits : r.waits[u] = "idle"
  BY <1>2, EngineAssumption DEF NoJob, JobRecords, EngineAssumption
<1>4. job' = [r EXCEPT !.left = n, !.told = t]
  BY <1>1, <1>2 DEF LoseProcess
<1> QED BY <1>1, <1>3, <1>4 DEF JobRecords

\* The head of the observers' queue.
LEMMA QueueHead ==
    ASSUME EngTypeOK, queue # <<>>
    PROVE  /\ Head(queue) \in Updates /\ Head(queue).unit \in WorkUnits /\ Head(queue).id \in Nat
           /\ Tail(queue) \in Seq(Updates) /\ Len(queue) \in Nat /\ Len(Tail(queue)) = Len(queue) - 1
<1>1. queue \in Seq(Updates)
  BY DEF EngTypeOK
<1>2. /\ Head(queue) \in Updates /\ Tail(queue) \in Seq(Updates) /\ Len(queue) \in Nat
      /\ Len(Tail(queue)) = Len(queue) - 1
  BY <1>1, HeadTailProperties
<1> QED BY <1>2 DEF Updates

\* Submit keeps the invariant.
LEMMA SubmitStep ==
    ASSUME EngCore, Submit
    PROVE  EngCore'
<1> USE DEF mainVars, loopVars, treeVars, jobVars, hostVars
<1>1. EngTypeOK'
  <2>1. IsRun(run')
    BY Endings DEF EngCore, Submit
  <2> QED BY <2>1 DEF EngCore, Submit, EngTypeOK, IsRun, Body
<1>2. TreeFollowsRun' /\ RunInPhase'
  BY DEF EngCore, Submit, TreeFollowsRun, RunInPhase, EngTypeOK, Body, RunEnds, Terminal, Active,
     KidsInPhase, OwnQuiescent, Before, After
<1>3. KidsInPhase'
  BY DEF EngCore, Submit, KidsInPhase, RunInPhase, Before, After, Executing, OwnJoined, OwnQuiescent,
     Active, EngTypeOK, Body, RunEnds, Terminal
<1>4. DeliveriesInPhase' /\ DeliveredOnce'
  BY DEF EngCore, Submit, DeliveriesInPhase, DeliveredOnce, KidsInPhase, Before, After, Executing,
     Unreconciled, JoinOver, KidSettled, EngTypeOK, Body
<1>5. BudgetFits'
  BY EngineAssumption DEF EngCore, Submit, BudgetFits, RoundsFit, EngTypeOK, EngineAssumption
<1>6. ReportsInPhase' /\ job'.told \subseteq journal'
  BY DEF EngCore, Submit, ReportsInPhase, EngTypeOK, JobRecords, Waiting
<1> QED BY <1>1, <1>2, <1>3, <1>4, <1>5, <1>6 DEF EngCore

\* _start_or_attach_run: the Run is created, or the persisted one is attached
\* with the checkpoint that resume() selected.
LEMMA StartOrAttachStep ==
    ASSUME EngCore, StartOrAttach
    PROVE  EngCore'
<1> USE DEF mainVars, loopVars, treeVars, jobVars, hostVars
<1>1. EngTypeOK'
  <2>1. PICK s, e, h : run = [status |-> s, error |-> e, shown |-> h]
    BY DEF EngCore, EngTypeOK
  <2>2. IsRun(run')
    BY <2>1 DEF EngCore, EngTypeOK, IsRun, StartOrAttach
  <2> QED BY <2>2 DEF EngCore, StartOrAttach, EngTypeOK, IsRun, Body
<1>2. TreeFollowsRun' /\ RunInPhase'
  BY DEF EngCore, StartOrAttach, TreeFollowsRun, RunInPhase, EngTypeOK, Body, RunEnds, Terminal, Active,
     KidsInPhase, OwnQuiescent, Before, After
<1>3. KidsInPhase'
  BY DEF EngCore, StartOrAttach, KidsInPhase, RunInPhase, Before, After, Executing, OwnJoined, OwnQuiescent,
     Active, EngTypeOK, Body, RunEnds, Terminal
<1>4. DeliveriesInPhase' /\ DeliveredOnce'
  BY DEF EngCore, StartOrAttach, DeliveriesInPhase, DeliveredOnce, KidsInPhase, Before, After, Executing,
     Unreconciled, JoinOver, KidSettled, EngTypeOK, Body
<1>5. BudgetFits'
  BY EngineAssumption DEF EngCore, StartOrAttach, BudgetFits, RoundsFit, EngTypeOK, EngineAssumption
<1>6. ReportsInPhase' /\ job'.told \subseteq journal'
  BY DEF EngCore, StartOrAttach, ReportsInPhase, EngTypeOK, JobRecords, Waiting
<1> QED BY <1>1, <1>2, <1>3, <1>4, <1>5, <1>6 DEF EngCore

\* _bind_agent_tree_run: a new Root row, or the row a checkpoint belongs to.
LEMMA BindTreeStep ==
    ASSUME EngCore, BindTree
    PROVE  EngCore'
<1> USE DEF mainVars, loopVars, treeVars, jobVars, hostVars
<1>1. EngTypeOK'
  BY DEF EngCore, BindTree, EngTypeOK, Body
<1>2. TreeFollowsRun' /\ RunInPhase'
  BY DEF EngCore, BindTree, TreeFollowsRun, RunInPhase, EngTypeOK, Body, RunEnds, Terminal, Active,
     KidsInPhase, OwnQuiescent, Before, After
<1>3. KidsInPhase'
  BY DEF EngCore, BindTree, KidsInPhase, RunInPhase, Before, After, Executing, OwnJoined, OwnQuiescent,
     Active, EngTypeOK, Body, RunEnds, Terminal
<1>4. DeliveriesInPhase' /\ DeliveredOnce'
  BY DEF EngCore, BindTree, DeliveriesInPhase, DeliveredOnce, KidsInPhase, Before, After, Executing,
     Unreconciled, JoinOver, KidSettled, EngTypeOK, Body
<1>5. BudgetFits'
  BY EngineAssumption DEF EngCore, BindTree, BudgetFits, RoundsFit, EngTypeOK, EngineAssumption
<1>6. ReportsInPhase' /\ job'.told \subseteq journal'
  BY DEF EngCore, BindTree, ReportsInPhase, EngTypeOK, JobRecords, Waiting
<1> QED BY <1>1, <1>2, <1>3, <1>4, <1>5, <1>6 DEF EngCore

\* Route keeps the invariant.
LEMMA RouteStep ==
    ASSUME EngCore, Route
    PROVE  EngCore'
<1> USE DEF mainVars, loopVars, treeVars, jobVars, hostVars
<1>1. EngTypeOK'
  <2>1. IsRun(run')
    BY Endings DEF EngCore, Route, RouteOf
  <2> QED BY <2>1 DEF EngCore, Route, EngTypeOK, IsRun, Body, RouteOf
<1>2. TreeFollowsRun' /\ RunInPhase'
  BY DEF EngCore, Route, TreeFollowsRun, RunInPhase, EngTypeOK, Body, RunEnds, Terminal, Active,
     KidsInPhase, OwnQuiescent, Before, After, RouteOf, FailRun, CancelRun, CompleteRun, RunSettled,
     StageFailure
<1>3. KidsInPhase'
  BY DEF EngCore, Route, KidsInPhase, RunInPhase, Before, After, Executing, OwnJoined, OwnQuiescent, Active,
     EngTypeOK, Body, RunEnds, Terminal, RouteOf, FailRun, CancelRun, CompleteRun, RunSettled, StageFailure
<1>4. DeliveriesInPhase' /\ DeliveredOnce'
  BY DEF EngCore, Route, DeliveriesInPhase, DeliveredOnce, KidsInPhase, Before, After, Executing,
     Unreconciled, JoinOver, KidSettled, EngTypeOK, Body, RouteOf
<1>5. BudgetFits'
  BY EngineAssumption DEF EngCore, Route, BudgetFits, RoundsFit, EngTypeOK, EngineAssumption, RouteOf
<1>6. ReportsInPhase' /\ job'.told \subseteq journal'
  BY DEF EngCore, Route, ReportsInPhase, EngTypeOK, JobRecords, Waiting, RouteOf
<1> QED BY <1>1, <1>2, <1>3, <1>4, <1>5, <1>6 DEF EngCore

\* compact_before_planning, the context claims and build_initial or
\* build_reactive: compaction fails open, everything else ends the Run.
LEMMA ReserveStep ==
    ASSUME EngCore, Reserve
    PROVE  EngCore'
<1> USE DEF mainVars, loopVars, treeVars, jobVars, hostVars
<1>1. EngTypeOK'
  <2>1. IsRun(run')
    BY Endings DEF EngCore, Reserve
  <2> QED BY <2>1 DEF EngCore, Reserve, EngTypeOK, IsRun, Body
<1>2. TreeFollowsRun' /\ RunInPhase'
  BY DEF EngCore, Reserve, TreeFollowsRun, RunInPhase, EngTypeOK, Body, RunEnds, Terminal, Active,
     KidsInPhase, OwnQuiescent, Before, After, FailRun, CancelRun, CompleteRun, RunSettled, StageFailure
<1>3. KidsInPhase'
  BY DEF EngCore, Reserve, KidsInPhase, RunInPhase, Before, After, Executing, OwnJoined, OwnQuiescent,
     Active, EngTypeOK, Body, RunEnds, Terminal, FailRun, CancelRun, CompleteRun, RunSettled, StageFailure
<1>4. DeliveriesInPhase' /\ DeliveredOnce'
  BY DEF EngCore, Reserve, DeliveriesInPhase, DeliveredOnce, KidsInPhase, Before, After, Executing,
     Unreconciled, JoinOver, KidSettled, EngTypeOK, Body
<1>5. BudgetFits'
  BY EngineAssumption DEF EngCore, Reserve, BudgetFits, RoundsFit, EngTypeOK, EngineAssumption
<1>6. ReportsInPhase' /\ job'.told \subseteq journal'
  BY DEF EngCore, Reserve, ReportsInPhase, EngTypeOK, JobRecords, Waiting
<1> QED BY <1>1, <1>2, <1>3, <1>4, <1>5, <1>6 DEF EngCore

\* Plan keeps the invariant.
LEMMA PlanStep ==
    ASSUME EngCore, Plan
    PROVE  EngCore'
<1> USE DEF mainVars, loopVars, treeVars, jobVars, hostVars
<1>1. EngTypeOK'
  <2>1. IsRun(run')
    BY Endings DEF EngCore, Plan, Planless
  <2> QED BY <2>1 DEF EngCore, Plan, EngTypeOK, IsRun, Body, Planless
<1>2. TreeFollowsRun' /\ RunInPhase'
  BY DEF EngCore, Plan, TreeFollowsRun, RunInPhase, EngTypeOK, Body, RunEnds, Terminal, Active, KidsInPhase,
     OwnQuiescent, Before, After, Planless, FailRun, CancelRun, CompleteRun, RunSettled, StageFailure
<1>3. KidsInPhase'
  BY DEF EngCore, Plan, KidsInPhase, RunInPhase, Before, After, Executing, OwnJoined, OwnQuiescent, Active,
     EngTypeOK, Body, RunEnds, Terminal, Planless, FailRun, CancelRun, CompleteRun, RunSettled, StageFailure
<1>4. DeliveriesInPhase' /\ DeliveredOnce'
  BY DEF EngCore, Plan, DeliveriesInPhase, DeliveredOnce, KidsInPhase, Before, After, Executing,
     Unreconciled, JoinOver, KidSettled, EngTypeOK, Body, Planless
<1>5. BudgetFits'
  BY EngineAssumption DEF EngCore, Plan, BudgetFits, RoundsFit, EngTypeOK, EngineAssumption, Planless
<1>6. ReportsInPhase' /\ job'.told \subseteq journal'
  BY DEF EngCore, Plan, ReportsInPhase, EngTypeOK, JobRecords, Waiting, Planless
<1> QED BY <1>1, <1>2, <1>3, <1>4, <1>5, <1>6 DEF EngCore

\* _prepare_runtime_phase: claims of the task, the staged context, compaction
\* after planning (fails open), and the check against the provider budget.
\* A Run promoted for its remaining work skips it and keeps its context.
LEMMA PrepareStep ==
    ASSUME EngCore, Prepare
    PROVE  EngCore'
<1> USE DEF mainVars, loopVars, treeVars, jobVars, hostVars
<1>1. EngTypeOK'
  <2>1. IsRun(run')
    BY Endings DEF EngCore, Prepare
  <2> QED BY <2>1 DEF EngCore, Prepare, EngTypeOK, IsRun, Body
<1>2. TreeFollowsRun' /\ RunInPhase'
  BY DEF EngCore, Prepare, TreeFollowsRun, RunInPhase, EngTypeOK, Body, RunEnds, Terminal, Active,
     KidsInPhase, OwnQuiescent, Before, After, FailRun, CancelRun, CompleteRun, RunSettled, StageFailure
<1>3. KidsInPhase'
  BY DEF EngCore, Prepare, KidsInPhase, RunInPhase, Before, After, Executing, OwnJoined, OwnQuiescent,
     Active, EngTypeOK, Body, RunEnds, Terminal, FailRun, CancelRun, CompleteRun, RunSettled, StageFailure
<1>4. DeliveriesInPhase' /\ DeliveredOnce'
  BY DEF EngCore, Prepare, DeliveriesInPhase, DeliveredOnce, KidsInPhase, Before, After, Executing,
     Unreconciled, JoinOver, KidSettled, EngTypeOK, Body
<1>5. BudgetFits'
  BY EngineAssumption DEF EngCore, Prepare, BudgetFits, RoundsFit, EngTypeOK, EngineAssumption
<1>6. ReportsInPhase' /\ job'.told \subseteq journal'
  BY DEF EngCore, Prepare, ReportsInPhase, EngTypeOK, JobRecords, Waiting
<1> QED BY <1>1, <1>2, <1>3, <1>4, <1>5, <1>6 DEF EngCore

\* One round of AgentRuntime.run inside _drive_runtime.
LEMMA RoundStep ==
    ASSUME EngCore, Round
    PROVE  EngCore'
<1> USE DEF mainVars, loopVars, treeVars, jobVars, hostVars
<1>1. EngTypeOK'
  <2>1. rounds' \in RoundCounts
    BY RoundShape DEF EngCore, Round
  <2> QED BY <2>1 DEF EngCore, Round, EngTypeOK
<1>2. TreeFollowsRun' /\ RunInPhase'
  BY DEF EngCore, Round, TreeFollowsRun, RunInPhase, EngTypeOK, Body, RunEnds, Terminal, Active,
     KidsInPhase, OwnQuiescent, Before, After, RoundsLeft
<1>3. KidsInPhase'
  BY DEF EngCore, Round, KidsInPhase, RunInPhase, Before, After, Executing, OwnJoined, OwnQuiescent, Active,
     EngTypeOK, Body, RunEnds, Terminal, RoundsLeft
<1>4. DeliveriesInPhase' /\ DeliveredOnce'
  BY DEF EngCore, Round, DeliveriesInPhase, DeliveredOnce, KidsInPhase, Before, After, Executing,
     Unreconciled, JoinOver, KidSettled, EngTypeOK, Body, RoundsLeft
<1>5. BudgetFits'
  <2>1. PICK answer \in BOOLEAN, more \in {0, 1} :
           /\ answer => rounds.here + 1 >= rounds.limit
           /\ rounds.more + more <= ExtraRounds
           /\ rounds' = Extended(answer, more)
    BY DEF Round
  <2>2. /\ rounds'.all = rounds.all + 1 /\ rounds'.here = rounds.here + 1
        /\ rounds'.limit = rounds.limit + more + (IF answer THEN 1 ELSE 0)
        /\ rounds'.last = rounds.last /\ rounds'.more = rounds.more + more
        /\ rounds'.final <=> rounds.final \/ answer
    BY <2>1, RoundShape DEF EngCore
  <2>3. /\ rounds.all \in Nat /\ rounds.here \in Nat /\ rounds.limit \in Nat /\ rounds.last \in Nat
        /\ rounds.more \in Nat /\ MaxRounds \in Nat /\ ExtraRounds \in Nat
        /\ rounds.here < rounds.limit /\ rounds.here < rounds.last
    BY EngineAssumption DEF EngCore, EngTypeOK, RoundCounts, EngineAssumption, Round, RoundsLeft
  <2>4. RoundsFit(rounds, rounds.here, promoted) /\ rounds.last <= RangeOf(MaxRounds)
    BY DEF EngCore, BudgetFits
  <2>5. RoundsFit(rounds', rounds'.here, promoted)
    BY <2>2, <2>3, <2>4 DEF RoundsFit, RangeOf
  <2> QED BY <2>2, <2>3, <2>4, <2>5 DEF EngCore, BudgetFits, Round
<1>6. ReportsInPhase' /\ job'.told \subseteq journal'
  BY DEF EngCore, Round, ReportsInPhase, EngTypeOK, JobRecords, Waiting, RoundsLeft
<1> QED BY <1>1, <1>2, <1>3, <1>4, <1>5, <1>6 DEF EngCore

\* save_checkpoint: after a round's tools, with the profile the Run has now.
LEMMA SaveCheckpointStep ==
    ASSUME EngCore, SaveCheckpoint
    PROVE  EngCore'
<1> USE DEF mainVars, loopVars, treeVars, jobVars, hostVars
<1>1. EngTypeOK'
  BY EngineAssumption DEF EngCore, SaveCheckpoint, EngTypeOK, EngineAssumption, RoundCounts, Checkpoints
<1>2. TreeFollowsRun' /\ RunInPhase'
  BY DEF EngCore, SaveCheckpoint, TreeFollowsRun, RunInPhase, EngTypeOK, Body, RunEnds, Terminal, Active,
     KidsInPhase, OwnQuiescent, Before, After
<1>3. KidsInPhase'
  BY DEF EngCore, SaveCheckpoint, KidsInPhase, RunInPhase, Before, After, Executing, OwnJoined,
     OwnQuiescent, Active, EngTypeOK, Body, RunEnds, Terminal
<1>4. DeliveriesInPhase' /\ DeliveredOnce'
  BY DEF EngCore, SaveCheckpoint, DeliveriesInPhase, DeliveredOnce, KidsInPhase, Before, After, Executing,
     Unreconciled, JoinOver, KidSettled, EngTypeOK, Body
<1>5. BudgetFits'
  <2>1. /\ rounds' = rounds /\ cf' = cf /\ promoted' = promoted
        /\ checkpoint'.all = rounds.all /\ checkpoint'.next = rounds.here + 1
        /\ checkpoint'.limit = rounds.limit /\ checkpoint'.more = rounds.more
        /\ checkpoint'.final = rounds.final /\ checkpoint'.promoted = promoted /\ rounds.here > 0
    BY DEF SaveCheckpoint
  <2>2. rounds.here \in Nat /\ rounds.limit \in Nat
    BY DEF EngCore, EngTypeOK, RoundCounts
  <2>3. RoundsFit(rounds, rounds.here, promoted) /\ rounds.limit >= 1
    BY <2>1, <2>2 DEF EngCore, BudgetFits, RoundsFit
  <2>4. checkpoint'.next - 1 = rounds.here
    BY <2>1, <2>2
  <2>5. RoundsFit(checkpoint', checkpoint'.next - 1, checkpoint'.promoted)
    BY <2>1, <2>3, <2>4 DEF RoundsFit
  <2> QED BY <2>1, <2>3, <2>5 DEF EngCore, BudgetFits
<1>6. ReportsInPhase' /\ job'.told \subseteq journal'
  BY DEF EngCore, SaveCheckpoint, ReportsInPhase, EngTypeOK, JobRecords, Waiting
<1> QED BY <1>1, <1>2, <1>3, <1>4, <1>5, <1>6 DEF EngCore

\* Drive keeps the invariant.
LEMMA DriveStep ==
    ASSUME EngCore, Drive
    PROVE  EngCore'
<1> USE DEF mainVars, loopVars, treeVars, jobVars, hostVars
<1>1. EngTypeOK'
  BY DEF EngCore, Drive, EngTypeOK, Body
<1>2. TreeFollowsRun' /\ RunInPhase'
  BY DEF EngCore, Drive, TreeFollowsRun, RunInPhase, EngTypeOK, Body, RunEnds, Terminal, Active,
     KidsInPhase, OwnQuiescent, Before, After
<1>3. KidsInPhase'
  BY DEF EngCore, Drive, KidsInPhase, RunInPhase, Before, After, Executing, OwnJoined, OwnQuiescent, Active,
     EngTypeOK, Body, RunEnds, Terminal
<1>4. DeliveriesInPhase' /\ DeliveredOnce'
  BY DEF EngCore, Drive, DeliveriesInPhase, DeliveredOnce, KidsInPhase, Before, After, Executing,
     Unreconciled, JoinOver, KidSettled, EngTypeOK, Body
<1>5. BudgetFits'
  BY EngineAssumption DEF EngCore, Drive, BudgetFits, RoundsFit, EngTypeOK, EngineAssumption
<1>6. ReportsInPhase' /\ job'.told \subseteq journal'
  BY DEF EngCore, Drive, ReportsInPhase, EngTypeOK, JobRecords, Waiting
<1> QED BY <1>1, <1>2, <1>3, <1>4, <1>5, <1>6 DEF EngCore

\* UserInputRequired or ApprovalRequired: the Run stays open for a resume.
LEMMA SuspendStep ==
    ASSUME EngCore, Suspend
    PROVE  EngCore'
<1> USE DEF mainVars, loopVars, treeVars, jobVars, hostVars
<1>1. EngTypeOK'
  <2>1. IsRun(run')
    BY Endings DEF EngCore, Suspend
  <2> QED BY <2>1 DEF EngCore, Suspend, EngTypeOK, IsRun, Body
<1>2. TreeFollowsRun' /\ RunInPhase'
  BY DEF EngCore, Suspend, TreeFollowsRun, RunInPhase, EngTypeOK, Body, RunEnds, Terminal, Active,
     KidsInPhase, OwnQuiescent, Before, After
<1>3. KidsInPhase'
  BY DEF EngCore, Suspend, KidsInPhase, RunInPhase, Before, After, Executing, OwnJoined, OwnQuiescent,
     Active, EngTypeOK, Body, RunEnds, Terminal
<1>4. DeliveriesInPhase' /\ DeliveredOnce'
  BY DEF EngCore, Suspend, DeliveriesInPhase, DeliveredOnce, KidsInPhase, Before, After, Executing,
     Unreconciled, JoinOver, KidSettled, EngTypeOK, Body
<1>5. BudgetFits'
  BY EngineAssumption DEF EngCore, Suspend, BudgetFits, RoundsFit, EngTypeOK, EngineAssumption
<1>6. ReportsInPhase' /\ job'.told \subseteq journal'
  BY DEF EngCore, Suspend, ReportsInPhase, EngTypeOK, JobRecords, Waiting
<1> QED BY <1>1, <1>2, <1>3, <1>4, <1>5, <1>6 DEF EngCore

\* _promote_auto_run: an AutoPlanningRequest, before the requested tools ran or
\* for the work that remains, starts planning with the rounds that are left.
LEMMA PromoteStep ==
    ASSUME EngCore, NEW phase \in {"initial", "remaining"}, Promote(phase)
    PROVE  EngCore'
<1> USE DEF mainVars, loopVars, treeVars, jobVars, hostVars
<1>1. EngTypeOK'
  <2>1. RemainingRounds \in Nat /\ ResumedLimit \in Nat
    BY EngineAssumption
       DEF Promote, RemainingRounds, ResumedLimit, EngCore, EngTypeOK, RoundCounts, EngineAssumption
  <2>2. rounds' \in RoundCounts
    BY <2>1, RoundShape DEF Promote, PromotedRounds, EngCore
  <2> QED BY <2>2 DEF EngCore, Promote, EngTypeOK, Promotions, Body
<1>2. TreeFollowsRun' /\ RunInPhase'
  BY DEF EngCore, Promote, TreeFollowsRun, RunInPhase, EngTypeOK, Body, RunEnds, Terminal, Active,
     KidsInPhase, OwnQuiescent, Before, After, PromotedRounds, RemainingRounds
<1>3. KidsInPhase'
  BY DEF EngCore, Promote, KidsInPhase, RunInPhase, Before, After, Executing, OwnJoined, OwnQuiescent,
     Active, EngTypeOK, Body, RunEnds, Terminal, PromotedRounds, RemainingRounds
<1>4. DeliveriesInPhase' /\ DeliveredOnce'
  BY DEF EngCore, Promote, DeliveriesInPhase, DeliveredOnce, KidsInPhase, Before, After, Executing,
     Unreconciled, JoinOver, KidSettled, EngTypeOK, Body, PromotedRounds, RemainingRounds
<1>5. BudgetFits'
  <2>1. /\ rounds \in RoundCounts /\ MaxRounds \in Nat \ {0} /\ ExtraRounds \in Nat
        /\ RemainingRounds >= 1 /\ rounds.here > 0 /\ promoted = "no"
    BY EngineAssumption DEF EngCore, EngTypeOK, EngineAssumption, Promote, MayPromote
  <2>2. RoundsFit(rounds, rounds.here, "no") /\ rounds.all = rounds.here
    BY <2>1 DEF EngCore, BudgetFits, RoundsFit
  <2>3. CASE phase = "initial"
    <3>1. /\ rounds'.all = rounds.all /\ rounds'.here = 0 /\ rounds'.limit = RemainingRounds
          /\ rounds'.last = RemainingRounds + ExtraRounds + 1 /\ rounds'.more = 0 /\ ~rounds'.final
      BY <2>3 DEF Promote, PromotedRounds, FreshRounds, RangeOf
    <3>2. RoundsFit(rounds', rounds'.here, "initial")
      BY <2>1, <2>2, <3>1 DEF RoundsFit, RemainingRounds, RoundCounts, RangeOf
    <3> QED BY <2>1, <2>2, <2>3, <3>1, <3>2
            DEF EngCore, BudgetFits, Promote, RemainingRounds, RoundCounts, RangeOf
  <2>4. CASE phase = "remaining"
    <3>1. /\ rounds'.all = rounds.all /\ rounds'.here = rounds.here /\ rounds'.limit = ResumedLimit
          /\ rounds'.last = ResumedLimit + ExtraRounds + 1 /\ rounds'.more = rounds.more
          /\ rounds'.final = rounds.final
      BY <2>1, <2>4 DEF Promote, PromotedRounds, RoundCounts, RangeOf
    <3>2. ResumedLimit \in Nat /\ rounds.here < ResumedLimit /\ ResumedLimit <= MaxRounds
      BY <2>1 DEF ResumedLimit, RemainingRounds, RoundCounts
    <3>3. RoundsFit(rounds', rounds'.here, "remaining")
      BY <2>1, <2>2, <3>1, <3>2 DEF RoundsFit, RoundCounts, RangeOf
    <3> QED BY <2>1, <2>2, <2>4, <3>1, <3>2, <3>3 DEF EngCore, BudgetFits, Promote, RoundCounts, RangeOf
  <2> QED BY <2>3, <2>4
<1>6. ReportsInPhase' /\ job'.told \subseteq journal'
  BY DEF EngCore, Promote, ReportsInPhase, EngTypeOK, JobRecords, Waiting, PromotedRounds, RemainingRounds
<1> QED BY <1>1, <1>2, <1>3, <1>4, <1>5, <1>6 DEF EngCore

\* No round is left to plan with, or the promoted loop asks for a plan again.
LEMMA PromoteRefusedStep ==
    ASSUME EngCore, PromoteRefused
    PROVE  EngCore'
<1> USE DEF mainVars, loopVars, treeVars, jobVars, hostVars
<1>1. EngTypeOK'
  <2>1. IsRun(run')
    BY Endings DEF EngCore, PromoteRefused
  <2> QED BY <2>1 DEF EngCore, PromoteRefused, EngTypeOK, IsRun, Body, AfterEnd
<1>2. TreeFollowsRun' /\ RunInPhase'
  BY DEF EngCore, PromoteRefused, TreeFollowsRun, RunInPhase, EngTypeOK, Body, RunEnds, Terminal, Active,
     KidsInPhase, OwnQuiescent, Before, After, FailRun, CancelRun, CompleteRun, RunSettled, StageFailure,
     AfterEnd
<1>3. KidsInPhase'
  BY DEF EngCore, PromoteRefused, KidsInPhase, RunInPhase, Before, After, Executing, OwnJoined,
     OwnQuiescent, Active, EngTypeOK, Body, RunEnds, Terminal, FailRun, CancelRun, CompleteRun, RunSettled,
     StageFailure, AfterEnd
<1>4. DeliveriesInPhase' /\ DeliveredOnce'
  BY DEF EngCore, PromoteRefused, DeliveriesInPhase, DeliveredOnce, KidsInPhase, Before, After, Executing,
     Unreconciled, JoinOver, KidSettled, EngTypeOK, Body, AfterEnd
<1>5. BudgetFits'
  BY EngineAssumption DEF EngCore, PromoteRefused, BudgetFits, RoundsFit, EngTypeOK, EngineAssumption
<1>6. ReportsInPhase' /\ job'.told \subseteq journal'
  BY DEF EngCore, PromoteRefused, ReportsInPhase, EngTypeOK, JobRecords, Waiting, AfterEnd
<1> QED BY <1>1, <1>2, <1>3, <1>4, <1>5, <1>6 DEF EngCore

\* delegateToAgents: the Root spawns a child and receives it.
LEMMA DelegateStep ==
    ASSUME EngCore, NEW k \in Kids, Delegate(k)
    PROVE  EngCore'
<1> USE DEF mainVars, loopVars, treeVars, jobVars, hostVars
<1>1. EngTypeOK'
  <2>1. IsRun(run')
    BY Endings DEF EngCore, Delegate, NoKid
  <2> QED BY <2>1 DEF EngCore, Delegate, EngTypeOK, IsRun, Body, NoKid
<1>2. TreeFollowsRun' /\ RunInPhase'
  BY DEF EngCore, Delegate, TreeFollowsRun, RunInPhase, EngTypeOK, Body, RunEnds, Terminal, Active,
     KidsInPhase, OwnQuiescent, Before, After, NoKid
<1>3. KidsInPhase'
  BY DEF EngCore, Delegate, KidsInPhase, RunInPhase, Before, After, Executing, OwnJoined, OwnQuiescent,
     Active, EngTypeOK, Body, RunEnds, Terminal, NoKid
<1>4. DeliveriesInPhase' /\ DeliveredOnce'
  BY DEF EngCore, Delegate, DeliveriesInPhase, DeliveredOnce, KidsInPhase, Before, After, Executing,
     Unreconciled, JoinOver, KidSettled, EngTypeOK, Body, NoKid
<1>5. BudgetFits'
  BY EngineAssumption DEF EngCore, Delegate, BudgetFits, RoundsFit, EngTypeOK, EngineAssumption, NoKid
<1>6. ReportsInPhase' /\ job'.told \subseteq journal'
  BY DEF EngCore, Delegate, ReportsInPhase, EngTypeOK, JobRecords, Waiting, NoKid
<1> QED BY <1>1, <1>2, <1>3, <1>4, <1>5, <1>6 DEF EngCore

\* AgentCore.spawn_agents, called by the host while the Root runs.
LEMMA HostSpawnStep ==
    ASSUME EngCore, NEW k \in Kids, HostSpawn(k)
    PROVE  EngCore'
<1> USE DEF mainVars, loopVars, treeVars, jobVars, hostVars
<1>1. EngTypeOK'
  <2>1. kid \in [Kids -> KidRecords]
    BY DEF EngCore, EngTypeOK
  <2>2. kid' = [kid EXCEPT ![k].at = "live"]
    BY DEF HostSpawn
  <2>3. kid' \in [Kids -> KidRecords]
    BY <2>1, <2>2 DEF KidRecords, RunEnds
  <2> QED BY <2>3 DEF EngCore, HostSpawn, EngTypeOK
<1>2. TreeFollowsRun' /\ RunInPhase'
  BY DEF EngCore, HostSpawn, TreeFollowsRun, RunInPhase, EngTypeOK, Body, RunEnds, Terminal, Active,
     KidsInPhase, OwnQuiescent, Before, After, NoKid
<1>3. KidsInPhase'
  BY DEF EngCore, HostSpawn, KidsInPhase, RunInPhase, Before, After, Executing, OwnJoined, OwnQuiescent,
     Active, EngTypeOK, Body, RunEnds, Terminal, NoKid
<1>4. DeliveriesInPhase' /\ DeliveredOnce'
  BY DEF EngCore, HostSpawn, DeliveriesInPhase, DeliveredOnce, KidsInPhase, Before, After, Executing,
     Unreconciled, JoinOver, KidSettled, EngTypeOK, Body, NoKid
<1>5. BudgetFits'
  BY EngineAssumption DEF EngCore, HostSpawn, BudgetFits, RoundsFit, EngTypeOK, EngineAssumption, NoKid
<1>6. ReportsInPhase' /\ job'.told \subseteq journal'
  BY DEF EngCore, HostSpawn, ReportsInPhase, EngTypeOK, JobRecords, Waiting, NoKid
<1> QED BY <1>1, <1>2, <1>3, <1>4, <1>5, <1>6 DEF EngCore

\* The join executes a child's Run to its end, under the Root's stop signal.
LEMMA KidEndsStep ==
    ASSUME EngCore, NEW k \in Kids, KidEnds(k)
    PROVE  EngCore'
<1> USE DEF mainVars, loopVars, treeVars, jobVars, hostVars
<1>1. EngTypeOK'
  <2>1. kid \in [Kids -> KidRecords]
    BY DEF EngCore, EngTypeOK
  <2>2. \E e \in RunEnds : kid' = [kid EXCEPT ![k].at = e]
    BY DEF KidEnds, RunEnds
  <2>3. kid' \in [Kids -> KidRecords]
    BY <2>1, <2>2 DEF KidRecords, RunEnds
  <2> QED BY <2>3 DEF EngCore, KidEnds, EngTypeOK
<1>2. TreeFollowsRun' /\ RunInPhase'
  BY DEF EngCore, KidEnds, TreeFollowsRun, RunInPhase, EngTypeOK, Body, RunEnds, Terminal, Active,
     KidsInPhase, OwnQuiescent, Before, After
<1>3. KidsInPhase'
  BY DEF EngCore, KidEnds, KidsInPhase, RunInPhase, Before, After, Executing, OwnJoined, OwnQuiescent,
     Active, EngTypeOK, Body, RunEnds, Terminal
<1>4. DeliveriesInPhase' /\ DeliveredOnce'
  <2>1. \A j \in Kids : kid'[j].joined = kid[j].joined /\ (KidSettled(j) => KidSettled(j)')
    BY DEF EngCore, EngTypeOK, KidEnds, KidRecords, KidSettled, RunEnds
  <2>2. UNCHANGED <<pc, cf, delivery, lock>>
    BY DEF KidEnds, mainVars, hostVars
  <2>3. \A j \in Kids : JoinOver(j) => JoinOver(j)'
    BY <2>1, <2>2 DEF JoinOver
  <2> QED BY <2>1, <2>2, <2>3 DEF EngCore, DeliveriesInPhase, DeliveredOnce, Unreconciled
<1>5. BudgetFits'
  BY EngineAssumption DEF EngCore, KidEnds, BudgetFits, RoundsFit, EngTypeOK, EngineAssumption, Active
<1>6. ReportsInPhase' /\ job'.told \subseteq journal'
  BY DEF EngCore, KidEnds, ReportsInPhase, EngTypeOK, JobRecords, Waiting, Active
<1> QED BY <1>1, <1>2, <1>3, <1>4, <1>5, <1>6 DEF EngCore

\* AgentResultReceiver.receive at a decision boundary of the Root.
LEMMA ReceiveStep ==
    ASSUME EngCore, NEW k \in Kids, Receive(k)
    PROVE  EngCore'
<1> USE DEF mainVars, loopVars, treeVars, jobVars, hostVars
<1>1. EngTypeOK'
  <2>1. kid \in [Kids -> KidRecords]
    BY DEF EngCore, EngTypeOK
  <2>2. kid' = [kid EXCEPT ![k].received = TRUE]
    BY DEF Receive
  <2>3. kid' \in [Kids -> KidRecords]
    BY <2>1, <2>2 DEF KidRecords, RunEnds
  <2> QED BY <2>3 DEF EngCore, Receive, EngTypeOK
<1>2. TreeFollowsRun' /\ RunInPhase'
  BY DEF EngCore, Receive, TreeFollowsRun, RunInPhase, EngTypeOK, Body, RunEnds, Terminal, Active,
     KidsInPhase, OwnQuiescent, Before, After
<1>3. KidsInPhase'
  BY DEF EngCore, Receive, KidsInPhase, RunInPhase, Before, After, Executing, OwnJoined, OwnQuiescent,
     Active, EngTypeOK, Body, RunEnds, Terminal
<1>4. DeliveriesInPhase' /\ DeliveredOnce'
  BY DEF EngCore, Receive, DeliveriesInPhase, DeliveredOnce, KidsInPhase, Before, After, Executing,
     Unreconciled, JoinOver, KidSettled, EngTypeOK, Body
<1>5. BudgetFits'
  BY EngineAssumption DEF EngCore, Receive, BudgetFits, RoundsFit, EngTypeOK, EngineAssumption
<1>6. ReportsInPhase' /\ job'.told \subseteq journal'
  BY DEF EngCore, Receive, ReportsInPhase, EngTypeOK, JobRecords, Waiting
<1> QED BY <1>1, <1>2, <1>3, <1>4, <1>5, <1>6 DEF EngCore

\* deliver_agent_results schedules a report as soon as a result is there.
LEMMA DeliverQueueStep ==
    ASSUME EngCore, NEW k \in Kids, DeliverQueue(k)
    PROVE  EngCore'
<1> USE DEF mainVars, loopVars, treeVars, jobVars, hostVars
<1>1. EngTypeOK'
  <2>1. delivery \in [Kids -> Deliveries]
    BY DEF EngCore, EngTypeOK
  <2>2. delivery' = [delivery EXCEPT ![k].at = "queued"]
    BY DEF DeliverQueue
  <2>3. delivery' \in [Kids -> Deliveries]
    BY <2>1, <2>2 DEF Deliveries
  <2> QED BY <2>3 DEF EngCore, DeliverQueue, EngTypeOK
<1>2. TreeFollowsRun' /\ RunInPhase'
  BY DEF EngCore, DeliverQueue, TreeFollowsRun, RunInPhase, EngTypeOK, Body, RunEnds, Terminal, Active,
     KidsInPhase, OwnQuiescent, Before, After
<1>3. KidsInPhase'
  BY DEF EngCore, DeliverQueue, KidsInPhase, RunInPhase, Before, After, Executing, OwnJoined, OwnQuiescent,
     Active, EngTypeOK, Body, RunEnds, Terminal
<1>4. DeliveriesInPhase' /\ DeliveredOnce'
  <2>1. \A j \in Kids : /\ delivery'[j].at = IF j = k THEN "queued" ELSE delivery[j].at
                        /\ delivery'[j].marker = delivery[j].marker
                        /\ delivery'[j].shows = delivery[j].shows
    BY DEF EngCore, EngTypeOK, DeliverQueue, Deliveries
  <2>2. UNCHANGED <<pc, cf, kid, lock>> /\ cf.presents /\ kid[k].joined # "no" /\ delivery[k].at = "idle"
    BY DEF DeliverQueue, mainVars, hostVars
  <2> QED BY <2>1, <2>2
             DEF EngCore, DeliveriesInPhase, DeliveredOnce, Unreconciled, JoinOver, KidSettled, KidsInPhase,
                 Executing, After, Before
<1>5. BudgetFits'
  BY EngineAssumption DEF EngCore, DeliverQueue, BudgetFits, RoundsFit, EngTypeOK, EngineAssumption
<1>6. ReportsInPhase' /\ job'.told \subseteq journal'
  BY DEF EngCore, DeliverQueue, ReportsInPhase, EngTypeOK, JobRecords, Waiting
<1> QED BY <1>1, <1>2, <1>3, <1>4, <1>5, <1>6 DEF EngCore

\* complete_admitted_task: a task that needs confirmation or clarification, or
\* is not admitted, completes with a message; a durable one is dispatched.
LEMMA HandoverStep ==
    ASSUME EngCore, Handover
    PROVE  EngCore'
<1> USE DEF mainVars, loopVars, treeVars, jobVars, hostVars
<1>1. EngTypeOK'
  <2>1. IsRun(run')
    BY Endings DEF EngCore, Handover
  <2>2. job' \in JobRecords
    BY JobShape DEF JobRecords, EngCore, EngTypeOK, Handover
  <2> QED BY <2>1, <2>2 DEF EngCore, Handover, EngTypeOK, IsRun, Body, AfterEnd
<1>2. TreeFollowsRun' /\ RunInPhase'
  BY DEF EngCore, Handover, TreeFollowsRun, RunInPhase, EngTypeOK, Body, RunEnds, Terminal, Active,
     KidsInPhase, OwnQuiescent, Before, After, FailRun, CancelRun, CompleteRun, RunSettled, StageFailure,
     AfterEnd
<1>3. KidsInPhase'
  BY DEF EngCore, Handover, KidsInPhase, RunInPhase, Before, After, Executing, OwnJoined, OwnQuiescent,
     Active, EngTypeOK, Body, RunEnds, Terminal, FailRun, CancelRun, CompleteRun, RunSettled, StageFailure,
     AfterEnd
<1>4. DeliveriesInPhase' /\ DeliveredOnce'
  BY DEF EngCore, Handover, DeliveriesInPhase, DeliveredOnce, KidsInPhase, Before, After, Executing,
     Unreconciled, JoinOver, KidSettled, EngTypeOK, Body, AfterEnd
<1>5. BudgetFits'
  BY EngineAssumption DEF EngCore, Handover, BudgetFits, RoundsFit, EngTypeOK, EngineAssumption
<1>6. ReportsInPhase' /\ job'.told \subseteq journal'
  BY DEF EngCore, Handover, ReportsInPhase, EngTypeOK, JobRecords, Waiting, AfterEnd
<1> QED BY <1>1, <1>2, <1>3, <1>4, <1>5, <1>6 DEF EngCore

\* The unit goes on with its work once it has been told.
LEMMA ContinueStep ==
    ASSUME EngCore, NEW u \in WorkUnits, Continue(u)
    PROVE  EngCore'
<1> USE DEF mainVars, loopVars, treeVars, jobVars, hostVars
<1>1. EngTypeOK'
  <2>1. job \in JobRecords
    BY DEF EngCore, EngTypeOK
  <2>2. job' = [job EXCEPT !.waits[u] = "idle"]
    BY DEF Continue
  <2>3. job' \in JobRecords
    BY <2>1, <2>2, JobShape DEF JobRecords, JobEnds
  <2> QED BY <2>3 DEF EngCore, Continue, EngTypeOK, Body
<1>2. TreeFollowsRun' /\ RunInPhase'
  BY DEF EngCore, Continue, TreeFollowsRun, RunInPhase, EngTypeOK, Body, RunEnds, Terminal, Active,
     KidsInPhase, OwnQuiescent, Before, After
<1>3. KidsInPhase'
  BY DEF EngCore, Continue, KidsInPhase, RunInPhase, Before, After, Executing, OwnJoined, OwnQuiescent,
     Active, EngTypeOK, Body, RunEnds, Terminal
<1>4. DeliveriesInPhase' /\ DeliveredOnce'
  BY DEF EngCore, Continue, DeliveriesInPhase, DeliveredOnce, KidsInPhase, Before, After, Executing,
     Unreconciled, JoinOver, KidSettled, EngTypeOK, Body
<1>5. BudgetFits'
  BY EngineAssumption DEF EngCore, Continue, BudgetFits, RoundsFit, EngTypeOK, EngineAssumption
<1>6. ReportsInPhase' /\ job'.told \subseteq journal'
  BY DEF EngCore, Continue, ReportsInPhase, EngTypeOK, JobRecords, Waiting
<1> QED BY <1>1, <1>2, <1>3, <1>4, <1>5, <1>6 DEF EngCore

\* The executor returns; a stop or an error of its own makes it raise.
LEMMA JobReturnsStep ==
    ASSUME EngCore, JobReturns
    PROVE  EngCore'
<1> USE DEF mainVars, loopVars, treeVars, jobVars, hostVars
<1>1. EngTypeOK'
  <2>1. job \in JobRecords
    BY DEF EngCore, EngTypeOK
  <2>2. \E e \in {"raised"} \cup JobEnds : job' = [job EXCEPT !.at = e]
    BY DEF JobReturns
  <2>3. job' \in JobRecords
    BY <2>1, <2>2, JobShape DEF JobRecords, JobEnds
  <2> QED BY <2>3 DEF EngCore, JobReturns, EngTypeOK, Body
<1>2. TreeFollowsRun' /\ RunInPhase'
  BY DEF EngCore, JobReturns, TreeFollowsRun, RunInPhase, EngTypeOK, Body, RunEnds, Terminal, Active,
     KidsInPhase, OwnQuiescent, Before, After, JobEnds
<1>3. KidsInPhase'
  BY DEF EngCore, JobReturns, KidsInPhase, RunInPhase, Before, After, Executing, OwnJoined, OwnQuiescent,
     Active, EngTypeOK, Body, RunEnds, Terminal, JobEnds
<1>4. DeliveriesInPhase' /\ DeliveredOnce'
  BY DEF EngCore, JobReturns, DeliveriesInPhase, DeliveredOnce, KidsInPhase, Before, After, Executing,
     Unreconciled, JoinOver, KidSettled, EngTypeOK, Body, JobEnds
<1>5. BudgetFits'
  BY EngineAssumption DEF EngCore, JobReturns, BudgetFits, RoundsFit, EngTypeOK, EngineAssumption, JobEnds
<1>6. ReportsInPhase' /\ job'.told \subseteq journal'
  BY DEF EngCore, JobReturns, ReportsInPhase, EngTypeOK, JobRecords, Waiting, JobEnds
<1> QED BY <1>1, <1>2, <1>3, <1>4, <1>5, <1>6 DEF EngCore

\* The queue is drained and the executor has returned: what became of the task
\* decides what becomes of the Run.
LEMMA DurableDoneStep ==
    ASSUME EngCore, DurableDone
    PROVE  EngCore'
<1> USE DEF mainVars, loopVars, treeVars, jobVars, hostVars
<1>1. EngTypeOK'
  <2>1. IsRun(run')
    BY Endings DEF EngCore, DurableDone
  <2> QED BY <2>1 DEF EngCore, DurableDone, EngTypeOK, IsRun, Body, AfterEnd
<1>2. TreeFollowsRun' /\ RunInPhase'
  BY DEF EngCore, DurableDone, TreeFollowsRun, RunInPhase, EngTypeOK, Body, RunEnds, Terminal, Active,
     KidsInPhase, OwnQuiescent, Before, After, FailRun, CancelRun, CompleteRun, RunSettled, StageFailure,
     AfterEnd
<1>3. KidsInPhase'
  BY DEF EngCore, DurableDone, KidsInPhase, RunInPhase, Before, After, Executing, OwnJoined, OwnQuiescent,
     Active, EngTypeOK, Body, RunEnds, Terminal, FailRun, CancelRun, CompleteRun, RunSettled, StageFailure,
     AfterEnd
<1>4. DeliveriesInPhase' /\ DeliveredOnce'
  BY DEF EngCore, DurableDone, DeliveriesInPhase, DeliveredOnce, KidsInPhase, Before, After, Executing,
     Unreconciled, JoinOver, KidSettled, EngTypeOK, Body, AfterEnd
<1>5. BudgetFits'
  BY EngineAssumption DEF EngCore, DurableDone, BudgetFits, RoundsFit, EngTypeOK, EngineAssumption
<1>6. ReportsInPhase' /\ job'.told \subseteq journal'
  BY DEF EngCore, DurableDone, ReportsInPhase, EngTypeOK, JobRecords, Waiting, AfterEnd
<1> QED BY <1>1, <1>2, <1>3, <1>4, <1>5, <1>6 DEF EngCore

\* _settle_runtime_result up to its barriers.
LEMMA SettleRunStep ==
    ASSUME EngCore, SettleRun
    PROVE  EngCore'
<1> USE DEF mainVars, loopVars, treeVars, jobVars, hostVars
<1>1. EngTypeOK'
  <2>1. IsRun(run')
    BY Endings DEF EngCore, SettleRun, Quiescent, AllReceived
  <2> QED BY <2>1 DEF EngCore, SettleRun, EngTypeOK, IsRun, Body, Quiescent, AllReceived
<1>2. TreeFollowsRun' /\ RunInPhase'
  BY DEF EngCore, SettleRun, TreeFollowsRun, RunInPhase, EngTypeOK, Body, RunEnds, Terminal, Active,
     KidsInPhase, OwnQuiescent, Before, After, Quiescent, AllReceived, FailRun, CancelRun, CompleteRun,
     RunSettled, StageFailure
<1>3. KidsInPhase'
  BY DEF EngCore, SettleRun, KidsInPhase, RunInPhase, Before, After, Executing, OwnJoined, OwnQuiescent,
     Active, EngTypeOK, Body, RunEnds, Terminal, Quiescent, AllReceived, FailRun, CancelRun, CompleteRun,
     RunSettled, StageFailure
<1>4. DeliveriesInPhase' /\ DeliveredOnce'
  BY DEF EngCore, SettleRun, DeliveriesInPhase, DeliveredOnce, KidsInPhase, Before, After, Executing,
     Unreconciled, JoinOver, KidSettled, EngTypeOK, Body, Quiescent, AllReceived
<1>5. BudgetFits'
  BY EngineAssumption
     DEF EngCore, SettleRun, BudgetFits, RoundsFit, EngTypeOK, EngineAssumption, Quiescent, AllReceived
<1>6. ReportsInPhase' /\ job'.told \subseteq journal'
  BY DEF EngCore, SettleRun, ReportsInPhase, EngTypeOK, JobRecords, Waiting, Quiescent, AllReceived
<1> QED BY <1>1, <1>2, <1>3, <1>4, <1>5, <1>6 DEF EngCore

\* RootOutputObserver.open_model_stream for the final answer: the barriers are
\* checked again and the public lock is taken.
LEMMA PresentStep ==
    ASSUME EngCore, Present
    PROVE  EngCore'
<1> USE DEF mainVars, loopVars, treeVars, jobVars, hostVars
<1>1. EngTypeOK'
  <2>1. IsRun(run')
    BY Endings DEF EngCore, Present, Quiescent
  <2> QED BY <2>1 DEF EngCore, Present, EngTypeOK, IsRun, Body, Quiescent
<1>2. TreeFollowsRun' /\ RunInPhase'
  BY DEF EngCore, Present, TreeFollowsRun, RunInPhase, EngTypeOK, Body, RunEnds, Terminal, Active,
     KidsInPhase, OwnQuiescent, Before, After, Quiescent, FailRun, CancelRun, CompleteRun, RunSettled,
     StageFailure
<1>3. KidsInPhase'
  BY DEF EngCore, Present, KidsInPhase, RunInPhase, Before, After, Executing, OwnJoined, OwnQuiescent,
     Active, EngTypeOK, Body, RunEnds, Terminal, Quiescent, FailRun, CancelRun, CompleteRun, RunSettled,
     StageFailure
<1>4. DeliveriesInPhase' /\ DeliveredOnce'
  BY EngineAssumption
     DEF EngCore, Present, EngineAssumption, DeliveriesInPhase, DeliveredOnce, KidsInPhase, Before, After,
         Executing, Unreconciled, JoinOver, KidSettled, EngTypeOK, Body, Quiescent
<1>5. BudgetFits'
  BY EngineAssumption DEF EngCore, Present, BudgetFits, RoundsFit, EngTypeOK, EngineAssumption, Quiescent
<1>6. ReportsInPhase' /\ job'.told \subseteq journal'
  BY DEF EngCore, Present, ReportsInPhase, EngTypeOK, JobRecords, Waiting, Quiescent
<1> QED BY <1>1, <1>2, <1>3, <1>4, <1>5, <1>6 DEF EngCore

\* The stream ends: finished behind the barrier, refused by it, failed, or
\* stopped.  A failed presentation does not undo the execution.
LEMMA EndPresentationStep ==
    ASSUME EngCore, EndPresentation
    PROVE  EngCore'
<1> USE DEF mainVars, loopVars, treeVars, jobVars, hostVars
<1>1. EngTypeOK'
  <2>1. IsRun(run')
    BY Endings DEF EngCore, EndPresentation, Quiescent
  <2> QED BY <2>1 DEF EngCore, EndPresentation, EngTypeOK, IsRun, Body, Quiescent
<1>2. TreeFollowsRun' /\ RunInPhase'
  BY DEF EngCore, EndPresentation, TreeFollowsRun, RunInPhase, EngTypeOK, Body, RunEnds, Terminal, Active,
     KidsInPhase, OwnQuiescent, Before, After, Quiescent, FailRun, CancelRun, CompleteRun, RunSettled,
     StageFailure
<1>3. KidsInPhase'
  BY DEF EngCore, EndPresentation, KidsInPhase, RunInPhase, Before, After, Executing, OwnJoined,
     OwnQuiescent, Active, EngTypeOK, Body, RunEnds, Terminal, Quiescent, FailRun, CancelRun, CompleteRun,
     RunSettled, StageFailure
<1>4. DeliveriesInPhase' /\ DeliveredOnce'
  BY EngineAssumption
     DEF EngCore, EndPresentation, EngineAssumption, DeliveriesInPhase, DeliveredOnce, KidsInPhase, Before,
         After, Executing, Unreconciled, JoinOver, KidSettled, EngTypeOK, Body, Quiescent
<1>5. BudgetFits'
  BY EngineAssumption
     DEF EngCore, EndPresentation, BudgetFits, RoundsFit, EngTypeOK, EngineAssumption, Quiescent
<1>6. ReportsInPhase' /\ job'.told \subseteq journal'
  BY DEF EngCore, EndPresentation, ReportsInPhase, EngTypeOK, JobRecords, Waiting, Quiescent
<1> QED BY <1>1, <1>2, <1>3, <1>4, <1>5, <1>6 DEF EngCore

\* Commit keeps the invariant.
LEMMA CommitStep ==
    ASSUME EngCore, Commit
    PROVE  EngCore'
<1> USE DEF mainVars, loopVars, treeVars, jobVars, hostVars
<1>1. EngTypeOK'
  <2>1. IsRun(run')
    BY Endings DEF EngCore, Commit, Shown
  <2> QED BY <2>1 DEF EngCore, Commit, EngTypeOK, IsRun, Body, Shown
<1>2. TreeFollowsRun' /\ RunInPhase'
  BY DEF EngCore, Commit, TreeFollowsRun, RunInPhase, EngTypeOK, Body, RunEnds, Terminal, Active,
     KidsInPhase, OwnQuiescent, Before, After, Shown, FailRun, CancelRun, CompleteRun, RunSettled,
     StageFailure
<1>3. KidsInPhase'
  BY DEF EngCore, Commit, KidsInPhase, RunInPhase, Before, After, Executing, OwnJoined, OwnQuiescent,
     Active, EngTypeOK, Body, RunEnds, Terminal, Shown, FailRun, CancelRun, CompleteRun, RunSettled,
     StageFailure
<1>4. DeliveriesInPhase' /\ DeliveredOnce'
  BY DEF EngCore, Commit, DeliveriesInPhase, DeliveredOnce, KidsInPhase, Before, After, Executing,
     Unreconciled, JoinOver, KidSettled, EngTypeOK, Body, Shown
<1>5. BudgetFits'
  BY EngineAssumption DEF EngCore, Commit, BudgetFits, RoundsFit, EngTypeOK, EngineAssumption, Shown
<1>6. ReportsInPhase' /\ job'.told \subseteq journal'
  BY DEF EngCore, Commit, ReportsInPhase, EngTypeOK, JobRecords, Waiting, Shown
<1> QED BY <1>1, <1>2, <1>3, <1>4, <1>5, <1>6 DEF EngCore

\* Pending approvals are cancelled, a Run that nobody settled is cancelled,
\* and the operations of a terminal Run are released.
LEMMA ReleaseStep ==
    ASSUME EngCore, Release
    PROVE  EngCore'
<1> USE DEF mainVars, loopVars, treeVars, jobVars, hostVars
<1>1. EngTypeOK'
  <2>1. IsRun(run')
    BY Endings DEF EngCore, Release
  <2> QED BY <2>1 DEF EngCore, Release, EngTypeOK, IsRun, Body
<1>2. TreeFollowsRun' /\ RunInPhase'
  BY DEF EngCore, Release, TreeFollowsRun, RunInPhase, EngTypeOK, Body, RunEnds, Terminal, Active,
     KidsInPhase, OwnQuiescent, Before, After, FailRun, CancelRun, CompleteRun, RunSettled, StageFailure
<1>3. KidsInPhase'
  BY DEF EngCore, Release, KidsInPhase, RunInPhase, Before, After, Executing, OwnJoined, OwnQuiescent,
     Active, EngTypeOK, Body, RunEnds, Terminal, FailRun, CancelRun, CompleteRun, RunSettled, StageFailure
<1>4. DeliveriesInPhase' /\ DeliveredOnce'
  BY DEF EngCore, Release, DeliveriesInPhase, DeliveredOnce, KidsInPhase, Before, After, Executing,
     Unreconciled, JoinOver, KidSettled, EngTypeOK, Body
<1>5. BudgetFits'
  BY EngineAssumption DEF EngCore, Release, BudgetFits, RoundsFit, EngTypeOK, EngineAssumption
<1>6. ReportsInPhase' /\ job'.told \subseteq journal'
  BY DEF EngCore, Release, ReportsInPhase, EngTypeOK, JobRecords, Waiting
<1> QED BY <1>1, <1>2, <1>3, <1>4, <1>5, <1>6 DEF EngCore

\* _resume_child_runs: the children whose results are still pending are joined
\* again before the loop goes on; a required one that failed fails the Root.
LEMMA RejoinStep ==
    ASSUME EngCore, NEW k \in Kids, Rejoin(k)
    PROVE  EngCore'
<1> USE DEF mainVars, loopVars, treeVars, jobVars, hostVars
<1>1. EngTypeOK'
  <2>1. kid \in [Kids -> KidRecords]
    BY DEF EngCore, EngTypeOK
  <2>2. kid' = [kid EXCEPT ![k].joined = "resume"]
    BY DEF Rejoin
  <2>3. kid' \in [Kids -> KidRecords]
    BY <2>1, <2>2 DEF KidRecords, RunEnds
  <2> QED BY <2>3 DEF EngCore, Rejoin, EngTypeOK
<1>2. TreeFollowsRun' /\ RunInPhase'
  BY DEF EngCore, Rejoin, TreeFollowsRun, RunInPhase, EngTypeOK, Body, RunEnds, Terminal, Active,
     KidsInPhase, OwnQuiescent, Before, After
<1>3. KidsInPhase'
  BY DEF EngCore, Rejoin, KidsInPhase, RunInPhase, Before, After, Executing, OwnJoined, OwnQuiescent,
     Active, EngTypeOK, Body, RunEnds, Terminal
<1>4. DeliveriesInPhase' /\ DeliveredOnce'
  BY DEF EngCore, Rejoin, DeliveriesInPhase, DeliveredOnce, KidsInPhase, Before, After, Executing,
     Unreconciled, JoinOver, KidSettled, EngTypeOK, Body
<1>5. BudgetFits'
  BY EngineAssumption DEF EngCore, Rejoin, BudgetFits, RoundsFit, EngTypeOK, EngineAssumption
<1>6. ReportsInPhase' /\ job'.told \subseteq journal'
  BY DEF EngCore, Rejoin, ReportsInPhase, EngTypeOK, JobRecords, Waiting
<1> QED BY <1>1, <1>2, <1>3, <1>4, <1>5, <1>6 DEF EngCore

\* ResumeChildren keeps the invariant.
LEMMA ResumeChildrenStep ==
    ASSUME EngCore, ResumeChildren
    PROVE  EngCore'
<1> USE DEF mainVars, loopVars, treeVars, jobVars, hostVars
<1>1. EngTypeOK'
  <2>1. IsRun(run')
    BY Endings DEF EngCore, ResumeChildren
  <2> QED BY <2>1 DEF EngCore, ResumeChildren, EngTypeOK, IsRun, Body
<1>2. TreeFollowsRun' /\ RunInPhase'
  BY DEF EngCore, ResumeChildren, TreeFollowsRun, RunInPhase, EngTypeOK, Body, RunEnds, Terminal, Active,
     KidsInPhase, OwnQuiescent, Before, After, FailRun, CancelRun, CompleteRun, RunSettled, StageFailure
<1>3. KidsInPhase'
  BY DEF EngCore, ResumeChildren, KidsInPhase, RunInPhase, Before, After, Executing, OwnJoined,
     OwnQuiescent, Active, EngTypeOK, Body, RunEnds, Terminal, FailRun, CancelRun, CompleteRun, RunSettled,
     StageFailure
<1>4. DeliveriesInPhase' /\ DeliveredOnce'
  BY DEF EngCore, ResumeChildren, DeliveriesInPhase, DeliveredOnce, KidsInPhase, Before, After, Executing,
     Unreconciled, JoinOver, KidSettled, EngTypeOK, Body
<1>5. BudgetFits'
  BY EngineAssumption DEF EngCore, ResumeChildren, BudgetFits, RoundsFit, EngTypeOK, EngineAssumption
<1>6. ReportsInPhase' /\ job'.told \subseteq journal'
  BY DEF EngCore, ResumeChildren, ReportsInPhase, EngTypeOK, JobRecords, Waiting
<1> QED BY <1>1, <1>2, <1>3, <1>4, <1>5, <1>6 DEF EngCore

\* The host's cancellation, or the deadline's timer.
LEMMA StopRunStep ==
    ASSUME EngCore, NEW why \in {"canceled", "deadline"}, StopRun(why)
    PROVE  EngCore'
<1> USE DEF mainVars, loopVars, treeVars, jobVars, hostVars
<1>1. EngTypeOK'
  BY DEF EngCore, StopRun, EngTypeOK
<1>2. TreeFollowsRun' /\ RunInPhase'
  BY DEF EngCore, StopRun, TreeFollowsRun, RunInPhase, EngTypeOK, Body, RunEnds, Terminal, Active,
     KidsInPhase, OwnQuiescent, Before, After
<1>3. KidsInPhase'
  BY DEF EngCore, StopRun, KidsInPhase, RunInPhase, Before, After, Executing, OwnJoined, OwnQuiescent,
     Active, EngTypeOK, Body, RunEnds, Terminal
<1>4. DeliveriesInPhase' /\ DeliveredOnce'
  BY DEF EngCore, StopRun, DeliveriesInPhase, DeliveredOnce, KidsInPhase, Before, After, Executing,
     Unreconciled, JoinOver, KidSettled, EngTypeOK, Body
<1>5. BudgetFits'
  BY EngineAssumption DEF EngCore, StopRun, BudgetFits, RoundsFit, EngTypeOK, EngineAssumption
<1>6. ReportsInPhase' /\ job'.told \subseteq journal'
  BY DEF EngCore, StopRun, ReportsInPhase, EngTypeOK, JobRecords, Waiting
<1> QED BY <1>1, <1>2, <1>3, <1>4, <1>5, <1>6 DEF EngCore

\* _settle_root_agent_tree_run: a Root that is DONE completes only when its
\* descendants have ended; the others take their descendants with them.
LEMMA SettleTreeStep ==
    ASSUME EngCore, SettleTree
    PROVE  EngCore'
<1> USE DEF mainVars, loopVars, treeVars, jobVars, hostVars
<1>1. EngTypeOK'
  <2>1. kid \in [Kids -> KidRecords] /\ tree \in [root : RunEnds \cup {"none", "running"}, bound : BOOLEAN]
    BY DEF EngCore, EngTypeOK
  <2>2. kid' \in [Kids -> KidRecords]
    BY <2>1 DEF SettleTree, KidRecords, RunEnds
  <2>3. tree' \in [root : RunEnds \cup {"none", "running"}, bound : BOOLEAN]
    BY <2>1 DEF SettleTree, EngCore, EngTypeOK
  <2> QED BY <2>2, <2>3 DEF EngCore, SettleTree, EngTypeOK
<1>2. TreeFollowsRun' /\ RunInPhase'
  BY DEF EngCore, SettleTree, TreeFollowsRun, RunInPhase, EngTypeOK, Body, RunEnds, Terminal, Active,
     KidsInPhase, OwnQuiescent, Before, After, Quiescent
<1>3. KidsInPhase'
  BY DEF EngCore, SettleTree, KidsInPhase, RunInPhase, Before, After, Executing, OwnJoined, OwnQuiescent,
     Active, EngTypeOK, Body, RunEnds, Terminal, Quiescent
<1>4. DeliveriesInPhase' /\ DeliveredOnce'
  BY DEF EngCore, SettleTree, DeliveriesInPhase, DeliveredOnce, KidsInPhase, Before, After, Executing,
     Unreconciled, JoinOver, KidSettled, EngTypeOK, Body, Quiescent
<1>5. BudgetFits'
  BY EngineAssumption DEF EngCore, SettleTree, BudgetFits, RoundsFit, EngTypeOK, EngineAssumption, Quiescent
<1>6. ReportsInPhase' /\ job'.told \subseteq journal'
  BY DEF EngCore, SettleTree, ReportsInPhase, EngTypeOK, JobRecords, Waiting, Quiescent
<1> QED BY <1>1, <1>2, <1>3, <1>4, <1>5, <1>6 DEF EngCore

\* observe: the update is queued and the unit waits for its acknowledgement.
\* An update may break the admitted contract.
LEMMA ObserveStep ==
    ASSUME EngCore, NEW u \in WorkUnits, NEW good \in BOOLEAN, Observe(u, good)
    PROVE  EngCore'
<1> USE DEF mainVars, loopVars, treeVars, jobVars, hostVars
<1>1. EngTypeOK'
  <2>1. job \in JobRecords /\ queue \in Seq(Updates)
    BY DEF EngCore, EngTypeOK
  <2>2. /\ [job.waits EXCEPT ![u] = "waiting"] \in [WorkUnits -> {"idle", "waiting", "told", "refused"}]
        /\ job.left - 1 \in Nat
    BY <2>1, JobShape DEF Observe
  <2>3. job' \in JobRecords
    BY <2>1, <2>2, JobChanges DEF Observe
  <2>4. [unit |-> u, good |-> good, id |-> job.left] \in Updates
    BY <2>1, JobShape DEF Updates
  <2>5. queue' \in Seq(Updates)
    BY <2>1, <2>4, AppendProperties DEF Observe
  <2> QED BY <2>3, <2>5 DEF EngCore, Observe, EngTypeOK
<1>2. TreeFollowsRun' /\ RunInPhase'
  BY DEF EngCore, Observe, TreeFollowsRun, RunInPhase, EngTypeOK, Body, RunEnds, Terminal, Active,
     KidsInPhase, OwnQuiescent, Before, After
<1>3. KidsInPhase'
  BY DEF EngCore, Observe, KidsInPhase, RunInPhase, Before, After, Executing, OwnJoined, OwnQuiescent,
     Active, EngTypeOK, Body, RunEnds, Terminal
<1>4. DeliveriesInPhase' /\ DeliveredOnce'
  BY DEF EngCore, Observe, DeliveriesInPhase, DeliveredOnce, KidsInPhase, Before, After, Executing,
     Unreconciled, JoinOver, KidSettled, EngTypeOK, Body
<1>5. BudgetFits'
  BY EngineAssumption DEF EngCore, Observe, BudgetFits, RoundsFit, EngTypeOK, EngineAssumption
<1>6. ReportsInPhase' /\ job'.told \subseteq journal'
  <2> DEFINE update == [unit |-> u, good |-> good, id |-> job.left]
  <2>1. job \in JobRecords /\ queue \in Seq(Updates) /\ update \in Updates
    BY JobShape DEF EngCore, EngTypeOK, Updates
  <2>2. /\ job'.at = job.at /\ job'.left = job.left - 1 /\ job'.applied = job.applied
        /\ job'.told = job.told
        /\ job.at = "running" /\ queue' = Append(queue, update) /\ UNCHANGED <<pc, journal>>
        /\ job.left \in Nat
    BY <2>1, JobShape DEF Observe, mainVars
  <2>3. /\ queue' # <<>> /\ Len(queue') = Len(queue) + 1 /\ Len(queue) \in Nat
        /\ (queue # <<>> => Head(queue') = Head(queue))
    BY <2>1, <2>2, AppendProperties
  <2> QED BY <2>2, <2>3, EngineAssumption DEF EngCore, ReportsInPhase, EngineAssumption
<1> QED BY <1>1, <1>2, <1>3, <1>4, <1>5, <1>6 DEF EngCore

\* The consumer persists the head of the queue before it acknowledges it; a
\* contract violation is acknowledged as an error and ends the hand-over.
LEMMA ApplyUpdateStep ==
    ASSUME EngCore, ApplyUpdate
    PROVE  EngCore'
<1> USE DEF mainVars, loopVars, treeVars, jobVars, hostVars
<1>1. EngTypeOK'
  <2>1. job \in JobRecords /\ queue # <<>> /\ EngTypeOK
    BY DEF EngCore, EngTypeOK, ApplyUpdate
  <2>2. [job.waits EXCEPT ![Head(queue).unit] = "refused"]
          \in [WorkUnits -> {"idle", "waiting", "told", "refused"}]
        /\ Head(queue).id \in Nat
    BY <2>1, JobShape, QueueHead
  <2>3. job' \in JobRecords
    BY <2>1, <2>2, JobChanges DEF ApplyUpdate
  <2> QED BY <2>2, <2>3 DEF EngCore, ApplyUpdate, EngTypeOK, Body
<1>2. TreeFollowsRun' /\ RunInPhase'
  BY DEF EngCore, ApplyUpdate, TreeFollowsRun, RunInPhase, EngTypeOK, Body, RunEnds, Terminal, Active,
     KidsInPhase, OwnQuiescent, Before, After
<1>3. KidsInPhase'
  BY DEF EngCore, ApplyUpdate, KidsInPhase, RunInPhase, Before, After, Executing, OwnJoined, OwnQuiescent,
     Active, EngTypeOK, Body, RunEnds, Terminal
<1>4. DeliveriesInPhase' /\ DeliveredOnce'
  BY DEF EngCore, ApplyUpdate, DeliveriesInPhase, DeliveredOnce, KidsInPhase, Before, After, Executing,
     Unreconciled, JoinOver, KidSettled, EngTypeOK, Body
<1>5. BudgetFits'
  BY EngineAssumption DEF EngCore, ApplyUpdate, BudgetFits, RoundsFit, EngTypeOK, EngineAssumption
<1>6. ReportsInPhase' /\ job'.told \subseteq journal'
  <2>1. job \in JobRecords /\ queue # <<>> /\ EngTypeOK
    BY DEF EngCore, EngTypeOK, ApplyUpdate
  <2>2. /\ UNCHANGED queue /\ job'.at = job.at /\ job'.left = job.left /\ job'.told = job.told
        /\ \A u \in WorkUnits : job'.waits[u] = "waiting" => job.waits[u] = "waiting"
        /\ \/ /\ pc' = "durable" /\ job'.applied = Head(queue).id
              /\ journal' = journal \cup {Head(queue).id}
           \/ /\ pc' = "withdraw" /\ job'.applied = 0 /\ journal' = journal
    BY <2>1, JobShape DEF ApplyUpdate
  <2> QED BY <2>1, <2>2 DEF EngCore, ReportsInPhase, Waiting
<1> QED BY <1>1, <1>2, <1>3, <1>4, <1>5, <1>6 DEF EngCore

\* Acknowledge keeps the invariant.
LEMMA AcknowledgeStep ==
    ASSUME EngCore, Acknowledge
    PROVE  EngCore'
<1> USE DEF mainVars, loopVars, treeVars, jobVars, hostVars
<1>1. EngTypeOK'
  <2>1. job \in JobRecords /\ queue # <<>> /\ EngTypeOK
    BY DEF EngCore, EngTypeOK, Acknowledge, ReportsInPhase
  <2>2. [job.waits EXCEPT ![Head(queue).unit] = "told"]
          \in [WorkUnits -> {"idle", "waiting", "told", "refused"}]
        /\ job.told \cup {Head(queue).id} \in SUBSET Nat /\ Tail(queue) \in Seq(Updates)
    BY <2>1, JobShape, QueueHead
  <2>3. job' \in JobRecords
    BY <2>1, <2>2, JobChanges DEF Acknowledge
  <2> QED BY <2>2, <2>3 DEF EngCore, Acknowledge, EngTypeOK, Body
<1>2. TreeFollowsRun' /\ RunInPhase'
  BY DEF EngCore, Acknowledge, TreeFollowsRun, RunInPhase, EngTypeOK, Body, RunEnds, Terminal, Active,
     KidsInPhase, OwnQuiescent, Before, After
<1>3. KidsInPhase'
  BY DEF EngCore, Acknowledge, KidsInPhase, RunInPhase, Before, After, Executing, OwnJoined, OwnQuiescent,
     Active, EngTypeOK, Body, RunEnds, Terminal
<1>4. DeliveriesInPhase' /\ DeliveredOnce'
  BY DEF EngCore, Acknowledge, DeliveriesInPhase, DeliveredOnce, KidsInPhase, Before, After, Executing,
     Unreconciled, JoinOver, KidSettled, EngTypeOK, Body
<1>5. BudgetFits'
  BY EngineAssumption DEF EngCore, Acknowledge, BudgetFits, RoundsFit, EngTypeOK, EngineAssumption
<1>6. ReportsInPhase' /\ job'.told \subseteq journal'
  <2>1. job \in JobRecords /\ queue # <<>> /\ EngTypeOK /\ Head(queue).id \in journal
    BY DEF EngCore, EngTypeOK, Acknowledge, ReportsInPhase
  <2>2. /\ queue' = Tail(queue) /\ job'.at = job.at /\ job'.left = job.left /\ job'.applied = 0
        /\ job'.told = job.told \cup {Head(queue).id} /\ UNCHANGED <<pc, journal>>
        /\ \A u \in WorkUnits : job'.waits[u] = "waiting" => job.waits[u] = "waiting"
    BY <2>1, JobShape DEF Acknowledge, mainVars
  <2>3. Len(queue) \in Nat /\ Len(queue') = Len(queue) - 1 /\ job.left \in Nat
    BY <2>1, <2>2, QueueHead, JobShape
  <2> QED BY <2>1, <2>2, <2>3, EngineAssumption DEF EngCore, ReportsInPhase, Waiting, EngineAssumption
<1> QED BY <1>1, <1>2, <1>3, <1>4, <1>5, <1>6 DEF EngCore

\* Withdraw keeps the invariant.
LEMMA WithdrawStep ==
    ASSUME EngCore, Withdraw
    PROVE  EngCore'
<1> USE DEF mainVars, loopVars, treeVars, jobVars, hostVars
<1>1. EngTypeOK'
  <2>1. job \in JobRecords
    BY DEF EngCore, EngTypeOK
  <2>2. Withdrawn \in JobRecords
    BY <2>1, JobChanges DEF Withdrawn
  <2>3. <<>> \in Seq(Updates)
    OBVIOUS
  <2>4. IsRun(run')
    BY Endings DEF EngCore, Withdraw
  <2> QED BY <2>2, <2>3, <2>4 DEF EngCore, Withdraw, EngTypeOK, IsRun, Body, AfterEnd
<1>2. TreeFollowsRun' /\ RunInPhase'
  BY DEF EngCore, Withdraw, TreeFollowsRun, RunInPhase, EngTypeOK, Body, RunEnds, Terminal, Active,
     KidsInPhase, OwnQuiescent, Before, After, FailRun, CancelRun, CompleteRun, RunSettled, StageFailure,
     AfterEnd
<1>3. KidsInPhase'
  BY DEF EngCore, Withdraw, KidsInPhase, RunInPhase, Before, After, Executing, OwnJoined, OwnQuiescent,
     Active, EngTypeOK, Body, RunEnds, Terminal, FailRun, CancelRun, CompleteRun, RunSettled, StageFailure,
     AfterEnd
<1>4. DeliveriesInPhase' /\ DeliveredOnce'
  BY DEF EngCore, Withdraw, DeliveriesInPhase, DeliveredOnce, KidsInPhase, Before, After, Executing,
     Unreconciled, JoinOver, KidSettled, EngTypeOK, Body, AfterEnd
<1>5. BudgetFits'
  BY EngineAssumption DEF EngCore, Withdraw, BudgetFits, RoundsFit, EngTypeOK, EngineAssumption
<1>6. ReportsInPhase' /\ job'.told \subseteq journal'
  <2>1. job \in JobRecords /\ queue \in Seq(Updates)
    BY DEF EngCore, EngTypeOK
  <2>2. /\ Withdrawn.at = "withdrawn" /\ Withdrawn.left = job.left /\ Withdrawn.told = job.told
        /\ Withdrawn.applied = 0 /\ \A u \in WorkUnits : Withdrawn.waits[u] = "idle"
    BY <2>1, JobShape DEF Withdrawn
  <2>3. Len(queue) \in Nat /\ Len(<<>>) = 0 /\ job.left \in Nat
    BY <2>1, JobShape
  <2> QED BY <2>1, <2>2, <2>3, EngineAssumption
             DEF EngCore, Withdraw, ReportsInPhase, Waiting, EngineAssumption, AfterEnd
<1> QED BY <1>1, <1>2, <1>3, <1>4, <1>5, <1>6 DEF EngCore

\* AgentRunSupervisor.close: the task is cancelled at whatever it awaits.
LEMMA InterruptRunStep ==
    ASSUME EngCore, InterruptRun
    PROVE  EngCore'
<1> USE DEF mainVars, loopVars, treeVars, jobVars, hostVars
<1>1. EngTypeOK'
  <2>1. job \in JobRecords
    BY DEF EngCore, EngTypeOK
  <2>2. Withdrawn \in JobRecords
    BY <2>1, JobChanges DEF Withdrawn
  <2>3. <<>> \in Seq(Updates)
    OBVIOUS
  <2> QED BY <2>1, <2>2, <2>3 DEF EngCore, InterruptRun, EngTypeOK, Body
<1>2. TreeFollowsRun' /\ RunInPhase'
  BY DEF EngCore, InterruptRun, TreeFollowsRun, RunInPhase, EngTypeOK, Body, RunEnds, Terminal, Active,
     KidsInPhase, OwnQuiescent, Before, After
<1>3. KidsInPhase'
  BY DEF EngCore, InterruptRun, KidsInPhase, RunInPhase, Before, After, Executing, OwnJoined, OwnQuiescent,
     Active, EngTypeOK, Body, RunEnds, Terminal
<1>4. DeliveriesInPhase' /\ DeliveredOnce'
  BY DEF EngCore, InterruptRun, DeliveriesInPhase, DeliveredOnce, KidsInPhase, Before, After, Executing,
     Unreconciled, JoinOver, KidSettled, EngTypeOK, Body
<1>5. BudgetFits'
  BY EngineAssumption DEF EngCore, InterruptRun, BudgetFits, RoundsFit, EngTypeOK, EngineAssumption
<1>6. ReportsInPhase' /\ job'.told \subseteq journal'
  <2>1. job \in JobRecords /\ queue \in Seq(Updates)
    BY DEF EngCore, EngTypeOK
  <2>2. /\ Withdrawn.at = "withdrawn" /\ Withdrawn.left = job.left /\ Withdrawn.told = job.told
        /\ Withdrawn.applied = 0 /\ \A u \in WorkUnits : Withdrawn.waits[u] = "idle"
    BY <2>1, JobShape DEF Withdrawn
  <2>3. Len(queue) \in Nat /\ Len(<<>>) = 0 /\ job.left \in Nat
    BY <2>1, JobShape
  <2> QED BY <2>1, <2>2, <2>3, EngineAssumption
             DEF EngCore, InterruptRun, ReportsInPhase, Waiting, EngineAssumption, Body
<1> QED BY <1>1, <1>2, <1>3, <1>4, <1>5, <1>6 DEF EngCore

\* _deliver, with the public lock: nothing twice, nothing after a failure;
\* the started marker is persisted before the first word is shown.
LEMMA DeliverStartStep ==
    ASSUME EngCore, NEW k \in Kids, DeliverStart(k)
    PROVE  EngCore'
<1> USE DEF mainVars, loopVars, treeVars, jobVars, hostVars
<1>1. EngTypeOK'
  <2>1. delivery \in [Kids -> Deliveries]
    BY DEF EngCore, EngTypeOK
  <2>2. delivery[k] \in Deliveries /\ delivery[k].shows + 1 \in Nat
    BY <2>1 DEF Deliveries
  <2>3. \A a \in {"broken", "over"} : [delivery EXCEPT ![k].at = a] \in [Kids -> Deliveries]
    BY <2>1 DEF Deliveries
  <2>4. [at |-> "showing", marker |-> "started", shows |-> delivery[k].shows + 1] \in Deliveries
    BY <2>2 DEF Deliveries
  <2>5. delivery' \in [Kids -> Deliveries]
    BY <2>1, <2>3, <2>4 DEF DeliverStart
  <2> QED BY <2>5 DEF EngCore, DeliverStart, EngTypeOK
<1>2. TreeFollowsRun' /\ RunInPhase'
  BY DEF EngCore, DeliverStart, TreeFollowsRun, RunInPhase, EngTypeOK, Body, RunEnds, Terminal, Active,
     KidsInPhase, OwnQuiescent, Before, After
<1>3. KidsInPhase'
  BY DEF EngCore, DeliverStart, KidsInPhase, RunInPhase, Before, After, Executing, OwnJoined, OwnQuiescent,
     Active, EngTypeOK, Body, RunEnds, Terminal
<1>4. DeliveriesInPhase' /\ DeliveredOnce'
  <2>1. /\ UNCHANGED <<pc, cf, kid>> /\ delivery[k].at = "queued" /\ lock = "free"
        /\ delivery \in [Kids -> Deliveries]
    BY DEF DeliverStart, mainVars, hostVars, EngCore, EngTypeOK
  <2>2. cf.presents /\ kid[k].joined # "no" /\ pc \notin After
    BY <2>1 DEF EngCore, DeliveriesInPhase
  <2>3. /\ cf.presents /\ pc \notin {"present", "showing", "commit"}
        /\ ~(pc \in Executing /\ kid[k].joined = "resume")
    BY <2>1, <2>2 DEF EngCore, DeliveriesInPhase, JoinOver, After
  <2>4. CASE \E a \in {"broken", "over"} : delivery' = [delivery EXCEPT ![k].at = a] /\ lock' = lock
    <3>1. PICK a \in {"broken", "over"} : delivery' = [delivery EXCEPT ![k].at = a] /\ lock' = lock
      BY <2>4
    <3>2. \A j \in Kids : /\ delivery'[j].at = IF j = k THEN a ELSE delivery[j].at
                          /\ delivery'[j].marker = delivery[j].marker
                          /\ delivery'[j].shows = delivery[j].shows
      BY <2>1, <3>1 DEF Deliveries
    <3> QED BY <2>1, <2>2, <2>3, <3>1, <3>2, EngineAssumption
            DEF EngCore, DeliveriesInPhase, DeliveredOnce, JoinOver, KidSettled, EngineAssumption
  <2>5. CASE /\ ~Unreconciled /\ delivery[k].marker # "completed" /\ lock' = k
             /\ delivery' = [delivery EXCEPT
                     ![k] = [at |-> "showing", marker |-> "started", shows |-> @.shows + 1]]
    <3>1. delivery[k].marker = "none" /\ delivery[k].shows = 0
      BY <2>1, <2>5 DEF EngCore, DeliveriesInPhase, Unreconciled, Deliveries
    <3>2. \A j \in Kids : /\ delivery'[j].at = IF j = k THEN "showing" ELSE delivery[j].at
                          /\ delivery'[j].marker = IF j = k THEN "started" ELSE delivery[j].marker
                          /\ delivery'[j].shows = IF j = k THEN 1 ELSE delivery[j].shows
      BY <2>1, <2>5, <3>1 DEF Deliveries
    <3> QED BY <2>1, <2>2, <2>3, <2>5, <3>1, <3>2
            DEF EngCore, DeliveriesInPhase, DeliveredOnce, JoinOver, KidSettled
  <2> QED BY <2>4, <2>5 DEF DeliverStart
<1>5. BudgetFits'
  BY EngineAssumption DEF EngCore, DeliverStart, BudgetFits, RoundsFit, EngTypeOK, EngineAssumption
<1>6. ReportsInPhase' /\ job'.told \subseteq journal'
  BY DEF EngCore, DeliverStart, ReportsInPhase, EngTypeOK, JobRecords, Waiting
<1> QED BY <1>1, <1>2, <1>3, <1>4, <1>5, <1>6 DEF EngCore

\* The delivery ends, or fails with its marker aborted; the lock is released.
LEMMA DeliverEndStep ==
    ASSUME EngCore, NEW k \in Kids, DeliverEnd(k)
    PROVE  EngCore'
<1> USE DEF mainVars, loopVars, treeVars, jobVars, hostVars
<1>1. EngTypeOK'
  <2>1. delivery \in [Kids -> Deliveries]
    BY DEF EngCore, EngTypeOK
  <2>2. \A r \in Deliveries, a \in {"over", "broken"}, m \in {"completed", "aborted"} :
           [r EXCEPT !.at = a, !.marker = m] \in Deliveries
    BY DEF Deliveries
  <2>3. \A a \in {"over", "broken"}, m \in {"completed", "aborted"} :
           [delivery EXCEPT ![k].at = a, ![k].marker = m] \in [Kids -> Deliveries]
    BY <2>1, <2>2
  <2>4. delivery' \in [Kids -> Deliveries]
    BY <2>3 DEF DeliverEnd
  <2> QED BY <2>4 DEF EngCore, DeliverEnd, EngTypeOK
<1>2. TreeFollowsRun' /\ RunInPhase'
  BY DEF EngCore, DeliverEnd, TreeFollowsRun, RunInPhase, EngTypeOK, Body, RunEnds, Terminal, Active,
     KidsInPhase, OwnQuiescent, Before, After
<1>3. KidsInPhase'
  BY DEF EngCore, DeliverEnd, KidsInPhase, RunInPhase, Before, After, Executing, OwnJoined, OwnQuiescent,
     Active, EngTypeOK, Body, RunEnds, Terminal
<1>4. DeliveriesInPhase' /\ DeliveredOnce'
  <2>1. /\ UNCHANGED <<pc, cf, kid>> /\ delivery[k].at = "showing" /\ lock' = "free"
        /\ delivery \in [Kids -> Deliveries]
    BY DEF DeliverEnd, mainVars, hostVars, EngCore, EngTypeOK
  <2>2. PICK a \in {"over", "broken"}, m \in {"completed", "aborted"} :
           delivery' = [delivery EXCEPT ![k].at = a, ![k].marker = m]
    BY DEF DeliverEnd
  <2>3. \A j \in Kids : /\ delivery'[j].at = IF j = k THEN a ELSE delivery[j].at
                        /\ delivery'[j].marker = IF j = k THEN m ELSE delivery[j].marker
                        /\ delivery'[j].shows = delivery[j].shows
    BY <2>1, <2>2 DEF Deliveries
  <2>4. cf.presents /\ pc \notin {"present", "showing", "commit"} /\ kid[k].joined # "no" /\ pc \notin After
    BY <2>1 DEF EngCore, DeliveriesInPhase, JoinOver, After
  <2> QED BY <2>1, <2>3, <2>4, EngineAssumption
          DEF EngCore, DeliveriesInPhase, DeliveredOnce, JoinOver, KidSettled, EngineAssumption
<1>5. BudgetFits'
  BY EngineAssumption DEF EngCore, DeliverEnd, BudgetFits, RoundsFit, EngTypeOK, EngineAssumption
<1>6. ReportsInPhase' /\ job'.told \subseteq journal'
  BY DEF EngCore, DeliverEnd, ReportsInPhase, EngTypeOK, JobRecords, Waiting
<1> QED BY <1>1, <1>2, <1>3, <1>4, <1>5, <1>6 DEF EngCore

\* _require_parent_delivery_settled: the receiver tasks, then the public lane.
LEMMA AwaitStep ==
    ASSUME EngCore, Await
    PROVE  EngCore'
<1> USE DEF mainVars, loopVars, treeVars, jobVars, hostVars
<1>1. EngTypeOK'
  <2>1. IsRun(run')
    BY Endings DEF EngCore, Await
  <2> QED BY <2>1 DEF EngCore, Await, EngTypeOK, IsRun, Body
<1>2. TreeFollowsRun' /\ RunInPhase'
  BY DEF EngCore, Await, TreeFollowsRun, RunInPhase, EngTypeOK, Body, RunEnds, Terminal, Active,
     KidsInPhase, OwnQuiescent, Before, After, FailRun, CancelRun, CompleteRun, RunSettled, StageFailure
<1>3. KidsInPhase'
  BY DEF EngCore, Await, KidsInPhase, RunInPhase, Before, After, Executing, OwnJoined, OwnQuiescent, Active,
     EngTypeOK, Body, RunEnds, Terminal, FailRun, CancelRun, CompleteRun, RunSettled, StageFailure
<1>4. DeliveriesInPhase' /\ DeliveredOnce'
  <2>1. /\ UNCHANGED <<cf, kid, delivery, lock>> /\ pc = "await"
        /\ pc' \in {"close", "present", "commit"}
        /\ \A k \in Kids : kid[k].joined = "receiver" => JoinOver(k)
        /\ pc' # "close" => ~Unreconciled
    BY DEF Await, treeVars, hostVars
  <2>2. \A k \in Kids : kid[k].joined # "no" => JoinOver(k)
    BY <2>1 DEF EngCore, DeliveriesInPhase, EngTypeOK, KidRecords, Executing
  <2> QED BY <2>1, <2>2
          DEF EngCore, DeliveriesInPhase, DeliveredOnce, JoinOver, KidSettled, Unreconciled, Executing,
              After
<1>5. BudgetFits'
  BY EngineAssumption DEF EngCore, Await, BudgetFits, RoundsFit, EngTypeOK, EngineAssumption
<1>6. ReportsInPhase' /\ job'.told \subseteq journal'
  BY DEF EngCore, Await, ReportsInPhase, EngTypeOK, JobRecords, Waiting
<1> QED BY <1>1, <1>2, <1>3, <1>4, <1>5, <1>6 DEF EngCore

\* CloseResults keeps the invariant.
LEMMA CloseResultsStep ==
    ASSUME EngCore, CloseResults
    PROVE  EngCore'
<1> USE DEF mainVars, loopVars, treeVars, jobVars, hostVars
<1>1. EngTypeOK'
  <2>1. kid \in [Kids -> KidRecords] /\ delivery \in [Kids -> Deliveries]
    BY DEF EngCore, EngTypeOK
  <2>2. KidsClosed \in [Kids -> KidRecords]
    <3>1. ASSUME NEW r \in KidRecords, NEW e \in RunEnds \cup {"none", "live"}
          PROVE  [r EXCEPT !.at = e, !.joined = "no", !.received = FALSE] \in KidRecords
      BY DEF KidRecords
    <3>2. \A k \in Kids : /\ kid[k] \in KidRecords /\ kid[k].at \in RunEnds \cup {"none", "live"}
                        /\ "canceled" \in RunEnds
      BY <2>1 DEF KidRecords, RunEnds
    <3> QED BY <3>1, <3>2 DEF KidsClosed
  <2>3. DeliveriesClosed \in [Kids -> Deliveries]
    <3>1. ASSUME NEW r \in Deliveries, NEW a \in {"idle", "queued", "showing", "over", "broken"},
                 NEW m \in {"none", "started", "completed", "aborted"}
          PROVE  [r EXCEPT !.at = a, !.marker = m] \in Deliveries
      BY DEF Deliveries
    <3>2. \A k \in Kids : /\ delivery[k] \in Deliveries
                          /\ delivery[k].at \in {"idle", "queued", "showing", "over", "broken"}
                          /\ delivery[k].marker \in {"none", "started", "completed", "aborted"}
      BY <2>1 DEF Deliveries
    <3> QED BY <3>1, <3>2 DEF DeliveriesClosed
  <2> QED BY <2>2, <2>3 DEF EngCore, CloseResults, EngTypeOK
<1>2. TreeFollowsRun' /\ RunInPhase'
  BY DEF EngCore, CloseResults, TreeFollowsRun, RunInPhase, EngTypeOK, Body, RunEnds, Terminal, Active,
     KidsInPhase, OwnQuiescent, Before, After
<1>3. KidsInPhase'
  <2>1. \A k \in Kids : /\ kid'[k].joined = "no" /\ kid'[k].asked = kid[k].asked
                        /\ Active(k)' => Active(k) /\ kid[k].joined = "no"
    <3>1. kid \in [Kids -> KidRecords]
      BY DEF EngCore, EngTypeOK
    <3>2. kid' = KidsClosed
      BY DEF CloseResults
    <3> QED BY <3>1, <3>2 DEF KidRecords, KidsClosed, Active
  <2>2. pc \in {"close", "suspend"} /\ pc' = (IF pc = "close" THEN "release" ELSE "parked") /\ run' = run
    BY DEF CloseResults
  <2> QED BY <2>1, <2>2 DEF EngCore, KidsInPhase, OwnJoined, OwnQuiescent, Before, Executing
<1>4. DeliveriesInPhase' /\ DeliveredOnce'
  <2>1. \A k \in Kids : /\ delivery'[k].shows = delivery[k].shows
                        /\ delivery'[k].marker \in {delivery[k].marker, "aborted"}
                        /\ delivery[k].at = "idle" => delivery'[k].at = "idle"
                        /\ delivery'[k].at \notin {"queued", "showing"}
    BY DEF EngCore, EngTypeOK, Deliveries, CloseResults, DeliveriesClosed
  <2>2. pc' \in {"release", "parked"} /\ lock' = "free" /\ cf' = cf
    BY DEF CloseResults
  <2> QED BY <2>1, <2>2, EngineAssumption
             DEF EngCore, DeliveriesInPhase, DeliveredOnce, After, Executing, EngineAssumption
<1>5. BudgetFits'
  BY EngineAssumption DEF EngCore, CloseResults, BudgetFits, RoundsFit, EngTypeOK, EngineAssumption
<1>6. ReportsInPhase' /\ job'.told \subseteq journal'
  BY DEF EngCore, CloseResults, ReportsInPhase, EngTypeOK, JobRecords, Waiting
<1> QED BY <1>1, <1>2, <1>3, <1>4, <1>5, <1>6 DEF EngCore

\* The process dies; what it kept in memory is gone.
LEMMA LoseProcessStep ==
    ASSUME EngCore, LoseProcess
    PROVE  EngCore'
<1> USE DEF mainVars, loopVars, treeVars, jobVars, hostVars
<1>1. EngTypeOK'
  <2>1. kid \in [Kids -> KidRecords] /\ delivery \in [Kids -> Deliveries] /\ job \in JobRecords
    BY DEF EngCore, EngTypeOK
  <2>2. kid' \in [Kids -> KidRecords]
    <3>1. \A r \in KidRecords : [r EXCEPT !.joined = "no", !.received = FALSE] \in KidRecords
      BY DEF KidRecords
    <3> QED BY <2>1, <3>1 DEF LoseProcess
  <2>3. delivery' \in [Kids -> Deliveries]
    <3>1. \A r \in Deliveries : [r EXCEPT !.at = "idle"] \in Deliveries
      BY DEF Deliveries
    <3> QED BY <2>1, <3>1 DEF LoseProcess
  <2>4. job' \in JobRecords
    BY <2>1, JobLost
  <2>5. tree' \in [root : RunEnds \cup {"none", "running"}, bound : BOOLEAN]
    <3>1. \A t \in [root : RunEnds \cup {"none", "running"}, bound : BOOLEAN] :
            [t EXCEPT !.bound = FALSE] \in [root : RunEnds \cup {"none", "running"}, bound : BOOLEAN]
      OBVIOUS
    <3>2. tree \in [root : RunEnds \cup {"none", "running"}, bound : BOOLEAN]
      BY DEF EngCore, EngTypeOK
    <3>3. tree' = [tree EXCEPT !.bound = FALSE]
      BY DEF LoseProcess
    <3> QED BY <3>1, <3>2, <3>3
  <2>6. queue' \in Seq(Updates)
    <3>1. queue' = <<>>
      BY DEF LoseProcess
    <3> QED BY <3>1
  <2> QED BY <2>2, <2>3, <2>4, <2>5, <2>6 DEF EngCore, LoseProcess, EngTypeOK
<1>2. TreeFollowsRun' /\ RunInPhase'
  BY DEF EngCore, LoseProcess, TreeFollowsRun, RunInPhase, EngTypeOK, Body, RunEnds, Terminal, Active,
     KidsInPhase, OwnQuiescent, Before, After
<1>3. KidsInPhase'
  <2>1. \A k \in Kids : kid'[k].joined = "no"
    BY DEF EngCore, EngTypeOK, KidRecords, LoseProcess
  <2>2. pc' = "dead"
    BY DEF LoseProcess
  <2> QED BY <2>1, <2>2 DEF KidsInPhase, Before, Executing
<1>4. DeliveriesInPhase' /\ DeliveredOnce'
  <2>1. \A k \in Kids : /\ delivery'[k].shows = delivery[k].shows /\ delivery'[k].marker = delivery[k].marker
                        /\ delivery'[k].at = "idle"
    BY DEF EngCore, EngTypeOK, Deliveries, LoseProcess
  <2>2. pc' = "dead" /\ lock' = "free" /\ cf' = cf
    BY DEF LoseProcess
  <2> QED BY <2>1, <2>2, EngineAssumption
             DEF EngCore, DeliveriesInPhase, DeliveredOnce, After, Executing, EngineAssumption
<1>5. BudgetFits'
  BY EngineAssumption DEF EngCore, LoseProcess, BudgetFits, RoundsFit, EngTypeOK, EngineAssumption
<1>6. ReportsInPhase' /\ job'.told \subseteq journal'
  <2>1. job \in JobRecords /\ queue \in Seq(Updates)
    BY DEF EngCore, EngTypeOK
  <2>2. /\ job'.at = "none" /\ job'.left = job.left /\ job'.told = job.told /\ job'.applied = 0
        /\ \A u \in WorkUnits : job'.waits[u] = "idle"
    BY <2>1, JobLost
  <2>3. queue' = <<>> /\ journal' = journal
    BY DEF LoseProcess
  <2>4. Len(queue) \in Nat /\ job.left \in Nat
    BY <2>1, JobShape
  <2>5. Len(queue') = 0
    BY <2>3
  <2> QED BY <2>2, <2>3, <2>4, <2>5, EngineAssumption DEF EngCore, ReportsInPhase, Waiting, EngineAssumption
<1> QED BY <1>1, <1>2, <1>3, <1>4, <1>5, <1>6 DEF EngCore

\* AgentCore.resume: an open Run with a checkpoint and no delivery to reconcile.
LEMMA ResumeRunStep ==
    ASSUME EngCore, ResumeRun
    PROVE  EngCore'
<1> USE DEF mainVars, loopVars, treeVars, jobVars, hostVars
<1>1. EngTypeOK'
  <2>1. delivery \in [Kids -> Deliveries]
    BY DEF EngCore, EngTypeOK
  <2>2. delivery' \in [Kids -> Deliveries]
    <3>1. \A r \in Deliveries : [r EXCEPT !.at = "idle"] \in Deliveries
      BY DEF Deliveries
    <3> QED BY <2>1, <3>1 DEF ResumeRun
  <2>3. Restored \in RoundCounts /\ checkpoint.promoted \in Promotions
    <3>1. /\ checkpoint \in Checkpoints /\ checkpoint.next > 0 /\ RangeOf(MaxRounds) \in Nat
      BY EngineAssumption DEF ResumeRun, EngCore, EngTypeOK, EngineAssumption, RangeOf
    <3>2. /\ checkpoint.all \in Nat /\ checkpoint.next - 1 \in Nat /\ checkpoint.limit \in Nat
          /\ checkpoint.more \in 0..ExtraRounds /\ checkpoint.final \in BOOLEAN
          /\ checkpoint.promoted \in Promotions
      BY <3>1 DEF Checkpoints
    <3> QED BY <3>1, <3>2 DEF Restored, RoundCounts
  <2>4. cf' \in Submissions
    BY DEF ResumeRun, EngCore, EngTypeOK, Submissions, Begins
  <2>5. lives' \in 1..MaxLives
    BY EngineAssumption DEF ResumeRun, EngCore, EngTypeOK, EngineAssumption
  <2> QED BY <2>2, <2>3, <2>4, <2>5 DEF EngCore, ResumeRun, EngTypeOK
<1>2. TreeFollowsRun' /\ RunInPhase'
  BY DEF EngCore, ResumeRun, TreeFollowsRun, RunInPhase, EngTypeOK, Body, RunEnds, Terminal, Active,
     KidsInPhase, OwnQuiescent, Before, After
<1>3. KidsInPhase'
  <2>1. kid' = kid /\ pc \in {"dead", "parked", "refused"} /\ pc' = "start" /\ cf'.begin = "checkpoint"
    BY DEF ResumeRun, EngCore, EngTypeOK, Submissions
  <2> QED BY <2>1 DEF EngCore, KidsInPhase, Before, After, Executing
<1>4. DeliveriesInPhase' /\ DeliveredOnce'
  <2>1. \A k \in Kids : /\ delivery'[k].shows = delivery[k].shows /\ delivery'[k].marker = delivery[k].marker
                        /\ delivery'[k].at = "idle"
    BY DEF EngCore, EngTypeOK, Deliveries, ResumeRun
  <2>2. pc' = "start" /\ lock' = lock /\ kid' = kid /\ \A k \in Kids : lock # k
    BY DEF ResumeRun, EngCore, DeliveriesInPhase, After
  <2> QED BY <2>1, <2>2 DEF EngCore, DeliveriesInPhase, DeliveredOnce, After, Executing
<1>5. BudgetFits'
  <2>1. /\ rounds'.all = checkpoint.all /\ rounds'.here = checkpoint.next - 1
        /\ rounds'.limit = checkpoint.limit /\ rounds'.last = RangeOf(MaxRounds)
        /\ rounds'.more = checkpoint.more /\ rounds'.final = checkpoint.final
        /\ promoted' = checkpoint.promoted /\ checkpoint' = checkpoint /\ checkpoint.next > 0
    BY DEF ResumeRun, Restored
  <2>2. RoundsFit(checkpoint, checkpoint.next - 1, checkpoint.promoted) /\ checkpoint.limit >= 1
    BY <2>1 DEF EngCore, BudgetFits
  <2>3. cf'.begin = "checkpoint"
    BY DEF ResumeRun, EngCore, EngTypeOK, Submissions
  <2>4. RoundsFit(rounds', rounds'.here, promoted')
    BY <2>1, <2>2 DEF RoundsFit
  <2>5. RangeOf(MaxRounds) \in Nat
    BY EngineAssumption DEF EngineAssumption, RangeOf
  <2>6. rounds'.here <= RangeOf(MaxRounds)
    BY <2>4 DEF RoundsFit
  <2> QED BY <2>1, <2>2, <2>3, <2>4, <2>5, <2>6 DEF BudgetFits
<1>6. ReportsInPhase' /\ job'.told \subseteq journal'
  BY DEF EngCore, ResumeRun, ReportsInPhase, EngTypeOK, JobRecords, Waiting
<1> QED BY <1>1, <1>2, <1>3, <1>4, <1>5, <1>6 DEF EngCore

----------------------------------------------------------------------------
(* Together. *)

\* EngInitOK: the inductive invariant holds when a Run is submitted.
LEMMA EngInitOK ==
    ASSUME EngInit
    PROVE  EngCore
<1>1. pc = "submit" /\ lock = "free"
  BY DEF EngInit
<1>2. queue = <<>> /\ journal = {}
  BY DEF EngInit
<1>3. ASSUME NEW k \in Kids
      PROVE  /\ ~kid[k].asked /\ kid[k].joined = "no"
             /\ delivery[k].at = "idle" /\ delivery[k].marker = "none" /\ delivery[k].shows = 0
  BY DEF EngInit, NoKid, NoDelivery
<1>4. /\ job \in JobRecords /\ job.at = "none" /\ job.left = MaxUpdates /\ job.applied = 0 /\ job.told = {}
      /\ \A u \in WorkUnits : job.waits[u] = "idle"
  BY EngineAssumption DEF EngInit, NoJob, JobRecords, EngineAssumption
<1>5. MaxRounds \in Nat \ {0} /\ ExtraRounds \in Nat /\ MaxLives \in Nat \ {0} /\ MaxUpdates \in Nat
  BY EngineAssumption DEF EngineAssumption
<1>6. EngTypeOK
  <2>1. kid \in [Kids -> KidRecords]
    <3>1. NoKid \in KidRecords
      BY DEF NoKid, KidRecords
    <3> QED BY <3>1 DEF EngInit
  <2>2. delivery \in [Kids -> Deliveries]
    <3>1. NoDelivery \in Deliveries
      BY DEF NoDelivery, Deliveries
    <3> QED BY <3>1 DEF EngInit
  <2>3. queue \in Seq(Updates)
    BY <1>2
  <2>4. rounds \in RoundCounts
    <3>1. RangeOf(MaxRounds) \in Nat /\ 0 \in 0..ExtraRounds
      BY <1>5 DEF RangeOf
    <3> QED BY <1>5, <3>1 DEF EngInit, FreshRounds, RoundCounts
  <2>5. checkpoint \in Checkpoints
    <3>1. 0 \in 0..ExtraRounds
      BY <1>5
    <3> QED BY <3>1 DEF EngInit, NoCheckpoint, Checkpoints, Promotions
  <2>6. lives \in 1..MaxLives
    <3>1. lives = 1
      BY DEF EngInit
    <3> QED BY <1>5, <3>1
  <2>7. tree \in [root : RunEnds \cup {"none", "running"}, bound : BOOLEAN]
    BY DEF EngInit
  <2>8. /\ run = [status |-> run.status, error |-> run.error, shown |-> run.shown]
        /\ run.status \in RunEnds \cup {"none", "running"} /\ run.shown \in {"none", "completed", "failed"}
    BY DEF EngInit
  <2>9. cf \in Submissions /\ stop = {} /\ promoted \in Promotions /\ held = {}
    BY DEF EngInit, Promotions
  <2> QED BY <1>1, <1>2, <1>4, <2>1, <2>2, <2>3, <2>4, <2>5, <2>6, <2>7, <2>8, <2>9 DEF EngTypeOK
<1>7. TreeFollowsRun
  BY <1>1 DEF TreeFollowsRun
<1>8. RunInPhase
  <2>1. run.status = "none"
    BY DEF EngInit
  <2> QED BY <1>1, <2>1 DEF RunInPhase
<1>9. KidsInPhase
  BY <1>1, <1>3 DEF KidsInPhase, Before, After, Executing
<1>10. DeliveriesInPhase /\ DeliveredOnce
  <2>1. \A k \in Kids : lock # k
    BY <1>1, EngineAssumption DEF EngineAssumption
  <2> QED BY <1>1, <1>3, <2>1 DEF DeliveriesInPhase, DeliveredOnce, Executing, After
<1>11. BudgetFits
  <2>1. /\ rounds.all = 0 /\ rounds.here = 0 /\ rounds.limit = MaxRounds /\ rounds.more = 0
        /\ rounds.last = RangeOf(MaxRounds) /\ promoted = "no" /\ checkpoint.next = 0
    BY DEF EngInit, NoCheckpoint, FreshRounds
  <2> QED BY <1>5, <2>1 DEF BudgetFits, RoundsFit, RangeOf
<1>12. ReportsInPhase /\ job.told \subseteq journal
  <2>1. Len(queue) = 0
    BY <1>2
  <2> QED BY <1>4, <1>5, <2>1 DEF ReportsInPhase, Waiting
<1> QED BY <1>6, <1>7, <1>8, <1>9, <1>10, <1>11, <1>12 DEF EngCore

\* EngStep: every step keeps the inductive invariant, and so does a step of others.
LEMMA EngStep ==
    ASSUME EngCore, [EngNext]_engVars
    PROVE  EngCore'
<1>1. CASE Main
  BY <1>1, SubmitStep, StartOrAttachStep, BindTreeStep, RouteStep, ReserveStep, PlanStep, PrepareStep,
     DriveStep, HandoverStep, ApplyUpdateStep, AcknowledgeStep, DurableDoneStep, WithdrawStep,
     SettleRunStep, AwaitStep, PresentStep, EndPresentationStep, CommitStep, CloseResultsStep, ReleaseStep,
     SettleTreeStep, ResumeChildrenStep, RejoinStep
     DEF Main
<1>2. CASE DriveLoop
  BY <1>2, RoundStep, SaveCheckpointStep, PromoteStep, PromoteRefusedStep, SuspendStep DEF DriveLoop
<1>3. CASE Children
  BY <1>3, KidEndsStep, DeliverQueueStep, DeliverStartStep, DeliverEndStep DEF Children
<1>4. CASE Executor
  BY <1>4, JobReturnsStep, ContinueStep DEF Executor
<1>5. CASE Host
  BY <1>5, DelegateStep, HostSpawnStep, ReceiveStep, ObserveStep, StopRunStep, InterruptRunStep,
     LoseProcessStep, ResumeRunStep DEF Host
<1>6. CASE UNCHANGED engVars
  <2>1. /\ pc' = pc /\ run' = run /\ result' = result /\ rounds' = rounds /\ promoted' = promoted
        /\ checkpoint' = checkpoint /\ tree' = tree /\ kid' = kid /\ delivery' = delivery /\ lock' = lock
        /\ job' = job /\ queue' = queue /\ journal' = journal /\ cf' = cf /\ stop' = stop
        /\ held' = held /\ lives' = lives
    BY <1>6 DEF engVars, mainVars, loopVars, treeVars, jobVars, hostVars
  <2>2. EngTypeOK' /\ TreeFollowsRun' /\ DeliveredOnce' /\ RunInPhase' /\ BudgetFits'
    BY <2>1
       DEF EngCore, EngTypeOK, TreeFollowsRun, DeliveredOnce, RunInPhase, BudgetFits, Terminal, Active,
           OwnQuiescent
  <2>3. KidsInPhase' /\ DeliveriesInPhase'
    BY <2>1
       DEF EngCore, KidsInPhase, DeliveriesInPhase, OwnJoined, OwnQuiescent, Active, Unreconciled, JoinOver,
           KidSettled
  <2>4. ReportsInPhase' /\ job'.told \subseteq journal'
    BY <2>1 DEF EngCore, ReportsInPhase, Waiting
  <2> QED BY <2>2, <2>3, <2>4 DEF EngCore
<1> QED BY <1>1, <1>2, <1>3, <1>4, <1>5, <1>6 DEF EngNext

\* CoreSuffices: the inductive invariant says all that EngineInv says.  The lock
\* is free or the answer's own once the last barrier is passed, because its other
\* holders show something and nothing is left to be shown then.
LEMMA CoreSuffices ==
    ASSUME EngCore
    PROVE  EngineInv
<1>1. FinalBehindBarriers
  <2>1. SUFFICES ASSUME pc \in {"showing", "commit"}
                 PROVE  OwnQuiescent /\ ~Unreconciled /\ lock \in {"free", "final"}
    BY DEF FinalBehindBarriers
  <2>2. OwnQuiescent /\ ~Unreconciled
    BY <2>1 DEF EngCore, KidsInPhase, DeliveriesInPhase
  <2>3. ASSUME NEW k \in Kids PROVE lock # k
    <3>1. delivery[k].at # "showing"
      BY <2>1 DEF EngCore, DeliveriesInPhase, JoinOver, After
    <3> QED BY <3>1 DEF EngCore, DeliveriesInPhase
  <2> QED BY <2>2, <2>3 DEF EngCore, EngTypeOK
<1>2. RoundBudget
  <2>1. /\ rounds.all \in Nat /\ rounds.here \in Nat /\ rounds.limit \in Nat /\ rounds.last \in Nat
        /\ rounds.more \in Nat /\ MaxRounds \in Nat /\ ExtraRounds \in Nat
    BY EngineAssumption DEF EngCore, EngTypeOK, RoundCounts, EngineAssumption
  <2>2. /\ RoundsFit(rounds, rounds.here, promoted) /\ rounds.here <= rounds.last
        /\ cf.begin # "checkpoint" => rounds.all - rounds.here + rounds.last <= RangeOf(MaxRounds)
    BY DEF EngCore, BudgetFits
  <2>3. ~rounds.final => rounds.all <= MaxRounds + rounds.more
    BY <2>1, <2>2 DEF RoundsFit
  <2>4. cf.begin # "checkpoint" => rounds.all <= RangeOf(MaxRounds)
    BY <2>1, <2>2 DEF RangeOf
  <2>5. rounds.all < RangeOf(MaxRounds) + (IF promoted = "initial" THEN MaxRounds ELSE 1)
    BY <2>1, <2>2 DEF RoundsFit, RangeOf
  <2> QED BY <2>3, <2>4, <2>5 DEF RoundBudget
<1>3. ToldIsPersisted
  BY DEF EngCore, ReportsInPhase, ToldIsPersisted
<1> QED BY <1>1, <1>2, <1>3 DEF EngCore, EngineInv

\* EngineInvariant: through every interleaving of _execute_run with the stop
\* signal, its children, the deliveries, a durable task, crashes and
\* resumptions, EngineInv holds.
THEOREM EngineInvariant == EngSpec => []EngineInv
<1>1. EngInit => EngCore
  BY EngInitOK
<1>2. EngCore /\ [EngNext]_engVars => EngCore'
  BY EngStep
<1>3. EngCore => EngineInv
  BY CoreSuffices
<1> QED BY <1>1, <1>2, <1>3, PTL DEF EngSpec

\* A Run that has ended stays as it is, whatever asks the controller next.
LEMMA EndedStays ==
    ASSUME Terminal
    PROVE  /\ \A code : FailRun(code) = run /\ CancelRun(code) = run /\ RunSettled(code) = run
                       /\ StageFailure(code) = run
           /\ \A shown : CompleteRun(shown) = run
BY DEF FailRun, CancelRun, RunSettled, StageFailure, CompleteRun

\* OutcomeStep: no step replaces what a Run has ended with.  The two that write the
\* Run without asking the controller - the start, and the attachment of a persisted
\* Run - happen only while it is open, which is what RunInPhase is for.
LEMMA OutcomeStep ==
    ASSUME EngCore, [EngNext]_engVars
    PROVE  OutcomeStands
<1>0. SUFFICES ASSUME Terminal PROVE run' = run
  BY DEF OutcomeStands
<1>1. ASSUME StartOrAttach PROVE FALSE
  BY <1>0, <1>1 DEF EngCore, RunInPhase, StartOrAttach, Terminal, RunEnds
<1>2. CASE Main
  <2>1. CASE Submit \/ BindTree \/ Drive \/ ApplyUpdate \/ Acknowledge \/ CloseResults \/ SettleTree
             \/ \E k \in Kids : Rejoin(k)
    BY <2>1
       DEF Submit, BindTree, Drive, ApplyUpdate, Acknowledge, CloseResults, SettleTree, Rejoin, mainVars
  <2>2. CASE Route \/ Reserve \/ Plan \/ Prepare
    BY <1>0, <2>2, EndedStays DEF Route, Reserve, Plan, Prepare
  <2>3. CASE Handover \/ DurableDone \/ Withdraw
    BY <1>0, <2>3, EndedStays DEF Handover, DurableDone, Withdraw
  <2>4. CASE SettleRun \/ Await \/ Present \/ EndPresentation \/ Commit
    BY <1>0, <2>4, EndedStays DEF SettleRun, Await, Present, EndPresentation, Commit
  <2>5. CASE Release \/ ResumeChildren
    BY <1>0, <2>5, EndedStays DEF Release, ResumeChildren
  <2> QED BY <1>1, <1>2, <2>1, <2>2, <2>3, <2>4, <2>5 DEF Main
<1>3. CASE DriveLoop
  BY <1>0, <1>3, EndedStays DEF DriveLoop, Round, SaveCheckpoint, Promote, PromoteRefused, Suspend, mainVars
<1>4. CASE Children \/ Executor
  BY <1>4
     DEF Children, Executor, KidEnds, DeliverQueue, DeliverStart, DeliverEnd, JobReturns, Continue, mainVars
<1>5. CASE Host
  BY <1>5
     DEF Host, Delegate, HostSpawn, Receive, Observe, StopRun, InterruptRun, LoseProcess, ResumeRun,
         mainVars
<1>6. CASE UNCHANGED engVars
  BY <1>6 DEF engVars, mainVars
<1> QED BY <1>2, <1>3, <1>4, <1>5, <1>6 DEF EngNext

\* OutcomeIsFinal: what a Run ended with is never replaced: not by the settlement that
\* follows a phase which had already ended it, nor by the finally block's cancellation,
\* a late stop, or an execution that is resumed (AgentRunController, _execute_run).
THEOREM OutcomeIsFinal == EngSpec => [][OutcomeStands]_engVars
<1>1. EngInit => EngCore
  BY EngInitOK
<1>2. EngCore /\ [EngNext]_engVars => EngCore'
  BY EngStep
<1>3. EngCore /\ [EngNext]_engVars => [OutcomeStands]_engVars
  BY OutcomeStep
<1> QED BY <1>1, <1>2, <1>3, PTL DEF EngSpec
===============================================================================
