---------------------------- MODULE StoresProofs ----------------------------
(***************************************************************************)
(* Proofs about the two stores of MCStores.                                *)
(*                                                                         *)
(* Part 1, MemoryJournal, for every set of threads, keys and records and   *)
(* all bounds, with managed and raw adapters: where no write is under way  *)
(* the SDK holds what the journal committed, what a managed adapter        *)
(* extracted becomes a record only verified, an answer is current when it  *)
(* is given, no committed change is undone and no repair completes an      *)
(* extraction whose provider failed. The fence lets one thread work on one *)
(* operation, and nobody takes the operation up while the thread before is *)
(* on its way out (FenceInv). A step of that thread is an instance of      *)
(* WorkStep: every other key is unfenced and every other thread only       *)
(* reads, so what is left to show is the plan of the operation and what    *)
(* the thread relies on next. Steps that leave the journal and the SDK     *)
(* alone are instances of ReadStep; an error that reaches the plan after   *)
(* the work is MarkStep. The assumption is that repairs of one key do not  *)
(* overlap, which the adapter leaves to the host.                          *)
(*                                                                         *)
(* Part 2, Artifacts, for every set of workers, Runs, artifacts, keys and  *)
(* contents and all bounds: the coverage of an artifact is committed once, *)
(* a finalized artifact is what was validated, claims and the owner index  *)
(* fit the records, maintenance spares what is live and what was committed *)
(* stays.  The lifecycle checks a command against records it read before   *)
(* an await.  The argument is about the revision: no worker knows a        *)
(* revision later than the artifact's (Knows), every store call that       *)
(* changes the artifact counts it up, so whoever still finds the revision  *)
(* it knows finds the batches it checked.  A step that only moves a worker *)
(* is an instance of WorkerStep; the store calls are taken one by one.     *)
(***************************************************************************)
EXTENDS Artifacts, MemoryJournal, SequenceTheorems, FiniteSetTheorems, TLAPS

-----------------------------------------------------------------------------
(* Frames.                                                                 *)

\* No thread is on its way out of an operation on this key.
NoneLeaving(k) == \A q \in Procs : job[q].at = "final" => job[q].key # k

\* The plan of an operation that is not fenced, in a step that leaves it alone
\* and writes nothing under its key.
LEMMA PlanFrame ==
    ASSUME NEW k \in OpKeys, PlanSound(k), ops'[k] = ops[k], ops[k].st \notin ScopeFenced,
           \A i \in MemIds : /\ sdk'[i] = k => sdk[i] = k
                             /\ rows'[i].op = k => rows[i].op = k
    PROVE  PlanSound(k)'
BY DEF PlanSound

\* What a thread that does not work on an operation has read stays true of the
\* epoch it was read in.
LEMMA ReaderFrame ==
    ASSUME NEW q \in Procs, JobSound(q), ~AtWork(q), job'[q] = job[q],
           memEpoch \in Nat, memEpoch' \in Nat, job[q].epoch \in Nat,
           job[q].epoch <= memEpoch, memEpoch <= memEpoch',
           memEpoch' = memEpoch => UNCHANGED <<rows, revoked, withdrawn>>
    PROVE  JobSound(q)'
<1>1. job[q].at \notin WritingSteps \cup ReviewSteps \cup RepairSteps \cup {"fail"}
  BY DEF AtWork
<1>2. job[q].at \in {"body", "answer"} /\ job'[q].epoch = memEpoch' =>
         rows'[job'[q].id] = job'[q].row /\ ~Hidden(job[q].row)'
  <2> SUFFICES ASSUME job[q].at \in {"body", "answer"}, job'[q].epoch = memEpoch'
               PROVE  rows'[job'[q].id] = job'[q].row /\ ~Hidden(job[q].row)'
    OBVIOUS
  <2>1. memEpoch' = memEpoch
    OBVIOUS
  <2> QED BY <2>1 DEF JobSound, Hidden
<1> QED BY <1>1, <1>2 DEF JobSound, WritingSteps, ReviewSteps, RepairSteps

\* The rules change, the journal's records and the threads do not.
LEMMA RuleStep ==
    ASSUME MemoryInv, UNCHANGED <<ops, rows, sdk, calls, managed, job>>,
           memEpoch' \in Nat, memEpoch <= memEpoch',
           memEpoch' = memEpoch => UNCHANGED <<revoked, withdrawn>>
    PROVE  MemoryInv'
<1>1. MemTypeOK'
  <2>1. \A p \in Procs : job[p].epoch \in Nat /\ job[p].epoch <= memEpoch /\ memEpoch \in Nat
    BY DEF MemoryInv, MemTypeOK, MemoryJob
  <2>2. \A p \in Procs : job[p].epoch <= memEpoch'
    BY <2>1
  <2> QED BY <2>2 DEF MemoryInv, MemTypeOK
<1>2. FenceInv' /\ ContentMatches' /\ ExtractionsVerified'
  BY DEF MemoryInv, FenceInv, AtWork, ContentMatches, Writing, ExtractionsVerified
<1>3. ASSUME NEW k \in OpKeys
      PROVE  PlanSound(k)'
  BY DEF MemoryInv, PlanSound, TargetIntact
<1>4. ASSUME NEW p \in Procs
      PROVE  JobSound(p)'
  <2>1. CASE AtWork(p)
    <3>1. job[p].at \notin {"control", "body", "answer"}
      BY <2>1 DEF AtWork, WritingSteps, ReviewSteps, RepairSteps
    <3>2. /\ TargetIntact(job[p].key)' <=> TargetIntact(job[p].key)
          /\ Unverified(job[p].key)' <=> Unverified(job[p].key)
          /\ Landed(job[p].key)' <=> Landed(job[p].key)
      BY DEF TargetIntact, Unverified, Landed
    <3> QED BY <3>1, <3>2 DEF MemoryInv, JobSound
  <2>2. CASE ~AtWork(p)
    BY <2>2, ReaderFrame DEF MemoryInv, MemTypeOK, MemoryJob
  <2> QED BY <2>1, <2>2
<1> QED BY <1>1, <1>2, <1>3, <1>4 DEF MemoryInv

\* A thread moves on while the journal and the SDK stay as they are.
LEMMA ReadStep ==
    ASSUME MemoryInv, NEW p \in Procs, UNCHANGED <<ops, rows, sdk, memEpoch, ruleVars>>,
           calls' \in 0..MaxCalls, job' \in [Procs -> MemoryJob],
           \A q \in Procs \ {p} : job'[q] = job[q],
           job'[p].epoch <= memEpoch,
           AtWork(p)' => AtWork(p) /\ job'[p].key = job[p].key,
           job'[p].at = "final" => job[p].at = "final" /\ job'[p].key = job[p].key,
           JobSound(p)'
    PROVE  MemoryInv'
<1>1. MemTypeOK'
  BY DEF MemoryInv, MemTypeOK, ruleVars
<1>2. \A q \in Procs : AtWork(q)' => AtWork(q) /\ job'[q].key = job[q].key
  BY DEF AtWork
<1>3. FenceInv'
  <2>1. \A q \in Procs : job'[q].at = "final" => job[q].at = "final" /\ job'[q].key = job[q].key
    OBVIOUS
  <2> QED BY <1>2, <2>1 DEF MemoryInv, FenceInv
<1>4. ContentMatches' /\ ExtractionsVerified'
  BY DEF MemoryInv, ContentMatches, Writing, ExtractionsVerified
<1>5. ASSUME NEW k \in OpKeys
      PROVE  PlanSound(k)'
  BY DEF MemoryInv, PlanSound, TargetIntact
<1>6. ASSUME NEW q \in Procs, q # p
      PROVE  JobSound(q)'
  <2>1. /\ TargetIntact(job[q].key)' <=> TargetIntact(job[q].key)
        /\ Unverified(job[q].key)' <=> Unverified(job[q].key)
        /\ Landed(job[q].key)' <=> Landed(job[q].key)
        /\ Hidden(job[q].row)' <=> Hidden(job[q].row)
    BY <1>6 DEF TargetIntact, Unverified, Landed, Hidden, ruleVars
  <2>2. managed' = managed
    BY DEF ruleVars
  <2> QED BY <1>6, <2>1, <2>2 DEF MemoryInv, JobSound
<1> QED BY <1>1, <1>3, <1>4, <1>5, <1>6 DEF MemoryInv

\* The thread that works on an operation, or takes one up, changes its plan,
\* the SDK under its key or its records.
LEMMA WorkStep ==
    ASSUME MemoryInv, NEW p \in Procs, NEW k \in OpKeys, MemTypeOK',
           \A j \in OpKeys \ {k} : ops'[j] = ops[j] /\ ops[j].st \notin ScopeFenced,
           \A q \in Procs \ {p} : job'[q] = job[q] /\ ~AtWork(q),
           \A i \in MemIds, j \in OpKeys \ {k} : /\ sdk'[i] = j => sdk[i] = j
                                                 /\ rows'[i].op = j => rows[i].op = j,
           memEpoch <= memEpoch', memEpoch' = memEpoch => rows' = rows,
           UNCHANGED ruleVars, NoneLeaving(k),
           AtWork(p)' => job'[p].key = k /\ ops'[k].st \in ScopeFenced,
           job'[p].at = "final" => job'[p].key = k /\ ops'[k].st # "none",
           PlanSound(k)', JobSound(p)', ContentMatches',
           ops'[k].kind = "extract" =>
              /\ ops'[k].st = "complete" /\ ops'[k].managed => ops'[k].verified
              /\ ops'[k].st = "discarded" => \A i \in MemIds : sdk'[i] # k /\ rows'[i].op # k
    PROVE  MemoryInv'
<1>1. \A q \in Procs \ {p} : ~AtWork(q)'
  BY DEF AtWork
<1>2. FenceInv'
  <2>1. /\ \A x, j \in OpKeys :
             ops'[x].st \in ScopeFenced /\ ops'[j].st \in ScopeFenced => x = j
        /\ \A q \in Procs : AtWork(q)' =>
             job'[q].key \in OpKeys /\ ops'[job'[q].key].st \in ScopeFenced
        /\ \A q, r \in Procs : AtWork(q)' /\ AtWork(r)' => q = r
    BY <1>1
  <2>2. ASSUME NEW q \in Procs, job'[q].at = "final"
        PROVE  /\ job'[q].key \in OpKeys /\ ops'[job'[q].key].st # "none"
               /\ \A r \in Procs : AtWork(r)' => job'[r].key # job'[q].key
    <3>1. CASE q = p
      <4>1. ~AtWork(p)'
        BY <2>2, <3>1 DEF AtWork, WritingSteps, ReviewSteps, RepairSteps
      <4> QED BY <1>1, <2>2, <3>1, <4>1
    <3>2. CASE q # p
      <4>1. job[q].at = "final" /\ job'[q].key = job[q].key /\ job[q].key \in OpKeys
            /\ ops[job[q].key].st # "none" /\ job[q].key # k
        BY <2>2, <3>2 DEF MemoryInv, FenceInv, NoneLeaving
      <4> QED BY <1>1, <4>1
    <3> QED BY <3>1, <3>2
  <2> QED BY <2>1, <2>2 DEF FenceInv
<1>3. ASSUME NEW j \in OpKeys
      PROVE  PlanSound(j)'
  <2>1. CASE j = k
    BY <2>1
  <2>2. CASE j # k
    BY <2>2, PlanFrame DEF MemoryInv
  <2> QED BY <2>1, <2>2
<1>4. ASSUME NEW q \in Procs
      PROVE  JobSound(q)'
  <2>1. CASE q = p
    BY <2>1
  <2>2. CASE q # p
    <3>1. /\ memEpoch \in Nat /\ memEpoch' \in Nat /\ job[q].epoch \in Nat
          /\ job[q].epoch <= memEpoch /\ job'[q] = job[q] /\ ~AtWork(q)
      BY <2>2 DEF MemoryInv, MemTypeOK, MemoryJob
    <3>2. memEpoch' = memEpoch => UNCHANGED <<rows, revoked, withdrawn>>
      BY DEF ruleVars
    <3> QED BY <3>1, <3>2, ReaderFrame DEF MemoryInv
  <2> QED BY <2>1, <2>2
<1>5. ExtractionsVerified'
  <2> SUFFICES ASSUME NEW j \in OpKeys, ops'[j].kind = "extract"
               PROVE  /\ ops'[j].st = "complete" /\ ops'[j].managed => ops'[j].verified
                      /\ ops'[j].st = "discarded" =>
                            \A i \in MemIds : sdk'[i] # j /\ rows'[i].op # j
    BY DEF ExtractionsVerified
  <2>1. CASE j = k
    BY <2>1
  <2>2. CASE j # k
    BY <2>2 DEF MemoryInv, ExtractionsVerified
  <2> QED BY <2>1, <2>2
<1> QED BY <1>2, <1>3, <1>4, <1>5 DEF MemoryInv

-----------------------------------------------------------------------------
(* Who is at work, and how threads move.                                   *)

\* A thread at work holds the only fenced operation, and no other is at work.
LEMMA SoleWorker ==
    ASSUME MemoryInv, NEW p \in Procs, AtWork(p)
    PROVE  /\ job[p].key \in OpKeys /\ ops[job[p].key].st \in ScopeFenced
           /\ \A j \in OpKeys \ {job[p].key} : ops[j].st \notin ScopeFenced
           /\ \A q \in Procs \ {p} : ~AtWork(q)
           /\ NoneLeaving(job[p].key)
BY DEF MemoryInv, FenceInv, NoneLeaving

\* While the fence is free nobody is at work.
LEMMA NobodyAtWork ==
    ASSUME MemoryInv, FenceFree
    PROVE  \A q \in Procs : ~AtWork(q)
BY DEF MemoryInv, FenceInv, FenceFree

\* A repair starts when no thread is left that works on the key.
LEMMA RepairAlone ==
    ASSUME MemoryInv, ~TwinRepair, NEW k \in OpKeys, ops[k].st \in ScopeFenced,
           WriterStopped(k)
    PROVE  /\ \A j \in OpKeys \ {k} : ops[j].st \notin ScopeFenced
           /\ \A q \in Procs : ~AtWork(q)
           /\ NoneLeaving(k)
BY DEF MemoryInv, FenceInv, WriterStopped, NoneLeaving

\* Nobody is on its way out of an operation that is new.
LEMMA NewKey ==
    ASSUME MemoryInv, NEW k \in OpKeys, ops[k].st = "none"
    PROVE  NoneLeaving(k)
BY DEF MemoryInv, FenceInv, NoneLeaving

\* What JobAt does.
LEMMA JobAtMoves ==
    ASSUME MemTypeOK, NEW p \in Procs, NEW where \in JobSteps, JobAt(p, where)
    PROVE  /\ job' \in [Procs -> MemoryJob] /\ job'[p].at = where
           /\ \A q \in Procs \ {p} : job'[q] = job[q]
           /\ job'[p].key = job[p].key /\ job'[p].id = job[p].id
           /\ job'[p].row = job[p].row /\ job'[p].epoch = job[p].epoch
           /\ job'[p].err = job[p].err /\ job'[p].sent = job[p].sent
BY DEF MemTypeOK, JobAt, MemoryJob

\* The empty records are records.
LEMMA NoJobTyped == NoJob \in MemoryJob /\ NoRow \in MemoryRecord /\ NoOp \in MemoryOperation
BY MemAssumption DEF NoJob, NoRow, NoOp, MemoryJob, MemoryRecord, MemoryOperation,
   JobSteps, OpStates, WriteKinds

\* A thread that is done knows nothing.
LEMMA FreeMoves ==
    ASSUME MemTypeOK, NEW p \in Procs, Free(p)
    PROVE  /\ job' \in [Procs -> MemoryJob] /\ job'[p] = NoJob
           /\ \A q \in Procs \ {p} : job'[q] = job[q]
           /\ job'[p].epoch = 0 /\ job'[p].at = "idle" /\ ~AtWork(p)' /\ JobSound(p)'
<1>1. /\ job' \in [Procs -> MemoryJob] /\ job'[p] = NoJob
      /\ \A q \in Procs \ {p} : job'[q] = job[q]
  BY NoJobTyped DEF MemTypeOK, Free
<1>2. NoJob.at = "idle" /\ NoJob.epoch = 0
  BY DEF NoJob
<1>3. ~AtWork(p)'
  BY <1>1, <1>2 DEF AtWork, WritingSteps, ReviewSteps, RepairSteps
<1>4. JobSound(p)'
  BY <1>1, <1>2 DEF JobSound, WritingSteps, ReviewSteps
<1> QED BY <1>1, <1>2, <1>3, <1>4

\* A thread that is on its way out relies on nothing.
LEMMA LeaveMoves ==
    ASSUME MemTypeOK, NEW p \in Procs, JobAt(p, "final")
    PROVE  /\ job' \in [Procs -> MemoryJob] /\ job'[p].at = "final"
           /\ \A q \in Procs \ {p} : job'[q] = job[q]
           /\ job'[p].key = job[p].key /\ job'[p].epoch = job[p].epoch
           /\ ~AtWork(p)' /\ JobSound(p)'
<1>1. /\ job' \in [Procs -> MemoryJob] /\ job'[p].at = "final"
      /\ \A q \in Procs \ {p} : job'[q] = job[q]
      /\ job'[p].key = job[p].key /\ job'[p].epoch = job[p].epoch
  BY JobAtMoves DEF JobSteps
<1>2. ~AtWork(p)'
  BY <1>1 DEF AtWork, WritingSteps, ReviewSteps, RepairSteps
<1>3. JobSound(p)'
  BY <1>1 DEF JobSound, WritingSteps, ReviewSteps
<1> QED BY <1>1, <1>2, <1>3

\* A thread takes an operation up.
LEMMA TakeUpMoves ==
    ASSUME MemTypeOK, NEW p \in Procs, NEW k \in OpKeys, NEW where \in JobSteps,
           job' = [job EXCEPT ![p] = [NoJob EXCEPT !.at = where, !.key = k]]
    PROVE  /\ job' \in [Procs -> MemoryJob] /\ job'[p].at = where /\ job'[p].key = k
           /\ \A q \in Procs \ {p} : job'[q] = job[q]
           /\ job'[p].epoch = 0 /\ ~job'[p].err /\ ~job'[p].sent
<1>1. [NoJob EXCEPT !.at = where, !.key = k] \in MemoryJob
  BY NoJobTyped DEF MemoryJob
<1>2. job' \in [Procs -> MemoryJob]
  BY <1>1 DEF MemTypeOK
<1>3. job'[p] = [NoJob EXCEPT !.at = where, !.key = k]
  BY DEF MemTypeOK
<1>4. \A q \in Procs \ {p} : job'[q] = job[q]
  BY DEF MemTypeOK
<1> QED BY <1>2, <1>3, <1>4 DEF NoJob

\* Facts of the type invariant about one thread, operation or record.
LEMMA MemTypes ==
    ASSUME MemoryInv
    PROVE  /\ MemTypeOK /\ memEpoch \in Nat /\ calls \in 0..MaxCalls
           /\ \A p \in Procs : /\ job[p] \in MemoryJob /\ JobSound(p)
                               /\ job[p].epoch \in Nat /\ job[p].epoch <= memEpoch
                               /\ job[p].err \in BOOLEAN /\ job[p].sent \in BOOLEAN
           /\ \A k \in OpKeys : ops[k] \in MemoryOperation /\ PlanSound(k)
           /\ \A i \in MemIds : rows[i] \in MemoryRecord
BY DEF MemoryInv, MemTypeOK, MemoryJob

-----------------------------------------------------------------------------
(* Steps that leave the journal and the SDK alone.                         *)

\* A thread gives up, dies, answers or drops what it read.
LEMMA FreeStep ==
    ASSUME MemoryInv, NEW p \in Procs, Free(p),
           UNCHANGED <<ops, rows, sdk, memEpoch, ruleVars, calls>>
    PROVE  MemoryInv'
<1>1. 0 <= memEpoch
  BY MemTypes
<1> QED BY <1>1, MemTypes, FreeMoves, ReadStep

\* An operation fails at a step after which the journal is told so.
LEMMA GiveUpStep ==
    ASSUME MemoryInv, NEW p \in Procs, AtWork(p), JobAt(p, "fail"),
           calls' \in 0..MaxCalls,
           UNCHANGED <<ops, rows, sdk, memEpoch, ruleVars>>,
           ~job[p].sent => TargetIntact(job[p].key)
    PROVE  MemoryInv'
<1>1. "fail" \in JobSteps
  BY DEF JobSteps
<1>2. /\ job' \in [Procs -> MemoryJob] /\ job'[p].at = "fail"
      /\ \A q \in Procs \ {p} : job'[q] = job[q]
      /\ job'[p].key = job[p].key /\ job'[p].epoch = job[p].epoch
      /\ job'[p].sent = job[p].sent
  BY <1>1, MemTypes, JobAtMoves
<1>3. TargetIntact(job[p].key)' <=> TargetIntact(job[p].key)
  BY <1>2 DEF TargetIntact
<1>4. JobSound(p)'
  BY <1>2, <1>3 DEF JobSound, WritingSteps, ReviewSteps
<1> QED BY <1>2, <1>4, MemTypes, ReadStep

\* A record is read from the journal, for an answer or for a control operation.
LEMMA ReadRowStep ==
    ASSUME MemoryInv, NEW p \in Procs, NEW i \in MemIds,
           (\E k \in OpKeys : ControlRead(p, k, i)) \/ GetRow(p, i)
    PROVE  MemoryInv'
<1>0. rows[i] \in MemoryRecord /\ memEpoch \in Nat /\ job \in [Procs -> MemoryJob]
  BY MemTypes DEF MemTypeOK
<1>1. PICK r \in MemoryJob :
         /\ job' = [job EXCEPT ![p] = r]
         /\ r.id = i /\ r.row = rows[i] /\ r.epoch = memEpoch
         /\ \/ r.at = "control" /\ r.key \in OpKeys
            \/ r.at = "body" /\ ~Hidden(rows[i])
  <2>1. CASE GetRow(p, i)
    <3> DEFINE x == [NoJob EXCEPT !.at = "body", !.id = i, !.row = rows[i],
                                  !.epoch = memEpoch]
    <3>1. x \in MemoryJob
      BY <1>0, NoJobTyped DEF MemoryJob, JobSteps
    <3>2. x.id = i /\ x.row = rows[i] /\ x.epoch = memEpoch /\ x.at = "body"
      BY DEF NoJob
    <3>3. job' = [job EXCEPT ![p] = x] /\ ~Hidden(rows[i])
      BY <2>1 DEF GetRow
    <3> QED BY <3>1, <3>2, <3>3
  <2>2. ASSUME NEW k \in OpKeys, ControlRead(p, k, i)
        PROVE  \E r \in MemoryJob :
                  /\ job' = [job EXCEPT ![p] = r]
                  /\ r.id = i /\ r.row = rows[i] /\ r.epoch = memEpoch
                  /\ r.at = "control" /\ r.key \in OpKeys
    <3> DEFINE x == [NoJob EXCEPT !.at = "control", !.key = k, !.id = i, !.row = rows[i],
                                  !.epoch = memEpoch]
    <3>1. x \in MemoryJob
      <4>1. [NoJob EXCEPT !.at = "control", !.key = k] \in MemoryJob
        BY NoJobTyped DEF MemoryJob, JobSteps
      <4> QED BY <1>0, <4>1 DEF MemoryJob
    <3>2. x.id = i /\ x.row = rows[i] /\ x.epoch = memEpoch /\ x.at = "control" /\ x.key = k
      BY DEF NoJob
    <3>3. job' = [job EXCEPT ![p] = x]
      BY <2>2 DEF ControlRead
    <3> QED BY <3>1, <3>2, <3>3
  <2> QED BY <2>1, <2>2
<1>5. /\ job' \in [Procs -> MemoryJob] /\ job'[p] = r
      /\ \A q \in Procs \ {p} : job'[q] = job[q]
  BY <1>0, <1>1
<1>6. UNCHANGED <<ops, rows, sdk, memEpoch, ruleVars, calls>>
  BY DEF ControlRead, GetRow
<1>7. ~AtWork(p)'
  BY <1>1, <1>5 DEF AtWork, WritingSteps, ReviewSteps, RepairSteps
<1>8. Hidden(rows[i])' <=> Hidden(rows[i])
  BY <1>6 DEF Hidden, ruleVars
<1>9. JobSound(p)'
  BY <1>1, <1>5, <1>6, <1>8 DEF JobSound, WritingSteps, ReviewSteps
<1>10. job'[p].epoch <= memEpoch /\ job'[p].at # "final"
  BY <1>0, <1>1, <1>5
<1> QED BY <1>5, <1>6, <1>7, <1>9, <1>10, MemTypes, ReadStep

\* The SDK's object was read.
LEMMA GetBodyStep ==
    ASSUME MemoryInv, NEW p \in Procs, GetBody(p)
    PROVE  MemoryInv'
<1>1. CASE Free(p)
  BY <1>1, FreeStep DEF GetBody
<1>2. CASE JobAt(p, "answer")
  <2>1. "answer" \in JobSteps
    BY DEF JobSteps
  <2>2. /\ job' \in [Procs -> MemoryJob] /\ job'[p].at = "answer"
        /\ \A q \in Procs \ {p} : job'[q] = job[q]
        /\ job'[p].key = job[p].key /\ job'[p].id = job[p].id
        /\ job'[p].row = job[p].row /\ job'[p].epoch = job[p].epoch
    BY <1>2, <2>1, MemTypes, JobAtMoves
  <2>3. ~AtWork(p)'
    BY <2>2 DEF AtWork, WritingSteps, ReviewSteps, RepairSteps
  <2>4. Hidden(job[p].row)' <=> Hidden(job[p].row)
    BY <2>2 DEF Hidden, GetBody, ruleVars
  <2>5. JobSound(p)'
    BY <2>2, <2>4, MemTypes DEF JobSound, GetBody, WritingSteps, ReviewSteps
  <2> QED BY <2>2, <2>3, <2>5, MemTypes, ReadStep DEF GetBody
<1> QED BY <1>1, <1>2 DEF GetBody

\* The steps of a review before its answer is recorded.
LEMMA ReviewCompareStep ==
    ASSUME MemoryInv, NEW p \in Procs, ReviewCompare(p)
    PROVE  MemoryInv'
<1>0. /\ AtWork(p) /\ job[p].at = "compare" /\ job[p].id \in MemIds /\ ~job[p].sent
      /\ ops[job[p].key].kind = "review" /\ job[p] \in MemoryJob
      /\ job[p].key \in OpKeys /\ ops[job[p].key].target = Nil /\ memEpoch \in Nat
      /\ job \in [Procs -> MemoryJob] /\ rows[job[p].id] \in MemoryRecord
  <2>1. AtWork(p) /\ job[p].at = "compare"
    BY DEF ReviewCompare, AtWork, ReviewSteps
  <2>2. job[p].id \in MemIds /\ ~job[p].sent /\ ops[job[p].key].kind = "review"
    BY <2>1, MemTypes DEF JobSound, ReviewSteps
  <2>3. job[p].key \in OpKeys
    BY <2>1, SoleWorker
  <2> QED BY <2>1, <2>2, <2>3, MemTypes DEF PlanSound, MemTypeOK
<1>1. CASE JobAt(p, "fail")
  BY <1>0, <1>1, MemTypes, GiveUpStep DEF ReviewCompare, TargetIntact
<1>2. CASE job' = [job EXCEPT ![p].at = "advise", ![p].row = rows[job[p].id],
                              ![p].epoch = memEpoch]
  <2> DEFINE r == [job[p] EXCEPT !.at = "advise", !.row = rows[job[p].id],
                                 !.epoch = memEpoch]
  <2>1. r \in MemoryJob
    BY <1>0 DEF MemoryJob, JobSteps
  <2>2. r.at = "advise" /\ r.id = job[p].id /\ r.epoch = memEpoch /\ r.sent = job[p].sent
        /\ r.key = job[p].key
    BY <1>0 DEF MemoryJob
  <2>3. job' = [job EXCEPT ![p] = r]
    BY <1>0, <1>2
  <2> HIDE DEF r
  <2>4. /\ job' \in [Procs -> MemoryJob] /\ job'[p] = r
        /\ \A q \in Procs \ {p} : job'[q] = job[q]
    BY <1>0, <2>1, <2>3
  <2>5. JobSound(p)'
    BY <1>0, <2>2, <2>4 DEF JobSound, ReviewCompare, WritingSteps, ReviewSteps
  <2> QED BY <1>0, <2>2, <2>4, <2>5, MemTypes, ReadStep DEF ReviewCompare
<1> QED BY <1>1, <1>2 DEF ReviewCompare

\* review asks the adviser and changes nothing stored.
LEMMA ReviewAdviseStep ==
    ASSUME MemoryInv, NEW p \in Procs, ReviewAdvise(p)
    PROVE  MemoryInv'
<1>0. /\ AtWork(p) /\ job[p].at = "advise" /\ job[p].id \in MemIds /\ ~job[p].sent
      /\ ops[job[p].key].kind = "review" /\ ops[job[p].key].target = Nil
  <2>1. AtWork(p) /\ job[p].at = "advise"
    BY DEF ReviewAdvise, AtWork, ReviewSteps
  <2>2. job[p].id \in MemIds /\ ~job[p].sent /\ ops[job[p].key].kind = "review"
    BY <2>1, MemTypes DEF JobSound, ReviewSteps
  <2>3. job[p].key \in OpKeys
    BY <2>1, SoleWorker
  <2> QED BY <2>1, <2>2, <2>3, MemTypes DEF PlanSound
<1>1. calls' \in 0..MaxCalls
  BY MemTypes, MemAssumption DEF ReviewAdvise
<1>2. CASE JobAt(p, "fail")
  BY <1>0, <1>1, <1>2, GiveUpStep DEF ReviewAdvise, TargetIntact
<1>3. CASE JobAt(p, "review")
  <2>1. "review" \in JobSteps
    BY DEF JobSteps
  <2>2. /\ job' \in [Procs -> MemoryJob] /\ job'[p].at = "review"
        /\ \A q \in Procs \ {p} : job'[q] = job[q]
        /\ job'[p].key = job[p].key /\ job'[p].id = job[p].id
        /\ job'[p].epoch = job[p].epoch /\ job'[p].sent = job[p].sent
    BY <1>3, <2>1, MemTypes, JobAtMoves
  <2>3. JobSound(p)'
    BY <1>0, <2>2 DEF JobSound, ReviewAdvise, WritingSteps, ReviewSteps
  <2> QED BY <1>0, <1>1, <2>2, <2>3, MemTypes, ReadStep DEF ReviewAdvise
<1> QED BY <1>2, <1>3 DEF ReviewAdvise

\* _verify_commit of a repair read the SDK.
LEMMA ReconcileReadStep ==
    ASSUME MemoryInv, NEW p \in Procs, ReconcileRead(p)
    PROVE  MemoryInv'
<1>1. CASE Free(p)
  BY <1>1, FreeStep DEF ReconcileRead
<1>2. CASE Landed(job[p].key) /\ job' = [job EXCEPT ![p].sent = TRUE]
  <2>0. job[p] \in MemoryJob /\ job \in [Procs -> MemoryJob] /\ JobSound(p)
        /\ job[p].at = "reconcile" /\ AtWork(p)
    BY MemTypes DEF MemTypeOK, ReconcileRead, AtWork, RepairSteps
  <2>1. /\ job' \in [Procs -> MemoryJob]
        /\ \A q \in Procs \ {p} : job'[q] = job[q]
        /\ job'[p].at = job[p].at /\ job'[p].key = job[p].key /\ job'[p].epoch = job[p].epoch
    BY <1>2, <2>0 DEF MemoryJob
  <2>2. Landed(job[p].key)' /\ (Unverified(job[p].key)' <=> Unverified(job[p].key))
    BY <1>2, <2>1 DEF Landed, Unverified, ReconcileRead
  <2>3. JobSound(p)'
    BY <2>0, <2>1, <2>2 DEF JobSound, ReconcileRead, WritingSteps, ReviewSteps
  <2> QED BY <2>0, <2>1, <2>3, MemTypes, ReadStep DEF ReconcileRead
<1> QED BY <1>1, <1>2 DEF ReconcileRead

-----------------------------------------------------------------------------
(* Steps that change the plan or the state of one operation.               *)

\* WorkStep for a step that leaves the records and the SDK alone.  When the
\* fence goes, the record it protected must be intact.
LEMMA PlanStep ==
    ASSUME MemoryInv, NEW p \in Procs, NEW k \in OpKeys, NEW o \in MemoryOperation,
           ops' = [ops EXCEPT ![k] = o], UNCHANGED <<rows, sdk, memEpoch, ruleVars, calls>>,
           \A j \in OpKeys \ {k} : ops[j].st \notin ScopeFenced,
           job' \in [Procs -> MemoryJob], job'[p].epoch <= memEpoch,
           \A q \in Procs \ {p} : job'[q] = job[q] /\ ~AtWork(q),
           AtWork(p)' => job'[p].key = k /\ o.st \in ScopeFenced,
           job'[p].at = "final" => job'[p].key = k /\ o.st # "none",
           PlanSound(k)', JobSound(p)', NoneLeaving(k),
           ops[k].st \in ScopeFenced =>
              (o.st \in ScopeFenced /\ o.target = ops[k].target) \/ TargetIntact(k),
           o.kind = "extract" =>
              /\ o.st = "complete" /\ o.managed => o.verified
              /\ o.st = "discarded" => \A i \in MemIds : sdk[i] # k /\ rows[i].op # k
    PROVE  MemoryInv'
<1>1. /\ ops' \in [OpKeys -> MemoryOperation] /\ ops'[k] = o
      /\ \A j \in OpKeys \ {k} : ops'[j] = ops[j]
  BY MemTypes DEF MemTypeOK
<1>2. MemTypeOK'
  BY <1>1, MemTypes DEF MemTypeOK, ruleVars
<1>3. ContentMatches'
  <2> SUFFICES ASSUME NEW i \in MemIds, rows[i].st = "live", ~Writing(i)'
               PROVE  sdk[i] = rows[i].op
    BY DEF ContentMatches
  <2>1. CASE ~Writing(i)
    BY <2>1 DEF MemoryInv, ContentMatches
  <2>2. CASE Writing(i)
    <3>1. ops[k].st \in ScopeFenced /\ ops[k].target = i
      BY <2>2 DEF Writing
    <3>2. ~(o.st \in ScopeFenced /\ o.target = i)
      BY <1>1 DEF Writing
    <3>3. TargetIntact(k) /\ i # Nil
      BY <3>1, <3>2, MemAssumption
    <3> QED BY <3>1, <3>3 DEF TargetIntact
  <2> QED BY <2>1, <2>2
<1>4. memEpoch <= memEpoch'
  BY MemTypes
<1> QED BY <1>1, <1>2, <1>3, <1>4, WorkStep

\* The plan of an operation that is new.
LEMMA NewPlan ==
    ASSUME MemoryInv, NEW k \in OpKeys, ops[k].st = "none", NEW o \in MemoryOperation,
           ops'[k] = o, UNCHANGED <<rows, sdk>>, o.st = "running", ~o.planned, ~o.got,
           o.target # Nil <=> o.kind \in {"update", "delete"}, FenceFree
    PROVE  PlanSound(k)'
<1>1. /\ \A i \in MemIds : sdk[i] # k /\ rows[i].op # k
  BY MemTypes DEF PlanSound
<1>2. o.target # Nil => o.target \in MemIds
  BY DEF MemoryOperation
<1>3. \A i \in MemIds : rows[i].st = "live" => sdk[i] = rows[i].op
  BY DEF MemoryInv, ContentMatches, Writing, FenceFree
<1>4. TargetIntact(k)'
  BY <1>2, <1>3 DEF TargetIntact
<1> QED BY <1>1, <1>4 DEF PlanSound

\* begin of a write.
LEMMA BeginWriteStep ==
    ASSUME MemoryInv, NEW p \in Procs, NEW k \in OpKeys, NEW kind \in WriteKinds,
           NEW i \in MemIds \cup {Nil}, NEW src \in MemSources \cup {Nil},
           NEW cap \in Decisions \cup {Nil}, BeginWrite(p, k, kind, i, src, cap)
    PROVE  MemoryInv'
<1>1. PICK ver \in Nat :
         ops' = [ops EXCEPT ![k] = [NoOp EXCEPT !.st = "running", !.kind = kind,
                    !.target = i, !.src = src, !.cap = cap, !.ver = ver,
                    !.managed = p \in managed]]
  <2>1. (IF i = Nil THEN {0} ELSE 1..memEpoch) \subseteq Nat
    BY MemTypes
  <2> QED BY <2>1 DEF BeginWrite
<1> DEFINE o == [NoOp EXCEPT !.st = "running", !.kind = kind, !.target = i, !.src = src,
                             !.cap = cap, !.ver = ver, !.managed = p \in managed]
<1>2. o \in MemoryOperation
  <2> DEFINE o1 == [NoOp EXCEPT !.st = "running", !.kind = kind]
             o2 == [o1 EXCEPT !.target = i, !.src = src]
  <2>1. o1 \in MemoryOperation
    BY NoJobTyped DEF MemoryOperation, OpStates
  <2>2. o2 \in MemoryOperation
    <3> HIDE DEF o1
    <3> QED BY <2>1 DEF MemoryOperation
  <2>3. [o2 EXCEPT !.cap = cap, !.ver = ver, !.managed = p \in managed] \in MemoryOperation
    <3>1. (p \in managed) \in BOOLEAN
      OBVIOUS
    <3> HIDE DEF o2
    <3> QED BY <2>2, <3>1 DEF MemoryOperation
  <2> QED BY <2>3
<1>3. /\ o.st = "running" /\ o.kind = kind /\ o.target = i /\ ~o.planned /\ ~o.got
      /\ ~o.discarding /\ ~o.perr /\ (o.managed <=> p \in managed)
  BY DEF NoOp
<1> HIDE DEF o
<1>4. ops' = [ops EXCEPT ![k] = o] /\ ops'[k] = o
  BY <1>1, MemTypes DEF o, MemTypeOK
<1>5. /\ job' \in [Procs -> MemoryJob] /\ job'[p].at = "prepare" /\ job'[p].key = k
      /\ \A q \in Procs \ {p} : job'[q] = job[q]
      /\ job'[p].epoch = 0 /\ ~job'[p].err /\ ~job'[p].sent
  BY MemTypes, TakeUpMoves DEF BeginWrite, JobSteps
<1>6. PlanSound(k)'
  BY <1>2, <1>3, <1>4, NewPlan DEF BeginWrite, WriteKinds
<1>7. JobSound(p)'
  <2>1. TargetIntact(k)'
    BY <1>3, <1>4, <1>6 DEF PlanSound, ScopeFenced
  <2>2. managed' = managed
    BY DEF BeginWrite, ruleVars
  <2> QED BY <1>3, <1>4, <1>5, <2>1, <2>2 DEF JobSound, WritingSteps, ReviewSteps
<1>8. \A j \in OpKeys : ops[j].st \notin ScopeFenced
  BY DEF BeginWrite, FenceFree
<1>9. (\A q \in Procs : ~AtWork(q)) /\ NoneLeaving(k)
  BY NobodyAtWork, NewKey DEF BeginWrite
<1>10. o.st \in ScopeFenced /\ o.st \notin {"complete", "discarded"}
  BY <1>3 DEF ScopeFenced
<1>11. 0 <= memEpoch
  BY MemTypes
<1> QED BY <1>2, <1>3, <1>4, <1>5, <1>6, <1>7, <1>8, <1>9, <1>10, <1>11, PlanStep DEF BeginWrite

\* begin of a review.
LEMMA BeginReviewStep ==
    ASSUME MemoryInv, NEW p \in Procs, NEW k \in OpKeys, NEW i \in MemIds,
           BeginReview(p, k, i)
    PROVE  MemoryInv'
<1> DEFINE o == [NoOp EXCEPT !.st = "running", !.kind = "review", !.managed = TRUE]
           r == [NoJob EXCEPT !.at = "compare", !.key = k, !.id = i]
<1>1. o \in MemoryOperation /\ r \in MemoryJob
  BY NoJobTyped DEF MemoryOperation, OpStates, MemoryJob, JobSteps
<1>2. /\ o.st = "running" /\ o.kind = "review" /\ o.target = Nil /\ ~o.planned /\ ~o.got
      /\ r.at = "compare" /\ r.key = k /\ r.id = i /\ r.epoch = 0 /\ ~r.sent
  BY DEF NoOp, NoJob
<1> HIDE DEF o, r
<1>3. ops' = [ops EXCEPT ![k] = o] /\ job' = [job EXCEPT ![p] = r]
  BY DEF BeginReview, o, r
<1>4. /\ job' \in [Procs -> MemoryJob] /\ job'[p] = r /\ ops'[k] = o
      /\ \A q \in Procs \ {p} : job'[q] = job[q]
  BY <1>1, <1>3, MemTypes DEF MemTypeOK
<1>5. PlanSound(k)'
  BY <1>1, <1>2, <1>4, NewPlan DEF BeginReview
<1>6. JobSound(p)'
  BY <1>2, <1>4 DEF JobSound, WritingSteps, ReviewSteps
<1>7. \A j \in OpKeys : ops[j].st \notin ScopeFenced
  BY DEF BeginReview, FenceFree
<1>8. (\A q \in Procs : ~AtWork(q)) /\ NoneLeaving(k)
  BY NobodyAtWork, NewKey DEF BeginReview
<1>9. o.st \in ScopeFenced
  BY <1>2 DEF ScopeFenced
<1>10. 0 <= memEpoch
  BY MemTypes
<1> QED BY <1>1, <1>2, <1>3, <1>4, <1>5, <1>6, <1>7, <1>8, <1>9, <1>10, PlanStep DEF BeginReview

\* The thread that works on an operation, with the rest of the scope.
LEMMA AtWorkFacts ==
    ASSUME MemoryInv, NEW p \in Procs, AtWork(p)
    PROVE  \E k \in OpKeys :
              /\ job[p].key = k /\ ops[k].st \in ScopeFenced /\ ops[k] \in MemoryOperation
              /\ PlanSound(k) /\ JobSound(p) /\ job[p] \in MemoryJob
              /\ \A j \in OpKeys \ {k} : ops[j].st \notin ScopeFenced
              /\ \A q \in Procs \ {p} : ~AtWork(q)
              /\ NoneLeaving(k)
              /\ MemTypeOK /\ memEpoch \in Nat /\ job[p].epoch <= memEpoch
<1>1. /\ job[p].key \in OpKeys /\ ops[job[p].key].st \in ScopeFenced
      /\ \A j \in OpKeys \ {job[p].key} : ops[j].st \notin ScopeFenced
      /\ \A q \in Procs \ {p} : ~AtWork(q)
      /\ NoneLeaving(job[p].key)
  BY SoleWorker
<1>2. /\ \A k \in OpKeys : ops[k] \in MemoryOperation /\ PlanSound(k)
      /\ JobSound(p) /\ job[p] \in MemoryJob
      /\ MemTypeOK /\ memEpoch \in Nat /\ job[p].epoch <= memEpoch
  BY MemTypes
<1> QED BY <1>1, <1>2

\* The checks under the fence succeeded and the plan is saved.
LEMMA PrepareStep ==
    ASSUME MemoryInv, NEW p \in Procs, Prepare(p)
    PROVE  MemoryInv'
<1>0. /\ AtWork(p) /\ job[p].at = "prepare"
  BY DEF Prepare, AtWork, WritingSteps
<1>1. PICK k \in OpKeys :
         /\ job[p].key = k /\ ops[k].st \in ScopeFenced /\ ops[k] \in MemoryOperation
         /\ PlanSound(k) /\ JobSound(p) /\ job[p] \in MemoryJob
         /\ \A j \in OpKeys \ {k} : ops[j].st \notin ScopeFenced
         /\ \A q \in Procs \ {p} : ~AtWork(q)
         /\ NoneLeaving(k)
         /\ MemTypeOK /\ memEpoch \in Nat /\ job[p].epoch <= memEpoch
  BY <1>0, AtWorkFacts
<1> DEFINE t == ops[k].target
           old == IF t = Nil THEN NoRow ELSE rows[t]
<1>2. /\ ops[k].kind \in WriteKinds /\ ~ops[k].discarding /\ (ops[k].perr => job[p].err)
      /\ ~ops[k].planned /\ ~job[p].sent /\ TargetIntact(k)
      /\ (ops[k].managed <=> p \in managed) /\ managed' = managed
  BY <1>0, <1>1 DEF JobSound, WritingSteps, Prepare, ruleVars
<1>3. CASE JobAt(p, "fail") /\ UNCHANGED ops
  BY <1>0, <1>1, <1>2, <1>3, MemTypes, GiveUpStep DEF Prepare
<1>4. ASSUME NEW state \in {"active", "pending", "disabled"},
             ops' = [ops EXCEPT ![k].planned = TRUE, ![k].ver = old.ver + 1,
                        ![k].state = state,
                        ![k].src = IF ops[k].src = Nil THEN old.src ELSE ops[k].src,
                        ![k].cap = IF t = Nil THEN ops[k].cap ELSE old.cap],
             JobAt(p, "dispatch")
      PROVE  MemoryInv'
  <2> DEFINE src == IF ops[k].src = Nil THEN old.src ELSE ops[k].src
             cap == IF t = Nil THEN ops[k].cap ELSE old.cap
             o1 == [ops[k] EXCEPT !.planned = TRUE, !.ver = old.ver + 1]
             o == [o1 EXCEPT !.state = state, !.src = src, !.cap = cap]
  <2>1. old \in MemoryRecord /\ (t = Nil \/ t \in MemIds)
    BY <1>1, NoJobTyped, MemTypes DEF MemoryOperation
  <2>2. old.ver + 1 \in Nat /\ src \in MemSources \cup {Nil} /\ cap \in Decisions \cup {Nil}
    <3> HIDE DEF old
    <3> QED BY <1>1, <2>1 DEF MemoryRecord, MemoryOperation
  <2>3. o1 \in MemoryOperation /\ o1.ver = old.ver + 1 /\ o1.planned
        /\ o1.kind = ops[k].kind /\ o1.st = ops[k].st /\ o1.target = t /\ o1.got = ops[k].got
        /\ o1.ids = ops[k].ids /\ o1.discarding = ops[k].discarding /\ o1.perr = ops[k].perr
        /\ o1.managed = ops[k].managed
    <3> HIDE DEF old
    <3> QED BY <1>1, <2>2 DEF MemoryOperation
  <2>4. o \in MemoryOperation /\ o.ver = old.ver + 1 /\ o.planned
        /\ o.kind = ops[k].kind /\ o.st = ops[k].st /\ o.target = t /\ o.got = ops[k].got
        /\ o.ids = ops[k].ids /\ o.discarding = ops[k].discarding /\ o.perr = ops[k].perr
        /\ o.managed = ops[k].managed
    <3> HIDE DEF o1, src, cap
    <3> QED BY <2>2, <2>3 DEF MemoryOperation
  <2>5. ops' = [ops EXCEPT ![k] = o]
    BY <1>1, <1>4 DEF MemTypeOK, MemoryOperation
  <2> HIDE DEF o
  <2>6. ops'[k] = o
    BY <1>1, <2>5 DEF MemTypeOK
  <2>7. /\ job' \in [Procs -> MemoryJob] /\ job'[p].at = "dispatch"
        /\ \A q \in Procs \ {p} : job'[q] = job[q]
        /\ job'[p].key = k /\ job'[p].epoch = job[p].epoch
        /\ job'[p].err = job[p].err /\ job'[p].sent = job[p].sent
    BY <1>1, <1>4, JobAtMoves DEF JobSteps
  <2>8. UNCHANGED <<rows, sdk, memEpoch, ruleVars, calls>>
    BY DEF Prepare
  <2>9. TargetIntact(k)'
    BY <1>2, <2>4, <2>6, <2>8 DEF TargetIntact
  <2>10. PlanSound(k)'
    <3>1. \A i \in MemIds : sdk[i] # k
      BY <1>1, <1>2 DEF PlanSound
    <3>2. ops[k].st # "none"
      BY <1>1 DEF ScopeFenced
    <3> QED BY <1>1, <1>2, <2>4, <2>6, <2>8, <2>9, <3>1, <3>2 DEF PlanSound
  <2>11. JobSound(p)'
    BY <1>2, <2>4, <2>6, <2>7, <2>9 DEF JobSound, WritingSteps, ReviewSteps
  <2>12. o.st \notin {"complete", "discarded"}
    BY <1>1, <2>4 DEF ScopeFenced
  <2> QED BY <1>1, <2>4, <2>5, <2>7, <2>8, <2>10, <2>11, <2>12, PlanStep
<1>5. CASE \E state \in IF t # Nil THEN {old.state}
                        ELSE IF ops[k].kind = "extract" THEN {"pending"}
                        ELSE {"active", "pending"} :
              /\ ops' = [ops EXCEPT ![k].planned = TRUE, ![k].ver = old.ver + 1,
                        ![k].state = state,
                        ![k].src = IF ops[k].src = Nil THEN old.src ELSE ops[k].src,
                        ![k].cap = IF t = Nil THEN ops[k].cap ELSE old.cap]
              /\ JobAt(p, "dispatch")
  <2>1. old \in MemoryRecord
    BY <1>1, NoJobTyped, MemTypes DEF MemoryOperation
  <2>2. old.state \in {"active", "pending", "disabled"}
    BY <2>1 DEF MemoryRecord
  <2> QED BY <1>4, <1>5, <2>2
<1> QED BY <1>1, <1>3, <1>5 DEF Prepare

\* The ids are saved.
LEMMA SaveIdsStep ==
    ASSUME MemoryInv, NEW p \in Procs, SaveIds(p)
    PROVE  MemoryInv'
<1>0. AtWork(p) /\ job[p].at = "ids"
  BY DEF SaveIds, AtWork, WritingSteps
<1>1. PICK k \in OpKeys :
         /\ job[p].key = k /\ ops[k].st \in ScopeFenced /\ ops[k] \in MemoryOperation
         /\ PlanSound(k) /\ JobSound(p) /\ job[p] \in MemoryJob
         /\ \A j \in OpKeys \ {k} : ops[j].st \notin ScopeFenced
         /\ \A q \in Procs \ {p} : ~AtWork(q)
         /\ NoneLeaving(k)
         /\ MemTypeOK /\ memEpoch \in Nat /\ job[p].epoch <= memEpoch
  BY <1>0, AtWorkFacts
<1> DEFINE ids == IF ops[k].target # Nil THEN {ops[k].target} ELSE {i \in MemIds : sdk[i] = k}
           o == [ops[k] EXCEPT !.got = TRUE, !.ids = ids]
<1>2. ids \in SUBSET MemIds
  BY <1>1 DEF MemoryOperation
<1>3. o \in MemoryOperation /\ o.got /\ o.ids = ids /\ o.st = ops[k].st
      /\ o.kind = ops[k].kind /\ o.target = ops[k].target /\ o.planned = ops[k].planned
      /\ o.ver = ops[k].ver /\ o.discarding = ops[k].discarding /\ o.perr = ops[k].perr
      /\ o.managed = ops[k].managed
  <2> HIDE DEF ids
  <2> QED BY <1>1, <1>2 DEF MemoryOperation
<1>4. ops' = [ops EXCEPT ![k] = o]
  BY <1>1 DEF SaveIds, MemTypeOK
<1> HIDE DEF o
<1>5. ops'[k] = o
  BY <1>1, <1>4 DEF MemTypeOK
<1> DEFINE where == IF p \in managed THEN "verify" ELSE "commit"
<1>6. /\ job' \in [Procs -> MemoryJob] /\ job'[p].at = where
      /\ \A q \in Procs \ {p} : job'[q] = job[q]
      /\ job'[p].key = k /\ job'[p].epoch = job[p].epoch
      /\ job'[p].err = job[p].err /\ job'[p].sent = job[p].sent
  <2>1. where \in JobSteps /\ JobAt(p, where)
    BY DEF SaveIds, JobSteps
  <2> HIDE DEF where
  <2> QED BY <1>1, <2>1, JobAtMoves
<1>7. UNCHANGED <<rows, sdk, memEpoch, ruleVars, calls>> /\ managed' = managed
  BY DEF SaveIds, ruleVars
<1>8. PlanSound(k)'
  <2>1. TargetIntact(k)' <=> TargetIntact(k)
    BY <1>3, <1>5, <1>7 DEF TargetIntact
  <2> QED BY <1>1, <1>3, <1>5, <1>7, <2>1 DEF PlanSound
<1>9. JobSound(p)'
  <2>1. /\ ops[k].kind \in WriteKinds /\ ~ops[k].discarding /\ (ops[k].perr => job[p].err)
        /\ ops[k].planned /\ job[p].sent /\ (ops[k].managed <=> p \in managed)
    BY <1>0, <1>1 DEF JobSound, WritingSteps
  <2>2. where \in {"verify", "commit"} /\ (where = "commit" => p \notin managed)
    OBVIOUS
  <2> HIDE DEF where
  <2> QED BY <1>3, <1>5, <1>6, <1>7, <2>1, <2>2 DEF JobSound, WritingSteps, ReviewSteps
<1>10. o.st \notin {"complete", "discarded"}
  BY <1>1, <1>3 DEF ScopeFenced
<1> QED BY <1>1, <1>3, <1>4, <1>6, <1>7, <1>8, <1>9, <1>10, PlanStep

\* The providers are verified, or an error was reported.
LEMMA VerifyProvidersStep ==
    ASSUME MemoryInv, NEW p \in Procs, VerifyProviders(p)
    PROVE  MemoryInv'
<1>0. AtWork(p) /\ job[p].at = "verify"
  BY DEF VerifyProviders, AtWork, WritingSteps
<1>1. PICK k \in OpKeys :
         /\ job[p].key = k /\ ops[k].st \in ScopeFenced /\ ops[k] \in MemoryOperation
         /\ PlanSound(k) /\ JobSound(p) /\ job[p] \in MemoryJob
         /\ \A j \in OpKeys \ {k} : ops[j].st \notin ScopeFenced
         /\ \A q \in Procs \ {p} : ~AtWork(q)
         /\ NoneLeaving(k)
         /\ MemTypeOK /\ memEpoch \in Nat /\ job[p].epoch <= memEpoch
  BY <1>0, AtWorkFacts
<1> DEFINE o == [ops[k] EXCEPT !.verified = TRUE]
<1>2. CASE JobAt(p, "fail") /\ UNCHANGED ops
  <2>1. job[p].sent
    BY <1>0, <1>1 DEF JobSound, WritingSteps
  <2> QED BY <1>0, <1>2, <2>1, MemTypes, GiveUpStep DEF VerifyProviders
<1>3. CASE ops' = [ops EXCEPT ![k].verified = TRUE] /\ JobAt(p, "commit")
  <2>1. o \in MemoryOperation /\ o.got = ops[k].got /\ o.ids = ops[k].ids /\ o.st = ops[k].st
        /\ o.kind = ops[k].kind /\ o.target = ops[k].target /\ o.planned = ops[k].planned
        /\ o.ver = ops[k].ver /\ o.discarding = ops[k].discarding /\ o.perr = ops[k].perr
        /\ o.verified /\ o.managed = ops[k].managed
    BY <1>1 DEF MemoryOperation
  <2>2. ops' = [ops EXCEPT ![k] = o]
    BY <1>1, <1>3 DEF MemTypeOK
  <2> HIDE DEF o
  <2>3. ops'[k] = o
    BY <1>1, <2>2 DEF MemTypeOK
  <2>4. /\ job' \in [Procs -> MemoryJob] /\ job'[p].at = "commit"
        /\ \A q \in Procs \ {p} : job'[q] = job[q]
        /\ job'[p].key = k /\ job'[p].epoch = job[p].epoch
        /\ job'[p].err = job[p].err /\ job'[p].sent = job[p].sent
    BY <1>1, <1>3, JobAtMoves DEF JobSteps
  <2>5. UNCHANGED <<rows, sdk, memEpoch, ruleVars, calls>> /\ managed' = managed
    BY DEF VerifyProviders, ruleVars
  <2>6. PlanSound(k)'
    <3>1. TargetIntact(k)' <=> TargetIntact(k)
      BY <2>1, <2>3, <2>5 DEF TargetIntact
    <3> QED BY <1>1, <2>1, <2>3, <2>5, <3>1 DEF PlanSound
  <2>7. JobSound(p)'
    BY <1>0, <1>1, <2>1, <2>3, <2>4, <2>5 DEF JobSound, WritingSteps, ReviewSteps
  <2>8. o.st \notin {"complete", "discarded"}
    BY <1>1, <2>1 DEF ScopeFenced
  <2> QED BY <1>1, <2>1, <2>2, <2>4, <2>5, <2>6, <2>7, <2>8, PlanStep
<1> QED BY <1>1, <1>2, <1>3 DEF VerifyProviders

\* fail: the fence goes only when nothing was dispatched.
LEMMA FailStep ==
    ASSUME MemoryInv, NEW p \in Procs, Fail(p)
    PROVE  MemoryInv'
<1>0. AtWork(p) /\ job[p].at = "fail"
  BY DEF Fail, AtWork
<1>1. PICK k \in OpKeys :
         /\ job[p].key = k /\ ops[k].st \in ScopeFenced /\ ops[k] \in MemoryOperation
         /\ PlanSound(k) /\ JobSound(p) /\ job[p] \in MemoryJob
         /\ \A j \in OpKeys \ {k} : ops[j].st \notin ScopeFenced
         /\ \A q \in Procs \ {p} : ~AtWork(q)
         /\ NoneLeaving(k)
         /\ MemTypeOK /\ memEpoch \in Nat /\ job[p].epoch <= memEpoch
  BY <1>0, AtWorkFacts
<1> DEFINE st == IF job[p].sent THEN "unknown" ELSE "failed"
           o == [ops[k] EXCEPT !.st = st, !.perr = @ \/ job[p].err]
<1>2. st \in OpStates /\ (ops[k].perr \/ job[p].err) \in BOOLEAN
  BY DEF OpStates
<1>3. o \in MemoryOperation /\ o.st = st /\ o.got = ops[k].got /\ o.ids = ops[k].ids
      /\ o.kind = ops[k].kind /\ o.target = ops[k].target /\ o.planned = ops[k].planned
      /\ o.ver = ops[k].ver
  <2> HIDE DEF st
  <2> QED BY <1>1, <1>2 DEF MemoryOperation
<1>4. ops' = [ops EXCEPT ![k] = o]
  BY <1>1 DEF Fail, MemTypeOK
<1> HIDE DEF o
<1>5. ops'[k] = o
  BY <1>1, <1>4 DEF MemTypeOK
<1>6. UNCHANGED <<rows, sdk, memEpoch, ruleVars, calls>>
  BY DEF Fail
<1>7. PlanSound(k)'
  <2>1. TargetIntact(k)' <=> TargetIntact(k)
    BY <1>3, <1>5, <1>6 DEF TargetIntact
  <2>2. \A i \in MemIds : rows[i].op # k
    BY <1>1 DEF PlanSound, ScopeFenced
  <2> QED BY <1>1, <1>3, <1>5, <1>6, <2>1, <2>2 DEF PlanSound
<1>8. (o.st \in ScopeFenced /\ o.target = ops[k].target) \/ TargetIntact(k)
  <2>1. CASE job[p].sent
    BY <1>3, <2>1 DEF ScopeFenced
  <2>2. CASE ~job[p].sent
    BY <1>0, <1>1, <2>2 DEF JobSound
  <2> QED BY <2>1, <2>2
<1>9. /\ job' \in [Procs -> MemoryJob] /\ ~AtWork(p)' /\ JobSound(p)'
      /\ \A q \in Procs \ {p} : job'[q] = job[q]
      /\ job'[p].epoch <= memEpoch /\ job'[p].key = k
  BY <1>1, LeaveMoves DEF Fail
<1>10. o.st \notin {"complete", "discarded", "none"}
  BY <1>3
<1> QED BY <1>1, <1>3, <1>4, <1>6, <1>7, <1>8, <1>9, <1>10, PlanStep

\* The error of a call whose work is over reaches the plan: nobody works on it.
LEMMA MarkStep ==
    ASSUME MemoryInv, NEW p \in Procs, job[p].at = "final",
           ops' = [ops EXCEPT ![job[p].key].perr = TRUE],
           UNCHANGED <<rows, sdk, memEpoch, ruleVars, calls>>,
           job' \in [Procs -> MemoryJob], job'[p].at = "final",
           job'[p].key = job[p].key, job'[p].epoch = job[p].epoch,
           \A q \in Procs \ {p} : job'[q] = job[q]
    PROVE  MemoryInv'
<1>1. PICK k \in OpKeys : /\ job[p].key = k /\ ops[k].st # "none"
                          /\ \A q \in Procs : AtWork(q) => job[q].key # k
  BY DEF MemoryInv, FenceInv
<1>2. /\ MemTypeOK /\ memEpoch \in Nat /\ ops[k] \in MemoryOperation
      /\ \A q \in Procs : job[q].epoch \in Nat /\ job[q].epoch <= memEpoch
  BY MemTypes
<1> DEFINE o == [ops[k] EXCEPT !.perr = TRUE]
<1>3. /\ o \in MemoryOperation /\ o.st = ops[k].st /\ o.got = ops[k].got
      /\ o.ids = ops[k].ids /\ o.kind = ops[k].kind /\ o.target = ops[k].target
      /\ o.planned = ops[k].planned /\ o.ver = ops[k].ver
      /\ o.verified = ops[k].verified /\ o.managed = ops[k].managed
  BY <1>2 DEF MemoryOperation
<1>4. ops' = [ops EXCEPT ![k] = o]
  BY <1>1, <1>2 DEF MemTypeOK
<1> HIDE DEF o
<1>5. /\ ops' \in [OpKeys -> MemoryOperation] /\ ops'[k] = o
      /\ \A x \in OpKeys \ {k} : ops'[x] = ops[x]
  BY <1>2, <1>3, <1>4 DEF MemTypeOK
<1>6. \A x \in OpKeys : ops'[x].st = ops[x].st /\ ops'[x].target = ops[x].target
  BY <1>3, <1>5
<1>7. MemTypeOK'
  <2>1. \A q \in Procs : job'[q].epoch <= memEpoch
    BY <1>2
  <2> QED BY <1>2, <1>5, <2>1 DEF MemTypeOK, ruleVars
<1>8. \A q \in Procs : (AtWork(q)' <=> AtWork(q)) /\ job'[q].key = job[q].key
                       /\ job'[q].at = job[q].at
  BY DEF AtWork
<1>9. FenceInv'
  BY <1>6, <1>8 DEF MemoryInv, FenceInv
<1>10. ContentMatches'
  BY <1>6 DEF MemoryInv, ContentMatches, Writing
<1>11. ExtractionsVerified'
  <2> SUFFICES ASSUME NEW x \in OpKeys, ops'[x].kind = "extract"
               PROVE  /\ ops'[x].st = "complete" /\ ops'[x].managed => ops'[x].verified
                      /\ ops'[x].st = "discarded" =>
                            \A i \in MemIds : sdk'[i] # x /\ rows'[i].op # x
    BY DEF ExtractionsVerified
  <2>1. CASE x = k
    BY <1>3, <1>5, <2>1 DEF MemoryInv, ExtractionsVerified
  <2>2. CASE x # k
    BY <1>5, <2>2 DEF MemoryInv, ExtractionsVerified
  <2> QED BY <2>1, <2>2
<1>12. ASSUME NEW x \in OpKeys
       PROVE  PlanSound(x)'
  <2>1. TargetIntact(x)' <=> TargetIntact(x)
    BY <1>6 DEF TargetIntact
  <2>2. CASE x = k
    BY <1>1, <1>3, <1>5, <2>1, <2>2 DEF MemoryInv, PlanSound
  <2>3. CASE x # k
    <3>1. ops'[x] = ops[x] /\ PlanSound(x)
      BY <1>5, <2>3, MemTypes
    <3> QED BY <2>1, <3>1 DEF PlanSound
  <2> QED BY <2>2, <2>3
<1>13. ASSUME NEW q \in Procs
       PROVE  JobSound(q)'
  <2>1. CASE q = p
    BY <2>1 DEF JobSound, WritingSteps, ReviewSteps
  <2>2. CASE q # p /\ AtWork(q)
    <3>1. job[q].key \in OpKeys \ {k} /\ job'[q] = job[q]
      BY <1>1, <2>2 DEF MemoryInv, FenceInv
    <3>2. ops'[job[q].key] = ops[job[q].key]
      BY <1>5, <3>1
    <3>3. /\ TargetIntact(job[q].key)' <=> TargetIntact(job[q].key)
          /\ Unverified(job[q].key)' <=> Unverified(job[q].key)
          /\ Landed(job[q].key)' <=> Landed(job[q].key)
          /\ Hidden(job[q].row)' <=> Hidden(job[q].row)
      BY <3>1, <3>2 DEF TargetIntact, Unverified, Landed, Hidden, ruleVars
    <3>4. managed' = managed /\ memEpoch' = memEpoch /\ rows' = rows /\ sdk' = sdk
          /\ JobSound(q)
      BY MemTypes DEF ruleVars
    <3> QED BY <3>1, <3>2, <3>3, <3>4 DEF JobSound
  <2>3. CASE q # p /\ ~AtWork(q)
    <3>1. UNCHANGED <<rows, revoked, withdrawn>> /\ job'[q] = job[q]
      BY <2>3 DEF ruleVars
    <3> QED BY <1>2, <2>3, <3>1, ReaderFrame DEF MemoryInv
  <2> QED BY <2>1, <2>2, <2>3
<1> QED BY <1>7, <1>9, <1>10, <1>11, <1>12, <1>13 DEF MemoryInv

\* The caller's timeout or cancellation.
LEMMA StopCallStep ==
    ASSUME MemoryInv, NEW p \in Procs, StopCall(p)
    PROVE  MemoryInv'
<1>0. /\ job[p] \in MemoryJob /\ job \in [Procs -> MemoryJob] /\ JobSound(p)
      /\ job[p].epoch <= memEpoch
  BY MemTypes DEF MemTypeOK
<1>1. /\ job' \in [Procs -> MemoryJob] /\ job'[p].at = job[p].at
      /\ \A q \in Procs \ {p} : job'[q] = job[q]
      /\ job'[p].key = job[p].key /\ job'[p].id = job[p].id /\ job'[p].row = job[p].row
      /\ job'[p].epoch = job[p].epoch /\ job'[p].sent = job[p].sent /\ job'[p].err
  BY <1>0 DEF StopCall, MemoryJob
<1>2. UNCHANGED <<rows, sdk, memEpoch, ruleVars, calls>> /\ managed' = managed
  BY DEF StopCall, ruleVars
<1>3. CASE UNCHANGED ops
  <2>1. /\ Unverified(job[p].key)' <=> Unverified(job[p].key)
        /\ Landed(job[p].key)' <=> Landed(job[p].key)
        /\ TargetIntact(job[p].key)' <=> TargetIntact(job[p].key)
    BY <1>1, <1>2, <1>3 DEF Unverified, Landed, TargetIntact
  <2>2. job[p].at \notin {"body", "answer", "erase", "erased"}
    BY DEF StopCall
  <2>3. JobSound(p)'
    BY <1>0, <1>1, <1>2, <1>3, <2>1, <2>2 DEF JobSound
  <2>4. AtWork(p)' => AtWork(p)
    BY <1>1 DEF AtWork
  <2> QED BY <1>0, <1>1, <1>2, <1>3, <2>3, <2>4, MemTypes, ReadStep
<1>4. CASE job[p].at = "final" /\ ops' = [ops EXCEPT ![job[p].key].perr = TRUE]
  BY <1>1, <1>2, <1>4, MarkStep
<1>5. CASE job[p].at \in WritingSteps /\ ops' = [ops EXCEPT ![job[p].key].perr = TRUE]
  <2>0. AtWork(p)
    BY <1>5 DEF AtWork
  <2>1. PICK k \in OpKeys :
           /\ job[p].key = k /\ ops[k].st \in ScopeFenced /\ ops[k] \in MemoryOperation
           /\ PlanSound(k) /\ JobSound(p) /\ job[p] \in MemoryJob
           /\ \A j \in OpKeys \ {k} : ops[j].st \notin ScopeFenced
           /\ \A q \in Procs \ {p} : ~AtWork(q)
           /\ NoneLeaving(k)
           /\ MemTypeOK /\ memEpoch \in Nat /\ job[p].epoch <= memEpoch
    BY <2>0, AtWorkFacts
  <2> DEFINE o == [ops[k] EXCEPT !.perr = TRUE]
  <2>2. o \in MemoryOperation /\ o.st = ops[k].st /\ o.got = ops[k].got
        /\ o.ids = ops[k].ids /\ o.kind = ops[k].kind /\ o.target = ops[k].target
        /\ o.planned = ops[k].planned /\ o.ver = ops[k].ver
        /\ o.verified = ops[k].verified /\ o.discarding = ops[k].discarding
        /\ o.managed = ops[k].managed
    BY <2>1 DEF MemoryOperation
  <2>3. ops' = [ops EXCEPT ![k] = o]
    BY <1>5, <2>1 DEF MemTypeOK
  <2> HIDE DEF o
  <2>4. ops'[k] = o
    BY <2>1, <2>3 DEF MemTypeOK
  <2>5. /\ TargetIntact(k)' <=> TargetIntact(k)
        /\ Landed(k)' <=> Landed(k)
    BY <1>2, <2>2, <2>4 DEF TargetIntact, Landed
  <2>6. PlanSound(k)'
    BY <1>2, <2>1, <2>2, <2>4, <2>5 DEF PlanSound, ScopeFenced
  <2>7. JobSound(p)'
    BY <1>1, <1>2, <1>5, <2>1, <2>2, <2>4, <2>5 DEF JobSound, WritingSteps, ReviewSteps
  <2>8. o.st \notin {"complete", "discarded", "none"} /\ o.st \in ScopeFenced
    BY <2>1, <2>2 DEF ScopeFenced
  <2> QED BY <1>1, <1>2, <2>1, <2>2, <2>3, <2>6, <2>7, <2>8, PlanStep
<1> QED BY <1>3, <1>4, <1>5 DEF StopCall, WritingSteps

\* The advice is recorded.
LEMMA FinishReviewStep ==
    ASSUME MemoryInv, NEW p \in Procs, FinishReview(p)
    PROVE  MemoryInv'
<1>0. AtWork(p) /\ job[p].at = "review"
  BY DEF FinishReview, AtWork, ReviewSteps
<1>1. PICK k \in OpKeys :
         /\ job[p].key = k /\ ops[k].st \in ScopeFenced /\ ops[k] \in MemoryOperation
         /\ PlanSound(k) /\ JobSound(p) /\ job[p] \in MemoryJob
         /\ \A j \in OpKeys \ {k} : ops[j].st \notin ScopeFenced
         /\ \A q \in Procs \ {p} : ~AtWork(q)
         /\ NoneLeaving(k)
         /\ MemTypeOK /\ memEpoch \in Nat /\ job[p].epoch <= memEpoch
  BY <1>0, AtWorkFacts
<1>2. ops[k].kind = "review" /\ ops[k].target = Nil /\ ~ops[k].planned
  BY <1>0, <1>1 DEF JobSound, PlanSound, ReviewSteps, WriteKinds
<1>3. TargetIntact(k)
  BY <1>2 DEF TargetIntact
<1>4. CASE JobAt(p, "fail") /\ UNCHANGED ops
  BY <1>0, <1>1, <1>3, <1>4, MemTypes, GiveUpStep DEF FinishReview
<1>5. CASE /\ ops' = [ops EXCEPT ![k].st = "complete", ![k].ids = {},
                                 ![k].epoch = job[p].epoch]
           /\ Free(p)
  <2> DEFINE o1 == [ops[k] EXCEPT !.st = "complete", !.ids = {}]
             o == [o1 EXCEPT !.epoch = job[p].epoch]
  <2>1. job[p].epoch \in Nat /\ "complete" \in OpStates
    BY <1>1 DEF MemoryJob, OpStates
  <2>2. o \in MemoryOperation /\ o.st = "complete" /\ o.got = ops[k].got
        /\ o.kind = "review" /\ o.target = Nil /\ ~o.planned
    <3>1. o1 \in MemoryOperation /\ o1.st = "complete" /\ o1.got = ops[k].got
          /\ o1.kind = "review" /\ o1.target = Nil /\ ~o1.planned
      BY <1>1, <1>2, <2>1 DEF MemoryOperation
    <3> HIDE DEF o1
    <3> QED BY <2>1, <3>1 DEF MemoryOperation
  <2>3. ops' = [ops EXCEPT ![k] = o]
    BY <1>1, <1>5 DEF MemTypeOK
  <2> HIDE DEF o
  <2>4. ops'[k] = o
    BY <1>1, <2>3 DEF MemTypeOK
  <2>5. UNCHANGED <<rows, sdk, memEpoch, ruleVars, calls>>
    BY DEF FinishReview
  <2>6. PlanSound(k)'
    BY <1>1, <1>2, <2>2, <2>4, <2>5 DEF PlanSound, ScopeFenced
  <2>7. /\ job' \in [Procs -> MemoryJob] /\ ~AtWork(p)' /\ JobSound(p)'
        /\ \A q \in Procs \ {p} : job'[q] = job[q]
        /\ job'[p].epoch <= memEpoch /\ job'[p].at = "idle"
    BY <1>1, <1>5, FreeMoves
  <2> QED BY <1>1, <1>3, <2>2, <2>3, <2>5, <2>6, <2>7, PlanStep
<1> QED BY <1>1, <1>4, <1>5 DEF FinishReview

\* reconcile takes an operation up, or finds that it never reached the SDK.
LEMMA ReconcileStep ==
    ASSUME MemoryInv, ~TwinRepair, NEW p \in Procs, NEW k \in OpKeys, Reconcile(p, k)
    PROVE  MemoryInv'
<1> DEFINE found == {i \in MemIds : sdk[i] = k}
<1>0. /\ ops[k].st \in ScopeFenced /\ ops[k] \in MemoryOperation /\ PlanSound(k)
      /\ \A j \in OpKeys \ {k} : ops[j].st \notin ScopeFenced
      /\ \A q \in Procs : ~AtWork(q)
      /\ NoneLeaving(k)
      /\ MemTypeOK /\ memEpoch \in Nat /\ job \in [Procs -> MemoryJob]
      /\ JobSound(p) /\ job[p].epoch <= memEpoch /\ job[p].at = "idle"
      /\ UNCHANGED <<rows, sdk, memEpoch, ruleVars, calls>>
  BY RepairAlone, MemTypes DEF Reconcile, MemTypeOK
<1>1. CASE /\ ops[k].kind = "review" \/ ~ops[k].planned
           /\ ops' = [ops EXCEPT ![k].st = "failed"] /\ UNCHANGED job
  <2> DEFINE o == [ops[k] EXCEPT !.st = "failed"]
  <2>1. o \in MemoryOperation /\ o.st = "failed" /\ o.got = ops[k].got /\ o.ids = ops[k].ids
        /\ o.kind = ops[k].kind /\ o.target = ops[k].target /\ o.planned = ops[k].planned
    BY <1>0 DEF MemoryOperation, OpStates
  <2>2. ops' = [ops EXCEPT ![k] = o]
    BY <1>0, <1>1 DEF MemTypeOK
  <2> HIDE DEF o
  <2>3. ops'[k] = o
    BY <1>0, <2>2 DEF MemTypeOK
  <2>4. TargetIntact(k)
    BY <1>0, <1>1 DEF PlanSound, TargetIntact
  <2>5. PlanSound(k)'
    BY <1>0, <2>1, <2>3 DEF PlanSound, ScopeFenced
  <2>6. ~AtWork(p)' /\ JobSound(p)'
    <3>1. ~AtWork(p)'
      BY <1>0, <1>1 DEF AtWork
    <3>2. UNCHANGED <<rows, revoked, withdrawn>>
      BY <1>0 DEF ruleVars
    <3>3. job[p].epoch \in Nat /\ memEpoch' \in Nat /\ memEpoch <= memEpoch'
      BY <1>0, MemTypes
    <3> QED BY <1>0, <1>1, <3>1, <3>2, <3>3, ReaderFrame
  <2>7. o.st \notin {"complete", "discarded"}
    BY <2>1
  <2> QED BY <1>0, <1>1, <2>1, <2>2, <2>4, <2>5, <2>6, <2>7, PlanStep
<1>2. CASE /\ ~Unverified(k) /\ ops[k].kind # "review" /\ ops[k].planned
           /\ ops' = [ops EXCEPT ![k].got = TRUE,
                 ![k].ids = IF ops[k].got THEN @
                            ELSE IF ops[k].target # Nil THEN {ops[k].target} ELSE found]
           /\ job' = [job EXCEPT ![p] = [NoJob EXCEPT !.at = "reconcile", !.key = k]]
  <2> DEFINE ids == IF ops[k].got THEN ops[k].ids
                    ELSE IF ops[k].target # Nil THEN {ops[k].target} ELSE found
             o == [ops[k] EXCEPT !.got = TRUE, !.ids = ids]
  <2>1. ids \in SUBSET MemIds
    BY <1>0 DEF MemoryOperation
  <2>2. o \in MemoryOperation /\ o.got /\ o.ids = ids /\ o.st = ops[k].st
        /\ o.kind = ops[k].kind /\ o.target = ops[k].target /\ o.planned
        /\ o.ver = ops[k].ver /\ o.discarding = ops[k].discarding /\ o.perr = ops[k].perr
        /\ o.verified = ops[k].verified /\ o.managed = ops[k].managed
    <3> HIDE DEF ids
    <3> QED BY <1>0, <1>2, <2>1 DEF MemoryOperation
  <2>3. ops' = [ops EXCEPT ![k] = o]
    BY <1>0, <1>2 DEF MemTypeOK
  <2> HIDE DEF o
  <2>4. ops'[k] = o
    BY <1>0, <2>3 DEF MemTypeOK
  <2>5. /\ job' \in [Procs -> MemoryJob] /\ job'[p].at = "reconcile" /\ job'[p].key = k
        /\ \A q \in Procs \ {p} : job'[q] = job[q]
        /\ job'[p].epoch = 0 /\ ~job'[p].sent
    BY <1>0, <1>2, TakeUpMoves DEF JobSteps
  <2>6. PlanSound(k)'
    <3>1. TargetIntact(k)' <=> TargetIntact(k)
      BY <1>0, <2>2, <2>4 DEF TargetIntact
    <3>2. o.target # Nil => o.ids = {o.target}
      BY <1>0, <2>2 DEF PlanSound
    <3> QED BY <1>0, <1>2, <2>2, <2>4, <3>1, <3>2 DEF PlanSound
  <2>7. JobSound(p)'
    <3>1. ~Unverified(k)'
      BY <1>2, <2>2, <2>4 DEF Unverified
    <3> QED BY <1>2, <2>2, <2>4, <2>5, <3>1 DEF JobSound, WritingSteps, ReviewSteps
  <2>8. o.st \in ScopeFenced /\ o.st \notin {"complete", "discarded"}
    BY <1>0, <2>2 DEF ScopeFenced
  <2>9. job'[p].epoch <= memEpoch
    BY <1>0, <2>5
  <2> QED BY <1>0, <2>2, <2>3, <2>5, <2>6, <2>7, <2>8, <2>9, PlanStep
<1> QED BY <1>1, <1>2 DEF Reconcile

\* discard_extraction records its intention.
LEMMA DiscardStartStep ==
    ASSUME MemoryInv, ~TwinRepair, NEW p \in Procs, NEW k \in OpKeys, DiscardStart(p, k)
    PROVE  MemoryInv'
<1>0. /\ ops[k].st \in ScopeFenced /\ ops[k] \in MemoryOperation /\ PlanSound(k)
      /\ ops[k].kind = "extract"
      /\ \A j \in OpKeys \ {k} : ops[j].st \notin ScopeFenced
      /\ \A q \in Procs : ~AtWork(q)
      /\ NoneLeaving(k)
      /\ MemTypeOK /\ memEpoch \in Nat /\ job \in [Procs -> MemoryJob]
      /\ UNCHANGED <<rows, sdk, memEpoch, ruleVars, calls>>
  BY RepairAlone, MemTypes DEF DiscardStart, MemTypeOK
<1> DEFINE o == [ops[k] EXCEPT !.discarding = ops[k].planned]
<1>1. o \in MemoryOperation /\ o.st = ops[k].st /\ o.got = ops[k].got /\ o.ids = ops[k].ids
      /\ o.kind = ops[k].kind /\ o.target = ops[k].target /\ o.planned = ops[k].planned
      /\ o.ver = ops[k].ver /\ o.discarding = ops[k].planned
  BY <1>0 DEF MemoryOperation
<1>2. ops' = [ops EXCEPT ![k] = o]
  BY DEF DiscardStart
<1> HIDE DEF o
<1>3. ops'[k] = o
  BY <1>0, <1>2 DEF MemTypeOK
<1>4. /\ job' \in [Procs -> MemoryJob] /\ job'[p].at = "erase" /\ job'[p].key = k
      /\ \A q \in Procs \ {p} : job'[q] = job[q]
      /\ job'[p].epoch = 0 /\ ~job'[p].sent
  BY <1>0, TakeUpMoves DEF DiscardStart, JobSteps
<1>5. PlanSound(k)'
  <2>1. TargetIntact(k)' <=> TargetIntact(k)
    BY <1>0, <1>1, <1>3 DEF TargetIntact
  <2> QED BY <1>0, <1>1, <1>3, <2>1 DEF PlanSound, ScopeFenced
<1>6. JobSound(p)'
  BY <1>0, <1>1, <1>3, <1>4 DEF JobSound, WritingSteps, ReviewSteps
<1>7. o.st \in ScopeFenced /\ o.st \notin {"complete", "discarded"}
  BY <1>0, <1>1 DEF ScopeFenced
<1>8. job'[p].epoch <= memEpoch
  BY <1>0, <1>4
<1> QED BY <1>0, <1>1, <1>2, <1>4, <1>5, <1>6, <1>7, <1>8, PlanStep

\* The fence goes after the last candidate.
LEMMA DiscardDoneStep ==
    ASSUME MemoryInv, NEW p \in Procs, DiscardDone(p)
    PROVE  MemoryInv'
<1>0. AtWork(p) /\ job[p].at = "erased"
  BY DEF DiscardDone, AtWork, RepairSteps
<1>1. PICK k \in OpKeys :
         /\ job[p].key = k /\ ops[k].st \in ScopeFenced /\ ops[k] \in MemoryOperation
         /\ PlanSound(k) /\ JobSound(p) /\ job[p] \in MemoryJob
         /\ \A j \in OpKeys \ {k} : ops[j].st \notin ScopeFenced
         /\ \A q \in Procs \ {p} : ~AtWork(q)
         /\ NoneLeaving(k)
         /\ MemTypeOK /\ memEpoch \in Nat /\ job[p].epoch <= memEpoch
  BY <1>0, AtWorkFacts
<1> DEFINE o == [ops[k] EXCEPT !.st = "discarded"]
<1>2. o \in MemoryOperation /\ o.st = "discarded" /\ o.got = ops[k].got /\ o.ids = ops[k].ids
      /\ o.kind = ops[k].kind /\ o.target = ops[k].target /\ o.planned = ops[k].planned
  BY <1>1 DEF MemoryOperation, OpStates
<1>3. ops' = [ops EXCEPT ![k] = o]
  BY <1>1 DEF DiscardDone, MemTypeOK
<1> HIDE DEF o
<1>4. ops'[k] = o
  BY <1>1, <1>3 DEF MemTypeOK
<1>5. UNCHANGED <<rows, sdk, memEpoch, ruleVars, calls>>
  BY DEF DiscardDone
<1>6. \A i \in MemIds : sdk[i] # k /\ rows[i].op # k
  BY <1>0, <1>1 DEF JobSound, PlanSound, ScopeFenced
<1>7. ops[k].target = Nil
  BY <1>0, <1>1 DEF JobSound, PlanSound
<1>8. TargetIntact(k)
  BY <1>7 DEF TargetIntact
<1>9. PlanSound(k)'
  BY <1>1, <1>2, <1>4, <1>5, <1>6 DEF PlanSound, ScopeFenced
<1>10. /\ job' \in [Procs -> MemoryJob] /\ ~AtWork(p)' /\ JobSound(p)'
       /\ \A q \in Procs \ {p} : job'[q] = job[q]
       /\ job'[p].epoch <= memEpoch /\ job'[p].at = "idle"
  BY <1>1, FreeMoves DEF DiscardDone
<1> QED BY <1>1, <1>2, <1>3, <1>5, <1>6, <1>8, <1>9, <1>10, PlanStep

-----------------------------------------------------------------------------
(* Steps that change the SDK.                                              *)

\* A call of the SDK touches new ids or the target of the operation.
LEMMA SdkEffectsSound ==
    ASSUME MemTypeOK, NEW k \in OpKeys, PlanSound(k), ops[k] \in MemoryOperation,
           NEW s \in SdkEffects(k)
    PROVE  /\ s \in [MemIds -> OpKeys \cup {Earlier, Nil}]
           /\ \A i \in MemIds :
                 \/ s[i] = sdk[i]
                 \/ ops[k].target = Nil /\ rows[i].st = "none" /\ s[i] = k
                 \/ ops[k].target = i /\ s[i] \in {k, Nil}
<1>0. sdk \in [MemIds -> OpKeys \cup {Earlier, Nil}]
  BY DEF MemTypeOK
<1>1. CASE ops[k].kind = "add"
  <2>1. ops[k].target = Nil
    BY <1>1 DEF PlanSound
  <2>2. s \in {[sdk EXCEPT ![i] = k] : i \in Fresh} \cup {sdk}
    BY <1>1 DEF SdkEffects
  <2> QED BY <1>0, <2>1, <2>2 DEF Fresh
<1>2. CASE ops[k].kind = "extract"
  <2>1. ops[k].target = Nil
    BY <1>2 DEF PlanSound
  <2>2. PICK new \in SUBSET Fresh : s = [i \in MemIds |-> IF i \in new THEN k ELSE sdk[i]]
    BY <1>2 DEF SdkEffects
  <2> QED BY <1>0, <2>1, <2>2 DEF Fresh
<1>3. CASE ops[k].kind \in {"update", "delete"}
  <2>1. ops[k].target \in MemIds
    BY <1>3 DEF PlanSound, MemoryOperation
  <2>2. s \in {[sdk EXCEPT ![ops[k].target] = k], [sdk EXCEPT ![ops[k].target] = Nil], sdk}
    BY <1>3 DEF SdkEffects
  <2> QED BY <1>0, <2>1, <2>2
<1>4. CASE ops[k].kind \notin WriteKinds
  <2>1. s = sdk
    BY <1>4 DEF SdkEffects, WriteKinds
  <2> QED BY <1>0, <2>1
<1> QED BY <1>1, <1>2, <1>3, <1>4 DEF WriteKinds

\* The SDK call, whatever it did and however it came back.
LEMMA DispatchJobStep ==
    ASSUME MemoryInv, NEW p \in Procs, DispatchJob(p)
    PROVE  MemoryInv'
<1>0. AtWork(p) /\ job[p].at = "dispatch"
  BY DEF DispatchJob, AtWork, WritingSteps
<1>1. PICK k \in OpKeys :
         /\ job[p].key = k /\ ops[k].st \in ScopeFenced /\ ops[k] \in MemoryOperation
         /\ PlanSound(k) /\ JobSound(p) /\ job[p] \in MemoryJob
         /\ \A j \in OpKeys \ {k} : ops[j].st \notin ScopeFenced
         /\ \A q \in Procs \ {p} : ~AtWork(q)
         /\ NoneLeaving(k)
         /\ MemTypeOK /\ memEpoch \in Nat /\ job[p].epoch <= memEpoch
  BY <1>0, AtWorkFacts
<1>2. /\ ops[k].kind \in WriteKinds /\ ~ops[k].discarding /\ (ops[k].perr => job[p].err)
      /\ ops[k].planned /\ ~job[p].sent /\ TargetIntact(k)
      /\ (ops[k].managed <=> p \in managed)
  BY <1>0, <1>1 DEF JobSound, WritingSteps
<1>3. UNCHANGED <<ops, rows, memEpoch, ruleVars>> /\ managed' = managed
  BY DEF DispatchJob, ruleVars
<1>4. CASE JobAt(p, "fail") /\ UNCHANGED <<sdk, calls>>
  BY <1>0, <1>1, <1>2, <1>3, <1>4, MemTypes, GiveUpStep
<1>5. ASSUME NEW raised \in BOOLEAN, NEW bad \in BOOLEAN,
             sdk' \in SdkEffects(k), calls' \in {calls, calls + 1}, calls' \in 0..MaxCalls,
             job' = [job EXCEPT ![p].at = IF raised THEN "fail" ELSE "ids",
                                ![p].sent = TRUE, ![p].err = @ \/ bad]
      PROVE  MemoryInv'
  <2>1. /\ sdk' \in [MemIds -> OpKeys \cup {Earlier, Nil}]
        /\ \A i \in MemIds :
              \/ sdk'[i] = sdk[i]
              \/ ops[k].target = Nil /\ rows[i].st = "none" /\ sdk'[i] = k
              \/ ops[k].target = i /\ sdk'[i] \in {k, Nil}
    BY <1>1, <1>5, SdkEffectsSound
  <2> DEFINE where == IF raised THEN "fail" ELSE "ids"
             r == [job[p] EXCEPT !.at = where, !.sent = TRUE, !.err = @ \/ bad]
  <2>2. where \in {"fail", "ids"} /\ (job[p].err \/ bad) \in BOOLEAN
    OBVIOUS
  <2>3. r \in MemoryJob /\ r.at = where /\ r.sent /\ (job[p].err => r.err)
        /\ r.key = k /\ r.epoch = job[p].epoch
    <3> HIDE DEF where
    <3> QED BY <1>1, <2>2 DEF MemoryJob, JobSteps
  <2>4. job' = [job EXCEPT ![p] = r]
    BY <1>1, <1>5 DEF MemTypeOK
  <2> HIDE DEF r, where
  <2>5. /\ job' \in [Procs -> MemoryJob] /\ job'[p] = r
        /\ \A q \in Procs \ {p} : job'[q] = job[q]
    BY <1>1, <2>3, <2>4 DEF MemTypeOK
  <2>6. MemTypeOK'
    BY <1>1, <1>3, <1>5, <2>1, <2>3, <2>5 DEF MemTypeOK
  <2>7. PlanSound(k)'
    <3>1. ops'[k].target = Nil =>
             \A i \in MemIds : sdk'[i] = k => rows'[i].st = "none"
      BY <1>1, <1>3, <2>1, MemAssumption DEF PlanSound
    <3> QED BY <1>1, <1>2, <1>3, <3>1 DEF PlanSound
  <2>8. JobSound(p)'
    BY <1>2, <1>3, <2>2, <2>3, <2>5 DEF JobSound, WritingSteps, ReviewSteps
  <2>9. ContentMatches'
    <3> SUFFICES ASSUME NEW i \in MemIds, rows[i].st = "live", ~Writing(i)'
                 PROVE  sdk'[i] = rows[i].op
      BY <1>3 DEF ContentMatches
    <3>1. ~Writing(i)
      BY <1>3 DEF Writing
    <3>2. ops[k].target # i
      BY <1>1, <3>1 DEF Writing
    <3> QED BY <2>1, <3>1, <3>2 DEF MemoryInv, ContentMatches
  <2>10. \A i \in MemIds, j \in OpKeys \ {k} : /\ sdk'[i] = j => sdk[i] = j
                                               /\ rows'[i].op = j => rows[i].op = j
    BY <1>3, <2>1, MemAssumption
  <2>11. memEpoch <= memEpoch' /\ ops'[k].st \notin {"complete", "discarded"}
         /\ job'[p].at # "final"
    BY <1>1, <1>3, <2>2, <2>3, <2>5 DEF ScopeFenced
  <2> QED BY <1>1, <1>3, <2>3, <2>5, <2>6, <2>7, <2>8, <2>9, <2>10, <2>11, WorkStep
<1>6. CASE ~JobAt(p, "fail") \/ ~UNCHANGED <<sdk, calls>>
  <2>1. Authorized(ops[k].cap)
    BY <1>1, <1>6 DEF DispatchJob
  <2>2. calls \in 0..MaxCalls
    BY MemTypes
  <2>3. sdk' \in SdkEffects(k) /\ (Admit(k) \/ UNCHANGED calls)
    BY <1>1, <2>1 DEF DispatchJob
  <2>4. calls' \in {calls, calls + 1} /\ calls' \in 0..MaxCalls
    BY <2>2, <2>3, MemAssumption DEF Admit
  <2>5. \E raised \in BOOLEAN, bad \in BOOLEAN :
           job' = [job EXCEPT ![p].at = IF raised THEN "fail" ELSE "ids",
                              ![p].sent = TRUE, ![p].err = @ \/ bad]
    BY <1>1, <2>1 DEF DispatchJob
  <2> QED BY <1>5, <2>3, <2>4, <2>5
<1> QED BY <1>4, <1>6

\* A discard deletes candidates that have no record.
LEMMA DiscardEraseStep ==
    ASSUME MemoryInv, NEW p \in Procs, DiscardErase(p)
    PROVE  MemoryInv'
<1>0. AtWork(p) /\ job[p].at = "erase"
  BY DEF DiscardErase, AtWork, RepairSteps
<1>1. PICK k \in OpKeys :
         /\ job[p].key = k /\ ops[k].st \in ScopeFenced /\ ops[k] \in MemoryOperation
         /\ PlanSound(k) /\ JobSound(p) /\ job[p] \in MemoryJob
         /\ \A j \in OpKeys \ {k} : ops[j].st \notin ScopeFenced
         /\ \A q \in Procs \ {p} : ~AtWork(q)
         /\ NoneLeaving(k)
         /\ MemTypeOK /\ memEpoch \in Nat /\ job[p].epoch <= memEpoch
  BY <1>0, AtWorkFacts
<1> DEFINE left == {i \in MemIds : sdk[i] = k}
<1>2. UNCHANGED <<ops, rows, memEpoch, ruleVars, calls>>
  BY DEF DiscardErase
<1>3. ops[k].kind = "extract" /\ ops[k].discarding = ops[k].planned /\ ops[k].target = Nil
  BY <1>0, <1>1 DEF JobSound, PlanSound
<1>4. CASE Free(p) /\ UNCHANGED sdk
  BY <1>2, <1>4, FreeStep
<1>5. CASE (~ops[k].discarding \/ left = {}) /\ JobAt(p, "erased") /\ UNCHANGED sdk
  <2>1. "erased" \in JobSteps
    BY DEF JobSteps
  <2>2. /\ job' \in [Procs -> MemoryJob] /\ job'[p].at = "erased"
        /\ \A q \in Procs \ {p} : job'[q] = job[q]
        /\ job'[p].key = k /\ job'[p].epoch = job[p].epoch
    BY <1>1, <1>5, <2>1, JobAtMoves
  <2>3. \A i \in MemIds : sdk[i] # k
    BY <1>1, <1>3, <1>5 DEF PlanSound
  <2>4. JobSound(p)'
    BY <1>2, <1>3, <1>5, <2>2, <2>3 DEF JobSound, WritingSteps, ReviewSteps
  <2> QED BY <1>0, <1>1, <1>2, <1>5, <2>2, <2>4, MemTypes, ReadStep
<1>6. ASSUME NEW i \in left, rows[i].st = "none", sdk' = [sdk EXCEPT ![i] = Nil],
             UNCHANGED job
      PROVE  MemoryInv'
  <2>1. sdk' \in [MemIds -> OpKeys \cup {Earlier, Nil}]
    BY <1>1, <1>6 DEF MemTypeOK
  <2>2. \A x \in MemIds : sdk'[x] = IF x = i THEN Nil ELSE sdk[x]
    BY <1>1, <1>6 DEF MemTypeOK
  <2>3. MemTypeOK'
    BY <1>1, <1>2, <1>6, <2>1 DEF MemTypeOK, ruleVars
  <2>4. PlanSound(k)'
    BY <1>1, <1>2, <1>3, <2>2, MemAssumption DEF PlanSound
  <2>5. JobSound(p)'
    BY <1>0, <1>1, <1>2, <1>6 DEF JobSound, WritingSteps, ReviewSteps
  <2>6. ContentMatches'
    BY <1>2, <1>6, <2>2 DEF MemoryInv, ContentMatches, Writing
  <2>7. \A x \in MemIds, j \in OpKeys \ {k} : /\ sdk'[x] = j => sdk[x] = j
                                              /\ rows'[x].op = j => rows[x].op = j
    BY <1>2, <2>2, MemAssumption
  <2>8. memEpoch <= memEpoch' /\ ops'[k].st \notin {"complete", "discarded"}
    BY <1>1, <1>2 DEF ScopeFenced
  <2> QED BY <1>0, <1>1, <1>2, <1>6, <2>3, <2>4, <2>5, <2>6, <2>7, <2>8, WorkStep
<1> QED BY <1>1, <1>4, <1>5, <1>6 DEF DiscardErase

-----------------------------------------------------------------------------
(* Commits.                                                                *)

\* Journal.commit of an operation whose effect was seen in the SDK.
LEMMA CommittedStep ==
    ASSUME MemoryInv, NEW p \in Procs, NEW k \in OpKeys, ops[k].st \in ScopeFenced,
           \A j \in OpKeys \ {k} : ops[j].st \notin ScopeFenced,
           \A q \in Procs \ {p} : ~AtWork(q),
           ops[k].planned, ops[k].got, Landed(k),
           ops[k].kind = "extract" /\ ops[k].managed => ops[k].verified, NoneLeaving(k),
           Committed(k), UNCHANGED <<sdk, ruleVars, calls>>,
           job' \in [Procs -> MemoryJob], ~AtWork(p)', JobSound(p)',
           \A q \in Procs \ {p} : job'[q] = job[q], job'[p].epoch <= memEpoch,
           job'[p].at = "final" => job'[p].key = k
    PROVE  MemoryInv'
<1>0. /\ MemTypeOK /\ memEpoch \in Nat /\ ops[k] \in MemoryOperation /\ PlanSound(k)
      /\ \A i \in MemIds : rows[i] \in MemoryRecord
  BY MemTypes
<1>1. /\ ops[k].ids \subseteq MemIds /\ ops[k].ver \in Nat
      /\ ops[k].src \in MemSources \cup {Nil} /\ ops[k].cap \in Decisions \cup {Nil}
      /\ ops[k].state \in {"active", "pending", "disabled"}
  BY <1>0 DEF MemoryOperation
<1> DEFINE new == [st |-> "live", ver |-> ops[k].ver, state |-> ops[k].state,
                   src |-> ops[k].src, cap |-> ops[k].cap, op |-> k]
           o == [ops[k] EXCEPT !.st = "complete"]
<1>2. new \in MemoryRecord /\ new.op = k
  BY <1>1 DEF MemoryRecord
<1>3. o \in MemoryOperation /\ o.st = "complete" /\ o.got = ops[k].got /\ o.ids = ops[k].ids
      /\ o.kind = ops[k].kind /\ o.target = ops[k].target /\ o.planned = ops[k].planned
      /\ o.verified = ops[k].verified /\ o.managed = ops[k].managed
  BY <1>0 DEF MemoryOperation, OpStates
<1>4. ops' = [ops EXCEPT ![k] = o]
  BY <1>0 DEF Committed, MemTypeOK
<1>5. \A i \in MemIds : rows'[i] = IF i \notin ops[k].ids THEN rows[i]
                                   ELSE IF ops[k].kind = "delete"
                                        THEN [rows[i] EXCEPT !.st = "gone"] ELSE new
  BY DEF Committed
<1>6. rows' = [i \in MemIds |-> rows'[i]]
  BY DEF Committed
<1> HIDE DEF new, o
<1>7. /\ ops' \in [OpKeys -> MemoryOperation] /\ ops'[k] = o
      /\ \A j \in OpKeys \ {k} : ops'[j] = ops[j]
  BY <1>0, <1>3, <1>4 DEF MemTypeOK
<1>8. \A i \in MemIds : [rows[i] EXCEPT !.st = "gone"] \in MemoryRecord
                        /\ [rows[i] EXCEPT !.st = "gone"].op = rows[i].op
                        /\ [rows[i] EXCEPT !.st = "gone"].st = "gone"
  BY <1>0 DEF MemoryRecord
<1>9. rows' \in [MemIds -> MemoryRecord]
  <2>1. \A i \in MemIds : rows'[i] \in MemoryRecord
    BY <1>0, <1>2, <1>5, <1>8
  <2> QED BY <1>6, <2>1
<1>10. /\ memEpoch' \in Nat /\ memEpoch <= memEpoch'
       /\ memEpoch' = memEpoch => ops[k].ids = {}
  BY <1>0 DEF Committed
<1>11. memEpoch' = memEpoch => rows' = rows
  <2>1. ASSUME ops[k].ids = {}
        PROVE  rows' = rows
    <3>1. \A i \in MemIds : rows'[i] = rows[i]
      BY <1>5, <2>1
    <3> QED BY <1>0, <1>9, <3>1 DEF MemTypeOK
  <2> QED BY <1>10, <2>1
<1>13. MemTypeOK'
  <2>1. \A q \in Procs : job'[q].epoch \in Nat /\ job'[q].epoch <= memEpoch
    <3>1. \A q \in Procs : job'[q].epoch \in Nat
      BY DEF MemoryJob
    <3> QED BY <3>1, MemTypes
  <2>2. \A q \in Procs : job'[q].epoch <= memEpoch'
    BY <1>0, <1>10, <2>1
  <2> QED BY <1>0, <1>7, <1>9, <1>10, <2>2 DEF MemTypeOK, ruleVars
<1>14. PlanSound(k)'
  BY <1>0, <1>3, <1>7 DEF PlanSound, ScopeFenced
<1>15. ContentMatches'
  <2> SUFFICES ASSUME NEW i \in MemIds, rows'[i].st = "live"
               PROVE  sdk[i] = rows'[i].op
    BY DEF ContentMatches
  <2>1. CASE i \in ops[k].ids
    <3>1. ops[k].kind # "delete"
      BY <1>5, <1>8, <2>1
    <3> QED BY <1>2, <1>5, <2>1, <3>1 DEF Landed
  <2>2. CASE i \notin ops[k].ids
    <3>1. ops[k].target # i
      BY <1>0, <2>2, MemAssumption DEF PlanSound
    <3>2. ~Writing(i)
      BY <3>1 DEF Writing
    <3> QED BY <1>5, <2>2, <3>2 DEF MemoryInv, ContentMatches
  <2> QED BY <2>1, <2>2
<1>16. \A i \in MemIds, j \in OpKeys \ {k} : /\ sdk'[i] = j => sdk[i] = j
                                             /\ rows'[i].op = j => rows[i].op = j
  BY <1>2, <1>5, <1>8
<1>17. ops'[k].kind = "extract" =>
          /\ ops'[k].st = "complete" /\ ops'[k].managed => ops'[k].verified
          /\ ops'[k].st = "discarded" => \A i \in MemIds : sdk'[i] # k /\ rows'[i].op # k
  BY <1>3, <1>7
<1>18. ops'[k].st # "none"
  BY <1>3, <1>7
<1> QED BY <1>7, <1>10, <1>11, <1>13, <1>14, <1>15, <1>16, <1>17, <1>18, WorkStep

\* The writer read the SDK and checked its execution for the last time.
LEMMA CheckCommitStep ==
    ASSUME MemoryInv, NEW p \in Procs, CheckCommit(p)
    PROVE  MemoryInv'
<1>0. AtWork(p) /\ job[p].at = "commit"
  BY DEF CheckCommit, AtWork, WritingSteps
<1>1. PICK k \in OpKeys :
         /\ job[p].key = k /\ ops[k].st \in ScopeFenced /\ ops[k] \in MemoryOperation
         /\ PlanSound(k) /\ JobSound(p) /\ job[p] \in MemoryJob
         /\ \A j \in OpKeys \ {k} : ops[j].st \notin ScopeFenced
         /\ \A q \in Procs \ {p} : ~AtWork(q)
         /\ NoneLeaving(k)
         /\ MemTypeOK /\ memEpoch \in Nat /\ job[p].epoch <= memEpoch
  BY <1>0, AtWorkFacts
<1>2. /\ ops[k].kind \in WriteKinds /\ ~ops[k].discarding /\ (ops[k].perr => job[p].err)
      /\ ops[k].planned /\ ops[k].got /\ job[p].sent
      /\ (ops[k].managed => ops[k].verified) /\ (ops[k].managed <=> p \in managed)
  BY <1>0, <1>1 DEF JobSound, WritingSteps
<1>3. UNCHANGED <<ops, rows, sdk, memEpoch, ruleVars, calls>> /\ managed' = managed
  BY DEF CheckCommit, ruleVars
<1>4. CASE Landed(k) /\ JobAt(p, "checked")
  <2>1. /\ job' \in [Procs -> MemoryJob] /\ job'[p].at = "checked"
        /\ \A q \in Procs \ {p} : job'[q] = job[q]
        /\ job'[p].key = k /\ job'[p].epoch = job[p].epoch
        /\ job'[p].err = job[p].err /\ job'[p].sent = job[p].sent
    BY <1>1, <1>4, JobAtMoves DEF JobSteps
  <2>2. Landed(k)'
    BY <1>3, <1>4 DEF Landed
  <2>3. JobSound(p)'
    BY <1>2, <1>3, <2>1, <2>2 DEF JobSound, WritingSteps, ReviewSteps
  <2> QED BY <1>0, <1>1, <1>3, <2>1, <2>3, MemTypes, ReadStep
<1>5. CASE JobAt(p, "fail")
  BY <1>0, <1>1, <1>2, <1>3, <1>5, MemTypes, GiveUpStep
<1> QED BY <1>1, <1>4, <1>5 DEF CheckCommit

\* The writer's commit.
LEMMA CommitStep ==
    ASSUME MemoryInv, NEW p \in Procs, Commit(p)
    PROVE  MemoryInv'
<1>0. AtWork(p) /\ job[p].at = "checked"
  BY DEF Commit, AtWork, WritingSteps
<1>1. PICK k \in OpKeys :
         /\ job[p].key = k /\ ops[k].st \in ScopeFenced /\ ops[k] \in MemoryOperation
         /\ PlanSound(k) /\ JobSound(p) /\ job[p] \in MemoryJob
         /\ \A j \in OpKeys \ {k} : ops[j].st \notin ScopeFenced
         /\ \A q \in Procs \ {p} : ~AtWork(q)
         /\ NoneLeaving(k)
         /\ MemTypeOK /\ memEpoch \in Nat /\ job[p].epoch <= memEpoch
  BY <1>0, AtWorkFacts
<1>2. /\ ops[k].planned /\ ops[k].got /\ Landed(k) /\ (ops[k].managed => ops[k].verified)
  BY <1>0, <1>1 DEF JobSound, WritingSteps
<1>3. /\ job' \in [Procs -> MemoryJob] /\ job'[p].at = "final"
      /\ \A q \in Procs \ {p} : job'[q] = job[q]
      /\ job'[p].key = k /\ job'[p].epoch = job[p].epoch
      /\ ~AtWork(p)' /\ JobSound(p)'
  BY <1>1, LeaveMoves DEF Commit
<1>4. Committed(k) /\ UNCHANGED <<sdk, ruleVars, calls>>
  BY <1>1 DEF Commit
<1> QED BY <1>1, <1>2, <1>3, <1>4, CommittedStep

\* The commit of a repair.
LEMMA ReconcileCommitStep ==
    ASSUME MemoryInv, NEW p \in Procs, ReconcileCommit(p)
    PROVE  MemoryInv'
<1>0. AtWork(p) /\ job[p].at = "reconcile" /\ job[p].sent
  BY DEF ReconcileCommit, AtWork, RepairSteps
<1>1. PICK k \in OpKeys :
         /\ job[p].key = k /\ ops[k].st \in ScopeFenced /\ ops[k] \in MemoryOperation
         /\ PlanSound(k) /\ JobSound(p) /\ job[p] \in MemoryJob
         /\ \A j \in OpKeys \ {k} : ops[j].st \notin ScopeFenced
         /\ \A q \in Procs \ {p} : ~AtWork(q)
         /\ NoneLeaving(k)
         /\ MemTypeOK /\ memEpoch \in Nat /\ job[p].epoch <= memEpoch
  BY <1>0, AtWorkFacts
<1>2. ops[k].planned /\ ops[k].got /\ ~Unverified(k) /\ Landed(k)
  BY <1>0, <1>1 DEF JobSound
<1>3. ops[k].kind = "extract" /\ ops[k].managed => ops[k].verified
  BY <1>2 DEF Unverified
<1>4. Committed(k) /\ UNCHANGED <<sdk, ruleVars, calls>>
  BY <1>1 DEF ReconcileCommit
<1>5. /\ job' \in [Procs -> MemoryJob] /\ job'[p].at = "idle"
      /\ \A q \in Procs \ {p} : job'[q] = job[q]
      /\ job'[p].epoch = 0 /\ ~AtWork(p)' /\ JobSound(p)'
  BY <1>1, FreeMoves DEF ReconcileCommit
<1>6. job'[p].epoch <= memEpoch
  BY <1>1, <1>5
<1> QED BY <1>1, <1>2, <1>3, <1>4, <1>5, <1>6, CommittedStep

\* A control operation changes one record at the epoch it verified it in.
LEMMA ControlStep ==
    ASSUME MemoryInv, NEW p \in Procs, NEW change \in {"active", "disabled"},
           Control(p, change)
    PROVE  MemoryInv'
<1>0. /\ MemTypeOK /\ memEpoch \in Nat /\ JobSound(p) /\ job[p].at = "control"
      /\ job[p].key \in OpKeys /\ job[p].id \in MemIds
      /\ UNCHANGED <<sdk, ruleVars, calls>> /\ Free(p)
  BY MemTypes DEF Control, JobSound
<1>1. PICK k \in OpKeys, i \in MemIds : job[p].key = k /\ job[p].id = i
  BY <1>0
<1>2. CASE UNCHANGED <<rows, ops, memEpoch>>
  BY <1>0, <1>2, FreeStep
<1>3. CASE /\ FenceFree /\ ops[k].st = "none" /\ rows[i].st = "live"
           /\ rows' = [rows EXCEPT ![i].state = change, ![i].ver = @ + 1]
           /\ ops' = [ops EXCEPT ![k] = [NoOp EXCEPT !.st = "complete",
                                           !.kind = "control", !.ids = {i}]]
           /\ memEpoch' = memEpoch + 1
  <2> DEFINE o == [NoOp EXCEPT !.st = "complete", !.kind = "control", !.ids = {i}]
             r == [rows[i] EXCEPT !.state = change, !.ver = @ + 1]
  <2>1. o \in MemoryOperation /\ o.st = "complete" /\ o.kind = "control" /\ o.target = Nil
        /\ ~o.planned /\ ~o.got
    <3>1. o \in MemoryOperation
      BY NoJobTyped DEF MemoryOperation, OpStates
    <3> QED BY <3>1 DEF NoOp
  <2>2. ops' = [ops EXCEPT ![k] = o]
    BY <1>3
  <2>3. rows[i] \in MemoryRecord /\ rows[i].ver + 1 \in Nat
    BY MemTypes DEF MemoryRecord
  <2>4. r \in MemoryRecord /\ r.op = rows[i].op /\ r.st = rows[i].st
    BY <2>3 DEF MemoryRecord
  <2>5. rows' = [rows EXCEPT ![i] = r]
    BY <1>0, <1>3 DEF MemTypeOK
  <2> HIDE DEF o, r
  <2>6. /\ ops' \in [OpKeys -> MemoryOperation] /\ ops'[k] = o
        /\ \A j \in OpKeys \ {k} : ops'[j] = ops[j]
    BY <1>0, <2>1, <2>2 DEF MemTypeOK
  <2>7. /\ rows' \in [MemIds -> MemoryRecord]
        /\ \A x \in MemIds : rows'[x].op = rows[x].op /\ rows'[x].st = rows[x].st
    BY <1>0, <2>4, <2>5 DEF MemTypeOK
  <2>8. memEpoch' \in Nat /\ memEpoch <= memEpoch' /\ memEpoch' # memEpoch
    BY <1>0, <1>3
  <2>9. /\ job' \in [Procs -> MemoryJob] /\ ~AtWork(p)' /\ JobSound(p)'
        /\ \A q \in Procs \ {p} : job'[q] = job[q]
        /\ job'[p].epoch = 0 /\ job'[p].at = "idle"
    BY <1>0, FreeMoves
  <2>10. MemTypeOK'
    <3>1. \A q \in Procs : job'[q].epoch <= memEpoch'
      BY <1>0, <2>8, <2>9, MemTypes
    <3> QED BY <1>0, <2>6, <2>7, <2>8, <2>9, <3>1 DEF MemTypeOK, ruleVars
  <2>11. ~ops[k].planned /\ (\A x \in MemIds : sdk[x] # k) /\ \A x \in MemIds : rows[x].op # k
    BY <1>3, MemTypes DEF PlanSound
  <2>12. PlanSound(k)'
    BY <1>0, <2>1, <2>6, <2>7, <2>11 DEF PlanSound, ScopeFenced
  <2>13. ContentMatches'
    <3> SUFFICES ASSUME NEW x \in MemIds, rows'[x].st = "live"
                 PROVE  sdk[x] = rows'[x].op
      BY <1>0 DEF ContentMatches
    <3>1. ~Writing(x)
      BY <1>3 DEF FenceFree, Writing
    <3> QED BY <2>7, <3>1 DEF MemoryInv, ContentMatches
  <2>14. /\ \A j \in OpKeys \ {k} : ops[j].st \notin ScopeFenced
         /\ (\A q \in Procs \ {p} : ~AtWork(q)) /\ NoneLeaving(k)
    BY <1>3, NobodyAtWork, NewKey DEF FenceFree
  <2>15. \A x \in MemIds, j \in OpKeys \ {k} : /\ sdk'[x] = j => sdk[x] = j
                                               /\ rows'[x].op = j => rows[x].op = j
    BY <1>0, <2>7
  <2>16. ops'[k].kind # "extract"
    BY <2>1, <2>6
  <2> QED BY <1>0, <2>6, <2>8, <2>9, <2>10, <2>12, <2>13, <2>14, <2>15, <2>16, WorkStep
<1> QED BY <1>1, <1>2, <1>3 DEF Control

-----------------------------------------------------------------------------
(* The invariant.                                                          *)

\* A scope starts with what an earlier add has committed.
LEMMA MemoryInitially ==
    ASSUME MemInit
    PROVE  MemoryInv
<1>1. PICK old \in SUBSET MemIds, s \in MemSources :
         /\ rows = [i \in MemIds |-> IF i \notin old THEN NoRow
               ELSE [NoRow EXCEPT !.st = "live", !.ver = 1, !.state = "active",
                                  !.src = s, !.op = Earlier]]
         /\ sdk = [i \in MemIds |-> IF i \in old THEN Earlier ELSE Nil]
         /\ memEpoch = Cardinality(old)
  BY DEF MemInit
<1>2. memEpoch \in Nat
  BY <1>1, MemAssumption, FS_Subset, FS_CardinalityType
<1> DEFINE first == [NoRow EXCEPT !.st = "live", !.ver = 1, !.state = "active",
                                  !.src = s, !.op = Earlier]
<1>3. first \in MemoryRecord /\ first.op = Earlier
  BY DEF MemoryRecord, NoRow
<1>4. NoRow.op = Nil /\ NoRow.st = "none" /\ NoRow \in MemoryRecord
  BY NoJobTyped DEF NoRow
<1>5. \A i \in MemIds : rows[i] = IF i \notin old THEN NoRow ELSE first
  BY <1>1
<1> HIDE DEF first
<1>6. rows \in [MemIds -> MemoryRecord]
  <2>1. \A i \in MemIds : rows[i] \in MemoryRecord
    BY <1>3, <1>4, <1>5
  <2>2. rows = [i \in MemIds |-> rows[i]]
    BY <1>1
  <2> QED BY <2>1, <2>2
<1>7. /\ sdk \in [MemIds -> OpKeys \cup {Earlier, Nil}]
      /\ \A i \in MemIds : sdk[i] = IF i \in old THEN Earlier ELSE Nil
  BY <1>1
<1>8. /\ ops \in [OpKeys -> MemoryOperation] /\ \A k \in OpKeys : ops[k] = NoOp
      /\ job \in [Procs -> MemoryJob] /\ \A p \in Procs : job[p] = NoJob
  BY NoJobTyped DEF MemInit
<1>9. /\ NoJob.at = "idle" /\ NoJob.epoch = 0
      /\ NoOp.st = "none" /\ NoOp.kind = "add" /\ NoOp.target = Nil /\ ~NoOp.planned
      /\ ~NoOp.got /\ ~NoOp.perr
  BY DEF NoJob, NoOp
<1>10. MemTypeOK
  <2>1. calls \in 0..MaxCalls
    BY MemAssumption DEF MemInit
  <2>2. \A p \in Procs : job[p].epoch <= memEpoch
    BY <1>2, <1>8, <1>9
  <2>3. managed \subseteq Procs
    BY DEF MemInit
  <2> QED BY <1>2, <1>6, <1>7, <1>8, <2>1, <2>2, <2>3 DEF MemTypeOK
<1>11. FenceInv
  <2>1. \A p \in Procs : ~AtWork(p)
    BY <1>8, <1>9 DEF AtWork, WritingSteps, ReviewSteps, RepairSteps
  <2> QED BY <1>8, <1>9, <2>1 DEF FenceInv, ScopeFenced
<1>12. ASSUME NEW k \in OpKeys
       PROVE  PlanSound(k)
  <2>1. \A i \in MemIds : sdk[i] # k /\ rows[i].op # k
    BY <1>3, <1>4, <1>5, <1>7, MemAssumption
  <2> QED BY <1>8, <1>9, <2>1 DEF PlanSound, ScopeFenced
<1>13. ASSUME NEW p \in Procs
       PROVE  JobSound(p)
  BY <1>8, <1>9 DEF JobSound, WritingSteps, ReviewSteps
<1>14. ContentMatches
  BY <1>3, <1>4, <1>5, <1>7 DEF ContentMatches
<1>15. ExtractionsVerified
  BY <1>8, <1>9 DEF ExtractionsVerified
<1> QED BY <1>10, <1>11, <1>12, <1>13, <1>14, <1>15 DEF MemoryInv

\* Every step of a thread keeps the invariant.
LEMMA MemProcStep ==
    ASSUME MemoryInv, ~TwinRepair, NEW p \in Procs, MemProc(p)
    PROVE  MemoryInv'
<1>1. ASSUME NEW k \in OpKeys, NEW kind \in WriteKinds, NEW i \in MemIds \cup {Nil},
             NEW src \in MemSources \cup {Nil}, NEW cap \in Decisions \cup {Nil},
             BeginWrite(p, k, kind, i, src, cap)
      PROVE  MemoryInv'
  BY <1>1, BeginWriteStep
<1>2. CASE Prepare(p)
  BY <1>2, PrepareStep
<1>3. CASE DispatchJob(p)
  BY <1>3, DispatchJobStep
<1>4. CASE SaveIds(p)
  BY <1>4, SaveIdsStep
<1>5. CASE VerifyProviders(p)
  BY <1>5, VerifyProvidersStep
<1>6. CASE CheckCommit(p) \/ Commit(p)
  BY <1>6, CheckCommitStep, CommitStep
<1>7. CASE Fail(p)
  BY <1>7, FailStep
<1>8. CASE StopCall(p)
  BY <1>8, StopCallStep
<1>9. CASE Die(p) \/ GetAnswer(p) \/ FinalCheck(p)
  BY <1>9, FreeStep DEF Die, GetAnswer, FinalCheck
<1>10. ASSUME NEW k \in OpKeys, Reconcile(p, k) \/ DiscardStart(p, k)
       PROVE  MemoryInv'
  BY <1>10, ReconcileStep, DiscardStartStep
<1>11. CASE ReconcileRead(p)
  BY <1>11, ReconcileReadStep
<1>12. CASE ReconcileCommit(p)
  BY <1>12, ReconcileCommitStep
<1>13. CASE DiscardErase(p)
  BY <1>13, DiscardEraseStep
<1>14. CASE DiscardDone(p)
  BY <1>14, DiscardDoneStep
<1>15. ASSUME NEW k \in OpKeys, NEW i \in MemIds, ControlRead(p, k, i) \/ BeginReview(p, k, i)
       PROVE  MemoryInv'
  BY <1>15, ReadRowStep, BeginReviewStep
<1>16. ASSUME NEW change \in {"active", "disabled"}, Control(p, change)
       PROVE  MemoryInv'
  BY <1>16, ControlStep
<1>17. CASE ReviewCompare(p)
  BY <1>17, ReviewCompareStep
<1>18. CASE ReviewAdvise(p)
  BY <1>18, ReviewAdviseStep
<1>19. CASE FinishReview(p)
  BY <1>19, FinishReviewStep
<1>20. ASSUME NEW i \in MemIds, GetRow(p, i)
       PROVE  MemoryInv'
  BY <1>20, ReadRowStep
<1>21. CASE GetBody(p)
  BY <1>21, GetBodyStep
<1> QED BY <1>1, <1>2, <1>3, <1>4, <1>5, <1>6, <1>7, <1>8, <1>9, <1>10, <1>11, <1>12,
           <1>13, <1>14, <1>15, <1>16, <1>17, <1>18, <1>19, <1>20, <1>21 DEF MemProc

\* A step of the scope, or none.
LEMMA MemNextStep ==
    ASSUME MemoryInv, ~TwinRepair, [MemNext]_memVars
    PROVE  MemoryInv'
<1>0. memEpoch \in Nat /\ memEpoch + 1 \in Nat
  BY MemTypes
<1>1. ASSUME NEW p \in Procs, MemProc(p)
      PROVE  MemoryInv'
  BY <1>1, MemProcStep
<1>2. ASSUME NEW s \in MemSources, RevokeSource(s)
      PROVE  MemoryInv'
  BY <1>0, <1>2, RuleStep DEF RevokeSource
<1>3. ASSUME NEW d \in Decisions, RecordAuthorization(d) \/ RevokeAuthorization(d)
      PROVE  MemoryInv'
  BY <1>0, <1>3, RuleStep DEF RecordAuthorization, RevokeAuthorization
<1>4. ASSUME NEW i \in MemIds, Lapse(i)
      PROVE  MemoryInv'
  BY <1>0, <1>4, RuleStep DEF Lapse
<1>5. CASE UNCHANGED memVars
  BY <1>0, <1>5, RuleStep DEF memVars, ruleVars
<1> QED BY <1>1, <1>2, <1>3, <1>4, <1>5 DEF MemNext

\* The journal and the SDK agree wherever no write is under way, a fenced
\* operation has one thread, what a managed adapter extracts becomes a record only
\* verified, and
\* every thread may rely on what it has read: _write, reconcile,
\* discard_extraction, control, review and the reads together.
THEOREM MemoryInvariant ==
    ASSUME ~TwinRepair
    PROVE  MemSpec => []MemoryInv
<1>1. MemInit => MemoryInv
  BY MemoryInitially
<1>2. MemoryInv /\ [MemNext]_memVars => MemoryInv'
  BY MemNextStep
<1> QED BY <1>1, <1>2, PTL DEF MemSpec

-----------------------------------------------------------------------------
(* What a step may not do.                                                 *)

\* A commit gives the records it changes a version of their own.
LEMMA CommittedGrows ==
    ASSUME MemoryInv, NEW k \in OpKeys, ops[k].st \in ScopeFenced, ops[k].planned,
           ops[k].got, Landed(k), Committed(k), NEW i \in MemIds,
           rows[i].st = "live", rows'[i] # rows[i]
    PROVE  \/ rows'[i].ver > rows[i].ver
           \/ rows'[i] = [rows[i] EXCEPT !.st = "gone"]
<1>0. PlanSound(k) /\ ops[k] \in MemoryOperation /\ rows[i] \in MemoryRecord
  BY MemTypes
<1>1. i \in ops[k].ids
  BY DEF Committed
<1>2. CASE ops[k].kind = "delete"
  BY <1>1, <1>2 DEF Committed
<1>3. CASE ops[k].kind # "delete"
  <2>1. sdk[i] = k
    BY <1>1, <1>3 DEF Landed
  <2>2. ops[k].target # Nil
    BY <1>0, <2>1 DEF PlanSound
  <2>3. ops[k].target = i
    BY <1>0, <1>1, <2>2 DEF PlanSound
  <2>4. ops[k].ver = rows[i].ver + 1 /\ rows[i].ver \in Nat
    BY <1>0, <2>2, <2>3 DEF PlanSound, MemoryRecord
  <2>5. rows'[i].ver = ops[k].ver
    BY <1>1, <1>3 DEF Committed
  <2> QED BY <2>4, <2>5
<1> QED BY <1>2, <1>3

\* No step undoes a committed change of a record.
LEMMA VersionsGrowStep ==
    ASSUME MemoryInv, [MemNext]_memVars
    PROVE  VersionsGrow
<1> SUFFICES ASSUME NEW i \in MemIds, rows[i].st = "live", rows'[i] # rows[i]
             PROVE  \/ rows'[i].ver > rows[i].ver
                    \/ rows'[i] = [rows[i] EXCEPT !.st = "gone"]
  BY DEF VersionsGrow
<1>1. PICK p \in Procs : \/ Commit(p) \/ ReconcileCommit(p)
                         \/ \E change \in {"active", "disabled"} : Control(p, change)
  <2>0. rows' # rows
    OBVIOUS
  <2>1. PICK p \in Procs : MemProc(p)
    BY <2>0 DEF MemNext, memVars, RevokeSource, RecordAuthorization, RevokeAuthorization,
       Lapse
  <2>2. \A k \in OpKeys, kind \in WriteKinds, j \in MemIds \cup {Nil},
          src \in MemSources \cup {Nil}, cap \in Decisions \cup {Nil} :
          ~BeginWrite(p, k, kind, j, src, cap)
    BY <2>0 DEF BeginWrite
  <2>3. ~(Prepare(p) \/ DispatchJob(p) \/ SaveIds(p) \/ VerifyProviders(p) \/ Fail(p)
          \/ CheckCommit(p) \/ FinalCheck(p) \/ StopCall(p) \/ Die(p))
    BY <2>0 DEF Prepare, DispatchJob, SaveIds, VerifyProviders, Fail, CheckCommit,
       FinalCheck, StopCall, Die
  <2>4. /\ \A k \in OpKeys : ~(Reconcile(p, k) \/ DiscardStart(p, k))
        /\ ~(ReconcileRead(p) \/ DiscardErase(p) \/ DiscardDone(p))
    BY <2>0 DEF Reconcile, DiscardStart, ReconcileRead, DiscardErase, DiscardDone
  <2>5. /\ \A k \in OpKeys, j \in MemIds : ~(ControlRead(p, k, j) \/ BeginReview(p, k, j))
        /\ \A j \in MemIds : ~GetRow(p, j)
        /\ ~(ReviewCompare(p) \/ ReviewAdvise(p) \/ FinishReview(p) \/ GetBody(p)
             \/ GetAnswer(p))
    BY <2>0 DEF ControlRead, BeginReview, GetRow, ReviewCompare, ReviewAdvise,
       FinishReview, GetBody, GetAnswer
  <2> QED BY <2>1, <2>2, <2>3, <2>4, <2>5 DEF MemProc
<1>2. CASE Commit(p) \/ ReconcileCommit(p)
  <2>0. AtWork(p) /\ job[p].at \in {"checked", "reconcile"}
    BY <1>2 DEF Commit, ReconcileCommit, AtWork, WritingSteps, RepairSteps
  <2>1. PICK k \in OpKeys : job[p].key = k /\ ops[k].st \in ScopeFenced /\ JobSound(p)
    BY <2>0, AtWorkFacts
  <2>2. Landed(k) /\ Committed(k)
    BY <1>2, <2>1 DEF Commit, ReconcileCommit, JobSound, WritingSteps
  <2>3. ops[k].planned /\ ops[k].got
    BY <2>0, <2>1 DEF JobSound, WritingSteps
  <2> QED BY <2>1, <2>2, <2>3, CommittedGrows
<1>3. ASSUME NEW change \in {"active", "disabled"}, Control(p, change)
      PROVE  rows'[i].ver > rows[i].ver
  <2>1. rows \in [MemIds -> MemoryRecord] /\ rows[i].ver \in Nat
    BY MemTypes DEF MemTypeOK, MemoryRecord
  <2>2. PICK x : rows' = [rows EXCEPT ![x].state = change, ![x].ver = @ + 1]
    BY <1>3 DEF Control
  <2>3. x = i
    BY <2>1, <2>2
  <2>4. rows'[i] = [rows[i] EXCEPT !.state = change, !.ver = @ + 1]
    BY <2>1, <2>2, <2>3
  <2>5. rows'[i].ver = rows[i].ver + 1
    BY <2>1, <2>4 DEF MemTypeOK, MemoryRecord
  <2> QED BY <2>1, <2>5
<1> QED BY <1>1, <1>2, <1>3

\* Nobody but its writer, checked before the error came, completes an extraction
\* whose provider failed.
LEMMA ErrorsRepairedStep ==
    ASSUME MemoryInv, [MemNext]_memVars
    PROVE  ErrorsRepaired
<1> SUFFICES ASSUME NEW k \in OpKeys, ops[k].kind = "extract", ops[k].perr,
                    ops[k].st # "complete", ops'[k].st = "complete"
             PROVE  \E p \in Procs : job[p].key = k /\ job[p].at = "checked"
  BY DEF ErrorsRepaired
<1>0. /\ ops \in [OpKeys -> MemoryOperation] /\ PlanSound(k)
      /\ ops' # ops /\ ops'[k] # ops[k]
  BY MemTypes DEF MemTypeOK
<1>1. PICK p \in Procs : MemProc(p)
  BY <1>0 DEF MemNext, memVars, RevokeSource, RecordAuthorization, RevokeAuthorization, Lapse
<1>2. ASSUME NEW x \in OpKeys, NEW o, ops' = [ops EXCEPT ![x] = o], o.st # "complete"
      PROVE  FALSE
  BY <1>0, <1>2
<1>3. ASSUME NEW x \in OpKeys, NEW kind \in WriteKinds, NEW j \in MemIds \cup {Nil},
             NEW src \in MemSources \cup {Nil}, NEW cap \in Decisions \cup {Nil},
             BeginWrite(p, x, kind, j, src, cap)
      PROVE  FALSE
  <2>1. PICK ver : ops' = [ops EXCEPT ![x] = [NoOp EXCEPT !.st = "running",
             !.kind = kind, !.target = j, !.src = src, !.cap = cap, !.ver = ver,
             !.managed = p \in managed]]
    BY <1>3 DEF BeginWrite
  <2> DEFINE o == [NoOp EXCEPT !.st = "running", !.kind = kind, !.target = j, !.src = src,
                               !.cap = cap, !.ver = ver, !.managed = p \in managed]
  <2>2. o.st = "running"
    BY DEF NoOp
  <2>3. ops' = [ops EXCEPT ![x] = o]
    BY <2>1
  <2> HIDE DEF o
  <2> QED BY <1>2, <2>2, <2>3
<1>4. /\ \A x \in OpKeys, j \in MemIds : ~BeginReview(p, x, j)
      /\ \A x \in OpKeys, j \in MemIds : ~ControlRead(p, x, j)
      /\ \A j \in MemIds : ~GetRow(p, j)
  <2>1. [NoOp EXCEPT !.st = "running", !.kind = "review", !.managed = TRUE].st = "running"
    BY DEF NoOp
  <2> QED BY <1>0, <1>2, <2>1 DEF BeginReview, ControlRead, GetRow
<1>5. /\ ~(Prepare(p) \/ SaveIds(p) \/ VerifyProviders(p) \/ Fail(p) \/ StopCall(p)
           \/ DiscardDone(p))
      /\ \A x \in OpKeys : ~(Reconcile(p, x) \/ DiscardStart(p, x))
  <2>1. ops[k] \in MemoryOperation
    BY <1>0
  <2>2. ~Prepare(p)
    <3> SUFFICES ASSUME Prepare(p)
                 PROVE  FALSE
      OBVIOUS
    <3> DEFINE x == job[p].key
               old == IF ops[x].target = Nil THEN NoRow ELSE rows[ops[x].target]
               src == IF ops[x].src = Nil THEN old.src ELSE ops[x].src
               cap == IF ops[x].target = Nil THEN ops[x].cap ELSE old.cap
    <3>1. PICK state : ops' = [ops EXCEPT ![x].planned = TRUE, ![x].ver = old.ver + 1,
                          ![x].state = state, ![x].src = src, ![x].cap = cap]
      BY <1>0 DEF Prepare
    <3> HIDE DEF src, cap, old, x
    <3>2. x = k
      BY <1>0, <3>1
    <3>3. ops'[k] = [ops[k] EXCEPT !.planned = TRUE, !.ver = old.ver + 1, !.state = state,
                                   !.src = src, !.cap = cap]
      BY <1>0, <3>1, <3>2
    <3>4. ops'[k].st = ops[k].st
      BY <2>1, <3>3 DEF MemoryOperation
    <3> QED BY <3>4
  <2>7. ASSUME NEW x, NEW ids, ops' = [ops EXCEPT ![x].got = TRUE, ![x].ids = ids]
        PROVE  FALSE
    BY <1>0, <2>1, <2>7 DEF MemoryOperation
  <2>3. ~SaveIds(p) /\ ~VerifyProviders(p)
    <3>1. ~VerifyProviders(p)
      BY <1>0, <2>1 DEF VerifyProviders, MemoryOperation
    <3> QED BY <2>7, <3>1 DEF SaveIds
  <2>4. ~(Fail(p) \/ StopCall(p) \/ DiscardDone(p))
    BY <1>0, <2>1 DEF Fail, StopCall, DiscardDone, MemoryOperation
  <2>5. \A x \in OpKeys : ~DiscardStart(p, x)
    BY <1>0, <2>1 DEF DiscardStart, MemoryOperation
  <2>6. ASSUME NEW x \in OpKeys, Reconcile(p, x)
        PROVE  FALSE
    <3>1. CASE ops' = [ops EXCEPT ![x].st = "failed"]
      BY <1>0, <2>1, <3>1 DEF MemoryOperation
    <3> QED BY <2>6, <2>7, <3>1 DEF Reconcile
  <2> QED BY <2>2, <2>3, <2>4, <2>5, <2>6
<1>10. ~(DispatchJob(p) \/ CheckCommit(p) \/ FinalCheck(p) \/ Die(p) \/ ReconcileRead(p)
         \/ DiscardErase(p) \/ ReviewCompare(p) \/ ReviewAdvise(p) \/ GetBody(p)
         \/ GetAnswer(p))
  BY <1>0 DEF DispatchJob, CheckCommit, FinalCheck, Die, ReconcileRead, DiscardErase,
     ReviewCompare, ReviewAdvise, GetBody, GetAnswer
<1>6. \A change \in {"active", "disabled"} : ~Control(p, change)
  <2> SUFFICES ASSUME NEW change \in {"active", "disabled"}, Control(p, change)
               PROVE  FALSE
    OBVIOUS
  <2>1. job[p].key = k /\ ops[k].st = "none"
    BY <1>0 DEF Control
  <2> QED BY <1>0, <2>1 DEF PlanSound
<1>7. ~FinishReview(p)
  <2> SUFFICES ASSUME FinishReview(p)
               PROVE  FALSE
    OBVIOUS
  <2>1. job[p].key = k /\ job[p].at = "review" /\ JobSound(p)
    BY <1>0, MemTypes DEF FinishReview
  <2> QED BY <2>1 DEF JobSound, ReviewSteps
<1>8. CASE Commit(p)
  BY <1>0, <1>8 DEF Commit, Committed
<1>9. CASE ReconcileCommit(p)
  <2>1. job[p].key = k /\ job[p].at = "reconcile" /\ JobSound(p)
    BY <1>0, <1>9, MemTypes DEF ReconcileCommit, Committed
  <2> QED BY <2>1 DEF JobSound, Unverified
<1> QED BY <1>1, <1>3, <1>4, <1>5, <1>6, <1>7, <1>8, <1>9, <1>10 DEF MemProc

\* A record leaves the adapter as it is in the journal at that moment (get with
\* assert_epoch), and no commit, control operation or repair undoes another
\* one's committed change; an extraction whose provider failed is completed by no
\* repair.
THEOREM MemoryStepsHold ==
    ASSUME ~TwinRepair
    PROVE  MemSpec => MemorySteps
<1>1. ASSUME MemoryInv
      PROVE  AnswerCurrent
  <2> SUFFICES ASSUME NEW p \in Procs, GetAnswer(p)
               PROVE  rows[job[p].id] = job[p].row /\ ~Hidden(rows[job[p].id])
    BY DEF AnswerCurrent
  <2>1. JobSound(p)
    BY <1>1 DEF MemoryInv
  <2> QED BY <2>1 DEF JobSound, GetAnswer
<1>2. MemoryInv /\ [MemNext]_memVars => [AnswerCurrent /\ VersionsGrow /\ ErrorsRepaired]_memVars
  BY <1>1, VersionsGrowStep, ErrorsRepairedStep
<1> QED BY <1>2, MemoryInvariant, PTL DEF MemSpec, MemorySteps

-----------------------------------------------------------------------------
(* Part 2: Artifacts.                                                      *)

USE DEF ArtifactRecord, ArtifactBatch, ArtifactBatchReceipt, ArtifactWriteClaim

-----------------------------------------------------------------------------
(* Values.                                                                 *)

\* Neither sentinel is a stored receipt or claim.
LEMMA Sentinels ==
    /\ NoClaim \notin ArtifactWriteClaim
    /\ NoReceipt \notin ArtifactBatchReceipt
    /\ Idle \in ArtifactWorker
    /\ NoRecord \in ArtifactRecord
BY ArtAssumption DEF NoClaim, NoReceipt, Idle, NoRecord, WriterSteps, ArtStatus,
                     ArtifactWorker

\* An append keeps the committed batches as a prefix.
LEMMA AppendPrefix ==
    ASSUME NEW S, NEW s \in Seq(S), NEW e \in S
    PROVE  SubSeq(Append(s, e), 1, Len(s)) = s
<1>1. /\ Append(s, e) \in Seq(S) /\ Len(Append(s, e)) = Len(s) + 1
      /\ \A i \in 1 .. Len(s) : Append(s, e)[i] = s[i]
  BY AppendProperties
<1>2. Len(s) \in Nat /\ \A i \in 1 .. Len(s) : s[i] \in S
  OBVIOUS
<1> DEFINE t == SubSeq(Append(s, e), 1, Len(s))
<1>3. /\ t \in Seq(S) /\ Len(t) = (IF 1 <= Len(s) THEN Len(s) - 1 + 1 ELSE 0)
      /\ \A i \in 1 .. Len(s) - 1 + 1 : t[i] = Append(s, e)[1 + i - 1]
  <2>1. \A i \in 1 .. Len(s) : Append(s, e)[i] \in S
    BY <1>1, <1>2
  <2> QED BY <1>2, <2>1, SubSeqProperties
<1>4. Len(t) = Len(s) /\ \A i \in 1 .. Len(t) : t[i] = s[i]
  BY <1>1, <1>2, <1>3
<1> HIDE DEF t
<1> QED BY <1>3, <1>4, SeqEqual DEF t

\* The entries of a sequence.
LEMMA SeqEntries ==
    ASSUME NEW S, NEW s \in Seq(S)
    PROVE  /\ Len(s) \in Nat /\ DOMAIN s = 1 .. Len(s)
           /\ \A i \in DOMAIN s : s[i] \in S
BY LenProperties, ElementOfSeq

\* The coverage of committed batches is coverage of contents.
LEMMA CoverageTyped ==
    ASSUME ArtTypeOK, NEW id \in ArtIds
    PROVE  CoverageOf(id) \in SUBSET CoverageKeys
<1>1. batches[id] \in Seq(ArtifactBatch)
  BY DEF ArtTypeOK
<1>2. \A i \in DOMAIN batches[id] : batches[id][i] \in ArtifactBatch
  BY <1>1, SeqEntries
<1> QED BY <1>2 DEF CoverageOf, CoverageKeys

-----------------------------------------------------------------------------
(* Steps that only move a worker.                                          *)

\* A step that leaves the records, batches and receipts alone keeps the
\* invariant, if the claims fit and what the worker knows afterwards is so.
LEMMA FrameStep ==
    ASSUME ArtifactInv, NEW w, UNCHANGED <<artifacts, owned, batches, receipts>>,
           claims' \in [ArtIds -> ArtifactWriteClaim \cup {NoClaim}], ClaimsCurrent',
           artClock' \in Nat, tokens' \in Nat, goneRuns' \subseteq WriterRuns,
           writers' \in [Writers -> ArtifactWorker],
           \A v \in Writers \ {w} : writers'[v] = writers[v],
           w \in Writers /\ writers'[w].at # "idle" => Knows(w)'
    PROVE  ArtifactInv'
<1>1. ArtTypeOK'
  BY DEF ArtifactInv, ArtTypeOK
<1>2. RecordInv'
  BY DEF ArtifactInv, RecordInv
<1>3. WorkerInv'
  <2> SUFFICES ASSUME NEW v \in Writers, writers'[v].at # "idle" PROVE Knows(v)'
    BY DEF WorkerInv
  <2>1. CASE v = w
    BY <2>1
  <2>2. CASE v # w
    <3>1. writers'[v] = writers[v] /\ Knows(v)
      BY <2>2 DEF ArtifactInv, WorkerInv
    <3>2. AsExpected(v)' <=> AsExpected(v)
      BY <3>1 DEF AsExpected, Open, AtRevision
    <3>3. CoverageOf(writers[v].id)' = CoverageOf(writers[v].id)
      BY <3>1 DEF CoverageOf
    <3> QED BY <3>1, <3>2, <3>3 DEF Knows
  <2> QED BY <2>1, <2>2
<1>4. CoverageOnce' /\ FinalizedExact' /\ OwnerIndexExact'
  BY DEF ArtifactInv, CoverageOnce, FinalizedExact, OwnerIndexExact, CoverageOf, Open
<1> QED BY <1>1, <1>2, <1>3, <1>4 DEF ArtifactInv

\* A step of one worker that leaves the store alone.
LEMMA WorkerStep ==
    ASSUME ArtifactInv, NEW w \in Writers, UNCHANGED storeVars,
           artClock' = artClock, goneRuns' = goneRuns,
           writers' \in [Writers -> ArtifactWorker],
           \A v \in Writers \ {w} : writers'[v] = writers[v],
           writers'[w].at # "idle" => Knows(w)'
    PROVE  ArtifactInv'
<1>1. /\ UNCHANGED <<artifacts, owned, batches, receipts>>
      /\ claims' \in [ArtIds -> ArtifactWriteClaim \cup {NoClaim}]
      /\ artClock' \in Nat /\ tokens' \in Nat /\ goneRuns' \subseteq WriterRuns
  BY DEF ArtifactInv, ArtTypeOK, storeVars
<1>2. ClaimsCurrent'
  BY DEF ArtifactInv, ClaimsCurrent, Open, storeVars
<1> QED BY <1>1, <1>2, FrameStep

\* A worker that stops working or gives an operation up knows no more than
\* before.
LEMMA RestStep ==
    ASSUME ArtifactInv, NEW w \in Writers, UNCHANGED storeVars,
           artClock' = artClock, goneRuns' = goneRuns,
           writers' = Rest(w)
    PROVE  ArtifactInv'
<1>1. /\ writers' \in [Writers -> ArtifactWorker]
      /\ \A v \in Writers \ {w} : writers'[v] = writers[v]
      /\ writers'[w].at = "idle"
  BY Sentinels DEF ArtifactInv, ArtTypeOK, Rest, Idle
<1> QED BY <1>1, WorkerStep

\* What Back does to the workers.
LEMMA BackWorkers ==
    ASSUME ArtifactInv, NEW w \in Writers, writers[w].at # "idle"
    PROVE  /\ Back(w) \in [Writers -> ArtifactWorker]
           /\ \A v \in Writers \ {w} : Back(w)[v] = writers[v]
           /\ Back(w)[w].at = "hold" /\ Back(w)[w].id = writers[w].id
           /\ Back(w)[w].run = writers[w].run /\ Back(w)[w].rev = writers[w].rev
           /\ Back(w)[w].tok = writers[w].tok /\ Back(w)[w].seq = writers[w].seq
<1>1. writers \in [Writers -> ArtifactWorker] /\ writers[w] \in ArtifactWorker
  BY DEF ArtifactInv, ArtTypeOK
<1>2. /\ \A v \in Writers \ {w} : Back(w)[v] = writers[v]
      /\ Back(w)[w] = [writers[w] EXCEPT !.at = "hold", !.key = Nobody,
                          !.content = Nobody, !.cmdSeq = 1, !.cover = {}]
  BY <1>1 DEF Back
<1>3. [writers[w] EXCEPT !.at = "hold", !.key = Nobody, !.content = Nobody,
                         !.cmdSeq = 1, !.cover = {}] \in ArtifactWorker
  <2> DEFINE r1 == [writers[w] EXCEPT !.at = "hold"]
             r2 == [r1 EXCEPT !.key = Nobody, !.content = Nobody]
             r3 == [r2 EXCEPT !.cmdSeq = 1]
  <2>1. r1 \in ArtifactWorker
    BY <1>1 DEF WriterSteps, ArtifactWorker
  <2>2. r2 \in ArtifactWorker
    <3> HIDE DEF r1
    <3> QED BY <2>1 DEF ArtifactWorker
  <2>3. r3 \in ArtifactWorker
    <3> HIDE DEF r2
    <3> QED BY <2>2 DEF ArtifactWorker
  <2>4. [r3 EXCEPT !.cover = {}] \in ArtifactWorker
    <3> HIDE DEF r3
    <3> QED BY <2>3 DEF ArtifactWorker
  <2> QED BY <2>4
<1>4. Back(w) \in [Writers -> ArtifactWorker]
  <2> DEFINE rec == [writers[w] EXCEPT !.at = "hold", !.key = Nobody, !.content = Nobody,
                                       !.cmdSeq = 1, !.cover = {}]
  <2>1. Back(w) = [writers EXCEPT ![w] = rec]
    BY <1>1 DEF Back
  <2>2. rec \in ArtifactWorker
    BY <1>3
  <2> HIDE DEF rec
  <2> QED BY <1>1, <2>1, <2>2
<1> QED BY <1>1, <1>2, <1>3, <1>4 DEF ArtifactWorker

\* An operation that ends without a store call taking effect.
LEMMA BackStep ==
    ASSUME ArtifactInv, NEW w \in Writers, UNCHANGED storeVars,
           artClock' = artClock, goneRuns' = goneRuns,
           writers[w].at # "idle", writers' = Back(w)
    PROVE  ArtifactInv'
<1>1. Knows(w)'
  BY BackWorkers DEF ArtifactInv, WorkerInv, Knows, storeVars
<1> QED BY <1>1, BackWorkers, WorkerStep

\* The lifecycle's own steps and the end of a worker.
LEMMA AuthorizeStep ==
    ASSUME ArtifactInv, NEW w \in Writers, NEW id \in ArtIds, NEW r \in WriterRuns,
           Authorize(w, id, r)
    PROVE  ArtifactInv'
<1>1. artifacts[id] \in ArtifactRecord
  BY DEF ArtifactInv, ArtTypeOK
<1>2. writers' \in [Writers -> ArtifactWorker]
  <2>1. [Idle EXCEPT !.at = "granted", !.run = r, !.id = id,
           !.rev = artifacts[id].rev, !.seq = artifacts[id].next] \in ArtifactWorker
    BY <1>1, Sentinels DEF Idle, WriterSteps, ArtifactWorker
  <2> QED BY <2>1 DEF ArtifactInv, ArtTypeOK, Authorize
<1>3. \A v \in Writers \ {w} : writers'[v] = writers[v]
  BY DEF ArtifactInv, ArtTypeOK, Authorize
<1>4. /\ writers'[w].id = id /\ writers'[w].run = r /\ writers'[w].at = "granted"
      /\ writers'[w].rev = artifacts[id].rev
  BY DEF ArtifactInv, ArtTypeOK, Authorize, Idle
<1>5. Knows(w)'
  BY <1>1, <1>4 DEF Knows, Authorize, storeVars
<1> QED BY <1>2, <1>3, <1>5, WorkerStep DEF Authorize

\* A worker that repeats an append is answered from its receipt.
LEMMA AppendReplayStep ==
    ASSUME ArtifactInv, NEW w \in Writers, NEW k \in Keys, NEW b \in Contents,
           NEW seq \in Nat, AppendReplay(w, k, b, seq)
    PROVE  ArtifactInv'
<1>0. Knows(w) /\ writers[w] \in ArtifactWorker /\ writers[w].at = "hold"
      /\ writers[w].id \in ArtIds
  BY DEF ArtifactInv, ArtTypeOK, WorkerInv, AppendReplay, Knows
<1> DEFINE id == writers[w].id
<1>1. CASE FreshKey(id, k)
  <2>1. writers' = [writers EXCEPT ![w].at = "check", ![w].key = k,
                                   ![w].content = b, ![w].cmdSeq = seq]
    BY <1>1 DEF AppendReplay
  <2>0. seq \in Nat \ {0}
    BY <1>0 DEF AppendReplay
  <2>2. /\ writers' \in [Writers -> ArtifactWorker]
        /\ \A v \in Writers \ {w} : writers'[v] = writers[v]
    <3>1. [writers[w] EXCEPT !.at = "check", !.key = k, !.content = b, !.cmdSeq = seq]
             \in ArtifactWorker
      BY <1>0, <2>0 DEF WriterSteps, ArtifactWorker
    <3> QED BY <2>1, <3>1 DEF ArtifactInv, ArtTypeOK
  <2>3. Knows(w)'
    BY <1>0, <2>1 DEF Knows, AppendReplay, storeVars, ArtifactInv, ArtTypeOK, ArtifactWorker
  <2> QED BY <2>2, <2>3, WorkerStep DEF AppendReplay
<1>2. CASE ~FreshKey(id, k)
  <2>1. writers' = [writers EXCEPT ![w].rev = receipts[id][k].rev,
                                   ![w].seq = receipts[id][k].next]
    BY <1>2 DEF AppendReplay
  <2>0. receipts[id][k] \in ArtifactBatchReceipt
    BY <1>0, <1>2 DEF FreshKey, ArtifactInv, ArtTypeOK
  <2>2. /\ writers' \in [Writers -> ArtifactWorker]
        /\ \A v \in Writers \ {w} : writers'[v] = writers[v]
    <3>1. [writers[w] EXCEPT !.rev = receipts[id][k].rev, !.seq = receipts[id][k].next]
             \in ArtifactWorker
      BY <1>0, <2>0 DEF ArtifactWorker
    <3> QED BY <2>1, <3>1 DEF ArtifactInv, ArtTypeOK
  <2>4. receipts[id][k].rev <= artifacts[id].rev
    BY <1>0 DEF ArtifactInv, RecordInv
  <2>5. /\ writers'[w].rev = receipts[id][k].rev /\ writers'[w].at = "hold"
        /\ writers'[w].id = id /\ writers'[w].run = writers[w].run
    BY <1>0, <2>1 DEF ArtifactInv, ArtTypeOK, ArtifactWorker
  <2>3. Knows(w)'
    BY <1>0, <2>4, <2>5 DEF Knows, AppendReplay, storeVars
  <2> QED BY <2>2, <2>3, WorkerStep DEF AppendReplay
<1> QED BY <1>1, <1>2

\* A worker goes on to another step of its command and changes nothing else.
LEMMA AtStep ==
    ASSUME ArtifactInv, NEW w \in Writers, NEW where \in WriterSteps,
           writers' = [writers EXCEPT ![w].at = where]
    PROVE  /\ writers' \in [Writers -> ArtifactWorker]
           /\ \A v \in Writers \ {w} : writers'[v] = writers[v]
           /\ writers'[w] = [writers[w] EXCEPT !.at = where]
           /\ writers'[w].at = where /\ writers'[w].id = writers[w].id
           /\ writers'[w].run = writers[w].run /\ writers'[w].rev = writers[w].rev
           /\ writers'[w].key = writers[w].key /\ writers'[w].cover = writers[w].cover
           /\ writers'[w].content = writers[w].content
BY DEF ArtifactInv, ArtTypeOK, ArtifactWorker

\* The checks of append: the worker remembers the revision it has read.
LEMMA AppendCheckStep ==
    ASSUME ArtifactInv, NEW w \in Writers, AppendCheck(w)
    PROVE  ArtifactInv'
<1>0. Knows(w) /\ writers[w].at = "check"
  BY DEF ArtifactInv, WorkerInv, AppendCheck
<1>1. CASE writers' = Back(w)
  BY <1>0, <1>1, BackStep DEF AppendCheck
<1>2. CASE writers' = [writers EXCEPT ![w].at = "cover"]
  <2>1. Knows(w)'
    BY <1>0, <1>2, AtStep DEF Knows, AppendCheck, storeVars, WriterSteps
  <2> QED BY <1>2, <2>1, AtStep, WorkerStep DEF AppendCheck, WriterSteps
<1> QED BY <1>1, <1>2 DEF AppendCheck

\* The coverage an append adds is computed from the record it has read.
LEMMA AppendCoverStep ==
    ASSUME ArtifactInv, NEW w \in Writers, AppendCover(w)
    PROVE  ArtifactInv'
<1>0. Knows(w) /\ writers[w].at = "cover"
  BY DEF ArtifactInv, WorkerInv, AppendCover
<1>1. CASE writers' = Back(w)
  BY <1>0, <1>1, BackStep DEF AppendCover
<1>2. CASE /\ Covers[writers[w].content] \cap CoverageOf(writers[w].id) = {}
           /\ writers' = [writers EXCEPT ![w].at = "commit"]
  <2>0. writers'[w].id = writers[w].id /\ batches' = batches
    BY <1>2, AtStep DEF AppendCover, storeVars, WriterSteps
  <2>1. CoverageOf(writers[w].id)' = CoverageOf(writers[w].id)
    BY <2>0 DEF CoverageOf
  <2>2. Knows(w)'
    BY <1>0, <1>2, <2>1, AtStep DEF Knows, AppendCover, storeVars, WriterSteps
  <2> QED BY <1>2, <2>2, AtStep, WorkerStep DEF AppendCover, WriterSteps
<1> QED BY <1>1, <1>2 DEF AppendCover

\* The checks of finalize.
LEMMA FinalizeCheckStep ==
    ASSUME ArtifactInv, NEW w \in Writers, FinalizeCheck(w)
    PROVE  ArtifactInv'
<1>0. Knows(w) /\ writers[w].at = "hold"
  BY DEF ArtifactInv, WorkerInv, FinalizeCheck
<1>1. Knows(w)'
  BY <1>0, AtStep DEF Knows, FinalizeCheck, storeVars, WriterSteps
<1> QED BY <1>1, AtStep, WorkerStep DEF FinalizeCheck, WriterSteps

\* What finalize has validated is the record at the revision it knows.
LEMMA FinalizeCoverStep ==
    ASSUME ArtifactInv, NEW w \in Writers, FinalizeCover(w)
    PROVE  ArtifactInv'
<1>0. /\ Knows(w) /\ writers[w].at = "finalCover" /\ writers[w] \in ArtifactWorker
      /\ writers[w].id \in ArtIds
  BY DEF ArtifactInv, ArtTypeOK, WorkerInv, FinalizeCover, Knows
<1>1. CASE writers' = Back(w)
  BY <1>0, <1>1, BackStep DEF FinalizeCover
<1>2. CASE writers' = [writers EXCEPT ![w].at = "finalCommit",
                                      ![w].cover = CoverageOf(writers[w].id)]
  <2>1. CoverageOf(writers[w].id) \in SUBSET CoverageKeys
    BY <1>0, CoverageTyped DEF ArtifactInv
  <2>2. [writers[w] EXCEPT !.at = "finalCommit", !.cover = CoverageOf(writers[w].id)]
           \in ArtifactWorker
    BY <1>0, <2>1 DEF ArtifactWorker, WriterSteps
  <2>3. /\ writers' \in [Writers -> ArtifactWorker]
        /\ \A v \in Writers \ {w} : writers'[v] = writers[v]
    BY <1>2, <2>2 DEF ArtifactInv, ArtTypeOK
  <2>4. /\ writers'[w].at = "finalCommit" /\ writers'[w].id = writers[w].id
        /\ writers'[w].run = writers[w].run /\ writers'[w].rev = writers[w].rev
        /\ writers'[w].cover = CoverageOf(writers[w].id)
    BY <1>0, <1>2 DEF ArtifactInv, ArtTypeOK, ArtifactWorker
  <2>5. CoverageOf(writers[w].id)' = CoverageOf(writers[w].id)
    BY <2>4 DEF CoverageOf, FinalizeCover, storeVars
  <2>6. AsExpected(w)' <=> AsExpected(w)
    BY <2>4 DEF AsExpected, Open, AtRevision, FinalizeCover, storeVars
  <2>7. Knows(w)'
    BY <1>0, <2>4, <2>5, <2>6 DEF Knows, FinalizeCover, storeVars
  <2> QED BY <2>3, <2>7, WorkerStep DEF FinalizeCover
<1> QED BY <1>1, <1>2 DEF FinalizeCover

\* The checks of abort.
LEMMA AbortCheckStep ==
    ASSUME ArtifactInv, NEW w \in Writers, AbortCheck(w)
    PROVE  ArtifactInv'
<1>0. Knows(w) /\ writers[w].at = "hold"
  BY DEF ArtifactInv, WorkerInv, AbortCheck
<1>1. Knows(w)'
  BY <1>0, AtStep DEF Knows, AbortCheck, storeVars, WriterSteps
<1> QED BY <1>1, AtStep, WorkerStep DEF AbortCheck, WriterSteps

-----------------------------------------------------------------------------
(* Claims.                                                                 *)

\* acquire hands out a claim of the open artifact at its revision.
LEMMA AcquireStep ==
    ASSUME ArtifactInv, NEW w \in Writers, Acquire(w)
    PROVE  ArtifactInv'
<1> DEFINE id == writers[w].id
<1>0. /\ Knows(w) /\ writers[w].at = "granted" /\ writers[w] \in ArtifactWorker
      /\ id \in ArtIds /\ writers[w].run \in WriterRuns
      /\ artifacts[id] \in ArtifactRecord /\ tokens \in Nat /\ artClock \in Nat
      /\ claims[id] \in ArtifactWriteClaim \cup {NoClaim}
      /\ claims \in [ArtIds -> ArtifactWriteClaim \cup {NoClaim}]
      /\ goneRuns \subseteq WriterRuns /\ writers \in [Writers -> ArtifactWorker]
      /\ ClaimsCurrent
  BY DEF ArtifactInv, ArtTypeOK, WorkerInv, Acquire, Knows
<1>1. UNCHANGED <<artClock, artifacts, owned, batches, receipts, goneRuns>>
  BY DEF Acquire
<1>2. CASE UNCHANGED <<claims, tokens>> /\ writers' = Rest(w)
  BY <1>1, <1>2, RestStep DEF storeVars
<1>3. ASSUME NEW tok \in Nat, writers' = [writers EXCEPT ![w].at = "hold", ![w].tok = tok]
      PROVE  /\ writers' \in [Writers -> ArtifactWorker]
             /\ \A v \in Writers \ {w} : writers'[v] = writers[v]
             /\ Knows(w)'
  <2>1. [writers[w] EXCEPT !.at = "hold", !.tok = tok] \in ArtifactWorker
    BY <1>0 DEF ArtifactWorker, WriterSteps
  <2>2. /\ writers' \in [Writers -> ArtifactWorker]
        /\ \A v \in Writers \ {w} : writers'[v] = writers[v]
    BY <1>0, <1>3, <2>1
  <2>3. /\ writers'[w].at = "hold" /\ writers'[w].id = id
        /\ writers'[w].run = writers[w].run /\ writers'[w].rev = writers[w].rev
    BY <1>0, <1>3 DEF ArtifactWorker
  <2> QED BY <1>0, <1>1, <2>2, <2>3 DEF Knows
<1>4. CASE /\ UNCHANGED <<claims, tokens>>
           /\ writers' = [writers EXCEPT ![w].at = "hold", ![w].tok = ActiveClaim(id).tok]
  <2>1. ActiveClaim(id).tok \in Nat
    BY <1>0 DEF ActiveClaim, NoClaim
  <2> QED BY <1>1, <1>3, <1>4, <2>1, WorkerStep DEF storeVars
<1>5. CASE /\ Open(id) /\ tokens' = tokens + 1
           /\ claims' = [claims EXCEPT ![id] =
                 [run |-> writers[w].run, tok |-> tokens + 1,
                  rev |-> artifacts[id].rev, exp |-> artClock + ClaimMs]]
           /\ writers' = [writers EXCEPT ![w].at = "hold", ![w].tok = tokens + 1]
  <2>1. tokens + 1 \in Nat /\ artClock + ClaimMs \in Nat
    BY <1>0, ArtAssumption
  <2>2. [run |-> writers[w].run, tok |-> tokens + 1, rev |-> artifacts[id].rev,
         exp |-> artClock + ClaimMs] \in ArtifactWriteClaim
    BY <1>0, <2>1
  <2>3. claims' \in [ArtIds -> ArtifactWriteClaim \cup {NoClaim}]
    BY <1>0, <1>5, <2>2
  <2>4. ClaimsCurrent'
    <3> SUFFICES ASSUME NEW i \in ArtIds, claims'[i] # NoClaim
                 PROVE  Open(i)' /\ artifacts'[i].rev = claims'[i].rev
      BY DEF ClaimsCurrent
    <3>1. CASE i = id
      BY <1>0, <1>1, <1>5, <3>1 DEF Open
    <3>2. CASE i # id
      BY <1>0, <1>1, <1>5, <3>2 DEF Open, ClaimsCurrent
    <3> QED BY <3>1, <3>2
  <2> QED BY <1>0, <1>1, <1>3, <1>5, <2>1, <2>3, <2>4, FrameStep
<1> QED BY <1>1, <1>2, <1>4, <1>5 DEF Acquire

\* A step that only renews or drops claims.
LEMMA ClaimStep ==
    ASSUME ArtifactInv, UNCHANGED <<artClock, artifacts, owned, batches, receipts,
                                    writers, tokens, goneRuns>>,
           claims' \in [ArtIds -> ArtifactWriteClaim \cup {NoClaim}],
           \A id \in ArtIds : claims'[id] = NoClaim
                              \/ (claims[id] # NoClaim /\ claims'[id].rev = claims[id].rev)
    PROVE  ArtifactInv'
<1>1. ClaimsCurrent'
  BY DEF ArtifactInv, ClaimsCurrent, Open
<1>2. PICK x : x \notin Writers
  BY NoSetContainsEverything
<1> QED BY <1>1, <1>2, FrameStep DEF ArtifactInv, ArtTypeOK

\* renew moves the expiry of the claim it found active.
LEMMA RenewStep ==
    ASSUME ArtifactInv, NEW w \in Writers, Renew(w)
    PROVE  ArtifactInv'
<1> DEFINE id == writers[w].id
<1>1. /\ id \in ArtIds /\ claims \in [ArtIds -> ArtifactWriteClaim \cup {NoClaim}]
      /\ artClock \in Nat
  BY DEF ArtifactInv, ArtTypeOK, WorkerInv, Knows, Renew
<1>2. claims[id] \in ArtifactWriteClaim
  BY <1>1 DEF Renew, RequireClaim, ActiveClaim
<1>3. artClock + ClaimMs \in Nat
  BY <1>1, ArtAssumption
<1>4. [claims[id] EXCEPT !.exp = artClock + ClaimMs] \in ArtifactWriteClaim
  BY <1>2, <1>3
<1>5. claims' \in [ArtIds -> ArtifactWriteClaim \cup {NoClaim}]
  BY <1>1, <1>4 DEF Renew
<1>6. \A i \in ArtIds : claims'[i] = NoClaim
                        \/ (claims[i] # NoClaim /\ claims'[i].rev = claims[i].rev)
  BY <1>1, <1>2, Sentinels DEF Renew
<1> QED BY <1>5, <1>6, ClaimStep DEF Renew

\* release and release_for_run drop claims.
LEMMA ReleaseStep ==
    ASSUME ArtifactInv, NEW w \in Writers, Release(w)
    PROVE  ArtifactInv'
<1>1. writers[w].id \in ArtIds
  BY DEF ArtifactInv, WorkerInv, Knows, Release
<1>2. /\ claims' \in [ArtIds -> ArtifactWriteClaim \cup {NoClaim}]
      /\ \A i \in ArtIds : claims'[i] \in {NoClaim, claims[i]}
  BY <1>1 DEF ArtifactInv, ArtTypeOK, Release
<1>3. ClaimsCurrent'
  BY <1>2 DEF ArtifactInv, ClaimsCurrent, Open, Release
<1>4. /\ writers' \in [Writers -> ArtifactWorker]
      /\ \A v \in Writers \ {w} : writers'[v] = writers[v]
      /\ writers'[w].at = "idle"
  BY Sentinels DEF ArtifactInv, ArtTypeOK, Release, Rest, Idle
<1> QED BY <1>2, <1>3, <1>4, FrameStep DEF ArtifactInv, ArtTypeOK, Release

\* release_for_run gives up the claims of one Run.
LEMMA ReleaseForRunStep ==
    ASSUME ArtifactInv, NEW r \in WriterRuns, ReleaseForRun(r)
    PROVE  ArtifactInv'
<1>1. claims' \in [ArtIds -> ArtifactWriteClaim \cup {NoClaim}]
  BY DEF ArtifactInv, ArtTypeOK, ReleaseForRun
<1>2. \A i \in ArtIds : claims'[i] = NoClaim
                        \/ (claims[i] # NoClaim /\ claims'[i].rev = claims[i].rev)
  <2>1. \A i \in ArtIds : claims'[i] \in {NoClaim, claims[i]}
    BY DEF ReleaseForRun
  <2> QED BY <2>1
<1> QED BY <1>1, <1>2, ClaimStep DEF ReleaseForRun

\* Time passes, or the host reports a Run as gone.
LEMMA EnvironmentStep ==
    ASSUME ArtifactInv, ArtTick \/ \E r \in WriterRuns : RunGone(r)
    PROVE  ArtifactInv'
<1>1. PICK x : x \notin Writers
  BY NoSetContainsEverything
<1>2. /\ UNCHANGED <<storeVars, writers>>
      /\ artClock' \in Nat /\ goneRuns' \subseteq WriterRuns
  <2>1. CASE ArtTick
    BY <2>1 DEF ArtTick, ArtifactInv, ArtTypeOK
  <2>2. CASE \E r \in WriterRuns : RunGone(r)
    BY <2>2 DEF RunGone, ArtifactInv, ArtTypeOK
  <2> QED BY <2>1, <2>2
<1>3. ClaimsCurrent'
  BY <1>2 DEF ArtifactInv, ClaimsCurrent, Open, storeVars
<1> QED BY <1>1, <1>2, <1>3, FrameStep DEF ArtifactInv, ArtTypeOK, storeVars

-----------------------------------------------------------------------------
(* Store calls that change an artifact.                                    *)

\* Once the revision of an artifact was counted up, what any worker checked
\* before is out of date: whatever it knows about the artifact is void.
LEMMA OthersOutdated ==
    ASSUME ArtifactInv, NEW id \in ArtIds, NEW v \in Writers, writers[v].at # "idle",
           artifacts[id].st # "purged", writers'[v] = writers[v],
           artifacts'[id].rev = artifacts[id].rev + 1, artifacts'[id].st # "none",
           \A i \in ArtIds \ {id} : artifacts'[i] = artifacts[i] /\ batches'[i] = batches[i]
    PROVE  Knows(v)'
<1>0. /\ Knows(v) /\ writers[v].id \in ArtIds /\ writers[v] \in ArtifactWorker
      /\ artifacts[id] \in ArtifactRecord
  BY DEF ArtifactInv, ArtTypeOK, WorkerInv, Knows
<1>1. CASE writers[v].id = id
  <2>1. writers[v].rev <= artifacts[id].rev
    BY <1>0, <1>1 DEF Knows
  <2>2. writers[v].rev <= artifacts'[id].rev /\ artifacts'[id].rev # writers[v].rev
    BY <1>0, <2>1 DEF ArtifactWorker
  <2>3. ~AsExpected(v)'
    BY <1>1, <2>2 DEF AsExpected, AtRevision
  <2> QED BY <1>0, <1>1, <2>2, <2>3 DEF Knows
<1>2. CASE writers[v].id # id
  <2>1. AsExpected(v)' <=> AsExpected(v)
    BY <1>0, <1>2 DEF AsExpected, Open, AtRevision
  <2>2. CoverageOf(writers[v].id)' = CoverageOf(writers[v].id)
    BY <1>0, <1>2 DEF CoverageOf
  <2> QED BY <1>0, <1>2, <2>1, <2>2 DEF Knows
<1> QED BY <1>1, <1>2

\* begin stores a new artifact for an owner that has none.
LEMMA BeginStep ==
    ASSUME ArtifactInv, NEW w \in Writers, NEW o \in ArtOwners, NEW id \in ArtIds,
           NEW r \in WriterRuns, NEW exp \in ItemCounts, Begin(w, o, id, r, exp)
    PROVE  ArtifactInv'
<1> DEFINE a == [NoRecord EXCEPT !.st = "open", !.owner = o, !.run = r, !.exp = exp,
                                 !.at = artClock]
<1>0. /\ artifacts' = [artifacts EXCEPT ![id] = a]
      /\ owned' = [owned EXCEPT ![o] = id] /\ owned[o] = Nobody
      /\ artifacts[id].st = "none"
      /\ UNCHANGED <<artClock, batches, receipts, claims, writers, tokens, goneRuns>>
  BY DEF Begin, Touched
<1>1. ArtTypeOK
  BY DEF ArtifactInv
<1>2. a \in ArtifactRecord
  <2>1. artClock \in Nat /\ exp \in Nat \cup {-1}
    BY <1>1, ArtAssumption DEF ArtTypeOK
  <2>2. [NoRecord EXCEPT !.st = "open", !.owner = o, !.run = r] \in ArtifactRecord
    BY Sentinels DEF ArtStatus
  <2> QED BY <2>1, <2>2
<1>3. ArtTypeOK'
  BY <1>0, <1>1, <1>2 DEF ArtTypeOK
<1>4. a.rev = 1 /\ a.next = 1 /\ a.count = 0 /\ a.st = "open" /\ a.owner = o
  BY DEF NoRecord
<1>5. /\ artifacts'[id] = a
      /\ \A i \in ArtIds \ {id} : artifacts'[i] = artifacts[i]
  BY <1>0, <1>1 DEF ArtTypeOK
<1> HIDE DEF a
<1>6. /\ Len(batches[id]) = 0 /\ \A k \in Keys : receipts[id][k].rev <= 1
      /\ artifacts[id].owner = Nobody
  BY <1>0 DEF ArtifactInv, RecordInv, NoRecord
<1>7. RecordInv'
  BY <1>0, <1>4, <1>5, <1>6 DEF RecordInv, ArtifactInv
<1>8. WorkerInv'
  <2> SUFFICES ASSUME NEW v \in Writers, writers[v].at # "idle" PROVE Knows(v)'
    BY <1>0 DEF WorkerInv
  <2>1. Knows(v) /\ writers[v].id \in ArtIds \ {id} /\ writers'[v] = writers[v]
    BY <1>0 DEF ArtifactInv, WorkerInv, Knows
  <2>2. AsExpected(v)' <=> AsExpected(v)
    BY <1>5, <2>1 DEF AsExpected, Open, AtRevision
  <2>3. CoverageOf(writers[v].id)' = CoverageOf(writers[v].id)
    BY <1>0, <2>1 DEF CoverageOf
  <2> QED BY <1>5, <2>1, <2>2, <2>3 DEF Knows
<1>9. CoverageOnce'
  BY <1>0 DEF ArtifactInv, CoverageOnce
<1>10. FinalizedExact'
  <2>1. \A i \in ArtIds : CoverageOf(i)' = CoverageOf(i)
    BY <1>0 DEF CoverageOf
  <2> QED BY <1>0, <1>4, <1>5, <2>1 DEF ArtifactInv, FinalizedExact
<1>11. ClaimsCurrent'
  BY <1>0, <1>5 DEF ArtifactInv, ClaimsCurrent, Open
<1>12. OwnerIndexExact'
  <2>1. ASSUME NEW p \in ArtOwners, owned'[p] # Nobody
        PROVE  /\ artifacts'[owned'[p]].owner = p
               /\ artifacts'[owned'[p]].st \notin {"none", "purged"}
    <3>1. CASE p = o
      BY <1>0, <1>1, <1>4, <1>5, <3>1 DEF ArtTypeOK
    <3>2. CASE p # o
      BY <1>0, <1>1, <1>5, <2>1, <3>2 DEF ArtifactInv, OwnerIndexExact, ArtTypeOK
    <3> QED BY <3>1, <3>2
  <2>2. ASSUME NEW i \in ArtIds, artifacts'[i].owner # Nobody
        PROVE  owned'[artifacts'[i].owner] = i
    <3>1. CASE i = id
      BY <1>0, <1>1, <1>4, <1>5, <3>1 DEF ArtTypeOK
    <3>2. CASE i # id
      <4>1. /\ artifacts'[i] = artifacts[i] /\ artifacts[i].owner \in ArtOwners
            /\ owned[artifacts[i].owner] = i
        BY <1>1, <1>5, <2>2, <3>2 DEF ArtifactInv, OwnerIndexExact, ArtTypeOK
      <4>2. artifacts[i].owner # o
        BY <1>0, <4>1, ArtAssumption
      <4> QED BY <1>0, <1>1, <4>1, <4>2 DEF ArtTypeOK
    <3> QED BY <3>1, <3>2
  <2> QED BY <2>1, <2>2 DEF OwnerIndexExact
<1> QED BY <1>3, <1>7, <1>8, <1>9, <1>10, <1>11, <1>12 DEF ArtifactInv

\* The store after an accepted append.
StoreAppended(id, w) ==
    /\ artifacts' \in [ArtIds -> ArtifactRecord]
    /\ batches' \in [ArtIds -> Seq(ArtifactBatch)]
    /\ receipts' \in [ArtIds -> [Keys -> ArtifactBatchReceipt \cup {NoReceipt}]]
    /\ claims' \in [ArtIds -> ArtifactWriteClaim \cup {NoClaim}]
    /\ \A i \in ArtIds \ {id} :
          /\ artifacts'[i] = artifacts[i] /\ batches'[i] = batches[i]
          /\ receipts'[i] = receipts[i] /\ claims'[i] = claims[i]
    /\ artifacts'[id] = [artifacts[id] EXCEPT !.rev = @ + 1, !.next = @ + 1,
                            !.count = @ + 1, !.at = artClock]
    /\ batches'[id] = Append(batches[id],
          [seq |-> writers[w].cmdSeq, rev |-> artifacts[id].rev + 1,
           key |-> writers[w].key, content |-> writers[w].content])
    /\ claims'[id].rev = artifacts[id].rev + 1
    /\ \A k \in Keys : \/ receipts'[id][k] = receipts[id][k]
                       \/ /\ k = writers[w].key
                          /\ receipts'[id][k].rev = artifacts[id].rev + 1

\* What an accepted append does to the store.
LEMMA AppendedStore ==
    ASSUME ArtifactInv, NEW w \in Writers, NEW id \in ArtIds,
           writers[w].key \in Keys, writers[w].content \in Contents,
           claims[id] \in ArtifactWriteClaim, Appended(id, w)
    PROVE  StoreAppended(id, w)
<1>0. /\ ArtTypeOK /\ writers[w] \in ArtifactWorker /\ artifacts[id] \in ArtifactRecord
      /\ artClock \in Nat
  BY DEF ArtifactInv, ArtTypeOK
<1> DEFINE rev == artifacts[id].rev + 1
           a == [artifacts[id] EXCEPT !.rev = @ + 1, !.next = @ + 1, !.count = @ + 1,
                                      !.at = artClock]
           b == [seq |-> writers[w].cmdSeq, rev |-> rev, key |-> writers[w].key,
                 content |-> writers[w].content]
           c == [seq |-> writers[w].cmdSeq, rev |-> rev, next |-> writers[w].cmdSeq + 1,
                 digest |-> Digest(writers[w].cmdSeq, writers[w].content)]
           d == [claims[id] EXCEPT !.rev = rev, !.exp = artClock + ClaimMs]
<1>1. /\ rev \in Nat \ {0} /\ artClock + ClaimMs \in Nat
      /\ artifacts[id].next + 1 \in Nat \ {0} /\ artifacts[id].count + 1 \in Nat
      /\ writers[w].cmdSeq \in Nat \ {0} /\ writers[w].cmdSeq + 1 \in Nat \ {0}
  BY <1>0, ArtAssumption DEF ArtifactWorker
<1>2. a \in ArtifactRecord
  <2> HIDE DEF rev
  <2> QED BY <1>0, <1>1 DEF rev
<1>3. b \in ArtifactBatch /\ c \in ArtifactBatchReceipt /\ d \in ArtifactWriteClaim
  <2> HIDE DEF rev
  <2> QED BY <1>1 DEF Digest
<1>4. /\ artifacts' = [artifacts EXCEPT ![id] = a]
      /\ batches' = [batches EXCEPT ![id] = Append(@, b)]
      /\ receipts' = [receipts EXCEPT ![id][writers[w].key] = c]
      /\ claims' = [claims EXCEPT ![id] = d]
  BY <1>0 DEF Appended, Touched, ArtTypeOK
<1>5. c.rev = rev /\ d.rev = rev
  BY DEF ArtTypeOK
<1> HIDE DEF a, b, c, d, rev
<1>6. Append(batches[id], b) \in Seq(ArtifactBatch)
  BY <1>0, <1>3, AppendProperties DEF ArtTypeOK
<1>7. /\ artifacts' \in [ArtIds -> ArtifactRecord]
      /\ batches' \in [ArtIds -> Seq(ArtifactBatch)]
      /\ receipts' \in [ArtIds -> [Keys -> ArtifactBatchReceipt \cup {NoReceipt}]]
      /\ claims' \in [ArtIds -> ArtifactWriteClaim \cup {NoClaim}]
  BY <1>0, <1>2, <1>3, <1>4, <1>6 DEF ArtTypeOK
<1>8. \A i \in ArtIds \ {id} :
         /\ artifacts'[i] = artifacts[i] /\ batches'[i] = batches[i]
         /\ receipts'[i] = receipts[i] /\ claims'[i] = claims[i]
  BY <1>0, <1>4 DEF ArtTypeOK
<1>9. artifacts'[id] = a /\ batches'[id] = Append(batches[id], b) /\ claims'[id] = d
  BY <1>0, <1>4 DEF ArtTypeOK
<1>10. \A k \in Keys : \/ receipts'[id][k] = receipts[id][k]
                       \/ k = writers[w].key /\ receipts'[id][k] = c
  BY <1>0, <1>4 DEF ArtTypeOK
<1> QED BY <1>5, <1>7, <1>8, <1>9, <1>10 DEF StoreAppended, a, b, rev

\* The store's append: the revision says that the coverage which was checked
\* before the last await is the coverage now.
LEMMA AppendCommitStep ==
    ASSUME ArtifactInv, NEW w \in Writers, AppendCommit(w)
    PROVE  ArtifactInv'
<1> DEFINE id == writers[w].id
           s == batches[id]
           b == [seq |-> writers[w].cmdSeq, rev |-> artifacts[id].rev + 1,
                 key |-> writers[w].key, content |-> writers[w].content]
<1>0. /\ ArtTypeOK /\ Knows(w) /\ writers[w].at = "commit" /\ id \in ArtIds
      /\ writers[w] \in ArtifactWorker /\ artifacts[id] \in ArtifactRecord
      /\ writers[w].key \in Keys /\ writers[w].content \in Contents
      /\ UNCHANGED <<artClock, owned, tokens, goneRuns>>
  BY DEF ArtifactInv, ArtTypeOK, WorkerInv, AppendCommit, Knows
<1>1. CASE UNCHANGED <<artifacts, batches, receipts, claims>> /\ writers' = Back(w)
  BY <1>0, <1>1, BackStep DEF storeVars
<1>2. CASE /\ Open(id) /\ AtRevision(id, writers[w].rev)
           /\ artifacts[id].next = writers[w].cmdSeq /\ RequireClaim(w, id)
           /\ Appended(id, w)
           /\ writers' = [Back(w) EXCEPT ![w].rev = @ + 1,
                                         ![w].seq = writers[w].cmdSeq + 1]
  <2>1. claims[id] \in ArtifactWriteClaim
    BY <1>0, <1>2 DEF RequireClaim, ActiveClaim, ArtTypeOK
  <2>2. /\ artifacts' \in [ArtIds -> ArtifactRecord]
        /\ batches' \in [ArtIds -> Seq(ArtifactBatch)]
        /\ receipts' \in [ArtIds -> [Keys -> ArtifactBatchReceipt \cup {NoReceipt}]]
        /\ claims' \in [ArtIds -> ArtifactWriteClaim \cup {NoClaim}]
        /\ \A i \in ArtIds \ {id} :
              /\ artifacts'[i] = artifacts[i] /\ batches'[i] = batches[i]
              /\ receipts'[i] = receipts[i] /\ claims'[i] = claims[i]
        /\ artifacts'[id] = [artifacts[id] EXCEPT !.rev = @ + 1, !.next = @ + 1,
                                !.count = @ + 1, !.at = artClock]
        /\ batches'[id] = Append(s, b)
        /\ claims'[id].rev = artifacts[id].rev + 1
        /\ \A k \in Keys : \/ receipts'[id][k] = receipts[id][k]
                           \/ /\ k = writers[w].key
                              /\ receipts'[id][k].rev = artifacts[id].rev + 1
    <3>1. Appended(id, w)
      BY <1>2
    <3>2. StoreAppended(id, w)
      BY <1>0, <2>1, <3>1, AppendedStore
    <3> QED BY <3>2 DEF StoreAppended
  <2>3. /\ artifacts'[id].rev = artifacts[id].rev + 1
        /\ artifacts'[id].next = artifacts[id].next + 1
        /\ artifacts'[id].count = artifacts[id].count + 1
        /\ artifacts'[id].st = "open" /\ artifacts'[id].owner = artifacts[id].owner
    BY <1>0, <1>2, <2>2 DEF Open
  <2>4. /\ writers' \in [Writers -> ArtifactWorker]
        /\ \A v \in Writers \ {w} : writers'[v] = writers[v]
        /\ writers'[w].at = "hold" /\ writers'[w].id = id
        /\ writers'[w].run = writers[w].run /\ writers'[w].rev = writers[w].rev + 1
    <3> DEFINE r == Back(w)[w]
    <3>1. /\ Back(w) \in [Writers -> ArtifactWorker] /\ r \in ArtifactWorker
          /\ \A v \in Writers \ {w} : Back(w)[v] = writers[v]
          /\ r.at = "hold" /\ r.id = id /\ r.run = writers[w].run /\ r.rev = writers[w].rev
      BY <1>0, BackWorkers
    <3>2. r.rev + 1 \in Nat \ {0} /\ writers[w].cmdSeq + 1 \in Nat \ {0}
      BY <1>0, <3>1 DEF ArtifactWorker
    <3>3. [r EXCEPT !.rev = r.rev + 1, !.seq = writers[w].cmdSeq + 1] \in ArtifactWorker
      <4> HIDE DEF r
      <4> QED BY <3>1, <3>2 DEF ArtifactWorker
    <3>4. writers' = [Back(w) EXCEPT ![w] =
                        [r EXCEPT !.rev = r.rev + 1, !.seq = writers[w].cmdSeq + 1]]
      BY <1>2, <3>1
    <3> HIDE DEF r
    <3>5. writers' \in [Writers -> ArtifactWorker]
      BY <3>1, <3>3, <3>4
    <3>6. /\ \A v \in Writers \ {w} : writers'[v] = writers[v]
          /\ writers'[w] = [r EXCEPT !.rev = r.rev + 1, !.seq = writers[w].cmdSeq + 1]
      BY <3>1, <3>4
    <3> QED BY <3>1, <3>5, <3>6 DEF ArtifactWorker
  <2>5. ArtTypeOK'
    BY <1>0, <2>2, <2>4 DEF ArtTypeOK
  <2>6. b \in ArtifactBatch /\ s \in Seq(ArtifactBatch) /\ b.seq = Len(s) + 1
        /\ b.content = writers[w].content
    <3>1. artifacts[id].rev + 1 \in Nat \ {0} /\ writers[w].cmdSeq \in Nat \ {0}
      BY <1>0 DEF ArtifactWorker
    <3>2. b \in ArtifactBatch
      BY <1>0, <3>1
    <3>3. s \in Seq(ArtifactBatch) /\ artifacts[id].next = Len(s) + 1
      BY <1>0 DEF ArtTypeOK, ArtifactInv, RecordInv
    <3> QED BY <1>2, <3>2, <3>3
  <2>7. /\ Len(Append(s, b)) = Len(s) + 1 /\ Len(s) \in Nat
        /\ DOMAIN s = 1 .. Len(s) /\ DOMAIN Append(s, b) = 1 .. Len(s) + 1
        /\ \A i \in 1 .. Len(s) : Append(s, b)[i] = s[i]
        /\ Append(s, b)[Len(s) + 1] = b
    BY <2>6, AppendProperties, SeqEntries
  <2> HIDE DEF b, s
  <2>8. RecordInv'
    <3> SUFFICES ASSUME NEW i \in ArtIds
                 PROVE  /\ artifacts'[i].next = Len(batches'[i]) + 1
                        /\ artifacts'[i].count = Len(batches'[i])
                        /\ artifacts'[i].st \in {"none", "purged"} =>
                              artifacts'[i] = [NoRecord EXCEPT !.st = artifacts'[i].st]
                        /\ \A k \in Keys : receipts'[i][k].rev <= artifacts'[i].rev
      BY DEF RecordInv
    <3>1. CASE i = id
      <4>1. artifacts[id].next = Len(s) + 1 /\ artifacts[id].count = Len(s)
        BY <1>0 DEF ArtifactInv, RecordInv, s
      <4>2. \A k \in Keys : receipts'[id][k].rev <= artifacts'[id].rev
        <5> TAKE k \in Keys
        <5>1. receipts[id][k].rev \in Nat /\ receipts[id][k].rev <= artifacts[id].rev
          <6>1. receipts[id][k] \in ArtifactBatchReceipt \cup {NoReceipt}
            BY <1>0 DEF ArtifactInv, ArtTypeOK
          <6>2. receipts[id][k].rev <= artifacts[id].rev
            BY <1>0 DEF ArtifactInv, RecordInv
          <6> QED BY <6>1, <6>2 DEF NoReceipt
        <5>2. CASE receipts'[id][k] = receipts[id][k]
          BY <1>0, <2>3, <5>1, <5>2
        <5>3. CASE receipts'[id][k].rev = artifacts[id].rev + 1
          BY <1>0, <2>3, <5>3
        <5> QED BY <2>2, <5>2, <5>3
      <4> QED BY <2>2, <2>3, <2>7, <3>1, <4>1, <4>2
    <3>2. CASE i # id
      BY <2>2, <3>2 DEF ArtifactInv, RecordInv
    <3> QED BY <3>1, <3>2
  <2>9. WorkerInv'
    <3> SUFFICES ASSUME NEW v \in Writers, writers'[v].at # "idle" PROVE Knows(v)'
      BY DEF WorkerInv
    <3>1. CASE v = w
      BY <1>0, <1>2, <2>3, <2>4, <3>1 DEF Knows, AtRevision
    <3>2. CASE v # w
      <4>1. artifacts[id].st # "purged" /\ artifacts'[id].st # "none"
        BY <1>2, <2>3 DEF Open
      <4>2. \A i \in ArtIds \ {id} : artifacts'[i] = artifacts[i] /\ batches'[i] = batches[i]
        BY <2>2
      <4>3. writers'[v] = writers[v]
        BY <2>4, <3>2
      <4> HIDE DEF id
      <4> QED BY <1>0, <2>3, <4>1, <4>2, <4>3, OthersOutdated
    <3> QED BY <3>1, <3>2
  <2>10. CoverageOnce'
    <3> SUFFICES ASSUME NEW x \in ArtIds, NEW i \in DOMAIN batches'[x],
                        NEW j \in DOMAIN batches'[x]
                 PROVE  /\ batches'[x][i].seq = i
                        /\ i # j => Covers[batches'[x][i].content]
                                      \cap Covers[batches'[x][j].content] = {}
      BY DEF CoverageOnce
    <3>1. CASE x # id
      <4>1. batches'[x] = batches[x]
        BY <2>2, <3>1
      <4> QED BY <4>1 DEF ArtifactInv, CoverageOnce
    <3>2. CASE x = id
      <4>1. batches'[x] = Append(s, b) /\ i \in 1 .. Len(s) + 1 /\ j \in 1 .. Len(s) + 1
        BY <2>2, <2>7, <3>2
      <4>2. Covers[b.content] \cap CoverageOf(id) = {}
        BY <1>0, <1>2, <2>6 DEF Knows, AsExpected
      <4>3. \A m \in 1 .. Len(s) : Covers[b.content] \cap Covers[s[m].content] = {}
        BY <2>7, <4>2 DEF CoverageOf, s
      <4>4. \A m, n \in 1 .. Len(s) :
               /\ s[m].seq = m
               /\ m # n => Covers[s[m].content] \cap Covers[s[n].content] = {}
        BY <1>0, <2>7 DEF ArtifactInv, CoverageOnce, s
      <4>5. CASE i = Len(s) + 1 /\ j = Len(s) + 1
        BY <2>6, <2>7, <4>1, <4>5
      <4>6. CASE i = Len(s) + 1 /\ j # Len(s) + 1
        <5>1. j \in 1 .. Len(s)
          BY <2>7, <4>1, <4>6
        <5>2. batches'[x][i] = b /\ batches'[x][j] = s[j]
          BY <2>7, <4>1, <4>6, <5>1
        <5> QED BY <2>6, <4>3, <4>6, <5>1, <5>2
      <4>7. CASE i # Len(s) + 1 /\ j = Len(s) + 1
        <5>1. i \in 1 .. Len(s)
          BY <2>7, <4>1, <4>7
        <5>2. batches'[x][j] = b /\ batches'[x][i] = s[i]
          BY <2>7, <4>1, <4>7, <5>1
        <5>3. Covers[s[i].content] \cap Covers[b.content] = {}
          BY <4>3, <5>1
        <5> QED BY <4>4, <5>1, <5>2, <5>3
      <4>8. CASE i # Len(s) + 1 /\ j # Len(s) + 1
        <5>1. i \in 1 .. Len(s) /\ j \in 1 .. Len(s)
          BY <2>7, <4>1, <4>8
        <5>2. batches'[x][i] = s[i] /\ batches'[x][j] = s[j]
          BY <2>7, <4>1, <5>1
        <5> QED BY <4>4, <5>1, <5>2
      <4> QED BY <4>5, <4>6, <4>7, <4>8
    <3> QED BY <3>1, <3>2
  <2>11. FinalizedExact'
    <3>1. ASSUME NEW i \in ArtIds, artifacts'[i].st = "finalized"
          PROVE  /\ artifacts'[i].cover = CoverageOf(i)'
                 /\ artifacts'[i].count = Len(batches'[i])
                 /\ artifacts'[i].exp \in {-1, artifacts'[i].count}
      <4>1. i # id
        BY <2>3, <3>1
      <4>2. artifacts'[i] = artifacts[i] /\ batches'[i] = batches[i]
        BY <2>2, <4>1
      <4>3. CoverageOf(i)' = CoverageOf(i)
        BY <4>2 DEF CoverageOf
      <4> QED BY <3>1, <4>2, <4>3 DEF ArtifactInv, FinalizedExact
    <3> QED BY <3>1 DEF FinalizedExact
  <2>12. ClaimsCurrent'
    <3> SUFFICES ASSUME NEW i \in ArtIds, claims'[i] # NoClaim
                 PROVE  artifacts'[i].st = "open" /\ artifacts'[i].rev = claims'[i].rev
      BY DEF ClaimsCurrent, Open
    <3>1. CASE i = id
      BY <2>2, <2>3, <3>1
    <3>2. CASE i # id
      BY <2>2, <3>2 DEF ArtifactInv, ClaimsCurrent, Open
    <3> QED BY <3>1, <3>2
  <2>13. OwnerIndexExact'
    <3>1. \A i \in ArtIds : artifacts'[i].owner = artifacts[i].owner
                            /\ artifacts'[i].st = artifacts[i].st
      BY <1>2, <2>2, <2>3 DEF Open
    <3> QED BY <1>0, <3>1 DEF ArtifactInv, OwnerIndexExact, ArtTypeOK
  <2> QED BY <2>5, <2>8, <2>9, <2>10, <2>11, <2>12, <2>13 DEF ArtifactInv
<1> QED BY <1>0, <1>1, <1>2 DEF AppendCommit

\* finalize and abort, with what was validated before the store call.
LEMMA TerminalStep ==
    ASSUME ArtifactInv, NEW w \in Writers, NEW id \in ArtIds,
           NEW st \in {"finalized", "aborted"}, NEW cover \in SUBSET CoverageKeys,
           Open(id), Terminal(id, st, cover), writers' = Rest(w),
           UNCHANGED <<artClock, goneRuns>>,
           st = "finalized" => /\ cover = CoverageOf(id)
                               /\ artifacts[id].exp \in {-1, artifacts[id].count}
    PROVE  ArtifactInv'
<1>0. /\ ArtTypeOK /\ artifacts[id] \in ArtifactRecord /\ artClock \in Nat
  BY DEF ArtifactInv, ArtTypeOK
<1> DEFINE a == [artifacts[id] EXCEPT !.st = st, !.rev = @ + 1, !.cover = cover,
                                      !.at = artClock]
<1>1. a \in ArtifactRecord
  <2>1. artifacts[id].rev + 1 \in Nat \ {0} /\ st \in ArtStatus
    BY <1>0 DEF ArtStatus
  <2>2. [artifacts[id] EXCEPT !.st = st, !.rev = @ + 1] \in ArtifactRecord
    BY <1>0, <2>1
  <2> QED BY <1>0, <2>2
<1>2. /\ a.st = st /\ a.rev = artifacts[id].rev + 1 /\ a.cover = cover
      /\ a.next = artifacts[id].next /\ a.count = artifacts[id].count
      /\ a.exp = artifacts[id].exp /\ a.owner = artifacts[id].owner
  BY <1>0
<1>3. /\ artifacts' = [artifacts EXCEPT ![id] = a]
      /\ claims' = [claims EXCEPT ![id] = NoClaim]
      /\ UNCHANGED <<owned, batches, receipts, tokens>>
  BY DEF Terminal, Touched
<1> HIDE DEF a
<1>4. /\ artifacts'[id] = a /\ claims'[id] = NoClaim
      /\ \A i \in ArtIds \ {id} : artifacts'[i] = artifacts[i] /\ claims'[i] = claims[i]
  BY <1>0, <1>3 DEF ArtTypeOK
<1>5. /\ writers' \in [Writers -> ArtifactWorker]
      /\ \A v \in Writers \ {w} : writers'[v] = writers[v]
      /\ writers'[w].at = "idle"
  BY <1>0, Sentinels DEF ArtTypeOK, Rest, Idle
<1>6. ArtTypeOK'
  <2>1. artifacts' \in [ArtIds -> ArtifactRecord]
    BY <1>0, <1>1, <1>3 DEF ArtTypeOK
  <2>2. claims' \in [ArtIds -> ArtifactWriteClaim \cup {NoClaim}]
    BY <1>0, <1>3 DEF ArtTypeOK
  <2> QED BY <1>0, <1>3, <1>5, <2>1, <2>2 DEF ArtTypeOK
<1>7. RecordInv'
  <2> SUFFICES ASSUME NEW i \in ArtIds
               PROVE  /\ artifacts'[i].next = Len(batches[i]) + 1
                      /\ artifacts'[i].count = Len(batches[i])
                      /\ artifacts'[i].st \in {"none", "purged"} =>
                            artifacts'[i] = [NoRecord EXCEPT !.st = artifacts'[i].st]
                      /\ \A k \in Keys : receipts[i][k].rev <= artifacts'[i].rev
    BY <1>3 DEF RecordInv
  <2>1. CASE i = id
    <3>1. \A k \in Keys : receipts[i][k].rev \in Nat
      BY <1>0 DEF ArtTypeOK, NoReceipt
    <3>2. artifacts'[i].st \notin {"none", "purged"}
      BY <1>2, <1>4, <2>1
    <3>3. \A k \in Keys : receipts[i][k].rev <= artifacts'[i].rev
      <4>1. \A k \in Keys : receipts[i][k].rev <= artifacts[id].rev
        BY <2>1 DEF ArtifactInv, RecordInv
      <4>2. artifacts'[i].rev = artifacts[id].rev + 1 /\ artifacts[id].rev \in Nat
        BY <1>0, <1>2, <1>4, <2>1
      <4> QED BY <3>1, <4>1, <4>2
    <3> QED BY <1>2, <1>4, <2>1, <3>2, <3>3 DEF ArtifactInv, RecordInv
  <2>2. CASE i # id
    BY <1>4, <2>2 DEF ArtifactInv, RecordInv
  <2> QED BY <2>1, <2>2
<1>8. WorkerInv'
  <2> SUFFICES ASSUME NEW v \in Writers, writers'[v].at # "idle" PROVE Knows(v)'
    BY DEF WorkerInv
  <2>1. v # w /\ writers'[v] = writers[v]
    BY <1>5
  <2>2. artifacts[id].st # "purged" /\ artifacts'[id].st # "none"
    BY <1>2, <1>4 DEF Open
  <2>3. \A i \in ArtIds \ {id} : artifacts'[i] = artifacts[i] /\ batches'[i] = batches[i]
    BY <1>3, <1>4
  <2>4. artifacts'[id].rev = artifacts[id].rev + 1
    BY <1>2, <1>4
  <2> QED BY <2>1, <2>2, <2>3, <2>4, OthersOutdated
<1>9. CoverageOnce'
  BY <1>3 DEF ArtifactInv, CoverageOnce
<1>10. FinalizedExact'
  <2>1. \A i \in ArtIds : CoverageOf(i)' = CoverageOf(i)
    BY <1>3 DEF CoverageOf
  <2> SUFFICES ASSUME NEW i \in ArtIds, artifacts'[i].st = "finalized"
               PROVE  /\ artifacts'[i].cover = CoverageOf(i)
                      /\ artifacts'[i].count = Len(batches[i])
                      /\ artifacts'[i].exp \in {-1, artifacts'[i].count}
    BY <1>3, <2>1 DEF FinalizedExact
  <2>2. CASE i = id
    BY <1>2, <1>4, <2>2 DEF ArtifactInv, RecordInv
  <2>3. CASE i # id
    BY <1>4, <2>3 DEF ArtifactInv, FinalizedExact
  <2> QED BY <2>2, <2>3
<1>11. ClaimsCurrent'
  BY <1>4 DEF ArtifactInv, ClaimsCurrent, Open
<1>12. OwnerIndexExact'
  <2>1. \A i \in ArtIds : /\ artifacts'[i].owner = artifacts[i].owner
                          /\ artifacts[i].st \notin {"none", "purged"} =>
                                artifacts'[i].st \notin {"none", "purged"}
    BY <1>2, <1>4
  <2> QED BY <1>0, <1>3, <2>1 DEF ArtifactInv, OwnerIndexExact, ArtTypeOK
<1> QED BY <1>6, <1>7, <1>8, <1>9, <1>10, <1>11, <1>12 DEF ArtifactInv

\* The revision says that the batches which were validated are those stored.
LEMMA FinalizeCommitStep ==
    ASSUME ArtifactInv, NEW w \in Writers, FinalizeCommit(w)
    PROVE  ArtifactInv'
<1> DEFINE id == writers[w].id
<1>0. /\ Knows(w) /\ writers[w].at = "finalCommit" /\ id \in ArtIds
      /\ writers[w] \in ArtifactWorker /\ UNCHANGED <<artClock, goneRuns>>
  BY DEF ArtifactInv, ArtTypeOK, WorkerInv, FinalizeCommit, Knows
<1>1. CASE UNCHANGED storeVars /\ writers' = Back(w)
  BY <1>0, <1>1, BackStep
<1>2. CASE /\ Open(id) /\ AtRevision(id, writers[w].rev)
           /\ Terminal(id, "finalized", writers[w].cover) /\ writers' = Rest(w)
  <2>1. /\ writers[w].cover = CoverageOf(id)
        /\ artifacts[id].exp \in {-1, artifacts[id].count}
    BY <1>0, <1>2 DEF Knows, AsExpected
  <2>2. writers[w].cover \in SUBSET CoverageKeys
    BY <1>0 DEF ArtifactWorker
  <2> QED BY <1>0, <1>2, <2>1, <2>2, TerminalStep
<1> QED BY <1>1, <1>2 DEF FinalizeCommit

\* abort commits: the artifact ends and its claim goes with it.
LEMMA AbortCommitStep ==
    ASSUME ArtifactInv, NEW w \in Writers, AbortCommit(w)
    PROVE  ArtifactInv'
<1> DEFINE id == writers[w].id
<1>0. /\ Knows(w) /\ writers[w].at = "abortCommit" /\ id \in ArtIds
      /\ UNCHANGED <<artClock, goneRuns>>
  BY DEF ArtifactInv, WorkerInv, AbortCommit, Knows
<1>1. CASE UNCHANGED storeVars /\ writers' = Back(w)
  BY <1>0, <1>1, BackStep
<1>2. CASE Open(id) /\ Terminal(id, "aborted", {}) /\ writers' = Rest(w)
  BY <1>0, <1>2, TerminalStep
<1> QED BY <1>1, <1>2 DEF AbortCommit

\* maintain drops claims and purges terminal artifacts, with their batches,
\* receipts and owner.
LEMMA MaintainStep ==
    ASSUME ArtifactInv, Maintain
    PROVE  ArtifactInv'
<1> DEFINE stale == {id \in ArtIds : Reclaimable(id)}
           blank == [NoRecord EXCEPT !.st = "purged"]
<1>0. PICK purged \in PurgeBatches :
      /\ claims' = [id \in ArtIds |->
            IF id \in stale \cup purged THEN NoClaim ELSE claims[id]]
      /\ artifacts' = [id \in ArtIds |-> IF id \in purged THEN blank ELSE artifacts[id]]
      /\ owned' = OwnersAfter(purged)
      /\ batches' = [id \in ArtIds |-> IF id \in purged THEN <<>> ELSE batches[id]]
      /\ receipts' = [id \in ArtIds |->
            IF id \in purged THEN [k \in Keys |-> NoReceipt] ELSE receipts[id]]
      /\ UNCHANGED <<artClock, writers, tokens, goneRuns>>
  BY DEF Maintain
<1>1. /\ purged \subseteq ArtIds
      /\ \A id \in purged : artifacts[id].st \in {"finalized", "aborted"}
  BY DEF PurgeBatches, Purgeable
<1>2. blank \in ArtifactRecord /\ blank.st = "purged" /\ blank.next = 1 /\ blank.count = 0
      /\ blank.owner = Nobody /\ blank.rev = 1
  <2>1. /\ NoRecord.next = 1 /\ NoRecord.count = 0 /\ NoRecord.owner = Nobody
        /\ NoRecord.rev = 1 /\ "purged" \in ArtStatus
    BY DEF NoRecord, ArtStatus
  <2> QED BY <2>1, Sentinels
<1> HIDE DEF stale, blank
<1>3. ArtTypeOK /\ <<>> \in Seq(ArtifactBatch) /\ Len(<<>>) = 0 /\ purged \subseteq ArtIds
  BY <1>1, EmptySeq DEF ArtifactInv
<1>4. ArtTypeOK'
  BY <1>0, <1>2, <1>3 DEF ArtTypeOK, OwnersAfter
<1>5. \A id \in ArtIds \ purged :
         /\ artifacts'[id] = artifacts[id] /\ batches'[id] = batches[id]
         /\ receipts'[id] = receipts[id] /\ claims'[id] \in {NoClaim, claims[id]}
  BY <1>0
<1>6. \A id \in purged :
         /\ artifacts'[id] = blank /\ batches'[id] = <<>> /\ claims'[id] = NoClaim
         /\ \A k \in Keys : receipts'[id][k] = NoReceipt
  BY <1>0, <1>3
<1>7. RecordInv'
  <2> SUFFICES ASSUME NEW i \in ArtIds
               PROVE  /\ artifacts'[i].next = Len(batches'[i]) + 1
                      /\ artifacts'[i].count = Len(batches'[i])
                      /\ artifacts'[i].st \in {"none", "purged"} =>
                            artifacts'[i] = [NoRecord EXCEPT !.st = artifacts'[i].st]
                      /\ \A k \in Keys : receipts'[i][k].rev <= artifacts'[i].rev
    BY DEF RecordInv
  <2>1. CASE i \in purged
    <3>1. NoReceipt.rev = 0 /\ blank = [NoRecord EXCEPT !.st = "purged"]
      BY DEF NoReceipt, blank
    <3> QED BY <1>2, <1>3, <1>6, <2>1, <3>1
  <2>2. CASE i \notin purged
    BY <1>5, <2>2 DEF ArtifactInv, RecordInv
  <2> QED BY <2>1, <2>2
<1>8. WorkerInv'
  <2> SUFFICES ASSUME NEW v \in Writers, writers[v].at # "idle" PROVE Knows(v)'
    BY <1>0 DEF WorkerInv
  <2>1. Knows(v) /\ writers[v].id \in ArtIds /\ writers'[v] = writers[v]
    BY <1>0 DEF ArtifactInv, WorkerInv, Knows
  <2>2. CASE writers[v].id \in purged
    <3>1. ~AsExpected(v)'
      BY <1>2, <1>6, <2>1, <2>2 DEF AsExpected, Open
    <3> QED BY <1>2, <1>6, <2>1, <2>2, <3>1 DEF Knows
  <2>3. CASE writers[v].id \notin purged
    <3>1. AsExpected(v)' <=> AsExpected(v)
      BY <1>5, <2>1, <2>3 DEF AsExpected, Open, AtRevision
    <3>2. CoverageOf(writers[v].id)' = CoverageOf(writers[v].id)
      BY <1>5, <2>1, <2>3 DEF CoverageOf
    <3> QED BY <1>5, <2>1, <2>3, <3>1, <3>2 DEF Knows
  <2> QED BY <2>2, <2>3
<1>9. CoverageOnce'
  <2>1. DOMAIN <<>> = {}
    OBVIOUS
  <2>2. \A i \in ArtIds : batches'[i] = batches[i] \/ DOMAIN batches'[i] = {}
    BY <1>5, <1>6, <2>1
  <2> SUFFICES ASSUME NEW x \in ArtIds, NEW i \in DOMAIN batches'[x],
                      NEW j \in DOMAIN batches'[x]
               PROVE  /\ batches'[x][i].seq = i
                      /\ i # j => Covers[batches'[x][i].content]
                                    \cap Covers[batches'[x][j].content] = {}
    BY DEF CoverageOnce
  <2>3. batches'[x] = batches[x]
    BY <2>2
  <2> QED BY <2>3 DEF ArtifactInv, CoverageOnce
<1>10. FinalizedExact'
  <2>1. ASSUME NEW i \in ArtIds, artifacts'[i].st = "finalized"
        PROVE  /\ artifacts'[i].cover = CoverageOf(i)'
               /\ artifacts'[i].count = Len(batches'[i])
               /\ artifacts'[i].exp \in {-1, artifacts'[i].count}
    <3>1. artifacts'[i] = artifacts[i] /\ batches'[i] = batches[i]
      BY <1>2, <1>5, <1>6, <2>1
    <3>2. CoverageOf(i)' = CoverageOf(i)
      BY <3>1 DEF CoverageOf
    <3> QED BY <2>1, <3>1, <3>2 DEF ArtifactInv, FinalizedExact
  <2> QED BY <2>1 DEF FinalizedExact
<1>11. ClaimsCurrent'
  BY <1>5, <1>6 DEF ArtifactInv, ClaimsCurrent, Open
<1>12. OwnerIndexExact'
  <2>1. \A o \in ArtOwners : /\ owned[o] \in purged => owned'[o] = Nobody
                             /\ owned[o] \notin purged => owned'[o] = owned[o]
    BY <1>0 DEF OwnersAfter
  <2>2. ASSUME NEW o \in ArtOwners, owned'[o] # Nobody
        PROVE  /\ artifacts'[owned'[o]].owner = o
               /\ artifacts'[owned'[o]].st \notin {"none", "purged"}
    <3>1. owned'[o] = owned[o] /\ owned[o] \in ArtIds \ purged
      BY <1>3, <2>1, <2>2 DEF ArtTypeOK
    <3> QED BY <1>5, <2>2, <3>1 DEF ArtifactInv, OwnerIndexExact
  <2>3. ASSUME NEW i \in ArtIds, artifacts'[i].owner # Nobody
        PROVE  owned'[artifacts'[i].owner] = i
    <3>1. i \notin purged /\ artifacts'[i] = artifacts[i]
      BY <1>2, <1>5, <1>6, <2>3
    <3>2. artifacts[i].owner \in ArtOwners /\ owned[artifacts[i].owner] = i
      BY <1>3, <2>3, <3>1 DEF ArtifactInv, OwnerIndexExact, ArtTypeOK
    <3> QED BY <2>1, <3>1, <3>2
  <2> QED BY <2>2, <2>3 DEF OwnerIndexExact
<1> QED BY <1>4, <1>7, <1>8, <1>9, <1>10, <1>11, <1>12 DEF ArtifactInv

-----------------------------------------------------------------------------
(* Theorems.                                                               *)

\* Before the first command nothing is stored.
LEMMA ArtifactsInitially == ArtInit => ArtifactInv
<1> SUFFICES ASSUME ArtInit PROVE ArtifactInv
  OBVIOUS
<1>1. \A id \in ArtIds : artifacts[id] = NoRecord /\ batches[id] = <<>> /\ claims[id] = NoClaim
  BY DEF ArtInit
<1>2. /\ NoRecord.st = "none" /\ NoRecord.owner = Nobody /\ NoRecord.next = 1
      /\ NoRecord.count = 0 /\ NoRecord.rev = 1 /\ NoReceipt.rev = 0
      /\ NoRecord = [NoRecord EXCEPT !.st = "none"]
  BY DEF NoRecord, NoReceipt
<1>3. <<>> \in Seq(ArtifactBatch) /\ Len(<<>>) = 0 /\ DOMAIN <<>> = {}
  BY EmptySeq
<1>4. ArtTypeOK
  BY <1>3, Sentinels DEF ArtInit, ArtTypeOK
<1>5. RecordInv
  BY <1>1, <1>2, <1>3 DEF RecordInv, ArtInit
<1>6. WorkerInv
  BY DEF ArtInit, WorkerInv, Idle
<1>7. CoverageOnce /\ FinalizedExact /\ ClaimsCurrent
  BY <1>1, <1>2, <1>3 DEF CoverageOnce, FinalizedExact, ClaimsCurrent
<1>8. OwnerIndexExact
  BY <1>1, <1>2 DEF OwnerIndexExact, ArtInit
<1> QED BY <1>4, <1>5, <1>6, <1>7, <1>8 DEF ArtifactInv

\* Every step keeps the invariant.
LEMMA ArtifactsStep ==
    ASSUME ArtifactInv, [ArtNext]_artVars
    PROVE  ArtifactInv'
<1>1. ASSUME NEW w \in Writers, ArtWriter(w)
      PROVE  ArtifactInv'
  <2>1. CASE \E o \in ArtOwners, id \in ArtIds, r \in WriterRuns, exp \in ItemCounts :
                Begin(w, o, id, r, exp)
    BY <2>1, BeginStep
  <2>2. CASE \E id \in ArtIds, r \in WriterRuns : Authorize(w, id, r)
    BY <2>2, AuthorizeStep
  <2>3. CASE Acquire(w)
    BY <2>3, AcquireStep
  <2>4. CASE Renew(w)
    BY <2>4, RenewStep
  <2>5. CASE Release(w)
    BY <2>5, ReleaseStep
  <2>6. CASE \E k \in Keys, b \in Contents, seq \in 1..MaxRevision : AppendReplay(w, k, b, seq)
    BY <2>6, AppendReplayStep, ArtAssumption
  <2>7. CASE AppendCheck(w)
    BY <2>7, AppendCheckStep
  <2>8. CASE AppendCover(w)
    BY <2>8, AppendCoverStep
  <2>9. CASE AppendCommit(w)
    BY <2>9, AppendCommitStep
  <2>10. CASE FinalizeCheck(w)
    BY <2>10, FinalizeCheckStep
  <2>11. CASE FinalizeCover(w)
    BY <2>11, FinalizeCoverStep
  <2>12. CASE FinalizeCommit(w)
    BY <2>12, FinalizeCommitStep
  <2>13. CASE AbortCheck(w)
    BY <2>13, AbortCheckStep
  <2>14. CASE AbortCommit(w)
    BY <2>14, AbortCommitStep
  <2>15. CASE CrashWriter(w)
    BY <2>15, RestStep DEF CrashWriter
  <2> QED BY <1>1, <2>1, <2>2, <2>3, <2>4, <2>5, <2>6, <2>7, <2>8, <2>9, <2>10, <2>11,
             <2>12, <2>13, <2>14, <2>15 DEF ArtWriter
<1>2. CASE \E r \in WriterRuns : ReleaseForRun(r)
  BY <1>2, ReleaseForRunStep
<1>3. CASE ArtTick \/ \E r \in WriterRuns : RunGone(r)
  BY <1>3, EnvironmentStep
<1>4. CASE Maintain
  BY <1>4, MaintainStep
<1>5. CASE UNCHANGED artVars
  <2>1. PICK x : x \notin Writers
    BY NoSetContainsEverything
  <2>2. ClaimsCurrent'
    BY <1>5 DEF artVars, ArtifactInv, ClaimsCurrent, Open
  <2> QED BY <1>5, <2>1, <2>2, FrameStep DEF artVars, ArtifactInv, ArtTypeOK
<1> QED BY <1>1, <1>2, <1>3, <1>4, <1>5 DEF ArtNext

\* For every number of workers, Runs, artifacts and batches: coverage is
\* committed once, a finalized artifact is exactly what the lifecycle validated
\* before its last await, and claims and the owner index fit the records.
THEOREM ArtifactInvariant == ArtSpec => []ArtifactInv
<1>1. ArtInit => ArtifactInv
  BY ArtifactsInitially
<1>2. ArtifactInv /\ [ArtNext]_artVars => ArtifactInv'
  BY ArtifactsStep
<1> QED BY <1>1, <1>2, PTL DEF ArtSpec

\* Maintenance leaves open artifacts and the live claims of available Runs.
LEMMA LiveSpared ==
    ASSUME ArtifactInv
    PROVE  SweepSparesLive
<1> SUFFICES ASSUME Maintain, NEW id \in ArtIds
             PROVE  /\ Open(id) => artifacts'[id] = artifacts[id]
                    /\ (claims[id].exp > artClock /\ claims[id].run \notin goneRuns
                        /\ Open(id)) => claims'[id] = claims[id]
  BY DEF SweepSparesLive
<1>1. Open(id) => ~Purgeable(id)
  BY DEF Open, Purgeable
<1>2. claims[id].exp \in Int /\ artClock \in Int
  BY DEF ArtifactInv, ArtTypeOK, NoClaim
<1>3. claims[id].exp > artClock /\ claims[id].run \notin goneRuns /\ Open(id)
         => ~Reclaimable(id)
  BY <1>2 DEF Reclaimable, ArtifactInv, ClaimsCurrent
<1>4. \A ids \in PurgeBatches : id \in ids => Purgeable(id)
  BY DEF PurgeBatches
<1> QED BY <1>1, <1>3, <1>4 DEF Maintain

\* A step that leaves batches, receipts and the terminal records alone.
LEMMA UntouchedFixed ==
    ASSUME ArtifactInv, UNCHANGED <<batches, receipts>>,
           \A id \in ArtIds : artifacts[id].st \in {"finalized", "aborted"} =>
                                 artifacts'[id] = artifacts[id]
    PROVE  CommittedFixed
<1>1. \A id \in ArtIds : SubSeq(batches[id], 1, Len(batches[id])) = batches[id]
  BY SubSeqFull DEF ArtifactInv, ArtTypeOK
<1> QED BY <1>1 DEF CommittedFixed

\* Until it is purged, what an artifact committed stays.
LEMMA CommittedStays ==
    ASSUME ArtifactInv, [ArtNext]_artVars
    PROVE  CommittedFixed
<1>1. CASE UNCHANGED <<artifacts, batches, receipts>>
  BY <1>1, UntouchedFixed
<1>2. ASSUME NEW w \in Writers, NEW o \in ArtOwners, NEW id \in ArtIds,
             NEW r \in WriterRuns, NEW exp \in ItemCounts, Begin(w, o, id, r, exp)
      PROVE  CommittedFixed
  BY <1>2, UntouchedFixed DEF Begin, Touched, ArtifactInv, ArtTypeOK
<1>3. ASSUME NEW w \in Writers, NEW st, NEW cover, Open(writers[w].id),
             Terminal(writers[w].id, st, cover)
      PROVE  CommittedFixed
  BY <1>3, UntouchedFixed DEF Terminal, Touched, Open, ArtifactInv, ArtTypeOK
<1>4. CASE Maintain
  <2> SUFFICES ASSUME NEW id \in ArtIds, artifacts'[id].st # "purged"
               PROVE  /\ SubSeq(batches'[id], 1, Len(batches[id])) = batches[id]
                      /\ \A k \in Keys : receipts[id][k] \in {NoReceipt, receipts'[id][k]}
                      /\ artifacts'[id] = artifacts[id]
    BY DEF CommittedFixed
  <2>1. PICK purged \in PurgeBatches :
          /\ artifacts' = [x \in ArtIds |-> IF x \in purged THEN [NoRecord EXCEPT !.st = "purged"]
                                            ELSE artifacts[x]]
          /\ batches' = [x \in ArtIds |-> IF x \in purged THEN <<>> ELSE batches[x]]
          /\ receipts' = [x \in ArtIds |-> IF x \in purged THEN [k \in Keys |-> NoReceipt]
                                           ELSE receipts[x]]
    BY <1>4 DEF Maintain
  <2>2. artifacts'[id] = artifacts[id] /\ batches'[id] = batches[id]
        /\ receipts'[id] = receipts[id]
    BY <2>1 DEF NoRecord
  <2>3. SubSeq(batches[id], 1, Len(batches[id])) = batches[id]
    BY SubSeqFull DEF ArtifactInv, ArtTypeOK
  <2> QED BY <2>2, <2>3
<1>5. ASSUME NEW w \in Writers, AppendCommit(w), ~UNCHANGED <<artifacts, batches, receipts>>
      PROVE  CommittedFixed
  <2> DEFINE id == writers[w].id
             b == [seq |-> writers[w].cmdSeq, rev |-> artifacts[id].rev + 1,
                   key |-> writers[w].key, content |-> writers[w].content]
  <2>1. /\ ArtTypeOK /\ id \in ArtIds /\ writers[w] \in ArtifactWorker
        /\ writers[w].key \in Keys /\ writers[w].content \in Contents
    BY <1>5 DEF ArtifactInv, ArtTypeOK, WorkerInv, AppendCommit, Knows
  <2>2. FreshKey(id, writers[w].key) /\ Open(id) /\ RequireClaim(w, id) /\ Appended(id, w)
    BY <1>5 DEF AppendCommit
  <2>3. claims[id] \in ArtifactWriteClaim
    BY <2>1, <2>2 DEF RequireClaim, ActiveClaim, ArtTypeOK
  <2>4. StoreAppended(id, w)
    BY <2>1, <2>2, <2>3, AppendedStore
  <2>5. b \in ArtifactBatch
    <3>1. artifacts[id].rev + 1 \in Nat \ {0} /\ writers[w].cmdSeq \in Nat \ {0}
      BY <2>1 DEF ArtifactWorker, ArtTypeOK
    <3> QED BY <2>1, <3>1
  <2>6. batches'[id] = Append(batches[id], b)
    BY <2>4 DEF StoreAppended
  <2> HIDE DEF b
  <2>7. \A i \in ArtIds : SubSeq(batches'[i], 1, Len(batches[i])) = batches[i]
    <3> TAKE i \in ArtIds
    <3>1. batches[i] \in Seq(ArtifactBatch)
      BY <2>1 DEF ArtTypeOK
    <3>2. CASE i = id
      BY <2>5, <2>6, <3>1, <3>2, AppendPrefix
    <3>3. CASE i # id
      BY <2>4, <3>1, <3>3, SubSeqFull DEF StoreAppended
    <3> QED BY <3>2, <3>3
  <2>8. \A i \in ArtIds, k \in Keys : receipts[i][k] \in {NoReceipt, receipts'[i][k]}
    BY <2>2, <2>4 DEF StoreAppended, FreshKey
  <2>9. \A i \in ArtIds : artifacts[i].st \in {"finalized", "aborted"} =>
                             artifacts'[i] = artifacts[i]
    BY <2>2, <2>4 DEF StoreAppended, Open
  <2> QED BY <2>7, <2>8, <2>9 DEF CommittedFixed
<1>6. ASSUME NEW w \in Writers, ArtWriter(w)
      PROVE  CommittedFixed
  <2>1. CASE \/ \E id \in ArtIds, r \in WriterRuns : Authorize(w, id, r)
             \/ Acquire(w) \/ Renew(w) \/ Release(w)
    BY <1>1, <2>1 DEF Authorize, Acquire, Renew, Release, storeVars
  <2>2. CASE \/ \E k \in Keys, b \in Contents, seq \in 1..MaxRevision : AppendReplay(w, k, b, seq)
             \/ AppendCheck(w) \/ AppendCover(w)
    BY <1>1, <2>2 DEF AppendReplay, AppendCheck, AppendCover, storeVars
  <2>3. CASE FinalizeCheck(w) \/ FinalizeCover(w) \/ AbortCheck(w) \/ CrashWriter(w)
    BY <1>1, <2>3 DEF FinalizeCheck, FinalizeCover, AbortCheck, CrashWriter, storeVars
  <2>4. CASE FinalizeCommit(w)
    BY <1>1, <1>3, <2>4 DEF FinalizeCommit, storeVars
  <2>5. CASE AbortCommit(w)
    BY <1>1, <1>3, <2>5 DEF AbortCommit, storeVars
  <2>6. CASE AppendCommit(w)
    BY <1>1, <1>5, <2>6
  <2>7. CASE \E o \in ArtOwners, id \in ArtIds, r \in WriterRuns, exp \in ItemCounts :
                Begin(w, o, id, r, exp)
    BY <1>2, <2>7
  <2> QED BY <1>6, <2>1, <2>2, <2>3, <2>4, <2>5, <2>6, <2>7 DEF ArtWriter
<1>7. CASE ArtTick \/ \E r \in WriterRuns : ReleaseForRun(r) \/ RunGone(r)
  BY <1>1, <1>7 DEF ReleaseForRun, RunGone, ArtTick, storeVars
<1>8. CASE UNCHANGED artVars
  BY <1>1, <1>8 DEF artVars
<1> QED BY <1>4, <1>6, <1>7, <1>8 DEF ArtNext

\* Maintenance never takes a live claim of an available Run or an open
\* artifact, and committed batches, receipts and terminal records stay until
\* the artifact is purged.
THEOREM ArtifactStepsHold == ArtSpec => ArtifactSteps
<1>1. ArtifactInv /\ [ArtNext]_artVars => [SweepSparesLive /\ CommittedFixed]_artVars
  BY LiveSpared, CommittedStays
<1> QED BY <1>1, ArtifactInvariant, PTL DEF ArtSpec, ArtifactSteps
=============================================================================
