--------------------------- MODULE ProcessProofs ---------------------------
(***************************************************************************)
(* Proofs about what runs in the process of a Run's owner: a batch of      *)
(* tool calls (ToolExecutor), the scans of the recovery workers            *)
(* (RecoveryScan) and the plan and outcome of the Run (RunState).  The     *)
(* three share no state.                                                   *)
(***************************************************************************)
EXTENDS ToolExecutor, RecoveryScan, RunState, FiniteSetTheorems, SequenceTheorems, WellFoundedInduction, TLAPS

-----------------------------------------------------------------------------
(* A batch of calls.                                                       *)

\* The calls are numbered.
LEMMA BatchNumbers ==
    ASSUME ExecTypeOK
    PROVE  /\ Count \in Nat /\ nextCall \in Nat /\ nextCall >= 1 /\ nextCall =< Count + 1
           /\ \A i \in Indices : i \in Nat /\ i >= 1 /\ i =< Count
           /\ \A i \in Nat : i >= 1 /\ i =< Count => i \in Indices
BY DEF ExecTypeOK, Count, Indices

\* The fields of a worker.
LEMMA WorkerFields ==
    ASSUME ExecTypeOK, NEW w \in ExecWorkers
    PROVE  /\ at[w].stage \in Busy \cup {"idle", "done"} /\ at[w].call \in 0..Count
           /\ \A s, i : at[w] = [stage |-> s, call |-> i] <=> at[w].stage = s /\ at[w].call = i
           /\ at[w] = [stage |-> at[w].stage, call |-> at[w].call]
<1>1. at[w] \in [stage : Busy \cup {"idle", "done"}, call : 0..Count]
  BY DEF ExecTypeOK
<1>2. PICK r : r = at[w]
  OBVIOUS
<1>3. r \in [stage : Busy \cup {"idle", "done"}, call : 0..Count]
  BY <1>1, <1>2
<1>4. r = [stage |-> r.stage, call |-> r.call] /\ r.stage \in Busy \cup {"idle", "done"} /\ r.call \in 0..Count
  BY <1>3
<1> QED BY <1>2, <1>4

\* A call that ends without success.
LEMMA CallFailsStep ==
    ASSUME BatchInv, NEW w \in ExecWorkers, AtWork(w),
           NEW outcome \in {"rejected", "failed", "canceled", "declined"},
           NEW effect \in {"unknown", "not_started", "committed"}, NEW rest \in BOOLEAN,
           CallFails(w, outcome, effect, rest),
           UNCHANGED <<batch, halted, nextCall, ran, approval>>,
           batchPhase = "serial" => rest \/ outcome = "canceled",
           batchPhase = "serial" /\ effect = "not_started" => ran[at[w].call] # "effected"
    PROVE  BatchInv'
<1> DEFINE i == at[w].call
           serial == batchPhase = "serial"
<1>0. /\ ExecTypeOK /\ PhaseSound /\ WorkerSound(w) /\ EveryCallAnswered /\ AdmittedIsSafe
      /\ EffectTold /\ OperationsSettled /\ \A v \in ExecWorkers : WorkerSound(v)
      /\ \A j \in Indices : CallSound(j)
  BY DEF BatchInv
<1>1. /\ i \in Indices /\ i < nextCall /\ Dispatching /\ w \in Lanes /\ callReceipts[i] = "none"
      /\ completed[i] = 0 /\ operation[i] \in {"none", "open"}
      /\ serial => i = nextCall - 1 /\ w = 1
  BY <1>0, BatchNumbers, WorkerFields DEF WorkerSound, Lanes
<1>2. /\ callReceipts' = [j \in Indices |-> IF j = i THEN outcome
                                           ELSE IF j > i /\ rest /\ serial THEN "aborted" ELSE callReceipts[j]]
      /\ completed' = [j \in Indices |-> IF j = i \/ (j > i /\ rest /\ serial) THEN completed[j] + 1 ELSE completed[j]]
      /\ operation' = [operation EXCEPT ![i] = IF OpenCall(i) THEN outcome ELSE @]
      /\ gate' = FALSE
      /\ at' = [at EXCEPT ![w] = IF serial THEN IdleWorker ELSE [stage |-> "done", call |-> i]]
      /\ batchPhase' = IF serial THEN "over" ELSE batchPhase
      /\ reply' = IF serial THEN [outcome |-> outcome, effect |-> effect] ELSE reply
  BY DEF CallFails, Answered, Told
<1>3. Count' = Count /\ Indices' = Indices /\ \A j : Tool(j)' = Tool(j)
  BY DEF Count, Indices, Tool
<1>4. ASSUME NEW j \in Indices, serial, j > i PROVE callReceipts[j] = "none" /\ completed[j] = 0
  <2>1. j >= nextCall /\ Dispatching
    BY <1>0, <1>1, <1>4, BatchNumbers
  <2> QED BY <1>0, <2>1 DEF CallSound
<1>5. ExecTypeOK'
  <2>1. callReceipts' \in [Indices -> Codes] /\ completed' \in [Indices -> 0..1]
    BY <1>0, <1>1, <1>2, <1>4 DEF ExecTypeOK, Codes
  <2>2. operation' \in [Indices -> {"none", "open", "succeeded", "released"} \cup Codes]
    BY <1>0, <1>2 DEF ExecTypeOK, Codes
  <2>3. at' \in [ExecWorkers -> [stage : Busy \cup {"idle", "done"}, call : 0..Count]]
    BY <1>0, <1>1, <1>2, BatchNumbers DEF ExecTypeOK, IdleWorker
  <2>4. reply' \in [outcome : Codes, effect : {"unknown", "not_started", "committed"}]
    BY <1>0, <1>2 DEF ExecTypeOK, Codes
  <2> QED BY <1>0, <1>2, <1>3, <2>1, <2>2, <2>3, <2>4 DEF ExecTypeOK
<1>6. \A v \in ExecWorkers : /\ v # w => at'[v] = at[v]
                             /\ at'[w].stage \in {"idle", "done"} /\ ~AtWork(w)'
  BY <1>0, <1>2 DEF ExecTypeOK, AtWork, Busy, IdleWorker
<1>7. PhaseSound'
  BY <1>0, <1>1, <1>2, <1>3, <1>6 DEF PhaseSound, Dispatching
<1>8. ASSUME NEW v \in ExecWorkers PROVE WorkerSound(v)'
  <2> SUFFICES ASSUME AtWork(v)' PROVE WorkerSound(v)'
    BY DEF WorkerSound
  <2>1. v # w /\ at'[v] = at[v] /\ AtWork(v) /\ WorkerSound(v) /\ at[v].call # i /\ at[v].call \in Indices
    BY <1>0, <1>1, <1>6, BatchNumbers, WorkerFields DEF AtWork, WorkerSound
  <2>2. ~serial /\ batchPhase' = batchPhase
    BY <1>1, <1>2, <2>1 DEF WorkerSound, Lanes
  <2>3. /\ callReceipts'[at[v].call] = callReceipts[at[v].call]
        /\ completed'[at[v].call] = completed[at[v].call] /\ operation'[at[v].call] = operation[at[v].call]
    BY <1>0, <1>2, <2>1, <2>2 DEF ExecTypeOK
  <2> QED BY <1>0, <1>3, <1>6, <2>1, <2>2, <2>3 DEF WorkerSound, AtWork, Dispatching, Lanes
<1>9. /\ callReceipts'[i] = outcome /\ completed'[i] = 1
      /\ operation'[i] \in {"none", "rejected", "failed", "canceled", "declined"}
  BY <1>0, <1>1, <1>2 DEF ExecTypeOK, OpenCall
<1>10. ASSUME NEW j \in Indices, j # i
       PROVE  /\ operation'[j] = operation[j]
              /\ ~serial \/ ~(j > i) \/ ~rest => callReceipts'[j] = callReceipts[j] /\ completed'[j] = completed[j]
              /\ serial /\ j > i /\ rest => callReceipts'[j] = "aborted" /\ completed'[j] = 1
              /\ serial /\ j > i => operation[j] = "none" /\ callReceipts[j] = "none" /\ ran[j] = "none"
              /\ serial /\ j < i => callReceipts[j] \in Ended
              /\ serial => ~OpenCall(j)
  <2>1. /\ operation'[j] = operation[j]
        /\ ~serial \/ ~(j > i) \/ ~rest => callReceipts'[j] = callReceipts[j] /\ completed'[j] = completed[j]
    BY <1>0, <1>2, <1>10 DEF ExecTypeOK
  <2>2. serial /\ j > i /\ rest => callReceipts'[j] = "aborted" /\ completed'[j] = 1
    BY <1>2, <1>4, <1>10
  <2>3. ASSUME serial, j > i PROVE operation[j] = "none" /\ callReceipts[j] = "none" /\ ran[j] = "none"
    <3>1. j >= nextCall /\ Dispatching
      BY <1>0, <1>1, <2>3, BatchNumbers
    <3> QED BY <1>0, <3>1 DEF CallSound
  <2>4. ASSUME serial, j < i PROVE callReceipts[j] \in Ended
    <3>1. j < nextCall /\ at[1].call # j
      BY <1>0, <1>1, <1>10, <2>4, BatchNumbers
    <3> QED BY <1>0, <2>4, <3>1 DEF CallSound
  <2>5. ASSUME serial, OpenCall(j) PROVE FALSE
    <3>1. PICK v \in ExecWorkers : AtWork(v) /\ at[v].call = j
      BY <1>0, <2>5 DEF CallSound
    <3>2. v = w
      BY <1>0, <1>1, <2>5, <3>1 DEF WorkerSound, Lanes
    <3> QED BY <1>10, <3>1, <3>2
  <2> QED BY <2>1, <2>2, <2>3, <2>4, <2>5
<1>11. ASSUME NEW j \in Indices PROVE CallSound(j)'
  <2>1. CASE j = i
    <3>1. ran[j] = "effected" => Tool(j) \notin Reads
      BY <1>0 DEF CallSound
    <3>2. ~OpenCall(j)'
      BY <1>9, <2>1 DEF OpenCall
    <3>3. ~serial => ran[j] # "effected"
      BY <1>0, <1>1, <3>1 DEF PhaseSound, Dispatching, Reads
    <3> QED BY <1>0, <1>1, <1>2, <1>3, <1>9, <2>1, <3>1, <3>2, <3>3, BatchNumbers DEF CallSound, Dispatching
  <2>2. CASE j # i /\ serial
    <3>1. ~OpenCall(j)' /\ batchPhase' = "over" /\ ~Dispatching'
      BY <1>2, <1>10, <2>2 DEF OpenCall, Dispatching
    <3> QED BY <1>0, <1>3, <3>1 DEF CallSound
  <2>3. CASE j # i /\ ~serial
    <3>1. /\ operation'[j] = operation[j] /\ callReceipts'[j] = callReceipts[j] /\ completed'[j] = completed[j]
          /\ batchPhase' = batchPhase /\ gate' = FALSE /\ CallSound(j)
      BY <1>0, <1>2, <1>10, <2>3
    <3>2. \A v \in ExecWorkers : at[v].call = j => at'[v] = at[v]
      BY <1>6, <2>3
    <3>3. \A v \in ExecWorkers : at[v] = [stage |-> "run", call |-> j] => at'[v] = [stage |-> "run", call |-> j]
      BY <3>2
    <3>4. OpenCall(j)' => batchPhase' = "raised" \/ \E v \in ExecWorkers : (AtWork(v) /\ at[v].call = j)'
      BY <3>1, <3>2 DEF CallSound, OpenCall, AtWork
    <3> QED BY <1>3, <2>3, <3>1, <3>3, <3>4 DEF CallSound, Dispatching
  <2> QED BY <2>1, <2>2, <2>3
<1>12. EveryCallAnswered'
  <2>1. ASSUME NEW j \in Indices, batchPhase' = "over", reply'.outcome # "canceled" PROVE callReceipts'[j] # "none"
    <3>1. serial /\ rest
      BY <1>1, <1>2, <2>1 DEF Dispatching
    <3> QED BY <1>1, <1>9, <1>10, <3>1, BatchNumbers, <1>0 DEF Ended
  <2>2. ASSUME NEW j \in Indices, callReceipts'[j] \notin {"none", "refused"} PROVE completed'[j] = 1
    BY <1>0, <1>9, <1>10, <2>2 DEF EveryCallAnswered
  <2> QED BY <1>3, <2>1, <2>2 DEF EveryCallAnswered
<1>13. AdmittedIsSafe'
  BY <1>0, <1>2, <1>3 DEF AdmittedIsSafe
<1>14. EffectTold'
  <2> SUFFICES ASSUME NEW j \in Indices, batchPhase' = "over", reply'.effect = "not_started", ran[j] = "effected"
               PROVE  callReceipts'[j] \in Ended
    BY <1>3 DEF EffectTold
  <2>1. serial /\ effect = "not_started"
    BY <1>1, <1>2 DEF Dispatching
  <2>2. j # i
    BY <2>1
  <2> QED BY <1>0, <1>1, <1>10, <2>1, <2>2, BatchNumbers
<1>15. OperationsSettled'
  <2>1. ASSUME NEW j \in Indices, batchPhase' = "over" PROVE ~OpenCall(j)'
    BY <1>1, <1>2, <1>9, <1>10, <2>1 DEF OpenCall, Dispatching
  <2>2. ASSUME NEW j \in Indices PROVE operation'[j] = "succeeded" <=> callReceipts'[j] \in Ended
    BY <1>0, <1>9, <1>10 DEF OperationsSettled, Ended
  <2> QED BY <1>3, <2>1, <2>2 DEF OperationsSettled
<1> QED BY <1>3, <1>5, <1>7, <1>8, <1>11, <1>12, <1>13, <1>14, <1>15 DEF BatchInv

\* An exception leaves the executor.
LEMMA RaisesStep ==
    ASSUME BatchInv, Dispatching, NEW i, Raises(i),
           UNCHANGED <<batch, halted, nextCall, ran, callReceipts, completed, reply>>,
           approval' \in ApprovalDecisions \cup {"none", "pending"}, approval' = "none" <=> approval = "none"
    PROVE  BatchInv'
<1>0. /\ ExecTypeOK /\ PhaseSound /\ EveryCallAnswered /\ AdmittedIsSafe /\ EffectTold
      /\ OperationsSettled /\ \A j \in Indices : CallSound(j)
  BY DEF BatchInv
<1>1. /\ batchPhase' = "raised" /\ gate' = FALSE /\ at' = [w \in ExecWorkers |-> IdleWorker]
      /\ operation' = [j \in Indices |->
            IF OpenCall(j) /\ j # i /\ \E w \in ExecWorkers : at[w] = [stage |-> "run", call |-> j]
            THEN "canceled" ELSE operation[j]]
  BY DEF Raises
<1>2. Count' = Count /\ Indices' = Indices /\ \A j : Tool(j)' = Tool(j)
  BY DEF Count, Indices, Tool
<1>3. \A w \in ExecWorkers : at'[w].stage = "idle" /\ ~AtWork(w)'
  BY <1>1 DEF IdleWorker, AtWork, Busy
<1>4. ExecTypeOK'
  <2>1. operation' \in [Indices -> {"none", "open", "succeeded", "released"} \cup Codes]
    BY <1>0, <1>1 DEF ExecTypeOK, Codes
  <2>2. at' \in [ExecWorkers -> [stage : Busy \cup {"idle", "done"}, call : 0..Count]]
    BY <1>0, <1>1, BatchNumbers DEF IdleWorker
  <2> QED BY <1>0, <1>1, <1>2, <2>1, <2>2 DEF ExecTypeOK
<1>5. PhaseSound'
  BY <1>0, <1>1, <1>2, <1>3 DEF PhaseSound, Dispatching
<1>6. \A w \in ExecWorkers : WorkerSound(w)'
  BY <1>3 DEF WorkerSound
<1>7. \A j \in Indices : CallSound(j)'
  BY <1>0, <1>1, <1>2 DEF CallSound, Dispatching
<1>8. EveryCallAnswered' /\ EffectTold' /\ AdmittedIsSafe'
  BY <1>0, <1>1, <1>2 DEF EveryCallAnswered, EffectTold, AdmittedIsSafe
<1>9. OperationsSettled'
  <2>1. ASSUME NEW j \in Indices PROVE operation'[j] = "succeeded" <=> callReceipts'[j] \in Ended
    <3>1. operation'[j] = operation[j] \/ (operation[j] = "open" /\ operation'[j] = "canceled")
      BY <1>1 DEF OpenCall
    <3> QED BY <1>0, <3>1 DEF OperationsSettled
  <2> QED BY <1>1, <1>2, <2>1 DEF OperationsSettled
<1> QED BY <1>2, <1>4, <1>5, <1>6, <1>7, <1>8, <1>9 DEF BatchInv

\* A step of one worker that answers no call.
LEMMA StageStep ==
    ASSUME BatchInv, NEW w \in ExecWorkers, AtWork(w), NEW s \in Busy,
           at' = [at EXCEPT ![w].stage = s],
           UNCHANGED <<batch, batchPhase, halted, gate, nextCall, callReceipts, completed, reply>>,
           s # "gate", approval # "none" => s # "scope",
           operation' = [operation EXCEPT ![at[w].call] = "open"],
           IF s = "run" THEN ran' = [ran EXCEPT ![at[w].call] = "running"] ELSE ran' = ran,
           at[w].stage # "run",
           s \in {"approve", "rescope"} => Tool(at[w].call) = "confirm",
           s = "rescope" => approval = "approved", s = "approve" => approval' = "pending",
           approval' = approval \/ (s = "approve" /\ approval = "none")
    PROVE  BatchInv'
<1> DEFINE i == at[w].call
<1>0. /\ ExecTypeOK /\ PhaseSound /\ EveryCallAnswered /\ AdmittedIsSafe /\ EffectTold
      /\ OperationsSettled /\ \A j \in Indices : CallSound(j)
      /\ \A v \in ExecWorkers : WorkerSound(v)
  BY DEF BatchInv
<1>1. /\ i \in Indices /\ i < nextCall /\ Dispatching /\ w \in Lanes /\ callReceipts[i] = "none"
      /\ completed[i] = 0 /\ operation[i] \in {"none", "open"} /\ ran[i] = "none"
      /\ batchPhase = "serial" => i = nextCall - 1 /\ w = 1
  BY <1>0, BatchNumbers, WorkerFields DEF WorkerSound, Lanes
<1>2. Count' = Count /\ Indices' = Indices /\ \A j : Tool(j)' = Tool(j)
  BY DEF Count, Indices, Tool
<1>3. /\ at'[w].stage = s /\ at'[w].call = i
      /\ \A v \in ExecWorkers \ {w} : at'[v] = at[v]
      /\ \A v \in ExecWorkers : at'[v].call = at[v].call /\ (AtWork(v)' <=> AtWork(v))
  BY <1>0 DEF ExecTypeOK, AtWork
<1>4. /\ operation'[i] = "open" /\ \A j \in Indices \ {i} : operation'[j] = operation[j] /\ ran'[j] = ran[j]
      /\ IF s = "run" THEN ran'[i] = "running" ELSE ran'[i] = "none"
  BY <1>0, <1>1 DEF ExecTypeOK
<1>5. ExecTypeOK'
  <2>1. operation' \in [Indices -> {"none", "open", "succeeded", "released"} \cup Codes]
    BY <1>0 DEF ExecTypeOK
  <2>2. ran' \in [Indices -> {"none", "running", "effected", "returned"}]
    BY <1>0 DEF ExecTypeOK
  <2>3. at' \in [ExecWorkers -> [stage : Busy \cup {"idle", "done"}, call : 0..Count]]
    BY <1>0 DEF ExecTypeOK
  <2>4. approval' \in ApprovalDecisions \cup {"none", "pending"}
    BY <1>0 DEF ExecTypeOK
  <2> QED BY <1>0, <1>2, <2>1, <2>2, <2>3, <2>4 DEF ExecTypeOK
<1>6. PhaseSound'
  <2>1. ASSUME approval' # "none"
        PROVE  nextCall' > Count' /\ \A v \in ExecWorkers : at'[v].stage \notin {"gate", "scope"}
    <3>1. CASE approval # "none"
      BY <1>0, <1>2, <1>3, <3>1 DEF PhaseSound
    <3>2. CASE approval = "none"
      <4>1. Tool(i) = "confirm" /\ s = "approve"
        BY <2>1, <3>2
      <4>2. batchPhase = "serial" /\ Count = 1
        <5>1. Tool(i) \notin Reads /\ Tool(i) # "append" /\ Tool(i) # "read"
          BY <4>1 DEF Reads
        <5>2. batchPhase = "serial"
          BY <1>0, <1>1, <5>1 DEF PhaseSound, Dispatching
        <5>3. \A j \in Indices : j = i
          BY <1>0, <1>1, <5>1 DEF PhaseSound
        <5> QED BY <1>0, <1>1, <5>2, <5>3, BatchNumbers
      <4>3. nextCall > Count
        BY <1>0, <1>1, <4>2, BatchNumbers
      <4>4. \A v \in ExecWorkers : at'[v].stage \notin {"gate", "scope"}
        BY <1>0, <1>1, <1>3, <4>1, <4>2 DEF WorkerSound, Lanes, AtWork, Busy
      <4> QED BY <1>2, <4>3, <4>4
    <3> QED BY <3>1, <3>2
  <2> QED BY <1>0, <1>1, <1>2, <2>1 DEF PhaseSound, Dispatching
<1>7. ASSUME NEW v \in ExecWorkers PROVE WorkerSound(v)'
  <2>1. CASE v = w
    BY <1>0, <1>1, <1>2, <1>3, <1>4, <2>1 DEF WorkerSound, Dispatching, Lanes
  <2>2. CASE v # w
    <3> SUFFICES ASSUME AtWork(v)' PROVE WorkerSound(v)'
      BY DEF WorkerSound
    <3>1. AtWork(v) /\ WorkerSound(v) /\ at'[v] = at[v] /\ at[v].call # i /\ at[v].call \in Indices
      BY <1>0, <1>1, <1>3, <2>2, BatchNumbers, WorkerFields DEF WorkerSound
    <3>2. operation'[at[v].call] = operation[at[v].call] /\ ran'[at[v].call] = ran[at[v].call]
      BY <1>4, <3>1
    <3>3. at[v].stage = "approve" => approval' # "none"
      BY <3>1 DEF WorkerSound
    <3>4. at[v].stage = "rescope" => approval' = "approved"
      BY <3>1 DEF WorkerSound
    <3> QED BY <1>2, <1>3, <3>1, <3>2, <3>3, <3>4 DEF WorkerSound, Dispatching, Lanes
  <2> QED BY <2>1, <2>2
<1>8. ASSUME NEW j \in Indices PROVE CallSound(j)'
  <2>1. CASE j = i
    <3>1. ran'[j] # "effected" /\ AtWork(w)' /\ at'[w].call = j /\ CallSound(j)
      BY <1>0, <1>3, <1>4, <2>1
    <3>2. batchPhase = "serial" => w = 1
      BY <1>1
    <3> QED BY <1>0, <1>1, <1>2, <2>1, <3>1, <3>2, BatchNumbers DEF CallSound, Dispatching
  <2>2. CASE j # i
    <3>1. operation'[j] = operation[j] /\ ran'[j] = ran[j] /\ CallSound(j)
      BY <1>0, <1>4, <2>2
    <3>2. \A v \in ExecWorkers : at[v] = [stage |-> "run", call |-> j] => at'[v] = [stage |-> "run", call |-> j]
      BY <1>3, <2>2
    <3>3. batchPhase = "serial" => 1 \in ExecWorkers
      BY <1>1
    <3> QED BY <1>2, <1>3, <3>1, <3>2, <3>3 DEF CallSound, Dispatching, OpenCall
  <2> QED BY <2>1, <2>2
<1>9. EveryCallAnswered' /\ EffectTold'
  BY <1>0, <1>1, <1>2 DEF EveryCallAnswered, EffectTold, Dispatching
<1>10. AdmittedIsSafe'
  BY <1>0, <1>1, <1>2 DEF AdmittedIsSafe, PhaseSound
<1>11. OperationsSettled'
  <2>1. ASSUME NEW j \in Indices PROVE operation'[j] = "succeeded" <=> callReceipts'[j] \in Ended
    BY <1>0, <1>1, <1>4 DEF OperationsSettled, Ended
  <2> QED BY <1>1, <1>2, <2>1 DEF OperationsSettled, Dispatching
<1> QED BY <1>2, <1>5, <1>6, <1>7, <1>8, <1>9, <1>10, <1>11 DEF BatchInv

\* What is known of a worker that is at a call.
LEMMA WorkerFacts ==
    ASSUME BatchInv, NEW w \in ExecWorkers, AtWork(w)
    PROVE  /\ at[w].call \in Indices /\ Dispatching /\ WorkerSound(w) /\ CallSound(at[w].call)
           /\ batchPhase = "serial" => gate
           /\ at[w].stage = "gate" => operation[at[w].call] = "none"
           /\ at[w].stage # "gate" => operation[at[w].call] = "open"
           /\ at[w].stage # "gate" => operation = [operation EXCEPT ![at[w].call] = "open"]
           /\ at[w].stage # "run" => ran[at[w].call] = "none"
           /\ at[w].stage \in {"gate", "scope"} => approval = "none"
           /\ approval \in ApprovalDecisions \cup {"none", "pending"} /\ gate \in BOOLEAN
<1>0. ExecTypeOK /\ PhaseSound /\ WorkerSound(w) /\ \A j \in Indices : CallSound(j)
  BY DEF BatchInv
<1>1. at[w].call \in Indices
  BY <1>0, BatchNumbers, WorkerFields DEF WorkerSound
<1>2. /\ at[w].stage = "gate" => operation[at[w].call] = "none"
      /\ at[w].stage # "gate" => operation[at[w].call] = "open"
      /\ at[w].stage # "run" => ran[at[w].call] = "none"
  BY <1>0 DEF WorkerSound
<1>3. at[w].stage # "gate" => operation = [operation EXCEPT ![at[w].call] = "open"]
  BY <1>0, <1>1, <1>2 DEF ExecTypeOK
<1> QED BY <1>0, <1>1, <1>2, <1>3 DEF WorkerSound, PhaseSound, ExecTypeOK

\* The first gate.
LEMMA StartCallStep ==
    ASSUME BatchInv, NEW w \in ExecWorkers, StartCall(w)
    PROVE  BatchInv'
<1>1. AtWork(w) /\ at[w].stage = "gate"
  BY DEF StartCall, AtWork, Busy
<1>2. UNCHANGED <<batch, halted, nextCall, ran, approval>>
  BY DEF StartCall
<1>3. CASE CallFails(w, "canceled", "unknown", FALSE)
  BY <1>1, <1>2, <1>3, CallFailsStep
<1>4. CASE ~gate /\ CallFails(w, "failed", "not_started", FALSE)
  <2>1. batchPhase # "serial"
    BY <1>1, <1>4, WorkerFacts
  <2> QED BY <1>1, <1>2, <1>4, <2>1, CallFailsStep
<1>5. CASE /\ operation' = [operation EXCEPT ![at[w].call] = "open"]
           /\ at' = [at EXCEPT ![w].stage = "scope"]
           /\ UNCHANGED <<batchPhase, gate, callReceipts, completed, reply>>
  <2>1. approval = "none"
    BY <1>1, WorkerFacts
  <2>2. "scope" \in Busy
    BY DEF Busy
  <2> QED BY <1>1, <1>2, <1>5, <2>1, <2>2, StageStep
<1> QED BY <1>3, <1>4, <1>5 DEF StartCall

\* The scope validator's answer.
LEMMA ScopeStep ==
    ASSUME BatchInv, NEW w \in ExecWorkers, Scope(w)
    PROVE  BatchInv'
<1> DEFINE i == at[w].call
<1>1. AtWork(w) /\ at[w].stage = "scope"
  BY DEF Scope, AtWork, Busy
<1>2. UNCHANGED <<batch, halted, nextCall>>
  BY DEF Scope
<1>3. /\ ran[i] = "none" /\ Dispatching /\ (batchPhase = "serial" => gate) /\ approval = "none"
      /\ operation = [operation EXCEPT ![i] = "open"] /\ gate \in BOOLEAN
  BY <1>1, WorkerFacts
<1>4. ASSUME NEW a \in {"rejected", "failed", "canceled"}, CallFails(w, a, "not_started", TRUE),
             UNCHANGED <<ran, approval>>
      PROVE  BatchInv'
  BY <1>1, <1>2, <1>3, <1>4, CallFailsStep
<1>5. CASE Raises(i) /\ UNCHANGED <<ran, approval, callReceipts, completed, reply>>
  <2>1. approval' \in ApprovalDecisions \cup {"none", "pending"}
    BY <1>3, <1>5
  <2> QED BY <1>2, <1>3, <1>5, <2>1, RaisesStep
<1>6. CASE /\ Halted \/ ~gate
           /\ CallFails(w, IF Halted THEN "canceled" ELSE "failed", "not_started", FALSE)
           /\ UNCHANGED <<ran, approval>>
  <2>1. PICK o \in {"canceled", "failed"} : o = IF Halted THEN "canceled" ELSE "failed"
    OBVIOUS
  <2>2. CallFails(w, o, "not_started", FALSE)
    BY <1>6, <2>1
  <2>3. batchPhase = "serial" => o = "canceled"
    BY <1>3, <1>6, <2>1
  <2> QED BY <1>1, <1>2, <1>3, <1>6, <2>2, <2>3, CallFailsStep
<1>7. CASE /\ IF Tool(i) = "confirm"
              THEN at' = [at EXCEPT ![w].stage = "approve"] /\ approval' = "pending" /\ ran' = ran
              ELSE at' = [at EXCEPT ![w].stage = "run"] /\ approval' = approval
                   /\ ran' = [ran EXCEPT ![i] = "running"]
           /\ UNCHANGED <<batchPhase, gate, operation, callReceipts, completed, reply>>
  <2>1. "approve" \in Busy /\ "run" \in Busy
    BY DEF Busy
  <2>2. CASE Tool(i) = "confirm"
    BY <1>1, <1>2, <1>3, <1>7, <2>1, <2>2, StageStep
  <2>3. CASE Tool(i) # "confirm"
    BY <1>1, <1>2, <1>3, <1>7, <2>1, <2>3, StageStep
  <2> QED BY <2>2, <2>3
<1>8. ASSUME NEW a \in ScopeAnswers,
         \/ /\ a \in {"rejected", "failed", "canceled"}
            /\ CallFails(w, a, "not_started", TRUE) /\ UNCHANGED <<ran, approval>>
         \/ /\ a = "control" /\ Raises(i)
            /\ UNCHANGED <<ran, approval, callReceipts, completed, reply>>
         \/ /\ a = "allowed" /\ (Halted \/ ~gate)
            /\ CallFails(w, IF Halted THEN "canceled" ELSE "failed", "not_started", FALSE)
            /\ UNCHANGED <<ran, approval>>
         \/ /\ a = "allowed" /\ ~Halted /\ gate
            /\ IF Tool(i) = "confirm"
               THEN at' = [at EXCEPT ![w].stage = "approve"] /\ approval' = "pending" /\ ran' = ran
               ELSE at' = [at EXCEPT ![w].stage = "run"] /\ approval' = approval
                    /\ ran' = [ran EXCEPT ![i] = "running"]
            /\ UNCHANGED <<batchPhase, gate, operation, callReceipts, completed, reply>>
      PROVE BatchInv'
  BY ONLY <1>8, <1>4, <1>5, <1>6, <1>7
<1> QED BY <1>8 DEF Scope

\* The answer of the approval gateway.
LEMMA ApprovedStep ==
    ASSUME BatchInv, NEW w \in ExecWorkers, Approved(w)
    PROVE  BatchInv'
<1>1. AtWork(w) /\ at[w].stage = "approve" /\ approval \notin {"none", "pending"}
  BY DEF Approved, AtWork, Busy
<1>2. UNCHANGED <<batch, halted, nextCall, ran, approval>>
  BY DEF Approved
<1>3. /\ ran[at[w].call] = "none" /\ approval \in ApprovalDecisions /\ Tool(at[w].call) = "confirm"
      /\ operation = [operation EXCEPT ![at[w].call] = "open"]
  BY <1>1, WorkerFacts DEF WorkerSound
<1>4. CASE /\ approval = "approved"
           /\ at' = [at EXCEPT ![w].stage = "rescope"]
           /\ UNCHANGED <<batchPhase, gate, operation, callReceipts, completed, reply>>
  <2>1. "rescope" \in Busy
    BY DEF Busy
  <2> QED BY <1>1, <1>2, <1>3, <1>4, <2>1, StageStep
<1>5. CASE /\ approval # "approved"
           /\ CallFails(w, IF approval \in {"timed_out", "unavailable"} THEN "failed" ELSE approval,
                        IF approval = "declined" THEN "unknown" ELSE "not_started", TRUE)
  <2>1. PICK o \in {"rejected", "failed", "canceled", "declined"} :
            o = IF approval \in {"timed_out", "unavailable"} THEN "failed" ELSE approval
    BY <1>3, <1>5 DEF ApprovalDecisions
  <2>2. PICK e \in {"unknown", "not_started"} : e = IF approval = "declined" THEN "unknown" ELSE "not_started"
    OBVIOUS
  <2>3. CallFails(w, o, e, TRUE)
    BY <1>5, <2>1, <2>2
  <2> QED BY <1>1, <1>2, <1>3, <2>3, CallFailsStep
<1> QED BY <1>4, <1>5 DEF Approved

\* The scope is validated again after the approval.
LEMMA RescopeStep ==
    ASSUME BatchInv, NEW w \in ExecWorkers, Rescope(w)
    PROVE  BatchInv'
<1> DEFINE i == at[w].call
<1>1. AtWork(w) /\ at[w].stage = "rescope"
  BY DEF Rescope, AtWork, Busy
<1>2. UNCHANGED <<batch, halted, nextCall, approval>>
  BY DEF Rescope
<1>3. /\ ran[i] = "none" /\ Dispatching /\ approval \in ApprovalDecisions \cup {"none", "pending"}
      /\ operation = [operation EXCEPT ![i] = "open"]
  BY <1>1, WorkerFacts
<1>4. ASSUME NEW a \in {"rejected", "failed", "canceled"}, CallFails(w, a, "not_started", TRUE), ran' = ran
      PROVE  BatchInv'
  BY <1>1, <1>2, <1>3, <1>4, CallFailsStep
<1>5. CASE Raises(i) /\ UNCHANGED <<ran, callReceipts, completed, reply>>
  BY <1>2, <1>3, <1>5, RaisesStep
<1>6. CASE CallFails(w, "canceled", "unknown", FALSE) /\ ran' = ran
  BY <1>1, <1>2, <1>6, CallFailsStep
<1>7. CASE /\ at' = [at EXCEPT ![w].stage = "run"]
           /\ ran' = [ran EXCEPT ![i] = "running"]
           /\ UNCHANGED <<batchPhase, gate, operation, callReceipts, completed, reply>>
  <2>1. "run" \in Busy
    BY DEF Busy
  <2> QED BY <1>1, <1>2, <1>3, <1>7, <2>1, StageStep
<1>8. PICK a \in ScopeAnswers \cup {"control"} :
         \/ /\ a \in {"rejected", "failed", "canceled"}
            /\ CallFails(w, a, "not_started", TRUE) /\ ran' = ran
         \/ /\ a = "control" /\ Raises(i) /\ UNCHANGED <<ran, callReceipts, completed, reply>>
         \/ /\ a = "allowed" /\ Halted /\ CallFails(w, "canceled", "unknown", FALSE) /\ ran' = ran
         \/ /\ a = "allowed" /\ ~Halted
            /\ at' = [at EXCEPT ![w].stage = "run"]
            /\ ran' = [ran EXCEPT ![i] = "running"]
            /\ UNCHANGED <<batchPhase, gate, operation, callReceipts, completed, reply>>
  BY DEF Rescope
<1> QED BY ONLY <1>8, <1>4, <1>5, <1>6, <1>7

\* A handler that does not succeed, or a control failure.
LEMMA HandlerEnds ==
    ASSUME BatchInv, NEW w \in ExecWorkers,
           HandlerFails(w) \/ HandlerStopped(w) \/ HandlerControl(w) \/ SinkFails(w)
    PROVE  BatchInv'
<1> DEFINE i == at[w].call
<1>1. AtWork(w) /\ at[w].stage = "run"
  BY DEF HandlerFails, HandlerStopped, HandlerControl, SinkFails, AtWork, Busy
<1>2. UNCHANGED <<batch, halted, nextCall, ran, approval>>
  BY DEF HandlerFails, HandlerStopped, HandlerControl, SinkFails
<1>3. /\ Dispatching /\ approval \in ApprovalDecisions \cup {"none", "pending"}
      /\ Tool(i) \in Reads => ran[i] # "effected"
  BY <1>1, WorkerFacts DEF CallSound
<1>4. ASSUME NEW e \in {"unknown", "not_started", "committed"}, CallFails(w, "failed", e, TRUE),
             e = "not_started" => ran[i] # "effected"
      PROVE  BatchInv'
  BY <1>1, <1>2, <1>4, CallFailsStep
<1>5. CASE HandlerFails(w)
  <2>1. CASE CallFails(w, "failed", EffectAfterRaise(i), TRUE)
    <3>1. PICK e \in {"unknown", "not_started"} : e = EffectAfterRaise(i)
      BY DEF EffectAfterRaise
    <3>2. e = "not_started" => ran[i] # "effected"
      BY <1>3, <3>1 DEF EffectAfterRaise
    <3> QED BY <1>4, <2>1, <3>1, <3>2
  <2>2. ASSUME NEW said \in Says(i), CallFails(w, "failed", EffectAfterError(i, said), TRUE)
        PROVE  BatchInv'
    <3>1. said \in {"unknown", "not_started", "committed"} /\ (said = "not_started" => ran[i] # "effected")
      BY DEF Says
    <3>2. PICK e : e = EffectAfterError(i, said)
      OBVIOUS
    <3>3. e \in {"unknown", "not_started", "committed"} /\ (e = "not_started" => ran[i] # "effected")
      BY <1>3, <3>1, <3>2 DEF EffectAfterError
    <3> QED BY <1>4, <2>2, <3>2, <3>3
  <2> QED BY <1>5, <2>1, <2>2 DEF HandlerFails
<1>6. CASE HandlerStopped(w)
  <2>1. CASE CallFails(w, "failed", EffectAfterRaise(i), TRUE)
    <3>1. PICK e \in {"unknown", "not_started"} : e = EffectAfterRaise(i)
      BY DEF EffectAfterRaise
    <3>2. e = "not_started" => ran[i] # "effected"
      BY <1>3, <3>1 DEF EffectAfterRaise
    <3> QED BY <1>4, <2>1, <3>1, <3>2
  <2>2. CASE CallFails(w, "canceled", "unknown", FALSE)
    BY <1>1, <1>2, <2>2, CallFailsStep
  <2> QED BY <1>6, <2>1, <2>2 DEF HandlerStopped
<1>7. CASE HandlerControl(w) \/ SinkFails(w)
  <2>1. Raises(i) /\ UNCHANGED <<callReceipts, completed, reply>>
    BY <1>7 DEF HandlerControl, SinkFails
  <2>2. approval' \in ApprovalDecisions \cup {"none", "pending"}
    BY <1>2, <1>3
  <2> QED BY <1>2, <1>3, <2>1, <2>2, RaisesStep
<1> QED BY <1>5, <1>6, <1>7

\* The task around the batch is cancelled.
LEMMA AbandonStep ==
    ASSUME BatchInv, Abandon
    PROVE  BatchInv'
<1>1. approval \in ApprovalDecisions \cup {"none", "pending"}
  BY DEF BatchInv, ExecTypeOK
<1>2. Dispatching /\ Raises(0) /\ UNCHANGED <<batch, halted, nextCall, ran, callReceipts, completed, reply>>
  BY DEF Abandon, Dispatching
<1>3. approval' \in ApprovalDecisions \cup {"none", "pending"} /\ (approval' = "none" <=> approval = "none")
  BY <1>1 DEF Abandon, ApprovalDecisions
<1> QED BY <1>2, <1>3, RaisesStep

\* A non-empty set of numbers up to a bound has a last one.
LEMMA LastExists ==
    ASSUME NEW n \in Nat, NEW S, S \subseteq 1..n, S # {}
    PROVE  \E i \in S : \A j \in S : j =< i
<1> DEFINE T == {n - i : i \in S}
           R == {p \in Nat \X Nat : p[1] < p[2]}
<1>1. IsWellFoundedOn(R, Nat)
  BY NatLessThanWellFounded DEF OpToRel
<1>2. T \subseteq Nat /\ T # {}
  <2>1. \A i \in S : n - i \in Nat
    OBVIOUS
  <2>2. PICK k : k \in S
    OBVIOUS
  <2>3. n - k \in T
    BY <2>2
  <2> QED BY <2>1, <2>3
<1>3. PICK x \in T : \A y \in T : ~(<<y, x>> \in R)
  <2> HIDE DEF T, R
  <2> QED BY <1>1, <1>2, WFMin
<1>4. PICK i \in S : x = n - i
  OBVIOUS
<1>5. ASSUME NEW j \in S PROVE j =< i
  <2>1. n - j \in T /\ n - j \in Nat /\ x \in Nat
    BY <1>2
  <2>2. ~(n - j < x)
    <3>1. <<n - j, x>> \notin R
      BY <1>3, <2>1
    <3> QED BY <2>1, <3>1
  <2>3. i \in Nat /\ j \in Nat
    OBVIOUS
  <2> QED BY <1>4, <2>2, <2>3
<1> QED BY <1>5

\* The aggregate of the calls that ended is an outcome.
LEMMA AggregateIsCode ==
    ASSUME ExecTypeOK, NEW done, done \subseteq Indices, \A i \in done : callReceipts[i] \notin {"none", "refused", "aborted"}
    PROVE  Aggregate(done) \in Codes
<1> DEFINE codes == {callReceipts[i] : i \in done} \cup (IF Halted THEN {"canceled"} ELSE {})
           bad == {o \in codes : EndsBatch(o)}
           last == CHOOSE i \in done : \A j \in done : j =< i
<1>0. Count \in Nat /\ Indices = 1..Count
  BY BatchNumbers DEF Indices
<1>1. \A i \in done : callReceipts[i] \in Codes
  BY DEF ExecTypeOK
<1>2. CASE codes = {}
  BY <1>2 DEF Aggregate, Codes
<1>3. CASE codes # {} /\ bad = {}
  <2>1. done # {}
    BY <1>3 DEF EndsBatch
  <2>2. last \in done
    BY <1>0, <2>1, LastExists
  <2>3. callReceipts[last] \in Codes
    BY <1>1, <2>2
  <2> QED BY <1>3, <2>3 DEF Aggregate
<1>4. CASE bad # {}
  <2>1. bad \subseteq {"declined", "rejected", "failed", "canceled"}
    BY <1>1 DEF EndsBatch, Codes
  <2>2. \E o \in bad : \A p \in bad : Rank[p] =< Rank[o]
    <3> HIDE DEF bad
    <3>1. Rank["declined"] = 2 /\ Rank["rejected"] = 3 /\ Rank["failed"] = 4 /\ Rank["canceled"] = 5
      BY DEF Rank
    <3>2. CASE "canceled" \in bad
      BY <2>1, <3>1, <3>2
    <3>3. CASE "canceled" \notin bad /\ "failed" \in bad
      BY <2>1, <3>1, <3>3
    <3>4. CASE "canceled" \notin bad /\ "failed" \notin bad /\ "rejected" \in bad
      BY <2>1, <3>1, <3>4
    <3>5. CASE bad = {"declined"}
      BY <3>1, <3>5
    <3> QED BY <1>4, <2>1, <3>2, <3>3, <3>4, <3>5
  <2>3. (CHOOSE o \in bad : \A p \in bad : Rank[p] =< Rank[o]) \in bad
    BY <2>2
  <2>4. (CHOOSE o \in bad : \A p \in bad : Rank[p] =< Rank[o]) \in Codes
    <3> HIDE DEF bad
    <3> QED BY <2>1, <2>3 DEF Codes
  <2> QED BY <1>4, <2>4 DEF Aggregate
<1> QED BY <1>2, <1>3, <1>4

\* A batch is normalized call by call.
LEMMA NormalizedBatch ==
    ASSUME ExecTypeOK
    PROVE  /\ Normalized \in Seq(CallRecords) /\ Len(Normalized) = Count
           /\ \A i \in Indices : Normalized[i].id = batch[i].id /\ Normalized[i].tool = batch[i].tool
<1>1. \A i \in Indices : batch[i] \in CallRecords
  BY DEF ExecTypeOK, Indices, Count
<1>2. ASSUME NEW c \in CallRecords
      PROVE  [c EXCEPT !.args = "plain"] \in CallRecords
             /\ [c EXCEPT !.args = "plain"].id = c.id /\ [c EXCEPT !.args = "plain"].tool = c.tool
  BY DEF CallRecords, Arguments
<1>3. ASSUME NEW i \in Indices
      PROVE  Normalized[i] \in CallRecords /\ Normalized[i].id = batch[i].id /\ Normalized[i].tool = batch[i].tool
  BY <1>1, <1>2 DEF Normalized
<1>4. Normalized \in [1..Count -> CallRecords] /\ Count \in Nat
  BY <1>3, BatchNumbers DEF Normalized, Indices
<1> QED BY <1>3, <1>4

\* Before the admission nothing has happened.
LEMMA BeforeAdmission ==
    ASSUME BatchInv, batchPhase = "admit"
    PROVE  /\ nextCall = 1 /\ gate /\ approval = "none"
           /\ \A i \in Indices : callReceipts[i] = "none" /\ operation[i] = "none" /\ ran[i] = "none" /\ completed[i] = 0
           /\ \A w \in ExecWorkers : ~AtWork(w)
<1>0. /\ ExecTypeOK /\ PhaseSound /\ \A w \in ExecWorkers : WorkerSound(w)
      /\ \A i \in Indices : CallSound(i)
  BY DEF BatchInv
<1>1. nextCall = 1 /\ gate /\ approval = "none"
  BY <1>0 DEF PhaseSound
<1>2. ASSUME NEW i \in Indices
      PROVE  callReceipts[i] = "none" /\ operation[i] = "none" /\ ran[i] = "none" /\ completed[i] = 0
  <2>1. i >= nextCall
    BY <1>0, <1>1, BatchNumbers
  <2> QED BY <1>0, <2>1 DEF CallSound
<1>3. \A w \in ExecWorkers : ~AtWork(w)
  BY <1>0 DEF WorkerSound, Dispatching
<1> QED BY <1>1, <1>2, <1>3

\* A batch that is admitted is safe to dispatch.
LEMMA AdmittedBatch ==
    ASSUME ExecTypeOK, Refusal = "none"
    PROVE  /\ Count <= MaxBatch
           /\ \A i \in Indices : Tool(i) \in Registered /\ Normalized[i].args = "plain"
           /\ \A i, j \in Indices : i # j =>
                 /\ batch[i].id # batch[j].id
                 /\ Tool(i) \notin Reads => Tool(i) = "append" /\ Tool(j) = "append"
<1>1. ~PreflightFails /\ ~Unregistered /\ ~OutsideScope /\ ~MixesWrites /\ ~Unfit
  BY DEF Refusal
<1>2. Count <= MaxBatch
  BY <1>1, BatchNumbers, ExecutorAssumption DEF PreflightFails
<1>3. \A i \in Indices : Tool(i) \in Tools
  <2>1. ASSUME NEW i \in Indices PROVE Tool(i) \in Tools
    <3>1. PICK c \in CallRecords : c = batch[i]
      BY DEF ExecTypeOK, Indices, Count
    <3>2. c.tool \in Tools
      BY DEF CallRecords
    <3> QED BY <3>1, <3>2 DEF Tool
  <2> QED BY <2>1
<1>4. \A i \in Indices : Tool(i) \in Registered /\ Normalized[i].args = "plain"
  BY <1>1, <1>3 DEF Unregistered, OutsideScope, Unfit, Tools
<1>5. ASSUME NEW i \in Indices, NEW j \in Indices, i # j
      PROVE  batch[i].id # batch[j].id /\ (Tool(i) \notin Reads => Tool(i) = "append" /\ Tool(j) = "append")
  <2>1. Count > 1
    BY <1>5, BatchNumbers
  <2> QED BY <1>1, <1>5, <2>1 DEF PreflightFails, MixesWrites, ArtifactBatch
<1> QED BY <1>2, <1>4, <1>5

\* The admission of the batch.
LEMMA AdmitStep ==
    ASSUME BatchInv, AdmitBatch
    PROVE  BatchInv'
<1>0. ExecTypeOK /\ batchPhase = "admit"
  BY DEF BatchInv, AdmitBatch
<1>1. UNCHANGED <<halted, gate, nextCall, at, ran, operation, approval, completed>>
  BY DEF AdmitBatch
<1>2. /\ nextCall = 1 /\ gate /\ approval = "none"
      /\ \A i \in Indices : callReceipts[i] = "none" /\ operation[i] = "none" /\ ran[i] = "none" /\ completed[i] = 0
      /\ \A w \in ExecWorkers : ~AtWork(w)
  BY <1>0, BeforeAdmission
<1>3. /\ batch' \in {batch, Normalized}
      /\ batchPhase' \in {"serial", "parallel", "over"}
      /\ callReceipts' \in {callReceipts, [i \in Indices |-> "refused"]}
      /\ reply' \in [outcome : Codes, effect : {"unknown", "not_started", "committed"}]
      /\ batchPhase' = "over" => reply'.outcome = "canceled" \/ callReceipts' = [i \in Indices |-> "refused"]
      /\ batchPhase' # "over" => /\ batch' = Normalized /\ Refusal = "none" /\ callReceipts' = callReceipts
                                 /\ batchPhase' = "parallel" => MayOverlap
  <2>0. reply \in [outcome : Codes, effect : {"unknown", "not_started", "committed"}]
    BY <1>0 DEF ExecTypeOK
  <2>1. CASE /\ batchPhase' = "over" /\ reply' = [outcome |-> "canceled", effect |-> "unknown"]
             /\ UNCHANGED <<batch, callReceipts>>
    BY <2>1 DEF Codes
  <2>2. CASE /\ batchPhase' = "over" /\ reply' = [outcome |-> Refusal, effect |-> "not_started"]
             /\ callReceipts' = [i \in Indices |-> "refused"] /\ batch' = batch
    <3>1. Refusal \in {"failed", "rejected", "none"}
      BY DEF Refusal
    <3> QED BY <2>2, <3>1 DEF Codes
  <2>3. CASE /\ Refusal = "none" /\ batch' = Normalized
             /\ \/ /\ ~MayOverlap /\ batchPhase' = "serial" /\ UNCHANGED <<callReceipts, reply>>
                \/ /\ MayOverlap /\ batchPhase' = "parallel" /\ UNCHANGED <<callReceipts, reply>>
    BY <2>0, <2>3
  <2>4. CASE /\ batch' = Normalized /\ batchPhase' = "over"
             /\ \E o \in {"rejected", "failed"} : reply' = [outcome |-> o, effect |-> "not_started"]
             /\ callReceipts' = [i \in Indices |-> "refused"]
    BY <2>4 DEF Codes
  <2> QED BY <2>1, <2>2, <2>3, <2>4 DEF AdmitBatch
<1>4. /\ batch' \in Seq(CallRecords) /\ Count' = Count /\ Indices' = Indices
      /\ \A i \in Indices : Tool(i)' = Tool(i) /\ batch'[i].id = batch[i].id
  <2>1. batch' \in Seq(CallRecords) /\ Len(batch') = Count
    BY <1>0, <1>3, NormalizedBatch DEF ExecTypeOK, Count
  <2>2. \A i \in Indices : batch'[i].id = batch[i].id /\ batch'[i].tool = batch[i].tool
    BY <1>0, <1>3, NormalizedBatch
  <2> QED BY <2>1, <2>2 DEF Count, Indices, Tool
<1>5. ExecTypeOK'
  <2>1. callReceipts' \in [Indices -> Codes]
    BY <1>0, <1>3 DEF ExecTypeOK, Codes
  <2> QED BY <1>0, <1>1, <1>3, <1>4, <2>1 DEF ExecTypeOK
<1>6. \A i \in Indices : callReceipts'[i] \in {"none", "refused"} /\ (callReceipts' = callReceipts => callReceipts'[i] = "none")
  BY <1>2, <1>3
<1>7. PhaseSound'
  <2>1. ASSUME batchPhase' # "over"
        PROVE  /\ Count <= MaxBatch
               /\ \A i \in Indices : Tool(i)' \in Registered /\ batch'[i].args = "plain"
               /\ \A i, j \in Indices : i # j =>
                     /\ batch'[i].id # batch'[j].id
                     /\ Tool(i)' \notin Reads => Tool(i)' = "append" /\ Tool(j)' = "append"
    BY <1>0, <1>3, <1>4, <2>1, AdmittedBatch
  <2>2. batchPhase' = "parallel" => \A i \in Indices : Tool(i)' = "read"
    BY <1>3, <1>4 DEF MayOverlap
  <2> QED BY <1>1, <1>2, <1>3, <1>4, <2>1, <2>2 DEF PhaseSound, Dispatching
<1>8. \A w \in ExecWorkers : WorkerSound(w)'
  BY <1>1, <1>2 DEF WorkerSound, AtWork
<1>9. ASSUME NEW i \in Indices PROVE CallSound(i)'
  <2>1. ran'[i] = "none" /\ ~OpenCall(i)' /\ operation'[i] = "none" /\ completed'[i] = 0 /\ nextCall' = 1
    BY <1>1, <1>2 DEF OpenCall
  <2>2. i >= 1 /\ ~(i < 1)
    BY <1>0, BatchNumbers
  <2>3. batchPhase' # "over" => callReceipts'[i] = "none"
    BY <1>3, <1>6
  <2> QED BY <1>3, <2>1, <2>2, <2>3 DEF CallSound, Dispatching
<1>10. EveryCallAnswered'
  <2>1. ASSUME batchPhase' = "over", reply'.outcome # "canceled" PROVE \A i \in Indices : callReceipts'[i] # "none"
    BY <1>3, <2>1
  <2> QED BY <1>4, <1>6, <2>1 DEF EveryCallAnswered
<1>11. AdmittedIsSafe' /\ EffectTold'
  BY <1>1, <1>2, <1>4 DEF AdmittedIsSafe, EffectTold
<1>12. OperationsSettled'
  <2>1. \A i \in Indices : operation'[i] = "none" /\ ~OpenCall(i)' /\ callReceipts'[i] \notin Ended
    BY <1>1, <1>2, <1>6 DEF OpenCall, Ended
  <2> QED BY <1>4, <2>1 DEF OperationsSettled
<1> QED BY <1>4, <1>5, <1>7, <1>8, <1>9, <1>10, <1>11, <1>12 DEF BatchInv

\* A worker takes the next call.
LEMMA TakeStep ==
    ASSUME BatchInv, NEW w \in ExecWorkers, Take(w)
    PROVE  BatchInv'
<1>0. /\ ExecTypeOK /\ PhaseSound /\ EveryCallAnswered /\ AdmittedIsSafe /\ EffectTold
      /\ OperationsSettled /\ \A j \in Indices : CallSound(j)
      /\ \A v \in ExecWorkers : WorkerSound(v)
  BY DEF BatchInv
<1>1. /\ Dispatching /\ w \in Lanes /\ at[w].stage = "idle" /\ nextCall <= Count
      /\ nextCall' = nextCall + 1
      /\ at' = [at EXCEPT ![w] = [stage |-> "gate", call |-> nextCall]]
      /\ UNCHANGED <<batch, batchPhase, halted, gate, ran, operation, approval, callReceipts, completed, reply>>
  BY DEF Take, Dispatching
<1>2. Count' = Count /\ Indices' = Indices /\ (\A j : Tool(j)' = Tool(j)) /\ Lanes' = Lanes
  BY <1>1 DEF Count, Indices, Tool, Lanes
<1>3. /\ nextCall \in Indices /\ nextCall \in Nat /\ nextCall' - 1 = nextCall /\ Count \in Nat
      /\ \A i \in Indices : i \in Nat
  BY <1>0, <1>1, BatchNumbers
<1>4. /\ at'[w].stage = "gate" /\ at'[w].call = nextCall /\ AtWork(w)' /\ ~AtWork(w)
      /\ \A v \in ExecWorkers \ {w} : at'[v] = at[v] /\ (AtWork(v)' <=> AtWork(v))
  BY <1>0, <1>1 DEF ExecTypeOK, AtWork, Busy
<1>5. /\ callReceipts[nextCall] = "none" /\ operation[nextCall] = "none" /\ ran[nextCall] = "none"
      /\ completed[nextCall] = 0 /\ approval = "none"
  <2>1. nextCall >= nextCall /\ ~(nextCall > Count)
    BY <1>1, <1>3
  <2> QED BY <1>0, <1>1, <1>3, <2>1 DEF CallSound, PhaseSound
<1>6. \A v \in ExecWorkers : AtWork(v) => at[v].call \in Nat /\ at[v].call < nextCall
  BY <1>0, <1>3, WorkerFields DEF WorkerSound
<1>7. ExecTypeOK'
  <2>1. at' \in [ExecWorkers -> [stage : Busy \cup {"idle", "done"}, call : 0..Count]]
    BY <1>0, <1>1, <1>3 DEF ExecTypeOK, Busy
  <2>2. nextCall' \in 1..(Count + 1)
    BY <1>1, <1>3
  <2> QED BY <1>0, <1>1, <1>2, <2>1, <2>2 DEF ExecTypeOK
<1>8. PhaseSound'
  BY <1>0, <1>1, <1>2, <1>5 DEF PhaseSound, Dispatching
<1>9. ASSUME NEW v \in ExecWorkers PROVE WorkerSound(v)'
  <2>1. CASE v = w
    <3>1. \A u \in ExecWorkers \ {w} : AtWork(u)' => at'[u].call # nextCall
      BY <1>3, <1>4, <1>6
    <3>2. nextCall \in 1..(nextCall' - 1)
      BY <1>0, <1>3, BatchNumbers
    <3> QED BY <1>1, <1>2, <1>3, <1>4, <1>5, <2>1, <3>1, <3>2 DEF WorkerSound, Dispatching
  <2>2. CASE v # w
    <3> SUFFICES ASSUME AtWork(v)' PROVE WorkerSound(v)'
      BY DEF WorkerSound
    <3>1. AtWork(v) /\ at'[v] = at[v] /\ WorkerSound(v) /\ at[v].call # nextCall
      BY <1>0, <1>3, <1>4, <1>6, <2>2
    <3>2. batchPhase # "serial"
      BY <1>1, <2>2, <3>1 DEF WorkerSound, Lanes
    <3>3. at[v].call \in 1..(nextCall' - 1)
      BY <1>1, <1>3, <3>1 DEF WorkerSound
    <3>4. \A u \in ExecWorkers \ {v} : AtWork(u)' => at'[u].call # at[v].call
      BY <1>4, <3>1 DEF WorkerSound
    <3> QED BY <1>1, <1>2, <3>1, <3>2, <3>3, <3>4 DEF WorkerSound, Dispatching
  <2> QED BY <2>1, <2>2
<1>10. ASSUME NEW j \in Indices PROVE CallSound(j)'
  <2>1. CallSound(j) /\ j \in Nat
    BY <1>0, <1>3
  <2>2. j >= nextCall' => j >= nextCall
    BY <1>1, <1>3, <2>1
  <2>3. \A v \in ExecWorkers : at[v] = [stage |-> "run", call |-> j] => at'[v] = [stage |-> "run", call |-> j]
    BY <1>1, <1>4
  <2>4. \A v \in ExecWorkers : AtWork(v) /\ at[v].call = j => (AtWork(v) /\ at[v].call = j)'
    BY <1>4
  <2>5. batchPhase = "serial" /\ j < nextCall' => callReceipts[j] \in Ended \/ (AtWork(1) /\ at[1].call = j)'
    <3> SUFFICES ASSUME batchPhase = "serial", j < nextCall'
                 PROVE  callReceipts[j] \in Ended \/ (AtWork(1) /\ at[1].call = j)'
      OBVIOUS
    <3>1. w = 1
      BY <1>1 DEF Lanes
    <3>2. j < nextCall \/ j = nextCall
      BY <1>1, <1>3, <2>1
    <3> QED BY <1>4, <2>1, <3>1, <3>2 DEF CallSound
  <2> QED BY <1>1, <1>2, <2>1, <2>2, <2>3, <2>4, <2>5 DEF CallSound, Dispatching, OpenCall
<1>11. EveryCallAnswered' /\ EffectTold' /\ AdmittedIsSafe' /\ OperationsSettled'
  BY <1>0, <1>1, <1>2 DEF EveryCallAnswered, EffectTold, AdmittedIsSafe, OperationsSettled, OpenCall
<1> QED BY <1>2, <1>7, <1>8, <1>9, <1>10, <1>11 DEF BatchInv

\* The effect of a handler takes place.
LEMMA EffectStep ==
    ASSUME BatchInv, NEW i \in Indices, TakesEffect(i)
    PROVE  BatchInv'
<1>0. /\ ExecTypeOK /\ PhaseSound /\ EveryCallAnswered /\ AdmittedIsSafe /\ EffectTold
      /\ OperationsSettled /\ \A j \in Indices : CallSound(j)
      /\ \A v \in ExecWorkers : WorkerSound(v)
  BY DEF BatchInv
<1>1. /\ ran[i] = "running" /\ Tool(i) \notin Reads /\ at[1] = [stage |-> "run", call |-> i]
      /\ ran' = [ran EXCEPT ![i] = "effected"]
      /\ UNCHANGED <<batch, batchPhase, halted, gate, nextCall, at, operation, approval, callReceipts, completed, reply>>
  BY DEF TakesEffect
<1>2. Count' = Count /\ Indices' = Indices /\ (\A j : Tool(j)' = Tool(j)) /\ Lanes' = Lanes
  BY <1>1 DEF Count, Indices, Tool, Lanes
<1>3. ran'[i] = "effected" /\ \A j \in Indices \ {i} : ran'[j] = ran[j]
  BY <1>0, <1>1 DEF ExecTypeOK
<1>4. 1 \in ExecWorkers
  BY ExecutorAssumption DEF ExecWorkers
<1>5. AtWork(1) /\ at[1].call = i /\ at[1].stage = "run"
  BY <1>1 DEF AtWork, Busy
<1>6. ExecTypeOK'
  BY <1>0, <1>1, <1>2 DEF ExecTypeOK
<1>7. PhaseSound'
  BY <1>0, <1>1, <1>2 DEF PhaseSound, Dispatching
<1>8. ASSUME NEW v \in ExecWorkers PROVE WorkerSound(v)'
  <2> SUFFICES ASSUME AtWork(v)' PROVE WorkerSound(v)'
    BY DEF WorkerSound
  <2>1. AtWork(v) /\ WorkerSound(v) /\ at[v].call \in Indices
    BY <1>0, <1>1, BatchNumbers, WorkerFields DEF AtWork, WorkerSound
  <2>2. CASE v = 1
    BY <1>1, <1>2, <1>3, <1>5, <2>1, <2>2 DEF WorkerSound, Dispatching, AtWork
  <2>3. CASE v # 1
    <3>1. ran'[at[v].call] = ran[at[v].call]
      BY <1>0, <1>3, <1>4, <1>5, <2>1, <2>3 DEF WorkerSound
    <3> QED BY <1>1, <1>2, <2>1, <3>1 DEF WorkerSound, Dispatching, AtWork
  <2> QED BY <2>2, <2>3
<1>9. ASSUME NEW j \in Indices PROVE CallSound(j)'
  <2>1. CallSound(j)
    BY <1>0
  <2>2. CASE j = i
    <3>1. i < nextCall /\ ~(i >= nextCall)
      BY <1>0, <1>4, <1>5, BatchNumbers DEF WorkerSound
    <3>2. Dispatching
      BY <1>0, <1>4, <1>5 DEF WorkerSound
    <3> QED BY <1>1, <1>2, <1>3, <1>4, <2>1, <2>2, <3>1, <3>2 DEF CallSound, Dispatching, OpenCall, AtWork
  <2>3. CASE j # i
    BY <1>1, <1>2, <1>3, <2>1, <2>3 DEF CallSound, Dispatching, OpenCall, AtWork
  <2> QED BY <2>2, <2>3
<1>10. Dispatching
  BY <1>0, <1>4, <1>5 DEF WorkerSound
<1>11. EveryCallAnswered' /\ EffectTold' /\ OperationsSettled'
  BY <1>0, <1>1, <1>2, <1>10 DEF EveryCallAnswered, EffectTold, OperationsSettled, OpenCall, Dispatching
<1>12. AdmittedIsSafe'
  BY <1>0, <1>1, <1>2 DEF AdmittedIsSafe
<1> QED BY <1>2, <1>6, <1>7, <1>8, <1>9, <1>11, <1>12 DEF BatchInv

\* A handler succeeds.
LEMMA SucceedsStep ==
    ASSUME BatchInv, NEW w \in ExecWorkers, HandlerSucceeds(w)
    PROVE  BatchInv'
<1> DEFINE i == at[w].call
           last == batchPhase = "serial" /\ i = Count
<1>0. /\ ExecTypeOK /\ PhaseSound /\ EveryCallAnswered /\ AdmittedIsSafe /\ EffectTold
      /\ OperationsSettled /\ \A j \in Indices : CallSound(j)
      /\ \A v \in ExecWorkers : WorkerSound(v)
  BY DEF BatchInv
<1>1. PICK o \in {"completed", "progressed"} :
         /\ callReceipts' = [callReceipts EXCEPT ![i] = o]
         /\ completed' = [completed EXCEPT ![i] = @ + 1]
         /\ operation' = [operation EXCEPT ![i] = IF @ = "open" THEN "succeeded" ELSE @]
         /\ ran' = [ran EXCEPT ![i] = IF @ = "running" THEN "returned" ELSE @]
         /\ at' = [at EXCEPT ![w] = IdleWorker]
         /\ batchPhase' = IF last THEN "over" ELSE batchPhase
         /\ reply' = IF last THEN [outcome |-> o, effect |-> "unknown"] ELSE reply
  BY DEF HandlerSucceeds
<1>2. at[w].stage = "run" /\ AtWork(w) /\ UNCHANGED <<batch, halted, gate, nextCall, approval>>
  BY DEF HandlerSucceeds, AtWork, Busy
<1>3. /\ i \in Indices /\ i < nextCall /\ Dispatching /\ w \in Lanes /\ callReceipts[i] = "none"
      /\ completed[i] = 0 /\ operation[i] = "open" /\ ran[i] \in {"running", "effected"}
      /\ batchPhase = "serial" => i = nextCall - 1 /\ w = 1
  BY <1>0, <1>2, BatchNumbers, WorkerFields DEF WorkerSound, Lanes
<1>4. Count' = Count /\ Indices' = Indices /\ (\A j : Tool(j)' = Tool(j))
  BY <1>2 DEF Count, Indices, Tool
<1>5. /\ callReceipts'[i] = o /\ completed'[i] = 1 /\ operation'[i] = "succeeded"
      /\ ran'[i] \in {"returned", "effected"} /\ (ran'[i] = "effected" => ran[i] = "effected")
      /\ \A j \in Indices \ {i} : /\ callReceipts'[j] = callReceipts[j] /\ completed'[j] = completed[j]
                                  /\ operation'[j] = operation[j] /\ ran'[j] = ran[j]
  BY <1>0, <1>1, <1>3 DEF ExecTypeOK
<1>6. /\ at'[w].stage = "idle" /\ ~AtWork(w)'
      /\ \A v \in ExecWorkers \ {w} : at'[v] = at[v] /\ (AtWork(v)' <=> AtWork(v))
  BY <1>0, <1>1 DEF ExecTypeOK, AtWork, Busy, IdleWorker
<1>7. ExecTypeOK'
  <2>1. callReceipts' \in [Indices -> Codes] /\ completed' \in [Indices -> 0..1]
    BY <1>0, <1>1, <1>3 DEF ExecTypeOK, Codes
  <2>2. operation' \in [Indices -> {"none", "open", "succeeded", "released"} \cup Codes]
    BY <1>0, <1>1 DEF ExecTypeOK
  <2>3. ran' \in [Indices -> {"none", "running", "effected", "returned"}]
    BY <1>0, <1>1 DEF ExecTypeOK
  <2>4. at' \in [ExecWorkers -> [stage : Busy \cup {"idle", "done"}, call : 0..Count]]
    BY <1>0, <1>1, BatchNumbers DEF ExecTypeOK, IdleWorker
  <2>5. reply' \in [outcome : Codes, effect : {"unknown", "not_started", "committed"}]
    BY <1>0, <1>1 DEF ExecTypeOK, Codes
  <2> QED BY <1>0, <1>1, <1>2, <1>4, <2>1, <2>2, <2>3, <2>4, <2>5 DEF ExecTypeOK
<1>8. PhaseSound'
  BY <1>0, <1>1, <1>2, <1>3, <1>4, <1>6 DEF PhaseSound, Dispatching
<1>9. ASSUME NEW v \in ExecWorkers PROVE WorkerSound(v)'
  <2> SUFFICES ASSUME AtWork(v)' PROVE WorkerSound(v)'
    BY DEF WorkerSound
  <2>1. v # w /\ at'[v] = at[v] /\ AtWork(v) /\ WorkerSound(v) /\ at[v].call # i /\ at[v].call \in Indices
    BY <1>0, <1>2, <1>6, BatchNumbers, WorkerFields DEF WorkerSound
  <2>2. batchPhase # "serial" /\ batchPhase' = batchPhase
    BY <1>1, <1>3, <2>1 DEF WorkerSound, Lanes
  <2>3. /\ callReceipts'[at[v].call] = callReceipts[at[v].call]
        /\ completed'[at[v].call] = completed[at[v].call] /\ operation'[at[v].call] = operation[at[v].call]
        /\ ran'[at[v].call] = ran[at[v].call]
    BY <1>5, <2>1
  <2> QED BY <1>2, <1>4, <1>6, <2>1, <2>2, <2>3 DEF WorkerSound, Dispatching, Lanes
<1>10. ASSUME NEW j \in Indices PROVE CallSound(j)'
  <2>1. CallSound(j) /\ j \in Nat
    BY <1>0, BatchNumbers
  <2>2. CASE j = i
    <3>1. ~OpenCall(j)' /\ callReceipts'[j] \in Ended /\ ~(j >= nextCall)
      BY <1>0, <1>3, <1>5, <2>2, BatchNumbers DEF OpenCall, Ended
    <3>2. ran'[j] = "effected" => Tool(j)' \notin Reads
      BY <1>4, <1>5, <2>1, <2>2 DEF CallSound
    <3> QED BY <1>2, <1>5, <2>2, <3>1, <3>2 DEF CallSound, Ended
  <2>3. CASE j # i
    <3>1. \A v \in ExecWorkers : at[v].call = j => at'[v] = at[v] /\ (AtWork(v)' <=> AtWork(v))
      BY <1>6, <2>3
    <3>2. OpenCall(j)' => batchPhase' = "raised" \/ \E v \in ExecWorkers : AtWork(v)' /\ at'[v].call = j
      BY <1>3, <1>5, <2>1, <2>3, <3>1 DEF CallSound, OpenCall, Dispatching
    <3>3. Dispatching' /\ ran'[j] = "effected" =>
             callReceipts'[j] \in Ended \/ \E v \in ExecWorkers : at'[v] = [stage |-> "run", call |-> j]
      BY <1>3, <1>5, <2>1, <2>3, <3>1 DEF CallSound
    <3>4. batchPhase' = "serial" /\ j < nextCall => callReceipts'[j] \in Ended
      BY <1>1, <1>3, <1>5, <2>1, <2>3 DEF CallSound
    <3>5. Dispatching' \/ batchPhase' = "admit" => Dispatching
      BY <1>3
    <3> QED BY <1>2, <1>4, <1>5, <2>1, <2>3, <3>2, <3>3, <3>4, <3>5 DEF CallSound
  <2> QED BY <2>2, <2>3
<1>11. EveryCallAnswered'
  <2>1. ASSUME NEW j \in Indices, batchPhase' = "over" PROVE callReceipts'[j] # "none"
    <3>1. last
      BY <1>1, <1>3, <2>1 DEF Dispatching
    <3>2. CASE j = i
      BY <1>5, <3>2
    <3>3. CASE j # i
      <4>1. j < nextCall
        BY <1>0, <1>3, <3>1, BatchNumbers
      <4>2. CallSound(j) /\ at[1].call = i
        BY <1>0, <1>3, <3>1
      <4>3. callReceipts[j] \in Ended
        BY <3>1, <3>3, <4>1, <4>2 DEF CallSound
      <4> QED BY <1>5, <3>3, <4>3 DEF Ended
    <3> QED BY <3>2, <3>3
  <2>2. ASSUME NEW j \in Indices, callReceipts'[j] \notin {"none", "refused"} PROVE completed'[j] = 1
    BY <1>0, <1>5, <2>2 DEF EveryCallAnswered
  <2> QED BY <1>4, <2>1, <2>2 DEF EveryCallAnswered
<1>12. AdmittedIsSafe'
  BY <1>0, <1>2, <1>3, <1>4 DEF AdmittedIsSafe
<1>13. EffectTold'
  <2>1. batchPhase' = "over" => reply'.effect = "unknown"
    BY <1>1, <1>3 DEF Dispatching
  <2> QED BY <2>1 DEF EffectTold
<1>14. OperationsSettled'
  <2>1. ASSUME NEW j \in Indices, batchPhase' = "over", OpenCall(j)' PROVE FALSE
    <3>1. last /\ j # i /\ OpenCall(j)
      BY <1>1, <1>3, <1>5, <2>1 DEF Dispatching, OpenCall
    <3>2. PICK v \in ExecWorkers : AtWork(v) /\ at[v].call = j
      BY <1>0, <3>1 DEF CallSound
    <3>3. v = w
      BY <1>0, <1>3, <3>1, <3>2 DEF WorkerSound, Lanes
    <3> QED BY <3>1, <3>2, <3>3
  <2>2. ASSUME NEW j \in Indices PROVE operation'[j] = "succeeded" <=> callReceipts'[j] \in Ended
    BY <1>0, <1>5 DEF OperationsSettled, Ended
  <2> QED BY <1>4, <2>1, <2>2 DEF OperationsSettled
<1> QED BY <1>4, <1>7, <1>8, <1>9, <1>10, <1>11, <1>12, <1>13, <1>14 DEF BatchInv

\* The workers of a parallel batch have ended.
LEMMA JoinStep ==
    ASSUME BatchInv, Join
    PROVE  BatchInv'
<1> DEFINE done == {i \in Indices : callReceipts[i] # "none"}
<1>0. /\ ExecTypeOK /\ PhaseSound /\ EveryCallAnswered /\ AdmittedIsSafe /\ EffectTold
      /\ OperationsSettled /\ \A j \in Indices : CallSound(j)
      /\ \A v \in ExecWorkers : WorkerSound(v)
  BY DEF BatchInv
<1>1. /\ batchPhase = "parallel" /\ batchPhase' = "over" /\ Dispatching
      /\ reply' = [outcome |-> Aggregate(done), effect |-> "not_started"]
      /\ callReceipts' = [i \in Indices |-> IF callReceipts[i] = "none" THEN "aborted" ELSE callReceipts[i]]
      /\ completed' = [i \in Indices |-> IF callReceipts[i] = "none" THEN completed[i] + 1 ELSE completed[i]]
      /\ UNCHANGED <<batch, halted, gate, nextCall, at, ran, operation, approval>>
  BY DEF Join, Dispatching
<1>2. Count' = Count /\ Indices' = Indices /\ (\A j : Tool(j)' = Tool(j))
  BY <1>1 DEF Count, Indices, Tool
<1>3. \A w \in ExecWorkers : ~AtWork(w)
  BY <1>0 DEF Join, WorkerSound, AtWork, Busy
<1>4. ASSUME NEW i \in Indices
      PROVE  /\ callReceipts[i] \notin {"refused", "aborted"} /\ ~OpenCall(i) /\ ran[i] # "effected"
             /\ callReceipts[i] = "none" <=> completed[i] = 0
  <2>1. CallSound(i) /\ Tool(i) \in Reads
    BY <1>0, <1>1 DEF PhaseSound, Reads
  <2> QED BY <1>1, <1>3, <2>1 DEF CallSound
<1>5. ExecTypeOK'
  <2>1. Aggregate(done) \in Codes
    BY <1>0, <1>4, AggregateIsCode
  <2>2. callReceipts' \in [Indices -> Codes]
    BY <1>0, <1>1 DEF ExecTypeOK, Codes
  <2>3. completed' \in [Indices -> 0..1]
    BY <1>0, <1>1, <1>4 DEF ExecTypeOK
  <2> QED BY <1>0, <1>1, <1>2, <2>1, <2>2, <2>3 DEF ExecTypeOK
<1>6. PhaseSound'
  BY <1>0, <1>1, <1>2 DEF PhaseSound, Dispatching
<1>7. \A w \in ExecWorkers : WorkerSound(w)'
  BY <1>1, <1>3 DEF WorkerSound, AtWork
<1>8. ASSUME NEW j \in Indices PROVE CallSound(j)'
  <2>1. ~Dispatching' /\ ~OpenCall(j)' /\ ran'[j] # "effected"
    BY <1>1, <1>4 DEF Dispatching, OpenCall
  <2> QED BY <1>1, <2>1 DEF CallSound
<1>9. \A i \in Indices : callReceipts'[i] # "none" /\ (callReceipts'[i] \notin {"none", "refused"} => completed'[i] = 1)
  BY <1>0, <1>1, <1>4 DEF EveryCallAnswered
<1>10. EveryCallAnswered' /\ EffectTold'
  BY <1>1, <1>2, <1>4, <1>9 DEF EveryCallAnswered, EffectTold
<1>11. AdmittedIsSafe'
  BY <1>0, <1>1, <1>2 DEF AdmittedIsSafe
<1>12. OperationsSettled'
  <2>1. ASSUME NEW i \in Indices
        PROVE  ~OpenCall(i)' /\ (operation'[i] = "succeeded" <=> callReceipts'[i] \in Ended)
    <3>1. callReceipts'[i] \in Ended <=> callReceipts[i] \in Ended
      BY <1>1 DEF Ended
    <3> QED BY <1>0, <1>1, <1>4, <3>1 DEF OperationsSettled, OpenCall
  <2> QED BY <1>2, <2>1 DEF OperationsSettled
<1> QED BY <1>2, <1>5, <1>6, <1>7, <1>8, <1>10, <1>11, <1>12 DEF BatchInv

\* What happens around the batch: the stop, the decision on an approval, the
\* release of the operations of a Run that an exception ended; and the stutter.
LEMMA AroundStep ==
    ASSUME BatchInv,
           \/ \E why \in {"canceled", "deadline"} : HaltRun(why)
           \/ \E d \in ApprovalDecisions : SettleApproval(d)
           \/ ReleaseOperations
           \/ UNCHANGED execVars
    PROVE  BatchInv'
<1>0. /\ ExecTypeOK /\ PhaseSound /\ EveryCallAnswered /\ AdmittedIsSafe /\ EffectTold
      /\ OperationsSettled /\ \A j \in Indices : CallSound(j)
      /\ \A v \in ExecWorkers : WorkerSound(v)
  BY DEF BatchInv
<1>1. /\ UNCHANGED <<batch, batchPhase, gate, nextCall, at, ran, callReceipts, completed, reply>>
      /\ halted' \in {halted, "canceled", "deadline"}
      /\ approval' = approval \/ (approval = "pending" /\ approval' \in ApprovalDecisions)
      /\ operation' = operation
         \/ /\ batchPhase = "raised"
            /\ operation' = [i \in Indices |-> IF OpenCall(i) THEN "released" ELSE operation[i]]
  BY DEF HaltRun, SettleApproval, ReleaseOperations, execVars
<1>2. Count' = Count /\ Indices' = Indices /\ (\A j : Tool(j)' = Tool(j)) /\ Lanes' = Lanes
  BY <1>1 DEF Count, Indices, Tool, Lanes
<1>3. ExecTypeOK'
  <2>1. operation' \in [Indices -> {"none", "open", "succeeded", "released"} \cup Codes]
    BY <1>0, <1>1 DEF ExecTypeOK
  <2>2. approval' \in ApprovalDecisions \cup {"none", "pending"} /\ halted' \in {"no", "canceled", "deadline"}
    BY <1>0, <1>1 DEF ExecTypeOK
  <2> QED BY <1>0, <1>1, <1>2, <2>1, <2>2 DEF ExecTypeOK
<1>4. (approval' = "none" <=> approval = "none") /\ (approval = "approved" => approval' = "approved")
  BY <1>1 DEF ApprovalDecisions
<1>5. batchPhase # "raised" => operation' = operation
  BY <1>1
<1>6. PhaseSound'
  BY <1>0, <1>1, <1>2, <1>4 DEF PhaseSound, Dispatching
<1>7. ASSUME NEW w \in ExecWorkers PROVE WorkerSound(w)'
  <2> SUFFICES ASSUME AtWork(w)' PROVE WorkerSound(w)'
    BY DEF WorkerSound
  <2>1. AtWork(w) /\ WorkerSound(w) /\ batchPhase # "raised"
    BY <1>0, <1>1 DEF AtWork, WorkerSound, Dispatching
  <2>2. /\ at[w].stage = "approve" => approval' # "none"
        /\ at[w].stage = "rescope" => approval' = "approved"
    BY <1>4, <2>1 DEF WorkerSound
  <2> QED BY <1>1, <1>2, <1>5, <2>1, <2>2 DEF WorkerSound, AtWork, Dispatching
<1>8. ASSUME NEW j \in Indices PROVE CallSound(j)' /\ (operation'[j] = "succeeded" <=> operation[j] = "succeeded")
  <2>1. CASE batchPhase = "raised"
    <3>1. CallSound(j)'
      BY <1>0, <1>1, <1>2, <2>1 DEF CallSound, Dispatching
    <3> QED BY <1>1, <3>1 DEF OpenCall
  <2>2. CASE batchPhase # "raised"
    BY <1>0, <1>1, <1>2, <1>5, <2>2 DEF CallSound, Dispatching, OpenCall, AtWork
  <2> QED BY <2>1, <2>2
<1>9. EveryCallAnswered' /\ EffectTold' /\ AdmittedIsSafe'
  BY <1>0, <1>1, <1>2 DEF EveryCallAnswered, EffectTold, AdmittedIsSafe
<1>10. OperationsSettled'
  BY <1>0, <1>1, <1>2, <1>5, <1>8 DEF OperationsSettled, OpenCall
<1> QED BY <1>2, <1>3, <1>6, <1>7, <1>8, <1>9, <1>10 DEF BatchInv

\* The sequences the model may send.
LEMMA BatchesAreSequences ==
    ASSUME batch \in Batches
    PROVE  batch \in Seq(CallRecords)
<1>1. ASSUME NEW c \in [id : {1}, tool : Tools, args : Arguments] PROVE c \in CallRecords
  BY DEF CallRecords
<1>2. ASSUME NEW d \in [id : {1, 2}, tool : Tools, args : {"plain", "quoted", "unfit"}] PROVE d \in CallRecords
  BY DEF CallRecords, Arguments
<1>3. CASE batch \in {<<c>> : c \in [id : {1}, tool : Tools, args : Arguments]}
  <2>1. PICK c \in [id : {1}, tool : Tools, args : Arguments] : batch = <<c>>
    BY <1>3
  <2> QED BY <1>1, <2>1
<1>4. CASE batch \in {<<c, d>> : c \in [id : {1}, tool : Tools, args : Arguments],
                                 d \in [id : {1, 2}, tool : Tools, args : {"plain", "quoted", "unfit"}]}
  <2>1. PICK c \in [id : {1}, tool : Tools, args : Arguments],
             d \in [id : {1, 2}, tool : Tools, args : {"plain", "quoted", "unfit"}] : batch = <<c, d>>
    BY <1>4
  <2> QED BY <1>1, <1>2, <2>1
<1>5. CASE batch \in LongBatches
  BY <1>5, ExecutorAssumption
<1> QED BY <1>3, <1>4, <1>5 DEF Batches

\* A new batch.
LEMMA BatchStart ==
    ASSUME ExecInit
    PROVE  BatchInv
<1>1. /\ batch \in Seq(CallRecords) /\ batchPhase = "admit" /\ halted = "no" /\ gate = TRUE
      /\ nextCall = 1 /\ approval = "none" /\ reply = NoReply
      /\ at = [w \in ExecWorkers |-> IdleWorker]
      /\ ran = [i \in Indices |-> "none"] /\ operation = [i \in Indices |-> "none"]
      /\ callReceipts = [i \in Indices |-> "none"] /\ completed = [i \in Indices |-> 0]
  BY BatchesAreSequences DEF ExecInit
<1>2. Count \in Nat /\ \A i \in Indices : i \in Nat /\ i >= 1 /\ ~(i < 1)
  BY <1>1 DEF Count, Indices
<1>3. ExecTypeOK
  <2>1. at \in [ExecWorkers -> [stage : Busy \cup {"idle", "done"}, call : 0..Count]]
    BY <1>1, <1>2 DEF IdleWorker
  <2>2. reply \in [outcome : Codes, effect : {"unknown", "not_started", "committed"}]
    BY <1>1 DEF NoReply, Codes
  <2>3. nextCall \in 1..(Count + 1)
    BY <1>1, <1>2
  <2> QED BY <1>1, <2>1, <2>2, <2>3 DEF ExecTypeOK, Codes
<1>4. \A w \in ExecWorkers : ~AtWork(w)
  BY <1>1 DEF AtWork, Busy, IdleWorker
<1>5. \A w \in ExecWorkers : WorkerSound(w)
  BY <1>4 DEF WorkerSound
<1>6. PhaseSound
  BY <1>1 DEF PhaseSound, Dispatching
<1>7. \A i \in Indices : CallSound(i)
  BY <1>1, <1>2 DEF CallSound, Dispatching, OpenCall
<1>8. EveryCallAnswered /\ EffectTold /\ AdmittedIsSafe
  BY <1>1 DEF EveryCallAnswered, EffectTold, AdmittedIsSafe
<1>9. OperationsSettled
  BY <1>1 DEF OperationsSettled, OpenCall, Ended
<1> QED BY <1>3, <1>5, <1>6, <1>7, <1>8, <1>9 DEF BatchInv

\* Every step of a batch.
LEMMA BatchNext ==
    ASSUME BatchInv, [ExecNext]_execVars
    PROVE  BatchInv'
<1>1. ASSUME NEW w \in ExecWorkers,
             Take(w) \/ StartCall(w) \/ Scope(w) \/ Approved(w) \/ Rescope(w) \/ HandlerStopped(w)
             \/ HandlerSucceeds(w) \/ HandlerFails(w) \/ HandlerControl(w) \/ SinkFails(w)
      PROVE  BatchInv'
  BY <1>1, TakeStep, StartCallStep, ScopeStep, ApprovedStep, RescopeStep, HandlerEnds, SucceedsStep
<1>2. ASSUME (\E d \in ApprovalDecisions : Resolve(d)) \/ ExpireApproval \/ CancelPending \/ Unavailable
      PROVE  BatchInv'
  <2>1. \E d \in ApprovalDecisions : SettleApproval(d)
    BY <1>2 DEF Resolve, ExpireApproval, CancelPending, Unavailable, ApprovalDecisions
  <2> QED BY <2>1, AroundStep
<1>3. ASSUME NEW i \in Indices, TakesEffect(i) PROVE BatchInv'
  BY <1>3, EffectStep
<1>4. CASE ExecutorStep
  BY <1>1, <1>4, AdmitStep, JoinStep, AroundStep DEF ExecutorStep
<1>5. CASE Handlers
  BY <1>1, <1>3, <1>5 DEF Handlers
<1>6. CASE Around
  BY <1>2, <1>6, AbandonStep, AroundStep DEF Around
<1>7. CASE UNCHANGED execVars
  BY <1>7, AroundStep
<1> QED BY <1>4, <1>5, <1>6, <1>7 DEF ExecNext

\* BatchInvariant: whatever the model sends and in whatever order the workers, the
\* approval's decisions, the stop signal and the failures come, every announced
\* call of a batch is answered once and its operation settled, only safe calls
\* overlap, and an effect is never reported away (CoreToolExecutor.execute_batch).
THEOREM BatchInvariant == ExecSpec => []BatchInv
BY BatchStart, BatchNext, PTL DEF ExecSpec

\* A handler begins only out of the second gate, or after an approval and a
\* second validation of its scope.
LEMMA HandlerBegins ==
    ASSUME BatchInv, [ExecNext]_execVars, NEW i \in Indices, ran[i] = "none", ran'[i] # "none"
    PROVE  /\ ~Halted /\ ran'[i] = "running"
           /\ \E w \in ExecWorkers : /\ at[w].call = i
                                     /\ \/ at[w].stage = "scope" /\ gate /\ Tool(i) # "confirm"
                                        \/ at[w].stage = "rescope"
<1>0. ran \in [Indices -> {"none", "running", "effected", "returned"}]
  BY DEF BatchInv, ExecTypeOK
<1>1. ran' # ran
  OBVIOUS
<1>2. ASSUME NEW j \in Indices, TakesEffect(j) PROVE FALSE
  BY <1>0, <1>2 DEF TakesEffect
<1>3. ASSUME NEW w \in ExecWorkers, HandlerSucceeds(w) PROVE FALSE
  <2>1. ran' = [ran EXCEPT ![at[w].call] = IF @ = "running" THEN "returned" ELSE @]
    BY <1>3 DEF HandlerSucceeds
  <2> QED BY <1>0, <2>1
<1>4. PICK w \in ExecWorkers : Scope(w) \/ Rescope(w)
  <2>1. CASE ExecutorStep
    BY <1>1, <2>1 DEF ExecutorStep, AdmitBatch, Join, ReleaseOperations, Take, StartCall, Approved, HandlerStopped
  <2>2. CASE Handlers
    BY <1>1, <1>2, <1>3, <2>2 DEF Handlers, HandlerFails, HandlerControl, SinkFails
  <2>3. CASE Around
    BY <1>1, <2>3 DEF Around, HaltRun, Resolve, ExpireApproval, CancelPending, Unavailable, SettleApproval, Abandon
  <2>4. CASE UNCHANGED execVars
    BY <1>1, <2>4 DEF execVars
  <2> QED BY <2>1, <2>2, <2>3, <2>4 DEF ExecNext
<1>5. CASE Scope(w)
  <2>1. /\ ran' = [ran EXCEPT ![at[w].call] = "running"] /\ ~Halted /\ gate
        /\ Tool(at[w].call) # "confirm" /\ at[w].stage = "scope"
    BY <1>1, <1>5 DEF Scope
  <2> QED BY <1>0, <2>1
<1>6. CASE Rescope(w)
  <2>1. ran' = [ran EXCEPT ![at[w].call] = "running"] /\ ~Halted /\ at[w].stage = "rescope"
    BY <1>1, <1>6 DEF Rescope
  <2> QED BY <1>0, <2>1
<1> QED BY <1>4, <1>5, <1>6

\* A decision is not taken back: only a pending approval is settled, and no call
\* that needs one comes after it.
LEMMA DecisionKept ==
    ASSUME BatchInv, [ExecNext]_execVars, approval \in ApprovalDecisions
    PROVE  approval' = approval
<1>0. approval \notin {"none", "pending"}
  BY DEF ApprovalDecisions
<1>1. ASSUME NEW w \in ExecWorkers, Scope(w) PROVE approval' = approval
  <2>1. approval = "none"
    BY <1>1, WorkerFacts DEF Scope, AtWork, Busy
  <2> QED BY <1>0, <2>1
<1>2. CASE ExecutorStep
  BY <1>1, <1>2 DEF ExecutorStep, AdmitBatch, Join, ReleaseOperations, Take, StartCall, Approved, Rescope, HandlerStopped
<1>3. CASE Handlers
  BY <1>3 DEF Handlers, TakesEffect, HandlerSucceeds, HandlerFails, HandlerControl, SinkFails
<1>4. CASE Around
  BY <1>0, <1>4 DEF Around, HaltRun, Resolve, ExpireApproval, CancelPending, Unavailable, SettleApproval, Abandon
<1>5. CASE UNCHANGED execVars
  BY <1>5 DEF execVars
<1> QED BY <1>2, <1>3, <1>4, <1>5 DEF ExecNext

\* BatchStepsHold: once a call of a batch has failed, was declined or cancelled no
\* other handler of it begins, and none begins after the stop; the first decision
\* on an approval counts and a handler that needs one waits for "approved"
\* (_execute_parallel's gate, InMemoryApprovalGateway._settle).
THEOREM BatchStepsHold == ExecSpec => BatchSteps
<1>1. ASSUME BatchInv, [ExecNext]_execVars
      PROVE  NoStartAfterFailure /\ DecisionStands
  <2>1. ASSUME NEW i \in Indices, ran[i] = "none", ran'[i] # "none"
        PROVE  /\ \A j \in Indices : callReceipts[j] \in Ended \cup {"none"}
               /\ ~Halted /\ (Tool(i) = "confirm" => approval = "approved")
    <3>1. ~Halted
      BY <1>1, <2>1, HandlerBegins
    <3>2. PICK w \in ExecWorkers : /\ at[w].call = i
                                   /\ \/ at[w].stage = "scope" /\ gate /\ Tool(i) # "confirm"
                                      \/ at[w].stage = "rescope"
      BY <1>1, <2>1, HandlerBegins
    <3>3. AtWork(w) /\ Dispatching /\ WorkerSound(w) /\ (batchPhase = "serial" => gate)
      BY <1>1, <3>2, WorkerFacts DEF AtWork, Busy
    <3>4. at[w].stage = "rescope" => gate /\ approval = "approved"
      <4>1. at[w].stage = "rescope" => Tool(i) = "confirm" /\ approval = "approved"
        BY <3>2, <3>3 DEF WorkerSound
      <4>2. Tool(i) = "confirm" => batchPhase = "serial"
        BY <1>1, <3>3 DEF BatchInv, PhaseSound, Dispatching
      <4> QED BY <3>3, <4>1, <4>2
    <3>5. \A j \in Indices : callReceipts[j] \in Ended \cup {"none"}
      BY <1>1, <3>2, <3>3, <3>4 DEF BatchInv, CallSound
    <3> QED BY <3>1, <3>2, <3>4, <3>5
  <2>2. NoStartAfterFailure
    BY <2>1 DEF NoStartAfterFailure
  <2>3. DecisionStands
    BY <1>1, <2>1, DecisionKept DEF DecisionStands
  <2> QED BY <2>2, <2>3
<1> QED BY <1>1, BatchInvariant, PTL DEF ExecSpec, BatchSteps

-----------------------------------------------------------------------------
(* The scans of the recovery workers.                                      *)

\* Ascending lists a finite set of numbers, each once and in order.
LEMMA AscendingLists ==
    ASSUME NEW S \in SUBSET Nat, IsFiniteSet(S)
    PROVE  /\ Cardinality(S) \in Nat
           /\ Ascending(S) \in [1..Cardinality(S) -> S]
           /\ \A i, j \in 1..Cardinality(S) : i < j => Ascending(S)[i] < Ascending(S)[j]
           /\ \A n \in S : \E i \in 1..Cardinality(S) : Ascending(S)[i] = n
<1>0. PICK N \in Nat : N = Cardinality(S)
  BY FS_CardinalityType
<1>1. PICK below : below = [n \in S |-> {m \in S : m < n}]
  OBVIOUS
<1>2. PICK rank : rank = [n \in S |-> Cardinality(below[n])]
  OBVIOUS
<1>16. \A n \in S : n \in Nat
  OBVIOUS
<1>3. ASSUME NEW n \in S
      PROVE  IsFiniteSet(below[n]) /\ rank[n] \in Nat /\ rank[n] < N
  <2>1. below[n] \in SUBSET S /\ n \notin below[n]
    BY <1>1
  <2>2. IsFiniteSet(below[n]) /\ rank[n] =< N /\ (N = rank[n] => S = below[n])
    BY <1>0, <1>2, <2>1, FS_Subset
  <2>3. rank[n] \in Nat
    BY <1>2, <2>2, FS_CardinalityType
  <2>4. N # rank[n]
    BY <2>1, <2>2
  <2> QED BY <2>2, <2>3, <2>4
<1>4. ASSUME NEW m \in S, NEW n \in S, m < n
      PROVE  rank[m] < rank[n]
  <2>1. \A x \in S : x < m => x < n
    BY <1>16, <1>4
  <2>6. below[m] \in SUBSET below[n]
    BY <1>1, <2>1
  <2>2. m \in below[n] /\ m \notin below[m]
    BY <1>1, <1>4
  <2>3. IsFiniteSet(below[n]) /\ rank[m] \in Nat /\ rank[n] \in Nat
    BY <1>3
  <2>4. rank[m] =< rank[n] /\ (rank[n] = rank[m] => below[n] = below[m])
    BY <1>2, <2>6, <2>3, FS_Subset
  <2>5. rank[n] # rank[m]
    BY <2>2, <2>4
  <2> QED BY <2>3, <2>4, <2>5
<1>5. PICK f : f = [n \in S |-> rank[n] + 1]
  OBVIOUS
<1>6. f \in Injection(S, 1..N)
  <2>1. f \in [S -> 1..N]
    BY <1>3, <1>5
  <2>2. \A m, n \in S : f[m] = f[n] => m = n
    <3> SUFFICES ASSUME NEW m \in S, NEW n \in S, m # n PROVE f[m] # f[n]
      OBVIOUS
    <3>1. m < n \/ n < m
      OBVIOUS
    <3>2. rank[m] # rank[n] /\ rank[m] \in Nat /\ rank[n] \in Nat
      BY <1>3, <1>4, <3>1
    <3> QED BY <1>5, <3>2
  <2> QED BY <2>1, <2>2 DEF Injection, IsInjective
<1>7. f \in Surjection(S, 1..N)
  <2>1. IsFiniteSet(1..N) /\ Cardinality(1..N) = N
    BY FS_Interval
  <2> QED BY <1>0, <1>6, <2>1, FS_Injection
<1>8. \A i \in 1..N : \E n \in S : rank[n] = i - 1
  <2> SUFFICES ASSUME NEW i \in 1..N PROVE \E n \in S : rank[n] = i - 1
    OBVIOUS
  <2>1. PICK n \in S : f[n] = i
    BY <1>7 DEF Surjection
  <2> QED BY <1>3, <1>5, <2>1
<1>9. PICK s : s = [i \in 1..N |-> CHOOSE n \in S : rank[n] = i - 1]
  OBVIOUS
<1>10. s = Ascending(S)
  <2>1. \A i \in 1..N : (CHOOSE n \in S : rank[n] = i - 1)
                           = CHOOSE n \in S : Cardinality({m \in S : m < n}) = i - 1
    <3> SUFFICES ASSUME NEW i \in 1..N
                 PROVE  (CHOOSE n \in S : rank[n] = i - 1)
                           = CHOOSE n \in S : Cardinality({m \in S : m < n}) = i - 1
      OBVIOUS
    <3>1. \A n \in S : rank[n] = Cardinality({m \in S : m < n})
      BY <1>1, <1>2
    <3> QED BY <3>1
  <2>2. [i \in 1..N |-> CHOOSE n \in S : rank[n] = i - 1]
           = [i \in 1..N |-> CHOOSE n \in S : Cardinality({m \in S : m < n}) = i - 1]
    BY <2>1
  <2> QED BY <1>0, <1>9, <2>2 DEF Ascending
<1>11. \A i \in 1..N : s[i] \in S /\ rank[s[i]] = i - 1
  BY <1>8, <1>9
<1>12. s \in [1..N -> S]
  BY <1>9, <1>11
<1>13. ASSUME NEW i \in 1..N, NEW j \in 1..N, i < j
       PROVE  s[i] < s[j]
  <2>1. s[i] \in S /\ s[j] \in S /\ rank[s[i]] = i - 1 /\ rank[s[j]] = j - 1
    BY <1>11
  <2>2. s[i] # s[j]
    BY <1>13, <2>1
  <2>3. s[j] < s[i] => rank[s[j]] < rank[s[i]]
    BY <1>4, <2>1
  <2>4. ~(s[j] < s[i])
    BY <1>13, <2>1, <2>3
  <2>5. s[i] \in Nat /\ s[j] \in Nat
    BY <1>16, <2>1
  <2> QED BY <2>2, <2>4, <2>5
<1>14. ASSUME NEW n \in S
       PROVE  \E i \in 1..N : s[i] = n
  <2>1. PICK i \in 1..N : i = rank[n] + 1
    BY <1>3
  <2>2. s[i] \in S /\ rank[s[i]] = rank[n] /\ rank[n] \in Nat
    BY <1>3, <1>11, <2>1
  <2>3. (s[i] < n => rank[s[i]] < rank[n]) /\ (n < s[i] => rank[n] < rank[s[i]])
    BY <1>4, <2>2
  <2>4. s[i] \in Nat /\ n \in Nat
    BY <1>16, <2>2
  <2>5. ~(s[i] < n) /\ ~(n < s[i])
    BY <2>2, <2>3
  <2>6. s[i] = n
    BY <2>4, <2>5
  <2> QED BY <2>6
<1> QED BY <1>0, <1>10, <1>12, <1>13, <1>14

\* As a sequence.
LEMMA AscendingSeq ==
    ASSUME NEW S \in SUBSET Nat, IsFiniteSet(S)
    PROVE  /\ Ascending(S) \in Seq(S) /\ IsInjective(Ascending(S))
           /\ Len(Ascending(S)) = Cardinality(S) /\ Len(Ascending(S)) \in Nat
           /\ \A i, j \in 1..Len(Ascending(S)) : i < j => Ascending(S)[i] < Ascending(S)[j]
           /\ \A n \in S : \E i \in 1..Len(Ascending(S)) : Ascending(S)[i] = n
<1>1. PICK s : s = Ascending(S)
  OBVIOUS
<1>2. PICK n \in Nat : n = Cardinality(S)
  BY AscendingLists
<1>3. /\ s \in [1..n -> S]
      /\ \A i, j \in 1..n : i < j => s[i] < s[j]
      /\ \A m \in S : \E i \in 1..n : s[i] = m
  BY <1>1, <1>2, AscendingLists
<1>4. s \in Seq(S) /\ Len(s) = n
  BY <1>3
<1>5. IsInjective(s)
  <2> SUFFICES ASSUME NEW i \in 1..n, NEW j \in 1..n, s[i] = s[j] PROVE i = j
    BY <1>3 DEF IsInjective
  <2>1. s[i] \in Nat /\ s[j] \in Nat
    BY <1>3
  <2>2. ~(i < j) /\ ~(j < i)
    BY <1>3, <2>1
  <2> QED BY <2>2
<1> QED BY <1>1, <1>2, <1>3, <1>4, <1>5

\* Picked takes each place of a sequence once.
LEMMA PickedSeq ==
    ASSUME NEW seq \in Seq(RunIds), IsInjective(seq), NEW set
    PROVE  /\ Picked(seq, set) \in Seq(RunIds) /\ IsInjective(Picked(seq, set))
           /\ \A k \in DOMAIN Picked(seq, set) :
                 Picked(seq, set)[k] \in set /\ Picked(seq, set)[k] \in ToSet(seq)
<1> DEFINE P == {i \in DOMAIN seq : seq[i] \in set}
<1>1. P \in SUBSET Nat /\ IsFiniteSet(P)
  <2>1. Len(seq) \in Nat /\ DOMAIN seq = 1..Len(seq)
    BY LenProperties
  <2>2. IsFiniteSet(1..Len(seq)) /\ P \in SUBSET (1..Len(seq))
    BY <2>1, FS_Interval
  <2> QED BY <2>1, <2>2, FS_Subset
<1>2. PICK a : a = Ascending(P)
  OBVIOUS
<1>3. a \in Seq(P) /\ IsInjective(a)
  BY <1>1, <1>2, AscendingSeq
<1>4. PICK p : p = [k \in DOMAIN a |-> seq[a[k]]]
  OBVIOUS
<1>5. p = Picked(seq, set)
  BY <1>2, <1>4 DEF Picked
<1>6. Len(a) \in Nat /\ DOMAIN a = 1..Len(a) /\ \A k \in 1..Len(a) : a[k] \in P
  BY <1>3, LenProperties, ElementOfSeq
<1>7. \A k \in 1..Len(a) : a[k] \in DOMAIN seq /\ seq[a[k]] \in RunIds /\ seq[a[k]] \in set
  BY <1>6, LenProperties, ElementOfSeq
<1>8. p \in [1..Len(a) -> RunIds] /\ \A k \in 1..Len(a) : p[k] \in set /\ p[k] \in ToSet(seq)
  BY <1>4, <1>6, <1>7 DEF ToSet
<1>9. IsInjective(p)
  BY <1>3, <1>4, <1>6, <1>7 DEF IsInjective
<1>10. p \in Seq(RunIds) /\ DOMAIN p = 1..Len(a)
  BY <1>6, <1>8, SeqDef
<1> QED BY <1>5, <1>8, <1>9, <1>10

\* Two sequences without repetitions and without a common element.
LEMMA ConcatInjective ==
    ASSUME NEW p \in Seq(RunIds), NEW q \in Seq(RunIds), IsInjective(p), IsInjective(q),
           \A i \in DOMAIN p, j \in DOMAIN q : p[i] # q[j]
    PROVE  /\ p \o q \in Seq(RunIds) /\ IsInjective(p \o q)
           /\ \A i \in DOMAIN (p \o q) : (p \o q)[i] \in ToSet(p) \cup ToSet(q)
<1>1. /\ Len(p) \in Nat /\ Len(q) \in Nat /\ DOMAIN p = 1..Len(p) /\ DOMAIN q = 1..Len(q)
  BY LenProperties
<1>2. PICK c : c = p \o q
  OBVIOUS
<1>3. /\ c \in Seq(RunIds) /\ Len(c) = Len(p) + Len(q)
      /\ \A i \in 1..Len(c) : c[i] = IF i =< Len(p) THEN p[i] ELSE q[i - Len(p)]
  BY <1>2, ConcatProperties
<1>4. DOMAIN c = 1..Len(c)
  BY <1>3, LenProperties
<1>5. ASSUME NEW i \in 1..Len(c), NEW j \in 1..Len(c), c[i] = c[j]
      PROVE  i = j
  <2>1. CASE i =< Len(p) /\ j =< Len(p)
    BY <1>1, <1>3, <1>5, <2>1 DEF IsInjective
  <2>2. CASE i > Len(p) /\ j > Len(p)
    <3>1. i - Len(p) \in DOMAIN q /\ j - Len(p) \in DOMAIN q /\ q[i - Len(p)] = q[j - Len(p)]
      BY <1>1, <1>3, <1>5, <2>2
    <3>2. i - Len(p) = j - Len(p)
      BY <3>1 DEF IsInjective
    <3> QED BY <1>1, <1>3, <3>2
  <2>3. CASE i =< Len(p) /\ j > Len(p)
    <3>1. i \in DOMAIN p /\ j - Len(p) \in DOMAIN q /\ p[i] = q[j - Len(p)]
      BY <1>1, <1>3, <1>5, <2>3
    <3> QED BY <3>1
  <2>4. CASE i > Len(p) /\ j =< Len(p)
    <3>1. j \in DOMAIN p /\ i - Len(p) \in DOMAIN q /\ p[j] = q[i - Len(p)]
      BY <1>1, <1>3, <1>5, <2>4
    <3> QED BY <3>1
  <2> QED BY <1>1, <1>3, <2>1, <2>2, <2>3, <2>4
<1>6. ASSUME NEW i \in 1..Len(c)
      PROVE  c[i] \in ToSet(p) \cup ToSet(q)
  <2>1. CASE i =< Len(p)
    <3>1. i \in DOMAIN p /\ c[i] = p[i]
      BY <1>1, <1>3, <2>1
    <3> QED BY <3>1 DEF ToSet
  <2>2. CASE i > Len(p)
    <3>1. i - Len(p) \in DOMAIN q /\ c[i] = q[i - Len(p)]
      BY <1>1, <1>3, <2>2
    <3> QED BY <3>1 DEF ToSet
  <2> QED BY <1>1, <1>3, <2>1, <2>2
<1> QED BY <1>2, <1>3, <1>4, <1>5, <1>6 DEF IsInjective

\* A worker's queue holds what was found, each Run once.
LEMMA QueuedSeq ==
    ASSUME NEW s \in ScanWorker, IsInjective(s.queue), NEW found \in Seq(RunIds), IsInjective(found)
    PROVE  /\ Queued(s, found) \in Seq(RunIds) /\ IsInjective(Queued(s, found))
           /\ s.durable => Queued(s, found) = found
           /\ \A i \in DOMAIN Queued(s, found) : Queued(s, found)[i] \in ToSet(found)
<1>1. s.queue \in Seq(RunIds) /\ s.durable \in BOOLEAN
  BY DEF ScanWorker
<1>2. PICK kept : kept = Picked(s.queue, ToSet(found))
  OBVIOUS
<1>3. PICK rest : rest = Picked(found, RunIds \ ToSet(kept))
  OBVIOUS
<1>4. kept \in Seq(RunIds) /\ IsInjective(kept) /\ \A k \in DOMAIN kept : kept[k] \in ToSet(found)
  BY <1>1, <1>2, PickedSeq
<1>5. /\ rest \in Seq(RunIds) /\ IsInjective(rest)
      /\ \A j \in DOMAIN rest : rest[j] \notin ToSet(kept) /\ rest[j] \in ToSet(found)
  BY <1>3, PickedSeq
<1>6. \A i \in DOMAIN kept, j \in DOMAIN rest : kept[i] # rest[j]
  BY <1>5 DEF ToSet
<1>7. PICK c : c = kept \o rest
  OBVIOUS
<1>8. /\ c \in Seq(RunIds) /\ IsInjective(c)
      /\ \A i \in DOMAIN c : c[i] \in ToSet(kept) \cup ToSet(rest)
  BY <1>4, <1>5, <1>6, <1>7, ConcatInjective
<1>9. ToSet(kept) \subseteq ToSet(found) /\ ToSet(rest) \subseteq ToSet(found)
  <2>1. ToSet(kept) \subseteq ToSet(found)
    BY <1>4 DEF ToSet
  <2>2. ToSet(rest) \subseteq ToSet(found)
    BY <1>5 DEF ToSet
  <2> QED BY <2>1, <2>2
<1>10. Queued(s, found) = IF s.durable THEN found ELSE c
  BY <1>2, <1>3, <1>7 DEF Queued
<1>11. \A i \in DOMAIN found : found[i] \in ToSet(found)
  BY DEF ToSet
<1> QED BY <1>1, <1>8, <1>9, <1>10, <1>11

\* What was visited goes to the back.
LEMMA RotatedSeq ==
    ASSUME NEW s \in ScanWorker, IsInjective(s.queue), s.visited =< Len(s.queue)
    PROVE  Rotated(s) \in Seq(RunIds) /\ IsInjective(Rotated(s))
<1>1. PICK q : q = s.queue
  OBVIOUS
<1>2. PICK v : v = s.visited
  OBVIOUS
<1>3. q \in Seq(RunIds) /\ IsInjective(q) /\ v \in Nat /\ Len(q) \in Nat /\ DOMAIN q = 1..Len(q)
  <2>1. q \in Seq(RunIds) /\ v \in Nat
    BY <1>1, <1>2 DEF ScanWorker
  <2> QED BY <1>1, <2>1, LenProperties
<1>4. v =< Len(q)
  BY <1>1, <1>2
<1>5. PICK p : p = SubSeq(q, v + 1, Len(q))
  OBVIOUS
<1>6. PICK r : r = SubSeq(q, 1, v)
  OBVIOUS
<1>7. /\ p \in Seq(RunIds) /\ Len(p) = Len(q) - v
      /\ \A i \in 1..Len(p) : p[i] = q[v + i]
  <2>1. \A i \in (v + 1)..Len(q) : q[i] \in RunIds
    BY <1>3, ElementOfSeq
  <2>2. /\ p \in Seq(RunIds) /\ Len(p) = IF v + 1 =< Len(q) THEN Len(q) - (v + 1) + 1 ELSE 0
        /\ \A i \in 1..(Len(q) - (v + 1) + 1) : p[i] = q[(v + 1) + i - 1]
    BY <1>3, <1>5, <2>1, SubSeqProperties
  <2>5. PICK n \in Nat : n = Len(q)
    BY <1>3
  <2>6. v \in Nat /\ v =< n
    BY <1>3, <1>4, <2>5
  <2>3. Len(p) = n - v
    <3>1. (IF v + 1 =< n THEN n - (v + 1) + 1 ELSE 0) = n - v
      BY <2>6
    <3> QED BY <2>2, <2>5, <3>1
  <2>4. ASSUME NEW i \in 1..Len(p) PROVE p[i] = q[v + i]
    <3>1. i \in 1..(n - v)
      BY <2>3
    <3>2. (v + 1) + i - 1 = v + i /\ i \in 1..(n - (v + 1) + 1)
      BY <2>6, <3>1
    <3> QED BY <2>2, <2>5, <3>2
  <2> QED BY <2>2, <2>3, <2>4, <2>5
<1>8. r \in Seq(RunIds) /\ Len(r) = v /\ \A i \in 1..Len(r) : r[i] = q[i]
  BY <1>3, <1>4, <1>6
<1>9. DOMAIN p = 1..(Len(q) - v) /\ DOMAIN r = 1..v
  BY <1>7, <1>8, LenProperties
<1>10. IsInjective(p)
  <2> SUFFICES ASSUME NEW i \in DOMAIN p, NEW j \in DOMAIN p, p[i] = p[j] PROVE i = j
    BY DEF IsInjective
  <2>1. v + i \in DOMAIN q /\ v + j \in DOMAIN q /\ q[v + i] = q[v + j]
    BY <1>3, <1>4, <1>7, <1>9
  <2>2. v + i = v + j
    BY <1>3, <2>1 DEF IsInjective
  <2> QED BY <1>3, <1>9, <2>2
<1>11. IsInjective(r)
  BY <1>3, <1>4, <1>8, <1>9 DEF IsInjective
<1>12. ASSUME NEW i \in DOMAIN p, NEW j \in DOMAIN r
       PROVE  p[i] # r[j]
  <2>0. PICK n \in Nat : n = Len(q)
    BY <1>3
  <2>1. i \in 1..(n - v) /\ j \in 1..v /\ v =< n /\ v \in Nat
    BY <1>3, <1>4, <1>9, <2>0
  <2>2. v + i \in 1..n /\ j \in 1..n /\ v + i # j
    BY <2>1
  <2>3. p[i] = q[v + i] /\ r[j] = q[j]
    BY <1>7, <1>8, <2>0, <2>1
  <2> QED BY <1>3, <2>0, <2>2, <2>3 DEF IsInjective
<1>13. Rotated(s) = p \o r
  BY <1>1, <1>2, <1>5, <1>6 DEF Rotated
<1> QED BY <1>7, <1>8, <1>10, <1>11, <1>12, <1>13, ConcatInjective

\* The fields of a worker.
Stages == Scanning \cup {"off", "wait", "discover", "page"}

LEMMA ScannerFields ==
    ASSUME NEW s \in ScanWorker
    PROVE  /\ s.durable \in BOOLEAN /\ s.scheduled \in BOOLEAN /\ s.stop \in BOOLEAN
           /\ s.queue \in Seq(RunIds) /\ s.left \in Seq(RunIds) /\ s.visited \in Nat
           /\ s.done \in Seq(RunIds) /\ s.ids \in Seq(RunIds) /\ s.last \in BOOLEAN
           /\ s.run \in RunIds \cup {NoId} /\ s.token \in Nat /\ s.seen \in Hint \cup {NoHint}
           /\ s.failed \in BOOLEAN
           /\ s.row \in [fresh : BOOLEAN, after : RunIds \cup {NoId}]
           /\ s.at \in Stages
BY DEF ScanWorker, Stages

\* What a scan's loop does to the record of its worker.
LEMMA EndingTyped ==
    ASSUME NEW s \in ScanWorker, NEW stage \in Stages
    PROVE  /\ Ending(s, stage) \in ScanWorker
           /\ Ending(s, stage).at = stage /\ Ending(s, stage).left = <<>>
           /\ Ending(s, stage).durable = s.durable /\ Ending(s, stage).scheduled = s.scheduled
           /\ Ending(s, stage).queue = s.queue /\ Ending(s, stage).visited = s.visited
           /\ Ending(s, stage).done = s.done /\ Ending(s, stage).row = s.row
           /\ Ending(s, stage).ids = s.ids /\ Ending(s, stage).last = s.last
<1>1. ASSUME NEW left \in Seq(RunIds), NEW run \in RunIds \cup {NoId}, NEW token \in Nat,
             NEW seen \in Hint \cup {NoHint}, NEW failed \in BOOLEAN
      PROVE  [s EXCEPT !.at = stage, !.left = left, !.run = run, !.token = token,
                       !.seen = seen, !.failed = failed] \in ScanWorker
  BY DEF ScanWorker, Stages
<1>2. <<>> \in Seq(RunIds) /\ NoId \in RunIds \cup {NoId} /\ 0 \in Nat
      /\ NoHint \in Hint \cup {NoHint} /\ FALSE \in BOOLEAN
  OBVIOUS
<1>3. Ending(s, stage) \in ScanWorker
  BY <1>1, <1>2 DEF Ending
<1> QED BY <1>3 DEF Ending, ScanWorker

Ahead(s, run, left) == [s EXCEPT !.at = "check", !.run = run, !.left = left, !.visited = @ + 1]

LEMMA AheadTyped ==
    ASSUME NEW s \in ScanWorker, NEW run \in RunIds, NEW left \in Seq(RunIds),
           NEW t, t = Ahead(s, run, left)
    PROVE  /\ t \in ScanWorker
           /\ t.at = "check" /\ t.left = left /\ t.run = run /\ t.visited = s.visited + 1
           /\ t.durable = s.durable /\ t.scheduled = s.scheduled /\ t.queue = s.queue
           /\ t.done = s.done /\ t.row = s.row /\ t.ids = s.ids /\ t.last = s.last
<1>1. ASSUME NEW stage \in Stages, NEW visited \in Nat, NEW r \in RunIds \cup {NoId}
      PROVE  [s EXCEPT !.at = stage, !.run = r, !.left = left, !.visited = visited] \in ScanWorker
  BY DEF ScanWorker, Stages
<1>2. "check" \in Stages /\ s.visited + 1 \in Nat /\ run \in RunIds \cup {NoId}
  BY ScannerFields DEF Stages, Scanning, Handling
<1>3. t \in ScanWorker
  BY <1>1, <1>2 DEF Ahead
<1> QED BY <1>3 DEF ScanWorker, Ahead

\* A batch that stands in line: the next candidate is the next of the page.
Lined(s) ==
    /\ IsInjective(s.queue) /\ Len(s.left) =< PerScan /\ s.visited + Len(s.left) =< Len(s.queue)
    /\ \A i \in 1..Len(s.left) : s.left[i] \in indexed
    /\ s.durable => /\ Len(s.done) + Len(s.left) =< Len(s.ids)
                    /\ \A i \in 1..Len(s.done) : s.done[i] = s.ids[i]
                    /\ \A i \in 1..Len(s.left) : s.left[i] = s.ids[Len(s.done) + i]
                    /\ s.ids = <<>> => s.last

\* The head of the loop goes to the next candidate or ends the scan.
LEMMA OnwardSound ==
    ASSUME NEW s \in ScanWorker, Lined(s)
    PROVE  /\ Onward(s) \in ScanWorker /\ QueueSound(Onward(s)) /\ PageSound(Onward(s))
           /\ Onward(s).at \in {"check", "ack"} /\ Onward(s).durable = s.durable
           /\ Onward(s).row = s.row /\ Onward(s).ids = s.ids
<1>0. /\ s.left \in Seq(RunIds) /\ s.done \in Seq(RunIds) /\ s.queue \in Seq(RunIds)
      /\ s.ids \in Seq(RunIds) /\ s.visited \in Nat /\ s.durable \in BOOLEAN
  BY ScannerFields
<1>1. PICK n \in Nat, d \in Nat, p \in Nat, v \in Nat, max \in Nat :
        n = Len(s.left) /\ d = Len(s.done) /\ p = Len(s.ids) /\ v = s.visited /\ max = PerScan
  BY <1>0, LenProperties, ScanAssumption
<1>2. PICK q \in Nat : q = Len(s.queue)
  BY <1>0, LenProperties
<1>3. /\ n =< max /\ v + n =< q /\ IsInjective(s.queue) /\ \A i \in 1..n : s.left[i] \in indexed
      /\ s.durable => /\ d + n =< p /\ (s.ids = <<>> => s.last)
                      /\ \A i \in 1..d : s.done[i] = s.ids[i]
                      /\ \A i \in 1..n : s.left[i] = s.ids[d + i]
  BY <1>1, <1>2 DEF Lined
<1>4. CASE s.stop \/ s.left = <<>>
  <2>1. PICK t : t = Ending(s, "ack")
    OBVIOUS
  <2>2. t = Onward(s)
    BY <1>4, <2>1 DEF Onward
  <2>3. "ack" \in Stages
    BY DEF Stages, Scanning
  <2>4. /\ t \in ScanWorker /\ t.at = "ack" /\ t.left = <<>> /\ t.durable = s.durable
        /\ t.queue = s.queue /\ t.visited = v /\ t.done = s.done /\ t.row = s.row
        /\ t.ids = s.ids /\ t.last = s.last
    BY <1>1, <2>1, <2>3, EndingTyped
  <2>5. Len(t.left) = 0 /\ Len(t.done) = d /\ Len(t.ids) = p /\ Len(t.queue) = q
    BY <1>1, <1>2, <2>4
  <2>6. v + 0 =< q /\ 0 =< max /\ (s.durable => d + 0 =< p) /\ d + 0 = d /\ 1..0 = {}
    BY <1>3
  <2>7. QueueSound(t)
    BY <1>1, <1>3, <2>4, <2>5, <2>6 DEF QueueSound, Handling
  <2>8. PageSound(t)
    BY <1>3, <2>4, <2>5, <2>6 DEF PageSound, Handling
  <2> QED BY <2>2, <2>4, <2>7, <2>8
<1>5. CASE ~(s.stop \/ s.left = <<>>)
  <2>1. PICK r : r = Head(s.left)
    OBVIOUS
  <2>2. PICK l : l = Tail(s.left)
    OBVIOUS
  <2>3. r \in RunIds /\ l \in Seq(RunIds) /\ r = s.left[1]
    BY <1>0, <1>5, <2>1, <2>2, HeadTailProperties
  <2>4. PICK m \in Nat : m = Len(l)
    BY <2>3, LenProperties
  <2>5. n = m + 1 /\ \A i \in 1..m : l[i] = s.left[i + 1]
    BY <1>0, <1>1, <1>5, <2>2, <2>4, HeadTailProperties
  <2>6. PICK t : t = Ahead(s, r, l)
    OBVIOUS
  <2>7. t = Onward(s)
    BY <1>5, <2>1, <2>2, <2>6 DEF Onward, Ahead
  <2>8. /\ t \in ScanWorker /\ t.at = "check" /\ t.left = l /\ t.run = r
        /\ t.visited = v + 1 /\ t.durable = s.durable /\ t.queue = s.queue
        /\ t.done = s.done /\ t.row = s.row /\ t.ids = s.ids /\ t.last = s.last
    BY <1>1, <2>3, <2>6, AheadTyped
  <2>9. Len(t.left) = m /\ Len(t.done) = d /\ Len(t.ids) = p /\ Len(t.queue) = q
    BY <1>1, <1>2, <2>4, <2>8
  <2>10. QueueSound(t)
    <3>1. m =< max /\ v + 1 + m =< q /\ 1 \in 1..n /\ \A i \in 1..m : i + 1 \in 1..n
      BY <1>3, <2>5
    <3>2. r \in indexed /\ \A i \in 1..m : l[i] \in indexed
      BY <1>3, <2>3, <2>5, <3>1
    <3> QED BY <1>1, <1>3, <2>8, <2>9, <3>1, <3>2 DEF QueueSound
  <2>11. PageSound(t)
    <3> SUFFICES ASSUME s.durable PROVE PageSound(t)
      BY <2>8 DEF PageSound
    <3>1. d + 1 + m =< p /\ 1 \in 1..n
      BY <1>3, <2>5
    <3>2. r = s.ids[d + 1]
      BY <1>3, <2>3, <3>1
    <3>3. ASSUME NEW i \in 1..m PROVE l[i] = s.ids[d + 1 + i]
      <4>1. i + 1 \in 1..n /\ d + (i + 1) = d + 1 + i
        BY <2>5
      <4> QED BY <1>3, <2>5, <4>1
    <3> QED BY <1>3, <2>8, <2>9, <3>1, <3>2, <3>3 DEF PageSound, Handling
  <2> QED BY <2>7, <2>8, <2>10, <2>11
<1> QED BY <1>4, <1>5

\* A scan that starts with what was found.
Batch(s, queue) ==
    [s EXCEPT !.queue = queue, !.visited = 0, !.done = <<>>,
              !.left = SubSeq(queue, 1, Smaller(PerScan, Len(queue)))]

LEMMA BatchLined ==
    ASSUME NEW s \in ScanWorker, NEW queue \in Seq(RunIds), IsInjective(queue),
           \A i \in DOMAIN queue : queue[i] \in indexed,
           s.durable => s.ids = queue /\ (s.ids = <<>> => s.last)
    PROVE  /\ Batch(s, queue) \in ScanWorker /\ Lined(Batch(s, queue))
           /\ Batch(s, queue).durable = s.durable /\ Batch(s, queue).row = s.row
           /\ Batch(s, queue).ids = s.ids
<1>1. PICK q \in Nat, max \in Nat : q = Len(queue) /\ max = PerScan
  BY LenProperties, ScanAssumption
<1>2. PICK n : n = Smaller(max, q)
  OBVIOUS
<1>3. n \in Nat /\ n =< max /\ n =< q
  BY <1>2 DEF Smaller
<1>4. PICK l : l = SubSeq(queue, 1, n)
  OBVIOUS
<1>5. l \in Seq(RunIds) /\ Len(l) = n /\ \A i \in 1..n : l[i] = queue[i]
  BY <1>1, <1>3, <1>4
<1>6. PICK u : u = Batch(s, queue)
  OBVIOUS
<1>7. u \in ScanWorker
  <2>1. ASSUME NEW visited \in Nat, NEW done \in Seq(RunIds)
        PROVE  [s EXCEPT !.queue = queue, !.visited = visited, !.done = done, !.left = l] \in ScanWorker
    BY <1>5 DEF ScanWorker
  <2>2. 0 \in Nat /\ <<>> \in Seq(RunIds)
    OBVIOUS
  <2> QED BY <1>1, <1>2, <1>4, <1>6, <2>1, <2>2 DEF Batch
<1>8. u.queue = queue /\ u.visited = 0 /\ u.done = <<>> /\ u.left = l /\ u.durable = s.durable
      /\ u.row = s.row /\ u.ids = s.ids /\ u.last = s.last
  BY <1>1, <1>2, <1>4, <1>6 DEF Batch, ScanWorker
<1>9. Len(u.done) = 0 /\ Len(u.left) = n /\ Len(u.queue) = q /\ 1..0 = {} /\ 0 + n =< q
  BY <1>1, <1>3, <1>5, <1>8
<1>10. s.durable => Len(u.ids) = q /\ \A i \in 1..n : l[i] = u.ids[0 + i]
  BY <1>1, <1>3, <1>5, <1>8
<1>11. \A i \in 1..n : u.left[i] \in indexed
  <2>1. \A i \in 1..n : i \in DOMAIN queue
    BY <1>1, <1>3, LenProperties
  <2> QED BY <1>5, <1>8, <2>1
<1>12. Lined(u)
  BY <1>1, <1>3, <1>8, <1>9, <1>10, <1>11 DEF Lined
<1> QED BY <1>6, <1>7, <1>8, <1>12

LEMMA StartedSound ==
    ASSUME NEW s \in ScanWorker, IsInjective(s.queue), NEW found \in Seq(RunIds), IsInjective(found),
           ToSet(found) \subseteq indexed,
           s.durable => s.ids = found /\ (s.ids = <<>> => s.last)
    PROVE  /\ Started(s, found) \in ScanWorker
           /\ QueueSound(Started(s, found)) /\ PageSound(Started(s, found))
           /\ Started(s, found).at \in {"check", "ack"} /\ Started(s, found).durable = s.durable
           /\ Started(s, found).row = s.row /\ Started(s, found).ids = s.ids
<1>1. PICK queue : queue = Queued(s, found)
  OBVIOUS
<1>2. /\ queue \in Seq(RunIds) /\ IsInjective(queue) /\ (s.durable => queue = found)
      /\ \A i \in DOMAIN queue : queue[i] \in indexed
  BY <1>1, QueuedSeq
<1>3. PICK u : u = Batch(s, queue)
  OBVIOUS
<1>4. u \in ScanWorker /\ Lined(u) /\ u.durable = s.durable /\ u.row = s.row /\ u.ids = s.ids
  BY <1>2, <1>3, BatchLined
<1>5. Started(s, found) = Onward(u)
  BY <1>1, <1>3 DEF Started, Batch
<1> QED BY <1>4, <1>5, OnwardSound

\* The lengths of a worker's sequences.
LEMMA WorkerLengths ==
    ASSUME NEW s \in ScanWorker
    PROVE  \E n, d, p, q, v \in Nat : /\ n = Len(s.left) /\ d = Len(s.done) /\ p = Len(s.ids)
                                     /\ q = Len(s.queue) /\ v = s.visited
BY ScannerFields, LenProperties

\* A candidate that is done with.
Noted(s) == [s EXCEPT !.done = Append(@, s.run), !.token = 0, !.seen = NoHint, !.failed = FALSE]

LEMMA NotedLined ==
    ASSUME NEW s \in ScanWorker, QueueSound(s), PageSound(s), s.at \in Handling,
           indexed \subseteq RunIds
    PROVE  /\ Noted(s) \in ScanWorker /\ Lined(Noted(s))
           /\ Noted(s).durable = s.durable /\ Noted(s).row = s.row /\ Noted(s).ids = s.ids
<1>1. PICK n, d, p, q, v \in Nat : /\ n = Len(s.left) /\ d = Len(s.done) /\ p = Len(s.ids)
                                  /\ q = Len(s.queue) /\ v = s.visited
  BY WorkerLengths
<1>2. s.run \in RunIds /\ s.done \in Seq(RunIds) /\ s.durable \in BOOLEAN
  BY ScannerFields DEF QueueSound
<1>3. PICK e : e = Append(s.done, s.run)
  OBVIOUS
<1>4. e \in Seq(RunIds) /\ Len(e) = d + 1 /\ (\A i \in 1..d : e[i] = s.done[i]) /\ e[d + 1] = s.run
  BY <1>1, <1>2, <1>3, AppendProperties
<1>5. PICK u : u = Noted(s)
  OBVIOUS
<1>6. u \in ScanWorker
  <2>1. ASSUME NEW token \in Nat, NEW seen \in Hint \cup {NoHint}, NEW failed \in BOOLEAN
        PROVE  [s EXCEPT !.done = e, !.token = token, !.seen = seen, !.failed = failed] \in ScanWorker
    BY <1>4 DEF ScanWorker
  <2>2. 0 \in Nat /\ NoHint \in Hint \cup {NoHint} /\ FALSE \in BOOLEAN
    OBVIOUS
  <2> QED BY <1>3, <1>5, <2>1, <2>2 DEF Noted
<1>7. /\ u.queue = s.queue /\ u.visited = v /\ u.done = e /\ u.left = s.left /\ u.durable = s.durable
      /\ u.row = s.row /\ u.ids = s.ids /\ u.last = s.last
  BY <1>1, <1>3, <1>5 DEF Noted, ScanWorker
<1>8. Len(u.left) = n /\ Len(u.done) = d + 1 /\ Len(u.ids) = p /\ Len(u.queue) = q
  BY <1>1, <1>4, <1>7
<1>9. IsInjective(u.queue) /\ n =< PerScan /\ v + n =< q /\ \A i \in 1..n : s.left[i] \in indexed
  BY <1>1, <1>7 DEF QueueSound
<1>10. s.durable => /\ d + 1 + n =< p /\ (\A i \in 1..d : s.done[i] = s.ids[i]) /\ s.run = s.ids[d + 1]
                    /\ (\A i \in 1..n : s.left[i] = s.ids[d + 1 + i]) /\ (s.ids = <<>> => s.last)
  BY <1>1 DEF PageSound, Scanning
<1>11. ASSUME s.durable, NEW i \in 1..(d + 1) PROVE e[i] = s.ids[i]
  <2>1. i \in 1..d \/ i = d + 1
    OBVIOUS
  <2> QED BY <1>4, <1>10, <1>11, <2>1
<1>12. Lined(u)
  BY <1>7, <1>8, <1>9, <1>10, <1>11 DEF Lined
<1> QED BY <1>5, <1>6, <1>7, <1>12

LEMMA ProcessedSound ==
    ASSUME NEW s \in ScanWorker, QueueSound(s), PageSound(s), s.at \in Handling,
           indexed \subseteq RunIds
    PROVE  /\ Processed(s) \in ScanWorker /\ QueueSound(Processed(s)) /\ PageSound(Processed(s))
           /\ Processed(s).at \in {"check", "ack"} /\ Processed(s).durable = s.durable
           /\ Processed(s).row = s.row /\ Processed(s).ids = s.ids
<1>1. Processed(s) = Onward(Noted(s))
  BY DEF Processed, Noted
<1> QED BY <1>1, NotedLined, OnwardSound

\* A scan that ends keeps what it processed.
LEMMA EndingSound ==
    ASSUME NEW s \in ScanWorker, QueueSound(s), PageSound(s), s.at \in Scanning, NEW stage \in {"ack", "raise"}
    PROVE  /\ Ending(s, stage) \in ScanWorker /\ QueueSound(Ending(s, stage)) /\ PageSound(Ending(s, stage))
           /\ Ending(s, stage).at = stage /\ Ending(s, stage).durable = s.durable
           /\ Ending(s, stage).row = s.row /\ Ending(s, stage).ids = s.ids
<1>1. PICK n, d, p, q, v \in Nat : /\ n = Len(s.left) /\ d = Len(s.done) /\ p = Len(s.ids)
                                  /\ q = Len(s.queue) /\ v = s.visited
  BY WorkerLengths
<1>2. stage \in Stages /\ stage \notin Handling /\ stage \in Scanning
  BY DEF Stages, Scanning, Handling
<1>3. PICK t : t = Ending(s, stage)
  OBVIOUS
<1>4. /\ t \in ScanWorker /\ t.at = stage /\ t.left = <<>> /\ t.durable = s.durable /\ t.queue = s.queue
      /\ t.visited = v /\ t.done = s.done /\ t.row = s.row /\ t.ids = s.ids /\ t.last = s.last
  BY <1>1, <1>2, <1>3, EndingTyped
<1>5. Len(t.left) = 0 /\ Len(t.done) = d /\ Len(t.ids) = p /\ Len(t.queue) = q
  BY <1>1, <1>4
<1>6. IsInjective(s.queue) /\ v + 0 =< q /\ 0 =< PerScan
  <2>1. v + n =< q
    BY <1>1 DEF QueueSound
  <2> QED BY <2>1, ScanAssumption DEF QueueSound
<1>7. QueueSound(t)
  BY <1>2, <1>4, <1>5, <1>6 DEF QueueSound
<1>8. s.durable => /\ d + 0 =< p /\ (\A i \in 1..d : s.done[i] = s.ids[i]) /\ (s.ids = <<>> => s.last)
  <2> SUFFICES ASSUME s.durable PROVE d + 0 =< p
    BY <1>1 DEF PageSound
  <2>1. PICK b \in {0, 1} : (d + b) + n =< p
    BY <1>1 DEF PageSound
  <2> QED BY <2>1
<1>9. PageSound(t)
  <2>1. 1..0 = {} /\ d + 0 = d
    OBVIOUS
  <2> QED BY <1>2, <1>4, <1>5, <1>8, <2>1 DEF PageSound
<1> QED BY <1>3, <1>4, <1>7, <1>9

\* A worker between two scans.
LEMMA AfterScanSound ==
    ASSUME NEW s \in ScanWorker, IsInjective(s.queue), s.visited =< Len(s.queue), NEW stage \in {"off", "wait"}
    PROVE  /\ AfterScan(s, stage) \in ScanWorker /\ QueueSound(AfterScan(s, stage)) /\ AfterScan(s, stage).at = stage
<1>1. PICK q : q = Rotated(s)
  OBVIOUS
<1>2. q \in Seq(RunIds) /\ IsInjective(q) /\ Len(q) \in Nat
  BY <1>1, RotatedSeq, LenProperties
<1>3. PICK t : t = AfterScan(s, stage)
  OBVIOUS
<1>4. t = [at |-> stage, durable |-> s.durable, scheduled |-> s.scheduled, stop |-> FALSE, queue |-> q,
           left |-> <<>>, visited |-> 0, done |-> <<>>, row |-> [fresh |-> FALSE, after |-> NoId],
           ids |-> <<>>, last |-> FALSE, run |-> NoId, token |-> 0, seen |-> NoHint, failed |-> FALSE]
  BY <1>1, <1>3 DEF AfterScan, OffDuty
<1>5. t \in ScanWorker
  <2>1. ASSUME NEW a \in Stages, NEW stop \in BOOLEAN, NEW left \in Seq(RunIds), NEW visited \in Nat,
               NEW done \in Seq(RunIds), NEW row \in [fresh : BOOLEAN, after : RunIds \cup {NoId}],
               NEW ids \in Seq(RunIds), NEW last \in BOOLEAN, NEW run \in RunIds \cup {NoId},
               NEW token \in Nat, NEW seen \in Hint \cup {NoHint}, NEW failed \in BOOLEAN
        PROVE  [at |-> a, durable |-> s.durable, scheduled |-> s.scheduled, stop |-> stop, queue |-> q,
                left |-> left, visited |-> visited, done |-> done, row |-> row, ids |-> ids,
                last |-> last, run |-> run, token |-> token, seen |-> seen, failed |-> failed] \in ScanWorker
    BY <1>2 DEF ScanWorker, Stages
  <2>2. /\ stage \in Stages /\ FALSE \in BOOLEAN /\ <<>> \in Seq(RunIds) /\ 0 \in Nat /\ NoId \in RunIds \cup {NoId}
        /\ [fresh |-> FALSE, after |-> NoId] \in [fresh : BOOLEAN, after : RunIds \cup {NoId}]
        /\ NoHint \in Hint \cup {NoHint}
    BY DEF Stages
  <2> QED BY <1>4, <2>1, <2>2
<1>6. t.at = stage /\ t.queue = q /\ t.left = <<>> /\ t.visited = 0
  BY <1>4
<1>7. stage \notin Handling /\ Len(t.left) = 0 /\ 0 + 0 =< Len(q) /\ 0 =< PerScan
  BY <1>2, <1>6, ScanAssumption DEF Handling
<1>8. QueueSound(t)
  BY <1>2, <1>6, <1>7 DEF QueueSound
<1> QED BY <1>3, <1>5, <1>6, <1>8

\* The schedule's rows: a revision that is issued is new.
LEMMA RowFacts ==
    ASSUME ScanTypeOK, NEW r \in RunIds
    PROVE  Row(r) \in Hint /\ Row(r).rev =< issued /\ NextRevision(r) = issued + 1
<1>1. issued \in Nat /\ hints[r] \in Hint \cup {NoHint} /\ hints[r].rev =< issued
  BY DEF ScanTypeOK
<1>2. CASE hints[r] = NoHint
  <2>1. Row(r) = [rev |-> issued, failures |-> 0, due |-> 0]
    BY <1>2 DEF Row, HasHint
  <2>2. [rev |-> issued, failures |-> 0, due |-> 0] \in Hint
    BY <1>1 DEF Hint
  <2>3. Row(r) \in Hint /\ Row(r).rev = issued
    BY <2>1, <2>2
  <2> QED BY <1>1, <2>3 DEF NextRevision
<1>3. CASE hints[r] # NoHint
  <2>1. Row(r) = hints[r] /\ hints[r] \in Hint
    BY <1>1, <1>3 DEF Row, HasHint
  <2>2. Row(r).rev \in Nat /\ Row(r).rev =< issued
    BY <1>1, <2>1 DEF Hint
  <2> QED BY <1>1, <2>1, <2>2 DEF NextRevision
<1> QED BY <1>2, <1>3

\* A backoff is at most the ceiling.
LEMMA BackoffBounded ==
    ASSUME NEW n \in Nat
    PROVE  Backoff(n) \in Nat /\ Backoff(n) =< MaxBackoff
<1>1. IsFiniteSet(1..n) /\ Cardinality(1..n) = n
  BY FS_Interval
<1>2. IsFiniteSet(SUBSET (1..n)) /\ Cardinality(SUBSET (1..n)) = 2 ^ n
  BY <1>1, FS_SUBSET
<1>3. 2 ^ n \in Nat
  BY <1>2, FS_CardinalityType
<1>4. PICK p \in Nat : p = 2 ^ n
  BY <1>3
<1>5. PICK d : d = Interval * p
  OBVIOUS
<1>6. d \in Nat /\ MaxBackoff \in Nat
  BY <1>5, ScanAssumption
<1>7. Backoff(n) = Smaller(MaxBackoff, d)
  BY <1>4, <1>5 DEF Backoff
<1> QED BY <1>6, <1>7 DEF Smaller

-----------------------------------------------------------------------------
Sound(s) == QueueSound(s) /\ PageSound(s) /\ PageExact(s) /\ SeenStands(s)

\* A worker that goes on with its page.
LEMMA ExactKept ==
    ASSUME NEW s, NEW t, PageExact(s), s.at \in Scanning, t.durable = s.durable, t.row = s.row, t.ids = s.ids
    PROVE  PageExact(t)
BY DEF PageExact

\* New Runs count as passed until the cursor wraps.
LEMMA SoundWithIndex ==
    ASSUME NEW s, Sound(s), UNCHANGED <<hints, issued, place>>, indexed \subseteq indexed',
           passed \subseteq passed', \A r \in indexed' : r \in indexed \/ r \in passed'
    PROVE  Sound(s)'
<1>1. QueueSound(s)'
  BY DEF Sound, QueueSound
<1>2. PageSound(s)'
  BY DEF Sound, PageSound
<1>3. PageExact(s)'
  BY DEF Sound, PageExact
<1>4. SeenStands(s)'
  BY DEF Sound, SeenStands, Row, HasHint
<1> QED BY <1>1, <1>2, <1>3, <1>4 DEF Sound

\* A row that is written has a revision no scan has seen.
LEMMA SoundWithRow ==
    ASSUME NEW s \in ScanWorker, Sound(s), ScanTypeOK, NEW r \in RunIds, NEW h \in Hint \cup {NoHint},
           h # NoHint => h.rev = issued + 1, hints' = [hints EXCEPT ![r] = h], issued' = issued + 1,
           UNCHANGED <<indexed, place, passed>>
    PROVE  Sound(s)'
<1>1. QueueSound(s)' /\ PageSound(s)' /\ PageExact(s)'
  BY DEF Sound, QueueSound, PageSound, PageExact
<1>2. SeenStands(s)'
  <2> SUFFICES ASSUME s.scheduled, s.at \in Handling \ {"check"}
               PROVE  /\ s.token = s.seen.rev /\ s.token =< issued'
                      /\ Row(s.run)'.rev = s.token => Row(s.run)' = s.seen
    BY DEF SeenStands
  <2>1. s.token \in Nat /\ issued \in Nat /\ s.token =< issued /\ s.token = s.seen.rev
    BY ScannerFields DEF Sound, SeenStands, ScanTypeOK
  <2>2. s.run \in RunIds /\ hints \in [RunIds -> Hint \cup {NoHint}]
    BY DEF Sound, QueueSound, ScanTypeOK
  <2>3. Row(s.run).rev = s.token => Row(s.run) = s.seen
    BY DEF Sound, SeenStands
  <2>4. Row(s.run)' = IF hints'[s.run] # NoHint THEN hints'[s.run]
                      ELSE [rev |-> issued + 1, failures |-> 0, due |-> 0]
    BY DEF Row, HasHint
  <2>5. Row(s.run)'.rev = s.token => Row(s.run)' = Row(s.run)
    <3>1. CASE hints'[s.run] = NoHint
      <4>1. Row(s.run)'.rev = issued + 1
        BY <2>4, <3>1
      <4> QED BY <2>1, <4>1
    <3>2. CASE hints'[s.run] # NoHint /\ s.run = r
      <4>1. Row(s.run)'.rev = issued + 1
        BY <2>2, <2>4, <3>2
      <4> QED BY <2>1, <4>1
    <3>3. CASE hints'[s.run] # NoHint /\ s.run # r
      <4>1. hints'[s.run] = hints[s.run]
        BY <2>2, <3>3
      <4> QED BY <2>4, <3>3, <4>1 DEF Row, HasHint
    <3> QED BY <3>1, <3>2, <3>3
  <2> QED BY <2>1, <2>3, <2>5
<1> QED BY <1>1, <1>2 DEF Sound

\* A worker's record after a step.
LEMMA SoundAfter ==
    ASSUME NEW y, NEW s, Sound(s)', scan'[y] = s
    PROVE  Sound(scan[y])'
<1>1. QueueSound(s)' /\ PageSound(s)' /\ PageExact(s)' /\ SeenStands(s)'
  BY DEF Sound
<1>2. QueueSound(scan[y])'
  BY <1>1 DEF QueueSound
<1>3. PageSound(scan[y])'
  BY <1>1 DEF PageSound
<1>4. PageExact(scan[y])'
  BY <1>1 DEF PageExact
<1>5. SeenStands(scan[y])'
  BY <1>1 DEF SeenStands, Row, HasHint
<1> QED BY <1>2, <1>3, <1>4, <1>5 DEF Sound

\* The invariant by its parts.
LEMMA ScanInvParts ==
    ScanInv <=> ScanTypeOK /\ CursorExact /\ \A x \in Scanners : Sound(scan[x])
BY DEF ScanInv, Sound

\* A step of one worker that leaves the schedule, the cursor and the index alone.
LEMMA OneMoves ==
    ASSUME ScanInv, UNCHANGED <<indexed, hints, issued, place, passed, wall>>,
           closed' \subseteq indexed, troubles' \in Nat, NEW x \in Scanners, NEW t \in ScanWorker, Sound(t),
           scan' = [scan EXCEPT ![x] = t]
    PROVE  ScanInv'
<1>1. UNCHANGED <<indexed, hints, issued, place, passed, wall>>
  OBVIOUS
<1>2. scan \in [Scanners -> ScanWorker] /\ scan' \in [Scanners -> ScanWorker]
  BY DEF ScanInv, ScanTypeOK
<1>3. ScanTypeOK' /\ CursorExact'
  BY <1>1, <1>2 DEF ScanInv, ScanTypeOK, CursorExact
<1>4. ASSUME NEW y \in Scanners PROVE Sound(scan[y])'
  <2>1. PICK s : s = IF y = x THEN t ELSE scan[y]
    OBVIOUS
  <2>2. Sound(s) /\ scan'[y] = s
    BY <1>2, <2>1, ScanInvParts
  <2>3. Sound(s)'
    BY <1>1, <2>2, SoundWithIndex
  <2> QED BY <2>2, <2>3, SoundAfter
<1> QED BY <1>3, <1>4 DEF ScanInv, Sound

LEMMA WorkerOf ==
    ASSUME ScanInv, NEW x \in Scanners
    PROVE  /\ scan[x] \in ScanWorker /\ Sound(scan[x]) /\ indexed \subseteq RunIds
           /\ IsInjective(scan[x].queue) /\ scan[x].visited =< Len(scan[x].queue)
<1>1. scan[x] \in ScanWorker /\ Sound(scan[x]) /\ indexed \subseteq RunIds
  BY DEF ScanInv, Sound, ScanTypeOK
<1>2. PICK n, d, p, q, v \in Nat : /\ n = Len(scan[x].left) /\ d = Len(scan[x].done) /\ p = Len(scan[x].ids)
                                  /\ q = Len(scan[x].queue) /\ v = scan[x].visited
  BY <1>1, WorkerLengths
<1>3. v + n =< q /\ IsInjective(scan[x].queue)
  BY <1>1, <1>2 DEF Sound, QueueSound
<1> QED BY <1>1, <1>2, <1>3

\* What stays unchanged for a worker's own steps.
LEMMA OthersKept ==
    ASSUME ScanInv, UNCHANGED Others
    PROVE  UNCHANGED <<indexed, hints, issued, place, passed, wall>> /\ closed' \subseteq indexed /\ troubles' \in Nat
BY DEF ScanInv, ScanTypeOK, Others

\* A worker that is not in a scan has little to keep.
LEMMA IdleSound ==
    ASSUME NEW s, QueueSound(s), s.at \in {"off", "wait", "discover"}
    PROVE  Sound(s)
BY DEF Sound, PageSound, PageExact, SeenStands, Scanning, Handling

\* A page is sound whatever else the worker's record holds.
LEMMA PageKept ==
    ASSUME NEW s, PageSound(s), NEW t, t.at \in Handling <=> s.at \in Handling,
           t.at \in Scanning <=> s.at \in Scanning, t.durable = s.durable, t.left = s.left,
           t.done = s.done, t.ids = s.ids, t.last = s.last, t.run = s.run
    PROVE  PageSound(t)
<1>1. CASE s.at \in Handling
  <2>1. PICK b : b = Len(s.done) + 1
    OBVIOUS
  <2>2. s.durable /\ s.at \in Scanning =>
           /\ b + Len(s.left) =< Len(s.ids)
           /\ \A i \in 1..Len(s.done) : s.done[i] = s.ids[i]
           /\ s.run = s.ids[b]
           /\ \A i \in 1..Len(s.left) : s.left[i] = s.ids[b + i]
           /\ s.ids = <<>> => s.last
    BY <1>1, <2>1 DEF PageSound
  <2> QED BY <1>1, <2>1, <2>2 DEF PageSound
<1>2. CASE s.at \notin Handling
  <2>1. PICK b : b = Len(s.done) + 0
    OBVIOUS
  <2>2. s.durable /\ s.at \in Scanning =>
           /\ b + Len(s.left) =< Len(s.ids)
           /\ \A i \in 1..Len(s.done) : s.done[i] = s.ids[i]
           /\ \A i \in 1..Len(s.left) : s.left[i] = s.ids[b + i]
           /\ s.ids = <<>> => s.last
    BY <1>2, <2>1 DEF PageSound
  <2> QED BY <1>2, <2>1, <2>2 DEF PageSound
<1> QED BY <1>1, <1>2

\* A scan between two awaits of the loop.
LEMMA StageSound ==
    ASSUME NEW s, Sound(s), s.at \in Handling, NEW t, t.at \in Handling, t.durable = s.durable,
           t.queue = s.queue, t.left = s.left, t.visited = s.visited, t.done = s.done, t.row = s.row,
           t.ids = s.ids, t.last = s.last, t.run = s.run, SeenStands(t)
    PROVE  Sound(t)
<1>1. QueueSound(t)
  BY DEF Sound, QueueSound
<1>2. PageSound(t)
  <2>1. s.at \in Scanning /\ t.at \in Scanning
    BY DEF Scanning
  <2> QED BY <2>1, PageKept DEF Sound
<1>3. PageExact(t)
  BY ExactKept DEF Sound, Scanning
<1> QED BY <1>1, <1>2, <1>3 DEF Sound

\* A scan that went to the next candidate or to its end.
LEMMA NextSound ==
    ASSUME NEW s, PageExact(s), s.at \in Scanning, NEW t, QueueSound(t), PageSound(t),
           t.at \in {"check", "ack", "raise"}, t.durable = s.durable, t.row = s.row, t.ids = s.ids
    PROVE  Sound(t)
<1>1. PageExact(t)
  BY ExactKept
<1>2. SeenStands(t)
  BY DEF SeenStands, Handling
<1> QED BY <1>1, <1>2 DEF Sound

\* A candidate's check, inspection and resumption.
Staged(s, stage, token, seen, failed) ==
    [s EXCEPT !.at = stage, !.token = token, !.seen = seen, !.failed = failed]

LEMMA StagedTyped ==
    ASSUME NEW s \in ScanWorker, NEW stage \in Handling, NEW token \in Nat, NEW seen \in Hint \cup {NoHint},
           NEW failed \in BOOLEAN, NEW t, t = Staged(s, stage, token, seen, failed)
    PROVE  /\ t \in ScanWorker /\ t.at = stage /\ t.token = token /\ t.seen = seen
           /\ t.durable = s.durable /\ t.scheduled = s.scheduled
           /\ t.queue = s.queue /\ t.left = s.left /\ t.visited = s.visited /\ t.done = s.done
           /\ t.row = s.row /\ t.ids = s.ids /\ t.last = s.last /\ t.run = s.run
<1>1. stage \in Scanning \cup {"off", "wait", "discover", "page"}
  BY DEF Scanning
<1>2. t \in ScanWorker
  BY <1>1 DEF Staged, ScanWorker
<1> QED BY <1>1, <1>2 DEF Staged, ScanWorker

\* What a listing of the index returns.
LEMMA FoundSeq ==
    ASSUME indexed \subseteq RunIds, NEW S \in SUBSET indexed, NEW f, f = Ascending(S)
    PROVE  /\ f \in Seq(RunIds) /\ IsInjective(f) /\ ToSet(f) \subseteq indexed /\ Len(f) \in Nat
           /\ \A i \in 1..Len(f) : f[i] \in S
           /\ \A i, j \in 1..Len(f) : i < j => f[i] < f[j]
           /\ \A n \in S : \E i \in 1..Len(f) : f[i] = n
<1>1. S \in SUBSET Nat /\ S \subseteq RunIds /\ IsFiniteSet(S)
  BY ScanAssumption, FS_Subset
<1>2. /\ f \in Seq(S) /\ IsInjective(f) /\ Len(f) \in Nat
      /\ \A i, j \in 1..Len(f) : i < j => f[i] < f[j]
      /\ \A n \in S : \E i \in 1..Len(f) : f[i] = n
  BY <1>1, AscendingSeq
<1>3. DOMAIN f = 1..Len(f) /\ \A i \in 1..Len(f) : f[i] \in S
  BY <1>2, LenProperties, ElementOfSeq
<1>4. f \in Seq(RunIds)
  <2>0. f \in [1..Len(f) -> S]
    BY <1>2, LenProperties
  <2>1. f \in [1..Len(f) -> RunIds]
    BY <1>1, <2>0
  <2> QED BY <1>2, <2>1, SeqDef
<1>5. ToSet(f) \subseteq indexed
  BY <1>3 DEF ToSet
<1> QED BY <1>2, <1>3, <1>4, <1>5

LEMMA DiscoverKeeps ==
    ASSUME ScanInv, NEW x \in Scanners, Discover(x)
    PROVE  ScanInv'
<1>1. PICK s : s = scan[x]
  OBVIOUS
<1>2. s \in ScanWorker /\ Sound(s) /\ indexed \subseteq RunIds /\ IsInjective(s.queue)
  BY <1>1, WorkerOf
<1>3. place \in RunIds \cup {NoId} /\ s.durable \in BOOLEAN
  BY <1>2, ScannerFields DEF ScanInv, ScanTypeOK
<1>4. CASE s.durable
  <2>1. PICK row : row = [fresh |-> TRUE, after |-> place]
    OBVIOUS
  <2>2. row \in [fresh : BOOLEAN, after : RunIds \cup {NoId}] /\ row.after = place
    BY <1>3, <2>1
  <2>3. PICK t : t = [s EXCEPT !.at = "page", !.row = row]
    OBVIOUS
  <2>4. t \in ScanWorker
    BY <1>2, <2>2, <2>3 DEF ScanWorker
  <2>5. /\ t.at = "page" /\ t.row = row /\ t.queue = s.queue /\ t.left = s.left /\ t.visited = s.visited
    BY <1>2, <2>3 DEF ScanWorker
  <2>6. Sound(t)
    <3>1. "page" \notin Scanning /\ "page" \notin Handling
      BY DEF Scanning, Handling
    <3>2. QueueSound(t)
      BY <1>2, <2>5, <3>1 DEF Sound, QueueSound
    <3> QED BY <2>2, <2>5, <3>1, <3>2 DEF Sound, PageSound, PageExact, SeenStands
  <2>7. scan' = [scan EXCEPT ![x] = t]
    BY <1>1, <1>4, <2>1, <2>3 DEF Discover
  <2> QED BY <2>4, <2>6, <2>7, OthersKept, OneMoves DEF Discover
<1>5. CASE ~s.durable
  <2>1. PICK f : f = Ascending(indexed \ closed)
    OBVIOUS
  <2>2. f \in Seq(RunIds) /\ IsInjective(f) /\ ToSet(f) \subseteq indexed
    BY <1>2, <2>1, FoundSeq
  <2>3. PICK t : t = Started(s, f)
    OBVIOUS
  <2>4. /\ t \in ScanWorker /\ QueueSound(t) /\ PageSound(t) /\ t.at \in {"check", "ack"} /\ ~t.durable
    BY <1>2, <1>5, <2>2, <2>3, StartedSound
  <2>5. Sound(t)
    BY <2>4 DEF Sound, PageExact, SeenStands, Handling
  <2>6. scan' = [scan EXCEPT ![x] = t]
    BY <1>1, <1>5, <2>1, <2>3 DEF Discover
  <2> QED BY <2>4, <2>5, <2>6, OthersKept, OneMoves DEF Discover
<1> QED BY <1>3, <1>4, <1>5

LEMMA ReadPageKeeps ==
    ASSUME ScanInv, NEW x \in Scanners, ReadPage(x)
    PROVE  ScanInv'
<1>1. PICK s : s = scan[x]
  OBVIOUS
<1>2. s \in ScanWorker /\ Sound(s) /\ indexed \subseteq RunIds /\ IsInjective(s.queue) /\ s.at = "page"
  BY <1>1, WorkerOf DEF ReadPage
<1>3. /\ s.row \in [fresh : BOOLEAN, after : RunIds \cup {NoId}] /\ s.durable \in BOOLEAN
      /\ place \in RunIds \cup {NoId}
  BY <1>2, ScannerFields DEF ScanInv, ScanTypeOK
<1>4. PICK S : S = {r \in indexed : r > s.row.after}
  OBVIOUS
<1>5. PICK f : f = Ascending(S)
  OBVIOUS
<1>23. S \in SUBSET indexed
  BY <1>4
<1>6. /\ f \in Seq(RunIds) /\ IsInjective(f) /\ Len(f) \in Nat
      /\ \A i \in 1..Len(f) : f[i] \in S
      /\ \A i, j \in 1..Len(f) : i < j => f[i] < f[j]
      /\ \A n \in S : \E i \in 1..Len(f) : f[i] = n
  BY <1>2, <1>5, <1>23, FoundSeq
<1>7. PICK n \in Nat, max \in Nat \ {0} : n = Len(f) /\ max = PageSize
  BY <1>6, ScanAssumption
<1>8. PICK k \in 0..n : k = Smaller(max, n) /\ (k = 0 => n = 0)
  BY <1>7 DEF Smaller
<1>9. PICK ids : ids = SubSeq(f, 1, k)
  OBVIOUS
<1>10. ids \in Seq(RunIds) /\ Len(ids) = k /\ \A i \in 1..k : ids[i] = f[i]
  <2>1. \A i \in 1..k : f[i] \in RunIds
    BY <1>6, <1>7, ElementOfSeq
  <2>2. /\ ids \in Seq(RunIds) /\ Len(ids) = IF 1 =< k THEN k - 1 + 1 ELSE 0
        /\ \A i \in 1..(k - 1 + 1) : ids[i] = f[1 + i - 1]
    BY <1>6, <1>9, <2>1, SubSeqProperties
  <2>3. k \in Nat /\ (IF 1 =< k THEN k - 1 + 1 ELSE 0) = k /\ k - 1 + 1 = k
    OBVIOUS
  <2>4. \A i \in 1..k : 1 + i - 1 = i
    OBVIOUS
  <2> QED BY <2>2, <2>3, <2>4
<1>11. DOMAIN ids = 1..k /\ DOMAIN f = 1..n
  BY <1>6, <1>7, <1>10, LenProperties
<1>12. IsInjective(ids) /\ ToSet(ids) \subseteq indexed
  <2>1. IsInjective(ids)
    BY <1>6, <1>10, <1>11 DEF IsInjective
  <2>2. \A i \in 1..k : ids[i] \in indexed
    BY <1>4, <1>6, <1>7, <1>10
  <2> QED BY <1>11, <2>1, <2>2 DEF ToSet
<1>13. PICK last \in BOOLEAN : last = (n =< max)
  <2>1. CASE n =< max
    BY <2>1
  <2>2. CASE ~(n =< max)
    <3>2. (n =< max) \in BOOLEAN
      BY SMT
    <3>1. FALSE = (n =< max)
      BY <2>2, <3>2, Zenon
    <3> QED BY <3>1, Zenon
  <2> QED BY <2>1, <2>2
<1>14. ids = <<>> => last
  <2>2. n = 0 => last
    <3>1. n = 0 => n =< max
      BY <1>7
    <3> QED BY <1>13, <3>1
  <2> SUFFICES ASSUME ids = <<>> PROVE n = 0
    BY <2>2
  <2>1. Len(ids) = 0
    OBVIOUS
  <2> QED BY <1>8, <1>10, <2>1
<1>15. PICK u : u = [s EXCEPT !.ids = ids, !.last = last]
  OBVIOUS
<1>16. u \in ScanWorker
  BY <1>2, <1>10, <1>15 DEF ScanWorker
<1>17. u.queue = s.queue /\ u.ids = ids /\ u.last = last /\ u.durable = s.durable /\ u.row = s.row
  BY <1>2, <1>15 DEF ScanWorker
<1>18. PICK t : t = Started(u, ids)
  OBVIOUS
<1>19. /\ t \in ScanWorker /\ QueueSound(t) /\ PageSound(t) /\ t.at \in {"check", "ack"}
       /\ t.durable = s.durable /\ t.row = s.row /\ t.ids = ids
  BY <1>2, <1>10, <1>12, <1>14, <1>16, <1>17, <1>18, StartedSound
<1>20. PageExact(t)
  <2> SUFFICES ASSUME s.durable, s.row.fresh
               PROVE  /\ s.row.after = place
                      /\ \A i \in 1..k : \A r \in indexed :
                            place < r /\ r =< ids[i] => \E j \in 1..i : ids[j] = r
    BY <1>10, <1>19 DEF PageExact
  <2>1. s.row.after = place
    BY <1>2 DEF Sound, PageExact
  <2>2. ASSUME NEW i \in 1..k, NEW r \in indexed, place < r, r =< ids[i]
        PROVE  \E j \in 1..i : ids[j] = r
    <3>1. r \in S /\ ids[i] = f[i] /\ i \in 1..n
      BY <1>4, <1>10, <2>1, <2>2
    <3>2. PICK j \in 1..n : f[j] = r
      BY <1>6, <1>7, <3>1
    <3>3. f[i] \in Nat /\ r \in Nat
      BY <1>2, <1>4, <1>6, <1>7, <3>1, ScanAssumption
    <3>4. ~(i < j)
      BY <1>6, <1>7, <2>2, <3>1, <3>2, <3>3
    <3>5. j \in 1..i /\ j \in 1..k
      BY <3>4
    <3> QED BY <1>10, <3>2, <3>5
  <2> QED BY <2>1, <2>2
<1>21. Sound(t)
  BY <1>19, <1>20 DEF Sound, SeenStands, Handling
<1>22. scan' = [scan EXCEPT ![x] = t]
  BY <1>1, <1>4, <1>5, <1>7, <1>8, <1>9, <1>13, <1>15, <1>18 DEF ReadPage
<1> QED BY <1>19, <1>21, <1>22, OthersKept, OneMoves DEF ReadPage

\* What the loop has checked stands until the row changes.
LEMMA SeenKept ==
    ASSUME NEW s, SeenStands(s), s.at \in Handling \ {"check"}, NEW t, t.scheduled = s.scheduled,
           t.token = s.token, t.seen = s.seen, t.run = s.run
    PROVE  SeenStands(t)
BY DEF SeenStands

\* A step of the loop that keeps what was checked.
LEMMA StagedSound ==
    ASSUME NEW s \in ScanWorker, Sound(s), s.at \in Handling \ {"check"}, NEW stage \in Handling,
           NEW failed \in BOOLEAN, NEW t, t = Staged(s, stage, s.token, s.seen, failed)
    PROVE  t \in ScanWorker /\ Sound(t)
<1>1. s.token \in Nat /\ s.seen \in Hint \cup {NoHint}
  BY ScannerFields
<1>2. /\ t \in ScanWorker /\ t.at = stage /\ t.token = s.token /\ t.seen = s.seen
      /\ t.durable = s.durable /\ t.scheduled = s.scheduled
      /\ t.queue = s.queue /\ t.left = s.left /\ t.visited = s.visited /\ t.done = s.done
      /\ t.row = s.row /\ t.ids = s.ids /\ t.last = s.last /\ t.run = s.run
  BY <1>1, StagedTyped
<1>3. SeenStands(t)
  BY <1>2, SeenKept DEF Sound
<1> QED BY <1>2, <1>3, StageSound

LEMMA CheckKeeps ==
    ASSUME ScanInv, NEW x \in Scanners, Check(x)
    PROVE  ScanInv'
<1>1. PICK s : s = scan[x]
  OBVIOUS
<1>2. s \in ScanWorker /\ Sound(s) /\ indexed \subseteq RunIds /\ s.at = "check" /\ s.at \in Handling
  BY <1>1, WorkerOf DEF Check, Handling
<1>3. /\ s.run \in RunIds /\ s.token \in Nat /\ s.seen \in Hint \cup {NoHint} /\ s.failed \in BOOLEAN
      /\ s.scheduled \in BOOLEAN
  BY <1>2, ScannerFields DEF Sound, QueueSound
<1>4. PICK row : row = Row(s.run)
  OBVIOUS
<1>5. row \in Hint /\ row.rev =< issued /\ row.rev \in Nat
  BY <1>3, <1>4, RowFacts DEF ScanInv, Hint
<1>6. "inspect" \in Handling
  BY DEF Handling
<1>7. CASE ~s.scheduled
  <2>1. PICK t : t = Staged(s, "inspect", s.token, s.seen, s.failed)
    OBVIOUS
  <2>2. t = [s EXCEPT !.at = "inspect"]
    BY <1>2, <2>1 DEF Staged, ScanWorker
  <2>3. /\ t \in ScanWorker /\ t.at = "inspect" /\ t.durable = s.durable /\ t.scheduled = s.scheduled
        /\ t.queue = s.queue /\ t.left = s.left /\ t.visited = s.visited /\ t.done = s.done
        /\ t.row = s.row /\ t.ids = s.ids /\ t.last = s.last /\ t.run = s.run
    BY <1>2, <1>3, <1>6, <2>1, StagedTyped
  <2>4. SeenStands(t)
    BY <1>7, <2>3 DEF SeenStands
  <2>5. Sound(t)
    BY <1>2, <1>6, <2>3, <2>4, StageSound
  <2>6. scan' = [scan EXCEPT ![x] = t]
    BY <1>1, <1>7, <2>2 DEF Check
  <2> QED BY <2>3, <2>5, <2>6, OthersKept, OneMoves DEF Check
<1>8. CASE s.scheduled /\ Due(row)
  <2>0. PICK rev \in Nat, h \in Hint \cup {NoHint} : rev = row.rev /\ h = row
    BY <1>5
  <2>1. PICK t : t = Staged(s, "inspect", rev, h, s.failed)
    OBVIOUS
  <2>2. t = [s EXCEPT !.at = "inspect", !.token = row.rev, !.seen = row]
    BY <1>2, <2>0, <2>1 DEF Staged, ScanWorker
  <2>3. /\ t \in ScanWorker /\ t.at = "inspect" /\ t.durable = s.durable /\ t.scheduled = s.scheduled
        /\ t.queue = s.queue /\ t.left = s.left /\ t.visited = s.visited /\ t.done = s.done
        /\ t.row = s.row /\ t.ids = s.ids /\ t.last = s.last /\ t.run = s.run
        /\ t.token = rev /\ t.seen = h
    <3>1. PICK failed \in BOOLEAN : failed = s.failed
      BY <1>3
    <3>2. t = Staged(s, "inspect", rev, h, failed)
      BY <2>1, <3>1
    <3>3. s \in ScanWorker
      BY <1>2
    <3> HIDE DEF Staged
    <3> QED BY <1>6, <3>2, <3>3, StagedTyped
  <2>4. SeenStands(t)
    BY <1>4, <1>5, <2>0, <2>3 DEF SeenStands
  <2>5. Sound(t)
    BY <1>2, <1>6, <2>3, <2>4, StageSound
  <2>6. scan' = [scan EXCEPT ![x] = t]
    BY <1>1, <1>4, <1>8, <2>2 DEF Check
  <2> QED BY <2>3, <2>5, <2>6, OthersKept, OneMoves DEF Check
<1>9. CASE s.scheduled /\ ~Due(row)
  <2>1. PICK t : t = Processed(s)
    OBVIOUS
  <2>2. /\ t \in ScanWorker /\ QueueSound(t) /\ PageSound(t) /\ t.at \in {"check", "ack", "raise"}
        /\ t.durable = s.durable /\ t.row = s.row /\ t.ids = s.ids
    BY <1>2, <2>1, ProcessedSound DEF Sound
  <2>3. s.at \in Scanning /\ PageExact(s)
    BY <1>2 DEF Sound, Scanning
  <2>4. Sound(t)
    BY <2>2, <2>3, NextSound
  <2>5. scan' = [scan EXCEPT ![x] = t]
    BY <1>1, <1>4, <1>9, <2>1 DEF Check
  <2> QED BY <2>2, <2>4, <2>5, OthersKept, OneMoves DEF Check
<1> QED BY <1>3, <1>7, <1>8, <1>9

LEMMA InspectKeeps ==
    ASSUME ScanInv, NEW x \in Scanners, NEW report \in {"blocked", "clear", "raised"}, Inspect(x, report)
    PROVE  ScanInv'
<1>1. PICK s : s = scan[x]
  OBVIOUS
<1>2. s \in ScanWorker /\ Sound(s) /\ s.at = "inspect" /\ s.at \in Handling \ {"check"} /\ s.at \in Scanning
  BY <1>1, WorkerOf DEF Inspect, Handling, Scanning
<1>3. "settle" \in Handling /\ "resume" \in Handling /\ s.failed \in BOOLEAN /\ s.stop \in BOOLEAN
  BY <1>2, ScannerFields DEF Handling
<1>4. CASE report # "clear"
  <2>1. PICK b \in BOOLEAN : b = (report = "raised")
    OBVIOUS
  <2>2. PICK t : t = Staged(s, "settle", s.token, s.seen, b)
    OBVIOUS
  <2>3. t = [s EXCEPT !.at = "settle", !.failed = b]
    BY <1>2, <2>2 DEF Staged, ScanWorker
  <2>4. t \in ScanWorker /\ Sound(t)
    BY <1>2, <1>3, <2>2, StagedSound
  <2>5. scan' = [scan EXCEPT ![x] = t]
    <3>1. CASE report = "blocked"
      BY <1>1, <2>1, <2>3, <3>1 DEF Inspect
    <3>2. CASE report = "raised"
      BY <1>1, <2>1, <2>3, <3>2 DEF Inspect
    <3> QED BY <1>4, <3>1, <3>2
  <2> QED BY <2>4, <2>5, OthersKept, OneMoves DEF Inspect
<1>5. CASE report = "clear" /\ s.stop
  <2>1. PICK t : t = Ending(s, "ack")
    OBVIOUS
  <2>2. /\ t \in ScanWorker /\ QueueSound(t) /\ PageSound(t) /\ t.at \in {"check", "ack", "raise"}
        /\ t.durable = s.durable /\ t.row = s.row /\ t.ids = s.ids
    BY <1>2, <2>1, EndingSound DEF Sound
  <2>3. PageExact(s)
    BY <1>2 DEF Sound
  <2>4. Sound(t)
    BY <1>2, <2>2, <2>3, NextSound
  <2>5. scan' = [scan EXCEPT ![x] = t]
    BY <1>1, <1>5, <2>1 DEF Inspect
  <2> QED BY <2>2, <2>4, <2>5, OthersKept, OneMoves DEF Inspect
<1>6. CASE report = "clear" /\ ~s.stop
  <2>1. PICK t : t = Staged(s, "resume", s.token, s.seen, s.failed)
    OBVIOUS
  <2>2. t = [s EXCEPT !.at = "resume"]
    BY <1>2, <2>1 DEF Staged, ScanWorker
  <2>3. t \in ScanWorker /\ Sound(t)
    BY <1>2, <1>3, <2>1, StagedSound
  <2>4. scan' = [scan EXCEPT ![x] = t]
    BY <1>1, <1>6, <2>2 DEF Inspect
  <2> QED BY <2>3, <2>4, OthersKept, OneMoves DEF Inspect
<1> QED BY <1>3, <1>4, <1>5, <1>6

LEMMA ResumeFoundKeeps ==
    ASSUME ScanInv, NEW x \in Scanners, NEW outcome \in {"ended", "waiting", "raised"}, ResumeFound(x, outcome)
    PROVE  ScanInv'
<1>1. PICK s : s = scan[x]
  OBVIOUS
<1>2. /\ s \in ScanWorker /\ Sound(s) /\ s.at = "resume" /\ s.at \in Handling \ {"check"}
      /\ scan \in [Scanners -> ScanWorker]
  BY <1>1, WorkerOf DEF ResumeFound, Handling, ScanInv, ScanTypeOK
<1>3. "settle" \in Handling /\ s.run \in indexed
  BY <1>2 DEF Handling, Sound, QueueSound
<1>4. PICK b \in BOOLEAN : b = (outcome = "raised")
  OBVIOUS
<1>5. PICK t : t = Staged(s, "settle", s.token, s.seen, b)
  OBVIOUS
<1>6. t = [s EXCEPT !.at = "settle", !.failed = b]
  BY <1>2, <1>5 DEF Staged, ScanWorker
<1>7. t \in ScanWorker /\ Sound(t)
  BY <1>2, <1>3, <1>5, StagedSound
<1>8. scan' = [scan EXCEPT ![x] = t]
  BY <1>1, <1>2, <1>4, <1>6 DEF ResumeFound
<1>9. closed' \subseteq indexed /\ troubles' \in Nat /\ UNCHANGED <<indexed, hints, issued, place, passed, wall>>
  BY <1>1, <1>3 DEF ResumeFound, ScanInv, ScanTypeOK
<1> QED BY <1>7, <1>8, <1>9, OneMoves

LEMMA NextScanKeeps ==
    ASSUME ScanInv, NEW x \in Scanners, NextScan(x)
    PROVE  ScanInv'
<1>1. PICK s : s = scan[x]
  OBVIOUS
<1>2. s \in ScanWorker /\ Sound(s) /\ scan \in [Scanners -> ScanWorker]
  BY <1>1, WorkerOf DEF ScanInv, ScanTypeOK
<1>3. PICK t : t = [s EXCEPT !.at = "discover"]
  OBVIOUS
<1>4. /\ t \in ScanWorker /\ t.at = "discover" /\ t.queue = s.queue /\ t.left = s.left
      /\ t.visited = s.visited
  BY <1>2, <1>3 DEF ScanWorker
<1>5. QueueSound(t)
  BY <1>2, <1>4 DEF Sound, QueueSound, Handling
<1>6. Sound(t)
  BY <1>4, <1>5, IdleSound
<1>7. scan' = [scan EXCEPT ![x] = t]
  BY <1>1, <1>2, <1>3 DEF NextScan
<1> QED BY <1>4, <1>6, <1>7, OthersKept, OneMoves DEF NextScan

\* What stays unchanged when something goes wrong.
LEMMA TroubleKept ==
    ASSUME ScanInv, Trouble, UNCHANGED <<indexed, closed, hints, issued, place, passed, wall>>
    PROVE  UNCHANGED <<indexed, hints, issued, place, passed, wall>> /\ closed' \subseteq indexed /\ troubles' \in Nat
BY DEF ScanInv, ScanTypeOK, Trouble

LEMMA ScanRaisesKeeps ==
    ASSUME ScanInv, NEW x \in Scanners, ScanRaises(x)
    PROVE  ScanInv'
<1>1. PICK s : s = scan[x]
  OBVIOUS
<1>2. s \in ScanWorker /\ Sound(s) /\ IsInjective(s.queue) /\ s.visited =< Len(s.queue)
  BY <1>1, WorkerOf
<1>3. s.at \in Stages /\ s.at \notin {"off", "wait", "raise"}
  BY <1>1, <1>2, ScannerFields DEF ScanRaises
<1>4. CASE s.at \in {"discover", "page", "ack"}
  <2>1. PICK t : t = AfterScan(s, "off")
    OBVIOUS
  <2>2. t \in ScanWorker /\ QueueSound(t) /\ t.at = "off"
    BY <1>2, <2>1, AfterScanSound
  <2>3. Sound(t)
    BY <2>2, IdleSound
  <2>4. scan' = [scan EXCEPT ![x] = t]
    BY <1>1, <1>4, <2>1 DEF ScanRaises
  <2> QED BY <2>2, <2>3, <2>4, TroubleKept, OneMoves DEF ScanRaises
<1>5. CASE s.at \notin {"discover", "page", "ack"}
  <2>1. PICK t : t = Ending(s, "raise")
    OBVIOUS
  <2>2. s.at \in Scanning
    BY <1>3, <1>5 DEF Stages, Scanning
  <2>3. /\ t \in ScanWorker /\ QueueSound(t) /\ PageSound(t) /\ t.at \in {"check", "ack", "raise"}
        /\ t.durable = s.durable /\ t.row = s.row /\ t.ids = s.ids
    BY <1>2, <2>1, <2>2, EndingSound DEF Sound
  <2>4. PageExact(s)
    BY <1>2 DEF Sound
  <2>5. Sound(t)
    BY <2>2, <2>3, <2>4, NextSound
  <2>6. scan' = [scan EXCEPT ![x] = t]
    BY <1>1, <1>5, <2>1 DEF ScanRaises
  <2> QED BY <2>3, <2>5, <2>6, TroubleKept, OneMoves DEF ScanRaises
<1> QED BY <1>4, <1>5

LEMMA StopWorkerKeeps ==
    ASSUME ScanInv, NEW x \in Scanners, StopWorker(x)
    PROVE  ScanInv'
<1>1. PICK s : s = scan[x]
  OBVIOUS
<1>2. s \in ScanWorker /\ Sound(s)
  BY <1>1, WorkerOf
<1>3. CASE s.at = "wait"
  <2>1. PICK t : t = [s EXCEPT !.at = "off"]
    OBVIOUS
  <2>2. /\ t \in ScanWorker /\ t.at = "off" /\ t.queue = s.queue /\ t.left = s.left
        /\ t.visited = s.visited
    BY <1>2, <2>1 DEF ScanWorker
  <2>3. QueueSound(t)
    BY <1>2, <2>2 DEF Sound, QueueSound, Handling
  <2>4. Sound(t)
    BY <2>2, <2>3, IdleSound
  <2>5. scan' = [scan EXCEPT ![x] = t]
    BY <1>1, <1>3, <2>1 DEF StopWorker
  <2> QED BY <2>2, <2>4, <2>5, TroubleKept, OneMoves DEF StopWorker
<1>4. CASE s.at # "wait"
  <2>1. PICK t : t = [s EXCEPT !.stop = TRUE]
    OBVIOUS
  <2>2. t \in ScanWorker
    BY <1>2, <2>1 DEF ScanWorker
  <2>3. /\ t.at = s.at /\ t.durable = s.durable /\ t.scheduled = s.scheduled
        /\ t.queue = s.queue /\ t.left = s.left /\ t.visited = s.visited /\ t.done = s.done
        /\ t.row = s.row /\ t.ids = s.ids /\ t.last = s.last /\ t.run = s.run
        /\ t.token = s.token /\ t.seen = s.seen
    BY <1>2, <2>1 DEF ScanWorker
  <2>4. QueueSound(t)
    BY <1>2, <2>3 DEF Sound, QueueSound
  <2>7. SeenStands(t)
    BY <1>2, <2>3 DEF Sound, SeenStands
  <2>5. PageSound(t)
    BY <1>2, <2>3, PageKept DEF Sound
  <2>6. PageExact(t)
    BY <1>2, <2>3 DEF Sound, PageExact
  <2>8. scan' = [scan EXCEPT ![x] = t]
    BY <1>1, <1>4, <2>1 DEF StopWorker
  <2>9. Sound(t)
    BY <2>4, <2>5, <2>6, <2>7 DEF Sound
  <2> QED BY <2>2, <2>8, <2>9, TroubleKept, OneMoves DEF StopWorker
<1> QED BY <1>3, <1>4

LEMMA CrashWorkerKeeps ==
    ASSUME ScanInv, NEW x \in Scanners, CrashWorker(x)
    PROVE  ScanInv'
<1>1. PICK s : s = scan[x]
  OBVIOUS
<1>2. s \in ScanWorker
  BY <1>1, WorkerOf
<1>3. PICK u : u = [s EXCEPT !.queue = <<>>, !.visited = 0]
  OBVIOUS
<1>4. u \in ScanWorker
  <2>1. ASSUME NEW q \in Seq(RunIds), NEW v \in Nat
        PROVE  [s EXCEPT !.queue = q, !.visited = v] \in ScanWorker
    BY <1>2 DEF ScanWorker
  <2>2. <<>> \in Seq(RunIds) /\ 0 \in Nat
    OBVIOUS
  <2> QED BY <1>3, <2>1, <2>2
<1>5. u.queue = <<>> /\ u.visited = 0
  BY <1>2, <1>3 DEF ScanWorker
<1>6. IsInjective(u.queue) /\ u.visited =< Len(u.queue)
  BY <1>5 DEF IsInjective
<1>7. PICK t : t = AfterScan(u, "off")
  OBVIOUS
<1>8. t \in ScanWorker /\ QueueSound(t) /\ t.at = "off"
  BY <1>4, <1>6, <1>7, AfterScanSound
<1>9. Sound(t)
  BY <1>8, IdleSound
<1>10. scan' = [scan EXCEPT ![x] = t]
  BY <1>1, <1>3, <1>7 DEF CrashWorker
<1> QED BY <1>8, <1>9, <1>10, TroubleKept, OneMoves DEF CrashWorker

\* A row of the schedule is written, and nothing else of the store.
LEMMA RowWritten ==
    ASSUME ScanInv, NEW r \in RunIds, NEW h \in Hint \cup {NoHint}, h # NoHint => h.rev = issued + 1,
           h.due =< wall + MaxBackoff, hints' = [hints EXCEPT ![r] = h], issued' = issued + 1,
           UNCHANGED <<indexed, closed, place, passed, wall, troubles>>,
           NEW after \in [Scanners -> ScanWorker], \A y \in Scanners : Sound(after[y]), scan' = after
    PROVE  ScanInv'
<1>1. ScanTypeOK /\ CursorExact
  BY DEF ScanInv
<1>2. issued \in Nat /\ hints \in [RunIds -> Hint \cup {NoHint}] /\ wall \in Nat
  BY <1>1 DEF ScanTypeOK
<1>3. hints' \in [RunIds -> Hint \cup {NoHint}] /\ issued' \in Nat
  BY <1>2
<1>4. ASSUME NEW q \in RunIds PROVE hints'[q].rev =< issued' /\ hints'[q].due =< wall + MaxBackoff
  <2>1. CASE q = r
    <3>1. hints'[q] = h
      BY <1>2, <2>1
    <3>2. h.rev =< issued + 1
      BY <1>2 DEF NoHint
    <3> QED BY <3>1, <3>2
  <2>2. CASE q # r
    <3>1. hints'[q] = hints[q] /\ hints[q].rev =< issued /\ hints[q].due =< wall + MaxBackoff
      BY <1>1, <1>2, <2>2 DEF ScanTypeOK
    <3>2. hints[q].rev \in Int
      BY <1>2 DEF Hint, NoHint
    <3> QED BY <1>2, <3>1, <3>2
  <2> QED BY <2>1, <2>2
<1>5. ScanTypeOK'
  BY <1>1, <1>3, <1>4 DEF ScanTypeOK
<1>6. CursorExact'
  BY <1>1 DEF CursorExact
<1>7. ASSUME NEW y \in Scanners PROVE Sound(scan[y])'
  <2>1. PICK s \in ScanWorker : s = after[y]
    OBVIOUS
  <2>2. Sound(s) /\ scan'[y] = s
    BY <2>1
  <2>3. Sound(s)'
    BY <1>1, <2>2, SoundWithRow
  <2> QED BY <2>2, <2>3, SoundAfter
<1> QED BY <1>5, <1>6, <1>7 DEF ScanInv, Sound

LEMMA WakeRunKeeps ==
    ASSUME ScanInv, NEW r \in RunIds, WakeRun(r)
    PROVE  ScanInv'
<1>1. NextRevision(r) = issued + 1 /\ issued \in Nat /\ wall \in Nat /\ scan \in [Scanners -> ScanWorker]
  BY RowFacts DEF ScanInv, ScanTypeOK
<1>2. PICK h : h = [rev |-> issued + 1, failures |-> 0, due |-> 0]
  OBVIOUS
<1>3. h \in Hint /\ h.rev = issued + 1 /\ h.due = 0
  BY <1>1, <1>2 DEF Hint
<1>4. 0 =< wall + MaxBackoff
  BY <1>1, ScanAssumption
<1>5. \A y \in Scanners : Sound(scan[y])
  BY ScanInvParts
<1>6. hints' = [hints EXCEPT ![r] = h] /\ issued' = issued + 1 /\ scan' = scan
  BY <1>1, <1>2 DEF WakeRun
<1>7. UNCHANGED <<indexed, closed, place, passed, wall, troubles>>
  BY DEF WakeRun
<1>8. h \in Hint \cup {NoHint} /\ h.due =< wall + MaxBackoff
  BY <1>3, <1>4
<1> QED BY <1>1, <1>3, <1>5, <1>6, <1>7, <1>8, RowWritten

LEMMA PruneKeeps ==
    ASSUME ScanInv, NEW r \in RunIds, Prune(r)
    PROVE  ScanInv'
<1>1. NextRevision(r) = issued + 1 /\ wall \in Nat /\ scan \in [Scanners -> ScanWorker]
  BY RowFacts DEF ScanInv, ScanTypeOK
<1>2. PICK h : h = NoHint
  OBVIOUS
<1>3. h \in Hint \cup {NoHint} /\ h.due = 0 /\ h = NoHint
  BY <1>2 DEF NoHint
<1>4. h.due =< wall + MaxBackoff
  BY <1>1, <1>3, ScanAssumption
<1>5. \A y \in Scanners : Sound(scan[y])
  BY ScanInvParts
<1>6. hints' = [hints EXCEPT ![r] = h] /\ issued' = issued + 1 /\ scan' = scan
  BY <1>1, <1>2 DEF Prune
<1>7. UNCHANGED <<indexed, closed, place, passed, wall, troubles>>
  BY DEF Prune
<1> QED BY <1>1, <1>3, <1>4, <1>5, <1>6, <1>7, RowWritten

\* The row that a settlement writes.
LEMMA SettledRow ==
    ASSUME ScanInv, NEW x \in Scanners, SettleHint(x), scan[x].scheduled /\ Current(scan[x])
    PROVE  \E h \in Hint : /\ h.rev = issued + 1 /\ h.due =< wall + MaxBackoff
                           /\ hints' = [hints EXCEPT ![scan[x].run] = h] /\ issued' = issued + 1
                           /\ scan[x].run \in RunIds
<1>1. PICK s : s = scan[x]
  OBVIOUS
<1>2. s \in ScanWorker /\ Sound(s) /\ s.at = "settle" /\ indexed \subseteq RunIds
  BY <1>1, WorkerOf DEF SettleHint
<1>3. s.run \in RunIds /\ s.failed \in BOOLEAN
  BY <1>2, ScannerFields DEF Sound, QueueSound, Handling
<1>4. PICK row : row = Row(s.run)
  OBVIOUS
<1>5. row \in Hint /\ NextRevision(s.run) = issued + 1 /\ issued \in Nat /\ wall \in Nat
  BY <1>3, <1>4, RowFacts DEF ScanInv, ScanTypeOK
<1>6. PICK f : f = IF s.failed THEN Smaller(row.failures + 1, 31) ELSE 0
  OBVIOUS
<1>7. f \in 0..31
  <2>1. row.failures \in 0..31
    BY <1>5 DEF Hint
  <2> QED BY <1>6, <2>1 DEF Smaller
<1>8. Backoff(f) \in Nat /\ Backoff(f) =< MaxBackoff
  <2>1. f \in Nat
    BY <1>7
  <2> QED BY <2>1, BackoffBounded
<1>9. PICK due : due = wall + Backoff(f)
  OBVIOUS
<1>10. due \in Nat /\ due =< wall + MaxBackoff
  BY <1>5, <1>8, <1>9, ScanAssumption
<1>11. PICK h : h = [rev |-> issued + 1, failures |-> f, due |-> due]
  OBVIOUS
<1>12. h \in Hint /\ h.rev = issued + 1 /\ h.due = due
  BY <1>5, <1>7, <1>10, <1>11 DEF Hint
<1>13. hints' = [hints EXCEPT ![s.run] = h] /\ issued' = issued + 1
  BY <1>1, <1>4, <1>5, <1>6, <1>9, <1>11 DEF SettleHint
<1> QED BY <1>1, <1>3, <1>10, <1>12, <1>13

LEMMA SettleHintKeeps ==
    ASSUME ScanInv, NEW x \in Scanners, SettleHint(x)
    PROVE  ScanInv'
<1>1. PICK s : s = scan[x]
  OBVIOUS
<1>2. /\ s \in ScanWorker /\ Sound(s) /\ s.at = "settle" /\ s.at \in Handling /\ s.at \in Scanning
      /\ indexed \subseteq RunIds /\ scan \in [Scanners -> ScanWorker]
  BY <1>1, WorkerOf DEF SettleHint, Handling, Scanning, ScanInv, ScanTypeOK
<1>3. PICK t : t = Processed(s)
  OBVIOUS
<1>4. /\ t \in ScanWorker /\ QueueSound(t) /\ PageSound(t) /\ t.at \in {"check", "ack", "raise"}
      /\ t.durable = s.durable /\ t.row = s.row /\ t.ids = s.ids
  BY <1>2, <1>3, ProcessedSound DEF Sound
<1>5. PageExact(s)
  BY <1>2 DEF Sound
<1>6. Sound(t)
  BY <1>2, <1>4, <1>5, NextSound
<1>7. scan' = [scan EXCEPT ![x] = t] /\ UNCHANGED <<indexed, closed, place, passed, wall, troubles>>
  BY <1>1, <1>3 DEF SettleHint
<1>8. CASE s.scheduled /\ Current(s)
  <2>1. PICK h \in Hint : /\ h.rev = issued + 1 /\ h.due =< wall + MaxBackoff
                          /\ hints' = [hints EXCEPT ![s.run] = h] /\ issued' = issued + 1
                          /\ s.run \in RunIds
    BY <1>1, <1>8, SettledRow
  <2>2. PICK r \in RunIds : r = s.run
    BY <2>1
  <2>3. PICK after : after = [scan EXCEPT ![x] = t]
    OBVIOUS
  <2>4. after \in [Scanners -> ScanWorker] /\ scan' = after
    BY <1>2, <1>4, <1>7, <2>3
  <2>5. ASSUME NEW y \in Scanners PROVE Sound(after[y])
    <3>1. CASE y = x
      <4>1. after[y] = t
        BY <1>2, <2>3, <3>1
      <4> QED BY <1>6, <4>1
    <3>2. CASE y # x
      <4>1. after[y] = scan[y]
        BY <1>2, <2>3, <3>2
      <4> QED BY <4>1, ScanInvParts
    <3> QED BY <3>1, <3>2
  <2>6. h \in Hint \cup {NoHint} /\ hints' = [hints EXCEPT ![r] = h]
    BY <2>1, <2>2
  <2> QED BY <1>7, <2>1, <2>4, <2>5, <2>6, RowWritten
<1>9. CASE ~(s.scheduled /\ Current(s))
  <2>1. UNCHANGED <<indexed, hints, issued, place, passed, wall>>
    BY <1>1, <1>9 DEF SettleHint
  <2>2. closed' \subseteq indexed /\ troubles' \in Nat
    BY <1>7 DEF ScanInv, ScanTypeOK
  <2> QED BY <1>4, <1>6, <1>7, <2>1, <2>2, OneMoves
<1> QED BY <1>8, <1>9

\* Nothing but the index, the Runs that ended and the clock moves on.
LEMMA WorldMoves ==
    ASSUME ScanInv, UNCHANGED <<hints, issued, place, scan, troubles>>, closed' \subseteq indexed',
           indexed \subseteq indexed', indexed' \subseteq RunIds, passed \subseteq passed', passed' \subseteq RunIds,
           \A r \in indexed' : r \in indexed \/ r \in passed', wall' \in Nat, wall =< wall'
    PROVE  ScanInv'
<1>1. ScanTypeOK /\ CursorExact
  BY DEF ScanInv
<1>2. \A r \in RunIds : hints[r].due =< wall' + MaxBackoff
  <2> SUFFICES ASSUME NEW r \in RunIds PROVE hints[r].due =< wall' + MaxBackoff
    OBVIOUS
  <2>1. hints[r].due \in Nat /\ hints[r].due =< wall + MaxBackoff /\ wall \in Nat
    BY <1>1 DEF ScanTypeOK, Hint, NoHint
  <2> QED BY <2>1, ScanAssumption
<1>3. ScanTypeOK'
  BY <1>1, <1>2 DEF ScanTypeOK
<1>4. CursorExact'
  BY <1>1 DEF CursorExact
<1>5. ASSUME NEW y \in Scanners PROVE Sound(scan[y])'
  <2>1. PICK s : s = scan[y]
    OBVIOUS
  <2>2. Sound(s) /\ scan'[y] = s
    BY <2>1, ScanInvParts
  <2>3. Sound(s)'
    BY <2>2, SoundWithIndex
  <2> QED BY <2>2, <2>3, SoundAfter
<1> QED BY <1>3, <1>4, <1>5 DEF ScanInv, Sound

LEMMA HostKeeps ==
    ASSUME ScanInv, TickWall \/ \E r \in RunIds : Arrive(r) \/ RunCloses(r)
    PROVE  ScanInv'
<1>0. /\ closed \subseteq indexed /\ indexed \subseteq RunIds /\ passed \subseteq RunIds /\ wall \in Nat
  BY DEF ScanInv, ScanTypeOK
<1>1. CASE TickWall
  <2>1. wall' = wall + 1 /\ UNCHANGED <<indexed, closed, hints, issued, place, scan, passed, troubles>>
    BY <1>1 DEF TickWall
  <2> QED BY <1>0, <2>1, WorldMoves
<1>2. ASSUME NEW r \in RunIds, Arrive(r) PROVE ScanInv'
  <2>1. /\ indexed' = indexed \cup {r} /\ passed' = passed \cup {r}
        /\ UNCHANGED <<closed, hints, issued, place, scan, wall, troubles>>
    BY <1>2 DEF Arrive
  <2> QED BY <1>0, <2>1, WorldMoves
<1>3. ASSUME NEW r \in RunIds, RunCloses(r) PROVE ScanInv'
  <2>1. /\ r \in indexed /\ closed' = closed \cup {r}
        /\ UNCHANGED <<indexed, hints, issued, place, scan, passed, wall, troubles>>
    BY <1>3 DEF RunCloses
  <2> QED BY <1>0, <2>1, WorldMoves
<1> QED BY <1>1, <1>2, <1>3

\* A worker whose row another scan has replaced, or not.
LEMMA RowReplaced ==
    ASSUME NEW s \in ScanWorker, Sound(s), NEW wrote \in BOOLEAN, UNCHANGED <<indexed, hints, issued>>,
           ~wrote => UNCHANGED <<place, passed>>,
           NEW t, t = [s EXCEPT !.row.fresh = @ /\ ~wrote]
    PROVE  t \in ScanWorker /\ Sound(t)'
<1>1. s.row \in [fresh : BOOLEAN, after : RunIds \cup {NoId}]
  BY ScannerFields
<1>2. PICK b \in BOOLEAN : b = (s.row.fresh /\ ~wrote)
  OBVIOUS
<1>3. PICK row : row = [s.row EXCEPT !.fresh = b]
  OBVIOUS
<1>4. row \in [fresh : BOOLEAN, after : RunIds \cup {NoId}] /\ row.fresh = b /\ row.after = s.row.after
  BY <1>1, <1>3
<1>5. t = [s EXCEPT !.row = row]
  BY <1>2, <1>3
<1>6. t \in ScanWorker
  BY <1>4, <1>5 DEF ScanWorker
<1>7. /\ t.at = s.at /\ t.durable = s.durable /\ t.scheduled = s.scheduled
      /\ t.queue = s.queue /\ t.left = s.left /\ t.visited = s.visited /\ t.done = s.done
      /\ t.row = row /\ t.ids = s.ids /\ t.last = s.last /\ t.run = s.run
      /\ t.token = s.token /\ t.seen = s.seen
  BY <1>5 DEF ScanWorker
<1>8. QueueSound(t)'
  BY <1>7 DEF Sound, QueueSound
<1>9. PageSound(t)'
  <2>1. PageSound(t)
    BY <1>7, PageKept DEF Sound
  <2> QED BY <2>1 DEF PageSound
<1>10. PageExact(t)'
  <2>1. CASE b
    <3>1. s.row.fresh /\ UNCHANGED <<indexed, place, passed>>
      BY <1>2, <2>1
    <3> QED BY <1>4, <1>7, <3>1 DEF Sound, PageExact
  <2>2. CASE ~b
    BY <1>4, <1>7, <2>2 DEF PageExact
  <2> QED BY <2>1, <2>2
<1>11. SeenStands(t)'
  BY <1>7 DEF Sound, SeenStands, Row, HasHint
<1> QED BY <1>6, <1>8, <1>9, <1>10, <1>11 DEF Sound

\* The acknowledgement of a page moves the cursor past what was processed.
LEMMA PageAcknowledged ==
    ASSUME ScanInv, NEW s \in ScanWorker, Sound(s), s.at \in {"ack", "raise"}, s.durable, s.row.fresh,
           ~NothingToWrite(s)
    PROVE  /\ AfterPage(s) \in RunIds \cup {NoId}
           /\ ToSet(s.done) \subseteq RunIds
           /\ \A r \in indexed : r =< AfterPage(s) => r \in passed \cup ToSet(s.done)
<1>1. PICK n, d, p, q, v \in Nat : /\ n = Len(s.left) /\ d = Len(s.done) /\ p = Len(s.ids)
                                  /\ q = Len(s.queue) /\ v = s.visited
  BY WorkerLengths
<1>2. s.done \in Seq(RunIds) /\ s.ids \in Seq(RunIds) /\ DOMAIN s.done = 1..d /\ DOMAIN s.ids = 1..p
  BY <1>1, ScannerFields, LenProperties
<1>3. s.at \in Scanning /\ s.at \notin Handling
  BY DEF Scanning, Handling
<1>4. d + 0 + n =< p /\ (\A i \in 1..d : s.done[i] = s.ids[i]) /\ (s.ids = <<>> => s.last)
  BY <1>1, <1>3 DEF Sound, PageSound
<1>5. \A i \in 1..p : \A r \in indexed :
         place < r /\ r =< s.ids[i] => r \in passed \/ \E k \in 1..i : s.ids[k] = r
  BY <1>1, <1>3 DEF Sound, PageExact
<1>6. \A i \in 1..d : s.done[i] \in RunIds
  BY <1>1, <1>2, ElementOfSeq
<1>7. ToSet(s.done) \subseteq RunIds /\ \A i \in 1..d : s.done[i] \in ToSet(s.done)
  BY <1>2, <1>6 DEF ToSet
<1>8. \A r \in indexed : r \in Nat \ {0}
  BY ScanAssumption DEF ScanInv, ScanTypeOK
<1>9. CASE AfterPage(s) = NoId
  BY <1>7, <1>8, <1>9 DEF NoId
<1>10. CASE AfterPage(s) # NoId
  <2>1. AfterPage(s) = s.done[d] /\ ~(d = p /\ s.last)
    BY <1>1, <1>10 DEF AfterPage
  <2>2. d # 0
    <3> SUFFICES ASSUME d = 0 PROVE FALSE
      OBVIOUS
    <3>1. s.done = <<>>
      BY <1>1, <1>2, EmptySeq
    <3>2. s.ids = <<>>
      BY <3>1 DEF NothingToWrite
    <3>3. p = 0 /\ s.last
      BY <1>1, <1>4, <3>2
    <3> QED BY <2>1, <3>3
  <2>3. d \in 1..d /\ d \in 1..p /\ s.done[d] = s.ids[d]
    BY <1>4, <2>2
  <2>4. AfterPage(s) \in RunIds
    BY <1>6, <2>1, <2>3
  <2>5. ASSUME NEW r \in indexed, r =< s.ids[d]
        PROVE  r \in passed \cup ToSet(s.done)
    <3>1. CASE r =< place
      BY <3>1 DEF ScanInv, CursorExact
    <3>2. CASE ~(r =< place)
      <4>1. place < r
        BY <1>8, <3>2, ScanAssumption DEF ScanInv, ScanTypeOK, NoId
      <4>2. r \in passed \/ \E k \in 1..d : s.ids[k] = r
        BY <1>5, <2>3, <2>5, <4>1
      <4> QED BY <1>4, <1>7, <4>2
    <3> QED BY <3>1, <3>2
  <2> QED BY <1>7, <2>1, <2>3, <2>4, <2>5
<1> QED BY <1>9, <1>10

LEMMA AcknowledgePageKeeps ==
    ASSUME ScanInv, NEW x \in Scanners, AcknowledgePage(x)
    PROVE  ScanInv'
<1>1. PICK s : s = scan[x]
  OBVIOUS
<1>2. /\ s \in ScanWorker /\ Sound(s) /\ IsInjective(s.queue) /\ s.visited =< Len(s.queue)
      /\ s.at \in {"ack", "raise"}
  BY <1>1, WorkerOf DEF AcknowledgePage
<1>3. ScanTypeOK /\ CursorExact /\ scan \in [Scanners -> ScanWorker]
  BY DEF ScanInv, ScanTypeOK
<1>4. PICK wrote \in BOOLEAN : wrote = (s.durable /\ ~NothingToWrite(s) /\ s.row.fresh)
  OBVIOUS
<1>5. PICK stage \in {"off", "wait"} : scan'[x] = AfterScan(s, stage)
  BY <1>1 DEF AcknowledgePage
<1>6. \A y \in Scanners \ {x} : scan'[y] = [scan[y] EXCEPT !.row.fresh = @ /\ ~wrote]
  BY <1>1, <1>4 DEF AcknowledgePage
<1>7. /\ DOMAIN scan' = Scanners /\ scan' = [y \in Scanners |-> scan'[y]]
      /\ UNCHANGED <<indexed, closed, hints, issued, wall, troubles>>
  BY DEF AcknowledgePage
<1>8. /\ wrote => /\ place' = AfterPage(s)
                  /\ passed' = IF AfterPage(s) = NoId THEN {} ELSE passed \cup ToSet(s.done)
      /\ ~wrote => UNCHANGED <<place, passed>>
  BY <1>1, <1>4 DEF AcknowledgePage
<1>9. ASSUME NEW y \in Scanners PROVE scan'[y] \in ScanWorker /\ Sound(scan[y])'
  <2>1. CASE y = x
    <3>1. PICK t : t = AfterScan(s, stage)
      OBVIOUS
    <3>2. t \in ScanWorker /\ QueueSound(t) /\ t.at \in {"off", "wait", "discover"}
      BY <1>2, <3>1, AfterScanSound
    <3>3. QueueSound(t)'
      BY <1>7, <3>2 DEF QueueSound
    <3>4. Sound(t)'
      BY <3>2, <3>3 DEF Sound, PageSound, PageExact, SeenStands, Scanning, Handling
    <3>5. scan'[y] = t
      BY <1>5, <2>1, <3>1
    <3> QED BY <3>2, <3>4, <3>5, SoundAfter
  <2>2. CASE y # x
    <3>1. PICK u \in ScanWorker : u = scan[y] /\ Sound(u)
      BY <1>3, ScanInvParts
    <3>2. PICK t : t = [u EXCEPT !.row.fresh = @ /\ ~wrote]
      OBVIOUS
    <3>3. t \in ScanWorker /\ Sound(t)'
      BY <1>7, <1>8, <3>1, <3>2, RowReplaced
    <3>4. scan'[y] = t
      BY <1>6, <2>2, <3>1, <3>2
    <3> QED BY <3>3, <3>4, SoundAfter
  <2> QED BY <2>1, <2>2
<1>10. scan' \in [Scanners -> ScanWorker]
  BY <1>7, <1>9
<1>11. /\ place' \in RunIds \cup {NoId} /\ passed' \subseteq RunIds
       /\ \A r \in indexed : r =< place' => r \in passed'
  <2>1. CASE wrote
    <3>1. /\ AfterPage(s) \in RunIds \cup {NoId} /\ ToSet(s.done) \subseteq RunIds
          /\ \A r \in indexed : r =< AfterPage(s) => r \in passed \cup ToSet(s.done)
      BY <1>2, <1>4, <2>1, PageAcknowledged
    <3>2. CASE AfterPage(s) = NoId
      <4>1. \A r \in indexed : ~(r =< NoId)
        BY <1>3, ScanAssumption DEF ScanTypeOK, NoId
      <4> QED BY <1>8, <2>1, <3>2, <4>1
    <3>3. CASE AfterPage(s) # NoId
      BY <1>3, <1>8, <2>1, <3>1, <3>3 DEF ScanTypeOK
    <3> QED BY <3>2, <3>3
  <2>2. CASE ~wrote
    BY <1>3, <1>8, <2>2 DEF ScanTypeOK, CursorExact
  <2> QED BY <2>1, <2>2
<1>12. ScanTypeOK'
  BY <1>3, <1>7, <1>10, <1>11 DEF ScanTypeOK
<1>13. CursorExact'
  BY <1>7, <1>11 DEF CursorExact
<1> QED BY <1>9, <1>12, <1>13 DEF ScanInv, Sound

LEMMA ScanStarts == ScanInit => ScanInv
<1> SUFFICES ASSUME ScanInit PROVE ScanInv
  OBVIOUS
<1>1. PICK d, h \in SUBSET Scanners :
         scan = [x \in Scanners |-> [OffDuty EXCEPT !.durable = x \in d, !.scheduled = x \in h]]
  BY DEF ScanInit
<1>2. ASSUME NEW x \in Scanners PROVE scan[x] \in ScanWorker /\ Sound(scan[x])
  <2>1. PICK a \in BOOLEAN : a = (x \in d)
    <3>1. (x \in d) \in BOOLEAN
      OBVIOUS
    <3> QED BY <3>1, Zenon
  <2>3. PICK b \in BOOLEAN : b = (x \in h)
    <3>1. (x \in h) \in BOOLEAN
      OBVIOUS
    <3> QED BY <3>1, Zenon
  <2>2. PICK s : s = [OffDuty EXCEPT !.durable = a, !.scheduled = b]
    OBVIOUS
  <2>4. s = scan[x]
    BY <1>1, <2>1, <2>2, <2>3
  <2>5. s = [at |-> "off", durable |-> a, scheduled |-> b, stop |-> FALSE, queue |-> <<>>, left |-> <<>>,
             visited |-> 0, done |-> <<>>, row |-> [fresh |-> FALSE, after |-> NoId],
             ids |-> <<>>, last |-> FALSE, run |-> NoId, token |-> 0, seen |-> NoHint, failed |-> FALSE]
    BY <2>2 DEF OffDuty
  <2>6. s \in ScanWorker
    <3>1. ASSUME NEW stage \in Stages, NEW stop \in BOOLEAN, NEW q \in Seq(RunIds), NEW visited \in Nat,
                 NEW row \in [fresh : BOOLEAN, after : RunIds \cup {NoId}],
                 NEW run \in RunIds \cup {NoId}, NEW seen \in Hint \cup {NoHint}
          PROVE  [at |-> stage, durable |-> a, scheduled |-> b, stop |-> stop, queue |-> q, left |-> q,
                  visited |-> visited, done |-> q, row |-> row, ids |-> q, last |-> stop, run |-> run,
                  token |-> visited, seen |-> seen, failed |-> stop] \in ScanWorker
      BY DEF ScanWorker, Stages
    <3>2. /\ "off" \in Stages /\ FALSE \in BOOLEAN /\ <<>> \in Seq(RunIds) /\ 0 \in Nat /\ NoId \in RunIds \cup {NoId}
          /\ [fresh |-> FALSE, after |-> NoId] \in [fresh : BOOLEAN, after : RunIds \cup {NoId}]
          /\ NoHint \in Hint \cup {NoHint}
      BY DEF Stages
    <3> QED BY <2>5, <3>1, <3>2
  <2>7. s.at = "off" /\ s.queue = <<>> /\ s.left = <<>> /\ s.visited = 0
    BY <2>5
  <2>8. IsInjective(<<>>) /\ Len(<<>>) = 0 /\ 0 =< PerScan /\ 0 + 0 =< 0
    BY ScanAssumption DEF IsInjective
  <2>9. QueueSound(s)
    BY <2>7, <2>8 DEF QueueSound, Handling
  <2>10. Sound(s)
    BY <2>7, <2>9, IdleSound
  <2> QED BY <2>4, <2>6, <2>10
<1>3. scan \in [Scanners -> ScanWorker]
  BY <1>1, <1>2
<1>4. \A r \in RunIds : hints[r].rev = -1 /\ hints[r].due = 0
  BY DEF ScanInit, NoHint
<1>5. ScanTypeOK
  <2>1. hints \in [RunIds -> Hint \cup {NoHint}]
    BY DEF ScanInit
  <2>2. \A r \in RunIds : hints[r].rev =< 0 /\ hints[r].due =< 0 + MaxBackoff
    <3>1. MaxBackoff \in Nat
      BY ScanAssumption
    <3>2. -1 =< 0 /\ 0 =< 0 + MaxBackoff
      BY <3>1
    <3> QED BY <1>4, <3>2
  <2>3. /\ closed \subseteq indexed /\ indexed \subseteq RunIds /\ passed \subseteq RunIds
        /\ issued = 0 /\ wall = 0 /\ place \in RunIds \cup {NoId}
    BY DEF ScanInit
  <2>4. troubles \in Nat
    <3>1. troubles \in 0..MaxTroubles
      BY DEF ScanInit
    <3> QED BY <3>1, ScanAssumption
  <2> QED BY <1>3, <2>1, <2>2, <2>3, <2>4 DEF ScanTypeOK
<1>6. CursorExact
  <2>1. \A r \in RunIds : ~(r =< 0)
    BY ScanAssumption
  <2> QED BY <2>1 DEF CursorExact, ScanInit, NoId
<1> QED BY <1>2, <1>5, <1>6 DEF ScanInv, Sound

LEMMA ScanStutters ==
    ASSUME ScanInv, UNCHANGED scanVars
    PROVE  ScanInv'
<1>1. /\ closed \subseteq indexed /\ indexed \subseteq RunIds /\ passed \subseteq RunIds /\ wall \in Nat
      /\ UNCHANGED <<indexed, closed, hints, issued, place, scan, passed, wall, troubles>>
  BY DEF ScanInv, ScanTypeOK, scanVars
<1> QED BY <1>1, WorldMoves

LEMMA ScanMoves ==
    ASSUME ScanInv, [ScanNext]_scanVars
    PROVE  ScanInv'
<1>1. ASSUME NEW x \in Scanners, ScanStep(x) PROVE ScanInv'
  BY <1>1, DiscoverKeeps, ReadPageKeeps, CheckKeeps, SettleHintKeeps, AcknowledgePageKeeps, NextScanKeeps,
     InspectKeeps, ResumeFoundKeeps DEF ScanStep
<1>2. ASSUME NEW x \in Scanners, ScanRaises(x) \/ StopWorker(x) \/ CrashWorker(x) PROVE ScanInv'
  BY <1>2, ScanRaisesKeeps, StopWorkerKeeps, CrashWorkerKeeps
<1>3. ASSUME NEW r \in RunIds, Arrive(r) \/ RunCloses(r) \/ WakeRun(r) \/ Prune(r) PROVE ScanInv'
  BY <1>3, HostKeeps, WakeRunKeeps, PruneKeeps
<1> QED BY <1>1, <1>2, <1>3, HostKeeps, ScanStutters DEF ScanNext

\* ScanInvariant: the durable cursor of recovery_cursor.py never passes a Run
\* that was neither processed nor added since it wrapped, and each worker's
\* queue, page and seen row of the schedule stay as its scan relies on, for
\* every number of workers and Runs, every page size and every limit of a scan,
\* through stops, exceptions, conflicts and crashes.
THEOREM ScanInvariant == ScanSafety => []ScanInv
<1>1. ScanInv /\ [ScanNext]_scanVars => ScanInv'
  BY ScanMoves
<1> QED BY ScanStarts, <1>1, PTL DEF ScanSafety

\* SettledAsSeenHolds: settle of recovery_schedule.py replaces a row only when
\* it is the row that the check of the same scan returned.
THEOREM SettledAsSeenHolds == ScanSafety => SettledAsSeen
<1> DEFINE AsSeen == \A r \in RunIds : hints'[r].due > 0 /\ hints'[r] # hints[r] =>
                        \E x \in Scanners : /\ scan[x].at = "settle" /\ scan[x].run = r
                                            /\ scan[x].seen = Row(r)
<1>1. ASSUME ScanInv, ScanNext PROVE AsSeen
  <2>0. hints \in [RunIds -> Hint \cup {NoHint}]
    BY <1>1 DEF ScanInv, ScanTypeOK
  <2>1. CASE UNCHANGED hints
    BY <2>1
  <2>2. ASSUME NEW x \in Scanners, SettleHint(x), hints' # hints PROVE AsSeen
    <3>1. scan[x].scheduled /\ Current(scan[x]) /\ scan[x].at = "settle"
      BY <2>2 DEF SettleHint
    <3>2. scan[x].seen = Row(scan[x].run)
      BY <1>1, <3>1, WorkerOf DEF Sound, SeenStands, Current, Handling
    <3>3. PICK h : hints' = [hints EXCEPT ![scan[x].run] = h]
      BY <1>1, <2>2, <3>1, SettledRow
    <3>4. \A r \in RunIds : r # scan[x].run => hints'[r] = hints[r]
      BY <2>0, <3>3
    <3> QED BY <3>1, <3>2, <3>4
  <2>3. ASSUME NEW q \in RunIds, WakeRun(q) \/ Prune(q) PROVE AsSeen
    <3>1. PICK h : hints' = [hints EXCEPT ![q] = h] /\ h.due = 0
      <4>1. CASE WakeRun(q)
        <5>1. PICK h : h = [rev |-> NextRevision(q), failures |-> 0, due |-> 0]
          OBVIOUS
        <5>2. hints' = [hints EXCEPT ![q] = h] /\ h.due = 0
          BY <4>1, <5>1 DEF WakeRun
        <5> QED BY <5>2
      <4>2. CASE Prune(q)
        <5>1. hints' = [hints EXCEPT ![q] = NoHint] /\ NoHint.due = 0
          BY <4>2 DEF Prune, NoHint
        <5> QED BY <5>1
      <4> QED BY <2>3, <4>1, <4>2
    <3>2. \A r \in RunIds : hints'[r] = hints[r] \/ hints'[r].due = 0
      BY <2>0, <3>1
    <3>3. ~(0 > 0)
      OBVIOUS
    <3> QED BY <3>2, <3>3
  <2>4. ASSUME NEW x \in Scanners, ScanStep(x) PROVE UNCHANGED hints \/ SettleHint(x)
    BY <2>4 DEF ScanStep, Discover, ReadPage, Check, AcknowledgePage, NextScan, Inspect, ResumeFound, Others
  <2>5. ASSUME NEW x \in Scanners, ScanRaises(x) \/ StopWorker(x) \/ CrashWorker(x) PROVE UNCHANGED hints
    BY <2>5 DEF ScanRaises, StopWorker, CrashWorker
  <2>6. ASSUME NEW r \in RunIds, Arrive(r) \/ RunCloses(r) PROVE UNCHANGED hints
    BY <2>6 DEF Arrive, RunCloses
  <2>7. TickWall => UNCHANGED hints
    BY DEF TickWall
  <2> QED BY <1>1, <2>1, <2>2, <2>3, <2>4, <2>5, <2>6, <2>7 DEF ScanNext
<1>2. ScanInv /\ [ScanNext]_scanVars => [AsSeen]_scanVars
  BY <1>1
<1> QED BY ScanInvariant, <1>2, PTL DEF ScanSafety, SettledAsSeen

-----------------------------------------------------------------------------
(* The plan and the outcome of a Run.                                      *)

\* The first place of a list where something holds.
LEMMA FirstPlace ==
    ASSUME NEW I \in SUBSET Nat, I # {}
    PROVE  Min(I) \in I /\ \A j \in I : Min(I) =< j
<1> DEFINE R == {p \in Nat \X Nat : p[1] < p[2]}
<1>1. IsWellFoundedOn(R, Nat)
  BY NatLessThanWellFounded DEF OpToRel
<1>2. PICK i \in I : \A j \in I : ~(<<j, i>> \in R)
  <2> HIDE DEF R
  <2> QED BY <1>1, WFMin
<1>3. \A j \in I : i =< j
  <2> SUFFICES ASSUME NEW j \in I PROVE i =< j
    OBVIOUS
  <2>1. i \in Nat /\ j \in Nat /\ ~(j < i)
    BY <1>2
  <2> QED BY <2>1
<1> QED BY <1>3 DEF Min

\* The steps of a plan as numbered records.
LEMMA StepsTyped ==
    ASSUME NEW steps \in Seq(PlanStep)
    PROVE  /\ Len(steps) \in Nat /\ DOMAIN steps = 1..Len(steps)
           /\ \A i \in 1..Len(steps) : steps[i] \in PlanStep
BY LenProperties, ElementOfSeq

LEMMA RunningPlace ==
    ASSUME NEW steps \in Seq(PlanStep), NEW i, i = Running(steps)
    PROVE  \/ i = 0 /\ \A j \in DOMAIN steps : steps[j].st # "running"
           \/ i \in DOMAIN steps /\ steps[i].st = "running"
<1>1. PICK I : I = {j \in 1..Len(steps) : steps[j].st = "running"}
  OBVIOUS
<1>2. i = IF I # {} THEN Min(I) ELSE 0
  BY <1>1 DEF Running, SelectInSeq
<1>3. Len(steps) \in Nat /\ DOMAIN steps = 1..Len(steps)
  BY StepsTyped
<1>4. CASE I = {}
  BY <1>1, <1>2, <1>3, <1>4
<1>5. CASE I # {}
  <2>1. I \in SUBSET Nat
    BY <1>1, <1>3
  <2>2. Min(I) \in I
    BY <1>5, <2>1, FirstPlace
  <2> QED BY <1>1, <1>2, <1>3, <1>5, <2>2
<1> QED BY <1>4, <1>5

LEMMA RunningOfPlace ==
    ASSUME NEW steps \in Seq(PlanStep), NEW kind, NEW i, i = RunningOf(steps, kind)
    PROVE  \/ i = 0 /\ \A j \in DOMAIN steps : ~(steps[j].st = "running" /\ steps[j].kind = kind)
           \/ i \in DOMAIN steps /\ steps[i].st = "running" /\ steps[i].kind = kind
<1>1. PICK I : I = {j \in 1..Len(steps) : steps[j].st = "running" /\ steps[j].kind = kind}
  OBVIOUS
<1>2. i = IF I # {} THEN Min(I) ELSE 0
  BY <1>1 DEF RunningOf, SelectInSeq
<1>3. Len(steps) \in Nat /\ DOMAIN steps = 1..Len(steps)
  BY StepsTyped
<1>4. CASE I = {}
  BY <1>1, <1>2, <1>3, <1>4
<1>5. CASE I # {}
  <2>1. I \in SUBSET Nat
    BY <1>1, <1>3
  <2>2. Min(I) \in I
    BY <1>5, <2>1, FirstPlace
  <2> QED BY <1>1, <1>2, <1>3, <1>5, <2>2
<1> QED BY <1>4, <1>5

LEMMA NextPlace ==
    ASSUME NEW steps \in Seq(PlanStep), NEW i, i = NextIncomplete(steps)
    PROVE  \/ i = 0 /\ \A j \in DOMAIN steps : steps[j].st \in Finished
           \/ /\ i \in DOMAIN steps /\ steps[i].st \notin Finished
              /\ \A j \in 1..(i - 1) : steps[j].st \in Finished
<1>1. PICK I : I = {j \in 1..Len(steps) : steps[j].st \notin Finished}
  OBVIOUS
<1>2. i = IF I # {} THEN Min(I) ELSE 0
  BY <1>1 DEF NextIncomplete, SelectInSeq
<1>3. Len(steps) \in Nat /\ DOMAIN steps = 1..Len(steps)
  BY StepsTyped
<1>4. CASE I = {}
  BY <1>1, <1>2, <1>3, <1>4
<1>5. CASE I # {}
  <2>1. I \in SUBSET Nat
    BY <1>1, <1>3
  <2>2. i \in I /\ \A j \in I : i =< j
    BY <1>2, <1>5, <2>1, FirstPlace
  <2>3. i \in 1..Len(steps)
    BY <1>1, <2>2
  <2>4. ASSUME NEW j \in 1..(i - 1) PROVE steps[j].st \in Finished
    <3>1. j \in 1..Len(steps) /\ ~(i =< j)
      BY <1>3, <2>3
    <3> QED BY <1>1, <2>2, <3>1
  <2> QED BY <1>1, <1>3, <2>2, <2>4
<1> QED BY <1>4, <1>5

LEMMA InitialPlace ==
    ASSUME NEW steps \in Seq(PlanStep), NEW i, i = SelectInSeq(steps, LAMBDA s : s.st # "done")
    PROVE  \/ i = 0 /\ \A j \in DOMAIN steps : steps[j].st = "done"
           \/ /\ i \in DOMAIN steps /\ steps[i].st # "done"
              /\ \A j \in 1..(i - 1) : steps[j].st = "done"
<1>1. PICK I : I = {j \in 1..Len(steps) : steps[j].st # "done"}
  OBVIOUS
<1>2. i = IF I # {} THEN Min(I) ELSE 0
  BY <1>1 DEF SelectInSeq
<1>3. Len(steps) \in Nat /\ DOMAIN steps = 1..Len(steps)
  BY StepsTyped
<1>4. CASE I = {}
  BY <1>1, <1>2, <1>3, <1>4
<1>5. CASE I # {}
  <2>1. I \in SUBSET Nat
    BY <1>1, <1>3
  <2>2. i \in I /\ \A j \in I : i =< j
    BY <1>2, <1>5, <2>1, FirstPlace
  <2>3. i \in 1..Len(steps)
    BY <1>1, <2>2
  <2>4. ASSUME NEW j \in 1..(i - 1) PROVE steps[j].st = "done"
    <3>1. j \in 1..Len(steps) /\ ~(i =< j)
      BY <1>3, <2>3
    <3> QED BY <1>1, <2>2, <3>1
  <2> QED BY <1>1, <1>3, <2>2, <2>4
<1> QED BY <1>4, <1>5

\* A transition gives steps new statuses and changes nothing else of them.
Restated(steps, g) == [i \in DOMAIN steps |-> [steps[i] EXCEPT !.st = g[i]]]

LEMMA RestatedTyped ==
    ASSUME NEW steps \in Seq(PlanStep), NEW g \in [DOMAIN steps -> StepStatuses],
           NEW t, t = Restated(steps, g)
    PROVE  /\ t \in Seq(PlanStep) /\ Len(t) = Len(steps) /\ DOMAIN t = DOMAIN steps
           /\ SameSteps(steps, t)
           /\ \A i \in DOMAIN steps :
                /\ t[i].st = g[i] /\ t[i].id = steps[i].id /\ t[i].kind = steps[i].kind
                /\ t[i].tool = steps[i].tool /\ t[i].deps = steps[i].deps
<1>1. PICK n \in Nat : n = Len(steps) /\ DOMAIN steps = 1..n
  BY StepsTyped
<1>2. \A i \in 1..n : steps[i] \in PlanStep
  BY <1>1, StepsTyped
<1>3. DOMAIN t = 1..n /\ \A i \in 1..n : t[i] = [steps[i] EXCEPT !.st = g[i]]
  BY <1>1 DEF Restated
<1>4. ASSUME NEW i \in 1..n
      PROVE  /\ t[i] \in PlanStep /\ t[i].st = g[i] /\ t[i].id = steps[i].id
             /\ t[i].kind = steps[i].kind /\ t[i].tool = steps[i].tool /\ t[i].deps = steps[i].deps
  <2>1. PICK a \in PlanStep : a = steps[i]
    BY <1>2
  <2>2. PICK st \in StepStatuses : st = g[i]
    BY <1>1
  <2>3. t[i] = [a EXCEPT !.st = st]
    BY <1>3, <2>1, <2>2
  <2> QED BY <2>1, <2>2, <2>3 DEF PlanStep
<1>5. t \in [1..n -> PlanStep]
  <2>1. t = [i \in 1..n |-> t[i]]
    BY <1>1 DEF Restated
  <2> QED BY <1>4, <2>1
<1>6. t \in Seq(PlanStep) /\ Len(t) = n
  BY <1>5, SeqDef
<1>7. SameSteps(steps, t)
  BY <1>1, <1>3, <1>4, <1>6 DEF SameSteps
<1> QED BY <1>1, <1>3, <1>4, <1>6, <1>7

\* One step.
LEMMA SetStatusRestates ==
    ASSUME NEW steps \in Seq(PlanStep), NEW i \in DOMAIN steps, NEW st \in StepStatuses, NEW g,
           g = [j \in DOMAIN steps |-> IF j = i THEN st ELSE steps[j].st]
    PROVE  /\ SetStatus(steps, i, st) = Restated(steps, g) /\ g \in [DOMAIN steps -> StepStatuses]
<1>1. \A j \in DOMAIN steps : steps[j] \in PlanStep /\ steps[j].st \in StepStatuses
  BY StepsTyped DEF PlanStep
<1>2. g \in [DOMAIN steps -> StepStatuses]
  BY <1>1
<1>3. SetStatus(steps, i, st) = [j \in DOMAIN steps |-> IF j = i THEN [steps[j] EXCEPT !.st = st] ELSE steps[j]]
  <2>1. steps = [j \in DOMAIN steps |-> steps[j]]
    BY StepsTyped, LenProperties
  <2> QED BY <2>1 DEF SetStatus
<1>4. \A j \in DOMAIN steps : steps[j] = [steps[j] EXCEPT !.st = steps[j].st]
  <2> SUFFICES ASSUME NEW j \in DOMAIN steps PROVE steps[j] = [steps[j] EXCEPT !.st = steps[j].st]
    OBVIOUS
  <2>1. PICK a \in PlanStep : a = steps[j]
    BY <1>1
  <2>2. a = [a EXCEPT !.st = a.st]
    BY DEF PlanStep
  <2> QED BY <2>1, <2>2
<1> QED BY <1>2, <1>3, <1>4 DEF Restated

\* What a reducer of RunStateMachine may do to a snapshot.
Reduces(s, t) ==
    t = s \/ /\ s.status = "running" /\ t \in Snapshot
             /\ SameSteps(s.steps, t.steps) /\ DoneKept(s.steps, t.steps) /\ SettledWhole(t)

LEMMA SnapshotFields ==
    ASSUME NEW s \in Snapshot
    PROVE  /\ s.steps \in Seq(PlanStep) /\ s.status \in TerminalStatus \cup {"running"}
           /\ s = [status |-> s.status, steps |-> s.steps]
           /\ \A x : [s EXCEPT !.steps = x] = [status |-> s.status, steps |-> x]
           /\ s.status \notin TerminalStatus => s.status = "running"
BY DEF Snapshot

LEMMA RestatedReduces ==
    ASSUME NEW s \in Snapshot, s.status = "running", NEW g \in [DOMAIN s.steps -> StepStatuses],
           \A i \in DOMAIN s.steps : s.steps[i].st = "done" => g[i] = "done",
           NEW status \in TerminalStatus \cup {"running"},
           status \in {"done", "blocked", "canceled"} => \A i \in DOMAIN s.steps : g[i] \in Finished,
           status = "failed" => \A i \in DOMAIN s.steps : g[i] # "running",
           NEW t, t = [status |-> status, steps |-> Restated(s.steps, g)]
    PROVE  Reduces(s, t)
<1>1. PICK a \in Seq(PlanStep) : a = s.steps
  BY SnapshotFields
<1>2. PICK b : b = Restated(a, g)
  OBVIOUS
<1>3. /\ b \in Seq(PlanStep) /\ DOMAIN b = DOMAIN a /\ SameSteps(a, b)
      /\ \A i \in DOMAIN a : b[i].st = g[i] /\ b[i].id = a[i].id
  BY <1>1, <1>2, RestatedTyped
<1>4. t = [status |-> status, steps |-> b] /\ t.status = status /\ t.steps = b
  BY <1>1, <1>2
<1>5. t \in Snapshot
  BY <1>3, <1>4 DEF Snapshot
<1>6. DoneKept(a, b)
  BY <1>1, <1>3 DEF DoneKept
<1>7. SettledWhole(t)
  BY <1>1, <1>3, <1>4 DEF SettledWhole
<1> QED BY <1>1, <1>3, <1>4, <1>5, <1>6, <1>7 DEF Reduces

\* One step that is not done gets another status.
LEMMA SetStatusReduces ==
    ASSUME NEW s \in Snapshot, s.status = "running", NEW i \in DOMAIN s.steps, s.steps[i].st # "done",
           NEW st \in StepStatuses, NEW t, t = [s EXCEPT !.steps = SetStatus(s.steps, i, st)]
    PROVE  Reduces(s, t)
<1>1. PICK a \in Seq(PlanStep) : a = s.steps
  BY SnapshotFields
<1>2. PICK g : g = [j \in DOMAIN a |-> IF j = i THEN st ELSE a[j].st]
  OBVIOUS
<1>3. SetStatus(a, i, st) = Restated(a, g) /\ g \in [DOMAIN a -> StepStatuses]
  BY <1>1, <1>2, SetStatusRestates
<1>4. t = [status |-> "running", steps |-> Restated(s.steps, g)]
  BY <1>1, <1>3, SnapshotFields
<1>5. \A j \in DOMAIN s.steps : s.steps[j].st = "done" => g[j] = "done"
  BY <1>1, <1>2
<1> QED BY <1>1, <1>3, <1>4, <1>5, RestatedReduces

\* Reductions compose while the Run is running.
LEMMA ReducesTransitive ==
    ASSUME NEW s \in Snapshot, NEW t \in Snapshot, NEW u, Reduces(s, t), Reduces(t, u)
    PROVE  Reduces(s, u)
<1>1. CASE t = s \/ u = t
  BY <1>1
<1>2. CASE t # s /\ u # t
  <2>1. /\ s.status = "running" /\ u \in Snapshot /\ SettledWhole(u)
        /\ SameSteps(s.steps, t.steps) /\ SameSteps(t.steps, u.steps)
        /\ DoneKept(s.steps, t.steps) /\ DoneKept(t.steps, u.steps)
    BY <1>2 DEF Reduces
  <2>2. s.steps \in Seq(PlanStep) /\ t.steps \in Seq(PlanStep) /\ u.steps \in Seq(PlanStep)
    BY <2>1, SnapshotFields
  <2>3. DOMAIN s.steps = DOMAIN t.steps /\ DOMAIN t.steps = DOMAIN u.steps
    BY <2>1, <2>2, StepsTyped DEF SameSteps
  <2>4. SameSteps(s.steps, u.steps)
    <3> SUFFICES ASSUME NEW i \in DOMAIN s.steps
                 PROVE  u.steps[i] = [s.steps[i] EXCEPT !.st = u.steps[i].st]
      BY <2>1 DEF SameSteps
    <3>1. PICK a \in PlanStep, b \in PlanStep, c \in PlanStep : a = s.steps[i] /\ b = t.steps[i] /\ c = u.steps[i]
      BY <2>2, <2>3, StepsTyped
    <3>2. b = [a EXCEPT !.st = b.st] /\ c = [b EXCEPT !.st = c.st]
      BY <2>1, <2>3, <3>1 DEF SameSteps
    <3>3. c = [a EXCEPT !.st = c.st]
      BY <3>2 DEF PlanStep
    <3> QED BY <3>1, <3>3
  <2>5. DoneKept(s.steps, u.steps)
    BY <2>1 DEF DoneKept
  <2> QED BY <2>1, <2>4, <2>5 DEF Reduces
<1> QED BY <1>1, <1>2

LEMMA OnModelDeltaReduces ==
    ASSUME NEW s \in Snapshot
    PROVE  Reduces(s, OnModelDelta(s))
<1>1. PICK next : next = NextIncomplete(s.steps)
  OBVIOUS
<1>2. CASE OnModelDelta(s) = s
  BY <1>2 DEF Reduces
<1>3. CASE OnModelDelta(s) # s
  <2>1. /\ s.status \notin TerminalStatus /\ next # 0
        /\ OnModelDelta(s) = [s EXCEPT !.steps = SetStatus(s.steps, next, "running")]
    BY <1>1, <1>3 DEF OnModelDelta
  <2>2. s.steps \in Seq(PlanStep) /\ s.status = "running"
    BY <2>1, SnapshotFields
  <2>3. next \in DOMAIN s.steps /\ s.steps[next].st \notin Finished
    BY <1>1, <2>1, <2>2, NextPlace
  <2> QED BY <2>1, <2>2, <2>3, SetStatusReduces DEF Finished, StepStatuses
<1> QED BY <1>2, <1>3

LEMMA OnToolCallsStartedReduces ==
    ASSUME NEW s \in Snapshot, CanStartTools(s)
    PROVE  Reduces(s, OnToolCallsStarted(s))
<1>1. CASE s.status \in TerminalStatus
  BY <1>1 DEF Reduces, OnToolCallsStarted
<1>2. CASE s.status \notin TerminalStatus
  <2>1. s.steps \in Seq(PlanStep) /\ s.status = "running"
    BY <1>2, SnapshotFields
  <2>2. PICK model : model = RunningOf(s.steps, "model")
    OBVIOUS
  <2>3. PICK steps : steps = IF model = 0 THEN s.steps ELSE SetStatus(s.steps, model, "done")
    OBVIOUS
  <2>4. PICK u : u = [s EXCEPT !.steps = steps]
    OBVIOUS
  <2>5. Reduces(s, u)
    <3>1. CASE model = 0
      <4>1. u = s
        BY <2>3, <2>4, <3>1, SnapshotFields
      <4> QED BY <4>1 DEF Reduces
    <3>2. CASE model # 0
      <4>1. model \in DOMAIN s.steps /\ s.steps[model].st = "running"
        BY <2>1, <2>2, <3>2, RunningOfPlace
      <4>2. u = [s EXCEPT !.steps = SetStatus(s.steps, model, "done")]
        BY <2>3, <2>4, <3>2
      <4> QED BY <2>1, <4>1, <4>2, SetStatusReduces DEF Finished, StepStatuses
    <3> QED BY <3>1, <3>2
  <2>6. u \in Snapshot
    BY <2>5 DEF Reduces
  <2>7. u.steps = steps /\ u.status = "running"
    BY <2>1, <2>4, SnapshotFields
  <2>8. steps \in Seq(PlanStep)
    BY <2>6, <2>7, SnapshotFields
  <2>9. PICK tool : tool = IF RunningOf(steps, "tool") # 0 THEN RunningOf(steps, "tool") ELSE NextIncomplete(steps)
    OBVIOUS
  <2>10. tool \in DOMAIN steps /\ steps[tool].st # "done"
    <3>1. CASE RunningOf(steps, "tool") # 0
      BY <2>8, <2>9, <3>1, RunningOfPlace
    <3>2. CASE RunningOf(steps, "tool") = 0
      <4>1. NextIncomplete(steps) # 0
        BY <1>2, <2>2, <2>3, <3>2 DEF CanStartTools
      <4> QED BY <2>8, <2>9, <3>2, <4>1, NextPlace DEF Finished
    <3> QED BY <3>1, <3>2
  <2>11. PICK v : v = [u EXCEPT !.steps = SetStatus(u.steps, tool, "running")]
    OBVIOUS
  <2>12. Reduces(u, v)
    BY <2>6, <2>7, <2>10, <2>11, SetStatusReduces DEF StepStatuses
  <2>13. OnToolCallsStarted(s) = [s EXCEPT !.steps = SetStatus(steps, tool, "running")]
    BY <1>2, <2>2, <2>3, <2>9 DEF OnToolCallsStarted
  <2>14. OnToolCallsStarted(s) = v
    BY <2>1, <2>4, <2>6, <2>7, <2>11, <2>13, SnapshotFields
  <2> QED BY <2>5, <2>6, <2>12, <2>14, ReducesTransitive
<1> QED BY <1>1, <1>2

LEMMA OnToolRoundCompletedReduces ==
    ASSUME NEW s \in Snapshot, NEW outcome
    PROVE  Reduces(s, OnToolRoundCompleted(s, outcome))
<1>1. PICK tool : tool = RunningOf(s.steps, "tool")
  OBVIOUS
<1>2. CASE s.status \in TerminalStatus \/ tool = 0 \/ outcome = "progressed"
  BY <1>1, <1>2 DEF Reduces, OnToolRoundCompleted
<1>3. CASE ~(s.status \in TerminalStatus \/ tool = 0 \/ outcome = "progressed")
  <2>1. s.steps \in Seq(PlanStep) /\ s.status = "running"
    BY <1>3, SnapshotFields
  <2>2. tool \in DOMAIN s.steps /\ s.steps[tool].st = "running"
    BY <1>1, <1>3, <2>1, RunningOfPlace
  <2>3. CASE outcome = "declined"
    <3>1. OnToolRoundCompleted(s, outcome) = [s EXCEPT !.steps = SetStatus(s.steps, tool, "blocked")]
      BY <1>1, <1>3, <2>3 DEF OnToolRoundCompleted
    <3> QED BY <2>1, <2>2, <3>1, SetStatusReduces DEF StepStatuses, Finished
  <2>4. CASE outcome # "declined"
    <3>1. PICK done : done = SetStatus(s.steps, tool, "done")
      OBVIOUS
    <3>2. PICK u : u = [s EXCEPT !.steps = done]
      OBVIOUS
    <3>3. Reduces(s, u) /\ u # s
      <4>1. Reduces(s, u)
        BY <2>1, <2>2, <3>1, <3>2, SetStatusReduces DEF StepStatuses, Finished
      <4>2. u.steps = done /\ done[tool].st = "done"
        <5>1. u.steps = done
          BY <3>2, SnapshotFields
        <5>2. s.steps[tool] \in PlanStep
          BY <2>1, <2>2, StepsTyped
        <5> QED BY <2>2, <3>1, <5>1, <5>2 DEF SetStatus, PlanStep
      <4> QED BY <2>2, <4>1, <4>2
    <3>4. u \in Snapshot /\ u.status = "running" /\ u.steps = done
      BY <2>1, <3>2, <3>3, SnapshotFields DEF Reduces
    <3>5. done \in Seq(PlanStep)
      BY <3>4, SnapshotFields
    <3>6. PICK next : next = NextIncomplete(done)
      OBVIOUS
    <3>7. OnToolRoundCompleted(s, outcome) = [s EXCEPT !.steps = IF next = 0 THEN done ELSE SetStatus(done, next, "running")]
      BY <1>1, <1>3, <2>4, <3>1, <3>6 DEF OnToolRoundCompleted
    <3>8. CASE next = 0
      BY <3>2, <3>3, <3>7, <3>8
    <3>9. CASE next # 0
      <4>1. next \in DOMAIN done /\ done[next].st \notin Finished
        BY <3>5, <3>6, <3>9, NextPlace
      <4>2. PICK v : v = [u EXCEPT !.steps = SetStatus(u.steps, next, "running")]
        OBVIOUS
      <4>3. Reduces(u, v)
        BY <3>4, <4>1, <4>2, SetStatusReduces DEF StepStatuses, Finished
      <4>4. OnToolRoundCompleted(s, outcome) = v
        BY <2>1, <3>2, <3>4, <3>7, <3>9, <4>2, SnapshotFields
      <4> QED BY <3>3, <3>4, <4>3, <4>4, ReducesTransitive
    <3> QED BY <3>8, <3>9
  <2> QED BY <2>3, <2>4
<1> QED BY <1>2, <1>3

LEMMA OnToolRoundFailedReduces ==
    ASSUME NEW s \in Snapshot, s.status \in TerminalStatus \/ RunningOf(s.steps, "tool") # 0
    PROVE  Reduces(s, OnToolRoundFailed(s))
<1>1. CASE s.status \in TerminalStatus
  BY <1>1 DEF Reduces, OnToolRoundFailed
<1>2. CASE s.status \notin TerminalStatus
  <2>1. s.steps \in Seq(PlanStep) /\ s.status = "running"
    BY <1>2, SnapshotFields
  <2>2. PICK tool : tool = RunningOf(s.steps, "tool")
    OBVIOUS
  <2>3. tool \in DOMAIN s.steps /\ s.steps[tool].st = "running"
    BY <1>2, <2>1, <2>2, RunningOfPlace
  <2>4. OnToolRoundFailed(s) = [s EXCEPT !.steps = SetStatus(s.steps, tool, "failed")]
    BY <1>2, <2>2 DEF OnToolRoundFailed
  <2> QED BY <2>1, <2>3, <2>4, SetStatusReduces DEF StepStatuses, Finished
<1> QED BY <1>1, <1>2

\* A step keeps its status or gets another one.
LEMMA KeptStatus ==
    ASSUME NEW steps \in Seq(PlanStep), NEW i \in DOMAIN steps
    PROVE  /\ steps[i] \in PlanStep /\ steps[i].st \in StepStatuses
           /\ steps[i] = [steps[i] EXCEPT !.st = steps[i].st]
<1>1. PICK a \in PlanStep : a = steps[i]
  BY StepsTyped
<1>2. a = [a EXCEPT !.st = a.st] /\ a.st \in StepStatuses
  BY DEF PlanStep
<1> QED BY <1>1, <1>2

LEMMA CloseReduces ==
    ASSUME NEW s \in Snapshot, NEW from, NEW to \in StepStatuses,
           NEW status \in TerminalStatus \cup {"running"},
           "done" \in from => to = "done",
           status \in {"done", "blocked", "canceled"} =>
              to \in Finished /\ "pending" \in from /\ "running" \in from,
           status = "failed" => to # "running" /\ "running" \in from
    PROVE  Reduces(s, Close(s, from, to, status))
<1>1. CASE s.status \in TerminalStatus
  BY <1>1 DEF Reduces, Close
<1>2. CASE s.status \notin TerminalStatus
  <2>1. PICK a \in Seq(PlanStep) : a = s.steps
    BY SnapshotFields
  <2>2. PICK g : g = [i \in DOMAIN a |-> IF a[i].st \in from THEN to ELSE a[i].st]
    OBVIOUS
  <2>3. g \in [DOMAIN a -> StepStatuses]
    BY <2>2, KeptStatus
  <2>4. \A i \in DOMAIN a : (IF a[i].st \in from THEN [a[i] EXCEPT !.st = to] ELSE a[i])
                               = [a[i] EXCEPT !.st = g[i]]
    BY <2>2, KeptStatus
  <2>5. Close(s, from, to, status) = [status |-> status, steps |-> Restated(a, g)]
    <3>1. Close(s, from, to, status)
            = [status |-> status,
               steps |-> [i \in DOMAIN a |-> IF a[i].st \in from THEN [a[i] EXCEPT !.st = to] ELSE a[i]]]
      BY <1>2, <2>1 DEF Close
    <3> QED BY <2>4, <3>1 DEF Restated
  <2>6. \A i \in DOMAIN a : a[i].st = "done" => g[i] = "done"
    BY <2>2
  <2>7. \A i \in DOMAIN a : a[i].st \in Finished \cup {"pending", "running"}
    BY KeptStatus DEF StepStatuses
  <2>8. status \in {"done", "blocked", "canceled"} => \A i \in DOMAIN a : g[i] \in Finished
    BY <2>2, <2>7
  <2>9. status = "failed" => \A i \in DOMAIN a : g[i] # "running"
    BY <2>2
  <2>10. s.status = "running"
    BY <1>2, SnapshotFields
  <2> QED BY <2>1, <2>3, <2>5, <2>6, <2>8, <2>9, <2>10, RestatedReduces
<1> QED BY <1>1, <1>2

LEMMA SettlingReduces ==
    ASSUME NEW s \in Snapshot
    PROVE  /\ Reduces(s, FinishDurable(s)) /\ Reduces(s, CompleteDurable(s))
           /\ Reduces(s, Fail(s)) /\ Reduces(s, Cancel(s))
<1>1. Reduces(s, FinishDurable(s))
  BY CloseReduces DEF FinishDurable, StepStatuses, Finished
<1>2. Reduces(s, CompleteDurable(s))
  BY CloseReduces DEF CompleteDurable, StepStatuses, Finished, TerminalStatus
<1>3. Reduces(s, Fail(s))
  BY CloseReduces DEF Fail, StepStatuses, Finished, TerminalStatus
<1>4. Reduces(s, Cancel(s))
  BY CloseReduces DEF Cancel, StepStatuses, Finished, TerminalStatus
<1> QED BY <1>1, <1>2, <1>3, <1>4

LEMMA SyncDurableReduces ==
    ASSUME NEW s \in Snapshot, NEW report \in [Ids(s.steps) -> StepStatuses]
    PROVE  Reduces(s, SyncDurable(s, report))
<1>1. CASE s.status \in TerminalStatus
  BY <1>1 DEF Reduces, SyncDurable
<1>2. CASE s.status \notin TerminalStatus
  <2>1. PICK a \in Seq(PlanStep) : a = s.steps
    BY SnapshotFields
  <2>2. PICK g : g = [i \in DOMAIN a |-> IF a[i].st = "done" THEN a[i].st ELSE report[a[i].id]]
    OBVIOUS
  <2>3. g \in [DOMAIN a -> StepStatuses]
    <3>1. \A i \in DOMAIN a : a[i].id \in Ids(s.steps)
      BY <2>1 DEF Ids
    <3> QED BY <2>2, <3>1, KeptStatus
  <2>4. \A i \in DOMAIN a : (IF a[i].st = "done" THEN a[i] ELSE [a[i] EXCEPT !.st = report[a[i].id]])
                               = [a[i] EXCEPT !.st = g[i]]
    BY <2>2, KeptStatus
  <2>5. SyncDurable(s, report) = [status |-> s.status, steps |-> Restated(a, g)]
    <3>1. SyncDurable(s, report)
            = [s EXCEPT !.steps = [i \in DOMAIN a |-> IF a[i].st = "done" THEN a[i]
                                                    ELSE [a[i] EXCEPT !.st = report[a[i].id]]]]
      BY <1>2, <2>1 DEF SyncDurable
    <3>2. PICK b : b = [i \in DOMAIN a |-> IF a[i].st = "done" THEN a[i]
                                          ELSE [a[i] EXCEPT !.st = report[a[i].id]]]
      OBVIOUS
    <3>3. b = Restated(a, g)
      BY <2>4, <3>2 DEF Restated
    <3> QED BY <3>1, <3>2, <3>3, SnapshotFields
  <2>6. s.status = "running"
    BY <1>2, SnapshotFields
  <2> QED BY <2>1, <2>2, <2>3, <2>5, <2>6, RestatedReduces
<1> QED BY <1>1, <1>2

LEMMA CompleteReduces ==
    ASSUME NEW s \in Snapshot
    PROVE  Reduces(s, Complete(s))
<1>1. CASE s.status \in TerminalStatus
  BY <1>1 DEF Reduces, Complete
<1>2. CASE s.status \notin TerminalStatus
  <2>1. PICK a \in Seq(PlanStep) : a = s.steps
    BY SnapshotFields
  <2>2. PICK open : open = {i \in DOMAIN a : a[i].st \in {"pending", "running"}}
    OBVIOUS
  <2>3. PICK work \in BOOLEAN : work = (\E i \in open : a[i].kind = "tool")
    BY Zenon
  <2> DEFINE close(i) == IF a[i].kind = "model" /\ (a[i].st = "running" \/ ~work)
                         THEN "done" ELSE "blocked"
  <2>4. PICK g : g = [i \in DOMAIN a |-> IF i \in open THEN close(i) ELSE a[i].st]
    OBVIOUS
  <2>5. PICK status : status = IF work THEN "blocked" ELSE "done"
    OBVIOUS
  <2>6. Complete(s) = [status |-> status,
                       steps |-> [i \in DOMAIN a |-> IF i \in open THEN [a[i] EXCEPT !.st = close(i)]
                                                     ELSE a[i]]]
    BY <1>2, <2>1, <2>2, <2>3, <2>5 DEF Complete
  <2>7. g \in [DOMAIN a -> StepStatuses]
    BY <2>4, KeptStatus DEF StepStatuses, Finished
  <2>8. \A i \in DOMAIN a : (IF i \in open THEN [a[i] EXCEPT !.st = close(i)] ELSE a[i])
                               = [a[i] EXCEPT !.st = g[i]]
    <3> HIDE DEF close
    <3> QED BY <2>4, KeptStatus
  <2>9. Complete(s) = [status |-> status, steps |-> Restated(a, g)]
    <3> HIDE DEF close
    <3> QED BY <2>6, <2>8 DEF Restated
  <2>10. \A i \in DOMAIN a : a[i].st = "done" => g[i] = "done"
    BY <2>2, <2>4
  <2>11. \A i \in DOMAIN a : g[i] \in Finished
    BY <2>2, <2>4, KeptStatus DEF StepStatuses, Finished
  <2>12. s.status = "running"
    BY <1>2, SnapshotFields
  <2>13. status \in TerminalStatus /\ status # "failed"
    BY <2>5 DEF TerminalStatus
  <2> QED BY <2>1, <2>7, <2>9, <2>10, <2>11, <2>12, <2>13, RestatedReduces
<1> QED BY <1>1, <1>2

\* What a cancellation leaves.
LEMMA CancelLegal ==
    ASSUME NEW s \in Snapshot, s.status = "running", LegalSnapshot(s), NEW t, t = Cancel(s)
    PROVE  /\ t \in Snapshot /\ LegalSnapshot(t) /\ t.status = "canceled" /\ SettledWhole(t)
           /\ DoneKept(s.steps, t.steps) /\ SameSteps(s.steps, t.steps)
<1>1. Reduces(s, t)
  BY SettlingReduces
<1>2. t.status = "canceled" /\ t # s
  BY DEF Cancel, Close, TerminalStatus
<1>3. /\ t \in Snapshot /\ SettledWhole(t)
      /\ DoneKept(s.steps, t.steps) /\ SameSteps(s.steps, t.steps)
  BY <1>1, <1>2 DEF Reduces
<1>4. PICK a \in Seq(PlanStep), b \in Seq(PlanStep) : a = s.steps /\ b = t.steps
  BY <1>3, SnapshotFields
<1>5. DOMAIN a = DOMAIN b /\ Len(a) = Len(b)
  BY <1>3, <1>4, StepsTyped DEF SameSteps
<1>6. \A i \in DOMAIN a : a[i].id = b[i].id
  <2> SUFFICES ASSUME NEW i \in DOMAIN a PROVE a[i].id = b[i].id
    OBVIOUS
  <2>1. PICK x \in PlanStep, y \in PlanStep : x = a[i] /\ y = b[i]
    BY <1>5, StepsTyped
  <2>2. y = [x EXCEPT !.st = y.st]
    BY <1>3, <1>4, <2>1 DEF SameSteps
  <2> QED BY <2>1, <2>2 DEF PlanStep
<1>7. Ids(a) = Ids(b)
  BY <1>5, <1>6 DEF Ids
<1>8. {i \in DOMAIN b : b[i].st = "running"} = {}
  BY <1>2, <1>3, <1>4 DEF SettledWhole, Finished
<1>9. Cardinality({i \in DOMAIN b : b[i].st = "running"}) = 0
  BY <1>8, FS_EmptySet
<1>10. Cardinality(Ids(b)) = Len(b)
  BY <1>4, <1>5, <1>7 DEF LegalSnapshot
<1>11. LegalSnapshot(t)
  BY <1>4, <1>8, <1>9, <1>10 DEF LegalSnapshot
<1> QED BY <1>2, <1>3, <1>11

\* The ids of a legal snapshot name its steps.
LEMMA IdsDistinct ==
    ASSUME NEW s \in Snapshot, LegalSnapshot(s),
           NEW i \in DOMAIN s.steps, NEW j \in DOMAIN s.steps, s.steps[i].id = s.steps[j].id
    PROVE  i = j
<1>1. PICK a \in Seq(PlanStep) : a = s.steps
  BY SnapshotFields
<1>2. PICK n \in Nat : n = Len(a) /\ DOMAIN a = 1..n
  BY StepsTyped
<1>3. PICK f : f = [k \in 1..n |-> a[k].id]
  OBVIOUS
<1>4. f \in Surjection(1..n, Ids(a))
  <2>1. Ids(a) = {f[k] : k \in 1..n}
    BY <1>2, <1>3 DEF Ids
  <2> QED BY <1>3, <2>1 DEF Surjection
<1>5. IsFiniteSet(1..n) /\ Cardinality(1..n) = n
  BY FS_Interval
<1>6. Cardinality(Ids(a)) = n
  BY <1>1, <1>2 DEF LegalSnapshot
<1>7. f \in Injection(1..n, Ids(a))
  <2> HIDE <1>3
  <2> QED BY <1>4, <1>5, <1>6, FS_Surjection
<1> QED BY <1>1, <1>2, <1>3, <1>7 DEF Injection, IsInjective

\* Applied to the record that the transition started from, its updates make the
\* new steps.
LEMMA UpdatedSteps ==
    ASSUME snap \in Snapshot, LegalSnapshot(snap), op \in RunCommit, LegalSnapshot(op.after),
           SameSteps(snap.steps, op.after.steps)
    PROVE  Updated(snap.steps) = op.after.steps
<1>1. PICK a \in Seq(PlanStep), b \in Seq(PlanStep) : a = snap.steps /\ b = op.after.steps
  BY SnapshotFields DEF RunCommit
<1>2. op.after \in Snapshot
  BY DEF RunCommit
<1>3. DOMAIN a = DOMAIN b
  BY <1>1, StepsTyped DEF SameSteps
<1>4. \A i \in DOMAIN a : b[i] = [a[i] EXCEPT !.st = b[i].st] /\ a[i].id = b[i].id
  <2> SUFFICES ASSUME NEW i \in DOMAIN a
               PROVE  b[i] = [a[i] EXCEPT !.st = b[i].st] /\ a[i].id = b[i].id
    OBVIOUS
  <2>1. PICK x \in PlanStep, y \in PlanStep : x = a[i] /\ y = b[i]
    BY <1>3, StepsTyped
  <2>2. y = [x EXCEPT !.st = y.st]
    BY <1>1, <2>1 DEF SameSteps
  <2> QED BY <2>1, <2>2 DEF PlanStep
<1>5. PICK ids : ids = {b[i].id : i \in {k \in DOMAIN b : b[k] # a[k]}}
  OBVIOUS
<1>6. Updated(a) = [i \in DOMAIN a |-> IF a[i].id \in ids
                                       THEN [a[i] EXCEPT !.st = StatusOf(b, a[i].id)] ELSE a[i]]
  BY <1>1, <1>5 DEF Updated
<1>7. ASSUME NEW i \in DOMAIN a PROVE StatusOf(b, a[i].id) = b[i].st
  <2>1. b[i] \in ToSet(b) /\ b[i].id = a[i].id
    BY <1>3, <1>4 DEF ToSet
  <2>2. PICK x : x = CHOOSE s \in ToSet(b) : s.id = a[i].id
    OBVIOUS
  <2>3. x \in ToSet(b) /\ x.id = a[i].id
    BY <2>1, <2>2
  <2>4. PICK j \in DOMAIN b : x = b[j]
    BY <2>3 DEF ToSet
  <2>5. i = j
    BY <1>1, <1>2, <1>3, <2>1, <2>3, <2>4, IdsDistinct
  <2> QED BY <2>2, <2>4, <2>5 DEF StatusOf
<1>8. ASSUME NEW i \in DOMAIN a
      PROVE  b[i] = IF a[i].id \in ids THEN [a[i] EXCEPT !.st = StatusOf(b, a[i].id)] ELSE a[i]
  <2>1. CASE a[i].id \in ids
    BY <1>4, <1>7, <2>1
  <2>2. CASE a[i].id \notin ids
    BY <1>3, <1>4, <1>5, <2>2
  <2> QED BY <2>1, <2>2
<1>9. b = [i \in DOMAIN a |-> b[i]]
  BY <1>3, LenProperties
<1>10. b = Updated(a)
  BY <1>6, <1>8, <1>9
<1> QED BY <1>1, <1>10

\* Picked takes places of a sequence in their order.
PicksAt(f, seq, set, p) ==
    /\ f \in [DOMAIN p -> DOMAIN seq]
    /\ \A k \in DOMAIN p : p[k] = seq[f[k]] /\ seq[f[k]] \in set
    /\ \A k, l \in DOMAIN p : k < l => f[k] < f[l]
    /\ \A i \in DOMAIN seq : seq[i] \in set => \E k \in DOMAIN p : f[k] = i

LEMMA PickedPlaces ==
    ASSUME NEW T, NEW seq \in Seq(T), NEW set, NEW p, p = Picked(seq, set)
    PROVE  p \in Seq(T) /\ \E f : PicksAt(f, seq, set, p)
<1>1. PICK P : P = {i \in DOMAIN seq : seq[i] \in set}
  OBVIOUS
<1>2. P \in SUBSET Nat /\ IsFiniteSet(P)
  <2>1. PICK m \in Nat : DOMAIN seq = 1..m
    BY LenProperties
  <2>2. IsFiniteSet(1..m) /\ P \in SUBSET (1..m)
    BY <1>1, <2>1, FS_Interval
  <2>3. IsFiniteSet(P)
    BY <2>2, FS_Subset
  <2> QED BY <2>1, <2>2, <2>3
<1>3. PICK n \in Nat : n = Cardinality(P)
  BY <1>2, AscendingLists
<1>4. PICK f : f = Ascending(P)
  OBVIOUS
<1>5. /\ f \in [1..n -> P]
      /\ \A i, j \in 1..n : i < j => f[i] < f[j]
      /\ \A x \in P : \E i \in 1..n : f[i] = x
  BY <1>2, <1>3, <1>4, AscendingLists
<1>6. p = [k \in 1..n |-> seq[f[k]]]
  BY <1>1, <1>3, <1>4, <1>5 DEF Picked
<1>7. p \in [1..n -> T]
  <2>1. \A i \in DOMAIN seq : seq[i] \in T
    BY LenProperties, ElementOfSeq
  <2> QED BY <1>1, <1>5, <1>6, <2>1
<1>8. p \in Seq(T) /\ DOMAIN p = 1..n
  BY <1>7, SeqDef
<1>9. f \in [DOMAIN p -> DOMAIN seq]
  BY <1>1, <1>5, <1>8
<1>10. \A k \in DOMAIN p : p[k] = seq[f[k]] /\ seq[f[k]] \in set
  BY <1>1, <1>5, <1>6, <1>8
<1>11. \A i \in DOMAIN seq : seq[i] \in set => \E k \in DOMAIN p : f[k] = i
  BY <1>1, <1>5, <1>8
<1>12. PicksAt(f, seq, set, p)
  BY <1>5, <1>8, <1>9, <1>10, <1>11 DEF PicksAt
<1> QED BY <1>8, <1>12

\* There is an unused id, and UniqueStepId finds one.
LEMMA UnusedId ==
    ASSUME NEW used, IsFiniteSet(used), NEW n, n = UniqueStepId(used)
    PROVE  n \in Nat /\ n >= RespondId /\ n \notin used
<1>1. RespondId \in Nat
  BY PlanAssumption
<1>2. PICK c \in Nat : c = Cardinality(used)
  BY FS_CardinalityType
<1>3. PICK I : I = {m \in RespondId..(RespondId + c) : m \notin used}
  OBVIOUS
<1>4. I # {}
  <2> SUFFICES ASSUME I = {} PROVE FALSE
    OBVIOUS
  <2>1. RespondId..(RespondId + c) \subseteq used
    BY <1>3
  <2>2. RespondId + c \in Int /\ RespondId \in Int
    BY <1>1
  <2>3. Cardinality(RespondId..(RespondId + c)) = c + 1
    <3>1. PICK z \in Int : z = RespondId + c
      BY <2>2
    <3>2. Cardinality(RespondId..z) = IF RespondId > z THEN 0 ELSE z - RespondId + 1
      BY <2>2, FS_Interval
    <3> QED BY <1>1, <3>1, <3>2
  <2>4. Cardinality(RespondId..(RespondId + c)) =< Cardinality(used)
    BY <2>1, FS_Subset
  <2> QED BY <1>2, <2>3, <2>4
<1>5. I \in SUBSET Nat
  BY <1>1, <1>3
<1>6. PICK x : x = Min(I)
  OBVIOUS
<1>7. x \in I /\ \A j \in I : x =< j
  BY <1>4, <1>5, <1>6, FirstPlace
<1>8. /\ x \in RespondId..(RespondId + c) /\ x \notin used
      /\ \A m \in RespondId..(x - 1) : m \in used
  <2>1. x \in RespondId..(RespondId + c) /\ x \notin used
    BY <1>3, <1>7
  <2>2. ASSUME NEW m \in RespondId..(x - 1) PROVE m \in used
    <3>1. m \in RespondId..(RespondId + c) /\ ~(x =< m)
      BY <1>1, <2>1
    <3> QED BY <1>3, <1>7, <3>1
  <2> QED BY <2>1, <2>2
<1>9. n \in RespondId..(RespondId + c) /\ n \notin used
  BY <1>2, <1>8 DEF UniqueStepId
<1> QED BY <1>1, <1>9

LEMMA IdsFinite ==
    ASSUME NEW steps \in Seq(PlanStep)
    PROVE  IsFiniteSet(Ids(steps))
<1>1. PICK m \in Nat : DOMAIN steps = 1..m
  BY StepsTyped
<1>2. IsFiniteSet(1..m)
  BY <1>1, FS_Interval
<1>3. PICK f : f = [i \in 1..m |-> steps[i].id]
  OBVIOUS
<1>4. f \in Surjection(1..m, Ids(steps))
  <2>1. Ids(steps) = {f[i] : i \in 1..m}
    BY <1>1, <1>3 DEF Ids
  <2> QED BY <1>3, <2>1 DEF Surjection
<1> QED BY <1>2, <1>4, FS_Surjection

\* Initialize starts one step.
LEMMA InitializeTyped ==
    ASSUME NEW plan \in Seq(PlanStep), NEW t, t = Initialize(plan)
    PROVE  /\ t \in Seq(PlanStep) /\ DOMAIN t = DOMAIN plan
           /\ \A i \in DOMAIN plan :
                /\ t[i].id = plan[i].id /\ t[i].kind = plan[i].kind
                /\ t[i].st = plan[i].st \/ /\ t[i].st = "running"
                                           /\ \A j \in 1..(i - 1) : plan[j].st = "done"
<1>1. PICK first : first = SelectInSeq(plan, LAMBDA s : s.st # "done")
  OBVIOUS
<1>2. CASE first = 0
  <2>1. t = plan
    BY <1>1, <1>2 DEF Initialize
  <2> QED BY <2>1
<1>3. CASE first # 0
  <2>1. t = SetStatus(plan, first, "running")
    BY <1>1, <1>3 DEF Initialize
  <2>2. first \in DOMAIN plan /\ \A j \in 1..(first - 1) : plan[j].st = "done"
    BY <1>1, <1>3, InitialPlace
  <2>3. PICK g : g = [j \in DOMAIN plan |-> IF j = first THEN "running" ELSE plan[j].st]
    OBVIOUS
  <2>4. t = Restated(plan, g) /\ g \in [DOMAIN plan -> StepStatuses]
    BY <2>1, <2>2, <2>3, SetStatusRestates DEF StepStatuses
  <2>5. /\ t \in Seq(PlanStep) /\ DOMAIN t = DOMAIN plan
        /\ \A i \in DOMAIN plan : t[i].st = g[i] /\ t[i].id = plan[i].id /\ t[i].kind = plan[i].kind
    BY <2>4, RestatedTyped
  <2> QED BY <2>2, <2>3, <2>5
<1> QED BY <1>2, <1>3

\* A revised plan is the finished history and a new future.
RevisedAs(steps, plan, history, open, future, fresh) ==
    /\ history = Picked(steps, {s \in ToSet(steps) : s.st \in Finished})
    /\ open = Picked(plan, {s \in ToSet(plan) : s.id \notin Ids(history)})
    /\ future = IF open = <<>> THEN <<Respond(UniqueStepId(Ids(history)))>> ELSE open
    /\ fresh = LET current == {s.id : s \in {x \in ToSet(steps) : x.st = "running"}}
               IN  IF current \cap Ids(future) = {} THEN Initialize(future)
                   ELSE [i \in DOMAIN future |->
                           [future[i] EXCEPT !.st = IF future[i].id \in current
                                                    THEN "running" ELSE "pending"]]

LEMMA RespondTyped ==
    ASSUME NEW n \in Nat
    PROVE  /\ Respond(n) \in PlanStep /\ <<Respond(n)>> \in Seq(PlanStep)
           /\ DOMAIN <<Respond(n)>> = 1..1 /\ <<Respond(n)>>[1] = Respond(n)
           /\ Respond(n).id = n /\ Respond(n).st = "pending" /\ Respond(n).kind = "model"
<1>1. Respond(n) \in PlanStep
  BY DEF Respond, PlanStep, ToolNames, StepStatuses
<1>2. Respond(n).id = n /\ Respond(n).st = "pending" /\ Respond(n).kind = "model"
  BY DEF Respond
<1> QED BY <1>1, <1>2

LEMMA RevisePlanParts ==
    ASSUME NEW steps \in Seq(PlanStep), NEW plan \in Seq(PlanStep),
           NEW history, NEW open, NEW future, NEW fresh,
           RevisedAs(steps, plan, history, open, future, fresh)
    PROVE  /\ RevisePlan(steps, plan) = history \o fresh
           /\ history \in Seq(PlanStep) /\ open \in Seq(PlanStep)
           /\ future \in Seq(PlanStep) /\ fresh \in Seq(PlanStep)
           /\ DOMAIN fresh = DOMAIN future
           /\ \A k \in DOMAIN history :
                history[k].st \in Finished /\ \E i \in DOMAIN steps : history[k] = steps[i]
           /\ \A i \in DOMAIN steps : steps[i].st \in Finished =>
                \E k \in DOMAIN history : history[k] = steps[i]
<1> DEFINE kept == {s \in ToSet(steps) : s.st \in Finished}
           current == {s.id : s \in {x \in ToSet(steps) : x.st = "running"}}
<1>1. RevisePlan(steps, plan) = history \o fresh
  BY DEF RevisePlan, RevisedAs
<1>2. history = Picked(steps, kept)
  BY DEF RevisedAs
<1>3. history \in Seq(PlanStep)
  <2> HIDE DEF kept
  <2> QED BY <1>2, PickedPlaces
<1>4. PICK f : PicksAt(f, steps, kept, history)
  <2> HIDE DEF kept
  <2> QED BY <1>2, PickedPlaces
<1>5. \A k \in DOMAIN history :
        history[k].st \in Finished /\ \E i \in DOMAIN steps : history[k] = steps[i]
  BY <1>4 DEF PicksAt
<1>6. \A i \in DOMAIN steps : steps[i].st \in Finished => \E k \in DOMAIN history : history[k] = steps[i]
  BY <1>4 DEF ToSet, PicksAt
<1>7. open \in Seq(PlanStep)
  BY PickedPlaces DEF RevisedAs
<1>8. future \in Seq(PlanStep)
  <2>1. UniqueStepId(Ids(history)) \in Nat
    BY <1>3, IdsFinite, UnusedId
  <2> QED BY <1>7, <2>1, RespondTyped DEF RevisedAs
<1>9. fresh \in Seq(PlanStep) /\ DOMAIN fresh = DOMAIN future
  <2>1. CASE current \cap Ids(future) = {}
    <3>1. fresh = Initialize(future)
      BY <2>1 DEF RevisedAs
    <3> QED BY <1>8, <3>1, InitializeTyped
  <2>2. CASE current \cap Ids(future) # {}
    <3>1. PICK g : g = [i \in DOMAIN future |-> IF future[i].id \in current THEN "running" ELSE "pending"]
      OBVIOUS
    <3>2. g \in [DOMAIN future -> StepStatuses]
      BY <3>1 DEF StepStatuses
    <3>3. fresh = [i \in DOMAIN future |->
                     [future[i] EXCEPT !.st = IF future[i].id \in current THEN "running" ELSE "pending"]]
      BY <2>2 DEF RevisedAs
    <3>4. fresh = Restated(future, g)
      <4> HIDE DEF current
      <4> QED BY <3>1, <3>3 DEF Restated
    <3> QED BY <1>8, <3>2, <3>4, RestatedTyped
  <2> QED BY <2>1, <2>2
<1> QED BY <1>1, <1>3, <1>5, <1>6, <1>7, <1>8, <1>9

\* The places of a concatenation.
JoinsAt(m, a, b, t) ==
    /\ \A i \in DOMAIN a : i \in DOMAIN t /\ t[i] = a[i]
    /\ \A i \in DOMAIN t : i \in DOMAIN a \/ \E k \in DOMAIN b : i = m + k /\ t[i] = b[k]
    /\ \A k \in DOMAIN b : m + k \in DOMAIN t /\ t[m + k] = b[k]

LEMMA JoinedPlaces ==
    ASSUME NEW a \in Seq(PlanStep), NEW b \in Seq(PlanStep), NEW t, t = a \o b
    PROVE  t \in Seq(PlanStep) /\ JoinsAt(Len(a), a, b, t)
<1>1. PICK m \in Nat, n \in Nat : m = Len(a) /\ n = Len(b) /\ DOMAIN a = 1..m /\ DOMAIN b = 1..n
  BY LenProperties
<1>2. t \in Seq(PlanStep) /\ Len(t) = m + n /\ DOMAIN t = 1..(m + n)
  <2>1. t \in Seq(PlanStep) /\ Len(t) = m + n
    BY <1>1, ConcatProperties
  <2> QED BY <2>1, LenProperties
<1>3. \A i \in 1..(m + n) : t[i] = IF i =< m THEN a[i] ELSE b[i - m]
  BY <1>1, ConcatProperties
<1>4. \A i \in DOMAIN a : i \in DOMAIN t /\ t[i] = a[i]
  BY <1>1, <1>2, <1>3
<1>5. ASSUME NEW i \in DOMAIN t, i \notin DOMAIN a PROVE \E k \in DOMAIN b : i = m + k /\ t[i] = b[k]
  <2>1. i - m \in 1..n /\ i = m + (i - m) /\ ~(i =< m)
    BY <1>1, <1>2, <1>5
  <2> QED BY <1>1, <1>2, <1>3, <2>1
<1>6. ASSUME NEW k \in DOMAIN b PROVE m + k \in DOMAIN t /\ t[m + k] = b[k]
  <2>1. m + k \in 1..(m + n) /\ ~(m + k =< m) /\ (m + k) - m = k
    BY <1>1
  <2> QED BY <1>2, <1>3, <2>1
<1>7. JoinsAt(m, a, b, t)
  BY <1>4, <1>5, <1>6 DEF JoinsAt
<1> QED BY <1>1, <1>2, <1>7

\* A revision forgets nothing that is done.
LEMMA RevisePlanKeeps ==
    ASSUME NEW steps \in Seq(PlanStep), NEW plan \in Seq(PlanStep), NEW t, t = RevisePlan(steps, plan)
    PROVE  t \in Seq(PlanStep) /\ DoneKept(steps, t)
<1>1. PICK history, open, future, fresh : RevisedAs(steps, plan, history, open, future, fresh)
  BY DEF RevisedAs
<1>2. /\ t = history \o fresh /\ history \in Seq(PlanStep) /\ fresh \in Seq(PlanStep)
      /\ \A i \in DOMAIN steps : steps[i].st \in Finished =>
           \E k \in DOMAIN history : history[k] = steps[i]
  BY <1>1, RevisePlanParts
<1>3. t \in Seq(PlanStep) /\ \A i \in DOMAIN history : i \in DOMAIN t /\ t[i] = history[i]
  BY <1>2, JoinedPlaces DEF JoinsAt
<1>4. DoneKept(steps, t)
  BY <1>2, <1>3 DEF DoneKept, Finished
<1> QED BY <1>3, <1>4

\* The commit in flight.
LEMMA CommitKinds ==
    ASSUME RunTypeOK
    PROVE  /\ op.kind = "idle" => op = Idle
           /\ op.kind # "idle" =>
                /\ op \in RunCommit /\ op.kind \in {"steps", "plan"} /\ op.after \in Snapshot
                /\ op.next \in Phases \ {"plan"} /\ op.written \in BOOLEAN /\ op.canceled \in BOOLEAN
BY DEF RunTypeOK, Idle, RunCommit

LEMMA CommitMade ==
    ASSUME NEW k \in {"steps", "plan"}, NEW a \in Snapshot, NEW n \in Phases \ {"plan"},
           NEW w \in BOOLEAN, NEW c \in BOOLEAN, NEW o,
           o = [kind |-> k, after |-> a, next |-> n, written |-> w, canceled |-> c]
    PROVE  /\ o \in RunCommit /\ o.kind = k /\ o.kind # "idle" /\ o.after = a /\ o.next = n
           /\ o.written = w /\ o.canceled = c
BY DEF RunCommit

LEMMA ExitPhases ==
    ASSUME phase \in Phases
    PROVE  /\ Raised \in {"settle", "finally", "ended"} /\ Interrupted \in {"finally", "ended"}
           /\ {"settle", "finally", "ended"} \subseteq Phases \ {"plan"}
BY DEF Phases, Raised, Interrupted, Working

\* Nothing is in flight and the execution goes on.
LEMMA PhaseRecords ==
    ASSUME RunRecords, op = Idle, UNCHANGED <<snap, stored, op>>,
           phase' = phase \/ phase' \in Phases \ {"plan"},
           declined' \in BOOLEAN, revisions' \in 0..MaxRevisions
    PROVE  RunRecords'
<1>1. RunTypeOK'
  BY DEF RunRecords, RunTypeOK, LegalSnapshot, Ids
<1>2. SnapshotMirrorsStore' /\ NothingLeftOpen' /\ CommitSound'
  BY DEF RunRecords, SnapshotMirrorsStore, NothingLeftOpen, CommitSound, SettledWhole, Idle
<1>3. phase' = "plan" => snap'.steps = <<>>
  BY DEF RunRecords
<1> QED BY <1>1, <1>2, <1>3 DEF RunRecords

\* A commit goes to the repository.
LEMMA SubmitRecords ==
    ASSUME RunRecords, op = Idle, UNCHANGED <<snap, stored, phase>>,
           NEW k \in {"steps", "plan"}, NEW after \in Snapshot, NEW n \in Phases \ {"plan"},
           op' = [kind |-> k, after |-> after, next |-> n, written |-> FALSE, canceled |-> FALSE],
           snap.status = "running", LegalSnapshot(after), SettledWhole(after),
           DoneKept(snap.steps, after.steps), k = "steps" => SameSteps(snap.steps, after.steps),
           declined' \in BOOLEAN, revisions' \in 0..MaxRevisions
    PROVE  RunRecords'
<1>1. /\ op' \in RunCommit /\ op'.kind = k /\ op'.kind # "idle" /\ op'.after = after
      /\ op'.next = n /\ op'.written = FALSE
  <2>1. PICK w \in BOOLEAN : w = FALSE
    BY Zenon
  <2>2. PICK o : o = [kind |-> k, after |-> after, next |-> n, written |-> w, canceled |-> w]
    OBVIOUS
  <2>3. /\ o \in RunCommit /\ o.kind = k /\ o.kind # "idle" /\ o.after = after /\ o.next = n
        /\ o.written = w
    BY <2>2 DEF RunCommit
  <2>4. op' = o
    BY <2>1, <2>2, Zenon
  <2> QED BY <2>1, <2>3, <2>4, Zenon
<1>2. RunTypeOK'
  BY <1>1 DEF RunRecords, RunTypeOK, LegalSnapshot, Ids
<1>3. SnapshotMirrorsStore' /\ NothingLeftOpen'
  BY <1>1 DEF RunRecords, SnapshotMirrorsStore, NothingLeftOpen, SettledWhole
<1>4. stored = snap \/ stored.status = "canceled"
  BY DEF RunRecords, SnapshotMirrorsStore, Idle
<1>5. CommitSound'
  <2>1. /\ snap'.status = "running" /\ LegalSnapshot(op'.after) /\ SettledWhole(op'.after)
        /\ DoneKept(snap'.steps, op'.after.steps)
        /\ op'.kind = "steps" => SameSteps(snap'.steps, op'.after.steps)
        /\ stored' = snap' \/ stored'.status = "canceled"
    BY <1>1, <1>4
  <2> QED BY <1>1, <2>1 DEF CommitSound
<1>6. phase' = "plan" => snap'.steps = <<>>
  BY DEF RunRecords
<1> QED BY <1>2, <1>3, <1>5, <1>6 DEF RunRecords

LEMMA ApplyRecords ==
    ASSUME RunRecords, NEW after, NEW n \in Phases \ {"plan"}, Apply(after, n),
           Reduces(snap, after), declined' \in BOOLEAN, revisions' \in 0..MaxRevisions
    PROVE  RunRecords' /\ stored' = stored
<1>1. op = Idle /\ UNCHANGED <<snap, stored>> /\ phase \in Phases
  BY CommitKinds DEF Apply, RunRecords, RunTypeOK
<1>2. CASE after = snap
  <2>1. phase' = n /\ UNCHANGED op
    BY <1>2 DEF Apply
  <2> QED BY <1>1, <2>1, PhaseRecords
<1>3. CASE after # snap /\ LegalSnapshot(after)
  <2>1. /\ op' = [kind |-> "steps", after |-> after, next |-> n, written |-> FALSE, canceled |-> FALSE]
        /\ UNCHANGED phase
    BY <1>3 DEF Apply
  <2>2. /\ after \in Snapshot /\ snap.status = "running" /\ SettledWhole(after)
        /\ DoneKept(snap.steps, after.steps) /\ SameSteps(snap.steps, after.steps)
    BY <1>3 DEF Reduces
  <2> QED BY <1>1, <1>3, <2>1, <2>2, SubmitRecords
<1>4. CASE after # snap /\ ~LegalSnapshot(after)
  <2>1. phase' = Raised /\ UNCHANGED op
    BY <1>4 DEF Apply
  <2> QED BY <1>1, <2>1, ExitPhases, PhaseRecords
<1> QED BY <1>2, <1>3, <1>4

LEMMA ApplyPlanRecords ==
    ASSUME RunRecords, NEW steps \in Seq(PlanStep), NEW n \in Phases \ {"plan"}, ApplyPlan(steps, n),
           DoneKept(snap.steps, steps), declined' \in BOOLEAN, revisions' \in 0..MaxRevisions
    PROVE  RunRecords' /\ stored' = stored
<1>1. op = Idle /\ UNCHANGED <<snap, stored>> /\ phase \in Phases /\ snap \in Snapshot
  BY CommitKinds DEF ApplyPlan, RunRecords, RunTypeOK
<1>2. PICK after : after = [snap EXCEPT !.steps = steps]
  OBVIOUS
<1>3. after = [status |-> snap.status, steps |-> steps]
  BY <1>1, <1>2, SnapshotFields
<1>4. after \in Snapshot /\ after.status = snap.status /\ after.steps = steps
  BY <1>1, <1>3, SnapshotFields DEF Snapshot
<1>5. CASE snap.status = "running" /\ LegalSnapshot(after)
  <2>1. /\ op' = [kind |-> "plan", after |-> after, next |-> n, written |-> FALSE, canceled |-> FALSE]
        /\ UNCHANGED phase
    BY <1>2, <1>5 DEF ApplyPlan
  <2>2. SettledWhole(after)
    BY <1>4, <1>5 DEF SettledWhole
  <2> QED BY <1>1, <1>4, <1>5, <2>1, <2>2, SubmitRecords
<1>6. CASE ~(snap.status = "running" /\ LegalSnapshot(after))
  <2>1. phase' = Raised /\ UNCHANGED op
    BY <1>2, <1>6 DEF ApplyPlan
  <2> QED BY <1>1, <2>1, ExitPhases, PhaseRecords
<1> QED BY <1>5, <1>6

LEMMA CommitWritesRecords ==
    ASSUME RunRecords, CommitWrites
    PROVE  /\ RunRecords'
           /\ stored' = op.after /\ stored.status = "running" /\ DoneKept(stored.steps, stored'.steps)
<1>1. op.kind # "idle" /\ ~op.written /\ stored.status = "running"
  BY DEF CommitWrites
<1>2. /\ op \in RunCommit /\ op.kind \in {"steps", "plan"} /\ op.after \in Snapshot
      /\ op.next \in Phases \ {"plan"} /\ op.canceled \in BOOLEAN
  BY <1>1, CommitKinds DEF RunRecords
<1>3. stored = snap
  BY <1>1 DEF RunRecords, CommitSound
<1>4. stored' = op.after
  <2>1. stored' = [status |-> op.after.status,
                   steps |-> IF op.kind = "plan" THEN op.after.steps ELSE Updated(stored.steps)]
    BY DEF CommitWrites
  <2>2. op.kind # "plan" => Updated(stored.steps) = op.after.steps
    <3> SUFFICES ASSUME op.kind = "steps" PROVE Updated(stored.steps) = op.after.steps
      BY <1>2
    <3> QED BY <1>1, <1>2, <1>3, UpdatedSteps DEF RunRecords, RunTypeOK, CommitSound
  <2>3. op.after = [status |-> op.after.status, steps |-> op.after.steps]
    BY <1>2, SnapshotFields
  <2> QED BY <2>1, <2>2, <2>3
<1>5. /\ op' \in RunCommit /\ op'.kind = op.kind /\ op'.after = op.after /\ op'.next = op.next
      /\ op'.written
  BY <1>2 DEF CommitWrites, RunCommit
<1>6. /\ snap.status = "running" /\ LegalSnapshot(op.after) /\ SettledWhole(op.after)
      /\ DoneKept(snap.steps, op.after.steps)
      /\ op.kind = "steps" => SameSteps(snap.steps, op.after.steps)
  BY <1>1 DEF RunRecords, CommitSound
<1>7. UNCHANGED <<snap, phase, declined, revisions>>
  BY DEF CommitWrites
<1>8. RunTypeOK'
  <2>1. /\ snap' \in Snapshot /\ LegalSnapshot(snap') /\ stored' \in Snapshot /\ LegalSnapshot(stored')
    BY <1>2, <1>4, <1>6, <1>7 DEF RunRecords, RunTypeOK
  <2> QED BY <1>5, <1>7, <2>1 DEF RunRecords, RunTypeOK, LegalSnapshot, Ids
<1>9. SnapshotMirrorsStore'
  BY <1>1, <1>5 DEF SnapshotMirrorsStore
<1>10. NothingLeftOpen'
  <2>1. SettledWhole(stored')
    BY <1>4, <1>6
  <2> QED BY <2>1 DEF NothingLeftOpen, SettledWhole
<1>11. CommitSound'
  <2>1. /\ snap'.status = "running" /\ LegalSnapshot(op'.after) /\ SettledWhole(op'.after)
        /\ DoneKept(snap'.steps, op'.after.steps)
        /\ op'.kind = "steps" => SameSteps(snap'.steps, op'.after.steps)
        /\ stored' = op'.after
    BY <1>4, <1>5, <1>6, <1>7
  <2> QED BY <1>5, <2>1 DEF CommitSound
<1>12. phase' = "plan" => snap'.steps = <<>>
  BY <1>7 DEF RunRecords
<1> QED BY <1>1, <1>3, <1>4, <1>6, <1>8, <1>9, <1>10, <1>11, <1>12 DEF RunRecords

\* A commit that came to nothing: the record still holds the old snapshot, or
\* the tree authority's cancellation.
LEMMA NothingWrittenRecords ==
    ASSUME RunRecords, op.kind # "idle", ~op.written, op' = Idle, phase' \in Phases \ {"plan"},
           UNCHANGED <<snap, stored, declined, revisions>>
    PROVE  RunRecords'
<1>1. snap.status = "running" /\ (stored = snap \/ stored.status = "canceled")
  BY DEF RunRecords, CommitSound
<1>2. RunTypeOK'
  BY DEF RunRecords, RunTypeOK, LegalSnapshot, Ids
<1>3. SnapshotMirrorsStore' /\ NothingLeftOpen' /\ CommitSound'
  BY <1>1 DEF RunRecords, SnapshotMirrorsStore, NothingLeftOpen, CommitSound, SettledWhole, Idle
<1> QED BY <1>2, <1>3 DEF RunRecords

\* Another commit in flight, of the same kind.
LEMMA CommitChangesRecords ==
    ASSUME RunRecords, op.kind # "idle", NEW after \in Snapshot, NEW c \in BOOLEAN,
           op' = [op EXCEPT !.after = after, !.canceled = c],
           after = op.after \/ /\ op.kind = "steps" /\ ~op.written
                               /\ LegalSnapshot(after) /\ SettledWhole(after)
                               /\ DoneKept(snap.steps, after.steps) /\ SameSteps(snap.steps, after.steps),
           UNCHANGED <<snap, stored, phase, declined, revisions>>
    PROVE  RunRecords'
<1>1. /\ op \in RunCommit /\ op.kind \in {"steps", "plan"} /\ op.after \in Snapshot
      /\ op.next \in Phases \ {"plan"} /\ op.written \in BOOLEAN
  BY CommitKinds DEF RunRecords
<1>2. /\ op' \in RunCommit /\ op'.kind = op.kind /\ op'.after = after /\ op'.next = op.next
      /\ op'.written = op.written
  BY <1>1 DEF RunCommit
<1>3. /\ snap.status = "running" /\ LegalSnapshot(op.after) /\ SettledWhole(op.after)
      /\ DoneKept(snap.steps, op.after.steps)
      /\ op.kind = "steps" => SameSteps(snap.steps, op.after.steps)
      /\ IF op.written
         THEN stored = op.after \/ (stored.status = "canceled" /\ op.after.status = "running")
         ELSE stored = snap \/ stored.status = "canceled"
  BY DEF RunRecords, CommitSound
<1>4. RunTypeOK'
  BY <1>2 DEF RunRecords, RunTypeOK, LegalSnapshot, Ids
<1>5. SnapshotMirrorsStore'
  BY <1>2 DEF SnapshotMirrorsStore
<1>6. NothingLeftOpen'
  BY DEF RunRecords, NothingLeftOpen, SettledWhole
<1>7. /\ snap'.status = "running" /\ LegalSnapshot(op'.after) /\ SettledWhole(op'.after)
      /\ DoneKept(snap'.steps, op'.after.steps)
      /\ op'.kind = "steps" => SameSteps(snap'.steps, op'.after.steps)
  BY <1>2, <1>3
<1>8. IF op'.written
      THEN stored' = op'.after \/ (stored'.status = "canceled" /\ op'.after.status = "running")
      ELSE stored' = snap' \/ stored'.status = "canceled"
  BY <1>2, <1>3
<1>9. CommitSound'
  BY <1>7, <1>8 DEF CommitSound
<1>10. phase' = "plan" => snap'.steps = <<>>
  BY DEF RunRecords
<1> QED BY <1>4, <1>5, <1>6, <1>9, <1>10 DEF RunRecords

LEMMA ReceiptRecords ==
    ASSUME RunRecords, Receipt
    PROVE  RunRecords' /\ stored' = stored
<1>1. op.kind # "idle" /\ op.written
  BY DEF Receipt
<1>2. op.after \in Snapshot /\ op.next \in Phases \ {"plan"}
  BY <1>1, CommitKinds DEF RunRecords
<1>3. /\ LegalSnapshot(op.after)
      /\ stored = op.after \/ (stored.status = "canceled" /\ op.after.status = "running")
  BY <1>1 DEF RunRecords, CommitSound
<1>4. /\ snap' = op.after /\ op' = Idle /\ UNCHANGED <<stored, declined, revisions>>
      /\ phase' \in Phases \ {"plan"}
  <2>1. phase' \in {Interrupted, op.next}
    BY DEF Receipt
  <2> QED BY <1>2, <2>1, ExitPhases DEF Receipt, RunRecords, RunTypeOK
<1>5. RunTypeOK'
  <2>1. snap' \in Snapshot /\ LegalSnapshot(snap')
    BY <1>2, <1>3, <1>4
  <2> QED BY <1>4, <2>1 DEF RunRecords, RunTypeOK, LegalSnapshot, Ids
<1>6. SnapshotMirrorsStore'
  BY <1>3, <1>4 DEF SnapshotMirrorsStore
<1>7. NothingLeftOpen' /\ CommitSound'
  BY <1>4 DEF RunRecords, NothingLeftOpen, SettledWhole, CommitSound, Idle
<1> QED BY <1>4, <1>5, <1>6, <1>7 DEF RunRecords

LEMMA TreeCancelsRecords ==
    ASSUME RunRecords, TreeCancels
    PROVE  RunRecords' /\ stored.status = "running" /\ DoneKept(stored.steps, stored'.steps)
<1>1. /\ stored.status = "running" /\ stored' = Cancel(stored)
      /\ UNCHANGED <<snap, op, phase, declined, revisions>>
  BY DEF TreeCancels
<1>2. /\ stored' \in Snapshot /\ LegalSnapshot(stored') /\ stored'.status = "canceled"
      /\ SettledWhole(stored') /\ DoneKept(stored.steps, stored'.steps)
  BY <1>1, CancelLegal DEF RunRecords, RunTypeOK
<1>3. RunTypeOK'
  BY <1>1, <1>2 DEF RunRecords, RunTypeOK, LegalSnapshot, Ids
<1>4. SnapshotMirrorsStore'
  BY <1>1, <1>2 DEF RunRecords, SnapshotMirrorsStore
<1>5. NothingLeftOpen'
  BY <1>2 DEF NothingLeftOpen, SettledWhole
<1>6. CommitSound'
  <2> SUFFICES ASSUME op.kind # "idle"
               PROVE  /\ snap.status = "running" /\ LegalSnapshot(op.after) /\ SettledWhole(op.after)
                      /\ DoneKept(snap.steps, op.after.steps)
                      /\ op.kind = "steps" => SameSteps(snap.steps, op.after.steps)
                      /\ op.written => op.after.status = "running"
    BY <1>1, <1>2 DEF CommitSound, LegalSnapshot, Ids, SettledWhole, DoneKept, SameSteps
  <2> QED BY <1>1 DEF RunRecords, CommitSound
<1>7. phase' = "plan" => snap'.steps = <<>>
  BY <1>1 DEF RunRecords
<1> QED BY <1>1, <1>2, <1>3, <1>4, <1>5, <1>6, <1>7 DEF RunRecords

\* What a step leaves of the record.
RecordKept == DoneKept(stored.steps, stored'.steps) /\ (stored.status # "running" => stored' = stored)

LEMMA SameRecordKept ==
    ASSUME stored' = stored
    PROVE  RecordKept
BY DEF RecordKept, DoneKept

LEMMA ControllerRecords ==
    ASSUME RunRecords, ControllerStep
    PROVE  RunRecords' /\ RecordKept
<1>1. CASE CommitWrites
  BY <1>1, CommitWritesRecords DEF RecordKept
<1>2. CASE CommitFails
  <2>1. /\ op.kind # "idle" /\ ~op.written /\ op' = Idle /\ phase' \in Phases \ {"plan"}
        /\ UNCHANGED <<snap, stored, declined, revisions>>
    BY <1>2, ExitPhases DEF CommitFails, RunRecords, RunTypeOK
  <2> QED BY <2>1, NothingWrittenRecords, SameRecordKept
<1>3. CASE CommitConflict
  <2>1. /\ op.kind = "steps" /\ ~op.written /\ op' = [op EXCEPT !.after = Cancel(snap), !.canceled = FALSE]
        /\ UNCHANGED <<snap, stored, phase, declined, revisions>>
    BY <1>3 DEF CommitConflict
  <2>2. PICK after : after = Cancel(snap)
    OBVIOUS
  <2>3. /\ after \in Snapshot /\ LegalSnapshot(after) /\ SettledWhole(after)
        /\ DoneKept(snap.steps, after.steps) /\ SameSteps(snap.steps, after.steps)
    BY <2>1, <2>2, CancelLegal DEF RunRecords, RunTypeOK, CommitSound
  <2>4. PICK c \in BOOLEAN : c = FALSE
    BY Zenon
  <2>5. op' = [op EXCEPT !.after = after, !.canceled = c]
    BY <2>1, <2>2, <2>4, Zenon
  <2> QED BY <2>1, <2>3, <2>5, CommitChangesRecords, SameRecordKept
<1>4. CASE CallerCanceled
  <2>1. /\ op.kind # "idle" /\ op' = [op EXCEPT !.canceled = TRUE]
        /\ UNCHANGED <<snap, stored, phase, declined, revisions>>
    BY <1>4 DEF CallerCanceled
  <2>2. op \in RunCommit /\ op.after \in Snapshot
    BY <2>1, CommitKinds DEF RunRecords
  <2>3. PICK c \in BOOLEAN : c = TRUE
    BY Zenon
  <2>4. op' = [op EXCEPT !.canceled = c]
    BY <2>1, <2>3, Zenon
  <2>5. op' = [op EXCEPT !.after = op.after, !.canceled = c]
    BY <2>2, <2>4 DEF RunCommit
  <2> QED BY <2>1, <2>2, <2>5, CommitChangesRecords, SameRecordKept
<1>5. CASE CommitRolledBack
  <2>1. /\ op.kind # "idle" /\ ~op.written /\ op' = Idle /\ phase' \in Phases \ {"plan"}
        /\ UNCHANGED <<snap, stored, declined, revisions>>
    BY <1>5, ExitPhases DEF CommitRolledBack, RunRecords, RunTypeOK
  <2> QED BY <2>1, NothingWrittenRecords, SameRecordKept
<1>6. CASE Receipt
  BY <1>6, ReceiptRecords, SameRecordKept
<1> QED BY <1>1, <1>2, <1>3, <1>4, <1>5, <1>6 DEF ControllerStep

\* The plans are lists of steps.
LEMMA PlansTyped ==
    ASSUME NEW plan \in Plans
    PROVE  /\ plan \in Seq(PlanStep)
           /\ \A i \in DOMAIN plan : plan[i].id < RespondId /\ plan[i].id \in Nat /\ plan[i].st = "pending"
<1>1. plan \in Seq(PlanStep) /\ \A i \in DOMAIN plan : plan[i].id < RespondId /\ plan[i].st = "pending"
  BY PlanAssumption
<1>2. \A i \in DOMAIN plan : plan[i].id \in Nat
  BY <1>1, StepsTyped DEF PlanStep
<1> QED BY <1>1, <1>2

LEMMA PlanningRecords ==
    ASSUME RunRecords,
           \/ \E plan \in Plans, next \in {"model", "durable"} : InstallPlan(plan, next)
           \/ \E plan \in Plans : ReviseTo(plan)
           \/ ReviseFallback
    PROVE  RunRecords' /\ RecordKept
<1>0. /\ snap \in Snapshot /\ declined \in BOOLEAN /\ revisions \in 0..MaxRevisions
      /\ snap.steps \in Seq(PlanStep) /\ MaxRevisions \in Nat
      /\ {"model", "durable"} \subseteq Phases \ {"plan"}
  BY SnapshotFields, PlanAssumption DEF RunRecords, RunTypeOK, Phases, Working
<1>1. ASSUME NEW plan \in Plans, NEW next \in {"model", "durable"}, InstallPlan(plan, next)
      PROVE  RunRecords' /\ RecordKept
  <2>1. /\ phase = "plan" /\ ApplyPlan(Initialize(plan), next) /\ UNCHANGED <<declined, revisions>>
    BY <1>1 DEF InstallPlan
  <2>2. Initialize(plan) \in Seq(PlanStep)
    BY PlansTyped, InitializeTyped
  <2>3. DoneKept(snap.steps, Initialize(plan))
    BY <2>1 DEF RunRecords, DoneKept
  <2> QED BY <1>0, <2>1, <2>2, <2>3, ApplyPlanRecords, SameRecordKept
<1>2. ASSUME NEW plan \in Plans, ReviseTo(plan)
      PROVE  RunRecords' /\ RecordKept
  <2>1. /\ revisions < MaxRevisions /\ ApplyPlan(RevisePlan(snap.steps, plan), "model")
        /\ revisions' = revisions + 1 /\ UNCHANGED declined
    BY <1>2 DEF ReviseTo
  <2>2. RevisePlan(snap.steps, plan) \in Seq(PlanStep) /\ DoneKept(snap.steps, RevisePlan(snap.steps, plan))
    BY <1>0, PlansTyped, RevisePlanKeeps
  <2>3. revisions' \in 0..MaxRevisions
    BY <1>0, <2>1
  <2> QED BY <1>0, <2>1, <2>2, <2>3, ApplyPlanRecords, SameRecordKept
<1>3. CASE ReviseFallback
  <2>1. UNCHANGED <<declined, revisions>> /\ op.kind = "idle"
    BY <1>3 DEF ReviseFallback
  <2>2. CASE phase = "replanFailed"
    <3>1. PICK plan : plan = <<Respond(UniqueStepId(Ids(snap.steps)))>>
      OBVIOUS
    <3>2. plan \in Seq(PlanStep)
      BY <1>0, <3>1, IdsFinite, UnusedId, RespondTyped
    <3>3. ApplyPlan(RevisePlan(snap.steps, plan), "model")
      BY <1>3, <2>2, <3>1 DEF ReviseFallback
    <3>4. RevisePlan(snap.steps, plan) \in Seq(PlanStep) /\ DoneKept(snap.steps, RevisePlan(snap.steps, plan))
      BY <1>0, <3>2, RevisePlanKeeps
    <3> QED BY <1>0, <2>1, <3>3, <3>4, ApplyPlanRecords, SameRecordKept
  <2>3. CASE phase # "replanFailed"
    <3>1. phase' = "model" /\ UNCHANGED <<snap, stored, op>>
      BY <1>3, <2>3 DEF ReviseFallback
    <3>2. op = Idle
      BY <2>1, CommitKinds DEF RunRecords
    <3> QED BY <1>0, <2>1, <3>1, <3>2, PhaseRecords, SameRecordKept
  <2> QED BY <2>2, <2>3
<1> QED BY <1>1, <1>2, <1>3

LEMMA RoundRecords ==
    ASSUME RunRecords,
           \/ \E next \in {"model", "answer"} : ModelDelta(next)
           \/ \E tool \in AllowedTools(snap) : ToolCallsStarted(tool)
           \/ \E outcome \in {"progressed", "completed", "declined"},
                 next \in {"model", "replan"} : ToolRoundCompleted(outcome, next)
           \/ \E next \in {"model", "failing", "settle"} : ToolRoundFailed(next)
           \/ MarkFailed
    PROVE  RunRecords' /\ RecordKept
<1>0. /\ snap \in Snapshot /\ declined \in BOOLEAN /\ revisions \in 0..MaxRevisions /\ phase \in Phases
      /\ {"model", "answer", "replan", "tools", "failing", "settle", "replanFailed"} \subseteq Phases \ {"plan"}
      /\ op.kind = "idle" => op = Idle
  BY CommitKinds DEF RunRecords, RunTypeOK, Phases, Working
<1>1. ASSUME NEW next \in {"model", "answer"}, ModelDelta(next)
      PROVE  RunRecords' /\ RecordKept
  <2>1. Apply(OnModelDelta(snap), next) /\ UNCHANGED <<declined, revisions>>
    BY <1>1 DEF ModelDelta
  <2>2. Reduces(snap, OnModelDelta(snap))
    BY <1>0, OnModelDeltaReduces
  <2> QED BY <1>0, <2>1, <2>2, ApplyRecords, SameRecordKept
<1>2. ASSUME NEW tool \in AllowedTools(snap), ToolCallsStarted(tool)
      PROVE  RunRecords' /\ RecordKept
  <2>1. op.kind = "idle" /\ UNCHANGED <<declined, revisions>>
    BY <1>2 DEF ToolCallsStarted
  <2>2. CASE CanStartTools(snap)
    <3>1. Apply(OnToolCallsStarted(snap), "tools")
      BY <1>2, <2>2 DEF ToolCallsStarted
    <3>2. Reduces(snap, OnToolCallsStarted(snap))
      BY <1>0, <2>2, OnToolCallsStartedReduces
    <3> QED BY <1>0, <2>1, <3>1, <3>2, ApplyRecords, SameRecordKept
  <2>3. CASE ~CanStartTools(snap)
    <3>1. phase' = Raised /\ UNCHANGED <<snap, stored, op>>
      BY <1>2, <2>3 DEF ToolCallsStarted
    <3> QED BY <1>0, <2>1, <3>1, ExitPhases, PhaseRecords, SameRecordKept
  <2> QED BY <2>2, <2>3
<1>3. ASSUME NEW outcome \in {"progressed", "completed", "declined"}, NEW next \in {"model", "replan"},
             ToolRoundCompleted(outcome, next)
      PROVE  RunRecords' /\ RecordKept
  <2>1. Apply(OnToolRoundCompleted(snap, outcome), next) /\ UNCHANGED revisions
    BY <1>3 DEF ToolRoundCompleted
  <2>2. declined' \in BOOLEAN
    BY <1>3, Zenon DEF ToolRoundCompleted
  <2>3. Reduces(snap, OnToolRoundCompleted(snap, outcome))
    BY <1>0, OnToolRoundCompletedReduces
  <2> QED BY <1>0, <2>1, <2>2, <2>3, ApplyRecords, SameRecordKept
<1>4. ASSUME NEW next \in {"model", "failing", "settle"}, ToolRoundFailed(next)
      PROVE  RunRecords' /\ RecordKept
  <2>1. op.kind = "idle" /\ phase' = next /\ UNCHANGED <<snap, stored, op, declined, revisions>>
    BY <1>4 DEF ToolRoundFailed
  <2> QED BY <1>0, <2>1, PhaseRecords, SameRecordKept
<1>5. CASE MarkFailed
  <2>1. UNCHANGED <<declined, revisions>>
    BY <1>5 DEF MarkFailed
  <2>2. CASE snap.status \in TerminalStatus \/ RunningOf(snap.steps, "tool") # 0
    <3>1. Apply(OnToolRoundFailed(snap), "replanFailed")
      BY <1>5, <2>2 DEF MarkFailed
    <3>2. Reduces(snap, OnToolRoundFailed(snap))
      BY <1>0, <2>2, OnToolRoundFailedReduces
    <3> QED BY <1>0, <2>1, <3>1, <3>2, ApplyRecords, SameRecordKept
  <2>3. CASE ~(snap.status \in TerminalStatus \/ RunningOf(snap.steps, "tool") # 0)
    <3>1. op.kind = "idle" /\ phase' = Raised /\ UNCHANGED <<snap, stored, op>>
      BY <1>5, <2>3 DEF MarkFailed
    <3> QED BY <1>0, <2>1, <3>1, ExitPhases, PhaseRecords, SameRecordKept
  <2> QED BY <2>2, <2>3
<1> QED BY <1>1, <1>2, <1>3, <1>4, <1>5

LEMMA EndingRecords ==
    ASSUME RunRecords,
           \/ ReactiveRun
           \/ \E published \in BOOLEAN : Answer(published)
           \/ \E report \in [Ids(snap.steps) -> StepStatuses] : DurableProgress(report)
           \/ DurableEnds
           \/ \E next \in {"settle", "finally"} : Abort(next)
           \/ Settle
    PROVE  RunRecords' /\ RecordKept
<1>0. /\ snap \in Snapshot /\ declined \in BOOLEAN /\ revisions \in 0..MaxRevisions /\ phase \in Phases
      /\ {"answer", "durable", "settle", "finally", "ended"} \subseteq Phases \ {"plan"}
      /\ op.kind = "idle" => op = Idle
  BY CommitKinds DEF RunRecords, RunTypeOK, Phases, Working
<1>1. CASE ReactiveRun
  <2>1. op.kind = "idle" /\ phase' = "answer" /\ UNCHANGED <<snap, stored, op, declined, revisions>>
    BY <1>1 DEF ReactiveRun
  <2> QED BY <1>0, <2>1, PhaseRecords, SameRecordKept
<1>2. ASSUME NEW published \in BOOLEAN, Answer(published)
      PROVE  RunRecords' /\ RecordKept
  <2>1. UNCHANGED <<declined, revisions>>
    BY <1>2 DEF Answer
  <2>2. CASE Apply(Complete(snap), "ended")
    BY <1>0, <2>1, <2>2, CompleteReduces, ApplyRecords, SameRecordKept
  <2>3. CASE op.kind = "idle" /\ phase' = Raised /\ UNCHANGED <<snap, stored, op>>
    BY <1>0, <2>1, <2>3, ExitPhases, PhaseRecords, SameRecordKept
  <2> QED BY <1>2, <2>2, <2>3 DEF Answer
<1>3. ASSUME NEW report \in [Ids(snap.steps) -> StepStatuses], DurableProgress(report)
      PROVE  RunRecords' /\ RecordKept
  <2>1. Apply(SyncDurable(snap, report), "durable") /\ UNCHANGED <<declined, revisions>>
    BY <1>3 DEF DurableProgress
  <2> QED BY <1>0, <2>1, SyncDurableReduces, ApplyRecords, SameRecordKept
<1>4. CASE DurableEnds
  <2>1. UNCHANGED <<declined, revisions>>
    BY <1>4 DEF DurableEnds
  <2>2. CASE Apply(FinishDurable(snap), "answer")
    BY <1>0, <2>1, <2>2, SettlingReduces, ApplyRecords, SameRecordKept
  <2>3. CASE Apply(CompleteDurable(snap), "ended")
    BY <1>0, <2>1, <2>3, SettlingReduces, ApplyRecords, SameRecordKept
  <2>4. CASE Apply(Complete(snap), "ended")
    BY <1>0, <2>1, <2>4, CompleteReduces, ApplyRecords, SameRecordKept
  <2>5. CASE Apply(Fail(snap), "ended")
    BY <1>0, <2>1, <2>5, SettlingReduces, ApplyRecords, SameRecordKept
  <2>6. CASE Apply(Cancel(snap), "ended")
    BY <1>0, <2>1, <2>6, SettlingReduces, ApplyRecords, SameRecordKept
  <2> QED BY <1>4, <2>2, <2>3, <2>4, <2>5, <2>6 DEF DurableEnds
<1>5. ASSUME NEW next \in {"settle", "finally"}, Abort(next)
      PROVE  RunRecords' /\ RecordKept
  <2>1. op.kind = "idle" /\ phase' = next /\ UNCHANGED <<snap, stored, op, declined, revisions>>
    BY <1>5 DEF Abort
  <2> QED BY <1>0, <2>1, PhaseRecords, SameRecordKept
<1>6. CASE Settle
  <2>1. UNCHANGED <<declined, revisions>>
    BY <1>6 DEF Settle
  <2>2. CASE Apply(Fail(snap), "ended")
    BY <1>0, <2>1, <2>2, SettlingReduces, ApplyRecords, SameRecordKept
  <2>3. CASE Apply(Cancel(snap), "ended")
    BY <1>0, <2>1, <2>3, SettlingReduces, ApplyRecords, SameRecordKept
  <2> QED BY <1>6, <2>2, <2>3 DEF Settle
<1> QED BY <1>1, <1>2, <1>3, <1>4, <1>5, <1>6

LEMMA RecordsStep ==
    ASSUME RunRecords, [Next]_vars
    PROVE  RunRecords' /\ RecordKept
<1>1. CASE ControllerStep
  BY <1>1, ControllerRecords
<1>2. CASE ExecutionStep
  BY <1>2, PlanningRecords, RoundRecords, EndingRecords DEF ExecutionStep
<1>3. CASE TreeCancels
  BY <1>3, TreeCancelsRecords DEF RecordKept
<1>4. CASE UNCHANGED vars
  <2>1. UNCHANGED <<snap, stored, op, phase, declined, revisions>>
    BY <1>4 DEF vars
  <2>2. RunTypeOK'
    BY <2>1 DEF RunRecords, RunTypeOK, LegalSnapshot, Ids
  <2>3. SnapshotMirrorsStore' /\ NothingLeftOpen'
    BY <2>1 DEF RunRecords, SnapshotMirrorsStore, NothingLeftOpen, SettledWhole
  <2>4. CommitSound'
    <3> SUFFICES ASSUME op.kind # "idle"
                 PROVE  /\ snap.status = "running" /\ LegalSnapshot(op.after) /\ SettledWhole(op.after)
                        /\ DoneKept(snap.steps, op.after.steps)
                        /\ op.kind = "steps" => SameSteps(snap.steps, op.after.steps)
                        /\ IF op.written
                           THEN stored = op.after \/ (stored.status = "canceled" /\ op.after.status = "running")
                           ELSE stored = snap \/ stored.status = "canceled"
      BY <2>1 DEF CommitSound, LegalSnapshot, Ids, SettledWhole, DoneKept, SameSteps
    <3> QED BY DEF RunRecords, CommitSound
  <2>5. RunRecords'
    BY <2>1, <2>2, <2>3, <2>4 DEF RunRecords
  <2> QED BY <2>1, <2>5, SameRecordKept
<1> QED BY <1>1, <1>2, <1>3, <1>4 DEF Next

LEMMA RecordsInit ==
    ASSUME Init
    PROVE  RunRecords
<1>1. PICK s : s = [status |-> "running", steps |-> <<>>]
  OBVIOUS
<1>2. s \in Snapshot /\ s.status = "running" /\ s.steps = <<>>
  BY <1>1 DEF Snapshot
<1>3. LegalSnapshot(s)
  <2>1. DOMAIN s.steps = {} /\ Len(s.steps) = 0
    BY <1>2
  <2>2. Ids(s.steps) = {} /\ {i \in DOMAIN s.steps : s.steps[i].st = "running"} = {}
    BY <2>1 DEF Ids
  <2> QED BY <2>1, <2>2, FS_EmptySet DEF LegalSnapshot
<1>4. /\ snap = s /\ stored = s /\ op = Idle /\ op.kind = "idle" /\ phase = "plan"
      /\ declined = FALSE /\ revisions = 0
  BY <1>1 DEF Init, Idle
<1>5. RunTypeOK
  <2>1. declined \in BOOLEAN
    BY <1>4, Zenon
  <2>2. revisions \in 0..MaxRevisions
    <3>1. MaxRevisions \in Nat
      BY PlanAssumption
    <3> QED BY <1>4, <3>1
  <2> QED BY <1>2, <1>3, <1>4, <2>1, <2>2 DEF RunTypeOK, Phases, Working
<1>6. SettledWhole(s)
  BY <1>2 DEF SettledWhole
<1> QED BY <1>2, <1>4, <1>5, <1>6 DEF RunRecords, SnapshotMirrorsStore, NothingLeftOpen, CommitSound

\* RunRecords, for every set of plans: both records are legal snapshots, the
\* controller's mirrors the repository's, a settled Run leaves no step open and
\* every commit in flight keeps what is done.
THEOREM RunRecordsHold == Spec => []RunRecords
<1>1. Init => RunRecords
  BY RecordsInit
<1>2. RunRecords /\ [Next]_vars => RunRecords'
  BY RecordsStep
<1> QED BY <1>1, <1>2, PTL DEF Spec

\* HistoryKept: a step that is done stays done and in the plan, and a settled
\* Run never changes.
THEOREM HistoryKeptHolds == Spec => HistoryKept
<1>1. RunRecords /\ [Next]_vars =>
        [DoneKept(stored.steps, stored'.steps) /\ (stored.status # "running" => stored' = stored)]_vars
  BY RecordsStep DEF RecordKept
<1> QED BY <1>1, RunRecordsHold, PTL DEF Spec, HistoryKept

LEMMA SetStatusFields ==
    ASSUME NEW steps \in Seq(PlanStep), NEW i \in DOMAIN steps, NEW st \in StepStatuses,
           NEW t, t = SetStatus(steps, i, st)
    PROVE  /\ t \in Seq(PlanStep) /\ DOMAIN t = DOMAIN steps /\ t[i].st = st
           /\ \A j \in DOMAIN steps : /\ t[j].id = steps[j].id /\ t[j].kind = steps[j].kind
                                      /\ t[j].tool = steps[j].tool /\ (j # i => t[j].st = steps[j].st)
<1>1. PICK g : g = [j \in DOMAIN steps |-> IF j = i THEN st ELSE steps[j].st]
  OBVIOUS
<1>2. t = Restated(steps, g) /\ g \in [DOMAIN steps -> StepStatuses]
  BY <1>1, SetStatusRestates
<1>3. /\ t \in Seq(PlanStep) /\ DOMAIN t = DOMAIN steps
      /\ \A j \in DOMAIN steps : /\ t[j].st = g[j] /\ t[j].id = steps[j].id
                                 /\ t[j].kind = steps[j].kind /\ t[j].tool = steps[j].tool
  BY <1>2, RestatedTyped
<1> QED BY <1>1, <1>3

\* The first open step starts.
LEMMA StartOrderly ==
    ASSUME NEW steps \in Seq(PlanStep), InOrderly(steps), NEW i \in DOMAIN steps,
           steps[i].st \notin Finished, \A j \in 1..(i - 1) : steps[j].st \in Finished,
           NEW t, t = SetStatus(steps, i, "running")
    PROVE  InOrderly(t)
<1>0. PICK n \in Nat : DOMAIN steps = 1..n
  BY StepsTyped
<1>1. /\ DOMAIN t = 1..n /\ t[i].st = "running"
      /\ \A j \in 1..n : t[j].kind = steps[j].kind /\ (j # i => t[j].st = steps[j].st)
  <2>1. "running" \in StepStatuses
    BY DEF StepStatuses
  <2>2. /\ DOMAIN t = DOMAIN steps /\ t[i].st = "running"
        /\ \A j \in DOMAIN steps : t[j].kind = steps[j].kind /\ (j # i => t[j].st = steps[j].st)
    BY <2>1, SetStatusFields
  <2> QED BY <1>0, <2>2
<1>2. \A j \in 1..n : t[j].st \in Finished <=> steps[j].st \in Finished
  BY <1>0, <1>1 DEF Finished
<1>3. ASSUME NEW m \in 1..n, t[m].st = "running", t[m].kind = "model", NEW j \in 1..(m - 1)
      PROVE  t[j].st \in Finished
  <2>1. j \in 1..n
    OBVIOUS
  <2>2. CASE m = i
    BY <1>2, <2>1, <2>2
  <2>3. CASE m # i
    BY <1>0, <1>1, <1>2, <1>3, <2>1, <2>3 DEF InOrderly
  <2> QED BY <2>2, <2>3
<1> QED BY <1>1, <1>3 DEF InOrderly

\* A step that is open ends.
LEMMA FinishOrderly ==
    ASSUME NEW steps \in Seq(PlanStep), InOrderly(steps), NEW i \in DOMAIN steps,
           NEW st \in Finished, NEW t, t = SetStatus(steps, i, st)
    PROVE  InOrderly(t)
<1>0. PICK n \in Nat : DOMAIN steps = 1..n
  BY StepsTyped
<1>1. /\ DOMAIN t = 1..n /\ t[i].st = st
      /\ \A j \in 1..n : t[j].kind = steps[j].kind /\ (j # i => t[j].st = steps[j].st)
  BY <1>0, SetStatusFields DEF StepStatuses
<1>2. \A j \in 1..n : steps[j].st \in Finished => t[j].st \in Finished
  BY <1>0, <1>1
<1>3. ASSUME NEW m \in 1..n, t[m].st = "running", t[m].kind = "model", NEW j \in 1..(m - 1)
      PROVE  t[j].st \in Finished
  <2>1. j \in 1..n /\ m # i
    BY <1>1, <1>3 DEF Finished
  <2> QED BY <1>0, <1>1, <1>2, <1>3, <2>1 DEF InOrderly
<1> QED BY <1>1, <1>3 DEF InOrderly

\* When nothing is open there is nothing to order.
LEMMA ClosedOrderly ==
    ASSUME NEW steps \in Seq(PlanStep), \A i \in DOMAIN steps : steps[i].st \in Finished
    PROVE  InOrderly(steps)
BY DEF InOrderly, Finished

\* A plan that is installed starts with its first step.
LEMMA InitializeOrderly ==
    ASSUME NEW plan \in Plans, NEW t, t = Initialize(plan)
    PROVE  InOrderly(t)
<1>0. plan \in Seq(PlanStep) /\ \A i \in DOMAIN plan : plan[i].st = "pending"
  BY PlansTyped
<1>1. PICK n \in Nat : DOMAIN plan = 1..n
  BY <1>0, StepsTyped
<1>2. /\ DOMAIN t = 1..n
      /\ \A i \in 1..n :
            /\ t[i].id = plan[i].id /\ t[i].kind = plan[i].kind
            /\ t[i].st = plan[i].st \/ (t[i].st = "running" /\ \A j \in 1..(i - 1) : plan[j].st = "done")
  BY <1>0, <1>1, InitializeTyped
<1>3. ASSUME NEW i \in 1..n, t[i].st = "running" PROVE i = 1
  <2>1. \A j \in 1..(i - 1) : plan[j].st = "done"
    BY <1>0, <1>1, <1>2, <1>3
  <2>2. \A j \in 1..(i - 1) : j \in 1..n
    BY <1>1
  <2>3. 1 \notin 1..(i - 1)
    BY <1>0, <1>1, <2>1, <2>2
  <2> QED BY <2>3
<1>4. ASSUME NEW m \in 1..n, t[m].st = "running", NEW j \in 1..(m - 1) PROVE FALSE
  BY <1>3, <1>4
<1> QED BY <1>2, <1>4 DEF InOrderly

\* The plan that replaces one whose revision failed: the finished steps and one
\* model step.
LEMMA FallbackOrderly ==
    ASSUME NEW steps \in Seq(PlanStep), NEW plan \in Seq(PlanStep), DOMAIN plan = 1..1,
           NEW t, t = RevisePlan(steps, plan)
    PROVE  InOrderly(t)
<1>1. PICK history, open, future, fresh : RevisedAs(steps, plan, history, open, future, fresh)
  BY DEF RevisedAs
<1>2. /\ t = history \o fresh
      /\ history \in Seq(PlanStep) /\ future \in Seq(PlanStep) /\ fresh \in Seq(PlanStep)
      /\ DOMAIN fresh = DOMAIN future
      /\ \A k \in DOMAIN history : history[k].st \in Finished
  BY <1>1, RevisePlanParts
<1>3. PICK h \in Nat, c \in Nat : h = Len(history) /\ DOMAIN history = 1..h /\ DOMAIN future = 1..c
  BY <1>2, StepsTyped
<1>4. c =< 1
  <2>1. CASE open = <<>>
    <3>1. PICK x : future = <<x>>
      BY <1>1, <2>1 DEF RevisedAs
    <3>2. DOMAIN future = 1..1
      BY <3>1
    <3>3. 2 \notin DOMAIN future
      BY <3>2
    <3>4. 2 \notin 1..c
      BY <1>3, <3>3
    <3> QED BY <3>4
  <2>2. CASE open # <<>>
    <3> DEFINE rest == {s \in ToSet(plan) : s.id \notin Ids(history)}
    <3>1. future = Picked(plan, rest)
      BY <1>1, <2>2 DEF RevisedAs
    <3>2. PICK f : PicksAt(f, plan, rest, future)
      <4> HIDE DEF rest
      <4> QED BY <3>1, PickedPlaces
    <3>3. f \in [1..c -> 1..1] /\ \A k, l \in 1..c : k < l => f[k] < f[l]
      BY <1>3, <3>2 DEF PicksAt
    <3>4. ~(1 \in 1..c /\ 2 \in 1..c)
      BY <3>3
    <3> QED BY <3>4
  <2> QED BY <2>1, <2>2
<1>5. /\ \A i \in 1..h : i \in DOMAIN t /\ t[i] = history[i]
      /\ \A i \in DOMAIN t : i \in 1..h \/ \E k \in 1..c : i = h + k /\ t[i] = fresh[k]
  <2>1. JoinsAt(h, history, fresh, t)
    BY <1>2, <1>3, JoinedPlaces
  <2> QED BY <1>2, <1>3, <2>1 DEF JoinsAt
<1>6. ASSUME NEW i \in DOMAIN t, NEW j \in 1..(i - 1) PROVE t[j].st \in Finished
  <2>1. i \in 1..h \/ i = h + 1
    BY <1>3, <1>4, <1>5
  <2>2. j \in 1..h
    BY <2>1
  <2> QED BY <1>2, <1>3, <1>5, <2>2
<1> QED BY <1>6 DEF InOrderly

\* The reducers of a round keep the order.
LEMMA OnModelDeltaOrderly ==
    ASSUME NEW s \in Snapshot, InOrderly(s.steps)
    PROVE  InOrderly(OnModelDelta(s).steps)
<1>1. PICK next : next = NextIncomplete(s.steps)
  OBVIOUS
<1>2. CASE OnModelDelta(s) = s
  BY <1>2
<1>3. CASE OnModelDelta(s) # s
  <2>1. next # 0 /\ OnModelDelta(s) = [s EXCEPT !.steps = SetStatus(s.steps, next, "running")]
    BY <1>1, <1>3 DEF OnModelDelta
  <2>2. s.steps \in Seq(PlanStep) /\ OnModelDelta(s).steps = SetStatus(s.steps, next, "running")
    BY <2>1, SnapshotFields
  <2>3. /\ next \in DOMAIN s.steps /\ s.steps[next].st \notin Finished
        /\ \A j \in 1..(next - 1) : s.steps[j].st \in Finished
    BY <1>1, <2>1, <2>2, NextPlace
  <2> QED BY <2>2, <2>3, StartOrderly
<1> QED BY <1>2, <1>3

\* What OnToolCallsStarted does: the model step it ends and the tool step it
\* starts.
LEMMA CallsStartedParts ==
    ASSUME NEW s \in Snapshot, CanStartTools(s), s.status \notin TerminalStatus,
           NEW model, model = RunningOf(s.steps, "model"),
           NEW steps, steps = IF model = 0 THEN s.steps ELSE SetStatus(s.steps, model, "done"),
           NEW tool, tool = IF RunningOf(steps, "tool") # 0 THEN RunningOf(steps, "tool") ELSE NextIncomplete(steps)
    PROVE  /\ s.steps \in Seq(PlanStep) /\ steps \in Seq(PlanStep)
           /\ model # 0 => model \in DOMAIN s.steps /\ s.steps[model].st = "running"
           /\ OnToolCallsStarted(s).steps = SetStatus(steps, tool, "running")
           /\ tool \in DOMAIN steps
           /\ \/ tool = RunningOf(steps, "tool") /\ steps[tool].st = "running" /\ steps[tool].kind = "tool"
              \/ /\ RunningOf(steps, "tool") = 0 /\ tool = NextIncomplete(steps)
                 /\ steps[tool].kind = "tool" /\ steps[tool].st \notin Finished
                 /\ \A j \in 1..(tool - 1) : steps[j].st \in Finished
<1>1. s.steps \in Seq(PlanStep)
  BY SnapshotFields
<1>2. model # 0 => model \in DOMAIN s.steps /\ s.steps[model].st = "running"
  BY <1>1, RunningOfPlace
<1>3. steps \in Seq(PlanStep)
  <2>1. CASE model = 0
    BY <1>1, <2>1
  <2>2. CASE model # 0
    BY <1>1, <1>2, <2>2, SetStatusFields DEF StepStatuses, Finished
  <2> QED BY <2>1, <2>2
<1>4. OnToolCallsStarted(s) = [s EXCEPT !.steps = SetStatus(steps, tool, "running")]
  BY DEF OnToolCallsStarted
<1>5. OnToolCallsStarted(s).steps = SetStatus(steps, tool, "running")
  BY <1>4, SnapshotFields
<1>6. CASE RunningOf(steps, "tool") # 0
  <2>1. tool \in DOMAIN steps /\ steps[tool].st = "running" /\ steps[tool].kind = "tool"
    BY <1>3, <1>6, RunningOfPlace
  <2> QED BY <1>1, <1>2, <1>3, <1>5, <1>6, <2>1
<1>7. CASE RunningOf(steps, "tool") = 0
  <2>1. tool # 0 /\ steps[tool].kind = "tool"
    BY <1>7 DEF CanStartTools
  <2>2. /\ tool \in DOMAIN steps /\ steps[tool].st \notin Finished
        /\ \A j \in 1..(tool - 1) : steps[j].st \in Finished
    BY <1>3, <1>7, <2>1, NextPlace
  <2> QED BY <1>1, <1>2, <1>3, <1>5, <1>7, <2>1, <2>2
<1> QED BY <1>6, <1>7

LEMMA OnToolCallsStartedOrderly ==
    ASSUME NEW s \in Snapshot, InOrderly(s.steps), CanStartTools(s)
    PROVE  InOrderly(OnToolCallsStarted(s).steps)
<1>1. CASE s.status \in TerminalStatus
  BY <1>1 DEF OnToolCallsStarted
<1>2. CASE s.status \notin TerminalStatus
  <2>1. PICK model : model = RunningOf(s.steps, "model")
    OBVIOUS
  <2>2. PICK steps : steps = IF model = 0 THEN s.steps ELSE SetStatus(s.steps, model, "done")
    OBVIOUS
  <2>3. PICK tool : tool = IF RunningOf(steps, "tool") # 0 THEN RunningOf(steps, "tool") ELSE NextIncomplete(steps)
    OBVIOUS
  <2>4. /\ s.steps \in Seq(PlanStep) /\ steps \in Seq(PlanStep)
        /\ model # 0 => model \in DOMAIN s.steps /\ s.steps[model].st = "running"
        /\ OnToolCallsStarted(s).steps = SetStatus(steps, tool, "running")
        /\ tool \in DOMAIN steps
        /\ \/ steps[tool].st = "running"
           \/ /\ steps[tool].st \notin Finished
              /\ \A j \in 1..(tool - 1) : steps[j].st \in Finished
    BY <1>2, <2>1, <2>2, <2>3, CallsStartedParts
  <2>5. InOrderly(steps)
    BY <2>2, <2>4, FinishOrderly DEF Finished
  <2>6. CASE steps[tool].st = "running"
    <3>1. SetStatus(steps, tool, "running") = steps
      <4>1. steps = [j \in DOMAIN steps |-> steps[j]]
        BY <2>4, LenProperties
      <4>2. steps[tool] = [steps[tool] EXCEPT !.st = "running"]
        BY <2>4, <2>6, KeptStatus
      <4>3. SetStatus(steps, tool, "running")
              = [j \in DOMAIN steps |-> IF j = tool THEN [steps[tool] EXCEPT !.st = "running"] ELSE steps[j]]
        BY <2>4, <4>1 DEF SetStatus
      <4> QED BY <4>1, <4>2, <4>3
    <3> QED BY <2>4, <2>5, <3>1
  <2>7. CASE steps[tool].st # "running"
    BY <2>4, <2>5, <2>7, StartOrderly
  <2> QED BY <2>6, <2>7
<1> QED BY <1>1, <1>2

LEMMA OnToolRoundCompletedOrderly ==
    ASSUME NEW s \in Snapshot, InOrderly(s.steps), NEW outcome
    PROVE  InOrderly(OnToolRoundCompleted(s, outcome).steps)
<1>1. PICK tool : tool = RunningOf(s.steps, "tool")
  OBVIOUS
<1>2. CASE s.status \in TerminalStatus \/ tool = 0 \/ outcome = "progressed"
  BY <1>1, <1>2 DEF OnToolRoundCompleted
<1>3. CASE ~(s.status \in TerminalStatus \/ tool = 0 \/ outcome = "progressed")
  <2>1. s.steps \in Seq(PlanStep)
    BY SnapshotFields
  <2>2. tool \in DOMAIN s.steps
    BY <1>1, <1>3, <2>1, RunningOfPlace
  <2>3. CASE outcome = "declined"
    <3>1. OnToolRoundCompleted(s, outcome) = [s EXCEPT !.steps = SetStatus(s.steps, tool, "blocked")]
      BY <1>1, <1>3, <2>3 DEF OnToolRoundCompleted
    <3>2. OnToolRoundCompleted(s, outcome).steps = SetStatus(s.steps, tool, "blocked")
      BY <3>1, SnapshotFields
    <3> QED BY <2>1, <2>2, <3>2, FinishOrderly DEF Finished
  <2>4. CASE outcome # "declined"
    <3>1. PICK done : done = SetStatus(s.steps, tool, "done")
      OBVIOUS
    <3>2. InOrderly(done)
      BY <2>1, <2>2, <3>1, FinishOrderly DEF Finished
    <3>3. done \in Seq(PlanStep)
      BY <2>1, <2>2, <3>1, SetStatusFields DEF StepStatuses, Finished
    <3>4. PICK next : next = NextIncomplete(done)
      OBVIOUS
    <3>5. OnToolRoundCompleted(s, outcome) = [s EXCEPT !.steps = IF next = 0 THEN done ELSE SetStatus(done, next, "running")]
      BY <1>1, <1>3, <2>4, <3>1, <3>4 DEF OnToolRoundCompleted
    <3>6. OnToolRoundCompleted(s, outcome).steps = IF next = 0 THEN done ELSE SetStatus(done, next, "running")
      BY <3>5, SnapshotFields
    <3>7. CASE next = 0
      BY <3>2, <3>6, <3>7
    <3>8. CASE next # 0
      <4>1. /\ next \in DOMAIN done /\ done[next].st \notin Finished
            /\ \A j \in 1..(next - 1) : done[j].st \in Finished
        BY <3>3, <3>4, <3>8, NextPlace
      <4> QED BY <3>2, <3>3, <3>6, <3>8, <4>1, StartOrderly
    <3> QED BY <3>7, <3>8
  <2> QED BY <2>3, <2>4
<1> QED BY <1>2, <1>3

LEMMA OnToolRoundFailedOrderly ==
    ASSUME NEW s \in Snapshot, InOrderly(s.steps), s.status \in TerminalStatus \/ RunningOf(s.steps, "tool") # 0
    PROVE  InOrderly(OnToolRoundFailed(s).steps)
<1>1. CASE s.status \in TerminalStatus
  BY <1>1 DEF OnToolRoundFailed
<1>2. CASE s.status \notin TerminalStatus
  <2>1. s.steps \in Seq(PlanStep)
    BY SnapshotFields
  <2>2. PICK tool : tool = RunningOf(s.steps, "tool")
    OBVIOUS
  <2>3. tool \in DOMAIN s.steps
    BY <1>2, <2>1, <2>2, RunningOfPlace
  <2>4. OnToolRoundFailed(s) = [s EXCEPT !.steps = SetStatus(s.steps, tool, "failed")]
    BY <1>2, <2>2 DEF OnToolRoundFailed
  <2>5. OnToolRoundFailed(s).steps = SetStatus(s.steps, tool, "failed")
    BY <2>4, SnapshotFields
  <2> QED BY <2>1, <2>3, <2>5, FinishOrderly DEF Finished
<1> QED BY <1>1, <1>2

\* At most one step of a legal snapshot runs.
LEMMA OneRuns ==
    ASSUME NEW s \in Snapshot, LegalSnapshot(s), NEW i \in DOMAIN s.steps, NEW j \in DOMAIN s.steps,
           s.steps[i].st = "running", s.steps[j].st = "running"
    PROVE  i = j
<1>1. PICK R : R = {k \in DOMAIN s.steps : s.steps[k].st = "running"}
  OBVIOUS
<1>2. PICK n \in Nat : DOMAIN s.steps = 1..n
  BY SnapshotFields, StepsTyped
<1>3. IsFiniteSet(R)
  BY <1>1, <1>2, FS_Interval, FS_Subset
<1>4. Cardinality(R) =< 1
  BY <1>1 DEF LegalSnapshot
<1>5. {i, j} \subseteq R
  BY <1>1
<1>6. Cardinality({i, j}) =< Cardinality(R)
  BY <1>3, <1>5, FS_Subset
<1>7. i # j => Cardinality({i, j}) = 2
  <2> SUFFICES ASSUME i # j PROVE Cardinality({i, j}) = 2
    OBVIOUS
  <2>1. IsFiniteSet({i}) /\ Cardinality({i}) = 1
    BY FS_Singleton
  <2>2. {i, j} = {i} \cup {j} /\ j \notin {i}
    OBVIOUS
  <2>3. Cardinality({i} \cup {j}) = Cardinality({i}) + 1
    BY <2>1, <2>2, FS_AddElement
  <2> QED BY <2>1, <2>2, <2>3
<1>8. Cardinality(R) \in Nat
  BY <1>3, FS_CardinalityType
<1> QED BY <1>4, <1>6, <1>7, <1>8

\* The tool that the plan allows next is the one the transition starts, or a
\* tool step before the model step that ends is started in its place.
LEMMA CallsStartedGrant ==
    ASSUME NEW s \in Snapshot, LegalSnapshot(s), s.status \notin TerminalStatus,
           CanStartTools(s), NEW name \in AllowedTools(s), NEW t, t = OnToolCallsStarted(s).steps
    PROVE  /\ Grants(t, name) \/ Overtakes(t, name)
           /\ InOrderly(s.steps) => Grants(t, name)
<1>1. PICK model : model = RunningOf(s.steps, "model")
  OBVIOUS
<1>2. PICK steps : steps = IF model = 0 THEN s.steps ELSE SetStatus(s.steps, model, "done")
  OBVIOUS
<1>3. PICK tool : tool = IF RunningOf(steps, "tool") # 0 THEN RunningOf(steps, "tool") ELSE NextIncomplete(steps)
  OBVIOUS
<1>4. /\ s.steps \in Seq(PlanStep) /\ steps \in Seq(PlanStep) /\ tool \in DOMAIN steps
      /\ model # 0 => model \in DOMAIN s.steps /\ s.steps[model].st = "running"
      /\ t = SetStatus(steps, tool, "running")
      /\ \/ tool = RunningOf(steps, "tool") /\ steps[tool].st = "running" /\ steps[tool].kind = "tool"
         \/ /\ RunningOf(steps, "tool") = 0 /\ tool = NextIncomplete(steps)
            /\ steps[tool].kind = "tool" /\ steps[tool].st \notin Finished
            /\ \A j \in 1..(tool - 1) : steps[j].st \in Finished
  BY <1>1, <1>2, <1>3, CallsStartedParts
<1>5. tool \in DOMAIN t /\ t[tool].st = "running" /\ t[tool].kind = "tool" /\ t[tool].tool = steps[tool].tool
  BY <1>4, SetStatusFields DEF StepStatuses
<1>6. PICK run : run = Running(s.steps)
  OBVIOUS
<1>7. PICK after : after = {i \in DOMAIN s.steps : i > run /\ s.steps[i].st \notin Finished}
  OBVIOUS
<1>8. run # 0
  BY <1>6 DEF AllowedTools
<1>9. run \in DOMAIN s.steps /\ s.steps[run].st = "running"
  BY <1>4, <1>6, <1>8, RunningPlace
<1>10. s.steps[run].kind \in {"tool", "model"}
  BY <1>4, <1>9, StepsTyped DEF PlanStep
<1>11. CASE s.steps[run].kind = "tool"
  <2>1. name = s.steps[run].tool
    BY <1>6, <1>8, <1>11 DEF AllowedTools
  <2>2. model = 0
    <3> SUFFICES ASSUME model # 0 PROVE FALSE
      OBVIOUS
    <3>1. model \in DOMAIN s.steps /\ s.steps[model].st = "running" /\ s.steps[model].kind = "model"
      BY <1>1, <1>4, RunningOfPlace
    <3>2. model = run
      BY <1>9, <3>1, OneRuns
    <3> QED BY <1>11, <3>1, <3>2
  <2>3. steps = s.steps
    BY <1>2, <2>2
  <2>4. RunningOf(steps, "tool") # 0
    BY <1>4, <1>9, <1>11, <2>3, RunningOfPlace
  <2>5. tool \in DOMAIN s.steps /\ s.steps[tool].st = "running"
    BY <1>4, <2>3, <2>4
  <2>6. tool = run
    BY <1>9, <2>5, OneRuns
  <2> QED BY <1>5, <2>1, <2>3, <2>6 DEF Grants
<1>12. CASE s.steps[run].kind = "model"
  <2>1. PICK i \in after : /\ \A j \in after : i =< j
                           /\ s.steps[i].kind = "tool" /\ name = s.steps[i].tool
    <3>1. name \in {s.steps[i].tool : i \in {j \in {x \in after : \A y \in after : x =< y} :
                                               s.steps[j].kind = "tool"}}
      BY <1>6, <1>7, <1>8, <1>12 DEF AllowedTools
    <3> QED BY <3>1
  <2>2. model = run
    <3>1. model # 0
      BY <1>1, <1>4, <1>9, <1>12, RunningOfPlace
    <3> QED BY <1>4, <1>9, <3>1, OneRuns
  <2>3. run # 0 /\ steps = SetStatus(s.steps, run, "done")
    BY <1>2, <1>8, <2>2
  <2>4. /\ DOMAIN steps = DOMAIN s.steps /\ steps[run].st = "done"
        /\ \A j \in DOMAIN s.steps : /\ steps[j].id = s.steps[j].id /\ steps[j].kind = s.steps[j].kind
                                     /\ steps[j].tool = s.steps[j].tool
                                     /\ (j # run => steps[j].st = s.steps[j].st)
    <3>1. "done" \in StepStatuses
      BY DEF StepStatuses, Finished
    <3> QED BY <1>4, <1>9, <2>3, <3>1, SetStatusFields
  <2>5. RunningOf(steps, "tool") = 0
    <3> SUFFICES ASSUME RunningOf(steps, "tool") # 0 PROVE FALSE
      OBVIOUS
    <3>1. PICK j \in DOMAIN steps : steps[j].st = "running" /\ steps[j].kind = "tool"
      BY <1>4, RunningOfPlace
    <3>2. j # run
      BY <2>4, <3>1
    <3>3. j \in DOMAIN s.steps /\ s.steps[j].st = "running"
      BY <2>4, <3>1, <3>2
    <3> QED BY <1>9, <3>2, <3>3, OneRuns
  <2>6. /\ steps[tool].st \notin Finished /\ \A j \in 1..(tool - 1) : steps[j].st \in Finished
    <3>1. 0 \notin DOMAIN steps
      BY <1>4, StepsTyped
    <3> QED BY <1>4, <2>5, <3>1
  <2>7. PICK n \in Nat : DOMAIN s.steps = 1..n
    BY <1>4, StepsTyped
  <2>8. InOrderly(s.steps) => \A j \in 1..(run - 1) : s.steps[j].st \in Finished
    BY <1>9, <1>12 DEF InOrderly
  <2>9. "done" \in Finished
    BY DEF Finished
  <2>10. tool \in 1..n /\ run \in 1..n /\ i \in 1..n /\ i > run /\ s.steps[i].st \notin Finished
    BY <1>4, <1>7, <1>9, <2>1, <2>4, <2>7
  <2>11. tool # run /\ steps[tool].st = s.steps[tool].st
    BY <2>4, <2>6, <2>7, <2>9, <2>10
  <2>12. CASE tool > run
    <3>1. tool \in after
      BY <1>7, <2>6, <2>7, <2>10, <2>11, <2>12
    <3>2. ~(i < tool)
      <4> SUFFICES ASSUME i < tool PROVE FALSE
        OBVIOUS
      <4>1. i \in 1..(tool - 1)
        BY <2>10
      <4>2. steps[i].st = s.steps[i].st
        BY <2>4, <2>7, <2>10
      <4> QED BY <2>6, <2>10, <4>1, <4>2
    <3>3. i = tool
      <4>1. i =< tool
        BY <2>1, <3>1
      <4> QED BY <2>10, <3>2, <4>1
    <3>4. steps[tool].tool = name
      BY <2>1, <2>4, <2>7, <2>10, <3>3
    <3> QED BY <1>5, <3>4 DEF Grants
  <2>13. CASE tool < run
    <3>1. ~InOrderly(s.steps)
      <4>1. tool \in 1..(run - 1)
        BY <2>10, <2>13
      <4> QED BY <2>6, <2>8, <2>11, <4>1
    <3>2. /\ DOMAIN t = 1..n
          /\ \A j \in 1..n : /\ t[j].kind = s.steps[j].kind /\ t[j].tool = s.steps[j].tool
                             /\ (j # tool /\ j # run => t[j].st = s.steps[j].st)
          /\ t[run].st = "done"
      <4>1. /\ DOMAIN t = DOMAIN steps
            /\ \A j \in DOMAIN steps : /\ t[j].kind = steps[j].kind /\ t[j].tool = steps[j].tool
                                       /\ (j # tool => t[j].st = steps[j].st)
        BY <1>4, SetStatusFields DEF StepStatuses
      <4> QED BY <2>4, <2>7, <2>10, <2>11, <4>1
    <3>3. t[i].st = s.steps[i].st /\ t[i].kind = "tool" /\ t[i].tool = name
      BY <2>1, <2>10, <2>13, <3>2
    <3>4. ASSUME NEW k \in (run + 1)..(i - 1) PROVE t[k].st \in Finished
      <4>1. k \in 1..n /\ k > run /\ k < i /\ k # tool /\ k # run
        BY <2>10, <2>13
      <4>2. k \notin after
        BY <2>1, <2>10, <4>1
      <4>3. s.steps[k].st \in Finished
        BY <1>7, <2>7, <4>1, <4>2
      <4> QED BY <3>2, <4>1, <4>3
    <3>5. t[run].kind = "model"
      BY <1>12, <2>10, <3>2
    <3>6. Overtakes(t, name)
      <4>1. tool \in DOMAIN t /\ run \in DOMAIN t /\ i \in DOMAIN t /\ run < i
        BY <2>10, <3>2
      <4> QED BY <1>5, <2>10, <2>13, <3>2, <3>3, <3>4, <3>5, <4>1 DEF Overtakes
    <3> QED BY <3>1, <3>6
  <2> QED BY <2>10, <2>11, <2>12, <2>13
<1> QED BY <1>10, <1>11, <1>12

\* The plan's order and the tool's grant, while nothing is in flight.
LEMMA PhaseOrder ==
    ASSUME RunInv, op = Idle, UNCHANGED <<snap, op>>, phase' # "tools",
           phase' \in Rounds => phase \in Rounds, revisions' = 0 => revisions = 0
    PROVE  ToolMatchesStep' /\ WorkInOrder'
<1>1. op'.kind = "idle"
  BY DEF Idle
<1>2. revisions' = 0 /\ phase' \in Rounds => InOrderly(snap'.steps)
  BY DEF RunInv, WorkInOrder
<1>3. WorkInOrder'
  BY <1>1, <1>2 DEF WorkInOrder
<1> QED BY <1>1, <1>3 DEF ToolMatchesStep

LEMMA ExitsNoRounds ==
    ASSUME phase \in Phases
    PROVE  /\ Raised \notin Rounds /\ Raised # "tools"
           /\ Interrupted \notin Rounds /\ Interrupted # "tools"
BY ExitPhases DEF Rounds

\* A commit goes to the repository.
LEMMA SubmitOrder ==
    ASSUME RunInv, UNCHANGED <<snap, phase>>, NEW k, k # "idle", NEW after, NEW n,
           op' = [kind |-> k, after |-> after, next |-> n, written |-> FALSE, canceled |-> FALSE],
           revisions' = 0 => revisions = 0, revisions' = 0 /\ n \in Rounds => InOrderly(after.steps),
           n = "tools" /\ after.status = "running" => Matches(after.steps, requested', revisions')
    PROVE  ToolMatchesStep' /\ WorkInOrder'
<1>1. op'.kind # "idle" /\ op'.after = after /\ op'.next = n
  OBVIOUS
<1>2. revisions = 0 /\ phase \in Rounds => InOrderly(snap.steps)
  BY DEF RunInv, WorkInOrder
<1>3. WorkInOrder'
  <2>1. revisions' = 0 /\ phase' \in Rounds => InOrderly(snap'.steps)
    BY <1>2
  <2>2. revisions' = 0 /\ op'.next \in Rounds => InOrderly(op'.after.steps)
    BY <1>1
  <2> QED BY <2>1, <2>2 DEF WorkInOrder
<1>4. ToolMatchesStep'
  BY <1>1 DEF ToolMatchesStep
<1> QED BY <1>3, <1>4

LEMMA ApplyOrder ==
    ASSUME RunInv, NEW after, NEW n, Apply(after, n),
           revisions' = 0 => revisions = 0, revisions' = 0 /\ n \in Rounds => InOrderly(after.steps),
           n = "tools" /\ after.status = "running" => Matches(after.steps, requested', revisions')
    PROVE  ToolMatchesStep' /\ WorkInOrder'
<1>1. op = Idle /\ UNCHANGED <<snap, stored>> /\ phase \in Phases
  BY CommitKinds DEF Apply, RunInv, RunRecords, RunTypeOK
<1>2. CASE after = snap
  <2>1. phase' = n /\ UNCHANGED op
    BY <1>2 DEF Apply
  <2>2. op'.kind = "idle"
    BY <1>1, <2>1 DEF Idle
  <2>3. WorkInOrder'
    <3>1. revisions' = 0 /\ phase' \in Rounds => InOrderly(snap'.steps)
      BY <1>1, <1>2, <2>1
    <3> QED BY <2>2, <3>1 DEF WorkInOrder
  <2>4. ToolMatchesStep'
    BY <1>1, <1>2, <2>1, <2>2 DEF ToolMatchesStep
  <2> QED BY <2>3, <2>4
<1>3. CASE after # snap /\ LegalSnapshot(after)
  <2>1. /\ op' = [kind |-> "steps", after |-> after, next |-> n, written |-> FALSE, canceled |-> FALSE]
        /\ UNCHANGED phase
    BY <1>3 DEF Apply
  <2> QED BY <1>1, <2>1, SubmitOrder
<1>4. CASE after # snap /\ ~LegalSnapshot(after)
  <2>1. phase' = Raised /\ UNCHANGED op
    BY <1>4 DEF Apply
  <2> QED BY <1>1, <2>1, ExitsNoRounds, PhaseOrder
<1> QED BY <1>2, <1>3, <1>4

LEMMA ApplyPlanOrder ==
    ASSUME RunInv, NEW steps, NEW n, n # "tools", ApplyPlan(steps, n),
           revisions' = 0 => revisions = 0, revisions' = 0 /\ n \in Rounds => InOrderly(steps)
    PROVE  ToolMatchesStep' /\ WorkInOrder'
<1>1. op = Idle /\ UNCHANGED <<snap, stored>> /\ phase \in Phases /\ snap \in Snapshot
  BY CommitKinds DEF ApplyPlan, RunInv, RunRecords, RunTypeOK
<1>2. PICK after : after = [snap EXCEPT !.steps = steps]
  OBVIOUS
<1>3. after.steps = steps
  BY <1>1, <1>2, SnapshotFields
<1>4. CASE snap.status = "running" /\ LegalSnapshot(after)
  <2>1. /\ op' = [kind |-> "plan", after |-> after, next |-> n, written |-> FALSE, canceled |-> FALSE]
        /\ UNCHANGED phase
    BY <1>2, <1>4 DEF ApplyPlan
  <2> QED BY <1>1, <1>3, <2>1, SubmitOrder
<1>5. CASE ~(snap.status = "running" /\ LegalSnapshot(after))
  <2>1. phase' = Raised /\ UNCHANGED op
    BY <1>2, <1>5 DEF ApplyPlan
  <2> QED BY <1>1, <2>1, ExitsNoRounds, PhaseOrder
<1> QED BY <1>4, <1>5

\* The commit stays in flight, the same or as a cancellation.
LEMMA PendingOrder ==
    ASSUME RunInv, op'.kind = op.kind, op'.next = op.next, UNCHANGED <<snap, phase, requested, revisions>>,
           op.kind # "idle",
           op'.after = op.after \/ (op'.after.status # "running" /\ InOrderly(op'.after.steps))
    PROVE  ToolMatchesStep' /\ WorkInOrder'
<1>1. revisions = 0 => /\ phase \in Rounds => InOrderly(snap.steps)
                       /\ op.next \in Rounds => InOrderly(op.after.steps)
  BY DEF RunInv, WorkInOrder
<1>2. WorkInOrder'
  <2>1. revisions' = 0 /\ phase' \in Rounds => InOrderly(snap'.steps)
    BY <1>1
  <2>2. revisions' = 0 /\ op'.next \in Rounds => InOrderly(op'.after.steps)
    BY <1>1
  <2> QED BY <2>1, <2>2 DEF WorkInOrder
<1>3. ToolMatchesStep'
  BY DEF RunInv, ToolMatchesStep
<1> QED BY <1>2, <1>3

LEMMA ControllerOrder ==
    ASSUME RunInv, ControllerStep
    PROVE  ToolMatchesStep' /\ WorkInOrder'
<1>0. /\ phase \in Phases
      /\ op.kind # "idle" => op \in RunCommit /\ op.after \in Snapshot
  BY CommitKinds DEF RunInv, RunRecords, RunTypeOK
<1>1. CASE CommitWrites
  <2>1. op.kind # "idle" /\ op' = [op EXCEPT !.written = TRUE] /\ UNCHANGED <<snap, phase, requested, revisions>>
    BY <1>1 DEF CommitWrites
  <2>2. op'.kind = op.kind /\ op'.next = op.next /\ op'.after = op.after
    BY <1>0, <2>1 DEF RunCommit
  <2> QED BY <2>1, <2>2, PendingOrder
<1>2. CASE CommitFails \/ CommitRolledBack
  <2>1. op' = Idle /\ op'.kind = "idle" /\ phase' \in {Raised, Interrupted}
    BY <1>2 DEF CommitFails, CommitRolledBack, Idle
  <2> QED BY <1>0, <2>1, ExitsNoRounds DEF ToolMatchesStep, WorkInOrder
<1>3. CASE CommitConflict
  <2>1. /\ op.kind = "steps" /\ ~op.written /\ op' = [op EXCEPT !.after = Cancel(snap), !.canceled = FALSE]
        /\ UNCHANGED <<snap, phase, requested, revisions>>
    BY <1>3 DEF CommitConflict
  <2>2. PICK after : after = Cancel(snap)
    OBVIOUS
  <2>3. /\ after \in Snapshot /\ after.status = "canceled" /\ SettledWhole(after)
    BY <2>1, <2>2, CancelLegal DEF RunInv, RunRecords, RunTypeOK, CommitSound
  <2>4. InOrderly(after.steps)
    BY <2>3, ClosedOrderly, SnapshotFields DEF SettledWhole
  <2>5. op'.kind = op.kind /\ op'.next = op.next /\ op'.after = after
    BY <1>0, <2>1, <2>2 DEF RunCommit
  <2> QED BY <2>1, <2>3, <2>4, <2>5, PendingOrder
<1>4. CASE CallerCanceled
  <2>1. op.kind # "idle" /\ op' = [op EXCEPT !.canceled = TRUE] /\ UNCHANGED <<snap, phase, requested, revisions>>
    BY <1>4 DEF CallerCanceled
  <2>2. op'.kind = op.kind /\ op'.next = op.next /\ op'.after = op.after
    BY <1>0, <2>1 DEF RunCommit
  <2> QED BY <2>1, <2>2, PendingOrder
<1>5. CASE Receipt
  <2>1. /\ op.kind # "idle" /\ snap' = op.after /\ op' = Idle /\ op'.kind = "idle"
        /\ phase' \in {Interrupted, op.next} /\ UNCHANGED <<requested, revisions>>
    BY <1>5 DEF Receipt, Idle
  <2>2. revisions = 0 /\ op.next \in Rounds => InOrderly(op.after.steps)
    BY <2>1 DEF RunInv, WorkInOrder
  <2>3. op.next = "tools" /\ op.after.status = "running" => Matches(op.after.steps, requested, revisions)
    BY <2>1 DEF RunInv, ToolMatchesStep
  <2>4. WorkInOrder'
    <3>1. revisions' = 0 /\ phase' \in Rounds => InOrderly(snap'.steps)
      BY <1>0, <2>1, <2>2, ExitsNoRounds
    <3> QED BY <2>1, <3>1 DEF WorkInOrder
  <2>5. ToolMatchesStep'
    <3>1. phase' = "tools" => phase' = op.next
      BY <1>0, <2>1, ExitsNoRounds
    <3> QED BY <2>1, <2>3, <3>1 DEF ToolMatchesStep
  <2> QED BY <2>4, <2>5
<1> QED BY <1>1, <1>2, <1>3, <1>4, <1>5 DEF ControllerStep

LEMMA ExecutionOrder ==
    ASSUME RunInv, ExecutionStep
    PROVE  ToolMatchesStep' /\ WorkInOrder'
<1>0. /\ snap \in Snapshot /\ LegalSnapshot(snap) /\ snap.steps \in Seq(PlanStep) /\ phase \in Phases
      /\ op.kind = "idle" => op = Idle
      /\ revisions = 0 /\ phase \in Rounds => InOrderly(snap.steps)
      /\ revisions' = 0 => revisions = 0
  <2>1. revisions' = revisions \/ (revisions \in Nat /\ revisions' = revisions + 1)
    BY DEF ExecutionStep, InstallPlan, ReactiveRun, ModelDelta, ToolCallsStarted, ToolRoundCompleted,
           ToolRoundFailed, MarkFailed, ReviseTo, ReviseFallback, Answer, DurableProgress, DurableEnds,
           Abort, Settle, RunInv, RunRecords, RunTypeOK
  <2> QED BY <2>1, CommitKinds, SnapshotFields DEF RunInv, RunRecords, RunTypeOK, WorkInOrder
<1>1. ASSUME NEW plan \in Plans, NEW next \in {"model", "durable"}, InstallPlan(plan, next)
      PROVE  ToolMatchesStep' /\ WorkInOrder'
  <2>1. ApplyPlan(Initialize(plan), next)
    BY <1>1 DEF InstallPlan
  <2>2. InOrderly(Initialize(plan))
    BY InitializeOrderly
  <2> QED BY <1>0, <2>1, <2>2, ApplyPlanOrder
<1>2. CASE ReactiveRun
  <2>1. op.kind = "idle" /\ phase' = "answer" /\ UNCHANGED <<snap, op>>
    BY <1>2 DEF ReactiveRun
  <2> QED BY <1>0, <2>1, PhaseOrder DEF Rounds
<1>3. ASSUME NEW next \in {"model", "answer"}, ModelDelta(next)
      PROVE  ToolMatchesStep' /\ WorkInOrder'
  <2>1. phase = "model" /\ Apply(OnModelDelta(snap), next)
    BY <1>3 DEF ModelDelta
  <2>2. revisions = 0 => InOrderly(OnModelDelta(snap).steps)
    BY <1>0, <2>1, OnModelDeltaOrderly DEF Rounds
  <2> QED BY <1>0, <2>1, <2>2, ApplyOrder
<1>4. ASSUME NEW tool \in AllowedTools(snap), ToolCallsStarted(tool)
      PROVE  ToolMatchesStep' /\ WorkInOrder'
  <2>1. op.kind = "idle" /\ phase = "model" /\ requested' = tool
    BY <1>4 DEF ToolCallsStarted
  <2>2. CASE CanStartTools(snap)
    <3>1. Apply(OnToolCallsStarted(snap), "tools")
      BY <1>4, <2>2 DEF ToolCallsStarted
    <3>2. revisions = 0 => InOrderly(snap.steps)
      BY <1>0, <2>1 DEF Rounds
    <3>3. revisions = 0 => InOrderly(OnToolCallsStarted(snap).steps)
      BY <1>0, <2>2, <3>2, OnToolCallsStartedOrderly
    <3>4. snap.status \notin TerminalStatus
      BY <1>4 DEF AllowedTools
    <3>5. Matches(OnToolCallsStarted(snap).steps, requested', revisions')
      <4>1. PICK t : t = OnToolCallsStarted(snap).steps
        OBVIOUS
      <4>2. Grants(t, tool) \/ Overtakes(t, tool)
        BY <1>0, <2>2, <3>4, <4>1, CallsStartedGrant
      <4>3. revisions = 0 => Grants(t, tool)
        BY <1>0, <2>2, <3>2, <3>4, <4>1, CallsStartedGrant
      <4> QED BY <1>0, <2>1, <4>1, <4>2, <4>3 DEF Matches
    <3> QED BY <1>0, <3>1, <3>3, <3>5, ApplyOrder
  <2>3. CASE ~CanStartTools(snap)
    <3>1. phase' = Raised /\ UNCHANGED <<snap, op>>
      BY <1>4, <2>3 DEF ToolCallsStarted
    <3> QED BY <1>0, <2>1, <3>1, ExitsNoRounds, PhaseOrder
  <2> QED BY <2>2, <2>3
<1>5. ASSUME NEW outcome \in {"progressed", "completed", "declined"}, NEW next \in {"model", "replan"},
             ToolRoundCompleted(outcome, next)
      PROVE  ToolMatchesStep' /\ WorkInOrder'
  <2>1. phase = "tools" /\ Apply(OnToolRoundCompleted(snap, outcome), next)
    BY <1>5 DEF ToolRoundCompleted
  <2>2. revisions = 0 => InOrderly(OnToolRoundCompleted(snap, outcome).steps)
    BY <1>0, <2>1, OnToolRoundCompletedOrderly DEF Rounds
  <2> QED BY <1>0, <2>1, <2>2, ApplyOrder
<1>6. ASSUME NEW next \in {"model", "failing", "settle"}, ToolRoundFailed(next)
      PROVE  ToolMatchesStep' /\ WorkInOrder'
  <2>1. op.kind = "idle" /\ phase' = next /\ phase \in {"tools", "model"} /\ UNCHANGED <<snap, op>>
    BY <1>6 DEF ToolRoundFailed
  <2> QED BY <1>0, <2>1, PhaseOrder DEF Rounds
<1>7. CASE MarkFailed
  <2>1. phase = "failing"
    BY <1>7 DEF MarkFailed
  <2>2. CASE snap.status \in TerminalStatus \/ RunningOf(snap.steps, "tool") # 0
    <3>1. Apply(OnToolRoundFailed(snap), "replanFailed")
      BY <1>7, <2>2 DEF MarkFailed
    <3>2. revisions = 0 => InOrderly(OnToolRoundFailed(snap).steps)
      BY <1>0, <2>1, <2>2, OnToolRoundFailedOrderly DEF Rounds
    <3> QED BY <1>0, <3>1, <3>2, ApplyOrder
  <2>3. CASE ~(snap.status \in TerminalStatus \/ RunningOf(snap.steps, "tool") # 0)
    <3>1. op.kind = "idle" /\ phase' = Raised /\ UNCHANGED <<snap, op>>
      BY <1>7, <2>3 DEF MarkFailed
    <3> QED BY <1>0, <3>1, ExitsNoRounds, PhaseOrder
  <2> QED BY <2>2, <2>3
<1>8. ASSUME NEW plan \in Plans, ReviseTo(plan)
      PROVE  ToolMatchesStep' /\ WorkInOrder'
  <2>1. phase \in {"replan", "replanFailed"} /\ ApplyPlan(RevisePlan(snap.steps, plan), "model")
    BY <1>8 DEF ReviseTo
  <2>2. revisions' # 0
    BY <1>8 DEF ReviseTo, RunInv, RunRecords, RunTypeOK
  <2> QED BY <1>0, <2>1, <2>2, ApplyPlanOrder
<1>9. CASE ReviseFallback
  <2>1. CASE phase = "replanFailed"
    <3>1. PICK n \in Nat : n = UniqueStepId(Ids(snap.steps)) /\ n >= RespondId
      BY <1>0, IdsFinite, UnusedId
    <3>2. PICK plan : plan = <<Respond(n)>>
      OBVIOUS
    <3>3. ApplyPlan(RevisePlan(snap.steps, plan), "model")
      BY <1>9, <2>1, <3>1, <3>2 DEF ReviseFallback
    <3>4. InOrderly(RevisePlan(snap.steps, plan))
      <4>1. plan \in Seq(PlanStep) /\ DOMAIN plan = 1..1
        BY <3>1, <3>2, RespondTyped
      <4> QED BY <1>0, <4>1, FallbackOrderly
    <3> QED BY <1>0, <3>3, <3>4, ApplyPlanOrder
  <2>2. CASE phase # "replanFailed"
    <3>1. op.kind = "idle" /\ phase = "replan" /\ phase' = "model" /\ UNCHANGED <<snap, op>>
      BY <1>9, <2>2 DEF ReviseFallback
    <3> QED BY <1>0, <3>1, PhaseOrder DEF Rounds
  <2> QED BY <2>1, <2>2
<1>10. ASSUME NEW published \in BOOLEAN, Answer(published)
       PROVE  ToolMatchesStep' /\ WorkInOrder'
  <2>1. CASE Apply(Complete(snap), "ended")
    BY <1>0, <2>1, ApplyOrder DEF Rounds
  <2>2. CASE op.kind = "idle" /\ phase' = Raised /\ UNCHANGED <<snap, stored, op>>
    BY <1>0, <2>2, ExitsNoRounds, PhaseOrder
  <2> QED BY <1>10, <2>1, <2>2 DEF Answer
<1>11. ASSUME NEW report \in [Ids(snap.steps) -> StepStatuses], DurableProgress(report)
       PROVE  ToolMatchesStep' /\ WorkInOrder'
  <2>1. Apply(SyncDurable(snap, report), "durable")
    BY <1>11 DEF DurableProgress
  <2> QED BY <1>0, <2>1, ApplyOrder DEF Rounds
<1>12. CASE DurableEnds \/ Settle
  <2>1. CASE Apply(FinishDurable(snap), "answer")
    BY <1>0, <2>1, ApplyOrder DEF Rounds
  <2>2. CASE Apply(CompleteDurable(snap), "ended")
    BY <1>0, <2>2, ApplyOrder DEF Rounds
  <2>3. CASE Apply(Complete(snap), "ended")
    BY <1>0, <2>3, ApplyOrder DEF Rounds
  <2>4. CASE Apply(Fail(snap), "ended")
    BY <1>0, <2>4, ApplyOrder DEF Rounds
  <2>5. CASE Apply(Cancel(snap), "ended")
    BY <1>0, <2>5, ApplyOrder DEF Rounds
  <2> QED BY <1>12, <2>1, <2>2, <2>3, <2>4, <2>5 DEF DurableEnds, Settle
<1>13. ASSUME NEW next \in {"settle", "finally"}, Abort(next)
       PROVE  ToolMatchesStep' /\ WorkInOrder'
  <2>1. op.kind = "idle" /\ phase' = next /\ UNCHANGED <<snap, op>>
    BY <1>13 DEF Abort
  <2> QED BY <1>0, <2>1, PhaseOrder DEF Rounds
<1> QED BY <1>1, <1>2, <1>3, <1>4, <1>5, <1>6, <1>7, <1>8, <1>9, <1>10, <1>11, <1>12, <1>13
        DEF ExecutionStep

\* RunInv, for any plans and revisions: the records are sound, and the tool at
\* work is the one the running step grants, or that of a step which a revision
\* has let overtake it.
THEOREM RunInvariant == Spec => []RunInv
<1>1. Init => RunInv
  <2> SUFFICES ASSUME Init PROVE RunInv
    OBVIOUS
  <2>1. op.kind = "idle" /\ phase = "plan"
    BY DEF Init, Idle
  <2> QED BY <2>1, RecordsInit DEF RunInv, ToolMatchesStep, WorkInOrder, Rounds
<1>2. RunInv /\ [Next]_vars => RunInv'
  <2> SUFFICES ASSUME RunInv, [Next]_vars PROVE RunInv'
    OBVIOUS
  <2>1. RunRecords'
    BY RecordsStep DEF RunInv
  <2>2. CASE ControllerStep
    BY <2>1, <2>2, ControllerOrder DEF RunInv
  <2>3. CASE ExecutionStep
    BY <2>1, <2>3, ExecutionOrder DEF RunInv
  <2>4. CASE TreeCancels \/ UNCHANGED vars
    <3>1. UNCHANGED <<snap, op, phase, requested, revisions>>
      BY <2>4 DEF TreeCancels, vars
    <3>2. ToolMatchesStep'
      BY <3>1 DEF RunInv, ToolMatchesStep
    <3>3. WorkInOrder'
      <4>1. revisions' = 0 => /\ phase' \in Rounds => InOrderly(snap'.steps)
                              /\ op'.kind # "idle" /\ op'.next \in Rounds => InOrderly(op'.after.steps)
        BY <3>1 DEF RunInv, WorkInOrder
      <4> QED BY <4>1 DEF WorkInOrder
    <3> QED BY <2>1, <3>2, <3>3 DEF RunInv
  <2> QED BY <2>2, <2>3, <2>4 DEF Next
<1> QED BY <1>1, <1>2, PTL DEF Spec
=============================================================================
