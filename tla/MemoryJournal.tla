---------------------------- MODULE MemoryJournal ----------------------------
(***************************************************************************)
(* Long-term memory over the Mem0 SDK: the SDK keeps the content, an        *)
(* SQLite journal keeps the operations, the records' versions and           *)
(* visibility, and a partial unique index that lets one operation of a      *)
(* scope write at a time.                                                   *)
(*                                                                         *)
(*   integrations/mem0/python/src/purra_mem0/_journal.py   Journal         *)
(*   integrations/mem0/python/src/purra_mem0/memory.py     Mem0Memory      *)
(*   integrations/mem0/python/src/purra_mem0/providers.py  managed calls   *)
(*                                                                         *)
(* A journal transaction and an SDK call are one step each; between them    *)
(* the process may die, the call may time out, and other processes that     *)
(* share the journal move.  Text is the key of the operation that wrote it. *)
(* A key that was used before is answered from its receipt or refused,      *)
(* which stores nothing.  An adapter is managed, when it was built with     *)
(* MemoryProviders, or raw: the SDK then calls its own providers, and       *)
(* nothing is admitted, verified or recorded of them.                       *)
(***************************************************************************)
EXTENDS Integers, FiniteSets

CONSTANTS
    Procs,        \* threads of the processes that use the scope
    OpKeys,       \* operation keys
    MemIds,       \* ids the SDK gives to records
    MemSources,   \* source revisions
    Decisions,    \* capture decisions of the host
    MaxCalls,     \* max_llm_calls of the budget
    MaxMemEpoch,  \* bound: control operations stop here
    MaxRules,     \* bound: revocations, withdrawals and expiries together
    TwinRepair,   \* whether two repairs of one key may overlap
    Earlier,      \* key of an add that completed before the behaviour starts
    Nil

ASSUME MemAssumption ==
    /\ Earlier \notin OpKeys \cup {Nil}
    /\ Nil \notin Procs \cup OpKeys \cup MemIds \cup MemSources \cup Decisions
    /\ IsFiniteSet(MemIds)
    /\ {MaxCalls, MaxMemEpoch, MaxRules} \subseteq Nat /\ TwinRepair \in BOOLEAN

VARIABLES
    ops,         \* purra_mem0_ops: state and plan of each key
    rows,        \* purra_mem0_items: the record with its view
    sdk,         \* which operation wrote what the SDK holds under an id
    memEpoch,    \* purra_mem0_epochs
    revoked,     \* purra_mem0_revocations
    granted,     \* purra_mem0_capture_authorizations
    withdrawn,   \* purra_mem0_capture_revocations
    lapsed,      \* records whose expires_at has passed
    calls,       \* purra_mem0_calls of the budget, settled or not
    managed,     \* the threads whose adapter was built with MemoryProviders
    job          \* what each thread is doing, and what it has read

memVars == <<ops, rows, sdk, memEpoch, revoked, granted, withdrawn, lapsed,
             calls, managed, job>>
ruleVars == <<revoked, granted, withdrawn, lapsed, managed>>

WriteKinds == {"add", "extract", "update", "delete"}
OpStates == {"none", "running", "unknown", "failed", "complete", "discarded"}
ScopeFenced == {"running", "unknown"}
JobSteps == {"idle", "prepare", "dispatch", "ids", "verify", "commit", "checked",
             "fail", "final", "reconcile", "erase", "erased", "control",
             "compare", "advise", "review", "body", "answer"}

\* The plan: its budget (managed), target, what the SDK is told (planned),
\* saved ids, repair flags.
NoOp == [st |-> "none", kind |-> "add", target |-> Nil, src |-> Nil,
         cap |-> Nil, managed |-> FALSE, planned |-> FALSE, ver |-> 1, state |-> "pending",
         got |-> FALSE, ids |-> {}, perr |-> FALSE, verified |-> FALSE,
         discarding |-> FALSE, epoch |-> 0]
NoRow == [st |-> "none", ver |-> 0, state |-> "pending", src |-> Nil,
          cap |-> Nil, op |-> Nil]
NoJob == [at |-> "idle", key |-> Nil, id |-> Nil, row |-> NoRow, epoch |-> 0,
          err |-> FALSE, sent |-> FALSE]

\* purra_mem0_items: a record and its view.
MemoryRecord ==
    [st : {"none", "live", "gone"}, ver : Nat,
     state : {"active", "pending", "disabled"}, src : MemSources \cup {Nil},
     cap : Decisions \cup {Nil}, op : OpKeys \cup {Earlier, Nil}]

\* purra_mem0_ops: an operation and its plan.
MemoryOperation ==
    [st : OpStates, kind : WriteKinds \cup {"review", "control"},
     target : MemIds \cup {Nil}, src : MemSources \cup {Nil},
     cap : Decisions \cup {Nil}, managed : BOOLEAN, planned : BOOLEAN, ver : Nat,
     state : {"active", "pending", "disabled"}, got : BOOLEAN,
     ids : SUBSET MemIds, perr : BOOLEAN, verified : BOOLEAN,
     discarding : BOOLEAN, epoch : Nat]

\* A thread: the step it is at and what it has read.
MemoryJob ==
    [at : JobSteps, key : OpKeys \cup {Nil}, id : MemIds \cup {Nil},
     row : MemoryRecord, epoch : Nat, err : BOOLEAN, sent : BOOLEAN]

MemTypeOK ==
    /\ ops \in [OpKeys -> MemoryOperation]
    /\ rows \in [MemIds -> MemoryRecord]
    /\ sdk \in [MemIds -> OpKeys \cup {Earlier, Nil}]
    /\ job \in [Procs -> MemoryJob]
    /\ memEpoch \in Nat /\ calls \in 0..MaxCalls /\ managed \subseteq Procs
    /\ \A p \in Procs : job[p].epoch <= memEpoch

\* A scope that is new, or one that holds records of an earlier add.
MemInit ==
    /\ ops = [k \in OpKeys |-> NoOp]
    /\ \E old \in SUBSET MemIds, s \in MemSources :
          /\ rows = [i \in MemIds |-> IF i \notin old THEN NoRow
                ELSE [NoRow EXCEPT !.st = "live", !.ver = 1, !.state = "active",
                                   !.src = s, !.op = Earlier]]
          /\ sdk = [i \in MemIds |-> IF i \in old THEN Earlier ELSE Nil]
          /\ memEpoch = Cardinality(old)
    /\ calls = 0 /\ managed \in SUBSET Procs
    /\ revoked = {} /\ granted = {} /\ withdrawn = {} /\ lapsed = {}
    /\ job = [p \in Procs |-> NoJob]

(***************************************************************************)
(* What the journal and the SDK say.                                       *)
(***************************************************************************)
\* The partial unique index purra_mem0_writer.
FenceFree == \A k \in OpKeys : ops[k].st \notin ScopeFenced
\* writing: an operation that holds the fence targets this record.
Writing(i) == \E k \in OpKeys : ops[k].st \in ScopeFenced /\ ops[k].target = i
\* assert_capture_authorization.
Authorized(cap) == cap = Nil \/ cap \in granted \ withdrawn
\* _read without internal: withdrawn records are not there.
Hidden(row) == row.src \in revoked \/ row.cap \in withdrawn
\* _owned against the journal's row: same id, metadata and text digest.
Intact(i) == sdk[i] # Nil /\ sdk[i] = rows[i].op
\* _read with include_inactive, as _check_refs uses it.
Readable(i) ==
    rows[i].st = "live" /\ ~Hidden(rows[i]) /\ ~Writing(i) /\ Intact(i)

\* reconcile and discard_extraction are for the time after the writer; the
\* adapter knows only its own tasks and takes the host's word for the others.
WriterStopped(k) ==
    \A p \in Procs : job[p].key = k =>
        TwinRepair /\ job[p].at \in {"reconcile", "erase", "erased"}

JobAt(p, at) == job' = [job EXCEPT ![p].at = at]
Free(p) == job' = [job EXCEPT ![p] = NoJob]

(***************************************************************************)
(* Writes: add, extract, update and delete (_write).                       *)
(***************************************************************************)
\* Up to and including begin.
BeginWrite(p, k, kind, i, src, cap) ==
    /\ job[p].at = "idle" /\ ops[k].st = "none" /\ FenceFree
    /\ (i = Nil) <=> (kind \in {"add", "extract"})
    /\ (src = Nil) <=> (kind = "delete")
    /\ cap # Nil => kind = "extract" /\ Authorized(cap)
    /\ \E ver \in IF i = Nil THEN {0} ELSE 1..memEpoch :
          ops' = [ops EXCEPT ![k] = [NoOp EXCEPT !.st = "running",
             !.kind = kind, !.target = i, !.src = src, !.cap = cap, !.ver = ver,
             !.managed = p \in managed]]
    /\ job' = [job EXCEPT ![p] = [NoJob EXCEPT !.at = "prepare", !.key = k]]
    /\ UNCHANGED <<rows, sdk, memEpoch, ruleVars, calls>>

\* The checks under the fence, then save_plan with what the SDK will be told.
Prepare(p) ==
    LET k == job[p].key
        o == ops[k]
        old == IF o.target = Nil THEN NoRow ELSE rows[o.target]
        fits == /\ o.src \notin revoked /\ Authorized(o.cap)
                /\ o.target # Nil => /\ old.st = "live" /\ old.ver = o.ver
                                     /\ Intact(o.target)
    IN  /\ job[p].at = "prepare"
        /\ IF fits /\ ~job[p].err
              THEN \E state \in IF o.target # Nil THEN {old.state}
                                ELSE IF o.kind = "extract" THEN {"pending"}
                                ELSE {"active", "pending"} :
                   /\ ops' = [ops EXCEPT ![k].planned = TRUE,
                         ![k].ver = old.ver + 1, ![k].state = state,
                         ![k].src = IF o.src = Nil THEN old.src ELSE o.src,
                         ![k].cap = IF o.target = Nil THEN o.cap ELSE old.cap]
                   /\ JobAt(p, "dispatch")
              ELSE JobAt(p, "fail") /\ UNCHANGED ops
        /\ UNCHANGED <<rows, sdk, memEpoch, ruleVars, calls>>

Fresh == {i \in MemIds : sdk[i] = Nil /\ rows[i].st = "none"}

\* What a call of the SDK may have done when it returns or raises.
SdkEffects(k) ==
    CASE ops[k].kind = "add" ->
            {[sdk EXCEPT ![i] = k] : i \in Fresh} \cup {sdk}
      [] ops[k].kind = "extract" ->
            {[i \in MemIds |-> IF i \in new THEN k ELSE sdk[i]] : new \in SUBSET Fresh}
      [] ops[k].kind = "update" -> {[sdk EXCEPT ![ops[k].target] = k], sdk}
      [] ops[k].kind = "delete" -> {[sdk EXCEPT ![ops[k].target] = Nil], sdk}
      [] OTHER -> {sdk}

\* execution.invoke and admit: the rules are checked again and a reservation
\* is made that nothing gives back.
Admit(k) ==
    IF /\ ops[k].src \notin revoked /\ Authorized(ops[k].cap) /\ calls < MaxCalls
    THEN calls' = calls + 1
    ELSE UNCHANGED calls
Refused(k) ==
    ~(ops[k].src \notin revoked /\ Authorized(ops[k].cap) /\ calls < MaxCalls)

\* The SDK call, after a last look at the authorization.  The SDK may swallow
\* a provider's refusal (err is set all the same, if it is managed) or raise.
DispatchJob(p) ==
    LET k == job[p].key
    IN  /\ job[p].at = "dispatch"
        /\ IF ~Authorized(ops[k].cap)
              THEN JobAt(p, "fail") /\ UNCHANGED <<sdk, calls>>
              ELSE /\ sdk' \in SdkEffects(k)
                   /\ IF ops[k].kind = "extract" /\ p \in managed
                         THEN Admit(k) ELSE UNCHANGED calls
                   /\ \E raised \in BOOLEAN, bad \in BOOLEAN :
                        /\ p \in managed /\ ops[k].kind = "extract" /\ Refused(k) => bad
                        /\ bad => p \in managed
                        /\ ~raised => \/ ops[k].kind = "extract"
                                      \/ sdk' # sdk
                        /\ job' = [job EXCEPT
                              ![p].at = IF raised THEN "fail" ELSE "ids",
                              ![p].sent = TRUE, ![p].err = @ \/ bad]
        /\ UNCHANGED <<ops, rows, memEpoch, ruleVars>>

\* save_ids with what the SDK returned; a raw adapter verifies no providers.
SaveIds(p) ==
    LET k == job[p].key
    IN  /\ job[p].at = "ids"
        /\ ops' = [ops EXCEPT ![k].got = TRUE,
              ![k].ids = IF ops[k].target # Nil THEN {ops[k].target}
                         ELSE {i \in MemIds : sdk[i] = k}]
        /\ JobAt(p, IF p \in managed THEN "verify" ELSE "commit")
        /\ UNCHANGED <<rows, sdk, memEpoch, ruleVars, calls>>

\* execution.check and verify_providers.
VerifyProviders(p) ==
    /\ job[p].at = "verify"
    /\ IF job[p].err
          THEN JobAt(p, "fail") /\ UNCHANGED ops
          ELSE /\ ops' = [ops EXCEPT ![job[p].key].verified = TRUE]
               /\ JobAt(p, "commit")
    /\ UNCHANGED <<rows, sdk, memEpoch, ruleVars, calls>>

\* _verify_commit's look at the SDK.
Landed(k) ==
    \A i \in ops[k].ids : sdk[i] = IF ops[k].kind = "delete" THEN Nil ELSE k

\* Journal.commit: the records, the receipt and the epoch in one transaction.
Committed(k) ==
    /\ rows' = [i \in MemIds |->
          IF i \notin ops[k].ids THEN rows[i]
          ELSE IF ops[k].kind = "delete" THEN [rows[i] EXCEPT !.st = "gone"]
          ELSE [st |-> "live", ver |-> ops[k].ver, state |-> ops[k].state,
                src |-> ops[k].src, cap |-> ops[k].cap, op |-> k]]
    /\ ops' = [ops EXCEPT ![k].st = "complete"]
    /\ memEpoch' = IF ops[k].ids = {} THEN memEpoch ELSE memEpoch + 1

\* _verify_commit up to the last execution.check.
CheckCommit(p) ==
    /\ job[p].at = "commit"
    /\ JobAt(p, IF Landed(job[p].key) /\ ~job[p].err THEN "checked" ELSE "fail")
    /\ UNCHANGED <<ops, rows, sdk, memEpoch, ruleVars, calls>>

\* journal.commit does not look at the execution again.
Commit(p) ==
    /\ job[p].at = "checked"
    /\ Committed(job[p].key)
    /\ JobAt(p, "final")
    /\ UNCHANGED <<sdk, ruleVars, calls>>

\* Mutant: every failure of a write releases the fence.
FailReleases(p) ==
    /\ job[p].at = "fail"
    /\ ops' = [ops EXCEPT ![job[p].key].st = "failed",
                          ![job[p].key].perr = @ \/ job[p].err]
    /\ JobAt(p, "final")
    /\ UNCHANGED <<rows, sdk, memEpoch, ruleVars, calls>>

\* provider_error and fail: what was dispatched stays fenced.
Fail(p) ==
    /\ job[p].at = "fail"
    /\ ops' = [ops EXCEPT
          ![job[p].key].st = IF job[p].sent THEN "unknown" ELSE "failed",
          ![job[p].key].perr = @ \/ job[p].err]
    /\ JobAt(p, "final")
    /\ UNCHANGED <<rows, sdk, memEpoch, ruleVars, calls>>

\* ProviderExecution.run after the work: its last check raises to the caller.
FinalCheck(p) ==
    /\ job[p].at = "final" /\ Free(p)
    /\ UNCHANGED <<ops, rows, sdk, memEpoch, ruleVars, calls>>

\* The caller's timeout or cancellation: the thread goes on, but the error is
\* in the plan, also of an operation that is complete by now, and every later
\* check sees it.  A save_plan that was under way overwrites it.  A raw adapter
\* records nothing.  To a read it is like Die; a discard has no check in between.
StopCall(p) ==
    /\ p \in managed /\ ~job[p].err
    /\ job[p].at \notin {"idle", "fail", "erase", "erased", "body", "answer"}
    /\ job' = [job EXCEPT ![p].err = TRUE]
    /\ \/ /\ job[p].at \in {"prepare", "dispatch", "ids", "verify", "commit", "checked", "final"}
          /\ ops' = [ops EXCEPT ![job[p].key].perr = TRUE]
       \/ /\ job[p].at \notin {"prepare", "ids", "verify", "commit", "checked", "final"}
          /\ UNCHANGED ops
    /\ UNCHANGED <<rows, sdk, memEpoch, ruleVars, calls>>

\* The process dies; what it wrote to the journal and the SDK remains.
Die(p) ==
    /\ job[p].at # "idle" /\ Free(p)
    /\ UNCHANGED <<ops, rows, sdk, memEpoch, ruleVars, calls>>

(***************************************************************************)
(* Repair of an interrupted write.                                         *)
(***************************************************************************)
\* An extraction with a provider's error, without ids, or whose plan has a
\* budget and no verified providers, or that is being discarded, is never taken
\* for complete.
Unverified(k) ==
    \/ ops[k].discarding
    \/ /\ ops[k].kind = "extract"
       /\ ops[k].perr \/ (ops[k].managed /\ ~ops[k].verified) \/ ~ops[k].got

\* reconcile up to save_ids; it never repeats an SDK mutation.
Reconcile(p, k) ==
    LET found == {i \in MemIds : sdk[i] = k}
        o == ops[k]
    IN  /\ job[p].at = "idle" /\ o.st \in ScopeFenced /\ WriterStopped(k)
        /\ IF o.kind = "review" \/ (~Unverified(k) /\ ~o.planned)
              THEN ops' = [ops EXCEPT ![k].st = "failed"] /\ UNCHANGED job
              ELSE /\ ~Unverified(k)
                   /\ ~o.got /\ o.target = Nil => Cardinality(found) = 1
                   /\ ops' = [ops EXCEPT ![k].got = TRUE,
                         ![k].ids = IF o.got THEN @
                                    ELSE IF o.target # Nil THEN {o.target} ELSE found]
                   /\ job' = [job EXCEPT ![p] = [NoJob EXCEPT !.at = "reconcile",
                                                              !.key = k]]
        /\ UNCHANGED <<rows, sdk, memEpoch, ruleVars, calls>>

\* _verify_commit of the repair: the SDK is read and the execution checked, then
\* the journal committed.
ReconcileRead(p) ==
    /\ job[p].at = "reconcile" /\ ~job[p].sent
    /\ IF Landed(job[p].key) /\ ~job[p].err
          THEN job' = [job EXCEPT ![p].sent = TRUE] ELSE Free(p)
    /\ UNCHANGED <<ops, rows, sdk, memEpoch, ruleVars, calls>>

ReconcileCommit(p) ==
    /\ job[p].at = "reconcile" /\ job[p].sent
    /\ Committed(job[p].key)
    /\ Free(p)
    /\ UNCHANGED <<sdk, ruleVars, calls>>

\* discard_extraction: the intention first, then the candidates, then the fence.
DiscardStart(p, k) ==
    /\ job[p].at = "idle" /\ ops[k].st \in ScopeFenced /\ ops[k].kind = "extract"
    /\ WriterStopped(k)
    /\ ops' = [ops EXCEPT ![k].discarding = ops[k].planned]
    /\ job' = [job EXCEPT ![p] = [NoJob EXCEPT !.at = "erase", !.key = k]]
    /\ UNCHANGED <<rows, sdk, memEpoch, ruleVars, calls>>

\* One candidate at a time is deleted; a candidate with a journal row is not.
DiscardErase(p) ==
    LET k == job[p].key
        left == {i \in MemIds : sdk[i] = k}
    IN  /\ job[p].at = "erase"
        /\ IF ~ops[k].discarding \/ left = {}
              THEN JobAt(p, "erased") /\ UNCHANGED sdk
           ELSE IF \E i \in left : rows[i].st # "none"
              THEN Free(p) /\ UNCHANGED sdk
              ELSE /\ \E i \in left : sdk' = [sdk EXCEPT ![i] = Nil]
                   /\ UNCHANGED job
        /\ UNCHANGED <<ops, rows, memEpoch, ruleVars, calls>>

DiscardDone(p) ==
    /\ job[p].at = "erased"
    /\ ops' = [ops EXCEPT ![job[p].key].st = "discarded"]
    /\ Free(p)
    /\ UNCHANGED <<rows, sdk, memEpoch, ruleVars, calls>>

(***************************************************************************)
(* Control operations: state, annotate, resolve and link.  They need no    *)
(* SDK write: the records are verified first, then changed in one          *)
(* transaction that demands the epoch of the verification.                 *)
(***************************************************************************)
ControlRead(p, k, i) ==
    /\ job[p].at = "idle" /\ ops[k].st = "none" /\ Readable(i)
    /\ job' = [job EXCEPT ![p] = [NoJob EXCEPT !.at = "control", !.key = k,
          !.id = i, !.row = rows[i], !.epoch = memEpoch]]
    /\ UNCHANGED <<ops, rows, sdk, memEpoch, ruleVars, calls>>

\* Journal.control: fence, epoch, version and source again, then the change;
\* an expired record is not made active.
Control(p, change) ==
    LET k == job[p].key
        i == job[p].id
    IN  /\ job[p].at = "control" /\ memEpoch < MaxMemEpoch
        /\ IF /\ FenceFree /\ ~job[p].err /\ ops[k].st = "none"
              /\ memEpoch = job[p].epoch
              /\ rows[i].st = "live" /\ rows[i].ver = job[p].row.ver
              /\ rows[i].src \notin revoked
              /\ change = "active" => i \notin lapsed
              THEN /\ rows' = [rows EXCEPT ![i].state = change, ![i].ver = @ + 1]
                   /\ ops' = [ops EXCEPT ![k] = [NoOp EXCEPT !.st = "complete",
                         !.kind = "control", !.ids = {i}]]
                   /\ memEpoch' = memEpoch + 1
              ELSE UNCHANGED <<rows, ops, memEpoch>>
        /\ Free(p) /\ UNCHANGED <<sdk, ruleVars, calls>>

(***************************************************************************)
(* Review: advice of a model on a pending record, bound to one epoch.      *)
(***************************************************************************)
BeginReview(p, k, i) ==
    /\ job[p].at = "idle" /\ p \in managed /\ ops[k].st = "none" /\ FenceFree
    /\ ops' = [ops EXCEPT ![k] = [NoOp EXCEPT !.st = "running", !.kind = "review",
                                               !.managed = TRUE]]
    /\ job' = [job EXCEPT ![p] = [NoJob EXCEPT !.at = "compare", !.key = k, !.id = i]]
    /\ UNCHANGED <<rows, sdk, memEpoch, ruleVars, calls>>

\* assert_snapshot.
Snapshot(p) ==
    /\ memEpoch = job[p].epoch /\ job[p].id \notin lapsed
    /\ rows[job[p].id].st = "live" /\ rows[job[p].id].ver = job[p].row.ver
    /\ rows[job[p].id].src \notin revoked

\* _check_refs of the candidate, and the epoch the advice will be bound to.
ReviewCompare(p) ==
    LET i == job[p].id
    IN  /\ job[p].at = "compare"
        /\ IF Readable(i) /\ rows[i].state = "pending" /\ ~job[p].err
              THEN job' = [job EXCEPT ![p].at = "advise", ![p].row = rows[i],
                                      ![p].epoch = memEpoch]
              ELSE JobAt(p, "fail")
        /\ UNCHANGED <<ops, rows, sdk, memEpoch, ruleVars, calls>>

\* The model call; an answer that does not parse raises.
ReviewAdvise(p) ==
    LET ok == Snapshot(p) /\ calls < MaxCalls /\ ~job[p].err
    IN  /\ job[p].at = "advise"
        /\ calls' = IF ok THEN calls + 1 ELSE calls
        /\ \E next \in IF ok THEN {"review", "fail"} ELSE {"fail"} : JobAt(p, next)
        /\ UNCHANGED <<ops, rows, sdk, memEpoch, ruleVars>>

\* finish_review.
FinishReview(p) ==
    LET k == job[p].key
    IN  /\ job[p].at = "review"
        /\ IF ops[k].st = "running" /\ Snapshot(p) /\ ~job[p].err
              THEN /\ ops' = [ops EXCEPT ![k].st = "complete", ![k].ids = {},
                        ![k].epoch = job[p].epoch]
                   /\ Free(p)
              ELSE JobAt(p, "fail") /\ UNCHANGED ops
        /\ UNCHANGED <<rows, sdk, memEpoch, ruleVars, calls>>

(***************************************************************************)
(* Reads, and the rules that take effect at once.                          *)
(***************************************************************************)
\* get and _read: the epoch, then the journal's row and the writers.
GetRow(p, i) ==
    /\ job[p].at = "idle"
    /\ rows[i].st = "live" /\ ~Hidden(rows[i]) /\ ~Writing(i)
    /\ job' = [job EXCEPT ![p] = [NoJob EXCEPT !.at = "body", !.id = i,
          !.row = rows[i], !.epoch = memEpoch]]
    /\ UNCHANGED <<ops, rows, sdk, memEpoch, ruleVars, calls>>

\* The SDK's object must be the row's; writers and rules are looked at again.
GetBody(p) ==
    LET i == job[p].id
    IN  /\ job[p].at = "body"
        /\ IF /\ sdk[i] # Nil /\ sdk[i] = job[p].row.op
              /\ ~Writing(i) /\ ~Hidden(job[p].row)
              /\ job[p].row.state = "active" /\ i \notin lapsed
              THEN JobAt(p, "answer") ELSE Free(p)
        /\ UNCHANGED <<ops, rows, sdk, memEpoch, ruleVars, calls>>

\* assert_epoch, and the record goes to the caller.
GetAnswer(p) ==
    /\ job[p].at = "answer" /\ memEpoch = job[p].epoch /\ ~job[p].err
    /\ Free(p)
    /\ UNCHANGED <<ops, rows, sdk, memEpoch, ruleVars, calls>>

RuleLeft ==
    Cardinality(revoked) + Cardinality(withdrawn) + Cardinality(lapsed) < MaxRules

\* Mutant: a revocation does not move the epoch.
RevokeQuietly(s) ==
    /\ s \notin revoked /\ RuleLeft /\ revoked' = revoked \cup {s}
    /\ UNCHANGED <<ops, rows, sdk, memEpoch, granted, withdrawn, lapsed, calls, managed, job>>

\* revoke_source: open to the host whoever holds the fence.
RevokeSource(s) ==
    /\ s \notin revoked /\ RuleLeft /\ memEpoch < MaxMemEpoch
    /\ revoked' = revoked \cup {s} /\ memEpoch' = memEpoch + 1
    /\ UNCHANGED <<ops, rows, sdk, granted, withdrawn, lapsed, calls, managed, job>>

RecordAuthorization(d) ==
    /\ d \notin granted \cup withdrawn /\ granted' = granted \cup {d}
    /\ UNCHANGED <<ops, rows, sdk, memEpoch, revoked, withdrawn, lapsed, calls, managed, job>>

RevokeAuthorization(d) ==
    /\ d \in granted \ withdrawn /\ RuleLeft /\ memEpoch < MaxMemEpoch
    /\ withdrawn' = withdrawn \cup {d} /\ memEpoch' = memEpoch + 1
    /\ UNCHANGED <<ops, rows, sdk, revoked, granted, lapsed, calls, managed, job>>

Lapse(i) ==
    /\ i \notin lapsed /\ rows[i].st = "live" /\ RuleLeft /\ lapsed' = lapsed \cup {i}
    /\ UNCHANGED <<ops, rows, sdk, memEpoch, revoked, granted, withdrawn, calls, managed, job>>

MemProc(p) ==
    \/ \E k \in OpKeys, kind \in WriteKinds, i \in MemIds \cup {Nil},
          src \in MemSources \cup {Nil}, cap \in Decisions \cup {Nil} :
          BeginWrite(p, k, kind, i, src, cap)
    \/ Prepare(p) \/ DispatchJob(p) \/ SaveIds(p) \/ VerifyProviders(p)
    \/ CheckCommit(p) \/ Commit(p) \/ Fail(p) \/ FinalCheck(p) \/ StopCall(p) \/ Die(p)
    \/ \E k \in OpKeys : Reconcile(p, k) \/ DiscardStart(p, k)
    \/ ReconcileRead(p) \/ ReconcileCommit(p)
    \/ DiscardErase(p) \/ DiscardDone(p)
    \/ \E k \in OpKeys, i \in MemIds : ControlRead(p, k, i) \/ BeginReview(p, k, i)
    \/ \E change \in {"active", "disabled"} : Control(p, change)
    \/ ReviewCompare(p) \/ ReviewAdvise(p) \/ FinishReview(p)
    \/ \E i \in MemIds : GetRow(p, i)
    \/ GetBody(p) \/ GetAnswer(p)

MemNext ==
    \/ \E p \in Procs : MemProc(p)
    \/ \E s \in MemSources : RevokeSource(s)
    \/ \E d \in Decisions : RecordAuthorization(d) \/ RevokeAuthorization(d)
    \/ \E i \in MemIds : Lapse(i)

MemSpec == MemInit /\ [][MemNext]_memVars

(***************************************************************************)
(* Properties.                                                             *)
(***************************************************************************)
\* Outside a fenced write the journal and the SDK agree on every live record:
\* a crash, a lost answer or a repair never leaves a record whose text is not
\* the one its version was committed for.
ContentMatches ==
    \A i \in MemIds : rows[i].st = "live" /\ ~Writing(i) => sdk[i] = rows[i].op

\* A record leaves the adapter only as it is at that moment: committed, at
\* its current version and state, and of a source and a capture decision that
\* are still in force, although the read spans several calls.
AnswerCurrent ==
    \A p \in Procs : GetAnswer(p) =>
       /\ rows[job[p].id] = job[p].row
       /\ ~Hidden(rows[job[p].id])

\* A record's version only grows, and a change of it that is not a version
\* of its own never happens: no writer, control operation or repair undoes
\* another one's committed change.
VersionsGrow ==
    \A i \in MemIds : rows[i].st = "live" /\ rows'[i] # rows[i] =>
       \/ rows'[i].ver > rows[i].ver
       \/ rows'[i] = [rows[i] EXCEPT !.st = "gone"]

\* What a managed adapter extracted becomes a record only after its providers
\* were found without an error, whoever commits it; and a discarded extraction
\* leaves nothing behind.
ExtractionsVerified ==
    \A k \in OpKeys : ops[k].kind = "extract" =>
        /\ ops[k].st = "complete" /\ ops[k].managed => ops[k].verified
        /\ ops[k].st = "discarded" =>
              \A i \in MemIds : sdk[i] # k /\ rows[i].op # k

\* An extraction whose plan holds a provider's error is committed by nobody but
\* the thread that wrote it, and only if the error came after its last check: no
\* repair completes it, and no other key's thread does.
ErrorsRepaired ==
    \A k \in OpKeys :
        /\ ops[k].kind = "extract" /\ ops[k].perr
        /\ ops[k].st # "complete" /\ ops'[k].st = "complete"
        => \E p \in Procs : job[p].key = k /\ job[p].at = "checked"

\* The threads that carry out or repair an operation.
WritingSteps == {"prepare", "dispatch", "ids", "verify", "commit", "checked"}
ReviewSteps == {"compare", "advise", "review"}
RepairSteps == {"reconcile", "erase", "erased"}
AtWork(p) == job[p].at \in WritingSteps \cup ReviewSteps \cup RepairSteps \cup {"fail"}

\* One operation is fenced at a time and one thread works on it; nobody takes it
\* up while the thread before is still on its way out.
FenceInv ==
    /\ \A j, k \in OpKeys :
          ops[j].st \in ScopeFenced /\ ops[k].st \in ScopeFenced => j = k
    /\ \A p \in Procs : AtWork(p) =>
          job[p].key \in OpKeys /\ ops[job[p].key].st \in ScopeFenced
    /\ \A p, q \in Procs : AtWork(p) /\ AtWork(q) => p = q
    /\ \A p \in Procs : job[p].at = "final" =>
          /\ job[p].key \in OpKeys /\ ops[job[p].key].st # "none"
          /\ \A q \in Procs : AtWork(q) => job[q].key # job[p].key

\* The record that the operation is to change is as it was committed.
TargetIntact(k) ==
    ops[k].target # Nil /\ rows[ops[k].target].st = "live" =>
        sdk[ops[k].target] = rows[ops[k].target].op

\* What the plan of an operation says of the SDK and of the records.
PlanSound(k) ==
    LET o == ops[k]
        fenced == o.st \in ScopeFenced
    IN  /\ o.target # Nil <=> o.kind \in {"update", "delete"}
        /\ o.planned => o.kind \in WriteKinds
        /\ ~o.planned => \A i \in MemIds : sdk[i] # k
        /\ o.st = "none" => ~o.planned /\ ~o.perr
        /\ \A i \in MemIds : rows[i].op = k => o.st = "complete"
        /\ fenced /\ ~o.planned => TargetIntact(k)
        /\ fenced /\ o.target = Nil =>
              \A i \in MemIds : sdk[i] = k => rows[i].st = "none"
        /\ fenced /\ o.planned /\ o.target # Nil =>
              o.ver = rows[o.target].ver + 1
        /\ o.got /\ o.target # Nil => o.ids = {o.target}

\* What a thread may rely on at the step it is at.
JobSound(p) ==
    LET o == ops[job[p].key]
        at == job[p].at
    IN  /\ at \in ReviewSteps \cup {"control", "body", "answer"} => job[p].id \in MemIds
        /\ at = "control" => job[p].key \in OpKeys
        /\ at \in WritingSteps =>
              /\ o.kind \in WriteKinds /\ ~o.discarding /\ (o.perr => job[p].err)
              /\ o.planned <=> at # "prepare"
              /\ job[p].sent <=> at \notin {"prepare", "dispatch"}
              /\ at \in {"verify", "commit", "checked"} => o.got
              /\ at \in {"commit", "checked"} /\ o.managed => o.verified
              /\ at = "checked" => Landed(job[p].key)
              /\ o.managed <=> p \in managed
        /\ at \in ReviewSteps => o.kind = "review" /\ ~job[p].sent
        /\ at \in {"prepare", "dispatch", "fail"} /\ ~job[p].sent => TargetIntact(job[p].key)
        /\ at = "reconcile" =>
              /\ o.planned /\ o.got /\ ~Unverified(job[p].key)
              /\ job[p].sent => Landed(job[p].key)
        /\ at \in {"erase", "erased"} => o.kind = "extract" /\ o.discarding = o.planned
        /\ at = "erased" => \A i \in MemIds : sdk[i] # job[p].key
        /\ at \in {"body", "answer"} /\ job[p].epoch = memEpoch =>
              rows[job[p].id] = job[p].row /\ ~Hidden(job[p].row)

\* MemoryInv: the journal and the SDK's content agree wherever no write is under
\* way, and a managed extraction becomes a record only verified; with what the plans and
\* the threads rely on it is inductive.
MemoryInv ==
    /\ MemTypeOK
    /\ FenceInv
    /\ \A k \in OpKeys : PlanSound(k)
    /\ \A p \in Procs : JobSound(p)
    /\ ContentMatches
    /\ ExtractionsVerified

\* MemorySteps: an answer is current when it is given, no committed change of a
\* record is undone, and no repair commits an extraction whose provider failed.
MemorySteps == [][AnswerCurrent /\ VersionsGrow /\ ErrorsRepaired]_memVars
=============================================================================
