----------------------------- MODULE RuntimeLoop -----------------------------
(***************************************************************************)
(* The model/tool loop of one Run (runtime/orchestrator.py, AgentRuntime): *)
(* every pass of run()'s for loop prepares a provider attempt, streams it, *)
(* classifies the answer, and either finishes, retries the model, replans, *)
(* or authorizes and executes a tool batch and writes a checkpoint.  The   *)
(* provider, the tools, the host's checks and its tool gate answer as they *)
(* like; the Run may be canceled at any time and its process may die at    *)
(* any time and be replaced from the last checkpoint.                      *)
(*                                                                         *)
(* loop is _RuntimeLoopState, at the place in run() where the process is   *)
(* suspended, ans the answer that was streamed in this round.  Messages,   *)
(* evidence, token estimates and traces are left out; what the estimates   *)
(* decide (an overflow) is a choice.  public_presentation_pending is never *)
(* set by this code and is left out.                                       *)
(***************************************************************************)
EXTENDS Recovery, FiniteSets, Sequences

CONSTANTS Profiles,          \* the configurations a Run may have
          MaxRounds,         \* RuntimeLimits.max_model_rounds (or the limit on attempts)
          MaxProgress,       \* RuntimeLimits.max_progress_rounds
          MaxCrashes         \* bound: how often the process dies

ASSUME LoopAssumption ==
  /\ MaxRounds \in Nat \ {0} /\ MaxProgress \in Nat /\ MaxCrashes \in Nat
  /\ Profiles \subseteq [mode : {"reactive", "auto", "planned"}, enforce : BOOLEAN,
                         require : BOOLEAN, force : BOOLEAN, validated : BOOLEAN,
                         gated : SUBSET {"a", "b"}, durable : BOOLEAN]

VARIABLES profile,   \* the Run's configuration
          loop, ledger, at, ans,
          step,      \* the step of the plan the observer reports
          ck,        \* the last committed execution checkpoint
          canceled,  \* the cancellation signal
          result,    \* what run() yielded last
          crashes,
          seen       \* history, for the properties

loopVars == <<profile, loop, ledger, at, ans, step, ck, canceled, result,
              crashes, seen>>

Plan == <<"a", "b">>
Controls == {"request_plan", "request_remaining_plan"}
PlanningRequired == {"b"}
NoAttempt == [tools |-> {}, choice |-> "none", allowed |-> {}, future |-> {},
              require |-> FALSE, buffer |-> FALSE, n |-> 0]
NoAnswer == [calls |-> {}, fault |-> "none", text |-> "none"]
NoCheckpoint == [kind |-> "none"]
Pending == [outcome |-> "pending", code |-> "none"]
HasHook == profile.mode = "planned"

(* _allowed_names and _future_allowed_names: without a plan every tool of  *)
(* the catalog, with one what the current step authorizes                  *)
AllowedNames ==
  IF profile.mode = "planned"
  THEN IF step <= Len(Plan) THEN {Plan[step]} ELSE {}
  ELSE {"a", "b"} \cup (IF profile.mode = "auto" THEN Controls ELSE {})

FutureNames ==
  IF profile.mode = "planned" THEN {Plan[i] : i \in (step + 1)..Len(Plan)}
  ELSE {}

(* The schemas a round offers (_prepare_projected_context) *)
VisibleTools(l) ==
  IF l.declined \/ l.repair \/ l.final THEN {}
  ELSE {t \in AllowedNames : /\ t = "request_plan" => l.open
                             /\ t = "request_remaining_plan" => ~l.open}

(* range(start, absolute_round_limit): evaluated once, when the loop starts *)
AbsoluteRounds == MaxRounds + MaxProgress + ProviderCapacity + 1

Remaining(l) == IF l.limit > l.index + 1 THEN l.limit - (l.index + 1) ELSE 0
AuthScope == <<"auth", step>>

(* What a recovery decision is told of the round *)
Situation(visible) ==
  [remaining |-> Remaining(loop), canceled |-> canceled, visible |-> visible]

(* _build_loop_state, for the Run's configuration *)
FreshLoop(p) ==
  [index |-> 0, limit |-> MaxRounds, declined |-> FALSE, repair |-> FALSE,
   attempt |-> NoAttempt, pending |-> FALSE, logical |-> 0, replan |-> FALSE,
   pendingCode |-> "none", failedCode |-> "none", progress |-> 0, epoch |-> 0,
   retries |-> {}, released |-> FALSE, open |-> TRUE, final |-> FALSE,
   required |-> p.require \/ p.force, forced |-> p.force, gate |-> "none"]

(* Mistake: a checkpoint that forgets the declined approval *)
CheckpointedAfresh(l) == [l EXCEPT !.attempt = NoAttempt, !.pending = FALSE,
                                   !.released = FALSE, !.gate = "none",
                                   !.declined = FALSE]

(* What of the state a checkpoint carries (_build_execution_checkpoint and  *)
(* _restore_checkpoint): everything but the attempt in flight.             *)
Checkpointed(l) == [l EXCEPT !.attempt = NoAttempt, !.pending = FALSE,
                             !.released = FALSE, !.gate = "none"]

ModelReady(l) == [kind |-> "model", round |-> l.index + 1,
                  loop |-> Checkpointed(l), ledger |-> ledger, calls |-> {},
                  refused |-> seen.refused, granted |-> seen.granted,
                  finals |-> seen.finals]

(* AgentToolExecutionCheckpoint: taken before the batch, so that its next   *)
(* round is the round of the call that is pending                          *)
ToolReady(l) == [ModelReady(l) EXCEPT !.kind = "tool", !.calls = ans.calls]

LoopInit ==
  /\ profile \in Profiles
  /\ loop = FreshLoop(profile) /\ ledger = EmptyLedger
  /\ at = "head" /\ ans = NoAnswer /\ step = 1 /\ ck = NoCheckpoint
  /\ canceled = FALSE /\ result = Pending /\ crashes = 0
  /\ seen = [shown |-> FALSE, granted |-> FALSE, dirty |-> FALSE,
             refused |-> FALSE, finals |-> 0]

-----------------------------------------------------------------------------
(* How a round ends *)

Yield(outcome, code) ==
  /\ at' = "done" /\ result' = [outcome |-> outcome, code |-> code]
  /\ UNCHANGED <<profile, ans, ck, canceled, crashes>>

Goto(where) == at' = where /\ UNCHANGED <<profile, result, ck, canceled, crashes>>

(* The end of a pass of the loop: retry_round, or a batch that was done *)
Again(l) == loop' = [l EXCEPT !.index = @ + 1] /\ ans' = NoAnswer /\ Goto("head")

Granted == seen' = [seen EXCEPT !.granted = TRUE]

(* _authorize_tool_batch and _classify_model_output on REPLAN *)
Replanning(l, code) == [l EXCEPT !.replan = TRUE, !.pendingCode = code,
                                 !.failedCode = code]

(* run(), the head of the loop: the round budget, then cancellation *)
RoundHead ==
  /\ at = "head"
  /\ UNCHANGED <<loop, ledger, step, seen>>
  /\ IF loop.index >= loop.limit \/ loop.index >= AbsoluteRounds
     THEN Yield("failed", "max_model_rounds")
     ELSE IF canceled THEN Yield("canceled", "request_canceled")
     ELSE /\ UNCHANGED ans
          /\ Goto(IF loop.gate = "ready" THEN "gate" ELSE "prepare")

-----------------------------------------------------------------------------
(* _prepare_provider_attempt *)

(* A frozen attempt of the same logical round goes first *)
PrepareRetry ==
  /\ at = "prepare" /\ loop.pending
  /\ loop' = [loop EXCEPT !.pending = FALSE]
  /\ Goto("stream")
  /\ UNCHANGED <<ledger, ans, step, seen>>

(* Mistake: the request for a plan is not cleared *)
ReplanAgain ==
  /\ at = "prepare" /\ ~loop.pending /\ loop.replan /\ HasHook
  /\ step' \in 1..(Len(Plan) + 1)
  /\ loop' = [loop EXCEPT !.pendingCode = "none"]
  /\ Goto("prepare")
  /\ UNCHANGED <<ans, ledger, seen>>

(* The hook's dynamic plan: it moves the step, fails or is canceled *)
Replan ==
  /\ at = "prepare" /\ ~loop.pending /\ loop.replan /\ HasHook
  /\ \/ /\ step' \in 1..(Len(Plan) + 1)
        /\ loop' = [loop EXCEPT !.replan = FALSE, !.pendingCode = "none"]
        /\ Goto("prepare") /\ UNCHANGED ans
     \/ /\ Yield("failed", IF loop.pendingCode = "none"
                           THEN "dynamic_planning_failed" ELSE loop.pendingCode)
        /\ UNCHANGED <<loop, step>>
     \/ /\ canceled /\ Yield("canceled", "request_canceled")
        /\ UNCHANGED <<loop, step>>
  /\ UNCHANGED <<ledger, seen>>

(* _prepare_projected_context: the tools this round offers, whether one is *)
(* required, whether the text is buffered; or the context does not fit     *)
Prepare ==
  LET visible == VisibleTools(loop)
      require == loop.required /\ visible # {}
  IN
  /\ at = "prepare" /\ ~loop.pending /\ ~(loop.replan /\ HasHook)
  /\ \/ /\ Yield("failed", "context_overflow")
        /\ UNCHANGED loop
     \/ /\ loop' = [loop EXCEPT
             !.logical = @ + 1,
             !.attempt =
               [tools   |-> visible,
                choice  |-> IF loop.forced /\ visible # {} THEN "required"
                            ELSE IF visible # {} THEN "auto" ELSE "none",
                allowed |-> AllowedNames, future |-> FutureNames,
                require |-> require,
                buffer  |-> \/ require \/ loop.declined
                            \/ loop.failedCode # "none" \/ profile.validated,
                n |-> 1]]
        /\ Goto("stream") /\ UNCHANGED ans
  /\ UNCHANGED <<ledger, step, seen>>

-----------------------------------------------------------------------------
(* _execute_provider_stream *)

(* Text of a round without tools that needs no check goes out as it comes *)
Releases(a) == ~a.require /\ ~a.buffer /\ a.tools = {}

(* A failed attempt; text is some text may have been streamed before it *)
ProviderFails(err, text) ==
  LET shown == text /\ Releases(loop.attempt)
      res   == ResolveProviderFailure(ledger, err, loop.attempt.choice,
                                      Situation(shown))
      off   == err = "unsupported" /\ loop.attempt.choice = "required"
               /\ ~canceled
      l     == [loop EXCEPT !.forced = @ /\ ~off]
  IN
  /\ at = "stream"
  /\ (err = "canceled") => canceled
  /\ ledger' = res.ledger
  /\ IF res.disposition \in {"retry", "fallback"}
     THEN /\ Again([l EXCEPT
               !.limit = @ + 1, !.pending = TRUE, !.attempt.n = @ + 1,
               !.attempt.choice = IF res.disposition = "fallback" THEN "auto"
                                  ELSE @])
          /\ seen' = [seen EXCEPT !.granted = TRUE, !.shown = shown]
     ELSE /\ loop' = l
          /\ seen' = [seen EXCEPT !.shown = shown]
          /\ Yield(IF res.disposition = "cancel" THEN "canceled" ELSE "failed",
                   res.code)
  /\ UNCHANGED step

(* The answers of a provider: it may call what it was not offered, in a     *)
(* round that offers no tool too                                            *)
CallSets == {{}, {"a", "b"}} \cup {{t} : t \in {"a", "b", "x"} \cup Controls}

(* ModelRoundAccumulator: the settled answer of a stream that finished *)
Answers ==
  [calls : CallSets, fault : {"none"}, text : {"none", "prose", "markup"}]
  \cup [calls : {{}}, fault : {"malformed", "truncated"}, text : {"none", "prose"}]

StreamEnds(a) ==
  LET shown == a.text # "none" /\ Releases(loop.attempt) IN
  /\ at = "stream"
  /\ a \in Answers
  /\ ans' = a
  /\ loop' = [loop EXCEPT !.released = shown]
  /\ seen' = [seen EXCEPT !.shown = shown, !.granted = FALSE]
  /\ Goto("classify")
  /\ UNCHANGED <<ledger, step>>

-----------------------------------------------------------------------------
(* _classify_model_output: an incomplete answer fails, one outside the tool *)
(* protocol is recovered, one without calls is a final answer               *)
Classify ==
  LET res == ResolveToolProtocol(ledger, ans.calls, ans.fault = "malformed",
               loop.attempt.require, HasHook, loop.declined, loop.repair,
               Situation(loop.released))
  IN
  /\ at = "classify" /\ UNCHANGED step
  /\ IF ans.fault = "truncated"
     THEN Yield("failed", "model_output_truncated") /\ UNCHANGED <<loop, ledger, seen>>
     ELSE /\ ledger' = res.ledger
          /\ \/ /\ res.disposition = "retry" /\ Again(loop) /\ Granted
             \/ /\ res.disposition = "replan" /\ Granted
                /\ Again(Replanning(loop, res.code))
             \/ /\ res.disposition = "reject" /\ Yield("failed", res.code)
                /\ UNCHANGED <<loop, seen>>
             \/ /\ res.disposition = "pass"
                /\ Goto(IF ans.calls = {} THEN "finalize" ELSE "activate")
                /\ UNCHANGED <<loop, ans, seen>>

(* The host's validators and judges on a complete answer *)
Verdicts == IF profile.validated THEN {"ok", "rule", "judge", "error"} ELSE {"ok"}

(* _finalize_model_response: recover an invalid answer, run the host's     *)
(* checks unless the user declined, or complete with this very text        *)
Finalize(verdict) ==
  LET res == ResolveResponseRecovery(ledger, ans.text, loop.declined,
               loop.failedCode, Situation(loop.released))
      fix == ResolveConstraintRecovery(ledger, verdict, Situation(loop.released))
      checked == res.disposition = "pass" /\ ~loop.declined
  IN
  /\ at = "finalize" /\ verdict \in Verdicts /\ UNCHANGED step
  /\ \/ /\ res.disposition = "retry" /\ ledger' = res.ledger
        /\ Again(loop) /\ Granted
     \/ /\ res.disposition = "reject" /\ Yield("failed", res.code)
        /\ UNCHANGED <<loop, ledger, seen>>
     \/ /\ checked /\ verdict = "error" /\ Yield("failed", "response_validator_error")
        /\ UNCHANGED <<loop, ledger, seen>>
     \/ /\ checked /\ verdict \in {"rule", "judge"} /\ ledger' = fix.ledger
        /\ \/ /\ fix.disposition = "retry" /\ Granted
              /\ Again([loop EXCEPT !.repair = TRUE])
           \/ /\ fix.disposition = "reject" /\ Yield("failed", fix.code)
              /\ UNCHANGED <<loop, seen>>
     \/ /\ res.disposition = "pass" /\ (loop.declined \/ verdict = "ok")
        /\ Yield("completed", IF checked THEN verdict ELSE "declined")
        /\ UNCHANGED <<loop, ledger, seen>>

-----------------------------------------------------------------------------
(* planning_activation.py, resolve_planning_activation: "none" lets the    *)
(* batch pass, "plan" pauses the loop for a planner, others are errors     *)
PlanningActivation(calls, open) ==
  LET control == calls \cap Controls
      required == calls \cap PlanningRequired
  IN  IF profile.mode = "planned"
      THEN IF control # {} THEN "invalid_planning_control_call" ELSE "none"
      ELSE IF control = {} /\ required = {} THEN "none"
      ELSE IF profile.mode = "reactive" THEN "planning_required"
      ELSE IF \/ control # {} /\ calls # control
              \/ "request_plan" \in control /\ ~open
              \/ "request_remaining_plan" \in control /\ open
      THEN "invalid_planning_control_call"
      ELSE "plan"

(* _resolve_planning_activation: run() returns for the planner to be run;   *)
(* the promotion that follows is another loop's                             *)
Activate ==
  LET what == PlanningActivation(ans.calls, loop.open) IN
  /\ at = "activate" /\ UNCHANGED <<loop, ledger, step, seen>>
  /\ CASE what = "none" -> Goto("authorize") /\ UNCHANGED ans
       [] what = "plan" -> Yield("planning", "none")
       [] OTHER -> Yield("failed", what)

(* _authorize_tool_batch: a batch that uses the last round gets one more   *)
(* round, without tools, to answer in; a batch in that round, which is     *)
(* authorized like any other, gets another one                             *)
Authorize ==
  LET res == ResolveToolAuthorization(ledger, ans.calls, loop.attempt.allowed,
               loop.attempt.future, AuthScope, loop.attempt.require, HasHook,
               Situation(loop.released))
      last == profile.enforce /\ loop.index >= loop.limit - 1
  IN
  /\ at = "authorize" /\ UNCHANGED step
  /\ ledger' = res.ledger
  /\ \/ /\ res.disposition = "retry" /\ Again(loop) /\ Granted
     \/ /\ res.disposition = "replan" /\ Granted
        /\ Again(Replanning(loop, res.code))
     \/ /\ res.disposition = "reject" /\ Yield("failed", res.code)
        /\ UNCHANGED <<loop, seen>>
     \/ /\ res.disposition = "execute"
        /\ IF last THEN /\ loop' = [loop EXCEPT !.limit = @ + 1, !.final = TRUE]
                        /\ seen' = [seen EXCEPT !.finals = @ + 1]
                   ELSE UNCHANGED <<loop, seen>>
        /\ Goto(IF ans.calls \cap profile.gated # {} THEN "gate" ELSE "execute")
        /\ UNCHANGED ans

(* The tool gate of run(): the host commits a tool-ready checkpoint, then   *)
(* lets the call through or suspends the Run.  A batch of several calls, or *)
(* a round after which none is left, cannot be committed and the Run fails. *)
Gate ==
  /\ at = "gate" /\ loop.gate = "none" /\ UNCHANGED <<ledger, step, seen>>
  /\ IF Cardinality(ans.calls) # 1
     THEN Yield("failed", "approval_batch_unsupported") /\ UNCHANGED loop
     ELSE IF loop.index + 1 >= loop.limit
     THEN Yield("failed", "approval_checkpoint_unavailable") /\ UNCHANGED loop
     ELSE /\ ck' = ToolReady(loop) /\ UNCHANGED <<profile, result, canceled, crashes>>
          /\ \/ at' = "execute" /\ loop' = [loop EXCEPT !.gate = "ready"]
                /\ UNCHANGED ans
             \/ at' = "down" /\ UNCHANGED <<loop, ans>>

(* The same call of a resumed Run: the gate revalidates the pending call.   *)
GateAgain ==
  /\ at = "gate" /\ loop.gate = "ready"
  /\ UNCHANGED <<loop, ledger, step, seen>>
  /\ \/ Goto("execute") /\ UNCHANGED ans
     \/ Yield("failed", "approval_gate_unavailable")

-----------------------------------------------------------------------------
(* What the tool gateway reports of a batch *)
BatchResults ==
  [outcome : {"progressed", "completed"}, cureable : {FALSE},
   effect : {"not_started", "committed"}, replan : BOOLEAN]
  \cup [outcome : {"failed"}, cureable : BOOLEAN,
        effect : {"not_started", "committed", "unknown"}, replan : {FALSE}]
  \cup [outcome : {"declined", "rejected", "canceled", "mismatch", "raised"},
        cureable : {FALSE}, effect : {"not_started"}, replan : {FALSE}]

(* extend_progress_round_budget *)
ExtendedByProgress(l, outcome) ==
  IF outcome = "progressed" /\ l.progress < MaxProgress
  THEN [l EXCEPT !.progress = @ + 1, !.limit = @ + 1] ELSE l

(* on_tool_round_completed: a completed batch satisfies the plan's step; a  *)
(* Run without a plan has met its required call                             *)
StepAfter(outcome) ==
  IF HasHook /\ outcome = "completed" /\ step <= Len(Plan) THEN step + 1 ELSE step

AfterBatch(l, outcome) ==
  IF HasHook THEN l ELSE [l EXCEPT !.required = FALSE]

(* _execute_tool_batch and the bookkeeping of run() after it *)
Execute(batch) ==
  LET calls == ans.calls
      l   == AfterBatch([ExtendedByProgress(loop, batch.outcome) EXCEPT
                           !.retries = {}], batch.outcome)
      res == ResolveToolRecovery(ledger, batch, HasHook, l.epoch, l.index + 1,
               [remaining |-> Remaining(l), canceled |-> canceled,
                visible |-> FALSE])
      e   == [l EXCEPT !.epoch = IF batch.outcome = "failed" THEN @ ELSE @ + 1,
                       !.gate = "none",
                       !.open = @ /\ profile.mode # "auto"]
  IN
  /\ at = "execute" /\ batch \in BatchResults
  /\ (batch.outcome = "canceled") => canceled
  /\ IF batch.outcome \in {"canceled", "rejected", "mismatch", "raised"}
     THEN /\ Yield(IF batch.outcome = "canceled" THEN "canceled" ELSE "failed",
                   batch.outcome)
          /\ UNCHANGED <<loop, ledger, step, seen>>
     ELSE /\ step' = StepAfter(batch.outcome)
          /\ ledger' = res.ledger
          /\ seen' = [seen EXCEPT
               !.shown = FALSE,
               !.granted = batch.outcome = "failed" /\ res.disposition # "reject",
               !.dirty = @ \/ (batch.outcome = "failed"
                               /\ batch.effect # "not_started"),
               !.refused = @ \/ batch.outcome = "declined"]
          /\ IF res.disposition = "reject"
             THEN Yield("failed", res.code) /\ UNCHANGED loop
             ELSE /\ loop' = LET f == [e EXCEPT !.index = @ + 1,
                                         !.declined = @ \/ batch.outcome = "declined"]
                             IN  CASE res.disposition = "retry" ->
                                        [f EXCEPT !.retries = calls]
                                   [] res.disposition = "replan" ->
                                        Replanning(f, res.code)
                                   [] OTHER -> f
                  /\ ans' = NoAnswer
                  /\ Goto("checkpoint")

(* run() after the batch: the checkpoint before the next model round; the   *)
(* host's callback returns it with the same consumed attempts               *)
WriteCheckpoint ==
  /\ at = "checkpoint"
  /\ ck' = IF profile.durable THEN ModelReady(loop) ELSE ck
  /\ at' = "head"
  /\ UNCHANGED <<profile, loop, ledger, ans, step, canceled, result, crashes, seen>>

-----------------------------------------------------------------------------
(* The Run's signal, and its process *)

Cancel ==
  /\ ~canceled /\ at \notin {"done", "down"}
  /\ canceled' = TRUE
  /\ UNCHANGED <<profile, loop, ledger, at, ans, step, ck, result, crashes, seen>>

Crash ==
  /\ crashes < MaxCrashes /\ at \notin {"done", "down"}
  /\ crashes' = crashes + 1 /\ at' = "down"
  /\ UNCHANGED <<profile, loop, ledger, ans, step, ck, canceled, result, seen>>

(* run() with resume_checkpoint: the checkpoint's state, in its round.  A   *)
(* tool-ready one goes straight to its call.                                *)
Resume ==
  /\ at = "down" /\ ck.kind # "none"
  /\ loop' = [ck.loop EXCEPT !.index = ck.round - 1,
                             !.gate = IF ck.kind = "tool" THEN "ready" ELSE "none"]
  /\ ledger' = ck.ledger
  /\ ans' = [NoAnswer EXCEPT !.calls = ck.calls]
  /\ seen' = [shown |-> FALSE, granted |-> ck.granted, dirty |-> FALSE,
              refused |-> ck.refused, finals |-> ck.finals]
  /\ at' = "head"
  /\ UNCHANGED <<profile, step, ck, canceled, result, crashes>>

LoopStep ==
  \/ RoundHead \/ PrepareRetry \/ Replan \/ Prepare
  \/ \E err \in {"canceled", "unsupported", "interrupted", "other"},
        text \in BOOLEAN : ProviderFails(err, text)
  \/ \E a \in Answers : StreamEnds(a)
  \/ Classify \/ \E v \in Verdicts : Finalize(v)
  \/ Activate \/ Authorize \/ Gate \/ GateAgain
  \/ \E b \in BatchResults : Execute(b)
  \/ WriteCheckpoint

LoopNext == LoopStep \/ Cancel \/ Crash \/ Resume

(* run() is awaited to its end, and a Run that went down with a checkpoint  *)
(* is picked up again: a step that can be taken is taken.                   *)
LoopSpec == /\ LoopInit /\ [][LoopNext]_loopVars
            /\ WF_loopVars(LoopStep) /\ WF_loopVars(Resume)

-----------------------------------------------------------------------------
(* Properties *)

ToolNames == {"a", "b", "x"} \cup Controls
RuntimeLoopState ==
  [index : 0..AbsoluteRounds, limit : Nat \ {0}, declined : BOOLEAN, repair : BOOLEAN,
   attempt : [tools : SUBSET ToolNames, choice : {"none", "auto", "required"},
              allowed : SUBSET ToolNames, future : SUBSET ToolNames, require : BOOLEAN,
              buffer : BOOLEAN, n : Nat],
   pending : BOOLEAN, logical : Nat, replan : BOOLEAN, pendingCode : RecoveryCodes,
   failedCode : RecoveryCodes, progress : 0..MaxProgress, epoch : Nat, retries : SUBSET ToolNames,
   released : BOOLEAN, open : BOOLEAN, final : BOOLEAN, required : BOOLEAN,
   forced : BOOLEAN, gate : {"none", "ready"}]

(* A checkpoint holds the state of a loop, the ledger and the calls of a   *)
(* batch that is about to run.                                             *)
IsAgentExecutionCheckpoint(c) ==
  /\ c.kind \in {"model", "tool"} /\ c.round \in 1..(AbsoluteRounds + 1)
  /\ c.loop \in RuntimeLoopState /\ c.loop = Checkpointed(c.loop)
  /\ c.calls \subseteq ToolNames /\ (c.calls # {} <=> c.kind = "tool")
  /\ c.refused \in BOOLEAN /\ c.granted \in BOOLEAN /\ c.finals \in Nat

(* The loop's state is well formed and its place is one of run()'s. *)
LoopTypeOK ==
  /\ profile \in Profiles
  /\ at \in {"head", "prepare", "stream", "classify", "finalize", "activate",
             "authorize", "gate", "execute", "checkpoint", "done", "down"}
  /\ loop \in RuntimeLoopState
  /\ ck = NoCheckpoint \/ IsAgentExecutionCheckpoint(ck)
  /\ ledger \in [DOMAIN ledger -> Nat]
  /\ ans \in [calls : SUBSET ToolNames, fault : {"none", "malformed", "truncated"},
              text : {"none", "prose", "markup"}]
  /\ seen \in [shown : BOOLEAN, granted : BOOLEAN, dirty : BOOLEAN, refused : BOOLEAN,
               finals : Nat]
  /\ canceled \in BOOLEAN
  /\ step \in 1..(Len(Plan) + 1)
  /\ loop.replan => HasHook
  /\ result.outcome \in {"pending", "completed", "failed", "canceled", "planning"}
  /\ (at = "done") = (result # Pending)

(* run()'s range is fixed when the loop starts while round_limit grows: by  *)
(* a progress extension, a provider retry and every round that is added for *)
(* an answer without tools.  The limit is no more than what was granted,    *)
(* and survives a resumption with the counters of what was granted.         *)
Accounted(l, led, finals) ==
  l.limit <= MaxRounds + l.progress
             + Used(led, "required_unsupported", RunScope)
             + Used(led, "stream_interrupted", RunScope) + finals

LimitAccounted == Accounted(loop, ledger, seen.finals)

(* The range has room for one round that was added for an answer.  A model  *)
(* that calls tools in it anyway is granted more than the range has room    *)
(* for.                                                                     *)
OutOfRange == seen.finals > 1 /\ loop.index = AbsoluteRounds

(* A recovery that was granted and consumed is carried out: the Run does   *)
(* not end for lack of rounds before the retried attempt was made, whether *)
(* the process was replaced in between or not, unless tools called in      *)
(* rounds that offered none have taken it to the end of the range.         *)
GrantedRetryRuns ==
  (result.code = "max_model_rounds") => ~seen.granted \/ OutOfRange

(* Once text of a round was shown to the user no other attempt replaces it: *)
(* after it only a tool batch may lead to another provider call.            *)
ShownTextStands == at' = "stream" => ~seen.shown

(* After a batch failed with an effect that was or may have been committed, *)
(* this process calls neither the model nor a tool again.                   *)
UncertainEffectEndsRun ==
  seen.dirty /\ at # "down" => at' \notin {"stream", "execute"}

(* After the user declined an approval no further batch is executed, by    *)
(* this process or by the one that resumes from its checkpoint.             *)
DeclineStopsTools == seen.refused /\ at # "down" => at' # "execute"

(* A Run that completes with checks configured completes with a text that   *)
(* passed them and is not empty, unless the user declined its tools.        *)
CompletedChecked ==
  result.outcome = "completed" /\ ~loop.declined =>
    result.code = "ok" /\ ans.text # "none" /\ ans.calls = {}
    /\ (ans.text = "markup" => loop.failedCode = "none")

(* LedgerFits: no cause was granted more often in a Run than the policy     *)
(* allows, by the ledger of the loop and by the one a checkpoint restores.  *)
WithinLimits(led) == \A c \in Causes : Used(led, c, RunScope) <= Limits[c]
LedgerFits == WithinLimits(ledger) /\ (ck # NoCheckpoint => WithinLimits(ck.ledger))

(* The round has a call in hand: after its answer was classified, or after  *)
(* a resumption that goes straight to the call.                             *)
ToResumedCall == at = "head" /\ loop.gate = "ready"
HasCalls == at \in {"activate", "authorize", "gate", "execute"} \/ ToResumedCall

(* RoundsInPhase: a round that has begun is within the limit; so is the     *)
(* next one, when a recovery was granted for it or the limit is enforced,   *)
(* because a batch in the last round gets one more round to answer in.      *)
(* A Run with an enforced limit therefore never ends for lack of rounds,    *)
(* short of the end of the range.                                           *)
RoundsInPhase ==
  /\ loop.index <= loop.limit /\ loop.index <= AbsoluteRounds
  /\ at \notin {"head", "checkpoint", "done", "down"} =>
       loop.index < loop.limit /\ loop.index < AbsoluteRounds
  /\ (at \in {"gate", "execute"} /\ profile.enforce) \/ ToResumedCall =>
       loop.index + 1 < loop.limit
  /\ at \in {"head", "checkpoint"} /\ (seen.granted \/ profile.enforce) =>
       loop.index < loop.limit
  /\ (loop.final <=> seen.finals > 0) /\ (loop.final => profile.enforce)
  /\ profile.enforce => result.code # "max_model_rounds" \/ OutOfRange

(* AttemptInPhase: what is pending was frozen for a retry, a round that is  *)
(* to answer offers no tools, and the calls in hand are the answer's.       *)
AttemptInPhase ==
  /\ at \notin {"head", "prepare", "done", "down"} \/ ToResumedCall => ~loop.pending
  /\ at \notin {"head", "gate", "execute", "done", "down"} => loop.gate = "none"
  /\ loop.final /\ (at \in {"stream", "classify", "activate", "authorize"} \/ loop.pending) =>
       loop.attempt.tools = {}
  /\ loop.attempt.allowed \subseteq {"a", "b"} \cup Controls
  /\ loop.attempt.choice = "required" => loop.attempt.tools # {}
  /\ at \in {"classify", "finalize", "activate", "authorize"} =>
       ans \in Answers
  /\ HasCalls => ans.calls # {}
  /\ at = "finalize" => ans.calls = {}

(* HistoryInPhase: what the user saw, declined, or may have suffered bars   *)
(* the way to another attempt, to another batch, or to any further step.    *)
HistoryInPhase ==
  /\ at \in {"head", "prepare", "stream", "checkpoint"} => ~seen.shown
  /\ at \in {"classify", "finalize", "activate", "authorize"} => seen.shown = loop.released
  /\ seen.refused => loop.declined
  /\ HasCalls => ~loop.declined
  /\ seen.dirty => at = "done"

(* CheckpointSound: a process that takes the checkpoint up finds a state in *)
(* which all of the above holds.                                            *)
CheckpointSound ==
  ck # NoCheckpoint =>
    /\ Accounted(ck.loop, ck.ledger, ck.finals) /\ ck.ledger \in [DOMAIN ck.ledger -> Nat]
    /\ ck.round = ck.loop.index + 1 /\ ck.loop.index <= ck.loop.limit
    /\ ck.granted \/ profile.enforce => ck.loop.index < ck.loop.limit
    /\ ck.kind = "tool" => ck.loop.index + 1 < ck.loop.limit /\ ~ck.loop.declined
    /\ (ck.loop.final <=> ck.finals > 0) /\ (ck.loop.final => profile.enforce)
    /\ ck.loop.replan => HasHook
    /\ ck.refused => ck.loop.declined

(* LoopSteps: what no step of a Run may do: replace a text that was shown, *)
(* act again after an uncertain effect, or execute a tool after a declined *)
(* approval, whichever process takes the step.                             *)
LoopSteps == [][ShownTextStands /\ UncertainEffectEndsRun /\ DeclineStopsTools]_loopVars

(* Every Run ends, or lies down without a checkpoint to be resumed from.    *)
RunEnds == <>[](at = "done" \/ (at = "down" /\ ck.kind = "none"))

(* LoopInv: the rounds, the limits and the retries of a Run are accounted   *)
(* for, a retry that was granted runs, and what completes was checked.      *)
LoopInv ==
  /\ LoopTypeOK /\ LimitAccounted /\ GrantedRetryRuns /\ CompletedChecked
  /\ LedgerFits /\ RoundsInPhase /\ AttemptInPhase /\ HistoryInPhase /\ CheckpointSound
=============================================================================
