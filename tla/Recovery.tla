------------------------------ MODULE Recovery ------------------------------
(***************************************************************************)
(* The recovery decisions of one Run (recovery/ledger.py and policy.py)    *)
(* and the resolvers of runtime/ that ask for them: what happens after a   *)
(* provider attempt failed, a model answered outside the tool protocol, a  *)
(* tool batch was not authorized, a batch failed, or a final answer is     *)
(* invalid.  Everything is a pure function of a ledger and a question; a   *)
(* ledger is a function from the (cause, scope) pairs that were ever       *)
(* granted to the number of grants.  Messages, traces and error texts are  *)
(* left out; an error code is kept where a later decision reads it.        *)
(***************************************************************************)
EXTENDS Naturals

CONSTANT Limits              \* RecoveryPolicy.attempt_limits

Causes == {"required_unsupported", "stream_interrupted", "malformed",
           "missing_call", "missing_call_replan", "unstructured", "empty",
           "constraint_rule", "constraint_judge", "future_step",
           "unauthorized", "unauthorized_replan", "tool_input",
           "tool_failed_replan"}

ASSUME LimitsAssumption == Limits \in [Causes -> Nat]

EmptyLedger == [k \in {} |-> 0]
RunScope == <<"run", 0>>

(* RecoveryLedger.attempts *)
Used(led, cause, scope) ==
  LET k == <<cause, scope>> IN IF k \in DOMAIN led THEN led[k] ELSE 0

(* A RecoveryRequest with the defaults of the dataclass; the resolvers     *)
(* override what they set.                                                 *)
Request(cause, sit) ==
  [cause |-> cause, scope |-> RunScope, remaining |-> sit.remaining,
   minimum |-> 1, retryable |-> TRUE, canceled |-> sit.canceled,
   visible |-> sit.visible, effect |-> "not_started", mayRepeat |-> FALSE]

(* Mistake: a grant without a round to use it in *)
DenialWithoutRounds(req, used) ==
  CASE req.canceled -> "request_canceled"
    [] ~req.canceled /\ ~req.retryable -> "cause_not_retryable"
    [] ~req.canceled /\ req.retryable /\ req.visible -> "visible_output"
    [] ~req.canceled /\ req.retryable /\ ~req.visible ->
         IF req.mayRepeat /\ req.effect # "not_started" THEN "side_effect"
         ELSE IF used >= Limits[req.cause] THEN "attempts_exhausted"
         ELSE "allowed"

(* RecoveryLedger._denial_reason, in the order of its tests *)
DenialReason(req, used) ==
  CASE req.canceled -> "request_canceled"
    [] ~req.canceled /\ ~req.retryable -> "cause_not_retryable"
    [] ~req.canceled /\ req.retryable /\ req.visible -> "visible_output"
    [] ~req.canceled /\ req.retryable /\ ~req.visible ->
         IF req.mayRepeat /\ req.effect # "not_started" THEN "side_effect"
         ELSE IF req.remaining < req.minimum THEN "rounds_exhausted"
         ELSE IF Limits[req.cause] = 0 THEN "policy_disabled"
         ELSE IF used >= Limits[req.cause] THEN "attempts_exhausted"
         ELSE "allowed"

(* RecoveryLedger.decide: a grant is consumed as it is given *)
Decide(led, req) ==
  LET used == Used(led, req.cause, req.scope)
      why  == DenialReason(req, used)
      key  == <<req.cause, req.scope>>
  IN  [allowed |-> why = "allowed", reason |-> why,
       ledger |-> IF why = "allowed"
                  THEN [k \in DOMAIN led \cup {key} |->
                          IF k = key THEN used + 1 ELSE led[k]]
                  ELSE led]

(* What a resolver returns: the disposition, the ledger after its          *)
(* decisions and the error code that a replan or a rejection carries.      *)
Resolution(disposition, led, code) ==
  [disposition |-> disposition, ledger |-> led, code |-> code]

(* The error codes of a resolution; a provider failure keeps its own *)
RecoveryCodes ==
  {"none", "request_canceled", "canceled", "unsupported", "interrupted", "other",
   "malformed_batch", "missing_required_tool_call", "tool_call_after_approval_rejection",
   "tool_call_during_response_repair", "tool_step_out_of_order", "tool_not_authorized",
   "tool_failed", "unstructured_tool_call", "empty_model_response",
   "response_constraint_violation"}

(* RETRY_MODEL when the ledger grants it, REJECT with the code otherwise *)
RetryOrReject(d, code) ==
  Resolution(IF d.allowed THEN "retry" ELSE "reject", d.ledger,
             IF d.allowed THEN "none" ELSE code)

-----------------------------------------------------------------------------
(* runtime/model_round.py *)

(* provider_retry_round_capacity *)
ProviderCapacity == Limits["required_unsupported"] + Limits["stream_interrupted"]

(* resolve_provider_failure: a canceled run wins over every error; only an *)
(* unsupported REQUIRED tool choice may fall back, only a retryable        *)
(* interruption without visible text may be retried.                       *)
ResolveProviderFailure(led, err, choice, sit) ==
  IF err = "canceled" \/ sit.canceled
  THEN Resolution("cancel", led, "request_canceled")
  ELSE IF err = "unsupported"
  THEN IF choice # "required" THEN Resolution("reject", led, err)
       ELSE LET d == Decide(led, [Request("required_unsupported", sit)
                                    EXCEPT !.visible = FALSE])
            IN  Resolution(IF d.allowed THEN "fallback" ELSE "reject",
                           d.ledger, err)
  ELSE IF err = "interrupted"
  THEN RetryOrReject(Decide(led, Request("stream_interrupted", sit)), err)
  ELSE Resolution("reject", led, err)

-----------------------------------------------------------------------------
(* runtime/tool_authorization.py *)

(* _resolve_missing_required_call: retry, else replan, else reject *)
ResolveMissingCall(led, planning, sit) ==
  LET retry  == Decide(led, [Request("missing_call", sit) EXCEPT !.minimum = 2])
      replan == Decide(retry.ledger, Request("missing_call_replan", sit))
  IN  IF retry.allowed THEN Resolution("retry", retry.ledger, "none")
      ELSE IF planning /\ replan.allowed
      THEN Resolution("replan", replan.ledger, "missing_required_tool_call")
      ELSE Resolution("reject", retry.ledger, "missing_required_tool_call")

(* resolve_tool_protocol: "pass" stands for None.  A stop or tool_calls    *)
(* finish with calls always authorizes them (classify_model_termination),  *)
(* so the branch for calls without that finish never applies here.         *)
ResolveToolProtocol(led, calls, malformed, require, planning, declined, repair, sit) ==
  IF malformed
  THEN RetryOrReject(Decide(led, Request("malformed", sit)), "malformed_batch")
  ELSE IF require /\ calls = {} THEN ResolveMissingCall(led, planning, sit)
  ELSE IF calls # {} /\ declined
  THEN Resolution("reject", led, "tool_call_after_approval_rejection")
  ELSE IF calls # {} /\ repair
  THEN Resolution("reject", led, "tool_call_during_response_repair")
  ELSE Resolution("pass", led, "none")

(* _resolve_future_batch: never replanned *)
ResolveFutureBatch(led, allowed, scope, sit) ==
  RetryOrReject(Decide(led, [Request("future_step", sit) EXCEPT
                               !.scope = scope, !.minimum = 2,
                               !.retryable = allowed # {}]),
                "tool_step_out_of_order")

(* _resolve_unauthorized_batch: a replan only after the retry was used up *)
ResolveUnauthorizedBatch(led, allowed, scope, require, planning, sit) ==
  LET ask(cause) == [Request(cause, sit) EXCEPT !.scope = scope, !.minimum = 2,
                       !.retryable = require /\ allowed # {}]
      retry  == Decide(led, ask("unauthorized"))
      replan == Decide(retry.ledger, ask("unauthorized_replan"))
  IN  IF retry.allowed THEN Resolution("retry", retry.ledger, "none")
      ELSE IF planning /\ retry.reason = "attempts_exhausted" /\ replan.allowed
      THEN Resolution("replan", replan.ledger, "tool_not_authorized")
      ELSE Resolution("reject", retry.ledger, "tool_not_authorized")

(* resolve_tool_authorization, with the scope tests of tools/scoping.py *)
ResolveToolAuthorization(led, calls, allowed, future, scope, require, planning, sit) ==
  IF calls \subseteq allowed THEN Resolution("execute", led, "none")
  ELSE IF calls \cap future # {} /\ calls \subseteq allowed \cup future
  THEN ResolveFutureBatch(led, allowed, scope, sit)
  ELSE ResolveUnauthorizedBatch(led, allowed, scope, require, planning, sit)

-----------------------------------------------------------------------------
(* runtime/tool_recovery.py.  A batch result: its outcome, whether its     *)
(* error is one a corrected call can cure, the state of its effect, and    *)
(* whether a tool asked for a new plan.                                    *)

(* resolve_tool_recovery *)
ResolveToolRecovery(led, batch, planning, epoch, round, sit) ==
  LET ask(cause, scope) == [Request(cause, sit) EXCEPT
                              !.scope = scope, !.visible = FALSE,
                              !.effect = batch.effect, !.mayRepeat = TRUE]
      input  == Decide(led, ask("tool_input", <<"epoch", epoch>>))
      after  == IF batch.cureable THEN input.ledger ELSE led
      replan == Decide(after, ask("tool_failed_replan", <<"round", round>>))
  IN  IF batch.outcome = "failed"
      THEN IF batch.cureable /\ input.allowed
           THEN Resolution("retry", input.ledger, "none")
           ELSE IF planning
           THEN Resolution(IF replan.allowed THEN "replan" ELSE "reject",
                           replan.ledger, "tool_failed")
           ELSE Resolution("reject", after, "tool_failed")
      ELSE IF planning /\ batch.replan
              /\ batch.outcome \in {"progressed", "completed"}
      THEN Resolution("replan", led, "none")
      ELSE Resolution("continue", led, "none")

-----------------------------------------------------------------------------
(* runtime/response_finalization.py.  The text of an answer is "none",     *)
(* "prose" or "markup" (inert text that imitates a tool call).             *)

(* resolve_response_recovery *)
ResolveResponseRecovery(led, text, declined, failedCode, sit) ==
  IF text = "markup" /\ (declined \/ failedCode # "none")
  THEN RetryOrReject(Decide(led, Request("unstructured", sit)),
                     "unstructured_tool_call")
  ELSE IF declined \/ text # "none" THEN Resolution("pass", led, "none")
  ELSE RetryOrReject(Decide(led, Request("empty", sit)), "empty_model_response")

(* resolve_response_constraint_recovery: each phase of the repair once, and *)
(* none once both phases were used                                         *)
ResolveConstraintRecovery(led, verdict, sit) ==
  LET phases == {c \in {"constraint_rule", "constraint_judge"} :
                   Used(led, c, RunScope) > 0}
      cause  == IF verdict = "judge" THEN "constraint_judge"
                ELSE "constraint_rule"
  IN  RetryOrReject(
        Decide(led, [Request(cause, sit) EXCEPT
                       !.retryable = phases # {"constraint_rule",
                                               "constraint_judge"}]),
        "response_constraint_violation")
=============================================================================
