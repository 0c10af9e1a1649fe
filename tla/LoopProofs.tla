------------------------------ MODULE LoopProofs ------------------------------
(***************************************************************************)
(* Proofs about RuntimeLoop and the recovery ledger it asks.  LoopInv is   *)
(* inductive: next to the promises of the loop (nothing is granted beyond  *)
(* the policy, a grant has a round to run in, no step sees a text, a tool  *)
(* result or an effect twice) it says at each place of the loop what that  *)
(* place relies on: which grants the rounds and the attempts account for,  *)
(* what the answer at hand may hold, and that a checkpoint holds a loop    *)
(* the resumed process can go on with.  The lemmas go from the ledger over *)
(* the resolutions of a failed attempt to one lemma per step of the loop.  *)
(*                                                                         *)
(* The second half is about the private model tasks of ModelTasks: TaskInv *)
(* is inductive, once the stages of an attempt say what the stores hold of *)
(* it, what is known of the usage and how far the parser of a plan is.     *)
(***************************************************************************)
EXTENDS RuntimeLoop, ModelTasks, FiniteSetTheorems, TLAPS

-----------------------------------------------------------------------------
(* The ledger.                                                             *)

\* A ledger counts, for each scope it knows, the grants made in it.
IsLedger(led) == led \in [DOMAIN led -> Nat]

\* No grant is taken back.
Grows(old, new) == \A c \in Causes : Used(old, c, RunScope) <= Used(new, c, RunScope)

\* What a step of the Run relies on: the ledger stays one, within the limits.
Kept(old, new) == IsLedger(new) /\ WithinLimits(new) /\ Grows(old, new)

\* What a ledger says was used is a number, of a scope it does not know too.
LEMMA UsedIsNat ==
    ASSUME NEW led, IsLedger(led), NEW c, NEW s
    PROVE  Used(led, c, s) \in Nat
BY DEF IsLedger, Used

\* A ledger within the limits that does not change stays within them.
LEMMA KeptItself ==
    ASSUME NEW led, IsLedger(led), WithinLimits(led)
    PROVE  Kept(led, led)
BY UsedIsNat DEF Kept, Grows

\* Two changes in turn keep what each of them keeps.
LEMMA KeptTwice ==
    ASSUME NEW a, NEW b, NEW c, IsLedger(a), IsLedger(b), Kept(a, b), Kept(b, c)
    PROVE  Kept(a, c)
<1>1. IsLedger(c) /\ WithinLimits(c)
  BY DEF Kept
<1>2. \A x \in Causes : /\ Used(a, x, RunScope) \in Nat /\ Used(b, x, RunScope) \in Nat
                        /\ Used(c, x, RunScope) \in Nat
  BY <1>1, UsedIsNat
<1> QED BY <1>1, <1>2 DEF Kept, Grows

\* decide: what is granted is within the policy, has a round to run in, replaces nothing
\* that was shown and repeats nothing that may have had an effect.
LEMMA Decision ==
    ASSUME NEW led, IsLedger(led), WithinLimits(led), NEW req, req.cause \in Causes
    PROVE  /\ Kept(led, Decide(led, req).ledger)
           /\ Decide(led, req).allowed \in BOOLEAN
           /\ Decide(led, req).allowed =>
                /\ ~req.canceled /\ ~req.visible /\ ~(req.remaining < req.minimum)
                /\ req.mayRepeat => req.effect = "not_started"
                /\ req.scope = RunScope =>
                     Used(Decide(led, req).ledger, req.cause, RunScope) = Used(led, req.cause, RunScope) + 1
<1> DEFINE d == Decide(led, req)
           used == Used(led, req.cause, req.scope)
           key == <<req.cause, req.scope>>
<1>1. used \in Nat /\ Limits[req.cause] \in Nat
  BY UsedIsNat, LimitsAssumption
<1>2. d.allowed = (DenialReason(req, used) = "allowed")
  BY DEF Decide
<1>3. CASE ~d.allowed
  <2>1. d.ledger = led
    BY <1>2, <1>3 DEF Decide
  <2> QED BY <1>2, <1>3, <2>1, KeptItself
<1>4. CASE d.allowed
  <2>1. /\ ~req.canceled /\ ~req.visible /\ ~(req.remaining < req.minimum)
        /\ req.mayRepeat => req.effect = "not_started"
        /\ ~(used >= Limits[req.cause])
    BY <1>2, <1>4 DEF DenialReason
  <2>2. d.ledger = [k \in DOMAIN led \cup {key} |-> IF k = key THEN used + 1 ELSE led[k]]
    BY <1>2, <1>4 DEF Decide
  <2>3. IsLedger(d.ledger)
    BY <1>1, <2>2 DEF IsLedger
  <2>4. ASSUME NEW c \in Causes
        PROVE  /\ <<c, RunScope>> # key => Used(d.ledger, c, RunScope) = Used(led, c, RunScope)
               /\ <<c, RunScope>> = key => /\ c = req.cause /\ req.scope = RunScope
                                           /\ Used(d.ledger, c, RunScope) = used + 1
                                           /\ Used(led, c, RunScope) = used
    BY <2>2 DEF Used
  <2>5. \A c \in Causes : Used(led, c, RunScope) \in Nat /\ Limits[c] \in Nat
    BY UsedIsNat, LimitsAssumption
  <2>6. Kept(led, d.ledger)
    BY <1>1, <2>1, <2>3, <2>4, <2>5 DEF Kept, Grows, WithinLimits
  <2>7. req.scope = RunScope => Used(d.ledger, req.cause, RunScope) = Used(led, req.cause, RunScope) + 1
    BY <2>4
  <2> QED BY <1>2, <2>1, <2>6, <2>7
<1> HIDE DEF d
<1> QED BY <1>2, <1>3, <1>4 DEF d

-----------------------------------------------------------------------------
(* The resolvers.                                                          *)

\* The situation a decision is taken in has the types it is built with.
IsSituation(sit) == sit.remaining \in Nat /\ sit.canceled \in BOOLEAN /\ sit.visible \in BOOLEAN

\* What every resolver returns: a ledger that kept its limits, and another attempt
\* only when a round is left for it and nothing was shown.
Sound(led, res, sit) ==
    /\ Kept(led, res.ledger) /\ res.code \in RecoveryCodes
    /\ res.disposition \in {"retry", "replan"} => sit.remaining >= 1 /\ ~sit.visible

\* A request asks for the situation it was made in.
Asks(req, sit) ==
    /\ req.cause \in Causes /\ req.remaining = sit.remaining /\ req.visible = sit.visible
    /\ req.minimum \in {1, 2}

\* A decision keeps the ledger within the limits, and allows nothing where no round is
\* left or a text was shown.
LEMMA Allowed ==
    ASSUME NEW led, IsLedger(led), WithinLimits(led), NEW req, NEW sit, IsSituation(sit), Asks(req, sit)
    PROVE  /\ Kept(led, Decide(led, req).ledger) /\ Decide(led, req).allowed \in BOOLEAN
           /\ Decide(led, req).allowed => sit.remaining >= 1 /\ ~sit.visible
<1>1. /\ Kept(led, Decide(led, req).ledger) /\ Decide(led, req).allowed \in BOOLEAN
      /\ Decide(led, req).allowed => ~req.visible /\ ~(req.remaining < req.minimum)
  BY Decision DEF Asks
<1> QED BY <1>1 DEF Asks, IsSituation

\* A decision turned into a retry or a rejection is sound.
LEMMA RetryOrRejectSound ==
    ASSUME NEW led, IsLedger(led), WithinLimits(led), NEW req, NEW sit, IsSituation(sit), Asks(req, sit),
           NEW code \in RecoveryCodes
    PROVE  /\ Sound(led, RetryOrReject(Decide(led, req), code), sit)
           /\ RetryOrReject(Decide(led, req), code).disposition \in {"retry", "reject"}
BY Allowed DEF RetryOrReject, Resolution, Sound, RecoveryCodes

\* A resolver that lets the round pass, or refuses it, and asks nobody.
LEMMA PassSound ==
    ASSUME NEW led, IsLedger(led), WithinLimits(led), NEW sit, NEW code \in RecoveryCodes,
           NEW what, what \notin {"retry", "replan"}
    PROVE  Sound(led, Resolution(what, led, code), sit)
BY KeptItself DEF Resolution, Sound

\* resolve_provider_failure: a retry or a fallback is one grant of the cause that
\* pays for its extra round.
LEMMA ProviderFailureSound ==
    ASSUME NEW led, IsLedger(led), WithinLimits(led), NEW sit, IsSituation(sit),
           NEW err \in {"canceled", "unsupported", "interrupted", "other"}, NEW choice
    PROVE  LET res == ResolveProviderFailure(led, err, choice, sit) IN
           /\ Kept(led, res.ledger) /\ res.code \in RecoveryCodes
           /\ res.disposition \in {"retry", "fallback", "reject", "cancel"}
           /\ res.disposition = "retry" =>
                /\ ~sit.visible
                /\ Used(res.ledger, "stream_interrupted", RunScope)
                       = Used(led, "stream_interrupted", RunScope) + 1
           /\ res.disposition = "fallback" =>
                /\ choice = "required"
                /\ Used(res.ledger, "required_unsupported", RunScope)
                       = Used(led, "required_unsupported", RunScope) + 1
<1> DEFINE plain == Request("stream_interrupted", sit)
           forced == [Request("required_unsupported", sit) EXCEPT !.visible = FALSE]
<1>1. /\ plain.cause = "stream_interrupted" /\ plain.scope = RunScope /\ plain.visible = sit.visible
      /\ forced.cause = "required_unsupported" /\ forced.scope = RunScope
  BY DEF Request
<1>2. plain.cause \in Causes /\ forced.cause \in Causes
  BY <1>1 DEF Causes
<1>3. err \in RecoveryCodes /\ "request_canceled" \in RecoveryCodes /\ "none" \in RecoveryCodes
  BY DEF RecoveryCodes
<1> HIDE DEF plain, forced
<1>4. /\ Kept(led, Decide(led, plain).ledger) /\ Decide(led, plain).allowed \in BOOLEAN
      /\ Decide(led, plain).allowed =>
           /\ ~sit.visible
           /\ Used(Decide(led, plain).ledger, "stream_interrupted", RunScope)
                = Used(led, "stream_interrupted", RunScope) + 1
  BY <1>1, <1>2, Decision
<1>5. /\ Kept(led, Decide(led, forced).ledger) /\ Decide(led, forced).allowed \in BOOLEAN
      /\ Decide(led, forced).allowed =>
           Used(Decide(led, forced).ledger, "required_unsupported", RunScope)
             = Used(led, "required_unsupported", RunScope) + 1
  BY <1>1, <1>2, Decision
<1>6. Kept(led, led)
  BY KeptItself
<1>7. ResolveProviderFailure(led, err, choice, sit) =
        IF err = "canceled" \/ sit.canceled THEN Resolution("cancel", led, "request_canceled")
        ELSE IF err = "unsupported"
        THEN IF choice # "required" THEN Resolution("reject", led, err)
             ELSE Resolution(IF Decide(led, forced).allowed THEN "fallback" ELSE "reject",
                             Decide(led, forced).ledger, err)
        ELSE IF err = "interrupted" THEN RetryOrReject(Decide(led, plain), err)
        ELSE Resolution("reject", led, err)
  BY DEF ResolveProviderFailure, plain, forced
<1> QED BY <1>3, <1>4, <1>5, <1>6, <1>7 DEF Resolution, RetryOrReject

\* A required tool call that is missing: retried, replanned, or rejected within the limits.
LEMMA MissingCallSound ==
    ASSUME NEW led, IsLedger(led), WithinLimits(led), NEW sit, IsSituation(sit), NEW planning \in BOOLEAN
    PROVE  LET res == ResolveMissingCall(led, planning, sit) IN
           /\ Sound(led, res, sit) /\ res.disposition \in {"retry", "replan", "reject"}
           /\ res.disposition = "replan" => planning
<1> DEFINE ask == [Request("missing_call", sit) EXCEPT !.minimum = 2]
           again == Request("missing_call_replan", sit)
           retry == Decide(led, ask)
           replan == Decide(retry.ledger, again)
<1>1. Asks(ask, sit) /\ Asks(again, sit)
  BY DEF Request, Asks, Causes
<1>2. ResolveMissingCall(led, planning, sit) =
        IF retry.allowed THEN Resolution("retry", retry.ledger, "none")
        ELSE IF planning /\ replan.allowed
             THEN Resolution("replan", replan.ledger, "missing_required_tool_call")
        ELSE Resolution("reject", retry.ledger, "missing_required_tool_call")
  BY DEF ResolveMissingCall
<1> HIDE DEF ask, again
<1>3. /\ Kept(led, retry.ledger) /\ retry.allowed \in BOOLEAN
      /\ retry.allowed => sit.remaining >= 1 /\ ~sit.visible
  BY <1>1, Allowed
<1>4. IsLedger(retry.ledger) /\ WithinLimits(retry.ledger)
  BY <1>3 DEF Kept
<1> HIDE DEF retry
<1>5. /\ Kept(retry.ledger, replan.ledger) /\ replan.allowed \in BOOLEAN
      /\ replan.allowed => sit.remaining >= 1 /\ ~sit.visible
  BY <1>1, <1>4, Allowed
<1>6. Kept(led, replan.ledger)
  BY <1>3, <1>4, <1>5, KeptTwice
<1> HIDE DEF replan
<1> QED BY <1>2, <1>3, <1>5, <1>6 DEF Resolution, Sound, RecoveryCodes

\* resolve_tool_protocol: a batch passes only when it is not barred by a declined
\* approval.
LEMMA ProtocolSound ==
    ASSUME NEW led, IsLedger(led), WithinLimits(led), NEW sit, IsSituation(sit), NEW planning \in BOOLEAN,
           NEW calls, NEW malformed \in BOOLEAN, NEW require \in BOOLEAN, NEW declined \in BOOLEAN,
           NEW repair \in BOOLEAN
    PROVE  LET res == ResolveToolProtocol(led, calls, malformed, require, planning, declined, repair, sit) IN
           /\ Sound(led, res, sit) /\ res.disposition \in {"retry", "replan", "reject", "pass"}
           /\ res.disposition = "replan" => planning
           /\ res.disposition = "pass" => (calls # {} => ~declined)
<1> DEFINE res == ResolveToolProtocol(led, calls, malformed, require, planning, declined, repair, sit)
<1>1. CASE malformed
  <2>1. Asks(Request("malformed", sit), sit) /\ "malformed_batch" \in RecoveryCodes
    BY DEF Request, Asks, Causes, RecoveryCodes
  <2>2. res = RetryOrReject(Decide(led, Request("malformed", sit)), "malformed_batch")
    BY <1>1 DEF ResolveToolProtocol
  <2> QED BY <2>1, <2>2, RetryOrRejectSound
<1>2. CASE ~malformed /\ require /\ calls = {}
  <2>1. res = ResolveMissingCall(led, planning, sit)
    BY <1>2 DEF ResolveToolProtocol
  <2>2. /\ Sound(led, ResolveMissingCall(led, planning, sit), sit)
        /\ ResolveMissingCall(led, planning, sit).disposition \in {"retry", "replan", "reject"}
        /\ ResolveMissingCall(led, planning, sit).disposition = "replan" => planning
    BY MissingCallSound
  <2> HIDE DEF res
  <2>3. /\ Sound(led, res, sit) /\ res.disposition \in {"retry", "replan", "reject", "pass"}
        /\ res.disposition = "replan" => planning
        /\ res.disposition # "pass"
    BY <2>1, <2>2
  <2> QED BY <2>3 DEF res
<1>3. CASE ~malformed /\ ~(require /\ calls = {})
  <2>1. PICK what \in {"reject", "pass"},
             code \in {"tool_call_after_approval_rejection", "tool_call_during_response_repair", "none"} :
           res = Resolution(what, led, code) /\ (what = "pass" => (calls # {} => ~declined))
    BY <1>3 DEF ResolveToolProtocol
  <2>2. code \in RecoveryCodes
    BY DEF RecoveryCodes
  <2>3. Sound(led, res, sit)
    BY <2>1, <2>2, PassSound
  <2> QED BY <2>1, <2>3 DEF Resolution
<1> QED BY <1>1, <1>2, <1>3

\* A batch outside the permitted tools: what is allowed instead is sound, and a
\* replan is answered only where there is a planner.
LEMMA AuthorizationSound ==
    ASSUME NEW led, IsLedger(led), WithinLimits(led), NEW sit, IsSituation(sit), NEW planning \in BOOLEAN,
           NEW calls, NEW allowed, NEW future, NEW scope, NEW require \in BOOLEAN
    PROVE  LET res == ResolveToolAuthorization(led, calls, allowed, future, scope, require, planning, sit) IN
           /\ Sound(led, res, sit) /\ res.disposition \in {"retry", "replan", "reject", "execute"}
           /\ res.disposition = "replan" => planning
           /\ res.disposition = "execute" => calls \subseteq allowed
<1> DEFINE res == ResolveToolAuthorization(led, calls, allowed, future, scope, require, planning, sit)
<1>1. CASE calls \subseteq allowed
  <2>1. res = Resolution("execute", led, "none") /\ "none" \in RecoveryCodes
    BY <1>1 DEF ResolveToolAuthorization, RecoveryCodes
  <2>2. Sound(led, res, sit)
    BY <2>1, PassSound
  <2> QED BY <1>1, <2>1, <2>2 DEF Resolution
<1>2. CASE ~(calls \subseteq allowed) /\ res = ResolveFutureBatch(led, allowed, scope, sit)
  <2> DEFINE ask == [Request("future_step", sit) EXCEPT !.scope = scope, !.minimum = 2,
                     !.retryable = allowed # {}]
  <2>1. Asks(ask, sit) /\ "tool_step_out_of_order" \in RecoveryCodes
    BY DEF Request, Asks, Causes, RecoveryCodes
  <2>2. res = RetryOrReject(Decide(led, ask), "tool_step_out_of_order")
    BY <1>2 DEF ResolveFutureBatch
  <2> QED BY <2>1, <2>2, RetryOrRejectSound
<1>3. CASE /\ ~(calls \subseteq allowed)
           /\ res = ResolveUnauthorizedBatch(led, allowed, scope, require, planning, sit)
  <2> DEFINE ask(cause) == [Request(cause, sit) EXCEPT !.scope = scope, !.minimum = 2,
                                                       !.retryable = require /\ allowed # {}]
             first == ask("unauthorized")
             second == ask("unauthorized_replan")
             retry == Decide(led, first)
             replan == Decide(retry.ledger, second)
  <2>1. Asks(first, sit) /\ Asks(second, sit)
    BY DEF Request, Asks, Causes
  <2>2. res = IF retry.allowed THEN Resolution("retry", retry.ledger, "none")
              ELSE IF planning /\ retry.reason = "attempts_exhausted" /\ replan.allowed
              THEN Resolution("replan", replan.ledger, "tool_not_authorized")
              ELSE Resolution("reject", retry.ledger, "tool_not_authorized")
    BY <1>3 DEF ResolveUnauthorizedBatch
  <2> HIDE DEF first, second
  <2>3. /\ Kept(led, retry.ledger) /\ retry.allowed \in BOOLEAN
        /\ retry.allowed => sit.remaining >= 1 /\ ~sit.visible
    BY <2>1, Allowed
  <2>4. IsLedger(retry.ledger) /\ WithinLimits(retry.ledger)
    BY <2>3 DEF Kept
  <2> HIDE DEF retry
  <2>5. /\ Kept(retry.ledger, replan.ledger) /\ replan.allowed \in BOOLEAN
        /\ replan.allowed => sit.remaining >= 1 /\ ~sit.visible
    BY <2>1, <2>4, Allowed
  <2>6. Kept(led, replan.ledger)
    BY <2>3, <2>4, <2>5, KeptTwice
  <2> HIDE DEF replan, res
  <2>7. /\ Sound(led, res, sit) /\ res.disposition \in {"retry", "replan", "reject"}
        /\ (res.disposition = "replan" => planning)
    BY <2>2, <2>3, <2>5, <2>6 DEF Resolution, Sound, RecoveryCodes
  <2> QED BY <1>3, <2>7 DEF res
<1> QED BY <1>1, <1>2, <1>3 DEF ResolveToolAuthorization

\* resolve_tool_recovery: after a failed batch only what had no effect is tried
\* again; a batch that did not fail is never refused.
LEMMA ToolRecoverySound ==
    ASSUME NEW led, IsLedger(led), WithinLimits(led), NEW sit, IsSituation(sit), NEW planning \in BOOLEAN,
           NEW batch, batch.cureable \in BOOLEAN, NEW epoch, NEW round
    PROVE  LET res == ResolveToolRecovery(led, batch, planning, epoch, round, sit) IN
           /\ Kept(led, res.ledger) /\ res.code \in RecoveryCodes
           /\ res.disposition \in {"retry", "replan", "reject", "continue"}
           /\ res.disposition = "replan" => planning
           /\ res.disposition \in {"reject", "retry"} => batch.outcome = "failed"
           /\ batch.outcome = "failed" /\ res.disposition # "reject" =>
                sit.remaining >= 1 /\ batch.effect = "not_started"
<1> DEFINE ask(cause, scope) == [Request(cause, sit) EXCEPT !.scope = scope, !.visible = FALSE,
                                                          !.effect = batch.effect, !.mayRepeat = TRUE]
           first == ask("tool_input", <<"epoch", epoch>>)
           second == ask("tool_failed_replan", <<"round", round>>)
           input == Decide(led, first)
           after == IF batch.cureable THEN input.ledger ELSE led
           replan == Decide(after, second)
           res == ResolveToolRecovery(led, batch, planning, epoch, round, sit)
<1>1. /\ first.cause \in Causes /\ first.remaining = sit.remaining /\ first.minimum = 1
      /\ first.effect = batch.effect /\ first.mayRepeat
      /\ second.cause \in Causes /\ second.remaining = sit.remaining /\ second.minimum = 1
      /\ second.effect = batch.effect /\ second.mayRepeat
  BY DEF Request, Causes
<1>2. res = IF batch.outcome = "failed"
            THEN IF batch.cureable /\ input.allowed THEN Resolution("retry", input.ledger, "none")
                 ELSE IF planning
                 THEN Resolution(IF replan.allowed THEN "replan" ELSE "reject", replan.ledger, "tool_failed")
                 ELSE Resolution("reject", after, "tool_failed")
            ELSE IF planning /\ batch.replan /\ batch.outcome \in {"progressed", "completed"}
            THEN Resolution("replan", led, "none")
            ELSE Resolution("continue", led, "none")
  BY DEF ResolveToolRecovery
<1> HIDE DEF first, second
<1>3. /\ Kept(led, input.ledger) /\ input.allowed \in BOOLEAN
      /\ input.allowed => sit.remaining >= 1 /\ batch.effect = "not_started"
  BY <1>1, Decision DEF IsSituation
<1> HIDE DEF input
<1>4. Kept(led, after)
  BY <1>3, KeptItself
<1>5. IsLedger(after) /\ WithinLimits(after)
  BY <1>4 DEF Kept
<1> HIDE DEF after
<1>6. /\ Kept(after, replan.ledger) /\ replan.allowed \in BOOLEAN
      /\ replan.allowed => sit.remaining >= 1 /\ batch.effect = "not_started"
  BY <1>1, <1>5, Decision DEF IsSituation
<1>7. Kept(led, replan.ledger) /\ Kept(led, led)
  BY <1>4, <1>5, <1>6, KeptTwice, KeptItself
<1> HIDE DEF replan, res
<1>8. /\ Kept(led, res.ledger) /\ res.code \in RecoveryCodes
      /\ res.disposition \in {"retry", "replan", "reject", "continue"}
      /\ res.disposition = "replan" => planning
      /\ res.disposition \in {"reject", "retry"} => batch.outcome = "failed"
      /\ batch.outcome = "failed" /\ res.disposition # "reject" =>
           sit.remaining >= 1 /\ batch.effect = "not_started"
  BY <1>2, <1>3, <1>4, <1>6, <1>7 DEF Resolution, RecoveryCodes
<1> QED BY <1>8 DEF res

\* resolve_response_recovery: what passes is a text, and no markup after a failed
\* batch, unless the user declined.
LEMMA ResponseSound ==
    ASSUME NEW led, IsLedger(led), WithinLimits(led), NEW sit, IsSituation(sit),
           NEW words \in {"none", "prose", "markup"}, NEW declined \in BOOLEAN, NEW failedCode
    PROVE  LET res == ResolveResponseRecovery(led, words, declined, failedCode, sit) IN
           /\ Sound(led, res, sit) /\ res.disposition \in {"retry", "reject", "pass"}
           /\ res.disposition = "pass" /\ ~declined =>
                words # "none" /\ (words = "markup" => failedCode = "none")
<1> DEFINE res == ResolveResponseRecovery(led, words, declined, failedCode, sit)
           odd == Request("unstructured", sit)
           blank == Request("empty", sit)
<1>1. Asks(odd, sit) /\ Asks(blank, sit)
  BY DEF Request, Asks, Causes
<1>2. {"unstructured_tool_call", "empty_model_response", "none"} \subseteq RecoveryCodes
  BY DEF RecoveryCodes
<1>3. res = IF words = "markup" /\ (declined \/ failedCode # "none")
            THEN RetryOrReject(Decide(led, odd), "unstructured_tool_call")
            ELSE IF declined \/ words # "none" THEN Resolution("pass", led, "none")
            ELSE RetryOrReject(Decide(led, blank), "empty_model_response")
  BY DEF ResolveResponseRecovery
<1> HIDE DEF odd, blank
<1>4. /\ Sound(led, RetryOrReject(Decide(led, odd), "unstructured_tool_call"), sit)
      /\ RetryOrReject(Decide(led, odd), "unstructured_tool_call").disposition \in {"retry", "reject"}
  BY <1>1, <1>2, RetryOrRejectSound
<1>5. /\ Sound(led, RetryOrReject(Decide(led, blank), "empty_model_response"), sit)
      /\ RetryOrReject(Decide(led, blank), "empty_model_response").disposition \in {"retry", "reject"}
  BY <1>1, <1>2, RetryOrRejectSound
<1>6. Sound(led, Resolution("pass", led, "none"), sit) /\ Resolution("pass", led, "none").disposition = "pass"
  BY <1>2, PassSound DEF Resolution
<1> HIDE DEF res
<1>7. /\ Sound(led, res, sit) /\ res.disposition \in {"retry", "reject", "pass"}
      /\ res.disposition = "pass" /\ ~declined =>
           words # "none" /\ (words = "markup" => failedCode = "none")
  BY <1>3, <1>4, <1>5, <1>6
<1> QED BY <1>7 DEF res

\* A violated response constraint is retried within the limits, or rejected.
LEMMA ConstraintSound ==
    ASSUME NEW led, IsLedger(led), WithinLimits(led), NEW sit, IsSituation(sit), NEW verdict
    PROVE  LET res == ResolveConstraintRecovery(led, verdict, sit) IN
           Sound(led, res, sit) /\ res.disposition \in {"retry", "reject"}
<1> DEFINE phases == {c \in {"constraint_rule", "constraint_judge"} : Used(led, c, RunScope) > 0}
           cause == IF verdict = "judge" THEN "constraint_judge" ELSE "constraint_rule"
           ask == [Request(cause, sit) EXCEPT !.retryable = phases # {"constraint_rule", "constraint_judge"}]
<1>1. cause \in Causes
  BY DEF Causes
<1>2. ResolveConstraintRecovery(led, verdict, sit)
          = RetryOrReject(Decide(led, ask), "response_constraint_violation")
  BY DEF ResolveConstraintRecovery
<1> HIDE DEF cause, phases
<1>3. Asks(ask, sit) /\ "response_constraint_violation" \in RecoveryCodes
  BY <1>1 DEF Request, Asks, RecoveryCodes
<1> HIDE DEF ask
<1> QED BY <1>2, <1>3, RetryOrRejectSound

-----------------------------------------------------------------------------
(* Steps.                                                                  *)

\* The places of the loop.
Places ==
    {"head", "prepare", "stream", "classify", "finalize", "activate", "authorize", "gate", "execute",
     "checkpoint"}
\* An answer the loop can hold.
IsAnswer(a) ==
    a \in [calls : SUBSET ToolNames, fault : {"none", "malformed", "truncated"},
          text : {"none", "prose", "markup"}]
\* What the log of the observer records.
IsSeen(x) == x \in [shown : BOOLEAN, granted : BOOLEAN, dirty : BOOLEAN, refused : BOOLEAN,
                   finals : Nat]

\* What the types say of single fields.
LEMMA LoopFields ==
    ASSUME NEW l \in RuntimeLoopState
    PROVE  /\ l.index \in 0..AbsoluteRounds /\ l.limit \in Nat \ {0} /\ l.progress \in 0..MaxProgress
           /\ l.attempt.tools \subseteq ToolNames /\ l.attempt.allowed \subseteq ToolNames
           /\ l.attempt.choice \in {"none", "auto", "required"} /\ l.attempt.n \in Nat
           /\ l.attempt.require \in BOOLEAN /\ l.attempt.buffer \in BOOLEAN
           /\ l.declined \in BOOLEAN /\ l.repair \in BOOLEAN /\ l.pending \in BOOLEAN
           /\ l.replan \in BOOLEAN
           /\ l.released \in BOOLEAN /\ l.final \in BOOLEAN /\ l.required \in BOOLEAN
           /\ l.forced \in BOOLEAN
           /\ l.open \in BOOLEAN /\ l.epoch \in Nat /\ l.logical \in Nat
           /\ l.pendingCode \in RecoveryCodes /\ l.failedCode \in RecoveryCodes
           /\ l.gate \in {"none", "ready"}
BY DEF RuntimeLoopState

\* The bound of the rounds: the model's, the progress' and the provider's grants, and one.
LEMMA Bounds ==
    /\ MaxRounds \in Nat \ {0} /\ MaxProgress \in Nat /\ ProviderCapacity \in Nat
    /\ AbsoluteRounds = MaxRounds + MaxProgress + ProviderCapacity + 1
    /\ Limits["required_unsupported"] \in Nat /\ Limits["stream_interrupted"] \in Nat
    /\ ProviderCapacity = Limits["required_unsupported"] + Limits["stream_interrupted"]
BY LoopAssumption, LimitsAssumption DEF LoopAssumption, Causes, ProviderCapacity, AbsoluteRounds

\* An accounted limit lies within run()'s range while no more than one round was added
\* for an answer.
LEMMA LimitInRange ==
    ASSUME NEW l \in RuntimeLoopState, NEW led, IsLedger(led), WithinLimits(led), NEW added \in Nat,
           Accounted(l, led, added)
    PROVE  added <= 1 => l.limit <= AbsoluteRounds
<1>1. /\ Used(led, "required_unsupported", RunScope) \in Nat
      /\ Used(led, "stream_interrupted", RunScope) \in Nat
      /\ Used(led, "required_unsupported", RunScope) <= Limits["required_unsupported"]
      /\ Used(led, "stream_interrupted", RunScope) <= Limits["stream_interrupted"]
  BY UsedIsNat DEF WithinLimits, Causes
<1>2. l.limit \in Nat /\ l.progress \in 0..MaxProgress /\ l.final \in BOOLEAN
  BY LoopFields
<1> QED BY <1>1, <1>2, Bounds DEF Accounted

\* Before run() returns there is no outcome.
LEMMA Unrun ==
    ASSUME LoopInv, at # "done"
    PROVE  result = Pending /\ result.code = "none" /\ result.outcome = "pending"
BY DEF LoopInv, LoopTypeOK, Pending

\* A step that stays in run(): what is left to show is the loop's own state.
LEMMA Moves ==
    ASSUME LoopInv, at # "done", NEW where \in Places, Goto(where),
           loop' \in RuntimeLoopState, loop'.replan => HasHook, Accounted(loop', ledger', seen'.finals),
           Kept(ledger, ledger'), IsAnswer(ans'), IsSeen(seen'), step' \in 1..(Len(Plan) + 1),
           RoundsInPhase', AttemptInPhase', HistoryInPhase'
    PROVE  LoopInv'
<1>1. /\ at' = where /\ profile' = profile /\ result' = result /\ ck' = ck /\ canceled' = canceled
  BY DEF Goto
<1>2. LoopTypeOK'
  <2>1. HasHook' = HasHook
    BY <1>1 DEF HasHook
  <2>2. at' # "done" /\ result' = Pending /\ result'.outcome = "pending"
    BY <1>1, Unrun DEF Places
  <2> QED BY <1>1, <2>1, <2>2 DEF LoopInv, LoopTypeOK, Kept, IsLedger, IsAnswer, IsSeen, Places
<1>3. GrantedRetryRuns' /\ CompletedChecked'
  BY <1>1, Unrun DEF GrantedRetryRuns, CompletedChecked
<1>4. LimitAccounted' /\ LedgerFits'
  BY <1>1 DEF LimitAccounted, LedgerFits, LoopInv, Kept
<1>5. CheckpointSound'
  BY <1>1 DEF LoopInv, CheckpointSound, HasHook
<1> QED BY <1>2, <1>3, <1>4, <1>5 DEF LoopInv

\* A step that ends run().
LEMMA Yields ==
    ASSUME LoopInv, at \notin {"done", "down"},
           NEW outcome \in {"completed", "failed", "canceled", "planning"}, NEW code, Yield(outcome, code),
           loop' \in RuntimeLoopState, Accounted(loop', ledger', seen'.finals), loop'.replan = loop.replan,
           loop'.index = loop.index, loop'.limit = loop.limit, loop'.final = loop.final,
           loop'.declined = loop.declined, loop'.attempt = loop.attempt, loop'.pending = loop.pending,
           Kept(ledger, ledger'), IsSeen(seen'), step' \in 1..(Len(Plan) + 1),
           seen'.refused => loop.declined, seen'.finals = seen.finals,
           code = "max_model_rounds" =>
              (~seen'.granted /\ ~profile.enforce) \/ (seen.finals > 1 /\ loop.index = AbsoluteRounds),
           outcome = "completed" =>
              \/ loop.declined
              \/ /\ code = "ok" /\ ans.text # "none" /\ ans.calls = {}
                 /\ ans.text = "markup" => loop'.failedCode = "none"
    PROVE  LoopInv'
<1>1. /\ at' = "done" /\ profile' = profile /\ ck' = ck /\ canceled' = canceled /\ ans' = ans
      /\ result' = [outcome |-> outcome, code |-> code]
  BY DEF Yield
<1>2. result'.outcome = outcome /\ result'.code = code /\ result' # Pending
  BY <1>1 DEF Pending
<1>3. LoopTypeOK'
  <2>1. HasHook' = HasHook
    BY <1>1 DEF HasHook
  <2> QED BY <1>1, <1>2, <2>1 DEF LoopInv, LoopTypeOK, Kept, IsLedger, IsSeen
<1>4. GrantedRetryRuns' /\ CompletedChecked'
  BY <1>1, <1>2 DEF GrantedRetryRuns, CompletedChecked, OutOfRange
<1>5. LimitAccounted' /\ LedgerFits'
  BY <1>1 DEF LimitAccounted, LedgerFits, LoopInv, Kept
<1>6. CheckpointSound'
  BY <1>1 DEF LoopInv, CheckpointSound, HasHook
<1>7. RoundsInPhase'
  BY <1>1, <1>2 DEF LoopInv, RoundsInPhase, ToResumedCall, OutOfRange
<1>8. AttemptInPhase'
  BY <1>1, <1>2 DEF LoopInv, AttemptInPhase, ToResumedCall, HasCalls
<1>9. HistoryInPhase'
  BY <1>1, <1>2 DEF LoopInv, HistoryInPhase, ToResumedCall, HasCalls
<1> QED BY <1>3, <1>4, <1>5, <1>6, <1>7, <1>8, <1>9 DEF LoopInv

\* The facts about the state before a step that most steps start from.
LEMMA Before ==
    ASSUME LoopInv
    PROVE  /\ loop \in RuntimeLoopState /\ IsLedger(ledger) /\ WithinLimits(ledger) /\ Kept(ledger, ledger)
           /\ Accounted(loop, ledger, seen.finals) /\ IsAnswer(ans) /\ IsSeen(seen) /\ step \in 1..(Len(Plan) + 1)
           /\ seen.finals \in Nat /\ (seen.finals <= 1 => loop.limit <= AbsoluteRounds)
           /\ (loop.replan => HasHook)
           /\ profile.enforce \in BOOLEAN /\ (seen.refused => loop.declined)
<1>1. /\ loop \in RuntimeLoopState /\ IsLedger(ledger) /\ WithinLimits(ledger)
      /\ Accounted(loop, ledger, seen.finals) /\ IsAnswer(ans) /\ IsSeen(seen) /\ step \in 1..(Len(Plan) + 1)
      /\ (loop.replan => HasHook) /\ profile \in Profiles
  BY DEF LoopInv, LoopTypeOK, IsLedger, LedgerFits, LimitAccounted, IsAnswer, IsSeen
<1>2. profile.enforce \in BOOLEAN
  BY <1>1, LoopAssumption DEF LoopAssumption
<1>3. seen.finals \in Nat
  BY <1>1 DEF IsSeen
<1> QED BY <1>1, <1>2, <1>3, KeptItself, LimitInRange DEF LoopInv, HistoryInPhase

\* run(), the head of the loop.
LEMMA RoundHeadStep ==
    ASSUME LoopInv, RoundHead
    PROVE  LoopInv'
<1>1. loop' = loop /\ ledger' = ledger /\ step' = step /\ seen' = seen /\ at = "head"
  BY DEF RoundHead
<1>2. loop.index \in 0..AbsoluteRounds /\ loop.limit \in Nat /\ AbsoluteRounds \in Nat
  BY Before, LoopFields, Bounds
<1>3. CASE loop.index >= loop.limit \/ loop.index >= AbsoluteRounds
  <2>1. Yield("failed", "max_model_rounds")
    BY <1>3 DEF RoundHead
  <2>2. (~seen.granted /\ ~profile.enforce) \/ (seen.finals > 1 /\ loop.index = AbsoluteRounds)
    <3>1. seen.granted \/ profile.enforce => loop.index < loop.limit
      BY <1>1 DEF LoopInv, RoundsInPhase
    <3>2. seen.finals \in Nat /\ (seen.finals <= 1 => loop.limit <= AbsoluteRounds)
      BY Before
    <3> QED BY <1>2, <1>3, <3>1, <3>2
  <2> QED BY <1>1, <2>1, <2>2, Before, Yields
<1>4. CASE ~(loop.index >= loop.limit \/ loop.index >= AbsoluteRounds) /\ canceled
  <2>1. Yield("canceled", "request_canceled")
    BY <1>4 DEF RoundHead
  <2> QED BY <1>1, <2>1, Before, Yields
<1>5. CASE ~(loop.index >= loop.limit \/ loop.index >= AbsoluteRounds) /\ ~canceled
  <2>1. ans' = ans /\ Goto(IF loop.gate = "ready" THEN "gate" ELSE "prepare")
    BY <1>5 DEF RoundHead
  <2>2. at' = (IF loop.gate = "ready" THEN "gate" ELSE "prepare") /\ profile' = profile /\ result' = result
    BY <2>1 DEF Goto
  <2>3. loop.index < loop.limit /\ loop.index < AbsoluteRounds
    BY <1>2, <1>5
  <2>4. loop.gate \in {"none", "ready"}
    BY Before, LoopFields
  <2>5. RoundsInPhase'
    BY <1>1, <2>2, <2>3 DEF LoopInv, RoundsInPhase, ToResumedCall, OutOfRange
  <2>6. AttemptInPhase'
    BY <1>1, <2>1, <2>2, <2>4 DEF LoopInv, AttemptInPhase, ToResumedCall, HasCalls
  <2>7. HistoryInPhase'
    BY <1>1, <2>2 DEF LoopInv, HistoryInPhase, ToResumedCall, HasCalls
  <2>8. (IF loop.gate = "ready" THEN "gate" ELSE "prepare") \in Places
    BY DEF Places
  <2> QED BY <1>1, <2>1, <2>5, <2>6, <2>7, <2>8, Before, Moves
<1> QED BY <1>3, <1>4, <1>5

\* A frozen attempt goes first.
LEMMA PrepareRetryStep ==
    ASSUME LoopInv, PrepareRetry
    PROVE  LoopInv'
<1>1. /\ loop' = [loop EXCEPT !.pending = FALSE] /\ ledger' = ledger /\ step' = step /\ seen' = seen
      /\ ans' = ans
      /\ at = "prepare" /\ loop.pending /\ Goto("stream")
  BY DEF PrepareRetry
<1>2. loop \in RuntimeLoopState
  BY Before
<1>3. /\ loop' \in RuntimeLoopState /\ loop'.index = loop.index /\ loop'.limit = loop.limit
      /\ loop'.final = loop.final /\ loop'.progress = loop.progress /\ loop'.declined = loop.declined
      /\ loop'.attempt = loop.attempt /\ loop'.gate = loop.gate /\ loop'.replan = loop.replan
      /\ loop'.released = loop.released /\ ~loop'.pending
  BY <1>1, <1>2 DEF RuntimeLoopState
<1>4. at' = "stream" /\ profile' = profile /\ result' = result
  BY <1>1 DEF Goto
<1>5. RoundsInPhase'
  BY <1>1, <1>3, <1>4 DEF LoopInv, RoundsInPhase, ToResumedCall, OutOfRange
<1>6. AttemptInPhase'
  BY <1>1, <1>3, <1>4 DEF LoopInv, AttemptInPhase, ToResumedCall, HasCalls
<1>7. HistoryInPhase'
  BY <1>1, <1>3, <1>4 DEF LoopInv, HistoryInPhase, ToResumedCall, HasCalls
<1>8. Accounted(loop', ledger', seen'.finals)
  BY <1>1, <1>3, Before DEF Accounted
<1>9. "stream" \in Places
  BY DEF Places
<1> QED BY <1>1, <1>3, <1>5, <1>6, <1>7, <1>8, <1>9, Before, Moves

\* The dynamic plan.
LEMMA ReplanStep ==
    ASSUME LoopInv, Replan
    PROVE  LoopInv'
<1>1. ledger' = ledger /\ seen' = seen /\ at = "prepare" /\ ~loop.pending
  BY DEF Replan
<1>2. loop \in RuntimeLoopState
  BY Before
<1>3. CASE /\ step' \in 1..(Len(Plan) + 1) /\ loop' = [loop EXCEPT !.replan = FALSE, !.pendingCode = "none"]
           /\ Goto("prepare") /\ ans' = ans
  <2>1. "none" \in RecoveryCodes /\ "prepare" \in Places
    BY DEF RecoveryCodes, Places
  <2>2. /\ loop' \in RuntimeLoopState /\ loop'.index = loop.index /\ loop'.limit = loop.limit
        /\ loop'.final = loop.final /\ loop'.progress = loop.progress /\ loop'.declined = loop.declined
        /\ loop'.attempt = loop.attempt /\ loop'.gate = loop.gate /\ ~loop'.replan
        /\ loop'.released = loop.released /\ loop'.pending = loop.pending
    BY <1>2, <1>3, <2>1 DEF RuntimeLoopState
  <2>3. at' = "prepare" /\ profile' = profile /\ result' = result
    BY <1>3 DEF Goto
  <2>4. RoundsInPhase'
    BY <1>1, <2>2, <2>3 DEF LoopInv, RoundsInPhase, ToResumedCall, OutOfRange
  <2>5. AttemptInPhase'
    BY <1>1, <2>2, <2>3 DEF LoopInv, AttemptInPhase, ToResumedCall, HasCalls
  <2>6. HistoryInPhase'
    BY <1>1, <2>2, <2>3 DEF LoopInv, HistoryInPhase, ToResumedCall, HasCalls
  <2>7. Accounted(loop', ledger', seen'.finals)
    BY <1>1, <2>2, Before DEF Accounted
  <2> QED BY <1>1, <1>3, <2>1, <2>2, <2>4, <2>5, <2>6, <2>7, Before, Moves
<1>4. CASE /\ Yield("failed", IF loop.pendingCode = "none" THEN "dynamic_planning_failed" ELSE loop.pendingCode)
           /\ loop' = loop /\ step' = step
  <2>1. (IF loop.pendingCode = "none" THEN "dynamic_planning_failed" ELSE loop.pendingCode) # "max_model_rounds"
    BY <1>2, LoopFields DEF RecoveryCodes
  <2> QED BY <1>1, <1>4, <2>1, Before, Yields
<1>5. CASE Yield("canceled", "request_canceled") /\ loop' = loop /\ step' = step
  BY <1>1, <1>5, Before, Yields
<1> QED BY <1>3, <1>4, <1>5 DEF Replan

\* The names a plan, a catalog and a control surface offer.
LEMMA Offers ==
    ASSUME LoopInv
    PROVE  /\ AllowedNames \subseteq {"a", "b"} \cup Controls /\ FutureNames \subseteq {"a", "b"}
           /\ {"a", "b"} \cup Controls \subseteq ToolNames
           /\ VisibleTools(loop) \subseteq {"a", "b"} \cup Controls
           /\ loop.final => VisibleTools(loop) = {}
<1>1. Len(Plan) = 2 /\ \A j \in 1..2 : Plan[j] \in {"a", "b"}
  BY DEF Plan
<1>2. step \in 1..3
  BY <1>1 DEF LoopInv, LoopTypeOK
<1>3. AllowedNames \subseteq {"a", "b"} \cup Controls
  BY <1>1, <1>2 DEF AllowedNames
<1>4. FutureNames \subseteq {"a", "b"}
  BY <1>1, <1>2 DEF FutureNames
<1> QED BY <1>3, <1>4 DEF ToolNames, VisibleTools

\* The step that prepares a round keeps the invariant.
LEMMA PrepareStep ==
    ASSUME LoopInv, Prepare
    PROVE  LoopInv'
<1> DEFINE visible == VisibleTools(loop)
           require == loop.required /\ visible # {}
           fresh == [tools   |-> visible,
                     choice  |-> IF loop.forced /\ visible # {} THEN "required"
                                 ELSE IF visible # {} THEN "auto" ELSE "none",
                     allowed |-> AllowedNames, future |-> FutureNames, require |-> require,
                     buffer  |-> require \/ loop.declined \/ loop.failedCode # "none" \/ profile.validated,
                     n |-> 1]
<1>1. ledger' = ledger /\ step' = step /\ seen' = seen /\ at = "prepare" /\ ~loop.pending
  BY DEF Prepare
<1>2. CASE Yield("failed", "context_overflow") /\ loop' = loop
  BY <1>1, <1>2, Before, Yields
<1>3. CASE loop' = [loop EXCEPT !.logical = @ + 1, !.attempt = fresh] /\ Goto("stream") /\ ans' = ans
  <2>1. loop \in RuntimeLoopState /\ loop.logical + 1 \in Nat
    BY Before, LoopFields
  <2>2. fresh \in [tools : SUBSET ToolNames, choice : {"none", "auto", "required"},
                   allowed : SUBSET ToolNames, future : SUBSET ToolNames, require : BOOLEAN,
                   buffer : BOOLEAN, n : Nat]
    <3>1. visible \subseteq ToolNames /\ AllowedNames \subseteq ToolNames /\ FutureNames \subseteq ToolNames
      BY Offers
    <3>2. require \in BOOLEAN
      BY <2>1, LoopFields
    <3>3. (require \/ loop.declined \/ loop.failedCode # "none" \/ profile.validated) \in BOOLEAN
      OBVIOUS
    <3> HIDE DEF visible, require
    <3> QED BY <3>1, <3>2, <3>3
  <2>3. /\ fresh.tools = visible /\ fresh.allowed = AllowedNames
        /\ fresh.choice = "required" => visible # {}
    OBVIOUS
  <2> HIDE DEF fresh
  <2>4. /\ loop' \in RuntimeLoopState /\ loop'.index = loop.index /\ loop'.limit = loop.limit
        /\ loop'.final = loop.final /\ loop'.progress = loop.progress /\ loop'.declined = loop.declined
        /\ loop'.attempt = fresh /\ loop'.gate = loop.gate /\ loop'.replan = loop.replan
        /\ loop'.released = loop.released /\ loop'.pending = loop.pending
    BY <1>3, <2>1, <2>2 DEF RuntimeLoopState
  <2>5. at' = "stream" /\ profile' = profile /\ result' = result /\ "stream" \in Places
    BY <1>3 DEF Goto, Places
  <2>6. RoundsInPhase'
    BY <1>1, <2>4, <2>5 DEF LoopInv, RoundsInPhase, ToResumedCall, OutOfRange
  <2>7. AttemptInPhase'
    <3>1. fresh.allowed \subseteq {"a", "b"} \cup Controls /\ (loop.final => fresh.tools = {})
      BY <2>3, Offers
    <3> HIDE DEF visible
    <3> QED BY <1>1, <1>3, <2>3, <2>4, <2>5, <3>1 DEF LoopInv, AttemptInPhase, ToResumedCall, HasCalls
  <2>8. HistoryInPhase'
    BY <1>1, <2>4, <2>5 DEF LoopInv, HistoryInPhase, ToResumedCall, HasCalls
  <2>9. Accounted(loop', ledger', seen'.finals)
    BY <1>1, <2>4, Before DEF Accounted
  <2> QED BY <1>1, <1>3, <2>4, <2>5, <2>6, <2>7, <2>8, <2>9, Before, Moves
<1> QED BY <1>2, <1>3 DEF Prepare

\* What a recovery decision is told.
LEMMA Situated ==
    ASSUME LoopInv, NEW visible \in BOOLEAN
    PROVE  /\ IsSituation(Situation(visible)) /\ Situation(visible).visible = visible
           /\ Situation(visible).canceled = canceled
           /\ Situation(visible).remaining >= 1 => loop.index + 1 < loop.limit
<1>1. loop.index \in Nat /\ loop.limit \in Nat
  BY Before, LoopFields, Bounds
<1>2. Remaining(loop) \in Nat /\ (Remaining(loop) >= 1 => loop.index + 1 < loop.limit)
  BY <1>1 DEF Remaining
<1>3. canceled \in BOOLEAN
  BY DEF LoopInv, LoopTypeOK
<1> QED BY <1>2, <1>3 DEF Situation, IsSituation

\* The loop goes round again for an attempt that has a round to run in.
LEMMA AgainStep ==
    ASSUME LoopInv, at \in {"stream", "classify", "finalize", "authorize"},
           NEW l \in RuntimeLoopState, Again(l), l.index = loop.index, l.index + 1 < l.limit,
           l.gate = "none", l.final = loop.final, l.declined = loop.declined,
           l.attempt.tools = loop.attempt.tools, l.attempt.allowed = loop.attempt.allowed,
           l.attempt.choice = "required" => loop.attempt.choice = "required",
           l.pending => at = "stream", l.replan => HasHook,
           Kept(ledger, ledger'), Accounted(l, ledger', seen'.finals),
           IsSeen(seen'), ~seen'.shown, seen'.dirty = seen.dirty, seen'.refused = seen.refused,
           seen'.finals = seen.finals, step' = step
    PROVE  LoopInv'
<1>1. loop' = [l EXCEPT !.index = @ + 1] /\ ans' = NoAnswer /\ Goto("head")
  BY DEF Again
<1>2. l.index + 1 \in 0..AbsoluteRounds
  <2>1. l.index < AbsoluteRounds
    BY DEF LoopInv, RoundsInPhase
  <2> QED BY <2>1, LoopFields, Bounds
<1>3. /\ loop' \in RuntimeLoopState /\ loop'.index = l.index + 1 /\ loop'.limit = l.limit
      /\ loop'.final = l.final /\ loop'.progress = l.progress /\ loop'.declined = l.declined
      /\ loop'.attempt = l.attempt /\ loop'.gate = l.gate /\ loop'.replan = l.replan
      /\ loop'.pending = l.pending
  BY <1>1, <1>2 DEF RuntimeLoopState
<1>4. at' = "head" /\ profile' = profile /\ result' = result /\ "head" \in Places
  BY <1>1 DEF Goto, Places
<1>5. RoundsInPhase'
  <2>1. loop'.index \in 0..AbsoluteRounds /\ AbsoluteRounds \in Nat /\ loop'.limit \in Nat
    BY <1>2, <1>3, LoopFields, Bounds
  <2> QED BY <1>3, <1>4, <2>1 DEF LoopInv, RoundsInPhase, ToResumedCall, OutOfRange
<1>6. AttemptInPhase'
  BY <1>3, <1>4 DEF LoopInv, AttemptInPhase, ToResumedCall, HasCalls
<1>7. HistoryInPhase'
  BY <1>3, <1>4 DEF LoopInv, HistoryInPhase, ToResumedCall, HasCalls
<1>8. IsAnswer(ans')
  BY <1>1 DEF NoAnswer, IsAnswer
<1>9. Accounted(loop', ledger', seen'.finals)
  BY <1>3 DEF Accounted
<1> QED BY <1>1, <1>3, <1>4, <1>5, <1>6, <1>7, <1>8, <1>9, Before, Moves

\* What was accounted for stays so when the ledger grows.
LEMMA AccountedStays ==
    ASSUME NEW l \in RuntimeLoopState, NEW m, m.limit = l.limit, m.progress = l.progress, m.final = l.final,
           NEW led, NEW new, IsLedger(led), Kept(led, new), NEW added \in Nat, Accounted(l, led, added)
    PROVE  Accounted(m, new, added)
<1>1. /\ Used(led, "required_unsupported", RunScope) \in Nat
      /\ Used(led, "stream_interrupted", RunScope) \in Nat
      /\ Used(new, "required_unsupported", RunScope) \in Nat
      /\ Used(new, "stream_interrupted", RunScope) \in Nat
      /\ Used(led, "required_unsupported", RunScope) <= Used(new, "required_unsupported", RunScope)
      /\ Used(led, "stream_interrupted", RunScope) <= Used(new, "stream_interrupted", RunScope)
  BY UsedIsNat DEF Kept, Grows, Causes
<1>2. l.limit \in Nat /\ l.progress \in Nat
  BY LoopFields, Bounds
<1> QED BY <1>1, <1>2, Bounds DEF Accounted

\* An attempt that failed: an extra round is granted for the attempt that replaces it.
LEMMA ProviderFailsStep ==
    ASSUME LoopInv, NEW err \in {"canceled", "unsupported", "interrupted", "other"}, NEW words \in BOOLEAN,
           ProviderFails(err, words)
    PROVE  LoopInv'
<1> DEFINE showing == words /\ Releases(loop.attempt)
           sit == Situation(showing)
           res == ResolveProviderFailure(ledger, err, loop.attempt.choice, sit)
           off == err = "unsupported" /\ loop.attempt.choice = "required" /\ ~canceled
           l == [loop EXCEPT !.forced = @ /\ ~off]
           c == IF res.disposition = "fallback" THEN "auto" ELSE loop.attempt.choice
           m == [l EXCEPT !.limit = @ + 1, !.pending = TRUE, !.attempt.n = @ + 1,
                          !.attempt.choice = IF res.disposition = "fallback" THEN "auto" ELSE @]
<1>1. at = "stream" /\ step' = step /\ ledger' = res.ledger
  BY DEF ProviderFails
<1>2. showing \in BOOLEAN /\ loop \in RuntimeLoopState
  BY Before DEF Releases
<1> HIDE DEF showing
<1>3. /\ IsSituation(sit) /\ sit.visible = showing
  BY <1>2, Situated
<1>4. /\ Kept(ledger, res.ledger) /\ res.code \in RecoveryCodes
      /\ res.disposition \in {"retry", "fallback", "reject", "cancel"}
      /\ res.disposition = "retry" =>
           /\ ~showing
           /\ Used(res.ledger, "stream_interrupted", RunScope)
                  = Used(ledger, "stream_interrupted", RunScope) + 1
      /\ res.disposition = "fallback" =>
           /\ loop.attempt.choice = "required"
           /\ Used(res.ledger, "required_unsupported", RunScope)
                  = Used(ledger, "required_unsupported", RunScope) + 1
  BY <1>3, Before, ProviderFailureSound
<1>5. loop.gate = "none" /\ loop.index < loop.limit /\ ~loop.pending /\ ~seen.dirty
      /\ (loop.attempt.choice = "required" => loop.attempt.tools # {})
  BY <1>1 DEF LoopInv, AttemptInPhase, RoundsInPhase, HistoryInPhase
<1>6. res.disposition = "fallback" => ~showing
  BY <1>4, <1>5 DEF showing, Releases
<1>7. /\ l \in RuntimeLoopState /\ l.index = loop.index /\ l.limit = loop.limit
      /\ l.final = loop.final /\ l.progress = loop.progress /\ l.declined = loop.declined
      /\ l.attempt = loop.attempt /\ l.gate = loop.gate /\ l.replan = loop.replan
      /\ l.pending = loop.pending /\ l.failedCode = loop.failedCode
  BY <1>2 DEF RuntimeLoopState
<1> HIDE DEF res, off, sit
<1>8. IF res.disposition \in {"retry", "fallback"}
      THEN Again(m) /\ seen' = [seen EXCEPT !.granted = TRUE, !.shown = showing]
      ELSE /\ loop' = l /\ seen' = [seen EXCEPT !.shown = showing]
           /\ Yield(IF res.disposition = "cancel" THEN "canceled" ELSE "failed", res.code)
  BY DEF ProviderFails, res, off, sit, showing
<1>9. CASE res.disposition \in {"retry", "fallback"}
  <2>1. l.limit + 1 \in Nat \ {0} /\ l.attempt.n + 1 \in Nat /\ c \in {"none", "auto", "required"}
    BY <1>2, <1>7, LoopFields
  <2>2. /\ m \in RuntimeLoopState /\ m.index = l.index /\ m.limit = l.limit + 1
        /\ m.final = l.final /\ m.progress = l.progress /\ m.declined = l.declined
        /\ m.attempt.tools = l.attempt.tools /\ m.attempt.allowed = l.attempt.allowed
        /\ m.attempt.choice = c /\ m.gate = l.gate /\ m.replan = l.replan
    <3>1. PICK k \in RuntimeLoopState : k = l
      BY <1>7
    <3>2. k.attempt \in [tools : SUBSET ToolNames, choice : {"none", "auto", "required"},
                         allowed : SUBSET ToolNames, future : SUBSET ToolNames, require : BOOLEAN,
                         buffer : BOOLEAN, n : Nat]
      BY DEF RuntimeLoopState
    <3>3. PICK a : a = [k.attempt EXCEPT !.n = k.attempt.n + 1, !.choice = c]
      OBVIOUS
    <3>4. /\ a \in [tools : SUBSET ToolNames, choice : {"none", "auto", "required"},
                    allowed : SUBSET ToolNames, future : SUBSET ToolNames, require : BOOLEAN,
                    buffer : BOOLEAN, n : Nat]
          /\ a.tools = k.attempt.tools /\ a.allowed = k.attempt.allowed /\ a.choice = c
      BY <2>1, <3>1, <3>2, <3>3
    <3>5. m = [k EXCEPT !.limit = k.limit + 1, !.pending = TRUE, !.attempt = a]
      <4>1. k.attempt = loop.attempt
        BY <1>7, <3>1
      <4>2. m = [k EXCEPT !.limit = @ + 1, !.pending = TRUE, !.attempt.n = @ + 1, !.attempt.choice = c]
        BY <3>1, <4>1 DEF RuntimeLoopState
      <4> HIDE DEF m, l, c
      <4> QED BY <3>2, <3>3, <4>2 DEF RuntimeLoopState
    <3> HIDE DEF m, l, c
    <3> QED BY <2>1, <3>1, <3>4, <3>5 DEF RuntimeLoopState
  <2> HIDE DEF m, l, c
  <2>3. Accounted(m, ledger', seen'.finals)
    <3>1. /\ Used(ledger, "required_unsupported", RunScope) \in Nat
          /\ Used(ledger, "stream_interrupted", RunScope) \in Nat
          /\ Used(ledger', "required_unsupported", RunScope) \in Nat
          /\ Used(ledger', "stream_interrupted", RunScope) \in Nat
          /\ Used(ledger, "required_unsupported", RunScope) <= Used(ledger', "required_unsupported", RunScope)
          /\ Used(ledger, "stream_interrupted", RunScope) <= Used(ledger', "stream_interrupted", RunScope)
      BY <1>1, <1>4, Before, UsedIsNat DEF Kept, Grows, Causes
    <3>2. loop.limit \in Nat /\ loop.progress \in Nat
      BY <1>2, LoopFields, Bounds
    <3>6. seen.finals \in Nat /\ seen'.finals = seen.finals
      BY <1>8, <1>9, Before DEF IsSeen
    <3>3. Accounted(loop, ledger, seen.finals)
      BY Before
    <3>4. m.limit = loop.limit + 1 /\ m.progress = loop.progress /\ m.final = loop.final
      BY <1>7, <2>2
    <3>5. \/ Used(ledger', "stream_interrupted", RunScope) = Used(ledger, "stream_interrupted", RunScope) + 1
          \/ Used(ledger', "required_unsupported", RunScope)
                 = Used(ledger, "required_unsupported", RunScope) + 1
      BY <1>1, <1>4, <1>9
    <3> QED BY <3>1, <3>2, <3>3, <3>4, <3>5, <3>6, Bounds DEF Accounted
  <2>4. m.index + 1 < m.limit
    BY <1>2, <1>5, <1>7, <2>2, LoopFields, Bounds
  <2>5. IsSeen(seen') /\ ~seen'.shown /\ seen'.dirty = seen.dirty /\ seen'.refused = seen.refused
        /\ seen'.finals = seen.finals
    BY <1>2, <1>4, <1>6, <1>8, <1>9, Before DEF IsSeen
  <2>6. m.replan => HasHook
    BY <1>7, <2>2, Before
  <2>7. Again(m)
    BY <1>8, <1>9
  <2>8. m.attempt.choice = "required" => loop.attempt.choice = "required"
    BY <2>2 DEF c
  <2>9. Kept(ledger, ledger')
    BY <1>1, <1>4
  <2> QED BY <1>1, <1>5, <1>7, <2>2, <2>3, <2>4, <2>5, <2>6, <2>7, <2>8, <2>9, AgainStep
<1>10. CASE res.disposition \notin {"retry", "fallback"}
  <2>1. /\ loop' = l /\ seen' = [seen EXCEPT !.shown = showing]
        /\ Yield(IF res.disposition = "cancel" THEN "canceled" ELSE "failed", res.code)
    BY <1>8, <1>10
  <2>2. IsSeen(seen') /\ seen'.refused = seen.refused /\ seen'.finals = seen.finals
    BY <1>2, <2>1, Before DEF IsSeen
  <2>3. res.code # "max_model_rounds"
    BY <1>4 DEF RecoveryCodes
  <2> HIDE DEF l, m, c
  <2>4. Accounted(l, ledger', seen'.finals)
    BY <1>1, <1>2, <1>4, <1>7, <2>2, Before, AccountedStays
  <2>5. (IF res.disposition = "cancel" THEN "canceled" ELSE "failed") \in {"failed", "canceled"}
    OBVIOUS
  <2> QED BY <1>1, <1>4, <1>7, <2>1, <2>2, <2>3, <2>4, <2>5, Before, Yields
<1> QED BY <1>9, <1>10

\* The answer of a stream that finished.
LEMMA StreamEndsStep ==
    ASSUME LoopInv, NEW a \in Answers, StreamEnds(a)
    PROVE  LoopInv'
<1> DEFINE showing == a.text # "none" /\ Releases(loop.attempt)
<1>1. /\ at = "stream" /\ ans' = a /\ loop' = [loop EXCEPT !.released = showing]
      /\ seen' = [seen EXCEPT !.shown = showing, !.granted = FALSE] /\ Goto("classify")
      /\ ledger' = ledger /\ step' = step
  BY DEF StreamEnds
<1>2. showing \in BOOLEAN /\ loop \in RuntimeLoopState
  BY Before
<1> HIDE DEF showing
<1>3. /\ loop' \in RuntimeLoopState /\ loop'.index = loop.index /\ loop'.limit = loop.limit
      /\ loop'.final = loop.final /\ loop'.progress = loop.progress /\ loop'.declined = loop.declined
      /\ loop'.attempt = loop.attempt /\ loop'.gate = loop.gate /\ loop'.replan = loop.replan
      /\ loop'.released = showing /\ loop'.pending = loop.pending
  BY <1>1, <1>2 DEF RuntimeLoopState
<1>4. IsSeen(seen') /\ seen'.shown = showing /\ seen'.refused = seen.refused /\ seen'.dirty = seen.dirty
      /\ seen'.finals = seen.finals
  BY <1>1, <1>2, Before DEF IsSeen
<1>5. at' = "classify" /\ profile' = profile /\ result' = result /\ "classify" \in Places
  BY <1>1 DEF Goto, Places
<1>6. IsAnswer(a)
  <2>1. \A x \in CallSets : x \subseteq ToolNames
    BY DEF CallSets, ToolNames
  <2> QED BY <2>1 DEF Answers, IsAnswer
<1>7. RoundsInPhase'
  BY <1>1, <1>3, <1>4, <1>5 DEF LoopInv, RoundsInPhase, ToResumedCall, OutOfRange
<1>8. AttemptInPhase'
  BY <1>1, <1>3, <1>5 DEF LoopInv, AttemptInPhase, ToResumedCall, HasCalls
<1>9. HistoryInPhase'
  BY <1>1, <1>3, <1>4, <1>5 DEF LoopInv, HistoryInPhase, ToResumedCall, HasCalls
<1>10. Accounted(loop', ledger', seen'.finals)
  BY <1>1, <1>3, Before DEF Accounted
<1> QED BY <1>1, <1>3, <1>4, <1>5, <1>6, <1>7, <1>8, <1>9, <1>10, Before, Moves

\* What a plan that is asked for changes of the state.
LEMMA ReplanningFields ==
    ASSUME NEW l \in RuntimeLoopState, NEW code \in RecoveryCodes
    PROVE  LET m == Replanning(l, code) IN
           /\ m \in RuntimeLoopState /\ m.index = l.index /\ m.limit = l.limit
           /\ m.final = l.final /\ m.progress = l.progress /\ m.declined = l.declined
           /\ m.attempt = l.attempt /\ m.gate = l.gate /\ m.pending = l.pending
BY DEF Replanning, RuntimeLoopState

\* A retry or a new plan that a resolver granted after an answer: the round it needs is
\* left, and nothing of the answer was shown.
LEMMA GrantedStep ==
    ASSUME LoopInv, at \in {"classify", "finalize", "authorize"},
           NEW l \in RuntimeLoopState, Again(l), Granted, step' = step,
           l.index = loop.index, l.limit = loop.limit, l.final = loop.final, l.progress = loop.progress,
           l.declined = loop.declined, l.attempt = loop.attempt, l.gate = loop.gate,
           l.pending = loop.pending, l.replan => HasHook,
           NEW res, Sound(ledger, res, Situation(loop.released)), ledger' = res.ledger,
           res.disposition \in {"retry", "replan"}
    PROVE  LoopInv'
<1>1. loop \in RuntimeLoopState /\ loop.released \in BOOLEAN
  BY Before, LoopFields
<1>2. loop.gate = "none" /\ ~loop.pending /\ seen.shown = loop.released
  BY DEF LoopInv, AttemptInPhase, HistoryInPhase
<1>3. Kept(ledger, ledger') /\ ~loop.released /\ loop.index + 1 < loop.limit
  BY <1>1, Situated DEF Sound
<1>4. /\ IsSeen(seen') /\ seen'.shown = seen.shown /\ seen'.dirty = seen.dirty
      /\ seen'.refused = seen.refused /\ seen'.finals = seen.finals
  BY Before DEF Granted, IsSeen
<1>5. Accounted(l, ledger', seen'.finals)
  BY <1>1, <1>3, <1>4, Before, AccountedStays
<1> QED BY <1>2, <1>3, <1>4, <1>5, AgainStep

\* What every step after an answer knows of its place.
LEMMA Answered ==
    ASSUME LoopInv
    PROVE  /\ loop.released \in BOOLEAN /\ loop.declined \in BOOLEAN /\ loop.repair \in BOOLEAN
           /\ loop.attempt.require \in BOOLEAN /\ loop.open \in BOOLEAN /\ HasHook \in BOOLEAN
           /\ ans.text \in {"none", "prose", "markup"} /\ (ans.fault = "malformed") \in BOOLEAN
           /\ IsSituation(Situation(loop.released))
<1>1. loop \in RuntimeLoopState /\ IsAnswer(ans)
  BY Before
<1>2. loop.released \in BOOLEAN
  BY <1>1, LoopFields
<1>3. IsSituation(Situation(loop.released))
  BY <1>2, Situated
<1> QED BY <1>1, <1>2, <1>3, LoopFields DEF IsAnswer, HasHook

\* _classify_model_output.
LEMMA ClassifyStep ==
    ASSUME LoopInv, Classify
    PROVE  LoopInv'
<1> DEFINE sit == Situation(loop.released)
           res == ResolveToolProtocol(ledger, ans.calls, ans.fault = "malformed", loop.attempt.require,
                                      HasHook, loop.declined, loop.repair, sit)
<1>1. at = "classify" /\ step' = step
  BY DEF Classify
<1>2. /\ Sound(ledger, res, sit) /\ res.disposition \in {"retry", "replan", "reject", "pass"}
      /\ res.disposition = "replan" => HasHook
      /\ res.disposition = "pass" => (ans.calls # {} => ~loop.declined)
  <2>1. PICK odd \in BOOLEAN : odd = (ans.fault = "malformed")
    OBVIOUS
  <2>2. res = ResolveToolProtocol(ledger, ans.calls, odd, loop.attempt.require, HasHook, loop.declined,
                                  loop.repair, sit)
    BY <2>1, Zenon
  <2> HIDE DEF res
  <2>3. IsLedger(ledger) /\ WithinLimits(ledger)
    BY Before
  <2>4. /\ loop.declined \in BOOLEAN /\ loop.repair \in BOOLEAN /\ loop.attempt.require \in BOOLEAN
        /\ HasHook \in BOOLEAN /\ IsSituation(sit)
    BY Answered
  <2>5. PICK calls, need, plans, no, fixes, s :
           /\ calls = ans.calls /\ need = loop.attempt.require /\ plans = HasHook
           /\ no = loop.declined /\ fixes = loop.repair /\ s = sit
    OBVIOUS
  <2>6. /\ need \in BOOLEAN /\ plans \in BOOLEAN /\ no \in BOOLEAN /\ fixes \in BOOLEAN
        /\ IsSituation(s) /\ res = ResolveToolProtocol(ledger, calls, odd, need, plans, no, fixes, s)
    BY <2>2, <2>4, <2>5, Zenon
  <2> HIDE DEF sit
  <2>7. /\ Sound(ledger, res, s) /\ res.disposition \in {"retry", "replan", "reject", "pass"}
        /\ res.disposition = "replan" => plans
        /\ res.disposition = "pass" => (calls # {} => ~no)
    BY <2>3, <2>6, ProtocolSound
  <2> QED BY <2>5, <2>7
<1> HIDE DEF res
<1>3. /\ loop \in RuntimeLoopState /\ Kept(ledger, res.ledger) /\ res.code \in RecoveryCodes
      /\ res.code # "max_model_rounds"
  BY <1>2, Before DEF Sound, RecoveryCodes
<1>4. CASE ans.fault = "truncated"
  <2>1. Yield("failed", "model_output_truncated") /\ loop' = loop /\ ledger' = ledger /\ seen' = seen
    BY <1>4 DEF Classify
  <2> QED BY <1>1, <2>1, Before, Yields
<1>5. CASE ans.fault # "truncated" /\ res.disposition = "retry"
  <2>1. ledger' = res.ledger /\ Again(loop) /\ Granted
    BY <1>5 DEF Classify, res
  <2> QED BY <1>1, <1>2, <1>5, <2>1, Before, GrantedStep
<1>6. CASE ans.fault # "truncated" /\ res.disposition = "replan"
  <2>1. ledger' = res.ledger /\ Again(Replanning(loop, res.code)) /\ Granted
    BY <1>6 DEF Classify, res
  <2> QED BY <1>1, <1>2, <1>3, <1>6, <2>1, ReplanningFields, GrantedStep
<1>7. CASE ans.fault # "truncated" /\ res.disposition = "reject"
  <2>1. ledger' = res.ledger /\ Yield("failed", res.code) /\ loop' = loop /\ seen' = seen
    BY <1>7 DEF Classify, res
  <2>2. Accounted(loop, ledger', seen'.finals)
    BY <1>3, <2>1, Before, AccountedStays
  <2> QED BY <1>1, <1>3, <2>1, <2>2, Before, Yields
<1>8. CASE ans.fault # "truncated" /\ res.disposition = "pass"
  <2> DEFINE where == IF ans.calls = {} THEN "finalize" ELSE "activate"
  <2>1. /\ ledger' = res.ledger /\ Goto(where) /\ loop' = loop /\ seen' = seen /\ ans' = ans
    BY <1>8 DEF Classify, res
  <2>2. Accounted(loop, ledger', seen'.finals)
    BY <1>3, <2>1, Before, AccountedStays
  <2>3. /\ where \in Places /\ where \in {"finalize", "activate"}
        /\ where = "finalize" <=> ans.calls = {}
    BY DEF Places
  <2> HIDE DEF where
  <2>4. at' = where /\ profile' = profile /\ result' = result
    BY <2>1 DEF Goto
  <2>5. RoundsInPhase'
    BY <1>1, <2>1, <2>3, <2>4 DEF LoopInv, RoundsInPhase, ToResumedCall, OutOfRange
  <2>6. AttemptInPhase'
    BY <1>1, <2>1, <2>3, <2>4 DEF LoopInv, AttemptInPhase, ToResumedCall, HasCalls
  <2>7. HistoryInPhase'
    BY <1>1, <1>2, <1>8, <2>1, <2>3, <2>4 DEF LoopInv, HistoryInPhase, ToResumedCall, HasCalls
  <2> QED BY <1>1, <1>3, <2>1, <2>2, <2>3, <2>5, <2>6, <2>7, Before, Moves
<1> QED BY <1>2, <1>4, <1>5, <1>6, <1>7, <1>8

\* _finalize_model_response.
LEMMA FinalizeStep ==
    ASSUME LoopInv, NEW verdict \in Verdicts, Finalize(verdict)
    PROVE  LoopInv'
<1> DEFINE sit == Situation(loop.released)
           res == ResolveResponseRecovery(ledger, ans.text, loop.declined, loop.failedCode, sit)
           fix == ResolveConstraintRecovery(ledger, verdict, sit)
           checked == res.disposition = "pass" /\ ~loop.declined
<1>1. at = "finalize" /\ step' = step
  BY DEF Finalize
<1>2. /\ Sound(ledger, res, sit) /\ res.disposition \in {"retry", "reject", "pass"}
      /\ res.disposition = "pass" /\ ~loop.declined =>
           ans.text # "none" /\ (ans.text = "markup" => loop.failedCode = "none")
  BY Answered, Before, ResponseSound
<1>3. Sound(ledger, fix, sit) /\ fix.disposition \in {"retry", "reject"}
  BY Answered, Before, ConstraintSound
<1>4. \/ /\ res.disposition = "retry" /\ ledger' = res.ledger /\ Again(loop) /\ Granted
      \/ /\ res.disposition = "reject" /\ Yield("failed", res.code)
         /\ loop' = loop /\ ledger' = ledger /\ seen' = seen
      \/ /\ checked /\ verdict = "error" /\ Yield("failed", "response_validator_error")
         /\ loop' = loop /\ ledger' = ledger /\ seen' = seen
      \/ /\ checked /\ verdict \in {"rule", "judge"} /\ ledger' = fix.ledger
         /\ \/ fix.disposition = "retry" /\ Granted /\ Again([loop EXCEPT !.repair = TRUE])
            \/ fix.disposition = "reject" /\ Yield("failed", fix.code) /\ loop' = loop /\ seen' = seen
      \/ /\ res.disposition = "pass" /\ (loop.declined \/ verdict = "ok")
         /\ Yield("completed", IF checked THEN verdict ELSE "declined")
         /\ loop' = loop /\ ledger' = ledger /\ seen' = seen
  BY DEF Finalize
<1> HIDE DEF res, fix
<1>5. /\ loop \in RuntimeLoopState /\ res.code # "max_model_rounds" /\ fix.code # "max_model_rounds"
      /\ Kept(ledger, fix.ledger)
  BY <1>2, <1>3, Before DEF Sound, RecoveryCodes
<1>6. CASE res.disposition = "retry" /\ ledger' = res.ledger /\ Again(loop) /\ Granted
  BY <1>1, <1>2, <1>6, Before, GrantedStep
<1>7. CASE /\ Yield("failed", res.code) /\ loop' = loop /\ ledger' = ledger /\ seen' = seen
  BY <1>1, <1>5, <1>7, Before, Yields
<1>8. CASE /\ Yield("failed", "response_validator_error") /\ loop' = loop /\ ledger' = ledger /\ seen' = seen
  BY <1>1, <1>8, Before, Yields
<1>9. CASE fix.disposition = "retry" /\ ledger' = fix.ledger /\ Granted /\ Again([loop EXCEPT !.repair = TRUE])
  <2>1. PICK m : m = [loop EXCEPT !.repair = TRUE]
    OBVIOUS
  <2>2. /\ m \in RuntimeLoopState /\ m.index = loop.index /\ m.limit = loop.limit
        /\ m.final = loop.final /\ m.progress = loop.progress /\ m.declined = loop.declined
        /\ m.attempt = loop.attempt /\ m.gate = loop.gate /\ m.pending = loop.pending
        /\ m.replan = loop.replan
    BY <1>5, <2>1 DEF RuntimeLoopState
  <2>3. Again(m)
    BY <1>9, <2>1
  <2> QED BY <1>1, <1>3, <1>9, <2>2, <2>3, Before, GrantedStep
<1>10. CASE ledger' = fix.ledger /\ Yield("failed", fix.code) /\ loop' = loop /\ seen' = seen
  <2>1. Accounted(loop, ledger', seen'.finals)
    BY <1>5, <1>10, Before, AccountedStays
  <2> QED BY <1>1, <1>5, <1>10, <2>1, Before, Yields
<1>11. CASE /\ res.disposition = "pass" /\ (loop.declined \/ verdict = "ok")
            /\ Yield("completed", IF checked THEN verdict ELSE "declined")
            /\ loop' = loop /\ ledger' = ledger /\ seen' = seen
  <2>1. PICK code : code = IF checked THEN verdict ELSE "declined"
    OBVIOUS
  <2>2. code \in {"ok", "declined"} /\ (~loop.declined => code = "ok")
    BY <1>11, <2>1
  <2>3. ans.calls = {}
    BY <1>1 DEF LoopInv, AttemptInPhase
  <2>4. Yield("completed", code)
    BY <1>11, <2>1
  <2> QED BY <1>1, <1>2, <1>11, <2>2, <2>3, <2>4, Before, Yields
<1> QED BY <1>4, <1>6, <1>7, <1>8, <1>9, <1>10, <1>11

\* _resolve_planning_activation.
LEMMA ActivateStep ==
    ASSUME LoopInv, Activate
    PROVE  LoopInv'
<1> DEFINE what == PlanningActivation(ans.calls, loop.open)
<1>1. at = "activate" /\ loop' = loop /\ ledger' = ledger /\ step' = step /\ seen' = seen
  BY DEF Activate
<1>2. what \in {"none", "plan", "planning_required", "invalid_planning_control_call"}
  BY DEF PlanningActivation
<1>3. \/ what = "none" /\ Goto("authorize") /\ ans' = ans
      \/ what = "plan" /\ Yield("planning", "none")
      \/ what \notin {"none", "plan"} /\ Yield("failed", what)
  BY DEF Activate
<1> HIDE DEF what
<1>4. CASE Goto("authorize") /\ ans' = ans
  <2>1. at' = "authorize" /\ profile' = profile /\ result' = result /\ "authorize" \in Places
    BY <1>4 DEF Goto, Places
  <2>2. RoundsInPhase'
    BY <1>1, <2>1 DEF LoopInv, RoundsInPhase, ToResumedCall, OutOfRange
  <2>3. AttemptInPhase'
    BY <1>1, <1>4, <2>1 DEF LoopInv, AttemptInPhase, ToResumedCall, HasCalls
  <2>4. HistoryInPhase'
    BY <1>1, <2>1 DEF LoopInv, HistoryInPhase, ToResumedCall, HasCalls
  <2> QED BY <1>1, <1>4, <2>1, <2>2, <2>3, <2>4, Before, Moves
<1>5. CASE Yield("planning", "none")
  BY <1>1, <1>5, Before, Yields
<1>6. CASE what \notin {"none", "plan"} /\ Yield("failed", what)
  <2>1. what # "max_model_rounds"
    BY <1>2
  <2> QED BY <1>1, <1>6, <2>1, Before, Yields
<1> QED BY <1>3, <1>4, <1>5, <1>6

\* _authorize_tool_batch: a batch in the last round gets a round to answer in, which is
\* counted.
LEMMA AuthorizeStep ==
    ASSUME LoopInv, Authorize
    PROVE  LoopInv'
<1> DEFINE sit == Situation(loop.released)
           res == ResolveToolAuthorization(ledger, ans.calls, loop.attempt.allowed, loop.attempt.future,
                                           AuthScope, loop.attempt.require, HasHook, sit)
           last == profile.enforce /\ loop.index >= loop.limit - 1
<1>1. at = "authorize" /\ step' = step /\ ledger' = res.ledger
  BY DEF Authorize
<1>2. /\ Sound(ledger, res, sit) /\ res.disposition \in {"retry", "replan", "reject", "execute"}
      /\ res.disposition = "replan" => HasHook
      /\ res.disposition = "execute" => ans.calls \subseteq loop.attempt.allowed
  BY Answered, Before, AuthorizationSound
<1>3. \/ res.disposition = "retry" /\ Again(loop) /\ Granted
      \/ res.disposition = "replan" /\ Granted /\ Again(Replanning(loop, res.code))
      \/ res.disposition = "reject" /\ Yield("failed", res.code) /\ loop' = loop /\ seen' = seen
      \/ /\ res.disposition = "execute"
         /\ IF last THEN /\ loop' = [loop EXCEPT !.limit = @ + 1, !.final = TRUE]
                         /\ seen' = [seen EXCEPT !.finals = @ + 1]
            ELSE loop' = loop /\ seen' = seen
         /\ Goto(IF ans.calls \cap profile.gated # {} THEN "gate" ELSE "execute")
         /\ ans' = ans
  BY DEF Authorize
<1> HIDE DEF res
<1>4. /\ loop \in RuntimeLoopState /\ Kept(ledger, res.ledger) /\ res.code \in RecoveryCodes
      /\ res.code # "max_model_rounds"
  BY <1>2, Before DEF Sound, RecoveryCodes
<1>5. CASE res.disposition = "retry" /\ Again(loop) /\ Granted
  BY <1>1, <1>2, <1>5, Before, GrantedStep
<1>6. CASE res.disposition = "replan" /\ Granted /\ Again(Replanning(loop, res.code))
  BY <1>1, <1>2, <1>4, <1>6, ReplanningFields, GrantedStep
<1>7. CASE Yield("failed", res.code) /\ loop' = loop /\ seen' = seen
  <2>1. Accounted(loop, ledger', seen'.finals)
    BY <1>1, <1>4, <1>7, Before, AccountedStays
  <2> QED BY <1>1, <1>4, <1>7, <2>1, Before, Yields
<1>8. CASE /\ res.disposition = "execute"
           /\ IF last THEN /\ loop' = [loop EXCEPT !.limit = @ + 1, !.final = TRUE]
                           /\ seen' = [seen EXCEPT !.finals = @ + 1]
              ELSE loop' = loop /\ seen' = seen
           /\ Goto(IF ans.calls \cap profile.gated # {} THEN "gate" ELSE "execute")
           /\ ans' = ans
  <2>1. PICK where : where = IF ans.calls \cap profile.gated # {} THEN "gate" ELSE "execute"
    OBVIOUS
  <2>2. where \in {"gate", "execute"} /\ where \in Places /\ Goto(where)
    BY <1>8, <2>1 DEF Places
  <2>3. at' = where /\ profile' = profile /\ result' = result
    BY <2>2 DEF Goto
  <2>4. /\ IsSeen(seen') /\ seen'.finals = (IF last THEN seen.finals + 1 ELSE seen.finals)
        /\ seen.finals \in Nat /\ seen'.shown = seen.shown /\ seen'.dirty = seen.dirty
        /\ seen'.refused = seen.refused
    BY <1>8, Before DEF IsSeen
  <2>5. /\ loop.index \in Nat /\ loop.limit \in Nat /\ loop.progress \in Nat /\ loop.index < loop.limit
        /\ profile.enforce \in BOOLEAN /\ loop.index < AbsoluteRounds
        /\ (loop.final <=> seen.finals > 0) /\ (loop.final => profile.enforce)
    BY <1>1, <1>4, Before, LoopFields, Bounds DEF LoopInv, RoundsInPhase
  <2>6. /\ loop' \in RuntimeLoopState /\ loop'.index = loop.index
        /\ loop'.limit = (IF last THEN loop.limit + 1 ELSE loop.limit)
        /\ (loop'.final <=> last \/ loop.final) /\ loop'.progress = loop.progress /\ loop'.declined = loop.declined
        /\ loop'.attempt = loop.attempt /\ loop'.gate = loop.gate /\ loop'.replan = loop.replan
        /\ loop'.pending = loop.pending /\ loop'.released = loop.released
    <3>1. CASE last
      <4>1. loop' = [loop EXCEPT !.limit = loop.limit + 1, !.final = TRUE]
        BY <1>8, <3>1
      <4>2. loop.limit + 1 \in Nat \ {0}
        BY <2>5
      <4>3. /\ loop' \in RuntimeLoopState /\ loop'.index = loop.index /\ loop'.limit = loop.limit + 1
            /\ loop'.final = TRUE /\ loop'.progress = loop.progress /\ loop'.declined = loop.declined
            /\ loop'.attempt = loop.attempt /\ loop'.gate = loop.gate /\ loop'.replan = loop.replan
            /\ loop'.pending = loop.pending /\ loop'.released = loop.released
        BY <1>4, <4>1, <4>2 DEF RuntimeLoopState
      <4> QED BY <3>1, <4>3
    <3>2. CASE ~last
      <4>1. loop' = loop
        BY <1>8, <3>2
      <4> QED BY <1>4, <3>2, <4>1, LoopFields
    <3> QED BY <3>1, <3>2
  <2>7. Accounted(loop', ledger', seen'.finals)
    <3>1. Accounted(loop, ledger', seen.finals)
      BY <1>1, <1>4, Before, AccountedStays
    <3>2. /\ Used(ledger', "required_unsupported", RunScope) \in Nat
          /\ Used(ledger', "stream_interrupted", RunScope) \in Nat
      BY <1>1, <1>4, UsedIsNat DEF Kept
    <3> HIDE DEF last
    <3> QED BY <2>4, <2>5, <2>6, <3>1, <3>2, Bounds DEF Accounted
  <2>8. RoundsInPhase'
    <3>1. result'.code # "max_model_rounds" /\ at' # "head" /\ at' \notin {"checkpoint", "done", "down"}
      BY <1>1, <2>2, <2>3, Unrun
    <3>2. loop'.index < loop'.limit /\ (profile.enforce => loop'.index + 1 < loop'.limit)
      BY <2>5, <2>6
    <3>3. (loop'.final <=> seen'.finals > 0) /\ (loop'.final => profile.enforce)
      BY <2>4, <2>5, <2>6
    <3>4. loop'.index <= loop'.limit /\ loop'.index <= AbsoluteRounds /\ loop'.index < AbsoluteRounds
      BY <2>5, <2>6, Bounds
    <3> QED BY <2>3, <3>1, <3>2, <3>3, <3>4 DEF RoundsInPhase, ToResumedCall
  <2> HIDE DEF last
  <2>9. AttemptInPhase'
    BY <1>1, <1>8, <2>2, <2>3, <2>6 DEF LoopInv, AttemptInPhase, ToResumedCall, HasCalls
  <2>10. HistoryInPhase'
    BY <1>1, <1>8, <2>2, <2>3, <2>4, <2>6 DEF LoopInv, HistoryInPhase, ToResumedCall, HasCalls
  <2> QED BY <1>1, <1>4, <1>8, <2>2, <2>4, <2>6, <2>7, <2>8, <2>9, <2>10, Before, Moves
<1> QED BY <1>3, <1>5, <1>6, <1>7, <1>8

\* A step inside run() that may replace the checkpoint, the signal or the process.
LEMMA Runs ==
    ASSUME LoopInv, at # "done", at' \in Places \cup {"down"}, profile' = profile, result' = result,
           canceled' \in BOOLEAN, loop' \in RuntimeLoopState, loop'.replan => HasHook,
           Accounted(loop', ledger', seen'.finals), IsLedger(ledger'), WithinLimits(ledger'), IsAnswer(ans'),
           IsSeen(seen'), step' \in 1..(Len(Plan) + 1),
           ck' = NoCheckpoint \/ (IsAgentExecutionCheckpoint(ck') /\ WithinLimits(ck'.ledger)),
           CheckpointSound', RoundsInPhase', AttemptInPhase', HistoryInPhase'
    PROVE  LoopInv'
<1>1. HasHook' = HasHook
  BY DEF HasHook
<1>2. at' # "done" /\ result' = Pending /\ result'.outcome = "pending" /\ result'.code = "none"
  BY Unrun DEF Places
<1>3. LoopTypeOK'
  BY <1>1, <1>2 DEF LoopInv, LoopTypeOK, IsLedger, IsAnswer, IsSeen, Places
<1>4. GrantedRetryRuns' /\ CompletedChecked'
  BY <1>2 DEF GrantedRetryRuns, CompletedChecked
<1>5. LimitAccounted' /\ LedgerFits'
  BY DEF LimitAccounted, LedgerFits
<1> QED BY <1>3, <1>4, <1>5 DEF LoopInv

\* The last checkpoint while it is not replaced.
LEMMA KeepsCheckpoint ==
    ASSUME LoopInv, ck' = ck, profile' = profile
    PROVE  /\ ck' = NoCheckpoint \/ (IsAgentExecutionCheckpoint(ck') /\ WithinLimits(ck'.ledger))
           /\ CheckpointSound'
BY DEF LoopInv, LoopTypeOK, LedgerFits, CheckpointSound, HasHook

\* What _build_execution_checkpoint keeps.
LEMMA CheckpointedFields ==
    ASSUME NEW l \in RuntimeLoopState
    PROVE  LET m == Checkpointed(l) IN
           /\ m \in RuntimeLoopState /\ Checkpointed(m) = m /\ m.attempt = NoAttempt
           /\ m.index = l.index /\ m.limit = l.limit /\ m.final = l.final /\ m.progress = l.progress
           /\ m.declined = l.declined /\ m.replan = l.replan /\ ~m.pending
<1>1. NoAttempt \in [tools : SUBSET ToolNames, choice : {"none", "auto", "required"},
                     allowed : SUBSET ToolNames, future : SUBSET ToolNames, require : BOOLEAN,
                     buffer : BOOLEAN, n : Nat]
  BY DEF NoAttempt
<1>2. PICK m : m = [l EXCEPT !.attempt = NoAttempt, !.pending = FALSE, !.released = FALSE, !.gate = "none"]
  OBVIOUS
<1>3. /\ m \in RuntimeLoopState /\ m.attempt = NoAttempt /\ ~m.pending
      /\ m.index = l.index /\ m.limit = l.limit /\ m.final = l.final /\ m.progress = l.progress
      /\ m.declined = l.declined /\ m.replan = l.replan
  BY <1>1, <1>2 DEF RuntimeLoopState
<1>4. [m EXCEPT !.attempt = NoAttempt, !.pending = FALSE, !.released = FALSE, !.gate = "none"] = m
  BY <1>2 DEF RuntimeLoopState
<1> QED BY <1>2, <1>3, <1>4 DEF Checkpointed

\* A checkpoint that is written: the next round is in the range of run(), and what
\* is resumed from it satisfies what the loop relies on.
LEMMA Commits ==
    ASSUME LoopInv, profile' = profile,
           seen.granted \/ profile.enforce => loop.index < loop.limit,
           NEW calls, calls \subseteq ToolNames, NEW sort \in {"model", "tool"},
           calls # {} <=> sort = "tool",
           sort = "tool" => loop.index + 1 < loop.limit /\ ~loop.declined,
           ck' = [kind |-> sort, round |-> loop.index + 1, loop |-> Checkpointed(loop), ledger |-> ledger,
                  calls |-> calls, refused |-> seen.refused, granted |-> seen.granted,
                  finals |-> seen.finals]
    PROVE  /\ IsAgentExecutionCheckpoint(ck') /\ WithinLimits(ck'.ledger)
           /\ CheckpointSound'
<1>0. loop \in RuntimeLoopState /\ AbsoluteRounds \in Nat
  BY Before, Bounds
<1>1. /\ loop \in RuntimeLoopState /\ loop.index \in 0..AbsoluteRounds /\ loop.limit \in Nat
      /\ AbsoluteRounds \in Nat
  BY <1>0, LoopFields
<1>2. PICK m : m = Checkpointed(loop)
  OBVIOUS
<1>3. /\ m \in RuntimeLoopState /\ Checkpointed(m) = m /\ m.index = loop.index /\ m.limit = loop.limit
      /\ m.final = loop.final /\ m.progress = loop.progress /\ m.declined = loop.declined
      /\ m.replan = loop.replan
  BY <1>1, <1>2, CheckpointedFields
<1>4. /\ ck'.kind = sort /\ ck'.round = loop.index + 1 /\ ck'.loop = m /\ ck'.ledger = ledger
      /\ ck'.calls = calls /\ ck'.refused = seen.refused /\ ck'.granted = seen.granted
      /\ ck'.finals = seen.finals
  BY <1>2
<1>5. seen.refused \in BOOLEAN /\ seen.granted \in BOOLEAN /\ seen.finals \in Nat
  BY Before DEF IsSeen
<1>6. IsAgentExecutionCheckpoint(ck')
  BY <1>1, <1>3, <1>4, <1>5 DEF IsAgentExecutionCheckpoint
<1>7. Accounted(m, ledger, seen.finals)
  BY <1>3, Before DEF Accounted
<1>8. (loop.final <=> seen.finals > 0) /\ (loop.final => profile.enforce)
  BY DEF LoopInv, RoundsInPhase
<1>9. loop.index <= loop.limit
  BY DEF LoopInv, RoundsInPhase
<1>10. CheckpointSound'
  BY <1>3, <1>4, <1>7, <1>8, <1>9, Before DEF CheckpointSound, IsLedger, HasHook
<1> QED BY <1>4, <1>6, <1>10, Before

\* The tool gate commits its checkpoint before the call is let through.
LEMMA GateStep ==
    ASSUME LoopInv, Gate
    PROVE  LoopInv'
<1>1. at = "gate" /\ loop.gate = "none" /\ ledger' = ledger /\ step' = step /\ seen' = seen
  BY DEF Gate
<1>2. CASE Cardinality(ans.calls) # 1
  BY <1>1, <1>2, Before, Yields DEF Gate
<1>3. CASE Cardinality(ans.calls) = 1 /\ loop.index + 1 >= loop.limit
  BY <1>1, <1>3, Before, Yields DEF Gate
<1>4. CASE Cardinality(ans.calls) = 1 /\ ~(loop.index + 1 >= loop.limit)
  <2>1. /\ ck' = ToolReady(loop) /\ profile' = profile /\ result' = result /\ canceled' = canceled
        /\ ans' = ans
        /\ \/ at' = "execute" /\ loop' = [loop EXCEPT !.gate = "ready"]
           \/ at' = "down" /\ loop' = loop
    BY <1>4 DEF Gate
  <2>2. /\ loop \in RuntimeLoopState /\ loop.index \in Nat /\ loop.limit \in Nat /\ AbsoluteRounds \in Nat
        /\ loop.index < AbsoluteRounds
    BY <1>1, Before, LoopFields, Bounds DEF LoopInv, RoundsInPhase
  <2>3. loop.index + 1 < loop.limit /\ loop.index < loop.limit
    BY <1>4, <2>2
  <2>4. ans.calls # {} /\ ~loop.declined /\ ans.calls \subseteq ToolNames /\ canceled \in BOOLEAN
    BY <1>1, Before DEF LoopInv, LoopTypeOK, AttemptInPhase, HistoryInPhase, HasCalls, IsAnswer
  <2>5. ck' = [kind |-> "tool", round |-> loop.index + 1, loop |-> Checkpointed(loop), ledger |-> ledger,
               calls |-> ans.calls, refused |-> seen.refused, granted |-> seen.granted,
               finals |-> seen.finals]
    BY <2>1 DEF ToolReady, ModelReady
  <2>6. IsAgentExecutionCheckpoint(ck') /\ WithinLimits(ck'.ledger) /\ CheckpointSound'
    BY <2>1, <2>3, <2>4, <2>5, Commits
  <2>7. /\ loop' \in RuntimeLoopState /\ loop'.index = loop.index /\ loop'.limit = loop.limit
        /\ loop'.final = loop.final /\ loop'.progress = loop.progress /\ loop'.declined = loop.declined
        /\ loop'.attempt = loop.attempt /\ loop'.replan = loop.replan /\ loop'.pending = loop.pending
    BY <2>1, <2>2 DEF RuntimeLoopState
  <2>8. at' \in {"execute", "down"} /\ at' \in Places \cup {"down"}
    BY <2>1 DEF Places
  <2>9. RoundsInPhase'
    BY <1>1, <2>1, <2>3, <2>7, <2>8 DEF LoopInv, RoundsInPhase, ToResumedCall, OutOfRange
  <2>10. AttemptInPhase'
    BY <1>1, <2>1, <2>7, <2>8 DEF LoopInv, AttemptInPhase, ToResumedCall, HasCalls
  <2>11. HistoryInPhase'
    BY <1>1, <2>1, <2>7, <2>8 DEF LoopInv, HistoryInPhase, ToResumedCall, HasCalls
  <2>12. Accounted(loop', ledger', seen'.finals)
    BY <1>1, <2>7, Before DEF Accounted
  <2> QED BY <1>1, <2>1, <2>4, <2>6, <2>7, <2>8, <2>9, <2>10, <2>11, <2>12, Before, Runs
<1> QED BY <1>2, <1>3, <1>4

\* The pending call of a resumed Run.
LEMMA GateAgainStep ==
    ASSUME LoopInv, GateAgain
    PROVE  LoopInv'
<1>1. at = "gate" /\ loop' = loop /\ ledger' = ledger /\ step' = step /\ seen' = seen
  BY DEF GateAgain
<1>2. CASE Goto("execute") /\ ans' = ans
  <2>1. at' = "execute" /\ profile' = profile /\ result' = result /\ "execute" \in Places
    BY <1>2 DEF Goto, Places
  <2>2. RoundsInPhase'
    BY <1>1, <2>1 DEF LoopInv, RoundsInPhase, ToResumedCall, OutOfRange
  <2>3. AttemptInPhase'
    BY <1>1, <1>2, <2>1 DEF LoopInv, AttemptInPhase, ToResumedCall, HasCalls
  <2>4. HistoryInPhase'
    BY <1>1, <2>1 DEF LoopInv, HistoryInPhase, ToResumedCall, HasCalls
  <2> QED BY <1>1, <1>2, <2>1, <2>2, <2>3, <2>4, Before, Moves
<1>3. CASE Yield("failed", "approval_gate_unavailable")
  BY <1>1, <1>3, Before, Yields
<1> QED BY <1>2, <1>3 DEF GateAgain

\* extend_progress_round_budget and the hook after a batch: the limit grows by what is
\* accounted as progress.
LEMMA BatchFields ==
    ASSUME LoopInv, NEW outcome
    PROVE  LET l == AfterBatch([ExtendedByProgress(loop, outcome) EXCEPT !.retries = {}], outcome) IN
           /\ l \in RuntimeLoopState /\ l.index = loop.index /\ loop.limit <= l.limit
           /\ l.final = loop.final /\ l.declined = loop.declined /\ l.attempt = loop.attempt
           /\ l.replan = loop.replan /\ l.pending = loop.pending /\ Accounted(l, ledger, seen.finals)
<1>1. /\ loop \in RuntimeLoopState /\ loop.limit \in Nat \ {0} /\ loop.progress \in 0..MaxProgress
      /\ MaxProgress \in Nat
  BY Before, LoopFields, Bounds
<1>2. /\ Used(ledger, "required_unsupported", RunScope) \in Nat
      /\ Used(ledger, "stream_interrupted", RunScope) \in Nat
  BY Before, UsedIsNat
<1>3. PICK x : x = ExtendedByProgress(loop, outcome)
  OBVIOUS
<1>4. /\ x \in RuntimeLoopState /\ x.index = loop.index /\ loop.limit <= x.limit
      /\ x.final = loop.final /\ x.declined = loop.declined /\ x.attempt = loop.attempt
      /\ x.replan = loop.replan /\ x.pending = loop.pending /\ Accounted(x, ledger, seen.finals)
  <2>1. CASE outcome = "progressed" /\ loop.progress < MaxProgress
    <3>1. x = [loop EXCEPT !.progress = loop.progress + 1, !.limit = loop.limit + 1]
      BY <1>3, <2>1 DEF ExtendedByProgress
    <3>2. loop.progress + 1 \in 0..MaxProgress /\ loop.limit + 1 \in Nat \ {0}
      BY <1>1, <2>1
    <3>3. /\ x \in RuntimeLoopState /\ x.index = loop.index /\ x.limit = loop.limit + 1
          /\ x.progress = loop.progress + 1
          /\ x.final = loop.final /\ x.declined = loop.declined /\ x.attempt = loop.attempt
          /\ x.replan = loop.replan /\ x.pending = loop.pending
      BY <1>1, <3>1, <3>2 DEF RuntimeLoopState
    <3>4. Accounted(x, ledger, seen.finals)
      <4>1. Accounted(loop, ledger, seen.finals)
        BY Before
      <4>2. loop.progress \in Nat /\ MaxRounds \in Nat /\ seen.finals \in Nat
        BY <1>1, Before, Bounds
      <4> QED BY <1>1, <1>2, <3>3, <4>1, <4>2 DEF Accounted
    <3> QED BY <1>1, <3>3, <3>4
  <2>2. CASE ~(outcome = "progressed" /\ loop.progress < MaxProgress)
    <3>1. x = loop
      BY <1>3, <2>2 DEF ExtendedByProgress
    <3> QED BY <1>1, <3>1, Before
  <2> QED BY <2>1, <2>2
<1>5. PICK y : y = [x EXCEPT !.retries = {}]
  OBVIOUS
<1>6. /\ y \in RuntimeLoopState /\ y.index = x.index /\ y.limit = x.limit /\ y.progress = x.progress
      /\ y.final = x.final /\ y.declined = x.declined /\ y.attempt = x.attempt
      /\ y.replan = x.replan /\ y.pending = x.pending
  BY <1>4, <1>5 DEF RuntimeLoopState
<1>7. PICK z : z = AfterBatch(y, outcome)
  OBVIOUS
<1>8. /\ z \in RuntimeLoopState /\ z.index = y.index /\ z.limit = y.limit /\ z.progress = y.progress
      /\ z.final = y.final /\ z.declined = y.declined /\ z.attempt = y.attempt
      /\ z.replan = y.replan /\ z.pending = y.pending
  <2>1. CASE HasHook
    BY <1>6, <1>7, <2>1 DEF AfterBatch
  <2>2. CASE ~HasHook
    <3>1. z = [y EXCEPT !.required = FALSE]
      BY <1>7, <2>2 DEF AfterBatch
    <3> QED BY <1>6, <3>1 DEF RuntimeLoopState
  <2> QED BY <2>1, <2>2
<1>9. Accounted(z, ledger, seen.finals)
  BY <1>4, <1>6, <1>8 DEF Accounted
<1>10. AfterBatch([ExtendedByProgress(loop, outcome) EXCEPT !.retries = {}], outcome) = z
  BY <1>3, <1>5, <1>7
<1> QED BY <1>4, <1>6, <1>8, <1>9, <1>10

\* The plan's step after a batch.
LEMMA StepAfterTyped ==
    ASSUME LoopInv, NEW outcome
    PROVE  StepAfter(outcome) \in 1..(Len(Plan) + 1)
<1>1. Len(Plan) = 2
  BY DEF Plan
<1> QED BY <1>1, Before DEF StepAfter

\* _execute_tool_batch: the loop goes on only after a batch without an uncertain effect,
\* and has a round for what was granted.
LEMMA ExecuteStep ==
    ASSUME LoopInv, NEW batch \in BatchResults, Execute(batch)
    PROVE  LoopInv'
<1> DEFINE l == AfterBatch([ExtendedByProgress(loop, batch.outcome) EXCEPT !.retries = {}], batch.outcome)
           sit == [remaining |-> Remaining(l), canceled |-> canceled, visible |-> FALSE]
           res == ResolveToolRecovery(ledger, batch, HasHook, l.epoch, l.index + 1, sit)
           e == [l EXCEPT !.epoch = IF batch.outcome = "failed" THEN @ ELSE @ + 1,
                          !.gate = "none", !.open = @ /\ profile.mode # "auto"]
           f == [e EXCEPT !.index = @ + 1, !.declined = @ \/ batch.outcome = "declined"]
           g == CASE res.disposition = "retry" -> [f EXCEPT !.retries = ans.calls]
                  [] res.disposition = "replan" -> Replanning(f, res.code)
                  [] OTHER -> f
           had == [seen EXCEPT
                     !.shown = FALSE,
                     !.granted = batch.outcome = "failed" /\ res.disposition # "reject",
                     !.dirty = @ \/ (batch.outcome = "failed" /\ batch.effect # "not_started"),
                     !.refused = @ \/ batch.outcome = "declined"]
<1>1. at = "execute"
  BY DEF Execute
<1>2. CASE batch.outcome \in {"canceled", "rejected", "mismatch", "raised"}
  <2>1. /\ Yield(IF batch.outcome = "canceled" THEN "canceled" ELSE "failed", batch.outcome)
        /\ loop' = loop /\ ledger' = ledger /\ step' = step /\ seen' = seen
    BY <1>2 DEF Execute
  <2>2. PICK how \in {"canceled", "failed"} : how = IF batch.outcome = "canceled" THEN "canceled" ELSE "failed"
    OBVIOUS
  <2>3. Yield(how, batch.outcome) /\ batch.outcome # "max_model_rounds"
    BY <1>2, <2>1, <2>2
  <2> QED BY <1>1, <2>1, <2>2, <2>3, Before, Yields
<1>3. CASE batch.outcome \notin {"canceled", "rejected", "mismatch", "raised"}
  <2>1. /\ step' = StepAfter(batch.outcome) /\ ledger' = res.ledger /\ seen' = had
        /\ IF res.disposition = "reject" THEN Yield("failed", res.code) /\ loop' = loop
           ELSE loop' = g /\ ans' = NoAnswer /\ Goto("checkpoint")
    BY <1>3 DEF Execute
  <2>2. /\ l \in RuntimeLoopState /\ l.index = loop.index /\ loop.limit <= l.limit
        /\ l.final = loop.final /\ l.declined = loop.declined /\ l.attempt = loop.attempt
        /\ l.replan = loop.replan /\ l.pending = loop.pending /\ Accounted(l, ledger, seen.finals)
    BY BatchFields
  <2> HIDE DEF l
  <2>3. /\ l.index \in Nat /\ l.limit \in Nat /\ loop.limit \in Nat /\ l.epoch \in Nat
        /\ l.open \in BOOLEAN /\ l.declined \in BOOLEAN /\ loop \in RuntimeLoopState
    BY <2>2, Before, LoopFields, Bounds
  <2>4. IsSituation(sit) /\ (sit.remaining >= 1 => l.index + 1 < l.limit)
    <3>1. Remaining(l) \in Nat /\ (Remaining(l) >= 1 => l.index + 1 < l.limit)
      BY <2>3 DEF Remaining
    <3>2. canceled \in BOOLEAN
      BY DEF LoopInv, LoopTypeOK
    <3> QED BY <3>1, <3>2 DEF IsSituation
  <2>5. batch.cureable \in BOOLEAN
    BY DEF BatchResults
  <2> HIDE DEF sit
  <2>6. /\ Kept(ledger, res.ledger) /\ res.code \in RecoveryCodes
        /\ res.disposition \in {"retry", "replan", "reject", "continue"}
        /\ res.disposition = "replan" => HasHook
        /\ res.disposition \in {"reject", "retry"} => batch.outcome = "failed"
        /\ batch.outcome = "failed" /\ res.disposition # "reject" =>
             sit.remaining >= 1 /\ batch.effect = "not_started"
    BY <2>4, <2>5, Answered, Before, ToolRecoverySound
  <2> HIDE DEF res
  <2>7. step' \in 1..(Len(Plan) + 1)
    BY <2>1, StepAfterTyped
  <2>8. /\ IsSeen(had) /\ ~had.shown /\ had.finals = seen.finals
        /\ had.granted => batch.outcome = "failed" /\ res.disposition # "reject"
        /\ had.dirty => seen.dirty \/ (batch.outcome = "failed" /\ batch.effect # "not_started")
        /\ had.refused => seen.refused \/ batch.outcome = "declined"
    BY Before DEF IsSeen
  <2> HIDE DEF had
  <2>9. CASE res.disposition = "reject"
    <3>1. Accounted(loop, ledger', seen'.finals)
      BY <2>1, <2>3, <2>6, <2>8, Before, AccountedStays
    <3>2. res.code # "max_model_rounds"
      BY <2>6 DEF RecoveryCodes
    <3> QED BY <1>1, <2>1, <2>3, <2>6, <2>7, <2>8, <2>9, <3>1, <3>2, Before, Yields
  <2>10. CASE res.disposition # "reject"
    <3>1. loop' = g /\ ans' = NoAnswer /\ Goto("checkpoint")
      BY <2>1, <2>10
    <3>2. /\ loop.index < loop.limit /\ loop.index < AbsoluteRounds /\ AbsoluteRounds \in Nat
          /\ ~loop.pending
          /\ (profile.enforce => loop.index + 1 < loop.limit) /\ ~seen.dirty
      BY <1>1, Before, Bounds DEF LoopInv, RoundsInPhase, AttemptInPhase, HistoryInPhase
    <3>3. /\ e \in RuntimeLoopState /\ e.index = l.index /\ e.limit = l.limit /\ e.progress = l.progress
          /\ e.final = l.final /\ e.declined = l.declined /\ e.attempt = l.attempt
          /\ e.replan = l.replan /\ e.pending = l.pending /\ e.gate = "none"
      <4>1. PICK age \in Nat : age = IF batch.outcome = "failed" THEN l.epoch ELSE l.epoch + 1
        BY <2>3
      <4>2. PICK opened \in BOOLEAN : opened = (l.open /\ profile.mode # "auto")
        OBVIOUS
      <4>3. e = [l EXCEPT !.epoch = age, !.gate = "none", !.open = opened]
        BY <4>1, <4>2
      <4> HIDE DEF e
      <4> QED BY <2>2, <4>3 DEF RuntimeLoopState
    <3> HIDE DEF e
    <3>4. /\ f \in RuntimeLoopState /\ f.index = l.index + 1 /\ f.limit = l.limit /\ f.progress = l.progress
          /\ f.final = l.final /\ f.attempt = l.attempt /\ f.gate = "none"
          /\ f.replan = l.replan /\ f.pending = l.pending
          /\ l.declined \/ batch.outcome = "declined" => f.declined
      <4>1. PICK over \in BOOLEAN : over = (e.declined \/ batch.outcome = "declined")
        OBVIOUS
      <4>2. l.index + 1 \in 0..AbsoluteRounds
        BY <2>2, <2>3, <3>2
      <4>3. f = [e EXCEPT !.index = l.index + 1, !.declined = over]
        BY <3>3, <4>1
      <4> HIDE DEF f
      <4> QED BY <3>3, <4>1, <4>2, <4>3 DEF RuntimeLoopState
    <3> HIDE DEF f
    <3>5. /\ g \in RuntimeLoopState /\ g.index = f.index /\ g.limit = f.limit /\ g.progress = f.progress
          /\ g.final = f.final /\ g.attempt = f.attempt /\ g.gate = f.gate
          /\ g.pending = f.pending /\ g.declined = f.declined
          /\ g.replan => f.replan \/ HasHook
      <4>1. CASE res.disposition = "retry"
        <5>1. g = [f EXCEPT !.retries = ans.calls] /\ ans.calls \subseteq ToolNames
          BY <4>1, Before DEF IsAnswer
        <5> HIDE DEF g
        <5> QED BY <3>4, <5>1 DEF RuntimeLoopState
      <4>2. CASE res.disposition = "replan"
        <5>1. g = Replanning(f, res.code)
          BY <4>2
        <5> HIDE DEF g
        <5> QED BY <2>6, <3>4, <4>2, <5>1, ReplanningFields
      <4>3. CASE res.disposition \notin {"retry", "replan"}
        BY <3>4, <4>3
      <4> QED BY <4>1, <4>2, <4>3
    <3> HIDE DEF g
    <3>6. at' = "checkpoint" /\ profile' = profile /\ result' = result /\ "checkpoint" \in Places
      BY <3>1 DEF Goto, Places
    <3>7. had.granted => l.index + 1 < l.limit
      BY <2>4, <2>6, <2>8
    <3>8. RoundsInPhase'
      <4>1. loop'.index = l.index + 1 /\ loop'.limit = l.limit /\ loop'.final = loop.final
        BY <2>2, <3>1, <3>4, <3>5
      <4>2. /\ profile.enforce \in BOOLEAN /\ (loop.final <=> seen.finals > 0)
            /\ (loop.final => profile.enforce) /\ result.code = "none"
        BY <1>1, Before, Unrun DEF LoopInv, RoundsInPhase
      <4> QED BY <2>1, <2>2, <2>3, <2>8, <3>2, <3>6, <3>7, <4>1, <4>2 DEF RoundsInPhase, ToResumedCall, OutOfRange
    <3>9. AttemptInPhase'
      BY <2>2, <3>1, <3>2, <3>4, <3>5, <3>6 DEF LoopInv, AttemptInPhase, ToResumedCall, HasCalls
    <3>10. HistoryInPhase'
      <4>1. ~had.dirty
        BY <2>6, <2>8, <2>10, <3>2
      <4>2. had.refused => loop'.declined
        BY <2>2, <2>8, <3>1, <3>4, <3>5, Before
      <4> QED BY <2>1, <2>8, <3>6, <4>1, <4>2 DEF HistoryInPhase, ToResumedCall, HasCalls
    <3>11. Accounted(loop', ledger', seen'.finals)
      BY <2>1, <2>2, <2>6, <2>8, <3>1, <3>4, <3>5, Before, AccountedStays
    <3>12. IsAnswer(ans')
      BY <3>1 DEF NoAnswer, IsAnswer
    <3>13. loop' \in RuntimeLoopState /\ (loop'.replan => HasHook)
      BY <2>2, <3>1, <3>4, <3>5, Before
    <3> QED BY <1>1, <2>1, <2>6, <2>7, <2>8, <3>1, <3>6, <3>8, <3>9, <3>10, <3>11, <3>12, <3>13, Moves
  <2> QED BY <2>9, <2>10
<1> QED BY <1>2, <1>3

\* The checkpoint before the next round.
LEMMA WriteCheckpointStep ==
    ASSUME LoopInv, WriteCheckpoint
    PROVE  LoopInv'
<1>1. /\ at = "checkpoint" /\ at' = "head" /\ profile' = profile /\ loop' = loop /\ ledger' = ledger
      /\ ans' = ans /\ step' = step /\ canceled' = canceled /\ result' = result /\ seen' = seen
      /\ ck' = IF profile.durable THEN ModelReady(loop) ELSE ck
  BY DEF WriteCheckpoint
<1>2. loop \in RuntimeLoopState /\ canceled \in BOOLEAN
  BY Before DEF LoopInv, LoopTypeOK
<1>3. /\ loop.index <= loop.limit /\ (loop.final => profile.enforce)
      /\ seen.granted \/ profile.enforce => loop.index < loop.limit
  BY <1>1 DEF LoopInv, RoundsInPhase
<1>5. /\ ck' = NoCheckpoint \/ (IsAgentExecutionCheckpoint(ck') /\ WithinLimits(ck'.ledger))
      /\ CheckpointSound'
  <2>1. CASE profile.durable
    <3>1. ck' = [kind |-> "model", round |-> loop.index + 1, loop |-> Checkpointed(loop), ledger |-> ledger,
                 calls |-> {}, refused |-> seen.refused, granted |-> seen.granted, finals |-> seen.finals]
      BY <1>1, <2>1 DEF ModelReady
    <3> QED BY <1>1, <1>3, <3>1, Commits
  <2>2. CASE ~profile.durable
    BY <1>1, <2>2, KeepsCheckpoint
  <2> QED BY <2>1, <2>2
<1>6. RoundsInPhase'
  BY <1>1, <1>3 DEF LoopInv, RoundsInPhase, AttemptInPhase, ToResumedCall, OutOfRange
<1>7. AttemptInPhase'
  BY <1>1 DEF LoopInv, AttemptInPhase, ToResumedCall, HasCalls
<1>8. HistoryInPhase'
  BY <1>1 DEF LoopInv, HistoryInPhase, AttemptInPhase, ToResumedCall, HasCalls
<1>9. at' \in Places \cup {"down"}
  BY <1>1 DEF Places
<1> QED BY <1>1, <1>2, <1>5, <1>6, <1>7, <1>8, <1>9, Before, Runs

\* The cancellation signal, and the death of the process.
LEMMA CancelStep ==
    ASSUME LoopInv, Cancel \/ Crash
    PROVE  LoopInv'
<1>1. /\ at \notin {"done", "down"} /\ at' \in {at, "down"} /\ profile' = profile /\ loop' = loop
      /\ ledger' = ledger /\ ans' = ans /\ step' = step /\ ck' = ck /\ canceled' \in {canceled, TRUE}
      /\ result' = result /\ seen' = seen
  BY DEF Cancel, Crash
<1>2. canceled' \in BOOLEAN
  BY <1>1 DEF LoopInv, LoopTypeOK
<1>3. RoundsInPhase'
  BY <1>1 DEF LoopInv, RoundsInPhase, ToResumedCall, OutOfRange
<1>4. AttemptInPhase'
  BY <1>1 DEF LoopInv, AttemptInPhase, ToResumedCall, HasCalls
<1>5. HistoryInPhase'
  BY <1>1 DEF LoopInv, HistoryInPhase, ToResumedCall, HasCalls
<1>6. at' \in Places \cup {"down"}
  BY <1>1 DEF LoopInv, LoopTypeOK, Places
<1> QED BY <1>1, <1>2, <1>3, <1>4, <1>5, <1>6, Before, KeepsCheckpoint, Runs

\* run() with resume_checkpoint.
LEMMA ResumeStep ==
    ASSUME LoopInv, Resume
    PROVE  LoopInv'
<1>1. /\ at = "down" /\ at' = "head" /\ ck.kind # "none" /\ profile' = profile /\ step' = step /\ ck' = ck
      /\ canceled' = canceled /\ result' = result /\ ledger' = ck.ledger
      /\ loop' = [ck.loop EXCEPT !.index = ck.round - 1,
                                 !.gate = IF ck.kind = "tool" THEN "ready" ELSE "none"]
      /\ ans' = [NoAnswer EXCEPT !.calls = ck.calls]
      /\ seen' = [shown |-> FALSE, granted |-> ck.granted, dirty |-> FALSE, refused |-> ck.refused,
                  finals |-> ck.finals]
  BY DEF Resume
<1>2. ck # NoCheckpoint
  BY <1>1 DEF NoCheckpoint
<1>3. /\ IsAgentExecutionCheckpoint(ck) /\ WithinLimits(ck.ledger) /\ canceled \in BOOLEAN
  BY <1>2 DEF LoopInv, LoopTypeOK, LedgerFits
<1>4. /\ Accounted(ck.loop, ck.ledger, ck.finals) /\ IsLedger(ck.ledger)
      /\ ck.round = ck.loop.index + 1 /\ ck.loop.index <= ck.loop.limit
      /\ ck.granted \/ profile.enforce => ck.loop.index < ck.loop.limit
      /\ ck.kind = "tool" => ck.loop.index + 1 < ck.loop.limit /\ ~ck.loop.declined
      /\ (ck.loop.final <=> ck.finals > 0) /\ (ck.loop.final => profile.enforce)
      /\ ck.loop.replan => HasHook
      /\ ck.refused => ck.loop.declined
  BY <1>2 DEF LoopInv, CheckpointSound, IsLedger
<1>5. PICK m \in RuntimeLoopState : m = ck.loop
  BY <1>3 DEF IsAgentExecutionCheckpoint
<1>6. m.attempt = NoAttempt /\ ~m.pending
  <2>1. m = Checkpointed(m)
    BY <1>3, <1>5 DEF IsAgentExecutionCheckpoint
  <2> QED BY <2>1, CheckpointedFields
<1>7. PICK gate \in {"none", "ready"} : gate = IF ck.kind = "tool" THEN "ready" ELSE "none"
  OBVIOUS
<1>8. loop' = [m EXCEPT !.index = m.index, !.gate = gate]
  <2>1. m.index \in 0..AbsoluteRounds /\ AbsoluteRounds \in Nat
    BY LoopFields, Bounds
  <2>2. ck.round - 1 = m.index
    <3>1. ck.round = m.index + 1
      BY <1>4, <1>5
    <3> QED BY <2>1, <3>1
  <2>3. loop' = [m EXCEPT !.index = ck.round - 1, !.gate = gate]
    BY <1>1, <1>5, <1>7
  <2> QED BY <2>2, <2>3
<1>9. /\ loop' \in RuntimeLoopState /\ loop'.index = m.index /\ loop'.limit = m.limit
      /\ loop'.final = m.final /\ loop'.progress = m.progress /\ loop'.declined = m.declined
      /\ loop'.attempt = m.attempt /\ loop'.gate = gate /\ loop'.replan = m.replan
      /\ loop'.pending = m.pending
  BY <1>8 DEF RuntimeLoopState
<1>10. /\ ans'.calls = ck.calls /\ IsAnswer(ans')
  BY <1>1, <1>3 DEF NoAnswer, IsAnswer, IsAgentExecutionCheckpoint
<1>11. /\ IsSeen(seen') /\ ~seen'.shown /\ ~seen'.dirty /\ seen'.granted = ck.granted
       /\ seen'.refused = ck.refused /\ seen'.finals = ck.finals
  BY <1>1, <1>3 DEF IsSeen, IsAgentExecutionCheckpoint
<1>12. gate = "ready" <=> ck.kind = "tool"
  BY <1>7
<1>13. /\ NoAttempt.tools = {} /\ NoAttempt.allowed = {} /\ NoAttempt.choice = "none"
  BY DEF NoAttempt
<1>14. result.code = "none"
  BY <1>1, Unrun
<1>15. RoundsInPhase'
  BY <1>1, <1>4, <1>5, <1>9, <1>11, <1>12, <1>14, LoopFields, Bounds DEF RoundsInPhase, ToResumedCall, OutOfRange
<1>16. AttemptInPhase'
  BY <1>1, <1>3, <1>6, <1>9, <1>10, <1>12, <1>13
     DEF AttemptInPhase, ToResumedCall, HasCalls, IsAgentExecutionCheckpoint
<1>17. HistoryInPhase'
  BY <1>1, <1>4, <1>5, <1>9, <1>11, <1>12 DEF HistoryInPhase, ToResumedCall, HasCalls
<1>18. Accounted(loop', ledger', seen'.finals)
  BY <1>1, <1>4, <1>5, <1>9, <1>11 DEF Accounted
<1>19. at' \in Places \cup {"down"}
  BY <1>1 DEF Places
<1> QED BY <1>1, <1>3, <1>4, <1>5, <1>9, <1>10, <1>11, <1>15, <1>16, <1>17, <1>18, <1>19, Before,
           KeepsCheckpoint, Runs

\* The fresh loop of _build_loop_state.
LEMMA LoopInitOK ==
    ASSUME LoopInit
    PROVE  LoopInv
<1>1. /\ profile \in Profiles /\ loop = FreshLoop(profile) /\ ledger = EmptyLedger /\ at = "head"
      /\ ans = NoAnswer /\ step = 1 /\ ck = NoCheckpoint /\ canceled = FALSE /\ result = Pending
      /\ seen = [shown |-> FALSE, granted |-> FALSE, dirty |-> FALSE, refused |-> FALSE,
                 finals |-> 0]
  BY DEF LoopInit
<1>2. profile.require \in BOOLEAN /\ profile.force \in BOOLEAN /\ profile.enforce \in BOOLEAN
  BY <1>1, LoopAssumption DEF LoopAssumption
<1>3. NoAttempt \in [tools : SUBSET ToolNames, choice : {"none", "auto", "required"},
                     allowed : SUBSET ToolNames, future : SUBSET ToolNames, require : BOOLEAN,
                     buffer : BOOLEAN, n : Nat]
      /\ NoAttempt.tools = {} /\ NoAttempt.allowed = {} /\ NoAttempt.choice = "none"
  BY DEF NoAttempt
<1>4. "none" \in RecoveryCodes
  BY DEF RecoveryCodes
<1>5. 0 \in 0..AbsoluteRounds /\ MaxRounds \in Nat \ {0} /\ 0 \in 0..MaxProgress
  BY Bounds
<1>6. /\ loop \in RuntimeLoopState /\ loop.index = 0 /\ loop.limit = MaxRounds /\ loop.progress = 0
      /\ loop.final = FALSE /\ ~loop.replan /\ ~loop.pending /\ ~loop.declined /\ loop.attempt = NoAttempt
      /\ loop.gate = "none"
  BY <1>1, <1>2, <1>3, <1>4, <1>5 DEF FreshLoop, RuntimeLoopState
<1>7. IsLedger(ledger) /\ \A c : Used(ledger, c, RunScope) = 0
  BY <1>1 DEF EmptyLedger, IsLedger, Used
<1>8. WithinLimits(ledger)
  BY <1>7, LimitsAssumption DEF WithinLimits
<1>9. LimitAccounted
  BY <1>1, <1>5, <1>6, <1>7 DEF LimitAccounted, Accounted
<1>10. result.code = "none" /\ result.outcome = "pending"
  BY <1>1 DEF Pending
<1>11. IsAnswer(ans) /\ IsSeen(seen) /\ ~seen.shown /\ ~seen.granted /\ ~seen.dirty /\ ~seen.refused
       /\ seen.finals = 0
  BY <1>1 DEF NoAnswer, IsAnswer, IsSeen
<1>12. 1 \in 1..(Len(Plan) + 1)
  BY DEF Plan
<1>13. LoopTypeOK
  BY <1>1, <1>6, <1>7, <1>10, <1>11, <1>12 DEF LoopTypeOK, IsLedger, IsAnswer, IsSeen
<1>14. RoundsInPhase
  BY <1>1, <1>5, Bounds, <1>6, <1>10, <1>11 DEF RoundsInPhase, ToResumedCall, OutOfRange
<1>15. AttemptInPhase
  BY <1>1, <1>3, <1>6, <1>10 DEF AttemptInPhase, ToResumedCall, HasCalls
<1>16. HistoryInPhase
  BY <1>1, <1>6, <1>11 DEF HistoryInPhase, ToResumedCall, HasCalls
<1>17. GrantedRetryRuns /\ CompletedChecked /\ CheckpointSound /\ LedgerFits
  BY <1>1, <1>8, <1>10 DEF GrantedRetryRuns, CompletedChecked, CheckpointSound, LedgerFits
<1> QED BY <1>9, <1>13, <1>14, <1>15, <1>16, <1>17 DEF LoopInv

\* Every step keeps the invariant.
LEMMA LoopKeeps ==
    ASSUME LoopInv, [LoopNext]_loopVars
    PROVE  LoopInv'
<1>1. CASE RoundHead
  BY <1>1, RoundHeadStep
<1>2. CASE PrepareRetry
  BY <1>2, PrepareRetryStep
<1>3. CASE Replan
  BY <1>3, ReplanStep
<1>4. CASE Prepare
  BY <1>4, PrepareStep
<1>5. CASE \E err \in {"canceled", "unsupported", "interrupted", "other"}, words \in BOOLEAN :
             ProviderFails(err, words)
  BY <1>5, ProviderFailsStep
<1>6. CASE \E a \in Answers : StreamEnds(a)
  BY <1>6, StreamEndsStep
<1>7. CASE Classify
  BY <1>7, ClassifyStep
<1>8. CASE \E v \in Verdicts : Finalize(v)
  BY <1>8, FinalizeStep
<1>9. CASE Activate
  BY <1>9, ActivateStep
<1>10. CASE Authorize
  BY <1>10, AuthorizeStep
<1>11. CASE Gate
  BY <1>11, GateStep
<1>12. CASE GateAgain
  BY <1>12, GateAgainStep
<1>13. CASE \E b \in BatchResults : Execute(b)
  BY <1>13, ExecuteStep
<1>14. CASE WriteCheckpoint
  BY <1>14, WriteCheckpointStep
<1>15. CASE Cancel \/ Crash
  BY <1>15, CancelStep
<1>16. CASE Resume
  BY <1>16, ResumeStep
<1>17. CASE UNCHANGED loopVars
  BY <1>17 DEF loopVars, LoopInv, LoopTypeOK, LimitAccounted, GrantedRetryRuns, CompletedChecked,
     LedgerFits, RoundsInPhase, AttemptInPhase, HistoryInPhase, CheckpointSound, HasHook, OutOfRange,
     ToResumedCall, HasCalls
<1> QED BY <1>1, <1>2, <1>3, <1>4, <1>5, <1>6, <1>7, <1>8, <1>9, <1>10, <1>11, <1>12, <1>13, <1>14,
           <1>15, <1>16, <1>17 DEF LoopNext, LoopStep

-----------------------------------------------------------------------------
(* The theorems.                                                           *)

\* Whatever the provider, the tools, the host and the process do, tools called in a round
\* that offers none included, the round limit of a Run is no more than the extensions that
\* were granted, no cause is granted beyond the policy, a granted retry is never lost to the
\* limit and to the end of run()'s range only after a second round was added for an answer,
\* and what completes was checked (AgentRuntime.run).
THEOREM LoopInvariant ==
    LoopSpec => []LoopInv
<1>1. LoopInit => LoopInv
  BY LoopInitOK
<1>2. LoopInv /\ [LoopNext]_loopVars => LoopInv'
  BY LoopKeeps
<1> QED BY <1>1, <1>2, PTL DEF LoopSpec

\* A step cannot attempt again what the user saw, go on after an uncertain effect, or run
\* a batch after the user declined one.
LEMMA LoopStepKept ==
    ASSUME LoopInv, [LoopNext]_loopVars
    PROVE  ShownTextStands /\ UncertainEffectEndsRun /\ DeclineStopsTools
<1>1. /\ at \in {"prepare", "stream"} => ~seen.shown
      /\ seen.dirty => at = "done"
      /\ at \in {"authorize", "gate", "execute"} => ~seen.refused
  BY DEF LoopInv, HistoryInPhase, HasCalls
<1>2. at' = "stream" => at \in {"prepare", "stream"}
  BY DEF LoopNext, LoopStep, loopVars, RoundHead, PrepareRetry, Replan, Prepare, ProviderFails, StreamEnds,
     Classify, Finalize, Activate, Authorize, Gate, GateAgain, Execute, WriteCheckpoint, Cancel, Crash,
     Resume, Yield, Goto, Again
<1>3. at' = "execute" => at \in {"authorize", "gate", "execute"}
  BY DEF LoopNext, LoopStep, loopVars, RoundHead, PrepareRetry, Replan, Prepare, ProviderFails, StreamEnds,
     Classify, Finalize, Activate, Authorize, Gate, GateAgain, Execute, WriteCheckpoint, Cancel, Crash,
     Resume, Yield, Goto, Again
<1> QED BY <1>1, <1>2, <1>3 DEF ShownTextStands, UncertainEffectEndsRun, DeclineStopsTools

\* What was shown, done or declined binds every later step, across a crash and a
\* resumption from the checkpoint.
THEOREM LoopStepsHold ==
    LoopSpec => LoopSteps
<1>1. LoopInv /\ [LoopNext]_loopVars
        => [ShownTextStands /\ UncertainEffectEndsRun /\ DeclineStopsTools]_loopVars
  BY LoopStepKept
<1> QED BY <1>1, LoopInvariant, PTL DEF LoopSpec, LoopSteps

-----------------------------------------------------------------------------
(* The private model tasks: the parser of a plan.                          *)

\* One more record in a document counts for the types it belongs to.
LEMMA CountLast ==
    ASSUME NEW d \in Seq(Records), Len(d) >= 1, NEW types
    PROVE  /\ Cardinality({i \in 1 .. Len(d) - 1 : d[i] \in types}) \in Nat
           /\ d[Len(d)] \in types =>
                Cardinality({i \in DOMAIN d : d[i] \in types}) =
                  Cardinality({i \in 1 .. Len(d) - 1 : d[i] \in types}) + 1
           /\ d[Len(d)] \notin types =>
                Cardinality({i \in DOMAIN d : d[i] \in types}) =
                  Cardinality({i \in 1 .. Len(d) - 1 : d[i] \in types})
<1> DEFINE before == {i \in 1 .. Len(d) - 1 : d[i] \in types}
           all == {i \in DOMAIN d : d[i] \in types}
<1>1. Len(d) \in Nat /\ DOMAIN d = 1 .. Len(d)
  OBVIOUS
<1>2. IsFiniteSet(1 .. Len(d) - 1)
  BY <1>1, FS_Interval
<1>3. before \in SUBSET (1 .. Len(d) - 1)
  OBVIOUS
<1>4. IsFiniteSet(before)
  BY <1>2, <1>3, FS_Subset
<1>5. Cardinality(before) \in Nat
  BY <1>4, FS_CardinalityType
<1>6. Len(d) \notin before
  BY <1>1
<1>7. CASE d[Len(d)] \in types
  <2>1. all = before \cup {Len(d)}
    BY <1>1, <1>7
  <2> QED BY <1>4, <1>5, <1>6, <1>7, <2>1, FS_AddElement
<1>8. CASE d[Len(d)] \notin types
  <2>1. all = before
    BY <1>1, <1>8
  <2> QED BY <1>5, <1>8, <2>1
<1> QED BY <1>7, <1>8, <1>5

\* The parser is in the middle of the last record, or between two records.
LEMMA WholeOf ==
    ASSUME NEW p, NEW d \in Seq(Records), NEW s, ParserFollows(p, d, s)
    PROVE  /\ Whole(p, d) = 1 .. (IF p.tail = "none" THEN Len(d) ELSE Len(d) - 1)
           /\ p.tail # "none" => Len(d) >= 1 /\ d[Len(d)] = p.tail
           /\ Len(d) \in Nat
<1>1. Len(d) \in Nat /\ DOMAIN d = 1 .. Len(d) /\ (d # <<>> => Len(d) >= 1)
  OBVIOUS
<1> QED BY <1>1 DEF ParserFollows, Whole

\* _accept_record: the parser takes the record, or fails.
LEMMA AcceptedIsParser ==
    ASSUME NEW p \in Parsers, NEW r \in Records, NEW q, q = AcceptedRecord(p, r)
    PROVE  /\ q \in Parsers
           /\ ~q.failed => q.tail = "none"
<1>1. p.records \in Nat /\ p.plan \in {"none", "plan", "wrong"}
  BY DEF Parsers
<1> PICK m \in Nat : m = p.records + 1
  BY <1>1
<1>2. CASE r = "blank"
  <2>1. q = [p EXCEPT !.tail = "none"]
    BY <1>2 DEF AcceptedRecord, Progress
  <2> QED BY <2>1 DEF Parsers
<1>3. CASE r # "blank" /\ (r = "junk" \/ p.plan # "none")
  <2>1. q = [p EXCEPT !.failed = TRUE]
    BY <1>3 DEF AcceptedRecord, Progress
  <2> QED BY <2>1 DEF Parsers
<1>4. CASE r \in Progress /\ p.plan = "none"
  <2>1. q = IF p.records >= MaxRecords THEN [p EXCEPT !.failed = TRUE]
            ELSE [p EXCEPT !.tail = "none", !.records = m]
    BY <1>4 DEF AcceptedRecord, Progress
  <2> QED BY <2>1 DEF Parsers
<1>5. CASE r \in {"plan", "wrong"} /\ p.plan = "none"
  <2>1. q = [p EXCEPT !.tail = "none", !.plan = r, !.records = m]
    BY <1>5 DEF AcceptedRecord, Progress
  <2> QED BY <1>5, <2>1 DEF Parsers
<1> QED BY <1>2, <1>3, <1>4, <1>5 DEF Records, Progress

\* feed: whatever the chunks were, the parser stays with the document, and what it
\* publishes is the valid progress it has completed.
LEMMA FeedFollows ==
    ASSUME NEW p, NEW d \in Seq(Records), NEW s, ParserFollows(p, d, s),
           NEW r \in Records, p.tail \in {"none", r}, NEW ends \in BOOLEAN,
           NEW q, q = IF ends THEN AcceptedRecord(p, r) ELSE [p EXCEPT !.tail = r],
           NEW e, e = IF p.tail = "none" THEN Append(d, r) ELSE d,
           ~q.failed
    PROVE  /\ e \in Seq(Records)
           /\ ParserFollows(q, e, IF ends /\ r = "good" THEN s + 1 ELSE s)
<1> DEFINE done == 1 .. Len(e) - 1
           t == IF ends /\ r = "good" THEN s + 1 ELSE s
<1>1. /\ Whole(p, d) = 1 .. (IF p.tail = "none" THEN Len(d) ELSE Len(d) - 1)
      /\ p.tail # "none" => Len(d) >= 1 /\ d[Len(d)] = p.tail
      /\ Len(d) \in Nat
  BY WholeOf
<1>2. r # "none"
  BY DEF Records
<1>3. e \in Seq(Records) /\ Len(e) \in Nat /\ Len(e) >= 1 /\ e[Len(e)] = r /\ DOMAIN e = 1 .. Len(e)
  <2>1. CASE p.tail = "none"
    BY <1>1, <2>1
  <2>2. CASE p.tail # "none"
    BY <1>1, <2>2
  <2> QED BY <2>1, <2>2
<1>4. Whole(p, d) = done /\ \A i \in done : e[i] = d[i]
  <2>1. CASE p.tail = "none"
    BY <1>1, <2>1
  <2>2. CASE p.tail # "none"
    BY <1>1, <2>2
  <2> QED BY <2>1, <2>2
<1>5. \A types : {i \in Whole(p, d) : d[i] \in types} = {i \in done : e[i] \in types}
  BY <1>4
<1>6. /\ p \in Parsers /\ ~p.failed /\ p.plan \in {"none", "plan", "wrong"} /\ p.records \in Nat
  BY DEF ParserFollows, Parsers
<1>7. \A types : Counted(p, d, types) = Cardinality({i \in done : e[i] \in types})
  BY <1>5 DEF Counted
<1>8. PICK cp : cp = Cardinality({i \in done : e[i] \in Progress})
  OBVIOUS
<1>9. PICK cg : cg = Cardinality({i \in done : e[i] \in {"good"}})
  OBVIOUS
<1>10. /\ cp \in Nat /\ cg \in Nat /\ cp <= MaxRecords /\ s = cg
       /\ p.plan = "none" => p.records = cp /\ \A i \in done : e[i] \in Progress \cup {"blank"}
       /\ p.plan # "none" =>
            \E k \in done : /\ e[k] = p.plan
                            /\ \A i \in done : /\ i < k => e[i] \in Progress \cup {"blank"}
                                               /\ i > k => e[i] = "blank"
  <2>1. cp \in Nat /\ cg \in Nat
    BY <1>3, <1>8, <1>9, CountLast
  <2>2. Counted(p, d, Progress) = cp /\ Counted(p, d, {"good"}) = cg
    BY <1>7, <1>8, <1>9
  <2>3. cp <= MaxRecords /\ s = cg /\ (p.plan = "none" => p.records = cp)
    BY <2>2 DEF ParserFollows
  <2>4. p.plan = "none" => \A i \in Whole(p, d) : d[i] \in Progress \cup {"blank"}
    BY DEF ParserFollows
  <2>5. p.plan # "none" =>
            \E k \in Whole(p, d) :
                /\ d[k] = p.plan
                /\ \A i \in Whole(p, d) : /\ i < k => d[i] \in Progress \cup {"blank"}
                                          /\ i > k => d[i] = "blank"
    BY DEF ParserFollows
  <2> QED BY <1>4, <2>1, <2>3, <2>4, <2>5
<1>11. CASE ~ends
  <2>1. /\ q.tail = r /\ q.plan = p.plan /\ q.records = p.records
        /\ q \in Parsers /\ ~q.failed
    BY <1>6, <1>11 DEF Parsers
  <2>2. Whole(q, e) = done
    BY <1>2, <2>1 DEF Whole
  <2>3. \A types : Counted(q, e, types) = Cardinality({i \in done : e[i] \in types})
    BY <2>2 DEF Counted
  <2>4. Counted(q, e, Progress) = cp /\ Counted(q, e, {"good"}) = cg
    BY <2>3, <1>8, <1>9
  <2>5. e # <<>>
    BY <1>3
  <2>6. ParserFollows(q, e, s)
    BY <1>3, <1>10, <2>1, <2>2, <2>4, <2>5 DEF ParserFollows
  <2> QED BY <1>3, <1>11, <2>6
<1>12. CASE ends
  <2>1. q = AcceptedRecord(p, r)
    BY <1>12
  <2>2. /\ q \in Parsers /\ ~q.failed
        /\ q.tail = "none"
        /\ \/ r = "blank" /\ q.plan = p.plan /\ q.records = p.records
           \/ r \in Progress /\ p.plan = "none" /\ q.plan = "none" /\ p.records < MaxRecords
              /\ q.records = p.records + 1
           \/ r \in {"plan", "wrong"} /\ p.plan = "none" /\ q.plan = r
    <3>1. CASE r = "blank"
      <4>1. q = [p EXCEPT !.tail = "none"]
        BY <2>1, <3>1 DEF AcceptedRecord, Progress
      <4> QED BY <1>6, <3>1, <4>1 DEF Parsers
    <3>2. CASE r # "blank" /\ (r = "junk" \/ p.plan # "none")
      <4>1. q = [p EXCEPT !.failed = TRUE]
        BY <2>1, <3>2 DEF AcceptedRecord, Progress
      <4> QED BY <1>6, <4>1 DEF Parsers
    <3>3. CASE r \in Progress /\ p.plan = "none"
      <4>1. q = IF p.records >= MaxRecords THEN [p EXCEPT !.failed = TRUE]
                ELSE [p EXCEPT !.tail = "none", !.records = @ + 1]
        BY <2>1, <3>3 DEF AcceptedRecord, Progress
      <4>2. ~(p.records >= MaxRecords)
        BY <1>6, <4>1 DEF Parsers
      <4>3. p.records < MaxRecords
        BY <1>6, <4>2, TaskAssumption
      <4>4. PICK m \in Nat : m = p.records + 1
        BY <1>6
      <4>5. q = [p EXCEPT !.tail = "none", !.records = m]
        BY <4>1, <4>2, <4>4
      <4>6. q \in Parsers /\ q.tail = "none" /\ q.plan = p.plan /\ q.records = m
        BY <1>6, <4>5 DEF Parsers
      <4> QED BY <1>6, <3>3, <4>3, <4>4, <4>6
    <3>4. CASE r \notin {"blank", "junk"} \cup Progress /\ p.plan = "none"
      <4>1. r \in {"plan", "wrong"}
        BY <3>4 DEF Records, Progress
      <4> PICK m \in Nat : m = p.records + 1
        BY <1>6
      <4>2. q = [p EXCEPT !.tail = "none", !.plan = r, !.records = m]
        BY <2>1, <3>4, <4>1 DEF AcceptedRecord, Progress
      <4>3. q \in Parsers /\ q.tail = "none" /\ q.plan = r
        BY <1>6, <4>1, <4>2 DEF Parsers
      <4> QED BY <1>6, <3>4, <4>1, <4>3
    <3> QED BY <1>6, <3>1, <3>2, <3>3, <3>4 DEF Records, Progress
  <2>3. Whole(q, e) = done \cup {Len(e)} /\ Whole(q, e) = DOMAIN e
    BY <1>3, <2>2 DEF Whole
  <2>4. Counted(q, e, Progress) = IF r \in Progress THEN cp + 1 ELSE cp
    <3>1. Counted(q, e, Progress) = Cardinality({i \in DOMAIN e : e[i] \in Progress})
      BY <2>3 DEF Counted
    <3>2. /\ e[Len(e)] \in Progress =>
               Cardinality({i \in DOMAIN e : e[i] \in Progress}) = Cardinality({i \in done : e[i] \in Progress}) + 1
          /\ e[Len(e)] \notin Progress =>
               Cardinality({i \in DOMAIN e : e[i] \in Progress}) = Cardinality({i \in done : e[i] \in Progress})
      BY <1>3, CountLast
    <3> QED BY <1>3, <1>8, <3>1, <3>2
  <2>5. Counted(q, e, {"good"}) = IF r = "good" THEN cg + 1 ELSE cg
    <3>1. Counted(q, e, {"good"}) = Cardinality({i \in DOMAIN e : e[i] \in {"good"}})
      BY <2>3 DEF Counted
    <3>2. /\ e[Len(e)] \in {"good"} =>
               Cardinality({i \in DOMAIN e : e[i] \in {"good"}}) = Cardinality({i \in done : e[i] \in {"good"}}) + 1
          /\ e[Len(e)] \notin {"good"} =>
               Cardinality({i \in DOMAIN e : e[i] \in {"good"}}) = Cardinality({i \in done : e[i] \in {"good"}})
      BY <1>3, CountLast
    <3> QED BY <1>3, <1>9, <3>1, <3>2
  <2>6. t = Counted(q, e, {"good"})
    BY <1>10, <1>12, <2>5
  <2>7. CASE r = "blank"
    <3>1. r \notin Progress /\ r \in Progress \cup {"blank"}
      BY <2>7 DEF Progress
    <3>2. \A i \in done : i < Len(e)
      BY <1>3
    <3>3. q.plan = p.plan /\ q.records = p.records
      BY <2>2, <2>7 DEF Progress
    <3>4. q.plan = "none" => \A i \in Whole(q, e) : e[i] \in Progress \cup {"blank"}
      BY <1>3, <1>10, <2>3, <3>1, <3>3
    <3>5. ASSUME q.plan # "none"
          PROVE  \E k \in Whole(q, e) :
                    /\ e[k] = q.plan
                    /\ \A i \in Whole(q, e) : /\ i < k => e[i] \in Progress \cup {"blank"}
                                              /\ i > k => e[i] = "blank"
      <4>1. PICK k \in done : /\ e[k] = p.plan
                              /\ \A i \in done : /\ i < k => e[i] \in Progress \cup {"blank"}
                                                 /\ i > k => e[i] = "blank"
        BY <1>10, <3>3, <3>5
      <4> QED BY <1>3, <2>3, <2>7, <3>1, <3>2, <3>3, <4>1
    <3> QED BY <1>3, <1>10, <1>12, <2>2, <2>4, <2>6, <3>1, <3>3, <3>4, <3>5 DEF ParserFollows
  <2>8. CASE r \in Progress
    <3>1. p.plan = "none" /\ q.plan = "none" /\ p.records < MaxRecords /\ q.records = p.records + 1
      BY <2>2, <2>8 DEF Progress
    <3>2. \A i \in Whole(q, e) : e[i] \in Progress \cup {"blank"}
      BY <1>3, <1>10, <2>3, <2>8, <3>1
    <3>3. Counted(q, e, Progress) = cp + 1 /\ p.records = cp /\ cp + 1 <= MaxRecords
      BY <1>10, <2>4, <2>8, <3>1, TaskAssumption
    <3> QED BY <1>3, <1>12, <2>2, <2>6, <3>1, <3>2, <3>3 DEF ParserFollows
  <2>9. CASE r \in {"plan", "wrong"}
    <3>1. p.plan = "none" /\ q.plan = r /\ r \notin Progress
      BY <2>2, <2>9 DEF Progress
    <3>2. \A i \in done : e[i] \in Progress \cup {"blank"}
      BY <1>10, <3>1
    <3>3. \A i \in Whole(q, e) : i <= Len(e) /\ (i < Len(e) => i \in done) /\ i \in Int
      BY <1>3, <2>3
    <3>4. \E k \in Whole(q, e) :
                    /\ e[k] = q.plan
                    /\ \A i \in Whole(q, e) : /\ i < k => e[i] \in Progress \cup {"blank"}
                                              /\ i > k => e[i] = "blank"
      BY <1>3, <2>3, <3>1, <3>2, <3>3
    <3> QED BY <1>3, <1>10, <1>12, <2>2, <2>4, <2>6, <2>9, <3>1, <3>4 DEF ParserFollows
  <2> QED BY <2>2, <2>7, <2>8, <2>9
<1> QED BY <1>11, <1>12

\* finish: a parser that ends with a plan has read a document that means it.
LEMMA FinishFollows ==
    ASSUME NEW p, NEW d \in Seq(Records), NEW s, ParserFollows(p, d, s),
           ~ParserFinished(p).failed, ParserFinished(p).plan # "wrong"
    PROVE  PlanDone(d, s)
<1>1. /\ Whole(p, d) = 1 .. (IF p.tail = "none" THEN Len(d) ELSE Len(d) - 1)
      /\ p.tail # "none" => Len(d) >= 1 /\ d[Len(d)] = p.tail
      /\ Len(d) \in Nat
  BY WholeOf
<1>2. /\ p \in Parsers /\ ~p.failed /\ p.plan \in {"none", "plan", "wrong"}
      /\ p.tail \in Records \cup {"none"}
  BY DEF ParserFollows, Parsers
<1>3. PICK q : q = IF p.tail = "none" THEN p ELSE AcceptedRecord(p, p.tail)
  OBVIOUS
<1>4. q \in Parsers
  BY <1>2, <1>3, AcceptedIsParser
<1>5. ParserFinished(p) = [q EXCEPT !.failed = q.failed \/ p.tail = "good" \/ q.plan = "none"]
  BY <1>3 DEF ParserFinished
<1>6. /\ ParserFinished(p).plan = q.plan
      /\ ParserFinished(p).failed <=> q.failed \/ p.tail = "good" \/ q.plan = "none"
  BY <1>4, <1>5 DEF Parsers
<1>7. ~q.failed /\ p.tail # "good" /\ q.plan = "plan"
  BY <1>4, <1>6 DEF Parsers
<1>8. ParserFollows(q, d, s) /\ q.tail = "none"
  <2>1. CASE p.tail = "none"
    BY <1>3, <2>1
  <2>2. CASE p.tail # "none"
    <3>1. q = AcceptedRecord(p, p.tail) /\ p.tail \in Records
      BY <1>2, <1>3, <2>2
    <3>2. ParserFollows(q, d, s)
      BY <1>7, <2>2, <3>1, FeedFollows
    <3>3. q.tail = "none"
      BY <1>2, <1>7, <3>1, AcceptedIsParser
    <3> QED BY <3>2, <3>3
  <2> QED BY <2>1, <2>2
<1>9. Whole(q, d) = DOMAIN d
  BY <1>8 DEF Whole
<1>10. Counted(q, d, Progress) = Cardinality({i \in DOMAIN d : d[i] \in Progress})
  BY <1>9 DEF Counted
<1>11. Counted(q, d, {"good"}) = Cardinality({i \in DOMAIN d : d[i] = "good"})
  <2>1. {i \in DOMAIN d : d[i] \in {"good"}} = {i \in DOMAIN d : d[i] = "good"}
    OBVIOUS
  <2> QED BY <1>9, <2>1 DEF Counted
<1> QED BY <1>7, <1>8, <1>9, <1>10, <1>11 DEF ParserFollows, PlanDone, PlanOf


-----------------------------------------------------------------------------
(* What a step of a task leaves alone.                                     *)

\* TaskInv without NothingLeft, which follows from the stages.
TaskCore ==
    /\ TaskTypeOK /\ RepairFromSettled /\ IdleIsTheProvider /\ PlanCommittedExact
    /\ OtherAttempts /\ AttemptInStage /\ AnswerInStage /\ RefsInStage /\ PlanInStage

\* A step that leaves every attempt but the current one as it is.
Elsewhere ==
    \A i \in AttemptIds : i # n =>
        /\ out'[i] = out[i] /\ opOf'[i] = opOf[i] /\ told'[i] = told[i]
        /\ i \in attempts' <=> i \in attempts
        /\ i \in DOMAIN spent' <=> i \in DOMAIN spent
        /\ i \in DOMAIN spent => spent'[i] = spent[i]
        /\ i \in hurt' <=> i \in hurt

\* The numbers of the attempts are numbers, and the peers have others.
LEMMA Numbers ==
    /\ AttemptIds = 1 .. Retries + 1 /\ AttemptIds \subseteq Nat /\ Retries \in Nat
    /\ \A i \in PeerIds : i \notin AttemptIds
BY TaskAssumption DEF AttemptIds, PeerIds

\* The locals the except clause still reads.
LEMMA LostFields ==
    ASSUME NEW p, p.use \in Usages \cup {None}, p.paid \in BOOLEAN, p.value \in BOOLEAN,
           p.sound \in BOOLEAN, NEW code \in TaskCodes
    PROVE  /\ Lost(p, code) \in Invocations
           /\ Lost(p, code).use = p.use /\ Lost(p, code).err = code /\ Lost(p, code).paid = p.paid
<1>1. 0 \in 0 .. MaxChunks
  BY TaskAssumption
<1>2. NoInvocation \in [use : {None}, got : BOOLEAN, tools : BOOLEAN, item : Chunks \cup {"none"},
                        count : 0 .. MaxChunks, err : TaskCodes, paid : BOOLEAN, value : BOOLEAN,
                        sound : BOOLEAN]
  BY <1>1 DEF NoInvocation, TaskCodes
<1>3. PICK no : no = NoInvocation
  OBVIOUS
<1>4. Lost(p, code) = [no EXCEPT !.use = p.use, !.err = code, !.paid = p.paid, !.value = p.value,
                                !.sound = p.sound]
  BY <1>3 DEF Lost
<1> QED BY <1>2, <1>3, <1>4 DEF Invocations

\* The locals of an invocation are what they are.
LEMMA InvocationFields ==
    ASSUME NEW p \in Invocations
    PROVE  /\ p.use \in Usages \cup {None} /\ p.paid \in BOOLEAN /\ p.value \in BOOLEAN
           /\ p.sound \in BOOLEAN /\ p.err \in TaskCodes /\ p.count \in 0 .. MaxChunks
           /\ p.got \in BOOLEAN /\ p.tools \in BOOLEAN /\ p.item \in Chunks \cup {"none"}
BY DEF Invocations

\* The other attempts, the references and the kind survive a step of the current one.
LEMMA OthersKept ==
    ASSUME TaskCore, stage \notin TaskOver, kind' = kind, n' = n, refs' = refs, Elsewhere
    PROVE  RepairFromSettled' /\ OtherAttempts' /\ RefsInStage'
<1>1. n \in AttemptIds /\ n \in Nat /\ AttemptIds = 1 .. Retries + 1 /\ Retries \in Nat
  BY Numbers DEF TaskCore, TaskTypeOK
<1>2. RepairFromSettled'
  <2>1. \A i \in 1 .. n - 1 : i \in AttemptIds /\ i # n
    BY <1>1
  <2> QED BY <2>1 DEF TaskCore, RepairFromSettled, Elsewhere
<1>3. OtherAttempts'
  BY <1>1 DEF TaskCore, OtherAttempts, Elsewhere, Fresh, Closed
<1>4. RefsInStage'
  BY DEF TaskCore, RefsInStage, Streaming
<1> QED BY <1>2, <1>3, <1>4

\* The document stays what it was.
LEMMA TextKept ==
    ASSUME TaskCore, kind' = kind, n' = n, UNCHANGED text,
           kind = "plan" /\ stage' \in Opening \cup (Talking \ {"settle"}) =>
               stage \in Opening \cup (Talking \ {"settle"}),
           kind = "plan" /\ stage' \in {"settle", "accept", "finish"} =>
               stage \in {"settle", "accept", "finish"},
           kind = "plan" /\ out'[1] = "done" => out[1] = "done" \/ stage = "finish"
    PROVE  PlanCommittedExact' /\ PlanInStage'
<1>1. doc' = doc /\ shown' = shown /\ parser' = parser
  BY DEF text
<1>2. PlanCommittedExact'
  BY <1>1 DEF TaskCore, PlanCommittedExact, PlanInStage
<1>3. PlanInStage'
  BY <1>1 DEF TaskCore, PlanInStage
<1> QED BY <1>2, <1>3

\* The types of a step that stays in its attempt.
LEMMA TypesKept ==
    ASSUME TaskCore, Silent, stage' \in TaskStages, inv' \in Invocations,
           armed' \subseteq Timers, attempts' = attempts, DOMAIN spent' \subseteq attempts,
           opOf' \in [AttemptIds -> {"none", "running", "ok", "failed", "canceled"}],
           out' \in [AttemptIds -> {"none", "open", "done", "aborted"}],
           told' \in [AttemptIds -> Usages \cup {None}], hurt' \subseteq AttemptIds
    PROVE  TaskTypeOK'
BY DEF TaskCore, TaskTypeOK, Silent, call, Timers

\* What is raised before the cleanup: the attempt is left to the except clause.
LEMMA RaiseStep ==
    ASSUME TaskCore, stage \in Opening \cup Talking \cup Closing, stage' = "xSettle", Silent,
           inv' \in Invocations, inv'.err # "invalid", inv'.paid = inv.paid, armed' = {},
           UNCHANGED <<root, opOf, out, hurt>>,
           told' \in [AttemptIds -> Usages \cup {None}],
           \A i \in AttemptIds : i # n => told'[i] = told[i],
           \/ UNCHANGED text
           \/ out[n] = "open" /\ (kind = "plan" => doc' \in Seq(Records))
    PROVE  TaskCore'
<1>1. /\ kind' = kind /\ n' = n /\ refs' = refs /\ support' = support /\ opOf' = opOf /\ out' = out
      /\ hurt' = hurt
      /\ attempts' = attempts /\ spent' = spent
  BY DEF Silent, call, root
<1>2. stage \notin TaskOver \cup Cleaning
  BY DEF Opening, Talking, Closing, TaskOver, Cleaning
<1>3. RepairFromSettled' /\ OtherAttempts' /\ RefsInStage'
  BY <1>1, <1>2, OthersKept DEF Elsewhere
<1>4. TaskTypeOK'
  <2>1. stage' \in TaskStages
    BY DEF TaskStages, Cleaning
  <2> QED BY <1>1, <2>1, TypesKept DEF TaskCore, TaskTypeOK
<1>5. IdleIsTheProvider'
  BY DEF IdleIsTheProvider
<1>6. PlanCommittedExact' /\ PlanInStage'
  <2>1. CASE UNCHANGED text
    BY <1>1, <2>1, TextKept DEF Opening, Talking
  <2>2. CASE out[n] = "open" /\ (kind = "plan" => doc' \in Seq(Records))
    BY <1>1, <2>2 DEF TaskCore, PlanCommittedExact, PlanInStage, Opening, Talking
  <2> QED BY <2>1, <2>2
<1>7. AttemptInStage'
  <2>1. inv.paid => n \in DOMAIN spent
    BY <1>2 DEF TaskCore, AttemptInStage, AnswerInStage
  <2> QED BY <1>1, <2>1 DEF AttemptInStage, Opening, Talking, Closing, Cleaning, TaskOver
<1>8. AnswerInStage'
  BY DEF AnswerInStage, Opening, Talking, Cleaning
<1> QED BY <1>3, <1>4, <1>5, <1>6, <1>7, <1>8 DEF TaskCore


\* raise_if_stopped raises an error of its own.
LEMMA StopCodes ==
    ASSUME TaskCore
    PROVE  StopCode \in TaskCodes /\ StopCode # "invalid"
BY DEF TaskCore, TaskTypeOK, StopCode, TaskCodes

\* RaiseError leaves the attempt to the except clause.
LEMMA RaiseErrorStep ==
    ASSUME TaskCore, stage \in Opening \cup Talking \cup Closing, Silent,
           NEW code \in TaskCodes, code # "invalid", RaiseError(code), UNCHANGED told,
           \/ UNCHANGED text
           \/ out[n] = "open" /\ (kind = "plan" => doc' \in Seq(Records))
    PROVE  TaskCore'
<1>1. inv \in Invocations /\ told \in [AttemptIds -> Usages \cup {None}]
  BY DEF TaskCore, TaskTypeOK
<1>2. Lost(inv, code) \in Invocations /\ Lost(inv, code).err = code /\ Lost(inv, code).paid = inv.paid
  BY <1>1, InvocationFields, LostFields
<1>3. stage' = "xSettle" /\ inv' = Lost(inv, code) /\ armed' = {} /\ UNCHANGED <<root, opOf, out, hurt>>
  BY DEF RaiseError
<1> QED BY <1>1, <1>2, <1>3, RaiseStep

\* raise_if_stopped leaves the attempt to the except clause.
LEMMA FailStoppedStep ==
    ASSUME TaskCore, stage \in Opening \cup Talking \cup Closing, Silent, FailStopped,
           UNCHANGED <<text, told>>
    PROVE  TaskCore'
BY StopCodes, RaiseErrorStep DEF FailStopped

-----------------------------------------------------------------------------
(* The steps of a task: the start of an attempt.                           *)

\* _fit_call_to_context: the attempt starts, or is refused before anything is written.
LEMMA BeginStep ==
    ASSUME TaskCore, BeginAttempt
    PROVE  TaskCore'
<1>1. /\ stage = "begin" /\ Silent /\ UNCHANGED <<armed, root, opOf, out, text, told, hurt>>
      /\ \/ stage' = "start" /\ inv' = inv
         \/ stage' = "raised" /\ inv' = [inv EXCEPT !.err = "overflow"]
  BY DEF BeginAttempt
<1>2. /\ kind' = kind /\ n' = n /\ refs' = refs /\ opOf' = opOf /\ out' = out /\ hurt' = hurt
      /\ attempts' = attempts /\ spent' = spent /\ told' = told /\ support' = support /\ armed' = armed
  BY <1>1 DEF Silent, call, root
<1>3. inv \in Invocations /\ n \in AttemptIds /\ armed \subseteq Timers
  BY DEF TaskCore, TaskTypeOK
<1>4. /\ inv' \in Invocations /\ inv'.use = inv.use /\ inv'.paid = inv.paid
      /\ inv'.err # "invalid"
  BY <1>1, <1>3 DEF Invocations, TaskCodes, TaskCore, AnswerInStage, Cleaning, TaskOver
<1>5. RepairFromSettled' /\ OtherAttempts' /\ RefsInStage'
  BY <1>1, <1>2, OthersKept DEF Elsewhere, TaskOver
<1>6. TaskTypeOK'
  <2>1. stage' \in TaskStages
    BY <1>1 DEF TaskStages, Opening, Cleaning
  <2> QED BY <1>1, <1>2, <1>3, <1>4, <2>1, TypesKept DEF TaskCore, TaskTypeOK
<1>7. PlanCommittedExact' /\ PlanInStage'
  BY <1>1, <1>2, TextKept DEF Opening, Talking
<1>8. IdleIsTheProvider'
  BY <1>1, <1>2 DEF TaskCore, IdleIsTheProvider
<1>9. AttemptInStage'
  BY <1>1, <1>2, <1>4 DEF TaskCore, AttemptInStage, Fresh, Opening, Talking, Closing, Cleaning, TaskOver
<1>10. AnswerInStage'
  BY <1>1, <1>2, <1>4 DEF TaskCore, AnswerInStage, Opening, Talking, Cleaning, TaskOver
<1> QED BY <1>5, <1>6, <1>7, <1>8, <1>9, <1>10 DEF TaskCore

\* _start_operation
LEMMA StartStep ==
    ASSUME TaskCore, StartOperation
    PROVE  TaskCore'
<1>1. /\ stage = "start" /\ Silent /\ UNCHANGED <<armed, root, out, text, told, hurt>>
      /\ \/ stage' = "evidence" /\ inv' = inv /\ opOf' = [opOf EXCEPT ![n] = "running"]
         \/ stage' = "raised" /\ inv' = [inv EXCEPT !.err = "store", !.sound = FALSE] /\ opOf' = opOf
  BY DEF StartOperation, Go
<1>2. /\ kind' = kind /\ n' = n /\ refs' = refs /\ out' = out /\ hurt' = hurt
      /\ attempts' = attempts /\ spent' = spent /\ told' = told /\ support' = support /\ armed' = armed
  BY <1>1 DEF Silent, call, root
<1>3. /\ inv \in Invocations /\ n \in AttemptIds /\ armed \subseteq Timers
      /\ opOf \in [AttemptIds -> {"none", "running", "ok", "failed", "canceled"}]
  BY DEF TaskCore, TaskTypeOK
<1>4. /\ inv' \in Invocations /\ inv'.use = inv.use /\ inv'.paid = inv.paid
      /\ inv'.err # "invalid"
  BY <1>1, <1>3 DEF Invocations, TaskCodes, TaskCore, AnswerInStage, Cleaning, TaskOver
<1>5. RepairFromSettled' /\ OtherAttempts' /\ RefsInStage'
  BY <1>1, <1>2, <1>3, OthersKept DEF Elsewhere, TaskOver
<1>6. TaskTypeOK'
  <2>1. stage' \in TaskStages
    BY <1>1 DEF TaskStages, Opening, Cleaning
  <2>2. opOf' \in [AttemptIds -> {"none", "running", "ok", "failed", "canceled"}]
    BY <1>1, <1>3
  <2> QED BY <1>1, <1>2, <1>3, <1>4, <2>1, <2>2, TypesKept DEF TaskCore, TaskTypeOK
<1>7. PlanCommittedExact' /\ PlanInStage'
  BY <1>1, <1>2, TextKept DEF Opening, Talking
<1>8. IdleIsTheProvider'
  BY <1>1, <1>2 DEF TaskCore, IdleIsTheProvider
<1>9. AttemptInStage'
  BY <1>1, <1>2, <1>3, <1>4
     DEF TaskCore, AttemptInStage, Fresh, Opening, Talking, Closing, Cleaning, TaskOver
<1>10. AnswerInStage'
  BY <1>1, <1>2, <1>4 DEF TaskCore, AnswerInStage, Opening, Talking, Cleaning, TaskOver
<1> QED BY <1>5, <1>6, <1>7, <1>8, <1>9, <1>10 DEF TaskCore


\* A step of the current attempt that leaves the document alone.
LEMMA MoveStep ==
    ASSUME TaskCore, Silent, UNCHANGED text, stage \notin TaskOver, stage' \in TaskStages,
           inv' \in Invocations, armed' \subseteq Timers, attempts' = attempts,
           DOMAIN spent' \subseteq attempts,
           opOf' \in [AttemptIds -> {"none", "running", "ok", "failed", "canceled"}],
           out' \in [AttemptIds -> {"none", "open", "done", "aborted"}],
           told' \in [AttemptIds -> Usages \cup {None}], hurt' \subseteq AttemptIds, Elsewhere,
           kind = "plan" /\ stage' \in Opening \cup (Talking \ {"settle"}) =>
               stage \in Opening \cup (Talking \ {"settle"}),
           kind = "plan" /\ stage' \in {"settle", "accept", "finish"} =>
               stage \in {"settle", "accept", "finish"},
           kind = "plan" /\ out'[1] = "done" => out[1] = "done" \/ stage = "finish",
           IdleIsTheProvider', AttemptInStage', AnswerInStage'
    PROVE  TaskCore'
<1>1. kind' = kind /\ n' = n /\ refs' = refs
  BY DEF Silent, call
<1>2. RepairFromSettled' /\ OtherAttempts' /\ RefsInStage'
  BY <1>1, OthersKept
<1>3. TaskTypeOK'
  BY TypesKept
<1>4. PlanCommittedExact' /\ PlanInStage'
  BY <1>1, TextKept
<1> QED BY <1>2, <1>3, <1>4 DEF TaskCore

\* A step from one await to the next: nothing but the stage and the timers changes.
LEMMA GoStep ==
    ASSUME TaskCore, Silent, UNCHANGED <<inv, root, opOf, out, hurt, text, told>>,
           stage \notin TaskOver, stage' \in TaskStages, armed' \subseteq Timers,
           kind = "plan" /\ stage' \in Opening \cup (Talking \ {"settle"}) =>
               stage \in Opening \cup (Talking \ {"settle"}),
           kind = "plan" /\ stage' \in {"settle", "accept", "finish"} =>
               stage \in {"settle", "accept", "finish"},
           IdleIsTheProvider', AttemptInStage', AnswerInStage'
    PROVE  TaskCore'
<1>1. /\ inv' = inv /\ attempts' = attempts /\ spent' = spent /\ opOf' = opOf /\ out' = out
      /\ hurt' = hurt /\ told' = told /\ UNCHANGED text /\ n' = n
  BY DEF root, Silent
<1>2. /\ inv \in Invocations /\ DOMAIN spent \subseteq attempts
      /\ opOf \in [AttemptIds -> {"none", "running", "ok", "failed", "canceled"}]
      /\ out \in [AttemptIds -> {"none", "open", "done", "aborted"}]
      /\ told \in [AttemptIds -> Usages \cup {None}] /\ hurt \subseteq AttemptIds
  BY DEF TaskCore, TaskTypeOK
<1>3. Elsewhere
  BY <1>1 DEF Elsewhere
<1> QED BY <1>1, <1>2, <1>3, MoveStep

\* The stages, spelled out for the moves between them.
LEMMA Stages ==
    /\ TaskOver = {"done", "failed", "closed", "abandoned"}
    /\ Opening \cup Talking \cup Closing \cup Cleaning \cup TaskOver = TaskStages
    /\ {"begin", "start", "evidence", "reserve", "open"} \subseteq Opening
    /\ {"dispatch", "call", "opened", "read", "persist", "parse", "held", "settle"} \subseteq Talking
    /\ {"accept", "cutAbort", "cutOperation", "finish", "succeed", "returned"} \subseteq Closing
    /\ {"xSettle", "xAbort", "xOperation", "raised"} \subseteq Cleaning
    /\ \A s \in Opening \cup Talking \cup Closing \cup Cleaning : s \notin TaskOver
    /\ \A s \in Closing \cup Cleaning : s \notin Opening \cup Talking
    /\ \A s \in Opening \cup Talking \cup Closing : s \notin Cleaning
BY DEF TaskStages, Opening, Talking, Closing, Cleaning, TaskOver

\* _validate_evidence
LEMMA EvidenceStep ==
    ASSUME TaskCore, Evidence
    PROVE  TaskCore'
<1>1. stage = "evidence" /\ Silent /\ UNCHANGED <<text, told>>
  BY DEF Evidence
<1>2. stage \in Opening \cup Talking \cup Closing
  BY <1>1, Stages
<1>3. CASE Go("reserve") /\ UNCHANGED <<inv, armed, root, opOf, out, hurt>>
  <2>1. stage' = "reserve" /\ armed' = armed /\ UNCHANGED <<inv, root, opOf, out, hurt, text, told>>
    BY <1>1, <1>3 DEF Go
  <2>2. /\ kind' = kind /\ n' = n /\ support' = support /\ attempts' = attempts /\ spent' = spent
        /\ opOf' = opOf /\ out' = out /\ inv' = inv /\ told' = told /\ armed' = armed
    BY <1>1, <2>1 DEF Silent, call, root
  <2>3. IdleIsTheProvider'
    BY <1>1, <2>1, <2>2 DEF TaskCore, IdleIsTheProvider
  <2>4. AttemptInStage'
    BY <1>1, <2>1, <2>2 DEF TaskCore, AttemptInStage, Opening, Talking, Closing, Cleaning, TaskOver
  <2>5. AnswerInStage'
    BY <1>1, <2>1, <2>2 DEF TaskCore, AnswerInStage, Opening, Talking, Cleaning, TaskOver
  <2>6. armed' \subseteq Timers
    BY <2>1 DEF TaskCore, TaskTypeOK
  <2>7. stage \in Opening /\ stage \notin TaskOver /\ stage' \in TaskStages /\ stage' \notin {"settle", "accept", "finish"}
    BY <1>1, <2>1, Stages
  <2> QED BY <1>1, <2>1, <2>3, <2>4, <2>5, <2>6, <2>7, GoStep
<1>4. CASE FailStopped
  BY <1>1, <1>2, <1>4, FailStoppedStep
<1>5. CASE Fault /\ RaiseError("evidence")
  <2>1. "evidence" \in TaskCodes /\ "evidence" # "invalid"
    BY DEF TaskCodes
  <2> QED BY <1>1, <1>2, <1>5, <2>1, RaiseErrorStep
<1> QED BY <1>3, <1>4, <1>5 DEF Evidence

\* The attempts of the tree are few enough to count.
LEMMA AttemptsFinite ==
    ASSUME TaskTypeOK
    PROVE  IsFiniteSet(attempts)
<1>1. IsFiniteSet(AttemptIds)
  <2>1. 1 \in Int /\ Retries + 1 \in Int
    BY TaskAssumption
  <2> QED BY <2>1, FS_Interval DEF AttemptIds
<1>2. IsFiniteSet(PeerIds)
  <2>1. Retries + 2 \in Int /\ Retries + 1 + Peers \in Int
    BY TaskAssumption
  <2> QED BY <2>1, FS_Interval DEF PeerIds
<1>3. IsFiniteSet(AttemptIds \cup PeerIds)
  BY <1>1, <1>2, FS_Union
<1>4. attempts \in SUBSET (AttemptIds \cup PeerIds)
  BY DEF TaskTypeOK
<1> QED BY <1>3, <1>4, FS_Subset

\* reserve_model_attempt: one more attempt within the limit.
LEMMA Reserves ==
    ASSUME TaskTypeOK, NEW i, i \in AttemptIds \cup PeerIds, Cardinality(attempts) < MaxAttempts
    PROVE  /\ attempts \cup {i} \subseteq AttemptIds \cup PeerIds
           /\ Cardinality(attempts \cup {i}) <= MaxAttempts
<1>1. IsFiniteSet(attempts)
  BY AttemptsFinite
<1>2. Cardinality(attempts) \in Nat
  BY <1>1, FS_CardinalityType
<1>3. Cardinality(attempts \cup {i}) = IF i \in attempts THEN Cardinality(attempts) ELSE Cardinality(attempts) + 1
  BY <1>1, FS_AddElement
<1>4. Cardinality(attempts \cup {i}) <= MaxAttempts
  BY <1>2, <1>3, TaskAssumption
<1> QED BY <1>4 DEF TaskTypeOK

\* reserve_model_attempt under the limit of the tree.
LEMMA ReserveStep ==
    ASSUME TaskCore, ReserveAttempt
    PROVE  TaskCore'
<1>1. stage = "reserve" /\ Silent /\ UNCHANGED <<text, told>>
  BY DEF ReserveAttempt
<1>2. stage \in Opening \cup Talking \cup Closing
  BY <1>1, Stages
<1>3. CASE /\ Cardinality(attempts) < MaxAttempts
           /\ attempts' = attempts \cup {n} /\ Go("open")
           /\ UNCHANGED <<inv, armed, spent, opOf, out, hurt>>
  <2>1. /\ stage' = "open" /\ armed' = armed /\ inv' = inv /\ spent' = spent /\ opOf' = opOf /\ out' = out
        /\ hurt' = hurt /\ told' = told /\ kind' = kind /\ n' = n /\ refs' = refs /\ support' = support
        /\ why' = why /\ UNCHANGED text
    BY <1>1, <1>3 DEF Go, Silent, call
  <2>2. n \in AttemptIds
    BY DEF TaskCore, TaskTypeOK
  <2>3. TaskTypeOK'
    <3>1. attempts' \subseteq AttemptIds \cup PeerIds /\ Cardinality(attempts') <= MaxAttempts
      BY <1>3, <2>2, Reserves DEF TaskCore
    <3>2. stage' \in TaskStages
      BY <2>1, Stages
    <3> QED BY <1>3, <2>1, <3>1, <3>2 DEF TaskCore, TaskTypeOK, Timers
  <2>4. RepairFromSettled' /\ OtherAttempts' /\ RefsInStage'
    BY <1>1, <1>3, <2>1, OthersKept DEF Elsewhere, TaskOver
  <2>5. PlanCommittedExact' /\ PlanInStage'
    BY <1>1, <2>1, TextKept DEF Opening
  <2>6. IdleIsTheProvider'
    BY <1>1, <2>1 DEF TaskCore, IdleIsTheProvider
  <2>7. AttemptInStage'
    BY <1>1, <1>3, <2>1 DEF TaskCore, AttemptInStage, Opening, Talking, Closing, Cleaning, TaskOver
  <2>8. AnswerInStage'
    BY <1>1, <2>1 DEF TaskCore, AnswerInStage, Opening, Talking, Cleaning, TaskOver
  <2> QED BY <2>3, <2>4, <2>5, <2>6, <2>7, <2>8 DEF TaskCore
<1>4. CASE Cardinality(attempts) >= MaxAttempts /\ Calm /\ RaiseError("budget")
  <2>1. "budget" \in TaskCodes /\ "budget" # "invalid"
    BY DEF TaskCodes
  <2> QED BY <1>1, <1>2, <1>4, <2>1, RaiseErrorStep
<1>5. CASE Fault /\ RaiseError("store")
  <2>1. "store" \in TaskCodes /\ "store" # "invalid"
    BY DEF TaskCodes
  <2> QED BY <1>1, <1>2, <1>5, <2>1, RaiseErrorStep
<1> QED BY <1>3, <1>4, <1>5 DEF ReserveAttempt


\* An await of a store that raises.
LEMMA StoreFails ==
    ASSUME TaskCore, stage \in Opening \cup Talking \cup Closing, Silent, RaiseError("store"),
           UNCHANGED <<text, told>>
    PROVE  TaskCore'
<1>1. "store" \in TaskCodes /\ "store" # "invalid"
  BY DEF TaskCodes
<1> QED BY <1>1, RaiseErrorStep

\* open_model_stream: the stream of the attempt is open, or the attempt is given up.
LEMMA OpenStep ==
    ASSUME TaskCore, OpenStream
    PROVE  TaskCore'
<1>1. stage = "open" /\ Silent /\ UNCHANGED <<text, told>>
  BY DEF OpenStream
<1>2. stage \in Opening \cup Talking \cup Closing
  BY <1>1, Stages
<1>3. CASE /\ out' = [out EXCEPT ![n] = "open"] /\ Go("dispatch")
           /\ UNCHANGED <<inv, armed, root, opOf, hurt>>
  <2>1. /\ stage' = "dispatch" /\ out' = [out EXCEPT ![n] = "open"] /\ opOf' = opOf /\ inv' = inv
        /\ armed' = armed /\ kind' = kind /\ n' = n /\ support' = support /\ attempts' = attempts
        /\ spent' = spent /\ hurt' = hurt /\ told' = told
    BY <1>1, <1>3 DEF Go, Silent, call, root
  <2>2. /\ inv \in Invocations /\ n \in AttemptIds /\ armed \subseteq Timers
        /\ DOMAIN spent \subseteq attempts
        /\ opOf \in [AttemptIds -> {"none", "running", "ok", "failed", "canceled"}]
        /\ out \in [AttemptIds -> {"none", "open", "done", "aborted"}]
        /\ told \in [AttemptIds -> Usages \cup {None}] /\ hurt \subseteq AttemptIds
    BY DEF TaskCore, TaskTypeOK
  <2>3. /\ out' \in [AttemptIds -> {"none", "open", "done", "aborted"}] /\ out'[n] = "open"
        /\ \A i \in AttemptIds : i # n => out'[i] = out[i]
    BY <2>1, <2>2
  <2>4. inv' \in Invocations /\ inv'.use = inv.use /\ inv'.paid = inv.paid /\ inv'.err # "invalid"
    BY <1>1, <2>1, <2>2 DEF Invocations, TaskCodes, TaskCore, AnswerInStage, Cleaning, TaskOver
  <2>5. Elsewhere
    BY <2>1, <2>3 DEF Elsewhere
  <2>6. IdleIsTheProvider'
    BY <1>1, <2>1 DEF TaskCore, IdleIsTheProvider
  <2>7. AttemptInStage'
    BY <1>1, <2>1, <2>2, <2>3 DEF TaskCore, AttemptInStage, Opening, Talking, Closing, Cleaning, TaskOver
  <2>8. AnswerInStage'
    BY <1>1, <2>1, <2>4 DEF TaskCore, AnswerInStage, Opening, Talking, Cleaning, TaskOver
  <2>9. /\ stage \notin TaskOver /\ stage' \in TaskStages
        /\ stage' \in Opening \cup (Talking \ {"settle"}) => stage \in Opening \cup (Talking \ {"settle"})
        /\ stage' \in {"settle", "accept", "finish"} => stage \in {"settle", "accept", "finish"}
        /\ kind = "plan" /\ out'[1] = "done" => out[1] = "done" \/ stage = "finish"
    BY <1>1, <2>1, <2>2, <2>3, Numbers DEF TaskStages, Opening, Talking, Closing, Cleaning, TaskOver
  <2> QED BY <1>1, <2>1, <2>2, <2>3, <2>4, <2>5, <2>6, <2>7, <2>8, <2>9, MoveStep
<1>4. CASE Fault /\ RaiseError("store")
  BY <1>1, <1>2, <1>4, StoreFails
<1> QED BY <1>3, <1>4 DEF OpenStream

\* raise_if_stopped, and the call of the Gateway.
LEMMA CallStep ==
    ASSUME TaskCore, CallProvider
    PROVE  TaskCore'
<1>1. stage = "dispatch" /\ Silent /\ UNCHANGED <<text, told>>
  BY DEF CallProvider
<1>2. stage \in Opening \cup Talking \cup Closing
  BY <1>1, Stages
<1>3. CASE ~SignalSet /\ Go("call") /\ UNCHANGED <<inv, armed, root, opOf, out, hurt>>
  <2>1. /\ stage' = "call" /\ armed' = armed /\ UNCHANGED <<inv, root, opOf, out, hurt, text, told>>
        /\ kind' = kind /\ n' = n /\ support' = support /\ attempts' = attempts /\ spent' = spent
        /\ opOf' = opOf /\ out' = out /\ inv' = inv /\ told' = told
    BY <1>1, <1>3 DEF Go, Silent, call, root
  <2>2. IdleIsTheProvider' /\ armed' \subseteq Timers
    BY <1>1, <2>1 DEF TaskCore, TaskTypeOK, IdleIsTheProvider
  <2>3. AttemptInStage'
    BY <1>1, <2>1 DEF TaskCore, AttemptInStage, Opening, Talking, Closing, Cleaning, TaskOver
  <2>4. AnswerInStage'
    BY <1>1, <2>1 DEF TaskCore, AnswerInStage, Opening, Talking, Cleaning, TaskOver
  <2>5. /\ stage \notin TaskOver /\ stage' \in TaskStages
        /\ stage' \in Opening \cup (Talking \ {"settle"}) => stage \in Opening \cup (Talking \ {"settle"})
        /\ stage' \in {"settle", "accept", "finish"} => stage \in {"settle", "accept", "finish"}
    BY <1>1, <2>1 DEF TaskStages, Opening, Talking, Closing, Cleaning, TaskOver
  <2> QED BY <1>1, <2>1, <2>2, <2>3, <2>4, <2>5, GoStep
<1>4. CASE FailStopped
  BY <1>1, <1>2, <1>4, FailStoppedStep
<1> QED BY <1>3, <1>4 DEF CallProvider

\* The host begins to read its stream.
LEMMA HostStartStep ==
    ASSUME TaskCore, HostStart
    PROVE  TaskCore'
<1>1. stage = "opened" /\ Silent /\ UNCHANGED <<text, told>>
  BY DEF HostStart
<1>2. stage \in Opening \cup Talking \cup Closing
  BY <1>1, Stages
<1>3. CASE Go("read") /\ UNCHANGED <<inv, armed, root, opOf, out, hurt>>
  <2>1. /\ stage' = "read" /\ armed' = armed /\ UNCHANGED <<inv, root, opOf, out, hurt, text, told>>
        /\ kind' = kind /\ n' = n /\ support' = support /\ attempts' = attempts /\ spent' = spent
        /\ opOf' = opOf /\ out' = out /\ inv' = inv /\ told' = told
    BY <1>1, <1>3 DEF Go, Silent, call, root
  <2>2. IdleIsTheProvider' /\ armed' \subseteq Timers
    BY <1>1, <2>1 DEF TaskCore, TaskTypeOK, IdleIsTheProvider
  <2>3. AttemptInStage'
    BY <1>1, <2>1 DEF TaskCore, AttemptInStage, Opening, Talking, Closing, Cleaning, TaskOver
  <2>4. AnswerInStage'
    BY <1>1, <2>1 DEF TaskCore, AnswerInStage, Opening, Talking, Cleaning, TaskOver
  <2>5. /\ stage \notin TaskOver /\ stage' \in TaskStages
        /\ stage' \in Opening \cup (Talking \ {"settle"}) => stage \in Opening \cup (Talking \ {"settle"})
        /\ stage' \in {"settle", "accept", "finish"} => stage \in {"settle", "accept", "finish"}
    BY <1>1, <2>1 DEF TaskStages, Opening, Talking, Closing, Cleaning, TaskOver
  <2> QED BY <1>1, <2>1, <2>2, <2>3, <2>4, <2>5, GoStep
<1> QED BY <1>3 DEF HostStart

\* The host closes its stream before the first read.
LEMMA HostCloseUnreadStep ==
    ASSUME TaskCore, HostCloseUnread
    PROVE  TaskCore'
<1>1. stage = "opened" /\ Silent /\ UNCHANGED <<text, told>>
  BY DEF HostCloseUnread
<1>2. stage \in Opening \cup Talking \cup Closing
  BY <1>1, Stages
<1>3. CASE Go("abandoned") /\ UNCHANGED <<inv, armed, root, opOf, out, hurt>>
  <2>1. /\ stage' = "abandoned" /\ armed' = armed /\ UNCHANGED <<inv, root, opOf, out, hurt, text, told>>
        /\ kind' = kind /\ n' = n /\ support' = support /\ attempts' = attempts /\ spent' = spent
        /\ opOf' = opOf /\ out' = out /\ inv' = inv /\ told' = told
    BY <1>1, <1>3 DEF Go, Silent, call, root
  <2>2. IdleIsTheProvider' /\ armed' \subseteq Timers
    BY <1>1, <2>1 DEF TaskCore, TaskTypeOK, IdleIsTheProvider
  <2>3. AttemptInStage'
    BY <1>1, <2>1 DEF TaskCore, AttemptInStage, Opening, Talking, Closing, Cleaning, TaskOver
  <2>4. AnswerInStage'
    BY <1>1, <2>1 DEF TaskCore, AnswerInStage, Opening, Talking, Cleaning, TaskOver
  <2>5. /\ stage \notin TaskOver /\ stage' \in TaskStages
        /\ stage' \in Opening \cup (Talking \ {"settle"}) => stage \in Opening \cup (Talking \ {"settle"})
        /\ stage' \in {"settle", "accept", "finish"} => stage \in {"settle", "accept", "finish"}
    BY <1>1, <2>1 DEF TaskStages, Opening, Talking, Closing, Cleaning, TaskOver
  <2> QED BY <1>1, <2>1, <2>2, <2>3, <2>4, <2>5, GoStep
<1> QED BY <1>3 DEF HostCloseUnread

\* The whole answer of a structured task goes to the output as one chunk.
LEMMA AcceptStep ==
    ASSUME TaskCore, Accept
    PROVE  TaskCore'
<1>1. stage = "accept" /\ Silent /\ UNCHANGED <<text, told>>
  BY DEF Accept
<1>2. stage \in Opening \cup Talking \cup Closing
  BY <1>1, Stages
<1>3. CASE Go("finish") /\ UNCHANGED <<inv, armed, root, opOf, out, hurt>>
  <2>1. /\ stage' = "finish" /\ armed' = armed /\ UNCHANGED <<inv, root, opOf, out, hurt, text, told>>
        /\ kind' = kind /\ n' = n /\ support' = support /\ attempts' = attempts /\ spent' = spent
        /\ opOf' = opOf /\ out' = out /\ inv' = inv /\ told' = told
    BY <1>1, <1>3 DEF Go, Silent, call, root
  <2>2. IdleIsTheProvider' /\ armed' \subseteq Timers
    BY <1>1, <2>1 DEF TaskCore, TaskTypeOK, IdleIsTheProvider
  <2>3. AttemptInStage'
    BY <1>1, <2>1 DEF TaskCore, AttemptInStage, Opening, Talking, Closing, Cleaning, TaskOver
  <2>4. AnswerInStage'
    BY <1>1, <2>1 DEF TaskCore, AnswerInStage, Opening, Talking, Cleaning, TaskOver
  <2>5. /\ stage \notin TaskOver /\ stage' \in TaskStages
        /\ stage' \in Opening \cup (Talking \ {"settle"}) => stage \in Opening \cup (Talking \ {"settle"})
        /\ stage' \in {"settle", "accept", "finish"} => stage \in {"settle", "accept", "finish"}
    BY <1>1, <2>1 DEF TaskStages, Opening, Talking, Closing, Cleaning, TaskOver
  <2> QED BY <1>1, <2>1, <2>2, <2>3, <2>4, <2>5, GoStep
<1>4. CASE Fault /\ RaiseError("store")
  BY <1>1, <1>2, <1>4, StoreFails
<1> QED BY <1>3, <1>4 DEF Accept

\* The stream of the attempt is committed; what a plan commits is the document.
LEMMA FinishStep ==
    ASSUME TaskCore, Finish
    PROVE  TaskCore'
<1>1. stage = "finish" /\ Silent /\ UNCHANGED <<text, told>>
  BY DEF Finish
<1>2. stage \in Opening \cup Talking \cup Closing
  BY <1>1, Stages
<1>3. CASE /\ out' = [out EXCEPT ![n] = "done"] /\ Go("succeed")
           /\ UNCHANGED <<inv, armed, root, opOf, hurt>>
  <2>1. /\ stage' = "succeed" /\ out' = [out EXCEPT ![n] = "done"] /\ opOf' = opOf /\ inv' = inv
        /\ armed' = armed /\ kind' = kind /\ n' = n /\ support' = support /\ attempts' = attempts
        /\ spent' = spent /\ hurt' = hurt /\ told' = told
    BY <1>1, <1>3 DEF Go, Silent, call, root
  <2>2. /\ inv \in Invocations /\ n \in AttemptIds /\ armed \subseteq Timers
        /\ DOMAIN spent \subseteq attempts
        /\ opOf \in [AttemptIds -> {"none", "running", "ok", "failed", "canceled"}]
        /\ out \in [AttemptIds -> {"none", "open", "done", "aborted"}]
        /\ told \in [AttemptIds -> Usages \cup {None}] /\ hurt \subseteq AttemptIds
    BY DEF TaskCore, TaskTypeOK
  <2>3. /\ out' \in [AttemptIds -> {"none", "open", "done", "aborted"}] /\ out'[n] = "done"
        /\ \A i \in AttemptIds : i # n => out'[i] = out[i]
    BY <2>1, <2>2
  <2>4. inv' \in Invocations /\ inv'.use = inv.use /\ inv'.paid = inv.paid /\ inv'.err # "invalid"
    BY <1>1, <2>1, <2>2 DEF Invocations, TaskCodes, TaskCore, AnswerInStage, Cleaning, TaskOver
  <2>5. Elsewhere
    BY <2>1, <2>3 DEF Elsewhere
  <2>6. IdleIsTheProvider'
    BY <1>1, <2>1 DEF TaskCore, IdleIsTheProvider
  <2>7. AttemptInStage'
    BY <1>1, <2>1, <2>2, <2>3 DEF TaskCore, AttemptInStage, Opening, Talking, Closing, Cleaning, TaskOver
  <2>8. AnswerInStage'
    BY <1>1, <2>1, <2>4 DEF TaskCore, AnswerInStage, Opening, Talking, Cleaning, TaskOver
  <2>9. /\ stage \notin TaskOver /\ stage' \in TaskStages
        /\ stage' \in Opening \cup (Talking \ {"settle"}) => stage \in Opening \cup (Talking \ {"settle"})
        /\ stage' \in {"settle", "accept", "finish"} => stage \in {"settle", "accept", "finish"}
        /\ kind = "plan" /\ out'[1] = "done" => out[1] = "done" \/ stage = "finish"
    BY <1>1, <2>1, <2>2, <2>3, Numbers DEF TaskStages, Opening, Talking, Closing, Cleaning, TaskOver
  <2> QED BY <1>1, <2>1, <2>2, <2>3, <2>4, <2>5, <2>6, <2>7, <2>8, <2>9, MoveStep
<1>4. CASE Fault /\ RaiseError("store")
  BY <1>1, <1>2, <1>4, StoreFails
<1> QED BY <1>3, <1>4 DEF Finish

\* The operation of the attempt succeeds.
LEMMA SucceedStep ==
    ASSUME TaskCore, Succeed
    PROVE  TaskCore'
<1>1. stage = "succeed" /\ Silent /\ UNCHANGED <<text, told>>
  BY DEF Succeed
<1>2. stage \in Opening \cup Talking \cup Closing
  BY <1>1, Stages
<1>3. CASE /\ opOf' = [opOf EXCEPT ![n] = "ok"] /\ Go("returned")
           /\ UNCHANGED <<inv, armed, root, out, hurt>>
  <2>1. /\ stage' = "returned" /\ opOf' = [opOf EXCEPT ![n] = "ok"] /\ out' = out /\ inv' = inv
        /\ armed' = armed /\ kind' = kind /\ n' = n /\ support' = support /\ attempts' = attempts
        /\ spent' = spent /\ hurt' = hurt /\ told' = told
    BY <1>1, <1>3 DEF Go, Silent, call, root
  <2>2. /\ inv \in Invocations /\ n \in AttemptIds /\ armed \subseteq Timers
        /\ DOMAIN spent \subseteq attempts
        /\ opOf \in [AttemptIds -> {"none", "running", "ok", "failed", "canceled"}]
        /\ out \in [AttemptIds -> {"none", "open", "done", "aborted"}]
        /\ told \in [AttemptIds -> Usages \cup {None}] /\ hurt \subseteq AttemptIds
    BY DEF TaskCore, TaskTypeOK
  <2>3. /\ opOf' \in [AttemptIds -> {"none", "running", "ok", "failed", "canceled"}] /\ opOf'[n] = "ok"
        /\ \A i \in AttemptIds : i # n => opOf'[i] = opOf[i]
    BY <2>1, <2>2
  <2>4. inv' \in Invocations /\ inv'.use = inv.use /\ inv'.paid = inv.paid /\ inv'.err # "invalid"
    BY <1>1, <2>1, <2>2 DEF Invocations, TaskCodes, TaskCore, AnswerInStage, Cleaning, TaskOver
  <2>5. Elsewhere
    BY <2>1, <2>3 DEF Elsewhere
  <2>6. IdleIsTheProvider'
    BY <1>1, <2>1 DEF TaskCore, IdleIsTheProvider
  <2>7. AttemptInStage'
    BY <1>1, <2>1, <2>2, <2>3 DEF TaskCore, AttemptInStage, Opening, Talking, Closing, Cleaning, TaskOver
  <2>8. AnswerInStage'
    BY <1>1, <2>1, <2>4 DEF TaskCore, AnswerInStage, Opening, Talking, Cleaning, TaskOver
  <2>9. /\ stage \notin TaskOver /\ stage' \in TaskStages
        /\ stage' \in Opening \cup (Talking \ {"settle"}) => stage \in Opening \cup (Talking \ {"settle"})
        /\ stage' \in {"settle", "accept", "finish"} => stage \in {"settle", "accept", "finish"}
        /\ kind = "plan" /\ out'[1] = "done" => out[1] = "done" \/ stage = "finish"
    BY <1>1, <2>1, <2>2, <2>3, Numbers DEF TaskStages, Opening, Talking, Closing, Cleaning, TaskOver
  <2> QED BY <1>1, <2>1, <2>2, <2>3, <2>4, <2>5, <2>6, <2>7, <2>8, <2>9, MoveStep
<1>4. CASE Fault /\ RaiseError("store")
  BY <1>1, <1>2, <1>4, StoreFails
<1> QED BY <1>3, <1>4 DEF Succeed

\* A truncated stream is aborted before its error is raised.
LEMMA CutAbortStep ==
    ASSUME TaskCore, CutAbort
    PROVE  TaskCore'
<1>1. stage = "cutAbort" /\ Silent /\ UNCHANGED <<text, told>>
  BY DEF CutAbort
<1>2. stage \in Opening \cup Talking \cup Closing
  BY <1>1, Stages
<1>3. CASE /\ out' = [out EXCEPT ![n] = "aborted"] /\ Go("cutOperation")
           /\ inv' = [inv EXCEPT !.err = "cut"]
           /\ UNCHANGED <<armed, root, opOf, hurt>>
  <2>1. /\ stage' = "cutOperation" /\ out' = [out EXCEPT ![n] = "aborted"] /\ opOf' = opOf
        /\ inv' = [inv EXCEPT !.err = "cut"]
        /\ armed' = armed /\ kind' = kind /\ n' = n /\ support' = support /\ attempts' = attempts
        /\ spent' = spent /\ hurt' = hurt /\ told' = told
    BY <1>1, <1>3 DEF Go, Silent, call, root
  <2>2. /\ inv \in Invocations /\ n \in AttemptIds /\ armed \subseteq Timers
        /\ DOMAIN spent \subseteq attempts
        /\ opOf \in [AttemptIds -> {"none", "running", "ok", "failed", "canceled"}]
        /\ out \in [AttemptIds -> {"none", "open", "done", "aborted"}]
        /\ told \in [AttemptIds -> Usages \cup {None}] /\ hurt \subseteq AttemptIds
    BY DEF TaskCore, TaskTypeOK
  <2>3. /\ out' \in [AttemptIds -> {"none", "open", "done", "aborted"}] /\ out'[n] = "aborted"
        /\ \A i \in AttemptIds : i # n => out'[i] = out[i]
    BY <2>1, <2>2
  <2>4. inv' \in Invocations /\ inv'.use = inv.use /\ inv'.paid = inv.paid /\ inv'.err # "invalid"
    BY <1>1, <2>1, <2>2 DEF Invocations, TaskCodes, TaskCore, AnswerInStage, Cleaning, TaskOver
  <2>5. Elsewhere
    BY <2>1, <2>3 DEF Elsewhere
  <2>6. IdleIsTheProvider'
    BY <1>1, <2>1 DEF TaskCore, IdleIsTheProvider
  <2>7. AttemptInStage'
    BY <1>1, <2>1, <2>2, <2>3 DEF TaskCore, AttemptInStage, Opening, Talking, Closing, Cleaning, TaskOver
  <2>8. AnswerInStage'
    BY <1>1, <2>1, <2>4 DEF TaskCore, AnswerInStage, Opening, Talking, Cleaning, TaskOver
  <2>9. /\ stage \notin TaskOver /\ stage' \in TaskStages
        /\ stage' \in Opening \cup (Talking \ {"settle"}) => stage \in Opening \cup (Talking \ {"settle"})
        /\ stage' \in {"settle", "accept", "finish"} => stage \in {"settle", "accept", "finish"}
        /\ kind = "plan" /\ out'[1] = "done" => out[1] = "done" \/ stage = "finish"
    BY <1>1, <2>1, <2>2, <2>3, Numbers DEF TaskStages, Opening, Talking, Closing, Cleaning, TaskOver
  <2> QED BY <1>1, <2>1, <2>2, <2>3, <2>4, <2>5, <2>6, <2>7, <2>8, <2>9, MoveStep
<1>4. CASE Fault /\ RaiseError("store")
  BY <1>1, <1>2, <1>4, StoreFails
<1> QED BY <1>3, <1>4 DEF CutAbort

\* The operation of a truncated stream fails.
LEMMA CutOperationStep ==
    ASSUME TaskCore, CutOperation
    PROVE  TaskCore'
<1>1. stage = "cutOperation" /\ Silent /\ UNCHANGED <<text, told>>
  BY DEF CutOperation
<1>2. stage \in Opening \cup Talking \cup Closing
  BY <1>1, Stages
<1>3. CASE /\ opOf' = [opOf EXCEPT ![n] = "failed"] /\ Go("raised")
           /\ UNCHANGED <<inv, armed, root, out, hurt>>
  <2>1. /\ stage' = "raised" /\ opOf' = [opOf EXCEPT ![n] = "failed"] /\ out' = out /\ inv' = inv
        /\ armed' = armed /\ kind' = kind /\ n' = n /\ support' = support /\ attempts' = attempts
        /\ spent' = spent /\ hurt' = hurt /\ told' = told
    BY <1>1, <1>3 DEF Go, Silent, call, root
  <2>2. /\ inv \in Invocations /\ n \in AttemptIds /\ armed \subseteq Timers
        /\ DOMAIN spent \subseteq attempts
        /\ opOf \in [AttemptIds -> {"none", "running", "ok", "failed", "canceled"}]
        /\ out \in [AttemptIds -> {"none", "open", "done", "aborted"}]
        /\ told \in [AttemptIds -> Usages \cup {None}] /\ hurt \subseteq AttemptIds
    BY DEF TaskCore, TaskTypeOK
  <2>3. /\ opOf' \in [AttemptIds -> {"none", "running", "ok", "failed", "canceled"}] /\ opOf'[n] = "failed"
        /\ \A i \in AttemptIds : i # n => opOf'[i] = opOf[i]
    BY <2>1, <2>2
  <2>4. inv' \in Invocations /\ inv'.use = inv.use /\ inv'.paid = inv.paid /\ inv'.err # "invalid"
    BY <1>1, <2>1, <2>2 DEF Invocations, TaskCodes, TaskCore, AnswerInStage, Cleaning, TaskOver
  <2>5. Elsewhere
    BY <2>1, <2>3 DEF Elsewhere
  <2>6. IdleIsTheProvider'
    BY <1>1, <2>1 DEF TaskCore, IdleIsTheProvider
  <2>7. AttemptInStage'
    BY <1>1, <2>1, <2>2, <2>3 DEF TaskCore, AttemptInStage, Opening, Talking, Closing, Cleaning, TaskOver
  <2>8. AnswerInStage'
    BY <1>1, <2>1, <2>4 DEF TaskCore, AnswerInStage, Opening, Talking, Cleaning, TaskOver
  <2>9. /\ stage \notin TaskOver /\ stage' \in TaskStages
        /\ stage' \in Opening \cup (Talking \ {"settle"}) => stage \in Opening \cup (Talking \ {"settle"})
        /\ stage' \in {"settle", "accept", "finish"} => stage \in {"settle", "accept", "finish"}
        /\ kind = "plan" /\ out'[1] = "done" => out[1] = "done" \/ stage = "finish"
    BY <1>1, <2>1, <2>2, <2>3, Numbers DEF TaskStages, Opening, Talking, Closing, Cleaning, TaskOver
  <2> QED BY <1>1, <2>1, <2>2, <2>3, <2>4, <2>5, <2>6, <2>7, <2>8, <2>9, MoveStep
<1>4. CASE Fault /\ RaiseError("store")
  BY <1>1, <1>2, <1>4, StoreFails
<1> QED BY <1>3, <1>4 DEF CutOperation

\* The consumer gives the stream up between two chunks.
LEMMA HostCloseStep ==
    ASSUME TaskCore, HostClose
    PROVE  TaskCore'
<1>1. stage = "held" /\ Silent /\ UNCHANGED <<text, told>>
  BY DEF HostClose
<1>2. stage \in Opening \cup Talking \cup Closing
  BY <1>1, Stages
<1>3. "closed" \in TaskCodes /\ "closed" # "invalid" /\ RaiseError("closed")
  BY DEF HostClose, TaskCodes
<1> QED BY <1>1, <1>2, <1>3, RaiseErrorStep

\* The Gateway opens the stream, and the idle timers run.
LEMMA OpenGatewayStep ==
    ASSUME TaskCore, OpenGateway
    PROVE  TaskCore'
<1>1. stage = "call" /\ Silent /\ UNCHANGED <<text, told>>
  BY DEF OpenGateway
<1>2. stage \in Opening \cup Talking \cup Closing
  BY <1>1, Stages
<1>3. CASE ~SignalSet /\ armed' = Timers /\ Go("opened") /\ UNCHANGED <<inv, root, opOf, out, hurt>>
  <2>1. /\ stage' = "opened" /\ armed' = Timers /\ UNCHANGED <<inv, root, opOf, out, hurt, text, told>>
        /\ kind' = kind /\ n' = n /\ support' = support /\ attempts' = attempts /\ spent' = spent
        /\ opOf' = opOf /\ out' = out /\ inv' = inv /\ told' = told
    BY <1>1, <1>3 DEF Go, Silent, call, root
  <2>2. IdleIsTheProvider' /\ armed' \subseteq Timers
    BY <1>1, <2>1 DEF TaskCore, TaskTypeOK, IdleIsTheProvider
  <2>3. AttemptInStage'
    BY <1>1, <2>1 DEF TaskCore, AttemptInStage, Opening, Talking, Closing, Cleaning, TaskOver
  <2>4. AnswerInStage'
    BY <1>1, <2>1 DEF TaskCore, AnswerInStage, Opening, Talking, Cleaning, TaskOver
  <2>5. /\ stage \notin TaskOver /\ stage' \in TaskStages
        /\ stage' \in Opening \cup (Talking \ {"settle"}) => stage \in Opening \cup (Talking \ {"settle"})
        /\ stage' \in {"settle", "accept", "finish"} => stage \in {"settle", "accept", "finish"}
    BY <1>1, <2>1 DEF TaskStages, Opening, Talking, Closing, Cleaning, TaskOver
  <2> QED BY <1>1, <2>1, <2>2, <2>3, <2>4, <2>5, GoStep
<1>4. CASE ~SignalSet /\ armed' = Timers /\ Go("read") /\ UNCHANGED <<inv, root, opOf, out, hurt>>
  <2>1. /\ stage' = "read" /\ armed' = Timers /\ UNCHANGED <<inv, root, opOf, out, hurt, text, told>>
        /\ kind' = kind /\ n' = n /\ support' = support /\ attempts' = attempts /\ spent' = spent
        /\ opOf' = opOf /\ out' = out /\ inv' = inv /\ told' = told
    BY <1>1, <1>4 DEF Go, Silent, call, root
  <2>2. IdleIsTheProvider' /\ armed' \subseteq Timers
    BY <1>1, <2>1 DEF TaskCore, TaskTypeOK, IdleIsTheProvider
  <2>3. AttemptInStage'
    BY <1>1, <2>1 DEF TaskCore, AttemptInStage, Opening, Talking, Closing, Cleaning, TaskOver
  <2>4. AnswerInStage'
    BY <1>1, <2>1 DEF TaskCore, AnswerInStage, Opening, Talking, Cleaning, TaskOver
  <2>5. /\ stage \notin TaskOver /\ stage' \in TaskStages
        /\ stage' \in Opening \cup (Talking \ {"settle"}) => stage \in Opening \cup (Talking \ {"settle"})
        /\ stage' \in {"settle", "accept", "finish"} => stage \in {"settle", "accept", "finish"}
    BY <1>1, <2>1 DEF TaskStages, Opening, Talking, Closing, Cleaning, TaskOver
  <2> QED BY <1>1, <2>1, <2>2, <2>3, <2>4, <2>5, GoStep
<1>5. CASE \E code \in {"gateway", "contract"} : Calm /\ RaiseError(code)
  <2>1. PICK code \in {"gateway", "contract"} : RaiseError(code)
    BY <1>5
  <2>2. code \in TaskCodes /\ code # "invalid"
    BY DEF TaskCodes
  <2> QED BY <1>1, <1>2, <2>1, <2>2, RaiseErrorStep
<1>6. CASE FailStopped
  BY <1>1, <1>2, <1>6, FailStoppedStep
<1> QED BY <1>3, <1>4, <1>5, <1>6 DEF OpenGateway

\* The consumer asks for the next chunk, and the timers start again.
LEMMA NextChunkStep ==
    ASSUME TaskCore, NextChunk
    PROVE  TaskCore'
<1>1. stage = "held" /\ Silent /\ UNCHANGED <<text, told>>
  BY DEF NextChunk
<1>2. stage \in Opening \cup Talking \cup Closing
  BY <1>1, Stages
<1>3. CASE Go("read") /\ armed' = armed /\ UNCHANGED <<inv, root, opOf, out, hurt>>
  <2>1. /\ stage' = "read" /\ armed' = armed /\ UNCHANGED <<inv, root, opOf, out, hurt, text, told>>
        /\ kind' = kind /\ n' = n /\ support' = support /\ attempts' = attempts /\ spent' = spent
        /\ opOf' = opOf /\ out' = out /\ inv' = inv /\ told' = told
    BY <1>1, <1>3 DEF Go, Silent, call, root
  <2>2. IdleIsTheProvider' /\ armed' \subseteq Timers
    BY <1>1, <2>1 DEF TaskCore, TaskTypeOK, IdleIsTheProvider
  <2>3. AttemptInStage'
    BY <1>1, <2>1 DEF TaskCore, AttemptInStage, Opening, Talking, Closing, Cleaning, TaskOver
  <2>4. AnswerInStage'
    BY <1>1, <2>1 DEF TaskCore, AnswerInStage, Opening, Talking, Cleaning, TaskOver
  <2>5. /\ stage \notin TaskOver /\ stage' \in TaskStages
        /\ stage' \in Opening \cup (Talking \ {"settle"}) => stage \in Opening \cup (Talking \ {"settle"})
        /\ stage' \in {"settle", "accept", "finish"} => stage \in {"settle", "accept", "finish"}
    BY <1>1, <2>1 DEF TaskStages, Opening, Talking, Closing, Cleaning, TaskOver
  <2> QED BY <1>1, <2>1, <2>2, <2>3, <2>4, <2>5, GoStep
<1>4. CASE Go("read") /\ armed' = Timers /\ UNCHANGED <<inv, root, opOf, out, hurt>>
  <2>1. /\ stage' = "read" /\ armed' = Timers /\ UNCHANGED <<inv, root, opOf, out, hurt, text, told>>
        /\ kind' = kind /\ n' = n /\ support' = support /\ attempts' = attempts /\ spent' = spent
        /\ opOf' = opOf /\ out' = out /\ inv' = inv /\ told' = told
    BY <1>1, <1>4 DEF Go, Silent, call, root
  <2>2. IdleIsTheProvider' /\ armed' \subseteq Timers
    BY <1>1, <2>1 DEF TaskCore, TaskTypeOK, IdleIsTheProvider
  <2>3. AttemptInStage'
    BY <1>1, <2>1 DEF TaskCore, AttemptInStage, Opening, Talking, Closing, Cleaning, TaskOver
  <2>4. AnswerInStage'
    BY <1>1, <2>1 DEF TaskCore, AnswerInStage, Opening, Talking, Cleaning, TaskOver
  <2>5. /\ stage \notin TaskOver /\ stage' \in TaskStages
        /\ stage' \in Opening \cup (Talking \ {"settle"}) => stage \in Opening \cup (Talking \ {"settle"})
        /\ stage' \in {"settle", "accept", "finish"} => stage \in {"settle", "accept", "finish"}
    BY <1>1, <2>1 DEF TaskStages, Opening, Talking, Closing, Cleaning, TaskOver
  <2> QED BY <1>1, <2>1, <2>2, <2>3, <2>4, <2>5, GoStep
<1> QED BY <1>3, <1>4 DEF NextChunk

\* An activity item starts the timers again, or breaks the contract.
LEMMA ActivityStep ==
    ASSUME TaskCore, Activity
    PROVE  TaskCore'
<1>1. stage = "read" /\ Silent /\ UNCHANGED <<text, told>>
  BY DEF Activity
<1>2. stage \in Opening \cup Talking \cup Closing
  BY <1>1, Stages
<1>3. CASE RaiseError("contract")
  <2>1. "contract" \in TaskCodes /\ "contract" # "invalid"
    BY DEF TaskCodes
  <2> QED BY <1>1, <1>2, <1>3, <2>1, RaiseErrorStep
<1>4. CASE armed' = Timers /\ UNCHANGED <<stage, inv, root, opOf, out, hurt>>
  <2>1. /\ stage' = "read" /\ armed' = Timers /\ UNCHANGED <<inv, root, opOf, out, hurt, text, told>>
        /\ kind' = kind /\ n' = n /\ support' = support /\ attempts' = attempts /\ spent' = spent
        /\ opOf' = opOf /\ out' = out /\ inv' = inv /\ told' = told
    BY <1>1, <1>4 DEF Go, Silent, call, root
  <2>2. IdleIsTheProvider' /\ armed' \subseteq Timers
    BY <1>1, <2>1 DEF TaskCore, TaskTypeOK, IdleIsTheProvider
  <2>3. AttemptInStage'
    BY <1>1, <2>1 DEF TaskCore, AttemptInStage, Opening, Talking, Closing, Cleaning, TaskOver
  <2>4. AnswerInStage'
    BY <1>1, <2>1 DEF TaskCore, AnswerInStage, Opening, Talking, Cleaning, TaskOver
  <2>5. /\ stage \notin TaskOver /\ stage' \in TaskStages
        /\ stage' \in Opening \cup (Talking \ {"settle"}) => stage \in Opening \cup (Talking \ {"settle"})
        /\ stage' \in {"settle", "accept", "finish"} => stage \in {"settle", "accept", "finish"}
    BY <1>1, <2>1 DEF TaskStages, Opening, Talking, Closing, Cleaning, TaskOver
  <2> QED BY <1>1, <2>1, <2>2, <2>3, <2>4, <2>5, GoStep
<1> QED BY <1>3, <1>4 DEF Activity


-----------------------------------------------------------------------------
(* The steps of a task: the answer.                                        *)

\* Pass: a chunk goes on to the consumer, or it was the last one.
LEMMA PassStep ==
    ASSUME TaskCore, stage \in {"persist", "parse"}, Silent, UNCHANGED told, Pass(inv),
           kind = "plan" => /\ doc' \in Seq(Records)
                            /\ stage' = "held" => ParserFollows(parser', doc', shown')
                            /\ stage' = "settle" => PlanDone(doc', shown')
    PROVE  TaskCore'
<1>1. /\ inv \in Invocations /\ n \in AttemptIds /\ armed \subseteq Timers /\ out[n] = "open"
      /\ told \in [AttemptIds -> Usages \cup {None}]
  BY DEF TaskCore, TaskTypeOK, AttemptInStage, Talking
<1>2. /\ kind' = kind /\ n' = n /\ refs' = refs /\ support' = support /\ told' = told
      /\ stage \in Opening \cup Talking \cup Closing /\ stage \notin TaskOver
  BY DEF Silent, call, Talking, TaskOver
<1>3. CASE stage' = "xSettle" /\ inv' = Lost(inv, "contract") /\ armed' = {} /\ UNCHANGED <<root, opOf, out, hurt>>
  <2>1. "contract" \in TaskCodes
    BY DEF TaskCodes
  <2>2. RaiseError("contract")
    BY <1>3 DEF RaiseError
  <2> QED BY <1>1, <1>2, <2>1, <2>2, RaiseErrorStep
<1>4. CASE /\ inv' = inv /\ UNCHANGED <<root, opOf, out, hurt>>
           /\ (stage' = "settle" /\ armed' = {}) \/ (stage' = "held" /\ armed' = armed)
  <2>1. inv' = inv /\ attempts' = attempts /\ spent' = spent /\ opOf' = opOf /\ out' = out /\ hurt' = hurt
    BY <1>4 DEF root
  <2>2. RepairFromSettled' /\ OtherAttempts' /\ RefsInStage'
    BY <1>2, <2>1, OthersKept DEF Elsewhere
  <2>3. TaskTypeOK'
    <3>1. stage' \in TaskStages /\ armed' \subseteq Timers
      BY <1>1, <1>4, Stages
    <3> QED BY <1>1, <1>2, <2>1, <3>1, TypesKept DEF TaskCore, TaskTypeOK
  <2>4. IdleIsTheProvider'
    BY <1>4 DEF TaskCore, IdleIsTheProvider
  <2>5. AttemptInStage'
    BY <1>1, <1>2, <1>4, <2>1 DEF TaskCore, AttemptInStage, Opening, Talking, Closing, Cleaning, TaskOver
  <2>6. AnswerInStage'
    BY <1>2, <1>4, <2>1 DEF TaskCore, AnswerInStage, Opening, Talking, Cleaning, TaskOver
  <2>7. kind = "plan" => n = 1
    BY DEF TaskCore, PlanInStage
  <2>8. PlanCommittedExact'
    BY <1>1, <1>2, <2>1, <2>7 DEF PlanCommittedExact
  <2>9. PlanInStage'
    BY <1>2, <1>4, <2>7 DEF TaskCore, PlanInStage, Opening, Talking
  <2> QED BY <2>2, <2>3, <2>4, <2>5, <2>6, <2>8, <2>9 DEF TaskCore
<1>5. CASE inv.item \in {"finish", "cut"}
  BY <1>3, <1>4, <1>5 DEF Pass
<1>6. CASE inv.item \notin {"finish", "cut"}
  BY <1>4, <1>6 DEF Pass
<1> QED BY <1>5, <1>6

\* accept_provider_chunk: the chunk is stored before anyone sees it.
LEMMA PersistStep ==
    ASSUME TaskCore, Persist
    PROVE  TaskCore'
<1>1. stage = "persist" /\ Silent /\ UNCHANGED <<text, told>>
  BY DEF Persist
<1>2. stage \in Opening \cup Talking \cup Closing
  BY <1>1, Stages
<1>3. CASE kind = "plan" /\ Go("parse") /\ UNCHANGED <<inv, armed, root, opOf, out, hurt>>
  <2>1. /\ stage' = "parse" /\ armed' = armed /\ UNCHANGED <<inv, root, opOf, out, hurt, text, told>>
        /\ kind' = kind /\ n' = n /\ support' = support /\ attempts' = attempts /\ spent' = spent
        /\ opOf' = opOf /\ out' = out /\ inv' = inv /\ told' = told
    BY <1>1, <1>3 DEF Go, Silent, call, root
  <2>2. IdleIsTheProvider' /\ armed' \subseteq Timers
    BY <1>1, <2>1 DEF TaskCore, TaskTypeOK, IdleIsTheProvider
  <2>3. AttemptInStage'
    BY <1>1, <2>1 DEF TaskCore, AttemptInStage, Opening, Talking, Closing, Cleaning, TaskOver
  <2>4. AnswerInStage'
    BY <1>1, <1>3, <2>1 DEF TaskCore, AnswerInStage, Opening, Talking, Cleaning, TaskOver
  <2>5. /\ stage \notin TaskOver /\ stage' \in TaskStages
        /\ stage \in Opening \cup (Talking \ {"settle"}) /\ stage' \notin {"settle", "accept", "finish"}
    BY <1>1, <2>1 DEF TaskStages, Opening, Talking, Closing, Cleaning, TaskOver
  <2> QED BY <1>1, <2>1, <2>2, <2>3, <2>4, <2>5, GoStep
<1>4. CASE kind # "plan" /\ Pass(inv)
  BY <1>1, <1>4, PassStep
<1>5. CASE SignalSet /\ RaiseError(StopCode)
  BY <1>1, <1>2, <1>5, StopCodes, RaiseErrorStep
<1>6. CASE FailStopped
  BY <1>1, <1>2, <1>6, FailStoppedStep
<1>7. CASE Fault /\ RaiseError("store")
  BY <1>1, <1>2, <1>7, StoreFails
<1> QED BY <1>3, <1>4, <1>5, <1>6, <1>7 DEF Persist, Go

\* on_chunk of plan: the parser follows the document chunk by chunk.
LEMMA ParseStep ==
    ASSUME TaskCore, Parse
    PROVE  TaskCore'
<1>1. stage = "parse" /\ Silent /\ UNCHANGED told
  BY DEF Parse
<1>2. stage \in Opening \cup Talking \cup Closing
  BY <1>1, Stages
<1>3. /\ kind = "plan" /\ n = 1 /\ doc \in Seq(Records) /\ ParserFollows(parser, doc, shown)
      /\ out[n] = "open"
      /\ inv \in Invocations
  BY <1>1 DEF TaskCore, TaskTypeOK, AnswerInStage, PlanInStage, AttemptInStage, Talking
<1>4. CASE inv.item = "text"
  <2>1. PICK r \in Records, ends \in BOOLEAN :
            /\ parser.tail \in {"none", r}
            /\ doc' = IF parser.tail = "none" THEN Append(doc, r) ELSE doc
            /\ LET p == IF ends THEN AcceptedRecord(parser, r) ELSE [parser EXCEPT !.tail = r]
                   publishes == ends /\ r = "good" /\ ~p.failed
               IN /\ parser' = p
                  /\ \/ /\ shown' = IF publishes /\ ~SignalSet THEN shown + 1 ELSE shown
                        /\ Calm
                        /\ IF p.failed THEN RaiseError("plan")
                           ELSE IF SignalSet THEN RaiseError(StopCode) ELSE Pass(inv)
                     \/ /\ publishes /\ Fault /\ RaiseError("store") /\ UNCHANGED shown
    BY <1>4 DEF Parse
  <2>2. doc' \in Seq(Records)
    BY <1>3, <2>1
  <2>3. PICK p : p = IF ends THEN AcceptedRecord(parser, r) ELSE [parser EXCEPT !.tail = r]
    OBVIOUS
  <2>4. /\ parser' = p
        /\ \/ RaiseError("plan") \/ RaiseError(StopCode) \/ RaiseError("store")
           \/ /\ ~p.failed /\ ~SignalSet /\ Pass(inv)
              /\ shown' = IF ends /\ r = "good" THEN shown + 1 ELSE shown
    BY <2>1, <2>3
  <2>5. CASE RaiseError("plan") \/ RaiseError(StopCode) \/ RaiseError("store")
    <3>1. {"plan", "store"} \subseteq TaskCodes \ {"invalid"}
      BY DEF TaskCodes
    <3> QED BY <1>1, <1>2, <1>3, <2>2, <2>5, <3>1, StopCodes, RaiseErrorStep
  <2>6. CASE /\ ~p.failed /\ ~SignalSet /\ Pass(inv)
             /\ shown' = IF ends /\ r = "good" THEN shown + 1 ELSE shown
    <3>1. ParserFollows(p, doc', IF ends /\ r = "good" THEN shown + 1 ELSE shown)
      <4>1. PICK e : e = doc'
        OBVIOUS
      <4>2. e = IF parser.tail = "none" THEN Append(doc, r) ELSE doc
        BY <2>1, <4>1
      <4>3. ParserFollows(p, e, IF ends /\ r = "good" THEN shown + 1 ELSE shown)
        BY <1>3, <2>1, <2>3, <2>6, <4>2, FeedFollows
      <4> QED BY <4>1, <4>3
    <3>2. ParserFollows(parser', doc', shown')
      BY <2>4, <2>6, <3>1
    <3>3. stage' # "settle"
      BY <1>4, <2>6 DEF Pass
    <3> QED BY <1>1, <2>2, <2>6, <3>2, <3>3, PassStep
  <2> QED BY <2>4, <2>5, <2>6
<1>5. CASE inv.item = "finish"
  <2>1. /\ parser' = ParserFinished(parser) /\ doc' = doc /\ shown' = shown
        /\ \/ RaiseError("plan") \/ RaiseError(StopCode)
           \/ ~parser'.failed /\ parser'.plan # "wrong" /\ Pass(inv)
    BY <1>5 DEF Parse
  <2>2. CASE RaiseError("plan") \/ RaiseError(StopCode)
    <3>1. "plan" \in TaskCodes \ {"invalid"}
      BY DEF TaskCodes
    <3> QED BY <1>1, <1>2, <1>3, <2>1, <2>2, <3>1, StopCodes, RaiseErrorStep
  <2>3. CASE ~parser'.failed /\ parser'.plan # "wrong" /\ Pass(inv)
    <3>1. PlanDone(doc, shown)
      BY <1>3, <2>1, <2>3, FinishFollows
    <3>2. stage' # "held"
      BY <1>5, <2>3 DEF Pass
    <3> QED BY <1>1, <1>3, <2>1, <2>3, <3>1, <3>2, PassStep
  <2> QED BY <2>1, <2>2, <2>3
<1>6. CASE inv.item \notin {"text", "finish"}
  <2>1. /\ UNCHANGED text
        /\ \/ inv.item \in {"tools", "cut"} /\ RaiseError(inv.item)
           \/ RaiseError(StopCode)
           \/ inv.item # "cut" /\ Pass(inv)
    BY <1>6 DEF Parse
  <2>2. CASE inv.item \in {"tools", "cut"} /\ RaiseError(inv.item)
    <3>1. inv.item \in TaskCodes \ {"invalid"}
      BY <2>2 DEF TaskCodes
    <3> QED BY <1>1, <1>2, <2>1, <2>2, <3>1, RaiseErrorStep
  <2>3. CASE RaiseError(StopCode)
    BY <1>1, <1>2, <2>1, <2>3, StopCodes, RaiseErrorStep
  <2>4. CASE inv.item # "cut" /\ Pass(inv)
    <3>1. stage' # "settle"
      BY <1>6, <2>4 DEF Pass
    <3>2. doc' = doc /\ shown' = shown /\ parser' = parser
      BY <2>1 DEF text
    <3> QED BY <1>1, <1>3, <2>4, <3>1, <3>2, PassStep
  <2> QED BY <2>1, <2>2, <2>3, <2>4
<1> QED BY <1>4, <1>5, <1>6

\* The locals after a chunk.
LEMMA NotedFields ==
    ASSUME TaskCore, stage = "read", NEW c \in Chunks, NEW u \in Usages \cup {None}
    PROVE  /\ Noted(c, u).use = IF u = None THEN inv.use ELSE u
           /\ Noted(c, u).paid = inv.paid /\ Noted(c, u).err = inv.err /\ Noted(c, u).item = c
           /\ Noted(c, u).value = inv.value /\ Noted(c, u).sound = inv.sound
           /\ ~(inv.count >= MaxChunks) => Noted(c, u) \in Invocations
<1>1. inv \in Invocations /\ inv.count \in 0 .. MaxChunks
  BY DEF TaskCore, TaskTypeOK, Invocations
<1>2. PICK m : m = inv.count + 1
  OBVIOUS
<1>3. PICK v \in Usages \cup {None} : v = IF u = None THEN inv.use ELSE u
  BY <1>1 DEF Invocations
<1>4. PICK g \in BOOLEAN : g = (inv.got \/ c = "text")
  OBVIOUS
<1>5. PICK h \in BOOLEAN : h = (inv.tools \/ c = "tools")
  OBVIOUS
<1>6. Noted(c, u) = [inv EXCEPT !.use = v, !.item = c, !.count = m, !.got = g, !.tools = h]
  BY <1>2, <1>3, <1>4, <1>5 DEF Noted
<1>7. ~(inv.count >= MaxChunks) => m \in 0 .. MaxChunks
  BY <1>1, <1>2, TaskAssumption
<1>8. PICK p : p = [inv EXCEPT !.use = v, !.item = c, !.count = m, !.got = g, !.tools = h]
  OBVIOUS
<1>9. /\ p.use = v /\ p.paid = inv.paid /\ p.err = inv.err /\ p.item = c /\ p.value = inv.value
      /\ p.sound = inv.sound
  BY <1>1, <1>8 DEF Invocations
<1>10. m \in 0 .. MaxChunks => p \in Invocations
  BY <1>1, <1>3, <1>8 DEF Invocations
<1> QED BY <1>3, <1>6, <1>7, <1>8, <1>9, <1>10

\* anext: a chunk, the end, an error or the signal.
LEMMA ReadStep ==
    ASSUME TaskCore, Read
    PROVE  TaskCore'
<1>1. stage = "read" /\ Silent /\ UNCHANGED text
  BY DEF Read
<1>2. stage \in Opening \cup Talking \cup Closing
  BY <1>1, Stages
<1>3. CASE \E c \in Chunks : \E u \in Carries(c) :
            /\ told' = IF u = None THEN told ELSE [told EXCEPT ![n] = u]
            /\ IF SignalSet THEN RaiseError(StopCode)
               ELSE LET bad == \/ UsageRefused(u, FALSE) \/ c = "undeclared"
                               \/ inv.count >= MaxChunks
                    IN /\ stage' = IF bad THEN "xSettle" ELSE "persist"
                       /\ inv' = IF bad THEN Lost(Noted(c, u), "contract") ELSE Noted(c, u)
                       /\ armed' = IF c = "empty" /\ ~bad THEN armed ELSE {}
                       /\ UNCHANGED <<root, opOf, out, hurt>>
  <2>a. PICK c \in Chunks : \E u \in Carries(c) :
            /\ told' = IF u = None THEN told ELSE [told EXCEPT ![n] = u]
            /\ IF SignalSet THEN RaiseError(StopCode)
               ELSE LET bad == \/ UsageRefused(u, FALSE) \/ c = "undeclared"
                               \/ inv.count >= MaxChunks
                    IN /\ stage' = IF bad THEN "xSettle" ELSE "persist"
                       /\ inv' = IF bad THEN Lost(Noted(c, u), "contract") ELSE Noted(c, u)
                       /\ armed' = IF c = "empty" /\ ~bad THEN armed ELSE {}
                       /\ UNCHANGED <<root, opOf, out, hurt>>
    BY <1>3
  <2>1. PICK u \in Carries(c) :
            /\ told' = IF u = None THEN told ELSE [told EXCEPT ![n] = u]
            /\ IF SignalSet THEN RaiseError(StopCode)
               ELSE LET bad == \/ UsageRefused(u, FALSE) \/ c = "undeclared"
                               \/ inv.count >= MaxChunks
                    IN /\ stage' = IF bad THEN "xSettle" ELSE "persist"
                       /\ inv' = IF bad THEN Lost(Noted(c, u), "contract") ELSE Noted(c, u)
                       /\ armed' = IF c = "empty" /\ ~bad THEN armed ELSE {}
                       /\ UNCHANGED <<root, opOf, out, hurt>>
    BY <2>a
  <2>2. u \in Usages \cup {None}
    BY DEF Carries
  <2>3. /\ inv \in Invocations /\ n \in AttemptIds /\ armed \subseteq Timers
        /\ told \in [AttemptIds -> Usages \cup {None}] /\ inv.use = told[n] /\ ~inv.paid
        /\ inv.err # "invalid"
    BY <1>1 DEF TaskCore, TaskTypeOK, AnswerInStage, Talking, Cleaning, TaskOver
  <2>4. /\ told' \in [AttemptIds -> Usages \cup {None}]
        /\ \A i \in AttemptIds : i # n => told'[i] = told[i]
        /\ told'[n] = IF u = None THEN told[n] ELSE u
    <3>1. CASE u = None
      BY <2>1, <2>3, <3>1
    <3>2. CASE u # None
      <4>1. told' = [told EXCEPT ![n] = u]
        BY <2>1, <3>2
      <4> QED BY <2>2, <2>3, <3>2, <4>1
    <3> QED BY <3>1, <3>2
  <2>5. "contract" \in TaskCodes
    BY DEF TaskCodes
  <2>6. CASE SignalSet
    <3>1. RaiseError(StopCode)
      BY <2>1, <2>6
    <3>2. PICK code : code = StopCode
      OBVIOUS
    <3>3. code \in TaskCodes /\ code # "invalid"
      BY <3>2, StopCodes
    <3>4. Lost(inv, code) \in Invocations /\ Lost(inv, code).err = code /\ Lost(inv, code).paid = inv.paid
      BY <2>3, <3>3, InvocationFields, LostFields
    <3>5. stage' = "xSettle" /\ inv' = Lost(inv, code) /\ armed' = {} /\ UNCHANGED <<root, opOf, out, hurt>>
      BY <3>1, <3>2 DEF RaiseError
    <3> QED BY <1>1, <1>2, <2>4, <3>3, <3>4, <3>5, RaiseStep
  <2>7. CASE ~SignalSet
    <3>1. PICK bad \in BOOLEAN : bad = (UsageRefused(u, FALSE) \/ c = "undeclared" \/ inv.count >= MaxChunks)
      OBVIOUS
    <3>2. /\ stage' = IF bad THEN "xSettle" ELSE "persist"
          /\ inv' = IF bad THEN Lost(Noted(c, u), "contract") ELSE Noted(c, u)
          /\ armed' = IF c = "empty" /\ ~bad THEN armed ELSE {}
          /\ UNCHANGED <<root, opOf, out, hurt>>
      BY <2>1, <2>7, <3>1
    <3>3. PICK p : p = Noted(c, u)
      OBVIOUS
    <3>4. /\ p.use = told'[n] /\ p.paid = inv.paid /\ p.err = inv.err /\ p.item = c
          /\ p.value = inv.value /\ p.sound = inv.sound
          /\ ~(inv.count >= MaxChunks) => p \in Invocations
      BY <1>1, <2>2, <2>3, <2>4, <3>3, NotedFields
    <3>5. CASE bad
      <4>1. /\ p.use \in Usages \cup {None} /\ p.paid \in BOOLEAN /\ p.value \in BOOLEAN
            /\ p.sound \in BOOLEAN
        BY <2>3, <2>4, <3>4, InvocationFields
      <4>2. /\ Lost(p, "contract") \in Invocations /\ Lost(p, "contract").err = "contract"
            /\ Lost(p, "contract").paid = inv.paid
        BY <2>5, <3>4, <4>1, LostFields
      <4>3. stage' = "xSettle" /\ inv' = Lost(p, "contract") /\ armed' = {}
        BY <3>2, <3>3, <3>5
      <4> QED BY <1>1, <1>2, <2>4, <3>2, <4>2, <4>3, RaiseStep
    <3>6. CASE ~bad
      <4>1. stage' = "persist" /\ inv' = p /\ armed' = (IF c = "empty" THEN armed ELSE {}) /\ p \in Invocations
        BY <3>1, <3>2, <3>3, <3>4, <3>6
      <4>2. /\ kind' = kind /\ n' = n /\ refs' = refs /\ support' = support /\ attempts' = attempts
            /\ spent' = spent
            /\ opOf' = opOf /\ out' = out /\ hurt' = hurt
        BY <1>1, <3>2 DEF Silent, call, root
      <4>3. /\ DOMAIN spent \subseteq attempts /\ hurt \subseteq AttemptIds
            /\ opOf \in [AttemptIds -> {"none", "running", "ok", "failed", "canceled"}]
            /\ out \in [AttemptIds -> {"none", "open", "done", "aborted"}]
        BY DEF TaskCore, TaskTypeOK
      <4>4. Elsewhere
        BY <2>4, <4>2 DEF Elsewhere
      <4>5. IdleIsTheProvider' /\ armed' \subseteq Timers
        BY <2>3, <3>4, <4>1 DEF IdleIsTheProvider
      <4>6. AttemptInStage'
        BY <1>1, <4>1, <4>2 DEF TaskCore, AttemptInStage, Opening, Talking, Closing, Cleaning, TaskOver
      <4>7. AnswerInStage'
        BY <1>1, <2>3, <3>4, <4>1, <4>2 DEF AnswerInStage, Opening, Talking, Cleaning, TaskOver
      <4>8. /\ stage \notin TaskOver /\ stage' \in TaskStages
            /\ stage \in Opening \cup (Talking \ {"settle"}) /\ stage' \notin {"settle", "accept", "finish"}
        BY <1>1, <4>1 DEF TaskStages, Opening, Talking, Closing, Cleaning, TaskOver
      <4> QED BY <1>1, <2>4, <4>1, <4>2, <4>3, <4>4, <4>5, <4>6, <4>7, <4>8, MoveStep
    <3> QED BY <3>5, <3>6
  <2> QED BY <2>6, <2>7
<1>4. CASE \E code \in {"gateway", "interrupted"} : RaiseError(code) /\ UNCHANGED told
  <2>1. PICK code \in {"gateway", "interrupted"} : RaiseError(code) /\ UNCHANGED told
    BY <1>4
  <2>2. code \in TaskCodes /\ code # "invalid"
    BY DEF TaskCodes
  <2> QED BY <1>1, <1>2, <2>1, <2>2, RaiseErrorStep
<1>5. CASE SignalSet /\ RaiseError(StopCode) /\ UNCHANGED told
  BY <1>1, <1>2, <1>5, StopCodes, RaiseErrorStep
<1> QED BY <1>3, <1>4, <1>5 DEF Read


\* The verdict on a whole answer is an error, or none.
LEMMA AnswerVerdict ==
    ASSUME NEW reply \in Replies, NEW u
    PROVE  Verdict(reply, u) \in TaskCodes \cup {""}
<1>1. CASE reply = "badlimit" \/ UsageRefused(u, TRUE)
  BY <1>1 DEF Verdict, TaskCodes
<1>2. CASE ~(reply = "badlimit" \/ UsageRefused(u, TRUE))
  <2>1. reply \in {"value", "invalid", "cut", "tools", "unfinished"}
    BY <1>2 DEF Replies
  <2>2. Verdict(reply, u) = CASE reply = "unfinished" -> "interrupted"
                              [] reply = "cut" -> "cut"
                              [] reply = "tools" -> "tools"
                              [] reply = "invalid" -> "invalid"
                              [] OTHER -> ""
    BY <1>2 DEF Verdict
  <2>3. Verdict(reply, u) \in {"interrupted", "cut", "tools", "invalid", ""}
    BY <2>1, <2>2
  <2> QED BY <2>3 DEF TaskCodes
<1> QED BY <1>1, <1>2

\* The Gateway answers a structured task.
LEMMA AnswerStep ==
    ASSUME TaskCore, AnswerComplete
    PROVE  TaskCore'
<1>1. /\ stage = "call" /\ ~Streaming /\ Silent /\ UNCHANGED text /\ armed' = armed
      /\ attempts' = attempts /\ spent' = spent /\ opOf' = opOf /\ out' = out /\ hurt' = hurt
  BY DEF AnswerComplete, root
<1>2. /\ stage \in Opening \cup Talking \cup Closing /\ stage \notin TaskOver /\ kind # "plan"
  BY <1>1 DEF Streaming, Talking, TaskOver
<1>3. /\ inv \in Invocations /\ n \in AttemptIds /\ armed = {} /\ DOMAIN spent \subseteq attempts
      /\ opOf \in [AttemptIds -> {"none", "running", "ok", "failed", "canceled"}]
      /\ out \in [AttemptIds -> {"none", "open", "done", "aborted"}]
      /\ told \in [AttemptIds -> Usages \cup {None}] /\ hurt \subseteq AttemptIds
      /\ inv.use = told[n] /\ ~inv.paid /\ inv.err # "invalid"
      /\ n \in attempts /\ out[n] = "open" /\ opOf[n] = "running"
  BY <1>1
     DEF TaskCore, TaskTypeOK, IdleIsTheProvider, AnswerInStage, AttemptInStage, Talking, Cleaning, TaskOver
<1>4. /\ kind' = kind /\ n' = n /\ refs' = refs /\ support' = support
  BY <1>1 DEF Silent, call
<1>5. CASE \E reply \in Replies, u \in Usages \cup {None} :
            /\ told' = [told EXCEPT ![n] = u]
            /\ LET code == IF SignalSet THEN StopCode ELSE Verdict(reply, u)
               IN IF code = ""
                  THEN stage' = "settle" /\ inv' = [inv EXCEPT !.use = u, !.value = TRUE]
                  ELSE stage' = "xSettle" /\ inv' = Lost([inv EXCEPT !.use = u], code)
  <2>1. PICK reply \in Replies, u \in Usages \cup {None} :
            /\ told' = [told EXCEPT ![n] = u]
            /\ LET code == IF SignalSet THEN StopCode ELSE Verdict(reply, u)
               IN IF code = ""
                  THEN stage' = "settle" /\ inv' = [inv EXCEPT !.use = u, !.value = TRUE]
                  ELSE stage' = "xSettle" /\ inv' = Lost([inv EXCEPT !.use = u], code)
    BY <1>5
  <2>2. PICK code : code = IF SignalSet THEN StopCode ELSE Verdict(reply, u)
    OBVIOUS
  <2>3. code \in TaskCodes \cup {""}
    BY <2>2, StopCodes, AnswerVerdict
  <2>4. IF code = "" THEN stage' = "settle" /\ inv' = [inv EXCEPT !.use = u, !.value = TRUE]
        ELSE stage' = "xSettle" /\ inv' = Lost([inv EXCEPT !.use = u], code)
    BY <2>1, <2>2
  <2>5. /\ told' \in [AttemptIds -> Usages \cup {None}] /\ told'[n] = u
        /\ \A i \in AttemptIds : i # n => told'[i] = told[i]
    BY <1>3, <2>1
  <2>6. Elsewhere
    BY <1>1, <2>5 DEF Elsewhere
  <2>7. PICK p : p = [inv EXCEPT !.use = u]
    OBVIOUS
  <2>8. /\ p.use = u /\ p.paid = inv.paid /\ p.paid \in BOOLEAN /\ p.value \in BOOLEAN
        /\ p.sound \in BOOLEAN
    BY <1>3, <2>7 DEF Invocations
  <2>9. IdleIsTheProvider' /\ armed' \subseteq Timers
    BY <1>1, <1>3 DEF IdleIsTheProvider
  <2>10. CASE code = ""
    <3>1. stage' = "settle" /\ inv' = [inv EXCEPT !.use = u, !.value = TRUE]
      BY <2>4, <2>10
    <3>2. inv' \in Invocations /\ inv'.use = u /\ inv'.paid = inv.paid /\ inv'.err = inv.err
      BY <1>3, <3>1 DEF Invocations
    <3>3. AttemptInStage'
      BY <1>1, <1>3, <1>4, <3>1 DEF TaskCore, AttemptInStage, Opening, Talking, Closing, Cleaning, TaskOver
    <3>4. AnswerInStage'
      BY <1>3, <1>4, <2>5, <3>1, <3>2 DEF AnswerInStage, Opening, Talking, Cleaning, TaskOver
    <3>5. stage' \in TaskStages
      BY <3>1, Stages
    <3> QED BY <1>1, <1>2, <1>3, <2>5, <2>6, <2>9, <3>2, <3>3, <3>4, <3>5, MoveStep
  <2>11. CASE code # ""
    <3>1. stage' = "xSettle" /\ inv' = Lost(p, code) /\ code \in TaskCodes
      BY <2>3, <2>4, <2>7, <2>11
    <3>2. inv' \in Invocations /\ inv'.use = u /\ inv'.paid = inv.paid /\ inv'.err = code
      BY <2>8, <3>1, LostFields
    <3>3. AttemptInStage'
      BY <1>1, <1>3, <1>4, <3>1, <3>2 DEF AttemptInStage, Opening, Talking, Closing, Cleaning, TaskOver
    <3>4. AnswerInStage'
      BY <1>1, <1>3, <1>4, <2>5, <3>1, <3>2 DEF AnswerInStage, Opening, Talking, Cleaning, TaskOver
    <3>5. stage' \in TaskStages
      BY <3>1, Stages
    <3> QED BY <1>1, <1>2, <1>3, <2>5, <2>6, <2>9, <3>2, <3>3, <3>4, <3>5, MoveStep
  <2> QED BY <2>10, <2>11
<1>6. CASE /\ stage' = "xSettle" /\ UNCHANGED told
           /\ \/ inv' = [inv EXCEPT !.err = "gateway"]
              \/ inv' = [inv EXCEPT !.err = StopCode]
  <2>1. PICK code \in TaskCodes \ {"invalid"} : inv' = [inv EXCEPT !.err = code]
    <3>1. "gateway" \in TaskCodes \ {"invalid"} /\ StopCode \in TaskCodes \ {"invalid"}
      BY StopCodes DEF TaskCodes
    <3> QED BY <1>6, <3>1
  <2>2. inv' \in Invocations /\ inv'.err = code /\ inv'.paid = inv.paid
    BY <1>3, <2>1 DEF Invocations
  <2>3. UNCHANGED <<root, opOf, out, hurt>> /\ armed' = {}
    BY <1>1, <1>3 DEF root
  <2> QED BY <1>1, <1>2, <1>3, <1>6, <2>1, <2>2, <2>3, RaiseStep
<1> QED BY <1>5, <1>6 DEF AnswerComplete

-----------------------------------------------------------------------------
(* The steps of a task: the end of an attempt and its cleanup.             *)

\* settle_model_attempt writes one entry.
LEMMA Books ==
    ASSUME TaskTypeOK, NEW i \in attempts, NEW u, spent' = Booked(i, u)
    PROVE  /\ DOMAIN spent' = DOMAIN spent \cup {i} /\ DOMAIN spent' \subseteq attempts
           /\ spent'[i] = u
           /\ \A j \in DOMAIN spent : j # i => spent'[j] = spent[j]
BY DEF Booked, TaskTypeOK

\* _settle_attempt on the path of success.
LEMMA SettleStep ==
    ASSUME TaskCore, SettleAttempt
    PROVE  TaskCore'
<1>1. /\ stage = "settle" /\ Silent /\ UNCHANGED text /\ armed' = armed /\ opOf' = opOf /\ out' = out
      /\ told' = told /\ attempts' = attempts
  BY DEF SettleAttempt, root
<1>2. stage \notin TaskOver
  BY <1>1 DEF TaskOver
<1>3. /\ inv \in Invocations /\ n \in AttemptIds /\ armed = {} /\ DOMAIN spent \subseteq attempts
      /\ opOf \in [AttemptIds -> {"none", "running", "ok", "failed", "canceled"}]
      /\ out \in [AttemptIds -> {"none", "open", "done", "aborted"}]
      /\ told \in [AttemptIds -> Usages \cup {None}] /\ hurt \subseteq AttemptIds
      /\ inv.use = told[n] /\ ~inv.paid /\ inv.err # "invalid"
      /\ n \in attempts /\ out[n] = "open" /\ opOf[n] = "running"
  BY <1>1
     DEF TaskCore, TaskTypeOK, IdleIsTheProvider, AnswerInStage, AttemptInStage, Talking, Cleaning, TaskOver
<1>4. /\ kind' = kind /\ n' = n /\ refs' = refs /\ support' = support
  BY <1>1 DEF Silent, call
<1>5. PICK p : p = [inv EXCEPT !.paid = TRUE]
  OBVIOUS
<1>6. /\ p \in Invocations /\ p.use = inv.use /\ p.paid /\ p.err = inv.err /\ p.paid \in BOOLEAN
      /\ p.value \in BOOLEAN /\ p.sound \in BOOLEAN
  BY <1>3, <1>5 DEF Invocations
<1>7. /\ Lost(p, "budget") \in Invocations /\ Lost(p, "budget").err # "invalid"
      /\ Lost(p, "store") \in Invocations /\ Lost(p, "store").err # "invalid"
  <2>1. "budget" \in TaskCodes /\ "store" \in TaskCodes
    BY DEF TaskCodes
  <2> QED BY <1>6, <2>1, InvocationFields, LostFields
<1>8. IdleIsTheProvider' /\ armed' \subseteq Timers
  BY <1>1, <1>3 DEF IdleIsTheProvider
<1>9. CASE /\ spent' = Booked(n, inv.use) /\ hurt' = hurt
           /\ \/ stage' = "xSettle" /\ inv' = Lost(p, "budget")
              \/ stage' \in {"accept", "cutAbort", "finish"} /\ inv' = p
  <2>1. /\ DOMAIN spent' = DOMAIN spent \cup {n} /\ DOMAIN spent' \subseteq attempts
        /\ \A j \in DOMAIN spent : j # n => spent'[j] = spent[j]
    BY <1>3, <1>9, Books DEF TaskCore
  <2>2. Elsewhere
    BY <1>1, <1>9, <2>1 DEF Elsewhere
  <2>3. /\ inv' \in Invocations
        /\ inv'.err # "invalid"
    BY <1>3, <1>6, <1>7, <1>9
  <2>4. AttemptInStage'
    BY <1>1, <1>3, <1>4, <1>9, <2>1 DEF AttemptInStage, Opening, Talking, Closing, Cleaning, TaskOver
  <2>5. AnswerInStage'
    BY <1>9, <2>3 DEF AnswerInStage, Opening, Talking, Cleaning, TaskOver
  <2>6. stage' \in TaskStages /\ stage' \notin Opening \cup (Talking \ {"settle"})
    BY <1>9 DEF TaskStages, Opening, Talking, Closing, Cleaning
  <2> QED BY <1>1, <1>2, <1>3, <1>8, <1>9, <2>1, <2>2, <2>3, <2>4, <2>5, <2>6, MoveStep
<1>10. CASE /\ stage' = "xSettle" /\ hurt' = hurt \cup {n} /\ inv' = Lost(p, "store") /\ spent' = spent
  <2>1. Elsewhere
    BY <1>1, <1>10 DEF Elsewhere
  <2>2. inv' \in Invocations /\ inv'.err # "invalid"
    BY <1>7, <1>10
  <2>3. AttemptInStage'
    BY <1>1, <1>4, <1>10 DEF AttemptInStage, Opening, Talking, Closing, Cleaning, TaskOver
  <2>4. AnswerInStage'
    BY <1>10, <2>2 DEF AnswerInStage, Opening, Talking, Cleaning, TaskOver
  <2>5. stage' \in TaskStages /\ stage' \notin Opening \cup (Talking \ {"settle"}) /\ hurt' \subseteq AttemptIds
    BY <1>3, <1>10 DEF TaskStages, Opening, Talking, Closing, Cleaning
  <2> QED BY <1>1, <1>2, <1>3, <1>8, <1>10, <2>1, <2>2, <2>3, <2>4, <2>5, MoveStep
<1> QED BY <1>5, <1>9, <1>10 DEF SettleAttempt, root

\* except: the attempt is settled with the usage seen so far.
LEMMA XSettleStep ==
    ASSUME TaskCore, XSettle
    PROVE  TaskCore'
<1>1. /\ stage = "xSettle" /\ stage' = "xAbort" /\ Silent /\ UNCHANGED text /\ armed' = armed
      /\ opOf' = opOf
      /\ out' = out /\ told' = told /\ attempts' = attempts
  BY DEF XSettle, root
<1>2. stage \notin TaskOver /\ stage \in Cleaning
  BY <1>1 DEF TaskOver, Cleaning
<1>3. /\ inv \in Invocations /\ n \in AttemptIds /\ armed = {} /\ DOMAIN spent \subseteq attempts
      /\ opOf \in [AttemptIds -> {"none", "running", "ok", "failed", "canceled"}]
      /\ out \in [AttemptIds -> {"none", "open", "done", "aborted"}]
      /\ told \in [AttemptIds -> Usages \cup {None}] /\ hurt \subseteq AttemptIds
      /\ inv.paid \in BOOLEAN
  BY <1>1 DEF TaskCore, TaskTypeOK, IdleIsTheProvider, Invocations
<1>4. /\ kind' = kind /\ n' = n /\ refs' = refs /\ support' = support
  BY <1>1 DEF Silent, call
<1>5. /\ n \notin hurt /\ n \in attempts /\ inv.paid => n \in DOMAIN spent
      /\ inv.err = "invalid" => /\ inv.use = told[n] /\ n \in attempts /\ ~inv.paid
                                /\ out[n] = "open" /\ opOf[n] = "running"
  BY <1>1, <1>2 DEF TaskCore, AttemptInStage, AnswerInStage
<1>6. IdleIsTheProvider' /\ armed' \subseteq Timers
  BY <1>1, <1>3 DEF IdleIsTheProvider
<1>7. stage' \in TaskStages /\ stage' \notin Opening \cup (Talking \ {"settle"}) \cup {"settle", "accept", "finish"}
  BY <1>1 DEF TaskStages, Opening, Talking, Closing, Cleaning
<1>8. CASE /\ n \in attempts /\ ~inv.paid /\ spent' = Booked(n, inv.use) /\ hurt' = hurt
           /\ inv' = [inv EXCEPT !.paid = TRUE, !.err = IF Overdrawn(spent') THEN "budget" ELSE @,
                                 !.sound = ~Overdrawn(spent')]
  <2>1. /\ DOMAIN spent' = DOMAIN spent \cup {n} /\ DOMAIN spent' \subseteq attempts /\ spent'[n] = inv.use
        /\ \A j \in DOMAIN spent : j # n => spent'[j] = spent[j]
    BY <1>3, <1>8, Books DEF TaskCore
  <2>2. Elsewhere
    BY <1>1, <1>8, <2>1 DEF Elsewhere
  <2>3. PICK over \in BOOLEAN : over = Overdrawn(spent')
    BY DEF Overdrawn
  <2>4. PICK code \in TaskCodes : code = IF over THEN "budget" ELSE inv.err
    BY <1>3 DEF Invocations, TaskCodes
  <2>5. inv' = [inv EXCEPT !.paid = TRUE, !.err = code, !.sound = ~over]
    BY <1>8, <2>3, <2>4
  <2>6. inv' \in Invocations /\ inv'.use = inv.use /\ (inv'.err = "invalid" => inv.err = "invalid")
    BY <1>3, <2>4, <2>5 DEF Invocations
  <2>7. AttemptInStage'
    BY <1>1, <1>4, <2>1 DEF AttemptInStage, Opening, Talking, Closing, Cleaning, TaskOver
  <2>8. AnswerInStage'
    BY <1>1, <1>4, <1>5, <2>1, <2>6 DEF AnswerInStage, Opening, Talking, Cleaning, TaskOver
  <2> QED BY <1>1, <1>2, <1>3, <1>6, <1>7, <1>8, <2>1, <2>2, <2>6, <2>7, <2>8, MoveStep
<1>9. CASE /\ hurt' = hurt \cup {n} /\ spent' = spent
           /\ inv' = [inv EXCEPT !.paid = TRUE, !.err = "store", !.sound = FALSE]
  <2>1. Elsewhere
    BY <1>1, <1>9 DEF Elsewhere
  <2>2. inv' \in Invocations /\ inv'.err # "invalid"
    BY <1>3, <1>9 DEF Invocations, TaskCodes
  <2>3. AttemptInStage'
    BY <1>1, <1>4, <1>9 DEF AttemptInStage, Opening, Talking, Closing, Cleaning, TaskOver
  <2>4. AnswerInStage'
    BY <1>1, <2>2 DEF AnswerInStage, Opening, Talking, Cleaning, TaskOver
  <2>5. hurt' \subseteq AttemptIds
    BY <1>3, <1>9
  <2> QED BY <1>1, <1>2, <1>3, <1>6, <1>7, <1>9, <2>1, <2>2, <2>3, <2>4, <2>5, MoveStep
<1>10. CASE ~(n \in attempts /\ ~inv.paid) /\ inv' = inv /\ spent' = spent /\ hurt' = hurt
  <2>1. Elsewhere
    BY <1>1, <1>10 DEF Elsewhere
  <2>2. inv.err # "invalid"
    BY <1>5, <1>10
  <2>3. AttemptInStage'
    BY <1>1, <1>3, <1>4, <1>5, <1>10 DEF AttemptInStage, Opening, Talking, Closing, Cleaning, TaskOver
  <2>4. AnswerInStage'
    BY <1>1, <1>10, <2>2 DEF AnswerInStage, Opening, Talking, Cleaning, TaskOver
  <2> QED BY <1>1, <1>2, <1>3, <1>6, <1>7, <1>10, <2>1, <2>3, <2>4, MoveStep
<1> QED BY <1>8, <1>9, <1>10 DEF XSettle, root


\* except: the stream is aborted.
LEMMA XAbortStep ==
    ASSUME TaskCore, XAbort
    PROVE  TaskCore'
<1>1. /\ stage = "xAbort" /\ Silent /\ UNCHANGED text /\ armed' = armed /\ opOf' = opOf
      /\ spent' = spent /\ told' = told /\ attempts' = attempts
  BY DEF XAbort, root
<1>2. stage \notin TaskOver /\ stage \in Cleaning
  BY <1>1 DEF TaskOver, Cleaning
<1>3. /\ inv \in Invocations /\ n \in AttemptIds /\ armed = {} /\ DOMAIN spent \subseteq attempts
      /\ opOf \in [AttemptIds -> {"none", "running", "ok", "failed", "canceled"}]
      /\ out \in [AttemptIds -> {"none", "open", "done", "aborted"}]
      /\ told \in [AttemptIds -> Usages \cup {None}] /\ hurt \subseteq AttemptIds
  BY <1>1 DEF TaskCore, TaskTypeOK, IdleIsTheProvider
<1>4. /\ kind' = kind /\ n' = n /\ refs' = refs /\ support' = support
  BY <1>1 DEF Silent, call
<1>5. /\ n \notin hurt /\ n \in attempts => n \in DOMAIN spent
      /\ inv.err = "invalid" => /\ inv.use = told[n] /\ n \in attempts /\ n \in DOMAIN spent
                                /\ spent[n] = inv.use /\ out[n] = "open" /\ opOf[n] = "running"
  BY <1>1, <1>2 DEF TaskCore, AttemptInStage, AnswerInStage
<1>6. IdleIsTheProvider' /\ armed' \subseteq Timers
  BY <1>1, <1>3 DEF IdleIsTheProvider
<1>7. CASE /\ out[n] = "open" /\ out' = [out EXCEPT ![n] = "aborted"] /\ stage' = "xOperation"
           /\ inv' = inv /\ hurt' = hurt
  <2>1. /\ out' \in [AttemptIds -> {"none", "open", "done", "aborted"}] /\ out'[n] = "aborted"
        /\ \A i \in AttemptIds : i # n => out'[i] = out[i]
    BY <1>3, <1>7
  <2>2. Elsewhere
    BY <1>1, <1>7, <2>1 DEF Elsewhere
  <2>3. AttemptInStage'
    BY <1>1, <1>4, <1>5, <1>7, <2>1 DEF AttemptInStage, Opening, Talking, Closing, Cleaning, TaskOver
  <2>4. AnswerInStage'
    BY <1>1, <1>4, <1>5, <1>7, <2>1 DEF AnswerInStage, Opening, Talking, Cleaning, TaskOver
  <2>5. /\ stage' \in TaskStages
        /\ stage' \notin Opening \cup (Talking \ {"settle"}) \cup {"settle", "accept", "finish"}
    BY <1>7 DEF TaskStages, Opening, Talking, Closing, Cleaning
  <2>6. kind = "plan" /\ out'[1] = "done" => out[1] = "done"
    BY <1>3, <1>7, <2>1 DEF TaskCore, PlanInStage
  <2> QED BY <1>1, <1>2, <1>3, <1>6, <1>7, <2>1, <2>2, <2>3, <2>4, <2>5, <2>6, MoveStep
<1>8. CASE /\ hurt' = hurt \cup {n} /\ out' = out /\ stage' \in {"xOperation", "raised"}
           /\ inv' = [inv EXCEPT !.err = "store", !.sound = FALSE]
  <2>1. Elsewhere
    BY <1>1, <1>8 DEF Elsewhere
  <2>2. inv' \in Invocations /\ inv'.err # "invalid"
    BY <1>3, <1>8 DEF Invocations, TaskCodes
  <2>3. AttemptInStage'
    BY <1>1, <1>4, <1>8 DEF AttemptInStage, Opening, Talking, Closing, Cleaning, TaskOver
  <2>4. AnswerInStage'
    BY <1>8, <2>2 DEF AnswerInStage, Opening, Talking, Cleaning, TaskOver
  <2>5. /\ stage' \in TaskStages /\ hurt' \subseteq AttemptIds
        /\ stage' \notin Opening \cup (Talking \ {"settle"}) \cup {"settle", "accept", "finish"}
    BY <1>3, <1>8 DEF TaskStages, Opening, Talking, Closing, Cleaning
  <2> QED BY <1>1, <1>2, <1>3, <1>6, <1>8, <2>1, <2>2, <2>3, <2>4, <2>5, MoveStep
<1>9. CASE out[n] # "open" /\ out' = out /\ stage' = "xOperation" /\ inv' = inv /\ hurt' = hurt
  <2>1. Elsewhere
    BY <1>1, <1>9 DEF Elsewhere
  <2>2. AttemptInStage'
    BY <1>1, <1>4, <1>5, <1>9 DEF AttemptInStage, Opening, Talking, Closing, Cleaning, TaskOver
  <2>3. AnswerInStage'
    BY <1>5, <1>9 DEF AnswerInStage, Opening, Talking, Cleaning, TaskOver
  <2>4. /\ stage' \in TaskStages
        /\ stage' \notin Opening \cup (Talking \ {"settle"}) \cup {"settle", "accept", "finish"}
    BY <1>9 DEF TaskStages, Opening, Talking, Closing, Cleaning
  <2> QED BY <1>1, <1>2, <1>3, <1>6, <1>9, <2>1, <2>2, <2>3, <2>4, MoveStep
<1> QED BY <1>7, <1>8, <1>9 DEF XAbort, Go

\* except: the operation is failed.
LEMMA XOperationStep ==
    ASSUME TaskCore, XOperation
    PROVE  TaskCore'
<1>1. /\ stage = "xOperation" /\ stage' = "raised" /\ Silent /\ UNCHANGED text /\ armed' = armed
      /\ out' = out
      /\ spent' = spent /\ told' = told /\ attempts' = attempts
  BY DEF XOperation, root
<1>2. stage \notin TaskOver /\ stage \in Cleaning
  BY <1>1 DEF TaskOver, Cleaning
<1>3. /\ inv \in Invocations /\ n \in AttemptIds /\ armed = {} /\ DOMAIN spent \subseteq attempts
      /\ opOf \in [AttemptIds -> {"none", "running", "ok", "failed", "canceled"}]
      /\ out \in [AttemptIds -> {"none", "open", "done", "aborted"}]
      /\ told \in [AttemptIds -> Usages \cup {None}] /\ hurt \subseteq AttemptIds
  BY <1>1 DEF TaskCore, TaskTypeOK, IdleIsTheProvider
<1>4. /\ kind' = kind /\ n' = n /\ refs' = refs /\ support' = support
  BY <1>1 DEF Silent, call
<1>5. /\ n \notin hurt => out[n] # "open" /\ (n \in attempts => n \in DOMAIN spent)
      /\ inv.err = "invalid" => /\ inv.use = told[n] /\ n \in attempts /\ n \in DOMAIN spent
                                /\ spent[n] = inv.use /\ out[n] = "aborted" /\ opOf[n] = "running"
  BY <1>1, <1>2 DEF TaskCore, AttemptInStage, AnswerInStage
<1>6. IdleIsTheProvider' /\ armed' \subseteq Timers
  BY <1>1, <1>3 DEF IdleIsTheProvider
<1>7. /\ stage' \in TaskStages
      /\ stage' \notin Opening \cup (Talking \ {"settle"}) \cup {"settle", "accept", "finish"}
  BY <1>1 DEF TaskStages, Opening, Talking, Closing, Cleaning
<1>8. CASE /\ opOf' = [opOf EXCEPT ![n] = IF inv.err = "canceled" THEN "canceled" ELSE "failed"]
           /\ inv' = inv /\ hurt' = hurt
  <2>1. PICK end \in {"canceled", "failed"} : end = IF inv.err = "canceled" THEN "canceled" ELSE "failed"
    OBVIOUS
  <2>2. /\ opOf' \in [AttemptIds -> {"none", "running", "ok", "failed", "canceled"}] /\ opOf'[n] = end
        /\ \A i \in AttemptIds : i # n => opOf'[i] = opOf[i]
    BY <1>3, <1>8, <2>1
  <2>3. Elsewhere
    BY <1>1, <1>8, <2>2 DEF Elsewhere
  <2>4. AttemptInStage'
    BY <1>1, <1>4, <1>5, <1>8, <2>1, <2>2 DEF AttemptInStage, Opening, Talking, Closing, Cleaning, TaskOver
  <2>5. inv.err = "invalid" => end = "failed"
    BY <2>1
  <2>6. AnswerInStage'
    BY <1>1, <1>4, <1>5, <1>8, <2>2, <2>5 DEF AnswerInStage, Opening, Talking, Cleaning, TaskOver
  <2> QED BY <1>1, <1>2, <1>3, <1>6, <1>7, <1>8, <2>2, <2>3, <2>4, <2>6, MoveStep
<1>9. CASE /\ hurt' = hurt \cup {n} /\ opOf' = opOf
           /\ inv' = [inv EXCEPT !.err = "store", !.sound = FALSE]
  <2>1. Elsewhere
    BY <1>1, <1>9 DEF Elsewhere
  <2>2. inv' \in Invocations /\ inv'.err # "invalid"
    BY <1>3, <1>9 DEF Invocations, TaskCodes
  <2>3. AttemptInStage'
    BY <1>1, <1>4, <1>9 DEF AttemptInStage, Opening, Talking, Closing, Cleaning, TaskOver
  <2>4. AnswerInStage'
    BY <1>1, <2>2 DEF AnswerInStage, Opening, Talking, Cleaning, TaskOver
  <2>5. hurt' \subseteq AttemptIds
    BY <1>3, <1>9
  <2> QED BY <1>1, <1>2, <1>3, <1>6, <1>7, <1>9, <2>1, <2>2, <2>3, <2>4, <2>5, MoveStep
<1>10. CASE opOf[n] # "running" /\ opOf' = opOf /\ inv' = inv /\ hurt' = hurt
  <2>1. Elsewhere
    BY <1>1, <1>10 DEF Elsewhere
  <2>2. AttemptInStage'
    BY <1>1, <1>4, <1>5, <1>10 DEF AttemptInStage, Opening, Talking, Closing, Cleaning, TaskOver
  <2>3. AnswerInStage'
    BY <1>1, <1>5, <1>10 DEF AnswerInStage, Opening, Talking, Cleaning, TaskOver
  <2> QED BY <1>1, <1>2, <1>3, <1>6, <1>7, <1>10, <2>1, <2>2, <2>3, MoveStep
<1> QED BY <1>8, <1>9, <1>10 DEF XOperation

-----------------------------------------------------------------------------
(* The task around its attempts.                                           *)

\* What the next attempt starts with.
LEMMA FreshInvocation ==
    /\ NoInvocation \in Invocations /\ NoInvocation.use = None /\ ~NoInvocation.paid
    /\ NoInvocation.err = "none" /\ NoInvocation.item = "none"
<1>1. 0 \in 0 .. MaxChunks
  BY TaskAssumption
<1> QED BY <1>1 DEF NoInvocation, Invocations, TaskCodes

\* The next attempt: the one that is over is closed in every store, or its own
\* cleanup has raised.
LEMMA NextAttemptStep ==
    ASSUME TaskCore, stage \in {"raised", "returned"}, kind \in {"structured", "text"}, NextAttempt,
           n - 1 < Retries, armed' = {},
           UNCHANGED <<call, runHalted, text, root, opOf, out, told, hurt>>,
           refs' \in Seq([use : Usages \cup {None}, settled : BOOLEAN]),
           IF Streaming THEN refs' = refs ELSE Len(refs') = n,
           RepairFromSettled'
    PROVE  TaskCore'
<1>1. /\ stage' = "begin" /\ n' = n + 1 /\ inv' = NoInvocation /\ why' = "none" /\ kind' = kind
      /\ support' = support /\ attempts' = attempts /\ spent' = spent /\ opOf' = opOf /\ out' = out
      /\ told' = told /\ hurt' = hurt
  BY DEF NextAttempt, call, root
<1>2. /\ n \in AttemptIds /\ n \in Nat /\ Retries \in Nat /\ AttemptIds = 1 .. Retries + 1
      /\ n + 1 \in AttemptIds
  BY Numbers DEF TaskCore, TaskTypeOK
<1>3. /\ NoInvocation \in Invocations /\ NoInvocation.use = None /\ ~NoInvocation.paid
      /\ NoInvocation.err = "none" /\ NoInvocation.item = "none"
  BY FreshInvocation
<1>4. TaskTypeOK'
  <2>1. stage' \in TaskStages
    BY <1>1, Stages
  <2>2. Len(refs') <= Retries + 1
    <3>1. CASE Streaming
      BY <3>1 DEF TaskCore, TaskTypeOK
    <3>2. CASE ~Streaming
      BY <1>2, <3>2
    <3> QED BY <3>1, <3>2
  <2> QED BY <1>1, <1>2, <1>3, <2>1, <2>2 DEF TaskCore, TaskTypeOK
<1>5. Closed(n) \/ n \in hurt
  BY DEF TaskCore, AttemptInStage, Closed, Closing, Cleaning
<1>6. OtherAttempts'
  <2>1. \A i \in AttemptIds : i > n + 1 => i > n
    BY <1>2
  <2>2. \A i \in AttemptIds : i < n + 1 => i < n \/ i = n
    BY <1>2
  <2> QED BY <1>1, <1>5, <2>1, <2>2 DEF TaskCore, OtherAttempts, Fresh, Closed
<1>7. Fresh(n + 1) /\ told[n + 1] = None
  BY <1>2 DEF TaskCore, OtherAttempts
<1>8. n + 1 \notin DOMAIN spent
  BY <1>7 DEF TaskCore, TaskTypeOK, Fresh
<1>9. AttemptInStage'
  BY <1>1, <1>7, <1>8 DEF AttemptInStage, Fresh, Opening, Talking, Closing, Cleaning, TaskOver
<1>10. AnswerInStage'
  BY <1>1, <1>3, <1>7 DEF AnswerInStage, Opening, Talking, Cleaning, TaskOver
<1>11. RefsInStage'
  <2>1. CASE Streaming
    BY <1>1, <2>1 DEF TaskCore, RefsInStage, Streaming
  <2>2. CASE ~Streaming
    <3>1. Len(refs') = n' - 1
      BY <1>1, <1>2, <2>2
    <3> QED BY <1>1, <2>2, <3>1 DEF RefsInStage, Streaming
  <2> QED BY <2>1, <2>2
<1>12. PlanCommittedExact' /\ PlanInStage'
  BY <1>1 DEF PlanCommittedExact, PlanInStage
<1>13. IdleIsTheProvider'
  BY DEF IdleIsTheProvider
<1> QED BY <1>4, <1>6, <1>9, <1>10, <1>11, <1>12, <1>13 DEF TaskCore

\* The end of the task.
LEMMA EndStep ==
    ASSUME TaskCore, stage \in {"raised", "returned"}, stage' \in {"done", "failed", "closed"},
           UNCHANGED <<n, inv, why>>, armed' = {},
           UNCHANGED <<call, runHalted, text, root, opOf, out, told, hurt>>,
           refs' \in Seq([use : Usages \cup {None}, settled : BOOLEAN]),
           IF Streaming THEN refs' = refs ELSE Len(refs') <= n,
           RepairFromSettled'
    PROVE  TaskCore'
<1>1. /\ n' = n /\ inv' = inv /\ why' = why /\ kind' = kind
      /\ support' = support /\ attempts' = attempts /\ spent' = spent /\ opOf' = opOf /\ out' = out
      /\ told' = told /\ hurt' = hurt
  BY DEF call, root
<1>2. /\ n \in AttemptIds /\ n \in Nat /\ Retries \in Nat /\ AttemptIds = 1 .. Retries + 1
  BY Numbers DEF TaskCore, TaskTypeOK
<1>3. TaskTypeOK'
  <2>1. stage' \in TaskStages
    BY Stages
  <2>2. Len(refs') <= Retries + 1
    <3>1. CASE Streaming
      BY <3>1 DEF TaskCore, TaskTypeOK
    <3>2. CASE ~Streaming
      <4>1. Len(refs') \in Nat /\ Len(refs') <= n
        BY <3>2
      <4> QED BY <1>2, <4>1
    <3> QED BY <3>1, <3>2
  <2> QED BY <1>1, <1>2, <2>1, <2>2 DEF TaskCore, TaskTypeOK
<1>4. Closed(n) \/ n \in hurt
  BY DEF TaskCore, AttemptInStage, Closed, Closing, Cleaning
<1>5. OtherAttempts'
  BY <1>1 DEF TaskCore, OtherAttempts, Fresh, Closed
<1>6. AttemptInStage'
  BY <1>1, <1>4 DEF AttemptInStage, Closed, Opening, Talking, Closing, Cleaning, TaskOver
<1>7. AnswerInStage'
  BY DEF AnswerInStage, Opening, Talking, Cleaning, TaskOver
<1>8. RefsInStage'
  BY <1>1 DEF TaskCore, RefsInStage, Streaming, TaskOver
<1>9. PlanCommittedExact' /\ PlanInStage'
  BY <1>1, TextKept DEF Opening, Talking
<1>10. IdleIsTheProvider'
  BY DEF IdleIsTheProvider
<1> QED BY <1>3, <1>5, <1>6, <1>7, <1>8, <1>9, <1>10 DEF TaskCore

\* The references of the attempts that were repaired stay as they are.
LEMMA RefsKept ==
    ASSUME TaskCore, stage \notin TaskOver, UNCHANGED <<call, root, opOf, out, told>>, n' = n,
           ~Streaming => \A i \in 1 .. n - 1 : refs'[i] = refs[i]
    PROVE  RepairFromSettled'
<1>1. kind' = kind /\ spent' = spent /\ told' = told /\ out' = out /\ opOf' = opOf
  BY DEF call, root
<1> QED BY <1>1 DEF TaskCore, RepairFromSettled, Streaming


\* An attempt that raised: the task ends, or repairs the answer.
LEMMA RaisedStep ==
    ASSUME TaskCore, AttemptRaised
    PROVE  TaskCore'
<1>1. /\ stage = "raised" /\ armed' = {} /\ UNCHANGED <<call, runHalted, text, root, opOf, out, told, hurt>>
      /\ refs' = IF ~Streaming /\ inv.err # "overflow" THEN Append(refs, Ref) ELSE refs
  BY DEF AttemptRaised
<1>2. /\ stage \notin TaskOver /\ stage \in Cleaning /\ stage # "xSettle"
  BY <1>1 DEF TaskOver, Cleaning
<1>3. /\ inv \in Invocations /\ n \in AttemptIds /\ n \in Nat /\ n >= 1 /\ kind \in Kinds
      /\ refs \in Seq([use : Usages \cup {None}, settled : BOOLEAN]) /\ inv.use \in Usages \cup {None}
  BY Numbers DEF TaskCore, TaskTypeOK, Invocations
<1>4. ~Streaming => kind = "structured" /\ Len(refs) = n - 1
  BY <1>2 DEF TaskCore, RefsInStage, Streaming
<1>5. PICK ok \in BOOLEAN : ok = (inv.sound /\ n \in attempts /\ out[n] # "none" /\ ~inv.value)
  OBVIOUS
<1>6. PICK ref : ref = [use |-> inv.use, settled |-> ok]
  OBVIOUS
<1>7. /\ Ref = ref /\ ref \in [use : Usages \cup {None}, settled : BOOLEAN] /\ ref.use = inv.use
      /\ ref.settled = ok
  BY <1>3, <1>5, <1>6 DEF Ref
<1>8. /\ refs' \in Seq([use : Usages \cup {None}, settled : BOOLEAN])
      /\ Streaming => refs' = refs
      /\ ~Streaming => Len(refs') <= n /\ \A i \in 1 .. n - 1 : refs'[i] = refs[i]
      /\ ~Streaming /\ inv.err # "overflow" => Len(refs') = n /\ refs'[n] = ref
  <2>1. CASE ~Streaming /\ inv.err # "overflow"
    <3>1. refs' = Append(refs, ref)
      BY <1>1, <1>7, <2>1
    <3> QED BY <1>3, <1>4, <1>7, <2>1, <3>1
  <2>2. CASE ~(~Streaming /\ inv.err # "overflow")
    <3>1. refs' = refs
      BY <1>1, <2>2
    <3> QED BY <1>3, <1>4, <2>2, <3>1
  <2> QED BY <2>1, <2>2
<1>9. CASE ~Streaming /\ Repairs
  <2>1. NextAttempt /\ inv.err = "invalid" /\ Ref.settled /\ Ref.use # None /\ MayRetry(Len(refs))
    BY <1>9 DEF AttemptRaised, Repairs
  <2>2. /\ kind = "structured" /\ n - 1 < Retries /\ Len(refs') = n /\ refs'[n] = ref
    BY <1>4, <1>8, <1>9, <2>1 DEF MayRetry
  <2>3. /\ inv.use = told[n] /\ n \in DOMAIN spent /\ spent[n] = inv.use /\ out[n] = "aborted"
        /\ opOf[n] = "failed"
    BY <1>1, <1>2, <2>1 DEF TaskCore, AnswerInStage
  <2>4. RepairFromSettled'
    <3>1. /\ kind' = kind /\ n' = n + 1 /\ spent' = spent /\ told' = told /\ out' = out /\ opOf' = opOf
      BY <1>1, <2>1 DEF NextAttempt, call, root
    <3>2. n' - 1 = n
      BY <1>3, <3>1
    <3>3. \A i \in 1 .. n : i \in 1 .. n - 1 \/ i = n
      BY <1>3
    <3>4. \A i \in 1 .. n - 1 :
            /\ i \in DOMAIN spent /\ spent[i] = told[i] /\ told[i] # None
            /\ out[i] = "aborted" /\ opOf[i] = "failed"
            /\ refs[i].settled /\ refs[i].use = spent[i]
      BY <2>2 DEF TaskCore, RepairFromSettled
    <3>5. \A i \in 1 .. n - 1 : refs'[i] = refs[i]
      BY <1>8, <1>9
    <3>6. /\ refs'[n].settled /\ refs'[n].use = spent[n] /\ told[n] # None /\ spent[n] = told[n]
      BY <1>7, <2>1, <2>2, <2>3
    <3>7. \A i \in 1 .. n :
            /\ i \in DOMAIN spent /\ spent[i] = told[i] /\ told[i] # None
            /\ out[i] = "aborted" /\ opOf[i] = "failed"
            /\ refs'[i].settled /\ refs'[i].use = spent[i]
      BY <2>3, <3>3, <3>4, <3>5, <3>6
    <3> QED BY <3>1, <3>2, <3>7 DEF RepairFromSettled
  <2> QED BY <1>1, <1>8, <1>9, <2>1, <2>2, <2>4, NextAttemptStep
<1>10. CASE ~(~Streaming /\ Repairs)
  <2>1. stage' \in {"closed", "failed"} /\ UNCHANGED <<n, inv, why>>
    BY <1>10 DEF AttemptRaised
  <2>2. RepairFromSettled'
    BY <1>1, <1>2, <1>8, <2>1, RefsKept
  <2> QED BY <1>1, <1>8, <2>1, <2>2, EndStep
<1> QED BY <1>9, <1>10

\* An attempt that returned: the task is done, retries an empty text, or fails.
LEMMA ReturnedStep ==
    ASSUME TaskCore, AttemptReturned
    PROVE  TaskCore'
<1>1. /\ stage = "returned" /\ armed' = {}
      /\ UNCHANGED <<call, runHalted, text, root, opOf, out, told, hurt>>
      /\ refs' = IF Streaming THEN refs ELSE Append(refs, [use |-> inv.use, settled |-> TRUE])
  BY DEF AttemptReturned
<1>2. stage \notin TaskOver
  BY <1>1 DEF TaskOver
<1>3. /\ inv \in Invocations /\ n \in AttemptIds /\ n \in Nat /\ n >= 1
      /\ refs \in Seq([use : Usages \cup {None}, settled : BOOLEAN]) /\ inv.use \in Usages \cup {None}
  BY Numbers DEF TaskCore, TaskTypeOK, Invocations
<1>4. ~Streaming => Len(refs) = n - 1
  BY <1>2 DEF TaskCore, RefsInStage
<1>5. /\ refs' \in Seq([use : Usages \cup {None}, settled : BOOLEAN])
      /\ Streaming => refs' = refs
      /\ ~Streaming => Len(refs') <= n /\ \A i \in 1 .. n - 1 : refs'[i] = refs[i]
  <2>1. CASE Streaming
    BY <1>1, <1>3, <2>1
  <2>2. CASE ~Streaming
    <3>1. PICK ref \in [use : Usages \cup {None}, settled : BOOLEAN] : ref = [use |-> inv.use, settled |-> TRUE]
      BY <1>3
    <3>2. refs' = Append(refs, ref)
      BY <1>1, <2>2, <3>1
    <3> QED BY <1>3, <1>4, <2>2, <3>2
  <2> QED BY <2>1, <2>2
<1>6. CASE stage' \in {"done", "failed"} /\ UNCHANGED <<n, inv, why>>
  <2>1. RepairFromSettled'
    BY <1>1, <1>2, <1>5, <1>6, RefsKept
  <2> QED BY <1>1, <1>5, <1>6, <2>1, EndStep
<1>7. CASE kind = "text" /\ MayRetry(n - 1) /\ NextAttempt
  <2>1. n - 1 < Retries /\ Streaming
    BY <1>7 DEF MayRetry, Streaming
  <2>2. kind' = kind
    BY <1>1 DEF call
  <2>3. RepairFromSettled'
    BY <1>7, <2>2 DEF RepairFromSettled
  <2> QED BY <1>1, <1>5, <1>7, <2>1, <2>3, NextAttemptStep
<1> QED BY <1>6, <1>7 DEF AttemptReturned

-----------------------------------------------------------------------------
(* The others.                                                             *)

\* Whatever the signals, the timers and the other Runs do, the task's own attempts
\* stay as they are.
LEMMA AsideStep ==
    ASSUME TaskCore, stage \notin TaskOver, TaskTypeOK', IdleIsTheProvider',
           UNCHANGED <<call, stage, n, inv, refs, text, opOf, out, told, hurt>>,
           \A i \in AttemptIds : /\ i \in attempts' <=> i \in attempts
                                 /\ i \in DOMAIN spent' <=> i \in DOMAIN spent
                                 /\ i \in DOMAIN spent => spent'[i] = spent[i]
    PROVE  TaskCore'
<1>1. /\ kind' = kind /\ n' = n /\ refs' = refs /\ stage' = stage /\ inv' = inv /\ opOf' = opOf
      /\ out' = out
      /\ told' = told /\ hurt' = hurt /\ UNCHANGED text
  BY DEF call
<1>2. n \in AttemptIds
  BY DEF TaskCore, TaskTypeOK
<1>3. RepairFromSettled' /\ OtherAttempts' /\ RefsInStage'
  BY <1>1, OthersKept DEF Elsewhere
<1>4. PlanCommittedExact' /\ PlanInStage'
  BY <1>1, TextKept
<1>5. AttemptInStage'
  BY <1>1, <1>2 DEF TaskCore, AttemptInStage, Fresh, TaskOver
<1>6. AnswerInStage'
  BY <1>1, <1>2 DEF TaskCore, AnswerInStage
<1> QED BY <1>3, <1>4, <1>5, <1>6 DEF TaskCore

\* The signals and the timers.
LEMMA SignalStep ==
    ASSUME TaskCore,
           Halt \/ DeadlinePasses \/ \E timer \in {"activity", "progress"} : IdleExpires(timer)
    PROVE  TaskCore'
<1>1. /\ UNCHANGED <<call, stage, n, inv, refs, text, opOf, out, told, hurt>> /\ attempts' = attempts
      /\ spent' = spent /\ stage \notin TaskOver /\ why' \in {why, "deadline", "activity", "progress"}
      /\ armed' = armed \/ armed' = {}
  BY DEF Halt, DeadlinePasses, IdleExpires, root, TaskOver
<1>2. support' = support /\ inv' = inv /\ stage' = stage
  BY <1>1 DEF call
<1>3. IdleIsTheProvider'
  BY <1>1, <1>2 DEF TaskCore, IdleIsTheProvider
<1>4. TaskTypeOK'
  BY <1>1, <1>2 DEF TaskCore, TaskTypeOK, Timers, call
<1> QED BY <1>1, <1>3, <1>4, AsideStep

\* The invocations of the other Runs share the budget of the Root.
LEMMA PeerStep ==
    ASSUME TaskCore, NEW i \in PeerIds, PeerReserves(i) \/ PeerSettles(i)
    PROVE  TaskCore'
<1>1. /\ UNCHANGED <<call, stage, n, inv, refs, text, opOf, out, told, hurt>> /\ stage \notin TaskOver
      /\ why' = why /\ armed' = armed /\ kind' = kind /\ support' = support /\ stage' = stage /\ n' = n
      /\ inv' = inv
      /\ refs' = refs /\ opOf' = opOf /\ out' = out /\ told' = told /\ hurt' = hurt
  BY DEF PeerReserves, PeerSettles, call
<1>2. IdleIsTheProvider'
  BY <1>1 DEF TaskCore, IdleIsTheProvider
<1>3. i \notin AttemptIds /\ TaskTypeOK
  BY Numbers DEF TaskCore
<1>4. CASE PeerReserves(i)
  <2>1. attempts' = attempts \cup {i} /\ spent' = spent /\ Cardinality(attempts) < MaxAttempts
    BY <1>4 DEF PeerReserves
  <2>2. attempts' \subseteq AttemptIds \cup PeerIds /\ Cardinality(attempts') <= MaxAttempts
    BY <1>3, <2>1, Reserves
  <2>3. TaskTypeOK'
    BY <1>1, <2>1, <2>2 DEF TaskCore, TaskTypeOK, Timers
  <2> QED BY <1>1, <1>2, <1>3, <2>1, <2>3, AsideStep
<1>5. CASE PeerSettles(i)
  <2>1. PICK u \in Usages \cup {None} : spent' = Booked(i, u)
    BY <1>5 DEF PeerSettles
  <2>2. i \in attempts /\ attempts' = attempts
    BY <1>5 DEF PeerSettles
  <2>3. /\ DOMAIN spent' = DOMAIN spent \cup {i} /\ DOMAIN spent' \subseteq attempts
        /\ \A j \in DOMAIN spent : j # i => spent'[j] = spent[j]
    BY <1>3, <2>1, <2>2, Books
  <2>4. TaskTypeOK'
    BY <1>1, <2>2, <2>3 DEF TaskCore, TaskTypeOK, Timers
  <2>5. \A j \in AttemptIds : j # i
    BY <1>3
  <2> QED BY <1>1, <1>2, <2>2, <2>3, <2>4, <2>5, AsideStep
<1> QED BY <1>4, <1>5

-----------------------------------------------------------------------------
(* The theorems about the tasks.                                           *)

\* A task begins with nothing in any store.
LEMMA TaskInitOK == TaskInit => TaskCore
<1> SUFFICES ASSUME TaskInit PROVE TaskCore
  OBVIOUS
<1>1. /\ stage = "begin" /\ n = 1 /\ inv = NoInvocation /\ armed = {} /\ why = "none"
      /\ refs = <<>> /\ parser = NoParser /\ doc = <<>> /\ shown = 0 /\ attempts = {} /\ DOMAIN spent = {}
      /\ opOf = [i \in AttemptIds |-> "none"] /\ out = [i \in AttemptIds |-> "none"]
      /\ told = [i \in AttemptIds |-> None] /\ hurt = {} /\ kind \in Kinds
  BY DEF TaskInit
<1>2. AttemptIds = 1 .. Retries + 1 /\ Retries \in Nat /\ 1 \in AttemptIds
  BY Numbers
<1>3. /\ NoInvocation \in Invocations /\ NoInvocation.use = None /\ ~NoInvocation.paid
      /\ NoInvocation.err = "none" /\ NoInvocation.item = "none"
  BY FreshInvocation
<1>4. TaskTypeOK
  <2>1. Cardinality(attempts) <= MaxAttempts
    BY <1>1, FS_EmptySet, TaskAssumption
  <2>2. stage \in TaskStages
    BY <1>1, Stages
  <2>3. <<>> \in Seq([use : Usages \cup {None}, settled : BOOLEAN]) /\ Len(<<>>) = 0
    OBVIOUS
  <2>4. 0 <= Retries + 1
    BY <1>2
  <2> QED BY <1>1, <1>2, <1>3, <2>1, <2>2, <2>3, <2>4 DEF TaskTypeOK
<1>5. RepairFromSettled /\ IdleIsTheProvider /\ PlanCommittedExact
  BY <1>1, <1>2 DEF RepairFromSettled, IdleIsTheProvider, PlanCommittedExact
<1>6. OtherAttempts
  BY <1>1, <1>2 DEF OtherAttempts, Fresh, Closed
<1>7. AttemptInStage
  BY <1>1, <1>2 DEF AttemptInStage, Fresh, Opening, Talking, Closing, Cleaning, TaskOver
<1>8. AnswerInStage
  BY <1>1, <1>2, <1>3 DEF AnswerInStage, Opening, Talking, Cleaning, TaskOver
<1>9. RefsInStage
  BY <1>1 DEF RefsInStage
<1>10. PlanInStage
  <2>1. ParserFollows(NoParser, <<>>, 0)
    <3>1. /\ NoParser \in Parsers /\ ~NoParser.failed /\ NoParser.tail = "none" /\ NoParser.plan = "none"
          /\ NoParser.records = 0
      BY DEF NoParser, Parsers
    <3>2. Whole(NoParser, <<>>) = {}
      BY <3>1 DEF Whole
    <3>3. \A types : Counted(NoParser, <<>>, types) = 0
      <4>1. \A types : {i \in Whole(NoParser, <<>>) : <<>>[i] \in types} = {}
        BY <3>2
      <4> QED BY <4>1, FS_EmptySet DEF Counted
    <3> QED BY <3>1, <3>2, <3>3, TaskAssumption DEF ParserFollows
  <2>2. <<>> \in Seq(Records)
    OBVIOUS
  <2> QED BY <1>1, <2>1, <2>2 DEF PlanInStage
<1> QED BY <1>4, <1>5, <1>6, <1>7, <1>8, <1>9, <1>10 DEF TaskCore

\* Every step of a task keeps it.
LEMMA TaskKeeps == TaskCore /\ [TaskNext]_taskVars => TaskCore'
<1> SUFFICES ASSUME TaskCore, [TaskNext]_taskVars PROVE TaskCore'
  OBVIOUS
<1>1. CASE TaskStep
  BY <1>1, BeginStep, StartStep, EvidenceStep, ReserveStep, OpenStep, CallStep, PersistStep, ParseStep,
     NextChunkStep, SettleStep, CutAbortStep, CutOperationStep, AcceptStep, FinishStep, SucceedStep,
     XSettleStep, XAbortStep, XOperationStep, RaisedStep, ReturnedStep DEF TaskStep
<1>2. CASE Provider
  BY <1>2, AnswerStep, OpenGatewayStep, ActivityStep, ReadStep DEF Provider
<1>3. CASE Environment
  BY <1>3, HostStartStep, HostCloseUnreadStep, HostCloseStep, SignalStep, PeerStep DEF Environment
<1>4. CASE UNCHANGED taskVars
  <2>1. /\ kind' = kind /\ support' = support /\ stage' = stage /\ n' = n /\ inv' = inv /\ armed' = armed
        /\ why' = why /\ refs' = refs /\ parser' = parser /\ doc' = doc /\ shown' = shown
        /\ attempts' = attempts /\ spent' = spent /\ opOf' = opOf /\ out' = out /\ told' = told
        /\ hurt' = hurt
    BY <1>4 DEF taskVars, call, text, root
  <2> QED BY <2>1
             DEF TaskCore, TaskTypeOK, Timers, RepairFromSettled, IdleIsTheProvider, PlanCommittedExact,
                      OtherAttempts, AttemptInStage, AnswerInStage, RefsInStage, PlanInStage, Fresh, Closed,
                      Streaming
<1> QED BY <1>1, <1>2, <1>3, <1>4 DEF TaskNext

\* A task that is over leaves nothing open.
LEMMA StagesClose == TaskCore => TaskInv
<1> SUFFICES ASSUME TaskCore PROVE NothingLeft
  BY DEF TaskCore, TaskInv
<1>1. n \in Nat /\ AttemptIds \subseteq Nat
  BY Numbers DEF TaskCore, TaskTypeOK
<1>2. \A i \in AttemptIds : i < n \/ i = n \/ i > n
  BY <1>1
<1> QED BY <1>2 DEF TaskCore, NothingLeft, OtherAttempts, AttemptInStage, Fresh, Closed

\* complete_structured, stream, plan: repairs start from a settled attempt, nothing is
\* left open at the end, the idle timers measure the Provider, and a committed plan is
\* the document's, for any limits, prompts, usages, records, peers and faults.
THEOREM TaskInvariant == TaskSpec => []TaskInv
<1>1. TaskSpec => []TaskCore
  BY TaskInitOK, TaskKeeps, PTL DEF TaskSpec
<1> QED BY <1>1, StagesClose, PTL

\* A settlement that lets the answer pass has booked what the Provider sent, and the
\* whole tree is within its tokens.
LEMMA AcceptsWithinTokens ==
    ASSUME TaskCore, SettleAttempt
    PROVE  AcceptedWithinTokens
<1> SUFFICES ASSUME stage' \in {"accept", "finish"}, TokenLimit # NoLimit
             PROVE  /\ \A i \in DOMAIN spent' : spent'[i] # None
                    /\ ~(Total(spent') > TokenLimit)
                    /\ spent'[n] = told[n]
  BY DEF AcceptedWithinTokens
<1>1. /\ stage = "settle" /\ spent' = Booked(n, inv.use) /\ ~Overdrawn(spent')
  BY DEF SettleAttempt
<1>2. n \in attempts /\ inv.use = told[n] /\ TaskTypeOK
  BY <1>1 DEF TaskCore, AttemptInStage, AnswerInStage, Talking
<1>3. spent'[n] = told[n]
  BY <1>1, <1>2, Books
<1> QED BY <1>1, <1>3 DEF Overdrawn

\* Only the settlement leaves the stage of the settlement for an accepted answer.
LEMMA TaskStepKept ==
    TaskCore /\ [TaskNext]_taskVars => [AcceptedWithinTokens /\ NoCallAfterStop]_taskVars
<1> SUFFICES ASSUME TaskCore, TaskNext PROVE AcceptedWithinTokens /\ NoCallAfterStop
  OBVIOUS
<1>1. CASE stage = "settle"
  <2>1. NoCallAfterStop
    BY <1>1 DEF NoCallAfterStop
  <2>2. CASE SettleAttempt
    BY <2>1, <2>2, AcceptsWithinTokens
  <2>3. CASE stage' = stage
    BY <1>1, <2>1, <2>3 DEF AcceptedWithinTokens
  <2>4. SettleAttempt \/ stage' = stage
    <3>1. CASE TaskStep
      BY <1>1, <3>1
         DEF TaskStep, BeginAttempt, StartOperation, Evidence, ReserveAttempt, OpenStream, CallProvider,
         Persist, Parse, NextChunk, CutAbort, CutOperation, Accept, Finish, Succeed, XSettle, XAbort, XOperation,
         AttemptRaised, AttemptReturned
    <3>2. CASE Provider
      BY <1>1, <3>2 DEF Provider, AnswerComplete, OpenGateway, Activity, Read
    <3>3. CASE Environment
      BY <1>1, <3>3
         DEF Environment, HostStart, HostCloseUnread, HostClose, Halt, DeadlinePasses, IdleExpires,
         PeerReserves, PeerSettles
    <3> QED BY <3>1, <3>2, <3>3 DEF TaskNext
  <2> QED BY <2>2, <2>3, <2>4
<1>2. CASE stage = "dispatch"
  <2>1. AcceptedWithinTokens
    BY <1>2 DEF AcceptedWithinTokens
  <2>2. CASE CallProvider
    BY <1>2, <2>1, <2>2 DEF CallProvider, NoCallAfterStop, FailStopped, RaiseError, SignalSet, Go
  <2>3. CASE stage' = stage
    BY <1>2, <2>1, <2>3 DEF NoCallAfterStop
  <2>4. CallProvider \/ stage' = stage
    <3>1. CASE TaskStep
      BY <1>2, <3>1
         DEF TaskStep, BeginAttempt, StartOperation, Evidence, ReserveAttempt, OpenStream, SettleAttempt,
         Persist, Parse, NextChunk, CutAbort, CutOperation, Accept, Finish, Succeed, XSettle, XAbort, XOperation,
         AttemptRaised, AttemptReturned
    <3>2. CASE Provider
      BY <1>2, <3>2 DEF Provider, AnswerComplete, OpenGateway, Activity, Read
    <3>3. CASE Environment
      BY <1>2, <3>3
         DEF Environment, HostStart, HostCloseUnread, HostClose, Halt, DeadlinePasses, IdleExpires,
         PeerReserves, PeerSettles
    <3> QED BY <3>1, <3>2, <3>3 DEF TaskNext
  <2> QED BY <2>2, <2>3, <2>4
<1>3. CASE stage \notin {"settle", "dispatch"}
  BY <1>3 DEF AcceptedWithinTokens, NoCallAfterStop
<1> QED BY <1>1, <1>2, <1>3

\* No answer is accepted beyond the tokens of the tree, and no call to a Provider begins
\* after the stop.
THEOREM TaskStepsHold == TaskSpec => [][AcceptedWithinTokens /\ NoCallAfterStop]_taskVars
<1>1. TaskSpec => []TaskCore
  BY TaskInitOK, TaskKeeps, PTL DEF TaskSpec
<1> QED BY <1>1, TaskStepKept, PTL DEF TaskSpec
=============================================================================
