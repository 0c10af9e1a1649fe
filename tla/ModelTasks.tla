----------------------------- MODULE ModelTasks -----------------------------
(***************************************************************************)
(* One private model task of a Run and the invocations it makes: a        *)
(* structured task that asks for a new object when the answer breaks its   *)
(* contract, a text task that retries an empty answer, a plan that is     *)
(* parsed while it arrives, and a stream a host reads by itself.           *)
(*                                                                         *)
(*   src/purra/model_execution.py             AgentModelTaskRunner         *)
(*   src/purra/model_invocation/manager.py    complete, stream, plan       *)
(*   src/purra/planning_stream.py             PlanningStreamParser         *)
(*   src/purra/adapters/memory.py             the Root's attempts, tokens  *)
(*                                                                         *)
(* The other Runs of the tree share the attempts and the tokens of the     *)
(* Root and appear by the two calls their invocations make.  Every await   *)
(* of a store may raise without effect.  The projection of the chunks is   *)
(* the business of ModelStream.                                            *)
(***************************************************************************)
EXTENDS Naturals, Sequences, FiniteSets, FiniteSetsExt, SequencesExt

CONSTANTS
    MaxAttempts,   \* max_model_invocation_attempts of the Root
    TokenLimit,    \* max_run_generation_tokens, or NoLimit
    NoLimit,
    None,          \* usage that was not reported
    Usages,        \* the token counts a Provider reports
    Retries,       \* repair_attempts, and the limit of empty_model_response
    Profile,       \* max_generation_tokens of the model profile
    Window,        \* what the context window leaves for prompt and answer
    Prompts,       \* the sizes of the host's prompt
    Guidance,      \* tokens of the message a retry adds
    MaxChunks,     \* max_stream_chunks
    MaxRecords,   \* progress records of a plan
    Peers,         \* bound: the number of invocations of the other Runs
    MaxFaults      \* bound: awaits that raise

ASSUME TaskAssumption ==
    /\ MaxAttempts \in Nat /\ Retries \in Nat /\ MaxFaults \in Nat
    /\ TokenLimit \in Nat \cup {NoLimit} /\ NoLimit \notin Nat
    /\ Usages \subseteq Nat /\ None \notin Nat
    /\ {Profile, Window, Guidance} \cup Prompts \subseteq Nat
    /\ MaxChunks \in Nat \ {0} /\ MaxRecords \in Nat /\ Peers \in Nat

VARIABLES
    kind,      \* which task the host asked for
    support,   \* ModelStreamActivitySupport of the Gateway's stream
    heeds,     \* the signal the call was given follows the Run's
    prompt,    \* tokens of the host's messages
    stage,        \* the await the task stands at
    n,         \* the number of the attempt, 0 before the first
    inv,       \* the locals of the invocation
    armed,     \* the idle timers of _StreamLiveness that are running
    why,       \* what has set the invocation's own stop signal
    runHalted,    \* the Run's signal
    refs,      \* invocation_refs of a structured task
    parser,    \* PlanningStreamParser
    attempts,  \* model_attempt_ids of the tree
    spent,     \* model_usage_by_invocation of the tree
    opOf,       \* the operation of each attempt
    out,       \* the output stream of each attempt
    told,      \* the usage a Provider has sent, read or not
    doc,       \* the records of the plan, in the order they began
    shown,     \* the progress records that were published
    hurt,      \* the attempts whose settlement or cleanup itself raised
    faults

call == <<kind, support, heeds, prompt>>
root == <<attempts, spent>>
text == <<parser, doc, shown>>
taskVars == <<call, stage, n, inv, armed, why, runHalted, refs, text, root, opOf, out,
          told, hurt, faults>>

Kinds == {"structured", "text", "plan", "stream"}
Streaming == kind # "structured"
AttemptIds == 1 .. Retries + 1
PeerIds == Retries + 2 .. Retries + 1 + Peers
TaskOver == {"done", "failed", "closed", "abandoned"}

NoInvocation ==
    [use |-> None, got |-> FALSE, tools |-> FALSE, item |-> "none",
     count |-> 0, err |-> "none", paid |-> FALSE, value |-> FALSE, sound |-> TRUE]
NoParser == [tail |-> "none", plan |-> "none", failed |-> FALSE, records |-> 0]

TaskInit ==
    /\ kind \in Kinds
    /\ support \in {"semantic", "transport", "working"}
    /\ (kind = "structured" => support = "semantic")
    /\ heeds \in BOOLEAN /\ (kind \in {"structured", "plan"} => heeds)
    /\ prompt \in Prompts
    /\ stage = "begin" /\ n = 1 /\ inv = NoInvocation
    /\ armed = {} /\ why = "none" /\ runHalted = FALSE
    /\ refs = <<>> /\ parser = NoParser /\ doc = <<>> /\ shown = 0
    /\ attempts = {} /\ spent = [i \in {} |-> None]
    /\ opOf = [i \in AttemptIds |-> "none"] /\ out = [i \in AttemptIds |-> "none"]
    /\ told = [i \in AttemptIds |-> None]
    /\ hurt = {} /\ faults = 0

-----------------------------------------------------------------------------
(* The signal, the budget of one invocation and the budget of the Root.    *)

\* ExecutionStopSignal.is_set
SignalSet == why # "none" \/ (heeds /\ runHalted)

\* max_generation_tokens_for_actual_input: what the window leaves after the
\* messages of this attempt.
Input == IF n > 1 THEN prompt + Guidance ELSE prompt
Room == Window - Input
Fits == Input < Window

\* _fit_call_to_context: the profile's allowance, cut to the room.
Allowance == IF Profile <= Room THEN Profile ELSE Room

\* _require_reported_usage_within_generation_budget
UsageRefused(u, required) ==
    IF u = None THEN required /\ TokenLimit # NoLimit ELSE u > Allowance

Total(f) ==
    LET known == {i \in DOMAIN f : f[i] # None}
    IN MapThenSumSet(LAMBDA i : f[i], known)

\* Mutant of Overdrawn: only the settling Run's own attempts are summed.
OverdrawnOwn(book) ==
    LET own == [i \in DOMAIN book \cap AttemptIds |-> book[i]]
    IN /\ TokenLimit # NoLimit
       /\ \/ \E i \in DOMAIN own : own[i] = None
          \/ Total(own) > TokenLimit

\* _require_root_token_budgets, over every Run of the tree: usage nobody
\* reported counts as an excess.
Overdrawn(book) ==
    /\ TokenLimit # NoLimit
    /\ \/ \E i \in DOMAIN book : book[i] = None
       \/ Total(book) > TokenLimit

\* settle_model_attempt writes the usage before it looks at the totals.
Booked(i, u) == [j \in DOMAIN spent \cup {i} |-> IF j = i THEN u ELSE spent[j]]

-----------------------------------------------------------------------------
(* Errors.  What is caught, in which order it is cleaned up, and which      *)
(* error wins.                                                              *)

Fault == faults < MaxFaults /\ faults' = faults + 1
Calm == UNCHANGED faults

\* The locals the except clause still reads.
Lost(p, code) ==
    [NoInvocation EXCEPT !.use = p.use, !.err = code, !.paid = p.paid,
                         !.value = p.value, !.sound = p.sound]

\* An error before the cleanup: the first thing the except clause settles is
\* the attempt.  The timers are closed in a finally clause after the cleanup,
\* but nobody looks at the signal they would set any more.
RaiseError(code) ==
    /\ stage' = "xSettle" /\ inv' = Lost(inv, code) /\ armed' = {}
    /\ UNCHANGED <<root, opOf, out, hurt>>

Silent == UNCHANGED <<call, n, why, runHalted, refs>>

\* The next await of a path on which nothing was raised.
Go(next) == stage' = next /\ Calm

\* Mutant of XSettle: an attempt without a reported usage is not settled.
XSettleReported ==
    /\ stage = "xSettle" /\ stage' = "xAbort" /\ Calm /\ Silent
    /\ IF n \in attempts /\ ~inv.paid /\ inv.use # None
       THEN /\ spent' = Booked(n, inv.use) /\ inv' = [inv EXCEPT !.paid = TRUE]
            /\ UNCHANGED attempts
       ELSE UNCHANGED <<root, inv>>
    /\ UNCHANGED <<armed, opOf, out, text, told, hurt>>

\* except: _settle_attempt with the usage seen so far.
XSettle ==
    /\ stage = "xSettle" /\ stage' = "xAbort" /\ Silent
    /\ IF n \in attempts /\ ~inv.paid
       THEN \/ /\ spent' = Booked(n, inv.use)
               /\ inv' = [inv EXCEPT !.paid = TRUE,
                            !.err = IF Overdrawn(spent') THEN "budget" ELSE @,
                            !.sound = ~Overdrawn(spent')]
               /\ Calm /\ UNCHANGED <<attempts, hurt>>
            \/ /\ Fault /\ hurt' = hurt \cup {n}
               /\ inv' = [inv EXCEPT !.paid = TRUE, !.err = "store", !.sound = FALSE]
               /\ UNCHANGED root
       ELSE Calm /\ UNCHANGED <<inv, root, hurt>>
    /\ UNCHANGED <<armed, opOf, out, text, told>>

\* except: abort_model_stream.  complete awaits it and the operation's end in
\* one try, so its failure leaves the operation running; stream has a finally.
XAbort ==
    /\ stage = "xAbort" /\ Silent
    /\ IF out[n] = "open"
       THEN \/ /\ out' = [out EXCEPT ![n] = "aborted"] /\ Go("xOperation")
               /\ UNCHANGED <<inv, hurt>>
            \/ /\ Fault /\ hurt' = hurt \cup {n}
               /\ inv' = [inv EXCEPT !.err = "store", !.sound = FALSE]
               /\ stage' = IF Streaming THEN "xOperation" ELSE "raised"
               /\ UNCHANGED out
       ELSE Go("xOperation") /\ UNCHANGED <<inv, out, hurt>>
    /\ UNCHANGED <<armed, root, opOf, text, told>>

\* _fail_operation
XOperation ==
    /\ stage = "xOperation" /\ stage' = "raised" /\ Silent
    /\ IF opOf[n] = "running"
       THEN \/ /\ opOf' = [opOf EXCEPT ![n] =
                            IF inv.err = "canceled" THEN "canceled" ELSE "failed"]
               /\ Calm /\ UNCHANGED <<inv, hurt>>
            \/ /\ Fault /\ hurt' = hurt \cup {n}
               /\ inv' = [inv EXCEPT !.err = "store", !.sound = FALSE]
               /\ UNCHANGED opOf
       ELSE Calm /\ UNCHANGED <<inv, opOf, hurt>>
    /\ UNCHANGED <<armed, root, out, text, told>>

\* raise_if_stopped: the Run's cancellation wins over the invocation's own
\* deadline or idle timer.
StopCode == IF heeds /\ runHalted THEN "canceled" ELSE why

FailStopped == SignalSet /\ Calm /\ RaiseError(StopCode)

-----------------------------------------------------------------------------
(* The start of an attempt.                                                *)

\* _validate_call and _fit_call_to_context: an attempt whose messages leave
\* no room is refused before anything is written, and carries no reference.
BeginAttempt ==
    /\ stage = "begin"
    /\ IF Fits THEN stage' = "start" /\ UNCHANGED inv
       ELSE stage' = "raised" /\ inv' = [inv EXCEPT !.err = "overflow"]
    /\ Calm /\ Silent
    /\ UNCHANGED <<armed, root, opOf, out, text, told, hurt>>

\* _start_operation.  stream awaits it outside of its try.
StartOperation ==
    /\ stage = "start" /\ Silent
    /\ \/ /\ opOf' = [opOf EXCEPT ![n] = "running"] /\ Go("evidence")
          /\ UNCHANGED inv
       \/ /\ Fault /\ stage' = "raised" /\ UNCHANGED opOf
          /\ inv' = [inv EXCEPT !.err = "store", !.sound = FALSE]
    /\ UNCHANGED <<armed, root, out, text, told, hurt>>

\* _validate_evidence: nothing to validate, or a validator between two looks
\* at the signal.
Evidence ==
    /\ stage = "evidence" /\ Silent
    /\ \/ Go("reserve") /\ UNCHANGED <<inv, armed, root, opOf, out, hurt>>
       \/ FailStopped
       \/ Fault /\ RaiseError("evidence")
    /\ UNCHANGED <<text, told>>

\* reserve_model_attempt under the lock of the store.
ReserveAttempt ==
    /\ stage = "reserve" /\ Silent
    /\ \/ /\ Cardinality(attempts) < MaxAttempts
          /\ attempts' = attempts \cup {n} /\ Go("open")
          /\ UNCHANGED <<inv, armed, spent, opOf, out, hurt>>
       \/ Cardinality(attempts) >= MaxAttempts /\ Calm /\ RaiseError("budget")
       \/ Fault /\ RaiseError("store")
    /\ UNCHANGED <<text, told>>

\* open_model_stream
OpenStream ==
    /\ stage = "open" /\ Silent
    /\ \/ /\ out' = [out EXCEPT ![n] = "open"] /\ Go("dispatch")
          /\ UNCHANGED <<inv, armed, root, opOf, hurt>>
       \/ Fault /\ RaiseError("store")
    /\ UNCHANGED <<text, told>>

\* raise_if_stopped, then the Gateway is called; await_with_cancellation does
\* not start what a set signal forbids.
CallProvider ==
    /\ stage = "dispatch" /\ Silent
    /\ \/ ~SignalSet /\ Go("call") /\ UNCHANGED <<inv, armed, root, opOf, out, hurt>>
       \/ FailStopped
    /\ UNCHANGED <<text, told>>

-----------------------------------------------------------------------------
(* A complete answer.                                                      *)

Replies == {"value", "invalid", "cut", "tools", "unfinished", "badlimit"}

\* The checks of complete, in their order; "" when the answer passes them.
Verdict(reply, u) ==
    IF reply = "badlimit" \/ UsageRefused(u, TRUE) THEN "contract"
    ELSE CASE reply = "unfinished" -> "interrupted"
           [] reply = "cut" -> "cut"
           [] reply = "tools" -> "tools"
           [] reply = "invalid" -> "invalid"
           [] OTHER -> ""

\* The Gateway answers a structured task, raises, or is canceled; an answer
\* that races with the signal keeps its usage and is dropped.
AnswerComplete ==
    /\ stage = "call" /\ ~Streaming /\ Silent /\ Calm
    /\ \/ \E reply \in Replies, u \in Usages \cup {None} :
            /\ told' = [told EXCEPT ![n] = u]
            /\ LET code == IF SignalSet THEN StopCode ELSE Verdict(reply, u)
               IN IF code = ""
                  THEN stage' = "settle" /\ inv' = [inv EXCEPT !.use = u, !.value = TRUE]
                  ELSE stage' = "xSettle" /\ inv' = Lost([inv EXCEPT !.use = u], code)
       \/ /\ \/ stage' = "xSettle" /\ inv' = [inv EXCEPT !.err = "gateway"]
             \/ SignalSet /\ stage' = "xSettle" /\ inv' = [inv EXCEPT !.err = StopCode]
          /\ UNCHANGED told
    /\ UNCHANGED <<armed, root, opOf, out, text, hurt>>

-----------------------------------------------------------------------------
(* A streamed answer, and its idle timers.                                 *)

Timers == IF support = "semantic" THEN {} ELSE {"activity", "progress"}

\* The Gateway opens the stream; from here the idle timers run.
OpenGateway ==
    /\ stage = "call" /\ Streaming /\ Silent
    /\ \/ /\ ~SignalSet /\ armed' = Timers
          /\ Go(IF kind = "stream" THEN "opened" ELSE "read")
          /\ UNCHANGED <<inv, root, opOf, out, hurt>>
       \/ \E code \in {"gateway", "contract"} : Calm /\ RaiseError(code)
       \/ FailStopped
    /\ UNCHANGED <<text, told>>

\* The host reads the stream of AgentModelTaskRunner.stream ...
HostStart ==
    /\ stage = "opened" /\ Go("read") /\ Silent
    /\ UNCHANGED <<inv, armed, root, opOf, out, hurt, text, told>>

\* ... or closes it unread: _validated_chunks is a generator that has not
\* begun, so its finally clause does not run and nothing below it is closed.
HostCloseUnread ==
    /\ stage = "opened" /\ Go("abandoned") /\ Silent
    /\ UNCHANGED <<inv, armed, root, opOf, out, hurt, text, told>>

\* _StreamLiveness._expire: both timers are closed, the signal is set.
IdleExpires(timer) ==
    /\ timer \in armed /\ stage \notin TaskOver /\ why = "none"
    /\ armed' = {} /\ why' = timer
    /\ UNCHANGED <<call, stage, n, inv, runHalted, refs, text, root, opOf, out, told,
                   hurt, faults>>

\* The deadline of the Run, or the invocation's timeout, while the signal is
\* still looked at.
DeadlinePasses ==
    /\ stage \in {"evidence", "reserve", "open", "dispatch", "call", "opened", "read",
              "persist", "parse", "held"}
    /\ why = "none" /\ why' = "deadline"
    /\ UNCHANGED <<call, stage, n, inv, armed, runHalted, refs, text, root, opOf, out,
                   told, hurt, faults>>

\* An activity item: refused when the Gateway did not declare it, otherwise
\* the timers start again.
Activity ==
    /\ stage = "read" /\ Silent /\ Calm
    /\ \E item \in {"alive", "working"} :
         IF \/ support = "semantic"
            \/ item = "working" /\ support # "working"
         THEN RaiseError("contract")
         ELSE /\ armed' = Timers /\ ~SignalSet
              /\ UNCHANGED <<stage, inv, root, opOf, out, hurt>>
    /\ UNCHANGED <<text, told>>

\* What a chunk carries.  "empty" is the chunk that is not meaningful.
Chunks == {"empty", "text", "usage", "tools", "undeclared", "finish", "cut"}
Carries(c) == IF c \in {"usage", "finish", "cut"} THEN Usages \cup {None} ELSE {None}

\* The locals of _observe_chunks after a chunk; a usage that is refused has
\* been noted before it is refused.
Noted(c, u) ==
    [inv EXCEPT !.use = IF u = None THEN @ ELSE u, !.item = c, !.count = @ + 1,
                !.got = @ \/ c = "text", !.tools = @ \/ c = "tools"]

\* anext: a chunk, the end of the stream, an error, or the signal.  A chunk
\* that arrives together with the signal is dropped with its usage.
Read ==
    /\ stage = "read" /\ Silent /\ Calm
    /\ \/ \E c \in Chunks : \E u \in Carries(c) :
            /\ told' = IF u = None THEN told ELSE [told EXCEPT ![n] = u]
            /\ IF SignalSet THEN RaiseError(StopCode)
               ELSE LET bad == \/ UsageRefused(u, FALSE) \/ c = "undeclared"
                               \/ inv.count >= MaxChunks
                    IN /\ stage' = IF bad THEN "xSettle" ELSE "persist"
                       /\ inv' = IF bad THEN Lost(Noted(c, u), "contract") ELSE Noted(c, u)
                       /\ armed' = IF c = "empty" /\ ~bad THEN armed ELSE {}
                       /\ UNCHANGED <<root, opOf, out, hurt>>
       \/ \E code \in {"gateway", "interrupted"} : RaiseError(code) /\ UNCHANGED told
       \/ SignalSet /\ RaiseError(StopCode) /\ UNCHANGED told
    /\ UNCHANGED text

\* The end of _observe_chunks' loop body, after raise_if_stopped: the finish
\* chunk closes the timers and must have brought the usage; any other chunk is
\* handed to the consumer.
Pass(p) ==
    IF p.item \in {"finish", "cut"}
    THEN /\ armed' = {} /\ UNCHANGED <<root, opOf, out, hurt>>
         /\ IF UsageRefused(p.use, TRUE)
            THEN stage' = "xSettle" /\ inv' = Lost(p, "contract")
            ELSE stage' = "settle" /\ inv' = p
    ELSE stage' = "held" /\ inv' = p /\ UNCHANGED <<armed, root, opOf, out, hurt>>

\* accept_provider_chunk; a plan's chunk then goes to its parser.
Persist ==
    /\ stage = "persist" /\ Silent
    /\ \/ /\ Calm
          /\ IF kind = "plan"
             THEN stage' = "parse" /\ UNCHANGED <<inv, armed, root, opOf, out, hurt>>
             ELSE IF SignalSet THEN RaiseError(StopCode) ELSE Pass(inv)
       \/ FailStopped
       \/ Fault /\ RaiseError("store")
    /\ UNCHANGED <<text, told>>

\* The consumer asks for the next chunk; after a meaningful one the timers
\* start again.
NextChunk ==
    /\ stage = "held" /\ Go("read") /\ Silent
    /\ armed' = IF inv.item # "empty" /\ why \in {"none", "deadline"} THEN Timers ELSE armed
    /\ UNCHANGED <<inv, root, opOf, out, hurt, text, told>>

\* The consumer gives the stream up between two chunks (a host that closes it,
\* an on_chunk callback that raises).
HostClose ==
    /\ stage = "held" /\ kind \in {"stream", "text"} /\ Calm /\ Silent
    /\ RaiseError("closed")
    /\ UNCHANGED <<text, told>>

-----------------------------------------------------------------------------
(* The plan that is parsed while it arrives.  A record is one line; a       *)
(* chunk may end in the middle of it.                                       *)

Records == {"good", "bad", "plan", "wrong", "blank", "junk"}
Progress == {"good", "bad"}

\* _accept_record
AcceptedRecord(p, r) ==
    CASE r = "blank" -> [p EXCEPT !.tail = "none"]
      [] r # "blank" /\ (r = "junk" \/ p.plan # "none") -> [p EXCEPT !.failed = TRUE]
      [] r \in Progress /\ p.plan = "none" ->
           IF p.records >= MaxRecords THEN [p EXCEPT !.failed = TRUE]
           ELSE [p EXCEPT !.tail = "none", !.records = @ + 1]
      [] OTHER -> [p EXCEPT !.tail = "none", !.plan = r, !.records = @ + 1]

\* finish: a last line without its line feed is a record too, but a progress
\* record must be terminated.
ParserFinished(p) ==
    LET q == IF p.tail = "none" THEN p ELSE AcceptedRecord(p, p.tail)
    IN [q EXCEPT !.failed = @ \/ p.tail = "good" \/ q.plan = "none"]

\* on_chunk of plan: tool calls are refused, text is fed to the parser and
\* the progress records it completes are published, and the plan is validated
\* before the invocation commits.
Parse ==
    /\ stage = "parse" /\ Silent /\ UNCHANGED told
    /\ CASE inv.item = "text" ->
              \E r \in Records, ends \in BOOLEAN :
                /\ parser.tail \in {"none", r}
                /\ doc' = IF parser.tail = "none" THEN Append(doc, r) ELSE doc
                /\ LET p == IF ends THEN AcceptedRecord(parser, r) ELSE [parser EXCEPT !.tail = r]
                       publishes == ends /\ r = "good" /\ ~p.failed
                   IN /\ parser' = p
                      /\ \/ /\ shown' = IF publishes /\ ~SignalSet THEN shown + 1 ELSE shown
                            /\ Calm
                            /\ IF p.failed THEN RaiseError("plan")
                               ELSE IF SignalSet THEN RaiseError(StopCode) ELSE Pass(inv)
                         \/ /\ publishes /\ Fault /\ RaiseError("store") /\ UNCHANGED shown
         [] inv.item = "finish" ->
              /\ parser' = ParserFinished(parser) /\ Calm /\ UNCHANGED <<doc, shown>>
              /\ IF parser'.failed \/ parser'.plan = "wrong" THEN RaiseError("plan")
                 ELSE IF SignalSet THEN RaiseError(StopCode) ELSE Pass(inv)
         [] OTHER ->
              /\ Calm /\ UNCHANGED text
              /\ IF inv.item \in {"tools", "cut"} THEN RaiseError(inv.item)
                 ELSE IF SignalSet THEN RaiseError(StopCode) ELSE Pass(inv)

-----------------------------------------------------------------------------
(* The end of an attempt.                                                  *)

\* _settle_attempt on the path of success: attempt_settled is set before it
\* is awaited, so no second one follows.
SettleAttempt ==
    /\ stage = "settle" /\ Silent
    /\ \/ /\ spent' = Booked(n, inv.use) /\ Calm
          /\ IF Overdrawn(spent')
             THEN /\ stage' = "xSettle" /\ inv' = Lost([inv EXCEPT !.paid = TRUE], "budget")
             ELSE /\ stage' = (CASE ~Streaming -> "accept"
                              [] Streaming /\ inv.item = "cut" -> "cutAbort"
                              [] OTHER -> "finish")
                  /\ inv' = [inv EXCEPT !.paid = TRUE]
          /\ UNCHANGED <<attempts, hurt>>
       \/ /\ Fault /\ stage' = "xSettle" /\ hurt' = hurt \cup {n}
          /\ inv' = Lost([inv EXCEPT !.paid = TRUE], "store")
          /\ UNCHANGED root
    /\ UNCHANGED <<armed, opOf, out, text, told>>

\* A truncated stream is aborted and its operation failed before the error is
\* raised; either await may raise first.
CutAbort ==
    /\ stage = "cutAbort" /\ Silent
    /\ \/ /\ out' = [out EXCEPT ![n] = "aborted"] /\ Go("cutOperation")
          /\ inv' = [inv EXCEPT !.err = "cut"]
          /\ UNCHANGED <<armed, root, opOf, hurt>>
       \/ Fault /\ RaiseError("store")
    /\ UNCHANGED <<text, told>>

CutOperation ==
    /\ stage = "cutOperation" /\ Silent
    /\ \/ opOf' = [opOf EXCEPT ![n] = "failed"] /\ Go("raised")
          /\ UNCHANGED <<inv, armed, root, out, hurt>>
       \/ Fault /\ RaiseError("store")
    /\ UNCHANGED <<text, told>>

\* complete hands the whole answer to the output as one chunk.
Accept ==
    /\ stage = "accept" /\ Silent
    /\ \/ Go("finish") /\ UNCHANGED <<inv, armed, root, opOf, out, hurt>>
       \/ Fault /\ RaiseError("store")
    /\ UNCHANGED <<text, told>>

Finish ==
    /\ stage = "finish" /\ Silent
    /\ \/ out' = [out EXCEPT ![n] = "done"] /\ Go("succeed")
          /\ UNCHANGED <<inv, armed, root, opOf, hurt>>
       \/ Fault /\ RaiseError("store")
    /\ UNCHANGED <<text, told>>

Succeed ==
    /\ stage = "succeed" /\ Silent
    /\ \/ opOf' = [opOf EXCEPT ![n] = "ok"] /\ Go("returned")
          /\ UNCHANGED <<inv, armed, root, out, hurt>>
       \/ Fault /\ RaiseError("store")
    /\ UNCHANGED <<text, told>>

-----------------------------------------------------------------------------
(* The task around its attempts.                                           *)

NextAttempt ==
    /\ stage' = "begin" /\ n' = n + 1 /\ inv' = NoInvocation /\ why' = "none"

\* RecoveryLedger.decide for the task's one cause
MayRetry(used) == used < Retries /\ ~(heeds /\ runHalted)

Ref == [use |-> inv.use,
        settled |-> inv.sound /\ n \in attempts /\ out[n] # "none" /\ ~inv.value]

\* complete_structured repairs an answer that broke its contract, and only
\* when the attempt is settled with a known usage.
Repairs ==
    /\ inv.err = "invalid" /\ Ref.settled /\ Ref.use # None
    /\ MayRetry(Len(refs))

\* An attempt that raised.
AttemptRaised ==
    /\ stage = "raised"
    /\ refs' = IF ~Streaming /\ inv.err # "overflow" THEN Append(refs, Ref) ELSE refs
    /\ IF ~Streaming /\ Repairs THEN NextAttempt
       ELSE /\ stage' = IF inv.err = "closed" /\ kind = "stream" THEN "closed" ELSE "failed"
            /\ UNCHANGED <<n, inv, why>>
    /\ armed' = {} /\ Calm
    /\ UNCHANGED <<call, runHalted, text, root, opOf, out, told, hurt>>

\* An attempt that returned: the text task refuses tool calls and retries an
\* answer without content.
AttemptReturned ==
    /\ stage = "returned"
    /\ refs' = IF Streaming THEN refs ELSE Append(refs, [use |-> inv.use, settled |-> TRUE])
    /\ IF kind # "text" \/ (inv.got /\ ~inv.tools)
       THEN stage' = "done" /\ UNCHANGED <<n, inv, why>>
       ELSE IF ~inv.tools /\ MayRetry(n - 1) THEN NextAttempt
       ELSE stage' = "failed" /\ UNCHANGED <<n, inv, why>>
    /\ armed' = {} /\ Calm
    /\ UNCHANGED <<call, runHalted, text, root, opOf, out, told, hurt>>

-----------------------------------------------------------------------------
(* The others.                                                             *)

\* The Run is canceled.
Halt ==
    /\ ~runHalted /\ runHalted' = TRUE /\ stage \notin TaskOver
    /\ UNCHANGED <<call, stage, n, inv, armed, why, refs, text, root, opOf, out, told,
                   hurt, faults>>

\* An invocation of another Run of the tree reserves its attempt, and settles.
PeerReserves(i) ==
    /\ i \notin attempts /\ Cardinality(attempts) < MaxAttempts /\ stage \notin TaskOver
    /\ (i - 1 \in PeerIds => i - 1 \in attempts)
    /\ attempts' = attempts \cup {i}
    /\ UNCHANGED <<call, stage, n, inv, armed, why, runHalted, refs, text, spent, opOf,
                   out, told, hurt, faults>>

PeerSettles(i) ==
    /\ i \in attempts \ DOMAIN spent /\ stage \notin TaskOver
    /\ \E u \in Usages \cup {None} : spent' = Booked(i, u)
    /\ UNCHANGED <<call, stage, n, inv, armed, why, runHalted, refs, text, attempts,
                   opOf, out, told, hurt, faults>>

TaskStep ==
    \/ BeginAttempt \/ StartOperation \/ Evidence \/ ReserveAttempt \/ OpenStream \/ CallProvider
    \/ Persist \/ Parse \/ NextChunk \/ SettleAttempt \/ CutAbort \/ CutOperation
    \/ Accept \/ Finish \/ Succeed
    \/ XSettle \/ XAbort \/ XOperation \/ AttemptRaised \/ AttemptReturned

Provider == AnswerComplete \/ OpenGateway \/ Activity \/ Read

Environment ==
    \/ HostStart \/ HostCloseUnread \/ HostClose \/ Halt \/ DeadlinePasses
    \/ \E timer \in {"activity", "progress"} : IdleExpires(timer)
    \/ \E i \in PeerIds : PeerReserves(i) \/ PeerSettles(i)

TaskNext == TaskStep \/ Provider \/ Environment

\* await_with_cancellation wakes on the signal whatever the Gateway does.
Woken ==
    /\ stage \in {"call", "read"} /\ FailStopped /\ Silent /\ UNCHANGED <<text, told>>

TaskSpec == TaskInit /\ [][TaskNext]_taskVars

\* The event loop runs what is ready; a Provider may never answer.
FairTaskSpec == TaskSpec /\ WF_taskVars(TaskStep) /\ WF_taskVars(Woken)

-----------------------------------------------------------------------------
(* Properties.                                                             *)

Opening == {"begin", "start", "evidence", "reserve", "open"}
Talking == {"dispatch", "call", "opened", "read", "persist", "parse", "held", "settle"}
Closing == {"accept", "cutAbort", "cutOperation", "finish", "succeed", "returned"}
Cleaning == {"xSettle", "xAbort", "xOperation", "raised"}
TaskStages == Opening \cup Talking \cup Closing \cup Cleaning \cup TaskOver

TaskCodes ==
    {"none", "store", "evidence", "budget", "gateway", "contract", "interrupted", "cut", "tools",
     "invalid", "plan", "closed", "overflow", "canceled", "deadline", "activity", "progress"}

Invocations ==
    [use : Usages \cup {None}, got : BOOLEAN, tools : BOOLEAN, item : Chunks \cup {"none"},
     count : 0 .. MaxChunks, err : TaskCodes, paid : BOOLEAN, value : BOOLEAN, sound : BOOLEAN]

\* The locals, the tables of the Root and the references are well formed, and
\* the tree never holds more attempts than its Root allows
\* (reserve_model_attempt counts every Run of the tree).
TaskTypeOK ==
    /\ kind \in Kinds /\ stage \in TaskStages /\ n \in AttemptIds /\ armed \subseteq Timers
    /\ inv \in Invocations
    /\ why \in {"none", "deadline", "activity", "progress"}
    /\ attempts \subseteq AttemptIds \cup PeerIds /\ DOMAIN spent \subseteq attempts
    /\ Cardinality(attempts) <= MaxAttempts
    /\ refs \in Seq([use : Usages \cup {None}, settled : BOOLEAN]) /\ Len(refs) <= Retries + 1
    /\ opOf \in [AttemptIds -> {"none", "running", "ok", "failed", "canceled"}]
    /\ out \in [AttemptIds -> {"none", "open", "done", "aborted"}]
    /\ told \in [AttemptIds -> Usages \cup {None}]
    /\ hurt \subseteq AttemptIds

\* A structured task starts a repair only from an attempt that is over in every
\* store: its stream is aborted, its operation has ended, and the Root has been
\* charged what the Provider reported (complete_structured).
RepairFromSettled ==
    kind = "structured" =>
        \A i \in 1 .. n - 1 :
            /\ i \in DOMAIN spent /\ spent[i] = told[i] /\ told[i] # None
            /\ out[i] = "aborted" /\ opOf[i] = "failed"
            /\ refs[i].settled /\ refs[i].use = spent[i]

\* With a token limit, an answer is accepted only while the whole tree has
\* reported its usage and stays within the limit, and never on a total lower
\* than what the Providers have sent (settle_model_attempt).
AcceptedWithinTokens ==
    stage = "settle" /\ stage' \in {"accept", "finish"} /\ TokenLimit # NoLimit =>
      /\ \A i \in DOMAIN spent' : spent'[i] # None
      /\ ~(Total(spent') > TokenLimit)
      /\ spent'[n] = told[n]

\* A task that is over leaves nothing open: every attempt it reserved is
\* settled, its stream and its operation have ended and no idle timer runs.
\* Two exceptions: an attempt whose cleanup itself raised, and a stream its
\* host closed before the first read.
NothingLeft ==
    stage \in TaskOver \ {"abandoned"} =>
        /\ armed = {}
        /\ \A i \in AttemptIds \ hurt :
             /\ i \in attempts => i \in DOMAIN spent
             /\ out[i] # "open" /\ opOf[i] # "running"

\* An idle timer measures the Provider: it runs while the task waits for the
\* Provider (or the host has not begun to read), and never while a chunk with
\* content is stored, parsed, settled or in the hands of the consumer
\* (_StreamLiveness.accept_chunk, resume).
IdleIsTheProvider ==
    armed # {} =>
        \/ stage \in {"opened", "read", "abandoned"}
        \/ stage \in {"persist", "parse", "held"} /\ inv.item = "empty"

\* What a document of plan records means, whatever its chunks were: progress
\* records within their limit, then one plan the validator accepts, and blank
\* lines anywhere.
PlanOf(records) ==
    /\ \E k \in DOMAIN records :
         /\ records[k] = "plan"
         /\ \A i \in DOMAIN records : /\ i < k => records[i] \in Progress \cup {"blank"}
                                      /\ i > k => records[i] = "blank"
    /\ Cardinality({i \in DOMAIN records : records[i] \in Progress}) <= MaxRecords

\* The stream of a plan is committed only for a document that means a plan, and
\* the published progress is the valid progress of that document
\* (PlanningStreamParser, plan).
PlanDone(d, s) == PlanOf(d) /\ s = Cardinality({i \in DOMAIN d : d[i] = "good"})

PlanCommittedExact == kind = "plan" /\ out[1] = "done" => PlanDone(doc, shown)

\* Once the Run's signal is set no Provider call begins in a task that was
\* given the signal.
NoCallAfterStop == stage = "dispatch" /\ stage' = "call" => ~(heeds /\ runHalted)

\* A canceled Run ends the tasks that follow its signal, even when the Provider
\* never answers and no timer is configured.
StopEndsTask == (runHalted /\ heeds /\ kind # "stream") ~> (stage \in TaskOver)

\* A stream its host has closed is settled ("every transforming layer must
\* explicitly own and close the resource below it", stream_ownership.py).
ClosedIsSettled ==
    stage \in {"closed", "abandoned"} =>
        \A i \in AttemptIds \ hurt : (i \in attempts => i \in DOMAIN spent) /\ opOf[i] # "running"

Fresh(i) == i \notin attempts /\ out[i] = "none" /\ opOf[i] = "none"
Closed(i) == (i \in attempts => i \in DOMAIN spent) /\ out[i] # "open" /\ opOf[i] # "running"

\* OtherAttempts: the stores hold nothing of an attempt to come, and nothing
\* open of an earlier one.
OtherAttempts ==
    /\ \A i \in AttemptIds : i > n => Fresh(i) /\ told[i] = None
    /\ \A i \in AttemptIds : i < n /\ i \notin hurt => Closed(i)

\* AttemptInStage: of the current attempt they hold what its stage says.
AttemptInStage ==
    /\ stage \in {"begin", "start"} => Fresh(n)
    /\ stage \in {"evidence", "reserve"} =>
         n \notin attempts /\ out[n] = "none" /\ opOf[n] = "running"
    /\ stage = "open" => n \in attempts /\ out[n] = "none" /\ opOf[n] = "running"
    /\ stage \in Opening \cup Talking => n \notin DOMAIN spent
    /\ stage \in Talking => n \in attempts /\ out[n] = "open" /\ opOf[n] = "running"
    /\ stage \in Closing => n \in DOMAIN spent
    /\ stage \in {"accept", "finish", "cutAbort"} => out[n] = "open" /\ opOf[n] = "running"
    /\ stage = "succeed" => out[n] = "done" /\ opOf[n] = "running"
    /\ stage = "cutOperation" => out[n] = "aborted" /\ opOf[n] = "running"
    /\ stage = "returned" => out[n] = "done" /\ opOf[n] = "ok"
    /\ stage \in Cleaning /\ n \notin hurt =>
         /\ n \in attempts /\ (inv.paid \/ stage # "xSettle") => n \in DOMAIN spent
         /\ stage \in {"xOperation", "raised"} => out[n] # "open"
         /\ stage = "raised" => opOf[n] # "running"
    /\ stage \in TaskOver \ {"abandoned"} => armed = {} /\ (n \notin hurt => Closed(n))

\* AnswerInStage: what the task knows of the answer: the usage it will book is the
\* one the Provider sent, it is not booked before the settlement, and an answer
\* that broke its contract is cleaned up like any other error.
AnswerInStage ==
    /\ stage \in Opening \cup Talking => inv.use = told[n] /\ ~inv.paid
    /\ stage \notin Cleaning \cup TaskOver => inv.err # "invalid"
    /\ stage = "parse" => kind = "plan"
    /\ stage \in Cleaning /\ inv.err = "invalid" =>
         /\ inv.use = told[n] /\ n \in attempts
         /\ stage = "xSettle" => ~inv.paid
         /\ stage # "xSettle" => n \in DOMAIN spent /\ spent[n] = inv.use
         /\ out[n] = IF stage \in {"xSettle", "xAbort"} THEN "open" ELSE "aborted"
         /\ opOf[n] = IF stage = "raised" THEN "failed" ELSE "running"

\* RefsInStage: a structured task has one reference for each attempt it repaired.
RefsInStage == IF Streaming THEN refs = <<>> ELSE stage \notin TaskOver => Len(refs) = n - 1

\* ParserFollows: the parser has read every record of the document but the one it is
\* in the middle of, and its progress is what was published.
Whole(p, d) == IF p.tail = "none" THEN DOMAIN d ELSE 1 .. Len(d) - 1

Counted(p, d, types) == Cardinality({i \in Whole(p, d) : d[i] \in types})

Parsers ==
    [tail : Records \cup {"none"}, plan : {"none", "plan", "wrong"}, failed : BOOLEAN,
     records : Nat]

ParserFollows(p, d, s) ==
    /\ p \in Parsers /\ ~p.failed
    /\ p.tail # "none" => d # <<>> /\ d[Len(d)] = p.tail
    /\ Counted(p, d, Progress) <= MaxRecords /\ s = Counted(p, d, {"good"})
    /\ p.plan = "none" =>
         /\ p.records = Counted(p, d, Progress)
         /\ \A i \in Whole(p, d) : d[i] \in Progress \cup {"blank"}
    /\ p.plan # "none" =>
         \E k \in Whole(p, d) :
            /\ d[k] = p.plan
            /\ \A i \in Whole(p, d) : /\ i < k => d[i] \in Progress \cup {"blank"}
                                      /\ i > k => d[i] = "blank"

\* PlanInStage: a plan is parsed while it arrives, and settled only as a whole.
PlanInStage ==
    /\ kind \in {"plan", "stream"} => n = 1
    /\ kind = "plan" =>
         /\ doc \in Seq(Records)
         /\ stage \in Opening \cup (Talking \ {"settle"}) => ParserFollows(parser, doc, shown)
         /\ stage \in {"settle", "accept", "finish"} => PlanDone(doc, shown)

\* TaskInv: what holds of a private model task at every await: repairs start
\* from a settled attempt, nothing is left open at the end, the idle timer
\* measures the Provider, and a committed plan is the document's; and what the
\* stages of an attempt rely on for that.
TaskInv ==
    /\ TaskTypeOK
    /\ RepairFromSettled
    /\ NothingLeft
    /\ IdleIsTheProvider
    /\ PlanCommittedExact
    /\ OtherAttempts /\ AttemptInStage /\ AnswerInStage /\ RefsInStage /\ PlanInStage
=============================================================================
