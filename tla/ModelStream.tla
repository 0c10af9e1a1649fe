----------------------------- MODULE ModelStream -----------------------------
(***************************************************************************)
(* The model invocations of one execution, from the operation's start to   *)
(* its end: the Provider's chunks go through a buffer with a flush timer   *)
(* into the journal, and a subscriber reads the journal.                   *)
(*                                                                         *)
(*   src/purra/model_invocation/manager.py   stream, _observe_chunks       *)
(*   src/purra/output/processor.py           AgentOutputProcessor          *)
(*   src/purra/output/buffering.py           ProviderOutputBuffer          *)
(*   src/purra/operations/controller.py      AgentOperationController      *)
(*   src/purra/execution/supervisor.py       _subscribe                    *)
(*                                                                         *)
(* pc is the await the producer stands at.  Every await may raise (a       *)
(* Provider error, a stop signal, a store or publisher that fails); after  *)
(* the first error of an invocation its cleanup is a sequence of awaits    *)
(* of its own, each of which may raise too.                                *)
(***************************************************************************)
EXTENDS OutputJournal

CONSTANTS
    MaxChunks,     \* bound: chunks of a stream, the finish chunk included
    MaxFragments,  \* OutputBatchLimits.max_fragments
    MaxFaults,     \* bound: awaits that raise
    PageLimit,     \* events of one list_events call
    Subscribers    \* the callers of AgentRunHandle.subscribe

ASSUME StreamAssumption ==
    /\ MaxChunks \in Nat \ {0} /\ MaxFragments \in Nat \ {0}
    /\ MaxFaults \in Nat /\ PageLimit \in Nat \ {0}

VARIABLES
    pc,         \* the await of the producer
    cur,        \* the invocation, 0 before the first
    ok,         \* the last invocation gave its consumer the finish chunk
    sent,       \* per stream: the kinds of the accepted chunks
    buf,        \* per stream: _StreamBatch.entries
    held,       \* per stream: the buffer still has a batch for it
    timer,      \* per stream: the flush timer and what it is persisting
    bg,         \* per stream: _StreamBatch.background_error
    att,        \* per stream: the reserved model attempt
    hurt,       \* the invocations whose cleanup was itself interrupted
    mark,       \* the sequence the producer is about to publish
    published,  \* published_sequences
    faults,
    sub,        \* the subscribers
    done        \* journal length when the handle's result settled, 0 before

producer == <<pc, cur, ok, hurt>>
batch == <<sent, buf, held>>
vars == <<db, producer, batch, timer, bg, att, mark, published, faults, sub, done>>

Kinds == {"text", "tool", "progress", "finish", "cut"}
Finishing == {"finish", "cut"}
NoTimer == [at |-> "none", take |-> <<>>, mark |-> 0]

StreamInit ==
    /\ JournalInit
    /\ pc = "idle" /\ cur = 0 /\ ok = FALSE /\ hurt = {}
    /\ sent = [s \in Streams |-> <<>>]
    /\ buf = [s \in Streams |-> <<>>]
    /\ held = [s \in Streams |-> FALSE]
    /\ timer = [s \in Streams |-> NoTimer]
    /\ bg = [s \in Streams |-> FALSE]
    /\ att = [s \in Streams |-> "none"]
    /\ mark = 0 /\ published = 1 /\ faults = 0
    /\ sub = [w \in Subscribers |-> [cursor |-> 0, st |-> "list"]]
    /\ done = 0

-----------------------------------------------------------------------------
(* Errors.                                                                 *)

\* Mutant of OnError: output_settled is set before the commit is awaited, the
\* way attempt_settled is.
OnErrorSettledEarly(stage) ==
    CASE stage \in {"start", "startPub"} -> "idle"
      [] stage = "open" -> "openSettle"
      [] stage = "openEvent" -> "openAbort"
      [] stage \in {"openAbort", "openAbortPub"} -> "openSettle"
      [] stage \in {"read", "flush", "flushPub", "extra", "extraPub"} -> "xSettle"
      [] stage \in {"settle", "xSettle"} -> "xLock"
      [] stage \in {"xLock", "xFlush", "xFlushPub"} -> "xAbort"
      [] stage \in {"xOp", "xOpPub"} -> "idle"
      [] OTHER -> "xOp"

\* Where control goes when an await raises.  Before the reservation only the
\* operation is closed; a stream whose first event fails is aborted by the
\* processor; later the attempt is settled (once), the buffer flushed, the
\* stream aborted and the operation failed, in this order.
OnError(stage) ==
    CASE stage \in {"start", "startPub"} -> "idle"
      [] stage = "open" -> "openSettle"
      [] stage = "openEvent" -> "openAbort"
      [] stage \in {"openAbort", "openAbortPub"} -> "openSettle"
      [] stage \in {"read", "flush", "flushPub", "extra", "extraPub"} -> "xSettle"
      [] stage \in {"settle", "finish", "commit", "commitPub", "xSettle"} -> "xLock"
      [] stage \in {"xLock", "xFlush", "xFlushPub"} -> "xAbort"
      [] stage \in {"xOp", "xOpPub"} -> "idle"
      [] OTHER -> "xOp"

\* The stages whose own failure leaves something for the terminal commit.
Cleanup ==
    {"startPub", "settle", "openAbort", "openAbortPub", "openSettle", "xSettle", "xLock",
     "xFlush", "xFlushPub", "xAbort", "xAbortPub", "xOp", "xOpPub"}

Invoking == pc \notin {"idle", "comment", "commentPub", "terminal", "terminalPub", "result",
                       "ended"}

Stages ==
    {"idle", "comment", "commentPub", "terminal", "terminalPub", "result", "ended", "start", "startPub",
     "reserve", "open", "openEvent", "openAbort", "openAbortPub", "openSettle", "read", "flush",
     "flushPub", "extra", "extraPub", "settle", "finish", "commit", "commitPub", "opEnd", "opEndPub",
     "xSettle", "xLock", "xFlush", "xFlushPub", "xAbort", "xAbortPub", "xOp", "xOpPub"}

\* The stages at which the current stream has its batch.
Batching ==
    {"openEvent", "openAbort", "read", "flush", "flushPub", "extra", "extraPub", "settle", "xSettle",
     "finish", "commit", "xFlush", "xFlushPub", "xAbort"}

Quiet == UNCHANGED <<published, faults, sub, done>>

\* _discard_stream_state: the batch is dropped and the sleeping or persisting
\* timer canceled; one that has persisted has already detached itself.
Discarded(s) ==
    /\ held' = [held EXCEPT ![s] = FALSE]
    /\ buf' = [buf EXCEPT ![s] = <<>>]
    /\ timer' = [timer EXCEPT ![s] = IF @.at = "publish" THEN @ ELSE NoTimer]

\* The abort discards its batch even when the repository refuses it.
DiscardedAt(stage) ==
    IF stage \in {"xAbort", "openAbort"}
    THEN Discarded(cur)
    ELSE UNCHANGED <<held, buf, timer>>

Raise ==
    /\ pc' = OnError(pc)
    /\ DiscardedAt(pc)
    /\ UNCHANGED <<db, cur, ok, sent, bg, att, mark>>

\* An await of the invocation raises before it had an effect.  The call that
\* aborts a stream without a batch returns before its first await.
Fault ==
    /\ Invoking /\ faults < MaxFaults
    /\ pc = "xLock" => held[cur]
    /\ faults' = faults + 1
    /\ hurt' = IF pc \in Cleanup THEN hurt \cup {cur} ELSE hurt
    /\ Raise
    /\ UNCHANGED <<published, sub, done>>

Refused == Raise /\ UNCHANGED hurt

-----------------------------------------------------------------------------
(* Persisting before publishing.                                           *)

\* The highest sequence of the public events among ds.
MarkOf(log, ds) ==
    Max({0} \cup {i \in DOMAIN log :
                     log[i].pub /\ \E j \in DOMAIN ds : log[i].key = ds[j].key})

\* The producer stores ds in the state d and goes on to publish or, if nothing
\* in ds is public, directly to the stage after that.
Stored(d, ds, publish, next) ==
    /\ db' = d
    /\ mark' = MarkOf(d.log, ds)
    /\ pc' = IF mark' = 0 THEN next ELSE publish

Persist(ds, publish, next) ==
    \/ /\ CanAppend(ds, {"open"})
       /\ Stored(Appended(ds), ds, publish, next)
       /\ UNCHANGED <<cur, ok, hurt, batch, timer, bg, att>>
    \/ /\ ~CanAppend(ds, {"open"})
       /\ Refused

Kind == Last(sent[cur])

AfterFlush == IF Kind \in {"text", "tool"} THEN "read" ELSE "extra"

AfterExtra == IF Kind = "progress" THEN "read" ELSE "settle"

\* publish_committed, and the stage that follows each publication.
AfterPublish ==
    CASE pc = "startPub" -> "reserve"
      [] pc = "flushPub" -> AfterFlush
      [] pc = "extraPub" -> AfterExtra
      [] pc = "commitPub" -> "opEnd"
      [] pc = "opEndPub" -> "idle"
      [] pc = "xFlushPub" -> "xAbort"
      [] pc = "xAbortPub" -> "xOp"
      [] pc = "openAbortPub" -> "openSettle"
      [] pc = "xOpPub" -> "idle"
      [] pc = "commentPub" -> "idle"
      [] pc = "terminalPub" -> "result"

Later(m) == Max({m, published})

Publish ==
    /\ pc \in {"startPub", "flushPub", "extraPub", "commitPub", "opEndPub", "xFlushPub",
               "xAbortPub", "openAbortPub", "xOpPub", "commentPub", "terminalPub"}
    /\ published' = Later(mark)
    /\ pc' = AfterPublish
    /\ ok' = (ok \/ pc = "opEndPub")
    /\ UNCHANGED <<db, cur, hurt, batch, timer, bg, att, mark, faults, sub, done>>

-----------------------------------------------------------------------------
(* Opening an invocation.                                                  *)

\* AgentOperationController.start
StartOperation ==
    /\ pc = "start"
    /\ Persist(<<OperationStarted(cur)>>, "startPub", "reserve")
    /\ Quiet

Reserve ==
    /\ pc = "reserve"
    /\ att' = [att EXCEPT ![cur] = "reserved"]
    /\ pc' = "open"
    /\ UNCHANGED <<db, cur, ok, hurt, batch, timer, bg, mark>> /\ Quiet

\* open_model_stream: the stream and its batch, then the receipt.
OpenStream(public) ==
    /\ pc = "open"
    /\ \/ /\ CanOpen(cur)
          /\ db' = Opened(cur, public)
          /\ held' = [held EXCEPT ![cur] = TRUE]
          /\ pc' = "openEvent"
          /\ UNCHANGED <<cur, ok, hurt, sent, buf, timer, bg, att, mark>>
       \/ ~CanOpen(cur) /\ Refused
    /\ Quiet

OpenEvent ==
    /\ pc = "openEvent"
    /\ Persist(<<Event(<<"open", cur>>, cur, FALSE, "receipt")>>, "read", "read")
    /\ Quiet

-----------------------------------------------------------------------------
(* The buffer.                                                             *)

Part(kind) == CASE kind = "text" -> "content" [] kind = "tool" -> "tool"
                [] kind = "progress" -> "progress"

Shown(s, part) == part = "content" /\ db.public[s]

\* pending_deltas: the entries a chunk adds; a finish chunk adds none.
PendingDeltas(kind, c) ==
    IF kind \in Finishing THEN <<>> ELSE <<[c |-> c, part |-> Part(kind)]>>

\* _batch_drafts: one draft per visibility, keyed by the range of its chunks
\* and ordered by its first entry.
Draft(s, pub, entries) ==
    LET mine == At(entries, {k \in DOMAIN entries : Shown(s, entries[k].part) = pub})
    IN  IF mine = <<>> THEN <<>>
        ELSE <<Event(<<"batch", s, pub, mine[1].c, mine[Len(mine)].c>>, s, pub, mine)>>

BatchDrafts(s, entries) ==
    LET first == Shown(s, entries[1].part)
    IN  IF entries = <<>> THEN <<>> ELSE Draft(s, first, entries) \o Draft(s, ~first, entries)

\* Mutant of BatchFree: the batch has no lock.
BatchAlwaysFree(s) == TRUE

\* batch.lock: held by the producer from accept to the end of its flush and
\* projections, and by the timer from its flush to the end of its publication.
BatchFree(s) == timer[s].at \notin {"flush", "publish"}

ProducerHolds(s) ==
    cur = s /\ pc \in {"flush", "flushPub", "extra", "extraPub", "xFlush", "xFlushPub"}

MustFlush(kind, entries) ==
    kind \in Finishing \cup {"progress"} \/ Len(entries) >= MaxFragments

\* schedule: at most one timer per batch.
Scheduled(s) ==
    IF timer[s].at = "none" THEN [timer EXCEPT ![s].at = "asleep"] ELSE timer

\* accept_provider_chunk up to its flush; a chunk that only waits in the
\* buffer is handed to the consumer at once.
Accept(kind) ==
    LET c == Len(sent[cur]) + 1
        entries == buf[cur] \o PendingDeltas(kind, c)
        next == IF MustFlush(kind, entries) THEN "flush"
                ELSE IF kind = "progress" THEN "extra" ELSE "read"
    IN  /\ pc = "read" /\ BatchFree(cur)
        /\ c < MaxChunks \/ kind \in Finishing
        /\ \/ /\ bg[cur] /\ Refused
           \/ /\ ~bg[cur]
              /\ sent' = [sent EXCEPT ![cur] = Append(@, kind)]
              /\ buf' = [buf EXCEPT ![cur] = entries]
              /\ timer' = IF next = "flush" THEN timer ELSE Scheduled(cur)
              /\ pc' = next
              /\ UNCHANGED <<db, cur, ok, hurt, held, bg, att, mark>>
        /\ Quiet

\* flush_locked of the producer: persisted, cleared, the timer canceled.
FlushInto(s, publish, next) ==
    IF buf[s] = <<>>
    THEN /\ pc' = next
         /\ timer' = [timer EXCEPT ![s] = NoTimer]
         /\ UNCHANGED <<db, cur, ok, hurt, batch, bg, att, mark>>
    ELSE \E ds \in {BatchDrafts(s, buf[s])} :
         \/ /\ CanAppend(ds, {"open"})
            /\ Stored(Appended(ds), ds, publish, next)
            /\ buf' = [buf EXCEPT ![s] = <<>>]
            /\ timer' = [timer EXCEPT ![s] = NoTimer]
            /\ UNCHANGED <<cur, ok, hurt, sent, held, bg, att>>
         \/ ~CanAppend(ds, {"open"}) /\ Refused

Flush == pc = "flush" /\ FlushInto(cur, "flushPub", AfterFlush) /\ Quiet

\* The agent.progress projection of a progress chunk, the usage of a finish chunk.
Extra ==
    LET c == Len(sent[cur])
        draft == IF Kind = "progress"
                 THEN Event(<<"progress", cur, c>>, cur, TRUE, c)
                 ELSE Event(<<"usage", cur, c>>, cur, FALSE, c)
    IN  pc = "extra" /\ Persist(<<draft>>, "extraPub", AfterExtra) /\ Quiet

\* _flush_after_latency
TimerWakes(s) ==
    /\ timer[s].at = "asleep" /\ BatchFree(s) /\ ~ProducerHolds(s)
    /\ timer' = [timer EXCEPT ![s] =
                    IF bg[s] THEN NoTimer ELSE [@ EXCEPT !.at = "flush", !.take = buf[s]]]
    /\ UNCHANGED <<db, producer, batch, bg, att, mark>> /\ Quiet

TimerFails(s) ==
    /\ bg' = [bg EXCEPT ![s] = TRUE]
    /\ timer' = [timer EXCEPT ![s] = NoTimer]
    /\ UNCHANGED <<db, producer, batch, att, mark, published, sub, done>>

Publishing(m) ==
    IF m = 0 THEN NoTimer ELSE [at |-> "publish", take |-> <<>>, mark |-> m]

\* The timer's flush_locked; a failure is kept for the next user of the batch.
TimerFlush(s) ==
    /\ timer[s].at = "flush"
    /\ \E ds \in {BatchDrafts(s, timer[s].take)} :
         \/ /\ ds # <<>> /\ CanAppend(ds, {"open"})
            /\ db' = Appended(ds)
            /\ buf' = [buf EXCEPT ![s] = <<>>]
            /\ timer' = [timer EXCEPT ![s] = Publishing(MarkOf(db'.log, ds))]
            /\ UNCHANGED <<producer, sent, held, bg, att, mark>> /\ Quiet
         \/ /\ ds # <<>> /\ ~CanAppend(ds, {"open"})
            /\ TimerFails(s) /\ UNCHANGED faults
         \/ /\ ds = <<>>
            /\ timer' = [timer EXCEPT ![s] = NoTimer]
            /\ UNCHANGED <<db, producer, batch, bg, att, mark>> /\ Quiet

TimerPublish(s) ==
    /\ timer[s].at = "publish"
    /\ published' = Later(timer[s].mark)
    /\ timer' = [timer EXCEPT ![s] = NoTimer]
    /\ UNCHANGED <<db, producer, batch, bg, att, mark, faults, sub, done>>

TimerFault(s) ==
    /\ timer[s].at \in {"flush", "publish"} /\ faults < MaxFaults
    /\ faults' = faults + 1
    /\ TimerFails(s)

-----------------------------------------------------------------------------
(* Ending an invocation.                                                   *)

\* _settle_attempt, in the order of the four places it is called from.
Settle ==
    /\ pc \in {"settle", "xSettle", "openSettle"}
    /\ att' = [att EXCEPT ![cur] = "settled"]
    /\ pc' = CASE pc = "openSettle" -> "xOp"
               [] pc = "xSettle" -> "xLock"
               [] pc = "settle" -> IF Kind = "cut" THEN "xLock" ELSE "finish"
    /\ UNCHANGED <<db, cur, ok, hurt, batch, timer, bg, mark>> /\ Quiet

\* finish_model_stream: nothing may be left in the batch when it commits.
FinishStream ==
    /\ pc = "finish" /\ BatchFree(cur)
    /\ IF bg[cur] THEN Refused ELSE FlushInto(cur, "commit", "commit")
    /\ Quiet

CommitStream ==
    /\ pc = "commit"
    /\ \/ /\ CanEnd(cur, "committed")
          /\ Stored(Ended(cur, "committed"), <<StreamEnd(cur, "committed")>>, "commitPub", "opEnd")
          /\ Discarded(cur)
          /\ UNCHANGED <<cur, ok, hurt, sent, bg, att>>
       \/ ~CanEnd(cur, "committed") /\ Refused
    /\ Quiet

SucceedOperation ==
    /\ pc = "opEnd"
    /\ Persist(<<OperationFinished(cur, "succeeded")>>, "opEndPub", "idle")
    /\ Quiet

\* abort_model_stream: the lock, the last flush, the abort whatever became of it.
\* A batch that was discarded by a commit or an abort ends the call.
AbortLock ==
    /\ pc = "xLock"
    /\ held[cur] => BatchFree(cur)
    /\ pc' = IF ~held[cur] THEN "xOp" ELSE IF bg[cur] THEN "xAbort" ELSE "xFlush"
    /\ UNCHANGED <<db, cur, ok, hurt, batch, timer, bg, att, mark>> /\ Quiet

AbortFlush == pc = "xFlush" /\ FlushInto(cur, "xFlushPub", "xAbort") /\ Quiet

AbortStream ==
    LET opening == pc = "openAbort"
    IN  /\ pc \in {"xAbort", "openAbort"}
        /\ \/ /\ CanEnd(cur, "aborted")
              /\ Stored(Ended(cur, "aborted"), <<StreamEnd(cur, "aborted")>>,
                        IF opening THEN "openAbortPub" ELSE "xAbortPub",
                        IF opening THEN "openSettle" ELSE "xOp")
              /\ Discarded(cur)
              /\ UNCHANGED <<cur, ok, hurt, sent, bg, att>>
           \/ ~CanEnd(cur, "aborted") /\ Refused
        /\ Quiet

FailOperation ==
    /\ pc = "xOp"
    /\ Persist(<<OperationFinished(cur, "failed")>>, "xOpPub", "idle")
    /\ Quiet

-----------------------------------------------------------------------------
(* The execution around its invocations.                                   *)

Invoke ==
    /\ pc = "idle" /\ cur < MaxStreams
    /\ pc' = "start" /\ cur' = cur + 1 /\ ok' = FALSE
    /\ UNCHANGED <<db, hurt, batch, timer, bg, att, mark>> /\ Quiet

\* publish_model_stream_commentary, before the calls of the answer are executed.
Comment ==
    /\ pc = "idle" /\ ok /\ CanComment(cur) /\ ~Logged(<<"text", cur, "commentary">>)
    /\ Stored(Appended(Commentary(cur)), Commentary(cur), "commentPub", "idle")
    /\ UNCHANGED <<cur, ok, hurt, batch, timer, bg, att>> /\ Quiet

\* accept_run_lifecycle_event: the answer of a committed stream without calls,
\* or a failure or cancellation; a refused answer is settled as a failure.
Answers == ok /\ CanPublishVerbatim(cur)

Final(status) == IF status = "done" /\ ~db.public[cur] THEN Verbatim(cur) ELSE <<>>

Terminate(status) ==
    /\ pc = "idle" /\ cur > 0
    /\ status = "done" => Answers
    /\ \E ds \in {TerminalEvents(status, Final(status))} :
         \/ /\ CanTerminate(ds, FALSE)
            /\ Stored(Terminated(status, ds), ds, "terminalPub", "result")
            /\ UNCHANGED <<cur, ok>>
         \/ /\ ~CanTerminate(ds, FALSE)
            /\ ok' = FALSE
            /\ pc' = IF status = "done" THEN "idle" ELSE "result"
            /\ UNCHANGED <<db, cur, mark>>
    /\ UNCHANGED <<hurt, batch, timer, bg, att>> /\ Quiet

\* A suspension, or a settlement whose store fails: no terminal commit.
GiveUp ==
    /\ pc \in {"idle", "commentPub", "terminalPub"} /\ cur > 0
    /\ pc' = "result"
    /\ UNCHANGED <<db, cur, ok, hurt, batch, timer, bg, att, mark>> /\ Quiet

\* The supervisor settles the handle's result once the execution is over.
SettleResult ==
    /\ pc = "result"
    /\ done' = Len(db.log)
    /\ pc' = "ended"
    /\ UNCHANGED <<db, cur, ok, hurt, batch, timer, bg, att, mark, published, faults, sub>>

\* _prepare_child_cancellations: the tree ends a Child Run from outside and
\* takes its claim; nobody publishes these events.
TreeCancel ==
    /\ \E ds \in {TerminalEvents("canceled", <<>>)} :
         /\ CanTerminate(ds, TRUE)
         /\ db' = [Terminated("canceled", ds) EXCEPT !.claim = FALSE]
    /\ UNCHANGED <<producer, batch, timer, bg, att, mark>> /\ Quiet

-----------------------------------------------------------------------------
(* Subscribers.                                                            *)

EndsSubscription(page) == page = 0 /\ done > 0

\* One turn of _subscribe: a page, or the end, or a wait.
List(w) ==
    LET left == Len(db.log) - sub[w].cursor
        page == IF left < PageLimit THEN left ELSE PageLimit
    IN  /\ sub[w].st = "list"
        /\ sub' = [sub EXCEPT ![w] =
                      [cursor |-> @.cursor + page,
                       st |-> IF EndsSubscription(page) THEN "ended"
                              ELSE IF page > 0 THEN "list" ELSE "wait"]]
        /\ UNCHANGED <<db, producer, batch, timer, bg, att, mark, published, faults, done>>

\* Mutant of Woken: only a publication wakes a subscriber.
WokenByPublication(w) == published > sub[w].cursor

\* wait_for_sequence or the result, whichever comes first.
Woken(w) == published > sub[w].cursor \/ done > 0

Wake(w) ==
    /\ sub[w].st = "wait" /\ Woken(w)
    /\ sub' = [sub EXCEPT ![w].st = "list"]
    /\ UNCHANGED <<db, producer, batch, timer, bg, att, mark, published, faults, done>>

-----------------------------------------------------------------------------
InvocationStep ==
    \/ StartOperation \/ Reserve \/ OpenEvent \/ Flush \/ Extra \/ Publish
    \/ Settle \/ FinishStream \/ CommitStream \/ SucceedOperation
    \/ AbortLock \/ AbortFlush \/ AbortStream \/ FailOperation
    \/ \E public \in BOOLEAN : OpenStream(public)
    \/ \E kind \in Kinds : Accept(kind)

RunStep ==
    \/ Invoke \/ Comment \/ GiveUp \/ SettleResult
    \/ \E status \in {"done", "failed", "canceled"} : Terminate(status)

TimerStep(s) == TimerWakes(s) \/ TimerFlush(s) \/ TimerPublish(s)

StreamNext ==
    \/ InvocationStep \/ RunStep \/ Fault \/ TreeCancel
    \/ \E s \in Streams : TimerStep(s) \/ TimerFault(s)
    \/ \E w \in Subscribers : List(w) \/ Wake(w)

StreamSpec == StreamInit /\ [][StreamNext]_vars

\* Started tasks keep being scheduled; errors and cancellations need not happen.
StreamFairness ==
    /\ WF_vars(InvocationStep \/ RunStep)
    /\ \A s \in Streams : WF_vars(TimerStep(s))
    /\ \A w \in Subscribers : WF_vars(List(w) \/ Wake(w))

LiveStreamSpec == StreamSpec /\ StreamFairness

-----------------------------------------------------------------------------
(* Properties.                                                             *)

Entries == [c : Nat, part : {"content", "tool", "progress"}]

ProducerTypeOK ==
    /\ cur \in 0..MaxStreams /\ ok \in BOOLEAN /\ faults \in 0..MaxFaults
    /\ pc \in Stages /\ hurt \subseteq Streams /\ done \in Nat
    /\ sent \in [Streams -> Seq(Kinds)] /\ buf \in [Streams -> Seq(Entries)]
    /\ held \in [Streams -> BOOLEAN] /\ bg \in [Streams -> BOOLEAN]
    /\ att \in [Streams -> {"none", "reserved", "settled"}]
    /\ DOMAIN timer = Streams
    /\ \A s \in Streams :
         /\ timer[s] = [at |-> timer[s].at, take |-> timer[s].take, mark |-> timer[s].mark]
         /\ timer[s].at \in {"none", "asleep", "flush", "publish"}
         /\ Len(buf[s]) =< MaxFragments
         /\ ~held[s] => buf[s] = <<>> /\ timer[s].at \in {"none", "publish"}
         /\ timer[s].at = "flush" => timer[s].take = buf[s]

StreamTypeOK == JournalTypeOK /\ ProducerTypeOK

\* The accepted chunks of s that have a delta, by its visibility.
Deltas(s, pub) ==
    {c \in DOMAIN sent[s] : sent[s][c] \notin Finishing /\ Shown(s, Part(sent[s][c])) = pub}

Journaled(s, pub, c) ==
    \E i \in Batches(s, pub) : \E k \in DOMAIN db.log[i].body : db.log[i].body[k].c = c

Delta(s, c) == [c |-> c, part |-> Part(sent[s][c])]

\* The journal of a stream holds the accepted deltas as they were sent, in order, none
\* twice and none left out before another.
Exact(s) ==
    \A pub \in BOOLEAN : \A i \in Batches(s, pub) : \A k \in DOMAIN db.log[i].body :
        LET e == db.log[i].body[k]
        IN  /\ e.c \in Deltas(s, pub) /\ e = Delta(s, e.c)
            /\ \A j \in Batches(s, pub) : \A l \in DOMAIN db.log[j].body :
                 j < i \/ (j = i /\ l < k) => db.log[j].body[l].c < e.c
            /\ \A d \in Deltas(s, pub) : d < e.c => Journaled(s, pub, d)

\* It holds all of them.
Complete(s) == \A pub \in BOOLEAN : \A c \in Deltas(s, pub) : Journaled(s, pub, c)

\* The batch of a stream holds what was accepted and is not in the journal yet.
Pending(s) ==
    /\ \A k \in DOMAIN buf[s] :
         LET e == buf[s][k]
         IN  /\ e.c \in DOMAIN sent[s] /\ sent[s][e.c] \notin Finishing /\ e = Delta(s, e.c)
             /\ \A l \in DOMAIN buf[s] : l < k => buf[s][l].c < e.c
             /\ \A pub \in BOOLEAN : \A d \in Deltas(s, pub) : Journaled(s, pub, d) => d < e.c
    /\ \A pub \in BOOLEAN : \A c \in Deltas(s, pub) :
         Journaled(s, pub, c) \/ \E k \in DOMAIN buf[s] : buf[s][k].c = c

\* ContentExact: whatever flushes, timers and failures happened, the journal of a
\* stream is exact, a committed stream holds all that the Provider sent, and the batch
\* of a stream holds the rest.
ContentExact ==
    \A s \in Streams :
        /\ Exact(s)
        /\ db.stream[s] = "committed" => Complete(s)
        /\ held[s] => Pending(s)

\* ProjectionAfterSource: a public agent.progress event comes after the private
\* batch with the Provider delta it projects.
ProjectionAfterSource ==
    \A i \in DOMAIN db.log : db.log[i].key[1] = "progress" =>
        \E j \in 1..i : /\ db.log[j].key[1] = "batch"
                        /\ db.log[j].stream = db.log[i].stream /\ ~db.log[j].pub
                        /\ \E k \in DOMAIN db.log[j].body :
                             db.log[j].body[k] = [c |-> db.log[i].body, part |-> "progress"]

\* InvocationSettled: an invocation that ended leaves no open stream, no open
\* operation and no reserved attempt, unless its cleanup was itself interrupted
\* or the tree took the claim; and a consumer that was given the finish chunk
\* has a committed stream.
InvocationSettled ==
    /\ \A s \in 1..(IF Invoking THEN cur - 1 ELSE cur) :
         s \notin hurt /\ db.claim =>
             db.stream[s] # "open" /\ att[s] # "reserved" /\ s \notin OpenOperations
    /\ ok => db.stream[cur] = "committed" /\ att[cur] = "settled" /\ cur \notin OpenOperations

\* SubscriberComplete: a subscription ends only after it has delivered every
\* event that was in the journal when the result settled.
SubscriberComplete ==
    \A w \in Subscribers : sub[w].st = "ended" => done > 0 /\ sub[w].cursor >= done

\* SubscriberEnds: every subscription ends.
SubscriberEnds == \A w \in Subscribers : <>(sub[w].st = "ended")

\* StreamInStage: which streams there are, which of them still has its batch, and
\* what has become of the current one at each stage.
StreamInStage ==
    /\ pc # "idle" => cur \in Streams
    /\ \A s \in Streams :
         /\ held[s] => s = cur /\ pc \in Batching \cup {"xLock"}
         /\ held[s] => db.stream[s] = (IF db.claim THEN "open" ELSE "aborted")
         /\ s > cur => db.stream[s] = "none"
         /\ db.stream[s] = "none" => sent[s] = <<>>
    /\ pc \in Batching => held[cur]
    /\ pc \in {"start", "startPub", "reserve", "open"} => db.stream[cur] = "none"
    /\ pc \in {"commitPub", "opEnd", "opEndPub"} => db.stream[cur] = "committed"
    /\ \/ pc \in {"openSettle", "openAbortPub", "xAbortPub", "xOp", "xOpPub"}
       \/ pc = "xLock" /\ ~held[cur]
       => db.stream[cur] # "open" \/ cur \in hurt \/ ~db.claim
    /\ db.claim /\ db.run # "running" => pc \in {"terminalPub", "result", "ended"}

\* AttemptInStage: what has become of the current attempt and its operation.
AttemptInStage ==
    /\ \A s \in Streams : s > cur => att[s] = "none"
    /\ \A s \in Streams : s > cur \/ (s = cur /\ pc = "start") => ~Logged(<<"opStart", s>>)
    /\ pc \in {"start", "startPub", "reserve"} => att[cur] = "none"
    /\ pc \in {"finish", "commit", "commitPub", "opEnd", "opEndPub"} => att[cur] = "settled"
    /\ pc \in {"xLock", "xFlush", "xFlushPub", "xAbort", "xAbortPub", "xOp", "xOpPub"} =>
         cur \in hurt \/ att[cur] # "reserved"
    /\ pc \in {"opEndPub", "xOpPub"} => Logged(<<"opEnd", cur>>)
    /\ ok => ~Invoking /\ cur \in Streams

\* BufferInStage: the producer and the timer take turns, and the stages that rely on
\* an empty batch have one.
BufferInStage ==
    /\ \A s \in Streams : ProducerHolds(s) => BatchFree(s)
    /\ pc \in {"openEvent", "flushPub", "extra", "extraPub", "settle", "finish", "commit"} =>
         buf[cur] = <<>>
    /\ pc \in {"flush", "flushPub", "extra", "extraPub", "settle"} => sent[cur] # <<>>
    /\ pc = "read" => Len(buf[cur]) < MaxFragments

\* SubscribersFollow: nobody is ahead of the journal, and the result settles once.
SubscribersFollow ==
    /\ done =< Len(db.log) /\ (done > 0 => pc = "ended")
    /\ DOMAIN sub = Subscribers
    /\ \A w \in Subscribers :
         /\ sub[w] \in [cursor : Nat, st : {"list", "wait", "ended"}]
         /\ sub[w].cursor =< Len(db.log)

\* JournalInv: what the journal of a Run promises its readers, whatever timers,
\* failing awaits and cancellations came between: it stays within its budget,
\* holds exactly what the Provider sent, in order and sources first, nothing
\* after its terminal event, and a subscription that ended has had it all; and
\* what the stages of an invocation rely on for that.
JournalInv ==
    /\ StreamTypeOK
    /\ TerminalFence
    /\ ContentExact
    /\ ProjectionAfterSource
    /\ SubscriberComplete
    /\ StreamInStage /\ AttemptInStage /\ BufferInStage /\ SubscribersFollow
=============================================================================
