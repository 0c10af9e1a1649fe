---------------------------- MODULE OutputJournal ----------------------------
(***************************************************************************)
(* The canonical output repository of one Run: an append-only journal of   *)
(* events deduplicated by source key, the model streams it contains and    *)
(* the terminal fence.  Every method is one transaction.                   *)
(*                                                                         *)
(*   src/purra/adapters/memory.py            _InMemoryAgentOutputRepository *)
(*   integrations/sqlite/.../journal.py      the same journal on disk      *)
(*   src/purra/output/verbatim.py            the final answer              *)
(*                                                                         *)
(* An event is [key, stream, pub, body]: its source key, the stream it      *)
(* belongs to (0: none), whether it is public, and its payload.  The       *)
(* sequence number of an event is its place in the journal.                *)
(***************************************************************************)
EXTENDS Integers, Sequences, FiniteSets, SequencesExt

CONSTANTS
    MaxStreams,   \* bound: model invocations of the Run
    MaxOutput     \* runtime_limits.max_provider_output_events

ASSUME JournalAssumption == MaxStreams \in Nat /\ MaxOutput \in Nat

VARIABLE db       \* the repository's transactional state

Streams == 1..MaxStreams

Event(key, stream, pub, body) ==
    [key |-> key, stream |-> stream, pub |-> pub, body |-> body]

Lifecycle(status) == Event(<<"life", status>>, 0, TRUE, status)

\* begin_run_lifecycle: the Run and its first event appear together.
JournalInit ==
    db = [run |-> "running", claim |-> TRUE, used |-> 0,
          log |-> <<Lifecycle("running")>>,
          stream |-> [s \in Streams |-> "none"],
          public |-> [s \in Streams |-> FALSE]]

-----------------------------------------------------------------------------
(* Appending.                                                              *)

\* The members of a finite set of numbers in increasing order, and the part of
\* the sequence q at such places.
InOrder(S) ==
    [k \in 1..Cardinality(S) |-> CHOOSE x \in S : Cardinality(S \cap 1..x) = k]

At(q, S) ==
    IF S = DOMAIN q THEN q ELSE
    LET place == InOrder(S)
    IN  [k \in 1..Cardinality(S) |-> q[place[k]]]

Places(d) == {i \in DOMAIN db.log : db.log[i].key = d.key}

New(ds) == At(ds, {i \in DOMAIN ds : Places(ds[i]) = {}})

\* _provider_output_cost: only Provider text is metered.
Costly(ds) == Cardinality({i \in DOMAIN ds : ds[i].key[1] \in {"batch", "text"}})

\* _existing_event: a key is bound to one event for ever.
NoConflict(d) == \A i \in Places(d) : db.log[i] = d

\* _validate_new_event: the writer's Child claim and the state of the stream.
Admitted(d, accepting) ==
    /\ db.claim
    /\ d.stream # 0 => db.stream[d.stream] \in accepting

\* _require_provider_output_budget.
WithinBudget(ds) == db.used + Costly(New(ds)) =< MaxOutput

\* _append_events: all or nothing.
CanAppend(ds, accepting) ==
    /\ \A i \in DOMAIN ds :
         NoConflict(ds[i]) /\ (Places(ds[i]) = {} => Admitted(ds[i], accepting))
    /\ WithinBudget(ds)

Appended(ds) ==
    LET new == New(ds)
    IN  [db EXCEPT !.log = @ \o new, !.used = @ + Costly(new)]

-----------------------------------------------------------------------------
(* Streams and operations.                                                 *)

CanOpen(s) == db.claim /\ db.run = "running" /\ db.stream[s] = "none"

Opened(s, public) ==
    [db EXCEPT !.stream[s] = "open", !.public[s] = public]

StreamEnd(s, how) == Event(<<"end", s, how>>, s, db.public[s], how)

\* commit_stream and abort_stream answer a repeated call with the first event.
CanEnd(s, how) ==
    \/ db.stream[s] = how
    \/ db.stream[s] = "open" /\ CanAppend(<<StreamEnd(s, how)>>, {"open"})

Ended(s, how) ==
    [Appended(<<StreamEnd(s, how)>>) EXCEPT !.stream[s] = how]

OperationStarted(s) == Event(<<"opStart", s>>, 0, TRUE, "running")

OperationFinished(s, status) == Event(<<"opEnd", s>>, 0, TRUE, status)

Logged(key) == \E i \in DOMAIN db.log : db.log[i].key = key

OpenOperations == {s \in Streams : Logged(<<"opStart", s>>) /\ ~Logged(<<"opEnd", s>>)}

OpenStreams == {s \in Streams : db.stream[s] = "open"}

-----------------------------------------------------------------------------
(* What the journal holds of a stream.                                     *)

\* The batches of a stream; each keeps its entries in the order of the chunks.
Batches(s, pub) ==
    {i \in DOMAIN db.log : db.log[i].key[1] = "batch" /\ db.log[i].stream = s /\ db.log[i].pub = pub}

HasPart(s, part) ==
    \E pub \in BOOLEAN : \E i \in Batches(s, pub) : \E k \in DOMAIN db.log[i].body :
        db.log[i].body[k].part = part

\* publish_stream_content_as_commentary: committed private text beside a call.
Commentary(s) ==
    << Event(<<"text", s, "commentary">>, s, TRUE, "content"),
       Event(<<"end", s, "commentary">>, s, TRUE, "committed") >>

CanComment(s) ==
    /\ db.stream[s] = "committed" /\ ~db.public[s]
    /\ HasPart(s, "tool") /\ HasPart(s, "content")
    /\ CanAppend(Commentary(s), {"open", "committed"})

\* verbatim_publication_drafts: the private text of a committed stream without
\* tool calls becomes the public answer.
Verbatim(s) ==
    << Event(<<"text", s, "verbatim">>, s, TRUE, "content"),
       Event(<<"end", s, "verbatim">>, s, TRUE, "committed") >>

CanPublishVerbatim(s) ==
    /\ db.stream[s] = "committed"
    /\ ~HasPart(s, "tool") /\ HasPart(s, "content")

-----------------------------------------------------------------------------
(* The terminal fence.                                                     *)

Unfinished(status) == IF status = "canceled" THEN "canceled" ELSE "failed"

OperationAborts(status) ==
    LET open == InOrder(OpenOperations)
    IN  [i \in DOMAIN open |-> OperationFinished(open[i], Unfinished(status))]

StreamAborts ==
    LET open == InOrder(OpenStreams)
    IN  [i \in DOMAIN open |-> StreamEnd(open[i], "aborted")]

\* _prepare_run_lifecycle: open operations finish, open streams abort, then the
\* Run's own event.
TerminalEvents(status, final) ==
    OperationAborts(status) \o final \o StreamAborts \o <<Lifecycle(status)>>

\* The Run accepts one terminal commit; a control cancellation needs no claim.
CanTerminate(ds, control) ==
    /\ db.run = "running"
    /\ db.claim \/ control
    /\ WithinBudget(ds)

Terminated(status, ds) ==
    [Appended(ds) EXCEPT
        !.run = status,
        !.stream = [s \in Streams |-> IF @[s] = "open" THEN "aborted" ELSE @[s]]]

-----------------------------------------------------------------------------
(* Properties of the journal.                                              *)

\* The shape of an event of each kind that the invariants read.
EventOK(e) ==
    /\ e = Event(e.key, e.stream, e.pub, e.body)
    /\ e.key[1] = "life" => e = Lifecycle(e.body)
    /\ e.key[1] = "batch" =>
         /\ e.key = <<"batch", e.stream, e.pub, e.body[1].c, e.body[Len(e.body)].c>>
         /\ Len(e.body) > 0 /\ DOMAIN e.body = 1..Len(e.body)
         /\ e.stream \in Streams /\ e.pub \in BOOLEAN

JournalTypeOK ==
    /\ db = [run |-> db.run, claim |-> db.claim, used |-> db.used, log |-> db.log,
             stream |-> db.stream, public |-> db.public]
    /\ db.run \in {"running", "done", "failed", "canceled"}
    /\ db.claim \in BOOLEAN /\ (db.run = "running" => db.claim)
    /\ db.stream \in [Streams -> {"none", "open", "committed", "aborted"}]
    /\ db.public \in [Streams -> BOOLEAN]
    /\ db.log \in Seq(Range(db.log)) /\ db.log # <<>> /\ db.log[1] = Lifecycle("running")
    /\ db.used = Costly(db.log) /\ db.used =< MaxOutput
    /\ \A i, j \in DOMAIN db.log : db.log[i].key = db.log[j].key => i = j
    /\ \A i \in DOMAIN db.log : EventOK(db.log[i])
    /\ \A s \in Streams, how \in {"committed", "aborted"} :
         Logged(<<"end", s, how>>) <=> db.stream[s] = how

\* TerminalFence: the terminal event of a Run is the last event of its journal,
\* it is there exactly when the Run is settled, and it leaves neither a stream
\* nor an operation open, whatever timers and executions were still at work.
TerminalFence ==
    /\ db.run # "running" =>
         /\ db.log[Len(db.log)] = Lifecycle(db.run)
         /\ OpenStreams = {} /\ OpenOperations = {}
    /\ \A i \in DOMAIN db.log \ {1} :
         db.log[i].key[1] = "life" => db.run = db.log[i].body
=============================================================================
