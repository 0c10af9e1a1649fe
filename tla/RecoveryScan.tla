---------------------------- MODULE RecoveryScan ----------------------------
(***************************************************************************)
(* Recovery workers that scan persisted Runs (worker.py), the persistent   *)
(* retry schedule they consult and settle (recovery_schedule.py) and the   *)
(* durable cursor that may drive their discovery (recovery_cursor.py).     *)
(*                                                                         *)
(* Run ids are numbers because pages are ordered by id.  Every await is a  *)
(* step of its own; what the host's inspect and resume callbacks do to a   *)
(* Run is reduced to the answers the worker tells apart.  The revision of  *)
(* the cursor's row is reduced to what its comparison finds out: whether   *)
(* the row a worker read is still the one that is stored (`fresh').        *)
(***************************************************************************)
EXTENDS Integers, Sequences, FiniteSets, SequencesExt, Listing

CONSTANTS
    Scanners,      \* worker objects, each with its own cursor instance
    RunIds,           \* Run ids, a set of positive numbers
    PerScan,       \* max_runs_per_scan
    PageSize,      \* page_size of the cursor
    MaxFailures,   \* retry ceiling of the schedule
    Interval, MaxBackoff,
    Watched,       \* bound: the Runs DueIsTakenUp is checked for
    MaxWall,       \* bound: the host's clock
    MaxIssued,     \* bound: schedule revisions
    MaxTroubles    \* bound: exceptions of storage, stops and crashes

VARIABLES
    indexed,    \* the Run ids in the journal's index
    closed,     \* those whose canonical status is terminal
    hints,      \* recoverySchedule: the registered rows
    issued,     \* recoveryScheduleRevision
    place,      \* after_run_id of the durable cursor row
    scan,       \* the state of each worker
    passed,     \* auxiliary: ids processed or added since the cursor wrapped
    wall, troubles

scanVars == <<indexed, closed, hints, issued, place, scan, passed, wall, troubles>>

ASSUME ScanAssumption ==
    /\ RunIds \subseteq Nat \ {0} /\ IsFiniteSet(RunIds)
    /\ PerScan \in Nat \ {0} /\ PageSize \in Nat \ {0} /\ MaxFailures \in 1..31
    /\ Interval \in Nat \ {0} /\ MaxBackoff \in Nat /\ Interval =< MaxBackoff
    /\ Watched \subseteq RunIds /\ MaxWall \in Nat /\ MaxIssued \in Nat /\ MaxTroubles \in Nat

NoHint == [rev |-> -1, failures |-> 0, due |-> 0]
NoId == 0

OffDuty ==
    [at |-> "off", durable |-> FALSE, scheduled |-> TRUE, stop |-> FALSE, queue |-> <<>>, left |-> <<>>,
     visited |-> 0, done |-> <<>>, row |-> [fresh |-> FALSE, after |-> NoId], ids |-> <<>>,
     last |-> FALSE, run |-> NoId, token |-> 0, seen |-> NoHint, failed |-> FALSE]

ScanInit ==
    /\ indexed \in SUBSET RunIds /\ closed = {}
    /\ hints = [r \in RunIds |-> NoHint] /\ issued = 0
    /\ place = NoId
    /\ \E d, h \in SUBSET Scanners :
         scan = [x \in Scanners |->
                    [OffDuty EXCEPT !.durable = x \in d, !.scheduled = x \in h]]
    /\ passed = {} /\ wall = 0 /\ troubles \in 0..MaxTroubles

-----------------------------------------------------------------------------
(* The schedule.                                                           *)

HasHint(r) == hints[r] # NoHint

\* _row: an unregistered Run has the scope's counter as its revision.
Row(r) == IF HasHint(r) THEN hints[r] ELSE [rev |-> issued, failures |-> 0, due |-> 0]

\* next_revision
NextRevision(r) == (IF issued > Row(r).rev THEN issued ELSE Row(r).rev) + 1

Exhausted(row) == row.failures >= MaxFailures
Due(row) == ~Exhausted(row) /\ row.due =< wall

Smaller(a, b) == IF a =< b THEN a ELSE b

Backoff(failures) == Smaller(MaxBackoff, Interval * 2 ^ failures)

\* wake, and wake_recovery_schedule of an approval decision or a reconciliation
\* for a registered Run; there are rows only where workers have a schedule.
WakeRun(r) ==
    /\ issued < MaxIssued /\ \E x \in Scanners : scan[x].scheduled
    /\ hints' = [hints EXCEPT ![r] = [rev |-> NextRevision(r), failures |-> 0, due |-> 0]]
    /\ issued' = NextRevision(r)
    /\ UNCHANGED <<indexed, closed, place, scan, passed, wall, troubles>>

\* Mutant of Prune: the scope's counter is left alone.
PruneQuietly(r) ==
    /\ issued < MaxIssued /\ r \in closed /\ HasHint(r)
    /\ hints' = [hints EXCEPT ![r] = NoHint]
    /\ UNCHANGED <<indexed, closed, issued, place, scan, passed, wall, troubles>>

\* prune_recovery_schedule, for terminal Runs only.
Prune(r) ==
    /\ issued < MaxIssued /\ r \in closed /\ HasHint(r)
    /\ hints' = [hints EXCEPT ![r] = NoHint]
    /\ issued' = NextRevision(r)
    /\ UNCHANGED <<indexed, closed, place, scan, passed, wall, troubles>>

-----------------------------------------------------------------------------
(* A scan.                                                                 *)

Others == <<indexed, closed, hints, issued, place, passed, wall, troubles>>

\* The finally block: what the loop held is gone.
Ending(s, at) == [s EXCEPT !.at = at, !.left = <<>>, !.run = NoId, !.token = 0,
                           !.seen = NoHint, !.failed = FALSE]

\* The head of the loop over the batch: the next candidate, unless the worker
\* was asked to stop; then the finally block.
Onward(s) ==
    IF s.stop \/ s.left = <<>> THEN Ending(s, "ack")
    ELSE [s EXCEPT !.at = "check", !.run = Head(s.left), !.left = Tail(@),
                   !.visited = @ + 1]

\* What was found, with what is queued since the last scan first.
Queued(s, found) ==
    IF s.durable THEN found
    ELSE LET kept == Picked(s.queue, ToSet(found))
         IN  kept \o Picked(found, RunIds \ ToSet(kept))

Started(s, found) ==
    LET queue == Queued(s, found)
    IN  Onward([s EXCEPT !.queue = queue, !.visited = 0, !.done = <<>>,
                         !.left = SubSeq(queue, 1, Smaller(PerScan, Len(queue)))])

\* list_running for a worker without a cursor; the cursor's row otherwise.
Discover(x) ==
    /\ scan[x].at = "discover"
    /\ scan' = [scan EXCEPT ![x] =
          IF @.durable THEN [@ EXCEPT !.at = "page", !.row = [fresh |-> TRUE, after |-> place]]
          ELSE Started(@, Ascending(indexed \ closed))]
    /\ UNCHANGED Others

\* list_run_candidates after the row's position.
ReadPage(x) ==
    LET rest == Ascending({r \in indexed : r > scan[x].row.after})
        ids == SubSeq(rest, 1, Smaller(PageSize, Len(rest)))
    IN  /\ scan[x].at = "page"
        /\ scan' = [scan EXCEPT ![x] =
              Started([@ EXCEPT !.ids = ids, !.last = Len(rest) =< PageSize], ids)]
        /\ UNCHANGED Others

Processed(s) == Onward([s EXCEPT !.done = Append(@, s.run), !.token = 0, !.seen = NoHint,
                                 !.failed = FALSE])

\* schedule.check: a candidate that is not due is done with.  Without a
\* schedule every candidate is inspected.
Check(x) ==
    LET row == Row(scan[x].run)
    IN  /\ scan[x].at = "check"
        /\ scan' = [scan EXCEPT ![x] =
              CASE ~@.scheduled -> [@ EXCEPT !.at = "inspect"]
                [] @.scheduled /\ Due(row) ->
                      [@ EXCEPT !.at = "inspect", !.token = row.rev, !.seen = row]
                [] OTHER -> Processed(@)]
        /\ UNCHANGED Others

\* The report of inspect: blockers, none, or an exception.  A terminal Run has one.
Inspect(x, report) ==
    /\ scan[x].at = "inspect"
    /\ scan[x].run \in closed => report # "clear"
    /\ scan' = [scan EXCEPT ![x] =
          CASE report = "blocked" -> [@ EXCEPT !.at = "settle", !.failed = FALSE]
            [] report = "raised" -> [@ EXCEPT !.at = "settle", !.failed = TRUE]
            [] report = "clear" /\ @.stop -> Ending(@, "ack")
            [] OTHER -> [@ EXCEPT !.at = "resume"]]
    /\ UNCHANGED Others

\* resume returns when the Run ended or waits for an approval, or raises.
ResumeFound(x, outcome) ==
    /\ scan[x].at = "resume"
    /\ closed' = IF outcome = "ended" THEN closed \cup {scan[x].run} ELSE closed
    /\ scan' = [scan EXCEPT ![x].at = "settle", ![x].failed = (outcome = "raised")]
    /\ UNCHANGED <<indexed, hints, issued, place, passed, wall, troubles>>

\* Mutant of Current: the token is not compared.
CurrentAlways(s) == TRUE

Current(s) == Row(s.run).rev = s.token

\* schedule.settle: only on the revision the check returned.
SettleHint(x) ==
    LET s == scan[x]
        row == Row(s.run)
        failures == IF s.failed THEN Smaller(row.failures + 1, 31) ELSE 0
    IN  /\ s.at = "settle" /\ (s.scheduled => issued < MaxIssued)
        /\ IF s.scheduled /\ Current(s)
           THEN /\ hints' = [hints EXCEPT ![s.run] =
                      [rev |-> NextRevision(s.run), failures |-> failures,
                       due |-> wall + Backoff(failures)]]
                /\ issued' = NextRevision(s.run)
           ELSE UNCHANGED <<hints, issued>>
        /\ scan' = [scan EXCEPT ![x] = Processed(@)]
        /\ UNCHANGED <<indexed, closed, place, passed, wall, troubles>>

-----------------------------------------------------------------------------
(* The end of a scan.                                                      *)

\* Mutant of AfterPage: the cursor moves past the whole page.
AfterWholePage(s) == IF s.last THEN NoId ELSE s.ids[Len(s.ids)]

\* The position after the processed prefix; the last page wraps.
AfterPage(s) ==
    IF Len(s.done) = Len(s.ids) /\ s.last THEN NoId ELSE s.done[Len(s.done)]

\* Nothing was processed: an empty page wraps, otherwise there is no write.
NothingToWrite(s) == s.done = <<>> /\ (s.ids # <<>> \/ s.row.after = NoId)

\* _finish_scan: what was visited goes to the back of the queue.
Rotated(s) == SubSeq(s.queue, s.visited + 1, Len(s.queue)) \o SubSeq(s.queue, 1, s.visited)

AfterScan(s, at) ==
    [OffDuty EXCEPT !.at = at, !.durable = s.durable, !.scheduled = s.scheduled,
                    !.queue = Rotated(s)]

\* acknowledge and the wait for the next scan; a conflict of the cursor and a
\* scan that raised end the service.
AcknowledgePage(x) ==
    LET s == scan[x]
        writes == s.durable /\ ~NothingToWrite(s)
        conflict == writes /\ ~s.row.fresh
        leaves == conflict \/ s.stop \/ s.at = "raise"
    IN  /\ s.at \in {"ack", "raise"}
        /\ IF writes /\ ~conflict
           THEN /\ place' = AfterPage(s)
                /\ passed' = IF AfterPage(s) = NoId THEN {}
                             ELSE passed \cup ToSet(s.done)
           ELSE UNCHANGED <<place, passed>>
        /\ scan' = [y \in Scanners |->
              IF y = x THEN AfterScan(s, IF leaves THEN "off" ELSE "wait")
              ELSE [scan[y] EXCEPT !.row.fresh = @ /\ ~(writes /\ ~conflict)]]
        /\ UNCHANGED <<indexed, closed, hints, issued, wall, troubles>>

\* The wait ends by its timeout or by a wake; a stopped worker may be served again.
NextScan(x) ==
    /\ scan[x].at \in {"wait", "off"}
    /\ scan' = [scan EXCEPT ![x].at = "discover"]
    /\ UNCHANGED Others

-----------------------------------------------------------------------------
(* Troubles and the host.                                                  *)

Trouble == troubles < MaxTroubles /\ troubles' = troubles + 1

\* discover, the schedule or the acknowledgement raises, or the serving task is
\* cancelled in a callback; before the discovery is complete nothing is
\* acknowledged.
ScanRaises(x) ==
    /\ scan[x].at \notin {"off", "wait", "raise"} /\ Trouble
    /\ scan' = [scan EXCEPT ![x] =
          IF @.at \in {"discover", "page", "ack"} THEN AfterScan(@, "off")
          ELSE Ending(@, "raise")]
    /\ UNCHANGED <<indexed, closed, hints, issued, place, passed, wall>>

StopWorker(x) ==
    /\ ~scan[x].stop /\ scan[x].at # "off" /\ Trouble
    /\ scan' = [scan EXCEPT ![x] = IF @.at = "wait" THEN [@ EXCEPT !.at = "off"]
                                   ELSE [@ EXCEPT !.stop = TRUE]]
    /\ UNCHANGED <<indexed, closed, hints, issued, place, passed, wall>>

\* The process dies and a new worker object takes its place.
CrashWorker(x) ==
    /\ scan[x].at # "off" /\ Trouble
    /\ scan' = [scan EXCEPT ![x] = AfterScan([@ EXCEPT !.queue = <<>>, !.visited = 0], "off")]
    /\ UNCHANGED <<indexed, closed, hints, issued, place, passed, wall>>

\* A new Run; behind the page that was read it is found after the cursor wraps.
Arrive(r) ==
    /\ r \notin indexed
    /\ indexed' = indexed \cup {r}
    /\ passed' = passed \cup {r}
    /\ UNCHANGED <<closed, hints, issued, place, scan, wall, troubles>>

\* A Run ends where it is executed.
RunCloses(r) ==
    /\ r \in indexed \ closed
    /\ closed' = closed \cup {r}
    /\ UNCHANGED <<indexed, hints, issued, place, scan, passed, wall, troubles>>

TickWall ==
    /\ wall < MaxWall /\ wall' = wall + 1
    /\ UNCHANGED <<indexed, closed, hints, issued, place, scan, passed, troubles>>

-----------------------------------------------------------------------------
ScanStep(x) ==
    \/ Discover(x) \/ ReadPage(x) \/ Check(x) \/ SettleHint(x)
    \/ AcknowledgePage(x) \/ NextScan(x)
    \/ \E report \in {"blocked", "clear", "raised"} : Inspect(x, report)
    \/ \E outcome \in {"ended", "waiting", "raised"} : ResumeFound(x, outcome)

ScanNext ==
    \/ \E x \in Scanners : ScanStep(x) \/ ScanRaises(x) \/ StopWorker(x) \/ CrashWorker(x)
    \/ \E r \in RunIds : Arrive(r) \/ RunCloses(r) \/ (r \in indexed /\ (WakeRun(r) \/ Prune(r)))
    \/ TickWall

ScanSafety == ScanInit /\ [][ScanNext]_scanVars

\* Callbacks return, waits end, and the host serves a worker again that left.
ScanSpec == ScanSafety /\ \A x \in Scanners : WF_scanVars(ScanStep(x))

-----------------------------------------------------------------------------
(* Properties.                                                             *)

Handling == {"check", "inspect", "resume", "settle"}
Scanning == Handling \cup {"ack", "raise"}

Hint == [rev : Nat, failures : 0..31, due : Nat]
ScanWorker ==
    [at : Scanning \cup {"off", "wait", "discover", "page"}, durable : BOOLEAN,
     scheduled : BOOLEAN, stop : BOOLEAN, queue : Seq(RunIds), left : Seq(RunIds), visited : Nat,
     done : Seq(RunIds), row : [fresh : BOOLEAN, after : RunIds \cup {NoId}], ids : Seq(RunIds),
     last : BOOLEAN, run : RunIds \cup {NoId}, token : Nat, seen : Hint \cup {NoHint},
     failed : BOOLEAN]

ScanTypeOK ==
    /\ closed \subseteq indexed /\ indexed \subseteq RunIds /\ passed \subseteq RunIds
    /\ hints \in [RunIds -> Hint \cup {NoHint}] /\ issued \in Nat /\ wall \in Nat
    /\ \A r \in RunIds : hints[r].rev =< issued /\ hints[r].due =< wall + MaxBackoff
    /\ place \in RunIds \cup {NoId} /\ troubles \in Nat
    /\ scan \in [Scanners -> ScanWorker]

\* A worker's queue has no Run twice; what is left of a batch is not more than a
\* scan handles and than the queue holds after what was visited, and was found.
QueueSound(s) ==
    /\ IsInjective(s.queue)
    /\ Len(s.left) =< PerScan /\ s.visited + Len(s.left) =< Len(s.queue)
    /\ \A i \in 1..Len(s.left) : s.left[i] \in indexed
    /\ s.at \in Handling => s.run \in indexed

\* What a durable scan has processed is the front of its page, and then come the
\* Run at work and what is left of the batch.
PageSound(s) ==
    LET before == Len(s.done) + (IF s.at \in Handling THEN 1 ELSE 0)
    IN  s.durable /\ s.at \in Scanning =>
          /\ before + Len(s.left) =< Len(s.ids)
          /\ \A i \in 1..Len(s.done) : s.done[i] = s.ids[i]
          /\ s.at \in Handling => s.run = s.ids[before]
          /\ \A i \in 1..Len(s.left) : s.left[i] = s.ids[before + i]
          /\ s.ids = <<>> => s.last

\* While the row a scan has read is the stored one, its page has every Run up to
\* its end that is neither processed nor new.
PageExact(s) ==
    s.durable /\ s.row.fresh =>
        /\ s.at \in Scanning \cup {"page"} => s.row.after = place
        /\ s.at \in Scanning =>
              \A i \in 1..Len(s.ids) : \A r \in indexed :
                 place < r /\ r =< s.ids[i] => r \in passed \/ \E k \in 1..i : s.ids[k] = r

\* A row that still has the revision of a scan's check is the row it returned.
SeenStands(s) ==
    s.scheduled /\ s.at \in Handling \ {"check"} =>
        /\ s.token = s.seen.rev /\ s.token =< issued
        /\ Row(s.run).rev = s.token => Row(s.run) = s.seen

\* SettledAsSeen: a settlement replaces a row only when it is the row the
\* scan's check returned.  A wake, another worker's settlement or a row that was
\* pruned and registered again is not replaced by a scan that began before.
SettledAsSeen ==
    [][\A r \in RunIds : hints'[r].due > 0 /\ hints'[r] # hints[r] =>
          \E x \in Scanners : /\ scan[x].at = "settle" /\ scan[x].run = r
                              /\ scan[x].seen = Row(r)]_scanVars

\* CursorExact: every Run at or before the durable position was processed
\* since the cursor wrapped, or was added since, whatever the pages, the
\* limit of a scan, stops, exceptions, crashes and conflicts were.
CursorExact == \A r \in indexed : r =< place => r \in passed

RevisionsSpent == issued = MaxIssued

\* A scan is at work on the Run, for the row it has now.
TakenUp(r) ==
    \E x \in Scanners : /\ scan[x].at \in {"inspect", "resume", "settle"}
                        /\ scan[x].run = r
                        /\ scan[x].scheduled => scan[x].token = Row(r).rev

\* DueIsTakenUp: a Run that is due is taken up for the row that makes it due.
\* It is not starved by the limit of a scan, by Runs that are not due, by
\* exceptions or by the cursor's wrap, and a wake that arrives while a scan is
\* at work is not undone by that scan's settlement, at the retry ceiling too.
DueIsTakenUp ==
    \A r \in Watched : (r \in indexed \ closed /\ Due(Row(r)))
                          ~> (TakenUp(r) \/ r \in closed \/ RevisionsSpent)

\* ScanInv: the durable cursor skips no Run, and what the scans rely on: their
\* queues, pages and the rows of the schedule they have seen.
ScanInv ==
    /\ ScanTypeOK /\ CursorExact
    /\ \A x \in Scanners : /\ QueueSound(scan[x]) /\ PageSound(scan[x])
                           /\ PageExact(scan[x]) /\ SeenStands(scan[x])
=============================================================================
