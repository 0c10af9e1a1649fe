------------------------------ MODULE Artifacts ------------------------------
(***************************************************************************)
(* Recoverable artifacts: the store that keeps the committed batches and   *)
(* the write claims, the lifecycle that validates a command over several   *)
(* store calls, and the access controller that grants write claims.        *)
(*                                                                         *)
(*   src/purra/adapters/durable_memory.py   InMemoryArtifactStore          *)
(*   src/purra/artifacts/lifecycle.py       ArtifactLifecycle              *)
(*   src/purra/artifacts/access.py          ArtifactAccessController       *)
(*   src/purra/artifacts/continuity.py      ArtifactAccessPolicy           *)
(*   src/purra/artifacts/maintenance.py     the maintenance policy         *)
(*                                                                         *)
(* A store method holds the store's lock and is one step; the lifecycle    *)
(* awaits between its calls, so the workers interleave there.  Workers of  *)
(* one Run share that Run's claim.  Schema version, metadata, kind and     *)
(* namespace never change and are part of the owner's name here.           *)
(***************************************************************************)
EXTENDS Integers, Sequences, FiniteSets

CONSTANTS
    Writers,      \* workers that write artifacts
    WriterRuns,   \* the Runs they write for
    ArtIds,       \* artifact ids the id factory can return
    ArtOwners,    \* owner identities: namespace, kind, owner id and reference
    Keys,         \* idempotency keys of append commands
    Contents,     \* batch id, items and coverage of an append command
    Covers,       \* coverage keys of each content
    ItemCounts,   \* expected_item_count of manifests; -1 stands for None
    ClaimMs,      \* lease_duration_ms of the claims
    RetentionMs,  \* terminal_retention_ms; -1 stands for None
    Nobody,
    MaxClock,     \* bound: the clock stops here
    MaxRevision,  \* bound: no command is issued beyond this revision
    MaxTokens     \* bound: claims granted

ASSUME ArtAssumption ==
    /\ Nobody \notin WriterRuns \cup ArtIds
    /\ IsFiniteSet(ArtIds)
    /\ ItemCounts \subseteq Nat \cup {-1} /\ RetentionMs \in Nat \cup {-1}
    /\ ClaimMs \in Nat \ {0} /\ {MaxClock, MaxRevision, MaxTokens} \subseteq Nat

VARIABLES
    artClock,   \* clock_ms
    artifacts,  \* ArtifactRecord of every id, with updated_at_ms
    owned,      \* the store's owner index
    batches,    \* committed ArtifactBatches
    receipts,   \* receipts and their digests, by idempotency key
    claims,     \* ArtifactWriteClaims
    writers,    \* what each worker is doing and what it read
    tokens,     \* claim tokens handed out so far
    goneRuns    \* Runs the host no longer reports as available

artVars == <<artClock, artifacts, owned, batches, receipts, claims, writers,
             tokens, goneRuns>>
storeVars == <<artifacts, owned, batches, receipts, claims, tokens>>

ArtStatus == {"none", "open", "finalized", "aborted", "purged"}
WriterSteps == {"idle", "granted", "hold", "check", "cover", "commit",
                "finalCover", "finalCommit", "abortCommit"}

\* What canonical_json_digest tells apart, as far as commands differ.
Digest(seq, b) == <<seq, b>>

NoClaim == [run |-> Nobody, tok |-> 0, rev |-> 0, exp |-> 0]
NoReceipt == [seq |-> 0, rev |-> 0, next |-> 0, digest |-> Nobody]
NoRecord == [st |-> "none", owner |-> Nobody, run |-> Nobody, rev |-> 1,
             next |-> 1, count |-> 0, exp |-> -1, cover |-> {}, at |-> 0]
Idle == [at |-> "idle", run |-> Nobody, id |-> Nobody, rev |-> 1, seq |-> 1, tok |-> 0,
         key |-> Nobody, content |-> Nobody, cmdSeq |-> 1, cover |-> {}]

\* The coverage keys that batches can carry.
CoverageKeys == UNION {Covers[b] : b \in Contents}

ArtifactRecord ==
    [st : ArtStatus, owner : ArtOwners \cup {Nobody}, run : WriterRuns \cup {Nobody},
     rev : Nat \ {0}, next : Nat \ {0}, count : Nat, exp : Nat \cup {-1},
     cover : SUBSET CoverageKeys, at : Nat]
ArtifactBatch == [seq : Nat \ {0}, rev : Nat \ {0}, key : Keys, content : Contents]
ArtifactBatchReceipt ==
    [seq : Nat \ {0}, rev : Nat \ {0}, next : Nat \ {0}, digest : (Nat \ {0}) \X Contents]
ArtifactWriteClaim == [run : WriterRuns, tok : Nat, rev : Nat \ {0}, exp : Nat]

\* A worker: the claim it was given, the revision and sequence it knows, and
\* the append command it is carrying out.
ArtifactWorker ==
    [at : WriterSteps, run : WriterRuns \cup {Nobody}, id : ArtIds \cup {Nobody},
     rev : Nat \ {0}, seq : Nat \ {0}, tok : Nat, key : Keys \cup {Nobody},
     content : Contents \cup {Nobody}, cmdSeq : Nat \ {0},
     cover : SUBSET CoverageKeys]

ArtTypeOK ==
    /\ artClock \in Nat /\ tokens \in Nat /\ goneRuns \subseteq WriterRuns
    /\ artifacts \in [ArtIds -> ArtifactRecord]
    /\ owned \in [ArtOwners -> ArtIds \cup {Nobody}]
    /\ batches \in [ArtIds -> Seq(ArtifactBatch)]
    /\ receipts \in [ArtIds -> [Keys -> ArtifactBatchReceipt \cup {NoReceipt}]]
    /\ claims \in [ArtIds -> ArtifactWriteClaim \cup {NoClaim}]
    /\ writers \in [Writers -> ArtifactWorker]

ArtInit ==
    /\ artClock = 1 /\ tokens = 0 /\ goneRuns = {}
    /\ artifacts = [id \in ArtIds |-> NoRecord]
    /\ owned = [o \in ArtOwners |-> Nobody]
    /\ batches = [id \in ArtIds |-> <<>>]
    /\ receipts = [id \in ArtIds |-> [k \in Keys |-> NoReceipt]]
    /\ claims = [id \in ArtIds |-> NoClaim]
    /\ writers = [w \in Writers |-> Idle]

(***************************************************************************)
(* The store.                                                              *)
(***************************************************************************)
Open(id) == artifacts[id].st = "open"
AtRevision(id, rev) == artifacts[id].rev = rev

\* _active_claim: an expired claim counts as none.
ActiveClaim(id) ==
    IF claims[id].exp > artClock THEN claims[id] ELSE NoClaim

\* _require_claim.
RequireClaim(w, id) ==
    /\ ActiveClaim(id) # NoClaim
    /\ ActiveClaim(id).run = writers[w].run /\ ActiveClaim(id).tok = writers[w].tok
    /\ ActiveClaim(id).rev = artifacts[id].rev

Touched(id, record) == artifacts' = [artifacts EXCEPT ![id] = record]

\* An operation ends for the caller, with an answer or with an error; the
\* worker keeps its claim and what it knows.
Back(w) == [writers EXCEPT ![w].at = "hold", ![w].key = Nobody,
               ![w].content = Nobody, ![w].cmdSeq = 1, ![w].cover = {}]
Rest(w) == [writers EXCEPT ![w] = Idle]

\* begin and create, with a fresh id of the id factory.  A live artifact of
\* the owner is returned when the command matches, refused otherwise; either
\* way nothing is stored.
Begin(w, o, id, r, exp) ==
    /\ writers[w].at = "idle"
    /\ artifacts[id].st = "none" /\ owned[o] = Nobody
    /\ Touched(id, [NoRecord EXCEPT !.st = "open", !.owner = o,
                       !.run = r, !.exp = exp, !.at = artClock])
    /\ owned' = [owned EXCEPT ![o] = id]
    /\ UNCHANGED <<artClock, batches, receipts, claims, writers, tokens, goneRuns>>

\* _replay_receipt: found, absent or in conflict.
Replayed(id, k, digest) == receipts[id][k].digest = digest
FreshKey(id, k) == receipts[id][k] = NoReceipt

\* What append stores: batch, receipt, record, and the renewed claim.
Appended(id, w) ==
    LET a == artifacts[id]
        b == writers[w].content
    IN  /\ Touched(id, [a EXCEPT !.rev = @ + 1, !.next = @ + 1,
                           !.count = @ + 1, !.at = artClock])
        /\ batches' = [batches EXCEPT ![id] =
              Append(@, [seq |-> writers[w].cmdSeq, rev |-> a.rev + 1,
                         key |-> writers[w].key, content |-> b])]
        /\ receipts' = [receipts EXCEPT ![id][writers[w].key] =
              [seq |-> writers[w].cmdSeq, rev |-> a.rev + 1,
               next |-> writers[w].cmdSeq + 1,
               digest |-> Digest(writers[w].cmdSeq, b)]]
        /\ claims' = [claims EXCEPT ![id].rev = a.rev + 1,
                                    ![id].exp = artClock + ClaimMs]

\* finalize and abort leave the artifact terminal and without a claim.
Terminal(id, st, cover) ==
    /\ Touched(id, [artifacts[id] EXCEPT !.st = st, !.rev = @ + 1,
                       !.cover = cover, !.at = artClock])
    /\ claims' = [claims EXCEPT ![id] = NoClaim]
    /\ UNCHANGED <<owned, batches, receipts, tokens>>

(***************************************************************************)
(* Access: the candidate is a copy of the record that the host read, the   *)
(* authorizer is awaited, and only then the claim is taken.                *)
(***************************************************************************)
\* ArtifactAccessPolicy.decide for WRITE, on the candidate.
Denied(candidate, run, authorized) ==
    \/ candidate.run # run /\ ~authorized
    \/ candidate.st \in {"aborted", "finalized"}

\* authorize up to the decision; the request names the revision it read.
Authorize(w, id, r) ==
    /\ writers[w].at = "idle" /\ artifacts[id].st \notin {"none", "purged"}
    /\ artifacts[id].rev < MaxRevision
    /\ \E authorized \in BOOLEAN : ~Denied(artifacts[id], r, authorized)
    /\ writers' = [writers EXCEPT ![w] = [Idle EXCEPT !.at = "granted",
          !.run = r, !.id = id, !.rev = artifacts[id].rev, !.seq = artifacts[id].next]]
    /\ UNCHANGED <<storeVars, artClock, goneRuns>>

\* acquire: a live claim of the same Run at this revision is handed out again.
Acquire(w) ==
    LET id == writers[w].id
        held == ActiveClaim(id)
    IN  /\ writers[w].at = "granted"
        /\ IF ~(Open(id) /\ AtRevision(id, writers[w].rev))
              THEN writers' = Rest(w) /\ UNCHANGED <<claims, tokens>>
           ELSE IF held # NoClaim
              THEN /\ writers' = IF held.run = writers[w].run /\ held.rev = writers[w].rev
                                    THEN [writers EXCEPT ![w].at = "hold",
                                                         ![w].tok = held.tok]
                                    ELSE Rest(w)
                   /\ UNCHANGED <<claims, tokens>>
              ELSE /\ tokens < MaxTokens
                   /\ tokens' = tokens + 1
                   /\ claims' = [claims EXCEPT ![id] =
                         [run |-> writers[w].run, tok |-> tokens + 1,
                          rev |-> artifacts[id].rev, exp |-> artClock + ClaimMs]]
                   /\ writers' = [writers EXCEPT ![w].at = "hold",
                                                 ![w].tok = tokens + 1]
        /\ UNCHANGED <<artClock, artifacts, owned, batches, receipts, goneRuns>>

\* renew; refused it leaves everything as it was.
Renew(w) ==
    /\ writers[w].at = "hold" /\ RequireClaim(w, writers[w].id)
    /\ claims' = [claims EXCEPT ![writers[w].id].exp = artClock + ClaimMs]
    /\ UNCHANGED <<artClock, artifacts, owned, batches, receipts, writers,
                   tokens, goneRuns>>

\* release compares Run and token only, expired or not.
Release(w) ==
    LET id == writers[w].id
    IN  /\ writers[w].at = "hold"
        /\ claims' = IF claims[id].run = writers[w].run /\ claims[id].tok = writers[w].tok
                        THEN [claims EXCEPT ![id] = NoClaim] ELSE claims
        /\ writers' = Rest(w)
        /\ UNCHANGED <<artClock, artifacts, owned, batches, receipts, tokens, goneRuns>>

\* release_for_run, called by the host when the Run ends.
ReleaseForRun(r) ==
    /\ \E id \in ArtIds : claims[id].run = r
    /\ claims' = [id \in ArtIds |->
          IF claims[id].run = r THEN NoClaim ELSE claims[id]]
    /\ UNCHANGED <<artClock, artifacts, owned, batches, receipts, writers,
                   tokens, goneRuns>>

(***************************************************************************)
(* The lifecycle: one command over several store calls.                    *)
(***************************************************************************)
\* append, the call of replay_receipt.  A retry repeats an old sequence; a
\* replayed receipt tells the worker the revision of that time.
AppendReplay(w, k, b, seq) ==
    LET id == writers[w].id
    IN  /\ writers[w].at = "hold" /\ seq \in 1..writers[w].seq
        /\ writers[w].rev < MaxRevision
        /\ IF FreshKey(id, k)
              THEN writers' = [writers EXCEPT ![w].at = "check", ![w].key = k,
                                  ![w].content = b, ![w].cmdSeq = seq]
              ELSE /\ Replayed(id, k, Digest(seq, b))
                   /\ writers' = [writers EXCEPT ![w].rev = receipts[id][k].rev,
                                                 ![w].seq = receipts[id][k].next]
        /\ UNCHANGED <<storeVars, artClock, goneRuns>>

\* append, the checks on the loaded record.
AppendCheck(w) ==
    LET id == writers[w].id
    IN  /\ writers[w].at = "check"
        /\ writers' = IF /\ Open(id) /\ AtRevision(id, writers[w].rev)
                         /\ artifacts[id].next = writers[w].cmdSeq
                         THEN [writers EXCEPT ![w].at = "cover"]
                         ELSE Back(w)
        /\ UNCHANGED <<storeVars, artClock, goneRuns>>

CoverageOf(id) == UNION {Covers[batches[id][i].content] : i \in DOMAIN batches[id]}

\* append, coverage against the committed batches and the host's validator,
\* which may reject.  list_batches raises for an artifact that was purged.
AppendCover(w) ==
    LET id == writers[w].id
    IN  /\ writers[w].at = "cover"
        /\ \/ /\ artifacts[id].st # "purged"
              /\ Covers[writers[w].content] \cap CoverageOf(id) = {}
              /\ writers' = [writers EXCEPT ![w].at = "commit"]
           \/ writers' = Back(w)
        /\ UNCHANGED <<storeVars, artClock, goneRuns>>

\* Mutant: the store relies on the lifecycle's revision and sequence checks.
AppendTrusting(w) ==
    LET id == writers[w].id
    IN  /\ writers[w].at = "commit"
        /\ IF FreshKey(id, writers[w].key) /\ Open(id) /\ RequireClaim(w, id)
              THEN /\ Appended(id, w)
                   /\ writers' = [Back(w) EXCEPT ![w].rev = artifacts[id].rev + 1,
                                                 ![w].seq = artifacts[id].next + 1]
              ELSE UNCHANGED <<artifacts, batches, receipts, claims>> /\ writers' = Back(w)
        /\ UNCHANGED <<artClock, owned, tokens, goneRuns>>

\* The store's append: replay, open, revision, sequence and claim again.
AppendCommit(w) ==
    LET id == writers[w].id
        ok == /\ FreshKey(id, writers[w].key) /\ Open(id)
              /\ AtRevision(id, writers[w].rev)
              /\ artifacts[id].next = writers[w].cmdSeq
              /\ RequireClaim(w, id)
    IN  /\ writers[w].at = "commit"
        /\ IF ok
              THEN /\ Appended(id, w)
                   /\ writers' = [Back(w) EXCEPT ![w].rev = @ + 1,
                                                 ![w].seq = writers[w].cmdSeq + 1]
              ELSE UNCHANGED <<artifacts, batches, receipts, claims>> /\ writers' = Back(w)
        /\ UNCHANGED <<artClock, owned, tokens, goneRuns>>

\* finalize, the checks on the loaded record.
FinalizeCheck(w) ==
    LET id == writers[w].id
    IN  /\ writers[w].at = "hold" /\ writers[w].rev < MaxRevision
        /\ Open(id) /\ AtRevision(id, writers[w].rev)
        /\ artifacts[id].exp \in {-1, artifacts[id].count}
        /\ writers' = [writers EXCEPT ![w].at = "finalCover"]
        /\ UNCHANGED <<storeVars, artClock, goneRuns>>

\* finalize, the batches: sequence, duplicates, the expected coverage and
\* the validator.  The digest of what was read here is what gets stored.
FinalizeCover(w) ==
    LET id == writers[w].id
        bs == batches[id]
    IN  /\ writers[w].at = "finalCover"
        /\ \/ /\ \A i \in DOMAIN bs : bs[i].seq = i
              /\ \A i, j \in DOMAIN bs :
                    i # j => Covers[bs[i].content] \cap Covers[bs[j].content] = {}
              /\ writers' = [writers EXCEPT ![w].at = "finalCommit",
                                            ![w].cover = CoverageOf(id)]
           \/ writers' = Back(w)
        /\ UNCHANGED <<storeVars, artClock, goneRuns>>

FinalizeCommit(w) ==
    LET id == writers[w].id
    IN  /\ writers[w].at = "finalCommit"
        /\ IF Open(id) /\ AtRevision(id, writers[w].rev) /\ RequireClaim(w, id)
              THEN Terminal(id, "finalized", writers[w].cover) /\ writers' = Rest(w)
              ELSE UNCHANGED storeVars /\ writers' = Back(w)
        /\ UNCHANGED <<artClock, goneRuns>>

\* abort, the lifecycle's check and the store's.
AbortCheck(w) ==
    LET id == writers[w].id
    IN  /\ writers[w].at = "hold" /\ writers[w].rev < MaxRevision
        /\ Open(id) /\ AtRevision(id, writers[w].rev)
        /\ writers' = [writers EXCEPT ![w].at = "abortCommit"]
        /\ UNCHANGED <<storeVars, artClock, goneRuns>>

AbortCommit(w) ==
    LET id == writers[w].id
    IN  /\ writers[w].at = "abortCommit"
        /\ IF Open(id) /\ AtRevision(id, writers[w].rev) /\ RequireClaim(w, id)
              THEN Terminal(id, "aborted", {}) /\ writers' = Rest(w)
              ELSE UNCHANGED storeVars /\ writers' = Back(w)
        /\ UNCHANGED <<artClock, goneRuns>>

\* A worker dies; the store keeps its claim until it expires.
CrashWriter(w) ==
    /\ writers[w].at # "idle"
    /\ writers' = Rest(w)
    /\ UNCHANGED <<storeVars, artClock, goneRuns>>

(***************************************************************************)
(* Maintenance.                                                            *)
(***************************************************************************)
\* Mutant: a claim is swept when its Run wrote nothing under it yet.
ReclaimableIdle(id) ==
    /\ claims[id] # NoClaim
    /\ \/ claims[id].exp <= artClock \/ claims[id].run \in goneRuns
       \/ claims[id].rev = 1

\* Expired, of a Run that is gone, or of a target that moved on.
Reclaimable(id) ==
    /\ claims[id] # NoClaim
    /\ \/ claims[id].exp <= artClock \/ claims[id].run \in goneRuns
       \/ ~Open(id) \/ artifacts[id].rev # claims[id].rev

Purgeable(id) ==
    /\ RetentionMs # -1 /\ artifacts[id].st \in {"finalized", "aborted"}
    /\ artifacts[id].at <= artClock - RetentionMs

\* _purge_artifact on the owner index.
OwnersAfter(ids) ==
    [o \in ArtOwners |-> IF owned[o] \in ids THEN Nobody ELSE owned[o]]

\* What one pass purges: the oldest, up to max_purge_artifacts of the policy.
PurgeBatches ==
    LET due == {id \in ArtIds : Purgeable(id)}
    IN  {ids \in SUBSET due :
           /\ ids = {} => due = {}
           /\ \A old \in ids, new \in due \ ids : artifacts[old].at <= artifacts[new].at}

\* maintain: the claims first, then the terminal artifacts past retention.
Maintain ==
    LET stale == {id \in ArtIds : Reclaimable(id)}
    IN  \E purged \in PurgeBatches :
        /\ stale \cup purged # {}
        /\ claims' = [id \in ArtIds |->
              IF id \in stale \cup purged THEN NoClaim ELSE claims[id]]
        /\ artifacts' = [id \in ArtIds |->
              IF id \in purged THEN [NoRecord EXCEPT !.st = "purged"]
              ELSE artifacts[id]]
        /\ owned' = OwnersAfter(purged)
        /\ batches' = [id \in ArtIds |-> IF id \in purged THEN <<>> ELSE batches[id]]
        /\ receipts' = [id \in ArtIds |->
              IF id \in purged THEN [k \in Keys |-> NoReceipt] ELSE receipts[id]]
        /\ UNCHANGED <<artClock, writers, tokens, goneRuns>>

RunGone(r) ==
    /\ r \notin goneRuns /\ goneRuns' = goneRuns \cup {r}
    /\ UNCHANGED <<storeVars, artClock, writers>>

ArtTick ==
    /\ artClock < MaxClock /\ artClock' = artClock + 1
    /\ UNCHANGED <<storeVars, writers, goneRuns>>

ArtWriter(w) ==
    \/ \E o \in ArtOwners, id \in ArtIds, r \in WriterRuns, exp \in ItemCounts :
          Begin(w, o, id, r, exp)
    \/ \E id \in ArtIds, r \in WriterRuns : Authorize(w, id, r)
    \/ Acquire(w) \/ Renew(w) \/ Release(w)
    \/ \E k \in Keys, b \in Contents, seq \in 1..MaxRevision : AppendReplay(w, k, b, seq)
    \/ AppendCheck(w) \/ AppendCover(w) \/ AppendCommit(w)
    \/ FinalizeCheck(w) \/ FinalizeCover(w) \/ FinalizeCommit(w)
    \/ AbortCheck(w) \/ AbortCommit(w)
    \/ CrashWriter(w)

ArtNext ==
    \/ \E w \in Writers : ArtWriter(w)
    \/ \E r \in WriterRuns : ReleaseForRun(r) \/ RunGone(r)
    \/ Maintain \/ ArtTick

ArtSpec == ArtInit /\ [][ArtNext]_artVars

(***************************************************************************)
(* Properties.                                                             *)
(***************************************************************************)
\* A coverage key is committed at most once and the batches are numbered
\* without gaps, although the lifecycle compares against a list it read
\* before its last await and several workers of a Run share one claim.
CoverageOnce ==
    \A id \in ArtIds : \A i, j \in DOMAIN batches[id] :
        /\ batches[id][i].seq = i
        /\ i # j => Covers[batches[id][i].content]
                      \cap Covers[batches[id][j].content] = {}

\* A finalized artifact is what was validated: the stored coverage digest is
\* the coverage of its batches, and the manifest's item count is met.
FinalizedExact ==
    \A id \in ArtIds : artifacts[id].st = "finalized" =>
        /\ artifacts[id].cover = CoverageOf(id)
        /\ artifacts[id].count = Len(batches[id])
        /\ artifacts[id].exp \in {-1, artifacts[id].count}

\* Every stored claim fits its artifact: it is open and at the claim's
\* revision, so a holder whose lease is alive is never told that it lost it.
ClaimsCurrent ==
    \A id \in ArtIds : claims[id] # NoClaim =>
        Open(id) /\ artifacts[id].rev = claims[id].rev

\* The owner index and the records agree, also after a purge: an owner finds
\* its artifact, or none and may begin a new one.
OwnerIndexExact ==
    /\ \A o \in ArtOwners : owned[o] # Nobody =>
          artifacts[owned[o]].owner = o
          /\ artifacts[owned[o]].st \notin {"none", "purged"}
    /\ \A id \in ArtIds : artifacts[id].owner # Nobody =>
          owned[artifacts[id].owner] = id

\* Maintenance never takes a live claim away from a Run that is available,
\* and never purges an open artifact.
SweepSparesLive ==
    Maintain => \A id \in ArtIds :
       /\ Open(id) => artifacts'[id] = artifacts[id]
       /\ (/\ claims[id].exp > artClock /\ claims[id].run \notin goneRuns
           /\ Open(id))
             => claims'[id] = claims[id]

\* Until the artifact is purged its committed batches, receipts and, once it
\* is terminal, its whole record stay as they are.
CommittedFixed ==
    \A id \in ArtIds : artifacts'[id].st # "purged" =>
       /\ SubSeq(batches'[id], 1, Len(batches[id])) = batches[id]
       /\ \A k \in Keys : receipts[id][k] \in {NoReceipt, receipts'[id][k]}
       /\ artifacts[id].st \in {"finalized", "aborted"}
             => artifacts'[id] = artifacts[id]

\* The record counts its batches; without an artifact the record is blank.
RecordInv ==
    \A id \in ArtIds :
        /\ artifacts[id].next = Len(batches[id]) + 1
        /\ artifacts[id].count = Len(batches[id])
        /\ artifacts[id].st \in {"none", "purged"} =>
              artifacts[id] = [NoRecord EXCEPT !.st = artifacts[id].st]
        /\ \A k \in Keys : receipts[id][k].rev <= artifacts[id].rev

\* The artifact is still as the worker's command expects it.
AsExpected(w) == Open(writers[w].id) /\ AtRevision(writers[w].id, writers[w].rev)

\* What a worker that is at work knows of the artifact it writes.
Knows(w) ==
    LET a == artifacts[writers[w].id]
    IN  /\ writers[w].id \in ArtIds /\ writers[w].run \in WriterRuns
        /\ a.st # "none"
        /\ a.st # "purged" => writers[w].rev <= a.rev
        /\ writers[w].at \in {"check", "cover", "commit"} =>
              writers[w].key \in Keys /\ writers[w].content \in Contents
        /\ writers[w].at = "commit" /\ AsExpected(w) =>
              Covers[writers[w].content] \cap CoverageOf(writers[w].id) = {}
        /\ writers[w].at \in {"finalCover", "finalCommit"} /\ AsExpected(w) =>
              a.exp \in {-1, a.count}
        /\ writers[w].at = "finalCommit" /\ AsExpected(w) =>
              writers[w].cover = CoverageOf(writers[w].id)

\* What a worker checked before an await is still the case when the store
\* accepts its command: no worker knows a revision before it is committed, so
\* an equal revision means that nothing was stored in between.
WorkerInv == \A w \in Writers : writers[w].at # "idle" => Knows(w)

\* ArtifactInv: coverage is disjoint, a finalized artifact is exactly its
\* committed batches, and claims and the owner index are current; with what the
\* workers know it is inductive.
ArtifactInv ==
    /\ ArtTypeOK
    /\ RecordInv
    /\ WorkerInv
    /\ CoverageOnce
    /\ FinalizedExact
    /\ ClaimsCurrent
    /\ OwnerIndexExact

\* ArtifactSteps: maintenance spares what is live, and what was committed stays.
ArtifactSteps == [][SweepSparesLive /\ CommittedFixed]_artVars
=============================================================================
