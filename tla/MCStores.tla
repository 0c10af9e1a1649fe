------------------------------ MODULE MCStores ------------------------------
(***************************************************************************)
(* The two stores that outlive an execution: the artifacts of a Run and    *)
(* the journal of the Mem0 memory.  Every behaviour is one of Artifacts or *)
(* one of MemoryJournal, as `part' says.                                   *)
(***************************************************************************)
EXTENDS Artifacts, MemoryJournal, TLC

CONSTANTS x1, x2, y1, y2, b1, b2, r1, r2, a1, o1, m1, s1, d1

VARIABLE part

\* Writers of artifacts and processes of the memory; the keys of an append and
\* of a memory operation.
MCActors == {x1, x2}
MCKeys == {y1, y2}
MCContents == {b1, b2}
MCWriterRuns == {r1, r2}
MCArtIds == {a1}
MCArtOwners == {o1}
MCItemCounts == {-1, 2}
MCCovers == [b \in MCContents |-> {b}]
MCMemIds == {m1}
MCMemSources == {s1}
MCDecisions == {d1}

StoresInit ==
    /\ part \in {"artifacts", "memory"}
    /\ ArtInit
    /\ MemInit
    /\ part = "memory" \/ (memEpoch = 0 /\ managed = {})

\* Bound: of the rules, only the revocation of a source comes between two
\* operations; an authorization that ends or a record that expires has one.
Bounded == withdrawn \cup lapsed # {} => \E k \in OpKeys : ops[k].st = "none"

\* Bound: a call is stopped, or its provider fails, in the first of two
\* operations, or while one of them is on its way out.
Stops ==
    (\E p \in Procs : job[p].err) =>
        \/ \E k \in OpKeys : ops[k].st = "none"
        \/ \E p \in Procs : job[p].at = "final"

\* Bound: where a managed and a raw adapter share a scope, they extract, and the
\* rules stand.
Mixed ==
    managed \notin {{}, Procs} =>
        /\ revoked \cup withdrawn \cup lapsed = {}
        /\ \A k \in OpKeys : ops[k].st = "none" \/ ops[k].kind \in {"extract", "control"}

StoresNext ==
    \/ part = "artifacts" /\ ArtNext /\ UNCHANGED <<part, memVars>>
    \/ part = "memory" /\ MemNext /\ Bounded' /\ Stops' /\ Mixed' /\ UNCHANGED <<part, artVars>>

StoresSpec == StoresInit /\ [][StoresNext]_<<part, artVars, memVars>>

StoresSymmetry ==
    Permutations(MCActors) \cup Permutations(MCKeys)
    \cup Permutations(MCContents) \cup Permutations(MCWriterRuns)
=============================================================================
