--------------------------- MODULE MCToolDispatch ---------------------------
(***************************************************************************)
(* Model checking of what the SQLite storage keeps for a Run beside its    *)
(* lease.  One part is ToolDispatch: the execution that suspends on the    *)
(* approval, a resume by the same supervisor and one by another process.   *)
(* The other is RecoveryScan: two recovery workers that share the durable  *)
(* cursor over two Runs and a third between them, in pages of two, without *)
(* a schedule.  A behaviour is one of one part.                            *)
(***************************************************************************)
EXTENDS ToolDispatch, RecoveryScan, TLC

CONSTANTS t1, t2, t3, oA, oB, s1, s2

VARIABLE part

MCTasks == {t1, t2, t3}
MCOwners == {oA, oB}
MCOwnerOf == [t \in MCTasks |-> IF t = t3 THEN oB ELSE oA]
MCScanners == {s1, s2}

\* The two executions of the first supervisor are interchangeable.
MCSymmetry == Permutations({t1, t2})

StorageInit ==
    /\ part \in {"dispatch", "scan"}
    /\ ToolInit
    /\ ScanInit /\ \A x \in Scanners : scan[x].durable /\ ~scan[x].scheduled
    /\ troubles = 0 /\ indexed = IF part = "scan" THEN RunIds \ {2} ELSE RunIds

StorageNext ==
    \/ part = "dispatch" /\ ToolNext /\ UNCHANGED <<part, scanVars>>
    \/ part = "scan" /\ ScanNext /\ UNCHANGED <<part, vars>>

StorageSpec == StorageInit /\ [][StorageNext]_<<part, vars, scanVars>>
=============================================================================
