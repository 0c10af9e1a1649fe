----------------------------- MODULE MCRunLease -----------------------------
(***************************************************************************)
(* Model checking of RunLease: one supervisor that starts two executions   *)
(* of the Run and a second supervisor in another process.                  *)
(***************************************************************************)
EXTENDS RunLease

CONSTANTS t1, t2, t3, oA, oB

MCTasks == {t1, t2, t3}
MCOwners == {oA, oB}
MCOwnerOf == [t \in MCTasks |-> IF t = t3 THEN oB ELSE oA]
=============================================================================
