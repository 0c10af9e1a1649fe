------------------------------ MODULE JoinTree ------------------------------
(***************************************************************************)
(* The run tree twice: used by any callers, current or stale, in any order *)
(* (RunTree), and used by the joins and executions of AgentJoin.           *)
(***************************************************************************)
EXTENDS AgentJoin

VARIABLE part

BothInit == JoinInit /\ part \in {"tree", "join"}

BothNext ==
    /\ part' = part
    /\ \/ part = "tree" /\ TreeNext /\ UNCHANGED schedVars
       \/ part = "join" /\ JoinNext

BothSpec == BothInit /\ [][BothNext]_<<vars, part>>

\* JoinInv: no execution works before its predecessors succeeded, and where the
\* tree is used by its executions the tree and the canonical record of a child
\* never contradict each other, across every order of settlement, lease loss,
\* cancellation and crash.  With what the executions rely on it is inductive.
JoinInv ==
    /\ JoinTypeOK /\ Parties /\ PredecessorsDone
    /\ part = "join" => RecordsAgree /\ Begun /\ \A x \in execs : ExecSound(x)
=============================================================================
