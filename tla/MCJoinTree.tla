----------------------------- MODULE MCJoinTree -----------------------------
(***************************************************************************)
(* JoinTree on the pair of MCAgentJoin.                                     *)
(***************************************************************************)
EXTENDS MCAgentJoin, JoinTree
=============================================================================
