---------------------------- MODULE MCAgentJoin ----------------------------
(* Pair: the Root 0 delegates to 1 and 2, where 2 depends on 1.             *)
(* Chain: the Root delegates to 1, run 1 to 2, and the Root continues the   *)
(* Agent of 1 in 3.                                                         *)
EXTENDS AgentJoin

ChainRuns == 0..3
ChainParent == [r \in ChainRuns |-> CASE r = 0 -> NoRun [] r \in {1, 3} -> 0 [] r = 2 -> 1]
ChainBelow == [r \in ChainRuns |-> CASE r = 0 -> 1..3 [] r = 1 -> {2} [] OTHER -> {}]
ChainDeps == [r \in ChainRuns |-> {}]
ChainAgentOf == [r \in ChainRuns |-> IF r = 3 THEN 1 ELSE r]
ChainAbove == [a \in 0..2 |-> 0..(a - 1)]
ChainBy == <<0, 1, 0>>
ChainKids == <<{1}, {2}, {3}>>

PairRuns == 0..2
PairParent == [r \in PairRuns |-> IF r = 0 THEN NoRun ELSE 0]
PairBelow == [r \in PairRuns |-> IF r = 0 THEN {1, 2} ELSE {}]
PairDeps == [r \in PairRuns |-> IF r = 2 THEN {1} ELSE {}]
PairAgentOf == [r \in PairRuns |-> r]
PairAbove == [a \in PairRuns |-> IF a = 0 THEN {} ELSE {0}]
PairBy == <<0>>
PairKids == <<{1, 2}>>
=============================================================================
