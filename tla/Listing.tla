------------------------------ MODULE Listing ------------------------------
(***************************************************************************)
(* Ordered listings: the ids an index returns in their order, and what a   *)
(* comprehension keeps of a list.                                          *)
(***************************************************************************)
EXTENDS Integers, Sequences, FiniteSets

\* The numbers of a set in their order, each at the place that the smaller ones
\* leave to it.
Ascending(set) ==
    [i \in 1..Cardinality(set) |->
        CHOOSE n \in set : Cardinality({m \in set : m < n}) = i - 1]

\* The elements of a sequence that are in a set, in the sequence's order.
Picked(seq, set) ==
    LET places == Ascending({i \in DOMAIN seq : seq[i] \in set})
    IN  [k \in DOMAIN places |-> seq[places[k]]]
=============================================================================
