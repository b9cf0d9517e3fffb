----------------------------- MODULE MCTwoGroups -----------------------------
(***************************************************************************)
(* An index whose four equality children form two groups: 1 and 2 share    *)
(* the wildcard {1, 2}, 3 and 4 share {2, 3}.  No pair of postings         *)
(* complements another, so Build keeps the groups as they are.             *)
(***************************************************************************)
EXTENDS AllSearch

CONSTANTS q1

TwoGroups ==
  [equality |-> 1..4,
   wild     |-> <<{1, 2}, {1, 2}, {2, 3}, {2, 3}>>,
   post     |-> [q \in {q1} |-> <<{3}, {3, 4}, {1, 4, 5}, {4, 5, 6}>>],
   excluded |-> [q \in {q1} |-> {}],
   bound    |-> [q \in {q1} |-> <<0, 0, 0, 0>>]]

MCIndexes == {TwoGroups}
==============================================================================
