----------------------------- MODULE MCAllSearch -----------------------------
(***************************************************************************)
(* Small indexes for AllSearch: at most one group of children shares a     *)
(* wildcard posting.                                                       *)
(***************************************************************************)
EXTENDS AllSearch, TLC

CONSTANTS q1, q2

Index(equality, wild, post1, post2, excluded1, bound) ==
  [equality |-> equality, wild |-> wild,
   post |-> (q1 :> post1) @@ (q2 :> post2),
   excluded |-> (q1 :> excluded1) @@ (q2 :> {}),
   bound |-> (q1 :> bound) @@ (q2 :> bound)]

(* Children 1 and 2 share the wildcard {1, 2}.  Between, child 3, finds    *)
(* nothing for q2 although both its sides have candidates.                 *)
OneGroup ==
  Index({1, 2}, <<{1, 2}, {1, 2}, {}>>,
        <<{3, 4}, {3}, {2, 3, 4}>>, <<{}, {3}, {}>>, {2}, <<0, 0, 4>>)

(* The group's result is smaller than its estimates, and neither member    *)
(* alone excludes what the other does; Between finds one of those IDs.     *)
SmallGroup ==
  Index({1, 3}, <<{1}, {}, {1}>>,
        <<{2, 3}, {3}, {2, 4}>>, <<{2, 3}, {1, 4}, {}>>, {}, <<0, 4, 0>>)

(* No group: immutable postings, two children of one equality class, an    *)
(* ordered child.  No child matches q2 in child 1.                         *)
NoGroup ==
  Index({1, 2}, <<{}, {}, {}>>,
        <<{1, 2, 3}, {1, 2, 3}, {2, 3, 4}>>, <<{}, {2, 3}, {1, 4}>>, {}, <<0, 0, 3>>)

(* A small equality result is scanned, the others are checked per ID.      *)
Scanned ==
  Index({1, 3}, <<{2}, {}, {1, 4}>>, <<{}, {1, 2, 3}, {2, 3}>>,
        <<{3}, {3, 4}, {3}>>, {3}, <<0, 3, 0>>)

MCIndexes == {OneGroup, SmallGroup, NoGroup, Scanned}
Symmetry == Permutations(Goroutines)
==============================================================================
