--------------------------- MODULE EqualityTheory ----------------------------
(***************************************************************************)
(* What an equality leaf answers, and when two groups of leaves of an All  *)
(* may be replaced by one strict antonym operand.                          *)
(*                                                                         *)
(* A leaf is the set of its pairs <<key, id>>: an ID stored without a      *)
(* value has the pair <<Missing, id>> and belongs to the wildcard bitmap.  *)
(***************************************************************************)
EXTENDS Integers, FiniteSets

CONSTANT Missing    \* "no value", stored or queried

(* Every entry adds its ID to every leaf, once or more often.              *)
Leaves(keys, ids) ==
  {leaf \in SUBSET ((keys \cup {Missing}) \X ids) : \A i \in ids : \E k \in keys \cup {Missing} : <<k, i>> \in leaf}

Stored(leaf, k) == {p[2] : p \in {p \in leaf : p[1] = k}}
Wild(leaf)      == Stored(leaf, Missing)

(* concreteMatchSet: a query without a value has no concrete matches.      *)
Concrete(leaf, q) == IF q = Missing THEN {} ELSE Stored(leaf, q)

(* search: the wildcard and the posting of the query                       *)
Meets(leaf, q) == Wild(leaf) \cup Concrete(leaf, q)

(* equalityUniverseCardinality: the sizes of the wildcard and the postings *)
Total(leaf) == Cardinality(leaf)

XorCardinality(A, B) == Cardinality(A) + Cardinality(B) - 2 * Cardinality(A \cap B)

(* Fault: overlapping wildcards pass.                                      *)
ComplementsOverlapping(left, right) ==
  Total(left) = Total(right) /\ Cardinality(Wild(left) \cup Wild(right)) = Total(left)

(* strictWildcardComplements                                               *)
Complements(left, right) ==
  /\ Total(left) = Total(right)
  /\ XorCardinality(Wild(left), Wild(right)) = Total(left)

(* All members of one side, by concrete matches only                       *)
SideMatches(leaf, side, q, ids) == {i \in ids : \A r \in side : i \in Concrete(leaf[r], q[r])}

(* strictEqualityAntonymRule.search: no wildcard is read.                  *)
AntonymMatches(leaf, left, right, q, ids) ==
  SideMatches(leaf, left, q, ids) \cup SideMatches(leaf, right, q, ids)

(* What the replaced children answer together                              *)
AllMeet(leaf, rules, q, ids) == {i \in ids : \A r \in rules : i \in Meets(leaf[r], q[r])}
==============================================================================
