---------------------------- MODULE MCLossyBuild ----------------------------
(***************************************************************************)
(* One and two leaves of each kind under one, two and nested policies.     *)
(* Limits are such that pressure comes before or with the last entry, that *)
(* none, one or both leaves are coarsened, and that some builds fail.      *)
(***************************************************************************)
EXTENDS LossyBuild

MCValues == 1..3
MCHash == <<{}, {1}, {0, 1}>>   \* the last two collide at level 1

Leaf(rule, at)       == [from |-> at, rule |-> rule, limit |-> None]
Policy(first, limit) == [from |-> first, rule |-> None, limit |-> limit]

Single(rule, limit) == <<Leaf(rule, 1), Policy(1, limit)>>
Shared(limit) == <<Leaf("equality", 1), Leaf("lessThan", 2), Policy(1, limit)>>
Beside(limit) == <<Leaf("equality", 1), Leaf("greaterThan", 2), Policy(2, limit)>>
Nested(inner, outer) ==
  <<Leaf("equality", 1), Policy(1, inner), Leaf("greaterThan", 3), Policy(1, outer)>>
Siblings(one, two) ==
  <<Leaf("equality", 1), Policy(1, one), Leaf("lessThan", 3), Policy(3, two)>>

MCSchemas ==
  {Single("equality", 21), Single("equality", 40), Single("greaterThan", 21),
   Shared(61), Shared(47), Shared(39), Beside(21), Nested(22, 61), Nested(39, 80), Siblings(22, 21)}
=============================================================================
