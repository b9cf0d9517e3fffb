----------------------------- MODULE MCLocalAll ------------------------------
(***************************************************************************)
(* Three equality children searched through one Local.  Child 1 is asked   *)
(* for k1 and k2, child 2 for k1, k2 and k3, child 3 always for k1.        *)
(***************************************************************************)
EXTENDS LocalAll, TLC

CONSTANTS k1, k2, k3

Asks == [ab |-> <<k1, k2, k1>>, aa |-> <<k1, k1, k1>>,
         ba |-> <<k2, k1, k1>>, bc |-> <<k2, k3, k1>>]
MCQueries == DOMAIN Asks
MCKey == Asks

Index(wild, post1, post2, post3, excludedAa) ==
  [equality |-> Children, wild |-> wild,
   post |-> [q \in MCQueries |-> <<post1[Asks[q][1]], post2[Asks[q][2]], post3>>],
   excluded |-> [q \in MCQueries |-> IF q = "aa" THEN excludedAa ELSE {}],
   bound |-> [q \in MCQueries |-> <<0, 0, 0>>]]

(* Child 2 is the more selective one for every query but ba: the learned   *)
(* order differs from the schema order.  Child 3 is one immutable posting. *)
Crossing ==
  Index(<<{1}, {2}, {}>>,
        (k1 :> {2, 3, 4, 5, 6}) @@ (k2 :> {2, 3}),
        (k1 :> {1, 4, 5, 6}) @@ (k2 :> {3, 4, 5}) @@ (k3 :> {3}),
        1..6, {})
CrossingIndexes == {Crossing}

(* Schema order is the order of selectivity for every query, in all but    *)
(* the last of these indexes.  With exclusions, complete results are found *)
(* by their inputs.                                                        *)
Excluding ==
  Index(<<{1}, {1, 2}, {}>>,
        (k1 :> {2, 3}) @@ (k2 :> {4}),
        (k1 :> {3, 4, 5}) @@ (k2 :> {3, 5, 6}) @@ (k3 :> {5, 6}),
        1..5, {3})

(* The intersection is a single candidate, or empty.                       *)
Narrowing ==
  Index(<<{}, {1}, {1}>>,
        (k1 :> {2, 3}) @@ (k2 :> {4, 5}),
        (k1 :> {2, 5, 6}) @@ (k2 :> {4, 5}) @@ (k3 :> {2, 6}),
        {2, 3, 5, 6}, {})

(* Child 1 is small, or empty; child 2 holds ID 1 with and without a value.*)
SmallFirst ==
  Index(<<{}, {1}, {1}>>,
        (k1 :> {1}) @@ (k2 :> {}),
        (k1 :> {1}) @@ (k2 :> {1, 5, 6}) @@ (k3 :> {2, 5}),
        {2, 3, 4}, {})

(* Children 1 and 2 form one equality class for ba.                        *)
Classes ==
  Index(<<{}, {}, {6}>>,
        (k1 :> {1, 2}) @@ (k2 :> {3, 4, 5}),
        (k1 :> {3, 4, 5}) @@ (k2 :> {3, 4, 5}) @@ (k3 :> {1, 2, 6}),
        {1, 2, 3, 4}, {})

(* Child 1 is counted twice where it holds ID 1 with and without a value:  *)
(* the search finds fewer IDs than the count promised.                     *)
Counted ==
  Index(<<{1}, {1}, {}>>,
        (k1 :> {1}) @@ (k2 :> {2}),
        (k1 :> {1, 3}) @@ (k2 :> {2, 3}) @@ (k3 :> {1, 2, 4}),
        {1, 2, 3, 4}, {})

(* Only immutable postings: the order may cross.                           *)
Postings ==
  Index(<<{}, {}, {}>>,
        (k1 :> {1, 2, 3, 4, 5}) @@ (k2 :> {2, 3}),
        (k1 :> {1, 4, 5}) @@ (k2 :> {2, 3}) @@ (k3 :> {1, 2, 3, 4}),
        1..6, {})

MCIndexes == {Excluding, Narrowing, SmallFirst, Classes, Counted, Postings}
==============================================================================
