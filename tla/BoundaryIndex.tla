--------------------------- MODULE BoundaryIndex ----------------------------
(***************************************************************************)
(* What one ordered index promises, whatever its blocks look like.         *)
(*                                                                         *)
(* Rules are stored under a value.  A query meets the rules whose value    *)
(* lies on its far side: at or above it for Less, LessOrEqual and EQ, at   *)
(* or below it for Greater and GreaterOrEqual.  Under memory pressure a    *)
(* build merges neighbouring boundaries outward, and from then on stores   *)
(* late values under the nearest boundary outward of them.  Answers may    *)
(* grow; they never lose a rule that matches.                              *)
(*                                                                         *)
(* OrderedIndex adds the blocks and implements this module.                *)
(***************************************************************************)
EXTENDS Integers

CONSTANTS
  Values,   \* constraint values, in the order of the rule's comparator
  Ids       \* dense internal IDs given out by Build

ASSUME ValueAssumption == Values \subseteq Int

VARIABLES
  dir,         \* which side of the query matches: the rule's direction
  posting,     \* posting[b]: the IDs kept under boundary b
  quantized,   \* two boundaries have been merged
  stored,      \* the <<value, ID>> pairs Build has inserted
  published    \* the build is over

boundaryVars == <<dir, posting, quantized, stored, published>>

Directions == {"lessThan", "greaterThan"}
Boundaries == DOMAIN posting

(* b is v or lies outward of it: the way values are rounded.               *)
Outward(b, v) == IF dir = "lessThan" THEN b >= v ELSE b =< v

(* Boundary or value b satisfies query q.                                  *)
Covers(b, q, inclusive) == Outward(b, q) /\ (b = q => inclusive)

(* The boundary v is rounded to, if there is one.                          *)
Home(v) ==
  {b \in Boundaries :
     Outward(b, v) /\ \A c \in Boundaries : Outward(c, v) => Outward(c, b)}

Answer(q, inclusive) ==
  UNION {posting[b] : b \in {c \in Boundaries : Covers(c, q, inclusive)}}

EqualityAnswer(q) ==
  UNION {posting[b] : b \in IF quantized THEN Home(q) ELSE Boundaries \cap {q}}

(* The rules the query really meets.                                       *)
Required(q, inclusive) ==
  {id \in Ids : \E v \in Values : <<v, id>> \in stored /\ Covers(v, q, inclusive)}

BoundaryInit ==
  /\ dir \in Directions
  /\ posting = [b \in {} |-> {}]
  /\ quantized = FALSE
  /\ stored = {}
  /\ published = FALSE

(* insertOrdered: outward to the nearest boundary, or a boundary of its own *)
Store(v, id) ==
  /\ ~published
  /\ \E b \in Values :
       /\ \/ quantized /\ b \in Home(v)
          \/ b = v /\ (quantized => \A c \in Boundaries : ~Outward(c, v))
       /\ posting' = [c \in Boundaries \cup {b} |->
                        (IF c \in Boundaries THEN posting[c] ELSE {})
                          \cup (IF c = b THEN {id} ELSE {})]
  /\ stored' = stored \cup {<<v, id>>}
  /\ UNCHANGED <<dir, quantized, published>>

(* rebuildOrderedBoundaries: two neighbours become the outer of the two.   *)
Merge(inner, outer) ==
  /\ ~published
  /\ inner # outer
  /\ Outward(outer, inner)
  /\ \A c \in Boundaries : Outward(c, inner) /\ c # inner => Outward(c, outer)
  /\ posting' = [b \in Boundaries \ {inner} |->
                   posting[b] \cup (IF b = outer THEN posting[inner] ELSE {})]
  /\ quantized' = TRUE
  /\ UNCHANGED <<dir, stored, published>>

Publish ==
  /\ ~published
  /\ published' = TRUE
  /\ UNCHANGED <<dir, posting, quantized, stored>>

BoundaryNext ==
  \/ \E v \in Values, id \in Ids : Store(v, id)
  \/ \E inner, outer \in Boundaries : Merge(inner, outer)
  \/ Publish

BoundarySpec == BoundaryInit /\ [][BoundaryNext]_boundaryVars

(* Coarsening loses no match: whatever was merged and whenever a value     *)
(* arrived, a strict or inclusive query is answered with every rule it     *)
(* meets (orderedIndex.walk, insertOrdered, rebuildOrderedBoundaries).     *)
NoFalseNegatives ==
  \A q \in Values, inclusive \in BOOLEAN : Required(q, inclusive) \subseteq Answer(q, inclusive)

(* An EQ operator of CompareBy, which rounds up like Less, finds under the *)
(* one posting it looks up every rule stored with the query's value        *)
(* (quantizedOrderedEquality, exactOrderedEquality).                       *)
EqualityComplete ==
  dir = "lessThan" =>
    \A v \in Values, id \in Ids : <<v, id>> \in stored => id \in EqualityAnswer(v)

(* Each stored value is rounded to the nearest boundary outward of it, and *)
(* to itself until boundaries are merged: what makes the answers right.    *)
Housed ==
  \A v \in Values, id \in Ids : <<v, id>> \in stored =>
    \E b \in Boundaries :
      b \in Home(v) /\ id \in posting[b] /\ (quantized \/ b = v)

TypeOK ==
  /\ dir \in Directions
  /\ Boundaries \subseteq Values /\ posting \in [Boundaries -> SUBSET Ids]
  /\ quantized \in BOOLEAN /\ published \in BOOLEAN
  /\ stored \subseteq Values \X Ids

(* Until boundaries are merged answers are exact.                          *)
ExactUntilMerged ==
  ~quantized =>
    \A q \in Values :
      /\ \A inclusive \in BOOLEAN : Answer(q, inclusive) \subseteq Required(q, inclusive)
      /\ EqualityAnswer(q) \subseteq {id \in Ids : <<q, id>> \in stored}

(* No answer shrinks while the index is built, and publication changes     *)
(* none: what one step accepts every later generation accepts.             *)
AnswersGrow ==
  [][/\ \A q \in Values, inclusive \in BOOLEAN :
          Answer(q, inclusive) \subseteq Answer(q, inclusive)'
     /\ published' # published => posting' = posting]_boundaryVars
=============================================================================
