------------------------- MODULE OrderedIndexProofs -------------------------
(***************************************************************************)
(* Proofs about an ordered index: for every set of values and of IDs,      *)
(* every block size and every order of insertions, merges, clones and      *)
(* measurements.                                                           *)
(*                                                                         *)
(* The abstract index comes first: each stored value is kept under the     *)
(* nearest boundary outward of it, and nothing else is (BoundaryInv,       *)
(* Traced).  Then the blocks: what each operation does to the items kept   *)
(* (Good, Kept), which makes every step of the index a step of the         *)
(* abstract one (IndexInv) and the cached usage current.  Last, what       *)
(* publication prepares (Prepared), and that a search which uses it        *)
(* returns, and estimates, what the boundaries accept.                     *)
(***************************************************************************)
EXTENDS OrderedIndex, FiniteSetTheorems, SequenceTheorems, TLAPS

-----------------------------------------------------------------------------
(* The abstract index.                                                     *)

(* Until boundaries are merged, an ID is kept only where it was stored.    *)
Faithful ==
  ~quantized => \A b \in Boundaries : \A id \in posting[b] : <<b, id>> \in stored

BoundaryInv == TypeOK /\ Housed /\ Faithful

(* Outward is a total order on values: the comparator's, or its reverse.   *)
LEMMA OutwardOrder ==
  ASSUME dir \in Directions, NEW u \in Values, NEW v \in Values, NEW w \in Values
  PROVE  /\ Outward(v, v)
         /\ Outward(u, v) \/ Outward(v, u)
         /\ Outward(u, v) /\ Outward(v, u) => u = v
         /\ Outward(u, v) /\ Outward(v, w) => Outward(u, w)
BY ValueAssumption DEF Outward, Directions

(* A boundary outward of a value satisfies every query the value does.     *)
LEMMA CoversOutward ==
  ASSUME dir \in Directions, NEW b \in Values, NEW v \in Values, NEW q \in Values,
         NEW inclusive \in BOOLEAN, Outward(b, v), Covers(v, q, inclusive)
  PROVE  Covers(b, q, inclusive)
BY ValueAssumption DEF Outward, Covers, Directions

(* What Store does to the postings.                                        *)
LEMMA StoreEffect ==
  ASSUME TypeOK, NEW v \in Values, NEW id \in Ids, Store(v, id)
  PROVE  \E b \in Values :
           /\ (quantized /\ b \in Home(v))
              \/ (b = v /\ (quantized => \A c \in Boundaries : ~Outward(c, v)))
           /\ Boundaries' = Boundaries \cup {b}
           /\ \A c \in Boundaries \ {b} : posting'[c] = posting[c]
           /\ b \in Boundaries => posting'[b] = posting[b] \cup {id}
           /\ b \notin Boundaries => posting'[b] = {id}
           /\ posting' \in [Boundaries' -> SUBSET Ids]
<1>1. PICK b \in Values :
        /\ (quantized /\ b \in Home(v))
           \/ (b = v /\ (quantized => \A c \in Boundaries : ~Outward(c, v)))
        /\ posting' = [c \in Boundaries \cup {b} |->
                        (IF c \in Boundaries THEN posting[c] ELSE {})
                          \cup (IF c = b THEN {id} ELSE {})]
  BY DEF Store
<1>2. Boundaries' = Boundaries \cup {b}
  BY <1>1 DEF Boundaries
<1>3. \A c \in Boundaries : posting[c] \subseteq Ids
  BY DEF TypeOK
<1>4. /\ \A c \in Boundaries \ {b} : posting'[c] = posting[c]
      /\ b \in Boundaries => posting'[b] = posting[b] \cup {id}
      /\ b \notin Boundaries => posting'[b] = {id}
  BY <1>1
<1>5. posting' \in [Boundaries' -> SUBSET Ids]
  BY <1>1, <1>2, <1>3
<1>6. QED
  BY <1>1, <1>2, <1>4, <1>5

(* What Merge does to the postings.                                        *)
LEMMA MergeEffect ==
  ASSUME TypeOK, NEW inner \in Boundaries, NEW outer \in Boundaries, Merge(inner, outer)
  PROVE  /\ inner # outer
         /\ Boundaries' = Boundaries \ {inner}
         /\ posting'[outer] = posting[outer] \cup posting[inner]
         /\ \A c \in Boundaries \ {inner, outer} : posting'[c] = posting[c]
         /\ posting' \in [Boundaries' -> SUBSET Ids]
<1>1. posting' = [b \in Boundaries \ {inner} |->
                    posting[b] \cup (IF b = outer THEN posting[inner] ELSE {})]
  BY DEF Merge
<1>2. Boundaries' = Boundaries \ {inner}
  BY <1>1 DEF Boundaries
<1>3. \A c \in Boundaries : posting[c] \subseteq Ids
  BY DEF TypeOK
<1>4. inner # outer
  BY DEF Merge
<1>5. QED
  BY <1>1, <1>2, <1>3, <1>4

(* Every step keeps the types.                                             *)
LEMMA TypeStep ==
  ASSUME TypeOK, [BoundaryNext]_boundaryVars
  PROVE  TypeOK'
<1>1. ASSUME NEW v \in Values, NEW id \in Ids, Store(v, id)  PROVE TypeOK'
  <2>1. PICK b \in Values : Boundaries' = Boundaries \cup {b} /\ posting' \in [Boundaries' -> SUBSET Ids]
    BY <1>1, StoreEffect
  <2>2. UNCHANGED <<dir, quantized, published>> /\ stored' = stored \cup {<<v, id>>}
    BY <1>1 DEF Store
  <2>3. QED
    BY <2>1, <2>2 DEF TypeOK
<1>2. ASSUME NEW inner \in Boundaries, NEW outer \in Boundaries, Merge(inner, outer)  PROVE TypeOK'
  <2>1. Boundaries' \subseteq Boundaries /\ posting' \in [Boundaries' -> SUBSET Ids]
    BY <1>2, MergeEffect
  <2>2. UNCHANGED <<dir, stored, published>> /\ quantized' = TRUE
    BY <1>2 DEF Merge
  <2>3. QED
    BY <2>1, <2>2 DEF TypeOK
<1>3. CASE Publish
  BY <1>3 DEF TypeOK, Publish, Boundaries
<1>4. CASE UNCHANGED boundaryVars
  BY <1>4 DEF TypeOK, boundaryVars, Boundaries
<1>5. QED
  BY <1>1, <1>2, <1>3, <1>4 DEF BoundaryNext

(* Nothing is kept under a value it was not stored with before a merge.    *)
LEMMA FaithfulStep ==
  ASSUME BoundaryInv, [BoundaryNext]_boundaryVars
  PROVE  Faithful'
<1>1. ASSUME NEW v \in Values, NEW id \in Ids, Store(v, id), ~quantized'
      PROVE  \A c \in Boundaries' : \A i \in posting'[c] : <<c, i>> \in stored'
  <2>1. ~quantized /\ stored' = stored \cup {<<v, id>>}
    BY <1>1 DEF Store
  <2>2. /\ Boundaries' = Boundaries \cup {v}
        /\ \A c \in Boundaries \ {v} : posting'[c] = posting[c]
        /\ v \in Boundaries => posting'[v] = posting[v] \cup {id}
        /\ v \notin Boundaries => posting'[v] = {id}
    BY <1>1, <2>1, StoreEffect DEF BoundaryInv
  <2>3. \A c \in Boundaries : \A i \in posting[c] : <<c, i>> \in stored
    BY <2>1 DEF BoundaryInv, Faithful
  <2>4. QED
    BY <2>1, <2>2, <2>3
<1>2. ASSUME NEW inner \in Boundaries, NEW outer \in Boundaries, Merge(inner, outer)
      PROVE  quantized'
  BY <1>2 DEF Merge
<1>3. CASE Publish
  BY <1>3 DEF Publish, BoundaryInv, Faithful, Boundaries
<1>4. CASE UNCHANGED boundaryVars
  BY <1>4 DEF boundaryVars, BoundaryInv, Faithful, Boundaries
<1>5. QED
  BY <1>1, <1>2, <1>3, <1>4 DEF BoundaryNext, Faithful

(* A new boundary appears only outward of every value it could take over:  *)
(* beyond all boundaries, or while every value has a boundary of its own.  *)
LEMMA HousedStore ==
  ASSUME BoundaryInv, NEW w \in Values, NEW i \in Ids, Store(w, i)
  PROVE  Housed'
<1>1. PICK n \in Values :
        /\ (quantized /\ n \in Home(w))
           \/ (n = w /\ (quantized => \A c \in Boundaries : ~Outward(c, w)))
        /\ Boundaries' = Boundaries \cup {n}
        /\ \A c \in Boundaries \ {n} : posting'[c] = posting[c]
        /\ n \in Boundaries => posting'[n] = posting[n] \cup {i}
        /\ n \notin Boundaries => posting'[n] = {i}
  BY StoreEffect DEF BoundaryInv
<1>2. UNCHANGED <<dir, quantized>> /\ stored' = stored \cup {<<w, i>>}
  BY DEF Store
<1>3. dir \in Directions /\ Boundaries \subseteq Values /\ stored \subseteq Values \X Ids
  BY DEF BoundaryInv, TypeOK
<1>4. \A c, v : Outward(c, v)' <=> Outward(c, v)
  BY <1>2 DEF Outward
<1>5. ASSUME NEW v \in Values, NEW id \in Ids, <<v, id>> \in stored'
      PROVE  \E b \in Boundaries' : b \in Home(v)' /\ id \in posting'[b] /\ (quantized' \/ b = v)
  <2>1. CASE <<v, id>> \in stored
    <3>1. PICK b \in Boundaries : b \in Home(v) /\ id \in posting[b] /\ (quantized \/ b = v)
      BY <2>1 DEF BoundaryInv, Housed
    <3>2. b \in Boundaries' /\ id \in posting'[b]
      BY <3>1, <1>1
    <3>3. Outward(b, v) /\ \A c \in Boundaries : Outward(c, v) => Outward(c, b)
      BY <3>1 DEF Home
    <3>4. Outward(n, v) => Outward(n, b)
      <4>1. CASE n \in Boundaries
        BY <4>1, <3>3
      <4>2. CASE n \notin Boundaries /\ quantized
        <5>1. ~Outward(b, n)
          BY <4>2, <1>1 DEF Home
        <5>2. QED
          BY <5>1, <1>3, OutwardOrder
      <4>3. CASE ~quantized
        BY <4>3, <3>1
      <4>4. QED
        BY <4>1, <4>2, <4>3
    <3>5. b \in Home(v)'
      BY <1>1, <1>4, <3>2, <3>3, <3>4 DEF Home
    <3>6. QED
      BY <1>2, <3>1, <3>2, <3>5
  <2>2. CASE v = w /\ id = i
    <3>1. n \in Boundaries' /\ id \in posting'[n] /\ (quantized' \/ n = v)
      BY <1>1, <1>2, <2>2
    <3>2. Outward(n, v) /\ \A c \in Boundaries : Outward(c, v) => Outward(c, n)
      BY <1>1, <1>3, <2>2, OutwardOrder DEF Home
    <3>3. Outward(n, n)
      BY <1>3, OutwardOrder
    <3>4. n \in Home(v)'
      BY <1>1, <1>4, <3>1, <3>2, <3>3 DEF Home
    <3>5. QED
      BY <3>1, <3>4
  <2>3. QED
    BY <1>2, <1>5, <2>1, <2>2
<1>6. QED
  BY <1>5 DEF Housed

(* A value that lived under the inner boundary moves to the outer one,     *)
(* which is now the nearest: no boundary lay between the two.              *)
LEMMA HousedMerge ==
  ASSUME BoundaryInv, NEW inner \in Boundaries, NEW outer \in Boundaries, Merge(inner, outer)
  PROVE  Housed'
<1>1. /\ inner # outer
      /\ Boundaries' = Boundaries \ {inner}
      /\ posting'[outer] = posting[outer] \cup posting[inner]
      /\ \A c \in Boundaries \ {inner, outer} : posting'[c] = posting[c]
  BY MergeEffect DEF BoundaryInv
<1>2. /\ UNCHANGED <<dir, stored>> /\ quantized' = TRUE
      /\ Outward(outer, inner)
      /\ \A c \in Boundaries : Outward(c, inner) /\ c # inner => Outward(c, outer)
  BY DEF Merge
<1>3. dir \in Directions /\ Boundaries \subseteq Values
  BY DEF BoundaryInv, TypeOK
<1>4. \A c, v : Outward(c, v)' <=> Outward(c, v)
  BY <1>2 DEF Outward
<1>5. ASSUME NEW v \in Values, NEW id \in Ids, <<v, id>> \in stored'
      PROVE  \E b \in Boundaries' : b \in Home(v)' /\ id \in posting'[b] /\ (quantized' \/ b = v)
  <2>1. PICK b \in Boundaries : b \in Home(v) /\ id \in posting[b]
    BY <1>2, <1>5 DEF BoundaryInv, Housed
  <2>2. Outward(b, v) /\ \A c \in Boundaries : Outward(c, v) => Outward(c, b)
    BY <2>1 DEF Home
  <2>3. CASE b # inner
    <3>1. b \in Boundaries' /\ id \in posting'[b]
      BY <1>1, <2>1, <2>3
    <3>2. b \in Home(v)'
      BY <1>1, <1>4, <2>2, <3>1 DEF Home
    <3>3. QED
      BY <1>2, <3>1, <3>2
  <2>4. CASE b = inner
    <3>1. outer \in Boundaries' /\ id \in posting'[outer]
      BY <1>1, <2>1, <2>4
    <3>2. Outward(outer, v)
      BY <1>2, <1>3, <2>2, <2>4, OutwardOrder
    <3>3. \A c \in Boundaries' : Outward(c, v) => Outward(c, outer)
      BY <1>1, <1>2, <2>2, <2>4
    <3>4. outer \in Home(v)'
      BY <1>4, <3>1, <3>2, <3>3 DEF Home
    <3>5. QED
      BY <1>2, <3>1, <3>4
  <2>5. QED
    BY <2>3, <2>4
<1>6. QED
  BY <1>5 DEF Housed

(* The inductive invariant of the abstract index.                          *)
LEMMA BoundaryInvHolds == BoundarySpec => []BoundaryInv
<1>1. BoundaryInit => BoundaryInv
  BY DEF BoundaryInit, BoundaryInv, TypeOK, Housed, Faithful, Boundaries
<1>2. BoundaryInv /\ [BoundaryNext]_boundaryVars => BoundaryInv'
  <2> SUFFICES ASSUME BoundaryInv, [BoundaryNext]_boundaryVars  PROVE BoundaryInv'
    OBVIOUS
  <2>1. TypeOK' /\ Faithful'
    BY TypeStep, FaithfulStep DEF BoundaryInv
  <2>2. Housed'
    <3>1. CASE Publish
      BY <3>1 DEF Publish, BoundaryInv, Housed, Home, Outward, Boundaries
    <3>2. CASE UNCHANGED boundaryVars
      BY <3>2 DEF boundaryVars, BoundaryInv, Housed, Home, Outward, Boundaries
    <3>3. QED
      BY <3>1, <3>2, HousedStore, HousedMerge DEF BoundaryNext
  <2>3. QED
    BY <2>1, <2>2 DEF BoundaryInv
<1>3. QED
  BY <1>1, <1>2, PTL DEF BoundarySpec

(* The parts of the index keep their types.                                *)
THEOREM BoundaryTypeCorrect == BoundarySpec => []TypeOK
BY BoundaryInvHolds, PTL DEF BoundaryInv

(* Every stored value is kept under the nearest boundary outward of it.    *)
THEOREM HousedHolds == BoundarySpec => []Housed
BY BoundaryInvHolds, PTL DEF BoundaryInv

(* No sequence of insertions and merges makes a query miss a rule it meets *)
(* (insertOrdered, rebuildOrderedBoundaries, walk).                        *)
THEOREM NoFalseNegativesHolds == BoundarySpec => []NoFalseNegatives
<1>1. BoundaryInv => NoFalseNegatives
  <2> SUFFICES ASSUME BoundaryInv, NEW q \in Values, NEW inclusive \in BOOLEAN,
                      NEW id \in Required(q, inclusive)
               PROVE  id \in Answer(q, inclusive)
    BY DEF NoFalseNegatives
  <2>1. PICK v \in Values : <<v, id>> \in stored /\ Covers(v, q, inclusive)
    BY DEF Required
  <2>2. id \in Ids
    BY DEF Required
  <2>3. PICK b \in Boundaries : Outward(b, v) /\ id \in posting[b]
    BY <2>1, <2>2 DEF BoundaryInv, Housed, Home
  <2>4. Covers(b, q, inclusive)
    BY <2>1, <2>3, CoversOutward DEF BoundaryInv, TypeOK
  <2>5. QED
    BY <2>3, <2>4 DEF Answer
<1>2. QED
  BY <1>1, BoundaryInvHolds, PTL

(* A quantized EQ looks in the one posting that holds every rule stored    *)
(* with the query's value (quantizedOrderedEquality).                      *)
THEOREM EqualityCompleteHolds == BoundarySpec => []EqualityComplete
<1>1. BoundaryInv => EqualityComplete
  <2> SUFFICES ASSUME BoundaryInv, NEW v \in Values, NEW id \in Ids, <<v, id>> \in stored
               PROVE  id \in EqualityAnswer(v)
    BY DEF EqualityComplete
  <2>1. PICK b \in Boundaries : b \in Home(v) /\ id \in posting[b] /\ (quantized \/ b = v)
    BY DEF BoundaryInv, Housed
  <2>2. QED
    BY <2>1 DEF EqualityAnswer
<1>2. QED
  BY <1>1, BoundaryInvHolds, PTL

(* An index that was never coarsened answers exactly.                      *)
THEOREM ExactUntilMergedHolds == BoundarySpec => []ExactUntilMerged
<1>1. BoundaryInv => ExactUntilMerged
  <2> SUFFICES ASSUME BoundaryInv, ~quantized, NEW q \in Values
               PROVE  /\ \A inclusive \in BOOLEAN : Answer(q, inclusive) \subseteq Required(q, inclusive)
                      /\ EqualityAnswer(q) \subseteq {id \in Ids : <<q, id>> \in stored}
    BY DEF ExactUntilMerged
  <2>1. \A b \in Boundaries : b \in Values /\ \A id \in posting[b] : id \in Ids /\ <<b, id>> \in stored
    BY DEF BoundaryInv, TypeOK, Faithful
  <2>2. QED
    BY <2>1 DEF Answer, Required, EqualityAnswer
<1>2. QED
  BY <1>1, BoundaryInvHolds, PTL

(* A step only adds to an answer.                                          *)
LEMMA AnswerGrows ==
  ASSUME BoundaryInv, BoundaryNext, NEW q \in Values, NEW inclusive \in BOOLEAN
  PROVE  Answer(q, inclusive) \subseteq Answer(q, inclusive)'
<1>1. dir' = dir
  BY DEF BoundaryNext, Store, Merge, Publish
<1>2. \A b : Covers(b, q, inclusive)' <=> Covers(b, q, inclusive)
  BY <1>1 DEF Covers, Outward
<1>3. SUFFICES ASSUME NEW b \in Boundaries, Covers(b, q, inclusive), NEW id \in posting[b]
               PROVE  \E c \in Boundaries' : Covers(c, q, inclusive) /\ id \in posting'[c]
  BY <1>2 DEF Answer
<1>4. CASE \E v \in Values, i \in Ids : Store(v, i)
  <2>1. PICK v \in Values, i \in Ids : Store(v, i)
    BY <1>4
  <2>2. b \in Boundaries' /\ posting[b] \subseteq posting'[b]
    BY <2>1, StoreEffect DEF BoundaryInv
  <2>3. QED
    BY <1>3, <2>2
<1>5. CASE \E inner, outer \in Boundaries : Merge(inner, outer)
  <2>1. PICK inner \in Boundaries, outer \in Boundaries : Merge(inner, outer)
    BY <1>5
  <2>2. /\ inner # outer /\ Boundaries' = Boundaries \ {inner}
        /\ posting'[outer] = posting[outer] \cup posting[inner]
        /\ \A c \in Boundaries \ {inner, outer} : posting'[c] = posting[c]
    BY <2>1, MergeEffect DEF BoundaryInv
  <2>3. CASE b # inner
    BY <1>3, <2>2, <2>3
  <2>4. CASE b = inner
    <3>1. Outward(outer, b) /\ dir \in Directions /\ Boundaries \subseteq Values
      BY <2>1, <2>4 DEF Merge, BoundaryInv, TypeOK
    <3>2. Covers(outer, q, inclusive)
      BY <1>3, <3>1, CoversOutward
    <3>3. QED
      BY <1>3, <2>2, <2>4, <3>2
  <2>5. QED
    BY <2>3, <2>4
<1>6. CASE Publish
  BY <1>3, <1>6 DEF Publish, Boundaries
<1>7. QED
  BY <1>4, <1>5, <1>6 DEF BoundaryNext

(* No build step takes a rule out of any answer, and publication alters no *)
(* answer at all.                                                          *)
THEOREM AnswersGrowHolds == BoundarySpec => AnswersGrow
<1>1. ASSUME BoundaryInv, [BoundaryNext]_boundaryVars
      PROVE  [/\ \A q \in Values, inclusive \in BOOLEAN :
                   Answer(q, inclusive) \subseteq Answer(q, inclusive)'
              /\ published' # published => posting' = posting]_boundaryVars
  <2>1. CASE BoundaryNext
    <3>1. published' # published => posting' = posting
      BY <2>1 DEF BoundaryNext, Store, Merge, Publish
    <3>2. QED
      BY <1>1, <2>1, <3>1, AnswerGrows
  <2>2. CASE UNCHANGED boundaryVars
    BY <2>2
  <2>3. QED
    BY <1>1, <2>1, <2>2
<1>2. QED
  BY <1>1, BoundaryInvHolds, PTL DEF BoundarySpec, AnswersGrow
-----------------------------------------------------------------------------
(* Least elements.                                                         *)

(* A set of naturals has a least element.                                  *)
LEMMA LeastNatural ==
  ASSUME NEW S, S \subseteq Nat, S # {}
  PROVE  \E m \in S : \A n \in S : m =< n
<1> DEFINE R == {p \in Nat \X Nat : p[1] < p[2]}
<1>1. IsWellFoundedOn(R, Nat)
  <2>1. IsWellFoundedOn(OpToRel(<, Nat), Nat)
    BY NatLessThanWellFounded
  <2> QED BY <2>1 DEF OpToRel
<1>2. PICK m \in S : \A n \in S : <<n, m>> \notin R
  BY <1>1, WFMin
<1>3. ASSUME NEW n \in S PROVE m =< n
  <2>1. <<n, m>> \notin R /\ <<n, m>> \in Nat \X Nat
    BY <1>2
  <2>2. ~ n < m
    BY <2>1
  <2> QED BY <2>2
<1> QED BY <1>3

(* Strong induction over an interval of naturals, for a set of them.       *)
LEMMA StrongInduction ==
  ASSUME NEW n \in Nat, NEW S,
         \A b \in 0..n : (\A c \in 0..(b - 1) : c \in S) => b \in S
  PROVE  \A b \in 0..n : b \in S
<1> DEFINE bad == {b \in 0..n : b \notin S}
<1> SUFFICES ASSUME bad # {} PROVE FALSE
  OBVIOUS
<1>1. PICK m \in bad : \A c \in bad : m =< c
  <2>1. bad \subseteq Nat
    OBVIOUS
  <2> HIDE DEF bad
  <2> QED BY <2>1, LeastNatural
<1>2. ASSUME NEW c \in 0..(m - 1) PROVE c \in S
  <2>1. c \in 0..n /\ ~ m =< c
    BY <1>1
  <2> QED BY <1>1, <2>1
<1> QED BY <1>1, <1>2

-----------------------------------------------------------------------------
(* Sums over finite sets.  SumFunctionOnSet is a recursive function whose  *)
(* existence is proved first; what it computes follows by considering a    *)
(* least set on which a claim would fail.                                  *)

(* A family of subsets of a finite set has a minimal member.               *)
LEMMA LeastSubset ==
  ASSUME NEW S, IsFiniteSet(S), NEW F, F \subseteq SUBSET S, F # {}
  PROVE  \E T \in F : \A U \in F : U \subseteq T => U = T
<1>1. IsWellFoundedOn(StrictSubsetOrdering(S), SUBSET S)
  BY FS_StrictSubsetOrderingWellFounded, FS_FiniteSubsetsOfFinite
<1>2. PICK T \in F : \A U \in F : <<U, T>> \notin StrictSubsetOrdering(S)
  BY <1>1, WFMin
<1>3. ASSUME NEW U \in F, U \subseteq T PROVE U = T
  BY <1>2, <1>3 DEF StrictSubsetOrdering
<1> QED BY <1>3

(* The element SumFunctionOnSet takes out of s next, and its recursion.    *)
Pick(s) == CHOOSE x \in s : TRUE
SumFold(f, S, g) ==
  g = [s \in SUBSET S |-> IF s = {} THEN 0 ELSE f[Pick(s)] + g[s \ {Pick(s)}]]

LEMMA PickIn == \A s : s # {} => Pick(s) \in s
BY DEF Pick

LEMMA SumFoldAt ==
  ASSUME NEW f, NEW S, NEW g, SumFold(f, S, g), NEW s \in SUBSET S
  PROVE  g[s] = IF s = {} THEN 0 ELSE f[Pick(s)] + g[s \ {Pick(s)}]
<1>1. g = [t \in SUBSET S |-> IF t = {} THEN 0 ELSE f[Pick(t)] + g[t \ {Pick(t)}]]
  BY DEF SumFold
<1> QED BY <1>1

(* A sum over a finite set does not depend on the order of its terms.      *)
LEMMA SumFoldUnique ==
  ASSUME NEW f, NEW S, IsFiniteSet(S), NEW g, NEW h, SumFold(f, S, g), SumFold(f, S, h)
  PROVE  g = h
<1> DEFINE F == {s \in SUBSET S : g[s] # h[s]}
<1>1. CASE F = {}
  <2>1. \A s \in SUBSET S : g[s] = h[s]
    BY <1>1
  <2>2. g = [s \in SUBSET S |-> g[s]] /\ h = [s \in SUBSET S |-> h[s]]
    BY DEF SumFold
  <2> QED BY <2>1, <2>2
<1>2. CASE F # {}
  <2>0. F \subseteq SUBSET S
    OBVIOUS
  <2>1. PICK s \in F : \A u \in F : u \subseteq s => u = s
    <3> HIDE DEF F
    <3> QED BY <1>2, <2>0, LeastSubset
  <2>2. s \in SUBSET S /\ s # {}
    BY <2>1, SumFoldAt
  <2>3. s \ {Pick(s)} \in SUBSET S /\ s \ {Pick(s)} \notin F
    BY <2>1, <2>2, PickIn
  <2>4. g[s \ {Pick(s)}] = h[s \ {Pick(s)}]
    BY <2>3
  <2>5. g[s] = f[Pick(s)] + g[s \ {Pick(s)}]
    BY <2>2, SumFoldAt
  <2>6. h[s] = f[Pick(s)] + h[s \ {Pick(s)}]
    BY <2>2, SumFoldAt
  <2> QED BY <2>1, <2>4, <2>5, <2>6
<1> QED BY <1>1, <1>2

LEMMA SumFoldRestrict ==
  ASSUME NEW f, NEW S, NEW T \in SUBSET S, NEW g, SumFold(f, S, g)
  PROVE  SumFold(f, T, [s \in SUBSET T |-> g[s]])
<1> DEFINE h == [s \in SUBSET T |-> g[s]]
<1>1. ASSUME NEW s \in SUBSET T
      PROVE  h[s] = IF s = {} THEN 0 ELSE f[Pick(s)] + h[s \ {Pick(s)}]
  <2>1. s \in SUBSET S /\ s \ {Pick(s)} \in SUBSET T
    OBVIOUS
  <2>2. g[s] = IF s = {} THEN 0 ELSE f[Pick(s)] + g[s \ {Pick(s)}]
    BY <2>1, SumFoldAt
  <2>3. h[s] = g[s] /\ h[s \ {Pick(s)}] = g[s \ {Pick(s)}]
    BY <2>1
  <2> QED BY <2>2, <2>3
<1>2. h = [s \in SUBSET T |-> h[s]]
  OBVIOUS
<1> HIDE DEF h
<1>3. h = [s \in SUBSET T |-> IF s = {} THEN 0 ELSE f[Pick(s)] + h[s \ {Pick(s)}]]
  BY <1>1, <1>2
<1> QED BY <1>3 DEF SumFold, h

LEMMA SumFoldExists ==
  ASSUME NEW f, NEW S, IsFiniteSet(S)
  PROVE  \E g : SumFold(f, S, g)
<1> DEFINE F == {T \in SUBSET S : ~ \E g : SumFold(f, T, g)}
<1> SUFFICES ASSUME F # {} PROVE FALSE
  OBVIOUS
<1>0. F \subseteq SUBSET S
  OBVIOUS
<1>1. PICK T \in F : \A U \in F : U \subseteq T => U = T
  <2> HIDE DEF F
  <2> QED BY <1>0, LeastSubset
<1> DEFINE G(U) == CHOOSE g : SumFold(f, U, g)
           h == [s \in SUBSET T |-> IF s = T THEN IF s = {} THEN 0 ELSE f[Pick(s)] + G(s \ {Pick(s)})[s \ {Pick(s)}]
                                    ELSE G(s)[s]]
<1>2. ASSUME NEW U \in SUBSET T, U # T PROVE SumFold(f, U, G(U))
  <2>1. U \notin F /\ U \in SUBSET S
    BY <1>1, <1>2
  <2> QED BY <2>1
<1>3. ASSUME NEW s \in SUBSET T
      PROVE  h[s] = IF s = {} THEN 0 ELSE f[Pick(s)] + h[s \ {Pick(s)}]
  <2>1. CASE s = {}
    <3>1. CASE s = T
      BY <3>1, <2>1
    <3>2. CASE s # T
      <4>1. SumFold(f, s, G(s)) /\ s \in SUBSET s
        BY <3>2, <1>2
      <4>2. G(s)[s] = 0
        BY <4>1, <2>1, SumFoldAt
      <4>3. h[s] = G(s)[s]
        BY <3>2
      <4> QED BY <4>2, <4>3, <2>1
    <3> QED BY <3>1, <3>2
  <2>2. CASE s # {}
    <3> DEFINE u == s \ {Pick(s)}
    <3>1. u \in SUBSET T /\ u # T /\ u \in SUBSET s
      BY <2>2, PickIn
    <3>2. h[u] = G(u)[u]
      BY <3>1
    <3>3. CASE s = T
      BY <3>2, <3>3, <2>2
    <3>4. CASE s # T
      <4>1. SumFold(f, s, G(s))
        BY <3>4, <1>2
      <4>2. SumFold(f, u, [t \in SUBSET u |-> G(s)[t]])
        BY <4>1, <3>1, SumFoldRestrict
      <4>3. SumFold(f, u, G(u)) /\ IsFiniteSet(u)
        BY <3>1, <1>2, FS_Subset
      <4>4. G(u) = [t \in SUBSET u |-> G(s)[t]]
        BY <4>2, <4>3, SumFoldUnique
      <4>5. G(u)[u] = G(s)[u]
        <5> HIDE DEF G, u
        <5> QED BY <4>4
      <4>6. G(s)[s] = f[Pick(s)] + G(s)[u]
        BY <4>1, <2>2, SumFoldAt
      <4>7. h[s] = G(s)[s]
        BY <3>4
      <4> QED BY <3>2, <4>5, <4>6, <4>7, <2>2
    <3> QED BY <3>3, <3>4
  <2> QED BY <2>1, <2>2
<1>4. h = [s \in SUBSET T |-> h[s]]
  OBVIOUS
<1> HIDE DEF h
<1>5. h = [s \in SUBSET T |-> IF s = {} THEN 0 ELSE f[Pick(s)] + h[s \ {Pick(s)}]]
  BY <1>3, <1>4
<1>6. SumFold(f, T, h)
  BY <1>5 DEF SumFold
<1> QED BY <1>1, <1>6

LEMMA SumUnfolded ==
  ASSUME NEW f, NEW S, IsFiniteSet(S)
  PROVE  \E g : SumFold(f, S, g) /\ SumFunctionOnSet(f, S) = g[S]
<1> DEFINE iter[s \in SUBSET S] ==
             IF s = {} THEN 0 ELSE f[CHOOSE x \in s : TRUE] + iter[s \ {CHOOSE x \in s : TRUE}]
<1>1. iter = CHOOSE g : SumFold(f, S, g)
  BY DEF iter, SumFold, Pick
<1>2. SumFunctionOnSet(f, S) = iter[S]
  BY DEF SumFunctionOnSet, FoldFunctionOnSet, MapThenFoldSet
<1> HIDE DEF iter
<1> QED BY <1>1, <1>2, SumFoldExists

(* What the community module's sum computes, one term at a time.           *)
LEMMA SumStep ==
  ASSUME NEW f, NEW S, IsFiniteSet(S)
  PROVE  SumFunctionOnSet(f, S) =
           IF S = {} THEN 0 ELSE f[Pick(S)] + SumFunctionOnSet(f, S \ {Pick(S)})
<1> DEFINE T == S \ {Pick(S)}
<1>1. PICK g : SumFold(f, S, g) /\ SumFunctionOnSet(f, S) = g[S]
  BY SumUnfolded
<1>2. IsFiniteSet(T) /\ T \in SUBSET S
  BY FS_Subset
<1>3. PICK h : SumFold(f, T, h) /\ SumFunctionOnSet(f, T) = h[T]
  BY <1>2, SumUnfolded
<1>4. h = [s \in SUBSET T |-> g[s]]
  <2> HIDE DEF T
  <2>1. SumFold(f, T, [s \in SUBSET T |-> g[s]])
    BY <1>1, <1>2, SumFoldRestrict
  <2> DEFINE r == [s \in SUBSET T |-> g[s]]
  <2>2. SumFold(f, T, r)
    BY <2>1
  <2> HIDE DEF r
  <2>3. h = r
    BY <2>2, <1>2, <1>3, SumFoldUnique
  <2> QED BY <2>3 DEF r
<1>5. h[T] = g[T]
  BY <1>4
<1>6. g[S] = IF S = {} THEN 0 ELSE f[Pick(S)] + g[T]
  BY <1>1, SumFoldAt
<1> QED BY <1>1, <1>3, <1>5, <1>6

(* A sum of naturals is a natural.                                         *)
LEMMA SumType ==
  ASSUME NEW W, IsFiniteSet(W), NEW f \in [W -> Nat]
  PROVE  \A S \in SUBSET W : SumFunctionOnSet(f, S) \in Nat
<1> DEFINE F == {S \in SUBSET W : SumFunctionOnSet(f, S) \notin Nat}
<1> SUFFICES ASSUME F # {} PROVE FALSE
  OBVIOUS
<1>1. F \subseteq SUBSET W
  OBVIOUS
<1>2. PICK S \in F : \A U \in F : U \subseteq S => U = S
  <2> HIDE DEF F
  <2> QED BY <1>1, LeastSubset
<1>3. S \in SUBSET W /\ IsFiniteSet(S)
  BY <1>2, FS_Subset
<1>4. SumFunctionOnSet(f, S) =
        IF S = {} THEN 0 ELSE f[Pick(S)] + SumFunctionOnSet(f, S \ {Pick(S)})
  BY <1>3, SumStep
<1>5. S # {}
  BY <1>2, <1>4
<1>6. Pick(S) \in S /\ S \ {Pick(S)} \notin F
  BY <1>2, <1>3, <1>5, PickIn
<1>7. f[Pick(S)] \in Nat /\ SumFunctionOnSet(f, S \ {Pick(S)}) \in Nat
  BY <1>3, <1>6
<1> QED BY <1>2, <1>4, <1>5, <1>7

(* A sum depends only on the values it adds.                               *)
LEMMA SumCongruent ==
  ASSUME NEW S, IsFiniteSet(S), NEW f, NEW h, \A x \in S : f[x] = h[x]
  PROVE  SumFunctionOnSet(f, S) = SumFunctionOnSet(h, S)
<1>1. PICK u : SumFold(f, S, u) /\ SumFunctionOnSet(f, S) = u[S]
  BY SumUnfolded
<1>2. PICK v : SumFold(h, S, v) /\ SumFunctionOnSet(h, S) = v[S]
  BY SumUnfolded
<1>3. \A s \in SUBSET S : s # {} => f[Pick(s)] = h[Pick(s)]
  BY PickIn
<1>4. u = [s \in SUBSET S |-> IF s = {} THEN 0 ELSE f[Pick(s)] + u[s \ {Pick(s)}]]
  BY <1>1 DEF SumFold
<1>5. u = [s \in SUBSET S |-> IF s = {} THEN 0 ELSE h[Pick(s)] + u[s \ {Pick(s)}]]
  BY <1>3, <1>4
<1>6. SumFold(h, S, u)
  BY <1>5 DEF SumFold
<1> QED BY <1>1, <1>2, <1>6, SumFoldUnique

(* Any element may be added last.                                          *)
LEMMA SumWithout ==
  ASSUME NEW W, IsFiniteSet(W), NEW f \in [W -> Nat]
  PROVE  \A S \in SUBSET W : \A x \in S :
           SumFunctionOnSet(f, S) = f[x] + SumFunctionOnSet(f, S \ {x})
<1> DEFINE AnyLast(S) == \A x \in S : SumFunctionOnSet(f, S) = f[x] + SumFunctionOnSet(f, S \ {x})
           F == {S \in SUBSET W : ~AnyLast(S)}
<1> SUFFICES ASSUME F # {} PROVE FALSE
  OBVIOUS
<1>1. F \subseteq SUBSET W
  OBVIOUS
<1>2. PICK S \in F : \A U \in F : U \subseteq S => U = S
  <2> HIDE DEF F
  <2> QED BY <1>1, LeastSubset
<1>3. PICK x \in S : SumFunctionOnSet(f, S) # f[x] + SumFunctionOnSet(f, S \ {x})
  BY <1>2
<1> DEFINE p == Pick(S)
           T == S \ {p}
           X == S \ {x}
           B == S \ {p, x}
<1>4. S \in SUBSET W /\ IsFiniteSet(S) /\ p \in S
  BY <1>2, <1>3, FS_Subset, PickIn
<1>5. SumFunctionOnSet(f, S) = f[p] + SumFunctionOnSet(f, T)
  BY <1>3, <1>4, SumStep
<1>6. p # x
  BY <1>3, <1>5
<1>7. /\ x \in T /\ p \in X /\ T \in SUBSET W /\ X \in SUBSET W
      /\ T \ {x} = B /\ X \ {p} = B /\ B \in SUBSET W
  BY <1>3, <1>4, <1>6
<1>8. AnyLast(T) /\ AnyLast(X)
  <2>1. T \notin F /\ X \notin F
    BY <1>2, <1>3, <1>4
  <2> QED BY <1>7, <2>1
<1>9. /\ SumFunctionOnSet(f, T) = f[x] + SumFunctionOnSet(f, B)
      /\ SumFunctionOnSet(f, X) = f[p] + SumFunctionOnSet(f, B)
  BY <1>7, <1>8
<1>10. f[p] \in Nat /\ f[x] \in Nat /\ SumFunctionOnSet(f, B) \in Nat
  BY <1>3, <1>4, <1>7, SumType
<1>11. SumFunctionOnSet(f, S) # f[x] + SumFunctionOnSet(f, X)
  BY <1>3
<1> HIDE DEF p, T, X, B
<1> QED BY <1>5, <1>9, <1>10, <1>11

(* Part of a sum of naturals is at most the sum.                           *)
LEMMA SumPart ==
  ASSUME NEW W, IsFiniteSet(W), NEW f \in [W -> Nat], NEW S \in SUBSET W
  PROVE  SumFunctionOnSet(f, S) =< SumFunctionOnSet(f, W)
<1> DEFINE Larger(T) == SumFunctionOnSet(f, S) =< SumFunctionOnSet(f, T)
           F == {T \in SUBSET W : S \subseteq T /\ ~Larger(T)}
<1> SUFFICES ASSUME F # {} PROVE FALSE
  OBVIOUS
<1>1. F \subseteq SUBSET W
  OBVIOUS
<1>2. PICK T \in F : \A U \in F : U \subseteq T => U = T
  <2> HIDE DEF F
  <2> QED BY <1>1, LeastSubset
<1>3. T \in SUBSET W /\ S \subseteq T /\ ~Larger(T)
  BY <1>2
<1>4. SumFunctionOnSet(f, S) \in Nat
  BY SumType
<1>5. S # T
  BY <1>3, <1>4
<1>6. PICK x : x \in T /\ x \notin S
  BY <1>3, <1>5
<1>7. T \ {x} \in SUBSET W /\ S \subseteq T \ {x}
  BY <1>3, <1>6
<1>8. Larger(T \ {x})
  <2>1. T \ {x} \notin F
    BY <1>2, <1>6
  <2> QED BY <1>7, <2>1
<1>9. SumFunctionOnSet(f, T) = f[x] + SumFunctionOnSet(f, T \ {x})
  BY <1>3, <1>6, SumWithout
<1>10. f[x] \in Nat /\ SumFunctionOnSet(f, T \ {x}) \in Nat
  BY <1>3, <1>6, <1>7, SumType
<1> QED BY <1>3, <1>4, <1>8, <1>9, <1>10

(* A sum over fewer terms is not greater.                                  *)
LEMMA SumWithin ==
  ASSUME NEW W, IsFiniteSet(W), NEW f \in [W -> Nat], NEW S \in SUBSET W,
         NEW g, DOMAIN g = S, \A x \in S : g[x] = f[x]
  PROVE  SumFunction(g) =< SumFunction(f)
<1>1. SumFunctionOnSet(g, S) = SumFunctionOnSet(f, S)
  BY FS_Subset, SumCongruent
<1>2. SumFunctionOnSet(f, S) =< SumFunctionOnSet(f, W)
  BY SumPart
<1> QED BY <1>1, <1>2 DEF SumFunction

-----------------------------------------------------------------------------
(* Least and greatest elements, and sequences with a part replaced.        *)

(* The least element of a set of naturals.                                 *)
LEMMA MinProps ==
  ASSUME NEW S, S \subseteq Nat, S # {}
  PROVE  Min(S) \in S /\ \A n \in S : Min(S) =< n
<1>1. \E m \in S : \A n \in S : m =< n
  BY LeastNatural
<1> QED BY <1>1 DEF Min

(* The greatest element of a bounded set of naturals.                      *)
LEMMA MaxProps ==
  ASSUME NEW n \in Nat, NEW S, S \subseteq 0..n, S # {}
  PROVE  Max(S) \in S /\ \A m \in S : m =< Max(S)
<1> DEFINE T == {n - m : m \in S}
<1>0. \A m \in S : m \in Int /\ 0 =< m /\ m =< n /\ n - m \in Nat
  OBVIOUS
<1>1. T \subseteq Nat /\ T # {}
  BY <1>0
<1>2. PICK k \in T : \A m \in T : k =< m
  <2> HIDE DEF T
  <2> QED BY <1>1, LeastNatural
<1>3. PICK x \in S : k = n - x
  BY <1>2
<1>4. \A m \in S : x >= m
  <2> TAKE m \in S
  <2>1. k =< n - m
    BY <1>2
  <2>2. x \in 0..n /\ m \in 0..n
    BY <1>3
  <2> QED BY <1>3, <2>1, <2>2
<1>5. \A m \in S : m \in Int
  OBVIOUS
<1>6. \E y \in S : \A m \in S : y >= m
  BY <1>4
<1>7. Max(S) \in S /\ \A m \in S : Max(S) >= m
  BY <1>6 DEF Max
<1> QED BY <1>5, <1>7

(* The range and the domain of a sequence.                                 *)
LEMMA ItemsOfSeq ==
  ASSUME NEW S, NEW s \in Seq(S)
  PROVE  Range(s) = {s[i] : i \in 1..Len(s)} /\ DOMAIN s = 1..Len(s)
<1>1. DOMAIN s = 1..Len(s)
  OBVIOUS
<1>2. \A D : DOMAIN s = D => \A y : y \in Range(s) <=> \E i \in D : y = s[i]
  BY DEF Range
<1>3. \A y : y \in Range(s) <=> \E i \in 1..Len(s) : y = s[i]
  BY <1>1, <1>2
<1>4. Range(s) = {s[i] : i \in 1..Len(s)}
  BY <1>3
<1> QED BY <1>1, <1>4

IsSplice(new, s, mid, lo, hi) ==
  /\ Len(new) = lo - 1 + Len(mid) + Len(s) - hi
  /\ \A i \in 1..(lo - 1) : new[i] = s[i]
  /\ \A i \in 1..Len(mid) : new[lo - 1 + i] = mid[i]
  /\ \A i \in (hi + 1)..Len(s) : new[i + lo - 1 + Len(mid) - hi] = s[i]
  /\ \A k \in 1..Len(new) :
       IF k < lo THEN new[k] = s[k]
       ELSE IF k < lo + Len(mid) THEN new[k] = mid[k - lo + 1]
       ELSE new[k] = s[k - lo + 1 - Len(mid) + hi]

(* A sequence with the elements lo..hi replaced by others.                 *)
LEMMA Spliced ==
  ASSUME NEW S, NEW s \in Seq(S), NEW mid \in Seq(S),
         NEW lo \in 1..(Len(s) + 1), NEW hi \in (lo - 1)..Len(s)
  PROVE  /\ SubSeq(s, 1, lo - 1) \o mid \o SubSeq(s, hi + 1, Len(s)) \in Seq(S)
         /\ IsSplice(SubSeq(s, 1, lo - 1) \o mid \o SubSeq(s, hi + 1, Len(s)), s, mid, lo, hi)
<1> DEFINE a == SubSeq(s, 1, lo - 1)
           c == SubSeq(s, hi + 1, Len(s))
           ab == a \o mid
           new == ab \o c
<1>0. lo \in Nat /\ hi \in Nat /\ lo >= 1 /\ lo =< Len(s) + 1 /\ hi =< Len(s) /\ hi >= lo - 1
      /\ Len(s) \in Nat /\ Len(mid) \in Nat
  OBVIOUS
<1>1. a \in Seq(S) /\ Len(a) = lo - 1 /\ \A i \in 1..(lo - 1) : a[i] = s[i]
  BY <1>0
<1>2. c \in Seq(S) /\ Len(c) = Len(s) - hi /\ \A i \in 1..(Len(s) - hi) : c[i] = s[i + hi]
  BY <1>0, SMTT(30)
<1> HIDE DEF a, c
<1>3. ab \in Seq(S) /\ Len(ab) = lo - 1 + Len(mid)
  BY <1>0, <1>1, SMTT(30)
<1>4. /\ \A i \in 1..(lo - 1) : ab[i] = s[i]
      /\ \A i \in lo..(lo - 1 + Len(mid)) : ab[i] = mid[i - lo + 1]
  BY <1>0, <1>1
<1> HIDE DEF ab
<1>5. new \in Seq(S) /\ Len(new) = lo - 1 + Len(mid) + Len(s) - hi
  <2>0. ab \in Seq(S) /\ c \in Seq(S)
    BY <1>2, <1>3
  <2>1. new \in Seq(S) /\ Len(new) = Len(ab) + Len(c)
    BY <2>0
  <2> HIDE DEF new
  <2> QED BY <1>0, <1>2, <1>3, <2>1
<1>6. /\ \A i \in 1..(lo - 1 + Len(mid)) : new[i] = ab[i]
      /\ \A i \in (lo + Len(mid))..Len(new) : new[i] = c[i - (lo - 1 + Len(mid))]
  BY <1>0, <1>2, <1>3
<1> HIDE DEF new
<1>7. \A i \in 1..(lo - 1) : new[i] = s[i]
  BY <1>0, <1>4, <1>6
<1>8. \A i \in lo..(lo - 1 + Len(mid)) : new[i] = mid[i - lo + 1]
  BY <1>0, <1>4, <1>6
<1>9. \A i \in (lo + Len(mid))..Len(new) : new[i] = s[i - lo + 1 - Len(mid) + hi]
  <2> TAKE i \in (lo + Len(mid))..Len(new)
  <2>1. i - (lo - 1 + Len(mid)) \in 1..(Len(s) - hi)
    BY <1>0, <1>5
  <2>2. new[i] = s[i - (lo - 1 + Len(mid)) + hi]
    BY <1>2, <1>6, <2>1
  <2> QED BY <1>0, <2>2
<1>10. \A i \in 1..Len(mid) : new[lo - 1 + i] = mid[i]
  <2> TAKE i \in 1..Len(mid)
  <2>1. lo - 1 + i \in lo..(lo - 1 + Len(mid)) /\ lo - 1 + i - lo + 1 = i
    BY <1>0
  <2> QED BY <1>8, <2>1
<1>11. \A i \in (hi + 1)..Len(s) : new[i + lo - 1 + Len(mid) - hi] = s[i]
  <2> TAKE i \in (hi + 1)..Len(s)
  <2> DEFINE k == i + lo - 1 + Len(mid) - hi
  <2>1. k \in (lo + Len(mid))..Len(new) /\ k - lo + 1 - Len(mid) + hi = i
    BY <1>0, <1>5
  <2> HIDE DEF k
  <2>2. new[k] = s[i]
    BY <1>9, <2>1
  <2> QED BY <2>2 DEF k
<1>12. \A k \in 1..Len(new) :
                  IF k < lo THEN new[k] = s[k]
                  ELSE IF k < lo + Len(mid) THEN new[k] = mid[k - lo + 1]
                  ELSE new[k] = s[k - lo + 1 - Len(mid) + hi]
  BY <1>0, <1>5, <1>7, <1>8, <1>9
<1>13. new = SubSeq(s, 1, lo - 1) \o mid \o SubSeq(s, hi + 1, Len(s))
  BY DEF new, ab, a, c
<1>14. IsSplice(new, s, mid, lo, hi)
  BY <1>5, <1>7, <1>10, <1>11, <1>12 DEF IsSplice
<1> QED BY <1>5, <1>13, <1>14

-----------------------------------------------------------------------------
(* The shape of items and blocks.                                          *)

ItemSet == [value : Values, bits : SUBSET Ids]
BlockSet == [items : Seq(ItemSet), bits : SUBSET Ids, alias : Values \cup {NoAlias}]

Ascending(items) == \A i, j \in 1..Len(items) : i < j => items[i].value < items[j].value

(* Every value of one set of items is below every value of another.        *)
Precede(X, Y) == \A x \in X, y \in Y : x.value < y.value

ShapeBlock(b) ==
  /\ b \in BlockSet
  /\ Ascending(b.items)
  /\ Len(b.items) \in 1..(2 * BlockSize)
  /\ b.alias # NoAlias => Len(b.items) = 1 /\ b.items[1].value = b.alias

GoodBlock(b) == ShapeBlock(b) /\ b.bits = Postings(b.items)

Shape(bs) ==
  /\ bs \in Seq(BlockSet)
  /\ \A i \in 1..Len(bs) : ShapeBlock(bs[i])
  /\ \A i, j \in 1..Len(bs) : i < j => Precede(Range(bs[i].items), Range(bs[j].items))

Good(bs) == Shape(bs) /\ \A i \in 1..Len(bs) : GoodBlock(bs[i])

Kept(bs) == UNION {Range(bs[i].items) : i \in 1..Len(bs)}

(* One item per value.                                                     *)
Single(K) == \A x, y \in K : x.value = y.value => x = y

LEMMA ValuesInt == \A v \in Values : v \in Int
BY ValueAssumption

(* The parts of an item.                                                   *)
LEMMA ItemProps ==
  \A x \in ItemSet : x.value \in Values /\ x.value \in Int /\ x.bits \in SUBSET Ids /\ x.bits \subseteq Ids
BY ValuesInt DEF ItemSet

(* The items of a well-formed block.                                       *)
LEMMA BlockItems ==
  ASSUME NEW b, ShapeBlock(b)
  PROVE  /\ b.items \in Seq(ItemSet) /\ Len(b.items) \in Nat /\ Len(b.items) >= 1
         /\ DOMAIN b.items = 1..Len(b.items)
         /\ Range(b.items) = {b.items[i] : i \in 1..Len(b.items)}
         /\ \A i \in 1..Len(b.items) :
              b.items[i] \in ItemSet /\ b.items[i].value \in Values /\ b.items[i].value \in Int
              /\ b.items[i].bits \subseteq Ids
         /\ Range(b.items) \subseteq ItemSet
<1>1. b.items \in Seq(ItemSet) /\ Len(b.items) \in Nat /\ Len(b.items) >= 1
  BY OrderedAssumption DEF ShapeBlock, BlockSet
<1>2. \A i \in 1..Len(b.items) : b.items[i] \in ItemSet
  BY <1>1
<1>3. DOMAIN b.items = 1..Len(b.items) /\ Range(b.items) = {b.items[i] : i \in 1..Len(b.items)}
  <2> DEFINE s == b.items
  <2>1. s \in Seq(ItemSet)
    BY <1>1
  <2> HIDE DEF s
  <2>2. DOMAIN s = 1..Len(s) /\ Range(s) = {s[i] : i \in 1..Len(s)}
    BY <2>1, ItemsOfSeq
  <2> QED BY <2>2 DEF s
<1>4. Range(b.items) \subseteq ItemSet
  BY <1>2, <1>3
<1>5. \A i \in 1..Len(b.items) :
        b.items[i] \in ItemSet /\ b.items[i].value \in Values /\ b.items[i].value \in Int
        /\ b.items[i].bits \subseteq Ids
  BY <1>2, ItemProps
<1> QED BY <1>1, <1>3, <1>4, <1>5

(* The items kept in the blocks.                                           *)
LEMMA KeptItems ==
  ASSUME NEW bs, Shape(bs)
  PROVE  /\ Kept(bs) \subseteq ItemSet
         /\ \A x : x \in Kept(bs) <=>
                     \E i \in 1..Len(bs) : \E j \in 1..Len(bs[i].items) : x = bs[i].items[j]
<1>1. \A i \in 1..Len(bs) : /\ Range(bs[i].items) = {bs[i].items[j] : j \in 1..Len(bs[i].items)}
                            /\ Range(bs[i].items) \subseteq ItemSet
  BY BlockItems DEF Shape
<1>2. \A x : x \in Kept(bs) <=> \E i \in 1..Len(bs) : x \in Range(bs[i].items)
  BY DEF Kept
<1>3. \A x : x \in Kept(bs) <=>
                     \E i \in 1..Len(bs) : \E j \in 1..Len(bs[i].items) : x = bs[i].items[j]
  <2> TAKE x
  <2>1. \A i \in 1..Len(bs) : x \in Range(bs[i].items) <=> \E j \in 1..Len(bs[i].items) : x = bs[i].items[j]
    BY <1>1
  <2> QED BY <1>2, <2>1
<1>4. Kept(bs) \subseteq ItemSet
  BY <1>1, <1>2
<1> QED BY <1>3, <1>4

(* Within a sorted sequence a value belongs to one position.               *)
LEMMA AscendingOnce ==
  ASSUME NEW items \in Seq(ItemSet), Ascending(items), NEW i \in 1..Len(items),
         NEW j \in 1..Len(items), items[i].value = items[j].value
  PROVE  i = j
<1>0. items[i] \in ItemSet /\ items[j] \in ItemSet
  OBVIOUS
<1>1. items[i].value \in Int /\ items[j].value \in Int
  BY <1>0, ItemProps
<1>2. ~ i < j /\ ~ j < i
  BY <1>1 DEF Ascending
<1> QED BY <1>2

(* No value is kept twice.                                                 *)
LEMMA KeptSingle ==
  ASSUME NEW bs, Shape(bs)
  PROVE  Single(Kept(bs))
<1> SUFFICES ASSUME NEW x \in Kept(bs), NEW y \in Kept(bs), x.value = y.value
             PROVE  x = y
  BY DEF Single
<1>1. PICK i \in 1..Len(bs) : x \in Range(bs[i].items)
  BY DEF Kept
<1>2. PICK j \in 1..Len(bs) : y \in Range(bs[j].items)
  BY DEF Kept
<1>3. x.value \in Int
  BY KeptItems, ItemProps
<1>4. ~ i < j /\ ~ j < i
  BY <1>1, <1>2, <1>3 DEF Shape, Precede
<1>5. i = j
  BY <1>4
<1>6. ShapeBlock(bs[i])
  BY DEF Shape
<1>11. Range(bs[i].items) = {bs[i].items[k] : k \in 1..Len(bs[i].items)}
  BY <1>6, BlockItems
<1>7. PICK k \in 1..Len(bs[i].items) : x = bs[i].items[k]
  BY <1>1, <1>11
<1>10. PICK m \in 1..Len(bs[i].items) : y = bs[i].items[m]
  BY <1>2, <1>5, <1>11
<1>8. bs[i].items \in Seq(ItemSet) /\ Ascending(bs[i].items)
  BY <1>6 DEF ShapeBlock, BlockSet
<1>9. k = m
  BY <1>7, <1>8, <1>10, AscendingOnce
<1> QED BY <1>7, <1>9, <1>10

-----------------------------------------------------------------------------
(* Replacing some blocks of an index.                                      *)

Outside(bs, lo, hi) == UNION {Range(bs[i].items) : i \in {j \in 1..Len(bs) : j < lo \/ j > hi}}
Inside(bs, lo, hi) == UNION {Range(bs[i].items) : i \in {j \in 1..Len(bs) : lo =< j /\ j =< hi}}

BlocksSpliced(new, bs, mid, lo, hi) ==
  /\ Shape(new)
  /\ Kept(new) = Outside(bs, lo, hi) \cup Kept(mid)
  /\ \A k \in 1..Len(new) :
       \/ \E i \in 1..Len(bs) : (i < lo \/ i > hi) /\ new[k] = bs[i]
       \/ \E m \in 1..Len(mid) : new[k] = mid[m]

BlockReplaced(new, bs, at, c) ==
  /\ Shape(new)
  /\ Len(new) = Len(bs) /\ new[at] = c
  /\ \A i \in 1..Len(bs) : i # at => new[i] = bs[i]
  /\ Kept(new) = Outside(bs, at, at) \cup Range(c.items)

(* Replacing blocks by others that lie between the rest keeps the layout.  *)
LEMMA ShapeSpliced ==
  ASSUME NEW bs, Shape(bs), NEW mid, Shape(mid),
         NEW lo \in 1..(Len(bs) + 1), NEW hi \in (lo - 1)..Len(bs),
         \A i \in 1..(lo - 1) : Precede(Range(bs[i].items), Kept(mid)),
         \A i \in (hi + 1)..Len(bs) : Precede(Kept(mid), Range(bs[i].items))
  PROVE  BlocksSpliced(SubSeq(bs, 1, lo - 1) \o mid \o SubSeq(bs, hi + 1, Len(bs)), bs, mid, lo, hi)
<1> DEFINE new == SubSeq(bs, 1, lo - 1) \o mid \o SubSeq(bs, hi + 1, Len(bs))
           M == Len(mid)
           N == Len(bs)
<1>0. bs \in Seq(BlockSet) /\ mid \in Seq(BlockSet) /\ N \in Nat /\ M \in Nat
      /\ lo \in Int /\ hi \in Int /\ 1 =< lo /\ lo =< N + 1 /\ lo - 1 =< hi /\ hi =< N
  BY DEF Shape
<1>1. /\ new \in Seq(BlockSet)
      /\ Len(new) = lo - 1 + M + N - hi
      /\ \A i \in 1..(lo - 1) : new[i] = bs[i]
      /\ \A i \in 1..M : new[lo - 1 + i] = mid[i]
      /\ \A i \in (hi + 1)..N : new[i + lo - 1 + M - hi] = bs[i]
      /\ \A k \in 1..Len(new) :
           IF k < lo THEN new[k] = bs[k]
           ELSE IF k < lo + M THEN new[k] = mid[k - lo + 1]
           ELSE new[k] = bs[k - lo + 1 - M + hi]
  <2>1. bs \in Seq(BlockSet) /\ mid \in Seq(BlockSet) /\ lo \in 1..(Len(bs) + 1) /\ hi \in (lo - 1)..Len(bs)
    BY <1>0
  <2>2. new \in Seq(BlockSet) /\ IsSplice(new, bs, mid, lo, hi)
    BY <2>1, Spliced
  <2> HIDE DEF new
  <2> QED BY <2>2 DEF IsSplice
<1> HIDE DEF new
(* Where a block of the new index comes from. *)
<1> DEFINE Old(k) == IF k < lo THEN k ELSE k - lo + 1 - M + hi
           Mid(k) == k - lo + 1
           IsMid(k) == lo =< k /\ k < lo + M
<1>2. ASSUME NEW k \in 1..Len(new), ~IsMid(k)
      PROVE  new[k] = bs[Old(k)] /\ Old(k) \in 1..N /\ (k < lo => Old(k) < lo)
             /\ (~ k < lo => Old(k) > hi)
  <2>1. CASE k < lo
    BY <2>1, <1>0, <1>1
  <2>2. CASE ~ k < lo
    <3>1. k >= lo + M /\ k =< lo - 1 + M + N - hi
      BY <2>2, <1>2, <1>0, <1>1
    <3> QED BY <3>1, <2>2, <1>0, <1>1
  <2> QED BY <2>1, <2>2
<1>3. ASSUME NEW k \in 1..Len(new), IsMid(k)
      PROVE  new[k] = mid[Mid(k)] /\ Mid(k) \in 1..M
  BY <1>3, <1>0, <1>1
<1>4. ASSUME NEW k \in 1..Len(new) PROVE ShapeBlock(new[k])
  <2>1. CASE IsMid(k)
    BY <1>3, <2>1 DEF Shape
  <2>2. CASE ~IsMid(k)
    BY <1>2, <2>2 DEF Shape
  <2> QED BY <2>1, <2>2
<1>5. ASSUME NEW k \in 1..Len(new), NEW l \in 1..Len(new), k < l
      PROVE  Precede(Range(new[k].items), Range(new[l].items))
  <2>1. CASE IsMid(k) /\ IsMid(l)
    <3>1. Mid(k) \in 1..M /\ Mid(l) \in 1..M /\ Mid(k) < Mid(l)
      BY <2>1, <1>0, <1>3, <1>5
    <3>2. new[k] = mid[Mid(k)] /\ new[l] = mid[Mid(l)]
      BY <2>1, <1>3
    <3> HIDE DEF Mid
    <3> QED BY <3>1, <3>2 DEF Shape
  <2>2. CASE ~IsMid(k) /\ ~IsMid(l)
    <3>1. Old(k) \in 1..N /\ Old(l) \in 1..N /\ new[k] = bs[Old(k)] /\ new[l] = bs[Old(l)]
      BY <2>2, <1>2
    <3>2. Old(k) < Old(l)
      <4>1. CASE k < lo /\ l < lo
        BY <4>1, <1>5
      <4>2. CASE k < lo /\ ~ l < lo
        <5>1. Old(k) < lo /\ Old(l) > hi
          BY <4>2, <1>2, <2>2
        <5> HIDE DEF Old
        <5> QED BY <5>1, <3>1, <1>0
      <4>3. CASE ~ k < lo
        BY <4>3, <1>5, <1>0
      <4> QED BY <4>1, <4>2, <4>3
    <3> HIDE DEF Old
    <3> QED BY <3>1, <3>2 DEF Shape
  <2>3. CASE ~IsMid(k) /\ IsMid(l)
    <3>1. k < lo /\ new[k] = bs[k] /\ k \in 1..(lo - 1)
      BY <2>3, <1>5, <1>0, <1>1
    <3>2. Range(new[l].items) \subseteq Kept(mid)
      BY <2>3, <1>3 DEF Kept
    <3>3. Precede(Range(bs[k].items), Kept(mid))
      BY <3>1
    <3> QED BY <3>1, <3>2, <3>3 DEF Precede
  <2>4. CASE IsMid(k) /\ ~IsMid(l)
    <3>1. ~ l < lo
      BY <2>4, <1>5, <1>0
    <3>2. new[l] = bs[Old(l)] /\ Old(l) \in 1..N /\ Old(l) > hi
      BY <2>4, <1>2, <3>1
    <3>3. Range(new[k].items) \subseteq Kept(mid)
      BY <2>4, <1>3 DEF Kept
    <3> HIDE DEF Old
    <3>4. Old(l) \in (hi + 1)..N
      BY <3>2, <1>0
    <3>5. Precede(Kept(mid), Range(bs[Old(l)].items))
      BY <3>4
    <3> QED BY <3>2, <3>3, <3>5 DEF Precede
  <2> QED BY <2>1, <2>2, <2>3, <2>4
<1>6. Shape(new)
  BY <1>1, <1>4, <1>5 DEF Shape
<1>7. ASSUME NEW x \in Kept(new) PROVE x \in Outside(bs, lo, hi) \cup Kept(mid)
  <2>1. PICK k \in 1..Len(new) : x \in Range(new[k].items)
    BY DEF Kept
  <2>2. CASE IsMid(k)
    BY <2>1, <2>2, <1>3 DEF Kept
  <2>3. CASE ~IsMid(k)
    <3>1. new[k] = bs[Old(k)] /\ Old(k) \in 1..N /\ (Old(k) < lo \/ Old(k) > hi)
      BY <1>2, <2>3
    <3> HIDE DEF Old
    <3> QED BY <2>1, <3>1 DEF Outside
  <2> QED BY <2>2, <2>3
<1>8. ASSUME NEW x \in Outside(bs, lo, hi) PROVE x \in Kept(new)
  <2>1. PICK i \in 1..N : (i < lo \/ i > hi) /\ x \in Range(bs[i].items)
    BY DEF Outside
  <2>2. CASE i < lo
    <3>1. i \in 1..(lo - 1) /\ i \in 1..Len(new)
      BY <2>2, <1>0, <1>1
    <3> QED BY <2>1, <3>1, <1>1 DEF Kept
  <2>3. CASE i > hi
    <3> DEFINE k == i + lo - 1 + M - hi
    <3>1. i \in (hi + 1)..N /\ k \in 1..Len(new)
      BY <2>3, <1>0, <1>1
    <3>2. new[k] = bs[i]
      BY <3>1, <1>1
    <3> HIDE DEF k
    <3> QED BY <2>1, <3>1, <3>2 DEF Kept
  <2> QED BY <2>1, <2>2, <2>3
<1>9. ASSUME NEW x \in Kept(mid) PROVE x \in Kept(new)
  <2>1. PICK m \in 1..M : x \in Range(mid[m].items)
    BY DEF Kept
  <2> DEFINE k == lo - 1 + m
  <2>2. k \in 1..Len(new) /\ new[k] = mid[m]
    BY <1>0, <1>1
  <2> HIDE DEF k
  <2> QED BY <2>1, <2>2 DEF Kept
<1>10. Kept(new) = Outside(bs, lo, hi) \cup Kept(mid)
  BY <1>7, <1>8, <1>9
<1>11. ASSUME NEW k \in 1..Len(new)
       PROVE  \/ \E i \in 1..Len(bs) : (i < lo \/ i > hi) /\ new[k] = bs[i]
              \/ \E m \in 1..Len(mid) : new[k] = mid[m]
  <2>1. CASE IsMid(k)
    BY <1>3, <2>1
  <2>2. CASE ~IsMid(k)
    <3>1. new[k] = bs[Old(k)] /\ Old(k) \in 1..N /\ (Old(k) < lo \/ Old(k) > hi)
      BY <1>2, <2>2
    <3> HIDE DEF Old
    <3> QED BY <3>1
  <2> QED BY <2>1, <2>2
<1>13. BlocksSpliced(new, bs, mid, lo, hi)
  BY <1>6, <1>10, <1>11 DEF BlocksSpliced
<1> QED BY <1>13 DEF new

(* The items in and outside a range of blocks.                             *)
LEMMA KeptParts ==
  ASSUME NEW bs, NEW lo \in Int, NEW hi \in Int, Len(bs) \in Nat
  PROVE  Kept(bs) = Outside(bs, lo, hi) \cup Inside(bs, lo, hi)
<1>1. \A i \in 1..Len(bs) : (i < lo \/ i > hi) \/ (lo =< i /\ i =< hi)
  OBVIOUS
<1> QED BY <1>1 DEF Kept, Outside, Inside

(* So does replacing one block by another with no new value.               *)
LEMMA ShapeReplaced ==
  ASSUME NEW bs, Shape(bs), NEW at \in 1..Len(bs), NEW c, ShapeBlock(c),
         \A x \in Range(c.items) : \E y \in Range(bs[at].items) : y.value = x.value
  PROVE  BlockReplaced([bs EXCEPT ![at] = c], bs, at, c)
<1> DEFINE new == [bs EXCEPT ![at] = c]
<1>0. bs \in Seq(BlockSet) /\ c \in BlockSet /\ Len(bs) \in Nat
  BY DEF Shape, ShapeBlock
<1>1. new \in Seq(BlockSet) /\ Len(new) = Len(bs) /\ new[at] = c
      /\ \A i \in 1..Len(bs) : i # at => new[i] = bs[i]
  BY <1>0
<1> HIDE DEF new
<1>2. \A i \in 1..Len(bs) : ShapeBlock(new[i])
  BY <1>1 DEF Shape
<1>3. ASSUME NEW i \in 1..Len(bs), NEW j \in 1..Len(bs), i < j
      PROVE  Precede(Range(new[i].items), Range(new[j].items))
  <2>1. Precede(Range(bs[i].items), Range(bs[j].items))
    BY <1>3 DEF Shape
  <2>2. \A x \in Range(new[i].items) : \E y \in Range(bs[i].items) : y.value = x.value
    BY <1>1
  <2>3. \A x \in Range(new[j].items) : \E y \in Range(bs[j].items) : y.value = x.value
    BY <1>1
  <2> QED BY <2>1, <2>2, <2>3 DEF Precede
<1>4. Shape(new)
  BY <1>1, <1>2, <1>3 DEF Shape
<1>5. \A i \in 1..Len(bs) : i # at <=> (i < at \/ i > at)
  BY <1>0
<1>6. Kept(new) = Outside(bs, at, at) \cup Range(c.items)
  <2>1. \A x : x \in Kept(new) <=> \E i \in 1..Len(bs) : x \in Range(new[i].items)
    BY <1>1 DEF Kept
  <2>2. \A x : x \in Outside(bs, at, at) <=> \E i \in 1..Len(bs) : i # at /\ x \in Range(bs[i].items)
    BY <1>5 DEF Outside
  <2>3. \A x : x \in Kept(new) <=> x \in Outside(bs, at, at) \/ x \in Range(c.items)
    BY <1>1, <2>1, <2>2
  <2> QED BY <2>3
<1>7. BlockReplaced(new, bs, at, c)
  BY <1>1, <1>4, <1>6 DEF BlockReplaced
<1> QED BY <1>7 DEF new

LEMMA InsideOne ==
  ASSUME NEW bs, Len(bs) \in Nat, NEW at \in 1..Len(bs)
  PROVE  Inside(bs, at, at) = Range(bs[at].items)
<1>1. {j \in 1..Len(bs) : at =< j /\ j =< at} = {at}
  OBVIOUS
<1> QED BY <1>1 DEF Inside

-----------------------------------------------------------------------------
(* Finding the block and the position of a value.                          *)

(* blockFor: the blocks before it lie below the value, those after it above. *)
LEMMA Located ==
  ASSUME NEW bs, Shape(bs), bs # <<>>, NEW v \in Values
  PROVE  /\ BlockAt(bs, v) \in 1..Len(bs)
         /\ \A i \in 1..(BlockAt(bs, v) - 1) : \A x \in Range(bs[i].items) : x.value < v
         /\ BlockAt(bs, v) < Len(bs) => Final(bs[BlockAt(bs, v)]) >= v
         /\ \A i \in (BlockAt(bs, v) + 1)..Len(bs) : \A x \in Range(bs[i].items) : v < x.value
         /\ \A i \in 1..(BlockAt(bs, v) - 1) : Final(bs[i]) < v
<1> DEFINE S == {i \in DOMAIN bs : i = Len(bs) \/ Final(bs[i]) >= v}
           at == BlockAt(bs, v)
<1>1. bs \in Seq(BlockSet) /\ Len(bs) \in Nat /\ Len(bs) >= 1 /\ DOMAIN bs = 1..Len(bs)
  BY DEF Shape
<1>2. v \in Int
  BY ValuesInt
<1>3. at \in S /\ \A n \in S : at =< n
  <2>1. S \subseteq Nat /\ S # {}
    BY <1>1
  <2>2. at = Min(S)
    BY DEF BlockAt
  <2> HIDE DEF S, at
  <2> QED BY <2>1, <2>2, MinProps
<1>4. at \in 1..Len(bs) /\ (at < Len(bs) => Final(bs[at]) >= v)
  BY <1>1, <1>3
<1>5. ASSUME NEW i \in 1..Len(bs)
      PROVE  /\ Final(bs[i]) \in Int
             /\ \A x \in Range(bs[i].items) : x.value \in Int /\ x.value =< Final(bs[i])
             /\ \E x \in Range(bs[i].items) : x.value = Final(bs[i])
  <2> DEFINE s == bs[i].items
  <2>1. ShapeBlock(bs[i])
    BY DEF Shape
  <2>2. /\ Len(s) \in Nat /\ Len(s) >= 1
        /\ Range(s) = {s[j] : j \in 1..Len(s)}
        /\ \A j \in 1..Len(s) : s[j].value \in Int
    BY <2>1, BlockItems
  <2>3. Final(bs[i]) = s[Len(s)].value
    BY DEF Final, Last
  <2>4. \A j \in 1..Len(s) : j < Len(s) => s[j].value < s[Len(s)].value
    BY <2>1, <2>2 DEF ShapeBlock, Ascending
  <2> HIDE DEF s
  <2>5. Len(s) \in 1..Len(s)
    BY <2>2
  <2>6. \A j \in 1..Len(s) : s[j].value =< s[Len(s)].value
    BY <2>2, <2>4, <2>5
  <2> QED BY <2>2, <2>3, <2>5, <2>6 DEF s
<1> HIDE DEF at
<1>6. \A i \in 1..(at - 1) : Final(bs[i]) < v
  <2> TAKE i \in 1..(at - 1)
  <2>1. i \in 1..Len(bs) /\ ~ at =< i
    BY <1>1, <1>4
  <2>2. i \notin S
    <3> HIDE DEF S
    <3> QED BY <2>1, <1>3
  <2>3. ~ Final(bs[i]) >= v
    BY <2>1, <2>2, <1>1
  <2>4. Final(bs[i]) \in Int
    BY <2>1, <1>5
  <2> HIDE DEF S
  <2> QED BY <2>3, <2>4, <1>2
<1>7. \A i \in 1..(at - 1) : \A x \in Range(bs[i].items) : x.value < v
  BY <1>1, <1>2, <1>4, <1>5, <1>6
<1>8. ASSUME NEW i \in (at + 1)..Len(bs), NEW x \in Range(bs[i].items)
      PROVE  v < x.value
  <2>1. at < Len(bs) /\ i \in 1..Len(bs) /\ at < i
    BY <1>1, <1>4
  <2>2. PICK y \in Range(bs[at].items) : y.value = Final(bs[at])
    BY <1>4, <1>5
  <2>3. y.value < x.value
    BY <1>4, <2>1 DEF Shape, Precede
  <2> QED BY <1>2, <1>4, <1>5, <2>1, <2>2, <2>3
<1> QED BY <1>4, <1>6, <1>7, <1>8 DEF at

(* searchBlock: the items before the position lie below the value.         *)
LEMMA Positioned ==
  ASSUME NEW b, ShapeBlock(b), NEW v \in Values
  PROVE  /\ Position(b, v) \in 1..(Len(b.items) + 1)
         /\ \A i \in 1..(Position(b, v) - 1) : b.items[i].value < v
         /\ \A i \in Position(b, v)..Len(b.items) : b.items[i].value >= v
         /\ Has(b, v) <=> Position(b, v) =< Len(b.items) /\ b.items[Position(b, v)].value = v
         /\ Has(b, v) <=> \E x \in Range(b.items) : x.value = v
<1> DEFINE s == b.items
           S == {i \in 1..(Len(s) + 1) : i > Len(s) \/ s[i].value >= v}
           p == Position(b, v)
<1>1. /\ Len(s) \in Nat /\ DOMAIN s = 1..Len(s)
      /\ Range(s) = {s[i] : i \in 1..Len(s)}
      /\ \A i \in 1..Len(s) : s[i].value \in Int
  BY BlockItems
<1>2. v \in Int
  BY ValuesInt
<1>3. p \in S /\ \A n \in S : p =< n
  <2>1. Len(s) + 1 \in S /\ S \subseteq Nat
    BY <1>1
  <2>2. p = Min(S)
    BY DEF Position
  <2> HIDE DEF S, p
  <2> QED BY <2>1, <2>2, MinProps
<1>4. \A i, j \in 1..Len(s) : i < j => s[i].value < s[j].value
  BY DEF ShapeBlock, Ascending
<1>9. Has(b, v) <=> \E i \in 1..Len(s) : s[i].value = v
  BY <1>1 DEF Has
<1> HIDE DEF p, s
<1>5. p \in 1..(Len(s) + 1) /\ (p =< Len(s) => s[p].value >= v)
  BY <1>1, <1>3
<1>6. \A i \in 1..(p - 1) : s[i].value < v
  <2> TAKE i \in 1..(p - 1)
  <2>1. i \in 1..Len(s) /\ i \notin S
    BY <1>1, <1>3, <1>5
  <2> QED BY <2>1, <1>1, <1>2
<1>7. \A i \in p..Len(s) : s[i].value >= v
  <2> TAKE i \in p..Len(s)
  <2>1. p \in 1..Len(s) /\ i \in 1..Len(s) /\ (i = p \/ p < i)
    BY <1>1, <1>5
  <2> QED BY <2>1, <1>1, <1>2, <1>4, <1>5
<1>8. Has(b, v) <=> p =< Len(s) /\ s[p].value = v
  <2>1. ASSUME NEW i \in 1..Len(s), s[i].value = v PROVE p =< Len(s) /\ s[p].value = v
    <3>1. i \in S
      BY <2>1, <1>1, <1>2
    <3>2. p =< i /\ p \in 1..Len(s)
      BY <3>1, <1>1, <1>3, <1>5
    <3>3. s[p].value >= v /\ (p = i \/ s[p].value < s[i].value)
      BY <3>2, <1>1, <1>4, <1>5
    <3> QED BY <3>2, <3>3, <2>1, <1>1, <1>2
  <2>2. ASSUME p =< Len(s), s[p].value = v PROVE p \in 1..Len(s)
    BY <2>2, <1>1, <1>5
  <2> QED BY <2>1, <2>2, <1>9
<1>10. Has(b, v) <=> \E x \in Range(s) : x.value = v
  BY <1>1, <1>9
<1> QED BY <1>5, <1>6, <1>7, <1>8, <1>10 DEF p, s

(* A value the index holds is in the block BlockAt names.                  *)
LEMMA FoundAt ==
  ASSUME NEW bs, Shape(bs), bs # <<>>, NEW v \in Values
  PROVE  Has(bs[BlockAt(bs, v)], v) <=> \E x \in Kept(bs) : x.value = v
<1> DEFINE at == BlockAt(bs, v)
<1>1. /\ at \in 1..Len(bs)
      /\ \A i \in 1..(at - 1) : \A x \in Range(bs[i].items) : x.value < v
      /\ \A i \in (at + 1)..Len(bs) : \A x \in Range(bs[i].items) : v < x.value
  BY Located
<1> HIDE DEF at
<1>2. ShapeBlock(bs[at]) /\ v \in Int
  BY <1>1, ValuesInt DEF Shape
<1>3. Has(bs[at], v) <=> \E x \in Range(bs[at].items) : x.value = v
  BY <1>2, Positioned
<1>4. ASSUME NEW x \in Kept(bs), x.value = v PROVE x \in Range(bs[at].items)
  <2>1. PICK i \in 1..Len(bs) : x \in Range(bs[i].items)
    BY DEF Kept
  <2>2. i \notin 1..(at - 1) /\ i \notin (at + 1)..Len(bs)
    BY <1>1, <1>2, <1>4, <2>1
  <2>3. i = at
    BY <1>1, <2>2
  <2> QED BY <2>1, <2>3
<1>5. Range(bs[at].items) \subseteq Kept(bs)
  BY <1>1 DEF Kept
<1> QED BY <1>3, <1>4, <1>5 DEF at

-----------------------------------------------------------------------------
(* Adding IDs to a block.                                                  *)

(* The IDs a set of items keeps under a value, and the items once more IDs *)
(* are kept under it.                                                      *)
BitsOf(K, v) == UNION {x.bits : x \in {y \in K : y.value = v}}
With(K, v, ids) ==
  {x \in K : x.value # v} \cup {[value |-> v, bits |-> BitsOf(K, v) \cup ids]}

AllBits(K) == UNION {x.bits : x \in K}

(* The union of a block is the union of its items' bitmaps.                *)
LEMMA PostingsOfRange ==
  ASSUME NEW items \in Seq(ItemSet)
  PROVE  Postings(items) = AllBits(Range(items))
<1>1. DOMAIN items = 1..Len(items) /\ Range(items) = {items[i] : i \in 1..Len(items)}
  BY ItemsOfSeq
<1>2. \A z : z \in Postings(items) <=> \E i \in 1..Len(items) : z \in items[i].bits
  BY <1>1 DEF Postings
<1>3. \A z : z \in AllBits(Range(items)) <=> \E i \in 1..Len(items) : z \in items[i].bits
  BY <1>1 DEF AllBits
<1> QED BY <1>2, <1>3

(* What is kept under a value is its item's bitmap.                        *)
LEMMA SingleBits ==
  ASSUME NEW K, Single(K), NEW x \in K
  PROVE  BitsOf(K, x.value) = x.bits
BY DEF Single, BitsOf

LEMMA WithBits ==
  ASSUME NEW K, NEW v, NEW ids
  PROVE  AllBits(With(K, v, ids)) = AllBits(K) \cup ids
<1> DEFINE new == [value |-> v, bits |-> BitsOf(K, v) \cup ids]
<1>0. new \in With(K, v, ids) /\ new.bits = BitsOf(K, v) \cup ids
  BY DEF With
<1> HIDE DEF new
<1>1. \A z : z \in AllBits(K) => z \in AllBits(With(K, v, ids))
  <2> SUFFICES ASSUME NEW x \in K, NEW z \in x.bits PROVE z \in AllBits(With(K, v, ids))
    BY DEF AllBits
  <2>1. CASE x.value = v
    <3>1. x \in {y \in K : y.value = v}
      BY <2>1
    <3>2. z \in BitsOf(K, v)
      BY <3>1 DEF BitsOf
    <3> QED BY <3>2, <1>0 DEF AllBits
  <2>2. CASE x.value # v
    BY <2>2 DEF AllBits, With
  <2> QED BY <2>1, <2>2
<1>2. \A z : z \in ids => z \in AllBits(With(K, v, ids))
  BY <1>0 DEF AllBits
<1>3. \A z : z \in AllBits(With(K, v, ids)) => z \in AllBits(K) \/ z \in ids
  BY DEF AllBits, With, BitsOf
<1> QED BY <1>1, <1>2, <1>3

LEMMA BlockParts ==
  ASSUME NEW b, ShapeBlock(b)
  PROVE  b = [items |-> b.items, bits |-> b.bits, alias |-> b.alias] /\ b.bits \subseteq Ids
         /\ b.alias \in Values \cup {NoAlias}
BY DEF ShapeBlock, BlockSet

LEMMA GainsItem ==
  ASSUME NEW x \in ItemSet, NEW ids \in SUBSET Ids
  PROVE  Gains(x, ids) \in ItemSet /\ Gains(x, ids).value = x.value /\ Gains(x, ids).bits = x.bits \cup ids
BY ItemProps DEF Gains, ItemSet

(* insert and insertPosting at a value that has an item.                   *)
LEMMA AddedBoth ==
  ASSUME NEW b, ShapeBlock(b), NEW v \in Values, Has(b, v), NEW ids \in SUBSET Ids
  PROVE  /\ ShapeBlock(AddToBlock(AddToItem(b, v, ids), ids))
         /\ AddToBlock(AddToItem(b, v, ids), ids).bits = b.bits \cup ids
         /\ Range(AddToBlock(AddToItem(b, v, ids), ids).items) = With(Range(b.items), v, ids)
         /\ AddToBlock(AddToItem(b, v, ids), ids).alias = b.alias
<1> DEFINE s == b.items
           p == Position(b, v)
           d == AddToItem(b, v, ids)
           c == AddToBlock(d, ids)
           t == [s EXCEPT ![p] = Gains(s[p], ids)]
           new == [value |-> v, bits |-> s[p].bits \cup ids]
<1>1. /\ s \in Seq(ItemSet) /\ Len(s) \in Nat /\ DOMAIN s = 1..Len(s)
      /\ Range(s) = {s[i] : i \in 1..Len(s)}
      /\ \A i \in 1..Len(s) : s[i] \in ItemSet /\ s[i].value \in Values /\ s[i].value \in Int
  BY BlockItems
<1>2. p \in 1..Len(s) /\ s[p].value = v
  <2>1. p =< Len(s) /\ s[p].value = v /\ p \in 1..(Len(s) + 1)
    BY Positioned
  <2> QED BY <2>1, <1>1
<1>3. b.bits \subseteq Ids /\ b.alias \in Values \cup {NoAlias}
  BY BlockParts
<1>4. d.items = t /\ d.bits = (IF b.alias = v THEN b.bits \cup ids ELSE b.bits) /\ d.alias = b.alias
  BY DEF AddToItem
<1>5. /\ t \in Seq(ItemSet) /\ Len(t) = Len(s) /\ DOMAIN t = 1..Len(s)
      /\ \A i \in 1..Len(s) : t[i] = IF i = p THEN new ELSE s[i]
      /\ new \in ItemSet
  <2>1. s[p] \in ItemSet
    BY <1>1, <1>2
  <2>2. Gains(s[p], ids) = new
    BY <1>2 DEF Gains
  <2>3. new \in ItemSet
    BY <2>1, <2>2, GainsItem
  <2>4. t = [s EXCEPT ![p] = new]
    BY <2>2
  <2> HIDE DEF new, t, s, p
  <2> QED BY <1>1, <1>2, <2>3, <2>4
<1> HIDE DEF d, t, p
<1>6. /\ c.items = [i \in DOMAIN t |-> IF t[i].value = b.alias THEN Gains(t[i], ids) ELSE t[i]]
      /\ c.bits = b.bits \cup ids /\ c.alias = b.alias
      /\ c = [items |-> c.items, bits |-> c.bits, alias |-> c.alias]
  BY <1>4 DEF AddToBlock
<1>7. \A i \in 1..Len(s) : t[i].value = b.alias => i = p
  <2> SUFFICES ASSUME NEW i \in 1..Len(s), t[i].value = b.alias PROVE i = p
    OBVIOUS
  <2>1. t[i].value \in Values
    BY <1>1, <1>5
  <2>2. b.alias # NoAlias
    BY <2>1, OrderedAssumption
  <2>3. Len(s) = 1
    BY <2>2 DEF ShapeBlock
  <2> QED BY <2>3, <1>2
<1>8. \A i \in 1..Len(s) : t[i].value = b.alias => Gains(t[i], ids) = t[i]
  <2> SUFFICES ASSUME NEW i \in 1..Len(s), t[i].value = b.alias
               PROVE  Gains(t[i], ids) = t[i]
    OBVIOUS
  <2>1. t[i] = new
    BY <1>5, <1>7
  <2>2. Gains(new, ids) = new
    BY DEF Gains
  <2> QED BY <2>1, <2>2
<1> HIDE DEF c
<1>9. c.items = t
  <2>1. \A i \in 1..Len(s) : c.items[i] = t[i]
    BY <1>5, <1>6, <1>8
  <2>2. DOMAIN c.items = 1..Len(s)
    BY <1>5, <1>6
  <2>3. c.items = [i \in 1..Len(s) |-> c.items[i]]
    BY <1>5, <1>6
  <2>4. t = [i \in 1..Len(s) |-> t[i]]
    BY <1>5
  <2> QED BY <2>1, <2>3, <2>4
<1>10. ShapeBlock(c)
  <2>1. c \in BlockSet
    BY <1>3, <1>5, <1>6, <1>9 DEF BlockSet
  <2>2. \A i \in 1..Len(s) : t[i].value = s[i].value
    BY <1>2, <1>5
  <2>3. Ascending(t)
    BY <2>2, <1>5 DEF Ascending, ShapeBlock
  <2>4. b.alias # NoAlias => Len(t) = 1 /\ t[1].value = b.alias
    <3>1. b.alias # NoAlias => Len(s) = 1 /\ s[1].value = b.alias
      BY DEF ShapeBlock
    <3> QED BY <3>1, <2>2, <1>5
  <2>5. Len(t) \in 1..(2 * BlockSize)
    BY <1>5 DEF ShapeBlock
  <2> QED BY <2>1, <2>3, <2>4, <2>5, <1>6, <1>9 DEF ShapeBlock
<1>11. BitsOf(Range(s), v) = s[p].bits
  <2>1. \A x \in Range(s) : x.value = v => x = s[p]
    <3> SUFFICES ASSUME NEW i \in 1..Len(s), s[i].value = v PROVE i = p
      BY <1>1
    <3> QED BY <1>1, <1>2, AscendingOnce DEF ShapeBlock
  <2>2. s[p] \in Range(s)
    BY <1>1, <1>2
  <2> QED BY <2>1, <2>2, <1>2 DEF BitsOf
<1>12. Range(t) = With(Range(s), v, ids)
  <2>1. Range(t) = {t[i] : i \in 1..Len(s)}
    BY <1>5, ItemsOfSeq
  <2>2. \A i \in 1..Len(s) : i # p => s[i].value # v
    BY <1>1, <1>2, AscendingOnce DEF ShapeBlock
  <2>3. \A x : x \in Range(t) <=> x = new \/ \E i \in 1..Len(s) : i # p /\ x = s[i]
    <3> HIDE DEF new
    <3> QED BY <2>1, <1>2, <1>5
  <2>4. \A x : x \in With(Range(s), v, ids) <=> x = new \/ \E i \in 1..Len(s) : s[i].value # v /\ x = s[i]
    BY <1>1, <1>11 DEF With
  <2>5. \A i \in 1..Len(s) : i # p <=> s[i].value # v
    BY <2>2, <1>2
  <2> HIDE DEF new
  <2> QED BY <2>3, <2>4, <2>5
<1> QED BY <1>6, <1>9, <1>10, <1>12 DEF c, d

(* A block nothing shares its union with.                                  *)
LEMMA AddedToBlock ==
  ASSUME NEW b, ShapeBlock(b), b.alias = NoAlias, NEW ids \in SUBSET Ids
  PROVE  /\ ShapeBlock(AddToBlock(b, ids))
         /\ AddToBlock(b, ids).bits = b.bits \cup ids
         /\ AddToBlock(b, ids).items = b.items
         /\ AddToBlock(b, ids).alias = NoAlias
<1> DEFINE s == b.items
           c == AddToBlock(b, ids)
<1>1. /\ s \in Seq(ItemSet) /\ DOMAIN s = 1..Len(s)
      /\ \A i \in 1..Len(s) : s[i].value \in Values
  BY BlockItems
<1>2. b.bits \subseteq Ids
  BY BlockParts
<1>3. /\ c.items = [i \in DOMAIN s |-> IF s[i].value = b.alias THEN Gains(s[i], ids) ELSE s[i]]
      /\ c.bits = b.bits \cup ids /\ c.alias = b.alias
      /\ c = [items |-> c.items, bits |-> c.bits, alias |-> c.alias]
  BY DEF AddToBlock
<1>4. \A i \in DOMAIN s : s[i].value # b.alias
  BY <1>1, OrderedAssumption
<1> HIDE DEF c
<1>5. c.items = s
  <2>1. c.items = [i \in DOMAIN s |-> s[i]]
    BY <1>3, <1>4
  <2> QED BY <2>1, <1>1
<1>6. c \in BlockSet
  BY <1>1, <1>2, <1>3, <1>5 DEF BlockSet
<1> QED BY <1>3, <1>5, <1>6 DEF ShapeBlock, c

-----------------------------------------------------------------------------
(* Inserting an item.                                                      *)

Detach(b) == IF Len(b.items) = 1 THEN [b EXCEPT !.alias = NoAlias] ELSE b

LEMMA DetachedBlock ==
  ASSUME NEW b, ShapeBlock(b)
  PROVE  /\ ShapeBlock(Detach(b)) /\ Detach(b).alias = NoAlias
         /\ Detach(b).items = b.items /\ Detach(b).bits = b.bits
<1>1. CASE Len(b.items) = 1
  <2>1. /\ Detach(b).alias = NoAlias /\ Detach(b).items = b.items /\ Detach(b).bits = b.bits
        /\ Detach(b) \in BlockSet
    BY <1>1 DEF Detach, ShapeBlock, BlockSet
  <2> QED BY <2>1 DEF ShapeBlock
<1>2. CASE Len(b.items) # 1
  BY <1>2 DEF Detach, ShapeBlock
<1> QED BY <1>1, <1>2

(* detachSharedBlockAggregates changes no item and no union.               *)
LEMMA DetachedShape ==
  ASSUME NEW bs, Shape(bs)
  PROVE  /\ Shape(Detached(bs)) /\ Len(Detached(bs)) = Len(bs)
         /\ Kept(Detached(bs)) = Kept(bs)
         /\ \A i \in 1..Len(bs) :
              /\ Detached(bs)[i].alias = NoAlias
              /\ Detached(bs)[i].items = bs[i].items /\ Detached(bs)[i].bits = bs[i].bits
<1> DEFINE ds == Detached(bs)
<1>1. bs \in Seq(BlockSet) /\ Len(bs) \in Nat /\ DOMAIN bs = 1..Len(bs)
  BY DEF Shape
<1>2. ds = [i \in 1..Len(bs) |-> Detach(bs[i])]
  BY <1>1 DEF Detached, Detach
<1>3. \A i \in 1..Len(bs) : ShapeBlock(bs[i])
  BY DEF Shape
<1> HIDE DEF ds
<1>4. \A i \in 1..Len(bs) : /\ ds[i] = Detach(bs[i]) /\ ShapeBlock(ds[i]) /\ ds[i].alias = NoAlias
                            /\ ds[i].items = bs[i].items /\ ds[i].bits = bs[i].bits
  BY <1>2, <1>3, DetachedBlock
<1>5. \A i \in 1..Len(bs) : ds[i] \in BlockSet
  BY <1>4 DEF ShapeBlock
<1>6. ds \in Seq(BlockSet) /\ Len(ds) = Len(bs)
  BY <1>1, <1>2, <1>5
<1>7. Shape(ds)
  BY <1>4, <1>6 DEF Shape
<1>8. Kept(ds) = Kept(bs)
  <2>1. \A x : x \in Kept(ds) <=> \E i \in 1..Len(bs) : x \in Range(bs[i].items)
    BY <1>4, <1>6 DEF Kept
  <2>2. \A x : x \in Kept(bs) <=> \E i \in 1..Len(bs) : x \in Range(bs[i].items)
    BY DEF Kept
  <2> QED BY <2>1, <2>2
<1> QED BY <1>4, <1>6, <1>7, <1>8 DEF ds

(* A sorted sequence that gets an item at its position stays sorted.       *)
LEMMA InsertedItem ==
  ASSUME NEW b, ShapeBlock(b), NEW item \in ItemSet, ~Has(b, item.value)
  PROVE  LET s == InsertAt(b.items, Position(b, item.value), item)
         IN  /\ s \in Seq(ItemSet) /\ Len(s) = Len(b.items) + 1
             /\ Ascending(s)
             /\ Range(s) = Range(b.items) \cup {item}
<1> DEFINE o == b.items
           v == item.value
           p == Position(b, v)
           s == InsertAt(o, p, item)
           mid == <<item>>
<1>1. /\ o \in Seq(ItemSet) /\ Len(o) \in Nat
      /\ Range(o) = {o[i] : i \in 1..Len(o)}
      /\ \A i \in 1..Len(o) : o[i].value \in Int
  BY BlockItems
<1>2. v \in Values /\ v \in Int
  BY ItemProps
<1>3. /\ p \in 1..(Len(o) + 1)
      /\ \A i \in 1..(p - 1) : o[i].value < v
      /\ \A i \in p..Len(o) : o[i].value >= v
      /\ ~ \E x \in Range(o) : x.value = v
  BY <1>2, Positioned
<1>4. \A i, j \in 1..Len(o) : i < j => o[i].value < o[j].value
  BY DEF ShapeBlock, Ascending
<1>5. mid \in Seq(ItemSet) /\ Len(mid) = 1 /\ mid[1] = item
  OBVIOUS
<1> HIDE DEF o, p, v, mid
<1>6. s \in Seq(ItemSet) /\ IsSplice(s, o, mid, p, p - 1)
  <2>1. p - 1 \in (p - 1)..Len(o) /\ p - 1 + 1 = p
    BY <1>1, <1>3
  <2>2. /\ SubSeq(o, 1, p - 1) \o mid \o SubSeq(o, p - 1 + 1, Len(o)) \in Seq(ItemSet)
        /\ IsSplice(SubSeq(o, 1, p - 1) \o mid \o SubSeq(o, p - 1 + 1, Len(o)), o, mid, p, p - 1)
    BY <2>1, <1>1, <1>3, <1>5, Spliced
  <2>3. s = SubSeq(o, 1, p - 1) \o mid \o SubSeq(o, p - 1 + 1, Len(o))
    BY <2>1 DEF InsertAt, mid
  <2> HIDE DEF s
  <2> QED BY <2>2, <2>3
<1> HIDE DEF s
<1>7. /\ Len(s) = Len(o) + 1
      /\ \A i \in 1..(p - 1) : s[i] = o[i]
      /\ s[p] = item
      /\ \A i \in p..Len(o) : s[i + 1] = o[i]
      /\ \A k \in 1..Len(s) : s[k] = IF k < p THEN o[k] ELSE IF k = p THEN item ELSE o[k - 1]
  <2>1. Len(s) = Len(o) + 1
    BY <1>1, <1>3, <1>5, <1>6 DEF IsSplice
  <2>2. \A k \in 1..Len(s) : s[k] = IF k < p THEN o[k] ELSE IF k = p THEN item ELSE o[k - 1]
    <3> TAKE k \in 1..Len(s)
    <3>1. IF k < p THEN s[k] = o[k]
          ELSE IF k < p + Len(mid) THEN s[k] = mid[k - p + 1]
          ELSE s[k] = o[k - p + 1 - Len(mid) + (p - 1)]
      BY <1>6 DEF IsSplice
    <3>2. k - p + 1 - 1 + (p - 1) = k - 1
      BY <1>1, <1>3, <2>1
    <3>3. k = p => k - p + 1 = 1
      BY <1>3
    <3> QED BY <3>1, <3>2, <3>3, <1>1, <1>3, <1>5, <2>1
  <2> QED BY <2>1, <2>2, <1>1, <1>3
<1>8. Range(s) = Range(o) \cup {item}
  <2>1. Range(s) = {s[i] : i \in 1..Len(s)}
    BY <1>6, ItemsOfSeq
  <2>2. ASSUME NEW x \in Range(s) PROVE x \in Range(o) \/ x = item
    <3>1. PICK k \in 1..Len(s) : x = s[k]
      BY <2>1
    <3>2. (k < p => k \in 1..Len(o)) /\ (k > p => k - 1 \in 1..Len(o))
      BY <1>1, <1>3, <1>7
    <3>3. k < p \/ k = p \/ k > p
      BY <1>3
    <3> QED BY <3>1, <3>2, <3>3, <1>1, <1>7
  <2>3. ASSUME NEW i \in 1..Len(o) PROVE o[i] \in Range(s)
    <3>1. i < p \/ i >= p
      BY <1>3
    <3>2. i \in 1..Len(s) /\ i + 1 \in 1..Len(s)
      BY <1>1, <1>7
    <3> QED BY <3>1, <3>2, <2>1, <1>1, <1>3, <1>7
  <2>4. item \in Range(s)
    BY <1>1, <1>3, <1>7, <2>1
  <2> QED BY <2>2, <2>3, <2>4, <1>1
<1>9. Ascending(s)
  <2> SUFFICES ASSUME NEW i \in 1..Len(s), NEW j \in 1..Len(s), i < j PROVE s[i].value < s[j].value
    BY DEF Ascending
  <2>0. \A k \in p..Len(o) : o[k].value > v
    <3> TAKE k \in p..Len(o)
    <3>1. k \in 1..Len(o)
      BY <1>1, <1>3
    <3> QED BY <3>1, <1>1, <1>2, <1>3
  <2>1. CASE j < p
    <3>1. i \in 1..Len(o) /\ j \in 1..Len(o) /\ i < p
      BY <2>1, <1>1, <1>3
    <3> QED BY <3>1, <2>1, <1>4, <1>7
  <2>2. CASE j = p
    <3>1. i \in 1..(p - 1)
      BY <2>2, <1>3
    <3> QED BY <3>1, <2>2, <1>3, <1>7 DEF v
  <2>3. CASE j > p
    <3>1. j - 1 \in p..Len(o) /\ s[j] = o[j - 1] /\ j - 1 \in 1..Len(o)
      BY <2>3, <1>1, <1>3, <1>7
    <3>2. CASE i < p
      <4>1. s[i] = o[i] /\ i \in 1..Len(o) /\ i < j - 1
        BY <3>2, <3>1, <1>1, <1>3, <1>7
      <4> QED BY <4>1, <3>1, <1>4
    <3>3. CASE i = p
      BY <3>1, <3>3, <2>0, <1>7, <1>1, <1>2 DEF v
    <3>4. CASE i > p
      <4>1. s[i] = o[i - 1] /\ i - 1 \in 1..Len(o) /\ i - 1 < j - 1
        BY <3>4, <1>1, <1>3, <1>7
      <4> QED BY <4>1, <3>1, <1>4
    <3> QED BY <3>2, <3>3, <3>4, <1>3
  <2> QED BY <2>1, <2>2, <2>3, <1>3
<1> QED BY <1>6, <1>7, <1>8, <1>9 DEF s, o, p, v

(* A part of a sorted sequence, as a block of its own.                     *)
LEMMA SubItems ==
  ASSUME NEW s \in Seq(ItemSet), Ascending(s), NEW m \in 1..Len(s), NEW n \in m..Len(s)
  PROVE  LET t == SubSeq(s, m, n)
         IN  /\ t \in Seq(ItemSet) /\ Len(t) = n - m + 1 /\ Ascending(t)
             /\ Range(t) = {s[i] : i \in m..n}
             /\ \A i \in 1..(n - m + 1) : t[i] = s[i + m - 1]
<1> DEFINE t == SubSeq(s, m, n)
<1>0. Len(s) \in Nat /\ m \in Int /\ n \in Int /\ 1 =< m /\ m =< n /\ n =< Len(s)
  OBVIOUS
<1>1. t \in Seq(ItemSet) /\ Len(t) = n - m + 1 /\ \A i \in 1..(n - m + 1) : t[i] = s[i + m - 1]
  BY <1>0
<1> HIDE DEF t
<1>2. Range(t) = {t[i] : i \in 1..Len(t)}
  BY <1>1, ItemsOfSeq
<1>3. \A i \in m..n : i - m + 1 \in 1..Len(t) /\ t[i - m + 1] = s[i]
  <2> TAKE i \in m..n
  <2>1. i - m + 1 \in 1..(n - m + 1) /\ i - m + 1 + m - 1 = i
    BY <1>0
  <2> QED BY <2>1, <1>1
<1>4. \A i \in 1..Len(t) : t[i] = s[i + m - 1] /\ i + m - 1 \in m..n
  BY <1>0, <1>1
<1>5. Range(t) = {s[i] : i \in m..n}
  <2>1. \A x : x \in Range(t) <=> \E i \in 1..Len(t) : x = t[i]
    BY <1>2
  <2>2. \A x : (\E i \in 1..Len(t) : x = t[i]) => \E i \in m..n : x = s[i]
    BY <1>4
  <2>3. \A x : (\E i \in m..n : x = s[i]) => \E i \in 1..Len(t) : x = t[i]
    BY <1>3
  <2> QED BY <2>1, <2>2, <2>3
<1>6. Ascending(t)
  <2> SUFFICES ASSUME NEW i \in 1..Len(t), NEW j \in 1..Len(t), i < j PROVE t[i].value < t[j].value
    BY DEF Ascending
  <2>1. i + m - 1 \in 1..Len(s) /\ j + m - 1 \in 1..Len(s) /\ i + m - 1 < j + m - 1
    BY <1>0, <1>1
  <2> QED BY <2>1, <1>4 DEF Ascending
<1> QED BY <1>1, <1>5, <1>6 DEF t

(* A block's union is exact but for the IDs that are being added to it.    *)
Settled(c, v, ids) ==
  IF Has(c, v) THEN c.bits \cup ids = Postings(c.items) \cup ids ELSE c.bits = Postings(c.items)

LEMMA OneBlock ==
  ASSUME NEW b, ShapeBlock(b)
  PROVE  /\ Shape(<<b>>) /\ Kept(<<b>>) = Range(b.items)
         /\ Len(<<b>>) = 1 /\ <<b>>[1] = b
<1>1. <<b>> \in Seq(BlockSet) /\ Len(<<b>>) = 1 /\ <<b>>[1] = b
  BY DEF ShapeBlock
<1>2. \A i \in 1..1 : i = 1
  OBVIOUS
<1> DEFINE s == <<b>>
<1> HIDE DEF s
<1>3. s \in Seq(BlockSet) /\ Len(s) = 1 /\ s[1] = b
  BY <1>1 DEF s
<1>4. Shape(s)
  BY <1>2, <1>3 DEF Shape
<1>5. \A x : x \in Kept(s) <=> x \in Range(b.items)
  BY <1>2, <1>3 DEF Kept
<1>6. Kept(s) = Range(b.items)
  BY <1>5
<1> QED BY <1>1, <1>4, <1>6 DEF s

(* Two blocks in order.                                                    *)
LEMMA TwoBlocks ==
  ASSUME NEW b, ShapeBlock(b), NEW c, ShapeBlock(c), Precede(Range(b.items), Range(c.items))
  PROVE  /\ Shape(<<b, c>>) /\ Kept(<<b, c>>) = Range(b.items) \cup Range(c.items)
         /\ Len(<<b, c>>) = 2 /\ <<b, c>>[1] = b /\ <<b, c>>[2] = c
<1>1. <<b, c>> \in Seq(BlockSet) /\ Len(<<b, c>>) = 2 /\ <<b, c>>[1] = b /\ <<b, c>>[2] = c
  BY DEF ShapeBlock
<1>2. \A i \in 1..2 : i = 1 \/ i = 2
  OBVIOUS
<1> DEFINE s == <<b, c>>
<1> HIDE DEF s
<1>3. s \in Seq(BlockSet) /\ Len(s) = 2 /\ s[1] = b /\ s[2] = c
  BY <1>1 DEF s
<1>4. Shape(s)
  <2>1. \A i \in 1..Len(s) : ShapeBlock(s[i])
    BY <1>2, <1>3
  <2>2. \A i, j \in 1..Len(s) : i < j => i = 1 /\ j = 2
    BY <1>2, <1>3
  <2>3. \A i, j \in 1..Len(s) : i < j => Precede(Range(s[i].items), Range(s[j].items))
    BY <1>3, <2>2
  <2> QED BY <1>3, <2>1, <2>3 DEF Shape
<1>5. \A x : x \in Kept(s) <=> x \in Range(b.items) \/ x \in Range(c.items)
  <2>1. \A x : x \in Kept(s) <=> \E i \in 1..2 : x \in Range(s[i].items)
    BY <1>3 DEF Kept
  <2>2. 1 \in 1..2 /\ 2 \in 1..2
    OBVIOUS
  <2> QED BY <1>2, <1>3, <2>1, <2>2
<1>6. Kept(s) = Range(b.items) \cup Range(c.items)
  BY <1>5
<1> QED BY <1>1, <1>4, <1>6 DEF s

(* A block made of some items and their union.                             *)
LEMMA MadeBlock ==
  ASSUME NEW s \in Seq(ItemSet), Ascending(s), Len(s) \in 1..(2 * BlockSize), NEW a,
         a = NoAlias \/ (Len(s) = 1 /\ a = s[1].value)
  PROVE  GoodBlock([items |-> s, bits |-> Postings(s), alias |-> a])
<1>1. Range(s) \subseteq ItemSet
  <2>1. Range(s) = {s[i] : i \in 1..Len(s)}
    BY ItemsOfSeq
  <2>2. \A i \in 1..Len(s) : s[i] \in ItemSet
    OBVIOUS
  <2> QED BY <2>1, <2>2
<1>2. Postings(s) \in SUBSET Ids
  <2>1. AllBits(Range(s)) \in SUBSET Ids
    BY <1>1, ItemProps DEF AllBits
  <2> QED BY <2>1, PostingsOfRange
<1>3. a \in Values \cup {NoAlias}
  <2>1. Len(s) = 1 => s[1] \in ItemSet
    OBVIOUS
  <2> QED BY <2>1, ItemProps
<1> DEFINE b == [items |-> s, bits |-> Postings(s), alias |-> a]
<1>4. b \in BlockSet
  BY <1>2, <1>3 DEF BlockSet
<1>5. b.items = s /\ b.bits = Postings(s) /\ b.alias = a
  OBVIOUS
<1> HIDE DEF b
<1>6. GoodBlock(b)
  BY <1>4, <1>5 DEF GoodBlock, ShapeBlock
<1> QED BY <1>6 DEF b

(* An exact union stays exact when IDs reach the item and the block.       *)
LEMMA SettledGood ==
  ASSUME NEW b, GoodBlock(b), NEW v, NEW ids
  PROVE  Settled(b, v, ids)
BY DEF Settled, GoodBlock

(* insertItem in one block: it grows by the item, and splits when too long. *)
LEMMA InsertedSplit ==
  ASSUME NEW b, GoodBlock(b), b.alias = NoAlias, NEW item \in ItemSet, ~Has(b, item.value),
         NEW ids \in SUBSET Ids, item.bits \subseteq ids
  PROVE  LET mid == Split([b EXCEPT !.items = InsertAt(@, Position(b, item.value), item)])
         IN  /\ Shape(mid)
             /\ Kept(mid) = Range(b.items) \cup {item}
             /\ \A m \in 1..Len(mid) : mid[m].alias = NoAlias /\ Settled(mid[m], item.value, ids)
<1> DEFINE s == InsertAt(b.items, Position(b, item.value), item)
           longer == [b EXCEPT !.items = s]
           v == item.value
<1>0. ShapeBlock(b) /\ b.bits = Postings(b.items) /\ b \in BlockSet /\ Len(b.items) \in 1..(2 * BlockSize)
      /\ b.items \in Seq(ItemSet)
  BY BlockItems DEF GoodBlock, ShapeBlock
<1>1. /\ s \in Seq(ItemSet) /\ Len(s) = Len(b.items) + 1
      /\ Ascending(s)
      /\ Range(s) = Range(b.items) \cup {item}
  BY <1>0, InsertedItem
<1> HIDE DEF s
<1>2. longer.items = s /\ longer.bits = b.bits /\ longer.alias = NoAlias /\ (longer \in BlockSet)
  BY <1>0, <1>1 DEF BlockSet
<1>3. Postings(s) = Postings(b.items) \cup item.bits
  <2>1. Postings(s) = AllBits(Range(s)) /\ Postings(b.items) = AllBits(Range(b.items))
    BY <1>0, <1>1, PostingsOfRange
  <2>2. AllBits(Range(b.items) \cup {item}) = AllBits(Range(b.items)) \cup item.bits
    BY DEF AllBits
  <2> QED BY <2>1, <2>2, <1>1
<1>4. BlockSize \in Nat /\ BlockSize >= 1
  BY OrderedAssumption
<1> HIDE DEF longer
<1>5. CASE Len(s) =< 2 * BlockSize
  <2>1. Split(longer) = <<longer>>
    BY <1>2, <1>5 DEF Split
  <2>2. ShapeBlock(longer)
    <3>1. Len(s) \in 1..(2 * BlockSize)
      BY <1>0, <1>1, <1>4, <1>5
    <3> QED BY <1>1, <1>2, <3>1 DEF ShapeBlock
  <2>3. Settled(longer, v, ids)
    <3>1. longer.bits \cup ids = Postings(s) \cup ids
      BY <1>0, <1>2, <1>3
    <3>2. Has(longer, v)
      <4>1. item \in Range(longer.items)
        BY <1>1, <1>2
      <4>2. v \in Values
        BY ItemProps
      <4> QED BY <4>1, <4>2, <2>2, Positioned
    <3> QED BY <3>1, <3>2, <1>2 DEF Settled
  <2>4. \A i \in 1..1 : i = 1
    OBVIOUS
  <2>5. Shape(<<longer>>) /\ Kept(<<longer>>) = Range(s) /\ Len(<<longer>>) = 1 /\ <<longer>>[1] = longer
    BY <2>2, <1>2, OneBlock
  <2> DEFINE mid == Split(longer)
  <2>6. Shape(mid) /\ Kept(mid) = Range(s) /\ Len(mid) = 1 /\ mid[1] = longer
    BY <2>1, <2>5
  <2> HIDE DEF mid, v
  <2>7. /\ Shape(mid)
        /\ Kept(mid) = Range(b.items) \cup {item}
        /\ \A m \in 1..Len(mid) : mid[m].alias = NoAlias /\ Settled(mid[m], v, ids)
    BY <2>3, <2>4, <2>6, <1>1, <1>2
  <2> QED BY <2>7 DEF mid, longer, v, s
<1>6. CASE Len(s) > 2 * BlockSize
  <2> DEFINE left == SubSeq(s, 1, BlockSize)
             right == SubSeq(s, BlockSize + 1, Len(s))
             bl == [items |-> left, bits |-> Postings(left), alias |-> NoAlias]
             br == [items |-> right, bits |-> Postings(right), alias |-> NoAlias]
  <2>1. Split(longer) = <<bl, br>>
    <3>1. ~ Len(s) =< 2 * BlockSize
      BY <1>1, <1>0, <1>4, <1>6
    <3> QED BY <3>1, <1>2 DEF Split
  <2>0. Len(s) = 2 * BlockSize + 1
    BY <1>0, <1>1, <1>4, <1>6
  <2>2. /\ left \in Seq(ItemSet) /\ Len(left) = BlockSize /\ Ascending(left)
        /\ Range(left) = {s[i] : i \in 1..BlockSize}
    <3>1. 1 \in 1..Len(s) /\ BlockSize \in 1..Len(s) /\ BlockSize - 1 + 1 = BlockSize
      BY <2>0, <1>4
    <3> QED BY <3>1, <1>1, SubItems
  <2>3. /\ right \in Seq(ItemSet) /\ Len(right) = BlockSize + 1 /\ Ascending(right)
        /\ Range(right) = {s[i] : i \in (BlockSize + 1)..Len(s)}
    <3>1. BlockSize + 1 \in 1..Len(s) /\ Len(s) \in (BlockSize + 1)..Len(s)
          /\ Len(s) - (BlockSize + 1) + 1 = BlockSize + 1
      BY <2>0, <1>4
    <3> QED BY <3>1, <1>1, SubItems
  <2> HIDE DEF left, right
  <2>4. GoodBlock(bl) /\ GoodBlock(br)
    <3>1. Len(left) \in 1..(2 * BlockSize) /\ Len(right) \in 1..(2 * BlockSize)
      BY <1>4, <2>2, <2>3
    <3> QED BY <3>1, <2>2, <2>3, MadeBlock
  <2>5. bl.items = left /\ br.items = right /\ bl.alias = NoAlias /\ br.alias = NoAlias
    OBVIOUS
  <2> HIDE DEF bl, br
  <2>6. Range(s) = {s[i] : i \in 1..Len(s)}
    BY <1>1, ItemsOfSeq
  <2>7. Range(s) = Range(left) \cup Range(right)
    <3>1. \A i : i \in 1..Len(s) <=> i \in 1..BlockSize \/ i \in (BlockSize + 1)..Len(s)
      BY <2>0, <1>4
    <3>2. \A x : x \in Range(s) <=> \E i \in 1..Len(s) : x = s[i]
      BY <2>6
    <3>3. \A x : x \in Range(left) <=> \E i \in 1..BlockSize : x = s[i]
      BY <2>2
    <3>4. \A x : x \in Range(right) <=> \E i \in (BlockSize + 1)..Len(s) : x = s[i]
      BY <2>3
    <3> QED BY <3>1, <3>2, <3>3, <3>4
  <2>8. Precede(Range(left), Range(right))
    <3> SUFFICES ASSUME NEW x \in Range(left), NEW y \in Range(right) PROVE x.value < y.value
      BY DEF Precede
    <3>1. PICK i \in 1..BlockSize : x = s[i]
      BY <2>2
    <3>2. PICK j \in (BlockSize + 1)..Len(s) : y = s[j]
      BY <2>3
    <3>3. i \in 1..Len(s) /\ j \in 1..Len(s) /\ i < j
      BY <2>0, <1>4
    <3> QED BY <3>1, <3>2, <3>3, <1>1 DEF Ascending
  <2>9. /\ Shape(<<bl, br>>) /\ Kept(<<bl, br>>) = Range(left) \cup Range(right)
        /\ Len(<<bl, br>>) = 2 /\ <<bl, br>>[1] = bl /\ <<bl, br>>[2] = br
    <3>1. ShapeBlock(bl) /\ ShapeBlock(br) /\ Precede(Range(bl.items), Range(br.items))
      BY <2>4, <2>5, <2>8 DEF GoodBlock
    <3> QED BY <3>1, <2>5, TwoBlocks
  <2> DEFINE mid == Split(longer)
  <2>10. Shape(mid) /\ Kept(mid) = Range(s) /\ Len(mid) = 2 /\ mid[1] = bl /\ mid[2] = br
    BY <2>1, <2>7, <2>9
  <2>11. Settled(bl, v, ids) /\ Settled(br, v, ids)
    BY <2>4, SettledGood
  <2>12. \A m \in 1..2 : m = 1 \/ m = 2
    OBVIOUS
  <2> HIDE DEF mid, v
  <2>13. /\ Shape(mid)
        /\ Kept(mid) = Range(b.items) \cup {item}
        /\ \A m \in 1..Len(mid) : mid[m].alias = NoAlias /\ Settled(mid[m], v, ids)
    BY <2>5, <2>10, <2>11, <2>12, <1>1
  <2> QED BY <2>13 DEF mid, longer, v, s
<1>7. Len(s) =< 2 * BlockSize \/ Len(s) > 2 * BlockSize
  <2>1. Len(s) \in Int
    BY <1>1
  <2> HIDE DEF s
  <2> QED BY <2>1, <1>4
<1> QED BY <1>5, <1>6, <1>7

(* Placing an item for a value the index does not hold.                    *)
LEMMA ItemPlaced ==
  ASSUME NEW bs, Good(bs), bs # <<>>, NEW item \in ItemSet, \A x \in Kept(bs) : x.value # item.value,
         NEW ids \in SUBSET Ids, item.bits \subseteq ids
  PROVE  LET placed == WithItem(Detached(bs), item)
         IN  /\ Shape(placed) /\ placed # <<>>
             /\ Kept(placed) = Kept(bs) \cup {item}
             /\ \A k \in 1..Len(placed) : placed[k].alias = NoAlias /\ Settled(placed[k], item.value, ids)
<1> DEFINE ds == Detached(bs)
           v == item.value
           at == BlockAt(ds, v)
           longer == [ds[at] EXCEPT !.items = InsertAt(@, Position(ds[at], v), item)]
           mid == Split(longer)
           placed == WithItem(ds, item)
<1>0. v \in Values /\ v \in Int
  BY ItemProps
<1>1. Shape(bs) /\ bs \in Seq(BlockSet) /\ Len(bs) \in Nat /\ Len(bs) >= 1
  BY DEF Good, Shape
<1>2. /\ Shape(ds) /\ Len(ds) = Len(bs) /\ Kept(ds) = Kept(bs)
      /\ \A i \in 1..Len(bs) :
           /\ ds[i].alias = NoAlias /\ ds[i].items = bs[i].items /\ ds[i].bits = bs[i].bits
  BY <1>1, DetachedShape
<1>3. \A i \in 1..Len(bs) : GoodBlock(ds[i])
  BY <1>2 DEF Good, Shape, GoodBlock
<1> HIDE DEF ds
<1>4. ds # <<>>
  <2>1. Len(<<>>) = 0
    OBVIOUS
  <2> QED BY <2>1, <1>1, <1>2
<1>5. /\ at \in 1..Len(bs)
      /\ \A i \in 1..(at - 1) : \A x \in Range(ds[i].items) : x.value < v
      /\ \A i \in (at + 1)..Len(bs) : \A x \in Range(ds[i].items) : v < x.value
  BY <1>0, <1>2, <1>4, Located
<1>6. ~Has(ds[at], v)
  BY <1>0, <1>2, <1>4, FoundAt
<1> HIDE DEF at, v
<1>7. /\ Shape(mid) /\ Kept(mid) = Range(ds[at].items) \cup {item}
      /\ \A m \in 1..Len(mid) : mid[m].alias = NoAlias /\ Settled(mid[m], v, ids)
  <2>1. GoodBlock(ds[at]) /\ ds[at].alias = NoAlias /\ ~Has(ds[at], item.value)
    BY <1>2, <1>3, <1>5, <1>6 DEF v
  <2> QED BY <2>1, InsertedSplit DEF v
<1>8. placed = SubSeq(ds, 1, at - 1) \o mid \o SubSeq(ds, at + 1, Len(ds))
  BY DEF WithItem, at, v
<1> HIDE DEF mid, placed
<1>9. \A i \in 1..(at - 1) : Precede(Range(ds[i].items), Kept(mid))
  <2> SUFFICES ASSUME NEW i \in 1..(at - 1), NEW x \in Range(ds[i].items), NEW y \in Kept(mid)
               PROVE  x.value < y.value
    BY DEF Precede
  <2>1. i \in 1..Len(bs) /\ i < at
    BY <1>1, <1>5
  <2>2. CASE y = item
    BY <2>2, <1>5 DEF v
  <2>3. CASE y \in Range(ds[at].items)
    BY <2>1, <2>3, <1>2, <1>5 DEF Shape, Precede
  <2> QED BY <2>2, <2>3, <1>7
<1>10. \A i \in (at + 1)..Len(ds) : Precede(Kept(mid), Range(ds[i].items))
  <2> SUFFICES ASSUME NEW i \in (at + 1)..Len(bs), NEW x \in Kept(mid), NEW y \in Range(ds[i].items)
               PROVE  x.value < y.value
    BY <1>2 DEF Precede
  <2>1. i \in 1..Len(bs) /\ at < i
    BY <1>1, <1>5
  <2>2. CASE x = item
    BY <2>2, <1>5 DEF v
  <2>3. CASE x \in Range(ds[at].items)
    BY <2>1, <2>3, <1>2, <1>5 DEF Shape, Precede
  <2> QED BY <2>2, <2>3, <1>7
<1>11. /\ Shape(placed)
       /\ Kept(placed) = Outside(ds, at, at) \cup Kept(mid)
       /\ \A k \in 1..Len(placed) :
                  \/ \E i \in 1..Len(ds) : (i < at \/ i > at) /\ placed[k] = ds[i]
                  \/ \E m \in 1..Len(mid) : placed[k] = mid[m]
  <2>1. at \in 1..(Len(ds) + 1) /\ at \in (at - 1)..Len(ds)
    BY <1>1, <1>2, <1>5
  <2>2. BlocksSpliced(SubSeq(ds, 1, at - 1) \o mid \o SubSeq(ds, at + 1, Len(ds)), ds, mid, at, at)
    BY <2>1, <1>2, <1>7, <1>9, <1>10, ShapeSpliced
  <2> QED BY <2>2, <1>8 DEF BlocksSpliced
<1>12. Kept(placed) = Kept(bs) \cup {item}
  <2>1. Kept(ds) = Outside(ds, at, at) \cup Inside(ds, at, at)
    BY <1>1, <1>2, <1>5, KeptParts
  <2>2. Inside(ds, at, at) = Range(ds[at].items)
    BY <1>1, <1>2, <1>5, InsideOne
  <2> QED BY <2>1, <2>2, <1>2, <1>7, <1>11
<1>13. ASSUME NEW k \in 1..Len(placed)
       PROVE  placed[k].alias = NoAlias /\ Settled(placed[k], v, ids)
  <2>1. CASE \E i \in 1..Len(ds) : placed[k] = ds[i]
    BY <2>1, <1>2, <1>3, SettledGood
  <2>2. CASE \E m \in 1..Len(mid) : placed[k] = mid[m]
    BY <2>2, <1>7
  <2> QED BY <2>1, <2>2, <1>11
<1>14. placed # <<>>
  <2>1. item \in Kept(placed)
    BY <1>12
  <2>2. \E k \in 1..Len(placed) : item \in Range(placed[k].items)
    BY <2>1 DEF Kept
  <2>3. Len(placed) \in Nat /\ Len(placed) >= 1
    BY <2>2, <1>11 DEF Shape
  <2> QED BY <2>3
<1> QED BY <1>11, <1>12, <1>13, <1>14 DEF placed, ds, v

(* An index whose blocks are settled is good once the block of the value   *)
(* has the IDs, whatever else changes there.                               *)
LEMMA SettledIndex ==
  ASSUME NEW bs, Shape(bs), bs # <<>>, NEW v \in Values, NEW ids,
         \A k \in 1..Len(bs) : Settled(bs[k], v, ids),
         Has(bs[BlockAt(bs, v)], v),
         NEW c, GoodBlock(c), \A x \in Range(c.items) : \E y \in Range(bs[BlockAt(bs, v)].items) : y.value = x.value
  PROVE  /\ Good([bs EXCEPT ![BlockAt(bs, v)] = c])
         /\ Kept([bs EXCEPT ![BlockAt(bs, v)] = c]) =
              Outside(bs, BlockAt(bs, v), BlockAt(bs, v)) \cup Range(c.items)
<1> DEFINE at == BlockAt(bs, v)
           new == [bs EXCEPT ![at] = c]
<1>1. at \in 1..Len(bs)
  BY Located
<1>2. \A x \in Range(c.items) : \E y \in Range(bs[at].items) : y.value = x.value
  OBVIOUS
<1> HIDE DEF at
<1>3. /\ Shape(new) /\ Len(new) = Len(bs) /\ new[at] = c
      /\ \A i \in 1..Len(bs) : i # at => new[i] = bs[i]
      /\ Kept(new) = Outside(bs, at, at) \cup Range(c.items)
  <2>1. ShapeBlock(c)
    BY DEF GoodBlock
  <2>2. BlockReplaced(new, bs, at, c)
    BY <2>1, <1>1, <1>2, ShapeReplaced
  <2> QED BY <2>2 DEF BlockReplaced
<1> HIDE DEF new
<1>4. ASSUME NEW i \in 1..Len(bs), i # at PROVE ~Has(bs[i], v)
  <2>1. /\ \A j \in 1..(at - 1) : \A x \in Range(bs[j].items) : x.value < v
        /\ \A j \in (at + 1)..Len(bs) : \A x \in Range(bs[j].items) : v < x.value
    BY Located DEF at
  <2>2. i \in 1..(at - 1) \/ i \in (at + 1)..Len(bs)
    BY <1>1, <1>4
  <2>3. \A x \in Range(bs[i].items) : x.value # v
    BY <2>1, <2>2, ValuesInt
  <2>4. ShapeBlock(bs[i])
    BY DEF Shape
  <2> QED BY <2>3, <2>4, Positioned
<1>5. ASSUME NEW i \in 1..Len(bs) PROVE GoodBlock(new[i])
  <2>1. CASE i = at
    BY <2>1, <1>3
  <2>2. CASE i # at
    <3>1. bs[i].bits = Postings(bs[i].items) /\ ShapeBlock(bs[i])
      BY <2>2, <1>4 DEF Settled, Shape
    <3> QED BY <3>1, <2>2, <1>3 DEF GoodBlock
  <2> QED BY <2>1, <2>2
<1>6. Good(new)
  BY <1>3, <1>5 DEF Good
<1> QED BY <1>3, <1>6 DEF new, at

(* Items under other values, before and after.                             *)
LEMMA WithOutside ==
  ASSUME NEW bs, Shape(bs), bs # <<>>, NEW v \in Values, NEW ids
  PROVE  LET at == BlockAt(bs, v)
         IN  Outside(bs, at, at) \cup With(Range(bs[at].items), v, ids) = With(Kept(bs), v, ids)
<1> DEFINE at == BlockAt(bs, v)
           O == Outside(bs, at, at)
           R == Range(bs[at].items)
<1>1. /\ at \in 1..Len(bs)
      /\ \A j \in 1..(at - 1) : \A x \in Range(bs[j].items) : x.value < v
      /\ \A j \in (at + 1)..Len(bs) : \A x \in Range(bs[j].items) : v < x.value
  BY Located
<1>0. Len(bs) \in Nat /\ v \in Int
  BY ValuesInt DEF Shape
<1> HIDE DEF at
<1>2. \A x \in O : x.value # v
  <2> SUFFICES ASSUME NEW j \in 1..Len(bs), j < at \/ j > at, NEW x \in Range(bs[j].items) PROVE x.value # v
    BY DEF Outside
  <2>1. j \in 1..(at - 1) \/ j \in (at + 1)..Len(bs)
    BY <1>0, <1>1
  <2> QED BY <2>1, <1>0, <1>1
<1>3. Kept(bs) = O \cup R
  BY <1>0, <1>1, KeptParts, InsideOne
<1> HIDE DEF O, R
<1>4. BitsOf(O \cup R, v) = BitsOf(R, v)
  <2>1. {y \in O \cup R : y.value = v} = {y \in R : y.value = v}
    BY <1>2
  <2> QED BY <2>1 DEF BitsOf
<1>5. {x \in O \cup R : x.value # v} = O \cup {x \in R : x.value # v}
  BY <1>2
<1>6. O \cup With(R, v, ids) = With(O \cup R, v, ids)
  BY <1>4, <1>5 DEF With
<1> QED BY <1>3, <1>6 DEF O, R, at

LEMMA KeptEmpty == Kept(<<>>) = {} /\ Shape(<<>>) /\ Good(<<>>)
<1>1. Len(<<>>) = 0 /\ 1..0 = {} /\ <<>> \in Seq(BlockSet)
  OBVIOUS
<1>2. Shape(<<>>) /\ Good(<<>>)
  BY <1>1 DEF Shape, Good
<1>3. \A x : x \notin Kept(<<>>)
  BY <1>1 DEF Kept
<1> QED BY <1>2, <1>3

LEMMA WithNew ==
  ASSUME NEW K, NEW v, \A x \in K : x.value # v, NEW ids
  PROVE  With(K, v, ids) = K \cup {[value |-> v, bits |-> ids]}
<1>1. BitsOf(K, v) = {}
  BY DEF BitsOf
<1>2. {x \in K : x.value # v} = K
  OBVIOUS
<1> QED BY <1>1, <1>2 DEF With

LEMMA WithPlaced ==
  ASSUME NEW K, NEW v, \A x \in K : x.value # v, NEW ids, NEW item, item.value = v, item.bits \subseteq ids
  PROVE  With(K \cup {item}, v, ids) = With(K, v, ids)
<1>1. BitsOf(K, v) = {}
  BY DEF BitsOf
<1>2. BitsOf(K \cup {item}, v) = item.bits
  <2>1. {y \in K \cup {item} : y.value = v} = {item}
    OBVIOUS
  <2> QED BY <2>1 DEF BitsOf
<1>3. {x \in K : x.value # v} = {x \in K \cup {item} : x.value # v}
  OBVIOUS
<1>4. item.bits \cup ids = ids /\ {} \cup ids = ids
  OBVIOUS
<1> QED BY <1>1, <1>2, <1>3, <1>4 DEF With

(* IDs added to the item and to its block.                                 *)
LEMMA GoodAfterBoth ==
  ASSUME NEW b, ShapeBlock(b), NEW v \in Values, Has(b, v), NEW ids \in SUBSET Ids, Settled(b, v, ids)
  PROVE  /\ GoodBlock(AddToBlock(AddToItem(b, v, ids), ids))
         /\ Range(AddToBlock(AddToItem(b, v, ids), ids).items) = With(Range(b.items), v, ids)
<1> DEFINE c == AddToBlock(AddToItem(b, v, ids), ids)
<1>1. /\ ShapeBlock(c) /\ c.bits = b.bits \cup ids /\ Range(c.items) = With(Range(b.items), v, ids)
  BY AddedBoth
<1> HIDE DEF c
<1>2. c.items \in Seq(ItemSet) /\ b.items \in Seq(ItemSet)
  BY <1>1, BlockItems
<1>3. Postings(c.items) = AllBits(Range(c.items)) /\ Postings(b.items) = AllBits(Range(b.items))
  BY <1>2, PostingsOfRange
<1>4. Postings(c.items) = Postings(b.items) \cup ids
  BY <1>1, <1>3, WithBits
<1>5. c.bits = Postings(c.items)
  BY <1>1, <1>4 DEF Settled
<1> QED BY <1>1, <1>5 DEF GoodBlock, c

LEMMA WithValues ==
  ASSUME NEW K, NEW v, NEW ids, \E y \in K : y.value = v
  PROVE  \A x \in With(K, v, ids) : \E y \in K : y.value = x.value
BY DEF With

(* The value is there: the IDs join its item.                              *)
Joined(bs, v, ids) ==
  [bs EXCEPT ![BlockAt(bs, v)] = AddToBlock(AddToItem(bs[BlockAt(bs, v)], v, ids), ids)]

LEMMA JoinedItem ==
  ASSUME NEW bs, Shape(bs), bs # <<>>, NEW v \in Values, NEW ids \in SUBSET Ids,
         \A k \in 1..Len(bs) : Settled(bs[k], v, ids),
         Has(bs[BlockAt(bs, v)], v)
  PROVE  Good(Joined(bs, v, ids)) /\ Kept(Joined(bs, v, ids)) = With(Kept(bs), v, ids)
<1> DEFINE at == BlockAt(bs, v)
           c == AddToBlock(AddToItem(bs[at], v, ids), ids)
<1>1. at \in 1..Len(bs)
  BY Located
<1>2. ShapeBlock(bs[at]) /\ Settled(bs[at], v, ids) /\ Has(bs[at], v)
  BY <1>1 DEF Shape
<1>3. GoodBlock(c) /\ Range(c.items) = With(Range(bs[at].items), v, ids)
  BY <1>2, GoodAfterBoth
<1>4. \E y \in Range(bs[at].items) : y.value = v
  BY <1>2, Positioned
<1> HIDE DEF c
<1>5. \A x \in Range(c.items) : \E y \in Range(bs[at].items) : y.value = x.value
  BY <1>3, <1>4, WithValues
<1>6. /\ Good([bs EXCEPT ![at] = c])
      /\ Kept([bs EXCEPT ![at] = c]) = Outside(bs, at, at) \cup Range(c.items)
  BY <1>3, <1>5, SettledIndex
<1>7. Kept([bs EXCEPT ![at] = c]) = With(Kept(bs), v, ids)
  BY <1>3, <1>6, WithOutside
<1> QED BY <1>6, <1>7 DEF c, Joined

LEMMA PlacedAt ==
  ASSUME NEW bs, Shape(bs), bs # <<>>, NEW v \in Values, \E x \in Kept(bs) : x.value = v
  PROVE  BlockAt(bs, v) \in 1..Len(bs) /\ Has(bs[BlockAt(bs, v)], v)
BY Located, FoundAt

LEMMA GoodNotEmpty ==
  ASSUME NEW bs, Good(bs)
  PROVE  /\ Shape(bs) /\ \A k \in 1..Len(bs) : \A v, ids : Settled(bs[k], v, ids)
BY SettledGood DEF Good

LEMMA OneItem ==
  ASSUME NEW x \in ItemSet
  PROVE  /\ <<x>> \in Seq(ItemSet) /\ Len(<<x>>) = 1 /\ <<x>>[1] = x
         /\ Range(<<x>>) = {x} /\ Ascending(<<x>>) /\ Postings(<<x>>) = x.bits
<1> DEFINE s == <<x>>
<1>1. Len(s) = 1 /\ s[1] = x /\ s \in Seq(ItemSet)
  OBVIOUS
<1>2. \A i \in 1..1 : i = 1
  OBVIOUS
<1> HIDE DEF s
<1>3. Range(s) = {s[i] : i \in 1..1}
  BY <1>1, ItemsOfSeq
<1>4. Range(s) = {x}
  BY <1>1, <1>2, <1>3
<1>5. Ascending(s)
  BY <1>1, <1>2 DEF Ascending
<1>6. Postings(s) = x.bits
  <2>1. AllBits({x}) = x.bits
    BY DEF AllBits
  <2> QED BY <2>1, <1>1, <1>4, PostingsOfRange
<1> QED BY <1>1, <1>4, <1>5, <1>6 DEF s

(* insert                                                                  *)
LEMMA WithIdEffect ==
  ASSUME NEW bs, Good(bs), NEW v \in Values, NEW id \in Ids
  PROVE  Good(WithId(bs, v, id)) /\ Kept(WithId(bs, v, id)) = With(Kept(bs), v, {id})
<1>0. {id} \in SUBSET Ids /\ Shape(bs) /\ (bs # <<>> => \A k \in 1..Len(bs) : Settled(bs[k], v, {id}))
  BY GoodNotEmpty
<1>1. CASE bs = <<>>
  <2> DEFINE s == <<[value |-> v, bits |-> {id}]>>
             b == [items |-> s, bits |-> {id}, alias |-> NoAlias]
  <2>1. [value |-> v, bits |-> {id}] \in ItemSet
    BY DEF ItemSet
  <2>2. \A i \in 1..1 : i = 1
    OBVIOUS
  <2>3. /\ s \in Seq(ItemSet) /\ Len(s) = 1 /\ Ascending(s)
        /\ Range(s) = {[value |-> v, bits |-> {id}]} /\ Postings(s) = {id}
    BY <2>1, OneItem
  <2>5. WithId(bs, v, id) = <<b>>
    BY <1>1 DEF WithId
  <2> HIDE DEF s
  <2>6. GoodBlock(b) /\ b.items = s
    <3>2. Len(s) \in 1..(2 * BlockSize)
      BY <2>3, OrderedAssumption
    <3> QED BY <2>3, <3>2, MadeBlock
  <2> HIDE DEF b
  <2>7. Shape(<<b>>) /\ Kept(<<b>>) = Range(b.items) /\ Len(<<b>>) = 1 /\ <<b>>[1] = b
    BY <2>6, OneBlock DEF GoodBlock
  <2>8. Good(<<b>>)
    <3> DEFINE w == <<b>>
    <3>1. Shape(w) /\ Len(w) = 1 /\ w[1] = b
      BY <2>7
    <3> HIDE DEF w
    <3>2. Good(w)
      BY <3>1, <2>2, <2>6 DEF Good
    <3> QED BY <3>2 DEF w
  <2>9. With({}, v, {id}) = {[value |-> v, bits |-> {id}]}
    <3>1. \A x \in {} : x.value # v
      OBVIOUS
    <3>2. With({}, v, {id}) = {} \cup {[value |-> v, bits |-> {id}]}
      BY <3>1, WithNew
    <3> QED BY <3>2
  <2> QED BY <1>1, <2>3, <2>5, <2>6, <2>7, <2>8, <2>9, KeptEmpty
<1>2. CASE bs # <<>> /\ Has(bs[BlockAt(bs, v)], v)
  <2>1. WithId(bs, v, id) = Joined(bs, v, {id})
    BY <1>2 DEF WithId, Joined
  <2> QED BY <1>0, <1>2, <2>1, JoinedItem
<1>3. CASE bs # <<>> /\ ~Has(bs[BlockAt(bs, v)], v)
  <2> DEFINE item == [value |-> v, bits |-> {}]
             placed == WithItem(Detached(bs), item)
             at == BlockAt(placed, v)
  <2>1. item \in ItemSet /\ item.value = v /\ item.bits = {}
    BY DEF ItemSet
  <2>2. \A x \in Kept(bs) : x.value # v
    BY <1>0, <1>3, FoundAt
  <2>3. WithId(bs, v, id) = Joined(placed, v, {id})
    BY <1>3 DEF WithId, Joined
  <2>4. /\ Shape(placed) /\ placed # <<>>
        /\ Kept(placed) = Kept(bs) \cup {item}
        /\ \A k \in 1..Len(placed) : placed[k].alias = NoAlias /\ Settled(placed[k], v, {id})
    <3> HIDE DEF item, placed, at
    <3>1. item \in ItemSet /\ (\A x \in Kept(bs) : x.value # item.value) /\ item.bits \subseteq {id}
      BY <2>1, <2>2
    <3>2. LET p == WithItem(Detached(bs), item)
         IN  /\ Shape(p) /\ p # <<>>
             /\ Kept(p) = Kept(bs) \cup {item}
             /\ \A k \in 1..Len(p) : p[k].alias = NoAlias /\ Settled(p[k], item.value, {id})
      BY <3>1, <1>0, <1>3, ItemPlaced
    <3> QED BY <3>2, <2>1 DEF placed
  <2> HIDE DEF placed
  <2>5. Has(placed[at], v)
    <3>1. \E x \in Kept(placed) : x.value = v
      BY <2>1, <2>4
    <3> QED BY <3>1, <2>4, PlacedAt
  <2> HIDE DEF item
  <2>6. Good(WithId(bs, v, id)) /\ Kept(WithId(bs, v, id)) = With(Kept(placed), v, {id})
    <3> DEFINE ids == {id}
    <3>1. \A k \in 1..Len(placed) : Settled(placed[k], v, ids)
      BY <2>4
    <3>2. WithId(bs, v, id) = Joined(placed, v, ids)
      BY <2>3
    <3>3. ids \in SUBSET Ids
      BY <1>0
    <3> HIDE DEF ids
    <3>4. Good(WithId(bs, v, id)) /\ Kept(WithId(bs, v, id)) = With(Kept(placed), v, ids)
      BY <2>4, <2>5, <3>1, <3>2, <3>3, JoinedItem
    <3> QED BY <3>4 DEF ids
  <2>7. With(Kept(bs) \cup {item}, v, {id}) = With(Kept(bs), v, {id})
    <3>1. item.bits \subseteq {id}
      BY <2>1
    <3> QED BY <2>1, <3>1, <2>2, WithPlaced
  <2> QED BY <2>4, <2>6, <2>7
<1> QED BY <1>1, <1>2, <1>3

(* insertPosting                                                           *)
LEMMA WithPostingEffect ==
  ASSUME NEW bs, Good(bs), NEW v \in Values, NEW ids \in SUBSET Ids
  PROVE  Good(WithPosting(bs, v, ids)) /\ Kept(WithPosting(bs, v, ids)) = With(Kept(bs), v, ids)
<1>0. Shape(bs) /\ (bs # <<>> => \A k \in 1..Len(bs) : Settled(bs[k], v, ids))
  BY GoodNotEmpty
<1> DEFINE item == [value |-> v, bits |-> ids]
<1>9. item \in ItemSet /\ item.value = v /\ item.bits = ids
  BY DEF ItemSet
<1>1. CASE bs = <<>>
  <2> DEFINE s == <<item>>
             b == Rebuilt(s)
  <2>2. \A i \in 1..1 : i = 1
    OBVIOUS
  <2>3. /\ s \in Seq(ItemSet) /\ Len(s) = 1 /\ s[1] = item /\ Ascending(s) /\ Range(s) = {item}
    BY <1>9, OneItem
  <2>5. WithPosting(bs, v, ids) = <<b>>
    BY <1>1 DEF WithPosting
  <2> HIDE DEF s
  <2>6. GoodBlock(b) /\ b.items = s
    <3>2. Len(s) \in 1..(2 * BlockSize)
      BY <2>3, OrderedAssumption
    <3>3. b = [items |-> s, bits |-> Postings(s), alias |-> s[1].value]
      BY <2>3 DEF Rebuilt
    <3> DEFINE a == s[1].value
    <3>4. a = NoAlias \/ (Len(s) = 1 /\ a = s[1].value)
      BY <2>3
    <3> HIDE DEF a
    <3>5. GoodBlock([items |-> s, bits |-> Postings(s), alias |-> a])
      BY <2>3, <3>2, <3>4, MadeBlock
    <3> QED BY <3>3, <3>5 DEF a
  <2> HIDE DEF b
  <2>7. Shape(<<b>>) /\ Kept(<<b>>) = Range(b.items) /\ Len(<<b>>) = 1 /\ <<b>>[1] = b
    BY <2>6, OneBlock DEF GoodBlock
  <2>8. Good(<<b>>)
    <3> DEFINE w == <<b>>
    <3>1. Shape(w) /\ Len(w) = 1 /\ w[1] = b
      BY <2>7
    <3> HIDE DEF w
    <3>2. Good(w)
      BY <3>1, <2>2, <2>6 DEF Good
    <3> QED BY <3>2 DEF w
  <2>9. With({}, v, ids) = {item}
    <3>1. \A x \in {} : x.value # v
      OBVIOUS
    <3>2. With({}, v, ids) = {} \cup {item}
      BY <3>1, WithNew
    <3> QED BY <3>2
  <2> QED BY <1>1, <2>3, <2>5, <2>6, <2>7, <2>8, <2>9, KeptEmpty
<1>2. CASE bs # <<>> /\ Has(bs[BlockAt(bs, v)], v)
  <2>1. WithPosting(bs, v, ids) = Joined(bs, v, ids)
    BY <1>2 DEF WithPosting, Joined
  <2> QED BY <1>0, <1>2, <2>1, JoinedItem
<1>3. CASE bs # <<>> /\ ~Has(bs[BlockAt(bs, v)], v)
  <2> DEFINE placed == WithItem(Detached(bs), item)
             at == BlockAt(placed, v)
             c == AddToBlock(placed[at], ids)
  <2>2. \A x \in Kept(bs) : x.value # v
    BY <1>0, <1>3, FoundAt
  <2>3. WithPosting(bs, v, ids) = [placed EXCEPT ![at] = c]
    BY <1>3 DEF WithPosting
  <2>4. /\ Shape(placed) /\ placed # <<>>
        /\ Kept(placed) = Kept(bs) \cup {item}
        /\ \A k \in 1..Len(placed) : placed[k].alias = NoAlias /\ Settled(placed[k], v, ids)
    <3> HIDE DEF item, placed, at
    <3>1. item \in ItemSet /\ (\A x \in Kept(bs) : x.value # item.value) /\ item.bits \subseteq ids
      BY <1>9, <2>2
    <3>2. LET p == WithItem(Detached(bs), item)
         IN  /\ Shape(p) /\ p # <<>>
             /\ Kept(p) = Kept(bs) \cup {item}
             /\ \A k \in 1..Len(p) : p[k].alias = NoAlias /\ Settled(p[k], item.value, ids)
      BY <3>1, <1>0, <1>3, ItemPlaced
    <3> QED BY <3>2, <1>9 DEF placed
  <2> HIDE DEF placed
  <2>5. at \in 1..Len(placed) /\ Has(placed[at], v)
    <3>1. \E x \in Kept(placed) : x.value = v
      BY <1>9, <2>4
    <3> QED BY <3>1, <2>4, PlacedAt
  <2> HIDE DEF at, item
  <2>6. /\ ShapeBlock(c) /\ c.bits = placed[at].bits \cup ids /\ c.items = placed[at].items
    <3>1. ShapeBlock(placed[at]) /\ placed[at].alias = NoAlias
      BY <2>4, <2>5 DEF Shape
    <3> QED BY <3>1, AddedToBlock
  <2> HIDE DEF c
  <2>11. item \in Range(c.items)
    <3>1. PICK k \in 1..Len(placed) : item \in Range(placed[k].items)
      BY <2>4 DEF Kept
    <3>2. /\ \A j \in 1..(at - 1) : \A x \in Range(placed[j].items) : x.value < v
          /\ \A j \in (at + 1)..Len(placed) : \A x \in Range(placed[j].items) : v < x.value
      BY <2>4, Located DEF at
    <3>3. k \in 1..(at - 1) \/ k \in (at + 1)..Len(placed) \/ k = at
      BY <2>5
    <3>4. v \in Int
      BY ValuesInt
    <3> QED BY <1>9, <2>6, <3>1, <3>2, <3>3, <3>4
  <2>7. GoodBlock(c)
    <3>1. c.items \in Seq(ItemSet)
      BY <2>6, BlockItems
    <3>2. Postings(c.items) = AllBits(Range(c.items))
      BY <3>1, PostingsOfRange
    <3>3. ids \subseteq Postings(c.items)
      BY <1>9, <2>11, <3>2 DEF AllBits
    <3>4. placed[at].bits \cup ids = Postings(placed[at].items) \cup ids
      BY <2>4, <2>5 DEF Settled
    <3> QED BY <2>6, <3>3, <3>4 DEF GoodBlock
  <2>8. \A x \in Range(c.items) : \E y \in Range(placed[at].items) : y.value = x.value
    BY <2>6
  <2>9. /\ Good([placed EXCEPT ![at] = c])
        /\ Kept([placed EXCEPT ![at] = c]) = Outside(placed, at, at) \cup Range(c.items)
    <3>1. \A k \in 1..Len(placed) : Settled(placed[k], v, ids)
      BY <2>4
    <3> QED BY <2>4, <2>5, <2>7, <2>8, <3>1, SettledIndex DEF at
  <2>10. Outside(placed, at, at) \cup Range(c.items) = Kept(placed)
    <3>1. Len(placed) \in Nat
      BY <2>4 DEF Shape
    <3> QED BY <2>5, <2>6, <3>1, KeptParts, InsideOne
  <2>12. With(Kept(bs), v, ids) = Kept(bs) \cup {[value |-> v, bits |-> ids]}
    BY <2>2, WithNew
  <2> QED BY <2>3, <2>4, <2>9, <2>10, <2>12 DEF item
<1> QED BY <1>1, <1>2, <1>3

-----------------------------------------------------------------------------
(* The items of all blocks in order, and copying them one by one.          *)

IsFlat(seqs, n, g) ==
  g = [i \in 1..n |-> IF i = 1 THEN seqs[i] ELSE g[i - 1] \o seqs[i]]

(* Flattening, one part at a time.                                         *)
LEMMA FlatAt ==
  ASSUME NEW seqs, NEW n \in Nat, NEW g, IsFlat(seqs, n, g), NEW i \in 1..n
  PROVE  g[i] = IF i = 1 THEN seqs[i] ELSE g[i - 1] \o seqs[i]
<1>1. g = [j \in 1..n |-> IF j = 1 THEN seqs[j] ELSE g[j - 1] \o seqs[j]]
  BY DEF IsFlat
<1> QED BY <1>1

LEMMA FlatExists ==
  ASSUME NEW seqs, NEW N \in Nat
  PROVE  \E g : IsFlat(seqs, N, g)
<1> DEFINE S == {n \in 0..N : \E g : IsFlat(seqs, n, g)}
<1>1. ASSUME NEW n \in 0..N, \A c \in 0..(n - 1) : c \in S
      PROVE  n \in S
  <2>1. CASE n = 0
    <3> DEFINE e == [i \in 1..0 |-> 0]
    <3>1. 1..0 = {}
      OBVIOUS
    <3>2. IsFlat(seqs, 0, e)
      BY <3>1 DEF IsFlat
    <3> QED BY <2>1, <3>2
  <2>2. CASE n # 0
    <3>1. n - 1 \in 0..(n - 1) /\ n - 1 \in Nat
      BY <2>2
    <3>2. PICK h : IsFlat(seqs, n - 1, h)
      BY <3>1, <1>1
    <3> DEFINE g == [i \in 1..n |-> IF i < n THEN h[i] ELSE IF i = 1 THEN seqs[i] ELSE h[i - 1] \o seqs[i]]
    <3>3. \A i \in 1..n : g[i] = IF i = 1 THEN seqs[i] ELSE g[i - 1] \o seqs[i]
      <4> TAKE i \in 1..n
      <4>1. CASE i < n
        <5>1. i \in 1..(n - 1) /\ g[i] = h[i] /\ (i # 1 => i - 1 \in 1..n /\ i - 1 < n /\ g[i - 1] = h[i - 1])
          BY <4>1
        <5>2. h[i] = IF i = 1 THEN seqs[i] ELSE h[i - 1] \o seqs[i]
          BY <5>1, <3>1, <3>2, FlatAt
        <5> HIDE DEF g
        <5> QED BY <5>1, <5>2
      <4>2. CASE ~ i < n
        <5>1. g[i] = IF i = 1 THEN seqs[i] ELSE h[i - 1] \o seqs[i]
          BY <4>2
        <5>2. i # 1 => g[i - 1] = h[i - 1]
          <6>1. i # 1 => i - 1 \in 1..n /\ i - 1 < n
            BY <4>2
          <6> QED BY <6>1
        <5> HIDE DEF g
        <5> QED BY <5>1, <5>2
      <4> QED BY <4>1, <4>2
    <3>4. g = [i \in 1..n |-> g[i]]
      OBVIOUS
    <3> HIDE DEF g
    <3>5. g = [i \in 1..n |-> IF i = 1 THEN seqs[i] ELSE g[i - 1] \o seqs[i]]
      BY <3>3, <3>4
    <3>6. IsFlat(seqs, n, g)
      BY <3>5 DEF IsFlat
    <3> QED BY <3>6
  <2> QED BY <2>1, <2>2
<1> HIDE DEF S
<1>2. \A n \in 0..N : n \in S
  BY <1>1, StrongInduction
<1>3. N \in S
  BY <1>2
<1> QED BY <1>3 DEF S

LEMMA Flattened ==
  ASSUME NEW seqs, Len(seqs) \in Nat, Len(seqs) # 0
  PROVE  \E g : IsFlat(seqs, Len(seqs), g) /\ FlattenSeq(seqs) = g[Len(seqs)]
<1> DEFINE flatten[i \in 1..Len(seqs)] == IF i = 1 THEN seqs[i] ELSE flatten[i - 1] \o seqs[i]
<1>1. flatten = CHOOSE g : IsFlat(seqs, Len(seqs), g)
  BY DEF flatten, IsFlat
<1>2. FlattenSeq(seqs) = flatten[Len(seqs)]
  BY DEF FlattenSeq
<1> HIDE DEF flatten
<1>3. \E g : IsFlat(seqs, Len(seqs), g)
  BY FlatExists
<1> QED BY <1>1, <1>2, <1>3

LEMMA JoinedItems ==
  ASSUME NEW s \in Seq(ItemSet), NEW t \in Seq(ItemSet), Ascending(s), Ascending(t),
         Precede(Range(s), Range(t))
  PROVE  /\ s \o t \in Seq(ItemSet) /\ Ascending(s \o t)
         /\ Range(s \o t) = Range(s) \cup Range(t)
<1> DEFINE u == s \o t
<1>0. Len(s) \in Nat /\ Len(t) \in Nat
  OBVIOUS
<1>1. u \in Seq(ItemSet) /\ Len(u) = Len(s) + Len(t)
      /\ (\A i \in 1..Len(s) : u[i] = s[i])
      /\ \A i \in 1..Len(u) : i > Len(s) => u[i] = t[i - Len(s)]
  OBVIOUS
<1> HIDE DEF u
<1>2. /\ Range(u) = {u[i] : i \in 1..Len(u)} /\ Range(s) = {s[i] : i \in 1..Len(s)}
      /\ Range(t) = {t[i] : i \in 1..Len(t)}
  BY <1>1, ItemsOfSeq
<1>3. ASSUME NEW i \in 1..Len(u)
      PROVE  \/ i =< Len(s) /\ i \in 1..Len(s) /\ u[i] = s[i]
             \/ i > Len(s) /\ i - Len(s) \in 1..Len(t) /\ u[i] = t[i - Len(s)]
  <2>1. i =< Len(s) \/ i > Len(s)
    BY <1>0
  <2> QED BY <2>1, <1>0, <1>1
<1>4. Ascending(u)
  <2> SUFFICES ASSUME NEW i \in 1..Len(u), NEW j \in 1..Len(u), i < j PROVE u[i].value < u[j].value
    BY DEF Ascending
  <2>1. CASE j =< Len(s)
    <3>1. i \in 1..Len(s) /\ j \in 1..Len(s) /\ u[i] = s[i] /\ u[j] = s[j]
      BY <2>1, <1>0, <1>1
    <3> QED BY <3>1 DEF Ascending
  <2>2. CASE i > Len(s)
    <3>1. /\ i - Len(s) \in 1..Len(t) /\ j - Len(s) \in 1..Len(t) /\ i - Len(s) < j - Len(s)
          /\ u[i] = t[i - Len(s)] /\ u[j] = t[j - Len(s)]
      BY <2>2, <1>0, <1>1
    <3> QED BY <3>1 DEF Ascending
  <2>3. CASE i =< Len(s) /\ j > Len(s)
    <3>1. u[i] \in Range(s) /\ u[j] \in Range(t)
      BY <2>3, <1>0, <1>2, <1>3
    <3> QED BY <3>1 DEF Precede
  <2> QED BY <2>1, <2>2, <2>3, <1>0
<1>5. \A x : x \in Range(u) => x \in Range(s) \/ x \in Range(t)
  BY <1>2, <1>3
<1>6. \A x \in Range(s) : x \in Range(u)
  <2> SUFFICES ASSUME NEW i \in 1..Len(s) PROVE s[i] \in Range(u)
    BY <1>2
  <2>1. i \in 1..Len(u)
    BY <1>0, <1>1
  <2> QED BY <2>1, <1>1, <1>2
<1>7. \A x \in Range(t) : x \in Range(u)
  <2> SUFFICES ASSUME NEW i \in 1..Len(t) PROVE t[i] \in Range(u)
    BY <1>2
  <2> DEFINE k == i + Len(s)
  <2>1. k \in 1..Len(u) /\ k > Len(s) /\ k - Len(s) = i
    BY <1>0, <1>1
  <2> HIDE DEF k
  <2>2. u[k] = t[i]
    BY <2>1, <1>1
  <2> QED BY <2>1, <2>2, <1>2
<1> QED BY <1>1, <1>4, <1>5, <1>6, <1>7 DEF u

(* All items in sequence: ascending, and those kept in the blocks.         *)
LEMMA ItemsEffect ==
  ASSUME NEW bs, Shape(bs)
  PROVE  /\ Items(bs) \in Seq(ItemSet) /\ Ascending(Items(bs))
         /\ Range(Items(bs)) = Kept(bs)
<1> DEFINE seqs == [i \in DOMAIN bs |-> bs[i].items]
           N == Len(bs)
<1>1. bs \in Seq(BlockSet) /\ N \in Nat /\ DOMAIN bs = 1..N
  BY DEF Shape
<1>2. \A i \in 1..N : bs[i].items \in Seq(ItemSet) /\ Ascending(bs[i].items)
  BY BlockItems DEF Shape, ShapeBlock
<1>3. seqs \in Seq(Seq(ItemSet)) /\ Len(seqs) = N /\ \A i \in 1..N : seqs[i] = bs[i].items
  BY <1>1, <1>2
<1>4. Items(bs) = FlattenSeq(seqs)
  BY DEF Items
<1>5. \A i, j \in 1..N : i < j => Precede(Range(bs[i].items), Range(bs[j].items))
  BY DEF Shape
<1> DEFINE Upto(n) == UNION {Range(bs[i].items) : i \in 1..n}
<1>6. Upto(N) = Kept(bs)
  BY DEF Kept
<1> HIDE DEF seqs
<1>7. CASE N = 0
  <2>1. seqs = <<>>
    BY <1>3, <1>7
  <2>2. Items(bs) = <<>>
    BY <1>3, <1>4, <1>7, <2>1 DEF FlattenSeq
  <2>3. bs = <<>>
    BY <1>1, <1>7
  <2>4. /\ <<>> \in Seq(ItemSet) /\ Len(<<>>) = 0 /\ 1..0 = {}
    OBVIOUS
  <2>5. Ascending(<<>>)
    BY <2>4 DEF Ascending
  <2>6. Range(<<>>) = {<<>>[i] : i \in 1..Len(<<>>)}
    BY <2>4, ItemsOfSeq
  <2>7. Range(<<>>) = {}
    BY <2>4, <2>6
  <2> QED BY <2>2, <2>3, <2>4, <2>5, <2>7, KeptEmpty
<1>8. CASE N # 0
  <2>1. PICK g : IsFlat(seqs, N, g) /\ FlattenSeq(seqs) = g[N]
    BY <1>1, <1>3, <1>8, Flattened
  <2> DEFINE P(n) == n = 0 \/ (g[n] \in Seq(ItemSet) /\ Ascending(g[n]) /\ Range(g[n]) = Upto(n))
             S == {n \in 0..N : P(n)}
  <2>2. ASSUME NEW n \in 0..N, \A c \in 0..(n - 1) : c \in S
        PROVE  n \in S
    <3>1. CASE n = 0
      BY <3>1
    <3>2. CASE n = 1
      <4>1. 1 \in 1..N
        BY <1>1, <1>8
      <4>2. g[1] = bs[1].items
        BY <4>1, <1>1, <1>3, <2>1, FlatAt
      <4>3. 1..1 = {1}
        OBVIOUS
      <4>4. Upto(1) = Range(bs[1].items)
        BY <4>3
      <4>5. g[1] \in Seq(ItemSet) /\ Ascending(g[1]) /\ Range(g[1]) = Upto(1)
        BY <4>1, <4>2, <4>4, <1>2
      <4> QED BY <3>2, <4>5
    <3>3. CASE n # 0 /\ n # 1
      <4>1. n \in 1..N /\ n - 1 \in 0..(n - 1) /\ n - 1 # 0
        BY <3>3
      <4>2. g[n] = g[n - 1] \o bs[n].items
        <5>1. g[n] = IF n = 1 THEN seqs[n] ELSE g[n - 1] \o seqs[n]
          BY <4>1, <1>1, <2>1, FlatAt, ZenonT(40)
        <5>2. seqs[n] = bs[n].items
          BY <4>1, <1>3
        <5> QED BY <5>1, <5>2, <3>3
      <4>3. g[n - 1] \in Seq(ItemSet) /\ Ascending(g[n - 1]) /\ Range(g[n - 1]) = Upto(n - 1)
        BY <4>1, <2>2
      <4>4. Precede(Upto(n - 1), Range(bs[n].items))
        <5> SUFFICES ASSUME NEW i \in 1..(n - 1), NEW x \in Range(bs[i].items), NEW y \in Range(bs[n].items)
                     PROVE  x.value < y.value
          BY DEF Precede
        <5>1. i \in 1..N /\ i < n
          BY <4>1
        <5> QED BY <5>1, <4>1, <1>5 DEF Precede
      <4>5. Upto(n) = Upto(n - 1) \cup Range(bs[n].items)
        <5>1. \A i : i \in 1..n <=> i \in 1..(n - 1) \/ i = n
          BY <4>1
        <5> QED BY <5>1
      <4> HIDE DEF Upto
      <4>6. /\ g[n - 1] \o bs[n].items \in Seq(ItemSet) /\ Ascending(g[n - 1] \o bs[n].items)
            /\ Range(g[n - 1] \o bs[n].items) = Range(g[n - 1]) \cup Range(bs[n].items)
        BY <4>1, <4>3, <4>4, <1>2, JoinedItems
      <4>7. P(n)
        BY <4>2, <4>3, <4>5, <4>6
      <4> QED BY <4>7
    <3> QED BY <3>1, <3>2, <3>3
  <2> HIDE DEF S
  <2>3. \A n \in 0..N : n \in S
    BY <1>1, <2>2, StrongInduction
  <2>4. N \in S
    BY <1>1, <2>3
  <2>5. P(N)
    BY <2>4 DEF S
  <2> HIDE DEF Upto
  <2> QED BY <1>4, <1>6, <1>8, <2>1, <2>5
<1> QED BY <1>7, <1>8

IsMade(items, n, g) ==
  g = [i \in 0..n |-> IF i = 0 THEN <<>> ELSE WithPosting(g[i - 1], items[i].value, items[i].bits)]

(* cloneBuild, one item at a time.                                         *)
LEMMA MadeAt ==
  ASSUME NEW items, NEW n \in Nat, NEW g, IsMade(items, n, g), NEW i \in 0..n
  PROVE  g[i] = IF i = 0 THEN <<>> ELSE WithPosting(g[i - 1], items[i].value, items[i].bits)
<1>1. g = [j \in 0..n |-> IF j = 0 THEN <<>> ELSE WithPosting(g[j - 1], items[j].value, items[j].bits)]
  BY DEF IsMade
<1> QED BY <1>1

LEMMA MadeExists ==
  ASSUME NEW items, NEW N \in Nat
  PROVE  \E g : IsMade(items, N, g)
<1> DEFINE S == {n \in 0..N : \E g : IsMade(items, n, g)}
<1>1. ASSUME NEW n \in 0..N, \A c \in 0..(n - 1) : c \in S
      PROVE  n \in S
  <2>1. CASE n = 0
    <3> DEFINE e == [i \in 0..0 |-> <<>>]
    <3>1. \A i \in 0..0 : i = 0
      OBVIOUS
    <3>2. e = [i \in 0..0 |-> IF i = 0 THEN <<>> ELSE WithPosting(e[i - 1], items[i].value, items[i].bits)]
      BY <3>1
    <3> HIDE DEF e
    <3>3. IsMade(items, 0, e)
      BY <3>2 DEF IsMade
    <3> QED BY <2>1, <3>3
  <2>2. CASE n # 0
    <3>1. n - 1 \in 0..(n - 1) /\ n - 1 \in Nat
      BY <2>2
    <3>2. PICK h : IsMade(items, n - 1, h)
      BY <3>1, <1>1
    <3> DEFINE g == [i \in 0..n |-> IF i < n THEN h[i]
                                    ELSE WithPosting(h[i - 1], items[i].value, items[i].bits)]
    <3>3. \A i \in 0..n : g[i] = IF i = 0 THEN <<>> ELSE WithPosting(g[i - 1], items[i].value, items[i].bits)
      <4> TAKE i \in 0..n
      <4>1. CASE i < n
        <5>1. i \in 0..(n - 1) /\ g[i] = h[i] /\ (i # 0 => i - 1 \in 0..n /\ i - 1 < n /\ g[i - 1] = h[i - 1])
          BY <4>1
        <5>2. h[i] = IF i = 0 THEN <<>> ELSE WithPosting(h[i - 1], items[i].value, items[i].bits)
          BY <5>1, <3>1, <3>2, MadeAt
        <5> HIDE DEF g
        <5> QED BY <5>1, <5>2
      <4>2. CASE ~ i < n
        <5>1. g[i] = WithPosting(h[i - 1], items[i].value, items[i].bits) /\ i # 0
          BY <4>2, <2>2
        <5>2. g[i - 1] = h[i - 1]
          <6>1. i - 1 \in 0..n /\ i - 1 < n
            BY <4>2, <2>2
          <6> QED BY <6>1
        <5> HIDE DEF g
        <5> QED BY <5>1, <5>2
      <4> QED BY <4>1, <4>2
    <3>4. g = [i \in 0..n |-> g[i]]
      OBVIOUS
    <3> HIDE DEF g
    <3>5. g = [i \in 0..n |-> IF i = 0 THEN <<>> ELSE WithPosting(g[i - 1], items[i].value, items[i].bits)]
      BY <3>3, <3>4
    <3>6. IsMade(items, n, g)
      BY <3>5 DEF IsMade
    <3> QED BY <3>6
  <2> QED BY <2>1, <2>2
<1> HIDE DEF S
<1>2. \A n \in 0..N : n \in S
  BY <1>1, StrongInduction
<1>3. N \in S
  BY <1>2
<1> QED BY <1>3 DEF S

LEMMA ItemParts ==
  \A x \in ItemSet : [value |-> x.value, bits |-> x.bits] = x
BY DEF ItemSet

(* cloneBuild keeps every posting.                                         *)
LEMMA ClonedEffect ==
  ASSUME NEW bs, Shape(bs)
  PROVE  Good(Cloned(bs)) /\ Kept(Cloned(bs)) = Kept(bs)
<1> DEFINE items == Items(bs)
           N == Len(items)
           made[n \in 0..N] ==
             IF n = 0 THEN <<>> ELSE WithPosting(made[n - 1], items[n].value, items[n].bits)
<1>1. made = CHOOSE g : IsMade(items, N, g)
  BY DEF made, IsMade
<1>2. Cloned(bs) = made[N]
  BY DEF Cloned
<1> HIDE DEF made
<1>3. items \in Seq(ItemSet) /\ N \in Nat /\ Ascending(items) /\ Range(items) = Kept(bs)
  BY ItemsEffect
<1> HIDE DEF items
<1>4. IsMade(items, N, made)
  <2>1. \E g : IsMade(items, N, g)
    BY <1>3, MadeExists
  <2> QED BY <1>1, <2>1
<1> DEFINE Upto(n) == {items[i] : i \in 1..n}
           P(n) == Good(made[n]) /\ Kept(made[n]) = Upto(n)
           S == {n \in 0..N : P(n)}
<1>5. ASSUME NEW n \in 0..N, \A c \in 0..(n - 1) : c \in S
      PROVE  n \in S
  <2>1. CASE n = 0
    <3>1. made[0] = <<>>
      BY <1>3, <1>4, MadeAt
    <3>2. Upto(0) = {}
      <4>1. 1..0 = {}
        OBVIOUS
      <4> QED BY <4>1
    <3> QED BY <2>1, <3>1, <3>2, KeptEmpty
  <2>2. CASE n # 0
    <3> DEFINE x == items[n]
    <3>1. n - 1 \in 0..(n - 1) /\ n \in 1..N /\ n \in Nat
      BY <2>2
    <3>2. made[n] = WithPosting(made[n - 1], items[n].value, items[n].bits)
      BY <2>2, <1>3, <1>4, MadeAt
    <3>3. Good(made[n - 1]) /\ Kept(made[n - 1]) = Upto(n - 1)
      BY <3>1, <1>5
    <3>4. x \in ItemSet
      BY <3>1, <1>3
    <3>5. x.value \in Values /\ x.bits \in SUBSET Ids /\ [value |-> x.value, bits |-> x.bits] = x
      BY <3>4, ItemProps, ItemParts
    <3>6. \A y \in Upto(n - 1) : y.value # x.value
      <4> SUFFICES ASSUME NEW i \in 1..(n - 1) PROVE items[i].value # x.value
        OBVIOUS
      <4>1. i \in 1..N /\ i < n
        BY <3>1
      <4>2. items[i].value < x.value
        BY <4>1, <3>1, <1>3 DEF Ascending
      <4>3. items[i] \in ItemSet
        BY <4>1, <1>3
      <4> QED BY <4>2, <4>3, <3>4, ItemProps
    <3>7. Upto(n) = Upto(n - 1) \cup {x}
      <4>1. \A i : i \in 1..n <=> i \in 1..(n - 1) \/ i = n
        BY <3>1
      <4> QED BY <4>1
    <3> HIDE DEF x, Upto
    <3>8. Good(made[n]) /\ Kept(made[n]) = With(Upto(n - 1), x.value, x.bits)
      BY <3>2, <3>3, <3>5, WithPostingEffect DEF x
    <3>9. With(Upto(n - 1), x.value, x.bits) = Upto(n - 1) \cup {[value |-> x.value, bits |-> x.bits]}
      BY <3>6, WithNew
    <3>10. P(n)
      BY <3>5, <3>7, <3>8, <3>9
    <3> QED BY <3>10
  <2> QED BY <2>1, <2>2
<1> HIDE DEF S
<1>6. \A n \in 0..N : n \in S
  BY <1>3, <1>5, StrongInduction
<1>7. N \in S
  BY <1>3, <1>6
<1>8. P(N)
  BY <1>7 DEF S
<1>9. Upto(N) = Range(items)
  BY <1>3, ItemsOfSeq
<1> HIDE DEF Upto
<1> QED BY <1>2, <1>3, <1>8, <1>9

-----------------------------------------------------------------------------
(* The postings an index keeps, whatever its blocks.                       *)

PostingFrom(K) == [v \in {x.value : x \in K} |-> BitsOf(K, v)]

(* The postings the blocks stand for.                                      *)
LEMMA PostingOfKept ==
  ASSUME NEW bs, Shape(bs)
  PROVE  PostingOf(bs) = PostingFrom(Kept(bs))
BY ItemsEffect DEF PostingOf, PostingFrom, BitsOf

-----------------------------------------------------------------------------
(* Merging neighbours.                                                     *)

(* A block made of ascending items is a good one.                          *)
LEMMA RebuiltGood ==
  ASSUME NEW s \in Seq(ItemSet), Ascending(s), Len(s) \in 1..(2 * BlockSize)
  PROVE  GoodBlock(Rebuilt(s)) /\ Rebuilt(s).items = s
<1> DEFINE a == IF Len(s) = 1 THEN s[1].value ELSE NoAlias
<1>1. Rebuilt(s) = [items |-> s, bits |-> Postings(s), alias |-> a]
  BY DEF Rebuilt
<1>2. a = NoAlias \/ (Len(s) = 1 /\ a = s[1].value)
  OBVIOUS
<1> HIDE DEF a
<1>3. GoodBlock([items |-> s, bits |-> Postings(s), alias |-> a])
  BY <1>2, MadeBlock
<1> QED BY <1>1, <1>3

(* An item replaced by one with its value.                                 *)
LEMMA ReplacedItem ==
  ASSUME NEW s \in Seq(ItemSet), Ascending(s), NEW i \in 1..Len(s), NEW item \in ItemSet,
         item.value = s[i].value
  PROVE  /\ ReplaceAt(s, i, item) \in Seq(ItemSet) /\ Len(ReplaceAt(s, i, item)) = Len(s)
         /\ Ascending(ReplaceAt(s, i, item))
         /\ Range(ReplaceAt(s, i, item)) = (Range(s) \ {s[i]}) \cup {item}
<1> DEFINE t == ReplaceAt(s, i, item)
<1>1. t \in Seq(ItemSet) /\ Len(t) = Len(s) /\ \A k \in 1..Len(s) : t[k] = IF k = i THEN item ELSE s[k]
  BY DEF ReplaceAt
<1> HIDE DEF t
<1>2. \A k \in 1..Len(s) : t[k].value = s[k].value
  BY <1>1
<1>3. Ascending(t)
  BY <1>1, <1>2 DEF Ascending
<1>4. Range(t) = {t[k] : k \in 1..Len(s)} /\ Range(s) = {s[k] : k \in 1..Len(s)}
  BY <1>1, ItemsOfSeq
<1>5. \A k \in 1..Len(s) : s[k] = s[i] => k = i
  BY AscendingOnce
<1>6. \A x : x \in Range(t) <=> x = item \/ (x \in Range(s) /\ x # s[i])
  <2>1. \A x \in Range(t) : x = item \/ (x \in Range(s) /\ x # s[i])
    BY <1>1, <1>4, <1>5
  <2>2. item \in Range(t)
    BY <1>1, <1>4
  <2>3. \A x \in Range(s) : x # s[i] => x \in Range(t)
    BY <1>1, <1>4
  <2> QED BY <2>1, <2>2, <2>3
<1>7. Range(t) = (Range(s) \ {s[i]}) \cup {item}
  BY <1>6
<1> QED BY <1>1, <1>3, <1>7 DEF t

LEMMA RemovedAt ==
  \A r, k : RemoveAt(r, k) = SubSeq(r, 1, k - 1) \o SubSeq(r, k + 1, Len(r))
BY DEF RemoveAt

(* Two adjacent items replaced by one with the value of either.            *)
LEMMA MergedItems ==
  ASSUME NEW s \in Seq(ItemSet), Ascending(s), NEW i \in 1..Len(s), i + 1 \in 1..Len(s),
         NEW item \in ItemSet, item.value = s[i].value \/ item.value = s[i + 1].value
  PROVE  LET t == RemoveAt(ReplaceAt(s, i, item), i + 1)
         IN  /\ t \in Seq(ItemSet) /\ Len(t) = Len(s) - 1 /\ Ascending(t)
             /\ Range(t) = (Range(s) \ {s[i], s[i + 1]}) \cup {item}
<1> DEFINE r == ReplaceAt(s, i, item)
           u == SubSeq(r, 1, i)
           w == SubSeq(r, i + 2, Len(r))
           t == u \o w
<1>0. Len(s) \in Nat /\ i \in Int /\ 1 =< i /\ i + 1 =< Len(s)
  OBVIOUS
<1>1. r \in Seq(ItemSet) /\ Len(r) = Len(s) /\ \A k \in 1..Len(s) : r[k] = IF k = i THEN item ELSE s[k]
  BY DEF ReplaceAt
<1>2. RemoveAt(r, i + 1) = t
  <2>1. (i + 1) - 1 = i /\ (i + 1) + 1 = i + 2
    BY <1>0
  <2> HIDE DEF r
  <2>2. RemoveAt(r, i + 1) = SubSeq(r, 1, (i + 1) - 1) \o SubSeq(r, (i + 1) + 1, Len(r))
    BY RemovedAt
  <2> QED BY <2>1, <2>2
<1> HIDE DEF r
<1>3. u \in Seq(ItemSet) /\ Len(u) = i /\ \A k \in 1..i : u[k] = r[k]
  BY <1>0, <1>1
<1>4. w \in Seq(ItemSet) /\ Len(w) = Len(s) - i - 1 /\ \A k \in 1..(Len(s) - i - 1) : w[k] = r[k + i + 1]
  <2>1. w \in Seq(ItemSet)
    BY <1>0, <1>1
  <2>2. Len(w) = Len(s) - i - 1
    BY <1>0, <1>1
  <2>3. \A k \in 1..(Len(s) - i - 1) : w[k] = r[k + i + 1]
    BY <1>0, <1>1
  <2> QED BY <2>1, <2>2, <2>3
<1> HIDE DEF u, w
<1>5. t \in Seq(ItemSet) /\ Len(t) = Len(s) - 1
  <2>0. u \in Seq(ItemSet) /\ w \in Seq(ItemSet)
    BY <1>3, <1>4
  <2>1. t \in Seq(ItemSet) /\ Len(t) = Len(u) + Len(w)
    BY <2>0
  <2> HIDE DEF t
  <2> QED BY <2>1, <1>0, <1>3, <1>4
<1>6. \A k \in 1..Len(t) : IF k =< i THEN t[k] = u[k] ELSE t[k] = w[k - i]
  BY <1>0, <1>3, <1>4, <1>5
<1> HIDE DEF t
<1>7. \A k \in 1..Len(t) : t[k] = IF k < i THEN s[k] ELSE IF k = i THEN item ELSE s[k + 1]
  <2> TAKE k \in 1..Len(t)
  <2>1. CASE k =< i
    <3>1. k \in 1..i /\ k \in 1..Len(s) /\ (k < i \/ k = i)
      BY <2>1, <1>0
    <3>2. t[k] = r[k]
      BY <3>1, <1>3, <1>6
    <3> QED BY <3>1, <3>2, <1>1
  <2>2. CASE ~ k =< i
    <3>1. k - i \in 1..(Len(s) - i - 1) /\ k - i + i + 1 = k + 1 /\ k + 1 \in 1..Len(s) /\ k + 1 # i
          /\ ~ k < i /\ k # i
      BY <2>2, <1>0, <1>5
    <3>2. t[k] = w[k - i] /\ w[k - i] = r[k - i + i + 1]
      BY <2>2, <3>1, <1>4, <1>6
    <3> QED BY <3>1, <3>2, <1>1
  <2> QED BY <2>1, <2>2
<1>8. \A k \in 1..Len(s) : s[k].value \in Int /\ s[k] \in ItemSet
  BY ItemProps
<1>9. \A k, l \in 1..Len(s) : k < l => s[k].value < s[l].value
  BY DEF Ascending
<1>10. Ascending(t)
  <2> SUFFICES ASSUME NEW k \in 1..Len(t), NEW l \in 1..Len(t), k < l PROVE t[k].value < t[l].value
    BY DEF Ascending
  <2>0. k \in 1..Len(s) /\ l \in 1..Len(s) /\ k + 1 \in 1..Len(s) /\ l + 1 \in 1..Len(s) /\ i \in 1..Len(s)
    BY <1>0, <1>5
  <2>1. s[i].value < s[i + 1].value
    BY <2>0, <1>0, <1>9
  <2>2. CASE l < i
    BY <2>0, <2>2, <1>0, <1>7, <1>9
  <2>3. CASE l = i
    <3>1. t[l] = item /\ t[k] = s[k] /\ s[k].value < s[i].value
      BY <2>0, <2>3, <1>0, <1>7, <1>9
    <3> QED BY <3>1, <2>0, <2>1, <1>8
  <2>4. CASE l > i
    <3>1. t[l] = s[l + 1] /\ s[i].value < s[l + 1].value /\ s[i + 1].value < s[l + 1].value
      BY <2>0, <2>4, <1>0, <1>7, <1>9
    <3>2. CASE k < i
      BY <3>1, <3>2, <2>0, <2>4, <1>0, <1>7, <1>9
    <3>3. CASE k = i
      BY <3>1, <3>3, <1>0, <1>7
    <3>4. CASE k > i
      <4>1. t[k] = s[k + 1] /\ k + 1 < l + 1
        BY <3>4, <2>0, <1>0, <1>7
      <4>2. s[k + 1].value < s[l + 1].value
        BY <4>1, <2>0, <1>9
      <4> QED BY <3>1, <4>1, <4>2
    <3> QED BY <3>2, <3>3, <3>4
  <2> QED BY <2>2, <2>3, <2>4
<1>11. Range(t) = {t[k] : k \in 1..Len(t)} /\ Range(s) = {s[k] : k \in 1..Len(s)}
  BY <1>5, ItemsOfSeq
<1>12. \A k \in 1..Len(s) : (s[k] = s[i] => k = i) /\ (s[k] = s[i + 1] => k = i + 1)
  BY AscendingOnce
<1>13. ASSUME NEW x \in Range(t) PROVE x = item \/ (x \in Range(s) /\ x # s[i] /\ x # s[i + 1])
  <2>1. PICK k \in 1..Len(t) : x = t[k]
    BY <1>11
  <2>2. CASE k < i
    <3>1. k \in 1..Len(s) /\ k # i /\ k # i + 1 /\ x = s[k]
      BY <2>1, <2>2, <1>0, <1>5, <1>7
    <3> QED BY <3>1, <1>11, <1>12
  <2>3. CASE k = i
    BY <2>1, <2>3, <1>7
  <2>4. CASE k > i
    <3>1. k + 1 \in 1..Len(s) /\ k + 1 # i /\ k + 1 # i + 1 /\ x = s[k + 1]
      BY <2>1, <2>4, <1>0, <1>5, <1>7
    <3> QED BY <3>1, <1>11, <1>12
  <2> QED BY <2>2, <2>3, <2>4, <1>0
<1>14. item \in Range(t)
  <2>1. i \in 1..Len(t) /\ t[i] = item
    BY <1>0, <1>5, <1>7
  <2> QED BY <2>1, <1>11
<1>15. ASSUME NEW x \in Range(s), x # s[i], x # s[i + 1] PROVE x \in Range(t)
  <2>1. PICK k \in 1..Len(s) : x = s[k]
    BY <1>11
  <2>2. k < i \/ k > i + 1
    BY <2>1, <1>15, <1>0
  <2>3. CASE k < i
    <3>1. k \in 1..Len(t) /\ t[k] = s[k]
      BY <2>3, <1>0, <1>5, <1>7
    <3> QED BY <2>1, <3>1, <1>11
  <2>4. CASE k > i + 1
    <3>1. k - 1 \in 1..Len(t) /\ k - 1 > i /\ k - 1 + 1 = k
      BY <2>4, <1>0, <1>5
    <3>2. t[k - 1] = s[k]
      BY <3>1, <1>0, <1>7
    <3> QED BY <2>1, <3>1, <3>2, <1>11
  <2> QED BY <2>2, <2>3, <2>4
<1>16. Range(t) = (Range(s) \ {s[i], s[i + 1]}) \cup {item}
  BY <1>13, <1>14, <1>15
<1> QED BY <1>2, <1>5, <1>10, <1>16 DEF r

LEMMA TailItems ==
  ASSUME NEW s \in Seq(ItemSet), Ascending(s), Len(s) >= 1
  PROVE  /\ Tail(s) \in Seq(ItemSet) /\ Len(Tail(s)) = Len(s) - 1 /\ Ascending(Tail(s))
         /\ Range(Tail(s)) = Range(s) \ {s[1]}
<1>0. Len(s) \in Nat
  OBVIOUS
<1> DEFINE t == Tail(s)
<1>1. t \in Seq(ItemSet) /\ Len(t) = Len(s) - 1 /\ \A k \in 1..Len(t) : t[k] = s[k + 1]
  <2>1. s # <<>>
    <3>1. Len(<<>>) = 0
      OBVIOUS
    <3> QED BY <3>1
  <2> QED BY <2>1, <1>0
<1> HIDE DEF t
<1>2. Ascending(t)
  <2> SUFFICES ASSUME NEW k \in 1..Len(t), NEW l \in 1..Len(t), k < l PROVE t[k].value < t[l].value
    BY DEF Ascending
  <2>1. k + 1 \in 1..Len(s) /\ l + 1 \in 1..Len(s) /\ k + 1 < l + 1
    BY <1>0, <1>1
  <2> QED BY <2>1, <1>1 DEF Ascending
<1>3. Range(t) = {t[k] : k \in 1..Len(t)} /\ Range(s) = {s[k] : k \in 1..Len(s)}
  BY <1>1, ItemsOfSeq
<1>4. 1 \in 1..Len(s)
  BY <1>0
<1>5. \A k \in 1..Len(s) : s[k] = s[1] => k = 1
  BY <1>4, AscendingOnce
<1>6. ASSUME NEW x \in Range(t) PROVE x \in Range(s) /\ x # s[1]
  <2>1. PICK k \in 1..Len(t) : x = s[k + 1]
    BY <1>1, <1>3
  <2>2. k + 1 \in 1..Len(s) /\ k + 1 # 1
    BY <1>0, <1>1
  <2> QED BY <2>1, <2>2, <1>3, <1>5
<1>7. ASSUME NEW x \in Range(s), x # s[1] PROVE x \in Range(t)
  <2>1. PICK k \in 1..Len(s) : x = s[k]
    BY <1>3
  <2>2. k # 1
    BY <2>1, <1>7
  <2>3. k - 1 \in 1..Len(t) /\ k - 1 + 1 = k
    BY <2>2, <1>0, <1>1
  <2> QED BY <2>1, <2>3, <1>1, <1>3
<1>8. Range(t) = Range(s) \ {s[1]}
  BY <1>6, <1>7
<1> QED BY <1>1, <1>2, <1>8 DEF t

LEMMA FrontItems ==
  ASSUME NEW s \in Seq(ItemSet), Ascending(s), Len(s) >= 1
  PROVE  /\ Front(s) \in Seq(ItemSet) /\ Len(Front(s)) = Len(s) - 1 /\ Ascending(Front(s))
         /\ Range(Front(s)) = Range(s) \ {s[Len(s)]}
<1>0. Len(s) \in Nat
  OBVIOUS
<1> DEFINE t == Front(s)
           N == Len(s)
<1>1. t \in Seq(ItemSet) /\ Len(t) = N - 1 /\ \A k \in 1..Len(t) : t[k] = s[k]
  <2>1. t = SubSeq(s, 1, N - 1)
    BY DEF Front
  <2>2. N - 1 \in (1 - 1)..Len(s) /\ 1 \in 1..(Len(s) + 1) /\ (N - 1) - 1 + 1 = N - 1
    BY <1>0
  <2>3. SubSeq(s, 1, N - 1) \in Seq(ItemSet) /\ Len(SubSeq(s, 1, N - 1)) = N - 1
        /\ \A k \in 1..(N - 1) : SubSeq(s, 1, N - 1)[k] = s[k]
    BY <1>0, <2>2, Z3
  <2> QED BY <2>1, <2>3
<1> HIDE DEF t
<1>2. Ascending(t)
  <2> SUFFICES ASSUME NEW k \in 1..Len(t), NEW l \in 1..Len(t), k < l PROVE t[k].value < t[l].value
    BY DEF Ascending
  <2>1. k \in 1..Len(s) /\ l \in 1..Len(s)
    BY <1>0, <1>1
  <2> QED BY <2>1, <1>1 DEF Ascending
<1>3. Range(t) = {t[k] : k \in 1..Len(t)} /\ Range(s) = {s[k] : k \in 1..Len(s)}
  BY <1>1, ItemsOfSeq
<1>4. N \in 1..Len(s)
  BY <1>0
<1>5. \A k \in 1..Len(s) : s[k] = s[N] => k = N
  BY <1>4, AscendingOnce
<1>6. ASSUME NEW x \in Range(t) PROVE x \in Range(s) /\ x # s[N]
  <2>1. PICK k \in 1..Len(t) : x = s[k]
    BY <1>1, <1>3
  <2>2. k \in 1..Len(s) /\ k # N
    BY <1>0, <1>1
  <2> QED BY <2>1, <2>2, <1>3, <1>5
<1>7. ASSUME NEW x \in Range(s), x # s[N] PROVE x \in Range(t)
  <2>1. PICK k \in 1..Len(s) : x = s[k]
    BY <1>3
  <2>2. k # N
    BY <2>1, <1>7
  <2>3. k \in 1..Len(t)
    BY <2>2, <1>0, <1>1
  <2> QED BY <2>1, <2>3, <1>1, <1>3
<1>8. Range(t) = Range(s) \ {s[N]}
  BY <1>6, <1>7
<1> QED BY <1>1, <1>2, <1>8 DEF t

-----------------------------------------------------------------------------

LeftItem(bs, n) == bs[n.lb].items[n.li]
RightItem(bs, n) == bs[n.rb].items[n.ri]

(* Where two neighbours lie.                                               *)
LEMMA NeighbourIn ==
  ASSUME NEW bs, Shape(bs), NEW n \in Neighbours(bs)
  PROVE  /\ n.lb \in 1..Len(bs) /\ n.rb \in 1..Len(bs)
         /\ n.li \in 1..Len(bs[n.lb].items) /\ n.ri \in 1..Len(bs[n.rb].items)
         /\ \/ n.rb = n.lb /\ n.ri = n.li + 1
            \/ n.rb = n.lb + 1 /\ n.li = Len(bs[n.lb].items) /\ n.ri = 1
         /\ LeftItem(bs, n) \in Range(bs[n.lb].items) /\ RightItem(bs, n) \in Range(bs[n.rb].items)
         /\ LeftItem(bs, n) \in ItemSet /\ RightItem(bs, n) \in ItemSet
         /\ ShapeBlock(bs[n.lb]) /\ ShapeBlock(bs[n.rb])
<1>1. DOMAIN bs = 1..Len(bs)
  BY DEF Shape
<1>2. /\ n.lb \in DOMAIN bs /\ n.rb \in DOMAIN bs
      /\ n.li \in 1..(2 * BlockSize) /\ n.ri \in 1..(2 * BlockSize)
      /\ n.li =< Len(bs[n.lb].items) /\ n.ri =< Len(bs[n.rb].items)
      /\ \/ n.rb = n.lb /\ n.ri = n.li + 1
         \/ n.rb = n.lb + 1 /\ n.li = Len(bs[n.lb].items) /\ n.ri = 1
  BY DEF Neighbours
<1>3. n.lb \in 1..Len(bs) /\ n.rb \in 1..Len(bs)
  BY <1>1, <1>2
<1>4. ShapeBlock(bs[n.lb]) /\ ShapeBlock(bs[n.rb])
  BY <1>3 DEF Shape
<1>5. Len(bs[n.lb].items) \in Nat /\ Len(bs[n.rb].items) \in Nat
  BY <1>4, BlockItems
<1>6. n.li \in 1..Len(bs[n.lb].items) /\ n.ri \in 1..Len(bs[n.rb].items)
  BY <1>2, <1>5, OrderedAssumption
<1>7. LeftItem(bs, n) \in Range(bs[n.lb].items) /\ LeftItem(bs, n) \in ItemSet
  BY <1>4, <1>6, BlockItems DEF LeftItem
<1>8. RightItem(bs, n) \in Range(bs[n.rb].items) /\ RightItem(bs, n) \in ItemSet
  BY <1>4, <1>6, BlockItems DEF RightItem
<1> QED BY <1>2, <1>3, <1>4, <1>6, <1>7, <1>8

(* Neighbours are adjacent: nothing is kept between their values.          *)
LEMMA NeighboursAdjacent ==
  ASSUME NEW bs, Shape(bs), NEW n \in Neighbours(bs)
  PROVE  /\ LeftItem(bs, n) \in Kept(bs) /\ RightItem(bs, n) \in Kept(bs)
         /\ LeftItem(bs, n).value < RightItem(bs, n).value
         /\ \A z \in Kept(bs) : z.value =< LeftItem(bs, n).value \/ z.value >= RightItem(bs, n).value
<1> DEFINE x == LeftItem(bs, n)
           y == RightItem(bs, n)
           L == bs[n.lb].items
           R == bs[n.rb].items
<1>1. /\ n.lb \in 1..Len(bs) /\ n.rb \in 1..Len(bs)
      /\ n.li \in 1..Len(L) /\ n.ri \in 1..Len(R)
      /\ \/ n.rb = n.lb /\ n.ri = n.li + 1
         \/ n.rb = n.lb + 1 /\ n.li = Len(L) /\ n.ri = 1
      /\ x \in Range(L) /\ y \in Range(R) /\ x \in ItemSet /\ y \in ItemSet
      /\ ShapeBlock(bs[n.lb]) /\ ShapeBlock(bs[n.rb])
  BY NeighbourIn
<1>2. x = L[n.li] /\ y = R[n.ri]
  BY DEF LeftItem, RightItem
<1>3. x.value \in Int /\ y.value \in Int
  BY <1>1, ItemProps
<1>4. \A i, j \in 1..Len(bs) : i < j => Precede(Range(bs[i].items), Range(bs[j].items))
  BY DEF Shape
<1>5. Ascending(L) /\ Ascending(R) /\ Len(L) \in Nat /\ Len(R) \in Nat /\ Len(bs) \in Nat
  BY <1>1, BlockItems DEF ShapeBlock, Shape
<1>6. x \in Kept(bs) /\ y \in Kept(bs)
  BY <1>1 DEF Kept
<1>7. x.value < y.value
  <2>1. CASE n.rb = n.lb /\ n.ri = n.li + 1
    <3>1. n.li < n.ri /\ n.li \in 1..Len(L) /\ n.ri \in 1..Len(L) /\ L = R
      BY <2>1, <1>1, <1>5
    <3> QED BY <3>1, <1>2, <1>5 DEF Ascending
  <2>2. CASE n.rb = n.lb + 1
    <3>1. n.lb < n.rb
      BY <2>2, <1>1
    <3> QED BY <3>1, <1>1, <1>4 DEF Precede
  <2> QED BY <2>1, <2>2, <1>1
<1>8. ASSUME NEW z \in Kept(bs) PROVE z.value =< x.value \/ z.value >= y.value
  <2>0. z \in ItemSet /\ z.value \in Int
    BY KeptItems, ItemProps
  <2>1. PICK i \in 1..Len(bs) : z \in Range(bs[i].items)
    BY DEF Kept
  <2>2. CASE i < n.lb
    BY <2>1, <2>2, <2>0, <1>1, <1>3, <1>4 DEF Precede
  <2>3. CASE i > n.rb
    BY <2>1, <2>3, <2>0, <1>1, <1>3, <1>4 DEF Precede
  <2>4. CASE i = n.lb
    <3>1. Range(L) = {L[j] : j \in 1..Len(L)} /\ \A j \in 1..Len(L) : L[j].value \in Int
      BY <1>1, BlockItems
    <3>2. PICK j \in 1..Len(L) : z = L[j]
      BY <2>1, <2>4, <3>1
    <3>3. CASE j =< n.li
      <4>1. j = n.li \/ j < n.li
        BY <3>3, <1>1, <1>5
      <4>2. z.value = x.value \/ z.value < x.value
        BY <4>1, <3>2, <1>1, <1>2, <1>5 DEF Ascending
      <4> QED BY <4>2, <2>0, <1>3
    <3>4. CASE j > n.li
      <4>1. n.rb = n.lb /\ n.ri = n.li + 1
        BY <3>4, <1>1, <1>5
      <4>2. L = R
        BY <4>1
      <4>3. j = n.ri \/ n.ri < j
        BY <3>4, <4>1, <1>1, <1>5
      <4>4. z.value = y.value \/ y.value < z.value
        BY <4>2, <4>3, <3>2, <1>1, <1>2, <1>5 DEF Ascending
      <4> QED BY <4>4, <2>0, <1>3
    <3> QED BY <3>3, <3>4, <1>1, <1>5
  <2>5. CASE i = n.rb /\ i # n.lb
    <3>1. Range(R) = {R[j] : j \in 1..Len(R)} /\ n.ri = 1
      BY <1>1, <2>5, BlockItems
    <3>2. PICK j \in 1..Len(R) : z = R[j]
      BY <2>1, <2>5, <3>1
    <3>3. j = 1 \/ 1 < j
      BY <3>2, <1>5
    <3>4. z.value = y.value \/ y.value < z.value
      BY <3>1, <3>2, <3>3, <1>1, <1>2, <1>5 DEF Ascending
    <3> QED BY <3>4, <2>0, <1>3
  <2>6. n.lb \in Int /\ n.rb \in Int /\ i \in Int /\ (n.rb = n.lb \/ n.rb = n.lb + 1)
    BY <1>1, <1>5
  <2>7. i < n.lb \/ i > n.rb \/ i = n.lb \/ (i = n.rb /\ i # n.lb)
    BY <2>6
  <2> QED BY <2>7, <2>2, <2>3, <2>4, <2>5
<1> QED BY <1>6, <1>7, <1>8

(* The item a merge leaves.                                                *)
LEMMA MergedItemIn ==
  ASSUME NEW bs, Shape(bs), NEW n \in Neighbours(bs)
  PROVE  /\ MergedItem(bs, n) \in ItemSet
         /\ MergedItem(bs, n).bits = LeftItem(bs, n).bits \cup RightItem(bs, n).bits
         /\ MergedItem(bs, n).value =
              IF dir = "lessThan" THEN RightItem(bs, n).value ELSE LeftItem(bs, n).value
<1>1. LeftItem(bs, n) \in ItemSet /\ RightItem(bs, n) \in ItemSet
  BY NeighbourIn
<1>2. MergedItem(bs, n) = [value |-> IF dir = "lessThan" THEN RightItem(bs, n).value ELSE LeftItem(bs, n).value,
                           bits |-> LeftItem(bs, n).bits \cup RightItem(bs, n).bits]
  BY DEF MergedItem, MergedPosting, LeftItem, RightItem
<1>3. /\ LeftItem(bs, n).value \in Values /\ RightItem(bs, n).value \in Values
      /\ LeftItem(bs, n).bits \in SUBSET Ids /\ RightItem(bs, n).bits \in SUBSET Ids
  BY <1>1, ItemProps
<1> HIDE DEF LeftItem, RightItem
<1> QED BY <1>2, <1>3 DEF ItemSet

-----------------------------------------------------------------------------

LEMMA PrecedeGood ==
  ASSUME NEW b, GoodBlock(b), NEW c, GoodBlock(c), Precede(Range(b.items), Range(c.items))
  PROVE  Good(<<b>> \o <<c>>) /\ Kept(<<b>> \o <<c>>) = Range(b.items) \cup Range(c.items)
<1>1. <<b>> \o <<c>> = <<b, c>>
  <2> DEFINE S == {b, c}
  <2>1. <<b>> \in Seq(S) /\ <<c>> \in Seq(S) /\ <<b, c>> \in Seq(S) /\ Len(<<b>>) = 1 /\ Len(<<c>>) = 1
        /\ <<b>>[1] = b /\ <<c>>[1] = c /\ <<b, c>>[1] = b /\ <<b, c>>[2] = c /\ Len(<<b, c>>) = 2
    OBVIOUS
  <2> DEFINE s == <<b>>
             t == <<c>>
             u == <<b, c>>
  <2>2. s \in Seq(S) /\ t \in Seq(S) /\ u \in Seq(S) /\ Len(s) = 1 /\ Len(t) = 1 /\ Len(u) = 2
        /\ s[1] = b /\ t[1] = c /\ u[1] = b /\ u[2] = c
    BY <2>1
  <2> HIDE DEF S, s, t, u
  <2>3. s \o t \in Seq(S) /\ Len(s \o t) = 2 /\ (s \o t)[1] = b /\ (s \o t)[2] = c
    <3>1. /\ s \o t \in Seq(S)
          /\ Len(s \o t) = Len(s) + Len(t)
          /\ \A i \in 1..(Len(s) + Len(t)) : (s \o t)[i] = IF i =< Len(s) THEN s[i] ELSE t[i - Len(s)]
      BY <2>2, ConcatProperties
    <3>2. 1 \in 1..(Len(s) + Len(t)) /\ 2 \in 1..(Len(s) + Len(t)) /\ 2 - Len(s) = 1
      BY <2>2
    <3> QED BY <3>1, <3>2, <2>2
  <2>4. \A i \in 1..2 : (s \o t)[i] = u[i]
    <3>1. \A i \in 1..2 : i = 1 \/ i = 2
      OBVIOUS
    <3> QED BY <2>2, <2>3, <3>1
  <2>5. s \o t = u
    BY <2>2, <2>3, <2>4, SeqEqual
  <2> QED BY <2>5 DEF s, t, u
<1>2. Shape(<<b, c>>) /\ Kept(<<b, c>>) = Range(b.items) \cup Range(c.items)
      /\ Len(<<b, c>>) = 2 /\ <<b, c>>[1] = b /\ <<b, c>>[2] = c
  BY TwoBlocks DEF GoodBlock
<1>3. \A i \in 1..2 : i = 1 \/ i = 2
  OBVIOUS
<1>4. Good(<<b, c>>)
  BY <1>2, <1>3 DEF Good
<1> QED BY <1>1, <1>2, <1>4

LEMMA OneGood ==
  ASSUME NEW b, GoodBlock(b)
  PROVE  Good(<<b>>) /\ Kept(<<b>>) = Range(b.items)
<1>1. Shape(<<b>>) /\ Kept(<<b>>) = Range(b.items) /\ Len(<<b>>) = 1 /\ <<b>>[1] = b
  BY OneBlock DEF GoodBlock
<1>2. \A i \in 1..1 : i = 1
  OBVIOUS
<1> QED BY <1>1, <1>2 DEF Good

(* A block rebuilt beside what is left of its neighbour.                   *)
LEMMA RebuiltBefore ==
  ASSUME NEW a \in Seq(ItemSet), Ascending(a), Len(a) \in 1..(2 * BlockSize),
         NEW c \in Seq(ItemSet), Ascending(c), Len(c) \in 0..(2 * BlockSize),
         Precede(Range(a), Range(c))
  PROVE  /\ Good(<<Rebuilt(a)>> \o RebuiltIfAny(c))
         /\ Kept(<<Rebuilt(a)>> \o RebuiltIfAny(c)) = Range(a) \cup Range(c)
<1> DEFINE b == Rebuilt(a)
<1>1. GoodBlock(b) /\ b.items = a
  BY RebuiltGood
<1> HIDE DEF b
<1>2. CASE c = <<>>
  <2>1. Range(c) = {}
    BY <1>2 DEF Range
  <2>2. <<b>> \o RebuiltIfAny(c) = <<b>>
    BY <1>2 DEF RebuiltIfAny
  <2> QED BY <2>1, <2>2, <1>1, OneGood DEF b
<1>3. CASE c # <<>>
  <2>0. Len(c) \in 1..(2 * BlockSize)
    <3>1. Len(c) # 0
      BY <1>3
    <3> QED BY <3>1, OrderedAssumption
  <2> DEFINE d == Rebuilt(c)
  <2>1. GoodBlock(d) /\ d.items = c
    BY <2>0, RebuiltGood
  <2>2. RebuiltIfAny(c) = <<d>>
    BY <1>3 DEF RebuiltIfAny
  <2> HIDE DEF d
  <2>3. Good(<<b>> \o <<d>>) /\ Kept(<<b>> \o <<d>>) = Range(a) \cup Range(c)
    BY <1>1, <2>1, PrecedeGood
  <2> QED BY <2>2, <2>3 DEF b
<1> QED BY <1>2, <1>3

LEMMA RebuiltAfter ==
  ASSUME NEW a \in Seq(ItemSet), Ascending(a), Len(a) \in 0..(2 * BlockSize),
         NEW c \in Seq(ItemSet), Ascending(c), Len(c) \in 1..(2 * BlockSize),
         Precede(Range(a), Range(c))
  PROVE  /\ Good(RebuiltIfAny(a) \o <<Rebuilt(c)>>)
         /\ Kept(RebuiltIfAny(a) \o <<Rebuilt(c)>>) = Range(a) \cup Range(c)
<1> DEFINE d == Rebuilt(c)
<1>1. GoodBlock(d) /\ d.items = c
  BY RebuiltGood
<1> HIDE DEF d
<1>2. CASE a = <<>>
  <2>1. Range(a) = {}
    BY <1>2 DEF Range
  <2>2. RebuiltIfAny(a) \o <<d>> = <<d>>
    BY <1>2 DEF RebuiltIfAny
  <2> QED BY <2>1, <2>2, <1>1, OneGood DEF d
<1>3. CASE a # <<>>
  <2>0. Len(a) \in 1..(2 * BlockSize)
    <3>1. Len(a) # 0
      BY <1>3
    <3> QED BY <3>1, OrderedAssumption
  <2> DEFINE b == Rebuilt(a)
  <2>1. GoodBlock(b) /\ b.items = a
    BY <2>0, RebuiltGood
  <2>2. RebuiltIfAny(a) = <<b>>
    BY <1>3 DEF RebuiltIfAny
  <2> HIDE DEF b
  <2>3. Good(<<b>> \o <<d>>) /\ Kept(<<b>> \o <<d>>) = Range(a) \cup Range(c)
    BY <1>1, <2>1, PrecedeGood
  <2> QED BY <2>2, <2>3 DEF d
<1> QED BY <1>2, <1>3

(* The parts a merge leaves: the two items replaced by the merged one.     *)
LEMMA MergePartsSame ==
  ASSUME NEW bs, Good(bs), NEW n \in Neighbours(bs), n.rb = n.lb
  PROVE  /\ Good(MergeParts(bs, n))
         /\ Kept(MergeParts(bs, n)) =
              (Range(bs[n.lb].items) \ {LeftItem(bs, n), RightItem(bs, n)}) \cup {MergedItem(bs, n)}
<1> DEFINE L == bs[n.lb].items
           item == MergedItem(bs, n)
           t == RemoveAt(ReplaceAt(L, n.li, item), n.li + 1)
<1>1. Shape(bs)
  BY DEF Good
<1>2. /\ n.lb \in 1..Len(bs) /\ n.li \in 1..Len(L) /\ n.ri \in 1..Len(L) /\ ShapeBlock(bs[n.lb])
      /\ \/ n.rb = n.lb /\ n.ri = n.li + 1
         \/ n.rb = n.lb + 1 /\ n.li = Len(bs[n.lb].items) /\ n.ri = 1
  BY <1>1, NeighbourIn
<1>3. n.ri = n.li + 1
  <2>1. Len(bs) \in Nat
    BY <1>1 DEF Shape
  <2> QED BY <2>1, <1>2
<1>4. L \in Seq(ItemSet) /\ Ascending(L) /\ Len(L) \in 1..(2 * BlockSize)
  BY <1>2 DEF ShapeBlock, BlockSet
<1>5. LeftItem(bs, n) = L[n.li] /\ RightItem(bs, n) = L[n.li + 1]
  BY <1>3 DEF LeftItem, RightItem
<1>6. item \in ItemSet /\ (item.value = L[n.li].value \/ item.value = L[n.li + 1].value)
  BY <1>1, <1>5, MergedItemIn
<1>7. MergeParts(bs, n) = <<Rebuilt(t)>>
  BY <1>3 DEF MergeParts
<1>8. n.li \in 1..Len(L) /\ n.li + 1 \in 1..Len(L)
  BY <1>2, <1>3
<1> HIDE DEF L, item
<1>9. t \in Seq(ItemSet) /\ Len(t) = Len(L) - 1 /\ Ascending(t)
      /\ Range(t) = (Range(L) \ {L[n.li], L[n.li + 1]}) \cup {item}
  BY <1>4, <1>6, <1>8, MergedItems, ZenonT(40)
<1> HIDE DEF t
<1>10. Len(t) \in 1..(2 * BlockSize)
  BY <1>9, <1>4, <1>8, OrderedAssumption
<1>11. GoodBlock(Rebuilt(t)) /\ Rebuilt(t).items = t
  BY <1>9, <1>10, RebuiltGood
<1>12. Good(<<Rebuilt(t)>>) /\ Kept(<<Rebuilt(t)>>) = Range(t)
  BY <1>11, OneGood
<1> QED BY <1>5, <1>7, <1>9, <1>12 DEF L, item

LEMMA NeighbourRanges ==
  ASSUME NEW bs, Shape(bs), NEW n \in Neighbours(bs), n.rb # n.lb
  PROVE  /\ n.rb = n.lb + 1 /\ n.li = Len(bs[n.lb].items) /\ n.ri = 1
         /\ bs[n.lb].items \in Seq(ItemSet) /\ Ascending(bs[n.lb].items)
         /\ Len(bs[n.lb].items) \in 1..(2 * BlockSize)
         /\ bs[n.rb].items \in Seq(ItemSet) /\ Ascending(bs[n.rb].items)
         /\ Len(bs[n.rb].items) \in 1..(2 * BlockSize)
         /\ Precede(Range(bs[n.lb].items), Range(bs[n.rb].items))
<1>1. /\ n.lb \in 1..Len(bs) /\ n.rb \in 1..Len(bs)
      /\ n.rb = n.lb + 1 /\ n.li = Len(bs[n.lb].items) /\ n.ri = 1
      /\ ShapeBlock(bs[n.lb]) /\ ShapeBlock(bs[n.rb])
  BY NeighbourIn
<1>2. n.lb < n.rb
  BY <1>1
<1>3. Precede(Range(bs[n.lb].items), Range(bs[n.rb].items))
  BY <1>1, <1>2 DEF Shape
<1> QED BY <1>1, <1>3 DEF ShapeBlock, BlockSet

(* The blocks rebuilt when the neighbours are in two of them.              *)
LEMMA MergePartsAcross ==
  ASSUME NEW bs, Good(bs), NEW n \in Neighbours(bs), n.rb # n.lb, dir \in Directions
  PROVE  /\ Good(MergeParts(bs, n))
         /\ Kept(MergeParts(bs, n)) =
              ((Range(bs[n.lb].items) \cup Range(bs[n.rb].items))
                 \ {LeftItem(bs, n), RightItem(bs, n)}) \cup {MergedItem(bs, n)}
<1> DEFINE L == bs[n.lb].items
           R == bs[n.rb].items
           x == LeftItem(bs, n)
           y == RightItem(bs, n)
           item == MergedItem(bs, n)
<1>1. Shape(bs)
  BY DEF Good
<1>2. /\ n.rb = n.lb + 1 /\ n.li = Len(L) /\ n.ri = 1
      /\ L \in Seq(ItemSet) /\ Ascending(L) /\ Len(L) \in 1..(2 * BlockSize)
      /\ R \in Seq(ItemSet) /\ Ascending(R) /\ Len(R) \in 1..(2 * BlockSize)
      /\ Precede(Range(L), Range(R))
  BY <1>1, NeighbourRanges
<1>3. x = L[Len(L)] /\ y = R[1]
  BY <1>2 DEF LeftItem, RightItem
<1>4. item \in ItemSet /\ item.value = IF dir = "lessThan" THEN y.value ELSE x.value
  BY <1>1, MergedItemIn
<1>5. x \in Range(L) /\ y \in Range(R) /\ x \in ItemSet /\ y \in ItemSet
      /\ x.value \in Int /\ y.value \in Int /\ x.value < y.value
  BY <1>1, NeighbourIn, NeighboursAdjacent, ItemProps
<1>6. MergeParts(bs, n) =
        IF dir = "greaterThan"
           THEN <<Rebuilt(ReplaceAt(L, Len(L), item))>> \o RebuiltIfAny(Tail(R))
           ELSE RebuiltIfAny(Front(L)) \o <<Rebuilt(ReplaceAt(R, 1, item))>>
  BY <1>2 DEF MergeParts
<1> HIDE DEF L, R, x, y, item
<1>6a. x \notin Range(R) /\ y \notin Range(L)
  BY <1>2, <1>5 DEF Precede
<1>7. Len(L) \in 1..Len(L) /\ 1 \in 1..Len(R) /\ Len(L) \in Nat /\ Len(R) \in Nat
  BY <1>2
<1>8. CASE dir = "greaterThan"
  <2> DEFINE a == ReplaceAt(L, Len(L), item)
             c == Tail(R)
  <2>1. item.value = x.value
    BY <1>4, <1>8
  <2>2. a \in Seq(ItemSet) /\ Len(a) = Len(L) /\ Ascending(a) /\ Range(a) = (Range(L) \ {x}) \cup {item}
    BY <1>2, <1>3, <1>4, <1>7, <2>1, ReplacedItem
  <2>3. c \in Seq(ItemSet) /\ Len(c) = Len(R) - 1 /\ Ascending(c) /\ Range(c) = Range(R) \ {y}
    BY <1>2, <1>3, <1>7, TailItems
  <2> HIDE DEF a, c
  <2>4. Len(a) \in 1..(2 * BlockSize) /\ Len(c) \in 0..(2 * BlockSize)
    BY <1>2, <2>2, <2>3, OrderedAssumption
  <2>5. Precede(Range(a), Range(c))
    BY <1>2, <1>5, <2>1, <2>2, <2>3 DEF Precede
  <2>6. /\ Good(<<Rebuilt(a)>> \o RebuiltIfAny(c))
        /\ Kept(<<Rebuilt(a)>> \o RebuiltIfAny(c)) = Range(a) \cup Range(c)
    BY <2>2, <2>3, <2>4, <2>5, RebuiltBefore
  <2>7. Range(a) \cup Range(c) = ((Range(L) \cup Range(R)) \ {x, y}) \cup {item}
    BY <2>2, <2>3, <1>6a
  <2>8. MergeParts(bs, n) = <<Rebuilt(a)>> \o RebuiltIfAny(c)
    BY <1>6, <1>8 DEF a, c
  <2> QED BY <2>6, <2>7, <2>8 DEF L, R, x, y, item
<1>9. CASE dir # "greaterThan"
  <2> DEFINE a == Front(L)
             c == ReplaceAt(R, 1, item)
  <2>1. item.value = y.value
    BY <1>4, <1>9 DEF Directions
  <2>2. c \in Seq(ItemSet) /\ Len(c) = Len(R) /\ Ascending(c) /\ Range(c) = (Range(R) \ {y}) \cup {item}
    BY <1>2, <1>3, <1>4, <1>7, <2>1, ReplacedItem
  <2>3. a \in Seq(ItemSet) /\ Len(a) = Len(L) - 1 /\ Ascending(a) /\ Range(a) = Range(L) \ {x}
    BY <1>2, <1>3, <1>7, FrontItems
  <2> HIDE DEF a, c
  <2>4. Len(c) \in 1..(2 * BlockSize) /\ Len(a) \in 0..(2 * BlockSize)
    BY <1>2, <2>2, <2>3, OrderedAssumption
  <2>5. Precede(Range(a), Range(c))
    BY <1>2, <1>5, <2>1, <2>2, <2>3 DEF Precede
  <2>6. /\ Good(RebuiltIfAny(a) \o <<Rebuilt(c)>>)
        /\ Kept(RebuiltIfAny(a) \o <<Rebuilt(c)>>) = Range(a) \cup Range(c)
    BY <2>2, <2>3, <2>4, <2>5, RebuiltAfter
  <2>7. Range(a) \cup Range(c) = ((Range(L) \cup Range(R)) \ {x, y}) \cup {item}
    BY <2>2, <2>3, <1>6a
  <2>8. MergeParts(bs, n) = RebuiltIfAny(a) \o <<Rebuilt(c)>>
    BY <1>6, <1>9 DEF a, c
  <2> QED BY <2>6, <2>7, <2>8 DEF L, R, x, y, item
<1> QED BY <1>8, <1>9

LEMMA InsideTwo ==
  ASSUME NEW bs, Len(bs) \in Nat, NEW at \in 1..Len(bs), at + 1 \in 1..Len(bs)
  PROVE  Inside(bs, at, at + 1) = Range(bs[at].items) \cup Range(bs[at + 1].items)
<1>1. {j \in 1..Len(bs) : at =< j /\ j =< at + 1} = {at, at + 1}
  OBVIOUS
<1> QED BY <1>1 DEF Inside

(* What the two blocks kept, with the neighbours become one item.          *)
LEMMA MergePartsEffect ==
  ASSUME NEW bs, Good(bs), NEW n \in Neighbours(bs), dir \in Directions
  PROVE  /\ Good(MergeParts(bs, n))
         /\ Kept(MergeParts(bs, n)) =
              (Inside(bs, n.lb, n.rb) \ {LeftItem(bs, n), RightItem(bs, n)}) \cup {MergedItem(bs, n)}
<1>1. Shape(bs) /\ Len(bs) \in Nat
  BY DEF Good, Shape
<1>2. n.lb \in 1..Len(bs) /\ n.rb \in 1..Len(bs) /\ (n.rb = n.lb \/ n.rb = n.lb + 1)
  BY <1>1, NeighbourIn
<1>3. CASE n.rb = n.lb
  <2>1. Inside(bs, n.lb, n.rb) = Range(bs[n.lb].items)
    BY <1>1, <1>2, <1>3, InsideOne
  <2> QED BY <2>1, <1>3, MergePartsSame
<1>4. CASE n.rb = n.lb + 1
  <2>1. n.rb # n.lb
    BY <1>2, <1>4
  <2>2. Inside(bs, n.lb, n.rb) = Range(bs[n.lb].items) \cup Range(bs[n.rb].items)
    BY <1>1, <1>2, <1>4, InsideTwo
  <2> QED BY <2>1, <2>2, MergePartsAcross
<1> QED BY <1>2, <1>3, <1>4

(* What is kept outside some blocks is not kept inside them.               *)
LEMMA OutsideApart ==
  ASSUME NEW bs, Shape(bs), NEW lo \in Int, NEW hi \in Int, NEW x \in Inside(bs, lo, hi)
  PROVE  x \notin Outside(bs, lo, hi)
<1> SUFFICES ASSUME x \in Outside(bs, lo, hi) PROVE FALSE
  OBVIOUS
<1>1. PICK i \in 1..Len(bs) : (i < lo \/ i > hi) /\ x \in Range(bs[i].items)
  BY DEF Outside
<1>2. PICK j \in 1..Len(bs) : lo =< j /\ j =< hi /\ x \in Range(bs[j].items)
  BY DEF Inside
<1>3. i < j \/ j < i
  BY <1>1, <1>2
<1>4. ShapeBlock(bs[i])
  BY DEF Shape
<1>5. x \in ItemSet
  BY <1>1, <1>4, BlockItems
<1>6. x.value \in Int
  BY <1>5, ItemProps
<1>7. x.value < x.value
  BY <1>1, <1>2, <1>3 DEF Shape, Precede
<1> QED BY <1>6, <1>7

(* rebuildSelectedOrderedBoundaryInto: one item instead of two.            *)
LEMMA MergedEffect ==
  ASSUME NEW bs, Good(bs), NEW n \in Neighbours(bs), dir \in Directions
  PROVE  /\ Good(Merged(bs, n))
         /\ Kept(Merged(bs, n)) =
              (Kept(bs) \ {LeftItem(bs, n), RightItem(bs, n)}) \cup {MergedItem(bs, n)}
<1> DEFINE mid == MergeParts(bs, n)
           lo == n.lb
           hi == n.rb
           x == LeftItem(bs, n)
           y == RightItem(bs, n)
           item == MergedItem(bs, n)
<1>1. Shape(bs) /\ Len(bs) \in Nat
  BY DEF Good, Shape
<1>2. lo \in 1..Len(bs) /\ hi \in 1..Len(bs) /\ (hi = lo \/ hi = lo + 1)
      /\ x \in Range(bs[lo].items) /\ y \in Range(bs[hi].items)
  BY <1>1, NeighbourIn
<1>3. item.value = x.value \/ item.value = y.value
  BY <1>1, MergedItemIn
<1>4. Good(mid) /\ Kept(mid) = (Inside(bs, lo, hi) \ {x, y}) \cup {item}
  BY MergePartsEffect
<1>5. Merged(bs, n) = SubSeq(bs, 1, lo - 1) \o mid \o SubSeq(bs, hi + 1, Len(bs))
  BY DEF Merged
<1> HIDE DEF mid, lo, hi, x, y, item
<1>6. x \in Inside(bs, lo, hi) /\ y \in Inside(bs, lo, hi)
  <2>1. lo \in {j \in 1..Len(bs) : lo =< j /\ j =< hi} /\ hi \in {j \in 1..Len(bs) : lo =< j /\ j =< hi}
    BY <1>1, <1>2
  <2> QED BY <1>2, <2>1 DEF Inside
<1>7. \A z \in Kept(mid) : \E w \in Inside(bs, lo, hi) : w.value = z.value
  BY <1>3, <1>4, <1>6
<1>8. \A z \in Kept(mid) : \E j \in 1..Len(bs) : \E w \in Range(bs[j].items) :
        lo =< j /\ j =< hi /\ w.value = z.value
  BY <1>7 DEF Inside
<1>9. \A i, j \in 1..Len(bs) : i < j => Precede(Range(bs[i].items), Range(bs[j].items))
  BY <1>1 DEF Shape
<1>10. \A i \in 1..(lo - 1) : Precede(Range(bs[i].items), Kept(mid))
  <2> SUFFICES ASSUME NEW i \in 1..(lo - 1), NEW w \in Range(bs[i].items), NEW z \in Kept(mid)
               PROVE  w.value < z.value
    BY DEF Precede
  <2>1. PICK j \in 1..Len(bs) : \E u \in Range(bs[j].items) : lo =< j /\ j =< hi /\ u.value = z.value
    BY <1>8
  <2>2. i < j /\ i \in 1..Len(bs)
    BY <2>1, <1>1, <1>2
  <2> QED BY <2>1, <2>2, <1>9 DEF Precede
<1>11. \A i \in (hi + 1)..Len(bs) : Precede(Kept(mid), Range(bs[i].items))
  <2> SUFFICES ASSUME NEW i \in (hi + 1)..Len(bs), NEW w \in Range(bs[i].items), NEW z \in Kept(mid)
               PROVE  z.value < w.value
    BY DEF Precede
  <2>1. PICK j \in 1..Len(bs) : \E u \in Range(bs[j].items) : lo =< j /\ j =< hi /\ u.value = z.value
    BY <1>8
  <2>2. j < i /\ i \in 1..Len(bs)
    BY <2>1, <1>1, <1>2
  <2> QED BY <2>1, <2>2, <1>9 DEF Precede
<1> DEFINE new == SubSeq(bs, 1, lo - 1) \o mid \o SubSeq(bs, hi + 1, Len(bs))
<1>12. lo \in 1..(Len(bs) + 1) /\ hi \in (lo - 1)..Len(bs) /\ lo \in Int /\ hi \in Int
  BY <1>1, <1>2
<1>13. BlocksSpliced(new, bs, mid, lo, hi)
  BY <1>1, <1>4, <1>10, <1>11, <1>12, ShapeSpliced DEF Good
<1> HIDE DEF new
<1>14. /\ Shape(new)
       /\ Kept(new) = Outside(bs, lo, hi) \cup Kept(mid)
       /\ \A k \in 1..Len(new) :
            \/ \E i \in 1..Len(bs) : (i < lo \/ i > hi) /\ new[k] = bs[i]
            \/ \E m \in 1..Len(mid) : new[k] = mid[m]
  BY <1>13 DEF BlocksSpliced
<1>15. Good(new)
  BY <1>4, <1>14 DEF Good
<1>16. x \notin Outside(bs, lo, hi) /\ y \notin Outside(bs, lo, hi)
  BY <1>1, <1>6, <1>12, OutsideApart
<1>17. Kept(bs) = Outside(bs, lo, hi) \cup Inside(bs, lo, hi)
  BY <1>1, <1>12, KeptParts
<1>18. Kept(new) = (Kept(bs) \ {x, y}) \cup {item}
  BY <1>4, <1>14, <1>16, <1>17
<1> QED BY <1>5, <1>15, <1>18 DEF new, x, y, item

-----------------------------------------------------------------------------
(* Sums over parts, and over sequences joined.                             *)

LEMMA SumEmpty ==
  \A f : SumFunctionOnSet(f, {}) = 0
BY FS_EmptySet, SumStep

(* A sum over two disjoint sets.                                           *)
LEMMA SumSplit ==
  ASSUME NEW W, IsFiniteSet(W), NEW f \in [W -> Nat], NEW A \in SUBSET W, NEW B \in SUBSET W,
         A \cap B = {}
  PROVE  SumFunctionOnSet(f, A \cup B) = SumFunctionOnSet(f, A) + SumFunctionOnSet(f, B)
<1> DEFINE Adds(T) == SumFunctionOnSet(f, A \cup T) = SumFunctionOnSet(f, A) + SumFunctionOnSet(f, T)
           F == {T \in SUBSET W : A \cap T = {} /\ ~Adds(T)}
<1> SUFFICES ASSUME F # {} PROVE FALSE
  OBVIOUS
<1>1. F \subseteq SUBSET W
  OBVIOUS
<1>2. PICK T \in F : \A U \in F : U \subseteq T => U = T
  <2> HIDE DEF F
  <2> QED BY <1>1, LeastSubset
<1>3. T \in SUBSET W /\ A \cap T = {} /\ ~Adds(T)
  BY <1>2
<1>4. SumFunctionOnSet(f, A) \in Nat
  BY SumType
<1>5. T # {}
  <2> SUFFICES ASSUME T = {} PROVE FALSE
    OBVIOUS
  <2>1. A \cup T = A /\ SumFunctionOnSet(f, T) = 0
    BY SumEmpty
  <2> QED BY <2>1, <1>3, <1>4
<1>6. PICK x : x \in T
  BY <1>5
<1> DEFINE U == T \ {x}
           AT == A \cup T
           AU == A \cup U
<1>7. U \in SUBSET W /\ AT \in SUBSET W /\ AU \in SUBSET W /\ x \in AT /\ AT \ {x} = AU /\ A \cap U = {}
      /\ x \in W
  BY <1>3, <1>6
<1>8. Adds(U)
  <2>1. U \notin F
    BY <1>2, <1>6
  <2> QED BY <1>7, <2>1
<1>9. /\ SumFunctionOnSet(f, T) = f[x] + SumFunctionOnSet(f, U)
      /\ SumFunctionOnSet(f, AT) = f[x] + SumFunctionOnSet(f, AU)
  BY <1>3, <1>6, <1>7, SumWithout
<1>10. f[x] \in Nat /\ SumFunctionOnSet(f, U) \in Nat /\ SumFunctionOnSet(f, AU) \in Nat
  BY <1>7, SumType
<1>11. SumFunctionOnSet(f, AT) # SumFunctionOnSet(f, A) + SumFunctionOnSet(f, T)
  BY <1>3
<1>12. SumFunctionOnSet(f, AU) = SumFunctionOnSet(f, A) + SumFunctionOnSet(f, U)
  BY <1>8
<1> HIDE DEF U, AT, AU
<1> QED BY <1>4, <1>9, <1>10, <1>11, <1>12

(* Naturals to be added, one for each of finitely many things.             *)
Weights(f, W) == IsFiniteSet(W) /\ f \in [W -> Nat]
Lacks(R, S, x) == R = S \ {x}
AddsLast(f, S, x, R) == SumFunctionOnSet(f, S) = f[x] + SumFunctionOnSet(f, R)

LEMMA SumLast ==
  ASSUME NEW f, NEW W, NEW S, NEW x, NEW R, Weights(f, W), S \in SUBSET W, x \in S, Lacks(R, S, x)
  PROVE  AddsLast(f, S, x, R)
<1>1. SumFunctionOnSet(f, S) = f[x] + SumFunctionOnSet(f, S \ {x})
  BY SumWithout DEF Weights
<1>2. R = S \ {x}
  BY Zenon DEF Lacks
<1> QED BY <1>1, <1>2, Zenon DEF AddsLast

(* The same for the first n numbers.                                       *)
Counts(f, n) == f \in [1..n -> Nat]
Follows(u, m, h, n) == \A i \in 1..n : u[m + i] = h[i]
SumsAfter(u, m, h, n) == SumFunctionOnSet(u, (m + 1)..(m + n)) = SumFunctionOnSet(h, 1..n)

(* A sum over positions moved by m.                                        *)
LEMMA SumShifted ==
  ASSUME NEW m \in Nat, NEW n \in Nat, NEW f, Counts(f, n), NEW u, Counts(u, m + n), Follows(u, m, f, n)
  PROVE  SumsAfter(u, m, f, n)
<1> DEFINE Same(k) == SumsAfter(u, m, f, k)
           F == {k \in 0..n : ~Same(k)}
<1> SUFFICES ASSUME F # {} PROVE FALSE
  <2>1. n \in 0..n
    OBVIOUS
  <2> QED BY <2>1
<1>1. F \subseteq Nat
  OBVIOUS
<1>2. PICK k \in F : \A j \in F : k =< j
  <2> HIDE DEF F
  <2> QED BY <1>1, LeastNatural
<1>3. k \in 0..n /\ ~Same(k)
  BY <1>2
<1>4. k # 0
  <2>1. 1..0 = {} /\ (m + 1)..(m + 0) = {}
    OBVIOUS
  <2>2. Same(0)
    BY <2>1, SumEmpty DEF SumsAfter
  <2> QED BY <1>3, <2>2
<1>5. k - 1 \in 0..n /\ k - 1 \notin F
  BY <1>2, <1>3, <1>4
<1>6. Same(k - 1)
  BY <1>5
<1> HIDE DEF F
<1> DEFINE A == 1..k
           B == (m + 1)..(m + k)
           A1 == 1..(k - 1)
           B1 == (m + 1)..(m + (k - 1))
           N == 1..n
           M == 1..(m + n)
           mk == m + k
<1>0. k \in Int /\ m \in Int /\ n \in Int /\ 1 =< k /\ k =< n
  BY <1>3, <1>4
<1>7. A \in SUBSET N /\ k \in A
  BY <1>0
<1>8. B \in SUBSET M /\ mk \in B
  BY <1>0
<1>9. Lacks(A1, A, k)
  <2>1. \A i : i \in A \ {k} <=> i \in A1
    BY <1>0
  <2> HIDE DEF A, A1
  <2> QED BY <2>1 DEF Lacks
<1>10. Lacks(B1, B, mk)
  <2>1. \A i : i \in B \ {mk} <=> i \in B1
    <3>1. \A i : i \in B \ {mk} <=> i \in Int /\ m + 1 =< i /\ i =< m + k /\ i # m + k
      BY <1>0
    <3>2. \A i : i \in B1 <=> i \in Int /\ m + 1 =< i /\ i =< m + (k - 1)
      BY <1>0
    <3>3. \A i \in Int : (i =< m + k /\ i # m + k) <=> i =< m + (k - 1)
      BY <1>0
    <3> HIDE DEF B, B1, mk
    <3> QED BY <3>1, <3>2, <3>3
  <2> HIDE DEF B, B1, mk
  <2> QED BY <2>1 DEF Lacks
<1>11. Weights(f, N) /\ Weights(u, M)
  <2>1. 1 \in Int /\ n \in Int /\ m + n \in Int
    BY <1>0
  <2>2. IsFiniteSet(N) /\ IsFiniteSet(M)
    BY <2>1, FS_Interval
  <2>3. f \in [N -> Nat] /\ u \in [M -> Nat]
    BY DEF Counts
  <2> HIDE DEF N, M
  <2> QED BY <2>2, <2>3 DEF Weights
<1>12. SumFunctionOnSet(u, B1) = SumFunctionOnSet(f, A1)
  BY <1>6 DEF SumsAfter
<1>13. SumFunctionOnSet(u, B) # SumFunctionOnSet(f, A)
  BY <1>3 DEF SumsAfter
<1>14. u[mk] = f[k]
  BY <1>3, <1>4 DEF Follows
<1> HIDE DEF A, B, A1, B1, N, M, mk
<1>15. AddsLast(f, A, k, A1)
  BY <1>7, <1>9, <1>11, SumLast
<1>16. AddsLast(u, B, mk, B1)
  BY <1>8, <1>10, <1>11, SumLast
<1> QED BY <1>12, <1>13, <1>14, <1>15, <1>16 DEF AddsLast

(* The counts of one sequence and then of another.                         *)
JoinedCounts(u, f, m, h, n) ==
  Counts(u, m + n) /\ Counts(f, m) /\ Counts(h, n)
  /\ (\A i \in 1..m : u[i] = f[i]) /\ Follows(u, m, h, n)

(* A sum over two sequences joined.                                        *)
LEMMA SumJoined ==
  ASSUME NEW m \in Nat, NEW n \in Nat, NEW f, NEW h, NEW u, JoinedCounts(u, f, m, h, n)
  PROVE  SumFunction(u) = SumFunction(f) + SumFunction(h)
<1> DEFINE A == 1..m
           B == (m + 1)..(m + n)
           W == 1..(m + n)
           C == 1..n
<1>1. A \in SUBSET W /\ B \in SUBSET W
  OBVIOUS
<1>2. A \cap B = {} /\ A \cup B = W
  OBVIOUS
<1>3. DOMAIN u = W /\ DOMAIN f = A /\ DOMAIN h = C /\ u \in [W -> Nat]
  BY DEF JoinedCounts, Counts
<1>4. IsFiniteSet(A) /\ IsFiniteSet(W)
  <2>1. 1 \in Int /\ m \in Int /\ m + n \in Int
    OBVIOUS
  <2> QED BY <2>1, FS_Interval
<1>5. \A i \in A : u[i] = f[i]
  BY DEF JoinedCounts
<1>6. SumsAfter(u, m, h, n)
  BY SumShifted DEF JoinedCounts
<1>7. SumFunctionOnSet(u, B) = SumFunctionOnSet(h, C)
  BY <1>6 DEF SumsAfter
<1> HIDE DEF A, B, W, C
<1>8. SumFunctionOnSet(u, A) = SumFunctionOnSet(f, A)
  BY <1>4, <1>5, SumCongruent
<1>9. SumFunctionOnSet(u, A \cup B) = SumFunctionOnSet(u, A) + SumFunctionOnSet(u, B)
  BY <1>1, <1>2, <1>3, <1>4, SumSplit
<1> QED BY <1>2, <1>3, <1>7, <1>8, <1>9 DEF SumFunction

-----------------------------------------------------------------------------
(* What an index costs.                                                    *)

(* Sets of IDs are finite.                                                 *)
LEMMA BitsCounted ==
  \A ids \in SUBSET Ids : IsFiniteSet(ids) /\ Cardinality(ids) \in Nat
BY OrderedAssumption, FS_Subset, FS_CardinalityType

LEMMA BlockMemoryNat ==
  ASSUME NEW b \in BlockSet
  PROVE  BlockMemory(b) \in Nat
<1> DEFINE s == b.items
           f == [i \in DOMAIN s |-> Cardinality(s[i].bits) + 2]
<1>1. s \in Seq(ItemSet) /\ b.bits \in SUBSET Ids
  BY DEF BlockSet
<1>2. DOMAIN s = 1..Len(s) /\ Len(s) \in Nat
  BY <1>1
<1>3. \A i \in 1..Len(s) : s[i].bits \in SUBSET Ids
  <2> HIDE DEF s
  <2>1. \A i \in 1..Len(s) : s[i] \in ItemSet
    BY <1>1
  <2> QED BY <2>1, ItemProps
<1>4. \A i \in 1..Len(s) : Cardinality(s[i].bits) + 2 \in Nat
  BY <1>3, BitsCounted
<1>5. f \in [1..Len(s) -> Nat] /\ DOMAIN f = 1..Len(s)
  BY <1>2, <1>4
<1> DEFINE W == 1..Len(s)
<1>6. IsFiniteSet(W) /\ f \in [W -> Nat] /\ DOMAIN f = W /\ W \in SUBSET W
  BY <1>2, <1>5, FS_Interval
<1>7. Cardinality(b.bits) \in Nat
  BY <1>1, BitsCounted
<1>8. BlockMemory(b) = SumFunction(f) + IF Len(b.items) > 1 THEN Cardinality(b.bits) + 2 ELSE 0
  BY DEF BlockMemory
<1> HIDE DEF f, W
<1>9. SumFunctionOnSet(f, W) \in Nat
  BY <1>6, SumType
<1>10. SumFunction(f) \in Nat
  BY <1>6, <1>9 DEF SumFunction
<1> QED BY <1>7, <1>8, <1>10

Costs(bs) == [i \in DOMAIN bs |-> BlockMemory(bs[i])]

(* Memory as a sum over blocks.                                            *)
LEMMA CostsType ==
  ASSUME NEW bs \in Seq(BlockSet)
  PROVE  /\ Costs(bs) \in [1..Len(bs) -> Nat] /\ Len(bs) \in Nat
         /\ \A i \in 1..Len(bs) : Costs(bs)[i] = BlockMemory(bs[i])
         /\ Memory(bs) = SumFunction(Costs(bs)) /\ Memory(bs) \in Nat
<1>1. DOMAIN bs = 1..Len(bs) /\ Len(bs) \in Nat /\ \A i \in 1..Len(bs) : bs[i] \in BlockSet
  OBVIOUS
<1>2. \A i \in 1..Len(bs) : BlockMemory(bs[i]) \in Nat
  BY <1>1, BlockMemoryNat
<1> DEFINE f == Costs(bs)
           W == 1..Len(bs)
<1>3. f \in [W -> Nat] /\ \A i \in W : f[i] = BlockMemory(bs[i])
  BY <1>1, <1>2 DEF Costs
<1>4. IsFiniteSet(W) /\ DOMAIN f = W /\ W \in SUBSET W
  BY <1>1, <1>3, FS_Interval
<1>5. Memory(bs) = SumFunction(f)
  BY DEF Memory, Costs
<1>6. f \in [1..Len(bs) -> Nat] /\ \A i \in 1..Len(bs) : f[i] = BlockMemory(bs[i])
  BY <1>3
<1> HIDE DEF f, W
<1>7. SumFunctionOnSet(f, W) \in Nat
  BY <1>3, <1>4, SumType
<1>8. SumFunction(f) \in Nat
  BY <1>4, <1>7 DEF SumFunction
<1> QED BY <1>1, <1>5, <1>6, <1>8 DEF f

(* Two parts cost what they cost apart.                                    *)
LEMMA MemoryJoined ==
  ASSUME NEW s \in Seq(BlockSet), NEW t \in Seq(BlockSet)
  PROVE  Memory(s \o t) = Memory(s) + Memory(t) /\ s \o t \in Seq(BlockSet)
<1> DEFINE st == s \o t
<1>1. /\ st \in Seq(BlockSet) /\ Len(st) = Len(s) + Len(t)
      /\ \A i \in 1..(Len(s) + Len(t)) : st[i] = IF i =< Len(s) THEN s[i] ELSE t[i - Len(s)]
  BY ConcatProperties
<1> HIDE DEF st
<1>2. /\ Costs(s) \in [1..Len(s) -> Nat] /\ Len(s) \in Nat
      /\ \A i \in 1..Len(s) : Costs(s)[i] = BlockMemory(s[i])
      /\ Memory(s) = SumFunction(Costs(s))
  BY CostsType
<1>3. /\ Costs(t) \in [1..Len(t) -> Nat] /\ Len(t) \in Nat
      /\ \A i \in 1..Len(t) : Costs(t)[i] = BlockMemory(t[i])
      /\ Memory(t) = SumFunction(Costs(t))
  BY CostsType
<1>4. /\ Costs(st) \in [1..(Len(s) + Len(t)) -> Nat]
      /\ \A i \in 1..(Len(s) + Len(t)) : Costs(st)[i] = BlockMemory(st[i])
      /\ Memory(st) = SumFunction(Costs(st))
  BY <1>1, CostsType
<1>5. \A i \in 1..Len(s) : Costs(st)[i] = Costs(s)[i]
  <2> TAKE i \in 1..Len(s)
  <2>1. i \in 1..(Len(s) + Len(t)) /\ i =< Len(s)
    BY <1>2, <1>3
  <2>2. st[i] = s[i]
    BY <2>1, <1>1
  <2> QED BY <2>1, <2>2, <1>2, <1>4
<1>6. \A i \in 1..Len(t) : Costs(st)[Len(s) + i] = Costs(t)[i]
  <2> TAKE i \in 1..Len(t)
  <2>1. Len(s) + i \in 1..(Len(s) + Len(t)) /\ ~ Len(s) + i =< Len(s) /\ (Len(s) + i) - Len(s) = i
    BY <1>2, <1>3
  <2>2. st[Len(s) + i] = t[i]
    BY <2>1, <1>1
  <2> QED BY <2>1, <2>2, <1>3, <1>4
<1>7. SumFunction(Costs(st)) = SumFunction(Costs(s)) + SumFunction(Costs(t))
  <2>1. JoinedCounts(Costs(st), Costs(s), Len(s), Costs(t), Len(t))
    BY <1>2, <1>3, <1>4, <1>5, <1>6 DEF JoinedCounts, Counts, Follows
  <2> QED BY <1>2, <1>3, <2>1, SumJoined
<1> QED BY <1>1, <1>2, <1>3, <1>4, <1>7 DEF st

LEMMA SeqParts ==
  ASSUME NEW S, NEW s \in Seq(S), NEW lo \in 1..(Len(s) + 1), NEW hi \in (lo - 1)..Len(s)
  PROVE  /\ SubSeq(s, 1, lo - 1) \in Seq(S) /\ SubSeq(s, lo, hi) \in Seq(S)
         /\ SubSeq(s, hi + 1, Len(s)) \in Seq(S)
         /\ s = SubSeq(s, 1, lo - 1) \o SubSeq(s, lo, hi) \o SubSeq(s, hi + 1, Len(s))
<1> DEFINE a == SubSeq(s, 1, lo - 1)
           m == SubSeq(s, lo, hi)
           c == SubSeq(s, hi + 1, Len(s))
           new == a \o m \o c
<1>0. Len(s) \in Nat /\ lo \in Nat /\ hi \in Nat /\ 1 =< lo /\ hi =< Len(s) /\ lo - 1 =< hi
  OBVIOUS
<1>1. a \in Seq(S)
  BY <1>0
<1>2. m \in Seq(S) /\ Len(m) = hi - lo + 1 /\ \A i \in 1..(hi - lo + 1) : m[i] = s[lo + i - 1]
  <2>1. \A i \in lo..hi : s[i] \in S
    BY <1>0
  <2>2. /\ m \in Seq(S) /\ Len(m) = IF lo =< hi THEN hi - lo + 1 ELSE 0
        /\ \A i \in 1..(hi - lo + 1) : m[i] = s[lo + i - 1]
    BY <1>0, <2>1, SubSeqProperties
  <2> QED BY <1>0, <2>2
<1>3. c \in Seq(S)
  BY <1>0
<1>4. new \in Seq(S) /\ IsSplice(new, s, m, lo, hi)
  <2> HIDE DEF m
  <2> QED BY <1>2, Spliced
<1> HIDE DEF a, c
<1>5. Len(new) = Len(s) /\ \A k \in 1..Len(s) : new[k] = s[k]
  <2> DEFINE w == new
  <2>1. /\ Len(w) = lo - 1 + Len(m) + Len(s) - hi
        /\ \A k \in 1..Len(w) :
             IF k < lo THEN w[k] = s[k]
             ELSE IF k < lo + Len(m) THEN w[k] = m[k - lo + 1]
             ELSE w[k] = s[k - lo + 1 - Len(m) + hi]
    BY <1>4 DEF IsSplice
  <2> HIDE DEF w, m
  <2>2. Len(w) = Len(s)
    BY <2>1, <1>0, <1>2
  <2>3. ASSUME NEW k \in 1..Len(s) PROVE w[k] = s[k]
    <3>1. CASE k < lo
      BY <3>1, <2>1, <2>2
    <3>2. CASE k >= lo /\ k < lo + Len(m)
      <4>1. k - lo + 1 \in 1..(hi - lo + 1) /\ lo + (k - lo + 1) - 1 = k
        BY <3>2, <1>0, <1>2
      <4>2. w[k] = m[k - lo + 1]
        BY <3>2, <2>1, <2>2, <1>0
      <4> QED BY <4>1, <4>2, <1>2
    <3>3. CASE k >= lo + Len(m)
      <4>1. k - lo + 1 - Len(m) + hi = k
        BY <1>0, <1>2
      <4>2. w[k] = s[k - lo + 1 - Len(m) + hi]
        <5>1. ~ k < lo /\ ~ k < lo + Len(m) /\ k \in 1..Len(w)
          BY <3>3, <2>2, <1>0, <1>2
        <5> QED BY <5>1, <2>1
      <4> QED BY <4>1, <4>2
    <3> QED BY <3>1, <3>2, <3>3, <1>0, <1>2
  <2> QED BY <2>2, <2>3 DEF w
<1>6. new = s
  <2> HIDE DEF new
  <2> QED BY <1>4, <1>5, SeqEqual
<1> QED BY <1>1, <1>2, <1>3, <1>6 DEF a, c

-----------------------------------------------------------------------------

(* The total less the old blocks plus the new is the new total.            *)
LEMMA MemoryMerged ==
  ASSUME NEW bs, Good(bs), NEW n \in Neighbours(bs), dir \in Directions,
         accounting # None => accounting = Memory(bs)
  PROVE  MemoryAfter(bs, n) = Memory(Merged(bs, n))
<1> DEFINE mid == MergeParts(bs, n)
           lo == n.lb
           hi == n.rb
           a == SubSeq(bs, 1, lo - 1)
           m == SubSeq(bs, lo, hi)
           c == SubSeq(bs, hi + 1, Len(bs))
<1>1. Shape(bs) /\ bs \in Seq(BlockSet) /\ Len(bs) \in Nat
  BY DEF Good, Shape
<1>2. lo \in 1..Len(bs) /\ hi \in 1..Len(bs) /\ (hi = lo \/ hi = lo + 1)
  BY <1>1, NeighbourIn
<1>3. mid \in Seq(BlockSet)
  BY MergePartsEffect DEF Good, Shape
<1>4. Merged(bs, n) = a \o mid \o c
  BY DEF Merged
<1>5. MemoryAfter(bs, n) = Memory(mid) + Memory(bs) - Memory(m)
  <2>1. (IF accounting = None THEN Memory(bs) ELSE accounting) = Memory(bs)
    OBVIOUS
  <2> QED BY <2>1 DEF MemoryAfter
<1>6. lo \in 1..(Len(bs) + 1) /\ hi \in (lo - 1)..Len(bs)
  BY <1>1, <1>2
<1> HIDE DEF mid, lo, hi
<1>7. a \in Seq(BlockSet) /\ m \in Seq(BlockSet) /\ c \in Seq(BlockSet) /\ bs = a \o m \o c
  BY <1>1, <1>6, SeqParts, ZenonT(40)
<1> HIDE DEF a, m, c
<1>8. a \o m \in Seq(BlockSet) /\ a \o mid \in Seq(BlockSet)
      /\ Memory(a \o m) = Memory(a) + Memory(m) /\ Memory(a \o mid) = Memory(a) + Memory(mid)
  BY <1>3, <1>7, MemoryJoined
<1>9. Memory(a \o m \o c) = Memory(a \o m) + Memory(c) /\ Memory(a \o mid \o c) = Memory(a \o mid) + Memory(c)
  BY <1>7, <1>8, MemoryJoined
<1>10. Memory(bs) = Memory(a) + Memory(m) + Memory(c)
  BY <1>7, <1>8, <1>9
<1>11. Memory(Merged(bs, n)) = Memory(a) + Memory(mid) + Memory(c)
  BY <1>4, <1>8, <1>9
<1>12. Memory(a) \in Nat /\ Memory(m) \in Nat /\ Memory(c) \in Nat /\ Memory(mid) \in Nat
  BY <1>3, <1>7, CostsType
<1> QED BY <1>5, <1>10, <1>11, <1>12 DEF mid, m

(* prepareSearch shares the union of every block of one item again.        *)
Shared(bs) ==
  [i \in DOMAIN bs |-> IF Len(bs[i].items) = 1 THEN Rebuilt(bs[i].items) ELSE bs[i]]

LEMMA SharedBlock ==
  ASSUME NEW b, GoodBlock(b)
  PROVE  LET c == IF Len(b.items) = 1 THEN Rebuilt(b.items) ELSE b
         IN  GoodBlock(c) /\ c.items = b.items /\ c.bits = b.bits /\ BlockMemory(c) = BlockMemory(b)
<1> DEFINE s == b.items
<1>1. s \in Seq(ItemSet) /\ Ascending(s) /\ Len(s) \in 1..(2 * BlockSize) /\ b.bits = Postings(s)
  BY DEF GoodBlock, ShapeBlock, BlockSet
<1>2. GoodBlock(Rebuilt(s)) /\ Rebuilt(s).items = s
  <2> HIDE DEF s
  <2> QED BY <1>1, RebuiltGood
<1>3. Rebuilt(s).bits = b.bits
  BY <1>1 DEF Rebuilt
<1>4. ASSUME NEW c, c.items = b.items, c.bits = b.bits PROVE BlockMemory(c) = BlockMemory(b)
  BY <1>4 DEF BlockMemory
<1> QED BY <1>2, <1>3, <1>4

(* Sharing the unions of single items changes no answer and no usage.      *)
LEMMA SharedEffect ==
  ASSUME NEW bs, Good(bs)
  PROVE  /\ Good(Shared(bs)) /\ Len(Shared(bs)) = Len(bs)
         /\ \A i \in 1..Len(bs) : Shared(bs)[i].items = bs[i].items /\ Shared(bs)[i].bits = bs[i].bits
         /\ Kept(Shared(bs)) = Kept(bs) /\ Memory(Shared(bs)) = Memory(bs)
<1> DEFINE cs == Shared(bs)
<1>1. Shape(bs) /\ bs \in Seq(BlockSet) /\ Len(bs) \in Nat /\ DOMAIN bs = 1..Len(bs)
      /\ \A i \in 1..Len(bs) : GoodBlock(bs[i])
  BY DEF Good, Shape
<1>2. \A i \in 1..Len(bs) : /\ GoodBlock(cs[i]) /\ cs[i].items = bs[i].items /\ cs[i].bits = bs[i].bits
                            /\ BlockMemory(cs[i]) = BlockMemory(bs[i])
  <2> TAKE i \in 1..Len(bs)
  <2>1. cs[i] = IF Len(bs[i].items) = 1 THEN Rebuilt(bs[i].items) ELSE bs[i]
    BY <1>1 DEF Shared
  <2>2. GoodBlock(bs[i])
    BY <1>1
  <2> HIDE DEF cs
  <2> QED BY <2>1, <2>2, SharedBlock
<1>3. cs \in Seq(BlockSet) /\ Len(cs) = Len(bs)
  <2>1. DOMAIN cs = 1..Len(bs)
    BY <1>1 DEF Shared
  <2>2. \A i \in 1..Len(bs) : cs[i] \in BlockSet
    BY <1>2 DEF GoodBlock, ShapeBlock
  <2>3. cs = [i \in 1..Len(bs) |-> cs[i]]
    BY <2>1 DEF Shared
  <2> HIDE DEF cs
  <2> QED BY <1>1, <2>2, <2>3
<1> HIDE DEF cs
<1>4. \A i \in 1..Len(cs) : Range(cs[i].items) = Range(bs[i].items) /\ ShapeBlock(cs[i])
  BY <1>2, <1>3 DEF GoodBlock
<1>5. Shape(cs)
  BY <1>1, <1>3, <1>4 DEF Shape
<1>6. Good(cs)
  BY <1>2, <1>3, <1>5 DEF Good
<1>7. Kept(cs) = Kept(bs)
  BY <1>3, <1>4 DEF Kept
<1>8. Memory(cs) = Memory(bs)
  <2>1. DOMAIN cs = 1..Len(bs) /\ DOMAIN bs = 1..Len(bs)
    BY <1>1, <1>3
  <2>2. [i \in DOMAIN cs |-> BlockMemory(cs[i])] = [i \in DOMAIN bs |-> BlockMemory(bs[i])]
    BY <2>1, <1>2
  <2> QED BY <2>2 DEF Memory
<1> QED BY <1>2, <1>3, <1>6, <1>7, <1>8 DEF cs

-----------------------------------------------------------------------------
(* From blocks to postings.                                                *)

ValuesOf(K) == {x.value : x \in K}

(* Postings by value.                                                      *)
LEMMA PostingFromAt ==
  ASSUME NEW K
  PROVE  /\ DOMAIN PostingFrom(K) = ValuesOf(K)
         /\ PostingFrom(K) = [v \in ValuesOf(K) |-> BitsOf(K, v)]
         /\ \A v \in ValuesOf(K) : PostingFrom(K)[v] = BitsOf(K, v)
BY DEF PostingFrom, ValuesOf

LEMMA BitsOfWith ==
  ASSUME NEW K, NEW v, NEW ids
  PROVE  /\ ValuesOf(With(K, v, ids)) = ValuesOf(K) \cup {v}
         /\ BitsOf(With(K, v, ids), v) = BitsOf(K, v) \cup ids
         /\ \A c : c # v => BitsOf(With(K, v, ids), c) = BitsOf(K, c)
         /\ \A c : c \notin ValuesOf(K) => BitsOf(K, c) = {}
<1> DEFINE new == [value |-> v, bits |-> BitsOf(K, v) \cup ids]
           W == With(K, v, ids)
<1>1. W = {x \in K : x.value # v} \cup {new} /\ new.value = v /\ new.bits = BitsOf(K, v) \cup ids
  BY DEF With
<1> HIDE DEF new, W
<1>2. ValuesOf(W) = ValuesOf(K) \cup {v}
  BY <1>1 DEF ValuesOf
<1>3. BitsOf(W, v) = BitsOf(K, v) \cup ids
  <2>1. {x \in W : x.value = v} = {new}
    BY <1>1
  <2>2. UNION {x.bits : x \in {new}} = new.bits
    OBVIOUS
  <2> QED BY <2>1, <2>2, <1>1 DEF BitsOf
<1>4. ASSUME NEW c, c # v PROVE BitsOf(W, c) = BitsOf(K, c)
  <2>1. {x \in W : x.value = c} = {x \in K : x.value = c}
    BY <1>1, <1>4
  <2> QED BY <2>1 DEF BitsOf
<1>5. ASSUME NEW c, c \notin ValuesOf(K) PROVE BitsOf(K, c) = {}
  <2>1. {x \in K : x.value = c} = {}
    BY <1>5 DEF ValuesOf
  <2> QED BY <2>1 DEF BitsOf
<1> QED BY <1>2, <1>3, <1>4, <1>5 DEF W

(* The postings once the IDs are stored under v.                           *)
Gained(K, v, ids) ==
  [c \in ValuesOf(K) \cup {v} |->
     (IF c \in ValuesOf(K) THEN PostingFrom(K)[c] ELSE {}) \cup (IF c = v THEN ids ELSE {})]

(* IDs gained under a value.                                               *)
LEMMA PostingWith ==
  ASSUME NEW K, NEW v, NEW ids
  PROVE  PostingFrom(With(K, v, ids)) = Gained(K, v, ids)
<1> DEFINE W == With(K, v, ids)
<1>1. /\ ValuesOf(W) = ValuesOf(K) \cup {v}
      /\ BitsOf(W, v) = BitsOf(K, v) \cup ids
      /\ \A c : c # v => BitsOf(W, c) = BitsOf(K, c)
      /\ \A c : c \notin ValuesOf(K) => BitsOf(K, c) = {}
  BY BitsOfWith
<1> HIDE DEF W, Gained
<1>2. PostingFrom(W) = [c \in ValuesOf(W) |-> BitsOf(W, c)]
  BY PostingFromAt
<1>3. \A c \in ValuesOf(K) : PostingFrom(K)[c] = BitsOf(K, c)
  BY PostingFromAt
<1>4. \A c \in ValuesOf(W) : BitsOf(W, c) =
        (IF c \in ValuesOf(K) THEN PostingFrom(K)[c] ELSE {}) \cup (IF c = v THEN ids ELSE {})
  BY <1>1, <1>3
<1> QED BY <1>1, <1>2, <1>4 DEF W, Gained

(* x's bits have joined y's, and x is gone.                                *)
MergedBits(W, K, x, y) ==
  /\ ValuesOf(W) = ValuesOf(K) \ {x.value}
  /\ BitsOf(W, y.value) = BitsOf(K, y.value) \cup BitsOf(K, x.value)
  /\ \A c : c # x.value /\ c # y.value => BitsOf(W, c) = BitsOf(K, c)

LEMMA BitsOfMerged ==
  ASSUME NEW K, Single(K), NEW x \in K, NEW y \in K, x.value # y.value,
         NEW item, item.value = y.value, item.bits = x.bits \cup y.bits
  PROVE  MergedBits((K \ {x, y}) \cup {item}, K, x, y)
<1> DEFINE W == (K \ {x, y}) \cup {item}
<1>1. \A z : z \in W <=> (z \in K /\ z # x /\ z # y) \/ z = item
  OBVIOUS
<1> HIDE DEF W
<1>2. \A z \in K : (z.value = x.value => z = x) /\ (z.value = y.value => z = y)
  BY DEF Single
<1>3. ValuesOf(W) = ValuesOf(K) \ {x.value}
  <2>1. ASSUME NEW c \in ValuesOf(W) PROVE c \in ValuesOf(K) \ {x.value}
    <3>1. PICK z \in W : c = z.value
      BY DEF ValuesOf
    <3> QED BY <3>1, <1>1, <1>2 DEF ValuesOf
  <2>2. ASSUME NEW c \in ValuesOf(K), c # x.value PROVE c \in ValuesOf(W)
    <3>1. PICK z \in K : c = z.value
      BY DEF ValuesOf
    <3>2. CASE z = y
      BY <3>1, <3>2, <1>1 DEF ValuesOf
    <3>3. CASE z # y
      BY <3>1, <3>3, <2>2, <1>1 DEF ValuesOf
    <3> QED BY <3>2, <3>3
  <2> QED BY <2>1, <2>2
<1>4. BitsOf(W, y.value) = BitsOf(K, y.value) \cup BitsOf(K, x.value)
  <2>1. {z \in W : z.value = y.value} = {item}
    BY <1>1, <1>2
  <2>2. UNION {z.bits : z \in {item}} = item.bits
    OBVIOUS
  <2>3. BitsOf(K, x.value) = x.bits /\ BitsOf(K, y.value) = y.bits
    BY SingleBits
  <2>4. BitsOf(W, y.value) = item.bits
    BY <2>1, <2>2 DEF BitsOf
  <2> QED BY <2>3, <2>4
<1>5. ASSUME NEW c, c # x.value, c # y.value PROVE BitsOf(W, c) = BitsOf(K, c)
  <2>1. {z \in W : z.value = c} = {z \in K : z.value = c}
    BY <1>1, <1>5
  <2> QED BY <2>1 DEF BitsOf
<1> QED BY <1>3, <1>4, <1>5 DEF W, MergedBits

(* Postings after two neighbours are merged.                               *)
LEMMA PostingMerged ==
  ASSUME NEW K, Single(K), NEW x \in K, NEW y \in K, x.value # y.value,
         NEW item, item.value = y.value, item.bits = x.bits \cup y.bits
  PROVE  PostingFrom((K \ {x, y}) \cup {item}) =
           [b \in ValuesOf(K) \ {x.value} |->
              PostingFrom(K)[b] \cup (IF b = y.value THEN PostingFrom(K)[x.value] ELSE {})]
<1> DEFINE W == (K \ {x, y}) \cup {item}
<1>1. /\ ValuesOf(W) = ValuesOf(K) \ {x.value}
      /\ BitsOf(W, y.value) = BitsOf(K, y.value) \cup BitsOf(K, x.value)
      /\ \A c : c # x.value /\ c # y.value => BitsOf(W, c) = BitsOf(K, c)
  <2>1. MergedBits(W, K, x, y)
    BY BitsOfMerged
  <2> HIDE DEF W
  <2> QED BY <2>1 DEF MergedBits
<1> HIDE DEF W
<1>2. PostingFrom(W) = [c \in ValuesOf(W) |-> BitsOf(W, c)]
  BY PostingFromAt
<1>3. \A c \in ValuesOf(K) : PostingFrom(K)[c] = BitsOf(K, c)
  BY PostingFromAt
<1>3a. x.value \in ValuesOf(K) /\ y.value \in ValuesOf(K)
  BY DEF ValuesOf
<1>4. \A c \in ValuesOf(W) : BitsOf(W, c) =
        PostingFrom(K)[c] \cup (IF c = y.value THEN PostingFrom(K)[x.value] ELSE {})
  BY <1>1, <1>3, <1>3a
<1> QED BY <1>1, <1>2, <1>4 DEF W

-----------------------------------------------------------------------------
(* Rounding to the nearest boundary.                                       *)

(* u is the boundary v is rounded to among the values kept, or v itself    *)
(* when none lies outward of it.                                           *)
Nearest(K, u, v) ==
  \/ u \in ValuesOf(K) /\ Outward(u, v) /\ \A c \in ValuesOf(K) : Outward(c, v) => Outward(c, u)
  \/ u = v /\ \A c \in ValuesOf(K) : ~Outward(c, v)

(* What is kept relative to the block a value belongs to.                  *)
LEMMA Around ==
  ASSUME NEW bs, Shape(bs), NEW v \in Values, bs # <<>>, NEW at, at = BlockAt(bs, v),
         NEW p, p = Position(bs[at], v), ~Has(bs[at], v)
  PROVE  /\ at \in 1..Len(bs) /\ p \in 1..(Len(bs[at].items) + 1) /\ ShapeBlock(bs[at])
         /\ \A i \in 1..(at - 1) : \A x \in Range(bs[i].items) : x.value < v
         /\ \A i \in (at + 1)..Len(bs) : \A x \in Range(bs[i].items) : v < x.value
         /\ \A i \in 1..(p - 1) : bs[at].items[i].value < v
         /\ \A i \in p..Len(bs[at].items) : bs[at].items[i].value > v
         /\ at < Len(bs) => p =< Len(bs[at].items)
<1>1. /\ at \in 1..Len(bs)
      /\ \A i \in 1..(at - 1) : \A x \in Range(bs[i].items) : x.value < v
      /\ at < Len(bs) => Final(bs[at]) >= v
      /\ \A i \in (at + 1)..Len(bs) : \A x \in Range(bs[i].items) : v < x.value
  BY Located
<1>2. ShapeBlock(bs[at])
  BY <1>1 DEF Shape
<1> DEFINE b == bs[at]
<1>3. /\ p \in 1..(Len(b.items) + 1)
      /\ \A i \in 1..(p - 1) : b.items[i].value < v
      /\ \A i \in p..Len(b.items) : b.items[i].value >= v
      /\ ~ \E x \in Range(b.items) : x.value = v
  BY <1>2, Positioned
<1>4. /\ b.items \in Seq(ItemSet) /\ Len(b.items) \in Nat /\ Len(b.items) >= 1
      /\ Range(b.items) = {b.items[i] : i \in 1..Len(b.items)}
      /\ \A i \in 1..Len(b.items) : b.items[i].value \in Int
  BY <1>2, BlockItems
<1>5. v \in Int
  BY ValuesInt
<1>6. \A i \in p..Len(b.items) : b.items[i].value > v
  <2> TAKE i \in p..Len(b.items)
  <2>1. i \in 1..Len(b.items)
    BY <1>3, <1>4
  <2>2. b.items[i].value # v
    BY <2>1, <1>3, <1>4
  <2> QED BY <2>1, <2>2, <1>3, <1>4, <1>5
<1>7. ASSUME at < Len(bs) PROVE p =< Len(b.items)
  <2> SUFFICES ASSUME ~ p =< Len(b.items) PROVE FALSE
    OBVIOUS
  <2>1. Len(b.items) \in 1..(p - 1)
    BY <1>3, <1>4
  <2>2. Final(b) = b.items[Len(b.items)].value
    BY DEF Final, Last
  <2>3. b.items[Len(b.items)].value < v /\ b.items[Len(b.items)].value >= v
    BY <1>1, <1>3, <1>7, <2>1, <2>2
  <2>4. b.items[Len(b.items)].value \in Int
    BY <1>4
  <2> QED BY <2>3, <2>4, <1>5
<1> QED BY <1>1, <1>2, <1>3, <1>6, <1>7

(* The last item of a block has its greatest value.                        *)
LEMMA FinalGreatest ==
  ASSUME NEW b, ShapeBlock(b)
  PROVE  /\ \E x \in Range(b.items) : x.value = Final(b)
         /\ \A x \in Range(b.items) : x.value =< Final(b)
         /\ Final(b) = b.items[Len(b.items)].value
<1>1. /\ b.items \in Seq(ItemSet) /\ Len(b.items) \in Nat /\ Len(b.items) >= 1
      /\ Range(b.items) = {b.items[i] : i \in 1..Len(b.items)}
      /\ \A i \in 1..Len(b.items) : b.items[i].value \in Int
  BY BlockItems
<1> DEFINE N == Len(b.items)
<1>2. Final(b) = b.items[N].value
  BY DEF Final, Last
<1>3. N \in 1..N /\ Ascending(b.items)
  BY <1>1 DEF ShapeBlock
<1>4. \A i \in 1..N : b.items[i].value =< b.items[N].value
  <2> TAKE i \in 1..N
  <2>1. i = N \/ i < N
    BY <1>1
  <2>2. CASE i = N
    BY <2>2, <1>1
  <2>3. CASE i < N
    BY <2>3, <1>1, <1>3 DEF Ascending
  <2> QED BY <2>1, <2>2, <2>3
<1> QED BY <1>1, <1>2, <1>3, <1>4

(* roundedOrderedBoundary finds the nearest boundary above.                *)
LEMMA RoundedUp ==
  ASSUME Shape(blocks), dir = "lessThan", NEW v \in Values, blocks # <<>>,
         ~Has(blocks[BlockAt(blocks, v)], v)
  PROVE  Nearest(Kept(blocks), Rounded(v), v)
<1> DEFINE bs == blocks
           at == BlockAt(bs, v)
           b == bs[at]
           p == Position(b, v)
           K == Kept(bs)
<1>1. /\ at \in 1..Len(bs) /\ p \in 1..(Len(b.items) + 1) /\ ShapeBlock(b)
      /\ \A i \in 1..(at - 1) : \A x \in Range(bs[i].items) : x.value < v
      /\ \A i \in (at + 1)..Len(bs) : \A x \in Range(bs[i].items) : v < x.value
      /\ \A i \in 1..(p - 1) : b.items[i].value < v
      /\ \A i \in p..Len(b.items) : b.items[i].value > v
      /\ at < Len(bs) => p =< Len(b.items)
  BY Around
<1>2. Rounded(v) = IF (p - 1) < Len(b.items) THEN b.items[(p - 1) + 1].value
                   ELSE IF at < Len(bs) THEN First(bs[at + 1]) ELSE v
  BY DEF Rounded
<1>3. /\ Len(b.items) \in Nat /\ Range(b.items) = {b.items[i] : i \in 1..Len(b.items)}
      /\ \A i \in 1..Len(b.items) : b.items[i].value \in Int
  BY <1>1, BlockItems
<1>4. v \in Int /\ Len(bs) \in Nat
  BY ValuesInt DEF Shape
<1>5. \A z : z \in K <=> \E i \in 1..Len(bs) : z \in Range(bs[i].items)
  BY DEF Kept
<1>6. \A i, j \in 1..Len(bs) : i < j => Precede(Range(bs[i].items), Range(bs[j].items))
  BY DEF Shape
<1>6a. \A z \in K : z.value \in Int
  BY KeptItems, ItemProps
<1>6b. Ascending(b.items)
  BY <1>1 DEF ShapeBlock
<1>6c. \A u, w : Outward(u, w) <=> u >= w
  BY DEF Outward
<1> HIDE DEF at, b, p, K
<1>7. ASSUME NEW z \in K, z.value >= v
      PROVE  \/ \E i \in p..Len(b.items) : z = b.items[i]
             \/ \E i \in (at + 1)..Len(bs) : z \in Range(bs[i].items)
  <2>1. PICK i \in 1..Len(bs) : z \in Range(bs[i].items)
    BY <1>5
  <2>2. ~ i < at
    BY <2>1, <1>1, <1>4, <1>6a, <1>7
  <2>3. CASE i = at
    <3>1. PICK j \in 1..Len(b.items) : z = b.items[j]
      BY <2>1, <2>3, <1>3 DEF b
    <3>2. ~ j \in 1..(p - 1)
      BY <3>1, <1>1, <1>3, <1>4, <1>7
    <3> QED BY <3>1, <3>2, <1>1, <1>3
  <2>4. CASE i > at
    BY <2>1, <2>4, <1>1, <1>4
  <2> QED BY <2>1, <2>2, <2>3, <2>4, <1>1
<1>8. CASE p =< Len(b.items)
  <2> DEFINE w == b.items[p]
  <2>1. Rounded(v) = w.value
    <3>1. (p - 1) + 1 = p /\ p - 1 < Len(b.items)
      BY <1>8, <1>1, <1>3
    <3> QED BY <3>1, <1>2
  <2>2. p \in 1..Len(b.items) /\ w \in Range(b.items) /\ w.value > v /\ w.value \in Int
    BY <1>8, <1>1, <1>3
  <2>3. w \in K
    BY <2>2, <1>1, <1>5 DEF b
  <2>4. ASSUME NEW z \in K, z.value >= v PROVE z.value >= w.value
    <3>1. CASE \E i \in p..Len(b.items) : z = b.items[i]
      <4>1. PICK i \in p..Len(b.items) : z = b.items[i]
        BY <3>1
      <4>2. i = p \/ p < i
        BY <1>1, <1>3
      <4>3. i \in 1..Len(b.items)
        BY <1>1, <1>3
      <4>4. z.value = w.value \/ w.value < z.value
        BY <4>1, <4>2, <4>3, <2>2, <1>6b DEF Ascending
      <4> QED BY <4>4, <2>2, <1>6a
    <3>2. CASE \E i \in (at + 1)..Len(bs) : z \in Range(bs[i].items)
      <4>1. PICK i \in (at + 1)..Len(bs) : z \in Range(bs[i].items)
        BY <3>2
      <4>2. at < i /\ i \in 1..Len(bs)
        BY <1>1, <1>4
      <4>3. w.value < z.value
        BY <4>1, <4>2, <2>2, <1>1, <1>6 DEF Precede, b
      <4> QED BY <4>3, <2>2, <1>6a
    <3> QED BY <2>4, <3>1, <3>2, <1>7
  <2> HIDE DEF w
  <2>5. w.value \in ValuesOf(K) /\ w.value >= v
    BY <2>2, <2>3, <1>4 DEF ValuesOf
  <2>6. \A c \in ValuesOf(K) : c >= v => c >= w.value
    BY <2>4 DEF ValuesOf
  <2> QED BY <2>1, <2>5, <2>6, <1>6c DEF Nearest, K
<1>9. CASE ~ p =< Len(b.items)
  <2>1. ~ at < Len(bs) /\ ~ p - 1 < Len(b.items)
    BY <1>9, <1>1, <1>3
  <2>2. Rounded(v) = v
    BY <2>1, <1>2
  <2>3. \A c \in ValuesOf(K) : ~ c >= v
    <3> SUFFICES ASSUME NEW z \in K, z.value >= v PROVE FALSE
      BY DEF ValuesOf
    <3>1. ~ \E i \in p..Len(b.items) : z = b.items[i]
      BY <1>9, <1>1, <1>3
    <3>2. ~ \E i \in (at + 1)..Len(bs) : z \in Range(bs[i].items)
      BY <2>1, <1>1, <1>4
    <3> QED BY <3>1, <3>2, <1>7
  <2> QED BY <2>2, <2>3, <1>6c DEF Nearest, K
<1> QED BY <1>8, <1>9

(* And below, for the other direction.                                     *)
LEMMA RoundedDown ==
  ASSUME Shape(blocks), dir = "greaterThan", NEW v \in Values, blocks # <<>>,
         ~Has(blocks[BlockAt(blocks, v)], v)
  PROVE  Nearest(Kept(blocks), Rounded(v), v)
<1> DEFINE bs == blocks
           at == BlockAt(bs, v)
           b == bs[at]
           p == Position(b, v)
           K == Kept(bs)
<1>1. /\ at \in 1..Len(bs) /\ p \in 1..(Len(b.items) + 1) /\ ShapeBlock(b)
      /\ \A i \in 1..(at - 1) : \A x \in Range(bs[i].items) : x.value < v
      /\ \A i \in (at + 1)..Len(bs) : \A x \in Range(bs[i].items) : v < x.value
      /\ \A i \in 1..(p - 1) : b.items[i].value < v
      /\ \A i \in p..Len(b.items) : b.items[i].value > v
      /\ at < Len(bs) => p =< Len(b.items)
  BY Around
<1>2. Rounded(v) = IF p - 1 > 0 THEN b.items[p - 1].value
                   ELSE IF at > 1 THEN Final(bs[at - 1]) ELSE v
  BY DEF Rounded
<1>3. /\ Len(b.items) \in Nat /\ Range(b.items) = {b.items[i] : i \in 1..Len(b.items)}
      /\ \A i \in 1..Len(b.items) : b.items[i].value \in Int
  BY <1>1, BlockItems
<1>4. v \in Int /\ Len(bs) \in Nat
  BY ValuesInt DEF Shape
<1>5. \A z : z \in K <=> \E i \in 1..Len(bs) : z \in Range(bs[i].items)
  BY DEF Kept
<1>6. \A i, j \in 1..Len(bs) : i < j => Precede(Range(bs[i].items), Range(bs[j].items))
  BY DEF Shape
<1>6a. \A z \in K : z.value \in Int
  BY KeptItems, ItemProps
<1>6b. Ascending(b.items)
  BY <1>1 DEF ShapeBlock
<1>6c. \A u, w : Outward(u, w) <=> u =< w
  BY DEF Outward
<1>6d. \A i \in 1..Len(bs) : ShapeBlock(bs[i])
  BY DEF Shape
<1> HIDE DEF at, b, p, K
<1>7. ASSUME NEW z \in K, z.value =< v
      PROVE  \/ \E i \in 1..(p - 1) : z = b.items[i]
             \/ \E i \in 1..(at - 1) : z \in Range(bs[i].items)
  <2>1. PICK i \in 1..Len(bs) : z \in Range(bs[i].items)
    BY <1>5
  <2>2. ~ i > at
    BY <2>1, <1>1, <1>4, <1>6a, <1>7
  <2>3. CASE i = at
    <3>1. PICK j \in 1..Len(b.items) : z = b.items[j]
      BY <2>1, <2>3, <1>3 DEF b
    <3>2. ~ j \in p..Len(b.items)
      BY <3>1, <1>1, <1>3, <1>4, <1>7
    <3> QED BY <3>1, <3>2, <1>1, <1>3
  <2>4. CASE i < at
    BY <2>1, <2>4, <1>1, <1>4
  <2> QED BY <2>1, <2>2, <2>3, <2>4, <1>1
<1>8. CASE p > 1
  <2> DEFINE w == b.items[p - 1]
  <2>1. Rounded(v) = w.value
    BY <1>8, <1>1, <1>2, <1>3
  <2>2. p - 1 \in 1..Len(b.items) /\ p - 1 \in 1..(p - 1) /\ w \in Range(b.items) /\ w.value < v /\ w.value \in Int
    BY <1>8, <1>1, <1>3
  <2>3. w \in K
    BY <2>2, <1>1, <1>5 DEF b
  <2>4. ASSUME NEW z \in K, z.value =< v PROVE z.value =< w.value
    <3>1. CASE \E i \in 1..(p - 1) : z = b.items[i]
      <4>1. PICK i \in 1..(p - 1) : z = b.items[i]
        BY <3>1
      <4>2. i = p - 1 \/ i < p - 1
        BY <1>1, <1>3
      <4>3. i \in 1..Len(b.items)
        BY <1>1, <1>3
      <4>4. z.value = w.value \/ z.value < w.value
        BY <4>1, <4>2, <4>3, <2>2, <1>6b DEF Ascending
      <4> QED BY <4>4, <2>2, <1>6a
    <3>2. CASE \E i \in 1..(at - 1) : z \in Range(bs[i].items)
      <4>1. PICK i \in 1..(at - 1) : z \in Range(bs[i].items)
        BY <3>2
      <4>2. i < at /\ i \in 1..Len(bs)
        BY <1>1, <1>4
      <4>3. z.value < w.value
        BY <4>1, <4>2, <2>2, <1>1, <1>6 DEF Precede, b
      <4> QED BY <4>3, <2>2, <1>6a
    <3> QED BY <2>4, <3>1, <3>2, <1>7
  <2> HIDE DEF w
  <2>5. w.value \in ValuesOf(K) /\ w.value =< v
    BY <2>2, <2>3, <1>4 DEF ValuesOf
  <2>6. \A c \in ValuesOf(K) : c =< v => c =< w.value
    BY <2>4 DEF ValuesOf
  <2> QED BY <2>1, <2>5, <2>6, <1>6c DEF Nearest, K
<1>9. CASE p = 1 /\ at > 1
  <2> DEFINE c == bs[at - 1]
  <2>1. Rounded(v) = Final(c)
    BY <1>9, <1>2
  <2>2. at - 1 \in 1..Len(bs) /\ at - 1 \in 1..(at - 1)
    BY <1>9, <1>1, <1>4
  <2>3. ShapeBlock(c)
    BY <2>2, <1>6d
  <2>4. PICK w \in Range(c.items) : w.value = Final(c)
    BY <2>3, FinalGreatest
  <2>5. w \in K /\ w.value < v /\ w.value \in Int
    BY <2>2, <2>4, <1>1, <1>5, <1>6a
  <2>6. ASSUME NEW z \in K, z.value =< v PROVE z.value =< w.value
    <3>1. PICK i \in 1..(at - 1) : z \in Range(bs[i].items)
      BY <2>6, <1>7, <1>9
    <3>2. CASE i = at - 1
      BY <3>1, <3>2, <2>3, <2>4, FinalGreatest
    <3>3. CASE i < at - 1
      <4>1. i \in 1..Len(bs)
        BY <1>1, <1>4
      <4>2. z.value < w.value
        BY <3>1, <3>3, <4>1, <2>2, <2>4, <1>6 DEF Precede
      <4> QED BY <4>2, <2>5, <1>6a
    <3> QED BY <3>2, <3>3, <1>1
  <2>7. w.value \in ValuesOf(K) /\ w.value =< v
    BY <2>5, <1>4 DEF ValuesOf
  <2>8. \A u \in ValuesOf(K) : u =< v => u =< w.value
    BY <2>6 DEF ValuesOf
  <2> QED BY <2>1, <2>4, <2>7, <2>8, <1>6c DEF Nearest, K
<1>10. CASE p = 1 /\ at = 1
  <2>1. Rounded(v) = v
    BY <1>10, <1>2
  <2>2. \A u \in ValuesOf(K) : ~ u =< v
    <3> SUFFICES ASSUME NEW z \in K, z.value =< v PROVE FALSE
      BY DEF ValuesOf
    <3> QED BY <1>7, <1>10
  <2> QED BY <2>1, <2>2, <1>6c DEF Nearest, K
<1> QED BY <1>1, <1>3, <1>8, <1>9, <1>10

(* Either way, and a value that has a boundary keeps it.                   *)
LEMMA RoundedNearest ==
  ASSUME Shape(blocks), dir \in Directions, NEW v \in Values
  PROVE  Nearest(Kept(blocks), Rounded(v), v) /\ Rounded(v) \in Values
<1>1. Nearest(Kept(blocks), Rounded(v), v)
  <2>1. CASE blocks = <<>>
    <3>1. Rounded(v) = v /\ Kept(blocks) = {}
      BY <2>1, KeptEmpty DEF Rounded
    <3> QED BY <3>1 DEF Nearest, ValuesOf
  <2>2. CASE blocks # <<>> /\ Has(blocks[BlockAt(blocks, v)], v)
    <3>1. Rounded(v) = v
      BY <2>2 DEF Rounded
    <3>2. v \in ValuesOf(Kept(blocks))
      BY <2>2, FoundAt DEF ValuesOf
    <3>3. Outward(v, v)
      BY ValuesInt DEF Outward
    <3> QED BY <3>1, <3>2, <3>3 DEF Nearest
  <2>3. CASE blocks # <<>> /\ ~Has(blocks[BlockAt(blocks, v)], v)
    BY <2>3, RoundedUp, RoundedDown DEF Directions
  <2> QED BY <2>1, <2>2, <2>3
<1>2. ValuesOf(Kept(blocks)) \subseteq Values
  BY KeptItems, ItemProps DEF ValuesOf
<1> QED BY <1>1, <1>2 DEF Nearest

-----------------------------------------------------------------------------
(* The blocks and the postings of BoundaryIndex.                           *)

BlocksFollow == Good(blocks) /\ posting = PostingOf(blocks)

(* The postings are those of the items kept.                               *)
LEMMA FollowKept ==
  ASSUME BlocksFollow
  PROVE  /\ Shape(blocks) /\ posting = PostingFrom(Kept(blocks)) /\ Boundaries = ValuesOf(Kept(blocks))
         /\ \A v \in Boundaries : posting[v] = BitsOf(Kept(blocks), v)
<1>1. Shape(blocks)
  BY DEF BlocksFollow, Good
<1>2. posting = PostingFrom(Kept(blocks))
  BY <1>1, PostingOfKept DEF BlocksFollow
<1>3. Boundaries = ValuesOf(Kept(blocks)) /\ \A v \in Boundaries : posting[v] = BitsOf(Kept(blocks), v)
  BY <1>2, PostingFromAt DEF Boundaries
<1> QED BY <1>1, <1>2, <1>3

LEMMA FollowsFrom ==
  ASSUME Good(blocks'), PostingFollows
  PROVE  BlocksFollow' /\ posting' = PostingFrom(Kept(blocks'))
<1>1. posting' = PostingOf(blocks')
  BY DEF PostingFollows
<1>2. Shape(blocks')
  BY DEF Good
<1>3. PostingOf(blocks') = PostingFrom(Kept(blocks'))
  BY <1>2, PostingOfKept
<1> QED BY <1>1, <1>3 DEF BlocksFollow

(* insertOrdered is a Store of the abstract index.                         *)
LEMMA InsertStores ==
  ASSUME BoundaryInv, BlocksFollow, NEW v \in Values, NEW id \in Ids, Insert(v, id)
  PROVE  BlocksFollow' /\ Store(v, id)
<1> DEFINE u == IF quantized THEN Rounded(v) ELSE v
           ids == {id}
           K == Kept(blocks)
<1>1. /\ ~published /\ blocks' = WithId(blocks, u, id) /\ stored' = stored \cup {<<v, id>>}
      /\ PostingFollows /\ UNCHANGED <<dir, quantized, published>>
  BY DEF Insert, Building
<1>2. dir \in Directions
  BY DEF BoundaryInv, TypeOK
<1>3. Shape(blocks) /\ Good(blocks) /\ posting = PostingFrom(K) /\ Boundaries = ValuesOf(K)
  BY FollowKept DEF BlocksFollow
<1>4. u \in Values /\ (quantized => Nearest(K, u, v)) /\ (~quantized => u = v)
  BY <1>2, <1>3, RoundedNearest
<1> HIDE DEF u, ids, K
<1>5. Good(blocks') /\ Kept(blocks') = With(K, u, ids)
  <2>1. Good(WithId(blocks, u, id)) /\ Kept(WithId(blocks, u, id)) = With(Kept(blocks), u, {id})
    BY <1>3, <1>4, WithIdEffect
  <2> QED BY <1>1, <2>1 DEF K, ids
<1>6. BlocksFollow' /\ posting' = PostingFrom(With(K, u, ids))
  BY <1>1, <1>5, FollowsFrom
<1>7. PostingFrom(With(K, u, ids)) = Gained(K, u, ids)
  BY PostingWith
<1>8. posting' = [c \in Boundaries \cup {u} |->
                    (IF c \in Boundaries THEN posting[c] ELSE {}) \cup (IF c = u THEN {id} ELSE {})]
  BY <1>3, <1>6, <1>7 DEF ids, Gained
<1>9. \/ quantized /\ u \in Home(v)
      \/ u = v /\ (quantized => \A c \in Boundaries : ~Outward(c, v))
  BY <1>3, <1>4 DEF Nearest, Home
<1>10. Store(v, id)
  BY <1>1, <1>4, <1>8, <1>9 DEF Store
<1> QED BY <1>6, <1>10

(* rebuildOrderedBoundaries is a Merge of it.                              *)
LEMMA MergeStep ==
  ASSUME BoundaryInv, BlocksFollow, NEW n \in Neighbours(blocks), ~published,
         blocks' = Merged(blocks, n), quantized' = TRUE, PostingFollows,
         UNCHANGED <<dir, stored, published>>
  PROVE  /\ BlocksFollow'
         /\ \E inner, outer \in Boundaries : Merge(inner, outer)
<1> DEFINE K == Kept(blocks)
           x == LeftItem(blocks, n)
           y == RightItem(blocks, n)
           item == MergedItem(blocks, n)
<1>1. dir \in Directions
  BY DEF BoundaryInv, TypeOK
<1>2. Shape(blocks) /\ Good(blocks) /\ posting = PostingFrom(K) /\ Boundaries = ValuesOf(K)
  BY FollowKept DEF BlocksFollow
<1>3. Good(blocks') /\ Kept(blocks') = (K \ {x, y}) \cup {item}
  BY <1>1, <1>2, MergedEffect
<1>4. /\ x \in K /\ y \in K /\ x.value < y.value
      /\ \A z \in K : z.value =< x.value \/ z.value >= y.value
  BY <1>2, NeighboursAdjacent
<1>5. /\ item.value = IF dir = "lessThan" THEN y.value ELSE x.value
      /\ item.bits = x.bits \cup y.bits
  BY <1>2, MergedItemIn
<1>6. Single(K)
  BY <1>2, KeptSingle
<1>7. \A z \in K : z.value \in Int
  BY <1>2, KeptItems, ItemProps
<1>8. x.value \in Boundaries /\ y.value \in Boundaries
      /\ \A c \in Boundaries : c \in Int /\ (c =< x.value \/ c >= y.value)
  BY <1>2, <1>4, <1>7 DEF ValuesOf
<1> HIDE DEF K, x, y, item
<1>9. BlocksFollow' /\ posting' = PostingFrom((K \ {x, y}) \cup {item})
  BY <1>3, FollowsFrom
<1>10. x.value # y.value /\ x.value \in Int /\ y.value \in Int
  BY <1>4, <1>7
<1>11. CASE dir = "lessThan"
  <2>1. item.value = y.value /\ item.bits = x.bits \cup y.bits
    BY <1>5, <1>11
  <2>2. PostingFrom((K \ {x, y}) \cup {item}) =
          [b \in ValuesOf(K) \ {x.value} |->
             PostingFrom(K)[b] \cup (IF b = y.value THEN PostingFrom(K)[x.value] ELSE {})]
    BY <1>4, <1>6, <1>10, <2>1, PostingMerged
  <2>3. posting' = [b \in Boundaries \ {x.value} |->
                      posting[b] \cup (IF b = y.value THEN posting[x.value] ELSE {})]
    BY <1>2, <1>9, <2>2
  <2>4. Outward(y.value, x.value)
        /\ \A c \in Boundaries : Outward(c, x.value) /\ c # x.value => Outward(c, y.value)
    BY <1>4, <1>8, <1>10, <1>11 DEF Outward
  <2>5. Merge(x.value, y.value)
    BY <1>10, <2>3, <2>4 DEF Merge
  <2> QED BY <1>8, <1>9, <2>5
<1>12. CASE dir # "lessThan"
  <2>1. item.value = x.value /\ item.bits = y.bits \cup x.bits
    BY <1>5, <1>12
  <2>2. PostingFrom((K \ {y, x}) \cup {item}) =
          [b \in ValuesOf(K) \ {y.value} |->
             PostingFrom(K)[b] \cup (IF b = x.value THEN PostingFrom(K)[y.value] ELSE {})]
    BY <1>4, <1>6, <1>10, <2>1, PostingMerged
  <2>2a. {y, x} = {x, y}
    OBVIOUS
  <2>3. posting' = [b \in Boundaries \ {y.value} |->
                      posting[b] \cup (IF b = x.value THEN posting[y.value] ELSE {})]
    BY <1>2, <1>9, <2>2, <2>2a
  <2>4. Outward(x.value, y.value)
        /\ \A c \in Boundaries : Outward(c, y.value) /\ c # y.value => Outward(c, x.value)
    BY <1>4, <1>8, <1>10, <1>12 DEF Outward
  <2>5. Merge(y.value, x.value)
    BY <1>10, <2>3, <2>4 DEF Merge
  <2> QED BY <1>8, <1>9, <2>5
<1> QED BY <1>11, <1>12

(* Every step of the blocks is one of BoundaryIndex, or changes nothing.   *)
LEMMA IndexStep ==
  ASSUME BoundaryInv, BlocksFollow, [Next]_vars
  PROVE  BlocksFollow' /\ [BoundaryNext]_boundaryVars
<1>1. Shape(blocks) /\ Good(blocks) /\ posting = PostingFrom(Kept(blocks))
  BY FollowKept DEF BlocksFollow
<1>2. ASSUME NEW v \in Values, NEW id \in Ids, Insert(v, id)
      PROVE  BlocksFollow' /\ [BoundaryNext]_boundaryVars
  BY <1>2, InsertStores DEF BoundaryNext
<1>3. CASE Coarsen
  <2>1. PICK n \in BestMerges(blocks) : blocks' = Merged(blocks, n)
    BY <1>3 DEF Coarsen
  <2>2. n \in Neighbours(blocks)
    BY DEF BestMerges
  <2>3. ~published /\ quantized' = TRUE /\ PostingFollows /\ UNCHANGED <<dir, stored, published>>
    BY <1>3 DEF Coarsen, Building
  <2>4. BlocksFollow' /\ \E inner, outer \in Boundaries : Merge(inner, outer)
    BY <2>1, <2>2, <2>3, MergeStep
  <2> QED BY <2>4 DEF BoundaryNext
<1>4. CASE Clone
  <2>1. blocks' = Cloned(blocks) /\ PostingFollows /\ UNCHANGED <<dir, stored, quantized, published>>
    BY <1>4 DEF Clone, Building
  <2>2. Good(blocks') /\ Kept(blocks') = Kept(blocks)
    BY <1>1, <2>1, ClonedEffect
  <2>3. BlocksFollow' /\ posting' = posting
    BY <1>1, <2>1, <2>2, FollowsFrom
  <2> QED BY <2>1, <2>3 DEF boundaryVars
<1>5. CASE Measure
  <2>1. UNCHANGED <<blocks, posting, stored, quantized, published, dir>>
    BY <1>5 DEF Measure, Building
  <2>2. BlocksFollow'
    BY <2>1 DEF BlocksFollow
  <2> QED BY <2>1, <2>2 DEF boundaryVars
<1>6. ASSUME NEW compareBy \in BOOLEAN, PrepareSearch(compareBy)
      PROVE  BlocksFollow' /\ [BoundaryNext]_boundaryVars
  <2>1. /\ ~published /\ published' = TRUE /\ PostingFollows /\ UNCHANGED <<dir, quantized, stored>>
        /\ blocks' = Shared(blocks)
    BY <1>6 DEF PrepareSearch, Shared
  <2>2. Good(blocks') /\ Kept(blocks') = Kept(blocks)
    BY <1>1, <2>1, SharedEffect
  <2>3. BlocksFollow' /\ posting' = posting
    BY <1>1, <2>1, <2>2, FollowsFrom
  <2>4. Publish
    BY <2>1, <2>3 DEF Publish
  <2> QED BY <2>3, <2>4 DEF BoundaryNext
<1>7. CASE UNCHANGED vars
  <2>1. UNCHANGED <<blocks, posting, stored, quantized, published, dir>>
    BY <1>7 DEF vars
  <2>2. BlocksFollow'
    BY <2>1 DEF BlocksFollow
  <2> QED BY <2>1, <2>2 DEF boundaryVars
<1> QED BY <1>2, <1>3, <1>4, <1>5, <1>6, <1>7 DEF Next

(* The initial states of the index are initial states of it.               *)
LEMMA IndexInit ==
  ASSUME Init
  PROVE  BlocksFollow /\ BoundaryInit /\ BoundaryInv
<1>1. BoundaryInit /\ blocks = <<>>
  BY DEF Init
<1>2. BoundaryInv
  BY <1>1 DEF BoundaryInit, BoundaryInv, TypeOK, Housed, Faithful, Boundaries
<1>3. Good(blocks) /\ Kept(blocks) = {}
  BY <1>1, KeptEmpty
<1>4. Shape(blocks)
  BY <1>3 DEF Good
<1>5. PostingOf(blocks) = PostingFrom({})
  BY <1>3, <1>4, PostingOfKept
<1>6. PostingFrom({}) = [b \in {} |-> {}]
  BY DEF PostingFrom
<1> QED BY <1>1, <1>2, <1>3, <1>5, <1>6 DEF BlocksFollow, BoundaryInit

IndexInv == BoundaryInv /\ BlocksFollow

LEMMA BoundaryInvStep ==
  ASSUME BoundaryInv, [BoundaryNext]_boundaryVars
  PROVE  BoundaryInv'
<1>1. TypeOK' /\ Faithful'
  BY TypeStep, FaithfulStep DEF BoundaryInv
<1>2. Housed'
  <2>1. CASE Publish
    BY <2>1 DEF Publish, BoundaryInv, Housed, Home, Outward, Boundaries
  <2>2. CASE UNCHANGED boundaryVars
    BY <2>2 DEF boundaryVars, BoundaryInv, Housed, Home, Outward, Boundaries
  <2> QED BY <2>1, <2>2, HousedStore, HousedMerge DEF BoundaryNext
<1> QED BY <1>1, <1>2 DEF BoundaryInv

(* The inductive invariant of the index.                                   *)
LEMMA IndexInvHolds == Spec => []IndexInv
<1>1. Init => IndexInv
  BY IndexInit DEF IndexInv
<1>2. IndexInv /\ [Next]_vars => IndexInv'
  BY IndexStep, BoundaryInvStep DEF IndexInv
<1> QED BY <1>1, <1>2, PTL DEF Spec

(* The blocks implement BoundaryIndex.                                     *)
THEOREM ImplementsBoundaryHolds == Spec => ImplementsBoundary
<1>1. Init => BoundaryInit
  BY IndexInit
<1>2. IndexInv /\ [Next]_vars => [BoundaryNext]_boundaryVars
  BY IndexStep DEF IndexInv
<1> QED BY <1>1, <1>2, IndexInvHolds, PTL DEF Spec, BoundarySpec, ImplementsBoundary

-----------------------------------------------------------------------------
(* Layout and accounting.                                                  *)

(* Nothing the abstract index promises is lost in the blocks: a walk over  *)
(* them misses no rule, an equality lookup finds every rule of its value,  *)
(* and answers are exact until boundaries are merged (insertOrdered,       *)
(* rebuildOrderedBoundaries).                                              *)
THEOREM IndexAnswersHold == Spec => [](NoFalseNegatives /\ EqualityComplete /\ ExactUntilMerged)
BY ImplementsBoundaryHolds, NoFalseNegativesHolds, EqualityCompleteHolds, ExactUntilMergedHolds, PTL
   DEF ImplementsBoundary

(* Nor does a split, a clone or publication take an ID out of an answer.   *)
THEOREM IndexAnswersGrow == Spec => AnswersGrow
BY ImplementsBoundaryHolds, AnswersGrowHolds, PTL DEF ImplementsBoundary

(* The blocks are a sorted partition of the values with exact unions       *)
(* (insertItem, rebuildSelectedOrderedBoundaryInto, cloneBuild).           *)
THEOREM LayoutHolds == Spec => []Layout
<1>1. IndexInv => Layout
  <2> SUFFICES ASSUME IndexInv PROVE Layout
    OBVIOUS
  <2> DEFINE items == Items(blocks)
  <2>1. Good(blocks) /\ Shape(blocks) /\ blocks \in Seq(BlockSet)
    BY DEF IndexInv, BlocksFollow, Good, Shape
  <2>2. items \in Seq(ItemSet) /\ Ascending(items)
    BY <2>1, ItemsEffect
  <2>3. Range(blocks) = {blocks[i] : i \in 1..Len(blocks)}
    BY <2>1, ItemsOfSeq
  <2> HIDE DEF items
  <2>4. DOMAIN items = 1..Len(items) /\ \A i \in 1..Len(items) : items[i] \in ItemSet
    BY <2>2
  <2>5. \A i \in DOMAIN items : items[i].value \in Values /\ items[i].bits \subseteq Ids
    BY <2>4, ItemProps
  <2>6. \A i, j \in DOMAIN items : i < j => items[i].value < items[j].value
    BY <2>2, <2>4 DEF Ascending
  <2>7. \A b \in Range(blocks) : GoodBlock(b)
    BY <2>1, <2>3 DEF Good
  <2>8. \A b \in Range(blocks) :
          /\ Len(b.items) \in 1..(2 * BlockSize)
          /\ b.bits = Postings(b.items)
          /\ b.alias # NoAlias => Len(b.items) = 1 /\ b.items[1].value = b.alias
    BY <2>7 DEF GoodBlock, ShapeBlock
  <2> QED BY <2>5, <2>6, <2>8 DEF Layout, items
<1> QED BY <1>1, IndexInvHolds, PTL

(* Every step keeps the cached usage current or drops it.                  *)
LEMMA AccountingStep ==
  ASSUME IndexInv, AccountingCurrent, [Next]_vars
  PROVE  AccountingCurrent'
<1>0. dir \in Directions /\ Good(blocks)
  BY DEF IndexInv, BoundaryInv, TypeOK, BlocksFollow
<1>1. ASSUME NEW v \in Values, NEW id \in Ids, Insert(v, id) PROVE AccountingCurrent'
  BY <1>1 DEF Insert, AccountingCurrent
<1>2. CASE Coarsen
  <2>1. PICK n \in BestMerges(blocks) : blocks' = Merged(blocks, n) /\ accounting' = MemoryAfter(blocks, n)
    BY <1>2 DEF Coarsen
  <2>2. n \in Neighbours(blocks)
    BY DEF BestMerges
  <2>3. MemoryAfter(blocks, n) = Memory(Merged(blocks, n))
    BY <1>0, <2>2, MemoryMerged DEF AccountingCurrent
  <2> QED BY <2>1, <2>3 DEF AccountingCurrent
<1>3. CASE Clone
  BY <1>3 DEF Clone, AccountingCurrent
<1>4. CASE Measure
  BY <1>4 DEF Measure, AccountingCurrent
<1>5. ASSUME NEW compareBy \in BOOLEAN, PrepareSearch(compareBy) PROVE AccountingCurrent'
  <2>1. blocks' = Shared(blocks) /\ (accounting' = accounting \/ accounting' = None)
    BY <1>5 DEF PrepareSearch, Shared
  <2>2. Memory(Shared(blocks)) = Memory(blocks)
    BY <1>0, SharedEffect
  <2> QED BY <2>1, <2>2 DEF AccountingCurrent
<1>6. CASE UNCHANGED vars
  BY <1>6 DEF vars, AccountingCurrent
<1> QED BY <1>1, <1>2, <1>3, <1>4, <1>5, <1>6 DEF Next

(* The usage a rebuild derives from the blocks it replaced is the usage of *)
(* the whole index, however many insertions, merges, clones and splits     *)
(* came before (rebuildSelectedOrderedBoundaryInto, buildAccounting).      *)
THEOREM AccountingCurrentHolds == Spec => []AccountingCurrent
<1>1. Init => AccountingCurrent
  BY DEF Init, AccountingCurrent
<1>2. IndexInv /\ AccountingCurrent /\ [Next]_vars => AccountingCurrent'
  BY AccountingStep
<1> QED BY <1>1, <1>2, IndexInvHolds, PTL DEF Spec

-----------------------------------------------------------------------------
(* What publication leaves for a search.                                   *)

RoutesInside ==
  routing # None => \A slot \in DOMAIN routing.blocks : routing.blocks[slot] \in 1..Len(blocks)

Prepared ==
  published => prefix = PrefixCounts /\ RoutesInside /\ (ranges = <<>> \/ ranges = RangeUnions)

(* Counts and unions depend on the blocks' bits only.                      *)
LEMMA PrefixShared ==
  ASSUME NEW bs, NEW cs, Len(cs) = Len(bs), \A i \in 1..Len(bs) : cs[i].bits = bs[i].bits, Len(bs) \in Nat
  PROVE  [i \in 1..(Len(bs) + 1) |-> SumFunction([j \in 1..(i - 1) |-> Cardinality(bs[j].bits)])] =
         [i \in 1..(Len(cs) + 1) |-> SumFunction([j \in 1..(i - 1) |-> Cardinality(cs[j].bits)])]
<1>1. ASSUME NEW i \in 1..(Len(bs) + 1)
      PROVE  [j \in 1..(i - 1) |-> Cardinality(bs[j].bits)] = [j \in 1..(i - 1) |-> Cardinality(cs[j].bits)]
  <2>1. \A j \in 1..(i - 1) : j \in 1..Len(bs)
    OBVIOUS
  <2>2. \A j \in 1..(i - 1) : Cardinality(bs[j].bits) = Cardinality(cs[j].bits)
    BY <2>1
  <2> QED BY <2>2
<1> QED BY <1>1

(* Quotients: q groups of r fit into n, and one more does not.             *)
LEMMA DivBounds ==
  ASSUME NEW n \in Int, NEW r \in Int, r > 0, n >= 0, NEW q, q = n \div r
  PROVE  q \in Nat /\ q * r \in Int /\ q * r =< n /\ n < q * r + r
<1>1. q \in Int
  OBVIOUS
<1> DEFINE m == n % r
<1>2. m \in Int /\ n = r * q + m /\ m >= 0 /\ m < r
  OBVIOUS
<1> HIDE DEF m
<1>3. q * r = r * q /\ q * r \in Int
  BY <1>1
<1>4. q >= 0
  <2> SUFFICES ASSUME q =< -1 PROVE FALSE
    BY <1>1
  <2>1. r * q =< r * (-1)
    BY <1>1
  <2> QED BY <2>1, <1>2, <1>3
<1> QED BY <1>1, <1>2, <1>3, <1>4
(* Products of a group number and a group size.                            *)
LEMMA Scaled ==
  ASSUME NEW r \in Int, r > 0, NEW g \in Int, NEW q \in Int
  PROVE  g * r \in Int /\ (g - 1) * r = g * r - r /\ (g =< q => g * r =< q * r) /\ (g >= 1 => g * r >= r)
         /\ (g < q => g * r + r =< q * r)
OBVIOUS

GroupBits(bs, g) ==
  UNION {bs[i].bits : i \in ((g - 1) * RangeBlockSize + 1)..(g * RangeBlockSize)}

(* So do the unions of whole groups.                                       *)
LEMMA RangesShared ==
  ASSUME NEW bs, NEW cs, Len(cs) = Len(bs), \A i \in 1..Len(bs) : cs[i].bits = bs[i].bits, Len(bs) \in Nat,
         NEW g \in 1..(Len(bs) \div RangeBlockSize)
  PROVE  GroupBits(bs, g) = GroupBits(cs, g)
<1> DEFINE r == RangeBlockSize
           q == Len(bs) \div r
           below == (g - 1) * r
           above == g * r
           G == (below + 1)..above
<1>1. r \in Int /\ r > 0 /\ g \in Int /\ g >= 1
  BY OrderedAssumption
<1>2. q \in Nat /\ q * r \in Int /\ q * r =< Len(bs)
  <2> HIDE DEF r
  <2>1. Len(bs) \in Int /\ Len(bs) >= 0
    OBVIOUS
  <2> QED BY <1>1, <2>1, DivBounds
<1>3. g =< q
  BY <1>2
<1>4. above \in Int /\ below = above - r /\ above =< q * r /\ above >= r
  <2> HIDE DEF r, q
  <2>1. q \in Int
    BY <1>2
  <2> QED BY <1>1, <1>3, <2>1, Scaled
<1>5. G \subseteq 1..Len(bs)
  <2> DEFINE top == q * r
  <2>1. top \in Int /\ above =< top /\ top =< Len(bs)
    BY <1>2, <1>4
  <2> HIDE DEF top, above, below, r, q
  <2> QED BY <1>1, <1>4, <2>1
<1>6. \A i \in G : bs[i].bits = cs[i].bits
  <2> HIDE DEF G
  <2> QED BY <1>5
<1>7. {bs[i].bits : i \in G} = {cs[i].bits : i \in G}
  <2> HIDE DEF G
  <2> QED BY <1>6
<1> QED BY <1>7 DEF GroupBits

(* prepareRouting fills its slots with blocks that exist.                  *)
LEMMA RoutesIn ==
  ASSUME Shape(blocks), NEW r, r = Routes, r # None
  PROVE  \A slot \in DOMAIN r.blocks : r.blocks[slot] \in 1..Len(blocks)
<1> DEFINE count == Len(blocks)
           low   == key[First(blocks[1])]
           span  == key[Final(blocks[count])] - low
           width == (span \div count + 1) % KeyModulus
           used  == Min({span \div width + 1, count})
           S(slot) == {i \in 1..count : i = count \/ key[Final(blocks[i])] >= low + slot * width}
<1>1. blocks # <<>>
  BY DEF Routes
<1>2. r.blocks = [slot \in 0..(used - 1) |-> Min(S(slot))]
  BY DEF Routes
<1>3. count \in Nat /\ count >= 1
  BY <1>1 DEF Shape
<1>4. ASSUME NEW slot PROVE Min(S(slot)) \in 1..count
  <2>1. S(slot) \subseteq Nat /\ count \in S(slot)
    BY <1>3
  <2>2. S(slot) \subseteq 1..count
    OBVIOUS
  <2> HIDE DEF S, count
  <2>3. Min(S(slot)) \in S(slot)
    BY <2>1, MinProps
  <2> QED BY <2>2, <2>3
<1> HIDE DEF S, count, used
<1> QED BY <1>2, <1>4 DEF count

(* Publication prepares the search, and nothing changes after it.          *)
LEMMA PreparedStep ==
  ASSUME IndexInv, Prepared, [Next]_vars
  PROVE  Prepared'
<1>1. CASE published
  <2>1. UNCHANGED vars
    BY <1>1 DEF Next, Insert, Coarsen, Clone, Measure, PrepareSearch
  <2> QED BY <2>1 DEF vars, Prepared, PrefixCounts, RoutesInside, RangeUnions
<1>2. CASE ~published'
  BY <1>2 DEF Prepared
<1>3. CASE ~published /\ published'
  <2>1. PICK compareBy \in BOOLEAN : PrepareSearch(compareBy)
    BY <1>3 DEF Next, Insert, Coarsen, Clone, Measure, vars
  <2>2. blocks' = Shared(blocks)
    BY <2>1 DEF PrepareSearch, Shared
  <2>3. Good(blocks) /\ Shape(blocks) /\ Len(blocks) \in Nat
    BY DEF IndexInv, BlocksFollow, Good, Shape
  <2>4. Len(blocks') = Len(blocks) /\ \A i \in 1..Len(blocks) : blocks'[i].bits = blocks[i].bits
    BY <2>2, <2>3, SharedEffect
  <2>5. prefix' = PrefixCounts'
    <3> DEFINE cs == blocks'
    <3>1. Len(cs) = Len(blocks) /\ \A i \in 1..Len(blocks) : cs[i].bits = blocks[i].bits
      BY <2>4
    <3>2. PrefixCounts' = [i \in 1..(Len(cs) + 1) |-> SumFunction([j \in 1..(i - 1) |-> Cardinality(cs[j].bits)])]
      BY DEF PrefixCounts
    <3> HIDE DEF cs
    <3>3. PrefixCounts =
            [i \in 1..(Len(cs) + 1) |-> SumFunction([j \in 1..(i - 1) |-> Cardinality(cs[j].bits)])]
      BY <2>3, <3>1, PrefixShared, SMTT(30) DEF PrefixCounts
    <3> QED BY <2>1, <3>2, <3>3, SMTT(30) DEF PrepareSearch
  <2>6. RoutesInside'
    <3> SUFFICES ASSUME routing' # None
                 PROVE  \A slot \in DOMAIN routing'.blocks : routing'.blocks[slot] \in 1..Len(blocks)
      BY <2>4 DEF RoutesInside
    <3>1. routing' = Routes
      BY <2>1 DEF PrepareSearch
    <3> DEFINE r == routing'
    <3>2. r = Routes /\ r # None
      BY <3>1
    <3> HIDE DEF r
    <3>3. \A slot \in DOMAIN r.blocks : r.blocks[slot] \in 1..Len(blocks)
      BY <3>2, <2>3, RoutesIn
    <3> QED BY <3>3 DEF r
  <2>7. ranges' = <<>> \/ ranges' = RangeUnions'
    <3>1. RangeUnions' = RangeUnions
      <4> DEFINE cs == blocks'
                 D == 1..(Len(blocks) \div RangeBlockSize)
      <4>1. Len(cs) = Len(blocks) /\ \A i \in 1..Len(blocks) : cs[i].bits = blocks[i].bits
        BY <2>4
      <4>2. RangeUnions' = IF Len(cs) < 2 * RangeBlockSize THEN <<>>
                           ELSE [g \in 1..(Len(cs) \div RangeBlockSize) |-> GroupBits(cs, g)]
        BY DEF RangeUnions, GroupBits
      <4>3. RangeUnions = IF Len(blocks) < 2 * RangeBlockSize THEN <<>>
                           ELSE [g \in D |-> GroupBits(blocks, g)]
        BY DEF RangeUnions, GroupBits
      <4> HIDE DEF cs
      <4>4. ASSUME NEW g \in D PROVE GroupBits(blocks, g) = GroupBits(cs, g)
        <5>1. g \in 1..(Len(blocks) \div RangeBlockSize)
          OBVIOUS
        <5> HIDE DEF D
        <5> QED BY <2>3, <4>1, <5>1, RangesShared
      <4>5. 1..(Len(cs) \div RangeBlockSize) = D
        BY <4>1
      <4> HIDE DEF D
      <4>6. [g \in D |-> GroupBits(blocks, g)] = [g \in D |-> GroupBits(cs, g)]
        BY <4>4
      <4> QED BY <4>1, <4>2, <4>3, <4>5, <4>6
    <3> QED BY <2>1, <3>1 DEF PrepareSearch
  <2> QED BY <2>5, <2>6, <2>7 DEF Prepared
<1> QED BY <1>1, <1>2, <1>3

(* What publication prepared stays as it is.                               *)
LEMMA PreparedHolds == Spec => []Prepared
<1>1. Init => Prepared
  BY DEF Init, BoundaryInit, Prepared
<1>2. IndexInv /\ Prepared /\ [Next]_vars => Prepared'
  BY PreparedStep
<1> QED BY <1>1, <1>2, IndexInvHolds, PTL DEF Spec

-----------------------------------------------------------------------------
(* A routed lookup ends in the block a search without routing finds.       *)

(* The last value of a block is one it keeps.                              *)
LEMMA FinalInt ==
  ASSUME NEW bs, Shape(bs), NEW i \in 1..Len(bs)
  PROVE  /\ Final(bs[i]) \in Int
         /\ \E x \in Range(bs[i].items) : x.value = Final(bs[i])
<1>1. ShapeBlock(bs[i])
  BY DEF Shape
<1> QED BY <1>1, FinalGreatest, BlockItems, ItemProps

(* Corrected back and then forward, any guess leads to the block.          *)
LEMMA RoutedIs ==
  ASSUME Shape(blocks), blocks # <<>>, NEW q \in Values, Guess(q) \in 1..Len(blocks)
  PROVE  RoutedBlock(q) = BlockAt(blocks, q)
<1> DEFINE n == Len(blocks)
           at == BlockAt(blocks, q)
           B == {i \in 1..Guess(q) : i = 1 \/ Final(blocks[i - 1]) < q}
           back == Max(B)
           F == {i \in back..n : i = n \/ Final(blocks[i]) >= q}
<1>1. n \in Nat /\ at \in 1..n
  BY Located DEF Shape
<1>2. \A i \in 1..(at - 1) : Final(blocks[i]) < q
  BY Located
<1>3. at < n => Final(blocks[at]) >= q
  BY Located
<1>4. \A i \in (at + 1)..n : Final(blocks[i]) > q
  <2> TAKE i \in (at + 1)..n
  <2>1. i \in 1..Len(blocks)
    BY <1>1
  <2>2. PICK x \in Range(blocks[i].items) : x.value = Final(blocks[i])
    BY <2>1, FinalInt
  <2>3. q < x.value
    BY Located
  <2> QED BY <2>2, <2>3, <2>1, FinalInt, ValuesInt
<1>5. \A i \in 1..n : Final(blocks[i]) \in Int
  BY FinalInt
<1>6. q \in Int
  BY ValuesInt
<1>7. back \in 1..Guess(q) /\ (back = 1 \/ Final(blocks[back - 1]) < q)
  <2>1. B \subseteq 0..Guess(q) /\ 1 \in B
    OBVIOUS
  <2> DEFINE g == Guess(q)
  <2>2. g \in Nat /\ B \subseteq 0..g /\ B # {}
    BY <2>1
  <2>3. \A i \in B : i \in 1..Guess(q) /\ (i = 1 \/ Final(blocks[i - 1]) < q)
    OBVIOUS
  <2> HIDE DEF B, g
  <2>4. Max(B) \in B
    BY <2>2, MaxProps
  <2> QED BY <2>3, <2>4
<1>8. RoutedBlock(q) = Min(F)
  BY DEF RoutedBlock
<1> HIDE DEF n, at, B, back
<1>9. back \in 1..n
  BY <1>7, <1>1 DEF n
<1>10. back =< at
  <2> SUFFICES ASSUME back > at PROVE FALSE
    BY <1>9, <1>1
  <2>1. Final(blocks[back - 1]) < q /\ back - 1 \in at..n /\ back - 1 < n
    BY <1>1, <1>7, <1>9
  <2> QED BY <2>1, <1>3, <1>4, <1>5, <1>6, <1>1
<1>11. at \in F
  BY <1>10, <1>9, <1>1, <1>3
<1>12. \A i \in F : at =< i
  <2> TAKE i \in F
  <2> QED BY <1>1, <1>2, <1>5, <1>6, <1>9
<1>13. F \subseteq Nat
  BY <1>9, <1>1
<1> HIDE DEF F
<1>14. Min(F) \in F /\ \A i \in F : Min(F) =< i
  BY <1>11, <1>13, MinProps
<1>15. Min(F) =< at /\ at =< Min(F) /\ Min(F) \in Nat
  BY <1>11, <1>12, <1>13, <1>14
<1> QED BY <1>1, <1>8, <1>15 DEF at

(* With or without a routing table.                                        *)
LEMMA BlockForIs ==
  ASSUME Shape(blocks), blocks # <<>>, RoutesInside, NEW q \in Values
  PROVE  BlockFor(q) = BlockAt(blocks, q)
<1>1. CASE routing = None
  BY <1>1 DEF BlockFor
<1>2. CASE routing # None
  <2>1. Len(blocks) \in Nat /\ Len(blocks) >= 1
    BY DEF Shape
  <2>2. Guess(q) \in 1..Len(blocks)
    BY <1>2, <2>1 DEF Guess, RoutesInside
  <2> QED BY <1>2, <2>2, RoutedIs DEF BlockFor
<1> QED BY <1>1, <1>2

(* What a published search collects.                                       *)

(* The positions walk visits are those whose values satisfy the query.     *)
LEMMA MatchedIs ==
  ASSUME NEW b, ShapeBlock(b), NEW q \in Values, NEW inclusive \in BOOLEAN, dir \in Directions
  PROVE  Matched(b, q, inclusive) = {i \in 1..Len(b.items) : Covers(b.items[i].value, q, inclusive)}
<1> DEFINE n == Len(b.items)
           val(i) == b.items[i].value
           Beyond(i) == val(i) > q \/ (val(i) = q /\ inclusive = (dir = "lessThan"))
           S == {i \in 1..(n + 1) : i > n \/ Beyond(i)}
           lo == Min(S)
<1>1. n \in Nat /\ \A i \in 1..n : val(i) \in Int
  BY BlockItems
<1>2. q \in Int
  BY ValuesInt
<1>3. \A i, j \in 1..n : i < j => val(i) < val(j)
  BY DEF ShapeBlock, Ascending
<1>4. lo \in 1..(n + 1) /\ (lo > n \/ Beyond(lo)) /\ \A i \in 1..n : i < lo => ~Beyond(i)
  <2>1. S \subseteq Nat /\ n + 1 \in S
    BY <1>1
  <2>2. \A i \in S : i \in 1..(n + 1) /\ (i > n \/ Beyond(i))
    OBVIOUS
  <2>3. \A i \in 1..n : Beyond(i) => i \in S
    BY <1>1
  <2> HIDE DEF S, n, Beyond
  <2>4. Min(S) \in S /\ \A i \in S : Min(S) =< i
    BY <2>1, MinProps
  <2> QED BY <2>2, <2>3, <2>4, <1>1
<1>6. Matched(b, q, inclusive) = IF dir = "lessThan" THEN lo..n ELSE 1..(lo - 1)
  BY DEF Matched
<1> HIDE DEF lo, S
<1>5. \A i \in 1..n : i >= lo => Beyond(i)
  <2> TAKE i \in 1..n
  <2> HAVE i >= lo
  <2>1. CASE i = lo
    BY <2>1, <1>1, <1>4
  <2>2. CASE i > lo
    <3>1. lo \in 1..n /\ Beyond(lo)
      <4> HIDE DEF n, Beyond
      <4> QED BY <2>2, <1>1, <1>4
    <3>2. val(lo) < val(i)
      <4> HIDE DEF n, val
      <4> QED BY <2>2, <1>3, <3>1
    <3>3. val(lo) >= q
      <4>1. val(lo) \in Int
        BY <3>1, <1>1
      <4> HIDE DEF n, val
      <4> QED BY <3>1, <4>1, <1>2
    <3>4. val(i) > q
      <4>1. val(lo) \in Int /\ val(i) \in Int
        BY <3>1, <1>1
      <4> HIDE DEF n, val
      <4> QED BY <4>1, <3>2, <3>3, <1>2
    <3> QED BY <3>4
  <2> QED BY <2>1, <2>2, <1>1, <1>4
<1>7. CASE dir = "lessThan"
  <2>1. \A i \in 1..n : Covers(val(i), q, inclusive) <=> Beyond(i)
    BY <1>7, <1>1, <1>2 DEF Covers, Outward
  <2>2. \A i : i \in lo..n <=> i \in 1..n /\ Covers(val(i), q, inclusive)
    <3> HIDE DEF Beyond, n
    <3> QED BY <2>1, <1>1, <1>4, <1>5
  <2> HIDE DEF n
  <2>3. lo..n = {i \in 1..n : Covers(val(i), q, inclusive)}
    BY <2>2
  <2> QED BY <2>3, <1>6, <1>7 DEF n
<1>8. CASE dir = "greaterThan"
  <2>1. \A i \in 1..n : Covers(val(i), q, inclusive) <=> ~Beyond(i)
    BY <1>8, <1>1, <1>2 DEF Covers, Outward
  <2>2. \A i : i \in 1..(lo - 1) <=> i \in 1..n /\ Covers(val(i), q, inclusive)
    <3> HIDE DEF Beyond, n
    <3> QED BY <2>1, <1>1, <1>4, <1>5
  <2> HIDE DEF n
  <2>3. 1..(lo - 1) = {i \in 1..n : Covers(val(i), q, inclusive)}
    BY <2>2
  <2> QED BY <2>3, <1>6, <1>8 DEF n
<1> QED BY <1>7, <1>8 DEF Directions

(* The aggregates of whole groups and the blocks left over are the blocks. *)
GroupsIn(first, last) ==
  {g \in DOMAIN ranges : first =< (g - 1) * RangeBlockSize + 1 /\ g * RangeBlockSize =< last}
BlocksAlone(first, last) ==
  {i \in first..last : (i - 1) \div RangeBlockSize + 1 \notin GroupsIn(first, last)}
BitsOfGroups(G) == UNION {ranges[g] : g \in G}
BitsOfBlocks(B) == UNION {blocks[i].bits : i \in B}

LEMMA RangeWalkIs ==
  ASSUME Len(blocks) \in Nat, ranges = <<>> \/ ranges = RangeUnions,
         NEW first \in 1..(Len(blocks) + 1), NEW last \in 0..Len(blocks)
  PROVE  RangeWalk(first, last) = BitsOfBlocks(first..last)
<1> DEFINE r == RangeBlockSize
           Group(g) == ((g - 1) * r + 1)..(g * r)
           Within == GroupsIn(first, last)
           Alone == BlocksAlone(first, last)
           Groups == BitsOfGroups(Within)
           Others == BitsOfBlocks(Alone)
           All == BitsOfBlocks(first..last)
<1>1. r \in Int /\ r > 0
  BY OrderedAssumption
<1>2. RangeWalk(first, last) = Groups \cup Others
  BY DEF RangeWalk, GroupsIn, BlocksAlone, BitsOfGroups, BitsOfBlocks
<1>3. DOMAIN ranges \subseteq Int /\ \A g \in DOMAIN ranges : ranges[g] = UNION {blocks[i].bits : i \in Group(g)}
  <2>1. CASE ranges = <<>>
    BY <2>1
  <2>2. CASE ranges # <<>>
    <3> DEFINE D == 1..(Len(blocks) \div r)
    <3>1. ranges = [g \in D |-> UNION {blocks[i].bits : i \in Group(g)}]
      BY <2>2 DEF RangeUnions
    <3>2. D \subseteq Int
      OBVIOUS
    <3> HIDE DEF D, Group
    <3> QED BY <3>1, <3>2
  <2> QED BY <2>1, <2>2
<1>4. ASSUME NEW g \in Within PROVE Group(g) \subseteq first..last /\ g \in DOMAIN ranges
  <2> DEFINE low == (g - 1) * r
             high == g * r
  <2>1. low \in Int /\ high \in Int
    <3>1. g \in Int
      BY <1>3 DEF GroupsIn
    <3> QED BY <3>1, <1>1
  <2>2. first =< low + 1 /\ high =< last /\ g \in DOMAIN ranges
    BY DEF GroupsIn
  <2> HIDE DEF low, high
  <2>3. (low + 1)..high \subseteq first..last
    BY <2>1, <2>2
  <2> QED BY <2>2, <2>3 DEF low, high
<1>5. ASSUME NEW i \in first..last, i \notin Alone
      PROVE  \E g \in Within : i \in Group(g)
  <2> DEFINE m == i - 1
             q == m \div r
             g == q + 1
  <2>1. m \in Int /\ m >= 0 /\ i \in Int /\ i = m + 1
    OBVIOUS
  <2>2. q \in Nat /\ q * r \in Int /\ q * r =< m /\ m < q * r + r
    <3> HIDE DEF m, r
    <3> QED BY <2>1, <1>1, DivBounds
  <2>3. g \in Within
    BY <1>5 DEF BlocksAlone
  <2>4. g - 1 = q /\ g \in Int
    BY <2>2
  <2> HIDE DEF q, m, r, Within
  <2>5. g * r \in Int /\ (g - 1) * r = g * r - r
    <3> HIDE DEF g
    <3>1. q \in Int
      BY <2>2
    <3> QED BY <1>1, <2>4, <3>1, Scaled
  <2> HIDE DEF g
  <2>6. (g - 1) * r = q * r
    BY <2>4
  <2> DEFINE low == q * r
             high == g * r
  <2>7. low \in Int /\ high \in Int /\ low = high - r /\ low =< m /\ m < low + r
    BY <2>2, <2>5, <2>6
  <2>8. (g - 1) * r = low
    BY <2>6
  <2> HIDE DEF low, high
  <2>9. i \in (low + 1)..high
    BY <2>1, <2>7, <1>1
  <2>10. Group(g) = (low + 1)..high
    BY <2>8 DEF high
  <2> QED BY <2>3, <2>9, <2>10
<1>6. Alone \subseteq first..last
  BY DEF BlocksAlone
<1> HIDE DEF Within, Alone, Group
<1>7. \A id : id \in Groups <=> \E g \in Within : id \in ranges[g]
  BY DEF BitsOfGroups
<1>8. \A id : id \in Others <=> \E i \in Alone : id \in blocks[i].bits
  BY DEF BitsOfBlocks
<1>9. \A id : id \in All <=> \E i \in first..last : id \in blocks[i].bits
  BY DEF BitsOfBlocks
<1>10. \A g \in Within : \A id : id \in ranges[g] <=> \E i \in Group(g) : id \in blocks[i].bits
  BY <1>3, <1>4
<1>11. \A g \in Within : Group(g) \subseteq first..last
  BY <1>4
<1>12. \A i \in first..last : i \notin Alone => \E g \in Within : i \in Group(g)
  BY <1>5
<1> DEFINE Span == first..last
<1>13. (\A i \in Span : i \in Span) /\ \A id : id \in All <=> \E i \in Span : id \in blocks[i].bits
  BY <1>9
<1>14. Alone \subseteq Span /\ (\A g \in Within : Group(g) \subseteq Span)
       /\ \A i \in Span : i \notin Alone => \E g \in Within : i \in Group(g)
  BY <1>6, <1>11, <1>12
<1> HIDE DEF Groups, Others, All, Span
<1>16. \A id : id \in Groups \cup Others <=> id \in All
  BY <1>7, <1>8, <1>10, <1>13, <1>14
<1>17. Groups \cup Others = All
  BY <1>16
<1> QED BY <1>2, <1>17 DEF All

(* An answer in terms of the items kept.                                   *)
LEMMA AnswerIs ==
  ASSUME BlocksFollow, NEW q, NEW inclusive
  PROVE  Answer(q, inclusive) = UNION {x.bits : x \in {y \in Kept(blocks) : Covers(y.value, q, inclusive)}}
<1> DEFINE K == Kept(blocks)
<1>1. Boundaries = ValuesOf(K) /\ \A v \in Boundaries : posting[v] = BitsOf(K, v)
  BY FollowKept
<1> HIDE DEF K
<1>2. \A id : id \in Answer(q, inclusive) <=> \E x \in K : Covers(x.value, q, inclusive) /\ id \in x.bits
  <2>1. \A id : id \in Answer(q, inclusive) <=> \E v \in Boundaries : Covers(v, q, inclusive) /\ id \in posting[v]
    BY DEF Answer
  <2>2. \A id, v : id \in BitsOf(K, v) <=> \E x \in K : x.value = v /\ id \in x.bits
    BY DEF BitsOf
  <2>3. \A v : v \in Boundaries <=> \E x \in K : x.value = v
    BY <1>1 DEF ValuesOf
  <2> QED BY <1>1, <2>1, <2>2, <2>3
<1> QED BY <1>2 DEF K

(* Blocks before and after the one a query falls into.                     *)
BitsAmong(b, J) == UNION {b.items[i].bits : i \in J}

Reached(q, inclusive) ==
  BitsAmong(blocks[BlockAt(blocks, q)], Matched(blocks[BlockAt(blocks, q)], q, inclusive))
    \cup (IF dir = "lessThan" THEN BitsOfBlocks((BlockAt(blocks, q) + 1)..Len(blocks))
          ELSE BitsOfBlocks(1..(BlockAt(blocks, q) - 1)))

(* On one side of the block all values satisfy the query, on the other none. *)
LEMMA CoveredBlocks ==
  ASSUME Shape(blocks), blocks # <<>>, dir \in Directions, NEW q \in Values, NEW inclusive \in BOOLEAN,
         NEW at, at = BlockAt(blocks, q), NEW i \in 1..Len(blocks), NEW x \in Range(blocks[i].items)
  PROVE  /\ dir = "lessThan" => (i > at => Covers(x.value, q, inclusive)) /\ (i < at => ~Covers(x.value, q, inclusive))
         /\ dir = "greaterThan" => (i > at => ~Covers(x.value, q, inclusive)) /\ (i < at => Covers(x.value, q, inclusive))
<1>1. at \in 1..Len(blocks) /\ Len(blocks) \in Nat
  BY Located DEF Shape
<1>2. q \in Int
  BY ValuesInt
<1>3. x.value \in Int
  <2>1. ShapeBlock(blocks[i])
    BY DEF Shape
  <2> QED BY <2>1, BlockItems, ItemProps
<1>4. i > at => q < x.value
  <2>1. i > at => i \in (at + 1)..Len(blocks)
    BY <1>1
  <2> QED BY <2>1, Located
<1>5. i < at => x.value < q
  <2>1. i < at => i \in 1..(at - 1)
    BY <1>1
  <2> QED BY <2>1, Located
<1> QED BY <1>2, <1>3, <1>4, <1>5 DEF Covers, Outward

(* What is reached is the answer.                                          *)
LEMMA ReachedIs ==
  ASSUME BlocksFollow, dir \in Directions, blocks # <<>>, NEW q \in Values, NEW inclusive \in BOOLEAN
  PROVE  Reached(q, inclusive) = Answer(q, inclusive)
<1> DEFINE at == BlockAt(blocks, q)
           b == blocks[at]
           n == Len(blocks)
           near == Matched(b, q, inclusive)
           Hit(x) == Covers(x.value, q, inclusive)
           Near == BitsAmong(b, near)
           Up == BitsOfBlocks((at + 1)..n)
           Down == BitsOfBlocks(1..(at - 1))
<1>1. Shape(blocks) /\ n \in Nat /\ \A i \in 1..n : GoodBlock(blocks[i])
  BY DEF BlocksFollow, Good, Shape
<1>2. at \in 1..n
  BY <1>1, Located
<1>3. near = {i \in 1..Len(b.items) : Hit(b.items[i])}
  BY <1>1, <1>2, MatchedIs DEF GoodBlock
<1>4. \A i \in 1..n : \A id : id \in blocks[i].bits <=> \E x \in Range(blocks[i].items) : id \in x.bits
  <2> TAKE i \in 1..n
  <2>1. blocks[i].bits = AllBits(Range(blocks[i].items))
    BY <1>1, BlockItems, PostingsOfRange DEF GoodBlock
  <2> QED BY <2>1 DEF AllBits
<1>5. Range(b.items) = {b.items[i] : i \in 1..Len(b.items)}
  BY <1>1, <1>2, BlockItems DEF GoodBlock
<1>6. \A id : id \in Near <=> \E x \in Range(b.items) : Hit(x) /\ id \in x.bits
  <2> HIDE DEF near, b, Hit
  <2> QED BY <1>3, <1>5 DEF BitsAmong
<1>7. \A id : id \in Answer(q, inclusive) <=>
        \E i \in 1..n : \E x \in Range(blocks[i].items) : Hit(x) /\ id \in x.bits
  <2>1. Answer(q, inclusive) = UNION {x.bits : x \in {y \in Kept(blocks) : Hit(y)}}
    BY AnswerIs
  <2>2. \A x : x \in Kept(blocks) <=> \E i \in 1..n : x \in Range(blocks[i].items)
    BY DEF Kept
  <2> HIDE DEF Hit
  <2> QED BY <2>1, <2>2
<1>8. Reached(q, inclusive) = Near \cup (IF dir = "lessThan" THEN Up ELSE Down)
  BY DEF Reached
<1>9. CASE dir = "lessThan"
  <2>1. \A i \in 1..n : \A x \in Range(blocks[i].items) :
          (i > at => Hit(x)) /\ (i < at => ~Hit(x))
    BY <1>1, <1>9, CoveredBlocks
  <2>2. \A id : id \in Up <=>
                  \E i \in 1..n : i > at /\ \E x \in Range(blocks[i].items) : id \in x.bits
    <3>1. \A id : id \in Up <=>
                    \E i \in (at + 1)..n : id \in blocks[i].bits
      BY DEF BitsOfBlocks
    <3>2. \A i : i \in (at + 1)..n <=> i \in 1..n /\ i > at
      <4> HIDE DEF at, n
      <4> QED BY <1>1, <1>2
    <3> HIDE DEF at, n, Up, Down
    <3> QED BY <3>1, <3>2, <1>4
  <2>4. Reached(q, inclusive) = Near \cup Up
    <3> HIDE DEF Near, Up, Down, near, at, n
    <3> QED BY <1>9, <1>8
  <2>5. \A id : id \in Near <=> \E x \in Range(b.items) : Hit(x) /\ id \in x.bits
    BY <1>6
  <2>6. \A id : id \in Up <=> \E i \in 1..n : i > at /\ \E x \in Range(blocks[i].items) : id \in x.bits
    BY <2>2
  <2> HIDE DEF Hit, at, n, near, Near, Up
  <2>3. \A id : id \in Reached(q, inclusive) <=> id \in Answer(q, inclusive)
    <3> TAKE id
    <3>1. id \in Reached(q, inclusive) <=>
            \/ \E x \in Range(b.items) : Hit(x) /\ id \in x.bits
            \/ \E i \in 1..n : i > at /\ \E x \in Range(blocks[i].items) : id \in x.bits
      BY <2>4, <2>5, <2>6
    <3>2. \A i \in 1..n : i > at \/ i < at \/ i = at
      BY <1>1, <1>2
    <3> QED BY <3>1, <3>2, <1>7, <2>1, <1>2
  <2> QED BY <2>3
<1>10. CASE dir = "greaterThan"
  <2>1. \A i \in 1..n : \A x \in Range(blocks[i].items) :
          (i > at => ~Hit(x)) /\ (i < at => Hit(x))
    BY <1>1, <1>10, CoveredBlocks
  <2>2. \A id : id \in Down <=>
                  \E i \in 1..n : i < at /\ \E x \in Range(blocks[i].items) : id \in x.bits
    <3>1. \A id : id \in Down <=>
                    \E i \in 1..(at - 1) : id \in blocks[i].bits
      BY DEF BitsOfBlocks
    <3>2. \A i : i \in 1..(at - 1) <=> i \in 1..n /\ i < at
      <4> HIDE DEF at, n
      <4> QED BY <1>1, <1>2
    <3> HIDE DEF at, n, Up, Down
    <3> QED BY <3>1, <3>2, <1>4
  <2>4. Reached(q, inclusive) = Near \cup Down
    <3> HIDE DEF Near, Up, Down, near, at, n
    <3> QED BY <1>10, <1>8
  <2>5. \A id : id \in Near <=> \E x \in Range(b.items) : Hit(x) /\ id \in x.bits
    BY <1>6
  <2>6. \A id : id \in Down <=> \E i \in 1..n : i < at /\ \E x \in Range(blocks[i].items) : id \in x.bits
    BY <2>2
  <2> HIDE DEF Hit, at, n, near, Near, Down
  <2>3. \A id : id \in Reached(q, inclusive) <=> id \in Answer(q, inclusive)
    <3> TAKE id
    <3>1. id \in Reached(q, inclusive) <=>
            \/ \E x \in Range(b.items) : Hit(x) /\ id \in x.bits
            \/ \E i \in 1..n : i < at /\ \E x \in Range(blocks[i].items) : id \in x.bits
      BY <2>4, <2>5, <2>6
    <3>2. \A i \in 1..n : i > at \/ i < at \/ i = at
      BY <1>1, <1>2
    <3> QED BY <3>1, <3>2, <1>7, <2>1, <1>2
  <2> QED BY <2>3
<1> QED BY <1>9, <1>10 DEF Directions

(* walk, with its shortcuts, collects what is reached.                     *)
LEMMA WalkReached ==
  ASSUME BlocksFollow, dir \in Directions, blocks # <<>>, RoutesInside, ranges = <<>> \/ ranges = RangeUnions,
         NEW q \in Values, NEW inclusive \in BOOLEAN
  PROVE  Walk(q, inclusive) = Reached(q, inclusive)
<1> DEFINE at == BlockAt(blocks, q)
           b == blocks[at]
           near == Matched(b, q, inclusive)
           Near == BitsAmong(b, near)
           Up == BitsOfBlocks((at + 1)..Len(blocks))
           Down == BitsOfBlocks(1..(at - 1))
<1>1. Good(blocks) /\ Shape(blocks) /\ Len(blocks) \in Nat
  BY DEF BlocksFollow, Good, Shape
<1>2. at \in 1..Len(blocks)
  BY <1>1, Located
<1>3. BlockFor(q) = at
  BY <1>1, BlockForIs
<1>4. near = DOMAIN b.items => b.bits = Near
  <2>1. b.bits = Postings(b.items)
    BY <1>1, <1>2 DEF Good, GoodBlock
  <2> HIDE DEF b, near
  <2> QED BY <2>1 DEF Postings, BitsAmong
<1>5. RangeWalk(at + 1, Len(blocks)) = Up
  <2>1. at + 1 \in 1..(Len(blocks) + 1) /\ Len(blocks) \in 0..Len(blocks)
    BY <1>1, <1>2
  <2> QED BY <1>1, <2>1, RangeWalkIs
<1>6. RangeWalk(1, at - 1) = Down
  <2>1. 1 \in 1..(Len(blocks) + 1) /\ at - 1 \in 0..Len(blocks)
    BY <1>1, <1>2
  <2> QED BY <1>1, <2>1, RangeWalkIs
<1>9. near = DOMAIN b.items => b.bits = Near
  BY <1>4
<1>10. RangeWalk(at + 1, Len(blocks)) = Up /\ RangeWalk(1, at - 1) = Down
  BY <1>5, <1>6
<1>11. Walk(q, inclusive) =
         (IF near = DOMAIN b.items THEN b.bits ELSE Near)
           \cup (IF dir = "lessThan" THEN RangeWalk(at + 1, Len(blocks)) ELSE RangeWalk(1, at - 1))
  BY <1>3 DEF Walk, BitsAmong
<1>12. Reached(q, inclusive) = Near \cup (IF dir = "lessThan" THEN Up ELSE Down)
  BY DEF Reached
<1> HIDE DEF near, Near, Up, Down, b, at
<1> QED BY <1>9, <1>10, <1>11, <1>12

(* The item an equality lookup lands on: the first at or above the query.  *)
Ceiling(K, x, q) == x \in K /\ x.value >= q /\ \A y \in K : y.value < q \/ y.value >= x.value

(* The position in the block is the ceiling of the query.                  *)
LEMMA CeilingAt ==
  ASSUME Shape(blocks), NEW q \in Values, blocks # <<>>,
         NEW at, at = BlockAt(blocks, q), NEW p, p = Position(blocks[at], q)
  PROVE  /\ p > Len(blocks[at].items) => \A y \in Kept(blocks) : y.value < q
         /\ p =< Len(blocks[at].items) => Ceiling(Kept(blocks), blocks[at].items[p], q)
<1> DEFINE n == Len(blocks)
           b == blocks[at]
           m == Len(b.items)
<1>1. n \in Nat /\ at \in 1..n /\ q \in Int
  BY Located, ValuesInt DEF Shape
<1>2. ShapeBlock(b) /\ m \in Nat /\ m >= 1
  BY <1>1, BlockItems DEF Shape
<1>3. p \in 1..(m + 1) /\ (\A i \in 1..(p - 1) : b.items[i].value < q)
      /\ (\A i \in p..m : b.items[i].value >= q)
  BY <1>2, Positioned
<1>4. \A i \in 1..m : b.items[i].value \in Int /\ b.items[i] \in Range(b.items)
  BY <1>2, BlockItems
<1>5. \A y \in Range(b.items) : \E i \in 1..m : y = b.items[i]
  <2>1. Range(b.items) = {b.items[i] : i \in 1..m}
    BY <1>2, BlockItems
  <2> HIDE DEF b, m
  <2> QED BY <2>1
<1>6. \A i, j \in 1..m : i < j => b.items[i].value < b.items[j].value
  BY <1>2 DEF ShapeBlock, Ascending
<1>7. \A y \in Kept(blocks) : \E i \in 1..n : y \in Range(blocks[i].items)
  BY DEF Kept
<1>8. \A i \in 1..(at - 1) : \A y \in Range(blocks[i].items) : y.value < q
  BY Located
<1>9. \A i \in (at + 1)..n : \A y \in Range(blocks[i].items) : q < y.value
  BY Located
<1>10. at < n => p =< m
  <2> SUFFICES ASSUME at < n, p = m + 1 PROVE FALSE
    BY <1>2, <1>3
  <2>1. Final(b) >= q
    BY <1>1, Located
  <2>2. Final(b) = b.items[m].value
    BY <1>2, FinalGreatest
  <2>3. b.items[m].value < q /\ b.items[m].value \in Int
    BY <1>2, <1>3, <1>4
  <2> QED BY <1>1, <2>1, <2>2, <2>3
<1> HIDE DEF n, m
<1>11. ASSUME p > m PROVE \A y \in Kept(blocks) : y.value < q
  <2> TAKE y \in Kept(blocks)
  <2>1. PICK i \in 1..n : y \in Range(blocks[i].items)
    BY <1>7
  <2>2. at = n
    BY <1>1, <1>2, <1>3, <1>10, <1>11
  <2>3. CASE i = at
    <3>1. PICK j \in 1..m : y = b.items[j]
      BY <1>5, <2>1, <2>3
    <3>2. j \in 1..(p - 1)
      BY <1>2, <1>3, <1>11
    <3> QED BY <3>1, <3>2, <1>3
  <2>4. CASE i # at
    <3>1. i \in 1..(at - 1)
      BY <1>1, <2>2, <2>4
    <3> QED BY <3>1, <2>1, <1>8
  <2> QED BY <2>3, <2>4
<1>12. ASSUME p =< m PROVE Ceiling(Kept(blocks), b.items[p], q)
  <2> DEFINE x == b.items[p]
  <2>1. p \in 1..m /\ p \in p..m
    BY <1>2, <1>3, <1>12
  <2>2. x \in Range(b.items) /\ x.value \in Int /\ x.value >= q
    BY <2>1, <1>3, <1>4
  <2>3. x \in Kept(blocks)
    BY <2>2, <1>1 DEF Kept, n
  <2>4. ASSUME NEW y \in Kept(blocks) PROVE y.value < q \/ y.value >= x.value
    <3>1. PICK i \in 1..n : y \in Range(blocks[i].items)
      BY <1>7
    <3>2. CASE i = at
      <4>1. PICK j \in 1..m : y = b.items[j]
        BY <1>5, <3>1, <3>2
      <4>2. CASE j < p
        <5>1. j \in 1..(p - 1)
          BY <4>2, <1>2, <1>3
        <5> QED BY <4>1, <5>1, <1>3
      <4>3. CASE j = p
        BY <4>1, <4>3, <2>2
      <4>4. CASE j > p
        <5>1. x.value < y.value /\ y.value \in Int
          BY <4>1, <4>4, <2>1, <1>4, <1>6
        <5> QED BY <5>1, <2>2
      <4> QED BY <4>2, <4>3, <4>4, <1>2, <1>3
    <3>3. CASE i < at
      <4>1. i \in 1..(at - 1)
        BY <1>1, <3>3
      <4> QED BY <4>1, <3>1, <1>8
    <3>4. CASE i > at
      <4>1. x.value < y.value
        <5>1. at \in 1..Len(blocks) /\ i \in 1..Len(blocks) /\ at < i
          BY <1>1, <3>4 DEF n
        <5> QED BY <5>1, <2>2, <3>1 DEF Shape, Precede
      <4>2. y.value \in Int
        <5>1. y \in ItemSet
          BY KeptItems
        <5> QED BY <5>1, ItemProps
      <4> QED BY <4>1, <4>2, <2>2
    <3> QED BY <3>2, <3>3, <3>4, <1>1
  <2> QED BY <2>2, <2>3, <2>4 DEF Ceiling
<1> QED BY <1>11, <1>12 DEF m

(* The ceiling is the boundary the query is rounded to.                    *)
LEMMA CeilingHome ==
  ASSUME BoundaryInv, BlocksFollow, dir = "lessThan", NEW q \in Values, NEW x, Ceiling(Kept(blocks), x, q)
  PROVE  /\ Home(q) = {x.value} /\ posting[x.value] = x.bits
         /\ Boundaries \cap {q} = IF x.value = q THEN {q} ELSE {}
<1> DEFINE K == Kept(blocks)
<1>1. Shape(blocks) /\ Boundaries = ValuesOf(K) /\ \A v \in Boundaries : posting[v] = BitsOf(K, v)
  BY FollowKept
<1>2. K \subseteq ItemSet /\ Single(K)
  BY <1>1, KeptItems, KeptSingle
<1>3. \A y \in K : y.value \in Int
  BY <1>2, ItemProps
<1>4. q \in Int
  BY ValuesInt
<1>5. x \in K /\ x.value >= q /\ \A y \in K : y.value < q \/ y.value >= x.value
  BY DEF Ceiling
<1> HIDE DEF K
<1>6. \A v : v \in Boundaries <=> \E y \in K : y.value = v
  BY <1>1 DEF ValuesOf
<1>7. x.value \in Boundaries
  BY <1>5, <1>6
<1>8. posting[x.value] = x.bits
  <2>1. BitsOf(K, x.value) = x.bits
    BY <1>2, <1>5, SingleBits
  <2> QED BY <2>1, <1>1, <1>7
<1>9. \A v : v \in Home(q) <=> v = x.value
  <2> TAKE v
  <2>1. \A c \in Boundaries : c \in Int /\ (c < q \/ c >= x.value)
    BY <1>6, <1>5, <1>3
  <2>2. v \in Home(q) <=> v \in Boundaries /\ v >= q /\ \A c \in Boundaries : c >= q => c >= v
    BY DEF Home, Outward
  <2>3. x.value \in Int
    BY <1>5, <1>3
  <2> QED BY <2>1, <2>2, <2>3, <1>4, <1>5, <1>7
<1>10. q \in Boundaries <=> x.value = q
  <2>1. ASSUME q \in Boundaries PROVE x.value = q
    <3>1. PICK y \in K : y.value = q
      BY <2>1, <1>6
    <3> QED BY <3>1, <1>5, <1>3, <1>4
  <2> QED BY <2>1, <1>7
<1> QED BY <1>8, <1>9, <1>10

(* A query above every boundary has no equality answer.                    *)
LEMMA NoHome ==
  ASSUME BlocksFollow, dir = "lessThan", NEW q \in Values, \A y \in Kept(blocks) : y.value < q
  PROVE  EqualityAnswer(q) = {}
<1>1. Shape(blocks) /\ Boundaries = ValuesOf(Kept(blocks))
  BY FollowKept
<1>2. \A c \in Boundaries : c \in Int /\ c < q
  <2>1. \A y \in Kept(blocks) : y.value \in Int
    BY <1>1, KeptItems, ItemProps
  <2> QED BY <2>1, <1>1 DEF ValuesOf
<1>3. q \in Int
  BY ValuesInt
<1>4. Home(q) = {}
  BY <1>2, <1>3 DEF Home, Outward
<1>5. Boundaries \cap {q} = {}
  BY <1>2, <1>3
<1> QED BY <1>4, <1>5 DEF EqualityAnswer

(* An equality lookup, exact or rounded up, looks in the right posting.    *)
LEMMA EqualIs ==
  ASSUME BoundaryInv, BlocksFollow, dir = "lessThan", RoutesInside, NEW q \in Values
  PROVE  Equal(q) = EqualityAnswer(q)
<1>1. CASE blocks = <<>>
  <2>1. Equal(q) = {}
    BY <1>1 DEF Equal
  <2>2. \A y \in Kept(blocks) : y.value < q
    <3>1. Kept(blocks) = {}
      BY <1>1 DEF Kept
    <3> QED BY <3>1
  <2> QED BY <2>1, <2>2, NoHome
<1>2. CASE blocks # <<>>
  <2> DEFINE at == BlockAt(blocks, q)
             b == blocks[at]
             p == Position(b, q)
             x == b.items[p]
  <2>1. Shape(blocks) /\ at \in 1..Len(blocks)
    BY <1>2, Located DEF BlocksFollow, Good
  <2>2. ShapeBlock(b)
    BY <2>1 DEF Shape
  <2>3. p \in Int /\ Len(b.items) \in Nat
    BY <2>2, Positioned, BlockItems
  <2>4. BlockFor(q) = at
    BY <1>2, <2>1, BlockForIs
  <2>5. Equal(q) = IF p > Len(b.items) THEN {} ELSE IF quantized \/ x.value = q THEN x.bits ELSE {}
    BY <1>2, <2>4 DEF Equal
  <2>6. /\ p > Len(b.items) => \A y \in Kept(blocks) : y.value < q
        /\ p =< Len(b.items) => Ceiling(Kept(blocks), x, q)
    BY <1>2, <2>1, CeilingAt
  <2> HIDE DEF x, p, b, at
  <2>7. CASE p > Len(b.items)
    BY <2>5, <2>6, <2>7, NoHome
  <2>8. CASE p =< Len(b.items)
    <3>1. Equal(q) = IF quantized \/ x.value = q THEN x.bits ELSE {}
      BY <2>3, <2>5, <2>8
    <3>2. /\ Home(q) = {x.value} /\ posting[x.value] = x.bits
          /\ Boundaries \cap {q} = IF x.value = q THEN {q} ELSE {}
      BY <2>6, <2>8, CeilingHome
    <3>3. CASE quantized
      <4>1. EqualityAnswer(q) = UNION {posting[c] : c \in {x.value}}
        BY <3>2, <3>3 DEF EqualityAnswer
      <4> QED BY <4>1, <3>1, <3>2, <3>3
    <3>4. CASE ~quantized /\ x.value = q
      <4>1. EqualityAnswer(q) = UNION {posting[c] : c \in {q}}
        BY <3>2, <3>4 DEF EqualityAnswer
      <4> QED BY <4>1, <3>1, <3>2, <3>4
    <3>5. CASE ~quantized /\ x.value # q
      <4>1. EqualityAnswer(q) = UNION {posting[c] : c \in {}}
        BY <3>2, <3>5 DEF EqualityAnswer
      <4> QED BY <4>1, <3>1, <3>5
    <3> QED BY <3>3, <3>4, <3>5
  <2> QED BY <2>3, <2>7, <2>8
<1> QED BY <1>1, <1>2

(* A published walk returns the answer.                                    *)
LEMMA WalkIs ==
  ASSUME IndexInv, Prepared, published, NEW q \in Values, NEW inclusive \in BOOLEAN
  PROVE  Walk(q, inclusive) = Answer(q, inclusive)
<1>0. BlocksFollow /\ dir \in Directions /\ RoutesInside /\ (ranges = <<>> \/ ranges = RangeUnions)
  BY DEF IndexInv, BoundaryInv, TypeOK, Prepared
<1>1. CASE blocks = <<>>
  <2>1. Walk(q, inclusive) = {}
    BY <1>1 DEF Walk
  <2>2. Kept(blocks) = {}
    BY <1>1 DEF Kept
  <2>3. Answer(q, inclusive) = UNION {x.bits : x \in {y \in Kept(blocks) : Covers(y.value, q, inclusive)}}
    BY <1>0, AnswerIs
  <2> QED BY <2>1, <2>2, <2>3
<1>2. CASE blocks # <<>>
  BY <1>0, <1>2, WalkReached, ReachedIs
<1> QED BY <1>1, <1>2

(* A published index answers a walk or an equality lookup with exactly     *)
(* what its boundaries accept: neither the routing table (prepareRouting,  *)
(* routedBlockFor) nor the unions of blocks and of groups of blocks        *)
(* (walkBlockRange) changes an answer, whatever keys the values have.      *)
THEOREM SearchesAgreeHolds == Spec => []SearchesAgree
<1>1. IndexInv /\ Prepared => SearchesAgree
  <2> SUFFICES ASSUME IndexInv, Prepared, published, NEW q \in Values
               PROVE  /\ \A inclusive \in BOOLEAN : Walk(q, inclusive) = Answer(q, inclusive)
                      /\ dir = "lessThan" => Equal(q) = EqualityAnswer(q)
    BY DEF SearchesAgree
  <2>1. \A inclusive \in BOOLEAN : Walk(q, inclusive) = Answer(q, inclusive)
    BY WalkIs
  <2>2. dir = "lessThan" => Equal(q) = EqualityAnswer(q)
    BY EqualIs DEF IndexInv, Prepared
  <2> QED BY <2>1, <2>2
<1> QED BY <1>1, IndexInvHolds, PreparedHolds, PTL

(* Nothing is kept that was not stored.                                    *)

(* An ID is kept under a boundary only for a value rounded to it.          *)
Traced ==
  \A b \in Boundaries : \A id \in posting[b] :
    \E v \in Values : <<v, id>> \in stored /\ b \in Home(v)

(* A new boundary takes no value from an old one.                          *)
LEMMA TracedStore ==
  ASSUME BoundaryInv, Traced, NEW w \in Values, NEW i \in Ids, Store(w, i)
  PROVE  Traced'
<1>1. PICK n \in Values :
        /\ (quantized /\ n \in Home(w)) \/ (n = w /\ (quantized => \A c \in Boundaries : ~Outward(c, w)))
        /\ Boundaries' = Boundaries \cup {n}
        /\ \A c \in Boundaries \ {n} : posting'[c] = posting[c]
        /\ n \in Boundaries => posting'[n] = posting[n] \cup {i}
        /\ n \notin Boundaries => posting'[n] = {i}
  BY StoreEffect DEF BoundaryInv
<1>2. UNCHANGED <<dir, quantized>> /\ stored' = stored \cup {<<w, i>>}
  BY DEF Store
<1>3. dir \in Directions /\ Boundaries \subseteq Values
  BY DEF BoundaryInv, TypeOK
<1>4. \A c, v : Outward(c, v)' <=> Outward(c, v)
  BY <1>2 DEF Outward
<1>5. ASSUME NEW b \in Boundaries, NEW v \in Values, b \in Home(v), quantized \/ b = v
      PROVE  b \in Home(v)'
  <2>1. b \in Boundaries' /\ Outward(b, v) /\ \A c \in Boundaries : Outward(c, v) => Outward(c, b)
    BY <1>1, <1>5 DEF Home
  <2>2. ASSUME Outward(n, v) PROVE Outward(n, b)
    <3>1. CASE n \in Boundaries
      BY <3>1, <2>1, <2>2
    <3>2. CASE b = v
      BY <3>2, <2>2
    <3>3. CASE n \notin Boundaries /\ quantized
      <4>1. n = w /\ ~Outward(b, w)
        BY <1>1, <3>3 DEF Home
      <4> QED BY <4>1, <1>3, OutwardOrder
    <3> QED BY <3>1, <3>2, <3>3, <1>5
  <2> QED BY <2>1, <2>2, <1>1, <1>4 DEF Home
<1>6. n \in Home(w)'
  <2>1. Outward(n, w) /\ \A c \in Boundaries : Outward(c, w) => Outward(c, n)
    BY <1>1, <1>3, OutwardOrder DEF Home
  <2>2. Outward(n, n)
    BY <1>3, OutwardOrder
  <2> QED BY <2>1, <2>2, <1>1, <1>4 DEF Home
<1>7. ASSUME NEW b \in Boundaries', NEW id \in posting'[b]
      PROVE  \E v \in Values : <<v, id>> \in stored' /\ b \in Home(v)'
  <2>1. CASE b \in Boundaries /\ id \in posting[b]
    <3>1. PICK v \in Values : <<v, id>> \in stored /\ b \in Home(v) /\ (quantized \/ b = v)
      <4>1. CASE quantized
        BY <4>1, <2>1 DEF Traced
      <4>2. CASE ~quantized
        <5>1. <<b, id>> \in stored
          BY <4>2, <2>1 DEF BoundaryInv, Faithful
        <5>2. b \in Home(b) /\ b \in Values
          BY <2>1, <1>3, OutwardOrder DEF Home
        <5> QED BY <5>1, <5>2
      <4> QED BY <4>1, <4>2
    <3>2. b \in Home(v)'
      BY <3>1, <2>1, <1>5
    <3> QED BY <3>1, <3>2, <1>2
  <2>2. CASE ~(b \in Boundaries /\ id \in posting[b])
    <3>1. b = n /\ id = i
      BY <2>2, <1>1, <1>7
    <3> QED BY <3>1, <1>2, <1>6
  <2> QED BY <2>1, <2>2
<1> QED BY <1>7 DEF Traced

(* The values of the inner boundary are now nearest to the outer one.      *)
LEMMA TracedMerge ==
  ASSUME BoundaryInv, Traced, NEW inner \in Boundaries, NEW outer \in Boundaries, Merge(inner, outer)
  PROVE  Traced'
<1>1. /\ inner # outer
      /\ Boundaries' = Boundaries \ {inner}
      /\ posting'[outer] = posting[outer] \cup posting[inner]
      /\ \A c \in Boundaries \ {inner, outer} : posting'[c] = posting[c]
  BY MergeEffect DEF BoundaryInv
<1>2. /\ UNCHANGED <<dir, stored>>
      /\ Outward(outer, inner)
      /\ \A c \in Boundaries : Outward(c, inner) /\ c # inner => Outward(c, outer)
  BY DEF Merge
<1>3. dir \in Directions /\ Boundaries \subseteq Values
  BY DEF BoundaryInv, TypeOK
<1>4. \A c, v : Outward(c, v)' <=> Outward(c, v)
  BY <1>2 DEF Outward
<1>5. ASSUME NEW b \in Boundaries', NEW v, b \in Home(v) PROVE b \in Home(v)'
  BY <1>1, <1>4, <1>5 DEF Home
<1>6. ASSUME NEW v \in Values, inner \in Home(v) PROVE outer \in Home(v)'
  <2>1. Outward(inner, v) /\ \A c \in Boundaries : Outward(c, v) => Outward(c, inner)
    BY <1>6 DEF Home
  <2>2. Outward(outer, v)
    BY <2>1, <1>2, <1>3, OutwardOrder
  <2>3. \A c \in Boundaries' : Outward(c, v) => Outward(c, outer)
    BY <1>1, <1>2, <2>1
  <2> QED BY <2>2, <2>3, <1>1, <1>4 DEF Home
<1>7. ASSUME NEW b \in Boundaries', NEW id \in posting'[b]
      PROVE  \E v \in Values : <<v, id>> \in stored' /\ b \in Home(v)'
  <2>1. CASE id \in posting[b]
    <3>1. PICK v \in Values : <<v, id>> \in stored /\ b \in Home(v)
      BY <2>1, <1>1 DEF Traced
    <3> QED BY <3>1, <1>2, <1>5
  <2>2. CASE id \notin posting[b]
    <3>1. b = outer /\ id \in posting[inner]
      BY <2>2, <1>1, <1>7
    <3>2. PICK v \in Values : <<v, id>> \in stored /\ inner \in Home(v)
      BY <3>1 DEF Traced
    <3> QED BY <3>1, <3>2, <1>2, <1>6
  <2> QED BY <2>1, <2>2
<1> QED BY <1>7 DEF Traced

(* However boundaries were merged and values rounded, every ID under a     *)
(* boundary was stored with a value whose nearest boundary this is.        *)
THEOREM TracedHolds == BoundarySpec => []Traced
<1>1. BoundaryInit => Traced
  BY DEF BoundaryInit, Traced, Boundaries
<1>2. BoundaryInv /\ Traced /\ [BoundaryNext]_boundaryVars => Traced'
  <2> SUFFICES ASSUME BoundaryInv, Traced, [BoundaryNext]_boundaryVars PROVE Traced'
    OBVIOUS
  <2>1. CASE Publish
    BY <2>1 DEF Publish, Traced, Home, Outward, Boundaries
  <2>2. CASE UNCHANGED boundaryVars
    BY <2>2 DEF boundaryVars, Traced, Home, Outward, Boundaries
  <2> QED BY <2>1, <2>2, TracedStore, TracedMerge DEF BoundaryNext
<1> QED BY <1>1, <1>2, BoundaryInvHolds, PTL DEF BoundarySpec

(* Two postings share no ID when no ID was stored under two values.        *)
LEMMA PostingsApart ==
  ASSUME BoundaryInv, Traced, \A e, f \in stored : e[2] = f[2] => e = f,
         NEW b \in Boundaries, NEW c \in Boundaries, b # c, NEW id, id \in posting[b]
  PROVE  id \notin posting[c]
<1> SUFFICES ASSUME id \in posting[c] PROVE FALSE
  OBVIOUS
<1>1. PICK v \in Values : <<v, id>> \in stored /\ b \in Home(v)
  BY DEF Traced
<1>2. PICK w \in Values : <<w, id>> \in stored /\ c \in Home(w)
  BY DEF Traced
<1>3. v = w
  <2> DEFINE e == <<v, id>>
             f == <<w, id>>
  <2>1. e[2] = f[2] /\ e \in stored /\ f \in stored /\ e[1] = v /\ f[1] = w
    BY <1>1, <1>2
  <2>2. e = f
    <3> HIDE DEF e, f
    <3> QED BY <2>1
  <2> QED BY <2>1, <2>2
<1>4. Outward(b, c) /\ Outward(c, b)
  BY <1>1, <1>2, <1>3 DEF Home
<1>5. dir \in Directions /\ b \in Values /\ c \in Values
  BY DEF BoundaryInv, TypeOK
<1> QED BY <1>4, <1>5, OutwardOrder

(* A union is counted at most once per part, and once if the parts are     *)
(* disjoint.                                                               *)

SizesOf(f, W) == [x \in W |-> Cardinality(f[x])]
UnionOf(f, S) == UNION {f[x] : x \in S}
Apart(f, S) == \A x, y \in S : x # y => f[x] \cap f[y] = {}
Counted(f, W, S) ==
  /\ Cardinality(UnionOf(f, S)) =< SumFunctionOnSet(SizesOf(f, W), S)
  /\ Apart(f, S) => Cardinality(UnionOf(f, S)) = SumFunctionOnSet(SizesOf(f, W), S)

(* Two sets of IDs together.                                               *)
LEMMA JoinCounted ==
  ASSUME NEW A \in SUBSET Ids, NEW B \in SUBSET Ids
  PROVE  /\ Cardinality(A \cup B) =< Cardinality(A) + Cardinality(B)
         /\ A \cap B = {} => Cardinality(A \cup B) = Cardinality(A) + Cardinality(B)
<1>1. IsFiniteSet(A) /\ IsFiniteSet(B)
  BY BitsCounted
<1>2. A \cup B \in SUBSET Ids /\ A \cap B \in SUBSET Ids
  OBVIOUS
<1>3. Cardinality(A) \in Nat /\ Cardinality(B) \in Nat /\ Cardinality(A \cup B) \in Nat
      /\ Cardinality(A \cap B) \in Nat
  BY <1>2, BitsCounted
<1>4. Cardinality(A \cup B) = Cardinality(A) + Cardinality(B) - Cardinality(A \cap B)
  BY <1>1, FS_Union
<1>5. A \cap B = {} => Cardinality(A \cap B) = 0
  BY FS_EmptySet
<1> QED BY <1>3, <1>4, <1>5

(* Any number of them, by induction over the parts.                        *)
LEMMA UnionCounted ==
  ASSUME NEW W, IsFiniteSet(W), NEW f, \A x \in W : f[x] \in SUBSET Ids
  PROVE  \A S \in SUBSET W : Counted(f, W, S)
<1> DEFINE z == SizesOf(f, W)
           Bad == {S \in SUBSET W : ~Counted(f, W, S)}
<1>1. z \in [W -> Nat] /\ \A x \in W : z[x] = Cardinality(f[x])
  BY BitsCounted DEF SizesOf
<1>2. SUFFICES ASSUME Bad # {} PROVE FALSE
  OBVIOUS
<1>3. PICK T \in Bad : \A U \in Bad : U \subseteq T => U = T
  <2>1. Bad \subseteq SUBSET W
    OBVIOUS
  <2> HIDE DEF Bad
  <2> QED BY <1>2, <2>1, LeastSubset
<1>4. T \in SUBSET W /\ ~Counted(f, W, T)
  OBVIOUS
<1>5. CASE T = {}
  <2>1. UnionOf(f, T) = {} /\ Cardinality(UnionOf(f, T)) = 0
    BY <1>5, FS_EmptySet DEF UnionOf
  <2>2. SumFunctionOnSet(z, T) = 0
    BY <1>5, SumEmpty
  <2> QED BY <1>4, <2>1, <2>2 DEF Counted
<1>6. CASE T # {}
  <2>1. PICK x \in T : TRUE
    BY <1>6
  <2> DEFINE R == T \ {x}
             A == UnionOf(f, R)
  <2>2. R \in SUBSET W /\ R \subseteq T /\ R # T
    BY <1>4, <2>1
  <2>3. Counted(f, W, R)
    BY <1>3, <2>2
  <2>4. UnionOf(f, T) = A \cup f[x]
    BY <2>1 DEF UnionOf
  <2>5. A \in SUBSET Ids /\ f[x] \in SUBSET Ids
    BY <1>4, <2>1, <2>2 DEF UnionOf
  <2>6. SumFunctionOnSet(z, T) = z[x] + SumFunctionOnSet(z, R)
    <3> HIDE DEF z
    <3> QED BY <1>1, <1>4, <2>1, SumWithout
  <2>7. SumFunctionOnSet(z, R) \in Nat
    <3> HIDE DEF z, R
    <3> QED BY <1>1, <2>2, SumType
  <2>8. z[x] = Cardinality(f[x]) /\ z[x] \in Nat
    BY <1>1, <1>4, <2>1
  <2>9. /\ Cardinality(A \cup f[x]) =< Cardinality(A) + Cardinality(f[x])
        /\ A \cap f[x] = {} => Cardinality(A \cup f[x]) = Cardinality(A) + Cardinality(f[x])
    <3> HIDE DEF A
    <3> QED BY <2>5, JoinCounted
  <2>10. Apart(f, T) => Apart(f, R) /\ A \cap f[x] = {}
    BY <2>1 DEF Apart, UnionOf
  <2>11. Cardinality(A) \in Nat /\ Cardinality(A \cup f[x]) \in Nat
    <3>1. A \cup f[x] \in SUBSET Ids
      BY <2>5
    <3> HIDE DEF A
    <3> QED BY <2>5, <3>1, BitsCounted
  <2>12. /\ Cardinality(A) =< SumFunctionOnSet(z, R)
         /\ Apart(f, R) => Cardinality(A) = SumFunctionOnSet(z, R)
    BY <2>3 DEF Counted
  <2>13. ~(/\ Cardinality(A \cup f[x]) =< SumFunctionOnSet(z, T)
           /\ Apart(f, T) => Cardinality(A \cup f[x]) = SumFunctionOnSet(z, T))
    BY <1>4, <2>4 DEF Counted
  <2> HIDE DEF A, z, R
  <2> QED BY <2>6, <2>7, <2>8, <2>9, <2>10, <2>11, <2>12, <2>13
<1> QED BY <1>5, <1>6

(* What an estimate counts.                                                *)

(* The part of an estimate, or of a walk, between two positions.           *)
CountedAs(ids, disjoint, n) ==
  /\ ids \in SUBSET Ids /\ n \in Nat
  /\ Cardinality(ids) =< n
  /\ disjoint => Cardinality(ids) = n

(* The items the walk visits one by one.                                   *)
LEMMA NearCounted ==
  ASSUME NEW b, ShapeBlock(b), NEW J \in SUBSET (1..Len(b.items))
  PROVE  CountedAs(BitsAmong(b, J), \A i, j \in J : i # j => b.items[i].bits \cap b.items[j].bits = {},
                   SumFunction([i \in J |-> Cardinality(b.items[i].bits)]))
<1> DEFINE W == 1..Len(b.items)
           f == [i \in W |-> b.items[i].bits]
           z == SizesOf(f, W)
           g == [i \in J |-> Cardinality(b.items[i].bits)]
<1>1. Len(b.items) \in Nat /\ \A i \in W : b.items[i].bits \in SUBSET Ids
  BY BlockItems
<1>2. IsFiniteSet(W)
  BY <1>1, FS_Interval
<1>3. \A i \in W : f[i] \in SUBSET Ids /\ f[i] = b.items[i].bits
  BY <1>1
<1>4. Counted(f, W, J)
  <2>1. J \in SUBSET W
    OBVIOUS
  <2> HIDE DEF f, W
  <2> QED BY <1>2, <1>3, <2>1, UnionCounted
<1>5. UnionOf(f, J) = BitsAmong(b, J)
  <2> HIDE DEF f
  <2>1. \A i \in J : f[i] = b.items[i].bits
    BY <1>3
  <2>2. {f[i] : i \in J} = {b.items[i].bits : i \in J}
    BY <2>1
  <2> QED BY <2>2 DEF UnionOf, BitsAmong
<1>6. z \in [W -> Nat] /\ \A i \in W : z[i] = Cardinality(b.items[i].bits)
  BY <1>1, BitsCounted DEF SizesOf
<1>7. IsFiniteSet(J)
  <2> HIDE DEF W
  <2> QED BY <1>2, FS_Subset DEF W
<1>8. SumFunction(g) = SumFunctionOnSet(z, J)
  <2>1. \A i \in J : g[i] = z[i]
    BY <1>6
  <2>2. SumFunction(g) = SumFunctionOnSet(g, J)
    BY DEF SumFunction
  <2> HIDE DEF g, z
  <2> QED BY <1>7, <2>1, <2>2, SumCongruent
<1>9. SumFunctionOnSet(z, J) \in Nat
  <2>1. J \in SUBSET W
    OBVIOUS
  <2> HIDE DEF z, W
  <2> QED BY <1>2, <1>6, <2>1, SumType
<1>10. Apart(f, J) <=> \A i, j \in J : i # j => b.items[i].bits \cap b.items[j].bits = {}
  <2> HIDE DEF f
  <2> QED BY <1>3 DEF Apart
<1>11. BitsAmong(b, J) \in SUBSET Ids
  BY <1>1 DEF BitsAmong
<1> DEFINE D == \A i, j \in J : i # j => b.items[i].bits \cap b.items[j].bits = {}
<1>12. Cardinality(BitsAmong(b, J)) =< SumFunction(g)
       /\ (D => Cardinality(BitsAmong(b, J)) = SumFunction(g))
  <2> HIDE DEF f, g, z, W
  <2> QED BY <1>4, <1>5, <1>8, <1>10 DEF Counted, z
<1> HIDE DEF z, W, f
<1>13. SumFunction(g) \in Nat
  BY <1>8, <1>9
<1> HIDE DEF g, D
<1>14. CountedAs(BitsAmong(b, J), D, SumFunction(g))
  BY <1>11, <1>12, <1>13 DEF CountedAs
<1> QED BY <1>14 DEF g, D

(* prepareSearch counts the blocks before each position.                   *)
LEMMA PrefixAt ==
  ASSUME Shape(blocks), NEW W, W = 1..Len(blocks),
         NEW z, z = SizesOf([i \in W |-> blocks[i].bits], W)
  PROVE  /\ z \in [W -> Nat] /\ IsFiniteSet(W)
         /\ \A i \in 1..(Len(blocks) + 1) : PrefixCounts[i] = SumFunctionOnSet(z, 1..(i - 1))
         /\ Last(PrefixCounts) = PrefixCounts[Len(blocks) + 1]
<1> DEFINE n == Len(blocks)
<1>1. n \in Nat /\ \A i \in 1..n : blocks[i].bits \in SUBSET Ids
  BY BlockParts DEF Shape
<1>2. IsFiniteSet(W)
  BY <1>1, FS_Interval
<1>3. z \in [W -> Nat] /\ \A i \in W : z[i] = Cardinality(blocks[i].bits)
  BY <1>1, BitsCounted DEF SizesOf
<1>4. ASSUME NEW i \in 1..(n + 1) PROVE PrefixCounts[i] = SumFunctionOnSet(z, 1..(i - 1))
  <2> DEFINE B == 1..(i - 1)
             g == [j \in B |-> Cardinality(blocks[j].bits)]
  <2>1. PrefixCounts[i] = SumFunction(g)
    BY DEF PrefixCounts
  <2>2. SumFunction(g) = SumFunctionOnSet(g, B)
    BY DEF SumFunction
  <2>3. B \subseteq W /\ IsFiniteSet(B)
    <3>1. B \subseteq W
      BY <1>1
    <3> QED BY <3>1, <1>2, FS_Subset
  <2>4. \A j \in B : g[j] = z[j]
    BY <2>3, <1>3
  <2> HIDE DEF g, B
  <2>5. SumFunctionOnSet(g, B) = SumFunctionOnSet(z, B)
    BY <2>3, <2>4, SumCongruent
  <2> QED BY <2>1, <2>2, <2>5 DEF B
<1>5. Last(PrefixCounts) = PrefixCounts[n + 1]
  <2>1. PrefixCounts = [i \in 1..(n + 1) |-> PrefixCounts[i]]
    BY DEF PrefixCounts
  <2>2. \A i \in 1..(n + 1) : PrefixCounts[i] \in Nat
    <3> TAKE i \in 1..(n + 1)
    <3>1. 1..(i - 1) \in SUBSET W
      BY <1>1
    <3>2. SumFunctionOnSet(z, 1..(i - 1)) \in Nat
      BY <1>2, <1>3, <3>1, SumType
    <3> QED BY <1>4, <3>2
  <2> DEFINE p == PrefixCounts
  <2>3. p \in [1..(n + 1) -> Nat]
    <3> HIDE DEF p
    <3> QED BY <2>1, <2>2 DEF p
  <2> HIDE DEF p, n
  <2>4. p \in Seq(Nat) /\ Len(p) = n + 1
    <3>1. n + 1 \in Nat
      BY <1>1
    <3> QED BY <2>3, <3>1
  <2> QED BY <2>4 DEF Last, p, n
<1> QED BY <1>2, <1>3, <1>4, <1>5

AddsUp(f, A, B) == SumFunctionOnSet(f, A \cup B) = SumFunctionOnSet(f, A) + SumFunctionOnSet(f, B)
Separate(A, B) == A \cap B = {}

(* A sum over two separate parts, in a form the provers can apply.         *)
LEMMA SumParts ==
  ASSUME NEW W, NEW f, NEW A, NEW B, Weights(f, W), A \subseteq W, B \subseteq W, Separate(A, B)
  PROVE  AddsUp(f, A, B)
<1>1. IsFiniteSet(W) /\ f \in [W -> Nat] /\ A \in SUBSET W /\ B \in SUBSET W /\ A \cap B = {}
  BY DEF Weights, Separate
<1>2. SumFunctionOnSet(f, A \cup B) = SumFunctionOnSet(f, A) + SumFunctionOnSet(f, B)
  BY <1>1, SumSplit
<1> QED BY <1>2 DEF AddsUp

(* The difference of two prefix counts bounds the blocks in between.       *)
LEMMA FarCounted ==
  ASSUME Shape(blocks), NEW lo \in 1..(Len(blocks) + 1), NEW hi \in (lo - 1)..Len(blocks)
  PROVE  CountedAs(BitsOfBlocks(lo..hi),
                   \A i, j \in lo..hi : i # j => blocks[i].bits \cap blocks[j].bits = {},
                   PrefixCounts[hi + 1] - PrefixCounts[lo])
<1> DEFINE W == 1..Len(blocks)
           f == [i \in W |-> blocks[i].bits]
           z == SizesOf(f, W)
           J == lo..hi
           A == 1..(lo - 1)
<1>1. Len(blocks) \in Nat /\ \A i \in W : blocks[i].bits \in SUBSET Ids
  BY BlockParts DEF Shape
<1>2. /\ z \in [W -> Nat] /\ IsFiniteSet(W)
      /\ \A i \in 1..(Len(blocks) + 1) : PrefixCounts[i] = SumFunctionOnSet(z, 1..(i - 1))
  BY PrefixAt
<1>3. \A i \in W : f[i] \in SUBSET Ids /\ f[i] = blocks[i].bits
  BY <1>1
<1>4. J \in SUBSET W /\ A \in SUBSET W /\ A \cap J = {} /\ 1..hi = A \cup J
  BY <1>1
<1>5. Counted(f, W, J)
  <2> HIDE DEF f, W, J
  <2> QED BY <1>2, <1>3, <1>4, UnionCounted
<1>6. UnionOf(f, J) = BitsOfBlocks(J)
  <2> HIDE DEF f, J
  <2>1. \A i \in J : f[i] = blocks[i].bits
    BY <1>3, <1>4
  <2>2. {f[i] : i \in J} = {blocks[i].bits : i \in J}
    BY <2>1
  <2> QED BY <2>2 DEF UnionOf, BitsOfBlocks
<1>7. PrefixCounts[hi + 1] = SumFunctionOnSet(z, 1..hi) /\ PrefixCounts[lo] = SumFunctionOnSet(z, A)
  <2>1. hi + 1 \in 1..(Len(blocks) + 1) /\ (hi + 1) - 1 = hi
    BY <1>1
  <2> HIDE DEF z
  <2> QED BY <1>2, <2>1
<1>8. SumFunctionOnSet(z, 1..hi) = SumFunctionOnSet(z, A) + SumFunctionOnSet(z, J)
  <2> HIDE DEF z, W, A, J
  <2>1. Weights(z, W)
    BY <1>2 DEF Weights
  <2>2. A \subseteq W /\ J \subseteq W /\ Separate(A, J)
    BY <1>4 DEF Separate
  <2>3. AddsUp(z, A, J)
    BY <2>1, <2>2, SumParts
  <2>4. 1..hi = A \cup J
    BY <1>4
  <2> QED BY <2>3, <2>4 DEF AddsUp
<1>9. SumFunctionOnSet(z, A) \in Nat /\ SumFunctionOnSet(z, J) \in Nat
  <2> HIDE DEF z, W, A, J
  <2> QED BY <1>2, <1>4, SumType
<1>10. Apart(f, J) <=> \A i, j \in J : i # j => blocks[i].bits \cap blocks[j].bits = {}
  <2> HIDE DEF f, J
  <2> QED BY <1>3, <1>4 DEF Apart
<1>11. BitsOfBlocks(J) \in SUBSET Ids
  <2> HIDE DEF J, W
  <2> QED BY <1>1, <1>4 DEF BitsOfBlocks
<1> DEFINE D == \A i, j \in lo..hi : i # j => blocks[i].bits \cap blocks[j].bits = {}
           far == PrefixCounts[hi + 1] - PrefixCounts[lo]
<1>12. far = SumFunctionOnSet(z, J)
  <2> HIDE DEF z, A, J
  <2> QED BY <1>7, <1>8, <1>9
<1>13. D <=> Apart(f, J)
  BY <1>10
<1> HIDE DEF z, f, A, J, W, D, far
<1>14. CountedAs(BitsOfBlocks(J), D, far)
  BY <1>5, <1>6, <1>9, <1>11, <1>12, <1>13 DEF CountedAs, Counted, z
<1> QED BY <1>14 DEF D, far, J

(* No ID was stored under two values.                                      *)
StoredOnce == \A e, f \in stored : e[2] = f[2] => e = f

(* Then two items share no ID,                                             *)
LEMMA ItemsApart ==
  ASSUME IndexInv, Traced, StoredOnce, NEW x \in Kept(blocks), NEW y \in Kept(blocks), x.value # y.value
  PROVE  x.bits \cap y.bits = {}
<1> DEFINE K == Kept(blocks)
<1>1. Shape(blocks) /\ Boundaries = ValuesOf(K) /\ \A v \in Boundaries : posting[v] = BitsOf(K, v)
  BY FollowKept DEF IndexInv
<1>2. Single(K)
  BY <1>1, KeptSingle
<1>3. BoundaryInv /\ \A e, f \in stored : e[2] = f[2] => e = f
  BY DEF IndexInv, StoredOnce
<1> HIDE DEF K
<1>4. x \in K /\ y \in K
  BY DEF K
<1>5. x.value \in Boundaries /\ y.value \in Boundaries
  BY <1>1, <1>4 DEF ValuesOf
<1>6. posting[x.value] = x.bits /\ posting[y.value] = y.bits
  <2>1. BitsOf(K, x.value) = x.bits /\ BitsOf(K, y.value) = y.bits
    BY <1>2, <1>4, SingleBits
  <2> QED BY <2>1, <1>1, <1>5
<1>7. ASSUME NEW id, id \in posting[x.value] PROVE id \notin posting[y.value]
  <2> DEFINE b == x.value
             c == y.value
  <2>1. b \in Boundaries /\ c \in Boundaries /\ b # c /\ id \in posting[b]
    BY <1>5, <1>7
  <2> HIDE DEF b, c
  <2>2. id \notin posting[c]
    BY <1>3, <2>1, PostingsApart
  <2> QED BY <2>2 DEF c
<1> QED BY <1>6, <1>7

(* nor do two blocks.                                                      *)
LEMMA BlocksApart ==
  ASSUME IndexInv, Traced, StoredOnce, NEW i \in 1..Len(blocks), NEW j \in 1..Len(blocks), i # j
  PROVE  blocks[i].bits \cap blocks[j].bits = {}
<1>1. Shape(blocks) /\ \A k \in 1..Len(blocks) : GoodBlock(blocks[k])
  BY DEF IndexInv, BlocksFollow, Good
<1>2. \A k \in 1..Len(blocks) : \A id \in blocks[k].bits : \E x \in Range(blocks[k].items) : id \in x.bits
  <2> TAKE k \in 1..Len(blocks)
  <2>1. blocks[k].bits = AllBits(Range(blocks[k].items))
    BY <1>1, BlockItems, PostingsOfRange DEF GoodBlock
  <2> QED BY <2>1 DEF AllBits
<1>3. ASSUME NEW x \in Range(blocks[i].items), NEW y \in Range(blocks[j].items)
      PROVE  x.value # y.value /\ x \in Kept(blocks) /\ y \in Kept(blocks)
  <2>1. x \in Kept(blocks) /\ y \in Kept(blocks)
    BY DEF Kept
  <2>2. x.value \in Int /\ y.value \in Int
    BY <1>1, <2>1, KeptItems, ItemProps
  <2>3. Len(blocks) \in Nat
    BY <1>1 DEF Shape
  <2>4. CASE i < j
    BY <1>1, <2>1, <2>2, <2>4 DEF Shape, Precede
  <2>5. CASE j < i
    BY <1>1, <2>1, <2>2, <2>5 DEF Shape, Precede
  <2> QED BY <2>3, <2>4, <2>5
<1> SUFFICES ASSUME NEW id \in blocks[i].bits, id \in blocks[j].bits PROVE FALSE
  OBVIOUS
<1>4. PICK x \in Range(blocks[i].items) : id \in x.bits
  BY <1>2
<1>5. PICK y \in Range(blocks[j].items) : id \in y.bits
  BY <1>2
<1>6. x.bits \cap y.bits = {}
  BY <1>3, ItemsApart
<1> QED BY <1>4, <1>5, <1>6

(* Items of a block hold IDs of the block.                                 *)
LEMMA AmongBlock ==
  ASSUME NEW b, GoodBlock(b), NEW J \in SUBSET (1..Len(b.items))
  PROVE  BitsAmong(b, J) \subseteq b.bits
<1>1. DOMAIN b.items = 1..Len(b.items) /\ b.bits = Postings(b.items)
  BY BlockItems DEF GoodBlock
<1> QED BY <1>1 DEF BitsAmong, Postings

(* Items of one block and a range of others.                               *)
LEMMA PiecesCounted ==
  ASSUME IndexInv, Traced, NEW at \in 1..Len(blocks), NEW J, J \in SUBSET (1..Len(blocks[at].items)),
         NEW lo \in 1..(Len(blocks) + 1), NEW hi \in (lo - 1)..Len(blocks), at \notin lo..hi
  PROVE  CountedAs(BitsAmong(blocks[at], J) \cup BitsOfBlocks(lo..hi), StoredOnce,
                   SumFunction([i \in J |-> Cardinality(blocks[at].items[i].bits)])
                     + (PrefixCounts[hi + 1] - PrefixCounts[lo]))
<1> DEFINE b == blocks[at]
           near == SumFunction([i \in J |-> Cardinality(b.items[i].bits)])
           far == PrefixCounts[hi + 1] - PrefixCounts[lo]
           N == BitsAmong(b, J)
           F == BitsOfBlocks(lo..hi)
           DN == \A i, j \in J : i # j => b.items[i].bits \cap b.items[j].bits = {}
           DF == \A i, j \in lo..hi : i # j => blocks[i].bits \cap blocks[j].bits = {}
<1>1. Shape(blocks) /\ GoodBlock(b) /\ Len(blocks) \in Nat
  BY DEF IndexInv, BlocksFollow, Good, Shape
<1>2. CountedAs(N, DN, near)
  <2>1. ShapeBlock(b)
    BY <1>1 DEF GoodBlock
  <2> HIDE DEF b
  <2>2. J \in SUBSET (1..Len(b.items))
    BY DEF b
  <2> QED BY <2>1, <2>2, NearCounted
<1>3. CountedAs(F, DF, far)
  BY <1>1, FarCounted
<1>4. lo..hi \subseteq 1..Len(blocks)
  BY <1>1
<1>5. StoredOnce => DF
  BY <1>4, BlocksApart
<1>6. StoredOnce => DN
  <2> SUFFICES ASSUME StoredOnce, NEW i \in J, NEW j \in J, i # j
               PROVE  b.items[i].bits \cap b.items[j].bits = {}
    OBVIOUS
  <2> DEFINE x == b.items[i]
             y == b.items[j]
             m == Len(b.items)
  <2>1. i \in 1..m /\ j \in 1..m
    OBVIOUS
  <2>2. ShapeBlock(b) /\ b.items \in Seq(ItemSet) /\ Ascending(b.items)
    BY <1>1, BlockItems DEF GoodBlock, ShapeBlock
  <2>3. x.value # y.value
    BY <2>1, <2>2, AscendingOnce
  <2>4. x \in Range(b.items) /\ y \in Range(b.items)
    <3>1. Range(b.items) = {b.items[k] : k \in 1..m}
      BY <2>2, BlockItems
    <3> HIDE DEF b, m
    <3> QED BY <2>1, <3>1
  <2>5. x \in Kept(blocks) /\ y \in Kept(blocks)
    BY <2>4 DEF Kept
  <2> HIDE DEF x, y
  <2>6. x.bits \cap y.bits = {}
    BY <2>3, <2>5, ItemsApart
  <2> QED BY <2>6 DEF x, y
<1>7. StoredOnce => N \cap F = {}
  <2> SUFFICES ASSUME StoredOnce PROVE N \cap F = {}
    OBVIOUS
  <2>1. N \subseteq b.bits
    <3>1. J \in SUBSET (1..Len(b.items))
      OBVIOUS
    <3> HIDE DEF b
    <3> QED BY <1>1, <3>1, AmongBlock
  <2>2. \A j \in lo..hi : blocks[j].bits \cap b.bits = {}
    BY <1>4, BlocksApart
  <2>3. \A id \in F : \E j \in lo..hi : id \in blocks[j].bits
    BY DEF BitsOfBlocks
  <2> HIDE DEF N, F, b
  <2> QED BY <2>1, <2>2, <2>3
<1>8. N \in SUBSET Ids /\ near \in Nat /\ Cardinality(N) =< near /\ (DN => Cardinality(N) = near)
  <2> HIDE DEF N, near, DN
  <2> QED BY <1>2 DEF CountedAs
<1>9. F \in SUBSET Ids /\ far \in Nat /\ Cardinality(F) =< far /\ (DF => Cardinality(F) = far)
  <2> HIDE DEF F, far, DF
  <2> QED BY <1>3 DEF CountedAs
<1> HIDE DEF N, F, near, far, DN, DF
<1>10. /\ Cardinality(N \cup F) =< Cardinality(N) + Cardinality(F)
       /\ N \cap F = {} => Cardinality(N \cup F) = Cardinality(N) + Cardinality(F)
  BY <1>8, <1>9, JoinCounted
<1>11. Cardinality(N) \in Nat /\ Cardinality(F) \in Nat /\ Cardinality(N \cup F) \in Nat /\ N \cup F \in SUBSET Ids
  <2>1. N \cup F \in SUBSET Ids
    BY <1>8, <1>9
  <2> QED BY <2>1, <1>8, <1>9, BitsCounted
<1>12. /\ Cardinality(N \cup F) =< near + far
       /\ StoredOnce => Cardinality(N \cup F) = near + far
  BY <1>5, <1>6, <1>7, <1>8, <1>9, <1>10, <1>11
<1>13. near + far \in Nat
  BY <1>8, <1>9
<1>14. CountedAs(N \cup F, StoredOnce, near + far)
  BY <1>11, <1>12, <1>13 DEF CountedAs
<1> QED BY <1>14 DEF N, F, near, far

(* The estimate counts what the walk returns.                              *)
LEMMA EstimateCounted ==
  ASSUME IndexInv, Prepared, Traced, published, NEW q \in Values, NEW inclusive \in BOOLEAN
  PROVE  CountedAs(Walk(q, inclusive), StoredOnce, Estimate(q, inclusive))
<1>0. BlocksFollow /\ dir \in Directions /\ RoutesInside /\ (ranges = <<>> \/ ranges = RangeUnions)
      /\ prefix = PrefixCounts
  BY DEF IndexInv, BoundaryInv, TypeOK, Prepared
<1>1. CASE blocks = <<>>
  <2>1. Walk(q, inclusive) = {} /\ Estimate(q, inclusive) = 0
    BY <1>1 DEF Walk, Estimate
  <2>2. Cardinality({}) = 0
    BY FS_EmptySet
  <2> QED BY <2>1, <2>2 DEF CountedAs
<1>2. CASE blocks # <<>>
  <2> DEFINE n == Len(blocks)
             at == BlockAt(blocks, q)
             b == blocks[at]
             J == Matched(b, q, inclusive)
             near == SumFunction([i \in J |-> Cardinality(b.items[i].bits)])
             N == BitsAmong(b, J)
             Up == BitsOfBlocks((at + 1)..n)
             Down == BitsOfBlocks(1..(at - 1))
  <2>1. Shape(blocks) /\ n \in Nat /\ at \in 1..n /\ ShapeBlock(b)
    BY <1>0, <1>2, Located DEF BlocksFollow, Good, Shape
  <2>2. BlockFor(q) = at
    BY <1>0, <1>2, <2>1, BlockForIs
  <2>3. J \in SUBSET (1..Len(b.items))
    <3>1. J = {i \in 1..Len(b.items) : Covers(b.items[i].value, q, inclusive)}
      BY <1>0, <2>1, MatchedIs
    <3> HIDE DEF J, b
    <3> QED BY <3>1
  <2>4. Walk(q, inclusive) = N \cup (IF dir = "lessThan" THEN Up ELSE Down)
    <3>1. Walk(q, inclusive) = Reached(q, inclusive)
      BY <1>0, <1>2, WalkReached
    <3> QED BY <3>1 DEF Reached
  <2>5. Estimate(q, inclusive) = near + IF dir = "lessThan" THEN Last(prefix) - prefix[at + 1] ELSE prefix[at]
    BY <1>2, <2>2 DEF Estimate
  <2>6. /\ Last(PrefixCounts) = PrefixCounts[n + 1]
        /\ PrefixCounts[at] \in Nat /\ PrefixCounts[1] = 0
    <3> DEFINE W == 1..n
               z == SizesOf([i \in W |-> blocks[i].bits], W)
    <3>1. /\ z \in [W -> Nat] /\ IsFiniteSet(W)
          /\ \A i \in 1..(n + 1) : PrefixCounts[i] = SumFunctionOnSet(z, 1..(i - 1))
          /\ Last(PrefixCounts) = PrefixCounts[n + 1]
      BY <2>1, PrefixAt
    <3>2. PrefixCounts[1] = SumFunctionOnSet(z, {})
      <4>1. 1 \in 1..(n + 1) /\ 1..(1 - 1) = {}
        BY <2>1
      <4> HIDE DEF z
      <4> QED BY <3>1, <4>1
    <3>3. at \in 1..(n + 1) /\ 1..(at - 1) \in SUBSET W
      BY <2>1
    <3> HIDE DEF z, W, at
    <3>4. SumFunctionOnSet(z, 1..(at - 1)) \in Nat
      BY <3>1, <3>3, SumType
    <3> QED BY <3>1, <3>2, <3>3, <3>4, SumEmpty
  <2>7. CASE dir = "lessThan"
    <3>1. at + 1 \in 1..(Len(blocks) + 1) /\ n \in ((at + 1) - 1)..Len(blocks) /\ at \notin (at + 1)..n
      BY <2>1
    <3>2. CountedAs(N \cup Up, StoredOnce, near + (PrefixCounts[n + 1] - PrefixCounts[at + 1]))
      <4> DEFINE lo == at + 1
      <4>1. lo \in 1..(Len(blocks) + 1) /\ n \in (lo - 1)..Len(blocks) /\ at \notin lo..n /\ at \in 1..Len(blocks)
        BY <3>1, <2>1
      <4>2. J \in SUBSET (1..Len(blocks[at].items))
        BY <2>3
      <4> HIDE DEF lo, at, n, J
      <4>3. CountedAs(BitsAmong(blocks[at], J) \cup BitsOfBlocks(lo..n), StoredOnce,
                      SumFunction([i \in J |-> Cardinality(blocks[at].items[i].bits)])
                         + (PrefixCounts[n + 1] - PrefixCounts[lo]))
        BY <4>1, <4>2, PiecesCounted
      <4> QED BY <4>3 DEF lo
    <3>3. Walk(q, inclusive) = N \cup Up
      <4> HIDE DEF N, Up, Down
      <4> QED BY <2>4, <2>7
    <3>4. Estimate(q, inclusive) = near + (PrefixCounts[n + 1] - PrefixCounts[at + 1])
      <4> HIDE DEF near, n, at
      <4> QED BY <1>0, <2>5, <2>6, <2>7
    <3> HIDE DEF N, Up, near, n, at
    <3> QED BY <3>2, <3>3, <3>4
  <2>8. CASE dir = "greaterThan"
    <3>1. 1 \in 1..(Len(blocks) + 1) /\ at - 1 \in (1 - 1)..Len(blocks) /\ at \notin 1..(at - 1)
      BY <2>1
    <3>2. CountedAs(N \cup Down, StoredOnce, near + (PrefixCounts[(at - 1) + 1] - PrefixCounts[1]))
      <4> DEFINE lo == 1
                 hi == at - 1
      <4>1. lo \in 1..(Len(blocks) + 1) /\ hi \in (lo - 1)..Len(blocks) /\ at \notin lo..hi /\ at \in 1..Len(blocks)
        BY <3>1, <2>1
      <4>2. J \in SUBSET (1..Len(blocks[at].items))
        BY <2>3
      <4> HIDE DEF lo, hi, at, n, J
      <4>3. CountedAs(BitsAmong(blocks[at], J) \cup BitsOfBlocks(lo..hi), StoredOnce,
                      SumFunction([i \in J |-> Cardinality(blocks[at].items[i].bits)])
                         + (PrefixCounts[hi + 1] - PrefixCounts[lo]))
        BY <4>1, <4>2, PiecesCounted
      <4> QED BY <4>3 DEF lo, hi
    <3>3. Walk(q, inclusive) = N \cup Down
      <4> HIDE DEF N, Up, Down
      <4> QED BY <2>4, <2>8
    <3>4. Estimate(q, inclusive) = near + prefix[at]
      <4> HIDE DEF near, n, at
      <4> QED BY <2>5, <2>8
    <3>5. PrefixCounts[(at - 1) + 1] - PrefixCounts[1] = prefix[at]
      <4>1. (at - 1) + 1 = at
        BY <2>1
      <4> HIDE DEF at
      <4> QED BY <4>1, <1>0, <2>6
    <3> HIDE DEF N, Down, near, n, at
    <3> QED BY <3>2, <3>3, <3>4, <3>5
  <2> QED BY <1>0, <2>7, <2>8 DEF Directions
<1> QED BY <1>1, <1>2

(* The estimate a search plans with never falls below the number of IDs    *)
(* the walk returns, and equals it when no ID is stored under two values   *)
(* (estimateCardinality, prefixCardinalities).                             *)
THEOREM EstimateSoundHolds == Spec => []EstimateSound
<1>1. IndexInv /\ Prepared /\ Traced => EstimateSound
  <2> SUFFICES ASSUME IndexInv, Prepared, Traced, published, NEW q \in Values, NEW inclusive \in BOOLEAN
               PROVE  /\ Cardinality(Walk(q, inclusive)) =< Estimate(q, inclusive)
                      /\ (\A e, f \in stored : e[2] = f[2] => e = f)
                           => Cardinality(Walk(q, inclusive)) = Estimate(q, inclusive)
    BY DEF EstimateSound
  <2>1. CountedAs(Walk(q, inclusive), StoredOnce, Estimate(q, inclusive))
    BY EstimateCounted
  <2> QED BY <2>1 DEF CountedAs, StoredOnce
<1>2. Spec => []Traced
  BY ImplementsBoundaryHolds, TracedHolds, PTL DEF ImplementsBoundary
<1> QED BY <1>1, <1>2, IndexInvHolds, PreparedHolds, PTL
=============================================================================
