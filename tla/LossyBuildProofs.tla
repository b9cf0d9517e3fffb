--------------------------- MODULE LossyBuildProofs --------------------------
(***************************************************************************)
(* Proofs about the one-pass Build of lossy leaves, for every schema,      *)
(* every input and all hash widths, levels, limits and intervals.          *)
(***************************************************************************)
EXTENDS LossyBuild, FiniteSetTheorems, SequenceTheorems, TLAPS

-----------------------------------------------------------------------------
(* Least elements.                                                         *)

LEMMA LeastNatural ==
  ASSUME NEW S, S \subseteq Nat, S # {}
  PROVE  \E m \in S : \A n \in S : m =< n
<1> DEFINE R == {p \in Nat \X Nat : p[1] < p[2]}
<1>1. IsWellFoundedOn(R, Nat)
  <2>1. IsWellFoundedOn(OpToRel(<, Nat), Nat)
    BY NatLessThanWellFounded
  <2> QED BY <2>1 DEF OpToRel
<1>2. PICK m \in S : \A n \in S : <<n, m>> \notin R
  BY <1>1, WFMin
<1>3. ASSUME NEW n \in S PROVE m =< n
  <2>1. <<n, m>> \notin R /\ <<n, m>> \in Nat \X Nat
    BY <1>2
  <2>2. ~ n < m
    BY <2>1
  <2> QED BY <2>2
<1> QED BY <1>3

LEMMA StrongInduction ==
  ASSUME NEW n \in Nat, NEW S,
         \A b \in 0..n : (\A c \in 0..(b - 1) : c \in S) => b \in S
  PROVE  \A b \in 0..n : b \in S
<1> DEFINE bad == {b \in 0..n : b \notin S}
<1> SUFFICES ASSUME bad # {} PROVE FALSE
  OBVIOUS
<1>1. PICK m \in bad : \A c \in bad : m =< c
  <2>1. bad \subseteq Nat
    OBVIOUS
  <2> HIDE DEF bad
  <2> QED BY <2>1, LeastNatural
<1>2. ASSUME NEW c \in 0..(m - 1) PROVE c \in S
  <2>1. c \in 0..n /\ ~ m =< c
    BY <1>1
  <2> QED BY <1>1, <2>1
<1> QED BY <1>1, <1>2

LEMMA LeastByMeasure ==
  ASSUME NEW S, S # {}, NEW f \in [S -> Nat]
  PROVE  \E x \in S : \A y \in S : f[x] =< f[y]
<1>1. PICK m \in {f[x] : x \in S} : \A n \in {f[x] : x \in S} : m =< n
  BY LeastNatural, ZenonT(40)
<1> QED BY <1>1

-----------------------------------------------------------------------------
(* Sums over finite sets.  SumFunctionOnSet is a recursive function whose  *)
(* existence is proved first; what it computes follows by considering a    *)
(* least set on which a claim would fail.                                  *)

LEMMA LeastSubset ==
  ASSUME NEW S, IsFiniteSet(S), NEW F, F \subseteq SUBSET S, F # {}
  PROVE  \E T \in F : \A U \in F : U \subseteq T => U = T
<1>1. IsWellFoundedOn(StrictSubsetOrdering(S), SUBSET S)
  BY FS_StrictSubsetOrderingWellFounded, FS_FiniteSubsetsOfFinite
<1>2. PICK T \in F : \A U \in F : <<U, T>> \notin StrictSubsetOrdering(S)
  BY <1>1, WFMin
<1>3. ASSUME NEW U \in F, U \subseteq T PROVE U = T
  BY <1>2, <1>3 DEF StrictSubsetOrdering
<1> QED BY <1>3

(* The element SumFunctionOnSet takes out of s next, and its recursion.    *)
Pick(s) == CHOOSE x \in s : TRUE
SumFold(f, S, g) ==
  g = [s \in SUBSET S |-> IF s = {} THEN 0 ELSE f[Pick(s)] + g[s \ {Pick(s)}]]

LEMMA PickIn == \A s : s # {} => Pick(s) \in s
BY DEF Pick

LEMMA SumFoldAt ==
  ASSUME NEW f, NEW S, NEW g, SumFold(f, S, g), NEW s \in SUBSET S
  PROVE  g[s] = IF s = {} THEN 0 ELSE f[Pick(s)] + g[s \ {Pick(s)}]
<1>1. g = [t \in SUBSET S |-> IF t = {} THEN 0 ELSE f[Pick(t)] + g[t \ {Pick(t)}]]
  BY DEF SumFold
<1> QED BY <1>1

LEMMA SumFoldUnique ==
  ASSUME NEW f, NEW S, IsFiniteSet(S), NEW g, NEW h, SumFold(f, S, g), SumFold(f, S, h)
  PROVE  g = h
<1> DEFINE F == {s \in SUBSET S : g[s] # h[s]}
<1>1. CASE F = {}
  <2>1. \A s \in SUBSET S : g[s] = h[s]
    BY <1>1
  <2>2. g = [s \in SUBSET S |-> g[s]] /\ h = [s \in SUBSET S |-> h[s]]
    BY DEF SumFold
  <2> QED BY <2>1, <2>2
<1>2. CASE F # {}
  <2>0. F \subseteq SUBSET S
    OBVIOUS
  <2>1. PICK s \in F : \A u \in F : u \subseteq s => u = s
    <3> HIDE DEF F
    <3> QED BY <1>2, <2>0, LeastSubset
  <2>2. s \in SUBSET S /\ s # {}
    BY <2>1, SumFoldAt
  <2>3. s \ {Pick(s)} \in SUBSET S /\ s \ {Pick(s)} \notin F
    BY <2>1, <2>2, PickIn
  <2>4. g[s \ {Pick(s)}] = h[s \ {Pick(s)}]
    BY <2>3
  <2>5. g[s] = f[Pick(s)] + g[s \ {Pick(s)}]
    BY <2>2, SumFoldAt
  <2>6. h[s] = f[Pick(s)] + h[s \ {Pick(s)}]
    BY <2>2, SumFoldAt
  <2> QED BY <2>1, <2>4, <2>5, <2>6
<1> QED BY <1>1, <1>2

LEMMA SumFoldRestrict ==
  ASSUME NEW f, NEW S, NEW T \in SUBSET S, NEW g, SumFold(f, S, g)
  PROVE  SumFold(f, T, [s \in SUBSET T |-> g[s]])
<1> DEFINE h == [s \in SUBSET T |-> g[s]]
<1>1. ASSUME NEW s \in SUBSET T
      PROVE  h[s] = IF s = {} THEN 0 ELSE f[Pick(s)] + h[s \ {Pick(s)}]
  <2>1. s \in SUBSET S /\ s \ {Pick(s)} \in SUBSET T
    OBVIOUS
  <2>2. g[s] = IF s = {} THEN 0 ELSE f[Pick(s)] + g[s \ {Pick(s)}]
    BY <2>1, SumFoldAt
  <2>3. h[s] = g[s] /\ h[s \ {Pick(s)}] = g[s \ {Pick(s)}]
    BY <2>1
  <2> QED BY <2>2, <2>3
<1>2. h = [s \in SUBSET T |-> h[s]]
  OBVIOUS
<1> HIDE DEF h
<1>3. h = [s \in SUBSET T |-> IF s = {} THEN 0 ELSE f[Pick(s)] + h[s \ {Pick(s)}]]
  BY <1>1, <1>2
<1> QED BY <1>3 DEF SumFold, h

LEMMA SumFoldExists ==
  ASSUME NEW f, NEW S, IsFiniteSet(S)
  PROVE  \E g : SumFold(f, S, g)
<1> DEFINE F == {T \in SUBSET S : ~ \E g : SumFold(f, T, g)}
<1> SUFFICES ASSUME F # {} PROVE FALSE
  OBVIOUS
<1>0. F \subseteq SUBSET S
  OBVIOUS
<1>1. PICK T \in F : \A U \in F : U \subseteq T => U = T
  <2> HIDE DEF F
  <2> QED BY <1>0, LeastSubset
<1> DEFINE G(U) == CHOOSE g : SumFold(f, U, g)
           h == [s \in SUBSET T |-> IF s = T THEN IF s = {} THEN 0 ELSE f[Pick(s)] + G(s \ {Pick(s)})[s \ {Pick(s)}]
                                    ELSE G(s)[s]]
<1>2. ASSUME NEW U \in SUBSET T, U # T PROVE SumFold(f, U, G(U))
  <2>1. U \notin F /\ U \in SUBSET S
    BY <1>1, <1>2
  <2> QED BY <2>1
<1>3. ASSUME NEW s \in SUBSET T
      PROVE  h[s] = IF s = {} THEN 0 ELSE f[Pick(s)] + h[s \ {Pick(s)}]
  <2>1. CASE s = {}
    <3>1. CASE s = T
      BY <3>1, <2>1
    <3>2. CASE s # T
      <4>1. SumFold(f, s, G(s)) /\ s \in SUBSET s
        BY <3>2, <1>2
      <4>2. G(s)[s] = 0
        BY <4>1, <2>1, SumFoldAt
      <4>3. h[s] = G(s)[s]
        BY <3>2
      <4> QED BY <4>2, <4>3, <2>1
    <3> QED BY <3>1, <3>2
  <2>2. CASE s # {}
    <3> DEFINE u == s \ {Pick(s)}
    <3>1. u \in SUBSET T /\ u # T /\ u \in SUBSET s
      BY <2>2, PickIn
    <3>2. h[u] = G(u)[u]
      BY <3>1
    <3>3. CASE s = T
      BY <3>2, <3>3, <2>2
    <3>4. CASE s # T
      <4>1. SumFold(f, s, G(s))
        BY <3>4, <1>2
      <4>2. SumFold(f, u, [t \in SUBSET u |-> G(s)[t]])
        BY <4>1, <3>1, SumFoldRestrict
      <4>3. SumFold(f, u, G(u)) /\ IsFiniteSet(u)
        BY <3>1, <1>2, FS_Subset
      <4>4. G(u) = [t \in SUBSET u |-> G(s)[t]]
        BY <4>2, <4>3, SumFoldUnique
      <4>5. G(u)[u] = G(s)[u]
        <5> HIDE DEF G, u
        <5> QED BY <4>4
      <4>6. G(s)[s] = f[Pick(s)] + G(s)[u]
        BY <4>1, <2>2, SumFoldAt
      <4>7. h[s] = G(s)[s]
        BY <3>4
      <4> QED BY <3>2, <4>5, <4>6, <4>7, <2>2
    <3> QED BY <3>3, <3>4
  <2> QED BY <2>1, <2>2
<1>4. h = [s \in SUBSET T |-> h[s]]
  OBVIOUS
<1> HIDE DEF h
<1>5. h = [s \in SUBSET T |-> IF s = {} THEN 0 ELSE f[Pick(s)] + h[s \ {Pick(s)}]]
  BY <1>3, <1>4
<1>6. SumFold(f, T, h)
  BY <1>5 DEF SumFold
<1> QED BY <1>1, <1>6

LEMMA SumUnfolded ==
  ASSUME NEW f, NEW S, IsFiniteSet(S)
  PROVE  \E g : SumFold(f, S, g) /\ SumFunctionOnSet(f, S) = g[S]
<1> DEFINE iter[s \in SUBSET S] ==
             IF s = {} THEN 0 ELSE f[CHOOSE x \in s : TRUE] + iter[s \ {CHOOSE x \in s : TRUE}]
<1>1. iter = CHOOSE g : SumFold(f, S, g)
  BY DEF iter, SumFold, Pick
<1>2. SumFunctionOnSet(f, S) = iter[S]
  BY DEF SumFunctionOnSet, FoldFunctionOnSet, MapThenFoldSet
<1> HIDE DEF iter
<1> QED BY <1>1, <1>2, SumFoldExists

LEMMA SumStep ==
  ASSUME NEW f, NEW S, IsFiniteSet(S)
  PROVE  SumFunctionOnSet(f, S) =
           IF S = {} THEN 0 ELSE f[Pick(S)] + SumFunctionOnSet(f, S \ {Pick(S)})
<1> DEFINE T == S \ {Pick(S)}
<1>1. PICK g : SumFold(f, S, g) /\ SumFunctionOnSet(f, S) = g[S]
  BY SumUnfolded
<1>2. IsFiniteSet(T) /\ T \in SUBSET S
  BY FS_Subset
<1>3. PICK h : SumFold(f, T, h) /\ SumFunctionOnSet(f, T) = h[T]
  BY <1>2, SumUnfolded
<1>4. h = [s \in SUBSET T |-> g[s]]
  <2> HIDE DEF T
  <2>1. SumFold(f, T, [s \in SUBSET T |-> g[s]])
    BY <1>1, <1>2, SumFoldRestrict
  <2> DEFINE r == [s \in SUBSET T |-> g[s]]
  <2>2. SumFold(f, T, r)
    BY <2>1
  <2> HIDE DEF r
  <2>3. h = r
    BY <2>2, <1>2, <1>3, SumFoldUnique
  <2> QED BY <2>3 DEF r
<1>5. h[T] = g[T]
  BY <1>4
<1>6. g[S] = IF S = {} THEN 0 ELSE f[Pick(S)] + g[T]
  BY <1>1, SumFoldAt
<1> QED BY <1>1, <1>3, <1>5, <1>6

LEMMA SumType ==
  ASSUME NEW W, IsFiniteSet(W), NEW f \in [W -> Nat]
  PROVE  \A S \in SUBSET W : SumFunctionOnSet(f, S) \in Nat
<1> DEFINE F == {S \in SUBSET W : SumFunctionOnSet(f, S) \notin Nat}
<1> SUFFICES ASSUME F # {} PROVE FALSE
  OBVIOUS
<1>1. F \subseteq SUBSET W
  OBVIOUS
<1>2. PICK S \in F : \A U \in F : U \subseteq S => U = S
  <2> HIDE DEF F
  <2> QED BY <1>1, LeastSubset
<1>3. S \in SUBSET W /\ IsFiniteSet(S)
  BY <1>2, FS_Subset
<1>4. SumFunctionOnSet(f, S) =
        IF S = {} THEN 0 ELSE f[Pick(S)] + SumFunctionOnSet(f, S \ {Pick(S)})
  BY <1>3, SumStep
<1>5. S # {}
  BY <1>2, <1>4
<1>6. Pick(S) \in S /\ S \ {Pick(S)} \notin F
  BY <1>2, <1>3, <1>5, PickIn
<1>7. f[Pick(S)] \in Nat /\ SumFunctionOnSet(f, S \ {Pick(S)}) \in Nat
  BY <1>3, <1>6
<1> QED BY <1>2, <1>4, <1>5, <1>7

(* A sum depends only on the values it adds.                               *)
LEMMA SumCongruent ==
  ASSUME NEW S, IsFiniteSet(S), NEW f, NEW h, \A x \in S : f[x] = h[x]
  PROVE  SumFunctionOnSet(f, S) = SumFunctionOnSet(h, S)
<1>1. PICK u : SumFold(f, S, u) /\ SumFunctionOnSet(f, S) = u[S]
  BY SumUnfolded
<1>2. PICK v : SumFold(h, S, v) /\ SumFunctionOnSet(h, S) = v[S]
  BY SumUnfolded
<1>3. \A s \in SUBSET S : s # {} => f[Pick(s)] = h[Pick(s)]
  BY PickIn
<1>4. u = [s \in SUBSET S |-> IF s = {} THEN 0 ELSE f[Pick(s)] + u[s \ {Pick(s)}]]
  BY <1>1 DEF SumFold
<1>5. u = [s \in SUBSET S |-> IF s = {} THEN 0 ELSE h[Pick(s)] + u[s \ {Pick(s)}]]
  BY <1>3, <1>4
<1>6. SumFold(h, S, u)
  BY <1>5 DEF SumFold
<1> QED BY <1>1, <1>2, <1>6, SumFoldUnique

(* Any element may be added last.                                          *)
LEMMA SumWithout ==
  ASSUME NEW W, IsFiniteSet(W), NEW f \in [W -> Nat]
  PROVE  \A S \in SUBSET W : \A x \in S :
           SumFunctionOnSet(f, S) = f[x] + SumFunctionOnSet(f, S \ {x})
<1> DEFINE AnyLast(S) == \A x \in S : SumFunctionOnSet(f, S) = f[x] + SumFunctionOnSet(f, S \ {x})
           F == {S \in SUBSET W : ~AnyLast(S)}
<1> SUFFICES ASSUME F # {} PROVE FALSE
  OBVIOUS
<1>1. F \subseteq SUBSET W
  OBVIOUS
<1>2. PICK S \in F : \A U \in F : U \subseteq S => U = S
  <2> HIDE DEF F
  <2> QED BY <1>1, LeastSubset
<1>3. PICK x \in S : SumFunctionOnSet(f, S) # f[x] + SumFunctionOnSet(f, S \ {x})
  BY <1>2
<1> DEFINE p == Pick(S)
           T == S \ {p}
           X == S \ {x}
           B == S \ {p, x}
<1>4. S \in SUBSET W /\ IsFiniteSet(S) /\ p \in S
  BY <1>2, <1>3, FS_Subset, PickIn
<1>5. SumFunctionOnSet(f, S) = f[p] + SumFunctionOnSet(f, T)
  BY <1>3, <1>4, SumStep
<1>6. p # x
  BY <1>3, <1>5
<1>7. /\ x \in T /\ p \in X /\ T \in SUBSET W /\ X \in SUBSET W
      /\ T \ {x} = B /\ X \ {p} = B /\ B \in SUBSET W
  BY <1>3, <1>4, <1>6
<1>8. AnyLast(T) /\ AnyLast(X)
  <2>1. T \notin F /\ X \notin F
    BY <1>2, <1>3, <1>4
  <2> QED BY <1>7, <2>1
<1>9. /\ SumFunctionOnSet(f, T) = f[x] + SumFunctionOnSet(f, B)
      /\ SumFunctionOnSet(f, X) = f[p] + SumFunctionOnSet(f, B)
  BY <1>7, <1>8
<1>10. f[p] \in Nat /\ f[x] \in Nat /\ SumFunctionOnSet(f, B) \in Nat
  BY <1>3, <1>4, <1>7, SumType
<1>11. SumFunctionOnSet(f, S) # f[x] + SumFunctionOnSet(f, X)
  BY <1>3
<1> HIDE DEF p, T, X, B
<1> QED BY <1>5, <1>9, <1>10, <1>11

(* Part of a sum of naturals is at most the sum.                           *)
LEMMA SumPart ==
  ASSUME NEW W, IsFiniteSet(W), NEW f \in [W -> Nat], NEW S \in SUBSET W
  PROVE  SumFunctionOnSet(f, S) =< SumFunctionOnSet(f, W)
<1> DEFINE Larger(T) == SumFunctionOnSet(f, S) =< SumFunctionOnSet(f, T)
           F == {T \in SUBSET W : S \subseteq T /\ ~Larger(T)}
<1> SUFFICES ASSUME F # {} PROVE FALSE
  OBVIOUS
<1>1. F \subseteq SUBSET W
  OBVIOUS
<1>2. PICK T \in F : \A U \in F : U \subseteq T => U = T
  <2> HIDE DEF F
  <2> QED BY <1>1, LeastSubset
<1>3. T \in SUBSET W /\ S \subseteq T /\ ~Larger(T)
  BY <1>2
<1>4. SumFunctionOnSet(f, S) \in Nat
  BY SumType
<1>5. S # T
  BY <1>3, <1>4
<1>6. PICK x : x \in T /\ x \notin S
  BY <1>3, <1>5
<1>7. T \ {x} \in SUBSET W /\ S \subseteq T \ {x}
  BY <1>3, <1>6
<1>8. Larger(T \ {x})
  <2>1. T \ {x} \notin F
    BY <1>2, <1>6
  <2> QED BY <1>7, <2>1
<1>9. SumFunctionOnSet(f, T) = f[x] + SumFunctionOnSet(f, T \ {x})
  BY <1>3, <1>6, SumWithout
<1>10. f[x] \in Nat /\ SumFunctionOnSet(f, T \ {x}) \in Nat
  BY <1>3, <1>6, <1>7, SumType
<1> QED BY <1>3, <1>4, <1>8, <1>9, <1>10

LEMMA SumWithin ==
  ASSUME NEW W, IsFiniteSet(W), NEW f \in [W -> Nat], NEW S \in SUBSET W,
         NEW g, DOMAIN g = S, \A x \in S : g[x] = f[x]
  PROVE  SumFunction(g) =< SumFunction(f)
<1>1. SumFunctionOnSet(g, S) = SumFunctionOnSet(f, S)
  BY FS_Subset, SumCongruent
<1>2. SumFunctionOnSet(f, S) =< SumFunctionOnSet(f, W)
  BY SumPart
<1> QED BY <1>1, <1>2 DEF SumFunction

-----------------------------------------------------------------------------
(* Hashes.                                                                 *)

(* Masking again at the next level forgets what masking at once would.     *)
LEMMA MaskedTwice ==
  ASSUME NEW level \in 0..(Terminal - 1), NEW h \in SUBSET (0..(HashBits - 1))
  PROVE  Masked(level + 1, Masked(level, h)) = Masked(level + 1, h)
<1>1. HashBits \in Nat /\ Terminal \in Nat /\ h \subseteq Int
  BY LossyAssumption
<1>2. ASSUME NEW bit \in h, bit >= HashBits - (Terminal - (level + 1))
      PROVE  bit >= HashBits - (Terminal - level)
  BY <1>1, <1>2
<1> QED BY <1>2 DEF Masked

-----------------------------------------------------------------------------
(* Sets of IDs.                                                            *)

LEMMA IdsFinite ==
  ASSUME NEW S \in SUBSET Ids
  PROVE  IsFiniteSet(S) /\ Cardinality(S) \in Nat /\ Cardinality(S) =< MaxIds
<1>1. IsFiniteSet(Ids) /\ Cardinality(Ids) = MaxIds /\ MaxIds \in Nat
  <2>1. MaxIds \in Nat /\ 1 \in Int /\ MaxIds \in Int
    BY LossyAssumption
  <2>2. /\ IsFiniteSet(1..MaxIds)
        /\ Cardinality(1..MaxIds) = IF 1 > MaxIds THEN 0 ELSE MaxIds - 1 + 1
    BY <2>1, FS_Interval
  <2> QED BY <2>1, <2>2 DEF Ids
<1>2. IsFiniteSet(S) /\ Cardinality(S) =< Cardinality(Ids)
  BY <1>1, FS_Subset
<1>3. Cardinality(S) \in Nat
  BY <1>2, FS_CardinalityType
<1> QED BY <1>1, <1>2, <1>3

LEMMA BytesType ==
  ASSUME NEW S \in SUBSET Ids
  PROVE  Bytes(S) \in Nat /\ Bytes(S) =< MaxIds + Header
<1>1. Header \in Nat /\ MaxIds \in Nat
  BY LossyAssumption
<1> QED BY <1>1, IdsFinite DEF Bytes

-----------------------------------------------------------------------------
(* The best merge.                                                         *)

(* Two pairs that begin with the same boundary are the same pair.          *)
LEMMA PairByFirst ==
  ASSUME NEW g, DOMAIN g.sets \subseteq Values,
         NEW p \in Pairs(g), NEW q \in Pairs(g), p[1] = q[1]
  PROVE  p = q
<1>1. DOMAIN g.sets \subseteq Nat
  BY LossyAssumption
<1>2. /\ p \in (DOMAIN g.sets) \X (DOMAIN g.sets) /\ q \in (DOMAIN g.sets) \X (DOMAIN g.sets)
      /\ p[1] < p[2] /\ q[1] < q[2]
      /\ ~(p[1] < q[2] /\ q[2] < p[2]) /\ ~(q[1] < p[2] /\ p[2] < q[2])
  BY DEF Pairs
<1> QED BY <1>1, <1>2

(* Several boundaries have a neighbouring pair: the first two.             *)
LEMMA PairsExist ==
  ASSUME NEW g, DOMAIN g.sets \subseteq Values, ~ Cardinality(DOMAIN g.sets) < 2
  PROVE  Pairs(g) # {}
<1> DEFINE D == DOMAIN g.sets
<1>1. D \subseteq Nat /\ IsFiniteSet(D)
  BY LossyAssumption, FS_Subset
<1>2. D # {} /\ \A m \in D : D \ {m} # {}
  <2>1. D # {}
    BY FS_EmptySet
  <2>2. ASSUME NEW m \in D, D \ {m} = {} PROVE FALSE
    <3>1. D = {m}
      BY <2>2
    <3> QED BY <3>1, FS_Singleton
  <2> QED BY <2>1, <2>2
<1>3. PICK m \in D : \A n \in D : m =< n
  BY <1>1, <1>2, LeastNatural
<1>4. PICK n \in D \ {m} : \A k \in D \ {m} : n =< k
  <2>1. D \ {m} \subseteq Nat /\ D \ {m} # {}
    BY <1>1, <1>2
  <2> QED BY <2>1, LeastNatural
<1>5. m \in Nat /\ n \in Nat /\ m < n
  BY <1>1, <1>3, <1>4
<1>6. ASSUME NEW k \in D, m < k, k < n PROVE FALSE
  <2>1. k \in Nat /\ k # m
    BY <1>1, <1>5, <1>6
  <2> QED BY <2>1, <1>4, <1>5, <1>6
<1>7. <<m, n>> \in Pairs(g)
  BY <1>5, <1>6 DEF Pairs
<1> QED BY <1>7

(* A generation of an ordered leaf that still has two boundaries.          *)
Mergeable(g) ==
  /\ DOMAIN g.sets \subseteq Values
  /\ \A k \in DOMAIN g.sets : g.sets[k].ids \in SUBSET Ids
  /\ ~ Cardinality(DOMAIN g.sets) < 2

LEMMA PairMeasures ==
  ASSUME NEW g, Mergeable(g), NEW p \in Pairs(g)
  PROVE  /\ p = <<p[1], p[2]>> /\ p[1] \in DOMAIN g.sets /\ p[2] \in DOMAIN g.sets
         /\ p[1] \in Nat /\ p[2] \in Nat /\ p[1] < p[2]
         /\ Cardinality(Union(g, p)) \in Nat
         /\ Footprint(g, p) \in Nat /\ Footprint(g, p) =< 2 * (MaxIds + Header)
<1>1. /\ p = <<p[1], p[2]>> /\ p[1] \in DOMAIN g.sets /\ p[2] \in DOMAIN g.sets /\ p[1] < p[2]
  BY DEF Pairs
<1>2. p[1] \in Nat /\ p[2] \in Nat
  BY <1>1, LossyAssumption DEF Mergeable
<1>3. Union(g, p) \in SUBSET Ids
  BY <1>1 DEF Union, Mergeable
<1>4. Bytes(g.sets[p[1]].ids) \in Nat /\ Bytes(g.sets[p[1]].ids) =< MaxIds + Header
  BY <1>1, BytesType DEF Mergeable
<1>5. Bytes(g.sets[p[2]].ids) \in Nat /\ Bytes(g.sets[p[2]].ids) =< MaxIds + Header
  BY <1>1, BytesType DEF Mergeable
<1>6. MaxIds \in Nat /\ Header \in Nat
  BY LossyAssumption
<1>7. Footprint(g, p) \in Nat /\ Footprint(g, p) =< 2 * (MaxIds + Header)
  BY <1>4, <1>5, <1>6 DEF Footprint
<1> QED BY <1>1, <1>2, <1>3, <1>7, IdsFinite

(* bestOrderedMerge finds one: of the pairs with the least union, those    *)
(* with the largest footprint, the first.                                  *)
LEMMA BestPairExists ==
  ASSUME NEW g, Mergeable(g)
  PROVE  BestPair(g) \in Pairs(g)
<1> DEFINE P == Pairs(g)
           size == [p \in P |-> Cardinality(Union(g, p))]
           A == {p \in P : \A q \in P : size[p] =< size[q]}
           rest == [p \in A |-> 2 * (MaxIds + Header) - Footprint(g, p)]
           B == {p \in A : \A q \in A : rest[p] =< rest[q]}
           first == [p \in B |-> p[1]]
<1>1. P # {}
  BY PairsExist DEF Mergeable
<1>2. size \in [P -> Nat]
  BY PairMeasures
<1>3. A # {}
  <2> HIDE DEF size, P
  <2> QED BY <1>1, <1>2, LeastByMeasure
<1>4. rest \in [A -> Nat]
  <2>1. MaxIds \in Nat /\ Header \in Nat
    BY LossyAssumption
  <2> QED BY <2>1, PairMeasures
<1>5. B # {}
  <2> HIDE DEF rest, A
  <2> QED BY <1>3, <1>4, LeastByMeasure
<1>6. first \in [B -> Nat]
  BY PairMeasures
<1>7. PICK p \in B : \A q \in B : first[p] =< first[q]
  <2> HIDE DEF first, B
  <2> QED BY <1>5, <1>6, LeastByMeasure
<1>8. ASSUME NEW q \in P \ {p} PROVE Better(g, p, q)
  <2>1. /\ p \in P /\ q \in P /\ p # q
        /\ Cardinality(Union(g, p)) \in Nat /\ Cardinality(Union(g, q)) \in Nat
        /\ Footprint(g, p) \in Nat /\ Footprint(g, q) \in Nat
        /\ p[1] \in Nat /\ q[1] \in Nat
    BY PairMeasures
  <2>2. Cardinality(Union(g, p)) =< Cardinality(Union(g, q))
    BY <2>1
  <2>3. CASE Cardinality(Union(g, p)) = Cardinality(Union(g, q))
    <3>1. q \in A
      BY <2>1, <2>3
    <3>2. rest[p] =< rest[q] /\ MaxIds \in Nat /\ Header \in Nat
      BY <3>1, LossyAssumption
    <3>3. Footprint(g, p) >= Footprint(g, q)
      BY <2>1, <3>1, <3>2
    <3>4. CASE Footprint(g, p) = Footprint(g, q)
      <4>1. q \in B
        BY <3>1, <3>4
      <4>2. p[1] =< q[1]
        BY <1>7, <4>1
      <4>3. p[1] # q[1]
        BY <2>1, PairByFirst DEF Mergeable
      <4>4. p[1] < q[1]
        BY <2>1, <4>2, <4>3
      <4> QED BY <2>3, <3>4, <4>4 DEF Better
    <3> QED BY <2>1, <2>3, <3>3, <3>4 DEF Better
  <2> QED BY <2>1, <2>2, <2>3 DEF Better
<1> QED BY <1>7, <1>8 DEF BestPair

-----------------------------------------------------------------------------
(* Generations.                                                            *)

(* Key k of a generation at this level stands for the value v.             *)
Covers(s, level, k, v) ==
  IF IsEquality(s) THEN k = HashKey(level, v) ELSE Outward(s, k, v)
Holds(s, g, v, id) ==
  \E k \in DOMAIN g.sets : Covers(s, g.level, k, v) /\ id \in g.sets[k].ids

(* Where insertion puts a value, it will be looked for.                    *)
LEMMA StoreKeyCovers ==
  ASSUME NEW s, WellFormed(s, gen[s]), NEW v \in Values
  PROVE  /\ StoreKey(s, v) \in KeysAt(s, gen[s].level)
         /\ Covers(s, gen[s].level, StoreKey(s, v), v)
<1>1. Terminal \in Nat /\ HashBits \in Nat /\ v \in Nat /\ Hash[v] \in SUBSET (0..(HashBits - 1))
  BY LossyAssumption
<1>2. gen[s].level \in Nat
  BY <1>1 DEF WellFormed
<1>3. CASE IsEquality(s)
  BY <1>1, <1>2, <1>3 DEF StoreKey, Covers, HashKey, KeysAt, Masked
<1>4. CASE ~IsEquality(s)
  <2>1. CASE gen[s].level > 0 /\ Nearest(s, gen[s], v) # {}
    <3>1. StoreKey(s, v) \in Nearest(s, gen[s], v)
      BY <1>4, <2>1 DEF StoreKey
    <3> QED BY <1>4, <3>1 DEF Nearest, Covers, KeysAt, WellFormed
  <2>2. CASE ~(gen[s].level > 0 /\ Nearest(s, gen[s], v) # {})
    <3>1. StoreKey(s, v) = v
      BY <1>4, <2>2 DEF StoreKey
    <3>2. Outward(s, v, v)
      BY <1>1 DEF Outward
    <3> QED BY <1>4, <3>1, <3>2 DEF Covers, KeysAt
  <2> QED BY <2>1, <2>2
<1> QED BY <1>3, <1>4

(* Storing an ID keeps every other one.                                    *)
LEMMA StoredKeeps ==
  ASSUME NEW s, NEW g, WellFormed(s, g), NEW k \in KeysAt(s, g.level), NEW id \in Ids
  PROVE  LET h == Stored(s, g, k, id)
         IN  /\ WellFormed(s, h) /\ h.level = g.level
             /\ k \in DOMAIN h.sets /\ id \in h.sets[k].ids
             /\ \A c \in DOMAIN g.sets : c \in DOMAIN h.sets /\ g.sets[c].ids \subseteq h.sets[c].ids
<1> DEFINE h == Stored(s, g, k, id)
           Set == [ids : SUBSET Ids, compact : BOOLEAN]
<1>1. NewSet(s, id) \in Set /\ id \in NewSet(s, id).ids
  BY DEF NewSet, IsEquality
<1>2. \A set \in Set : Grown(set, id) \in Set /\ id \in Grown(set, id).ids
                       /\ set.ids \subseteq Grown(set, id).ids
  BY DEF Grown
<1>3. \A c \in DOMAIN g.sets : g.sets[c] \in Set
  BY DEF WellFormed
<1>4. /\ h.level = g.level /\ DOMAIN h.sets = DOMAIN g.sets \cup {k}
      /\ \A c \in DOMAIN g.sets \cup {k} :
           h.sets[c] = IF c # k THEN g.sets[c]
                       ELSE IF k \in DOMAIN g.sets THEN Grown(g.sets[k], id) ELSE NewSet(s, id)
  BY DEF Stored
<1> HIDE DEF h, Set
<1>5. \A c \in DOMAIN h.sets : h.sets[c] \in Set
  BY <1>1, <1>2, <1>3, <1>4
<1>6. WellFormed(s, h)
  BY <1>4, <1>5 DEF WellFormed, Set
<1>7. id \in h.sets[k].ids
  BY <1>1, <1>2, <1>3, <1>4
<1>8. \A c \in DOMAIN g.sets : g.sets[c].ids \subseteq h.sets[c].ids
  BY <1>1, <1>2, <1>3, <1>4
<1> QED BY <1>4, <1>6, <1>7, <1>8 DEF h

(* rebuildEqualityNext: keys that fall together take their IDs along.      *)
LEMMA RehashedKeeps ==
  ASSUME NEW s, IsEquality(s), NEW g, WellFormed(s, g), g.level < Terminal
  PROVE  /\ WellFormed(s, Rehashed(g))
         /\ \A v \in Values, id \in Ids : Holds(s, g, v, id) => Holds(s, Rehashed(g), v, id)
<1> DEFINE h == Rehashed(g)
           coarser(k) == Masked(g.level + 1, IF g.level = 0 THEN Hash[k] ELSE k)
           K(c) == {k \in DOMAIN g.sets : coarser(k) = c}
           Set == [ids : SUBSET Ids, compact : BOOLEAN]
<1>1. Terminal \in Nat /\ HashBits \in Nat /\ g.level \in 0..(Terminal - 1)
  <2>1. Terminal \in Nat /\ HashBits \in Nat
    BY LossyAssumption
  <2> QED BY <2>1 DEF WellFormed
<1>2. \A k \in DOMAIN g.sets : /\ g.sets[k] \in Set
                              /\ coarser(k) \in SUBSET (0..(HashBits - 1))
  <2>1. ASSUME NEW k \in DOMAIN g.sets
        PROVE  (IF g.level = 0 THEN Hash[k] ELSE k) \in SUBSET (0..(HashBits - 1))
    <3>1. CASE g.level = 0
      <4>1. k \in Values
        BY <1>1, <3>1 DEF WellFormed, KeysAt
      <4>2. Hash[k] \in SUBSET (0..(HashBits - 1))
        BY <4>1, LossyAssumption
      <4> QED BY <3>1, <4>2
    <3>2. CASE g.level # 0
      <4>1. g.level > 0
        BY <1>1, <3>2
      <4> QED BY <3>2, <4>1 DEF WellFormed, KeysAt
    <3> QED BY <3>1, <3>2
  <2>2. \A b \in SUBSET (0..(HashBits - 1)) : Masked(g.level + 1, b) \in SUBSET (0..(HashBits - 1))
    BY DEF Masked
  <2> QED BY <2>1, <2>2 DEF WellFormed
<1>3. /\ h.level = g.level + 1
      /\ DOMAIN h.sets = {coarser(k) : k \in DOMAIN g.sets}
      /\ \A c \in DOMAIN h.sets :
           h.sets[c] = IF g.level = 0 /\ Cardinality(K(c)) = 1
                       THEN g.sets[CHOOSE k \in K(c) : TRUE] ELSE Together(g.sets, K(c))
  BY DEF Rehashed
<1>4. ASSUME NEW c \in DOMAIN h.sets
      PROVE  h.sets[c] \in Set /\ \A k \in K(c) : g.sets[k].ids \subseteq h.sets[c].ids
  <2> DEFINE one == CHOOSE k \in K(c) : TRUE
  <2>1. K(c) # {} /\ K(c) \subseteq DOMAIN g.sets
    BY <1>3, <1>4
  <2>2. one \in K(c)
    BY <2>1
  <2>3. CASE g.level = 0 /\ Cardinality(K(c)) = 1
    <3>1. h.sets[c] = g.sets[one]
      BY <1>3, <1>4, <2>3
    <3>2. IsFiniteSet(K(c))
      <4>1. DOMAIN g.sets \subseteq Values /\ IsFiniteSet(Values)
        BY <2>3, LossyAssumption DEF WellFormed, KeysAt
      <4> QED BY <4>1, <2>1, FS_Subset
    <3>3. \A k \in K(c) : k = one
      BY <2>2, <2>3, <3>2, FS_Singleton
    <3> QED BY <1>2, <2>1, <2>2, <3>1, <3>3
  <2>4. CASE ~(g.level = 0 /\ Cardinality(K(c)) = 1)
    <3>1. h.sets[c] = Together(g.sets, K(c))
      BY <1>3, <1>4, <2>4
    <3>2. UNION {g.sets[k].ids : k \in K(c)} \in SUBSET Ids
      BY <1>2, <2>1
    <3> HIDE DEF K
    <3> QED BY <3>1, <3>2 DEF Together
  <2> QED BY <2>3, <2>4
<1>5. WellFormed(s, h)
  <2>1. DOMAIN h.sets \subseteq KeysAt(s, h.level)
    BY <1>1, <1>2, <1>3 DEF KeysAt
  <2>2. h.level \in 0..Terminal
    BY <1>1, <1>3
  <2> HIDE DEF h
  <2> QED BY <1>4, <2>1, <2>2 DEF WellFormed
<1>6. ASSUME NEW v \in Values, NEW id \in Ids, Holds(s, g, v, id) PROVE Holds(s, h, v, id)
  <2>1. PICK k \in DOMAIN g.sets : k = HashKey(g.level, v) /\ id \in g.sets[k].ids
    BY <1>6 DEF Holds, Covers
  <2>2. Hash[v] \in SUBSET (0..(HashBits - 1))
    BY LossyAssumption
  <2>3. coarser(k) = HashKey(h.level, v)
    <3>1. CASE g.level = 0
      BY <1>1, <1>3, <2>1, <3>1 DEF HashKey
    <3>2. CASE g.level # 0
      BY <1>1, <1>3, <2>1, <2>2, <3>2, MaskedTwice DEF HashKey
    <3> QED BY <3>1, <3>2
  <2>4. coarser(k) \in DOMAIN h.sets /\ k \in K(coarser(k))
    BY <1>3
  <2>5. id \in h.sets[coarser(k)].ids
    BY <1>4, <2>1, <2>4
  <2> HIDE DEF h, coarser
  <2> QED BY <2>3, <2>4, <2>5 DEF Holds, Covers
<1> QED BY <1>5, <1>6

(* rebuildSelectedOrderedBoundaryInto: the boundary that stays is outward  *)
(* of the one that goes, and takes over its IDs.                           *)
LEMMA MergedKeeps ==
  ASSUME NEW s, ~IsEquality(s), NEW g, WellFormed(s, g), Mergeable(g)
  PROVE  /\ WellFormed(s, MergedPair(s, g))
         /\ \A v \in Values, id \in Ids : Holds(s, g, v, id) => Holds(s, MergedPair(s, g), v, id)
<1> DEFINE p == BestPair(g)
           h == MergedPair(s, g)
           less == schema[s].rule = "lessThan"
           inner == IF less THEN p[1] ELSE p[2]
           outer == IF less THEN p[2] ELSE p[1]
           both == Together(g.sets, {p[1], p[2]})
           Set == [ids : SUBSET Ids, compact : BOOLEAN]
<1>1. /\ p[1] \in DOMAIN g.sets /\ p[2] \in DOMAIN g.sets
      /\ p[1] \in Nat /\ p[2] \in Nat /\ p[1] < p[2]
  BY BestPairExists, PairMeasures
<1>2. /\ h.level = 1 /\ DOMAIN h.sets = DOMAIN g.sets \ {inner}
      /\ \A k \in DOMAIN h.sets : h.sets[k] = IF k \in {p[1], p[2]} THEN both ELSE g.sets[k]
  BY DEF MergedPair
<1>3. \A k \in DOMAIN g.sets : g.sets[k] \in Set
  BY DEF WellFormed
<1>4. /\ both \in Set
      /\ g.sets[p[1]].ids \subseteq both.ids /\ g.sets[p[2]].ids \subseteq both.ids
  BY <1>1, <1>3 DEF Together
<1> HIDE DEF p, both
<1>5. outer \in DOMAIN h.sets /\ h.sets[outer] = both /\ inner \in {p[1], p[2]}
  <2>1. p[1] # p[2]
    BY <1>1
  <2> HIDE DEF h
  <2> QED BY <1>1, <1>2, <2>1
<1>6. WellFormed(s, h)
  <2>1. DOMAIN h.sets \subseteq KeysAt(s, h.level)
    BY <1>2 DEF WellFormed, KeysAt
  <2>2. h.level \in 0..Terminal
    BY <1>2, LossyAssumption
  <2>3. \A k \in DOMAIN h.sets : h.sets[k] \in Set
    BY <1>2, <1>3, <1>4
  <2> HIDE DEF h
  <2> QED BY <2>1, <2>2, <2>3 DEF WellFormed
<1>7. DOMAIN g.sets \subseteq Nat /\ Values \subseteq Nat
  BY LossyAssumption DEF Mergeable
<1>8. ASSUME NEW v \in Values, NEW id \in Ids, Holds(s, g, v, id) PROVE Holds(s, h, v, id)
  <2>1. PICK k \in DOMAIN g.sets : Outward(s, k, v) /\ id \in g.sets[k].ids
    BY <1>8 DEF Holds, Covers
  <2>2. CASE k = inner
    <3>1. outer \in DOMAIN h.sets /\ id \in h.sets[outer].ids
      BY <1>4, <1>5, <2>1, <2>2
    <3>2. Outward(s, outer, v)
      BY <1>1, <1>7, <2>1, <2>2 DEF Outward
    <3> HIDE DEF h, outer, inner
    <3> QED BY <3>1, <3>2 DEF Holds, Covers
  <2>3. CASE k # inner
    <3>1. k \in DOMAIN h.sets /\ id \in h.sets[k].ids
      BY <1>2, <1>4, <2>1, <2>3
    <3> HIDE DEF h, inner
    <3> QED BY <2>1, <3>1 DEF Holds, Covers
  <2> QED BY <2>2, <2>3
<1> QED BY <1>6, <1>8

(* A coarser generation answers for all a leaf has stored.                 *)
LEMMA CoarserKeeps ==
  ASSUME NEW s, NEW g, WellFormed(s, g), Coarser(s, g) # None
  PROVE  /\ WellFormed(s, Coarser(s, g))
         /\ \A v \in Values, id \in Ids : Holds(s, g, v, id) => Holds(s, Coarser(s, g), v, id)
<1>1. CASE IsEquality(s)
  <2>1. ~ g.level >= Terminal /\ Coarser(s, g) = Rehashed(g)
    BY <1>1 DEF Coarser
  <2>2. g.level < Terminal
    BY <2>1, LossyAssumption DEF WellFormed
  <2> QED BY <1>1, <2>1, <2>2, RehashedKeeps
<1>2. CASE ~IsEquality(s)
  <2>1. ~ Cardinality(DOMAIN g.sets) < 2 /\ Coarser(s, g) = MergedPair(s, g)
    BY <1>2 DEF Coarser
  <2>2. Mergeable(g)
    BY <1>2, <2>1 DEF WellFormed, Mergeable, KeysAt
  <2> QED BY <1>2, <2>1, <2>2, MergedKeeps
<1> QED BY <1>1, <1>2

-----------------------------------------------------------------------------
(* The schema tree.                                                        *)

LEMMA SchemaShape ==
  ASSUME schema \in Schemas
  PROVE  /\ Len(schema) \in Nat /\ Nodes = 1..Len(schema)
         /\ \A i \in Nodes : /\ schema[i].from \in 1..i /\ schema[i].from - 1 \in 0..(i - 1)
                             /\ schema[i].limit \in Nat \cup {None}
         /\ \A i \in Nodes : \A k \in schema[i].from..i : schema[i].from =< schema[k].from
         /\ \A i \in Policies : i \in Nodes /\ schema[i].limit \in Nat
<1>1. /\ schema \in Seq([from  : Nat \ {0},
                         rule  : {"equality", "lessThan", "greaterThan", None},
                         limit : Nat \cup {None}])
      /\ \A i \in DOMAIN schema :
           schema[i].from =< i /\ \A k \in schema[i].from..i : schema[i].from =< schema[k].from
  BY SchemaAssumption
<1>2. Len(schema) \in Nat /\ Nodes = 1..Len(schema)
  BY <1>1 DEF Nodes
<1>3. \A i \in Nodes : /\ schema[i].from \in Nat \ {0}
                       /\ schema[i].limit \in Nat \cup {None}
  <2> DEFINE Node == [from  : Nat \ {0},
                      rule  : {"equality", "lessThan", "greaterThan", None},
                      limit : Nat \cup {None}]
  <2>1. schema \in Seq(Node)
    BY <1>1
  <2>2. \A i \in Nodes : schema[i] \in Node
    <3> HIDE DEF Node
    <3> QED BY <1>2, <2>1, ElementOfSeq
  <2> QED BY <2>2
<1>4. \A i \in Nodes : schema[i].from =< i
  BY <1>1 DEF Nodes
<1> QED BY <1>1, <1>2, <1>3, <1>4 DEF Policies, Nodes

(* The tightest limit is one of the limits, and none is tighter.           *)
LEMMA LimitIs ==
  ASSUME schema \in Schemas, NEW policies \in SUBSET Policies, NEW i \in Nodes
  PROVE  /\ Limit(i, policies) \in Nat \cup {None}
         /\ \A k \in policies : i \in Subtree(k) =>
              Limit(i, policies) \in Nat /\ Limit(i, policies) =< schema[k].limit
         /\ Limit(i, policies) # None => \E k \in policies : i \in Subtree(k) /\ Limit(i, policies) = schema[k].limit
<1> DEFINE owners == {k \in policies : i \in Subtree(k)}
           limits == {schema[k].limit : k \in owners}
<1>1. limits \subseteq Nat
  BY SchemaShape
<1>2. CASE owners = {}
  <2>1. Limit(i, policies) = None
    BY <1>2 DEF Limit
  <2> QED BY <1>2, <2>1
<1>3. CASE owners # {}
  <2>1. Limit(i, policies) = Min(limits)
    BY <1>3 DEF Limit
  <2>2. limits # {}
    BY <1>3
  <2> HIDE DEF limits
  <2>3. \E m \in limits : \A n \in limits : m =< n
    BY <1>1, <2>2, LeastNatural
  <2>4. Min(limits) \in limits /\ \A n \in limits : Min(limits) =< n
    BY <2>3 DEF Min
  <2> QED BY <1>1, <2>1, <2>4 DEF limits
<1> QED BY <1>2, <1>3

(* Nodes a..b are whole subtrees.                                          *)
Region(a, b) ==
  /\ a \in 1..(Len(schema) + 1) /\ b \in 0..Len(schema) /\ a =< b + 1
  /\ \A i \in a..b : a =< schema[i].from

LEMMA Regions ==
  ASSUME schema \in Schemas
  PROVE  /\ Region(1, Len(schema))
         /\ \A i \in Nodes : Region(schema[i].from, i - 1) /\ Region(schema[i].from, i)
         /\ \A a, b : Region(a, b) /\ ~ b < a =>
              /\ b \in Nodes /\ a =< schema[b].from
              /\ Region(a, schema[b].from - 1)
<1>1. Region(1, Len(schema))
  BY SchemaShape DEF Region
<1>2. ASSUME NEW i \in Nodes
      PROVE  Region(schema[i].from, i - 1) /\ Region(schema[i].from, i)
  BY SchemaShape DEF Region
<1>3. ASSUME NEW a, NEW b, Region(a, b), ~ b < a
      PROVE  /\ b \in Nodes /\ a =< schema[b].from
             /\ Region(a, schema[b].from - 1)
  <2>1. b \in Nodes /\ a \in Nat /\ b \in Nat /\ b \in a..b
    BY <1>3, SchemaShape DEF Region
  <2>2. a =< schema[b].from /\ schema[b].from \in 1..b
    BY <1>3, <2>1, SchemaShape DEF Region
  <2> QED BY <1>3, <2>1, <2>2, SchemaShape DEF Region
<1> QED BY <1>1, <1>2, <1>3

-----------------------------------------------------------------------------
(* Walks.  A walk is a recursive function, whose existence is proved       *)
(* first.  The three kinds differ in their turns.                          *)

Turned(kind, policies, b, below) ==
  IF kind = "refresh" THEN Refreshed(b, below, policies)
  ELSE IF kind = "compile" THEN Compiled(b, below) ELSE Relieving(b, below)

Visited(kind, policies, v, b) ==
  [a \in 1..(Len(schema) + 1) |->
     IF b < a THEN <<>>
     ELSE v[schema[b].from - 1][a] \o Turned(kind, policies, b, v[b - 1][schema[b].from])]

Visits(kind, policies, v, n) == v = [b \in 0..n |-> Visited(kind, policies, v, b)]
Tour(kind, policies) == CHOOSE v : Visits(kind, policies, v, Len(schema))

LEMMA VisitedSame ==
  ASSUME schema \in Schemas, NEW kind, NEW policies, NEW v, NEW u, NEW b \in 0..Len(schema),
         \A c \in 0..(b - 1) : v[c] = u[c]
  PROVE  Visited(kind, policies, v, b) = Visited(kind, policies, u, b)
<1>1. ASSUME NEW a \in 1..(Len(schema) + 1), ~ b < a
      PROVE  /\ v[schema[b].from - 1] = u[schema[b].from - 1]
             /\ v[b - 1] = u[b - 1]
  <2>1. b \in Nodes /\ b - 1 \in 0..(b - 1)
    BY <1>1, SchemaShape
  <2> QED BY <2>1, SchemaShape
<1> QED BY <1>1 DEF Visited

LEMMA VisitsExist ==
  ASSUME schema \in Schemas, NEW kind, NEW policies
  PROVE  \E v : Visits(kind, policies, v, Len(schema))
<1> DEFINE bad == {n \in 0..Len(schema) : ~ \E v : Visits(kind, policies, v, n)}
<1>1. Len(schema) \in Nat
  BY SchemaShape
<1> SUFFICES ASSUME bad # {} PROVE FALSE
  BY <1>1
<1>2. PICK m \in bad : \A n \in bad : m =< n
  <2>1. bad \subseteq Nat
    BY <1>1
  <2> HIDE DEF bad
  <2> QED BY <2>1, LeastNatural
<1>3. m \in 0..Len(schema) /\ ~ \E v : Visits(kind, policies, v, m)
  BY <1>2
<1>4. PICK u : m # 0 => Visits(kind, policies, u, m - 1)
  <2>1. CASE m # 0
    <3>1. m - 1 \in 0..Len(schema) /\ m - 1 \notin bad
      BY <1>1, <1>2, <1>3, <2>1
    <3> QED BY <3>1
  <2> QED BY <2>1
<1> DEFINE v == [b \in 0..m |-> Visited(kind, policies, u, b)]
<1>5. ASSUME NEW b \in 0..m PROVE v[b] = Visited(kind, policies, v, b)
  <2>1. ASSUME NEW c \in 0..(b - 1) PROVE v[c] = u[c]
    <3>1. m # 0 /\ c \in 0..(m - 1) /\ c \in 0..m
      BY <1>1, <1>3, <2>1
    <3>2. u[c] = Visited(kind, policies, u, c)
      BY <1>4, <3>1 DEF Visits
    <3> QED BY <3>1, <3>2
  <2>2. b \in 0..Len(schema)
    BY <1>1, <1>3
  <2> HIDE DEF v
  <2>3. Visited(kind, policies, v, b) = Visited(kind, policies, u, b)
    BY <2>1, <2>2, VisitedSame
  <2> QED BY <2>3 DEF v
<1>6. v = [b \in 0..m |-> v[b]]
  OBVIOUS
<1> HIDE DEF v
<1>7. Visits(kind, policies, v, m)
  BY <1>5, <1>6 DEF Visits
<1> QED BY <1>3, <1>7

LEMMA TourStep ==
  ASSUME schema \in Schemas, NEW kind, NEW policies,
         NEW b \in 0..Len(schema), NEW a \in 1..(Len(schema) + 1)
  PROVE  Tour(kind, policies)[b][a] =
           IF b < a THEN <<>>
           ELSE Tour(kind, policies)[schema[b].from - 1][a]
                  \o Turned(kind, policies, b, Tour(kind, policies)[b - 1][schema[b].from])
<1> DEFINE v == Tour(kind, policies)
<1>1. Visits(kind, policies, v, Len(schema))
  BY VisitsExist DEF Tour
<1> HIDE DEF v
<1>2. v[b] = Visited(kind, policies, v, b)
  BY <1>1 DEF Visits
<1> QED BY <1>2 DEF Visited, v

LEMMA RefreshTour ==
  ASSUME NEW policies, NEW first, NEW last
  PROVE  RefreshAll(first, last, policies) = Tour("refresh", policies)[last][first]
<1> DEFINE visit[b \in 0..Len(schema)] ==
        [a \in 1..(Len(schema) + 1) |->
           IF b < a THEN <<>>
           ELSE visit[schema[b].from - 1][a] \o Refreshed(b, visit[b - 1][schema[b].from], policies)]
<1>1. visit = Tour("refresh", policies)
  BY DEF Tour, Visits, Visited, Turned
<1>2. RefreshAll(first, last, policies) = visit[last][first]
  BY DEF RefreshAll, Walk
<1> HIDE DEF visit
<1> QED BY <1>1, <1>2

LEMMA CompileTour ==
  ASSUME NEW policies PROVE CompileAll = Tour("compile", policies)[Len(schema)][1]
<1> DEFINE visit[b \in 0..Len(schema)] ==
        [a \in 1..(Len(schema) + 1) |->
           IF b < a THEN <<>>
           ELSE visit[schema[b].from - 1][a] \o Compiled(b, visit[b - 1][schema[b].from])]
<1>1. visit = Tour("compile", policies)
  BY DEF Tour, Visits, Visited, Turned
<1>2. CompileAll = visit[Len(schema)][1]
  BY DEF CompileAll, Walk
<1> HIDE DEF visit
<1> QED BY <1>1, <1>2

LEMMA RelieveTour ==
  ASSUME NEW policies PROVE RelieveAll = Tour("relieve", policies)[Len(schema)][1]
<1> DEFINE visit[b \in 0..Len(schema)] ==
        [a \in 1..(Len(schema) + 1) |->
           IF b < a THEN <<>>
           ELSE visit[schema[b].from - 1][a] \o Relieving(b, visit[b - 1][schema[b].from])]
<1>1. visit = Tour("relieve", policies)
  BY DEF Tour, Visits, Visited, Turned
<1>2. RelieveAll = visit[Len(schema)][1]
  BY DEF RelieveAll, Walk
<1> HIDE DEF visit
<1> QED BY <1>1, <1>2

(* Work for the nodes a..b: no node is fitted to less than the limit of a  *)
(* policy that owns it.                                                    *)
Owned(i, bound) == \E k \in Policies : i \in Subtree(k) /\ schema[k].limit =< bound
Item(a, b) == {item \in [node : a..b, bound : Nat, check : BOOLEAN] : Owned(item.node, item.bound)}

LEMMA Widened ==
  ASSUME NEW a \in Int, NEW b \in Int, NEW c \in Int, NEW d \in Int, a =< c, d =< b,
         NEW w \in Seq(Item(c, d))
  PROVE  w \in Seq(Item(a, b))
<1>1. Item(c, d) \subseteq Item(a, b)
  BY DEF Item
<1> QED BY <1>1, SeqMonotonic

LEMMA FitType ==
  ASSUME NEW a \in Int, NEW b \in Int, NEW i \in a..b, NEW bound \in Nat, Owned(i, bound)
  PROVE  Fit(i, bound) \in Seq(Item(a, b)) /\ Check(i, bound) \in Seq(Item(a, b))
BY DEF Fit, Check, Item

LEMMA SoftTargetIs ==
  ASSUME NEW limit \in Nat
  PROVE  /\ SoftTarget(limit) \in Nat /\ limit =< SoftTarget(limit)
         /\ \A l \in Nat : l =< limit => SoftTarget(l) =< SoftTarget(limit)
BY DEF SoftTarget

(* The bounds that walks fit to are those of owners.                       *)
LEMMA BoundsOwned ==
  ASSUME schema \in Schemas, NEW i \in Nodes
  PROVE  /\ \A policies \in SUBSET Policies :
              Limit(i, policies) # None =>
                /\ Limit(i, policies) \in Nat /\ Owned(i, Limit(i, policies))
                /\ SoftTarget(Limit(i, policies)) \in Nat
                /\ Owned(i, SoftTarget(Limit(i, policies)))
         /\ i \in Policies => schema[i].limit \in Nat /\ Owned(i, schema[i].limit)
<1>1. ASSUME NEW policies \in SUBSET Policies, Limit(i, policies) # None
      PROVE  /\ Limit(i, policies) \in Nat /\ Owned(i, Limit(i, policies))
             /\ SoftTarget(Limit(i, policies)) \in Nat
             /\ Owned(i, SoftTarget(Limit(i, policies)))
  <2> DEFINE limit == Limit(i, policies)
  <2>1. PICK k \in policies : i \in Subtree(k) /\ limit = schema[k].limit
    BY <1>1, LimitIs
  <2>2. limit \in Nat
    BY <1>1, LimitIs
  <2> HIDE DEF limit
  <2>3. SoftTarget(limit) \in Nat /\ limit =< SoftTarget(limit) /\ limit =< limit
    BY <2>2, SoftTargetIs
  <2>4. Owned(i, limit) /\ Owned(i, SoftTarget(limit))
    BY <2>1, <2>3 DEF Owned
  <2> QED BY <2>2, <2>3, <2>4 DEF limit
<1>2. ASSUME i \in Policies PROVE schema[i].limit \in Nat /\ Owned(i, schema[i].limit)
  <2>1. i \in Subtree(i) /\ schema[i].limit \in Nat
    BY <1>2, SchemaShape DEF Subtree
  <2> QED BY <1>2, <2>1 DEF Owned
<1> QED BY <1>1, <1>2

LEMMA TurnedType ==
  ASSUME schema \in Schemas, NEW policies \in SUBSET Policies, NEW kind,
         NEW b \in Nodes, NEW below \in Seq(Item(schema[b].from, b - 1)),
         kind = "compile" =>
           RefreshAll(schema[b].from, b - 1, Policies \cap Below(b)) \in Seq(Item(schema[b].from, b - 1))
  PROVE  Turned(kind, policies, b, below) \in Seq(Item(schema[b].from, b))
<1> DEFINE a == schema[b].from
           T == Item(a, b)
<1>1. a \in Int /\ b \in Int /\ b - 1 \in Int /\ b \in a..b /\ b - 1 =< b
  BY SchemaShape
<1> HIDE DEF T
<1>2. below \in Seq(T)
  BY <1>1, Widened DEF T
<1>3. \A bound \in Nat : Owned(b, bound) => Fit(b, bound) \in Seq(T) /\ Check(b, bound) \in Seq(T)
  BY <1>1, FitType DEF T
<1>4. \A u, v \in Seq(T) : u \o v \in Seq(T)
  BY ConcatProperties
<1>5. CASE kind = "refresh"
  <2>1. CASE Limit(b, policies) = None
    BY <1>2, <1>5, <2>1 DEF Turned, Refreshed, T
  <2>2. CASE Limit(b, policies) # None
    <3>1. Limit(b, policies) \in Nat /\ Owned(b, Limit(b, policies))
      BY <2>2, BoundsOwned
    <3>2. below \o Fit(b, Limit(b, policies)) \o below \o Check(b, Limit(b, policies)) \in Seq(T)
      BY <1>2, <1>3, <1>4, <3>1
    <3> QED BY <1>5, <2>2, <3>2 DEF Turned, Refreshed, T
  <2> QED BY <2>1, <2>2
<1>6. CASE kind = "compile"
  <2> DEFINE again == RefreshAll(a, b - 1, Policies \cap Below(b))
  <2>1. CASE b \notin Policies
    BY <1>2, <1>6, <2>1 DEF Turned, Compiled, T
  <2>2. CASE b \in Policies
    <3>1. schema[b].limit \in Nat /\ Owned(b, schema[b].limit)
      BY <2>2, BoundsOwned
    <3>2. again \in Seq(T)
      BY <1>1, <1>6, Widened DEF T
    <3> HIDE DEF again
    <3>3. below \o Fit(b, schema[b].limit) \o again \o Check(b, schema[b].limit) \in Seq(T)
      BY <1>2, <1>3, <1>4, <3>1, <3>2
    <3> QED BY <1>6, <2>2, <3>3 DEF Turned, Compiled, T, again
  <2> QED BY <2>1, <2>2
<1>7. CASE kind # "refresh" /\ kind # "compile"
  <2>1. CASE Limit(b, Policies) = None
    BY <1>2, <1>7, <2>1 DEF Turned, Relieving, T
  <2>2. CASE Limit(b, Policies) # None
    <3>1. SoftTarget(Limit(b, Policies)) \in Nat /\ Owned(b, SoftTarget(Limit(b, Policies)))
      BY <2>2, BoundsOwned
    <3>2. below \o Fit(b, SoftTarget(Limit(b, Policies))) \in Seq(T)
      BY <1>2, <1>3, <1>4, <3>1
    <3> QED BY <1>7, <2>2, <3>2 DEF Turned, Relieving, T
  <2> QED BY <2>1, <2>2
<1> QED BY <1>5, <1>6, <1>7

Typed(kind, policies, b) ==
  \A a : Region(a, b) => Tour(kind, policies)[b][a] \in Seq(Item(a, b))

LEMMA TypedStep ==
  ASSUME schema \in Schemas, NEW policies \in SUBSET Policies, NEW kind, NEW b \in 0..Len(schema),
         \A c \in 0..(b - 1) : Typed(kind, policies, c),
         kind = "compile" =>
           \A c \in 0..Len(schema) : \A p \in SUBSET Policies : Typed("refresh", p, c)
  PROVE  Typed(kind, policies, b)
<1> SUFFICES ASSUME NEW a, Region(a, b)
             PROVE  Tour(kind, policies)[b][a] \in Seq(Item(a, b))
  BY DEF Typed
<1>1. a \in 1..(Len(schema) + 1)
  BY DEF Region
<1>2. CASE b < a
  <2>1. Tour(kind, policies)[b][a] = <<>>
    BY <1>1, <1>2, TourStep
  <2> QED BY <2>1, EmptySeq
<1>3. CASE ~ b < a
  <2> DEFINE from == schema[b].from
             left == Tour(kind, policies)[from - 1][a]
             below == Tour(kind, policies)[b - 1][from]
             right == Turned(kind, policies, b, below)
             again == RefreshAll(from, b - 1, Policies \cap Below(b))
  <2>0. b \in Nodes /\ a =< from /\ Region(a, from - 1)
    BY <1>3, Regions
  <2>1. /\ b \in Nodes /\ a =< from /\ Region(a, from - 1) /\ Region(from, b - 1)
        /\ from \in 1..b /\ from - 1 \in 0..(b - 1) /\ b - 1 \in 0..(b - 1)
        /\ b - 1 \in 0..Len(schema) /\ a \in Int /\ b \in Int
    <3>1. Region(from, b - 1) /\ from \in 1..b /\ from - 1 \in 0..(b - 1)
      BY <2>0, Regions, SchemaShape
    <3>2. Len(schema) \in Nat /\ Nodes = 1..Len(schema)
      BY SchemaShape
    <3> HIDE DEF from
    <3> QED BY <1>1, <2>0, <3>1, <3>2
  <2>2. left \in Seq(Item(a, from - 1)) /\ below \in Seq(Item(from, b - 1))
    BY <2>1 DEF Typed
  <2>3. kind = "compile" => again \in Seq(Item(from, b - 1))
    <3>1. again = Tour("refresh", Policies \cap Below(b))[b - 1][from]
      BY RefreshTour
    <3>2. Policies \cap Below(b) \in SUBSET Policies
      OBVIOUS
    <3> QED BY <2>1, <3>1, <3>2 DEF Typed
  <2>4. right \in Seq(Item(from, b))
    <3>1. below \in Seq(Item(schema[b].from, b - 1))
      BY <2>2
    <3>2. kind = "compile" =>
            RefreshAll(schema[b].from, b - 1, Policies \cap Below(b)) \in Seq(Item(schema[b].from, b - 1))
      BY <2>3
    <3>3. Turned(kind, policies, b, below) \in Seq(Item(schema[b].from, b))
      <4> HIDE DEF below
      <4> QED BY <2>1, <3>1, <3>2, TurnedType
    <3> QED BY <3>3
  <2>5. Tour(kind, policies)[b][a] = left \o right
    <3>1. Tour(kind, policies)[b][a] =
            IF b < a THEN <<>>
            ELSE Tour(kind, policies)[schema[b].from - 1][a]
                   \o Turned(kind, policies, b, Tour(kind, policies)[b - 1][schema[b].from])
      BY <1>1, TourStep
    <3> QED BY <1>3, <3>1
  <2> HIDE DEF left, right, from
  <2>6. left \in Seq(Item(a, b)) /\ right \in Seq(Item(a, b))
    BY <2>1, <2>2, <2>4, Widened
  <2> QED BY <2>5, <2>6, ConcatProperties
<1> QED BY <1>2, <1>3

LEMMA RefreshTyped ==
  ASSUME schema \in Schemas, NEW policies \in SUBSET Policies
  PROVE  \A b \in 0..Len(schema) : Typed("refresh", policies, b)
<1> DEFINE S == {b \in 0..Len(schema) : Typed("refresh", policies, b)}
<1>1. Len(schema) \in Nat
  BY SchemaShape
<1>2. ASSUME NEW b \in 0..Len(schema), \A c \in 0..(b - 1) : c \in S PROVE b \in S
  BY <1>2, TypedStep
<1> HIDE DEF S
<1>3. \A b \in 0..Len(schema) : b \in S
  BY <1>1, <1>2, StrongInduction
<1> QED BY <1>3 DEF S

LEMMA ToursTyped ==
  ASSUME schema \in Schemas, NEW policies \in SUBSET Policies, NEW kind
  PROVE  \A b \in 0..Len(schema) : Typed(kind, policies, b)
<1> DEFINE S == {b \in 0..Len(schema) : Typed(kind, policies, b)}
<1>1. Len(schema) \in Nat
  BY SchemaShape
<1>2. ASSUME NEW b \in 0..Len(schema), \A c \in 0..(b - 1) : c \in S PROVE b \in S
  BY <1>2, TypedStep, RefreshTyped
<1> HIDE DEF S
<1>3. \A b \in 0..Len(schema) : b \in S
  BY <1>1, <1>2, StrongInduction
<1> QED BY <1>3 DEF S

(* What the checkpoints and the end of the input set out to do is work.    *)
LEMMA WorkType ==
  ASSUME schema \in Schemas
  PROVE  \A w \in {<<>>, CompileAll, RelieveAll, RefreshAll(1, Len(schema), Policies)} :
           w \in Seq(Item(1, Len(schema)))
<1>1. Policies \in SUBSET Policies /\ Len(schema) \in 0..Len(schema) /\ Region(1, Len(schema))
  BY SchemaShape, Regions
<1>2. \A kind : Tour(kind, Policies)[Len(schema)][1] \in Seq(Item(1, Len(schema)))
  BY <1>1, ToursTyped DEF Typed
<1>3. \A w \in {CompileAll, RelieveAll, RefreshAll(1, Len(schema), Policies)} :
        w \in Seq(Item(1, Len(schema)))
  BY <1>2, CompileTour, RelieveTour, RefreshTour
<1> QED BY <1>3, EmptySeq

LEMMA ItemsWork ==
  ASSUME schema \in Schemas
  PROVE  \A w \in Seq(Item(1, Len(schema))) : w \in Seq([node : Nodes, bound : Nat, check : BOOLEAN])
<1>1. Item(1, Len(schema)) \subseteq [node : Nodes, bound : Nat, check : BOOLEAN]
  BY SchemaShape DEF Item
<1> QED BY <1>1, SeqMonotonic

-----------------------------------------------------------------------------
(* Who is fitted last.                                                     *)

(* Fitting j cannot change a leaf of i.                                    *)
Apart(j, i) == Subtree(j) \cap Subtree(i) = {}
Spares(w, i) == \A n \in 1..Len(w) : w[n].check \/ Apart(w[n].node, i)

(* Node i will be brought under the bound, and left alone afterwards;      *)
(* strictly if that is checked.                                            *)
Awaits(w, i, bound, strict) ==
  \E m \in 1..Len(w) :
    /\ w[m].node = i /\ w[m].bound =< bound /\ (strict => w[m].check)
    /\ \A n \in (m + 1)..Len(w) : w[n].check \/ Apart(w[n].node, i)

LEMMA AwaitsFollowed ==
  ASSUME NEW T, NEW u \in Seq(T), NEW v \in Seq(T), NEW i, NEW bound, NEW strict,
         Awaits(u, i, bound, strict), Spares(v, i)
  PROVE  Awaits(u \o v, i, bound, strict)
<1> DEFINE w == u \o v
<1>1. /\ Len(u) \in Nat /\ Len(v) \in Nat /\ Len(w) = Len(u) + Len(v)
      /\ \A n \in 1..(Len(u) + Len(v)) : w[n] = IF n <= Len(u) THEN u[n] ELSE v[n - Len(u)]
  BY ConcatProperties, LenProperties
<1> HIDE DEF w
<1>2. PICK m \in 1..Len(u) :
        /\ u[m].node = i /\ u[m].bound =< bound /\ (strict => u[m].check)
        /\ \A n \in (m + 1)..Len(u) : u[n].check \/ Apart(u[n].node, i)
  BY DEF Awaits
<1>3. m \in 1..Len(w) /\ w[m] = u[m]
  BY <1>1
<1>4. ASSUME NEW n \in (m + 1)..Len(w) PROVE w[n].check \/ Apart(w[n].node, i)
  <2>1. CASE n =< Len(u)
    <3>1. n \in (m + 1)..Len(u) /\ w[n] = u[n]
      BY <1>1, <2>1
    <3> QED BY <1>2, <3>1
  <2>2. CASE ~ n =< Len(u)
    <3>1. n - Len(u) \in 1..Len(v) /\ w[n] = v[n - Len(u)]
      BY <1>1, <2>2
    <3> QED BY <3>1 DEF Spares
  <2> QED BY <2>1, <2>2
<1>5. Awaits(w, i, bound, strict)
  BY <1>2, <1>3, <1>4 DEF Awaits
<1> QED BY <1>5 DEF w

LEMMA AwaitsPreceded ==
  ASSUME NEW T, NEW u \in Seq(T), NEW v \in Seq(T), NEW i, NEW bound, NEW strict,
         Awaits(v, i, bound, strict)
  PROVE  Awaits(u \o v, i, bound, strict)
<1> DEFINE w == u \o v
<1>1. /\ Len(u) \in Nat /\ Len(v) \in Nat /\ Len(w) = Len(u) + Len(v)
      /\ \A n \in 1..(Len(u) + Len(v)) : w[n] = IF n <= Len(u) THEN u[n] ELSE v[n - Len(u)]
  BY ConcatProperties, LenProperties
<1> HIDE DEF w
<1>2. PICK l \in 1..Len(v) :
        /\ v[l].node = i /\ v[l].bound =< bound /\ (strict => v[l].check)
        /\ \A n \in (l + 1)..Len(v) : v[n].check \/ Apart(v[n].node, i)
  BY DEF Awaits
<1>3. \A n \in 1..Len(v) : n + Len(u) \in 1..Len(w) /\ w[n + Len(u)] = v[n]
  BY <1>1
<1>4. PICK m \in 1..Len(w) : m = l + Len(u) /\ w[m] = v[l]
  BY <1>3
<1>5. ASSUME NEW n \in (m + 1)..Len(w) PROVE w[n].check \/ Apart(w[n].node, i)
  <2>1. n - Len(u) \in (l + 1)..Len(v) /\ w[n] = v[n - Len(u)]
    BY <1>1, <1>4
  <2> QED BY <1>2, <2>1
<1>6. Awaits(w, i, bound, strict)
  BY <1>2, <1>4, <1>5 DEF Awaits
<1> QED BY <1>6 DEF w

LEMMA AwaitsCheck ==
  ASSUME NEW T, NEW u \in Seq(T), NEW i, NEW bound, NEW limit, limit =< bound,
         Check(i, limit) \in Seq(T), NEW strict
  PROVE  Awaits(u \o Check(i, limit), i, bound, strict)
<1> DEFINE v == Check(i, limit)
<1>1. /\ Len(v) = 1 /\ v[1].node = i /\ v[1].bound =< bound /\ v[1].check
  BY DEF Check
<1>2. v \in Seq(T)
  OBVIOUS
<1> HIDE DEF v
<1>3. Awaits(v, i, bound, strict)
  BY <1>1 DEF Awaits
<1>4. Awaits(u \o v, i, bound, strict)
  BY <1>2, <1>3, AwaitsPreceded
<1> QED BY <1>4 DEF v

LEMMA AwaitsFit ==
  ASSUME NEW T, NEW u \in Seq(T), NEW i, NEW bound, NEW limit, limit =< bound,
         Fit(i, limit) \in Seq(T)
  PROVE  Awaits(u \o Fit(i, limit), i, bound, FALSE)
<1> DEFINE v == Fit(i, limit)
<1>1. /\ Len(v) = 1 /\ v[1].node = i /\ v[1].bound =< bound
  BY DEF Fit
<1>2. v \in Seq(T)
  OBVIOUS
<1> HIDE DEF v
<1>3. Awaits(v, i, bound, FALSE)
  BY <1>1 DEF Awaits
<1>4. Awaits(u \o v, i, bound, FALSE)
  BY <1>2, <1>3, AwaitsPreceded
<1> QED BY <1>4 DEF v

(* Later subtrees have no leaf of an earlier node.                         *)
LEMMA LaterSpares ==
  ASSUME schema \in Schemas, NEW b \in Nodes, NEW w \in Seq(Item(schema[b].from, b)),
         NEW k \in Nodes, k < schema[b].from
  PROVE  Spares(w, k)
<1> SUFFICES ASSUME NEW n \in 1..Len(w) PROVE Apart(w[n].node, k)
  BY DEF Spares
<1>1. w[n].node \in schema[b].from..b
  <2>1. w[n] \in Item(schema[b].from, b)
    BY ElementOfSeq
  <2> QED BY <2>1 DEF Item
<1>2. schema[b].from =< schema[w[n].node].from
  BY <1>1, SchemaShape
<1>3. /\ w[n].node \in Nodes /\ schema[b].from \in Int /\ schema[w[n].node].from \in Int
      /\ k \in Int
  <2>1. b \in 1..Len(schema) /\ Len(schema) \in Nat /\ Nodes = 1..Len(schema) /\ schema[b].from \in 1..b
    BY SchemaShape
  <2>2. w[n].node \in Nodes /\ schema[b].from \in Int /\ k \in Int
    BY <1>1, <2>1
  <2>3. schema[w[n].node].from \in 1..(w[n].node) /\ w[n].node \in Int
    BY <2>1, <2>2, SchemaShape, SMTT(30)
  <2> QED BY <2>2, <2>3
<1> QED BY <1>2, <1>3 DEF Apart, Subtree

LEMMA TourAwaits ==
  ASSUME schema \in Schemas, NEW policies \in SUBSET Policies, NEW kind, NEW a, NEW b, Region(a, b),
         NEW k \in Nodes, k \in a..b, NEW bound, NEW strict,
         k < schema[b].from =>
           Awaits(Tour(kind, policies)[schema[b].from - 1][a], k, bound, strict),
         ~ k < schema[b].from =>
           Awaits(Turned(kind, policies, b, Tour(kind, policies)[b - 1][schema[b].from]), k, bound, strict)
  PROVE  Awaits(Tour(kind, policies)[b][a], k, bound, strict)
<1> DEFINE from == schema[b].from
           left == Tour(kind, policies)[from - 1][a]
           right == Turned(kind, policies, b, Tour(kind, policies)[b - 1][from])
<1>1. /\ b \in Nodes /\ b \in 0..Len(schema) /\ a \in 1..(Len(schema) + 1) /\ ~ b < a
      /\ a =< from /\ from \in 1..b /\ a \in Int /\ b \in Int /\ from - 1 =< b
  <2>1. ~ b < a /\ a \in 1..(Len(schema) + 1) /\ b \in 0..Len(schema) /\ Len(schema) \in Nat
    BY SchemaShape DEF Region
  <2>2. b \in Nodes /\ a =< from
    BY <2>1, Regions
  <2>3. from \in 1..b
    BY <2>2, SchemaShape
  <2> HIDE DEF from
  <2> QED BY <2>1, <2>2, <2>3
<1>2. Region(a, from - 1) /\ Region(from, b - 1) /\ from - 1 \in 0..Len(schema) /\ b - 1 \in 0..Len(schema)
  <2>1. Region(a, from - 1) /\ Region(from, b - 1)
    BY <1>1, Regions
  <2> QED BY <2>1 DEF Region
<1>3. left \in Seq(Item(a, from - 1)) /\ Tour(kind, policies)[b - 1][from] \in Seq(Item(from, b - 1))
  BY <1>2, ToursTyped DEF Typed
<1>4. right \in Seq(Item(from, b))
  <2> DEFINE below == Tour(kind, policies)[b - 1][schema[b].from]
  <2>1. below \in Seq(Item(schema[b].from, b - 1))
    BY <1>3
  <2>2. RefreshAll(schema[b].from, b - 1, Policies \cap Below(b)) \in Seq(Item(schema[b].from, b - 1))
    <3>1. Policies \cap Below(b) \in SUBSET Policies
      OBVIOUS
    <3>2. Tour("refresh", Policies \cap Below(b))[b - 1][from] \in Seq(Item(from, b - 1))
      BY <1>2, <3>1, ToursTyped DEF Typed
    <3> QED BY <3>2, RefreshTour
  <2>3. Turned(kind, policies, b, below) \in Seq(Item(schema[b].from, b))
    <3> HIDE DEF below
    <3> QED BY <1>1, <2>1, <2>2, TurnedType
  <2> QED BY <2>3
<1>5. Tour(kind, policies)[b][a] = left \o right
  <2>1. Tour(kind, policies)[b][a] =
          IF b < a THEN <<>>
          ELSE Tour(kind, policies)[schema[b].from - 1][a]
                 \o Turned(kind, policies, b, Tour(kind, policies)[b - 1][schema[b].from])
    <3>1. b \in 0..Len(schema) /\ a \in 1..(Len(schema) + 1)
      BY <1>1
    <3> QED BY <3>1, TourStep
  <2> QED BY <1>1, <2>1
<1>6. left \in Seq(Item(a, b)) /\ right \in Seq(Item(a, b))
  <2> HIDE DEF left, right, from
  <2> QED BY <1>1, <1>3, <1>4, Widened
<1>7. CASE k < from
  <2>1. Spares(right, k)
    <3>1. right \in Seq(Item(schema[b].from, b)) /\ k < schema[b].from
      BY <1>4, <1>7
    <3> HIDE DEF right
    <3> QED BY <1>1, <3>1, LaterSpares
  <2>2. Awaits(left, k, bound, strict)
    BY <1>7
  <2> HIDE DEF left, right
  <2> QED BY <1>5, <1>6, <2>1, <2>2, AwaitsFollowed
<1>8. CASE ~ k < from
  <2>1. Awaits(right, k, bound, strict)
    BY <1>8
  <2> HIDE DEF left, right
  <2> QED BY <1>5, <1>6, <2>1, AwaitsPreceded
<1> QED BY <1>7, <1>8

(* A refresh leaves every policy checked, and no fitting after its check   *)
(* touches it.                                                             *)
Checked(policies, b) ==
  \A a, k : Region(a, b) /\ k \in policies /\ k \in a..b =>
    Awaits(Tour("refresh", policies)[b][a], k, schema[k].limit, TRUE)

LEMMA RefreshedAwaits ==
  ASSUME schema \in Schemas, NEW policies \in SUBSET Policies, NEW b \in Nodes,
         NEW below \in Seq(Item(schema[b].from, b - 1)), NEW k \in policies, k \in Subtree(b),
         k # b => Awaits(below, k, schema[k].limit, TRUE)
  PROVE  Awaits(Refreshed(b, below, policies), k, schema[k].limit, TRUE)
<1> DEFINE limit == Limit(b, policies)
           T == Item(schema[b].from, b)
           u == below \o Fit(b, limit)
           v == u \o below
<1>1. schema[b].from \in Int /\ b \in Int /\ b - 1 \in Int /\ b \in schema[b].from..b /\ b - 1 =< b
      /\ b \in Subtree(b)
  BY SchemaShape DEF Subtree
<1>2. below \in Seq(T)
  <2>1. below \in Seq(Item(schema[b].from, b))
    BY <1>1, Widened
  <2> QED BY <2>1
<1>3. CASE limit = None
  <2>1. k # b
    BY <1>1, <1>3, LimitIs, SchemaShape, LossyAssumption
  <2> QED BY <1>3, <2>1 DEF Refreshed
<1>4. CASE limit # None
  <2>1. limit \in Nat /\ Owned(b, limit)
    BY <1>4, BoundsOwned
  <2>2. Fit(b, limit) \in Seq(T) /\ Check(b, limit) \in Seq(T)
    <3> HIDE DEF limit
    <3> QED BY <1>1, <2>1, FitType
  <2>3. u \in Seq(T) /\ v \in Seq(T)
    <3> HIDE DEF T, limit
    <3> QED BY <1>2, <2>2, ConcatProperties
  <2>4. Awaits(v \o Check(b, limit), k, schema[k].limit, TRUE)
    <3>1. CASE k = b
      <4>1. limit =< schema[k].limit
        BY <1>1, <3>1, LimitIs
      <4> HIDE DEF T, limit, v
      <4> QED BY <2>2, <2>3, <3>1, <4>1, AwaitsCheck
    <3>2. CASE k # b
      <4>1. Awaits(v, k, schema[k].limit, TRUE)
        <5> HIDE DEF T, limit, u
        <5> QED BY <1>2, <2>3, <3>2, AwaitsPreceded
      <4>2. Spares(Check(b, limit), k)
        BY DEF Spares, Check
      <4> HIDE DEF T, limit, v
      <4> QED BY <2>2, <2>3, <4>1, <4>2, AwaitsFollowed
    <3> QED BY <3>1, <3>2
  <2> QED BY <1>4, <2>4 DEF Refreshed
<1> QED BY <1>3, <1>4

(* What is below node b, and how far nodes before b reach.                 *)
LEMMA Above ==
  ASSUME schema \in Schemas, NEW a, NEW b \in 0..Len(schema), Region(a, b), NEW k \in Nodes, k \in a..b
  PROVE  /\ b \in Nodes /\ schema[b].from \in 1..b
         /\ Region(a, schema[b].from - 1) /\ Region(schema[b].from, b - 1)
         /\ schema[b].from - 1 \in 0..(b - 1) /\ b - 1 \in 0..(b - 1)
         /\ b - 1 \in 0..Len(schema)
         /\ k < schema[b].from => k \in a..(schema[b].from - 1)
         /\ ~ k < schema[b].from => k \in Subtree(b) /\ (k # b => k \in schema[b].from..(b - 1))
<1>1. Len(schema) \in Nat /\ Nodes = 1..Len(schema) /\ a \in Nat /\ ~ b < a
  BY SchemaShape DEF Region
<1>2. b \in Nodes /\ Region(a, schema[b].from - 1)
  BY <1>1, Regions
<1>3. schema[b].from \in 1..b /\ Region(schema[b].from, b - 1)
  BY <1>2, Regions, SchemaShape
<1> QED BY <1>1, <1>2, <1>3 DEF Subtree

LEMMA CheckedStep ==
  ASSUME schema \in Schemas, NEW policies \in SUBSET Policies, NEW b \in 0..Len(schema),
         \A c \in 0..(b - 1) : Checked(policies, c)
  PROVE  Checked(policies, b)
<1> SUFFICES ASSUME NEW a, NEW k, Region(a, b), k \in policies, k \in a..b
             PROVE  Awaits(Tour("refresh", policies)[b][a], k, schema[k].limit, TRUE)
  BY DEF Checked
<1> DEFINE from == schema[b].from
           below == Tour("refresh", policies)[b - 1][from]
<1>1. k \in Nodes
  BY SchemaShape
<1>2. /\ b \in Nodes /\ Region(a, from - 1) /\ Region(from, b - 1)
      /\ from - 1 \in 0..(b - 1) /\ b - 1 \in 0..(b - 1) /\ b - 1 \in 0..Len(schema)
      /\ k < from => k \in a..(from - 1)
      /\ ~ k < from => k \in Subtree(b) /\ (k # b => k \in from..(b - 1))
  BY <1>1, Above
<1>3. k < from => Awaits(Tour("refresh", policies)[from - 1][a], k, schema[k].limit, TRUE)
  BY <1>2 DEF Checked
<1>4. CASE ~ k < from
  <2>1. below \in Seq(Item(from, b - 1))
    BY <1>2, ToursTyped DEF Typed
  <2>2. k # b => Awaits(below, k, schema[k].limit, TRUE)
    BY <1>2, <1>4 DEF Checked
  <2>3. Awaits(Refreshed(b, below, policies), k, schema[k].limit, TRUE)
    <3> HIDE DEF below
    <3> QED BY <1>2, <1>4, <2>1, <2>2, RefreshedAwaits
  <2>4. Turned("refresh", policies, b, below) = Refreshed(b, below, policies)
    BY DEF Turned
  <2>5. Awaits(Turned("refresh", policies, b, below), k, schema[k].limit, TRUE)
    BY <2>3, <2>4
  <2> QED BY <1>1, <1>4, <2>5, TourAwaits
<1>5. CASE k < from
  BY <1>1, <1>3, <1>5, TourAwaits
<1> QED BY <1>4, <1>5

LEMMA RefreshAwaits ==
  ASSUME schema \in Schemas, NEW k \in Policies
  PROVE  Awaits(RefreshAll(1, Len(schema), Policies), k, schema[k].limit, TRUE)
<1> DEFINE S == {b \in 0..Len(schema) : Checked(Policies, b)}
<1>1. Len(schema) \in Nat /\ Region(1, Len(schema)) /\ k \in 1..Len(schema)
  BY SchemaShape, Regions
<1>2. ASSUME NEW b \in 0..Len(schema), \A c \in 0..(b - 1) : c \in S PROVE b \in S
  BY <1>2, CheckedStep
<1>3. Checked(Policies, Len(schema))
  <2> HIDE DEF S
  <2>1. \A b \in 0..Len(schema) : b \in S
    BY <1>1, <1>2, StrongInduction
  <2> QED BY <1>1, <2>1 DEF S
<1>4. Awaits(Tour("refresh", Policies)[Len(schema)][1], k, schema[k].limit, TRUE)
  BY <1>1, <1>3 DEF Checked
<1> QED BY <1>4, RefreshTour

-----------------------------------------------------------------------------
(* A checkpoint brings every outermost policy within its soft target.      *)
Outer == Policies \cap Roots
Softened(kind, b) ==
  \A a, k : Region(a, b) /\ k \in Outer /\ k \in a..b =>
    Awaits(Tour(kind, Policies)[b][a], k, SoftTarget(schema[k].limit), FALSE)

LEMMA TurnedAwaits ==
  ASSUME schema \in Schemas, NEW kind \in {"compile", "relieve"}, NEW b \in Policies,
         NEW below \in Seq(Item(schema[b].from, b - 1))
  PROVE  Awaits(Turned(kind, Policies, b, below), b, SoftTarget(schema[b].limit), FALSE)
<1> DEFINE limit == schema[b].limit
           T == Item(schema[b].from, b)
           again == RefreshAll(schema[b].from, b - 1, Policies \cap Below(b))
<1>1. /\ b \in Nodes /\ schema[b].from \in Int /\ b \in Int /\ b - 1 \in Int
      /\ b \in schema[b].from..b /\ b - 1 =< b /\ b \in Subtree(b)
      /\ limit \in Nat /\ Owned(b, limit)
      /\ b - 1 \in 0..Len(schema)
  <2>1. b \in Nodes /\ limit \in Nat /\ Owned(b, limit)
    BY SchemaShape, BoundsOwned
  <2>2. /\ b \in 1..Len(schema) /\ Len(schema) \in Nat /\ schema[b].from \in 1..b
    BY <2>1, SchemaShape
  <2> QED BY <2>1, <2>2 DEF Subtree
<1>2. below \in Seq(T)
  <2>1. below \in Seq(Item(schema[b].from, b))
    BY <1>1, Widened
  <2> QED BY <2>1
<1>3. CASE kind = "compile"
  <2>1. again \in Seq(T)
    <3>1. Policies \cap Below(b) \in SUBSET Policies /\ Region(schema[b].from, b - 1)
      BY <1>1, Regions
    <3>2. Tour("refresh", Policies \cap Below(b))[b - 1][schema[b].from] \in Seq(Item(schema[b].from, b - 1))
      BY <1>1, <3>1, ToursTyped DEF Typed
    <3>3. again \in Seq(Item(schema[b].from, b - 1))
      BY <3>2, RefreshTour
    <3> HIDE DEF again
    <3>4. again \in Seq(Item(schema[b].from, b))
      BY <1>1, <3>3, Widened
    <3> QED BY <3>4
  <2>2. Fit(b, limit) \in Seq(T) /\ Check(b, limit) \in Seq(T)
    <3> HIDE DEF limit
    <3> QED BY <1>1, FitType
  <2>3. below \o Fit(b, limit) \o again \in Seq(T)
    <3> HIDE DEF T, limit, again
    <3> QED BY <1>2, <2>1, <2>2, ConcatProperties
  <2>4. limit =< SoftTarget(limit)
    BY <1>1, SoftTargetIs
  <2>5. Awaits(below \o Fit(b, limit) \o again \o Check(b, limit), b, SoftTarget(limit), FALSE)
    <3> DEFINE u == below \o Fit(b, limit) \o again
    <3>1. u \in Seq(T)
      BY <2>3
    <3> HIDE DEF T, limit, u
    <3>2. Awaits(u \o Check(b, limit), b, SoftTarget(limit), FALSE)
      BY <2>2, <2>4, <3>1, AwaitsCheck
    <3> QED BY <3>2 DEF u
  <2> QED BY <1>3, <2>5 DEF Turned, Compiled
<1>4. CASE kind = "relieve"
  <2> DEFINE tight == Limit(b, Policies)
  <2>1. tight \in Nat /\ tight =< limit /\ tight # None
    BY <1>1, LimitIs, LossyAssumption
  <2>2. SoftTarget(tight) \in Nat /\ SoftTarget(tight) =< SoftTarget(limit)
    <3> HIDE DEF tight, limit
    <3> QED BY <1>1, <2>1, SoftTargetIs
  <2>3. Fit(b, SoftTarget(tight)) \in Seq(T)
    <3>1. Owned(b, SoftTarget(tight))
      BY <1>1, <2>1, BoundsOwned
    <3> HIDE DEF tight
    <3> QED BY <1>1, <2>2, <3>1, FitType
  <2>4. Awaits(below \o Fit(b, SoftTarget(tight)), b, SoftTarget(limit), FALSE)
    <3> HIDE DEF tight, limit, T
    <3> QED BY <1>2, <2>2, <2>3, AwaitsFit
  <2> QED BY <1>4, <2>1, <2>4 DEF Turned, Relieving
<1> QED BY <1>3, <1>4

LEMMA SoftenedStep ==
  ASSUME schema \in Schemas, NEW kind \in {"compile", "relieve"}, NEW b \in 0..Len(schema),
         \A c \in 0..(b - 1) : Softened(kind, c)
  PROVE  Softened(kind, b)
<1> SUFFICES ASSUME NEW a, NEW k, Region(a, b), k \in Outer, k \in a..b
             PROVE  Awaits(Tour(kind, Policies)[b][a], k, SoftTarget(schema[k].limit), FALSE)
  BY DEF Softened
<1> DEFINE from == schema[b].from
           below == Tour(kind, Policies)[b - 1][from]
<1>1. k \in Nodes /\ k \in Policies /\ Policies \in SUBSET Policies
  BY SchemaShape DEF Outer
<1>2. /\ b \in Nodes /\ Region(a, from - 1) /\ Region(from, b - 1)
      /\ from - 1 \in 0..(b - 1) /\ b - 1 \in 0..Len(schema)
      /\ k < from => k \in a..(from - 1)
      /\ ~ k < from => k \in Subtree(b)
  BY <1>1, Above
<1>3. CASE k < from
  <2>1. Awaits(Tour(kind, Policies)[from - 1][a], k, SoftTarget(schema[k].limit), FALSE)
    BY <1>2, <1>3 DEF Softened
  <2> QED BY <1>1, <1>3, <2>1, TourAwaits
<1>4. CASE ~ k < from
  <2>1. k = b
    BY <1>2, <1>4 DEF Outer, Roots
  <2>2. below \in Seq(Item(from, b - 1))
    BY <1>1, <1>2, ToursTyped DEF Typed
  <2>3. Awaits(Turned(kind, Policies, b, below), k, SoftTarget(schema[k].limit), FALSE)
    <3> HIDE DEF below
    <3> QED BY <1>1, <2>1, <2>2, TurnedAwaits
  <2> QED BY <1>1, <1>4, <2>3, TourAwaits
<1> QED BY <1>3, <1>4

LEMMA SoftAwaits ==
  ASSUME schema \in Schemas, NEW k \in Outer
  PROVE  /\ Awaits(CompileAll, k, SoftTarget(schema[k].limit), FALSE)
         /\ Awaits(RelieveAll, k, SoftTarget(schema[k].limit), FALSE)
<1>1. Len(schema) \in Nat /\ Region(1, Len(schema)) /\ k \in 1..Len(schema)
  BY SchemaShape, Regions DEF Outer
<1>2. ASSUME NEW kind \in {"compile", "relieve"}
      PROVE  Awaits(Tour(kind, Policies)[Len(schema)][1], k, SoftTarget(schema[k].limit), FALSE)
  <2> DEFINE S == {b \in 0..Len(schema) : Softened(kind, b)}
  <2>1. ASSUME NEW b \in 0..Len(schema), \A c \in 0..(b - 1) : c \in S PROVE b \in S
    BY <2>1, SoftenedStep
  <2>2. Softened(kind, Len(schema))
    <3> HIDE DEF S
    <3>1. \A b \in 0..Len(schema) : b \in S
      BY <1>1, <2>1, StrongInduction
    <3> QED BY <1>1, <3>1 DEF S
  <2> QED BY <1>1, <2>2 DEF Softened
<1>3. /\ CompileAll = Tour("compile", Policies)[Len(schema)][1]
      /\ RelieveAll = Tour("relieve", Policies)[Len(schema)][1]
  BY CompileTour, RelieveTour
<1> QED BY <1>2, <1>3

-----------------------------------------------------------------------------
(* Every entry a leaf has stored is held by its current generation.        *)
Kept ==
  \A s \in Leaves, id \in Ids :
    /\ <<s, Missing, id>> \in stored => id \in wild[s]
    /\ \A v \in Values : <<s, v, id>> \in stored => Holds(s, gen[s], v, id)

(* What remains to be fitted asks no more than an owner's limit does.      *)
Owed == work \in Seq(Item(1, Len(schema)))

IInv == TypeOK /\ PreparedCurrent /\ Kept /\ Owed

LEMMA OwedSame ==
  ASSUME schema \in Schemas, schema' = schema, work' \in Seq(Item(1, Len(schema)))
  PROVE  Owed' /\ work' \in Seq([node : Nodes, bound : Nat, check : BOOLEAN])
<1>1. Item(1, Len(schema))' = Item(1, Len(schema))
  BY DEF Item, Owned, Policies, Nodes, Subtree
<1> QED BY <1>1, ItemsWork DEF Owed

LEMMA InitIInv == Init => IInv
<1> SUFFICES ASSUME Init PROVE IInv
  OBVIOUS
<1>1. \A s \in Leaves : WellFormed(s, gen[s])
  <2>1. 0 \in 0..Terminal
    BY LossyAssumption
  <2> QED BY <2>1 DEF Init, Empty, WellFormed
<1>2. 0 \in 0..MaxEntries
  BY LossyAssumption
<1>3. TypeOK
  <2>1. work \in Seq([node : Nodes, bound : Nat, check : BOOLEAN])
    BY EmptySeq DEF Init
  <2> QED BY <1>1, <1>2, <2>1 DEF Init, TypeOK
<1>4. PreparedCurrent /\ Kept /\ Owed
  BY EmptySeq DEF Init, PreparedCurrent, Kept, Owed
<1> QED BY <1>3, <1>4 DEF IInv

(* An entry goes into every leaf; what was prepared is dropped.            *)
LEMMA InsertKeeps ==
  ASSUME IInv, NEW value \in [Leaves -> Values \cup {Missing}], NEW id \in Assignable,
         Insert(value, id)
  PROVE  IInv'
<1>1. /\ schema' = schema /\ Leaves' = Leaves /\ Nodes' = Nodes /\ id \in Ids
      /\ gen' = [s \in Leaves |->
               IF value[s] = Missing THEN gen[s]
               ELSE Stored(s, gen[s], StoreKey(s, value[s]), id)]
      /\ wild' = [s \in Leaves |-> IF value[s] = Missing THEN wild[s] \cup {id} ELSE wild[s]]
      /\ prepared' = [s \in Leaves |-> None]
      /\ stored' = stored \cup {<<s, value[s], id>> : s \in Leaves}
  BY DEF Insert, Leaves, Nodes, Assignable
<1>2. ASSUME NEW s \in Leaves
      PROVE  /\ WellFormed(s, gen'[s])
             /\ \A v \in Values, i \in Ids : Holds(s, gen[s], v, i) => Holds(s, gen'[s], v, i)
             /\ value[s] # Missing => value[s] \in Values /\ Holds(s, gen'[s], value[s], id)
  <2>1. WellFormed(s, gen[s])
    BY DEF IInv, TypeOK
  <2>2. CASE value[s] = Missing
    BY <1>1, <2>1, <2>2
  <2>3. CASE value[s] # Missing
    <3> DEFINE k == StoreKey(s, value[s])
               h == Stored(s, gen[s], k, id)
    <3>1. value[s] \in Values /\ gen'[s] = h
      BY <1>1, <2>3
    <3>2. k \in KeysAt(s, gen[s].level) /\ Covers(s, gen[s].level, k, value[s])
      BY <2>1, <3>1, StoreKeyCovers
    <3> HIDE DEF k
    <3>3. /\ WellFormed(s, h) /\ h.level = gen[s].level
          /\ k \in DOMAIN h.sets /\ id \in h.sets[k].ids
          /\ \A c \in DOMAIN gen[s].sets :
               c \in DOMAIN h.sets /\ gen[s].sets[c].ids \subseteq h.sets[c].ids
      BY <1>1, <2>1, <3>2, StoredKeeps
    <3> HIDE DEF h
    <3> QED BY <3>1, <3>2, <3>3 DEF Holds
  <2> QED BY <2>2, <2>3
<1>3. TypeOK'
  <2>1. \A s \in Leaves : WellFormed(s, gen[s])'
    BY <1>1, <1>2 DEF WellFormed, KeysAt, IsEquality
  <2>2. wild' \in [Leaves -> SUBSET Ids]
    BY <1>1 DEF IInv, TypeOK
  <2>3. stored' \subseteq Leaves \X (Values \cup {Missing}) \X Ids
    BY <1>1 DEF IInv, TypeOK
  <2>4. entries' \in 0..MaxEntries /\ pc' \in {"reading", "checkpoint"}
    BY LossyAssumption DEF IInv, TypeOK, Insert
  <2>5. UNCHANGED <<schema, streaming, finished, work>>
    BY DEF Insert
  <2> QED BY <1>1, <2>1, <2>2, <2>3, <2>4, <2>5 DEF IInv, TypeOK
<1>4. PreparedCurrent'
  BY <1>1 DEF PreparedCurrent
<1>5. Kept'
  <2>1. ASSUME NEW s \in Leaves, NEW i \in Ids, <<s, Missing, i>> \in stored' PROVE i \in wild'[s]
    BY <1>1, <2>1 DEF IInv, Kept
  <2>2. ASSUME NEW s \in Leaves, NEW i \in Ids, NEW v \in Values, <<s, v, i>> \in stored'
        PROVE  Holds(s, gen'[s], v, i)
    <3>1. CASE <<s, v, i>> \in stored
      BY <1>2, <3>1 DEF IInv, Kept
    <3>2. CASE v = value[s] /\ i = id
      BY <1>2, <3>2, LossyAssumption
    <3> QED BY <1>1, <2>2, <3>1, <3>2
  <2>3. \A s \in Leaves, i \in Ids, v \in Values : <<s, v, i>> \in stored' => Holds(s, gen[s], v, i)'
    BY <1>1, <2>2 DEF Holds, Covers, IsEquality, Outward
  <2> QED BY <1>1, <2>1, <2>3 DEF Kept
<1>6. Owed'
  BY <1>1, OwedSame DEF Insert, IInv, TypeOK, Owed
<1> QED BY <1>3, <1>4, <1>5, <1>6 DEF IInv

(* Preparing generations and every other step that leaves the leaves as    *)
(* they are.                                                               *)
LEMMA QuietKeeps ==
  ASSUME IInv, UNCHANGED <<schema, gen, wild, stored>>,
         DOMAIN prepared' = Leaves,
         \A s \in Leaves : prepared'[s] \in {prepared[s], Prepared(s)},
         entries' = entries, streaming' \in BOOLEAN, finished' \in BOOLEAN,
         work' \in Seq(Item(1, Len(schema))),
         pc' \in {"reading", "checkpoint", "fitting", "published", "failed"}
  PROVE  IInv'
<1>1. Leaves' = Leaves /\ Nodes' = Nodes
  BY DEF Leaves, Nodes
<1>2. TypeOK'
  <2>1. \A s \in Leaves : WellFormed(s, gen[s])'
    BY <1>1 DEF IInv, TypeOK, WellFormed, KeysAt, IsEquality
  <2>2. work' \in Seq([node : Nodes, bound : Nat, check : BOOLEAN])
    BY OwedSame DEF IInv, TypeOK
  <2> QED BY <1>1, <2>1, <2>2 DEF IInv, TypeOK
<1>3. \A s \in Leaves : prepared'[s] # None => prepared'[s] = Coarser(s, gen[s])
  BY DEF IInv, PreparedCurrent, Prepared
<1>4. \A s \in Leaves : Coarser(s, gen[s])' = Coarser(s, gen[s])
  BY DEF Coarser, IsEquality, Rehashed, MergedPair
<1>5. PreparedCurrent'
  BY <1>1, <1>3, <1>4 DEF PreparedCurrent
<1>6. Kept'
  BY <1>1 DEF IInv, Kept, Holds, Covers, IsEquality, Outward
<1>7. Owed'
  BY OwedSame DEF IInv, TypeOK
<1> QED BY <1>2, <1>5, <1>6, <1>7 DEF IInv

(* fitStreamingNext publishes the prepared generation of one leaf.         *)
LEMMA CoarsenKeeps == ASSUME IInv, Coarsen PROVE IInv'
<1> DEFINE node == Head(work).node
<1>1. PICK s \in Selected(node) :
        /\ gen' = [gen EXCEPT ![s] = Prepared(s)]
        /\ prepared' = [t \in Leaves |->
             IF t = s THEN None
             ELSE IF t \in LeavesOf(node) THEN Prepared(t) ELSE prepared[t]]
  BY DEF Coarsen
<1>2. /\ UNCHANGED <<schema, wild, stored, entries, streaming, finished, work, pc>>
      /\ Leaves' = Leaves /\ Nodes' = Nodes
  BY DEF Coarsen, Leaves, Nodes
<1>3. s \in Leaves /\ Prepared(s) # None /\ Prepared(s) = Coarser(s, gen[s])
  BY DEF Selected, Candidates, LeavesOf, Prepared, IInv, PreparedCurrent
<1>4. /\ WellFormed(s, gen'[s])
      /\ \A v \in Values, id \in Ids : Holds(s, gen[s], v, id) => Holds(s, gen'[s], v, id)
      /\ \A t \in Leaves \ {s} : gen'[t] = gen[t]
      /\ DOMAIN gen' = Leaves
  BY <1>1, <1>3, CoarserKeeps DEF IInv, TypeOK
<1>5. TypeOK'
  <2>1. \A t \in Leaves : WellFormed(t, gen'[t])
    BY <1>4 DEF IInv, TypeOK
  <2>2. \A t \in Leaves : WellFormed(t, gen[t])'
    BY <1>2, <2>1 DEF WellFormed, KeysAt, IsEquality
  <2>3. DOMAIN prepared' = Leaves
    BY <1>1
  <2> QED BY <1>2, <1>4, <2>2, <2>3 DEF IInv, TypeOK
<1>6. PreparedCurrent'
  <2>1. \A t \in Leaves : prepared'[t] # None => t # s /\ prepared'[t] = Coarser(t, gen[t])
    BY <1>1 DEF IInv, PreparedCurrent, Prepared
  <2>2. ASSUME NEW t \in Leaves \ {s} PROVE Coarser(t, gen[t])' = Coarser(t, gen[t])
    <3>1. gen'[t] = gen[t] /\ schema' = schema
      BY <1>2, <1>4
    <3> QED BY <3>1 DEF Coarser, IsEquality, MergedPair
  <2> QED BY <1>2, <2>1, <2>2 DEF PreparedCurrent
<1>7. Kept'
  <2>1. \A t \in Leaves, v \in Values, id \in Ids :
          <<t, v, id>> \in stored => Holds(t, gen'[t], v, id)
    BY <1>4 DEF IInv, Kept
  <2>2. \A t \in Leaves, v \in Values, id \in Ids :
          <<t, v, id>> \in stored => Holds(t, gen[t], v, id)'
    BY <1>2, <2>1 DEF Holds, Covers, IsEquality, Outward
  <2> QED BY <1>2, <2>2 DEF IInv, Kept
<1>8. Owed'
  BY <1>2, OwedSame DEF IInv, TypeOK, Owed
<1> QED BY <1>5, <1>6, <1>7, <1>8 DEF IInv

(* What remains is the work after a settled prefix.                        *)
LEMMA UnsettledIs ==
  ASSUME IInv, work # <<>>, Settled(Head(work))
  PROVE  /\ Unsettled \in Seq(Item(1, Len(schema)))
         /\ \E k \in 1..Len(work) :
              /\ \A n \in 1..k : Settled(work[n])
              /\ Len(Unsettled) = Len(work) - k
              /\ \A n \in 1..(Len(work) - k) : Unsettled[n] = work[n + k]
<1> DEFINE T == Item(1, Len(schema))
           stuck == {n \in DOMAIN work : ~Settled(work[n])}
<1>1. work \in Seq(T)
  BY DEF IInv, Owed
<1> HIDE DEF T
<1>2. Len(work) \in Nat \ {0} /\ DOMAIN work = 1..Len(work) /\ Settled(work[1])
  BY <1>1, LenProperties, EmptySeq
<1>3. CASE stuck = {}
  <2>1. Unsettled = <<>>
    BY <1>3 DEF Unsettled
  <2>2. /\ Len(work) \in 1..Len(work) /\ Unsettled \in Seq(T)
        /\ \A n \in 1..Len(work) : Settled(work[n])
        /\ Len(Unsettled) = Len(work) - Len(work)
        /\ \A n \in 1..(Len(work) - Len(work)) : Unsettled[n] = work[n + Len(work)]
    BY <1>2, <1>3, <2>1, EmptySeq
  <2> QED BY <2>2 DEF T
<1>4. CASE stuck # {}
  <2> DEFINE m == Min(stuck)
  <2>1. Unsettled = SubSeq(work, m, Len(work))
    BY <1>4 DEF Unsettled
  <2>2. m \in stuck /\ \A n \in stuck : m =< n
    <3>1. stuck \subseteq Nat
      BY <1>2
    <3> HIDE DEF stuck
    <3>2. \E x \in stuck : \A n \in stuck : x =< n
      BY <1>4, <3>1, LeastNatural
    <3> QED BY <3>2 DEF Min
  <2>3. m \in 1..Len(work) /\ m # 1 /\ m - 1 \in 1..Len(work)
    BY <1>2, <2>2
  <2>4. ASSUME NEW n \in 1..(m - 1) PROVE Settled(work[n])
    <3>1. n \in DOMAIN work /\ ~ m =< n
      BY <1>2, <2>3
    <3>2. n \notin stuck
      BY <2>2, <3>1
    <3> QED BY <3>1, <3>2
  <2> HIDE DEF m, stuck
  <2>5. \A n \in m..Len(work) : work[n] \in T
    BY <1>1, <1>2, <2>3, ElementOfSeq
  <2>6. /\ SubSeq(work, m, Len(work)) \in Seq(T)
        /\ Len(SubSeq(work, m, Len(work))) = Len(work) - m + 1
        /\ \A n \in 1..(Len(work) - m + 1) : SubSeq(work, m, Len(work))[n] = work[m + n - 1]
    BY <1>2, <2>3, <2>5, SubSeqProperties
  <2>7. /\ Len(Unsettled) = Len(work) - (m - 1)
        /\ \A n \in 1..(Len(work) - (m - 1)) : Unsettled[n] = work[n + (m - 1)]
    BY <1>2, <2>1, <2>3, <2>6
  <2> QED BY <2>1, <2>3, <2>4, <2>6, <2>7 DEF T
<1> QED BY <1>3, <1>4

LEMMA InvInductive == IInv /\ [Next]_vars => IInv'
<1> SUFFICES ASSUME IInv, [Next]_vars PROVE IInv'
  OBVIOUS
<1>1. ASSUME NEW value \in [Leaves -> Values \cup {Missing}], NEW id \in Assignable,
             Insert(value, id)
      PROVE  IInv'
  BY <1>1, InsertKeeps
<1>2. CASE Checkpoint
  <2>0. work' \in Seq(Item(1, Len(schema)))
    BY <1>2, WorkType DEF Checkpoint, IInv, TypeOK
  <2>1. streaming' \in BOOLEAN
    BY <1>2 DEF Checkpoint, IInv, TypeOK
  <2>2. /\ DOMAIN prepared' = Leaves
        /\ \A s \in Leaves : prepared'[s] \in {prepared[s], Prepared(s)}
    BY <1>2 DEF Checkpoint
  <2> QED BY <1>2, <2>0, <2>1, <2>2, QuietKeeps DEF Checkpoint, IInv, TypeOK
<1>3. CASE Finish
  <2>1. work' \in Seq(Item(1, Len(schema)))
    <3> DEFINE T == Item(1, Len(schema))
    <3>1. /\ (IF streaming THEN <<>> ELSE CompileAll) \in Seq(T)
          /\ RefreshAll(1, Len(schema), Policies) \in Seq(T)
      BY WorkType DEF IInv, TypeOK
    <3> HIDE DEF T
    <3>2. work' \in Seq(T)
      BY <1>3, <3>1, ConcatProperties DEF Finish
    <3> QED BY <3>2 DEF T
  <2> QED BY <1>3, <2>1, QuietKeeps DEF Finish, IInv, TypeOK
<1>4. CASE Coarsen
  BY <1>4, CoarsenKeeps
<1>5. CASE Settle
  <2>1. /\ DOMAIN prepared' = Leaves
        /\ \A s \in Leaves : prepared'[s] \in {prepared[s], Prepared(s)}
    BY <1>5 DEF Settle
  <2>2. work' \in Seq(Item(1, Len(schema)))
    BY <1>5, UnsettledIs DEF Settle
  <2> QED BY <1>5, <2>1, <2>2, QuietKeeps DEF Settle, IInv, TypeOK
<1>6. CASE Fail
  BY <1>6, QuietKeeps DEF Fail, IInv, TypeOK, Owed
<1>7. CASE Resume
  BY <1>7, QuietKeeps DEF Resume, IInv, TypeOK, Owed
<1>8. CASE Done \/ UNCHANGED vars
  BY <1>8, QuietKeeps DEF Done, vars, IInv, TypeOK, Owed
<1> QED BY <1>1, <1>2, <1>3, <1>4, <1>5, <1>6, <1>7, <1>8 DEF Next

LEMMA AlwaysIInv == Spec => []IInv
BY InitIInv, InvInductive, PTL DEF Spec

-----------------------------------------------------------------------------
(* Generations stay well formed through every insertion, checkpoint and    *)
(* fitting: levels up to the terminal one, keys of their level, postings   *)
(* of assigned IDs (eqRule, orderedRule, streamingAdaptiveLeaf).           *)
THEOREM LossyTypeCorrect == Spec => []TypeOK
<1>1. IInv => TypeOK
  BY DEF IInv
<1> QED BY <1>1, AlwaysIInv, PTL

(* nextStreamingUsage keeps a generation it has computed only while the    *)
(* leaf does not change: what is published is never out of date.           *)
THEOREM PreparedCurrentHolds == Spec => []PreparedCurrent
<1>1. IInv => PreparedCurrent
  BY DEF IInv
<1> QED BY <1>1, AlwaysIInv, PTL

(* A query that a stored value meets, and the boundary that covers the     *)
(* value, meet as well.                                                    *)
LEMMA CoversMatch ==
  ASSUME NEW s, NEW level, NEW k, k \in Nat, NEW v \in Values, NEW q \in Values,
         NEW inclusive \in BOOLEAN, ~IsEquality(s),
         Covers(s, level, k, v), Matches(s, v, q, inclusive)
  PROVE  Matches(s, k, q, inclusive)
<1>1. v \in Nat /\ q \in Nat
  BY LossyAssumption
<1> QED BY <1>1 DEF Covers, Matches, Outward

(* "Never omit an exact match" (lossy.go:22-24): whatever the schema, the  *)
(* order of the entries, the hashes and the limits, each leaf answers a    *)
(* query with at least the rules whose value meets it, at every moment.    *)
THEOREM NoMatchLostHolds == Spec => []NoMatchLost
<1>1. IInv => NoMatchLost
  <2> SUFFICES ASSUME IInv, NEW s \in Leaves, NEW q \in Values, NEW inclusive \in BOOLEAN,
                      NEW id \in Required(s, q, inclusive)
               PROVE  id \in Answer(s, q, inclusive)
    BY DEF NoMatchLost
  <2> DEFINE g == gen[s]
             keys == IF IsEquality(s) THEN {HashKey(g.level, q)}
                     ELSE {b \in DOMAIN g.sets : Matches(s, b, q, inclusive)}
  <2>1. Answer(s, q, inclusive) = wild[s] \cup UNION {g.sets[k].ids : k \in keys \cap DOMAIN g.sets}
    BY DEF Answer
  <2>2. CASE <<s, Missing, id>> \in stored
    BY <2>1, <2>2 DEF IInv, Kept, Required
  <2>3. ASSUME NEW v \in Values, <<s, v, id>> \in stored, Matches(s, v, q, inclusive)
        PROVE  id \in Answer(s, q, inclusive)
    <3>1. PICK k \in DOMAIN g.sets : Covers(s, g.level, k, v) /\ id \in g.sets[k].ids
      BY <2>3 DEF IInv, Kept, Holds, Required
    <3>2. CASE IsEquality(s)
      <4>1. k \in keys
        BY <2>3, <3>1, <3>2 DEF Covers, Matches
      <4> QED BY <2>1, <3>1, <4>1
    <3>3. CASE ~IsEquality(s)
      <4>1. k \in Nat
        BY <3>1, <3>3, LossyAssumption DEF IInv, TypeOK, WellFormed, KeysAt
      <4>2. k \in keys
        BY <2>3, <3>1, <3>3, <4>1, CoversMatch
      <4> QED BY <2>1, <3>1, <4>2
    <3> QED BY <3>2, <3>3
  <2> QED BY <2>2, <2>3 DEF Required
<1> QED BY <1>1, AlwaysIInv, PTL

-----------------------------------------------------------------------------
(* Accounted memory.                                                       *)

LEMMA SetBytesType ==
  ASSUME NEW set \in [ids : SUBSET Ids, compact : BOOLEAN]
  PROVE  SetBytes(set) \in Nat
<1>1. set.ids \in SUBSET Ids
  OBVIOUS
<1>2. Cardinality(set.ids) \in Nat /\ Bytes(set.ids) \in Nat
  BY <1>1, IdsFinite, BytesType
<1> QED BY <1>2 DEF SetBytes

LEMMA LeafBytesType ==
  ASSUME NEW s, NEW g, WellFormed(s, g), wild[s] \in SUBSET Ids
  PROVE  LeafBytes(s, g) \in Nat
<1> DEFINE D == DOMAIN g.sets
           key == IF IsEquality(s) /\ g.level > 0 THEN HashBytes ELSE KeyBytes
           f == [k \in D |-> SetBytes(g.sets[k]) + key]
           ids == UNION {g.sets[k].ids : k \in D}
<1>1. IsFiniteSet(D)
  <2>1. IsFiniteSet(Values) /\ HashBits \in Nat
    BY LossyAssumption
  <2>2. IsFiniteSet(SUBSET (0..(HashBits - 1)))
    <3>1. 0 \in Int /\ HashBits - 1 \in Int
      BY <2>1
    <3>2. IsFiniteSet(0..(HashBits - 1))
      BY <3>1, FS_Interval
    <3> QED BY <3>2, FS_SUBSET
  <2>3. D \subseteq Values \/ D \subseteq SUBSET (0..(HashBits - 1))
    BY DEF WellFormed, KeysAt
  <2> QED BY <2>1, <2>2, <2>3, FS_Subset
<1>2. f \in [D -> Nat]
  <2>1. key \in Nat
    BY LossyAssumption
  <2>2. \A k \in D : SetBytes(g.sets[k]) \in Nat
    BY SetBytesType DEF WellFormed
  <2> HIDE DEF key
  <2> QED BY <2>1, <2>2
<1>3. SumFunction(f) \in Nat
  <2>1. SumFunctionOnSet(f, D) \in Nat
    <3> HIDE DEF f, D
    <3> QED BY <1>1, <1>2, SumType
  <2> QED BY <2>1 DEF SumFunction
<1>4. Bytes(wild[s]) \in Nat /\ Bytes(ids) \in Nat
  <2>1. ids \in SUBSET Ids
    BY DEF WellFormed
  <2> HIDE DEF ids
  <2> QED BY <2>1, BytesType
<1> DEFINE extra == IF ~IsEquality(s) /\ Cardinality(D) > 1 THEN Bytes(ids) ELSE 0
<1>5. PostingBytes(s, g) = SumFunction(f) + extra
  BY DEF PostingBytes
<1>6. extra \in Nat
  BY <1>4
<1> HIDE DEF f, extra
<1> QED BY <1>3, <1>4, <1>5, <1>6 DEF LeafBytes

LEMMA UsageParts ==
  ASSUME IInv, NEW i
  PROVE  /\ IsFiniteSet(LeavesOf(i))
         /\ [s \in LeavesOf(i) |-> LeafBytes(s, gen[s])] \in [LeavesOf(i) -> Nat]
<1>1. IsFiniteSet(LeavesOf(i))
  <2>1. Nodes = 1..Len(schema) /\ Len(schema) \in Int
    BY SchemaShape DEF IInv, TypeOK
  <2>2. IsFiniteSet(Nodes)
    BY <2>1, FS_Interval
  <2>3. LeavesOf(i) \subseteq Nodes
    BY DEF LeavesOf, Leaves
  <2> QED BY <2>2, <2>3, FS_Subset
<1>2. ASSUME NEW s \in LeavesOf(i) PROVE LeafBytes(s, gen[s]) \in Nat
  <2>1. WellFormed(s, gen[s]) /\ wild[s] \in SUBSET Ids
    BY DEF IInv, TypeOK, LeavesOf
  <2> QED BY <2>1, LeafBytesType
<1> QED BY <1>1, <1>2

LEMMA UsageType == ASSUME IInv, NEW i PROVE Usage(i) \in Nat
<1> DEFINE S == LeavesOf(i)
           f == [s \in S |-> LeafBytes(s, gen[s])]
<1>1. IsFiniteSet(S) /\ f \in [S -> Nat]
  BY UsageParts
<1>2. SumFunctionOnSet(f, S) \in Nat
  <2> HIDE DEF f, S
  <2> QED BY <1>1, SumType
<1> QED BY <1>2 DEF Usage, SumFunction

(* A part of a node's leaves uses no more than the node.                   *)
LEMMA UsageWithin ==
  ASSUME IInv, NEW i, NEW k, LeavesOf(i) \subseteq LeavesOf(k)
  PROVE  Usage(i) =< Usage(k)
<1> DEFINE W == LeavesOf(k)
           S == LeavesOf(i)
           f == [s \in W |-> LeafBytes(s, gen[s])]
           g == [s \in S |-> LeafBytes(s, gen[s])]
<1>1. IsFiniteSet(W) /\ f \in [W -> Nat]
  BY UsageParts
<1>2. S \in SUBSET W /\ DOMAIN g = S /\ \A s \in S : g[s] = f[s]
  OBVIOUS
<1>3. SumFunction(g) =< SumFunction(f)
  <2> HIDE DEF W, S, f, g
  <2> QED BY <1>1, <1>2, SumWithin
<1> QED BY <1>3 DEF Usage

(* A node without a changed leaf uses what it used, and can be coarsened   *)
(* as it could.                                                            *)
Spent(i) == \A s \in LeavesOf(i) : Coarser(s, gen[s]) = None

LEMMA NodeSame ==
  ASSUME UNCHANGED <<schema, wild>>, NEW i, \A s \in LeavesOf(i) : gen'[s] = gen[s]
  PROVE  Usage(i)' = Usage(i) /\ (Spent(i)' <=> Spent(i))
<1>1. LeavesOf(i)' = LeavesOf(i)
  BY DEF LeavesOf, Leaves, Nodes, Subtree
<1>2. ASSUME NEW s \in LeavesOf(i)
      PROVE  /\ LeafBytes(s, gen[s])' = LeafBytes(s, gen[s])
             /\ Coarser(s, gen[s])' = Coarser(s, gen[s])
  BY DEF LeafBytes, PostingBytes, Coarser, IsEquality, MergedPair
<1>3. Usage(i)' = Usage(i)
  BY <1>1, <1>2 DEF Usage
<1>4. Spent(i)' <=> Spent(i)
  BY <1>1, <1>2 DEF Spent
<1> QED BY <1>3, <1>4

-----------------------------------------------------------------------------
(* A policy is due: it will be brought under the bound, or has been, and   *)
(* no fitting that could disturb it is left.                               *)
Due(i, bound, strict) ==
  \/ Awaits(work, i, bound, strict)
  \/ /\ Spares(work, i)
     /\ Usage(i) =< bound \/ (~strict /\ Spent(i))

LEMMA DueCoarsened ==
  ASSUME IInv, Coarsen, NEW i, NEW bound, NEW strict, Due(i, bound, strict)
  PROVE  Due(i, bound, strict)'
<1>1. /\ UNCHANGED <<schema, wild, work>>
      /\ work # <<>> /\ ~Head(work).check
      /\ \E s \in Selected(Head(work).node) : gen' = [gen EXCEPT ![s] = Prepared(s)]
  BY DEF Coarsen
<1>2. CASE Awaits(work, i, bound, strict)
  <2>1. Awaits(work, i, bound, strict)'
    BY <1>1, <1>2 DEF Awaits, Apart, Subtree
  <2> QED BY <2>1 DEF Due
<1>3. CASE Spares(work, i) /\ (Usage(i) =< bound \/ (~strict /\ Spent(i)))
  <2>1. Spares(work, i)'
    BY <1>1, <1>3 DEF Spares, Apart, Subtree
  <2>2. Apart(Head(work).node, i)
    <3> DEFINE T == [node : Nodes, bound : Nat, check : BOOLEAN]
    <3>1. work \in Seq(T)
      BY DEF IInv, TypeOK
    <3> HIDE DEF T
    <3>2. Len(work) \in Nat \ {0} /\ Head(work) = work[1]
      BY <1>1, <3>1, EmptySeq
    <3> QED BY <1>1, <1>3, <3>2 DEF Spares
  <2>3. \A t \in LeavesOf(i) : gen'[t] = gen[t]
    <3>1. PICK s \in Selected(Head(work).node) : gen' = [gen EXCEPT ![s] = Prepared(s)]
      BY <1>1
    <3>2. s \notin LeavesOf(i)
      BY <2>2 DEF Selected, Candidates, LeavesOf, Apart
    <3>3. DOMAIN gen = Leaves
      BY DEF IInv, TypeOK
    <3> QED BY <3>1, <3>2, <3>3 DEF LeavesOf
  <2>4. Usage(i)' = Usage(i) /\ (Spent(i)' <=> Spent(i))
    BY <1>1, <2>3, NodeSame
  <2> QED BY <1>3, <2>1, <2>4 DEF Due
<1> QED BY <1>2, <1>3 DEF Due

LEMMA DueSettled ==
  ASSUME IInv, Settle, NEW i, NEW bound \in Nat, NEW strict, Due(i, bound, strict)
  PROVE  Due(i, bound, strict)'
<1> DEFINE T == [node : Nodes, bound : Nat, check : BOOLEAN]
<1>1. /\ UNCHANGED <<schema, wild, gen>>
      /\ work # <<>> /\ Settled(Head(work)) /\ work' = Unsettled
  BY DEF Settle
<1>2. Usage(i)' = Usage(i) /\ (Spent(i)' <=> Spent(i)) /\ \A j : Apart(j, i)' = Apart(j, i)
  BY <1>1, NodeSame DEF Apart, Subtree
<1>3. PICK k \in 1..Len(work) :
        /\ \A n \in 1..k : Settled(work[n])
        /\ Len(work') = Len(work) - k
        /\ \A n \in 1..(Len(work) - k) : work'[n] = work[n + k]
  BY <1>1, UnsettledIs
<1>4. work \in Seq(T)
  BY DEF IInv, TypeOK
<1> HIDE DEF T
<1>5. Len(work) \in Nat /\ \A n \in 1..Len(work) : work[n] \in T
  BY <1>4, LenProperties, ElementOfSeq
<1>6. CASE Awaits(work, i, bound, strict)
  <2>1. PICK m \in 1..Len(work) :
          /\ work[m].node = i /\ work[m].bound =< bound /\ (strict => work[m].check)
          /\ \A n \in (m + 1)..Len(work) : work[n].check \/ Apart(work[n].node, i)
    BY <1>6 DEF Awaits
  <2>2. CASE k < m
    <3>1. m - k \in 1..Len(work') /\ work'[m - k] = work[m]
      BY <1>3, <1>5, <2>2
    <3>2. ASSUME NEW n \in (m - k + 1)..Len(work') PROVE work'[n].check \/ Apart(work'[n].node, i)
      <4>1. n + k \in (m + 1)..Len(work) /\ work'[n] = work[n + k]
        BY <1>3, <1>5, <2>2
      <4> QED BY <2>1, <4>1
    <3>3. Awaits(work, i, bound, strict)'
      BY <1>2, <2>1, <3>1, <3>2 DEF Awaits
    <3> QED BY <3>3 DEF Due
  <2>3. CASE ~ k < m
    <3>1. Settled(work[m])
      BY <1>3, <1>5, <2>3
    <3>2. ASSUME NEW n \in 1..Len(work') PROVE work'[n].check \/ Apart(work'[n].node, i)
      <4>1. n + k \in (m + 1)..Len(work) /\ work'[n] = work[n + k]
        BY <1>3, <1>5, <2>3
      <4> QED BY <2>1, <4>1
    <3>3. Spares(work, i)'
      BY <1>2, <3>2 DEF Spares
    <3>4. CASE ~Over(work[m])
      <4>1. work[m].bound \in Nat /\ Usage(i) \in Nat
        BY <1>5, UsageType DEF T
      <4>2. Usage(i) =< bound
        BY <2>1, <3>4, <4>1 DEF Over
      <4> QED BY <1>2, <3>3, <4>2 DEF Due
    <3>5. CASE Over(work[m])
      <4>1. ~strict /\ Candidates(i) = {}
        BY <2>1, <3>1, <3>5 DEF Settled
      <4>2. Spent(i)
        BY <4>1 DEF Candidates, Spent, Prepared, IInv, PreparedCurrent, LeavesOf
      <4> QED BY <1>2, <3>3, <4>1, <4>2 DEF Due
    <3> QED BY <3>4, <3>5
  <2> QED BY <2>2, <2>3
<1>7. CASE Spares(work, i) /\ (Usage(i) =< bound \/ (~strict /\ Spent(i)))
  <2>1. ASSUME NEW n \in 1..Len(work') PROVE work'[n].check \/ Apart(work'[n].node, i)
    <3>1. n + k \in 1..Len(work) /\ work'[n] = work[n + k]
      BY <1>3, <1>5
    <3> QED BY <1>7, <3>1 DEF Spares
  <2>2. Spares(work, i)'
    BY <1>2, <2>1 DEF Spares
  <2> QED BY <1>2, <1>7, <2>2 DEF Due
<1> QED BY <1>6, <1>7 DEF Due

(* With nothing left to do, what is due is done.                           *)
LEMMA DueDone ==
  ASSUME NEW i, NEW bound, NEW strict, Due(i, bound, strict), work = <<>>
  PROVE  Usage(i) =< bound \/ (~strict /\ Spent(i))
<1>1. Len(work) = 0
  BY EmptySeq
<1>2. ~Awaits(work, i, bound, strict)
  BY <1>1 DEF Awaits
<1> QED BY <1>2 DEF Due

-----------------------------------------------------------------------------
(* After the input has ended every policy is due its limit, checked; at a  *)
(* checkpoint every outermost policy is due its soft target, unless it has *)
(* nothing coarser.                                                        *)
AllDue ==
  IF finished THEN \A i \in Policies : Due(i, schema[i].limit, TRUE)
  ELSE \A i \in Outer : Due(i, SoftTarget(schema[i].limit), FALSE)

FitInv ==
  /\ pc \in {"reading", "checkpoint"} => ~finished
  /\ pc = "fitting" => AllDue
  /\ WithinLimits /\ Relieved

(* A schema does not change during a build, nor do its policies' bounds.   *)
LEMMA SchemaSame ==
  ASSUME schema' = schema
  PROVE  /\ Policies' = Policies /\ Outer' = Outer
         /\ \A i : /\ (schema[i].limit)' = schema[i].limit
                   /\ SoftTarget(schema[i].limit)' = SoftTarget(schema[i].limit)
         /\ \A w, i, bound, strict : Awaits(w, i, bound, strict)' <=> Awaits(w, i, bound, strict)
         /\ \A w, i : Spares(w, i)' <=> Spares(w, i)
BY DEF Policies, Outer, Roots, Nodes, Subtree, SoftTarget, Awaits, Spares, Apart

LEMMA BoundType ==
  ASSUME schema \in Schemas, NEW i \in Policies
  PROVE  schema[i].limit \in Nat /\ SoftTarget(schema[i].limit) \in Nat
BY SchemaShape, SoftTargetIs

LEMMA InitFitInv == Init => FitInv
BY DEF Init, FitInv, WithinLimits, Relieved

LEMMA CheckpointFits == ASSUME IInv, FitInv, Checkpoint PROVE FitInv'
<1>1. /\ pc = "checkpoint" /\ pc' = "fitting" /\ ~finished /\ finished' = finished
      /\ UNCHANGED <<schema, gen, wild>> /\ schema \in Schemas
      /\ work' = IF ~Pressure THEN <<>> ELSE IF streaming THEN RelieveAll ELSE CompileAll
  BY DEF Checkpoint, FitInv, IInv, TypeOK
<1>2. PICK w : w = work'
  OBVIOUS
<1>3. ASSUME NEW i \in Outer PROVE Due(i, SoftTarget(schema[i].limit), FALSE)'
  <2>1. PICK bound : bound = SoftTarget(schema[i].limit)
    OBVIOUS
  <2>2. SoftTarget(schema[i].limit)' = bound
    BY <1>1, <2>1, SchemaSame
  <2>3. bound \in Nat /\ Usage(i) \in Nat /\ Usage(i)' = Usage(i)
    BY <1>1, <2>1, BoundType, UsageType, NodeSame DEF Outer
  <2>4. CASE Pressure
    <3>1. Awaits(w, i, bound, FALSE)
      BY <1>1, <1>2, <2>1, <2>4, SoftAwaits
    <3>2. Awaits(w, i, bound, FALSE)'
      BY <1>1, <3>1, SchemaSame
    <3>3. Awaits(work, i, bound, FALSE)'
      BY <1>2, <3>2 DEF Awaits, Apart, Subtree
    <3> QED BY <2>2, <3>3 DEF Due
  <2>5. CASE ~Pressure
    <3>1. ~ Usage(i) > bound
      BY <2>1, <2>5 DEF Pressure, Outer
    <3>2. Usage(i)' =< bound
      BY <2>3, <3>1
    <3>3. Spares(work, i)'
      <4>1. Len(work') = 0
        BY <1>1, <2>5, EmptySeq
      <4> QED BY <4>1 DEF Spares
    <3> QED BY <2>2, <3>2, <3>3 DEF Due
  <2> QED BY <2>4, <2>5
<1>4. AllDue'
  BY <1>1, <1>3, SchemaSame DEF AllDue
<1> QED BY <1>1, <1>4 DEF FitInv, WithinLimits, Relieved

LEMMA FinishFits == ASSUME IInv, FitInv, Finish PROVE FitInv'
<1>1. /\ pc' = "fitting" /\ finished' = TRUE /\ schema' = schema /\ schema \in Schemas
      /\ work' = (IF streaming THEN <<>> ELSE CompileAll) \o RefreshAll(1, Len(schema), Policies)
  BY DEF Finish, IInv, TypeOK
<1>2. PICK w : w = work'
  OBVIOUS
<1>3. ASSUME NEW i \in Policies PROVE Due(i, schema[i].limit, TRUE)'
  <2>1. PICK bound : bound = schema[i].limit
    OBVIOUS
  <2>2. Awaits(w, i, bound, TRUE)
    <3> DEFINE T == Item(1, Len(schema))
               u == IF streaming THEN <<>> ELSE CompileAll
               v == RefreshAll(1, Len(schema), Policies)
    <3>1. u \in Seq(T) /\ v \in Seq(T)
      BY <1>1, WorkType
    <3>2. Awaits(v, i, bound, TRUE)
      BY <1>1, <2>1, RefreshAwaits
    <3>3. w = u \o v
      BY <1>1, <1>2
    <3> HIDE DEF T, u, v
    <3> QED BY <3>1, <3>2, <3>3, AwaitsPreceded
  <2>3. Awaits(w, i, bound, TRUE)'
    BY <1>1, <2>2, SchemaSame
  <2>4. Awaits(work, i, bound, TRUE)'
    BY <1>2, <2>3 DEF Awaits, Apart, Subtree
  <2> QED BY <1>1, <2>1, <2>4 DEF Due
<1>4. AllDue'
  BY <1>1, <1>3, SchemaSame DEF AllDue
<1> QED BY <1>1, <1>4 DEF FitInv, WithinLimits, Relieved

(* Coarsening and settling keep what is due.                               *)
LEMMA FittingFits ==
  ASSUME IInv, FitInv, Coarsen \/ Settle
  PROVE  FitInv'
<1>1. /\ pc = "fitting" /\ pc' = pc /\ finished' = finished /\ schema' = schema /\ schema \in Schemas
  BY DEF Coarsen, Settle, IInv, TypeOK
<1>2. AllDue
  BY <1>1 DEF FitInv
<1>3. ASSUME NEW i, NEW bound \in Nat, NEW strict, Due(i, bound, strict)
      PROVE  Due(i, bound, strict)'
  BY <1>3, DueCoarsened, DueSettled
<1>4. CASE finished
  <2>1. ASSUME NEW i \in Policies PROVE Due(i, schema[i].limit, TRUE)'
    <3>1. PICK bound \in Nat : bound = schema[i].limit
      BY <1>1, BoundType
    <3>2. Due(i, bound, TRUE)
      BY <1>2, <1>4, <3>1 DEF AllDue
    <3>3. Due(i, bound, TRUE)'
      BY <1>3, <3>2
    <3> QED BY <1>1, <3>1, <3>3 DEF Due
  <2>2. AllDue'
    BY <1>1, <1>4, <2>1, SchemaSame DEF AllDue
  <2> QED BY <1>1, <2>2 DEF FitInv, WithinLimits, Relieved
<1>5. CASE ~finished
  <2>1. ASSUME NEW i \in Outer PROVE Due(i, SoftTarget(schema[i].limit), FALSE)'
    <3>1. PICK bound \in Nat : bound = SoftTarget(schema[i].limit)
      BY <1>1, BoundType DEF Outer
    <3>2. Due(i, bound, FALSE)
      BY <1>2, <1>5, <3>1 DEF AllDue
    <3>3. Due(i, bound, FALSE)'
      BY <1>3, <3>2
    <3>4. SoftTarget(schema[i].limit)' = bound
      BY <1>1, <3>1, SchemaSame
    <3> QED BY <3>3, <3>4 DEF Due
  <2>2. AllDue'
    BY <1>1, <1>5, <2>1, SchemaSame DEF AllDue
  <2> QED BY <1>1, <2>2 DEF FitInv, WithinLimits, Relieved
<1> QED BY <1>4, <1>5

LEMMA ResumeFits == ASSUME IInv, FitInv, Resume PROVE FitInv'
<1>1. /\ pc = "fitting" /\ work = <<>> /\ AllDue
      /\ pc' = IF finished THEN "published" ELSE "reading"
      /\ UNCHANGED <<schema, gen, wild, entries, finished>>
  BY DEF Resume, FitInv
<1>2. \A i : Usage(i)' = Usage(i) /\ (Spent(i)' <=> Spent(i))
  BY <1>1, NodeSame
<1>3. CASE finished
  <2>1. \A i \in Policies : Usage(i) =< schema[i].limit
    BY <1>1, <1>3, DueDone DEF AllDue
  <2>2. WithinLimits'
    BY <1>1, <1>2, <2>1, SchemaSame DEF WithinLimits
  <2> QED BY <1>1, <1>3, <2>2 DEF FitInv, Relieved
<1>4. CASE ~finished
  <2>1. \A i \in Outer : Usage(i) =< SoftTarget(schema[i].limit) \/ Spent(i)
    BY <1>1, <1>4, DueDone DEF AllDue
  <2>2. \A i \in Outer' : Usage(i)' =< SoftTarget(schema[i].limit)' \/ Spent(i)'
    BY <1>1, <1>2, <2>1, SchemaSame
  <2>3. Relieved'
    BY <2>2 DEF Relieved, Outer, Spent
  <2> QED BY <1>1, <1>4, <2>3 DEF FitInv, WithinLimits
<1> QED BY <1>3, <1>4

LEMMA StutterFits == ASSUME FitInv, UNCHANGED vars PROVE FitInv'
<1>1. UNCHANGED <<schema, gen, wild, entries, finished, work, pc>>
  BY DEF vars
<1>2. \A i : Usage(i)' = Usage(i) /\ (Spent(i)' <=> Spent(i))
  BY <1>1, NodeSame
<1>3. AllDue' <=> AllDue
  <2>1. ASSUME NEW i, NEW bound, NEW strict
        PROVE  Due(i, bound, strict)' <=> Due(i, bound, strict)
    <3>1. /\ Awaits(work, i, bound, strict)' <=> Awaits(work, i, bound, strict)
          /\ Spares(work, i)' <=> Spares(work, i)
      BY <1>1 DEF Awaits, Spares, Apart, Subtree
    <3> QED BY <1>2, <3>1 DEF Due
  <2>2. ASSUME NEW i
        PROVE  /\ Due(i, schema[i].limit, TRUE)' <=> Due(i, schema[i].limit, TRUE)
               /\ Due(i, SoftTarget(schema[i].limit), FALSE)' <=> Due(i, SoftTarget(schema[i].limit), FALSE)
    <3>1. PICK l : l = schema[i].limit
      OBVIOUS
    <3>2. PICK t : t = SoftTarget(schema[i].limit)
      OBVIOUS
    <3>3. (schema[i].limit)' = l /\ SoftTarget(schema[i].limit)' = t
      BY <1>1, <3>1, <3>2, SchemaSame
    <3> QED BY <2>1, <3>1, <3>2, <3>3 DEF Due
  <2> QED BY <1>1, <2>2, SchemaSame DEF AllDue
<1>4. WithinLimits' <=> WithinLimits
  BY <1>1, <1>2, SchemaSame DEF WithinLimits
<1>5. Relieved' <=> Relieved
  <2>1. (\A i \in Outer : Usage(i) =< SoftTarget(schema[i].limit) \/ Spent(i))'
          <=> \A i \in Outer : Usage(i) =< SoftTarget(schema[i].limit) \/ Spent(i)
    BY <1>1, <1>2, SchemaSame
  <2> QED BY <1>1, <2>1 DEF Relieved, Outer, Spent
<1> QED BY <1>1, <1>3, <1>4, <1>5 DEF FitInv

LEMMA FitInductive == IInv /\ FitInv /\ [Next]_vars => FitInv'
<1> SUFFICES ASSUME IInv, FitInv, [Next]_vars PROVE FitInv'
  OBVIOUS
<1>1. ASSUME NEW value \in [Leaves -> Values \cup {Missing}], NEW id \in Assignable,
             Insert(value, id)
      PROVE  FitInv'
  <2>1. /\ pc = "reading" /\ finished' = finished
        /\ pc' = IF entries' % Interval = 0 THEN "checkpoint" ELSE "reading"
    BY <1>1 DEF Insert
  <2> QED BY <2>1 DEF FitInv, WithinLimits, Relieved
<1>2. CASE Checkpoint
  BY <1>2, CheckpointFits
<1>3. CASE Finish
  BY <1>3, FinishFits
<1>4. CASE Coarsen \/ Settle
  BY <1>4, FittingFits
<1>5. CASE Fail
  BY <1>5 DEF Fail, FitInv, WithinLimits, Relieved
<1>6. CASE Resume
  BY <1>6, ResumeFits
<1>7. CASE Done \/ UNCHANGED vars
  BY <1>7, StutterFits DEF Done
<1> QED BY <1>1, <1>2, <1>3, <1>4, <1>5, <1>6, <1>7 DEF Next

LEMMA AlwaysFitInv == Spec => [](IInv /\ FitInv)
<1>1. Init => IInv /\ FitInv
  BY InitIInv, InitFitInv
<1>2. (IInv /\ FitInv) /\ [Next]_vars => (IInv /\ FitInv)'
  BY InvInductive, FitInductive
<1> QED BY <1>1, <1>2, PTL DEF Spec

(* A published index obeys every limit of its schema, however policies are *)
(* nested and although coarsening for an outer policy may make a leaf      *)
(* larger: the last refresh of each policy is followed by its check, and   *)
(* by nothing that touches its leaves (refreshStreamingLossyDetails).      *)
THEOREM WithinLimitsHolds == Spec => []WithinLimits
<1>1. FitInv => WithinLimits
  BY DEF FitInv
<1> QED BY <1>1, AlwaysFitInv, PTL

(* Whatever the interval, a checkpoint leaves each outermost policy within *)
(* its soft target or with nothing coarser (lossyBuildPressure,            *)
(* fitStreamingPolicies).                                                  *)
THEOREM RelievedHolds == Spec => []Relieved
<1>1. FitInv => Relieved
  BY DEF FitInv
<1> QED BY <1>1, AlwaysFitInv, PTL

-----------------------------------------------------------------------------
(* A check is framed: it follows the fitting of its node to the same       *)
(* bound, with only work for nodes below in between.                       *)
Frames(w, m, n) ==
  /\ m < n /\ ~w[m].check /\ w[n].check
  /\ w[m].node = w[n].node /\ w[m].bound = w[n].bound
  /\ \A j \in (m + 1)..(n - 1) : w[j].node \in Below(w[n].node)

Mated(w, n) == \E m \in 1..Len(w) : Frames(w, m, n) \/ Frames(w, n, m)
Closed(w) == \A n \in 1..Len(w) : Mated(w, n)

(* Part of some work is framed as it is in the whole.                      *)
LEMMA FramesMoved ==
  ASSUME NEW w, NEW u, NEW d \in Nat, NEW m \in 1..Len(u), NEW n \in 1..Len(u), Len(u) \in Nat,
         Frames(u, m, n), \A j \in 1..Len(u) : w[j + d] = u[j]
  PROVE  Frames(w, m + d, n + d)
<1>1. w[m + d] = u[m] /\ w[n + d] = u[n] /\ m + d < n + d
  BY DEF Frames
<1>2. ASSUME NEW j \in (m + d + 1)..(n + d - 1) PROVE w[j].node \in Below(w[n + d].node)
  <2>1. j - d \in (m + 1)..(n - 1) /\ j - d \in 1..Len(u) /\ (j - d) + d = j
    OBVIOUS
  <2>2. w[j] = u[j - d]
    BY <2>1
  <2> QED BY <1>1, <2>1, <2>2 DEF Frames
<1> QED BY <1>1, <1>2 DEF Frames

LEMMA MatedMoved ==
  ASSUME NEW w, NEW u, NEW d \in Nat, Len(u) \in Nat, Len(w) \in Nat, d + Len(u) =< Len(w),
         \A j \in 1..Len(u) : w[j + d] = u[j],
         NEW n \in 1..Len(u), Mated(u, n)
  PROVE  Mated(w, n + d)
<1>1. PICK m \in 1..Len(u) : Frames(u, m, n) \/ Frames(u, n, m)
  BY DEF Mated
<1>2. Frames(w, m + d, n + d) \/ Frames(w, n + d, m + d)
  BY <1>1, FramesMoved
<1>3. m + d \in 1..Len(w)
  OBVIOUS
<1> QED BY <1>2, <1>3 DEF Mated

Joins(w, u, v) ==
  /\ Len(u) \in Nat /\ Len(v) \in Nat /\ Len(w) = Len(u) + Len(v)
  /\ \A n \in 1..Len(u) : w[n] = u[n]
  /\ \A n \in 1..Len(v) : w[n + Len(u)] = v[n]

LEMMA Joined ==
  ASSUME NEW T, NEW u \in Seq(T), NEW v \in Seq(T)
  PROVE  u \o v \in Seq(T) /\ Joins(u \o v, u, v)
<1> DEFINE w == u \o v
<1>1. /\ w \in Seq(T) /\ Len(u) \in Nat /\ Len(v) \in Nat /\ Len(w) = Len(u) + Len(v)
      /\ \A n \in 1..(Len(u) + Len(v)) : w[n] = IF n <= Len(u) THEN u[n] ELSE v[n - Len(u)]
  BY ConcatProperties, LenProperties
<1> HIDE DEF w
<1>2. \A n \in 1..Len(u) : w[n] = u[n]
  BY <1>1
<1>3. \A n \in 1..Len(v) : w[n + Len(u)] = v[n]
  BY <1>1
<1> QED BY <1>1, <1>2, <1>3 DEF w, Joins

LEMMA ClosedTogether ==
  ASSUME NEW T, NEW u \in Seq(T), NEW v \in Seq(T), Closed(u), Closed(v)
  PROVE  Closed(u \o v)
<1> DEFINE w == u \o v
<1>1. /\ Len(u) \in Nat /\ Len(v) \in Nat /\ Len(w) = Len(u) + Len(v)
      /\ \A n \in 1..(Len(u) + Len(v)) : w[n] = IF n <= Len(u) THEN u[n] ELSE v[n - Len(u)]
  BY ConcatProperties, LenProperties
<1> HIDE DEF w
<1>2. ASSUME NEW n \in 1..Len(w) PROVE Mated(w, n)
  <2>1. CASE n =< Len(u)
    <3>0. PICK d \in Nat : d = 0
      OBVIOUS
    <3>1. /\ n \in 1..Len(u) /\ n + d = n /\ d + Len(u) =< Len(w) /\ Len(w) \in Nat
          /\ \A j \in 1..Len(u) : w[j + d] = u[j]
      BY <1>1, <2>1, <3>0
    <3>2. Mated(u, n)
      BY <3>1 DEF Closed
    <3>3. Mated(w, n + d)
      BY <1>1, <3>1, <3>2, MatedMoved
    <3> QED BY <3>1, <3>3
  <2>2. CASE ~ n =< Len(u)
    <3> DEFINE k == n - Len(u)
    <3>1. k \in 1..Len(v) /\ k + Len(u) = n /\ \A j \in 1..Len(v) : w[j + Len(u)] = v[j]
      BY <1>1, <2>2
    <3> HIDE DEF k
    <3>2. Mated(v, k)
      BY <3>1 DEF Closed
    <3>3. Mated(w, k + Len(u))
      BY <1>1, <3>1, <3>2, MatedMoved
    <3> QED BY <3>1, <3>3
  <2> QED BY <2>1, <2>2
<1> QED BY <1>2 DEF Closed, w

(* Fitting a node, refreshing what is below, and checking the node.        *)
LEMMA ClosedAround ==
  ASSUME NEW T, NEW u \in Seq(T), NEW v \in Seq(T), Closed(u), Closed(v), NEW i, NEW bound,
         Fit(i, bound) \in Seq(T), Check(i, bound) \in Seq(T),
         \A n \in 1..Len(v) : v[n].node \in Below(i)
  PROVE  Closed(u \o Fit(i, bound) \o v \o Check(i, bound))
<1> DEFINE F == Fit(i, bound)
           C == Check(i, bound)
           x == u \o F
           y == x \o v
           w == y \o C
<1>1. /\ F \in Seq(T) /\ Len(F) = 1
      /\ F[1].node = i /\ F[1].bound = bound /\ ~F[1].check
      /\ C \in Seq(T) /\ Len(C) = 1
      /\ C[1].node = i /\ C[1].bound = bound /\ C[1].check
  BY DEF Fit, Check
<1> HIDE DEF F, C
<1>2. x \in Seq(T) /\ Joins(x, u, F)
  BY <1>1, Joined
<1> HIDE DEF x
<1>3. y \in Seq(T) /\ Joins(y, x, v)
  BY <1>2, Joined
<1> HIDE DEF y
<1>4. Joins(w, y, C)
  BY <1>1, <1>3, Joined
<1> HIDE DEF w
<1>5. /\ Len(u) \in Nat /\ Len(v) \in Nat /\ Len(x) = Len(u) + 1 /\ Len(y) = Len(u) + 1 + Len(v)
      /\ Len(w) = Len(u) + Len(v) + 2 /\ Len(w) = 1 + Len(y)
  BY <1>1, <1>2, <1>3, <1>4 DEF Joins
<1>6. \A n \in 1..Len(u) : w[n] = u[n]
  <2>1. \A n \in 1..Len(u) : n \in 1..Len(x) /\ n \in 1..Len(y)
    BY <1>5
  <2> QED BY <1>2, <1>3, <1>4, <2>1 DEF Joins
<1>7. \A n \in 1..Len(v) : w[n + (Len(u) + 1)] = v[n]
  <2>1. \A n \in 1..Len(v) : n + Len(x) \in 1..Len(y) /\ n + Len(x) = n + (Len(u) + 1)
    BY <1>5
  <2> QED BY <1>3, <1>4, <2>1 DEF Joins
<1>8. w[Len(u) + 1] = F[1] /\ w[Len(w)] = C[1]
  <2>1. x[1 + Len(u)] = F[1] /\ w[1 + Len(y)] = C[1]
    BY <1>1, <1>2, <1>4 DEF Joins
  <2>2. 1 + Len(u) \in 1..Len(x) /\ 1 + Len(u) \in 1..Len(y) /\ 1 + Len(u) = Len(u) + 1
    BY <1>5
  <2>3. w[Len(u) + 1] = x[1 + Len(u)]
    BY <1>3, <1>4, <2>2 DEF Joins
  <2> QED BY <1>5, <2>1, <2>3
<1>9. Frames(w, Len(u) + 1, Len(w))
  <2>1. ASSUME NEW j \in (Len(u) + 1 + 1)..(Len(w) - 1) PROVE w[j].node \in Below(i)
    <3>1. j - (Len(u) + 1) \in 1..Len(v) /\ (j - (Len(u) + 1)) + (Len(u) + 1) = j
      BY <1>5
    <3>2. w[j] = v[j - (Len(u) + 1)]
      BY <1>7, <3>1
    <3> QED BY <3>1, <3>2
  <2>2. Len(u) + 1 < Len(w)
    BY <1>5
  <2> QED BY <1>1, <1>8, <2>1, <2>2 DEF Frames
<1>10. ASSUME NEW n \in 1..Len(w) PROVE Mated(w, n)
  <2>1. CASE n \in 1..Len(u)
    <3>1. Mated(u, n)
      BY <2>1 DEF Closed
    <3>0. PICK d \in Nat : d = 0
      OBVIOUS
    <3>2. /\ d + Len(u) =< Len(w) /\ Len(w) \in Nat /\ n + d = n
          /\ \A j \in 1..Len(u) : w[j + d] = u[j]
      BY <1>5, <1>6, <3>0
    <3>3. Mated(w, n + d)
      BY <1>5, <2>1, <3>1, <3>2, MatedMoved
    <3> QED BY <3>2, <3>3
  <2>2. CASE n = Len(u) + 1 \/ n = Len(w)
    <3>1. Len(u) + 1 \in 1..Len(w) /\ Len(w) \in 1..Len(w)
      BY <1>5
    <3> QED BY <1>9, <2>2, <3>1 DEF Mated
  <2>3. CASE Len(u) + 1 < n /\ n < Len(w)
    <3> DEFINE d == Len(u) + 1
               k == n - d
    <3>0. n \in Int /\ Len(u) + 1 < n /\ n < Len(u) + Len(v) + 2
      BY <1>5, <2>3
    <3>1. /\ k \in 1..Len(v) /\ k + d = n /\ d \in Nat /\ d + Len(v) =< Len(w)
          /\ Len(w) \in Nat
      BY <1>5, <3>0
    <3>2. \A j \in 1..Len(v) : w[j + d] = v[j]
      BY <1>7
    <3> HIDE DEF k, d
    <3>3. Mated(v, k)
      BY <3>1 DEF Closed
    <3>4. Mated(w, k + d)
      BY <1>5, <3>1, <3>2, <3>3, MatedMoved
    <3> QED BY <3>1, <3>4
  <2>4. \/ n \in 1..Len(u)
        \/ n = Len(u) + 1 \/ n = Len(w)
        \/ Len(u) + 1 < n /\ n < Len(w)
    <3>1. Len(u) \in Nat /\ Len(w) \in Nat
      BY <1>5
    <3> QED BY <3>1
  <2> QED BY <2>1, <2>2, <2>3, <2>4
<1>11. Closed(w)
  BY <1>10 DEF Closed
<1> QED BY <1>11 DEF w, y, x, F, C

(* Every check of a compilation or a refresh is framed, and every fitting. *)
ClosedAt(kind, policies, b) ==
  \A a : Region(a, b) => Closed(Tour(kind, policies)[b][a])

LEMMA TurnedClosed ==
  ASSUME schema \in Schemas, NEW policies \in SUBSET Policies, NEW kind \in {"refresh", "compile"},
         NEW b \in Nodes, NEW below \in Seq(Item(schema[b].from, b - 1)), Closed(below),
         NEW again \in Seq(Item(schema[b].from, b - 1)), kind = "compile" => Closed(again),
         again = RefreshAll(schema[b].from, b - 1, Policies \cap Below(b))
  PROVE  Closed(Turned(kind, policies, b, below))
<1> DEFINE a == schema[b].from
           T == Item(a, b)
           bound == IF kind = "refresh" THEN Limit(b, policies) ELSE schema[b].limit
           v == IF kind = "refresh" THEN below ELSE again
<1>1. a \in Int /\ b \in Int /\ b - 1 \in Int /\ b \in a..b /\ b - 1 =< b
  BY SchemaShape
<1>2. v \in Seq(Item(a, b - 1)) /\ Closed(v)
  OBVIOUS
<1>3. \A n \in 1..Len(v) : v[n].node \in Below(b)
  <2>1. ASSUME NEW n \in 1..Len(v) PROVE v[n] \in Item(a, b - 1)
    <3> HIDE DEF v, a
    <3> QED BY <1>2, ElementOfSeq
  <2> QED BY <2>1 DEF Item, Below
<1>4. below \in Seq(T) /\ v \in Seq(T)
  <2> HIDE DEF v, a
  <2>1. below \in Seq(Item(a, b - 1))
    BY DEF a
  <2> QED BY <1>1, <1>2, <2>1, Widened
<1>5. CASE Turned(kind, policies, b, below) = below
  BY <1>5
<1>6. CASE /\ bound \in Nat /\ Owned(b, bound)
           /\ Turned(kind, policies, b, below) = below \o Fit(b, bound) \o v \o Check(b, bound)
  <2> HIDE DEF v, a, bound, T
  <2>1. Fit(b, bound) \in Seq(T) /\ Check(b, bound) \in Seq(T)
    BY <1>1, <1>6, FitType DEF T
  <2>2. Closed(below \o Fit(b, bound) \o v \o Check(b, bound))
    BY <1>2, <1>3, <1>4, <2>1, ClosedAround
  <2> QED BY <1>6, <2>2
<1>7. CASE kind = "refresh" /\ Limit(b, policies) # None
  <2>1. bound \in Nat /\ Owned(b, bound)
    BY <1>7, BoundsOwned
  <2>2. Turned(kind, policies, b, below) = below \o Fit(b, bound) \o v \o Check(b, bound)
    BY <1>7 DEF Turned, Refreshed
  <2> QED BY <1>6, <2>1, <2>2
<1>8. CASE kind = "compile" /\ b \in Policies
  <2>1. bound \in Nat /\ Owned(b, bound)
    BY <1>8, BoundsOwned
  <2>2. Turned(kind, policies, b, below) = below \o Fit(b, bound) \o v \o Check(b, bound)
    BY <1>8 DEF Turned, Compiled
  <2> QED BY <1>6, <2>1, <2>2
<1>9. CASE kind = "refresh" /\ Limit(b, policies) = None
  BY <1>5, <1>9 DEF Turned, Refreshed
<1>10. CASE kind = "compile" /\ b \notin Policies
  BY <1>5, <1>10 DEF Turned, Compiled
<1> QED BY <1>7, <1>8, <1>9, <1>10

LEMMA ClosedStep ==
  ASSUME schema \in Schemas, NEW policies \in SUBSET Policies, NEW kind \in {"refresh", "compile"},
         NEW b \in 0..Len(schema), \A c \in 0..(b - 1) : ClosedAt(kind, policies, c),
         \A p \in SUBSET Policies : \A c \in 0..(b - 1) : kind = "compile" => ClosedAt("refresh", p, c)
  PROVE  ClosedAt(kind, policies, b)
<1> SUFFICES ASSUME NEW a, Region(a, b)
             PROVE  Closed(Tour(kind, policies)[b][a])
  BY DEF ClosedAt
<1>1. a \in 1..(Len(schema) + 1)
  BY DEF Region
<1>2. CASE b < a
  <2>1. Tour(kind, policies)[b][a] = <<>>
    BY <1>1, <1>2, TourStep
  <2> QED BY <2>1 DEF Closed
<1>3. CASE ~ b < a
  <2> DEFINE from == schema[b].from
             left == Tour(kind, policies)[from - 1][a]
             below == Tour(kind, policies)[b - 1][from]
             right == Turned(kind, policies, b, below)
             again == Tour("refresh", Policies \cap Below(b))[b - 1][from]
  <2>1. /\ b \in Nodes /\ a =< from /\ Region(a, from - 1) /\ Region(from, b - 1)
        /\ from \in 1..b /\ from - 1 \in 0..(b - 1) /\ b - 1 \in 0..(b - 1)
        /\ from - 1 \in 0..Len(schema) /\ b - 1 \in 0..Len(schema) /\ a \in Int /\ b \in Int
    <3>0. b \in Nodes /\ a =< from /\ Region(a, from - 1)
      BY <1>3, Regions
    <3>1. Region(from, b - 1) /\ from \in 1..b /\ from - 1 \in 0..(b - 1)
      BY <3>0, Regions, SchemaShape
    <3>2. Len(schema) \in Nat /\ Nodes = 1..Len(schema)
      BY SchemaShape
    <3> HIDE DEF from
    <3> QED BY <1>1, <3>0, <3>1, <3>2
  <2>2. /\ left \in Seq(Item(a, from - 1)) /\ below \in Seq(Item(from, b - 1))
        /\ again \in Seq(Item(from, b - 1))
    <3>1. Policies \cap Below(b) \in SUBSET Policies
      OBVIOUS
    <3> QED BY <2>1, <3>1, ToursTyped DEF Typed
  <2>3. Closed(left) /\ Closed(below)
    BY <2>1 DEF ClosedAt
  <2>4. kind = "compile" => Closed(again)
    BY <2>1 DEF ClosedAt
  <2>5. again = RefreshAll(from, b - 1, Policies \cap Below(b))
    BY RefreshTour
  <2>6. Closed(right) /\ right \in Seq(Item(from, b))
    <3>1. kind = "compile" => RefreshAll(from, b - 1, Policies \cap Below(b)) \in Seq(Item(from, b - 1))
      BY <2>2, <2>5
    <3>2. right \in Seq(Item(from, b))
      <4> HIDE DEF below
      <4> QED BY <2>1, <2>2, <3>1, TurnedType
    <3>3. Closed(right)
      <4> HIDE DEF below, again
      <4> QED BY <2>1, <2>2, <2>3, <2>4, <2>5, TurnedClosed
    <3> QED BY <3>2, <3>3
  <2>7. Tour(kind, policies)[b][a] = left \o right
    <3>1. Tour(kind, policies)[b][a] =
            IF b < a THEN <<>>
            ELSE Tour(kind, policies)[schema[b].from - 1][a]
                   \o Turned(kind, policies, b, Tour(kind, policies)[b - 1][schema[b].from])
      BY <1>1, TourStep
    <3> QED BY <1>3, <3>1
  <2> HIDE DEF left, right, from
  <2>8. left \in Seq(Item(a, b)) /\ right \in Seq(Item(a, b))
    BY <2>1, <2>2, <2>6, Widened
  <2> QED BY <2>3, <2>6, <2>7, <2>8, ClosedTogether
<1> QED BY <1>2, <1>3

LEMMA RefreshClosed ==
  ASSUME schema \in Schemas, NEW policies \in SUBSET Policies
  PROVE  \A b \in 0..Len(schema) : ClosedAt("refresh", policies, b)
<1> DEFINE S == {b \in 0..Len(schema) : ClosedAt("refresh", policies, b)}
<1>1. Len(schema) \in Nat
  BY SchemaShape
<1>2. ASSUME NEW b \in 0..Len(schema), \A c \in 0..(b - 1) : c \in S PROVE b \in S
  BY <1>2, ClosedStep
<1> HIDE DEF S
<1>3. \A b \in 0..Len(schema) : b \in S
  BY <1>1, <1>2, StrongInduction
<1> QED BY <1>3 DEF S

LEMMA CompileClosed ==
  ASSUME schema \in Schemas
  PROVE  \A b \in 0..Len(schema) : ClosedAt("compile", Policies, b)
<1> DEFINE S == {b \in 0..Len(schema) : ClosedAt("compile", Policies, b)}
<1>1. Len(schema) \in Nat
  BY SchemaShape
<1>2. ASSUME NEW b \in 0..Len(schema), \A c \in 0..(b - 1) : c \in S PROVE b \in S
  <2>1. \A p \in SUBSET Policies : \A c \in 0..(b - 1) : ClosedAt("refresh", p, c)
    BY <1>1, RefreshClosed
  <2>2. Policies \in SUBSET Policies /\ \A c \in 0..(b - 1) : ClosedAt("compile", Policies, c)
    BY <1>2
  <2>3. ClosedAt("compile", Policies, b)
    BY <2>1, <2>2, ClosedStep
  <2> QED BY <2>3
<1> HIDE DEF S
<1>3. \A b \in 0..Len(schema) : b \in S
  BY <1>1, <1>2, StrongInduction
<1> QED BY <1>3 DEF S

(* A checkpoint after the first compilation checks nothing.                *)
Unchecked(w) == \A n \in 1..Len(w) : ~w[n].check

LEMMA RelieveUnchecked ==
  ASSUME schema \in Schemas
  PROVE  Unchecked(RelieveAll)
<1> DEFINE At(b) == \A a : Region(a, b) => Unchecked(Tour("relieve", Policies)[b][a])
           S == {b \in 0..Len(schema) : At(b)}
<1>1. Len(schema) \in Nat
  BY SchemaShape
<1>2. ASSUME NEW b \in 0..Len(schema), \A c \in 0..(b - 1) : c \in S PROVE b \in S
  <2> SUFFICES ASSUME NEW a, Region(a, b)
               PROVE  Unchecked(Tour("relieve", Policies)[b][a])
    OBVIOUS
  <2>1. a \in 1..(Len(schema) + 1)
    BY DEF Region
  <2>2. CASE b < a
    <3>1. Tour("relieve", Policies)[b][a] = <<>>
      BY <2>1, <2>2, TourStep
    <3> QED BY <3>1 DEF Unchecked
  <2>3. CASE ~ b < a
    <3> DEFINE from == schema[b].from
               left == Tour("relieve", Policies)[from - 1][a]
               below == Tour("relieve", Policies)[b - 1][from]
               bound == SoftTarget(Limit(b, Policies))
    <3>1. /\ b \in Nodes /\ a =< from /\ Region(a, from - 1) /\ Region(from, b - 1)
          /\ from \in 1..b /\ from - 1 \in 0..(b - 1) /\ b - 1 \in 0..(b - 1)
          /\ from - 1 \in 0..Len(schema) /\ b - 1 \in 0..Len(schema) /\ a \in Int /\ b \in Int
          /\ b - 1 =< b /\ b \in from..b
      <4>0. b \in Nodes /\ a =< from /\ Region(a, from - 1)
        BY <2>3, Regions
      <4>1. Region(from, b - 1) /\ from \in 1..b /\ from - 1 \in 0..(b - 1)
        BY <4>0, Regions, SchemaShape
      <4>2. Len(schema) \in Nat /\ Nodes = 1..Len(schema)
        BY SchemaShape
      <4> HIDE DEF from
      <4> QED BY <2>1, <4>0, <4>1, <4>2
    <3>2. left \in Seq(Item(a, from - 1)) /\ below \in Seq(Item(from, b - 1))
      BY <3>1, ToursTyped DEF Typed
    <3>3. Unchecked(left) /\ Unchecked(below)
      BY <1>2, <3>1
    <3>4. Tour("relieve", Policies)[b][a] = left \o Relieving(b, below)
      <4>1. Tour("relieve", Policies)[b][a] =
              IF b < a THEN <<>>
              ELSE Tour("relieve", Policies)[schema[b].from - 1][a]
                     \o Turned("relieve", Policies, b, Tour("relieve", Policies)[b - 1][schema[b].from])
        BY <2>1, TourStep
      <4> QED BY <2>3, <4>1 DEF Turned
    <3> DEFINE T == Item(a, b)
    <3>5. left \in Seq(T) /\ below \in Seq(T)
      <4> HIDE DEF from, left, below
      <4> QED BY <3>1, <3>2, Widened
    <3>6. ASSUME NEW u \in Seq(T), NEW v \in Seq(T), Unchecked(u), Unchecked(v)
          PROVE  Unchecked(u \o v)
      <4> DEFINE w == u \o v
      <4>1. Joins(w, u, v)
        <5> HIDE DEF T
        <5> QED BY Joined
      <4> HIDE DEF w
      <4>2. ASSUME NEW n \in 1..Len(w) PROVE ~w[n].check
        <5>1. CASE n \in 1..Len(u)
          BY <3>6, <4>1, <5>1 DEF Joins, Unchecked
        <5>2. CASE n \notin 1..Len(u)
          <6>1. n - Len(u) \in 1..Len(v) /\ (n - Len(u)) + Len(u) = n
            BY <4>1, <5>2 DEF Joins
          <6> QED BY <3>6, <4>1, <6>1 DEF Joins, Unchecked
        <5> QED BY <5>1, <5>2
      <4> QED BY <4>2 DEF Unchecked, w
    <3>7. Unchecked(Relieving(b, below)) /\ Relieving(b, below) \in Seq(T)
      <4>1. CASE Limit(b, Policies) = None
        BY <3>3, <3>5, <4>1 DEF Relieving
      <4>2. CASE Limit(b, Policies) # None
        <5>1. bound \in Nat /\ Owned(b, bound)
          BY <3>1, <4>2, BoundsOwned
        <5>2. Relieving(b, below) = below \o Fit(b, bound)
          BY <4>2 DEF Relieving
        <5> HIDE DEF bound, below, from
        <5>3. Fit(b, bound) \in Seq(Item(a, b))
          <6>1. b \in a..b
            BY <3>1
          <6> QED BY <3>1, <5>1, <6>1, FitType
        <5>4. Unchecked(Fit(b, bound))
          BY DEF Fit, Unchecked
        <5>5. Unchecked(below \o Fit(b, bound))
          BY <3>3, <3>5, <3>6, <5>3, <5>4
        <5>6. below \o Fit(b, bound) \in Seq(T)
          <6> HIDE DEF T
          <6>1. Fit(b, bound) \in Seq(T)
            BY <5>3 DEF T
          <6> QED BY <3>5, <6>1, ConcatProperties
        <5> QED BY <5>2, <5>5, <5>6
      <4> QED BY <4>1, <4>2
    <3> HIDE DEF left, below, T
    <3> QED BY <3>3, <3>4, <3>5, <3>6, <3>7
  <2> QED BY <2>2, <2>3
<1>3. At(Len(schema))
  <2> HIDE DEF S
  <2>1. \A b \in 0..Len(schema) : b \in S
    BY <1>1, <1>2, StrongInduction
  <2> QED BY <1>1, <2>1 DEF S
<1>4. Unchecked(Tour("relieve", Policies)[Len(schema)][1])
  BY <1>3, Regions
<1> QED BY <1>4, RelieveTour

(* What checkpoints and the end of the input set out to do.                *)
LEMMA WorkClosed ==
  ASSUME schema \in Schemas
  PROVE  /\ Closed(<<>>) /\ Closed(CompileAll)
         /\ Closed(RefreshAll(1, Len(schema), Policies))
         /\ Closed(CompileAll \o RefreshAll(1, Len(schema), Policies))
<1>1. Len(schema) \in 0..Len(schema) /\ Region(1, Len(schema)) /\ Policies \in SUBSET Policies
  BY SchemaShape, Regions
<1>2. Closed(Tour("compile", Policies)[Len(schema)][1]) /\ Closed(Tour("refresh", Policies)[Len(schema)][1])
  BY <1>1, RefreshClosed, CompileClosed DEF ClosedAt
<1>3. Closed(CompileAll) /\ Closed(RefreshAll(1, Len(schema), Policies))
  BY <1>2, CompileTour, RefreshTour
<1>4. CompileAll \in Seq(Item(1, Len(schema))) /\ RefreshAll(1, Len(schema), Policies) \in Seq(Item(1, Len(schema)))
  BY WorkType
<1>5. Closed(CompileAll \o RefreshAll(1, Len(schema), Policies))
  BY <1>3, <1>4, ClosedTogether
<1>6. Closed(<<>>)
  BY DEF Closed
<1> QED BY <1>3, <1>5, <1>6

-----------------------------------------------------------------------------
(* A check that comes next, after work for nodes below only, fails only if *)
(* some policy is spent: its node fits, or is spent; or a check before it  *)
(* fails for this reason; or the node below that is being fitted takes all *)
(* it exceeds its bound by.                                                *)
Open(w, n) == w[n].check /\ \A j \in 1..(n - 1) : w[j].node \in Below(w[n].node)

Doomed(item) == item.check /\ Over(item) /\ Spent(item.node)

Fated(n) ==
  \/ Usage(work[n].node) =< work[n].bound
  \/ Spent(work[n].node)
  \/ \E l \in 1..(n - 1) : Doomed(work[l])
  \/ /\ ~work[1].check /\ work[1].node \in Below(work[n].node)
     /\ Usage(work[n].node) - Usage(work[1].node) + work[1].bound =< work[n].bound

FateInv ==
  /\ pc = "fitting" =>
       /\ Unchecked(work) \/ \A n \in 1..Len(work) : Open(work, n) \/ Mated(work, n)
       /\ \A n \in 1..Len(work) : Open(work, n) => Fated(n)
  /\ FailsOnlyWhenSpent

LEMMA BelowIs ==
  ASSUME schema \in Schemas, NEW i \in Nodes, NEW k \in Nodes, k \in Below(i)
  PROVE  i \notin Below(k) /\ i # k /\ LeavesOf(k) \subseteq LeavesOf(i)
<1>1. /\ i \in Int /\ k \in Int /\ schema[i].from \in 1..i /\ schema[k].from \in 1..k
      /\ schema[i].from =< schema[k].from /\ k =< i - 1 /\ schema[i].from =< k
  <2>1. Nodes = 1..Len(schema) /\ Len(schema) \in Nat /\ schema[i].from \in 1..i /\ schema[k].from \in 1..k
    BY SchemaShape
  <2>2. i \in Int /\ k \in Int /\ k =< i - 1 /\ schema[i].from =< k /\ k \in schema[i].from..i
    BY <2>1 DEF Below
  <2>3. schema[i].from =< schema[k].from
    BY <2>2, SchemaShape
  <2> QED BY <2>1, <2>2, <2>3
<1>2. Subtree(k) \subseteq Subtree(i)
  BY <1>1 DEF Subtree
<1>3. i \notin Below(k) /\ i # k
  BY <1>1 DEF Below
<1> QED BY <1>2, <1>3 DEF LeavesOf

(* No check is open where all are framed.                                  *)
LEMMA FramedNotOpen ==
  ASSUME schema \in Schemas, NEW w \in Seq([node : Nodes, bound : Nat, check : BOOLEAN]),
         NEW m \in 1..Len(w), NEW n \in 1..Len(w), Frames(w, m, n)
  PROVE  ~Open(w, n)
<1>1. w[m].node \in Nodes /\ w[m].node = w[n].node
  <2> DEFINE T == [node : Nodes, bound : Nat, check : BOOLEAN]
  <2>1. w \in Seq(T)
    OBVIOUS
  <2>2. w[m] \in T
    <3> HIDE DEF T
    <3> QED BY <2>1, ElementOfSeq
  <2> QED BY <2>2 DEF Frames
<1>2. w[m].node \notin Below(w[m].node)
  BY <1>1, BelowIs
<1>3. m \in 1..(n - 1)
  <2>1. Len(w) \in Nat /\ m < n
    BY LenProperties DEF Frames
  <2> QED BY <2>1
<1> QED BY <1>1, <1>2, <1>3 DEF Open

(* A changed leaf changes what the nodes above use by the same amount.     *)
LEMMA UsageChanged ==
  ASSUME IInv, UNCHANGED <<schema, wild>>, NEW s, NEW g, WellFormed(s, g),
         gen' = [gen EXCEPT ![s] = g], NEW i, s \in LeavesOf(i)
  PROVE  /\ LeafBytes(s, gen[s]) \in Nat /\ LeafBytes(s, g) \in Nat
         /\ Usage(i)' \in Nat
         /\ Usage(i)' + LeafBytes(s, gen[s]) = Usage(i) + LeafBytes(s, g)
<1> DEFINE W == LeavesOf(i)
           R == W \ {s}
           f == [t \in W |-> LeafBytes(t, gen[t])]
           h == [t \in W |-> LeafBytes(t, gen'[t])]
<1>1. /\ DOMAIN gen = Leaves /\ s \in Leaves /\ gen'[s] = g
      /\ \A t \in W \ {s} : gen'[t] = gen[t]
  BY DEF IInv, TypeOK, LeavesOf
<1>2. IsFiniteSet(W) /\ f \in [W -> Nat]
  BY UsageParts
<1>3. wild[s] \in SUBSET Ids
  BY <1>1 DEF IInv, TypeOK
<1>4. LeafBytes(s, g) \in Nat
  BY <1>3, LeafBytesType
<1>5. h \in [W -> Nat]
  <2>1. ASSUME NEW t \in W PROVE LeafBytes(t, gen'[t]) \in Nat
    <3>1. CASE t = s
      BY <1>1, <1>4, <3>1
    <3>2. CASE t # s
      <4>1. f[t] = LeafBytes(t, gen'[t])
        BY <1>1, <3>2
      <4> QED BY <1>2, <4>1
    <3> QED BY <3>1, <3>2
  <2> QED BY <2>1
<1>6. Usage(i) = SumFunctionOnSet(f, W)
  BY DEF Usage, SumFunction
<1>7. Usage(i)' = SumFunctionOnSet(h, W)
  <2>1. LeavesOf(i)' = W
    BY DEF LeavesOf, Leaves, Nodes, Subtree
  <2>2. ASSUME NEW t \in W PROVE LeafBytes(t, gen[t])' = LeafBytes(t, gen'[t])
    BY DEF LeafBytes, PostingBytes, IsEquality
  <2>3. [t \in W |-> LeafBytes(t, gen[t])'] = h
    BY <2>2
  <2> QED BY <2>1, <2>3 DEF Usage, SumFunction
<1>8. s \in W /\ f[s] = LeafBytes(s, gen[s]) /\ h[s] = LeafBytes(s, g) /\ \A t \in R : f[t] = h[t]
  BY <1>1
<1>9. IsFiniteSet(R) /\ R \in SUBSET W
  BY <1>2, FS_Subset
<1> HIDE DEF f, h, W, R
<1>10. SumFunctionOnSet(f, R) = SumFunctionOnSet(h, R)
  BY <1>8, <1>9, SumCongruent
<1>11. /\ SumFunctionOnSet(f, W) = f[s] + SumFunctionOnSet(f, R)
       /\ SumFunctionOnSet(h, W) = h[s] + SumFunctionOnSet(h, R)
  <2>1. W \in SUBSET W
    OBVIOUS
  <2> QED BY <1>2, <1>5, <1>8, <2>1, SumWithout DEF R
<1>12. f[s] \in Nat /\ h[s] \in Nat /\ SumFunctionOnSet(f, R) \in Nat
  BY <1>2, <1>5, <1>8, <1>9, SumType
<1> QED BY <1>6, <1>7, <1>8, <1>10, <1>11, <1>12

LEMMA WorkItems ==
  ASSUME IInv
  PROVE  /\ Len(work) \in Nat /\ (work # <<>> => Len(work) > 0 /\ Head(work) = work[1])
         /\ \A n \in 1..Len(work) :
              /\ work[n].node \in Nodes /\ work[n].bound \in Nat /\ work[n].check \in BOOLEAN
              /\ Owned(work[n].node, work[n].bound) /\ Usage(work[n].node) \in Nat
<1> DEFINE T == Item(1, Len(schema))
<1>1. work \in Seq(T)
  BY DEF IInv, Owed
<1> HIDE DEF T
<1>2. Len(work) \in Nat /\ (work # <<>> => Len(work) > 0 /\ Head(work) = work[1])
  BY <1>1, LenProperties, EmptySeq
<1>3. \A n \in 1..Len(work) : work[n] \in T
  BY <1>1, ElementOfSeq
<1>4. 1..Len(schema) = Nodes
  BY SchemaShape DEF IInv, TypeOK
<1> QED BY <1>2, <1>3, <1>4, UsageType DEF T, Item

(* A doomed check stays so: its leaves are not touched.                    *)
LEMMA FateCoarsened ==
  ASSUME IInv, Coarsen, NEW n \in 1..Len(work), Open(work, n), Fated(n)
  PROVE  Fated(n)'
<1>0. PICK i, k : i = work[n].node /\ k = work[1].node
  OBVIOUS
<1>1. /\ UNCHANGED <<schema, wild, work>>
      /\ work # <<>> /\ ~Head(work).check /\ Over(Head(work))
      /\ \E s \in Selected(Head(work).node) : gen' = [gen EXCEPT ![s] = Prepared(s)]
  BY DEF Coarsen
<1>2. /\ Head(work) = work[1] /\ 1 \in 1..Len(work) /\ n \in Nat
      /\ i \in Nodes /\ k \in Nodes /\ work[n].bound \in Nat /\ work[1].bound \in Nat
      /\ Usage(i) \in Nat /\ Usage(k) \in Nat
  BY <1>0, <1>1, WorkItems
<1>3. PICK s \in LeavesOf(k) :
        /\ s \in Leaves /\ Prepared(s) # None /\ Prepared(s) = Coarser(s, gen[s])
        /\ gen' = [gen EXCEPT ![s] = Prepared(s)]
  BY <1>0, <1>1, <1>2 DEF Selected, Candidates, LeavesOf, Prepared, IInv, PreparedCurrent
<1>4. n # 1 /\ k \in Below(i)
  BY <1>0, <1>1, <1>2 DEF Open
<1>5. LeavesOf(k) \subseteq LeavesOf(i) /\ s \in LeavesOf(i)
  BY <1>2, <1>3, <1>4, BelowIs DEF IInv, TypeOK
<1>6. WellFormed(s, Prepared(s))
  BY <1>3, CoarserKeeps DEF IInv, TypeOK
<1>7. PICK now \in Nat, next \in Nat :
        /\ Usage(i)' \in Nat /\ Usage(i)' + now = Usage(i) + next
        /\ Usage(k)' \in Nat /\ Usage(k)' + now = Usage(k) + next
  <2> DEFINE c == LeafBytes(s, gen[s])
             d == LeafBytes(s, Prepared(s))
  <2>1. PICK g : g = Prepared(s)
    OBVIOUS
  <2>2. WellFormed(s, g) /\ gen' = [gen EXCEPT ![s] = g]
    BY <1>3, <1>6, <2>1
  <2>3. ASSUME NEW j, s \in LeavesOf(j)
        PROVE  c \in Nat /\ d \in Nat /\ Usage(j)' \in Nat /\ Usage(j)' + c = Usage(j) + d
    <3>1. /\ c \in Nat /\ LeafBytes(s, g) \in Nat
          /\ Usage(j)' \in Nat /\ Usage(j)' + c = Usage(j) + LeafBytes(s, g)
      BY <1>1, <2>2, <2>3, UsageChanged
    <3> QED BY <2>1, <3>1
  <2>4. /\ c \in Nat /\ d \in Nat
        /\ Usage(i)' \in Nat /\ Usage(i)' + c = Usage(i) + d
    BY <1>5, <2>3
  <2>5. Usage(k)' \in Nat /\ Usage(k)' + c = Usage(k) + d
    BY <2>3
  <2> HIDE DEF c, d
  <2> QED BY <2>4, <2>5
<1>8. ~Spent(i) /\ Usage(k) > work[1].bound
  BY <1>0, <1>1, <1>2, <1>3, <1>5 DEF Spent, Over
<1>9. CASE Usage(i) =< work[n].bound \/ Usage(i) - Usage(k) + work[1].bound =< work[n].bound
  <2>1. Usage(i) - Usage(k) + work[1].bound =< work[n].bound
    BY <1>2, <1>8, <1>9
  <2>2. Usage(i)' - Usage(k)' + work[1].bound =< work[n].bound
    <3>1. Usage(i)' - Usage(k)' = Usage(i) - Usage(k)
      BY <1>2, <1>7
    <3> QED BY <1>2, <1>7, <2>1, <3>1
  <2>3. (~work[1].check /\ work[1].node \in Below(work[n].node))'
    BY <1>0, <1>1, <1>2, <1>4 DEF Below
  <2>4. work'[n].node = i /\ work'[1].node = k /\ work'[1].bound = work[1].bound /\ work'[n].bound = work[n].bound
    BY <1>0, <1>1
  <2>5. Usage(work[n].node)' = Usage(i)' /\ Usage(work[1].node)' = Usage(k)'
    BY <2>4
  <2> QED BY <2>2, <2>3, <2>4, <2>5 DEF Fated
<1>10. CASE \E l \in 1..(n - 1) : Doomed(work[l])
  <2>1. PICK l \in 1..(n - 1) : Doomed(work[l])
    BY <1>10
  <2>2. PICK j : j = work[l].node
    OBVIOUS
  <2>3. s \notin LeavesOf(j)
    BY <1>3, <2>1, <2>2 DEF Doomed, Spent
  <2>4. Usage(j)' = Usage(j) /\ (Spent(j)' <=> Spent(j))
    <3>1. \A t \in LeavesOf(j) : gen'[t] = gen[t]
      BY <1>3, <2>3 DEF LeavesOf, IInv, TypeOK
    <3> QED BY <1>1, <3>1, NodeSame
  <2>5. Doomed(work[l])'
    <3>1. work'[l] = work[l] /\ work'[l].node = j
      BY <1>1, <2>2
    <3>2. Usage(work[l].node)' = Usage(j)' /\ (Spent(work[l].node)' <=> Spent(j)')
      BY <3>1
    <3> QED BY <2>1, <2>2, <2>4, <3>1, <3>2 DEF Doomed, Over
  <2> QED BY <2>5 DEF Fated
<1> QED BY <1>0, <1>8, <1>9, <1>10 DEF Fated

(* What is done with leaves a check open only if its node fits, is spent,  *)
(* or has a doomed check before it.                                        *)
LEMMA FateSettled ==
  ASSUME IInv, Settle, NEW k \in 1..Len(work), \A n \in 1..k : Settled(work[n]),
         Len(work') = Len(work) - k, \A n \in 1..(Len(work) - k) : work'[n] = work[n + k],
         NEW n \in 1..Len(work'), Open(work', n),
         Open(work, n + k) => Fated(n + k),
         \A m \in 1..Len(work) : Open(work, m) \/ Mated(work, m)
  PROVE  Fated(n)'
<1> DEFINE i == work[n + k].node
<1>1. UNCHANGED <<schema, wild, gen>> /\ work # <<>>
  BY DEF Settle
<1>2. \A j : Usage(j)' = Usage(j) /\ (Spent(j)' <=> Spent(j))
  BY <1>1, NodeSame
<1>3. /\ Len(work) \in Nat /\ k \in Nat /\ n \in Nat /\ n + k \in 1..Len(work) /\ 1 \in 1..Len(work)
      /\ work'[n] = work[n + k] /\ i \in Nodes /\ work[n + k].bound \in Nat /\ work[n + k].check
  BY WorkItems DEF Open
<1>4. Usage(i) =< work[n + k].bound \/ Spent(i) => Fated(n)'
  <2>1. PICK j : j = i
    OBVIOUS
  <2>2. work'[n].node = j
    BY <1>3, <2>1
  <2>3. Usage(work[n].node)' = Usage(j)' /\ (Spent(work[n].node)' <=> Spent(j)')
    BY <2>2
  <2> QED BY <1>2, <1>3, <2>1, <2>3 DEF Fated
<1>5. ASSUME NEW m \in 1..k, ~work[m].check
      PROVE  Usage(work[m].node) =< work[m].bound \/ Spent(work[m].node)
  <2>1. Settled(work[m]) /\ m \in 1..Len(work)
    BY <1>3
  <2>2. CASE ~Over(work[m])
    BY <2>1, <2>2, WorkItems DEF Over
  <2>3. CASE Over(work[m])
    <3>1. Candidates(work[m].node) = {}
      BY <1>5, <2>1, <2>3 DEF Settled
    <3> QED BY <3>1 DEF Candidates, Spent, Prepared, IInv, PreparedCurrent, LeavesOf
  <2> QED BY <2>2, <2>3
<1>6. ASSUME NEW l \in 1..(n + k - 1), Doomed(work[l]) PROVE Fated(n)'
  <2>1. ~ l =< k
    <3>1. ~Settled(work[l])
      BY <1>6 DEF Doomed, Settled
    <3> QED BY <1>3, <3>1
  <2>2. PICK h \in 1..(n - 1) : h + k = l
    <3>1. l - k \in 1..(n - 1) /\ (l - k) + k = l
      BY <1>3, <2>1
    <3> QED BY <3>1
  <2>3. work'[h] = work[l]
    <3>1. h \in 1..(Len(work) - k)
      BY <1>3, <2>2
    <3> QED BY <2>2, <3>1
  <2>4. PICK j : j = work[l].node
    OBVIOUS
  <2>5. Usage(work[h].node)' = Usage(j)' /\ (Spent(work[h].node)' <=> Spent(j)')
    BY <2>3, <2>4
  <2>6. Doomed(work[h])'
    BY <1>2, <1>6, <2>3, <2>4, <2>5 DEF Doomed, Over
  <2> QED BY <2>6 DEF Fated
<1>7. CASE ~Open(work, n + k)
  <2>1. PICK m \in 1..Len(work) : Frames(work, m, n + k)
    <3>1. Mated(work, n + k)
      BY <1>3, <1>7
    <3> QED BY <1>3, <3>1 DEF Mated, Frames
  <2>2. m =< k
    <3> SUFFICES ASSUME k < m PROVE FALSE
      BY <1>3
    <3>1. m - k \in 1..(n - 1) /\ work'[m - k] = work[m]
      <4>1. m - k \in 1..(n - 1) /\ m - k \in 1..(Len(work) - k) /\ (m - k) + k = m
        BY <1>3, <2>1 DEF Frames
      <4> QED BY <4>1
    <3>2. work[m].node = i /\ work'[n].node = i
      BY <1>3, <2>1 DEF Frames
    <3>3. i \in Below(i)
      BY <1>1, <3>1, <3>2 DEF Open, Below
    <3> QED BY <1>3, <3>3, BelowIs DEF IInv, TypeOK
  <2>3. m \in 1..k /\ ~work[m].check /\ work[m].node = i /\ work[m].bound = work[n + k].bound
    BY <2>1, <2>2 DEF Frames
  <2> QED BY <1>4, <1>5, <2>3
<1>8. CASE Open(work, n + k)
  <2>1. Fated(n + k)
    BY <1>8
  <2>2. CASE /\ ~work[1].check /\ work[1].node \in Below(i)
             /\ Usage(i) - Usage(work[1].node) + work[1].bound =< work[n + k].bound
    <3>1. CASE Usage(work[1].node) =< work[1].bound
      <4>1. /\ Usage(i) \in Nat /\ Usage(work[1].node) \in Nat
            /\ work[1].bound \in Nat /\ work[n + k].bound \in Nat
        BY <1>3, WorkItems
      <4>2. Usage(i) =< work[n + k].bound
        BY <2>2, <3>1, <4>1
      <4> QED BY <1>4, <4>2
    <3>2. CASE Spent(work[1].node) /\ Over(work[1])
      <4>1. PICK l \in 1..Len(work) : Frames(work, 1, l)
        <5>1. Open(work, 1) \/ Mated(work, 1)
          BY <1>3
        <5> QED BY <2>2, <5>1 DEF Open, Mated, Frames
      <4>2. Doomed(work[l])
        BY <3>2, <4>1 DEF Frames, Doomed, Over
      <4>3. l < n + k
        <5> SUFFICES ASSUME ~ l < n + k PROVE FALSE
          OBVIOUS
        <5>1. work[1].node \in Nodes /\ work[l].node = work[1].node
          BY <1>3, <4>1, WorkItems DEF Frames
        <5>2. work[1].node # i
          BY <1>3, <2>2, <5>1, BelowIs DEF IInv, TypeOK
        <5>3. n + k \in (1 + 1)..(l - 1)
          BY <1>3, <5>1, <5>2, <2>2
        <5>4. i \in Below(work[1].node)
          BY <4>1, <5>1, <5>3 DEF Frames
        <5> QED BY <1>3, <2>2, <5>1, <5>4, BelowIs DEF IInv, TypeOK
      <4> QED BY <1>3, <1>6, <4>2, <4>3
    <3>3. Usage(work[1].node) =< work[1].bound \/ (Spent(work[1].node) /\ Over(work[1]))
      <4>1. 1 \in 1..k /\ Usage(work[1].node) \in Nat /\ work[1].bound \in Nat
        BY <1>3, WorkItems
      <4>2. Usage(work[1].node) =< work[1].bound \/ Spent(work[1].node)
        BY <1>5, <2>2, <4>1
      <4> QED BY <4>1, <4>2 DEF Over
    <3> QED BY <3>1, <3>2, <3>3
  <2> QED BY <1>4, <1>6, <2>1, <2>2 DEF Fated
<1> QED BY <1>7, <1>8

(* The leaves of a node that cannot be coarsened, and what they use.       *)
Stuck(i) == {t \in LeavesOf(i) : Coarser(t, gen[t]) = None}
StuckUsage(i) == SumFunction([s \in Stuck(i) |-> LeafBytes(s, gen[s])])

LEMMA StuckSame ==
  ASSUME UNCHANGED <<schema, gen, wild>>, NEW i
  PROVE  StuckUsage(i)' = StuckUsage(i)
<1>1. LeavesOf(i)' = LeavesOf(i)
  BY DEF LeavesOf, Leaves, Nodes, Subtree
<1>2. ASSUME NEW s \in LeavesOf(i)
      PROVE  /\ LeafBytes(s, gen[s])' = LeafBytes(s, gen[s])
             /\ Coarser(s, gen[s])' = Coarser(s, gen[s])
  BY DEF LeafBytes, PostingBytes, Coarser, IsEquality, MergedPair
<1>3. Stuck(i)' = Stuck(i) /\ Stuck(i) \subseteq LeavesOf(i)
  BY <1>1, <1>2 DEF Stuck
<1> QED BY <1>2, <1>3 DEF StuckUsage

LEMMA FailsWhenIs ==
  FailsOnlyWhenSpent <=> (pc = "failed" => \E i \in Policies : StuckUsage(i) > schema[i].limit)
BY DEF FailsOnlyWhenSpent, StuckUsage, Stuck

(* A spent node above its bound is part of what a policy cannot coarsen.   *)
LEMMA SpentWithin ==
  ASSUME IInv, NEW n \in 1..Len(work), Spent(work[n].node), Over(work[n])
  PROVE  \E i \in Policies : StuckUsage(i) > schema[i].limit
<1>1. PICK k : k = work[n].node
  OBVIOUS
<1>2. /\ k \in Nodes /\ work[n].bound \in Nat /\ Usage(k) \in Nat /\ Usage(k) > work[n].bound
      /\ Owned(k, work[n].bound)
  BY <1>1, WorkItems DEF Over
<1>3. PICK i \in Policies : k \in Subtree(i) /\ schema[i].limit =< work[n].bound
  BY <1>2 DEF Owned
<1>4. i \in Nodes /\ schema[i].limit \in Nat /\ schema \in Schemas
  BY SchemaShape DEF IInv, TypeOK
<1>5. LeavesOf(k) \subseteq LeavesOf(i)
  <2>1. k = i \/ k \in Below(i)
    <3>1. /\ Nodes = 1..Len(schema) /\ Len(schema) \in Nat
          /\ schema[i].from \in 1..i /\ k \in schema[i].from..i
      BY <1>3, <1>4, SchemaShape DEF Subtree
    <3>2. i \in Int /\ k \in Int /\ schema[i].from \in Int
      BY <1>4, <3>1
    <3> QED BY <3>1, <3>2 DEF Below
  <2> QED BY <1>2, <1>4, <2>1, BelowIs
<1>6. LeavesOf(k) \subseteq Stuck(i)
  BY <1>1, <1>5 DEF Spent, Stuck
<1> DEFINE W == Stuck(i)
           f == [s \in W |-> LeafBytes(s, gen[s])]
           g == [s \in LeavesOf(k) |-> LeafBytes(s, gen[s])]
<1>7. IsFiniteSet(W) /\ f \in [W -> Nat]
  <2>1. /\ IsFiniteSet(LeavesOf(i)) /\ W \subseteq LeavesOf(i)
        /\ [s \in LeavesOf(i) |-> LeafBytes(s, gen[s])] \in [LeavesOf(i) -> Nat]
    BY UsageParts DEF Stuck
  <2>2. \A s \in W : LeafBytes(s, gen[s]) \in Nat
    BY <2>1
  <2>3. IsFiniteSet(W)
    BY <2>1, FS_Subset
  <2> QED BY <2>2, <2>3
<1>8. LeavesOf(k) \in SUBSET W /\ DOMAIN g = LeavesOf(k) /\ \A s \in LeavesOf(k) : g[s] = f[s]
  BY <1>6
<1>9. Usage(k) = SumFunction(g) /\ StuckUsage(i) = SumFunction(f)
  BY DEF Usage, StuckUsage
<1>10. SumFunction(f) \in Nat
  <2>1. DOMAIN f = W /\ W \in SUBSET W
    OBVIOUS
  <2> HIDE DEF f, W
  <2> QED BY <1>7, <2>1, SumType DEF SumFunction
<1>11. SumFunction(g) =< SumFunction(f)
  <2> HIDE DEF f, g, W
  <2> QED BY <1>7, <1>8, SumWithin
<1> HIDE DEF f, g, W
<1>12. StuckUsage(i) > schema[i].limit
  <2>1. Usage(k) =< StuckUsage(i) /\ StuckUsage(i) \in Nat
    BY <1>9, <1>10, <1>11
  <2> QED BY <1>2, <1>3, <1>4, <2>1
<1> QED BY <1>12

LEMMA InitFate == Init => FateInv
BY DEF Init, FateInv, FailsOnlyWhenSpent

(* A fitting begins with nothing open.                                     *)
LEMMA FateBegins ==
  ASSUME IInv, FateInv, Checkpoint \/ Finish
  PROVE  FateInv'
<1> DEFINE T == [node : Nodes, bound : Nat, check : BOOLEAN]
           I == Item(1, Len(schema))
<1>1. pc' = "fitting" /\ schema' = schema /\ schema \in Schemas
  BY DEF Checkpoint, Finish, IInv, TypeOK
<1>2. PICK w : w = work'
  OBVIOUS
<1>3. /\ w \in {<<>>, CompileAll, RelieveAll, RefreshAll(1, Len(schema), Policies),
                CompileAll \o RefreshAll(1, Len(schema), Policies)}
      /\ w \in Seq(T)
  <2>1. /\ CompileAll \in Seq(I) /\ RefreshAll(1, Len(schema), Policies) \in Seq(I)
        /\ <<>> \in Seq(I) /\ RelieveAll \in Seq(I)
    BY <1>1, WorkType
  <2>2. /\ CompileAll \o RefreshAll(1, Len(schema), Policies) \in Seq(I)
        /\ <<>> \o RefreshAll(1, Len(schema), Policies) = RefreshAll(1, Len(schema), Policies)
    <3> HIDE DEF I
    <3> QED BY <2>1, ConcatProperties, ConcatEmptySeq
  <2>3. w \in {<<>>, CompileAll, RelieveAll, RefreshAll(1, Len(schema), Policies),
                CompileAll \o RefreshAll(1, Len(schema), Policies)}
    BY <1>2, <2>2 DEF Checkpoint, Finish
  <2>4. w \in Seq(I)
    BY <2>1, <2>2, <2>3
  <2> QED BY <1>1, <2>3, <2>4, ItemsWork
<1>4. Closed(w) \/ Unchecked(w)
  BY <1>1, <1>3, WorkClosed, RelieveUnchecked
<1>5. ASSUME NEW n \in 1..Len(w) PROVE ~Open(w, n)
  <2>1. CASE Unchecked(w)
    BY <2>1 DEF Unchecked, Open
  <2>2. CASE Closed(w) /\ w[n].check
    <3>1. PICK m \in 1..Len(w) : Frames(w, m, n)
      BY <2>2 DEF Closed, Mated, Frames
    <3> HIDE DEF T
    <3> QED BY <1>1, <1>3, <3>1, FramedNotOpen DEF T
  <2>3. CASE ~w[n].check
    BY <2>3 DEF Open
  <2> QED BY <1>4, <2>1, <2>2, <2>3
<1>6. \A n \in 1..Len(w) : ~Open(w, n)'
  BY <1>1, <1>5 DEF Open, Below
<1>7. Unchecked(w) \/ \A n \in 1..Len(w) : Mated(w, n)'
  BY <1>1, <1>4 DEF Closed, Mated, Frames, Below
<1>8. /\ \A n \in 1..Len(work') : ~Open(work, n)'
      /\ Unchecked(work)' \/ \A n \in 1..Len(work') : Mated(work, n)'
  BY <1>2, <1>6, <1>7 DEF Open, Unchecked, Mated, Frames
<1> QED BY <1>1, <1>8 DEF FateInv, FailsOnlyWhenSpent

(* A fitting under way keeps framed what is not open.                      *)
LEMMA FateGoesOn ==
  ASSUME IInv, FateInv, Coarsen \/ Settle
  PROVE  FateInv'
<1>1. pc = "fitting" /\ pc' = "fitting" /\ UNCHANGED <<schema, wild>>
  BY DEF Coarsen, Settle
<1>2. \A w, n : Open(w, n)' <=> Open(w, n)
  BY <1>1 DEF Open, Below
<1>3. \A w, m, n : Frames(w, m, n)' <=> Frames(w, m, n)
  BY <1>1 DEF Frames, Below
<1>4. CASE Coarsen
  <2>1. work' = work
    BY <1>4 DEF Coarsen
  <2>2. \A n \in 1..Len(work') : Open(work, n)' => Fated(n)'
    <3>1. \A n : Open(work, n)' <=> Open(work, n)
      BY <1>1, <2>1 DEF Open, Below
    <3> QED BY <1>1, <1>4, <2>1, <3>1, FateCoarsened DEF FateInv
  <2>3. Unchecked(work)' \/ \A n \in 1..Len(work') : Open(work, n)' \/ Mated(work, n)'
    BY <1>1, <2>1 DEF FateInv, Unchecked, Open, Mated, Frames, Below
  <2> QED BY <1>1, <2>2, <2>3 DEF FateInv, FailsOnlyWhenSpent
<1>5. CASE Settle
  <2>0. PICK w : w = work'
    OBVIOUS
  <2>1. PICK k \in 1..Len(work) :
          /\ \A n \in 1..k : Settled(work[n])
          /\ Len(w) = Len(work) - k
          /\ \A n \in 1..(Len(work) - k) : w[n] = work[n + k]
    BY <1>5, <2>0, UnsettledIs DEF Settle
  <2>2. Len(work) \in Nat /\ k \in Nat /\ Len(w) \in Nat /\ \A n \in 1..Len(w) : w[n] = work[n + k]
    BY <2>1, WorkItems
  <2>3. CASE Unchecked(work)
    <3>1. Unchecked(w)
      <4>1. \A n \in 1..Len(w) : n + k \in 1..Len(work)
        BY <2>1, <2>2
      <4> QED BY <2>2, <2>3, <4>1 DEF Unchecked
    <3>2. Unchecked(work)' /\ \A n \in 1..Len(work') : ~Open(work, n)'
      BY <2>0, <3>1 DEF Unchecked, Open
    <3> QED BY <1>1, <3>2 DEF FateInv, FailsOnlyWhenSpent
  <2>4. CASE \A n \in 1..Len(work) : Open(work, n) \/ Mated(work, n)
    <3>1. ASSUME NEW n \in 1..Len(w), Open(w, n) PROVE Fated(n)'
      <4>1. /\ Len(work') = Len(work) - k /\ \A j \in 1..(Len(work) - k) : work'[j] = work[j + k]
            /\ n \in 1..Len(work') /\ Open(work', n)
        BY <2>0, <2>1, <3>1
      <4>2. Open(work, n + k) => Fated(n + k)
        <5>1. n + k \in 1..Len(work)
          BY <2>1, <2>2
        <5> QED BY <1>1, <5>1 DEF FateInv
      <4> QED BY <1>5, <2>1, <2>4, <4>1, <4>2, FateSettled
    <3>2. ASSUME NEW n \in 1..Len(w) PROVE Open(w, n) \/ Mated(w, n)
      <4>1. n + k \in 1..Len(work) /\ w[n] = work[n + k] /\ n \in Nat
        BY <2>1, <2>2
      <4>2. \A j \in 1..(n - 1) : w[j] = work[j + k] /\ j + k \in 1..(n + k - 1)
        BY <2>2, <4>1
      <4>3. CASE Open(work, n + k)
        BY <4>1, <4>2, <4>3 DEF Open
      <4>4. CASE \E m \in 1..Len(work) : Frames(work, m, n + k)
        <5>1. PICK m \in 1..Len(work) : Frames(work, m, n + k)
          BY <4>4
        <5>2. CASE k < m
          <6>1. m - k \in 1..Len(w) /\ (m - k) + k = m
            BY <2>1, <2>2, <5>2
          <6>2. Frames(w, m - k, n)
            <7>1. w[m - k] = work[m] /\ w[n] = work[n + k] /\ m - k < n
              BY <2>2, <4>1, <5>1, <6>1 DEF Frames
            <7>2. ASSUME NEW j \in (m - k + 1)..(n - 1) PROVE w[j].node \in Below(w[n].node)
              <8>1. j \in 1..Len(w) /\ j + k \in (m + 1)..(n + k - 1)
                BY <2>1, <2>2, <4>1, <5>2
              <8>2. work[j + k].node \in Below(work[n + k].node)
                BY <5>1, <8>1 DEF Frames
              <8> QED BY <2>2, <7>1, <8>1, <8>2
            <7> QED BY <5>1, <7>1, <7>2 DEF Frames
          <6> QED BY <6>1, <6>2 DEF Mated
        <5>3. CASE ~ k < m
          <6>1. ASSUME NEW j \in 1..(n - 1) PROVE w[j].node \in Below(w[n].node)
            <7>1. j + k \in (m + 1)..(n + k - 1) /\ w[j] = work[j + k]
              BY <2>2, <4>1, <4>2, <5>3
            <7> QED BY <4>1, <5>1, <7>1 DEF Frames
          <6> QED BY <4>1, <5>1, <6>1 DEF Open, Frames
        <5> QED BY <5>2, <5>3
      <4>5. CASE \E m \in 1..Len(work) : Frames(work, n + k, m)
        <5>1. PICK m \in 1..Len(work) : Frames(work, n + k, m)
          BY <4>5
        <5>2. m - k \in 1..Len(w) /\ (m - k) + k = m /\ n < m - k
          BY <2>1, <2>2, <4>1, <5>1 DEF Frames
        <5>3. Frames(w, n, m - k)
          <6>1. w[m - k] = work[m] /\ w[n] = work[n + k]
            BY <2>2, <5>2
          <6>2. ASSUME NEW j \in (n + 1)..(m - k - 1) PROVE w[j].node \in Below(w[m - k].node)
            <7>1. j \in 1..Len(w) /\ j + k \in (n + k + 1)..(m - 1)
              BY <2>1, <2>2, <4>1
            <7> QED BY <2>2, <5>1, <6>1, <7>1 DEF Frames
          <6> QED BY <5>1, <5>2, <6>1, <6>2 DEF Frames
        <5> QED BY <5>2, <5>3 DEF Mated
      <4> QED BY <2>4, <4>1, <4>3, <4>4, <4>5 DEF Mated
    <3>3. \A n \in 1..Len(work') : /\ Open(work, n)' <=> Open(w, n)
                                   /\ Mated(work, n)' <=> Mated(w, n)
      BY <1>1, <2>0 DEF Open, Mated, Frames, Below
    <3>4. /\ \A n \in 1..Len(work') : Open(work, n)' \/ Mated(work, n)'
          /\ \A n \in 1..Len(work') : Open(work, n)' => Fated(n)'
      BY <2>0, <3>1, <3>2, <3>3
    <3> QED BY <1>1, <3>4 DEF FateInv, FailsOnlyWhenSpent
  <2> QED BY <1>1, <2>3, <2>4 DEF FateInv
<1> QED BY <1>4, <1>5

LEMMA FateFails == ASSUME IInv, FateInv, Fail PROVE FateInv'
<1>1. /\ pc = "fitting" /\ pc' = "failed" /\ work # <<>>
      /\ Head(work).check /\ Over(Head(work)) /\ UNCHANGED <<schema, gen, wild>>
  BY DEF Fail
<1>2. /\ 1 \in 1..Len(work) /\ work[1].check /\ Over(work[1])
      /\ Usage(work[1].node) \in Nat /\ work[1].bound \in Nat
  BY <1>1, WorkItems
<1>3. Open(work, 1)
  BY <1>2 DEF Open
<1>4. Fated(1)
  BY <1>1, <1>2, <1>3 DEF FateInv
<1>5. Spent(work[1].node)
  BY <1>2, <1>4 DEF Fated, Over
<1>6. PICK i \in Policies : StuckUsage(i) > schema[i].limit
  BY <1>2, <1>5, SpentWithin
<1>7. i \in Policies' /\ StuckUsage(i)' > schema'[i].limit
  BY <1>1, <1>6, StuckSame, SchemaSame
<1>8. FailsOnlyWhenSpent'
  BY <1>7 DEF FailsOnlyWhenSpent, StuckUsage, Stuck
<1> QED BY <1>1, <1>8 DEF FateInv

LEMMA FateInductive == IInv /\ FateInv /\ [Next]_vars => FateInv'
<1> SUFFICES ASSUME IInv, FateInv, [Next]_vars PROVE FateInv'
  OBVIOUS
<1>1. ASSUME NEW value \in [Leaves -> Values \cup {Missing}], NEW id \in Assignable,
             Insert(value, id)
      PROVE  FateInv'
  <2>1. pc' = IF entries' % Interval = 0 THEN "checkpoint" ELSE "reading"
    BY <1>1 DEF Insert
  <2> QED BY <2>1 DEF FateInv, FailsOnlyWhenSpent
<1>2. CASE Checkpoint \/ Finish
  BY <1>2, FateBegins
<1>3. CASE Coarsen \/ Settle
  BY <1>3, FateGoesOn
<1>4. CASE Fail
  BY <1>4, FateFails
<1>5. CASE Resume
  BY <1>5 DEF Resume, FateInv, FailsOnlyWhenSpent
<1>6. CASE Done \/ UNCHANGED vars
  <2>1. UNCHANGED <<schema, gen, wild, work, pc>>
    BY <1>6 DEF Done, vars
  <2>2. FailsOnlyWhenSpent'
    <3>1. Policies' = Policies /\ \A i : StuckUsage(i)' = StuckUsage(i)
      BY <2>1, StuckSame, SchemaSame
    <3>2. pc = "failed" => \E i \in Policies : StuckUsage(i) > schema[i].limit
      BY FailsWhenIs DEF FateInv
    <3>3. pc' = "failed" => \E i \in Policies' : StuckUsage(i)' > schema'[i].limit
      BY <2>1, <3>1, <3>2
    <3> QED BY <3>3 DEF FailsOnlyWhenSpent, StuckUsage, Stuck
  <2>3. \A i : Usage(i)' = Usage(i) /\ (Spent(i)' <=> Spent(i))
    BY <2>1, NodeSame
  <2>4. \A n \in 1..Len(work) : Fated(n)' <=> Fated(n)
    <3>1. \A i, k : Usage(i)' - Usage(k)' = Usage(i) - Usage(k)
      BY <2>3
    <3>2. \A item : Doomed(item)' <=> Doomed(item)
      BY <2>3 DEF Doomed, Over
    <3>3. \A l : Doomed(work[l])' <=> Doomed(work[l])
      BY <2>1, <3>2 DEF Doomed, Over
    <3>4. \A l : Usage(work[l].node)' = Usage(work[l].node) /\ (Spent(work[l].node)' <=> Spent(work[l].node))
      BY <2>1, <2>3 DEF Usage, Spent
    <3> QED BY <2>1, <3>3, <3>4 DEF Fated, Below
  <2>5. /\ Unchecked(work)' <=> Unchecked(work)
        /\ \A n : (Open(work, n)' <=> Open(work, n)) /\ (Mated(work, n)' <=> Mated(work, n))
    BY <2>1 DEF Unchecked, Open, Mated, Frames, Below
  <2> QED BY <2>1, <2>2, <2>4, <2>5 DEF FateInv
<1> QED BY <1>1, <1>2, <1>3, <1>4, <1>5, <1>6 DEF Next

(* For every schema and every input, a build fails only when the leaves of *)
(* some policy that have no coarser form exceed its limit by themselves,   *)
(* although a step may release nothing and outer policies are fitted with  *)
(* leaves of inner ones (fitStreamingAggregateTo, refreshStreamingLossyDetails). *)
THEOREM FailsOnlyWhenSpentHolds == Spec => []FailsOnlyWhenSpent
<1>1. Init => IInv /\ FateInv
  BY InitIInv, InitFate
<1>2. (IInv /\ FateInv) /\ [Next]_vars => (IInv /\ FateInv)'
  BY InvInductive, FateInductive
<1>3. FateInv => FailsOnlyWhenSpent
  BY DEF FateInv
<1> QED BY <1>1, <1>2, <1>3, PTL DEF Spec

-----------------------------------------------------------------------------
(* Fitting shrinks a measure.                                              *)

LEMMA AtLeastOne ==
  ASSUME NEW n \in Nat
  PROVE  Max({1, n}) = IF n > 1 THEN n ELSE 1
<1> DEFINE m == IF n > 1 THEN n ELSE 1
<1>1. m \in {1, n} /\ \A y \in {1, n} : m >= y
  OBVIOUS
<1>2. \A x \in {1, n} : (\A y \in {1, n} : x >= y) => x = m
  OBVIOUS
<1> HIDE DEF m
<1>3. Max({1, n}) = m
  BY <1>1, <1>2 DEF Max
<1> QED BY <1>3 DEF m

(* A coarser generation has fewer coarser ones left.                       *)
Left(s, g) ==
  IF IsEquality(s) THEN Terminal - g.level ELSE Max({1, Cardinality(DOMAIN g.sets)}) - 1

LEMMA CoarserIsLess ==
  ASSUME NEW s, NEW g, WellFormed(s, g), Coarser(s, g) # None
  PROVE  Left(s, Coarser(s, g)) < Left(s, g)
<1>1. CASE IsEquality(s)
  <2>1. Coarser(s, g).level = g.level + 1
    BY <1>1 DEF Coarser, Rehashed
  <2>2. g.level \in Nat /\ Terminal \in Nat
    BY LossyAssumption DEF WellFormed
  <2> QED BY <1>1, <2>1, <2>2 DEF Left
<1>2. CASE ~IsEquality(s)
  <2> DEFINE D == DOMAIN g.sets
             p == BestPair(g)
             inner == IF schema[s].rule = "lessThan" THEN p[1] ELSE p[2]
  <2>1. ~ Cardinality(D) < 2 /\ Coarser(s, g) = MergedPair(s, g)
    BY <1>2 DEF Coarser
  <2>2. Mergeable(g)
    BY <1>2, <2>1 DEF WellFormed, Mergeable, KeysAt
  <2>3. inner \in D
    <3>1. p \in Pairs(g)
      BY <2>2, BestPairExists
    <3> HIDE DEF p
    <3>2. p[1] \in D /\ p[2] \in D
      BY <2>2, <3>1, PairMeasures
    <3> QED BY <3>2
  <2>4. DOMAIN Coarser(s, g).sets = D \ {inner}
    BY <2>1 DEF MergedPair
  <2>5. IsFiniteSet(D)
    BY <2>2, LossyAssumption, FS_Subset DEF Mergeable
  <2> HIDE DEF inner, D
  <2>6. Cardinality(D) \in Nat /\ Cardinality(D \ {inner}) = Cardinality(D) - 1
    BY <2>3, <2>5, FS_CardinalityType, FS_RemoveElement
  <2>7. /\ Max({1, Cardinality(D)}) = Cardinality(D)
        /\ Max({1, Cardinality(D) - 1}) = Cardinality(D) - 1
    <3>1. Cardinality(D) - 1 \in Nat
      BY <2>1, <2>6
    <3> QED BY <2>1, <2>6, <3>1, AtLeastOne
  <2>8. /\ Left(s, g) = Max({1, Cardinality(D)}) - 1
        /\ Left(s, Coarser(s, g)) = Max({1, Cardinality(D \ {inner})}) - 1
    BY <1>2, <2>4 DEF Left, D
  <2>9. Max({1, Cardinality(D \ {inner})}) = Cardinality(D) - 1
    BY <2>6, <2>7
  <2> QED BY <2>6, <2>7, <2>8, <2>9
<1> QED BY <1>1, <1>2

LEMMA LeftType ==
  ASSUME NEW s, NEW g, WellFormed(s, g)
  PROVE  Left(s, g) \in Nat
<1>1. CASE IsEquality(s)
  BY <1>1, LossyAssumption DEF Left, WellFormed
<1>2. CASE ~IsEquality(s)
  <2>1. IsFiniteSet(DOMAIN g.sets)
    BY <1>2, LossyAssumption, FS_Subset DEF WellFormed, KeysAt
  <2>2. Cardinality(DOMAIN g.sets) \in Nat
    BY <2>1, FS_CardinalityType
  <2> QED BY <1>2, <2>2, AtLeastOne DEF Left
<1> QED BY <1>1, <1>2

LEMMA CoarsenShrinks ==
  ASSUME IInv, Coarsen
  PROVE  /\ \A s \in Leaves : Potential(s)' =< Potential(s)
         /\ \E s \in Leaves : Potential(s)' < Potential(s)
         /\ work' = work
<1>1. PICK s \in Selected(Head(work).node) : gen' = [gen EXCEPT ![s] = Prepared(s)]
  BY DEF Coarsen
<1>2. UNCHANGED <<schema, work>>
  BY DEF Coarsen
<1>3. s \in Leaves /\ Prepared(s) # None /\ Prepared(s) = Coarser(s, gen[s])
  BY DEF Selected, Candidates, LeavesOf, Prepared, IInv, PreparedCurrent
<1>4. \A t \in Leaves : Potential(t) = Left(t, gen[t]) /\ Potential(t)' = Left(t, gen'[t])
  BY <1>2 DEF Potential, Left, IsEquality
<1>5. DOMAIN gen = Leaves /\ \A t \in Leaves : WellFormed(t, gen[t])
  BY DEF IInv, TypeOK
<1>6. Potential(s)' < Potential(s)
  <2>1. gen'[s] = Coarser(s, gen[s])
    BY <1>1, <1>3, <1>5
  <2> QED BY <1>3, <1>4, <1>5, <2>1, CoarserIsLess
<1>7. ASSUME NEW t \in Leaves PROVE Potential(t)' =< Potential(t)
  <2>1. CASE t = s
    <3>1. WellFormed(s, gen'[s])
      BY <1>1, <1>3, <1>5, CoarserKeeps
    <3>2. Potential(s)' \in Nat /\ Potential(s) \in Nat
      BY <1>3, <1>4, <1>5, <3>1, LeftType
    <3> QED BY <1>6, <2>1, <3>2
  <2>2. CASE t # s
    <3>1. gen'[t] = gen[t]
      BY <1>1, <2>2
    <3>2. Potential(t)' = Potential(t) /\ Potential(t) \in Nat
      BY <1>4, <1>5, <3>1, LeftType
    <3> QED BY <3>2
  <2> QED BY <2>1, <2>2
<1> QED BY <1>2, <1>3, <1>6, <1>7

LEMMA SettleShrinks ==
  ASSUME IInv, Settle
  PROVE  UNCHANGED gen /\ Len(work') < Len(work)
<1>1. UNCHANGED gen /\ work # <<>> /\ Settled(Head(work)) /\ work' = Unsettled
  BY DEF Settle
<1>2. PICK k \in 1..Len(work) : Len(work') = Len(work) - k
  BY <1>1, UnsettledIs
<1>3. Len(work) \in Nat
  <2> DEFINE T == [node : Nodes, bound : Nat, check : BOOLEAN]
  <2>1. work \in Seq(T)
    BY DEF IInv, TypeOK
  <2> HIDE DEF T
  <2> QED BY <2>1, LenProperties
<1> QED BY <1>1, <1>2, <1>3

(* Every fitting ends, with any schema and limits: each step leaves a leaf *)
(* with fewer coarser generations or finishes an item of the work, and     *)
(* none adds an item (fitStreamingAggregateTo, compileStreamingLossyTree). *)
THEOREM FittingShrinksHolds == Spec => FittingShrinks
<1> DEFINE Shrinks ==
      pc = "fitting" /\ pc' = "fitting" =>
        \/ /\ \A s \in Leaves : Potential(s)' =< Potential(s)
           /\ \E s \in Leaves : Potential(s)' < Potential(s)
           /\ work' = work
        \/ UNCHANGED gen /\ Len(work') < Len(work)
<1>1. IInv /\ [Next]_vars => [Shrinks]_vars
  <2> SUFFICES ASSUME IInv, Next, pc = "fitting", pc' = "fitting" PROVE Shrinks
    OBVIOUS
  <2>1. Coarsen \/ Settle
    BY DEF Next, Insert, Checkpoint, Finish, Fail, Resume, Done
  <2> QED BY <2>1, CoarsenShrinks, SettleShrinks
<1>2. Spec => [][Shrinks]_vars
  <2> HIDE DEF Shrinks
  <2> QED BY <1>1, AlwaysIInv, PTL DEF Spec
<1> QED BY <1>2 DEF FittingShrinks

-----------------------------------------------------------------------------
(* Exact leaves.                                                           *)

(* The IDs stored with a value, and the exact posting of a leaf by them.   *)
With(s, v) == {id \in Ids : <<s, v, id>> \in stored}

LEMMA ExactIs ==
  ASSUME NEW s
  PROVE  ExactPosting(s) =
           [level |-> 0,
            sets  |-> [v \in {w \in Values : With(s, w) # {}} |->
              [ids |-> With(s, v),
               compact |-> IsEquality(s) /\ Cardinality(With(s, v)) =< ArrayLimit]]]
<1>1. {w \in Values : \E id \in Ids : <<s, w, id>> \in stored} = {w \in Values : With(s, w) # {}}
  BY DEF With
<1> QED BY <1>1 DEF ExactPosting, With

(* An entry that is inserted into the exact posting of a leaf gives the    *)
(* exact posting of the leaf with that entry.                              *)
LEMMA InsertExact ==
  ASSUME IInv, NEW value \in [Leaves -> Values \cup {Missing}], NEW id \in Assignable,
         Insert(value, id), NEW s \in Leaves, gen[s] = ExactPosting(s)
  PROVE  gen'[s] = ExactPosting(s)'
<1>1. /\ schema' = schema /\ id \in Ids /\ value[s] \in Values \cup {Missing}
      /\ gen'[s] = IF value[s] = Missing THEN gen[s]
                   ELSE Stored(s, gen[s], StoreKey(s, value[s]), id)
      /\ stored' = stored \cup {<<t, value[t], id>> : t \in Leaves}
  BY DEF Insert, Assignable
<1>2. Missing \notin Values /\ ArrayLimit \in Nat /\ ArrayLimit > 0
  BY LossyAssumption
<1>3. ASSUME NEW v \in Values
      PROVE  With(s, v)' = IF v = value[s] THEN With(s, v) \cup {id} ELSE With(s, v)
  BY <1>1 DEF With
<1>4. IsEquality(s)' = IsEquality(s)
  BY <1>1 DEF IsEquality
<1> DEFINE W == {w \in Values : With(s, w) # {}}
           posting(v) == [ids |-> With(s, v),
                          compact |-> IsEquality(s) /\ Cardinality(With(s, v)) =< ArrayLimit]
<1>5. gen[s] = [level |-> 0, sets |-> [v \in W |-> posting(v)]]
  BY ExactIs
<1>6. ExactPosting(s)' =
        [level |-> 0,
         sets  |-> [v \in W' |->
           [ids |-> With(s, v)',
            compact |-> IsEquality(s) /\ Cardinality(With(s, v)') =< ArrayLimit]]]
  <2>1. {w \in Values : \E i \in Ids : <<s, w, i>> \in stored'}
          = {w \in Values : With(s, w)' # {}}
    BY DEF With
  <2> QED BY <1>4, <2>1 DEF ExactPosting, With
<1>7. CASE value[s] = Missing
  <2>1. \A v \in Values : With(s, v)' = With(s, v)
    BY <1>2, <1>3, <1>7
  <2>2. W' = W
    BY <2>1
  <2> QED BY <1>1, <1>5, <1>6, <1>7, <2>1, <2>2
<1>8. CASE value[s] # Missing
  <2> DEFINE u == value[s]
  <2>1. u \in Values /\ StoreKey(s, u) = u
    BY <1>1, <1>5, <1>8 DEF StoreKey, HashKey
  <2>2. W' = W \cup {u}
    BY <1>1, <1>3, <2>1
  <2>3. gen'[s] = [level |-> 0,
                   sets  |-> [c \in W \cup {u} |->
                     IF c # u THEN posting(c)
                     ELSE IF u \in W THEN Grown(posting(u), id) ELSE NewSet(s, id)]]
    <3>1. gen'[s] = Stored(s, gen[s], u, id)
      BY <1>1, <1>8, <2>1
    <3> HIDE DEF posting, u, W
    <3> QED BY <1>5, <3>1 DEF Stored
  <2>4. With(s, u)' = With(s, u) \cup {id}
    BY <1>3, <2>1
  <2>5. CASE u \in W
    <3>1. /\ IsFiniteSet(With(s, u) \cup {id})
          /\ Cardinality(With(s, u)) \in Nat /\ Cardinality(With(s, u) \cup {id}) \in Nat
      <4>1. With(s, u) \in SUBSET Ids /\ With(s, u) \cup {id} \in SUBSET Ids
        BY <1>1 DEF With
      <4> QED BY <4>1, IdsFinite
    <3>2. Cardinality(With(s, u)) =< Cardinality(With(s, u) \cup {id})
      BY <3>1, FS_Subset
    <3>3. (Cardinality(With(s, u)) =< ArrayLimit
             /\ Cardinality(With(s, u) \cup {id}) =< ArrayLimit)
            <=> Cardinality(With(s, u)') =< ArrayLimit
      <4> DEFINE few == Cardinality(With(s, u))
                 all == Cardinality(With(s, u) \cup {id})
      <4>1. few \in Nat /\ all \in Nat /\ few =< all /\ ArrayLimit \in Nat
        BY <1>2, <3>1, <3>2
      <4>2. Cardinality(With(s, u)') = all
        BY <2>4
      <4> HIDE DEF few, all
      <4>3. (few =< ArrayLimit /\ all =< ArrayLimit) <=> all =< ArrayLimit
        BY <4>1
      <4> QED BY <4>2, <4>3 DEF few, all
    <3>4. Grown(posting(u), id) =
            [ids |-> With(s, u)',
             compact |-> IsEquality(s) /\ Cardinality(With(s, u)') =< ArrayLimit]
      BY <2>4, <3>3 DEF Grown, IsEquality
    <3> QED BY <1>3, <1>6, <2>2, <2>3, <2>5, <3>4
  <2>6. CASE u \notin W
    <3>1. With(s, u)' = {id}
      BY <2>1, <2>4, <2>6
    <3>2. Cardinality(With(s, u)') = 1
      BY <3>1, FS_Singleton
    <3>3. NewSet(s, id) =
            [ids |-> With(s, u)',
             compact |-> IsEquality(s) /\ Cardinality(With(s, u)') =< ArrayLimit]
      BY <1>2, <3>1, <3>2 DEF NewSet, IsEquality
    <3> QED BY <1>3, <1>6, <2>2, <2>3, <2>6, <3>3
  <2> QED BY <2>5, <2>6
<1> QED BY <1>7, <1>8

(* A leaf is only coarsened for a policy that owns it and exceeds its      *)
(* limit: the node that is fitted lies below one that asks no less.        *)
LEMMA CoarsenExact ==
  ASSUME IInv, Coarsen, NEW s \in Leaves, gen'[s] # gen[s]
  PROVE  \E k \in Policies : s \in LeavesOf(k) /\ Usage(k) > schema[k].limit
<1> DEFINE item == Head(work)
<1>1. work # <<>> /\ Over(item) /\ s \in LeavesOf(item.node)
  <2>1. PICK t \in Selected(item.node) : gen' = [gen EXCEPT ![t] = Prepared(t)]
    BY DEF Coarsen
  <2>2. s = t
    BY <2>1 DEF IInv, TypeOK
  <2> QED BY <2>1, <2>2 DEF Coarsen, Selected, Candidates
<1>2. item \in Item(1, Len(schema))
  <2> DEFINE T == Item(1, Len(schema))
  <2>1. work \in Seq(T)
    BY DEF IInv, Owed
  <2> HIDE DEF T
  <2>2. Head(work) \in T
    BY <1>1, <2>1, HeadTailProperties
  <2> QED BY <2>2 DEF T
<1>3. PICK k \in Policies : item.node \in Subtree(k) /\ schema[k].limit =< item.bound
  BY <1>2 DEF Item, Owned
<1>4. item.node \in Nodes /\ item.bound \in Nat /\ schema[k].limit \in Nat /\ k \in Nodes
  BY <1>2, SchemaShape DEF IInv, TypeOK, Item
<1>5. LeavesOf(item.node) \subseteq LeavesOf(k)
  <2> DEFINE n == item.node
  <2>1. /\ n \in Nodes /\ k \in Nodes /\ n \in schema[k].from..k
        /\ Nodes = 1..Len(schema) /\ Len(schema) \in Nat
        /\ schema[k].from =< schema[n].from
        /\ schema[k].from \in 1..k /\ schema[n].from \in 1..n
    BY <1>3, <1>4, SchemaShape DEF IInv, TypeOK, Subtree
  <2> HIDE DEF n
  <2>2. Subtree(n) \subseteq Subtree(k)
    BY <2>1 DEF Subtree
  <2> QED BY <2>2 DEF LeavesOf, n
<1>6. Usage(item.node) =< Usage(k)
  BY <1>5, UsageWithin
<1>7. Usage(item.node) \in Nat /\ Usage(k) \in Nat
  BY UsageType
<1> QED BY <1>1, <1>3, <1>4, <1>5, <1>6, <1>7 DEF Over

(* "The exact representation is retained when it fits" (README.md:197),    *)
(* for every schema, input and limits: a leaf that is exact stays so       *)
(* through every step of the build, but when it is fitted while a policy   *)
(* that owns it exceeds its limit.                                         *)
THEOREM ExactKeptHolds == Spec => ExactKept
<1> DEFINE Keeps ==
      \A s \in Leaves : gen[s] = ExactPosting(s) =>
        \/ gen'[s] = ExactPosting(s)'
        \/ /\ pc = "fitting"
           /\ \E k \in Policies : s \in LeavesOf(k) /\ Usage(k) > schema[k].limit
<1>1. IInv /\ [Next]_vars => [Keeps]_vars
  <2> SUFFICES ASSUME IInv, Next, NEW s \in Leaves, gen[s] = ExactPosting(s)
               PROVE  \/ gen'[s] = ExactPosting(s)'
                      \/ /\ pc = "fitting"
                         /\ \E k \in Policies : s \in LeavesOf(k) /\ Usage(k) > schema[k].limit
    OBVIOUS
  <2>1. ASSUME NEW value \in [Leaves -> Values \cup {Missing}], NEW id \in Assignable,
               Insert(value, id)
        PROVE  gen'[s] = ExactPosting(s)'
    BY <2>1, InsertExact
  <2>2. ASSUME UNCHANGED <<schema, stored>>, gen'[s] = gen[s]
        PROVE  gen'[s] = ExactPosting(s)'
    BY <2>2 DEF ExactPosting, IsEquality
  <2>3. CASE Coarsen
    <3>1. UNCHANGED <<schema, stored>> /\ pc = "fitting"
      BY <2>3 DEF Coarsen
    <3> QED BY <2>2, <2>3, <3>1, CoarsenExact
  <2>4. CASE Checkpoint \/ Finish \/ Settle \/ Fail \/ Resume \/ Done
    <3>1. UNCHANGED <<schema, stored, gen>>
      BY <2>4 DEF Checkpoint, Finish, Settle, Fail, Resume, Done, vars
    <3> QED BY <2>2, <3>1
  <2> QED BY <2>1, <2>3, <2>4 DEF Next
<1>2. Spec => [][Keeps]_vars
  <2> HIDE DEF Keeps
  <2> QED BY <1>1, AlwaysIInv, PTL DEF Spec
<1> QED BY <1>2 DEF ExactKept
==============================================================================
