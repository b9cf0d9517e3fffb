--------------------------- MODULE NodeSlotProofs ----------------------------
(***************************************************************************)
(* Proofs about the value cache of a node, and about the slot it shares    *)
(* with a pair cache, for every set of values and of operands on the node. *)
(***************************************************************************)
EXTENDS NodeSlot, LocalCacheProofs, FiniteSetTheorems

-----------------------------------------------------------------------------
(* The value cache by itself                                               *)

(* TypeOK and NoDoubleRetention made inductive                             *)
IInv == CacheInv(cache)

-----------------------------------------------------------------------------
(* Every step of the cache keeps it.                                       *)
LEMMA InvInductive == IInv /\ [Next]_cache => IInv'
<1> SUFFICES ASSUME IInv, [Next]_cache PROVE IInv'
  OBVIOUS
<1>1. CASE ResetCache
  BY <1>1, EmptyCacheInv DEF ResetCache, IInv
<1>2. ASSUME NEW k \in Keys, Hit(k) PROVE IInv'
  <2>1. PICK i \in Slots : cache.entry[i] = k /\ cache' = Touched(cache, i)
    BY <1>2 DEF Hit
  <2>2. cache.entry[i] # NoKey
    BY <2>1, KeyAssumption
  <2> QED BY <2>1, <2>2, TouchedInv DEF IInv
<1>3. ASSUME NEW k \in Keys, Remember(k) PROVE IInv'
  BY <1>3, RememberedInv DEF Remember, IInv
<1>4. ASSUME NEW k \in Keys, Admit(k) PROVE IInv'
  <2> DEFINE f == Forgotten(cache, k)
  <2>1. CacheInv(f) /\ SeenKeys(f) = SeenKeys(cache) \ {k} /\ f.entry = cache.entry
    BY ForgottenInv DEF IInv
  <2>2. k \notin CachedKeys(f) /\ k \notin SeenKeys(f)
    BY <1>4, <2>1 DEF Admit, CachedKeys
  <2> QED BY <1>4, <2>1, <2>2, ReplacedInv DEF Admit, IInv
<1>5. CASE UNCHANGED cache
  BY <1>5 DEF IInv
<1> QED BY <1>1, <1>2, <1>3, <1>4, <1>5 DEF Next

LEMMA AlwaysIInv == Spec => []IInv
<1>1. Init => IInv
  BY EmptyCacheInv DEF Init, IInv
<1> QED BY <1>1, InvInductive, PTL DEF Spec

(* The cache record stays well formed: newValueBitmapCache, lookup, admit, *)
(* replace, grow and reset never leave an index or counter out of range.   *)
THEOREM TypeCorrect == Spec => []TypeOK
<1>1. IInv => TypeOK
  BY DEF IInv, CacheInv, TypeOK
<1> QED BY <1>1, AlwaysIInv, PTL

(* admit and replace never give one value two slots, nor a slot and a      *)
(* place in the seen ring.                                                 *)
THEOREM NoDoubleRetentionHolds == Spec => []NoDoubleRetention
<1>1. IInv => NoDoubleRetention
  BY DEF IInv, CacheInv, NoDouble, NoDoubleRetention
<1> QED BY <1>1, AlwaysIInv, PTL

-----------------------------------------------------------------------------
(***************************************************************************)
(* Least recently used.  Age and OlderIn are Stamp and Older of any cache. *)
(***************************************************************************)
Age(c, i) == IF c.wide THEN c.used[i] ELSE IF i = c.next THEN 1 ELSE 2

OlderIn(c, k) ==
  {c.entry[j] : j \in {j \in Slots : c.entry[j] # NoKey /\
     \E i \in Slots : c.entry[i] = k /\ Age(c, j) < Age(c, i)}}

Capacity(c) == IF c.wide THEN 4 ELSE 2

LEMMA SameOlder == \A k : Older(k) = OlderIn(cache, k)
BY DEF Older, OlderIn, Stamp, Age

LEMMA AgeIsNat ==
  ASSUME NEW c, CacheInv(c), NEW i \in Slots
  PROVE  Age(c, i) \in Nat
BY DEF CacheInv, CacheType, Age

(* A cache that differs in what it has seen has the same order.            *)
LEMMA OrderFromSlots ==
  ASSUME NEW c, NEW d, d.entry = c.entry,
         \A i, j \in Slots : c.entry[i] # NoKey /\ c.entry[j] # NoKey =>
           (Age(d, i) < Age(d, j) <=> Age(c, i) < Age(c, j))
  PROVE  \A k \in Keys : OlderIn(d, k) = OlderIn(c, k)
<1> SUFFICES ASSUME NEW k \in Keys PROVE OlderIn(d, k) = OlderIn(c, k)
  OBVIOUS
<1>1. k # NoKey
  BY KeyAssumption
<1>2. \A j \in Slots : (c.entry[j] # NoKey /\ \E i \in Slots : c.entry[i] = k /\ Age(d, j) < Age(d, i))
                  <=>  (c.entry[j] # NoKey /\ \E i \in Slots : c.entry[i] = k /\ Age(c, j) < Age(c, i))
  BY <1>1
<1> QED BY <1>2 DEF OlderIn

(* LruCache's Newest, of the order of any cache                            *)
NewestIn(c, s, k, kept) ==
  \A x \in Keys : OlderIn(s, x) =
    IF x = k THEN kept \ {k} ELSE IF x \in kept THEN (OlderIn(c, x) \cap kept) \ {k} ELSE {}

(* Slot i becomes the youngest, the others keep their order.               *)
MakesYoungest(c, s, i) ==
  /\ \A j, m \in Slots \ {i} : c.entry[j] # NoKey /\ c.entry[m] # NoKey =>
       (Age(s, j) < Age(s, m) <=> Age(c, j) < Age(c, m))
  /\ \A j \in Slots \ {i} : c.entry[j] # NoKey =>
       Age(s, j) < Age(s, i) /\ ~(Age(s, i) < Age(s, j))
  /\ ~(Age(s, i) < Age(s, i))

(* A slot that takes k and becomes the youngest leaves the others in the   *)
(* order they had: what LruCache's Newest says.                            *)
LEMMA YoungestSlot ==
  ASSUME NEW c, CacheInv(c), NEW s, NEW k \in Keys, NEW i \in Slots, NEW kept,
         s.entry = [c.entry EXCEPT ![i] = k],
         c.entry[i] = k \/ k \notin CachedKeys(c),
         kept \ {k} = {c.entry[j] : j \in Slots \ {i}} \ {NoKey},
         MakesYoungest(c, s, i)
  PROVE  NewestIn(c, s, k, kept)
<1> SUFFICES ASSUME NEW x \in Keys
             PROVE  OlderIn(s, x) = IF x = k THEN kept \ {k}
                      ELSE IF x \in kept THEN (OlderIn(c, x) \cap kept) \ {k} ELSE {}
  BY DEF NewestIn
<1> USE DEF MakesYoungest
<1>1. /\ c.entry \in [Slots -> Slot]
      /\ k # NoKey /\ x # NoKey
      /\ \A j, m \in Slots : c.entry[j] = c.entry[m] /\ c.entry[j] # NoKey => j = m
  BY KeyAssumption DEF CacheInv, CacheType, NoDouble, Distinct
<1>2. /\ s.entry[i] = k
      /\ \A j \in Slots \ {i} : s.entry[j] = c.entry[j] /\ c.entry[j] # k
  BY <1>1 DEF CachedKeys
<1>3. CASE x = k
  <2>1. {j \in Slots : s.entry[j] # NoKey /\ \E m \in Slots : s.entry[m] = x /\ Age(s, j) < Age(s, m)}
          = {j \in Slots \ {i} : c.entry[j] # NoKey}
    <3>1. \A n \in Slots : s.entry[n] = k <=> n = i
      BY <1>2
    <3> QED BY <1>1, <1>2, <1>3, <3>1
  <2>2. OlderIn(s, x) = {c.entry[j] : j \in {j \in Slots \ {i} : c.entry[j] # NoKey}}
    BY <1>2, <2>1 DEF OlderIn
  <2> QED BY <1>3, <2>2
<1>4. CASE x # k /\ x \in kept
  <2>1. PICK m \in Slots \ {i} : c.entry[m] = x
    BY <1>1, <1>4
  <2>2. \A n \in Slots : (s.entry[n] = x <=> n = m) /\ (c.entry[n] = x => n = m \/ n = i)
    BY <1>1, <1>2, <1>4, <2>1
  <2>3. {j \in Slots : s.entry[j] # NoKey /\ \E n \in Slots : s.entry[n] = x /\ Age(s, j) < Age(s, n)}
          = {j \in Slots : s.entry[j] # NoKey /\ Age(s, j) < Age(s, m)}
    BY <2>1, <2>2
  <2>4. {j \in Slots : c.entry[j] # NoKey /\ \E n \in Slots : c.entry[n] = x /\ Age(c, j) < Age(c, n)}
          = {j \in Slots : c.entry[j] # NoKey /\ Age(c, j) < Age(c, m)}
    BY <1>1, <2>1
  <2>5. OlderIn(s, x) = {s.entry[j] : j \in {j \in Slots : s.entry[j] # NoKey /\ Age(s, j) < Age(s, m)}}
    BY <2>3 DEF OlderIn
  <2>6. OlderIn(c, x) = {c.entry[j] : j \in {j \in Slots : c.entry[j] # NoKey /\ Age(c, j) < Age(c, m)}}
    BY <2>4 DEF OlderIn
  <2>7. ~(Age(s, i) < Age(s, m))
    BY <1>1, <2>1
  <2>8. ASSUME NEW y PROVE y \in OlderIn(s, x) <=> y \in (OlderIn(c, x) \cap kept) \ {k}
    <3>1. ASSUME y \in OlderIn(s, x) PROVE y \in (OlderIn(c, x) \cap kept) \ {k}
      <4>1. PICK j \in Slots : y = s.entry[j] /\ s.entry[j] # NoKey /\ Age(s, j) < Age(s, m)
        BY <2>5, <3>1
      <4>2. j # i
        BY <2>7, <4>1
      <4>3. y = c.entry[j] /\ c.entry[j] # NoKey /\ c.entry[j] # k
        BY <1>2, <4>1, <4>2
      <4>4. Age(c, j) < Age(c, m)
        BY <1>1, <2>1, <4>1, <4>2, <4>3
      <4>5. y \in kept \ {k}
        BY <4>2, <4>3
      <4> QED BY <2>6, <4>3, <4>4, <4>5
    <3>2. ASSUME y \in (OlderIn(c, x) \cap kept) \ {k} PROVE y \in OlderIn(s, x)
      <4>1. PICK j \in Slots : y = c.entry[j] /\ c.entry[j] # NoKey /\ Age(c, j) < Age(c, m)
        BY <2>6, <3>2
      <4>2. PICK n \in Slots \ {i} : y = c.entry[n]
        BY <3>2
      <4>3. j = n
        BY <1>1, <4>1, <4>2
      <4>4. s.entry[j] = y /\ Age(s, j) < Age(s, m)
        BY <1>1, <1>2, <2>1, <4>1, <4>2, <4>3
      <4> QED BY <2>5, <4>1, <4>4
    <3> QED BY <3>1, <3>2
  <2> QED BY <1>4, <2>8
<1>5. CASE x # k /\ x \notin kept
  <2>1. \A n \in Slots : s.entry[n] # x
    <3>1. ASSUME NEW n \in Slots, s.entry[n] = x PROVE FALSE
      <4>1. n # i /\ c.entry[n] = x
        BY <1>2, <1>5, <3>1
      <4> QED BY <1>1, <1>5, <4>1
    <3> QED BY <3>1
  <2> QED BY <1>5, <2>1 DEF OlderIn
<1> QED BY <1>3, <1>4, <1>5

(* A hit makes the slot the youngest; so does storing into it.  The rest   *)
(* keep their order.                                                       *)
LEMMA YoungestAfter ==
  ASSUME NEW c, CacheInv(c), NEW s, NEW i \in Slots, ~c.wide => i \in Narrow,
         s.wide = c.wide,
         c.wide => s.used = [c.used EXCEPT ![i] = c.clock + 1],
         ~c.wide => s.next = 3 - i
  PROVE  MakesYoungest(c, s, i)
<1> USE DEF MakesYoungest
<1>1. CASE c.wide
  <2>1. c.used \in [Slots -> Nat] /\ c.clock \in Nat /\ \A j \in Slots : c.used[j] <= c.clock
    BY <1>1 DEF CacheInv, CacheType, WideShape
  <2>2. \A j \in Slots : /\ Age(c, j) = c.used[j]
                         /\ Age(s, j) = IF j = i THEN c.clock + 1 ELSE c.used[j]
    BY <1>1, <2>1 DEF Age
  <2>3. \A j \in Slots : c.used[j] < c.clock + 1 /\ ~(c.clock + 1 < c.used[j])
    BY <2>1
  <2>4. ~(c.clock + 1 < c.clock + 1)
    BY <2>1
  <2> QED BY <2>2, <2>3, <2>4
<1>2. CASE ~c.wide
  <2>1. i \in 1..2 /\ c.next \in 1..2
    BY <1>2 DEF CacheInv, CacheType, Narrow
  <2>2. \A j \in Slots \ {i} : c.entry[j] # NoKey => j = 3 - i
    BY <1>2, <2>1 DEF CacheInv, NarrowShape, Slots
  <2>3. Age(s, i) = 2 /\ Age(s, 3 - i) = 1
    BY <1>2, <2>1 DEF Age
  <2>4. Age(c, 3 - i) \in {1, 2}
    BY <1>2 DEF Age
  <2> QED BY <2>2, <2>3, <2>4
<1> QED BY <1>1, <1>2

Two(S, a, b)         == S = {a, b} /\ a # b
Three(S, a, b, d)    == S = {a, b, d} /\ Two({a, b}, a, b) /\ d # a /\ d # b
Four(S, a, b, d, f)  == S = {a, b, d, f} /\ Three({a, b, d}, a, b, d) /\ f # a /\ f # b /\ f # d

LEMMA CardinalityTwo ==
  ASSUME NEW S, NEW a, NEW b, Two(S, a, b)
  PROVE  IsFiniteSet(S) /\ Cardinality(S) = 2
<1>1. Cardinality({a}) = 1 /\ IsFiniteSet({a})
  BY FS_Singleton
<1>2. /\ IsFiniteSet({a} \cup {b})
      /\ Cardinality({a} \cup {b}) = IF b \in {a} THEN Cardinality({a}) ELSE Cardinality({a}) + 1
  BY <1>1, FS_AddElement
<1>3. S = {a} \cup {b} /\ b \notin {a}
  BY DEF Two
<1> QED BY <1>1, <1>2, <1>3

LEMMA CardinalityThree ==
  ASSUME NEW S, NEW a, NEW b, NEW d, Three(S, a, b, d)
  PROVE  IsFiniteSet(S) /\ Cardinality(S) = 3
<1> DEFINE T == {a, b}
<1>1. Cardinality(T) = 2 /\ IsFiniteSet(T)
  BY CardinalityTwo DEF Three
<1>2. d \notin T /\ S = T \cup {d}
  BY DEF Three
<1> HIDE DEF T
<1>3. /\ IsFiniteSet(T \cup {d})
      /\ Cardinality(T \cup {d}) = IF d \in T THEN Cardinality(T) ELSE Cardinality(T) + 1
  BY <1>1, FS_AddElement
<1> QED BY <1>1, <1>2, <1>3

LEMMA CardinalityFour ==
  ASSUME NEW S, NEW a, NEW b, NEW d, NEW f, Four(S, a, b, d, f)
  PROVE  IsFiniteSet(S) /\ Cardinality(S) = 4
<1> DEFINE T == {a, b, d}
<1>1. Cardinality(T) = 3 /\ IsFiniteSet(T)
  BY CardinalityThree DEF Four
<1>2. f \notin T /\ S = T \cup {f}
  BY DEF Four
<1> HIDE DEF T
<1>3. /\ IsFiniteSet(T \cup {f})
      /\ Cardinality(T \cup {f}) = IF f \in T THEN Cardinality(T) ELSE Cardinality(T) + 1
  BY <1>1, FS_AddElement
<1> QED BY <1>1, <1>2, <1>3

(* replace finds the only slots there are taken exactly when the cache     *)
(* holds as many values as it can, and then its victim is the oldest.      *)
LEMMA FullCache ==
  ASSUME NEW c, CacheInv(c)
  PROVE  /\ c.entry[Victim(c)] # NoKey <=> Cardinality(CachedKeys(c)) = Capacity(c)
         /\ \A j \in Slots : c.entry[j] # NoKey /\ c.entry[Victim(c)] # NoKey =>
              ~(Age(c, j) < Age(c, Victim(c)))
<1> DEFINE e == c.entry
<1>1. /\ e \in [Slots -> Slot] /\ c.used \in [Slots -> Nat] /\ c.next \in 1..2
      /\ \A j, m \in Slots : e[j] = e[m] /\ e[j] # NoKey => j = m
  BY DEF CacheInv, CacheType, NoDouble, Distinct, Narrow
<1>5. CachedKeys(c) = {e[1], e[2], e[3], e[4]} \ {NoKey}
  BY DEF CachedKeys, Slots
<1>6. CASE ~c.wide
  <2>1. /\ e[3] = NoKey /\ e[4] = NoKey
        /\ e[1] = NoKey => e[2] = NoKey /\ c.next = 1
        /\ e[2] = NoKey => e[1] = NoKey \/ c.next = 2
    BY <1>6 DEF CacheInv, NarrowShape
  <2>2. Victim(c) = c.next /\ Capacity(c) = 2
    BY <1>6 DEF Victim, Capacity
  <2>3. CASE e[1] = NoKey
    <3>1. CachedKeys(c) = {} /\ e[Victim(c)] = NoKey
      BY <1>1, <1>5, <2>1, <2>2, <2>3
    <3> QED BY <2>2, <3>1, FS_EmptySet
  <2>4. CASE e[1] # NoKey /\ e[2] = NoKey
    <3>1. CachedKeys(c) = {e[1]} /\ e[Victim(c)] = NoKey
      BY <1>1, <1>5, <2>1, <2>2, <2>4
    <3>2. Cardinality(CachedKeys(c)) = 1
      BY <3>1, FS_Singleton
    <3> QED BY <2>2, <3>1, <3>2
  <2>5. CASE e[1] # NoKey /\ e[2] # NoKey
    <3>1. CachedKeys(c) = {e[1], e[2]} /\ e[Victim(c)] # NoKey /\ e[1] # e[2]
      BY <1>1, <1>5, <2>1, <2>2, <2>5 DEF Slots
    <3>2. \A j \in Slots : ~(Age(c, j) < Age(c, c.next))
      <4>1. \A j \in Slots : Age(c, j) \in {1, 2} /\ Age(c, c.next) = 1
        BY <1>6 DEF Age
      <4> QED BY <4>1
    <3>3. Cardinality(CachedKeys(c)) = 2
      <4>1. Two(CachedKeys(c), e[1], e[2])
        BY <3>1 DEF Two
      <4> QED BY <4>1, CardinalityTwo
    <3> QED BY <2>2, <3>1, <3>2, <3>3
  <2> QED BY <2>3, <2>4, <2>5
<1>7. CASE c.wide
  <2>1. e[1] # NoKey /\ e[2] # NoKey /\ (e[4] # NoKey => e[3] # NoKey) /\ e[1] # e[2]
    BY <1>1, <1>7 DEF CacheInv, WideShape, Slots
  <2>2. Capacity(c) = 4
    BY <1>7 DEF Capacity
  <2> DEFINE empty == {i \in 2..4 : e[i] = NoKey}
  <2>3. CASE empty # {}
    <3>1. Victim(c) = CHOOSE i \in empty : \A j \in empty : i <= j
      BY <1>7, <2>3 DEF Victim
    <3>2. \E i \in empty : \A j \in empty : i <= j
      BY <2>3
    <3>3. Victim(c) \in empty
      BY <3>1, <3>2
    <3>4. e[4] = NoKey
      BY <2>1, <2>3
    <3>5. CASE e[3] = NoKey
      <4>1. CachedKeys(c) = {e[1], e[2]}
        BY <1>5, <2>1, <3>4, <3>5
      <4>2. Two(CachedKeys(c), e[1], e[2])
        BY <2>1, <4>1 DEF Two
      <4>3. Cardinality(CachedKeys(c)) = 2
        BY <4>2, CardinalityTwo
      <4> QED BY <2>2, <3>3, <4>3
    <3>6. CASE e[3] # NoKey
      <4>1. CachedKeys(c) = {e[1], e[2], e[3]} /\ e[3] # e[1] /\ e[3] # e[2]
        BY <1>1, <1>5, <2>1, <3>4, <3>6 DEF Slots
      <4>2. Three(CachedKeys(c), e[1], e[2], e[3])
        BY <2>1, <4>1 DEF Three, Two
      <4>3. Cardinality(CachedKeys(c)) = 3
        BY <4>2, CardinalityThree
      <4> QED BY <2>2, <3>3, <4>3
    <3> QED BY <3>5, <3>6
  <2>4. CASE empty = {}
    <3> DEFINE oldest(i) == \A j \in Slots : c.used[i] < c.used[j] \/ (c.used[i] = c.used[j] /\ i <= j)
    <3>1. Victim(c) = CHOOSE i \in Slots : oldest(i)
      BY <1>7, <2>4 DEF Victim
    <3>2. oldest(1) \/ oldest(2) \/ oldest(3) \/ oldest(4)
      BY <1>1 DEF Slots
    <3> HIDE DEF oldest
    <3>3. Victim(c) \in Slots /\ oldest(Victim(c))
      <4>1. \E i \in Slots : oldest(i)
        BY <3>2 DEF Slots
      <4> QED BY <3>1, <4>1
    <3>4. e[3] # NoKey /\ e[4] # NoKey
      BY <2>4
    <3>5. \A j \in Slots : e[j] # NoKey
      BY <2>1, <3>4 DEF Slots
    <3>6. /\ CachedKeys(c) = {e[1], e[2], e[3], e[4]}
          /\ e[3] # e[1] /\ e[3] # e[2] /\ e[4] \notin {e[1], e[2], e[3]}
      BY <1>1, <1>5, <3>5 DEF Slots
    <3>7. Cardinality(CachedKeys(c)) = 4
      <4>1. Four(CachedKeys(c), e[1], e[2], e[3], e[4])
        BY <2>1, <3>6 DEF Four, Three, Two
      <4> QED BY <4>1, CardinalityFour
    <3>8. \A j \in Slots : ~(Age(c, j) < Age(c, Victim(c)))
      BY <1>1, <1>7, <3>3 DEF Age, oldest
    <3> QED BY <2>2, <3>3, <3>5, <3>7, <3>8
  <2> QED BY <2>3, <2>4
<1> QED BY <1>6, <1>7

(* The shape of a slot in which Touched and Stored make a value youngest   *)
LEMMA NewestAfter ==
  ASSUME NEW c, CacheInv(c), NEW s, NEW k \in Keys, NEW i \in Slots, NEW kept,
         ~c.wide => i \in Narrow,
         s.wide = c.wide, s.entry = [c.entry EXCEPT ![i] = k],
         c.wide => s.used = [c.used EXCEPT ![i] = c.clock + 1],
         ~c.wide => s.next = 3 - i,
         c.entry[i] = k \/ k \notin CachedKeys(c),
         kept \ {k} = {c.entry[j] : j \in Slots \ {i}} \ {NoKey}
  PROVE  NewestIn(c, s, k, kept)
<1>1. MakesYoungest(c, s, i)
  BY YoungestAfter
<1> QED BY <1>1, YoungestSlot

LEMMA TouchedNewest ==
  ASSUME NEW c, CacheInv(c), NEW k \in Keys, NEW i \in Slots, c.entry[i] = k
  PROVE  /\ NewestIn(c, Touched(c, i), k, CachedKeys(c))
         /\ CachedKeys(Touched(c, i)) = CachedKeys(c)
         /\ SeenKeys(Touched(c, i)) = SeenKeys(c)
         /\ Capacity(Touched(c, i)) = Capacity(c)
<1> DEFINE t == Touched(c, i)
<1>1. k # NoKey
  BY KeyAssumption
<1>2. CacheInv(t) /\ t.entry = c.entry /\ t.seen = c.seen /\ t.wide = c.wide
  BY <1>1, TouchedInv
<1>3. /\ c.wide => t.used = [c.used EXCEPT ![i] = c.clock + 1]
      /\ ~c.wide => t.next = 3 - i
  BY DEF Touched, CacheInv, CacheType
<1>4. ~c.wide => i \in Narrow
  BY <1>1 DEF CacheInv, NarrowShape, Slots, Narrow
<1>5. /\ c.entry \in [Slots -> Slot]
      /\ \A j, m \in Slots : c.entry[j] = c.entry[m] /\ c.entry[j] # NoKey => j = m
  BY DEF CacheInv, CacheType, NoDouble, Distinct
<1>6. c.entry = [c.entry EXCEPT ![i] = k]
  BY <1>5
<1>7. CachedKeys(c) \ {k} = {c.entry[j] : j \in Slots \ {i}} \ {NoKey}
  BY <1>1, <1>5 DEF CachedKeys
<1> HIDE DEF t
<1>8. t.entry = [c.entry EXCEPT ![i] = k]
  BY <1>2, <1>6
<1>9. NewestIn(c, t, k, CachedKeys(c))
  BY <1>2, <1>3, <1>4, <1>7, <1>8, NewestAfter
<1> QED BY <1>2, <1>9 DEF t, CachedKeys, SeenKeys, Capacity

(* replace on a cache whose pressure has been dealt with                   *)
LEMMA StoredNewest ==
  ASSUME NEW c, CacheInv(c), NEW k \in Keys, k \notin CachedKeys(c), NEW dropped,
         dropped = {c.entry[Victim(c)]} \ {NoKey}
  PROVE  /\ NewestIn(c, Stored(c, k), k, CachedKeys(c) \ dropped)
         /\ CachedKeys(Stored(c, k)) = (CachedKeys(c) \ dropped) \cup {k}
         /\ SeenKeys(Stored(c, k)) = SeenKeys(c)
         /\ Capacity(Stored(c, k)) = Capacity(c)
<1> DEFINE s == Stored(c, k)
           i == Victim(c)
<1>1. k # NoKey
  BY KeyAssumption
<1>2. i \in Slots /\ (~c.wide => i \in Narrow)
  BY VictimInSlots
<1>3. /\ s.entry = [c.entry EXCEPT ![i] = k] /\ s.seen = c.seen /\ s.wide = c.wide
      /\ c.wide => s.used = [c.used EXCEPT ![i] = c.clock + 1]
      /\ ~c.wide => s.next = 3 - i
  BY DEF Stored, CacheInv, CacheType
<1>4. /\ c.entry \in [Slots -> Slot]
      /\ \A j, m \in Slots : c.entry[j] = c.entry[m] /\ c.entry[j] # NoKey => j = m
      /\ \A j \in Slots : c.entry[j] # k
  BY <1>1 DEF CacheInv, CacheType, NoDouble, Distinct, CachedKeys
<1> HIDE DEF i, s
<1>5. CachedKeys(c) \ dropped = {c.entry[j] : j \in Slots \ {i}} \ {NoKey}
  BY <1>2, <1>4 DEF CachedKeys, i
<1>6. (CachedKeys(c) \ dropped) \ {k} = {c.entry[j] : j \in Slots \ {i}} \ {NoKey}
  BY <1>4, <1>5
<1>7. CachedKeys(s) = (CachedKeys(c) \ dropped) \cup {k}
  <2>1. \A j \in Slots : s.entry[j] = IF j = i THEN k ELSE c.entry[j]
    BY <1>2, <1>3, <1>4
  <2>2. CachedKeys(s) = ({c.entry[j] : j \in Slots \ {i}} \ {NoKey}) \cup {k}
    BY <1>1, <1>2, <2>1 DEF CachedKeys
  <2> QED BY <1>5, <2>2
<1>8. NewestIn(c, s, k, CachedKeys(c) \ dropped)
  BY <1>2, <1>3, <1>6, NewestAfter
<1> QED BY <1>3, <1>7, <1>8 DEF s, SeenKeys, Capacity

(* Widening keeps the order of the two slots there were.                   *)
LEMMA PressedView ==
  ASSUME NEW c, CacheInv(c)
  PROVE  /\ CachedKeys(Pressed(c)) = CachedKeys(c)
         /\ SeenKeys(Pressed(c)) = SeenKeys(c)
         /\ \A x \in Keys : OlderIn(Pressed(c), x) = OlderIn(c, x)
         /\ Capacity(Pressed(c)) # Capacity(c) =>
              Capacity(Pressed(c)) = 4 /\ Cardinality(CachedKeys(c)) = Capacity(c)
<1> DEFINE p == Pressed(c)
<1>1. p.entry = c.entry /\ p.seen = c.seen
  BY PressedInv
<1>2. CASE c.wide \/ c.entry[c.next] = NoKey
  BY <1>2 DEF Pressed
<1>3. CASE ~c.wide /\ c.entry[c.next] # NoKey /\ c.pressure + 1 < 2
  <2>1. p.wide = c.wide /\ p.next = c.next /\ p.used = c.used
    BY <1>3 DEF Pressed, CacheInv, CacheType
  <2>2. \A j \in Slots : Age(p, j) = Age(c, j)
    BY <2>1 DEF Age
  <2> HIDE DEF p
  <2>3. \A x \in Keys : OlderIn(p, x) = OlderIn(c, x)
    BY <1>1, <2>2, OrderFromSlots
  <2> QED BY <1>1, <2>1, <2>3 DEF p, CachedKeys, SeenKeys, Capacity
<1>4. CASE ~c.wide /\ c.entry[c.next] # NoKey /\ ~(c.pressure + 1 < 2)
  <2>1. c.pressure \in 0..2 /\ c.next \in 1..2
    BY DEF CacheInv, CacheType, Narrow
  <2>2. /\ p.wide
        /\ p.used = [i \in Slots |-> IF i = c.next THEN 1 ELSE IF i = 3 - c.next THEN 2 ELSE 0]
    BY <1>4, <2>1 DEF Pressed, Grown, CacheInv, CacheType
  <2>3. \A j \in Slots : c.entry[j] # NoKey => j \in 1..2
    BY <1>4 DEF CacheInv, NarrowShape, Slots
  <2>4. \A j \in Slots : c.entry[j] # NoKey => Age(p, j) = Age(c, j)
    BY <1>4, <2>1, <2>2, <2>3 DEF Age
  <2> HIDE DEF p
  <2>5. \A x \in Keys : OlderIn(p, x) = OlderIn(c, x)
    BY <1>1, <2>4, OrderFromSlots
  <2>6. Capacity(p) = 4 /\ Capacity(c) = 2
    BY <1>4, <2>2 DEF Capacity
  <2>7. Victim(c) = c.next
    BY <1>4 DEF Victim
  <2>8. Cardinality(CachedKeys(c)) = Capacity(c)
    BY <1>4, <2>7, FullCache
  <2> QED BY <1>1, <2>5, <2>6, <2>8 DEF p, CachedKeys, SeenKeys
<1>5. c.pressure \in Int
  BY DEF CacheInv, CacheType
<1> QED BY <1>2, <1>3, <1>4, <1>5

-----------------------------------------------------------------------------
(* Each action of the cache is one of LruCache, under the mapping.         *)
LEMMA NewestMapped ==
  ASSUME NEW k \in Keys, NEW kept, NewestIn(cache, cache', k, kept)
  PROVE  [x \in Keys |-> Older(x)]' = Lru!Newest(k, kept)
<1>1. [x \in Keys |-> Older(x)]' = [x \in Keys |-> OlderIn(cache', x)]
  BY DEF Older, OlderIn, Stamp, Age
<1>2. \A x \in Keys : [y \in Keys |-> Older(y)][x] = OlderIn(cache, x)
  BY SameOlder
<1> QED BY <1>1, <1>2 DEF NewestIn, Lru!Newest

(* LruCache counts its own way only in name.                               *)
LEMMA SameCardinality == \A S : Lru!Cardinality(S) = Cardinality(S)
BY DEF Lru!Cardinality, Cardinality

LEMMA HitUses ==
  ASSUME IInv, NEW k \in Keys, Hit(k)
  PROVE  Lru!Use(k)
<1>1. PICK i \in Slots : cache.entry[i] = k /\ cache' = Touched(cache, i)
  BY DEF Hit
<1>2. /\ NewestIn(cache, cache', k, CachedKeys(cache))
      /\ CachedKeys(cache') = CachedKeys(cache) /\ SeenKeys(cache') = SeenKeys(cache)
      /\ Capacity(cache') = Capacity(cache)
  BY <1>1, TouchedNewest DEF IInv
<1>3. [x \in Keys |-> Older(x)]' = Lru!Newest(k, CachedKeys(cache))
  BY <1>2, NewestMapped
<1>4. k \in CachedKeys(cache)
  BY <1>1, KeyAssumption DEF CachedKeys
<1> QED BY <1>2, <1>3, <1>4 DEF Lru!Use, Capacity

LEMMA RememberMisses ==
  ASSUME IInv, NEW k \in Keys, Remember(k)
  PROVE  Lru!MissOnce(k)
<1>1. /\ CachedKeys(cache') = CachedKeys(cache) /\ cache'.entry = cache.entry
      /\ k \in SeenKeys(cache') /\ SeenKeys(cache') \subseteq SeenKeys(cache) \cup {k}
  BY RememberedInv DEF Remember, IInv, CachedKeys
<1>2. cache'.wide = cache.wide /\ cache'.used = cache.used /\ cache'.next = cache.next
  BY DEF Remember, Remembered, IInv, CacheInv, CacheType
<1>3. [x \in Keys |-> Older(x)]' = [x \in Keys |-> Older(x)]
  BY <1>1, <1>2 DEF Older, Stamp
<1> QED BY <1>1, <1>2, <1>3 DEF Remember, Lru!MissOnce

LEMMA AdmitRetains ==
  ASSUME IInv, NEW k \in Keys, Admit(k)
  PROVE  Lru!Retain(k)
<1> DEFINE f == Forgotten(cache, k)
           p == Pressed(f)
           dropped == {p.entry[Victim(p)]} \ {NoKey}
<1>1. /\ CacheInv(f) /\ SeenKeys(f) = SeenKeys(cache) \ {k}
      /\ f.entry = cache.entry /\ f.wide = cache.wide /\ f.used = cache.used /\ f.next = cache.next
  BY ForgottenInv, SMTT(30) DEF IInv, Forgotten, CacheInv, CacheType
<1>2. /\ CachedKeys(f) = CachedKeys(cache) /\ Capacity(f) = Capacity(cache)
      /\ \A x \in Keys : OlderIn(f, x) = OlderIn(cache, x)
  BY <1>1 DEF CachedKeys, Capacity, OlderIn, Age
<1> HIDE DEF f
<1>3. /\ CacheInv(p) /\ CachedKeys(p) = CachedKeys(f) /\ SeenKeys(p) = SeenKeys(f)
      /\ \A x \in Keys : OlderIn(p, x) = OlderIn(f, x)
      /\ Capacity(p) # Capacity(f) => Capacity(p) = 4 /\ Cardinality(CachedKeys(f)) = Capacity(f)
  BY <1>1, PressedInv, PressedView
<1>4. cache' = Stored(p, k)
  BY DEF Admit, Replaced, f
<1> HIDE DEF p
<1>5. k \notin CachedKeys(p) /\ k \notin CachedKeys(cache) /\ k \in SeenKeys(cache)
  BY <1>2, <1>3 DEF Admit
<1>6. Victim(p) \in Slots
  BY <1>3, VictimInSlots
<1>7. /\ p.entry[Victim(p)] # NoKey <=> Cardinality(CachedKeys(p)) = Capacity(p)
      /\ \A j \in Slots : p.entry[j] # NoKey /\ p.entry[Victim(p)] # NoKey =>
           ~(Age(p, j) < Age(p, Victim(p)))
  BY <1>3, FullCache
<1>8. /\ NewestIn(p, cache', k, CachedKeys(p) \ dropped)
      /\ CachedKeys(cache') = (CachedKeys(p) \ dropped) \cup {k}
      /\ SeenKeys(cache') = SeenKeys(p) /\ Capacity(cache') = Capacity(p)
  BY <1>3, <1>4, <1>5, StoredNewest, ZenonT(40)
<1>9. /\ dropped \subseteq CachedKeys(cache) /\ dropped \subseteq Keys
      /\ dropped # {} <=> Cardinality(CachedKeys(cache)) = Capacity(p)
      /\ \A d, e \in dropped : d = e
  <2>1. dropped \subseteq CachedKeys(p)
    BY <1>6 DEF CachedKeys
  <2>2. CachedKeys(p) \subseteq Keys
    BY <1>3 DEF CacheInv, CacheType, CachedKeys, Slot
  <2> QED BY <1>2, <1>3, <1>7, <2>1, <2>2
<1>10. \A d \in dropped : OlderIn(cache, d) = {}
  <2> SUFFICES ASSUME NEW d \in dropped PROVE OlderIn(p, d) = {}
    BY <1>2, <1>3, <1>9
  <2>1. d = p.entry[Victim(p)] /\ d # NoKey
    OBVIOUS
  <2>2. \A i \in Slots : p.entry[i] = d => i = Victim(p)
    BY <1>3, <1>6, <2>1 DEF CacheInv, NoDouble, Distinct
  <2> QED BY <1>7, <2>1, <2>2 DEF OlderIn
<1>11. NewestIn(cache, cache', k, CachedKeys(cache) \ dropped)
  BY <1>2, <1>3, <1>8 DEF NewestIn
<1>12. [x \in Keys |-> Older(x)]' = Lru!Newest(k, CachedKeys(cache) \ dropped)
  BY <1>11, NewestMapped
<1>13. \A d \in dropped : [x \in Keys |-> Older(x)][d] = {}
  BY <1>9, <1>10, SameOlder
<1>14. /\ CachedKeys(cache') = (CachedKeys(cache) \ dropped) \cup {k}
       /\ SeenKeys(cache') = SeenKeys(cache) \ {k}
       /\ Capacity(cache') # Capacity(cache) =>
            Capacity(cache') = 4 /\ Cardinality(CachedKeys(cache)) = Capacity(cache)
       /\ dropped # {} <=> Cardinality(CachedKeys(cache)) = Capacity(cache')
  BY <1>1, <1>2, <1>3, <1>8, <1>9
<1> HIDE DEF dropped
<1>15. dropped \in SUBSET CachedKeys(cache)
  BY <1>9
<1>16. \E gone \in SUBSET CachedKeys(cache) :
         /\ gone # {} <=> Cardinality(CachedKeys(cache)) = IF cache'.wide THEN 4 ELSE 2
         /\ \A d \in gone : [x \in Keys |-> Older(x)][d] = {}
         /\ \A d, e \in gone : d = e
         /\ CachedKeys(cache') = (CachedKeys(cache) \ gone) \cup {k}
         /\ [x \in Keys |-> Older(x)]' = Lru!Newest(k, CachedKeys(cache) \ gone)
  BY <1>9, <1>12, <1>13, <1>14, <1>15 DEF Capacity
<1>17. (IF cache'.wide THEN 4 ELSE 2) # (IF cache.wide THEN 4 ELSE 2) =>
         (IF cache'.wide THEN 4 ELSE 2) = 4
           /\ Cardinality(CachedKeys(cache)) = IF cache.wide THEN 4 ELSE 2
  BY <1>14 DEF Capacity
<1> QED BY <1>5, <1>14, <1>16, <1>17, SameCardinality DEF Lru!Retain

(* lookup, admit, replace, grow and reset retain a value on its second     *)
(* recent miss and, when there is no room, drop the value used longest     *)
(* ago: next, the clock and the stamps of either representation never lose *)
(* the order, and widening the cache keeps it.                             *)
THEOREM LeastRecentlyUsed == Spec => ImplementsLru
<1>1. Init => Lru!LruInit
  <2> SUFFICES ASSUME Init PROVE Lru!LruInit
    OBVIOUS
  <2>1. cache = EmptyCache /\ \A i \in Slots : cache.entry[i] = NoKey /\ cache.seen.key[i] = NoKey
    BY DEF Init, EmptyCache, EmptySeen
  <2>2. ~cache.wide
    BY <2>1 DEF EmptyCache
  <2> QED BY <2>1, <2>2 DEF Lru!LruInit, CachedKeys, SeenKeys, Older
<1>2. IInv /\ [Next]_cache => [Lru!LruNext]_(Lru!lruVars)
  <2> SUFFICES ASSUME IInv, [Next]_cache PROVE [Lru!LruNext]_(Lru!lruVars)
    OBVIOUS
  <2>1. CASE ResetCache
    <3>1. /\ cache' = EmptyCache
          /\ \A i \in Slots : cache'.entry[i] = NoKey /\ cache'.seen.key[i] = NoKey
      BY <2>1 DEF ResetCache, EmptyCache, EmptySeen
    <3>2. ~cache'.wide
      BY <3>1 DEF EmptyCache
    <3>3. Lru!Reset
      BY <3>1, <3>2 DEF Lru!Reset, CachedKeys, SeenKeys, Older
    <3> QED BY <3>3 DEF Lru!LruNext
  <2>2. ASSUME NEW k \in Keys, Hit(k) PROVE Lru!LruNext
    BY <2>2, HitUses DEF Lru!LruNext
  <2>3. ASSUME NEW k \in Keys, Remember(k) PROVE Lru!LruNext
    BY <2>3, RememberMisses DEF Lru!LruNext
  <2>4. ASSUME NEW k \in Keys, Admit(k) PROVE Lru!LruNext
    BY <2>4, AdmitRetains DEF Lru!LruNext
  <2>5. CASE UNCHANGED cache
    BY <2>5 DEF Lru!lruVars, CachedKeys, SeenKeys, Older, Stamp
  <2> QED BY <2>1, <2>2, <2>3, <2>4, <2>5 DEF Next
<1> QED BY <1>1, <1>2, AlwaysIInv, PTL DEF Spec, ImplementsLru, Lru!LruSpec

-----------------------------------------------------------------------------
(* The value cache and the pair cache in one slot                          *)

(* An entry keeps what some operand on the node answered to some query.    *)
Lawful(e) ==
  e.keys # NoKeys =>
    \E o \in Operands, q \in Queries : e.keys = CapturedKeys(o, q) /\ e.bits = Answer(o, q)

(* SlotTypeOK, and what OwnAnswers follows from                            *)
SlotInv ==
  /\ SlotTypeOK
  /\ \A i \in Places : Lawful(pairs.entry[i])

LEMMA KeysOfQuery ==
  ASSUME NEW o \in Operands, NEW q \in Queries
  PROVE  /\ CapturedKeys(o, q) \in PairKeys \X PairKeys
         /\ CapturedKeys(o, q) # NoKeys
         /\ Answer(o, q) \in SUBSET Ids
         /\ CapturedKeys(o, q)[1] = q[Self] /\ CapturedKeys(o, q)[2] = q[o]
<1>1. q[Self] \in PairKeys /\ q[o] \in PairKeys
  BY DEF Queries, Members
<1>2. \A m \in Members, k \in PairKeys : Concrete[m][k] \in SUBSET Ids
  BY PairAssumption
<1> QED BY <1>1, <1>2 DEF CapturedKeys, Answer, NoKeys, Members

(* A search of an operand keeps the caches' records well formed and every  *)
(* retained bitmap the answer its keys stand for.                          *)
LEMMA PairSearchedInv ==
  ASSUME SlotInv, NEW o \in Operands, NEW q \in Queries
  PROVE  LET p == PairSearched(pairs, o, q) IN
         /\ p \in [entry : [Places -> [keys : Pair, bits : SUBSET Ids]],
                   seen : [Places -> Pair], next : Places, seenNext : Places]
         /\ \A i \in Places : Lawful(p.entry[i])
<1> DEFINE Entry == [keys : Pair, bits : SUBSET Ids]
           PairCache == [entry : [Places -> Entry], seen : [Places -> Pair], next : Places, seenNext : Places]
           keys == CapturedKeys(o, q)
           Good(p) == p \in PairCache /\ \A i \in Places : Lawful(p.entry[i])
<1>1. keys \in Pair /\ keys # NoKeys /\ Answer(o, q) \in SUBSET Ids
  BY KeysOfQuery DEF Pair
<1>2. Good(pairs)
  BY DEF SlotInv, SlotTypeOK
<1>3. \A i \in Places : Good(PairHit(pairs, i))
  <2> TAKE i \in Places
  <2>1. 3 - i \in Places
    BY DEF Places
  <2> QED BY <1>2, <2>1 DEF PairHit
<1>4. Good(PairRemembered(pairs, keys))
  <2>1. 3 - pairs.seenNext \in Places
    BY <1>2 DEF Places
  <2> QED BY <1>1, <1>2, <2>1 DEF PairRemembered
<1>5. Good(PairAdmitted(pairs, keys))
  <2>1. NoKeys \in Pair
    BY DEF Pair
  <2> QED BY <1>2, <2>1 DEF PairAdmitted
<1>6. ASSUME NEW p, Good(p) PROVE Good(PairReplaced(p, keys, Answer(o, q)))
  <2> DEFINE new == [keys |-> keys, bits |-> Answer(o, q)]
  <2>1. 3 - p.next \in Places
    BY <1>6 DEF Places
  <2>2. new \in Entry /\ Lawful(new)
    BY <1>1 DEF Lawful
  <2> HIDE DEF new, Entry
  <2>3. PairReplaced(p, keys, Answer(o, q)) = [p EXCEPT !.entry[p.next] = new, !.next = 3 - @]
    BY DEF PairReplaced, new
  <2> QED BY <1>6, <2>1, <2>2, <2>3, ZenonT(40)
<1> HIDE DEF Good
<1>7. keys \in CachedPairs(pairs) => \E i \in Places : pairs.entry[i].keys = keys
  BY DEF CachedPairs
<1>8. Good(PairSearched(pairs, o, q))
  BY <1>3, <1>4, <1>5, <1>6, <1>7 DEF PairSearched
<1> QED BY <1>8 DEF Good

LEMMA EmptyPairsInv ==
  /\ EmptyPairs \in [entry : [Places -> [keys : Pair, bits : SUBSET Ids]],
                     seen : [Places -> Pair], next : Places, seenNext : Places]
  /\ \A i \in Places : Lawful(EmptyPairs.entry[i])
<1>1. NoKeys \in Pair /\ 1 \in Places
  BY DEF Pair, Places
<1> QED BY <1>1 DEF EmptyPairs, NoEntry, Lawful

LEMMA SlotInvInductive == SlotInv /\ [SlotNext]_slotVars => SlotInv'
<1> SUFFICES ASSUME SlotInv, [SlotNext]_slotVars PROVE SlotInv'
  OBVIOUS
<1>1. CASE SearchLeaf
  BY <1>1, EmptyPairsInv DEF SearchLeaf, SlotInv, SlotTypeOK
<1>2. ASSUME NEW o \in Operands, NEW q \in Queries, SearchOperand(o, q) PROVE SlotInv'
  BY <1>2, PairSearchedInv DEF SearchOperand, SlotInv, SlotTypeOK
<1>3. ASSUME NEW o \in Operands, NEW q \in Queries, PeekOperand(o, q) PROVE SlotInv'
  <2>1. PICK i \in Places : pairs.entry[i].keys = CapturedKeys(o, q) /\ pairs' = PairHit(pairs, i)
    BY <1>3 DEF PeekOperand
  <2>2. CapturedKeys(o, q) # NoKeys
    BY KeysOfQuery
  <2>3. pairs # EmptyPairs
    BY <2>1, <2>2 DEF EmptyPairs, NoEntry
  <2>4. CapturedKeys(o, q) \in CachedPairs(pairs)
    BY <2>1, <2>2 DEF CachedPairs
  <2>5. 3 - i \in Places
    BY DEF Places
  <2> QED BY <1>3, <2>1, <2>3, <2>5 DEF PeekOperand, PairHit, SlotInv, SlotTypeOK
<1>4. CASE CloseSlot
  BY <1>4, EmptyPairsInv DEF CloseSlot, ResetCache, SlotInv, SlotTypeOK
<1>5. CASE UNCHANGED slotVars
  BY <1>5 DEF slotVars, SlotInv, SlotTypeOK
<1> QED BY <1>1, <1>2, <1>3, <1>4, <1>5 DEF SlotNext

LEMMA AlwaysSlotInv == SlotSpec => []SlotInv
<1>1. SlotInit => SlotInv
  BY EmptyPairsInv DEF SlotInit, Init, SlotInv, SlotTypeOK
<1> QED BY <1>1, SlotInvInductive, PTL DEF SlotSpec

-----------------------------------------------------------------------------
(* The slot points to one cache at a time, the other is cold, and no index *)
(* of the pair cache leaves its range.                                     *)
THEOREM SlotTypeCorrect == SlotSpec => []SlotTypeOK
<1>1. SlotInv => SlotTypeOK
  BY DEF SlotInv
<1> QED BY <1>1, AlwaysSlotInv, PTL

(* lookup and peek of an antonym operand find the operand's own answer to  *)
(* this query, in a slot that a leaf's value cache and other operands use, *)
(* provided that no two operands on the node have getters of one type.     *)
THEOREM OwnAnswersHold ==
  ASSUME KeysApart
  PROVE  SlotSpec => []OwnAnswers
<1>1. SlotInv => OwnAnswers
  <2> SUFFICES ASSUME SlotInv, NEW o \in Operands, NEW q \in Queries, NEW i \in Places,
                      pairs.entry[i].keys = CapturedKeys(o, q)
               PROVE  pairs.entry[i].bits = Answer(o, q)
    BY DEF OwnAnswers
  <2>1. PICK p \in Operands, r \in Queries :
          CapturedKeys(o, q) = CapturedKeys(p, r) /\ pairs.entry[i].bits = Answer(p, r)
    BY KeysOfQuery DEF SlotInv, Lawful
  <2>2. q[Self] = r[Self] /\ q[o] = r[p]
    BY <2>1, KeysOfQuery
  <2>3. q[o] \in Outputs[o] /\ r[p] \in Outputs[p]
    BY DEF Queries, Members
  <2>4. p = o
    BY <2>2, <2>3 DEF KeysApart
  <2> QED BY <2>1, <2>2, <2>4 DEF Answer
<1> QED BY <1>1, AlwaysSlotInv, PTL

(* Sharing the slot leaves the value cache one of ValueCache: displacing   *)
(* it is a reset, so everything proved of ValueCache holds here too.       *)
THEOREM SlotImplementsValueCache == SlotSpec => Spec
<1>1. SlotInit => Init
  BY DEF SlotInit
<1>2. [SlotNext]_slotVars => [Next]_cache
  BY DEF SlotNext, slotVars, SearchLeaf, SearchOperand, PeekOperand, CloseSlot, ResetCache, Next
<1> QED BY <1>1, <1>2, PTL DEF SlotSpec, Spec

-----------------------------------------------------------------------------
(* The value cache keeps its order when the slot is shared.                *)
THEOREM SlotLeastRecentlyUsed == SlotSpec => ImplementsLru
BY SlotImplementsValueCache, LeastRecentlyUsed

(* What makes next name the pair used longest ago: no pair has two places, *)
(* and the first place is taken first.                                     *)
PairShape(p) ==
  /\ p.next \in 1..2
  /\ p.entry[1].keys = p.entry[2].keys => p.entry[1].keys = NoKeys
  /\ p.entry[1].keys = NoKeys => p.entry[2].keys = NoKeys /\ p.next = 1
  /\ p.entry[2].keys = NoKeys => p.entry[1].keys = NoKeys \/ p.next = 2

(* OlderPairs, of any pair cache                                           *)
OlderPairsIn(p, x) ==
  IF x \in CachedPairs(p) THEN {p.entry[p.next].keys} \ {x, NoKeys} ELSE {}

(* A cached pair leaves the ring as it is admitted.                        *)
PairOrder == SlotInv /\ PairShape(pairs) /\ CachedPairs(pairs) \cap SeenPairs(pairs) = {}

LEMMA TwoPlaces ==
  ASSUME NEW p
  PROVE  CachedPairs(p) = {p.entry[1].keys, p.entry[2].keys} \ {NoKeys}
BY DEF CachedPairs, Places

(* The pair at the next place is the only one older than another.          *)
LEMMA OlderPairsOf ==
  ASSUME PairOrder
  PROVE  [x \in PairKeys \X PairKeys |-> IF x \in CachedPairs(pairs) THEN OlderPairs(x) ELSE {}]
           = [x \in PairKeys \X PairKeys |-> OlderPairsIn(pairs, x)]
<1>1. pairs.next \in Places
  BY DEF PairOrder, PairShape, Places
<1>2. \A x : OlderPairs(x) = {pairs.entry[pairs.next].keys} \ {x, NoKeys}
  BY <1>1 DEF OlderPairs
<1> QED BY <1>2 DEF OlderPairsIn

(* LruCache's Newest, of the order of any pair cache                       *)
NewestPairs(p, s, k, kept) ==
  \A x : OlderPairsIn(s, x) =
    IF x = k THEN kept \ {k} ELSE IF x \in kept THEN (OlderPairsIn(p, x) \cap kept) \ {k} ELSE {}

(* A hit gives the pair the youngest place.                                *)
LEMMA PairHitNewest ==
  ASSUME NEW p, PairShape(p), NEW i \in Places, NEW k, p.entry[i].keys = k, k # NoKeys,
         NEW h, h.entry = p.entry, h.next = 3 - i
  PROVE  /\ PairShape(h) /\ k \in CachedPairs(p) /\ CachedPairs(h) = CachedPairs(p)
         /\ NewestPairs(p, h, k, CachedPairs(p))
<1>1. i \in 1..2
  BY DEF Places
<1>2. CachedPairs(p) = {p.entry[1].keys, p.entry[2].keys} \ {NoKeys} /\ CachedPairs(h) = CachedPairs(p)
  BY TwoPlaces DEF CachedPairs
<1>3. PairShape(h)
  BY <1>1 DEF PairShape
<1>4. CASE i = 1
  <2>1. h.next = 2
    BY <1>4
  <2> QED BY <1>2, <1>3, <1>4, <2>1 DEF PairShape, OlderPairsIn, NewestPairs
<1>5. CASE i = 2
  <2>1. h.next = 1
    BY <1>5
  <2> QED BY <1>2, <1>3, <1>5, <2>1 DEF PairShape, OlderPairsIn, NewestPairs
<1> QED BY <1>1, <1>4, <1>5

(* k takes the next place, and the pair that was there is gone.            *)
TakesNext(p, r, k, gone) ==
  /\ k # NoKeys /\ k \notin CachedPairs(p)
  /\ r.next = 3 - p.next /\ r.entry[p.next].keys = k
  /\ r.entry[3 - p.next] = p.entry[3 - p.next]
  /\ gone = {p.entry[p.next].keys} \ {NoKeys}

(* Replacing drops the pair at the next place, if there is one, and then   *)
(* there was no room.                                                      *)
LEMMA PairReplacedNewest ==
  ASSUME NEW p, PairShape(p), NEW k, NEW r, NEW dropped, TakesNext(p, r, k, dropped)
  PROVE  /\ PairShape(r)
         /\ dropped \subseteq CachedPairs(p)
         /\ CachedPairs(r) = (CachedPairs(p) \ dropped) \cup {k}
         /\ dropped # {} <=> Cardinality(CachedPairs(p)) = 2
         /\ \A d \in dropped : OlderPairsIn(p, d) = {}
         /\ NewestPairs(p, r, k, CachedPairs(p) \ dropped)
<1> DEFINE a == p.entry[1].keys
           b == p.entry[2].keys
           c == r.entry[1].keys
           d == r.entry[2].keys
<1> USE DEF TakesNext
<1>1. /\ CachedPairs(p) = {a, b} \ {NoKeys}
      /\ CachedPairs(r) = {c, d} \ {NoKeys}
  BY TwoPlaces
<1>2. /\ (p.next = 1 /\ r.next = 2 /\ c = k /\ d = b) \/ (p.next = 2 /\ r.next = 1 /\ c = a /\ d = k)
      /\ a = b => a = NoKeys
      /\ a = NoKeys => b = NoKeys /\ p.next = 1
      /\ b = NoKeys => a = NoKeys \/ p.next = 2
  BY DEF PairShape
<1>3. p.entry[p.next].keys = IF p.next = 1 THEN a ELSE b
  BY <1>2
<1>4. r.entry[r.next].keys = IF p.next = 1 THEN b ELSE a
  BY <1>2
<1>5. r.next \in 1..2 /\ k # a /\ k # b
  BY <1>1, <1>2
<1>6. dropped # {} <=> Cardinality(CachedPairs(p)) = 2
  <2>1. CASE a = NoKeys
    <3>1. CachedPairs(p) = {} /\ dropped = {}
      BY <1>1, <1>2, <1>3, <2>1
    <3> QED BY <3>1, FS_EmptySet
  <2>2. CASE a # NoKeys /\ b = NoKeys
    <3>1. CachedPairs(p) = {a} /\ dropped = {}
      BY <1>1, <1>2, <1>3, <2>2
    <3>2. Cardinality(CachedPairs(p)) = 1
      BY <3>1, FS_Singleton
    <3> QED BY <3>1, <3>2
  <2>3. CASE a # NoKeys /\ b # NoKeys
    <3>1. Two(CachedPairs(p), a, b) /\ dropped # {}
      BY <1>1, <1>2, <1>3, <2>3 DEF Two
    <3> QED BY <3>1, CardinalityTwo
  <2> QED BY <2>1, <2>2, <2>3
<1> HIDE DEF a, b, c, d
<1>7. PairShape(r)
  BY <1>2, <1>5 DEF PairShape, a, b, c, d
<1>8. \A x : /\ OlderPairsIn(p, x) = IF x \in CachedPairs(p)
                  THEN {IF p.next = 1 THEN a ELSE b} \ {x, NoKeys} ELSE {}
             /\ OlderPairsIn(r, x) = IF x \in CachedPairs(r)
                  THEN {IF p.next = 1 THEN b ELSE a} \ {x, NoKeys} ELSE {}
  BY <1>3, <1>4 DEF OlderPairsIn
<1>9. dropped = {IF p.next = 1 THEN a ELSE b} \ {NoKeys}
  BY <1>3
<1>10. CASE p.next = 1
  BY <1>1, <1>2, <1>5, <1>6, <1>7, <1>8, <1>9, <1>10 DEF NewestPairs
<1>11. CASE p.next = 2
  BY <1>1, <1>2, <1>5, <1>6, <1>7, <1>8, <1>9, <1>11 DEF NewestPairs
<1> QED BY <1>2, <1>10, <1>11

PairRange == PairKeys \X PairKeys

(* A step ordered as NewestPairs says is ordered as LruCache says.         *)
LEMMA PairsMapped ==
  ASSUME PairOrder, PairOrder', NEW k \in PairRange, NEW kept, NewestPairs(pairs, pairs', k, kept)
  PROVE  [x \in PairRange |-> IF x \in CachedPairs(pairs) THEN OlderPairs(x) ELSE {}]'
           = PairLru!Newest(k, kept)
<1>1. [x \in PairRange |-> IF x \in CachedPairs(pairs) THEN OlderPairs(x) ELSE {}]
        = [x \in PairRange |-> OlderPairsIn(pairs, x)]
  BY OlderPairsOf DEF PairRange
<1>2. [x \in PairRange |-> IF x \in CachedPairs(pairs) THEN OlderPairs(x) ELSE {}]'
        = [x \in PairRange |-> OlderPairsIn(pairs', x)]
  <2>1. pairs'.next \in Places
    BY DEF PairOrder, PairShape, Places
  <2>2. \A x : OlderPairs(x)' = {pairs'.entry[pairs'.next].keys} \ {x, NoKeys}
    BY <2>1 DEF OlderPairs
  <2> QED BY <2>2 DEF OlderPairsIn
<1>3. PairLru!Newest(k, kept) =
        [x \in PairRange |-> IF x = k THEN kept \ {k}
           ELSE IF x \in kept THEN ([y \in PairRange |-> OlderPairsIn(pairs, y)][x] \cap kept) \ {k} ELSE {}]
  BY <1>1 DEF PairLru!Newest, PairRange
<1> QED BY <1>2, <1>3 DEF NewestPairs

(* A hit, from a search or a peek, is a use.                               *)
LEMMA PairHitUses ==
  ASSUME PairOrder, SlotInv', NEW o \in Operands, NEW q \in Queries, NEW i \in Places,
         pairs.entry[i].keys = CapturedKeys(o, q), pairs' = PairHit(pairs, i)
  PROVE  PairOrder' /\ PairLru!LruNext
<1> DEFINE k == CapturedKeys(o, q)
<1>1. k \in PairRange /\ k # NoKeys
  BY KeysOfQuery DEF PairRange
<1>2. pairs'.entry = pairs.entry /\ pairs'.next = 3 - i /\ pairs'.seen = pairs.seen
  BY DEF PairHit, PairOrder, SlotInv, SlotTypeOK
<1> HIDE DEF k
<1>3. /\ PairShape(pairs') /\ k \in CachedPairs(pairs) /\ CachedPairs(pairs') = CachedPairs(pairs)
      /\ NewestPairs(pairs, pairs', k, CachedPairs(pairs))
  <2>1. pairs.entry[i].keys = k
    BY DEF k
  <2>2. PairShape(pairs)
    BY DEF PairOrder
  <2> QED BY <1>1, <1>2, <2>1, <2>2, PairHitNewest
<1>4. SeenPairs(pairs') = SeenPairs(pairs)
  BY <1>2 DEF SeenPairs
<1>5. PairOrder'
  BY <1>3, <1>4 DEF PairOrder
<1>6. PairLru!Use(k)
  BY <1>1, <1>3, <1>4, <1>5, PairsMapped DEF PairLru!Use, PairRange
<1> QED BY <1>1, <1>5, <1>6 DEF PairLru!LruNext, PairRange

(* A first miss only writes the ring.                                      *)
LEMMA PairRememberedMisses ==
  ASSUME PairOrder, SlotInv', NEW o \in Operands, NEW q \in Queries,
         CapturedKeys(o, q) \notin CachedPairs(pairs), CapturedKeys(o, q) \notin SeenPairs(pairs),
         pairs' = PairRemembered(pairs, CapturedKeys(o, q))
  PROVE  PairOrder' /\ PairLru!LruNext
<1> DEFINE k == CapturedKeys(o, q)
<1>1. k \in PairRange /\ k # NoKeys
  BY KeysOfQuery DEF PairRange
<1>2. /\ pairs'.entry = pairs.entry /\ pairs'.next = pairs.next
      /\ pairs'.seen = [pairs.seen EXCEPT ![pairs.seenNext] = k]
      /\ pairs.seen \in [Places -> Pair] /\ pairs.seenNext \in Places
  BY DEF PairRemembered, PairOrder, SlotInv, SlotTypeOK
<1> HIDE DEF k
<1>3. /\ CachedPairs(pairs') = CachedPairs(pairs) /\ PairShape(pairs')
      /\ \A x : OlderPairsIn(pairs', x) = OlderPairsIn(pairs, x)
  BY <1>2 DEF PairOrder, CachedPairs, PairShape, OlderPairsIn
<1>4. k \in SeenPairs(pairs') /\ SeenPairs(pairs') \subseteq SeenPairs(pairs) \cup {k}
  BY <1>1, <1>2 DEF SeenPairs
<1>5. PairOrder'
  BY <1>3, <1>4 DEF PairOrder, k
<1>6. [x \in PairRange |-> IF x \in CachedPairs(pairs) THEN OlderPairs(x) ELSE {}]'
        = [x \in PairRange |-> IF x \in CachedPairs(pairs) THEN OlderPairs(x) ELSE {}]
  BY <1>2, <1>3 DEF OlderPairs
<1>7. PairLru!MissOnce(k)
  BY <1>1, <1>3, <1>4, <1>6 DEF PairLru!MissOnce, PairRange, k
<1> QED BY <1>1, <1>5, <1>7 DEF PairLru!LruNext, PairRange

(* A second miss retains the pair.                                         *)
LEMMA PairReplacedRetains ==
  ASSUME PairOrder, SlotInv', NEW o \in Operands, NEW q \in Queries,
         CapturedKeys(o, q) \notin CachedPairs(pairs), CapturedKeys(o, q) \in SeenPairs(pairs),
         pairs' = PairReplaced(PairAdmitted(pairs, CapturedKeys(o, q)), CapturedKeys(o, q), Answer(o, q))
  PROVE  PairOrder' /\ PairLru!LruNext
<1> DEFINE k == CapturedKeys(o, q)
           dropped == {pairs.entry[pairs.next].keys} \ {NoKeys}
           new == [keys |-> k, bits |-> Answer(o, q)]
<1>1. k \in PairRange /\ k # NoKeys
  BY KeysOfQuery DEF PairRange
<1>2. /\ pairs'.entry = [pairs.entry EXCEPT ![pairs.next] = new]
      /\ pairs'.next = 3 - pairs.next
      /\ pairs'.seen = [i \in Places |-> IF pairs.seen[i] = k THEN NoKeys ELSE pairs.seen[i]]
      /\ pairs.next \in Places
      /\ DOMAIN pairs.entry = Places
  BY DEF PairReplaced, PairAdmitted, PairOrder, SlotInv, SlotTypeOK
<1>3. new.keys = k
  OBVIOUS
<1> HIDE DEF k, new
<1>4. /\ pairs'.entry[pairs.next].keys = k
      /\ pairs'.entry[3 - pairs.next] = pairs.entry[3 - pairs.next]
  BY <1>2, <1>3 DEF Places
<1>5. k \notin CachedPairs(pairs) /\ k \in SeenPairs(pairs)
  BY DEF k
<1>6. PairShape(pairs)
  BY DEF PairOrder
<1>7. /\ PairShape(pairs')
      /\ dropped \subseteq CachedPairs(pairs)
      /\ CachedPairs(pairs') = (CachedPairs(pairs) \ dropped) \cup {k}
      /\ dropped # {} <=> Cardinality(CachedPairs(pairs)) = 2
      /\ \A d \in dropped : OlderPairsIn(pairs, d) = {}
      /\ NewestPairs(pairs, pairs', k, CachedPairs(pairs) \ dropped)
  <2> DEFINE gone == dropped
  <2>1. TakesNext(pairs, pairs', k, gone)
    BY <1>1, <1>2, <1>4, <1>5 DEF TakesNext
  <2> HIDE DEF gone
  <2>2. /\ PairShape(pairs')
        /\ gone \subseteq CachedPairs(pairs)
        /\ CachedPairs(pairs') = (CachedPairs(pairs) \ gone) \cup {k}
        /\ gone # {} <=> Cardinality(CachedPairs(pairs)) = 2
        /\ \A d \in gone : OlderPairsIn(pairs, d) = {}
        /\ NewestPairs(pairs, pairs', k, CachedPairs(pairs) \ gone)
    BY <1>6, <2>1, PairReplacedNewest
  <2> QED BY <2>2 DEF gone
<1>8. SeenPairs(pairs') = SeenPairs(pairs) \ {k}
  BY <1>1, <1>2 DEF SeenPairs
<1>9. PairOrder'
  BY <1>7, <1>8 DEF PairOrder
<1>10. [x \in PairRange |-> IF x \in CachedPairs(pairs) THEN OlderPairs(x) ELSE {}]'
         = PairLru!Newest(k, CachedPairs(pairs) \ dropped)
  BY <1>1, <1>7, <1>9, PairsMapped
<1>11. \A d, e \in dropped : d = e
  OBVIOUS
<1> HIDE DEF dropped
<1>12. CachedPairs(pairs) \subseteq PairRange
  BY DEF PairOrder, SlotInv, SlotTypeOK, CachedPairs, Pair, PairRange
<1>13. \A d \in dropped :
         [x \in PairRange |-> IF x \in CachedPairs(pairs) THEN OlderPairs(x) ELSE {}][d] = {}
  BY <1>7, <1>12, OlderPairsOf DEF PairRange
<1>14. \A S : PairLru!Cardinality(S) = Cardinality(S)
  BY DEF PairLru!Cardinality, Cardinality
<1>15. PairLru!Retain(k)
  BY <1>5, <1>7, <1>8, <1>10, <1>11, <1>13, <1>14 DEF PairLru!Retain, PairRange
<1> QED BY <1>1, <1>9, <1>15 DEF PairLru!LruNext, PairRange

(* The pair cache starts over, in Close or when the slot changes hands.    *)
LEMMA PairReset ==
  ASSUME SlotInv', pairs' = EmptyPairs
  PROVE  PairOrder' /\ PairLru!LruNext
<1>1. /\ \A i \in Places : pairs'.entry[i].keys = NoKeys /\ pairs'.seen[i] = NoKeys
      /\ pairs'.next = 1
  BY DEF EmptyPairs, NoEntry
<1>2. CachedPairs(pairs') = {} /\ SeenPairs(pairs') = {}
  BY <1>1 DEF CachedPairs, SeenPairs
<1>3. PairShape(pairs')
  BY <1>1 DEF PairShape, Places
<1>4. PairLru!Reset
  BY <1>2 DEF PairLru!Reset
<1> QED BY <1>2, <1>3, <1>4 DEF PairOrder, PairLru!LruNext

(* The pair cache of an antonym operand retains a pair on its second       *)
(* recent miss and drops the pair used longest ago: peek, replace and      *)
(* admit never lose the order.                                             *)
THEOREM PairLeastRecentlyUsed == SlotSpec => ImplementsPairLru
<1>1. SlotInit /\ SlotInv => PairOrder /\ PairLru!LruInit
  <2> SUFFICES ASSUME SlotInit, SlotInv PROVE PairOrder /\ PairLru!LruInit
    OBVIOUS
  <2>1. /\ \A i \in Places : pairs.entry[i].keys = NoKeys /\ pairs.seen[i] = NoKeys
        /\ pairs.next = 1
    BY DEF SlotInit, EmptyPairs, NoEntry
  <2>2. CachedPairs(pairs) = {} /\ SeenPairs(pairs) = {}
    BY <2>1 DEF CachedPairs, SeenPairs
  <2>3. PairShape(pairs)
    BY <2>1 DEF PairShape, Places
  <2> QED BY <2>2, <2>3 DEF PairOrder, PairLru!LruInit
<1>2. PairOrder /\ SlotInv' /\ [SlotNext]_slotVars => PairOrder' /\ [PairLru!LruNext]_(PairLru!lruVars)
  <2> SUFFICES ASSUME PairOrder, SlotInv', [SlotNext]_slotVars
               PROVE  PairOrder' /\ [PairLru!LruNext]_(PairLru!lruVars)
    OBVIOUS
  <2>1. CASE SearchLeaf
    BY <2>1, PairReset DEF SearchLeaf
  <2>2. ASSUME NEW o \in Operands, NEW q \in Queries, SearchOperand(o, q)
        PROVE  PairOrder' /\ PairLru!LruNext
    <3> DEFINE k == CapturedKeys(o, q)
    <3>1. CASE k \in CachedPairs(pairs)
      <4> DEFINE i == CHOOSE i \in Places : pairs.entry[i].keys = k
      <4>1. \E j \in Places : pairs.entry[j].keys = k
        BY <3>1 DEF CachedPairs
      <4>2. i \in Places /\ pairs.entry[i].keys = k
        BY <4>1
      <4>3. pairs' = PairHit(pairs, i)
        BY <2>2, <3>1 DEF SearchOperand, PairSearched
      <4> HIDE DEF i
      <4> QED BY <4>2, <4>3, PairHitUses
    <3>2. CASE k \notin CachedPairs(pairs) /\ k \in SeenPairs(pairs)
      <4>1. pairs' = PairReplaced(PairAdmitted(pairs, k), k, Answer(o, q))
        BY <2>2, <3>2 DEF SearchOperand, PairSearched
      <4> QED BY <3>2, <4>1, PairReplacedRetains
    <3>3. CASE k \notin CachedPairs(pairs) /\ k \notin SeenPairs(pairs)
      <4>1. pairs' = PairRemembered(pairs, k)
        BY <2>2, <3>3 DEF SearchOperand, PairSearched
      <4> QED BY <3>3, <4>1, PairRememberedMisses
    <3> QED BY <3>1, <3>2, <3>3
  <2>3. ASSUME NEW o \in Operands, NEW q \in Queries, PeekOperand(o, q)
        PROVE  PairOrder' /\ PairLru!LruNext
    BY <2>3, PairHitUses DEF PeekOperand
  <2>4. CASE CloseSlot
    BY <2>4, PairReset DEF CloseSlot
  <2>5. CASE UNCHANGED slotVars
    <3>1. UNCHANGED pairs
      BY <2>5 DEF slotVars
    <3>2. PairOrder'
      BY <3>1 DEF PairOrder
    <3>3. UNCHANGED PairLru!lruVars
      BY <3>1 DEF PairLru!lruVars, CachedPairs, SeenPairs, OlderPairs
    <3> QED BY <3>2, <3>3
  <2> QED BY <2>1, <2>2, <2>3, <2>4, <2>5 DEF SlotNext
<1> QED BY <1>1, <1>2, AlwaysSlotInv, PTL DEF SlotSpec, ImplementsPairLru, PairLru!LruSpec
==============================================================================
