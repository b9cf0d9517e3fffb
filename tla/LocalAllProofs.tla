--------------------------- MODULE LocalAllProofs ----------------------------
(***************************************************************************)
(* Proofs about searches through one Local, for every index, all limits    *)
(* and any number of result slots.                                         *)
(*                                                                         *)
(* What makes them work: while a search runs, no bitmap it holds is        *)
(* rewritten.  So what an operand accepts is a function of the index and   *)
(* the query alone (Means), and the loop can be reasoned about without     *)
(* the caches.                                                             *)
(***************************************************************************)
EXTENDS LocalAll, LocalCacheProofs, FiniteSetTheorems

-----------------------------------------------------------------------------
(* Bitmaps.                                                                *)

Cached  == Children \X Slots
Pointer == {NoBits} \cup Cached \cup ({0, Width + 1} \X SUBSET Ids)
Entry   == [bits : Pointer, card : Nat, child : Children]

(* The cached bitmap still holds the answer to this query's value.         *)
Live(b, cs, q) == b \in Cached => cs[b[1]].entry[b[2]] = Key[q][b[1]]

(* The state is a parameter of what follows, so that it can be said of the *)
(* state after a step too.                                                 *)
Answered(i, c, q) == i.wild[c] \cup i.post[q][c]
AllMatch(i, q)    == {id \in Ids : \A c \in Children : id \in Answered(i, c, q)}

(* What a live bitmap contains, and what an operand accepts                *)
Meaning(i, b, q) == IF b[1] \in Children THEN Answered(i, b[1], q) ELSE b[2]
Means(i, e, q)   == IF e.bits = NoBits THEN Answered(i, e.child, q) ELSE Meaning(i, e.bits, q)

(* What the first n operands have in common                                *)
Meet(i, s, q, n) == {id \in Ids : \A r \in 1..n : id \in Means(i, s[r], q)}

LEMMA IndexType ==
  ASSUME NEW i \in Indexes
  PROVE  /\ i.equality = Children
         /\ \A c \in Children, q \in Queries :
              i.wild[c] \in SUBSET Ids /\ i.post[q][c] \in SUBSET Ids /\ Answered(i, c, q) \in SUBSET Ids
         /\ \A q \in Queries : i.excluded[q] \in SUBSET Ids
<1>1. i \in IndexShape /\ i.equality = Children
  BY IndexAssumption, PostingAssumption
<1> QED BY <1>1 DEF IndexShape, Answered

LEMMA IdSets ==
  ASSUME NEW S \in SUBSET Ids
  PROVE  /\ IsFiniteSet(S) /\ Cardinality(S) \in Nat
         /\ Cardinality(Ids) \in Nat /\ Cardinality(S) =< Cardinality(Ids)
         /\ Cardinality(S) = 0 => S = {}
BY FiniteAssumption, FS_Subset, FS_CardinalityType, FS_EmptySet

LEMMA WidthFacts == Width \in Nat /\ 1 =< Width /\ 1 \in Children /\ 0 \notin Children /\ Width + 1 \notin Children
BY WidthAssumption DEF Children

LEMMA KeyFacts ==
  ASSUME NEW q \in Queries, NEW c \in Children
  PROVE  Key[q][c] \in Keys /\ Key[q][c] # NoKey
BY KeysOfQueries, KeyAssumption

(* Every query with the same value gets the same answer from a child.      *)
LEMMA SameKeySame ==
  ASSUME NEW i \in Indexes, NEW p \in Queries, NEW q \in Queries, NEW c \in Children,
         Key[p][c] = Key[q][c]
  PROVE  Answered(i, c, p) = Answered(i, c, q)
BY PostingAssumption DEF Answered

LEMMA ByKeyMatches ==
  ASSUME ix \in Indexes, NEW q \in Queries, NEW c \in Children
  PROVE  ByKey(c, Key[q][c]) = Answered(ix, c, q)
<1> DEFINE p == CHOOSE p \in Queries : Key[p][c] = Key[q][c]
<1>1. p \in Queries /\ Key[p][c] = Key[q][c]
  OBVIOUS
<1>2. ByKey(c, Key[q][c]) = Answered(ix, c, p)
  BY DEF ByKey, Matches, Answered
<1> HIDE DEF p
<1> QED BY <1>1, <1>2, SameKeySame

LEMMA PointerKinds ==
  ASSUME NEW b \in Pointer, b # NoBits
  PROVE  \/ b \in Cached /\ b[1] \in Children /\ b[2] \in Slots
         \/ b[1] \in {0, Width + 1} /\ b[1] \notin Children /\ b[2] \in SUBSET Ids /\ b \notin Cached
BY WidthFacts DEF Pointer, Cached

LEMMA LiveContent ==
  ASSUME ix \in Indexes, NEW q \in Queries, NEW b \in Pointer, b # NoBits, Live(b, caches, q)
  PROVE  Content(b) = Meaning(ix, b, q) /\ Content(b) \in SUBSET Ids
<1>1. CASE b \in Cached /\ b[1] \in Children /\ b[2] \in Slots
  <2>1. Content(b) = ByKey(b[1], Key[q][b[1]])
    BY <1>1 DEF Content, Live
  <2>2. Content(b) = Answered(ix, b[1], q)
    BY <1>1, <2>1, ByKeyMatches
  <2> QED BY <1>1, <2>2, IndexType DEF Meaning
<1>2. CASE b[1] \in {0, Width + 1} /\ b[1] \notin Children /\ b[2] \in SUBSET Ids /\ b \notin Cached
  BY <1>2 DEF Content, Meaning
<1> QED BY <1>1, <1>2, PointerKinds

LEMMA MeansType ==
  ASSUME NEW i \in Indexes, NEW q \in Queries, NEW e \in Entry
  PROVE  Means(i, e, q) \in SUBSET Ids
<1>1. e.bits \in Pointer /\ e.child \in Children
  BY DEF Entry
<1>2. CASE e.bits = NoBits
  BY <1>1, <1>2, IndexType DEF Means
<1>3. CASE e.bits # NoBits
  BY <1>1, <1>3, PointerKinds, IndexType DEF Means, Meaning
<1> QED BY <1>2, <1>3

(* What the code reads of an operand                                       *)
LEMMA ReadsMeaning ==
  ASSUME ix \in Indexes, Asked \in Queries, NEW e \in Entry, Live(e.bits, caches, Asked)
  PROVE  /\ Found(e) = Means(ix, e, Asked)
         /\ \A id : Accepts(e, id) <=> id \in Means(ix, e, Asked)
         /\ e.bits # NoBits => Content(e.bits) = Means(ix, e, Asked)
<1>1. e.bits \in Pointer
  BY DEF Entry
<1> QED BY <1>1, LiveContent DEF Found, Accepts, Means, Matches, Answered

-----------------------------------------------------------------------------
(* Caches.                                                                 *)

CachesOK == DOMAIN caches = Children /\ \A c \in Children : CacheInv(caches[c])

(* Only a replacement rewrites a bitmap.                                   *)
LEMMA SearchedEntry ==
  ASSUME NEW c, CacheInv(c), NEW k \in Keys, ~Replaces(c, k)
  PROVE  Searched(c, k).entry = c.entry
<1>1. k # NoKey
  BY KeyAssumption
<1>2. CASE k \in CachedKeys(c)
  <2>1. SlotWith(c, k) \in Slots /\ c.entry[SlotWith(c, k)] = k
    BY <1>2 DEF CachedKeys, SlotWith
  <2>2. Touched(c, SlotWith(c, k)).entry = c.entry
    BY <1>1, <2>1, TouchedInv
  <2> QED BY <1>2, <2>2 DEF Searched
<1>3. CASE k \notin CachedKeys(c)
  BY <1>3, RememberedInv DEF Searched, Replaces
<1> QED BY <1>2, <1>3

(* What a step may do to the caches: bitmaps the search holds stay, and    *)
(* others are rewritten only in a new epoch.                               *)
HeldStay(q) ==
  /\ \A b : Live(b, caches, q) => Live(b, caches', q)
  /\ \/ results' = Invalidated(results)
     \/ results' = results /\ \A c \in Children : caches'[c].entry = caches[c].entry

LEMMA SearchChildKind ==
  ASSUME CachesOK, Asked \in Queries, NEW c \in Children, SearchChild(c)
  PROVE  CachesOK' /\ HeldStay(Asked)
<1> DEFINE k == Key[Asked][c]
<1>1. k \in Keys /\ k # NoKey
  BY KeyFacts
<1>2. DOMAIN caches' = Children
      /\ \A d \in Children : caches'[d] = IF d = c THEN Searched(caches[c], k) ELSE caches[d]
  BY DEF SearchChild, CachesOK
<1>3. CachesOK'
  <2>1. CacheInv(Searched(caches[c], k))
    BY <1>1, SearchedInv DEF CachesOK
  <2> QED BY <1>2, <2>1 DEF CachesOK
<1>4. CASE ~Replaces(caches[c], k)
  <2>1. \A d \in Children : caches'[d].entry = caches[d].entry
    BY <1>1, <1>2, <1>4, SearchedEntry DEF CachesOK
  <2>2. results' = results
    BY <1>4 DEF SearchChild
  <2> QED BY <1>3, <2>1, <2>2 DEF HeldStay, Live, Cached
<1>5. CASE Replaces(caches[c], k)
  <2>1. results' = Invalidated(results)
    BY <1>5 DEF SearchChild
  <2>2. ASSUME NEW b, Live(b, caches, Asked) PROVE Live(b, caches', Asked)
    <3> SUFFICES ASSUME b \in Cached PROVE caches'[b[1]].entry[b[2]] = Key[Asked][b[1]]
      BY DEF Live
    <3>1. caches[b[1]].entry[b[2]] = Key[Asked][b[1]] /\ b[1] \in Children /\ b[2] \in Slots
      BY <2>2 DEF Live, Cached
    <3>2. b[1] # c
      BY <1>1, <1>5, <3>1 DEF Replaces, CachedKeys
    <3> QED BY <1>2, <3>1, <3>2
  <2> QED BY <1>3, <2>1, <2>2 DEF HeldStay
<1> QED BY <1>4, <1>5

LEMMA LookedUpKind ==
  ASSUME CachesOK, Asked \in Queries, caches' = LookedUp, results' = results
  PROVE  CachesOK' /\ HeldStay(Asked) /\ \A c \in Children : caches'[c].entry = caches[c].entry
<1>1. ASSUME NEW c \in Children
      PROVE  CacheInv(caches'[c]) /\ caches'[c].entry = caches[c].entry
  <2>1. caches'[c] = caches[c] \/ (IsCached(c) /\ caches'[c] = Touched(caches[c], SlotOf(c)))
    BY DEF LookedUp
  <2>2. ASSUME IsCached(c)
        PROVE  CacheInv(Touched(caches[c], SlotOf(c))) /\ Touched(caches[c], SlotOf(c)).entry = caches[c].entry
    <3>1. SlotOf(c) \in Slots /\ caches[c].entry[SlotOf(c)] = Key[Asked][c]
      BY <2>2 DEF IsCached, SlotOf, CachedKeys, SlotWith
    <3>2. Key[Asked][c] # NoKey
      BY KeyFacts
    <3> QED BY <3>1, <3>2, TouchedInv DEF CachesOK
  <2> QED BY <2>1, <2>2 DEF CachesOK
<1>2. DOMAIN caches' = Children
  BY DEF LookedUp
<1> QED BY <1>1, <1>2 DEF CachesOK, HeldStay, Live, Cached

LEMMA SameKind ==
  ASSUME CachesOK, caches' = caches, results' = results
  PROVE  CachesOK' /\ \A q : HeldStay(q)
BY DEF CachesOK, HeldStay, Live

-----------------------------------------------------------------------------
(* Orders.                                                                 *)

CountIn(i, q, c)     == Cardinality(i.wild[c]) + Cardinality(i.post[q][c])
Precedes(i, q, c, d) ==
  CountIn(i, q, c) < CountIn(i, q, d) \/ (CountIn(i, q, c) = CountIn(i, q, d) /\ c < d)
Sorted(i, order, q) ==
  /\ order \in [Children -> Children]
  /\ \A m, n \in Children : m < n => Precedes(i, q, order[m], order[n])

LEMMA CountNat ==
  ASSUME NEW snap \in Indexes, NEW q \in Queries, NEW c \in Children
  PROVE  /\ CountIn(snap, q, c) \in Nat /\ c \in Nat
         /\ CountIn(snap, q, c) = 0 <=> Answered(snap, c, q) = {}
<1>1. snap.wild[c] \in SUBSET Ids /\ snap.post[q][c] \in SUBSET Ids
  BY IndexType
<1>2. /\ Cardinality(snap.wild[c]) \in Nat /\ Cardinality(snap.post[q][c]) \in Nat
      /\ Cardinality(snap.wild[c]) = 0 <=> snap.wild[c] = {}
      /\ Cardinality(snap.post[q][c]) = 0 <=> snap.post[q][c] = {}
  BY <1>1, IdSets, FS_EmptySet
<1>3. CountIn(snap, q, c) = 0 <=> Cardinality(snap.wild[c]) = 0 /\ Cardinality(snap.post[q][c]) = 0
  BY <1>2 DEF CountIn
<1> QED BY <1>2, <1>3, WidthFacts DEF CountIn, Answered, Children

LEMMA PrecedesOrder ==
  ASSUME NEW snap \in Indexes, NEW q \in Queries, NEW c \in Children, NEW d \in Children, Precedes(snap, q, c, d)
  PROVE  c # d /\ ~Precedes(snap, q, d, c)
BY CountNat DEF Precedes

LEMMA Span ==
  ASSUME NEW a \in Int, NEW b \in Int, a =< b + 1
  PROVE  IsFiniteSet(a..b) /\ Cardinality(a..b) = b - a + 1
<1>1. IsFiniteSet(a..b) /\ Cardinality(a..b) = IF a > b THEN 0 ELSE b - a + 1
  BY FS_Interval
<1> QED BY <1>1

(* A strictly sorted order of the children names every one.                *)
LEMMA SortedOnto ==
  ASSUME NEW snap \in Indexes, NEW q \in Queries, NEW order, Sorted(snap, order, q)
  PROVE  /\ \A i, j \in Children : order[i] = order[j] => i = j
         /\ \A c \in Children : \E i \in Children : order[i] = c
<1>1. \A i, j \in Children : order[i] = order[j] => i = j
  <2> SUFFICES ASSUME NEW i \in Children, NEW j \in Children, order[i] = order[j], i # j PROVE FALSE
    OBVIOUS
  <2>1. i < j \/ j < i
    BY WidthFacts DEF Children
  <2>2. order[i] \in Children /\ order[j] \in Children
    BY DEF Sorted
  <2> QED BY <2>1, <2>2, PrecedesOrder DEF Sorted
<1>2. order \in Injection(Children, Children)
  BY <1>1 DEF Sorted, Injection, IsInjective
<1>3. IsFiniteSet(Children)
  BY WidthFacts, FS_Interval DEF Children
<1>4. order \in Surjection(Children, Children)
  BY <1>2, <1>3, FS_Injection
<1> QED BY <1>1, <1>4 DEF Surjection

Names(order) == \A c \in Children : \E r \in Children : order[r] = c
LEMMA SortedNames ==
  ASSUME NEW snap \in Indexes, NEW q \in Queries, NEW order, Sorted(snap, order, q)
  PROVE  Names(order)
BY SortedOnto DEF Names

(* The child is one immutable posting for every query.                     *)
Immutable(i, c) ==
  \A q \in Queries :
    i.wild[c] = {} /\ (i.post[q][c] = {} \/ Cardinality(i.post[q][c]) > ArrayLimit)

(* The child has the same rank for every query: its place in the schema.   *)
InPlace(i, c) ==
  \A q \in Queries, d \in Children :
    /\ d < c => CountIn(i, q, d) =< CountIn(i, q, c)
    /\ c < d => CountIn(i, q, c) =< CountIn(i, q, d)

(* What keeps a dropped plan from leaving a cached bitmap under another    *)
(* child: the children that can be cached are learned where they stand.    *)
PlacesKept == \A i \in Indexes, c \in Children : Immutable(i, c) \/ InPlace(i, c)

LEMMA PlacedChild ==
  ASSUME NEW snap \in Indexes, NEW q \in Queries, NEW order, Sorted(snap, order, q),
         NEW c \in Children, InPlace(snap, c)
  PROVE  order[c] = c
<1>1. PICK r \in Children : order[r] = c
  BY SortedOnto
<1>2. \A d \in Children : (d < c => Precedes(snap, q, d, c)) /\ (c < d => Precedes(snap, q, c, d))
  <2> SUFFICES ASSUME NEW d \in Children PROVE (d < c => Precedes(snap, q, d, c)) /\ (c < d => Precedes(snap, q, c, d))
    OBVIOUS
  <2>1. CountIn(snap, q, c) \in Nat /\ CountIn(snap, q, d) \in Nat
    BY CountNat
  <2> QED BY <2>1 DEF InPlace, Precedes
<1>3. \A i \in Children : order[i] \in Children /\ order[i] \in Nat /\ i \in Nat /\ c \in Nat /\ r \in Nat
  BY WidthFacts DEF Sorted, Children
<1>4. ASSUME NEW i \in Children, i < r PROVE order[i] < c
  <2>1. Precedes(snap, q, order[i], c) /\ order[i] # c /\ ~Precedes(snap, q, c, order[i])
    BY <1>1, <1>3, <1>4, PrecedesOrder DEF Sorted
  <2> QED BY <1>2, <1>3, <2>1
<1>5. ASSUME NEW i \in Children, r < i PROVE c < order[i]
  <2>1. Precedes(snap, q, c, order[i]) /\ order[i] # c /\ ~Precedes(snap, q, order[i], c)
    BY <1>1, <1>3, <1>5, PrecedesOrder DEF Sorted
  <2> QED BY <1>2, <1>3, <2>1
<1>6. \A i, j \in Children : order[i] = order[j] => i = j
  BY SortedOnto
<1>7. r =< c
  <2> DEFINE f == [i \in 1..(r - 1) |-> order[i]]
  <2>1. f \in Injection(1..(r - 1), 1..(c - 1))
    <3>1. \A i \in 1..(r - 1) : i \in Children /\ i < r
      BY <1>1, WidthFacts DEF Children
    <3>2. \A i \in 1..(r - 1) : f[i] \in 1..(c - 1)
      BY <1>3, <1>4, <3>1 DEF Children
    <3> QED BY <1>6, <3>1, <3>2 DEF Injection, IsInjective
  <2>2. /\ IsFiniteSet(1..(r - 1)) /\ Cardinality(1..(r - 1)) = r - 1
        /\ IsFiniteSet(1..(c - 1)) /\ Cardinality(1..(c - 1)) = c - 1
    <3>1. 1 =< r /\ 1 =< c /\ r \in Nat /\ c \in Nat
      BY <1>1, WidthFacts DEF Children
    <3>2. r - 1 \in Int /\ c - 1 \in Int /\ 1 \in Int /\ 1 =< (r - 1) + 1 /\ 1 =< (c - 1) + 1
      BY <3>1
    <3>3. /\ IsFiniteSet(1..(r - 1)) /\ Cardinality(1..(r - 1)) = (r - 1) - 1 + 1
          /\ IsFiniteSet(1..(c - 1)) /\ Cardinality(1..(c - 1)) = (c - 1) - 1 + 1
      BY <3>2, Span
    <3> QED BY <3>1, <3>3
  <2>3. Cardinality(1..(r - 1)) =< Cardinality(1..(c - 1))
    BY <2>1, <2>2, FS_Injection
  <2> QED BY <1>3, <2>2, <2>3, SMTT(30)
<1>8. c =< r
  <2> DEFINE f == [i \in (r + 1)..Width |-> order[i]]
  <2>1. f \in Injection((r + 1)..Width, (c + 1)..Width)
    <3>1. \A i \in (r + 1)..Width : i \in Children /\ r < i
      BY <1>3 DEF Children
    <3>2. \A i \in (r + 1)..Width : f[i] \in (c + 1)..Width
      BY <1>3, <1>5, <3>1 DEF Children
    <3> QED BY <1>6, <3>1, <3>2 DEF Injection, IsInjective
  <2>2. /\ IsFiniteSet((r + 1)..Width) /\ Cardinality((r + 1)..Width) = Width - r
        /\ IsFiniteSet((c + 1)..Width) /\ Cardinality((c + 1)..Width) = Width - c
    <3>1. r =< Width /\ c =< Width /\ r \in Nat /\ c \in Nat /\ Width \in Nat
      BY <1>3, WidthFacts DEF Children
    <3>2. r + 1 \in Int /\ c + 1 \in Int /\ Width \in Int /\ r + 1 =< Width + 1 /\ c + 1 =< Width + 1
      BY <3>1
    <3>3. /\ IsFiniteSet((r + 1)..Width) /\ Cardinality((r + 1)..Width) = Width - (r + 1) + 1
          /\ IsFiniteSet((c + 1)..Width) /\ Cardinality((c + 1)..Width) = Width - (c + 1) + 1
      BY <3>2, Span
    <3> QED BY <3>1, <3>3
  <2>3. Cardinality((r + 1)..Width) =< Cardinality((c + 1)..Width)
    BY <2>1, <2>2, FS_Injection
  <2> QED BY <1>3, <2>2, <2>3, WidthFacts
<1>9. r = c
  BY <1>3, <1>7, <1>8
<1> QED BY <1>1, <1>9

(* A set listed in order, and what deduplication keeps                     *)
LEMMA ListedOnto ==
  ASSUME NEW n \in Nat, NEW S \in SUBSET (1..n), NEW f \in InOrder(S)
  PROVE  /\ Cardinality(S) \in Nat /\ DOMAIN f = 1..Cardinality(S)
         /\ \A i \in DOMAIN f : f[i] \in S
         /\ \A s \in S : \E i \in DOMAIN f : f[i] = s
<1>1. IsFiniteSet(S) /\ Cardinality(S) \in Nat
  <2>1. IsFiniteSet(1..n)
    BY Span
  <2>2. IsFiniteSet(S)
    BY <2>1, FS_Subset
  <2> QED BY <2>2, FS_CardinalityType
<1> DEFINE m == Cardinality(S)
<1>2. f \in [1..m -> S] /\ \A i, j \in 1..m : i < j => f[i] < f[j]
  BY DEF InOrder
<1> HIDE DEF m
<1>3. m \in Nat
  BY <1>1 DEF m
<1>4. ASSUME NEW i \in 1..m, NEW j \in 1..m, f[i] = f[j] PROVE i = j
  <2>1. f[i] \in S /\ f[i] \in 1..n /\ i \in Int /\ j \in Int
    <3>1. f[i] \in S
      BY <1>2
    <3>2. f[i] \in 1..n
      BY <3>1
    <3> QED BY <1>3, <3>1, <3>2
  <2> QED BY <1>2, <1>4, <2>1
<1>5. f \in Injection(1..m, S)
  BY <1>2, <1>4 DEF Injection, IsInjective
<1>6. IsFiniteSet(1..m) /\ Cardinality(1..m) = m
  BY <1>3, FS_Interval
<1>7. f \in Surjection(1..m, S)
  BY <1>1, <1>5, <1>6, FS_Injection DEF m
<1> QED BY <1>1, <1>2, <1>7 DEF m, Surjection

LEMMA DeduplicatedFrom ==
  ASSUME NEW s \in Seq(Entry), 1 =< Len(s), NEW t \in Deduplicated(s)
  PROVE  /\ t \in Seq(Entry) /\ 1 =< Len(t)
         /\ \A r \in 1..Len(t) : \E i \in 1..Len(s) : t[r] = s[i]
         /\ \A i \in Kept(s) : \E r \in 1..Len(t) : t[r] = s[i]
         /\ Kept(s) \subseteq 1..Len(s)
<1>1. Len(s) \in Nat /\ DOMAIN s = 1..Len(s) /\ \A i \in 1..Len(s) : s[i] \in Entry
  OBVIOUS
<1>2. Kept(s) \in SUBSET (1..Len(s))
  BY <1>1 DEF Kept
<1>3. 1 \in Kept(s)
  BY <1>1 DEF Kept, SameClass
<1>4. PICK f \in InOrder(Kept(s)) : t = [r \in DOMAIN f |-> s[f[r]]]
  BY DEF Deduplicated
<1> DEFINE n == Cardinality(Kept(s))
<1>5. /\ n \in Nat /\ DOMAIN f = 1..n
      /\ \A i \in 1..n : f[i] \in Kept(s)
      /\ \A k \in Kept(s) : \E i \in 1..n : f[i] = k
  <2> DEFINE m == Len(s)
             S == Kept(s)
  <2>1. m \in Nat /\ S \in SUBSET (1..m) /\ f \in InOrder(S)
    BY <1>1, <1>2
  <2> HIDE DEF m, S
  <2>2. /\ Cardinality(S) \in Nat /\ DOMAIN f = 1..Cardinality(S)
        /\ \A i \in DOMAIN f : f[i] \in S
        /\ \A k \in S : \E i \in DOMAIN f : f[i] = k
    BY <2>1, ListedOnto
  <2> QED BY <2>2 DEF S
<1> HIDE DEF n
<1>6. t = [r \in 1..n |-> s[f[r]]] /\ \A r \in 1..n : t[r] = s[f[r]] /\ f[r] \in 1..Len(s)
  BY <1>2, <1>4, <1>5
<1>7. t \in Seq(Entry) /\ Len(t) = n
  BY <1>1, <1>5, <1>6
<1>8. 1 =< n
  BY <1>3, <1>5
<1> HIDE DEF InOrder
<1> QED BY <1>2, <1>5, <1>6, <1>7, <1>8

-----------------------------------------------------------------------------
(* The slice: its operands and what they have in common.                   *)

Slice(cs, q, s) ==
  s \in Seq(Entry) /\ 1 =< Len(s) /\ \A r \in 1..Len(s) : Live(s[r].bits, cs, q)

(* Every operand of t accepts what an operand of s accepts.                *)
Covers(snap, q, s, t) ==
  \A r \in 1..Len(t) : \E k \in 1..Len(s) : Means(snap, t[r], q) = Means(snap, s[k], q)

LEMMA CoversMeet ==
  ASSUME NEW snap, NEW q, NEW s, NEW t, Covers(snap, q, s, t), Covers(snap, q, t, s)
  PROVE  Meet(snap, t, q, Len(t)) = Meet(snap, s, q, Len(s))
BY DEF Covers, Meet

LEMMA LeastNatural ==
  ASSUME NEW S, S \subseteq Nat, S # {}
  PROVE  \E m \in S : \A n \in S : m =< n
<1> DEFINE R == {p \in Nat \X Nat : p[1] < p[2]}
<1>1. IsWellFoundedOn(R, Nat)
  <2>1. IsWellFoundedOn(OpToRel(<, Nat), Nat)
    BY NatLessThanWellFounded
  <2> QED BY <2>1 DEF OpToRel
<1>2. PICK m \in S : \A n \in S : <<n, m>> \notin R
  BY <1>1, WFMin
<1>3. ASSUME NEW n \in S PROVE m =< n
  <2>1. <<n, m>> \notin R /\ <<n, m>> \in Nat \X Nat
    BY <1>2
  <2>2. ~ n < m
    BY <2>1
  <2> QED BY <2>2
<1> QED BY <1>3

LEMMA ChildrenSeq ==
  ASSUME NEW s \in [Children -> Entry]
  PROVE  s \in Seq(Entry) /\ Len(s) = Width /\ 1 =< Len(s) /\ 1..Len(s) = Children
BY WidthFacts DEF Children

LEMMA DeduplicatedSlice ==
  ASSUME NEW s \in [Children -> Entry], NEW cs, NEW q,
         \A r \in Children : Live(s[r].bits, cs, q),
         NEW t \in Deduplicated(s)
  PROVE  Slice(cs, q, t)
<1>1. s \in Seq(Entry) /\ 1 =< Len(s) /\ 1..Len(s) = Children
  BY ChildrenSeq
<1>2. t \in Seq(Entry) /\ 1 =< Len(t) /\ \A r \in 1..Len(t) : \E i \in 1..Len(s) : t[r] = s[i]
  BY <1>1, DeduplicatedFrom
<1> QED BY <1>1, <1>2 DEF Slice

(* Of several equal operands the first stays, so that nothing an operand   *)
(* requires is lost.                                                       *)
LEMMA FirstOfClass ==
  ASSUME NEW s \in [Children -> Entry], NEW i \in Children
  PROVE  \E k \in Kept(s) : Matches(s[k].child, Asked) = Matches(s[i].child, Asked)
<1>1. DOMAIN s = Children /\ Children \subseteq Nat
  BY WidthFacts DEF Children
<1>2. CASE s[1].bits # NoBits
  BY <1>1, <1>2 DEF Kept
<1>3. CASE s[1].bits = NoBits
  <2> DEFINE P == {k \in Children : Matches(s[k].child, Asked) = Matches(s[i].child, Asked)}
  <2>1. P \subseteq Nat /\ P # {}
    BY <1>1
  <2>2. PICK k \in P : \A j \in P : k =< j
    BY <2>1, LeastNatural
  <2>3. ASSUME NEW j \in Children, SameClass(s[j].child, s[k].child) PROVE k < j
    <3>1. Matches(s[j].child, Asked) = Matches(s[k].child, Asked) /\ s[j].child # s[k].child
      BY <2>3 DEF SameClass, Matches
    <3>2. j \in P /\ j # k
      BY <2>2, <3>1
    <3> QED BY <1>1, <2>2, <3>2
  <2>4. k \in Kept(s)
    BY <1>1, <1>3, <2>2, <2>3 DEF Kept
  <2> QED BY <2>2, <2>4
<1> QED BY <1>2, <1>3

LEMMA DeduplicatedMeet ==
  ASSUME NEW s \in [Children -> Entry],
         \A r \in Children : Means(ix, s[r], Asked) = Answered(ix, s[r].child, Asked),
         \A c \in Children : \E r \in Children : s[r].child = c,
         NEW t \in Deduplicated(s)
  PROVE  Meet(ix, t, Asked, Len(t)) = AllMatch(ix, Asked)
<1>1. s \in Seq(Entry) /\ 1 =< Len(s) /\ 1..Len(s) = Children
  BY ChildrenSeq
<1>2. /\ \A r \in 1..Len(t) : \E i \in Children : t[r] = s[i]
      /\ \A k \in Kept(s) : k \in Children /\ \E r \in 1..Len(t) : t[r] = s[k]
  BY <1>1, DeduplicatedFrom
<1>3. \A r \in Children : s[r].child \in Children
  BY DEF Entry
<1>4. ASSUME NEW id \in Meet(ix, t, Asked, Len(t)), NEW c \in Children PROVE id \in Answered(ix, c, Asked)
  <2>1. PICK i \in Children : s[i].child = c
    OBVIOUS
  <2>2. PICK k \in Kept(s) : Matches(s[k].child, Asked) = Matches(c, Asked)
    BY <2>1, FirstOfClass
  <2>3. PICK r \in 1..Len(t) : t[r] = s[k]
    BY <1>2, <2>2
  <2>4. id \in Means(ix, t[r], Asked)
    BY <1>4 DEF Meet
  <2> QED BY <1>2, <2>2, <2>3, <2>4 DEF Matches, Answered
<1>5. ASSUME NEW id \in AllMatch(ix, Asked), NEW r \in 1..Len(t) PROVE id \in Means(ix, t[r], Asked)
  BY <1>2, <1>3, <1>5 DEF AllMatch
<1> QED BY <1>4, <1>5 DEF Meet, AllMatch

(* An exchange in the slice                                                *)
LEMMA Swapped ==
  ASSUME NEW s \in Seq(Entry), NEW a \in 1..Len(s), NEW b \in 1..Len(s)
  PROVE  /\ Swap(s, a, b) \in Seq(Entry) /\ Len(Swap(s, a, b)) = Len(s)
         /\ \A r \in 1..Len(s) :
              Swap(s, a, b)[r] = IF r = b THEN s[a] ELSE IF r = a THEN s[b] ELSE s[r]
<1>1. s[a] \in Entry /\ s[b] \in Entry /\ DOMAIN s = 1..Len(s)
  OBVIOUS
<1> QED BY <1>1 DEF Swap

LEMMA SwappedFirst ==
  ASSUME NEW s \in Seq(Entry), NEW b \in 1..Len(s)
  PROVE  /\ Swap(s, 1, b) \in Seq(Entry) /\ Len(Swap(s, 1, b)) = Len(s)
         /\ Swap(s, 1, b)[1] = s[b]
<1>1. Len(s) \in Nat /\ 1 \in 1..Len(s)
  OBVIOUS
<1> QED BY <1>1, Swapped

LEMMA ExceptEntry ==
  ASSUME NEW s \in Seq(Entry), NEW b \in 1..Len(s), NEW e \in Entry
  PROVE  /\ [s EXCEPT ![b] = e] \in Seq(Entry) /\ Len([s EXCEPT ![b] = e]) = Len(s)
         /\ \A r \in 1..Len(s) : [s EXCEPT ![b] = e][r] = IF r = b THEN e ELSE s[r]
OBVIOUS

LEMMA MaterializedMeans ==
  ASSUME ix \in Indexes, Asked \in Queries, NEW e \in Entry, Live(e.bits, caches, Asked)
  PROVE  /\ Materialized(e) \in Entry /\ Materialized(e).bits # NoBits
         /\ Live(Materialized(e).bits, caches, Asked)
         /\ Means(ix, Materialized(e), Asked) = Means(ix, e, Asked)
<1>1. CASE e.bits # NoBits
  BY <1>1 DEF Materialized
<1>2. CASE e.bits = NoBits
  <2> DEFINE ids == Found(e)
             m == Materialized(e)
  <2>1. ids = Means(ix, e, Asked) /\ ids \in SUBSET Ids
    BY ReadsMeaning, MeansType
  <2>2. Cardinality(ids) \in Nat
    BY <2>1, IdSets
  <2>3. m = [e EXCEPT !.bits = Scratch(ids), !.card = Cardinality(ids)]
    BY <1>2 DEF Materialized
  <2> HIDE DEF ids
  <2>4. Scratch(ids) \in Pointer /\ Scratch(ids) # NoBits /\ Scratch(ids)[1] = Width + 1 /\ Scratch(ids)[2] = ids
        /\ Scratch(ids) \notin Cached
    BY <2>1, WidthFacts DEF Scratch, Pointer, NoBits, Cached
  <2>5. m \in Entry /\ m.bits = Scratch(ids)
    BY <2>2, <2>3, <2>4 DEF Entry
  <2> HIDE DEF m
  <2>6. Means(ix, m, Asked) = ids
    BY <2>4, <2>5, WidthFacts DEF Means, Meaning
  <2> QED BY <2>1, <2>4, <2>5, <2>6 DEF Live, m
<1> QED BY <1>1, <1>2

-----------------------------------------------------------------------------
(* Retained results.                                                       *)

KeyAnswer(snap, c, k) == Answered(snap, c, CHOOSE q \in Queries : Key[q][c] = k)
ContentIn(snap, cs, b) ==
  IF b[1] \in Children THEN KeyAnswer(snap, b[1], cs[b[1]].entry[b[2]]) ELSE b[2]

LEMMA ContentSame == \A b : Content(b) = ContentIn(ix, caches, b)
BY DEF Content, ContentIn, KeyAnswer, ByKey, Matches, Answered

Result ==
  [inputs : Seq(Pointer \ {NoBits}), keys : {<<>>} \cup [Children -> Keys],
   ids : SUBSET Ids, current : BOOLEAN]

(* ResultsFresh and, for an index that keeps its places, exactness         *)
Intact(snap, cs, r) ==
  r.current => r.ids = {id \in Ids : \A k \in DOMAIN r.inputs : id \in ContentIn(snap, cs, r.inputs[k])}
Settled(snap, r) ==
  r.current => \A q \in Queries : Key[q] = r.keys => r.ids = AllMatch(snap, q)

Ring(snap, cs, rs) ==
  rs \in [1..ResultSlots -> Result] /\ \A k \in 1..ResultSlots : Intact(snap, cs, rs[k])
AllSettled(snap, rs) == \A k \in 1..ResultSlots : Settled(snap, rs[k])

LEMMA EmptyRing ==
  ASSUME NEW snap, NEW cs
  PROVE  /\ Ring(snap, cs, [i \in 1..ResultSlots |-> NoResult])
         /\ AllSettled(snap, [i \in 1..ResultSlots |-> NoResult])
<1>1. NoResult \in Result /\ ~NoResult.current
  BY DEF NoResult, Result
<1> QED BY <1>1 DEF Ring, AllSettled, Intact, Settled

LEMMA RingKept ==
  ASSUME NEW snap, NEW cs, NEW rs, Ring(snap, cs, rs), NEW ds, NEW ss,
         \/ ss = Invalidated(rs)
         \/ ss = rs /\ \A c \in Children : ds[c].entry = cs[c].entry
  PROVE  Ring(snap, ds, ss) /\ (AllSettled(snap, rs) => AllSettled(snap, ss))
<1>1. CASE ss = Invalidated(rs)
  <2>1. ss \in [1..ResultSlots -> Result] /\ \A k \in 1..ResultSlots : ~ss[k].current
    BY <1>1 DEF Ring, Invalidated, Result
  <2> QED BY <2>1 DEF Ring, AllSettled, Intact, Settled
<1>2. CASE ss = rs /\ \A c \in Children : ds[c].entry = cs[c].entry
  <2>1. \A b : ContentIn(snap, ds, b) = ContentIn(snap, cs, b)
    BY <1>2 DEF ContentIn
  <2>2. \A k \in 1..ResultSlots : Intact(snap, ds, rs[k])
    BY <2>1 DEF Ring, Intact
  <2> QED BY <1>2, <2>2 DEF Ring
<1> QED BY <1>1, <1>2

(* The result a search stores                                              *)
Inputs(s) == [r \in DOMAIN s |-> s[r].bits]
LEMMA StoredResult ==
  ASSUME ix \in Indexes, Asked \in Queries, NEW s, Slice(caches, Asked, s),
         \A r \in 1..Len(s) : s[r].bits # NoBits,
         NEW C, C = Meet(ix, s, Asked, Len(s)),
         NEW r, r = [inputs |-> Inputs(s), keys |-> Key[Asked], ids |-> C, current |-> TRUE]
  PROVE  /\ r \in Result /\ Intact(ix, caches, r)
         /\ C = AllMatch(ix, Asked) => Settled(ix, r)
<1>1. s \in Seq(Entry) /\ DOMAIN s = 1..Len(s) /\ \A k \in 1..Len(s) : s[k] \in Entry /\ s[k].bits \in Pointer
  <2>1. s \in Seq(Entry) /\ DOMAIN s = 1..Len(s) /\ \A k \in 1..Len(s) : s[k] \in Entry
    BY DEF Slice
  <2> QED BY <2>1 DEF Entry
<1>2. Inputs(s) \in Seq(Pointer \ {NoBits}) /\ DOMAIN Inputs(s) = 1..Len(s)
      /\ \A k \in 1..Len(s) : Inputs(s)[k] = s[k].bits
  BY <1>1 DEF Inputs
<1>3. r \in Result
  <2>1. Key[Asked] \in [Children -> Keys] /\ C \in SUBSET Ids
    BY KeysOfQueries DEF Meet
  <2> QED BY <1>2, <2>1 DEF Result
<1>4. \A k \in 1..Len(s) : ContentIn(ix, caches, s[k].bits) = Means(ix, s[k], Asked)
  BY <1>1, ReadsMeaning, ContentSame DEF Slice
<1>5. Intact(ix, caches, r)
  BY <1>2, <1>4 DEF Intact, Meet
<1>6. ASSUME C = AllMatch(ix, Asked), NEW q \in Queries, Key[q] = Key[Asked]
      PROVE  C = AllMatch(ix, q)
  <2>1. \A c \in Children : Answered(ix, c, q) = Answered(ix, c, Asked)
    BY <1>6, SameKeySame
  <2> QED BY <1>6, <2>1 DEF AllMatch
<1> QED BY <1>3, <1>5, <1>6 DEF Settled

(* A current result with the inputs of the slice is its intersection.      *)
LEMMA LoadedResult ==
  ASSUME ix \in Indexes, Asked \in Queries, Slice(caches, Asked, ranked),
         Ring(ix, caches, results), NEW i \in 1..ResultSlots, InputHit(i)
  PROVE  results[i].ids = Meet(ix, ranked, Asked, Len(ranked))
<1>1. ranked \in Seq(Entry) /\ DOMAIN ranked = 1..Len(ranked) /\ \A k \in 1..Len(ranked) : ranked[k] \in Entry
  BY DEF Slice
<1>2. results[i].inputs = Inputs(ranked) /\ results[i].current /\ \A k \in 1..Len(ranked) : ranked[k].bits # NoBits
  BY <1>1 DEF InputHit, Inputs
<1>3. DOMAIN Inputs(ranked) = 1..Len(ranked) /\ \A k \in 1..Len(ranked) : Inputs(ranked)[k] = ranked[k].bits
  BY <1>1 DEF Inputs
<1>4. \A k \in 1..Len(ranked) : ContentIn(ix, caches, ranked[k].bits) = Means(ix, ranked[k], Asked)
  BY <1>1, <1>2, ReadsMeaning, ContentSame DEF Slice
<1> QED BY <1>2, <1>3, <1>4 DEF Ring, Intact, Meet

-----------------------------------------------------------------------------
(* The invariant.  The last conjunct is what depends on the index.         *)

Working == {"load", "intersect", "validate", "store"}

Calls ==
  /\ ix \in Indexes
  /\ asking \in [Goroutines -> Queries \cup {NoQuery}]
  /\ pc = "idle" <=> Asked = NoQuery

Learned(snap, order) == \E q \in Queries : Sorted(snap, order, q)
PlanOK == plan = NoPlan \/ Learned(ix, plan.order)

RingOK == nextResult \in 1..ResultSlots /\ Ring(ix, caches, results)

(* The slice left by a dropped plan                                        *)
Dropped(cs, q, s) == s \in [Children -> Entry] /\ \A c \in Children : Live(s[c].bits, cs, q)

Loop(snap, q, label, s, p, C) ==
  /\ label = "intersect" =>
       /\ p \in 1..(Len(s) + 1) /\ C = IF p =< 2 THEN {} ELSE Meet(snap, s, q, p - 1)
       /\ \A r \in 1..(p - 1) : s[r].bits # NoBits
  /\ label = "validate" =>
       /\ p \in 2..(Len(s) + 1) /\ C = Meet(snap, s, q, p - 1)
       /\ \A r \in 1..(p - 1) : s[r].bits # NoBits
  /\ label = "store" => s[1].bits # NoBits /\ C = Meet(snap, s, q, Len(s))

Frame ==
  /\ pc = "rank" => Dropped(caches, Asked, ranked)
  /\ pc \in Working => Slice(caches, Asked, ranked) /\ Loop(ix, Asked, pc, ranked, pos, cand)

(* No slot of a dropped slice keeps a bitmap that answers another child.   *)
Planned(snap, c, q) ==
  snap.wild[c] = {} /\ (snap.post[q][c] = {} \/ Cardinality(snap.post[q][c]) > ArrayLimit)
Aligned(snap, q, s) ==
  \A c \in Children :
    Planned(snap, c, q) \/ s[c].bits = NoBits \/ Meaning(snap, s[c].bits, q) = Answered(snap, c, q)

Reference(snap, q) == AllMatch(snap, q) \ snap.excluded[q]

Exact ==
  /\ pc = "rank" => Aligned(ix, Asked, ranked)
  /\ pc \in Working => Meet(ix, ranked, Asked, Len(ranked)) = AllMatch(ix, Asked)
  /\ AllSettled(ix, results)
  /\ pc = "return" => out = Reference(ix, Asked)

IInv == Calls /\ CachesOK /\ PlanOK /\ RingOK /\ Frame /\ (PlacesKept => Exact)

LEMMA InitInv == Init => IInv
<1> SUFFICES ASSUME Init PROVE IInv
  OBVIOUS
<1>1. Calls /\ CachesOK /\ PlanOK /\ Frame
  BY HolderAssumption, SentinelAssumption, EmptyCacheInv
     DEF Init, IndexInit, Calls, Asked, CachesOK, PlanOK, Frame, Working
<1>2. RingOK /\ Exact
  BY EmptyRing, SlotAssumption DEF Init, RingOK, Exact, Working
<1> QED BY <1>1, <1>2 DEF IInv

(* What a step that neither starts nor ends a search leaves alone          *)
LEMMA CallsKept ==
  ASSUME Calls, pc # "idle", pc' # "idle", UNCHANGED <<ix, asking>>
  PROVE  Calls' /\ Asked' = Asked /\ Asked \in Queries
<1>1. Asked' = Asked
  BY DEF Asked
<1>2. Asked \in Queries
  BY HolderAssumption DEF Calls, Asked
<1> QED BY <1>1, <1>2, SentinelAssumption DEF Calls

LEMMA FinishInv ==
  ASSUME IInv, NEW ids, Finish(ids), pc # "idle", UNCHANGED <<ix, asking, plan, nextResult>>,
         CachesOK', Ring(ix, caches', results'),
         PlacesKept => ids = Reference(ix, Asked) /\ AllSettled(ix, results')
  PROVE  IInv'
<1>1. pc' = "return" /\ out' = ids
  BY DEF Finish, Goto
<1>2. Calls' /\ Asked' = Asked
  BY <1>1, CallsKept DEF IInv
<1>3. PlanOK' /\ RingOK' /\ Frame'
  BY <1>1 DEF IInv, PlanOK, RingOK, Frame, Working
<1>4. PlacesKept => Exact'
  BY <1>1, <1>2 DEF Exact, Working
<1> QED BY <1>2, <1>3, <1>4 DEF IInv, PlacesKept

LEMMA WorkInv ==
  ASSUME IInv, pc # "idle", pc' \in Working, UNCHANGED <<ix, asking, nextResult>>,
         CachesOK', PlanOK', Ring(ix, caches', results'),
         Slice(caches', Asked, ranked'), Loop(ix, Asked, pc', ranked', pos', cand'),
         PlacesKept => /\ Meet(ix, ranked', Asked, Len(ranked')) = AllMatch(ix, Asked)
                       /\ AllSettled(ix, results')
  PROVE  IInv'
<1>1. Calls' /\ Asked' = Asked
  BY CallsKept DEF IInv, Working
<1>2. RingOK' /\ Frame'
  BY <1>1 DEF IInv, RingOK, Frame, Working
<1>3. PlacesKept => Exact'
  BY <1>1 DEF Exact, Working
<1> QED BY <1>1, <1>2, <1>3 DEF IInv, PlacesKept

-----------------------------------------------------------------------------
(* What planning offers for a child without searching it                   *)

LEMMA CountSame ==
  \A c : Count(c) = CountIn(ix, Asked, c) /\ (PlanningFound(c) <=> Planned(ix, c, Asked))
BY DEF Count, CountIn, PlanningFound, Planned

LEMMA OfferedFacts ==
  ASSUME ix \in Indexes, Asked \in Queries, CachesOK, NEW c \in Children
  PROVE  /\ Offered(c) \in Entry /\ Offered(c).child = c
         /\ Live(Offered(c).bits, caches, Asked)
         /\ Means(ix, Offered(c), Asked) = Answered(ix, c, Asked)
         /\ Offered(c).card = 0 => Answered(ix, c, Asked) = {}
<1> DEFINE bits == IF PlanningFound(c) THEN Interned(ix.post[Asked][c])
                   ELSE IF IsCached(c) THEN CacheBits(c, SlotOf(c)) ELSE NoBits
           card == IF bits = NoBits THEN Unknown ELSE Cardinality(Content(bits))
<1>1. Offered(c) = [bits |-> bits, child |-> c, card |-> card]
  BY DEF Offered
<1>2. bits \in Pointer /\ Live(bits, caches, Asked)
      /\ (bits # NoBits => Meaning(ix, bits, Asked) = Answered(ix, c, Asked))
  <2>1. CASE PlanningFound(c)
    <3>1. ix.post[Asked][c] \in SUBSET Ids /\ ix.wild[c] = {}
      BY <2>1, IndexType DEF PlanningFound
    <3> QED BY <2>1, <3>1, WidthFacts DEF Interned, Pointer, Live, Cached, Meaning, Answered
  <2>2. CASE ~PlanningFound(c) /\ IsCached(c)
    <3>1. SlotOf(c) \in Slots /\ caches[c].entry[SlotOf(c)] = Key[Asked][c]
      BY <2>2 DEF IsCached, SlotOf, CachedKeys, SlotWith
    <3> QED BY <2>2, <3>1, WidthFacts DEF CacheBits, Pointer, Cached, Live, Meaning
  <2>3. CASE ~PlanningFound(c) /\ ~IsCached(c)
    BY <2>3, WidthFacts DEF Pointer, Live, Cached, NoBits
  <2> QED BY <2>1, <2>2, <2>3
<1> HIDE DEF bits
<1>3. bits # NoBits => Content(bits) = Answered(ix, c, Asked)
  BY <1>2, LiveContent
<1>4. card \in Nat /\ (card = 0 => Answered(ix, c, Asked) = {})
  <2>1. Answered(ix, c, Asked) \in SUBSET Ids
    BY IndexType
  <2>2. /\ Cardinality(Answered(ix, c, Asked)) \in Nat
        /\ Cardinality(Answered(ix, c, Asked)) = 0 => Answered(ix, c, Asked) = {}
        /\ Cardinality(Ids) \in Nat
    BY <2>1, IdSets
  <2> QED BY <1>3, <2>2 DEF Unknown
<1> HIDE DEF card
<1> QED BY <1>1, <1>2, <1>4 DEF Entry, Means

LEMMA FilledFacts ==
  ASSUME ix \in Indexes, Asked \in Queries, CachesOK, Learned(ix, plan.order)
  PROVE  /\ DOMAIN Filled = Children /\ Filled \in [Children -> Entry]
         /\ FirstCard \in Nat
         /\ \A r \in Children : /\ plan.order[r] \in Children /\ Filled[r].child = plan.order[r]
                                /\ Filled[r] = Offered(plan.order[r])
                                /\ Live(Filled[r].bits, caches, Asked)
                                /\ Means(ix, Filled[r], Asked) = Answered(ix, plan.order[r], Asked)
         /\ \A c \in Children : \E r \in Children : plan.order[r] = c
         /\ FoundEmpty => AllMatch(ix, Asked) = {}
<1>1. PICK q \in Queries : Sorted(ix, plan.order, q)
  BY DEF Learned
<1>2. DOMAIN plan.order = Children /\ \A r \in Children : plan.order[r] \in Children
  BY <1>1 DEF Sorted
<1>3. \A c \in Children : \E r \in Children : plan.order[r] = c
  BY <1>1, SortedOnto
<1>4. DOMAIN Filled = Children /\ \A r \in Children : Filled[r] = Offered(plan.order[r])
  BY <1>2 DEF Filled
<1>5. \A r \in Children :
        /\ Filled[r] \in Entry /\ Filled[r].child = plan.order[r]
        /\ Live(Filled[r].bits, caches, Asked)
        /\ Means(ix, Filled[r], Asked) = Answered(ix, plan.order[r], Asked)
        /\ Filled[r].card = 0 => Answered(ix, plan.order[r], Asked) = {}
  BY <1>2, <1>4, OfferedFacts
<1>6. Filled \in [Children -> Entry]
  BY <1>4, <1>5 DEF Filled
<1>7. FirstCard \in Nat /\ (FirstCard = 0 => Answered(ix, plan.order[1], Asked) = {})
  <2>1. 1 \in Children /\ plan.order[1] \in Children
    BY <1>2, WidthFacts
  <2>2. Filled[1].card \in Nat
    BY <1>5, <2>1 DEF Entry
  <2>3. Count(plan.order[1]) \in Nat /\ (Count(plan.order[1]) = 0 => Answered(ix, plan.order[1], Asked) = {})
    BY <2>1, CountSame, CountNat
  <2> QED BY <1>5, <2>1, <2>2, <2>3 DEF FirstCard
<1>8. FoundEmpty => AllMatch(ix, Asked) = {}
  <2>1. FoundEmpty => \E r \in Children : Answered(ix, plan.order[r], Asked) = {}
    BY <1>4, <1>5, <1>7, WidthFacts DEF FoundEmpty
  <2> QED BY <1>2, <2>1 DEF AllMatch
<1> QED BY <1>2, <1>3, <1>4, <1>5, <1>6, <1>7, <1>8

-----------------------------------------------------------------------------
(* One lemma per action.                                                   *)

LEMMA BeginInv == ASSUME IInv, NEW q \in Queries, Begin(q) PROVE IInv'
<1>1. pc' = "query" /\ asking' = [asking EXCEPT ![Holder] = q] /\ UNCHANGED <<ix, localVars>>
  BY DEF Begin, Goto, Ask
<1>2. Asked' = q /\ Calls'
  <2>1. Asked' = q
    BY <1>1, HolderAssumption DEF IInv, Calls, Asked
  <2> QED BY <1>1, <2>1, HolderAssumption, SentinelAssumption DEF IInv, Calls
<1>3. CachesOK' /\ PlanOK' /\ RingOK' /\ Frame'
  BY <1>1 DEF IInv, CachesOK, PlanOK, RingOK, Frame, localVars, Working
<1>4. PlacesKept => Exact'
  BY <1>1 DEF IInv, Exact, localVars, Working
<1> QED BY <1>2, <1>3, <1>4 DEF IInv, PlacesKept

LEMMA QueryHitInv == ASSUME IInv, QueryHit PROVE IInv'
<1>1. PICK i \in DOMAIN results : KeyHit(i) /\ Finish(results[i].ids)
  BY DEF QueryHit
<1>2. i \in 1..ResultSlots
  BY <1>1 DEF IInv, RingOK, Ring
<1>3. pc = "query" /\ UNCHANGED <<indexVars, localVars>> /\ Asked \in Queries
  BY HolderAssumption DEF QueryHit, IInv, Calls, Asked
<1>4. ix.excluded[Asked] = {}
  BY <1>3 DEF QueryHit, HasExclusions
<1>5. PlacesKept => results[i].ids = Reference(ix, Asked)
  BY <1>1, <1>2, <1>3, <1>4 DEF KeyHit, IInv, Exact, AllSettled, Settled, Reference
<1>6. CachesOK' /\ Ring(ix, caches', results') /\ (PlacesKept => AllSettled(ix, results'))
  BY <1>3 DEF IInv, CachesOK, RingOK, Exact, localVars
<1> QED BY <1>1, <1>3, <1>5, <1>6, FinishInv DEF localVars, indexVars

(* What every use of a plan has in common                                  *)
LEMMA ReuseFacts ==
  ASSUME IInv, Reuse
  PROVE  /\ pc = "query" /\ UNCHANGED <<ix, asking, plan, nextResult>> /\ Asked \in Queries
         /\ ix \in Indexes /\ CachesOK /\ Learned(ix, plan.order)
         /\ CachesOK' /\ Ring(ix, caches', results') /\ (PlacesKept => AllSettled(ix, results'))
         /\ \A b : Live(b, caches, Asked) => Live(b, caches', Asked)
<1>1. pc = "query" /\ UNCHANGED <<ix, asking, plan, results, nextResult>> /\ caches' = LookedUp
  BY DEF Reuse, indexVars
<1>2. Asked \in Queries /\ ix \in Indexes /\ CachesOK
  BY <1>1, HolderAssumption DEF IInv, Calls, Asked
<1>3. Learned(ix, plan.order)
  BY DEF Reuse, IInv, PlanOK
<1>4. CachesOK' /\ HeldStay(Asked) /\ \A c \in Children : caches'[c].entry = caches[c].entry
  BY <1>1, <1>2, LookedUpKind
<1>5. Ring(ix, caches', results')
  BY <1>1, <1>4, RingKept DEF IInv, RingOK
<1> QED BY <1>1, <1>2, <1>3, <1>4, <1>5 DEF HeldStay, IInv, Exact

LEMMA ReuseEmptyInv == ASSUME IInv, ReuseEmpty PROVE IInv'
<1>1. /\ pc = "query" /\ UNCHANGED <<ix, asking, plan, nextResult>>
      /\ CachesOK' /\ Ring(ix, caches', results') /\ (PlacesKept => AllSettled(ix, results'))
      /\ AllMatch(ix, Asked) = {}
  BY ReuseFacts, FilledFacts DEF ReuseEmpty
<1> QED BY <1>1, FinishInv DEF ReuseEmpty, Reference

LEMMA ReusePlanInv == ASSUME IInv, ReusePlan PROVE IInv'
<1> DEFINE s == [Filled EXCEPT ![1].card = FirstCard]
<1>1. /\ pc = "query" /\ UNCHANGED <<ix, asking, plan, nextResult>> /\ Asked \in Queries
      /\ ix \in Indexes /\ CachesOK /\ Learned(ix, plan.order)
      /\ CachesOK' /\ Ring(ix, caches', results') /\ (PlacesKept => AllSettled(ix, results'))
      /\ \A b : Live(b, caches, Asked) => Live(b, caches', Asked)
  BY ReuseFacts DEF ReusePlan
<1>2. /\ DOMAIN Filled = Children /\ Filled \in [Children -> Entry] /\ FirstCard \in Nat
      /\ \A r \in Children : /\ plan.order[r] \in Children /\ Filled[r].child = plan.order[r]
                             /\ Live(Filled[r].bits, caches, Asked)
                             /\ Means(ix, Filled[r], Asked) = Answered(ix, plan.order[r], Asked)
      /\ \A c \in Children : \E r \in Children : plan.order[r] = c
  BY <1>1, FilledFacts
<1>3. /\ s \in [Children -> Entry]
      /\ \A r \in Children : s[r].bits = Filled[r].bits /\ s[r].child = Filled[r].child
  BY <1>2, WidthFacts DEF Entry
<1>4. ranked' \in Deduplicated(s) /\ pc' = "load" /\ pc' \in Working
  BY DEF ReusePlan, Goto, Working
<1> HIDE DEF s
<1>5. \A r \in Children :
        Live(s[r].bits, caches', Asked) /\ Means(ix, s[r], Asked) = Answered(ix, s[r].child, Asked)
  BY <1>1, <1>2, <1>3 DEF Means
<1>6. \A c \in Children : \E r \in Children : s[r].child = c
  BY <1>2, <1>3
<1>7. Slice(caches', Asked, ranked')
  BY <1>3, <1>4, <1>5, DeduplicatedSlice
<1>8. Meet(ix, ranked', Asked, Len(ranked')) = AllMatch(ix, Asked)
  BY <1>3, <1>4, <1>5, <1>6, DeduplicatedMeet
<1>9. Loop(ix, Asked, pc', ranked', pos', cand')
  BY <1>4 DEF Loop
<1>10. PlanOK'
  BY <1>1 DEF PlanOK
<1> QED BY <1>1, <1>4, <1>7, <1>8, <1>9, <1>10, WorkInv

(* A cached bitmap that stays behind belongs to the child it stands at.    *)
LEMMA DropPlanInv == ASSUME IInv, DropPlan PROVE IInv'
<1>1. /\ pc = "query" /\ UNCHANGED <<ix, asking, plan, nextResult>> /\ Asked \in Queries
      /\ ix \in Indexes /\ CachesOK /\ Learned(ix, plan.order)
      /\ CachesOK' /\ Ring(ix, caches', results') /\ (PlacesKept => AllSettled(ix, results'))
      /\ \A b : Live(b, caches, Asked) => Live(b, caches', Asked)
  BY ReuseFacts DEF DropPlan
<1>2. /\ DOMAIN Filled = Children /\ Filled \in [Children -> Entry]
      /\ \A r \in Children : /\ plan.order[r] \in Children /\ Filled[r].child = plan.order[r]
                             /\ Live(Filled[r].bits, caches, Asked)
                             /\ Means(ix, Filled[r], Asked) = Answered(ix, plan.order[r], Asked)
  BY <1>1, FilledFacts
<1>3. ranked' = Filled /\ pc' = "rank"
  BY DEF DropPlan, Goto
<1>4. Calls' /\ Asked' = Asked
  BY <1>1, <1>3, CallsKept DEF IInv
<1>5. Dropped(caches', Asked, ranked')
  BY <1>1, <1>2, <1>3 DEF Dropped
<1>6. PlacesKept => Aligned(ix, Asked, ranked')
  <2> SUFFICES ASSUME PlacesKept, NEW c \in Children, ~Planned(ix, c, Asked), Filled[c].bits # NoBits
               PROVE  Meaning(ix, Filled[c].bits, Asked) = Answered(ix, c, Asked)
    BY <1>3 DEF Aligned
  <2>1. InPlace(ix, c)
    BY <1>1 DEF PlacesKept, Immutable, Planned
  <2>2. PICK q \in Queries : Sorted(ix, plan.order, q)
    BY <1>1 DEF Learned
  <2>3. plan.order[c] = c
    BY <1>1, <2>1, <2>2, PlacedChild
  <2> QED BY <1>2, <2>3 DEF Means
<1>7. PlanOK' /\ RingOK' /\ Frame'
  BY <1>1, <1>3, <1>4, <1>5 DEF IInv, PlanOK, RingOK, Frame, Working
<1>8. PlacesKept => Exact'
  BY <1>1, <1>3, <1>4, <1>6 DEF Exact, Working
<1> QED BY <1>1, <1>4, <1>7, <1>8 DEF IInv, PlacesKept

LEMMA RankingFacts ==
  ASSUME IInv, Ranking
  PROVE  /\ pc \in {"query", "rank"} /\ Asked \in Queries /\ ix \in Indexes
         /\ \A c \in Children : /\ Count(c) \in Nat
                                /\ Count(c) = 0 => Answered(ix, c, Asked) = {}
<1>1. pc \in {"query", "rank"}
  BY DEF Ranking
<1>2. Asked \in Queries /\ ix \in Indexes
  BY <1>1, HolderAssumption DEF IInv, Calls, Asked
<1> QED BY <1>1, <1>2, CountSame, CountNat

LEMMA RankEmptyInv == ASSUME IInv, RankEmpty PROVE IInv'
<1>1. /\ pc \in {"query", "rank"} /\ AllMatch(ix, Asked) = {}
  BY RankingFacts DEF RankEmpty, AllMatch
<1>2. UNCHANGED <<ix, asking, caches, plan, results, nextResult>> /\ Finish({})
  BY DEF RankEmpty, indexVars, localVars
<1>3. CachesOK' /\ Ring(ix, caches', results') /\ (PlacesKept => AllSettled(ix, results'))
  BY <1>2 DEF IInv, CachesOK, RingOK, Exact
<1> QED BY <1>1, <1>2, <1>3, FinishInv DEF Reference

LEMMA RankInv == ASSUME IInv, Rank PROVE IInv'
<1> DEFINE slice == IF pc = "rank" THEN ranked ELSE Blank
           entry(c) == [bits  |-> IF PlanningFound(c) THEN Interned(ix.post[Asked][c])
                                  ELSE slice[c].bits,
                        card  |-> Count(c),
                        child |-> c]
<1>1. /\ pc \in {"query", "rank"} /\ Asked \in Queries /\ ix \in Indexes
      /\ \A c \in Children : Count(c) \in Nat
  BY RankingFacts DEF Rank
<1>2. PICK order \in [1..Width -> Children] :
        /\ \A i, j \in 1..Width : i < j => Before(order[i], order[j])
        /\ plan' = [order |-> order, firstCard |-> Count(order[1])]
        /\ ranked' \in Deduplicated([r \in 1..Width |-> entry(order[r])])
  BY DEF Rank
<1>3. /\ pc' = "load" /\ pc' \in Working
      /\ UNCHANGED <<ix, asking, caches, results, nextResult, pos, cand, out>>
  BY DEF Rank, Goto, Working, indexVars
<1>4. Sorted(ix, order, Asked)
  BY <1>2, CountSame DEF Sorted, Before, Precedes, Children
<1>5. PlanOK'
  <2>1. plan'.order = order
    BY <1>2
  <2> QED BY <1>1, <1>3, <1>4, <2>1 DEF PlanOK, Learned
<1>6. /\ slice \in [Children -> Entry]
      /\ \A c \in Children : Live(slice[c].bits, caches, Asked)
      /\ PlacesKept => Aligned(ix, Asked, slice)
  <2>1. CASE pc = "rank"
    BY <2>1 DEF IInv, Frame, Dropped, Exact
  <2>2. CASE pc # "rank"
    <3>1. NoBits \in Pointer /\ NoBits \notin Cached
      BY DEF Pointer, Cached, NoBits
    <3>2. slice = [c \in Children |-> [bits |-> NoBits, card |-> 0, child |-> c]]
      BY <2>2 DEF Blank
    <3> QED BY <3>1, <3>2 DEF Entry, Live, Aligned
  <2> QED BY <2>1, <2>2
<1> HIDE DEF slice
<1>7. ASSUME NEW c \in Children
      PROVE  /\ entry(c) \in Entry /\ entry(c).child = c /\ Live(entry(c).bits, caches, Asked)
             /\ PlacesKept => Means(ix, entry(c), Asked) = Answered(ix, c, Asked)
  <2>1. CASE PlanningFound(c)
    <3>1. ix.post[Asked][c] \in SUBSET Ids /\ ix.wild[c] = {}
      BY <1>1, <2>1, IndexType DEF PlanningFound
    <3> DEFINE b == Interned(ix.post[Asked][c])
    <3>2. b \in Pointer /\ b \notin Cached /\ b # NoBits /\ b[1] \notin Children /\ b[2] = ix.post[Asked][c]
      BY <3>1, WidthFacts DEF Interned, Pointer, Cached, NoBits
    <3> HIDE DEF b
    <3>3. entry(c) = [bits |-> b, card |-> Count(c), child |-> c]
      BY <2>1 DEF b
    <3> QED BY <1>1, <3>1, <3>2, <3>3 DEF Entry, Live, Means, Meaning, Answered
  <2>2. CASE ~PlanningFound(c)
    <3>1. slice[c].bits \in Pointer
      BY <1>6 DEF Entry
    <3>2. ~Planned(ix, c, Asked)
      BY <2>2, CountSame
    <3>3. entry(c) = [bits |-> slice[c].bits, card |-> Count(c), child |-> c]
      BY <2>2
    <3> QED BY <1>1, <1>6, <3>1, <3>2, <3>3 DEF Entry, Means, Aligned
  <2> QED BY <2>1, <2>2
<1> DEFINE s == [r \in 1..Width |-> entry(order[r])]
<1>8. s \in [Children -> Entry] /\ \A r \in Children : s[r] = entry(order[r]) /\ order[r] \in Children
  BY <1>2, <1>7 DEF Children
<1> HIDE DEF entry
<1>9. ranked' \in Deduplicated(s)
  BY <1>2
<1> HIDE DEF s
<1>10. Slice(caches', Asked, ranked')
  BY <1>3, <1>7, <1>8, <1>9, DeduplicatedSlice
<1>11. PlacesKept => Meet(ix, ranked', Asked, Len(ranked')) = AllMatch(ix, Asked)
  <2> SUFFICES ASSUME PlacesKept PROVE Meet(ix, ranked', Asked, Len(ranked')) = AllMatch(ix, Asked)
    OBVIOUS
  <2>1. \A c \in Children : \E r \in Children : s[r].child = c
    <3>1. \A c \in Children : \E r \in Children : order[r] = c
      <4>1. ix \in Indexes /\ Asked \in Queries
        BY <1>1
      <4>2. Names(order)
        BY <1>4, <4>1, SortedNames
      <4> QED BY <4>2 DEF Names
    <3>2. \A r \in Children : s[r].child = order[r]
      BY <1>7, <1>8
    <3> QED BY <3>1, <3>2
  <2>2. \A r \in Children : Means(ix, s[r], Asked) = Answered(ix, s[r].child, Asked)
    BY <1>7, <1>8
  <2> QED BY <1>8, <1>9, <2>1, <2>2, DeduplicatedMeet
<1>12. CachesOK' /\ Ring(ix, caches', results') /\ (PlacesKept => AllSettled(ix, results'))
  BY <1>3 DEF IInv, CachesOK, RingOK, Exact
<1>13. Loop(ix, Asked, pc', ranked', pos', cand')
  BY <1>3 DEF Loop
<1> QED BY <1>1, <1>3, <1>5, <1>10, <1>11, <1>12, <1>13, WorkInv

(* While a search works on its slice                                       *)
LEMMA WorkingFacts ==
  ASSUME IInv, pc \in Working
  PROVE  /\ pc # "idle" /\ Asked \in Queries /\ ix \in Indexes /\ CachesOK /\ PlanOK
         /\ nextResult \in 1..ResultSlots /\ Ring(ix, caches, results)
         /\ Slice(caches, Asked, ranked) /\ Loop(ix, Asked, pc, ranked, pos, cand)
         /\ PlacesKept => /\ Meet(ix, ranked, Asked, Len(ranked)) = AllMatch(ix, Asked)
                          /\ AllSettled(ix, results)
<1>1. pc # "idle"
  BY DEF Working
<1>2. Asked \in Queries
  BY <1>1, HolderAssumption DEF IInv, Calls, Asked
<1> QED BY <1>1, <1>2 DEF IInv, Calls, RingOK, Frame, Exact

(* What a search of a child changes                                        *)
LEMMA SearchFacts ==
  ASSUME IInv, pc \in Working, NEW c \in Children,
         SearchChild(c) \/ UNCHANGED <<caches, results>>
  PROVE  /\ CachesOK' /\ Ring(ix, caches', results') /\ (PlacesKept => AllSettled(ix, results'))
         /\ \A b : Live(b, caches, Asked) => Live(b, caches', Asked)
<1>1. CachesOK /\ Asked \in Queries /\ Ring(ix, caches, results) /\ (PlacesKept => AllSettled(ix, results))
  BY WorkingFacts
<1>2. CachesOK' /\ HeldStay(Asked)
  <2>1. CASE SearchChild(c)
    BY <1>1, <2>1, SearchChildKind
  <2>2. CASE UNCHANGED <<caches, results>>
    BY <1>1, <2>2, SameKind
  <2> QED BY <2>1, <2>2
<1> QED BY <1>1, <1>2, RingKept DEF HeldStay

LEMMA LoadResultInv == ASSUME IInv, LoadResult PROVE IInv'
<1>1. PICK i \in DOMAIN results : InputHit(i) /\ Finish(results[i].ids \ ix.excluded[Asked])
  BY DEF LoadResult
<1>2. pc = "load" /\ pc \in Working /\ UNCHANGED <<ix, asking, caches, plan, results, nextResult>>
  BY DEF LoadResult, Working, indexVars, localVars
<1>3. i \in 1..ResultSlots
  BY <1>1 DEF IInv, RingOK, Ring
<1>4. /\ PlacesKept => results[i].ids = AllMatch(ix, Asked) /\ AllSettled(ix, results)
      /\ Ring(ix, caches, results)
  BY <1>1, <1>2, <1>3, WorkingFacts, LoadedResult
<1>5. CachesOK'
  BY <1>2 DEF IInv, CachesOK
<1> QED BY <1>1, <1>2, <1>4, <1>5, FinishInv DEF Reference

LEMMA StartIntersectionInv == ASSUME IInv, StartIntersection PROVE IInv'
<1>1. /\ pc = "load" /\ pc \in Working /\ pc' = "intersect" /\ pc' \in Working /\ pos' = 1 /\ cand' = {}
      /\ UNCHANGED <<ix, asking, caches, plan, results, nextResult, ranked>>
  BY DEF StartIntersection, Goto, Working, indexVars, localVars
<1>2. /\ Slice(caches, Asked, ranked) /\ PlanOK /\ CachesOK /\ Ring(ix, caches, results)
      /\ PlacesKept => /\ Meet(ix, ranked, Asked, Len(ranked)) = AllMatch(ix, Asked)
                       /\ AllSettled(ix, results)
  BY <1>1, WorkingFacts
<1>3. Loop(ix, Asked, pc', ranked', pos', cand')
  <2>1. Len(ranked) \in Nat /\ 1 =< Len(ranked)
    BY <1>2 DEF Slice
  <2> QED BY <1>1, <2>1 DEF Loop
<1>4. CachesOK' /\ PlanOK'
  BY <1>1, <1>2 DEF CachesOK, PlanOK
<1> QED BY <1>1, <1>2, <1>3, <1>4, WorkInv

(* Checking the candidates of the first operand with all others            *)
LEMMA ScanMeets ==
  ASSUME ix \in Indexes, Asked \in Queries, Slice(caches, Asked, ranked)
  PROVE  Scan(Means(ix, ranked[1], Asked)) = Meet(ix, ranked, Asked, Len(ranked)) \ ix.excluded[Asked]
<1>1. /\ Len(ranked) \in Nat /\ 1 =< Len(ranked)
      /\ \A r \in 1..Len(ranked) : ranked[r] \in Entry /\ Live(ranked[r].bits, caches, Asked)
  BY DEF Slice
<1>2. \A r \in 1..Len(ranked) : \A id : Accepts(ranked[r], id) <=> id \in Means(ix, ranked[r], Asked)
  BY <1>1, ReadsMeaning
<1>3. Means(ix, ranked[1], Asked) \in SUBSET Ids
  BY <1>1, MeansType
<1>4. \A r \in 1..Len(ranked) : r = 1 \/ r \in 2..Len(ranked)
  BY <1>1
<1>5. \A r \in 2..Len(ranked) : r \in 1..Len(ranked)
  BY <1>1
<1>6. ASSUME NEW id \in Means(ix, ranked[1], Asked)
      PROVE  (\A r \in 2..Len(ranked) : Accepts(ranked[r], id)) <=> id \in Meet(ix, ranked, Asked, Len(ranked))
  <2>1. (\A r \in 2..Len(ranked) : Accepts(ranked[r], id))
        <=> (\A r \in 2..Len(ranked) : id \in Means(ix, ranked[r], Asked))
    BY <1>2, <1>5
  <2>2. (\A r \in 2..Len(ranked) : id \in Means(ix, ranked[r], Asked))
        <=> (\A r \in 1..Len(ranked) : id \in Means(ix, ranked[r], Asked))
    BY <1>4, <1>5, <1>6
  <2> QED BY <1>3, <2>1, <2>2 DEF Meet
<1>7. Meet(ix, ranked, Asked, Len(ranked)) \subseteq Means(ix, ranked[1], Asked)
  BY <1>1 DEF Meet
<1> QED BY <1>6, <1>7 DEF Scan

LEMMA ScanFirstInv == ASSUME IInv, ScanFirst PROVE IInv'
<1>1. pc = "load" /\ pc \in Working /\ UNCHANGED <<ix, asking, plan, nextResult>>
  BY DEF ScanFirst, Working, indexVars
<1>2. /\ ix \in Indexes /\ Asked \in Queries /\ Slice(caches, Asked, ranked)
      /\ PlacesKept => Meet(ix, ranked, Asked, Len(ranked)) = AllMatch(ix, Asked)
  BY <1>1, WorkingFacts
<1>3. ranked[1] \in Entry /\ ranked[1].child \in Children /\ Live(ranked[1].bits, caches, Asked)
  <2>1. ranked[1] \in Entry /\ Live(ranked[1].bits, caches, Asked)
    BY <1>2 DEF Slice
  <2> QED BY <2>1 DEF Entry
<1>4. SearchChild(ranked[1].child) \/ UNCHANGED <<caches, results>>
  BY DEF ScanFirst
<1>5. Finish(Scan(Means(ix, ranked[1], Asked)))
  <2>1. CASE ranked[1].bits = NoBits
    BY <1>2, <1>3, <2>1 DEF ScanFirst, Means, Matches, Answered
  <2>2. CASE ranked[1].bits # NoBits
    BY <1>2, <1>3, <2>2, ReadsMeaning DEF ScanFirst
  <2> QED BY <2>1, <2>2
<1>6. CachesOK' /\ Ring(ix, caches', results') /\ (PlacesKept => AllSettled(ix, results'))
  BY <1>1, <1>3, <1>4, SearchFacts
<1>7. PlacesKept => Scan(Means(ix, ranked[1], Asked)) = Reference(ix, Asked)
  BY <1>2, ScanMeets DEF Reference
<1> QED BY <1>1, <1>5, <1>6, <1>7, FinishInv DEF Working

-----------------------------------------------------------------------------
(* The intersection takes operand j to position pos.                       *)

(* The slice t is s with the operands rearranged and perhaps materialized. *)
Rearranged(snap, cs, q, s, t) ==
  /\ t \in Seq(Entry) /\ Len(t) = Len(s)
  /\ \A r \in 1..Len(t) : Live(t[r].bits, cs, q)
  /\ Covers(snap, q, s, t) /\ Covers(snap, q, t, s)

LEMMA RearrangedSlice ==
  ASSUME NEW snap, NEW cs, NEW q, NEW s, NEW t, Slice(cs, q, s), Rearranged(snap, cs, q, s, t)
  PROVE  Slice(cs, q, t) /\ Meet(snap, t, q, Len(t)) = Meet(snap, s, q, Len(s))
BY CoversMeet DEF Rearranged, Slice

LEMMA SwapRearranged ==
  ASSUME NEW snap, NEW cs, NEW q, NEW s, Slice(cs, q, s), NEW a \in 1..Len(s), NEW b \in 1..Len(s)
  PROVE  Rearranged(snap, cs, q, s, Swap(s, a, b))
<1> DEFINE t == Swap(s, a, b)
<1>1. s \in Seq(Entry) /\ Len(s) \in Nat /\ \A r \in 1..Len(s) : Live(s[r].bits, cs, q)
  BY DEF Slice
<1>2. /\ t \in Seq(Entry) /\ Len(t) = Len(s)
      /\ \A r \in 1..Len(s) : t[r] = IF r = b THEN s[a] ELSE IF r = a THEN s[b] ELSE s[r]
  BY <1>1, Swapped, ZenonT(40)
<1> HIDE DEF t
<1>3. \A r \in 1..Len(s) : Live(t[r].bits, cs, q)
  BY <1>1, <1>2
<1>4. Covers(snap, q, s, t)
  <2> SUFFICES ASSUME NEW r \in 1..Len(s) PROVE \E k \in 1..Len(s) : t[r] = s[k]
    BY <1>2 DEF Covers
  <2>1. t[r] = s[a] \/ t[r] = s[b] \/ t[r] = s[r]
    BY <1>2
  <2> QED BY <2>1
<1>5. Covers(snap, q, t, s)
  <2> SUFFICES ASSUME NEW r \in 1..Len(s) PROVE \E k \in 1..Len(s) : s[r] = t[k]
    BY <1>2 DEF Covers
  <2>1. s[r] = t[a] \/ s[r] = t[b] \/ s[r] = t[r]
    BY <1>2
  <2> QED BY <2>1
<1> QED BY <1>2, <1>3, <1>4, <1>5 DEF Rearranged, t

LEMMA ExceptRearranged ==
  ASSUME NEW snap, NEW cs, NEW q, NEW s, Slice(cs, q, s), NEW b \in 1..Len(s), NEW e \in Entry,
         Live(e.bits, cs, q), Means(snap, e, q) = Means(snap, s[b], q)
  PROVE  Rearranged(snap, cs, q, s, [s EXCEPT ![b] = e])
<1> DEFINE t == [s EXCEPT ![b] = e]
<1>1. s \in Seq(Entry) /\ Len(s) \in Nat /\ \A r \in 1..Len(s) : Live(s[r].bits, cs, q)
  BY DEF Slice
<1>2. /\ t \in Seq(Entry) /\ Len(t) = Len(s)
      /\ \A r \in 1..Len(s) : t[r] = IF r = b THEN e ELSE s[r]
  BY <1>1, ExceptEntry
<1> HIDE DEF t
<1>3. \A r \in 1..Len(s) : Live(t[r].bits, cs, q) /\ Means(snap, t[r], q) = Means(snap, s[r], q)
  BY <1>1, <1>2
<1> QED BY <1>2, <1>3 DEF Rearranged, Covers, t

LEMMA RearrangedTwice ==
  ASSUME NEW snap, NEW cs, NEW q, NEW s, NEW t, NEW u,
         Rearranged(snap, cs, q, s, t), Rearranged(snap, cs, q, t, u)
  PROVE  Rearranged(snap, cs, q, s, u)
<1>1. Len(u) = Len(s) /\ Len(t) = Len(s)
  BY DEF Rearranged
<1>2. \A r \in 1..Len(u) : \E k \in 1..Len(s) : Means(snap, u[r], q) = Means(snap, s[k], q)
  <2> SUFFICES ASSUME NEW r \in 1..Len(u) PROVE \E k \in 1..Len(s) : Means(snap, u[r], q) = Means(snap, s[k], q)
    OBVIOUS
  <2>1. PICK m \in 1..Len(t) : Means(snap, u[r], q) = Means(snap, t[m], q)
    BY DEF Rearranged, Covers
  <2> QED BY <2>1 DEF Rearranged, Covers
<1>3. \A r \in 1..Len(s) : \E k \in 1..Len(u) : Means(snap, s[r], q) = Means(snap, u[k], q)
  <2> SUFFICES ASSUME NEW r \in 1..Len(s) PROVE \E k \in 1..Len(u) : Means(snap, s[r], q) = Means(snap, u[k], q)
    OBVIOUS
  <2>1. PICK m \in 1..Len(t) : Means(snap, s[r], q) = Means(snap, t[m], q)
    BY DEF Rearranged, Covers
  <2> QED BY <2>1 DEF Rearranged, Covers
<1> QED BY <1>1, <1>2, <1>3 DEF Rearranged, Covers

LEMMA ChoicesRange ==
  ASSUME pos \in Nat, Len(ranked) \in Nat, pos =< Len(ranked), NEW j \in Choices
  PROVE  j \in pos..Len(ranked)
BY DEF Choices

LEMMA PlacedFacts ==
  ASSUME ix \in Indexes, Asked \in Queries, Slice(caches, Asked, ranked),
         pos \in 1..Len(ranked), NEW j \in pos..Len(ranked)
  PROVE  /\ Rearranged(ix, caches, Asked, ranked, Placed(j))
         /\ Placed(j)[pos].bits # NoBits
         /\ Found(ranked[j]) = Means(ix, Placed(j)[pos], Asked)
         /\ \A r \in 1..(pos - 1) : Placed(j)[r] = ranked[r]
<1> DEFINE e == Materialized(ranked[j])
           s == [ranked EXCEPT ![j] = e]
           t == Swap(s, pos, j)
<1>1. /\ Len(ranked) \in Nat /\ ranked \in Seq(Entry)
      /\ j \in 1..Len(ranked) /\ pos \in 1..Len(ranked)
      /\ ranked[j] \in Entry /\ Live(ranked[j].bits, caches, Asked)
  BY DEF Slice
<1>2. /\ e \in Entry /\ e.bits # NoBits /\ Live(e.bits, caches, Asked)
      /\ Means(ix, e, Asked) = Means(ix, ranked[j], Asked)
      /\ Found(ranked[j]) = Means(ix, ranked[j], Asked)
  BY <1>1, MaterializedMeans, ReadsMeaning
<1> HIDE DEF e
<1>3. Rearranged(ix, caches, Asked, ranked, s)
  BY <1>1, <1>2, ExceptRearranged
<1>4. s \in Seq(Entry) /\ Len(s) = Len(ranked)
      /\ \A r \in 1..Len(ranked) : s[r] = IF r = j THEN e ELSE ranked[r]
  BY <1>1, <1>2, ExceptEntry
<1> HIDE DEF s
<1>5. Slice(caches, Asked, s)
  BY <1>3, RearrangedSlice
<1>6. Rearranged(ix, caches, Asked, s, t)
  BY <1>1, <1>4, <1>5, SwapRearranged
<1>7. \A r \in 1..Len(s) : t[r] = IF r = j THEN s[pos] ELSE IF r = pos THEN s[j] ELSE s[r]
  BY <1>1, <1>4, Swapped
<1> HIDE DEF t
<1>8. t = Placed(j)
  BY DEF t, s, e, Placed
<1>9. t[pos] = e /\ \A r \in 1..(pos - 1) : t[r] = ranked[r]
  BY <1>1, <1>4, <1>7
<1>10. Rearranged(ix, caches, Asked, ranked, t)
  BY <1>3, <1>6, RearrangedTwice
<1> QED BY <1>2, <1>8, <1>9, <1>10

(* What the first n operands have in common, one operand at a time         *)
LEMMA MeetOne ==
  ASSUME NEW i \in Indexes, NEW q \in Queries, NEW s \in Seq(Entry), 1 =< Len(s)
  PROVE  Meet(i, s, q, 1) = Means(i, s[1], q)
<1>1. s[1] \in Entry
  OBVIOUS
<1>2. Means(i, s[1], q) \in SUBSET Ids
  BY <1>1, MeansType
<1> QED BY <1>2 DEF Meet

LEMMA MeetMore ==
  ASSUME NEW snap, NEW q, NEW s, NEW t, NEW n \in Nat \ {0}, \A r \in 1..(n - 1) : t[r] = s[r]
  PROVE  Meet(snap, t, q, n) = Means(snap, t[n], q) \cap Meet(snap, s, q, n - 1)
<1>1. \A r : r \in 1..n <=> r \in 1..(n - 1) \/ r = n
  OBVIOUS
<1>2. \A id : (\A r \in 1..n : id \in Means(snap, t[r], q))
              <=> id \in Means(snap, t[n], q) /\ \A r \in 1..(n - 1) : id \in Means(snap, s[r], q)
  BY <1>1
<1> QED BY <1>2 DEF Meet

LEMMA MeetShrinks ==
  ASSUME NEW snap, NEW q, NEW s, NEW m \in Nat, NEW n \in Nat, m =< n
  PROVE  Meet(snap, s, q, n) \subseteq Meet(snap, s, q, m)
BY DEF Meet

LEMMA OperandFacts ==
  ASSUME IInv, NEW j, Operand(j)
  PROVE  /\ pc = "intersect" /\ pc # "idle" /\ UNCHANGED <<ix, asking, plan, nextResult>>
         /\ pos \in 1..Len(ranked) /\ j \in pos..Len(ranked) /\ j \in 1..Len(ranked) /\ Len(ranked) \in Nat
         /\ CachesOK' /\ PlanOK' /\ Ring(ix, caches', results') /\ (PlacesKept => AllSettled(ix, results'))
         /\ \A b : Live(b, caches, Asked) => Live(b, caches', Asked)
         /\ ix \in Indexes /\ Asked \in Queries /\ Slice(caches, Asked, ranked)
         /\ Rearranged(ix, caches, Asked, ranked, Placed(j))
         /\ Placed(j)[pos].bits # NoBits
         /\ Found(ranked[j]) = Means(ix, Placed(j)[pos], Asked)
         /\ \A r \in 1..(pos - 1) : Placed(j)[r] = ranked[r] /\ ranked[r].bits # NoBits
         /\ pos > 1 => Left(j) = Meet(ix, Placed(j), Asked, pos)
         /\ PlacesKept => Meet(ix, Placed(j), Asked, Len(ranked)) = AllMatch(ix, Asked)
<1>1. pc = "intersect" /\ pc \in Working /\ UNCHANGED <<ix, asking, plan, nextResult>>
  BY DEF Operand, Working, indexVars
<1>2. /\ ix \in Indexes /\ Asked \in Queries /\ Slice(caches, Asked, ranked) /\ PlanOK
      /\ Loop(ix, Asked, "intersect", ranked, pos, cand)
      /\ PlacesKept => Meet(ix, ranked, Asked, Len(ranked)) = AllMatch(ix, Asked)
  BY <1>1, WorkingFacts
<1>3. /\ ranked \in Seq(Entry) /\ Len(ranked) \in Nat /\ 1 =< Len(ranked)
      /\ \A r \in 1..Len(ranked) : ranked[r] \in Entry /\ Live(ranked[r].bits, caches, Asked)
  BY <1>2 DEF Slice
<1>4. /\ pos \in 1..(Len(ranked) + 1) /\ cand = IF pos =< 2 THEN {} ELSE Meet(ix, ranked, Asked, pos - 1)
      /\ \A r \in 1..(pos - 1) : ranked[r].bits # NoBits
  BY <1>2 DEF Loop
<1>5. pos \in 1..Len(ranked) /\ j \in pos..Len(ranked) /\ j \in 1..Len(ranked)
  <2>1. pos \in Nat /\ pos =< Len(ranked) /\ 1 =< pos /\ j \in Choices
    BY <1>3, <1>4 DEF Operand
  <2>2. j \in pos..Len(ranked)
    BY <1>3, <2>1, ChoicesRange
  <2> QED BY <1>3, <2>1, <2>2
<1>6. ranked[j].child \in Children /\ (SearchChild(ranked[j].child) \/ UNCHANGED <<caches, results>>)
  <2>1. ranked[j] \in Entry
    BY <1>3, <1>5
  <2> QED BY <2>1 DEF Entry, Operand
<1>7. /\ CachesOK' /\ Ring(ix, caches', results') /\ (PlacesKept => AllSettled(ix, results'))
      /\ \A b : Live(b, caches, Asked) => Live(b, caches', Asked)
  BY <1>1, <1>6, SearchFacts
<1>8. PlanOK'
  BY <1>1, <1>2 DEF PlanOK
<1>9. /\ Rearranged(ix, caches, Asked, ranked, Placed(j))
      /\ Placed(j)[pos].bits # NoBits
      /\ Found(ranked[j]) = Means(ix, Placed(j)[pos], Asked)
      /\ \A r \in 1..(pos - 1) : Placed(j)[r] = ranked[r]
  BY <1>2, <1>5, PlacedFacts
<1>10. ASSUME pos > 1 PROVE Left(j) = Meet(ix, Placed(j), Asked, pos)
  <2>1. (IF pos = 2 THEN cand \cup Content(ranked[1].bits) ELSE cand) = Meet(ix, ranked, Asked, pos - 1)
    <3>1. CASE pos = 2
      <4>1. 1 \in 1..(pos - 1) /\ 1 \in 1..Len(ranked) /\ pos - 1 = 1
        BY <1>3, <3>1
      <4>2. ranked[1].bits # NoBits /\ Content(ranked[1].bits) = Means(ix, ranked[1], Asked)
        BY <1>2, <1>3, <1>4, <4>1, ReadsMeaning
      <4>3. Meet(ix, ranked, Asked, 1) = Means(ix, ranked[1], Asked)
        BY <1>2, <1>3, MeetOne
      <4> QED BY <1>4, <3>1, <4>1, <4>2, <4>3
    <3>2. CASE pos # 2
      <4>1. ~(pos =< 2)
        BY <1>5, <1>10, <3>2
      <4> QED BY <1>4, <3>2, <4>1
    <3> QED BY <3>1, <3>2
  <2>2. pos \in Nat \ {0}
    BY <1>5
  <2>3. Meet(ix, Placed(j), Asked, pos) = Means(ix, Placed(j)[pos], Asked) \cap Meet(ix, ranked, Asked, pos - 1)
    BY <1>9, <2>2, MeetMore
  <2> QED BY <1>9, <2>1, <2>3 DEF Left
<1>11. PlacesKept => Meet(ix, Placed(j), Asked, Len(ranked)) = AllMatch(ix, Asked)
  <2>1. Len(Placed(j)) = Len(ranked)
    BY <1>9 DEF Rearranged
  <2>2. Meet(ix, Placed(j), Asked, Len(Placed(j))) = Meet(ix, ranked, Asked, Len(ranked))
    BY <1>2, <1>9, RearrangedSlice
  <2> QED BY <1>2, <2>1, <2>2
<1>12. \A r \in 1..(pos - 1) : Placed(j)[r] = ranked[r] /\ ranked[r].bits # NoBits
  BY <1>4, <1>9
<1>13. pc # "idle"
  BY <1>1
<1>14. /\ pc = "intersect" /\ UNCHANGED <<ix, asking, plan, nextResult>> /\ ix \in Indexes /\ Asked \in Queries
       /\ Slice(caches, Asked, ranked) /\ Len(ranked) \in Nat
  BY <1>1, <1>2, <1>3
<1>15. pos > 1 => Left(j) = Meet(ix, Placed(j), Asked, pos)
  BY <1>10
<1> QED BY ONLY <1>5, <1>7, <1>8, <1>9, <1>11, <1>12, <1>13, <1>14, <1>15

LEMMA EmptyIntersectionInv == ASSUME IInv, NEW j, EmptyIntersection(j) PROVE IInv'
<1>1. Operand(j) /\ pos > 1 /\ Left(j) = {} /\ Finish({})
  BY DEF EmptyIntersection
<1>2. /\ pc # "idle" /\ UNCHANGED <<ix, asking, plan, nextResult>>
      /\ CachesOK' /\ Ring(ix, caches', results') /\ (PlacesKept => AllSettled(ix, results'))
      /\ pos \in 1..Len(ranked) /\ Len(ranked) \in Nat
      /\ Meet(ix, Placed(j), Asked, pos) = {}
      /\ PlacesKept => Meet(ix, Placed(j), Asked, Len(ranked)) = AllMatch(ix, Asked)
  BY <1>1, OperandFacts
<1>3. Meet(ix, Placed(j), Asked, Len(ranked)) \subseteq Meet(ix, Placed(j), Asked, pos)
  <2>1. pos \in Nat /\ pos =< Len(ranked)
    BY <1>2
  <2> QED BY <1>2, <2>1, MeetShrinks
<1>4. PlacesKept => {} = Reference(ix, Asked)
  BY <1>2, <1>3 DEF Reference
<1> QED BY <1>1, <1>2, <1>4, FinishInv

(* The slice after the step                                                *)
LEMMA LiveKept ==
  ASSUME NEW q, NEW s, Slice(caches, q, s), \A b : Live(b, caches, q) => Live(b, caches', q)
  PROVE  Slice(caches', q, s)
BY DEF Slice

LEMMA SmallOperandInv == ASSUME IInv, NEW j, SmallOperand(j) PROVE IInv'
<1> DEFINE t == Placed(j)
           one == 1
           u == Swap(t, one, pos)
<1>1. Operand(j) /\ ranked' = u /\ cand' = Found(ranked[j]) /\ pos' = 2 /\ pc' = "validate" /\ pc' \in Working
  BY DEF SmallOperand, Goto, Working
<1>2. /\ pc # "idle" /\ UNCHANGED <<ix, asking, plan, nextResult>> /\ ix \in Indexes /\ Asked \in Queries
      /\ CachesOK' /\ PlanOK' /\ Ring(ix, caches', results') /\ (PlacesKept => AllSettled(ix, results'))
      /\ pos \in 1..Len(ranked) /\ Len(ranked) \in Nat
      /\ \A b : Live(b, caches, Asked) => Live(b, caches', Asked)
      /\ Slice(caches, Asked, ranked) /\ Rearranged(ix, caches, Asked, ranked, t)
      /\ t[pos].bits # NoBits /\ Found(ranked[j]) = Means(ix, t[pos], Asked)
      /\ PlacesKept => Meet(ix, t, Asked, Len(ranked)) = AllMatch(ix, Asked)
  BY <1>1, OperandFacts
<1> HIDE DEF t
<1>3. Slice(caches, Asked, t) /\ Len(t) = Len(ranked) /\ t \in Seq(Entry)
  BY <1>2, RearrangedSlice DEF Rearranged
<1>4. one \in 1..Len(t) /\ pos \in 1..Len(t) /\ one = 1
  BY <1>2, <1>3
<1> HIDE DEF one
<1>5. /\ Rearranged(ix, caches, Asked, t, u)
      /\ u \in Seq(Entry) /\ Len(u) = Len(t)
      /\ u[1] = t[pos]
  <2>1. t \in Seq(Entry) /\ pos \in 1..Len(t)
    BY <1>3, <1>4
  <2>2. u \in Seq(Entry) /\ Len(u) = Len(t) /\ u[1] = t[pos]
    BY <2>1, SwappedFirst DEF one
  <2>4. Rearranged(ix, caches, Asked, t, u)
    BY <1>3, <1>4, SwapRearranged
  <2> QED BY <2>2, <2>4
<1> HIDE DEF u
<1>6. Slice(caches, Asked, u) /\ Meet(ix, u, Asked, Len(u)) = Meet(ix, t, Asked, Len(t))
  BY <1>3, <1>5, RearrangedSlice
<1>7. Slice(caches', Asked, u)
  BY <1>2, <1>6, LiveKept
<1>8. Loop(ix, Asked, "validate", u, 2, Found(ranked[j]))
  <2>1. Meet(ix, u, Asked, 1) = Means(ix, u[1], Asked)
    BY <1>2, <1>5, <1>6, MeetOne DEF Slice
  <2>2. 2 \in 2..(Len(u) + 1) /\ 2 - 1 = 1 /\ \A r \in 1..(2 - 1) : r = 1
    BY <1>2, <1>3, <1>5
  <2>3. Found(ranked[j]) = Meet(ix, u, Asked, 2 - 1)
    BY <1>2, <1>5, <2>1, <2>2
  <2>4. \A r \in 1..(2 - 1) : u[r].bits # NoBits
    BY <1>2, <1>5, <2>2
  <2> QED BY <2>2, <2>3, <2>4 DEF Loop
<1>9. PlacesKept => Meet(ix, u, Asked, Len(u)) = AllMatch(ix, Asked)
  BY <1>2, <1>3, <1>6
<1> QED BY <1>1, <1>2, <1>7, <1>8, <1>9, WorkInv

LEMMA FirstOperandInv == ASSUME IInv, NEW j, FirstOperand(j) PROVE IInv'
<1> DEFINE t == Placed(j)
<1>1. Operand(j) /\ pos = 1 /\ ranked' = t /\ pos' = 2 /\ UNCHANGED <<pc, cand>>
  BY DEF FirstOperand
<1>2. /\ pc = "intersect" /\ pc # "idle" /\ UNCHANGED <<ix, asking, plan, nextResult>>
      /\ CachesOK' /\ PlanOK' /\ Ring(ix, caches', results') /\ (PlacesKept => AllSettled(ix, results'))
      /\ Len(ranked) \in Nat /\ pos \in 1..Len(ranked)
      /\ \A b : Live(b, caches, Asked) => Live(b, caches', Asked)
      /\ Slice(caches, Asked, ranked) /\ Rearranged(ix, caches, Asked, ranked, t)
      /\ t[pos].bits # NoBits
      /\ PlacesKept => Meet(ix, t, Asked, Len(ranked)) = AllMatch(ix, Asked)
  BY <1>1, OperandFacts
<1> HIDE DEF t
<1>3. Slice(caches', Asked, t) /\ Len(t) = Len(ranked)
  BY <1>2, RearrangedSlice, LiveKept DEF Rearranged
<1>4. cand = {}
  <2>1. Loop(ix, Asked, "intersect", ranked, pos, cand)
    BY <1>2, WorkingFacts DEF Working
  <2> QED BY <1>1, <2>1 DEF Loop
<1>5. Loop(ix, Asked, "intersect", t, 2, {})
  <2>1. 2 \in 1..(Len(t) + 1) /\ \A r \in 1..(2 - 1) : r = 1
    BY <1>2, <1>3
  <2> QED BY <1>1, <1>2, <2>1 DEF Loop
<1>6. pc' = "intersect" /\ pc' \in Working /\ cand' = {}
  BY <1>1, <1>2, <1>4 DEF Working
<1> QED BY <1>1, <1>2, <1>3, <1>5, <1>6, WorkInv

LEMMA NarrowCandidatesInv == ASSUME IInv, NEW j, NarrowCandidates(j) PROVE IInv'
<1> DEFINE t == Placed(j)
<1>1. /\ Operand(j) /\ pos > 1 /\ ranked' = t /\ cand' = Left(j) /\ pos' = pos + 1
      /\ pc' \in {"intersect", "validate"} /\ pc' \in Working
  BY DEF NarrowCandidates, Goto, Working
<1>2. /\ pc # "idle" /\ UNCHANGED <<ix, asking, plan, nextResult>>
      /\ CachesOK' /\ PlanOK' /\ Ring(ix, caches', results') /\ (PlacesKept => AllSettled(ix, results'))
      /\ pos \in 1..Len(ranked) /\ Len(ranked) \in Nat
      /\ \A b : Live(b, caches, Asked) => Live(b, caches', Asked)
      /\ Slice(caches, Asked, ranked) /\ Rearranged(ix, caches, Asked, ranked, t)
      /\ t[pos].bits # NoBits /\ \A r \in 1..(pos - 1) : t[r] = ranked[r] /\ ranked[r].bits # NoBits
      /\ Left(j) = Meet(ix, t, Asked, pos)
      /\ PlacesKept => Meet(ix, t, Asked, Len(ranked)) = AllMatch(ix, Asked)
  BY <1>1, OperandFacts
<1> HIDE DEF t
<1>3. Slice(caches', Asked, t) /\ Len(t) = Len(ranked)
  BY <1>2, RearrangedSlice, LiveKept DEF Rearranged
<1>4. Loop(ix, Asked, pc', t, pos + 1, Left(j))
  <2>1. /\ pos + 1 \in 1..(Len(t) + 1) /\ pos + 1 \in 2..(Len(t) + 1) /\ (pos + 1) - 1 = pos
        /\ ~(pos + 1 =< 2)
    BY <1>1, <1>2, <1>3
  <2>2. \A r \in 1..((pos + 1) - 1) : t[r].bits # NoBits
    <3> SUFFICES ASSUME NEW r \in 1..((pos + 1) - 1) PROVE t[r].bits # NoBits
      OBVIOUS
    <3>1. r = pos \/ r \in 1..(pos - 1)
      BY <1>2
    <3> QED BY <1>2, <3>1
  <2> QED BY <1>1, <1>2, <2>1, <2>2 DEF Loop
<1> QED BY <1>1, <1>2, <1>3, <1>4, WorkInv

LEMMA EndIntersectionInv == ASSUME IInv, EndIntersection PROVE IInv'
<1>1. /\ pc = "intersect" /\ pc \in Working /\ pc # "idle" /\ pos > Len(ranked)
      /\ pc' = "store" /\ pc' \in Working
      /\ cand' = IF Len(ranked) = 1 THEN cand \cup Content(ranked[1].bits) ELSE cand
      /\ UNCHANGED <<ix, asking, caches, plan, results, nextResult, ranked>>
  BY DEF EndIntersection, Goto, Working, indexVars, localVars
<1>2. /\ ix \in Indexes /\ Asked \in Queries /\ Slice(caches, Asked, ranked) /\ PlanOK /\ CachesOK
      /\ Ring(ix, caches, results) /\ Loop(ix, Asked, "intersect", ranked, pos, cand)
      /\ PlacesKept => /\ Meet(ix, ranked, Asked, Len(ranked)) = AllMatch(ix, Asked)
                       /\ AllSettled(ix, results)
  BY <1>1, WorkingFacts
<1>3. /\ ranked \in Seq(Entry) /\ Len(ranked) \in Nat /\ 1 =< Len(ranked)
      /\ ranked[1] \in Entry /\ Live(ranked[1].bits, caches, Asked)
  BY <1>2 DEF Slice
<1>4. /\ pos = Len(ranked) + 1 /\ cand = IF pos =< 2 THEN {} ELSE Meet(ix, ranked, Asked, pos - 1)
      /\ \A r \in 1..(pos - 1) : ranked[r].bits # NoBits
  BY <1>1, <1>2, <1>3 DEF Loop
<1>5. ranked[1].bits # NoBits
  BY <1>3, <1>4
<1>6. cand' = Meet(ix, ranked, Asked, Len(ranked))
  <2>1. CASE Len(ranked) = 1
    <3>1. Content(ranked[1].bits) = Means(ix, ranked[1], Asked)
      BY <1>2, <1>3, <1>5, ReadsMeaning
    <3>2. Meet(ix, ranked, Asked, 1) = Means(ix, ranked[1], Asked)
      BY <1>2, <1>3, MeetOne
    <3> QED BY <1>1, <1>4, <2>1, <3>1, <3>2
  <2>2. CASE Len(ranked) # 1
    <3>1. ~(pos =< 2) /\ pos - 1 = Len(ranked)
      <4>1. pos = Len(ranked) + 1
        BY <1>4
      <4>2. Len(ranked) \in Nat /\ 1 =< Len(ranked)
        BY <1>3
      <4> DEFINE n == Len(ranked)
      <4>3. pos = n + 1 /\ n \in Nat /\ 1 =< n /\ n # 1
        BY <2>2, <4>1, <4>2
      <4> HIDE DEF n
      <4>4. ~(pos =< 2) /\ pos - 1 = n
        BY <4>3
      <4> QED BY <4>4 DEF n
    <3>2. cand = Meet(ix, ranked, Asked, pos - 1)
      BY <1>4, <3>1
    <3>3. cand' = cand
      BY <1>1, <2>2
    <3> QED BY <3>1, <3>2, <3>3
  <2> QED BY <2>1, <2>2
<1>7. Loop(ix, Asked, pc', ranked', pos', cand')
  BY <1>1, <1>5, <1>6 DEF Loop
<1>8. CachesOK' /\ PlanOK'
  BY <1>1, <1>2 DEF CachesOK, PlanOK
<1> QED BY <1>1, <1>2, <1>7, <1>8, WorkInv

OneToOne(n, p) == p \in [1..n -> 1..n] /\ \A a, b \in 1..n : p[a] = p[b] => a = b
LEMMA PermutationOnto ==
  ASSUME NEW n \in Nat, NEW p, OneToOne(n, p)
  PROVE  \A k \in 1..n : \E r \in 1..n : p[r] = k
<1>1. p \in Injection(1..n, 1..n)
  BY DEF OneToOne, Injection, IsInjective
<1>2. IsFiniteSet(1..n)
  BY Span
<1>3. p \in Surjection(1..n, 1..n)
  BY <1>1, <1>2, FS_Injection
<1> QED BY <1>3 DEF Surjection

LEMMA PermutedSlice ==
  ASSUME NEW snap, NEW cs, NEW q, NEW s, Slice(cs, q, s),
         NEW p, OneToOne(Len(s), p), NEW t, t = [r \in DOMAIN s |-> s[p[r]]]
  PROVE  Slice(cs, q, t) /\ Meet(snap, t, q, Len(t)) = Meet(snap, s, q, Len(s))
<1>1. s \in Seq(Entry) /\ Len(s) \in Nat /\ DOMAIN s = 1..Len(s) /\ \A r \in 1..Len(s) : Live(s[r].bits, cs, q)
  BY DEF Slice
<1> DEFINE n == Len(s)
<1>2. t = [r \in 1..n |-> s[p[r]]] /\ n \in Nat /\ \A r \in 1..n : p[r] \in 1..n /\ s[p[r]] \in Entry
  BY <1>1 DEF OneToOne
<1>3. \A k \in 1..n : \E r \in 1..n : p[r] = k
  BY <1>1, PermutationOnto
<1> HIDE DEF n
<1>4. t \in Seq(Entry) /\ Len(t) = n /\ \A r \in 1..n : t[r] = s[p[r]]
  BY <1>2
<1>5. \A r \in 1..n : Live(t[r].bits, cs, q)
  BY <1>1, <1>2, <1>4 DEF n
<1>6. Covers(snap, q, s, t)
  BY <1>2, <1>4 DEF Covers, n
<1>7. Covers(snap, q, t, s)
  <2> SUFFICES ASSUME NEW k \in 1..n PROVE \E r \in 1..n : s[k] = t[r]
    BY <1>4 DEF Covers, n
  <2>1. PICK r \in 1..n : p[r] = k
    BY <1>3
  <2>2. t[r] = s[k]
    BY <1>4, <2>1
  <2> QED BY <2>2
<1>8. Rearranged(snap, cs, q, s, t)
  BY <1>4, <1>5, <1>6, <1>7 DEF Rearranged, n
<1> QED BY <1>8, RearrangedSlice

LEMMA ValidateInv == ASSUME IInv, Validate PROVE IInv'
<1> DEFINE accepted == {id \in cand : \A i \in pos..Len(ranked) : Accepts(ranked[i], id)}
<1>1. pc = "validate" /\ pc \in Working /\ pc # "idle"
      /\ UNCHANGED <<ix, asking, caches, plan, results, nextResult>>
  BY DEF Validate, Working, indexVars, localVars
<1>2. /\ ix \in Indexes /\ Asked \in Queries /\ Slice(caches, Asked, ranked) /\ PlanOK /\ CachesOK
      /\ Ring(ix, caches, results) /\ Loop(ix, Asked, "validate", ranked, pos, cand)
      /\ PlacesKept => /\ Meet(ix, ranked, Asked, Len(ranked)) = AllMatch(ix, Asked)
                       /\ AllSettled(ix, results)
  BY <1>1, WorkingFacts
<1>3. /\ Len(ranked) \in Nat /\ 1 =< Len(ranked)
      /\ \A r \in 1..Len(ranked) : ranked[r] \in Entry /\ Live(ranked[r].bits, caches, Asked)
  BY <1>2 DEF Slice
<1>4. /\ pos \in 2..(Len(ranked) + 1) /\ cand = Meet(ix, ranked, Asked, pos - 1)
      /\ \A r \in 1..(pos - 1) : ranked[r].bits # NoBits
  BY <1>2 DEF Loop
<1>5. accepted = Meet(ix, ranked, Asked, Len(ranked))
  <2>1. \A r \in 1..Len(ranked) : \A id : Accepts(ranked[r], id) <=> id \in Means(ix, ranked[r], Asked)
    BY <1>2, <1>3, ReadsMeaning
  <2>2. \A r : r \in 1..Len(ranked) <=> r \in 1..(pos - 1) \/ r \in pos..Len(ranked)
    BY <1>3, <1>4
  <2>3. ASSUME NEW id
        PROVE  id \in accepted <=> id \in Meet(ix, ranked, Asked, Len(ranked))
    <3>1. id \in accepted <=>
            /\ id \in Ids /\ \A r \in 1..(pos - 1) : id \in Means(ix, ranked[r], Asked)
            /\ \A r \in pos..Len(ranked) : id \in Means(ix, ranked[r], Asked)
      BY <1>4, <2>1, <2>2 DEF Meet
    <3> QED BY <2>2, <3>1 DEF Meet
  <2> HIDE DEF accepted
  <2> QED BY <2>3 DEF Meet
<1>6. CachesOK' /\ PlanOK' /\ Ring(ix, caches', results') /\ (PlacesKept => AllSettled(ix, results'))
  BY <1>1, <1>2 DEF CachesOK, PlanOK
<1>7. CASE accepted = {} /\ Finish({})
  <2>1. PlacesKept => {} = Reference(ix, Asked)
    BY <1>2, <1>5, <1>7 DEF Reference
  <2> QED BY <1>1, <1>6, <1>7, <2>1, FinishInv
<1>8. CASE /\ cand' = accepted /\ pc' = "store"
           /\ \E p \in Orders : ranked' = [i \in DOMAIN ranked |-> ranked[p[i]]]
  <2>1. PICK p \in Orders : ranked' = [i \in DOMAIN ranked |-> ranked[p[i]]]
    BY <1>8
  <2>2. OneToOne(Len(ranked), p) /\ \A r \in 1..(pos - 1) : p[r] = r
    BY DEF Orders, OneToOne
  <2>3. /\ Slice(caches, Asked, ranked')
        /\ Meet(ix, ranked', Asked, Len(ranked')) = Meet(ix, ranked, Asked, Len(ranked))
    BY <1>2, <2>1, <2>2, PermutedSlice
  <2>4. ranked'[1].bits # NoBits
    <3>1. 1 \in 1..(pos - 1) /\ 1 \in DOMAIN ranked
      BY <1>2, <1>3, <1>4 DEF Slice
    <3> QED BY <1>4, <2>1, <2>2, <3>1
  <2>5. pc' \in Working /\ Loop(ix, Asked, pc', ranked', pos', cand')
    BY <1>5, <1>8, <2>3, <2>4 DEF Loop, Working
  <2> QED BY <1>1, <1>2, <1>6, <2>3, <2>5, WorkInv
<1> QED BY <1>7, <1>8 DEF Validate, Goto

LEMMA AppendResultInv == ASSUME IInv, AppendResult PROVE IInv'
<1> DEFINE r == [inputs |-> Inputs(ranked), keys |-> Key[Asked], ids |-> cand, current |-> TRUE]
           ids == IF Broad THEN cand \ ix.excluded[Asked] ELSE Scan(Content(ranked[1].bits))
<1>1. pc = "store" /\ pc \in Working /\ pc # "idle" /\ Finish(ids) /\ UNCHANGED <<ix, asking, caches, plan>>
  BY DEF AppendResult, Working, indexVars
<1>2. /\ ix \in Indexes /\ Asked \in Queries /\ Slice(caches, Asked, ranked) /\ PlanOK /\ CachesOK
      /\ nextResult \in 1..ResultSlots /\ Ring(ix, caches, results)
      /\ Loop(ix, Asked, "store", ranked, pos, cand)
      /\ PlacesKept => /\ Meet(ix, ranked, Asked, Len(ranked)) = AllMatch(ix, Asked)
                       /\ AllSettled(ix, results)
  BY <1>1, WorkingFacts
<1>3. ranked[1].bits # NoBits /\ cand = Meet(ix, ranked, Asked, Len(ranked))
  BY <1>2 DEF Loop
<1>4. ids = Meet(ix, ranked, Asked, Len(ranked)) \ ix.excluded[Asked]
  <2>1. ranked[1] \in Entry /\ Live(ranked[1].bits, caches, Asked)
    BY <1>2 DEF Slice
  <2>2. Content(ranked[1].bits) = Means(ix, ranked[1], Asked)
    BY <1>2, <1>3, <2>1, ReadsMeaning
  <2> QED BY <1>2, <1>3, <2>2, ScanMeets
<1> HIDE DEF ids
<1>5. CachesOK' /\ PlanOK'
  BY <1>1, <1>2 DEF CachesOK, PlanOK
<1>6. /\ nextResult' \in 1..ResultSlots /\ Ring(ix, caches, results')
      /\ PlacesKept => AllSettled(ix, results')
  <2>1. CASE Retainable
    <3>1. results' = [results EXCEPT ![nextResult] = r] /\ nextResult' = (nextResult % ResultSlots) + 1
      BY <2>1 DEF AppendResult, Inputs
    <3>2. \A k \in 1..Len(ranked) : ranked[k].bits # NoBits
      BY <1>2, <2>1 DEF Retainable, Slice
    <3>3. r \in Result /\ Intact(ix, caches, r) /\ (cand = AllMatch(ix, Asked) => Settled(ix, r))
      BY <1>2, <1>3, <3>2, StoredResult
    <3> HIDE DEF r
    <3>4. nextResult' \in 1..ResultSlots
      BY <1>2, <3>1, SlotAssumption
    <3>5. /\ results' \in [1..ResultSlots -> Result]
          /\ \A k \in 1..ResultSlots : results'[k] = IF k = nextResult THEN r ELSE results[k]
      BY <1>2, <3>1, <3>3 DEF Ring
    <3>6. Ring(ix, caches, results')
      BY <1>2, <3>3, <3>5 DEF Ring
    <3>7. PlacesKept => AllSettled(ix, results')
      BY <1>2, <1>3, <3>3, <3>5 DEF AllSettled
    <3> QED BY <3>4, <3>6, <3>7
  <2>2. CASE ~Retainable
    BY <1>2, <2>2 DEF AppendResult
  <2> QED BY <2>1, <2>2
<1>7. PlacesKept => ids = Reference(ix, Asked)
  BY <1>2, <1>4 DEF Reference
<1>8. pc' = "return" /\ out' = ids
  BY <1>1 DEF Finish, Goto
<1>9. Calls' /\ Asked' = Asked
  BY <1>1, <1>8, CallsKept DEF IInv
<1>10. RingOK' /\ Frame'
  BY <1>1, <1>6, <1>8 DEF RingOK, Frame, Working
<1>11. PlacesKept => Exact'
  BY <1>1, <1>6, <1>7, <1>8, <1>9 DEF Exact, Working
<1> QED BY <1>5, <1>9, <1>10, <1>11 DEF IInv, PlacesKept

LEMMA ReturnedInv == ASSUME IInv, Returned PROVE IInv'
<1>1. /\ pc' = "idle" /\ asking' = [asking EXCEPT ![Holder] = NoQuery]
      /\ UNCHANGED <<ix, caches, plan, results, nextResult>>
  BY DEF Returned, Goto, localVars
<1>2. Calls'
  BY <1>1, HolderAssumption DEF IInv, Calls, Asked
<1>3. CachesOK' /\ PlanOK' /\ RingOK' /\ Frame'
  BY <1>1 DEF IInv, CachesOK, PlanOK, RingOK, Frame, Working
<1>4. PlacesKept => Exact'
  BY <1>1 DEF IInv, Exact, Working
<1> QED BY <1>2, <1>3, <1>4 DEF IInv, PlacesKept

LEMMA ReopenInv == ASSUME IInv, Reopen PROVE IInv'
<1>1. /\ pc = "idle" /\ caches' = [c \in Children |-> EmptyCache] /\ plan' = NoPlan
      /\ results' = [i \in 1..ResultSlots |-> NoResult] /\ nextResult' = 1
      /\ UNCHANGED <<ix, asking, pc, ranked, pos, cand, out>>
  BY DEF Reopen, indexVars, frameVars
<1>2. Calls'
  BY <1>1 DEF IInv, Calls, Asked
<1>3. CachesOK' /\ PlanOK' /\ Frame'
  BY <1>1, EmptyCacheInv DEF CachesOK, PlanOK, Frame, Working
<1>4. RingOK' /\ AllSettled(ix, results')
  BY <1>1, EmptyRing, SlotAssumption DEF RingOK
<1>5. Exact'
  BY <1>1, <1>4 DEF Exact, Working
<1> QED BY <1>2, <1>3, <1>4, <1>5 DEF IInv

LEMMA StutterInv == ASSUME IInv, UNCHANGED vars PROVE IInv'
<1>1. UNCHANGED <<ix, asking, caches, plan, results, nextResult, pc, ranked, pos, cand, out>>
  BY DEF vars, indexVars, localVars, frameVars
<1>2. Asked' = Asked
  BY <1>1 DEF Asked
<1>3. Calls' /\ CachesOK' /\ PlanOK' /\ RingOK' /\ Frame'
  BY <1>1, <1>2 DEF IInv, Calls, CachesOK, PlanOK, RingOK, Frame
<1>4. PlacesKept => Exact'
  BY <1>1, <1>2 DEF IInv, Exact
<1> QED BY <1>3, <1>4 DEF IInv, PlacesKept

LEMMA StepInv == IInv /\ [Next]_vars => IInv'
<1> SUFFICES ASSUME IInv, [Next]_vars PROVE IInv'
  OBVIOUS
<1>1. CASE \E q \in Queries : Begin(q)
  BY <1>1, BeginInv
<1>2. CASE QueryHit \/ ReuseEmpty \/ ReusePlan \/ DropPlan \/ RankEmpty \/ Rank
  BY <1>2, QueryHitInv, ReuseEmptyInv, ReusePlanInv, DropPlanInv, RankEmptyInv, RankInv
<1>3. CASE LoadResult \/ StartIntersection \/ ScanFirst
  BY <1>3, LoadResultInv, StartIntersectionInv, ScanFirstInv
<1>4. CASE \E j \in 1..Width :
             EmptyIntersection(j) \/ SmallOperand(j) \/ FirstOperand(j) \/ NarrowCandidates(j)
  BY <1>4, EmptyIntersectionInv, SmallOperandInv, FirstOperandInv, NarrowCandidatesInv
<1>5. CASE EndIntersection \/ Validate \/ AppendResult \/ Returned \/ Reopen
  BY <1>5, EndIntersectionInv, ValidateInv, AppendResultInv, ReturnedInv, ReopenInv
<1>6. CASE UNCHANGED vars
  BY <1>6, StutterInv
<1> QED BY <1>1, <1>2, <1>3, <1>4, <1>5, <1>6 DEF Next

LEMMA AlwaysIInv == Spec => []IInv
BY InitInv, StepInv, PTL DEF Spec

(* A complete result that may still be loaded is the intersection of what  *)
(* its inputs contain now, for every index, whatever the caches of the     *)
(* children have rewritten since (allPlan.loadLocalResult, cacheEpoch).    *)
THEOREM ResultsFreshHolds == Spec => []ResultsFresh
<1>1. IInv => ResultsFresh
  BY ContentSame DEF IInv, RingOK, Ring, Intact, ResultsFresh
<1> QED BY <1>1, AlwaysIInv, PTL

(* A Local whose learned orders keep the cached children where they stand  *)
(* answers every search exactly, with any history of searches before       *)
(* (Local.Search).  The run local_plan shows what happens otherwise.       *)
THEOREM LocalAnswersExactHolds == PlacesKept => (Spec => []AnswersExact)
<1> SUFFICES ASSUME PlacesKept PROVE Spec => []AnswersExact
  OBVIOUS
<1>1. IInv => AnswersExact
  BY DEF IInv, Exact, AnswersExact, Reference, Matching, AllMatch, Matches, Answered
<1> QED BY <1>1, AlwaysIInv, PTL

(* And every step of its search is a step of RuleIndex or invisible: the   *)
(* caches, plans and retained results of a Local change no answer.         *)
THEOREM LocalReadsSnapshot == PlacesKept => (Spec => IndexSpec)
<1> SUFFICES ASSUME PlacesKept PROVE Spec => IndexSpec
  OBVIOUS
<1>1. Init => IndexInit
  BY DEF Init
<1>2. IInv /\ [Next]_vars => [IndexNext]_indexVars
  <2> SUFFICES ASSUME IInv, [Next]_vars PROVE [IndexNext]_indexVars
    OBVIOUS
  <2>1. CASE \E q \in Queries : Begin(q)
    BY <2>1, HolderAssumption DEF Begin, IndexNext
  <2>2. CASE Returned
    <3>1. pc = "return" /\ out = Matching(Asked)
      BY <2>2 DEF Returned, IInv, Exact, Reference, Matching, AllMatch, Matches, Answered
    <3>2. Asked # NoQuery
      BY <3>1 DEF IInv, Calls
    <3>3. Return(Holder)
      BY <2>2, <3>1, <3>2 DEF Returned, Return, Asked
    <3> QED BY <3>3, HolderAssumption DEF IndexNext
  <2>3. CASE UNCHANGED indexVars
    BY <2>3
  <2>4. QueryHit \/ ReuseEmpty \/ ReusePlan \/ DropPlan \/ RankEmpty \/ Rank => UNCHANGED indexVars
    BY DEF QueryHit, ReuseEmpty, ReusePlan, DropPlan, Reuse, RankEmpty, Rank
  <2>5. LoadResult \/ StartIntersection \/ ScanFirst => UNCHANGED indexVars
    BY DEF LoadResult, StartIntersection, ScanFirst
  <2>6. (\E j \in 1..Width :
           EmptyIntersection(j) \/ SmallOperand(j) \/ FirstOperand(j) \/ NarrowCandidates(j))
        => UNCHANGED indexVars
    BY DEF EmptyIntersection, SmallOperand, FirstOperand, NarrowCandidates, Operand
  <2>7. EndIntersection \/ Validate \/ AppendResult \/ Reopen => UNCHANGED indexVars
    BY DEF EndIntersection, Validate, AppendResult, Reopen
  <2>8. UNCHANGED vars => UNCHANGED indexVars
    BY DEF vars
  <2> QED BY <2>1, <2>2, <2>3, <2>4, <2>5, <2>6, <2>7, <2>8 DEF Next
<1> QED BY <1>1, <1>2, AlwaysIInv, PTL DEF Spec, IndexSpec
==============================================================================
