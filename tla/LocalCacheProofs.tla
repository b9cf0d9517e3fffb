-------------------------- MODULE LocalCacheProofs ---------------------------
(***************************************************************************)
(* What the operators of LocalCache preserve, for every set of values and  *)
(* every bound: the invariant of one cache, cited wherever a cache is part *)
(* of a larger state.                                                      *)
(***************************************************************************)
EXTENDS LocalCache, TLAPS

(* What TypeOK and NoDoubleRetention need to be inductive, and what makes  *)
(* Stamp a strict order on the cached values.                              *)
NarrowShape(c) ==
  ~c.wide =>
    /\ c.entry[3] = NoKey /\ c.entry[4] = NoKey
    /\ c.entry[1] = NoKey => c.entry[2] = NoKey /\ c.next = 1
    /\ c.entry[2] = NoKey => c.entry[1] = NoKey \/ c.next = 2
    /\ c.pressure < 2
WideShape(c) ==
  c.wide =>
    /\ c.entry[1] # NoKey /\ c.entry[2] # NoKey
    /\ c.entry[4] # NoKey => c.entry[3] # NoKey
    /\ \A i \in Slots : c.used[i] <= c.clock
    /\ \A i, j \in Slots :
         c.entry[i] # NoKey /\ c.entry[j] # NoKey /\ c.used[i] = c.used[j] => i = j

NoDouble(c) ==
  /\ Distinct(c.entry) /\ Distinct(c.seen.key)
  /\ CachedKeys(c) \cap SeenKeys(c) = {}

CacheInv(c) == c \in CacheType /\ NarrowShape(c) /\ WideShape(c) /\ NoDouble(c)
LEMMA EmptyCacheInv == CacheInv(EmptyCache)
BY GrowthAssumption, KeyAssumption
   DEF CacheInv, CacheType, NarrowShape, WideShape, NoDouble, Distinct, CachedKeys, SeenKeys,
       EmptyCache, EmptySeen, Slots, Narrow, Slot

(* A hit restamps its slot above every other one.                          *)
LEMMA TouchedInv ==
  ASSUME NEW c, CacheInv(c), NEW i \in Slots, c.entry[i] # NoKey
  PROVE  /\ CacheInv(Touched(c, i))
         /\ Touched(c, i).entry = c.entry /\ Touched(c, i).seen = c.seen
         /\ Touched(c, i).wide = c.wide
<1> DEFINE t == Touched(c, i)
<1>1. CASE c.wide
  <2>1. t = [c EXCEPT !.clock = c.clock + 1, !.used[i] = c.clock + 1]
    BY <1>1 DEF Touched
  <2>2. t \in CacheType
    <3>1. [c.used EXCEPT ![i] = c.clock + 1] \in [Slots -> Nat] /\ c.clock + 1 \in Nat
      BY DEF CacheInv, CacheType
    <3>2. t = [c EXCEPT !.clock = c.clock + 1, !.used = [c.used EXCEPT ![i] = c.clock + 1]]
      BY <2>1
    <3> HIDE DEF t
    <3> QED BY <3>1, <3>2 DEF CacheInv, CacheType
  <2>3. t.entry = c.entry /\ t.seen = c.seen /\ t.wide
    BY <1>1, <2>1 DEF CacheInv, CacheType
  <2>4. WideShape(t)
    BY <1>1, <2>1 DEF CacheInv, CacheType, WideShape, Slots
  <2> QED BY <1>1, <2>2, <2>3, <2>4 DEF CacheInv, NarrowShape, NoDouble, CachedKeys, SeenKeys
<1>2. CASE ~c.wide
  <2>1. t = [c EXCEPT !.next = 3 - i]
    BY <1>2 DEF Touched
  <2>2. i \in 1..2
    BY <1>2 DEF CacheInv, NarrowShape, Slots
  <2>3. t \in CacheType
    BY <2>1, <2>2 DEF CacheInv, CacheType, Narrow
  <2>4. t.entry = c.entry /\ t.seen = c.seen /\ ~t.wide /\ t.pressure = c.pressure /\ t.next = 3 - i
    BY <1>2, <2>1 DEF CacheInv, CacheType
  <2>5. NarrowShape(t)
    BY <1>2, <2>2, <2>4 DEF CacheInv, NarrowShape
  <2>6. WideShape(t) /\ NoDouble(t) /\ t.wide = c.wide
    <3>1. t.wide = c.wide
      BY <2>1 DEF CacheInv, CacheType
    <3> QED BY <1>2, <2>4, <3>1 DEF CacheInv, WideShape, NoDouble, CachedKeys, SeenKeys
  <2> QED BY <2>3, <2>4, <2>5, <2>6 DEF CacheInv
<1> QED BY <1>1, <1>2

(* A first miss writes one place of the seen ring.                         *)
LEMMA RememberedInv ==
  ASSUME NEW c, CacheInv(c), NEW k \in Keys, k \notin CachedKeys(c), k \notin SeenKeys(c)
  PROVE  /\ CacheInv(Remembered(c, k))
         /\ Remembered(c, k).entry = c.entry
         /\ SeenKeys(Remembered(c, k)) \subseteq SeenKeys(c) \cup {k}
         /\ k \in SeenKeys(Remembered(c, k))
<1> DEFINE r == Remembered(c, k)
           misses == (c.misses + 1) % MissModulus
           wide == c.seen.wide \/ misses >= SeenGrowth
           place == c.seen.next
           seen == [key  |-> [c.seen.key EXCEPT ![place] = k],
                    next |-> (place % (IF wide THEN 4 ELSE 2)) + 1,
                    wide |-> wide]
<1>1. r = [c EXCEPT !.misses = misses, !.seen = seen]
  BY DEF Remembered
<1>2. misses \in 0..(MissModulus - 1)
  BY GrowthAssumption DEF CacheInv, CacheType
<1>3. seen \in [key : [Slots -> Slot], next : Slots, wide : BOOLEAN]
  <2>1. place \in Slots /\ c.seen.key \in [Slots -> Slot]
    BY DEF CacheInv, CacheType
  <2>2. (place % (IF wide THEN 4 ELSE 2)) + 1 \in Slots
    BY <2>1 DEF Slots
  <2>3. wide \in BOOLEAN
    BY DEF CacheInv, CacheType
  <2> QED BY <2>1, <2>2, <2>3 DEF Slot
<1>4. r \in CacheType
  BY <1>1, <1>2, <1>3 DEF CacheInv, CacheType
<1>5. /\ r.entry = c.entry /\ r.wide = c.wide /\ r.next = c.next /\ r.pressure = c.pressure
      /\ r.used = c.used /\ r.clock = c.clock
      /\ r.seen.key = [c.seen.key EXCEPT ![place] = k]
  BY <1>1 DEF CacheInv, CacheType
<1>6. place \in Slots /\ c.seen.key \in [Slots -> Slot]
  BY DEF CacheInv, CacheType
<1>7. /\ SeenKeys(r) \subseteq SeenKeys(c) \cup {k}
      /\ k \in SeenKeys(r)
  BY <1>5, <1>6, KeyAssumption DEF SeenKeys
<1>8. Distinct(r.seen.key)
  BY <1>5, <1>6 DEF CacheInv, NoDouble, Distinct, SeenKeys
<1>9. NarrowShape(r) /\ WideShape(r) /\ Distinct(r.entry) /\ CachedKeys(r) = CachedKeys(c)
  BY <1>5 DEF CacheInv, NoDouble, NarrowShape, WideShape, CachedKeys
<1>10. CachedKeys(r) \cap SeenKeys(r) = {}
  BY <1>7, <1>9 DEF CacheInv, NoDouble
<1> QED BY <1>4, <1>5, <1>7, <1>8, <1>9, <1>10 DEF CacheInv, NoDouble

(* Admission takes the value out of the ring and changes nothing else.     *)
LEMMA ForgottenInv ==
  ASSUME NEW c, CacheInv(c), NEW k \in Keys
  PROVE  /\ CacheInv(Forgotten(c, k))
         /\ SeenKeys(Forgotten(c, k)) = SeenKeys(c) \ {k}
         /\ Forgotten(c, k).entry = c.entry
<1> DEFINE f == Forgotten(c, k)
           left == [i \in Slots |-> IF c.seen.key[i] = k THEN NoKey ELSE c.seen.key[i]]
           seen == IF left = EmptySeen.key THEN EmptySeen ELSE [c.seen EXCEPT !.key = left]
<1>1. f = [c EXCEPT !.seen = seen]
  BY DEF Forgotten
<1>2. left \in [Slots -> Slot] /\ c.seen.key \in [Slots -> Slot]
  BY DEF CacheInv, CacheType, Slot
<1>3. seen.key = left /\ seen \in [key : [Slots -> Slot], next : Slots, wide : BOOLEAN]
  BY <1>2 DEF CacheInv, CacheType, EmptySeen, Slots, Slot
<1>4. f \in CacheType
  BY <1>1, <1>3 DEF CacheInv, CacheType
<1>5. /\ f.entry = c.entry /\ f.wide = c.wide /\ f.next = c.next /\ f.pressure = c.pressure
      /\ f.used = c.used /\ f.clock = c.clock /\ f.seen.key = left
  BY <1>1, <1>3 DEF CacheInv, CacheType
<1>6. SeenKeys(f) = SeenKeys(c) \ {k}
  BY <1>2, <1>5, KeyAssumption DEF SeenKeys
<1>7. Distinct(f.seen.key)
  BY <1>2, <1>5 DEF CacheInv, NoDouble, Distinct
<1>8. NarrowShape(f) /\ WideShape(f) /\ Distinct(f.entry) /\ CachedKeys(f) = CachedKeys(c)
  BY <1>5 DEF CacheInv, NoDouble, NarrowShape, WideShape, CachedKeys
<1> QED BY <1>4, <1>5, <1>6, <1>7, <1>8 DEF CacheInv, NoDouble

(* The slot that replace overwrites once the cache is wide: the first      *)
(* unused one while any is left.                                           *)
LEMMA VictimInSlots ==
  ASSUME NEW c, CacheInv(c)
  PROVE  /\ Victim(c) \in Slots
         /\ ~c.wide => Victim(c) = c.next /\ c.next \in Narrow
         /\ c.wide /\ c.entry[3] = NoKey => Victim(c) # 4
<1>1. CASE ~c.wide
  BY <1>1 DEF CacheInv, CacheType, Victim, Slots, Narrow
<1>2. CASE c.wide /\ {i \in 2..4 : c.entry[i] = NoKey} # {}
  <2> DEFINE empty == {i \in 2..4 : c.entry[i] = NoKey}
  <2>1. Victim(c) = CHOOSE i \in empty : \A j \in empty : i <= j
    BY <1>2 DEF Victim
  <2>2. \E i \in empty : \A j \in empty : i <= j
    BY <1>2
  <2>3. Victim(c) \in empty /\ \A j \in empty : Victim(c) <= j
    BY <2>1, <2>2
  <2> QED BY <1>2, <2>3 DEF Slots
<1>3. CASE c.wide /\ {i \in 2..4 : c.entry[i] = NoKey} = {}
  <2> DEFINE oldest(i) == \A j \in Slots : c.used[i] < c.used[j] \/ (c.used[i] = c.used[j] /\ i <= j)
  <2>1. Victim(c) = CHOOSE i \in Slots : oldest(i)
    BY <1>3 DEF Victim
  <2>2. c.used[1] \in Nat /\ c.used[2] \in Nat /\ c.used[3] \in Nat /\ c.used[4] \in Nat
    BY DEF CacheInv, CacheType, Slots
  <2>3. oldest(1) \/ oldest(2) \/ oldest(3) \/ oldest(4)
    BY <2>2 DEF Slots
  <2>4. Victim(c) \in Slots
    BY <2>1, <2>3 DEF Slots
  <2>5. c.entry[3] # NoKey
    BY <1>3
  <2> QED BY <1>3, <2>4, <2>5
<1> QED BY <1>1, <1>2, <1>3

(* The second replacement of a live value widens the cache.                *)
LEMMA PressedInv ==
  ASSUME NEW c, CacheInv(c)
  PROVE  /\ CacheInv(Pressed(c))
         /\ Pressed(c).entry = c.entry /\ Pressed(c).seen = c.seen
<1> DEFINE p == Pressed(c)
<1> USE DEF Slots
<1>1. CASE c.wide \/ c.entry[c.next] = NoKey
  BY <1>1 DEF Pressed
<1>2. CASE ~c.wide /\ c.entry[c.next] # NoKey /\ c.pressure + 1 < 2
  <2>1. p = [c EXCEPT !.pressure = c.pressure + 1]
    BY <1>2 DEF Pressed, CacheInv, CacheType
  <2>2. p \in CacheType
    BY <1>2, <2>1 DEF CacheInv, CacheType
  <2>3. /\ p.entry = c.entry /\ p.seen = c.seen /\ p.wide = c.wide /\ p.next = c.next
        /\ p.pressure < 2
    BY <1>2, <2>1 DEF CacheInv, CacheType
  <2>4. NarrowShape(p) /\ WideShape(p) /\ NoDouble(p)
    BY <1>2, <2>3 DEF CacheInv, NarrowShape, WideShape, NoDouble, CachedKeys, SeenKeys
  <2> QED BY <2>2, <2>3, <2>4 DEF CacheInv
<1>3. CASE ~c.wide /\ c.entry[c.next] # NoKey /\ ~(c.pressure + 1 < 2)
  <2> DEFINE used == [i \in Slots |-> IF i = c.next THEN 1 ELSE IF i = 3 - c.next THEN 2 ELSE 0]
  <2>1. c.pressure \in 0..2 /\ c.next \in 1..2
    BY DEF CacheInv, CacheType, Narrow
  <2>2. p = [c EXCEPT !.pressure = c.pressure + 1, !.wide = TRUE, !.clock = 2, !.next = 1,
                      !.used = used]
    BY <1>3, <2>1 DEF Pressed, Grown, CacheInv, CacheType
  <2>3. c.pressure + 1 \in 0..2
    BY <1>3, <2>1 DEF CacheInv, NarrowShape
  <2>4. used \in [Slots -> Nat] /\ \A i \in Slots : used[i] <= 2
    BY <2>1
  <2>5. p \in CacheType
    <3>1. 1 \in Narrow /\ 2 \in Nat
      BY DEF Narrow
    <3> HIDE DEF p, used, Slots
    <3> QED BY <2>2, <2>3, <2>4, <3>1 DEF CacheInv, CacheType
  <2>6. /\ p.entry = c.entry /\ p.seen = c.seen /\ p.wide /\ p.clock = 2 /\ p.used = used
    BY <2>2 DEF CacheInv, CacheType
  <2>7. /\ c.entry[1] # NoKey /\ c.entry[2] # NoKey
        /\ c.entry[3] = NoKey /\ c.entry[4] = NoKey
    BY <1>3, <2>1 DEF CacheInv, NarrowShape
  <2>8. \A i, j \in Slots : c.entry[i] # NoKey /\ c.entry[j] # NoKey /\ used[i] = used[j] => i = j
    BY <2>1, <2>7
  <2>9. WideShape(p)
    BY <2>4, <2>6, <2>7, <2>8 DEF WideShape
  <2>10. NarrowShape(p) /\ NoDouble(p)
    BY <2>6 DEF CacheInv, NarrowShape, NoDouble, CachedKeys, SeenKeys
  <2> QED BY <2>5, <2>6, <2>9, <2>10 DEF CacheInv
<1>4. c.pressure \in Int
  BY DEF CacheInv, CacheType
<1> QED BY <1>1, <1>2, <1>3, <1>4

(* Replacing writes one slot and makes it the most recently used.          *)
LEMMA StoredInv ==
  ASSUME NEW c, CacheInv(c), NEW k \in Keys,
         k \notin CachedKeys(c), k \notin SeenKeys(c)
  PROVE  CacheInv(Stored(c, k))
<1> DEFINE i == Victim(c)
           s == Stored(c, k)
           entry == [c.entry EXCEPT ![i] = k]
<1>1. i \in Slots /\ (~c.wide => i = c.next /\ i \in Narrow) /\ (c.wide /\ c.entry[3] = NoKey => i # 4)
  BY VictimInSlots
<1>2. c.entry \in [Slots -> Slot] /\ entry \in [Slots -> Slot] /\ k # NoKey
  BY <1>1, KeyAssumption DEF CacheInv, CacheType, Slot
<1>3. /\ \A j \in Slots : entry[j] = IF j = i THEN k ELSE c.entry[j]
      /\ \A j \in Slots : c.entry[j] # k
  BY <1>1, <1>2 DEF CachedKeys
<1> HIDE DEF i, entry
<1>4. Distinct(entry)
  BY <1>3 DEF CacheInv, NoDouble, Distinct
<1>5. ({entry[j] : j \in Slots} \ {NoKey}) \cap SeenKeys(c) = {}
  BY <1>3 DEF CacheInv, NoDouble, CachedKeys
<1>6. ASSUME s.entry = entry, s.seen = c.seen
      PROVE  NoDouble(s)
  BY <1>4, <1>5, <1>6 DEF CacheInv, NoDouble, CachedKeys, SeenKeys
<1>7. CASE c.wide
  <2> DEFINE used == [c.used EXCEPT ![i] = c.clock + 1]
  <2>1. s = [c EXCEPT !.entry = entry, !.clock = c.clock + 1, !.used = used]
    BY <1>7 DEF Stored, i, entry
  <2>2. /\ c.used \in [Slots -> Nat] /\ used \in [Slots -> Nat]
        /\ c.clock \in Nat /\ c.clock + 1 \in Nat
    <3>1. c.used \in [Slots -> Nat] /\ c.clock \in Nat
      BY DEF CacheInv, CacheType
    <3> QED BY <3>1, <1>1
  <2>3. \A j \in Slots : used[j] = IF j = i THEN c.clock + 1 ELSE c.used[j]
    BY <2>2
  <2> HIDE DEF used, s
  <2>4. s \in CacheType
    BY <1>2, <2>1, <2>2 DEF CacheInv, CacheType
  <2>5. /\ s.entry = entry /\ s.seen = c.seen /\ s.wide = c.wide
        /\ s.used = used /\ s.clock = c.clock + 1
    BY <2>1 DEF CacheInv, CacheType
  <2>6. /\ c.entry[1] # NoKey /\ c.entry[2] # NoKey
        /\ c.entry[4] # NoKey => c.entry[3] # NoKey
        /\ \A j \in Slots : c.used[j] <= c.clock
        /\ \A m, n \in Slots :
             c.entry[m] # NoKey /\ c.entry[n] # NoKey /\ c.used[m] = c.used[n] => m = n
    BY <1>7 DEF CacheInv, WideShape
  <2>7. /\ entry[1] # NoKey /\ entry[2] # NoKey
        /\ entry[4] # NoKey => entry[3] # NoKey
    BY <1>1, <1>2, <1>3, <1>7, <2>6 DEF Slots
  <2>8. \A j \in Slots : used[j] <= c.clock + 1 /\ (used[j] = c.clock + 1 => j = i)
    BY <2>2, <2>3, <2>6
  <2>9. \A m, n \in Slots :
          entry[m] # NoKey /\ entry[n] # NoKey /\ used[m] = used[n] => m = n
    BY <1>3, <2>3, <2>6, <2>8
  <2>10. WideShape(s) /\ NarrowShape(s)
    BY <1>7, <2>5, <2>7, <2>8, <2>9 DEF WideShape, NarrowShape
  <2> QED BY <1>6, <2>4, <2>5, <2>10 DEF CacheInv, s
<1>8. CASE ~c.wide
  <2>1. s = [c EXCEPT !.entry = entry, !.next = 3 - i]
    BY <1>8 DEF Stored, i, entry
  <2>2. i = c.next /\ i \in 1..2 /\ 3 - i \in Narrow
    BY <1>1, <1>8 DEF Narrow
  <2> HIDE DEF s
  <2>3. s \in CacheType
    BY <1>2, <2>1, <2>2 DEF CacheInv, CacheType
  <2>4. /\ s.entry = entry /\ s.seen = c.seen /\ s.wide = c.wide
        /\ s.next = 3 - i /\ s.pressure = c.pressure
    BY <2>1 DEF CacheInv, CacheType
  <2>5. /\ c.entry[3] = NoKey /\ c.entry[4] = NoKey
        /\ c.entry[1] = NoKey => c.entry[2] = NoKey /\ c.next = 1
        /\ c.entry[2] = NoKey => c.entry[1] = NoKey \/ c.next = 2
        /\ c.pressure < 2
    BY <1>8 DEF CacheInv, NarrowShape
  <2>6. NarrowShape(s) /\ WideShape(s)
    BY <1>2, <1>3, <1>8, <2>2, <2>4, <2>5 DEF NarrowShape, WideShape, Slots
  <2> QED BY <1>6, <2>3, <2>4, <2>6 DEF CacheInv, s
<1>9. c.wide \in BOOLEAN
  BY DEF CacheInv, CacheType
<1> QED BY <1>7, <1>8, <1>9 DEF s

LEMMA ReplacedInv ==
  ASSUME NEW c, CacheInv(c), NEW k \in Keys, k \notin CachedKeys(c), k \notin SeenKeys(c)
  PROVE  CacheInv(Replaced(c, k))
<1>1. /\ CacheInv(Pressed(c))
      /\ Pressed(c).entry = c.entry /\ Pressed(c).seen = c.seen
  BY PressedInv
<1>2. k \notin CachedKeys(Pressed(c)) /\ k \notin SeenKeys(Pressed(c))
  BY <1>1 DEF CachedKeys, SeenKeys
<1> QED BY <1>1, <1>2, StoredInv DEF Replaced

(* A search keeps the invariant, whichever of its three ways it goes.      *)
LEMMA SearchedInv ==
  ASSUME NEW c, CacheInv(c), NEW k \in Keys
  PROVE  CacheInv(Searched(c, k))
<1>1. CASE k \in CachedKeys(c)
  <2>1. SlotWith(c, k) \in Slots /\ c.entry[SlotWith(c, k)] = k
    BY <1>1 DEF CachedKeys, SlotWith
  <2>2. k # NoKey
    BY KeyAssumption
  <2>3. CacheInv(Touched(c, SlotWith(c, k)))
    BY <2>1, <2>2, TouchedInv
  <2> QED BY <1>1, <2>3 DEF Searched
<1>2. CASE k \notin CachedKeys(c) /\ k \in SeenKeys(c)
  <2>1. /\ CacheInv(Forgotten(c, k))
        /\ SeenKeys(Forgotten(c, k)) = SeenKeys(c) \ {k}
        /\ Forgotten(c, k).entry = c.entry
    BY ForgottenInv
  <2>2. k \notin CachedKeys(Forgotten(c, k)) /\ k \notin SeenKeys(Forgotten(c, k))
    BY <1>2, <2>1 DEF CachedKeys
  <2>3. CacheInv(Replaced(Forgotten(c, k), k))
    BY <2>1, <2>2, ReplacedInv
  <2> QED BY <1>2, <2>3 DEF Searched
<1>3. CASE k \notin CachedKeys(c) /\ k \notin SeenKeys(c)
  BY <1>3, RememberedInv DEF Searched
<1> QED BY <1>1, <1>2, <1>3
==============================================================================
