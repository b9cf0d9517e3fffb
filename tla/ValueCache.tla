----------------------------- MODULE ValueCache ------------------------------
(***************************************************************************)
(* One per-node cache of a Local driven by searches: each search of the    *)
(* node looks its value up, and on a miss asks for admission.              *)
(***************************************************************************)
EXTENDS LocalCache

CONSTANT MaxClock   \* bound on the use clock (a uint64) for model checking

ASSUME ClockAssumption == MaxClock \in Nat

VARIABLE cache

(* lookup hit, from a search or while All ranks its children               *)
Hit(k) ==
  /\ cache.clock < MaxClock
  /\ \E i \in Slots : cache.entry[i] = k /\ cache' = Touched(cache, i)

(* miss, and the value was not seen recently: searched without retaining   *)
Remember(k) ==
  /\ k \notin CachedKeys(cache) /\ k \notin SeenKeys(cache)
  /\ cache' = Remembered(cache, k)

(* miss of a value seen recently: admitted, an entry is replaced           *)
Admit(k) ==
  /\ cache.clock < MaxClock
  /\ k \notin CachedKeys(cache) /\ k \in SeenKeys(cache)
  /\ cache' = Replaced(Forgotten(cache, k), k)

(* Close resets every node's cache.                                        *)
ResetCache == cache' = EmptyCache

Init == cache = EmptyCache
Next == ResetCache \/ \E k \in Keys : Hit(k) \/ Remember(k) \/ Admit(k)
Spec == Init /\ [][Next]_cache

-----------------------------------------------------------------------------
TypeOK == cache \in CacheType

(* No value is cached twice, and none is both cached and waiting for        *)
(* admission: either would retain two bitmaps for one value.               *)
NoDoubleRetention ==
  /\ Distinct(cache.entry)
  /\ Distinct(cache.seen.key)
  /\ CachedKeys(cache) \cap SeenKeys(cache) = {}

(* When each slot was last used, in either representation                  *)
Stamp(i) ==
  IF cache.wide THEN cache.used[i] ELSE IF i = cache.next THEN 1 ELSE 2

Older(k) ==
  {cache.entry[j] : j \in {j \in Slots : cache.entry[j] # NoKey /\
     \E i \in Slots : cache.entry[i] = k /\ Stamp(j) < Stamp(i)}}

(* The slots, the next index and the clock implement least recently used.  *)
Lru == INSTANCE LruCache WITH
  cached   <- CachedKeys(cache),
  older    <- [k \in Keys |-> Older(k)],
  recent   <- SeenKeys(cache),
  capacity <- IF cache.wide THEN 4 ELSE 2
ImplementsLru == Lru!LruSpec
==============================================================================
