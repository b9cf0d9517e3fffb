------------------------------ MODULE LruCache -------------------------------
(***************************************************************************)
(* What a Local's per-node cache promises: it retains a value only on its  *)
(* second recent use, and when it must make room it drops the value whose  *)
(* last use is the longest ago.                                            *)
(***************************************************************************)
EXTENDS Integers, FiniteSets

CONSTANTS Keys

VARIABLES
  cached,     \* values whose result is retained
  older,      \* older[k]: cached values last used before k
  recent,     \* values missed once that may be retained on the next miss
  capacity    \* 2, then 4

lruVars == <<cached, older, recent, capacity>>

LruInit ==
  /\ cached = {} /\ recent = {} /\ capacity = 2
  /\ older = [k \in Keys |-> {}]

(* older, once k is the most recently used of the values in `kept`         *)
Newest(k, kept) ==
  [x \in Keys |-> IF x = k THEN kept \ {k}
                  ELSE IF x \in kept THEN (older[x] \cap kept) \ {k} ELSE {}]

Use(k) ==
  /\ k \in cached
  /\ older' = Newest(k, cached)
  /\ UNCHANGED <<cached, recent, capacity>>

(* A first miss may push other values out of the recent ones.              *)
MissOnce(k) ==
  /\ k \notin cached /\ k \notin recent
  /\ recent' \in SUBSET (recent \cup {k}) /\ k \in recent'
  /\ UNCHANGED <<cached, older, capacity>>

(* A second miss retains k.  Room is made only when the cache is full.     *)
Retain(k) ==
  /\ k \notin cached /\ k \in recent
  /\ recent' = recent \ {k}
  /\ capacity' # capacity => capacity' = 4 /\ Cardinality(cached) = capacity
  /\ \E dropped \in SUBSET cached :
       /\ dropped # {} <=> Cardinality(cached) = capacity'
       /\ \A d \in dropped : older[d] = {}
       /\ \A d, e \in dropped : d = e
       /\ cached' = (cached \ dropped) \cup {k}
       /\ older' = Newest(k, cached \ dropped)

(* Close: the next lifetime starts cold.                                   *)
Reset ==
  /\ cached' = {} /\ recent' = {} /\ capacity' = 2
  /\ older' = [k \in Keys |-> {}]

LruNext == Reset \/ \E k \in Keys : Use(k) \/ MissOnce(k) \/ Retain(k)

LruSpec == LruInit /\ [][LruNext]_lruVars
==============================================================================
