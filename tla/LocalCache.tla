----------------------------- MODULE LocalCache ------------------------------
(***************************************************************************)
(* The per-node result cache of a Local (valueBitmapCache) as operators on *)
(* a cache record: which query values it retains, which ones it has seen   *)
(* once, and in which order it will replace them.                          *)
(*                                                                         *)
(* Two slots serve until the second replacement of a live entry; then the  *)
(* cache grows to four slots ordered by a clock.  A value is retained only *)
(* when it is missed again while the small `seen` ring remembers it.       *)
(***************************************************************************)
EXTENDS Integers

CONSTANTS
  Keys,          \* getter outputs of one node, "no value" included
  NoKey,         \* an uninitialized slot
  SeenGrowth,    \* misses before the seen ring doubles (8 in the code)
  MissModulus    \* misses is a uint8 (256 in the code)

ASSUME KeyAssumption    == NoKey \notin Keys
ASSUME GrowthAssumption ==
  SeenGrowth \in Nat /\ MissModulus \in Nat /\ 0 < SeenGrowth /\ SeenGrowth < MissModulus

Slots  == 1..4
Narrow == 1..2      \* the slots that exist before overflow is allocated
Slot   == Keys \cup {NoKey}

EmptySeen == [key |-> [i \in Slots |-> NoKey], next |-> 1, wide |-> FALSE]

(* newValueBitmapCache, and what reset leaves behind                       *)
EmptyCache ==
  [entry |-> [i \in Slots |-> NoKey], seen |-> EmptySeen,
   next |-> 1, pressure |-> 0, misses |-> 0,
   wide |-> FALSE, used |-> [i \in Slots |-> 0], clock |-> 0]

CacheType ==
  [entry : [Slots -> Slot],
   seen  : [key : [Slots -> Slot], next : Slots, wide : BOOLEAN],
   next : Narrow, pressure : 0..2, misses : 0..(MissModulus - 1),
   wide : BOOLEAN, used : [Slots -> Nat], clock : Nat]

CachedKeys(c) == {c.entry[i] : i \in Slots} \ {NoKey}
SeenKeys(c)   == {c.seen.key[i] : i \in Slots} \ {NoKey}

(* No value takes two places.                                              *)
Distinct(f) == \A i, j \in Slots : f[i] = f[j] /\ f[i] # NoKey => i = j

(* Fault: a hit makes its own slot the next to be replaced.                *)
TouchedWrongSlot(c, i) ==
  IF c.wide THEN [c EXCEPT !.clock = @ + 1, !.used[i] = c.clock + 1]
  ELSE [c EXCEPT !.next = i]

(* lookup, on a hit in slot i                                              *)
Touched(c, i) ==
  IF c.wide THEN [c EXCEPT !.clock = @ + 1, !.used[i] = c.clock + 1]
  ELSE [c EXCEPT !.next = 3 - i]

(* Fault: the admitted value stays in the ring.                            *)
ForgottenKept(c, k) == c

(* admit: a value seen before leaves the ring.  An emptied ring is freed,  *)
(* and a fresh one is narrow again.                                        *)
Forgotten(c, k) ==
  LET left == [i \in Slots |-> IF c.seen.key[i] = k THEN NoKey ELSE c.seen.key[i]]
  IN  [c EXCEPT !.seen = IF left = EmptySeen.key THEN EmptySeen ELSE [@ EXCEPT !.key = left]]

(* Fault: the ring index never wraps.                                      *)
RememberedPastEnd(c, k) ==
  [c EXCEPT !.misses = (@ + 1) % MissModulus,
            !.seen = [key  |-> [@.key EXCEPT ![c.seen.next] = k],
                      next |-> c.seen.next + 1,
                      wide |-> @.wide \/ c.misses + 1 >= SeenGrowth]]

(* admit: a new value takes the next place in the ring.                    *)
Remembered(c, k) ==
  LET misses == (c.misses + 1) % MissModulus
      wide   == c.seen.wide \/ misses >= SeenGrowth
      place  == c.seen.next
  IN  [c EXCEPT !.misses = misses,
                !.seen = [key  |-> [@.key EXCEPT ![place] = k],
                          next |-> (place % (IF wide THEN 4 ELSE 2)) + 1,
                          wide |-> wide]]

(* grow: next names the least recently used of the two slots.              *)
Grown(c) ==
  [c EXCEPT !.wide = TRUE, !.clock = 2, !.next = 1,
            !.used = [i \in Slots |-> IF i = c.next THEN 1 ELSE IF i = 3 - c.next THEN 2 ELSE 0]]

(* The slot replace overwrites: an unused one, else the longest unused.    *)
Victim(c) ==
  LET empty == {i \in 2..4 : c.entry[i] = NoKey}
  IN  IF ~c.wide THEN c.next
      ELSE IF empty # {} THEN CHOOSE i \in empty : \A j \in empty : i <= j
      ELSE CHOOSE i \in Slots : \A j \in Slots :
             c.used[i] < c.used[j] \/ (c.used[i] = c.used[j] /\ i <= j)

(* replace, once `pressure` has been dealt with                            *)
Stored(c, k) ==
  LET i == Victim(c) IN
  IF c.wide
  THEN [c EXCEPT !.entry[i] = k, !.clock = @ + 1, !.used[i] = c.clock + 1]
  ELSE [c EXCEPT !.entry[i] = k, !.next = 3 - i]

(* replace                                                                 *)
Pressed(c) ==
  IF c.wide \/ c.entry[c.next] = NoKey THEN c
  ELSE IF c.pressure + 1 >= 2 THEN Grown([c EXCEPT !.pressure = @ + 1])
  ELSE [c EXCEPT !.pressure = @ + 1]
Replaced(c, k) == Stored(Pressed(c), k)

(* A search of the node for k: a hit touches the entry, a second miss      *)
(* replaces one.                                                           *)
SlotWith(c, k) == CHOOSE i \in Slots : c.entry[i] = k
Searched(c, k) ==
  IF k \in CachedKeys(c) THEN Touched(c, SlotWith(c, k))
  ELSE IF k \in SeenKeys(c) THEN Replaced(Forgotten(c, k), k)
  ELSE Remembered(c, k)
==============================================================================
