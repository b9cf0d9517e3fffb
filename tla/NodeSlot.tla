------------------------------ MODULE NodeSlot -------------------------------
(***************************************************************************)
(* The equality slot of one runtime node of a Local.  The leaf of the node *)
(* keeps a value cache there, and a strict antonym operand whose first     *)
(* member is the leaf keeps a pair cache there: the two displace each      *)
(* other, and operands of different Alls share one pair cache.             *)
(***************************************************************************)
EXTENDS ValueCache, Sequences

CONSTANTS
  PairKeys,     \* getter outputs of the members of the operands
  Operands,     \* the operands on this node, each named by its other member
  Self,         \* the leaf of this node
  Outputs,      \* Outputs[m]: what the getter of member m may return
  Ids,
  Concrete      \* Concrete[m][k]: the IDs member m stores under k

Members     == Operands \cup {Self}
HasValue(m) == UNION {Concrete[m][k] : k \in Outputs[m]}

ASSUME PairAssumption ==
  /\ Self \notin Operands /\ <<>> \notin PairKeys
  /\ Outputs \in [Members -> SUBSET PairKeys]
  /\ Concrete \in [Members -> [PairKeys -> SUBSET Ids]]

(* strictWildcardComplements: each ID has a value in exactly one member.   *)
ASSUME ComplementAssumption == \A o \in Operands : HasValue(o) = Ids \ HasValue(Self)

VARIABLES
  holds,   \* what the slot points to: "nothing", "values" (cache) or "pairs"
  pairs    \* the antonym cache

slotVars == <<cache, holds, pairs>>

Places  == 1..2
Queries == {q \in [Members -> PairKeys] : \A m \in Members : q[m] \in Outputs[m]}

(* Fault: every provider is asked for the key of the first one.            *)
FirstKeyOnly(o, q) == <<q[Self], q[Self]>>

(* captureQueryKeys: one key per member, left members first                *)
CapturedKeys(o, q) == <<q[Self], q[o]>>

(* addMatches: what either member stores under its key                     *)
Answer(o, q) == Concrete[Self][q[Self]] \cup Concrete[o][q[o]]

NoKeys  == <<>>
NoEntry == [keys |-> NoKeys, bits |-> {}]
EmptyPairs ==
  [entry |-> [i \in Places |-> NoEntry], seen |-> [i \in Places |-> NoKeys], next |-> 1, seenNext |-> 1]

CachedPairs(p) == {p.entry[i].keys : i \in Places} \ {NoKeys}
SeenPairs(p)   == {p.seen[i] : i \in Places} \ {NoKeys}

(* peek on a hit, from a search or while All ranks its children            *)
PairHit(p, i) == [p EXCEPT !.next = 3 - i]

(* admit: a pair seen before is forgotten.                                 *)
PairAdmitted(p, keys) ==
  [p EXCEPT !.seen = [i \in Places |-> IF @[i] = keys THEN NoKeys ELSE @[i]]]

(* admit: a new pair takes the next place.                                 *)
PairRemembered(p, keys) ==
  [p EXCEPT !.seen[p.seenNext] = keys, !.seenNext = 3 - @]

(* replace, and the search that fills the cleared bitmap                   *)
PairReplaced(p, keys, bits) ==
  [p EXCEPT !.entry[p.next] = [keys |-> keys, bits |-> bits], !.next = 3 - @]

(* A search of operand o                                                   *)
PairSearched(p, o, q) ==
  LET keys == CapturedKeys(o, q) IN
  IF keys \in CachedPairs(p)
  THEN PairHit(p, CHOOSE i \in Places : p.entry[i].keys = keys)
  ELSE IF keys \in SeenPairs(p) THEN PairReplaced(PairAdmitted(p, keys), keys, Answer(o, q))
  ELSE PairRemembered(p, keys)

-----------------------------------------------------------------------------
(* equalityCache: a slot that holds no value cache gets an empty one.      *)
SearchLeaf ==
  /\ \E k \in Keys : Hit(k) \/ Remember(k) \/ Admit(k)
  /\ holds' = "values"
  /\ pairs' = EmptyPairs

(* strictEqualityAntonymRule.search in a Local: likewise                   *)
SearchOperand(o, q) ==
  /\ pairs' = PairSearched(pairs, o, q)
  /\ holds' = "pairs"
  /\ cache' = EmptyCache

(* lookupCachedBitmap while All ranks its children: never displaces        *)
PeekOperand(o, q) ==
  /\ \E i \in Places : pairs.entry[i].keys = CapturedKeys(o, q) /\ pairs' = PairHit(pairs, i)
  /\ UNCHANGED <<cache, holds>>

(* Close resets the cache the slot holds, and leaves it there.             *)
CloseSlot == ResetCache /\ pairs' = EmptyPairs /\ UNCHANGED holds

SlotInit == Init /\ holds = "nothing" /\ pairs = EmptyPairs
SlotNext ==
  \/ SearchLeaf
  \/ \E o \in Operands, q \in Queries : SearchOperand(o, q) \/ PeekOperand(o, q)
  \/ CloseSlot
SlotSpec == SlotInit /\ [][SlotNext]_slotVars

-----------------------------------------------------------------------------
Pair == {NoKeys} \cup (PairKeys \X PairKeys)

SlotTypeOK ==
  /\ holds \in {"nothing", "values", "pairs"}
  /\ holds # "values" => cache = EmptyCache
  /\ holds # "pairs" => pairs = EmptyPairs
  /\ pairs \in [entry : [Places -> [keys : Pair, bits : SUBSET Ids]],
                seen : [Places -> Pair], next : Places, seenNext : Places]

(* The bitmap a hit returns is the answer of the operand that asks to its  *)
(* own query: an exact index neither adds nor loses matches, in a Local as *)
(* elsewhere (docs/index-architecture.md).                                 *)
OwnAnswers ==
  \A o \in Operands, q \in Queries, i \in Places :
    pairs.entry[i].keys = CapturedKeys(o, q) => pairs.entry[i].bits = Answer(o, q)

(* Getters of different types: optionalValue[V] matches no other V.        *)
KeysApart == \A o, p \in Operands : o # p => Outputs[o] \cap Outputs[p] = {}

(* With two entries, next names the one last used before the other.        *)
OlderPairs(keys) ==
  {pairs.entry[j].keys : j \in {j \in Places : j = pairs.next /\ pairs.entry[j].keys # keys}} \ {NoKeys}

PairLru == INSTANCE LruCache WITH
  Keys     <- PairKeys \X PairKeys,
  cached   <- CachedPairs(pairs),
  older    <- [k \in PairKeys \X PairKeys |-> IF k \in CachedPairs(pairs) THEN OlderPairs(k) ELSE {}],
  recent   <- SeenPairs(pairs),
  capacity <- 2

(* The pair cache of an antonym operand evicts the pair of values used     *)
(* longest ago, counting the uses by planning, and admits on the second    *)
(* miss: replace, peek and admit never lose the order.                     *)
ImplementsPairLru == PairLru!LruSpec
==============================================================================
