---------------------------- MODULE OrderedIndex ----------------------------
(***************************************************************************)
(* One ordered index (orderedIndex) from its first insertion to the        *)
(* published form a search reads.                                          *)
(*                                                                         *)
(* Items, one per value, lie in blocks that split when they are full; a    *)
(* block keeps the union of its postings, and shares that bitmap with its  *)
(* only item when it has one.  Merging neighbours rebuilds one or two      *)
(* blocks.  Publication adds a routing table, prefix counts and, for       *)
(* CompareBy, aggregates of aligned groups of blocks; a search uses all of *)
(* them to avoid visiting every posting.                                   *)
(*                                                                         *)
(* Every build step is one of BoundaryIndex, whose posting is what the     *)
(* blocks keep under each boundary.  Blocks and positions count from 1,    *)
(* where the code counts from 0.                                           *)
(***************************************************************************)
EXTENDS BoundaryIndex, Sequences, FiniteSets, FiniteSetsExt, SequencesExt

CONSTANTS
  BlockSize,       \* half the items of a full block (64 in the code)
  RangeBlockSize,  \* blocks in one range aggregate (8 in the code)
  KeyMaps,         \* the routing keys the value type may have, per value
  KeyModulus,      \* keys are unsigned words (2^64 in the code)
  MaxEntries,      \* bound: entries of the build
  NoAlias,         \* the block's union is a bitmap of its own
  None             \* no routing table, or no valid accounting

ASSUME OrderedAssumption ==
  /\ NoAlias \notin Values /\ IsFiniteSet(Ids)
  /\ BlockSize \in Nat \ {0} /\ RangeBlockSize \in Nat \ {0}
  /\ \A key \in KeyMaps \ {None} :
       /\ key \in [Values -> 0..(KeyModulus - 1)]
       /\ \A v, w \in Values : v < w => key[v] =< key[w]

VARIABLES
  blocks,      \* sequence of [items, bits, alias]
  accounting,  \* cached build accounting, or None
  prefix,      \* prefix[i]: IDs counted in blocks 1..i-1
  ranges,      \* ranges[g]: union of the g-th group of RangeBlockSize blocks
  routing,     \* [min, width, blocks], or None
  key          \* routing key of each value, None for a type that has none

vars == <<dir, quantized, stored, published, posting,
          blocks, accounting, prefix, ranges, routing, key>>

-----------------------------------------------------------------------------
(* Blocks.                                                                 *)

Postings(items) == UNION {items[i].bits : i \in DOMAIN items}

First(b) == Head(b.items).value
Final(b) == Last(b.items).value

(* aggregateOrderedItems: one item lends its bitmap to the block.          *)
Rebuilt(items) ==
  [items |-> items, bits |-> Postings(items),
   alias |-> IF Len(items) = 1 THEN items[1].value ELSE NoAlias]

(* searchBlock                                                             *)
Position(b, v) == Min({i \in 1..(Len(b.items) + 1) : i > Len(b.items) \/ b.items[i].value >= v})

Has(b, v) == \E i \in DOMAIN b.items : b.items[i].value = v

(* blockFor on an index without a routing table                            *)
BlockAt(bs, v) == Min({i \in DOMAIN bs : i = Len(bs) \/ Final(bs[i]) >= v})

(* Adding IDs to an item's bitmap, and to a block's: the same bitmap when  *)
(* the block shares it.                                                    *)
Gains(item, ids) == [value |-> item.value, bits |-> item.bits \cup ids]

AddToItem(b, v, ids) ==
  [items |-> [b.items EXCEPT ![Position(b, v)] = Gains(@, ids)],
   bits  |-> IF b.alias = v THEN b.bits \cup ids ELSE b.bits,
   alias |-> b.alias]

AddToBlock(b, ids) ==
  [items |-> [i \in DOMAIN b.items |->
                IF b.items[i].value = b.alias THEN Gains(b.items[i], ids) ELSE b.items[i]],
   bits  |-> b.bits \cup ids,
   alias |-> b.alias]

(* Fault: a block's union stays shared when it gets a second item.         *)
KeptShared(bs) == bs

(* detachSharedBlockAggregates                                             *)
Detached(bs) ==
  [i \in DOMAIN bs |->
     IF Len(bs[i].items) = 1 THEN [bs[i] EXCEPT !.alias = NoAlias] ELSE bs[i]]

(* The second half of insertItem: a block that is too long becomes two.    *)
Split(b) ==
  LET left  == SubSeq(b.items, 1, BlockSize)
      right == SubSeq(b.items, BlockSize + 1, Len(b.items))
  IN  IF Len(b.items) =< 2 * BlockSize THEN <<b>>
      ELSE <<[items |-> left, bits |-> Postings(left), alias |-> NoAlias],
             [items |-> right, bits |-> Postings(right), alias |-> NoAlias]>>

(* insertItem into an index that has blocks                                *)
WithItem(bs, item) ==
  LET at == BlockAt(bs, item.value)
      longer == [bs[at] EXCEPT !.items = InsertAt(@, Position(bs[at], item.value), item)]
  IN  SubSeq(bs, 1, at - 1) \o Split(longer) \o SubSeq(bs, at + 1, Len(bs))

(* insertPosting: IDs already merged under a boundary.                     *)
WithPosting(bs, v, ids) ==
  IF bs = <<>> THEN <<Rebuilt(<<[value |-> v, bits |-> ids]>>)>>
  ELSE IF Has(bs[BlockAt(bs, v)], v)
       THEN [bs EXCEPT ![BlockAt(bs, v)] = AddToBlock(AddToItem(@, v, ids), ids)]
  ELSE LET placed == WithItem(Detached(bs), [value |-> v, bits |-> ids])
       IN  [placed EXCEPT ![BlockAt(placed, v)] = AddToBlock(@, ids)]

(* insert: one ID; the first block does not share its union.               *)
WithId(bs, v, id) ==
  IF bs = <<>>
  THEN <<[items |-> <<[value |-> v, bits |-> {id}]>>, bits |-> {id}, alias |-> NoAlias]>>
  ELSE IF Has(bs[BlockAt(bs, v)], v)
       THEN [bs EXCEPT ![BlockAt(bs, v)] = AddToBlock(AddToItem(@, v, {id}), {id})]
  ELSE LET item   == [value |-> v, bits |-> {}]
           placed == WithItem(Detached(bs), item)
           at     == BlockAt(placed, v)
       IN  [placed EXCEPT ![at] = AddToBlock(AddToItem(@, v, {id}), {id})]

Items(bs) == FlattenSeq([i \in DOMAIN bs |-> bs[i].items])

(* cloneBuild: item after item into an empty index.                        *)
Cloned(bs) ==
  LET items == Items(bs)
      made[n \in 0..Len(items)] ==
        IF n = 0 THEN <<>> ELSE WithPosting(made[n - 1], items[n].value, items[n].bits)
  IN  made[Len(items)]

-----------------------------------------------------------------------------
(* Coarsening.                                                             *)

(* Adjacent items, in one block or across two.                             *)
Neighbours(bs) ==
  {n \in [lb : DOMAIN bs, li : 1..(2 * BlockSize), rb : DOMAIN bs, ri : 1..(2 * BlockSize)] :
     /\ n.li =< Len(bs[n.lb].items) /\ n.ri =< Len(bs[n.rb].items)
     /\ \/ n.rb = n.lb /\ n.ri = n.li + 1
        \/ n.rb = n.lb + 1 /\ n.li = Len(bs[n.lb].items) /\ n.ri = 1}

MergedPosting(bs, n) == bs[n.lb].items[n.li].bits \cup bs[n.rb].items[n.ri].bits

(* bestOrderedMerge: the smallest union; byte sizes decide between equals. *)
BestMerges(bs) ==
  {n \in Neighbours(bs) : \A m \in Neighbours(bs) :
     Cardinality(MergedPosting(bs, n)) =< Cardinality(MergedPosting(bs, m))}

(* Fault: the boundary moves inward.                                        *)
MergedItemInward(bs, n) ==
  [value |-> IF dir = "lessThan" THEN bs[n.lb].items[n.li].value ELSE bs[n.rb].items[n.ri].value,
   bits  |-> MergedPosting(bs, n)]

MergedItem(bs, n) ==
  [value |-> IF dir = "lessThan" THEN bs[n.rb].items[n.ri].value ELSE bs[n.lb].items[n.li].value,
   bits  |-> MergedPosting(bs, n)]

(* A block that has lost its only item is dropped.                         *)
RebuiltIfAny(items) == IF items = <<>> THEN <<>> ELSE <<Rebuilt(items)>>

(* rebuildSelectedOrderedBoundaryInto: a merge across blocks leaves the    *)
(* new item on the boundary's side.                                        *)
MergeParts(bs, n) ==
  LET left  == bs[n.lb].items
      right == bs[n.rb].items
      item  == MergedItem(bs, n)
  IN  IF n.lb = n.rb THEN <<Rebuilt(RemoveAt(ReplaceAt(left, n.li, item), n.ri))>>
      ELSE IF dir = "greaterThan"
           THEN <<Rebuilt(ReplaceAt(left, n.li, item))>> \o RebuiltIfAny(Tail(right))
           ELSE RebuiltIfAny(Front(left)) \o <<Rebuilt(ReplaceAt(right, n.ri, item))>>

Merged(bs, n) ==
  SubSeq(bs, 1, n.lb - 1) \o MergeParts(bs, n) \o SubSeq(bs, n.rb + 1, Len(bs))

(* orderedBlockBuildAccounting: an item costs its value and its bitmap, a  *)
(* block of several items its union as well; n IDs make a bitmap of n + 1. *)
BlockMemory(b) ==
  SumFunction([i \in DOMAIN b.items |-> Cardinality(b.items[i].bits) + 2])
    + IF Len(b.items) > 1 THEN Cardinality(b.bits) + 2 ELSE 0

Memory(bs) == SumFunction([i \in DOMAIN bs |-> BlockMemory(bs[i])])

(* Fault: only the left block is replaced in the total.                    *)
MemoryAfterLeft(bs, n) ==
  Memory(MergeParts(bs, n))
    + (IF accounting = None THEN Memory(bs) ELSE accounting)
    - BlockMemory(bs[n.lb])

(* What the rebuild caches: the total less the old blocks plus the new.    *)
MemoryAfter(bs, n) ==
  Memory(MergeParts(bs, n))
    + (IF accounting = None THEN Memory(bs) ELSE accounting)
    - Memory(SubSeq(bs, n.lb, n.rb))

-----------------------------------------------------------------------------
(* The build.                                                              *)

Building == <<prefix, ranges, routing, key, dir>>

(* The IDs kept under each boundary, whatever block it is in.              *)
PostingOf(bs) ==
  [v \in {item.value : item \in Range(Items(bs))} |->
     UNION {item.bits : item \in {i \in Range(Items(bs)) : i.value = v}}]

PostingFollows == posting' = PostingOf(blocks')

Init ==
  /\ BoundaryInit
  /\ key \in KeyMaps
  /\ blocks = <<>>
  /\ accounting = None /\ routing = None
  /\ prefix = <<>> /\ ranges = <<>>

(* Fault: a late value gets a boundary of its own.                         *)
RoundedToItself(v) == v

(* roundedOrderedBoundary                                                  *)
Rounded(v) ==
  LET at    == BlockAt(blocks, v)
      b     == blocks[at]
      below == Position(b, v) - 1
  IN  IF blocks = <<>> \/ Has(b, v) THEN v
      ELSE IF dir = "lessThan"
           THEN IF below < Len(b.items) THEN b.items[below + 1].value
                ELSE IF at < Len(blocks) THEN First(blocks[at + 1]) ELSE v
      ELSE IF below > 0 THEN b.items[below].value
           ELSE IF at > 1 THEN Final(blocks[at - 1]) ELSE v

(* insertOrdered                                                           *)
Insert(v, id) ==
  /\ ~published
  /\ Cardinality(stored \cup {<<v, id>>}) =< MaxEntries
  /\ blocks' = WithId(blocks, IF quantized THEN Rounded(v) ELSE v, id)
  /\ stored' = stored \cup {<<v, id>>}
  /\ accounting' = None
  /\ PostingFollows
  /\ UNCHANGED <<quantized, published, Building>>

(* Fault: the merge is not recorded.                                       *)
CoarsenUnmarked ==
  /\ ~published
  /\ \E n \in BestMerges(blocks) :
       /\ blocks' = Merged(blocks, n)
       /\ accounting' = MemoryAfter(blocks, n)
  /\ PostingFollows
  /\ UNCHANGED <<stored, quantized, published, Building>>

(* prepareStreamingNext and its apply: one merge of neighbours.            *)
Coarsen ==
  /\ ~published
  /\ \E n \in BestMerges(blocks) :
       /\ blocks' = Merged(blocks, n)
       /\ accounting' = MemoryAfter(blocks, n)
  /\ quantized' = TRUE
  /\ PostingFollows
  /\ UNCHANGED <<stored, published, Building>>

(* The first generation of a Between or CompareBy rule copies its indexes. *)
Clone ==
  /\ ~published /\ ~quantized
  /\ blocks' = Cloned(blocks)
  /\ accounting' = None
  /\ PostingFollows
  /\ UNCHANGED <<stored, quantized, published, Building>>

(* orderedQuantizedBuildAccounting, when the policy reads its usage        *)
Measure ==
  /\ ~published /\ accounting = None
  /\ accounting' = Memory(blocks)
  /\ UNCHANGED <<blocks, posting, stored, quantized, published, Building>>

-----------------------------------------------------------------------------
(* Publication.                                                            *)

(* prepareRouting                                                          *)
Routes ==
  LET count == Len(blocks)
      low   == key[First(blocks[1])]
      span  == key[Final(blocks[count])] - low
      width == (span \div count + 1) % KeyModulus
      used  == Min({span \div width + 1, count})
  IN  IF blocks = <<>> \/ key = None THEN None
      ELSE IF span < 0 \/ width = 0 THEN None
      ELSE IF used < 2 THEN None
      ELSE [min |-> low, width |-> width,
            blocks |-> [slot \in 0..(used - 1) |->
              Min({i \in 1..count : i = count \/ key[Final(blocks[i])] >= low + slot * width})]]

(* Fault: off by one.                                                      *)
PrefixCountsShort ==
  [i \in 1..(Len(blocks) + 1) |->
     SumFunction([j \in 1..(i - 2) |-> Cardinality(blocks[j].bits)])]

(* prepareSearch counts every block once.                                  *)
PrefixCounts ==
  [i \in 1..(Len(blocks) + 1) |->
     SumFunction([j \in 1..(i - 1) |-> Cardinality(blocks[j].bits)])]

(* prepareRangeSearch: whole groups only, and only if there are two.       *)
RangeUnions ==
  IF Len(blocks) < 2 * RangeBlockSize THEN <<>>
  ELSE [g \in 1..(Len(blocks) \div RangeBlockSize) |->
          UNION {blocks[i].bits : i \in ((g - 1) * RangeBlockSize + 1)..(g * RangeBlockSize)}]

(* prepareSearch, and prepareRangeSearch for CompareBy, which also gives   *)
(* up the cached accounting when it builds its aggregates.                 *)
PrepareSearch(compareBy) ==
  /\ ~published
  /\ routing' = Routes
  /\ prefix' = PrefixCounts
  /\ blocks' = [i \in DOMAIN blocks |->
                  IF Len(blocks[i].items) = 1 THEN Rebuilt(blocks[i].items) ELSE blocks[i]]
  /\ ranges' = IF compareBy THEN RangeUnions ELSE <<>>
  /\ accounting' = IF ranges' = <<>> THEN accounting ELSE None
  /\ published' = TRUE
  /\ PostingFollows
  /\ UNCHANGED <<dir, key, quantized, stored>>

Next ==
  \/ \E v \in Values, id \in Ids : Insert(v, id)
  \/ Coarsen
  \/ Clone
  \/ Measure
  \/ \E compareBy \in BOOLEAN : PrepareSearch(compareBy)

Spec == Init /\ [][Next]_vars

-----------------------------------------------------------------------------
(* Searching a published index.                                            *)

(* The block the routing table sends a query to.                           *)
Guess(q) ==
  LET slot == (key[q] - routing.min) \div routing.width
  IN  IF key[q] =< routing.min THEN 1
      ELSE IF slot \in DOMAIN routing.blocks THEN routing.blocks[slot]
      ELSE Len(blocks)

(* Fault: the guess is only corrected back.                                *)
RoutedBlockBack(q) == Max({i \in 1..Guess(q) : i = 1 \/ Final(blocks[i - 1]) < q})

(* routedBlockFor: the guess, corrected back and then forward.             *)
RoutedBlock(q) ==
  LET back == Max({i \in 1..Guess(q) : i = 1 \/ Final(blocks[i - 1]) < q})
  IN  Min({i \in back..Len(blocks) : i = Len(blocks) \/ Final(blocks[i]) >= q})

BlockFor(q) == IF routing = None THEN BlockAt(blocks, q) ELSE RoutedBlock(q)

(* Positions of the boundary block that match: from lo up, or below lo.    *)
Matched(b, q, inclusive) ==
  LET lo == Min({i \in 1..(Len(b.items) + 1) :
                   i > Len(b.items)
                   \/ b.items[i].value > q
                   \/ (b.items[i].value = q /\ inclusive = (dir = "lessThan"))})
  IN  IF dir = "lessThan" THEN lo..Len(b.items) ELSE 1..(lo - 1)

(* walkBlockRange: aggregates for the groups that lie inside first..last.  *)
RangeWalk(first, last) ==
  LET Inside == {g \in DOMAIN ranges :
                   first =< (g - 1) * RangeBlockSize + 1 /\ g * RangeBlockSize =< last}
      Alone  == {i \in first..last : (i - 1) \div RangeBlockSize + 1 \notin Inside}
  IN  (UNION {ranges[g] : g \in Inside}) \cup (UNION {blocks[i].bits : i \in Alone})

(* walk, and matches asked of every ID                                     *)
Walk(q, inclusive) ==
  LET at   == BlockFor(q)
      b    == blocks[at]
      near == Matched(b, q, inclusive)
  IN  IF blocks = <<>> THEN {}
      ELSE (IF near = DOMAIN b.items THEN b.bits ELSE UNION {b.items[i].bits : i \in near})
             \cup (IF dir = "lessThan" THEN RangeWalk(at + 1, Len(blocks))
                   ELSE RangeWalk(1, at - 1))

(* exact, or ceiling once the boundaries are rounded up                    *)
Equal(q) ==
  LET b  == blocks[BlockFor(q)]
      at == Position(b, q)
  IN  IF blocks = <<>> \/ at > Len(b.items) THEN {}
      ELSE IF quantized \/ b.items[at].value = q THEN b.items[at].bits ELSE {}

(* estimateCardinality, with the prefix counts                             *)
Estimate(q, inclusive) ==
  LET at == BlockFor(q)
      b  == blocks[at]
  IN  IF blocks = <<>> THEN 0
      ELSE SumFunction([i \in Matched(b, q, inclusive) |-> Cardinality(b.items[i].bits)])
             + IF dir = "lessThan" THEN Last(prefix) - prefix[at + 1] ELSE prefix[at]

-----------------------------------------------------------------------------
(* Properties.                                                             *)

(* Through insertions, splits, clones and merges the blocks stay a sorted  *)
(* partition of the values with exact unions; a shared union belongs to a  *)
(* block whose only item is the one it is shared with.                     *)
Layout ==
  LET items == Items(blocks)
  IN  /\ \A i \in DOMAIN items : items[i].value \in Values /\ items[i].bits \subseteq Ids
      /\ \A i, j \in DOMAIN items : i < j => items[i].value < items[j].value
      /\ \A b \in Range(blocks) :
           /\ Len(b.items) \in 1..(2 * BlockSize)
           /\ b.bits = Postings(b.items)
           /\ b.alias # NoAlias => Len(b.items) = 1 /\ b.items[1].value = b.alias

(* The usage a rebuild derives from the two blocks it replaced, and keeps, *)
(* is the usage of the whole index (buildAccounting, accountingValid).     *)
AccountingCurrent == accounting # None => accounting = Memory(blocks)

(* Every build step is one of BoundaryIndex's, or changes nothing there:   *)
(* insertOrdered stores under the nearest boundary, whatever splits, and   *)
(* rebuildOrderedBoundaries merges two neighbours outward.                 *)
ImplementsBoundary == BoundarySpec

(* Routing, block unions and range aggregates never change an answer: a    *)
(* published walk or equality lookup returns what the boundaries accept.   *)
SearchesAgree ==
  published =>
    \A q \in Values :
      /\ \A inclusive \in BOOLEAN : Walk(q, inclusive) = Answer(q, inclusive)
      /\ dir = "lessThan" => Equal(q) = EqualityAnswer(q)

(* The planner relies on the estimate as an upper bound (and on zero as    *)
(* "no match"); it is exact when no ID is stored under two values.         *)
EstimateSound ==
  published =>
    \A q \in Values, inclusive \in BOOLEAN :
      LET walked == Cardinality(Walk(q, inclusive))
      IN  /\ walked =< Estimate(q, inclusive)
          /\ (\A e, f \in stored : e[2] = f[2] => e = f) => walked = Estimate(q, inclusive)
=============================================================================
