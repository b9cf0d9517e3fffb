# Verification of ruleix

Ruleix is an in-memory inverse index: it stores constraints under external IDs
and a search returns the IDs whose stored constraint matches a value. This
directory holds TLA+ models of its core, TLC configurations that check them on
small instances, and proofs checked by TLAPS.

## 1. The system

| Part | State it keeps | Operations | What makes it correct |
| --- | --- | --- | --- |
| `Index.Search` over a root `All` (`index_search.go`, `all_planning.go`, `all_execution.go`, `search_materialization.go`) | none between calls; ranked operands, candidates and exclusions during one | rank, group, intersect, filter, validate ID by ID, append, release | the answer is the conjunction of the children minus the exclusions, whatever the cost decisions and whatever other goroutines do |
| `bitmapPool` | scratch bitmaps in a `sync.Pool` shared by all searches of an index; per `Local` also caches and plans | `get`, `put`, `resetLocal` | a bitmap has one owner |
| `Local` (`local_cache.go`, `all_planning.go`) | one result cache per node, the learned child order, four complete results, an epoch | `Search`, `Close` | a retained result is never used once one of its inputs was rewritten |
| per-node cache (`valueBitmapCache`) | 2, later 4 slots, a use order, a ring of values seen once | lookup, admit, replace, grow, reset | at most one bitmap per value, admitted on second use, least recently used is replaced |
| life cycle of `Local` and telemetry (`index_search.go`, `inspect_runtime_metrics.go`) | two pools of contexts, a counter that observes every 64th `Local`, metric buffers | `Index.Local`, `Local.Close` | nothing learned leaks to the next `Local`; every counted event is published once |
| `Builder` (`builder.go`) | dense IDs, hints of the last successful build | `Build` from a one-pass iterator | IDs dense and in order of first appearance; failures publish nothing |
| Lossy policies (`lossy*.go`, `posting_rebuild.go`, `ordered_rebuild.go`) | accounted usage, representation level of each leaf | checkpoints every 4096 entries, transitions to coarser representations, final compilation | limits hold or `Build` fails; no exact match is lost |
| equality, ordered, `Between`, `CompareBy`, exclusion indexes | postings, wildcard postings | insert during build; search, estimate, direct check | each returns the IDs whose constraint the value meets |
| schema tree (`rule.go`, `all.go`, `not.go`) | one state per schema object, a runtime node per leaf | `newState`, `optimize`, removal of exclusions | the compiled tree answers what the entries and the schema call for |
| interning, equality classes, strict antonyms, shared wildcards | shared immutable postings; in a `Local` a pair cache per node of antonym operands | computed once by `Build`; searched and cached afterwards | a replaced subtree returns the same IDs; a hit is the answer to the own query (finding 3: not always) |
| inspection (`inspect.go`) | published snapshots, runtime counters | publish, snapshot | inspection changes no result |

How they interact. `Build` compiles the schema tree to an immutable `Index`.
Any number of goroutines call `Index.Search`; the only mutable thing they share
is the pool of scratch bitmaps. A `Local` belongs to one goroutine, keeps its
own pool and its caches, and returns the whole context to the index on `Close`.
The executor reads children through capabilities: an immutable posting, a
cached bitmap, an estimate, a candidate filter, a direct ID check.

Hard behaviours: ownership of scratch bitmaps over many early exits; bitmaps
that several operands share; cached bitmaps that are overwritten in place while
other structures hold pointers to them; learned plans that are dropped half way;
wrapping counters; growth of a cache while it is in use; and, on the build side,
failures between steps and memory policies that choose among transitions.

## 2. Modules

| Module | Models | Used by |
| --- | --- | --- |
| `RuleIndex` | abstract: what a search promises | `AllSearch`, `LocalAll` (both implement `IndexSpec`) |
| `AllSearch` | `searchAllMatches` for `Index.Search`, the scratch pool | `MCAllSearch`, `MCTwoGroups`, `AllSearchProofs` |
| `LocalCache` | operators of `valueBitmapCache` | `ValueCache`, `LocalAll`, `LocalLifecycle` |
| `LruCache` | abstract: least recently used with admission on second use | `ValueCache`, `NodeSlot` (both implement it) |
| `ValueCache` | one per-node cache driven by searches | `NodeSlot`, `NodeSlotProofs` |
| `NodeSlot` | the equality slot of a node of a `Local`, in which a leaf's value cache and the pair cache of strict antonym operands displace each other | `MCNodeSlot`, `NodeSlotProofs` |
| `LocalAll` | `Local.Search` over a root `All` of equality rules, `Close` | `MCLocalAll`, `LocalAllProofs` |
| `LocalLifecycle` | `Index.Local`, `Local.Search`, `Local.Close`, the two context pools, sampled telemetry, `Inspector.Snapshot` | `MCLocalLifecycle`, `LocalLifecycleProofs` |
| `EqualityTheory` | what an equality leaf answers, when two leaves are complements, what a strict antonym operand answers | `Postings`, `BuildProofs` |
| `Postings` | what a leaf stores of an entry | `SchemaTree`, `Build` |
| `SchemaTree` | the passes of a build over the rule tree, and what the resulting trees answer | `BuildAnswers` |
| `Build` | `Builder.Build`: entries, IDs, failures, publication of snapshots and hints | `BuildAnswers`, `BuildProofs` |
| `BuildAnswers` | what the index of a `Build` answers and which inspectors it reports to: the passes of `SchemaTree` over the postings of `Build` | `MCBuild` |
| `BoundaryIndex` | abstract: an ordered index as boundaries with postings, coarsened during a build | `OrderedIndex` (extends and implements it) |
| `OrderedIndex` | `orderedIndex`: blocks, splits, shared unions, merges, accounting, routing, prefix counts, range aggregates and the walks over them | `MCOrderedIndex`, `OrderedIndexProofs` |
| `LossyBuild` | the one-pass `Build` of a schema with Lossy policies: checkpoints, the selector, generations of equality and ordered leaves, enforcement of limits | `MCLossyBuild`, `LossyBuildProofs` |
| `LocalCacheProofs` | what each operator of `LocalCache` preserves | `NodeSlotProofs`, `LocalLifecycleProofs`, `LocalAllProofs` |
| `AllSearchProofs` | proofs about `AllSearch` | |
| `LocalAllProofs` | proofs about `LocalAll` | |
| `LocalLifecycleProofs` | proofs about `LocalLifecycle` | |
| `OrderedIndexProofs` | proofs about `BoundaryIndex` and `OrderedIndex` | |
| `NodeSlotProofs` | proofs about `ValueCache` and `NodeSlot` | |
| `LossyBuildProofs` | proofs about `LossyBuild` | |
| `BuildProofs` | proofs about `Build`, and the antonym theorem of `EqualityTheory` | |

Definitions whose comment starts with `Fault:` are
deliberately wrong variants of the definition that follows. They stand for the
bug each property is able to detect and are used by no specification.

### State and code

`AllSearch`. `heap[b]` is the content of scratch bitmap `b`, `free[b]` how often
the pool holds it (more than once is what the code could do wrong). Per
goroutine, `slots` is the `rankedChildren` slice of `searchAllMatches` (`bits`,
`card`, `childIdx`, `owned`), `view` the length of the slice the intersection
works on after compaction (both share one backing array in the code), `pos` the
loop index, `cand` the `candidates` bitmap, `out` what was appended to `dst`. One
action is one iteration or phase that another goroutine can observe through the
pool. The pool is external: `Get` may return any pooled bitmap, allocates when
there is none, and `Forget` drops bitmaps at any time (garbage collection, the
64 KiB limit of `put`, a per-P cache that does not see another P's bitmap).

`LocalAll`. `caches[c]` is the `valueBitmapCache` of child `c`; `plan` is
`localAllPlan.order` and `firstCard`; `results` its ring of four. A bitmap is
represented by where it lives: a cache slot (whose content changes when the slot
is replaced), an interned posting, or scratch. The epoch comparison
`result.epoch == pool.cacheEpoch` is the flag `current`, cleared whenever the
code increments the epoch. `ranked` is not reset between a rejected plan and the
ranking that follows, as in the code.

`LocalCache`. `entry`, `seen`, `next`, `pressure`, `misses`, `wide`, `used` and
`clock` are the fields of `valueBitmapCache` with `overflow` and `seen` inlined;
a freed ring equals a fresh one. `misses` is a `uint8`, here modulo `MissModulus`.

`LocalLifecycle`. `context[c]` is a `bitmapPool`: whether it has observers, the
cache of the one node of the schema, and the counters of its inspector entry.
`locals` and `observedLocals` are the two `sync.Pool`s; `Get` may miss what they
hold and `Forget` drops contexts at any time. A worker's Local goes through
`counted` (the atomic ordinal), `open`, `flush` (one atomic `Add` per step, in
the order of `flushInspectorMetrics`), `reset` and `put`. The schema is an
inspected equality rule at the root, so one inspector sees cache events and
result cardinalities. A reader loads the shared counters one by one. The five
histogram bins of nonempty results are one counter, `some`. `sampled` is a
history variable.

`OrderedIndex`. `blocks` is the slice of `orderedBlock`: its items, its union
`bits`, and `alias`, which names the item whose bitmap the block shares (pointer
equality in the code), so that a write through either is seen by both. `prefix`,
`ranges` and `routing` are what publication adds; `accounting` is
`buildAccounting` with `accountingValid`. `stored` is a history variable: the
pairs inserted so far. An action is one call during the build (`Insert`,
`Coarsen`, `Clone`, `Measure`) or the publication (`PrepareSearch`); searches read a published index
and change nothing, so `Walk`, `Equal` and `Estimate` are operators that the
properties apply to every query. Binary searches are the first position that
satisfies their condition, which is what they find on sorted items (`Layout`).
`BoundaryIndex` keeps of this one posting per boundary: its `posting` has no counterpart
in the code and is, after every step, what the blocks hold under each boundary
(`PostingOf`). Its other variables are shared, so its properties are checked on the
real blocks and `ImplementsBoundary` needs no mapping.

`LossyBuild`. A schema is the tree of leaves and policies in post-order; `from` is
the first node of a subtree. `gen[s]` is the current generation of a leaf, its
level and its postings by key: the value at level 0, the masked hash or the
remaining boundary later. `compact` marks equality postings not yet held as a
bitmap, which only matters for their size. `prepared[s]` is `nextApply` of the
adaptive leaf, the generation computed to rank it; `streaming` says that policies
have been compiled. `Insert` is one turn of the loop over the entries, `Checkpoint`
the test that follows every `Interval`th, `Finish` the end of the input. What a
checkpoint or the end then does is a list of items in `work`, each "bring this
node under this bound" or "check that it is": `CompileAll` is
`compileLossyRules`, `RelieveAll` is `fitStreamingPolicies`, `RefreshAll` is
`refreshStreamingLossyDetails`; each is a `Walk` of the tree, and `Compiled`, `Relieving`
and `Refreshed` say what one node adds. `Coarsen` is one turn of
`fitStreamingAggregateTo`, `Settle` moves past items that need none. Settled items
in a row are one step, since nothing is changed and nobody looks on. `stored` is a
history variable.

`NodeSlot`. `holds` says which cache `localNodeCache.equality` points to, `cache` is
the `valueBitmapCache`, `pairs` the `strictEqualityAntonymCache` with its two entries,
two seen pairs and two indices. An entry's bitmap holds the IDs it was filled with:
what both members of the operand that filled it store under their keys (`Concrete`). An
operand is named by its other member, the first being the leaf whose node it uses
(`Self`); `Outputs` says what each member's getter may return. `SearchLeaf` and `SearchOperand` are the two
`search` methods in a `Local`, `PeekOperand` is the lookup while `All` ranks.

`SchemaTree` has an operator for each pass of `buildIndexPhysicalAliases`, in the
order of `Compiled`: canonical states with reuse (`CanonicalState`), `Optimize`,
`Strip`, `Physical`, `Optimize` again, `Exclusions` and `RemoveExclusions` (`RootOf`),
`RemoveInspectors`, classes (`ClassTable`, `Classed`), `Antonyms`. Where the code
relies on one object being reachable from two places, the tree repeats a record with
the same rule and node, and `ClassTable` is keyed by node: the last `All` that writes
class numbers into a leaf decides, as in the code. `Search` and `Answer` say what
the compiled tree returns, including the skipping of operands by class.

`Build`. `state` is what `newState` made of the schema, `content` the postings of its
nodes, `values` the external IDs by internal ID, `log` a history variable with the
accepted entries. One action is one turn of the loop over the entries (`Entry`), the end
of the sequence (`End`), one `Store` of a snapshot (`PublishNext`) or the return
(`Return`), since other goroutines may load a published snapshot between any two. What is
left by a failing call is discarded. `snapshots[i]` and `hints` hold the number of the
build they come from, zero for none. `Build` needs of a schema only what `newState` and
`stripInspectors` make of it: the number of nodes, the leaves `insert` reaches and the
inspectors in the order found. These are constants of the module (`StateOf`,
`InspectorsOf`, `Below`) so that it is free of recursion and can be proved about.

`BuildAnswers` computes those constants with the passes of `SchemaTree` (`SchemaState`,
`SchemaInspectors`, `SchemaBelow`); the configurations of `MCBuild` bind them, and TLC
evaluates what `Build` assumes of them (`LeavesAssumption`, `InspectorsAssumption`) for
every schema. The compiled index is a function of `state.tree` and `content`
(`Compiled`), which do not change after `End`; the invariants evaluate it when
publication starts.

### Abstractions

- Serialized sizes, work units and everything computed from them are choices
  left open, restricted only by what the code requires (a step that needs a
  known cost is possible only when the cost is known). The properties therefore
  hold for every cost model. Only `Local`'s validation order is also left open.
- Range pruning (`bitmapRangesDisjoint`) only proves an intersection empty
  earlier; it is the `left = {}` outcome of the intersection.
- Every leaf `Build` compiles supports direct ID checks, so
  `materializeUnsupportedRemaining` and `materializeRankedAfterFirst` have
  nothing to do; they are not modelled.
- A child is given by its postings (`wild`, `post`) and, when it is not an
  equality rule, by an upper bound it estimates. `BoundAssumption` says that no
  estimator undercounts. Which ID has which posting is a parameter.
- `LocalAll` considers equality children without query-key groups. Scratch
  ownership is the subject of `AllSearch` and is not repeated there.
- `clock` is a `uint64` and unbounded in `ValueCache`'s specification except for
  `MaxClock`, which stops uses when reached and exists for TLC; the theorems
  hold for every `MaxClock`.

- The comparator is the order of integers; the reverse order is covered by the
  two directions. Routing keys are any monotone map from values to words, or none.
  Byte sizes of bitmaps, which decide between equally small merges and make up
  the accounted memory, are a tie left open and cardinality plus one.
- Sizes in `LossyBuild` are small numbers with the shape of the real ones: a
  bitmap costs its IDs and a header, a compact posting more per ID and no header,
  a hash more than the value it replaces, as for 4-byte values. The constant part of
  a leaf and the blocks of an ordered index are left out; `OrderedIndex` has those.
- Leaves of `LossyBuild` are built from rule objects of their own. One object
  used inside and outside a policy shares its state, which is not modelled.
- `Build` leaves lossy policies, streaming and statistics to `LossyBuild`. A fresh
  external ID is any one not yet seen: IDs are only compared.
- Interning numbers the bitmaps of equality leaves only. Bitmaps of ordered leaves take
  numbers too, which keeps the order of the others.
- `Search` computes children completely and in no order; how the executor gets to
  the same answer is `AllSearch` and `LocalAll`. Between and CompareBy answer by
  comparison; the walks over their postings are `OrderedIndex`.
- `Clone` stands for the copies `Between` and `CompareBy` make of all their
  indexes before the first merge of one of them.

## 3. Runs

| Run | Question | Bounds | Result |
| --- | --- | --- | --- |
| `all_search` | Do concurrent searches return exact answers, never share a scratch bitmap, and make progress with every step? | 2 goroutines, 2 queries, 4 IDs, 3 children, 4 indexes: a shared wildcard group with an ordered child, a small group, equality classes with immutable postings, and scanning | holds |
| `two_groups` | The same answers with two shared wildcard groups | 1 goroutine, 1 query, 6 IDs, 4 children | **violated** |
| `node_slot` | Is the value cache of a node LRU, without double retention, and is a hit of the pair cache the answer to the own query when operands on the node have getters of different types? | 5 keys for 4 slots, clock up to 8, ring widens at 3 misses, miss counter modulo 5; 2 operands on the node, 4 IDs, 6 pairs for 2 entries | holds |
| `shared_pairs` | Is it also when the getters have one type? | the same, 4 pairs | **violated** |
| `local_all` | Are retained results fresh and a `Local`'s answers exact, over `Close` and reuse? | 1 `Local`, 4 queries, 3 keys, 3 children, 6 IDs, ring of 2 results, clock up to 3, 6 indexes | holds |
| `local_plan` | The same answers when the learned order crosses the schema order | 1 index | **violated** |
| `local_lifecycle` | Are contexts exclusive, apart and cold, counts conserved and lawful at every atomic `Add`, and snapshots monotonic, over concurrent opens and closes? | 2 workers, 2 contexts, every 2nd of 4 Locals sampled, 3 searches, 2 values, 2 snapshots | holds |
| `ordered_index` | Do blocks, accounting, routing and aggregates stay right, does coarsening lose a rule, whatever arrives late, and does the index implement `BoundaryIndex`? | 5 values, 2 IDs, 5 entries, blocks of at most 2 items, groups of 2 blocks, 4 kinds of routing key | holds |
| `lossy_build` | Does a build under pressure lose a match, exceed a limit, coarsen what fits, fail with coarser forms untried, or not end? | 3 values, 3 IDs, 3 entries, a checkpoint after each, 2 equality levels, 10 schemas with up to two leaves and two policies | holds |
| `build` | Do the plain and the observed tree answer what the entries call for, are IDs dense, inspectors kept, snapshots and hints those of the last success, and does every call return? | 9 schemas of up to 4 rules, 4 external IDs, 3 internal IDs, 4 entries, 2 builds, 3 or 4 constraints per schema | holds |
| `ineffective_exclude` | Does an `Exclude` without values forbid nothing? | the same | **violated** |
| `shared_classes` | Does `Inspect` leave every answer as it is? | the same | **violated** |

Why the bounds are enough. `ScanLimit` and `ArrayLimit` are constants (8 and 32
in the code); at 1 and 1, respectively 2, every comparison with them falls on
both sides with six IDs. Two goroutines suffice for every way a bitmap could be
shared, because ownership is pairwise; the number of bitmaps exceeds what two
searches can hold, so `Get` never runs out. The indexes were chosen so that
every action fires: empty results found while ranking, while materializing,
while filtering and while intersecting; small operands first and later; single
operands; validation by obligation and by choice. Five keys and four slots make
the grown cache evict. Two result slots and four queries make the ring wrap. With
`MaxClock` 3 the caches of `LocalAll` grow, are hit and evict before the bound
stops further searches; `Reopen` starts them over.

With blocks of at most two items five values give four blocks, two groups and walks
that start beside, inside and at the edge of a group; merges within a block,
across two blocks, and such that a block disappears; and one-item blocks, shared
after a rebuild, that take a second item. The keys are one per value, one for
several values, and skewed so that routing slots span several blocks or none. An
index is built once, so these runs stop after publication.

In `LossyBuild` three entries are a compilation, a late entry and what a second
pressure does with it. Limits are such that pressure comes at the first, the second,
the last checkpoint or never; that the equality leaf grows before it shrinks; that
an inner policy is fitted for an outer one; and that some builds fail, one of them although
the exact form of one leaf and the merged form of the other would fit. Two of the
three hashes collide at level 1 and all at the terminal level 2.

In `LocalLifecycle` two workers suffice because exclusivity and the interleaving
of flushes are pairwise; four Locals give two sampled and two plain ones, so each
pool is used, recycled and dropped. Three searches are a miss,
an admission and a hit; the eviction and growth of a cache are `ValueCache`'s. These
runs stop when the bound on Locals is reached, hence `CHECK_DEADLOCK FALSE`.

The nine schemas of `Build` are: complementary wildcards in two ways
(`antonyms`); one rule observed twice beside an exclusion (`aliases`); nested inspectors
around flattened Alls (`nested`); an All used twice (`twice`); Between with CompareBy,
whose operator may be missing (`ranges`); an Inspector used twice (`reused`);
exclusions with and without values (`excludes`, `partial`); and a leaf below two Alls
(`shared`). Four external IDs for three internal ones make the capacity check bite,
for new and for repeated IDs; four entries let an ID take two values and leave one for
the failure. With `BitmapLimit` 1 (32 in the code) a posting of two IDs is a bitmap, so
equal bitmaps, classes and postings without a source all occur. Two builds are one that
succeeds and one that fails or succeeds after it. `Build` stops after `MaxBuilds`
calls, hence `CHECK_DEADLOCK FALSE`.

In `NodeSlot` two operands of two members each share the node, with two values per
getter (one for the third in `node_slot`), so that more pairs than two entries and two seen
places hold compete. The leaf stores two of four IDs and each other member the two that are left,
distributed differently, which makes every two answers different.

The passing `all_search` has at most one shared wildcard group per index and the
passing `local_all` no index in which a cached, non-immutable operand is ranked
in another position than its schema position. These are exactly the conditions
findings 1 and 2 below violate; the restriction is on the data, not on the
executor, which is the same in both runs.

### What the properties say

- `IndexSpec` (refinement): every step of the concurrent executor is a step of
  `RuleIndex` or invisible to it; an answer is the reference answer.
- `AnswersExact`: the same as a state predicate, where a search is about to return.
- `ScratchExclusive`: a scratch bitmap is pooled once, or is one operand or the
  candidate set of one search. It relates the pool to all frames.
- `SearchAdvances`: every step of a search lowers a measure of the work it has left,
  and no step of another goroutine raises it. With the absence of deadlock, a search
  whose goroutine is scheduled returns; it takes no locks and waits for nobody.
- `ImplementsLru`: the slot index of the narrow cache, the clock of the wide one
  and the renumbering between them implement one recency order, and capacity
  grows only when the cache is full.
- `NoDoubleRetention`: no value occupies two slots, nor a slot and the ring.
- `ResultsFresh`: a result that may still be loaded is the intersection of what
  its inputs contain now, whatever the caches have rewritten since.
- `ContextExclusive`, `PoolsApart`, `ColdPools`: a context serves one open Local
  at a time, observed and plain contexts never change places although ordinal and
  `Get` are separate steps, and what waits in a pool has learned nothing and owes
  no counts.
- `Conserved`: each lookup and each answer of a sampled Local is in the shared
  counters or still owed by exactly one Local, in the middle of any flush.
- `CountersLawful`: admissions never exceed misses, nor empty bins empty results,
  at any moment. This depends on the order in which `flushInspectorMetrics` adds.
- `OwnAnswers`: the bitmap an antonym operand finds holds the IDs this operand returns
  for this query, although the slot is shared with a leaf's cache and with other operands and
  its keys are getter outputs only. It has no exception. It holds when no two operands on
  the node have getters of one type (`KeysApart`), which `node_slot` instantiates and the theorem
  assumes, and in particular for a single operand. Otherwise it fails: finding 3.
- `IdsDense`: every leaf, through every way of sharing states, holds every ID, and no
  two internal IDs stand for one external ID.
- `SearchesExact`: the end-to-end promise of a build. It compares the compiled trees
  with the README's rules over the accepted entries, for every query, and states its two
  exceptions, which are findings 4 and 5 below.
- `ObserversKept`: merging, flattening and removing rules keep every inspector attached
  to something that is searched. The exceptions it states are that `removeExclusionRules`
  rebuilds wrappers without their aliases, a disagreement listed below, and drops Excludes
  that stored nothing.
- `SnapshotsFollowHints`: whatever fails and wherever, readers and the next build see the
  last build that succeeded, except that a build that can no longer fail publishes its
  snapshots one by one.
- `InnerNotOlder`: a reader that loads an outer inspector and then an inner one never
  finds the inner one older: inspectors are published from the inside outward.
- `BuildReturns` (liveness): under weak fairness of `End`, `PublishNext` and `Return`.
  The caller's sequence is finite, as `Build` needs it to be, and the goroutine that
  builds is scheduled and waits for nobody. Nobody is obliged to call `Build` or to
  yield another entry.
- `NoFalseNegatives`, `EqualityComplete`, `ExactUntilMerged`: what a
  coarser index still promises, for values that arrive before and after merges.
  `Housed` is the reason; it is the inductive invariant of the proofs and in no run.
- `SearchesAgree`: the accelerated walk and lookup return what a scan of the
  boundaries returns. With `ImplementsBoundary` (refinement) and the theorems about
  `BoundaryIndex` this makes published searches complete.
- `Layout`: sorted, never empty or overfull blocks whose unions are exact,
  although one-item blocks share bitmaps.
- `AccountingCurrent`: the incrementally derived memory is the recomputed one.
- `EstimateSound`: the estimate never undercounts, which is what `BoundAssumption`
  asks of it in `RuleIndex`' executors, and is exact when IDs have one value each.
- `NoMatchLost`: at every moment of a build, after any mixture of insertions and
  coarser generations, each leaf still answers every query with all rules that
  match. It relates all entries so far to the current representation.
- `PreparedCurrent`: a generation kept for later publication is what would be
  computed now; an insertion in between must have discarded it.
- `WithinLimits`: every policy of a published index is within its limit, although
  fitting an outer one may enlarge leaves of an inner one.
- `ExactKept`: a leaf that is exact stays so until it is fitted while a policy that
  owns it exceeds its limit; inserting, checking and refreshing never coarsen it. This
  relates the soft targets and the limits that nested policies hand down to the usage of the
  policy that set them. The stronger reading of `README.md:197`, that leaves whose exact form
  fits at the end of the input are exact, is not promised: 32 IDs of an equality posting are
  128 bytes and the bitmap of 33 is 82, so the exact form may fit at the end although a
  checkpoint found it above 125% of the limit, and a coarsening is not taken back.
- `Relieved`: after a checkpoint every outermost policy is below its soft target,
  or has nothing left to coarsen.
- `FailsOnlyWhenSpent`: when a build fails, the leaves of some policy that have no coarser
  generation left exceed its limit by themselves. It relates the failing check to all that
  the fittings before it did, those of outer policies included, and it needs every step to be
  taken, those that release nothing too. It is weaker than what the documentation says, see below.
- `FittingShrinks`: each step of a fitting makes some leaf coarser and none finer,
  or finishes an item. With the absence of deadlock (checked: the only state to
  stay in is after `Build` returned) fitting ends. A step property replaces liveness
  here because it says more.
- `SnapshotsMonotonic`: a reader's counters never go back, although they are loaded one
  by one while Closes add to them.

## 4. Findings

1. `two_groups` (`all_execution.go:370`). `collectSharedWildcards` compacts the
   ranked slice in place and returns a shorter view. The caller keeps the longer
   slice, in which the second group's leader now appears twice, both marked
   owned; `releaseRanked` puts its bitmap back twice. A later search receives it
   for two operands. Contradicts `docs/index-architecture.md:494`.
2. `local_plan` (`all_planning.go:83`). A learned plan is tried by filling the
   ranked slice in learned order with cached bitmaps. When it is rejected,
   ranking continues on that slice and overwrites `card` and `childIdx` of every
   slot in schema order, but `bits` only where it has new ones. Another child's
   bitmap stays and the child's own constraint is lost. In the trace, a `Local`
   searches `bc`, `bc` and then `ba`: the slot of child 2 still holds the bitmap of
   child 1, and ID 3 is returned, which child 2 rejects.
   Contradicts the same line.
3. `shared_pairs` (`equality_antonym_cache.go:42`). Take `All(X, Y, Inspect(&i, All(X, Z)))`
   where X is the complement of Y and of Z. `Inspect` hides the inner `All` from
   flattening, and when the inspectors are taken out for the plain tree (`inspect.go:383-388`)
   nothing flattens again, so both Alls get an antonym operand. Each uses the node of its first
   member, X (`equality_antonym.go:112`), and so both use one pair cache, which compares getter
   outputs only. If the getters of Y and Z have one type and a query has equal values for them, the pair
   the outer operand misses once is admitted by the inner one, which stores its own answer, and
   the next search of the outer operand returns it: IDs of Z instead of IDs of Y. In the
   trace the inner operand is the one to be answered wrongly. Contradicts the same line; every `Local`
   searches the plain tree unless it is sampled.
4. `ineffective_exclude` (`builder.go:222`). README.md:115 says a missing stored value
   of an `Exclude` forbids nothing. `Exclude` nodes leave the positive tree only when
   some `Exclude` stored a value. If none did, the node stays a child of its `All`, where
   `notRule.search` (`not.go:47`) adds no ID: every search returns nothing. The test
   `TestBuildDropsIneffectiveExcludeFromDetection` builds such an index and does not
   search it.
5. `shared_classes` (`bitmap_intern.go:166`). `inspect.go:168` says `Inspect` does not
   change the compiled search tree or matching semantics. An inspected `All` is not
   flattened, so a leaf may be a child of two Alls of the observed tree, which number
   their classes independently and both write the numbers into the leaf; the outer one
   last. In `All(X, Y, Inspect(&i, All(X, Z, W)))` with `a` stored under Z and W only and
   `b` under X and Y only, X carries a number of the outer All that equals one of the
   inner All, is taken for a duplicate there and skipped. Only a sampled `Local`
   searches that tree: one `Local` in 64 returns an ID the others do not.

A remark: the backward correction of `routedBlockFor` is never needed in the
model. The table's guess is at most the right block, because a route is the first
block that can hold the lower end of its slot.

Disagreements met while modelling that no run shows:

- `docs/lossy-index.md:424` says a build fails only when the sum of the minimum viable
  representations exceeds the limit. The selector (`lossy.go:413`) takes the step that releases
  least, a step that enlarges a leaf counts as zero, and nothing is undone. With an equality and an
  ordered leaf under one policy (`Shared(39)` of `MCLossyBuild`), the equality leaf, which
  is smallest in its exact form, is taken through all levels before the ordered leaf is
  merged; the total then exceeds the limit, exact and merged together would not. What the
  code does keep is `FailsOnlyWhenSpent`.
- `TestBuildCanonicalizationPreservesSeparateInspectSites` asserts that two inspectors of one
  rule report the same result cardinalities (`canonical_all_test.go:169`), and
  `docs/inspect-api.md:130` that each is bound to the representation of its rule. The physical
  tree keeps one wrapper with the second inspector as an alias (`inspect.go:434`). An `Exclude`
  with a stored value anywhere in the schema makes `removeExclusionRules` (`rule.go:220`)
  rebuild the wrapper from its child and its metrics, without the aliases: in
  `All(Inspect(&i1, X), E, Inspect(&i2, X))` `i2` is published but counts no result. This is the
  exception `ObserversKept` states.

And smaller ones: `docs/inspect-api.md:141` says all
methods of a snapshot describe the same counter sample, but `Snapshot` loads counter by
counter and may report, during a Close, more admissions than misses, which the counters
themselves never show (`CountersLawful`); `docs/lossy-index.md:320` and the
architecture document say the selector takes the largest release, the code takes
the smallest; the comment on `lossyBuildPressure` (`lossy.go:128-131`) speaks of the
smallest soft target of nested policies, only the outermost is read; the comment on
`estimateCardinality` (`ordered_index.go:175-178`) calls it exact because postings
of distinct values are disjoint, but an ID with two entries is in two postings, so
only `EstimateSound` holds; `rule.go:78` says cardinality lookups do not change replacement state,
the equality one does; the comment on `Close`
(`index_search.go:69`) says learned child orders stay with the recycled context,
`resetLocal` drops them.

## 5. Proofs

Every theorem is about all values of the constants that satisfy the named assumptions
of the module it extends. Where a theorem needs more than that, its statement says so.

`AllSearchProofs` proves of concurrent searches, for any number of goroutines, queries,
indexes and scratch bitmaps and every cost decision:

- `SearchTypeCorrect`: `Spec => []TypeOK`
- `ScratchExclusiveHolds`: `OneSharedWildcard => (Spec => []ScratchExclusive)`
- `AnswersExactHolds`: `OneSharedWildcard => (Spec => []AnswersExact)`
- `SearchReadsSnapshot`: `OneSharedWildcard => (Spec => IndexSpec)`
- `SearchAdvancesHolds`: `Spec => SearchAdvances`

The argument has three layers. `Sane` says what each phase relies on in its own frame:
which part of `slots` the loop works on, which entries have bitmaps, what has been
appended. `Exclusive` adds ownership: the pool holds a bitmap at most once and never one
that some frame still uses, and a frame's bitmaps are told apart by its entries.
`Contents` then says what the bitmaps contain: at loop position `p` the candidates are
what the first `p - 1` operands have in common, and all operands together have in common
what the children do. Each layer uses the one before. The hypothesis
`OneSharedWildcard` says that children which share a wildcard posting all share the
same one. The indexes of `all_search` satisfy it; the index of `two_groups` does not,
and refutes the three statements without it. Types and progress need no hypothesis.
`SearchAdvances` says that work decreases; that a search returns follows from it and the
absence of deadlock, and is argued, not proved.

`LocalAllProofs` proves of searches through one `Local`, with any history:

- `ResultsFreshHolds`: `Spec => []ResultsFresh`
- `LocalAnswersExactHolds`: `PlacesKept => (Spec => []AnswersExact)`
- `LocalReadsSnapshot`: `PlacesKept => (Spec => IndexSpec)`

The invariant (`IInv`) says what the caches hold (`CachesOK`), that a learned order is a
sorted order of some query (`PlanOK`), that a result which may still be loaded has inputs
nobody rewrote (`RingOK`), and what the running search holds (`Frame`). The key to it is
that no bitmap a running search holds is rewritten before the search ends, although
searching a child may evict a slot: each child is searched at most once, and an operand
that was found in a cache is not searched. So what an operand accepts depends on the
index and the query alone (`Means`), and the loop is about the meet of those (`Meet`,
`Exact`). Freshness holds for every index. Exactness needs `PlacesKept`: a child's
postings are one immutable bitmap for every query, or the child has its schema position
as its rank for every query. A plan that is dropped half-way then leaves a cached
bitmap only in the slot its child gets anyway. All indexes of `local_all` satisfy it, the
one of `local_plan` does not and refutes exactness.

`NodeSlotProofs` proves of a single value cache, for every set of keys:

- `TypeCorrect`: `Spec => []TypeOK`
- `NoDoubleRetentionHolds`: `Spec => []NoDoubleRetention`
- `LeastRecentlyUsed`: `Spec => ImplementsLru`

and of the equality slot of a node, for all keys, operands and postings,
`SlotTypeCorrect`, `OwnAnswersHold` (from `KeysApart`, without which `shared_pairs` refutes it),
`SlotImplementsValueCache`, and the refinements `SlotLeastRecentlyUsed` and
`PairLeastRecentlyUsed`. The last one says that the two-entry cache evicts the pair used
longest ago, with uses by planning counted; it is proved only, in no run.
`NoDoubleRetention` is not inductive alone: a narrow cache must have nothing in
slots 3 and 4, and a narrow ring nothing in places 3 and 4 and its index below 3,
or growth would expose an old value. The inductive invariant adds these facts to
the types. `LocalCacheProofs` has one lemma per operator (`TouchedInv`, `RememberedInv`, `ForgottenInv`,
`PressedInv`, `StoredInv`, `ReplacedInv`, `SearchedInv`) that says what the
operator does to the invariant and to the two key sets; `InvInductive` splits on the actions and
`AlwaysIInv` combines the facts by temporal logic.
For the recency order the slot index of a narrow cache and the use clock of a wide one
are two ways to write one order (`OrderFromSlots`); `YoungestSlot` and `FullCache` give the
two ends of it, `TouchedNewest`, `StoredNewest` and `PressedView` say what a hit, an
admission and the growth do to it, and `HitUses`, `RememberMisses` and `AdmitRetains` turn each into
the step of `LruCache`. In the slot, `SlotInv` adds that each entry holds what some
operand on the node answered to a query with the entry's keys, and `PairOrder` that no pair is both cached and
seen. `SlotImplementsValueCache` carries the theorems about a value cache over to
one that is displaced and comes back.

`LocalLifecycleProofs` proves, for any number of workers, contexts and values and
every sampling rate, `TypeCorrect`, `ContextExclusiveHolds`, `PoolsApartHolds`,
`ColdPoolsHolds`, `ConservedHolds`, `CountersLawfulHolds` and `SnapshotsMonotonicHolds`.
The first four are proved together: exclusivity is what
keeps a worker's writes away from pooled and foreign contexts (`OwnContext`). The
invariant adds that a holder knows a context, that a context is empty at the
moment it is put back (`Handles`), and the cache invariant for each context
(`Caches`). One lemma per action shows that the action keeps the invariant. Conservation
is about sums over all workers; `Books` states it with what each worker still owes and
that a part is never added before its total, and the sum lemmas say what
changing one summand does to a sum over a finite set.

`LossyBuildProofs` proves, for every schema of leaves and policies, every input and all hash
widths, levels, limits and checkpoint intervals, all properties of the run `lossy_build`:
`LossyTypeCorrect`, `PreparedCurrentHolds`, `NoMatchLostHolds`, `WithinLimitsHolds`,
`RelievedHolds`, `FittingShrinksHolds`, `ExactKeptHolds` and `FailsOnlyWhenSpentHolds`. The
first inductive invariant adds to the types that everything inserted is still found under its
own key at the current level (`Kept`) and that no item of the work asks less than the limit of a policy owning its
node (`Owed`). `Kept` survives coarsening because masking a hash commutes with masking it
further and rounding a boundary with rounding it again, and an insertion at any level because
the same key is computed from the value. `Owed`, with the nesting of subtrees and the
monotony of finite sums, gives `ExactKept`.

Limits need to know what the work still holds. A policy is `Due` when the work left still
brings it under its bound and afterwards fits only nodes apart from it (`Awaits`), or when it
is there already and all that is left is apart from it (`Spares`). Coarsening cannot disturb
a policy that is spared; settling the item that was awaited makes it so; a check that passes
is what `WithinLimits` needs, a fitting that has nothing left to take what `Relieved`
allows. That the lists of `CompileAll`, `RefreshAll` and `RelieveAll` make every policy due
(`RefreshAwaits`, `SoftAwaits`) is shown for each node from the nodes before it
(`StrongInduction`), with `TourStep` as the one unfolding of the walk. As in
the code, the work on a policy ends with a check, or at a checkpoint with its fitting, so
the last item that concerns it decides. `FittingShrinks` rests on `CoarserIsLess`: a coarser generation has a
higher level or one boundary fewer, while `Settle` finishes at least one item.

`FailsOnlyWhenSpent` is about the checks between the fittings. Fitting a node may stop within
its bound with leaves left to coarsen, and refreshing the nodes below may then enlarge leaves;
the check that follows must not fail for that. All work of a compilation and of a refresh is
framed (`Closed`): each check follows the fitting of its node to the same bound, with work for
nodes below in between. The invariant (`FateInv`) says of a check that comes next (`Open`) that its
node fits or is spent; or that a check before it will fail because its node is spent (`Doomed`); or that
the node below that is being fitted is all it exceeds its bound by, so that once that one fits, so
does the node. When a check fails only the second is left, and the leaves of its node
are part of what the policy that set the bound cannot coarsen (`SpentWithin`).

`OrderedIndexProofs` proves, for every set of values, every finite set of IDs, every
block size and every order of steps, all properties of the run `ordered_index`. About
the abstract index, `BoundaryTypeCorrect`, `HousedHolds`, `TracedHolds`,
`NoFalseNegativesHolds`, `EqualityCompleteHolds`, `ExactUntilMergedHolds` and
`AnswersGrowHolds`. Completeness alone is not inductive: a merge must know that no
boundary lies between the two, and an insertion that a new boundary takes no
value away from an old one. Both follow from `Housed` (each stored value is under
the nearest boundary outward of it); exactness also needs that nothing else is
kept (`Faithful`). `Traced` is the converse of `Housed`: an ID is under a boundary only
for a value whose nearest boundary this is.

About the blocks, `ImplementsBoundaryHolds`, `LayoutHolds`, `AccountingCurrentHolds`,
`SearchesAgreeHolds` and `EstimateSoundHolds`; by the first, what is proved of the
abstract index holds of the blocks (`IndexAnswersHold`, `IndexAnswersGrow`). The
inductive invariant `IndexInv` adds to that of the abstract index that the blocks are in
order with exact unions (`Good`), and that `posting` is what they keep. The argument
works with the set of items kept, `Kept(blocks)`, in which a value occurs once: an
insertion replaces one item by a larger one or adds one (`With`, proved through
splitting, detaching and sharing in `WithIdEffect` and `WithPostingEffect`), a clone
keeps the set (`ClonedEffect`), a merge replaces two adjacent items by one
(`MergedEffect`), and each change of the set is a step of `BoundaryIndex`
(`InsertStores`, `MergeStep`). `RoundedNearest` says that the rounding, which looks into two blocks, finds
the nearest boundary of all. The accounting follows because sums over sequences add up
under concatenation (`MemoryJoined`, `MemoryMerged`).

A search relies on what publication prepared and nothing has changed since (`Prepared`).
`RoutedIs` shows that the two corrections lead from any guess to the block a search
without routing finds, so the keys of the value type do not matter, not even
whether they are in order; `RangeWalkIs` that aligned groups and
the blocks left over are all blocks of a range; `CoveredBlocks` that on one side of the
block every value satisfies the query and on the other none. The estimate adds up parts
of a union, so it is an upper bound (`UnionCounted`), and exact when the parts are
disjoint, which `Traced` gives when no ID was stored under two values.

`BuildProofs` proves every safety property of `Build` itself, for every set of schemas,
entries and builds: `BuildTypeCorrect`, `IdsDenseHolds`, `SnapshotsFollowHintsHolds`,
`InnerNotOlderHolds`, and `PostingsFollowEntriesHolds`, which no run checks: a side of a
leaf holds exactly the pairs the accepted entries call for. The assumptions are those of
`Build`: every leaf has a node of its own and an Exclude is not a leaf of the positive
tree (`LeavesAssumption`), and `stripInspectors` finds every inspector, inner ones first
(`InspectorsAssumption`). They are facts about recursive passes over a schema, which TLC
evaluates for the nine schemas of `MCBuild` and no proof establishes for all.

`IdsDense` and `InnerNotOlder` are not inductive. The invariant `BuildInv` adds what
relates the postings, the IDs and the entries (`PostingsFollowEntries`, `Numbered`,
`Placed`): a new ID goes behind the others (`ValuesGrow`), so the internal IDs of earlier
entries stay, and `Insert` adds one pair to every leaf, the leaf of a node being unique.
It also says that what is not published yet is the rest of what `stripInspectors` found
(`Published`). `End` refused an inspector found twice, so `PublishNext` removes exactly
the one it publishes (`RestOf`), and when an outer inspector is published every one below
it already is.

The module also proves `AntonymExact` about `EqualityTheory`: whatever the leaves hold,
if the first members of two groups pass `strictWildcardComplements` and the members of
each group share their wildcard, the operand that reads no wildcard answers what all its
members answer together. The code compares three cardinalities; the heart of the proof
(`PairsCountIds`, `ComplementsMean`) is that they force every ID to occur exactly once in
each of the two leaves, so that the wildcards are complements. The theorem is about all
leaves `Leaves` allows, every ID at least once in finitely many pairs, and
`LeavesCompleteHolds` proves that every leaf of every `Build` is one.

Induction, where a proof needs it, is on the least counterexample in a set of numbers
(`LeastNatural`), since the induction theorems of the library cannot be instantiated.

Only model-checked: `SearchesExact` and `ObserversKept`, which are about the passes of
`SchemaTree`. The passes recurse over the tree, and what they compute for every tree
cannot be proved; the one step that needs an argument about all contents, strict antonyms,
is `AntonymExact`. Liveness (`BuildReturns`) is out of the prover's reach.

## 6. Not modelled, and what would come next

1. The executor of a nested `All` (`searchRanked`, `deduplicateEqualityResults`) and of
   ordered children in a `Local`. Its answers are in `SchemaTree`, the steps are not.
2. A proof, for all schemas, of what `Build` assumes of `newState` and
   `stripInspectors`: an induction over the schema, which TLC replaces by nine schemas.
3. One rule object used inside and outside a Lossy policy, as in
   `All(X, Lossy(All(X, ...)))`: `allRule.newState` (`all.go:81`) gives both places one
   state, and the first coarse generation (`ordered_streaming.go:51-62`) copies the
   block headers only, so unmerged items, their posting bitmaps and the item arrays of
   untouched blocks belong to two live leaves. Reading the code, a later entry rounded
   to an unmerged boundary also lands in the exact leaf's posting, and, once there are
   several blocks, an insertion into an array both share (`ordered_index.go:377`) moves
   the items under the other leaf's shorter slice. No test has such a schema and no run
   checks it: `LossyBuild` gives the policy leaves of its own.
4. The caches of `Between` and `CompareBy`, which repeat the algorithm of
   `valueBitmapCache` for pairs of bounds and compared values (`between.go:206`); the coarse generations
   of `Between`.
5. Which estimates planning may take (`quantized_equality.go:91`): the models let planning
   use a cache, as the code does, and show that this keeps the caches in order.
6. Several inspected nodes in one telemetry context, and `Snapshot` across two builds.

Out of reach or left out: bit layouts of keys and roaring containers (external
library), performance of the cost model, the text of inspection reports, the
examples.
