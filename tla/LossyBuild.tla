------------------------------ MODULE LossyBuild ------------------------------
(***************************************************************************)
(* The one-pass Build of a schema with Lossy policies.                     *)
(*                                                                         *)
(* Every leaf starts with an exact generation.  After each Interval entries *)
(* a checkpoint compares the outermost policies with a soft target of 125% *)
(* of their limit; under pressure leaves are replaced, one generation at a *)
(* time, by coarser ones, and late entries go straight into those.  The    *)
(* end of the input enforces every limit or fails the build.               *)
(*                                                                         *)
(* A schema is a sequence of nodes in post-order: a leaf has a rule, a     *)
(* Lossy policy a limit, and node i has the nodes from..i-1 below it.      *)
(* Groupings without a limit (All) are only order.  Leaves are built from  *)
(* different rule objects.                                                 *)
(***************************************************************************)
EXTENDS Integers, Sequences, FiniteSets, FiniteSetsExt, SequencesExt

CONSTANTS
  Schemas,      \* schemas Build may be given
  Values,       \* constraint values, as ranks in comparator order
  Missing,      \* a constraint without the value: a wildcard
  MaxIds,       \* bound: distinct IDs of the input
  Hash,         \* Hash[v]: hash of a value, as the set of its one bits
  HashBits,     \* width of a hash (64 in the code)
  Terminal,     \* last equality level (17 in the code)
  ArrayLimit,   \* largest compact equality posting (32 in the code)
  Header,       \* bytes of a bitmap beyond its IDs
  KeyBytes,     \* bytes of an exact value
  HashBytes,    \* bytes of a hashed equality key
  Interval,     \* entries between checkpoints (4096 in the code)
  MaxEntries,   \* bound: entries of the input
  None

ASSUME LossyAssumption ==
  /\ Values \subseteq Nat /\ Missing \notin Values /\ IsFiniteSet(Values) /\ MaxIds \in Nat
  /\ Terminal \in Nat \ {0} /\ Interval \in Nat \ {0} /\ MaxEntries \in Nat
  /\ {ArrayLimit, Header, KeyBytes, HashBytes} \subseteq Nat /\ ArrayLimit > 0
  /\ HashBits \in Nat /\ HashBits >= Terminal - 1
  /\ Hash \in [Values -> SUBSET (0..(HashBits - 1))]
  /\ None \notin Nat

(* Subtrees are nested, in post-order.                                     *)
ASSUME SchemaAssumption ==
  \A tree \in Schemas :
    /\ tree \in Seq([from  : Nat \ {0},
                     rule  : {"equality", "lessThan", "greaterThan", None},
                     limit : Nat \cup {None}])
    /\ \A i \in DOMAIN tree :
         tree[i].from =< i /\ \A k \in tree[i].from..i : tree[i].from =< tree[k].from

Ids == 1..MaxIds   \* dense internal IDs

VARIABLES
  schema,
  gen,        \* gen[s]: current generation of leaf s, [level, sets]
  wild,       \* wild[s]: IDs stored without a value
  prepared,   \* prepared[s]: the coarser generation last computed, or None
  stored,     \* the <<leaf, value, ID>> triples inserted
  entries,    \* entries consumed
  streaming,  \* policies have been compiled
  finished,   \* the input has ended
  work,       \* what remains of the current fitting: [node, bound, check]
  pc

vars == <<schema, gen, wild, prepared, stored, entries, streaming, finished, work, pc>>

-----------------------------------------------------------------------------
(* The schema tree.                                                        *)

Nodes == DOMAIN schema
Below(i) == schema[i].from..(i - 1)
Subtree(i) == schema[i].from..i
Policies == {i \in Nodes : schema[i].limit # None}
Leaves == {i \in Nodes : schema[i].rule # None}
LeavesOf(i) == Leaves \cap Subtree(i)

Roots == {i \in Nodes : \A k \in Nodes : i \in Subtree(k) => k = i}

(* The tightest limit among policies of a set that own node i.             *)
Limit(i, policies) ==
  LET owners == {k \in policies : i \in Subtree(k)}
  IN  IF owners = {} THEN None ELSE Min({schema[k].limit : k \in owners})

-----------------------------------------------------------------------------
(* Generations.                                                            *)

IsEquality(s) == schema[s].rule = "equality"

(* A level retains the Terminal - level highest bits (equalityQuantizer).  *)
Masked(level, hash) == {bit \in hash : bit >= HashBits - (Terminal - level)}

(* The key of a value at a level, for storing and for searching.           *)
HashKey(level, v) == IF level = 0 THEN v ELSE Masked(level, Hash[v])

Outward(s, b, v) == IF schema[s].rule = "lessThan" THEN b >= v ELSE b =< v

Nearest(s, g, v) ==
  {b \in DOMAIN g.sets :
     Outward(s, b, v) /\ \A c \in DOMAIN g.sets : Outward(s, c, v) => Outward(s, c, b)}

(* Where a late value goes: its key's class, or the nearest boundary that  *)
(* is outward of it once boundaries have been merged.                      *)
StoreKey(s, v) ==
  IF IsEquality(s) THEN HashKey(gen[s].level, v)
  ELSE IF gen[s].level > 0 /\ Nearest(s, gen[s], v) # {}
       THEN CHOOSE b \in Nearest(s, gen[s], v) : TRUE
       ELSE v

NewSet(s, id) == [ids |-> {id}, compact |-> IsEquality(s)]

(* equalitySet.add and addToSet: a union of postings is a bitmap.          *)
Grown(set, id) ==
  [ids |-> set.ids \cup {id},
   compact |-> set.compact /\ Cardinality(set.ids \cup {id}) =< ArrayLimit]

Stored(s, g, k, id) ==
  [level |-> g.level,
   sets  |-> [c \in DOMAIN g.sets \cup {k} |->
     IF c # k THEN g.sets[c]
     ELSE IF k \in DOMAIN g.sets THEN Grown(g.sets[k], id) ELSE NewSet(s, id)]]

(* Sets that fall together under a coarser key.  The first generation of   *)
(* an equality leaf copies a set that falls alone, later ones make bitmaps. *)
Together(sets, keys) ==
  [ids |-> UNION {sets[k].ids : k \in keys}, compact |-> FALSE]

Rehashed(g) ==
  LET coarser(k) == Masked(g.level + 1, IF g.level = 0 THEN Hash[k] ELSE k)
  IN  [level |-> g.level + 1,
       sets  |-> [h \in {coarser(k) : k \in DOMAIN g.sets} |->
                    LET keys == {k \in DOMAIN g.sets : coarser(k) = h}
                    IN  IF g.level = 0 /\ Cardinality(keys) = 1
                        THEN g.sets[CHOOSE k \in keys : TRUE]
                        ELSE Together(g.sets, keys)]]

Bytes(ids) == Cardinality(ids) + Header

(* bestOrderedMerge: least union, then largest footprint, then position.   *)
Pairs(g) ==
  {p \in (DOMAIN g.sets) \X (DOMAIN g.sets) :
     p[1] < p[2] /\ \A k \in DOMAIN g.sets : ~(p[1] < k /\ k < p[2])}

Union(g, p) == g.sets[p[1]].ids \cup g.sets[p[2]].ids
Footprint(g, p) == Bytes(g.sets[p[1]].ids) + Bytes(g.sets[p[2]].ids)

Better(g, p, q) ==
  \/ Cardinality(Union(g, p)) < Cardinality(Union(g, q))
  \/ /\ Cardinality(Union(g, p)) = Cardinality(Union(g, q))
     /\ \/ Footprint(g, p) > Footprint(g, q)
        \/ Footprint(g, p) = Footprint(g, q) /\ p[1] < q[1]

BestPair(g) == CHOOSE p \in Pairs(g) : \A q \in Pairs(g) \ {p} : Better(g, p, q)

(* Fault: the merged sets keep the inner boundary.                         *)
MergedPairInner(s, g) ==
  LET p     == BestPair(g)
      outer == IF schema[s].rule = "lessThan" THEN p[2] ELSE p[1]
  IN  [level |-> 1,
       sets  |-> [k \in DOMAIN g.sets \ {outer} |->
                    IF k \in {p[1], p[2]} THEN Together(g.sets, {p[1], p[2]})
                    ELSE g.sets[k]]]

(* The outer of the two boundaries keeps both sets.                        *)
MergedPair(s, g) ==
  LET p     == BestPair(g)
      inner == IF schema[s].rule = "lessThan" THEN p[1] ELSE p[2]
  IN  [level |-> 1,
       sets  |-> [k \in DOMAIN g.sets \ {inner} |->
                    IF k \in {p[1], p[2]} THEN Together(g.sets, {p[1], p[2]})
                    ELSE g.sets[k]]]

(* Fault: a leaf at the terminal level starts its levels over.             *)
CoarserStartingOver(s, g) ==
  IF IsEquality(s)
  THEN IF g.level < Terminal THEN Rehashed(g) ELSE [g EXCEPT !.level = 1]
  ELSE IF Cardinality(DOMAIN g.sets) < 2 THEN None ELSE MergedPair(s, g)

(* Fault: an equality leaf may leave the terminal level.                   *)
CoarserPastTerminal(s, g) ==
  IF IsEquality(s)
  THEN IF g.level > Terminal THEN None ELSE Rehashed(g)
  ELSE IF Cardinality(DOMAIN g.sets) < 2 THEN None ELSE MergedPair(s, g)

(* prepareStreamingFirstGeneration and prepareStreamingNext                *)
Coarser(s, g) ==
  IF IsEquality(s)
  THEN IF g.level >= Terminal THEN None ELSE Rehashed(g)
  ELSE IF Cardinality(DOMAIN g.sets) < 2 THEN None ELSE MergedPair(s, g)

(* nextStreamingUsage: computed once, until the next insertion.            *)
Prepared(s) == IF prepared[s] = None THEN Coarser(s, gen[s]) ELSE prepared[s]

-----------------------------------------------------------------------------
(* Accounted memory: streamingEqualityDetails and refreshedStreamingDetails *)
(* less their constant part.                                               *)

SetBytes(set) == IF set.compact THEN 2 * Cardinality(set.ids) ELSE Bytes(set.ids)

PostingBytes(s, g) ==
  LET key == IF IsEquality(s) /\ g.level > 0 THEN HashBytes ELSE KeyBytes
  IN  SumFunction([k \in DOMAIN g.sets |-> SetBytes(g.sets[k]) + key])
        + IF ~IsEquality(s) /\ Cardinality(DOMAIN g.sets) > 1
          THEN Bytes(UNION {g.sets[k].ids : k \in DOMAIN g.sets}) ELSE 0

LeafBytes(s, g) == Bytes(wild[s]) + PostingBytes(s, g)
Usage(i) == SumFunction([s \in LeavesOf(i) |-> LeafBytes(s, gen[s])])

(* Fault: the soft target is below the limit.                              *)
SoftTargetBelow(limit) == limit - limit \div 4

(* lossyBuildTarget                                                        *)
SoftTarget(limit) == limit + limit \div 4

-----------------------------------------------------------------------------
(* What a fitting does, in order: bring a node under a bound, or check     *)
(* that it is.                                                             *)

Fit(i, bound)   == <<[node |-> i, bound |-> bound, check |-> FALSE]>>
Check(i, bound) == <<[node |-> i, bound |-> bound, check |-> TRUE]>>

(* visit[b][a] is the work for the subtrees that nodes a..b consist of,    *)
(* where Turn(b, below) is that for the subtree of b, given the work for   *)
(* the nodes below it.                                                     *)
Walk(first, last, Turn(_, _)) ==
  LET visit[b \in 0..Len(schema)] ==
        [a \in 1..(Len(schema) + 1) |->
           IF b < a THEN <<>>
           ELSE visit[schema[b].from - 1][a] \o Turn(b, visit[b - 1][schema[b].from])]
  IN  visit[last][first]

(* refreshStreamingLossyDetails: each node with a limit is fitted after    *)
(* the nodes below it, and those are refreshed once more afterwards.       *)
Refreshed(i, below, policies) ==
  LET limit == Limit(i, policies)
  IN  IF limit = None THEN below ELSE below \o Fit(i, limit) \o below \o Check(i, limit)

RefreshAll(first, last, policies) ==
  Walk(first, last, LAMBDA i, below : Refreshed(i, below, policies))

(* compileLossyRules: policies bottom-up; fitting one may push a policy    *)
(* below it over its own limit, so these are refreshed.                    *)
Compiled(i, below) ==
  IF i \notin Policies THEN below
  ELSE below \o Fit(i, schema[i].limit)
         \o RefreshAll(schema[i].from, i - 1, Policies \cap Below(i))
         \o Check(i, schema[i].limit)

CompileAll == Walk(1, Len(schema), Compiled)

(* fitStreamingPolicies: descendants first, each to its soft target.       *)
Relieving(i, below) ==
  IF Limit(i, Policies) = None THEN below
  ELSE below \o Fit(i, SoftTarget(Limit(i, Policies)))

RelieveAll == Walk(1, Len(schema), Relieving)

-----------------------------------------------------------------------------
(* The build.                                                              *)

Empty == [level |-> 0, sets |-> [k \in {} |-> {}]]

Init ==
  /\ schema \in Schemas
  /\ gen = [s \in Leaves |-> Empty]
  /\ wild = [s \in Leaves |-> {}]
  /\ prepared = [s \in Leaves |-> None]
  /\ stored = {}
  /\ entries = 0
  /\ streaming = FALSE /\ finished = FALSE
  /\ work = <<>>
  /\ pc = "reading"

(* Fault: the prepared generation survives an insertion.                   *)
InsertKeepingPrepared(value, id) ==
  /\ pc = "reading" /\ entries < MaxEntries
  /\ gen' = [s \in Leaves |->
               IF value[s] = Missing THEN gen[s]
               ELSE Stored(s, gen[s], StoreKey(s, value[s]), id)]
  /\ wild' = [s \in Leaves |-> IF value[s] = Missing THEN wild[s] \cup {id} ELSE wild[s]]
  /\ stored' = stored \cup {<<s, value[s], id>> : s \in Leaves}
  /\ entries' = entries + 1
  /\ pc' = IF entries' % Interval = 0 THEN "checkpoint" ELSE "reading"
  /\ UNCHANGED <<schema, prepared, streaming, finished, work>>

(* An entry has an ID of an earlier entry, or gets the next one.           *)
Assigned == {t[3] : t \in stored}
Assignable == {id \in Ids : id =< Cardinality(Assigned) + 1}

(* One entry of the input: every leaf inserts it into its generation.      *)
Insert(value, id) ==
  /\ pc = "reading" /\ entries < MaxEntries
  /\ gen' = [s \in Leaves |->
               IF value[s] = Missing THEN gen[s]
               ELSE Stored(s, gen[s], StoreKey(s, value[s]), id)]
  /\ wild' = [s \in Leaves |-> IF value[s] = Missing THEN wild[s] \cup {id} ELSE wild[s]]
  /\ prepared' = [s \in Leaves |-> None]
  /\ stored' = stored \cup {<<s, value[s], id>> : s \in Leaves}
  /\ entries' = entries + 1
  /\ pc' = IF entries' % Interval = 0 THEN "checkpoint" ELSE "reading"
  /\ UNCHANGED <<schema, streaming, finished, work>>

(* Fault: only the first policy of the schema is asked.                    *)
PressureOnFirst ==
  \E i \in Policies \cap Roots :
    /\ \A k \in Policies \cap Roots : k >= i
    /\ Usage(i) > SoftTarget(schema[i].limit)

(* lossyBuildPressure and lossyStreamingBuildPressure                      *)
Pressure ==
  \E i \in Policies \cap Roots : Usage(i) > SoftTarget(schema[i].limit)

(* Reading the pressure of compiled policies prepares their leaves.  (The  *)
(* code stops reading at the first policy under pressure.)                 *)
Checkpoint ==
  /\ pc = "checkpoint"
  /\ prepared' = [s \in Leaves |->
                    IF streaming /\ Limit(s, Policies) # None THEN Prepared(s) ELSE prepared[s]]
  /\ work' = IF ~Pressure THEN <<>> ELSE IF streaming THEN RelieveAll ELSE CompileAll
  /\ streaming' = (streaming \/ Pressure)
  /\ pc' = "fitting"
  /\ UNCHANGED <<schema, gen, wild, stored, entries, finished>>

(* Fault: policies compiled during the build are taken to fit.             *)
FinishCompiled ==
  /\ pc = "reading"
  /\ finished' = TRUE
  /\ work' = IF streaming THEN <<>> ELSE CompileAll \o RefreshAll(1, Len(schema), Policies)
  /\ pc' = "fitting"
  /\ UNCHANGED <<schema, gen, wild, prepared, stored, entries, streaming>>

(* The input has ended: the limits themselves are enforced.                *)
Finish ==
  /\ pc = "reading"
  /\ finished' = TRUE
  /\ work' = (IF streaming THEN <<>> ELSE CompileAll) \o RefreshAll(1, Len(schema), Policies)
  /\ pc' = "fitting"
  /\ UNCHANGED <<schema, gen, wild, prepared, stored, entries, streaming>>

-----------------------------------------------------------------------------
(* fitStreamingAggregateTo, one generation at a time.                      *)

(* Fault: a step that releases nothing is not a candidate.                 *)
CandidatesReleasing(i) ==
  {s \in LeavesOf(i) : Prepared(s) # None /\ LeafBytes(s, Prepared(s)) < LeafBytes(s, gen[s])}

Candidates(i) == {s \in LeavesOf(i) : Prepared(s) # None}

Released(s) ==
  LET now == LeafBytes(s, gen[s]) next == LeafBytes(s, Prepared(s))
  IN  IF next < now THEN now - next ELSE 0

(* The smallest release, then the larger leaf, then schema order.          *)
Preferred(s, t) ==
  \/ Released(s) < Released(t)
  \/ /\ Released(s) = Released(t)
     /\ \/ LeafBytes(s, gen[s]) > LeafBytes(t, gen[t])
        \/ LeafBytes(s, gen[s]) = LeafBytes(t, gen[t]) /\ s < t

Selected(i) == {s \in Candidates(i) : \A t \in Candidates(i) \ {s} : Preferred(s, t)}

Over(item) == Usage(item.node) > item.bound

Coarsen ==
  /\ pc = "fitting" /\ work # <<>>
  /\ LET item == Head(work) IN
     /\ ~item.check /\ Over(item)
     /\ \E s \in Selected(item.node) :
          /\ gen' = [gen EXCEPT ![s] = Prepared(s)]
          /\ prepared' = [t \in Leaves |->
               IF t = s THEN None
               ELSE IF t \in LeavesOf(item.node) THEN Prepared(t) ELSE prepared[t]]
  /\ UNCHANGED <<schema, wild, stored, entries, streaming, finished, work, pc>>

(* What fits, or has nothing coarser left to try, is done with.  Finding   *)
(* that out has prepared its leaves.                                       *)
Settled(item) ==
  IF Over(item) THEN ~item.check /\ Candidates(item.node) = {} ELSE TRUE

Unsettled ==
  LET stuck == {n \in DOMAIN work : ~Settled(work[n])}
  IN  IF stuck = {} THEN <<>> ELSE SubSeq(work, Min(stuck), Len(work))

Settle ==
  /\ pc = "fitting" /\ work # <<>> /\ Settled(Head(work))
  /\ work' = Unsettled
  /\ prepared' = [s \in Leaves |->
       IF \E n \in 1..(Len(work) - Len(Unsettled)) :
            ~work[n].check /\ s \in LeavesOf(work[n].node)
       THEN Prepared(s) ELSE prepared[s]]
  /\ UNCHANGED <<schema, gen, wild, stored, entries, streaming, finished, pc>>

(* A limit cannot be met: Build returns an error.                          *)
Fail ==
  /\ pc = "fitting" /\ work # <<>>
  /\ Head(work).check /\ Over(Head(work))
  /\ pc' = "failed"
  /\ UNCHANGED <<schema, gen, wild, prepared, stored, entries, streaming, finished, work>>

Resume ==
  /\ pc = "fitting" /\ work = <<>>
  /\ pc' = IF finished THEN "published" ELSE "reading"
  /\ UNCHANGED <<schema, gen, wild, prepared, stored, entries, streaming, finished, work>>

(* Build has returned.                                                     *)
Done == pc \in {"published", "failed"} /\ UNCHANGED vars

Next ==
  \/ \E value \in [Leaves -> Values \cup {Missing}], id \in Assignable : Insert(value, id)
  \/ Checkpoint \/ Finish
  \/ Coarsen \/ Settle \/ Fail \/ Resume
  \/ Done

Spec == Init /\ [][Next]_vars

-----------------------------------------------------------------------------
(* Properties.                                                             *)

KeysAt(s, level) ==
  IF IsEquality(s) /\ level > 0 THEN SUBSET (0..(HashBits - 1)) ELSE Values
WellFormed(s, g) ==
  /\ g.level \in 0..Terminal
  /\ DOMAIN g.sets \subseteq KeysAt(s, g.level)
  /\ \A k \in DOMAIN g.sets : g.sets[k] \in [ids : SUBSET Ids, compact : BOOLEAN]

TypeOK ==
  /\ schema \in Schemas
  /\ DOMAIN gen = Leaves /\ \A s \in Leaves : WellFormed(s, gen[s])
  /\ DOMAIN prepared = Leaves
  /\ wild \in [Leaves -> SUBSET Ids]
  /\ stored \subseteq Leaves \X (Values \cup {Missing}) \X Ids
  /\ entries \in 0..MaxEntries
  /\ streaming \in BOOLEAN /\ finished \in BOOLEAN
  /\ work \in Seq([node : Nodes, bound : Nat, check : BOOLEAN])
  /\ pc \in {"reading", "checkpoint", "fitting", "published", "failed"}

(* v satisfies query q of leaf s, strictly or inclusively.                 *)
Matches(s, v, q, inclusive) ==
  IF IsEquality(s) THEN v = q ELSE Outward(s, v, q) /\ (v = q => inclusive)

Answer(s, q, inclusive) ==
  LET g    == gen[s]
      keys == IF IsEquality(s) THEN {HashKey(g.level, q)}
              ELSE {b \in DOMAIN g.sets : Matches(s, b, q, inclusive)}
  IN  wild[s] \cup UNION {g.sets[k].ids : k \in keys \cap DOMAIN g.sets}

Required(s, q, inclusive) ==
  {id \in Ids : \/ <<s, Missing, id>> \in stored
                \/ \E v \in Values : <<s, v, id>> \in stored /\ Matches(s, v, q, inclusive)}

(* At every moment of the build each leaf finds every rule stored in it    *)
(* that a query meets, whatever was coarsened and whenever the rule        *)
(* arrived ("never omit an exact match", lossy.go:22-24).                  *)
NoMatchLost ==
  \A s \in Leaves, q \in Values, inclusive \in BOOLEAN :
    Required(s, q, inclusive) \subseteq Answer(s, q, inclusive)

(* A generation that was computed to rank it and is then published holds   *)
(* every entry inserted meanwhile (streamingAdaptiveLeaf.insert).          *)
PreparedCurrent == \A s \in Leaves : prepared[s] # None => prepared[s] = Coarser(s, gen[s])

(* A published index obeys every limit, nested ones included, though       *)
(* fitting an outer policy may make a leaf larger (refreshStreamingLossy-  *)
(* Details, compileStreamingLossyTree).                                    *)
WithinLimits == pc = "published" => \A i \in Policies : Usage(i) =< schema[i].limit

(* The exact generation of the entries a leaf has been given.              *)
ExactPosting(s) ==
  [level |-> 0,
   sets  |-> [v \in {w \in Values : \E id \in Ids : <<s, w, id>> \in stored} |->
                LET ids == {id \in Ids : <<s, v, id>> \in stored}
                IN  [ids |-> ids, compact |-> IsEquality(s) /\ Cardinality(ids) =< ArrayLimit]]]

(* "The exact representation is retained when it fits" (README.md:197):    *)
(* through insertions, checkpoints and the end of the input a leaf that is *)
(* exact stays so, but when it is fitted while a policy that owns it       *)
(* exceeds its limit.                                                      *)
ExactKept ==
  [][\A s \in Leaves : gen[s] = ExactPosting(s) =>
       \/ gen'[s] = ExactPosting(s)'
       \/ /\ pc = "fitting"
          /\ \E k \in Policies : s \in LeavesOf(k) /\ Usage(k) > schema[k].limit]_vars

(* After a checkpoint each outermost policy is back within its soft target *)
(* or has nothing left to coarsen (lossyBuildPressure, fitStreamingPolicies). *)
Relieved ==
  pc = "reading" /\ entries > 0 /\ entries % Interval = 0 =>
    \A i \in Policies \cap Roots :
      Usage(i) =< SoftTarget(schema[i].limit) \/ \A s \in LeavesOf(i) : Coarser(s, gen[s]) = None

(* How many coarser generations a leaf still has.                          *)
Potential(s) ==
  IF IsEquality(s) THEN Terminal - gen[s].level
  ELSE Max({1, Cardinality(DOMAIN gen[s].sets)}) - 1

(* Fitting ends although a step may release nothing or even grow a leaf,   *)
(* and although outer policies have inner ones refreshed: each step makes  *)
(* a leaf coarser for good or finishes an item, and adds none.             *)
FittingShrinks ==
  [][pc = "fitting" /\ pc' = "fitting" =>
       \/ /\ \A s \in Leaves : Potential(s)' =< Potential(s)
          /\ \E s \in Leaves : Potential(s)' < Potential(s)
          /\ work' = work
       \/ UNCHANGED gen /\ Len(work') < Len(work)]_vars

(* A build fails only when a policy has spent what it could coarsen: its   *)
(* leaves without a coarser generation exceed its limit by themselves,     *)
(* whatever outer policies had taken from it before (fitStreamingAggregate). *)
FailsOnlyWhenSpent ==
  pc = "failed" =>
    \E i \in Policies :
      SumFunction([s \in {t \in LeavesOf(i) : Coarser(t, gen[t]) = None} |-> LeafBytes(s, gen[s])])
        > schema[i].limit
==============================================================================
