------------------------------ MODULE LocalAll -------------------------------
(***************************************************************************)
(* Local.Search over a root All of equality rules.                         *)
(*                                                                         *)
(* A Local belongs to one goroutine.  Between searches it keeps a result   *)
(* cache per child (LocalCache), the child order it learned, and a ring of *)
(* complete All results.  Cached bitmaps are rewritten in place, so the    *)
(* ring trusts a pointer only within one cache epoch.  The executor is the *)
(* one of AllSearch without what the code disables for a Local: shared     *)
(* wildcard groups, candidate filters and range pruning.                   *)
(***************************************************************************)
EXTENDS RuleIndex, LocalCache, Sequences, FiniteSets

CONSTANTS
  Holder,        \* the goroutine the Local belongs to
  Key,           \* Key[q][c]: what child c's getter returns for q
  ScanLimit,     \* allCandidateScanLimit (8 in the code)
  ArrayLimit,    \* equalityArrayLimit (32)
  ResultSlots,   \* complete results kept (4)
  MaxClock       \* bound on the caches' use clocks, for model checking

ASSUME HolderAssumption == Goroutines = {Holder}
ASSUME KeysOfQueries    == Key \in [Queries -> [Children -> Keys]]
ASSUME FiniteAssumption == IsFiniteSet(Ids)
ASSUME SlotAssumption   == ResultSlots \in Nat \ {0}
ASSUME PostingAssumption ==
  \A i \in Indexes : i.equality = Children /\
    \A p, q \in Queries, c \in Children :
      Key[p][c] = Key[q][c] => i.post[p][c] = i.post[q][c]

VARIABLES
  caches,     \* caches[c]: child c's valueBitmapCache
  plan,       \* localAllPlan: learned order and first cardinality, or NoPlan
  results,    \* localAllPlan.results, NoResult where unset
  nextResult, \* the slot storeLocalResult writes next
  pc,         \* where the search is
  ranked,     \* the ranked slice
  pos,        \* loop index, or where the remaining operands start
  cand,       \* contents of the `candidates` bitmap
  out         \* the IDs appended

localVars == <<caches, plan, results, nextResult>>
frameVars == <<pc, ranked, pos, cand, out>>
vars      == <<indexVars, localVars, frameVars>>

Asked   == asking[Holder]
Unknown == 2 * Cardinality(Ids) + 1       \* ^uint64(0): no estimate

(* A *roaring.Bitmap: the bitmap in slot i of child c's cache, an interned *)
(* posting (one pointer per content), or scratch this search owns.         *)
NoBits        == <<>>
CacheBits(c, i) == <<c, i>>
Interned(ids) == <<0, ids>>
Scratch(ids)  == <<Width + 1, ids>>
IsScratch(b)  == b # NoBits /\ b[1] = Width + 1

(* What child c answers for the value k (replace and addMatches fill a     *)
(* slot with it at once).                                                  *)
ByKey(c, k) == Matches(c, CHOOSE q \in Queries : Key[q][c] = k)
Content(b) ==
  IF b[1] \in Children THEN ByKey(b[1], caches[b[1]].entry[b[2]]) ELSE b[2]

NoPlan   == [order |-> <<>>, firstCard |-> 0]
NoResult == [inputs |-> <<>>, keys |-> <<>>, ids |-> {}, current |-> FALSE]
Blank    == [c \in Children |-> [bits |-> NoBits, card |-> 0, child |-> c]]

-----------------------------------------------------------------------------
(* eqRule: planning bitmaps, counts, membership and the cached search.     *)

PlanningFound(c) ==
  /\ ix.wild[c] = {}
  /\ ix.post[Asked][c] = {} \/ Cardinality(ix.post[Asked][c]) > ArrayLimit
Count(c) == Cardinality(ix.wild[c]) + Cardinality(ix.post[Asked][c])

IsCached(c) == Key[Asked][c] \in CachedKeys(caches[c])
SlotOf(c)   == SlotWith(caches[c], Key[Asked][c])

(* The searches that rewrite a cached bitmap                               *)
Replaces(cache, k) == k \notin CachedKeys(cache) /\ k \in SeenKeys(cache)

(* Fault: replace keeps the cache epoch.                                   *)
InvalidatedNone(ring) == ring
(* invalidateResultCache: no result of an older epoch is used again.       *)
Invalidated(ring) == [i \in DOMAIN ring |-> [ring[i] EXCEPT !.current = FALSE]]

SearchChild(c) ==
  /\ caches' = [caches EXCEPT ![c] = Searched(@, Key[Asked][c])]
  /\ results' = IF Replaces(caches[c], Key[Asked][c]) THEN Invalidated(results) ELSE results

(* Contains on a bitmap, matchesID without one                             *)
Accepts(e, id) ==
  id \in IF e.bits = NoBits THEN Matches(e.child, Asked) ELSE Content(e.bits)

(* Interned wildcard and concrete postings give equal results.             *)
SameClass(c, d) ==
  /\ c # d /\ ix.wild[c] = ix.wild[d] /\ ix.post[Asked][c] = ix.post[Asked][d]
  /\ ix.post[Asked][c] = {} \/ Cardinality(ix.post[Asked][c]) > ArrayLimit

HasExclusions == \E q \in Queries : ix.excluded[q] # {}

Swap(s, i, j) == [s EXCEPT ![i] = s[j], ![j] = s[i]]
Goto(label)   == pc' = label
RankOf(s, c)  == CHOOSE i \in DOMAIN s : s[i].child = c

(* deduplicateEqualityClasses keeps the first operand of every class; it   *)
(* is skipped once the first operand is cached.                            *)
Kept(s) ==
  IF s[1].bits # NoBits THEN DOMAIN s
  ELSE {i \in DOMAIN s : \A j \in DOMAIN s : SameClass(s[j].child, s[i].child) => i < j}
InOrder(S) ==
  {f \in [1..Cardinality(S) -> S] : \A i, j \in DOMAIN f : i < j => f[i] < f[j]}
Deduplicated(s) == {[r \in DOMAIN f |-> s[f[r]]] : f \in InOrder(Kept(s))}

Finish(ids) ==
  /\ out' = ids
  /\ Goto("return")
  /\ ranked' = <<>> /\ pos' = 0 /\ cand' = {}

-----------------------------------------------------------------------------
Init ==
  /\ IndexInit
  /\ caches = [c \in Children |-> EmptyCache]
  /\ plan = NoPlan
  /\ results = [i \in 1..ResultSlots |-> NoResult] /\ nextResult = 1
  /\ pc = "idle" /\ ranked = <<>> /\ pos = 0 /\ cand = {} /\ out = {}

Begin(q) ==
  /\ pc = "idle" /\ \A c \in Children : caches[c].clock < MaxClock
  /\ Ask(Holder, q)
  /\ Goto("query")
  /\ UNCHANGED <<localVars, ranked, pos, cand, out>>

(* loadLocalQueryResult: the same getter outputs were answered before.     *)
KeyHit(i) == results[i].current /\ results[i].keys = Key[Asked]
NoKeyHit  == HasExclusions \/ \A i \in DOMAIN results : ~KeyHit(i)
QueryHit ==
  /\ pc = "query" /\ ~HasExclusions
  /\ \E i \in DOMAIN results :
       KeyHit(i) /\ (\A j \in 1..(i - 1) : ~KeyHit(j)) /\ Finish(results[i].ids)
  /\ UNCHANGED <<indexVars, localVars>>

-----------------------------------------------------------------------------
(* reuseLocalPlan fills the ranked slice in the learned order with the     *)
(* bitmaps planning or the caches can offer.                               *)

Offered(c) ==
  LET bits == IF PlanningFound(c) THEN Interned(ix.post[Asked][c])
              ELSE IF IsCached(c) THEN CacheBits(c, SlotOf(c)) ELSE NoBits
  IN  [bits |-> bits, child |-> c,
       card |-> IF bits = NoBits THEN Unknown ELSE Cardinality(Content(bits))]
Filled    == [r \in DOMAIN plan.order |-> Offered(plan.order[r])]
FirstCard == IF Filled[1].card = Unknown THEN Count(plan.order[1]) ELSE Filled[1].card

(* The lookups stop at the first child known to be empty.                  *)
Reached(r) == \A p \in 1..(r - 1) : Filled[p].card # 0
LookedUp ==
  [c \in Children |->
     IF Reached(RankOf(Filled, c)) /\ ~PlanningFound(c) /\ IsCached(c)
     THEN Touched(caches[c], SlotOf(c)) ELSE caches[c]]

CardinalityChanged(previous, current) ==
  \/ (previous <= ScanLimit) # (current <= ScanLimit)
  \/ current > previous * 2 \/ previous > current * 2
MoreSelective ==
  \E r \in 2..Len(Filled) : Filled[r].card # Unknown /\ Filled[r].card <= FirstCard \div 2
Outdated == CardinalityChanged(plan.firstCard, FirstCard) \/ MoreSelective

Reuse ==
  /\ pc = "query" /\ NoKeyHit /\ plan # NoPlan
  /\ caches' = LookedUp
  /\ UNCHANGED <<indexVars, plan, results, nextResult>>
FoundEmpty == FirstCard = 0 \/ \E r \in DOMAIN Filled : Filled[r].card = 0

ReuseEmpty == Reuse /\ FoundEmpty /\ Finish({})
ReusePlan ==
  /\ Reuse /\ ~FoundEmpty /\ ~Outdated
  /\ ranked' \in Deduplicated([Filled EXCEPT ![1].card = FirstCard])
  /\ Goto("load")
  /\ UNCHANGED <<pos, cand, out>>
(* The ranking starts over on the slice as it is now.                      *)
DropPlan ==
  /\ Reuse /\ ~FoundEmpty /\ Outdated
  /\ ranked' = Filled
  /\ Goto("rank")
  /\ UNCHANGED <<pos, cand, out>>

(* rankChildren without a usable plan: equality counts, stable sort,       *)
(* rememberLocalPlan.  Bits are assigned only where planning finds some.   *)
Ranking == pc = "rank" \/ (pc = "query" /\ NoKeyHit /\ plan = NoPlan)
RankEmpty ==
  /\ Ranking /\ \E c \in Children : Count(c) = 0
  /\ Finish({})
  /\ UNCHANGED <<indexVars, localVars>>
Before(c, d) == Count(c) < Count(d) \/ (Count(c) = Count(d) /\ c < d)
Rank ==
  LET slice == IF pc = "rank" THEN ranked ELSE Blank
      entry(c) == [bits  |-> IF PlanningFound(c) THEN Interned(ix.post[Asked][c])
                             ELSE slice[c].bits,
                   card  |-> Count(c),
                   child |-> c]
  IN
  /\ Ranking /\ \A c \in Children : Count(c) # 0
  /\ \E order \in [1..Width -> Children] :
       /\ \A i, j \in 1..Width : i < j => Before(order[i], order[j])
       /\ plan' = [order |-> order, firstCard |-> Count(order[1])]
       /\ ranked' \in Deduplicated([r \in 1..Width |-> entry(order[r])])
  /\ Goto("load")
  /\ UNCHANGED <<indexVars, caches, results, nextResult, pos, cand, out>>

-----------------------------------------------------------------------------
(* Fault: pointers are compared across epochs.                             *)
InputHitAnyEpoch(i) ==
  /\ results[i].inputs = [r \in DOMAIN ranked |-> ranked[r].bits]
  /\ \A r \in DOMAIN ranked : ranked[r].bits # NoBits
(* loadLocalResult: the same input bitmaps, in one epoch                   *)
InputHit(i) ==
  /\ results[i].current
  /\ results[i].inputs = [r \in DOMAIN ranked |-> ranked[r].bits]
  /\ \A r \in DOMAIN ranked : ranked[r].bits # NoBits
Broad == ranked[1].card > ScanLimit

LoadResult ==
  /\ pc = "load" /\ Broad
  /\ \E i \in DOMAIN results : InputHit(i) /\ (\A j \in 1..(i - 1) : ~InputHit(j))
       /\ Finish(results[i].ids \ ix.excluded[Asked])
  /\ UNCHANGED <<indexVars, localVars>>

StartIntersection ==
  /\ pc = "load" /\ Broad /\ \A i \in DOMAIN results : ~InputHit(i)
  /\ Goto("intersect") /\ pos' = 1 /\ cand' = {}
  /\ UNCHANGED <<indexVars, localVars, ranked, out>>

(* A small first child is scanned, the others are checked ID by ID.        *)
Scan(first) ==
  {id \in first : \A i \in 2..Len(ranked) : Accepts(ranked[i], id)} \ ix.excluded[Asked]
ScanFirst ==
  /\ pc = "load" /\ ~Broad
  /\ \/ /\ ranked[1].bits = NoBits
        /\ SearchChild(ranked[1].child)
        /\ Finish(Scan(Matches(ranked[1].child, Asked)))
     \/ /\ ranked[1].bits # NoBits
        /\ Finish(Scan(Content(ranked[1].bits)))
        /\ UNCHANGED <<caches, results>>
  /\ UNCHANGED <<indexVars, plan, nextResult>>

-----------------------------------------------------------------------------
(* intersectRankedInOrderObserved                                          *)

Known(e) == e.bits # NoBits \/ e.card # Unknown

(* The cheapest operand of known cost comes next.                          *)
Choices ==
  LET known == {j \in pos..Len(ranked) : Known(ranked[j])}
  IN  IF pos = 1 \/ known = {} THEN {pos} ELSE known
(* What operand e reads                                                    *)
Found(e) == IF e.bits = NoBits THEN Matches(e.child, Asked) ELSE Content(e.bits)
Materialized(e) ==
  IF e.bits # NoBits THEN e
  ELSE [e EXCEPT !.bits = Scratch(Found(e)), !.card = Cardinality(Found(e))]
Placed(j) == Swap([ranked EXCEPT ![j] = Materialized(ranked[j])], pos, j)
Left(j)   == Found(ranked[j]) \cap
             (IF pos = 2 THEN cand \cup Content(ranked[1].bits) ELSE cand)

Operand(j) ==
  /\ pc = "intersect" /\ pos <= Len(ranked) /\ j \in Choices
  /\ \/ ranked[j].bits = NoBits /\ SearchChild(ranked[j].child)
     \/ ranked[j].bits # NoBits /\ UNCHANGED <<caches, results>>
  /\ UNCHANGED <<indexVars, plan, nextResult>>
Small(j) == Materialized(ranked[j]).card <= ScanLimit

(* (No operand is empty by itself: an equality child without matches is    *)
(* found while ranking.)                                                   *)
EmptyIntersection(j) ==
  /\ Operand(j) /\ ~Small(j) /\ pos > 1 /\ Left(j) = {}
  /\ Finish({})
SmallOperand(j) ==
  /\ Operand(j) /\ Small(j)
  /\ ranked' = Swap(Placed(j), 1, pos)
  /\ cand' = Found(ranked[j])
  /\ pos' = 2 /\ Goto("validate")
  /\ UNCHANGED out
FirstOperand(j) ==
  /\ Operand(j) /\ ~Small(j) /\ pos = 1
  /\ ranked' = Placed(j) /\ pos' = 2
  /\ UNCHANGED <<pc, cand, out>>

(* Validate ID by ID: always for few candidates, by cost for many          *)
MustValidate(n, s, from) == from <= Len(s) /\ n <= ScanLimit
MayValidate(n, s, from) ==
  from <= Len(s) /\ (n <= ScanLimit \/ \A i \in from..Len(s) : Known(s[i]))
NarrowCandidates(j) ==
  /\ Operand(j) /\ ~Small(j) /\ pos > 1 /\ Left(j) # {}
  /\ ranked' = Placed(j)
  /\ cand' = Left(j)
  /\ pos' = pos + 1
  /\ \/ MayValidate(Cardinality(Left(j)), Placed(j), pos + 1) /\ Goto("validate")
     \/ ~MustValidate(Cardinality(Left(j)), Placed(j), pos + 1) /\ Goto("intersect")
  /\ UNCHANGED out

EndIntersection ==
  /\ pc = "intersect" /\ pos > Len(ranked)
  /\ cand' = IF Len(ranked) = 1 THEN cand \cup Content(ranked[1].bits) ELSE cand
  /\ Goto("store")
  /\ UNCHANGED <<indexVars, localVars, ranked, pos, out>>

(* validateCandidateBitmap; orderCandidateValidation sorts the remaining   *)
(* operands by score, in place.                                            *)
Orders == {p \in [1..Len(ranked) -> 1..Len(ranked)] :
             /\ \A i \in 1..(pos - 1) : p[i] = i
             /\ \A i, j \in 1..Len(ranked) : p[i] = p[j] => i = j}
Validate ==
  LET accepted == {id \in cand : \A i \in pos..Len(ranked) : Accepts(ranked[i], id)} IN
  /\ pc = "validate"
  /\ \/ accepted = {} /\ Finish({})
     \/ /\ accepted # {}
        /\ cand' = accepted
        /\ \E p \in Orders : ranked' = [i \in DOMAIN ranked |-> ranked[p[i]]]
        /\ Goto("store")
        /\ UNCHANGED <<pos, out>>
  /\ UNCHANGED <<indexVars, localVars>>

(* storeLocalResult keeps a result whose inputs all outlive the search;    *)
(* then the IDs are appended.                                              *)
Retainable == \A r \in DOMAIN ranked : ranked[r].bits # NoBits /\ ~IsScratch(ranked[r].bits)
AppendResult ==
  /\ pc = "store"
  /\ \/ /\ Retainable
        /\ results' = [results EXCEPT ![nextResult] =
             [inputs |-> [r \in DOMAIN ranked |-> ranked[r].bits],
              keys |-> Key[Asked], ids |-> cand, current |-> TRUE]]
        /\ nextResult' = (nextResult % ResultSlots) + 1
     \/ ~Retainable /\ UNCHANGED <<results, nextResult>>
  /\ Finish(IF Broad THEN cand \ ix.excluded[Asked] ELSE Scan(Content(ranked[1].bits)))
  /\ UNCHANGED <<indexVars, caches, plan>>

Returned ==
  /\ pc = "return"
  /\ answer' = [answer EXCEPT ![Holder] = out]
  /\ asking' = [asking EXCEPT ![Holder] = NoQuery]
  /\ Goto("idle") /\ out' = {}
  /\ UNCHANGED <<ix, localVars, ranked, pos, cand>>

(* Close, and the next Local that reuses the context (resetLocal)          *)
Reopen ==
  /\ pc = "idle"
  /\ caches' = [c \in Children |-> EmptyCache]
  /\ plan' = NoPlan
  /\ results' = [i \in 1..ResultSlots |-> NoResult] /\ nextResult' = 1
  /\ UNCHANGED <<indexVars, frameVars>>

Next ==
  \/ \E q \in Queries : Begin(q)
  \/ QueryHit \/ ReuseEmpty \/ ReusePlan \/ DropPlan \/ RankEmpty \/ Rank
  \/ LoadResult \/ StartIntersection \/ ScanFirst
  \/ \E j \in 1..Width :
       EmptyIntersection(j) \/ SmallOperand(j) \/ FirstOperand(j) \/ NarrowCandidates(j)
  \/ EndIntersection \/ Validate \/ AppendResult \/ Returned \/ Reopen

Spec == Init /\ [][Next]_vars

-----------------------------------------------------------------------------
(* A result that may still be used is the intersection of its inputs as    *)
(* they are now, whatever the caches have rewritten since.                 *)
ResultsFresh ==
  \A i \in 1..ResultSlots : results[i].current =>
    results[i].ids =
      {id \in Ids : \A r \in DOMAIN results[i].inputs : id \in Content(results[i].inputs[r])}

(* A search about to return holds exactly the reference answer.            *)
AnswersExact == pc = "return" => out = Matching(Asked)
==============================================================================
