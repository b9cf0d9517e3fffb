------------------------------ MODULE AllSearch ------------------------------
(***************************************************************************)
(* Index.Search over a root All rule (searchAllMatches), run by several    *)
(* goroutines that share one bitmapPool of scratch bitmaps.                *)
(*                                                                         *)
(* A search ranks the children by their estimates, materializes and        *)
(* intersects some of them in scratch bitmaps, checks the rest ID by ID,   *)
(* and puts the scratch bitmaps back.  Bitmaps have an identity: `heap`    *)
(* is their content, `free` how often the pool holds them.  Between two    *)
(* steps of a search other goroutines may take, fill, clear and return     *)
(* bitmaps.  Cost comparisons (serialized sizes, work units) are choices   *)
(* left open: the answer must not depend on them.                          *)
(***************************************************************************)
EXTENDS RuleIndex, Sequences, FiniteSets

CONSTANTS
  Bitmaps,      \* scratch bitmaps the process may allocate
  NoBitmap,     \* nil
  Posting,      \* an immutable posting of the index, not a scratch bitmap
  ScanLimit,    \* allCandidateScanLimit (8 in the code)
  ArrayLimit    \* equalityArrayLimit (32): longer postings are bitmaps

ASSUME LimitAssumption == ScanLimit \in Nat /\ ArrayLimit \in Nat
ASSUME BitmapAssumption == NoBitmap \notin Bitmaps /\ Posting \notin Bitmaps /\ NoBitmap # Posting
ASSUME FiniteAssumption == IsFiniteSet(Ids)
(* No estimator undercounts (Between takes the smaller side's estimate).   *)
ASSUME BoundAssumption ==
  \A i \in Indexes, q \in Queries, c \in Children :
    c \in i.equality \/ Cardinality(i.wild[c] \cup i.post[q][c]) <= i.bound[q][c]

VARIABLES
  heap,    \* heap[b]: the IDs in scratch bitmap b
  free,    \* free[b]: how many times sync.Pool holds b
  pc,      \* where each goroutine is in searchAllMatches
  slots,   \* the caller's ranked slice
  view,    \* length of the slice the intersection works on
  pos,     \* loop index, or where the remaining operands start
  cand,    \* the `candidates` bitmap, NoBitmap when the search is not broad
  out      \* the IDs appended so far

poolVars  == <<heap, free>>
frameVars == <<pc, slots, view, pos, cand, out>>
vars      == <<indexVars, poolVars, frameVars>>

Phases == {"idle", "rank", "candidates", "first", "collect", "intersect",
           "operand", "validate", "append", "release", "failed"}

Unknown == 2 * Cardinality(Ids) + 1       \* ^uint64(0): no estimate

Entry == [bits  : Bitmaps \cup {NoBitmap, Posting}, card : Nat,
          child : Children, owned : BOOLEAN]

-----------------------------------------------------------------------------
(* The pool.  Get hands out any pooled bitmap, or allocates one nobody     *)
(* knows when there is none (a Get that misses what another P has pooled   *)
(* is a Get after Forget).  Get clears, and so does put.                   *)

Refs(g)  == {cand[g]} \cup {slots[g][i].bits : i \in DOMAIN slots[g]}
Fresh(b) == free[b] = 0 /\ \A g \in Goroutines : b \notin Refs(g)
Gettable ==
  LET pooled == {b \in Bitmaps : free[b] > 0}
  IN  IF pooled # {} THEN pooled
      ELSE {CHOOSE b \in Bitmaps : Fresh(b)} \cap {b \in Bitmaps : Fresh(b)}
Taken(b) == [free EXCEPT ![b] = IF free[b] > 0 THEN free[b] - 1 ELSE 0]

(* put for each slot in `owners` of slice s, and for the bitmaps in `more` *)
Puts(s, owners, more, b) ==
  Cardinality({i \in owners : s[i].bits = b}) + (IF b \in more THEN 1 ELSE 0)
PutAll(s, owners, more) ==
  /\ free' = [b \in Bitmaps |-> free[b] + Puts(s, owners, more, b)]
  /\ heap' = [b \in Bitmaps |-> IF Puts(s, owners, more, b) > 0 THEN {} ELSE heap[b]]

(* sync.Pool may forget a bitmap at any garbage collection, and put itself *)
(* drops bitmaps above maxPooledBitmapBytes.                               *)
Forget(b) ==
  /\ free[b] > 0
  /\ free' = Taken(b)
  /\ UNCHANGED <<indexVars, heap, frameVars>>

-----------------------------------------------------------------------------
(* Compiled facts about the children.                                      *)

Equality(c) == c \in ix.equality

(* eqRule.lookupPlanningBitmap: without wildcards the posting is the result *)
PlanningBitmap(c, q) ==
  Equality(c) /\ ix.wild[c] = {} /\ Cardinality(ix.post[q][c]) > ArrayLimit

(* Equality children count their two postings.  The others are asked for   *)
(* an estimate only when no equality count is small.                       *)
Count(c, q)    == Cardinality(ix.wild[c]) + Cardinality(ix.post[q][c])
SmallCount(q)  == \E c \in ix.equality : Count(c, q) <= ScanLimit
(* Fault: the sentinel of a missing estimate sorts below every estimate.   *)
EstimateLowSentinel(c, q) ==
  IF Equality(c) THEN Count(c, q)
  ELSE IF SmallCount(q) THEN -1 ELSE ix.bound[q][c]
Estimate(c, q) ==
  IF Equality(c) THEN Count(c, q)
  ELSE IF SmallCount(q) THEN Unknown ELSE ix.bound[q][c]

(* rankChildren sorts by estimate and keeps schema order between equals.   *)
Before(c, d, q) ==
  \/ Estimate(c, q) < Estimate(d, q)
  \/ Estimate(c, q) = Estimate(d, q) /\ c < d

(* Equality classes: children whose wildcard and concrete postings are the *)
(* same interned bitmaps (or that both have no concrete posting) return    *)
(* the same result for q.                                                  *)
SameClass(c, d, q) ==
  /\ Equality(c) /\ Equality(d) /\ ix.wild[c] = ix.wild[d]
  /\ ix.post[q][c] = ix.post[q][d]
  /\ ix.post[q][c] = {} \/ Cardinality(ix.post[q][c]) > ArrayLimit

(* deduplicateEqualityClasses keeps the first ranked child of each class.  *)
Kept(q) ==
  {c \in Children : \A d \in Children : Before(d, c, q) => ~SameClass(d, c, q)}

(* sharedWildcardGroups: equality children with one interned wildcard      *)
SharedWildcard(c, d) ==
  Equality(c) /\ Equality(d) /\ ix.wild[c] = ix.wild[d] /\ ix.wild[c] # {}
Grouped(c) == \E d \in Children \ {c} : SharedWildcard(c, d)

(* Fault: only the leader's constraint is intersected.                     *)
GroupResultLeaderOnly(g, c) == ix.wild[c] \cup ix.post[asking[g]][c]
(* W \cup (A1 \cap ... \cap An) over the group members present in slice s  *)
GroupResult(g, c) ==
  LET members == {slots[g][i].child : i \in DOMAIN slots[g]}
  IN  ix.wild[c] \cup
      {id \in Ids : \A d \in members : SharedWildcard(c, d) => id \in ix.post[asking[g]][d]}

(* Content of an operand as seen with scratch contents h                   *)
Bits(h, e, q) == IF e.bits = Posting THEN Matches(e.child, q) ELSE h[e.bits]

(* Contains on a materialized operand, matchesID on the others             *)
Accepts(h, e, q, id) ==
  id \in IF e.bits = NoBitmap THEN Matches(e.child, q) ELSE Bits(h, e, q)

Swap(s, i, j) == [s EXCEPT ![i] = s[j], ![j] = s[i]]
Known(e)      == e.bits # NoBitmap \/ e.card # Unknown
OwnedIn(s, n) == {i \in 1..n : s[i].owned}
(* Fault: an early exit puts its operands back and still owns them.        *)
DisownNone(s, n) == s
Disown(s, n)  == [i \in DOMAIN s |-> IF i <= n THEN [s[i] EXCEPT !.owned = FALSE] ELSE s[i]]
Goto(g, label) == pc' = [pc EXCEPT ![g] = label]
SetSlots(g, s) == slots' = [slots EXCEPT ![g] = s]

-----------------------------------------------------------------------------
Init ==
  /\ IndexInit
  /\ heap = [b \in Bitmaps |-> {}]
  /\ free = [b \in Bitmaps |-> 0]
  /\ pc    = [g \in Goroutines |-> "idle"]
  /\ slots = [g \in Goroutines |-> <<>>]
  /\ view  = [g \in Goroutines |-> 0]
  /\ pos   = [g \in Goroutines |-> 0]
  /\ cand  = [g \in Goroutines |-> NoBitmap]
  /\ out   = [g \in Goroutines |-> {}]

Begin(g, q) ==
  /\ pc[g] = "idle"
  /\ Ask(g, q)
  /\ Goto(g, "rank")
  /\ UNCHANGED <<poolVars, slots, view, pos, cand, out>>

(* rankChildren: a child known to be empty ends the search                 *)
RankEmpty(g) ==
  /\ pc[g] = "rank"
  /\ \E c \in Children : Estimate(c, asking[g]) = 0
  /\ Goto(g, "release")
  /\ UNCHANGED <<indexVars, poolVars, slots, view, pos, cand, out>>

(* rankChildren and deduplicateEqualityClasses                             *)
Rank(g) ==
  LET q == asking[g] IN
  /\ pc[g] = "rank"
  /\ \A c \in Children : Estimate(c, q) # 0
  /\ \E order \in [1..Cardinality(Kept(q)) -> Kept(q)] :
       /\ \A i, j \in DOMAIN order : i < j => Before(order[i], order[j], q)
       /\ SetSlots(g, [i \in DOMAIN order |->
            [bits  |-> IF PlanningBitmap(order[i], q) THEN Posting ELSE NoBitmap,
             card  |-> Estimate(order[i], q),
             child |-> order[i],
             owned |-> FALSE]])
       /\ view' = [view EXCEPT ![g] = Cardinality(Kept(q))]
       /\ Goto(g, IF Estimate(order[1], q) > ScanLimit THEN "candidates" ELSE "first")
  /\ UNCHANGED <<indexVars, poolVars, pos, cand, out>>

(* A small first child is its own candidate set; materialize it if needed. *)
MaterializeFirst(g) ==
  LET s == slots[g] IN
  /\ pc[g] = "first"
  /\ \/ /\ s[1].bits # NoBitmap
        /\ UNCHANGED <<poolVars, slots>>
     \/ /\ s[1].bits = NoBitmap
        /\ \E b \in Gettable :
             LET found == Matches(s[1].child, asking[g]) IN
             /\ free' = Taken(b)
             /\ heap' = [heap EXCEPT ![b] = found]
             /\ SetSlots(g, [s EXCEPT ![1].bits = b, ![1].card = Cardinality(found),
                                      ![1].owned = TRUE])
  /\ Goto(g, "append")
  /\ UNCHANGED <<indexVars, view, pos, cand, out>>

GetCandidates(g) ==
  /\ pc[g] = "candidates"
  /\ \E b \in Gettable :
       /\ free' = Taken(b)
       /\ heap' = [heap EXCEPT ![b] = {}]
       /\ cand' = [cand EXCEPT ![g] = b]
  /\ Goto(g, "collect")
  /\ pos' = [pos EXCEPT ![g] = 1]
  /\ UNCHANGED <<indexVars, slots, view, out>>

-----------------------------------------------------------------------------
(* collectSharedWildcards: the first unmaterialized member of a group      *)
(* computes the group's result once, and every member points at it.        *)
Leader(s, i) == Grouped(s[i].child) /\ s[i].bits = NoBitmap

CollectGroup(g) ==
  LET s == slots[g] IN
  /\ pc[g] = "collect"
  /\ \E i \in DOMAIN s : \E b \in Gettable :
       LET found  == GroupResult(g, s[i].child)
           member == {j \in i..Len(s) : SharedWildcard(s[i].child, s[j].child)}
       IN
       /\ Leader(s, i) /\ \A j \in 1..(i - 1) : ~Leader(s, j)
       /\ free' = Taken(b)
       /\ heap' = [heap EXCEPT ![b] = found]
       /\ SetSlots(g, [j \in DOMAIN s |->
            IF j \in member
            THEN [s[j] EXCEPT !.bits = b, !.card = Cardinality(found), !.owned = (j = i)]
            ELSE s[j]])
  /\ UNCHANGED <<indexVars, pc, view, pos, cand, out>>

(* One slot per group stays in the working prefix, in its order; the slots *)
(* behind it keep the entries they had.                                    *)
FirstOfGroup(s, i) == \A j \in 1..(i - 1) : ~SharedWildcard(s[j].child, s[i].child)
Compacted(s, kept) == [k \in DOMAIN s |-> IF k \in DOMAIN kept THEN s[kept[k]] ELSE s[k]]

CompactGroups(g) ==
  LET s     == slots[g]
      first == {i \in DOMAIN s : FirstOfGroup(s, i)}
  IN
  /\ pc[g] = "collect"
  /\ \A i \in DOMAIN s : ~Leader(s, i)
  /\ \E kept \in [1..Cardinality(first) -> first] :
       /\ \A i, j \in DOMAIN kept : i < j => kept[i] < kept[j]
       /\ SetSlots(g, Compacted(s, kept))
  /\ view' = [view EXCEPT ![g] = Cardinality(first)]
  /\ Goto(g, "intersect")
  /\ UNCHANGED <<indexVars, poolVars, pos, cand, out>>

-----------------------------------------------------------------------------
(* intersectRankedInOrderObserved, one loop iteration at a time            *)

(* `candidates` as the code sees it: the first operand is copied in when   *)
(* the second one is reached.                                              *)
Current(g) ==
  IF pos[g] = 2 THEN heap[cand[g]] \cup Bits(heap, slots[g][1], asking[g])
  ELSE heap[cand[g]]

(* shouldValidateRemaining: mandatory for few candidates, a cost decision  *)
(* that needs known costs for many.                                        *)
MustValidate(n, s, from, to) == from <= to /\ n <= ScanLimit
MayValidate(n, s, from, to) ==
  from <= to /\ (n <= ScanLimit \/ \A i \in from..to : Known(s[i]))

(* Fault: a narrowing step does not advance the loop.                      *)
NextOperandStuck(g, n) ==
  /\ UNCHANGED pos
  /\ \/ MayValidate(n, slots[g], pos[g] + 1, view[g]) /\ Goto(g, "validate")
     \/ ~MustValidate(n, slots[g], pos[g] + 1, view[g]) /\ Goto(g, "intersect")

(* After a narrowing step left n candidates                                *)
NextOperand(g, n) ==
  LET from == pos[g] + 1 IN
  /\ pos' = [pos EXCEPT ![g] = from]
  /\ \/ MayValidate(n, slots[g], from, view[g]) /\ Goto(g, "validate")
     \/ ~MustValidate(n, slots[g], from, view[g]) /\ Goto(g, "intersect")

(* Every early exit puts the scratch operands of the working prefix back.  *)
Abandon(g) ==
  /\ PutAll(slots[g], OwnedIn(slots[g], view[g]), {})
  /\ SetSlots(g, Disown(slots[g], view[g]))
  /\ Goto(g, "failed")
  /\ UNCHANGED pos

(* selectNextBitmapOperation: the cheapest operand with a known cost        *)
ChooseOperand(g) ==
  LET s == slots[g]
      i == pos[g]
      known == {j \in i..view[g] : Known(s[j])}
  IN
  /\ pc[g] = "intersect" /\ i <= view[g]
  /\ \E j \in IF i = 1 \/ known = {} THEN {i} ELSE known : SetSlots(g, Swap(s, i, j))
  /\ Goto(g, "operand")
  /\ UNCHANGED <<indexVars, poolVars, view, pos, cand, out>>

(* filterCandidates: an ordered child narrows the candidates in place.      *)
FilterOperand(g) ==
  LET e == slots[g][pos[g]]
      left == Current(g) \cap Matches(e.child, asking[g])
  IN
  /\ pc[g] = "operand" /\ pos[g] > 1
  /\ ~Equality(e.child) /\ e.bits = NoBitmap /\ Known(e)
  /\ heap' = [heap EXCEPT ![cand[g]] = left]
  /\ \/ left = {} /\ Goto(g, "failed") /\ UNCHANGED pos
     \/ left # {} /\ NextOperand(g, Cardinality(left))
  /\ UNCHANGED <<indexVars, free, slots, view, cand, out>>

MaterializeOperand(g) ==
  LET i == pos[g]
      found == Matches(slots[g][i].child, asking[g])
  IN
  /\ pc[g] = "operand" /\ slots[g][i].bits = NoBitmap
  /\ \E b \in Gettable :
     \/ /\ found # {}
        /\ free' = Taken(b)
        /\ heap' = [heap EXCEPT ![b] = found]
        /\ SetSlots(g, [slots[g] EXCEPT ![i].bits = b, ![i].card = Cardinality(found),
                                        ![i].owned = TRUE])
        /\ UNCHANGED <<pc, pos>>
     \/ found = {} /\ Abandon(g)      \* b itself goes straight back
  /\ UNCHANGED <<indexVars, view, cand, out>>

(* A small operand becomes the candidate set, first in the slice.          *)
SmallOperand(g) ==
  LET i == pos[g]
      e == slots[g][i]
  IN
  /\ pc[g] = "operand" /\ e.bits # NoBitmap /\ e.card <= ScanLimit
  /\ heap' = [heap EXCEPT ![cand[g]] = Bits(heap, e, asking[g])]
  /\ SetSlots(g, Swap(slots[g], 1, i))
  /\ pos' = [pos EXCEPT ![g] = 2]
  /\ Goto(g, "validate")
  /\ UNCHANGED <<indexVars, free, view, cand, out>>

IntersectOperand(g) ==
  LET e == slots[g][pos[g]]
      left == Current(g) \cap Bits(heap, e, asking[g])
  IN
  /\ pc[g] = "operand" /\ e.bits # NoBitmap /\ e.card > ScanLimit
  /\ \/ /\ pos[g] = 1
        /\ pos' = [pos EXCEPT ![g] = 2] /\ Goto(g, "intersect")
        /\ UNCHANGED <<poolVars, slots>>
     \/ /\ pos[g] > 1 /\ left # {}
        /\ heap' = [heap EXCEPT ![cand[g]] = left]
        /\ NextOperand(g, Cardinality(left))
        /\ UNCHANGED <<free, slots>>
     \/ pos[g] > 1 /\ left = {} /\ Abandon(g)
  /\ UNCHANGED <<indexVars, view, cand, out>>

(* The loop is over; a single operand still has to be copied.              *)
EndIntersection(g) ==
  /\ pc[g] = "intersect" /\ pos[g] > view[g]
  /\ heap' = IF view[g] # 1 THEN heap
             ELSE [heap EXCEPT ![cand[g]] = @ \cup Bits(heap, slots[g][1], asking[g])]
  /\ Goto(g, "append")
  /\ UNCHANGED <<indexVars, free, slots, view, pos, cand, out>>

(* validateCandidateBitmap: the accepted IDs are collected in one more     *)
(* scratch bitmap, which is put back at once.                              *)
ValidateCandidates(g) ==
  /\ pc[g] = "validate"
  /\ \E b \in Gettable :
       LET h == [heap EXCEPT ![b] = {}]
           accepted == {id \in h[cand[g]] :
             \A i \in pos[g]..view[g] : Accepts(h, slots[g][i], asking[g], id)}
       IN
       /\ heap' = IF b = cand[g] THEN h ELSE [h EXCEPT ![cand[g]] = accepted]
       /\ Goto(g, IF heap'[cand[g]] = {} THEN "failed" ELSE "append")
  /\ UNCHANGED <<indexVars, free, slots, view, pos, cand, out>>

-----------------------------------------------------------------------------
(* Result assembly.  Exclusions are checked directly or in one more        *)
(* scratch bitmap that is put back at once.                                *)
Broad(g) == slots[g][1].card > ScanLimit

AppendMatches(g) ==
  LET q == asking[g] IN
  /\ pc[g] = "append"
  /\ \E b \in Gettable :
       LET h == IF ix.excluded[q] = {} \/ ~Broad(g) THEN heap
                ELSE [heap EXCEPT ![b] = ix.excluded[q]]
       IN out' = [out EXCEPT ![g] = (IF Broad(g) THEN h[cand[g]]
            ELSE {id \in Bits(h, slots[g][1], q) :
                   \A i \in 2..Len(slots[g]) : Accepts(h, slots[g][i], q, id)})
            \ ix.excluded[q]]
  /\ Goto(g, "release")
  /\ UNCHANGED <<indexVars, poolVars, slots, view, pos, cand>>

(* releaseRanked over the caller's whole slice, then return                *)
Release(g) ==
  LET s == slots[g] IN
  /\ pc[g] \in {"release", "failed"}
  /\ PutAll(s, OwnedIn(s, Len(s)),
            IF pc[g] = "failed" \/ (s # <<>> /\ Broad(g)) THEN {cand[g]} ELSE {})
  /\ answer' = [answer EXCEPT ![g] = out[g]]
  /\ asking' = [asking EXCEPT ![g] = NoQuery]
  /\ Goto(g, "idle")
  /\ SetSlots(g, <<>>)
  /\ view' = [view EXCEPT ![g] = 0]
  /\ pos'  = [pos EXCEPT ![g] = 0]
  /\ cand' = [cand EXCEPT ![g] = NoBitmap]
  /\ out'  = [out EXCEPT ![g] = {}]
  /\ UNCHANGED ix

Step(g) ==
  \/ RankEmpty(g) \/ Rank(g)
  \/ MaterializeFirst(g) \/ GetCandidates(g)
  \/ CollectGroup(g) \/ CompactGroups(g)
  \/ ChooseOperand(g) \/ FilterOperand(g) \/ MaterializeOperand(g)
  \/ SmallOperand(g) \/ IntersectOperand(g) \/ EndIntersection(g)
  \/ ValidateCandidates(g) \/ AppendMatches(g) \/ Release(g)

Next ==
  \/ \E g \in Goroutines : Step(g) \/ \E q \in Queries : Begin(g, q)
  \/ \E b \in Bitmaps : Forget(b)

Spec == Init /\ [][Next]_vars

-----------------------------------------------------------------------------
TypeOK ==
  /\ ix \in Indexes
  /\ asking \in [Goroutines -> Queries \cup {NoQuery}]
  /\ answer \in [Goroutines -> SUBSET Ids]
  /\ heap \in [Bitmaps -> SUBSET Ids]
  /\ free \in [Bitmaps -> Nat]
  /\ pc \in [Goroutines -> Phases]
  /\ slots \in [Goroutines -> Seq(Entry)]
  /\ view \in [Goroutines -> Nat]
  /\ pos \in [Goroutines -> Nat]
  /\ cand \in [Goroutines -> Bitmaps \cup {NoBitmap}]
  /\ out \in [Goroutines -> SUBSET Ids]

(* A scratch bitmap has one owner at a time: it is in the pool once, or it *)
(* is the candidate set or one operand of one search.  Otherwise two        *)
(* operands share storage and a constraint is silently lost.               *)
Owners(b) ==
  {<<g, 0>> : g \in {h \in Goroutines : cand[h] = b}} \cup
  UNION {{<<g, i>> : i \in {j \in DOMAIN slots[g] : slots[g][j].owned /\ slots[g][j].bits = b}}
         : g \in Goroutines}
ScratchExclusive == \A b \in Bitmaps : free[b] + Cardinality(Owners(b)) <= 1

(* A search about to return holds exactly the reference answer: an exact   *)
(* index neither adds nor loses matches.                                   *)
AnswersExact ==
  \A g \in Goroutines :
    pc[g] \in {"release", "failed"} => out[g] = Matching(asking[g])

(* What is left of a search: later phases count less, and the intersection *)
(* loop has operands left to choose, materialize and consume.              *)
PhasesLeft(g) ==
  CASE pc[g] = "idle"                    -> 0
    [] pc[g] \in {"release", "failed"}   -> 1
    [] pc[g] = "append"                  -> 2
    [] pc[g] = "validate"                -> 3
    [] pc[g] \in {"intersect", "operand"} -> 4
    [] pc[g] = "collect"                 -> 5
    [] pc[g] \in {"candidates", "first"} -> 6
    [] pc[g] = "rank"                    -> 7
LoopLeft(g) ==
  CASE pc[g] = "collect"   -> Cardinality({i \in DOMAIN slots[g] : Leader(slots[g], i)})
    [] pc[g] = "intersect" -> 3 * (Width + 1 - pos[g]) + 2
    [] pc[g] = "operand"   -> 3 * (Width + 1 - pos[g]) +
                                (IF slots[g][pos[g]].bits = NoBitmap THEN 1 ELSE 0)
    [] OTHER               -> 0
WorkLeft(g) == (3 * Width + 3) * PhasesLeft(g) + LoopLeft(g)
Frame(g)    == <<pc[g], slots[g], view[g], pos[g], cand[g], out[g]>>

(* Every step of a search consumes work, whatever other goroutines do, and *)
(* however often the loop replans its operands, filters in place or hands  *)
(* over to validation: a search that is scheduled returns.                 *)
SearchAdvances ==
  [][\A g \in Goroutines : pc[g] # "idle" /\ Frame(g)' # Frame(g) => WorkLeft(g)' < WorkLeft(g)]_vars
==============================================================================
