--------------------------- MODULE AllSearchProofs ---------------------------
(***************************************************************************)
(* Proofs about searches of a root All, for every set of goroutines, every *)
(* index and query, all limits and any number of scratch bitmaps.          *)
(*                                                                         *)
(* First what each phase of searchAllMatches may rely on in its frame,     *)
(* then who owns which scratch bitmap, then what the bitmaps contain, and  *)
(* then that searches implement RuleIndex, and last that they end.         *)
(***************************************************************************)
EXTENDS AllSearch, FiniteSetTheorems, TLAPS

-----------------------------------------------------------------------------
(* Compiled facts.                                                         *)

LEMMA LeastNatural ==
  ASSUME NEW S, S \subseteq Nat, S # {}
  PROVE  \E m \in S : \A n \in S : m =< n
<1> DEFINE R == {p \in Nat \X Nat : p[1] < p[2]}
<1>1. IsWellFoundedOn(R, Nat)
  <2>1. IsWellFoundedOn(OpToRel(<, Nat), Nat)
    BY NatLessThanWellFounded
  <2> QED BY <2>1 DEF OpToRel
<1>2. PICK m \in S : \A n \in S : <<n, m>> \notin R
  BY <1>1, WFMin
<1>3. ASSUME NEW n \in S PROVE m =< n
  <2>1. <<n, m>> \notin R /\ <<n, m>> \in Nat \X Nat
    BY <1>2
  <2>2. ~ n < m
    BY <2>1
  <2> QED BY <2>2
<1> QED BY <1>3

LEMMA IdSets ==
  ASSUME NEW S \in SUBSET Ids
  PROVE  IsFiniteSet(S) /\ Cardinality(S) \in Nat /\ Cardinality(S) =< Cardinality(Ids)
         /\ Cardinality(Ids) \in Nat
BY FiniteAssumption, FS_Subset, FS_CardinalityType

LEMMA ChildrenFinite ==
  ASSUME NEW S \in SUBSET Children
  PROVE  IsFiniteSet(S) /\ Cardinality(S) \in Nat
<1>1. IsFiniteSet(Children)
  BY WidthAssumption, FS_Interval DEF Children
<1> QED BY <1>1, FS_Subset, FS_CardinalityType

LEMMA IndexType ==
  ASSUME ix \in Indexes
  PROVE  /\ ix \in IndexShape
         /\ \A c \in Children, q \in Queries :
              ix.wild[c] \subseteq Ids /\ ix.post[q][c] \subseteq Ids /\ ix.bound[q][c] \in Nat
         /\ \A q \in Queries : ix.excluded[q] \subseteq Ids
<1>1. ix \in IndexShape
  BY IndexAssumption
<1> QED BY <1>1 DEF IndexShape

LEMMA MatchesType ==
  ASSUME ix \in Indexes, NEW c \in Children, NEW q \in Queries
  PROVE  Matches(c, q) \subseteq Ids
BY IndexType DEF Matches

(* An estimate is a number no smaller than what the child matches.         *)
LEMMA EstimateBounds ==
  ASSUME ix \in Indexes, NEW c \in Children, NEW q \in Queries
  PROVE  Estimate(c, q) \in Nat /\ Cardinality(Matches(c, q)) =< Estimate(c, q)
<1>1. /\ IsFiniteSet(ix.wild[c]) /\ Cardinality(ix.wild[c]) \in Nat
      /\ IsFiniteSet(ix.post[q][c]) /\ Cardinality(ix.post[q][c]) \in Nat
      /\ Cardinality(ix.wild[c] \cap ix.post[q][c]) \in Nat
      /\ ix.bound[q][c] \in Nat
  BY IndexType, IdSets
<1>2. Cardinality(Matches(c, q)) \in Nat /\ Cardinality(Matches(c, q)) =< Cardinality(Ids)
      /\ Cardinality(Ids) \in Nat
  BY MatchesType, IdSets
<1>3. CASE Equality(c)
  <2>1. Cardinality(ix.wild[c] \cup ix.post[q][c]) =
          Cardinality(ix.wild[c]) + Cardinality(ix.post[q][c])
            - Cardinality(ix.wild[c] \cap ix.post[q][c])
    BY <1>1, FS_Union
  <2>2. Cardinality(Matches(c, q)) =< Count(c, q) /\ Count(c, q) \in Nat
    BY <1>1, <2>1 DEF Matches, Count
  <2> QED BY <1>3, <2>2 DEF Estimate
<1>4. CASE ~Equality(c)
  <2>1. Cardinality(Matches(c, q)) =< ix.bound[q][c]
    BY <1>4, BoundAssumption DEF Matches, Equality
  <2> QED BY <1>1, <1>2, <1>4, <2>1 DEF Estimate, Unknown
<1> QED BY <1>3, <1>4

(* Every child has a representative among the children that are kept.      *)
LEMMA KeptCovers ==
  ASSUME ix \in Indexes, NEW q \in Queries, NEW c \in Children
  PROVE  \E d \in Kept(q) : Matches(d, q) = Matches(c, q)
<1> DEFINE Peers == {d \in Children : d = c \/ SameClass(d, c, q)}
           Costs == {Estimate(d, q) : d \in Peers}
<1>1. Costs \subseteq Nat /\ Costs # {}
  <2>1. \A d \in Children : Estimate(d, q) \in Nat
    BY EstimateBounds
  <2>2. c \in Peers
    OBVIOUS
  <2> QED BY <2>1, <2>2
<1>2. PICK m \in Costs : \A n \in Costs : m =< n
  BY <1>1, LeastNatural
<1> DEFINE Cheapest == {d \in Peers : Estimate(d, q) = m}
<1>3. Cheapest \subseteq Nat /\ Cheapest # {}
  BY <1>2, WidthAssumption DEF Children
<1>4. PICK d \in Cheapest : \A e \in Cheapest : d =< e
  BY <1>3, LeastNatural
<1>5. d \in Children /\ Matches(d, q) = Matches(c, q)
  BY <1>4 DEF SameClass, Matches
<1>6. ASSUME NEW e \in Children, Before(e, d, q), SameClass(e, d, q) PROVE FALSE
  <2>1. e \in Peers
    BY <1>4, <1>6 DEF SameClass
  <2>2. m =< Estimate(e, q) /\ Estimate(d, q) = m
    BY <1>2, <1>4, <2>1
  <2>3. Estimate(e, q) \in Nat /\ m \in Nat /\ e \in Nat /\ d \in Nat
    BY <1>1, <1>2, <1>5, EstimateBounds, WidthAssumption DEF Children
  <2>4. Estimate(e, q) = m /\ e < d
    BY <1>6, <2>2, <2>3 DEF Before
  <2>5. e \in Cheapest
    BY <2>1, <2>4
  <2> QED BY <1>4, <2>3, <2>4, <2>5
<1>7. d \in Kept(q)
  BY <1>5, <1>6 DEF Kept
<1> QED BY <1>5, <1>7

LEMMA KeptSome ==
  ASSUME ix \in Indexes, NEW q \in Queries
  PROVE  /\ IsFiniteSet(Kept(q)) /\ Kept(q) \subseteq Children
         /\ Cardinality(Kept(q)) \in Nat /\ 1 =< Cardinality(Kept(q))
<1>1. 1 \in Children
  BY WidthAssumption DEF Children
<1>2. Kept(q) # {}
  BY <1>1, KeptCovers
<1>3. Kept(q) \subseteq Children
  BY DEF Kept
<1>4. IsFiniteSet(Kept(q)) /\ Cardinality(Kept(q)) \in Nat
  BY <1>3, ChildrenFinite
<1>5. Cardinality(Kept(q)) # 0
  BY <1>2, <1>4, FS_EmptySet
<1> QED BY <1>3, <1>4, <1>5

-----------------------------------------------------------------------------
(* What each phase may rely on in its own frame.                           *)

Active  == {"first", "candidates", "collect", "intersect", "operand", "validate", "append"}
Looping == {"intersect", "operand", "validate"}

(* No two entries are for one child, and the members of a group are        *)
(* materialized together.                                                  *)
Ranked(g) ==
  /\ view[g] = Len(slots[g])
  /\ \A i, j \in DOMAIN slots[g] :
       /\ slots[g][i].child = slots[g][j].child => i = j
       /\ SharedWildcard(slots[g][i].child, slots[g][j].child) =>
            slots[g][i].bits = slots[g][j].bits /\ slots[g][i].bits # Posting

Layout(g) ==
  /\ pc[g] = "idle" <=> asking[g] = NoQuery
  /\ pc[g] \in {"idle", "rank"} => slots[g] = <<>> /\ view[g] = 0 /\ cand[g] = NoBitmap
  /\ pc[g] \in {"first", "candidates"} =>
       /\ cand[g] = NoBitmap
       /\ \A i \in DOMAIN slots[g] : ~slots[g][i].owned /\ slots[g][i].bits \notin Bitmaps
  /\ pc[g] \in Active => view[g] \in 1..Len(slots[g])
  /\ pc[g] \in {"candidates", "collect"} => Ranked(g)
  /\ pc[g] = "collect" => pos[g] = 1
  /\ pc[g] = "first" =>
       /\ slots[g][1].card =< ScanLimit
       /\ Cardinality(Matches(slots[g][1].child, asking[g])) =< ScanLimit
  /\ pc[g] \in Looping \cup {"collect", "failed"} => cand[g] \in Bitmaps
  /\ pc[g] = "append" => slots[g][1].bits # NoBitmap /\ (Broad(g) => cand[g] \in Bitmaps)
  /\ pc[g] = "intersect" => pos[g] \in 1..(view[g] + 1)
  /\ pc[g] = "operand" => pos[g] \in 1..view[g]
  /\ pc[g] = "validate" => pos[g] \in 2..(view[g] + 1)
  /\ pc[g] \in Looping /\ pos[g] # 1 => slots[g][1].bits # NoBitmap
  /\ pc[g] # "release" => out[g] = {}

Sane == TypeOK /\ \A g \in Goroutines : Layout(g)

-----------------------------------------------------------------------------
LEMMA EntryAt ==
  ASSUME TypeOK, NEW g \in Goroutines, NEW i \in DOMAIN slots[g]
  PROVE  /\ slots[g] \in Seq(Entry) /\ slots[g][i] \in Entry /\ DOMAIN slots[g] = 1..Len(slots[g])
         /\ Len(slots[g]) \in Nat
         /\ slots[g][i].child \in Children /\ slots[g][i].bits \in Bitmaps \cup {NoBitmap, Posting}
         /\ slots[g][i].card \in Nat /\ slots[g][i].owned \in BOOLEAN
<1>1. slots[g] \in Seq(Entry)
  BY DEF TypeOK
<1>2. slots[g][i] \in Entry
  BY <1>1
<1> QED BY <1>1, <1>2 DEF Entry

LEMMA FrameFacts ==
  ASSUME Sane, NEW g \in Goroutines
  PROVE  /\ slots[g] \in Seq(Entry) /\ Len(slots[g]) \in Nat /\ DOMAIN slots[g] = 1..Len(slots[g])
         /\ \A j \in DOMAIN slots[g] : slots[g][j] \in Entry /\ slots[g][j].child \in Children
         /\ pc[g] # "idle" => asking[g] \in Queries
         /\ ix \in Indexes /\ Layout(g)
<1>1. slots[g] \in Seq(Entry) /\ ix \in Indexes /\ asking[g] \in Queries \cup {NoQuery}
  BY DEF Sane, TypeOK
<1>2. pc[g] # "idle" => asking[g] # NoQuery
  BY DEF Sane, Layout
<1>3. Layout(g)
  BY DEF Sane
<1>4. Len(slots[g]) \in Nat /\ DOMAIN slots[g] = 1..Len(slots[g])
  BY <1>1
<1>5. \A j \in DOMAIN slots[g] : slots[g][j] \in Entry
  BY <1>1
<1>6. \A j \in DOMAIN slots[g] : slots[g][j].child \in Children
  BY <1>5 DEF Entry
<1> QED BY <1>1, <1>2, <1>3, <1>4, <1>5, <1>6

LEMMA EntrySequence ==
  ASSUME NEW n \in Nat, NEW t, t = [k \in 1..n |-> t[k]], \A k \in 1..n : t[k] \in Entry
  PROVE  t \in Seq(Entry) /\ Len(t) = n /\ DOMAIN t = 1..n
OBVIOUS

LEMMA GettableBitmaps == Gettable \subseteq Bitmaps
BY DEF Gettable

LEMMA TakenType ==
  ASSUME free \in [Bitmaps -> Nat], NEW b \in Bitmaps
  PROVE  Taken(b) \in [Bitmaps -> Nat]
BY DEF Taken

LEMMA PutsType ==
  ASSUME NEW s \in Seq(Entry), NEW n \in Nat, NEW more, NEW b
  PROVE  Puts(s, OwnedIn(s, n), more, b) \in Nat
<1>1. IsFiniteSet(1..n)
  BY FS_Interval
<1>2. {i \in OwnedIn(s, n) : s[i].bits = b} \in SUBSET (1..n)
  BY DEF OwnedIn
<1>3. Cardinality({i \in OwnedIn(s, n) : s[i].bits = b}) \in Nat
  BY <1>1, <1>2, FS_Subset, FS_CardinalityType
<1> QED BY <1>3 DEF Puts

LEMMA SwapType ==
  ASSUME NEW s \in Seq(Entry), NEW i \in DOMAIN s, NEW j \in DOMAIN s
  PROVE  /\ Swap(s, i, j) \in Seq(Entry) /\ Len(Swap(s, i, j)) = Len(s)
         /\ DOMAIN Swap(s, i, j) = DOMAIN s
         /\ \A k \in DOMAIN s : Swap(s, i, j)[k] = IF k = j THEN s[i] ELSE IF k = i THEN s[j] ELSE s[k]
<1>1. s[i] \in Entry /\ s[j] \in Entry
  OBVIOUS
<1> QED BY <1>1 DEF Swap

LEMMA DisownType ==
  ASSUME NEW s \in Seq(Entry), NEW n \in Nat
  PROVE  /\ Disown(s, n) \in Seq(Entry) /\ Len(Disown(s, n)) = Len(s)
         /\ DOMAIN Disown(s, n) = DOMAIN s
         /\ \A i \in DOMAIN s : /\ Disown(s, n)[i].bits = s[i].bits
                                /\ Disown(s, n)[i].owned <=> (n < i /\ s[i].owned)
<1>1. \A i \in DOMAIN s : s[i] \in Entry /\ i \in Nat
  OBVIOUS
<1>2. \A i \in DOMAIN s : Disown(s, n)[i] \in Entry
  BY <1>1 DEF Disown, Entry
<1>3. Disown(s, n) = [i \in 1..Len(s) |-> Disown(s, n)[i]]
  BY DEF Disown
<1>4. Disown(s, n) \in Seq(Entry) /\ Len(Disown(s, n)) = Len(s)
  <2> DEFINE f == Disown(s, n)
  <2> HIDE DEF f
  <2>0. DOMAIN s = 1..Len(s)
    OBVIOUS
  <2>1. f = [i \in 1..Len(s) |-> f[i]] /\ \A i \in 1..Len(s) : f[i] \in Entry
    BY <2>0, <1>2, <1>3 DEF f
  <2>2. Len(s) \in Nat
    OBVIOUS
  <2>3. f \in Seq(Entry) /\ Len(f) = Len(s)
    BY <2>1, <2>2
  <2> QED BY <2>3 DEF f
<1>5. \A i \in DOMAIN s : /\ Disown(s, n)[i].bits = s[i].bits
                          /\ Disown(s, n)[i].owned <=> (n < i /\ s[i].owned)
  BY <1>1 DEF Disown, Entry
<1> QED BY <1>4, <1>5 DEF Disown

(* A step of one goroutine leaves the layout of the others alone.          *)
LEMMA LayoutElsewhere ==
  ASSUME NEW h \in Goroutines, Layout(h), UNCHANGED <<ix, asking[h], Frame(h)>>
  PROVE  Layout(h)'
BY DEF Layout, Frame, Ranked, SharedWildcard, Equality, Matches, Broad

LEMMA InitSane == Init => Sane
<1> SUFFICES ASSUME Init PROVE Sane
  OBVIOUS
<1>1. TypeOK
  BY DEF Init, IndexInit, TypeOK, Phases
<1>2. \A g \in Goroutines : Layout(g)
  BY SentinelAssumption DEF Init, IndexInit, Layout, Active, Looping
<1> QED BY <1>1, <1>2 DEF Sane

LEMMA BeginSane ==
  ASSUME Sane, NEW g \in Goroutines, NEW q \in Queries, Begin(g, q) PROVE Sane'
<1>1. TypeOK'
  BY DEF Begin, Ask, Goto, Sane, TypeOK, Phases, poolVars
<1>2. \A h \in Goroutines \ {g} : UNCHANGED <<ix, asking[h], Frame(h)>>
  BY DEF Begin, Ask, Goto, Sane, TypeOK, Frame, poolVars
<1>3. Layout(g)'
  <2>1. pc'[g] = "rank" /\ asking'[g] = q /\ pc[g] = "idle"
    BY DEF Begin, Ask, Goto, Sane, TypeOK
  <2>2. UNCHANGED <<slots, view, pos, cand, out>>
    BY DEF Begin
  <2> QED BY <2>1, <2>2, SentinelAssumption DEF Layout, Sane, Active, Looping
<1> QED BY <1>1, <1>2, <1>3, LayoutElsewhere DEF Sane

LEMMA RankEmptySane ==
  ASSUME Sane, NEW g \in Goroutines, RankEmpty(g) PROVE Sane'
<1>1. TypeOK'
  BY DEF RankEmpty, Goto, Sane, TypeOK, Phases, poolVars, indexVars
<1>2. \A h \in Goroutines \ {g} : UNCHANGED <<ix, asking[h], Frame(h)>>
  BY DEF RankEmpty, Goto, Sane, TypeOK, Frame, indexVars
<1>3. Layout(g)'
  <2>1. pc'[g] = "release" /\ pc[g] = "rank" /\ asking' = asking
    BY DEF RankEmpty, Goto, Sane, TypeOK, indexVars
  <2> QED BY <2>1 DEF Layout, Sane, Active, Looping
<1> QED BY <1>1, <1>2, <1>3, LayoutElsewhere DEF Sane

(* SameWildcard relates the members of one group to each other.            *)
LEMMA GroupsPartition ==
  /\ \A c, d : SharedWildcard(c, d) => SharedWildcard(d, c) /\ SharedWildcard(c, c)
  /\ \A c, d, e : SharedWildcard(c, d) /\ SharedWildcard(d, e) => SharedWildcard(c, e)
BY DEF SharedWildcard

LEMMA RankSane ==
  ASSUME Sane, NEW g \in Goroutines, Rank(g) PROVE Sane'
<1> DEFINE q == asking[g]
           n == Cardinality(Kept(q))
<1>1. /\ pc[g] = "rank" /\ q \in Queries /\ ix \in Indexes
      /\ cand[g] = NoBitmap /\ out[g] = {}
      /\ UNCHANGED <<indexVars, poolVars, pos, cand, out>>
  BY DEF Rank, Sane, TypeOK, Layout
<1>2. PICK order \in [1..n -> Kept(q)] :
        /\ \A i, j \in DOMAIN order : i < j => Before(order[i], order[j], q)
        /\ SetSlots(g, [i \in DOMAIN order |->
             [bits  |-> IF PlanningBitmap(order[i], q) THEN Posting ELSE NoBitmap,
              card  |-> Estimate(order[i], q),
              child |-> order[i],
              owned |-> FALSE]])
        /\ view' = [view EXCEPT ![g] = n]
        /\ Goto(g, IF Estimate(order[1], q) > ScanLimit THEN "candidates" ELSE "first")
  BY DEF Rank
<1> DEFINE s == [i \in 1..n |->
             [bits  |-> IF PlanningBitmap(order[i], q) THEN Posting ELSE NoBitmap,
              card  |-> Estimate(order[i], q),
              child |-> order[i],
              owned |-> FALSE]]
<1>3. n \in Nat /\ 1 =< n /\ Kept(q) \subseteq Children
  BY <1>1, KeptSome
<1>4. slots' = [slots EXCEPT ![g] = s] /\ DOMAIN order = 1..n
  BY <1>2 DEF SetSlots
<1>5. \A i \in 1..n : s[i] \in Entry
  BY <1>1, <1>3, EstimateBounds DEF Entry
<1>6. s \in Seq(Entry) /\ Len(s) = n /\ DOMAIN s = 1..n
  BY <1>3, <1>5
<1>7. pc' = [pc EXCEPT ![g] = IF Estimate(order[1], q) > ScanLimit THEN "candidates" ELSE "first"]
  BY <1>2 DEF Goto
<1>8. view' = [view EXCEPT ![g] = n]
  BY <1>2
<1>9. \A i \in 1..n : /\ s[i].child = order[i] /\ ~s[i].owned
                      /\ s[i].bits = IF PlanningBitmap(order[i], q) THEN Posting ELSE NoBitmap
                      /\ s[i].card = Estimate(order[i], q) /\ order[i] \in Children
  BY <1>3
<1> HIDE DEF s
<1>10. TypeOK'
  BY <1>1, <1>3, <1>4, <1>6, <1>7, <1>8 DEF Sane, TypeOK, Phases, indexVars, poolVars
<1>11. \A h \in Goroutines \ {g} : UNCHANGED <<ix, asking[h], Frame(h)>>
  BY <1>1, <1>4, <1>7, <1>8 DEF Sane, TypeOK, Frame, indexVars
<1>12. slots'[g] = s /\ view'[g] = n
  BY <1>4, <1>8 DEF Sane, TypeOK
<1>13. pc'[g] = IF Estimate(order[1], q) > ScanLimit THEN "candidates" ELSE "first"
  BY <1>7 DEF Sane, TypeOK
<1>14. Ranked(g)'
  <2>1. ASSUME NEW i \in 1..n, NEW j \in 1..n, s[i].child = s[j].child PROVE i = j
    <3>1. order[i] = order[j] /\ Estimate(order[i], q) \in Nat /\ order[i] \in Nat
      BY <1>1, <1>9, <2>1, EstimateBounds, WidthAssumption DEF Children
    <3>2. ~Before(order[i], order[j], q) /\ ~Before(order[j], order[i], q)
      BY <3>1 DEF Before
    <3>3. ~ i < j /\ ~ j < i
      BY <1>2, <1>4, <3>2
    <3> QED BY <3>3
  <2>2. ASSUME NEW i \in 1..n, NEW j \in 1..n, SharedWildcard(s[i].child, s[j].child)
        PROVE  s[i].bits = NoBitmap /\ s[j].bits = NoBitmap
    <3>1. ix.wild[order[i]] # {} /\ ix.wild[order[j]] # {}
      BY <1>9, <2>2 DEF SharedWildcard
    <3> QED BY <1>9, <3>1 DEF PlanningBitmap
  <2>3. NoBitmap # Posting
    BY BitmapAssumption
  <2>4. ix' = ix
    BY <1>1 DEF indexVars
  <2> QED BY <1>6, <1>12, <2>1, <2>2, <2>3, <2>4 DEF Ranked, SharedWildcard, Equality
<1>15. ASSUME pc'[g] = "first"
       PROVE  s[1].card =< ScanLimit /\ Cardinality(Matches(s[1].child, q)) =< ScanLimit
  <2>1. 1 \in 1..n /\ order[1] \in Children
    BY <1>3, <1>9
  <2>2. Estimate(order[1], q) \in Nat /\ Cardinality(Matches(order[1], q)) =< Estimate(order[1], q)
    BY <1>1, <2>1, EstimateBounds
  <2>3. Estimate(order[1], q) =< ScanLimit
    BY <1>13, <1>15, <2>2, LimitAssumption
  <2>4. Cardinality(Matches(order[1], q)) \in Nat
    BY <1>1, <2>1, MatchesType, IdSets
  <2> QED BY <1>9, <2>1, <2>2, <2>3, <2>4, LimitAssumption
<1>16. \A i \in DOMAIN s : ~s[i].owned /\ s[i].bits \notin Bitmaps
  BY <1>6, <1>9, BitmapAssumption
<1>17. ix' = ix /\ asking' = asking /\ cand' = cand /\ out' = out
  BY <1>1 DEF indexVars
<1>18. asking[g] # NoQuery /\ pc'[g] \in {"candidates", "first"} /\ n \in 1..n
  BY <1>1, <1>3, <1>13, SentinelAssumption
<1>19. Layout(g)'
  <2>1. (Matches(slots[g][1].child, asking[g]))' = Matches(s[1].child, q)
    BY <1>12, <1>17 DEF Matches
  <2> QED BY <1>1, <1>6, <1>12, <1>14, <1>15, <1>16, <1>17, <1>18, <2>1 DEF Layout, Active, Looping
<1> QED BY <1>10, <1>11, <1>19, LayoutElsewhere DEF Sane

LEMMA MaterializeFirstSane ==
  ASSUME Sane, NEW g \in Goroutines, MaterializeFirst(g) PROVE Sane'
<1> DEFINE s == slots[g]
           found == Matches(s[1].child, asking[g])
<1>1. /\ pc[g] = "first" /\ pc' = [pc EXCEPT ![g] = "append"]
      /\ view[g] \in 1..Len(s) /\ s[1].card =< ScanLimit /\ out[g] = {}
      /\ asking[g] \in Queries
      /\ Cardinality(found) =< ScanLimit
      /\ UNCHANGED <<indexVars, view, pos, cand, out>>
  BY DEF MaterializeFirst, Goto, Sane, TypeOK, Layout, Active
<1>2. /\ s \in Seq(Entry) /\ 1 \in DOMAIN s /\ Len(s) \in Nat /\ s[1] \in Entry
      /\ found \subseteq Ids /\ Cardinality(found) \in Nat
  <2>1. s \in Seq(Entry)
    BY DEF Sane, TypeOK
  <2>2. 1 \in DOMAIN s /\ Len(s) \in Nat
    BY <1>1, <2>1
  <2>3. s[1] \in Entry /\ ix \in Indexes
    BY <2>1, <2>2 DEF Sane, TypeOK
  <2>4. found \subseteq Ids
    BY <1>1, <2>3, MatchesType DEF Entry
  <2> QED BY <2>1, <2>2, <2>3, <2>4, IdSets
<1> HIDE DEF found
<1>3. PICK t \in Seq(Entry) :
        /\ slots' = [slots EXCEPT ![g] = t] /\ Len(t) = Len(s)
        /\ t[1].bits # NoBitmap /\ t[1].card =< ScanLimit /\ t[1].card \in Nat
        /\ heap' \in [Bitmaps -> SUBSET Ids] /\ free' \in [Bitmaps -> Nat]
  <2>1. CASE s[1].bits # NoBitmap /\ UNCHANGED <<poolVars, slots>>
    <3>1. slots' = [slots EXCEPT ![g] = s]
      BY <2>1 DEF Sane, TypeOK
    <3> QED BY <1>1, <1>2, <2>1, <3>1 DEF Sane, TypeOK, poolVars, Entry
  <2>2. ASSUME NEW b \in Gettable,
               /\ free' = Taken(b)
               /\ heap' = [heap EXCEPT ![b] = found]
               /\ SetSlots(g, [s EXCEPT ![1].bits = b, ![1].card = Cardinality(found),
                                        ![1].owned = TRUE])
        PROVE  \E t \in Seq(Entry) :
        /\ slots' = [slots EXCEPT ![g] = t] /\ Len(t) = Len(s)
        /\ t[1].bits # NoBitmap /\ t[1].card =< ScanLimit /\ t[1].card \in Nat
        /\ heap' \in [Bitmaps -> SUBSET Ids] /\ free' \in [Bitmaps -> Nat]
    <3> DEFINE e == [s[1] EXCEPT !.bits = b, !.card = Cardinality(found), !.owned = TRUE]
               t == [s EXCEPT ![1] = e]
    <3>1. b \in Bitmaps
      BY GettableBitmaps
    <3>2. e \in Entry /\ e.bits = b /\ e.card = Cardinality(found)
      BY <1>2, <3>1 DEF Entry
    <3>3. slots' = [slots EXCEPT ![g] = t]
      BY <1>2, <2>2 DEF SetSlots
    <3> HIDE DEF e
    <3>4. t \in Seq(Entry) /\ Len(t) = Len(s) /\ t[1] = e
      BY <1>2, <3>2
    <3>5. heap' \in [Bitmaps -> SUBSET Ids] /\ free' \in [Bitmaps -> Nat]
      BY <1>2, <2>2, <3>1, TakenType DEF Sane, TypeOK
    <3> QED BY <1>1, <1>2, <3>1, <3>2, <3>3, <3>4, <3>5, BitmapAssumption DEF found
  <2>3. \/ s[1].bits # NoBitmap /\ UNCHANGED <<poolVars, slots>>
        \/ \E b \in Gettable :
             /\ free' = Taken(b)
             /\ heap' = [heap EXCEPT ![b] = found]
             /\ SetSlots(g, [s EXCEPT ![1].bits = b, ![1].card = Cardinality(found),
                                      ![1].owned = TRUE])
    BY DEF MaterializeFirst, found
  <2> QED BY <2>1, <2>2, <2>3
<1>4. TypeOK'
  BY <1>1, <1>3 DEF Sane, TypeOK, Phases, indexVars
<1>5. \A h \in Goroutines \ {g} : UNCHANGED <<ix, asking[h], Frame(h)>>
  BY <1>1, <1>3 DEF Sane, TypeOK, Frame, indexVars
<1>6. pc'[g] = "append" /\ slots'[g] = t /\ asking[g] # NoQuery
  BY <1>1, <1>3, SentinelAssumption DEF Sane, TypeOK
<1>7. ~Broad(g)'
  BY <1>3, <1>6, LimitAssumption DEF Broad
<1>8. Layout(g)'
  BY <1>1, <1>3, <1>6, <1>7 DEF Layout, Active, Looping, indexVars
<1> QED BY <1>4, <1>5, <1>8, LayoutElsewhere DEF Sane

LEMMA GetCandidatesSane ==
  ASSUME Sane, NEW g \in Goroutines, GetCandidates(g) PROVE Sane'
<1>1. PICK b \in Bitmaps :
        /\ free' = Taken(b) /\ heap' = [heap EXCEPT ![b] = {}] /\ cand' = [cand EXCEPT ![g] = b]
  BY GettableBitmaps DEF GetCandidates
<1>2. /\ pc[g] = "candidates" /\ pc' = [pc EXCEPT ![g] = "collect"]
      /\ pos' = [pos EXCEPT ![g] = 1]
      /\ UNCHANGED <<indexVars, slots, view, out>>
  BY DEF GetCandidates, Goto
<1>3. TypeOK'
  BY <1>1, <1>2, TakenType DEF Sane, TypeOK, Phases, indexVars
<1>4. \A h \in Goroutines \ {g} : UNCHANGED <<ix, asking[h], Frame(h)>>
  BY <1>1, <1>2 DEF Sane, TypeOK, Frame, indexVars
<1>5. pc'[g] = "collect" /\ pos'[g] = 1 /\ cand'[g] = b
  BY <1>1, <1>2 DEF Sane, TypeOK
<1>6. Ranked(g)' <=> Ranked(g)
  BY <1>2 DEF Ranked, SharedWildcard, Equality, indexVars
<1>7. Layout(g)'
  BY <1>2, <1>5, <1>6 DEF Sane, Layout, Active, Looping, indexVars
<1> QED BY <1>3, <1>4, <1>7, LayoutElsewhere DEF Sane

(* The members of one group are materialized together, the first time.     *)
LEMMA CollectedTogether ==
  ASSUME NEW g \in Goroutines, Ranked(g), NEW i \in DOMAIN slots[g], Leader(slots[g], i),
         \A j \in 1..(i - 1) : ~Leader(slots[g], j), slots[g] \in Seq(Entry),
         NEW j \in DOMAIN slots[g], SharedWildcard(slots[g][i].child, slots[g][j].child)
  PROVE  i =< j /\ slots[g][j].bits = NoBitmap
<1>1. slots[g][j].bits = NoBitmap
  BY DEF Ranked, Leader
<1>2. CASE j < i
  <2>1. j \in 1..(i - 1)
    BY <1>2
  <2>2. slots[g][j].child # slots[g][i].child /\ slots[g][i].child \in Children
    <3>1. slots[g][i] \in Entry /\ i # j
      BY <1>2
    <3> QED BY <3>1 DEF Ranked, Entry
  <2>3. SharedWildcard(slots[g][j].child, slots[g][i].child)
    BY GroupsPartition
  <2>4. Leader(slots[g], j)
    BY <1>1, <2>2, <2>3 DEF Leader, Grouped
  <2> QED BY <2>1, <2>4
<1> QED BY <1>1, <1>2

(* From s to t, entries M, which read nothing, take bitmap b; i owns it.   *)
Takes(s, t, M, i, b) ==
  /\ Len(t) = Len(s) /\ M \subseteq DOMAIN s /\ i \in M
  /\ \A k \in M : s[k].bits = NoBitmap /\ t[k].bits = b /\ (t[k].owned <=> k = i)
  /\ \A k \in DOMAIN s \ M : t[k].bits = s[k].bits /\ (t[k].owned <=> s[k].owned)

(* What CollectGroup does: the group of entry i gets bitmap b, i owns it.   *)
GroupOf(g, i) == {j \in DOMAIN slots[g] : SharedWildcard(slots[g][i].child, slots[g][j].child)}
CollectTo(g, i, b, t) ==
  LET s == slots[g] IN
  /\ Leader(s, i) /\ \A j \in 1..(i - 1) : ~Leader(s, j)
  /\ free' = Taken(b)
  /\ heap' = [heap EXCEPT ![b] = GroupResult(g, s[i].child)]
  /\ slots' = [slots EXCEPT ![g] = t]
  /\ Takes(s, t, GroupOf(g, i), i, b)
  /\ \A j \in GroupOf(g, i) : i =< j
  /\ \A j \in DOMAIN s : t[j].child = s[j].child

LEMMA CollectStep ==
  ASSUME Sane, NEW g \in Goroutines, CollectGroup(g)
  PROVE  \E i \in DOMAIN slots[g], b \in Gettable, t \in Seq(Entry) : CollectTo(g, i, b, t)
<1> DEFINE s == slots[g]
<1>1. PICK i \in DOMAIN s, b \in Gettable :
       LET found  == GroupResult(g, s[i].child)
           member == {j \in i..Len(s) : SharedWildcard(s[i].child, s[j].child)}
       IN
       /\ Leader(s, i) /\ \A j \in 1..(i - 1) : ~Leader(s, j)
       /\ free' = Taken(b)
       /\ heap' = [heap EXCEPT ![b] = found]
       /\ SetSlots(g, [j \in DOMAIN s |->
            IF j \in member
            THEN [s[j] EXCEPT !.bits = b, !.card = Cardinality(found), !.owned = (j = i)]
            ELSE s[j]])
  BY DEF CollectGroup
<1> DEFINE found == GroupResult(g, s[i].child)
           member == GroupOf(g, i)
           t == [j \in DOMAIN s |->
                  IF j \in member
                  THEN [s[j] EXCEPT !.bits = b, !.card = Cardinality(found), !.owned = (j = i)]
                  ELSE s[j]]
<1>2. /\ s \in Seq(Entry) /\ Len(s) \in Nat /\ DOMAIN s = 1..Len(s) /\ Ranked(g)
      /\ \A j \in DOMAIN s : s[j] \in Entry
      /\ asking[g] \in Queries /\ ix \in Indexes
  <2>1. pc[g] = "collect"
    BY DEF CollectGroup
  <2>2. Ranked(g)
    BY <2>1 DEF Sane, Layout
  <2> QED BY <2>1, <2>2, FrameFacts
<1>3. Leader(s, i) /\ \A j \in 1..(i - 1) : ~Leader(s, j)
  BY <1>1
<1>4. \A j \in member : i =< j /\ s[j].bits = NoBitmap
  BY <1>2, <1>3, CollectedTogether DEF GroupOf
<1>5. member = {j \in i..Len(s) : SharedWildcard(s[i].child, s[j].child)}
  BY <1>2, <1>4 DEF GroupOf
<1>6. i \in member
  <2>1. PICK d : SharedWildcard(s[i].child, d)
    BY <1>3 DEF Leader, Grouped
  <2> QED BY <2>1, GroupsPartition DEF GroupOf
<1>7. found \subseteq Ids
  <2>1. ix.wild[s[i].child] \subseteq Ids
    BY <1>2, IndexType DEF Entry
  <2> QED BY <2>1 DEF GroupResult
<1>8. Cardinality(found) \in Nat /\ b \in Bitmaps
  BY <1>7, IdSets, GettableBitmaps
<1>9. slots' = [slots EXCEPT ![g] = t] /\ free' = Taken(b) /\ heap' = [heap EXCEPT ![b] = found]
  BY <1>1, <1>5 DEF SetSlots
<1> HIDE DEF found, member
<1>10. \A j \in DOMAIN s :
        /\ t[j] \in Entry /\ t[j].child = s[j].child
        /\ t[j].bits = IF j \in member THEN b ELSE s[j].bits
        /\ t[j].owned = IF j \in member THEN j = i ELSE s[j].owned
  BY <1>2, <1>8 DEF Entry
<1>11. t \in Seq(Entry) /\ Len(t) = Len(s)
  <2>1. t = [j \in 1..Len(s) |-> t[j]] /\ \A j \in 1..Len(s) : t[j] \in Entry
    BY <1>2, <1>10
  <2> HIDE DEF t
  <2> QED BY <1>2, <2>1, SMTT(30)
<1> HIDE DEF t
<1>12. CollectTo(g, i, b, t)
  <2>1. Takes(s, t, member, i, b)
    BY <1>4, <1>6, <1>10, <1>11 DEF Takes, member, GroupOf
  <2> QED BY <1>3, <1>4, <1>9, <1>10, <2>1 DEF found, member, CollectTo
<1> QED BY <1>11, <1>12

LEMMA CollectGroupSane ==
  ASSUME Sane, NEW g \in Goroutines, CollectGroup(g) PROVE Sane'
<1> DEFINE s == slots[g]
<1>1. PICK i \in DOMAIN slots[g], b \in Gettable, t \in Seq(Entry) : CollectTo(g, i, b, t)
  BY CollectStep
<1>2. /\ pc[g] = "collect" /\ Ranked(g) /\ s \in Seq(Entry) /\ s[i] \in Entry /\ b \in Bitmaps
      /\ asking[g] \in Queries /\ ix \in Indexes
      /\ UNCHANGED <<indexVars, pc, view, pos, cand, out>>
  <2>1. pc[g] = "collect" /\ UNCHANGED <<indexVars, pc, view, pos, cand, out>>
    BY DEF CollectGroup
  <2>2. Ranked(g)
    BY <2>1 DEF Sane, Layout
  <2> QED BY <2>1, <2>2, FrameFacts, GettableBitmaps
<1>3. GroupResult(g, s[i].child) \subseteq Ids
  <2>1. ix.wild[s[i].child] \subseteq Ids
    BY <1>2, IndexType DEF Entry
  <2> QED BY <2>1 DEF GroupResult
<1>4. TypeOK'
  BY <1>1, <1>2, <1>3, TakenType DEF Sane, TypeOK, indexVars, CollectTo
<1>5. \A h \in Goroutines \ {g} : UNCHANGED <<ix, asking[h], Frame(h)>>
  BY <1>1, <1>2 DEF Sane, TypeOK, Frame, indexVars, CollectTo
<1>6. slots'[g] = t /\ DOMAIN t = DOMAIN s /\ t \in Seq(Entry) /\ Len(t) = Len(s)
  BY <1>1, <1>2 DEF Sane, TypeOK, CollectTo, Takes
<1>7. Ranked(g)'
  <2> DEFINE member == GroupOf(g, i)
  <2>1. ASSUME NEW j \in DOMAIN s, NEW k \in DOMAIN s, SharedWildcard(s[j].child, s[k].child)
        PROVE  (j \in member <=> k \in member)
    BY <2>1, GroupsPartition DEF GroupOf
  <2>2. \A j \in DOMAIN s : /\ t[j].child = s[j].child
                            /\ t[j].bits = IF j \in member THEN b ELSE s[j].bits
    BY <1>1 DEF CollectTo, Takes
  <2> HIDE DEF member
  <2>3. ASSUME NEW j \in DOMAIN s, NEW k \in DOMAIN s
        PROVE  /\ t[j].child = t[k].child => j = k
               /\ SharedWildcard(t[j].child, t[k].child) => t[j].bits = t[k].bits /\ t[j].bits # Posting
    BY <1>2, <2>1, <2>2, BitmapAssumption DEF Ranked
  <2>4. view'[g] = Len(t) /\ ix' = ix
    BY <1>2, <1>6 DEF Ranked, indexVars
  <2> QED BY <1>6, <2>3, <2>4 DEF Ranked, SharedWildcard, Equality
<1>8. Layout(g)'
  BY <1>2, <1>6, <1>7 DEF Sane, Layout, Active, Looping, indexVars
<1> QED BY <1>4, <1>5, <1>8, LayoutElsewhere DEF Sane

(* What CompactGroups does: entry kept[k] moves to position k.              *)
FirstsOf(g) == {i \in DOMAIN slots[g] : FirstOfGroup(slots[g], i)}
CompactTo(g, n, kept, t) ==
  LET s == slots[g] IN
  /\ n = Cardinality(FirstsOf(g)) /\ n \in 1..Len(s) /\ view' = [view EXCEPT ![g] = n]
  /\ \A i, j \in 1..n : i < j => kept[i] < kept[j]
  /\ \A k \in FirstsOf(g) : \E i \in 1..n : kept[i] = k
  /\ slots' = [slots EXCEPT ![g] = t] /\ Len(t) = Len(s)
  /\ \A k \in DOMAIN s : t[k] = IF k \in 1..n THEN s[kept[k]] ELSE s[k]

LEMMA CompactStep ==
  ASSUME Sane, NEW g \in Goroutines, CompactGroups(g)
  PROVE  \E n \in Nat : \E kept \in [1..n -> FirstsOf(g)], t \in Seq(Entry) :
           CompactTo(g, n, kept, t)
<1> DEFINE s == slots[g]
           first == FirstsOf(g)
           n == Cardinality(first)
<1>1. /\ s \in Seq(Entry) /\ Len(s) \in Nat /\ DOMAIN s = 1..Len(s) /\ 1 =< Len(s)
      /\ \A j \in DOMAIN s : s[j] \in Entry
  <2>1. pc[g] = "collect"
    BY DEF CompactGroups, FirstsOf
  <2>2. view[g] \in 1..Len(s)
    BY <2>1 DEF Sane, Layout, Active
  <2> QED BY <2>2, FrameFacts
<1>2. first \in SUBSET (1..Len(s)) /\ IsFiniteSet(1..Len(s)) /\ Cardinality(1..Len(s)) = Len(s)
  BY <1>1, FS_Interval DEF FirstsOf
<1>3. IsFiniteSet(first) /\ n \in Nat /\ n =< Len(s)
  BY <1>2, FS_Subset, FS_CardinalityType
<1>4. 1 \in first
  BY <1>1 DEF FirstOfGroup, FirstsOf
<1>5. n # 0
  BY <1>3, <1>4, FS_EmptySet
<1>6. PICK kept \in [1..n -> first] :
        /\ \A i, j \in DOMAIN kept : i < j => kept[i] < kept[j]
        /\ SetSlots(g, Compacted(s, kept))
  BY DEF CompactGroups, FirstsOf
<1>7. \A i, j \in 1..n : i < j => kept[i] < kept[j]
  BY <1>6
<1> HIDE DEF first, n
<1>8. \A k \in first : \E i \in 1..n : kept[i] = k
  <2>1. ASSUME NEW i \in 1..n, NEW j \in 1..n, kept[i] = kept[j] PROVE i = j
    <3>1. kept[i] \in first /\ kept[j] \in first
      OBVIOUS
    <3>2. kept[i] \in 1..Len(s) /\ kept[j] \in 1..Len(s)
      BY <1>2, <3>1
    <3> QED BY <1>3, <1>7, <2>1, <3>2
  <2>2. kept \in Injection(1..n, first)
    BY <2>1 DEF Injection, IsInjective
  <2>3. Cardinality(1..n) = n
    BY <1>3, <1>5, FS_Interval
  <2>4. kept \in Surjection(1..n, first)
    BY <1>3, <2>2, <2>3, FS_Injection DEF n
  <2> QED BY <2>4 DEF Surjection
<1> DEFINE t == [k \in DOMAIN s |-> IF k \in 1..n THEN s[kept[k]] ELSE s[k]]
<1>9. slots' = [slots EXCEPT ![g] = t]
  BY <1>6 DEF SetSlots, Compacted
<1>10. t \in Seq(Entry) /\ Len(t) = Len(s)
  <2>1. ASSUME NEW k \in 1..Len(s) PROVE t[k] \in Entry
    <3>1. k \in 1..n => kept[k] \in 1..Len(s)
      BY <1>2
    <3> QED BY <1>1, <3>1
  <2>2. t = [k \in 1..Len(s) |-> t[k]]
    BY <1>1
  <2> HIDE DEF t
  <2> QED BY <1>1, <2>1, <2>2, EntrySequence
<1>11. \A k \in DOMAIN s : t[k] = IF k \in 1..n THEN s[kept[k]] ELSE s[k]
  OBVIOUS
<1> HIDE DEF t
<1>12. view' = [view EXCEPT ![g] = n] /\ n \in 1..Len(s)
  BY <1>1, <1>3, <1>5 DEF CompactGroups, n, first, FirstsOf
<1>13. CompactTo(g, n, kept, t)
  BY <1>7, <1>8, <1>9, <1>10, <1>11, <1>12 DEF first, n, CompactTo
<1>14. kept \in [1..n -> FirstsOf(g)]
  BY DEF first
<1> QED BY <1>3, <1>10, <1>13, <1>14

LEMMA CompactGroupsSane ==
  ASSUME Sane, NEW g \in Goroutines, CompactGroups(g) PROVE Sane'
<1>1. PICK n \in 1..Len(slots[g]), t \in Seq(Entry) :
        /\ view' = [view EXCEPT ![g] = n]
        /\ slots' = [slots EXCEPT ![g] = t] /\ Len(t) = Len(slots[g])
  <2>1. PICK n \in Nat : \E kept \in [1..n -> FirstsOf(g)], t \in Seq(Entry) :
          CompactTo(g, n, kept, t)
    BY CompactStep
  <2> QED BY <2>1 DEF CompactTo
<1>2. /\ pc[g] = "collect" /\ pc' = [pc EXCEPT ![g] = "intersect"]
      /\ UNCHANGED <<indexVars, poolVars, pos, cand, out>>
  BY DEF CompactGroups, Goto
<1>3. Len(slots[g]) \in Nat
  BY DEF Sane, TypeOK
<1>4. TypeOK'
  BY <1>1, <1>2, <1>3 DEF Sane, TypeOK, Phases, indexVars, poolVars
<1>5. \A h \in Goroutines \ {g} : UNCHANGED <<ix, asking[h], Frame(h)>>
  BY <1>1, <1>2 DEF Sane, TypeOK, Frame, indexVars
<1>6. pc'[g] = "intersect" /\ slots'[g] = t /\ view'[g] = n
  BY <1>1, <1>2 DEF Sane, TypeOK
<1>7. Layout(g)'
  BY <1>1, <1>2, <1>3, <1>6 DEF Sane, Layout, Active, Looping, indexVars
<1> QED BY <1>4, <1>5, <1>7, LayoutElsewhere DEF Sane

(* A step inside the intersection loop.                                    *)
LEMMA LoopSane ==
  ASSUME Sane, NEW g \in Goroutines, pc[g] \in Looping,
         UNCHANGED <<indexVars, view, cand, out>>,
         heap' \in [Bitmaps -> SUBSET Ids], free' \in [Bitmaps -> Nat],
         NEW p \in {"intersect", "operand", "validate", "append", "failed"}, pc' = [pc EXCEPT ![g] = p],
         NEW s \in Seq(Entry), slots' = [slots EXCEPT ![g] = s], Len(s) = Len(slots[g]),
         NEW n \in Nat, pos' = [pos EXCEPT ![g] = n],
         p = "intersect" => n \in 1..(view[g] + 1),
         p = "operand" => n \in 1..view[g],
         p = "validate" => n \in 2..(view[g] + 1),
         p = "append" \/ (p # "failed" /\ n # 1) => s[1].bits # NoBitmap
  PROVE  Sane'
<1>1. TypeOK'
  BY DEF Sane, TypeOK, Phases, Looping, indexVars
<1>2. \A h \in Goroutines \ {g} : UNCHANGED <<ix, asking[h], Frame(h)>>
  BY DEF Sane, TypeOK, Frame, indexVars
<1>3. pc'[g] = p /\ slots'[g] = s /\ pos'[g] = n
  BY DEF Sane, TypeOK
<1>4. /\ cand[g] \in Bitmaps /\ view[g] \in 1..Len(s) /\ out[g] = {} /\ asking[g] # NoQuery
  BY DEF Sane, Layout, Active, Looping
<1>5. UNCHANGED <<ix, asking[g], view[g], cand[g], out[g]>>
  BY DEF indexVars
<1>6. p \in Looping /\ n # 1 => s[1].bits # NoBitmap
  BY DEF Looping
<1>7. p \in {"intersect", "operand", "validate", "append", "failed"}
  OBVIOUS
<1>8. Layout(g)'
  BY <1>3, <1>4, <1>5, <1>6, <1>7 DEF Layout, Active, Looping
<1> QED BY <1>1, <1>2, <1>8, LayoutElsewhere DEF Sane

LEMMA LoopFacts ==
  ASSUME Sane, NEW g \in Goroutines, pc[g] \in Looping
  PROVE  /\ slots[g] \in Seq(Entry) /\ Len(slots[g]) \in Nat /\ DOMAIN slots[g] = 1..Len(slots[g])
         /\ \A j \in DOMAIN slots[g] : slots[g][j] \in Entry /\ slots[g][j].child \in Children
         /\ asking[g] \in Queries /\ ix \in Indexes
         /\ view[g] \in 1..Len(slots[g]) /\ pos[g] \in 1..(view[g] + 1) /\ cand[g] \in Bitmaps
         /\ pos[g] # 1 => slots[g][1].bits # NoBitmap
         /\ heap \in [Bitmaps -> SUBSET Ids] /\ free \in [Bitmaps -> Nat]
         /\ slots = [slots EXCEPT ![g] = slots[g]] /\ pos = [pos EXCEPT ![g] = pos[g]]
         /\ pc = [pc EXCEPT ![g] = pc[g]]
<1>1. /\ slots[g] \in Seq(Entry) /\ Len(slots[g]) \in Nat /\ DOMAIN slots[g] = 1..Len(slots[g])
      /\ \A j \in DOMAIN slots[g] : slots[g][j] \in Entry /\ slots[g][j].child \in Children
      /\ asking[g] \in Queries /\ ix \in Indexes /\ Layout(g)
  BY FrameFacts DEF Looping
<1>2. /\ view[g] \in 1..Len(slots[g]) /\ cand[g] \in Bitmaps
      /\ pos[g] # 1 => slots[g][1].bits # NoBitmap
  BY <1>1 DEF Layout, Active, Looping
<1>3. pos[g] \in 1..(view[g] + 1)
  BY <1>1, <1>2 DEF Layout, Looping
<1> QED BY <1>1, <1>2, <1>3 DEF Sane, TypeOK

(* Contents of a known operand are IDs.                                    *)
LEMMA BitsType ==
  ASSUME ix \in Indexes, NEW q \in Queries, NEW e \in Entry, e.bits # NoBitmap,
         NEW h \in [Bitmaps -> SUBSET Ids]
  PROVE  Bits(h, e, q) \subseteq Ids
<1>1. Matches(e.child, q) \subseteq Ids
  BY MatchesType DEF Entry
<1> QED BY <1>1 DEF Bits, Entry

LEMMA ChosenOperand ==
  ASSUME Sane, NEW g \in Goroutines, ChooseOperand(g)
  PROVE  \E j \in pos[g]..view[g] : slots' = [slots EXCEPT ![g] = Swap(slots[g], pos[g], j)]
<1> DEFINE known == {j \in pos[g]..view[g] : Known(slots[g][j])}
<1>1. pc[g] = "intersect" /\ pos[g] =< view[g]
  BY DEF ChooseOperand
<1>2. PICK j \in IF pos[g] = 1 \/ known = {} THEN {pos[g]} ELSE known :
        SetSlots(g, Swap(slots[g], pos[g], j))
  BY DEF ChooseOperand
<1>3. pos[g] \in pos[g]..view[g] /\ known \subseteq pos[g]..view[g]
  BY <1>1, LoopFacts DEF Looping
<1> QED BY <1>2, <1>3 DEF SetSlots

LEMMA ChooseOperandSane ==
  ASSUME Sane, NEW g \in Goroutines, ChooseOperand(g) PROVE Sane'
<1>1. /\ pc[g] = "intersect" /\ pos[g] =< view[g] /\ pc' = [pc EXCEPT ![g] = "operand"]
      /\ UNCHANGED <<indexVars, poolVars, view, pos, cand, out>>
  BY DEF ChooseOperand, Goto
<1>2. PICK j \in pos[g]..view[g] : slots' = [slots EXCEPT ![g] = Swap(slots[g], pos[g], j)]
  BY ChosenOperand
<1> DEFINE s == Swap(slots[g], pos[g], j)
<1>3. pos[g] \in DOMAIN slots[g] /\ j \in DOMAIN slots[g] /\ pos[g] \in 1..view[g]
  BY <1>1, <1>2, LoopFacts DEF Looping
<1>4. slots[g] \in Seq(Entry)
  BY <1>1, LoopFacts DEF Looping
<1>5. s \in Seq(Entry) /\ Len(s) = Len(slots[g])
  BY <1>3, <1>4, SwapType
<1>6. pos[g] # 1 => s[1] = slots[g][1]
  <2>1. 1 \in DOMAIN slots[g] /\ (pos[g] # 1 => j # 1)
    BY <1>1, <1>2, LoopFacts DEF Looping
  <2>2. Swap(slots[g], pos[g], j)[1] = IF 1 = j THEN slots[g][pos[g]]
                                       ELSE IF 1 = pos[g] THEN slots[g][j] ELSE slots[g][1]
    BY <1>3, <1>4, <2>1 DEF Swap
  <2> QED BY <2>1, <2>2
<1> HIDE DEF s
<1>7. pos[g] # 1 => s[1].bits # NoBitmap
  BY <1>1, <1>6, LoopFacts DEF Looping
<1>8. slots' = [slots EXCEPT ![g] = s] /\ pos' = [pos EXCEPT ![g] = pos[g]] /\ pos[g] \in Nat
  BY <1>1, <1>2, <1>3, LoopFacts DEF s, Looping
<1>9. heap' \in [Bitmaps -> SUBSET Ids] /\ free' \in [Bitmaps -> Nat]
  BY <1>1 DEF poolVars, Sane, TypeOK
<1>10. UNCHANGED <<indexVars, view, cand, out>> /\ pc[g] \in Looping
  BY <1>1 DEF Looping
<1> QED BY <1>1, <1>3, <1>5, <1>7, <1>8, <1>9, <1>10, LoopSane

(* After a narrowing step the loop goes on or validates what is left.      *)
LEMMA NextOperandSane ==
  ASSUME Sane, NEW g \in Goroutines, pc[g] = "operand", pos[g] > 1, NEW n, NextOperand(g, n),
         UNCHANGED <<indexVars, free, slots, view, cand, out>>,
         heap' \in [Bitmaps -> SUBSET Ids]
  PROVE  Sane'
<1>1. PICK p \in {"validate", "intersect"} : pc' = [pc EXCEPT ![g] = p]
  BY DEF NextOperand, Goto
<1>2. pos' = [pos EXCEPT ![g] = pos[g] + 1]
  BY DEF NextOperand
<1>3. pos[g] \in 1..view[g]
  BY DEF Sane, Layout
<1>4. /\ pos[g] + 1 \in Nat /\ pos[g] + 1 \in 2..(view[g] + 1) /\ pos[g] + 1 \in 1..(view[g] + 1)
      /\ slots[g][1].bits # NoBitmap /\ slots' = [slots EXCEPT ![g] = slots[g]]
      /\ slots[g] \in Seq(Entry) /\ free' \in [Bitmaps -> Nat]
  BY <1>3, LoopFacts DEF Looping
<1> QED BY <1>1, <1>2, <1>4, LoopSane DEF Looping

LEMMA AbandonSane ==
  ASSUME Sane, NEW g \in Goroutines, pc[g] = "operand", Abandon(g),
         UNCHANGED <<indexVars, view, cand, out>>
  PROVE  Sane'
<1> DEFINE s == Disown(slots[g], view[g])
<1>1. pc' = [pc EXCEPT ![g] = "failed"] /\ slots' = [slots EXCEPT ![g] = s] /\ UNCHANGED pos
  BY DEF Abandon, Goto, SetSlots
<1>2. slots[g] \in Seq(Entry) /\ view[g] \in Nat /\ pos[g] \in Nat /\ pos' = [pos EXCEPT ![g] = pos[g]]
      /\ heap \in [Bitmaps -> SUBSET Ids] /\ free \in [Bitmaps -> Nat]
  BY <1>1, LoopFacts DEF Looping, Sane, TypeOK
<1>3. s \in Seq(Entry) /\ Len(s) = Len(slots[g])
  BY <1>2, DisownType
<1>4. \A b : Puts(slots[g], OwnedIn(slots[g], view[g]), {}, b) \in Nat
  BY <1>2, PutsType
<1>5. heap' \in [Bitmaps -> SUBSET Ids] /\ free' \in [Bitmaps -> Nat]
  BY <1>2, <1>4 DEF Abandon, PutAll
<1>6. pc[g] \in Looping
  BY DEF Looping
<1> HIDE DEF s
<1> QED BY <1>1, <1>2, <1>3, <1>5, <1>6, LoopSane

LEMMA FilterOperandSane ==
  ASSUME Sane, NEW g \in Goroutines, FilterOperand(g) PROVE Sane'
<1> DEFINE left == Current(g) \cap Matches(slots[g][pos[g]].child, asking[g])
<1>1. /\ pc[g] = "operand" /\ pos[g] > 1 /\ heap' = [heap EXCEPT ![cand[g]] = left]
      /\ UNCHANGED <<indexVars, free, slots, view, cand, out>>
      /\ \/ left = {} /\ Goto(g, "failed") /\ UNCHANGED pos
         \/ left # {} /\ NextOperand(g, Cardinality(left))
  BY DEF FilterOperand
<1>2. pos[g] \in DOMAIN slots[g]
  <2>1. pos[g] \in 1..view[g]
    BY <1>1 DEF Sane, Layout
  <2> QED BY <1>1, <2>1, LoopFacts DEF Looping
<1>3. left \subseteq Ids
  <2>1. Matches(slots[g][pos[g]].child, asking[g]) \subseteq Ids
    BY <1>1, <1>2, LoopFacts, MatchesType DEF Looping
  <2> QED BY <2>1
<1> HIDE DEF left
<1>4. heap' \in [Bitmaps -> SUBSET Ids] /\ free' \in [Bitmaps -> Nat]
  BY <1>1, <1>3 DEF Sane, TypeOK
<1>5. CASE NextOperand(g, Cardinality(left))
  BY <1>1, <1>4, <1>5, NextOperandSane
<1>6. CASE Goto(g, "failed") /\ UNCHANGED pos
  <2>1. pc' = [pc EXCEPT ![g] = "failed"] /\ pos' = [pos EXCEPT ![g] = pos[g]]
        /\ slots' = [slots EXCEPT ![g] = slots[g]] /\ slots[g] \in Seq(Entry) /\ pos[g] \in Nat
    BY <1>1, <1>6, LoopFacts DEF Goto, Looping
  <2>2. UNCHANGED <<indexVars, view, cand, out>> /\ pc[g] \in Looping
    BY <1>1 DEF Looping
  <2> QED BY <1>1, <1>4, <2>1, <2>2, LoopSane
<1> QED BY <1>1, <1>5, <1>6

LEMMA MaterializeOperandSane ==
  ASSUME Sane, NEW g \in Goroutines, MaterializeOperand(g) PROVE Sane'
<1> DEFINE s == slots[g]
           i == pos[g]
           found == Matches(s[i].child, asking[g])
<1>1. /\ pc[g] = "operand" /\ pc[g] \in Looping
      /\ UNCHANGED <<indexVars, view, cand, out>>
  BY DEF MaterializeOperand, Looping
<1>2. /\ s \in Seq(Entry) /\ i \in 1..view[g] /\ i \in DOMAIN s /\ s[i] \in Entry /\ i \in Nat
      /\ Len(s) \in Nat /\ DOMAIN s = 1..Len(s)
      /\ pos = [pos EXCEPT ![g] = i] /\ pc = [pc EXCEPT ![g] = "operand"]
      /\ i # 1 => s[1].bits # NoBitmap
  <2>1. i \in 1..view[g]
    BY <1>1 DEF Sane, Layout
  <2> QED BY <1>1, <2>1, LoopFacts
<1>3. found \subseteq Ids /\ Cardinality(found) \in Nat
  <2>1. found \subseteq Ids
    BY <1>1, <1>2, LoopFacts, MatchesType
  <2> QED BY <2>1, IdSets
<1> HIDE DEF found
<1>4. ASSUME NEW b \in Gettable,
             free' = Taken(b), heap' = [heap EXCEPT ![b] = found],
             SetSlots(g, [s EXCEPT ![i].bits = b, ![i].card = Cardinality(found),
                                   ![i].owned = TRUE]),
             UNCHANGED <<pc, pos>>
      PROVE  Sane'
  <2> DEFINE e == [s[i] EXCEPT !.bits = b, !.card = Cardinality(found), !.owned = TRUE]
             t == [s EXCEPT ![i] = e]
  <2>1. b \in Bitmaps /\ b # NoBitmap
    BY GettableBitmaps, BitmapAssumption
  <2>2. e \in Entry /\ e.bits = b
    BY <1>2, <1>3, <2>1 DEF Entry
  <2>3. slots' = [slots EXCEPT ![g] = t]
    BY <1>2, <1>4 DEF SetSlots
  <2> HIDE DEF e
  <2>4. t \in Seq(Entry) /\ Len(t) = Len(s) /\ \A j \in DOMAIN s : t[j] = IF j = i THEN e ELSE s[j]
    BY <1>2, <2>2
  <2>5. t[1].bits # NoBitmap
    <3>1. 1 \in DOMAIN s
      BY <1>2
    <3> QED BY <1>2, <2>1, <2>2, <2>4, <3>1
  <2> HIDE DEF t
  <2>6. heap' \in [Bitmaps -> SUBSET Ids] /\ free' \in [Bitmaps -> Nat]
    BY <1>3, <1>4, <2>1, TakenType DEF Sane, TypeOK
  <2>7. pos' = [pos EXCEPT ![g] = i] /\ pc' = [pc EXCEPT ![g] = "operand"]
    BY <1>2, <1>4
  <2> QED BY <1>1, <1>2, <2>3, <2>4, <2>5, <2>6, <2>7, LoopSane
<1>5. CASE Abandon(g)
  BY <1>1, <1>5, AbandonSane
<1>6. \/ Abandon(g)
      \/ \E b \in Gettable :
           /\ free' = Taken(b) /\ heap' = [heap EXCEPT ![b] = found]
           /\ SetSlots(g, [s EXCEPT ![i].bits = b, ![i].card = Cardinality(found),
                                    ![i].owned = TRUE])
           /\ UNCHANGED <<pc, pos>>
  BY DEF MaterializeOperand, found
<1> QED BY <1>4, <1>5, <1>6

LEMMA SmallOperandSane ==
  ASSUME Sane, NEW g \in Goroutines, SmallOperand(g) PROVE Sane'
<1> DEFINE s == slots[g]
           i == pos[g]
           t == Swap(s, 1, i)
<1>1. /\ pc[g] = "operand" /\ pc[g] \in Looping /\ s[i].bits # NoBitmap
      /\ heap' = [heap EXCEPT ![cand[g]] = Bits(heap, s[i], asking[g])]
      /\ slots' = [slots EXCEPT ![g] = t] /\ pos' = [pos EXCEPT ![g] = 2]
      /\ pc' = [pc EXCEPT ![g] = "validate"]
      /\ UNCHANGED <<indexVars, free, view, cand, out>>
  BY DEF SmallOperand, Looping, SetSlots, Goto
<1>2. i \in 1..view[g]
  BY <1>1 DEF Sane, Layout
<1>3. s \in Seq(Entry) /\ i \in DOMAIN s /\ 1 \in DOMAIN s /\ s[i] \in Entry /\ 2 \in 2..(view[g] + 1)
  BY <1>1, <1>2, LoopFacts
<1>4. t \in Seq(Entry) /\ Len(t) = Len(s) /\ t[1] = s[i]
  <2>1. t \in Seq(Entry) /\ Len(t) = Len(s)
        /\ t[1] = IF 1 = i THEN s[1] ELSE IF 1 = 1 THEN s[i] ELSE s[1]
    BY <1>3, SwapType
  <2> QED BY <2>1
<1>5. Bits(heap, s[i], asking[g]) \subseteq Ids
  BY <1>1, <1>3, LoopFacts, BitsType
<1>6. heap' \in [Bitmaps -> SUBSET Ids] /\ free' \in [Bitmaps -> Nat]
  BY <1>1, <1>5 DEF Sane, TypeOK
<1>7. t[1].bits # NoBitmap
  BY <1>1, <1>4
<1> HIDE DEF t
<1> QED BY <1>1, <1>3, <1>4, <1>6, <1>7, LoopSane

LEMMA IntersectOperandSane ==
  ASSUME Sane, NEW g \in Goroutines, IntersectOperand(g) PROVE Sane'
<1> DEFINE s == slots[g]
           left == Current(g) \cap Bits(heap, s[pos[g]], asking[g])
<1>1. /\ pc[g] = "operand" /\ pc[g] \in Looping /\ s[pos[g]].bits # NoBitmap
      /\ UNCHANGED <<indexVars, view, cand, out>>
  BY DEF IntersectOperand, Looping
<1>2. /\ pos[g] \in 1..view[g] /\ pos[g] \in DOMAIN s /\ s \in Seq(Entry) /\ s[pos[g]] \in Entry
      /\ slots = [slots EXCEPT ![g] = s]
  <2>1. pos[g] \in 1..view[g]
    BY <1>1 DEF Sane, Layout
  <2> QED BY <1>1, <2>1, LoopFacts
<1>3. left \subseteq Ids
  <2>1. Bits(heap, s[pos[g]], asking[g]) \subseteq Ids
    BY <1>1, <1>2, LoopFacts, BitsType
  <2> QED BY <2>1
<1> HIDE DEF left
<1>4. ASSUME pos[g] = 1, pos' = [pos EXCEPT ![g] = 2], Goto(g, "intersect"),
             UNCHANGED <<poolVars, slots>>
      PROVE  Sane'
  <2>1. pc' = [pc EXCEPT ![g] = "intersect"] /\ s[1].bits # NoBitmap /\ slots' = [slots EXCEPT ![g] = s]
    BY <1>1, <1>2, <1>4 DEF Goto
  <2>2. heap' \in [Bitmaps -> SUBSET Ids] /\ free' \in [Bitmaps -> Nat]
    BY <1>4 DEF Sane, TypeOK, poolVars
  <2>3. 2 \in 1..(view[g] + 1) /\ 2 \in Nat
    BY <1>1, <1>2, LoopFacts
  <2> QED BY <1>1, <1>2, <1>4, <2>1, <2>2, <2>3, LoopSane
<1>5. ASSUME pos[g] > 1, heap' = [heap EXCEPT ![cand[g]] = left],
             NextOperand(g, Cardinality(left)), UNCHANGED <<free, slots>>
      PROVE  Sane'
  <2>1. heap' \in [Bitmaps -> SUBSET Ids]
    BY <1>3, <1>5 DEF Sane, TypeOK
  <2> QED BY <1>1, <1>5, <2>1, NextOperandSane
<1>6. CASE Abandon(g)
  BY <1>1, <1>6, AbandonSane
<1> QED BY <1>4, <1>5, <1>6 DEF IntersectOperand, left

LEMMA EndIntersectionSane ==
  ASSUME Sane, NEW g \in Goroutines, EndIntersection(g) PROVE Sane'
<1> DEFINE s == slots[g]
           copied == heap[cand[g]] \cup Bits(heap, s[1], asking[g])
<1>1. /\ pc[g] = "intersect" /\ pc[g] \in Looping /\ pos[g] > view[g]
      /\ heap' = IF view[g] # 1 THEN heap ELSE [heap EXCEPT ![cand[g]] = copied]
      /\ pc' = [pc EXCEPT ![g] = "append"]
      /\ UNCHANGED <<indexVars, free, slots, view, pos, cand, out>>
  BY DEF EndIntersection, Looping, Goto
<1>2. /\ s \in Seq(Entry) /\ s[1] \in Entry /\ s[1].bits # NoBitmap /\ pos[g] \in Nat
      /\ slots' = [slots EXCEPT ![g] = s] /\ pos' = [pos EXCEPT ![g] = pos[g]]
      /\ cand[g] \in Bitmaps
  BY <1>1, LoopFacts
<1>3. copied \subseteq Ids
  <2>1. Bits(heap, s[1], asking[g]) \subseteq Ids
    BY <1>1, <1>2, LoopFacts, BitsType
  <2> QED BY <1>2, <2>1 DEF Sane, TypeOK
<1> HIDE DEF copied
<1>4. heap' \in [Bitmaps -> SUBSET Ids] /\ free' \in [Bitmaps -> Nat]
  BY <1>1, <1>3 DEF Sane, TypeOK
<1> QED BY <1>1, <1>2, <1>4, LoopSane

LEMMA ValidateCandidatesSane ==
  ASSUME Sane, NEW g \in Goroutines, ValidateCandidates(g) PROVE Sane'
<1>1. /\ pc[g] = "validate" /\ pc[g] \in Looping
      /\ UNCHANGED <<indexVars, free, slots, view, pos, cand, out>>
  BY DEF ValidateCandidates, Looping
<1>2. heap' \in [Bitmaps -> SUBSET Ids] /\ free' \in [Bitmaps -> Nat]
  <2>1. PICK b \in Bitmaps : \E accepted \in SUBSET Ids :
          heap' = IF b = cand[g] THEN [heap EXCEPT ![b] = {}]
                  ELSE [[heap EXCEPT ![b] = {}] EXCEPT ![cand[g]] = accepted]
    <3>1. \A b \in Bitmaps : [heap EXCEPT ![b] = {}][cand[g]] \subseteq Ids
      BY <1>1, LoopFacts
    <3> QED BY <3>1, GettableBitmaps DEF ValidateCandidates
  <2> QED BY <1>1, <2>1 DEF Sane, TypeOK
<1>3. PICK p \in {"failed", "append"} : pc' = [pc EXCEPT ![g] = p]
  BY DEF ValidateCandidates, Goto
<1>4. /\ slots[g] \in Seq(Entry) /\ slots[g][1].bits # NoBitmap /\ pos[g] \in Nat
      /\ slots' = [slots EXCEPT ![g] = slots[g]] /\ pos' = [pos EXCEPT ![g] = pos[g]]
  <2>1. pos[g] # 1
    BY <1>1 DEF Sane, Layout
  <2> QED BY <1>1, <2>1, LoopFacts
<1> QED BY <1>1, <1>2, <1>3, <1>4, LoopSane

LEMMA AppendMatchesSane ==
  ASSUME Sane, NEW g \in Goroutines, AppendMatches(g) PROVE Sane'
<1> DEFINE s == slots[g]
<1>1. /\ pc[g] = "append" /\ pc' = [pc EXCEPT ![g] = "release"]
      /\ UNCHANGED <<indexVars, poolVars, slots, view, pos, cand>>
  BY DEF AppendMatches, Goto
<1>2. /\ s \in Seq(Entry) /\ s[1] \in Entry /\ s[1].bits # NoBitmap /\ asking[g] \in Queries
      /\ ix \in Indexes /\ (Broad(g) => cand[g] \in Bitmaps)
  <2>1. s \in Seq(Entry) /\ view[g] \in 1..Len(s) /\ Len(s) \in Nat
    BY <1>1, FrameFacts DEF Layout, Active
  <2>2. 1 \in DOMAIN s
    BY <2>1
  <2> QED BY <1>1, <2>1, <2>2, FrameFacts DEF Layout
<1>3. PICK content \in SUBSET Ids : out' = [out EXCEPT ![g] = content]
  <2>1. PICK b \in Bitmaps :
          LET h == IF ix.excluded[asking[g]] = {} \/ ~Broad(g) THEN heap
                   ELSE [heap EXCEPT ![b] = ix.excluded[asking[g]]]
          IN out' = [out EXCEPT ![g] = (IF Broad(g) THEN h[cand[g]]
               ELSE {id \in Bits(h, s[1], asking[g]) :
                      \A i \in 2..Len(s) : Accepts(h, s[i], asking[g], id)})
               \ ix.excluded[asking[g]]]
    BY GettableBitmaps DEF AppendMatches
  <2> DEFINE h == IF ix.excluded[asking[g]] = {} \/ ~Broad(g) THEN heap
                  ELSE [heap EXCEPT ![b] = ix.excluded[asking[g]]]
             content == (IF Broad(g) THEN h[cand[g]]
               ELSE {id \in Bits(h, s[1], asking[g]) :
                      \A i \in 2..Len(s) : Accepts(h, s[i], asking[g], id)})
               \ ix.excluded[asking[g]]
  <2>2. h \in [Bitmaps -> SUBSET Ids]
    BY <1>2, IndexType DEF Sane, TypeOK
  <2>3. Bits(h, s[1], asking[g]) \subseteq Ids
    <3> HIDE DEF h
    <3> QED BY <1>2, <2>2, BitsType
  <2>4. content \subseteq Ids
    <3> HIDE DEF h
    <3> QED BY <1>2, <2>2, <2>3
  <2>5. out' = [out EXCEPT ![g] = content]
    BY <2>1
  <2> QED BY <2>4, <2>5
<1>4. TypeOK'
  BY <1>1, <1>3 DEF Sane, TypeOK, Phases, indexVars, poolVars
<1>5. \A h \in Goroutines \ {g} : UNCHANGED <<ix, asking[h], Frame(h)>>
  BY <1>1, <1>3 DEF Sane, TypeOK, Frame, indexVars
<1>6. pc'[g] = "release" /\ asking[g] # NoQuery
  BY <1>1, <1>2, SentinelAssumption DEF Sane, TypeOK
<1>7. Layout(g)'
  BY <1>1, <1>6 DEF Layout, Active, Looping, indexVars
<1> QED BY <1>4, <1>5, <1>7, LayoutElsewhere DEF Sane

LEMMA ReleaseSane ==
  ASSUME Sane, NEW g \in Goroutines, Release(g) PROVE Sane'
<1> DEFINE s == slots[g]
<1>1. /\ pc[g] \in {"release", "failed"} /\ pc' = [pc EXCEPT ![g] = "idle"]
      /\ answer' = [answer EXCEPT ![g] = out[g]] /\ asking' = [asking EXCEPT ![g] = NoQuery]
      /\ slots' = [slots EXCEPT ![g] = <<>>] /\ view' = [view EXCEPT ![g] = 0]
      /\ pos' = [pos EXCEPT ![g] = 0] /\ cand' = [cand EXCEPT ![g] = NoBitmap]
      /\ out' = [out EXCEPT ![g] = {}] /\ UNCHANGED ix
  BY DEF Release, Goto, SetSlots
<1>2. PICK more : PutAll(s, OwnedIn(s, Len(s)), more)
  BY DEF Release
<1>3. s \in Seq(Entry) /\ Len(s) \in Nat
  BY DEF Sane, TypeOK
<1>4. \A b : Puts(s, OwnedIn(s, Len(s)), more, b) \in Nat
  BY <1>3, PutsType
<1>5. heap' \in [Bitmaps -> SUBSET Ids] /\ free' \in [Bitmaps -> Nat]
  BY <1>2, <1>4 DEF Sane, TypeOK, PutAll
<1>6. TypeOK'
  BY <1>1, <1>5 DEF Sane, TypeOK, Phases
<1>7. \A h \in Goroutines \ {g} : UNCHANGED <<ix, asking[h], Frame(h)>>
  BY <1>1 DEF Sane, TypeOK, Frame
<1>8. /\ pc'[g] = "idle" /\ asking'[g] = NoQuery /\ slots'[g] = <<>> /\ view'[g] = 0
      /\ cand'[g] = NoBitmap /\ out'[g] = {}
  BY <1>1 DEF Sane, TypeOK
<1>9. Layout(g)'
  BY <1>8 DEF Layout, Active, Looping
<1> QED BY <1>6, <1>7, <1>9, LayoutElsewhere DEF Sane

LEMMA ForgetSane ==
  ASSUME Sane, NEW b \in Bitmaps, Forget(b) PROVE Sane'
<1>1. TypeOK'
  BY TakenType DEF Forget, Sane, TypeOK, indexVars, frameVars
<1>2. \A h \in Goroutines : UNCHANGED <<ix, asking[h], Frame(h)>>
  BY DEF Forget, Frame, indexVars, frameVars
<1> QED BY <1>1, <1>2, LayoutElsewhere DEF Sane

LEMMA SaneStep == Sane /\ [Next]_vars => Sane'
<1> SUFFICES ASSUME Sane, [Next]_vars PROVE Sane'
  OBVIOUS
<1>1. CASE UNCHANGED vars
  <2>1. TypeOK'
    BY <1>1 DEF vars, indexVars, poolVars, frameVars, Sane, TypeOK
  <2>2. \A h \in Goroutines : UNCHANGED <<ix, asking[h], Frame(h)>>
    BY <1>1 DEF vars, indexVars, frameVars, Frame
  <2> QED BY <2>1, <2>2, LayoutElsewhere DEF Sane
<1>2. ASSUME NEW g \in Goroutines, NEW q \in Queries, Begin(g, q) PROVE Sane'
  BY <1>2, BeginSane
<1>3. ASSUME NEW g \in Goroutines, Step(g) PROVE Sane'
  BY <1>3, RankEmptySane, RankSane, MaterializeFirstSane, GetCandidatesSane, CollectGroupSane,
     CompactGroupsSane, ChooseOperandSane, FilterOperandSane, MaterializeOperandSane,
     SmallOperandSane, IntersectOperandSane, EndIntersectionSane, ValidateCandidatesSane,
     AppendMatchesSane, ReleaseSane DEF Step
<1>4. ASSUME NEW b \in Bitmaps, Forget(b) PROVE Sane'
  BY <1>4, ForgetSane
<1> QED BY <1>1, <1>2, <1>3, <1>4 DEF Next

LEMMA AlwaysSane == Spec => []Sane
<1> QED BY InitSane, SaneStep, PTL DEF Spec

(* Frames, pool and bitmaps hold what the code declares them to hold,       *)
(* whatever the searches do.                                                *)
THEOREM SearchTypeCorrect == Spec => []TypeOK
<1>1. Sane => TypeOK
  BY DEF Sane
<1> QED BY <1>1, AlwaysSane, PTL

-----------------------------------------------------------------------------
(* Who owns which scratch bitmap.                                          *)

Holds(s, b) == \E i \in DOMAIN s : s[i].owned /\ s[i].bits = b
Owned(g, b) == cand[g] = b \/ Holds(slots[g], b)

(* A bitmap is in the pool at most once, and only when nobody owns it.     *)
Pool ==
  /\ \A b \in Bitmaps : free[b] =< 1
  /\ \A b \in Bitmaps, g \in Goroutines : Owned(g, b) => free[b] = 0
  /\ \A b \in Bitmaps, g, h \in Goroutines : Owned(g, b) /\ Owned(h, b) => g = h

(* The owners in one slice own different bitmaps, none the candidates'.    *)
Single(s, c) ==
  /\ \A i \in DOMAIN s : s[i].owned => s[i].bits \in Bitmaps \ {c}
  /\ \A i, j \in DOMAIN s : s[i].owned /\ s[j].owned /\ s[i].bits = s[j].bits => i = j

(* Every scratch bitmap an entry reads is owned by an entry of the slice.  *)
Backed(s) == \A i \in DOMAIN s : s[i].bits \in Bitmaps => Holds(s, s[i].bits)

Scratch(g) ==
  /\ Single(slots[g], cand[g])
  /\ pc[g] \in Active => Backed(slots[g])
  /\ pc[g] = "collect" =>
       \A i \in DOMAIN slots[g] : slots[g][i].owned =>
         Grouped(slots[g][i].child) /\ FirstOfGroup(slots[g], i)

Exclusive == Pool /\ \A g \in Goroutines : Scratch(g)

(* The hypothesis of what follows: all children that share a wildcard       *)
(* posting with another child share the same one.  TwoGroups shows what     *)
(* CompactGroups does to the bitmaps of a second group.                     *)
SharesIn(index, c, d) ==
  /\ c \in index.equality /\ d \in index.equality
  /\ index.wild[c] = index.wild[d] /\ index.wild[c] # {}
OneSharedWildcard ==
  \A index \in Indexes, c, d, e, f \in Children :
    c # d /\ SharesIn(index, c, d) /\ e # f /\ SharesIn(index, e, f) => SharesIn(index, c, e)

LEMMA OneGroup ==
  ASSUME OneSharedWildcard, ix \in Indexes, NEW c \in Children, NEW d \in Children,
         Grouped(c), Grouped(d)
  PROVE  SharedWildcard(c, d)
<1>1. PICK cc \in Children \ {c} : SharesIn(ix, c, cc)
  BY DEF Grouped, SharedWildcard, Equality, SharesIn
<1>2. PICK dd \in Children \ {d} : SharesIn(ix, d, dd)
  BY DEF Grouped, SharedWildcard, Equality, SharesIn
<1>3. SharesIn(ix, c, d)
  BY <1>1, <1>2 DEF OneSharedWildcard
<1> QED BY <1>3 DEF SharedWildcard, Equality, SharesIn

-----------------------------------------------------------------------------
(* What happens to owners when a slice changes.                            *)

LEMMA SwapHolds ==
  ASSUME NEW s \in Seq(Entry), NEW i \in DOMAIN s, NEW j \in DOMAIN s
  PROVE  \A b : Holds(Swap(s, i, j), b) <=> Holds(s, b)
<1> DEFINE t == Swap(s, i, j)
<1>1. DOMAIN t = DOMAIN s /\ \A k \in DOMAIN s : t[k] = IF k = j THEN s[i] ELSE IF k = i THEN s[j] ELSE s[k]
  BY SwapType
<1> HIDE DEF t
<1>2. ASSUME NEW b, NEW k \in DOMAIN s, s[k].owned, s[k].bits = b PROVE Holds(t, b)
  <2>1. CASE k = i
    BY <1>1, <1>2, <2>1 DEF Holds
  <2>2. CASE k = j
    BY <1>1, <1>2, <2>2 DEF Holds
  <2>3. CASE k # i /\ k # j
    BY <1>1, <1>2, <2>3 DEF Holds
  <2> QED BY <2>1, <2>2, <2>3
<1>3. ASSUME NEW b, NEW k \in DOMAIN t, t[k].owned, t[k].bits = b PROVE Holds(s, b)
  BY <1>1, <1>3 DEF Holds
<1>4. \A b : Holds(t, b) <=> Holds(s, b)
  BY <1>2, <1>3 DEF Holds
<1> QED BY <1>4 DEF t

LEMMA SwapSingle ==
  ASSUME NEW s \in Seq(Entry), NEW i \in DOMAIN s, NEW j \in DOMAIN s, NEW c, Single(s, c)
  PROVE  Single(Swap(s, i, j), c)
<1> DEFINE t == Swap(s, i, j)
<1>1. DOMAIN t = DOMAIN s /\ \A k \in DOMAIN s : t[k] = IF k = j THEN s[i] ELSE IF k = i THEN s[j] ELSE s[k]
  BY SwapType
<1> HIDE DEF t
<1>2. \A k \in DOMAIN t : t[k].owned => t[k].bits \in Bitmaps \ {c}
  BY <1>1 DEF Single
<1>3. ASSUME NEW k \in DOMAIN s, NEW l \in DOMAIN s, t[k].owned, t[l].owned, t[k].bits = t[l].bits
      PROVE  k = l
  BY <1>1, <1>3 DEF Single
<1>4. Single(t, c)
  BY <1>1, <1>2, <1>3 DEF Single
<1> QED BY <1>4 DEF t

LEMMA SwapBacked ==
  ASSUME NEW s \in Seq(Entry), NEW i \in DOMAIN s, NEW j \in DOMAIN s, Backed(s)
  PROVE  Backed(Swap(s, i, j))
<1> DEFINE t == Swap(s, i, j)
<1>1. DOMAIN t = DOMAIN s /\ \A k \in DOMAIN s : t[k] = IF k = j THEN s[i] ELSE IF k = i THEN s[j] ELSE s[k]
  BY SwapType
<1>2. \A b : Holds(t, b) <=> Holds(s, b)
  BY SwapHolds
<1> HIDE DEF t
<1>3. Backed(t)
  BY <1>1, <1>2 DEF Backed
<1> QED BY <1>3 DEF t

LEMMA TakeSlots ==
  ASSUME NEW s \in Seq(Entry), NEW t \in Seq(Entry), NEW M, NEW i, NEW b \in Bitmaps,
         Takes(s, t, M, i, b), NEW c, Single(s, c), b # c, ~Holds(s, b)
  PROVE  /\ Single(t, c)
         /\ Backed(s) => Backed(t)
         /\ \A x \in Bitmaps : Holds(t, x) => x = b \/ Holds(s, x)
<1>0. /\ \A k \in M : k \in DOMAIN s /\ s[k].bits = NoBitmap /\ t[k].bits = b
                       /\ (t[k].owned <=> k = i)
      /\ \A k \in DOMAIN s \ M : t[k].bits = s[k].bits /\ (t[k].owned <=> s[k].owned)
      /\ i \in M
  BY DEF Takes
<1>1. DOMAIN t = DOMAIN s
  BY DEF Takes
<1>2. \A k \in DOMAIN s : t[k].owned =>
        \/ k = i /\ t[k].bits = b
        \/ k # i /\ k \notin M /\ s[k].owned /\ t[k].bits = s[k].bits
  BY <1>0
<1>3. \A k \in DOMAIN t : t[k].owned => t[k].bits \in Bitmaps \ {c}
  BY <1>0, <1>1, <1>2 DEF Single
<1>4. ASSUME NEW k \in DOMAIN t, NEW l \in DOMAIN t, t[k].owned, t[l].owned, t[k].bits = t[l].bits
      PROVE  k = l
  <2>1. CASE k = i /\ l # i
    BY <1>0, <1>1, <1>2, <1>4, <2>1 DEF Holds
  <2>2. CASE k # i /\ l = i
    BY <1>0, <1>1, <1>2, <1>4, <2>2 DEF Holds
  <2>3. CASE k # i /\ l # i
    BY <1>0, <1>1, <1>2, <1>4, <2>3 DEF Single
  <2> QED BY <2>1, <2>2, <2>3
<1>5. \A x \in Bitmaps : Holds(t, x) => x = b \/ Holds(s, x)
  BY <1>0, <1>1, <1>2 DEF Holds
<1>6. ASSUME Backed(s), NEW k \in DOMAIN t, t[k].bits \in Bitmaps PROVE Holds(t, t[k].bits)
  <2>1. CASE k \in M
    BY <1>0, <1>1, <2>1 DEF Holds
  <2>2. CASE k \notin M
    <3>1. PICK l \in DOMAIN s : s[l].owned /\ s[l].bits = s[k].bits
      BY <1>0, <1>1, <1>6, <2>2 DEF Backed, Holds
    <3>2. l \notin M
      BY <1>0, <1>1, <1>6, <2>2, <3>1, BitmapAssumption
    <3> QED BY <1>0, <1>1, <2>2, <3>1, <3>2 DEF Holds
  <2> QED BY <2>1, <2>2
<1> QED BY <1>3, <1>4, <1>5, <1>6 DEF Single, Backed

-----------------------------------------------------------------------------
(* What happens to the pool.                                               *)

(* The pool never hands out a bitmap somebody owns.                        *)
LEMMA GettableFree ==
  ASSUME Pool, NEW b \in Gettable, free \in [Bitmaps -> Nat]
  PROVE  b \in Bitmaps /\ (\A g \in Goroutines : ~Owned(g, b)) /\ (free[b] = 0 \/ free[b] = 1)
<1>1. b \in Bitmaps
  BY GettableBitmaps
<1>2. free[b] > 0 \/ Fresh(b)
  BY DEF Gettable
<1>3. free[b] \in Nat /\ free[b] =< 1
  BY <1>1 DEF Pool
<1>4. ASSUME NEW g \in Goroutines, Owned(g, b) PROVE FALSE
  <2>1. free[b] = 0
    BY <1>1, <1>4 DEF Pool
  <2>2. b \notin Refs(g)
    BY <1>2, <2>1 DEF Fresh
  <2> QED BY <1>4, <2>2 DEF Refs, Owned, Holds
<1> QED BY <1>1, <1>3, <1>4

LEMMA PoolTake ==
  ASSUME Pool, free \in [Bitmaps -> Nat], NEW g \in Goroutines, NEW b \in Gettable,
         free' = Taken(b),
         \A h \in Goroutines \ {g}, x \in Bitmaps : Owned(h, x)' => Owned(h, x),
         \A x \in Bitmaps : Owned(g, x)' => x = b \/ Owned(g, x)
  PROVE  Pool'
<1>1. b \in Bitmaps /\ (\A h \in Goroutines : ~Owned(h, b)) /\ (free[b] = 0 \/ free[b] = 1)
  BY GettableFree
<1>2. \A x \in Bitmaps : free'[x] = IF x = b THEN 0 ELSE free[x]
  BY <1>1 DEF Taken
<1>3. \A x \in Bitmaps, h \in Goroutines : Owned(h, x)' => (x = b /\ h = g) \/ (x # b /\ Owned(h, x))
  BY <1>1
<1>4. \A x \in Bitmaps : free'[x] =< 1
  BY <1>2 DEF Pool
<1>5. \A x \in Bitmaps, h \in Goroutines : Owned(h, x)' => free'[x] = 0
  BY <1>2, <1>3 DEF Pool
<1>6. \A x \in Bitmaps, h, k \in Goroutines : Owned(h, x)' /\ Owned(k, x)' => h = k
  BY <1>3 DEF Pool
<1> QED BY <1>4, <1>5, <1>6 DEF Pool

LEMMA PoolSame ==
  ASSUME Pool, UNCHANGED free, \A h \in Goroutines, x \in Bitmaps : Owned(h, x)' => Owned(h, x)
  PROVE  Pool'
BY DEF Pool

(* The bitmaps put by the first n entries of a slice, and those of `more`. *)
PutBy(s, n, more, b) == b \in more \/ \E i \in 1..n : s[i].owned /\ s[i].bits = b

(* The owners of one slice put each of their bitmaps once.                 *)
LEMMA PutsOnce ==
  ASSUME NEW s \in Seq(Entry), NEW c, Single(s, c), NEW n \in Nat, n =< Len(s),
         NEW more \in SUBSET {c}, NEW b \in Bitmaps
  PROVE  /\ Puts(s, OwnedIn(s, n), more, b) \in {0, 1}
         /\ Puts(s, OwnedIn(s, n), more, b) # 0 <=> PutBy(s, n, more, b)
<1> DEFINE put == {i \in OwnedIn(s, n) : s[i].bits = b}
<1>1. put = {i \in 1..n : s[i].owned /\ s[i].bits = b} /\ 1..n \subseteq DOMAIN s
  BY DEF OwnedIn
<1>2. CASE put = {}
  <2>1. Cardinality(put) = 0
    BY <1>2, FS_EmptySet
  <2> QED BY <1>1, <1>2, <2>1 DEF Puts, PutBy
<1>3. CASE put # {}
  <2>1. PICK i : i \in put
    BY <1>3
  <2>2. put = {i}
    BY <1>1, <2>1 DEF Single
  <2>3. Cardinality(put) = 1
    BY <2>2, FS_Singleton
  <2>4. b \notin more
    BY <1>1, <2>1 DEF Single
  <2> QED BY <1>1, <2>1, <2>3, <2>4 DEF Puts, PutBy
<1> QED BY <1>2, <1>3

LEMMA PoolPut ==
  ASSUME Pool, free \in [Bitmaps -> Nat], NEW g \in Goroutines, Single(slots[g], cand[g]),
         slots[g] \in Seq(Entry), NEW n \in Nat, n =< Len(slots[g]),
         NEW more \in SUBSET {cand[g]},
         PutAll(slots[g], OwnedIn(slots[g], n), more),
         \A h \in Goroutines \ {g}, x \in Bitmaps : Owned(h, x)' => Owned(h, x),
         \A x \in Bitmaps : Owned(g, x)' => Owned(g, x) /\ ~PutBy(slots[g], n, more, x)
  PROVE  /\ Pool'
         /\ \A x \in Bitmaps : heap'[x] # heap[x] => Owned(g, x)
<1> DEFINE count(x) == Puts(slots[g], OwnedIn(slots[g], n), more, x)
<1>1. ASSUME NEW x \in Bitmaps
      PROVE  count(x) \in {0, 1} /\ (count(x) # 0 <=> PutBy(slots[g], n, more, x))
  BY PutsOnce
<1>2. \A x \in Bitmaps : count(x) # 0 => Owned(g, x) /\ ~Owned(g, x)'
  <2>1. \A x \in Bitmaps : PutBy(slots[g], n, more, x) => Owned(g, x)
    BY DEF PutBy, Owned, Holds
  <2>2. \A x \in Bitmaps : PutBy(slots[g], n, more, x) => ~Owned(g, x)'
    OBVIOUS
  <2> QED BY <1>1, <2>1, <2>2
<1>3. \A x \in Bitmaps : free'[x] = free[x] + count(x)
                         /\ heap'[x] = IF count(x) > 0 THEN {} ELSE heap[x]
  BY DEF PutAll
<1> HIDE DEF count
<1>4. ASSUME NEW x \in Bitmaps PROVE free'[x] =< 1
  <2>1. free[x] \in Nat /\ free[x] =< 1 /\ (count(x) # 0 => free[x] = 0)
    BY <1>2 DEF Pool
  <2> QED BY <1>1, <1>3, <2>1
<1>5. ASSUME NEW x \in Bitmaps, NEW h \in Goroutines, Owned(h, x)' PROVE Owned(h, x) /\ count(x) = 0
  <2>1. CASE h = g
    BY <1>2, <1>5, <2>1
  <2>2. CASE h # g
    <3>1. Owned(h, x)
      BY <1>5, <2>2
    <3>2. ~Owned(g, x)
      BY <2>2, <3>1 DEF Pool
    <3> QED BY <1>2, <3>1, <3>2
  <2> QED BY <2>1, <2>2
<1>6. ASSUME NEW x \in Bitmaps, NEW h \in Goroutines, Owned(h, x)' PROVE free'[x] = 0
  <2>1. free[x] = 0 /\ count(x) = 0
    BY <1>5, <1>6 DEF Pool
  <2>2. free'[x] = free[x] + count(x)
    BY <1>3
  <2> QED BY <2>1, <2>2
<1>7. \A x \in Bitmaps, h, k \in Goroutines : Owned(h, x)' /\ Owned(k, x)' => h = k
  BY <1>5 DEF Pool
<1>8. \A x \in Bitmaps : heap'[x] # heap[x] => Owned(g, x)
  BY <1>1, <1>2, <1>3
<1> QED BY <1>4, <1>6, <1>7, <1>8 DEF Pool

(* A step of one goroutine leaves what the others own alone.               *)
LEMMA OwnedElsewhere ==
  ASSUME NEW h \in Goroutines, UNCHANGED Frame(h)
  PROVE  \A b : Owned(h, b)' <=> Owned(h, b)
BY DEF Owned, Holds, Frame

LEMMA ScratchElsewhere ==
  ASSUME NEW h \in Goroutines, Scratch(h), UNCHANGED <<ix, Frame(h)>>
  PROVE  Scratch(h)'
BY DEF Scratch, Frame, Single, Backed, Holds, Grouped, FirstOfGroup, SharedWildcard, Equality

LEMMA StepElsewhere ==
  ASSUME Sane, NEW g \in Goroutines, Step(g) \/ \E q \in Queries : Begin(g, q)
  PROVE  ix' = ix /\ \A h \in Goroutines \ {g} : UNCHANGED <<asking[h], Frame(h)>>
<1>0. /\ asking \in [Goroutines -> Queries \cup {NoQuery}] /\ pc \in [Goroutines -> Phases]
      /\ slots \in [Goroutines -> Seq(Entry)] /\ view \in [Goroutines -> Nat]
      /\ pos \in [Goroutines -> Nat] /\ cand \in [Goroutines -> Bitmaps \cup {NoBitmap}]
      /\ out \in [Goroutines -> SUBSET Ids]
  BY DEF Sane, TypeOK
<1>1. ASSUME NEW q \in Queries, Begin(g, q)
      PROVE  ix' = ix /\ \A h \in Goroutines \ {g} : UNCHANGED <<asking[h], Frame(h)>>
  BY <1>0, <1>1 DEF Begin, Ask, Goto, Frame
<1>2. ASSUME \/ RankEmpty(g) \/ Rank(g) \/ MaterializeFirst(g) \/ GetCandidates(g)
             \/ CollectGroup(g) \/ CompactGroups(g)
      PROVE  ix' = ix /\ \A h \in Goroutines \ {g} : UNCHANGED <<asking[h], Frame(h)>>
  <2>1. CASE RankEmpty(g)
    BY <1>0, <2>1 DEF RankEmpty, Goto, Frame, indexVars
  <2>2. CASE Rank(g)
    BY <1>0, <2>2 DEF Rank, Goto, SetSlots, Frame, indexVars
  <2>3. CASE MaterializeFirst(g)
    BY <1>0, <2>3 DEF MaterializeFirst, Goto, SetSlots, Frame, indexVars
  <2>4. CASE GetCandidates(g)
    BY <1>0, <2>4 DEF GetCandidates, Goto, Frame, indexVars
  <2>5. CASE CollectGroup(g)
    BY <1>0, <2>5 DEF CollectGroup, SetSlots, Frame, indexVars
  <2>6. CASE CompactGroups(g)
    BY <1>0, <2>6 DEF CompactGroups, Goto, SetSlots, Frame, indexVars
  <2> QED BY <1>2, <2>1, <2>2, <2>3, <2>4, <2>5, <2>6
<1>3. ASSUME NextOperand(g, Cardinality(Current(g))), UNCHANGED <<indexVars, slots, view, cand, out>>
      PROVE  ix' = ix /\ \A h \in Goroutines \ {g} : UNCHANGED <<asking[h], Frame(h)>>
  BY <1>0, <1>3 DEF NextOperand, Goto, Frame, indexVars
<1>4. ASSUME Abandon(g), UNCHANGED <<indexVars, view, cand, out>>
      PROVE  ix' = ix /\ \A h \in Goroutines \ {g} : UNCHANGED <<asking[h], Frame(h)>>
  BY <1>0, <1>4 DEF Abandon, SetSlots, Goto, Frame, indexVars
<1>5. ASSUME \/ ChooseOperand(g) \/ FilterOperand(g) \/ MaterializeOperand(g)
             \/ SmallOperand(g) \/ IntersectOperand(g) \/ EndIntersection(g)
      PROVE  ix' = ix /\ \A h \in Goroutines \ {g} : UNCHANGED <<asking[h], Frame(h)>>
  <2>1. CASE ChooseOperand(g)
    BY <1>0, <2>1 DEF ChooseOperand, Goto, SetSlots, Frame, indexVars
  <2>2. CASE FilterOperand(g)
    BY <1>0, <2>2 DEF FilterOperand, NextOperand, Goto, Frame, indexVars
  <2>3. CASE MaterializeOperand(g)
    BY <1>0, <1>4, <2>3 DEF MaterializeOperand, SetSlots, Frame, indexVars
  <2>4. CASE SmallOperand(g)
    BY <1>0, <2>4 DEF SmallOperand, Goto, SetSlots, Frame, indexVars
  <2>5. CASE IntersectOperand(g)
    BY <1>0, <1>4, <2>5 DEF IntersectOperand, NextOperand, Goto, Frame, indexVars
  <2>6. CASE EndIntersection(g)
    BY <1>0, <2>6 DEF EndIntersection, Goto, Frame, indexVars
  <2> QED BY <1>5, <2>1, <2>2, <2>3, <2>4, <2>5, <2>6
<1>6. CASE ValidateCandidates(g)
  BY <1>0, <1>6 DEF ValidateCandidates, Goto, Frame, indexVars
<1>7. CASE AppendMatches(g)
  BY <1>0, <1>7 DEF AppendMatches, Goto, Frame, indexVars
<1>8. CASE Release(g)
  BY <1>0, <1>8 DEF Release, Goto, SetSlots, Frame
<1> QED BY <1>1, <1>2, <1>5, <1>6, <1>7, <1>8 DEF Step

(* It is enough to look at the pool and at the goroutine that moves.       *)
LEMMA ExclusiveBy ==
  ASSUME Exclusive, NEW g \in Goroutines, ix' = ix,
         \A h \in Goroutines \ {g} : UNCHANGED Frame(h), Pool', Scratch(g)'
  PROVE  Exclusive'
BY ScratchElsewhere DEF Exclusive

LEMMA KeepExclusive ==
  ASSUME Exclusive, NEW g \in Goroutines, UNCHANGED <<ix, free, slots, cand>>,
         \A h \in Goroutines \ {g} : UNCHANGED Frame(h),
         pc'[g] \in Active => pc[g] \in Active, pc'[g] # "collect"
  PROVE  Exclusive'
<1>1. Pool'
  BY PoolSame DEF Exclusive, Owned, Holds
<1>2. Scratch(g)'
  BY DEF Exclusive, Scratch, Single, Backed, Holds
<1> QED BY <1>1, <1>2, ExclusiveBy

(* An operand moves inside the slice.                                      *)
LEMMA MoveExclusive ==
  ASSUME Sane, Exclusive, NEW g \in Goroutines, UNCHANGED <<ix, free, cand>>,
         \A h \in Goroutines \ {g} : UNCHANGED Frame(h),
         NEW i \in DOMAIN slots[g], NEW j \in DOMAIN slots[g],
         slots' = [slots EXCEPT ![g] = Swap(slots[g], i, j)],
         pc[g] \in Active, pc'[g] # "collect"
  PROVE  Exclusive'
<1> DEFINE s == slots[g]
           t == Swap(s, i, j)
<1>1. s \in Seq(Entry) /\ slots'[g] = t
  BY DEF Sane, TypeOK
<1>2. (\A b : Holds(t, b) <=> Holds(s, b)) /\ Single(t, cand[g]) /\ Backed(t)
  BY <1>1, SwapHolds, SwapSingle, SwapBacked DEF Exclusive, Scratch
<1> HIDE DEF t
<1>3. \A b : Owned(g, b)' <=> Owned(g, b)
  BY <1>1, <1>2 DEF Owned
<1>4. Pool'
  BY <1>3, PoolSame, OwnedElsewhere DEF Exclusive
<1>5. Scratch(g)'
  BY <1>1, <1>2 DEF Scratch
<1> QED BY <1>4, <1>5, ExclusiveBy

(* Entries M of the slice, none of which reads a bitmap, take bitmap b.    *)
LEMMA TakeExclusive ==
  ASSUME Sane, Exclusive, NEW g \in Goroutines, UNCHANGED <<ix, cand>>,
         \A h \in Goroutines \ {g} : UNCHANGED Frame(h),
         NEW b \in Gettable, free' = Taken(b),
         NEW t \in Seq(Entry), slots' = [slots EXCEPT ![g] = t],
         NEW M, NEW i, Takes(slots[g], t, M, i, b),
         pc[g] \in Active,
         pc'[g] = "collect" => \A k \in DOMAIN t : t[k].owned =>
           Grouped(t[k].child) /\ FirstOfGroup(t, k)
  PROVE  Exclusive' /\ \A h \in Goroutines : ~Owned(h, b)
<1> DEFINE s == slots[g]
<1>1. s \in Seq(Entry) /\ slots'[g] = t /\ free \in [Bitmaps -> Nat]
  BY DEF Sane, TypeOK
<1>2. b \in Bitmaps /\ \A h \in Goroutines : ~Owned(h, b)
  BY <1>1, GettableFree DEF Exclusive
<1>3. b # cand[g] /\ ~Holds(s, b) /\ Single(s, cand[g]) /\ Backed(s)
  BY <1>2 DEF Owned, Exclusive, Scratch
<1>4. /\ Single(t, cand[g]) /\ Backed(t)
      /\ \A x \in Bitmaps : Holds(t, x) => x = b \/ Holds(s, x)
  <2> DEFINE c == cand[g]
  <2>1. Takes(s, t, M, i, b) /\ Single(s, c) /\ Backed(s) /\ b # c
    BY <1>3
  <2> HIDE DEF s, c
  <2>2. Single(t, c) /\ Backed(t) /\ \A x \in Bitmaps : Holds(t, x) => x = b \/ Holds(s, x)
    BY <1>1, <1>2, <1>3, <2>1, TakeSlots
  <2> QED BY <2>2 DEF s, c
<1>5. \A x \in Bitmaps : Owned(g, x)' => x = b \/ Owned(g, x)
  BY <1>1, <1>4 DEF Owned
<1>6. Pool'
  <2>1. \A h \in Goroutines \ {g}, x \in Bitmaps : Owned(h, x)' => Owned(h, x)
    BY OwnedElsewhere
  <2>2. Pool
    BY DEF Exclusive
  <2> QED BY <1>1, <1>5, <2>1, <2>2, PoolTake
<1>7. Scratch(g)'
  <2>1. Single(slots[g], cand[g])' /\ Backed(slots[g])'
    BY <1>1, <1>4 DEF Single, Backed, Holds
  <2>2. ASSUME pc'[g] = "collect", NEW k \in DOMAIN slots'[g], slots'[g][k].owned
        PROVE  (Grouped(slots[g][k].child) /\ FirstOfGroup(slots[g], k))'
    <3>1. Grouped(t[k].child) /\ FirstOfGroup(t, k)
      BY <1>1, <2>2
    <3> QED BY <1>1, <3>1 DEF Grouped, FirstOfGroup, SharedWildcard, Equality
  <2> QED BY <2>1, <2>2 DEF Scratch
<1> QED BY <1>2, <1>6, <1>7, ExclusiveBy

LEMMA AbandonExclusive ==
  ASSUME Sane, Exclusive, NEW g \in Goroutines, pc[g] \in Looping, Abandon(g),
         UNCHANGED <<indexVars, view, cand, out>>,
         \A h \in Goroutines \ {g} : UNCHANGED Frame(h)
  PROVE  Exclusive' /\ \A x \in Bitmaps : heap'[x] # heap[x] => Owned(g, x)
<1> DEFINE s == slots[g]
           n == view[g]
           t == Disown(s, n)
<1>1. /\ s \in Seq(Entry) /\ n \in Nat /\ n =< Len(s) /\ free \in [Bitmaps -> Nat]
      /\ slots'[g] = t /\ pc'[g] = "failed" /\ DOMAIN s = 1..Len(s) /\ Len(s) \in Nat
      /\ PutAll(s, OwnedIn(s, n), {})
  <2>1. n \in 1..Len(s) /\ s \in Seq(Entry) /\ Len(s) \in Nat /\ DOMAIN s = 1..Len(s)
        /\ free \in [Bitmaps -> Nat]
    BY LoopFacts
  <2>2. slots'[g] = t /\ pc'[g] = "failed"
    BY DEF Abandon, SetSlots, Goto, Sane, TypeOK
  <2>3. PutAll(s, OwnedIn(s, n), {})
    BY DEF Abandon
  <2> QED BY <2>1, <2>2, <2>3
<1>2. DOMAIN t = DOMAIN s /\ \A k \in DOMAIN s : t[k].bits = s[k].bits /\ (t[k].owned <=> (n < k /\ s[k].owned))
  BY <1>1, DisownType
<1>3. Single(s, cand[g])
  BY DEF Exclusive, Scratch
<1> HIDE DEF t
<1>4. Single(t, cand[g])
  BY <1>2, <1>3 DEF Single
<1>5. ASSUME NEW x \in Bitmaps, Owned(g, x)' PROVE Owned(g, x) /\ ~PutBy(s, n, {}, x)
  <2>1. CASE cand[g] = x
    BY <1>1, <1>3, <2>1 DEF Owned, PutBy, Single
  <2>2. CASE Holds(t, x)
    <3>1. PICK k \in DOMAIN s : n < k /\ s[k].owned /\ s[k].bits = x
      BY <1>2, <2>2 DEF Holds
    <3>2. ASSUME NEW i \in 1..n, s[i].owned, s[i].bits = x PROVE FALSE
      <4>1. i \in DOMAIN s /\ i # k
        BY <1>1, <3>1
      <4> QED BY <1>3, <3>1, <3>2, <4>1 DEF Single
    <3> QED BY <3>1, <3>2 DEF Owned, Holds, PutBy
  <2> QED BY <1>1, <1>5, <2>1, <2>2 DEF Owned
<1>6. Pool' /\ \A x \in Bitmaps : heap'[x] # heap[x] => Owned(g, x)
  <2>1. {} \in SUBSET {cand[g]}
    OBVIOUS
  <2>2. \A h \in Goroutines \ {g}, x \in Bitmaps : Owned(h, x)' => Owned(h, x)
    BY OwnedElsewhere
  <2> QED BY <1>1, <1>3, <1>5, <2>1, <2>2, PoolPut DEF Exclusive
<1>7. Scratch(g)'
  BY <1>1, <1>4 DEF Scratch, Active
<1> QED BY <1>6, <1>7, ExclusiveBy DEF indexVars

-----------------------------------------------------------------------------
LEMMA InitExclusive == Init => Exclusive
BY BitmapAssumption DEF Init, Exclusive, Pool, Owned, Holds, Scratch, Single, Active

LEMMA BeginExclusive ==
  ASSUME Sane, Exclusive, NEW g \in Goroutines, NEW q \in Queries, Begin(g, q) PROVE Exclusive'
<1>1. UNCHANGED <<ix, free, slots, cand>> /\ pc'[g] = "rank"
  BY DEF Begin, Ask, Goto, poolVars, Sane, TypeOK
<1>2. \A h \in Goroutines \ {g} : UNCHANGED Frame(h)
  BY StepElsewhere
<1> QED BY <1>1, <1>2, KeepExclusive DEF Active

LEMMA RankEmptyExclusive ==
  ASSUME Sane, Exclusive, NEW g \in Goroutines, RankEmpty(g) PROVE Exclusive'
<1>1. UNCHANGED <<ix, free, slots, cand>> /\ pc'[g] = "release"
  BY DEF RankEmpty, Goto, poolVars, indexVars, Sane, TypeOK
<1>2. \A h \in Goroutines \ {g} : UNCHANGED Frame(h)
  BY StepElsewhere DEF Step
<1> QED BY <1>1, <1>2, KeepExclusive DEF Active

LEMMA RankExclusive ==
  ASSUME Sane, Exclusive, NEW g \in Goroutines, Rank(g) PROVE Exclusive'
<1>1. UNCHANGED <<ix, free, cand>> /\ pc'[g] \in {"first", "candidates"}
  BY DEF Rank, Goto, poolVars, indexVars, Sane, TypeOK
<1>2. \A h \in Goroutines \ {g} : UNCHANGED Frame(h)
  BY StepElsewhere DEF Step
<1>3. \A i \in DOMAIN slots'[g] : ~slots'[g][i].owned /\ slots'[g][i].bits \notin Bitmaps
  BY <1>1, RankSane DEF Sane, Layout
<1>4. Scratch(g)'
  BY <1>1, <1>3 DEF Scratch, Single, Backed
<1>5. \A x \in Bitmaps : Owned(g, x)' => Owned(g, x)
  BY <1>1, <1>3 DEF Owned, Holds
<1>6. Pool'
  BY <1>1, <1>2, <1>5, PoolSame, OwnedElsewhere DEF Exclusive
<1> QED BY <1>1, <1>2, <1>4, <1>6, ExclusiveBy

LEMMA MaterializeFirstExclusive ==
  ASSUME Sane, Exclusive, NEW g \in Goroutines, MaterializeFirst(g)
  PROVE  Exclusive'
<1> DEFINE s == slots[g]
           found == Matches(s[1].child, asking[g])
<1>1. /\ pc[g] = "first" /\ pc'[g] = "append" /\ UNCHANGED <<ix, cand>>
      /\ pc[g] \in Active
  BY DEF MaterializeFirst, Goto, indexVars, Sane, TypeOK, Active
<1>2. \A h \in Goroutines \ {g} : UNCHANGED Frame(h)
  BY StepElsewhere DEF Step
<1>3. CASE UNCHANGED <<poolVars, slots>>
  BY <1>1, <1>2, <1>3, KeepExclusive DEF poolVars
<1>4. ASSUME NEW b \in Gettable, s[1].bits = NoBitmap, free' = Taken(b),
             SetSlots(g, [s EXCEPT ![1].bits = b, ![1].card = Cardinality(found), ![1].owned = TRUE])
      PROVE  Exclusive'
  <2> DEFINE e == [s[1] EXCEPT !.bits = b, !.card = Cardinality(found), !.owned = TRUE]
             t == [s EXCEPT ![1] = e]
  <2>1. s \in Seq(Entry) /\ 1 \in DOMAIN s /\ s[1] \in Entry
    <3>1. s \in Seq(Entry) /\ Len(s) \in Nat /\ DOMAIN s = 1..Len(s)
      BY FrameFacts
    <3>2. view[g] \in 1..Len(s)
      BY <1>1 DEF Sane, Layout
    <3> QED BY <3>1, <3>2
  <2>2. found \subseteq Ids
    BY <1>1, <2>1, FrameFacts, MatchesType
  <2>3. e \in Entry /\ e.bits = b /\ e.owned = TRUE
    BY <2>1, <2>2, IdSets, GettableBitmaps DEF Entry
  <2>4. slots' = [slots EXCEPT ![g] = t]
    BY <1>4, <2>1 DEF SetSlots
  <2> HIDE DEF e
  <2>5. t \in Seq(Entry) /\ Takes(s, t, {1}, 1, b)
    BY <1>4, <2>1, <2>3 DEF Takes
  <2> HIDE DEF t
  <2>6. pc'[g] # "collect"
    BY <1>1
  <2> QED BY <1>1, <1>2, <1>4, <2>4, <2>5, <2>6, TakeExclusive
<1> QED BY <1>3, <1>4 DEF MaterializeFirst

LEMMA GetCandidatesExclusive ==
  ASSUME Sane, Exclusive, NEW g \in Goroutines, GetCandidates(g) PROVE Exclusive'
<1>1. PICK b \in Gettable : free' = Taken(b) /\ cand' = [cand EXCEPT ![g] = b]
  BY DEF GetCandidates
<1>2. /\ pc[g] = "candidates" /\ UNCHANGED <<ix, slots>>
      /\ free \in [Bitmaps -> Nat] /\ cand'[g] = b
  BY <1>1 DEF GetCandidates, indexVars, Sane, TypeOK
<1>3. \A h \in Goroutines \ {g} : UNCHANGED Frame(h)
  BY StepElsewhere DEF Step
<1>4. \A i \in DOMAIN slots[g] : ~slots[g][i].owned /\ slots[g][i].bits \notin Bitmaps
  BY <1>2 DEF Sane, Layout
<1>5. Scratch(g)'
  BY <1>2, <1>4 DEF Scratch, Single, Backed
<1>6. \A x \in Bitmaps : Owned(g, x)' => x = b \/ Owned(g, x)
  BY <1>2, <1>4 DEF Owned, Holds
<1>7. \A h \in Goroutines \ {g}, x \in Bitmaps : Owned(h, x)' => Owned(h, x)
  BY <1>3, OwnedElsewhere
<1>8. Pool'
  BY <1>1, <1>2, <1>6, <1>7, PoolTake DEF Exclusive
<1> QED BY <1>2, <1>3, <1>5, <1>8, ExclusiveBy

LEMMA CollectGroupExclusive ==
  ASSUME Sane, Exclusive, NEW g \in Goroutines, CollectGroup(g) PROVE Exclusive'
<1> DEFINE s == slots[g]
<1>1. PICK i \in DOMAIN slots[g], b \in Gettable, t \in Seq(Entry) : CollectTo(g, i, b, t)
  BY CollectStep
<1>2. /\ pc[g] = "collect" /\ pc'[g] = "collect" /\ UNCHANGED <<ix, cand>> /\ pc[g] \in Active
      /\ s \in Seq(Entry) /\ DOMAIN s = 1..Len(s) /\ Len(s) \in Nat
  BY FrameFacts DEF CollectGroup, indexVars, Active
<1>3. \A h \in Goroutines \ {g} : UNCHANGED Frame(h)
  BY StepElsewhere DEF Step
<1>4. /\ Takes(s, t, GroupOf(g, i), i, b) /\ free' = Taken(b) /\ slots' = [slots EXCEPT ![g] = t]
      /\ DOMAIN t = DOMAIN s /\ \A k \in DOMAIN s : t[k].child = s[k].child
  BY <1>1 DEF CollectTo, Takes
<1>5. ASSUME NEW k \in DOMAIN t, t[k].owned PROVE Grouped(t[k].child) /\ FirstOfGroup(t, k)
  <2>1. \A j \in 1..(k - 1) : t[j].child = s[j].child
    BY <1>2, <1>4
  <2>2. Grouped(s[k].child) /\ FirstOfGroup(s, k)
    <3>1. CASE k \in GroupOf(g, i)
      <4>1. k = i /\ Leader(s, i)
        BY <1>1, <1>4, <1>5, <3>1 DEF Takes, CollectTo
      <4>2. \A j \in 1..(i - 1) : ~SharedWildcard(s[j].child, s[i].child)
        <5>1. ASSUME NEW j \in 1..(i - 1), SharedWildcard(s[j].child, s[i].child) PROVE FALSE
          <6>1. j \in GroupOf(g, i)
            BY <1>2, <5>1, GroupsPartition DEF GroupOf
          <6> QED BY <1>1, <1>2, <6>1 DEF CollectTo
        <5> QED BY <5>1
      <4> QED BY <4>1, <4>2 DEF Leader, FirstOfGroup
    <3>2. CASE k \notin GroupOf(g, i)
      <4>1. s[k].owned
        BY <1>4, <1>5, <3>2 DEF Takes
      <4> QED BY <1>2, <1>4, <4>1 DEF Exclusive, Scratch
    <3> QED BY <3>1, <3>2
  <2> QED BY <1>4, <2>1, <2>2 DEF FirstOfGroup
<1> QED BY <1>2, <1>3, <1>4, <1>5, TakeExclusive

LEMMA CompactGroupsExclusive ==
  ASSUME Sane, Exclusive, OneSharedWildcard, NEW g \in Goroutines, CompactGroups(g)
  PROVE  Exclusive'
<1> DEFINE s == slots[g]
<1>1. PICK n \in Nat : \E kept \in [1..n -> FirstsOf(g)], t \in Seq(Entry) : CompactTo(g, n, kept, t)
  BY CompactStep
<1>2. PICK kept \in [1..n -> FirstsOf(g)], t \in Seq(Entry) : CompactTo(g, n, kept, t)
  BY <1>1
<1>3. /\ pc[g] = "collect" /\ pc'[g] = "intersect" /\ UNCHANGED <<ix, free, cand>>
      /\ s \in Seq(Entry) /\ DOMAIN s = 1..Len(s) /\ Len(s) \in Nat
      /\ \A j \in DOMAIN s : s[j].child \in Children
      /\ ix \in Indexes
  BY FrameFacts DEF CompactGroups, Goto, indexVars, poolVars, Sane, TypeOK
<1>4. \A h \in Goroutines \ {g} : UNCHANGED Frame(h)
  BY StepElsewhere DEF Step
<1>5. /\ n \in 1..Len(s) /\ slots'[g] = t /\ DOMAIN t = DOMAIN s
      /\ \A i, j \in 1..n : i < j => kept[i] < kept[j]
      /\ \A k \in FirstsOf(g) : \E i \in 1..n : kept[i] = k
      /\ \A k \in DOMAIN s : t[k] = IF k \in 1..n THEN s[kept[k]] ELSE s[k]
  BY <1>2, <1>3 DEF CompactTo, Sane, TypeOK
<1>6. \A i \in 1..n : kept[i] \in DOMAIN s
  BY DEF FirstsOf
<1>7. /\ \A k \in DOMAIN s : s[k].owned => Grouped(s[k].child) /\ k \in FirstsOf(g)
      /\ Single(s, cand[g]) /\ Backed(s)
  BY <1>3 DEF Exclusive, Scratch, FirstsOf, Active
\* Entries in front of an owner are all first of their group, because there is one group only.
<1>8. ASSUME NEW p \in DOMAIN s, s[p].owned PROVE p \in 1..n
  <2>1. ASSUME NEW k \in 1..p PROVE k \in FirstsOf(g)
    <3>1. k \in DOMAIN s
      BY <1>3
    <3>2. ASSUME NEW j \in 1..(k - 1), SharedWildcard(s[j].child, s[k].child) PROVE FALSE
      <4>1. j \in DOMAIN s /\ j # k /\ j \in 1..(p - 1)
        BY <1>3
      <4>2. s[j].child # s[k].child
        BY <1>3, <3>1, <4>1 DEF Sane, Layout, Ranked
      <4>3. Grouped(s[j].child)
        BY <1>3, <3>1, <3>2, <4>1, <4>2 DEF Grouped
      <4>4. SharedWildcard(s[j].child, s[p].child)
        BY <1>3, <1>7, <1>8, <4>1, <4>3, OneGroup
      <4> QED BY <1>7, <1>8, <4>1, <4>4 DEF FirstsOf, FirstOfGroup
    <3> QED BY <3>1, <3>2 DEF FirstsOf, FirstOfGroup
  <2>2. 1..p \in SUBSET FirstsOf(g) /\ IsFiniteSet(FirstsOf(g))
    <3>1. FirstsOf(g) \in SUBSET (1..Len(s))
      BY <1>3 DEF FirstsOf
    <3>2. IsFiniteSet(1..Len(s))
      BY <1>3, FS_Interval
    <3> QED BY <2>1, <3>1, <3>2, FS_Subset
  <2>3. Cardinality(1..p) =< Cardinality(FirstsOf(g)) /\ Cardinality(1..p) = p
    <3>1. p \in Nat /\ 1 =< p
      BY <1>3
    <3>2. Cardinality(1..p) = p
      BY <3>1, FS_Interval
    <3>3. Cardinality(1..p) =< Cardinality(FirstsOf(g))
      BY <2>2, FS_Subset
    <3> QED BY <3>2, <3>3
  <2> QED BY <1>2, <1>3, <2>3 DEF CompactTo
\* So the owners stay in the prefix, and none is there twice.
<1>9. ASSUME NEW k \in DOMAIN t, t[k].owned
      PROVE  k \in 1..n /\ t[k] = s[kept[k]] /\ kept[k] \in DOMAIN s
  BY <1>5, <1>6, <1>8, <1>9
<1>10. \A x : Holds(t, x) <=> Holds(s, x)
  <2>1. \A x : Holds(t, x) => Holds(s, x)
    BY <1>9 DEF Holds
  <2>2. ASSUME NEW x, NEW p \in DOMAIN s, s[p].owned, s[p].bits = x PROVE Holds(t, x)
    <3>1. PICK k \in 1..n : kept[k] = p
      BY <1>5, <1>7, <2>2
    <3>2. k \in DOMAIN s /\ t[k] = s[p]
      BY <1>3, <1>5, <3>1
    <3> QED BY <1>5, <2>2, <3>2 DEF Holds
  <2> QED BY <2>1, <2>2 DEF Holds
<1>11. Single(t, cand[g])
  <2>1. ASSUME NEW k \in DOMAIN t, NEW l \in DOMAIN t, t[k].owned, t[l].owned, t[k].bits = t[l].bits
        PROVE  k = l
    <3>1. kept[k] = kept[l] /\ k \in 1..n /\ l \in 1..n
      BY <1>7, <1>9, <2>1 DEF Single
    <3>2. kept[k] \in Nat
      BY <1>3, <1>9, <2>1
    <3> QED BY <1>5, <3>1, <3>2
  <2>2. \A k \in DOMAIN t : t[k].owned => t[k].bits \in Bitmaps \ {cand[g]}
    BY <1>7, <1>9 DEF Single
  <2> QED BY <2>1, <2>2 DEF Single
<1>12. Backed(t)
  <2>1. \A k \in DOMAIN t : \E j \in DOMAIN s : t[k] = s[j]
    BY <1>5, <1>6
  <2> QED BY <1>7, <1>10, <2>1 DEF Backed
<1>13. Scratch(g)'
  BY <1>3, <1>5, <1>11, <1>12 DEF Scratch, Single, Backed, Holds
<1>14. \A x : Owned(g, x)' <=> Owned(g, x)
  BY <1>3, <1>5, <1>10 DEF Owned
<1>15. Pool'
  BY <1>3, <1>4, <1>14, PoolSame, OwnedElsewhere DEF Exclusive
<1> QED BY <1>3, <1>4, <1>13, <1>15, ExclusiveBy

LEMMA ChooseOperandExclusive ==
  ASSUME Sane, Exclusive, NEW g \in Goroutines, ChooseOperand(g) PROVE Exclusive'
<1>1. /\ pc[g] = "intersect" /\ pos[g] =< view[g] /\ pc'[g] = "operand"
      /\ UNCHANGED <<ix, free, cand>>
  BY DEF ChooseOperand, Goto, poolVars, indexVars, Sane, TypeOK
<1>2. \A h \in Goroutines \ {g} : UNCHANGED Frame(h)
  BY StepElsewhere DEF Step
<1>3. PICK j \in pos[g]..view[g] : slots' = [slots EXCEPT ![g] = Swap(slots[g], pos[g], j)]
  BY ChosenOperand
<1>4. pos[g] \in DOMAIN slots[g] /\ j \in DOMAIN slots[g] /\ pc[g] \in Active
  BY <1>1, <1>3, LoopFacts DEF Looping, Active
<1> QED BY <1>1, <1>2, <1>3, <1>4, MoveExclusive

LEMMA MaterializeOperandExclusive ==
  ASSUME Sane, Exclusive, NEW g \in Goroutines, MaterializeOperand(g)
  PROVE  Exclusive'
<1> DEFINE s == slots[g]
           i == pos[g]
           found == Matches(s[i].child, asking[g])
<1>1. /\ pc[g] = "operand" /\ pc[g] \in Looping /\ pc[g] \in Active
      /\ UNCHANGED <<indexVars, view, cand, out>> /\ ix' = ix
  BY DEF MaterializeOperand, Looping, Active, indexVars
<1>2. \A h \in Goroutines \ {g} : UNCHANGED Frame(h)
  BY StepElsewhere DEF Step
<1>3. ASSUME NEW b \in Gettable, free' = Taken(b), UNCHANGED pc, s[i].bits = NoBitmap,
             SetSlots(g, [s EXCEPT ![i].bits = b, ![i].card = Cardinality(found), ![i].owned = TRUE])
      PROVE  Exclusive'
  <2> DEFINE e == [s[i] EXCEPT !.bits = b, !.card = Cardinality(found), !.owned = TRUE]
             t == [s EXCEPT ![i] = e]
  <2>1. s \in Seq(Entry) /\ i \in DOMAIN s /\ s[i] \in Entry
    <3>1. i \in 1..view[g]
      BY <1>1 DEF Sane, Layout
    <3> QED BY <1>1, <3>1, LoopFacts
  <2>2. found \subseteq Ids
    BY <1>1, <2>1, LoopFacts, MatchesType
  <2>3. e \in Entry /\ e.bits = b /\ e.owned = TRUE
    BY <2>1, <2>2, IdSets, GettableBitmaps DEF Entry
  <2>4. slots' = [slots EXCEPT ![g] = t]
    BY <1>3, <2>1 DEF SetSlots
  <2> HIDE DEF e
  <2>5. t \in Seq(Entry) /\ Takes(s, t, {i}, i, b)
    BY <1>3, <2>1, <2>3 DEF Takes
  <2> HIDE DEF t
  <2>6. pc'[g] # "collect"
    BY <1>1, <1>3
  <2> QED BY <1>1, <1>2, <1>3, <2>4, <2>5, <2>6, TakeExclusive
<1>4. CASE Abandon(g)
  BY <1>1, <1>2, <1>4, AbandonExclusive
<1> QED BY <1>3, <1>4 DEF MaterializeOperand

LEMMA SmallOperandExclusive ==
  ASSUME Sane, Exclusive, NEW g \in Goroutines, SmallOperand(g) PROVE Exclusive'
<1>1. /\ pc[g] = "operand" /\ pc'[g] = "validate" /\ UNCHANGED <<ix, free, cand>>
      /\ slots' = [slots EXCEPT ![g] = Swap(slots[g], 1, pos[g])]
  BY DEF SmallOperand, Goto, SetSlots, indexVars, Sane, TypeOK
<1>2. \A h \in Goroutines \ {g} : UNCHANGED Frame(h)
  BY StepElsewhere DEF Step
<1>3. 1 \in DOMAIN slots[g] /\ pos[g] \in DOMAIN slots[g] /\ pc[g] \in Active
  <2>1. pos[g] \in 1..view[g]
    BY <1>1 DEF Sane, Layout
  <2> QED BY <1>1, <2>1, LoopFacts DEF Looping, Active
<1> QED BY <1>1, <1>2, <1>3, MoveExclusive

(* The other steps of the loop, and the assembly of the result, leave       *)
(* slices and pool alone.                                                  *)
LEMMA QuietExclusive ==
  ASSUME Sane, Exclusive, NEW g \in Goroutines,
         \/ FilterOperand(g) \/ EndIntersection(g) \/ ValidateCandidates(g) \/ AppendMatches(g)
         \/ IntersectOperand(g) /\ ~Abandon(g)
  PROVE  Exclusive'
<1>1. \A h \in Goroutines \ {g} : UNCHANGED Frame(h)
  BY StepElsewhere DEF Step
<1>2. UNCHANGED <<ix, free, slots, cand>> /\ pc[g] \in Active
  BY DEF FilterOperand, EndIntersection, ValidateCandidates, AppendMatches, IntersectOperand,
         indexVars, poolVars, Active
<1>3. pc'[g] # "collect"
  <2>0. pc \in [Goroutines -> Phases]
    BY DEF Sane, TypeOK
  <2>1. CASE FilterOperand(g)
    BY <2>0, <2>1 DEF FilterOperand, NextOperand, Goto
  <2>2. CASE IntersectOperand(g) /\ ~Abandon(g)
    BY <2>0, <2>2 DEF IntersectOperand, NextOperand, Goto
  <2>3. CASE EndIntersection(g)
    BY <2>0, <2>3 DEF EndIntersection, Goto
  <2>4. CASE ValidateCandidates(g)
    BY <2>0, <2>4 DEF ValidateCandidates, Goto
  <2>5. CASE AppendMatches(g)
    BY <2>0, <2>5 DEF AppendMatches, Goto
  <2> QED BY <2>1, <2>2, <2>3, <2>4, <2>5
<1> QED BY <1>1, <1>2, <1>3, KeepExclusive

LEMMA IntersectOperandExclusive ==
  ASSUME Sane, Exclusive, NEW g \in Goroutines, IntersectOperand(g) PROVE Exclusive'
<1>1. CASE Abandon(g)
  <2>1. pc[g] \in Looping /\ UNCHANGED <<indexVars, view, cand, out>>
    BY DEF IntersectOperand, Looping
  <2>2. \A h \in Goroutines \ {g} : UNCHANGED Frame(h)
    BY StepElsewhere DEF Step
  <2> QED BY <1>1, <2>1, <2>2, AbandonExclusive
<1>2. CASE ~Abandon(g)
  BY <1>2, QuietExclusive
<1> QED BY <1>1, <1>2

LEMMA ReleaseExclusive ==
  ASSUME Sane, Exclusive, NEW g \in Goroutines, Release(g)
  PROVE  Exclusive' /\ \A x \in Bitmaps : heap'[x] # heap[x] => Owned(g, x)
<1> DEFINE s == slots[g]
           more == IF pc[g] = "failed" \/ (s # <<>> /\ Broad(g)) THEN {cand[g]} ELSE {}
<1>1. /\ PutAll(s, OwnedIn(s, Len(s)), more) /\ more \in SUBSET {cand[g]}
      /\ slots'[g] = <<>> /\ cand'[g] = NoBitmap /\ pc'[g] = "idle" /\ ix' = ix
      /\ s \in Seq(Entry) /\ Len(s) \in Nat /\ free \in [Bitmaps -> Nat]
  BY DEF Release, Goto, SetSlots, Sane, TypeOK
<1>2. \A h \in Goroutines \ {g} : UNCHANGED Frame(h)
  BY StepElsewhere DEF Step
<1>3. \A x \in Bitmaps : ~Owned(g, x)'
  BY <1>1, BitmapAssumption DEF Owned, Holds
<1>4. \A h \in Goroutines \ {g}, x \in Bitmaps : Owned(h, x)' => Owned(h, x)
  BY <1>2, OwnedElsewhere
<1>5. Single(slots[g], cand[g]) /\ Pool
  BY DEF Exclusive, Scratch
<1> HIDE DEF more
<1>6. Pool' /\ \A x \in Bitmaps : heap'[x] # heap[x] => Owned(g, x)
  <2> DEFINE n == Len(s)
  <2>1. n \in Nat /\ n =< Len(slots[g]) /\ PutAll(slots[g], OwnedIn(slots[g], n), more)
        /\ slots[g] \in Seq(Entry)
    BY <1>1
  <2>2. \A x \in Bitmaps : Owned(g, x)' => Owned(g, x) /\ ~PutBy(slots[g], n, more, x)
    BY <1>3
  <2> HIDE DEF n
  <2> QED BY <1>1, <1>4, <1>5, <2>1, <2>2, PoolPut
<1>7. Scratch(g)'
  BY <1>1 DEF Scratch, Single, Active
<1> QED BY <1>1, <1>2, <1>6, <1>7, ExclusiveBy

LEMMA ForgetExclusive ==
  ASSUME Sane, Exclusive, NEW b \in Bitmaps, Forget(b) PROVE Exclusive'
<1>1. UNCHANGED <<ix, heap, pc, slots, cand>> /\ free' = Taken(b) /\ free[b] > 0
      /\ free \in [Bitmaps -> Nat]
  BY DEF Forget, indexVars, frameVars, Sane, TypeOK
<1>2. \A x \in Bitmaps : free'[x] = IF x = b THEN 0 ELSE free[x]
  <2>1. free[b] \in Nat /\ free[b] =< 1
    BY <1>1 DEF Exclusive, Pool
  <2> QED BY <1>1, <2>1 DEF Taken
<1>3. \A h \in Goroutines, x \in Bitmaps : Owned(h, x)' <=> Owned(h, x)
  BY <1>1 DEF Owned, Holds
<1>4. Pool'
  BY <1>2, <1>3 DEF Exclusive, Pool
<1>5. \A h \in Goroutines : Scratch(h)'
  BY <1>1 DEF Exclusive, Scratch, Single, Backed, Holds, Grouped, FirstOfGroup, SharedWildcard, Equality
<1> QED BY <1>4, <1>5 DEF Exclusive

LEMMA ExclusiveStep ==
  ASSUME OneSharedWildcard, Sane, Exclusive, [Next]_vars PROVE Exclusive'
<1>1. CASE UNCHANGED vars
  BY <1>1 DEF vars, indexVars, poolVars, frameVars, Exclusive, Pool, Owned, Scratch, Single, Backed,
              Holds, Grouped, FirstOfGroup, SharedWildcard, Equality
<1>2. ASSUME NEW g \in Goroutines, NEW q \in Queries, Begin(g, q) PROVE Exclusive'
  BY <1>2, BeginExclusive
<1>3. ASSUME NEW g \in Goroutines, Step(g) PROVE Exclusive'
  BY <1>3, RankEmptyExclusive, RankExclusive, MaterializeFirstExclusive, GetCandidatesExclusive,
     CollectGroupExclusive, CompactGroupsExclusive, ChooseOperandExclusive,
     MaterializeOperandExclusive, SmallOperandExclusive, IntersectOperandExclusive,
     QuietExclusive, ReleaseExclusive DEF Step
<1>4. ASSUME NEW b \in Bitmaps, Forget(b) PROVE Exclusive'
  BY <1>4, ForgetExclusive
<1> QED BY <1>1, <1>2, <1>3, <1>4 DEF Next

LEMMA AlwaysExclusive == OneSharedWildcard => (Spec => [](Sane /\ Exclusive))
<1> SUFFICES ASSUME OneSharedWildcard PROVE Spec => [](Sane /\ Exclusive)
  OBVIOUS
<1>1. Init => Sane /\ Exclusive
  BY InitSane, InitExclusive
<1>2. Sane /\ Exclusive /\ [Next]_vars => (Sane /\ Exclusive)'
  BY SaneStep, ExclusiveStep
<1> QED BY <1>1, <1>2, PTL DEF Spec

(* The owners of a bitmap that ScratchExclusive counts.                     *)
LEMMA OwnersFew ==
  ASSUME Sane, Exclusive, NEW b \in Bitmaps
  PROVE  free[b] + Cardinality(Owners(b)) =< 1
<1>1. \A o \in Owners(b) : \E g \in Goroutines, i \in Nat :
        /\ o = <<g, i>>
        /\ \/ i = 0 /\ cand[g] = b
           \/ i \in DOMAIN slots[g] /\ slots[g][i].owned /\ slots[g][i].bits = b
  <2>1. ASSUME NEW g \in Goroutines PROVE DOMAIN slots[g] \subseteq Nat
    <3>1. DOMAIN slots[g] = 1..Len(slots[g]) /\ Len(slots[g]) \in Nat
      BY FrameFacts
    <3> QED BY <3>1
  <2> QED BY <2>1 DEF Owners
<1>2. \A o \in Owners(b) : \E g \in Goroutines, i \in Nat :
        /\ o = <<g, i>> /\ Owned(g, b)
        /\ \/ i = 0 /\ cand[g] = b
           \/ i \in DOMAIN slots[g] /\ slots[g][i].owned /\ slots[g][i].bits = b
  BY <1>1 DEF Owned, Holds
<1>3. free[b] \in Nat /\ free[b] =< 1
  BY DEF Sane, TypeOK, Exclusive, Pool
<1>4. CASE Owners(b) = {}
  BY <1>3, <1>4, FS_EmptySet
<1>5. CASE Owners(b) # {}
  <2>1. PICK o \in Owners(b) : TRUE
    BY <1>5
  <2>2. PICK g \in Goroutines, i \in Nat :
          /\ o = <<g, i>> /\ Owned(g, b)
          /\ \/ i = 0 /\ cand[g] = b
             \/ i \in DOMAIN slots[g] /\ slots[g][i].owned /\ slots[g][i].bits = b
    BY <1>2, <2>1
  <2>3. ASSUME NEW p \in Owners(b) PROVE p = o
    <3>1. PICK h \in Goroutines, j \in Nat :
            /\ p = <<h, j>> /\ Owned(h, b)
            /\ \/ j = 0 /\ cand[h] = b
               \/ j \in DOMAIN slots[h] /\ slots[h][j].owned /\ slots[h][j].bits = b
      BY <1>2, <2>3
    <3>2. h = g
      BY <2>2, <3>1 DEF Exclusive, Pool
    <3>3. i = j
      BY <2>2, <3>1, <3>2 DEF Exclusive, Scratch, Single
    <3> QED BY <2>2, <3>1, <3>2, <3>3
  <2>4. Owners(b) = {o}
    BY <2>1, <2>3
  <2>5. Cardinality(Owners(b)) = 1
    BY <2>4, FS_Singleton
  <2>6. free[b] = 0
    BY <2>2 DEF Exclusive, Pool
  <2> QED BY <2>5, <2>6
<1> QED BY <1>4, <1>5

(* A scratch bitmap is in the pool once, or it is the candidate set or one  *)
(* operand of one search, as long as only one wildcard posting is shared.   *)
THEOREM ScratchExclusiveHolds == OneSharedWildcard => (Spec => []ScratchExclusive)
<1>1. Sane /\ Exclusive => ScratchExclusive
  BY OwnersFew DEF ScratchExclusive
<1> QED BY <1>1, AlwaysExclusive, PTL

-----------------------------------------------------------------------------
(* What the scratch bitmaps contain.                                       *)

(* The answer before exclusions.                                           *)
AllMatch(q) == {id \in Ids : \A c \in Children : id \in Matches(c, q)}

(* What the first n operands of slice s accept, with scratch contents h.   *)
Meet(h, s, q, n) == {id \in Ids : \A i \in 1..n : Accepts(h, s[i], q, id)}

(* At `label`, with scratch contents h, slice s, working prefix v, loop     *)
(* index p, candidates c and output o, for query q: the operands together   *)
(* accept the answer, and the candidates are what the consumed ones accept. *)
ContentOf(label, h, s, v, p, c, o, q) ==
  /\ label \in Active =>
       AllMatch(q) \subseteq Meet(h, s, q, Len(s)) /\ Meet(h, s, q, v) \subseteq AllMatch(q)
  /\ label = "collect" => h[c] = {}
  /\ label \in {"intersect", "operand"} => h[c] = IF p =< 2 THEN {} ELSE Meet(h, s, q, p - 1)
  /\ label = "validate" => h[c] = Meet(h, s, q, p - 1)
  /\ label = "append" /\ s[1].card > ScanLimit => h[c] = AllMatch(q)
  /\ label = "failed" => AllMatch(q) = {}
  /\ label = "release" => o = Matching(q)

Content(g) ==
  ContentOf(pc[g], heap, slots[g], view[g], pos[g], cand[g], out[g], asking[g])
Contents == \A g \in Goroutines : Content(g)

LEMMA MatchingAll == \A q : Matching(q) = AllMatch(q) \ ix.excluded[q]
BY DEF Matching, AllMatch

LEMMA AcceptsSame ==
  ASSUME NEW e, NEW f, NEW h, NEW k, e.bits = f.bits, e.child = f.child,
         e.bits \in Bitmaps \cup {NoBitmap, Posting}, e.bits \in Bitmaps => h[e.bits] = k[e.bits]
  PROVE  \A q, id : Accepts(h, e, q, id) <=> Accepts(k, f, q, id)
BY DEF Accepts, Bits

LEMMA MeetSame ==
  ASSUME NEW s, NEW t, NEW h, NEW k, NEW n,
         \A i \in 1..n : /\ s[i].bits = t[i].bits /\ s[i].child = t[i].child
                         /\ s[i].bits \in Bitmaps \cup {NoBitmap, Posting}
                         /\ s[i].bits \in Bitmaps => h[s[i].bits] = k[s[i].bits]
  PROVE  \A q : Meet(h, s, q, n) = Meet(k, t, q, n)
<1>1. \A i \in 1..n : \A q, id : Accepts(h, s[i], q, id) <=> Accepts(k, t[i], q, id)
  BY AcceptsSame
<1> QED BY <1>1 DEF Meet

LEMMA MeetSwap ==
  ASSUME NEW s \in Seq(Entry), NEW i \in DOMAIN s, NEW j \in DOMAIN s, NEW h, NEW n \in Nat,
         n =< Len(s), (i =< n /\ j =< n) \/ (n < i /\ n < j)
  PROVE  \A q : Meet(h, Swap(s, i, j), q, n) = Meet(h, s, q, n)
<1> DEFINE t == Swap(s, i, j)
<1>1. \A k \in DOMAIN s : t[k] = IF k = j THEN s[i] ELSE IF k = i THEN s[j] ELSE s[k]
  BY SwapType, ZenonT(40)
<1>2. DOMAIN s = 1..Len(s) /\ Len(s) \in Nat
  OBVIOUS
<1> HIDE DEF t
<1>3. ASSUME NEW q, NEW id, \A k \in 1..n : Accepts(h, s[k], q, id), NEW k \in 1..n
      PROVE  Accepts(h, t[k], q, id)
  <2>1. \E l \in 1..n : t[k] = s[l]
    BY <1>1, <1>2
  <2> QED BY <1>3, <2>1
<1>4. ASSUME NEW q, NEW id, \A k \in 1..n : Accepts(h, t[k], q, id), NEW k \in 1..n
      PROVE  Accepts(h, s[k], q, id)
  <2>1. \E l \in 1..n : s[k] = t[l]
    BY <1>1, <1>2
  <2> QED BY <1>4, <2>1
<1>5. \A q : Meet(h, t, q, n) = Meet(h, s, q, n)
  BY <1>3, <1>4 DEF Meet
<1> QED BY <1>5 DEF t

(* The same where the loop needs it: below the swapped pair, and above it.  *)
LEMMA SwapsOutside ==
  ASSUME NEW s \in Seq(Entry), NEW h, NEW v \in Nat, v =< Len(s), NEW i \in DOMAIN s, NEW j \in DOMAIN s,
         i =< j, j =< v, NEW n \in Nat, n = Len(s) \/ n = v \/ n = i - 1
  PROVE  \A q : Meet(h, Swap(s, i, j), q, n) = Meet(h, s, q, n)
<1>1. Len(s) \in Nat /\ DOMAIN s = 1..Len(s)
  OBVIOUS
<1>2. i \in 1..Len(s) /\ j \in 1..Len(s)
  BY <1>1
<1>3. n =< Len(s) /\ ((i =< n /\ j =< n) \/ (n < i /\ n < j))
  <2> DEFINE l == Len(s)
  <2>1. l \in Nat /\ v =< l /\ i \in 1..l /\ j \in 1..l /\ (n = l \/ n = v \/ n = i - 1)
    BY <1>1, <1>2
  <2> HIDE DEF l
  <2>2. n =< l /\ ((i =< n /\ j =< n) \/ (n < i /\ n < j))
    BY <2>1
  <2> QED BY <2>2 DEF l
<1> QED BY <1>3, MeetSwap

(* One more operand.                                                       *)
LEMMA MeetOneMore ==
  ASSUME NEW h, NEW s, NEW q, NEW n \in Nat \ {0}
  PROVE  Meet(h, s, q, n) = {id \in Meet(h, s, q, n - 1) : Accepts(h, s[n], q, id)}
<1>1. \A i : i \in 1..n <=> (i \in 1..(n - 1) \/ i = n)
  OBVIOUS
<1> QED BY <1>1 DEF Meet

LEMMA MeetNone == \A h, s, q : Meet(h, s, q, 0) = Ids
BY DEF Meet

LEMMA MeetShrinks ==
  ASSUME NEW h, NEW s, NEW q, NEW m \in Nat, NEW n \in Nat, m =< n
  PROVE  Meet(h, s, q, n) \subseteq Meet(h, s, q, m)
BY DEF Meet

(* As long as the index stays, only the goroutine's own state counts.      *)
LEMMA ContentNext ==
  ASSUME ix' = ix, NEW g
  PROVE  Content(g)' <=> ContentOf(pc'[g], heap', slots'[g], view'[g], pos'[g], cand'[g], out'[g],
                                   asking'[g])
BY DEF Content, ContentOf, Meet, Accepts, Bits, AllMatch, Matching, Matches

(* A search owns the bitmaps its operands read, besides its candidates.    *)
LEMMA OwnBits ==
  ASSUME Sane, Exclusive, NEW g \in Goroutines, pc[g] \in Active, NEW i \in DOMAIN slots[g]
  PROVE  /\ slots[g][i].bits \in Bitmaps \cup {NoBitmap, Posting}
         /\ slots[g][i].bits \in Bitmaps => Owned(g, slots[g][i].bits) /\ slots[g][i].bits # cand[g]
<1>1. slots[g][i].bits \in Bitmaps \cup {NoBitmap, Posting}
  BY FrameFacts DEF Entry
<1>2. ASSUME slots[g][i].bits \in Bitmaps
      PROVE  Owned(g, slots[g][i].bits) /\ slots[g][i].bits # cand[g]
  <2>1. Holds(slots[g], slots[g][i].bits) /\ Single(slots[g], cand[g])
    BY <1>2 DEF Exclusive, Scratch, Backed
  <2> QED BY <2>1 DEF Owned, Holds, Single
<1> QED BY <1>1, <1>2

(* What an active search has read from its operands stays what it was when  *)
(* others write bitmaps it does not own, or it writes its candidates.      *)
LEMMA MeetKept ==
  ASSUME Sane, Exclusive, NEW g \in Goroutines, pc[g] \in Active,
         NEW k, \A x \in Bitmaps : k[x] # heap[x] => x = cand[g] \/ ~Owned(g, x),
         NEW n \in 0..Len(slots[g])
  PROVE  \A q : Meet(k, slots[g], q, n) = Meet(heap, slots[g], q, n)
<1>1. DOMAIN slots[g] = 1..Len(slots[g]) /\ Len(slots[g]) \in Nat
  BY FrameFacts
<1>2. \A i \in 1..n : /\ slots[g][i].bits \in Bitmaps \cup {NoBitmap, Posting}
                      /\ slots[g][i].bits \in Bitmaps => heap[slots[g][i].bits] = k[slots[g][i].bits]
  <2>1. ASSUME NEW i \in 1..n
        PROVE  /\ slots[g][i].bits \in Bitmaps \cup {NoBitmap, Posting}
               /\ slots[g][i].bits \in Bitmaps => heap[slots[g][i].bits] = k[slots[g][i].bits]
    <3>1. i \in DOMAIN slots[g]
      BY <1>1
    <3> QED BY <3>1, OwnBits
  <2> QED BY <2>1
<1> DEFINE s == slots[g]
           h == heap
<1> HIDE DEF s, h
<1>3. \A i \in 1..n : /\ s[i].bits = s[i].bits /\ s[i].child = s[i].child
                      /\ s[i].bits \in Bitmaps \cup {NoBitmap, Posting}
                      /\ s[i].bits \in Bitmaps => h[s[i].bits] = k[s[i].bits]
  BY <1>2 DEF s, h
<1>4. \A q : Meet(h, s, q, n) = Meet(k, s, q, n)
  BY <1>3, MeetSame
<1> QED BY <1>4 DEF s, h

LEMMA ContentElsewhere ==
  ASSUME Sane, Exclusive, NEW h \in Goroutines, Content(h), ix' = ix,
         UNCHANGED <<asking[h], Frame(h)>>,
         \A x \in Bitmaps : heap'[x] # heap[x] => ~Owned(h, x)
  PROVE  Content(h)'
<1>1. /\ pc'[h] = pc[h] /\ slots'[h] = slots[h] /\ view'[h] = view[h] /\ pos'[h] = pos[h]
      /\ cand'[h] = cand[h] /\ out'[h] = out[h] /\ asking'[h] = asking[h]
  BY DEF Frame
<1>2. cand[h] \in Bitmaps => heap'[cand[h]] = heap[cand[h]]
  BY DEF Owned
<1>3. Len(slots[h]) \in Nat /\ Layout(h)
  BY FrameFacts
<1>4. ASSUME pc[h] \in Active, NEW n \in 0..Len(slots[h])
      PROVE  \A q : Meet(heap', slots[h], q, n) = Meet(heap, slots[h], q, n)
  BY <1>4, MeetKept
<1>5. pc[h] \in Active => view[h] \in 0..Len(slots[h]) /\ Len(slots[h]) \in 0..Len(slots[h])
  BY <1>3 DEF Layout
<1>6. pc[h] \in Looping => pc[h] \in Active /\ pos[h] - 1 \in 0..Len(slots[h]) /\ cand[h] \in Bitmaps
  BY <1>3, LoopFacts, SMTT(30) DEF Looping, Active
<1>7. /\ pc[h] = "collect" => cand[h] \in Bitmaps
      /\ pc[h] = "append" /\ slots[h][1].card > ScanLimit => cand[h] \in Bitmaps
  BY <1>3 DEF Layout, Broad
<1>8. ContentOf(pc[h], heap', slots[h], view[h], pos[h], cand[h], out[h], asking[h])
  BY <1>2, <1>4, <1>5, <1>6, <1>7 DEF Content, ContentOf, Looping
<1> QED BY <1>1, <1>8, ContentNext

(* It is enough to look at the goroutine that moves, if it writes only      *)
(* bitmaps that it owns or that nobody owns.                               *)
LEMMA ContentsBy ==
  ASSUME Sane, Exclusive, Contents, NEW g \in Goroutines, ix' = ix,
         \A h \in Goroutines \ {g} : UNCHANGED <<asking[h], Frame(h)>>,
         \A x \in Bitmaps : heap'[x] # heap[x] => Owned(g, x) \/ \A h \in Goroutines : ~Owned(h, x),
         ContentOf(pc'[g], heap', slots'[g], view'[g], pos'[g], cand'[g], out'[g], asking'[g])
  PROVE  Contents'
<1>1. Content(g)'
  BY ContentNext
<1>2. ASSUME NEW h \in Goroutines \ {g} PROVE Content(h)'
  <2>1. \A x \in Bitmaps : heap'[x] # heap[x] => ~Owned(h, x)
    BY DEF Exclusive, Pool
  <2>2. Content(h)
    BY DEF Contents
  <2> QED BY <2>1, <2>2, ContentElsewhere
<1> QED BY <1>1, <1>2 DEF Contents

LEMMA InitContents == Init => Contents
BY DEF Init, IndexInit, Contents, Content, ContentOf, Active

LEMMA BeginContents ==
  ASSUME Sane, Exclusive, Contents, NEW g \in Goroutines, NEW q \in Queries, Begin(g, q)
  PROVE  Contents'
<1>1. ix' = ix /\ \A h \in Goroutines \ {g} : UNCHANGED <<asking[h], Frame(h)>>
  BY StepElsewhere
<1>2. heap' = heap /\ pc'[g] = "rank"
  BY DEF Begin, Goto, poolVars, Sane, TypeOK
<1>3. ContentOf(pc'[g], heap', slots'[g], view'[g], pos'[g], cand'[g], out'[g], asking'[g])
  BY <1>2 DEF ContentOf, Active
<1> QED BY <1>1, <1>2, <1>3, ContentsBy

LEMMA RankEmptyContents ==
  ASSUME Sane, Exclusive, Contents, NEW g \in Goroutines, RankEmpty(g)
  PROVE  Contents'
<1>1. ix' = ix /\ \A h \in Goroutines \ {g} : UNCHANGED <<asking[h], Frame(h)>>
  BY StepElsewhere DEF Step
<1>2. pc[g] = "rank" /\ heap' = heap /\ pc'[g] = "release" /\ out' = out /\ asking' = asking
  BY DEF RankEmpty, Goto, poolVars, indexVars, Sane, TypeOK
<1>3. asking[g] \in Queries /\ ix \in Indexes /\ out[g] = {}
  BY <1>2, FrameFacts DEF Layout
<1>4. PICK c \in Children : Estimate(c, asking[g]) = 0
  BY DEF RankEmpty
<1>5. Matches(c, asking[g]) = {}
  <2>1. /\ Cardinality(Matches(c, asking[g])) =< 0 /\ Cardinality(Matches(c, asking[g])) \in Nat
        /\ IsFiniteSet(Matches(c, asking[g]))
    BY <1>3, <1>4, EstimateBounds, MatchesType, IdSets
  <2>2. Cardinality(Matches(c, asking[g])) = 0
    BY <2>1
  <2> QED BY <2>1, <2>2, FS_EmptySet
<1>6. Matching(asking[g]) = {}
  BY <1>5 DEF Matching
<1>7. ContentOf(pc'[g], heap', slots'[g], view'[g], pos'[g], cand'[g], out'[g], asking'[g])
  BY <1>2, <1>3, <1>6 DEF ContentOf, Active
<1> QED BY <1>1, <1>2, <1>7, ContentsBy

(* Ranking and removing duplicate classes leaves an entry for every kept    *)
(* child.                                                                  *)
LEMMA RankCovers ==
  ASSUME Sane, NEW g \in Goroutines, Rank(g)
  PROVE  /\ \A k \in DOMAIN slots'[g] : slots'[g][k].bits \in {NoBitmap, Posting}
         /\ \A d \in Kept(asking[g]) : \E k \in DOMAIN slots'[g] : slots'[g][k].child = d
<1> DEFINE q == asking[g]
           n == Cardinality(Kept(q))
<1>1. q \in Queries /\ ix \in Indexes /\ pc'[g] \in {"first", "candidates"}
  BY FrameFacts DEF Rank, Goto, Sane, TypeOK
<1>2. PICK order \in [1..n -> Kept(q)] :
        /\ \A i, j \in DOMAIN order : i < j => Before(order[i], order[j], q)
        /\ SetSlots(g, [i \in DOMAIN order |->
             [bits  |-> IF PlanningBitmap(order[i], q) THEN Posting ELSE NoBitmap,
              card  |-> Estimate(order[i], q),
              child |-> order[i],
              owned |-> FALSE]])
  BY DEF Rank
<1> DEFINE t == slots'[g]
<1>3. /\ DOMAIN t = 1..n
      /\ \A i \in 1..n : /\ t[i].child = order[i] /\ t[i].card = Estimate(order[i], q)
                         /\ t[i].bits = IF PlanningBitmap(order[i], q) THEN Posting ELSE NoBitmap
  BY <1>2 DEF SetSlots, Sane, TypeOK
<1> HIDE DEF t
<1>4. /\ IsFiniteSet(Kept(q)) /\ Kept(q) \subseteq Children /\ n \in Nat /\ 1 =< n
  BY <1>1, KeptSome
<1> HIDE DEF n
<1>5. ASSUME NEW i \in 1..n, NEW j \in 1..n, order[i] = order[j] PROVE i = j
  <2>1. order[i] \in Children /\ Estimate(order[i], q) \in Nat /\ order[i] \in Nat
    BY <1>1, <1>4, EstimateBounds, WidthAssumption DEF Children
  <2>2. ~Before(order[i], order[j], q) /\ ~Before(order[j], order[i], q)
    BY <1>5, <2>1 DEF Before
  <2> QED BY <1>2, <1>4, <2>2
<1>6. order \in Injection(1..n, Kept(q))
  BY <1>5 DEF Injection, IsInjective
<1>7. Cardinality(1..n) = n /\ IsFiniteSet(1..n)
  BY <1>4, FS_Interval
<1>8. order \in Surjection(1..n, Kept(q))
  BY <1>4, <1>6, <1>7, FS_Injection DEF n
<1>9. \A d \in Kept(q) : \E i \in 1..n : order[i] = d
  BY <1>8 DEF Surjection
<1> QED BY <1>3, <1>9 DEF t

LEMMA RankContents ==
  ASSUME Sane, Exclusive, Contents, NEW g \in Goroutines, Rank(g)
  PROVE  Contents'
<1> DEFINE q == asking[g]
           t == slots'[g]
           n == Len(t)
<1>1. ix' = ix /\ \A h \in Goroutines \ {g} : UNCHANGED <<asking[h], Frame(h)>>
  BY StepElsewhere DEF Step
<1>2. heap' = heap /\ pc'[g] \in {"first", "candidates"} /\ asking' = asking
  BY DEF Rank, Goto, poolVars, indexVars, Sane, TypeOK
<1>3. q \in Queries /\ ix \in Indexes
  BY FrameFacts DEF Rank
<1>4. /\ t \in Seq(Entry) /\ n \in Nat /\ DOMAIN t = 1..n /\ view'[g] = n
      /\ \A k \in 1..n : t[k] \in Entry
  <2>1. t \in Seq(Entry)
    BY RankSane DEF Sane, TypeOK
  <2>2. view'[g] = n
    <3>1. t = [i \in 1..Cardinality(Kept(q)) |-> t[i]] /\ view'[g] = Cardinality(Kept(q))
      BY DEF Rank, SetSlots, Sane, TypeOK
    <3>2. Cardinality(Kept(q)) \in Nat
      BY <1>3, KeptSome
    <3> HIDE DEF t
    <3> QED BY <2>1, <3>1, <3>2
  <2> HIDE DEF t
  <2> QED BY <2>1, <2>2
<1>5. /\ \A k \in 1..n : t[k].bits \in {NoBitmap, Posting}
      /\ \A d \in Kept(q) : \E k \in 1..n : t[k].child = d
  BY <1>4, RankCovers
<1> HIDE DEF t, n
<1>6. \A k \in 1..n : \A id : Accepts(heap, t[k], q, id) <=> id \in Matches(t[k].child, q)
  BY <1>5, BitmapAssumption DEF Accepts, Bits
<1>7. AllMatch(q) \subseteq Meet(heap, t, q, n)
  BY <1>4, <1>6 DEF AllMatch, Meet, Entry
<1>8. Meet(heap, t, q, n) \subseteq AllMatch(q)
  <2>1. ASSUME NEW id \in Meet(heap, t, q, n), NEW c \in Children PROVE id \in Matches(c, q)
    <3>1. PICK d \in Kept(q) : Matches(d, q) = Matches(c, q)
      BY <1>3, KeptCovers
    <3>2. PICK k \in 1..n : t[k].child = d
      BY <1>5
    <3> QED BY <1>6, <2>1, <3>1, <3>2 DEF Meet
  <2> QED BY <2>1 DEF AllMatch, Meet
<1>9. ContentOf(pc'[g], heap', slots'[g], view'[g], pos'[g], cand'[g], out'[g], asking'[g])
  BY <1>2, <1>4, <1>7, <1>8 DEF ContentOf, t, n
<1> QED BY <1>1, <1>2, <1>9, ContentsBy

(* What an active search knows about its operands.                         *)
LEMMA ActiveContent ==
  ASSUME Sane, Contents, NEW g \in Goroutines, pc[g] \in Active
  PROVE  /\ AllMatch(asking[g]) \subseteq Meet(heap, slots[g], asking[g], Len(slots[g]))
         /\ Meet(heap, slots[g], asking[g], view[g]) \subseteq AllMatch(asking[g])
         /\ Meet(heap, slots[g], asking[g], view[g]) = AllMatch(asking[g])
         /\ \A n \in 0..Len(slots[g]) : AllMatch(asking[g]) \subseteq Meet(heap, slots[g], asking[g], n)
         /\ view[g] \in 1..Len(slots[g]) /\ asking[g] \in Queries /\ ix \in Indexes
         /\ slots[g] \in Seq(Entry) /\ Len(slots[g]) \in Nat /\ DOMAIN slots[g] = 1..Len(slots[g])
         /\ \A j \in DOMAIN slots[g] : slots[g][j] \in Entry /\ slots[g][j].child \in Children
<1>1. /\ AllMatch(asking[g]) \subseteq Meet(heap, slots[g], asking[g], Len(slots[g]))
      /\ Meet(heap, slots[g], asking[g], view[g]) \subseteq AllMatch(asking[g])
  BY DEF Contents, Content, ContentOf
<1>2. /\ asking[g] \in Queries /\ ix \in Indexes /\ view[g] \in 1..Len(slots[g])
      /\ slots[g] \in Seq(Entry) /\ Len(slots[g]) \in Nat /\ DOMAIN slots[g] = 1..Len(slots[g])
      /\ \A j \in DOMAIN slots[g] : slots[g][j] \in Entry /\ slots[g][j].child \in Children
  BY FrameFacts DEF Layout, Active
<1>3. \A n \in 0..Len(slots[g]) : AllMatch(asking[g]) \subseteq Meet(heap, slots[g], asking[g], n)
  <2>1. ASSUME NEW n \in 0..Len(slots[g])
        PROVE  Meet(heap, slots[g], asking[g], Len(slots[g])) \subseteq Meet(heap, slots[g], asking[g], n)
    BY <1>2 DEF Meet
  <2> QED BY <1>1, <2>1
<1>4. AllMatch(asking[g]) \subseteq Meet(heap, slots[g], asking[g], view[g])
  BY <1>2, <1>3
<1> QED BY <1>1, <1>2, <1>3, <1>4

(* Steps that leave the operands alone: the candidates have to be right.   *)
LEMMA QuietContents ==
  ASSUME Sane, Exclusive, Contents, NEW g \in Goroutines, pc[g] \in Active,
         Step(g), UNCHANGED <<slots, view, cand, asking>>,
         \A x \in Bitmaps : heap'[x] # heap[x] => x = cand[g] \/ \A h \in Goroutines : ~Owned(h, x),
         pc'[g] # "collect",
         pc'[g] \in Looping => pos'[g] - 1 \in 0..Len(slots[g]),
         pc'[g] \in {"intersect", "operand"} =>
           heap'[cand[g]] = IF pos'[g] =< 2 THEN {} ELSE Meet(heap, slots[g], asking[g], pos'[g] - 1),
         pc'[g] = "validate" => heap'[cand[g]] = Meet(heap, slots[g], asking[g], pos'[g] - 1),
         pc'[g] = "append" /\ Broad(g) => heap'[cand[g]] = AllMatch(asking[g]),
         pc'[g] = "failed" => AllMatch(asking[g]) = {},
         pc'[g] = "release" => out'[g] = Matching(asking[g])
  PROVE  Contents'
<1>1. ix' = ix /\ \A h \in Goroutines \ {g} : UNCHANGED <<asking[h], Frame(h)>>
  BY StepElsewhere
<1>2. \A x \in Bitmaps : heap'[x] # heap[x] => x = cand[g] \/ ~Owned(g, x)
  OBVIOUS
<1>3. ASSUME NEW n \in 0..Len(slots[g])
      PROVE  \A q : Meet(heap', slots[g], q, n) = Meet(heap, slots[g], q, n)
  BY <1>2, MeetKept
<1>4. /\ AllMatch(asking[g]) \subseteq Meet(heap, slots[g], asking[g], Len(slots[g]))
      /\ Meet(heap, slots[g], asking[g], view[g]) \subseteq AllMatch(asking[g])
      /\ view[g] \in 0..Len(slots[g]) /\ Len(slots[g]) \in 0..Len(slots[g])
  BY ActiveContent
<1>5. ContentOf(pc'[g], heap', slots[g], view[g], pos'[g], cand[g], out'[g], asking[g])
  BY <1>3, <1>4 DEF ContentOf, Looping, Broad
<1>6. \A x \in Bitmaps : heap'[x] # heap[x] => Owned(g, x) \/ \A h \in Goroutines : ~Owned(h, x)
  BY DEF Owned
<1> QED BY <1>1, <1>5, <1>6, ContentsBy

(* An operand that is materialized keeps accepting what its child matches. *)
SameBut(s, t, h, k, i, j) ==
  /\ t[j].child = s[j].child
  /\ s[j].bits \in Bitmaps \cup {NoBitmap, Posting}
  /\ j # i => t[j].bits = s[j].bits
  /\ j # i /\ s[j].bits \in Bitmaps => k[s[j].bits] = h[s[j].bits]

Fills(s, t, h, k, q, n, i) ==
  /\ \A j \in 1..n : SameBut(s, t, h, k, i, j)
  /\ s[i].bits = NoBitmap /\ t[i].bits \in Bitmaps /\ k[t[i].bits] = Matches(s[i].child, q)

LEMMA MeetFilled ==
  ASSUME NEW s, NEW t, NEW h, NEW k, NEW q, NEW n, NEW i, Fills(s, t, h, k, q, n, i)
  PROVE  Meet(k, t, q, n) = Meet(h, s, q, n)
<1>1. \A id : Accepts(k, t[i], q, id) <=> Accepts(h, s[i], q, id)
  BY BitmapAssumption DEF Fills, Accepts, Bits
<1>2. ASSUME NEW j \in 1..n PROVE \A id : Accepts(k, t[j], q, id) <=> Accepts(h, s[j], q, id)
  <2>1. CASE j = i
    BY <1>1, <2>1
  <2>2. CASE j # i
    BY <2>2 DEF Fills, SameBut, Accepts, Bits
  <2> QED BY <2>1, <2>2
<1> QED BY <1>2 DEF Meet

(* A step that materializes entry i in bitmap b.                           *)
FilledTo(g, i, b) ==
  /\ free' = Taken(b)
  /\ heap' = [heap EXCEPT ![b] = Matches(slots[g][i].child, asking[g])]
  /\ \E t \in Seq(Entry) : /\ slots' = [slots EXCEPT ![g] = t] /\ Takes(slots[g], t, {i}, i, b)
                           /\ \A j \in DOMAIN slots[g] : t[j].child = slots[g][j].child
                           /\ t[i].card = Cardinality(Matches(slots[g][i].child, asking[g]))

(* MaterializeFirst and MaterializeOperand in the shape the proofs use.    *)
LEMMA EntryFilled ==
  ASSUME Sane, NEW g \in Goroutines, pc[g] \in Active, NEW i \in DOMAIN slots[g], NEW b \in Gettable,
         slots[g][i].bits = NoBitmap, free' = Taken(b),
         heap' = [heap EXCEPT ![b] = Matches(slots[g][i].child, asking[g])],
         SetSlots(g, [slots[g] EXCEPT
           ![i].bits = b, ![i].card = Cardinality(Matches(slots[g][i].child, asking[g])),
           ![i].owned = TRUE])
  PROVE  FilledTo(g, i, b)
<1> DEFINE s == slots[g]
           found == Matches(s[i].child, asking[g])
           e == [s[i] EXCEPT !.bits = b, !.card = Cardinality(found), !.owned = TRUE]
           t == [s EXCEPT ![i] = e]
<1>1. s \in Seq(Entry) /\ s[i] \in Entry /\ asking[g] \in Queries /\ ix \in Indexes
  BY FrameFacts DEF Active
<1>2. found \subseteq Ids
  BY <1>1, MatchesType DEF Entry
<1>3. e \in Entry /\ e.bits = b /\ e.owned = TRUE /\ e.child = s[i].child /\ e.card = Cardinality(found)
  BY <1>1, <1>2, IdSets, GettableBitmaps DEF Entry
<1>4. slots' = [slots EXCEPT ![g] = t]
  BY <1>1 DEF SetSlots
<1> HIDE DEF e
<1>5. /\ t \in Seq(Entry) /\ Takes(s, t, {i}, i, b) /\ t[i].card = Cardinality(found)
      /\ \A j \in DOMAIN s : t[j].child = s[j].child
  BY <1>1, <1>3 DEF Takes
<1> HIDE DEF t
<1> QED BY <1>4, <1>5 DEF FilledTo

LEMMA FirstFilled ==
  ASSUME Sane, NEW g \in Goroutines, MaterializeFirst(g)
  PROVE  \/ UNCHANGED <<poolVars, slots>>
         \/ \E b \in Gettable : slots[g][1].bits = NoBitmap /\ FilledTo(g, 1, b)
<1>1. pc[g] \in Active /\ 1 \in DOMAIN slots[g]
  <2>1. pc[g] = "first"
    BY DEF MaterializeFirst
  <2>2. view[g] \in 1..Len(slots[g]) /\ DOMAIN slots[g] = 1..Len(slots[g]) /\ Len(slots[g]) \in Nat
    BY <2>1, FrameFacts DEF Layout, Active
  <2> QED BY <2>1, <2>2 DEF Active
<1> QED BY <1>1, EntryFilled DEF MaterializeFirst

LEMMA OperandFilled ==
  ASSUME Sane, NEW g \in Goroutines, MaterializeOperand(g)
  PROVE  /\ pos[g] \in DOMAIN slots[g] /\ slots[g][pos[g]].bits = NoBitmap
         /\ \/ Abandon(g) /\ Matches(slots[g][pos[g]].child, asking[g]) = {}
            \/ \E b \in Gettable : FilledTo(g, pos[g], b) /\ UNCHANGED <<pc, pos>>
<1>1. pc[g] = "operand" /\ pc[g] \in Active /\ pc[g] \in Looping
  BY DEF MaterializeOperand, Active, Looping
<1>2. pos[g] \in DOMAIN slots[g]
  <2>1. pos[g] \in 1..view[g]
    BY <1>1 DEF Sane, Layout
  <2> QED BY <1>1, <2>1, LoopFacts
<1> QED BY <1>1, <1>2, EntryFilled DEF MaterializeOperand

LEMMA FilledContents ==
  ASSUME Sane, Exclusive, Contents, NEW g \in Goroutines, pc[g] \in Active, Step(g),
         NEW i \in DOMAIN slots[g], NEW b \in Gettable, FilledTo(g, i, b),
         UNCHANGED <<view, pos, cand, asking>>,
         \/ pc'[g] = "operand" /\ pc[g] = "operand" /\ i = pos[g]
         \/ pc'[g] = "append" /\ ~Broad(g)'
  PROVE  Contents'
<1> DEFINE s == slots[g]
           q == asking[g]
<1>1. ix' = ix /\ \A h \in Goroutines \ {g} : UNCHANGED <<asking[h], Frame(h)>>
  BY StepElsewhere
<1>2. b \in Bitmaps /\ \A h \in Goroutines : ~Owned(h, b)
  BY GettableFree DEF Exclusive, Sane, TypeOK
<1>3. PICK t \in Seq(Entry) :
        /\ slots' = [slots EXCEPT ![g] = t] /\ Takes(s, t, {i}, i, b)
        /\ \A j \in DOMAIN s : t[j].child = s[j].child
  BY DEF FilledTo
<1>4. /\ s \in Seq(Entry) /\ Len(s) \in Nat /\ DOMAIN s = 1..Len(s) /\ view[g] \in 1..Len(s)
      /\ AllMatch(q) \subseteq Meet(heap, s, q, Len(s)) /\ Meet(heap, s, q, view[g]) \subseteq AllMatch(q)
  BY ActiveContent
<1>5. /\ slots'[g] = t /\ Len(t) = Len(s) /\ s[i].bits = NoBitmap /\ t[i].bits = b
      /\ \A j \in DOMAIN s \ {i} : t[j].bits = s[j].bits
      /\ heap'[b] = Matches(s[i].child, q) /\ \A x \in Bitmaps \ {b} : heap'[x] = heap[x]
  BY <1>2, <1>3 DEF FilledTo, Takes, Sane, TypeOK
<1>6. ASSUME NEW j \in DOMAIN s
      PROVE  /\ t[j].child = s[j].child
             /\ s[j].bits \in Bitmaps \cup {NoBitmap, Posting}
             /\ j # i => t[j].bits = s[j].bits
             /\ s[j].bits \in Bitmaps => heap'[s[j].bits] = heap[s[j].bits]
  BY <1>2, <1>3, <1>5, OwnBits
<1>7. ASSUME NEW n \in 0..Len(s) PROVE Meet(heap', t, q, n) = Meet(heap, s, q, n)
  <2> DEFINE h == heap
             k == heap'
  <2>1. \A j \in 1..n : SameBut(s, t, h, k, i, j)
    BY <1>4, <1>6, SMTT(30) DEF SameBut
  <2>2. s[i].bits = NoBitmap /\ t[i].bits \in Bitmaps /\ heap'[t[i].bits] = Matches(s[i].child, q)
    BY <1>2, <1>5
  <2> HIDE DEF s, q, h, k
  <2>3. k[t[i].bits] = Matches(s[i].child, q)
    BY <2>2 DEF h, k
  <2>4. Fills(s, t, h, k, q, n, i)
    BY <2>1, <2>2, <2>3 DEF Fills
  <2>5. Meet(k, t, q, n) = Meet(h, s, q, n)
    BY <2>4, MeetFilled
  <2> QED BY <2>5 DEF h, k
<1>8. ContentOf(pc'[g], heap', t, view[g], pos[g], cand[g], out'[g], q)
  <2>1. /\ AllMatch(q) \subseteq Meet(heap', t, q, Len(t))
        /\ Meet(heap', t, q, view[g]) \subseteq AllMatch(q)
    BY <1>4, <1>5, <1>7
  <2>2. CASE pc'[g] = "operand" /\ pc[g] = "operand"
    <3>1. cand[g] \in Bitmaps /\ pos[g] - 1 \in 0..Len(s)
      BY <2>2, LoopFacts DEF Looping
    <3>2. heap'[cand[g]] = heap[cand[g]]
      BY <1>2, <1>5, <3>1 DEF Owned
    <3>3. heap[cand[g]] = IF pos[g] =< 2 THEN {} ELSE Meet(heap, s, q, pos[g] - 1)
      BY <2>2 DEF Contents, Content, ContentOf
    <3>4. Meet(heap', t, q, pos[g] - 1) = Meet(heap, s, q, pos[g] - 1)
      BY <1>7, <3>1
    <3> QED BY <2>1, <2>2, <3>2, <3>3, <3>4 DEF ContentOf
  <2>3. CASE pc'[g] = "append" /\ ~Broad(g)'
    <3>1. ~(t[1].card > ScanLimit)
      BY <1>5, <2>3 DEF Broad
    <3> QED BY <2>1, <2>3, <3>1 DEF ContentOf
  <2> QED BY <2>2, <2>3
<1>9. \A x \in Bitmaps : heap'[x] # heap[x] => Owned(g, x) \/ \A h \in Goroutines : ~Owned(h, x)
  BY <1>2, <1>5
<1> QED BY <1>1, <1>5, <1>8, <1>9, ContentsBy

LEMMA MaterializeFirstContents ==
  ASSUME Sane, Exclusive, Contents, NEW g \in Goroutines, MaterializeFirst(g)
  PROVE  Contents'
<1>1. /\ pc[g] = "first" /\ pc[g] \in Active /\ pc'[g] = "append"
      /\ UNCHANGED <<ix, view, pos, cand, asking>>
  BY DEF MaterializeFirst, Goto, indexVars, Sane, TypeOK, Active
<1>2. ~Broad(g)'
  <2>1. cand'[g] = NoBitmap /\ Layout(g)'
    BY <1>1, MaterializeFirstSane DEF Sane, Layout
  <2> QED BY <1>1, <2>1, BitmapAssumption DEF Layout
<1>3. CASE UNCHANGED <<poolVars, slots>>
  <2>1. ~Broad(g) /\ Step(g) /\ heap' = heap
    BY <1>2, <1>3 DEF Broad, Step, poolVars
  <2> QED BY <1>1, <1>3, <2>1, QuietContents DEF Looping
<1>4. ASSUME NEW b \in Gettable, slots[g][1].bits = NoBitmap, FilledTo(g, 1, b) PROVE Contents'
  <2>1. 1 \in DOMAIN slots[g] /\ Step(g)
    BY <1>1, ActiveContent DEF Step
  <2> QED BY <1>1, <1>2, <1>4, <2>1, FilledContents
<1>5. \/ UNCHANGED <<poolVars, slots>>
      \/ \E b \in Gettable : slots[g][1].bits = NoBitmap /\ FilledTo(g, 1, b)
  BY FirstFilled
<1> QED BY <1>3, <1>4, <1>5

LEMMA GetCandidatesContents ==
  ASSUME Sane, Exclusive, Contents, NEW g \in Goroutines, GetCandidates(g)
  PROVE  Contents'
<1> DEFINE s == slots[g]
           q == asking[g]
<1>1. ix' = ix /\ \A h \in Goroutines \ {g} : UNCHANGED <<asking[h], Frame(h)>>
  BY StepElsewhere DEF Step
<1>2. PICK b \in Gettable : heap' = [heap EXCEPT ![b] = {}] /\ cand' = [cand EXCEPT ![g] = b]
  BY DEF GetCandidates
<1>3. b \in Bitmaps /\ \A h \in Goroutines : ~Owned(h, b)
  BY GettableFree DEF Exclusive, Sane, TypeOK
<1>4. /\ pc[g] \in Active /\ pc'[g] = "collect" /\ UNCHANGED <<slots, view, asking>> /\ cand'[g] = b
      /\ heap'[b] = {} /\ \A x \in Bitmaps \ {b} : heap'[x] = heap[x]
  BY <1>2, <1>3 DEF GetCandidates, Goto, indexVars, Active, Sane, TypeOK
<1>5. \A x \in Bitmaps : heap'[x] # heap[x] => x = cand[g] \/ ~Owned(g, x)
  BY <1>3, <1>4
<1>6. \A n \in 0..Len(s) : \A p : Meet(heap', s, p, n) = Meet(heap, s, p, n)
  BY <1>4, <1>5, MeetKept
<1>7. /\ AllMatch(q) \subseteq Meet(heap, s, q, Len(s)) /\ Meet(heap, s, q, view[g]) \subseteq AllMatch(q)
      /\ view[g] \in 0..Len(s) /\ Len(s) \in 0..Len(s)
  BY <1>4, ActiveContent
<1>8. ContentOf("collect", heap', s, view[g], pos'[g], b, out'[g], q)
  BY <1>4, <1>6, <1>7 DEF ContentOf
<1>9. \A x \in Bitmaps : heap'[x] # heap[x] => Owned(g, x) \/ \A h \in Goroutines : ~Owned(h, x)
  BY <1>3, <1>4
<1> QED BY <1>1, <1>4, <1>8, <1>9, ContentsBy

(* The group's result excludes nothing the answer has, and admits nothing   *)
(* one of its members rejects.                                             *)
LEMMA CollectGroupContents ==
  ASSUME Sane, Exclusive, Contents, NEW g \in Goroutines, CollectGroup(g)
  PROVE  Contents'
<1> DEFINE s == slots[g]
           q == asking[g]
<1>1. ix' = ix /\ \A h \in Goroutines \ {g} : UNCHANGED <<asking[h], Frame(h)>>
  BY StepElsewhere DEF Step
<1>2. PICK i \in DOMAIN slots[g], b \in Gettable, t \in Seq(Entry) : CollectTo(g, i, b, t)
  BY CollectStep
<1>3. b \in Bitmaps /\ \A h \in Goroutines : ~Owned(h, b)
  BY GettableFree DEF Exclusive, Sane, TypeOK
<1>4. /\ pc[g] \in Active /\ pc[g] = "collect" /\ pc'[g] = "collect"
      /\ UNCHANGED <<view, pos, cand, out, asking>> /\ cand[g] \in Bitmaps
  BY DEF CollectGroup, indexVars, Active, Sane, Layout
<1>5. /\ s \in Seq(Entry) /\ Len(s) \in Nat /\ DOMAIN s = 1..Len(s) /\ view[g] = Len(s)
      /\ AllMatch(q) \subseteq Meet(heap, s, q, Len(s)) /\ Meet(heap, s, q, Len(s)) \subseteq AllMatch(q)
      /\ \A j \in DOMAIN s : s[j].child \in Children
  BY <1>4, ActiveContent DEF Sane, Layout, Ranked
<1> DEFINE M == GroupOf(g, i)
           found == GroupResult(g, s[i].child)
<1>6. /\ slots'[g] = t /\ Len(t) = Len(s) /\ heap'[b] = found
      /\ \A x \in Bitmaps \ {b} : heap'[x] = heap[x]
      /\ \A j \in M : s[j].bits = NoBitmap /\ t[j].bits = b
      /\ \A j \in DOMAIN s \ M : t[j].bits = s[j].bits
      /\ \A j \in DOMAIN s : t[j].child = s[j].child
  BY <1>2, <1>3 DEF CollectTo, Takes, Sane, TypeOK
<1>7. \A j \in M : j \in DOMAIN s /\ SharedWildcard(s[i].child, s[j].child)
  BY DEF GroupOf
<1>8. ASSUME NEW id \in Ids PROVE id \in AllMatch(q) => id \in found
  BY <1>5 DEF AllMatch, GroupResult, SharedWildcard, Matches
<1>9. ASSUME NEW id \in found, NEW j \in M PROVE id \in Matches(s[j].child, q)
  <2>1. j \in DOMAIN s /\ SharedWildcard(s[i].child, s[j].child)
    BY <1>7
  <2> QED BY <1>9, <2>1 DEF GroupResult, SharedWildcard, Matches
<1> HIDE DEF M, found
<1>10. ASSUME NEW j \in DOMAIN s \ M, NEW id PROVE Accepts(heap', t[j], q, id) <=> Accepts(heap, s[j], q, id)
  <2>1. s[j].bits \in Bitmaps \cup {NoBitmap, Posting}
    BY <1>4, OwnBits
  <2>2. s[j].bits \in Bitmaps => heap'[s[j].bits] = heap[s[j].bits]
    BY <1>3, <1>4, <1>6, OwnBits
  <2>3. t[j].bits = s[j].bits /\ t[j].child = s[j].child
    BY <1>6
  <2> QED BY <2>1, <2>2, <2>3 DEF Accepts, Bits
<1>11. ASSUME NEW j \in M, NEW id
       PROVE  /\ Accepts(heap', t[j], q, id) <=> id \in found
              /\ Accepts(heap, s[j], q, id) <=> id \in Matches(s[j].child, q)
  BY <1>3, <1>6, BitmapAssumption DEF Accepts, Bits
<1>12. AllMatch(q) \subseteq Meet(heap', t, q, Len(t))
  <2>1. ASSUME NEW id \in AllMatch(q), NEW j \in 1..Len(t) PROVE Accepts(heap', t[j], q, id)
    <3>1. id \in Ids /\ id \in Meet(heap, s, q, Len(s)) /\ j \in DOMAIN s
      BY <1>5, <1>6, <2>1 DEF AllMatch
    <3>2. CASE j \in M
      BY <1>8, <1>11, <2>1, <3>1, <3>2
    <3>3. CASE j \notin M
      BY <1>5, <1>10, <3>1, <3>3 DEF Meet
    <3> QED BY <3>2, <3>3
  <2> QED BY <2>1 DEF Meet, AllMatch
<1>13. Meet(heap', t, q, Len(t)) \subseteq AllMatch(q)
  <2>1. ASSUME NEW id \in Meet(heap', t, q, Len(t)), NEW j \in 1..Len(s) PROVE Accepts(heap, s[j], q, id)
    <3>1. id \in Ids /\ Accepts(heap', t[j], q, id) /\ j \in DOMAIN s
      BY <1>5, <1>6, <2>1 DEF Meet
    <3>2. CASE j \in M
      BY <1>9, <1>11, <3>1, <3>2
    <3>3. CASE j \notin M
      BY <1>10, <3>1, <3>3
    <3> QED BY <3>2, <3>3
  <2>2. Meet(heap', t, q, Len(t)) \subseteq Meet(heap, s, q, Len(s))
    BY <2>1 DEF Meet
  <2> QED BY <1>5, <2>2
<1>14. heap'[cand[g]] = {}
  <2>1. cand[g] # b /\ heap[cand[g]] = {}
    BY <1>3, <1>4 DEF Owned, Contents, Content, ContentOf
  <2> QED BY <1>4, <1>6, <2>1
<1>15. ContentOf("collect", heap', t, view[g], pos[g], cand[g], out[g], q)
  BY <1>5, <1>6, <1>12, <1>13, <1>14 DEF ContentOf
<1>16. \A x \in Bitmaps : heap'[x] # heap[x] => Owned(g, x) \/ \A h \in Goroutines : ~Owned(h, x)
  BY <1>3, <1>6
<1> QED BY <1>1, <1>4, <1>6, <1>15, <1>16, ContentsBy

(* Members of a group read one bitmap, so the first one stands for all.    *)
LEMMA FirstStands ==
  ASSUME Sane, NEW g \in Goroutines, pc[g] = "collect", \A i \in DOMAIN slots[g] : ~Leader(slots[g], i),
         NEW j \in DOMAIN slots[g]
  PROVE  \E i \in FirstsOf(g) : \A h, q, id :
           Accepts(h, slots[g][i], q, id) <=> Accepts(h, slots[g][j], q, id)
<1> DEFINE s == slots[g]
           same == {i \in DOMAIN s : i = j \/ SharedWildcard(s[i].child, s[j].child)}
<1>1. /\ s \in Seq(Entry) /\ DOMAIN s = 1..Len(s) /\ Len(s) \in Nat /\ Ranked(g)
      /\ \A i \in DOMAIN s : s[i].child \in Children
  BY FrameFacts DEF Layout
<1>2. same \subseteq Nat /\ j \in same
  BY <1>1
<1>3. PICK i \in same : \A k \in same : i =< k
  BY <1>2, LeastNatural
<1>4. i \in FirstsOf(g)
  <2>1. ASSUME NEW k \in 1..(i - 1), SharedWildcard(s[k].child, s[i].child) PROVE FALSE
    <3>1. k \in DOMAIN s /\ i \in DOMAIN s /\ k < i
      BY <1>1, <1>3
    <3>2. SharedWildcard(s[k].child, s[j].child)
      BY <1>3, <2>1, GroupsPartition
    <3>3. k \in same
      BY <3>1, <3>2
    <3> QED BY <1>2, <1>3, <3>1, <3>3
  <2> QED BY <1>3, <2>1 DEF FirstsOf, FirstOfGroup
<1>5. CASE i = j
  BY <1>4, <1>5
<1>6. CASE i # j
  <2>1. SharedWildcard(s[i].child, s[j].child) /\ i \in DOMAIN s
    BY <1>3, <1>6
  <2>2. s[i].bits = s[j].bits /\ s[i].bits # Posting /\ s[i].child # s[j].child
    BY <1>1, <1>6, <2>1 DEF Ranked
  <2>3. Grouped(s[i].child)
    BY <1>1, <2>1, <2>2 DEF Grouped
  <2>4. s[i].bits # NoBitmap
    BY <2>1, <2>3 DEF Leader
  <2>5. \A h, q, id : Accepts(h, s[i], q, id) <=> Accepts(h, s[j], q, id)
    BY <2>2, <2>4 DEF Accepts, Bits
  <2> QED BY <1>4, <2>5
<1> QED BY <1>5, <1>6

LEMMA CompactGroupsContents ==
  ASSUME Sane, Exclusive, Contents, NEW g \in Goroutines, CompactGroups(g)
  PROVE  Contents'
<1> DEFINE s == slots[g]
           q == asking[g]
<1>1. ix' = ix /\ \A h \in Goroutines \ {g} : UNCHANGED <<asking[h], Frame(h)>>
  BY StepElsewhere DEF Step
<1>2. PICK n \in Nat : \E kept \in [1..n -> FirstsOf(g)], t \in Seq(Entry) : CompactTo(g, n, kept, t)
  BY CompactStep
<1>3. PICK kept \in [1..n -> FirstsOf(g)], t \in Seq(Entry) : CompactTo(g, n, kept, t)
  BY <1>2
<1>4. /\ pc[g] = "collect" /\ pc[g] \in Active /\ pc'[g] = "intersect"
      /\ UNCHANGED <<heap, pos, cand, out, asking>>
      /\ \A i \in DOMAIN s : ~Leader(s, i)
  BY DEF CompactGroups, Goto, indexVars, poolVars, Active, Sane, TypeOK
<1>5. /\ s \in Seq(Entry) /\ DOMAIN s = 1..Len(s) /\ Len(s) \in Nat /\ pos[g] = 1
      /\ AllMatch(q) \subseteq Meet(heap, s, q, Len(s)) /\ Meet(heap, s, q, Len(s)) \subseteq AllMatch(q)
  BY <1>4, ActiveContent DEF Sane, Layout, Ranked
<1>6. /\ n \in 1..Len(s) /\ slots'[g] = t /\ view'[g] = n /\ Len(t) = Len(s)
      /\ \A k \in FirstsOf(g) : \E i \in 1..n : kept[i] = k
      /\ \A k \in DOMAIN s : t[k] = IF k \in 1..n THEN s[kept[k]] ELSE s[k]
  BY <1>3 DEF CompactTo, Sane, TypeOK
<1>7. \A k \in 1..n : kept[k] \in DOMAIN s
  BY DEF FirstsOf
<1>8. AllMatch(q) \subseteq Meet(heap, t, q, Len(t))
  <2>1. \A k \in 1..Len(t) : \E j \in 1..Len(s) : t[k] = s[j]
    BY <1>5, <1>6, <1>7, SMTT(30)
  <2>2. Meet(heap, s, q, Len(s)) \subseteq Meet(heap, t, q, Len(t))
    BY <2>1 DEF Meet
  <2> QED BY <1>5, <2>2
<1>9. Meet(heap, t, q, n) \subseteq AllMatch(q)
  <2>1. ASSUME NEW id \in Meet(heap, t, q, n), NEW j \in 1..Len(s) PROVE Accepts(heap, s[j], q, id)
    <3>1. PICK i \in FirstsOf(g) : \A h, r, x : Accepts(h, s[i], r, x) <=> Accepts(h, s[j], r, x)
      BY <1>4, <1>5, FirstStands
    <3>2. PICK k \in 1..n : kept[k] = i
      BY <1>6
    <3>3. k \in DOMAIN s /\ t[k] = s[i]
      BY <1>5, <1>6, <3>2
    <3>4. Accepts(heap, t[k], q, id)
      BY <2>1 DEF Meet
    <3> QED BY <3>1, <3>3, <3>4
  <2>2. Meet(heap, t, q, n) \subseteq Meet(heap, s, q, Len(s))
    BY <2>1 DEF Meet
  <2> QED BY <1>5, <2>2
<1>10. heap[cand[g]] = {}
  BY <1>4 DEF Contents, Content, ContentOf
<1>11. ContentOf("intersect", heap, t, n, pos[g], cand[g], out[g], q)
  BY <1>5, <1>8, <1>9, <1>10 DEF ContentOf
<1> QED BY <1>1, <1>4, <1>6, <1>11, ContentsBy

LEMMA ChooseOperandContents ==
  ASSUME Sane, Exclusive, Contents, NEW g \in Goroutines, ChooseOperand(g)
  PROVE  Contents'
<1> DEFINE s == slots[g]
           q == asking[g]
           i == pos[g]
<1>1. ix' = ix /\ \A h \in Goroutines \ {g} : UNCHANGED <<asking[h], Frame(h)>>
  BY StepElsewhere DEF Step
<1>2. /\ pc[g] = "intersect" /\ pc[g] \in Active /\ pc[g] \in Looping /\ i =< view[g]
      /\ pc'[g] = "operand" /\ UNCHANGED <<heap, view, pos, cand, out, asking>>
  BY DEF ChooseOperand, Goto, poolVars, indexVars, Sane, TypeOK, Active, Looping
<1>3. PICK j \in i..view[g] : slots' = [slots EXCEPT ![g] = Swap(s, i, j)]
  BY ChosenOperand
<1> DEFINE t == Swap(s, i, j)
<1>4. slots'[g] = t
  BY <1>3 DEF Sane, TypeOK
<1>5. /\ s \in Seq(Entry) /\ Len(s) \in Nat /\ DOMAIN s = 1..Len(s) /\ view[g] \in 1..Len(s)
      /\ i \in DOMAIN s /\ j \in DOMAIN s /\ i \in Nat \ {0}
      /\ AllMatch(q) \subseteq Meet(heap, s, q, Len(s)) /\ Meet(heap, s, q, view[g]) \subseteq AllMatch(q)
  <2>1. /\ s \in Seq(Entry) /\ Len(s) \in Nat /\ DOMAIN s = 1..Len(s) /\ view[g] \in 1..Len(s)
        /\ AllMatch(q) \subseteq Meet(heap, s, q, Len(s)) /\ Meet(heap, s, q, view[g]) \subseteq AllMatch(q)
    BY <1>2, ActiveContent
  <2>2. i \in 1..(view[g] + 1)
    BY <1>2, LoopFacts
  <2>3. i \in 1..Len(s) /\ j \in 1..Len(s)
    BY <1>2, <1>3, <2>1, <2>2
  <2> QED BY <2>1, <2>2, <2>3
<1>6. Len(t) = Len(s)
  BY <1>5, SwapType
<1>7. ASSUME NEW n \in Nat, n = Len(s) \/ n = view[g] \/ n = i - 1
      PROVE  \A p : Meet(heap, t, p, n) = Meet(heap, s, p, n)
  <2>1. view[g] \in Nat /\ view[g] =< Len(s) /\ i =< j /\ j =< view[g]
    BY <1>3, <1>5
  <2> QED BY <1>5, <1>7, <2>1, SwapsOutside
<1> HIDE DEF t
<1>8. heap[cand[g]] = IF i =< 2 THEN {} ELSE Meet(heap, s, q, i - 1)
  BY <1>2 DEF Contents, Content, ContentOf
<1>9. ContentOf("operand", heap, t, view[g], i, cand[g], out[g], q)
  <2>1. Len(s) \in Nat /\ view[g] \in Nat /\ i - 1 \in Nat
    BY <1>5
  <2> QED BY <1>5, <1>6, <1>7, <1>8, <2>1 DEF ContentOf
<1> QED BY <1>1, <1>2, <1>4, <1>9, ContentsBy

(* What the second operand, and each later one, is intersected with.       *)
LEMMA CurrentContent ==
  ASSUME Sane, Contents, NEW g \in Goroutines, pc[g] = "operand", pos[g] > 1
  PROVE  Current(g) = Meet(heap, slots[g], asking[g], pos[g] - 1)
<1> DEFINE s == slots[g]
           q == asking[g]
<1>1. heap[cand[g]] = IF pos[g] =< 2 THEN {} ELSE Meet(heap, s, q, pos[g] - 1)
  BY DEF Contents, Content, ContentOf
<1>2. pc[g] \in Looping /\ pos[g] \in Nat
  BY LoopFacts DEF Looping
<1>3. CASE pos[g] = 2
  <2>1. s[1] \in Entry /\ s[1].bits # NoBitmap /\ q \in Queries /\ ix \in Indexes
        /\ heap \in [Bitmaps -> SUBSET Ids]
    BY <1>2, <1>3, LoopFacts
  <2>2. Bits(heap, s[1], q) \subseteq Ids
    BY <2>1, BitsType
  <2>3. Meet(heap, s, q, 1) = Bits(heap, s[1], q)
    BY <2>1, <2>2 DEF Meet, Accepts
  <2> QED BY <1>1, <1>3, <2>3 DEF Current
<1>4. CASE pos[g] > 2
  BY <1>1, <1>2, <1>4 DEF Current
<1> QED BY <1>2, <1>3, <1>4

(* The candidates after one more operand.                                  *)
LEMMA NextContent ==
  ASSUME Sane, Contents, NEW g \in Goroutines, pc[g] = "operand", pos[g] > 1
  PROVE  /\ Meet(heap, slots[g], asking[g], pos[g]) =
              {id \in Current(g) : Accepts(heap, slots[g][pos[g]], asking[g], id)}
         /\ Meet(heap, slots[g], asking[g], pos[g]) = {} => AllMatch(asking[g]) = {}
         /\ pos[g] \in 2..Len(slots[g]) /\ pos[g] \in DOMAIN slots[g]
         /\ slots[g][pos[g]].child \in Children
<1>1. pc[g] \in Looping /\ pc[g] \in Active
  BY DEF Looping, Active
<1>2. pos[g] \in 1..view[g] /\ view[g] \in 1..Len(slots[g]) /\ Len(slots[g]) \in Nat
      /\ DOMAIN slots[g] = 1..Len(slots[g])
  BY <1>1, LoopFacts DEF Sane, Layout
<1>3. pos[g] \in Nat \ {0} /\ pos[g] \in 0..Len(slots[g]) /\ pos[g] \in DOMAIN slots[g]
      /\ pos[g] \in 2..Len(slots[g])
  BY <1>2
<1>4. AllMatch(asking[g]) \subseteq Meet(heap, slots[g], asking[g], pos[g])
      /\ slots[g][pos[g]].child \in Children
  BY <1>1, <1>3, ActiveContent
<1>5. Meet(heap, slots[g], asking[g], pos[g]) =
        {id \in Current(g) : Accepts(heap, slots[g][pos[g]], asking[g], id)}
  BY <1>3, CurrentContent, MeetOneMore
<1> QED BY <1>3, <1>4, <1>5

(* Loop steps that narrow the candidates to what operand pos[g] accepts.   *)
LEMMA NarrowedContents ==
  ASSUME Sane, Exclusive, Contents, NEW g \in Goroutines, pc[g] = "operand", pos[g] > 1, Step(g),
         UNCHANGED <<indexVars, slots, view, cand, out>>,
         NEW left, left = Meet(heap, slots[g], asking[g], pos[g]),
         heap' = [heap EXCEPT ![cand[g]] = left],
         \/ left = {} /\ Goto(g, "failed") /\ UNCHANGED pos
         \/ left # {} /\ NextOperand(g, Cardinality(left))
  PROVE  Contents'
<1>1. /\ pc[g] \in Looping /\ pc[g] \in Active /\ cand[g] \in Bitmaps /\ pos[g] \in 2..Len(slots[g])
      /\ Len(slots[g]) \in Nat
  BY LoopFacts, NextContent DEF Looping, Active
<1>2. /\ heap'[cand[g]] = left /\ \A x \in Bitmaps : heap'[x] # heap[x] => x = cand[g]
      /\ UNCHANGED <<slots, view, cand, asking>>
  BY <1>1 DEF Sane, TypeOK, indexVars
<1>3. CASE left = {} /\ Goto(g, "failed") /\ UNCHANGED pos
  <2>1. pc'[g] = "failed" /\ AllMatch(asking[g]) = {}
    BY <1>3, NextContent DEF Goto, Sane, TypeOK
  <2> QED BY <1>1, <1>2, <2>1, QuietContents DEF Looping
<1>4. CASE left # {} /\ NextOperand(g, Cardinality(left))
  <2>1. pos'[g] = pos[g] + 1 /\ pc'[g] \in {"validate", "intersect"}
    BY <1>4 DEF NextOperand, Goto, Sane, TypeOK
  <2>2. pos'[g] - 1 = pos[g] /\ pos'[g] - 1 \in 0..Len(slots[g]) /\ ~(pos'[g] =< 2)
    BY <1>1, <2>1
  <2>3. heap'[cand[g]] = Meet(heap, slots[g], asking[g], pos'[g] - 1)
    BY <1>2, <2>2
  <2> QED BY <1>1, <1>2, <2>1, <2>2, <2>3, QuietContents
<1> QED BY <1>3, <1>4

LEMMA FilterOperandContents ==
  ASSUME Sane, Exclusive, Contents, NEW g \in Goroutines, FilterOperand(g)
  PROVE  Contents'
<1> DEFINE left == Current(g) \cap Matches(slots[g][pos[g]].child, asking[g])
<1>1. /\ pc[g] = "operand" /\ pos[g] > 1 /\ slots[g][pos[g]].bits = NoBitmap
      /\ UNCHANGED <<indexVars, slots, view, cand, out>>
      /\ heap' = [heap EXCEPT ![cand[g]] = left]
      /\ \/ left = {} /\ Goto(g, "failed") /\ UNCHANGED pos
         \/ left # {} /\ NextOperand(g, Cardinality(left))
  BY DEF FilterOperand
<1>2. left = Meet(heap, slots[g], asking[g], pos[g])
  BY <1>1, NextContent DEF Accepts
<1>3. Step(g)
  BY DEF Step
<1> HIDE DEF left
<1> QED BY <1>1, <1>2, <1>3, NarrowedContents

(* An early exit: the answer is empty whatever the exclusions are.         *)
LEMMA AbandonContents ==
  ASSUME Sane, Exclusive, Contents, NEW g \in Goroutines, pc[g] \in Looping, Step(g), Abandon(g),
         UNCHANGED <<indexVars, view, cand, out>>, AllMatch(asking[g]) = {}
  PROVE  Contents'
<1>1. ix' = ix /\ \A h \in Goroutines \ {g} : UNCHANGED <<asking[h], Frame(h)>>
  BY StepElsewhere
<1>2. \A h \in Goroutines \ {g} : UNCHANGED Frame(h)
  BY <1>1
<1>3. \A x \in Bitmaps : heap'[x] # heap[x] => Owned(g, x)
  BY <1>2, AbandonExclusive
<1>4. pc'[g] = "failed" /\ asking'[g] = asking[g]
  BY DEF Abandon, Goto, indexVars, Sane, TypeOK
<1>5. ContentOf(pc'[g], heap', slots'[g], view'[g], pos'[g], cand'[g], out'[g], asking'[g])
  BY <1>4 DEF ContentOf, Active
<1> QED BY <1>1, <1>3, <1>5, ContentsBy

LEMMA MaterializeOperandContents ==
  ASSUME Sane, Exclusive, Contents, NEW g \in Goroutines, MaterializeOperand(g)
  PROVE  Contents'
<1>1. /\ pc[g] = "operand" /\ pc[g] \in Looping /\ pc[g] \in Active /\ Step(g)
      /\ UNCHANGED <<indexVars, view, cand, out>> /\ UNCHANGED asking
  BY DEF MaterializeOperand, Looping, Active, Step, indexVars
<1>2. pos[g] \in DOMAIN slots[g]
  BY OperandFilled
<1>3. CASE Abandon(g) /\ Matches(slots[g][pos[g]].child, asking[g]) = {}
  <2>1. slots[g][pos[g]].child \in Children
    BY <1>1, <1>2, LoopFacts
  <2>2. AllMatch(asking[g]) = {}
    BY <1>3, <2>1 DEF AllMatch
  <2> QED BY <1>1, <1>3, <2>2, AbandonContents
<1>4. ASSUME NEW b \in Gettable, FilledTo(g, pos[g], b), UNCHANGED <<pc, pos>> PROVE Contents'
  <2>1. pc'[g] = "operand"
    BY <1>1, <1>4
  <2> QED BY <1>1, <1>2, <1>4, <2>1, FilledContents
<1> QED BY <1>3, <1>4, OperandFilled

LEMMA IntersectOperandContents ==
  ASSUME Sane, Exclusive, Contents, NEW g \in Goroutines, IntersectOperand(g)
  PROVE  Contents'
<1> DEFINE e == slots[g][pos[g]]
           left == Current(g) \cap Bits(heap, e, asking[g])
<1>1. /\ pc[g] = "operand" /\ e.bits # NoBitmap /\ pc[g] \in Looping /\ pc[g] \in Active
      /\ UNCHANGED <<indexVars, view, cand, out>> /\ Step(g)
  BY DEF IntersectOperand, Step, Looping, Active
<1>2. pos[g] > 1 => left = Meet(heap, slots[g], asking[g], pos[g])
  BY <1>1, NextContent DEF Accepts
<1>3. CASE pos[g] = 1 /\ pos' = [pos EXCEPT ![g] = 2] /\ Goto(g, "intersect")
           /\ UNCHANGED <<poolVars, slots>>
  <2>1. pc'[g] = "intersect" /\ pos'[g] = 2 /\ heap' = heap /\ UNCHANGED asking
    BY <1>1, <1>3 DEF Goto, Sane, TypeOK, poolVars, indexVars
  <2>2. heap[cand[g]] = {}
    BY <1>1, <1>3 DEF Contents, Content, ContentOf
  <2>3. pos'[g] - 1 \in 0..Len(slots[g]) /\ pos'[g] =< 2
    BY <1>1, <2>1, LoopFacts
  <2> QED BY <1>1, <1>3, <2>1, <2>2, <2>3, QuietContents
<1>4. CASE pos[g] > 1 /\ left # {} /\ heap' = [heap EXCEPT ![cand[g]] = left]
           /\ NextOperand(g, Cardinality(left)) /\ UNCHANGED <<free, slots>>
  <2> HIDE DEF left
  <2> QED BY <1>1, <1>2, <1>4, NarrowedContents
<1>5. CASE pos[g] > 1 /\ left = {} /\ Abandon(g)
  <2>1. AllMatch(asking[g]) = {}
    BY <1>1, <1>2, <1>5, NextContent
  <2> QED BY <1>1, <1>5, <2>1, AbandonContents
<1> QED BY <1>3, <1>4, <1>5 DEF IntersectOperand

(* A small operand moves to the front, and is the candidate set.           *)
LEMMA SmallOperandContents ==
  ASSUME Sane, Exclusive, Contents, NEW g \in Goroutines, SmallOperand(g)
  PROVE  Contents'
<1> DEFINE s == slots[g]
           q == asking[g]
           i == pos[g]
           t == Swap(s, 1, i)
           h == heap'
<1>1. ix' = ix /\ \A k \in Goroutines \ {g} : UNCHANGED <<asking[k], Frame(k)>>
  BY StepElsewhere DEF Step
<1>2. /\ pc[g] = "operand" /\ pc[g] \in Active /\ pc[g] \in Looping /\ s[i].bits # NoBitmap
      /\ pc'[g] = "validate" /\ pos'[g] = 2 /\ UNCHANGED <<view, cand, out, asking>>
      /\ heap' = [heap EXCEPT ![cand[g]] = Bits(heap, s[i], q)]
      /\ slots'[g] = t
  BY DEF SmallOperand, SetSlots, Goto, indexVars, Sane, TypeOK, Active, Looping
<1>3. /\ s \in Seq(Entry) /\ Len(s) \in Nat /\ DOMAIN s = 1..Len(s) /\ view[g] \in 1..Len(s)
      /\ AllMatch(q) \subseteq Meet(heap, s, q, Len(s)) /\ Meet(heap, s, q, view[g]) \subseteq AllMatch(q)
      /\ q \in Queries /\ ix \in Indexes
  BY <1>2, ActiveContent
<1>4. i \in 1..view[g] /\ cand[g] \in Bitmaps /\ heap \in [Bitmaps -> SUBSET Ids]
  BY <1>2, LoopFacts DEF Sane, Layout
<1>5. i \in DOMAIN s /\ 1 \in DOMAIN s /\ s[i] \in Entry /\ i \in Nat /\ 1 =< i /\ i =< view[g]
      /\ view[g] \in Nat /\ view[g] =< Len(s)
  BY <1>3, <1>4
<1>6. Len(t) = Len(s) /\ t[1] = s[i]
  <2>1. s \in Seq(Entry) /\ 1 \in DOMAIN s /\ i \in DOMAIN s
    BY <1>3, <1>5
  <2> HIDE DEF s, i
  <2>2. Len(t) = Len(s)
    BY <2>1, SwapType
  <2>3. t[1] = IF 1 = i THEN s[1] ELSE IF 1 = 1 THEN s[i] ELSE s[1]
    BY <2>1, SwapType
  <2> QED BY <2>2, <2>3
<1>7. h[cand[g]] = Bits(heap, s[i], q) /\ \A x \in Bitmaps : h[x] # heap[x] => x = cand[g]
  BY <1>2, <1>4
<1> HIDE DEF t, h
<1>8. ASSUME NEW n \in Nat, n = Len(s) \/ n = view[g]
      PROVE  Meet(h, t, q, n) = Meet(heap, s, q, n)
  <2>1. n \in 0..Len(s)
    BY <1>3, <1>5, <1>8
  <2>2. Meet(h, s, q, n) = Meet(heap, s, q, n)
    <3>1. \A x \in Bitmaps : h[x] # heap[x] => x = cand[g] \/ ~Owned(g, x)
      BY <1>7
    <3> QED BY <1>2, <2>1, <3>1, MeetKept
  <2>3. Meet(h, t, q, n) = Meet(h, s, q, n)
    BY <1>3, <1>5, <1>8, SwapsOutside DEF t
  <2> QED BY <2>2, <2>3
<1>9. Meet(h, t, q, 1) = Bits(heap, s[i], q)
  <2>1. s[i].bits \in Bitmaps \cup {NoBitmap, Posting} /\ (s[i].bits \in Bitmaps => s[i].bits # cand[g])
    BY <1>2, <1>5, OwnBits
  <2>2. Bits(h, s[i], q) = Bits(heap, s[i], q)
    BY <1>2, <1>7, <2>1 DEF Bits
  <2>3. Bits(heap, s[i], q) \subseteq Ids
    BY <1>2, <1>3, <1>4, <1>5, BitsType
  <2> QED BY <1>2, <1>6, <2>2, <2>3 DEF Meet, Accepts
<1>10. ContentOf("validate", h, t, view[g], 2, cand[g], out[g], q)
  BY <1>3, <1>5, <1>6, <1>7, <1>8, <1>9 DEF ContentOf
<1>11. \A x \in Bitmaps : heap'[x] # heap[x] => Owned(g, x) \/ \A k \in Goroutines : ~Owned(k, x)
  BY <1>7 DEF Owned, h
<1>12. ContentOf(pc'[g], heap', slots'[g], view'[g], pos'[g], cand'[g], out'[g], asking'[g])
  BY <1>2, <1>10 DEF h
<1> QED BY <1>1, <1>11, <1>12, ContentsBy

LEMMA EndIntersectionContents ==
  ASSUME Sane, Exclusive, Contents, NEW g \in Goroutines, EndIntersection(g)
  PROVE  Contents'
<1> DEFINE s == slots[g]
           q == asking[g]
<1>1. /\ pc[g] = "intersect" /\ pc[g] \in Active /\ pc[g] \in Looping /\ pc'[g] = "append"
      /\ pos[g] > view[g] /\ UNCHANGED <<slots, view, cand, asking>> /\ Step(g)
      /\ heap' = IF view[g] # 1 THEN heap
                 ELSE [heap EXCEPT ![cand[g]] = heap[cand[g]] \cup Bits(heap, s[1], q)]
  BY DEF EndIntersection, Goto, indexVars, Active, Looping, Step, Sane, TypeOK
<1>2. /\ pos[g] = view[g] + 1 /\ view[g] \in Nat \ {0} /\ cand[g] \in Bitmaps
      /\ s[1].bits # NoBitmap /\ heap \in [Bitmaps -> SUBSET Ids]
  BY <1>1, LoopFacts
<1>3. /\ Meet(heap, s, q, view[g]) = AllMatch(q) /\ q \in Queries /\ ix \in Indexes
      /\ s[1] \in Entry
  BY <1>1, ActiveContent
<1>4. heap[cand[g]] = IF pos[g] =< 2 THEN {} ELSE Meet(heap, s, q, pos[g] - 1)
  BY <1>1 DEF Contents, Content, ContentOf
<1>5. CASE view[g] = 1
  <2>1. Bits(heap, s[1], q) \subseteq Ids
    BY <1>2, <1>3, BitsType
  <2>2. Meet(heap, s, q, 1) = Bits(heap, s[1], q)
    BY <1>2, <2>1 DEF Meet, Accepts
  <2>3. heap'[cand[g]] = AllMatch(q)
    BY <1>1, <1>2, <1>3, <1>4, <1>5, <2>2
  <2>4. \A x \in Bitmaps : heap'[x] # heap[x] => x = cand[g]
    BY <1>1, <1>2, <1>5
  <2> QED BY <1>1, <2>3, <2>4, QuietContents DEF Looping
<1>6. CASE view[g] # 1
  <2>1. heap' = heap /\ heap[cand[g]] = AllMatch(q)
    BY <1>1, <1>2, <1>3, <1>4, <1>6
  <2> QED BY <1>1, <2>1, QuietContents DEF Looping
<1> QED BY <1>5, <1>6

(* The candidates that survive the remaining operands are the answer.      *)
LEMMA ValidateCandidatesContents ==
  ASSUME Sane, Exclusive, Contents, NEW g \in Goroutines, ValidateCandidates(g)
  PROVE  Contents'
<1> DEFINE s == slots[g]
           q == asking[g]
<1>1. /\ pc[g] = "validate" /\ pc[g] \in Active /\ pc[g] \in Looping /\ Step(g)
      /\ UNCHANGED <<slots, view, cand, asking>> /\ ix' = ix
  BY DEF ValidateCandidates, indexVars, Active, Looping, Step
<1>2. PICK b \in Gettable :
        LET h == [heap EXCEPT ![b] = {}]
            accepted == {id \in h[cand[g]] : \A i \in pos[g]..view[g] : Accepts(h, s[i], q, id)}
        IN  /\ heap' = IF b = cand[g] THEN h ELSE [h EXCEPT ![cand[g]] = accepted]
            /\ Goto(g, IF heap'[cand[g]] = {} THEN "failed" ELSE "append")
  BY DEF ValidateCandidates
<1> DEFINE h == [heap EXCEPT ![b] = {}]
<1>3. b \in Bitmaps /\ \A k \in Goroutines : ~Owned(k, b)
  BY GettableFree DEF Exclusive, Sane, TypeOK
<1>4. /\ cand[g] \in Bitmaps /\ heap \in [Bitmaps -> SUBSET Ids] /\ view[g] \in 1..Len(s)
      /\ pos[g] \in 1..(view[g] + 1) /\ Len(s) \in Nat /\ DOMAIN s = 1..Len(s)
  BY <1>1, LoopFacts
<1>5. b # cand[g] /\ \A x \in Bitmaps : h[x] # heap[x] => x = b
  BY <1>3, <1>4 DEF Owned
<1>6. h[cand[g]] = heap[cand[g]] /\ heap[cand[g]] = Meet(heap, s, q, pos[g] - 1)
  BY <1>1, <1>4, <1>5 DEF Contents, Content, ContentOf
<1>7. ASSUME NEW i \in 1..Len(s), NEW id PROVE Accepts(h, s[i], q, id) <=> Accepts(heap, s[i], q, id)
  <2>1. s[i].bits \in Bitmaps \cup {NoBitmap, Posting} /\ (s[i].bits \in Bitmaps => Owned(g, s[i].bits))
    BY <1>1, <1>4, OwnBits
  <2>2. s[i].bits \in Bitmaps => h[s[i].bits] = heap[s[i].bits]
    BY <1>3, <1>5, <2>1
  <2> HIDE DEF h, s
  <2> QED BY <2>1, <2>2 DEF Accepts, Bits
<1> DEFINE accepted == {id \in h[cand[g]] : \A i \in pos[g]..view[g] : Accepts(h, s[i], q, id)}
<1>8. accepted = AllMatch(q)
  <2>1. \A i \in pos[g]..view[g] : i \in 1..Len(s)
    BY <1>4
  <2> HIDE DEF h
  <2>2. accepted = {id \in Meet(heap, s, q, pos[g] - 1) :
                      \A i \in pos[g]..view[g] : Accepts(heap, s[i], q, id)}
    BY <1>6, <1>7, <2>1
  <2>3. \A i : i \in 1..view[g] <=> (i \in 1..(pos[g] - 1) \/ i \in pos[g]..view[g])
    BY <1>4
  <2>4. accepted = Meet(heap, s, q, view[g])
    BY <2>2, <2>3 DEF Meet
  <2> QED BY <1>1, <2>4, ActiveContent
<1>9. heap' = [h EXCEPT ![cand[g]] = accepted]
  BY <1>2, <1>5
<1> HIDE DEF accepted
<1>10. heap'[cand[g]] = AllMatch(q)
  BY <1>4, <1>8, <1>9
<1>11. /\ pc'[g] \in {"failed", "append"} /\ (pc'[g] = "failed" => heap'[cand[g]] = {})
  BY <1>2 DEF Goto, Sane, TypeOK
<1>12. \A x \in Bitmaps : heap'[x] # heap[x] => x = cand[g] \/ \A k \in Goroutines : ~Owned(k, x)
  <2>1. \A x \in Bitmaps \ {cand[g], b} : heap'[x] = heap[x]
    BY <1>4, <1>9
  <2> QED BY <1>3, <2>1
<1> QED BY <1>1, <1>10, <1>11, <1>12, QuietContents DEF Looping

(* Result assembly returns the candidates, or scans the first operand.     *)
LEMMA AppendMatchesContents ==
  ASSUME Sane, Exclusive, Contents, NEW g \in Goroutines, AppendMatches(g)
  PROVE  Contents'
<1> DEFINE s == slots[g]
           q == asking[g]
<1>1. /\ pc[g] = "append" /\ pc[g] \in Active /\ Step(g) /\ pc'[g] = "release"
      /\ UNCHANGED <<slots, view, cand, asking, heap>> /\ ix' = ix
  BY DEF AppendMatches, Goto, indexVars, poolVars, Active, Step, Sane, TypeOK
<1>2. PICK b \in Gettable :
        LET h == IF ix.excluded[q] = {} \/ ~Broad(g) THEN heap
                 ELSE [heap EXCEPT ![b] = ix.excluded[q]]
        IN  out' = [out EXCEPT ![g] = (IF Broad(g) THEN h[cand[g]]
              ELSE {id \in Bits(h, s[1], q) : \A i \in 2..Len(s) : Accepts(h, s[i], q, id)})
              \ ix.excluded[q]]
  BY DEF AppendMatches
<1>3. b \in Bitmaps /\ b # cand[g]
  BY GettableFree DEF Exclusive, Sane, TypeOK, Owned
<1>4. /\ s[1].bits # NoBitmap /\ (Broad(g) => cand[g] \in Bitmaps)
      /\ heap \in [Bitmaps -> SUBSET Ids] /\ out \in [Goroutines -> SUBSET Ids]
  BY <1>1 DEF Sane, Layout, TypeOK
<1>5. /\ AllMatch(q) \subseteq Meet(heap, s, q, Len(s)) /\ Meet(heap, s, q, view[g]) \subseteq AllMatch(q)
      /\ view[g] \in 1..Len(s) /\ Len(s) \in Nat /\ q \in Queries /\ ix \in Indexes /\ s[1] \in Entry
  BY <1>1, ActiveContent
<1>6. out'[g] = AllMatch(q) \ ix.excluded[q]
  <2>1. CASE Broad(g)
    <3>1. heap[cand[g]] = AllMatch(q)
      BY <1>1, <2>1 DEF Contents, Content, ContentOf, Broad
    <3> QED BY <1>2, <1>3, <1>4, <2>1, <3>1
  <2>2. CASE ~Broad(g)
    <3>1. out'[g] = {id \in Bits(heap, s[1], q) : \A i \in 2..Len(s) : Accepts(heap, s[i], q, id)}
                    \ ix.excluded[q]
      BY <1>2, <1>4, <2>2
    <3>2. Bits(heap, s[1], q) \subseteq Ids
      BY <1>4, <1>5, BitsType
    <3>3. \A i : i \in 1..Len(s) <=> (i = 1 \/ i \in 2..Len(s))
      BY <1>5
    <3>4. \A id : id \in Bits(heap, s[1], q) <=> Accepts(heap, s[1], q, id)
      BY <1>4 DEF Accepts
    <3>5. {id \in Bits(heap, s[1], q) : \A i \in 2..Len(s) : Accepts(heap, s[i], q, id)} =
            Meet(heap, s, q, Len(s))
      BY <3>2, <3>3, <3>4 DEF Meet
    <3>6. Meet(heap, s, q, Len(s)) \subseteq Meet(heap, s, q, view[g])
      BY <1>5, MeetShrinks
    <3> QED BY <1>5, <3>1, <3>5, <3>6
  <2> QED BY <2>1, <2>2
<1>7. out'[g] = Matching(asking[g])
  BY <1>6, MatchingAll
<1> QED BY <1>1, <1>7, QuietContents DEF Looping

LEMMA ReleaseContents ==
  ASSUME Sane, Exclusive, Contents, NEW g \in Goroutines, Release(g)
  PROVE  Contents'
<1>1. ix' = ix /\ \A h \in Goroutines \ {g} : UNCHANGED <<asking[h], Frame(h)>>
  BY StepElsewhere DEF Step
<1>2. pc'[g] = "idle"
  BY DEF Release, Goto, Sane, TypeOK
<1>3. ContentOf(pc'[g], heap', slots'[g], view'[g], pos'[g], cand'[g], out'[g], asking'[g])
  BY <1>2 DEF ContentOf, Active
<1> QED BY <1>1, <1>3, ReleaseExclusive, ContentsBy

LEMMA SameContents ==
  ASSUME Sane, Exclusive, Contents, UNCHANGED <<indexVars, heap, frameVars>>
  PROVE  Contents'
<1> SUFFICES ASSUME NEW h \in Goroutines PROVE Content(h)'
  BY DEF Contents
<1>1. Content(h) /\ ix' = ix /\ UNCHANGED <<asking[h], Frame(h)>> /\ heap' = heap
  BY DEF Contents, Frame, indexVars, frameVars
<1> QED BY <1>1, ContentElsewhere

LEMMA ContentsStep ==
  ASSUME OneSharedWildcard, Sane, Exclusive, Contents, [Next]_vars PROVE Contents'
<1>1. CASE UNCHANGED vars
  BY <1>1, SameContents DEF vars, poolVars
<1>2. ASSUME NEW g \in Goroutines, NEW q \in Queries, Begin(g, q) PROVE Contents'
  BY <1>2, BeginContents
<1>3. ASSUME NEW g \in Goroutines, Step(g) PROVE Contents'
  BY <1>3, RankEmptyContents, RankContents, MaterializeFirstContents, GetCandidatesContents,
     CollectGroupContents, CompactGroupsContents, ChooseOperandContents, FilterOperandContents,
     MaterializeOperandContents, SmallOperandContents, IntersectOperandContents,
     EndIntersectionContents, ValidateCandidatesContents, AppendMatchesContents, ReleaseContents
     DEF Step
<1>4. ASSUME NEW b \in Bitmaps, Forget(b) PROVE Contents'
  BY <1>4, SameContents DEF Forget
<1> QED BY <1>1, <1>2, <1>3, <1>4 DEF Next

LEMMA AlwaysContents == OneSharedWildcard => (Spec => [](Sane /\ Exclusive /\ Contents))
<1> SUFFICES ASSUME OneSharedWildcard PROVE Spec => [](Sane /\ Exclusive /\ Contents)
  OBVIOUS
<1>1. Init => Sane /\ Exclusive /\ Contents
  BY InitSane, InitExclusive, InitContents
<1>2. Sane /\ Exclusive /\ Contents /\ [Next]_vars => (Sane /\ Exclusive /\ Contents)'
  BY SaneStep, ExclusiveStep, ContentsStep
<1> QED BY <1>1, <1>2, PTL DEF Spec

LEMMA ContentsAnswer == Sane /\ Contents => AnswersExact
<1> SUFFICES ASSUME Sane, Contents, NEW g \in Goroutines, pc[g] \in {"release", "failed"}
             PROVE  out[g] = Matching(asking[g])
  BY DEF AnswersExact
<1>1. CASE pc[g] = "release"
  BY <1>1 DEF Contents, Content, ContentOf
<1>2. CASE pc[g] = "failed"
  <2>1. AllMatch(asking[g]) = {} /\ out[g] = {}
    BY <1>2 DEF Contents, Content, ContentOf, Sane, Layout
  <2> QED BY <2>1, MatchingAll
<1> QED BY <1>1, <1>2

(* Whatever the cost model chooses and however the goroutines share the    *)
(* pool, a search that is about to return holds the IDs that match every   *)
(* child and are not excluded.                                             *)
THEOREM AnswersExactHolds == OneSharedWildcard => (Spec => []AnswersExact)
BY AlwaysContents, ContentsAnswer, PTL

(* Index.Search over a root All is one read of the snapshot: a search asks *)
(* when it begins, answers when it returns, and its other steps change     *)
(* nothing a caller sees.                                                  *)
THEOREM SearchReadsSnapshot == OneSharedWildcard => (Spec => IndexSpec)
<1> SUFFICES ASSUME OneSharedWildcard PROVE Spec => IndexSpec
  OBVIOUS
<1>1. Init => IndexInit
  BY DEF Init
<1>2. Sane /\ Contents /\ [Next]_vars => [IndexNext]_indexVars
  <2> SUFFICES ASSUME Sane, Contents, [Next]_vars PROVE [IndexNext]_indexVars
    OBVIOUS
  <2>1. CASE UNCHANGED vars
    BY <2>1 DEF vars
  <2>2. ASSUME NEW g \in Goroutines, NEW q \in Queries, Begin(g, q) PROVE IndexNext
    BY <2>2 DEF Begin, IndexNext
  <2>3. ASSUME NEW g \in Goroutines, Release(g) PROVE IndexNext
    <3>1. out[g] = Matching(asking[g])
      BY <2>3, ContentsAnswer DEF AnswersExact, Release
    <3>2. asking[g] # NoQuery
      BY <2>3 DEF Sane, Layout, Release
    <3> QED BY <2>3, <3>1, <3>2 DEF Release, IndexNext, Return
  <2>4. ASSUME NEW g \in Goroutines, Step(g), ~Release(g) PROVE UNCHANGED indexVars
    BY <2>4 DEF Step, RankEmpty, Rank, MaterializeFirst, GetCandidates, CollectGroup, CompactGroups,
       ChooseOperand, FilterOperand, MaterializeOperand, SmallOperand, IntersectOperand,
       EndIntersection, ValidateCandidates, AppendMatches
  <2>5. ASSUME NEW b \in Bitmaps, Forget(b) PROVE UNCHANGED indexVars
    BY <2>5 DEF Forget
  <2> QED BY <2>1, <2>2, <2>3, <2>4, <2>5 DEF Next
<1> QED BY <1>1, <1>2, AlwaysContents, PTL DEF Spec, IndexSpec

-----------------------------------------------------------------------------
(* A search ends.  No hypothesis on the index is needed here.              *)

Room == \A g \in Goroutines : DOMAIN slots[g] \subseteq Children

(* What is left inside a phase counts less than a phase.                   *)
Bounded ==
  \A g \in Goroutines : PhasesLeft(g) \in 0..7 /\ LoopLeft(g) \in 0..(3 * Width + 2)

LEMMA ChildrenFew ==
  ASSUME NEW S \in SUBSET Children PROVE Cardinality(S) \in 0..Width
<1>1. Width \in Nat /\ IsFiniteSet(Children) /\ Cardinality(Children) = Width
  <2>1. Width \in Nat /\ 1 =< Width
    BY WidthAssumption
  <2>2. Cardinality(1..Width) = IF 1 > Width THEN 0 ELSE Width - 1 + 1
    BY <2>1, FS_Interval
  <2> QED BY <2>1, <2>2, FS_Interval DEF Children
<1>2. Cardinality(S) =< Cardinality(Children) /\ Cardinality(S) \in Nat
  BY <1>1, FS_Subset, ChildrenFinite
<1> QED BY <1>1, <1>2

(* Only ranking and returning change the length of the slice.              *)
LEMMA RoomInStep ==
  ASSUME Sane, Room, NEW g \in Goroutines, Step(g)
  PROVE  DOMAIN slots'[g] \subseteq Children
<1>0. slots \in [Goroutines -> Seq(Entry)] /\ DOMAIN slots[g] \subseteq Children
  BY DEF Sane, TypeOK, Room
<1>1. CASE Rank(g)
  <2>1. Cardinality(Kept(asking[g])) \in 0..Width
    BY ChildrenFew DEF Kept
  <2>2. DOMAIN slots'[g] = 1..Cardinality(Kept(asking[g]))
    <3> DEFINE t == slots'[g]
    <3>1. t = [i \in 1..Cardinality(Kept(asking[g])) |-> t[i]]
      BY <1>1 DEF Rank, SetSlots, Sane, TypeOK
    <3> HIDE DEF t
    <3>2. DOMAIN t = 1..Cardinality(Kept(asking[g]))
      BY <3>1
    <3> QED BY <3>2 DEF t
  <2> QED BY <2>1, <2>2, WidthAssumption DEF Children
<1>2. CASE Release(g)
  BY <1>0, <1>2 DEF Release, SetSlots
<1>3. CASE MaterializeFirst(g)
  BY <1>0, <1>3 DEF MaterializeFirst, SetSlots
<1>4. CASE CollectGroup(g)
  BY <1>0, <1>4 DEF CollectGroup, SetSlots
<1>5. CASE CompactGroups(g)
  BY <1>0, <1>5 DEF CompactGroups, SetSlots, Compacted
<1>6. CASE ChooseOperand(g)
  BY <1>0, <1>6 DEF ChooseOperand, SetSlots, Swap
<1>7. CASE MaterializeOperand(g)
  BY <1>0, <1>7 DEF MaterializeOperand, Abandon, Disown, SetSlots
<1>8. CASE SmallOperand(g)
  BY <1>0, <1>8 DEF SmallOperand, SetSlots, Swap
<1>9. CASE IntersectOperand(g)
  BY <1>0, <1>9 DEF IntersectOperand, Abandon, Disown, SetSlots
<1>10. CASE \/ RankEmpty(g) \/ GetCandidates(g) \/ FilterOperand(g) \/ EndIntersection(g)
            \/ ValidateCandidates(g) \/ AppendMatches(g)
  BY <1>0, <1>10 DEF RankEmpty, GetCandidates, FilterOperand, EndIntersection, ValidateCandidates,
     AppendMatches
<1> QED BY <1>1, <1>2, <1>3, <1>4, <1>5, <1>6, <1>7, <1>8, <1>9, <1>10 DEF Step

LEMMA RoomStep == ASSUME Sane, Room, [Next]_vars PROVE Room'
<1>1. CASE UNCHANGED vars
  BY <1>1 DEF vars, frameVars, Room
<1>2. ASSUME NEW g \in Goroutines, NEW q \in Queries, Begin(g, q) PROVE Room'
  BY <1>2 DEF Begin, Room
<1>3. ASSUME NEW g \in Goroutines, Step(g) PROVE Room'
  <2>1. ASSUME NEW h \in Goroutines \ {g} PROVE slots'[h] = slots[h]
    BY <1>3, StepElsewhere DEF Frame
  <2> QED BY <1>3, <2>1, RoomInStep DEF Room
<1>4. ASSUME NEW b \in Bitmaps, Forget(b) PROVE Room'
  BY <1>4 DEF Forget, frameVars, Room
<1> QED BY <1>1, <1>2, <1>3, <1>4 DEF Next

LEMMA BoundedWork == Sane /\ Room => Bounded
<1> SUFFICES ASSUME Sane, Room, NEW g \in Goroutines
             PROVE  PhasesLeft(g) \in 0..7 /\ LoopLeft(g) \in 0..(3 * Width + 2)
  BY DEF Bounded
<1>1. pc[g] \in Phases /\ Width \in Nat
  BY WidthAssumption DEF Sane, TypeOK
<1>2. PhasesLeft(g) \in 0..7
  BY <1>1 DEF PhasesLeft, Phases
<1>3. CASE pc[g] = "collect"
  <2>1. {i \in DOMAIN slots[g] : Leader(slots[g], i)} \in SUBSET Children
    BY DEF Room
  <2>2. Cardinality({i \in DOMAIN slots[g] : Leader(slots[g], i)}) \in 0..Width
    BY <2>1, ChildrenFew
  <2>3. LoopLeft(g) = Cardinality({i \in DOMAIN slots[g] : Leader(slots[g], i)})
    BY <1>3 DEF LoopLeft
  <2> QED BY <1>1, <1>2, <2>2, <2>3
<1>4. CASE pc[g] \in {"intersect", "operand"}
  <2>1. pos[g] \in 1..(view[g] + 1) /\ view[g] \in 1..Len(slots[g]) /\ Len(slots[g]) \in Nat
        /\ DOMAIN slots[g] = 1..Len(slots[g]) /\ (pc[g] = "operand" => pos[g] \in 1..view[g])
    BY <1>4, LoopFacts DEF Looping, Sane, Layout
  <2>2. view[g] =< Width
    <3>1. view[g] \in Children
      BY <2>1 DEF Room
    <3> QED BY <3>1 DEF Children
  <2>3. CASE pc[g] = "intersect"
    <3>1. LoopLeft(g) = 3 * (Width + 1 - pos[g]) + 2
      BY <2>3 DEF LoopLeft
    <3>2. pos[g] \in Nat /\ 1 =< pos[g] /\ pos[g] =< Width + 1
      <4> DEFINE v == view[g]
      <4>1. v \in Nat /\ v =< Width /\ pos[g] \in 1..(v + 1)
        BY <2>1, <2>2
      <4> HIDE DEF v
      <4> QED BY <1>1, <4>1
    <3> QED BY <1>1, <1>2, <3>1, <3>2
  <2>4. CASE pc[g] = "operand"
    <3>1. LoopLeft(g) = 3 * (Width + 1 - pos[g]) + (IF slots[g][pos[g]].bits = NoBitmap THEN 1 ELSE 0)
      BY <2>4 DEF LoopLeft
    <3>2. pos[g] \in Nat /\ 1 =< pos[g] /\ pos[g] =< Width
      <4> DEFINE v == view[g]
      <4>1. v \in Nat /\ v =< Width /\ pos[g] \in 1..v
        BY <2>1, <2>2, <2>4
      <4> HIDE DEF v
      <4> QED BY <1>1, <4>1
    <3> QED BY <1>1, <1>2, <3>1, <3>2
  <2> QED BY <1>4, <2>3, <2>4
<1>5. CASE pc[g] \notin {"collect", "intersect", "operand"}
  <2>1. LoopLeft(g) = 0
    BY <1>5 DEF LoopLeft
  <2> QED BY <1>1, <1>2, <2>1
<1> QED BY <1>2, <1>3, <1>4, <1>5

LEMMA AlwaysRoom == Spec => [](Sane /\ Room)
<1>1. Init => Sane /\ Room
  BY InitSane DEF Init, Room
<1>2. Sane /\ Room /\ [Next]_vars => (Sane /\ Room)'
  BY SaneStep, RoomStep
<1> QED BY <1>1, <1>2, PTL DEF Spec

(* A later phase has less work left, whatever its loops still have to do.  *)
LEMMA PhaseDrops ==
  ASSUME Bounded, Bounded', NEW g \in Goroutines, PhasesLeft(g)' < PhasesLeft(g)
  PROVE  WorkLeft(g)' < WorkLeft(g)
<1> DEFINE w == 3 * Width + 3
           a == PhasesLeft(g)
           b == PhasesLeft(g)'
           l == LoopLeft(g)
           m == LoopLeft(g)'
<1>1. Width \in Nat
  BY WidthAssumption
<1>2. w \in Nat /\ a \in 0..7 /\ b \in 0..7 /\ b < a /\ l \in 0..(w - 1) /\ m \in 0..(w - 1)
  BY <1>1 DEF Bounded
<1> HIDE DEF w, a, b, l, m
<1>3. w * b + w =< w * a
  <2>1. \/ a = 1 \/ a = 2 \/ a = 3 \/ a = 4 \/ a = 5 \/ a = 6 \/ a = 7
    BY <1>2
  <2>2. \/ b = 0 \/ b = 1 \/ b = 2 \/ b = 3 \/ b = 4 \/ b = 5 \/ b = 6
    BY <1>2
  <2> QED BY <1>2, <2>1, <2>2
<1>4. w * b \in Int /\ w * a \in Int
  BY <1>2
<1>5. w * b + m < w * a + l
  BY <1>2, <1>3, <1>4
<1> QED BY <1>5 DEF WorkLeft, w, a, b, l, m

LEMMA LoopDrops ==
  ASSUME Bounded, Bounded', NEW g \in Goroutines,
         PhasesLeft(g)' = PhasesLeft(g), LoopLeft(g)' < LoopLeft(g)
  PROVE  WorkLeft(g)' < WorkLeft(g)
<1> DEFINE w == (3 * Width + 3) * PhasesLeft(g)
           l == LoopLeft(g)
           m == LoopLeft(g)'
<1>1. Width \in Nat
  BY WidthAssumption
<1>2. w \in Int /\ l \in Int /\ m \in Int
  BY <1>1 DEF Bounded
<1>3. WorkLeft(g)' = w + m /\ WorkLeft(g) = w + l
  BY DEF WorkLeft
<1> HIDE DEF w, l, m
<1>4. w + m < w + l
  BY <1>2 DEF l, m
<1> QED BY <1>3, <1>4

(* The loop makes progress inside its phase in three ways.                 *)
LEMMA StepForward ==
  ASSUME Sane, NEW g \in Goroutines, Step(g)
  PROVE  \/ PhasesLeft(g)' < PhasesLeft(g)
         \/ CollectGroup(g)
         \/ pc[g] = "intersect" /\ pc'[g] = "operand" /\ pos'[g] = pos[g]
         \/ pc[g] = "operand" /\ pc'[g] = "intersect" /\ pos'[g] = pos[g] + 1
         \/ /\ pc[g] = "operand" /\ pc'[g] = "operand" /\ pos'[g] = pos[g]
            /\ slots[g][pos[g]].bits = NoBitmap /\ slots'[g][pos[g]].bits # NoBitmap
<1>0. pc \in [Goroutines -> Phases] /\ pos \in [Goroutines -> Nat] /\ slots \in [Goroutines -> Seq(Entry)]
  BY DEF Sane, TypeOK
<1>1. CASE RankEmpty(g)
  BY <1>0, <1>1 DEF RankEmpty, Goto, PhasesLeft
<1>2. CASE Rank(g)
  <2>1. pc[g] = "rank" /\ pc'[g] \in {"candidates", "first"}
    BY <1>0, <1>2 DEF Rank, Goto
  <2> QED BY <2>1 DEF PhasesLeft
<1>3. CASE MaterializeFirst(g)
  <2>1. pc[g] = "first" /\ pc'[g] = "append"
    BY <1>0, <1>3 DEF MaterializeFirst, Goto
  <2> QED BY <2>1 DEF PhasesLeft
<1>4. CASE GetCandidates(g)
  BY <1>0, <1>4 DEF GetCandidates, Goto, PhasesLeft
<1>5. CASE CompactGroups(g)
  BY <1>0, <1>5 DEF CompactGroups, Goto, PhasesLeft
<1>6. CASE ChooseOperand(g)
  BY <1>0, <1>6 DEF ChooseOperand, Goto
<1>7. CASE FilterOperand(g)
  <2>1. pc[g] = "operand" /\ pos[g] \in Nat
    BY <1>0, <1>7 DEF FilterOperand
  <2>2. pc'[g] \in {"failed", "validate"} \/ (pc'[g] = "intersect" /\ pos'[g] = pos[g] + 1)
    BY <1>0, <1>7 DEF FilterOperand, NextOperand, Goto
  <2> QED BY <2>1, <2>2 DEF PhasesLeft
<1>8. CASE MaterializeOperand(g)
  <2>1. pc[g] = "operand" /\ slots[g][pos[g]].bits = NoBitmap /\ pos[g] \in DOMAIN slots[g]
    BY <1>8, OperandFilled DEF MaterializeOperand
  <2>2. CASE Abandon(g)
    <3>1. pc'[g] = "failed"
      BY <1>0, <2>2 DEF Abandon, Goto
    <3> QED BY <2>1, <3>1 DEF PhasesLeft
  <2>3. ASSUME NEW b \in Gettable, FilledTo(g, pos[g], b), UNCHANGED <<pc, pos>>
        PROVE  pc'[g] = "operand" /\ pos'[g] = pos[g] /\ slots'[g][pos[g]].bits # NoBitmap
    <3>1. slots'[g][pos[g]].bits = b
      BY <1>0, <2>1, <2>3 DEF FilledTo, Takes
    <3> QED BY <2>1, <2>3, <3>1, GettableBitmaps, BitmapAssumption
  <2> QED BY <1>8, <2>1, <2>2, <2>3, OperandFilled
<1>9. CASE SmallOperand(g)
  BY <1>0, <1>9 DEF SmallOperand, Goto, PhasesLeft
<1>10. CASE IntersectOperand(g)
  <2>1. pc[g] = "operand" /\ pos[g] \in Nat
    BY <1>0, <1>10 DEF IntersectOperand
  <2>2. pc'[g] \in {"failed", "validate"} \/ (pc'[g] = "intersect" /\ pos'[g] = pos[g] + 1)
    BY <1>0, <1>10 DEF IntersectOperand, NextOperand, Abandon, Goto
  <2> QED BY <2>1, <2>2 DEF PhasesLeft
<1>11. CASE EndIntersection(g)
  BY <1>0, <1>11 DEF EndIntersection, Goto, PhasesLeft
<1>12. CASE ValidateCandidates(g)
  <2>1. pc[g] = "validate" /\ pc'[g] \in {"failed", "append"}
    BY <1>0, <1>12 DEF ValidateCandidates, Goto
  <2> QED BY <2>1 DEF PhasesLeft
<1>13. CASE AppendMatches(g)
  BY <1>0, <1>13 DEF AppendMatches, Goto, PhasesLeft
<1>14. CASE Release(g)
  BY <1>0, <1>14 DEF Release, Goto, PhasesLeft
<1> QED BY <1>1, <1>2, <1>3, <1>4, <1>5, <1>6, <1>7, <1>8, <1>9, <1>10, <1>11, <1>12, <1>13, <1>14
        DEF Step

(* A group that is collected has its leader no more.                       *)
LEMMA LeadersDrop ==
  ASSUME Sane, Room, NEW g \in Goroutines, CollectGroup(g)
  PROVE  PhasesLeft(g)' = PhasesLeft(g) /\ LoopLeft(g)' < LoopLeft(g)
<1> DEFINE s == slots[g]
           L == {i \in DOMAIN s : Leader(s, i)}
<1>1. PICK i \in DOMAIN slots[g], b \in Gettable, t \in Seq(Entry) : CollectTo(g, i, b, t)
  BY CollectStep
<1> DEFINE R == {k \in DOMAIN t : Leader(t, k)}
<1>2. /\ pc[g] = "collect" /\ pc'[g] = "collect" /\ ix' = ix /\ slots'[g] = t
      /\ DOMAIN t = DOMAIN s /\ b # NoBitmap
  <2>1. /\ pc[g] = "collect" /\ pc'[g] = "collect" /\ ix' = ix
    BY DEF CollectGroup, indexVars
  <2>2. slots'[g] = t /\ Len(t) = Len(s) /\ s \in Seq(Entry)
    BY <1>1 DEF CollectTo, Takes, Sane, TypeOK
  <2> QED BY <2>1, <2>2, GettableBitmaps, BitmapAssumption
<1>3. Leader(s, i) /\ Takes(s, t, GroupOf(g, i), i, b) /\ \A j \in DOMAIN s : t[j].child = s[j].child
  BY <1>1 DEF CollectTo
<1>4. R \subseteq L /\ i \in L /\ i \notin R
  <2>1. ASSUME NEW k \in R PROVE k \in L /\ k # i
    <3>1. k \in DOMAIN s /\ t[k].bits = NoBitmap /\ Grouped(s[k].child)
      BY <1>2, <1>3, <2>1 DEF Leader
    <3>2. k \notin GroupOf(g, i)
      BY <1>2, <1>3, <3>1 DEF Takes
    <3> QED BY <1>3, <3>1, <3>2 DEF Takes, Leader
  <2> QED BY <1>3, <2>1
<1>5. LoopLeft(g) = Cardinality(L) /\ PhasesLeft(g)' = PhasesLeft(g)
  BY <1>2 DEF LoopLeft, PhasesLeft
<1>6. LoopLeft(g)' = Cardinality(R)
  <2>1. LoopLeft(g)' = Cardinality({k \in DOMAIN slots'[g] : Leader(slots[g], k)'})
    BY <1>2 DEF LoopLeft
  <2>2. {k \in DOMAIN slots'[g] : Leader(slots[g], k)'} = R
    BY <1>2 DEF Leader, Grouped, SharedWildcard, Equality
  <2> QED BY <2>1, <2>2
<1>7. L \in SUBSET Children
  BY DEF Room
<1> HIDE DEF L, R
<1>8. Cardinality(R) < Cardinality(L)
  <2>1. IsFiniteSet(L) /\ Cardinality(L) \in Nat /\ R \in SUBSET L
    BY <1>4, <1>7, ChildrenFinite
  <2>2. Cardinality(R) =< Cardinality(L) /\ (Cardinality(L) = Cardinality(R) => L = R)
    BY <2>1, FS_Subset
  <2>3. Cardinality(R) \in Nat
    BY <2>1, FS_Subset, FS_CardinalityType
  <2> QED BY <1>4, <2>1, <2>2, <2>3
<1> QED BY <1>5, <1>6, <1>8

LEMMA StepAdvances ==
  ASSUME Sane, Room, Bounded, Bounded', NEW g \in Goroutines, Step(g)
  PROVE  WorkLeft(g)' < WorkLeft(g)
<1>0. Width \in Nat /\ pos[g] \in Nat
  BY WidthAssumption DEF Sane, TypeOK
<1>1. CASE PhasesLeft(g)' < PhasesLeft(g)
  BY <1>1, PhaseDrops
<1>2. CASE CollectGroup(g)
  BY <1>2, LeadersDrop, LoopDrops
<1>3. CASE pc[g] = "intersect" /\ pc'[g] = "operand" /\ pos'[g] = pos[g]
  <2>1. PhasesLeft(g)' = PhasesLeft(g) /\ LoopLeft(g)' < LoopLeft(g)
    BY <1>0, <1>3 DEF PhasesLeft, LoopLeft
  <2> QED BY <2>1, LoopDrops
<1>4. CASE pc[g] = "operand" /\ pc'[g] = "intersect" /\ pos'[g] = pos[g] + 1
  <2>1. PhasesLeft(g)' = PhasesLeft(g) /\ LoopLeft(g)' < LoopLeft(g)
    BY <1>0, <1>4 DEF PhasesLeft, LoopLeft
  <2> QED BY <2>1, LoopDrops
<1>5. CASE /\ pc[g] = "operand" /\ pc'[g] = "operand" /\ pos'[g] = pos[g]
           /\ slots[g][pos[g]].bits = NoBitmap /\ slots'[g][pos[g]].bits # NoBitmap
  <2>1. PhasesLeft(g)' = PhasesLeft(g) /\ LoopLeft(g)' < LoopLeft(g)
    BY <1>0, <1>5 DEF PhasesLeft, LoopLeft
  <2> QED BY <2>1, LoopDrops
<1> QED BY <1>1, <1>2, <1>3, <1>4, <1>5, StepForward

(* However the executor replans, filters in place or hands over to         *)
(* validation, each of its steps lowers the work that is left, and no step *)
(* of another goroutine changes it: a search that is scheduled returns.    *)
THEOREM SearchAdvancesHolds == Spec => SearchAdvances
<1> DEFINE Advances == \A g \in Goroutines : pc[g] # "idle" /\ Frame(g)' # Frame(g) => WorkLeft(g)' < WorkLeft(g)
<1>1. Sane /\ Room /\ Bounded /\ Bounded' /\ [Next]_vars => [Advances]_vars
  <2> SUFFICES ASSUME Sane, Room, Bounded, Bounded', Next, NEW g \in Goroutines,
                      pc[g] # "idle", Frame(g)' # Frame(g)
               PROVE  WorkLeft(g)' < WorkLeft(g)
    OBVIOUS
  <2>1. ASSUME NEW h \in Goroutines, NEW q \in Queries, Begin(h, q) PROVE FALSE
    <3>1. h # g
      BY <2>1 DEF Begin
    <3> QED BY <2>1, <3>1, StepElsewhere
  <2>2. ASSUME NEW h \in Goroutines, Step(h) PROVE WorkLeft(g)' < WorkLeft(g)
    <3>1. h = g
      BY <2>2, StepElsewhere
    <3> QED BY <2>2, <3>1, StepAdvances
  <2>3. ASSUME NEW b \in Bitmaps, Forget(b) PROVE FALSE
    BY <2>3 DEF Forget, frameVars, Frame
  <2> QED BY <2>1, <2>2, <2>3 DEF Next
<1> QED BY <1>1, AlwaysRoom, BoundedWork, PTL DEF Spec, SearchAdvances

==============================================================================
