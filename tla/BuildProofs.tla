------------------------------ MODULE BuildProofs ------------------------------
(***************************************************************************)
(* Proofs about Build: IDs, postings, failures and the publication of      *)
(* snapshots.  Then the theorem two of the passes over the built tree rest *)
(* on: why a strict antonym operand may read no wildcard.                  *)
(***************************************************************************)
EXTENDS Build, FunctionTheorems, FiniteSetTheorems, SequenceTheorems, TLAPS

-----------------------------------------------------------------------------
Place(vs, x) == SelectInSeq(vs, LAMBDA v : v = x)

(* What stands at a place of a sequence without repetitions is found there. *)
LEMMA PlaceOf ==
  ASSUME NEW S, NEW vs \in Seq(S), IsInjective(vs), NEW k \in 1..Len(vs), NEW x, x = vs[k]
  PROVE  Place(vs, x) = k
<1> DEFINE I == {i \in 1..Len(vs) : vs[i] = x}
<1>1. I = {k}
  BY DEF IsInjective
<1>2. Min(I) = k
  BY <1>1 DEF Min
<1> QED BY <1>1, <1>2 DEF SelectInSeq, Place

(* What Append does to a sequence of anything                              *)
LEMMA Appended ==
  ASSUME NEW s, s \in Seq(ToSet(s)), NEW e
  PROVE  /\ Append(s, e) \in Seq(ToSet(Append(s, e)))
         /\ ToSet(Append(s, e)) = ToSet(s) \cup {e}
<1> DEFINE t == Append(s, e)
           T == ToSet(s) \cup {e}
<1>1. s \in Seq(T) /\ e \in T
  OBVIOUS
<1>2. t \in Seq(T) /\ Len(t) = Len(s) + 1 /\ t[Len(s) + 1] = e /\ \A i \in 1..Len(s) : t[i] = s[i]
  BY <1>1
<1>3. DOMAIN s = 1..Len(s) /\ DOMAIN t = 1..(Len(s) + 1) /\ Len(s) \in Nat
  BY <1>1, <1>2
<1> HIDE DEF t
<1>4. ToSet(t) = ToSet(s) \cup {e}
  <2>1. ASSUME NEW y \in ToSet(t) PROVE y \in ToSet(s) \cup {e}
    <3>1. PICK i \in 1..(Len(s) + 1) : y = t[i]
      BY <2>1, <1>3 DEF ToSet
    <3>2. CASE i = Len(s) + 1
      BY <3>1, <3>2, <1>2
    <3>3. CASE i # Len(s) + 1
      <4>1. i \in 1..Len(s)
        BY <3>1, <3>3, <1>3
      <4> QED BY <4>1, <3>1, <1>2, <1>3 DEF ToSet
    <3> QED BY <3>2, <3>3
  <2>2. e \in ToSet(t)
    <3>1. Len(s) + 1 \in 1..(Len(s) + 1)
      BY <1>3
    <3> QED BY <3>1, <1>2, <1>3 DEF ToSet
  <2>3. ASSUME NEW y \in ToSet(s) PROVE y \in ToSet(t)
    <3>1. PICK i \in 1..Len(s) : y = s[i]
      BY <2>3, <1>3 DEF ToSet
    <3>2. i \in 1..(Len(s) + 1)
      BY <3>1, <1>3
    <3> QED BY <3>1, <3>2, <1>2, <1>3 DEF ToSet
  <2> QED BY <2>1, <2>2, <2>3
<1>5. t \in Seq(ToSet(t))
  BY <1>4, <1>2
<1> QED BY <1>4, <1>5 DEF t

LEMMA SmallRemainder ==
  ASSUME NEW a \in Nat, NEW b \in Nat, a < b
  PROVE  a % b = a
  BY SMT
-----------------------------------------------------------------------------
(* The inductive invariant, in parts.  What holds between two builds and   *)
(* within one                                                              *)
Typed ==
  /\ schema \in Schemas
  /\ phase \in {"idle", "reading", "publishing"}
  /\ builds \in 0..MaxBuilds /\ hints \in 0..builds
  /\ values \in Seq(ExternalIds) /\ Len(values) <= Capacity
  /\ log \in Seq([constraint : Constraints[schema], id : ExternalIds]) /\ Len(log) <= MaxEntries
  /\ snapshots \in [InspectorsOf[schema] -> 0..MaxBuilds]

Phased ==
  /\ phase = "idle" => /\ state = NoState /\ content = <<>> /\ values = <<>> /\ log = <<>>
  /\ phase # "idle" => state = StateOf[schema]
  /\ phase # "publishing" => pending = <<>>

(* IDs stand for the external IDs of the entries.                          *)
Numbered == IsInjective(values) /\ ToSet(values) = {log[i].id : i \in DOMAIN log}

(* What follows the first done elements                                    *)
Rest(found, done) == SubSeq(found, done + 1, Len(found))

LEMMA RestShape ==
  ASSUME NEW I, NEW found \in Seq(I), NEW done \in 0..Len(found)
  PROVE  /\ Rest(found, done) \in Seq(I) /\ Len(Rest(found, done)) = Len(found) - done
         /\ \A j \in 1..(Len(found) - done) : Rest(found, done)[j] = found[j + done]
<1> DEFINE n == Len(found)
           r == SubSeq(found, done + 1, n)
<1>1. n \in Nat /\ done \in Nat /\ done <= n /\ \A i \in (done + 1)..n : found[i] \in I
  OBVIOUS
<1> HIDE DEF n
<1>2. /\ r \in Seq(I) /\ Len(r) = IF done + 1 <= n THEN n - (done + 1) + 1 ELSE 0
      /\ \A i \in 1..(n - (done + 1) + 1) : r[i] = found[(done + 1) + i - 1]
  <2>1. done + 1 \in Int /\ n \in Int
    BY <1>1
  <2> QED BY <1>1, <2>1, SubSeqProperties
<1> HIDE DEF r
<1>3. Len(r) = n - done
  BY <1>1, <1>2
<1>4. ASSUME NEW j \in 1..(n - done) PROVE r[j] = found[j + done]
  <2>1. j \in 1..(n - (done + 1) + 1) /\ (done + 1) + j - 1 = j + done
    BY <1>1
  <2> QED BY <2>1, <1>2
<1> QED BY <1>2, <1>3, <1>4 DEF n, r, Rest

(* What is not published yet is the rest of what stripInspectors found.    *)
Published ==
  phase = "publishing" =>
    /\ IsInjective(state.pending)
    /\ \E done \in 0..Len(state.pending) : pending = Rest(state.pending, done)

(* The pairs the entries call for: what an entry stores on a side of a leaf *)
KeptBy(leaf, side) ==
  {i \in DOMAIN log : ~(Kind[leaf.rule] = "exclude" /\ SideOf(leaf.rule, side, log[i].constraint[leaf.rule]) = Missing)}
CalledFor(leaf, side) ==
  {<<SideOf(leaf.rule, side, log[i].constraint[leaf.rule]), InternalId(log[i].id)>> : i \in KeptBy(leaf, side)}

PostingsFollowEntries ==
  \A leaf \in state.leaves : \A side \in Sides(leaf.rule) :
    PairsOf(Store, leaf.node, side) = CalledFor(leaf, side)

Placed ==
  phase # "idle" =>
    /\ DOMAIN content = 0..(state.nodes - 1)
    /\ \A leaf \in state.leaves : \A side \in Sides(leaf.rule) :
         content[leaf.node][side] \in Seq(ToSet(content[leaf.node][side]))

BuildInv == Typed /\ Phased /\ Numbered /\ Placed /\ PostingsFollowEntries /\ Published /\ SnapshotsFollowHints

(* The internal ID of an external ID that has one                          *)
LEMMA InternalIdOf ==
  ASSUME Typed, Numbered, NEW k \in 1..Len(values)
  PROVE  InternalId(values[k]) = k - 1
<1>1. values \in Seq(ExternalIds) /\ IsInjective(values)
  BY DEF Typed, Numbered
<1>2. Place(values, values[k]) = k
  BY <1>1, PlaceOf
<1>3. values[k] \in ToSet(values)
  BY <1>1 DEF ToSet
<1> QED BY <1>2, <1>3 DEF InternalId, Place

LEMMA ValuesPlace ==
  ASSUME Typed, NEW x \in ToSet(values)
  PROVE  \E k \in 1..Len(values) : x = values[k]
BY DEF Typed, ToSet

(* The invariant holds at first, and gives what the runs check.            *)
LEMMA InitBuild ==
  ASSUME Init
  PROVE  BuildInv
<1>1. Typed
  BY BuildAssumption DEF Init, Typed, Unbound
<1>2. Phased /\ Published /\ Placed /\ SnapshotsFollowHints
  BY DEF Init, Phased, Published, Placed, SnapshotsFollowHints
<1>3. Numbered
  BY DEF Init, Numbered, IsInjective, ToSet
<1>4. PostingsFollowEntries
  BY DEF Init, PostingsFollowEntries, NoState
<1> QED BY <1>1, <1>2, <1>3, <1>4 DEF BuildInv

LEMMA TypeFollows ==
  ASSUME BuildInv
  PROVE  TypeOK
<1>1. Typed /\ Phased /\ Published
  BY DEF BuildInv
<1>2. ToSet(pending) \subseteq InspectorsOf[schema]
  <2>1. CASE phase = "publishing"
    <3> DEFINE found == state.pending
               I == InspectorsOf[schema]
    <3>1. found \in Seq(I)
      BY <1>1, <2>1, InspectorsAssumption DEF Typed, Phased
    <3>2. PICK done \in 0..Len(found) : pending = Rest(found, done)
      BY <1>1, <2>1 DEF Published
    <3> HIDE DEF found, I
    <3>3. pending \in Seq(I)
      BY <3>1, <3>2, RestShape
    <3>4. ToSet(pending) \subseteq I
      BY <3>3 DEF ToSet
    <3> QED BY <3>4 DEF I
  <2>2. CASE phase # "publishing"
    BY <1>1, <2>2 DEF Phased, ToSet
  <2> QED BY <2>1, <2>2
<1> QED BY <1>1, <1>2 DEF Typed, TypeOK

LEMMA IdsFollow ==
  ASSUME BuildInv
  PROVE  IdsDense
<1>1. Typed /\ Phased /\ Numbered /\ PostingsFollowEntries
  BY DEF BuildInv
<1>2. ASSUME NEW leaf \in state.leaves, leaf.kind = "leaf", NEW side \in Sides(leaf.rule)
      PROVE  {p[2] : p \in PairsOf(Store, leaf.node, side)} = Ids(Store)
  <2>1. Kind[leaf.rule] # "exclude"
    <3>1. phase # "idle"
      BY <1>1, <1>2 DEF Phased, NoState
    <3> QED BY <3>1, <1>1, <1>2, LeavesAssumption DEF Phased, Typed
  <2>2. PairsOf(Store, leaf.node, side) = CalledFor(leaf, side)
    BY <1>1, <1>2 DEF PostingsFollowEntries
  <2>3. KeptBy(leaf, side) = DOMAIN log
    BY <2>1 DEF KeptBy
  <2>4. \A i \in DOMAIN log : InternalId(log[i].id) \in Ids(Store)
    <3>1. SUFFICES ASSUME NEW i \in DOMAIN log PROVE InternalId(log[i].id) \in Ids(Store)
      OBVIOUS
    <3>2. log[i].id \in ToSet(values)
      BY <1>1 DEF Numbered
    <3>3. PICK k \in 1..Len(values) : log[i].id = values[k]
      BY <1>1, <3>2, ValuesPlace
    <3>4. InternalId(log[i].id) = k - 1
      BY <1>1, <3>3, InternalIdOf
    <3>5. Len(values) \in Nat
      BY <1>1 DEF Typed
    <3> QED BY <3>4, <3>5 DEF Ids, Store
  <2>5. \A n \in Ids(Store) : \E i \in DOMAIN log : InternalId(log[i].id) = n
    <3>1. SUFFICES ASSUME NEW n \in Ids(Store) PROVE \E i \in DOMAIN log : InternalId(log[i].id) = n
      OBVIOUS
    <3>2. n \in Int /\ n + 1 \in 1..Len(values) /\ values \in Seq(ExternalIds)
      BY <1>1 DEF Ids, Store, Typed
    <3>3. values[n + 1] \in ToSet(values)
      BY <3>2 DEF ToSet
    <3>4. PICK i \in DOMAIN log : log[i].id = values[n + 1]
      BY <3>3, <1>1 DEF Numbered
    <3>5. InternalId(values[n + 1]) = n + 1 - 1
      BY <1>1, <3>2, InternalIdOf
    <3> QED BY <3>4, <3>5, <3>2
  <2>6. \A p \in CalledFor(leaf, side) : \E i \in DOMAIN log : p[2] = InternalId(log[i].id)
    BY <2>3 DEF CalledFor
  <2>7. \A i \in DOMAIN log : \E p \in CalledFor(leaf, side) : p[2] = InternalId(log[i].id)
    <3>1. SUFFICES ASSUME NEW i \in DOMAIN log
                   PROVE  \E p \in CalledFor(leaf, side) : p[2] = InternalId(log[i].id)
      OBVIOUS
    <3> DEFINE p == <<SideOf(leaf.rule, side, log[i].constraint[leaf.rule]), InternalId(log[i].id)>>
    <3>2. p \in CalledFor(leaf, side)
      BY <2>3 DEF CalledFor
    <3>3. p[2] = InternalId(log[i].id)
      OBVIOUS
    <3> HIDE DEF p
    <3> QED BY <3>2, <3>3
  <2> QED BY <2>2, <2>4, <2>5, <2>6, <2>7
<1> QED BY <1>1, <1>2 DEF IdsDense, Numbered

LEMMA InnerFollows ==
  ASSUME BuildInv
  PROVE  InnerNotOlder
<1>1. Typed /\ Phased /\ Published /\ SnapshotsFollowHints
  BY DEF BuildInv
<1> SUFFICES ASSUME NEW p \in Below[schema] PROVE snapshots[p[1]] <= snapshots[p[2]]
  BY DEF InnerNotOlder
<1>2. p = <<p[1], p[2]>> /\ p[1] \in DOMAIN snapshots /\ p[2] \in DOMAIN snapshots
  BY <1>1, InspectorsAssumption DEF Typed
<1>3. hints \in Nat /\ builds \in Nat /\ hints <= builds
  BY <1>1 DEF Typed
<1>4. CASE phase # "publishing"
  BY <1>1, <1>2, <1>3, <1>4 DEF SnapshotsFollowHints
<1>5. CASE phase = "publishing" /\ p[1] \in ToSet(pending)
  BY <1>1, <1>2, <1>3, <1>5 DEF SnapshotsFollowHints
<1>6. CASE phase = "publishing" /\ p[1] \notin ToSet(pending)
  <2> DEFINE found == state.pending
             I == InspectorsOf[schema]
  <2>1. /\ found \in Seq(I) /\ I \subseteq ToSet(found) /\ IsInjective(found)
        /\ \A k, m \in DOMAIN found : <<found[k], found[m]>> \in Below[schema] => m < k
    BY <1>1, <1>6, InspectorsAssumption DEF Typed, Phased, Published
  <2>2. PICK done \in 0..Len(found) : pending = Rest(found, done)
    BY <1>1, <1>6 DEF Published
  <2>3. p[1] \in I /\ p[2] \in I
    BY <1>1, <1>2 DEF Typed
  <2> HIDE DEF found, I
  <2>4. PICK k \in DOMAIN found : found[k] = p[1]
    BY <2>1, <2>3 DEF ToSet
  <2>5. PICK m \in DOMAIN found : found[m] = p[2]
    BY <2>1, <2>3 DEF ToSet
  <2>6. m < k
    BY <2>1, <2>4, <2>5, <1>2
  <2>7. DOMAIN found = 1..Len(found) /\ Len(found) \in Nat
    BY <2>1
  <2>10. /\ pending \in Seq(I) /\ DOMAIN pending = 1..(Len(found) - done)
         /\ \A j \in 1..(Len(found) - done) : pending[j] = found[j + done]
    <3>1. /\ pending \in Seq(I) /\ Len(pending) = Len(found) - done
          /\ \A j \in 1..(Len(found) - done) : pending[j] = found[j + done]
      BY <2>1, <2>2, RestShape
    <3> QED BY <3>1
  <2>8. k <= done
    <3>1. SUFFICES ASSUME ~(k <= done) PROVE FALSE
      OBVIOUS
    <3>2. k - done \in 1..(Len(found) - done) /\ (k - done) + done = k
      BY <2>4, <2>7, <3>1
    <3>3. pending[k - done] = found[k] /\ DOMAIN pending = 1..(Len(found) - done)
      BY <2>10, <3>2
    <3> QED BY <3>2, <3>3, <2>4, <1>6 DEF ToSet
  <2>9. p[2] \notin ToSet(pending)
    <3>1. SUFFICES ASSUME p[2] \in ToSet(pending) PROVE FALSE
      OBVIOUS
    <3>2. DOMAIN pending = 1..(Len(found) - done) /\ \A j \in 1..(Len(found) - done) : pending[j] = found[j + done]
      BY <2>10
    <3>3. PICK j \in 1..(Len(found) - done) : pending[j] = p[2]
      BY <3>1, <3>2 DEF ToSet
    <3>4. j + done \in DOMAIN found /\ found[j + done] = found[m]
      BY <2>5, <2>7, <3>2, <3>3
    <3>5. j + done = m
      BY <3>4, <2>1, <2>5 DEF IsInjective
    <3> QED BY <3>5, <2>6, <2>8, <2>7
  <2> QED BY <1>1, <1>2, <1>3, <1>6, <2>9 DEF SnapshotsFollowHints
<1> QED BY <1>4, <1>5, <1>6
-----------------------------------------------------------------------------
(* A build that ends, well or not, leaves nothing of itself.               *)
LEMMA DiscardedStep ==
  ASSUME BuildInv, Discarded, snapshots' = snapshots, hints' \in 0..builds,
         \A i \in DOMAIN snapshots : snapshots[i] = hints'
  PROVE  BuildInv'
<1>1. Typed /\ Phased
  BY DEF BuildInv
<1>2. Typed'
  BY <1>1, BuildAssumption DEF Discarded, Typed
<1>3. Phased' /\ Published' /\ Placed' /\ SnapshotsFollowHints'
  BY <1>1 DEF Discarded, Phased, Published, Placed, SnapshotsFollowHints
<1>4. Numbered'
  BY DEF Discarded, Numbered, IsInjective, ToSet
<1>5. PostingsFollowEntries'
  BY DEF Discarded, PostingsFollowEntries, NoState
<1> QED BY <1>2, <1>3, <1>4, <1>5 DEF BuildInv

LEMMA FailStep ==
  ASSUME BuildInv, phase = "reading", Fail
  PROVE  BuildInv'
<1>1. \A i \in DOMAIN snapshots : snapshots[i] = hints
  BY DEF BuildInv, SnapshotsFollowHints
<1>2. hints \in 0..builds
  BY DEF BuildInv, Typed
<1> QED BY <1>1, <1>2, DiscardedStep DEF Fail

LEMMA RefuseStep ==
  ASSUME BuildInv, RefuseNil
  PROVE  BuildInv'
<1>1. Typed /\ Phased
  BY DEF BuildInv
<1>2. Typed'
  BY <1>1, BuildAssumption DEF RefuseNil, Typed
<1>3. Phased' /\ Published' /\ Placed' /\ SnapshotsFollowHints'
  BY <1>1 DEF BuildInv, RefuseNil, Phased, Published, Placed, SnapshotsFollowHints
<1>4. Numbered'
  BY DEF BuildInv, RefuseNil, Numbered
<1>5. PostingsFollowEntries'
  BY <1>1 DEF RefuseNil, PostingsFollowEntries, Phased, NoState
<1> QED BY <1>2, <1>3, <1>4, <1>5 DEF BuildInv

LEMMA StartStep ==
  ASSUME BuildInv, Start
  PROVE  BuildInv'
<1>1. Typed /\ Phased
  BY DEF BuildInv
<1>2. Typed'
  BY <1>1, BuildAssumption DEF Start, Typed
<1>3. Phased' /\ Published' /\ SnapshotsFollowHints'
  BY <1>1 DEF BuildInv, Start, Phased, Published, SnapshotsFollowHints
<1>4. Numbered'
  BY DEF BuildInv, Start, Numbered
<1>5. log' = <<>> /\ state' = StateOf[schema] /\ content' = [n \in 0..(state'.nodes - 1) |-> <<<<>>, <<>>>>]
  BY <1>1 DEF Start, Phased
<1>6. ASSUME NEW leaf \in state'.leaves, NEW side \in Sides(leaf.rule)
      PROVE  content'[leaf.node][side] = <<>>
  <2>1. leaf.node \in 0..(state'.nodes - 1)
    BY <1>1, <1>5, <1>6, LeavesAssumption DEF Typed
  <2>2. side = 1 \/ side = 2
    BY <1>6 DEF Sides
  <2> QED BY <1>5, <2>1, <2>2
<1>7. Placed'
  <2>1. <<>> \in Seq(ToSet(<<>>))
    BY DEF ToSet
  <2> QED BY <1>5, <1>6, <2>1 DEF Placed
<1>8. PostingsFollowEntries'
  <2> SUFFICES ASSUME NEW leaf \in state'.leaves, NEW side \in Sides(leaf.rule)
               PROVE  PairsOf(Store, leaf.node, side)' = CalledFor(leaf, side)'
    BY DEF PostingsFollowEntries
  <2>1. PairsOf(Store, leaf.node, side)' = {}
    BY <1>6 DEF PairsOf, Store, ToSet
  <2>2. KeptBy(leaf, side)' = {}
    BY <1>5 DEF KeptBy
  <2>3. CalledFor(leaf, side)' = {}
    BY <2>2 DEF CalledFor
  <2> QED BY <2>1, <2>3
<1> QED BY <1>2, <1>3, <1>4, <1>7, <1>8 DEF BuildInv

(* What the postings, the IDs and the entries say does not change.         *)
LEMMA KeptAsRead ==
  ASSUME BuildInv, UNCHANGED <<schema, state, content, values, log>>, phase # "idle", phase' # "idle"
  PROVE  Numbered' /\ Placed' /\ PostingsFollowEntries'
<1>1. Numbered' /\ Placed'
  BY DEF BuildInv, Numbered, Placed
<1>2. PostingsFollowEntries'
  <2> SUFFICES ASSUME NEW leaf \in state.leaves, NEW side \in Sides(leaf.rule)
               PROVE  PairsOf(Store, leaf.node, side)' = CalledFor(leaf, side)'
    BY DEF PostingsFollowEntries
  <2>1. PairsOf(Store, leaf.node, side) = CalledFor(leaf, side)
    BY DEF BuildInv, PostingsFollowEntries
  <2>2. PairsOf(Store, leaf.node, side)' = PairsOf(Store, leaf.node, side)
    BY DEF PairsOf, Store
  <2>3. \A x : InternalId(x)' = InternalId(x)
    <3>1. values' = values
      OBVIOUS
    <3> QED BY <3>1 DEF InternalId, SelectInSeq
  <2>4. KeptBy(leaf, side)' = KeptBy(leaf, side)
    BY DEF KeptBy
  <2>5. CalledFor(leaf, side)' = CalledFor(leaf, side)
    BY <2>3, <2>4 DEF CalledFor
  <2> QED BY <2>1, <2>2, <2>5
<1> QED BY <1>1, <1>2

LEMMA EndStep ==
  ASSUME BuildInv, End
  PROVE  BuildInv'
<1>1. Typed /\ Phased /\ SnapshotsFollowHints
  BY DEF BuildInv
<1>2. CASE ~IsInjective(state.pending)
  BY <1>2, FailStep DEF End
<1>3. CASE IsInjective(state.pending)
  <2> DEFINE found == state.pending
  <2>1. /\ pending' = found /\ phase = "reading" /\ phase' = "publishing"
        /\ UNCHANGED <<schema, state, content, values, log, snapshots, hints, builds>>
    BY <1>3 DEF End
  <2>2. found \in Seq(InspectorsOf[schema]) /\ InspectorsOf[schema] \subseteq ToSet(found)
    BY <1>1, <2>1, InspectorsAssumption DEF Typed, Phased
  <2>3. Typed' /\ Phased'
    BY <1>1, <2>1 DEF Typed, Phased
  <2>4. Published'
    <3>1. found = Rest(found, 0) /\ 0 \in 0..Len(found)
      BY <2>2 DEF Rest
    <3> QED BY <3>1, <2>1, <1>3 DEF Published
  <2>5. SnapshotsFollowHints'
    BY <1>1, <2>1, <2>2 DEF SnapshotsFollowHints, Typed
  <2>6. Numbered' /\ Placed' /\ PostingsFollowEntries'
    BY <2>1, KeptAsRead
  <2> QED BY <2>3, <2>4, <2>5, <2>6 DEF BuildInv
<1> QED BY <1>2, <1>3

(* The head of what is left is one inspector, and the rest goes on.        *)
LEMMA RestOf ==
  ASSUME NEW I, NEW found \in Seq(I), IsInjective(found), NEW done \in 0..Len(found), Rest(found, done) # <<>>
  PROVE  /\ done + 1 \in 0..Len(found)
         /\ Tail(Rest(found, done)) = Rest(found, done + 1)
         /\ ToSet(Tail(Rest(found, done))) = ToSet(Rest(found, done)) \ {Head(Rest(found, done))}
         /\ Head(Rest(found, done)) \in I
<1> DEFINE rest == Rest(found, done)
           t == Tail(rest)
           u == Rest(found, done + 1)
<1>1. Len(found) \in Nat /\ done \in Nat /\ done <= Len(found) /\ DOMAIN found = 1..Len(found)
  OBVIOUS
<1>2. rest \in Seq(I) /\ Len(rest) = Len(found) - done /\ \A j \in 1..(Len(found) - done) : rest[j] = found[j + done]
  BY <1>1, RestShape
<1>0. rest # <<>>
  OBVIOUS
<1> HIDE DEF rest
<1>3. Len(rest) # 0
  BY <1>0, <1>2
<1>4. done + 1 \in 0..Len(found)
  BY <1>1, <1>2, <1>3
<1>5. /\ t \in Seq(I) /\ Len(t) = Len(found) - done - 1 /\ Head(rest) = rest[1] /\ rest[1] \in I
      /\ \A j \in 1..(Len(found) - done - 1) : t[j] = rest[j + 1]
  <2>1. 1 \in 1..Len(rest) /\ Len(rest) \in Nat /\ Len(rest) - 1 = Len(found) - done - 1
    <3>1. Len(rest) = Len(found) - done
      BY <1>2
    <3> DEFINE k == Len(rest)
               m == Len(found)
    <3>2. k = m - done /\ k # 0 /\ m \in Nat /\ done \in Nat /\ done <= m
      BY <1>1, <1>3, <3>1
    <3> HIDE DEF k, m
    <3>3. 1 \in 1..k /\ k \in Nat /\ k - 1 = m - done - 1
      BY <3>2
    <3> QED BY <3>3 DEF k, m
  <2>2. rest[1] \in I /\ Head(rest) = rest[1]
    BY <1>2, <2>1
  <2>3. t \in Seq(I) /\ Len(t) = Len(rest) - 1 /\ \A j \in 1..(Len(rest) - 1) : t[j] = rest[j + 1]
    BY <1>0, <1>2, HeadTailProperties
  <2> QED BY <2>1, <2>2, <2>3
<1>6. /\ u \in Seq(I) /\ Len(u) = Len(found) - (done + 1)
      /\ \A j \in 1..(Len(found) - (done + 1)) : u[j] = found[j + (done + 1)]
  BY <1>4, RestShape
<1> HIDE DEF t, u
<1>7. t = u
  <2>1. \A j \in 1..(Len(found) - done - 1) : t[j] = u[j]
    <3>1. SUFFICES ASSUME NEW j \in 1..(Len(found) - done - 1) PROVE t[j] = u[j]
      OBVIOUS
    <3>2. j + 1 \in 1..(Len(found) - done) /\ (j + 1) + done = j + (done + 1) /\ j \in 1..(Len(found) - (done + 1))
      BY <1>1
    <3>3. rest[j + 1] = found[(j + 1) + done]
      BY <3>2, <1>2
    <3> QED BY <3>2, <3>3, <1>5, <1>6
  <2>2. Len(t) = Len(u)
    BY <1>1, <1>5, <1>6
  <2>3. t = [j \in 1..Len(t) |-> t[j]] /\ u = [j \in 1..Len(u) |-> u[j]]
    BY <1>5, <1>6
  <2> QED BY <2>1, <2>2, <2>3, <1>5
<1>8. ASSUME NEW i, NEW j \in 1..Len(rest), rest[i] = rest[j], i \in 1..Len(rest) PROVE i = j
  <2>1. i + done \in DOMAIN found /\ j + done \in DOMAIN found /\ found[i + done] = found[j + done]
    BY <1>8, <1>1, <1>2
  <2>2. i + done = j + done
    BY <2>1 DEF IsInjective
  <2> QED BY <2>2, <1>8, <1>1, <1>2
<1>9. ToSet(t) = ToSet(rest) \ {Head(rest)}
  <2>1. ASSUME NEW y \in ToSet(t) PROVE y \in ToSet(rest) /\ y # Head(rest)
    <3>1. PICK j \in 1..(Len(found) - done - 1) : y = t[j]
      BY <1>5, <2>1 DEF ToSet
    <3>2. j + 1 \in 1..Len(rest) /\ j + 1 # 1 /\ y = rest[j + 1] /\ 1 \in 1..Len(rest)
      BY <3>1, <1>1, <1>2, <1>5
    <3>3. rest[j + 1] # rest[1]
      BY <3>2, <1>8
    <3> QED BY <3>2, <3>3, <1>2, <1>5 DEF ToSet
  <2>2. ASSUME NEW y \in ToSet(rest), y # Head(rest) PROVE y \in ToSet(t)
    <3>1. PICK j \in 1..Len(rest) : y = rest[j]
      BY <1>2, <2>2 DEF ToSet
    <3>2. j # 1
      BY <3>1, <2>2, <1>5
    <3>3. j - 1 \in 1..(Len(found) - done - 1) /\ j - 1 + 1 = j
      BY <3>1, <3>2, <1>1, <1>2
    <3>4. t[j - 1] = rest[j]
      BY <3>3, <1>5
    <3> QED BY <3>1, <3>3, <3>4, <1>5 DEF ToSet
  <2> QED BY <2>1, <2>2
<1> QED BY <1>4, <1>5, <1>7, <1>9 DEF t, u, rest

LEMMA PublishStep ==
  ASSUME BuildInv, PublishNext
  PROVE  BuildInv'
<1>1. Typed /\ Phased /\ Published /\ SnapshotsFollowHints
  BY DEF BuildInv
<1> DEFINE found == state.pending
           I == InspectorsOf[schema]
<1>2. /\ phase = "publishing" /\ pending # <<>> /\ phase' = "publishing"
      /\ snapshots' = [snapshots EXCEPT ![Head(pending)] = builds]
      /\ pending' = Tail(pending)
      /\ UNCHANGED <<schema, state, content, values, log, hints, builds>>
  BY DEF PublishNext
<1>3. found \in Seq(I) /\ IsInjective(found)
  BY <1>1, <1>2, InspectorsAssumption DEF Typed, Phased, Published
<1>4. PICK done \in 0..Len(found) : pending = Rest(found, done)
  BY <1>1, <1>2 DEF Published
<1>5. /\ done + 1 \in 0..Len(found)
      /\ Tail(pending) = Rest(found, done + 1)
      /\ ToSet(Tail(pending)) = ToSet(pending) \ {Head(pending)}
      /\ Head(pending) \in I
  <2> HIDE DEF found, I
  <2> QED BY <1>2, <1>3, <1>4, RestOf
<1>6. Typed' /\ Phased'
  BY <1>1, <1>2, <1>5 DEF Typed, Phased
<1>7. Published'
  BY <1>2, <1>3, <1>5 DEF Published
<1>8. SnapshotsFollowHints'
  BY <1>1, <1>2, <1>5 DEF SnapshotsFollowHints, Typed
<1>9. Numbered' /\ Placed' /\ PostingsFollowEntries'
  BY <1>2, KeptAsRead
<1> QED BY <1>6, <1>7, <1>8, <1>9 DEF BuildInv

LEMMA ReturnStep ==
  ASSUME BuildInv, Return
  PROVE  BuildInv'
<1>1. \A i \in DOMAIN snapshots : snapshots[i] = builds
  BY DEF BuildInv, SnapshotsFollowHints, Return, ToSet
<1>2. builds \in 0..builds
  BY DEF BuildInv, Typed
<1> QED BY <1>1, <1>2, DiscardedStep DEF Return
-----------------------------------------------------------------------------
(* An entry adds its external ID, if it is new, behind the others, and the *)
(* IDs given before stay.                                                  *)
LEMMA ValuesGrow ==
  ASSUME Typed, Numbered, ~Full, NEW x \in ExternalIds,
         values' = IF x \in ToSet(values) THEN values ELSE Append(values, x)
  PROVE  /\ values' \in Seq(ExternalIds) /\ Len(values') <= Capacity /\ IsInjective(values')
         /\ ToSet(values') = ToSet(values) \cup {x}
         /\ \A y \in ToSet(values) \cup {x} : InternalId(y)' = InternalId(y)
<1>1. /\ values \in Seq(ExternalIds) /\ Len(values) \in Nat /\ DOMAIN values = 1..Len(values)
      /\ IsInjective(values) /\ Len(values) < Capacity /\ Capacity \in Nat
  BY BuildAssumption DEF Typed, Numbered, Full
<1>2. CASE x \in ToSet(values)
  <2>1. values' = values
    BY <1>2
  <2>2. \A y : InternalId(y)' = InternalId(y)
    BY <2>1 DEF InternalId, SelectInSeq
  <2>3. ToSet(values') = ToSet(values)
    BY <2>1 DEF ToSet
  <2> QED BY <1>1, <1>2, <2>1, <2>2, <2>3
<1>3. CASE x \notin ToSet(values)
  <2> DEFINE n == Len(values)
             vs == Append(values, x)
  <2>1. values' = vs
    BY <1>3
  <2>2. vs \in Seq(ExternalIds) /\ Len(vs) = n + 1 /\ vs[n + 1] = x /\ \A i \in 1..n : vs[i] = values[i]
    BY <1>1
  <2>3. values \in Seq(ToSet(values))
    BY <1>1 DEF ToSet
  <2>4. ToSet(vs) = ToSet(values) \cup {x}
    BY <2>3, Appended
  <2> HIDE DEF vs
  <2>5. \A i \in 1..n : values[i] # x
    BY <1>1, <1>3 DEF ToSet
  <2>6. IsInjective(vs)
    <3>1. SUFFICES ASSUME NEW i \in 1..(n + 1), NEW j \in 1..(n + 1), vs[i] = vs[j] PROVE i = j
      BY <2>2 DEF IsInjective
    <3>2. CASE i = n + 1 /\ j # n + 1
      <4>1. j \in 1..n
        BY <1>1, <3>2
      <4> QED BY <4>1, <2>2, <2>5, <3>1, <3>2
    <3>3. CASE j = n + 1 /\ i # n + 1
      <4>1. i \in 1..n
        BY <1>1, <3>3
      <4> QED BY <4>1, <2>2, <2>5, <3>1, <3>3
    <3>4. CASE i # n + 1 /\ j # n + 1
      <4>1. i \in 1..n /\ j \in 1..n
        BY <1>1, <3>4
      <4> QED BY <4>1, <1>1, <2>2, <3>1 DEF IsInjective
    <3> QED BY <3>2, <3>3, <3>4
  <2>7. \A y \in ToSet(vs) : InternalId(y)' = Place(vs, y) - 1
    BY <2>1 DEF InternalId, Place, SelectInSeq
  <2>8. ASSUME NEW y \in ToSet(values) PROVE InternalId(y)' = InternalId(y)
    <3>1. PICK k \in 1..n : y = values[k]
      BY <1>1, <2>8 DEF ToSet
    <3>2. Place(values, y) = k
      BY <1>1, <3>1, PlaceOf
    <3>3. k \in 1..Len(vs) /\ y = vs[k]
      BY <1>1, <2>2, <3>1
    <3>4. Place(vs, y) = k
      BY <2>2, <2>6, <3>3, PlaceOf
    <3>5. InternalId(y) = Place(values, y) - 1
      BY <2>8 DEF InternalId, Place
    <3> QED BY <2>4, <2>7, <2>8, <3>2, <3>4, <3>5
  <2>9. InternalId(x)' = InternalId(x)
    <3>1. InternalId(x) = n
      <4>1. InternalId(x) = n % Capacity
        BY <1>3 DEF InternalId
      <4>2. n \in Nat /\ n < Capacity /\ Capacity \in Nat
        BY <1>1
      <4> HIDE DEF n
      <4> QED BY <4>1, <4>2, SmallRemainder
    <3>2. n + 1 \in 1..Len(vs)
      BY <1>1, <2>2
    <3>3. Place(vs, x) = n + 1
      BY <2>2, <2>6, <3>2, PlaceOf
    <3>4. (n + 1) - 1 = n
      BY <1>1
    <3>5. InternalId(x)' = Place(vs, x) - 1
      BY <2>4, <2>7
    <3> QED BY <3>1, <3>3, <3>4, <3>5
  <2>10. Len(vs) <= Capacity
    BY <1>1, <2>2
  <2>11. \A y \in ToSet(values) \cup {x} : InternalId(y)' = InternalId(y)
    BY <2>8, <2>9
  <2> QED BY <2>1, <2>2, <2>4, <2>6, <2>10, <2>11
<1> QED BY <1>2, <1>3

(* A leaf stores the pair of an entry, unless it is one an Exclude drops.  *)
LEMMA PairInserted ==
  ASSUME NEW rule, NEW value, NEW id, NEW pairs, pairs \in Seq(ToSet(pairs))
  PROVE  /\ InsertedPair(rule, value, pairs, id) \in Seq(ToSet(InsertedPair(rule, value, pairs, id)))
         /\ (Kind[rule] = "exclude" /\ value = Missing) => ToSet(InsertedPair(rule, value, pairs, id)) = ToSet(pairs)
         /\ ~(Kind[rule] = "exclude" /\ value = Missing) =>
              ToSet(InsertedPair(rule, value, pairs, id)) = ToSet(pairs) \cup {<<value, id>>}
<1> DEFINE p == <<value, id>>
           q == InsertedPair(rule, value, pairs, id)
<1>1. q = IF p \in ToSet(pairs) \/ (Kind[rule] = "exclude" /\ value = Missing) THEN pairs ELSE Append(pairs, p)
  BY DEF InsertedPair
<1>2. Append(pairs, p) \in Seq(ToSet(Append(pairs, p))) /\ ToSet(Append(pairs, p)) = ToSet(pairs) \cup {p}
  <2> HIDE DEF p
  <2> QED BY Appended
<1> HIDE DEF p, q
<1>3. CASE q = pairs /\ (p \in ToSet(pairs) \/ (Kind[rule] = "exclude" /\ value = Missing))
  <2>1. p \in ToSet(pairs) => ToSet(pairs) = ToSet(pairs) \cup {p}
    OBVIOUS
  <2> QED BY <1>3, <2>1 DEF p, q
<1>4. CASE q = Append(pairs, p) /\ ~(p \in ToSet(pairs) \/ (Kind[rule] = "exclude" /\ value = Missing))
  BY <1>2, <1>4 DEF p, q
<1> QED BY <1>1, <1>3, <1>4

LEMMA InsertStep ==
  ASSUME BuildInv, phase = "reading", ~Full, Len(log) < MaxEntries,
         NEW c \in Constraints[schema], NEW x \in ExternalIds, Insert(c, x)
  PROVE  BuildInv'
<1>1. Typed /\ Phased /\ Numbered /\ Placed /\ PostingsFollowEntries /\ SnapshotsFollowHints
  BY DEF BuildInv
<1>2. /\ values' = IF x \in ToSet(values) THEN values ELSE Append(values, x)
      /\ log' = Append(log, [constraint |-> c, id |-> x])
      /\ UNCHANGED <<schema, phase, state, pending, snapshots, hints, builds>>
  BY DEF Insert
<1>3. /\ values' \in Seq(ExternalIds) /\ Len(values') <= Capacity /\ IsInjective(values')
      /\ ToSet(values') = ToSet(values) \cup {x}
      /\ \A y \in ToSet(values) \cup {x} : InternalId(y)' = InternalId(y)
  BY <1>1, <1>2, ValuesGrow
<1> DEFINE n == Len(log)
           e == [constraint |-> c, id |-> x]
<1>4. /\ log' \in Seq([constraint : Constraints[schema], id : ExternalIds]) /\ Len(log') = n + 1
      /\ log'[n + 1] = e /\ \A i \in 1..n : log'[i] = log[i]
      /\ n \in Nat /\ DOMAIN log = 1..n /\ DOMAIN log' = 1..(n + 1)
  BY <1>1, <1>2 DEF Typed
<1>5. e.constraint = c /\ e.id = x
  OBVIOUS
<1> HIDE DEF e, n
<1>6. DOMAIN log' = DOMAIN log \cup {n + 1} /\ n + 1 \notin DOMAIN log /\ \A i \in DOMAIN log : log'[i] = log[i]
  BY <1>4
<1>7. Typed'
  <2>1. n < MaxEntries /\ MaxEntries \in Nat
    BY BuildAssumption DEF n
  <2> QED BY <1>1, <1>2, <1>3, <1>4, <2>1 DEF Typed
<1>8. Phased' /\ Published' /\ SnapshotsFollowHints'
  BY <1>1, <1>2 DEF Phased, Published, SnapshotsFollowHints
<1>9. Numbered'
  <2>1. ToSet(values) = {log[i].id : i \in DOMAIN log}
    BY <1>1 DEF Numbered
  <2>2. {log'[i].id : i \in DOMAIN log'} = {log[i].id : i \in DOMAIN log} \cup {x}
    BY <1>4, <1>5, <1>6
  <2> QED BY <1>3, <2>1, <2>2 DEF Numbered
<1>10. ASSUME NEW leaf \in state.leaves
       PROVE  /\ leaf.node \in DOMAIN content
              /\ content'[leaf.node] = Inserted(leaf, content[leaf.node], c, InternalId(x))
  <2>1. /\ leaf.node \in 0..(state.nodes - 1)
        /\ \A other \in state.leaves : other.node = leaf.node => other = leaf
    BY <1>1, <1>10, LeavesAssumption DEF Phased, Typed
  <2>2. leaf.node \in DOMAIN content
    BY <1>1, <2>1 DEF Placed
  <2>3. (CHOOSE other \in state.leaves : other.node = leaf.node) = leaf
    BY <1>10, <2>1
  <2>4. content' = [m \in DOMAIN content |->
          IF \E other \in state.leaves : other.node = m
          THEN Inserted(CHOOSE other \in state.leaves : other.node = m, content[m], c, InternalId(x))
          ELSE content[m]]
    BY DEF Insert
  <2> QED BY <1>10, <2>2, <2>3, <2>4
<1>11. DOMAIN content' = DOMAIN content
  BY DEF Insert
<1>12. ASSUME NEW leaf \in state.leaves, NEW side \in Sides(leaf.rule)
       PROVE  /\ content'[leaf.node][side] \in Seq(ToSet(content'[leaf.node][side]))
              /\ ToSet(content'[leaf.node][side]) = CalledFor(leaf, side)'
  <2> DEFINE value == SideOf(leaf.rule, side, c[leaf.rule])
             pairs == content[leaf.node][side]
             new == InsertedPair(leaf.rule, value, pairs, InternalId(x))
             dropped == Kind[leaf.rule] = "exclude" /\ value = Missing
  <2>1. content'[leaf.node][side] = new
    BY <1>10, <1>12 DEF Inserted
  <2>2. pairs \in Seq(ToSet(pairs))
    BY <1>1, <1>12 DEF Placed
  <2>3. /\ new \in Seq(ToSet(new))
        /\ ToSet(new) = IF dropped THEN ToSet(pairs) ELSE ToSet(pairs) \cup {<<value, InternalId(x)>>}
    <3> DEFINE id == InternalId(x)
    <3> HIDE DEF value, pairs, id
    <3> DEFINE r == leaf.rule
    <3> HIDE DEF r
    <3>1. /\ InsertedPair(r, value, pairs, id) \in Seq(ToSet(InsertedPair(r, value, pairs, id)))
          /\ (Kind[r] = "exclude" /\ value = Missing) => ToSet(InsertedPair(r, value, pairs, id)) = ToSet(pairs)
          /\ ~(Kind[r] = "exclude" /\ value = Missing) =>
               ToSet(InsertedPair(r, value, pairs, id)) = ToSet(pairs) \cup {<<value, id>>}
      BY <2>2, PairInserted
    <3> QED BY <3>1 DEF id, r
  <2>4. ToSet(pairs) = CalledFor(leaf, side)
    BY <1>1, <1>12 DEF PostingsFollowEntries, PairsOf, Store
  <2>5. KeptBy(leaf, side)' = KeptBy(leaf, side) \cup (IF dropped THEN {} ELSE {n + 1})
    BY <1>4, <1>5, <1>6 DEF KeptBy
  <2>6. \A i \in DOMAIN log : InternalId(log[i].id)' = InternalId(log[i].id)
    <3>1. SUFFICES ASSUME NEW i \in DOMAIN log PROVE InternalId(log[i].id)' = InternalId(log[i].id)
      OBVIOUS
    <3>2. log[i].id \in ToSet(values)
      BY <1>1 DEF Numbered
    <3>3. log'[i].id = log[i].id
      BY <1>6
    <3> QED BY <1>3, <3>2, <3>3, ZenonT(40) DEF InternalId, SelectInSeq
  <2>7. CalledFor(leaf, side)' =
          CalledFor(leaf, side) \cup (IF dropped THEN {} ELSE {<<value, InternalId(x)>>})
    BY <1>3, <1>4, <1>5, <1>6, <2>5, <2>6, SMTT(30) DEF CalledFor, KeptBy
  <2> HIDE DEF new, dropped, value, pairs
  <2> QED BY <2>1, <2>3, <2>4, <2>7
<1>13. Placed' /\ PostingsFollowEntries'
  <2>1. state' = state /\ phase' = phase
    BY <1>2
  <2>2. Placed'
    BY <1>1, <1>11, <1>12, <2>1 DEF Placed
  <2>3. PostingsFollowEntries'
    BY <1>12, <2>1 DEF PostingsFollowEntries, PairsOf, Store
  <2> QED BY <2>2, <2>3
<1> QED BY <1>7, <1>8, <1>9, <1>13 DEF BuildInv

LEMMA EntryStep ==
  ASSUME BuildInv, NEW c \in Constraints[schema], NEW x \in ExternalIds, Entry(c, x)
  PROVE  BuildInv'
<1>1. phase = "reading" /\ Len(log) < MaxEntries
  BY DEF Entry
<1>2. CASE Full \/ ~Valid(c)
  BY <1>1, <1>2, FailStep DEF Entry
<1>3. CASE ~(Full \/ ~Valid(c))
  BY <1>1, <1>3, InsertStep DEF Entry
<1> QED BY <1>2, <1>3

LEMMA StutterStep ==
  ASSUME BuildInv, UNCHANGED vars
  PROVE  BuildInv'
<1>1. Typed' /\ Phased' /\ Published' /\ SnapshotsFollowHints'
  BY DEF vars, BuildInv, Typed, Phased, Published, SnapshotsFollowHints
<1>2. CASE phase # "idle"
  <2>1. Numbered' /\ Placed' /\ PostingsFollowEntries'
    BY <1>2, KeptAsRead DEF vars
  <2> QED BY <1>1, <2>1 DEF BuildInv
<1>3. CASE phase = "idle"
  <2>1. Numbered' /\ Placed'
    BY DEF vars, BuildInv, Numbered, Placed
  <2>2. PostingsFollowEntries'
    BY <1>3 DEF vars, BuildInv, Phased, NoState, PostingsFollowEntries
  <2> QED BY <1>1, <2>1, <2>2 DEF BuildInv
<1> QED BY <1>2, <1>3

LEMMA NextBuild ==
  ASSUME BuildInv, [Next]_vars
  PROVE  BuildInv'
<1>1. CASE RefuseNil
  BY <1>1, RefuseStep
<1>2. CASE Start
  BY <1>2, StartStep
<1>3. CASE Yield
  <2>1. values \in Seq(ExternalIds)
    BY DEF BuildInv, Typed
  <2>2. ToSet(values) \subseteq ExternalIds
    BY <2>1 DEF ToSet
  <2>3. Unseen # {} => (CHOOSE x \in Unseen : TRUE) \in ExternalIds
    BY DEF Unseen
  <2>4. PICK c \in Constraints[schema] :
          \/ \E x \in ToSet(values) : Entry(c, x)
          \/ Unseen # {} /\ Entry(c, CHOOSE x \in Unseen : TRUE)
    BY <1>3 DEF Yield
  <2>5. \E x \in ExternalIds : Entry(c, x)
    BY <2>2, <2>3, <2>4
  <2> QED BY <2>5, EntryStep
<1>4. CASE End
  BY <1>4, EndStep
<1>5. CASE PublishNext
  BY <1>5, PublishStep
<1>6. CASE Return
  BY <1>6, ReturnStep
<1>7. CASE UNCHANGED vars
  BY <1>7, StutterStep
<1> QED BY <1>1, <1>2, <1>3, <1>4, <1>5, <1>6, <1>7 DEF Next

THEOREM BuildInvHolds == Spec => []BuildInv
<1>1. Init => BuildInv
  BY InitBuild
<1>2. BuildInv /\ [Next]_vars => BuildInv'
  BY NextBuild
<1> QED BY <1>1, <1>2, PTL DEF Spec

(* The IDs, entries and inspectors of a build stay what they should be,    *)
(* and no build gives out more internal IDs than there are.                *)
THEOREM BuildTypeCorrect == Spec => []TypeOK
<1>1. BuildInv => TypeOK
  BY TypeFollows
<1> QED BY <1>1, BuildInvHolds, PTL

(* Internal IDs are dense, stand for one external ID each, and every leaf  *)
(* of the positive tree holds every one of them.                           *)
THEOREM IdsDenseHolds == Spec => []IdsDense
<1>1. BuildInv => IdsDense
  BY IdsFollow
<1> QED BY <1>1, BuildInvHolds, PTL

(* A side of a leaf holds exactly the pairs the accepted entries call for, *)
(* under the internal IDs their external IDs got: every entry is in every  *)
(* leaf, nothing is left of an earlier build, and an Exclude holds no      *)
(* missing value.                                                          *)
THEOREM PostingsFollowEntriesHolds == Spec => []PostingsFollowEntries
<1>1. BuildInv => PostingsFollowEntries
  BY DEF BuildInv
<1> QED BY <1>1, BuildInvHolds, PTL

(* An inspector's snapshot is that of the last build that succeeded, or of *)
(* the one that is publishing.                                             *)
THEOREM SnapshotsFollowHintsHolds == Spec => []SnapshotsFollowHints
<1>1. BuildInv => SnapshotsFollowHints
  BY DEF BuildInv
<1> QED BY <1>1, BuildInvHolds, PTL

(* No reader finds an inner inspector older than an outer one it loaded    *)
(* before.                                                                 *)
THEOREM InnerNotOlderHolds == Spec => []InnerNotOlder
<1>1. BuildInv => InnerNotOlder
  BY InnerFollows
<1> QED BY <1>1, BuildInvHolds, PTL

(* A side of a leaf is a leaf of EqualityTheory over the internal IDs      *)
StoredKeys ==
  UNION {UNION {{p[1] : p \in PairsOf(Store, leaf.node, side)} : side \in Sides(leaf.rule)} : leaf \in state.leaves}

LeavesComplete ==
  \A leaf \in state.leaves : leaf.kind = "leaf" =>
    \A side \in Sides(leaf.rule) :
      /\ PairsOf(Store, leaf.node, side) \in Leaves(StoredKeys, Ids(Store))
      /\ IsFiniteSet(PairsOf(Store, leaf.node, side))

LEMMA LeavesFollow ==
  ASSUME BuildInv
  PROVE  LeavesComplete
<1> SUFFICES ASSUME NEW leaf \in state.leaves, leaf.kind = "leaf", NEW side \in Sides(leaf.rule)
             PROVE  /\ PairsOf(Store, leaf.node, side) \in Leaves(StoredKeys, Ids(Store))
                    /\ IsFiniteSet(PairsOf(Store, leaf.node, side))
  BY DEF LeavesComplete
<1> DEFINE pairs == PairsOf(Store, leaf.node, side)
           keys == StoredKeys
           ids == Ids(Store)
<1>1. {p[2] : p \in pairs} = ids
  BY IdsFollow DEF IdsDense
<1>2. pairs = CalledFor(leaf, side)
  BY DEF BuildInv, PostingsFollowEntries
<1>3. \A p \in pairs : p = <<p[1], p[2]>>
  BY <1>2 DEF CalledFor
<1>4. IsFiniteSet(pairs)
  <2>1. log \in Seq([constraint : Constraints[schema], id : ExternalIds])
    BY DEF BuildInv, Typed
  <2>2. IsFiniteSet(DOMAIN log)
    <3>1. DOMAIN log = 1..Len(log) /\ Len(log) \in Int /\ 1 \in Int
      BY <2>1
    <3>2. IsFiniteSet(1..Len(log))
      BY <3>1, FS_Interval
    <3> QED BY <3>1, <3>2
  <2>3. IsFiniteSet(KeptBy(leaf, side))
    BY <2>2, FS_Subset DEF KeptBy
  <2> DEFINE f == [i \in KeptBy(leaf, side) |->
                     <<SideOf(leaf.rule, side, log[i].constraint[leaf.rule]), InternalId(log[i].id)>>]
  <2>4. CalledFor(leaf, side) = {f[i] : i \in KeptBy(leaf, side)}
    BY DEF CalledFor
  <2>5. f \in Surjection(KeptBy(leaf, side), CalledFor(leaf, side))
    BY <2>4 DEF Surjection
  <2> HIDE DEF f
  <2> QED BY <1>2, <2>3, <2>5, FS_Surjection
<1>6. \A p \in pairs : p[1] \in keys
  BY DEF StoredKeys
<1> HIDE DEF pairs, ids, keys
<1>5. pairs \in Leaves(keys, ids)
  <2>1. pairs \subseteq (keys \cup {Missing}) \X ids
    <3>1. SUFFICES ASSUME NEW p \in pairs PROVE p \in (keys \cup {Missing}) \X ids
      OBVIOUS
    <3>2. p[1] \in keys /\ p[2] \in ids
      BY <1>1, <1>6
    <3> QED BY <3>2, <1>3
  <2>2. ASSUME NEW i \in ids PROVE \E k \in keys \cup {Missing} : <<k, i>> \in pairs
    <3>1. PICK p \in pairs : p[2] = i
      BY <1>1, <2>2
    <3>2. p[1] \in keys /\ p = <<p[1], i>>
      BY <3>1, <1>3, <1>6
    <3> QED BY <3>1, <3>2
  <2> QED BY <2>1, <2>2 DEF Leaves
<1> QED BY <1>4, <1>5 DEF pairs, ids, keys

(* What AntonymExact asks of a leaf, every build gives it: every internal  *)
(* ID at least once, with or without a value, and finitely many pairs.     *)
THEOREM LeavesCompleteHolds == Spec => []LeavesComplete
<1>1. BuildInv => LeavesComplete
  BY LeavesFollow
<1> QED BY <1>1, BuildInvHolds, PTL

-----------------------------------------------------------------------------
(* The two parts of a pair of a leaf, and its ID again as a second part.    *)
LEMMA PairParts ==
  ASSUME NEW keys, NEW ids, NEW leaf \in Leaves(keys, ids)
  PROVE  /\ \A p \in leaf : p = <<p[1], p[2]>> /\ p[2] \in ids
         /\ Wild(leaf) = {i \in ids : <<Missing, i>> \in leaf}
         /\ \A q, i : i \in Concrete(leaf, q) <=> q # Missing /\ <<q, i>> \in leaf
<1>1. \A p \in leaf : p = <<p[1], p[2]>> /\ p[2] \in ids
  BY DEF Leaves
<1>2. \A k, i : i \in Stored(leaf, k) <=> <<k, i>> \in leaf
  <2> SUFFICES ASSUME NEW k, NEW i PROVE i \in Stored(leaf, k) <=> <<k, i>> \in leaf
    OBVIOUS
  <2>1. ASSUME i \in Stored(leaf, k) PROVE <<k, i>> \in leaf
    <3>1. PICK p \in leaf : p[1] = k /\ p[2] = i
      BY <2>1 DEF Stored
    <3> QED BY <1>1, <3>1
  <2>2. ASSUME <<k, i>> \in leaf PROVE i \in Stored(leaf, k)
    <3>1. <<k, i>>[1] = k /\ <<k, i>>[2] = i
      OBVIOUS
    <3> QED BY <2>2, <3>1 DEF Stored
  <2> QED BY <2>1, <2>2
<1>3. \A i : <<Missing, i>> \in leaf => i \in ids
  <2> SUFFICES ASSUME NEW i, <<Missing, i>> \in leaf PROVE i \in ids
    OBVIOUS
  <2>1. <<Missing, i>>[2] \in ids
    BY <1>1
  <2> QED BY <2>1
<1>4. Wild(leaf) = {i \in ids : <<Missing, i>> \in leaf}
  BY <1>2, <1>3 DEF Wild
<1>5. \A q, i : i \in Concrete(leaf, q) <=> q # Missing /\ <<q, i>> \in leaf
  BY <1>2 DEF Concrete
<1> QED BY <1>1, <1>4, <1>5

(* A leaf has at least one pair for every ID, and exactly one for each when *)
(* it has as many pairs as there are IDs.                                   *)
LEMMA PairsCountIds ==
  ASSUME NEW keys, NEW ids, NEW leaf \in Leaves(keys, ids), IsFiniteSet(leaf)
  PROVE  /\ IsFiniteSet(ids)
         /\ Cardinality(ids) <= Cardinality(leaf)
         /\ Cardinality(ids) = Cardinality(leaf) =>
              \A p, q \in leaf : p[2] = q[2] => p = q
<1> DEFINE id == [p \in leaf |-> p[2]]
<1>1. id \in [leaf -> ids]
  BY PairParts
<1>2. \A i \in ids : \E p \in leaf : id[p] = i
  <2> SUFFICES ASSUME NEW i \in ids PROVE \E p \in leaf : id[p] = i
    OBVIOUS
  <2>1. PICK k \in keys \cup {Missing} : <<k, i>> \in leaf
    BY DEF Leaves
  <2>2. id[<<k, i>>] = i
    BY <2>1
  <2> QED BY <2>1, <2>2
<1>3. id \in Surjection(leaf, ids)
  BY <1>1, <1>2 DEF Surjection
<1>4. /\ IsFiniteSet(ids)
      /\ Cardinality(ids) <= Cardinality(leaf)
      /\ Cardinality(ids) = Cardinality(leaf) <=> id \in Injection(leaf, ids)
  BY <1>3, FS_Surjection
<1>5. id \in Injection(leaf, ids) => \A p, q \in leaf : p[2] = q[2] => p = q
  BY DEF Injection, IsInjective
<1> QED BY <1>4, <1>5

(* The sum the code computes is the size of the symmetric difference.       *)
LEMMA XorCounts ==
  ASSUME NEW ids, IsFiniteSet(ids), NEW A \in SUBSET ids, NEW B \in SUBSET ids
  PROVE  /\ XorCardinality(A, B) <= Cardinality(ids)
         /\ XorCardinality(A, B) = Cardinality(ids) => B = ids \ A
<1> DEFINE both == A \cap B
           xor  == (A \cup B) \ both
<1>1. IsFiniteSet(A) /\ IsFiniteSet(B) /\ IsFiniteSet(both) /\ IsFiniteSet(A \cup B)
  <2>1. both \in SUBSET ids /\ A \cup B \in SUBSET ids
    OBVIOUS
  <2> QED BY <2>1, FS_Subset
<1>2. Cardinality(A) \in Nat /\ Cardinality(B) \in Nat /\ Cardinality(both) \in Nat /\ Cardinality(ids) \in Nat
  BY <1>1, FS_CardinalityType
<1>3. Cardinality(A \cup B) = Cardinality(A) + Cardinality(B) - Cardinality(both)
  BY <1>1, FS_Union
<1>4. Cardinality(xor) = Cardinality(A \cup B) - Cardinality((A \cup B) \cap both)
  BY <1>1, FS_Difference
<1>5. (A \cup B) \cap both = both
  OBVIOUS
<1>6. XorCardinality(A, B) = Cardinality(xor)
  <2>1. Cardinality(xor) = Cardinality(A \cup B) - Cardinality(both)
    BY <1>4, <1>5
  <2>2. XorCardinality(A, B) = Cardinality(A) + Cardinality(B) - 2 * Cardinality(both)
    BY DEF XorCardinality
  <2> HIDE DEF both, xor
  <2> QED BY <1>2, <1>3, <2>1, <2>2
<1>7. xor \in SUBSET ids
  OBVIOUS
<1>8. Cardinality(xor) <= Cardinality(ids) /\ (Cardinality(ids) = Cardinality(xor) => ids = xor)
  BY <1>7, FS_Subset
<1>9. ids = xor => B = ids \ A
  OBVIOUS
<1> QED BY <1>6, <1>8, <1>9

(* Two leaves that pass strictWildcardComplements have complementary        *)
(* wildcards, and no ID of either has both a value and a missing value.     *)
LEMMA ComplementsMean ==
  ASSUME NEW keys, NEW ids,
         NEW left \in Leaves(keys, ids), IsFiniteSet(left),
         NEW right \in Leaves(keys, ids), IsFiniteSet(right),
         Complements(left, right)
  PROVE  /\ Wild(right) = ids \ Wild(left)
         /\ \A q, i : i \in Concrete(left, q) => i \notin Wild(left)
         /\ \A q, i : i \in Concrete(right, q) => i \notin Wild(right)
<1>1. IsFiniteSet(ids) /\ Cardinality(ids) <= Cardinality(left)
  BY PairsCountIds
<1>2. Wild(left) \in SUBSET ids /\ Wild(right) \in SUBSET ids
  <2>1. \A leaf \in Leaves(keys, ids) : Wild(leaf) \in SUBSET ids
    <3> TAKE leaf \in Leaves(keys, ids)
    <3>1. Wild(leaf) = {i \in ids : <<Missing, i>> \in leaf}
      BY PairParts
    <3> QED BY <3>1
  <2> QED BY <2>1
<1>3. /\ XorCardinality(Wild(left), Wild(right)) <= Cardinality(ids)
      /\ XorCardinality(Wild(left), Wild(right)) = Cardinality(ids) => Wild(right) = ids \ Wild(left)
  BY <1>1, <1>2, XorCounts
<1>4. Cardinality(left) \in Nat /\ Cardinality(right) \in Nat /\ Cardinality(ids) \in Nat
  BY <1>1, FS_CardinalityType
<1>5. XorCardinality(Wild(left), Wild(right)) = Cardinality(left) /\ Cardinality(left) = Cardinality(right)
  BY DEF Complements, Total
<1>6. Cardinality(ids) = Cardinality(left) /\ Cardinality(ids) = Cardinality(right)
  BY <1>1, <1>3, <1>4, <1>5
<1>7. ASSUME NEW leaf \in Leaves(keys, ids), IsFiniteSet(leaf), Cardinality(ids) = Cardinality(leaf),
             NEW q, NEW i, i \in Concrete(leaf, q)
      PROVE  i \notin Wild(leaf)
  <2>1. \A p, r \in leaf : p[2] = r[2] => p = r
    BY <1>7, PairsCountIds
  <2>2. q # Missing /\ <<q, i>> \in leaf
    BY <1>7, PairParts
  <2>3. <<Missing, i>> \notin leaf
    <3> SUFFICES ASSUME <<Missing, i>> \in leaf PROVE FALSE
      OBVIOUS
    <3>1. <<q, i>>[2] = <<Missing, i>>[2] /\ <<q, i>>[1] = q /\ <<Missing, i>>[1] = Missing
      OBVIOUS
    <3>2. <<q, i>> = <<Missing, i>>
      BY <2>1, <2>2, <3>1
    <3> QED BY <2>2, <3>1, <3>2
  <2> QED BY <2>3, PairParts
<1> QED BY <1>3, <1>5, <1>6, <1>7

(* A strict antonym operand answers exactly what the children it replaces   *)
(* answer together, for every leaf content, every query and any number of   *)
(* members on either side.  Only the first member of each side was tested:  *)
(* the others share its wildcard.                                           *)
THEOREM AntonymExact ==
  ASSUME NEW keys, NEW ids, NEW left, NEW right, NEW leaf, NEW q,
         NEW first \in left, NEW second \in right,
         \A r \in left \cup right : leaf[r] \in Leaves(keys, ids) /\ IsFiniteSet(leaf[r]),
         \A r \in left : Wild(leaf[r]) = Wild(leaf[first]),
         \A r \in right : Wild(leaf[r]) = Wild(leaf[second]),
         Complements(leaf[first], leaf[second])
  PROVE  AntonymMatches(leaf, left, right, q, ids) = AllMeet(leaf, left \cup right, q, ids)
<1>1. /\ Wild(leaf[second]) = ids \ Wild(leaf[first])
      /\ \A k, i : i \in Concrete(leaf[first], k) => i \notin Wild(leaf[first])
      /\ \A k, i : i \in Concrete(leaf[second], k) => i \notin Wild(leaf[second])
  BY ComplementsMean
<1>2. SUFFICES ASSUME NEW i \in ids
               PROVE  i \in AntonymMatches(leaf, left, right, q, ids)
                        <=> \A r \in left \cup right : i \in Meets(leaf[r], q[r])
  BY DEF AntonymMatches, SideMatches, AllMeet
<1>3. CASE i \in Wild(leaf[first])
  <2>1. \A r \in left : i \in Meets(leaf[r], q[r])
    BY <1>3 DEF Meets
  <2>2. i \notin SideMatches(leaf, left, q, ids)
    BY <1>1, <1>3 DEF SideMatches
  <2>3. \A r \in right : i \in Meets(leaf[r], q[r]) <=> i \in Concrete(leaf[r], q[r])
    BY <1>1, <1>3 DEF Meets
  <2> QED BY <2>1, <2>2, <2>3 DEF AntonymMatches, SideMatches
<1>4. CASE i \notin Wild(leaf[first])
  <2>1. \A r \in right : i \in Meets(leaf[r], q[r])
    BY <1>1, <1>4 DEF Meets
  <2>2. i \notin SideMatches(leaf, right, q, ids)
    BY <1>1, <1>4 DEF SideMatches
  <2>3. \A r \in left : i \in Meets(leaf[r], q[r]) <=> i \in Concrete(leaf[r], q[r])
    BY <1>4 DEF Meets
  <2> QED BY <2>1, <2>2, <2>3 DEF AntonymMatches, SideMatches
<1> QED BY <1>3, <1>4
================================================================================
