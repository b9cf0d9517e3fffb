----------------------------- MODULE SchemaTree ------------------------------
(***************************************************************************)
(* The passes a Build runs over the rule tree, and what the trees it ends  *)
(* with answer.  A schema and a tree are records with a kind:              *)
(*                                                                         *)
(*   leaf, exclude   an indexed rule; in a tree it has a runtime node      *)
(*   all             of: the children; in a tree, classes: their number    *)
(*   inspect         dst, child: as declared; alias: the child was built   *)
(*                   elsewhere and is inserted into there                  *)
(*   observed        what an inspect becomes: observers, and the aliases   *)
(*   match           every ID                                              *)
(*   antonym         two groups of leaves, read without wildcards          *)
(*                                                                         *)
(* Rule names stand for the identity of leaf schemas, All names for that   *)
(* of All schemas.  x holds the postings and the number of internal IDs.   *)
(***************************************************************************)
EXTENDS Postings

CONSTANT
  BitmapLimit     \* IDs of an equality value before it is a bitmap (32 in the code)

AllOf(children) == [kind |-> "all", of |-> children, classes |-> 0]
MatchAll        == [kind |-> "match"]
Observed(child, metrics, aliases) ==
  [kind |-> "observed", child |-> child, metrics |-> metrics, aliases |-> aliases]

-----------------------------------------------------------------------------
(* newState: runtime nodes are numbered in schema order, and a canonical   *)
(* rule, one whose schema object was built before, is the state built then *)
IsCanonical(s) == s.kind \in {"leaf", "all"}
Descriptor(s)  == IF s.kind = "leaf" THEN <<"leaf", s.rule>> ELSE <<"all", s.name>>

RECURSIVE NewState(_, _), CanonicalState(_, _)

(* All drops the children it already has.                                  *)
NewAll(s, m) ==
  LET Add(a, c) ==
        IF IsCanonical(c) /\ Descriptor(c) \in a.seen THEN a
        ELSE LET r == CanonicalState(c, [made |-> a.made, next |-> a.next]) IN
             [of |-> Append(a.of, r.tree), made |-> r.made, next |-> r.next,
              seen |-> IF IsCanonical(c) THEN a.seen \cup {Descriptor(c)} ELSE a.seen]
      all == FoldLeft(Add, [of |-> <<>>, seen |-> {}, made |-> m.made, next |-> m.next], s.of)
  IN  [tree |-> AllOf(all.of), made |-> all.made, next |-> all.next, reused |-> FALSE]

NewState(s, m) ==
  CASE s.kind \in {"leaf", "exclude"} ->
         [tree |-> [kind |-> s.kind, rule |-> s.rule, node |-> m.next],
          made |-> m.made, next |-> m.next + 1, reused |-> FALSE]
    [] s.kind = "all" -> NewAll(s, m)
    [] s.kind = "inspect" ->
         LET r == CanonicalState(s.child, m) IN
         [tree |-> [kind |-> "inspect", dst |-> s.dst, child |-> r.tree, alias |-> r.reused],
          made |-> r.made, next |-> r.next, reused |-> FALSE]

CanonicalState(s, m) ==
  IF ~IsCanonical(s) THEN NewState(s, m)
  ELSE IF Descriptor(s) \in DOMAIN m.made
  THEN [tree |-> m.made[Descriptor(s)], made |-> m.made, next |-> m.next, reused |-> TRUE]
  ELSE LET r == NewState(s, m) IN
       [r EXCEPT !.made = [d \in DOMAIN @ \cup {Descriptor(s)} |-> IF d = Descriptor(s) THEN r.tree ELSE @[d]]]

State(schema) == NewState(schema, [made |-> <<>>, next |-> 0])

(* The leaves insert reaches: what is below an alias was reached already.  *)
RECURSIVE Reached(_)
Reached(t) ==
  CASE t.kind \in {"leaf", "exclude"} -> {t}
    [] t.kind = "inspect" -> IF t.alias THEN {} ELSE Reached(t.child)
    [] t.kind = "all"     -> UNION {Reached(t.of[i]) : i \in DOMAIN t.of}
    [] t.kind = "match"   -> {}

-----------------------------------------------------------------------------
(* What a stored value answers                                             *)
(* compareByRule.each: the stored operator decides.                        *)
Compares(op, q, v) ==
  CASE op = "eq"  -> q = v
    [] op = "lt"  -> q < v
    [] op = "lte" -> q <= v
    [] op = "gt"  -> q > v
    [] op = "gte" -> q >= v

(* A concrete stored key meets a concrete query value.                     *)
MeetsKey(rule, side, key, q) ==
  CASE Kind[rule] \in {"include", "exclude"} -> key = q
    [] Kind[rule] = "compareBy" -> Compares(key[1], q, key[2])
    [] Kind[rule] = "between"   -> IF side = 1 THEN key <= q ELSE q <= key

SideMeets(x, leaf, side, q) ==
  IF Kind[leaf.rule] = "include" THEN Meets(PairsOf(x, leaf.node, side), q)
  ELSE {p[2] : p \in {p \in PairsOf(x, leaf.node, side) :
                        p[1] = Missing \/ (q # Missing /\ MeetsKey(leaf.rule, side, p[1], q))}}

(* search: Between intersects its two sides.                               *)
LeafMatches(x, leaf, q) ==
  {i \in Ids(x) : \A side \in Sides(leaf.rule) : i \in SideMeets(x, leaf, side, SideOf(leaf.rule, side, q[leaf.rule]))}

HasExclusions(x, leaf) == x.content[leaf.node][1] # <<>>
Excluded(x, leaf, q) == Concrete(PairsOf(x, leaf.node, 1), q[leaf.rule])

-----------------------------------------------------------------------------
(* optimize: a leaf whose wildcards hold every ID                          *)
Universal(x, leaf) ==
  \A side \in Sides(leaf.rule) : Cardinality(Wild(PairsOf(x, leaf.node, side))) = x.total

RECURSIVE Optimize(_, _)

(* All drops universal children, takes the children of an All in its place *)
(* and keeps one of each canonical leaf.                                   *)
OptimizedChildren(x, all) ==
  LET AddOne(cs, c) == IF c.kind = "leaf" /\ c \in ToSet(cs) THEN cs ELSE Append(cs, c)
      Add(cs, c) ==
        LET o == Optimize(x, c) IN
        CASE o.kind = "match" -> cs
          [] o.kind = "all"   -> FoldLeft(AddOne, cs, o.of)
          [] OTHER            -> AddOne(cs, o)
  IN  FoldLeft(Add, <<>>, all.of)

Optimize(x, t) ==
  CASE t.kind = "leaf"    -> IF Universal(x, t) THEN MatchAll ELSE t
    [] t.kind = "inspect" -> [t EXCEPT !.child = Optimize(x, @)]
    [] t.kind = "all" ->
         LET cs == OptimizedChildren(x, t) IN
         IF cs = <<>> THEN MatchAll
         ELSE IF Len(cs) = 1 /\ ~(cs[1].kind = "observed" /\ cs[1].aliases # <<>>) THEN cs[1]
         ELSE AllOf(cs)
    [] OTHER -> t

(* The inspectors a schema or a tree names, outer ones first               *)
RECURSIVE PreOrder(_)
PreOrder(t) ==
  CASE t.kind = "inspect" -> <<t.dst>> \o PreOrder(t.child)
    [] t.kind = "all"     -> FlattenSeq([i \in DOMAIN t.of |-> PreOrder(t.of[i])])
    [] OTHER              -> <<>>

(* stripInspectors appends an inspector after those below it.              *)
RECURSIVE Pending(_)
Pending(t) ==
  CASE t.kind = "inspect" -> Append(Pending(t.child), t.dst)
    [] t.kind = "all"     -> FlattenSeq([i \in DOMAIN t.of |-> Pending(t.of[i])])
    [] OTHER              -> <<>>

RECURSIVE Strip(_)
Strip(t) ==
  CASE t.kind = "inspect" -> Observed(Strip(t.child), t.dst, <<>>)
    [] t.kind = "all"     -> AllOf([i \in DOMAIN t.of |-> Strip(t.of[i])])
    [] OTHER              -> t

(* compileAllPhysicalOperands: children that are one operand, observed or  *)
(* not, become one, with every observer.  Only leaves are ever one object. *)
Bare(t) == IF t.kind = "observed" THEN t.child ELSE t
SameOperand(t, u) == Bare(t).kind \in {"leaf", "exclude"} /\ Bare(t) = Bare(u)

(* Fault: a second observer of the operand is forgotten.                   *)
MergedDropped(owner, incoming) ==
  IF incoming.kind = "observed" /\ owner.kind # "observed" THEN incoming ELSE owner

Merged(owner, incoming) ==
  IF incoming.kind # "observed" THEN owner
  ELSE IF owner.kind # "observed" THEN incoming
  ELSE [owner EXCEPT !.aliases = @ \o <<incoming.metrics>> \o incoming.aliases]

RECURSIVE Physical(_)
Physical(t) ==
  LET Add(cs, c) ==
        LET p == Physical(c)
            owner == SelectInSeq(cs, LAMBDA d : SameOperand(d, p))
        IN  IF owner = 0 THEN Append(cs, p) ELSE [cs EXCEPT ![owner] = Merged(@, p)]
  IN  CASE t.kind = "observed" -> [t EXCEPT !.child = Physical(@)]
        [] t.kind = "all"      -> AllOf(FoldLeft(Add, <<>>, t.of))
        [] OTHER               -> t

-----------------------------------------------------------------------------
(* Exclusions that hold a value leave the positive tree.                   *)
RECURSIVE Exclusions(_, _)
Exclusions(x, t) ==
  CASE t.kind = "observed" /\ t.child.kind = "exclude" ->
         IF HasExclusions(x, t.child) THEN <<[leaf |-> t.child, metrics |-> <<t.metrics>>]>> ELSE <<>>
    [] t.kind = "observed" -> Exclusions(x, t.child)
    [] t.kind = "exclude"  -> IF HasExclusions(x, t) THEN <<[leaf |-> t, metrics |-> <<>>]>> ELSE <<>>
    [] t.kind = "all"      -> FlattenSeq([i \in DOMAIN t.of |-> Exclusions(x, t.of[i])])
    [] OTHER               -> <<>>

(* removeExclusionRules rebuilds the wrappers it passes, without aliases.  *)
RECURSIVE RemoveExclusions(_, _)
RemoveExclusions(x, t) ==
  CASE t.kind = "exclude"  -> MatchAll
    [] t.kind = "observed" -> IF t.child.kind = "exclude" THEN MatchAll
                              ELSE Observed(RemoveExclusions(x, t.child), t.metrics, <<>>)
    [] t.kind = "all"      -> Optimize(x, AllOf([i \in DOMAIN t.of |-> RemoveExclusions(x, t.of[i])]))
    [] OTHER               -> t

RECURSIVE RemoveInspectors(_)
RemoveInspectors(t) ==
  CASE t.kind = "observed" -> RemoveInspectors(t.child)
    [] t.kind = "all"      -> AllOf([i \in DOMAIN t.of |-> RemoveInspectors(t.of[i])])
    [] OTHER               -> t

-----------------------------------------------------------------------------
(* Interning names equal bitmaps once, in the order the tree is walked.    *)
RECURSIVE Unwrapped(_)
Unwrapped(t) == IF t.kind = "observed" THEN Unwrapped(t.child) ELSE t
IsEquality(t) == t.kind = "leaf" /\ Kind[t.rule] = "include"

(* Keys in the order they were first stored                                *)
KeysOf(x, leaf) ==
  FoldLeft(LAMBDA ks, p : IF p[1] \in ToSet(ks) THEN ks ELSE Append(ks, p[1]), <<>>, x.content[leaf.node][1])

(* equalitySetBitmap: a posting of few IDs has no bitmap, hence no source. *)
Postings(x, leaf) ==
  LET Big(k) == k # Missing /\ Cardinality(Stored(PairsOf(x, leaf.node, 1), k)) > BitmapLimit
      keys == SelectSeq(KeysOf(x, leaf), Big)
  IN  [i \in DOMAIN keys |-> Stored(PairsOf(x, leaf.node, 1), keys[i])]

WildOf(x, leaf) == Wild(PairsOf(x, leaf.node, 1))

RECURSIVE Sources(_, _)
Sources(x, t) ==
  CASE t.kind = "observed" -> Sources(x, t.child)
    [] t.kind = "all"      -> FlattenSeq([i \in DOMAIN t.of |-> Sources(x, t.of[i])])
    [] IsEquality(t)       -> <<WildOf(x, t)>> \o Postings(x, t)
    [] OTHER               -> <<>>

(* visitEqualitySources: a result is a wildcard with at most one posting.  *)
SourcePairs(x, leaf) ==
  {<<WildOf(x, leaf), <<>>>>} \cup {<<WildOf(x, leaf), <<p>>>> : p \in ToSet(Postings(x, leaf))}

(* Pairs found in two children of one All                                  *)
SharedPairs(x, all) ==
  LET of(i) == IF IsEquality(Unwrapped(all.of[i])) THEN SourcePairs(x, Unwrapped(all.of[i])) ELSE {}
  IN  UNION {of(i) \cap of(j) : <<i, j>> \in {p \in (DOMAIN all.of) \X (DOMAIN all.of) : p[1] # p[2]}}

(* The ordinals of an All's classes, by wildcard and posting source        *)
Ordinals(x, sources, all) ==
  LET Source(b) == SelectInSeq(sources, LAMBDA s : s = b)
      Key(p) == <<Source(p[1]), IF p[2] = <<>> THEN 0 ELSE Source(p[2][1])>>
      Before(p, q) == Key(p)[1] < Key(q)[1] \/ (Key(p)[1] = Key(q)[1] /\ Key(p)[2] < Key(q)[2])
  IN  [p \in SharedPairs(x, all) |-> 1 + Cardinality({q \in SharedPairs(x, all) : Before(q, p)})]

RECURSIVE AllsBottomUp(_)
AllsBottomUp(t) ==
  CASE t.kind = "observed" -> AllsBottomUp(t.child)
    [] t.kind = "all"      -> Append(FlattenSeq([i \in DOMAIN t.of |-> AllsBottomUp(t.of[i])]), t)
    [] OTHER               -> <<>>

(* assignEqualityClasses writes into the leaf: the last All that has any   *)
(* class decides what a leaf says.                                         *)
ClassTable(x, t) ==
  LET sources == Sources(x, t)
      Assign(table, all) ==
        IF SharedPairs(x, all) = {} THEN table
        ELSE LET nodes == {Unwrapped(all.of[i]).node : i \in {i \in DOMAIN all.of : IsEquality(Unwrapped(all.of[i]))}}
             IN  [n \in DOMAIN table \cup nodes |-> IF n \in nodes THEN Ordinals(x, sources, all) ELSE table[n]]
  IN  FoldLeft(Assign, <<>>, AllsBottomUp(t))

RECURSIVE Classed(_, _)
Classed(x, t) ==
  CASE t.kind = "observed" -> [t EXCEPT !.child = Classed(x, @)]
    [] t.kind = "all" -> [kind |-> "all", of |-> [i \in DOMAIN t.of |-> Classed(x, t.of[i])],
                          classes |-> Cardinality(SharedPairs(x, t))]
    [] OTHER -> t

-----------------------------------------------------------------------------
(* strictEqualityAntonymClasses: the children of each wildcard bitmap      *)
AntonymClasses(x, all) ==
  LET Add(cs, i) ==
        IF ~IsEquality(Unwrapped(all.of[i])) THEN cs
        ELSE LET c == SelectInSeq(cs, LAMBDA g : WildOf(x, Unwrapped(all.of[g[1]])) = WildOf(x, Unwrapped(all.of[i]))) IN
             IF c = 0 THEN Append(cs, <<i>>) ELSE [cs EXCEPT ![c] = Append(@, i)]
  IN  FoldLeft(Add, <<>>, [i \in DOMAIN all.of |-> i])

(* Each class in turn is paired with the first later one left that is its  *)
(* complement.                                                             *)
AntonymPairs(x, all, cs) ==
  LET Leaf(class) == PairsOf(x, Unwrapped(all.of[class[1]]).node, 1)
      Pair(ps, c) ==
        LET used == UNION {ToSet(p) : p \in ToSet(ps)}
            fit  == SelectSeq(SubSeq(cs, c + 1, Len(cs)),
                              LAMBDA d : d \notin used /\ Complements(Leaf(cs[c]), Leaf(d)))
        IN  IF cs[c] \in used \/ fit = <<>> THEN ps ELSE Append(ps, <<cs[c], fit[1]>>)
  IN  FoldLeft(Pair, <<>>, [c \in DOMAIN cs |-> c])

(* The operand stands where the first child it consumes stood.             *)
AntonymOperands(all, pairs) ==
  LET Members(p) == ToSet(p[1]) \cup ToSet(p[2])
      leaves(side) == [i \in DOMAIN side |-> Unwrapped(all.of[side[i]])]
      Add(cs, i) ==
        LET p == SelectInSeq(pairs, LAMBDA q : i \in Members(q)) IN
        IF p = 0 THEN Append(cs, all.of[i])
        ELSE IF \E j \in Members(pairs[p]) : j < i THEN cs
        ELSE Append(cs, [kind |-> "antonym", left |-> leaves(pairs[p][1]), right |-> leaves(pairs[p][2])])
  IN  [all EXCEPT !.of = FoldLeft(Add, <<>>, [i \in DOMAIN all.of |-> i])]

AntonymAll(x, all) == AntonymOperands(all, AntonymPairs(x, all, AntonymClasses(x, all)))

RECURSIVE Antonyms(_, _)
Antonyms(x, t) ==
  IF t.kind = "all" THEN AntonymAll(x, [t EXCEPT !.of = [i \in DOMAIN @ |-> Antonyms(x, @[i])]]) ELSE t

-----------------------------------------------------------------------------
(* The rest of buildIndexPhysicalAliases, once the input was read.  The    *)
(* exclusions leave the tree when one of them holds a value.               *)
RootOf(x, tree, positive) ==
  IF Exclusions(x, tree) = <<>> THEN tree
  ELSE IF Bare(positive).kind = "all" THEN positive ELSE AllOf(<<positive>>)

(* The strict antonyms are written into the All of the plain tree, which   *)
(* is the observed one as well when nothing is inspected.                  *)
IndexOf(x, root, exclusions, unwatched) ==
  LET plain == Antonyms(x, IF unwatched THEN Classed(x, Bare(root)) ELSE RemoveInspectors(Bare(root)))
  IN  [plain       |-> plain,
       observed    |-> IF unwatched THEN plain ELSE Classed(x, Bare(root)),
       rootMetrics |-> IF root.kind = "observed" THEN <<root.metrics>> ELSE <<>>,
       exclusions  |-> exclusions,
       table       |-> ClassTable(x, Bare(root))]

CompiledTree(x, tree, unwatched) ==
  IndexOf(x, RootOf(x, tree, RemoveExclusions(x, tree)), Exclusions(x, tree), unwatched)

Compiled(x, state) ==
  LET first == Optimize(x, state)
  IN  CompiledTree(x, Optimize(x, Physical(Strip(first))), Pending(first) = <<>>)

(* lookupEqualityClass                                                     *)
ClassOf(x, table, leaf, q) ==
  LET posting == Concrete(PairsOf(x, leaf.node, 1), q[leaf.rule])
      pair == IF posting = {} THEN <<WildOf(x, leaf), <<>>>> ELSE <<WildOf(x, leaf), <<posting>>>>
  IN  IF leaf.node \notin DOMAIN table THEN 0
      ELSE IF posting # {} /\ Cardinality(posting) <= BitmapLimit THEN 0
      ELSE IF pair \in DOMAIN table[leaf.node] THEN table[leaf.node][pair] ELSE 0

RECURSIVE Search(_, _, _, _)

(* deduplicateEqualityClasses: of the children that name one class, the    *)
(* first in rank order is searched; an empty child ends the search first.  *)
SearchAll(x, table, all, q) ==
  LET answer == [i \in DOMAIN all.of |-> Search(x, table, all.of[i], q)]
      child(i) == Unwrapped(all.of[i])
      class == [i \in DOMAIN all.of |->
                  IF all.classes = 0 \/ ~IsEquality(child(i)) THEN 0 ELSE ClassOf(x, table, child(i), q)]
      rank(i) == Cardinality(WildOf(x, child(i))) + Cardinality(Concrete(PairsOf(x, child(i).node, 1), q[child(i).rule]))
      skipped(i) == /\ class[i] # 0
                    /\ \E j \in DOMAIN all.of : /\ class[j] = class[i]
                                                /\ rank(j) < rank(i) \/ (rank(j) = rank(i) /\ j < i)
  IN  IF \E i \in DOMAIN all.of : answer[i] = {} THEN {}
      ELSE {id \in Ids(x) : \A i \in DOMAIN all.of : skipped(i) \/ id \in answer[i]}

(* search: an Exclude left in the positive tree matches nothing.           *)
Search(x, table, t, q) ==
  CASE t.kind = "leaf"     -> LeafMatches(x, t, q)
    [] t.kind = "exclude"  -> {}
    [] t.kind = "match"    -> Ids(x)
    [] t.kind = "observed" -> Search(x, table, t.child, q)
    [] t.kind = "antonym"  ->
         LET members == ToSet(t.left) \cup ToSet(t.right) IN
         AntonymMatches([m \in members |-> PairsOf(x, m.node, 1)], ToSet(t.left), ToSet(t.right),
                        [m \in members |-> q[m.rule]], Ids(x))
    [] t.kind = "all"      -> SearchAll(x, table, t, q)

(* Index.search: the exclusions are subtracted at the end.                 *)
Answer(x, index, tree, q) ==
  Search(x, index.table, tree, q) \ UNION {Excluded(x, e.leaf, q) : e \in ToSet(index.exclusions)}
==============================================================================
