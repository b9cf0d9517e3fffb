----------------------------- MODULE BuildAnswers -----------------------------
(***************************************************************************)
(* What the index a Build returns answers: the passes of SchemaTree over   *)
(* the schemas, applied to the postings Build inserts.                     *)
(***************************************************************************)
EXTENDS Build, SchemaTree

CONSTANTS
  SchemaOf,       \* SchemaOf[s]: the schema of that name
  Queries         \* Queries[s]: functions from its rules to values

RECURSIVE RulesOf(_)
RulesOf(s) ==
  CASE s.kind = "inspect" -> RulesOf(s.child)
    [] s.kind = "all"     -> UNION {RulesOf(s.of[i]) : i \in DOMAIN s.of}
    [] OTHER              -> {s}

RECURSIVE SitesOf(_)
SitesOf(t) ==
  CASE t.kind = "inspect" -> {t} \cup SitesOf(t.child)
    [] t.kind = "all"     -> UNION {SitesOf(t.of[i]) : i \in DOMAIN t.of}
    [] OTHER              -> {}

(* What Build takes from a schema                                          *)
SchemaState ==
  [s \in DOMAIN SchemaOf |->
     LET made == State(SchemaOf[s]) IN
     [tree |-> made.tree, nodes |-> made.next, leaves |-> Reached(made.tree), pending |-> Pending(made.tree)]]
SchemaInspectors == [s \in DOMAIN SchemaOf |-> ToSet(PreOrder(SchemaOf[s]))]
SchemaBelow ==
  [s \in DOMAIN SchemaOf |->
     UNION {{<<site.dst, i.dst>> : i \in SitesOf(site.child)} : site \in SitesOf(SchemaOf[s])}]

-----------------------------------------------------------------------------
(* An entry was stored for x whose value of the rule meets the query, side *)
(* by side: entries that repeat an ID add up.                              *)
Accepts(r, x, q) ==
  \A side \in Sides(r) : \E i \in DOMAIN log :
    LET stored  == SideOf(r, side, log[i].constraint[r])
        queried == SideOf(r, side, q[r])
    IN  log[i].id = x /\ (stored = Missing \/ (queried # Missing /\ MeetsKey(r, side, stored, queried)))

Forbids(r, x, q) ==
  \E i \in DOMAIN log : log[i].id = x /\ q[r] # Missing /\ log[i].constraint[r] = q[r]

(* What README.md promises a search: every rule accepts, none forbids.     *)
Reference(q) ==
  {x \in {log[i].id : i \in DOMAIN log} :
     \A s \in RulesOf(SchemaOf[schema]) : IF s.kind = "exclude" THEN ~Forbids(s.rule, x, q) ELSE Accepts(s.rule, x, q)}

Index         == Compiled(Store, state.tree)
External(ids) == {values[i + 1] : i \in ids}
PlainAnswer(index, q)    == External(Answer(Store, index, index.plain, q))
ObservedAnswer(index, q) == External(Answer(Store, index, index.observed, q))

(* The index is compiled, and nothing is published yet.                    *)
Built == phase = "publishing" /\ pending = state.pending

RECURSIVE KeepsExclude(_)
KeepsExclude(t) ==
  CASE t.kind = "exclude"  -> TRUE
    [] t.kind = "observed" -> KeepsExclude(t.child)
    [] t.kind = "all"      -> \E i \in DOMAIN t.of : KeepsExclude(t.of[i])
    [] OTHER               -> FALSE

(* A leaf is a child of two Alls that both number classes.                 *)
LeafInTwoAlls(index) ==
  LET alls == SelectSeq(AllsBottomUp(index.observed), LAMBDA a : a.classes # 0)
      leaves(a) == {Unwrapped(a.of[i]) : i \in {i \in DOMAIN a.of : IsEquality(Unwrapped(a.of[i]))}}
  IN  \E i, j \in DOMAIN alls : i # j /\ leaves(alls[i]) \cap leaves(alls[j]) # {}

(* Inspectors a tree reports to                                            *)
RECURSIVE ObserversOf(_)
ObserversOf(t) ==
  CASE t.kind = "observed" -> {t.metrics} \cup ToSet(t.aliases) \cup ObserversOf(t.child)
    [] t.kind = "all"      -> UNION {ObserversOf(t.of[i]) : i \in DOMAIN t.of}
    [] OTHER               -> {}
Reporting(index) ==
  ObserversOf(index.observed) \cup ToSet(index.rootMetrics)
    \cup UNION {ToSet(e.metrics) : e \in ToSet(index.exclusions)}

-----------------------------------------------------------------------------
(* A search of the index returns exactly the IDs the entries call for,     *)
(* through sharing of canonical states, flattening, dropped universal      *)
(* rules, merged operands, removed exclusions, equality classes and strict *)
(* antonyms; and a sampled Local, which searches the observed tree, gets   *)
(* the same.  Left out: an Exclude that stayed in the tree because no      *)
(* Exclude of the schema stores a value, and, for the observed tree, a     *)
(* leaf whose class numbers two Alls write.                                *)
SearchesExact ==
  Built => \A index \in {Index} : \A q \in Queries[schema] :
    /\ PlainAnswer(index, q) = Reference(q) \/ KeepsExclude(index.plain)
    /\ ObservedAnswer(index, q) = PlainAnswer(index, q) \/ LeafInTwoAlls(index)

(* README.md: "For `Exclude`, a missing stored value forbids nothing."     *)
MissingForbidsNothing ==
  Built => \A index \in {Index} : \A q \in Queries[schema] : PlainAnswer(index, q) = Reference(q)

(* docs/index-architecture.md: Inspect does not change the result.         *)
InspectKeepsAnswers ==
  Built => \A index \in {Index} : \A q \in Queries[schema] : ObservedAnswer(index, q) = PlainAnswer(index, q)

(* No pass loses an inspector, whatever it merges or drops around it,      *)
(* except that removing effective exclusions forgets the Excludes without  *)
(* values and the further inspectors of a leaf that has several.           *)
ObserversKept ==
  Built => \A index \in {Index} : \A s \in SitesOf(Optimize(Store, state.tree)) :
    \/ s.dst \in Reporting(index)
    \/ /\ index.exclusions # <<>>
       /\ \/ s.child.kind = "exclude" /\ ~HasExclusions(Store, s.child)
          \/ s.child.kind = "leaf" /\ \E other \in SitesOf(Optimize(Store, state.tree)) \ {s} : other.child = s.child
==============================================================================
