------------------------------- MODULE Postings -------------------------------
(***************************************************************************)
(* What the leaves of a rule tree store of the entries.                    *)
(***************************************************************************)
EXTENDS EqualityTheory, SequencesExt

CONSTANT
  Kind            \* Kind[r]: "include", "between", "compareBy" or "exclude"

(* Postings: x.content[node][side] is a sequence of <<key, id>> without    *)
(* duplicates, keys in the order they were first stored.                   *)
Sides(rule) == IF Kind[rule] = "between" THEN 1..2 ELSE 1..1

(* Getter outputs of one side, of a stored constraint or a query           *)
SideOf(rule, side, value) == IF Kind[rule] = "between" THEN value[side] ELSE value

Ids(x) == 0..(x.total - 1)
PairsOf(x, node, side) == ToSet(x.content[node][side])

(* Exclude stores nothing for a missing value.                             *)
InsertedPair(rule, value, pairs, id) ==
  LET p == <<value, id>> IN
  IF p \in ToSet(pairs) \/ (Kind[rule] = "exclude" /\ value = Missing) THEN pairs ELSE Append(pairs, p)

Inserted(leaf, content, constraint, id) ==
  [side \in Sides(leaf.rule) |->
     InsertedPair(leaf.rule, SideOf(leaf.rule, side, constraint[leaf.rule]), content[side], id)]
==============================================================================
