------------------------------ MODULE RuleIndex ------------------------------
(***************************************************************************)
(* What a compiled index promises to the goroutines that search it.        *)
(*                                                                         *)
(* An index is a conjunction of children.  For a query, a child accepts    *)
(* the IDs stored without a constraint (its wildcard posting) and the IDs  *)
(* whose constraint the query meets (its concrete posting).  A search      *)
(* returns exactly the IDs every child accepts and no exclusion removes,   *)
(* whatever other searches run at the same time.                           *)
(*                                                                         *)
(* The detailed executors (AllSearch) implement this module.               *)
(***************************************************************************)
EXTENDS Integers

CONSTANTS
  Goroutines,   \* callers of Index.Search
  Ids,          \* dense internal IDs given out by Build
  Queries,      \* values passed to Search
  Width,        \* number of children of the root All rule
  Indexes,      \* the published indexes to consider
  NoQuery       \* "not searching"

Children == 1..Width

(* A published index: equality children, wildcard and concrete postings,   *)
(* the IDs the extracted Exclude rules remove, and the cardinality an       *)
(* ordered, Between or CompareBy child estimates for each query.           *)
IndexShape ==
  [equality : SUBSET Children,
   wild     : [Children -> SUBSET Ids],
   post     : [Queries -> [Children -> SUBSET Ids]],
   excluded : [Queries -> SUBSET Ids],
   bound    : [Queries -> [Children -> Nat]]]

ASSUME WidthAssumption  == Width \in Nat \ {0}
ASSUME IndexAssumption  == Indexes \subseteq IndexShape
ASSUME SentinelAssumption == NoQuery \notin Queries

VARIABLES
  ix,       \* the published index, immutable
  asking,   \* asking[g]: the query g is waiting for, or NoQuery
  answer    \* answer[g]: the IDs its last search appended to dst

indexVars == <<ix, asking, answer>>

(* IDs one child accepts: eqRule.addMatches, orderedRule.addMatches, ...   *)
Matches(c, q) == ix.wild[c] \cup ix.post[q][c]

(* The reference answer: All is a conjunction, Exclude removes.            *)
Matching(q) ==
  {id \in Ids : \A c \in Children : id \in Matches(c, q)} \ ix.excluded[q]

IndexInit ==
  /\ ix \in Indexes
  /\ asking = [g \in Goroutines |-> NoQuery]
  /\ answer = [g \in Goroutines |-> {}]

Ask(g, q) ==
  /\ asking[g] = NoQuery
  /\ asking' = [asking EXCEPT ![g] = q]
  /\ answer' = [answer EXCEPT ![g] = {}]
  /\ UNCHANGED ix

Return(g) ==
  /\ asking[g] # NoQuery
  /\ answer' = [answer EXCEPT ![g] = Matching(asking[g])]
  /\ asking' = [asking EXCEPT ![g] = NoQuery]
  /\ UNCHANGED ix

IndexNext ==
  \E g \in Goroutines : Return(g) \/ \E q \in Queries : Ask(g, q)

IndexSpec == IndexInit /\ [][IndexNext]_indexVars
==============================================================================
