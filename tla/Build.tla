-------------------------------- MODULE Build --------------------------------
(***************************************************************************)
(* Builder.Build: one pass over the caller's entries into the rule tree,   *)
(* and the publication of the inspectors' snapshots, which other           *)
(* goroutines may load at any moment.  What newState and stripInspectors   *)
(* make of a schema are constants here; SchemaTree computes them.          *)
(***************************************************************************)
EXTENDS Postings

CONSTANTS
  Schemas,        \* names of the schemas a Builder may be created with
  StateOf,        \* StateOf[schema]: what newState makes of it, by nodes (the
                  \* number of its runtime nodes), leaves (those insert reaches)
                  \* and pending (its inspectors, as stripInspectors finds them)
  InspectorsOf,   \* InspectorsOf[schema]: the inspectors it declares
  Below,          \* Below[schema]: pairs of an inspector and one below it
  Constraints,    \* Constraints[schema]: functions from its rules to values
  ExternalIds,    \* the caller's IDs
  Capacity,       \* internal IDs (2^32 in the code)
  MaxEntries,     \* bound on the entries of a build, for model checking
  MaxBuilds       \* bound on the calls of Build, for model checking

ASSUME BuildAssumption == Capacity \in Nat /\ MaxEntries \in Nat /\ MaxBuilds \in Nat

(* newState numbers the nodes, and gives every leaf one of its own.        *)
ASSUME LeavesAssumption ==
  \A s \in Schemas : LET leaves == StateOf[s].leaves IN
    /\ StateOf[s].nodes \in Nat
    /\ \A leaf \in leaves : leaf.node \in 0..(StateOf[s].nodes - 1)
    /\ \A leaf \in leaves : leaf.kind = "leaf" => Kind[leaf.rule] # "exclude"
    /\ \A a, b \in leaves : a.node = b.node => a = b

(* stripInspectors finds every inspector, and those below one before it.   *)
ASSUME InspectorsAssumption ==
  \A s \in Schemas : LET found == StateOf[s].pending IN
    /\ found \in Seq(InspectorsOf[s]) /\ InspectorsOf[s] \subseteq ToSet(found)
    /\ Below[s] \subseteq InspectorsOf[s] \X InspectorsOf[s]
    /\ IsInjective(found) => \A k, m \in DOMAIN found : <<found[k], found[m]>> \in Below[s] => m < k

VARIABLES
  schema,      \* of the Builder, by name
  phase,       \* "idle", "reading" or "publishing"
  state,       \* the state newState made of the schema
  content,     \* postings of its runtime nodes
  values,      \* external ID of each internal ID
  log,         \* entries accepted by the running build
  pending,     \* inspectors not published yet
  snapshots,   \* the build whose snapshot a reader of each inspector gets
  hints,       \* the build whose statistics are kept: the last that succeeded
  builds       \* calls of Build so far

vars == <<schema, phase, state, content, values, log, pending, snapshots, hints, builds>>

Unbound == 0
NoState == [nodes |-> 0, leaves |-> {}, pending |-> <<>>]

Store == [content |-> content, total |-> Len(values)]

(* What the build in progress leaves behind, whether it failed or not      *)
Discarded ==
  /\ phase' = "idle"
  /\ state' = NoState /\ content' = <<>> /\ values' = <<>> /\ log' = <<>>
  /\ pending' = <<>>
  /\ UNCHANGED <<schema, builds>>

Fail == Discarded /\ UNCHANGED <<snapshots, hints>>

-----------------------------------------------------------------------------
(* A nil sequence is refused before anything is built.                     *)
RefuseNil ==
  /\ phase = "idle" /\ builds < MaxBuilds
  /\ builds' = builds + 1
  /\ UNCHANGED <<schema, phase, state, content, values, log, pending, snapshots, hints>>

Start ==
  /\ phase = "idle" /\ builds < MaxBuilds
  /\ builds' = builds + 1
  /\ phase' = "reading"
  /\ state' = StateOf[schema]
  /\ content' = [n \in 0..(StateOf[schema].nodes - 1) |-> <<<<>>, <<>>>>]
  /\ UNCHANGED <<schema, values, log, pending, snapshots, hints>>

(* validate: only CompareBy refuses a value, when its operator is missing. *)
Valid(c) == \A r \in DOMAIN c : Kind[r] = "compareBy" /\ c[r] # Missing => c[r][1] # "none"

(* Fault: the guard lets one ID more in.                                   *)
FullTooLate == Len(values) > Capacity

(* The check comes before the ID is looked up.                             *)
Full == Len(values) >= Capacity

(* Fault: IDs count entries, not distinct external IDs.                    *)
IdByEntry(x) == IF x \in ToSet(values) THEN SelectInSeq(values, LAMBDA v : v = x) - 1 ELSE Len(log) % Capacity

(* internalIDs: a repeated external ID keeps its internal ID, which is a   *)
(* uint32 otherwise taken from the number of IDs.                          *)
InternalId(x) == IF x \in ToSet(values) THEN SelectInSeq(values, LAMBDA v : v = x) - 1 ELSE Len(values) % Capacity

Insert(c, x) ==
  /\ values' = IF x \in ToSet(values) THEN values ELSE Append(values, x)
  /\ content' = [n \in DOMAIN content |->
       IF \E leaf \in state.leaves : leaf.node = n
       THEN Inserted(CHOOSE leaf \in state.leaves : leaf.node = n, content[n], c, InternalId(x))
       ELSE content[n]]
  /\ log' = Append(log, [constraint |-> c, id |-> x])
  /\ UNCHANGED <<schema, phase, state, pending, snapshots, hints, builds>>

(* The caller's sequence yields an entry.                                  *)
Entry(c, x) ==
  /\ phase = "reading" /\ Len(log) < MaxEntries
  /\ IF Full \/ ~Valid(c) THEN Fail ELSE Insert(c, x)

(* The sequence returns.  One Inspector on two rules fails the build; what *)
(* the searches get is compiled from the postings, which nothing changes.  *)
(* (Optimize, which runs first, neither drops nor reorders inspectors.)    *)
End ==
  /\ phase = "reading"
  /\ IF IsInjective(state.pending)
     THEN /\ pending' = state.pending /\ phase' = "publishing"
          /\ UNCHANGED <<schema, state, content, values, log, snapshots, hints, builds>>
     ELSE Fail

(* Fault: the inspector just published stays at the head.                  *)
PublishRepeated ==
  /\ phase = "publishing" /\ pending # <<>>
  /\ snapshots' = [snapshots EXCEPT ![Head(pending)] = builds]
  /\ UNCHANGED <<schema, phase, state, content, values, log, pending, hints, builds>>

(* Fault: the snapshots are published outermost first.                     *)
PublishLast ==
  /\ phase = "publishing" /\ pending # <<>>
  /\ snapshots' = [snapshots EXCEPT ![Last(pending)] = builds]
  /\ pending' = Front(pending)
  /\ UNCHANGED <<schema, phase, state, content, values, log, hints, builds>>

PublishNext ==
  /\ phase = "publishing" /\ pending # <<>>
  /\ snapshots' = [snapshots EXCEPT ![Head(pending)] = builds]
  /\ pending' = Tail(pending)
  /\ UNCHANGED <<schema, phase, state, content, values, log, hints, builds>>

(* Fault: Build returns before every inspector is published.               *)
ReturnEarly ==
  /\ phase = "publishing"
  /\ hints' = builds
  /\ Discarded
  /\ UNCHANGED snapshots

Return ==
  /\ phase = "publishing" /\ pending = <<>>
  /\ hints' = builds
  /\ Discarded
  /\ UNCHANGED snapshots

Init ==
  /\ schema \in Schemas
  /\ phase = "idle" /\ state = NoState /\ content = <<>> /\ values = <<>> /\ log = <<>>
  /\ pending = <<>>
  /\ snapshots = [i \in InspectorsOf[schema] |-> Unbound]
  /\ hints = Unbound /\ builds = 0

(* Any entry: which of the IDs not seen yet comes next makes no difference *)
Unseen == ExternalIds \ ToSet(values)
Yield ==
  \E c \in Constraints[schema] :
    \/ \E x \in ToSet(values) : Entry(c, x)
    \/ Unseen # {} /\ Entry(c, CHOOSE x \in Unseen : TRUE)
Next == RefuseNil \/ Start \/ Yield \/ End \/ PublishNext \/ Return

(* The sequence ends, and the goroutine that builds is scheduled; nobody   *)
(* has to call Build.                                                      *)
Spec == Init /\ [][Next]_vars /\ WF_vars(End) /\ WF_vars(PublishNext) /\ WF_vars(Return)

-----------------------------------------------------------------------------
TypeOK ==
  /\ schema \in Schemas
  /\ phase \in {"idle", "reading", "publishing"}
  /\ builds \in 0..MaxBuilds
  /\ values \in Seq(ExternalIds) /\ Len(values) <= Capacity /\ Len(log) <= MaxEntries
  /\ ToSet(pending) \subseteq InspectorsOf[schema]
  /\ DOMAIN snapshots = InspectorsOf[schema]

(* Internal IDs are dense and each stands for one external ID: the ID      *)
(* assignment of buildIndex and the inserts of all leaves agree, so that   *)
(* every leaf holds every ID and values can be indexed by any of them.     *)
IdsDense ==
  /\ IsInjective(values)
  /\ \A leaf \in state.leaves : leaf.kind = "leaf" =>
       \A side \in Sides(leaf.rule) : {p[2] : p \in PairsOf(Store, leaf.node, side)} = Ids(Store)

(* Whatever fails, and however far a build got, an inspector's snapshot is *)
(* that of the last build that returned an index, except that a build that *)
(* can no longer fail has published some of its own.                       *)
SnapshotsFollowHints ==
  \A i \in DOMAIN snapshots :
    snapshots[i] = IF phase = "publishing" /\ i \notin ToSet(pending) THEN builds ELSE hints

(* A reader that loads an outer inspector before one of the rules below    *)
(* it never finds the inner one older.                                     *)
InnerNotOlder ==
  \A p \in Below[schema] : snapshots[p[1]] <= snapshots[p[2]]

(* Every call of Build returns.                                            *)
BuildReturns == phase # "idle" ~> phase = "idle"
==============================================================================
