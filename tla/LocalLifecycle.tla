--------------------------- MODULE LocalLifecycle ----------------------------
(***************************************************************************)
(* Locals of one Index: Index.Local, Local.Search, Local.Close, the two    *)
(* pools their contexts are recycled through, and the counters that every  *)
(* SampleEvery-th Local publishes to an Inspector when it is closed.       *)
(*                                                                         *)
(* The schema is one inspected equality rule, so its Inspector sees both   *)
(* the events of the node's result cache and the cardinality of complete   *)
(* answers.  Workers open, use and close their own Locals concurrently; a  *)
(* reader takes snapshots meanwhile.  Every atomic Add of Close, and every *)
(* atomic Load of Snapshot, is a step of its own.                          *)
(***************************************************************************)
EXTENDS LocalCache, Sequences, FiniteSets, Functions

CONSTANTS
  Workers,       \* goroutines, each with one Local at a time
  Contexts,      \* bitmapPools a process may allocate
  NoContext,     \* nil
  Unmatched,     \* the query values no rule matches
  SampleEvery,   \* one Local in so many is sampled (64 in the code)
  MaxOpened,     \* bounds for model checking: Locals opened,
  MaxSearches,   \*   searches made
  MaxSnapshots   \*   and snapshots taken

ASSUME WorkerAssumption  == IsFiniteSet(Workers)
ASSUME ContextAssumption == NoContext \notin Contexts
ASSUME SampleAssumption  == SampleEvery \in Nat \ {0}

VARIABLES
  opened,        \* Index.localTelemetry
  locals,        \* Index.locals: contexts of unsampled Locals
  observedLocals,\* Index.observedLocals
  context,       \* context[c]: what the bitmapPool c remembers
  stage,         \* where worker w is with its Local
  pool,          \* Local.pool, NoContext before and after
  observed,      \* Local.observed
  flushed,       \* how many counters a Close has added so far
  shared,        \* the Inspector's counters (inspectorRuntime)
  loaded,        \* how many counters a Snapshot has loaded, 0 when none runs
  snapshot,      \* the values loaded by it
  taken,         \* the snapshots returned so far ...
  latest,        \* ... and the last of them
  searches,      \* searches made (bound)
  sampled        \* history: searches made through sampled Locals

poolVars   == <<opened, locals, observedLocals>>
workerVars == <<stage, pool, observed, flushed>>
readerVars == <<loaded, snapshot, taken, latest>>
countVars  == <<searches, sampled>>
vars == <<poolVars, context, workerVars, shared, readerVars, countVars>>

(* Fault: admissions are added before the misses they come from.           *)
FlushAdmissionsFirst ==
  <<"emptyResults", "cacheAdmissions", "cacheHits", "cacheMisses",
    "cacheEvictions", "cacheExpansions", "zero", "some">>
(* Counters in the order flushInspectorMetrics adds them.  (Candidate      *)
(* checks and range prunings belong to All; `some` stands for the five     *)
(* histogram bins of nonempty results.)                                    *)
FlushOrder ==
  <<"emptyResults", "cacheHits", "cacheMisses", "cacheAdmissions",
    "cacheEvictions", "cacheExpansions", "zero", "some">>
(* ... and in the order Snapshot loads them                                *)
LoadOrder ==
  <<"cacheHits", "cacheMisses", "cacheAdmissions", "cacheEvictions",
    "cacheExpansions", "emptyResults", "zero", "some">>
Metrics == {"emptyResults", "cacheHits", "cacheMisses", "cacheAdmissions",
            "cacheEvictions", "cacheExpansions", "zero", "some"}
NoCounts == [m \in Metrics |-> 0]

(* newLocalBitmapPool: only a sampled Local's context has observers.       *)
NewContext(isObserved) ==
  [observe |-> isObserved, cache |-> EmptyCache, buffer |-> NoCounts]

-----------------------------------------------------------------------------
Init ==
  /\ opened = 0 /\ locals = {} /\ observedLocals = {}
  /\ context = [c \in Contexts |-> NewContext(FALSE)]
  /\ stage = [w \in Workers |-> "closed"]
  /\ pool = [w \in Workers |-> NoContext]
  /\ observed = [w \in Workers |-> FALSE]
  /\ flushed = [w \in Workers |-> 0]
  /\ shared = NoCounts
  /\ loaded = 0 /\ snapshot = NoCounts /\ taken = 0 /\ latest = NoCounts
  /\ searches = 0 /\ sampled = 0

Enter(w, s) == stage' = [stage EXCEPT ![w] = s]

(* Index.Local samples by the ordinal its own Add returned.                *)
IsSampled(ordinal) == ordinal % SampleEvery = 0

(* Index.Local, the ordinal                                                *)
Count(w) ==
  /\ stage[w] = "closed" /\ opened < MaxOpened
  /\ opened' = opened + 1
  /\ observed' = [observed EXCEPT ![w] = IsSampled(opened + 1)]
  /\ Enter(w, "counted")
  /\ UNCHANGED <<locals, observedLocals, context, pool, flushed, shared, readerVars, countVars>>

(* Index.Local, sync.Pool.Get: a pooled context, or a new one              *)
Unowned(c) == c \notin locals \cup observedLocals /\ \A w \in Workers : pool[w] # c
Acquire(w, c) ==
  /\ stage[w] = "counted"
  /\ \/ /\ c \in IF observed[w] THEN observedLocals ELSE locals
        /\ locals' = IF observed[w] THEN locals ELSE locals \ {c}
        /\ observedLocals' = IF observed[w] THEN observedLocals \ {c} ELSE observedLocals
        /\ UNCHANGED context
     \/ /\ Unowned(c)
        /\ context' = [context EXCEPT ![c] = NewContext(observed[w])]
        /\ UNCHANGED <<locals, observedLocals>>
  /\ pool' = [pool EXCEPT ![w] = c]
  /\ Enter(w, "open")
  /\ UNCHANGED <<opened, observed, flushed, shared, readerVars, countVars>>

(* sync.Pool drops what it holds whenever the collector runs.              *)
Forget(c) ==
  /\ c \in locals \cup observedLocals
  /\ locals' = locals \ {c} /\ observedLocals' = observedLocals \ {c}
  /\ UNCHANGED <<opened, context, workerVars, shared, readerVars, countVars>>

-----------------------------------------------------------------------------
(* Local.Search: eqRule.search over the node's cache, then the cardinality *)
(* of the answer.                                                          *)

(* The counters one search for k raises.                                   *)
Raised(cache, k) ==
  LET admitted == k \notin CachedKeys(cache) /\ k \in SeenKeys(cache)
      pressed  == Pressed(Forgotten(cache, k))
  IN  {m \in Metrics :
         \/ m = "cacheHits"       /\ k \in CachedKeys(cache)
         \/ m = "cacheMisses"     /\ k \notin CachedKeys(cache)
         \/ m = "cacheAdmissions" /\ admitted
         \/ m = "cacheEvictions"  /\ admitted /\ pressed.entry[Victim(pressed)] # NoKey
         \/ m = "cacheExpansions" /\ admitted /\ pressed.wide /\ ~cache.wide
         \/ m \in {"emptyResults", "zero"} /\ k \in Unmatched
         \/ m = "some"            /\ k \notin Unmatched}
Raise(counts, ms) == [m \in Metrics |-> counts[m] + (IF m \in ms THEN 1 ELSE 0)]

Search(w, k) ==
  LET c == pool[w]
      cache == context[c].cache
  IN
  /\ stage[w] = "open" /\ searches < MaxSearches
  /\ context' = [context EXCEPT
       ![c].cache  = Searched(cache, k),
       ![c].buffer = IF context[c].observe THEN Raise(@, Raised(cache, k)) ELSE @]
  /\ searches' = searches + 1
  /\ sampled' = sampled + (IF observed[w] THEN 1 ELSE 0)
  /\ UNCHANGED <<poolVars, workerVars, shared, readerVars>>

-----------------------------------------------------------------------------
(* Local.Close.  Closing a closed Local, the "closed" stage, does nothing. *)

(* flushInspectorMetrics: a context without observers has nothing to add.  *)
Close(w) ==
  /\ stage[w] = "open"
  /\ Enter(w, IF context[pool[w]].observe THEN "flush" ELSE "reset")
  /\ UNCHANGED <<poolVars, context, pool, observed, flushed, shared, readerVars, countVars>>

(* Fault: a counter is stored, not added.                                  *)
FlushStores(w) ==
  LET m == FlushOrder[flushed[w] + 1] IN
  /\ stage[w] = "flush"
  /\ shared' = [shared EXCEPT ![m] = context[pool[w]].buffer[m]]
  /\ IF flushed[w] + 1 = Len(FlushOrder)
     THEN flushed' = [flushed EXCEPT ![w] = 0] /\ Enter(w, "reset")
     ELSE flushed' = [flushed EXCEPT ![w] = @ + 1] /\ UNCHANGED stage
  /\ UNCHANGED <<poolVars, context, pool, observed, readerVars, countVars>>

(* Fault: the index is not reset for the context's next Local.             *)
FlushKeepsIndex(w) ==
  LET m == FlushOrder[flushed[w] + 1] IN
  /\ stage[w] = "flush"
  /\ shared' = [shared EXCEPT ![m] = @ + context[pool[w]].buffer[m]]
  /\ flushed' = [flushed EXCEPT ![w] = @ + 1]
  /\ IF flushed[w] + 1 = Len(FlushOrder) THEN Enter(w, "reset") ELSE UNCHANGED stage
  /\ UNCHANGED <<poolVars, context, pool, observed, readerVars, countVars>>

(* One atomic Add; after the last, the context is reset.                   *)
Flush(w) ==
  LET m == FlushOrder[flushed[w] + 1] IN
  /\ stage[w] = "flush"
  /\ shared' = [shared EXCEPT ![m] = @ + context[pool[w]].buffer[m]]
  /\ IF flushed[w] + 1 = Len(FlushOrder)
     THEN flushed' = [flushed EXCEPT ![w] = 0] /\ Enter(w, "reset")
     ELSE flushed' = [flushed EXCEPT ![w] = @ + 1] /\ UNCHANGED stage
  /\ UNCHANGED <<poolVars, context, pool, observed, readerVars, countVars>>

(* Fault: the counters added are left in the buffer.                       *)
ResetKeepsBuffer(w) ==
  /\ stage[w] = "reset"
  /\ context' = [context EXCEPT ![pool[w]].cache = EmptyCache]
  /\ Enter(w, "put")
  /\ UNCHANGED <<poolVars, pool, observed, flushed, shared, readerVars, countVars>>

(* Fault: the node's cache keeps what it learned.                          *)
ResetKeepsCache(w) ==
  /\ stage[w] = "reset"
  /\ context' = [context EXCEPT ![pool[w]].buffer = NoCounts]
  /\ Enter(w, "put")
  /\ UNCHANGED <<poolVars, pool, observed, flushed, shared, readerVars, countVars>>

(* resetLocal: the added values are zeroed, the node's cache is emptied.   *)
Reset(w) ==
  /\ stage[w] = "reset"
  /\ context' = [context EXCEPT ![pool[w]].cache = EmptyCache, ![pool[w]].buffer = NoCounts]
  /\ Enter(w, "put")
  /\ UNCHANGED <<poolVars, pool, observed, flushed, shared, readerVars, countVars>>

(* Fault: the Local keeps its context, and a second Close puts it again.   *)
PutKeepsOpen(w) ==
  /\ stage[w] = "put"
  /\ locals' = IF observed[w] THEN locals ELSE locals \cup {pool[w]}
  /\ observedLocals' = IF observed[w] THEN observedLocals \cup {pool[w]} ELSE observedLocals
  /\ Enter(w, "open")
  /\ UNCHANGED <<opened, context, pool, observed, flushed, shared, readerVars, countVars>>

(* Fault: every context goes back to the plain pool.                       *)
PutPlain(w) ==
  /\ stage[w] = "put"
  /\ locals' = locals \cup {pool[w]}
  /\ pool' = [pool EXCEPT ![w] = NoContext]
  /\ Enter(w, "closed")
  /\ UNCHANGED <<opened, observedLocals, context, observed, flushed, shared, readerVars, countVars>>

(* sync.Pool.Put, and the Local gives up its context.                      *)
Put(w) ==
  /\ stage[w] = "put"
  /\ locals' = IF observed[w] THEN locals ELSE locals \cup {pool[w]}
  /\ observedLocals' = IF observed[w] THEN observedLocals \cup {pool[w]} ELSE observedLocals
  /\ pool' = [pool EXCEPT ![w] = NoContext]
  /\ Enter(w, "closed")
  /\ UNCHANGED <<opened, context, observed, flushed, shared, readerVars, countVars>>

-----------------------------------------------------------------------------
(* Inspector.Snapshot                                                      *)
Load ==
  LET m == LoadOrder[loaded + 1] IN
  /\ taken < MaxSnapshots
  /\ snapshot' = [snapshot EXCEPT ![m] = shared[m]]
  /\ IF loaded + 1 = Len(LoadOrder)
     THEN loaded' = 0 /\ taken' = taken + 1 /\ latest' = snapshot'
     ELSE loaded' = loaded + 1 /\ UNCHANGED <<taken, latest>>
  /\ UNCHANGED <<poolVars, context, workerVars, shared, countVars>>

Next ==
  \/ \E w \in Workers :
       \/ Count(w) \/ (\E c \in Contexts : Acquire(w, c)) \/ (\E k \in Keys : Search(w, k))
       \/ Close(w) \/ Flush(w) \/ Reset(w) \/ Put(w)
  \/ \E c \in Contexts : Forget(c)
  \/ Load

Spec == Init /\ [][Next]_vars

-----------------------------------------------------------------------------
Counts == [Metrics -> Nat]
Stages == {"closed", "counted", "open", "flush", "reset", "put"}
TypeOK ==
  /\ opened \in Nat /\ locals \subseteq Contexts /\ observedLocals \subseteq Contexts
  /\ context \in [Contexts -> [observe : BOOLEAN, cache : CacheType, buffer : Counts]]
  /\ stage \in [Workers -> Stages]
  /\ pool \in [Workers -> Contexts \cup {NoContext}]
  /\ observed \in [Workers -> BOOLEAN]
  /\ flushed \in [Workers -> 0..(Len(FlushOrder) - 1)]
  /\ shared \in Counts /\ snapshot \in Counts /\ latest \in Counts
  /\ loaded \in 0..(Len(LoadOrder) - 1) /\ taken \in Nat
  /\ searches \in Nat /\ sampled \in Nat

Holds(w) == stage[w] \in {"open", "flush", "reset", "put"}

(* A context serves one Local at a time: it is held by one worker, or      *)
(* pooled once, however the Locals of several workers are closed.          *)
ContextExclusive ==
  /\ locals \cap observedLocals = {}
  /\ \A w \in Workers : Holds(w) => pool[w] \notin locals \cup observedLocals
  /\ \A v, w \in Workers : v # w /\ Holds(v) /\ Holds(w) => pool[v] # pool[w]

(* Unsampled Locals never run with observers, and sampled ones always do.  *)
PoolsApart ==
  /\ \A c \in locals : ~context[c].observe
  /\ \A c \in observedLocals : context[c].observe
  /\ \A w \in Workers : Holds(w) => context[pool[w]].observe = observed[w]

(* A recycled context has learned nothing and owes no counts: each Local   *)
(* lifetime starts cold.                                                   *)
ColdPools ==
  \A c \in locals \cup observedLocals :
    context[c].cache = EmptyCache /\ context[c].buffer = NoCounts

(* Counter m of what worker w has not added yet                            *)
Owed(w, m) ==
  IF \/ stage[w] = "open"
     \/ stage[w] = "flush" /\ \E i \in (flushed[w] + 1)..Len(FlushOrder) : FlushOrder[i] = m
  THEN context[pool[w]].buffer[m] ELSE 0

Debts(m) == [w \in Workers |-> Owed(w, m)]

Total(m) == shared[m] + SumFunction(Debts(m))

(* Each search through a sampled Local is counted once, in the Inspector   *)
(* or in the Local that made it, over any number of Closes.                *)
Conserved ==
  /\ Total("cacheHits") + Total("cacheMisses") = sampled
  /\ Total("zero") + Total("some") = sampled

(* Laws of one sample: a search that finds nothing is counted twice, and a *)
(* value is admitted only after it was missed.                             *)
Lawful(counts) ==
  /\ counts["zero"] <= counts["emptyResults"]
  /\ counts["cacheAdmissions"] <= counts["cacheMisses"]

(* At every moment, half-way through any Close, the Inspector's counters   *)
(* obey these laws.                                                        *)
CountersLawful == Lawful(shared)

(* Successive snapshots are monotonic.                                     *)
SnapshotsMonotonic == [][\A m \in Metrics : latest[m] <= latest'[m]]_latest
==============================================================================
