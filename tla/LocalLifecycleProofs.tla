------------------------- MODULE LocalLifecycleProofs ------------------------
(***************************************************************************)
(* Proofs about the life cycle of Locals, for every set of workers, every  *)
(* sampling rate and all bounds.                                           *)
(***************************************************************************)
EXTENDS LocalLifecycle, LocalCacheProofs, FiniteSetTheorems

(* A worker that holds a context knows which; one that is about to put it  *)
(* back has emptied it.  Caches satisfy the invariant of LocalCacheProofs. *)
Handles ==
  \A w \in Workers :
    /\ Holds(w) => pool[w] \in Contexts
    /\ stage[w] = "put" =>
         context[pool[w]].cache = EmptyCache /\ context[pool[w]].buffer = NoCounts
Caches == \A c \in Contexts : CacheInv(context[c].cache)

IInv == TypeOK /\ Handles /\ Caches /\ ContextExclusive /\ PoolsApart /\ ColdPools

-----------------------------------------------------------------------------
LEMMA NewContextType ==
  ASSUME NEW o \in BOOLEAN
  PROVE  /\ NewContext(o) \in [observe : BOOLEAN, cache : CacheType, buffer : Counts]
         /\ CacheInv(NewContext(o).cache) /\ NewContext(o).observe = o
BY EmptyCacheInv DEF NewContext, CacheInv, NoCounts, Counts

LEMMA OrdersInMetrics ==
  /\ Len(FlushOrder) = 8 /\ \A i \in 1..8 : FlushOrder[i] \in Metrics
  /\ Len(LoadOrder) = 8 /\ \A i \in 1..8 : LoadOrder[i] \in Metrics
BY DEF FlushOrder, LoadOrder, Metrics

LEMMA InitIInv == Init => IInv
<1> SUFFICES ASSUME Init PROVE IInv
  OBVIOUS
<1>1. TypeOK
  <2>1. NoCounts \in Counts
    BY DEF NoCounts, Counts
  <2>2. context \in [Contexts -> [observe : BOOLEAN, cache : CacheType, buffer : Counts]]
    BY NewContextType DEF Init
  <2>3. stage \in [Workers -> Stages]
    BY DEF Init, Stages
  <2>4. observed \in [Workers -> BOOLEAN] /\ pool \in [Workers -> Contexts \cup {NoContext}]
    BY DEF Init
  <2>5. flushed \in [Workers -> 0..(Len(FlushOrder) - 1)] /\ loaded \in 0..(Len(LoadOrder) - 1)
    BY OrdersInMetrics DEF Init
  <2>6. /\ opened \in Nat /\ taken \in Nat /\ searches \in Nat /\ sampled \in Nat
        /\ locals \subseteq Contexts /\ observedLocals \subseteq Contexts
    BY DEF Init
  <2> QED BY <2>1, <2>2, <2>3, <2>4, <2>5, <2>6 DEF Init, TypeOK
<1>2. Caches
  BY NewContextType DEF Init, Caches
<1>3. Handles /\ ContextExclusive /\ PoolsApart /\ ColdPools
  BY DEF Init, Handles, ContextExclusive, PoolsApart, ColdPools, Holds
<1> QED BY <1>1, <1>2, <1>3 DEF IInv

LEMMA CountKeeps == ASSUME IInv, NEW w \in Workers, Count(w) PROVE IInv'
<1> USE DEF IInv, Count, Enter, Stages
<1>1. TypeOK'
  <2>1. IsSampled(opened + 1) \in BOOLEAN
    BY DEF IsSampled
  <2> QED BY <2>1 DEF TypeOK, readerVars, countVars
<1>2. \A v \in Workers : Holds(v)' => Holds(v) /\ v # w /\ stage'[v] = stage[v] /\ observed'[v] = observed[v]
  BY DEF Holds, TypeOK
<1>3. Handles' /\ Caches'
  BY <1>2 DEF Handles, Caches, Holds, TypeOK
<1>4. ContextExclusive' /\ PoolsApart' /\ ColdPools'
  BY <1>2 DEF ContextExclusive, PoolsApart, ColdPools
<1> QED BY <1>1, <1>3, <1>4

LEMMA AcquireKeeps ==
  ASSUME IInv, NEW w \in Workers, NEW c \in Contexts, Acquire(w, c) PROVE IInv'
<1> USE DEF IInv, Acquire, Enter, Stages
<1>1. TypeOK'
  BY NewContextType, ZenonT(40) DEF TypeOK, readerVars, countVars
<1>2. /\ Holds(w)' /\ pool'[w] = c /\ ~Holds(w) /\ stage'[w] = "open"
      /\ \A v \in Workers \ {w} : (Holds(v)' <=> Holds(v)) /\ pool'[v] = pool[v] /\ stage'[v] = stage[v]
      /\ observed' = observed
  BY DEF Holds, TypeOK
<1>3. /\ c \notin locals' \cup observedLocals'
      /\ locals' \subseteq locals /\ observedLocals' \subseteq observedLocals
      /\ \A v \in Workers \ {w} : Holds(v) => pool[v] # c
      /\ \A d \in Contexts \ {c} : context'[d] = context[d]
      /\ context'[c].observe = observed[w] /\ CacheInv(context'[c].cache)
  <2>1. CASE c \in IF observed[w] THEN observedLocals ELSE locals
    <3>1. c \in locals \cup observedLocals
      BY <2>1
    <3>2. ~Unowned(c)
      BY <3>1 DEF Unowned
    <3>3. \A v \in Workers : Holds(v) => pool[v] # c
      BY <3>1 DEF ContextExclusive
    <3>4. context[c].observe = observed[w]
      BY <2>1 DEF PoolsApart, TypeOK
    <3> QED BY <2>1, <3>2, <3>3, <3>4 DEF ContextExclusive, Caches, TypeOK
  <2>2. CASE /\ Unowned(c)
             /\ context' = [context EXCEPT ![c] = NewContext(observed[w])]
             /\ UNCHANGED <<locals, observedLocals>>
    BY <2>2, NewContextType DEF Unowned, TypeOK
  <2> QED BY <2>1, <2>2
<1>4. Handles'
  BY <1>2, <1>3 DEF Handles, Holds
<1>5. Caches'
  BY <1>3 DEF Caches
<1>6. ContextExclusive'
  BY <1>2, <1>3 DEF ContextExclusive
<1>7. PoolsApart'
  <2>1. /\ \A d \in locals' : ~context'[d].observe
        /\ \A d \in observedLocals' : context'[d].observe
    BY <1>3 DEF PoolsApart, TypeOK
  <2>2. ASSUME NEW v \in Workers \ {w}, Holds(v)
        PROVE  context'[pool'[v]].observe = observed'[v]
    BY <1>2, <1>3, <2>2 DEF PoolsApart, Handles
  <2> QED BY <1>2, <1>3, <2>1, <2>2 DEF PoolsApart
<1>8. ColdPools'
  BY <1>3 DEF ColdPools, TypeOK
<1> QED BY <1>1, <1>4, <1>5, <1>6, <1>7, <1>8

LEMMA ForgetKeeps == ASSUME IInv, NEW c \in Contexts, Forget(c) PROVE IInv'
<1> USE DEF IInv, Forget, workerVars
<1>1. TypeOK' /\ Handles' /\ Caches'
  BY DEF TypeOK, Handles, Caches, Holds, readerVars, countVars
<1>2. ContextExclusive' /\ PoolsApart' /\ ColdPools'
  BY DEF ContextExclusive, PoolsApart, ColdPools, Holds
<1> QED BY <1>1, <1>2

(* What a worker writes into the context it holds concerns no other worker *)
(* and no pooled context.                                                  *)
LEMMA OwnContext ==
  ASSUME IInv, NEW w \in Workers, Holds(w), NEW r,
         context' = [context EXCEPT ![pool[w]] = r],
         r.observe = context[pool[w]].observe,
         CacheInv(r.cache),
         stage' \in [Workers -> Stages],
         stage'[w] = "put" => r.cache = EmptyCache /\ r.buffer = NoCounts,
         Holds(w)', \A v \in Workers \ {w} : stage'[v] = stage[v],
         UNCHANGED <<poolVars, pool, observed>>
  PROVE  (Handles /\ Caches /\ ContextExclusive /\ PoolsApart /\ ColdPools)'
<1> USE DEF IInv, poolVars
<1>1. /\ pool[w] \in Contexts /\ pool[w] \notin locals \cup observedLocals
      /\ \A v \in Workers \ {w} : Holds(v) => pool[v] \in Contexts \ {pool[w]}
      /\ \A d \in Contexts \ {pool[w]} : context'[d] = context[d]
      /\ context'[pool[w]] = r
  BY DEF Handles, ContextExclusive, TypeOK
<1>2. \A v \in Workers \ {w} : Holds(v)' <=> Holds(v)
  BY DEF Holds
<1>3. Handles'
  <2>1. ASSUME NEW v \in Workers \ {w}, stage'[v] = "put"
        PROVE  context'[pool[v]].cache = EmptyCache /\ context'[pool[v]].buffer = NoCounts
    BY <1>1, <2>1 DEF Handles, Holds
  <2> QED BY <1>1, <1>2, <2>1 DEF Handles
<1>4. Caches' /\ ColdPools'
  BY <1>1 DEF Caches, ColdPools, TypeOK
<1>5. ContextExclusive' /\ PoolsApart'
  BY <1>1, <1>2 DEF ContextExclusive, PoolsApart, TypeOK
<1> QED BY <1>3, <1>4, <1>5

LEMMA SearchKeeps ==
  ASSUME IInv, NEW w \in Workers, NEW k \in Keys, Search(w, k) PROVE IInv'
<1> DEFINE c == pool[w]
           cache == Searched(context[c].cache, k)
           buffer == IF context[c].observe THEN Raise(context[c].buffer, Raised(context[c].cache, k))
                     ELSE context[c].buffer
           r == [context[c] EXCEPT !.cache = cache, !.buffer = buffer]
<1>1. Holds(w) /\ c \in Contexts /\ stage[w] = "open"
  BY DEF Search, Holds, IInv, Handles
<1>2. context[c] \in [observe : BOOLEAN, cache : CacheType, buffer : Counts] /\ CacheInv(context[c].cache)
  BY <1>1 DEF IInv, TypeOK, Caches
<1>3. CacheInv(cache) /\ cache \in CacheType
  BY <1>2, SearchedInv DEF CacheInv
<1>4. buffer \in Counts
  <2>1. \A ms : Raise(context[c].buffer, ms) \in Counts
    BY <1>2 DEF Raise, Counts
  <2> QED BY <1>2, <2>1
<1> HIDE DEF cache, buffer
<1>5. r \in [observe : BOOLEAN, cache : CacheType, buffer : Counts]
  BY <1>2, <1>3, <1>4
<1>6. context' = [context EXCEPT ![c] = r]
  BY DEF Search, cache, buffer
<1>7. r.observe = context[c].observe /\ r.cache = cache
  BY <1>2
<1> HIDE DEF r
<1>8. UNCHANGED <<poolVars, workerVars, shared, readerVars>>
  BY DEF Search
<1>9. (Handles /\ Caches /\ ContextExclusive /\ PoolsApart /\ ColdPools)'
  <2>1. stage' = stage /\ stage \in [Workers -> Stages]
    BY <1>8 DEF IInv, TypeOK, workerVars
  <2>2. Holds(w)' /\ stage'[w] # "put" /\ stage' \in [Workers -> Stages]
    BY <1>1, <2>1 DEF Holds
  <2> QED BY <1>1, <1>3, <1>6, <1>7, <1>8, <2>1, <2>2, OwnContext DEF workerVars
<1>10. TypeOK'
  <2>1. context' \in [Contexts -> [observe : BOOLEAN, cache : CacheType, buffer : Counts]]
    BY <1>1, <1>5, <1>6 DEF IInv, TypeOK
  <2>2. searches' \in Nat /\ sampled' \in Nat
    BY DEF Search, IInv, TypeOK
  <2> QED BY <2>1, <2>2, <1>8 DEF IInv, TypeOK, poolVars, workerVars, readerVars
<1> QED BY <1>9, <1>10 DEF IInv

LEMMA CloseKeeps == ASSUME IInv, NEW w \in Workers, Close(w) PROVE IInv'
<1> USE DEF IInv, Close, Enter, Stages
<1>1. TypeOK'
  BY DEF TypeOK, poolVars, readerVars, countVars
<1>2. \A v \in Workers : /\ Holds(v)' <=> Holds(v)
                         /\ stage'[v] = "put" => stage[v] = "put"
  BY DEF Holds, TypeOK
<1>3. Handles' /\ Caches' /\ ContextExclusive' /\ PoolsApart' /\ ColdPools'
  BY <1>2 DEF Handles, Caches, ContextExclusive, PoolsApart, ColdPools, poolVars
<1> QED BY <1>1, <1>3

LEMMA FlushKeeps == ASSUME IInv, NEW w \in Workers, Flush(w) PROVE IInv'
<1> DEFINE m == FlushOrder[flushed[w] + 1]
<1>1. m \in Metrics /\ pool[w] \in Contexts
  BY OrdersInMetrics DEF IInv, TypeOK, Flush, Handles, Holds
<1>2. shared' \in Counts
  BY <1>1, SMTT(30) DEF Flush, IInv, TypeOK, Counts
<1>3. /\ flushed' \in [Workers -> 0..7]
      /\ \A v \in Workers : stage'[v] = stage[v] \/ (stage[v] = "flush" /\ stage'[v] = "reset")
      /\ stage' \in [Workers -> Stages]
  BY OrdersInMetrics DEF IInv, TypeOK, Flush, Enter, Stages
<1>4. UNCHANGED <<poolVars, context, pool, observed, readerVars, countVars>>
  BY DEF Flush
<1>5. TypeOK'
  BY <1>2, <1>3, <1>4, OrdersInMetrics DEF IInv, TypeOK, poolVars, readerVars, countVars
<1>6. \A v \in Workers : (Holds(v)' <=> Holds(v)) /\ (stage'[v] = "put" => stage[v] = "put")
  BY <1>3 DEF Holds
<1>7. (Handles /\ Caches /\ ContextExclusive /\ PoolsApart /\ ColdPools)'
  BY <1>4, <1>6 DEF IInv, Handles, Caches, ContextExclusive, PoolsApart, ColdPools, poolVars
<1> QED BY <1>5, <1>7 DEF IInv

LEMMA ResetKeeps == ASSUME IInv, NEW w \in Workers, Reset(w) PROVE IInv'
<1> DEFINE c == pool[w]
           r == [context[c] EXCEPT !.cache = EmptyCache, !.buffer = NoCounts]
<1>1. Holds(w) /\ c \in Contexts
  BY DEF Reset, Holds, IInv, Handles
<1>2. /\ r \in [observe : BOOLEAN, cache : CacheType, buffer : Counts]
      /\ r.observe = context[c].observe /\ r.cache = EmptyCache /\ r.buffer = NoCounts
  BY <1>1, EmptyCacheInv DEF IInv, TypeOK, CacheInv, NoCounts, Counts
<1>3. context' = [context EXCEPT ![c] = r]
  BY <1>1, <1>2 DEF Reset, IInv, TypeOK
<1> HIDE DEF r
<1>4. /\ stage' = [stage EXCEPT ![w] = "put"]
      /\ UNCHANGED <<poolVars, pool, observed, flushed, shared, readerVars, countVars>>
  BY DEF Reset, Enter
<1>5. TypeOK'
  BY <1>1, <1>2, <1>3, <1>4 DEF Stages, IInv, TypeOK, poolVars, readerVars, countVars
<1>6. /\ Holds(w)' /\ stage' \in [Workers -> Stages]
      /\ \A v \in Workers \ {w} : stage'[v] = stage[v]
  <2>1. stage \in [Workers -> Stages]
    BY DEF IInv, TypeOK
  <2> QED BY <1>4, <2>1 DEF Holds, Stages
<1>7. (Handles /\ Caches /\ ContextExclusive /\ PoolsApart /\ ColdPools)'
  BY <1>1, <1>2, <1>3, <1>4, <1>6, EmptyCacheInv, OwnContext
<1> QED BY <1>5, <1>7 DEF IInv

LEMMA PutKeeps == ASSUME IInv, NEW w \in Workers, Put(w) PROVE IInv'
<1> USE DEF IInv, Put, Enter, Stages
<1>1. Holds(w) /\ pool[w] \in Contexts /\ pool[w] \notin locals \cup observedLocals
  BY DEF Holds, Handles, ContextExclusive
<1>2. TypeOK'
  BY <1>1 DEF TypeOK, readerVars, countVars
<1>3. /\ ~Holds(w)'
      /\ \A v \in Workers \ {w} : /\ Holds(v)' <=> Holds(v)
                                  /\ pool'[v] = pool[v] /\ stage'[v] = stage[v]
  BY DEF TypeOK, Holds
<1>4. Handles' /\ Caches'
  BY <1>3 DEF Handles, Caches, Holds
<1>5. ContextExclusive'
  BY <1>1, <1>3 DEF ContextExclusive
<1>6. PoolsApart' /\ ColdPools'
  BY <1>1, <1>3 DEF PoolsApart, ColdPools, Handles
<1> QED BY <1>2, <1>4, <1>5, <1>6

LEMMA LoadKeeps == ASSUME IInv, Load PROVE IInv'
<1> USE DEF IInv, Load
<1>1. TypeOK'
  BY OrdersInMetrics DEF TypeOK, Counts, poolVars, workerVars, countVars
<1>2. Handles' /\ Caches' /\ ContextExclusive' /\ PoolsApart' /\ ColdPools'
  BY DEF Handles, Caches, ContextExclusive, PoolsApart, ColdPools, Holds, poolVars, workerVars
<1> QED BY <1>1, <1>2

(* No step of any worker, collector or reader breaks the invariant.        *)
LEMMA InvInductive == IInv /\ [Next]_vars => IInv'
<1> SUFFICES ASSUME IInv, [Next]_vars PROVE IInv'
  OBVIOUS
<1>1. CASE UNCHANGED vars
  BY <1>1 DEF IInv, TypeOK, Handles, Caches, ContextExclusive, PoolsApart, ColdPools, Holds,
              vars, poolVars, workerVars, readerVars, countVars
<1>2. CASE Next
  BY <1>2, CountKeeps, AcquireKeeps, ForgetKeeps, SearchKeeps, CloseKeeps, FlushKeeps,
     ResetKeeps, PutKeeps, LoadKeeps DEF Next
<1> QED BY <1>1, <1>2

LEMMA AlwaysIInv == Spec => []IInv
BY InitIInv, InvInductive, PTL DEF Spec

-----------------------------------------------------------------------------
(* Every counter, index and cache stays in range, whoever opens and closes *)
(* Locals (Index.Local, Local.Search, Local.Close, Inspector.Snapshot).    *)
THEOREM TypeCorrect == Spec => []TypeOK
<1>1. IInv => TypeOK
  BY DEF IInv
<1> QED BY <1>1, AlwaysIInv, PTL

(* Index.Local and Local.Close never give one context to two open Locals,  *)
(* nor leave a held one in a pool.                                         *)
THEOREM ContextExclusiveHolds == Spec => []ContextExclusive
<1>1. IInv => ContextExclusive
  BY DEF IInv
<1> QED BY <1>1, AlwaysIInv, PTL

(* The two pools of Index.Local never exchange contexts: only sampled      *)
(* Locals run with observers.                                              *)
THEOREM PoolsApartHolds == Spec => []PoolsApart
<1>1. IInv => PoolsApart
  BY DEF IInv
<1> QED BY <1>1, AlwaysIInv, PTL

(* resetLocal precedes sync.Pool.Put: a pooled context has learned nothing *)
(* and owes the Inspector nothing.                                         *)
THEOREM ColdPoolsHolds == Spec => []ColdPools
<1>1. IInv => ColdPools
  BY DEF IInv
<1> QED BY <1>1, AlwaysIInv, PTL

-----------------------------------------------------------------------------
(* Sums over finite sets.  SumFunctionOnSet is a recursive function whose  *)
(* existence is proved first; what it computes follows by considering a    *)
(* least set on which a claim would fail.                                  *)

LEMMA LeastSubset ==
  ASSUME NEW S, IsFiniteSet(S), NEW F, F \subseteq SUBSET S, F # {}
  PROVE  \E T \in F : \A U \in F : U \subseteq T => U = T
<1>1. IsWellFoundedOn(StrictSubsetOrdering(S), SUBSET S)
  BY FS_StrictSubsetOrderingWellFounded, FS_FiniteSubsetsOfFinite
<1>2. PICK T \in F : \A U \in F : <<U, T>> \notin StrictSubsetOrdering(S)
  BY <1>1, WFMin
<1>3. ASSUME NEW U \in F, U \subseteq T PROVE U = T
  BY <1>2, <1>3 DEF StrictSubsetOrdering
<1> QED BY <1>3

(* The element SumFunctionOnSet takes out of s next, and its recursion.    *)
Pick(s) == CHOOSE x \in s : TRUE
SumFold(f, S, g) ==
  g = [s \in SUBSET S |-> IF s = {} THEN 0 ELSE f[Pick(s)] + g[s \ {Pick(s)}]]

LEMMA PickIn == \A s : s # {} => Pick(s) \in s
BY DEF Pick

LEMMA SumFoldAt ==
  ASSUME NEW f, NEW S, NEW g, SumFold(f, S, g), NEW s \in SUBSET S
  PROVE  g[s] = IF s = {} THEN 0 ELSE f[Pick(s)] + g[s \ {Pick(s)}]
<1>1. g = [t \in SUBSET S |-> IF t = {} THEN 0 ELSE f[Pick(t)] + g[t \ {Pick(t)}]]
  BY DEF SumFold
<1> QED BY <1>1

LEMMA SumFoldUnique ==
  ASSUME NEW f, NEW S, IsFiniteSet(S), NEW g, NEW h, SumFold(f, S, g), SumFold(f, S, h)
  PROVE  g = h
<1> DEFINE F == {s \in SUBSET S : g[s] # h[s]}
<1>1. CASE F = {}
  <2>1. \A s \in SUBSET S : g[s] = h[s]
    BY <1>1
  <2>2. g = [s \in SUBSET S |-> g[s]] /\ h = [s \in SUBSET S |-> h[s]]
    BY DEF SumFold
  <2> QED BY <2>1, <2>2
<1>2. CASE F # {}
  <2>0. F \subseteq SUBSET S
    OBVIOUS
  <2>1. PICK s \in F : \A u \in F : u \subseteq s => u = s
    <3> HIDE DEF F
    <3> QED BY <1>2, <2>0, LeastSubset
  <2>2. s \in SUBSET S /\ s # {}
    BY <2>1, SumFoldAt
  <2>3. s \ {Pick(s)} \in SUBSET S /\ s \ {Pick(s)} \notin F
    BY <2>1, <2>2, PickIn
  <2>4. g[s \ {Pick(s)}] = h[s \ {Pick(s)}]
    BY <2>3
  <2>5. g[s] = f[Pick(s)] + g[s \ {Pick(s)}]
    BY <2>2, SumFoldAt
  <2>6. h[s] = f[Pick(s)] + h[s \ {Pick(s)}]
    BY <2>2, SumFoldAt
  <2> QED BY <2>1, <2>4, <2>5, <2>6
<1> QED BY <1>1, <1>2

LEMMA SumFoldRestrict ==
  ASSUME NEW f, NEW S, NEW T \in SUBSET S, NEW g, SumFold(f, S, g)
  PROVE  SumFold(f, T, [s \in SUBSET T |-> g[s]])
<1> DEFINE h == [s \in SUBSET T |-> g[s]]
<1>1. ASSUME NEW s \in SUBSET T
      PROVE  h[s] = IF s = {} THEN 0 ELSE f[Pick(s)] + h[s \ {Pick(s)}]
  <2>1. s \in SUBSET S /\ s \ {Pick(s)} \in SUBSET T
    OBVIOUS
  <2>2. g[s] = IF s = {} THEN 0 ELSE f[Pick(s)] + g[s \ {Pick(s)}]
    BY <2>1, SumFoldAt
  <2>3. h[s] = g[s] /\ h[s \ {Pick(s)}] = g[s \ {Pick(s)}]
    BY <2>1
  <2> QED BY <2>2, <2>3
<1>2. h = [s \in SUBSET T |-> h[s]]
  OBVIOUS
<1> HIDE DEF h
<1>3. h = [s \in SUBSET T |-> IF s = {} THEN 0 ELSE f[Pick(s)] + h[s \ {Pick(s)}]]
  BY <1>1, <1>2
<1> QED BY <1>3 DEF SumFold, h

LEMMA SumFoldExists ==
  ASSUME NEW f, NEW S, IsFiniteSet(S)
  PROVE  \E g : SumFold(f, S, g)
<1> DEFINE F == {T \in SUBSET S : ~ \E g : SumFold(f, T, g)}
<1> SUFFICES ASSUME F # {} PROVE FALSE
  OBVIOUS
<1>0. F \subseteq SUBSET S
  OBVIOUS
<1>1. PICK T \in F : \A U \in F : U \subseteq T => U = T
  <2> HIDE DEF F
  <2> QED BY <1>0, LeastSubset
<1> DEFINE G(U) == CHOOSE g : SumFold(f, U, g)
           h == [s \in SUBSET T |-> IF s = T THEN IF s = {} THEN 0 ELSE f[Pick(s)] + G(s \ {Pick(s)})[s \ {Pick(s)}]
                                    ELSE G(s)[s]]
<1>2. ASSUME NEW U \in SUBSET T, U # T PROVE SumFold(f, U, G(U))
  <2>1. U \notin F /\ U \in SUBSET S
    BY <1>1, <1>2
  <2> QED BY <2>1
<1>3. ASSUME NEW s \in SUBSET T
      PROVE  h[s] = IF s = {} THEN 0 ELSE f[Pick(s)] + h[s \ {Pick(s)}]
  <2>1. CASE s = {}
    <3>1. CASE s = T
      BY <3>1, <2>1
    <3>2. CASE s # T
      <4>1. SumFold(f, s, G(s)) /\ s \in SUBSET s
        BY <3>2, <1>2
      <4>2. G(s)[s] = 0
        BY <4>1, <2>1, SumFoldAt
      <4>3. h[s] = G(s)[s]
        BY <3>2
      <4> QED BY <4>2, <4>3, <2>1
    <3> QED BY <3>1, <3>2
  <2>2. CASE s # {}
    <3> DEFINE u == s \ {Pick(s)}
    <3>1. u \in SUBSET T /\ u # T /\ u \in SUBSET s
      BY <2>2, PickIn
    <3>2. h[u] = G(u)[u]
      BY <3>1
    <3>3. CASE s = T
      BY <3>2, <3>3, <2>2
    <3>4. CASE s # T
      <4>1. SumFold(f, s, G(s))
        BY <3>4, <1>2
      <4>2. SumFold(f, u, [t \in SUBSET u |-> G(s)[t]])
        BY <4>1, <3>1, SumFoldRestrict
      <4>3. SumFold(f, u, G(u)) /\ IsFiniteSet(u)
        BY <3>1, <1>2, FS_Subset
      <4>4. G(u) = [t \in SUBSET u |-> G(s)[t]]
        BY <4>2, <4>3, SumFoldUnique
      <4>5. G(u)[u] = G(s)[u]
        <5> HIDE DEF G, u
        <5> QED BY <4>4
      <4>6. G(s)[s] = f[Pick(s)] + G(s)[u]
        BY <4>1, <2>2, SumFoldAt
      <4>7. h[s] = G(s)[s]
        BY <3>4
      <4> QED BY <3>2, <4>5, <4>6, <4>7, <2>2
    <3> QED BY <3>3, <3>4
  <2> QED BY <2>1, <2>2
<1>4. h = [s \in SUBSET T |-> h[s]]
  OBVIOUS
<1> HIDE DEF h
<1>5. h = [s \in SUBSET T |-> IF s = {} THEN 0 ELSE f[Pick(s)] + h[s \ {Pick(s)}]]
  BY <1>3, <1>4
<1>6. SumFold(f, T, h)
  BY <1>5 DEF SumFold
<1> QED BY <1>1, <1>6

LEMMA SumUnfolded ==
  ASSUME NEW f, NEW S, IsFiniteSet(S)
  PROVE  \E g : SumFold(f, S, g) /\ SumFunctionOnSet(f, S) = g[S]
<1> DEFINE iter[s \in SUBSET S] ==
             IF s = {} THEN 0 ELSE f[CHOOSE x \in s : TRUE] + iter[s \ {CHOOSE x \in s : TRUE}]
<1>1. iter = CHOOSE g : SumFold(f, S, g)
  BY DEF iter, SumFold, Pick
<1>2. SumFunctionOnSet(f, S) = iter[S]
  BY DEF SumFunctionOnSet, FoldFunctionOnSet, MapThenFoldSet
<1> HIDE DEF iter
<1> QED BY <1>1, <1>2, SumFoldExists

LEMMA SumStep ==
  ASSUME NEW f, NEW S, IsFiniteSet(S)
  PROVE  SumFunctionOnSet(f, S) =
           IF S = {} THEN 0 ELSE f[Pick(S)] + SumFunctionOnSet(f, S \ {Pick(S)})
<1> DEFINE T == S \ {Pick(S)}
<1>1. PICK g : SumFold(f, S, g) /\ SumFunctionOnSet(f, S) = g[S]
  BY SumUnfolded
<1>2. IsFiniteSet(T) /\ T \in SUBSET S
  BY FS_Subset
<1>3. PICK h : SumFold(f, T, h) /\ SumFunctionOnSet(f, T) = h[T]
  BY <1>2, SumUnfolded
<1>4. h = [s \in SUBSET T |-> g[s]]
  <2> HIDE DEF T
  <2>1. SumFold(f, T, [s \in SUBSET T |-> g[s]])
    BY <1>1, <1>2, SumFoldRestrict
  <2> DEFINE r == [s \in SUBSET T |-> g[s]]
  <2>2. SumFold(f, T, r)
    BY <2>1
  <2> HIDE DEF r
  <2>3. h = r
    BY <2>2, <1>2, <1>3, SumFoldUnique
  <2> QED BY <2>3 DEF r
<1>5. h[T] = g[T]
  BY <1>4
<1>6. g[S] = IF S = {} THEN 0 ELSE f[Pick(S)] + g[T]
  BY <1>1, SumFoldAt
<1> QED BY <1>1, <1>3, <1>5, <1>6

LEMMA SumType ==
  ASSUME NEW W, IsFiniteSet(W), NEW f \in [W -> Nat]
  PROVE  \A S \in SUBSET W : SumFunctionOnSet(f, S) \in Nat
<1> DEFINE F == {S \in SUBSET W : SumFunctionOnSet(f, S) \notin Nat}
<1> SUFFICES ASSUME F # {} PROVE FALSE
  OBVIOUS
<1>1. F \subseteq SUBSET W
  OBVIOUS
<1>2. PICK S \in F : \A U \in F : U \subseteq S => U = S
  <2> HIDE DEF F
  <2> QED BY <1>1, LeastSubset
<1>3. S \in SUBSET W /\ IsFiniteSet(S)
  BY <1>2, FS_Subset
<1>4. SumFunctionOnSet(f, S) =
        IF S = {} THEN 0 ELSE f[Pick(S)] + SumFunctionOnSet(f, S \ {Pick(S)})
  BY <1>3, SumStep
<1>5. S # {}
  BY <1>2, <1>4
<1>6. Pick(S) \in S /\ S \ {Pick(S)} \notin F
  BY <1>2, <1>3, <1>5, PickIn
<1>7. f[Pick(S)] \in Nat /\ SumFunctionOnSet(f, S \ {Pick(S)}) \in Nat
  BY <1>3, <1>6
<1> QED BY <1>2, <1>4, <1>5, <1>7

(* Changing a function at one point changes its sum by the difference.     *)
LEMMA SumUpdate ==
  ASSUME NEW W, IsFiniteSet(W), NEW f \in [W -> Nat], NEW g \in [W -> Nat],
         NEW w \in W, \A v \in W \ {w} : g[v] = f[v]
  PROVE  \A S \in SUBSET W :
           SumFunctionOnSet(g, S) + (IF w \in S THEN f[w] ELSE 0) =
           SumFunctionOnSet(f, S) + (IF w \in S THEN g[w] ELSE 0)
<1> DEFINE Differs(S) ==
             SumFunctionOnSet(g, S) + (IF w \in S THEN f[w] ELSE 0) #
             SumFunctionOnSet(f, S) + (IF w \in S THEN g[w] ELSE 0)
           F == {S \in SUBSET W : Differs(S)}
<1> SUFFICES ASSUME F # {} PROVE FALSE
  OBVIOUS
<1>1. F \subseteq SUBSET W
  OBVIOUS
<1>2. PICK S \in F : \A U \in F : U \subseteq S => U = S
  <2> HIDE DEF F
  <2> QED BY <1>1, LeastSubset
<1> DEFINE p == Pick(S)
           T == S \ {p}
<1>3. S \in SUBSET W /\ IsFiniteSet(S)
  BY <1>2, FS_Subset
<1>4. SumFunctionOnSet(f, S) = IF S = {} THEN 0 ELSE f[p] + SumFunctionOnSet(f, T)
  BY <1>3, SumStep
<1>5. SumFunctionOnSet(g, S) = IF S = {} THEN 0 ELSE g[p] + SumFunctionOnSet(g, T)
  BY <1>3, SumStep
<1>6. S # {}
  BY <1>2, <1>4, <1>5
<1>7. p \in S /\ T \notin F /\ T \in SUBSET W
  BY <1>2, <1>3, <1>6, PickIn
<1>8. SumFunctionOnSet(f, T) \in Nat /\ SumFunctionOnSet(g, T) \in Nat
  BY <1>7, SumType
<1>9. SumFunctionOnSet(g, T) + (IF w \in T THEN f[w] ELSE 0) =
      SumFunctionOnSet(f, T) + (IF w \in T THEN g[w] ELSE 0)
  BY <1>7
<1>10. f[p] \in Nat /\ g[p] \in Nat /\ f[w] \in Nat /\ g[w] \in Nat
  BY <1>3, <1>7
<1>11. /\ p = w => w \notin T /\ w \in S
       /\ p # w => g[p] = f[p] /\ (w \in T <=> w \in S)
  BY <1>3, <1>7
<1>12. Differs(S)
  BY <1>2
<1> HIDE DEF T, p, F
<1> QED BY <1>4, <1>5, <1>6, <1>8, <1>9, <1>10, <1>11, <1>12

LEMMA SumZero ==
  ASSUME NEW W, IsFiniteSet(W), NEW f \in [W -> Nat], \A w \in W : f[w] = 0
  PROVE  \A S \in SUBSET W : SumFunctionOnSet(f, S) = 0
<1> DEFINE F == {S \in SUBSET W : SumFunctionOnSet(f, S) # 0}
<1> SUFFICES ASSUME F # {} PROVE FALSE
  OBVIOUS
<1>1. F \subseteq SUBSET W
  OBVIOUS
<1>2. PICK S \in F : \A U \in F : U \subseteq S => U = S
  <2> HIDE DEF F
  <2> QED BY <1>1, LeastSubset
<1>3. S \in SUBSET W /\ IsFiniteSet(S)
  BY <1>2, FS_Subset
<1>4. SumFunctionOnSet(f, S) =
        IF S = {} THEN 0 ELSE f[Pick(S)] + SumFunctionOnSet(f, S \ {Pick(S)})
  BY <1>3, SumStep
<1>5. S # {}
  BY <1>2, <1>4
<1>6. Pick(S) \in S /\ S \ {Pick(S)} \notin F
  BY <1>2, <1>3, <1>5, PickIn
<1>7. f[Pick(S)] = 0 /\ SumFunctionOnSet(f, S \ {Pick(S)}) = 0
  BY <1>3, <1>6
<1> QED BY <1>2, <1>4, <1>5, <1>7

-----------------------------------------------------------------------------
(* The books of sampling.                                                  *)

(* Worker w has already added counter m; it has added a and not yet b.      *)
Added(w, m) == stage[w] = "flush" /\ \E i \in 1..flushed[w] : FlushOrder[i] = m
Ahead(w, a, b) ==
  IF Added(w, a) /\ ~Added(w, b) THEN context[pool[w]].buffer[b] ELSE 0
Aheads(a, b) == [w \in Workers |-> Ahead(w, a, b)]
Law(a, b)    == shared[b] + SumFunction(Aheads(a, b)) =< shared[a]

Behind == \A m \in Metrics : latest[m] =< snapshot[m] /\ snapshot[m] =< shared[m]

Books ==
  /\ \A w \in Workers : stage[w] # "flush" => flushed[w] = 0
  /\ \A c \in Contexts : ~context[c].observe => context[c].buffer = NoCounts
  /\ \A c \in Contexts : Lawful(context[c].buffer)
  /\ Conserved
  /\ Law("emptyResults", "zero") /\ Law("cacheMisses", "cacheAdmissions")
  /\ Behind

LEMMA SumMoves ==
  ASSUME NEW f \in [Workers -> Nat], NEW g \in [Workers -> Nat], NEW w \in Workers,
         \A v \in Workers \ {w} : g[v] = f[v]
  PROVE  /\ SumFunction(f) \in Nat /\ SumFunction(g) \in Nat
         /\ SumFunction(g) + f[w] = SumFunction(f) + g[w]
<1>1. IsFiniteSet(Workers) /\ Workers \in SUBSET Workers
  BY WorkerAssumption
<1>2. /\ SumFunction(f) = SumFunctionOnSet(f, Workers)
      /\ SumFunction(g) = SumFunctionOnSet(g, Workers)
  BY DEF SumFunction
<1>3. SumFunctionOnSet(f, Workers) \in Nat /\ SumFunctionOnSet(g, Workers) \in Nat
  BY <1>1, SumType
<1>4. SumFunctionOnSet(g, Workers) + (IF w \in Workers THEN f[w] ELSE 0) =
      SumFunctionOnSet(f, Workers) + (IF w \in Workers THEN g[w] ELSE 0)
  BY <1>1, SumUpdate
<1> QED BY <1>2, <1>3, <1>4

LEMMA SumOfNothing ==
  ASSUME NEW f \in [Workers -> Nat], \A w \in Workers : f[w] = 0
  PROVE  SumFunction(f) = 0
<1>1. IsFiniteSet(Workers) /\ Workers \in SUBSET Workers
  BY WorkerAssumption
<1>2. SumFunctionOnSet(f, Workers) = 0
  BY <1>1, SumZero
<1> QED BY <1>2 DEF SumFunction

LEMMA SumNatural == ASSUME NEW f \in [Workers -> Nat] PROVE SumFunction(f) \in Nat
<1>1. IsFiniteSet(Workers) /\ Workers \in SUBSET Workers
  BY WorkerAssumption
<1> QED BY <1>1, SumType DEF SumFunction

(* No counter is flushed twice.                                            *)
LEMMA FlushOrderIsOrder ==
  /\ \A i, j \in 1..8 : FlushOrder[i] = FlushOrder[j] => i = j
  /\ \A m \in Metrics : \E i \in 1..8 : FlushOrder[i] = m
BY DEF FlushOrder, Metrics

OwedTyped ==
  \A w \in Workers, m \in Metrics, a \in Metrics :
    Owed(w, m) \in Nat /\ Ahead(w, a, m) \in Nat

LEMMA OwedType == IInv => OwedTyped
<1> SUFFICES ASSUME IInv, NEW w \in Workers, NEW m \in Metrics, NEW a \in Metrics
             PROVE  Owed(w, m) \in Nat /\ Ahead(w, a, m) \in Nat
  BY DEF OwedTyped
<1>1. stage[w] \in {"open", "flush"} => context[pool[w]].buffer[m] \in Nat
  BY DEF IInv, Handles, Holds, TypeOK, Counts
<1> QED BY <1>1 DEF Owed, Ahead, Added

LEMMA OwedTypeNext == IInv' => OwedTyped'
BY OwedType, PTL

(* What Conserved and the laws depend on, in a step that moves no count.   *)
LEMMA SameBooks ==
  ASSUME Books,
         \A w \in Workers, m \in Metrics : Owed(w, m)' = Owed(w, m),
         \A w \in Workers, a, b \in Metrics : Ahead(w, a, b)' = Ahead(w, a, b),
         UNCHANGED <<shared, sampled, latest, snapshot>>
  PROVE  (Conserved /\ Law("emptyResults", "zero")
            /\ Law("cacheMisses", "cacheAdmissions") /\ Behind)'
<1>1. ASSUME NEW m \in Metrics PROVE Total(m)' = Total(m)
  BY DEF Total, Debts
<1>2. ASSUME NEW a \in Metrics, NEW b \in Metrics PROVE Aheads(a, b)' = Aheads(a, b)
  BY DEF Aheads
<1>3. {"cacheHits", "cacheMisses", "cacheAdmissions", "emptyResults", "zero", "some"}
        \subseteq Metrics
  BY DEF Metrics
<1>4. Conserved'
  BY <1>1, <1>3 DEF Books, Conserved
<1>5. Law("emptyResults", "zero")' /\ Law("cacheMisses", "cacheAdmissions")'
  BY <1>2, <1>3 DEF Books, Law
<1>6. Behind'
  BY DEF Books, Behind
<1> QED BY <1>4, <1>5, <1>6

LEMMA InitBooks == Init => Books
<1> SUFFICES ASSUME Init PROVE Books
  OBVIOUS
<1>1. /\ \A w \in Workers : stage[w] = "closed" /\ flushed[w] = 0
      /\ \A c \in Contexts : context[c].buffer = NoCounts
      /\ shared = NoCounts /\ latest = NoCounts /\ snapshot = NoCounts /\ sampled = 0
  BY DEF Init, NewContext
<1>2. \A m \in Metrics : NoCounts[m] = 0
  BY DEF NoCounts
<1>3. {"cacheHits", "cacheMisses", "cacheAdmissions", "emptyResults", "zero", "some"}
        \subseteq Metrics
  BY DEF Metrics
<1>4. ASSUME NEW m \in Metrics PROVE Total(m) = 0
  <2>1. Debts(m) \in [Workers -> Nat] /\ \A w \in Workers : Debts(m)[w] = 0
    BY <1>1 DEF Debts, Owed
  <2>2. SumFunction(Debts(m)) = 0
    BY <2>1, SumOfNothing
  <2> QED BY <1>1, <1>2, <2>2 DEF Total
<1>5. ASSUME NEW a \in Metrics, NEW b \in Metrics PROVE Law(a, b)
  <2>1. Aheads(a, b) \in [Workers -> Nat] /\ \A w \in Workers : Aheads(a, b)[w] = 0
    BY <1>1 DEF Aheads, Ahead, Added
  <2>2. SumFunction(Aheads(a, b)) = 0
    BY <2>1, SumOfNothing
  <2> QED BY <1>1, <1>2, <2>2 DEF Law
<1>6. Conserved /\ Behind /\ Law("emptyResults", "zero") /\ Law("cacheMisses", "cacheAdmissions")
  BY <1>1, <1>2, <1>3, <1>4, <1>5 DEF Conserved, Behind
<1> QED BY <1>1, <1>2, <1>3, <1>6 DEF Books, Lawful

(* A worker whose Local, context and flush a step leaves alone owes what   *)
(* it owed.                                                                *)
LEMMA OwedElsewhere ==
  ASSUME NEW v \in Workers,
         stage'[v] = stage[v], flushed'[v] = flushed[v], pool'[v] = pool[v],
         Holds(v) => context'[pool[v]] = context[pool[v]]
  PROVE  /\ \A m \in Metrics : Owed(v, m)' = Owed(v, m)
         /\ \A a, b \in Metrics : Ahead(v, a, b)' = Ahead(v, a, b)
<1>1. stage[v] \in {"open", "flush"} => Holds(v)
  BY DEF Holds
<1>2. \A m : Owed(v, m)' = Owed(v, m)
  BY <1>1 DEF Owed
<1>3. \A m : Added(v, m)' = Added(v, m)
  BY DEF Added
<1>4. \A a, b : Ahead(v, a, b)' = Ahead(v, a, b)
  <2>1. \A m : Added(v, m) => Holds(v)
    BY <1>1 DEF Added
  <2> QED BY <1>3, <2>1 DEF Ahead
<1> QED BY <1>2, <1>4

(* ... and one that is neither open nor flushing owes nothing.             *)
LEMMA OwesNothing ==
  ASSUME NEW v \in Workers, stage[v] \notin {"open", "flush"}
  PROVE  /\ \A m \in Metrics : Owed(v, m) = 0
         /\ \A a, b \in Metrics : Ahead(v, a, b) = 0
BY DEF Owed, Ahead, Added

LEMMA CountBooks ==
  ASSUME IInv, Books, NEW w \in Workers, Count(w) PROVE Books'
<1>1. /\ stage \in [Workers -> Stages] /\ stage[w] = "closed" /\ stage' = [stage EXCEPT ![w] = "counted"]
      /\ UNCHANGED <<context, pool, flushed, shared, snapshot, latest, sampled>>
  BY DEF Count, Enter, IInv, TypeOK, readerVars, countVars
<1>2. /\ \A m \in Metrics : Owed(w, m)' = Owed(w, m)
      /\ \A a, b \in Metrics : Ahead(w, a, b)' = Ahead(w, a, b)
  BY <1>1 DEF Owed, Ahead, Added
<1>3. ASSUME NEW v \in Workers \ {w}
      PROVE  /\ \A m \in Metrics : Owed(v, m)' = Owed(v, m)
             /\ \A a, b \in Metrics : Ahead(v, a, b)' = Ahead(v, a, b)
  BY <1>1, OwedElsewhere
<1>4. (Conserved /\ Law("emptyResults", "zero")
         /\ Law("cacheMisses", "cacheAdmissions") /\ Behind)'
  BY <1>1, <1>2, <1>3, SameBooks
<1> QED BY <1>1, <1>4 DEF Books

LEMMA AcquireBooks ==
  ASSUME IInv, Books, NEW w \in Workers, NEW c \in Contexts, Acquire(w, c) PROVE Books'
<1>1. /\ stage \in [Workers -> Stages] /\ stage[w] = "counted" /\ stage' = [stage EXCEPT ![w] = "open"]
      /\ pool' = [pool EXCEPT ![w] = c] /\ pool'[w] = c /\ observed[w] \in BOOLEAN
      /\ UNCHANGED <<flushed, shared, snapshot, latest, sampled>>
  BY DEF Acquire, Enter, IInv, TypeOK, readerVars, countVars
<1>2. /\ context'[c].buffer = NoCounts
      /\ \A d \in Contexts \ {c} : context'[d] = context[d]
      /\ \A v \in Workers \ {w} : Holds(v) => pool[v] # c
  <2>1. CASE c \in IF observed[w] THEN observedLocals ELSE locals
    <3>1. c \in locals \cup observedLocals
      BY <2>1
    <3>2. ~Unowned(c) /\ context' = context
      BY <3>1 DEF Unowned, Acquire
    <3> QED BY <3>1, <3>2 DEF IInv, ColdPools, ContextExclusive
  <2>2. CASE /\ Unowned(c)
             /\ context' = [context EXCEPT ![c] = NewContext(observed[w])]
    BY <2>2 DEF Unowned, NewContext, IInv, TypeOK
  <2> QED BY <2>1, <2>2 DEF Acquire
<1>3. /\ \A m \in Metrics : Owed(w, m)' = Owed(w, m)
      /\ \A a, b \in Metrics : Ahead(w, a, b)' = Ahead(w, a, b)
  <2>1. \A m \in Metrics : NoCounts[m] = 0
    BY DEF NoCounts
  <2> QED BY <1>1, <1>2, <2>1 DEF Owed, Ahead, Added
<1>4. ASSUME NEW v \in Workers \ {w}
      PROVE  /\ \A m \in Metrics : Owed(v, m)' = Owed(v, m)
             /\ \A a, b \in Metrics : Ahead(v, a, b)' = Ahead(v, a, b)
  <2>1. /\ stage'[v] = stage[v] /\ flushed'[v] = flushed[v] /\ pool'[v] = pool[v]
    BY <1>1 DEF IInv, TypeOK
  <2>2. Holds(v) => context'[pool[v]] = context[pool[v]]
    BY <1>2 DEF IInv, Handles
  <2> QED BY <2>1, <2>2, OwedElsewhere
<1>5. (Conserved /\ Law("emptyResults", "zero")
         /\ Law("cacheMisses", "cacheAdmissions") /\ Behind)'
  BY <1>1, <1>3, <1>4, SameBooks
<1>6. Lawful(NoCounts)
  BY DEF Lawful, NoCounts, Metrics
<1>7. \A v \in Workers : stage'[v] # "flush" => flushed'[v] = 0
  BY <1>1 DEF Books
<1>8. ASSUME NEW d \in Contexts
      PROVE  /\ ~context'[d].observe => context'[d].buffer = NoCounts
             /\ Lawful(context'[d].buffer)
  BY <1>2, <1>6 DEF Books
<1> QED BY <1>5, <1>7, <1>8 DEF Books, Lawful

LEMMA ForgetBooks ==
  ASSUME IInv, Books, NEW c \in Contexts, Forget(c) PROVE Books'
<1>1. UNCHANGED <<context, stage, pool, flushed, shared, snapshot, latest, sampled>>
  BY DEF Forget, workerVars, readerVars, countVars
<1>2. ASSUME NEW v \in Workers
      PROVE  /\ \A m \in Metrics : Owed(v, m)' = Owed(v, m)
             /\ \A a, b \in Metrics : Ahead(v, a, b)' = Ahead(v, a, b)
  BY <1>1, OwedElsewhere
<1>3. (Conserved /\ Law("emptyResults", "zero")
         /\ Law("cacheMisses", "cacheAdmissions") /\ Behind)'
  BY <1>1, <1>2, SameBooks
<1> QED BY <1>1, <1>3 DEF Books, Lawful

LEMMA CloseBooks ==
  ASSUME IInv, Books, NEW w \in Workers, Close(w) PROVE Books'
<1> DEFINE c == pool[w]
<1>1. /\ stage \in [Workers -> Stages] /\ stage[w] = "open" /\ c \in Contexts
      /\ stage' = [stage EXCEPT ![w] = IF context[c].observe THEN "flush" ELSE "reset"]
      /\ flushed[w] = 0
      /\ UNCHANGED <<context, pool, flushed, shared, snapshot, latest, sampled>>
  BY DEF Close, Enter, IInv, TypeOK, readerVars, countVars, Handles, Holds, Books
<1>2. stage'[w] = IF context[c].observe THEN "flush" ELSE "reset"
  BY <1>1
<1>3. ASSUME NEW m \in Metrics PROVE Owed(w, m)' = Owed(w, m)
  <2>1. Owed(w, m) = context[c].buffer[m]
    BY <1>1 DEF Owed
  <2>2. CASE context[c].observe
    <3>1. PICK i \in 1..8 : FlushOrder[i] = m
      BY FlushOrderIsOrder
    <3>2. i \in (flushed[w] + 1)..Len(FlushOrder)
      BY <1>1, OrdersInMetrics
    <3> QED BY <1>1, <1>2, <2>1, <2>2, <3>1, <3>2 DEF Owed
  <2>3. CASE ~context[c].observe
    <3>1. context[c].buffer = NoCounts /\ NoCounts[m] = 0
      BY <1>1, <2>3 DEF Books, NoCounts
    <3> QED BY <1>2, <2>1, <2>3, <3>1 DEF Owed
  <2> QED BY <2>2, <2>3
<1>4. ASSUME NEW a \in Metrics, NEW b \in Metrics PROVE Ahead(w, a, b)' = Ahead(w, a, b)
  <2>1. ~Added(w, a) /\ ~Added(w, a)'
    BY <1>1 DEF Added
  <2> QED BY <2>1 DEF Ahead
<1>5. ASSUME NEW v \in Workers \ {w}
      PROVE  /\ \A m \in Metrics : Owed(v, m)' = Owed(v, m)
             /\ \A a, b \in Metrics : Ahead(v, a, b)' = Ahead(v, a, b)
  BY <1>1, OwedElsewhere
<1>6. (Conserved /\ Law("emptyResults", "zero")
         /\ Law("cacheMisses", "cacheAdmissions") /\ Behind)'
  BY <1>1, <1>3, <1>4, <1>5, SameBooks
<1> QED BY <1>1, <1>6 DEF Books, Lawful

LEMMA ResetBooks ==
  ASSUME IInv, Books, NEW w \in Workers, Reset(w) PROVE Books'
<1> DEFINE c == pool[w]
<1>1. /\ stage \in [Workers -> Stages] /\ stage[w] = "reset" /\ c \in Contexts
      /\ stage' = [stage EXCEPT ![w] = "put"] /\ Holds(w)
      /\ UNCHANGED <<pool, flushed, shared, snapshot, latest, sampled>>
  BY DEF Reset, Enter, IInv, TypeOK, readerVars, countVars, Handles, Holds
<1>2. /\ \A d \in Contexts \ {c} : context'[d] = context[d]
      /\ context'[c].buffer = NoCounts
  BY <1>1 DEF Reset, IInv, TypeOK
<1>3. /\ \A m \in Metrics : Owed(w, m)' = Owed(w, m)
      /\ \A a, b \in Metrics : Ahead(w, a, b)' = Ahead(w, a, b)
  BY <1>1 DEF Owed, Ahead, Added
<1>4. ASSUME NEW v \in Workers \ {w}
      PROVE  /\ \A m \in Metrics : Owed(v, m)' = Owed(v, m)
             /\ \A a, b \in Metrics : Ahead(v, a, b)' = Ahead(v, a, b)
  <2>1. stage'[v] = stage[v] /\ flushed'[v] = flushed[v] /\ pool'[v] = pool[v]
    BY <1>1
  <2>2. Holds(v) => context'[pool[v]] = context[pool[v]]
    BY <1>1, <1>2 DEF IInv, Handles, ContextExclusive
  <2> QED BY <2>1, <2>2, OwedElsewhere
<1>5. (Conserved /\ Law("emptyResults", "zero")
         /\ Law("cacheMisses", "cacheAdmissions") /\ Behind)'
  BY <1>1, <1>3, <1>4, SameBooks
<1>6. Lawful(NoCounts)
  BY DEF Lawful, NoCounts, Metrics
<1>7. \A v \in Workers : stage'[v] # "flush" => flushed'[v] = 0
  BY <1>1 DEF Books
<1>8. ASSUME NEW d \in Contexts
      PROVE  /\ ~context'[d].observe => context'[d].buffer = NoCounts
             /\ Lawful(context'[d].buffer)
  BY <1>2, <1>6 DEF Books
<1> QED BY <1>5, <1>7, <1>8 DEF Books, Lawful

LEMMA PutBooks ==
  ASSUME IInv, Books, NEW w \in Workers, Put(w) PROVE Books'
<1>1. /\ stage \in [Workers -> Stages] /\ stage[w] = "put" /\ stage' = [stage EXCEPT ![w] = "closed"]
      /\ pool' = [pool EXCEPT ![w] = NoContext] /\ pool \in [Workers -> Contexts \cup {NoContext}]
      /\ UNCHANGED <<context, flushed, shared, snapshot, latest, sampled>>
  BY DEF Put, Enter, IInv, TypeOK, readerVars, countVars
<1>2. /\ \A m \in Metrics : Owed(w, m)' = Owed(w, m)
      /\ \A a, b \in Metrics : Ahead(w, a, b)' = Ahead(w, a, b)
  BY <1>1 DEF Owed, Ahead, Added
<1>3. ASSUME NEW v \in Workers \ {w}
      PROVE  /\ \A m \in Metrics : Owed(v, m)' = Owed(v, m)
             /\ \A a, b \in Metrics : Ahead(v, a, b)' = Ahead(v, a, b)
  BY <1>1, OwedElsewhere
<1>4. (Conserved /\ Law("emptyResults", "zero")
         /\ Law("cacheMisses", "cacheAdmissions") /\ Behind)'
  BY <1>1, <1>2, <1>3, SameBooks
<1> QED BY <1>1, <1>4 DEF Books

(* A step that changes what one worker owes changes the totals by as much. *)
LEMMA TotalMoves ==
  ASSUME IInv, IInv', NEW w \in Workers, NEW m \in Metrics,
         \A v \in Workers \ {w} : Owed(v, m)' = Owed(v, m)
  PROVE  /\ Total(m) \in Nat /\ Total(m)' \in Nat
         /\ Total(m)' + shared[m] + Owed(w, m) = Total(m) + shared'[m] + Owed(w, m)'
<1> DEFINE f == [v \in Workers |-> Owed(v, m)]
           g == [v \in Workers |-> Owed(v, m)']
<1>1. OwedTyped /\ OwedTyped'
  BY OwedType, OwedTypeNext
<1>2. f \in [Workers -> Nat] /\ g \in [Workers -> Nat]
  BY <1>1 DEF OwedTyped
<1>3. \A v \in Workers \ {w} : g[v] = f[v]
  OBVIOUS
<1>4. f[w] = Owed(w, m) /\ g[w] = Owed(w, m)'
  OBVIOUS
<1>5. Total(m) = shared[m] + SumFunction(f) /\ Total(m)' = shared'[m] + SumFunction(g)
  BY DEF Total, Debts
<1> HIDE DEF f, g
<1>6. /\ SumFunction(f) \in Nat /\ SumFunction(g) \in Nat
      /\ SumFunction(g) + f[w] = SumFunction(f) + g[w]
  BY <1>2, <1>3, SumMoves
<1>7. shared[m] \in Nat /\ shared'[m] \in Nat /\ f[w] \in Nat /\ g[w] \in Nat
  BY <1>2 DEF IInv, TypeOK, Counts
<1> QED BY <1>4, <1>5, <1>6, <1>7

(* One search is a hit or a miss, finds something or nothing, and admits   *)
(* only what it missed.                                                    *)
LEMMA RaisedOnce ==
  ASSUME NEW cache, NEW k
  PROVE  /\ "cacheHits" \in Raised(cache, k) <=> "cacheMisses" \notin Raised(cache, k)
         /\ "zero" \in Raised(cache, k) <=> "some" \notin Raised(cache, k)
         /\ "zero" \in Raised(cache, k) <=> "emptyResults" \in Raised(cache, k)
         /\ "cacheAdmissions" \in Raised(cache, k) => "cacheMisses" \in Raised(cache, k)
BY DEF Raised, Metrics

LEMMA SearchBooks ==
  ASSUME IInv, IInv', Books, NEW w \in Workers, NEW k \in Keys, Search(w, k) PROVE Books'
<1> DEFINE c == pool[w]
           R == Raised(context[c].cache, k)
           one(m) == IF context[c].observe /\ m \in R THEN 1 ELSE 0
<1>1. /\ c \in Contexts /\ Holds(w) /\ stage[w] = "open" /\ observed[w] = context[c].observe
      /\ context[c].observe \in BOOLEAN /\ context[c].buffer \in Counts
      /\ UNCHANGED <<stage, pool, flushed, shared, snapshot, latest>>
      /\ sampled' = sampled + (IF observed[w] THEN 1 ELSE 0) /\ sampled \in Nat
  BY DEF Search, Handles, Holds, IInv, PoolsApart, TypeOK, workerVars, readerVars
<1>2. \A d \in Contexts \ {c} : context'[d] = context[d]
  BY DEF Search, IInv, TypeOK
<1>3. /\ context'[c].observe = context[c].observe
      /\ context'[c].buffer = IF context[c].observe THEN Raise(context[c].buffer, R)
                              ELSE context[c].buffer
  BY <1>1 DEF Search, IInv, TypeOK
<1>4. \A m \in Metrics : context'[c].buffer[m] = context[c].buffer[m] + one(m)
  BY <1>1, <1>3 DEF Raise, Counts
<1>5. \A m \in Metrics : Owed(w, m)' = Owed(w, m) + one(m)
  <2>1. \A m \in Metrics : Owed(w, m) = context[c].buffer[m] /\ Owed(w, m)' = context'[c].buffer[m]
    BY <1>1 DEF Owed
  <2> QED BY <2>1, <1>4
<1>6. \A a, b \in Metrics : Ahead(w, a, b)' = Ahead(w, a, b)
  BY <1>1 DEF Ahead, Added
<1>7. ASSUME NEW v \in Workers \ {w}
      PROVE  /\ \A m \in Metrics : Owed(v, m)' = Owed(v, m)
             /\ \A a, b \in Metrics : Ahead(v, a, b)' = Ahead(v, a, b)
  <2>1. Holds(v) => context'[pool[v]] = context[pool[v]]
    BY <1>1, <1>2 DEF IInv, Handles, ContextExclusive
  <2> QED BY <1>1, <2>1, OwedElsewhere
<1>8. ASSUME NEW m \in Metrics
      PROVE  Total(m) \in Nat /\ Total(m)' = Total(m) + one(m)
  <2>1. /\ Total(m) \in Nat /\ Total(m)' \in Nat
        /\ Total(m)' + shared[m] + Owed(w, m) = Total(m) + shared'[m] + Owed(w, m)'
    BY <1>7, TotalMoves
  <2>2. shared[m] \in Nat /\ Owed(w, m) \in Nat /\ one(m) \in Nat
    BY OwedType DEF OwedTyped, IInv, TypeOK, Counts
  <2>3. shared'[m] = shared[m] /\ Owed(w, m)' = Owed(w, m) + one(m)
    BY <1>1, <1>5
  <2> HIDE DEF one
  <2> QED BY <2>1, <2>2, <2>3
<1>9. {"cacheHits", "cacheMisses", "cacheAdmissions", "emptyResults", "zero", "some"}
        \subseteq Metrics
  BY DEF Metrics
<1>10. /\ one("cacheHits") + one("cacheMisses") = IF context[c].observe THEN 1 ELSE 0
       /\ one("zero") + one("some") = IF context[c].observe THEN 1 ELSE 0
       /\ one("zero") = one("emptyResults") /\ one("cacheAdmissions") =< one("cacheMisses")
       /\ \A m \in Metrics : one(m) \in Nat
  <2> HIDE DEF R
  <2>1. /\ "cacheHits" \in R <=> "cacheMisses" \notin R
        /\ "zero" \in R <=> "some" \notin R
        /\ "zero" \in R <=> "emptyResults" \in R
        /\ "cacheAdmissions" \in R => "cacheMisses" \in R
    BY RaisedOnce DEF R
  <2> QED BY <2>1
<1> HIDE DEF one, R
<1>11. Conserved'
  <2>1. /\ Total("cacheHits")' = Total("cacheHits") + one("cacheHits")
        /\ Total("cacheMisses")' = Total("cacheMisses") + one("cacheMisses")
        /\ Total("cacheHits") \in Nat /\ Total("cacheMisses") \in Nat
        /\ one("cacheHits") \in Nat /\ one("cacheMisses") \in Nat
    BY <1>8, <1>9, <1>10
  <2>2. /\ Total("zero")' = Total("zero") + one("zero")
        /\ Total("some")' = Total("some") + one("some")
        /\ Total("zero") \in Nat /\ Total("some") \in Nat
        /\ one("zero") \in Nat /\ one("some") \in Nat
    BY <1>8, <1>9, <1>10
  <2>3. /\ Total("cacheHits") + Total("cacheMisses") = sampled
        /\ Total("zero") + Total("some") = sampled
    BY DEF Books, Conserved
  <2>4. Total("cacheHits")' + Total("cacheMisses")' = sampled'
    BY <1>1, <1>10, <2>1, <2>3
  <2>5. Total("zero")' + Total("some")' = sampled'
    BY <1>1, <1>10, <2>2, <2>3
  <2> QED BY <2>4, <2>5 DEF Conserved
<1>12. ASSUME NEW a \in Metrics, NEW b \in Metrics, Law(a, b) PROVE Law(a, b)'
  <2>1. Aheads(a, b)' = Aheads(a, b)
    BY <1>6, <1>7 DEF Aheads
  <2> QED BY <1>1, <1>12, <2>1 DEF Law
<1>13. Behind'
  BY <1>1 DEF Books, Behind
<1>14. Lawful(context'[c].buffer)
  <2>1. Lawful(context[c].buffer)
    BY <1>1 DEF Books
  <2>2. \A m \in Metrics : context[c].buffer[m] \in Nat
    BY <1>1 DEF Counts
  <2> QED BY <1>4, <1>9, <1>10, <2>1, <2>2 DEF Lawful
<1>15. ~context'[c].observe => context'[c].buffer = NoCounts
  BY <1>1, <1>3 DEF Books
<1>16. ASSUME NEW d \in Contexts
       PROVE  (~context'[d].observe => context'[d].buffer = NoCounts) /\ Lawful(context'[d].buffer)
  BY <1>2, <1>14, <1>15 DEF Books
<1>17. \A v \in Workers : stage'[v] # "flush" => flushed'[v] = 0
  BY <1>1 DEF Books
<1>18. Law("emptyResults", "zero")' /\ Law("cacheMisses", "cacheAdmissions")'
  BY <1>9, <1>12 DEF Books
<1> QED BY <1>11, <1>13, <1>16, <1>17, <1>18 DEF Books, Lawful

LEMMA LoadBooks == ASSUME IInv, Books, Load PROVE Books'
<1> DEFINE m == LoadOrder[loaded + 1]
<1>1. /\ UNCHANGED <<context, stage, pool, flushed, shared, sampled>>
      /\ m \in Metrics /\ snapshot' = [snapshot EXCEPT ![m] = shared[m]]
      /\ latest' = latest \/ latest' = snapshot'
  BY OrdersInMetrics DEF Load, workerVars, countVars, IInv, TypeOK
<1>2. /\ \A v \in Workers, n \in Metrics : Owed(v, n)' = Owed(v, n)
      /\ \A v \in Workers, a, b \in Metrics : Ahead(v, a, b)' = Ahead(v, a, b)
  BY <1>1 DEF Owed, Ahead, Added
<1>3. \A n \in Metrics : latest[n] \in Nat /\ snapshot[n] \in Nat /\ shared[n] \in Nat
  BY DEF IInv, TypeOK, Counts
<1>4. \A n \in Metrics : snapshot'[n] = IF n = m THEN shared[n] ELSE snapshot[n]
  BY <1>1 DEF IInv, TypeOK, Counts
<1>5. Behind'
  <2>1. \A n \in Metrics : latest[n] =< snapshot[n] /\ snapshot[n] =< shared[n]
    BY DEF Books, Behind
  <2>2. ASSUME NEW n \in Metrics PROVE latest'[n] =< snapshot'[n] /\ snapshot'[n] =< shared'[n]
    <3>1. latest'[n] = latest[n] \/ latest'[n] = snapshot'[n]
      BY <1>1
    <3>2. shared'[n] = shared[n] /\ (snapshot'[n] = shared[n] \/ snapshot'[n] = snapshot[n])
      BY <1>1, <1>4
    <3> HIDE DEF m
    <3> QED BY <1>3, <2>1, <3>1, <3>2
  <2> QED BY <2>2 DEF Behind
<1>6. ASSUME NEW n \in Metrics PROVE Total(n)' = Total(n)
  BY <1>1, <1>2 DEF Total, Debts
<1>7. ASSUME NEW a \in Metrics, NEW b \in Metrics PROVE Aheads(a, b)' = Aheads(a, b)
  BY <1>2 DEF Aheads
<1>8. {"cacheHits", "cacheMisses", "cacheAdmissions", "emptyResults", "zero", "some"}
        \subseteq Metrics
  BY DEF Metrics
<1>9. Conserved'
  BY <1>1, <1>6, <1>8 DEF Books, Conserved
<1>10. Law("emptyResults", "zero")' /\ Law("cacheMisses", "cacheAdmissions")'
  BY <1>1, <1>7, <1>8 DEF Books, Law
<1> QED BY <1>1, <1>5, <1>9, <1>10 DEF Books, Lawful

LEMMA FlushBooks ==
  ASSUME IInv, IInv', Books, NEW w \in Workers, Flush(w) PROVE Books'
<1> DEFINE c == pool[w]
           i == flushed[w] + 1
           m == FlushOrder[i]
<1>1. /\ c \in Contexts /\ stage[w] = "flush" /\ i \in 1..8 /\ m \in Metrics
      /\ stage \in [Workers -> Stages] /\ flushed \in [Workers -> 0..7]
      /\ context[c].buffer \in Counts /\ shared \in Counts
      /\ UNCHANGED <<context, pool, latest, snapshot, sampled>>
  BY OrdersInMetrics
     DEF Flush, Handles, Holds, IInv, TypeOK, readerVars, countVars
<1>2. \A n \in Metrics : shared'[n] = shared[n] + (IF n = m THEN context[c].buffer[n] ELSE 0)
  BY <1>1 DEF Flush, Counts
<1>3. \/ i # 8 /\ stage' = stage /\ flushed' = [flushed EXCEPT ![w] = i]
      \/ i = 8 /\ stage' = [stage EXCEPT ![w] = "reset"] /\ flushed' = [flushed EXCEPT ![w] = 0]
  BY <1>1, OrdersInMetrics DEF Flush, Enter
<1>4. \A n \in Metrics : context[c].buffer[n] \in Nat /\ shared[n] \in Nat
  BY <1>1 DEF Counts
<1>5. ASSUME NEW v \in Workers \ {w}
      PROVE  /\ \A n \in Metrics : Owed(v, n)' = Owed(v, n)
             /\ \A a, b \in Metrics : Ahead(v, a, b)' = Ahead(v, a, b)
  BY <1>1, <1>3, OwedElsewhere
(* What w has added before and after: the counters up to i - 1, and up to i. *)
<1>6. ASSUME NEW n \in Metrics, NEW j \in 1..8, FlushOrder[j] = n
      PROVE  /\ Added(w, n) <=> j < i
             /\ Added(w, n)' <=> (i # 8 /\ j =< i)
             /\ Owed(w, n) = IF j < i THEN 0 ELSE context[c].buffer[n]
             /\ Owed(w, n)' = IF j =< i THEN 0 ELSE context[c].buffer[n]
  <2>1. \A k \in 1..8 : FlushOrder[k] = n <=> k = j
    BY <1>6, FlushOrderIsOrder
  <2>2. flushed[w] = i - 1 /\ flushed[w] \in 0..7 /\ Len(FlushOrder) = 8
    BY <1>1, OrdersInMetrics
  <2>3. 1..flushed[w] \subseteq 1..8 /\ (flushed[w] + 1)..8 \subseteq 1..8
    BY <2>2
  <2> HIDE DEF i
  <2>4. Added(w, n) <=> j < i
    BY <1>1, <2>1, <2>2, <2>3 DEF Added
  <2>5. Owed(w, n) = IF j < i THEN 0 ELSE context[c].buffer[n]
    <3>1. (\E k \in (flushed[w] + 1)..8 : FlushOrder[k] = n) <=> ~(j < i)
      BY <1>1, <2>1, <2>2, <2>3
    <3> QED BY <1>1, <2>2, <3>1 DEF Owed
  <2>6. CASE i # 8
    <3>1. stage'[w] = "flush" /\ flushed'[w] = i /\ i \in 1..7
      BY <1>1, <1>3, <2>6
    <3>2. Added(w, n)' <=> j =< i
      BY <2>1, <3>1 DEF Added
    <3>3. Owed(w, n)' = IF j =< i THEN 0 ELSE context[c].buffer[n]
      <4>1. (\E k \in (i + 1)..8 : FlushOrder[k] = n) <=> ~(j =< i)
        BY <2>1, <3>1
      <4> QED BY <1>1, <2>2, <3>1, <4>1 DEF Owed
    <3> QED BY <2>4, <2>5, <2>6, <3>2, <3>3
  <2>7. CASE i = 8
    <3>1. stage'[w] = "reset"
      BY <1>1, <1>3, <2>7
    <3>2. ~Added(w, n)' /\ Owed(w, n)' = 0
      BY <3>1 DEF Added, Owed
    <3> QED BY <2>4, <2>5, <2>7, <3>2
  <2> QED BY <2>6, <2>7
<1>7. ASSUME NEW n \in Metrics PROVE Total(n)' = Total(n)
  <2>1. PICK j \in 1..8 : FlushOrder[j] = n
    BY FlushOrderIsOrder
  <2>2. n = m <=> j = i
    BY <1>1, <2>1, FlushOrderIsOrder
  <2>3. /\ Total(n) \in Nat /\ Total(n)' \in Nat
        /\ Total(n)' + shared[n] + Owed(w, n) = Total(n) + shared'[n] + Owed(w, n)'
    BY <1>5, TotalMoves
  <2>4. /\ Owed(w, n) = IF j < i THEN 0 ELSE context[c].buffer[n]
        /\ Owed(w, n)' = IF j =< i THEN 0 ELSE context[c].buffer[n]
    BY <1>6, <2>1
  <2>5. shared'[n] = shared[n] + (IF j = i THEN context[c].buffer[n] ELSE 0)
    BY <1>2, <2>2
  <2>6. i \in 1..8 /\ context[c].buffer[n] \in Nat /\ shared[n] \in Nat
    BY <1>1, <1>4
  <2> HIDE DEF i, m
  <2> QED BY <2>3, <2>4, <2>5, <2>6
(* b is flushed after a, and no buffer holds more of b than of a.          *)
<1>8. ASSUME NEW ja \in 1..8, NEW jb \in 1..8, ja < jb, NEW a, NEW b,
             a = FlushOrder[ja], b = FlushOrder[jb], a \in Metrics, b \in Metrics,
             context[c].buffer[b] =< context[c].buffer[a], Law(a, b)
      PROVE  Law(a, b)'
  <2> DEFINE f == [v \in Workers |-> Ahead(v, a, b)]
             g == [v \in Workers |-> Ahead(v, a, b)']
  <2>1. OwedTyped /\ OwedTyped'
    BY OwedType, OwedTypeNext
  <2>2. f \in [Workers -> Nat] /\ g \in [Workers -> Nat]
    BY <1>8, <2>1 DEF OwedTyped
  <2>3. \A v \in Workers \ {w} : g[v] = f[v]
    BY <1>5, <1>8
  <2>4. /\ SumFunction(f) \in Nat /\ SumFunction(g) \in Nat
        /\ SumFunction(g) + f[w] = SumFunction(f) + g[w]
    <3> HIDE DEF f, g
    <3> QED BY <2>2, <2>3, SumMoves
  <2>5. shared[b] + SumFunction(f) =< shared[a]
    BY <1>8 DEF Law, Aheads
  <2>6. Law(a, b)' <=> shared'[b] + SumFunction(g) =< shared'[a]
    BY DEF Law, Aheads
  <2>7. a # b /\ (a = m <=> ja = i) /\ (b = m <=> jb = i)
    BY <1>1, <1>8, FlushOrderIsOrder
  <2>8. /\ Added(w, a) <=> ja < i
        /\ Added(w, b) <=> jb < i
        /\ Added(w, a)' <=> (i # 8 /\ ja =< i)
        /\ Added(w, b)' <=> (i # 8 /\ jb =< i)
    BY <1>6, <1>8
  <2>9. f[w] = IF ja < i /\ ~ jb < i THEN context[c].buffer[b] ELSE 0
    BY <2>8 DEF Ahead
  <2>10. g[w] = IF i # 8 /\ ja =< i /\ ~ jb =< i THEN context[c].buffer[b] ELSE 0
    BY <1>1, <2>8 DEF Ahead
  <2>11. /\ shared'[a] = shared[a] + (IF ja = i THEN context[c].buffer[a] ELSE 0)
         /\ shared'[b] = shared[b] + (IF jb = i THEN context[c].buffer[b] ELSE 0)
    BY <1>2, <1>8, <2>7
  <2>12. /\ context[c].buffer[a] \in Nat /\ context[c].buffer[b] \in Nat
         /\ shared[a] \in Nat /\ shared[b] \in Nat /\ i \in 1..8
    BY <1>1, <1>4, <1>8
  <2> HIDE DEF f, g, i, m
  <2>13. shared'[b] + SumFunction(g) =< shared'[a]
    BY <1>8, <2>4, <2>5, <2>9, <2>10, <2>11, <2>12
  <2> QED BY <2>6, <2>13
<1>9. /\ FlushOrder[1] = "emptyResults" /\ FlushOrder[7] = "zero"
      /\ FlushOrder[3] = "cacheMisses" /\ FlushOrder[4] = "cacheAdmissions"
      /\ {"cacheHits", "cacheMisses", "cacheAdmissions", "emptyResults", "zero", "some"}
           \subseteq Metrics
  BY DEF FlushOrder, Metrics
<1>10. Lawful(context[c].buffer)
  BY <1>1 DEF Books
<1>11. Law("emptyResults", "zero")'
  BY <1>8, <1>9, <1>10 DEF Lawful, Books
<1>12. Law("cacheMisses", "cacheAdmissions")'
  BY <1>8, <1>9, <1>10 DEF Lawful, Books
<1>13. Conserved'
  BY <1>1, <1>7, <1>9 DEF Books, Conserved
<1>14. Behind'
  <2>1. \A n \in Metrics : latest[n] =< snapshot[n] /\ snapshot[n] =< shared[n]
    BY DEF Books, Behind
  <2>2. \A n \in Metrics : snapshot[n] \in Nat
    BY DEF IInv, TypeOK, Counts
  <2>3. ASSUME NEW n \in Metrics PROVE snapshot[n] =< shared'[n]
    BY <1>2, <1>4, <2>1, <2>2
  <2> QED BY <1>1, <2>1, <2>3 DEF Behind
<1>15. \A v \in Workers : stage'[v] # "flush" => flushed'[v] = 0
  BY <1>1, <1>3 DEF Books
<1> QED BY <1>1, <1>11, <1>12, <1>13, <1>14, <1>15 DEF Books, Lawful

LEMMA BooksInductive == IInv /\ Books /\ [Next]_vars => Books'
<1> SUFFICES ASSUME IInv, Books, [Next]_vars PROVE Books'
  OBVIOUS
<1>1. IInv'
  BY InvInductive
<1>2. CASE UNCHANGED vars
  <2>1. UNCHANGED <<context, stage, pool, flushed, shared, latest, snapshot, sampled>>
    BY <1>2 DEF vars, workerVars, readerVars, countVars
  <2>2. ASSUME NEW v \in Workers
        PROVE  /\ \A m \in Metrics : Owed(v, m)' = Owed(v, m)
               /\ \A a, b \in Metrics : Ahead(v, a, b)' = Ahead(v, a, b)
    BY <2>1, OwedElsewhere
  <2>3. (Conserved /\ Law("emptyResults", "zero")
           /\ Law("cacheMisses", "cacheAdmissions") /\ Behind)'
    BY <2>1, <2>2, SameBooks
  <2> QED BY <2>1, <2>3 DEF Books, Lawful
<1>3. CASE Next
  BY <1>1, <1>3, CountBooks, AcquireBooks, ForgetBooks, SearchBooks, CloseBooks,
     FlushBooks, ResetBooks, PutBooks, LoadBooks DEF Next
<1> QED BY <1>2, <1>3

LEMMA AlwaysBooks == Spec => [](IInv /\ Books)
BY InitIInv, InvInductive, InitBooks, BooksInductive, PTL DEF Spec

(* Local.Close adds every counter of its Local exactly once, and resetLocal *)
(* zeroes only what was added: no search through a sampled Local is lost or *)
(* counted twice, however Closes interleave.                               *)
THEOREM ConservedHolds == Spec => []Conserved
<1>1. Books => Conserved
  BY DEF Books
<1> QED BY <1>1, AlwaysBooks, PTL

(* flushInspectorMetrics adds a total before its part: the Inspector never *)
(* shows a part larger than its total, half-way through any Closes.        *)
THEOREM CountersLawfulHolds == Spec => []CountersLawful
<1>1. IInv /\ Books => CountersLawful
  <2> SUFFICES ASSUME IInv, Books PROVE CountersLawful
    OBVIOUS
  <2>1. {"cacheMisses", "cacheAdmissions", "emptyResults", "zero"} \subseteq Metrics
    BY DEF Metrics
  <2>2. ASSUME NEW a \in Metrics, NEW b \in Metrics, Law(a, b) PROVE shared[b] =< shared[a]
    <3>1. Aheads(a, b) \in [Workers -> Nat]
      BY OwedType DEF OwedTyped, Aheads
    <3>2. SumFunction(Aheads(a, b)) \in Nat
      BY <3>1, SumNatural
    <3>3. shared[a] \in Nat /\ shared[b] \in Nat
      BY DEF IInv, TypeOK, Counts
    <3> QED BY <2>2, <3>2, <3>3 DEF Law
  <2> QED BY <2>1, <2>2 DEF CountersLawful, Lawful, Books
<1> QED BY <1>1, AlwaysBooks, PTL

(* Inspector.Snapshot loads counters that only grow: no snapshot shows less *)
(* than the one before it.                                                 *)
THEOREM SnapshotsMonotonicHolds == Spec => SnapshotsMonotonic
<1>1. IInv /\ Books /\ [Next]_vars => [\A m \in Metrics : latest[m] <= latest'[m]]_latest
  <2> SUFFICES ASSUME IInv, Books, [Next]_vars
               PROVE  latest' = latest \/ \A m \in Metrics : latest[m] <= latest'[m]
    OBVIOUS
  <2>1. latest' = latest \/ (Load /\ latest' = snapshot')
    <3>1. CASE Next
      BY <3>1 DEF Next, Count, Acquire, Search, Close, Flush, Reset, Put, Forget, Load, readerVars
    <3>2. CASE UNCHANGED vars
      BY <3>2 DEF vars, readerVars
    <3> QED BY <3>1, <3>2
  <2>2. ASSUME Load, latest' = snapshot', NEW m \in Metrics PROVE latest[m] <= latest'[m]
    <3>1. latest[m] =< snapshot[m] /\ snapshot[m] =< shared[m]
      BY DEF Books, Behind
    <3>2. snapshot'[m] = shared[m] \/ snapshot'[m] = snapshot[m]
      BY <2>2 DEF Load, IInv, TypeOK, Counts
    <3>3. latest[m] \in Nat /\ snapshot[m] \in Nat /\ shared[m] \in Nat
      BY DEF IInv, TypeOK, Counts
    <3> QED BY <2>2, <3>1, <3>2, <3>3
  <2> QED BY <2>1, <2>2
<1> QED BY <1>1, AlwaysBooks, PTL DEF Spec, SnapshotsMonotonic
==============================================================================
