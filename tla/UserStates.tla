----------------------------- MODULE UserStates -----------------------------
(***************************************************************************)
(* How one ingester keeps the series of a user (src/ingester/user_state.go,*)
(* mapper.go, index.go, locker.go, series_map.go and the calls of          *)
(* ingester.go and ingester_flush.go that use them).                       *)
(*                                                                         *)
(* Clients push and query, flushes remove series and gc() removes the      *)
(* state of a user without series, all at once. A step is what runs under  *)
(* one acquisition of a mutex. What a series holds is a set of samples;    *)
(* IngesterFlush has its chunks.                                           *)
(***************************************************************************)
EXTENDS Integers, Sequences, FiniteSets

CONSTANTS
  Pushers,              \* the goroutines of Push
  Flushers,             \* the flushLoop goroutines
  Metrics,
  MetricName,           \* metric -> its name
  Pairs,                \* metric -> its labels, the name among them: <<label, value>>
  FastFingerprint,      \* metric -> raw fingerprint
  MaxMappedFP,          \* maxMappedFP: up to it, fingerprints are for mapping
  Mutex,                \* fingerprint -> the mutex that fingerprintLocker takes
  Wanted,               \* the equality matchers of a query: a set of pairs
  Limits,               \* the values of MaxSeriesPerUser to try
  MaxSeriesPerMetric,
  Offered,              \* the samples pushed, in order: for each, the metrics it may have
  MaxQueries            \* bound on the queries

ASSUME UserStatesAssumption ==
  /\ IsFiniteSet(Pushers) /\ IsFiniteSet(Flushers) /\ Wanted # {}
  /\ FastFingerprint \in [Metrics -> Nat] /\ MaxMappedFP \in Nat
  /\ Limits \subseteq Nat \ {0} /\ MaxSeriesPerMetric \in Nat \ {0}
  /\ Offered \in Seq(SUBSET Metrics) /\ MaxQueries \in Nat

VARIABLES
  MaxSeriesPerUser,  \* as configured
  states,    \* us.states for the user: 0, or the number of its userState
  heap,      \* the userState objects, those removed and still used too
  rwmutex,   \* us.mtx: [readers, writer]
  fpLocker,  \* the locks held: <<state, mutex>>
  pusher,    \* p -> [pc, sample, metric, state, fp]
  pushes,    \* the number of samples pushed
  flusher,   \* f -> [pc, state, fp, taken]
  query,     \* [pc, state, fps, result, before]
  queries,
  owed       \* the samples accepted, <<number, metric>>, and not yet in the chunk store

vars ==
  <<MaxSeriesPerUser, states, heap, rwmutex, fpLocker, pusher, pushes, flusher, query, queries, owed>>

Empty == << >>
NewState == [fpToSeries |-> Empty, index |-> Empty, seriesInMetric |-> Empty,
             mappings |-> Empty, highestMappedFP |-> 0]

(* As many objects as can be in use at a time.                             *)
Objects == 1..(Cardinality(Pushers) + Cardinality(Flushers) + 2)

NoPush == [pc |-> "idle", sample |-> 0, metric |-> "none", state |-> 0, fp |-> 0]
NoFlush == [pc |-> "idle", state |-> 0, fp |-> 0, taken |-> {}]
NoQuery == [pc |-> "idle", state |-> 0, fps |-> {}, result |-> {}, before |-> {}]

Init ==
  /\ MaxSeriesPerUser \in Limits
  /\ states = 0 /\ heap = [s \in Objects |-> NewState]
  /\ rwmutex = [readers |-> {}, writer |-> {}] /\ fpLocker = {}
  /\ pusher = [p \in Pushers |-> NoPush] /\ pushes = 0
  /\ flusher = [f \in Flushers |-> NoFlush]
  /\ query = NoQuery /\ queries = 0
  /\ owed = {}

(* A function with one more, or one other, value; and with one less.       *)
With(f, k, x) == [j \in DOMAIN f \cup {k} |-> IF j = k THEN x ELSE f[j]]
Without(f, k) == [j \in DOMAIN f \ {k} |-> f[j]]
ValueAt(f, k, default) == IF k \in DOMAIN f THEN f[k] ELSE default

-----------------------------------------------------------------------------
(* fpMapper, with the raw fingerprint locked. A metric stands for its      *)
(* unique string.                                                          *)

(* The mappings of the raw fingerprint of a metric.                        *)
Mapped(u, m) == ValueAt(u.mappings, FastFingerprint[m], Empty)

(* A fingerprint that is reserved, or that another metric has.             *)
Collides(u, m) ==
  LET raw == FastFingerprint[m]
  IN raw <= MaxMappedFP \/ (raw \in DOMAIN u.fpToSeries /\ u.fpToSeries[raw].metric # m)

(* Mutant: a mapping is looked for only when there is a collision now.     *)
mapFPMutant(u, m) ==
  IF Collides(u, m) THEN ValueAt(Mapped(u, m), m, u.highestMappedFP + 1) ELSE FastFingerprint[m]

(* mapFP and maybeAddMapping: the fingerprint to use.                      *)
mapFP(u, m) ==
  LET raw == FastFingerprint[m]
  IN IF Collides(u, m) THEN ValueAt(Mapped(u, m), m, u.highestMappedFP + 1)
     ELSE IF raw \in DOMAIN u.fpToSeries THEN raw
     ELSE ValueAt(Mapped(u, m), m, raw)

(* The state after maybeAddMapping and nextMappedFP.                       *)
addMapping(u, m) ==
  LET fp == u.highestMappedFP + 1
  IN IF Collides(u, m) /\ m \notin DOMAIN Mapped(u, m)
     THEN [u EXCEPT !.highestMappedFP = fp,
                    !.mappings = With(@, FastFingerprint[m], With(Mapped(u, m), m, fp))]
     ELSE u

-----------------------------------------------------------------------------
(* invertedIndex: label and value -> the sorted fingerprints.              *)

(* sort.Search: the first fingerprint that is not smaller.                 *)
search(fps, fp) == Cardinality({j \in DOMAIN fps : fps[j] < fp}) + 1

(* fps[:i], then "in", then what follows the n elements at i.              *)
Around(fps, i, n, in) == SubSeq(fps, 1, i - 1) \o in \o SubSeq(fps, i + n, Len(fps))

add(idx, m, fp) ==
  [l \in DOMAIN idx \cup Pairs[m] |->
     LET fps == ValueAt(idx, l, << >>)
     IN IF l \in Pairs[m] THEN Around(fps, search(fps, fp), 0, <<fp>>) ELSE fps]

(* delete removes what the search finds, which is fp if fp is there.       *)
delete(idx, m, fp) ==
  LET Left(l) == IF l \in Pairs[m] THEN Around(idx[l], search(idx[l], fp), 1, << >>) ELSE idx[l]
  IN [l \in {k \in DOMAIN idx : Left(k) # << >>} |-> Left(l)]

ToSet(fps) == {fps[j] : j \in DOMAIN fps}

(* What the matchers have in common: intersect, for each of them. The      *)
(* lists are sorted, so that the result is the set, in order.              *)
lookup(idx) ==
  LET Found(l) == ToSet(ValueAt(idx, l, << >>))
  IN {fp \in UNION {Found(l) : l \in Wanted} : \A l \in Wanted : fp \in Found(l)}

-----------------------------------------------------------------------------
(* Locks. *)
Free(s, fp) == <<s, Mutex[fp]>> \notin fpLocker
Holding(s, fp) == fpLocker \cup {<<s, Mutex[fp]>>}
Releasing(s, fp) == fpLocker \ {<<s, Mutex[fp]>>}
Done(p) == [readers |-> rwmutex.readers \ {p}, writer |-> rwmutex.writer \ {p}]

At(p, pc) == pusher[p].pc = pc
State(p) == heap[pusher[p].state]
Goes(p, pc) == pusher' = [pusher EXCEPT ![p].pc = pc]
Returns(p) == pusher' = [pusher EXCEPT ![p] = NoPush]
Sample(p) == <<pusher[p].sample, pusher[p].metric>>
Sets(s, u) == heap' = [heap EXCEPT ![s] = u]
(* Mutant: the fingerprint stays locked.                                   *)
RefusedMutant(p) == Returns(p) /\ rwmutex' = Done(p) /\ UNCHANGED <<heap, fpLocker>>

(* The call fails: the locks are given up.                                 *)
Refused(p) ==
  /\ Returns(p)
  /\ rwmutex' = Done(p)
  /\ fpLocker' = Releasing(pusher[p].state, pusher[p].fp)
  /\ UNCHANGED heap

-----------------------------------------------------------------------------
(* Push: getOrCreateSeries, unlockedGet and the end of append.             *)

(* The state is looked up with us.mtx read-locked.                         *)
getOrCreateSeries(p, m) ==
  /\ At(p, "idle") /\ rwmutex.writer = {}
  /\ pushes < Len(Offered) /\ m \in Offered[pushes + 1] /\ pushes' = pushes + 1
  /\ IF states # 0
     THEN /\ rwmutex' = [rwmutex EXCEPT !.readers = @ \cup {p}]
          /\ pusher' = [pusher EXCEPT ![p] = [pc |-> "raw", sample |-> pushes', metric |-> m, state |-> states,
                                              fp |-> FastFingerprint[m]]]
     ELSE /\ pusher' = [pusher EXCEPT ![p] = [pc |-> "create", sample |-> pushes', metric |-> m, state |-> 0,
                                              fp |-> FastFingerprint[m]]]
          /\ UNCHANGED rwmutex
  /\ UNCHANGED <<states, heap, fpLocker, flusher, query, queries, owed>>

(* An object nobody uses. *)
New ==
  CHOOSE s \in Objects : \A x \in {query} \cup {pusher[p] : p \in Pushers} \cup {flusher[f] : f \in Flushers} :
    x.state # s

(* The states after unlockedGetOrCreate, with us.mtx locked. *)
unlockedGetOrCreate ==
  /\ rwmutex.writer = {} /\ rwmutex.readers = {}
  /\ IF states # 0 THEN UNCHANGED <<states, heap>>
     ELSE states' = New /\ heap' = [heap EXCEPT ![New] = NewState]

createState(p) ==
  /\ At(p, "create") /\ unlockedGetOrCreate
  /\ rwmutex' = [rwmutex EXCEPT !.writer = {p}]
  /\ pusher' = [pusher EXCEPT ![p].pc = "raw", ![p].state = states']
  /\ UNCHANGED <<fpLocker, flusher, query, queries, owed, pushes>>

(* With the raw fingerprint locked, the one to use; if that is another,    *)
(* the raw one is unlocked before the other is locked. When all the        *)
(* reserved fingerprints are in use, nextMappedFP panics: no step.         *)
lockRaw(p) ==
  LET s == pusher[p].state
      m == pusher[p].metric
      raw == FastFingerprint[m]
      fp == mapFP(State(p), m)
      u == addMapping(State(p), m)
  IN /\ At(p, "raw") /\ Free(s, raw)
     /\ u.highestMappedFP <= MaxMappedFP
     /\ Sets(s, u)
     /\ pusher' = [pusher EXCEPT ![p].pc = IF fp = raw THEN "get" ELSE "fp", ![p].fp = fp]
     /\ fpLocker' = IF fp = raw THEN Holding(s, fp) ELSE fpLocker
     /\ UNCHANGED <<states, rwmutex, flusher, query, queries, owed, pushes>>

lockFP(p) ==
  /\ At(p, "fp") /\ Free(pusher[p].state, pusher[p].fp)
  /\ fpLocker' = Holding(pusher[p].state, pusher[p].fp)
  /\ Goes(p, "get")
  /\ UNCHANGED <<states, heap, rwmutex, flusher, query, queries, owed, pushes>>

(* Mutant: the limit is one too high.                                      *)
unlockedGetMutant(p) ==
  LET all == DOMAIN State(p).fpToSeries
  IN /\ At(p, "get")
     /\ \/ /\ pusher[p].fp \in all
           /\ Goes(p, "append") /\ rwmutex' = Done(p) /\ UNCHANGED <<heap, fpLocker>>
        \/ /\ pusher[p].fp \notin all /\ Cardinality(all) > MaxSeriesPerUser
           /\ Refused(p)
        \/ /\ pusher[p].fp \notin all /\ Cardinality(all) <= MaxSeriesPerUser
           /\ Goes(p, "metric") /\ UNCHANGED <<heap, rwmutex, fpLocker>>
     /\ UNCHANGED <<states, flusher, query, queries, owed, pushes>>

(* The series is there, or there are too many, or it is to be added.       *)
unlockedGet(p) ==
  LET all == DOMAIN State(p).fpToSeries
  IN /\ At(p, "get")
     /\ \/ /\ pusher[p].fp \in all
           /\ Goes(p, "append") /\ rwmutex' = Done(p) /\ UNCHANGED <<heap, fpLocker>>
        \/ /\ pusher[p].fp \notin all /\ Cardinality(all) >= MaxSeriesPerUser
           /\ Refused(p)
        \/ /\ pusher[p].fp \notin all /\ Cardinality(all) < MaxSeriesPerUser
           /\ Goes(p, "metric") /\ UNCHANGED <<heap, rwmutex, fpLocker>>
     /\ UNCHANGED <<states, flusher, query, queries, owed, pushes>>

canAddSeriesFor(p) ==
  LET name == MetricName[pusher[p].metric]
      n == ValueAt(State(p).seriesInMetric, name, 0)
  IN /\ At(p, "metric")
     /\ \/ n >= MaxSeriesPerMetric /\ Refused(p)
        \/ /\ n < MaxSeriesPerMetric
           /\ Sets(pusher[p].state, [State(p) EXCEPT !.seriesInMetric = With(@, name, n + 1)])
           /\ Goes(p, "put")
           /\ UNCHANGED <<rwmutex, fpLocker>>
     /\ UNCHANGED <<states, flusher, query, queries, owed, pushes>>

putSeries(p) ==
  /\ At(p, "put")
  /\ Sets(pusher[p].state,
          [State(p) EXCEPT !.fpToSeries =
             With(@, pusher[p].fp, [metric |-> pusher[p].metric, samples |-> {}])])
  /\ Goes(p, "index")
  /\ UNCHANGED <<states, rwmutex, fpLocker, flusher, query, queries, owed, pushes>>

(* The series is indexed, and us.mtx unlocked.                             *)
indexSeries(p) ==
  /\ At(p, "index")
  /\ Sets(pusher[p].state, [State(p) EXCEPT !.index = add(@, pusher[p].metric, pusher[p].fp)])
  /\ Goes(p, "append")
  /\ rwmutex' = Done(p)
  /\ UNCHANGED <<states, fpLocker, flusher, query, queries, owed, pushes>>

append(p) ==
  LET s == pusher[p].state
      fp == pusher[p].fp
  IN /\ At(p, "append")
     /\ Sets(s, [State(p) EXCEPT !.fpToSeries[fp].samples = @ \cup {Sample(p)}])
     /\ owed' = owed \cup {Sample(p)}
     /\ Returns(p)
     /\ fpLocker' = Releasing(s, fp)
     /\ UNCHANGED <<states, rwmutex, flusher, query, queries, pushes>>

-----------------------------------------------------------------------------
(* flushUserSeries, and removeSeries at its end.                           *)

FlushAt(f, pc) == flusher[f].pc = pc
Flushes(f, pc) == flusher' = [flusher EXCEPT ![f].pc = pc]
Flushed(f) == heap[flusher[f].state]

(* A queued series, found without its lock. A series is in one queue only. *)
flushUserSeries(f, fp) ==
  /\ FlushAt(f, "idle") /\ states # 0 /\ fp \in DOMAIN heap[states].fpToSeries
  /\ rwmutex.writer = {}
  /\ \A g \in Flushers : FlushAt(g, "idle") \/ flusher[g].fp # fp
  /\ flusher' = [flusher EXCEPT ![f] = [pc |-> "take", state |-> states, fp |-> fp, taken |-> {}]]
  /\ UNCHANGED <<states, heap, rwmutex, fpLocker, pusher, query, queries, owed, pushes>>

takeChunks(f) ==
  LET fp == flusher[f].fp
      taken == Flushed(f).fpToSeries[fp].samples
  IN /\ FlushAt(f, "take") /\ Free(flusher[f].state, fp)
     /\ flusher' = [flusher EXCEPT ![f] = IF taken = {} THEN NoFlush
                                          ELSE [@ EXCEPT !.pc = "store", !.taken = taken]]
     /\ UNCHANGED <<states, heap, rwmutex, fpLocker, pusher, query, queries, owed, pushes>>

(* The store takes the chunks or refuses them. *)
flushChunks(f) ==
  /\ FlushAt(f, "store")
  /\ \/ owed' = owed \ flusher[f].taken /\ Flushes(f, "drop")
     \/ flusher' = [flusher EXCEPT ![f] = NoFlush] /\ UNCHANGED owed
  /\ UNCHANGED <<states, heap, rwmutex, fpLocker, pusher, query, queries, pushes>>

(* Mutant: the series is removed though samples came in.                   *)
dropChunksMutant(f) ==
  LET fp == flusher[f].fp
  IN /\ FlushAt(f, "drop") /\ Free(flusher[f].state, fp)
     /\ Flushes(f, "del") /\ fpLocker' = Holding(flusher[f].state, fp)
     /\ UNCHANGED <<states, heap, rwmutex, pusher, query, queries, owed, pushes>>

(* With the lock again: what was stored goes, and an empty series too.     *)
dropChunks(f) ==
  LET fp == flusher[f].fp
      left == Flushed(f).fpToSeries[fp].samples \ flusher[f].taken
  IN /\ FlushAt(f, "drop") /\ Free(flusher[f].state, fp)
     /\ Sets(flusher[f].state, [Flushed(f) EXCEPT !.fpToSeries[fp].samples = left])
     /\ IF left = {}
        THEN Flushes(f, "del") /\ fpLocker' = Holding(flusher[f].state, fp)
        ELSE flusher' = [flusher EXCEPT ![f] = NoFlush] /\ UNCHANGED fpLocker
     /\ UNCHANGED <<states, rwmutex, pusher, query, queries, owed, pushes>>

(* The three parts of removeSeries, under the lock of the fingerprint. The *)
(* metric is kept by the pointer to the series: here, in "taken".          *)
delSeries(f) ==
  LET fp == flusher[f].fp
  IN /\ FlushAt(f, "del")
     /\ Sets(flusher[f].state, [Flushed(f) EXCEPT !.fpToSeries = Without(@, fp)])
     /\ flusher' = [flusher EXCEPT ![f].pc = "unindex", ![f].taken = {Flushed(f).fpToSeries[fp].metric}]
     /\ UNCHANGED <<states, rwmutex, fpLocker, pusher, query, queries, owed, pushes>>

Removed(f) == CHOOSE m \in flusher[f].taken : TRUE

unindexSeries(f) ==
  /\ FlushAt(f, "unindex")
  /\ Sets(flusher[f].state, [Flushed(f) EXCEPT !.index = delete(@, Removed(f), flusher[f].fp)])
  /\ Flushes(f, "uncount")
  /\ UNCHANGED <<states, rwmutex, fpLocker, pusher, query, queries, owed, pushes>>

(* Mutant: the count of a metric is forgotten with its first series.       *)
uncountSeriesMutant(f) ==
  LET name == MetricName[Removed(f)]
  IN /\ FlushAt(f, "uncount")
     /\ Sets(flusher[f].state, [Flushed(f) EXCEPT !.seriesInMetric = Without(@, name)])
     /\ flusher' = [flusher EXCEPT ![f] = NoFlush]
     /\ fpLocker' = Releasing(flusher[f].state, flusher[f].fp)
     /\ UNCHANGED <<states, rwmutex, pusher, query, queries, owed, pushes>>

uncountSeries(f) ==
  LET name == MetricName[Removed(f)]
      n == Flushed(f).seriesInMetric[name] - 1
  IN /\ FlushAt(f, "uncount")
     /\ Sets(flusher[f].state, [Flushed(f) EXCEPT !.seriesInMetric =
                                  IF n = 0 THEN Without(@, name) ELSE With(@, name, n)])
     /\ flusher' = [flusher EXCEPT ![f] = NoFlush]
     /\ fpLocker' = Releasing(flusher[f].state, flusher[f].fp)
     /\ UNCHANGED <<states, rwmutex, pusher, query, queries, owed, pushes>>

-----------------------------------------------------------------------------
(* Mutant: a state is removed without a look at its series.                *)
gcMutant ==
  /\ states # 0 /\ rwmutex.writer = {} /\ rwmutex.readers = {}
  /\ states' = 0
  /\ UNCHANGED <<heap, rwmutex, fpLocker, pusher, flusher, query, queries, owed, pushes>>

(* Nobody maps fingerprints by a removed state any more.                   *)
gc ==
  /\ states # 0 /\ rwmutex.writer = {} /\ rwmutex.readers = {}
  /\ heap[states].fpToSeries = Empty
  /\ states' = 0
  /\ Sets(states, [heap[states] EXCEPT !.mappings = Empty, !.highestMappedFP = 0])
  /\ UNCHANGED <<rwmutex, fpLocker, pusher, flusher, query, queries, owed, pushes>>

-----------------------------------------------------------------------------
(* query: getOrCreate, the lookup of the index, and the series one by one. *)

Matching(m) == Wanted \subseteq Pairs[m]

(* getOrCreate, with us.mtx read-locked or, to make a state, locked.       *)
getOrCreate ==
  /\ query.pc = "idle" /\ queries < MaxQueries
  /\ \/ states # 0 /\ rwmutex.writer = {} /\ UNCHANGED <<states, heap>>
     \/ states = 0 /\ unlockedGetOrCreate
  /\ queries' = queries + 1
  /\ query' = [NoQuery EXCEPT !.pc = "lookup", !.state = states',
                              !.before = {x \in owed : Matching(x[2])}]
  /\ UNCHANGED <<rwmutex, fpLocker, pusher, flusher, owed, pushes>>

lookupSeries ==
  /\ query.pc = "lookup"
  /\ query' = [query EXCEPT !.pc = "series", !.fps = lookup(heap[query.state].index)]
  /\ UNCHANGED <<states, heap, rwmutex, fpLocker, pusher, flusher, queries, owed, pushes>>

(* A turn of forSeriesMatching, with the first fingerprint left.           *)
forSeriesMatching ==
  LET fp == CHOOSE x \in query.fps : \A y \in query.fps : x <= y
      series == heap[query.state].fpToSeries
  IN /\ query.pc = "series" /\ query.fps # {} /\ Free(query.state, fp)
     /\ query' = [query EXCEPT !.fps = @ \ {fp},
                               !.result = @ \cup (IF fp \in DOMAIN series THEN series[fp].samples ELSE {})]
     /\ UNCHANGED <<states, heap, rwmutex, fpLocker, pusher, flusher, queries, owed, pushes>>

queryReturns ==
  /\ query.pc = "series" /\ query.fps = {}
  /\ query' = NoQuery
  /\ UNCHANGED <<states, heap, rwmutex, fpLocker, pusher, flusher, queries, owed, pushes>>

-----------------------------------------------------------------------------
Push(p) ==
  \/ createState(p) \/ lockRaw(p) \/ lockFP(p) \/ unlockedGet(p)
  \/ canAddSeriesFor(p) \/ putSeries(p) \/ indexSeries(p) \/ append(p)
Flush(f) ==
  \/ takeChunks(f) \/ flushChunks(f) \/ dropChunks(f)
  \/ delSeries(f) \/ unindexSeries(f) \/ uncountSeries(f)
Query == lookupSeries \/ forSeriesMatching \/ queryReturns

Step ==
  \/ \E p \in Pushers : Push(p) \/ \E m \in Metrics : getOrCreateSeries(p, m)
  \/ \E f \in Flushers : Flush(f) \/ \E fp \in DOMAIN Mutex : flushUserSeries(f, fp)
  \/ gc
  \/ getOrCreate \/ Query

Next == Step /\ UNCHANGED MaxSeriesPerUser

Spec == Init /\ [][Next]_vars
-----------------------------------------------------------------------------
Series(s) == heap[s].fpToSeries

(* TypeOK: the variables have the values the code gives them.              *)
TypeOK ==
  /\ states \in Objects \cup {0}
  /\ rwmutex.readers \subseteq Pushers /\ rwmutex.writer \subseteq Pushers
  /\ rwmutex.readers = {} \/ rwmutex.writer = {}
  /\ \A l \in fpLocker : l[1] \in Objects
  /\ \A p \in Pushers :
       pusher[p].pc \in {"idle", "create", "raw", "fp", "get", "metric", "put", "index", "append"}
  /\ \A f \in Flushers :
       flusher[f].pc \in {"idle", "take", "store", "drop", "del", "unindex", "uncount"}
  /\ owed \subseteq (1..Len(Offered)) \X Metrics
  /\ pushes \in 0..Len(Offered) /\ queries \in 0..MaxQueries

(* UniqueSeries: a metric has one series, though fingerprints collide,     *)
(* collisions come and go with the series, and the raw fingerprint is      *)
(* unlocked before the mapped one is locked (mapper.go, unlockedGet).      *)
UniqueSeries ==
  \A s \in Objects : \A fp, gp \in DOMAIN Series(s) :
    Series(s)[fp].metric = Series(s)[gp].metric => fp = gp

(* StateAgrees: the types, and the three records of which series exist     *)
(* agree. The index has every series under each of its labels, once and in *)
(* order, but for those a Push or a flush is just working on; so delete,   *)
(* which removes what its search finds, removes the right one.             *)
(* seriesInMetric is the number of series of a metric and of those on      *)
(* their way in or out, and is never over the limit.                       *)
Working(s) ==
  {pusher[p].fp : p \in {q \in Pushers : At(q, "index") /\ pusher[q].state = s}} \cup
  {flusher[f].fp : f \in {g \in Flushers : FlushAt(g, "unindex") /\ flusher[g].state = s}}
IndexAgrees(s) ==
  LET idx == heap[s].index
      Under(l) == {fp \in DOMAIN Series(s) : l \in Pairs[Series(s)[fp].metric]}
      working == Working(s)
  IN /\ \A l \in DOMAIN idx : \A i \in 1..(Len(idx[l]) - 1) : idx[l][i] < idx[l][i + 1]
     /\ \A l \in UNION {Pairs[m] : m \in Metrics} :
          ToSet(ValueAt(idx, l, << >>)) \ working = Under(l) \ working
CountAgrees(s, name) ==
  LET n == ValueAt(heap[s].seriesInMetric, name, 0)
      here == {fp \in DOMAIN Series(s) : MetricName[Series(s)[fp].metric] = name}
      coming == {p \in Pushers : At(p, "put") /\ pusher[p].state = s /\ MetricName[pusher[p].metric] = name}
      going == {f \in Flushers : /\ flusher[f].pc \in {"unindex", "uncount"}
                                 /\ flusher[f].state = s /\ MetricName[Removed(f)] = name}
  IN n = Cardinality(here) + Cardinality(coming) + Cardinality(going) /\ n <= MaxSeriesPerMetric
StateAgrees ==
  /\ TypeOK
  /\ \A s \in Objects : IndexAgrees(s) /\ \A name \in {MetricName[m] : m \in Metrics} : CountAgrees(s, name)

(* SeriesLimit: the overshoot that the comment of unlockedGet calls        *)
(* minimal is at most one series for each other Push under way.            *)
SeriesLimit ==
  \A s \in Objects : Cardinality(DOMAIN Series(s)) <= MaxSeriesPerUser - 1 + Cardinality(Pushers)

(* AckedKept: a sample that was accepted is in the store or in the state   *)
(* that queries and flushes find: it was not added to a series or to a     *)
(* state that was removed meanwhile (append, removeSeries, gc).            *)
AckedKept ==
  \A x \in owed : states # 0 /\ \E fp \in DOMAIN Series(states) : x \in Series(states)[fp].samples

(* QueryComplete: a query returns each matching sample that was accepted   *)
(* before it began, unless a flush has stored it.                          *)
QueryComplete == query.pc = "series" /\ query.fps = {} => query.before \cap owed \subseteq query.result

(* NobodyStuck: a Push that waits waits for somebody who can go on: no     *)
(* lock is kept by a call that returned, and nobody waits for a lock of    *)
(* somebody who waits, although us.mtx is held while a fingerprint is      *)
(* locked and two fingerprints may share a mutex.                          *)
NobodyStuck ==
  (\E p \in Pushers : ~At(p, "idle")) =>
    ENABLED (\/ \E p \in Pushers : Push(p)
             \/ \E f \in Flushers : Flush(f)
             \/ Query)
====
