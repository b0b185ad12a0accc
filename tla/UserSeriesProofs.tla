-------------------------- MODULE UserSeriesProofs --------------------------
(***************************************************************************)
(* What each step of a Push, a flush, gc and a query does, field by field, *)
(* and that it keeps the locks, the mappings and the samples.              *)
(***************************************************************************)
EXTENDS UserInvariants, TLAPS

(* A leaf is a first-order one, unless it says that it needs arithmetic.   *)
USE ZenonT(30)

-----------------------------------------------------------------------------
(* What each step does, field by field. *)

Others(p) == \A q \in Pushers : q # p => pusher'[q] = pusher[q]
Moves(p, pc) ==
  /\ Others(p) /\ pusher'[p].pc = pc
  /\ pusher'[p].sample = pusher[p].sample /\ pusher'[p].metric = pusher[p].metric
  /\ pusher'[p].state = pusher[p].state /\ pusher'[p].fp = pusher[p].fp
Ends(p) == Others(p) /\ pusher'[p].pc = "idle"

OtherFlushers(f) == \A g \in Flushers : g # f => flusher'[g] = flusher[g]
FlushMoves(f, pc) ==
  /\ OtherFlushers(f) /\ flusher'[f].pc = pc
  /\ flusher'[f].state = flusher[f].state /\ flusher'[f].fp = flusher[f].fp
FlushEnds(f) == OtherFlushers(f) /\ flusher'[f].pc = "idle"

OtherStates(s) == \A t \in Objects : t # s => heap'[t] = heap[t]
SameMappings(s) ==
  heap'[s].mappings = heap[s].mappings /\ heap'[s].highestMappedFP = heap[s].highestMappedFP
SameSeries(s) == heap'[s].fpToSeries = heap[s].fpToSeries
SameIndex(s) == heap'[s].index = heap[s].index
SameCounts(s) == heap'[s].seriesInMetric = heap[s].seriesInMetric
(* The series but that of one fingerprint. *)
OtherSeries(s, fp) ==
  /\ DOMAIN heap'[s].fpToSeries \ {fp} = DOMAIN heap[s].fpToSeries \ {fp}
  /\ \A k \in DOMAIN heap[s].fpToSeries \ {fp} : heap'[s].fpToSeries[k] = heap[s].fpToSeries[k]

(* An object is not the 0 of a user without a state.                       *)
LEMMA NotZero == ASSUME NEW s \in Objects PROVE s # 0
BY SMTT(20) DEF Objects

(* A Push that goes on changes nothing but its place.                      *)
LEMMA GoesMoves ==
  ASSUME LimitInv, NEW p \in Pushers, NEW pc, Goes(p, pc)
  PROVE  Moves(p, pc)
<1>1. IsPush(pusher[p]) /\ pusher = [q \in Pushers |-> pusher[q]]
  BY DEF LimitInv, Shape
<1>2. pusher'[p] = [pusher[p] EXCEPT !.pc = pc] /\ Others(p)
  BY <1>1 DEF Goes, Others
<1> QED
  BY <1>1, <1>2 DEF Moves, IsPush, PushNames

(* A Push that returns is idle again.                                      *)
LEMMA ReturnsEnds ==
  ASSUME LimitInv, NEW p \in Pushers, Returns(p)
  PROVE  Ends(p) /\ pusher'[p] = NoPush
<1>1. pusher = [q \in Pushers |-> pusher[q]]
  BY DEF LimitInv, Shape
<1> QED
  BY <1>1 DEF Returns, Ends, Others, NoPush

(* A step on one userState leaves the others.                              *)
LEMMA SetsOne ==
  ASSUME LimitInv, NEW s \in Objects, NEW u, Sets(s, u)
  PROVE  OtherStates(s) /\ heap'[s] = u /\ IsState(heap[s])
BY DEF LimitInv, Shape, Sets, OtherStates

(* A Push that has a state has the one in us.states.                       *)
LEMMA EnteredState ==
  ASSUME ControlInv, NEW p \in Pushers, Entered(p)
  PROVE  pusher[p].state = states /\ states \in Objects /\ State(p) = heap[states] /\ IsState(heap[states])
BY DEF ControlInv, PushOK, Typed, TypeOK, State, LimitInv, Shape

(* maybeAddMapping changes the mappings only.                              *)
LEMMA AddMappingFields ==
  ASSUME NEW u, IsState(u), NEW m
  PROVE  /\ IsState(addMapping(u, m)) /\ addMapping(u, m).fpToSeries = u.fpToSeries
         /\ addMapping(u, m).index = u.index /\ addMapping(u, m).seriesInMetric = u.seriesInMetric
<1> DEFINE fp == u.highestMappedFP + 1
           w == With(u.mappings, FastFingerprint[m], With(Mapped(u, m), m, fp))
           v == [u EXCEPT !.highestMappedFP = fp, !.mappings = w]
<1>1. addMapping(u, m) = v \/ addMapping(u, m) = u
  BY DEF addMapping
<1> HIDE DEF fp, w
<1>2. IsState(v) /\ v.fpToSeries = u.fpToSeries /\ v.index = u.index /\ v.seriesInMetric = u.seriesInMetric
  BY DEF IsState, StateNames
<1> HIDE DEF v
<1> QED
  BY <1>1, <1>2

(* lockRaw: the mapping of the metric, and the fingerprint to lock.        *)
LEMMA LockRawDoes ==
  ASSUME ControlInv, NEW p \in Pushers, lockRaw(p)
  PROVE  LET fp == mapFP(heap[states], pusher[p].metric)
             raw == FastFingerprint[pusher[p].metric]
         IN /\ At(p, "raw") /\ states \in Objects /\ pusher[p].state = states
            /\ Others(p) /\ pusher'[p].pc = (IF fp = raw THEN "get" ELSE "fp")
            /\ pusher'[p].sample = pusher[p].sample /\ pusher'[p].metric = pusher[p].metric
            /\ pusher'[p].state = pusher[p].state /\ pusher'[p].fp = fp
            /\ OtherStates(states) /\ SameSeries(states) /\ SameIndex(states) /\ SameCounts(states)
            /\ heap'[states] = addMapping(heap[states], pusher[p].metric)
            /\ heap'[states].highestMappedFP <= MaxMappedFP
            /\ <<states, Mutex[raw]>> \notin fpLocker
            /\ fpLocker' = IF fp = raw THEN fpLocker \cup {<<states, Mutex[raw]>>} ELSE fpLocker
            /\ UNCHANGED <<states, rwmutex, flusher, query, queries, owed, pushes>>
<1> DEFINE m == pusher[p].metric
           fp == mapFP(heap[states], m)
           raw == FastFingerprint[m]
           u == addMapping(heap[states], m)
           pc == IF fp = raw THEN "get" ELSE "fp"
           x == [pusher[p] EXCEPT !.pc = pc, !.fp = fp]
<1>1. At(p, "raw") /\ Entered(p)
  BY DEF lockRaw, At, Entered
<1>2. pusher[p].state = states /\ states \in Objects /\ State(p) = heap[states] /\ IsState(heap[states])
  BY <1>1, EnteredState
<1>3. /\ Sets(states, u) /\ <<states, Mutex[raw]>> \notin fpLocker /\ u.highestMappedFP <= MaxMappedFP
      /\ fpLocker' = IF fp = raw THEN fpLocker \cup {<<states, Mutex[raw]>>} ELSE fpLocker
      /\ UNCHANGED <<states, rwmutex, flusher, query, queries, owed, pushes>>
  BY <1>2 DEF lockRaw, Free, Holding
<1>4. pusher' = [pusher EXCEPT ![p] = x]
  BY <1>2 DEF lockRaw, LimitInv, Shape, IsPush, PushNames, ControlInv
<1>5. IsPush(pusher[p]) /\ pusher = [q \in Pushers |-> pusher[q]] /\ LimitInv
  BY DEF ControlInv, LimitInv, Shape
<1> HIDE DEF fp, u, pc
<1>6. /\ Others(p) /\ pusher'[p].pc = pc
      /\ pusher'[p].sample = pusher[p].sample /\ pusher'[p].metric = pusher[p].metric
      /\ pusher'[p].state = pusher[p].state /\ pusher'[p].fp = fp
  BY <1>4, <1>5 DEF Others, IsPush, PushNames
<1>7. OtherStates(states) /\ heap'[states] = u
  BY <1>2, <1>3, <1>5, SetsOne
<1>8. SameSeries(states) /\ SameIndex(states) /\ SameCounts(states)
  BY <1>2, <1>7, AddMappingFields, SMTT(20) DEF u, SameSeries, SameIndex, SameCounts
<1> QED
  BY <1>1, <1>2, <1>3, <1>6, <1>7, <1>8 DEF fp, u, pc

(* A refused Push lets go of the locks it has.                             *)
LEMMA RefusedDoes ==
  ASSUME ControlInv, NEW p \in Pushers, Locks(p), Refused(p)
  PROVE  /\ states \in Objects /\ pusher[p].state = states /\ Ends(p) /\ heap' = heap
         /\ rwmutex' = Done(p) /\ fpLocker' = fpLocker \ {PushLock(p)}
<1>1. Entered(p) /\ LimitInv
  BY DEF Locks, Entered, ControlInv
<1> QED
  BY <1>1, EnteredState, ReturnsEnds DEF Refused, Releasing, PushLock

(* canAddSeriesFor: the count of the name, or the refusal.                 *)
LEMMA CanAddSeriesForDoes ==
  ASSUME ControlInv, NEW p \in Pushers, canAddSeriesFor(p), ~Refused(p)
  PROVE  LET name == MetricName[pusher[p].metric]
             n == ValueAt(heap[states].seriesInMetric, name, 0)
         IN /\ At(p, "metric") /\ states \in Objects /\ pusher[p].state = states /\ Moves(p, "put")
            /\ OtherStates(states) /\ SameSeries(states) /\ SameIndex(states) /\ SameMappings(states)
            /\ n < MaxSeriesPerMetric
            /\ heap'[states].seriesInMetric = With(heap[states].seriesInMetric, name, n + 1)
            /\ UNCHANGED <<rwmutex, fpLocker, states, flusher, query, queries, owed, pushes>>
<1> DEFINE name == MetricName[pusher[p].metric]
           n == ValueAt(heap[states].seriesInMetric, name, 0)
           c == With(heap[states].seriesInMetric, name, n + 1)
           u == [heap[states] EXCEPT !.seriesInMetric = c]
<1>1. At(p, "metric") /\ Entered(p) /\ LimitInv
  BY DEF canAddSeriesFor, At, Entered, ControlInv
<1>2. pusher[p].state = states /\ states \in Objects /\ State(p) = heap[states] /\ IsState(heap[states])
  BY <1>1, EnteredState
<1>3. /\ Sets(states, u) /\ Goes(p, "put") /\ n < MaxSeriesPerMetric
      /\ UNCHANGED <<rwmutex, fpLocker, states, flusher, query, queries, owed, pushes>>
  BY <1>2 DEF canAddSeriesFor
<1> HIDE DEF n, c
<1>4. OtherStates(states) /\ heap'[states] = u
  BY <1>1, <1>2, <1>3, SetsOne, SMTT(20)
<1>5. SameSeries(states) /\ SameIndex(states) /\ SameMappings(states) /\ heap'[states].seriesInMetric = c
  BY <1>2, <1>4 DEF SameSeries, SameIndex, SameMappings, IsState, StateNames
<1> QED
  BY <1>1, <1>2, <1>3, <1>4, <1>5, GoesMoves DEF n, c

(* putSeries: an empty series under the locked fingerprint.                *)
LEMMA PutSeriesDoes ==
  ASSUME ControlInv, NEW p \in Pushers, putSeries(p)
  PROVE  LET fp == pusher[p].fp
         IN /\ At(p, "put") /\ states \in Objects /\ pusher[p].state = states /\ Moves(p, "index")
            /\ OtherStates(states) /\ SameIndex(states) /\ SameMappings(states) /\ SameCounts(states)
            /\ OtherSeries(states, fp) /\ fp \in DOMAIN heap'[states].fpToSeries
            /\ heap'[states].fpToSeries[fp] = [metric |-> pusher[p].metric, samples |-> {}]
            /\ UNCHANGED <<rwmutex, fpLocker, states, flusher, query, queries, owed, pushes>>
<1> DEFINE fp == pusher[p].fp
           r == [metric |-> pusher[p].metric, samples |-> {}]
           c == With(heap[states].fpToSeries, fp, r)
           u == [heap[states] EXCEPT !.fpToSeries = c]
<1>1. At(p, "put") /\ Entered(p) /\ LimitInv
  BY DEF putSeries, At, Entered, ControlInv
<1>2. pusher[p].state = states /\ states \in Objects /\ State(p) = heap[states] /\ IsState(heap[states])
  BY <1>1, EnteredState
<1>3. /\ Sets(states, u) /\ Goes(p, "index")
      /\ UNCHANGED <<rwmutex, fpLocker, states, flusher, query, queries, owed, pushes>>
  BY <1>2 DEF putSeries
<1>a. /\ DOMAIN c \ {fp} = DOMAIN heap[states].fpToSeries \ {fp}
      /\ \A k \in DOMAIN heap[states].fpToSeries \ {fp} : c[k] = heap[states].fpToSeries[k]
      /\ fp \in DOMAIN c /\ c[fp] = r
  BY DEF With
<1> HIDE DEF c
<1>4. OtherStates(states) /\ heap'[states] = u
  BY <1>1, <1>2, <1>3, SetsOne, SMTT(20)
<1>5. SameIndex(states) /\ SameMappings(states) /\ SameCounts(states) /\ heap'[states].fpToSeries = c
  BY <1>2, <1>4 DEF SameIndex, SameMappings, SameCounts, IsState, StateNames
<1>6. Moves(p, "index")
  BY <1>1, <1>3, GoesMoves
<1> QED
  BY <1>1, <1>2, <1>3, <1>4, <1>5, <1>6, <1>a DEF OtherSeries

(* indexSeries: the labels of the new series.                              *)
LEMMA IndexSeriesDoes ==
  ASSUME ControlInv, NEW p \in Pushers, indexSeries(p)
  PROVE  /\ At(p, "index") /\ states \in Objects /\ pusher[p].state = states /\ Moves(p, "append")
         /\ OtherStates(states) /\ SameSeries(states) /\ SameMappings(states) /\ SameCounts(states)
         /\ heap'[states].index = add(heap[states].index, pusher[p].metric, pusher[p].fp)
         /\ rwmutex' = Done(p)
         /\ UNCHANGED <<fpLocker, states, flusher, query, queries, owed, pushes>>
<1> DEFINE c == add(heap[states].index, pusher[p].metric, pusher[p].fp)
           u == [heap[states] EXCEPT !.index = c]
<1>1. At(p, "index") /\ Entered(p) /\ LimitInv
  BY DEF indexSeries, At, Entered, ControlInv
<1>2. pusher[p].state = states /\ states \in Objects /\ State(p) = heap[states] /\ IsState(heap[states])
  BY <1>1, EnteredState
<1>3. /\ Sets(states, u) /\ Goes(p, "append") /\ rwmutex' = Done(p)
      /\ UNCHANGED <<fpLocker, states, flusher, query, queries, owed, pushes>>
  BY <1>2 DEF indexSeries
<1> HIDE DEF c
<1>4. OtherStates(states) /\ heap'[states] = u
  BY <1>1, <1>2, <1>3, SetsOne, SMTT(20)
<1>5. SameSeries(states) /\ SameMappings(states) /\ SameCounts(states) /\ heap'[states].index = c
  BY <1>2, <1>4 DEF SameSeries, SameMappings, SameCounts, IsState, StateNames
<1>6. Moves(p, "append")
  BY <1>1, <1>3, GoesMoves
<1> QED
  BY <1>1, <1>2, <1>3, <1>4, <1>5, <1>6 DEF c

(* Other samples in one series.                                            *)
LEMMA SamplesChange ==
  ASSUME ControlInv, NEW s \in Objects, NEW fp \in DOMAIN heap[s].fpToSeries, NEW y,
         Sets(s, [heap[s] EXCEPT !.fpToSeries[fp].samples = y])
  PROVE  /\ OtherStates(s) /\ SameIndex(s) /\ SameMappings(s) /\ SameCounts(s)
         /\ OtherSeries(s, fp) /\ fp \in DOMAIN heap'[s].fpToSeries
         /\ heap'[s].fpToSeries[fp] = [metric |-> heap[s].fpToSeries[fp].metric, samples |-> y]
<1> DEFINE r == heap[s].fpToSeries
           c == [r EXCEPT ![fp].samples = y]
           u == [heap[s] EXCEPT !.fpToSeries = c]
<1>1. LimitInv /\ Sets(s, u)
  BY DEF ControlInv
<1>2. r[fp] = [metric |-> r[fp].metric, samples |-> r[fp].samples]
  BY DEF ControlInv, StateOK, Series
<1>3. /\ DOMAIN c = DOMAIN r /\ c[fp] = [metric |-> r[fp].metric, samples |-> y]
      /\ \A k \in DOMAIN r : k # fp => c[k] = r[k]
  <2> HIDE DEF r
  <2> QED
    BY <1>2 DEF r
<1> HIDE DEF c
<1>4. OtherStates(s) /\ heap'[s] = u /\ IsState(heap[s])
  BY <1>1, SetsOne
<1>5. SameIndex(s) /\ SameMappings(s) /\ SameCounts(s) /\ heap'[s].fpToSeries = c
  BY <1>4 DEF SameIndex, SameMappings, SameCounts, IsState, StateNames
<1> QED
  BY <1>3, <1>4, <1>5 DEF OtherSeries

(* append: one more sample in the series found, and the locks are          *)
(* released.                                                               *)
LEMMA AppendDoes ==
  ASSUME ControlInv, NEW p \in Pushers, append(p)
  PROVE  LET fp == pusher[p].fp
         IN /\ At(p, "append") /\ states \in Objects /\ pusher[p].state = states /\ Ends(p)
            /\ fp \in DOMAIN heap[states].fpToSeries /\ heap[states].fpToSeries[fp].metric = pusher[p].metric
            /\ OtherStates(states) /\ SameIndex(states) /\ SameMappings(states) /\ SameCounts(states)
            /\ OtherSeries(states, fp) /\ fp \in DOMAIN heap'[states].fpToSeries
            /\ heap'[states].fpToSeries[fp] =
                 [metric |-> pusher[p].metric, samples |-> heap[states].fpToSeries[fp].samples \cup {Sample(p)}]
            /\ owed' = owed \cup {Sample(p)} /\ fpLocker' = fpLocker \ {PushLock(p)}
            /\ UNCHANGED <<rwmutex, states, flusher, query, queries, pushes>>
<1> DEFINE fp == pusher[p].fp
           y == heap[states].fpToSeries[fp].samples \cup {Sample(p)}
<1>1. At(p, "append") /\ Entered(p) /\ Locks(p) /\ LimitInv
  BY DEF append, At, Entered, Locks, ControlInv
<1>2. pusher[p].state = states /\ states \in Objects /\ State(p) = heap[states] /\ IsState(heap[states])
  BY <1>1, EnteredState
<1>3. fp \in DOMAIN heap[states].fpToSeries /\ heap[states].fpToSeries[fp].metric = pusher[p].metric
  BY <1>1 DEF ControlInv, PushOK, Series, At
<1>4. /\ Sets(states, [heap[states] EXCEPT !.fpToSeries[fp].samples = y])
      /\ Ends(p) /\ owed' = owed \cup {Sample(p)} /\ fpLocker' = fpLocker \ {PushLock(p)}
      /\ UNCHANGED <<rwmutex, states, flusher, query, queries, pushes>>
  BY <1>1, <1>2, ReturnsEnds DEF append, Releasing, PushLock
<1> HIDE DEF y
<1>5. /\ OtherStates(states) /\ SameIndex(states) /\ SameMappings(states) /\ SameCounts(states)
      /\ OtherSeries(states, fp) /\ fp \in DOMAIN heap'[states].fpToSeries
      /\ heap'[states].fpToSeries[fp] = [metric |-> heap[states].fpToSeries[fp].metric, samples |-> y]
  BY <1>2, <1>3, <1>4, SamplesChange
<1>6. heap'[states].fpToSeries[fp] =
        [metric |-> pusher[p].metric, samples |-> heap[states].fpToSeries[fp].samples \cup {Sample(p)}]
  BY <1>3, <1>5 DEF y
<1> QED
  BY <1>1, <1>2, <1>3, <1>4, <1>5, <1>6

-----------------------------------------------------------------------------
(* The steps of a flush. *)

(* A flush that goes on changes nothing but its place.                     *)
LEMMA FlushesMoves ==
  ASSUME ControlInv, NEW f \in Flushers, NEW pc, Flushes(f, pc)
  PROVE  FlushMoves(f, pc) /\ flusher'[f].taken = flusher[f].taken
<1>1. IsFlush(flusher[f]) /\ flusher = [g \in Flushers |-> flusher[g]]
  BY DEF ControlInv, Typed
<1>2. flusher'[f] = [flusher[f] EXCEPT !.pc = pc] /\ OtherFlushers(f)
  BY <1>1, SMTT(20) DEF Flushes, OtherFlushers
<1> QED
  BY <1>1, <1>2 DEF FlushMoves, IsFlush, FlushNames

(* A flush that ends is idle again, and releases its lock.                 *)
LEMMA FlushDone ==
  ASSUME ControlInv, NEW f \in Flushers, flusher' = [flusher EXCEPT ![f] = NoFlush]
  PROVE  FlushEnds(f) /\ flusher'[f] = NoFlush
<1>1. flusher = [g \in Flushers |-> flusher[g]]
  BY DEF ControlInv, Typed
<1> QED
  BY <1>1 DEF FlushEnds, OtherFlushers, NoFlush

(* The flusher's state, before and after the series is removed.            *)
LEMMA FlushingState ==
  ASSUME ControlInv, NEW f \in Flushers
  PROVE  /\ Flushing(f) => /\ flusher[f].state = states /\ states \in Objects /\ Flushed(f) = heap[states]
                           /\ IsState(heap[states]) /\ flusher[f].fp \in DOMAIN heap[states].fpToSeries
         /\ Leaving(f) => /\ flusher[f].state \in Objects /\ IsState(heap[flusher[f].state])
                          /\ Removed(f) \in Metrics /\ flusher[f].taken = {Removed(f)}
<1>1. Flushing(f) => /\ flusher[f].state = states /\ states \in Objects /\ Flushed(f) = heap[states]
                     /\ IsState(heap[states]) /\ flusher[f].fp \in DOMAIN heap[states].fpToSeries
  BY DEF ControlInv, FlushOK, Typed, TypeOK, Flushed, LimitInv, Shape, Series
<1>2. ASSUME Leaving(f)
      PROVE  /\ flusher[f].state \in Objects /\ IsState(heap[flusher[f].state])
             /\ Removed(f) \in Metrics /\ flusher[f].taken = {Removed(f)}
  <2>1. flusher[f].state \in Objects /\ IsState(heap[flusher[f].state])
    BY <1>2 DEF ControlInv, FlushOK, LimitInv, Shape
  <2>2. PICK m \in Metrics : flusher[f].taken = {m}
    BY <1>2 DEF ControlInv, FlushOK
  <2> QED
    BY <2>1, <2>2 DEF Removed
<1> QED
  BY <1>1, <1>2

(* takeChunks: the samples of the series.                                  *)
LEMMA TakeChunksDoes ==
  ASSUME ControlInv, NEW f \in Flushers, takeChunks(f)
  PROVE  /\ FlushAt(f, "take") /\ Flushing(f)
         /\ \/ FlushEnds(f)
            \/ /\ FlushMoves(f, "store")
               /\ flusher'[f].taken = heap[states].fpToSeries[flusher[f].fp].samples
         /\ UNCHANGED <<states, heap, rwmutex, fpLocker, pusher, query, queries, owed, pushes>>
<1> DEFINE taken == heap[states].fpToSeries[flusher[f].fp].samples
           x == [flusher[f] EXCEPT !.pc = "store", !.taken = taken]
<1>1. FlushAt(f, "take") /\ Flushing(f)
  BY DEF takeChunks, FlushAt, Flushing
<1>2. Flushed(f) = heap[states] /\ flusher = [g \in Flushers |-> flusher[g]] /\ IsFlush(flusher[f])
  BY <1>1, FlushingState DEF ControlInv, Typed
<1>3. UNCHANGED <<states, heap, rwmutex, fpLocker, pusher, query, queries, owed, pushes>>
  BY DEF takeChunks
<1>4. flusher' = [flusher EXCEPT ![f] = NoFlush] \/ flusher' = [flusher EXCEPT ![f] = x]
  <2>1. flusher' = [flusher EXCEPT ![f] = IF taken = {} THEN NoFlush ELSE [@ EXCEPT !.pc = "store", !.taken = taken]]
    BY <1>2 DEF takeChunks
  <2> HIDE DEF taken
  <2> QED
    BY <2>1, <1>2
<1> HIDE DEF taken
<1>5. CASE flusher' = [flusher EXCEPT ![f] = x]
  <2>1. flusher'[f] = x /\ OtherFlushers(f)
    BY <1>2, <1>5 DEF OtherFlushers
  <2>2. FlushMoves(f, "store") /\ flusher'[f].taken = taken
    BY <2>1, <1>2 DEF FlushMoves, IsFlush, FlushNames
  <2> QED
    BY <1>1, <1>3, <2>2 DEF taken
<1> QED
  BY <1>1, <1>3, <1>4, <1>5, FlushDone

(* flushChunks: they are stored and owed no more.                          *)
LEMMA FlushChunksDoes ==
  ASSUME ControlInv, NEW f \in Flushers, flushChunks(f)
  PROVE  /\ FlushAt(f, "store") /\ Flushing(f)
         /\ \/ FlushEnds(f) /\ owed' = owed
            \/ FlushMoves(f, "drop") /\ flusher'[f].taken = flusher[f].taken /\ owed' = owed \ flusher[f].taken
         /\ UNCHANGED <<states, heap, rwmutex, fpLocker, pusher, query, queries, pushes>>
<1>1. /\ FlushAt(f, "store") /\ Flushing(f)
      /\ UNCHANGED <<states, heap, rwmutex, fpLocker, pusher, query, queries, pushes>>
  BY DEF flushChunks, FlushAt, Flushing
<1>2. \/ owed' = owed \ flusher[f].taken /\ Flushes(f, "drop")
      \/ flusher' = [flusher EXCEPT ![f] = NoFlush] /\ owed' = owed
  BY DEF flushChunks
<1> QED
  BY <1>1, <1>2, FlushDone, FlushesMoves

(* dropChunks: they leave the series.                                      *)
LEMMA DropChunksDoes ==
  ASSUME ControlInv, NEW f \in Flushers, dropChunks(f)
  PROVE  LET fp == flusher[f].fp
             left == heap[states].fpToSeries[fp].samples \ flusher[f].taken
         IN /\ FlushAt(f, "drop") /\ states \in Objects /\ flusher[f].state = states
            /\ fp \in DOMAIN heap[states].fpToSeries
            /\ OtherStates(states) /\ SameIndex(states) /\ SameMappings(states) /\ SameCounts(states)
            /\ OtherSeries(states, fp) /\ fp \in DOMAIN heap'[states].fpToSeries
            /\ heap'[states].fpToSeries[fp] = [metric |-> heap[states].fpToSeries[fp].metric, samples |-> left]
            /\ \/ /\ left = {} /\ FlushMoves(f, "del") /\ FlushLock(f) \notin fpLocker
                  /\ fpLocker' = fpLocker \cup {FlushLock(f)}
               \/ FlushEnds(f) /\ fpLocker' = fpLocker
            /\ UNCHANGED <<states, rwmutex, pusher, query, queries, owed, pushes>>
<1> DEFINE fp == flusher[f].fp
           left == heap[states].fpToSeries[fp].samples \ flusher[f].taken
<1>1. FlushAt(f, "drop") /\ Flushing(f)
  BY DEF dropChunks, FlushAt, Flushing
<1>2. flusher[f].state = states /\ states \in Objects /\ Flushed(f) = heap[states] /\ fp \in DOMAIN heap[states].fpToSeries
  BY <1>1, FlushingState
<1>3. /\ Sets(states, [heap[states] EXCEPT !.fpToSeries[fp].samples = left])
      /\ FlushLock(f) \notin fpLocker
      /\ UNCHANGED <<states, rwmutex, pusher, query, queries, owed, pushes>>
  BY <1>2 DEF dropChunks, Free, FlushLock
<1>4. \/ left = {} /\ Flushes(f, "del") /\ fpLocker' = fpLocker \cup {FlushLock(f)}
      \/ flusher' = [flusher EXCEPT ![f] = NoFlush] /\ fpLocker' = fpLocker
  BY <1>2 DEF dropChunks, Holding, FlushLock
<1> HIDE DEF left
<1>5. /\ OtherStates(states) /\ SameIndex(states) /\ SameMappings(states) /\ SameCounts(states)
      /\ OtherSeries(states, fp) /\ fp \in DOMAIN heap'[states].fpToSeries
      /\ heap'[states].fpToSeries[fp] = [metric |-> heap[states].fpToSeries[fp].metric, samples |-> left]
  BY <1>2, <1>3, SamplesChange, SMTT(20)
<1>6. \/ left = {} /\ FlushMoves(f, "del") /\ fpLocker' = fpLocker \cup {FlushLock(f)}
      \/ FlushEnds(f) /\ fpLocker' = fpLocker
  BY <1>4, FlushDone, FlushesMoves
<1> QED
  BY <1>1, <1>2, <1>3, <1>5, <1>6 DEF left

(* delSeries: the series leaves fpToSeries.                                *)
LEMMA DelSeriesDoes ==
  ASSUME ControlInv, NEW f \in Flushers, delSeries(f)
  PROVE  LET fp == flusher[f].fp
         IN /\ FlushAt(f, "del") /\ states \in Objects /\ flusher[f].state = states
            /\ fp \in DOMAIN heap[states].fpToSeries /\ heap[states].fpToSeries[fp].metric \in Metrics
            /\ OtherStates(states) /\ SameIndex(states) /\ SameMappings(states) /\ SameCounts(states)
            /\ OtherSeries(states, fp) /\ fp \notin DOMAIN heap'[states].fpToSeries
            /\ FlushMoves(f, "unindex") /\ flusher'[f].taken = {heap[states].fpToSeries[fp].metric}
            /\ UNCHANGED <<states, rwmutex, fpLocker, pusher, query, queries, owed, pushes>>
<1> DEFINE fp == flusher[f].fp
           t == {heap[states].fpToSeries[fp].metric}
           c == Without(heap[states].fpToSeries, fp)
           u == [heap[states] EXCEPT !.fpToSeries = c]
           x == [flusher[f] EXCEPT !.pc = "unindex", !.taken = t]
<1>1. FlushAt(f, "del") /\ Flushing(f) /\ LimitInv
  BY DEF delSeries, FlushAt, Flushing, ControlInv
<1>2. /\ flusher[f].state = states /\ states \in Objects /\ Flushed(f) = heap[states]
      /\ fp \in DOMAIN heap[states].fpToSeries
  BY <1>1, FlushingState
<1>3. heap[states].fpToSeries[fp].metric \in Metrics
  BY <1>2 DEF ControlInv, StateOK, Series
<1>4. /\ Sets(states, u)
      /\ UNCHANGED <<states, rwmutex, fpLocker, pusher, query, queries, owed, pushes>>
  BY <1>2 DEF delSeries
<1>5. flusher' = [flusher EXCEPT ![f] = x]
  BY <1>2 DEF delSeries, ControlInv, Typed, IsFlush, FlushNames
<1>6. /\ DOMAIN c \ {fp} = DOMAIN heap[states].fpToSeries \ {fp}
      /\ \A k \in DOMAIN heap[states].fpToSeries \ {fp} : c[k] = heap[states].fpToSeries[k]
      /\ fp \notin DOMAIN c
  BY DEF Without
<1> HIDE DEF c, t
<1>7. OtherStates(states) /\ heap'[states] = u /\ IsState(heap[states])
  BY <1>1, <1>2, <1>4, SetsOne, SMTT(20)
<1>8. SameIndex(states) /\ SameMappings(states) /\ SameCounts(states) /\ heap'[states].fpToSeries = c
  BY <1>7 DEF SameIndex, SameMappings, SameCounts, IsState, StateNames
<1>9. FlushMoves(f, "unindex") /\ flusher'[f].taken = t
  <2>1. flusher = [g \in Flushers |-> flusher[g]] /\ IsFlush(flusher[f])
    BY DEF ControlInv, Typed
  <2>2. flusher'[f] = x /\ OtherFlushers(f)
    BY <2>1, <1>5 DEF OtherFlushers
  <2> QED
    BY <2>1, <2>2 DEF FlushMoves, IsFlush, FlushNames
<1> QED
  BY <1>1, <1>2, <1>3, <1>4, <1>6, <1>7, <1>8, <1>9 DEF OtherSeries, t

(* unindexSeries: its labels leave the index.                              *)
LEMMA UnindexSeriesDoes ==
  ASSUME ControlInv, NEW f \in Flushers, unindexSeries(f)
  PROVE  LET s == flusher[f].state
         IN /\ FlushAt(f, "unindex") /\ Leaving(f) /\ s \in Objects /\ Removed(f) \in Metrics
            /\ OtherStates(s) /\ SameSeries(s) /\ SameMappings(s) /\ SameCounts(s)
            /\ heap'[s].index = delete(heap[s].index, Removed(f), flusher[f].fp)
            /\ FlushMoves(f, "uncount") /\ flusher'[f].taken = flusher[f].taken
            /\ UNCHANGED <<states, rwmutex, fpLocker, pusher, query, queries, owed, pushes>>
<1> DEFINE s == flusher[f].state
           c == delete(heap[s].index, Removed(f), flusher[f].fp)
           u == [heap[s] EXCEPT !.index = c]
<1>1. FlushAt(f, "unindex") /\ Leaving(f) /\ LimitInv
  BY DEF unindexSeries, FlushAt, Leaving, ControlInv
<1>2. s \in Objects /\ Removed(f) \in Metrics
  BY <1>1, FlushingState
<1>3. /\ Sets(s, u) /\ Flushes(f, "uncount")
      /\ UNCHANGED <<states, rwmutex, fpLocker, pusher, query, queries, owed, pushes>>
  BY DEF unindexSeries, Flushed
<1> HIDE DEF c
<1>4. OtherStates(s) /\ heap'[s] = u /\ IsState(heap[s])
  BY <1>1, <1>2, <1>3, SetsOne
<1>5. SameSeries(s) /\ SameMappings(s) /\ SameCounts(s) /\ heap'[s].index = c
  BY <1>4 DEF SameSeries, SameMappings, SameCounts, IsState, StateNames
<1>6. FlushMoves(f, "uncount") /\ flusher'[f].taken = flusher[f].taken
  BY <1>3, FlushesMoves
<1> QED
  BY <1>1, <1>2, <1>3, <1>4, <1>5, <1>6 DEF c

(* uncountSeries: it leaves the count of its name.                         *)
LEMMA UncountSeriesDoes ==
  ASSUME ControlInv, NEW f \in Flushers, uncountSeries(f)
  PROVE  LET s == flusher[f].state
             name == MetricName[Removed(f)]
             n == heap[s].seriesInMetric[name] - 1
         IN /\ FlushAt(f, "uncount") /\ Leaving(f) /\ s \in Objects /\ Removed(f) \in Metrics
            /\ OtherStates(s) /\ SameSeries(s) /\ SameMappings(s) /\ SameIndex(s)
            /\ heap'[s].seriesInMetric =
                 IF n = 0 THEN Without(heap[s].seriesInMetric, name) ELSE With(heap[s].seriesInMetric, name, n)
            /\ FlushEnds(f) /\ fpLocker' = fpLocker \ {FlushLock(f)}
            /\ UNCHANGED <<states, rwmutex, pusher, query, queries, owed, pushes>>
<1> DEFINE s == flusher[f].state
           name == MetricName[Removed(f)]
           n == heap[s].seriesInMetric[name] - 1
           c == IF n = 0 THEN Without(heap[s].seriesInMetric, name) ELSE With(heap[s].seriesInMetric, name, n)
           u == [heap[s] EXCEPT !.seriesInMetric = c]
<1>1. FlushAt(f, "uncount") /\ Leaving(f) /\ LimitInv
  BY DEF uncountSeries, FlushAt, Leaving, ControlInv
<1>2. s \in Objects /\ Removed(f) \in Metrics
  BY <1>1, FlushingState
<1>3. /\ Sets(s, u) /\ flusher' = [flusher EXCEPT ![f] = NoFlush] /\ fpLocker' = fpLocker \ {FlushLock(f)}
      /\ UNCHANGED <<states, rwmutex, pusher, query, queries, owed, pushes>>
  BY DEF uncountSeries, Flushed, Releasing, FlushLock
<1> HIDE DEF c
<1>4. OtherStates(s) /\ heap'[s] = u /\ IsState(heap[s])
  BY <1>1, <1>2, <1>3, SetsOne
<1>5. SameSeries(s) /\ SameMappings(s) /\ SameIndex(s) /\ heap'[s].seriesInMetric = c
  BY <1>4 DEF SameSeries, SameMappings, SameIndex, IsState, StateNames
<1>6. FlushEnds(f)
  BY <1>3, FlushDone
<1> QED
  BY <1>1, <1>2, <1>3, <1>4, <1>5, <1>6 DEF c

(* flushUserSeries: the series is found under the lock of its fingerprint. *)
LEMMA FlushUserSeriesDoes ==
  ASSUME ControlInv, NEW f \in Flushers, NEW fp, flushUserSeries(f, fp)
  PROVE  /\ FlushAt(f, "idle") /\ states # 0 /\ fp \in DOMAIN heap[states].fpToSeries
         /\ \A g \in Flushers : FlushAt(g, "idle") \/ flusher[g].fp # fp
         /\ OtherFlushers(f) /\ flusher'[f].pc = "take" /\ flusher'[f].state = states /\ flusher'[f].fp = fp
         /\ UNCHANGED <<states, heap, rwmutex, fpLocker, pusher, query, queries, owed, pushes>>
BY DEF flushUserSeries, ControlInv, Typed, OtherFlushers

-----------------------------------------------------------------------------

(* A state is made only when nobody has entered, by createState or by a    *)
(* query.                                                                  *)
LEMMA NobodyEntered ==
  ASSUME ControlInv, rwmutex.writer = {}, rwmutex.readers = {}, NEW p \in Pushers
  PROVE  ~Mutexed(p)
BY DEF ControlInv, PushOK

(* A userState made by nobody else's leave is empty, and the current one.  *)
LEMMA StateMade ==
  ASSUME ControlInv, unlockedGetOrCreate
  PROVE  /\ states' \in Objects
         /\ \/ states # 0 /\ states' = states /\ heap' = heap
            \/ /\ states = 0 /\ states' # 0 /\ OtherStates(states') /\ heap'[states'] = NewState
               /\ \A f \in Flushers : flusher[f].state # states'
<1>1. CASE states # 0
  BY <1>1 DEF unlockedGetOrCreate, ControlInv, Typed, TypeOK
<1>2. CASE states = 0
  <2>1. states' = New /\ heap' = [heap EXCEPT ![New] = NewState]
    BY <1>2 DEF unlockedGetOrCreate
  <2>2. heap = [s \in Objects |-> heap[s]]
    BY DEF ControlInv, LimitInv, Shape
  <2>3. NewFree
    BY DEF ControlInv, LimitInv
  <2>4. New # 0
    BY <2>3, SMTT(20) DEF Objects, NewFree
  <2> QED
    BY <1>2, <2>1, <2>2, <2>3, <2>4 DEF OtherStates, NewFree
<1> QED
  BY <1>1, <1>2

(* createState makes a state where there is none.                          *)
LEMMA CreateStateDoes ==
  ASSUME ControlInv, NEW p \in Pushers, createState(p)
  PROVE  /\ At(p, "create") /\ unlockedGetOrCreate /\ rwmutex.writer = {} /\ rwmutex.readers = {}
         /\ Others(p) /\ pusher'[p].pc = "raw" /\ pusher'[p].state = states'
         /\ pusher'[p].sample = pusher[p].sample /\ pusher'[p].metric = pusher[p].metric
         /\ rwmutex' = [readers |-> {}, writer |-> {p}]
         /\ UNCHANGED <<fpLocker, flusher, query, queries, owed, pushes>>
<1> DEFINE x == [pusher[p] EXCEPT !.pc = "raw", !.state = states']
<1>1. /\ At(p, "create") /\ unlockedGetOrCreate /\ rwmutex.writer = {} /\ rwmutex.readers = {}
      /\ rwmutex' = [rwmutex EXCEPT !.writer = {p}]
      /\ UNCHANGED <<fpLocker, flusher, query, queries, owed, pushes>>
  BY DEF createState, unlockedGetOrCreate
<1>2. IsPush(pusher[p]) /\ pusher = [q \in Pushers |-> pusher[q]]
  BY DEF ControlInv, LimitInv, Shape
<1>3. pusher'[p] = x /\ Others(p)
  BY <1>2 DEF createState, Others, IsPush, PushNames
<1>4. rwmutex = [readers |-> rwmutex.readers, writer |-> rwmutex.writer]
  BY DEF ControlInv, Typed, TypeOK
<1> QED
  BY <1>1, <1>2, <1>3, <1>4 DEF IsPush, PushNames

(* A Push begins with a new sample.                                        *)
LEMMA GetOrCreateSeriesDoes ==
  ASSUME ControlInv, NEW p \in Pushers, NEW m \in Metrics, getOrCreateSeries(p, m)
  PROVE  /\ At(p, "idle") /\ Others(p)
         /\ pushes < Len(Offered) /\ pushes' = pushes + 1 /\ pushes \in Nat
         /\ pusher'[p].sample = pushes' /\ pusher'[p].metric = m
         /\ \/ /\ states # 0 /\ pusher'[p].pc = "raw" /\ pusher'[p].state = states /\ rwmutex.writer = {}
               /\ rwmutex' = [readers |-> rwmutex.readers \cup {p}, writer |-> {}]
            \/ pusher'[p].pc = "create" /\ rwmutex' = rwmutex
         /\ UNCHANGED <<states, heap, fpLocker, flusher, query, queries, owed>>
<1> DEFINE X(pc, st) == [pc |-> pc, sample |-> pushes', metric |-> m, state |-> st, fp |-> FastFingerprint[m]]
<1>1. /\ At(p, "idle") /\ pushes < Len(Offered) /\ pushes' = pushes + 1 /\ rwmutex.writer = {}
      /\ UNCHANGED <<states, heap, fpLocker, flusher, query, queries, owed>>
  BY DEF getOrCreateSeries
<1>2. \/ /\ states # 0 /\ rwmutex' = [rwmutex EXCEPT !.readers = @ \cup {p}]
         /\ pusher' = [pusher EXCEPT ![p] = X("raw", states)]
      \/ pusher' = [pusher EXCEPT ![p] = X("create", 0)] /\ rwmutex' = rwmutex
  BY DEF getOrCreateSeries
<1>3. pusher = [q \in Pushers |-> pusher[q]]
  BY DEF ControlInv, LimitInv, Shape
<1>4. pushes \in Nat /\ rwmutex = [readers |-> rwmutex.readers, writer |-> rwmutex.writer]
  BY SMTT(20) DEF ControlInv, Typed, TypeOK
<1>5. CASE /\ states # 0 /\ rwmutex' = [rwmutex EXCEPT !.readers = @ \cup {p}]
           /\ pusher' = [pusher EXCEPT ![p] = X("raw", states)]
  <2>1. pusher'[p] = X("raw", states) /\ Others(p)
    BY <1>3, <1>5 DEF Others
  <2>2. rwmutex' = [readers |-> rwmutex.readers \cup {p}, writer |-> {}]
    BY <1>1, <1>4, <1>5
  <2>3. /\ pusher'[p].sample = pushes' /\ pusher'[p].metric = m
        /\ pusher'[p].pc = "raw" /\ pusher'[p].state = states
    BY <2>1, SMTT(20)
  <2> HIDE DEF X
  <2> QED
    BY <1>1, <1>4, <1>5, <2>1, <2>2, <2>3
<1>6. CASE pusher' = [pusher EXCEPT ![p] = X("create", 0)] /\ rwmutex' = rwmutex
  <2>1. pusher'[p] = X("create", 0) /\ Others(p)
    BY <1>3, <1>6 DEF Others
  <2> QED
    BY <1>1, <1>4, <1>6, <2>1, SMTT(20)
<1> QED
  BY <1>2, <1>5, <1>6

(* gc removes a state without series, with us.mtx held.                    *)
LEMMA GcDoes ==
  ASSUME ControlInv, gc
  PROVE  /\ states \in Objects /\ states' = 0 /\ rwmutex.writer = {} /\ rwmutex.readers = {}
         /\ DOMAIN heap[states].fpToSeries = {} /\ OtherStates(states)
         /\ SameSeries(states) /\ SameIndex(states) /\ SameCounts(states)
         /\ heap'[states].mappings = Empty /\ heap'[states].highestMappedFP = 0
         /\ UNCHANGED <<rwmutex, fpLocker, pusher, flusher, query, queries, owed, pushes>>
<1> DEFINE u == [heap[states] EXCEPT !.mappings = Empty, !.highestMappedFP = 0]
<1>1. /\ states' = 0 /\ rwmutex.writer = {} /\ rwmutex.readers = {} /\ states # 0
      /\ heap[states].fpToSeries = Empty /\ Sets(states, u)
      /\ UNCHANGED <<rwmutex, fpLocker, pusher, flusher, query, queries, owed, pushes>>
  BY DEF gc
<1>2. states \in Objects /\ LimitInv
  BY <1>1 DEF ControlInv, Typed, TypeOK
<1>3. OtherStates(states) /\ heap'[states] = u /\ IsState(heap[states])
  BY <1>1, <1>2, SetsOne
<1>4. /\ SameSeries(states) /\ SameIndex(states) /\ SameCounts(states)
      /\ heap'[states].mappings = Empty /\ heap'[states].highestMappedFP = 0
  BY <1>3 DEF SameSeries, SameIndex, SameCounts, IsState, StateNames
<1>5. DOMAIN heap[states].fpToSeries = {}
  BY <1>1, SMTT(20) DEF Empty
<1> QED
  BY <1>1, <1>2, <1>3, <1>4, <1>5
(* A Push that appends to the state has a series there, and so has a       *)
(* flush: gc removes the state of nobody.                                  *)
LEMMA GcNobody ==
  ASSUME ControlInv, gc
  PROVE  (\A p \in Pushers : ~Entered(p)) /\ (\A f \in Flushers : ~Flushing(f))
<1>1. states \in Objects /\ rwmutex.writer = {} /\ rwmutex.readers = {} /\ DOMAIN heap[states].fpToSeries = {}
  BY GcDoes
<1>2. ASSUME NEW p \in Pushers PROVE ~Entered(p)
  <2>1. ~Mutexed(p)
    BY <1>1, NobodyEntered
  <2>2. ~At(p, "append")
    BY <1>1 DEF ControlInv, PushOK, At, Locks, Series
  <2> QED
    BY <2>1, <2>2 DEF Entered, Mutexed, At
<1>3. ASSUME NEW f \in Flushers PROVE ~Flushing(f)
  BY <1>1 DEF ControlInv, FlushOK, Series
<1> QED
  BY <1>2, <1>3

(* The fields of the query after one of them is changed.                   *)
LEMMA QueryFields ==
  ASSUME NEW a, NEW b, NEW c, NEW d, NEW e
  PROVE  LET y == [pc |-> a, state |-> b, fps |-> c, result |-> d, before |-> e]
         IN IsQuery(y) /\ y.pc = a
BY DEF IsQuery, QueryNames

(* getOrCreate of a query: the state it finds or makes.                    *)
LEMMA GetOrCreateDoes ==
  ASSUME ControlInv, getOrCreate
  PROVE  /\ query.pc = "idle" /\ queries < MaxQueries /\ queries' = queries + 1 /\ states' \in Objects
         /\ \/ states # 0 /\ states' = states /\ heap' = heap
            \/ states = 0 /\ unlockedGetOrCreate
         /\ query' = [pc |-> "lookup", state |-> states', fps |-> {}, result |-> {},
                      before |-> {x \in owed : Matching(x[2])}]
         /\ UNCHANGED <<rwmutex, fpLocker, pusher, flusher, owed, pushes>>
<1>1. CASE states # 0
  BY <1>1 DEF getOrCreate, NoQuery, ControlInv, Typed, TypeOK
<1>2. CASE states = 0
  BY <1>2, StateMade DEF getOrCreate, NoQuery
<1> QED
  BY <1>1, <1>2

(* The steps of a query, in the terms of the state it has.                 *)
LEMMA QueryDoes ==
  ASSUME ControlInv, Query
  PROVE  /\ UNCHANGED <<states, heap, rwmutex, fpLocker, pusher, flusher, queries, owed, pushes>>
         /\ \/ query' = NoQuery
            \/ /\ query.pc = "lookup" /\ query'.pc = "series" /\ query'.fps = lookup(heap[query.state].index)
               /\ query'.state = query.state /\ query'.result = query.result /\ query'.before = query.before
            \/ \E fp :
                 LET series == heap[query.state].fpToSeries
                 IN /\ query.pc = "series" /\ query'.pc = "series" /\ query'.fps = query.fps \ {fp}
                    /\ query'.state = query.state /\ query'.before = query.before
                    /\ query'.result =
                         query.result \cup (IF fp \in DOMAIN series THEN series[fp].samples ELSE {})
         /\ IsQuery(query') /\ query'.pc \in {"idle", "series"}
<1> DEFINE series == heap[query.state].fpToSeries
           fp == CHOOSE x \in query.fps : \A y \in query.fps : x <= y
           left == query.fps \ {fp}
           found == query.result \cup (IF fp \in DOMAIN series THEN series[fp].samples ELSE {})
           fps == lookup(heap[query.state].index)
<1>1. IsQuery(query) /\ UNCHANGED <<states, heap, rwmutex, fpLocker, pusher, flusher, queries, owed, pushes>>
  BY DEF Query, lookupSeries, forSeriesMatching, queryReturns, ControlInv, Typed
<1>2. CASE lookupSeries
  <2>1. query.pc = "lookup" /\ query' = [query EXCEPT !.pc = "series", !.fps = fps]
    BY <1>2 DEF lookupSeries
  <2> HIDE DEF fps
  <2>2. /\ query'.pc = "series" /\ query'.fps = fps /\ IsQuery(query')
        /\ query'.state = query.state /\ query'.result = query.result /\ query'.before = query.before
    BY <1>1, <2>1 DEF IsQuery, QueryNames
  <2> QED
    BY <1>1, <2>1, <2>2 DEF fps
<1>3. CASE forSeriesMatching
  <2>1. query.pc = "series" /\ query.fps # {} /\ query' = [query EXCEPT !.fps = left, !.result = found]
    BY <1>3 DEF forSeriesMatching
  <2> HIDE DEF fp, left, found
  <2>3. /\ query'.pc = "series" /\ query'.fps = left /\ query'.result = found /\ IsQuery(query')
        /\ query'.state = query.state /\ query'.before = query.before
    BY <1>1, <2>1 DEF IsQuery, QueryNames
  <2> QED
    BY <1>1, <2>1, <2>3 DEF left, found
<1>4. CASE queryReturns
  BY <1>1, <1>4, QueryFields DEF queryReturns, NoQuery
<1> QED
  BY <1>2, <1>3, <1>4 DEF Query

(* The sample of a Push stays the same.                                    *)
LEMMA PushSample ==
  ASSUME ControlInv, NEW p \in Pushers, Push(p)
  PROVE  /\ Others(p) /\ pushes' = pushes /\ Pushing(p)
         /\ Pushing(p)' => pusher'[p].sample = pusher[p].sample /\ pusher'[p].metric = pusher[p].metric
<1>1. pushes' = pushes /\ Pushing(p) /\ LimitInv
  BY DEF Push, Pushing, At, createState, lockRaw, lockFP, unlockedGet, canAddSeriesFor, putSeries, indexSeries, append,
         ControlInv
<1>2. CASE createState(p)
  BY <1>1, <1>2, CreateStateDoes
<1>3. CASE lockRaw(p)
  BY <1>1, <1>3, LockRawDoes
<1>4. CASE putSeries(p)
  BY <1>1, <1>4, PutSeriesDoes DEF Moves
<1>5. CASE lockFP(p)
  BY <1>1, <1>5, GoesMoves DEF lockFP, Moves
<1>6. CASE unlockedGet(p)
  <2>1. Locks(p)
    BY <1>6 DEF unlockedGet, At, Locks
  <2>2. Ends(p) \/ Moves(p, "append") \/ Moves(p, "metric")
    BY <1>1, <1>6, <2>1, RefusedDoes, GoesMoves DEF unlockedGet
  <2> QED
    BY <1>1, <2>2 DEF Moves, Ends, Pushing, At
<1>7. CASE canAddSeriesFor(p)
  <2>1. Locks(p)
    BY <1>7 DEF canAddSeriesFor, At, Locks
  <2>2. Ends(p) \/ Moves(p, "put")
    BY <1>7, <2>1, RefusedDoes, CanAddSeriesForDoes
  <2> QED
    BY <1>1, <2>2 DEF Moves, Ends, Pushing, At
<1>8. CASE indexSeries(p)
  BY <1>1, <1>8, IndexSeriesDoes DEF Moves
<1>9. CASE append(p)
  BY <1>1, <1>9, AppendDoes DEF Ends, Pushing, At
<1> QED
  BY <1>2, <1>3, <1>4, <1>5, <1>6, <1>7, <1>8, <1>9 DEF Push

(* Steps of flushes, gc and queries leave the pushers.                     *)
LEMMA OthersStay ==
  ASSUME \/ \E f \in Flushers : Flush(f) \/ \E fp : flushUserSeries(f, fp)
         \/ gc \/ getOrCreate \/ Query
  PROVE  pusher' = pusher /\ pushes' = pushes
BY DEF Flush, takeChunks, flushChunks, dropChunks, delSeries, unindexSeries, uncountSeries, gc,
       flushUserSeries, getOrCreate, Query, lookupSeries, forSeriesMatching, queryReturns

-----------------------------------------------------------------------------
(* The same series, though perhaps with other samples. *)

MetricsKept ==
  \A s \in Objects :
    /\ DOMAIN heap'[s].fpToSeries = DOMAIN heap[s].fpToSeries
    /\ \A fp \in DOMAIN heap[s].fpToSeries :
         heap'[s].fpToSeries[fp] = [metric |-> heap[s].fpToSeries[fp].metric, samples |-> heap'[s].fpToSeries[fp].samples]

(* A series is its metric and its samples.                                 *)
LEMMA RecordFields ==
  ASSUME NEW x, NEW m, x = [metric |-> m, samples |-> x.samples]
  PROVE  x.metric = m /\ x = [metric |-> x.metric, samples |-> x.samples]
BY SMTT(20)

(* A series that is kept has its metric.                                   *)
LEMMA KeptMetric ==
  ASSUME MetricsKept, NEW s \in Objects
  PROVE  /\ DOMAIN heap'[s].fpToSeries = DOMAIN heap[s].fpToSeries
         /\ \A fp \in DOMAIN heap[s].fpToSeries : heap'[s].fpToSeries[fp].metric = heap[s].fpToSeries[fp].metric
<1>1. ASSUME NEW fp \in DOMAIN heap[s].fpToSeries
      PROVE  heap'[s].fpToSeries[fp].metric = heap[s].fpToSeries[fp].metric
  <2>1. heap'[s].fpToSeries[fp] =
          [metric |-> heap[s].fpToSeries[fp].metric, samples |-> heap'[s].fpToSeries[fp].samples]
    BY DEF MetricsKept
  <2> QED
    BY <2>1, RecordFields
<1> QED
  BY <1>1 DEF MetricsKept

(* Where no series changes, the metrics are kept.                          *)
LEMMA SameMetrics ==
  ASSUME ControlInv,
         \/ heap' = heap
         \/ \E s \in Objects : OtherStates(s) /\ SameSeries(s)
  PROVE  MetricsKept
<1> SUFFICES ASSUME NEW s \in Objects
             PROVE  /\ DOMAIN heap'[s].fpToSeries = DOMAIN heap[s].fpToSeries
                    /\ \A fp \in DOMAIN heap[s].fpToSeries :
                         heap'[s].fpToSeries[fp] =
                           [metric |-> heap[s].fpToSeries[fp].metric, samples |-> heap'[s].fpToSeries[fp].samples]
  BY DEF MetricsKept
<1>1. heap'[s].fpToSeries = heap[s].fpToSeries
  BY DEF OtherStates, SameSeries
<1>2. StateOK(s)
  BY DEF ControlInv
<1> QED
  BY <1>1, <1>2 DEF StateOK, Series

(* Where one series changes its samples, the metrics are kept.             *)
LEMMA OneSeriesMetrics ==
  ASSUME ControlInv, NEW s \in Objects, NEW fp \in DOMAIN heap[s].fpToSeries, NEW y,
         OtherStates(s), OtherSeries(s, fp), fp \in DOMAIN heap'[s].fpToSeries,
         heap'[s].fpToSeries[fp] = [metric |-> heap[s].fpToSeries[fp].metric, samples |-> y]
  PROVE  MetricsKept
<1> SUFFICES ASSUME NEW t \in Objects
             PROVE  /\ DOMAIN heap'[t].fpToSeries = DOMAIN heap[t].fpToSeries
                    /\ \A k \in DOMAIN heap[t].fpToSeries :
                         heap'[t].fpToSeries[k] =
                           [metric |-> heap[t].fpToSeries[k].metric, samples |-> heap'[t].fpToSeries[k].samples]
  BY DEF MetricsKept
<1>1. StateOK(t)
  BY DEF ControlInv
<1>2. CASE t # s
  BY <1>1, <1>2 DEF StateOK, Series, OtherStates
<1>3. CASE t = s
  <2>1. DOMAIN heap'[t].fpToSeries = DOMAIN heap[t].fpToSeries
    BY <1>3 DEF OtherSeries
  <2>2. ASSUME NEW k \in DOMAIN heap[t].fpToSeries
        PROVE  heap'[t].fpToSeries[k] =
                 [metric |-> heap[t].fpToSeries[k].metric, samples |-> heap'[t].fpToSeries[k].samples]
    BY <1>1, <1>3, SMTT(20) DEF OtherSeries, StateOK, Series
  <2> QED
    BY <2>1, <2>2
<1> QED
  BY <1>2, <1>3

(* A new state has no series, nor had the object that it is made of.       *)
LEMMA MadeMetrics ==
  ASSUME ControlInv, unlockedGetOrCreate
  PROVE  MetricsKept /\ states' \in Objects /\ (states # 0 => states' = states)
<1>1. CASE states # 0
  BY <1>1, StateMade, SameMetrics
<1>2. CASE states = 0
  <2>1. states' \in Objects /\ OtherStates(states') /\ heap'[states'] = NewState
    BY <1>2, StateMade
  <2>2. ASSUME NEW s \in Objects PROVE DOMAIN heap[s].fpToSeries = {} /\ DOMAIN heap'[s].fpToSeries = {}
    <3>1. DOMAIN heap[s].fpToSeries = {}
      BY <1>2, SMTT(20) DEF ControlInv, StateOK, Objects, Series
    <3> QED
      BY <2>1, <3>1, SMTT(20) DEF OtherStates, NewState, Empty
  <2> QED
    BY <1>2, <2>1, <2>2 DEF MetricsKept
<1> QED
  BY <1>1, <1>2

-----------------------------------------------------------------------------
(* Each step keeps Control. *)

(* The same series, though perhaps with other samples.                     *)
MetricsAt(s, fp) ==
  /\ (fp \in DOMAIN heap'[s].fpToSeries) = (fp \in DOMAIN heap[s].fpToSeries)
  /\ fp \in DOMAIN heap[s].fpToSeries => heap'[s].fpToSeries[fp].metric = heap[s].fpToSeries[fp].metric

(* What another Push or another flush relies on.                           *)
LEMMA PushFrame ==
  ASSUME ControlInv, NEW p \in Pushers, pusher'[p] = pusher[p],
         Entered(p) => states' = states,
         Mutexed(p) => p \in rwmutex'.readers \cup rwmutex'.writer,
         Locks(p) => PushLock(p) \in fpLocker' /\ MetricsAt(states, pusher[p].fp)
  PROVE  PushOK(p)'
<1>1. PushOK(p)
  BY DEF ControlInv
<1>2. Locks(p) => Entered(p)
  BY DEF Locks, Entered
<1> QED
  BY <1>1, <1>2 DEF PushOK, Pushing, At, Entered, Mutexed, Locks, PushLock, MetricsAt, Series

(* The same for a flush.                                                   *)
LEMMA FlushFrame ==
  ASSUME ControlInv, NEW f \in Flushers, flusher'[f] = flusher[f],
         Flushing(f) => states' = states /\ flusher[f].fp \in DOMAIN heap'[states].fpToSeries,
         Leaving(f) => flusher[f].fp \notin DOMAIN heap'[flusher[f].state].fpToSeries,
         Removing(f) => FlushLock(f) \in fpLocker'
  PROVE  FlushOK(f)'
<1>1. FlushOK(f)
  BY DEF ControlInv
<1> QED
  BY <1>1 DEF FlushOK, Flushing, Leaving, Removing, FlushAt, FlushLock, Series

(* Where metrics are kept, a state stays as it should be.                  *)
LEMMA MetricsStates ==
  ASSUME ControlInv, MetricsKept, NEW s \in Objects, s # states' => s # states \/ DOMAIN Series(s) = {}
  PROVE  StateOK(s)'
<1>1. StateOK(s)
  BY DEF ControlInv
<1>2. s # states' => DOMAIN Series(s)' = {}
  BY <1>1 DEF StateOK, MetricsKept, Series
<1>3. ASSUME NEW fp \in DOMAIN heap'[s].fpToSeries
      PROVE  LET r == heap'[s].fpToSeries[fp] IN r = [metric |-> r.metric, samples |-> r.samples] /\ r.metric \in Metrics
  <2>1. /\ fp \in DOMAIN heap[s].fpToSeries
        /\ heap'[s].fpToSeries[fp] = [metric |-> heap[s].fpToSeries[fp].metric, samples |-> heap'[s].fpToSeries[fp].samples]
    BY DEF MetricsKept
  <2>2. heap[s].fpToSeries[fp].metric \in Metrics
    BY <1>1, <2>1 DEF StateOK, Series
  <2> QED
    BY <2>1, <2>2, RecordFields
<1> QED
  BY <1>2, <1>3 DEF StateOK, Series

(* Where metrics are kept, so is what a flush relies on.                   *)
LEMMA MetricsFlush ==
  ASSUME ControlInv, MetricsKept, NEW f \in Flushers, flusher'[f] = flusher[f],
         Flushing(f) => states' = states, Removing(f) => FlushLock(f) \in fpLocker'
  PROVE  FlushOK(f)'
<1>1. FlushOK(f) /\ (states # 0 => states \in Objects)
  BY DEF ControlInv, Typed, TypeOK
<1>2. Flushing(f) => flusher[f].fp \in DOMAIN heap'[states].fpToSeries
  BY <1>1 DEF FlushOK, MetricsKept, Series
<1>3. Leaving(f) => flusher[f].fp \notin DOMAIN heap'[flusher[f].state].fpToSeries
  BY <1>1 DEF FlushOK, MetricsKept, Series
<1> QED
  BY <1>2, <1>3, FlushFrame

(* Where metrics are kept, so is what a Push relies on.                    *)
LEMMA MetricsPush ==
  ASSUME ControlInv, MetricsKept, NEW p \in Pushers, pusher'[p] = pusher[p],
         Entered(p) => states' = states,
         Mutexed(p) => p \in rwmutex'.readers \cup rwmutex'.writer,
         Locks(p) => PushLock(p) \in fpLocker'
  PROVE  PushOK(p)'
<1>1. Locks(p) => states \in Objects
  BY DEF ControlInv, PushOK, Locks, Entered, Typed, TypeOK
<1>2. Locks(p) => MetricsAt(states, pusher[p].fp)
  <2> SUFFICES ASSUME Locks(p) PROVE MetricsAt(states, pusher[p].fp)
    OBVIOUS
  <2> QED
    BY <1>1, KeptMetric DEF MetricsAt
<1> QED
  BY <1>2, PushFrame

-----------------------------------------------------------------------------
(* Mappings. *)

(* What maybeAddMapping leaves alone, and what it adds.                    *)
LEMMA AddMappingMaps ==
  ASSUME NEW u, IsState(u), MapOK(u), NEW m \in Metrics
  PROVE  LET v == addMapping(u, m)
         IN /\ \A n \in Metrics : n # m \/ n \in DOMAIN Mapped(u, n) =>
                 /\ (n \in DOMAIN Mapped(v, n)) = (n \in DOMAIN Mapped(u, n))
                 /\ n \in DOMAIN Mapped(u, n) => Mapped(v, n)[n] = Mapped(u, n)[n]
            /\ IF Collides(u, m) /\ m \notin DOMAIN Mapped(u, m)
               THEN /\ m \in DOMAIN Mapped(v, m) /\ Mapped(v, m)[m] = u.highestMappedFP + 1
                    /\ v.highestMappedFP = u.highestMappedFP + 1
               ELSE v = u
<1> DEFINE raw == FastFingerprint[m]
           fp == u.highestMappedFP + 1
           in == With(Mapped(u, m), m, fp)
           w == With(u.mappings, raw, in)
           v == addMapping(u, m)
<1>1. CASE ~(Collides(u, m) /\ m \notin DOMAIN Mapped(u, m))
  <2>1. v = u
    BY <1>1 DEF addMapping
  <2> QED
    BY <1>1, <2>1
<1>2. CASE Collides(u, m) /\ m \notin DOMAIN Mapped(u, m)
  <2>1. v = [u EXCEPT !.highestMappedFP = fp, !.mappings = w]
    BY <1>2 DEF addMapping
  <2>2. /\ m \in DOMAIN in /\ in[m] = fp
        /\ \A n : n # m => /\ (n \in DOMAIN in) = (n \in DOMAIN Mapped(u, m))
                           /\ n \in DOMAIN Mapped(u, m) => in[n] = Mapped(u, m)[n]
    BY SMTT(20) DEF With
  <2>3. /\ raw \in DOMAIN w /\ w[raw] = in
        /\ \A k : k # raw => /\ (k \in DOMAIN w) = (k \in DOMAIN u.mappings)
                             /\ k \in DOMAIN u.mappings => w[k] = u.mappings[k]
    BY SMTT(20) DEF With
  <2> HIDE DEF w, v
  <2>4. v.mappings = w /\ v.highestMappedFP = fp
    BY <2>1 DEF IsState, StateNames
  <2>5. ASSUME NEW n PROVE Mapped(v, n) = IF FastFingerprint[n] = raw THEN in ELSE Mapped(u, n)
    <3> HIDE DEF in
    <3> QED
      BY <2>3, <2>4 DEF Mapped, ValueAt
  <2>6. ASSUME NEW n \in Metrics, FastFingerprint[n] = raw PROVE Mapped(u, n) = Mapped(u, m)
    BY <2>6 DEF Mapped
  <2> HIDE DEF in, fp
  <2>7. ASSUME NEW n \in Metrics, n # m
        PROVE  /\ (n \in DOMAIN Mapped(v, n)) = (n \in DOMAIN Mapped(u, n))
               /\ n \in DOMAIN Mapped(u, n) => Mapped(v, n)[n] = Mapped(u, n)[n]
    BY <2>2, <2>5, <2>6, <2>7
  <2>8. m \in DOMAIN Mapped(v, m) /\ Mapped(v, m)[m] = fp
    BY <2>2, <2>5
  <2>9. ASSUME NEW n \in Metrics, n \in DOMAIN Mapped(u, n) PROVE n # m
    BY <1>2, <2>9
  <2> QED
    BY <1>2, <2>4, <2>7, <2>8, <2>9 DEF fp, v
<1> QED
  BY <1>1, <1>2

(* maybeAddMapping keeps the mappings well formed.                         *)
LEMMA AddMappingOK ==
  ASSUME NEW u, IsState(u), MapOK(u), NEW m \in Metrics, addMapping(u, m).highestMappedFP <= MaxMappedFP,
         \A fp \in DOMAIN u.fpToSeries : HasFP(u, u.fpToSeries[fp].metric, fp)
  PROVE  MapOK(addMapping(u, m)) /\ HasFP(addMapping(u, m), m, mapFP(u, m))
<1> DEFINE v == addMapping(u, m)
<1>1. /\ \A n \in Metrics : n # m \/ n \in DOMAIN Mapped(u, n) =>
           /\ (n \in DOMAIN Mapped(v, n)) = (n \in DOMAIN Mapped(u, n))
           /\ n \in DOMAIN Mapped(u, n) => Mapped(v, n)[n] = Mapped(u, n)[n]
      /\ IF Collides(u, m) /\ m \notin DOMAIN Mapped(u, m)
         THEN /\ m \in DOMAIN Mapped(v, m) /\ Mapped(v, m)[m] = u.highestMappedFP + 1
              /\ v.highestMappedFP = u.highestMappedFP + 1
         ELSE v = u
  BY AddMappingMaps
<1>2. v.highestMappedFP <= MaxMappedFP /\ MaxMappedFP \in Nat /\ FastFingerprint[m] \in Nat
  BY UserStatesAssumption
<1> HIDE DEF v
<1>3. CASE Collides(u, m) /\ m \notin DOMAIN Mapped(u, m)
  <2>1. mapFP(u, m) = u.highestMappedFP + 1
    BY <1>3 DEF mapFP, ValueAt
  <2>2. v.highestMappedFP \in 0..MaxMappedFP /\ v.highestMappedFP = u.highestMappedFP + 1
    BY <1>1, <1>2, <1>3, SMTT(20) DEF MapOK
  <2>3. ASSUME NEW n \in Metrics, n \in DOMAIN Mapped(v, n) PROVE Mapped(v, n)[n] \in 1..v.highestMappedFP
    BY <1>1, <1>3, <2>2, <2>3, SMTT(20) DEF MapOK
  <2>4. ASSUME NEW n \in Metrics, n # m, n \in DOMAIN Mapped(v, n) PROVE Mapped(v, n)[n] # Mapped(v, m)[m]
    BY <1>1, <1>3, <2>2, <2>4, SMTT(20) DEF MapOK
  <2>5. ASSUME NEW n \in Metrics, NEW k \in Metrics, n \in DOMAIN Mapped(v, n), k \in DOMAIN Mapped(v, k), n # k
        PROVE  Mapped(v, n)[n] # Mapped(v, k)[k]
    BY <1>1, <2>4, <2>5 DEF MapOK
  <2>6. MapOK(v)
    BY <2>2, <2>3, <2>5 DEF MapOK
  <2> QED
    BY <1>1, <1>3, <2>1, <2>6 DEF HasFP, v
<1>4. CASE ~(Collides(u, m) /\ m \notin DOMAIN Mapped(u, m))
  <2>1. v = u
    BY <1>1, <1>4
  <2>2. HasFP(u, m, mapFP(u, m))
    <3>1. CASE Collides(u, m)
      BY <1>4, <3>1 DEF HasFP, mapFP, ValueAt
    <3>2. CASE ~Collides(u, m) /\ FastFingerprint[m] \in DOMAIN u.fpToSeries
      <4>1. u.fpToSeries[FastFingerprint[m]].metric = m
        BY <3>2 DEF Collides
      <4> QED
        BY <3>2, <4>1 DEF mapFP
    <3>3. CASE ~Collides(u, m) /\ FastFingerprint[m] \notin DOMAIN u.fpToSeries
      <4>1. FastFingerprint[m] > MaxMappedFP
        BY <1>2, <3>3, SMTT(20) DEF Collides
      <4> QED
        BY <3>3, <4>1 DEF mapFP, ValueAt, HasFP
    <3> QED
      BY <3>1, <3>2, <3>3
  <2> QED
    BY <2>1, <2>2 DEF v
<1> QED
  BY <1>3, <1>4

(* One metric has one fingerprint.                                         *)
LEMMA OneFP ==
  ASSUME NEW u, NEW m, NEW fp, NEW gp, HasFP(u, m, fp), HasFP(u, m, gp)
  PROVE  fp = gp
BY SMTT(20) DEF HasFP

(* A mapping that is added is of no series, and of no Push that has its    *)
(* fingerprint: that Push would hold the lock of the raw one.              *)
LEMMA LockRawMapping ==
  ASSUME ControlInv, Mapping, NEW p \in Pushers, lockRaw(p)
  PROVE  Mapping'
<1> DEFINE m == pusher[p].metric
           fp == mapFP(heap[states], m)
           raw == FastFingerprint[m]
           u == heap[states]
           v == addMapping(u, m)
<1>1. /\ At(p, "raw") /\ states \in Objects /\ pusher[p].state = states
      /\ Others(p) /\ pusher'[p].pc = (IF fp = raw THEN "get" ELSE "fp")
      /\ pusher'[p].metric = m /\ pusher'[p].fp = fp
      /\ OtherStates(states) /\ SameSeries(states)
      /\ heap'[states] = v /\ v.highestMappedFP <= MaxMappedFP
      /\ <<states, Mutex[raw]>> \notin fpLocker /\ states' = states
  BY LockRawDoes
<1>2. PushOK(p) /\ m \in Metrics /\ IsState(u)
  BY <1>1 DEF ControlInv, PushOK, Pushing, At, LimitInv, Shape
<1>3. /\ MapOK(u) /\ StateOK(states)
      /\ \A k \in DOMAIN u.fpToSeries : HasFP(u, u.fpToSeries[k].metric, k)
  BY <1>1 DEF Mapping, Series, ControlInv
<1>4. MapOK(v) /\ HasFP(v, m, fp)
  BY <1>1, <1>2, <1>3, AddMappingOK
<1>5. /\ \A n \in Metrics : n # m \/ n \in DOMAIN Mapped(u, n) =>
           /\ (n \in DOMAIN Mapped(v, n)) = (n \in DOMAIN Mapped(u, n))
           /\ n \in DOMAIN Mapped(u, n) => Mapped(v, n)[n] = Mapped(u, n)[n]
      /\ ~(Collides(u, m) /\ m \notin DOMAIN Mapped(u, m)) => v = u
  BY <1>2, <1>3, AddMappingMaps
<1> HIDE DEF v, u, fp
<1>6. ASSUME NEW n \in Metrics, NEW k, HasFP(u, n, k),
             n = m /\ Collides(u, m) /\ m \notin DOMAIN Mapped(u, m) => FALSE
      PROVE  HasFP(v, n, k)
  BY <1>5, <1>6 DEF HasFP
<1>7. ASSUME NEW k, HasFP(u, m, k), m \notin DOMAIN Mapped(u, m)
      PROVE  k = raw /\ raw > MaxMappedFP
  BY <1>7 DEF HasFP
<1>8. MaxMappedFP \in Nat /\ raw \in Nat
  BY <1>2, UserStatesAssumption
<1>9. ASSUME NEW k \in DOMAIN u.fpToSeries PROVE HasFP(v, u.fpToSeries[k].metric, k)
  <2> DEFINE n == u.fpToSeries[k].metric
  <2>1. n \in Metrics /\ HasFP(u, n, k)
    BY <1>3 DEF StateOK, Series, u
  <2>2. ASSUME n = m, Collides(u, m), m \notin DOMAIN Mapped(u, m) PROVE FALSE
    <3>1. k = raw /\ ~(raw <= MaxMappedFP)
      BY <1>7, <1>8, <2>1, <2>2, SMTT(20)
    <3> QED
      BY <2>2, <3>1 DEF Collides
  <2> QED
    BY <1>6, <2>1, <2>2
<1>10. ASSUME NEW s \in Objects
       PROVE  MapOK(heap[s])' /\ \A k \in DOMAIN Series(s)' : HasFP(heap[s]', Series(s)'[k].metric, k)
  <2>1. CASE s = states
    BY <1>1, <1>4, <1>9, <2>1 DEF SameSeries, Series, u
  <2>2. CASE s # states
    BY <1>1, <2>2 DEF OtherStates, Series, Mapping
  <2> QED
    BY <2>1, <2>2
<1>11. ASSUME NEW q \in Pushers
       PROVE  /\ Locks(q)' \/ At(q, "fp")' => HasFP(heap'[states'], pusher'[q].metric, pusher'[q].fp)
              /\ At(q, "fp")' => pusher'[q].fp # FastFingerprint[pusher'[q].metric]
  <2>1. CASE q = p
    BY <1>1, <1>4, <2>1 DEF At
  <2>2. CASE q # p
    <3>1. pusher'[q] = pusher[q] /\ (At(q, "fp") => pusher[q].fp # FastFingerprint[pusher[q].metric])
      BY <1>1, <2>2 DEF Others, Mapping
    <3>2. ASSUME Locks(q) \/ At(q, "fp") PROVE HasFP(v, pusher[q].metric, pusher[q].fp)
      <4>1. HasFP(u, pusher[q].metric, pusher[q].fp) /\ pusher[q].metric \in Metrics
        BY <3>2 DEF Mapping, u, ControlInv, PushOK, Pushing, Locks, At
      <4>2. ASSUME pusher[q].metric = m, Collides(u, m), m \notin DOMAIN Mapped(u, m) PROVE FALSE
        <5>1. pusher[q].fp = raw
          BY <1>7, <4>1, <4>2
        <5>2. Locks(q)
          BY <3>1, <3>2, <4>2, <5>1
        <5>3. PushLock(q) = <<states, Mutex[raw]>> /\ PushLock(q) \in fpLocker
          BY <5>1, <5>2 DEF ControlInv, PushOK, PushLock, Locks, Entered
        <5> QED
          BY <1>1, <5>3
      <4> QED
        BY <1>6, <4>1, <4>2
    <3> QED
      BY <1>1, <3>1, <3>2 DEF Locks, At
  <2> QED
    BY <2>1, <2>2
<1> QED
  BY <1>10, <1>11 DEF Mapping

-----------------------------------------------------------------------------

(* The other steps have no Push and no flush go on.                        *)
LEMMA StepOfNobody ==
  ASSUME ControlInv, LimitInv', MetricsKept, Typed', UNCHANGED <<pusher, flusher, rwmutex, fpLocker>>,
         \A s \in Objects : s # states' => s # states \/ DOMAIN Series(s) = {},
         \A p \in Pushers : Entered(p) => states' = states,
         \A f \in Flushers : Flushing(f) => states' = states
  PROVE  ControlInv'
<1>1. ASSUME NEW s \in Objects PROVE StateOK(s)'
  BY MetricsStates
<1>2. ASSUME NEW p \in Pushers PROVE PushOK(p)'
  <2>1. PushOK(p)
    BY DEF ControlInv
  <2> QED
    BY <2>1, MetricsPush DEF PushOK
<1>3. ASSUME NEW f \in Flushers PROVE FlushOK(f)'
  <2>1. FlushOK(f)
    BY DEF ControlInv
  <2> QED
    BY <2>1, MetricsFlush DEF FlushOK
<1>4. Exclusive'
  BY SMTT(20) DEF ControlInv, Exclusive, PushesApart, FlushesApart, PushFlushApart, Locks, Removing, Leaving, FlushAt,
         PushLock, FlushLock
<1> QED
  BY <1>1, <1>2, <1>3, <1>4 DEF ControlInv

-----------------------------------------------------------------------------
(* Each step keeps Mapping. *)

KeepsMaps == \A s \in Objects : SameMappings(s)

(* A Push keeps its fingerprint.                                           *)
KeepsFP(p) ==
  /\ Locks(p)' \/ At(p, "fp")' =>
       (Locks(p) \/ At(p, "fp")) /\ pusher'[p].fp = pusher[p].fp /\ pusher'[p].metric = pusher[p].metric
  /\ At(p, "fp")' => At(p, "fp")
(* Each step keeps the mappings.                                           *)
LEMMA MappingStep == ControlInv /\ Mapping /\ (Step \/ UNCHANGED vars) => Mapping'
<1>SameMapped.
    ASSUME NEW u, NEW v, u.mappings = v.mappings
    PROVE  /\ \A m, fp : HasFP(u, m, fp) = HasFP(v, m, fp)
           /\ u.highestMappedFP = v.highestMappedFP => MapOK(u) = MapOK(v)
  BY <1>SameMapped DEF HasFP, MapOK, Mapped
<1>OneStateMaps.
    ASSUME \/ heap' = heap
           \/ \E s \in Objects : OtherStates(s) /\ SameMappings(s)
    PROVE  KeepsMaps
  BY <1>OneStateMaps DEF KeepsMaps, OtherStates, SameMappings
(* Most steps of a Push and of a flush change no series but for its        *)
(* samples, and no mapping.                                                *)
<1>PushKeeps.
    ASSUME ControlInv, NEW p \in Pushers,
           lockFP(p) \/ unlockedGet(p) \/ canAddSeriesFor(p) \/ indexSeries(p) \/ append(p)
    PROVE  /\ MetricsKept /\ KeepsMaps /\ states' = states
           /\ \/ Ends(p)
              \/ \E pc \in {"get", "metric", "put", "index", "append"} : Moves(p, pc) /\ (Locks(p) \/ At(p, "fp"))
  <2> USE <1>PushKeeps
  <2>1. CASE lockFP(p)
    <3>1. heap' = heap /\ states' = states /\ Moves(p, "get") /\ At(p, "fp")
      BY <2>1, GoesMoves DEF lockFP, ControlInv
    <3> QED
      BY <3>1, SameMetrics, <1>OneStateMaps
  <2>2. CASE unlockedGet(p)
    <3>1. At(p, "get") /\ Locks(p) /\ LimitInv /\ states' = states
      BY <2>2, SMTT(20) DEF unlockedGet, At, Locks, ControlInv
    <3>2. heap' = heap /\ (Ends(p) \/ Moves(p, "append") \/ Moves(p, "metric"))
      BY <2>2, <3>1, RefusedDoes, GoesMoves DEF unlockedGet
    <3> QED
      BY <3>1, <3>2, SameMetrics, <1>OneStateMaps
  <2>3. CASE canAddSeriesFor(p)
    <3>1. At(p, "metric") /\ Locks(p) /\ states' = states
      BY <2>3 DEF canAddSeriesFor, At, Locks
    <3>2. CASE Refused(p)
      BY <3>1, <3>2, RefusedDoes, SameMetrics, <1>OneStateMaps
    <3>3. CASE ~Refused(p)
      <4>1. Moves(p, "put") /\ states \in Objects /\ OtherStates(states) /\ SameSeries(states) /\ SameMappings(states)
        BY <2>3, <3>3, CanAddSeriesForDoes
      <4> QED
        BY <3>1, <4>1, SameMetrics, <1>OneStateMaps
    <3> QED
      BY <3>2, <3>3, SMTT(20)
  <2>4. CASE indexSeries(p)
    <3>1. /\ At(p, "index") /\ Moves(p, "append") /\ states' = states
          /\ states \in Objects /\ OtherStates(states) /\ SameSeries(states) /\ SameMappings(states)
      BY <2>4, IndexSeriesDoes
    <3>2. Locks(p)
      BY <3>1 DEF At, Locks
    <3> QED
      BY <3>1, <3>2, SameMetrics, <1>OneStateMaps
  <2>5. CASE append(p)
    <3> DEFINE fp == pusher[p].fp
               y == heap[states].fpToSeries[fp].samples \cup {Sample(p)}
    <3>1. /\ states \in Objects /\ Ends(p) /\ states' = states /\ OtherStates(states) /\ SameMappings(states)
          /\ fp \in DOMAIN heap[states].fpToSeries
          /\ OtherSeries(states, fp) /\ fp \in DOMAIN heap'[states].fpToSeries
          /\ heap'[states].fpToSeries[fp] = [metric |-> heap[states].fpToSeries[fp].metric, samples |-> y]
      BY <2>5, AppendDoes
    <3> HIDE DEF y
    <3>2. MetricsKept
      BY <3>1, OneSeriesMetrics
    <3> QED
      BY <3>1, <3>2, <1>OneStateMaps
  <2> QED
    BY <2>1, <2>2, <2>3, <2>4, <2>5
<1>FlushKeeps.
    ASSUME ControlInv, NEW f \in Flushers,
           \/ takeChunks(f) \/ flushChunks(f) \/ dropChunks(f) \/ unindexSeries(f) \/ uncountSeries(f)
           \/ \E fp : flushUserSeries(f, fp)
    PROVE  MetricsKept /\ KeepsMaps /\ states' = states /\ pusher' = pusher
  <2> USE <1>FlushKeeps
  <2>1. CASE takeChunks(f) \/ flushChunks(f) \/ \E fp : flushUserSeries(f, fp)
    <3>1. heap' = heap /\ states' = states /\ pusher' = pusher
      BY <2>1 DEF takeChunks, flushChunks, flushUserSeries
    <3> QED
      BY <3>1, SameMetrics, <1>OneStateMaps
  <2>2. CASE dropChunks(f)
    <3> DEFINE fp == flusher[f].fp
               left == heap[states].fpToSeries[fp].samples \ flusher[f].taken
    <3>1. /\ states \in Objects /\ states' = states /\ pusher' = pusher /\ OtherStates(states) /\ SameMappings(states)
          /\ fp \in DOMAIN heap[states].fpToSeries
          /\ OtherSeries(states, fp) /\ fp \in DOMAIN heap'[states].fpToSeries
          /\ heap'[states].fpToSeries[fp] = [metric |-> heap[states].fpToSeries[fp].metric, samples |-> left]
      BY <2>2, DropChunksDoes
    <3> HIDE DEF left
    <3>2. MetricsKept
      BY <3>1, OneSeriesMetrics
    <3> QED
      BY <3>1, <3>2, <1>OneStateMaps
  <2>3. CASE unindexSeries(f) \/ uncountSeries(f)
    <3>1. \E s \in Objects : OtherStates(s) /\ SameSeries(s) /\ SameMappings(s) /\ states' = states /\ pusher' = pusher
      BY <2>3, UnindexSeriesDoes, UncountSeriesDoes
    <3> QED
      BY <3>1, SameMetrics, <1>OneStateMaps
  <2> QED
    BY <2>1, <2>2, <2>3
<1>MappingFrame.
    ASSUME ControlInv, Mapping,
           \A s \in Objects : SameMappings(s) \/ (heap'[s].mappings = Empty /\ heap'[s].highestMappedFP = 0),
           \A s \in Objects : \A fp \in DOMAIN heap'[s].fpToSeries :
             SameMappings(s) /\ HasFP(heap[s], heap'[s].fpToSeries[fp].metric, fp),
           \A p \in Pushers : KeepsFP(p),
           (\E p \in Pushers : Locks(p)' \/ At(p, "fp")') => states' = states /\ states \in Objects /\ SameMappings(states)
    PROVE  Mapping'
  <2> USE <1>MappingFrame
  <2>1. ASSUME NEW s \in Objects, SameMappings(s)
        PROVE  MapOK(heap'[s]) /\ \A m, fp : HasFP(heap'[s], m, fp) = HasFP(heap[s], m, fp)
    <3>1. MapOK(heap[s])
      BY DEF Mapping
    <3> QED
      BY <2>1, <3>1, <1>SameMapped DEF SameMappings
  <2>2. ASSUME NEW s \in Objects PROVE MapOK(heap'[s])
    <3>1. CASE SameMappings(s)
      BY <2>1, <3>1
    <3>2. CASE heap'[s].mappings = Empty /\ heap'[s].highestMappedFP = 0
      BY <3>2, UserStatesAssumption, SMTT(20) DEF MapOK, Mapped, ValueAt, Empty
    <3> QED
      BY <3>1, <3>2
  <2>3. ASSUME NEW s \in Objects, NEW fp \in DOMAIN heap'[s].fpToSeries
        PROVE  HasFP(heap'[s], heap'[s].fpToSeries[fp].metric, fp)
    BY <2>1, <2>3, SMTT(20)
  <2>4. ASSUME NEW p \in Pushers
        PROVE  /\ Locks(p)' \/ At(p, "fp")' => HasFP(heap'[states'], pusher'[p].metric, pusher'[p].fp)
               /\ At(p, "fp")' => pusher'[p].fp # FastFingerprint[pusher'[p].metric]
    <3>1. /\ Locks(p) \/ At(p, "fp") => HasFP(heap[states], pusher[p].metric, pusher[p].fp)
          /\ At(p, "fp") => pusher[p].fp # FastFingerprint[pusher[p].metric]
      BY DEF Mapping
    <3> QED
      BY <2>1, <3>1, SMTT(20) DEF KeepsFP
  <2> QED
    BY <2>2, <2>3, <2>4 DEF Mapping, Series
<1>KeptMapping.
    ASSUME Mapping, MetricsKept, NEW s \in Objects, NEW fp \in DOMAIN heap'[s].fpToSeries
    PROVE  HasFP(heap[s], heap'[s].fpToSeries[fp].metric, fp)
  BY <1>KeptMapping, KeptMetric DEF Mapping, Series
<1>MappingMoves.
    ASSUME ControlInv, Mapping, KeepsMaps, states' = states, \A p \in Pushers : KeepsFP(p),
           \A s \in Objects : \A fp \in DOMAIN heap'[s].fpToSeries : HasFP(heap[s], heap'[s].fpToSeries[fp].metric, fp)
    PROVE  Mapping'
  <2> USE <1>MappingMoves
  <2>1. ASSUME NEW p \in Pushers, Locks(p)' \/ At(p, "fp")' PROVE states \in Objects
    BY <2>1, SMTT(20) DEF KeepsFP, ControlInv, PushOK, Locks, At, Entered, Typed, TypeOK
  <2>2. \A s \in Objects : SameMappings(s)
    BY DEF KeepsMaps
  <2>3. (\E p \in Pushers : Locks(p)' \/ At(p, "fp")') => states' = states /\ states \in Objects /\ SameMappings(states)
    BY <2>1, <2>2
  <2>4. \A s \in Objects : SameMappings(s) \/ (heap'[s].mappings = Empty /\ heap'[s].highestMappedFP = 0)
    BY <2>2
  <2>5. \A s \in Objects : \A fp \in DOMAIN heap'[s].fpToSeries :
          SameMappings(s) /\ HasFP(heap[s], heap'[s].fpToSeries[fp].metric, fp)
    BY <2>2, SMTT(20)
  <2> QED
    BY <2>3, <2>4, <2>5, <1>MappingFrame
<1>MadeMapping.
    ASSUME ControlInv, Mapping, unlockedGetOrCreate, \A p \in Pushers : KeepsFP(p)
    PROVE  Mapping'
  <2> USE <1>MadeMapping
  <2>1. MetricsKept /\ states' \in Objects /\ (states # 0 => states' = states)
    BY MadeMetrics
  <2>2. CASE states # 0
    <3>1. KeepsMaps
      BY <2>2, StateMade, <1>OneStateMaps, SMTT(20)
    <3> QED
      BY <2>1, <2>2, <3>1, <1>MappingMoves, <1>KeptMapping
  <2>3. CASE states = 0
    <3>1. OtherStates(states') /\ heap'[states'] = NewState
      BY <2>3, StateMade
    <3>2. ASSUME NEW s \in Objects
          PROVE  SameMappings(s) \/ (heap'[s].mappings = Empty /\ heap'[s].highestMappedFP = 0)
      <4>1. NewState.mappings = Empty /\ NewState.highestMappedFP = 0
        BY DEF NewState
      <4>2. s # states' => SameMappings(s)
        BY <3>1 DEF OtherStates, SameMappings
      <4> QED
        BY <3>1, <4>1, <4>2
    <3>3. ASSUME NEW s \in Objects PROVE DOMAIN heap'[s].fpToSeries = {}
      BY <2>1, <2>3, SMTT(20) DEF MetricsKept, ControlInv, StateOK, Series, Objects
    <3>4. \A p \in Pushers : ~(Locks(p)' \/ At(p, "fp")')
      BY <2>3 DEF KeepsFP, ControlInv, PushOK, Locks, At, Entered
    <3> QED
      BY <3>2, <3>3, <3>4, <1>MappingFrame
  <2> QED
    BY <2>2, <2>3
<1>PushMapping.
    ASSUME ControlInv, Mapping, NEW p \in Pushers, Push(p) \/ \E m \in Metrics : getOrCreateSeries(p, m)
    PROVE  Mapping'
  <2> USE <1>PushMapping
  <2>1. CASE lockFP(p) \/ unlockedGet(p) \/ canAddSeriesFor(p) \/ indexSeries(p) \/ append(p)
    <3>1. /\ MetricsKept /\ KeepsMaps /\ states' = states
          /\ \/ Ends(p)
             \/ \E pc \in {"get", "metric", "put", "index", "append"} : Moves(p, pc) /\ (Locks(p) \/ At(p, "fp"))
      BY <2>1, <1>PushKeeps
    <3>2. \A q \in Pushers : KeepsFP(q)
      BY <3>1, SMTT(20) DEF KeepsFP, Ends, Moves, Others, Locks, At
    <3> QED
      BY <3>1, <3>2, <1>MappingMoves, <1>KeptMapping
  <2>2. CASE putSeries(p)
    <3> DEFINE fp == pusher[p].fp
    <3>1. /\ At(p, "put") /\ states \in Objects /\ Moves(p, "index") /\ OtherStates(states) /\ SameMappings(states)
          /\ OtherSeries(states, fp) /\ fp \in DOMAIN heap'[states].fpToSeries
          /\ heap'[states].fpToSeries[fp] = [metric |-> pusher[p].metric, samples |-> {}] /\ states' = states
      BY <2>2, PutSeriesDoes
    <3>2. Locks(p) /\ HasFP(heap[states], pusher[p].metric, fp)
      BY <3>1, SMTT(20) DEF At, Locks, Mapping
    <3>3. KeepsMaps
      BY <3>1, <1>OneStateMaps, SMTT(20)
    <3>4. ASSUME NEW s \in Objects, NEW k \in DOMAIN heap'[s].fpToSeries
          PROVE  HasFP(heap[s], heap'[s].fpToSeries[k].metric, k)
      <4>1. CASE s = states /\ k = fp
        BY <3>1, <3>2, <4>1, SMTT(20)
      <4>2. CASE ~(s = states /\ k = fp)
        <5>1. k \in DOMAIN heap[s].fpToSeries /\ heap'[s].fpToSeries[k] = heap[s].fpToSeries[k]
          BY <3>1, <3>4, <4>2 DEF OtherStates, OtherSeries
        <5> QED
          BY <5>1, SMTT(20) DEF Mapping, Series
      <4> QED
        BY <4>1, <4>2
    <3>5. \A q \in Pushers : KeepsFP(q)
      BY <3>1, <3>2 DEF KeepsFP, Moves, Others, Locks, At
    <3> QED
      BY <3>1, <3>3, <3>4, <3>5, <1>MappingMoves
  <2>3. CASE createState(p)
    <3>1. unlockedGetOrCreate /\ Others(p) /\ pusher'[p].pc = "raw"
      BY <2>3, CreateStateDoes
    <3>2. \A q \in Pushers : KeepsFP(q)
      BY <3>1 DEF KeepsFP, Others, Locks, At
    <3> QED
      BY <3>1, <3>2, <1>MadeMapping
  <2>4. CASE \E m \in Metrics : getOrCreateSeries(p, m)
    <3>1. heap' = heap /\ states' = states /\ Others(p) /\ pusher'[p].pc \in {"raw", "create"}
      BY <2>4, GetOrCreateSeriesDoes, SMTT(20)
    <3>2. MetricsKept /\ KeepsMaps
      BY <3>1, SameMetrics, <1>OneStateMaps, SMTT(20)
    <3>3. \A q \in Pushers : KeepsFP(q)
      BY <3>1, SMTT(20) DEF KeepsFP, Others, Locks, At
    <3> QED
      BY <3>1, <3>2, <3>3, <1>MappingMoves, <1>KeptMapping
  <2> QED
    BY <2>1, <2>2, <2>3, <2>4, LockRawMapping DEF Push
<1>OtherMapping.
    ASSUME ControlInv, Mapping,
           \/ \E f \in Flushers : Flush(f) \/ \E fp : flushUserSeries(f, fp)
           \/ gc \/ getOrCreate \/ Query
    PROVE  Mapping'
  <2> USE <1>OtherMapping
  <2>1. pusher' = pusher
    BY GcDoes DEF Flush, takeChunks, flushChunks, dropChunks, delSeries, unindexSeries, uncountSeries,
                  flushUserSeries, getOrCreate, Query, lookupSeries, forSeriesMatching, queryReturns
  <2>2. \A p \in Pushers : KeepsFP(p)
    BY <2>1 DEF KeepsFP, Locks, At
  <2>3. ASSUME NEW f \in Flushers, delSeries(f) PROVE Mapping'
    <3> DEFINE fp == flusher[f].fp
    <3>1. /\ states \in Objects /\ OtherStates(states) /\ SameMappings(states) /\ states' = states
          /\ OtherSeries(states, fp) /\ fp \notin DOMAIN heap'[states].fpToSeries
      BY <2>3, DelSeriesDoes, SMTT(20)
    <3>2. KeepsMaps
      BY <3>1, <1>OneStateMaps
    <3>3. ASSUME NEW s \in Objects, NEW k \in DOMAIN heap'[s].fpToSeries
          PROVE  HasFP(heap[s], heap'[s].fpToSeries[k].metric, k)
      <4>1. k \in DOMAIN heap[s].fpToSeries /\ heap'[s].fpToSeries[k] = heap[s].fpToSeries[k]
        BY <3>1, <3>3 DEF OtherStates, OtherSeries
      <4> QED
        BY <4>1 DEF Mapping, Series
    <3> QED
      BY <2>2, <3>1, <3>2, <3>3, <1>MappingMoves
  <2>4. ASSUME NEW f \in Flushers, Flush(f) \/ \E fp : flushUserSeries(f, fp), ~delSeries(f) PROVE Mapping'
    <3>1. MetricsKept /\ KeepsMaps /\ states' = states
      BY <2>4, <1>FlushKeeps DEF Flush
    <3> QED
      BY <2>2, <3>1, <1>MappingMoves, <1>KeptMapping
  <2>5. CASE gc
    <3>1. /\ states \in Objects /\ DOMAIN heap[states].fpToSeries = {} /\ OtherStates(states) /\ SameSeries(states)
          /\ heap'[states].mappings = Empty /\ heap'[states].highestMappedFP = 0
      BY <2>5, GcDoes
    <3>2. ASSUME NEW s \in Objects
          PROVE  SameMappings(s) \/ (heap'[s].mappings = Empty /\ heap'[s].highestMappedFP = 0)
      <4>1. s # states => SameMappings(s)
        BY <3>1 DEF OtherStates, SameMappings
      <4> QED
        BY <3>1, <4>1
    <3>3. ASSUME NEW s \in Objects PROVE DOMAIN heap'[s].fpToSeries = {}
      BY <3>1 DEF ControlInv, StateOK, Series, OtherStates, SameSeries
    <3>4. \A p \in Pushers : ~(Locks(p)' \/ At(p, "fp")')
      BY <2>1, <2>5, GcNobody DEF Locks, At, Entered
    <3> QED
      BY <2>2, <3>2, <3>3, <3>4, <1>MappingFrame
  <2>6. CASE getOrCreate
    <3>1. CASE states = 0
      <4>1. unlockedGetOrCreate
        BY <2>6, <3>1 DEF getOrCreate
      <4> QED
        BY <2>2, <4>1, <1>MadeMapping
    <3>2. CASE states # 0
      <4>1. heap' = heap /\ states' = states
        BY <2>6, <3>2 DEF getOrCreate
      <4>2. MetricsKept /\ KeepsMaps
        BY <4>1, SameMetrics, <1>OneStateMaps
      <4> QED
        BY <2>2, <4>1, <4>2, <1>MappingMoves, <1>KeptMapping
    <3> QED
      BY <3>1, <3>2
  <2>7. CASE Query
    <3>1. heap' = heap /\ states' = states
      BY <2>7, QueryDoes
    <3>2. MetricsKept /\ KeepsMaps
      BY <3>1, SameMetrics, <1>OneStateMaps, SMTT(20)
    <3> QED
      BY <2>2, <3>1, <3>2, <1>MappingMoves, <1>KeptMapping, SMTT(20)
  <2> QED
    BY <2>3, <2>4, <2>5, <2>6, <2>7, SMTT(20)
<1> SUFFICES ASSUME ControlInv, Mapping, (Step \/ UNCHANGED vars) PROVE Mapping'
  OBVIOUS
<1>1. CASE UNCHANGED vars
  <2>1. UNCHANGED <<states, heap, pusher>>
    BY <1>1 DEF vars
  <2>2. MetricsKept /\ KeepsMaps
    BY <2>1, SameMetrics, <1>OneStateMaps
  <2>3. \A p \in Pushers : KeepsFP(p)
    BY <2>1 DEF KeepsFP, Locks, At
  <2> QED
    BY <2>1, <2>2, <2>3, <1>MappingMoves, <1>KeptMapping
<1>2. CASE Step
  BY <1>2, <1>PushMapping, <1>OtherMapping DEF Step
<1> QED
  BY <1>1, <1>2

-----------------------------------------------------------------------------

(* Each step keeps Control.                                                *)
LEMMA ControlStep == MapInv /\ LimitInv' /\ Step => ControlInv'
(* A step on one series leaves the others.                                 *)
<1>MetricsElsewhere.
    ASSUME NEW s, NEW fp, OtherSeries(s, fp), NEW k, k # fp
    PROVE  MetricsAt(s, k)
  BY <1>MetricsElsewhere, SMTT(20) DEF OtherSeries, MetricsAt
(* A step of p that takes no lock.                                         *)
<1>ExclusivePush.
    ASSUME ControlInv, NEW p \in Pushers, Others(p), flusher' = flusher,
           Locks(p)' => Locks(p) /\ pusher'[p].fp = pusher[p].fp /\ pusher'[p].state = pusher[p].state
    PROVE  Exclusive'
  <2> USE <1>ExclusivePush
  <2>1. ASSUME NEW q \in Pushers PROVE Locks(q)' => Locks(q) /\ PushLock(q)' = PushLock(q)
    BY DEF Others, Locks, PushLock
  <2>2. ASSUME NEW q \in Pushers, NEW r \in Pushers PROVE PushesApart(q, r)'
    BY <2>1 DEF ControlInv, Exclusive, PushesApart
  <2>3. ASSUME NEW q \in Pushers, NEW f \in Flushers PROVE PushFlushApart(q, f)'
    BY <2>1 DEF ControlInv, Exclusive, PushFlushApart, Removing, Leaving, FlushAt, FlushLock
  <2>4. ASSUME NEW f \in Flushers, NEW g \in Flushers PROVE FlushesApart(f, g)'
    BY DEF ControlInv, Exclusive, FlushesApart, Removing, Leaving, FlushAt, FlushLock
  <2> QED
    BY <2>2, <2>3, <2>4 DEF Exclusive
(* A step of p that takes one.                                             *)
<1>ExclusiveLock.
    ASSUME ControlInv, NEW p \in Pushers, Others(p), flusher' = flusher, PushLock(p)' \notin fpLocker
    PROVE  Exclusive'
  <2> USE <1>ExclusiveLock
  <2>1. ASSUME NEW q \in Pushers, q # p
        PROVE  (Locks(q)' <=> Locks(q)) /\ PushLock(q)' = PushLock(q) /\ (Locks(q) => PushLock(q) \in fpLocker)
    BY <2>1 DEF Others, Locks, PushLock, ControlInv, PushOK
  <2>2. ASSUME NEW f \in Flushers
        PROVE  (Removing(f)' <=> Removing(f)) /\ FlushLock(f)' = FlushLock(f) /\ (Removing(f) => FlushLock(f) \in fpLocker)
    BY DEF Removing, Leaving, FlushAt, FlushLock, ControlInv, FlushOK
  <2>3. ASSUME NEW q \in Pushers, NEW r \in Pushers PROVE PushesApart(q, r)'
    BY <2>1 DEF ControlInv, Exclusive, PushesApart
  <2>4. ASSUME NEW q \in Pushers, NEW f \in Flushers PROVE PushFlushApart(q, f)'
    BY <2>1, <2>2 DEF ControlInv, Exclusive, PushFlushApart
  <2>5. ASSUME NEW f \in Flushers, NEW g \in Flushers PROVE FlushesApart(f, g)'
    BY <2>2 DEF ControlInv, Exclusive, FlushesApart, FlushAt
  <2> QED
    BY <2>3, <2>4, <2>5 DEF Exclusive
<1>PutSeriesControl.
    ASSUME ControlInv, LimitInv', NEW p \in Pushers, putSeries(p)
    PROVE  ControlInv'
  <2> USE <1>PutSeriesControl
  <2> DEFINE fp == pusher[p].fp
  <2>1. /\ At(p, "put") /\ states \in Objects /\ pusher[p].state = states /\ Moves(p, "index")
        /\ OtherStates(states)
        /\ OtherSeries(states, fp) /\ fp \in DOMAIN heap'[states].fpToSeries
        /\ heap'[states].fpToSeries[fp] = [metric |-> pusher[p].metric, samples |-> {}]
        /\ UNCHANGED <<rwmutex, fpLocker, states, flusher, query, queries, owed, pushes>>
    BY PutSeriesDoes
  <2>2. Typed'
    BY <2>1 DEF ControlInv, Typed, TypeOK, Objects, Moves, Others, FlushAt
  <2>3. Exclusive'
    BY <2>1, <1>ExclusivePush DEF Moves, At, Locks
  <2>4. Locks(p) /\ PushOK(p) /\ pusher[p].metric \in Metrics
    BY <2>1 DEF At, Locks, ControlInv, PushOK, Pushing
  <2>5. ASSUME NEW s \in Objects PROVE StateOK(s)'
    <3>1. StateOK(s)
      BY DEF ControlInv
    <3>2. CASE s # states
      BY <2>1, <3>1, <3>2 DEF StateOK, Series, OtherStates
    <3>3. CASE s = states
      <4>1. ASSUME NEW k \in DOMAIN heap'[s].fpToSeries
            PROVE  LET r == heap'[s].fpToSeries[k] IN r = [metric |-> r.metric, samples |-> r.samples] /\ r.metric \in Metrics
        BY <2>1, <2>4, <3>1, <3>3, SMTT(20) DEF StateOK, Series, OtherSeries
      <4> QED
        BY <2>1, <3>3, <4>1 DEF StateOK, Series
    <3> QED
      BY <3>2, <3>3
  <2>6. ASSUME NEW q \in Pushers PROVE PushOK(q)'
    <3>1. CASE q = p
      <4>1. /\ pusher'[p].pc = "index" /\ pusher'[p].metric = pusher[p].metric
            /\ pusher'[p].state = states /\ pusher'[p].fp = fp
        BY <2>1 DEF Moves
      <4>2. /\ states # 0 /\ p \in rwmutex.readers \cup rwmutex.writer /\ PushLock(p) \in fpLocker
        BY <2>1, <2>4 DEF PushOK, Entered, Mutexed, At
      <4>3. heap'[states].fpToSeries[fp].metric = pusher[p].metric
        BY <2>1, SMTT(20)
      <4>4. PushLock(p)' \in fpLocker'
        BY <2>1, <4>1, <4>2 DEF PushLock
      <4>5. PushOK(p)'
        BY <2>1, <2>4, <4>1, <4>2, <4>3, <4>4 DEF PushOK, Series
      <4> QED
        BY <3>1, <4>5
    <3>2. CASE q # p
      <4>1. Locks(q) => pusher[q].fp # fp /\ PushLock(q) \in fpLocker
        BY <3>2, <2>1, <2>4 DEF ControlInv, Exclusive, PushesApart, PushLock, PushOK, Locks, Entered
      <4>2. pusher'[q] = pusher[q] /\ (Mutexed(q) => q \in rwmutex.readers \cup rwmutex.writer)
        BY <3>2, <2>1 DEF Moves, Others, ControlInv, PushOK
      <4>3. Locks(q) => MetricsAt(states, pusher[q].fp)
        BY <2>1, <4>1, <1>MetricsElsewhere
      <4> QED
        BY <2>1, <4>1, <4>2, <4>3, PushFrame
    <3> QED
      BY <3>1, <3>2
  <2>7. ASSUME NEW f \in Flushers PROVE FlushOK(f)'
    <3>1. FlushOK(f)
      BY DEF ControlInv
    <3>2. Leaving(f) /\ flusher[f].state = states => flusher[f].fp # fp
      BY <2>1, <2>4 DEF ControlInv, Exclusive, PushFlushApart, PushLock, FlushLock, Removing
    <3>3. Flushing(f) => flusher[f].fp \in DOMAIN heap'[states].fpToSeries
      BY <2>1, <3>1 DEF FlushOK, OtherSeries, Series
    <3>4. Leaving(f) => flusher[f].fp \notin DOMAIN heap'[flusher[f].state].fpToSeries
      BY <2>1, <3>1, <3>2 DEF FlushOK, OtherSeries, OtherStates, Series
    <3> QED
      BY <2>1, <3>1, <3>3, <3>4, FlushFrame DEF FlushOK
  <2> QED
    BY <2>2, <2>3, <2>5, <2>6, <2>7 DEF ControlInv
(* A step of one Push: what is left to show is about that Push.            *)
<1>StepOfPush.
    ASSUME ControlInv, LimitInv', NEW p \in Pushers, Others(p), flusher' = flusher, MetricsKept,
           states # 0 => states' = states, Typed', Exclusive', PushOK(p)',
           \A q \in Pushers \ {p} : q \in rwmutex.readers \cup rwmutex.writer =>
                                      q \in rwmutex'.readers \cup rwmutex'.writer,
           \/ fpLocker \subseteq fpLocker'
           \/ Locks(p) /\ fpLocker' = fpLocker \ {PushLock(p)}
    PROVE  ControlInv'
  <2> USE <1>StepOfPush
  <2>1. ASSUME NEW s \in Objects PROVE StateOK(s)'
    <3>1. s # 0
      BY SMTT(20) DEF Objects
    <3> QED
      BY <3>1, MetricsStates
  <2>2. ASSUME NEW q \in Pushers PROVE PushOK(q)'
    <3>1. CASE q # p
      <4>1. pusher'[q] = pusher[q] /\ PushOK(q) /\ PushesApart(q, p)
        BY <3>1 DEF Others, ControlInv, Exclusive
      <4>2. Locks(q) => PushLock(q) \in fpLocker'
        BY <3>1, <4>1 DEF PushOK, PushesApart
      <4>3. Mutexed(q) => q \in rwmutex'.readers \cup rwmutex'.writer
        BY <3>1, <4>1 DEF PushOK
      <4> QED
        BY <4>1, <4>2, <4>3, MetricsPush DEF PushOK
    <3> QED
      BY <3>1
  <2>3. ASSUME NEW f \in Flushers PROVE FlushOK(f)'
    <3>1. FlushOK(f) /\ PushFlushApart(p, f)
      BY DEF ControlInv, Exclusive
    <3>2. Removing(f) => FlushLock(f) \in fpLocker'
      BY <3>1 DEF FlushOK, PushFlushApart
    <3> QED
      BY <3>1, <3>2, MetricsFlush DEF FlushOK
  <2> QED
    BY <2>1, <2>2, <2>3 DEF ControlInv
(* The same for a flush.                                                   *)
<1>StepOfFlush.
    ASSUME ControlInv, LimitInv', NEW f \in Flushers, OtherFlushers(f), MetricsKept, Typed', Exclusive', FlushOK(f)',
           UNCHANGED <<pusher, states, rwmutex>>,
           \/ fpLocker \subseteq fpLocker'
           \/ Removing(f) /\ fpLocker' = fpLocker \ {FlushLock(f)}
    PROVE  ControlInv'
  <2> USE <1>StepOfFlush
  <2>1. ASSUME NEW s \in Objects PROVE StateOK(s)'
    BY MetricsStates
  <2>2. ASSUME NEW q \in Pushers PROVE PushOK(q)'
    <3>1. PushOK(q) /\ PushFlushApart(q, f)
      BY DEF ControlInv, Exclusive
    <3>2. Locks(q) => PushLock(q) \in fpLocker'
      BY <3>1 DEF PushOK, PushFlushApart
    <3>3. Mutexed(q) => q \in rwmutex'.readers \cup rwmutex'.writer
      BY <3>1 DEF PushOK
    <3> QED
      BY <3>2, <3>3, MetricsPush
  <2>3. ASSUME NEW g \in Flushers PROVE FlushOK(g)'
    <3>1. CASE g # f
      <4>1. flusher'[g] = flusher[g] /\ FlushOK(g) /\ FlushesApart(g, f)
        BY <3>1 DEF OtherFlushers, ControlInv, Exclusive
      <4>2. Removing(g) => FlushLock(g) \in fpLocker'
        BY <3>1, <4>1 DEF FlushOK, FlushesApart
      <4> QED
        BY <4>1, <4>2, MetricsFlush
    <3> QED
      BY <3>1
  <2> QED
    BY <2>1, <2>2, <2>3 DEF ControlInv
(* Two metrics with one fingerprint have it from the hash.                 *)
<1>SameFP.
    ASSUME NEW u, MapOK(u), NEW m \in Metrics, NEW n \in Metrics, NEW fp, HasFP(u, m, fp), HasFP(u, n, fp), m # n
    PROVE  m \notin DOMAIN Mapped(u, m) /\ fp = FastFingerprint[m]
  <2> USE <1>SameFP
  <2>1. MaxMappedFP \in Nat /\ FastFingerprint[m] \in Nat /\ FastFingerprint[n] \in Nat
    BY UserStatesAssumption
  <2> QED
    BY <2>1, SMTT(20) DEF HasFP, MapOK
(* Each step of a Push keeps Control. *)
(* A Push that locks its fingerprint finds no series of another metric     *)
(* there.                                                                  *)
<1>FoundIsMine.
    ASSUME ControlInv, Mapping, NEW m \in Metrics, NEW fp, states \in Objects, HasFP(heap[states], m, fp),
           fp \in DOMAIN heap[states].fpToSeries,
           m \in DOMAIN Mapped(heap[states], m) \/ ~Collides(heap[states], m)
    PROVE  heap[states].fpToSeries[fp].metric = m
  <2> USE <1>FoundIsMine
  <2> DEFINE n == heap[states].fpToSeries[fp].metric
  <2>1. n \in Metrics /\ HasFP(heap[states], n, fp) /\ MapOK(heap[states])
    BY DEF ControlInv, StateOK, Mapping, Series
  <2>2. ASSUME n # m PROVE FALSE
    <3>1. m \notin DOMAIN Mapped(heap[states], m) /\ fp = FastFingerprint[m]
      BY <2>1, <2>2, <1>SameFP
    <3> QED
      BY <2>2, <3>1 DEF Collides
  <2> QED
    BY <2>2
<1>LockRawControl.
    ASSUME ControlInv, Mapping, LimitInv', NEW p \in Pushers, lockRaw(p)
    PROVE  ControlInv'
  <2> USE <1>LockRawControl
  <2> DEFINE m == pusher[p].metric
             fp == mapFP(heap[states], m)
             raw == FastFingerprint[m]
  <2>1. /\ At(p, "raw") /\ states \in Objects /\ pusher[p].state = states
        /\ Others(p) /\ pusher'[p].pc = (IF fp = raw THEN "get" ELSE "fp")
        /\ pusher'[p].sample = pusher[p].sample /\ pusher'[p].metric = m
        /\ pusher'[p].state = states /\ pusher'[p].fp = fp
        /\ OtherStates(states) /\ SameSeries(states)
        /\ <<states, Mutex[raw]>> \notin fpLocker
        /\ fpLocker' = IF fp = raw THEN fpLocker \cup {<<states, Mutex[raw]>>} ELSE fpLocker
        /\ UNCHANGED <<states, rwmutex, flusher, query, queries, owed, pushes>>
    BY LockRawDoes
  <2>2. PushOK(p) /\ m \in Metrics
    BY <2>1 DEF ControlInv, PushOK, Pushing, At
  <2>3. ASSUME fp = raw, raw \in DOMAIN heap[states].fpToSeries PROVE heap[states].fpToSeries[raw].metric = m
    <3> DEFINE u == heap[states]
               v == addMapping(u, m)
               n == u.fpToSeries[raw].metric
    <3>1. MapOK(u) /\ IsState(u) /\ n \in Metrics
      BY <2>1, <2>3 DEF Mapping, Series, ControlInv, StateOK, LimitInv, Shape
    <3>2. heap'[states] = v /\ v.highestMappedFP <= MaxMappedFP /\ v.fpToSeries = u.fpToSeries
      BY LockRawDoes DEF SameSeries
    <3>3. \A k \in DOMAIN u.fpToSeries : HasFP(u, u.fpToSeries[k].metric, k)
      BY <2>1 DEF Mapping, Series
    <3>4. MapOK(v) /\ HasFP(v, m, raw)
      BY <2>2, <2>3, <3>1, <3>2, <3>3, AddMappingOK
    <3>5. HasFP(v, n, raw)
      <4>1. Mapping'
        BY LockRawMapping
      <4> QED
        BY <2>1, <2>3, <3>2, <4>1 DEF Mapping, Series
    <3>6. Collides(u, m) /\ m \notin DOMAIN Mapped(u, m) => m \in DOMAIN Mapped(v, m)
      BY <2>2, <3>1, AddMappingMaps
    <3>7. m \in DOMAIN Mapped(u, m) => m \in DOMAIN Mapped(v, m)
      BY <2>2, <3>1, AddMappingMaps
    <3> HIDE DEF u, v, n
    <3>8. ASSUME n # m PROVE FALSE
      <4>1. m \notin DOMAIN Mapped(v, m)
        BY <2>2, <3>1, <3>4, <3>5, <3>8, <1>SameFP, SMTT(20)
      <4>2. ~Collides(u, m)
        BY <3>6, <3>7, <4>1
      <4> QED
        BY <2>3, <3>8, <4>2 DEF Collides, u, n
    <3> QED
      BY <3>8 DEF n, u
  <2> HIDE DEF fp
  <2>4. Typed'
    BY <2>1, SMTT(20) DEF ControlInv, Typed, TypeOK, Objects, Others, FlushAt
  <2>5. MetricsKept
    BY <2>1, SameMetrics
  <2>6. Exclusive'
    <3>1. CASE fp = raw
      BY <2>1, <3>1, <1>ExclusiveLock DEF PushLock
    <3>2. CASE fp # raw
      BY <2>1, <3>2, <1>ExclusivePush DEF Locks
    <3> QED
      BY <3>1, <3>2
  <2>7. PushOK(p)'
    <3>1. CASE fp = raw
      <4>1. PushLock(p)' \in fpLocker' /\ pusher'[p].pc = "get"
        BY <2>1, <3>1 DEF PushLock
      <4>2. pusher'[p].fp \in DOMAIN Series(states)' => Series(states)'[pusher'[p].fp].metric = m
        BY <2>1, <2>3, <3>1 DEF Series, SameSeries
      <4> QED
        BY <2>1, <2>2, <4>1, <4>2 DEF PushOK, Pushing, At, Entered, Mutexed, Locks
    <3>2. CASE fp # raw
      BY <2>1, <2>2, <3>2 DEF PushOK, Pushing, At, Entered, Mutexed, Locks
    <3> QED
      BY <3>1, <3>2
  <2> QED
    BY <2>1, <2>4, <2>5, <2>6, <2>7, <1>StepOfPush
<1>LockFPControl.
    ASSUME ControlInv, Mapping, LimitInv', NEW p \in Pushers, lockFP(p)
    PROVE  ControlInv'
  <2> USE <1>LockFPControl
  <2> DEFINE m == pusher[p].metric
             fp == pusher[p].fp
  <2>1. /\ At(p, "fp") /\ Moves(p, "get") /\ heap' = heap
        /\ PushLock(p) \notin fpLocker /\ fpLocker' = fpLocker \cup {PushLock(p)}
        /\ UNCHANGED <<states, rwmutex, flusher, query, queries, owed, pushes>>
    BY GoesMoves DEF lockFP, Free, Holding, PushLock, ControlInv
  <2>2. PushOK(p) /\ m \in Metrics /\ Entered(p) /\ states \in Objects /\ pusher[p].state = states
    BY <2>1 DEF ControlInv, PushOK, Pushing, At, Entered, Typed, TypeOK
  <2>3. HasFP(heap[states], m, fp) /\ m \in DOMAIN Mapped(heap[states], m)
    BY <2>1 DEF Mapping, HasFP
  <2>4. fp \in DOMAIN Series(states) => Series(states)[fp].metric = m
    BY <2>2, <2>3, <1>FoundIsMine DEF Series
  <2>5. Typed'
    BY <2>1, <2>2, SMTT(20) DEF ControlInv, Typed, TypeOK, Objects, Moves, Others, FlushAt, PushLock
  <2>6. MetricsKept
    BY <2>1, SameMetrics
  <2>7. Exclusive'
    BY <2>1, <1>ExclusiveLock DEF PushLock, Moves
  <2>8. PushOK(p)'
    BY <2>1, <2>2, <2>4 DEF PushOK, Moves, Pushing, At, Entered, Mutexed, Locks, PushLock, Series
  <2> QED
    BY <2>1, <2>5, <2>6, <2>7, <2>8, <1>StepOfPush DEF Moves
(* A Push that goes on, or that fails.                                     *)
<1>PushTyped.
    ASSUME ControlInv, NEW p \in Pushers, Others(p),
           pusher'[p].pc \in {"idle", "create", "raw", "fp", "get", "metric", "put", "index", "append"},
           rwmutex' \in {rwmutex, Done(p)}, fpLocker' \subseteq fpLocker,
           UNCHANGED <<states, flusher, query, queries, owed, pushes>>
    PROVE  Typed' /\ \A q \in Pushers \ {p} : q \in rwmutex.readers \cup rwmutex.writer =>
                                                q \in rwmutex'.readers \cup rwmutex'.writer
  <2> USE <1>PushTyped
  <2>1. Typed
    BY DEF ControlInv
  <2>2. /\ rwmutex' = [readers |-> rwmutex'.readers, writer |-> rwmutex'.writer]
        /\ rwmutex'.readers \subseteq Pushers /\ rwmutex'.writer \subseteq Pushers
        /\ rwmutex'.readers = {} \/ rwmutex'.writer = {}
    BY <2>1, SMTT(20) DEF Done, Typed, TypeOK
  <2>3. TypeOK'
    BY <2>1, <2>2 DEF Typed, TypeOK, Others, Objects, FlushAt
  <2> QED
    BY <2>1, <2>2, <2>3, SMTT(20) DEF Typed, Done
<1>RefusedControl.
    ASSUME ControlInv, LimitInv', NEW p \in Pushers, Locks(p), Refused(p),
           UNCHANGED <<states, flusher, query, queries, owed, pushes>>
    PROVE  ControlInv'
  <2> USE <1>RefusedControl
  <2>1. Ends(p) /\ heap' = heap /\ rwmutex' = Done(p) /\ fpLocker' = fpLocker \ {PushLock(p)}
    BY RefusedDoes
  <2>2. Typed' /\ \A q \in Pushers \ {p} : q \in rwmutex.readers \cup rwmutex.writer =>
                                             q \in rwmutex'.readers \cup rwmutex'.writer
    BY <2>1, <1>PushTyped DEF Ends
  <2>3. Exclusive'
    BY <2>1, <1>ExclusivePush DEF Ends, Locks
  <2>4. PushOK(p)'
    BY <2>1 DEF Ends, PushOK, Pushing, At, Entered, Mutexed, Locks
  <2>5. MetricsKept
    BY <2>1, SameMetrics
  <2> QED
    BY <2>1, <2>2, <2>3, <2>4, <2>5, <1>StepOfPush DEF Ends
<1>UnlockedGetControl.
    ASSUME ControlInv, LimitInv', NEW p \in Pushers, unlockedGet(p)
    PROVE  ControlInv'
  <2> USE <1>UnlockedGetControl
  <2>1. At(p, "get") /\ Locks(p) /\ LimitInv /\ UNCHANGED <<states, flusher, query, queries, owed, pushes>>
    BY DEF unlockedGet, At, Locks, ControlInv
  <2>2. ASSUME ~Refused(p)
        PROVE  /\ heap' = heap /\ fpLocker' = fpLocker /\ rwmutex' \in {rwmutex, Done(p)}
               /\ \/ pusher[p].fp \in DOMAIN State(p).fpToSeries /\ Moves(p, "append")
                  \/ pusher[p].fp \notin DOMAIN State(p).fpToSeries /\ Moves(p, "metric") /\ rwmutex' = rwmutex
    BY <2>1, <2>2, GoesMoves DEF unlockedGet
  <2>3. CASE Refused(p)
    BY <2>1, <2>3, <1>RefusedControl
  <2>4. CASE ~Refused(p)
    <3>1. pusher'[p].pc \in {"append", "metric"} /\ Others(p)
          /\ pusher'[p].fp = pusher[p].fp /\ pusher'[p].state = pusher[p].state
      BY <2>2, <2>4 DEF Moves
    <3>2. Typed' /\ \A q \in Pushers \ {p} : q \in rwmutex.readers \cup rwmutex.writer =>
                                               q \in rwmutex'.readers \cup rwmutex'.writer
      BY <2>1, <2>2, <2>4, <3>1, <1>PushTyped
    <3>3. Exclusive'
      BY <2>1, <3>1, <1>ExclusivePush
    <3>4. PushOK(p)'
      <4>1. PushOK(p) /\ State(p) = heap[states]
        BY <2>1, EnteredState DEF ControlInv, Entered, At
      <4> QED
        BY <2>1, <2>2, <2>4, <4>1 DEF Moves, PushOK, Pushing, At, Entered, Mutexed, Locks, PushLock, Series
    <3>5. MetricsKept
      BY <2>2, <2>4, SameMetrics
    <3> QED
      BY <2>1, <2>2, <2>4, <3>1, <3>2, <3>3, <3>4, <3>5, <1>StepOfPush
  <2> QED
    BY <2>3, <2>4
<1>CanAddSeriesForControl.
    ASSUME ControlInv, LimitInv', NEW p \in Pushers, canAddSeriesFor(p)
    PROVE  ControlInv'
  <2> USE <1>CanAddSeriesForControl
  <2>1. At(p, "metric") /\ Locks(p) /\ UNCHANGED <<states, flusher, query, queries, owed, pushes>>
    BY DEF canAddSeriesFor, At, Locks
  <2>2. CASE Refused(p)
    BY <2>1, <2>2, <1>RefusedControl
  <2>3. CASE ~Refused(p)
    <3>1. /\ states \in Objects /\ Moves(p, "put") /\ OtherStates(states) /\ SameSeries(states)
          /\ UNCHANGED <<rwmutex, fpLocker>>
      BY <2>3, CanAddSeriesForDoes
    <3>2. Typed'
      BY <2>1, <3>1, <1>PushTyped DEF Moves
    <3>3. Exclusive'
      BY <2>1, <3>1, <1>ExclusivePush DEF Moves
    <3>4. PushOK(p)'
      BY <2>1, <3>1 DEF ControlInv, Moves, PushOK, Pushing, At, Entered, Mutexed, Locks, PushLock, Series, SameSeries
    <3>5. MetricsKept
      BY <3>1, SameMetrics
    <3> QED
      BY <2>1, <3>1, <3>2, <3>3, <3>4, <3>5, <1>StepOfPush DEF Moves
  <2> QED
    BY <2>2, <2>3, SMTT(20)
<1>IndexSeriesControl.
    ASSUME ControlInv, LimitInv', NEW p \in Pushers, indexSeries(p)
    PROVE  ControlInv'
  <2> USE <1>IndexSeriesControl
  <2>1. /\ At(p, "index") /\ states \in Objects /\ Moves(p, "append") /\ OtherStates(states) /\ SameSeries(states)
        /\ rwmutex' = Done(p) /\ UNCHANGED <<fpLocker, states, flusher, query, queries, owed, pushes>>
    BY IndexSeriesDoes
  <2>2. Typed' /\ \A q \in Pushers \ {p} : q \in rwmutex.readers \cup rwmutex.writer =>
                                             q \in rwmutex'.readers \cup rwmutex'.writer
    BY <2>1, <1>PushTyped DEF Moves
  <2>3. Exclusive'
    BY <2>1, <1>ExclusivePush DEF Moves, Locks, At
  <2>4. PushOK(p)'
    BY <2>1 DEF ControlInv, Moves, PushOK, Pushing, At, Entered, Mutexed, Locks, PushLock, Series, SameSeries
  <2>5. MetricsKept
    BY <2>1, SameMetrics
  <2> QED
    BY <2>1, <2>2, <2>3, <2>4, <2>5, <1>StepOfPush DEF Moves
<1>AppendControl.
    ASSUME ControlInv, Numbered, LimitInv', NEW p \in Pushers, append(p)
    PROVE  ControlInv'
  <2> USE <1>AppendControl
  <2> DEFINE fp == pusher[p].fp
             y == heap[states].fpToSeries[fp].samples \cup {Sample(p)}
  <2>1. /\ At(p, "append") /\ states \in Objects /\ Ends(p) /\ OtherStates(states)
        /\ fp \in DOMAIN heap[states].fpToSeries
        /\ OtherSeries(states, fp) /\ fp \in DOMAIN heap'[states].fpToSeries
        /\ heap'[states].fpToSeries[fp] = [metric |-> heap[states].fpToSeries[fp].metric, samples |-> y]
        /\ owed' = owed \cup {Sample(p)} /\ fpLocker' = fpLocker \ {PushLock(p)}
        /\ UNCHANGED <<rwmutex, states, flusher, query, queries, pushes>>
    BY AppendDoes
  <2>2. Typed'
    <3>1. Sample(p) \in (1..Len(Offered)) \X Metrics
      <4>1. pusher[p].sample \in 1..pushes /\ pusher[p].metric \in Metrics
        BY <2>1 DEF Numbered, ControlInv, PushOK, Pushing, At
      <4>2. pushes \in 0..Len(Offered) /\ Len(Offered) \in Nat
        BY UserStatesAssumption, SMTT(20) DEF ControlInv, Typed, TypeOK
      <4> QED
        BY <4>1, <4>2, SMTT(20) DEF Sample
    <3>2. Typed
      BY DEF ControlInv
    <3>3. TypeOK'
      BY <2>1, <3>1, <3>2 DEF Ends, Others, Typed, TypeOK, Objects, FlushAt
    <3> QED
      BY <2>1, <3>2, <3>3 DEF Typed
  <2> HIDE DEF y
  <2>3. Exclusive'
    BY <2>1, <1>ExclusivePush DEF Ends, Locks
  <2>4. PushOK(p)'
    BY <2>1 DEF Ends, PushOK, Pushing, At, Entered, Mutexed, Locks
  <2>5. MetricsKept
    BY <2>1, OneSeriesMetrics
  <2>6. Locks(p)
    BY <2>1 DEF Locks, At
  <2> QED
    BY <2>1, <2>2, <2>3, <2>4, <2>5, <2>6, <1>StepOfPush DEF Ends
(* The steps that get, make and remove a state keep Control. *)
<1>CreateStateControl.
    ASSUME ControlInv, LimitInv', NEW p \in Pushers, createState(p)
    PROVE  ControlInv'
  <2> USE <1>CreateStateControl
  <2>1. /\ At(p, "create") /\ unlockedGetOrCreate /\ rwmutex.writer = {} /\ rwmutex.readers = {}
        /\ Others(p) /\ pusher'[p].pc = "raw" /\ pusher'[p].state = states' /\ pusher'[p].metric = pusher[p].metric
        /\ rwmutex' = [readers |-> {}, writer |-> {p}]
        /\ UNCHANGED <<fpLocker, flusher, query, queries, owed, pushes>>
    BY CreateStateDoes
  <2>2. MetricsKept /\ states' \in Objects /\ (states # 0 => states' = states)
    BY <2>1, MadeMetrics
  <2>3. Typed'
    BY <2>1, <2>2 DEF ControlInv, Typed, TypeOK, Objects, Others, FlushAt
  <2>4. Exclusive'
    BY <2>1, <1>ExclusivePush DEF Locks
  <2>5. PushOK(p)'
    BY <2>1, <2>2, SMTT(20) DEF ControlInv, PushOK, Pushing, At, Entered, Mutexed, Locks, Objects
  <2> QED
    BY <2>1, <2>2, <2>3, <2>4, <2>5, <1>StepOfPush
<1>GetOrCreateSeriesControl.
    ASSUME ControlInv, LimitInv', NEW p \in Pushers, NEW m \in Metrics, getOrCreateSeries(p, m)
    PROVE  ControlInv'
  <2> USE <1>GetOrCreateSeriesControl
  <2>1. /\ At(p, "idle") /\ Others(p) /\ pushes < Len(Offered) /\ pushes' = pushes + 1 /\ pushes \in Nat
        /\ pusher'[p].metric = m
        /\ \/ /\ states # 0 /\ pusher'[p].pc = "raw" /\ pusher'[p].state = states /\ rwmutex.writer = {}
              /\ rwmutex' = [readers |-> rwmutex.readers \cup {p}, writer |-> {}]
           \/ pusher'[p].pc = "create" /\ rwmutex' = rwmutex
        /\ UNCHANGED <<states, heap, fpLocker, flusher, query, queries, owed>>
    BY GetOrCreateSeriesDoes
  <2>2. Typed'
    <3>1. Typed /\ pushes' \in 0..Len(Offered)
      BY <2>1, UserStatesAssumption, SMTT(20) DEF ControlInv
    <3>2. /\ rwmutex' = [readers |-> rwmutex'.readers, writer |-> rwmutex'.writer]
          /\ rwmutex'.readers \subseteq Pushers /\ rwmutex'.writer \subseteq Pushers
          /\ rwmutex'.readers = {} \/ rwmutex'.writer = {}
      BY <2>1, <3>1, SMTT(20) DEF Typed, TypeOK
    <3>3. TypeOK'
      BY <2>1, <3>1, <3>2 DEF Typed, TypeOK, Others, Objects, FlushAt
    <3> QED
      BY <2>1, <3>1, <3>2, <3>3 DEF Typed
  <2>3. Exclusive'
    BY <2>1, <1>ExclusivePush DEF Locks
  <2>4. PushOK(p)'
    BY <2>1, SMTT(20) DEF PushOK, Pushing, At, Entered, Mutexed, Locks
  <2>5. MetricsKept
    BY <2>1, SameMetrics
  <2>6. \A q \in Pushers \ {p} : q \in rwmutex.readers \cup rwmutex.writer => q \in rwmutex'.readers \cup rwmutex'.writer
    BY <2>1, SMTT(20)
  <2> QED
    BY <2>1, <2>2, <2>3, <2>4, <2>5, <2>6, <1>StepOfPush
<1>GcControl.
    ASSUME ControlInv, LimitInv', gc
    PROVE  ControlInv'
  <2> USE <1>GcControl
  <2>1. /\ states \in Objects /\ states' = 0 /\ DOMAIN heap[states].fpToSeries = {}
        /\ OtherStates(states) /\ SameSeries(states)
        /\ UNCHANGED <<rwmutex, fpLocker, pusher, flusher, query, queries, owed, pushes>>
    BY GcDoes
  <2>2. Typed'
    BY <2>1 DEF ControlInv, Typed, TypeOK, Objects, FlushAt
  <2>3. MetricsKept
    BY <2>1, SameMetrics
  <2>4. \A s \in Objects : s # states' => s # states \/ DOMAIN Series(s) = {}
    BY <2>1 DEF Series
  <2> QED
    BY <2>1, <2>2, <2>3, <2>4, GcNobody, StepOfNobody
<1>GetOrCreateControl.
    ASSUME ControlInv, LimitInv', getOrCreate
    PROVE  ControlInv'
  <2> USE <1>GetOrCreateControl
  <2>0. \/ states # 0 /\ states' = states /\ heap' = heap
        \/ states = 0 /\ unlockedGetOrCreate
    BY GetOrCreateDoes
  <2>b. (states # 0 => states' = states) /\ MetricsKept
    BY <2>0, SameMetrics, MadeMetrics
  <2>1. /\ queries < MaxQueries /\ queries' = queries + 1
        /\ states' \in Objects /\ (states # 0 => states' = states) /\ MetricsKept
        /\ query' = [pc |-> "lookup", state |-> states', fps |-> {}, result |-> {},
                     before |-> {x \in owed : Matching(x[2])}]
        /\ UNCHANGED <<rwmutex, fpLocker, pusher, flusher, owed, pushes>>
    BY <2>b, GetOrCreateDoes
  <2>2. IsQuery(query) /\ queries' \in 0..MaxQueries
    BY <2>1, UserStatesAssumption, SMTT(20) DEF ControlInv, Typed, TypeOK
  <2>a. IsQuery(query') /\ query'.pc = "lookup"
    BY <2>1, <2>2, QueryFields
  <2>3. Typed'
    BY <2>1, <2>2, <2>a DEF ControlInv, Typed, TypeOK, Objects, FlushAt
  <2>4. \A s \in Objects : s # states' => s # states \/ DOMAIN Series(s) = {}
    BY <2>1, SMTT(20) DEF Objects
  <2>5. /\ \A p \in Pushers : Entered(p) => states' = states
        /\ \A f \in Flushers : Flushing(f) => states' = states
    BY <2>1 DEF ControlInv, PushOK, FlushOK
  <2> QED
    BY <2>1, <2>3, <2>4, <2>5, StepOfNobody
<1>QueryControl.
    ASSUME ControlInv, LimitInv', Query
    PROVE  ControlInv'
  <2> USE <1>QueryControl
  <2>1. /\ UNCHANGED <<states, heap, rwmutex, fpLocker, pusher, flusher, queries, owed, pushes>>
        /\ IsQuery(query') /\ query'.pc \in {"idle", "series"}
    BY QueryDoes
  <2>2. Typed'
    BY <2>1 DEF ControlInv, Typed, TypeOK, Objects, FlushAt
  <2>3. MetricsKept
    BY <2>1, SameMetrics
  <2> QED
    BY <2>1, <2>2, <2>3, StepOfNobody
(* Each step of a flush keeps Control. *)
<1>FlushFields.
    ASSUME NEW x, IsFlush(x), NEW a, NEW b
    PROVE  IsFlush([x EXCEPT !.pc = a]) /\ IsFlush([x EXCEPT !.pc = a, !.taken = b])
  BY <1>FlushFields DEF IsFlush, FlushNames
<1>FlushShape.
    ASSUME ControlInv, NEW f \in Flushers, Flush(f) \/ \E fp : flushUserSeries(f, fp)
    PROVE  flusher' = [g \in Flushers |-> flusher'[g]] /\ \A g \in Flushers : IsFlush(flusher'[g])
  <2> USE <1>FlushShape
  <2>1. IsFlush(flusher[f]) /\ IsFlush(NoFlush)
    BY DEF ControlInv, Typed, IsFlush, FlushNames, NoFlush
  <2>2. ASSUME NEW fp PROVE IsFlush([pc |-> "take", state |-> states, fp |-> fp, taken |-> {}])
    BY DEF IsFlush, FlushNames
  <2> DEFINE Y(a) == [flusher[f] EXCEPT !.pc = a]
             Z(a, b) == [flusher[f] EXCEPT !.pc = a, !.taken = b]
             X == {Y("drop"), Y("del"), Y("uncount"), NoFlush,
                   Z("store", Flushed(f).fpToSeries[flusher[f].fp].samples),
                   Z("unindex", {Flushed(f).fpToSeries[flusher[f].fp].metric})}
  <2>3. \A x \in X : IsFlush(x)
    <3>1. ASSUME NEW a, NEW b PROVE IsFlush(Y(a)) /\ IsFlush(Z(a, b))
      BY <2>1, <1>FlushFields
    <3> HIDE DEF Y, Z
    <3> QED
      BY <2>1, <3>1, SMTT(20)
  <2>4. \E x : IsFlush(x) /\ flusher' = [flusher EXCEPT ![f] = x]
    <3>1. CASE \E fp : flushUserSeries(f, fp)
      BY <2>2, <3>1 DEF flushUserSeries
    <3>2. CASE Flush(f)
      <4>1. \E x \in X : flusher' = [flusher EXCEPT ![f] = x]
        BY <3>2 DEF Flush, takeChunks, flushChunks, dropChunks, delSeries, unindexSeries, uncountSeries, Flushes
      <4> QED
        BY <2>3, <4>1
    <3> QED
      BY <3>1, <3>2
  <2> QED
    BY <2>4 DEF ControlInv, Typed
(* A flush that goes on.                                                   *)
<1>FlushTyped.
    ASSUME ControlInv, NEW f \in Flushers, Flush(f) \/ \E fp : flushUserSeries(f, fp), OtherFlushers(f),
           flusher'[f].pc \in {"idle", "take", "store", "drop", "del", "unindex", "uncount"},
           \A l \in fpLocker' : l[1] \in Objects, owed' \subseteq owed,
           UNCHANGED <<states, rwmutex, pusher, query, queries, pushes>>
    PROVE  Typed'
  <2> USE <1>FlushTyped
  <2>1. Typed
    BY DEF ControlInv
  <2>2. TypeOK'
    BY <2>1 DEF Typed, TypeOK, Objects, OtherFlushers, At
  <2>3. flusher' = [g \in Flushers |-> flusher'[g]] /\ \A g \in Flushers : IsFlush(flusher'[g])
    BY <1>FlushShape
  <2> QED
    BY <2>1, <2>2, <2>3 DEF Typed
(* A step of f that takes no lock.                                         *)
<1>ExclusiveFlush.
    ASSUME ControlInv, NEW f \in Flushers, OtherFlushers(f), pusher' = pusher,
           Removing(f)' => Removing(f) /\ flusher'[f].state = flusher[f].state,
           ~FlushAt(f, "idle")' => /\ ~FlushAt(f, "idle") /\ flusher'[f].fp = flusher[f].fp
    PROVE  Exclusive'
  <2> USE <1>ExclusiveFlush
  <2>1. ASSUME NEW g \in Flushers
        PROVE  /\ Removing(g)' => Removing(g) /\ FlushLock(g)' = FlushLock(g)
               /\ ~FlushAt(g, "idle")' => ~FlushAt(g, "idle") /\ flusher'[g].fp = flusher[g].fp
    <3>1. Removing(f)' => ~FlushAt(f, "idle")'
      BY DEF Removing, Leaving, FlushAt
    <3> QED
      BY <3>1 DEF OtherFlushers, Removing, Leaving, FlushAt, FlushLock
  <2>2. ASSUME NEW q \in Pushers, NEW r \in Pushers PROVE PushesApart(q, r)'
    BY SMTT(20) DEF ControlInv, Exclusive, PushesApart, Locks, PushLock
  <2>3. ASSUME NEW q \in Pushers, NEW g \in Flushers PROVE PushFlushApart(q, g)'
    BY <2>1, SMTT(20) DEF ControlInv, Exclusive, PushFlushApart, Locks, PushLock
  <2>4. ASSUME NEW g \in Flushers, NEW h \in Flushers PROVE FlushesApart(g, h)'
    BY <2>1, SMTT(20) DEF ControlInv, Exclusive, FlushesApart
  <2> QED
    BY <2>2, <2>3, <2>4 DEF Exclusive
<1>FlushUserSeriesControl.
    ASSUME ControlInv, LimitInv', NEW f \in Flushers, NEW fp, flushUserSeries(f, fp)
    PROVE  ControlInv'
  <2> USE <1>FlushUserSeriesControl
  <2>1. /\ FlushAt(f, "idle") /\ states # 0 /\ fp \in DOMAIN heap[states].fpToSeries
        /\ \A g \in Flushers : FlushAt(g, "idle") \/ flusher[g].fp # fp
        /\ OtherFlushers(f) /\ flusher'[f].pc = "take" /\ flusher'[f].state = states /\ flusher'[f].fp = fp
        /\ UNCHANGED <<states, heap, rwmutex, fpLocker, pusher, query, queries, owed, pushes>>
    BY FlushUserSeriesDoes
  <2>2. Typed'
    <3>1. \A l \in fpLocker' : l[1] \in Objects
      BY <2>1, SMTT(20) DEF ControlInv, Typed, TypeOK
    <3> QED
      BY <2>1, <3>1, <1>FlushTyped, SMTT(20)
  <2>3. Exclusive'
    <3>1. ASSUME NEW g \in Flushers PROVE Removing(g)' => Removing(g) /\ FlushLock(g)' = FlushLock(g)
      BY <2>1, SMTT(20) DEF OtherFlushers, Removing, Leaving, FlushAt, FlushLock
    <3>2. ASSUME NEW g \in Flushers, g # f
          PROVE  ~FlushAt(g, "idle")' => ~FlushAt(g, "idle") /\ flusher'[g].fp = flusher[g].fp /\ flusher'[g].fp # fp
      BY <2>1, <3>2 DEF OtherFlushers, FlushAt
    <3>3. ASSUME NEW q \in Pushers, NEW r \in Pushers PROVE PushesApart(q, r)'
      BY <2>1, SMTT(20) DEF ControlInv, Exclusive, PushesApart, Locks, PushLock
    <3>4. ASSUME NEW q \in Pushers, NEW g \in Flushers PROVE PushFlushApart(q, g)'
      BY <2>1, <3>1, SMTT(20) DEF ControlInv, Exclusive, PushFlushApart, Locks, PushLock
    <3>5. ASSUME NEW g \in Flushers, NEW h \in Flushers PROVE FlushesApart(g, h)'
      <4>1. FlushesApart(g, h)
        BY DEF ControlInv, Exclusive
      <4>2. ~Removing(f)' /\ flusher'[f].fp = fp
        BY <2>1 DEF Removing, Leaving, FlushAt
      <4>3. CASE g = f
        BY <3>2, <4>2, <4>3 DEF FlushesApart
      <4>4. CASE h = f
        BY <3>2, <4>2, <4>4 DEF FlushesApart
      <4>5. CASE g # f /\ h # f
        BY <3>1, <3>2, <4>1, <4>5 DEF FlushesApart
      <4> QED
        BY <4>3, <4>4, <4>5
    <3> QED
      BY <3>3, <3>4, <3>5 DEF Exclusive
  <2>4. FlushOK(f)'
    BY <2>1 DEF FlushOK, Flushing, Leaving, Removing, FlushAt, Series
  <2>5. MetricsKept
    BY <2>1, SameMetrics
  <2> QED
    BY <2>1, <2>2, <2>3, <2>4, <2>5, <1>StepOfFlush
<1>TakeChunksControl.
    ASSUME ControlInv, LimitInv', NEW f \in Flushers, takeChunks(f) \/ flushChunks(f)
    PROVE  ControlInv'
  <2> USE <1>TakeChunksControl
  <2>1. /\ Flushing(f) /\ ~FlushAt(f, "del")
        /\ FlushEnds(f) \/ FlushMoves(f, "store") \/ FlushMoves(f, "drop")
        /\ owed' \subseteq owed
        /\ UNCHANGED <<states, heap, rwmutex, fpLocker, pusher, query, queries, pushes>>
    BY TakeChunksDoes, FlushChunksDoes DEF FlushAt
  <2>2. OtherFlushers(f) /\ flusher'[f].pc \in {"idle", "store", "drop"}
    BY <2>1 DEF FlushEnds, FlushMoves
  <2>3. Typed'
    <3>1. \A l \in fpLocker' : l[1] \in Objects
      BY <2>1 DEF ControlInv, Typed, TypeOK
    <3> QED
      BY <2>1, <2>2, <3>1, <1>FlushTyped DEF Flush
  <2>4. Exclusive'
    <3>1. ~Removing(f)' /\ ~FlushAt(f, "idle")
      BY <2>1, <2>2 DEF Flushing, Removing, Leaving, FlushAt
    <3>2. ~FlushAt(f, "idle")' => flusher'[f].fp = flusher[f].fp
      BY <2>1 DEF FlushEnds, FlushMoves, FlushAt
    <3> QED
      BY <2>1, <2>2, <3>1, <3>2, <1>ExclusiveFlush
  <2>5. FlushOK(f)'
    BY <2>1 DEF ControlInv, FlushEnds, FlushMoves, FlushOK, Flushing, Leaving, Removing, FlushAt, Series
  <2>6. MetricsKept
    BY <2>1, SameMetrics
  <2> QED
    BY <2>1, <2>2, <2>3, <2>4, <2>5, <2>6, <1>StepOfFlush
<1>DropChunksControl.
    ASSUME ControlInv, LimitInv', NEW f \in Flushers, dropChunks(f)
    PROVE  ControlInv'
  <2> USE <1>DropChunksControl
  <2> DEFINE fp == flusher[f].fp
             left == heap[states].fpToSeries[fp].samples \ flusher[f].taken
  <2>1. /\ FlushAt(f, "drop") /\ states \in Objects /\ flusher[f].state = states
        /\ fp \in DOMAIN heap[states].fpToSeries /\ OtherStates(states)
        /\ OtherSeries(states, fp) /\ fp \in DOMAIN heap'[states].fpToSeries
        /\ heap'[states].fpToSeries[fp] = [metric |-> heap[states].fpToSeries[fp].metric, samples |-> left]
        /\ \/ FlushMoves(f, "del") /\ FlushLock(f) \notin fpLocker /\ fpLocker' = fpLocker \cup {FlushLock(f)}
           \/ FlushEnds(f) /\ fpLocker' = fpLocker
        /\ UNCHANGED <<states, rwmutex, pusher, query, queries, owed, pushes>>
    BY DropChunksDoes
  <2> HIDE DEF left
  <2>2. OtherFlushers(f) /\ flusher'[f].pc \in {"idle", "del"} /\ fpLocker \subseteq fpLocker'
    BY <2>1 DEF FlushEnds, FlushMoves
  <2>3. Typed'
    <3>1. \A l \in fpLocker' : l[1] \in Objects
      BY <2>1, SMTT(20) DEF ControlInv, Typed, TypeOK, FlushLock
    <3> QED
      BY <2>1, <2>2, <3>1, <1>FlushTyped DEF Flush
  <2>4. Exclusive'
    <3>1. CASE FlushEnds(f)
      BY <2>1, <3>1, <1>ExclusiveFlush DEF FlushEnds, FlushAt, Removing, Leaving
    <3>2. CASE FlushMoves(f, "del") /\ FlushLock(f) \notin fpLocker
      <4>1. FlushLock(f)' = FlushLock(f) /\ flusher'[f].fp = fp
        BY <3>2 DEF FlushMoves, FlushLock
      <4>2. ASSUME NEW g \in Flushers, g # f
            PROVE  /\ Removing(g)' = Removing(g) /\ FlushLock(g)' = FlushLock(g) /\ flusher'[g].fp = flusher[g].fp
                   /\ FlushAt(g, "idle")' = FlushAt(g, "idle") /\ (Removing(g) => FlushLock(g) # FlushLock(f))
        BY <2>2, <3>2, <4>2 DEF OtherFlushers, Removing, Leaving, FlushAt, FlushLock, ControlInv, FlushOK
      <4>3. ASSUME NEW q \in Pushers
            PROVE  Locks(q)' = Locks(q) /\ PushLock(q)' = PushLock(q) /\ (Locks(q) => PushLock(q) # FlushLock(f))
        BY <2>1, <3>2 DEF Locks, PushLock, ControlInv, PushOK
      <4>4. ASSUME NEW q \in Pushers, NEW r \in Pushers PROVE PushesApart(q, r)'
        BY <4>3 DEF ControlInv, Exclusive, PushesApart
      <4>5. ASSUME NEW q \in Pushers, NEW g \in Flushers PROVE PushFlushApart(q, g)'
        BY <4>1, <4>2, <4>3 DEF ControlInv, Exclusive, PushFlushApart
      <4>6. ASSUME NEW g \in Flushers, NEW h \in Flushers PROVE FlushesApart(g, h)'
        BY <2>1, <4>1, <4>2, SMTT(20) DEF ControlInv, Exclusive, FlushesApart, FlushAt
      <4> QED
        BY <4>4, <4>5, <4>6 DEF Exclusive
    <3> QED
      BY <2>1, <3>1, <3>2
  <2>5. FlushOK(f)'
    BY <2>1, SMTT(20) DEF FlushEnds, FlushMoves, FlushOK, Flushing, Leaving, Removing, FlushAt, FlushLock, Series, Objects
  <2>6. MetricsKept
    BY <2>1, OneSeriesMetrics
  <2> QED
    BY <2>1, <2>2, <2>3, <2>4, <2>5, <2>6, <1>StepOfFlush
(* A flush that leaves: its fingerprint has no series, and stays locked    *)
(* to the end.                                                             *)
<1>LeavingControl.
    ASSUME ControlInv, LimitInv', NEW f \in Flushers, unindexSeries(f) \/ uncountSeries(f)
    PROVE  ControlInv'
  <2> USE <1>LeavingControl
  <2>1. /\ Leaving(f) /\ flusher[f].state \in Objects
        /\ OtherStates(flusher[f].state) /\ SameSeries(flusher[f].state)
        /\ \/ FlushMoves(f, "uncount") /\ flusher'[f].taken = flusher[f].taken /\ fpLocker' = fpLocker
           \/ FlushEnds(f) /\ fpLocker' = fpLocker \ {FlushLock(f)}
        /\ UNCHANGED <<states, rwmutex, pusher, query, queries, owed, pushes>>
    BY UnindexSeriesDoes, UncountSeriesDoes
  <2>2. OtherFlushers(f) /\ flusher'[f].pc \in {"idle", "uncount"} /\ Removing(f)
    BY <2>1 DEF FlushEnds, FlushMoves, Removing
  <2>3. Typed'
    <3>1. \A l \in fpLocker' : l[1] \in Objects
      BY <2>1 DEF ControlInv, Typed, TypeOK
    <3> QED
      BY <2>1, <2>2, <3>1, <1>FlushTyped DEF Flush
  <2>4. Exclusive'
    <3>1. ~FlushAt(f, "idle")
      BY <2>1 DEF Leaving, FlushAt
    <3>2. ~FlushAt(f, "idle")' \/ Removing(f)' => flusher'[f].fp = flusher[f].fp /\ flusher'[f].state = flusher[f].state
      BY <2>1 DEF FlushEnds, FlushMoves, FlushAt, Removing, Leaving
    <3> QED
      BY <2>1, <2>2, <3>1, <3>2, <1>ExclusiveFlush
  <2>5. MetricsKept
    BY <2>1, SameMetrics
  <2>6. FlushOK(f)'
    <3>1. FlushOK(f) /\ DOMAIN heap'[flusher[f].state].fpToSeries = DOMAIN heap[flusher[f].state].fpToSeries
      BY <2>1 DEF ControlInv, SameSeries
    <3> QED
      BY <2>1, <3>1 DEF FlushEnds, FlushMoves, FlushOK, Flushing, Leaving, Removing, FlushAt, FlushLock, Series, Objects
  <2> QED
    BY <2>1, <2>2, <2>3, <2>4, <2>5, <2>6, <1>StepOfFlush
<1>DelSeriesControl.
    ASSUME ControlInv, LimitInv', NEW f \in Flushers, delSeries(f)
    PROVE  ControlInv'
  <2> USE <1>DelSeriesControl
  <2> DEFINE fp == flusher[f].fp
  <2>1. /\ FlushAt(f, "del") /\ states \in Objects /\ flusher[f].state = states
        /\ heap[states].fpToSeries[fp].metric \in Metrics
        /\ OtherStates(states) /\ OtherSeries(states, fp) /\ fp \notin DOMAIN heap'[states].fpToSeries
        /\ FlushMoves(f, "unindex") /\ flusher'[f].taken = {heap[states].fpToSeries[fp].metric}
        /\ UNCHANGED <<states, rwmutex, fpLocker, pusher, query, queries, owed, pushes>>
    BY DelSeriesDoes
  <2>2. OtherFlushers(f) /\ flusher'[f].pc = "unindex" /\ Removing(f) /\ ~FlushAt(f, "idle")
        /\ flusher'[f].fp = fp /\ flusher'[f].state = states
    BY <2>1 DEF FlushMoves, Removing, FlushAt
  <2>3. Typed'
    <3>1. \A l \in fpLocker' : l[1] \in Objects
      BY <2>1 DEF ControlInv, Typed, TypeOK
    <3> QED
      BY <2>1, <2>2, <3>1, <1>FlushTyped DEF Flush
  <2>4. Exclusive'
    BY <2>1, <2>2, <1>ExclusiveFlush
  <2>5. ASSUME NEW s \in Objects PROVE StateOK(s)'
    <3>1. StateOK(s)
      BY DEF ControlInv
    <3>2. CASE s # states
      BY <2>1, <3>1, <3>2 DEF StateOK, Series, OtherStates
    <3>3. CASE s = states
      BY <2>1, <3>1, <3>3, SMTT(20) DEF StateOK, Series, OtherSeries
    <3> QED
      BY <3>2, <3>3, SMTT(20)
  <2>6. ASSUME NEW q \in Pushers PROVE PushOK(q)'
    <3>1. PushOK(q) /\ PushFlushApart(q, f)
      BY DEF ControlInv, Exclusive
    <3>2. Locks(q) => pusher[q].fp # fp
      BY <2>1, <2>2, <3>1 DEF PushOK, PushFlushApart, PushLock, FlushLock, Locks, Entered
    <3>3. Locks(q) => MetricsAt(states, pusher[q].fp)
      BY <2>1, <3>2, <1>MetricsElsewhere
    <3> QED
      BY <2>1, <3>1, <3>3, PushFrame DEF PushOK
  <2>7. ASSUME NEW g \in Flushers PROVE FlushOK(g)'
    <3>1. CASE g # f
      <4>1. FlushOK(g) /\ FlushesApart(g, f) /\ flusher'[g] = flusher[g]
        BY <2>2, <3>1, SMTT(20) DEF ControlInv, Exclusive, OtherFlushers
      <4>2. Flushing(g) => flusher[g].fp \in DOMAIN heap'[states].fpToSeries
        BY <2>1, <2>2, <3>1, <4>1 DEF FlushOK, FlushesApart, Flushing, FlushAt, OtherSeries, Series
      <4>3. Leaving(g) => flusher[g].fp \notin DOMAIN heap'[flusher[g].state].fpToSeries
        BY <2>1, <4>1 DEF FlushOK, OtherSeries, OtherStates, Series
      <4> QED
        BY <2>1, <4>1, <4>2, <4>3, FlushFrame DEF FlushOK
    <3>2. CASE g = f
      <4>1. FlushLock(f)' = FlushLock(f) /\ FlushLock(f) \in fpLocker
        BY <2>1, <2>2 DEF FlushLock, ControlInv, FlushOK
      <4> QED
        BY <2>1, <2>2, <3>2, <4>1 DEF FlushOK, Flushing, Leaving, Removing, FlushAt, Series
    <3> QED
      BY <3>1, <3>2
  <2> QED
    BY <2>3, <2>4, <2>5, <2>6, <2>7, SMTT(20) DEF ControlInv
<1> SUFFICES ASSUME MapInv, LimitInv', Step PROVE ControlInv'
  OBVIOUS
<1>1. ControlInv /\ Numbered /\ Mapping
  BY DEF MapInv
<1>2. ASSUME NEW p \in Pushers, Push(p) PROVE ControlInv'
  BY <1>1, <1>2, <1>CreateStateControl, <1>LockRawControl, <1>LockFPControl, <1>UnlockedGetControl,
     <1>CanAddSeriesForControl, <1>PutSeriesControl, <1>IndexSeriesControl, <1>AppendControl DEF Push
<1>3. ASSUME NEW f \in Flushers, Flush(f) PROVE ControlInv'
  BY <1>1, <1>3, <1>TakeChunksControl, <1>DropChunksControl, <1>DelSeriesControl, <1>LeavingControl DEF Flush
<1>4. ASSUME NEW p \in Pushers, NEW m \in Metrics, getOrCreateSeries(p, m) PROVE ControlInv'
  BY <1>1, <1>4, <1>GetOrCreateSeriesControl
<1>5. ASSUME NEW f \in Flushers, NEW fp, flushUserSeries(f, fp) PROVE ControlInv'
  BY <1>1, <1>5, <1>FlushUserSeriesControl
<1> QED
  BY <1>1, <1>2, <1>3, <1>4, <1>5, <1>GcControl, <1>GetOrCreateControl, <1>QueryControl DEF Step

(* Each step keeps the samples numbered.                                   *)
LEMMA NumberedStep ==
  ASSUME ControlInv, Numbered, Step
  PROVE  Numbered'
<1>1. ASSUME NEW p \in Pushers, Push(p) PROVE Numbered'
  BY <1>1, PushSample DEF Numbered, Others, Pushing, At
<1>2. ASSUME NEW p \in Pushers, NEW m \in Metrics, getOrCreateSeries(p, m) PROVE Numbered'
  <2>1. Others(p) /\ pushes' = pushes + 1 /\ pushes \in Nat /\ pusher'[p].sample = pushes'
    BY <1>2, GetOrCreateSeriesDoes
  <2>2. 1..pushes \subseteq 1..pushes' /\ pushes' \in 1..pushes'
    BY <2>1, SMTT(20)
  <2> QED
    BY <2>1, <2>2 DEF Numbered, Others, Pushing, At
<1>3. CASE pusher' = pusher /\ pushes' = pushes
  BY <1>3 DEF Numbered, Pushing, At
<1> QED
  BY <1>1, <1>2, <1>3, OthersStay DEF Step

(* A sample whose Push has returned: its number is no Push's any more.     *)
Older(x) == x[1] \in 1..pushes /\ \A p \in Pushers : Pushing(p) => pusher[p].sample # x[1]

Distinct == \A p, q \in Pushers : Pushing(p) /\ Pushing(q) /\ p # q => pusher[p].sample # pusher[q].sample
Held(s) ==
  \A fp \in DOMAIN Series(s) : \A x \in Series(s)[fp].samples : Older(x) /\ x = <<x[1], Series(s)[fp].metric>>
TakenOK(f) ==
  /\ flusher[f].pc \in {"store", "drop"} => \A x \in flusher[f].taken : Older(x)
  /\ FlushAt(f, "drop") => flusher[f].taken \cap owed = {}
  /\ FlushAt(f, "del") => Series(states)[flusher[f].fp].samples = {}
Fresh(p) == At(p, "index") => Series(states)[pusher[p].fp].samples = {}
Samples ==
  /\ Distinct /\ AckedKept
  /\ \A s \in Objects : Held(s)
  /\ \A f \in Flushers : TakenOK(f)
  /\ \A p \in Pushers : Fresh(p)

-----------------------------------------------------------------------------
(* Samples. *)

(* The numbers of two samples under way differ, and what was older stays   *)
(* older.                                                                  *)
LEMMA OlderStep ==
  ASSUME MapInv, Distinct, Step
  PROVE  Distinct' /\ \A x : Older(x) => Older(x)'
<1>1. ControlInv /\ Numbered
  BY DEF MapInv
<1>2. ASSUME NEW p \in Pushers, Push(p) PROVE Distinct' /\ \A x : Older(x) => Older(x)'
  <2>1. /\ pushes' = pushes /\ Pushing(p)
        /\ \A q \in Pushers : Pushing(q)' => Pushing(q) /\ pusher'[q].sample = pusher[q].sample
    BY <1>1, <1>2, PushSample DEF Others, Pushing, At
  <2> QED
    BY <2>1 DEF Distinct, Older
<1>3. ASSUME NEW p \in Pushers, NEW m \in Metrics, getOrCreateSeries(p, m)
      PROVE  Distinct' /\ \A x : Older(x) => Older(x)'
  <2>1. At(p, "idle") /\ Others(p) /\ pushes' = pushes + 1 /\ pushes \in Nat /\ pusher'[p].sample = pushes + 1
    BY <1>1, <1>3, GetOrCreateSeriesDoes
  <2>2. ASSUME NEW k \in 1..pushes PROVE k # pushes + 1 /\ k \in 1..pushes'
    BY <2>1, SMTT(20)
  <2>3. \A q \in Pushers : Pushing(q)' /\ q # p =>
                             Pushing(q) /\ pusher'[q].sample = pusher[q].sample /\ pusher[q].sample \in 1..pushes
    BY <1>1, <2>1 DEF Others, Pushing, At, Numbered
  <2>4. Distinct'
    BY <2>1, <2>2, <2>3 DEF Distinct
  <2>5. ASSUME NEW x, Older(x) PROVE Older(x)'
    <3>1. x[1] \in 1..pushes' /\ x[1] # pushes + 1
      BY <2>2, <2>5 DEF Older
    <3> QED
      BY <2>1, <2>3, <2>5, <3>1 DEF Older
  <2> QED
    BY <2>4, <2>5
<1>4. CASE pusher' = pusher /\ pushes' = pushes
  BY <1>4 DEF Distinct, Older, Pushing, At
<1> QED
  BY <1>2, <1>3, <1>4, OthersStay DEF Step

(* Where one state changes, the series of the others are the same.         *)
LEMMA OneStateSeries ==
  ASSUME \/ heap' = heap
         \/ \E s \in Objects : OtherStates(s) /\ SameSeries(s)
  PROVE  \A s \in Objects : SameSeries(s)
BY DEF OtherStates, SameSeries

QuietPush(p) == lockRaw(p) \/ lockFP(p) \/ unlockedGet(p) \/ canAddSeriesFor(p) \/ indexSeries(p)
QuietFlush(f) ==
  takeChunks(f) \/ flushChunks(f) \/ unindexSeries(f) \/ uncountSeries(f) \/ \E fp : flushUserSeries(f, fp)

(* The steps of a Push that leave all series alone.                        *)
LEMMA QuietPushDoes ==
  ASSUME ControlInv, NEW p \in Pushers, QuietPush(p)
  PROVE  /\ \A s \in Objects : SameSeries(s)
         /\ UNCHANGED <<states, flusher, owed, query, pushes>> /\ Others(p) /\ Entered(p)
         /\ pusher'[p].pc \in {"idle", "get", "fp", "metric", "put", "append"}
<1>1. Entered(p)
  BY DEF QuietPush, lockRaw, lockFP, unlockedGet, canAddSeriesFor, indexSeries, Entered, At
<1>2. CASE lockRaw(p)
  BY <1>1, <1>2, LockRawDoes, OneStateSeries
<1>3. CASE lockFP(p)
  BY <1>1, <1>3, GoesMoves, OneStateSeries DEF lockFP, ControlInv, Moves
<1>4. CASE unlockedGet(p)
  <2>1. Locks(p) /\ LimitInv /\ UNCHANGED <<states, flusher, owed, query, pushes>>
    BY <1>4 DEF unlockedGet, At, Locks, ControlInv
  <2>2. heap' = heap /\ (Ends(p) \/ Moves(p, "append") \/ Moves(p, "metric"))
    BY <1>4, <2>1, RefusedDoes, GoesMoves DEF unlockedGet
  <2> QED
    BY <1>1, <2>1, <2>2, OneStateSeries DEF Ends, Moves
<1>5. CASE canAddSeriesFor(p)
  <2>1. Locks(p) /\ UNCHANGED <<states, flusher, owed, query, pushes>>
    BY <1>5 DEF canAddSeriesFor, At, Locks
  <2>2. CASE Refused(p)
    BY <1>1, <2>1, <2>2, RefusedDoes, OneStateSeries DEF Ends
  <2>3. CASE ~Refused(p)
    BY <1>1, <1>5, <2>1, <2>3, CanAddSeriesForDoes, OneStateSeries DEF Moves
  <2> QED
    BY <2>2, <2>3
<1>6. CASE indexSeries(p)
  BY <1>1, <1>6, IndexSeriesDoes, OneStateSeries DEF Moves
<1> QED
  BY <1>2, <1>3, <1>4, <1>5, <1>6 DEF QuietPush

(* The steps of a flush that leave all series alone.                       *)
LEMMA QuietFlushDoes ==
  ASSUME ControlInv, NEW f \in Flushers, QuietFlush(f)
  PROVE  /\ \A s \in Objects : SameSeries(s)
         /\ UNCHANGED <<states, pusher, query, pushes>> /\ OtherFlushers(f) /\ owed' \subseteq owed
         /\ flusher'[f].pc # "del"
<1>1. CASE takeChunks(f) \/ flushChunks(f)
  BY <1>1, TakeChunksDoes, FlushChunksDoes, OneStateSeries DEF FlushEnds, FlushMoves
<1>2. CASE unindexSeries(f)
  BY <1>2, UnindexSeriesDoes, OneStateSeries DEF FlushMoves
<1>3. CASE uncountSeries(f)
  BY <1>3, UncountSeriesDoes, OneStateSeries DEF FlushEnds
<1>4. CASE \E fp : flushUserSeries(f, fp)
  BY <1>4, FlushUserSeriesDoes, OneStateSeries
<1> QED
  BY <1>1, <1>2, <1>3, <1>4 DEF QuietFlush

(* Each step keeps Samples.                                                *)
LEMMA SamplesStep == MapInv /\ Samples /\ Step => Samples'
<1>HeldKept.
    ASSUME MapInv, Samples, Step, NEW s \in Objects, SameSeries(s)
    PROVE  Held(s)'
  <2> USE <1>HeldKept
  <2>1. Held(s) /\ \A x : Older(x) => Older(x)'
    BY OlderStep DEF Samples
  <2> QED
    BY <2>1 DEF Held, SameSeries, Series
(* What a flush that waits knows of its samples.                           *)
<1>TakenKept.
    ASSUME MapInv, Samples, Step, NEW f \in Flushers, flusher'[f] = flusher[f],
           FlushAt(f, "drop") => flusher[f].taken \cap owed' = {},
           FlushAt(f, "del") => states' = states /\ heap'[states].fpToSeries[flusher[f].fp].samples = {}
    PROVE  TakenOK(f)'
  <2> USE <1>TakenKept
  <2>1. TakenOK(f) /\ \A x : Older(x) => Older(x)'
    BY OlderStep DEF Samples
  <2> QED
    BY <2>1 DEF TakenOK, FlushAt, Series
(* A step that changes no series.                                          *)
<1>QuietSamples.
    ASSUME MapInv, Samples, Step, states' = states, \A s \in Objects : SameSeries(s), owed' \subseteq owed,
           \A f \in Flushers : flusher'[f] = flusher[f] \/ TakenOK(f)',
           \A p \in Pushers : At(p, "index")' => At(p, "index") /\ pusher'[p].fp = pusher[p].fp
    PROVE  Samples'
  <2> USE <1>QuietSamples
  <2>1. Distinct'
    BY OlderStep DEF Samples
  <2>2. \A s \in Objects : Held(s)'
    BY <1>HeldKept
  <2>3. ASSUME NEW f \in Flushers PROVE TakenOK(f)'
    <3>1. CASE flusher'[f] = flusher[f]
      <4>1. TakenOK(f)
        BY DEF Samples
      <4>2. FlushAt(f, "drop") => flusher[f].taken \cap owed' = {}
        BY <4>1 DEF TakenOK
      <4>3. FlushAt(f, "del") => states \in Objects
        BY DEF MapInv, ControlInv, FlushOK, Flushing, FlushAt, Typed, TypeOK
      <4>4. FlushAt(f, "del") => heap'[states].fpToSeries[flusher[f].fp].samples = {}
        BY <4>1, <4>3 DEF TakenOK, SameSeries, Series
      <4> QED
        BY <3>1, <4>2, <4>4, <1>TakenKept
    <3> QED
      BY <3>1
  <2>4. ASSUME NEW p \in Pushers PROVE Fresh(p)'
    <3>1. At(p, "index") => states \in Objects
      BY DEF MapInv, ControlInv, PushOK, Entered, At, Typed, TypeOK
    <3> QED
      BY <3>1 DEF Samples, Fresh, SameSeries, Series
  <2>5. AckedKept'
    BY DEF Samples, AckedKept, SameSeries, Series, MapInv, ControlInv, Typed, TypeOK
  <2> QED
    BY <2>1, <2>2, <2>3, <2>4, <2>5 DEF Samples, Objects
<1>QuietPushSamples.
    ASSUME MapInv, Samples, Step, NEW p \in Pushers, QuietPush(p)
    PROVE  Samples'
  <2> USE <1>QuietPushSamples
  <2> ControlInv
    BY DEF MapInv
  <2>2. /\ \A s \in Objects : SameSeries(s)
        /\ UNCHANGED <<states, flusher, owed>> /\ Others(p)
        /\ pusher'[p].pc \in {"idle", "get", "fp", "metric", "put", "append"}
    BY QuietPushDoes
  <2>3. \A q \in Pushers : At(q, "index")' => At(q, "index") /\ pusher'[q].fp = pusher[q].fp
    BY <2>2 DEF Others, At
  <2> QED
    BY <2>2, <2>3, <1>QuietSamples
<1>QuietFlushSamples.
    ASSUME MapInv, Samples, Step, NEW f \in Flushers, QuietFlush(f)
    PROVE  Samples'
  <2> USE <1>QuietFlushSamples
  <2>1. ControlInv /\ TakenOK(f)
    BY DEF MapInv, Samples
  <2>2. /\ \A s \in Objects : SameSeries(s)
        /\ UNCHANGED <<states, pusher>> /\ OtherFlushers(f) /\ owed' \subseteq owed /\ flusher'[f].pc # "del"
    BY <2>1, QuietFlushDoes
  <2>3. \A x : Older(x) => Older(x)'
    BY OlderStep DEF Samples
  <2>4. TakenOK(f)'
    <3>1. CASE takeChunks(f)
      <4>1. /\ Flushing(f)
            /\ \/ FlushEnds(f)
               \/ FlushMoves(f, "store") /\ flusher'[f].taken = heap[states].fpToSeries[flusher[f].fp].samples
        BY <2>1, <3>1, TakeChunksDoes
      <4>2. \A x \in heap[states].fpToSeries[flusher[f].fp].samples : Older(x)
        BY <2>1, <4>1, FlushingState DEF Samples, Held, Series
      <4> QED
        BY <2>2, <2>3, <4>1, <4>2 DEF TakenOK, FlushEnds, FlushMoves, FlushAt
    <3>2. CASE flushChunks(f)
      <4>1. /\ FlushAt(f, "store")
            /\ \/ FlushEnds(f)
               \/ FlushMoves(f, "drop") /\ flusher'[f].taken = flusher[f].taken /\ owed' = owed \ flusher[f].taken
        BY <2>1, <3>2, FlushChunksDoes
      <4> QED
        BY <2>1, <2>2, <2>3, <4>1 DEF TakenOK, FlushEnds, FlushMoves, FlushAt
    <3>3. CASE unindexSeries(f) \/ uncountSeries(f) \/ \E fp : flushUserSeries(f, fp)
      <4>1. flusher'[f].pc \in {"uncount", "idle", "take"}
        BY <2>1, <3>3, UnindexSeriesDoes, UncountSeriesDoes, FlushUserSeriesDoes DEF FlushMoves, FlushEnds
      <4> QED
        BY <4>1 DEF TakenOK, FlushAt
    <3> QED
      BY <3>1, <3>2, <3>3 DEF QuietFlush
  <2>5. \A q \in Pushers : At(q, "index")' => At(q, "index") /\ pusher'[q].fp = pusher[q].fp
    BY <2>2 DEF At
  <2>6. \A g \in Flushers : flusher'[g] = flusher[g] \/ TakenOK(g)'
    BY <2>2, <2>4 DEF OtherFlushers
  <2> QED
    BY <2>2, <2>5, <2>6, <1>QuietSamples
<1>AppendSamples.
    ASSUME MapInv, Samples, Step, NEW p \in Pushers, append(p)
    PROVE  Samples'
  <2> USE <1>AppendSamples
  <2> DEFINE fp == pusher[p].fp
  <2> PICK x : x = Sample(p)
    OBVIOUS
  <2>1. ControlInv /\ Numbered /\ PushOK(p)
    BY DEF MapInv, ControlInv
  <2>2. /\ At(p, "append") /\ states \in Objects /\ pusher[p].state = states /\ Ends(p)
        /\ fp \in DOMAIN heap[states].fpToSeries /\ heap[states].fpToSeries[fp].metric = pusher[p].metric
        /\ OtherStates(states) /\ OtherSeries(states, fp) /\ fp \in DOMAIN heap'[states].fpToSeries
        /\ heap'[states].fpToSeries[fp] =
             [metric |-> pusher[p].metric, samples |-> heap[states].fpToSeries[fp].samples \cup {x}]
        /\ owed' = owed \cup {x}
        /\ UNCHANGED <<states, flusher, pushes>>
    BY <2>1, AppendDoes
  <2>3. Distinct' /\ (\A y : Older(y) => Older(y)') /\ Locks(p) /\ Pushing(p)
    BY <2>2, OlderStep DEF Samples, Locks, Pushing, At
  <2>4. Older(x)' /\ ~Older(x) /\ x = <<x[1], pusher[p].metric>>
    <3>1. x[1] = pusher[p].sample /\ x = <<x[1], pusher[p].metric>>
      BY DEF Sample
    <3>2. x[1] \in 1..pushes /\ ~Older(x)
      BY <2>1, <2>3, <3>1 DEF Numbered, Older
    <3>3. \A q \in Pushers : Pushing(q)' => pusher'[q].sample # x[1]
      BY <2>2, <2>3, <3>1, SMTT(20) DEF Ends, Others, Samples, Distinct, Pushing, At
    <3> QED
      BY <2>2, <3>1, <3>2, <3>3 DEF Older
  <2>5. /\ heap'[states].fpToSeries[fp].metric = pusher[p].metric
        /\ heap'[states].fpToSeries[fp].samples = heap[states].fpToSeries[fp].samples \cup {x}
    <3>1. heap'[states].fpToSeries[fp] =
            [metric |-> pusher[p].metric, samples |-> heap[states].fpToSeries[fp].samples \cup {x}]
      BY <2>2
    <3> QED
      BY ONLY <3>1, SMTT(20)
  <2>6. ASSUME NEW s \in Objects PROVE Held(s)'
    <3>1. CASE s # states
      BY <2>2, <3>1, <1>HeldKept DEF OtherStates, SameSeries
    <3>2. CASE s = states
      <4>1. Held(states)
        BY <2>2 DEF Samples
      <4>2. ASSUME NEW k \in DOMAIN heap'[states].fpToSeries, NEW y \in heap'[states].fpToSeries[k].samples
            PROVE  Older(y)' /\ y = <<y[1], heap'[states].fpToSeries[k].metric>>
        <5>1. CASE k = fp
          <6>1. y = x \/ y \in heap[states].fpToSeries[fp].samples
            BY <2>5, <4>2, <5>1
          <6>2. y \in heap[states].fpToSeries[fp].samples => Older(y) /\ y = <<y[1], pusher[p].metric>>
            BY <2>2, <4>1 DEF Held, Series
          <6> QED
            BY <2>3, <2>4, <2>5, <5>1, <6>1, <6>2
        <5>2. CASE k # fp
          <6>1. k \in DOMAIN heap[states].fpToSeries /\ heap'[states].fpToSeries[k] = heap[states].fpToSeries[k]
            BY <2>2, <5>2 DEF OtherSeries, Series
          <6>2. y \in heap[states].fpToSeries[k].samples
            BY <4>2, <6>1
          <6>3. Older(y) /\ y = <<y[1], heap[states].fpToSeries[k].metric>>
            BY <4>1, <6>1, <6>2 DEF Held, Series
          <6> QED
            BY <2>3, <6>1, <6>3
        <5> QED
          BY <5>1, <5>2
      <4> QED
        BY <2>2, <3>2, <4>2 DEF Held, Series
    <3> QED
      BY <3>1, <3>2
  <2>7. ASSUME NEW f \in Flushers PROVE TakenOK(f)'
    <3>1. TakenOK(f) /\ FlushOK(f) /\ PushFlushApart(p, f)
      BY <2>1 DEF Samples, ControlInv, Exclusive
    <3>2. FlushAt(f, "drop") => flusher[f].taken \cap owed' = {}
      BY <2>2, <2>4, <3>1 DEF TakenOK, FlushAt
    <3>3. FlushAt(f, "del") => heap'[states].fpToSeries[flusher[f].fp].samples = {}
      <4> SUFFICES ASSUME FlushAt(f, "del") PROVE heap'[states].fpToSeries[flusher[f].fp].samples = {}
        OBVIOUS
      <4>1. flusher[f].fp # fp /\ flusher[f].fp \in DOMAIN heap[states].fpToSeries
        BY <2>2, <2>3, <3>1 DEF FlushOK, PushFlushApart, Flushing, Removing, FlushAt, PushLock, FlushLock, Series
      <4> QED
        BY <2>2, <3>1, <4>1 DEF TakenOK, OtherSeries, Series
    <3> QED
      BY <2>2, <3>2, <3>3, <1>TakenKept
  <2>8. ASSUME NEW q \in Pushers PROVE Fresh(q)'
    <3> SUFFICES ASSUME At(q, "index")' PROVE heap'[states].fpToSeries[pusher'[q].fp].samples = {}
      BY <2>2 DEF Fresh, Series
    <3>1. q # p /\ pusher'[q] = pusher[q] /\ At(q, "index")
      BY <2>2 DEF Ends, Others, At
    <3>2. Fresh(q) /\ PushOK(q) /\ PushesApart(q, p) /\ Locks(q) /\ Entered(q)
      BY <2>1, <3>1 DEF Samples, ControlInv, Exclusive, Locks, Entered, At
    <3>3. pusher[q].fp # fp /\ pusher[q].fp \in DOMAIN heap[states].fpToSeries
      BY <2>2, <2>3, <3>1, <3>2 DEF PushOK, PushesApart, PushLock, Series, At
    <3>4. heap'[states].fpToSeries[pusher[q].fp] = heap[states].fpToSeries[pusher[q].fp]
      BY <2>2, <3>3 DEF OtherSeries
    <3> QED
      BY <3>1, <3>2, <3>4 DEF Fresh, Series
  <2>9. AckedKept'
    <3> SUFFICES ASSUME NEW y \in owed' PROVE \E k \in DOMAIN heap'[states].fpToSeries : y \in heap'[states].fpToSeries[k].samples
      BY <2>2, NotZero DEF AckedKept, Series
    <3>1. CASE y = x
      BY <2>2, <2>5, <3>1
    <3>2. CASE y # x
      <4>1. PICK k \in DOMAIN heap[states].fpToSeries : y \in heap[states].fpToSeries[k].samples
        BY <2>2, <3>2 DEF Samples, AckedKept, Series
      <4>2. k \in DOMAIN heap'[states].fpToSeries /\ y \in heap'[states].fpToSeries[k].samples
        BY <2>2, <2>5, <4>1 DEF OtherSeries
      <4> QED
        BY <4>2
    <3> QED
      BY <3>1, <3>2
  <2> QED
    BY <2>3, <2>6, <2>7, <2>8, <2>9 DEF Samples, Objects
<1>PutSeriesSamples.
    ASSUME MapInv, Samples, Step, NEW p \in Pushers, putSeries(p)
    PROVE  Samples'
  <2> USE <1>PutSeriesSamples
  <2> DEFINE fp == pusher[p].fp
  <2>1. ControlInv /\ PushOK(p)
    BY DEF MapInv, ControlInv
  <2>2. /\ At(p, "put") /\ states \in Objects /\ pusher[p].state = states /\ Moves(p, "index")
        /\ OtherStates(states) /\ OtherSeries(states, fp) /\ fp \in DOMAIN heap'[states].fpToSeries
        /\ heap'[states].fpToSeries[fp] = [metric |-> pusher[p].metric, samples |-> {}]
        /\ UNCHANGED <<states, flusher, owed, pushes>>
    BY <2>1, PutSeriesDoes
  <2>3. Distinct' /\ (\A y : Older(y) => Older(y)') /\ Locks(p) /\ fp \notin DOMAIN heap[states].fpToSeries
    BY <2>1, <2>2, OlderStep DEF Samples, Locks, PushOK, At, Series
  <2>4. heap'[states].fpToSeries[fp].samples = {}
    <3>1. heap'[states].fpToSeries[fp] = [metric |-> pusher[p].metric, samples |-> {}]
      BY <2>2
    <3> QED
      BY ONLY <3>1, SMTT(20)
  <2>5. ASSUME NEW k \in DOMAIN heap[states].fpToSeries
        PROVE  k # fp /\ k \in DOMAIN heap'[states].fpToSeries /\ heap'[states].fpToSeries[k] = heap[states].fpToSeries[k]
    BY <2>2, <2>3 DEF OtherSeries
  <2>6. ASSUME NEW s \in Objects PROVE Held(s)'
    <3>1. CASE s # states
      BY <2>2, <3>1, <1>HeldKept DEF OtherStates, SameSeries
    <3>2. CASE s = states
      <4>1. Held(states)
        BY <2>2 DEF Samples
      <4> QED
        BY <2>2, <2>3, <2>4, <3>2, <4>1, SMTT(20) DEF Held, Series, OtherSeries
    <3> QED
      BY <3>1, <3>2
  <2>7. ASSUME NEW f \in Flushers PROVE TakenOK(f)'
    <3>1. TakenOK(f) /\ FlushOK(f)
      BY <2>1 DEF Samples, ControlInv
    <3>2. FlushAt(f, "drop") => flusher[f].taken \cap owed' = {}
      BY <2>2, <3>1 DEF TakenOK
    <3>3. FlushAt(f, "del") => heap'[states].fpToSeries[flusher[f].fp].samples = {}
      BY <2>5, <3>1 DEF TakenOK, FlushOK, Flushing, FlushAt, Series
    <3> QED
      BY <2>2, <3>2, <3>3, <1>TakenKept
  <2>8. ASSUME NEW q \in Pushers PROVE Fresh(q)'
    <3> SUFFICES ASSUME At(q, "index")' PROVE heap'[states].fpToSeries[pusher'[q].fp].samples = {}
      BY <2>2 DEF Fresh, Series
    <3>1. CASE q = p
      BY <2>2, <2>4, <3>1 DEF Moves
    <3>2. CASE q # p
      <4>1. pusher'[q] = pusher[q] /\ At(q, "index") /\ Fresh(q) /\ PushOK(q)
        BY <2>1, <2>2, <3>2 DEF Moves, Others, At, Samples, ControlInv
      <4>2. pusher[q].fp \in DOMAIN heap[states].fpToSeries
        BY <4>1 DEF PushOK, Locks, At, Series
      <4> QED
        BY <2>5, <4>1, <4>2 DEF Fresh, Series
    <3> QED
      BY <3>1, <3>2
  <2>9. AckedKept'
    BY <2>2, <2>5, SMTT(20) DEF Samples, AckedKept, Series
  <2> QED
    BY <2>3, <2>6, <2>7, <2>8, <2>9 DEF Samples, Objects
<1>DropChunksSamples.
    ASSUME MapInv, Samples, Step, NEW f \in Flushers, dropChunks(f)
    PROVE  Samples'
  <2> USE <1>DropChunksSamples
  <2> DEFINE fp == flusher[f].fp
             left == heap[states].fpToSeries[fp].samples \ flusher[f].taken
  <2>1. ControlInv /\ TakenOK(f)
    BY DEF MapInv, Samples
  <2>2. /\ FlushAt(f, "drop") /\ states \in Objects /\ fp \in DOMAIN heap[states].fpToSeries
        /\ OtherStates(states) /\ OtherSeries(states, fp) /\ fp \in DOMAIN heap'[states].fpToSeries
        /\ heap'[states].fpToSeries[fp] = [metric |-> heap[states].fpToSeries[fp].metric, samples |-> left]
        /\ (left = {} /\ FlushMoves(f, "del")) \/ FlushEnds(f)
        /\ UNCHANGED <<states, pusher, owed>>
    BY <2>1, DropChunksDoes
  <2>3. Distinct' /\ (\A y : Older(y) => Older(y)') /\ OtherFlushers(f)
    BY <2>2, OlderStep DEF Samples, FlushMoves, FlushEnds
  <2>4. heap'[states].fpToSeries[fp].metric = heap[states].fpToSeries[fp].metric /\ heap'[states].fpToSeries[fp].samples = left
    <3>1. heap'[states].fpToSeries[fp] = [metric |-> heap[states].fpToSeries[fp].metric, samples |-> left]
      BY <2>2
    <3> QED
      BY ONLY <3>1, SMTT(20)
  <2>5. /\ DOMAIN heap'[states].fpToSeries = DOMAIN heap[states].fpToSeries
        /\ \A k \in DOMAIN heap[states].fpToSeries :
             /\ heap'[states].fpToSeries[k].metric = heap[states].fpToSeries[k].metric
             /\ heap'[states].fpToSeries[k].samples \subseteq heap[states].fpToSeries[k].samples
             /\ k # fp => heap'[states].fpToSeries[k] = heap[states].fpToSeries[k]
    BY <2>2, <2>4 DEF OtherSeries
  <2>6. ASSUME NEW s \in Objects PROVE Held(s)'
    <3>1. CASE s # states
      BY <2>2, <3>1, <1>HeldKept DEF OtherStates, SameSeries
    <3>2. CASE s = states
      <4>1. Held(states)
        BY <2>2 DEF Samples
      <4> QED
        BY <2>2, <2>3, <2>5, <3>2, <4>1 DEF Held, Series
    <3> QED
      BY <3>1, <3>2, SMTT(20)
  <2>7. ASSUME NEW g \in Flushers PROVE TakenOK(g)'
    <3>1. TakenOK(g) /\ FlushOK(g)
      BY <2>1 DEF Samples, ControlInv
    <3>2. CASE g = f
      BY <2>2, <2>4, <3>2 DEF TakenOK, FlushMoves, FlushEnds, FlushAt, Series
    <3>3. CASE g # f
      <4>1. FlushAt(g, "drop") => flusher[g].taken \cap owed' = {}
        BY <2>2, <3>1 DEF TakenOK
      <4>2. FlushAt(g, "del") => heap'[states].fpToSeries[flusher[g].fp].samples = {}
        BY <2>5, <3>1 DEF TakenOK, FlushOK, Flushing, FlushAt, Series
      <4> QED
        BY <2>2, <2>3, <3>3, <4>1, <4>2, <1>TakenKept DEF OtherFlushers
    <3> QED
      BY <3>2, <3>3
  <2>8. ASSUME NEW q \in Pushers PROVE Fresh(q)'
    <3>1. Fresh(q) /\ PushOK(q)
      BY <2>1 DEF Samples, ControlInv
    <3>2. At(q, "index") => pusher[q].fp \in DOMAIN heap[states].fpToSeries
      BY <3>1 DEF PushOK, Locks, At, Series
    <3> QED
      BY <2>2, <2>5, <3>1, <3>2 DEF Fresh, At, Series
  <2>9. AckedKept'
    <3>1. ASSUME NEW y \in owed, NEW k \in DOMAIN heap[states].fpToSeries, y \in heap[states].fpToSeries[k].samples
          PROVE  y \in heap'[states].fpToSeries[k].samples
      BY <2>1, <2>2, <2>4, <2>5, <3>1 DEF TakenOK
    <3> QED
      BY <2>2, <2>5, <3>1 DEF Samples, AckedKept, Series
  <2> QED
    BY <2>3, <2>6, <2>7, <2>8, <2>9 DEF Samples, Objects
<1>DelSeriesSamples.
    ASSUME MapInv, Samples, Step, NEW f \in Flushers, delSeries(f)
    PROVE  Samples'
  <2> USE <1>DelSeriesSamples
  <2> DEFINE fp == flusher[f].fp
  <2>1. ControlInv /\ TakenOK(f)
    BY SMTT(20) DEF MapInv, Samples
  <2>2. /\ FlushAt(f, "del") /\ states \in Objects /\ flusher[f].state = states /\ fp \in DOMAIN heap[states].fpToSeries
        /\ OtherStates(states) /\ OtherSeries(states, fp) /\ fp \notin DOMAIN heap'[states].fpToSeries
        /\ FlushMoves(f, "unindex")
        /\ UNCHANGED <<states, pusher, owed>>
    BY <2>1, DelSeriesDoes
  <2>3. /\ Distinct' /\ (\A y : Older(y) => Older(y)') /\ OtherFlushers(f) /\ Removing(f)
        /\ heap[states].fpToSeries[fp].samples = {}
    BY <2>1, <2>2, OlderStep DEF Samples, FlushMoves, Removing, TakenOK, Series
  <2>4. ASSUME NEW k \in DOMAIN heap[states].fpToSeries, k # fp
        PROVE  k \in DOMAIN heap'[states].fpToSeries /\ heap'[states].fpToSeries[k] = heap[states].fpToSeries[k]
    BY <2>2, <2>4 DEF OtherSeries
  <2>5. DOMAIN heap'[states].fpToSeries \subseteq DOMAIN heap[states].fpToSeries \ {fp}
    BY <2>2 DEF OtherSeries
  <2>6. ASSUME NEW s \in Objects PROVE Held(s)'
    <3>1. CASE s # states
      BY <2>2, <3>1, <1>HeldKept DEF OtherStates, SameSeries
    <3>2. CASE s = states
      <4>1. Held(states)
        BY <2>2 DEF Samples
      <4> QED
        BY <2>2, <2>3, <2>4, <2>5, <3>2, <4>1, SMTT(20) DEF Held, Series
    <3> QED
      BY <3>1, <3>2, SMTT(20)
  <2>7. ASSUME NEW g \in Flushers PROVE TakenOK(g)'
    <3>1. TakenOK(g) /\ FlushOK(g) /\ FlushesApart(f, g)
      BY <2>1 DEF Samples, ControlInv, Exclusive
    <3>2. CASE g = f
      BY <2>2, <3>2 DEF TakenOK, FlushMoves, FlushAt
    <3>3. CASE g # f
      <4>1. FlushAt(g, "drop") => flusher[g].taken \cap owed' = {}
        BY <2>2, <3>1 DEF TakenOK
      <4>2. FlushAt(g, "del") => flusher[g].fp # fp /\ flusher[g].fp \in DOMAIN heap[states].fpToSeries
        BY <2>2, <3>1, <3>3 DEF FlushesApart, FlushOK, Flushing, FlushAt, Series
      <4>3. FlushAt(g, "del") => heap'[states].fpToSeries[flusher[g].fp].samples = {}
        BY <2>4, <3>1, <4>2 DEF TakenOK, Series
      <4> QED
        BY <2>2, <2>3, <3>3, <4>1, <4>3, <1>TakenKept DEF OtherFlushers
    <3> QED
      BY <3>2, <3>3, SMTT(20)
  <2>8. ASSUME NEW q \in Pushers PROVE Fresh(q)'
    <3>1. Fresh(q) /\ PushOK(q) /\ PushFlushApart(q, f)
      BY <2>1 DEF Samples, ControlInv, Exclusive
    <3>2. At(q, "index") => Locks(q) /\ Entered(q)
      BY DEF Locks, Entered, At
    <3>3. At(q, "index") => pusher[q].fp # fp /\ pusher[q].fp \in DOMAIN heap[states].fpToSeries
      BY <2>2, <2>3, <3>1, <3>2 DEF PushOK, PushFlushApart, PushLock, FlushLock, At, Series
    <3> QED
      BY <2>2, <2>4, <3>1, <3>3 DEF Fresh, At, Series
  <2>9. AckedKept'
    BY <2>2, <2>3, <2>4 DEF Samples, AckedKept, Series
  <2> QED
    BY <2>3, <2>6, <2>7, <2>8, <2>9 DEF Samples, Objects
(* A state is made or removed when no state has series, and then nothing   *)
(* is owed.                                                                *)
<1>EmptySamples.
    ASSUME MapInv, Samples, Step, owed = {}, owed' = {}, flusher' = flusher,
           \A s \in Objects : DOMAIN heap'[s].fpToSeries = {},
           \A f \in Flushers : ~FlushAt(f, "del"),
           \A p \in Pushers : ~At(p, "index")'
    PROVE  Samples'
  <2> USE <1>EmptySamples
  <2>1. Distinct'
    BY OlderStep DEF Samples
  <2>2. \A s \in Objects : Held(s)'
    BY DEF Held, Series
  <2>3. \A f \in Flushers : TakenOK(f)'
    BY <1>TakenKept
  <2>4. \A p \in Pushers : Fresh(p)'
    BY DEF Fresh
  <2>5. AckedKept'
    BY DEF AckedKept
  <2> QED
    BY <2>1, <2>2, <2>3, <2>4, <2>5 DEF Samples, Objects
<1>MadeSamples.
    ASSUME MapInv, Samples, Step, unlockedGetOrCreate, UNCHANGED <<flusher, owed>>,
           \A p \in Pushers : At(p, "index")' => At(p, "index") /\ pusher'[p].fp = pusher[p].fp
    PROVE  Samples'
  <2> USE <1>MadeSamples
  <2> ControlInv
    BY DEF MapInv
  <2>2. CASE states # 0
    <3>1. states' = states /\ heap' = heap
      BY <2>2, StateMade
    <3>2. \A s \in Objects : SameSeries(s)
      BY <3>1, OneStateSeries
    <3> QED
      BY <3>1, <3>2, <1>QuietSamples
  <2>3. CASE states = 0
    <3>1. states' \in Objects /\ OtherStates(states') /\ heap'[states'] = NewState
      BY <2>3, StateMade
    <3>2. ASSUME NEW s \in Objects PROVE DOMAIN heap'[s].fpToSeries = {}
      <4>1. DOMAIN heap[s].fpToSeries = {}
        BY <2>3, SMTT(20) DEF ControlInv, StateOK, Objects, Series
      <4> QED
        BY <3>1, <4>1, SMTT(20) DEF OtherStates, NewState, Empty
    <3>3. owed = {}
      BY <2>3 DEF Samples, AckedKept
    <3>4. \A f \in Flushers : ~FlushAt(f, "del")
      BY <2>3 DEF ControlInv, FlushOK, Flushing, FlushAt
    <3>5. \A p \in Pushers : ~At(p, "index")'
      BY <2>3 DEF ControlInv, PushOK, Entered, At
    <3> QED
      BY <3>2, <3>3, <3>4, <3>5, <1>EmptySamples
  <2> QED
    BY <2>2, <2>3
<1>StateSamples.
    ASSUME MapInv, Samples, Step, gc \/ getOrCreate \/ \E p \in Pushers : createState(p)
    PROVE  Samples'
  <2> USE <1>StateSamples
  <2> ControlInv
    BY DEF MapInv
  <2>2. CASE gc
    <3>1. /\ states \in Objects /\ DOMAIN heap[states].fpToSeries = {} /\ OtherStates(states) /\ SameSeries(states)
          /\ UNCHANGED <<flusher, owed, pusher>>
      BY <2>2, GcDoes
    <3>2. ASSUME NEW s \in Objects PROVE DOMAIN heap'[s].fpToSeries = {}
      <4>1. DOMAIN heap[s].fpToSeries = {}
        BY <3>1 DEF ControlInv, StateOK, Series
      <4> QED
        BY <3>1, <4>1 DEF OtherStates, SameSeries
    <3>3. owed = {}
      BY <3>1 DEF Samples, AckedKept, Series
    <3>4. /\ \A f \in Flushers : ~FlushAt(f, "del")
          /\ \A p \in Pushers : ~At(p, "index")'
      BY <2>2, <3>1, GcNobody DEF Entered, Flushing, FlushAt, At
    <3> QED
      BY <3>1, <3>2, <3>3, <3>4, <1>EmptySamples
  <2>3. CASE getOrCreate
    <3>1. /\ (states' = states /\ heap' = heap) \/ unlockedGetOrCreate
          /\ UNCHANGED <<pusher, flusher, owed>>
      BY <2>3, GetOrCreateDoes
    <3>2. \A p \in Pushers : At(p, "index")' => At(p, "index") /\ pusher'[p].fp = pusher[p].fp
      BY <3>1 DEF At
    <3>3. CASE states' = states /\ heap' = heap
      <4>1. \A s \in Objects : SameSeries(s)
        BY <3>3, OneStateSeries
      <4> QED
        BY <3>1, <3>2, <3>3, <4>1, <1>QuietSamples
    <3> QED
      BY <3>1, <3>2, <3>3, <1>MadeSamples
  <2>4. ASSUME NEW p \in Pushers, createState(p) PROVE Samples'
    <3>1. unlockedGetOrCreate /\ Others(p) /\ pusher'[p].pc = "raw" /\ UNCHANGED <<flusher, owed>>
      BY <2>4, CreateStateDoes
    <3>2. \A q \in Pushers : At(q, "index")' => At(q, "index") /\ pusher'[q].fp = pusher[q].fp
      BY <3>1 DEF At, Others
    <3> QED
      BY <3>1, <3>2, <1>MadeSamples
  <2> QED
    BY <2>2, <2>3, <2>4
<1> SUFFICES ASSUME MapInv, Samples, Step PROVE Samples'
  OBVIOUS
<1> ControlInv
  BY DEF MapInv
<1>2. ASSUME NEW p \in Pushers, Push(p) PROVE Samples'
  BY <1>2, <1>StateSamples, <1>QuietPushSamples, <1>PutSeriesSamples, <1>AppendSamples DEF Push, QuietPush
<1>3. ASSUME NEW f \in Flushers, Flush(f) \/ \E fp : flushUserSeries(f, fp) PROVE Samples'
  BY <1>3, <1>QuietFlushSamples, <1>DropChunksSamples, <1>DelSeriesSamples DEF Flush, QuietFlush
<1>4. ASSUME NEW p \in Pushers, NEW m \in Metrics, getOrCreateSeries(p, m) PROVE Samples'
  <2>1. /\ Others(p) /\ UNCHANGED <<states, heap, flusher, owed>>
        /\ pusher'[p].pc \in {"raw", "create"}
    BY <1>4, GetOrCreateSeriesDoes
  <2>2. \A q \in Pushers : At(q, "index")' => At(q, "index") /\ pusher'[q].fp = pusher[q].fp
    BY <2>1 DEF At, Others
  <2>3. \A s \in Objects : SameSeries(s)
    BY <2>1, OneStateSeries
  <2> QED
    BY <2>1, <2>2, <2>3, <1>QuietSamples
<1>5. CASE Query
  <2>1. UNCHANGED <<states, heap, flusher, owed, pusher>>
    BY <1>5, QueryDoes
  <2>2. \A q \in Pushers : At(q, "index")' => At(q, "index") /\ pusher'[q].fp = pusher[q].fp
    BY <2>1 DEF At
  <2>3. \A s \in Objects : SameSeries(s)
    BY <2>1, OneStateSeries
  <2> QED
    BY <2>1, <2>2, <2>3, <1>QuietSamples
<1> QED
  BY <1>2, <1>3, <1>4, <1>5, <1>StateSamples DEF Step

====
