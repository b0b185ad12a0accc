------------------------- MODULE UserContentsProofs -------------------------
(***************************************************************************)
(* What a user state holds: one series for a metric, every sample that was *)
(* accepted and not yet flushed, an index and counts that agree with the   *)
(* series. A query finds them.                                             *)
(***************************************************************************)
EXTENDS UserStatesProofs, UserSeriesProofs

(* A leaf is a first-order one, unless it says that it needs arithmetic.   *)
USE ZenonT(30)

(* The initial state: no state, no lock, no mapping.                       *)
LEMMA MapInit == Init => MapInv
<1> SUFFICES ASSUME Init PROVE MapInv
  OBVIOUS
<1>1. LimitInv
  BY LimitInit
<1>2. /\ pusher = [p \in Pushers |-> NoPush] /\ flusher = [f \in Flushers |-> NoFlush]
      /\ heap = [s \in Objects |-> NewState] /\ states = 0
  BY DEF Init
<1>3. Typed
  <2>1. TypeOK
    BY UserStatesAssumption, SMTT(20) DEF Init, TypeOK, NoPush, NoFlush
  <2>2. IsFlush(NoFlush) /\ IsQuery(query) /\ query.pc = "idle"
    BY DEF Init, IsFlush, FlushNames, NoFlush, IsQuery, QueryNames, NoQuery
  <2> QED
    BY <1>2, <2>1, <2>2 DEF Init, Typed
<1>4. \A p \in Pushers : pusher[p].pc = "idle"
  BY <1>2 DEF NoPush
<1>5. \A f \in Flushers : flusher[f].pc = "idle"
  BY <1>2 DEF NoFlush
<1>6. \A s \in Objects : DOMAIN Series(s) = {} /\ heap[s] = NewState
  BY <1>2, SMTT(20) DEF Series, NewState, Empty
<1>7. ControlInv
  <2>1. \A s \in Objects : StateOK(s)
    BY <1>6 DEF StateOK
  <2>2. \A p \in Pushers : PushOK(p) /\ ~Locks(p)
    BY <1>4 DEF PushOK, Pushing, At, Entered, Mutexed, Locks
  <2>3. \A f \in Flushers : FlushOK(f) /\ ~Removing(f) /\ FlushAt(f, "idle")
    BY <1>5 DEF FlushOK, Flushing, Leaving, Removing, FlushAt
  <2>4. Exclusive
    BY <2>2, <2>3 DEF Exclusive, PushesApart, FlushesApart, PushFlushApart
  <2> QED
    BY <1>1, <1>3, <2>1, <2>2, <2>3, <2>4 DEF ControlInv
<1>8. Numbered
  BY <1>4 DEF Numbered, Pushing, At
<1>9. Mapping
  <2>1. MapOK(NewState)
    BY UserStatesAssumption, SMTT(20) DEF MapOK, Mapped, ValueAt, NewState, Empty
  <2>2. \A p \in Pushers : ~Locks(p) /\ ~At(p, "fp")
    BY <1>4 DEF Locks, At
  <2> QED
    BY <1>6, <2>1, <2>2 DEF Mapping
<1> QED
  BY <1>7, <1>8, <1>9 DEF MapInv

(* Each step keeps locks and mappings.                                     *)
LEMMA MapStep == MapInv /\ [Next]_vars => MapInv'
<1> SUFFICES ASSUME MapInv, [Next]_vars PROVE MapInv'
  OBVIOUS
<1>1. ControlInv /\ Numbered /\ Mapping /\ LimitInv
  BY DEF MapInv, ControlInv
<1>2. LimitInv'
  BY <1>1, LimitStep
<1>3. CASE Step
  <2>1. ControlInv' /\ Numbered'
    BY <1>1, <1>2, <1>3, ControlStep, NumberedStep
  <2>2. Mapping'
    BY <1>1, <1>3, MappingStep
  <2> QED
    BY <2>1, <2>2 DEF MapInv
<1>4. CASE UNCHANGED vars
  <2>1. UNCHANGED <<states, heap, rwmutex, fpLocker, pusher, flusher, query, queries, owed, pushes>>
    BY <1>4 DEF vars
  <2>2. MetricsKept
    BY <1>1, <2>1, SameMetrics
  <2>3. Typed'
    BY <1>1, <2>1, SMTT(20) DEF ControlInv, Typed, TypeOK, Objects, At, FlushAt
  <2>4. ControlInv'
    BY <1>1, <1>2, <2>1, <2>2, <2>3, StepOfNobody
  <2>5. Mapping'
    BY <1>1, <1>4, MappingStep
  <2>6. Numbered'
    BY <1>1, <2>1 DEF Numbered, Pushing, At
  <2> QED
    BY <2>4, <2>5, <2>6 DEF MapInv
<1> QED
  BY <1>3, <1>4 DEF Next

(* MapInvariant: the locks keep a Push and a flush of one series apart,    *)
(* and a state from being removed under a Push; the mappings tell where    *)
(* the series of each metric is (user_state.go, mapper.go, locker.go).     *)
THEOREM MapInvariant == Spec => []MapInv
BY MapInit, MapStep, PTL DEF Spec

(* OneSeriesEach: for any hash and any number of pushers and flushers, a   *)
(* metric has one series (mapper.go, unlockedGet).                         *)
THEOREM OneSeriesEach == Spec => []UniqueSeries
<1>1. MapInv => UniqueSeries
  BY OneFP, SMTT(20) DEF MapInv, Mapping, UniqueSeries, Series
<1> QED
  BY <1>1, MapInvariant, PTL

-----------------------------------------------------------------------------
(* The index and the counts: which steps leave them alone. *)

Busy(p) == pusher[p].pc \in {"put", "index"}
RecordsKept ==
  /\ MetricsKept /\ \A s \in Objects : SameIndex(s) /\ SameCounts(s)
  /\ \A p \in Pushers : pusher'[p] = pusher[p] \/ (~Busy(p) /\ ~Busy(p)')
  /\ \A f \in Flushers : flusher'[f] = flusher[f] \/ (~Leaving(f) /\ ~Leaving(f)')

(* Where one state keeps its series, index and counts, all do.             *)
LEMMA OneStateRecords ==
  ASSUME \/ heap' = heap
         \/ \E s \in Objects : OtherStates(s) /\ SameIndex(s) /\ SameCounts(s)
  PROVE  \A s \in Objects : SameIndex(s) /\ SameCounts(s)
BY DEF OtherStates, SameIndex, SameCounts

(* The steps of a Push that leave index and counts alone.                  *)
LEMMA PushRecords ==
  ASSUME ControlInv, NEW p \in Pushers,
         \/ lockRaw(p) \/ lockFP(p) \/ unlockedGet(p) \/ append(p)
         \/ canAddSeriesFor(p) /\ Refused(p)
         \/ \E m \in Metrics : getOrCreateSeries(p, m)
  PROVE  RecordsKept
<1> SUFFICES /\ MetricsKept /\ \A s \in Objects : SameIndex(s) /\ SameCounts(s)
             /\ Others(p) /\ ~Busy(p) /\ ~Busy(p)' /\ flusher' = flusher
  BY DEF RecordsKept, Others
<1>1. CASE lockRaw(p)
  BY <1>1, LockRawDoes, SameMetrics, OneStateRecords DEF Busy, At
<1>2. CASE lockFP(p)
  <2>1. At(p, "fp") /\ heap' = heap /\ flusher' = flusher /\ Moves(p, "get")
    BY <1>2, GoesMoves DEF lockFP, ControlInv
  <2> QED
    BY <2>1, SameMetrics, OneStateRecords DEF Busy, At, Moves
<1>3. CASE unlockedGet(p)
  <2>1. At(p, "get") /\ Locks(p) /\ LimitInv /\ flusher' = flusher
    BY <1>3 DEF unlockedGet, At, Locks, ControlInv
  <2>2. heap' = heap /\ (Ends(p) \/ Moves(p, "append") \/ Moves(p, "metric"))
    BY <1>3, <2>1, RefusedDoes, GoesMoves DEF unlockedGet
  <2> QED
    BY <2>1, <2>2, SameMetrics, OneStateRecords DEF Busy, At, Moves, Ends
<1>4. CASE append(p)
  <2> DEFINE fp == pusher[p].fp
             y == heap[states].fpToSeries[fp].samples \cup {Sample(p)}
  <2>1. /\ At(p, "append") /\ states \in Objects /\ Ends(p) /\ flusher' = flusher
        /\ fp \in DOMAIN heap[states].fpToSeries
        /\ OtherStates(states) /\ SameIndex(states) /\ SameCounts(states)
        /\ OtherSeries(states, fp) /\ fp \in DOMAIN heap'[states].fpToSeries
        /\ heap'[states].fpToSeries[fp] = [metric |-> heap[states].fpToSeries[fp].metric, samples |-> y]
    BY <1>4, AppendDoes
  <2> HIDE DEF y
  <2>2. MetricsKept
    BY <2>1, OneSeriesMetrics
  <2> QED
    BY <2>1, <2>2, OneStateRecords, SMTT(20) DEF Busy, At, Ends
<1>5. CASE canAddSeriesFor(p) /\ Refused(p)
  <2>1. At(p, "metric") /\ Locks(p) /\ flusher' = flusher
    BY <1>5 DEF canAddSeriesFor, At, Locks
  <2>2. heap' = heap /\ Ends(p)
    BY <1>5, <2>1, RefusedDoes
  <2> QED
    BY <2>1, <2>2, SameMetrics, OneStateRecords DEF Busy, At, Ends
<1>6. CASE \E m \in Metrics : getOrCreateSeries(p, m)
  <2>1. At(p, "idle") /\ heap' = heap /\ flusher' = flusher /\ Others(p) /\ pusher'[p].pc \in {"raw", "create"}
    BY <1>6, GetOrCreateSeriesDoes
  <2> QED
    BY <2>1, SameMetrics, OneStateRecords DEF Busy, At
<1> QED
  BY <1>1, <1>2, <1>3, <1>4, <1>5, <1>6

(* The steps of a flush that leave index and counts alone.                 *)
LEMMA FlushRecords ==
  ASSUME ControlInv, NEW f \in Flushers,
         takeChunks(f) \/ flushChunks(f) \/ dropChunks(f) \/ \E fp : flushUserSeries(f, fp)
  PROVE  RecordsKept
<1> SUFFICES /\ MetricsKept /\ \A s \in Objects : SameIndex(s) /\ SameCounts(s)
             /\ OtherFlushers(f) /\ ~Leaving(f) /\ ~Leaving(f)' /\ pusher' = pusher
  BY DEF RecordsKept, OtherFlushers
<1>1. CASE takeChunks(f)
  <2>1. FlushAt(f, "take") /\ heap' = heap /\ pusher' = pusher /\ (FlushEnds(f) \/ FlushMoves(f, "store"))
    BY <1>1, TakeChunksDoes
  <2> QED
    BY <2>1, SameMetrics, OneStateRecords DEF Leaving, FlushAt, FlushEnds, FlushMoves
<1>2. CASE flushChunks(f)
  <2>1. FlushAt(f, "store") /\ heap' = heap /\ pusher' = pusher /\ (FlushEnds(f) \/ FlushMoves(f, "drop"))
    BY <1>2, FlushChunksDoes
  <2> QED
    BY <2>1, SameMetrics, OneStateRecords DEF Leaving, FlushAt, FlushEnds, FlushMoves
<1>3. CASE dropChunks(f)
  <2> DEFINE fp == flusher[f].fp
             left == heap[states].fpToSeries[fp].samples \ flusher[f].taken
  <2>1. /\ FlushAt(f, "drop") /\ states \in Objects /\ pusher' = pusher /\ (FlushEnds(f) \/ FlushMoves(f, "del"))
        /\ fp \in DOMAIN heap[states].fpToSeries
        /\ OtherStates(states) /\ SameIndex(states) /\ SameCounts(states)
        /\ OtherSeries(states, fp) /\ fp \in DOMAIN heap'[states].fpToSeries
        /\ heap'[states].fpToSeries[fp] = [metric |-> heap[states].fpToSeries[fp].metric, samples |-> left]
    BY <1>3, DropChunksDoes
  <2> HIDE DEF left
  <2>2. MetricsKept
    BY <2>1, OneSeriesMetrics
  <2> QED
    BY <2>1, <2>2, OneStateRecords DEF Leaving, FlushAt, FlushEnds, FlushMoves
<1>4. CASE \E fp : flushUserSeries(f, fp)
  <2>1. FlushAt(f, "idle") /\ heap' = heap /\ pusher' = pusher /\ OtherFlushers(f) /\ flusher'[f].pc = "take"
    BY <1>4, FlushUserSeriesDoes
  <2> QED
    BY <2>1, SameMetrics, OneStateRecords DEF Leaving, FlushAt
<1> QED
  BY <1>1, <1>2, <1>3, <1>4

(* The steps of gc and queries that leave index and counts alone.          *)
LEMMA OtherRecords ==
  ASSUME ControlInv,
         \/ gc \/ Query \/ (getOrCreate /\ states # 0)
         \/ states # 0 /\ \E p \in Pushers : createState(p)
  PROVE  RecordsKept
<1>1. CASE gc
  <2>1. /\ \E s \in Objects : OtherStates(s) /\ SameSeries(s) /\ SameIndex(s) /\ SameCounts(s)
        /\ pusher' = pusher /\ flusher' = flusher
    BY <1>1, GcDoes
  <2> QED
    BY <2>1, SameMetrics, OneStateRecords DEF RecordsKept
<1>2. CASE Query \/ (getOrCreate /\ states # 0)
  <2>1. heap' = heap /\ pusher' = pusher /\ flusher' = flusher
    BY <1>2, QueryDoes, GetOrCreateDoes
  <2> QED
    BY <2>1, SameMetrics, OneStateRecords DEF RecordsKept
<1>3. ASSUME states # 0, NEW p \in Pushers, createState(p) PROVE RecordsKept
  <2>1. unlockedGetOrCreate /\ At(p, "create") /\ flusher' = flusher /\ Others(p) /\ pusher'[p].pc = "raw"
    BY <1>3, CreateStateDoes
  <2>2. heap' = heap
    BY <1>3, <2>1, StateMade
  <2> QED
    BY <2>1, <2>2, SameMetrics, OneStateRecords DEF RecordsKept, Others, Busy, At
<1> QED
  BY <1>1, <1>2, <1>3

-----------------------------------------------------------------------------
(* Indexed: a list of the index has the series under its label, but for    *)
(* those a Push has still to index, and those a flush has still to take    *)
(* out.                                                                    *)

Indexes(p, s, fp) == At(p, "index") /\ pusher[p].state = s /\ pusher[p].fp = fp
Unindexes(f, s, l) == FlushAt(f, "unindex") /\ flusher[f].state = s /\ \E m \in flusher[f].taken : l \in Pairs[m]
Shown(s, l) ==
  {fp \in DOMAIN Series(s) : l \in Pairs[Series(s)[fp].metric] /\ \A p \in Pushers : ~Indexes(p, s, fp)}
  \cup {flusher[f].fp : f \in {g \in Flushers : Unindexes(g, s, l)}}

Labels == UNION {Pairs[m] : m \in Metrics}
IndexOK(s) ==
  /\ SortedIndex(heap[s].index)
  /\ \A l \in Labels : Listed(heap[s].index, l) = Shown(s, l)
Indexed == \A s \in Objects : IndexOK(s)

(* Nobody starts or ends the indexing of a series.                         *)
Indexers ==
  /\ \A p \in Pushers : pusher'[p] = pusher[p] \/ (~At(p, "index") /\ ~At(p, "index")')
  /\ \A f \in Flushers : flusher'[f] = flusher[f] \/ (~FlushAt(f, "unindex") /\ ~FlushAt(f, "unindex")')

(* Where index, series and who is indexing are kept, Indexed is.           *)
LEMMA IndexKept ==
  ASSUME Indexed, MetricsKept, Indexers, NEW s \in Objects, SameIndex(s)
  PROVE  IndexOK(s)'
<1>1. ASSUME NEW p \in Pushers, NEW fp PROVE Indexes(p, s, fp)' <=> Indexes(p, s, fp)
  BY DEF Indexes, Indexers, At
<1>2. ASSUME NEW f \in Flushers, NEW l PROVE Unindexes(f, s, l)' <=> Unindexes(f, s, l)
  BY DEF Unindexes, Indexers, FlushAt
<1>3. ASSUME NEW f \in Flushers, NEW l, Unindexes(f, s, l) PROVE flusher'[f].fp = flusher[f].fp
  BY <1>3 DEF Unindexes, Indexers, FlushAt
<1>4. /\ DOMAIN heap'[s].fpToSeries = DOMAIN heap[s].fpToSeries
      /\ \A fp \in DOMAIN heap[s].fpToSeries : heap'[s].fpToSeries[fp].metric = heap[s].fpToSeries[fp].metric
  BY KeptMetric
<1>5. ASSUME NEW l PROVE Shown(s, l)' = Shown(s, l)
  BY <1>1, <1>2, <1>3, <1>4 DEF Shown, Series
<1>6. IndexOK(s)
  BY DEF Indexed
<1> QED
  BY <1>5, <1>6 DEF IndexOK, SameIndex

(* A step that leaves the records alone keeps Indexed.                     *)
LEMMA RecordsIndexed ==
  ASSUME Indexed, RecordsKept
  PROVE  Indexed'
<1>1. MetricsKept /\ Indexers
  BY DEF RecordsKept, Indexers, Busy, Leaving, At, FlushAt
<1> QED
  BY <1>1, IndexKept DEF RecordsKept, Indexed, Objects

(* Each step keeps Indexed.                                                *)
LEMMA IndexedStep == MapInv /\ Indexed /\ Step => Indexed'
(* The steps that change the index, or what it has still to show.          *)
<1>PutSeriesIndexed.
    ASSUME MapInv, Indexed, NEW p \in Pushers, putSeries(p)
    PROVE  Indexed'
  <2> USE <1>PutSeriesIndexed
  <2> DEFINE fp == pusher[p].fp
  <2>1. ControlInv /\ PushOK(p)
    BY DEF MapInv, ControlInv
  <2>2. /\ At(p, "put") /\ states \in Objects /\ pusher[p].state = states /\ Moves(p, "index")
        /\ OtherStates(states) /\ SameIndex(states)
        /\ OtherSeries(states, fp) /\ fp \in DOMAIN heap'[states].fpToSeries
        /\ flusher' = flusher
    BY <2>1, PutSeriesDoes
  <2>3. fp \notin DOMAIN heap[states].fpToSeries
    BY <2>1, <2>2 DEF PushOK, Locks, At, Series
  <2>4. ASSUME NEW s \in Objects, NEW k
        PROVE  (\A q \in Pushers : ~Indexes(q, s, k)') <=> (\A q \in Pushers : ~Indexes(q, s, k)) /\ ~(s = states /\ k = fp)
    BY <2>2 DEF Indexes, Moves, Others, At
  <2>5. ASSUME NEW s \in Objects, NEW l PROVE Shown(s, l)' = Shown(s, l)
    <3>1. \A f \in Flushers : Unindexes(f, s, l)' <=> Unindexes(f, s, l)
      BY <2>2 DEF Unindexes, FlushAt
    <3>2. ASSUME NEW k
          PROVE  k \in DOMAIN heap'[s].fpToSeries /\ ~(s = states /\ k = fp) <=> k \in DOMAIN heap[s].fpToSeries
      BY <2>2, <2>3 DEF OtherStates, OtherSeries
    <3>3. ASSUME NEW k \in DOMAIN heap[s].fpToSeries PROVE heap'[s].fpToSeries[k] = heap[s].fpToSeries[k]
      BY <2>2, <2>3 DEF OtherStates, OtherSeries
    <3> QED
      BY <2>2, <2>4, <3>1, <3>2, <3>3, SMTT(20) DEF Shown, Series
  <2>6. ASSUME NEW s \in Objects PROVE IndexOK(s)'
    <3>1. heap'[s].index = heap[s].index /\ IndexOK(s)
      BY <2>2, SMTT(20) DEF OtherStates, SameIndex, Indexed
    <3> QED
      BY <2>5, <3>1 DEF IndexOK
  <2> QED
    BY <2>6 DEF Indexed, Objects
<1>IndexSeriesIndexed.
    ASSUME MapInv, Indexed, NEW p \in Pushers, indexSeries(p)
    PROVE  Indexed'
  <2> USE <1>IndexSeriesIndexed
  <2> DEFINE fp == pusher[p].fp
             m == pusher[p].metric
  <2>1. ControlInv /\ PushOK(p) /\ Mapping
    BY DEF MapInv, ControlInv
  <2>2. /\ At(p, "index") /\ states \in Objects /\ pusher[p].state = states /\ Moves(p, "append")
        /\ OtherStates(states) /\ SameSeries(states)
        /\ heap'[states].index = add(heap[states].index, m, fp)
        /\ flusher' = flusher
    BY <2>1, IndexSeriesDoes
  <2>3. Locks(p) /\ fp \in DOMAIN heap[states].fpToSeries /\ heap[states].fpToSeries[fp].metric = m
    BY <2>1, <2>2 DEF PushOK, Locks, At, Series
  <2>4. fp \in Nat
    <3>1. HasFP(heap[states], m, fp) /\ MapOK(heap[states]) /\ m \in Metrics
      BY <2>1, <2>2, <2>3 DEF Mapping, PushOK, Pushing, At
    <3> QED
      BY <3>1, UserStatesAssumption, SMTT(20) DEF HasFP, MapOK
  <2>5. \A s \in Objects : heap'[s].fpToSeries = heap[s].fpToSeries
    BY <2>2 DEF OtherStates, SameSeries
  <2>6. ASSUME NEW s \in Objects, NEW l
        PROVE  \A f \in Flushers : Unindexes(f, s, l)' <=> Unindexes(f, s, l)
    BY <2>2 DEF Unindexes, FlushAt
  <2>7. ASSUME NEW q \in Pushers, q # p PROVE ~Indexes(q, states, fp)
    <3>1. PushesApart(q, p)
      BY <2>1 DEF ControlInv, Exclusive
    <3> QED
      BY <2>2, <2>3, <2>7, <3>1 DEF PushesApart, PushLock, Indexes, Locks, At
  <2>8. ASSUME NEW s \in Objects, NEW k
        PROVE  (\A q \in Pushers : ~Indexes(q, s, k)') <=> (\A q \in Pushers : ~Indexes(q, s, k)) \/ (s = states /\ k = fp)
    BY <2>2, <2>7 DEF Indexes, Moves, Others, At
  <2>9. ASSUME NEW l PROVE fp \notin Shown(states, l)
    <3>1. Indexes(p, states, fp)
      BY <2>2 DEF Indexes
    <3>2. ASSUME NEW f \in Flushers, Unindexes(f, states, l) PROVE flusher[f].fp # fp
      <4>1. PushFlushApart(p, f) /\ Removing(f) /\ flusher[f].state = states
        BY <2>1, <3>2 DEF ControlInv, Exclusive, Unindexes, Removing, Leaving, FlushAt
      <4> QED
        BY <2>2, <2>3, <4>1 DEF PushFlushApart, PushLock, FlushLock
    <3> QED
      BY <3>1, <3>2 DEF Shown
  <2>10. ASSUME NEW t \in Objects, t = states, NEW l
         PROVE  Shown(t, l)' = IF l \in Pairs[m] THEN Shown(t, l) \cup {fp} ELSE Shown(t, l)
    <3> DEFINE G == {flusher[f].fp : f \in {g \in Flushers : Unindexes(g, t, l)}}
               D == {k \in DOMAIN heap[t].fpToSeries : l \in Pairs[heap[t].fpToSeries[k].metric]}
    <3>1. Shown(t, l) = {k \in D : \A q \in Pushers : ~Indexes(q, t, k)} \cup G
      BY DEF Shown, Series
    <3>2. Shown(t, l)' = {k \in D : \A q \in Pushers : ~Indexes(q, t, k)'} \cup G
      BY <2>2, <2>5, <2>6 DEF Shown, Series
    <3>3. fp \in D <=> l \in Pairs[m]
      BY <2>3, <2>10
    <3>4. \A k \in D : (\A q \in Pushers : ~Indexes(q, t, k)') <=> (\A q \in Pushers : ~Indexes(q, t, k)) \/ k = fp
      BY <2>8, <2>10
    <3> HIDE DEF D, G
    <3> QED
      BY <3>1, <3>2, <3>3, <3>4
  <2>11. ASSUME NEW s \in Objects, s # states, NEW l PROVE Shown(s, l)' = Shown(s, l)
    BY <2>2, <2>5, <2>6, <2>8, <2>11 DEF Shown, Series
  <2>12. ASSUME NEW s \in Objects PROVE IndexOK(s)'
    <3>1. IndexOK(s)
      BY DEF Indexed
    <3>2. CASE s # states
      BY <2>2, <2>11, <3>1, <3>2 DEF IndexOK, OtherStates
    <3>3. CASE s = states
      <4> DEFINE idx == heap[states].index
                 a == add(idx, m, fp)
      <4>1. SortedIndex(heap[states].index)
        BY <3>1, <3>3 DEF IndexOK
      <4>2. m \in Metrics
        BY <2>1, <2>2 DEF PushOK, Pushing, At
      <4>3. ASSUME NEW l, l \in Pairs[m] PROVE l \in Labels /\ fp \notin Listed(heap[states].index, l)
        BY <2>9, <3>1, <3>3, <4>2, <4>3 DEF IndexOK, Labels
      <4>a. ASSUME NEW l PROVE l \in Pairs[m] => fp \notin Listed(heap[states].index, l)
        BY <4>3
      <4>4. ASSUME NEW l
            PROVE  /\ l \in DOMAIN a => Sorted(a[l])
                   /\ Listed(a, l) = IF l \in Pairs[m] THEN Listed(idx, l) \cup {fp} ELSE Listed(idx, l)
        <5>1. SortedIndex(idx) /\ fp \in Nat /\ (l \in Pairs[m] => fp \notin Listed(idx, l))
          BY <2>4, <4>1, <4>a
        <5> HIDE DEF idx, fp, m
        <5> QED
          BY <5>1, AddLists, SMTT(20)
      <4> HIDE DEF a
      <4>5. heap'[states].index = a
        BY <2>2 DEF a
      <4>6. SortedIndex(heap'[states].index)
        BY <4>4, <4>5 DEF SortedIndex
      <4>7. ASSUME NEW l \in Labels PROVE Listed(heap'[s].index, l) = Shown(s, l)'
        BY <2>10, <3>1, <3>3, <4>4, <4>5 DEF IndexOK
      <4> QED
        BY <3>3, <4>6, <4>7 DEF IndexOK
    <3> QED
      BY <3>2, <3>3
  <2> QED
    BY <2>12, SMTT(20) DEF Indexed, Objects
<1>DelSeriesIndexed.
    ASSUME MapInv, Indexed, NEW f \in Flushers, delSeries(f)
    PROVE  Indexed'
  <2> USE <1>DelSeriesIndexed
  <2> DEFINE fp == flusher[f].fp
             m == heap[states].fpToSeries[fp].metric
  <2> ControlInv
    BY DEF MapInv
  <2>2. /\ FlushAt(f, "del") /\ states \in Objects /\ flusher[f].state = states /\ fp \in DOMAIN heap[states].fpToSeries
        /\ OtherStates(states) /\ SameIndex(states) /\ OtherSeries(states, fp) /\ fp \notin DOMAIN heap'[states].fpToSeries
        /\ FlushMoves(f, "unindex") /\ flusher'[f].taken = {m}
        /\ pusher' = pusher
    BY DelSeriesDoes
  <2> HIDE DEF m
  <2>3. ASSUME NEW q \in Pushers PROVE ~Indexes(q, states, fp)
    <3>1. PushFlushApart(q, f) /\ Removing(f)
      BY <2>2 DEF ControlInv, Exclusive, Removing
    <3> QED
      BY <2>2, <3>1 DEF PushFlushApart, PushLock, FlushLock, Indexes, Locks, At
  <2>4. ASSUME NEW s \in Objects, NEW k, NEW q \in Pushers PROVE Indexes(q, s, k)' <=> Indexes(q, s, k)
    BY <2>2 DEF Indexes, At
  <2>5. ASSUME NEW s \in Objects, NEW l, NEW g \in Flushers
        PROVE  /\ flusher'[g].fp = flusher[g].fp
               /\ Unindexes(g, s, l)' <=> Unindexes(g, s, l) \/ (g = f /\ s = states /\ l \in Pairs[m])
    BY <2>2 DEF Unindexes, FlushAt, FlushMoves, OtherFlushers
  <2>7. ASSUME NEW s \in Objects, NEW l PROVE Shown(s, l)' = Shown(s, l)
    <3> DEFINE G == {flusher[g].fp : g \in {g \in Flushers : Unindexes(g, s, l)}}
               D == {k \in DOMAIN heap[s].fpToSeries : /\ l \in Pairs[heap[s].fpToSeries[k].metric]
                                                      /\ \A q \in Pushers : ~Indexes(q, s, k)}
               E == {k \in DOMAIN heap'[s].fpToSeries : /\ l \in Pairs[heap'[s].fpToSeries[k].metric]
                                                       /\ \A q \in Pushers : ~Indexes(q, s, k)}
    <3>1. Shown(s, l) = D \cup G
      BY DEF Shown, Series
    <3>2. Shown(s, l)' = E \cup G \cup (IF s = states /\ l \in Pairs[m] THEN {fp} ELSE {})
      <4> DEFINE H == {flusher'[g].fp : g \in {g \in Flushers : Unindexes(g, s, l)'}}
      <4>1. Shown(s, l)' = E \cup H
        BY <2>4 DEF Shown, Series
      <4>2. H = G \cup (IF s = states /\ l \in Pairs[m] THEN {fp} ELSE {})
        BY <2>5, SMTT(20)
      <4> HIDE DEF E, H, G
      <4> QED
        BY <4>1, <4>2
    <3>3. CASE s # states
      <4>1. heap'[s] = heap[s]
        BY <2>2, <3>3 DEF OtherStates
      <4>2. E = D
        BY <4>1
      <4> HIDE DEF D, E, G
      <4> QED
        BY <3>1, <3>2, <3>3, <4>2
    <3>4. CASE s = states
      <4>1. E = D \ {fp}
        BY <2>2, <3>4, SMTT(20) DEF OtherSeries
      <4>2. fp \in D <=> l \in Pairs[m]
        BY <2>2, <2>3, <3>4 DEF m
      <4> HIDE DEF D, E, G
      <4> QED
        BY <3>1, <3>2, <3>4, <4>1, <4>2
    <3> QED
      BY <3>3, <3>4
  <2>8. ASSUME NEW s \in Objects PROVE IndexOK(s)'
    <3>1. heap'[s].index = heap[s].index /\ IndexOK(s)
      BY <2>2 DEF OtherStates, SameIndex, Indexed
    <3> QED
      BY <2>7, <3>1 DEF IndexOK
  <2> QED
    BY <2>8 DEF Indexed, Objects
<1>UnindexSeriesIndexed.
    ASSUME MapInv, Indexed, NEW f \in Flushers, unindexSeries(f)
    PROVE  Indexed'
  <2> USE <1>UnindexSeriesIndexed
  <2> PICK s : s = flusher[f].state
    OBVIOUS
  <2> PICK m : m = Removed(f)
    OBVIOUS
  <2> DEFINE fp == flusher[f].fp
  <2>1. ControlInv /\ FlushOK(f)
    BY DEF MapInv, ControlInv
  <2>2. /\ FlushAt(f, "unindex") /\ Leaving(f) /\ s \in Objects /\ m \in Metrics
        /\ OtherStates(s) /\ SameSeries(s)
        /\ heap'[s].index = delete(heap[s].index, m, fp)
        /\ FlushMoves(f, "uncount")
        /\ pusher' = pusher
    BY <2>1, UnindexSeriesDoes
  <2>3. flusher[f].taken = {m} /\ fp \notin DOMAIN heap[s].fpToSeries
    BY <2>1, <2>2, FlushingState DEF FlushOK, Series
  <2>4. ASSUME NEW t \in Objects PROVE heap'[t].fpToSeries = heap[t].fpToSeries
    BY <2>2 DEF OtherStates, SameSeries
  <2>5. ASSUME NEW t \in Objects, NEW k, NEW q \in Pushers PROVE Indexes(q, t, k)' <=> Indexes(q, t, k)
    BY <2>2 DEF Indexes, At
  <2>6. ASSUME NEW t \in Objects, NEW l, NEW g \in Flushers
        PROVE  /\ flusher'[g].fp = flusher[g].fp
               /\ Unindexes(g, t, l)' <=> Unindexes(g, t, l) /\ g # f
    BY <2>2 DEF Unindexes, FlushAt, FlushMoves, OtherFlushers
  <2>7. ASSUME NEW l PROVE Unindexes(f, s, l) <=> l \in Pairs[m]
    BY <2>2, <2>3 DEF Unindexes
  <2>8. ASSUME NEW g \in Flushers, g # f, NEW t, NEW l, Unindexes(g, t, l) PROVE flusher[g].fp # fp
    <3>1. FlushesApart(f, g)
      BY <2>1 DEF ControlInv, Exclusive
    <3> QED
      BY <2>2, <2>8, <3>1 DEF FlushesApart, Unindexes, FlushAt
  <2>9. ASSUME NEW l
        PROVE  /\ l \in Pairs[m] => fp \in Shown(s, l)
               /\ Shown(s, l)' = IF l \in Pairs[m] THEN Shown(s, l) \ {fp} ELSE Shown(s, l)
    <3> DEFINE G == {flusher[g].fp : g \in {g \in Flushers : Unindexes(g, s, l)}}
               H == {flusher[g].fp : g \in {g \in Flushers : Unindexes(g, s, l) /\ g # f}}
               D == {k \in DOMAIN heap[s].fpToSeries : /\ l \in Pairs[heap[s].fpToSeries[k].metric]
                                                      /\ \A q \in Pushers : ~Indexes(q, s, k)}
    <3>1. Shown(s, l) = D \cup G
      BY DEF Shown, Series
    <3>2. Shown(s, l)' = D \cup H
      <4>1. Shown(s, l)' = D' \cup G'
        BY DEF Shown, Series
      <4>2. D' = D
        BY <2>2, <2>4, <2>5
      <4>3. {g \in Flushers : Unindexes(g, s, l)'} = {g \in Flushers : Unindexes(g, s, l) /\ g # f}
        BY <2>2, <2>6
      <4>4. G' = H
        BY <2>2, <2>6, <4>3
      <4> QED
        BY <4>1, <4>2, <4>4
    <3>3. fp \notin D /\ fp \notin H
      BY <2>3, <2>8
    <3>4. G = H \cup (IF l \in Pairs[m] THEN {fp} ELSE {})
      BY <2>7
    <3> HIDE DEF D, G, H
    <3> QED
      BY <3>1, <3>2, <3>3, <3>4
  <2>10. ASSUME NEW t \in Objects, t # s, NEW l PROVE Shown(t, l)' = Shown(t, l)
    <3>1. ASSUME NEW g \in Flushers PROVE Unindexes(g, t, l)' <=> Unindexes(g, t, l)
      BY <2>6, <2>10, SMTT(20) DEF Unindexes
    <3> QED
      BY <2>4, <2>5, <2>6, <3>1, SMTT(20) DEF Shown, Series
  <2>11. ASSUME NEW t \in Objects PROVE IndexOK(t)'
    <3>1. IndexOK(t)
      BY SMTT(20) DEF Indexed
    <3>2. CASE t # s
      BY <2>2, <2>10, <3>1, <3>2 DEF IndexOK, OtherStates
    <3>3. CASE t = s
      <4> DEFINE idx == heap[s].index
                 d == delete(idx, m, fp)
      <4>1. SortedIndex(idx) /\ \A l \in Labels : Listed(idx, l) = Shown(s, l)
        BY <3>1, <3>3, SMTT(20) DEF IndexOK
      <4>2. ASSUME NEW l PROVE l \in Pairs[m] => fp \in Listed(idx, l)
        BY <2>2, <2>9, <4>1 DEF Labels
      <4>3. ASSUME NEW l
            PROVE  /\ l \in DOMAIN d => Sorted(d[l])
                   /\ Listed(d, l) = IF l \in Pairs[m] THEN Listed(idx, l) \ {fp} ELSE Listed(idx, l)
        <5> HIDE DEF idx, fp
        <5> QED
          BY <4>1, <4>2, DeleteLists, SMTT(20)
      <4> HIDE DEF d
      <4>4. heap'[s].index = d
        BY <2>2, SMTT(20) DEF d
      <4>5. SortedIndex(heap'[s].index)
        BY <4>3, <4>4, SMTT(20) DEF SortedIndex
      <4>6. ASSUME NEW l \in Labels PROVE Listed(heap'[s].index, l) = Shown(s, l)'
        BY <2>9, <4>1, <4>3, <4>4
      <4> QED
        BY <3>3, <4>5, <4>6 DEF IndexOK
    <3> QED
      BY <3>2, <3>3, SMTT(20)
  <2> QED
    BY <2>11 DEF Indexed, Objects
(* A new state has nothing to index.                                       *)
<1>MadeIndexed.
    ASSUME MapInv, Indexed, unlockedGetOrCreate, states = 0, Indexers
    PROVE  Indexed'
  <2> USE <1>MadeIndexed
  <2> PICK n : n = states'
    BY SMTT(20)
  <2> ControlInv
    BY DEF MapInv
  <2>2. /\ n \in Objects /\ OtherStates(n) /\ heap'[n] = NewState /\ MetricsKept
        /\ \A f \in Flushers : flusher[f].state # n
    BY StateMade, MadeMetrics
  <2>3. ASSUME NEW s \in Objects, s # n PROVE IndexOK(s)'
    <3>1. SameIndex(s)
      BY <2>2, <2>3 DEF OtherStates, SameIndex
    <3> QED
      BY <2>2, <3>1, IndexKept, SMTT(20)
  <2>4. heap'[n].index = << >> /\ DOMAIN heap'[n].fpToSeries = {}
    BY <2>2, SMTT(20) DEF NewState, Empty
  <2>5. ASSUME NEW l PROVE Shown(n, l)' = {}
    <3>1. \A f \in Flushers : ~Unindexes(f, n, l)'
      BY <2>2 DEF Unindexes, Indexers, FlushAt
    <3> QED
      BY <2>4, <3>1, SMTT(20) DEF Shown, Series
  <2>6. ASSUME NEW l PROVE Listed(<< >>, l) = {}
    BY EmptyList, SMTT(20) DEF Listed, ValueAt
  <2>7. IndexOK(n)'
    <3>1. SortedIndex(heap'[n].index)
      BY <2>4, SMTT(20) DEF SortedIndex
    <3>2. \A l \in Labels : Listed(heap'[n].index, l) = Shown(n, l)'
      BY <2>4, <2>5, <2>6
    <3> QED
      BY <3>1, <3>2 DEF IndexOK
  <2> QED
    BY <2>3, <2>7 DEF Indexed, Objects
<1> SUFFICES ASSUME MapInv, Indexed, Step PROVE Indexed'
  OBVIOUS
<1> ControlInv
  BY SMTT(20) DEF MapInv
<1>2. CASE RecordsKept
  BY <1>2, RecordsIndexed
<1>3. ASSUME NEW p \in Pushers, Push(p), ~RecordsKept PROVE Indexed'
  <2>1. CASE createState(p)
    <3>1. states = 0
      BY <1>3, <2>1, OtherRecords
    <3>2. unlockedGetOrCreate /\ Indexers
      BY <2>1, CreateStateDoes DEF Indexers, Others, At
    <3> QED
      BY <3>1, <3>2, <1>MadeIndexed
  <2>2. CASE canAddSeriesFor(p) /\ ~Refused(p)
    <3>1. /\ At(p, "metric") /\ states \in Objects /\ Moves(p, "put")
          /\ OtherStates(states) /\ SameSeries(states) /\ SameIndex(states) /\ flusher' = flusher
      BY <2>2, CanAddSeriesForDoes
    <3>2. MetricsKept /\ Indexers
      BY <3>1, SameMetrics DEF Indexers, Moves, Others, At
    <3>3. \A s \in Objects : SameIndex(s)
      BY <3>1 DEF OtherStates, SameIndex
    <3> QED
      BY <3>2, <3>3, IndexKept DEF Indexed, Objects
  <2> QED
    BY <1>3, <2>1, <2>2, PushRecords, <1>PutSeriesIndexed, <1>IndexSeriesIndexed DEF Push
<1>4. ASSUME NEW f \in Flushers, Flush(f), ~RecordsKept PROVE Indexed'
  <2>1. CASE uncountSeries(f)
    <3>1. /\ FlushAt(f, "uncount") /\ FlushEnds(f) /\ pusher' = pusher
          /\ \E s \in Objects : OtherStates(s) /\ SameSeries(s) /\ SameIndex(s)
      BY <2>1, UncountSeriesDoes
    <3>2. MetricsKept /\ Indexers
      BY <3>1, SameMetrics DEF Indexers, FlushEnds, OtherFlushers, FlushAt
    <3>3. \A s \in Objects : SameIndex(s)
      BY <3>1 DEF OtherStates, SameIndex
    <3> QED
      BY <3>2, <3>3, IndexKept DEF Indexed, Objects
  <2> QED
    BY <1>4, <2>1, FlushRecords, <1>DelSeriesIndexed, <1>UnindexSeriesIndexed DEF Flush
<1>5. CASE getOrCreate /\ ~RecordsKept
  <2>1. states = 0 /\ unlockedGetOrCreate /\ pusher' = pusher /\ flusher' = flusher
    BY <1>5, OtherRecords, GetOrCreateDoes
  <2> QED
    BY <2>1, <1>MadeIndexed DEF Indexers
<1> QED
  BY <1>2, <1>3, <1>4, <1>5, PushRecords, FlushRecords, OtherRecords DEF Step

-----------------------------------------------------------------------------
(* Counted: the count of a name is that of its series, of those about to   *)
(* be put and of those just removed.                                       *)

Here(s, name) == {fp \in DOMAIN Series(s) : MetricName[Series(s)[fp].metric] = name}
Coming(s, name) == {p \in Pushers : At(p, "put") /\ pusher[p].state = s /\ MetricName[pusher[p].metric] = name}
Going(s, name) ==
  {f \in Flushers : Leaving(f) /\ flusher[f].state = s /\ \E m \in flusher[f].taken : MetricName[m] = name}
Count(s, name) == ValueAt(heap[s].seriesInMetric, name, 0)
CountOK(s, name) ==
  /\ Count(s, name) = Cardinality(Here(s, name)) + Cardinality(Coming(s, name)) + Cardinality(Going(s, name))
  /\ Count(s, name) <= MaxSeriesPerMetric
Counted == \A s \in Objects : \A m \in Metrics : CountOK(s, MetricName[m])

(* Nobody is about to put a series, or has just removed one, who was not   *)
(* before.                                                                 *)
Counters ==
  /\ \A p \in Pushers : pusher'[p] = pusher[p] \/ (~At(p, "put") /\ ~At(p, "put")')
  /\ \A f \in Flushers :
       /\ Leaving(f)' <=> Leaving(f)
       /\ Leaving(f) => flusher'[f].state = flusher[f].state /\ flusher'[f].taken = flusher[f].taken

(* Where metrics are kept, so are the series under a name.                 *)
LEMMA HereKept ==
  ASSUME MetricsKept, NEW s \in Objects, NEW name
  PROVE  Here(s, name)' = Here(s, name)
BY KeptMetric DEF Here, Series

(* Where nobody begins or ends to count, those who do are the same.        *)
LEMMA CountersKept ==
  ASSUME Counters, NEW s, NEW name
  PROVE  Coming(s, name)' = Coming(s, name) /\ Going(s, name)' = Going(s, name)
<1>1. ASSUME NEW p \in Pushers PROVE p \in Coming(s, name)' <=> p \in Coming(s, name)
  BY DEF Counters, Coming, At
<1>2. ASSUME NEW f \in Flushers PROVE f \in Going(s, name)' <=> f \in Going(s, name)
  BY DEF Counters, Going
<1>3. Coming(s, name) \subseteq Pushers /\ Coming(s, name)' \subseteq Pushers
  BY DEF Coming
<1>4. Going(s, name) \subseteq Flushers /\ Going(s, name)' \subseteq Flushers
  BY DEF Going
<1> QED
  BY <1>1, <1>2, <1>3, <1>4

(* Where count and counted are kept, CountOK is.                           *)
LEMMA CountKept ==
  ASSUME Counted, MetricsKept, Counters, NEW s \in Objects, SameCounts(s), NEW m \in Metrics
  PROVE  CountOK(s, MetricName[m])'
<1>1. CountOK(s, MetricName[m]) /\ Count(s, MetricName[m])' = Count(s, MetricName[m])
  BY DEF Counted, Count, SameCounts
<1> QED
  BY <1>1, HereKept, CountersKept DEF CountOK

(* A step that leaves the records alone keeps Counted.                     *)
LEMMA RecordsCounted ==
  ASSUME Counted, RecordsKept
  PROVE  Counted'
<1>1. MetricsKept /\ Counters /\ \A s \in Objects : SameCounts(s)
  BY DEF RecordsKept, Counters, Busy, Leaving, At
<1> QED
  BY <1>1, CountKept DEF Counted, Objects

(* Each step keeps Counted.                                                *)
LEMMA CountedStep == MapInv /\ Counted /\ Step => Counted'
(* Counting one element more, and one less.                                *)
<1>OneMore.
    ASSUME NEW S, NEW T, NEW x, IsFiniteSet(S), x \notin S, T = S \cup {x}
    PROVE  Cardinality(T) = Cardinality(S) + 1
  BY <1>OneMore, FS_AddElement, SMTT(20)
<1>OneLess.
    ASSUME NEW S, NEW T, NEW x, IsFiniteSet(S), x \in S, T = S \ {x}
    PROVE  Cardinality(T) = Cardinality(S) - 1
  BY <1>OneLess, FS_RemoveElement, SMTT(20)
<1>CountFinite.
    ASSUME ControlInv, NEW s \in Objects, NEW name
    PROVE  /\ IsFiniteSet(Here(s, name)) /\ Cardinality(Here(s, name)) \in Nat
           /\ IsFiniteSet(Coming(s, name)) /\ Cardinality(Coming(s, name)) \in Nat
           /\ IsFiniteSet(Going(s, name)) /\ Cardinality(Going(s, name)) \in Nat
  <2> USE <1>CountFinite
  <2>1. IsFiniteSet(DOMAIN Series(s)) /\ Here(s, name) \subseteq DOMAIN Series(s)
    BY DEF ControlInv, LimitInv, Bounded, Here
  <2>2. IsFiniteSet(Pushers) /\ IsFiniteSet(Flushers) /\ Coming(s, name) \subseteq Pushers /\ Going(s, name) \subseteq Flushers
    BY UserStatesAssumption DEF Coming, Going
  <2> QED
    BY <2>1, <2>2, FS_Subset, FS_CardinalityType
<1>CanAddSeriesForCounted.
    ASSUME MapInv, Counted, NEW p \in Pushers, canAddSeriesFor(p), ~Refused(p)
    PROVE  Counted'
  <2> USE <1>CanAddSeriesForCounted
  <2> PICK s : s = states
    OBVIOUS
  <2> PICK name : name = MetricName[pusher[p].metric]
    OBVIOUS
  <2> ControlInv
    BY DEF MapInv
  <2>2. /\ At(p, "metric") /\ s \in Objects /\ pusher[p].state = s /\ Moves(p, "put")
        /\ OtherStates(s) /\ SameSeries(s) /\ Count(s, name) < MaxSeriesPerMetric
        /\ heap'[s].seriesInMetric = With(heap[s].seriesInMetric, name, Count(s, name) + 1)
        /\ flusher' = flusher
    BY CanAddSeriesForDoes DEF Count
  <2>3. MetricsKept
    BY <2>2, SameMetrics
  <2>4. ASSUME NEW t, NEW nm PROVE Going(t, nm)' = Going(t, nm)
    BY <2>2 DEF Going, Leaving
  <2>5. ASSUME NEW t, NEW nm
        PROVE  Coming(t, nm)' = Coming(t, nm) \cup (IF t = s /\ nm = name THEN {p} ELSE {}) /\ p \notin Coming(t, nm)
    BY <2>2, SMTT(20) DEF Coming, At, Moves, Others
  <2>6. ASSUME NEW t \in Objects, NEW nm
        PROVE  Count(t, nm)' = IF t = s /\ nm = name THEN Count(s, name) + 1 ELSE Count(t, nm)
    <3>1. CASE t # s
      BY <2>2, <3>1 DEF OtherStates, Count
    <3>2. CASE t = s
      BY <2>2, <3>2 DEF Count, With, ValueAt
    <3> QED
      BY <3>1, <3>2
  <2>7. ASSUME NEW t \in Objects, NEW m \in Metrics PROVE CountOK(t, MetricName[m])'
    <3> PICK nm : nm = MetricName[m]
      OBVIOUS
    <3>1. CountOK(t, nm) /\ Here(t, nm)' = Here(t, nm)
      BY <2>3, HereKept DEF Counted
    <3>2. CASE t = s /\ nm = name
      <4>1. Coming(t, nm)' = Coming(t, nm) \cup {p} /\ p \notin Coming(t, nm)
        BY <2>5, <3>2
      <4>2. Cardinality(Coming(t, nm)') = Cardinality(Coming(t, nm)) + 1
        BY <4>1, <1>CountFinite, FS_AddElement
      <4>3. Count(t, nm)' = Count(t, nm) + 1 /\ Count(t, nm) < MaxSeriesPerMetric
        BY <2>2, <2>6, <3>2
      <4>4. Count(t, nm) \in Nat
        BY <3>1, <1>CountFinite, SMTT(20) DEF CountOK
      <4>5. /\ Cardinality(Here(t, nm)) \in Nat /\ Cardinality(Coming(t, nm)) \in Nat /\ Cardinality(Going(t, nm)) \in Nat
            /\ Count(t, nm) = Cardinality(Here(t, nm)) + Cardinality(Coming(t, nm)) + Cardinality(Going(t, nm))
        BY <3>1, <1>CountFinite DEF CountOK
      <4>6. CountOK(t, nm)'
        BY <2>4, <3>1, <4>2, <4>3, <4>4, <4>5, UserStatesAssumption, SMTT(20) DEF CountOK
      <4> QED
        BY <4>6
    <3>3. CASE ~(t = s /\ nm = name)
      <4>1. Count(t, nm)' = Count(t, nm) /\ Coming(t, nm)' = Coming(t, nm)
        BY <2>5, <2>6, <3>3, SMTT(20)
      <4> QED
        BY <2>4, <3>1, <4>1 DEF CountOK
    <3> QED
      BY <3>2, <3>3
  <2> QED
    BY <2>7 DEF Counted, Objects
<1>PutSeriesCounted.
    ASSUME MapInv, Counted, NEW p \in Pushers, putSeries(p)
    PROVE  Counted'
  <2> USE <1>PutSeriesCounted
  <2> PICK s : s = states
    OBVIOUS
  <2> PICK name : name = MetricName[pusher[p].metric]
    OBVIOUS
  <2> DEFINE fp == pusher[p].fp
  <2>1. ControlInv /\ PushOK(p)
    BY DEF MapInv, ControlInv
  <2>2. /\ At(p, "put") /\ s \in Objects /\ pusher[p].state = s /\ Moves(p, "index")
        /\ OtherStates(s) /\ SameCounts(s)
        /\ OtherSeries(s, fp) /\ fp \in DOMAIN heap'[s].fpToSeries
        /\ heap'[s].fpToSeries[fp] = [metric |-> pusher[p].metric, samples |-> {}]
        /\ flusher' = flusher
    BY <2>1, PutSeriesDoes
  <2>3. fp \notin DOMAIN heap[s].fpToSeries /\ MetricName[heap'[s].fpToSeries[fp].metric] = name
    BY <2>1, <2>2, SMTT(20) DEF PushOK, Locks, At, Series
  <2>4. ASSUME NEW t, NEW nm PROVE Going(t, nm)' = Going(t, nm)
    BY <2>2 DEF Going, Leaving
  <2>5. ASSUME NEW t, NEW nm
        PROVE  /\ t = s /\ nm = name => Coming(t, nm)' = Coming(t, nm) \ {p}
               /\ ~(t = s /\ nm = name) => Coming(t, nm)' = Coming(t, nm)
               /\ p \in Coming(s, name)
    BY <2>2, SMTT(20) DEF Coming, At, Moves, Others
  <2>6. ASSUME NEW t \in Objects, NEW nm
        PROVE  /\ t = s /\ nm = name => Here(t, nm)' = Here(t, nm) \cup {fp}
               /\ ~(t = s /\ nm = name) => Here(t, nm)' = Here(t, nm)
               /\ fp \notin Here(s, name) /\ Count(t, nm)' = Count(t, nm)
    <3>1. CASE t # s
      BY <2>2, <2>3, <3>1 DEF OtherStates, Here, Series, Count
    <3>2. CASE t = s
      <4>1. DOMAIN heap'[s].fpToSeries = DOMAIN heap[s].fpToSeries \cup {fp}
        BY <2>2, <2>3 DEF OtherSeries
      <4>2. \A k \in DOMAIN heap[s].fpToSeries : k # fp /\ heap'[s].fpToSeries[k] = heap[s].fpToSeries[k]
        BY <2>2, <2>3, SMTT(20) DEF OtherSeries
      <4>3. ASSUME NEW k PROVE k \in Here(s, nm)' <=> k \in Here(s, nm) \/ (k = fp /\ nm = name)
        BY <2>3, <4>1, <4>2 DEF Here, Series
      <4>4. fp \notin Here(s, name) /\ Count(s, nm)' = Count(s, nm)
        BY <2>2, <2>3 DEF Here, Series, Count, SameCounts
      <4> QED
        BY <3>2, <4>3, <4>4
    <3> QED
      BY <3>1, <3>2
  <2> HIDE DEF fp
  <2>7. ASSUME NEW t \in Objects, NEW m \in Metrics PROVE CountOK(t, MetricName[m])'
    <3> PICK nm : nm = MetricName[m]
      OBVIOUS
    <3>1. CountOK(t, nm) /\ Count(t, nm)' = Count(t, nm) /\ Going(t, nm)' = Going(t, nm)
      BY <2>4, <2>6 DEF Counted
    <3>2. CASE t = s /\ nm = name
      <4>1. /\ Cardinality(Here(t, nm)) \in Nat /\ Cardinality(Coming(t, nm)) \in Nat /\ Cardinality(Going(t, nm)) \in Nat
            /\ IsFiniteSet(Here(t, nm)) /\ IsFiniteSet(Coming(t, nm))
        BY <2>1, <1>CountFinite
      <4>2. Here(t, nm)' = Here(t, nm) \cup {fp} /\ fp \notin Here(t, nm)
        BY <2>6, <3>2
      <4>3. Cardinality(Here(t, nm)') = Cardinality(Here(t, nm)) + 1
        BY <4>1, <4>2, <1>OneMore
      <4>4. Coming(t, nm)' = Coming(t, nm) \ {p} /\ p \in Coming(t, nm)
        BY <2>5, <3>2
      <4>5. Cardinality(Coming(t, nm)') = Cardinality(Coming(t, nm)) - 1
        BY <4>1, <4>4, <1>OneLess
      <4>6. Cardinality(Here(t, nm)) + Cardinality(Coming(t, nm)) + Cardinality(Going(t, nm)) =
              (Cardinality(Here(t, nm)) + 1) + (Cardinality(Coming(t, nm)) - 1) + Cardinality(Going(t, nm))
        BY ONLY <4>1, SMTT(20)
      <4>7. CountOK(t, nm)'
        BY <3>1, <4>3, <4>5, <4>6 DEF CountOK
      <4> QED
        BY <4>7
    <3>3. CASE ~(t = s /\ nm = name)
      <4>1. Here(t, nm)' = Here(t, nm) /\ Coming(t, nm)' = Coming(t, nm)
        BY <2>5, <2>6, <3>3
      <4> QED
        BY <3>1, <4>1 DEF CountOK
    <3> QED
      BY <3>2, <3>3
  <2> QED
    BY <2>7 DEF Counted, Objects
<1>DelSeriesCounted.
    ASSUME MapInv, Counted, NEW f \in Flushers, delSeries(f)
    PROVE  Counted'
  <2> USE <1>DelSeriesCounted
  <2> PICK s : s = states
    BY SMTT(20)
  <2> DEFINE fp == flusher[f].fp
  <2> PICK name : name = MetricName[heap[s].fpToSeries[fp].metric]
    OBVIOUS
  <2> ControlInv
    BY DEF MapInv
  <2>2. /\ FlushAt(f, "del") /\ s \in Objects /\ flusher[f].state = s /\ fp \in DOMAIN heap[s].fpToSeries
        /\ OtherStates(s) /\ SameCounts(s) /\ OtherSeries(s, fp) /\ fp \notin DOMAIN heap'[s].fpToSeries
        /\ FlushMoves(f, "unindex") /\ flusher'[f].taken = {heap[s].fpToSeries[fp].metric}
        /\ pusher' = pusher
    BY DelSeriesDoes
  <2>4. ASSUME NEW t, NEW nm PROVE Coming(t, nm)' = Coming(t, nm)
    BY <2>2 DEF Coming, At
  <2>5. ASSUME NEW t, NEW nm
        PROVE  /\ t = s /\ nm = name => Going(t, nm)' = Going(t, nm) \cup {f}
               /\ ~(t = s /\ nm = name) => Going(t, nm)' = Going(t, nm)
               /\ f \notin Going(t, nm)
    <3>1. ~Leaving(f) /\ Leaving(f)' /\ flusher'[f].state = s
      BY <2>2 DEF FlushMoves, FlushAt, Leaving
    <3>2. (\E m \in flusher'[f].taken : MetricName[m] = nm) <=> nm = name
      BY <2>2
    <3>3. f \in Going(t, nm)' <=> t = s /\ nm = name
      BY <3>1, <3>2 DEF Going
    <3>4. ASSUME NEW g \in Flushers, g # f PROVE g \in Going(t, nm)' <=> g \in Going(t, nm)
      BY <2>2, <3>4 DEF Going, FlushMoves, OtherFlushers, Leaving
    <3>5. f \notin Going(t, nm) /\ Going(t, nm) \subseteq Flushers /\ Going(t, nm)' \subseteq Flushers
      BY <3>1 DEF Going
    <3>6. ASSUME NEW g PROVE g \in Going(t, nm)' <=> g \in Going(t, nm) \/ (g = f /\ t = s /\ nm = name)
      BY <3>3, <3>4, <3>5
    <3> QED
      BY <3>5, <3>6
  <2>6. ASSUME NEW t \in Objects, NEW nm
        PROVE  /\ t = s /\ nm = name => Here(t, nm)' = Here(t, nm) \ {fp}
               /\ ~(t = s /\ nm = name) => Here(t, nm)' = Here(t, nm)
               /\ fp \in Here(s, name) /\ Count(t, nm)' = Count(t, nm)
    <3>1. fp \in Here(s, name)
      BY <2>2 DEF Here, Series
    <3>2. CASE t # s
      BY <2>2, <3>1, <3>2 DEF OtherStates, Here, Series, Count
    <3>3. CASE t = s
      <4>1. DOMAIN heap'[s].fpToSeries = DOMAIN heap[s].fpToSeries \ {fp}
        BY <2>2 DEF OtherSeries
      <4>2. \A k \in DOMAIN heap'[s].fpToSeries : heap'[s].fpToSeries[k] = heap[s].fpToSeries[k]
        BY <2>2, <4>1 DEF OtherSeries
      <4>3. ASSUME NEW k PROVE k \in Here(s, nm)' <=> k \in Here(s, nm) /\ k # fp
        BY <4>1, <4>2 DEF Here, Series
      <4>4. fp \in Here(s, nm) => nm = name
        BY DEF Here, Series
      <4>5. Count(s, nm)' = Count(s, nm)
        BY <2>2 DEF Count, SameCounts
      <4> QED
        BY <3>1, <3>3, <4>3, <4>4, <4>5
    <3> QED
      BY <3>2, <3>3
  <2> HIDE DEF fp
  <2>7. ASSUME NEW t \in Objects, NEW m \in Metrics PROVE CountOK(t, MetricName[m])'
    <3> PICK nm : nm = MetricName[m]
      OBVIOUS
    <3>1. CountOK(t, nm) /\ Count(t, nm)' = Count(t, nm) /\ Coming(t, nm)' = Coming(t, nm)
      BY <2>4, <2>6 DEF Counted
    <3>2. CASE t = s /\ nm = name
      <4>1. /\ Cardinality(Here(t, nm)) \in Nat /\ Cardinality(Coming(t, nm)) \in Nat /\ Cardinality(Going(t, nm)) \in Nat
            /\ IsFiniteSet(Here(t, nm)) /\ IsFiniteSet(Going(t, nm))
        BY <1>CountFinite
      <4>2. Going(t, nm)' = Going(t, nm) \cup {f} /\ f \notin Going(t, nm)
        BY <2>5, <3>2
      <4>3. Cardinality(Going(t, nm)') = Cardinality(Going(t, nm)) + 1
        BY <4>1, <4>2, <1>OneMore
      <4>4. Here(t, nm)' = Here(t, nm) \ {fp} /\ fp \in Here(t, nm)
        BY <2>6, <3>2
      <4>5. Cardinality(Here(t, nm)') = Cardinality(Here(t, nm)) - 1
        BY <4>1, <4>4, <1>OneLess
      <4>6. Cardinality(Here(t, nm)) + Cardinality(Coming(t, nm)) + Cardinality(Going(t, nm)) =
              (Cardinality(Here(t, nm)) - 1) + Cardinality(Coming(t, nm)) + (Cardinality(Going(t, nm)) + 1)
        BY ONLY <4>1, SMTT(20)
      <4>7. CountOK(t, nm)'
        BY <3>1, <4>3, <4>5, <4>6 DEF CountOK
      <4> QED
        BY <4>7
    <3>3. CASE ~(t = s /\ nm = name)
      <4>1. Here(t, nm)' = Here(t, nm) /\ Going(t, nm)' = Going(t, nm)
        BY <2>5, <2>6, <3>3
      <4> QED
        BY <3>1, <4>1 DEF CountOK
    <3> QED
      BY <3>2, <3>3
  <2> QED
    BY <2>7 DEF Counted, Objects
<1>UncountSeriesCounted.
    ASSUME MapInv, Counted, NEW f \in Flushers, uncountSeries(f)
    PROVE  Counted'
  <2> USE <1>UncountSeriesCounted
  <2> PICK s : s = flusher[f].state
    BY SMTT(20)
  <2> PICK r : r = Removed(f)
    BY SMTT(20)
  <2> PICK name : name = MetricName[r]
    OBVIOUS
  <2> PICK n : n = heap[s].seriesInMetric[name]
    OBVIOUS
  <2> ControlInv
    BY DEF MapInv
  <2>2. /\ FlushAt(f, "uncount") /\ Leaving(f) /\ s \in Objects /\ r \in Metrics
        /\ OtherStates(s) /\ SameSeries(s)
        /\ heap'[s].seriesInMetric =
             IF n - 1 = 0 THEN Without(heap[s].seriesInMetric, name) ELSE With(heap[s].seriesInMetric, name, n - 1)
        /\ FlushEnds(f) /\ pusher' = pusher
    BY UncountSeriesDoes
  <2>3. flusher[f].taken = {r}
    BY <2>2, FlushingState
  <2>4. ASSUME NEW t \in Objects, NEW nm PROVE Coming(t, nm)' = Coming(t, nm) /\ Here(t, nm)' = Here(t, nm)
    <3>1. MetricsKept
      BY <2>2, SameMetrics
    <3> QED
      BY <2>2, <3>1, HereKept DEF Coming, At
  <2>5. ASSUME NEW t, NEW nm
        PROVE  /\ t = s /\ nm = name => Going(t, nm)' = Going(t, nm) \ {f}
               /\ ~(t = s /\ nm = name) => Going(t, nm)' = Going(t, nm)
               /\ f \in Going(s, name)
    <3>1. ASSUME NEW g \in Flushers, g # f PROVE g \in Going(t, nm)' <=> g \in Going(t, nm)
      BY <2>2, <3>1 DEF Going, FlushEnds, OtherFlushers, Leaving
    <3>2. f \in Going(t, nm) <=> t = s /\ nm = name
      BY <2>2, <2>3 DEF Going
    <3>3. f \notin Going(t, nm)'
      BY <2>2 DEF Going, FlushEnds, Leaving
    <3>4. f \in Going(s, name) /\ Going(t, nm) \subseteq Flushers /\ Going(t, nm)' \subseteq Flushers
      BY <2>2, <2>3 DEF Going
    <3>5. ASSUME NEW g PROVE g \in Going(t, nm)' <=> g \in Going(t, nm) /\ g # f
      BY <3>1, <3>3, <3>4
    <3> QED
      BY <3>2, <3>4, <3>5
  <2>6. /\ CountOK(s, name) /\ Cardinality(Here(s, name)) \in Nat /\ Cardinality(Coming(s, name)) \in Nat
        /\ IsFiniteSet(Going(s, name)) /\ Cardinality(Going(s, name)) \in Nat
        /\ Cardinality(Going(s, name) \ {f}) \in Nat
        /\ Cardinality(Going(s, name) \ {f}) = Cardinality(Going(s, name)) - 1
    <3>1. CountOK(s, name)
      BY <2>2 DEF Counted
    <3>2. IsFiniteSet(Going(s, name) \ {f})
      BY <2>2, <1>CountFinite, FS_RemoveElement
    <3> QED
      BY <2>2, <2>5, <3>1, <3>2, <1>CountFinite, FS_RemoveElement, FS_CardinalityType
  <2>7. Count(s, name) = n /\ n \in Nat
    <3>1. Count(s, name) \in Nat /\ Count(s, name) # 0
      BY <2>6, SMTT(20) DEF CountOK
    <3> QED
      BY <3>1 DEF Count, ValueAt
  <2>8. ASSUME NEW t \in Objects, NEW nm
        PROVE  Count(t, nm)' = IF t = s /\ nm = name THEN n - 1 ELSE Count(t, nm)
    <3>1. CASE t # s
      BY <2>2, <3>1 DEF OtherStates, Count
    <3>2. CASE t = s /\ n - 1 = 0
      BY <2>2, <2>7, <3>2 DEF Count, Without, ValueAt
    <3>3. CASE t = s /\ n - 1 # 0
      BY <2>2, <2>7, <3>3 DEF Count, With, ValueAt
    <3> QED
      BY <3>1, <3>2, <3>3
  <2>9. ASSUME NEW t \in Objects, NEW m \in Metrics PROVE CountOK(t, MetricName[m])'
    <3> PICK nm : nm = MetricName[m]
      OBVIOUS
    <3>1. CountOK(t, nm) /\ Coming(t, nm)' = Coming(t, nm) /\ Here(t, nm)' = Here(t, nm)
      BY <2>4 DEF Counted
    <3>2. CASE t = s /\ nm = name
      <4>1. Going(t, nm)' = Going(t, nm) \ {f} /\ Count(t, nm)' = Count(t, nm) - 1
        BY <2>5, <2>7, <2>8, <3>2
      <4>2. Cardinality(Going(t, nm)') = Cardinality(Going(t, nm)) - 1
        BY <2>6, <3>2, <4>1
      <4>3. Count(t, nm) - 1 <= MaxSeriesPerMetric
        <5>1. Count(t, nm) \in Nat /\ Count(t, nm) <= MaxSeriesPerMetric
          BY <2>7, <3>1, <3>2 DEF CountOK
        <5>2. MaxSeriesPerMetric \in Nat
          BY UserStatesAssumption
        <5> QED
          BY ONLY <5>1, <5>2, SMTT(20)
      <4>4. (Cardinality(Here(t, nm)) + Cardinality(Coming(t, nm)) + Cardinality(Going(t, nm))) - 1 =
              Cardinality(Here(t, nm)) + Cardinality(Coming(t, nm)) + (Cardinality(Going(t, nm)) - 1)
        <5>1. Cardinality(Here(t, nm)) \in Nat /\ Cardinality(Coming(t, nm)) \in Nat /\ Cardinality(Going(t, nm)) \in Nat
          BY <2>6, <3>2
        <5> QED
          BY ONLY <5>1, SMTT(20)
      <4>5. Count(t, nm) = Cardinality(Here(t, nm)) + Cardinality(Coming(t, nm)) + Cardinality(Going(t, nm))
        BY <3>1 DEF CountOK
      <4>6. Count(t, nm)' = Cardinality(Here(t, nm)) + Cardinality(Coming(t, nm)) + (Cardinality(Going(t, nm)) - 1)
        BY <4>1, <4>4, <4>5
      <4>7. Count(t, nm)' <= MaxSeriesPerMetric
        BY <4>1, <4>3
      <4>8. CountOK(t, nm)'
        BY <3>1, <4>2, <4>6, <4>7 DEF CountOK
      <4> QED
        BY <4>8
    <3>3. CASE ~(t = s /\ nm = name)
      <4>1. Count(t, nm)' = Count(t, nm) /\ Going(t, nm)' = Going(t, nm)
        BY <2>5, <2>8, <3>3
      <4> QED
        BY <3>1, <4>1 DEF CountOK
    <3> QED
      BY <3>2, <3>3
  <2> QED
    BY <2>9 DEF Counted, Objects
<1>MadeCounted.
    ASSUME MapInv, Counted, unlockedGetOrCreate, states = 0, Counters
    PROVE  Counted'
  <2> USE <1>MadeCounted
  <2> PICK n : n = states'
    BY SMTT(20)
  <2> ControlInv
    BY SMTT(20) DEF MapInv
  <2>2. /\ n \in Objects /\ OtherStates(n) /\ heap'[n] = NewState /\ MetricsKept
        /\ \A f \in Flushers : flusher[f].state # n
    BY StateMade, MadeMetrics, SMTT(20)
  <2>3. ASSUME NEW s \in Objects, s # n, NEW m \in Metrics PROVE CountOK(s, MetricName[m])'
    <3>1. SameCounts(s)
      BY <2>2, <2>3 DEF OtherStates, SameCounts
    <3> QED
      BY <2>2, <3>1, CountKept
  <2>4. ASSUME NEW m \in Metrics PROVE CountOK(n, MetricName[m])'
    <3> PICK nm : nm = MetricName[m]
      OBVIOUS
    <3>1. heap'[n].seriesInMetric = << >> /\ DOMAIN heap'[n].fpToSeries = {}
      BY <2>2, SMTT(20) DEF NewState, Empty
    <3>2. Here(n, nm)' = {} /\ Count(n, nm)' = 0
      BY <3>1, SMTT(20) DEF Here, Series, Count, ValueAt
    <3>3. Coming(n, nm)' = {}
      <4>1. \A p \in Pushers : ~At(p, "put")
        BY DEF ControlInv, PushOK, Entered, At
      <4> QED
        BY <4>1 DEF Coming, Counters, At
    <3>4. Going(n, nm)' = {}
      BY <2>2 DEF Going, Counters
    <3>5. CountOK(n, nm)'
      BY <3>2, <3>3, <3>4, FS_EmptySet, UserStatesAssumption, SMTT(20) DEF CountOK
    <3> QED
      BY <3>5
  <2> QED
    BY <2>3, <2>4 DEF Counted, Objects
<1> SUFFICES ASSUME MapInv, Counted, Step PROVE Counted'
  OBVIOUS
<1> ControlInv
  BY SMTT(20) DEF MapInv
<1>2. CASE RecordsKept
  BY <1>2, RecordsCounted, SMTT(20)
<1>3. ASSUME NEW p \in Pushers, Push(p), ~RecordsKept PROVE Counted'
  <2>1. CASE createState(p)
    <3>1. states = 0
      BY <1>3, <2>1, OtherRecords, SMTT(20)
    <3>2. unlockedGetOrCreate /\ Counters
      BY <2>1, CreateStateDoes DEF Counters, Others, At, Leaving
    <3> QED
      BY <3>1, <3>2, <1>MadeCounted, SMTT(20)
  <2>2. CASE indexSeries(p)
    <3>1. /\ At(p, "index") /\ states \in Objects /\ Moves(p, "append")
          /\ OtherStates(states) /\ SameSeries(states) /\ SameCounts(states) /\ flusher' = flusher
      BY <2>2, IndexSeriesDoes
    <3>2. MetricsKept /\ Counters
      BY <3>1, SameMetrics DEF Counters, Moves, Others, At, Leaving
    <3>3. \A s \in Objects : SameCounts(s)
      BY <3>1 DEF OtherStates, SameCounts
    <3> QED
      BY <3>2, <3>3, CountKept DEF Counted, Objects
  <2> QED
    BY <1>3, <2>1, <2>2, PushRecords, <1>PutSeriesCounted, <1>CanAddSeriesForCounted DEF Push
<1>4. ASSUME NEW f \in Flushers, Flush(f), ~RecordsKept PROVE Counted'
  <2>1. CASE unindexSeries(f)
    <3>1. /\ FlushAt(f, "unindex") /\ FlushMoves(f, "uncount") /\ flusher'[f].taken = flusher[f].taken /\ pusher' = pusher
          /\ \E s \in Objects : OtherStates(s) /\ SameSeries(s) /\ SameCounts(s)
      BY <2>1, UnindexSeriesDoes
    <3>2. MetricsKept /\ Counters
      BY <3>1, SameMetrics DEF Counters, FlushMoves, OtherFlushers, FlushAt, Leaving
    <3>3. \A s \in Objects : SameCounts(s)
      BY <3>1 DEF OtherStates, SameCounts
    <3> QED
      BY <3>2, <3>3, CountKept, SMTT(20) DEF Counted, Objects
  <2> QED
    BY <1>4, <2>1, FlushRecords, <1>DelSeriesCounted, <1>UncountSeriesCounted, SMTT(20) DEF Flush
<1>5. CASE getOrCreate /\ ~RecordsKept
  <2>1. states = 0 /\ unlockedGetOrCreate /\ pusher' = pusher /\ flusher' = flusher
    BY <1>5, OtherRecords, GetOrCreateDoes, SMTT(20)
  <2>2. Counters
    BY <2>1 DEF Counters, Leaving
  <2> QED
    BY <2>1, <2>2, <1>MadeCounted
<1> QED
  BY <1>2, <1>3, <1>4, <1>5, PushRecords, FlushRecords, OtherRecords, SMTT(20) DEF Step

(* StateAgrees from the exact records.                                     *)
LEMMA RecordsAgree ==
  ASSUME MapInv, Indexed, Counted
  PROVE  StateAgrees
<1>1. ControlInv /\ TypeOK
  BY DEF MapInv, ControlInv, Typed
<1>2. ASSUME NEW s \in Objects PROVE IndexAgrees(s)
  <2>1. SortedIndex(heap[s].index) /\ \A l \in Labels : Listed(heap[s].index, l) = Shown(s, l)
    BY DEF Indexed, IndexOK
  <2>2. ASSUME NEW l \in DOMAIN heap[s].index, NEW i \in 1..(Len(heap[s].index[l]) - 1)
        PROVE  heap[s].index[l][i] < heap[s].index[l][i + 1]
    <3>1. Sorted(heap[s].index[l])
      BY <2>1 DEF SortedIndex
    <3>2. Len(heap[s].index[l]) \in Nat
      BY <3>1, SMTT(20) DEF Sorted
    <3>3. i \in 1..Len(heap[s].index[l]) /\ i + 1 \in 1..Len(heap[s].index[l]) /\ i < i + 1
      BY <3>2, SMTT(20)
    <3> QED
      BY <3>1, <3>3 DEF Sorted
  <2>3. ASSUME NEW l \in Labels
        PROVE  Listed(heap[s].index, l) \ Working(s) = {fp \in DOMAIN Series(s) : l \in Pairs[Series(s)[fp].metric]} \ Working(s)
    <3>1. ASSUME NEW k, k \notin Working(s)
          PROVE  k \in Shown(s, l) <=> k \in {fp \in DOMAIN Series(s) : l \in Pairs[Series(s)[fp].metric]}
      <4>1. \A p \in Pushers : ~Indexes(p, s, k)
        BY <3>1 DEF Working, Indexes
      <4>2. \A f \in Flushers : Unindexes(f, s, l) => flusher[f].fp # k
        BY <3>1 DEF Working, Unindexes
      <4> QED
        BY <4>1, <4>2 DEF Shown
    <3> QED
      BY <2>1, <3>1
  <2> QED
    BY <2>2, <2>3 DEF IndexAgrees, Labels, Listed
<1>3. ASSUME NEW s \in Objects, NEW m \in Metrics PROVE CountAgrees(s, MetricName[m])
  <2> PICK name : name = MetricName[m]
    OBVIOUS
  <2>1. CountOK(s, name)
    BY DEF Counted
  <2> DEFINE G == {f \in Flushers : /\ flusher[f].pc \in {"unindex", "uncount"}
                                    /\ flusher[f].state = s /\ MetricName[Removed(f)] = name}
  <2>2. G = Going(s, name)
    <3>1. \A f \in Flushers : Leaving(f) => flusher[f].taken = {Removed(f)}
      BY <1>1, FlushingState
    <3> QED
      BY <3>1 DEF Going, Leaving
  <2>3. CountAgrees(s, name)
    BY <2>1, <2>2 DEF CountAgrees, CountOK, Count, Here, Coming
  <2> QED
    BY <2>3
<1> QED
  BY <1>1, <1>2, <1>3 DEF StateAgrees

-----------------------------------------------------------------------------
(* Asked: what a query still owes is in a series left to visit. *)

Seen(x) ==
  /\ query.state = states
  /\ query.pc = "series" =>
       \/ x \in query.result
       \/ \E fp \in query.fps : fp \in DOMAIN Series(states) /\ x \in Series(states)[fp].samples
Asked ==
  query.pc # "idle" =>
    \A x \in query.before : Older(x) /\ Matching(x[2]) /\ (x \in owed => Seen(x))

(* Each step keeps Asked: a sample still owed stays in its series.         *)
LEMMA AskedStep == MapInv /\ Samples /\ Indexed /\ Asked /\ Step => Asked'
(* A sample that is still owed stays in its series.                        *)
<1>OwedStays.
    ASSUME MapInv, Samples, Step, NEW x \in owed, NEW fp \in DOMAIN heap[states].fpToSeries,
           x \in heap[states].fpToSeries[fp].samples
    PROVE  states' = states /\ fp \in DOMAIN heap'[states].fpToSeries /\ x \in heap'[states].fpToSeries[fp].samples
  <2> USE <1>OwedStays
  <2> ControlInv
    BY DEF MapInv
  <2>2. states \in Objects
    BY DEF ControlInv, Typed, TypeOK, Samples, AckedKept
  <2>3. CASE states' = states /\ \A s \in Objects : SameSeries(s)
    BY <2>2, <2>3 DEF SameSeries
  <2>4. ASSUME NEW p \in Pushers, Push(p)
        PROVE  states' = states /\ fp \in DOMAIN heap'[states].fpToSeries /\ x \in heap'[states].fpToSeries[fp].samples
    <3>1. CASE createState(p)
      BY <2>2, <3>1, CreateStateDoes, StateMade, SMTT(20) DEF Objects
    <3>2. CASE putSeries(p)
      <4>1. At(p, "put") /\ states' = states /\ OtherSeries(states, pusher[p].fp) /\ PushOK(p)
        BY <3>2, PutSeriesDoes DEF ControlInv
      <4>2. fp # pusher[p].fp
        BY <4>1 DEF PushOK, Locks, At, Series
      <4> QED
        BY <4>1, <4>2 DEF OtherSeries
    <3>3. CASE append(p)
      <4> DEFINE k == pusher[p].fp
      <4>1. /\ states' = states /\ OtherSeries(states, k) /\ k \in DOMAIN heap'[states].fpToSeries
            /\ heap'[states].fpToSeries[k] =
                 [metric |-> pusher[p].metric, samples |-> heap[states].fpToSeries[k].samples \cup {Sample(p)}]
        BY <3>3, AppendDoes
      <4> HIDE DEF k
      <4> QED
        BY <4>1, SMTT(20) DEF OtherSeries
    <3> QED
      BY <2>3, <2>4, <3>1, <3>2, <3>3, QuietPushDoes DEF Push, QuietPush
  <2>5. ASSUME NEW f \in Flushers, Flush(f) \/ \E k : flushUserSeries(f, k)
        PROVE  states' = states /\ fp \in DOMAIN heap'[states].fpToSeries /\ x \in heap'[states].fpToSeries[fp].samples
    <3> DEFINE k == flusher[f].fp
    <3>1. CASE dropChunks(f)
      <4>1. /\ FlushAt(f, "drop") /\ states' = states /\ OtherSeries(states, k) /\ k \in DOMAIN heap'[states].fpToSeries
            /\ heap'[states].fpToSeries[k] =
                 [metric |-> heap[states].fpToSeries[k].metric, samples |-> heap[states].fpToSeries[k].samples \ flusher[f].taken]
        BY <3>1, DropChunksDoes
      <4>2. x \notin flusher[f].taken
        BY <4>1 DEF Samples, TakenOK
      <4> HIDE DEF k
      <4> QED
        BY <4>1, <4>2, SMTT(20) DEF OtherSeries
    <3>2. CASE delSeries(f)
      <4>1. FlushAt(f, "del") /\ states' = states /\ OtherSeries(states, k)
        BY <3>2, DelSeriesDoes
      <4>2. fp # k
        BY <4>1 DEF Samples, TakenOK, Series
      <4> QED
        BY <4>1, <4>2 DEF OtherSeries
    <3> QED
      BY <2>3, <2>5, <3>1, <3>2, QuietFlushDoes DEF Flush, QuietFlush
  <2>6. CASE gc
    BY <2>6, GcDoes
  <2>7. CASE getOrCreate
    BY <2>2, <2>7, GetOrCreateDoes, SMTT(20) DEF Objects
  <2>8. CASE Query
    BY <2>8, QueryDoes
  <2>9. ASSUME NEW p \in Pushers, NEW m \in Metrics, getOrCreateSeries(p, m) PROVE states' = states /\ heap' = heap
    BY <2>9, GetOrCreateSeriesDoes
  <2> QED
    BY <2>4, <2>5, <2>6, <2>7, <2>8, <2>9 DEF Step
(* What is added to the samples owed belongs to a Push under way.          *)
<1>OwedAdds.
    ASSUME MapInv, Step, NEW x, Older(x), x \in owed'
    PROVE  x \in owed
  <2> USE <1>OwedAdds
  <2> ControlInv
    BY DEF MapInv
  <2>2. ASSUME NEW p \in Pushers, Push(p) PROVE x \in owed
    <3>1. CASE append(p)
      <4>1. At(p, "append") /\ owed' = owed \cup {Sample(p)}
        BY <3>1, AppendDoes
      <4>2. Sample(p)[1] = pusher[p].sample
        BY DEF Sample
      <4>3. x # Sample(p)
        BY <4>1, <4>2 DEF Older, Pushing, At
      <4> QED
        BY <4>1, <4>3
    <3> QED
      BY <2>2, <3>1, CreateStateDoes, PutSeriesDoes, QuietPushDoes DEF Push, QuietPush
  <2>3. ASSUME NEW f \in Flushers, Flush(f) \/ \E fp : flushUserSeries(f, fp) PROVE x \in owed
    BY <2>3, DropChunksDoes, DelSeriesDoes, QuietFlushDoes DEF Flush, QuietFlush
  <2>4. ASSUME NEW p \in Pushers, NEW m \in Metrics, getOrCreateSeries(p, m) PROVE x \in owed
    BY <2>4, GetOrCreateSeriesDoes
  <2> QED
    BY <2>2, <2>3, <2>4, GcDoes, GetOrCreateDoes, QueryDoes DEF Step
(* Only its own steps change a query.                                      *)
<1>QueryStays.
    ASSUME ControlInv, Step
    PROVE  query' = query \/ getOrCreate \/ Query
  <2> USE <1>QueryStays
  <2>1. ASSUME NEW p \in Pushers, Push(p) PROVE query' = query
    BY <2>1, CreateStateDoes, PutSeriesDoes, AppendDoes, QuietPushDoes DEF Push, QuietPush
  <2>2. ASSUME NEW f \in Flushers, Flush(f) \/ \E fp : flushUserSeries(f, fp) PROVE query' = query
    BY <2>2, DropChunksDoes, DelSeriesDoes, QuietFlushDoes DEF Flush, QuietFlush
  <2>3. ASSUME NEW p \in Pushers, NEW m \in Metrics, getOrCreateSeries(p, m) PROVE query' = query
    BY <2>3, GetOrCreateSeriesDoes
  <2> QED
    BY <2>1, <2>2, <2>3, GcDoes DEF Step
(* The lookup finds the series of every sample owed to the query.          *)
<1>LookupFinds.
    ASSUME MapInv, Samples, Indexed, NEW x \in owed, Matching(x[2])
    PROVE  \E fp \in lookup(heap[states].index) :
             fp \in DOMAIN heap[states].fpToSeries /\ x \in heap[states].fpToSeries[fp].samples
  <2> USE <1>LookupFinds
  <2> ControlInv
    BY DEF MapInv
  <2>2. states \in Objects
    BY DEF ControlInv, Typed, TypeOK, Samples, AckedKept
  <2>3. PICK fp \in DOMAIN heap[states].fpToSeries : x \in heap[states].fpToSeries[fp].samples
    BY DEF Samples, AckedKept, Series
  <2> PICK m : m = heap[states].fpToSeries[fp].metric
    OBVIOUS
  <2>4. m \in Metrics /\ Wanted \subseteq Pairs[m]
    <3>1. m \in Metrics
      BY <2>2, <2>3 DEF ControlInv, StateOK, Series
    <3>2. x = <<x[1], m>>
      BY <2>2, <2>3 DEF Samples, Held, Series
    <3>3. x[2] = m
      BY <3>2, SMTT(20)
    <3> QED
      BY <3>1, <3>3, SMTT(20) DEF Matching
  <2>5. ASSUME NEW p \in Pushers PROVE ~Indexes(p, states, fp)
    BY <2>3 DEF Indexes, Samples, Fresh, Series
  <2>6. ASSUME NEW l \in Wanted PROVE fp \in Listed(heap[states].index, l)
    <3>1. l \in Labels /\ l \in Pairs[m]
      BY <2>4 DEF Labels
    <3>2. Listed(heap[states].index, l) = Shown(states, l)
      BY <2>2, <3>1 DEF Indexed, IndexOK
    <3>3. fp \in Shown(states, l)
      BY <2>3, <2>5, <3>1 DEF Shown, Series
    <3> QED
      BY <3>2, <3>3
  <2>7. fp \in lookup(heap[states].index)
    BY <2>6, UserStatesAssumption, SMTT(20) DEF lookup, Listed
  <2> QED
    BY <2>3, <2>7
<1> SUFFICES ASSUME MapInv, Samples, Indexed, Asked, Step PROVE Asked'
  OBVIOUS
<1> ControlInv
  BY DEF MapInv
<1>2. \A x : Older(x) => Older(x)'
  BY OlderStep, SMTT(20) DEF Samples
<1>3. CASE query' = query
  <2>1. ASSUME NEW x \in query.before, query.pc # "idle", x \in owed' PROVE Seen(x)'
    <3>1. x \in owed /\ Seen(x)
      BY <2>1, <1>OwedAdds DEF Asked
    <3>2. \E fp \in DOMAIN heap[states].fpToSeries : x \in heap[states].fpToSeries[fp].samples
      BY <3>1 DEF Samples, AckedKept, Series
    <3>3. states' = states
      BY <3>1, <3>2, <1>OwedStays
    <3>4. ASSUME NEW fp \in query.fps, fp \in DOMAIN heap[states].fpToSeries, x \in heap[states].fpToSeries[fp].samples
          PROVE  fp \in DOMAIN heap'[states].fpToSeries /\ x \in heap'[states].fpToSeries[fp].samples
      BY <3>1, <3>4, <1>OwedStays
    <3> QED
      BY <1>3, <3>1, <3>3, <3>4 DEF Seen, Series
  <2>2. ASSUME NEW x \in query.before, query.pc # "idle" PROVE Older(x)' /\ Matching(x[2])
    BY <1>2, <2>2 DEF Asked
  <2> QED
    BY <1>3, <2>1, <2>2 DEF Asked, Matching
<1>4. CASE getOrCreate
  <2>1. /\ query'.pc = "lookup" /\ query'.state = states' /\ query'.before = {x \in owed : Matching(x[2])}
        /\ owed' = owed
    BY <1>4, GetOrCreateDoes, SMTT(20)
  <2>2. ASSUME NEW x \in owed PROVE Older(x)
    <3>1. PICK fp \in DOMAIN heap[states].fpToSeries : x \in heap[states].fpToSeries[fp].samples
      BY DEF Samples, AckedKept, Series
    <3>2. states \in Objects
      BY DEF ControlInv, Typed, TypeOK, Samples, AckedKept
    <3> QED
      BY <3>1, <3>2 DEF Samples, Held, Series
  <2>3. ASSUME NEW x \in query'.before PROVE Older(x)' /\ Matching(x[2]) /\ Seen(x)'
    BY <1>2, <2>1, <2>2 DEF Seen
  <2> QED
    BY <2>3 DEF Asked, Matching
<1>5. CASE Query
  <2>1. UNCHANGED <<states, heap, owed>>
    BY <1>5, QueryDoes
  <2>2. CASE query' = NoQuery
    BY <2>2 DEF NoQuery, Asked
  <2>3. CASE /\ query.pc = "lookup" /\ query'.pc = "series" /\ query'.fps = lookup(heap[query.state].index)
             /\ query'.state = query.state /\ query'.result = query.result /\ query'.before = query.before
    <3>1. ASSUME NEW x \in query.before PROVE Older(x)' /\ Matching(x[2]) /\ (x \in owed => query.state = states)
      BY <1>2, <2>3 DEF Asked, Seen
    <3>2. ASSUME NEW x \in query.before, x \in owed PROVE Seen(x)'
      <4>1. query.state = states /\ Matching(x[2])
        BY <3>1, <3>2, SMTT(20)
      <4>2. PICK fp \in lookup(heap[states].index) :
              fp \in DOMAIN heap[states].fpToSeries /\ x \in heap[states].fpToSeries[fp].samples
        BY <3>2, <4>1, <1>LookupFinds
      <4> QED
        BY <2>1, <2>3, <4>1, <4>2 DEF Seen, Series
    <3> QED
      BY <2>1, <2>3, <3>1, <3>2 DEF Asked, Matching
  <2>4. ASSUME NEW fp,
               /\ query.pc = "series" /\ query'.pc = "series" /\ query'.fps = query.fps \ {fp}
               /\ query'.state = query.state /\ query'.before = query.before
               /\ query'.result = query.result \cup
                    (IF fp \in DOMAIN heap[query.state].fpToSeries THEN heap[query.state].fpToSeries[fp].samples ELSE {})
        PROVE  Asked'
    <3>1. ASSUME NEW x \in query.before PROVE Older(x)' /\ Matching(x[2]) /\ (x \in owed => Seen(x))
      BY <1>2, <2>4, SMTT(20) DEF Asked
    <3>2. ASSUME NEW x \in query.before, x \in owed PROVE Seen(x)'
      <4>1. Seen(x)
        BY <3>1, <3>2
      <4> QED
        BY <2>1, <2>4, <4>1 DEF Seen, Series
    <3> QED
      BY <2>1, <2>4, <3>1, <3>2 DEF Asked, Matching
  <2> QED
    BY <1>5, <2>2, <2>3, <2>4, QueryDoes
<1> QED
  BY <1>3, <1>4, <1>5, <1>QueryStays

-----------------------------------------------------------------------------
(* The four parts together. *)

ContentsInv == Samples /\ Indexed /\ Counted /\ Asked

(* The initial state: nothing is held, indexed, counted or asked.          *)
LEMMA ContentsInit == Init => ContentsInv
<1> SUFFICES ASSUME Init PROVE ContentsInv
  OBVIOUS
<1>1. /\ pusher = [p \in Pushers |-> NoPush] /\ flusher = [f \in Flushers |-> NoFlush]
      /\ heap = [s \in Objects |-> NewState] /\ states = 0 /\ owed = {} /\ query.pc = "idle"
  BY DEF Init, NoQuery
<1>2. (\A p \in Pushers : pusher[p].pc = "idle") /\ (\A f \in Flushers : flusher[f].pc = "idle")
  BY <1>1 DEF NoPush, NoFlush
<1>3. ASSUME NEW s \in Objects
      PROVE  DOMAIN Series(s) = {} /\ heap[s].index = << >> /\ heap[s].seriesInMetric = << >>
  BY <1>1, SMTT(20) DEF Series, NewState, Empty
<1>4. Samples
  BY <1>1, <1>2, <1>3 DEF Samples, Distinct, AckedKept, Held, TakenOK, Fresh, Pushing, At, FlushAt
<1>5. ASSUME NEW s \in Objects PROVE IndexOK(s)
  <2>1. SortedIndex(heap[s].index)
    BY <1>3, SMTT(20) DEF SortedIndex
  <2>2. ASSUME NEW l PROVE Shown(s, l) = {}
    BY <1>2, <1>3 DEF Shown, Unindexes, FlushAt
  <2>3. ASSUME NEW l PROVE Listed(heap[s].index, l) = {}
    BY <1>3, EmptyList, SMTT(20) DEF Listed, ValueAt
  <2> QED
    BY <2>1, <2>2, <2>3 DEF IndexOK
<1>6. ASSUME NEW s \in Objects, NEW name PROVE CountOK(s, name)
  <2>1. Here(s, name) = {} /\ Coming(s, name) = {} /\ Going(s, name) = {}
    BY <1>2, <1>3 DEF Here, Coming, Going, At, Leaving
  <2>2. Count(s, name) = 0
    BY <1>3, SMTT(20) DEF Count, ValueAt
  <2> QED
    BY <2>1, <2>2, FS_EmptySet, UserStatesAssumption, SMTT(20) DEF CountOK
<1> QED
  BY <1>1, <1>4, <1>5, <1>6 DEF ContentsInv, Indexed, Counted, Asked

(* Each step keeps the four parts.                                         *)
LEMMA ContentsStep == MapInv /\ ContentsInv /\ [Next]_vars => ContentsInv'
<1> SUFFICES ASSUME MapInv, ContentsInv, [Next]_vars PROVE ContentsInv'
  BY SMTT(20)
<1>1. CASE Step
  BY <1>1, SamplesStep, IndexedStep, CountedStep, AskedStep DEF ContentsInv
<1>2. CASE UNCHANGED vars
  <2>1. UNCHANGED <<states, heap, pusher, flusher, query, owed, pushes>>
    BY <1>2 DEF vars
  <2>2. RecordsKept
    BY <2>1, SameMetrics DEF RecordsKept, SameIndex, SameCounts, MapInv
  <2>3. Indexed' /\ Counted'
    BY <2>2, RecordsIndexed, RecordsCounted, SMTT(20) DEF ContentsInv
  <2>4. \A x : Older(x)' <=> Older(x)
    BY <2>1, SMTT(20) DEF Older, Pushing, At
  <2>5. Samples'
    <3>1. Distinct' /\ AckedKept'
      BY <2>1 DEF ContentsInv, Samples, Distinct, AckedKept, Series, Pushing, At
    <3>2. ASSUME NEW s \in Objects PROVE Held(s)'
      BY <2>1, <2>4 DEF ContentsInv, Samples, Held, Series
    <3>3. ASSUME NEW f \in Flushers PROVE TakenOK(f)'
      BY <2>1, <2>4 DEF ContentsInv, Samples, TakenOK, Series, FlushAt
    <3>4. ASSUME NEW p \in Pushers PROVE Fresh(p)'
      BY <2>1 DEF ContentsInv, Samples, Fresh, Series, At
    <3> QED
      BY <3>1, <3>2, <3>3, <3>4, SMTT(20) DEF Samples, Objects
  <2>6. Asked'
    BY <2>1, <2>4 DEF ContentsInv, Asked, Seen, Series, Matching
  <2> QED
    BY <2>3, <2>5, <2>6 DEF ContentsInv
<1> QED
  BY <1>1, <1>2 DEF Next

(* ContentsInvariant: what a Push or a flush has still to do makes up the  *)
(* difference between series, index and counts, and what a query owes is   *)
(* in the series left to visit (user_state.go, index.go, flush.go).        *)
THEOREM ContentsInvariant == Spec => []ContentsInv
BY MapInvariant, ContentsInit, ContentsStep, PTL DEF Spec

(* AcceptedStays: an accepted sample is in the store or in a series that   *)
(* flushes and queries find: append under the fingerprint's lock never     *)
(* meets a series or a state that removeSeries or gc has removed.          *)
THEOREM AcceptedStays == Spec => []AckedKept
<1>1. ContentsInv => AckedKept
  BY DEF ContentsInv, Samples
<1> QED
  BY <1>1, ContentsInvariant, PTL

(* RecordsHold: series map, inverted index and counts by name agree but    *)
(* for the series a Push or removeSeries is working on, the lists of the   *)
(* index are sorted (index.go, add and delete), and no name has more       *)
(* series than MaxSeriesPerMetric (canAddSeriesFor).                       *)
THEOREM RecordsHold == Spec => []StateAgrees
<1>1. MapInv /\ ContentsInv => StateAgrees
  BY RecordsAgree DEF ContentsInv
<1> QED
  BY <1>1, MapInvariant, ContentsInvariant, PTL

(* QueryFindsAll: a query returns the matching samples that were accepted  *)
(* before it began and are not yet stored, though series are made and      *)
(* removed between its lookup and its visits (forSeriesMatching).          *)
THEOREM QueryFindsAll == Spec => []QueryComplete
<1>1. ContentsInv => QueryComplete
  BY DEF ContentsInv, Asked, Seen, QueryComplete
<1> QED
  BY <1>1, ContentsInvariant, PTL

====
