--------------------------- MODULE UserInvariants ---------------------------
(***************************************************************************)
(* The inductive invariants of the user states: the shape of the state, the *)
(* limit, the locks and the mappings.                                      *)
(*                                                                         *)
(* The limit is read in one step and the series put in another, so the     *)
(* number of series alone says too little: what stays below the bound is   *)
(* the number of series and of pushers between the two steps.              *)
(***************************************************************************)
EXTENDS UserStates

(* A userState and a pusher have their fields, whatever these hold.        *)
StateNames == {"fpToSeries", "index", "seriesInMetric", "mappings", "highestMappedFP"}
PushNames == {"pc", "sample", "metric", "state", "fp"}
IsState(u) == u = [k \in StateNames |-> u[k]]
IsPush(x) == x = [k \in PushNames |-> x[k]]

Shape ==
  /\ MaxSeriesPerUser \in Nat \ {0}
  /\ heap = [s \in Objects |-> heap[s]] /\ \A s \in Objects : IsState(heap[s])
  /\ pusher = [p \in Pushers |-> pusher[p]] /\ \A p \in Pushers : IsPush(pusher[p])

(* The pushers that were let in and have not yet put their series.         *)
Pending(s) == {p \in Pushers : pusher[p].pc \in {"metric", "put"} /\ pusher[p].state = s}

Bounded(s) ==
  /\ IsFiniteSet(DOMAIN Series(s))
  /\ Cardinality(DOMAIN Series(s)) + Cardinality(Pending(s)) <= MaxSeriesPerUser - 1 + Cardinality(Pushers)

(* The object of a new state has no user.                                  *)
NewFree == New \in Objects /\ \A f \in Flushers : flusher[f].state # New

LimitInv == Shape /\ NewFree /\ \A s \in Objects : Bounded(s)

-----------------------------------------------------------------------------
(* The locks and the mappings. *)

FlushNames == {"pc", "state", "fp", "taken"}
QueryNames == {"pc", "state", "fps", "result", "before"}
IsFlush(x) == x = [k \in FlushNames |-> x[k]]
IsQuery(x) == x = [k \in QueryNames |-> x[k]]

(* How far a Push and a flush have come.                                   *)
Pushing(p) == ~At(p, "idle")
Entered(p) == pusher[p].pc \in {"raw", "fp", "get", "metric", "put", "index", "append"}
Mutexed(p) == pusher[p].pc \in {"raw", "fp", "get", "metric", "put", "index"}
Locks(p) == pusher[p].pc \in {"get", "metric", "put", "index", "append"}
Flushing(f) == flusher[f].pc \in {"take", "store", "drop", "del"}
Leaving(f) == flusher[f].pc \in {"unindex", "uncount"}
Removing(f) == FlushAt(f, "del") \/ Leaving(f)

PushLock(p) == <<pusher[p].state, Mutex[pusher[p].fp]>>
FlushLock(f) == <<flusher[f].state, Mutex[flusher[f].fp]>>

-----------------------------------------------------------------------------
(* The inductive invariant. *)

Typed ==
  /\ flusher = [f \in Flushers |-> flusher[f]] /\ \A f \in Flushers : IsFlush(flusher[f])
  /\ IsQuery(query) /\ query.pc \in {"idle", "lookup", "series"}
  /\ rwmutex = [readers |-> rwmutex.readers, writer |-> rwmutex.writer]
  /\ TypeOK

(* Only the state in us.states has series.                                 *)
StateOK(s) ==
  /\ s # states => DOMAIN Series(s) = {}
  /\ \A fp \in DOMAIN Series(s) :
       /\ Series(s)[fp] = [metric |-> Series(s)[fp].metric, samples |-> Series(s)[fp].samples]
       /\ Series(s)[fp].metric \in Metrics

(* A Push works on that state, which us.mtx keeps while the series is      *)
(* looked for. What it saw of the series stays true while the fingerprint  *)
(* is locked.                                                              *)
PushOK(p) ==
  /\ Pushing(p) => pusher[p].metric \in Metrics
  /\ Entered(p) => states # 0 /\ pusher[p].state = states
  /\ Mutexed(p) => p \in rwmutex.readers \cup rwmutex.writer
  /\ Locks(p) =>
       /\ PushLock(p) \in fpLocker
       /\ pusher[p].fp \in DOMAIN Series(states) => Series(states)[pusher[p].fp].metric = pusher[p].metric
       /\ pusher[p].pc \in {"metric", "put"} => pusher[p].fp \notin DOMAIN Series(states)
       /\ pusher[p].pc \in {"index", "append"} => pusher[p].fp \in DOMAIN Series(states)

(* A flush too, until it has removed the series; then the state may have   *)
(* been removed as well.                                                   *)
FlushOK(f) ==
  /\ Flushing(f) => states # 0 /\ flusher[f].state = states /\ flusher[f].fp \in DOMAIN Series(states)
  /\ Leaving(f) => /\ flusher[f].state \in Objects /\ flusher[f].fp \notin DOMAIN Series(flusher[f].state)
                   /\ \E m \in Metrics : flusher[f].taken = {m}
  /\ Removing(f) => FlushLock(f) \in fpLocker

(* No lock has two owners.                                                 *)
PushesApart(p, q) == Locks(p) /\ Locks(q) /\ p # q => PushLock(p) # PushLock(q)
FlushesApart(f, g) ==
  f # g => /\ Removing(f) /\ Removing(g) => FlushLock(f) # FlushLock(g)
           /\ ~FlushAt(f, "idle") /\ ~FlushAt(g, "idle") => flusher[f].fp # flusher[g].fp
PushFlushApart(p, f) == Locks(p) /\ Removing(f) => PushLock(p) # FlushLock(f)
Exclusive ==
  /\ \A p, q \in Pushers : PushesApart(p, q)
  /\ \A f, g \in Flushers : FlushesApart(f, g)
  /\ \A p \in Pushers : \A f \in Flushers : PushFlushApart(p, f)

ControlInv ==
  /\ LimitInv /\ Typed /\ Exclusive
  /\ \A s \in Objects : StateOK(s)
  /\ \A p \in Pushers : PushOK(p)
  /\ \A f \in Flushers : FlushOK(f)

(* The fingerprint of a metric: that of its mapping, or its own if that is *)
(* not reserved.                                                           *)
HasFP(u, m, fp) ==
  \/ m \in DOMAIN Mapped(u, m) /\ fp = Mapped(u, m)[m]
  \/ m \notin DOMAIN Mapped(u, m) /\ FastFingerprint[m] > MaxMappedFP /\ fp = FastFingerprint[m]

(* Mapped fingerprints are reserved ones, each for one metric.             *)
MapOK(u) ==
  /\ u.highestMappedFP \in 0..MaxMappedFP
  /\ \A m \in Metrics : m \in DOMAIN Mapped(u, m) => Mapped(u, m)[m] \in 1..u.highestMappedFP
  /\ \A m, n \in Metrics : m \in DOMAIN Mapped(u, m) /\ n \in DOMAIN Mapped(u, n) /\ m # n =>
       Mapped(u, m)[m] # Mapped(u, n)[n]

Mapping ==
  /\ \A s \in Objects : MapOK(heap[s]) /\ \A fp \in DOMAIN Series(s) : HasFP(heap[s], Series(s)[fp].metric, fp)
  /\ \A p \in Pushers :
       /\ Locks(p) \/ At(p, "fp") => HasFP(heap[states], pusher[p].metric, pusher[p].fp)
       /\ At(p, "fp") => pusher[p].fp # FastFingerprint[pusher[p].metric]

(* The samples have numbers. *)
Numbered == \A p \in Pushers : Pushing(p) => pusher[p].sample \in 1..pushes

MapInv == ControlInv /\ Numbered /\ Mapping

====
