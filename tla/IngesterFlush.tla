---------------------------- MODULE IngesterFlush ----------------------------
(***************************************************************************)
(* The memory of one ingester and its way to the chunk store               *)
(* (src/ingester/series.go, ingester_flush.go, src/util/priority_queue.go, *)
(* and the shutdown half of ingester_lifecycle.go without hand-over).      *)
(*                                                                         *)
(* Samples are appended to the head chunk of their series. loop() sweeps   *)
(* the series and queues those that are due; one flushLoop goroutine per   *)
(* queue takes the chunks of a series under the fingerprint's lock, writes *)
(* them without the lock, and takes the lock again to drop them.           *)
(***************************************************************************)
EXTENDS Integers, Sequences, FiniteSets

CONSTANTS
  Fps,            \* fingerprints: one series each
  Queues,         \* the flush queues, 0..ConcurrentFlushes-1
  Settings,       \* the choices of QueueOf and Timestamps to try
  MaxSamples,     \* bound on the samples pushed, numbered 1..MaxSamples
  ChunkCap,       \* samples that fit into a chunk
  MaxChunkAge,    \* cfg.MaxChunkAge
  MaxChunkIdle,   \* cfg.MaxChunkIdle
  FlushBackoff,   \* flushBackoff
  MaxFrom         \* bound on the priority of a retried operation

ASSUME FlushAssumption ==
  /\ Settings \subseteq [queueOf : [Fps -> Queues], timestamps : SUBSET Nat]
  /\ MaxSamples \in Nat /\ ChunkCap \in Nat /\ ChunkCap > 1
  /\ MaxChunkAge \in Nat /\ MaxChunkIdle \in Nat
  /\ FlushBackoff \in Nat /\ MaxFrom \in Nat

VARIABLES
  QueueOf,     \* fp % ConcurrentFlushes
  Timestamps,  \* the timestamps the clients send
  now,         \* model.Now()
  pushed,      \* number of samples the clients have pushed
  acked,       \* the samples whose append returned no error
  series,      \* fp -> memorySeries; no chunks: the series does not exist
  stopped,     \* Ingester.stopped
  loop,        \* where loop() is
  toSweep,     \* the series the shutdown sweep has still to visit
  queue,       \* queue -> operations waiting in it
  closed,      \* queue -> PriorityQueue.closed
  flusher,     \* queue -> its flushLoop goroutine
  store,       \* the samples in the chunk store (external)
  alive        \* "running", "exited" or "panicked"

vars == <<now, pushed, acked, series, stopped, loop, toSweep, queue, closed,
          flusher, store, alive>>

-----------------------------------------------------------------------------
(* desc: a chunk with its time range; the samples stand for its contents.  *)
newDesc(ids, first, last) == [ids |-> ids, first |-> first, last |-> last]

NoChunks == [chunks |-> << >>, headChunkClosed |-> FALSE]

SamplesOf(chunks) == UNION {chunks[k].ids : k \in DOMAIN chunks}
Memory == UNION {SamplesOf(series[fp].chunks) : fp \in Fps}

head(s) == s.chunks[Len(s.chunks)]
firstTime(s) == s.chunks[1].first

(* chunk.Add of the Prometheus encoding (double delta): the second sample  *)
(* of a chunk may not be older than the first; a full chunk overflows.     *)
ChunkRejects(d, ts) == Cardinality(d.ids) = 1 /\ ts < d.first
ChunkFull(d) == Cardinality(d.ids) >= ChunkCap

(* memorySeries.add. lastTime stays model.Earliest: it is only ever set    *)
(* for series received from another ingester, so that the checks for       *)
(* duplicates and for order at the top of add let every sample pass.       *)
openHead(s, ts) ==
  IF s.chunks = << >> \/ s.headChunkClosed
  THEN [chunks |-> Append(s.chunks, newDesc({}, ts, ts)), headChunkClosed |-> FALSE]
  ELSE s

add(s, id, ts) ==
  LET h == head(s)
      older == SubSeq(s.chunks, 1, Len(s.chunks) - 1)
  IN IF ChunkFull(h)
     THEN [s EXCEPT !.chunks = Append(s.chunks, newDesc({id}, ts, ts))]
     ELSE [s EXCEPT !.chunks = Append(older, newDesc(h.ids \cup {id}, h.first, ts))]

shouldFlushChunk(d) ==
  \/ now - d.first > MaxChunkAge
  \/ now - d.last > MaxChunkIdle

(* Mutant: a series with a single chunk is never due.                      *)
shouldFlushSeriesMutant(s, immediate) == immediate \/ Len(s.chunks) > 1

shouldFlushSeries(s, immediate) ==
  \/ immediate
  \/ Len(s.chunks) > 1
  \/ (Len(s.chunks) > 0 /\ shouldFlushChunk(s.chunks[1]))

-----------------------------------------------------------------------------
(* PriorityQueue. An operation is identified by its key, (fp, immediate);  *)
(* the oldest series has the highest priority.                             *)
Key(op) == <<op.fp, op.immediate>>

Enqueued(q, op) ==
  IF \E o \in q : Key(o) = Key(op) THEN q ELSE q \cup {op}

HighestPriority(q, op) == op \in q /\ \A o \in q : op.from <= o.from

NoOp == [pc |-> "dequeue", op |-> << >>, chunks |-> << >>]

Init ==
  /\ \E s \in Settings : QueueOf = s.queueOf /\ Timestamps = s.timestamps
  /\ now = 0
  /\ pushed = 0
  /\ acked = {}
  /\ series = [fp \in Fps |-> NoChunks]
  /\ stopped = FALSE
  /\ loop = "run"
  /\ toSweep = {}
  /\ queue = [q \in Queues |-> {}]
  /\ closed = [q \in Queues |-> FALSE]
  /\ flusher = [q \in Queues |-> NoOp]
  /\ store = {}
  /\ alive = "running"

(* The clock stops once every chunk is idle: nothing depends on it then.   *)
Tick ==
  /\ \E ts \in Timestamps : now - ts <= MaxChunkIdle
  /\ now' = now + 1
  /\ UNCHANGED <<pushed, acked, series, stopped, loop, toSweep, queue, closed,
                 flusher, store, alive>>

(* Ingester.append: the sample is added under the fingerprint's lock, or   *)
(* the chunk's error is returned. A head just opened rejects no sample.    *)
(* One that ValidateSample refuses is dropped and answered with nil: it    *)
(* changes nothing, and acked has none of these.                           *)
Push(fp, ts) ==
  LET id == pushed + 1
      s == openHead(series[fp], ts)
  IN /\ alive = "running"
     /\ ~stopped
     /\ pushed < MaxSamples
     /\ pushed' = id
     /\ IF ChunkRejects(head(s), ts)
        THEN UNCHANGED <<series, acked>>
        ELSE /\ series' = [series EXCEPT ![fp] = add(s, id, ts)]
             /\ acked' = acked \cup {id}
     /\ UNCHANGED <<now, stopped, loop, toSweep, queue, closed, flusher, store, alive>>

-----------------------------------------------------------------------------
(* sweepSeries, one series at a time under its lock.                       *)
sweepSeries(fp, immediate) ==
  LET s == series[fp]
      op == [fp |-> fp, immediate |-> immediate, from |-> firstTime(s)]
      q == QueueOf[fp]
  IN IF s.chunks # << >> /\ shouldFlushSeries(s, immediate)
     THEN queue' = [queue EXCEPT ![q] = Enqueued(@, op)]
     ELSE UNCHANGED queue

(* The periodic sweep, on flushTicker.                                     *)
Sweep(fp) ==
  /\ alive = "running"
  /\ loop = "run"
  /\ sweepSeries(fp, FALSE)
  /\ UNCHANGED <<now, pushed, acked, series, stopped, loop, toSweep, closed,
                 flusher, store, alive>>

(* Shutdown: no more samples, then quit.                                   *)
Shutdown ==
  /\ alive = "running"
  /\ ~stopped
  /\ stopped' = TRUE
  /\ UNCHANGED <<now, pushed, acked, series, loop, toSweep, queue, closed,
                 flusher, store, alive>>

(* loop() sees quit, and flushAllChunks starts its sweep.                  *)
Quit ==
  /\ alive = "running"
  /\ loop = "run"
  /\ stopped
  /\ loop' = "flushAll"
  /\ toSweep' = {fp \in Fps : series[fp].chunks # << >>}
  /\ UNCHANGED <<now, pushed, acked, series, stopped, queue, closed, flusher,
                 store, alive>>

SweepImmediate(fp) ==
  /\ alive = "running"
  /\ loop = "flushAll"
  /\ fp \in toSweep
  /\ toSweep' = toSweep \ {fp}
  /\ sweepSeries(fp, TRUE)
  /\ UNCHANGED <<now, pushed, acked, series, stopped, loop, closed, flusher,
                 store, alive>>

(* The queues are closed one after the other.                              *)
Close(q) ==
  /\ alive = "running"
  /\ loop = "flushAll"
  /\ toSweep = {}
  /\ \A p \in Queues : closed[p] <=> p < q
  /\ closed' = [closed EXCEPT ![q] = TRUE]
  /\ UNCHANGED <<now, pushed, acked, series, stopped, loop, toSweep, queue,
                 flusher, store, alive>>

(* unregister, and loop() is done.                                         *)
Unregister ==
  /\ alive = "running"
  /\ loop = "flushAll"
  /\ toSweep = {}
  /\ \A q \in Queues : closed[q]
  /\ loop' = "exited"
  /\ UNCHANGED <<now, pushed, acked, series, stopped, toSweep, queue, closed,
                 flusher, store, alive>>

(* i.done.Wait() returns and the process ends.                             *)
Exit ==
  /\ alive = "running"
  /\ loop = "exited"
  /\ \A q \in Queues : flusher[q].pc = "exited"
  /\ alive' = "exited"
  /\ series' = [fp \in Fps |-> NoChunks]
  /\ UNCHANGED <<now, pushed, acked, stopped, loop, toSweep, queue, closed,
                 flusher, store>>

-----------------------------------------------------------------------------
(* flushLoop(q).                                                           *)
Dequeue(q) ==
  /\ alive = "running"
  /\ flusher[q].pc = "dequeue"
  /\ \E op \in queue[q] :
       /\ HighestPriority(queue[q], op)
       /\ queue' = [queue EXCEPT ![q] = @ \ {op}]
       /\ flusher' = [flusher EXCEPT ![q] = [pc |-> "take", op |-> op, chunks |-> << >>]]
  /\ UNCHANGED <<now, pushed, acked, series, stopped, loop, toSweep, closed,
                 store, alive>>

(* Mutant: Dequeue waits while the queue is empty, closed or not.          *)
FlusherNeverExitsMutant(q) == closed[q] /\ ~closed[q] /\ UNCHANGED vars

(* Dequeue returns nil: closed, and nothing left.                          *)
FlusherExit(q) ==
  /\ alive = "running"
  /\ flusher[q].pc = "dequeue"
  /\ queue[q] = {} /\ closed[q]
  /\ flusher' = [flusher EXCEPT ![q].pc = "exited"]
  /\ UNCHANGED <<now, pushed, acked, series, stopped, loop, toSweep, queue,
                 closed, store, alive>>

(* Mutant: the head is taken without being closed.                         *)
TakeChunksHeadOpenMutant(q) ==
  LET op == flusher[q].op
      s == series[op.fp]
  IN /\ alive = "running"
     /\ flusher[q].pc = "take"
     /\ flusher' = [flusher EXCEPT
          ![q] = IF s.chunks # << >> /\ shouldFlushSeries(s, op.immediate)
                 THEN [@ EXCEPT !.pc = "put", !.chunks = s.chunks] ELSE NoOp]
     /\ UNCHANGED <<now, pushed, acked, series, stopped, loop, toSweep, queue,
                    closed, store, alive>>

(* The first critical section of flushUserSeries: which chunks to write.   *)
(* The series is looked up before its lock is taken; only this goroutine   *)
(* removes it.                                                             *)
TakeChunks(q) ==
  LET op == flusher[q].op
      s == series[op.fp]
      n == Len(s.chunks)
      all == op.immediate \/ shouldFlushChunk(head(s))
      chunks == IF all THEN s.chunks ELSE SubSeq(s.chunks, 1, n - 1)
  IN /\ alive = "running"
     /\ flusher[q].pc = "take"
     /\ IF n = 0 \/ ~shouldFlushSeries(s, op.immediate)
        THEN /\ flusher' = [flusher EXCEPT ![q] = NoOp]
             /\ UNCHANGED series
        ELSE /\ series' = [series EXCEPT ![op.fp].headChunkClosed = @ \/ all]
             /\ flusher' = [flusher EXCEPT
                  ![q] = IF chunks = << >> THEN NoOp
                         ELSE [@ EXCEPT !.pc = "put", !.chunks = chunks]]
     /\ UNCHANGED <<now, pushed, acked, stopped, loop, toSweep, queue, closed,
                    store, alive>>

(* flushChunks: the chunk store takes all the chunks.                      *)
PutOk(q) ==
  /\ alive = "running"
  /\ flusher[q].pc = "put"
  /\ store' = store \cup SamplesOf(flusher[q].chunks)
  /\ flusher' = [flusher EXCEPT ![q].pc = "trim"]
  /\ UNCHANGED <<now, pushed, acked, series, stopped, loop, toSweep, queue,
                 closed, alive>>

(* Put returns an error, having stored any of the chunks. The error of an  *)
(* operation that is not immediate is only logged.                         *)
PutFails(q) ==
  /\ alive = "running"
  /\ flusher[q].pc = "put"
  /\ \E K \in SUBSET DOMAIN flusher[q].chunks :
       store' = store \cup UNION {flusher[q].chunks[k].ids : k \in K}
  /\ flusher' = [flusher EXCEPT
       ![q] = IF @.op.immediate THEN [@ EXCEPT !.pc = "retry", !.chunks = << >>]
              ELSE NoOp]
  /\ UNCHANGED <<now, pushed, acked, series, stopped, loop, toSweep, queue,
                 closed, alive>>

(* Mutant: all the chunks of the series are dropped, not the written ones. *)
TrimAllMutant(q) ==
  /\ alive = "running"
  /\ flusher[q].pc = "trim"
  /\ series' = [series EXCEPT ![flusher[q].op.fp] = NoChunks]
  /\ flusher' = [flusher EXCEPT ![q] = NoOp]
  /\ UNCHANGED <<now, pushed, acked, stopped, loop, toSweep, queue, closed,
                 store, alive>>

(* The second critical section: the written chunks leave the memory.       *)
TrimChunks(q) ==
  LET fp == flusher[q].op.fp
      left == SubSeq(series[fp].chunks, Len(flusher[q].chunks) + 1,
                     Len(series[fp].chunks))
  IN /\ alive = "running"
     /\ flusher[q].pc = "trim"
     /\ series' = [series EXCEPT
          ![fp] = IF left = << >> THEN NoChunks ELSE [@ EXCEPT !.chunks = left]]
     /\ flusher' = [flusher EXCEPT ![q] = NoOp]
     /\ UNCHANGED <<now, pushed, acked, stopped, loop, toSweep, queue, closed,
                    store, alive>>

Later(op) ==
  [op EXCEPT !.from = IF @ + FlushBackoff > MaxFrom THEN MaxFrom ELSE @ + FlushBackoff]

(* The failed operation goes back into the queue, and Enqueue panics when  *)
(* the queue is closed: the process dies with its memory.                  *)
Retry(q) ==
  /\ alive = "running"
  /\ flusher[q].pc = "retry"
  /\ IF closed[q]
     THEN /\ alive' = "panicked"
          /\ series' = [fp \in Fps |-> NoChunks]
          /\ UNCHANGED <<queue, flusher>>
     ELSE /\ queue' = [queue EXCEPT ![q] = Enqueued(@, Later(flusher[q].op))]
          /\ flusher' = [flusher EXCEPT ![q] = NoOp]
          /\ UNCHANGED <<alive, series>>
  /\ UNCHANGED <<now, pushed, acked, stopped, loop, toSweep, closed, store>>

-----------------------------------------------------------------------------
Flush(q) ==
  \/ Dequeue(q) \/ FlusherExit(q) \/ TakeChunks(q) \/ TrimChunks(q) \/ Retry(q)

(* What loop() does once quit is closed, and the end of the process.       *)
Stop ==
  \/ Quit
  \/ \E fp \in Fps : SweepImmediate(fp)
  \/ \E q \in Queues : Close(q)
  \/ Unregister
  \/ Exit

Step ==
  \/ Tick
  \/ \E fp \in Fps, ts \in Timestamps : Push(fp, ts)
  \/ \E fp \in Fps : Sweep(fp)
  \/ Shutdown
  \/ Stop
  \/ \E q \in Queues : Flush(q) \/ PutOk(q) \/ PutFails(q)

Next == Step /\ UNCHANGED <<QueueOf, Timestamps>>

Spec == Init /\ [][Next]_<<QueueOf, Timestamps, vars>>

(* Time passes, the flush ticker keeps firing, the scheduler runs every    *)
(* goroutine, and a write that is retried for ever succeeds some time.     *)
FairSpec ==
  /\ Spec
  /\ WF_vars(Tick)
  /\ \A fp \in Fps : WF_vars(Sweep(fp))
  /\ WF_vars(Stop)
  /\ \A q \in Queues : WF_vars(Flush(q)) /\ SF_vars(PutOk(q))

-----------------------------------------------------------------------------
Chunks == [ids : SUBSET (1..MaxSamples), first : Timestamps, last : Timestamps]
Ops == [fp : Fps, immediate : BOOLEAN, from : Nat]

TypeOK ==
  /\ now \in Nat
  /\ pushed \in 0..MaxSamples
  /\ acked \subseteq 1..pushed /\ store \subseteq 1..pushed
  /\ \A fp \in Fps :
       /\ series[fp].headChunkClosed \in BOOLEAN
       /\ \A k \in DOMAIN series[fp].chunks : series[fp].chunks[k] \in Chunks
  /\ stopped \in BOOLEAN
  /\ loop \in {"run", "flushAll", "exited"}
  /\ alive \in {"running", "exited", "panicked"}
  /\ toSweep \subseteq Fps
  /\ closed \in [Queues -> BOOLEAN]
  /\ \A q \in Queues :
       /\ queue[q] \subseteq Ops
       /\ flusher[q].pc \in {"dequeue", "take", "put", "trim", "retry", "exited"}
       /\ flusher[q].pc \in {"take", "put", "trim", "retry"} => flusher[q].op \in Ops

(* A valid sample whose append returned no error is in memory or in the    *)
(* chunk store, whatever appends, sweeps, failing writes and flushes       *)
(* interleave, and in the chunk store once the ingester has shut down.     *)
(* (Only the panic of Enqueue on a closed queue loses samples.)            *)
NoAckedLoss == alive # "panicked" => acked \subseteq (store \cup Memory)

(* The chunks flushUserSeries writes without holding the lock stay the     *)
(* first chunks of their series, unchanged, until it drops them: what is   *)
(* dropped is what was written, and a chunk does not change under the      *)
(* writer ("the current head chunk must not be modified anymore",          *)
(* series.go:31-32). The types with it.                                    *)
TakenChunksStable ==
  /\ TypeOK
  /\ alive = "running" =>
       \A q \in Queues : flusher[q].pc \in {"put", "trim"} =>
         LET s == series[flusher[q].op.fp]
             n == Len(flusher[q].chunks)
         IN n <= Len(s.chunks) /\ SubSeq(s.chunks, 1, n) = flusher[q].chunks

(* Again and again everything acknowledged so far is in the chunk store    *)
(* (age and idleness make every chunk due), unless the process panics: so  *)
(* every acknowledged sample gets there.                                   *)
AckedIsStored == []<>(acked \subseteq store \/ alive = "panicked")

(* Shutdown "blocks until we've successfully shutdown" (lifecycle.go:116): *)
(* it does not wait for ever.                                              *)
ShutdownEnds == stopped ~> (alive # "running")

====
