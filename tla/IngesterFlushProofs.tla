------------------------- MODULE IngesterFlushProofs -------------------------
(***************************************************************************)
(* No acknowledged sample is lost on its way from memory to the chunk      *)
(* store, and the chunks a flush works on stay what they are, for any      *)
(* number of series, queues, samples and any sizes and ages of chunks.     *)
(*                                                                         *)
(* What a flush takes are the first chunks of its series: only the         *)
(* goroutine of the series' queue takes chunks away, and Push changes the  *)
(* last chunk only, while that is open. That the memory may go when the    *)
(* process ends needs more: after Quit every series that has chunks is due *)
(* for an immediate flush, and a queue that its goroutine has left stays   *)
(* empty.                                                                  *)
(***************************************************************************)
EXTENDS IngesterFlush, SequenceTheorems, TLAPS

MemorySeries == [chunks : Seq(Chunks), headChunkClosed : BOOLEAN]
Busy == {"take", "put", "trim", "retry"}
Flushers == [pc : Busy \cup {"dequeue", "exited"}, op : Ops \cup {<< >>}, chunks : Seq(Chunks)]

Types ==
  /\ QueueOf \in [Fps -> Queues] /\ Timestamps \subseteq Nat
  /\ now \in Nat
  /\ pushed \in 0..MaxSamples
  /\ acked \subseteq 1..pushed /\ store \subseteq 1..pushed
  /\ series \in [Fps -> MemorySeries]
  /\ stopped \in BOOLEAN
  /\ loop \in {"run", "flushAll", "exited"}
  /\ alive \in {"running", "exited", "panicked"}
  /\ toSweep \subseteq Fps
  /\ closed \in [Queues -> BOOLEAN]
  /\ queue \in [Queues -> SUBSET Ops]
  /\ flusher \in [Queues -> Flushers]
  /\ \A q \in Queues : flusher[q].pc \in Busy => flusher[q].op \in Ops

(* A series is flushed through one queue, by the goroutine of that queue.  *)
Owned ==
  \A q \in Queues :
    /\ \A op \in queue[q] : QueueOf[op.fp] = q
    /\ flusher[q].pc \in Busy => QueueOf[flusher[q].op.fp] = q

(* The chunks c are the first ones of the series s, and closed.            *)
Takes(c, s) ==
  /\ Len(c) > 0 /\ Len(c) <= Len(s.chunks)
  /\ \A k \in 1..Len(c) : c[k] = s.chunks[k]
  /\ Len(c) = Len(s.chunks) => s.headChunkClosed

Taken ==
  \A q \in Queues :
    /\ flusher[q].pc \in {"put", "trim"} => Takes(flusher[q].chunks, series[flusher[q].op.fp])
    /\ flusher[q].pc = "trim" => \A k \in 1..Len(flusher[q].chunks) : flusher[q].chunks[k].ids \subseteq store

(* A sample is in a chunk of memory.                                       *)
InMemory(id) == \E fp \in Fps : \E k \in 1..Len(series[fp].chunks) : id \in series[fp].chunks[k].ids

Kept ==
  /\ \A id \in acked : id \in store \/ InMemory(id)
  /\ \A fp \in Fps : \A k \in 1..Len(series[fp].chunks) : series[fp].chunks[k].ids \subseteq 1..pushed

(* An immediate flush of the series is to come, or under way.              *)
Due(fp) ==
  LET f == flusher[QueueOf[fp]]
  IN \/ fp \in toSweep
     \/ \E op \in queue[QueueOf[fp]] : op.fp = fp /\ op.immediate
     \/ /\ f.pc \in Busy /\ f.op.fp = fp /\ f.op.immediate
        /\ f.pc \in {"put", "trim"} => Len(f.chunks) = Len(series[fp].chunks)

Closing ==
  /\ loop # "run" => stopped
  /\ loop = "exited" => toSweep = {}
  /\ \A q \in Queues :
       /\ closed[q] => loop # "run" /\ toSweep = {}
       /\ flusher[q].pc = "exited" => closed[q] /\ queue[q] = {}

Leaving == loop # "run" => \A fp \in Fps : Len(series[fp].chunks) > 0 => Due(fp)

FlushInv ==
  /\ Types /\ Closing
  /\ alive = "running" => Owned /\ Taken /\ Kept /\ Leaving
  /\ alive = "exited" => acked \subseteq store

-----------------------------------------------------------------------------
(* What memorySeries.add does to a series: r is the series after it.       *)

Adds(s, r, id) ==
  /\ Len(s.chunks) <= Len(r.chunks)
  /\ Len(s.chunks) = Len(r.chunks) => ~s.headChunkClosed
  /\ \A k \in 1..Len(s.chunks) : k < Len(s.chunks) \/ s.headChunkClosed => r.chunks[k] = s.chunks[k]
  /\ \A k \in 1..Len(s.chunks) : s.chunks[k].ids \subseteq r.chunks[k].ids
  /\ \A k \in 1..Len(r.chunks) :
       r.chunks[k].ids \subseteq {id} \cup (IF k <= Len(s.chunks) THEN s.chunks[k].ids ELSE {})
  /\ \E k \in 1..Len(r.chunks) : id \in r.chunks[k].ids

(* The head is opened when there is none, or when it was closed.           *)
LEMMA OpenHead ==
  ASSUME NEW s \in MemorySeries, NEW ts \in Timestamps
  PROVE  LET o == openHead(s, ts)
         IN /\ o \in MemorySeries /\ Len(o.chunks) > 0
            /\ \/ o = s /\ ~s.headChunkClosed
               \/ /\ Len(o.chunks) = Len(s.chunks) + 1 /\ ~o.headChunkClosed
                  /\ \A k \in 1..Len(s.chunks) : o.chunks[k] = s.chunks[k]
                  /\ o.chunks[Len(s.chunks) + 1].ids = {}
<1>1. CASE s.chunks = << >> \/ s.headChunkClosed
  <2> DEFINE d == newDesc({}, ts, ts)
  <2>1. d \in Chunks /\ d.ids = {}
    BY Zenon DEF newDesc, Chunks
  <2>2. openHead(s, ts) = [chunks |-> Append(s.chunks, d), headChunkClosed |-> FALSE]
    BY <1>1, Zenon DEF openHead
  <2> HIDE DEF d
  <2>3. s.chunks \in Seq(Chunks)
    BY Zenon DEF MemorySeries
  <2> QED
    BY <2>1, <2>2, <2>3, AppendProperties DEF MemorySeries
<1>2. CASE ~(s.chunks = << >> \/ s.headChunkClosed)
  BY <1>2 DEF openHead, MemorySeries
<1> QED
  BY <1>1, <1>2, Zenon

(* add to a series that has a chunk keeps the chunks and adds the sample   *)
(* (series.go).                                                            *)
LEMMA AddIsAdd ==
  ASSUME NEW s \in MemorySeries, Len(s.chunks) > 0, NEW ts \in Timestamps, NEW id \in 1..MaxSamples
  PROVE  LET r == add(s, id, ts)
         IN /\ r \in MemorySeries /\ r.headChunkClosed = s.headChunkClosed
            /\ Len(s.chunks) <= Len(r.chunks)
            /\ \A k \in 1..Len(s.chunks) : k < Len(s.chunks) => r.chunks[k] = s.chunks[k]
            /\ \A k \in 1..Len(s.chunks) : s.chunks[k].ids \subseteq r.chunks[k].ids
            /\ \A k \in 1..Len(r.chunks) :
                 r.chunks[k].ids \subseteq {id} \cup (IF k <= Len(s.chunks) THEN s.chunks[k].ids ELSE {})
            /\ \E k \in 1..Len(r.chunks) : id \in r.chunks[k].ids
<1> DEFINE n == Len(s.chunks)
           h == s.chunks[n]
           older == SubSeq(s.chunks, 1, n - 1)
           new == newDesc({id}, ts, ts)
           grown == newDesc(h.ids \cup {id}, h.first, ts)
           r == add(s, id, ts)
<1>1. s.chunks \in Seq(Chunks) /\ n \in Nat /\ n > 0 /\ h \in Chunks
  BY DEF MemorySeries
<1>2. new \in Chunks /\ new.ids = {id} /\ grown \in Chunks /\ grown.ids = h.ids \cup {id}
  BY <1>1, Zenon DEF newDesc, Chunks
<1>3. older \in Seq(Chunks) /\ Len(older) = n - 1 /\ \A k \in 1..(n - 1) : older[k] = s.chunks[k]
  BY <1>1, SubSeqProperties
<1>4. /\ r.chunks = IF ChunkFull(h) THEN Append(s.chunks, new) ELSE Append(older, grown)
      /\ r.headChunkClosed = s.headChunkClosed
      /\ r.chunks \in Seq(Chunks) => r \in MemorySeries
  BY Zenon DEF add, head, MemorySeries
<1> SUFFICES /\ r \in MemorySeries
             /\ Len(s.chunks) <= Len(r.chunks)
             /\ \A k \in 1..Len(s.chunks) : k < Len(s.chunks) => r.chunks[k] = s.chunks[k]
             /\ \A k \in 1..Len(s.chunks) : s.chunks[k].ids \subseteq r.chunks[k].ids
             /\ \A k \in 1..Len(r.chunks) :
                  r.chunks[k].ids \subseteq {id} \cup (IF k <= Len(s.chunks) THEN s.chunks[k].ids ELSE {})
             /\ \E k \in 1..Len(r.chunks) : id \in r.chunks[k].ids
  BY <1>4, Zenon
<1> HIDE DEF n, h, older, new, grown, r
<1>5. CASE ChunkFull(h)
  <2>1. /\ Append(s.chunks, new) \in Seq(Chunks) /\ Len(Append(s.chunks, new)) = n + 1
        /\ \A k \in 1..n : Append(s.chunks, new)[k] = s.chunks[k]
        /\ Append(s.chunks, new)[n + 1] = new
    BY <1>1, <1>2, AppendProperties DEF n
  <2> QED
    BY <2>1, <1>5, <1>4, <1>1, <1>2 DEF n
<1>6. CASE ~ChunkFull(h)
  <2>1. /\ Append(older, grown) \in Seq(Chunks) /\ Len(Append(older, grown)) = n
        /\ \A k \in 1..(n - 1) : Append(older, grown)[k] = s.chunks[k]
        /\ Append(older, grown)[n] = grown
    BY <1>1, <1>2, <1>3, AppendProperties
  <2>2. /\ r.chunks \in Seq(Chunks) /\ Len(r.chunks) = n
        /\ \A k \in 1..(n - 1) : r.chunks[k] = s.chunks[k]
        /\ r.chunks[n].ids = s.chunks[n].ids \cup {id}
    BY <2>1, <1>6, <1>4, <1>2, Zenon DEF h
  <2>3. ASSUME NEW k \in 1..n, k # n PROVE k \in 1..(n - 1)
    BY <1>1, <2>3
  <2>4. /\ \A k \in 1..n : s.chunks[k].ids \subseteq r.chunks[k].ids
        /\ \A k \in 1..n : r.chunks[k].ids \subseteq {id} \cup s.chunks[k].ids
        /\ id \in r.chunks[n].ids
    BY <2>2, <2>3, Zenon
  <2>5. /\ Len(s.chunks) = n /\ n \in 1..n /\ r \in MemorySeries
        /\ \A k \in 1..n : k <= n /\ (k < n => r.chunks[k] = s.chunks[k])
    BY <2>2, <2>3, <1>1, <1>4 DEF n
  <2> QED
    BY <2>2, <2>4, <2>5, <1>1, Zenon
<1> QED
  BY <1>5, <1>6, Zenon

(* So does a Push, which opens a head chunk first if there is none.        *)
LEMMA PushAdds ==
  ASSUME NEW s \in MemorySeries, NEW ts \in Timestamps, NEW id \in 1..MaxSamples
  PROVE  LET r == add(openHead(s, ts), id, ts) IN r \in MemorySeries /\ Adds(s, r, id)
<1> DEFINE o == openHead(s, ts)
           r == add(o, id, ts)
<1>1. /\ o \in MemorySeries /\ Len(o.chunks) > 0
      /\ \/ o = s /\ ~s.headChunkClosed
         \/ /\ Len(o.chunks) = Len(s.chunks) + 1 /\ ~o.headChunkClosed
            /\ \A k \in 1..Len(s.chunks) : o.chunks[k] = s.chunks[k]
            /\ o.chunks[Len(s.chunks) + 1].ids = {}
  BY OpenHead, Zenon
<1>2. Len(s.chunks) \in Nat /\ Len(o.chunks) \in Nat
  BY <1>1 DEF MemorySeries
<1> HIDE DEF o
<1>3. /\ r \in MemorySeries /\ r.headChunkClosed = o.headChunkClosed
      /\ Len(o.chunks) <= Len(r.chunks)
      /\ \A k \in 1..Len(o.chunks) : k < Len(o.chunks) => r.chunks[k] = o.chunks[k]
      /\ \A k \in 1..Len(o.chunks) : o.chunks[k].ids \subseteq r.chunks[k].ids
      /\ \A k \in 1..Len(r.chunks) :
           r.chunks[k].ids \subseteq {id} \cup (IF k <= Len(o.chunks) THEN o.chunks[k].ids ELSE {})
      /\ \E k \in 1..Len(r.chunks) : id \in r.chunks[k].ids
  BY <1>1, AddIsAdd, Zenon
<1> HIDE DEF r
<1>4. Len(r.chunks) \in Nat
  BY <1>3 DEF MemorySeries
<1>5. ASSUME o = s /\ ~s.headChunkClosed
      PROVE  Adds(s, r, id)
  BY <1>2, <1>3, <1>4, <1>5, Zenon DEF Adds
<1>6. ASSUME /\ Len(o.chunks) = Len(s.chunks) + 1 /\ ~o.headChunkClosed
             /\ \A k \in 1..Len(s.chunks) : o.chunks[k] = s.chunks[k]
             /\ o.chunks[Len(s.chunks) + 1].ids = {}
      PROVE  Adds(s, r, id)
  <2>1. \A k \in 1..Len(s.chunks) : k \in 1..Len(o.chunks) /\ k < Len(o.chunks)
    BY <1>2, <1>6
  <2>2. \A k \in 1..Len(s.chunks) : r.chunks[k] = s.chunks[k]
    BY <2>1, <1>3, <1>6, Zenon
  <2>3. ASSUME NEW k \in 1..Len(r.chunks)
        PROVE  r.chunks[k].ids \subseteq {id} \cup (IF k <= Len(s.chunks) THEN s.chunks[k].ids ELSE {})
    <3>1. CASE k <= Len(s.chunks)
      BY <3>1, <2>2, <1>2, <1>4
    <3>2. CASE k = Len(s.chunks) + 1
      BY <3>2, <1>2, <1>3, <1>6, Zenon
    <3>3. CASE k > Len(s.chunks) + 1
      BY <3>3, <1>2, <1>3, <1>4, <1>6
    <3> QED
      BY <3>1, <3>2, <3>3, <1>2, <1>4
  <2> QED
    BY <2>2, <2>3, <1>2, <1>3, <1>4, <1>6, SMTT(20) DEF Adds
<1>7. r \in MemorySeries /\ Adds(s, r, id)
  BY <1>1, <1>3, <1>5, <1>6, Zenon
<1> QED
  BY <1>7, Zenon DEF r, o

-----------------------------------------------------------------------------
(* The settings do not change.                                             *)
Settled == QueueOf' = QueueOf /\ Timestamps' = Timestamps

(* The constants do not change, nor do the sets made of them.              *)
LEMMA SameTypes ==
  ASSUME Settled
  PROVE  Chunks' = Chunks /\ MemorySeries' = MemorySeries /\ Flushers' = Flushers
BY Zenon DEF Settled, Chunks, MemorySeries, Flushers

(* The initial state: no series has a chunk.                               *)
LEMMA FlushInit == Init => FlushInv
<1> SUFFICES ASSUME Init PROVE FlushInv
  BY Zenon
<1>1. QueueOf \in [Fps -> Queues] /\ Timestamps \subseteq Nat
  BY FlushAssumption, Zenon DEF Init
<1>2. NoChunks \in MemorySeries /\ NoOp \in Flushers /\ NoOp.pc \notin Busy
  BY DEF NoChunks, MemorySeries, NoOp, Flushers, Busy
<1>3. Types
  <2>1. MaxSamples \in Nat
    BY FlushAssumption, Zenon
  <2>2. /\ series \in [Fps -> MemorySeries] /\ flusher \in [Queues -> Flushers]
        /\ queue \in [Queues -> SUBSET Ops] /\ closed \in [Queues -> BOOLEAN]
    BY <1>2, Zenon DEF Init
  <2>3. \A q \in Queues : flusher[q].pc \notin Busy
    BY <1>2, Zenon DEF Init
  <2>4. now \in Nat /\ pushed \in 0..MaxSamples
    BY <2>1 DEF Init
  <2> QED
    BY <2>2, <2>3, <2>4, <1>1, Zenon DEF Init, Types
<1>4. Closing /\ Owned /\ Taken /\ Leaving
  BY Zenon DEF Init, Closing, Owned, Taken, Leaving, NoOp, Busy
<1>5. Kept
  BY DEF Init, Kept, NoChunks
<1> QED
  BY <1>3, <1>4, <1>5, Zenon DEF FlushInv, Init

-----------------------------------------------------------------------------
(* The clock, and the steps of loop() after quit.                          *)

(* Time passing keeps the invariant.                                       *)
LEMMA TickKeeps == ASSUME FlushInv, Settled, Tick PROVE FlushInv'
<1>1. Types'
  BY SameTypes, FlushAssumption DEF FlushInv, Settled, Tick, Types
<1> QED
  BY <1>1, Zenon DEF FlushInv, Settled, Tick, Closing, Owned, Taken, Kept, InMemory, Leaving, Due

(* The start of Shutdown keeps the invariant.                              *)
LEMMA ShutdownKeeps == ASSUME FlushInv, Settled, Shutdown PROVE FlushInv'
<1>1. Types'
  BY SameTypes, Zenon DEF FlushInv, Settled, Shutdown, Types
<1> QED
  BY <1>1, Zenon DEF FlushInv, Settled, Shutdown, Closing, Owned, Taken, Kept, InMemory, Leaving, Due

(* The loop that is told to quit keeps the invariant.                      *)
LEMMA QuitKeeps == ASSUME FlushInv, Settled, Quit PROVE FlushInv'
<1>1. Types'
  BY SameTypes, Zenon DEF FlushInv, Settled, Quit, Types
<1>2. Closing'
  BY Zenon DEF FlushInv, Quit, Closing
<1>3. Leaving'
  BY DEF FlushInv, Quit, Leaving, Due, Types, MemorySeries
<1> QED
  BY <1>1, <1>2, <1>3, Zenon DEF FlushInv, Settled, Quit, Owned, Taken, Kept, InMemory

(* Closing a flush queue keeps the invariant.                              *)
LEMMA CloseKeeps == ASSUME FlushInv, Settled, NEW q \in Queues, Close(q) PROVE FlushInv'
<1>1. Types'
  BY SameTypes, Zenon DEF FlushInv, Settled, Close, Types
<1>2. Closing'
  BY Zenon DEF FlushInv, Types, Close, Closing
<1> QED
  BY <1>1, <1>2, Zenon DEF FlushInv, Settled, Close, Owned, Taken, Kept, InMemory, Leaving, Due

(* The end of the process keeps the invariant: the queues are drained.     *)
LEMMA UnregisterKeeps == ASSUME FlushInv, Settled, Unregister PROVE FlushInv'
<1>1. Types'
  BY SameTypes, Zenon DEF FlushInv, Settled, Unregister, Types
<1>2. Closing'
  BY Zenon DEF FlushInv, Unregister, Closing
<1> QED
  BY <1>1, <1>2, Zenon DEF FlushInv, Settled, Unregister, Owned, Taken, Kept, InMemory, Leaving, Due

(* At the end nothing is due any more: what was in memory has been stored. *)
LEMMA ExitKeeps == ASSUME FlushInv, Settled, Exit PROVE FlushInv'
<1>1. Types'
  <2>1. NoChunks \in MemorySeries
    BY DEF NoChunks, MemorySeries
  <2> QED
    BY <2>1, SameTypes, Zenon DEF FlushInv, Settled, Exit, Types
<1>2. Closing'
  BY Zenon DEF FlushInv, Exit, Closing
<1>3. ASSUME NEW fp \in Fps PROVE ~(Len(series[fp].chunks) > 0)
  <2>1. QueueOf[fp] \in Queues
    BY Zenon DEF FlushInv, Types
  <2>2. ~Due(fp)
    BY <2>1, Zenon DEF FlushInv, Exit, Closing, Due, Busy
  <2> QED
    BY <2>2, Zenon DEF FlushInv, Exit, Leaving
<1>4. acked \subseteq store
  BY <1>3 DEF FlushInv, Exit, Kept, InMemory, Types, MemorySeries
<1> QED
  BY <1>1, <1>2, <1>4, Zenon DEF FlushInv, Exit

-----------------------------------------------------------------------------
(* Appends and sweeps.                                                     *)

(* What was taken from the front of the chunks stays there when a sample is *)
(* added.                                                                   *)
LEMMA AddsAfter ==
  ASSUME NEW s \in MemorySeries, NEW r \in MemorySeries, NEW id, Adds(s, r, id), NEW c \in Seq(Chunks), Takes(c, s)
  PROVE  Takes(c, r)
<1>1. Len(c) \in Nat /\ Len(s.chunks) \in Nat /\ Len(r.chunks) \in Nat
  BY DEF MemorySeries
<1>2. Len(c) > 0 /\ Len(c) <= Len(r.chunks)
  BY <1>1 DEF Takes, Adds
<1>3. Len(c) = Len(r.chunks) => Len(s.chunks) = Len(r.chunks) /\ Len(c) = Len(s.chunks)
  BY <1>1 DEF Takes, Adds
<1>4. ASSUME NEW k \in 1..Len(c) PROVE c[k] = r.chunks[k]
  <2>1. k \in 1..Len(s.chunks) /\ c[k] = s.chunks[k]
    BY <1>1 DEF Takes
  <2>2. k < Len(s.chunks) \/ s.headChunkClosed
    BY <1>1 DEF Takes
  <2> QED
    BY <2>1, <2>2 DEF Adds
<1>5. Len(c) = Len(r.chunks) => r.headChunkClosed
  BY <1>3, Zenon DEF Takes, Adds
<1> QED
  BY <1>2, <1>4, <1>5, Zenon DEF Takes

(* A Push keeps the invariant: it appends to the series only.              *)
LEMMA PushKeeps ==
  ASSUME FlushInv, Settled, NEW fp \in Fps, NEW ts \in Timestamps, Push(fp, ts)
  PROVE  FlushInv'
<1> DEFINE id == pushed + 1
           s == series[fp]
           r == add(openHead(s, ts), id, ts)
<1>1. /\ alive = "running" /\ alive' = alive /\ loop = "run" /\ loop' = loop /\ pushed' = id
      /\ id \in 1..MaxSamples /\ pushed \in Nat /\ s \in MemorySeries
  BY FlushAssumption DEF FlushInv, Types, Push, Closing
<1>2. CASE series' = series /\ acked' = acked
  <2>1. Types' /\ Closing'
    BY <1>1, <1>2, SameTypes, FlushAssumption DEF FlushInv, Settled, Push, Types, Closing
  <2>2. Owned' /\ Taken' /\ Leaving'
    BY <1>1, <1>2, Zenon DEF FlushInv, Settled, Push, Owned, Taken, Leaving
  <2>3. Kept'
    BY <1>1, <1>2 DEF FlushInv, Push, Kept, InMemory
  <2> QED
    BY <1>1, <2>1, <2>2, <2>3, Zenon DEF FlushInv
<1>3. CASE series' = [series EXCEPT ![fp] = r] /\ acked' = acked \cup {id}
  <2>1. r \in MemorySeries /\ Adds(s, r, id)
    BY <1>1, PushAdds, Zenon
  <2> HIDE DEF r
  <2>2. Types' /\ Closing'
    BY <1>1, <1>3, <2>1, SameTypes, FlushAssumption DEF FlushInv, Settled, Push, Types, Closing
  <2>3. Owned' /\ Leaving'
    BY <1>1, Zenon DEF FlushInv, Settled, Push, Owned, Leaving
  <2>4. ASSUME NEW c \in Seq(Chunks), Takes(c, s) PROVE Takes(c, r)
    BY <1>1, <2>1, <2>4, AddsAfter, Zenon
  <2>5. Taken'
    BY <1>1, <1>3, <2>4 DEF FlushInv, Types, Flushers, Push, Taken
  <2>6. Kept'
    <3>1. ASSUME NEW x \in acked' PROVE x \in store' \/ InMemory(x)'
      <4>1. CASE x = id
        <5>1. series'[fp] = r
          BY <1>3, Zenon DEF FlushInv, Types
        <5>2. \E k \in 1..Len(r.chunks) : id \in r.chunks[k].ids
          BY <2>1, Zenon DEF Adds
        <5> QED
          BY <4>1, <5>1, <5>2, Zenon DEF InMemory
      <4>2. CASE x \in acked /\ InMemory(x)
        <5> PICK g \in Fps : \E k \in 1..Len(series[g].chunks) : x \in series[g].chunks[k].ids
          BY <4>2, Zenon DEF InMemory
        <5>1. PICK k \in 1..Len(series[g].chunks) : x \in series[g].chunks[k].ids
          BY Zenon
        <5>2. CASE g = fp
          <6>1. k \in 1..Len(r.chunks) /\ x \in r.chunks[k].ids
            BY <5>1, <5>2, <1>1, <2>1 DEF Adds, MemorySeries
          <6>2. series'[fp] = r
            BY <1>3, Zenon DEF FlushInv, Types
          <6> QED
            BY <6>1, <6>2, Zenon DEF InMemory
        <5>3. CASE g # fp
          BY <5>1, <5>3, <1>3, Zenon DEF InMemory, FlushInv, Types
        <5> QED
          BY <5>2, <5>3, Zenon
      <4>3. CASE x \in acked /\ x \in store
        BY <4>3, Zenon DEF Push
      <4> QED
        BY <4>1, <4>2, <4>3, <1>1, <1>3, Zenon DEF FlushInv, Kept
    <3>2. ASSUME NEW g \in Fps, NEW k \in 1..Len(series'[g].chunks)
          PROVE  series'[g].chunks[k].ids \subseteq 1..pushed'
      <4>1. CASE g = fp
        <5>1. series'[g] = r
          BY <4>1, <1>3, Zenon DEF FlushInv, Types
        <5>2. r.chunks[k].ids \subseteq {id} \cup (IF k <= Len(s.chunks) THEN s.chunks[k].ids ELSE {})
          BY <5>1, <2>1, Zenon DEF Adds
        <5>3. k <= Len(s.chunks) => s.chunks[k].ids \subseteq 1..pushed
          BY <5>1, <1>1, <2>1 DEF FlushInv, Kept, MemorySeries
        <5> QED
          BY <5>1, <5>2, <5>3, <1>1
      <4>2. CASE g # fp
        BY <4>2, <1>1, <1>3 DEF FlushInv, Kept, Types
      <4> QED
        BY <4>1, <4>2, Zenon
    <3> QED
      BY <3>1, <3>2, Zenon DEF Kept
  <2> QED
    BY <1>1, <2>2, <2>3, <2>5, <2>6, Zenon DEF FlushInv
<1> QED
  BY <1>2, <1>3, Zenon DEF Push

(* The queue of a series gets an operation for it, or stays as it is.      *)
LEMMA SweepSeries ==
  ASSUME FlushInv, NEW fp \in Fps, NEW im \in BOOLEAN, sweepSeries(fp, im)
  PROVE  /\ queue' \in [Queues -> SUBSET Ops]
         /\ \A q \in Queues : queue[q] \subseteq queue'[q]
         /\ \A q \in Queues : \A op \in queue'[q] : op \in queue[q] \/ (op.fp = fp /\ q = QueueOf[fp])
         /\ (Len(series[fp].chunks) > 0 /\ im) => \E op \in queue'[QueueOf[fp]] : op.fp = fp /\ op.immediate
<1> DEFINE s == series[fp]
           op == [fp |-> fp, immediate |-> im, from |-> firstTime(s)]
<1>1. s \in MemorySeries /\ Timestamps \subseteq Nat /\ QueueOf[fp] \in Queues /\ queue \in [Queues -> SUBSET Ops]
  BY Zenon DEF FlushInv, Types
<1>2. CASE s.chunks # << >> /\ shouldFlushSeries(s, im)
  <2>1. op \in Ops
    <3>1. s.chunks \in Seq(Chunks) /\ s.chunks # << >>
      BY <1>1, <1>2, Zenon DEF MemorySeries
    <3>2. s.chunks[1] \in Chunks
      BY <3>1
    <3> QED
      BY <3>2, <1>1, Zenon DEF firstTime, Ops, Chunks
  <2>2. queue' = [queue EXCEPT ![QueueOf[fp]] = Enqueued(@, op)]
    BY <1>2, Zenon DEF sweepSeries
  <2>3. op.fp = fp /\ op.immediate = im
    BY Zenon
  <2> HIDE DEF op
  <2>4. /\ Enqueued(queue[QueueOf[fp]], op) \subseteq queue[QueueOf[fp]] \cup {op}
        /\ queue[QueueOf[fp]] \subseteq Enqueued(queue[QueueOf[fp]], op)
        /\ \E o \in Enqueued(queue[QueueOf[fp]], op) : o.fp = fp /\ o.immediate = im
    BY <2>3, Zenon DEF Enqueued, Key
  <2> QED
    BY <1>1, <2>1, <2>2, <2>3, <2>4, Zenon
<1>3. CASE ~(s.chunks # << >> /\ shouldFlushSeries(s, im))
  BY <1>1, <1>3 DEF sweepSeries, shouldFlushSeries, MemorySeries
<1> QED
  BY <1>2, <1>3, Zenon

(* A sweep keeps the invariant: an op goes to the queue of its             *)
(* fingerprint.                                                            *)
LEMMA SweepKeeps == ASSUME FlushInv, Settled, NEW fp \in Fps, Sweep(fp) PROVE FlushInv'
<1>1. alive = "running" /\ loop = "run" /\ sweepSeries(fp, FALSE)
  BY Zenon DEF Sweep
<1>2. /\ queue' \in [Queues -> SUBSET Ops]
      /\ \A q \in Queues : \A op \in queue'[q] : op \in queue[q] \/ (op.fp = fp /\ q = QueueOf[fp])
  BY <1>1, SweepSeries, Zenon
<1>3. Types'
  BY <1>2, SameTypes, Zenon DEF FlushInv, Settled, Sweep, Types
<1>4. Closing' /\ Leaving'
  BY <1>1, Zenon DEF FlushInv, Sweep, Closing, Leaving
<1>5. Owned'
  BY <1>1, <1>2, Zenon DEF FlushInv, Settled, Sweep, Owned
<1> QED
  BY <1>1, <1>3, <1>4, <1>5, Zenon DEF FlushInv, Sweep, Taken, Kept, InMemory

(* So does the sweep of Shutdown, which leaves no series out.              *)
LEMMA SweepImmediateKeeps == ASSUME FlushInv, Settled, NEW fp \in Fps, SweepImmediate(fp) PROVE FlushInv'
<1>1. alive = "running" /\ loop = "flushAll" /\ fp \in toSweep /\ sweepSeries(fp, TRUE)
  BY Zenon DEF SweepImmediate
<1>2. /\ queue' \in [Queues -> SUBSET Ops]
      /\ \A q \in Queues : queue[q] \subseteq queue'[q]
      /\ \A q \in Queues : \A op \in queue'[q] : op \in queue[q] \/ (op.fp = fp /\ q = QueueOf[fp])
      /\ Len(series[fp].chunks) > 0 => \E op \in queue'[QueueOf[fp]] : op.fp = fp /\ op.immediate
  BY <1>1, SweepSeries, Zenon
<1>3. Types'
  BY <1>2, SameTypes, Zenon DEF FlushInv, Settled, SweepImmediate, Types
<1>4. Closing'
  BY <1>1, Zenon DEF FlushInv, SweepImmediate, Closing
<1>5. Owned'
  <2>1. Owned /\ QueueOf' = QueueOf /\ flusher' = flusher
    BY <1>1, Zenon DEF FlushInv, Settled, SweepImmediate
  <2>2. ASSUME NEW q \in Queues, NEW op \in queue'[q] PROVE QueueOf[op.fp] = q
    <3>1. op \in queue[q] \/ (op.fp = fp /\ q = QueueOf[fp])
      BY <1>2, <2>2, Zenon
    <3>2. op \in queue[q] => QueueOf[op.fp] = q
      BY <2>1, Zenon DEF Owned
    <3> QED
      BY <3>1, <3>2, Zenon
  <2>3. ASSUME NEW q \in Queues PROVE flusher[q].pc \in Busy => QueueOf[flusher[q].op.fp] = q
    BY <2>1, Zenon DEF Owned
  <2> QED
    BY <2>1, <2>2, <2>3, Zenon DEF Owned
<1>6. Leaving'
  <2> SUFFICES ASSUME NEW g \in Fps, Len(series[g].chunks) > 0 PROVE Due(g)'
    BY Zenon DEF Leaving, SweepImmediate
  <2>1. Due(g) /\ QueueOf[g] \in Queues
    BY <1>1, Zenon DEF FlushInv, Leaving, Types
  <2>2. CASE g = fp
    BY <2>2, <1>2, Zenon DEF Due, Settled
  <2>3. CASE g # fp
    BY <2>3, <2>1, <1>2, Zenon DEF Due, Settled, SweepImmediate
  <2> QED
    BY <2>2, <2>3, Zenon
<1> QED
  BY <1>1, <1>3, <1>4, <1>5, <1>6, Zenon DEF FlushInv, SweepImmediate, Taken, Kept, InMemory

-----------------------------------------------------------------------------
(* flushLoop.                                                              *)

(* A flusher that takes an op keeps the invariant.                         *)
LEMMA DequeueKeeps == ASSUME FlushInv, Settled, NEW q \in Queues, Dequeue(q) PROVE FlushInv'
<1>1. PICK op \in queue[q] :
        /\ queue' = [queue EXCEPT ![q] = @ \ {op}]
        /\ flusher' = [flusher EXCEPT ![q] = [pc |-> "take", op |-> op, chunks |-> << >>]]
  BY Zenon DEF Dequeue
<1> DEFINE f == [pc |-> "take", op |-> op, chunks |-> << >>]
<1>2. /\ op \in Ops /\ QueueOf[op.fp] = q /\ alive = "running" /\ flusher[q].pc = "dequeue"
      /\ f \in Flushers /\ f.pc = "take" /\ f.op = op
  BY DEF FlushInv, Types, Owned, Dequeue, Flushers, Busy
<1> HIDE DEF f
<1>3. Types'
  <2>1. queue' \in [Queues -> SUBSET Ops] /\ flusher' \in [Queues -> Flushers]
    BY <1>1, <1>2 DEF FlushInv, Types, f
  <2> QED
    BY <2>1, SameTypes DEF FlushInv, Settled, Dequeue, Types
<1>4. Closing'
  BY <1>1, <1>2 DEF FlushInv, Dequeue, Types, Closing
<1>5. Owned'
  <2>1. /\ queue'[q] \subseteq queue[q] /\ flusher'[q].op = op
        /\ \A p \in Queues : p # q => queue'[p] = queue[p] /\ flusher'[p] = flusher[p]
    BY <1>1, <1>2, Zenon DEF FlushInv, Types, f
  <2>2. Owned /\ QueueOf' = QueueOf
    BY <1>2, Zenon DEF FlushInv, Settled
  <2>3. ASSUME NEW p \in Queues
        PROVE  /\ \A o \in queue'[p] : QueueOf[o.fp] = p
               /\ flusher'[p].pc \in Busy => QueueOf[flusher'[p].op.fp] = p
    <3>1. CASE p = q
      BY <1>2, <2>1, <2>2, <3>1, Zenon DEF Owned
    <3>2. CASE p # q
      BY <2>1, <2>2, <3>2, Zenon DEF Owned
    <3> QED
      BY <3>1, <3>2, Zenon
  <2> QED
    BY <2>2, <2>3, Zenon DEF Owned
<1>6. Taken'
  BY <1>1, <1>2 DEF FlushInv, Dequeue, Types, Taken
<1>7. Leaving'
  <2> SUFFICES ASSUME NEW g \in Fps, Len(series[g].chunks) > 0, loop # "run" PROVE Due(g)'
    BY Zenon DEF Leaving, Dequeue
  <2>1. Due(g) /\ QueueOf[g] \in Queues
    BY <1>2, Zenon DEF FlushInv, Leaving, Types
  <2>2. CASE QueueOf[g] = q
    BY <2>1, <2>2, <1>1, <1>2 DEF Due, Settled, Dequeue, FlushInv, Types, Busy
  <2>3. CASE QueueOf[g] # q
    <3>1. queue'[QueueOf[g]] = queue[QueueOf[g]] /\ flusher'[QueueOf[g]] = flusher[QueueOf[g]]
      BY <2>1, <2>3, <1>1, Zenon DEF FlushInv, Types
    <3>2. QueueOf' = QueueOf /\ toSweep' = toSweep /\ series' = series
      BY Zenon DEF Settled, Dequeue
    <3> QED
      BY <2>1, <3>1, <3>2, Zenon DEF Due
  <2> QED
    BY <2>2, <2>3, Zenon
<1> QED
  BY <1>2, <1>3, <1>4, <1>5, <1>6, <1>7, Zenon DEF FlushInv, Dequeue, Kept, InMemory

(* A flusher that ends keeps the invariant: its queue is closed and empty. *)
LEMMA FlusherExitKeeps == ASSUME FlushInv, Settled, NEW q \in Queues, FlusherExit(q) PROVE FlushInv'
<1>1. /\ alive = "running" /\ flusher[q].pc = "dequeue" /\ queue[q] = {} /\ closed[q]
      /\ flusher' = [flusher EXCEPT ![q] = [flusher[q] EXCEPT !.pc = "exited"]]
  BY Zenon DEF FlusherExit
<1>2. [flusher[q] EXCEPT !.pc = "exited"] \in Flushers /\ [flusher[q] EXCEPT !.pc = "exited"].pc = "exited"
  BY Zenon DEF FlushInv, Types, Flushers
<1>3. Types'
  BY <1>1, <1>2, SameTypes DEF FlushInv, Settled, FlusherExit, Types, Busy
<1>4. Closing'
  BY <1>1, Zenon DEF FlushInv, FlusherExit, Types, Closing
<1>5. Owned'
  BY <1>1, <1>2, Zenon DEF FlushInv, Settled, FlusherExit, Types, Owned, Busy
<1>6. Taken'
  BY <1>1, <1>2, Zenon DEF FlushInv, FlusherExit, Types, Taken
<1>7. Leaving'
  <2> SUFFICES ASSUME NEW g \in Fps, Len(series[g].chunks) > 0, loop # "run" PROVE Due(g)'
    BY Zenon DEF Leaving, FlusherExit
  <2>1. Due(g) /\ QueueOf[g] \in Queues
    BY <1>1, Zenon DEF FlushInv, Leaving, Types
  <2>2. CASE QueueOf[g] = q
    BY <2>1, <2>2, <1>1, Zenon DEF Due, Settled, FlusherExit, Busy
  <2>3. CASE QueueOf[g] # q
    BY <2>1, <2>3, <1>1 DEF Due, Settled, FlusherExit, FlushInv, Types
  <2> QED
    BY <2>2, <2>3, Zenon
<1> QED
  BY <1>1, <1>3, <1>4, <1>5, <1>6, <1>7, Zenon DEF FlushInv, FlusherExit, Kept, InMemory

(* All the chunks but the head.                                            *)
LEMMA AllButHead ==
  ASSUME NEW cs \in Seq(Chunks), Len(cs) # 0
  PROVE  LET front == SubSeq(cs, 1, Len(cs) - 1)
         IN /\ Len(cs) > 0 /\ Len(cs) <= Len(cs)
            /\ front \in Seq(Chunks) /\ Len(front) <= Len(cs) /\ Len(front) # Len(cs)
            /\ front # << >> => Len(front) > 0
            /\ \A k \in 1..Len(front) : front[k] = cs[k]
<1> PICK n : n = Len(cs)
  BY Zenon
<1> PICK front : front = SubSeq(cs, 1, n - 1)
  BY Zenon
<1>1. n \in Nat \ {0}
  BY LenProperties
<1>2. front \in Seq(Chunks) /\ Len(front) = n - 1 /\ \A k \in 1..(n - 1) : front[k] = cs[k]
  BY <1>1, SubSeqProperties
<1>3. front # << >> => Len(front) # 0
  BY <1>2, EmptySeq
<1> QED
  BY <1>1, <1>2, <1>3

(* The first critical section: f is the goroutine after it, r the series.  *)
LEMMA TakeChunksTakes ==
  ASSUME FlushInv, NEW q \in Queues, TakeChunks(q)
  PROVE  LET op == flusher[q].op
             s == series[op.fp]
         IN /\ op \in Ops /\ QueueOf[op.fp] = q
            /\ \E f \in Flushers, r \in MemorySeries :
                 /\ flusher' = [flusher EXCEPT ![q] = f] /\ series' = [series EXCEPT ![op.fp] = r]
                 /\ r.chunks = s.chunks
                 /\ \/ f = NoOp /\ (op.immediate => Len(s.chunks) = 0)
                    \/ /\ f.pc = "put" /\ f.op = op /\ Takes(f.chunks, r)
                       /\ op.immediate => Len(f.chunks) = Len(s.chunks)
<1> DEFINE op == flusher[q].op
           s == series[op.fp]
           n == Len(s.chunks)
           all == op.immediate \/ shouldFlushChunk(head(s))
           chunks == IF all THEN s.chunks ELSE SubSeq(s.chunks, 1, n - 1)
<1>1. /\ op \in Ops /\ QueueOf[op.fp] = q /\ s \in MemorySeries /\ flusher[q] \in Flushers
      /\ flusher[q].pc = "take" /\ op.fp \in Fps /\ op.immediate \in BOOLEAN
  BY Zenon DEF FlushInv, Types, Owned, TakeChunks, Busy, Ops
<1>2. s.chunks \in Seq(Chunks) /\ n \in Nat
  BY <1>1 DEF MemorySeries
<1>3. NoOp \in Flushers
  BY DEF NoOp, Flushers
<1>4. CASE n = 0 \/ ~shouldFlushSeries(s, op.immediate)
  <2>1. flusher' = [flusher EXCEPT ![q] = NoOp] /\ series' = series
    BY <1>4, Zenon DEF TakeChunks
  <2>2. op.immediate => n = 0
    BY <1>4, Zenon DEF shouldFlushSeries
  <2>3. series' = [series EXCEPT ![op.fp] = s]
    BY <2>1, Zenon DEF FlushInv, Types
  <2> QED
    BY <2>1, <2>2, <2>3, <1>1, <1>3, Zenon
<1>5. CASE n # 0 /\ shouldFlushSeries(s, op.immediate)
  <2> DEFINE r == [s EXCEPT !.headChunkClosed = @ \/ all]
             f == IF chunks = << >> THEN NoOp ELSE [flusher[q] EXCEPT !.pc = "put", !.chunks = chunks]
  <2>1. series' = [series EXCEPT ![op.fp] = r] /\ flusher' = [flusher EXCEPT ![q] = f]
    BY <1>5, Zenon DEF TakeChunks
  <2>2. r \in MemorySeries /\ r.chunks = s.chunks /\ (all => r.headChunkClosed)
    BY <1>1, Zenon DEF MemorySeries
  <2>3. /\ chunks \in Seq(Chunks) /\ Len(chunks) <= n /\ (all <=> Len(chunks) = n)
        /\ chunks # << >> => Len(chunks) > 0
        /\ \A k \in 1..Len(chunks) : chunks[k] = s.chunks[k]
    <3>1. CASE all
      BY <1>2, <1>5, <3>1, AllButHead, Zenon
    <3>2. CASE ~all
      BY <1>2, <1>5, <3>2, AllButHead, Zenon
    <3> QED
      BY <3>1, <3>2, Zenon
  <2>4. op.immediate => all
    BY Zenon
  <2> HIDE DEF chunks, all, r
  <2>5. CASE chunks = << >>
    <3>1. f = NoOp
      BY <2>5, Zenon
    <3>2. ~op.immediate
      BY <2>3, <2>4, <2>5, <1>2, <1>5, Zenon
    <3> QED
      BY <3>1, <3>2, <2>1, <2>2, <1>1, <1>3, Zenon
  <2>6. CASE chunks # << >>
    <3>1. f \in Flushers /\ f.pc = "put" /\ f.op = op /\ f.chunks = chunks
      BY <2>3, <2>6, <1>1, Zenon DEF Flushers, Busy
    <3>2. Takes(chunks, r)
      BY <2>2, <2>3, <2>6, Zenon DEF Takes
    <3>3. op.immediate => Len(chunks) = n
      BY <2>3, <2>4, Zenon
    <3> HIDE DEF f
    <3> QED
      BY <3>1, <3>2, <3>3, <2>1, <2>2, <1>1, Zenon
  <2> QED
    BY <2>5, <2>6, Zenon
<1> QED
  BY <1>4, <1>5, Zenon

(* The chunks a flusher takes are the oldest of its series.                *)
LEMMA TakeChunksKeeps == ASSUME FlushInv, Settled, NEW q \in Queues, TakeChunks(q) PROVE FlushInv'
<1> DEFINE op == flusher[q].op
           s == series[op.fp]
<1>1. /\ op \in Ops /\ QueueOf[op.fp] = q /\ op.fp \in Fps
      /\ alive = "running" /\ flusher[q].pc = "take"
  BY TakeChunksTakes, Zenon DEF Ops, TakeChunks
<1>2. PICK f \in Flushers, r \in MemorySeries :
        /\ flusher' = [flusher EXCEPT ![q] = f] /\ series' = [series EXCEPT ![op.fp] = r]
        /\ r.chunks = s.chunks
        /\ \/ f = NoOp /\ (op.immediate => Len(s.chunks) = 0)
           \/ /\ f.pc = "put" /\ f.op = op /\ Takes(f.chunks, r)
              /\ op.immediate => Len(f.chunks) = Len(s.chunks)
  BY TakeChunksTakes, Zenon
<1>3. f.pc \in {"dequeue", "put"} /\ (f.pc = "put" => f.op = op)
  BY <1>2 DEF NoOp
<1>4. Types'
  BY <1>1, <1>2, <1>3, SameTypes, Zenon DEF FlushInv, Settled, TakeChunks, Types, Busy
<1>5. Closing'
  BY <1>1, <1>2, <1>3, Zenon DEF FlushInv, TakeChunks, Types, Closing
<1>6. Owned'
  BY <1>1, <1>2, <1>3, Zenon DEF FlushInv, Settled, TakeChunks, Types, Owned, Busy
<1>7. Taken'
  <2>1. ASSUME NEW p \in Queues, p # q, flusher[p].pc \in {"put", "trim"}
        PROVE  flusher'[p] = flusher[p] /\ series'[flusher[p].op.fp] = series[flusher[p].op.fp]
    BY <1>1, <1>2, <2>1 DEF FlushInv, Owned, Types, Busy
  <2>2. ASSUME NEW p \in Queues, p # q
        PROVE  flusher'[p] = flusher[p]
    BY <1>2, <2>2, Zenon DEF FlushInv, Types
  <2>3. flusher'[q] = f /\ series'[op.fp] = r /\ (f.pc = "put" => Takes(f.chunks, r))
    BY <1>1, <1>2 DEF FlushInv, Types, NoOp
  <2> QED
    BY <2>1, <2>2, <2>3, <1>1, <1>3, Zenon DEF FlushInv, TakeChunks, Taken
<1>8. \A g \in Fps : series'[g].chunks = series[g].chunks
  BY <1>1, <1>2, Zenon DEF FlushInv, Types
<1>9. Kept'
  BY <1>1, <1>8, Zenon DEF FlushInv, Kept, InMemory, TakeChunks
<1>10. Leaving'
  <2> SUFFICES ASSUME NEW g \in Fps, Len(series[g].chunks) > 0, loop # "run" PROVE Due(g)'
    BY <1>8, Zenon DEF Leaving, TakeChunks
  <2>1. Due(g) /\ QueueOf[g] \in Queues
    BY <1>1, Zenon DEF FlushInv, Leaving, Types
  <2>2. CASE QueueOf[g] = q
    <3>1. flusher'[q] = f /\ series'[g].chunks = series[g].chunks
      BY <1>2, <1>8, Zenon DEF FlushInv, Types
    <3>2. CASE g \in toSweep \/ \E o \in queue[QueueOf[g]] : o.fp = g /\ o.immediate
      BY <3>2, Zenon DEF Due, Settled, TakeChunks
    <3>3. CASE op.fp = g /\ op.immediate
      <4>1. f.pc = "put" /\ f.op = op /\ Len(f.chunks) = Len(series[g].chunks)
        BY <3>3, <1>2
      <4> QED
        BY <4>1, <3>1, <3>3, <2>2, Zenon DEF Due, Settled, Busy
    <3> QED
      BY <3>2, <3>3, <2>1, <2>2, Zenon DEF Due
  <2>3. CASE QueueOf[g] # q
    BY <2>1, <2>3, <1>2, <1>8, Zenon DEF Due, Settled, TakeChunks, FlushInv, Types
  <2> QED
    BY <2>2, <2>3, Zenon
<1> QED
  BY <1>1, <1>4, <1>5, <1>6, <1>7, <1>9, <1>10, Zenon DEF FlushInv, TakeChunks

(* Both ends of flushChunks: some of the chunks taken are stored.          *)
LEMMA StoredWerePushed ==
  ASSUME FlushInv, alive = "running", NEW q \in Queues, flusher[q].pc = "put", NEW k \in 1..Len(flusher[q].chunks)
  PROVE  flusher[q].chunks[k].ids \subseteq 1..pushed
<1>1. flusher[q].op.fp \in Fps /\ Takes(flusher[q].chunks, series[flusher[q].op.fp])
  BY Zenon DEF FlushInv, Types, Busy, Ops, Taken
<1>2. Len(flusher[q].chunks) \in Nat /\ Len(series[flusher[q].op.fp].chunks) \in Nat
  BY <1>1, SMTT(20) DEF FlushInv, Types, Flushers, MemorySeries
<1>3. k \in 1..Len(series[flusher[q].op.fp].chunks) /\ flusher[q].chunks[k] = series[flusher[q].op.fp].chunks[k]
  BY <1>1, <1>2 DEF Takes
<1> QED
  BY <1>1, <1>3, Zenon DEF FlushInv, Kept

(* A write to the store keeps the invariant.                               *)
LEMMA PutOkKeeps == ASSUME FlushInv, Settled, NEW q \in Queues, PutOk(q) PROVE FlushInv'
<1> DEFINE f == [flusher[q] EXCEPT !.pc = "trim"]
<1>1. /\ alive = "running" /\ flusher[q].pc = "put" /\ flusher[q] \in Flushers
      /\ flusher' = [flusher EXCEPT ![q] = f]
  BY Zenon DEF FlushInv, Types, PutOk
<1>2. f \in Flushers /\ f.pc = "trim" /\ f.op = flusher[q].op /\ f.chunks = flusher[q].chunks
  BY <1>1, Zenon DEF Flushers, Busy
<1> HIDE DEF f
<1>3. DOMAIN flusher[q].chunks = 1..Len(flusher[q].chunks)
  BY <1>1 DEF Flushers
<1>4. /\ store \subseteq store'
      /\ \A k \in 1..Len(flusher[q].chunks) : flusher[q].chunks[k].ids \subseteq store'
  BY <1>3, Zenon DEF PutOk, SamplesOf
<1>5. store' \subseteq 1..pushed
  BY <1>1, <1>3, StoredWerePushed DEF PutOk, SamplesOf, FlushInv, Types
<1>6. Types'
  BY <1>1, <1>2, <1>5, SameTypes DEF FlushInv, Settled, PutOk, Types, Busy
<1>7. Closing'
  BY <1>1, <1>2, Zenon DEF FlushInv, PutOk, Types, Closing
<1>8. Owned'
  BY <1>1, <1>2 DEF FlushInv, Settled, PutOk, Types, Owned, Busy
<1>9. Taken'
  <2>1. ASSUME NEW p \in Queues, p # q PROVE flusher'[p] = flusher[p]
    BY <1>1, <2>1, Zenon DEF FlushInv, Types
  <2>2. flusher'[q] = f
    BY <1>1, Zenon DEF FlushInv, Types
  <2> QED
    BY <2>1, <2>2, <1>1, <1>2, <1>4 DEF FlushInv, PutOk, Taken
<1>10. Kept'
  BY <1>1, <1>4, Zenon DEF FlushInv, Kept, InMemory, PutOk
<1>11. Leaving'
  <2> SUFFICES ASSUME NEW g \in Fps, Len(series[g].chunks) > 0, loop # "run" PROVE Due(g)'
    BY Zenon DEF Leaving, PutOk
  <2>1. Due(g) /\ QueueOf[g] \in Queues
    BY <1>1, Zenon DEF FlushInv, Leaving, Types
  <2>2. CASE QueueOf[g] = q
    BY <2>1, <2>2, <1>1, <1>2 DEF Due, Settled, PutOk, Busy, FlushInv, Types
  <2>3. CASE QueueOf[g] # q
    BY <2>1, <2>3, <1>1 DEF Due, Settled, PutOk, FlushInv, Types
  <2> QED
    BY <2>2, <2>3
<1> QED
  BY <1>1, <1>6, <1>7, <1>8, <1>9, <1>10, <1>11, Zenon DEF FlushInv, PutOk

(* A failed write keeps the invariant: the chunks are still in the series. *)
LEMMA PutFailsKeeps == ASSUME FlushInv, Settled, NEW q \in Queues, PutFails(q) PROVE FlushInv'
<1> DEFINE f == IF flusher[q].op.immediate THEN [flusher[q] EXCEPT !.pc = "retry", !.chunks = << >>] ELSE NoOp
<1>1. /\ alive = "running" /\ flusher[q].pc = "put" /\ flusher[q] \in Flushers
      /\ flusher' = [flusher EXCEPT ![q] = f]
  BY Zenon DEF FlushInv, Types, PutFails
<1>2. /\ f \in Flushers /\ f.pc \in {"retry", "dequeue"}
      /\ f.pc = "retry" => f.op = flusher[q].op
      /\ flusher[q].op.immediate => f.pc = "retry"
  <2>1. NoOp \in Flushers /\ NoOp.pc = "dequeue"
    BY DEF NoOp, Flushers
  <2>2. ASSUME NEW x \in Flushers, NEW e \in Seq(Chunks)
        PROVE  /\ [x EXCEPT !.pc = "retry", !.chunks = e] \in Flushers
               /\ [x EXCEPT !.pc = "retry", !.chunks = e].pc = "retry"
               /\ [x EXCEPT !.pc = "retry", !.chunks = e].op = x.op
    BY Zenon DEF Flushers, Busy
  <2>3. << >> \in Seq(Chunks)
    OBVIOUS
  <2>4. CASE flusher[q].op.immediate
    BY <1>1, <2>2, <2>3, <2>4, Zenon
  <2>5. CASE ~flusher[q].op.immediate
    BY <2>1, <2>5, Zenon
  <2> QED
    BY <2>4, <2>5, Zenon
<1> HIDE DEF f
<1>3. DOMAIN flusher[q].chunks = 1..Len(flusher[q].chunks)
  BY <1>1 DEF Flushers
<1>4. PICK K \in SUBSET DOMAIN flusher[q].chunks : store' = store \cup UNION {flusher[q].chunks[k].ids : k \in K}
  BY Zenon DEF PutFails
<1>5. store \subseteq store' /\ store' \subseteq 1..pushed
  <2>1. \A k \in K : flusher[q].chunks[k].ids \subseteq 1..pushed
    BY <1>1, <1>3, StoredWerePushed, Zenon
  <2>2. store \subseteq 1..pushed
    BY Zenon DEF FlushInv, Types
  <2> QED
    BY <2>1, <2>2, <1>4, Zenon
<1>6. Types'
  BY <1>1, <1>2, <1>5, SameTypes DEF FlushInv, Settled, PutFails, Types, Busy
<1>7. Closing'
  BY <1>1, <1>2, Zenon DEF FlushInv, PutFails, Types, Closing
<1>8. Owned'
  BY <1>1, <1>2, SMTT(20) DEF FlushInv, Settled, PutFails, Types, Owned, Busy
<1>9. Taken'
  BY <1>1, <1>2, <1>5 DEF FlushInv, Types, PutFails, Taken
<1>10. Kept'
  BY <1>1, <1>5, Zenon DEF FlushInv, Kept, InMemory, PutFails
<1>11. Leaving'
  <2> SUFFICES ASSUME NEW g \in Fps, Len(series[g].chunks) > 0, loop # "run" PROVE Due(g)'
    BY Zenon DEF Leaving, PutFails
  <2>1. Due(g) /\ QueueOf[g] \in Queues
    BY <1>1, Zenon DEF FlushInv, Leaving, Types
  <2>2. CASE QueueOf[g] = q
    BY <2>1, <2>2, <1>1, <1>2 DEF Due, Settled, PutFails, Busy, FlushInv, Types
  <2>3. CASE QueueOf[g] # q
    BY <2>1, <2>3, <1>1 DEF Due, Settled, PutFails, FlushInv, Types
  <2> QED
    BY <2>2, <2>3, Zenon
<1> QED
  BY <1>1, <1>6, <1>7, <1>8, <1>9, <1>10, <1>11, Zenon DEF FlushInv, PutFails

(* The chunks c leave a series that they are the first chunks of.          *)
LEMMA Trim ==
  ASSUME NEW s \in MemorySeries, NEW c \in Seq(Chunks), Takes(c, s)
  PROVE  LET left == SubSeq(s.chunks, Len(c) + 1, Len(s.chunks))
             r == IF left = << >> THEN NoChunks ELSE [s EXCEPT !.chunks = left]
         IN /\ r \in MemorySeries
            /\ Len(r.chunks) = Len(s.chunks) - Len(c)
            /\ \A k \in 1..Len(r.chunks) : r.chunks[k] = s.chunks[k + Len(c)]
<1> DEFINE left == SubSeq(s.chunks, Len(c) + 1, Len(s.chunks))
           r == IF left = << >> THEN NoChunks ELSE [s EXCEPT !.chunks = left]
           n == Len(s.chunks)
           m == Len(c)
<1>1. s.chunks \in Seq(Chunks) /\ n \in Nat /\ m \in Nat /\ m > 0 /\ m <= n
  BY DEF MemorySeries, Takes
<1>2. /\ left \in Seq(Chunks) /\ Len(left) = n - m
      /\ \A k \in 1..Len(left) : left[k] = s.chunks[k + m]
  BY <1>1, SubSeqProperties
<1> HIDE DEF left, n, m
<1>3. CASE left = << >>
  <2>1. r = NoChunks /\ NoChunks \in MemorySeries /\ NoChunks.chunks = << >>
    BY <1>3 DEF NoChunks, MemorySeries
  <2> QED
    BY <2>1, <1>2, <1>3, Zenon DEF left, n, m
<1>4. CASE left # << >>
  <2>1. r \in MemorySeries /\ r.chunks = left
    BY <1>2, <1>4, Zenon DEF MemorySeries
  <2> QED
    BY <2>1, <1>2, Zenon DEF left, n, m
<1> QED
  BY <1>3, <1>4, Zenon

(* The numbers of the n - m chunks that are left when m of n are dropped.  *)
Dropping(m, n) ==
  /\ \A k \in 1..n : k \in 1..m \/ (k - m \in 1..(n - m) /\ (k - m) + m = k)
  /\ \A k \in 1..(n - m) : k + m \in 1..n
  /\ n - m > 0 => n > 0 /\ m # n

(* Dropping no more than there is.                                         *)
LEMMA Dropped == ASSUME NEW m \in Nat, NEW n \in Nat, m <= n PROVE Dropping(m, n)
  BY DEF Dropping

(* Only chunks that were written are dropped from the series.              *)
LEMMA TrimChunksKeeps == ASSUME FlushInv, Settled, NEW q \in Queues, TrimChunks(q) PROVE FlushInv'
<1> PICK fp : fp = flusher[q].op.fp
  BY Zenon
<1> PICK c : c = flusher[q].chunks
  BY Zenon
<1> PICK s : s = series[fp]
  BY Zenon
<1> DEFINE left == SubSeq(s.chunks, Len(c) + 1, Len(s.chunks))
           r == IF left = << >> THEN NoChunks ELSE [s EXCEPT !.chunks = left]
<1>1. /\ alive = "running" /\ flusher[q].pc = "trim" /\ flusher[q].op \in Ops /\ QueueOf[fp] = q
      /\ fp \in Fps /\ s \in MemorySeries /\ c \in Seq(Chunks) /\ Takes(c, s)
      /\ \A k \in 1..Len(c) : c[k].ids \subseteq store
  BY Zenon DEF FlushInv, Types, Owned, Taken, TrimChunks, Busy, Ops, Flushers
<1>2. /\ flusher' = [flusher EXCEPT ![q] = NoOp] /\ series' = [series EXCEPT ![fp] = r]
      /\ UNCHANGED <<now, pushed, acked, stopped, loop, toSweep, queue, closed, store, alive>>
  BY Zenon DEF TrimChunks
<1>3. NoOp \in Flushers /\ NoOp.pc = "dequeue"
  BY DEF NoOp, Flushers
<1>4. /\ r \in MemorySeries /\ Len(r.chunks) = Len(s.chunks) - Len(c)
      /\ \A k \in 1..Len(r.chunks) : r.chunks[k] = s.chunks[k + Len(c)]
  BY <1>1, Trim, Zenon
<1> HIDE DEF r
<1> PICK m : m = Len(c)
  BY Zenon
<1> PICK n : n = Len(s.chunks)
  BY Zenon
<1>5. /\ m \in Nat /\ n \in Nat /\ m > 0 /\ m <= n /\ Len(r.chunks) = n - m
      /\ \A k \in 1..(n - m) : r.chunks[k] = s.chunks[k + m]
      /\ \A k \in 1..m : s.chunks[k].ids \subseteq store
  <2>1. m \in Nat /\ n \in Nat /\ m > 0 /\ m <= n /\ Len(r.chunks) = n - m
    <3>1. s.chunks \in Seq(Chunks)
      BY <1>1, Zenon DEF MemorySeries
    <3> QED
      BY <1>1, <1>4, <3>1, LenProperties, Zenon DEF Takes
  <2>2. \A k \in 1..m : s.chunks[k].ids \subseteq store
    BY <1>1, Zenon DEF Takes
  <2> QED
    BY <2>1, <2>2, <1>4, Zenon
<1>6. Dropping(m, n)
  BY <1>5, Dropped, Zenon
<1>7. Types'
  BY <1>1, <1>2, <1>3, <1>4, SameTypes, Zenon DEF FlushInv, Settled, Types, Busy
<1>8. Closing'
  BY <1>1, <1>2, <1>3, Zenon DEF FlushInv, Types, Closing
<1>9. Owned'
  BY <1>1, <1>2, <1>3, Zenon DEF FlushInv, Settled, Types, Owned, Busy
<1>10. flusher'[q] = NoOp /\ series'[fp] = r /\ (\A g \in Fps : g # fp => series'[g] = series[g])
  BY <1>1, <1>2, ZenonT(30) DEF FlushInv, Types
<1>11. Taken'
  <2>1. ASSUME NEW p \in Queues, p # q
        PROVE  /\ flusher'[p] = flusher[p]
               /\ flusher[p].pc \in {"put", "trim"} => series'[flusher[p].op.fp] = series[flusher[p].op.fp]
    BY <1>1, <1>2, <2>1 DEF FlushInv, Types, Owned, Busy
  <2> QED
    BY <2>1, <1>1, <1>2, <1>3, <1>10, SMTT(20) DEF FlushInv, Taken
<1>12. Kept'
  <2>1. ASSUME NEW x \in acked PROVE x \in store \/ InMemory(x)'
    <3> SUFFICES ASSUME InMemory(x), x \notin store PROVE InMemory(x)'
      BY <1>1, Zenon DEF FlushInv, Kept
    <3> PICK g \in Fps : \E k \in 1..Len(series[g].chunks) : x \in series[g].chunks[k].ids
      BY Zenon DEF InMemory
    <3> PICK k \in 1..Len(series[g].chunks) : x \in series[g].chunks[k].ids
      BY Zenon
    <3>1. CASE g # fp
      BY <3>1, <1>10, Zenon DEF InMemory
    <3>2. CASE g = fp
      <4>1. k \in 1..n /\ x \in s.chunks[k].ids
        BY <3>2, Zenon
      <4>2. k - m \in 1..(n - m) /\ (k - m) + m = k
        BY <4>1, <1>5, <1>6, Zenon DEF Dropping
      <4>3. x \in r.chunks[k - m].ids
        <5>1. r.chunks[k - m] = s.chunks[(k - m) + m]
          BY <4>2, <1>5, Zenon
        <5> QED
          BY <4>1, <4>2, <5>1, Zenon
      <4> QED
        <5>1. series'[fp].chunks = r.chunks /\ fp \in Fps /\ k - m \in 1..Len(r.chunks)
          BY <4>2, <1>1, <1>5, <1>10, Zenon
        <5> QED
          BY <4>3, <5>1, Zenon DEF InMemory
    <3> QED
      BY <3>1, <3>2, Zenon
  <2>2. ASSUME NEW g \in Fps, NEW k \in 1..Len(series'[g].chunks)
        PROVE  series'[g].chunks[k].ids \subseteq 1..pushed
    <3>1. CASE g # fp
      BY <3>1, <1>1, <1>10, Zenon DEF FlushInv, Kept
    <3>2. CASE g = fp
      <4>1. k \in 1..(n - m) /\ series'[g].chunks[k] = r.chunks[k]
        BY <3>2, <1>5, <1>10, Zenon
      <4>2. k + m \in 1..n
        BY <4>1, <1>6, Zenon DEF Dropping
      <4>3. s.chunks[k + m].ids \subseteq 1..pushed
        BY <4>2, <1>1, Zenon DEF FlushInv, Kept
      <4> QED
        BY <4>1, <4>3, <1>5, Zenon
    <3> QED
      BY <3>1, <3>2, Zenon
  <2> QED
    BY <2>1, <2>2, <1>2, Zenon DEF Kept
<1>13. Leaving'
  <2> SUFFICES ASSUME NEW g \in Fps, Len(series'[g].chunks) > 0, loop # "run" PROVE Due(g)'
    BY <1>2, Zenon DEF Leaving
  <2>1. QueueOf[g] \in Queues /\ Len(series[g].chunks) > 0 /\ (g = fp => m # n)
    <3>1. CASE g = fp
      <4>1. n - m > 0
        BY <3>1, <1>5, <1>10, Zenon
      <4> QED
        BY <3>1, <4>1, <1>6, Zenon DEF Dropping, FlushInv, Types
    <3>2. CASE g # fp
      BY <3>2, <1>10, Zenon DEF FlushInv, Types
    <3> QED
      BY <3>1, <3>2, Zenon
  <2>2. Due(g)
    BY <2>1, <1>1, Zenon DEF FlushInv, Leaving
  <2>3. CASE QueueOf[g] = q
    <3>1. ~(fp = g /\ Len(c) = Len(series[g].chunks))
      BY <2>1, Zenon
    <3> QED
      BY <2>2, <2>3, <3>1, <1>1, <1>2, Zenon DEF Due, Settled
  <2>4. CASE QueueOf[g] # q
    <3>1. flusher'[QueueOf[g]] = flusher[QueueOf[g]] /\ series'[g] = series[g]
      BY <2>1, <2>4, <1>1, <1>2, <1>10, Zenon DEF FlushInv, Types
    <3> QED
      BY <2>2, <3>1, <1>2 DEF Due, Settled
  <2> QED
    BY <2>3, <2>4, Zenon
<1> QED
  BY <1>1, <1>2, <1>7, <1>8, <1>9, <1>11, <1>12, <1>13, Zenon DEF FlushInv

(* A failed immediate op goes back to its queue.                           *)
LEMMA RetryKeeps == ASSUME FlushInv, Settled, NEW q \in Queues, Retry(q) PROVE FlushInv'
<1>1. alive = "running" /\ flusher[q].pc = "retry" /\ flusher[q].op \in Ops /\ QueueOf[flusher[q].op.fp] = q
  BY Zenon DEF FlushInv, Types, Owned, Retry, Busy
<1>2. CASE closed[q]
  <2>1. NoChunks \in MemorySeries
    BY DEF NoChunks, MemorySeries
  <2>2. Types'
    BY <2>1, <1>2, SameTypes, Zenon DEF FlushInv, Settled, Retry, Types
  <2>3. Closing'
    BY <1>2, Zenon DEF FlushInv, Retry, Closing
  <2> QED
    BY <2>2, <2>3, <1>2, Zenon DEF FlushInv, Retry
<1>3. CASE ~closed[q]
  <2> DEFINE op == flusher[q].op
             new == Later(op)
  <2>1. /\ queue' = [queue EXCEPT ![q] = Enqueued(@, new)] /\ flusher' = [flusher EXCEPT ![q] = NoOp]
        /\ UNCHANGED <<now, pushed, acked, series, stopped, loop, toSweep, closed, store, alive>>
    BY <1>3, Zenon DEF Retry
  <2>2. new \in Ops /\ new.fp = op.fp /\ new.immediate = op.immediate
    BY <1>1, FlushAssumption DEF Later, Ops
  <2>3. NoOp \in Flushers /\ NoOp.pc = "dequeue"
    BY DEF NoOp, Flushers
  <2> HIDE DEF new
  <2>4. /\ Enqueued(queue[q], new) \subseteq queue[q] \cup {new}
        /\ queue[q] \subseteq Enqueued(queue[q], new)
        /\ \E o \in Enqueued(queue[q], new) : o.fp = op.fp /\ o.immediate = op.immediate
    BY <2>2, Zenon DEF Enqueued, Key
  <2>5. Types'
    BY <2>1, <2>2, <2>3, <2>4, SameTypes, Zenon DEF FlushInv, Settled, Types, Busy
  <2>6. Closing'
    BY <1>3, <2>1, <2>3, Zenon DEF FlushInv, Types, Closing
  <2>7. Owned'
    BY <1>1, <2>1, <2>2, <2>3, <2>4 DEF FlushInv, Settled, Types, Owned, Busy
  <2>8. Taken'
    BY <1>1, <2>1, <2>3, Zenon DEF FlushInv, Types, Taken
  <2>9. Leaving'
    <3> SUFFICES ASSUME NEW g \in Fps, Len(series[g].chunks) > 0, loop # "run" PROVE Due(g)'
      BY <2>1, Zenon DEF Leaving
    <3>1. Due(g) /\ QueueOf[g] \in Queues
      BY <1>1, Zenon DEF FlushInv, Leaving, Types
    <3>2. CASE QueueOf[g] = q
      <4>1. queue'[q] = Enqueued(queue[q], new)
        BY <2>1, Zenon DEF FlushInv, Types
      <4> QED
        BY <3>1, <3>2, <4>1, <2>1, <2>4, ZenonT(30) DEF Due, Settled
    <3>3. CASE QueueOf[g] # q
      BY <3>1, <3>3, <2>1, Zenon DEF Due, Settled, FlushInv, Types
    <3> QED
      BY <3>2, <3>3
  <2> QED
    BY <1>1, <2>1, <2>5, <2>6, <2>7, <2>8, <2>9, Zenon DEF FlushInv, Kept, InMemory
<1> QED
  BY <1>2, <1>3, Zenon

-----------------------------------------------------------------------------
(* A step of the specification, by its action.                             *)
LEMMA FlushStep == ASSUME FlushInv, [Next]_<<QueueOf, Timestamps, vars>> PROVE FlushInv'
<1>1. CASE Next
  <2>1. Settled
    BY <1>1, Zenon DEF Next, Settled
  <2>2. CASE Tick
    BY <2>1, <2>2, TickKeeps, Zenon
  <2>3. CASE \E fp \in Fps, ts \in Timestamps : Push(fp, ts)
    BY <2>1, <2>3, PushKeeps, Zenon
  <2>4. CASE \E fp \in Fps : Sweep(fp)
    BY <2>1, <2>4, SweepKeeps, Zenon
  <2>5. CASE Shutdown
    BY <2>1, <2>5, ShutdownKeeps
  <2>6. CASE Stop
    BY <2>1, <2>6, QuitKeeps, SweepImmediateKeeps, CloseKeeps, UnregisterKeeps, ExitKeeps, Zenon DEF Stop
  <2>7. ASSUME NEW q \in Queues, Flush(q) \/ PutOk(q) \/ PutFails(q) PROVE FlushInv'
    BY <2>1, <2>7, DequeueKeeps, FlusherExitKeeps, TakeChunksKeeps, TrimChunksKeeps, RetryKeeps,
       PutOkKeeps, PutFailsKeeps DEF Flush
  <2> QED
    BY <1>1, <2>2, <2>3, <2>4, <2>5, <2>6, <2>7, Zenon DEF Next, Step
<1>2. CASE UNCHANGED <<QueueOf, Timestamps, vars>>
  <2>1. Settled
    BY <1>2, Zenon DEF Settled
  <2>2. Types'
    BY <1>2, <2>1, SameTypes, Zenon DEF FlushInv, Types, vars
  <2> QED
    BY <1>2, <2>2, Zenon DEF FlushInv, vars, Closing, Owned, Taken, Kept, InMemory, Leaving, Due
<1> QED
  BY <1>1, <1>2, Zenon

(* FlushInv is an invariant of the flush.                                  *)
THEOREM FlushInvariant == Spec => []FlushInv
<1>1. Init => FlushInv
  BY FlushInit, Zenon
<1>2. FlushInv /\ [Next]_<<QueueOf, Timestamps, vars>> => FlushInv'
  BY FlushStep, Zenon
<1> QED
  BY <1>1, <1>2, PTL DEF Spec

(* NoAckedLoss: a sample whose append returned no error is in memory or in *)
(* the chunk store, and in the chunk store when the process has ended, if  *)
(* it did not panic (append, flushUserSeries, flushAllChunks).             *)
THEOREM FlushNoAckedLoss == Spec => []NoAckedLoss
<1>1. ASSUME FlushInv PROVE NoAckedLoss
  <2>1. ASSUME NEW id, InMemory(id) PROVE id \in Memory
    <3>1. PICK fp \in Fps : \E k \in 1..Len(series[fp].chunks) : id \in series[fp].chunks[k].ids
      BY <2>1, Zenon DEF InMemory
    <3>2. 1..Len(series[fp].chunks) = DOMAIN series[fp].chunks
      BY <1>1 DEF FlushInv, Types, MemorySeries
    <3>3. id \in SamplesOf(series[fp].chunks)
      BY <3>1, <3>2, Zenon DEF SamplesOf
    <3> QED
      BY <3>3, Zenon DEF Memory
  <2>2. alive \in {"running", "exited", "panicked"}
    BY <1>1, Zenon DEF FlushInv, Types
  <2> QED
    BY <1>1, <2>1, <2>2, Zenon DEF FlushInv, Kept, NoAckedLoss
<1>2. FlushInv => NoAckedLoss
  BY <1>1, Zenon
<1> QED
  BY <1>2, FlushInvariant, PTL

(* TakenChunksStable: the variables have their types, and what a flush     *)
(* writes without the lock of the series stays the beginning of the series *)
(* until it is dropped (flushUserSeries, memorySeries.add).                *)
THEOREM FlushTakenChunksStable == Spec => []TakenChunksStable
<1>1. ASSUME FlushInv PROVE TypeOK
  <2>1. \A fp \in Fps : /\ series[fp].headChunkClosed \in BOOLEAN
                        /\ \A k \in DOMAIN series[fp].chunks : series[fp].chunks[k] \in Chunks
    BY <1>1 DEF FlushInv, Types, MemorySeries
  <2>2. \A q \in Queues : flusher[q].pc \in {"dequeue", "take", "put", "trim", "retry", "exited"}
    BY <1>1, Zenon DEF FlushInv, Types, Flushers, Busy
  <2> QED
    BY <1>1, <2>1, <2>2, Zenon DEF FlushInv, Types, TypeOK, Busy
<1>2. ASSUME FlushInv, alive = "running", NEW q \in Queues, flusher[q].pc \in {"put", "trim"}
      PROVE  LET s == series[flusher[q].op.fp]
                 n == Len(flusher[q].chunks)
             IN n <= Len(s.chunks) /\ SubSeq(s.chunks, 1, n) = flusher[q].chunks
  <2> DEFINE c == flusher[q].chunks
             d == series[flusher[q].op.fp].chunks
  <2>1. flusher[q].op.fp \in Fps
    BY <1>2, Zenon DEF FlushInv, Types, Busy, Ops
  <2>2. c \in Seq(Chunks) /\ d \in Seq(Chunks)
    BY <1>2, <2>1, Zenon DEF FlushInv, Types, Flushers, MemorySeries
  <2>3. Len(c) <= Len(d) /\ \A k \in 1..Len(c) : c[k] = d[k]
    BY <1>2, Zenon DEF FlushInv, Taken, Takes
  <2> HIDE DEF c, d
  <2>4. /\ SubSeq(d, 1, Len(c)) \in Seq(Chunks) /\ Len(SubSeq(d, 1, Len(c))) = Len(c)
        /\ \A k \in 1..Len(c) : SubSeq(d, 1, Len(c))[k] = c[k]
    BY <2>2, <2>3, SubSeqProperties
  <2>5. SubSeq(d, 1, Len(c)) = c
    BY <2>2, <2>4, SeqEqual, Zenon
  <2> QED
    BY <2>3, <2>5, Zenon DEF c, d
<1>3. FlushInv => TakenChunksStable
  BY <1>1, <1>2, Zenon DEF TakenChunksStable
<1> QED
  BY <1>3, FlushInvariant, PTL
====
