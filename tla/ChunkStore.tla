----------------------------- MODULE ChunkStore -----------------------------
(***************************************************************************)
(* The chunk store (src/chunk/chunk_store.go, chunk_cache.go and the       *)
(* DynamoDB and S3 client of aws_storage_client.go): Put writes the data   *)
(* of chunks to S3 and then their rows to the index; Get reads the index,  *)
(* then the data from memcache or S3.                                      *)
(*                                                                         *)
(* One Put and one Get run at a time, against each other. A chunk is known *)
(* by its key; encoding and decoding are left out.                         *)
(***************************************************************************)
EXTENDS Schema, ByKey, TLC, SequencesExt

CONSTANTS
  Chunk,            \* key -> [id: that key, from, through, metric, labels]
  Fresh, Earlier,   \* the chunks to put, and those put before
  Queries,          \* the queries to make: [from, through, metric, matchers]
  MaxBatch,         \* dynamoMaxBatchSize
  maxRetries,
  WriteBackBuffer,  \* the capacity of bgWrites
  MaxPuts,          \* bound on the calls of Put
  MaxFaults         \* bound on the requests that fail, throttling not counted

ASSUME StoreAssumption ==
  /\ MaxBatch \in Nat \ {0} /\ maxRetries \in Nat \ {0}
  /\ WriteBackBuffer \in Nat /\ MaxPuts \in Nat /\ MaxFaults \in Nat

VARIABLES
  s3,        \* the chunks whose data S3 has
  index,     \* the rows DynamoDB has
  cache,     \* the chunks memcache has, and undamaged
  bgWrites,  \* the chunks that wait to be written back to memcache
  put, get,  \* the call of Put and of Get
  acked,     \* the chunks of calls of Put that returned without an error
  puts, faults

storeVars == <<s3, index, cache, bgWrites, put, get, acked, puts, faults>>

Keys == DOMAIN Chunk

NoPut == [pc |-> "idle", chunks |-> {}, todo |-> {}, err |-> FALSE,
          outstanding |-> {}, unprocessed |-> {}, retries |-> 0]
NoGet == [pc |-> "idle", q |-> {}, pending |-> {}, sets |-> << >>, err |-> FALSE,
          throttled |-> FALSE, before |-> {}, result |-> << >>]

(* The store after earlier calls of Put that stored the chunks ks.         *)
StoreInit(ks) ==
  /\ s3 = ks /\ acked = ks /\ index = UNION {GetWriteEntries(Chunk[k]) : k \in ks}
  /\ cache = {} /\ bgWrites = << >>
  /\ put = NoPut /\ get = NoGet
  /\ puts = 0 /\ faults = 0

(* A request fails.                                                        *)
Fault == faults < MaxFaults /\ faults' = faults + 1

-----------------------------------------------------------------------------
(* Put.                                                                    *)

Put(ks) ==
  /\ put.pc = "idle" /\ puts < MaxPuts
  /\ puts' = puts + 1
  /\ put' = [NoPut EXCEPT !.pc = "s3", !.chunks = ks, !.todo = ks]
  /\ UNCHANGED <<s3, index, cache, bgWrites, get, acked, faults>>

(* Mutant: the error of one chunk is forgotten when the next one succeeds. *)
putChunkMutant(k) ==
  /\ put.pc = "s3" /\ k \in put.todo
  /\ \/ /\ s3' = s3 \cup {k} /\ cache' = cache \cup {k}
        /\ put' = [put EXCEPT !.todo = @ \ {k}, !.err = FALSE]
        /\ UNCHANGED faults
     \/ /\ Fault
        /\ put' = [put EXCEPT !.todo = @ \ {k}, !.err = TRUE]
        /\ UNCHANGED <<s3, cache>>
  /\ UNCHANGED <<index, bgWrites, get, acked, puts>>

(* One chunk to S3, and then to the cache. An error of the cache is only   *)
(* logged: the item is then as one that is gone at once.                   *)
putChunk(k) ==
  /\ put.pc = "s3" /\ k \in put.todo
  /\ \/ /\ s3' = s3 \cup {k}
        /\ cache' = cache \cup {k}
        /\ put' = [put EXCEPT !.todo = @ \ {k}]
        /\ UNCHANGED faults
     \/ /\ Fault
        /\ put' = [put EXCEPT !.todo = @ \ {k}, !.err = TRUE]
        /\ UNCHANGED <<s3, cache>>
  /\ UNCHANGED <<index, bgWrites, get, acked, puts>>

(* calculateDynamoWrites *)
calculateDynamoWrites(ks) == UNION {GetWriteEntries(Chunk[k]) : k \in ks}

(* putChunks returns when every chunk has been tried. *)
updateIndex ==
  /\ put.pc = "s3" /\ put.todo = {}
  /\ put' = IF put.err THEN NoPut
            ELSE [put EXCEPT !.pc = "index", !.outstanding = calculateDynamoWrites(put.chunks)]
  /\ UNCHANGED <<s3, index, cache, bgWrites, get, acked, puts, faults>>

(* "to" filled up from "from" to MaxBatch requests, table after table, in  *)
(* the order of a map: of one table at most a part is taken.               *)
takeReqs(from, to) ==
  LET PartOf(t, r) == {x \in r : x.table = t} \notin {{}, {x \in from : x.table = t}}
      Fits(r) == Cardinality({t \in {x.table : x \in r} : PartOf(t, r)}) <= 1
  IN {to \cup r : r \in {s \in kSubset(Lower(Cardinality(from), MaxBatch - Cardinality(to)), from) : Fits(s)}}

(* Mutant: what a request leaves undone is forgotten.                      *)
UnprocessedMutant(reqs, left) == put.unprocessed \ reqs

(* unprocessed after a request of reqs left some of it undone.             *)
Unprocessed(reqs, left) == (put.unprocessed \ reqs) \cup left

(* One request of BatchWrite: all of it done, some of it or, throttled,    *)
(* all of it left, or an error, which is final; a request that failed may  *)
(* have been carried out.                                                  *)
BatchWriteItem ==
  /\ put.pc = "index"
  /\ put.outstanding \cup put.unprocessed # {} /\ put.retries < maxRetries
  /\ \E reqs \in UNION {takeReqs(put.outstanding, r) : r \in takeReqs(put.unprocessed, {})} :
       \/ /\ put' = [put EXCEPT !.outstanding = @ \ reqs, !.unprocessed = Unprocessed(reqs, {}),
                                !.retries = 0]
          /\ index' = index \cup reqs
          /\ UNCHANGED faults
       \/ \E left \in SUBSET reqs \ {{}, reqs} :
            /\ put' = [put EXCEPT !.outstanding = @ \ reqs, !.unprocessed = Unprocessed(reqs, left)]
            /\ index' = index \cup (reqs \ left)
            /\ UNCHANGED faults
       \/ /\ put' = [put EXCEPT !.outstanding = @ \ reqs, !.unprocessed = Unprocessed(reqs, reqs),
                                !.retries = @ + 1]
          /\ UNCHANGED <<index, faults>>
       \/ /\ Fault
          /\ put' = NoPut
          /\ index' \in {index, index \cup reqs}
  /\ UNCHANGED <<s3, cache, bgWrites, get, acked, puts>>

(* BatchWrite, and with it Put, returns.                                   *)
BatchWriteReturns ==
  /\ put.pc = "index"
  /\ \/ /\ put.outstanding \cup put.unprocessed = {}
        /\ acked' = acked \cup put.chunks
     \/ /\ put.outstanding \cup put.unprocessed # {} /\ put.retries = maxRetries
        /\ UNCHANGED acked
  /\ put' = NoPut
  /\ UNCHANGED <<s3, index, cache, bgWrites, get, puts, faults>>

-----------------------------------------------------------------------------
(* Get. A matcher is the label it is about, whether it is an equality, and *)
(* the values it accepts.                                                  *)

Match(m, x) == x \in m.accepts

(* SplitFiltersAndMatchers: a matcher that accepts a missing label cannot  *)
(* be looked up. *)
filters(q) == {m \in q.matchers : Match(m, "")}
matchers(q) == q.matchers \ filters(q)

LabelOf(c, k) == IF k \in DOMAIN c.labels THEN c.labels[k] ELSE ""

AnyMatcher == [label |-> "", equal |-> FALSE, accepts |-> {}]

(* The read entries of each matcher, or of the metric when there is none.  *)
ReadEntries(q, m) ==
  IF m = AnyMatcher THEN GetReadEntriesForMetric(q.from, q.through, q.metric)
  ELSE IF m.equal
  THEN GetReadEntriesForMetricLabelValue(q.from, q.through, q.metric, m.label, CHOOSE x \in m.accepts : TRUE)
  ELSE GetReadEntriesForMetricLabel(q.from, q.through, q.metric, m.label)

Looked(q) == IF matchers(q) = {} THEN {AnyMatcher} ELSE matchers(q)
Lookups(q) == UNION {{<<m, e>> : e \in ReadEntries(q, m)} : m \in Looked(q)}

(* processResponse: the chunks of the rows whose label value matches, and  *)
(* the sort and unique of lookupEntry after it. *)
processResponse(rows, m) ==
  LET kept == SetToSeq({r \in rows : m = AnyMatcher \/ Match(m, parseRangeValue(r).value)})
  IN unique(SortSeq([i \in DOMAIN kept |-> parseRangeValue(kept[i]).id], <))

Get(q) ==
  /\ get.pc \in {"idle", "done"}
  /\ LET lookups == Lookups(q)
     IN get' = [NoGet EXCEPT !.pc = "lookup", !.q = q, !.pending = lookups, !.before = acked,
                             !.sets = [m \in {l[1] : l \in lookups} |-> << >>]]
  /\ UNCHANGED <<s3, index, cache, bgWrites, put, acked, puts, faults>>

(* What QueryPages may hand on of the rows when it is throttled: it does   *)
(* not send the page again but goes on to the next one, finds none, and    *)
(* returns without an error. All pages are lost, or the last one.          *)
QueryPages(rows) == {{}} \cup {rows \ {r} : r \in rows}

(* One query of the index, for one read entry of one matcher.              *)
lookupEntry(l) ==
  /\ get.pc = "lookup" /\ l \in get.pending
  /\ LET rows == {r \in index : Matches(r, l[2])}
         Found(rs) == merge(get.sets[l[1]], processResponse(rs, l[1]))
     IN \/ /\ get' = [get EXCEPT !.pending = @ \ {l}, !.sets[l[1]] = Found(rows)]
           /\ UNCHANGED faults
        \/ /\ Fault
           /\ \E rs \in QueryPages(rows) :
                get' = [get EXCEPT !.pending = @ \ {l}, !.sets[l[1]] = Found(rs), !.throttled = TRUE]
        \/ /\ Fault
           /\ get' = [get EXCEPT !.pending = @ \ {l}, !.err = TRUE]
  /\ UNCHANGED <<s3, index, cache, bgWrites, put, acked, puts>>

(* The keys lookupMatchers returns, the lists in the order they came in,   *)
(* and of these the chunks that overlap the interval of the query.         *)
Overlapping(q, ids) ==
  SelectSeq(ids, LAMBDA k : ~(Chunk[k].through < q.from \/ q.through < Chunk[k].from))

(* Mutant: a full buffer blocks the writer.                                *)
BackgroundWriteMutant(bg, ids) ==
  IF Len(bg) + Len(ids) > WriteBackBuffer THEN {} ELSE {bg \o ids}

(* BackgroundWrite of a list: what finds the buffer full is dropped.       *)
BackgroundWrite(bg, ids) ==
  {bg \o SubSeq(ids, 1, Lower(Len(ids), WriteBackBuffer - Len(bg)))}

(* Every chunk is asked for; one that S3 does not have is an error.        *)
fetchChunkData(ids) == ToSet(ids) \subseteq s3

(* The rest of Get: what memcache does not have (everything, when it       *)
(* fails) comes from S3 and is written back. An error of S3 ends it.       *)
fetchChunks ==
  /\ get.pc = "lookup" /\ get.pending = {}
  /\ IF get.err THEN get' = [get EXCEPT !.pc = "done"] /\ UNCHANGED <<bgWrites, faults>>
     ELSE \E order \in SetToSeqs(DOMAIN get.sets) :
       LET ids == Overlapping(get.q, nWayIntersect([i \in DOMAIN order |-> get.sets[order[i]]]))
           missing == SelectSeq(ids, LAMBDA k : k \notin cache)
           Passes(k) == \A m \in filters(get.q) : Match(m, LabelOf(Chunk[k], m.label))
           Fetched(ms) ==
             IF fetchChunkData(ms)
             THEN /\ get' = [get EXCEPT !.pc = "done", !.result = SelectSeq(ids, Passes)]
                  /\ bgWrites' \in BackgroundWrite(bgWrites, ms)
             ELSE get' = [get EXCEPT !.pc = "done", !.err = TRUE] /\ UNCHANGED bgWrites
       IN \/ Fetched(missing) /\ UNCHANGED faults
          \/ Fault /\ Fetched(ids)
          \/ Fault /\ get' = [get EXCEPT !.pc = "done", !.err = TRUE] /\ UNCHANGED bgWrites
  /\ UNCHANGED <<s3, index, cache, put, acked, puts>>

-----------------------------------------------------------------------------
(* The cache.                                                              *)

(* A turn of writeBackLoop; an error is only logged here too. The loop     *)
(* may have been stopped, whatever is left in bgWrites: nothing says that  *)
(* it ever takes another turn.                                             *)
writeBack ==
  /\ bgWrites # << >>
  /\ bgWrites' = Tail(bgWrites)
  /\ cache' = cache \cup {Head(bgWrites)}
  /\ UNCHANGED <<s3, index, put, get, acked, puts, faults>>

(* An item of memcache expires or is damaged, which its checksum tells and *)
(* FetchChunkData takes for a miss.                                        *)
CacheItemGoes(k) ==
  /\ k \in cache
  /\ cache' = cache \ {k}
  /\ UNCHANGED <<s3, index, bgWrites, put, get, acked, puts, faults>>
====
