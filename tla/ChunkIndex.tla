----------------------------- MODULE ChunkIndex -----------------------------
(***************************************************************************)
(* The chunk store and the manager of the tables its index lives in. Both  *)
(* work by the same schema; they meet only in DynamoDB, so a behaviour has *)
(* one of them, chosen at first: the manager, whose tables must be those   *)
(* the store writes to, or the store with tables that are there. Of the    *)
(* store there are three kinds of behaviours: calls of Put; calls of Get   *)
(* while a Put runs, with an earlier chunk stored; and a store with one    *)
(* chunk, of any shape, that is asked about it by any query.               *)
(***************************************************************************)
EXTENDS ChunkStore, TableManager

CONSTANTS
  AnyQueries   \* the queries to try on one chunk of any shape

VARIABLE job   \* "put", "get", "schema" or "tables"

vars == <<storeVars, tableVars, job>>

Init ==
  /\ TableInit
  /\ \/ job = "tables" /\ StoreInit({})
     \/ job = "put" /\ now = 0 /\ StoreInit({})
     \/ job = "get" /\ now = 0 /\ StoreInit(Earlier)
     \/ job = "schema" /\ now = 0 /\ \E k \in Keys : StoreInit({k})

StoreStep(A) == job \in {"put", "get"} /\ A /\ UNCHANGED <<tableVars, job>>
GetStep(A) == job = "get" /\ StoreStep(A)
TableStep(A) == job = "tables" /\ A /\ UNCHANGED <<storeVars, job>>

PutGoesOn ==
  \/ StoreStep(\E k \in put.todo : putChunk(k)) \/ StoreStep(updateIndex)
  \/ StoreStep(BatchWriteItem) \/ StoreStep(BatchWriteReturns)
GetGoesOn == GetStep(\E l \in get.pending : lookupEntry(l)) \/ GetStep(fetchChunks)
SyncGoesOn ==
  \/ TableStep(syncTables) \/ TableStep(syncDone)
  \/ \E i \in sync.toCreate : TableStep(createTables(i))
  \/ \E i \in sync.toCheck : TableStep(updateTables(i))

Next ==
  \/ \E ks \in SUBSET Fresh \ {{}} : (job = "get" => puts = 0 /\ Cardinality(ks) = 1) /\ StoreStep(Put(ks))
  \/ PutGoesOn
  \/ \E q \in Queries : GetStep(Get(q))
  \/ GetGoesOn
  \/ GetStep(writeBack)
  \/ \E k \in cache : GetStep(CacheItemGoes(k))
  \/ SyncGoesOn
  \/ TableStep(Restart) \/ TableStep(TableTick)
  \/ \E i \in DOMAIN tables : TableStep(TableActive(i))

(* A call goes on until it returns, the manager polls, and DynamoDB gets   *)
(* done what it was asked.                                                 *)
Fairness ==
  /\ WF_vars(PutGoesOn)
  /\ WF_vars(GetGoesOn)
  /\ WF_vars(SyncGoesOn)
  /\ WF_vars(\E i \in DOMAIN tables : TableStep(TableActive(i)))

Spec == Init /\ [][Next]_vars /\ Fairness
-----------------------------------------------------------------------------
(* Query q asks for chunk k.                                               *)
Asks(q, k) ==
  /\ Chunk[k].metric = q.metric
  /\ Chunk[k].from <= q.through /\ q.from <= Chunk[k].through
  /\ \A m \in q.matchers : Match(m, LabelOf(Chunk[k], m.label))

(* TypeOK: the variables have the values the code gives them.              *)
TypeOK ==
  /\ s3 \subseteq Keys /\ acked \subseteq Keys
  /\ cache \subseteq Keys
  /\ Len(bgWrites) <= WriteBackBuffer /\ ToSet(bgWrites) \subseteq Keys
  /\ put.pc \in {"idle", "s3", "index"} /\ put.retries \in 0..maxRetries
  /\ get.pc \in {"idle", "lookup", "done"}
  /\ puts \in 0..MaxPuts /\ faults \in 0..MaxFaults
  /\ now \in 0..MaxTime /\ age \in 0..CreationGracePeriod /\ ticked \in BOOLEAN
  /\ sync.pc \in {"idle", "busy"} /\ sync.age \in 0..CreationGracePeriod
  /\ \A i \in DOMAIN tables :
       tables[i] \in [status : {"CREATING", "UPDATING", "ACTIVE"}, capacity : {"active", "inactive"}]

(* IndexHasData: the types, and a row is in the index only when the data   *)
(* of its chunk is in S3, also when the writes of other chunks of the call *)
(* failed (chunk_store.go, Put: putChunks, then updateIndex).              *)
IndexHasData == TypeOK /\ \A r \in index : parseRangeValue(r).id \in s3

(* AckedIsIndexed: once Put has returned without an error every query that *)
(* asks for one of its chunks finds it in the index, whichever versions of *)
(* the schema and whichever buckets and tables the chunk and the query     *)
(* span, and however often requests were throttled or left unprocessed.    *)
AckedIsIndexed ==
  \A k \in acked, q \in IF job = "schema" THEN AnyQueries ELSE Queries :
    Asks(q, k) => \A m \in Looked(q) :
      \E e \in ReadEntries(q, m), r \in index :
        /\ Matches(r, e) /\ parseRangeValue(r).id = k
        /\ m = AnyMatcher \/ Match(m, parseRangeValue(r).value)

(* GetIsRight: a Get that returns without an error has the chunks that     *)
(* were stored before it began, unless a request of it was throttled, and  *)
(* no other chunks than those asked for, each once and in order, whatever  *)
(* Put and the cache do meanwhile.                                         *)
GetIsRight ==
  get.pc = "done" /\ ~get.err =>
    /\ \A k \in ToSet(get.result) : Asks(get.q, k)
    /\ \A k \in get.before : Asks(get.q, k) /\ ~get.throttled => k \in ToSet(get.result)
    /\ \A i \in 1..(Len(get.result) - 1) : get.result[i] < get.result[i + 1]

(* CallsReturn: Put and Get end, given that DynamoDB does something of     *)
(* what it is asked: throttling ends in an error after maxRetries, and a   *)
(* full write-back buffer does not hold up a Get, even when the cache was  *)
(* stopped.                                                                *)
CallsReturn ==
  /\ []<>(put.pc = "idle")
  /\ []<>(get.pc # "lookup")

(* TablesReady: the tables of every time a chunk flushed now can have      *)
(* samples of are there, and have write throughput, when they are needed:  *)
(* the manager makes by number the tables the schema writes to by bucket.  *)
WrittenTables ==
  UNION {{tableForBucket((t \div Hour) * Hour), tableForBucket((t \div Day) * Day)} :
           t \in Higher(0, now - MaxChunkAge)..now}
TablesReady ==
  job = "tables" /\ ticked =>
    \A i \in WrittenTables :
      i \in DOMAIN tables /\ tables[i].status # "CREATING" /\ tables[i].capacity = "active"

(* OldTablesIdle: periodic tables nothing is written to any more lose      *)
(* their write throughput, though a sync skips the tables DynamoDB is at   *)
(* work on and ends at the first error. (The legacy table has a rule of    *)
(* its own.)                                                               *)
OldActive ==
  {i \in DOMAIN tables \ {LegacyTable} :
     /\ now >= (i + 1) * TablePeriod + CreationGracePeriod + MaxChunkAge
     /\ tables[i].capacity = "active"}
OldTablesIdle == []<>(OldActive = {})
====
