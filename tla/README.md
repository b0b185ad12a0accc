# Cortex in TLA+

Specifications of Cortex, the multi-tenant Prometheus service in `src/`: TLA+
modules translated from the Go code, TLC configurations that check them on small
instances, and proofs checked by TLAPS. `PROJECT.json` maps every definition to
its lines and lists components, runs, mutants, hazards, findings and theorems.

## The system

Samples come in at a **distributor**, which finds the ingesters of each sample in
the **ring** and sends it to all of them, waiting for a quorum. The ring is one
value in **Consul**: the registered ingesters with their states and tokens. All
ingesters change it, through `CAS`; distributors watch it. An **ingester** appends samples to chunks
in memory, flushes chunks that are old or idle to the **chunk store** (DynamoDB
and S3, with memcached in front), and, when told to stop, hands its chunks and
tokens over to a PENDING ingester or flushes everything. The **table manager**
creates the chunk store's tables. Queries go to the **querier**, which merges
what the distributor reads from the ingesters with what the chunk store has. The
**ruler** evaluates recording rules and the **alertmanager** sends alerts, per
user, from configurations they poll from the **configs** service.

| part | source | module | status |
|---|---|---|---|
| distributor, writing | `distributor/distributor.go` | `DistributorPush` | modelled, proved |
| distributor, reading | same | `DistributorQuery` | `Query`, `forAllIngesters` and the listings modelled, proved |
| ring descriptor, lookup | `ring/{model,ring,util}.go` | `RingDesc`, `RingLookup` | lookup modelled; `Ready`, metrics not |
| Consul client | `ring/consul_client.go` | `ConsulCAS`, `AtomicUpdate` | `CAS` modelled, proved |
| ingester lifecycle, hand-over | `ingester/ingester_{lifecycle,claim}.go` | `IngesterLifecycle` | modelled but for `isReady`; its entries and data proved |
| ingester memory, flush | `ingester/{ingester,series,ingester_flush}.go`, `util/priority_queue.go` | `IngesterFlush` | modelled but for `samplesForRange`, proved |
| users, series, mapper, index | `ingester/{user_state,mapper,index,locker,series_map}.go` | `UserStates` | modelled, proved |
| chunk store, cache, AWS client | `chunk/{chunk_store,by_key,chunk_cache,aws_storage_client}.go` | `ChunkStore`, `ByKey` | modelled but for encodings |
| schema | `chunk/schema.go` | `Schema` | modelled |
| table manager | `chunk/table_manager.go` | `TableManager` | modelled |
| configs | `configs/{api,client,db}` | `ConfigService` | setting and polling modelled |
| ruler | `ruler/*.go` | `Ruler`, `SchedulingQueue`, `KeyedQueue` | modelled but for the evaluation of rules |
| alertmanager | `alertmanager/{multitenant,alertmanager}.go` | `Alertmanagers` | modelled but for the library |
| querier | `querier/*.go` | | not modelled |
| HTTP pages, flags, conversions, tools, `main` functions | | | I/O and wiring, not modelled |

## Modules

**DistributorPush** is one call of `Push`. `Dispatch` is the body up to the start
of the goroutines, for any result of the ring lookup and any choice of dead
replicas. `SendOk` and `SendFailed` are the RPC of one `sendSamples` goroutine;
`CountSuccess`, `CountFailure`, `CompleteSample` and `FailSample` its atomic increments, one step
each; `ReturnOk` and `ReturnErr` the rendezvous on the unbuffered channels. A
failed RPC leaves any part of its batch stored. The samples of all models are
valid ones: a sample that `ValidateSample` refuses is answered with `nil` and dropped
(ingester.go:294-298), which changes nothing, and what is said of acknowledged
samples does not hold of it.

**DistributorQuery** is one call of `Query` with its goroutine per replica. Writes go
on meanwhile (`Ingest`). What it assumes of acknowledged samples is what is
proved of `Push`. This is sound while read and write replicas of the key are the
same; `ring_quorum` shows what happens when they are not. It is about samples that
stay in memory while the call lasts: a flush removes what the chunk store has
(`IngesterFlush`), which the querier asks at the same time. Whether a query can ask
the chunk store before the flush and the ingesters after it is a question for the
querier, which is not modelled. Instead of a query the
call may be `forAllIngesters`: it asks the ingesters of `GetAll`, any set of
them, one goroutine each (`Respond`, `RespondErr`), waits for all and compares the
errors with half the replication factor (`ReturnAll`).

**RingDesc** holds the operations on a `Desc` as operators; token generation may
draw a token twice in one call, as the code may. **RingLookup** has `getInternal` as
a fold over the tokens, and the set of rings that sequences of CAS callbacks can make,
with a reference definition of lookup.

**AtomicUpdate** is what `CAS` promises, **ConsulCAS** how it is done: `Get`,
then a conditional write, with errors on either side, lost answers, retries and
deletion of the key. Consul itself is external; its index is taken to grow for ever,
also when the key is lost.

**IngesterLifecycle** is several ingesters and the ring. Each change of the ring is
one step, which `ConsulCAS` justifies. `initRing`, `autoJoin`, `Heartbeat` and
`changeState` are the loop; `Terminate` to `Exit` the shutdown; `Connect`,
`NextSeries`, `SendSeries` and `CloseAndRecv` are `transferChunks`, and
`ClaimTokensFor`, `Activate`, `Install` the handler `TransferChunks`. `Watch` is
a distributor's copy of the ring, which may be old. `Crash`, `forget` and `Wipe`
are process, operator and Consul; `forget` takes any registered ingester, as the
page does. `evicted` remembers that a running one was forgotten and is read by
properties only. Two facts about libraries shape it: `Server.Run`
returns after `GracefulStop`, so that no RPC is served once `Shutdown`
begins and a handler in progress ends first; and `CloseAndRecv` of a gRPC
client stream returns only when the handler has returned.

**IngesterFlush** is the inside of one ingester: `Push` (memorySeries.add),
`Sweep`, and for each flush queue a goroutine with `Dequeue`, `TakeChunks` under
the lock, `PutOk` or `PutFails` without it, `TrimChunks` under it, `Retry`. The
double-delta encoding of a chunk (external) is a capacity, plus its one
rejection: a second sample older than the first. Which series shares a queue with
which, and the timestamps samples may have, are chosen at the start (`Settings`).

**UserStates** is how that ingester finds and makes its series, lock by lock.
`getOrCreateSeries` to `append` is a push: `us.mtx`, the raw fingerprint (`lockRaw`,
with `mapFP` and `addMapping`), the mapped one (`lockFP`), the two limits, the map
and the index. `flushUserSeries` to `uncountSeries` is a flush with the three parts of
`removeSeries`; `getOrCreate`, `lookupSeries` and `forSeriesMatching` a query. User
states are objects (`heap`), because a goroutine may hold one that `gc` has
removed. `fpLocker` holds locks of mutexes, not fingerprints: two of these may share
one.

**Schema** has the six versions of the index as operators: the buckets and
tables of an interval, the rows a chunk is written to, the read entries of a
query, the parsing of a row. Its label values have no zero byte (`originalEntries`
refuses these with an error, schema.go:392-394 and 425-427). **ByKey** are the operations on sorted lists.
**ChunkStore** is one `Put` (S3 chunk by chunk, then `BatchWriteItem` until nothing
is outstanding) against one `Get` (a `lookupEntry` per read entry, then
`fetchChunks`), and the cache. Every request may fail, be throttled or be
carried out in part. **TableManager** is `loop`: a sync reads the clock, then makes
one request after the other while time passes and DynamoDB works. **ChunkIndex**
composes them; the manager and the store share the schema, and `TablesReady` is
about both.

**ConfigService** is the service and the poll loop that its clients share. Ids may be
committed in another order than they were given out, and an answer may lack rows:
`findConfigs` does not look at `rows.Err` (postgres.go:76-90). **Ruler**
is the scheduler, its queue, the workers and `Server.Stop`. `Server.run` starts the
workers with a pointer to its loop variable, which all of them share as Go 1.8 has
it (`build/Dockerfile`). `spawned` is what that variable holds; a goroutine reads
the `terminated` it will close when it starts (`Start`) and `done` each time it looks (`checkDone`).
**SchedulingQueue** is the
heap with its map of positions, as operators on `queueState`, and **KeyedQueue** what
such a queue promises. **Alertmanagers** is `MultitenantAlertmanager`. `channels` are
the gossip channels of the mesh router, which are never removed; registering one a second time
panics (`DuplicateChannel`), and the process is started again, as `k8s/alertmanager-dep.yaml`
(a Deployment) has it. The mesh has no peers in that file and none in the model: with peers the
router can know a user's channel before its first Alertmanager.
**ConfigClients** composes the service with either client, which cannot see each
other, and also runs the queue alone with more keys.

`MC*` modules add symmetry sets and constant functions. `*Mutant` definitions are
small plausible faults, each shown to break a property.

## Runs

| run | instance | shows |
|---|---|---|
| `push` | 3 ingesters, 2 samples, factor 3, fair | success means a quorum has each sample; an error means none can; one goroutine meets the caller and none stays behind; `Push` returns if no replica was dead |
| `query` | 4 ingesters, 1 sample, factor 3, fair | a successful query or listing has all that was acknowledged; the call returns, no goroutine stays behind |
| `ring` | 3 ingesters, 2 tokens each, 4 token values | lookups are the nearest ingesters; one change moves one replica |
| `cas` | 3 clients, 2 attempts, 1 deletion | `ConsulCAS` implements `AtomicUpdate` |
| `flush` | 2 series, 1 or 2 queues, 2 samples, chunks of 2, fair | nothing acknowledged is lost; what is dropped is what was written; every acknowledged sample is stored; shutdown ends |
| `lifecycle` | 3 ingesters, 1 series, streams may break | no loss by joins, hand-overs, departures; tokens follow |
| `lifecycle_crash` | 2 ingesters, 1 series, 1 crash, Consul errors, `forget` | loss only of what the crashed one held; the ring stays well-formed unless a running ingester is forgotten; states only move forward |
| `lifecycle_live` | 2 ingesters, 1 series, streams may break, 1 loss of the ring, fair | who is told to stop stops; who is new joins, unless a hand-over to it breaks off; heartbeats rebuild the ring |
| `series` | 2 pushes at once, 3 samples, 4 metrics (2 with one fingerprint, 2 mutexes shared), 1 flush, 1 query, user limits 1 and 3, metric limit 2 | one series per metric; index, counts and map agree; the limit is overshot by at most one series per other push; nothing accepted goes to a removed series or state; a query sees what was accepted before; nobody waits for ever |
| `index` | `Put`s of 2 chunks with batches of 3; a `Get` against a `Put`; 48 shapes of chunks against queries of every start, 3 lengths and 3 matchers over all 6 versions; 13 ticks of the table manager, 1 failure, fair | a row has its data; what was put is found; `Get` is exact; calls return; tables are there and writable in time, and idle afterwards |
| `configs` | 2 users, 4 configurations, 2 changes, 1 failure, 1 or 2 workers; queue alone with 4 keys, fair | the heap implements `KeyedQueue`; no user is dropped; rules are evaluated again and again; the newest configuration arrives, in spite of panics; shutdown ends with one worker, and leaves no worker and no recorded Alertmanager running |

Types are checked as the first conjunct of one invariant of each model
(`TakenChunksStable`, `RingWellFormed`, `AllStopped`, `IndexHasData`, `StateAgrees`);
those of `DistributorPush`, `DistributorQuery` and `ConsulCAS` are proved.
`ring` and `ring_quorum` (below) share a model.

**Bounds.** Up to three replicas cover the quorums of 1, 2 and 3, and with two of
three ingesters the two samples of a request can have different replicas; the
proofs cover all other sizes. Two samples let one complete while the other
fails. Four ingesters give the query an even number of replicas. Three ingesters
let two leave at once for one target. Chunks of 2 samples give a full head and,
with a head closed for a flush, a chunk opened while another is being written. The clock of
`flush` runs until every chunk would be idle. With age 1, idle 0 and the times 0 and 2 each
of both rules decides: at 1 a chunk is idle and not old, at 2 one with samples of 0 and 2
is old and not idle. Two tokens each make
ingesters alternate on the ring; duplicates within one draw are included. Two
attempts suffice to use a stale index. `MaxFrom` caps the priority of retried
flushes, which only orders them. In `series` the first two samples can collide,
and the third can come before or after the first series is gone; with limits of 1 and 3 per user and
2 per metric each of the two refuses. In `index` an hour is one tick, a day two and a table two days, so that chunks
of up to four ticks and the queries cross every kind of edge, and each version
of the schema has one day before the next; a batch of 3 is smaller than what
one `Put` writes. In `configs` the interval is two ticks and nobody is later than
one. Two workers are enough for the second to replace the first in the loop variable. Four keys give the heap three levels. Deadlock is not checked: every model ends when
its call has returned or all processes have gone.

**Limits of these runs.** `StaleWrites` is FALSE in `lifecycle_crash`. An
ingester that crashed, was unregistered and comes back under its old id can be
written to by distributors with an old ring, since `append` does not look at the
state; a hand-over then drops these samples, and `NoAckedLoss` fails. The order
of events is recorded as a hazard. `TokensAgree` is checked without
crashes and Consul errors, which do break it (`ClaimTokensFor` logs the error of
CAS and keeps tokens the ring may not have). `lifecycle_crash` has one series;
what it shows of the data and of the states is proved for any number.

`TransitionsEnd` excepts an ingester that is JOINING with no hand-over going on
(`Abandoned`): nothing takes it further. In the run only broken streams lead there;
`ConsulErrors` is FALSE, with which a failed `changeState` would be another way.
`RingRecovers` excepts the ingester whose tokens the receiver of an earlier,
abandoned hand-over has claimed or is about to claim (`Claimed`), and `RingWellFormed` a ring from which a
running ingester was forgotten: the next section has all three. `StopEnds`
is about one worker, which is the default of `ruler.num-workers` and what
`k8s/ruler-dep.yaml` runs.

Completeness in `GetIsRight` is claimed of calls that were not throttled, and
`ListsAcked` of replica sets that are full and were asked in full: the next section has
the other cases. `CallsReturn` assumes that DynamoDB processes something of a
request it does not reject, `TablesReady` that syncs succeed at least once per
grace period and that a table is made within a tick, and speaks of the time after the first. The periodic tables start on a table boundary.

**Fairness.** Weak fairness for goroutines, since the Go scheduler runs what can
run; for tickers and deadlines, since they fire; for RPCs, which end by
`RemoteTimeout` or the query's context. Strong fairness for the chunk
store's success (`PutOk`): a write that is tried again and again succeeds
some time; for a worker waiting at the queue's channel, since Go serves
receivers in their order; and for `stop` in the poller's `select`, which picks
among ready cases at random. Failures of requests are bounded by constants.
Most liveness properties are recurrences (`[]<>`): that a call has ended, or that all
that was acknowledged is stored, is the case again and again, which gives the leads-to of each
call and each sample and is cheaper to check.
Nothing is assumed of crashes, wipes, pushes, restarts or signals, nor of the cache's
write-back loop.

## Disagreements between comments and code

One has a run that checks what the comment says, and TLC refutes it:
`ring_quorum`. "This means we have to also increase the size of the replica set
for read" (ring.go:174-175), but a LEAVING ingester counts to the limit of reads: a read quorum can miss a write quorum while an
ingester leaves.

Others were met in modelling. The models do what the code does; no run is kept
for the comment.

- Too many failed ingesters "will cause the whole write to fail"
  (distributor.go:310-312). With one replica skipped as dead and one failing,
  `maxFailures` is never exceeded and `Push` waits for ever. Hence the
  condition in `PushEnds`.
- A flush that fails on exit is put "back in the queue" (ingester_flush.go:116-117).
  The queue is closed by then, and `Enqueue` panics (priority_queue.go:76).
- `queryIngesters` asks replicas whose heartbeat timed out, which ring.go:53 says
  are "skipped for reads/writes".
- Closing the flush queues does not "wait for chunks to be flushed"
  (ingester_lifecycle.go:202): the ingester unregisters first.
- `add` never updates `lastTime`, so chunks of a series can overlap, which
  series.go:28 forbids.
- A leaving ingester without series hands over no tokens: its id travels with a
  series (ingester_claim.go:55). Hence `named` in `HandoverMovesTokens`.
- A series flushed between `iter()` and its lock is sent without chunks, and
  `setChunks` panics in the receiver (series.go:168; action `SendEmptySeries`).
- The server of a LEAVING ingester has stopped, although ring.go:175 says that "we
  can read from Leaving ingesters".
- `index` in `CAS` is not 0 for a missing key when an earlier attempt found one
  (consul_client.go:145).
- `countTokens` credits an ingester with the range after its tokens, while `search`
  gives it the range before them.
- `forAllIngesters` counts no error for ingesters without a recent heartbeat, and
  with fewer replicas than the replication factor half of that may be all of
  them: the listing is then incomplete without an error.
- A worker puts an item back over a newer one of the same user
  (scheduler.go:218), "replacing" it as 191 says. The next full poll offers the
  newer one again; when polls and evaluations stay in step it may lose each time.
- "Worker does a thing until it's told to stop" (ruler.go:298), but `go w.Run()` in a loop
  over `w` (284-286) gives all goroutines the same pointer. With two or more workers they
  all look at the `done` of the last, and `Server.Stop`, which waits for the first
  before it closes the second's, never returns once the loop is over.
- `Server.Stop` waits for workers that wait for an item: with an empty queue it does
  not return (ruler.go:293). `StopEnds` therefore supposes that some user has rules.
  `scheduler.Stop` closes the queue under a poll that may be adding to it, which
  panics (scheduler.go:118).
- `getConfigs` tests an `err` that its branch shadows (api.go:176-185): a failed
  database is answered with no configurations. This is harmless because a client that
  gets none asks for everything next.
- An Alertmanager that fails to start or refuses its first configuration is not
  recorded, and is never stopped (multitenant.go:239-247). The next full poll calls `New` for the user
  again, with the same names of gossip channels, and `NewGossip` panics
  (vendor/github.com/weaveworks/mesh/router.go:135-136): all users lose their
  Alertmanagers until the process is back, and again with the second poll after that if the configuration is
  still refused. `ConfigArrives` holds in the intervals. A refused update is
  recorded and not tried again (259). The inhibitor is not stopped by `Stop`.
- An ingester whose hand-over breaks off stays JOINING (ingester_claim.go:48): it has left
  PENDING, so that the timer of `autoJoin` does nothing, and no sender looks for it.
- `forget` removes any ingester (http.go:68-79). One that runs comes back with its next
  heartbeat with its tokens (ingester_lifecycle.go:284-287), which others may have drawn meanwhile; and
  one that is forgotten while it is JOINING is given tokens without having an entry.
- The receiver of a hand-over that the sender has given up still claims all tokens registered under the sender's id,
  also when that id has started anew (ingester_lifecycle.go:84-110).
- `QueryPages` goes on to the next page after a throttled one, finds none and
  returns what it has, without an error (aws_storage_client.go:255).
- In versions 1 to 3 of the schema a metric without labels has no rows; from
  version 4 on, hash keys of a metric whose name contains a colon can coincide with those of
  a metric and a label.
- If `PeriodicTableStartAt` is not on a table boundary the legacy table loses its
  throughput before the switch, against the comment (table_manager.go:243-244).
- `forSeriesMatching` can hand on a series that does not match, when its fingerprint was
  given to another metric between the lookup and the lock.

## Proofs

**DistributorPushProofs**, for every finite set of ingesters, number of samples and
replication factor. `AckedMeansQuorum`, `OneChannelWrite` and `ErrMeansNoQuorum`
are not inductive: they speak of the moment of return, while what matters is
what the counters mean before. `IInv` says it. `succeeded` and `failed` are the
numbers of goroutines that have visited the sample's tracker with that outcome
(`CountersCount`). `samplesPending` is the number of incomplete samples plus that of
goroutines between the two increments (`DoneInv`), so only one of them can
bring it to zero. `samplesFailed` is positive only if some sample has more
failures than it may (`ErrInv`), and a sample cannot have both a quorum and too many failures (lemma
`NotBoth`), so `done` and `err` are not both written.

**DistributorQueryProofs**, for every finite set of ingesters. `IInv`: merged
answers come from distinct replicas, and for every acknowledged sample there is
a majority of replicas each of which holds it and, if it has answered, answered
with it. `MajoritiesMeet` then gives `ReadsAcked`. For listings it adds that every
ingester asked has answered, failed or is still being called, and that `numErrs` is the
number of failures; at most half the replication factor failed, so one of a
sample's majority has answered.

**ConsulCASProofs**, for every set of clients and any bounds on attempts and deletions. `IInv`: a client
whose index is the key's present index read the key's present value. With it
`CASOk` and `CASAnswerLost` map to `Update`, `Delete` to `Lose`, the rest to
`GiveUp` or a stutter.

**IngesterFlushProofs**, for every number of series, queues, samples and any sizes
and ages of chunks. `NoAckedLoss` and `TakenChunksStable` follow from `FlushInv`. What a
flush took are the first chunks of its series, closed if they are all (`Taken`):
only the goroutine of the series' queue takes chunks away (`Owned`), and `Push`
changes the last chunk only while it is open. An acknowledged sample is in
memory or stored (`Kept`). That memory may go at the end needs `Closing` and `Leaving`: after
Quit every series with chunks is still to be swept, waits in its queue, or is in
the hands of a flush that took all of them; a queue that its goroutine has left is
closed and empty. `TrimChunks` then drops what is stored and nothing else (lemma `Trim`).

**IngesterLifecycleProofs**, for every set of ingesters, data and tokens, with broken streams,
errors of Consul and operators that forget ingesters. Neither result depends on the tokens: only on
the entries of the ring.

- `RingMovesForward` (theorem `EntriesMoveForward`) holds without any hypothesis. It needs `Behind`: no
  entry is further than its process. Then a heartbeat or `changeState`, which write what
  the process has reached, cannot move an entry back, nor can a process that starts anew and
  takes its state from the ring.
- `NoAckedLoss` (theorem `AckedIsSafe`) follows from `LifeInv`. What a receiver had in memory is dropped when it
  installs the chunks it got, so nothing may be there: before it is ACTIVE no distributor
  writes to it (`Fresh`). The handler runs only in a process that still loops, JOINING until
  it activates itself and ACTIVE when it installs (`Receives`). What a sender has
  sent its receiver has staged, at the end all it had in memory (`Sends`), so the sender may drop
  it once the receiver is done. Then every acknowledged sample is in the store, lost
  with a crash, or in the memory of somebody who has not handed it over (`Kept`).
- `Fresh` fails if a distributor with an old copy of the ring writes to an id that registers anew after a
  crash: the second life begins as PENDING, takes the write, and drops it in a hand-over. The
  theorem therefore assumes `SafeRestarts`: with `StaleWrites` there are no
  crashes and no losses of the ring. Both lifecycle runs are such instances (`lifecycle` has stale writes,
  `lifecycle_crash` crashes); the hazard is listed in `PROJECT.json`.

Three modules are about `UserStates`, with the invariants in **UserInvariants**. They hold for every set of pushers,
flushers and metrics, any limits, any hash (metrics may share fingerprints at will) and any sharing of mutexes by
fingerprints. Each invariant the `series` run checks is proved, but for `NobodyStuck`.

**UserStatesProofs** is about what needs to count: the sorted lists of the index (`AddLists`,
`DeleteLists`), the object of a new state, which nobody uses (`NewIsUnused`), and the limit.
`SeriesLimit` is not inductive: a push that has passed the check
and not yet added its series must be counted. `LimitInv` says that the series of a
state and the pushes on it between check and `putSeries` are together at most
`MaxSeriesPerUser` - 1 + the number of pushes. A push that passes the check found
fewer series than the limit, and there are at most as many others pending as
other pushes; `putSeries` moves one from the second number to the first; a
removal lowers the first.

**UserSeriesProofs** has one lemma per step that says which fields it changes
(`PutSeriesDoes`...), and from these that each step keeps locks, mappings and
samples (`ControlStep`, `MappingStep`, `SamplesStep`):

- `ControlInv`: no lock has two owners; a push works on the user's present state, which
  `us.mtx` keeps from `gc`, and what it saw of the series at its fingerprint stays true while that is
  locked; a flush has its series until it removes it.
- `Mapping`: reserved fingerprints go to one metric each, and a series is where the mappings send its
  metric. `UniqueSeries` follows (`OneSeriesEach`), since the mappings of a state in use only grow.
- `Samples`: a series about to be removed has no samples, one just put has none
  yet, and what a flush is about to drop is owed no longer. Only older samples are in
  series, so that a sample stored once is not owed again. `AckedKept` is one of its conjuncts.

**UserContentsProofs** joins the two and adds index, counts and queries. Its theorems are
`MapInvariant`, `OneSeriesEach` (`UniqueSeries`), `ContentsInvariant`, `AcceptedStays` (`AckedKept`), `RecordsHold` (`StateAgrees`) and `QueryFindsAll` (`QueryComplete`).

- `Indexed`: the list under a label is exactly the series with it, without those a push has
  still to index and with those a flush has still to take out, in increasing order.
- `Counted`: the count of a name is the number of its series, of pushes about to
  put one and of flushes that have just removed one.
- `Asked`: each sample owed to a query that began is in its result or in a series
  it has still to visit, of the state that is still the user's.

The proofs assume only what the modules state in their ASSUMEs: finite sets of
processes, natural numbers for sizes, limits and fingerprints, a query with at
least one matcher; and `SafeRestarts` where it is named. Only model-checked:

- `RingWellFormed`, `TokensAgree` and `HandoverMovesTokens`, which are about the sorted and filtered
  sequences of tokens (`SortSeq`, `SelectSeq`), the lookup (a fold) and the chunk store's
  schema (recursive operators): what these compute for every input needs induction over data;
- the table manager, the configurations with their clients, and the refinement of
  `KeyedQueue` (its heap is recursive);
- `NobodyStuck` (ENABLED) and all liveness (fairness).

## Not modelled

- The querier: it asks the distributor and the chunk store in a goroutine each, receives
  from both whatever they return, and merges sorted samples for PromQL; iteration and
  floating-point values, no state beyond a query.
- The inside of libraries: chunk encodings, rule evaluation, notifiers, an
  Alertmanager's pipeline, the mesh, gRPC, SQL. What `src/` relies on is stated
  where a module uses it and marked external in the map.
- Encoding and decoding of chunks, requests and flags; HTTP handlers and pages;
  metrics and rates (`rate.go`, `UserStats`), which are floating-point averages.
- `samplesForRange`, label value lookups of the index and `isReady`, which read and
  change nothing.
- `WatchPrefix` and the backoff of watches, the cache of gRPC clients, and the choice
  of memcache servers: I/O loops around one call.
- Test doubles (`consul_client_mock.go`, `inmemory_storage_client.go`), `tools/` and the
  `main` functions, except for the order of their deferred calls.
