-------------------------- MODULE DistributorQuery --------------------------
(***************************************************************************)
(* One call of Distributor.Query (src/distributor/distributor.go), against *)
(* replicas that have taken writes as DistributorPush leaves them and go   *)
(* on taking them: one goroutine per replica asks its ingester, puts the   *)
(* answer into the buffered channel results or counts an error, and the    *)
(* call merges the first minSuccess answers. Or one call of                *)
(* forAllIngesters, which the listings of label values and of metrics and  *)
(* the statistics use: it asks everybody and waits for all.                *)
(***************************************************************************)
EXTENDS Integers, FiniteSets

CONSTANTS
  Ingesters,
  Samples,    \* the samples the query's matchers select
  ReplicationFactor

ASSUME QueryAssumption == IsFiniteSet(Ingesters) /\ ReplicationFactor \in Nat \ {0}

VARIABLES
  query,      \* the calling goroutine: where it is or what it returned
  replicas,   \* what ring.Get(Read) returned
  acked,      \* the samples acknowledged before the query began
  stored,     \* ingester -> the samples it holds
  worker,     \* ingester -> where the goroutine that asks it is
  resp,       \* ingester -> its answer
  results,    \* the ingesters whose answers are in the channel results
  merged,     \* the ingesters whose answers are in fpToSampleStream
  numErrs,    \* numErrs
  asked,      \* forAllIngesters: what ring.GetAll returned
  listed      \* forAllIngesters: the ingesters whose answers are in result

vars == <<query, replicas, acked, stored, worker, resp, results, merged, numErrs, asked, listed>>

(* Mutant: half of the replicas, rounded down.                             *)
minSuccessMutant == Cardinality(replicas) \div 2

minSuccess == (Cardinality(replicas) \div 2) + 1

maxErrs == Cardinality(replicas) - minSuccess

Holders(s) == {i \in replicas : s \in stored[i]}

(* An acknowledged sample is on more than half of its replicas: what       *)
(* PushAckedMeansQuorum proves of DistributorPush, while the replicas for  *)
(* reading are those for writing.                                          *)
Init ==
  /\ query = "start"
  /\ replicas \in SUBSET Ingesters
  /\ stored \in [Ingesters -> SUBSET Samples]
  /\ acked = {s \in Samples : 2 * Cardinality(Holders(s)) > Cardinality(replicas)}
  /\ worker = [i \in Ingesters |-> "none"]
  /\ resp = [i \in Ingesters |-> {}]
  /\ results = {}
  /\ merged = {}
  /\ numErrs = 0
  /\ asked = {}
  /\ listed = {}

(* No user, no metric name, an empty ring: the query fails at once.        *)
Refuse ==
  /\ query = "start"
  /\ query' = "refused"
  /\ UNCHANGED <<replicas, acked, stored, worker, resp, results, merged, numErrs, asked, listed>>

(* Otherwise every replica is asked, however old its heartbeat is.         *)
Start ==
  /\ query = "start"
  /\ Cardinality(replicas) >= minSuccess
  /\ query' = "wait"
  /\ worker' = [i \in Ingesters |-> IF i \in replicas THEN "rpc" ELSE "none"]
  /\ UNCHANGED <<replicas, acked, stored, resp, results, merged, numErrs, asked, listed>>

(* A sample of a later or unfinished write arrives. None leaves while the  *)
(* call lasts: a flush drops samples that are in the chunk store, which    *)
(* the querier asks for itself.                                            *)
Ingest(i, s) ==
  /\ s \notin stored[i]
  /\ stored' = [stored EXCEPT ![i] = @ \cup {s}]
  /\ UNCHANGED <<query, replicas, acked, worker, resp, results, merged, numErrs, asked, listed>>

(* queryIngester succeeds. There is room in the channel for every answer.  *)
Answer(i) ==
  /\ worker[i] = "rpc"
  /\ worker' = [worker EXCEPT ![i] = "exited"]
  /\ resp' = [resp EXCEPT ![i] = stored[i]]
  /\ results' = results \cup {i}
  /\ UNCHANGED <<query, replicas, acked, stored, merged, numErrs, asked, listed>>

(* Mutant: every error is reported, not only the one that is too many.     *)
FailMutant(i) ==
  /\ worker[i] = "rpc"
  /\ numErrs' = numErrs + 1
  /\ worker' = [worker EXCEPT ![i] = "errReceived<-"]
  /\ UNCHANGED <<query, replicas, acked, stored, resp, results, merged, asked, listed>>

(* atomic.AddInt32(&numErrs, 1) == int32(maxErrs+1) *)
Fail(i) ==
  /\ worker[i] = "rpc"
  /\ numErrs' = numErrs + 1
  /\ worker' = [worker EXCEPT ![i] = IF numErrs' = maxErrs + 1 THEN "errReceived<-" ELSE "exited"]
  /\ UNCHANGED <<query, replicas, acked, stored, resp, results, merged, asked, listed>>

(* The unbuffered channel errReceived. *)
ReturnErr(i) ==
  /\ query = "wait"
  /\ worker[i] = "errReceived<-"
  /\ query' = "err"
  /\ worker' = [worker EXCEPT ![i] = "exited"]
  /\ UNCHANGED <<replicas, acked, stored, resp, results, merged, numErrs, asked, listed>>

(* An answer is merged; after minSuccess of them the call returns.         *)
Merge(i) ==
  /\ query = "wait"
  /\ i \in results
  /\ results' = results \ {i}
  /\ merged' = merged \cup {i}
  /\ query' = IF Cardinality(merged') = minSuccess THEN "ok" ELSE "wait"
  /\ UNCHANGED <<replicas, acked, stored, worker, resp, numErrs, asked, listed>>

-----------------------------------------------------------------------------
(* forAllIngesters. Its channels are unbuffered, and all are received.     *)

(* GetAll leaves out the ingesters without a recent heartbeat.             *)
forAllIngesters ==
  /\ query = "start"
  /\ asked' \in SUBSET Ingesters
  /\ query' = "all"
  /\ worker' = [i \in Ingesters |-> IF i \in asked' THEN "call" ELSE "none"]
  /\ UNCHANGED <<replicas, acked, stored, resp, results, merged, numErrs, listed>>

Respond(i) ==
  /\ worker[i] = "call"
  /\ worker' = [worker EXCEPT ![i] = "exited"]
  /\ resp' = [resp EXCEPT ![i] = stored[i]]
  /\ listed' = listed \cup {i}
  /\ UNCHANGED <<query, replicas, acked, stored, results, merged, numErrs, asked>>

RespondErr(i) ==
  /\ worker[i] = "call"
  /\ worker' = [worker EXCEPT ![i] = "failed"]
  /\ numErrs' = numErrs + 1
  /\ UNCHANGED <<query, replicas, acked, stored, resp, results, merged, asked, listed>>

(* Mutant: as many errors are let pass as there may be replicas.           *)
ReturnAllMutant ==
  /\ query = "all"
  /\ \A i \in Ingesters : worker[i] # "call"
  /\ query' = IF numErrs > ReplicationFactor THEN "err" ELSE "listed"
  /\ UNCHANGED <<replicas, acked, stored, worker, resp, results, merged, numErrs, asked, listed>>

ReturnAll ==
  /\ query = "all"
  /\ \A i \in Ingesters : worker[i] # "call"
  /\ query' = IF numErrs > ReplicationFactor \div 2 THEN "err" ELSE "listed"
  /\ UNCHANGED <<replicas, acked, stored, worker, resp, results, merged, numErrs, asked, listed>>

-----------------------------------------------------------------------------
Step(i) == Answer(i) \/ Fail(i) \/ ReturnErr(i) \/ Merge(i) \/ Respond(i) \/ RespondErr(i)

Next ==
  \/ Refuse
  \/ Start
  \/ forAllIngesters \/ ReturnAll
  \/ \E i \in Ingesters : Step(i) \/ \E s \in Samples : Ingest(i, s)

Spec == Init /\ [][Next]_vars

(* An RPC ends, with the context of the query at the latest. *)
FairSpec == Spec /\ (\A i \in Ingesters : WF_vars(Step(i))) /\ WF_vars(ReturnAll)

-----------------------------------------------------------------------------
TypeOK ==
  /\ query \in {"start", "wait", "ok", "err", "refused", "all", "listed"}
  /\ replicas \subseteq Ingesters
  /\ acked \subseteq Samples
  /\ stored \in [Ingesters -> SUBSET Samples]
  /\ worker \in [Ingesters -> {"none", "rpc", "errReceived<-", "call", "failed", "exited"}]
  /\ resp \in [Ingesters -> SUBSET Samples]
  /\ results \subseteq Ingesters /\ merged \subseteq Ingesters
  /\ numErrs \in Nat
  /\ asked \subseteq Ingesters /\ listed \subseteq Ingesters

Result == UNION {resp[i] : i \in merged}

(* Reads see writes: a query that succeeds returns every sample that was   *)
(* acknowledged before it began and is still in the ingesters, although it *)
(* waits for a quorum only.                                                *)
ReadsAcked == query = "ok" => acked \subseteq Result

(* The values and metrics of all answers: LabelValuesForLabelName and      *)
(* MetricsForLabelMatchers.                                                *)
Listed == UNION {resp[i] : i \in listed}

(* A listing that succeeds has everything acknowledged before it, whoever  *)
(* failed, if there are replicas enough and all of them have a recent      *)
(* heartbeat: forAllIngesters counts no error for the others.              *)
ListsAcked ==
  query = "listed" /\ replicas \subseteq asked /\ Cardinality(replicas) >= ReplicationFactor
    => acked \subseteq Listed

Failed == {i \in Ingesters : worker[i] = "failed"}

(* What makes it so: the answers that are merged come from minSuccess      *)
(* different replicas, and an answer has what was acknowledged.            *)
IInv ==
  /\ TypeOK
  /\ results \cup merged \subseteq replicas
  /\ results \cap merged = {}
  /\ query \in {"start", "all", "listed"} => results \cup merged = {}
  /\ \A i \in Ingesters : worker[i] = "rpc" =>
       query \in {"wait", "ok", "err"} /\ i \in replicas \ (results \cup merged)
  /\ \A i \in Ingesters : worker[i] = "call" => query = "all" /\ i \notin listed
  /\ \A s \in acked : \E H \in SUBSET replicas :
       /\ 2 * Cardinality(H) > Cardinality(replicas)
       /\ \A i \in H : s \in stored[i] /\ (i \in results \cup merged \cup listed => s \in resp[i])
  /\ query = "ok" => Cardinality(merged) >= minSuccess
  /\ query = "start" => numErrs = 0 /\ listed = {}
  /\ query \in {"all", "listed"} => numErrs = Cardinality(Failed)
  /\ query \in {"all", "listed"} =>
       \A i \in asked : worker[i] = "call" \/ i \in listed \cup Failed
  /\ query = "listed" => numErrs <= ReplicationFactor \div 2

(* The call ends, and its goroutines with it: enough answers come, or the  *)
(* error that is too many reaches errReceived, and no goroutine is left at *)
(* errReceived, which nobody reads once the query has returned.            *)
QueryEnds ==
  (query \in {"wait", "all"}) ~>
    /\ query \in {"ok", "err", "listed"}
    /\ \A i \in Ingesters : worker[i] \notin {"rpc", "errReceived<-", "call"}
====
