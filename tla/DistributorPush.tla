--------------------------- MODULE DistributorPush ---------------------------
(***************************************************************************)
(* One call of Distributor.Push (src/distributor/distributor.go): the      *)
(* samples of a write request are sent to their replicas by one            *)
(* sendSamples goroutine per ingester; the goroutines count successes and  *)
(* failures per sample with atomic increments and wake the waiting call    *)
(* through the unbuffered channels done and err.                           *)
(*                                                                         *)
(* The ring lookup is represented by what RingLookup checks of it: every   *)
(* sample of one request gets the same number of distinct ingesters, at    *)
(* most ReplicationFactor of them.                                         *)
(***************************************************************************)
EXTENDS Integers, FiniteSets

CONSTANTS
  Ingesters,          \* the ingesters of the ring
  MaxSamples,         \* bound on the samples of the request
  ReplicationFactor   \* cfg.ReplicationFactor

ASSUME PushAssumption ==
  /\ IsFiniteSet(Ingesters)
  /\ MaxSamples \in Nat
  /\ ReplicationFactor \in Nat \ {0}

VARIABLES
  push,            \* the calling goroutine: where it is or what it returned
  samples,         \* the request's samples, 1..n
  replicas,        \* sample -> the ingesters BatchGet returned for it
  live,            \* sample -> those whose heartbeat is recent enough
  succeeded,       \* sampleTracker.succeeded
  failed,          \* sampleTracker.failed
  samplesPending,  \* pushTracker.samplesPending
  samplesFailed,   \* pushTracker.samplesFailed
  sender,          \* ingester -> where its sendSamples goroutine is
  outcome,         \* ingester -> what the RPC of that goroutine returned
  todo,            \* ingester -> the trackers its loop still has to visit
  stored           \* ingester -> the samples it took (external)

trackers == <<succeeded, failed, samplesPending, samplesFailed>>
request == <<samples, replicas, live>>
vars == <<push, request, trackers, sender, outcome, todo, stored>>

-----------------------------------------------------------------------------
(* Mutants of the two thresholds: half is enough; one failure too many.    *)
MinSuccessMutant(n) == n \div 2
MaxFailuresMutant(n) == (n \div 2) + 1

(* We need a response from a quorum of ingesters, which is n/2 + 1. *)
MinSuccess(n) == (n \div 2) + 1
MaxFailures(n) == n - MinSuccess(n)

minSuccess(s) == MinSuccess(Cardinality(replicas[s]))
maxFailures(s) == MaxFailures(Cardinality(replicas[s]))

(* samplesByIngester: the samples whose live replicas include i. *)
Batch(L, i) == {s \in DOMAIN L : i \in L[s]}

(* The possible results of ring.BatchGet for the samples S. *)
Lookups(S) ==
  UNION {[S -> {R \in SUBSET Ingesters : Cardinality(R) = k}] :
           k \in 0..ReplicationFactor}

Init ==
  /\ push = "start"
  /\ samples = {}
  /\ replicas = [s \in {} |-> {}]
  /\ live = [s \in {} |-> {}]
  /\ succeeded = [s \in {} |-> 0]
  /\ failed = [s \in {} |-> 0]
  /\ samplesPending = 0
  /\ samplesFailed = 0
  /\ sender = [i \in Ingesters |-> "none"]
  /\ outcome = [i \in Ingesters |-> "none"]
  /\ todo = [i \in Ingesters |-> {}]
  /\ stored = [i \in Ingesters |-> {}]

-----------------------------------------------------------------------------
(* No user, no metric name, rate limit exceeded, empty ring: the call      *)
(* returns an error before anything is sent.                               *)
Refuse ==
  /\ push = "start"
  /\ push' = "refused"
  /\ UNCHANGED <<request, trackers, sender, outcome, todo, stored>>

(* A request without samples succeeds at once. *)
PushNothing ==
  /\ push = "start"
  /\ push' = "ok"
  /\ UNCHANGED <<request, trackers, sender, outcome, todo, stored>>

(* Too few live replicas for some sample: the call returns an error, and   *)
(* again nothing has been sent, also for the samples before that one.      *)
TooFewLive(S, R, L) ==
  /\ \E s \in S : Cardinality(L[s]) < MinSuccess(Cardinality(R[s]))
  /\ push' = "refused"
  /\ UNCHANGED <<samplesPending, samplesFailed, sender, todo>>

(* Otherwise the pushTracker is set up, one goroutine is started for every *)
(* ingester with something to send, and the call waits.                    *)
StartSenders(S, R, L) ==
  /\ \A s \in S : Cardinality(L[s]) >= MinSuccess(Cardinality(R[s]))
  /\ push' = "wait"
  /\ samplesPending' = Cardinality(S)
  /\ samplesFailed' = 0
  /\ todo' = [i \in Ingesters |-> Batch(L, i)]
  /\ sender' = [i \in Ingesters |-> IF Batch(L, i) # {} THEN "rpc" ELSE "none"]

(* The replicas are looked up under one read lock of the ring. The clock   *)
(* is read once per sample and replica, so which replicas count as live    *)
(* may differ between the samples of one request.                          *)
Dispatch ==
  /\ push = "start"
  /\ \E n \in 1..MaxSamples : \E R \in Lookups(1..n) :
       \E L \in [1..n -> SUBSET Ingesters] :
         /\ \A s \in 1..n : L[s] \subseteq R[s]
         /\ samples' = 1..n
         /\ replicas' = R
         /\ live' = L
         /\ succeeded' = [s \in 1..n |-> 0]
         /\ failed' = [s \in 1..n |-> 0]
         /\ TooFewLive(1..n, R, L) \/ StartSenders(1..n, R, L)
  /\ UNCHANGED <<outcome, stored>>

-----------------------------------------------------------------------------
(* sendSamplesErr. An ingester that answers without error took every       *)
(* sample; one that fails, or whose answer is lost or late, took some. (A  *)
(* sample that ValidateSample refuses is dropped without an error, by      *)
(* every ingester it is sent to: the samples here are others.)             *)
SendOk(i) ==
  /\ sender[i] = "rpc"
  /\ sender' = [sender EXCEPT ![i] = "loop"]
  /\ outcome' = [outcome EXCEPT ![i] = "ok"]
  /\ stored' = [stored EXCEPT ![i] = todo[i]]
  /\ UNCHANGED <<push, request, trackers, todo>>

SendFailed(i) ==
  /\ sender[i] = "rpc"
  /\ sender' = [sender EXCEPT ![i] = "loop"]
  /\ outcome' = [outcome EXCEPT ![i] = "err"]
  /\ \E T \in SUBSET todo[i] : stored' = [stored EXCEPT ![i] = T]
  /\ UNCHANGED <<push, request, trackers, todo>>

(* The loop over sampleTrackers visits them in the order of the request.   *)
NextTracker(i, s) ==
  /\ sender[i] = "loop"
  /\ s \in todo[i]
  /\ \A t \in todo[i] : s <= t
  /\ todo' = [todo EXCEPT ![i] = @ \ {s}]

(* Mutant: < maxFailures, the sample is given up one failure early.        *)
CountFailureMutant(i, s) ==
  /\ NextTracker(i, s)
  /\ outcome[i] = "err"
  /\ failed' = [failed EXCEPT ![s] = @ + 1]
  /\ sender' = IF failed'[s] < maxFailures(s) THEN sender
               ELSE [sender EXCEPT ![i] = "sampleFailed"]
  /\ UNCHANGED <<push, request, succeeded, samplesPending, samplesFailed,
                 outcome, stored>>

(* atomic.AddInt32(&sampleTrackers[i].failed, 1) <= maxFailures: continue *)
CountFailure(i, s) ==
  /\ NextTracker(i, s)
  /\ outcome[i] = "err"
  /\ failed' = [failed EXCEPT ![s] = @ + 1]
  /\ sender' = IF failed'[s] <= maxFailures(s) THEN sender
               ELSE [sender EXCEPT ![i] = "sampleFailed"]
  /\ UNCHANGED <<push, request, succeeded, samplesPending, samplesFailed,
                 outcome, stored>>

(* atomic.AddInt32(&sampleTrackers[i].succeeded, 1) != minSuccess: continue *)
CountSuccess(i, s) ==
  /\ NextTracker(i, s)
  /\ outcome[i] = "ok"
  /\ succeeded' = [succeeded EXCEPT ![s] = @ + 1]
  /\ sender' = IF succeeded'[s] # minSuccess(s) THEN sender
               ELSE [sender EXCEPT ![i] = "sampleDone"]
  /\ UNCHANGED <<push, request, failed, samplesPending, samplesFailed,
                 outcome, stored>>

(* Mutant: every lost sample writes to err, not only the first.            *)
FailSampleMutant(i) ==
  /\ sender[i] = "sampleFailed"
  /\ samplesFailed' = samplesFailed + 1
  /\ sender' = [sender EXCEPT ![i] = "err<-"]
  /\ UNCHANGED <<push, request, succeeded, failed, samplesPending, outcome,
                 todo, stored>>

(* atomic.AddInt32(&pushTracker.samplesFailed, 1) == 1 *)
FailSample(i) ==
  /\ sender[i] = "sampleFailed"
  /\ samplesFailed' = samplesFailed + 1
  /\ sender' = [sender EXCEPT ![i] = IF samplesFailed' = 1 THEN "err<-" ELSE "loop"]
  /\ UNCHANGED <<push, request, succeeded, failed, samplesPending, outcome,
                 todo, stored>>

(* atomic.AddInt32(&pushTracker.samplesPending, -1) == 0 *)
CompleteSample(i) ==
  /\ sender[i] = "sampleDone"
  /\ samplesPending' = samplesPending - 1
  /\ sender' = [sender EXCEPT ![i] = IF samplesPending' = 0 THEN "done<-" ELSE "loop"]
  /\ UNCHANGED <<push, request, succeeded, failed, samplesFailed, outcome,
                 todo, stored>>

(* The channels are unbuffered: a writer and the waiting call meet, and    *)
(* nobody reads the channels once the call has returned.                   *)
ReturnErr(i) ==
  /\ push = "wait"
  /\ sender[i] = "err<-"
  /\ push' = "err"
  /\ sender' = [sender EXCEPT ![i] = "loop"]
  /\ UNCHANGED <<request, trackers, outcome, todo, stored>>

ReturnOk(i) ==
  /\ push = "wait"
  /\ sender[i] = "done<-"
  /\ push' = "ok"
  /\ sender' = [sender EXCEPT ![i] = "loop"]
  /\ UNCHANGED <<request, trackers, outcome, todo, stored>>

-----------------------------------------------------------------------------
Send(i) == SendOk(i) \/ SendFailed(i)
Count(i) ==
  \/ \E s \in samples : CountFailure(i, s) \/ CountSuccess(i, s)
  \/ FailSample(i)
  \/ CompleteSample(i)
Return(i) == ReturnErr(i) \/ ReturnOk(i)

Next ==
  \/ Refuse
  \/ PushNothing
  \/ Dispatch
  \/ \E i \in Ingesters : Send(i) \/ Count(i) \/ Return(i)

Spec == Init /\ [][Next]_vars

(* Every RPC ends (the client has RemoteTimeout) and goroutines that can   *)
(* run do run.                                                             *)
FairSpec ==
  /\ Spec
  /\ \A i \in Ingesters : WF_vars(Send(i)) /\ WF_vars(Count(i)) /\ WF_vars(Return(i))

-----------------------------------------------------------------------------
TypeOK ==
  /\ push \in {"start", "wait", "ok", "err", "refused"}
  /\ samples \in {1..n : n \in 0..MaxSamples}
  /\ replicas \in [samples -> SUBSET Ingesters]
  /\ live \in [samples -> SUBSET Ingesters]
  /\ succeeded \in [samples -> Nat]
  /\ failed \in [samples -> Nat]
  /\ samplesPending \in Nat
  /\ samplesFailed \in Nat
  /\ sender \in [Ingesters -> {"none", "rpc", "loop", "sampleFailed",
                               "sampleDone", "err<-", "done<-"}]
  /\ outcome \in [Ingesters -> {"none", "ok", "err"}]
  /\ todo \in [Ingesters -> SUBSET samples]
  /\ stored \in [Ingesters -> SUBSET samples]

(* A sample's acknowledgement is real: when Push returns success, more     *)
(* than half of the ring's replicas of every valid sample took it, dead    *)
(* replicas counted in. Push sends to the live ones only and returns early.*)
AckedMeansQuorum ==
  push = "ok" =>
    \A s \in samples :
      2 * Cardinality({i \in replicas[s] : s \in stored[i]}) > Cardinality(replicas[s])

Writers == {i \in Ingesters : sender[i] \in {"err<-", "done<-"}}

(* "The use of atomic increments here guarantees only a single sendSamples *)
(* goroutine will write to either channel": while the call waits at most   *)
(* one goroutine is at a channel write, and none is once it has returned   *)
(* (that goroutine would never get away from it).                          *)
OneChannelWrite ==
  /\ push = "wait" => \A i, j \in Writers : i = j
  /\ push # "wait" => Writers = {}

(* An error is final: when Push has returned it, fewer than minSuccess     *)
(* replicas of some sample can still have answered without error.          *)
ErrMeansNoQuorum ==
  push = "err" =>
    \E s \in samples :
      Cardinality({i \in live[s] : outcome[i] # "err"}) < minSuccess(s)

Exited(i) == sender[i] = "none" \/ (sender[i] = "loop" /\ todo[i] = {})

(* The call comes to an end: no sendSamples goroutine is left behind,      *)
(* whatever Push returned and however early, and if every replica was live *)
(* Push returns.                                                           *)
PushEnds ==
  /\ \A i \in Ingesters : (sender[i] = "rpc") ~> Exited(i)
  /\ (push = "wait" /\ live = replicas) ~> (push # "wait")

-----------------------------------------------------------------------------
(* The inductive invariant behind AckedMeansQuorum, OneChannelWrite and    *)
(* ErrMeansNoQuorum: what the counters count.                              *)
Counted(s, o) == {i \in live[s] : outcome[i] = o /\ s \notin todo[i]}
Incomplete == {s \in samples : succeeded[s] < minSuccess(s)}
Completing == {i \in Ingesters : sender[i] = "sampleDone"}
Lost == {s \in samples : failed[s] > maxFailures(s)}

CountersCount ==
  \A s \in samples :
    /\ live[s] \subseteq replicas[s]
    /\ succeeded[s] = Cardinality(Counted(s, "ok"))
    /\ failed[s] = Cardinality(Counted(s, "err"))

SendersConsistent ==
  \A i \in Ingesters :
    /\ todo[i] \subseteq Batch(live, i)
    /\ sender[i] \in {"none", "rpc"} <=> outcome[i] = "none"
    /\ sender[i] \in {"sampleDone", "done<-"} => outcome[i] = "ok"
    /\ outcome[i] = "ok" => stored[i] = Batch(live, i)
    /\ outcome[i] = "none" => stored[i] = {}
    /\ outcome[i] = "none" => todo[i] = Batch(live, i) \/ push = "refused"
    /\ sender[i] = "none" => todo[i] = {}
    /\ push \in {"start", "refused"} => sender[i] = "none"

(* The done channel: written when the last incomplete sample completes.    *)
DoneInv ==
  /\ push # "refused" =>
       samplesPending = Cardinality(Incomplete) + Cardinality(Completing)
  /\ (push \in {"start", "ok"} \/ \E i \in Ingesters : sender[i] = "done<-")
       => samplesPending = 0
  /\ push = "ok" => \A i \in Ingesters : sender[i] # "done<-"
  /\ \A i, j \in Ingesters : sender[i] = "done<-" /\ sender[j] = "done<-" => i = j

(* The err channel: written by the first goroutine that loses a sample.    *)
ErrInv ==
  /\ (samplesFailed > 0 \/ \E i \in Ingesters : sender[i] = "sampleFailed") => Lost # {}
  /\ (push = "err" \/ \E i \in Ingesters : sender[i] = "err<-") => samplesFailed > 0
  /\ push = "start" => samplesFailed = 0
  /\ push = "err" => \A i \in Ingesters : sender[i] # "err<-"
  /\ \A i, j \in Ingesters : sender[i] = "err<-" /\ sender[j] = "err<-" => i = j

(* Each counter counts the goroutines (or samples) it stands for, so the   *)
(* step that brings samplesPending to 0, or samplesFailed to 1, is unique. *)
IInv == TypeOK /\ CountersCount /\ SendersConsistent /\ DoneInv /\ ErrInv
=============================================================================
