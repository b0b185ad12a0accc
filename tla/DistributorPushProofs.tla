------------------------ MODULE DistributorPushProofs ------------------------
(***************************************************************************)
(* Proofs about DistributorPush, for every set of ingesters, every number  *)
(* of samples and every replication factor.                                *)
(***************************************************************************)
EXTENDS DistributorPush, FiniteSetTheorems, TLAPS

(* n/2 + 1 is more than half of n, and failures and successes that reach   *)
(* both limits would be more than n.                                       *)
LEMMA Quorums ==
  ASSUME NEW n \in Nat
  PROVE  /\ MinSuccess(n) \in Nat /\ MinSuccess(n) > 0
         /\ MaxFailures(n) \in Int
         /\ 2 * MinSuccess(n) > n
         /\ MinSuccess(n) + MaxFailures(n) = n
BY DEF MinSuccess, MaxFailures

(* The sets that the counters count are finite. *)
LEMMA Finite ==
  ASSUME TypeOK, NEW s \in samples
  PROVE  /\ IsFiniteSet(replicas[s])
         /\ IsFiniteSet(live[s])
         /\ Cardinality(replicas[s]) \in Nat
         /\ minSuccess(s) \in Nat
         /\ maxFailures(s) \in Int
         /\ \A o : IsFiniteSet(Counted(s, o))
<1>1. replicas[s] \in SUBSET Ingesters /\ live[s] \in SUBSET Ingesters
  BY DEF TypeOK
<1>2. IsFiniteSet(replicas[s]) /\ IsFiniteSet(live[s])
  BY <1>1, FS_Subset, PushAssumption
<1>3. Cardinality(replicas[s]) \in Nat
  BY <1>2, FS_CardinalityType
<1>4. \A o : Counted(s, o) \in SUBSET live[s]
  BY DEF Counted
<1>5. \A o : IsFiniteSet(Counted(s, o))
  BY <1>2, <1>4, FS_Subset
<1>6. QED
  BY <1>2, <1>3, <1>5, Quorums DEF minSuccess, maxFailures

(* The samples of a request, and those still open, can be counted.         *)
LEMMA FiniteSamples ==
  ASSUME TypeOK
  PROVE  /\ IsFiniteSet(samples)
         /\ IsFiniteSet(Incomplete)
         /\ IsFiniteSet(Completing)
         /\ Cardinality(Incomplete) \in Nat
         /\ Cardinality(Completing) \in Nat
<1>1. PICK n \in 0..MaxSamples : samples = 1..n
  BY DEF TypeOK
<1>2. IsFiniteSet(samples)
  BY <1>1, FS_Interval, PushAssumption
<1>3. Incomplete \in SUBSET samples /\ Completing \in SUBSET Ingesters
  BY DEF Incomplete, Completing
<1>4. IsFiniteSet(Incomplete) /\ IsFiniteSet(Completing)
  BY <1>2, <1>3, FS_Subset, PushAssumption
<1>5. QED
  BY <1>2, <1>4, FS_CardinalityType

-----------------------------------------------------------------------------
(* From the inductive invariant: no sample is lost when none is pending.   *)
LEMMA NotBoth ==
  ASSUME IInv, push # "refused", samplesPending = 0
  PROVE  /\ \A s \in samples : succeeded[s] >= minSuccess(s)
         /\ Lost = {}
         /\ samplesFailed = 0
         /\ Completing = {}
<1>1. TypeOK /\ CountersCount /\ DoneInv /\ ErrInv
  BY DEF IInv
<1>2. Cardinality(Incomplete) = 0 /\ Cardinality(Completing) = 0
  BY <1>1, FiniteSamples DEF DoneInv
<1>3. Incomplete = {} /\ Completing = {}
  BY <1>1, <1>2, FiniteSamples, FS_EmptySet
<1>4. ASSUME NEW s \in samples
      PROVE  succeeded[s] >= minSuccess(s) /\ failed[s] <= maxFailures(s)
  <2>1. succeeded[s] \in Nat /\ failed[s] \in Nat
    BY <1>1 DEF TypeOK
  <2>2. succeeded[s] >= minSuccess(s)
    BY <1>1, <1>3, <2>1, Finite DEF Incomplete
  <2>3. Counted(s, "ok") \cup Counted(s, "err") \in SUBSET replicas[s]
    BY <1>1 DEF CountersCount, Counted
  <2>4. Counted(s, "ok") \cap Counted(s, "err") = {}
    BY DEF Counted
  <2>5. Cardinality(Counted(s, "ok") \cup Counted(s, "err")) = succeeded[s] + failed[s]
    <3>1. IsFiniteSet(Counted(s, "ok")) /\ IsFiniteSet(Counted(s, "err"))
      BY <1>1, Finite
    <3>2. Cardinality(Counted(s, "ok") \cap Counted(s, "err")) = 0
      BY <2>4, FS_EmptySet
    <3>3. succeeded[s] = Cardinality(Counted(s, "ok")) /\ failed[s] = Cardinality(Counted(s, "err"))
      BY <1>1 DEF CountersCount
    <3>4. Cardinality(Counted(s, "ok") \cup Counted(s, "err"))
            = Cardinality(Counted(s, "ok")) + Cardinality(Counted(s, "err"))
                - Cardinality(Counted(s, "ok") \cap Counted(s, "err"))
      BY <3>1, FS_Union
    <3>5. QED
      BY <3>2, <3>3, <3>4, <2>1
  <2>6. succeeded[s] + failed[s] <= Cardinality(replicas[s])
    BY <1>1, <2>3, <2>5, Finite, FS_Subset
  <2>7. minSuccess(s) + maxFailures(s) = Cardinality(replicas[s])
    BY <1>1, Finite, Quorums DEF minSuccess, maxFailures
  <2>8. QED
    BY <1>1, <2>1, <2>2, <2>6, <2>7, Finite
<1>5. Lost = {}
  <2>1. \A s \in samples : failed[s] \in Nat /\ maxFailures(s) \in Int
    BY <1>1, Finite DEF TypeOK
  <2>2. QED
    BY <1>4, <2>1 DEF Lost
<1>6. samplesFailed = 0
  BY <1>1, <1>5 DEF ErrInv, TypeOK
<1>7. QED
  BY <1>3, <1>4, <1>5, <1>6

(* What a step that touches no tracker leaves alone.                       *)
LEMMA CountersFrame ==
  ASSUME CountersCount, UNCHANGED <<request, succeeded, failed, outcome, todo>>
  PROVE  CountersCount' /\ Incomplete' = Incomplete /\ Lost' = Lost
<1>1. \A s, o : Counted(s, o)' = Counted(s, o)
  BY DEF Counted, request
<1>2. CountersCount'
  BY <1>1 DEF CountersCount, request
<1>3. Incomplete' = Incomplete /\ Lost' = Lost
  BY DEF Incomplete, Lost, minSuccess, maxFailures, request
<1>4. QED
  BY <1>2, <1>3

-----------------------------------------------------------------------------
(* The initial state: there is no request.                                 *)
LEMMA InitInv == Init => IInv
<1> SUFFICES ASSUME Init PROVE IInv
  OBVIOUS
<1>1. samples = {} /\ samples = 1..0
  BY DEF Init
<1>2. TypeOK
  BY <1>1, PushAssumption DEF Init, TypeOK
<1>3. CountersCount
  BY <1>1 DEF CountersCount
<1>4. SendersConsistent
  BY DEF Init, SendersConsistent, Batch
<1>5. Incomplete = {} /\ Completing = {} /\ Lost = {}
  BY <1>1 DEF Init, Incomplete, Completing, Lost
<1>6. DoneInv
  BY <1>5, FS_EmptySet DEF Init, DoneInv
<1>7. ErrInv
  BY DEF Init, ErrInv
<1>8. QED
  BY <1>2, <1>3, <1>4, <1>6, <1>7 DEF IInv

(* Refuse and PushNothing return before anything is counted.               *)
LEMMA RefuseInv == IInv /\ (Refuse \/ PushNothing) => IInv'
<1> SUFFICES ASSUME IInv, Refuse \/ PushNothing PROVE IInv'
  OBVIOUS
<1> USE DEF IInv
<1>1. TypeOK'
  BY DEF TypeOK, Refuse, PushNothing, request, trackers
<1>2. CountersCount'
  BY DEF CountersCount, Counted, Refuse, PushNothing, request, trackers
<1>3. SendersConsistent'
  BY DEF SendersConsistent, Batch, Refuse, PushNothing, request, trackers
<1>4. Incomplete' = Incomplete /\ Completing' = Completing /\ Lost' = Lost
  BY DEF Refuse, PushNothing, request, trackers, Incomplete, Completing, Lost,
         minSuccess, maxFailures
<1>5. \A i \in Ingesters : sender[i] = "none"
  BY DEF SendersConsistent, Refuse, PushNothing
<1>6. DoneInv'
  BY <1>4, <1>5 DEF DoneInv, Refuse, PushNothing, request, trackers
<1>7. ErrInv'
  BY <1>4, <1>5 DEF ErrInv, Refuse, PushNothing, request, trackers
<1>8. QED
  BY <1>1, <1>2, <1>3, <1>6, <1>7

(* Dispatch keeps the invariant: trackers are set up before any sender     *)
(* runs.                                                                   *)
LEMMA DispatchInv == IInv /\ Dispatch => IInv'
<1> SUFFICES ASSUME IInv, Dispatch PROVE IInv'
  OBVIOUS
<1>1. TypeOK /\ SendersConsistent /\ ErrInv /\ DoneInv
  BY DEF IInv
<1>2. PICK n \in 1..MaxSamples : \E R \in Lookups(1..n) :
        \E L \in [1..n -> SUBSET Ingesters] :
         /\ \A s \in 1..n : L[s] \subseteq R[s]
         /\ samples' = 1..n
         /\ replicas' = R
         /\ live' = L
         /\ succeeded' = [s \in 1..n |-> 0]
         /\ failed' = [s \in 1..n |-> 0]
         /\ TooFewLive(1..n, R, L) \/ StartSenders(1..n, R, L)
  BY DEF Dispatch
<1>3. PICK R \in Lookups(1..n), L \in [1..n -> SUBSET Ingesters] :
         /\ \A s \in 1..n : L[s] \subseteq R[s]
         /\ samples' = 1..n
         /\ replicas' = R
         /\ live' = L
         /\ succeeded' = [s \in 1..n |-> 0]
         /\ failed' = [s \in 1..n |-> 0]
         /\ TooFewLive(1..n, R, L) \/ StartSenders(1..n, R, L)
  BY <1>2
<1>4. R \in [1..n -> SUBSET Ingesters]
  BY DEF Lookups
<1>5. /\ push = "start" /\ outcome' = outcome /\ stored' = stored
      /\ \A i \in Ingesters : sender[i] = "none" /\ outcome[i] = "none"
  BY <1>1 DEF Dispatch, SendersConsistent
<1>6. TypeOK'
  <2>1. IsFiniteSet(1..n) /\ Cardinality(1..n) \in Nat
    BY FS_Interval, FS_CardinalityType, PushAssumption
  <2>2. \A i \in Ingesters : Batch(L, i) \in SUBSET (1..n)
    BY <1>3 DEF Batch
  <2>3. samples' \in {1..m : m \in 0..MaxSamples}
    BY <1>3, PushAssumption
  <2>4. stored \in [Ingesters -> SUBSET (1..n)] /\ todo \in [Ingesters -> SUBSET (1..n)]
    <3>1. \A i \in Ingesters : todo[i] = {} /\ stored[i] = {}
      BY <1>1, <1>5 DEF SendersConsistent
    <3>2. QED
      BY <3>1, <1>1 DEF TypeOK
  <2>5. QED
    BY <1>1, <1>3, <1>4, <1>5, <2>1, <2>2, <2>3, <2>4
       DEF TypeOK, TooFewLive, StartSenders
<1>7. SendersConsistent'
  BY <1>1, <1>3, <1>5 DEF SendersConsistent, TooFewLive, StartSenders, TypeOK, Batch
<1>8. \A s \in samples', o \in {"ok", "err"} : Counted(s, o)' = {}
  BY <1>3, <1>5 DEF Counted
<1>9. CountersCount'
  <2>1. ASSUME NEW s \in samples'
        PROVE  /\ (live[s])' \subseteq (replicas[s])'
               /\ (succeeded[s])' = 0
               /\ (failed[s])' = 0
    BY <1>3
  <2>2. QED
    BY <1>8, <2>1, FS_EmptySet DEF CountersCount
<1>10. CASE TooFewLive(1..n, R, L)
  <2>1. /\ push' = "refused" /\ sender' = sender /\ samplesFailed' = samplesFailed
    BY <1>10 DEF TooFewLive
  <2>2. samplesFailed = 0
    BY <1>1, <1>5 DEF ErrInv
  <2>3. DoneInv' /\ ErrInv'
    BY <1>5, <2>1, <2>2 DEF DoneInv, ErrInv
  <2>4. QED
    BY <1>6, <1>7, <1>9, <2>3 DEF IInv
<1>11. CASE StartSenders(1..n, R, L)
  <2>1. /\ push' = "wait"
        /\ samplesPending' = Cardinality(1..n)
        /\ samplesFailed' = 0
        /\ \A i \in Ingesters : sender'[i] \in {"none", "rpc"}
    BY <1>11 DEF StartSenders
  <2>2. Completing' = {}
    BY <2>1 DEF Completing
  <2>3. Incomplete' = 1..n
    <3>1. ASSUME NEW s \in 1..n
          PROVE  minSuccess(s)' > 0
      <4>1. Cardinality(R[s]) \in Nat
        BY <1>4, FS_Subset, FS_CardinalityType, PushAssumption
      <4>2. minSuccess(s)' = MinSuccess(Cardinality(R[s]))
        BY <1>3 DEF minSuccess
      <4>3. QED
        BY <4>1, <4>2, Quorums
    <3>2. QED
      BY <3>1, <1>3 DEF Incomplete
  <2>4. DoneInv'
    <3>1. Cardinality(1..n) \in Nat
      BY FS_Interval, FS_CardinalityType, PushAssumption
    <3>2. QED
      BY <2>1, <2>2, <2>3, <3>1, FS_EmptySet DEF DoneInv
  <2>5. ErrInv'
    BY <2>1 DEF ErrInv
  <2>6. QED
    BY <1>6, <1>7, <1>9, <2>4, <2>5 DEF IInv
<1>12. QED
  BY <1>3, <1>10, <1>11

(* An RPC that ends changes no counter: the goroutine's trackers are all   *)
(* still to be visited.                                                    *)
LEMMA SendInv ==
  ASSUME IInv, NEW i \in Ingesters, Send(i)
  PROVE  IInv'
<1>1. TypeOK /\ CountersCount /\ SendersConsistent /\ DoneInv /\ ErrInv
  BY DEF IInv
<1>2. PICK T \in SUBSET todo[i], o \in {"ok", "err"} :
        /\ sender[i] = "rpc"
        /\ sender' = [sender EXCEPT ![i] = "loop"]
        /\ outcome' = [outcome EXCEPT ![i] = o]
        /\ stored' = [stored EXCEPT ![i] = T]
        /\ o = "ok" => T = todo[i]
        /\ UNCHANGED <<push, request, trackers, todo>>
  BY DEF Send, SendOk, SendFailed
<1>3. /\ outcome[i] = "none" /\ push \notin {"start", "refused"}
      /\ todo[i] = Batch(live, i)
  BY <1>1, <1>2 DEF SendersConsistent
<1>4. TypeOK'
  BY <1>1, <1>2 DEF TypeOK, request, trackers
<1>5. SendersConsistent'
  BY <1>1, <1>2, <1>3 DEF SendersConsistent, TypeOK, request, trackers, Batch
<1>6. \A s \in samples, r \in {"ok", "err"} : Counted(s, r)' = Counted(s, r)
  BY <1>1, <1>2, <1>3, SMTT(20) DEF TypeOK, Counted, Batch, request, trackers
<1>7. CountersCount'
  BY <1>1, <1>2, <1>6 DEF CountersCount, request, trackers
<1>8. Incomplete' = Incomplete /\ Lost' = Lost
  BY <1>2 DEF Incomplete, Lost, minSuccess, maxFailures, request, trackers
<1>9. Completing' = Completing
  BY <1>1, <1>2 DEF Completing, TypeOK
<1>10. DoneInv'
  BY <1>1, <1>2, <1>8, <1>9 DEF DoneInv, TypeOK, request, trackers
<1>11. ErrInv'
  BY <1>1, <1>2, <1>8 DEF ErrInv, TypeOK, request, trackers
<1>12. QED
  BY <1>4, <1>5, <1>7, <1>10, <1>11 DEF IInv

(* Visiting a tracker adds the goroutine's ingester to the set the counter *)
(* of that tracker counts, and to no other set.                            *)
LEMMA TrackerCounted ==
  ASSUME IInv, NEW i \in Ingesters, NEW s \in samples, NextTracker(i, s),
         UNCHANGED <<request, outcome>>, NEW o \in {"ok", "err"}, outcome[i] = o
  PROVE  /\ Cardinality(Counted(s, o)') = Cardinality(Counted(s, o)) + 1
         /\ \A t \in samples, r \in {"ok", "err"} :
              (t # s \/ r # o) => Counted(t, r)' = Counted(t, r)
<1>1. TypeOK /\ SendersConsistent
  BY DEF IInv
<1>2. s \in todo[i] /\ todo' = [todo EXCEPT ![i] = @ \ {s}]
  BY DEF NextTracker
<1>3. i \in live[s]
  BY <1>1, <1>2 DEF SendersConsistent, Batch
<1>4. Counted(s, o)' = Counted(s, o) \cup {i} /\ i \notin Counted(s, o)
  BY <1>1, <1>2, <1>3 DEF Counted, TypeOK, request
<1>5. Cardinality(Counted(s, o)') = Cardinality(Counted(s, o)) + 1
  BY <1>1, <1>4, Finite, FS_AddElement
<1>6. \A t \in samples, r \in {"ok", "err"} :
         (t # s \/ r # o) => Counted(t, r)' = Counted(t, r)
  BY <1>1, <1>2 DEF Counted, TypeOK, request
<1>7. QED
  BY <1>5, <1>6

(* sendSamples counting a failure keeps the invariant.                     *)
LEMMA CountFailureInv ==
  ASSUME IInv, NEW i \in Ingesters, NEW s \in samples, CountFailure(i, s)
  PROVE  IInv'
<1>1. TypeOK /\ CountersCount /\ SendersConsistent /\ DoneInv /\ ErrInv
  BY DEF IInv
<1>2. /\ NextTracker(i, s) /\ outcome[i] = "err" /\ sender[i] = "loop"
      /\ s \in todo[i] /\ todo' = [todo EXCEPT ![i] = @ \ {s}]
      /\ failed' = [failed EXCEPT ![s] = @ + 1]
      /\ UNCHANGED <<push, request, succeeded, samplesPending, samplesFailed,
                     outcome, stored>>
  BY DEF CountFailure, NextTracker
<1>3. \/ sender' = sender
      \/ sender' = [sender EXCEPT ![i] = "sampleFailed"] /\ failed'[s] > maxFailures(s)
  <2>1. failed'[s] \in Nat /\ maxFailures(s) \in Int
    BY <1>1, <1>2, Finite DEF TypeOK
  <2>2. QED
    BY <2>1 DEF CountFailure
<1>4. TypeOK'
  <2>1. failed' \in [samples -> Nat]
    BY <1>1, <1>2 DEF TypeOK
  <2>2. todo' \in [Ingesters -> SUBSET samples]
    BY <1>1, <1>2, SMTT(20) DEF TypeOK
  <2>3. QED
    BY <1>1, <1>2, <1>3, <2>1, <2>2 DEF TypeOK, request
<1>5. SendersConsistent'
  BY <1>1, <1>2, <1>3, SMTT(20) DEF SendersConsistent, TypeOK, request, Batch
<1>6. CountersCount'
  BY <1>1, <1>2, TrackerCounted, SMTT(20) DEF CountersCount, TypeOK, request
<1>7. Incomplete' = Incomplete
  BY <1>2 DEF Incomplete, minSuccess, request
<1>8. Completing' = Completing
  BY <1>1, <1>2, <1>3 DEF Completing, TypeOK
<1>9. DoneInv'
  BY <1>1, <1>2, <1>3, <1>7, <1>8 DEF DoneInv, TypeOK
<1>10. Lost \subseteq Lost' /\ (sender' # sender => s \in Lost')
  <2>1. \A t \in samples : failed[t] \in Nat /\ maxFailures(t) \in Int
    BY <1>1, Finite DEF TypeOK
  <2>2. \A t \in samples : maxFailures(t)' = maxFailures(t) /\ failed'[t] >= failed[t]
    BY <1>1, <1>2, <2>1 DEF maxFailures, request, TypeOK
  <2>3. samples' = samples /\ \A t \in samples : failed'[t] \in Nat
    BY <1>1, <1>2 DEF request, TypeOK
  <2>4. QED
    BY <1>3, <2>1, <2>2, <2>3 DEF Lost
<1>11. ErrInv'
  <2>1. \A j \in Ingesters : sender'[j] = "err<-" <=> sender[j] = "err<-"
    BY <1>1, <1>2, <1>3 DEF TypeOK
  <2>2. (samplesFailed' > 0 \/ \E j \in Ingesters : sender'[j] = "sampleFailed") => Lost' # {}
    <3>1. CASE sender' = sender
      BY <3>1, <1>1, <1>2, <1>10 DEF ErrInv
    <3>2. CASE sender' # sender
      BY <3>2, <1>10
    <3>3. QED
      BY <3>1, <3>2
  <2>3. QED
    BY <1>1, <1>2, <2>1, <2>2, SMTT(20) DEF ErrInv
<1>12. QED
  BY <1>4, <1>5, <1>6, <1>9, <1>11 DEF IInv

(* The sample that reaches minSuccess leaves Incomplete as the goroutine   *)
(* that saw it enters Completing: their sum does not change.               *)
LEMMA CountSuccessInv ==
  ASSUME IInv, NEW i \in Ingesters, NEW s \in samples, CountSuccess(i, s)
  PROVE  IInv'
<1>1. TypeOK /\ CountersCount /\ SendersConsistent /\ DoneInv /\ ErrInv
  BY DEF IInv
<1>2. /\ NextTracker(i, s) /\ outcome[i] = "ok" /\ sender[i] = "loop"
      /\ s \in todo[i] /\ todo' = [todo EXCEPT ![i] = @ \ {s}]
      /\ succeeded' = [succeeded EXCEPT ![s] = @ + 1]
      /\ UNCHANGED <<push, request, failed, samplesPending, samplesFailed,
                     outcome, stored>>
  BY DEF CountSuccess, NextTracker
<1>3. \/ sender' = sender /\ succeeded'[s] # minSuccess(s)
      \/ sender' = [sender EXCEPT ![i] = "sampleDone"] /\ succeeded'[s] = minSuccess(s)
  BY DEF CountSuccess
<1>4. TypeOK'
  <2>1. succeeded' \in [samples -> Nat]
    BY <1>1, <1>2 DEF TypeOK
  <2>2. todo' \in [Ingesters -> SUBSET samples]
    BY <1>1, <1>2, SMTT(20) DEF TypeOK
  <2>3. QED
    BY <1>1, <1>2, <1>3, <2>1, <2>2, SMTT(20) DEF TypeOK, request
<1>5. SendersConsistent'
  BY <1>1, <1>2, <1>3, SMTT(20) DEF SendersConsistent, TypeOK, request, Batch
<1>6. CountersCount'
  BY <1>1, <1>2, TrackerCounted, SMTT(20) DEF CountersCount, TypeOK, request
<1>7. /\ samples' = samples
      /\ \A t \in samples : /\ minSuccess(t)' = minSuccess(t)
                            /\ minSuccess(t) \in Nat
                            /\ succeeded[t] \in Nat
                            /\ t # s => succeeded'[t] = succeeded[t]
      /\ succeeded'[s] = succeeded[s] + 1
  BY <1>1, <1>2, Finite DEF minSuccess, request, TypeOK
<1>8. Cardinality(Incomplete') + Cardinality(Completing')
        = Cardinality(Incomplete) + Cardinality(Completing)
  <2>1. CASE sender' = sender /\ succeeded'[s] # minSuccess(s)
    <3>1. Incomplete' = Incomplete
      BY <1>7, <2>1 DEF Incomplete
    <3>2. Completing' = Completing
      BY <2>1 DEF Completing
    <3>3. QED
      BY <3>1, <3>2
  <2>2. CASE sender' = [sender EXCEPT ![i] = "sampleDone"] /\ succeeded'[s] = minSuccess(s)
    <3>1. Incomplete' = Incomplete \ {s} /\ s \in Incomplete
      BY <1>7, <2>2, SMTT(20) DEF Incomplete
    <3>2. Completing' = Completing \cup {i} /\ i \notin Completing
      BY <1>1, <1>2, <2>2 DEF Completing, TypeOK
    <3>3. /\ Cardinality(Incomplete') = Cardinality(Incomplete) - 1
          /\ Cardinality(Completing') = Cardinality(Completing) + 1
      BY <1>1, <3>1, <3>2, FiniteSamples, FS_AddElement, FS_RemoveElement
    <3>4. QED
      BY <1>1, <3>3, FiniteSamples
  <2>3. QED
    BY <1>3, <2>1, <2>2
<1>9. DoneInv'
  BY <1>1, <1>2, <1>3, <1>8 DEF DoneInv, TypeOK
<1>10. Lost' = Lost
  BY <1>2 DEF Lost, maxFailures, request
<1>11. ErrInv'
  <2>1. \A j \in Ingesters : /\ sender'[j] = "sampleFailed" => sender[j] = "sampleFailed"
                             /\ sender'[j] = "err<-" => sender[j] = "err<-"
    BY <1>1, <1>3, SMTT(20) DEF TypeOK
  <2>2. push' = push /\ samplesFailed' = samplesFailed
    BY <1>2
  <2>3. QED
    BY <1>1, <1>10, <2>1, <2>2, SMTT(20) DEF ErrInv
<1>12. QED
  BY <1>4, <1>5, <1>6, <1>9, <1>11 DEF IInv

(* The error of a sample is sent once: the invariant is kept.              *)
LEMMA FailSampleInv ==
  ASSUME IInv, NEW i \in Ingesters, FailSample(i)
  PROVE  IInv'
<1>1. TypeOK /\ CountersCount /\ SendersConsistent /\ DoneInv /\ ErrInv
  BY DEF IInv
<1>2. /\ sender[i] = "sampleFailed"
      /\ samplesFailed' = samplesFailed + 1
      /\ \/ samplesFailed = 0 /\ sender' = [sender EXCEPT ![i] = "err<-"]
         \/ samplesFailed # 0 /\ sender' = [sender EXCEPT ![i] = "loop"]
      /\ UNCHANGED <<push, request, succeeded, failed, samplesPending, outcome,
                     todo, stored>>
  <2>1. samplesFailed \in Nat
    BY <1>1 DEF TypeOK
  <2>2. samplesFailed' = 1 <=> samplesFailed = 0
    BY <2>1 DEF FailSample
  <2>3. QED
    BY <2>2 DEF FailSample
<1>3. TypeOK'
  <2>1. samplesFailed' \in Nat
    BY <1>1, <1>2 DEF TypeOK
  <2>2. sender' \in [Ingesters -> {"none", "rpc", "loop", "sampleFailed",
                                 "sampleDone", "err<-", "done<-"}]
    BY <1>1, <1>2 DEF TypeOK
  <2>3. QED
    BY <1>1, <1>2, <2>1, <2>2 DEF TypeOK, request
<1>4. SendersConsistent'
  BY <1>1, <1>2 DEF SendersConsistent, TypeOK, request, Batch
<1>5. CountersCount'
  BY <1>1, <1>2, CountersFrame
<1>6. Incomplete' = Incomplete /\ Lost' = Lost
  BY <1>1, <1>2, CountersFrame
<1>7. Completing' = Completing
  BY <1>1, <1>2 DEF Completing, TypeOK
<1>8. DoneInv'
  BY <1>1, <1>2, <1>6, <1>7, SMTT(20) DEF DoneInv, TypeOK
<1>9. push # "start"
  BY <1>1, <1>2 DEF SendersConsistent
<1>10. ErrInv'
  BY <1>1, <1>2, <1>6, <1>9 DEF ErrInv, TypeOK
<1>11. QED
  BY <1>3, <1>4, <1>5, <1>8, <1>10 DEF IInv

(* The last sample to complete sends done: the invariant is kept.          *)
LEMMA CompleteSampleInv ==
  ASSUME IInv, NEW i \in Ingesters, CompleteSample(i)
  PROVE  IInv'
<1>1. TypeOK /\ CountersCount /\ SendersConsistent /\ DoneInv /\ ErrInv
  BY DEF IInv
<1>2. /\ sender[i] = "sampleDone"
      /\ samplesPending' = samplesPending - 1
      /\ \/ samplesPending = 1 /\ sender' = [sender EXCEPT ![i] = "done<-"]
         \/ samplesPending # 1 /\ sender' = [sender EXCEPT ![i] = "loop"]
      /\ UNCHANGED <<push, request, succeeded, failed, samplesFailed, outcome,
                     todo, stored>>
  <2>1. samplesPending \in Nat
    BY <1>1 DEF TypeOK
  <2>2. samplesPending' = 0 <=> samplesPending = 1
    BY <2>1 DEF CompleteSample
  <2>3. QED
    BY <2>2 DEF CompleteSample
<1>3. push \notin {"start", "refused"}
  BY <1>1, <1>2 DEF SendersConsistent
<1>4. i \in Completing /\ Completing' = Completing \ {i}
  BY <1>1, <1>2 DEF Completing, TypeOK
<1>5. /\ Cardinality(Completing') = Cardinality(Completing) - 1
      /\ Cardinality(Completing) > 0
  <2>1. Cardinality(Completing) # 0
    BY <1>1, <1>4, FiniteSamples, FS_EmptySet
  <2>2. IsFiniteSet(Completing) /\ Cardinality(Completing) \in Nat
    BY <1>1, FiniteSamples
  <2>3. Cardinality(Completing \ {i}) = Cardinality(Completing) - 1
    BY <1>4, <2>2, FS_RemoveElement, SMTT(20)
  <2>4. QED
    BY <1>4, <2>1, <2>2, <2>3
<1>6. samplesPending > 0 /\ push # "ok" /\ \A j \in Ingesters : sender[j] # "done<-"
  BY <1>1, <1>3, <1>5, FiniteSamples DEF DoneInv
<1>7. TypeOK'
  <2>1. samplesPending' \in Nat
    BY <1>1, <1>2, <1>6 DEF TypeOK
  <2>2. sender' \in [Ingesters -> {"none", "rpc", "loop", "sampleFailed",
                                 "sampleDone", "err<-", "done<-"}]
    BY <1>1, <1>2 DEF TypeOK
  <2>3. QED
    BY <1>1, <1>2, <2>1, <2>2 DEF TypeOK, request
<1>8. SendersConsistent'
  BY <1>1, <1>2 DEF SendersConsistent, TypeOK, request, Batch
<1>9. CountersCount'
  BY <1>1, <1>2, CountersFrame
<1>10. Incomplete' = Incomplete /\ Lost' = Lost
  BY <1>1, <1>2, CountersFrame
<1>11. DoneInv'
  <2>1. samplesPending' = Cardinality(Incomplete') + Cardinality(Completing')
    BY <1>1, <1>2, <1>3, <1>5, <1>10, FiniteSamples DEF DoneInv
  <2>2. QED
    BY <1>1, <1>2, <1>3, <1>6, <2>1 DEF DoneInv, TypeOK
<1>12. ErrInv'
  BY <1>1, <1>2, <1>3, <1>10 DEF ErrInv, TypeOK
<1>13. QED
  BY <1>7, <1>8, <1>9, <1>11, <1>12 DEF IInv

(* Push returning keeps the invariant.                                     *)
LEMMA ReturnInv ==
  ASSUME IInv, NEW i \in Ingesters, Return(i)
  PROVE  IInv'
<1>1. TypeOK /\ CountersCount /\ SendersConsistent /\ DoneInv /\ ErrInv
  BY DEF IInv
<1>2. /\ push = "wait"
      /\ \/ sender[i] = "err<-" /\ push' = "err"
         \/ sender[i] = "done<-" /\ push' = "ok"
      /\ sender' = [sender EXCEPT ![i] = "loop"]
      /\ UNCHANGED <<request, trackers, outcome, todo, stored>>
  BY DEF Return, ReturnErr, ReturnOk
<1>3. TypeOK'
  BY <1>1, <1>2, SMTT(20) DEF TypeOK, request, trackers
<1>4. SendersConsistent'
  BY <1>1, <1>2 DEF SendersConsistent, TypeOK, request, Batch
<1>5. CountersCount'
  BY <1>1, <1>2, CountersFrame DEF trackers
<1>6. Incomplete' = Incomplete /\ Lost' = Lost
  BY <1>1, <1>2, CountersFrame DEF trackers
<1>7. Completing' = Completing
  BY <1>1, <1>2, SMTT(20) DEF Completing, TypeOK
<1>8. DoneInv'
  BY <1>1, <1>2, <1>6, <1>7, SMTT(20) DEF DoneInv, TypeOK, trackers
<1>9. ErrInv'
  BY <1>1, <1>2, <1>6 DEF ErrInv, TypeOK, trackers
<1>10. QED
  BY <1>3, <1>4, <1>5, <1>8, <1>9 DEF IInv

(* A step of nobody keeps the invariant.                                   *)
LEMMA StutterInv == IInv /\ UNCHANGED vars => IInv'
<1> SUFFICES ASSUME IInv, UNCHANGED vars PROVE IInv'
  OBVIOUS
<1> USE DEF IInv, vars, trackers
<1>1. TypeOK'
  BY DEF TypeOK, request
<1>2. CountersCount' /\ Incomplete' = Incomplete /\ Lost' = Lost
  BY CountersFrame
<1>3. SendersConsistent'
  BY DEF SendersConsistent, Batch, request
<1>4. Completing' = Completing
  BY DEF Completing
<1>5. DoneInv' /\ ErrInv'
  BY <1>2, <1>4 DEF DoneInv, ErrInv
<1>6. QED
  BY <1>1, <1>2, <1>3, <1>5

-----------------------------------------------------------------------------
(* The counters of sendSamples count what they stand for, in every state   *)
(* of every call of Push.                                                  *)
THEOREM PushInvariant == Spec => []IInv
<1>1. IInv /\ [Next]_vars => IInv'
  <2> SUFFICES ASSUME IInv, [Next]_vars PROVE IInv'
    OBVIOUS
  <2>1. CASE Refuse \/ PushNothing
    BY <2>1, RefuseInv
  <2>2. CASE Dispatch
    BY <2>2, DispatchInv
  <2>3. ASSUME NEW i \in Ingesters, Send(i) PROVE IInv'
    BY <2>3, SendInv
  <2>4. ASSUME NEW i \in Ingesters, Count(i) PROVE IInv'
    BY <2>4, CountFailureInv, CountSuccessInv, FailSampleInv, CompleteSampleInv DEF Count
  <2>5. ASSUME NEW i \in Ingesters, Return(i) PROVE IInv'
    BY <2>5, ReturnInv
  <2>6. CASE UNCHANGED vars
    BY <2>6, StutterInv
  <2>7. QED
    BY <2>1, <2>2, <2>3, <2>4, <2>5, <2>6 DEF Next
<1>2. QED
  BY <1>1, InitInv, PTL DEF Spec

(* A successful Push has put every sample on more than half of its         *)
(* replicas.                                                               *)
THEOREM PushAckedMeansQuorum == Spec => []AckedMeansQuorum
<1>1. IInv => AckedMeansQuorum
  <2> SUFFICES ASSUME IInv, push = "ok", NEW s \in samples
               PROVE  2 * Cardinality({i \in replicas[s] : s \in stored[i]})
                        > Cardinality(replicas[s])
    BY DEF AckedMeansQuorum
  <2>1. TypeOK /\ CountersCount /\ SendersConsistent /\ DoneInv
    BY DEF IInv
  <2>2. succeeded[s] >= minSuccess(s)
    BY <2>1, NotBoth, SMTT(20) DEF DoneInv
  <2>3. Counted(s, "ok") \subseteq {i \in replicas[s] : s \in stored[i]}
    <3>1. live[s] \subseteq replicas[s] /\ live[s] \subseteq Ingesters /\ DOMAIN live = samples
      BY <2>1 DEF CountersCount, TypeOK
    <3>2. \A i \in live[s] : outcome[i] = "ok" => s \in stored[i]
      BY <2>1, <3>1 DEF SendersConsistent, Batch
    <3>3. QED
      BY <3>1, <3>2 DEF Counted
  <2>4. IsFiniteSet({i \in replicas[s] : s \in stored[i]})
    BY <2>1, Finite, FS_Subset
  <2>5. /\ Cardinality(Counted(s, "ok")) <= Cardinality({i \in replicas[s] : s \in stored[i]})
        /\ Cardinality({i \in replicas[s] : s \in stored[i]}) \in Nat
    BY <2>3, <2>4, FS_Subset, FS_CardinalityType
  <2>6. succeeded[s] = Cardinality(Counted(s, "ok")) /\ succeeded[s] \in Nat
    BY <2>1 DEF CountersCount, TypeOK
  <2>7. /\ 2 * minSuccess(s) > Cardinality(replicas[s])
        /\ minSuccess(s) \in Nat /\ Cardinality(replicas[s]) \in Nat
    BY <2>1, Finite, Quorums, SMTT(20) DEF minSuccess
  <2>8. QED
    BY <2>2, <2>5, <2>6, <2>7
<1>2. QED
  BY <1>1, PushInvariant, PTL

(* At most one goroutine ever writes to done or err, and it finds the call *)
(* waiting.                                                                *)
THEOREM PushOneChannelWrite == Spec => []OneChannelWrite
<1>1. IInv => OneChannelWrite
  <2> SUFFICES ASSUME IInv PROVE OneChannelWrite
    OBVIOUS
  <2>1. TypeOK /\ SendersConsistent /\ DoneInv /\ ErrInv
    BY SMTT(20) DEF IInv
  <2>2. push \in {"start", "refused"} => Writers = {}
    BY <2>1 DEF SendersConsistent, Writers
  <2>3. (push = "ok" \/ \E i \in Ingesters : sender[i] = "done<-") /\ push # "refused"
          => samplesFailed = 0
    BY <2>1, NotBoth DEF DoneInv
  <2>4. ASSUME push \notin {"start", "refused"}
        PROVE  ~ /\ push = "ok" \/ \E i \in Ingesters : sender[i] = "done<-"
                 /\ push = "err" \/ \E i \in Ingesters : sender[i] = "err<-"
    BY <2>1, <2>3, <2>4 DEF ErrInv
  <2>5. QED
    BY <2>1, <2>2, <2>4 DEF OneChannelWrite, Writers, DoneInv, ErrInv, TypeOK
<1>2. QED
  BY <1>1, PushInvariant, PTL

(* When Push returns an error, the request can no longer have a quorum for *)
(* every sample.                                                           *)
THEOREM PushErrMeansNoQuorum == Spec => []ErrMeansNoQuorum
<1>1. IInv => ErrMeansNoQuorum
  <2> SUFFICES ASSUME IInv, push = "err"
               PROVE  \E s \in samples :
                        Cardinality({i \in live[s] : outcome[i] # "err"}) < minSuccess(s)
    BY DEF ErrMeansNoQuorum
  <2>1. TypeOK /\ CountersCount /\ ErrInv
    BY DEF IInv
  <2>2. PICK s \in samples : failed[s] > maxFailures(s)
    BY <2>1 DEF ErrInv, Lost
  <2> DEFINE A == {i \in live[s] : outcome[i] # "err"}
             B == Counted(s, "err")
  <2>3. /\ IsFiniteSet(A) /\ IsFiniteSet(B)
        /\ Cardinality(A) \in Nat /\ Cardinality(B) \in Nat
    <3>1. A \in SUBSET live[s] /\ IsFiniteSet(live[s])
      BY <2>1, Finite
    <3>2. IsFiniteSet(A) /\ IsFiniteSet(B)
      BY <2>1, <3>1, Finite, FS_Subset
    <3>3. QED
      BY <3>2, FS_CardinalityType
  <2>4. A \cap B = {} /\ A \cup B \in SUBSET replicas[s]
    BY <2>1 DEF CountersCount, Counted
  <2>5. Cardinality(A \cup B) = Cardinality(A) + Cardinality(B)
    <3>1. Cardinality(A \cup B) = Cardinality(A) + Cardinality(B) - Cardinality(A \cap B)
      BY <2>3, FS_Union
    <3>2. Cardinality(A \cap B) = 0
      BY <2>4, FS_EmptySet
    <3> HIDE DEF A, B
    <3>3. QED
      BY <3>1, <3>2, <2>3
  <2>6. Cardinality(A \cup B) <= Cardinality(replicas[s])
    BY <2>1, <2>4, Finite, FS_Subset
  <2>7. failed[s] = Cardinality(B)
    BY <2>1 DEF CountersCount
  <2>8. /\ minSuccess(s) + maxFailures(s) = Cardinality(replicas[s])
        /\ minSuccess(s) \in Nat /\ maxFailures(s) \in Int /\ Cardinality(replicas[s]) \in Nat
    BY <2>1, Finite, Quorums DEF minSuccess, maxFailures
  <2>9. Cardinality(A) < minSuccess(s)
    <3> HIDE DEF A, B
    <3>1. QED
      BY <2>2, <2>3, <2>5, <2>6, <2>7, <2>8
  <2>10. QED
    BY <2>9
<1>2. QED
  BY <1>1, PushInvariant, PTL
=============================================================================
