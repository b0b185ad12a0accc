----------------------- MODULE DistributorQueryProofs -----------------------
(***************************************************************************)
(* Proofs about DistributorQuery, for every set of ingesters and samples.  *)
(***************************************************************************)
EXTENDS DistributorQuery, FiniteSetTheorems, TLAPS

(* Two majorities of the same finite set meet: the fact that reads by      *)
(* quorum rest on.                                                         *)
LEMMA MajoritiesMeet ==
  ASSUME NEW S, IsFiniteSet(S),
         NEW A \in SUBSET S, NEW B \in SUBSET S,
         2 * Cardinality(A) > Cardinality(S),
         2 * Cardinality(B) > Cardinality(S)
  PROVE  A \cap B # {}
<1>1. IsFiniteSet(A) /\ IsFiniteSet(B)
  BY FS_Subset
<1>2. /\ Cardinality(S) \in Nat
      /\ Cardinality(A) \in Nat
      /\ Cardinality(B) \in Nat
  BY <1>1, FS_CardinalityType
<1>3. Cardinality(A \cup B) = Cardinality(A) + Cardinality(B) - Cardinality(A \cap B)
  BY <1>1, FS_Union
<1>4. A \cup B \in SUBSET S
  OBVIOUS
<1>5. Cardinality(A \cup B) <= Cardinality(S)
  BY <1>4, FS_Subset
<1>6. A \cap B = {} => Cardinality(A \cap B) = 0
  BY FS_EmptySet
<1>7. QED
  BY <1>2, <1>3, <1>5, <1>6

(* The initial state: nothing is acknowledged.                             *)
LEMMA InitInv == Init => IInv
<1> SUFFICES ASSUME Init PROVE IInv
  OBVIOUS
<1>1. TypeOK
  BY DEF Init, TypeOK, Holders
<1>2. ASSUME NEW s \in acked
      PROVE  \E H \in SUBSET replicas :
               /\ 2 * Cardinality(H) > Cardinality(replicas)
               /\ \A i \in H : s \in stored[i] /\ (i \in results \cup merged \cup listed => s \in resp[i])
  <2>1. 2 * Cardinality(Holders(s)) > Cardinality(replicas)
    BY DEF Init
  <2>2. \A i \in Holders(s) : s \in stored[i] /\ i \notin results \cup merged \cup listed
    BY DEF Init, Holders
  <2>3. Holders(s) \in SUBSET replicas
    BY DEF Holders
  <2>4. QED
    BY <2>1, <2>2, <2>3
<1>3. Failed = {} /\ Cardinality(Failed) = 0
  BY FS_EmptySet DEF Init, Failed
<1>4. QED
  BY <1>1, <1>2, <1>3 DEF Init, IInv

(* What an acknowledged sample's holders say survives a step that keeps    *)
(* their samples and answers only with what is stored.                     *)
HeldInv ==
  \A s \in acked : \E H \in SUBSET replicas :
    /\ 2 * Cardinality(H) > Cardinality(replicas)
    /\ \A i \in H : s \in stored[i] /\ (i \in results \cup merged \cup listed => s \in resp[i])

(* Replicas lose nothing, and a response is what a replica held when it    *)
(* answered.                                                               *)
LEMMA HeldPreserved ==
  ASSUME HeldInv, UNCHANGED <<acked, replicas>>,
         \A i \in replicas : stored[i] \subseteq stored'[i],
         \A i \in replicas : i \in results' \cup merged' \cup listed' =>
           \/ i \in results \cup merged \cup listed /\ resp'[i] = resp[i]
           \/ resp'[i] = stored[i]
  PROVE  HeldInv'
<1> SUFFICES ASSUME NEW s \in acked
             PROVE  \E H \in SUBSET replicas :
                      /\ 2 * Cardinality(H) > Cardinality(replicas)
                      /\ \A i \in H : s \in stored'[i] /\ (i \in results' \cup merged' \cup listed' => s \in resp'[i])
  BY DEF HeldInv
<1>1. PICK H \in SUBSET replicas :
        /\ 2 * Cardinality(H) > Cardinality(replicas)
        /\ \A i \in H : s \in stored[i] /\ (i \in results \cup merged \cup listed => s \in resp[i])
  BY DEF HeldInv
<1>2. \A i \in H : s \in stored'[i] /\ (i \in results' \cup merged' \cup listed' => s \in resp'[i])
  BY <1>1
<1>3. QED
  BY <1>1, <1>2

(* What forAllIngesters counts.                                            *)
CallInv ==
  /\ \A i \in Ingesters : worker[i] = "call" => query = "all" /\ i \notin listed
  /\ query = "start" => numErrs = 0 /\ listed = {}
  /\ query \in {"all", "listed"} => numErrs = Cardinality(Failed)
  /\ query \in {"all", "listed"} =>
       \A i \in asked : worker[i] = "call" \/ i \in listed \cup Failed
  /\ query = "listed" => numErrs <= ReplicationFactor \div 2

(* Each step of a query or a push keeps the invariant.                     *)
LEMMA StepInv == IInv /\ [Next]_vars => IInv'
<1> SUFFICES ASSUME IInv, [Next]_vars PROVE IInv'
  OBVIOUS
<1>0. TypeOK /\ HeldInv /\ CallInv
  BY DEF IInv, HeldInv, CallInv
<1> USE DEF minSuccess
<1>8. CASE Refuse
  <2>1. TypeOK'
    BY <1>8, <1>0 DEF Refuse, TypeOK
  <2>2. HeldInv'
    BY <1>8, <1>0, HeldPreserved DEF Refuse
  <2>3. QED
    BY <1>8, <1>0, <2>1, <2>2 DEF Refuse, IInv, HeldInv, CallInv, TypeOK
<1>1. CASE Start
  <2>1. TypeOK'
    BY <1>1, <1>0 DEF Start, TypeOK
  <2>2. HeldInv'
    BY <1>1, <1>0, HeldPreserved DEF Start
  <2>3. QED
    BY <1>1, <1>0, <2>1, <2>2 DEF Start, IInv, HeldInv, CallInv, TypeOK
<1>2. ASSUME NEW i \in Ingesters, NEW s \in Samples, Ingest(i, s) PROVE IInv'
  <2>1. TypeOK'
    BY <1>2, <1>0 DEF Ingest, TypeOK
  <2>2. \A j \in replicas : stored[j] \subseteq stored'[j]
    BY <1>2, <1>0 DEF Ingest, TypeOK
  <2>3. HeldInv'
    BY <1>2, <1>0, <2>2, HeldPreserved DEF Ingest
  <2>4. Failed' = Failed
    BY <1>2 DEF Ingest, Failed
  <2>5. QED
    BY <1>2, <2>1, <2>3, <2>4 DEF Ingest, IInv, HeldInv
<1>3. ASSUME NEW i \in Ingesters, Answer(i) PROVE IInv'
  <2>1. TypeOK'
    BY <1>3, <1>0 DEF Answer, TypeOK
  <2>2. \A j \in replicas : j \in results' \cup merged' \cup listed' =>
           \/ j \in results \cup merged \cup listed /\ resp'[j] = resp[j]
           \/ resp'[j] = stored[j]
    BY <1>3, <1>0 DEF Answer, TypeOK
  <2>3. HeldInv'
    BY <1>3, <1>0, <2>2, HeldPreserved DEF Answer
  <2>4. i \in replicas /\ i \notin results \cup merged
    BY <1>3, <1>0 DEF Answer, IInv
  <2>5. query \in {"wait", "ok", "err"}
    BY <1>3 DEF Answer, IInv
  <2>6. \A j \in Ingesters : worker'[j] = "rpc" => worker[j] = "rpc" /\ j # i
    BY <1>3, <1>0 DEF Answer, TypeOK
  <2>7. \A j \in Ingesters : worker'[j] = "rpc" =>
          query' \in {"wait", "ok", "err"} /\ j \in replicas' \ (results' \cup merged')
    BY <1>3, <2>6 DEF Answer, IInv
  <2>8. results' \cup merged' \subseteq replicas' /\ results' \cap merged' = {}
    BY <1>3, <2>4 DEF Answer, IInv
  <2>9. query' = "ok" => Cardinality(merged') >= minSuccess'
    BY <1>3 DEF Answer, IInv
  <2>10. CallInv'
    BY <1>3, <1>0, <2>5 DEF Answer, CallInv, TypeOK
  <2>11. QED
    BY <1>3, <2>1, <2>3, <2>5, <2>7, <2>8, <2>9, <2>10 DEF Answer, IInv, HeldInv, CallInv
<1>4. ASSUME NEW i \in Ingesters, Fail(i) PROVE IInv'
  <2>1. TypeOK'
    BY <1>4, <1>0 DEF Fail, TypeOK
  <2>2. HeldInv'
    BY <1>4, <1>0, HeldPreserved DEF Fail
  <2>3. query \in {"wait", "ok", "err"}
    BY <1>4 DEF Fail, IInv
  <2>4. CallInv'
    BY <1>4, <1>0, <2>3 DEF Fail, CallInv, TypeOK
  <2>5. QED
    BY <1>4, <2>1, <2>2, <2>4 DEF Fail, IInv, HeldInv, CallInv
<1>5. ASSUME NEW i \in Ingesters, ReturnErr(i) PROVE IInv'
  <2>1. TypeOK'
    BY <1>5, <1>0 DEF ReturnErr, TypeOK
  <2>2. HeldInv'
    BY <1>5, <1>0, HeldPreserved DEF ReturnErr
  <2>3. CallInv'
    BY <1>5, <1>0 DEF ReturnErr, CallInv, TypeOK
  <2>4. QED
    BY <1>5, <2>1, <2>2, <2>3 DEF ReturnErr, IInv, HeldInv, CallInv
<1>6. ASSUME NEW i \in Ingesters, Merge(i) PROVE IInv'
  <2>1. TypeOK'
    BY <1>6, <1>0 DEF Merge, TypeOK
  <2>2. HeldInv'
    BY <1>6, <1>0, HeldPreserved DEF Merge
  <2>3. IsFiniteSet(replicas) /\ Cardinality(replicas) \in Nat
    BY <1>0, FS_Subset, FS_CardinalityType, QueryAssumption DEF TypeOK
  <2>4. query' = "ok" => Cardinality(merged') >= minSuccess'
    BY <1>6, <2>3 DEF Merge
  <2>5. CallInv'
    BY <1>6, <1>0 DEF Merge, CallInv, TypeOK
  <2>6. QED
    BY <1>6, <2>1, <2>2, <2>4, <2>5 DEF Merge, IInv, HeldInv, CallInv
<1>7. CASE UNCHANGED vars
  <2>1. TypeOK'
    BY <1>7, <1>0 DEF vars, TypeOK
  <2>2. HeldInv'
    BY <1>7, <1>0, HeldPreserved DEF vars
  <2>3. QED
    BY <1>7, <2>1, <2>2 DEF vars, IInv, HeldInv, Failed
<1>10. CASE forAllIngesters
  <2>1. TypeOK'
    BY <1>10, <1>0 DEF forAllIngesters, TypeOK
  <2>2. HeldInv'
    BY <1>10, <1>0, HeldPreserved DEF forAllIngesters
  <2>3. numErrs = 0 /\ listed = {} /\ Failed' = {} /\ Cardinality(Failed') = 0
    BY <1>10, FS_EmptySet DEF forAllIngesters, IInv, Failed
  <2>4. QED
    BY <1>10, <2>1, <2>2, <2>3 DEF forAllIngesters, IInv, HeldInv, TypeOK
<1>11. ASSUME NEW i \in Ingesters, Respond(i) PROVE IInv'
  <2>1. TypeOK'
    BY <1>11, <1>0 DEF Respond, TypeOK
  <2>2. \A j \in replicas : j \in results' \cup merged' \cup listed' =>
           \/ j \in results \cup merged \cup listed /\ resp'[j] = resp[j]
           \/ resp'[j] = stored[j]
    BY <1>11, <1>0 DEF Respond, TypeOK
  <2>3. HeldInv'
    BY <1>11, <1>0, <2>2, HeldPreserved DEF Respond
  <2>4. query = "all" /\ Failed' = Failed
    BY <1>11, <1>0 DEF Respond, CallInv, TypeOK, Failed
  <2>5. CallInv'
    BY <1>11, <1>0, <2>4 DEF Respond, CallInv, TypeOK
  <2>6. QED
    BY <1>11, <1>0, <2>1, <2>3, <2>4, <2>5 DEF Respond, IInv, HeldInv, CallInv, TypeOK
<1>12. ASSUME NEW i \in Ingesters, RespondErr(i) PROVE IInv'
  <2>1. TypeOK'
    BY <1>12, <1>0 DEF RespondErr, TypeOK
  <2>2. HeldInv'
    BY <1>12, <1>0, HeldPreserved DEF RespondErr
  <2>3. query = "all" /\ i \notin Failed /\ Failed' = Failed \cup {i}
    BY <1>12, <1>0 DEF RespondErr, CallInv, TypeOK, Failed
  <2>4. Cardinality(Failed') = Cardinality(Failed) + 1
    <3>1. IsFiniteSet(Failed)
      BY FS_Subset, QueryAssumption DEF Failed
    <3>2. QED
      BY <3>1, <2>3, FS_AddElement, SMTT(20)
  <2>5. CallInv'
    BY <1>12, <1>0, <2>3, <2>4 DEF RespondErr, CallInv, TypeOK
  <2>6. QED
    BY <1>12, <1>0, <2>1, <2>2, <2>3, <2>5 DEF RespondErr, IInv, HeldInv, CallInv, TypeOK
<1>13. CASE ReturnAll
  <2>1. TypeOK'
    BY <1>13, <1>0 DEF ReturnAll, TypeOK
  <2>2. HeldInv'
    BY <1>13, <1>0, HeldPreserved DEF ReturnAll
  <2>3. Failed' = Failed
    BY <1>13 DEF ReturnAll, Failed
  <2>4. CallInv'
    <3>1. ReplicationFactor \div 2 \in Nat /\ numErrs \in Nat
      BY <1>0, QueryAssumption DEF TypeOK
    <3>2. QED
      BY <1>13, <1>0, <2>3, <3>1 DEF ReturnAll, CallInv, TypeOK
  <2>5. QED
    BY <1>13, <2>1, <2>2, <2>4 DEF ReturnAll, IInv, HeldInv, CallInv
<1>9. QED
  BY <1>8, <1>1, <1>2, <1>3, <1>4, <1>5, <1>6, <1>7, <1>10, <1>11, <1>12, <1>13 DEF Next, Step

(* The answers that Query merges come from a majority of the replicas and  *)
(* every acknowledged sample has a majority that answers with it.          *)
THEOREM QueryInvariant == Spec => []IInv
<1>1. IInv /\ [Next]_vars => IInv'
  BY StepInv
<1>2. QED
  BY InitInv, <1>1, PTL DEF Spec

(* A query that succeeds returns every sample acknowledged before it       *)
(* began, for every number of replicas, whoever fails.                     *)
THEOREM QueryReadsAcked == Spec => []ReadsAcked
<1>1. IInv => ReadsAcked
  <2> SUFFICES ASSUME IInv, query = "ok", NEW s \in acked
               PROVE  s \in Result
    BY DEF ReadsAcked
  <2>1. IsFiniteSet(replicas) /\ Cardinality(replicas) \in Nat
    BY FS_Subset, FS_CardinalityType, QueryAssumption DEF IInv, TypeOK
  <2>2. merged \in SUBSET replicas
    BY DEF IInv
  <2>3. Cardinality(merged) \in Nat
    BY <2>1, <2>2, FS_Subset, FS_CardinalityType
  <2>4. 2 * Cardinality(merged) > Cardinality(replicas)
    BY <2>1, <2>3 DEF IInv, minSuccess
  <2>5. PICK H \in SUBSET replicas :
          /\ 2 * Cardinality(H) > Cardinality(replicas)
          /\ \A i \in H : s \in stored[i] /\ (i \in results \cup merged \cup listed => s \in resp[i])
    BY DEF IInv
  <2>6. PICK i \in H : i \in merged
    BY <2>1, <2>2, <2>4, <2>5, MajoritiesMeet
  <2>7. QED
    BY <2>5, <2>6 DEF Result
<1>2. QED
  BY <1>1, QueryInvariant, PTL

(* A listing by forAllIngesters that succeeds has every sample acknowledged*)
(* before it, for every replication factor and every number of ingesters,  *)
(* when no replica was left out for its heartbeat.                         *)
THEOREM ListingHasAcked == Spec => []ListsAcked
<1>1. IInv => ListsAcked
  <2> SUFFICES ASSUME IInv, query = "listed", replicas \subseteq asked,
                      Cardinality(replicas) >= ReplicationFactor, NEW s \in acked
               PROVE  s \in Listed
    BY DEF ListsAcked
  <2>1. PICK H \in SUBSET replicas :
          /\ 2 * Cardinality(H) > Cardinality(replicas)
          /\ \A i \in H : s \in stored[i] /\ (i \in results \cup merged \cup listed => s \in resp[i])
    BY DEF IInv
  <2>2. IsFiniteSet(Failed) /\ IsFiniteSet(replicas) /\ H \subseteq Ingesters
    BY FS_Subset, QueryAssumption DEF Failed, IInv, TypeOK
  <2>3. /\ Cardinality(H) \in Nat /\ Cardinality(replicas) \in Nat /\ Cardinality(Failed) \in Nat
        /\ H \subseteq Failed => Cardinality(H) <= Cardinality(Failed)
    BY <2>2, FS_Subset, FS_CardinalityType
  <2>4. Cardinality(Failed) <= ReplicationFactor \div 2
    BY DEF IInv
  <2>5. ~(H \subseteq Failed)
    BY <2>1, <2>3, <2>4, QueryAssumption
  <2>6. PICK i \in H : i \notin Failed
    BY <2>5
  <2>7. i \in listed
    BY <2>2, <2>6 DEF IInv
  <2>8. QED
    BY <2>1, <2>6, <2>7 DEF Listed
<1>2. QED
  BY <1>1, QueryInvariant, PTL
=============================================================================
