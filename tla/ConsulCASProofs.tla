--------------------------- MODULE ConsulCASProofs ---------------------------
(***************************************************************************)
(* For any number of clients, retries and deletions, consulClient.CAS      *)
(* implements AtomicUpdate.                                                *)
(***************************************************************************)
EXTENDS ConsulCAS, TLAPS

(* The initial state: no value is written.                                 *)
LEMMA InitInv == Init => IInv
<1> SUFFICES ASSUME Init PROVE IInv OBVIOUS
<1>1. << >> \in Seq(Clients) OBVIOUS
<1>2. TypeOK BY <1>1 DEF Init, TypeOK
<1>3. IndexIdentifiesValue BY DEF Init, IndexIdentifiesValue
<1> QED BY <1>2, <1>3 DEF IInv

(* Get keeps the invariant: a client reads value and index together.       *)
LEMMA GetInv ==
  ASSUME IInv, NEW c \in Clients, Get(c) PROVE IInv'
<1>1. TypeOK'
  BY DEF IInv, TypeOK, Get, consul
<1>2. IndexIdentifiesValue'
  BY DEF IInv, TypeOK, IndexIdentifiesValue, Get, consul
<1> QED BY <1>1, <1>2 DEF IInv

(* An attempt that changes nothing in Consul leaves the indices alone.     *)
LEMMA QuietInv ==
  ASSUME IInv, NEW c \in Clients,
         UNCHANGED <<consul, index, intermediate>>,
         call' \in [Clients -> {"running", "ok", "failed"}],
         pc' = pc \/ pc' = [pc EXCEPT ![c] = "get"],
         tries' \in [Clients -> Nat]
  PROVE  IInv'
<1>1. TypeOK'
  BY DEF IInv, TypeOK, consul
<1>2. IndexIdentifiesValue'
  BY DEF IInv, TypeOK, IndexIdentifiesValue, consul
<1> QED BY <1>1, <1>2 DEF IInv

(* After a failed CAS the client goes back to Get, or gives up.            *)
LEMMA ContinueType ==
  ASSUME TypeOK, NEW c \in Clients, Continue(c)
  PROVE  /\ call' \in [Clients -> {"running", "ok", "failed"}]
         /\ pc' = [pc EXCEPT ![c] = "get"]
         /\ tries' \in [Clients -> Nat]
  BY DEF TypeOK, Continue

(* A write gives the key an index nobody has seen: only a client that      *)
(* reads again can match it.                                               *)
LEMMA WriteInv ==
  ASSUME IInv, NEW c \in Clients, Write(c),
         UNCHANGED <<index, intermediate>>,
         call' \in [Clients -> {"running", "ok", "failed"}],
         pc' = pc \/ pc' = [pc EXCEPT ![c] = "get"],
         tries' \in [Clients -> Nat]
  PROVE  IInv'
<1>1. value' \in Seq(Clients)
  <2>1. intermediate[c] \in Seq(Clients) BY DEF IInv, TypeOK
  <2> QED BY <2>1 DEF Write
<1>2. TypeOK'
  <2>1. modifyIndex' \in Nat /\ lastIndex' \in Nat /\ deletes' \in Nat
    BY DEF IInv, TypeOK, Write
  <2>2. exists' \in BOOLEAN BY DEF Write
  <2>3. pc' \in [Clients -> {"get", "cas"}] BY DEF IInv, TypeOK
  <2> QED BY <1>1, <2>1, <2>2, <2>3 DEF IInv, TypeOK
<1>3. IndexIdentifiesValue'
  <2>1. modifyIndex' > 0 /\ modifyIndex' = lastIndex' /\ lastIndex' > lastIndex
    BY DEF IInv, TypeOK, Write
  <2>2. exists' BY DEF Write
  <2>3. ASSUME NEW d \in Clients
        PROVE  /\ index'[d] <= lastIndex' /\ index'[d] # modifyIndex'
               /\ index'[d] = 0 => intermediate'[d] = << >>
    <3>1. index[d] \in Nat /\ index[d] <= lastIndex /\ (index[d] = 0 => intermediate[d] = << >>)
      BY DEF IInv, TypeOK, IndexIdentifiesValue
    <3>2. lastIndex \in Nat BY DEF IInv, TypeOK
    <3> QED BY <2>1, <3>1, <3>2 DEF Write
  <2>4. modifyIndex' <= lastIndex' BY <2>1 DEF Write, IInv, TypeOK
  <2> QED BY <2>1, <2>2, <2>3, <2>4 DEF IndexIdentifiesValue
<1> QED BY <1>2, <1>3 DEF IInv

(* A deleted key keeps the invariant, since its index is never used again. *)
LEMMA DeleteInv ==
  ASSUME IInv, Delete PROVE IInv'
<1>1. TypeOK'
  <2>1. << >> \in Seq(Clients) OBVIOUS
  <2>2. deletes' \in Nat BY DEF IInv, TypeOK, Delete
  <2> QED BY <2>1, <2>2 DEF IInv, TypeOK, Delete, client
<1>2. IndexIdentifiesValue'
  BY DEF IInv, TypeOK, IndexIdentifiesValue, Delete, client
<1> QED BY <1>1, <1>2 DEF IInv

(* A client whose index matches holds the key's value, so what it writes   *)
(* is its callback applied to the value of that moment.                    *)
LEMMA WriteAppends ==
  ASSUME IInv, NEW c \in Clients, pc[c] = "cas", Matches(c), Write(c)
  PROVE  value' = Append(value, c)
<1>1. CASE exists
  BY <1>1 DEF IInv, IndexIdentifiesValue, Matches, Write
<1>2. CASE ~exists
  BY <1>2 DEF IInv, IndexIdentifiesValue, Matches, Write
<1> QED BY <1>1, <1>2 DEF IInv, TypeOK

(* The index a client holds identifies the value it read, in every         *)
(* reachable state.                                                        *)
THEOREM CASInvariant == Spec => []IInv
<1>1. IInv /\ [Next]_vars => IInv'
  <2> SUFFICES ASSUME IInv, [Next]_vars PROVE IInv' OBVIOUS
  <2> USE DEF IInv
  <2>1. CASE Delete BY <2>1, DeleteInv
  <2>2. ASSUME NEW c \in Clients, Get(c) PROVE IInv' BY <2>2, GetInv
  <2>3. ASSUME NEW c \in Clients, GetFails(c) PROVE IInv'
    BY <2>3, ContinueType, QuietInv DEF GetFails
  <2>4. ASSUME NEW c \in Clients, CallbackFails(c) PROVE IInv'
    <3>1. call' \in [Clients -> {"running", "ok", "failed"}] /\ tries' \in [Clients -> Nat]
      BY <2>4 DEF CallbackFails, TypeOK
    <3> QED BY <2>4, <3>1, QuietInv DEF CallbackFails
  <2>5. ASSUME NEW c \in Clients, CASOk(c) PROVE IInv'
    <3>1. call' \in [Clients -> {"running", "ok", "failed"}] /\ tries' \in [Clients -> Nat]
      BY <2>5 DEF CASOk, TypeOK
    <3> QED BY <2>5, <3>1, WriteInv DEF CASOk
  <2>6. ASSUME NEW c \in Clients, CASAnswerLost(c) PROVE IInv'
    BY <2>6, ContinueType, WriteInv DEF CASAnswerLost
  <2>7. ASSUME NEW c \in Clients, CASFails(c) PROVE IInv'
    BY <2>7, ContinueType, QuietInv DEF CASFails
  <2>8. CASE UNCHANGED vars
    BY <2>8 DEF vars, consul, client, TypeOK, IndexIdentifiesValue
  <2> QED BY <2>1, <2>2, <2>3, <2>4, <2>5, <2>6, <2>7, <2>8 DEF Next
<1> QED BY <1>1, InitInv, PTL DEF Spec

(* The abstract step behind an attempt that fails.                         *)
LEMMA ContinueStep ==
  ASSUME TypeOK, NEW c \in Clients, call[c] = "running", Continue(c)
  PROVE  \E result \in {"running", "failed"} : call' = [call EXCEPT ![c] = result]
<1>1. CASE tries[c] + 1 >= MaxRetries BY <1>1 DEF Continue
<1>2. CASE ~(tries[c] + 1 >= MaxRetries)
  <2>1. call' = [call EXCEPT ![c] = "running"] BY <1>2 DEF Continue, TypeOK
  <2> QED BY <2>1
<1> QED BY <1>1, <1>2

(* Every behaviour of CAS is one of AtomicUpdate: a successful call        *)
(* applied its callback to the current value, and no update is lost.       *)
THEOREM CASImplementsAtomicUpdate == Spec => ImplementsAtomicUpdate
<1>1. Init => Atomic!Init
  BY DEF Init, Atomic!Init
<1>2. IInv /\ [Next]_vars => [Atomic!Next]_<<value, call>>
  <2> SUFFICES ASSUME IInv, [Next]_vars PROVE [Atomic!Next]_<<value, call>> OBVIOUS
  <2> USE DEF IInv
  <2>1. CASE Delete BY <2>1 DEF Delete, client, Atomic!Next, Atomic!Lose
  <2>2. ASSUME NEW c \in Clients, Get(c) PROVE UNCHANGED <<value, call>>
    BY <2>2 DEF Get, consul
  <2>3. ASSUME NEW c \in Clients, GetFails(c) PROVE [Atomic!Next]_<<value, call>>
    <3>1. PICK r \in {"running", "failed"} : call' = [call EXCEPT ![c] = r]
      BY <2>3, ContinueStep DEF GetFails
    <3>2. value' = value BY <2>3 DEF GetFails, consul
    <3>3. CASE r = "running" BY <3>1, <3>2, <3>3, <2>3 DEF GetFails, TypeOK
    <3>4. CASE r = "failed"
      BY <3>1, <3>2, <3>4, <2>3 DEF GetFails, Atomic!Next, Atomic!GiveUp
    <3> QED BY <3>3, <3>4
  <2>4. ASSUME NEW c \in Clients, CallbackFails(c) PROVE [Atomic!Next]_<<value, call>>
    BY <2>4 DEF CallbackFails, consul, Atomic!Next, Atomic!GiveUp
  <2>5. ASSUME NEW c \in Clients, CASOk(c) PROVE [Atomic!Next]_<<value, call>>
    <3>1. value' = Append(value, c) BY <2>5, WriteAppends DEF CASOk
    <3> QED BY <3>1, <2>5 DEF CASOk, Atomic!Next, Atomic!Update
  <2>6. ASSUME NEW c \in Clients, CASAnswerLost(c) PROVE [Atomic!Next]_<<value, call>>
    <3>1. value' = Append(value, c) BY <2>6, WriteAppends DEF CASAnswerLost
    <3>2. PICK r \in {"running", "failed"} : call' = [call EXCEPT ![c] = r]
      BY <2>6, ContinueStep DEF CASAnswerLost
    <3> QED BY <3>1, <3>2, <2>6 DEF CASAnswerLost, Atomic!Next, Atomic!Update
  <2>7. ASSUME NEW c \in Clients, CASFails(c) PROVE [Atomic!Next]_<<value, call>>
    <3>1. PICK r \in {"running", "failed"} : call' = [call EXCEPT ![c] = r]
      BY <2>7, ContinueStep DEF CASFails
    <3>2. value' = value BY <2>7 DEF CASFails, consul
    <3>3. CASE r = "running" BY <3>1, <3>2, <3>3, <2>7 DEF CASFails, TypeOK
    <3>4. CASE r = "failed"
      BY <3>1, <3>2, <3>4, <2>7 DEF CASFails, Atomic!Next, Atomic!GiveUp
    <3> QED BY <3>3, <3>4
  <2>8. CASE UNCHANGED vars BY <2>8 DEF vars, consul, client
  <2> QED BY <2>1, <2>2, <2>3, <2>4, <2>5, <2>6, <2>7, <2>8 DEF Next
<1> QED BY <1>1, <1>2, CASInvariant, PTL DEF Spec, ImplementsAtomicUpdate, Atomic!Spec
====
