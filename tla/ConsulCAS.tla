------------------------------ MODULE ConsulCAS ------------------------------
(***************************************************************************)
(* consulClient.CAS (src/ring/consul_client.go): several clients, each in  *)
(* one call of CAS on the same key, get the value, apply their callback    *)
(* and write the result on condition that the key has not changed, at most *)
(* MaxRetries times. Shown to implement AtomicUpdate. Consul's index only  *)
(* grows, also when the key is deleted.                                    *)
(***************************************************************************)
EXTENDS Naturals, Sequences

CONSTANTS
  Clients,
  MaxRetries,   \* retries
  MaxDeletes    \* bound on how often the key is lost

ASSUME CASAssumption == MaxRetries \in Nat /\ MaxDeletes \in Nat

VARIABLES
  value,         \* the key's value in Consul: the callbacks applied, in order
  exists,        \* whether the key exists
  modifyIndex,   \* its ModifyIndex
  lastIndex,     \* Consul's index, which every write increases
  deletes,
  call,          \* client -> "running", or what its call returned
  pc,            \* client -> "get" or "cas"
  tries,         \* client -> i, the number of attempts made
  index,         \* client -> index
  intermediate   \* client -> the value it read

consul == <<value, exists, modifyIndex, lastIndex, deletes>>
client == <<call, pc, tries, index, intermediate>>
vars == <<consul, client>>

Init ==
  /\ value = << >>
  /\ exists = FALSE
  /\ modifyIndex = 0 /\ lastIndex = 0
  /\ deletes = 0
  /\ call = [c \in Clients |-> "running"]
  /\ pc = [c \in Clients |-> "get"]
  /\ tries = [c \in Clients |-> 0]
  /\ index = [c \in Clients |-> 0]
  /\ intermediate = [c \in Clients |-> << >>]

(* continue: the next attempt, or the error after the last one.            *)
Continue(c) ==
  /\ tries' = [tries EXCEPT ![c] = @ + 1]
  /\ call' = IF tries[c] + 1 >= MaxRetries THEN [call EXCEPT ![c] = "failed"] ELSE call
  /\ pc' = [pc EXCEPT ![c] = "get"]

(* kv.Get. index keeps what an earlier attempt left when there is no key.  *)
Get(c) ==
  /\ call[c] = "running" /\ pc[c] = "get"
  /\ pc' = [pc EXCEPT ![c] = "cas"]
  /\ index' = [index EXCEPT ![c] = IF exists THEN modifyIndex ELSE @]
  /\ intermediate' = [intermediate EXCEPT ![c] = value]
  /\ UNCHANGED <<consul, call, tries>>

GetFails(c) ==
  /\ call[c] = "running" /\ pc[c] = "get"
  /\ Continue(c)
  /\ UNCHANGED <<consul, index, intermediate>>

(* The callback refuses the value (to unregister from an empty ring).      *)
CallbackFails(c) ==
  /\ call[c] = "running" /\ pc[c] = "cas"
  /\ call' = [call EXCEPT ![c] = "failed"]
  /\ UNCHANGED <<consul, pc, tries, index, intermediate>>

(* Consul's check-and-set: index 0 creates, another one must match.        *)
Matches(c) == IF exists THEN index[c] # 0 /\ index[c] = modifyIndex ELSE index[c] = 0

Write(c) ==
  /\ value' = Append(intermediate[c], c)
  /\ exists' = TRUE
  /\ lastIndex' = lastIndex + 1
  /\ modifyIndex' = lastIndex + 1
  /\ UNCHANGED deletes

CASOk(c) ==
  /\ call[c] = "running" /\ pc[c] = "cas"
  /\ Matches(c)
  /\ Write(c)
  /\ call' = [call EXCEPT ![c] = "ok"]
  /\ UNCHANGED <<pc, tries, index, intermediate>>

(* The write is done, the answer is an error. *)
CASAnswerLost(c) ==
  /\ call[c] = "running" /\ pc[c] = "cas"
  /\ Matches(c)
  /\ Write(c)
  /\ Continue(c)
  /\ UNCHANGED <<index, intermediate>>

(* Mutant: the answer "not ok" is taken for success.                       *)
CASFailsMutant(c) ==
  /\ call[c] = "running" /\ pc[c] = "cas"
  /\ call' = [call EXCEPT ![c] = "ok"]
  /\ UNCHANGED <<consul, pc, tries, index, intermediate>>

(* The key has changed, or the request is lost. *)
CASFails(c) ==
  /\ call[c] = "running" /\ pc[c] = "cas"
  /\ Continue(c)
  /\ UNCHANGED <<consul, index, intermediate>>

(* Consul restarts without the key. *)
Delete ==
  /\ exists /\ deletes < MaxDeletes
  /\ exists' = FALSE
  /\ value' = << >>
  /\ deletes' = deletes + 1
  /\ UNCHANGED <<modifyIndex, lastIndex, client>>

Next ==
  \/ Delete
  \/ \E c \in Clients :
       \/ Get(c) \/ GetFails(c) \/ CallbackFails(c)
       \/ CASOk(c) \/ CASAnswerLost(c) \/ CASFails(c)

Spec == Init /\ [][Next]_vars

-----------------------------------------------------------------------------
TypeOK ==
  /\ value \in Seq(Clients)
  /\ exists \in BOOLEAN
  /\ modifyIndex \in Nat /\ lastIndex \in Nat /\ deletes \in Nat
  /\ call \in [Clients -> {"running", "ok", "failed"}]
  /\ pc \in [Clients -> {"get", "cas"}]
  /\ tries \in [Clients -> Nat]
  /\ index \in [Clients -> Nat]
  /\ intermediate \in [Clients -> Seq(Clients)]

(* The index a client holds stands for the value it read: when the index   *)
(* still is the key's, so is the value. This is what makes CAS atomic      *)
(* although it reads and writes in two requests.                           *)
IndexIdentifiesValue ==
  /\ exists => modifyIndex > 0 /\ modifyIndex <= lastIndex
  /\ ~exists => value = << >>
  /\ \A c \in Clients :
       /\ index[c] <= lastIndex
       /\ index[c] = 0 => intermediate[c] = << >>
       /\ (pc[c] = "cas" /\ exists /\ index[c] = modifyIndex) => intermediate[c] = value

IInv == TypeOK /\ IndexIdentifiesValue

Atomic == INSTANCE AtomicUpdate

(* CAS implements AtomicUpdate: no update of another client is lost, and   *)
(* success means that the callback was applied to the value of that        *)
(* moment, whatever answers are lost, requests repeated and keys deleted.  *)
ImplementsAtomicUpdate == Atomic!Spec
====
