---------------------------- MODULE AtomicUpdate ----------------------------
(***************************************************************************)
(* What ConsulClient.CAS promises (src/ring/consul_client.go: "CAS         *)
(* atomically modifies a value in a callback"): a call that succeeds       *)
(* applies its callback to the value of that moment. The value is          *)
(* represented by the callbacks applied to it, in order.                   *)
(***************************************************************************)
EXTENDS Sequences

CONSTANT Clients

VARIABLES value, call

Init ==
  /\ value = << >>
  /\ call = [c \in Clients |-> "running"]

(* The callback of c is applied. c need not learn of it: it may try again, *)
(* or report a failure.                                                    *)
Update(c) ==
  /\ call[c] = "running"
  /\ value' = Append(value, c)
  /\ \E result \in {"running", "ok", "failed"} : call' = [call EXCEPT ![c] = result]

GiveUp(c) ==
  /\ call[c] = "running"
  /\ call' = [call EXCEPT ![c] = "failed"]
  /\ UNCHANGED value

(* Consul restarts without the value. *)
Lose ==
  /\ value' = << >>
  /\ UNCHANGED call

Next == Lose \/ \E c \in Clients : Update(c) \/ GiveUp(c)

Spec == Init /\ [][Next]_<<value, call>>
====
