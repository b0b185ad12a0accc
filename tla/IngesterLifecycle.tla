-------------------------- MODULE IngesterLifecycle --------------------------
(***************************************************************************)
(* The life of ingesters and the ring they share                           *)
(* (src/ingester/ingester_lifecycle.go, ingester_claim.go): joining,       *)
(* heartbeats, shutdown with the hand-over of chunks and tokens to a       *)
(* PENDING ingester, or a flush when there is none.                        *)
(*                                                                         *)
(* A change of the ring is one step here: it is a CAS (see ConsulCAS).     *)
(* The data are series of one sample, each written to one ingester. The    *)
(* gRPC stream of the hand-over delivers in order; its sender returns with *)
(* the status of the handler, after the handler has returned.              *)
(***************************************************************************)
EXTENDS RingDesc

CONSTANTS
  Data,            \* series that may be written
  NumTokens,       \* cfg.NumTokens
  ClaimOnRollout,  \* cfg.ClaimOnRollout
  MaxCrashes,      \* bound on crashes
  MaxWipes,        \* bound on losses of the ring ("consul must have restarted")
  StreamErrors,    \* whether the stream of a hand-over may break
  ConsulErrors,    \* whether CAS may give up, or apply and fail to say so
  StaleWrites,     \* whether an ingester may register anew while distributors
                   \* still write to it as ACTIVE, from a copy of an old ring
  Forgetting,      \* whether an operator forgets ingesters (ring/http.go)
  Nil              \* no value

ASSUME LifecycleAssumption ==
  /\ NumTokens \in Nat /\ MaxCrashes \in Nat /\ MaxWipes \in Nat
  /\ {ClaimOnRollout, StreamErrors, ConsulErrors, StaleWrites, Forgetting} \subseteq BOOLEAN

VARIABLES
  ring,      \* the Desc in Consul, or Nil
  targets,   \* the ingesters the distributors' copy of the ring says are ACTIVE
  proc,      \* id -> where the process is
  state,     \* id -> Ingester.state
  tokens,    \* id -> Ingester.tokens
  target,    \* id -> whom it hands over to
  next,      \* id -> the series fpToSeries.iter() has produced, not yet sent
  sent,      \* id -> the series sent
  handed,    \* id -> transferChunks succeeded
  rcv,       \* id -> its TransferChunks handler
  staged,    \* id -> the userStates that handler is filling
  mem,       \* id -> the series in userStates
  store,     \* the chunk store (external)
  acked,     \* the data an ingester has acknowledged
  lost,      \* the data in memory of an ingester when it crashed
  crashes, wipes,
  evicted    \* an ingester was forgotten while its process ran (for properties)

local == <<state, tokens>>
sender == <<target, next, sent, handed>>
receiver == <<rcv, staged>>
data == <<mem, store, acked, lost>>
bounds == <<crashes, wipes, evicted>>
vars == <<ring, targets, proc, local, sender, receiver, data, bounds>>

NoHandler == [pc |-> "none", from |-> Nil, named |-> FALSE]

(* The loop goroutine runs, and takes functions from actorChan.            *)
Looping(i) == proc[i] \in {"loop", "drain"}
Running(i) == proc[i] \notin {"off", "gone"}
(* A handler is at work: GracefulStop waits for it.                        *)
Handling(i) == rcv[i].pc \in {"recv", "claim", "activate", "install"}

Desc == IF ring = Nil THEN NewDesc ELSE ring

Init ==
  /\ ring = Nil
  /\ targets = {}
  /\ proc = [i \in Ids |-> "off"]
  /\ state = [i \in Ids |-> PENDING]
  /\ tokens = [i \in Ids |-> << >>]
  /\ target = [i \in Ids |-> Nil]
  /\ next = [i \in Ids |-> Nil]
  /\ sent = [i \in Ids |-> {}]
  /\ handed = [i \in Ids |-> FALSE]
  /\ rcv = [i \in Ids |-> NoHandler]
  /\ staged = [i \in Ids |-> {}]
  /\ mem = [i \in Ids |-> {}]
  /\ store = {} /\ acked = {} /\ lost = {}
  /\ crashes = 0 /\ wipes = 0 /\ evicted = FALSE

-----------------------------------------------------------------------------
(* Starting and joining.                                                   *)

(* New, and initRing: an ingester found in the ring takes its state and    *)
(* its tokens from there, another one is added with no tokens.             *)
initRing(i) ==
  /\ proc[i] = "off"
  /\ proc' = [proc EXCEPT ![i] = "loop"]
  /\ IF i \in Members(Desc)
     THEN /\ state' = [state EXCEPT ![i] = Desc.ingesters[i]]
          /\ tokens' = [tokens EXCEPT ![i] = TokensFor(Desc, i).tokens]
          /\ ring' = Desc
     ELSE /\ StaleWrites \/ i \notin targets
          /\ ring' = AddIngester(Desc, i, << >>, PENDING)
          /\ UNCHANGED local
  /\ UNCHANGED <<targets, sender, receiver, data, bounds>>

(* autoJoinAfter fires once; nothing ever makes the state PENDING again.   *)
autoJoin(i) ==
  /\ Looping(i)
  /\ state[i] = PENDING
  /\ state' = [state EXCEPT ![i] = ACTIVE]
  /\ LET mine == TokensFor(Desc, i).tokens
         taken == TokensFor(Desc, i).taken
     IN \E T \in GenerateTokens(NumTokens - Len(mine), taken) :
          /\ ring' = AddIngester(Desc, i, T, ACTIVE)
          /\ tokens' = [tokens EXCEPT ![i] = SortSeq(mine \o T, <)]
  /\ UNCHANGED <<targets, proc, sender, receiver, data, bounds>>

(* Mutant: an ingester missing in the ring is added without its tokens.    *)
updateConsulMutant(i, st) ==
  IF i \in Members(Desc) THEN WithState(Desc, i, st) ELSE AddIngester(Desc, i, << >>, st)

(* The ring after updateConsul. *)
updateConsul(i, st) ==
  IF i \in Members(Desc) THEN WithState(Desc, i, st) ELSE AddIngester(Desc, i, tokens[i], st)

Heartbeat(i) ==
  /\ Looping(i)
  /\ ring' = updateConsul(i, state[i])
  /\ ring' # ring
  /\ UNCHANGED <<targets, proc, local, sender, receiver, data, bounds>>

(* Mutant: any other state may be entered.                                 *)
AllowedMutant(from, to) == from # to

(* The transitions changeState allows. *)
Allowed(from, to) ==
  \/ from = PENDING /\ to = JOINING
  \/ from = PENDING /\ to = ACTIVE
  \/ from = JOINING /\ to = ACTIVE
  \/ from = ACTIVE /\ to = LEAVING

(* changeState when it is allowed: the state changes even if the update of *)
(* the ring then fails.                                                    *)
changeState(i, st) ==
  /\ Allowed(state[i], st)
  /\ state' = [state EXCEPT ![i] = st]
  /\ ring' = updateConsul(i, st)

changeStateFails(i, st) ==
  /\ ConsulErrors
  /\ Allowed(state[i], st)
  /\ state' = [state EXCEPT ![i] = st]
  /\ UNCHANGED ring

(* Ring.loop of the distributors: WatchKey brings the ring of now.         *)
Watch ==
  /\ ring # Nil
  /\ targets' = FindIngestersByState(Desc, ACTIVE)
  /\ targets' # targets
  /\ UNCHANGED <<ring, proc, local, sender, receiver, data, bounds>>

-----------------------------------------------------------------------------
(* Data.                                                                   *)

(* Ingester.Push. append needs userStatesMtx, which TransferChunks holds   *)
(* from before it becomes ACTIVE until the new userStates are in place.    *)
(* Data are samples that ValidateSample accepts: one it refuses is         *)
(* answered with nil and dropped.                                          *)
Push(i, d) ==
  /\ i \in targets
  /\ proc[i] = "loop"
  /\ rcv[i].pc # "install"
  /\ d \notin acked
  /\ mem' = [mem EXCEPT ![i] = @ \cup {d}]
  /\ acked' = acked \cup {d}
  /\ UNCHANGED <<ring, targets, proc, local, sender, receiver, store, lost, bounds>>

(* A series is written and removed: by a periodic flush that may have been *)
(* queued for long, or by flushAllChunks. See IngesterFlush.               *)
FlushSeries(i, d) ==
  /\ Running(i)
  /\ d \in mem[i]
  /\ mem' = [mem EXCEPT ![i] = @ \ {d}]
  /\ store' = store \cup {d}
  /\ UNCHANGED <<ring, targets, proc, local, sender, receiver, acked, lost, bounds>>

-----------------------------------------------------------------------------
(* Shutdown.                                                               *)

(* SIGTERM: Server.Run returns after GracefulStop, which accepts no new    *)
(* RPCs and waits for those in progress; then main calls Shutdown.         *)
Terminate(i) ==
  /\ proc[i] = "loop"
  /\ proc' = [proc EXCEPT ![i] = "drain"]
  /\ UNCHANGED <<ring, targets, local, sender, receiver, data, bounds>>

(* Shutdown, and loop() leaves its select. The error of changeState, for   *)
(* an ingester that never became ACTIVE, is ignored.                       *)
Shutdown(i) ==
  /\ proc[i] = "drain"
  /\ ~Handling(i)
  /\ proc' = [proc EXCEPT ![i] = IF ClaimOnRollout THEN "find" ELSE "unregister"]
  /\ \/ changeState(i, LEAVING)
     \/ changeStateFails(i, LEAVING)
     \/ ~Allowed(state[i], LEAVING) /\ UNCHANGED <<ring, state>>
  /\ UNCHANGED <<targets, tokens, sender, receiver, data, bounds>>

(* findTargetIngester: any PENDING ingester of the ring, itself included.  *)
findTargetIngester(i) ==
  /\ proc[i] = "find"
  /\ \E j \in FindIngestersByState(Desc, PENDING) : target' = [target EXCEPT ![i] = j]
  /\ proc' = [proc EXCEPT ![i] = "connect"]
  /\ UNCHANGED <<ring, targets, local, next, sent, handed, receiver, data, bounds>>

(* Mutant: the search goes on until there is a PENDING ingester.           *)
SearchTimesOutMutant(i) == FALSE /\ proc[i] = "find" /\ UNCHANGED vars

(* None until the deadline: flushAllChunks. *)
SearchTimesOut(i) ==
  /\ proc[i] = "find"
  /\ ring # Nil
  /\ proc' = [proc EXCEPT ![i] = "unregister"]
  /\ UNCHANGED <<ring, targets, local, sender, receiver, data, bounds>>

(* TransferChunks starts on the target, if it still is PENDING.            *)
Connect(i) ==
  LET j == target[i]
  IN /\ proc[i] = "connect"
     /\ proc[j] = "loop"
     /\ changeState(j, JOINING)
     /\ proc' = [proc EXCEPT ![i] = "send"]
     /\ rcv' = [rcv EXCEPT ![j] = [pc |-> "recv", from |-> i, named |-> FALSE]]
     /\ staged' = [staged EXCEPT ![j] = {}]
     /\ UNCHANGED <<targets, tokens, sender, data, bounds>>

(* It is gone or stopping, has other plans, or cannot say it is JOINING.   *)
Refused(i) ==
  LET j == target[i]
  IN /\ proc[i] = "connect"
     /\ \/ /\ proc[j] # "loop" \/ ~Allowed(state[j], JOINING) \/ StreamErrors
           /\ UNCHANGED <<ring, state>>
        \/ proc[j] = "loop" /\ changeStateFails(j, JOINING)
     /\ proc' = [proc EXCEPT ![i] = "unregister"]
     /\ UNCHANGED <<targets, tokens, sender, receiver, data, bounds>>

-----------------------------------------------------------------------------
(* The hand-over: transferChunks at i, TransferChunks at its target.       *)

InTouch(i) == rcv[target[i]].from = i /\ rcv[target[i]].pc = "recv"

(* fpToSeries.iter() produces the next series; nothing stops it from being *)
(* flushed and removed before the loop gets to lock it.                    *)
NextSeries(i, d) ==
  /\ proc[i] = "send"
  /\ next[i] = Nil
  /\ d \in mem[i] \ sent[i]
  /\ next' = [next EXCEPT ![i] = d]
  /\ UNCHANGED <<ring, targets, proc, local, target, sent, handed, receiver, data, bounds>>

(* The series is sent under its lock, and received: getOrCreateSeries and  *)
(* setChunks.                                                              *)
SendSeries(i) ==
  LET j == target[i]
  IN /\ proc[i] = "send"
     /\ next[i] \in mem[i]
     /\ InTouch(i)
     /\ next' = [next EXCEPT ![i] = Nil]
     /\ sent' = [sent EXCEPT ![i] = @ \cup {next[i]}]
     /\ staged' = [staged EXCEPT ![j] = @ \cup {next[i]}]
     /\ rcv' = [rcv EXCEPT ![j].named = TRUE]
     /\ UNCHANGED <<ring, targets, proc, local, target, handed, data, bounds>>

(* A process dies with what it holds in memory.                            *)
Die(i) ==
  /\ proc' = [proc EXCEPT ![i] = "off"]
  /\ state' = [state EXCEPT ![i] = PENDING]
  /\ tokens' = [tokens EXCEPT ![i] = << >>]
  /\ target' = [target EXCEPT ![i] = Nil]
  /\ handed' = [handed EXCEPT ![i] = FALSE]
  /\ staged' = [staged EXCEPT ![i] = {}]
  /\ mem' = [mem EXCEPT ![i] = {}]
  /\ lost' = lost \cup mem[i]

(* The series was flushed in between: it is sent without chunks, and       *)
(* setChunks, which takes the last of them, panics in the receiver.        *)
SendEmptySeries(i) ==
  LET j == target[i]
  IN /\ proc[i] = "send"
     /\ next[i] # Nil /\ next[i] \notin mem[i]
     /\ InTouch(i)
     /\ Die(j)
     /\ rcv' = [rcv EXCEPT ![j] = NoHandler]
     /\ next' = [next EXCEPT ![i] = Nil]
     /\ UNCHANGED <<ring, targets, sent, store, acked, bounds>>

(* CloseAndRecv, and Recv returns io.EOF. *)
CloseAndRecv(i) ==
  /\ proc[i] = "send"
  /\ next[i] = Nil
  /\ mem[i] \subseteq sent[i]
  /\ InTouch(i)
  /\ proc' = [proc EXCEPT ![i] = "wait"]
  /\ rcv' = [rcv EXCEPT ![target[i]].pc = "claim"]
  /\ UNCHANGED <<ring, targets, local, sender, staged, data, bounds>>

(* Mutant: i.tokens is not updated.                                        *)
ClaimTokensForMutant(j) ==
  /\ rcv[j].pc = "claim" /\ Looping(j)
  /\ rcv' = [rcv EXCEPT ![j].pc = "activate"]
  /\ ring' = IF rcv[j].named THEN ClaimTokens(Desc, rcv[j].from, j) ELSE Desc
  /\ UNCHANGED <<targets, proc, local, sender, staged, data, bounds>>

(* ClaimTokensFor. The sender's id arrives with its series: without one,   *)
(* nothing is claimed. An error of CAS is only logged; the claimed tokens  *)
(* are those of the last call of the callback, so that a CAS that gives up *)
(* leaves tokens the ring does not have, and one that is applied and then  *)
(* repeated leaves none.                                                   *)
ClaimTokensFor(j) ==
  LET from == rcv[j].from
      claimed == IF rcv[j].named THEN TokensOf(Desc, from) ELSE << >>
      new == IF ring # Nil /\ rcv[j].named THEN ClaimTokens(ring, from, j) ELSE ring
  IN /\ rcv[j].pc = "claim" /\ Looping(j)
     /\ rcv' = [rcv EXCEPT ![j].pc = "activate"]
     /\ \/ ring' = new /\ tokens' = [tokens EXCEPT ![j] = claimed]
        \/ ConsulErrors /\ ring' = ring /\ tokens' = [tokens EXCEPT ![j] = claimed]
        \/ ConsulErrors /\ ring' = new /\ tokens' = [tokens EXCEPT ![j] = << >>]
     /\ UNCHANGED <<targets, proc, state, sender, staged, data, bounds>>

(* userStatesMtx.Lock and ChangeState(ACTIVE): on an error the handler     *)
(* returns without the received series.                                    *)
Activate(j) ==
  /\ rcv[j].pc = "activate" /\ Looping(j)
  /\ \/ changeState(j, ACTIVE) /\ rcv' = [rcv EXCEPT ![j].pc = "install"]
     \/ changeStateFails(j, ACTIVE) /\ rcv' = [rcv EXCEPT ![j].pc = "failed"]
  /\ UNCHANGED <<targets, proc, tokens, sender, staged, data, bounds>>

(* Mutant: the received series are not put in place.                       *)
InstallMutant(j) ==
  /\ rcv[j].pc = "install"
  /\ rcv' = [rcv EXCEPT ![j].pc = "ok"]
  /\ staged' = [staged EXCEPT ![j] = {}]
  /\ UNCHANGED <<ring, targets, proc, local, sender, data, bounds>>

(* i.userStates = userStates: what was there is dropped. *)
Install(j) ==
  /\ rcv[j].pc = "install"
  /\ rcv' = [rcv EXCEPT ![j].pc = "ok"]
  /\ mem' = [mem EXCEPT ![j] = staged[j]]
  /\ staged' = [staged EXCEPT ![j] = {}]
  /\ UNCHANGED <<ring, targets, proc, local, sender, store, acked, lost, bounds>>

(* Mutant: CloseAndRecv returns with the answer, before the handler does.  *)
TransferOkMutant(i) ==
  /\ proc[i] = "wait"
  /\ proc' = [proc EXCEPT ![i] = "unregister"]
  /\ handed' = [handed EXCEPT ![i] = TRUE]
  /\ UNCHANGED <<ring, targets, local, target, next, sent, receiver, data, bounds>>

(* CloseAndRecv returns the status of the handler. *)
TransferOk(i) ==
  /\ proc[i] = "wait"
  /\ rcv[target[i]].from = i /\ rcv[target[i]].pc = "ok"
  /\ proc' = [proc EXCEPT ![i] = "unregister"]
  /\ handed' = [handed EXCEPT ![i] = TRUE]
  /\ UNCHANGED <<ring, targets, local, target, next, sent, receiver, data, bounds>>

(* The handler failed, its process died, or the stream broke (then a       *)
(* handler that is still receiving fails too): flushAllChunks.             *)
TransferFails(i) ==
  LET j == target[i]
      mine == rcv[j].from = i /\ (Handling(j) \/ rcv[j].pc = "ok")
  IN /\ proc[i] \in {"send", "wait"}
     /\ ~mine \/ StreamErrors
     /\ proc' = [proc EXCEPT ![i] = "unregister"]
     /\ next' = [next EXCEPT ![i] = Nil]
     /\ rcv' = IF InTouch(i) THEN [rcv EXCEPT ![j].pc = "failed"] ELSE rcv
     /\ UNCHANGED <<ring, targets, local, target, sent, handed, staged, data, bounds>>

-----------------------------------------------------------------------------
(* Mutant: only the entry goes, the tokens stay.                           *)
unregisterMutant(i) ==
  /\ proc[i] = "unregister"
  /\ ring # Nil
  /\ ring' = RemoveIngesterMutant(ring, i)
  /\ proc' = [proc EXCEPT ![i] = "exit"]
  /\ UNCHANGED <<targets, local, sender, receiver, data, bounds>>

(* unregister, while the flush queues drain. *)
unregister(i) ==
  /\ proc[i] = "unregister"
  /\ ring # Nil
  /\ ring' = RemoveIngester(ring, i)
  /\ proc' = [proc EXCEPT ![i] = "exit"]
  /\ UNCHANGED <<targets, local, sender, receiver, data, bounds>>

(* Without a ring, findTargetIngester panics and unregister's error is     *)
(* fatal.                                                                  *)
DieWithoutRing(i) ==
  /\ proc[i] \in {"find", "unregister"}
  /\ ring = Nil
  /\ Die(i)
  /\ sent' = [sent EXCEPT ![i] = {}]
  /\ UNCHANGED <<ring, targets, next, rcv, store, acked, bounds>>

(* i.done.Wait() returns: the flush loops are done. What was handed over   *)
(* needs no flush and goes with the process.                               *)
Exit(i) ==
  /\ proc[i] = "exit"
  /\ handed[i] \/ mem[i] = {}
  /\ proc' = [proc EXCEPT ![i] = "gone"]
  /\ mem' = [mem EXCEPT ![i] = {}]
  /\ UNCHANGED <<ring, targets, local, sender, receiver, store, acked, lost, bounds>>

(* A crash, or one of the log.Fatalf when Consul fails.                    *)
Crash(i) ==
  /\ Running(i)
  /\ crashes < MaxCrashes
  /\ crashes' = crashes + 1
  /\ Die(i)
  /\ next' = [next EXCEPT ![i] = Nil]
  /\ sent' = [sent EXCEPT ![i] = {}]
  /\ rcv' = [j \in Ids |->
       IF j = i THEN NoHandler
       ELSE IF rcv[j].from = i /\ rcv[j].pc = "recv" THEN [rcv[j] EXCEPT !.pc = "failed"]
       ELSE rcv[j]]
  /\ UNCHANGED <<ring, targets, store, acked, wipes, evicted>>

(* An operator forgets an ingester on the ring's page, dead or not. *)
forget(i) ==
  /\ Forgetting
  /\ i \in Members(Desc)
  /\ ring' = RemoveIngester(ring, i)
  /\ evicted' = (evicted \/ Running(i))
  /\ UNCHANGED <<targets, proc, local, sender, receiver, data, crashes, wipes>>

(* Consul loses the ring. *)
Wipe ==
  /\ ring # Nil
  /\ wipes < MaxWipes
  /\ wipes' = wipes + 1
  /\ ring' = Nil
  /\ UNCHANGED <<targets, proc, local, sender, receiver, data, crashes, evicted>>

-----------------------------------------------------------------------------
Handler(j) == ClaimTokensFor(j) \/ Activate(j) \/ Install(j)

Leave(i) ==
  \/ Shutdown(i)
  \/ Connect(i)
  \/ Refused(i)
  \/ \E d \in Data : NextSeries(i, d)
  \/ SendSeries(i)
  \/ SendEmptySeries(i)
  \/ CloseAndRecv(i)
  \/ TransferOk(i)
  \/ TransferFails(i)
  \/ unregister(i)
  \/ DieWithoutRing(i)
  \/ Exit(i)

Next ==
  \/ \E i \in Ids :
       \/ initRing(i) \/ autoJoin(i) \/ Heartbeat(i) \/ Terminate(i)
       \/ findTargetIngester(i) \/ SearchTimesOut(i)
       \/ Leave(i) \/ Handler(i) \/ Crash(i) \/ forget(i)
       \/ \E d \in Data : Push(i, d) \/ FlushSeries(i, d)
  \/ Watch
  \/ Wipe

Spec == Init /\ [][Next]_vars

(* Goroutines that can run do run, the tickers and the search's deadline   *)
(* fire, and the queues are flushed (see IngesterFlush).                   *)
FairSpec ==
  /\ Spec
  /\ \A i \in Ids :
       /\ WF_vars(autoJoin(i)) /\ WF_vars(Heartbeat(i))
       /\ WF_vars(findTargetIngester(i) \/ SearchTimesOut(i))
       /\ WF_vars(Leave(i)) /\ WF_vars(Handler(i))
       /\ \A d \in Data : WF_vars(proc[i] = "exit" /\ FlushSeries(i, d))

-----------------------------------------------------------------------------
TypeOK ==
  /\ ring = Nil \/ (/\ Members(ring) \subseteq Ids
                    /\ \A i \in Members(ring) : ring.ingesters[i] \in States
                    /\ ring.tokens \in Seq([token : TokenSpace, ingester : Ids]))
  /\ targets \subseteq Ids
  /\ proc \in [Ids -> {"off", "loop", "drain", "find", "connect", "send", "wait",
                       "unregister", "exit", "gone"}]
  /\ state \in [Ids -> States]
  /\ tokens \in [Ids -> Seq(TokenSpace)]
  /\ target \in [Ids -> Ids \cup {Nil}] /\ next \in [Ids -> Data \cup {Nil}]
  /\ sent \in [Ids -> SUBSET Data] /\ handed \in [Ids -> BOOLEAN]
  /\ rcv \in [Ids -> [pc : {"none", "recv", "claim", "activate", "install", "ok",
                           "failed"},
                      from : Ids \cup {Nil}, named : BOOLEAN]]
  /\ staged \in [Ids -> SUBSET Data] /\ mem \in [Ids -> SUBSET Data]
  /\ UNION {store, acked, lost} \subseteq Data
  /\ evicted \in BOOLEAN

(* A sample an ingester acknowledged is in some ingester's memory or in    *)
(* the chunk store, unless the ingester that held it crashed: neither a    *)
(* shutdown, a hand-over, one that fails half-way, nor a refused one loses *)
(* it (Shutdown: "send chunks to another ingester, if it can; otherwise,   *)
(* flush chunks to the chunk store", ingester_lifecycle.go:113-114).       *)
NoAckedLoss == acked \subseteq (store \cup lost \cup UNION {mem[i] : i \in Ids})

(* The tokens are sorted; every token belongs to a registered ingester     *)
(* (getInternal dereferences it) and none to two, through all joins,       *)
(* hand-overs, departures and restarts, and with dead ingesters being      *)
(* forgotten (ring/http.go, forget). One that is forgotten while it runs   *)
(* is another matter: with its next heartbeat it writes its tokens again,  *)
(* which others may have drawn, and if it was JOINING it is given tokens   *)
(* without having an entry. From then on only the order is certain.        *)
(* The types with it.                                                      *)
RingWellFormed ==
  /\ TypeOK
  /\ \A j, k \in DOMAIN Desc.tokens :
       j < k => \/ ByToken(Desc.tokens[j], Desc.tokens[k])
                \/ Desc.tokens[j] = Desc.tokens[k]
                \/ evicted /\ Desc.tokens[j].token = Desc.tokens[k].token
  /\ evicted \/ \A k \in DOMAIN Desc.tokens : Desc.tokens[k].ingester \in Members(Desc)

(* What an active ingester knows of its place in the ring, and writes back *)
(* after Consul has lost it, is what the ring says.                        *)
TokensAgree ==
  \A i \in Ids : Looping(i) /\ state[i] = ACTIVE =>
    /\ i \in Members(Desc) /\ Desc.ingesters[i] = ACTIVE
    /\ tokens[i] = TokensOf(Desc, i)

(* After a hand-over of at least one series the receiver has the tokens    *)
(* the sender had: the sender's unregister does not take them out of the   *)
(* ring ("takes all the tokens for the supplied ingester and assigns them  *)
(* to this ingester", ingester_lifecycle.go:84).                           *)
HandoverMovesTokens ==
  \A i, j \in Ids :
    (handed[i] /\ target[i] = j /\ rcv[j].from = i /\ rcv[j].named /\ Looping(j))
      => Range(tokens[i]) \subseteq Range(TokensOf(Desc, j))

Rank == [PENDING |-> 0, JOINING |-> 1, ACTIVE |-> 2, LEAVING |-> 3]

(* In the ring an ingester only ever moves forward, also over restarts and *)
(* failed updates, and whichever of Heartbeat, ChangeState and autoJoin    *)
(* gets there first: a target that has joined by itself meanwhile is not   *)
(* sent back to JOINING.                                                   *)
RingMovesForward ==
  [][\A i \in Ids :
       (ring # Nil /\ ring' # Nil /\ i \in Members(ring) /\ i \in Members(ring')) =>
         Rank[ring.ingesters[i]] <= Rank[ring'.ingesters[i]]]_vars

(* A new ingester becomes ACTIVE, by a hand-over or by itself; only one    *)
(* whose hand-over broke off stays JOINING, since autoJoin acts on PENDING *)
(* ones (TransferChunks, ingester_claim.go; loop, ingester_lifecycle.go).  *)
(* And one that is told to stop stops, whatever state it is in: it does    *)
(* not wait for a hand-over for ever, not even when everybody leaves.      *)
Abandoned(i) == state[i] = JOINING /\ ~Handling(i)

TransitionsEnd ==
  \A i \in Ids :
    /\ []<>(Looping(i) => state[i] \notin {PENDING, JOINING} \/ Abandoned(i))
    /\ []<>(proc[i] \in {"off", "loop", "gone"})

(* An ingester that runs is in the ring with its tokens again and again:   *)
(* so it comes back into it after Consul has lost the ring ("dealing with  *)
(* consul restarts", ingester_lifecycle.go:272-273). One exception: the    *)
(* receiver of a hand-over that the sender has given up claims all tokens  *)
(* of its id, also when it has restarted and drawn new ones.               *)
Claimed(i) ==
  \E j \in Ids : rcv[j].from = i /\ rcv[j].named /\ rcv[j].pc \notin {"recv", "claim"}

RingRecovers ==
  \A i \in Ids :
    []<>(Looping(i) =>
           /\ i \in Members(Desc)
           /\ Range(tokens[i]) = Range(TokensOf(Desc, i)) \/ Claimed(i))
====
