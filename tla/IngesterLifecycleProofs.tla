---------------------- MODULE IngesterLifecycleProofs ----------------------
(***************************************************************************)
(* What IngesterLifecycle promises, proved for any ingesters, data and     *)
(* number of tokens, and with crashes, broken streams, errors of Consul,   *)
(* losses of the ring and ingesters being forgotten: an acknowledged       *)
(* sample is lost only with a process that crashed, and in the ring an     *)
(* ingester only moves forward.                                            *)
(*                                                                         *)
(* The tokens of the ring play no part in either: only its entries do.     *)
(***************************************************************************)
EXTENDS IngesterLifecycle, TLAPS

(* Before an ingester is ACTIVE nothing is written to it.                  *)
Young == {PENDING, JOINING}

IsDesc(d) ==
  /\ d = [ingesters |-> d.ingesters, tokens |-> d.tokens]
  /\ d.ingesters \in [Members(d) -> States]
  /\ Members(d) \subseteq Ids

Handlers ==
  [pc : {"none", "recv", "claim", "activate", "install", "ok", "failed"}, from : Ids \cup {Nil}, named : BOOLEAN]

Typed ==
  /\ ring = Nil \/ IsDesc(ring)
  /\ targets \subseteq Ids
  /\ proc \in [Ids -> {"off", "loop", "drain", "find", "connect", "send", "wait", "unregister", "exit", "gone"}]
  /\ state \in [Ids -> States]
  /\ target \in [Ids -> Ids \cup {Nil}]
  /\ \A i \in Ids : proc[i] \in {"connect", "send", "wait"} => target[i] \in Ids
  /\ sent \in [Ids -> SUBSET Data] /\ handed \in [Ids -> BOOLEAN]
  /\ rcv \in [Ids -> Handlers]
  /\ staged \in [Ids -> SUBSET Data] /\ mem \in [Ids -> SUBSET Data]
  /\ crashes \in Nat /\ wipes \in Nat

(* In the ring an ingester is not further than its process.                *)
Behind == \A i \in Ids : Running(i) /\ i \in Members(Desc) => Rank[Desc.ingesters[i]] <= Rank[state[i]]

(* What an ingester has in memory when it gets the chunks of another one   *)
(* is dropped: there is nothing. No distributor writes to it yet, and none *)
(* will when it starts anew and takes its state from the ring.             *)
FreshAt(i) ==
  /\ ~Running(i) => mem[i] = {}
  /\ Running(i) /\ state[i] \in Young => mem[i] = {} /\ i \notin targets
  /\ rcv[i].pc = "install" => mem[i] = {}
  /\ i \in targets /\ i \in Members(Desc) => Desc.ingesters[i] \notin Young
Fresh == \A i \in Ids : FreshAt(i)

(* The handler of a hand-over: GracefulStop waits for it.                  *)
ReceivesAt(j) ==
  /\ Handling(j) => Looping(j)
  /\ rcv[j].pc \in {"recv", "claim", "activate"} => state[j] = JOINING
  /\ rcv[j].pc = "install" => state[j] = ACTIVE
Receives == \A j \in Ids : ReceivesAt(j)

(* The receiver has what was sent, and in the end all there was to send.   *)
SendsAt(i) ==
  /\ handed[i] => proc[i] \in {"unregister", "exit", "gone"}
  /\ proc[i] \in {"off", "loop", "drain", "find", "connect"} => sent[i] = {}
  /\ proc[i] = "send" /\ InTouch(i) => sent[i] \subseteq staged[target[i]]
  /\ proc[i] = "wait" /\ rcv[target[i]].from = i /\ rcv[target[i]].pc \in {"claim", "activate", "install"} =>
       mem[i] \subseteq staged[target[i]]
Sends == \A i \in Ids : SendsAt(i)

(* The receiver has put the chunks of i in place: i need not keep them,    *)
(* although it may still have to learn of it.                              *)
Done(i) == handed[i] \/ (proc[i] = "wait" /\ rcv[target[i]].from = i /\ rcv[target[i]].pc = "ok")
Holds(i, d) == d \in mem[i] /\ ~Done(i)
Safe(d) == d \in store \/ d \in lost \/ \E i \in Ids : Holds(i, d)
Kept == \A d \in acked : Safe(d)

(* Where an ingester may register anew although distributors still write   *)
(* to it, none ever has to: no ACTIVE one dies.                            *)
NoRestart ==
  StaleWrites =>
    /\ ring = Nil => \A i \in Ids : proc[i] = "off"
    /\ \A i \in Ids : proc[i] = "off" => i \notin targets /\ (i \in Members(Desc) => Desc.ingesters[i] \in Young)

RingInv == Typed /\ Behind
LifeInv == RingInv /\ Fresh /\ Receives /\ Sends /\ Kept /\ NoRestart

-----------------------------------------------------------------------------
(* States and the entries of a ring.                                       *)

(* The ranks of the states.                                                *)
LEMMA Ranks ==
  /\ Rank[PENDING] = 0 /\ Rank[JOINING] = 1 /\ Rank[ACTIVE] = 2 /\ Rank[LEAVING] = 3
  /\ \A s \in States : Rank[s] \in Nat
BY DEF Rank, States, PENDING, JOINING, ACTIVE, LEAVING

(* changeState allows no step back.                                        *)
LEMMA AllowedRises ==
  ASSUME NEW s, NEW t, Allowed(s, t)
  PROVE  s \in States /\ t \in States /\ Rank[s] <= Rank[t]
BY Ranks DEF Allowed, States

(* The empty ring is one.                                                  *)
LEMMA NewIsDesc == IsDesc(NewDesc) /\ Members(NewDesc) = {}
BY Zenon DEF IsDesc, NewDesc, Members

(* What RingDesc's operations do to the entries.                           *)
LEMMA WithStateSets ==
  ASSUME NEW d, IsDesc(d), NEW i \in Ids, NEW s \in States
  PROVE  /\ IsDesc(WithState(d, i, s))
         /\ WithState(d, i, s).tokens = d.tokens
         /\ Members(WithState(d, i, s)) = Members(d) \cup {i}
         /\ \A m \in Members(d) \cup {i} :
              WithState(d, i, s).ingesters[m] = IF m = i THEN s ELSE d.ingesters[m]
BY DEF IsDesc, WithState, Members

(* AddIngester writes the entry of one ingester (model.go).                *)
LEMMA AddSets ==
  ASSUME NEW d, IsDesc(d), NEW i \in Ids, NEW s \in States, NEW T
  PROVE  /\ IsDesc(AddIngester(d, i, T, s))
         /\ Members(AddIngester(d, i, T, s)) = Members(d) \cup {i}
         /\ \A m \in Members(d) \cup {i} :
              AddIngester(d, i, T, s).ingesters[m] = IF m = i THEN s ELSE d.ingesters[m]
<1> PICK w : w = WithState(d, i, s)
  BY Zenon
<1>1. /\ IsDesc(w)
      /\ Members(w) = Members(d) \cup {i}
      /\ \A m \in Members(d) \cup {i} : w.ingesters[m] = IF m = i THEN s ELSE d.ingesters[m]
  BY WithStateSets
<1>2. PICK ts : AddIngester(d, i, T, s) = [w EXCEPT !.tokens = ts]
  BY Zenon DEF AddIngester
<1>3. AddIngester(d, i, T, s) = [ingesters |-> w.ingesters, tokens |-> ts]
  BY <1>1, <1>2, Zenon DEF IsDesc
<1> QED
  BY <1>1, <1>3 DEF IsDesc, Members

(* RemoveIngester leaves the entries of the others (model.go).             *)
LEMMA RemoveKeeps ==
  ASSUME NEW d, IsDesc(d), NEW i
  PROVE  /\ IsDesc(RemoveIngester(d, i))
         /\ Members(RemoveIngester(d, i)) = Members(d) \ {i}
         /\ \A m \in Members(d) \ {i} : RemoveIngester(d, i).ingesters[m] = d.ingesters[m]
<1> PICK ts : RemoveIngester(d, i) = [ingesters |-> [m \in Members(d) \ {i} |-> d.ingesters[m]], tokens |-> ts]
  BY Zenon DEF RemoveIngester
<1> QED
  BY DEF IsDesc, Members

(* ClaimTokens changes no entry (model.go).                                *)
LEMMA ClaimKeeps ==
  ASSUME NEW d, IsDesc(d), NEW i, NEW j
  PROVE  /\ IsDesc(ClaimTokens(d, i, j))
         /\ ClaimTokens(d, i, j).ingesters = d.ingesters
<1>1. PICK ts : ClaimTokens(d, i, j) = [d EXCEPT !.tokens = ts]
  BY Zenon DEF ClaimTokens
<1>2. ClaimTokens(d, i, j) = [ingesters |-> d.ingesters, tokens |-> ts]
  BY <1>1, Zenon DEF IsDesc
<1> QED
  BY <1>2 DEF IsDesc, Members

(* The ring in Consul is a descriptor, or not there yet.                   *)
LEMMA DescIs == Typed => IsDesc(Desc)
BY NewIsDesc, Zenon DEF Typed, Desc

(* A step of the ring: i is now in state s, or nothing but removals.       *)
Sets(i, s) ==
  \A m \in Members(Desc') :
    /\ m = i => Desc'.ingesters[m] = s
    /\ m # i => m \in Members(Desc) /\ Desc'.ingesters[m] = Desc.ingesters[m]
Keeps == \A m \in Members(Desc') : m \in Members(Desc) /\ Desc'.ingesters[m] = Desc.ingesters[m]

(* A CAS of AddIngester sets one entry.                                    *)
LEMMA AddedSets ==
  ASSUME Typed, NEW i \in Ids, NEW s \in States, NEW T, ring' = AddIngester(Desc, i, T, s)
  PROVE  IsDesc(ring') /\ Sets(i, s)
<1> PICK d : d = Desc
  BY Zenon
<1>1. /\ IsDesc(ring') /\ Members(ring') = Members(d) \cup {i}
      /\ \A m \in Members(d) \cup {i} : ring'.ingesters[m] = IF m = i THEN s ELSE d.ingesters[m]
  BY DescIs, AddSets
<1>2. Desc' = ring' \/ Desc' = NewDesc
  BY Zenon DEF Desc
<1> QED
  BY <1>1, <1>2, NewIsDesc, Zenon DEF Sets

(* updateConsul of a heartbeat or a changed state sets one entry.          *)
LEMMA UpdateSets ==
  ASSUME Typed, NEW i \in Ids, NEW s \in States, ring' = updateConsul(i, s)
  PROVE  IsDesc(ring') /\ Sets(i, s)
<1>1. CASE ring' = AddIngester(Desc, i, tokens[i], s)
  BY <1>1, AddedSets, Zenon
<1>2. CASE ring' = WithState(Desc, i, s)
  <2> PICK d : d = Desc
    BY Zenon
  <2>1. /\ IsDesc(ring') /\ Members(ring') = Members(d) \cup {i}
        /\ \A m \in Members(d) \cup {i} : ring'.ingesters[m] = IF m = i THEN s ELSE d.ingesters[m]
    BY <1>2, DescIs, WithStateSets
  <2>2. Desc' = ring' \/ Desc' = NewDesc
    BY Zenon DEF Desc
  <2> QED
    BY <2>1, <2>2, NewIsDesc, Zenon DEF Sets
<1> QED
  BY <1>1, <1>2, Zenon DEF updateConsul

(* A step that does not write the ring keeps its entries.                  *)
LEMMA SameKeeps ==
  ASSUME Typed, ring' = ring
  PROVE  (ring' = Nil \/ IsDesc(ring')) /\ Keeps
BY Zenon DEF Typed, Desc, Keeps

(* unregister and forget keep the entries of the others.                   *)
LEMMA RemovedKeeps ==
  ASSUME Typed, NEW i, ring # Nil, ring' = RemoveIngester(ring, i)
  PROVE  IsDesc(ring') /\ Keeps
<1>1. IsDesc(ring) /\ Desc = ring
  BY Zenon DEF Typed, Desc
<1>2. Desc' = ring' \/ Desc' = NewDesc
  BY Zenon DEF Desc
<1> QED
  BY <1>1, <1>2, NewIsDesc, RemoveKeeps DEF Keeps

(* ClaimTokensFor keeps the entries.                                       *)
LEMMA ClaimedKeeps ==
  ASSUME Typed, NEW j, ring' = ring \/ (ring # Nil /\ \E f : ring' = ClaimTokens(ring, f, j))
  PROVE  (ring' = Nil \/ IsDesc(ring')) /\ Keeps
<1>1. CASE ring' = ring
  BY <1>1, SameKeeps, Zenon
<1>2. CASE ring # Nil /\ \E f : ring' = ClaimTokens(ring, f, j)
  <2>1. IsDesc(ring) /\ Desc = ring
    BY <1>2, Zenon DEF Typed, Desc
  <2>2. IsDesc(ring') /\ ring'.ingesters = ring.ingesters
    BY <1>2, <2>1, ClaimKeeps, Zenon
  <2>3. Desc' = ring' \/ Desc' = NewDesc
    BY Zenon DEF Desc
  <2> QED
    BY <2>1, <2>2, <2>3, NewIsDesc, Zenon DEF Keeps, Members
<1> QED
  BY <1>1, <1>2, Zenon

-----------------------------------------------------------------------------
(* The entries move forward, behind the processes.                         *)

Forward ==
  \A i \in Ids :
    (ring # Nil /\ ring' # Nil /\ i \in Members(ring) /\ i \in Members(ring')) =>
      Rank[ring.ingesters[i]] <= Rank[ring'.ingesters[i]]

(* Where the entries are kept and processes only rise, none moves back.    *)
LEMMA KeepsMoves ==
  ASSUME RingInv, Typed', Keeps,
         \A k \in Ids : Running(k)' => Running(k) /\ Rank[state[k]] <= Rank[state'[k]]
  PROVE  Behind' /\ Forward
<1>1. /\ \A k \in Members(Desc) : Desc.ingesters[k] \in States
      /\ state \in [Ids -> States] /\ state' \in [Ids -> States]
  BY DescIs, Zenon DEF RingInv, Typed, IsDesc
<1>2. \A k \in Members(Desc') : k \in Members(Desc) /\ Desc'.ingesters[k] = Desc.ingesters[k]
  BY Zenon DEF Keeps
<1>3. Behind'
  <2> SUFFICES ASSUME NEW k \in Ids, Running(k)', k \in Members(Desc')
               PROVE  Rank[Desc'.ingesters[k]] <= Rank[state'[k]]
    BY Zenon DEF Behind
  <2>1. Rank[Desc.ingesters[k]] <= Rank[state[k]] /\ Rank[state[k]] <= Rank[state'[k]]
    BY <1>2, Zenon DEF RingInv, Behind
  <2> QED
    BY <1>1, <1>2, <2>1, Ranks
<1>4. Forward
  BY <1>1, <1>2, Ranks DEF Forward, Desc
<1> QED
  BY <1>3, <1>4, Zenon

(* Where an entry is set to what its process has reached, none moves back. *)
LEMMA SetsMoves ==
  ASSUME RingInv, Typed', NEW i \in Ids, NEW s \in States, Sets(i, s),
         i \in Members(Desc) => Rank[Desc.ingesters[i]] <= Rank[s],
         Rank[s] <= Rank[state'[i]],
         \A k \in Ids : k # i => (Running(k)' => Running(k)) /\ state'[k] = state[k]
  PROVE  Behind' /\ Forward
<1>1. /\ \A k \in Members(Desc) : Desc.ingesters[k] \in States
      /\ state \in [Ids -> States] /\ state' \in [Ids -> States]
  BY DescIs, Zenon DEF RingInv, Typed, IsDesc
<1>2. \A k \in Members(Desc') : /\ k = i => Desc'.ingesters[k] = s
                                /\ k # i => k \in Members(Desc) /\ Desc'.ingesters[k] = Desc.ingesters[k]
  BY Zenon DEF Sets
<1>3. Behind'
  <2> SUFFICES ASSUME NEW k \in Ids, Running(k)', k \in Members(Desc')
               PROVE  Rank[Desc'.ingesters[k]] <= Rank[state'[k]]
    BY Zenon DEF Behind
  <2>1. CASE k = i
    BY <1>2, <2>1, Zenon
  <2>2. CASE k # i
    BY <1>2, <2>2, Zenon DEF RingInv, Behind
  <2> QED
    BY <2>1, <2>2, Zenon
<1>4. Forward
  <2> SUFFICES ASSUME NEW k \in Ids, ring # Nil, ring' # Nil, k \in Members(ring), k \in Members(ring')
               PROVE  Rank[ring.ingesters[k]] <= Rank[ring'.ingesters[k]]
    BY Zenon DEF Forward
  <2>1. Desc = ring /\ Desc' = ring'
    BY Zenon DEF Desc
  <2> QED
    BY <1>1, <1>2, <2>1, Ranks
<1> QED
  BY <1>3, <1>4, Zenon

(* At the start there is no ring and no process.                           *)
LEMMA InitRing == Init => RingInv
BY NewIsDesc DEF Init, RingInv, Typed, Behind, Desc, NewDesc, Members, States, Handlers, NoHandler

(* Where the ring, the states and who runs stay as they are.               *)
LEMMA StillMoves ==
  ASSUME RingInv, Typed', ring' = ring, state' = state,
         \A k \in Ids : Running(k)' => Running(k)
  PROVE  Behind' /\ Forward
<1>1. \A k \in Ids : state[k] \in States /\ state'[k] = state[k]
  BY Zenon DEF RingInv, Typed
<1>2. Typed
  BY Zenon DEF RingInv
<1> QED
  BY <1>1, <1>2, SameKeeps, KeepsMoves, Ranks

(* Dying: the state of a process that is off matters no more.              *)
LEMMA DieMoves ==
  ASSUME RingInv, Typed', ring' = ring, NEW i \in Ids, Die(i)
  PROVE  Behind' /\ Forward
<1>1. \A k \in Ids : Running(k)' => Running(k) /\ state'[k] = state[k]
  BY DEF RingInv, Typed, Die, Running
<1>2. Typed
  BY Zenon DEF RingInv
<1>3. \A k \in Ids : state[k] \in States
  BY <1>2, Zenon DEF Typed
<1> QED
  BY <1>1, <1>2, <1>3, SameKeeps, KeepsMoves, Ranks

(* changeState, whether or not the ring learns of it.                      *)
LEMMA ChangeMoves ==
  ASSUME RingInv, Typed', NEW i \in Ids, NEW s \in States, Running(i),
         changeState(i, s) \/ changeStateFails(i, s),
         \A k \in Ids : Running(k)' => Running(k)
  PROVE  Behind' /\ Forward
<1>1. Typed /\ Behind
  BY Zenon DEF RingInv
<1>2. /\ Rank[state[i]] <= Rank[s] /\ state'[i] = s
      /\ \A k \in Ids : k # i => state'[k] = state[k]
      /\ \A k \in Ids : state[k] \in States
  BY <1>1, AllowedRises, Zenon DEF changeState, changeStateFails, Typed
<1>3. CASE ring' = updateConsul(i, s)
  <2>1. Sets(i, s)
    BY <1>1, <1>3, UpdateSets, Zenon
  <2>2. i \in Members(Desc) => Rank[Desc.ingesters[i]] <= Rank[s]
    <3>1. i \in Members(Desc) => Desc.ingesters[i] \in States
      BY <1>1, DescIs, Zenon DEF IsDesc
    <3> QED
      BY <1>1, <1>2, <3>1, Ranks DEF Behind
  <2> QED
    BY <1>2, <2>1, <2>2, SetsMoves, Ranks
<1>4. CASE ring' = ring
  <2>1. \A k \in Ids : Running(k)' => Running(k) /\ Rank[state[k]] <= Rank[state'[k]]
    BY <1>2, Ranks
  <2> QED
    BY <1>1, <1>4, <2>1, SameKeeps, KeepsMoves, Zenon
<1> QED
  BY <1>3, <1>4, Zenon DEF changeState, changeStateFails

(* No step breaks the types, lets the ring get ahead of a process or moves *)
(* an entry back.                                                          *)
LEMMA RingStep == RingInv /\ [Next]_vars => RingInv' /\ Forward
<1> SUFFICES ASSUME RingInv, [Next]_vars
             PROVE  Typed' /\ Behind' /\ Forward
  BY Zenon DEF RingInv
<1> USE DEF local, sender, receiver, data, bounds
<1>t. Typed /\ Behind
  BY Zenon DEF RingInv
<1>s. ASSUME NEW i \in Ids, NEW s
      PROVE  /\ changeState(i, s) => IsDesc(ring') /\ state' \in [Ids -> States]
             /\ changeStateFails(i, s) => state' \in [Ids -> States]
  BY <1>t, AllowedRises, UpdateSets DEF changeState, changeStateFails, Typed
<1>1. ASSUME NEW i \in Ids, initRing(i) PROVE Typed' /\ Behind' /\ Forward
  <2>1. IsDesc(Desc)
    BY <1>t, DescIs, Zenon
  <2>2. CASE i \in Members(Desc)
    <3>1. ring' = Desc /\ state' = [state EXCEPT ![i] = Desc.ingesters[i]]
      BY <1>1, <2>2, Zenon DEF initRing
    <3>2. Typed'
      BY <1>t, <1>1, <2>1, <2>2, <3>1, Zenon DEF Typed, initRing, IsDesc
    <3>3. Desc' = Desc
      BY <3>1, Zenon DEF Desc
    <3>4. Sets(i, Desc.ingesters[i])
      BY <3>3, Zenon DEF Sets
    <3>5. Desc.ingesters[i] \in States /\ state'[i] = Desc.ingesters[i]
      BY <1>t, <2>1, <2>2, <3>1, Zenon DEF IsDesc, Typed
    <3>6. \A k \in Ids : k # i => (Running(k)' => Running(k)) /\ state'[k] = state[k]
      BY <1>t, <1>1, <3>1, Zenon DEF Typed, initRing, Running
    <3> QED
      BY <3>2, <3>4, <3>5, <3>6, SetsMoves, Ranks
  <2>3. CASE i \notin Members(Desc)
    <3>1. ring' = AddIngester(Desc, i, << >>, PENDING) /\ state' = state
      BY <1>1, <2>3, Zenon DEF initRing
    <3>2. IsDesc(ring') /\ Sets(i, PENDING)
      BY <1>t, <3>1, AddedSets, Zenon DEF States
    <3>3. Typed'
      BY <1>t, <1>1, <3>1, <3>2, Zenon DEF Typed, initRing
    <3>4. \A k \in Ids : k # i => (Running(k)' => Running(k)) /\ state'[k] = state[k]
      BY <1>t, <1>1, <3>1, Zenon DEF Typed, initRing, Running
    <3>5. PENDING \in States /\ Rank[PENDING] <= Rank[state'[i]]
      BY <1>t, <3>1, Ranks DEF Typed, States
    <3> QED
      BY <2>3, <3>2, <3>3, <3>4, <3>5, SetsMoves, Zenon
  <2> QED
    BY <2>2, <2>3, Zenon
<1>2. ASSUME NEW i \in Ids, autoJoin(i) PROVE Typed' /\ Behind' /\ Forward
  <2>1. PICK T : ring' = AddIngester(Desc, i, T, ACTIVE)
    BY <1>2, Zenon DEF autoJoin
  <2>2. IsDesc(ring') /\ Sets(i, ACTIVE)
    BY <1>t, <2>1, AddedSets, Zenon DEF States
  <2>3. Typed'
    BY <1>t, <1>2, <2>2, Zenon DEF Typed, autoJoin, States
  <2>4. \A k \in Ids : k # i => (Running(k)' => Running(k)) /\ state'[k] = state[k]
    BY <1>t, <1>2, Zenon DEF Typed, autoJoin, Running
  <2>5. i \in Members(Desc) => Rank[Desc.ingesters[i]] <= Rank[ACTIVE]
    <3>1. Running(i) /\ state[i] = PENDING
      BY <1>2, Zenon DEF autoJoin, Looping, Running
    <3>2. i \in Members(Desc) => Desc.ingesters[i] \in States
      BY <1>t, DescIs, Zenon DEF IsDesc
    <3> QED
      BY <1>t, <3>1, <3>2, Ranks DEF Behind
  <2>6. ACTIVE \in States /\ state'[i] = ACTIVE
    BY <1>t, <1>2, Zenon DEF Typed, autoJoin, States
  <2> QED
    BY <2>2, <2>3, <2>4, <2>5, <2>6, SetsMoves, Ranks
<1>3. ASSUME NEW i \in Ids, Heartbeat(i) PROVE Typed' /\ Behind' /\ Forward
  <2>1. state[i] \in States /\ state' = state /\ proc' = proc /\ Running(i)
    BY <1>t, <1>3, Zenon DEF Typed, Heartbeat, Looping, Running
  <2>2. IsDesc(ring') /\ Sets(i, state[i])
    BY <1>t, <1>3, <2>1, UpdateSets, Zenon DEF Heartbeat
  <2>3. Typed'
    BY <1>t, <1>3, <2>2, Zenon DEF Typed, Heartbeat
  <2>4. i \in Members(Desc) => Rank[Desc.ingesters[i]] <= Rank[state[i]]
    BY <1>t, <2>1, Zenon DEF Behind
  <2>5. \A k \in Ids : k # i => (Running(k)' => Running(k)) /\ state'[k] = state[k]
    BY <2>1, Zenon DEF Running
  <2> QED
    BY <2>1, <2>2, <2>3, <2>4, <2>5, SetsMoves, Ranks
<1>4. ASSUME NEW i \in Ids, Shutdown(i) PROVE Typed' /\ Behind' /\ Forward
  <2>0. (ring' = Nil \/ IsDesc(ring')) /\ state' \in [Ids -> States]
    BY <1>t, <1>4, <1>s, Zenon DEF Typed, Shutdown, changeStateFails
  <2>1. Typed'
    BY <1>t, <1>4, <2>0, Zenon DEF Typed, Shutdown
  <2>2. Running(i) /\ \A k \in Ids : Running(k)' => Running(k)
    BY <1>t, <1>4, Zenon DEF Typed, Shutdown, Running
  <2>3. CASE changeState(i, LEAVING) \/ changeStateFails(i, LEAVING)
    BY <2>1, <2>2, <2>3, ChangeMoves, Zenon DEF States
  <2>4. CASE UNCHANGED <<ring, state>>
    BY <2>1, <2>2, <2>4, StillMoves, Zenon
  <2> QED
    BY <1>4, <2>1, <2>3, <2>4, Zenon DEF Shutdown
<1>5. ASSUME NEW i \in Ids, Connect(i) PROVE Typed' /\ Behind' /\ Forward
  <2>1. target[i] \in Ids
    BY <1>t, <1>5, Zenon DEF Typed, Connect
  <2>2. changeState(target[i], JOINING)
    BY <1>5, Zenon DEF Connect
  <2>3. Typed'
    BY <1>t, <1>5, <1>s, <2>1, <2>2, Zenon DEF Typed, Connect, Handlers
  <2>4. Running(target[i]) /\ \A k \in Ids : Running(k)' => Running(k)
    BY <1>t, <1>5, Zenon DEF Typed, Connect, Running
  <2> QED
    BY <2>1, <2>2, <2>3, <2>4, ChangeMoves, Zenon DEF States
<1>6. ASSUME NEW i \in Ids, Refused(i) PROVE Typed' /\ Behind' /\ Forward
  <2>1. target[i] \in Ids
    BY <1>t, <1>6, Zenon DEF Typed, Refused
  <2>2. Typed'
    BY <1>t, <1>6, <1>s, <2>1, Zenon DEF Typed, Refused, changeStateFails
  <2>3. \A k \in Ids : Running(k)' => Running(k)
    BY <1>t, <1>6, Zenon DEF Typed, Refused, Running
  <2>4. CASE UNCHANGED <<ring, state>>
    BY <2>2, <2>3, <2>4, StillMoves, Zenon
  <2>5. CASE proc[target[i]] = "loop" /\ changeStateFails(target[i], JOINING)
    <3>1. Running(target[i])
      BY <2>5, Zenon DEF Running
    <3> QED
      BY <2>1, <2>2, <2>3, <2>5, <3>1, ChangeMoves, Zenon DEF States
  <2> QED
    BY <1>6, <2>2, <2>4, <2>5, Zenon DEF Refused
<1>7. ASSUME NEW j \in Ids, ClaimTokensFor(j) PROVE Typed' /\ Behind' /\ Forward
  <2>1. ring' = ring \/ (ring # Nil /\ \E f : ring' = ClaimTokens(ring, f, j))
    BY <1>7, Zenon DEF ClaimTokensFor
  <2>2. (ring' = Nil \/ IsDesc(ring')) /\ Keeps
    BY <1>t, <2>1, ClaimedKeeps, Zenon
  <2>3. Typed'
    BY <1>t, <1>7, <2>2 DEF Typed, ClaimTokensFor, Handlers
  <2>4. \A k \in Ids : Running(k)' => Running(k) /\ Rank[state[k]] <= Rank[state'[k]]
    BY <1>t, <1>7, Ranks DEF Typed, ClaimTokensFor, Running
  <2> QED
    BY <2>2, <2>3, <2>4, KeepsMoves, Zenon
<1>8. ASSUME NEW j \in Ids, Activate(j) PROVE Typed' /\ Behind' /\ Forward
  <2>1. changeState(j, ACTIVE) \/ changeStateFails(j, ACTIVE)
    BY <1>8, Zenon DEF Activate
  <2>2. /\ ring' = Nil \/ IsDesc(ring')
        /\ state' \in [Ids -> States]
    BY <1>t, <1>s, <2>1, Zenon DEF Typed, changeStateFails
  <2>3. Typed'
    BY <1>t, <1>8, <2>2 DEF Typed, Activate, Handlers
  <2>4. Running(j) /\ \A k \in Ids : Running(k)' => Running(k)
    BY <1>t, <1>8, Zenon DEF Typed, Activate, Running, Looping
  <2> QED
    BY <2>1, <2>3, <2>4, ChangeMoves, Zenon DEF States
<1>9. ASSUME NEW i \in Ids, unregister(i) \/ forget(i) PROVE Typed' /\ Behind' /\ Forward
  <2>1. ring # Nil /\ ring' = RemoveIngester(ring, i)
    BY <1>9, NewIsDesc, Zenon DEF unregister, forget, Desc
  <2>2. IsDesc(ring') /\ Keeps
    BY <1>t, <2>1, RemovedKeeps, Zenon
  <2>3. Typed'
    BY <1>t, <1>9, <2>2, Zenon DEF Typed, unregister, forget
  <2>4. \A k \in Ids : Running(k)' => Running(k) /\ Rank[state[k]] <= Rank[state'[k]]
    BY <1>t, <1>9, Ranks DEF Typed, unregister, forget, Running
  <2> QED
    BY <2>2, <2>3, <2>4, KeepsMoves, Zenon
<1>10. ASSUME Wipe PROVE Typed' /\ Behind' /\ Forward
  <2>1. Typed'
    BY <1>t, <1>10 DEF Typed, Wipe
  <2>2. Keeps
    BY <1>10, NewIsDesc, Zenon DEF Wipe, Desc, Keeps
  <2>3. \A k \in Ids : Running(k)' => Running(k) /\ Rank[state[k]] <= Rank[state'[k]]
    BY <1>t, <1>10, Ranks DEF Typed, Wipe, Running
  <2> QED
    BY <2>1, <2>2, <2>3, KeepsMoves, Zenon
<1>11. ASSUME NEW i \in Ids, DieWithoutRing(i) PROVE Typed' /\ Behind' /\ Forward
  <2>1. Typed'
    BY <1>t, <1>11, Zenon DEF Typed, DieWithoutRing, Die, States
  <2> QED
    BY <1>11, <2>1, DieMoves, Zenon DEF DieWithoutRing
<1>12. ASSUME NEW i \in Ids, Crash(i) PROVE Typed' /\ Behind' /\ Forward
  <2>1. rcv' \in [Ids -> Handlers]
    BY <1>t, <1>12 DEF Typed, Crash, NoHandler, Handlers
  <2>2. Typed'
    BY <1>t, <1>12, <2>1 DEF Typed, Crash, Die, States
  <2> QED
    BY <1>12, <2>2, DieMoves, Zenon DEF Crash
<1>13. ASSUME NEW i \in Ids, SendEmptySeries(i) PROVE Typed' /\ Behind' /\ Forward
  <2>1. target[i] \in Ids /\ Die(target[i])
    BY <1>t, <1>13, Zenon DEF Typed, SendEmptySeries
  <2>2. rcv' \in [Ids -> Handlers]
    BY <1>t, <1>13, Zenon DEF Typed, SendEmptySeries, NoHandler, Handlers
  <2>3. Typed'
    BY <1>t, <1>13, <2>1, <2>2 DEF Typed, SendEmptySeries, Die, States
  <2> QED
    BY <1>13, <2>1, <2>3, DieMoves, Zenon DEF SendEmptySeries
<1>14. ASSUME NEW i \in Ids, SendSeries(i) PROVE Typed' /\ Behind' /\ Forward
  <2>1. rcv' \in [Ids -> Handlers]
    <3>1. PICK j : j = target[i] /\ rcv' = [rcv EXCEPT ![j].named = TRUE] /\ rcv \in [Ids -> Handlers]
      BY <1>t, <1>14, Zenon DEF Typed, SendSeries
    <3>2. ASSUME NEW r \in Handlers PROVE [r EXCEPT !.named = TRUE] \in Handlers
      BY Zenon DEF Handlers
    <3> QED
      BY <3>1, <3>2, Zenon
  <2>2. sent' \in [Ids -> SUBSET Data] /\ staged' \in [Ids -> SUBSET Data]
    BY <1>t, <1>14 DEF Typed, SendSeries
  <2>3. Typed'
    BY <1>t, <1>14, <2>1, <2>2, Zenon DEF Typed, SendSeries
  <2> QED
    BY <1>14, <2>3, StillMoves, Zenon DEF SendSeries, Running
<1>15. ASSUME NEW i \in Ids, CloseAndRecv(i) PROVE Typed' /\ Behind' /\ Forward
  <2>1. Typed' /\ \A k \in Ids : Running(k)' => Running(k)
    BY <1>t, <1>15, SMTT(20) DEF Typed, CloseAndRecv, Handlers, Running
  <2> QED
    BY <1>15, <2>1, StillMoves, Zenon DEF CloseAndRecv
<1>16. ASSUME NEW j \in Ids, Install(j) PROVE Typed' /\ Behind' /\ Forward
  <2>1. Typed'
    BY <1>t, <1>16 DEF Typed, Install, Handlers
  <2> QED
    BY <1>16, <2>1, StillMoves, Zenon DEF Install, Running
<1>17. ASSUME NEW i \in Ids, TransferFails(i) PROVE Typed' /\ Behind' /\ Forward
  <2>1. Typed' /\ \A k \in Ids : Running(k)' => Running(k)
    BY <1>t, <1>17 DEF Typed, TransferFails, Handlers, Running
  <2> QED
    BY <1>17, <2>1, StillMoves, Zenon DEF TransferFails
<1>18. ASSUME NEW i \in Ids, Terminate(i) \/ SearchTimesOut(i) \/ TransferOk(i) \/ Exit(i)
       PROVE  Typed' /\ Behind' /\ Forward
  <2>1. Typed'
    <3>1. CASE Terminate(i) \/ SearchTimesOut(i)
      BY <1>t, <3>1, ZenonT(30) DEF Typed, Terminate, SearchTimesOut
    <3>2. CASE TransferOk(i)
      BY <1>t, <3>2, Zenon DEF Typed, TransferOk
    <3>3. CASE Exit(i)
      BY <1>t, <3>3, Zenon DEF Typed, Exit
    <3> QED
      BY <1>18, <3>1, <3>2, <3>3, Zenon
  <2>2. \A k \in Ids : Running(k)' => Running(k)
    BY <1>t, <1>18, Zenon DEF Typed, Terminate, SearchTimesOut, TransferOk, Exit, Running
  <2> QED
    BY <1>18, <2>1, <2>2, StillMoves, Zenon DEF Terminate, SearchTimesOut, TransferOk, Exit
<1>19. ASSUME NEW i \in Ids, findTargetIngester(i) PROVE Typed' /\ Behind' /\ Forward
  <2>1. FindIngestersByState(Desc, PENDING) \subseteq Ids
    BY <1>t, DescIs, Zenon DEF FindIngestersByState, IsDesc
  <2>2. Typed' /\ \A k \in Ids : Running(k)' => Running(k)
    BY <1>t, <1>19, <2>1, ZenonT(30) DEF Typed, findTargetIngester, Running
  <2> QED
    BY <1>19, <2>2, StillMoves, Zenon DEF findTargetIngester
<1>20. ASSUME NEW i \in Ids, NEW d \in Data, NextSeries(i, d) \/ Push(i, d) \/ FlushSeries(i, d)
       PROVE  Typed' /\ Behind' /\ Forward
  <2>1. Typed'
    BY <1>t, <1>20 DEF Typed, NextSeries, Push, FlushSeries
  <2> QED
    BY <1>20, <2>1, StillMoves, Zenon DEF NextSeries, Push, FlushSeries, Running
<1>21. ASSUME Watch PROVE Typed' /\ Behind' /\ Forward
  <2>1. FindIngestersByState(Desc, ACTIVE) \subseteq Ids
    BY <1>t, DescIs, Zenon DEF FindIngestersByState, IsDesc
  <2>2. Typed'
    BY <1>t, <1>21, <2>1, Zenon DEF Typed, Watch
  <2> QED
    BY <1>21, <2>2, StillMoves, Zenon DEF Watch, Running
<1>22. ASSUME UNCHANGED vars PROVE Typed' /\ Behind' /\ Forward
  <2>1. Typed'
    BY <1>t, <1>22, Zenon DEF Typed, vars
  <2> QED
    BY <1>22, <2>1, StillMoves, Zenon DEF vars, Running
<1> QED
  BY <1>1, <1>2, <1>3, <1>4, <1>5, <1>6, <1>7, <1>8, <1>9, <1>10, <1>11, <1>12, <1>13, <1>14, <1>15,
     <1>16, <1>17, <1>18, <1>19, <1>20, <1>21, <1>22, Zenon DEF Next, Leave, Handler

(* RingMovesForward, for all runs: the entry of an ingester in the ring    *)
(* only moves forward, since heartbeats, ChangeState and autoJoin write    *)
(* what the process has reached, a restarted process takes its state from  *)
(* the ring, and nobody else's entry is ever written.                      *)
THEOREM EntriesMoveForward == Spec => RingMovesForward
<1>1. RingInv /\ [Next]_vars => [Forward]_vars
  BY RingStep, Zenon
<1> QED
  BY <1>1, InitRing, RingStep, PTL DEF Spec, RingMovesForward, Forward

-----------------------------------------------------------------------------
(* An ingester that is about to take over has nothing yet.                 *)

(* A step that gives nobody data and lets nobody begin keeps Fresh.        *)
LEMMA FreshKept ==
  ASSUME Fresh, Keeps, targets' = targets,
         \A k \in Ids : /\ Running(k)' => Running(k) /\ state'[k] = state[k]
                        /\ mem'[k] \subseteq mem[k] /\ (Running(k)' \/ ~Running(k) \/ mem'[k] = {})
                        /\ rcv'[k].pc = "install" => rcv[k].pc = "install"
  PROVE  Fresh'
<1> SUFFICES ASSUME NEW k \in Ids PROVE FreshAt(k)'
  BY Zenon DEF Fresh
<1>1. FreshAt(k)
  BY Zenon DEF Fresh
<1>2. /\ Running(k)' => Running(k) /\ state'[k] = state[k]
      /\ mem'[k] \subseteq mem[k] /\ (Running(k)' \/ ~Running(k) \/ mem'[k] = {})
      /\ rcv'[k].pc = "install" => rcv[k].pc = "install"
      /\ k \in Members(Desc') => k \in Members(Desc) /\ Desc'.ingesters[k] = Desc.ingesters[k]
  BY Zenon DEF Keeps
<1>3. mem[k] = {} => mem'[k] = {}
  BY <1>2, Zenon
<1> QED
  BY <1>1, <1>2, <1>3, Zenon DEF FreshAt

(* So does a write of the ring that makes no target young again.           *)
LEMMA FreshSets ==
  ASSUME Fresh, NEW i \in Ids, NEW s, Keeps \/ (Sets(i, s) /\ (i \in targets => s \notin Young)),
         targets' = targets, mem' = mem,
         ~Running(i)' => mem[i] = {},
         Running(i)' /\ state'[i] \in Young => mem[i] = {} /\ i \notin targets,
         \A k \in Ids : k # i => (Running(k)' <=> Running(k)) /\ state'[k] = state[k],
         \A k \in Ids : rcv'[k].pc = "install" => rcv[k].pc = "install" \/ mem[k] = {}
  PROVE  Fresh'
<1> SUFFICES ASSUME NEW k \in Ids PROVE FreshAt(k)'
  BY Zenon DEF Fresh
<1>1. FreshAt(k)
  BY Zenon DEF Fresh
<1>2. k \in targets /\ k \in Members(Desc') => Desc'.ingesters[k] \notin Young
  BY <1>1, Zenon DEF Keeps, Sets, FreshAt
<1>3. CASE k = i
  BY <1>1, <1>2, <1>3, Zenon DEF FreshAt
<1>4. CASE k # i
  BY <1>1, <1>2, <1>4, Zenon DEF FreshAt
<1> QED
  BY <1>3, <1>4, Zenon

(* What the constants have to say for the acknowledged samples to be safe: *)
(* an ingester must not register anew while distributors write to it, or   *)
(* none ever has to, since none crashes and the ring is not lost.          *)
SafeRestarts ==
  StaleWrites => MaxCrashes = 0 /\ MaxWipes = 0 /\ \A f, t : Nil # [ingesters |-> f, tokens |-> t]

(* Without crashes and losses of the ring a stale write finds the ring.    *)
LEMMA RingIsThere == ASSUME SafeRestarts, NEW d, IsDesc(d) PROVE StaleWrites => d # Nil
BY Zenon DEF SafeRestarts, IsDesc

(* Each step keeps Fresh: before it is ACTIVE an ingester is sent nothing  *)
(* but by a handover.                                                      *)
LEMMA FreshStep == ASSUME SafeRestarts, LifeInv, [Next]_vars PROVE Fresh'
<1> USE DEF local, sender, receiver, data, bounds
<1>t. Typed /\ Fresh /\ Receives /\ NoRestart
  BY Zenon DEF LifeInv, RingInv
<1>f. \A k \in Ids : FreshAt(k)
  BY <1>t, Zenon DEF Fresh
<1>k. ring' = ring => Keeps
  BY <1>t, SameKeeps, Zenon
<1>1. ASSUME NEW i \in Ids, initRing(i) PROVE Fresh'
  <2>1. /\ ~Running(i) /\ mem[i] = {} /\ targets' = targets /\ mem' = mem /\ rcv' = rcv
        /\ Running(i)'
        /\ \A k \in Ids : k # i => (Running(k)' <=> Running(k)) /\ state'[k] = state[k]
    BY <1>t, <1>f, <1>1, Zenon DEF initRing, Running, FreshAt, Typed
  <2>2. CASE i \in Members(Desc)
    <3>1. Desc' = Desc /\ state'[i] = Desc.ingesters[i]
      BY <1>t, <1>1, <2>2, Zenon DEF initRing, Desc, Typed
    <3>2. Keeps
      BY <3>1, Zenon DEF Keeps
    <3>3. state'[i] \in Young => i \notin targets
      BY <1>f, <2>2, <3>1, Zenon DEF FreshAt
    <3> QED
      BY <1>t, <2>1, <3>2, <3>3, FreshSets, Zenon
  <2>3. CASE i \notin Members(Desc)
    <3>1. i \notin targets
      BY <1>t, <1>1, <2>3, Zenon DEF initRing, NoRestart
    <3>2. Sets(i, PENDING)
      BY <1>t, <1>1, <2>3, AddedSets, Zenon DEF initRing, States
    <3> QED
      BY <1>t, <2>1, <3>1, <3>2, FreshSets, Zenon
  <2> QED
    BY <2>2, <2>3, Zenon
<1>2. ASSUME NEW i \in Ids, autoJoin(i) PROVE Fresh'
  <2>1. Sets(i, ACTIVE)
    BY <1>t, <1>2, AddedSets, Zenon DEF autoJoin, States
  <2>2. ACTIVE \notin Young
    BY Zenon DEF Young, ACTIVE, PENDING, JOINING
  <2>3. /\ state'[i] = ACTIVE /\ Running(i)' /\ targets' = targets /\ mem' = mem /\ rcv' = rcv
        /\ \A k \in Ids : k # i => (Running(k)' <=> Running(k)) /\ state'[k] = state[k]
    BY <1>t, <1>2, Zenon DEF autoJoin, Typed, Looping, Running
  <2> QED
    BY <1>t, <2>1, <2>2, <2>3, FreshSets, Zenon
<1>3. ASSUME NEW i \in Ids, Heartbeat(i) PROVE Fresh'
  <2>1. /\ state[i] \in States /\ state' = state /\ Running(i) /\ Running(i)'
        /\ targets' = targets /\ mem' = mem /\ rcv' = rcv
        /\ \A k \in Ids : Running(k)' <=> Running(k)
    BY <1>t, <1>3, Zenon DEF Heartbeat, Typed, Looping, Running
  <2>2. Sets(i, state[i])
    BY <1>t, <1>3, <2>1, UpdateSets, Zenon DEF Heartbeat
  <2>3. state[i] \in Young => mem[i] = {} /\ i \notin targets
    BY <1>f, <2>1, Zenon DEF FreshAt
  <2> QED
    BY <1>t, <2>1, <2>2, <2>3, FreshSets, Zenon
<1>c. ASSUME NEW i \in Ids, NEW s \in States, changeState(i, s) \/ changeStateFails(i, s)
      PROVE  Keeps \/ Sets(i, s)
  BY <1>t, <1>c, <1>k, UpdateSets, Zenon DEF changeState, changeStateFails
<1>4. ASSUME NEW i \in Ids, Shutdown(i) PROVE Fresh'
  <2>1. /\ Running(i) /\ Running(i)' /\ targets' = targets /\ mem' = mem /\ rcv' = rcv
        /\ \A k \in Ids : Running(k)' <=> Running(k)
    BY <1>t, <1>4, Zenon DEF Shutdown, Typed, Running
  <2>2. CASE changeState(i, LEAVING) \/ changeStateFails(i, LEAVING)
    <3>1. Keeps \/ Sets(i, LEAVING)
      BY <1>c, <2>2, Zenon DEF States
    <3>2. LEAVING \notin Young /\ state'[i] = LEAVING /\ \A k \in Ids : k # i => state'[k] = state[k]
      BY <1>t, <2>2, Zenon DEF changeState, changeStateFails, Typed, Young, LEAVING, PENDING, JOINING
    <3> QED
      BY <1>t, <2>1, <3>1, <3>2, FreshSets, Zenon
  <2>3. CASE UNCHANGED <<ring, state>>
    BY <1>t, <1>k, <2>1, <2>3, FreshKept, Zenon
  <2> QED
    BY <1>4, <2>2, <2>3, Zenon DEF Shutdown
<1>5. ASSUME NEW i \in Ids, NEW j \in Ids, j = target[i], Connect(i) \/ Refused(i) PROVE Fresh'
  <2>1. /\ targets' = targets /\ mem' = mem
        /\ \A k \in Ids : (Running(k)' <=> Running(k)) /\ (rcv'[k].pc = "install" => rcv[k].pc = "install")
    BY <1>t, <1>5 DEF Connect, Refused, Typed, Running
  <2>2. CASE /\ proc[j] = "loop"
             /\ changeState(j, JOINING) \/ changeStateFails(j, JOINING)
    <3>1. Keeps \/ Sets(j, JOINING)
      BY <1>c, <2>2, Zenon DEF States
    <3>2. state[j] = PENDING /\ \A k \in Ids : k # j => state'[k] = state[k]
      BY <1>t, <2>2, Zenon DEF changeState, changeStateFails, Typed, Allowed, LEAVING, ACTIVE, JOINING
    <3>3. Running(j) /\ mem[j] = {} /\ j \notin targets
      BY <1>f, <2>2, <3>2, Zenon DEF FreshAt, Running, Young
    <3> QED
      BY <1>t, <2>1, <3>1, <3>2, <3>3, FreshSets, Zenon
  <2>3. CASE UNCHANGED <<ring, state>>
    BY <1>t, <1>k, <2>1, <2>3, FreshKept, Zenon
  <2> QED
    BY <1>5, <2>2, <2>3, Zenon DEF Connect, Refused
<1>6. ASSUME NEW j \in Ids, Activate(j) PROVE Fresh'
  <2>1. changeState(j, ACTIVE) \/ changeStateFails(j, ACTIVE)
    BY <1>6, Zenon DEF Activate
  <2>2. Keeps \/ Sets(j, ACTIVE)
    BY <1>c, <2>1, Zenon DEF States
  <2>3. ACTIVE \notin Young /\ state'[j] = ACTIVE /\ \A k \in Ids : k # j => state'[k] = state[k]
    BY <1>t, <2>1, Zenon DEF changeState, changeStateFails, Typed, Young, ACTIVE, PENDING, JOINING
  <2>4. Running(j) /\ mem[j] = {}
    BY <1>t, <1>f, <1>6, Zenon DEF Activate, Looping, Running, FreshAt, Young, Receives, ReceivesAt
  <2>5. /\ targets' = targets /\ mem' = mem
        /\ \A k \in Ids : (Running(k)' <=> Running(k)) /\ (k # j => rcv'[k] = rcv[k])
    BY <1>t, <1>6, Zenon DEF Activate, Typed, Running
  <2> QED
    BY <1>t, <2>2, <2>3, <2>4, <2>5, FreshSets, Zenon
<1>7. ASSUME NEW j \in Ids, Install(j) PROVE Fresh'
  <2>1. /\ ring' = ring /\ state' = state /\ proc' = proc /\ targets' = targets
        /\ rcv'[j].pc = "ok" /\ \A k \in Ids : k # j => mem'[k] = mem[k] /\ rcv'[k] = rcv[k]
    BY <1>t, <1>7, Zenon DEF Install, Typed, Handlers
  <2>2. Running(j) /\ state[j] \notin Young
    BY <1>t, <1>7, Zenon DEF Install, Receives, ReceivesAt, Handling, Looping, Running, Young, ACTIVE, PENDING, JOINING
  <2> QED
    BY <1>f, <2>1, <2>2, Zenon DEF Fresh, FreshAt, Running, Desc
<1>8. ASSUME NEW i \in Ids, NEW d \in Data, Push(i, d) PROVE Fresh'
  <2>1. /\ i \in targets /\ Running(i) /\ rcv[i].pc # "install"
        /\ ring' = ring /\ state' = state /\ proc' = proc /\ targets' = targets /\ rcv' = rcv
        /\ \A k \in Ids : k # i => mem'[k] = mem[k]
    BY <1>t, <1>8, Zenon DEF Push, Typed, Running
  <2> QED
    BY <1>f, <2>1, Zenon DEF Fresh, FreshAt, Running, Desc
<1>9. ASSUME Watch PROVE Fresh'
  <2>1. /\ ring' = ring /\ state' = state /\ proc' = proc /\ mem' = mem /\ rcv' = rcv /\ Desc' = Desc
        /\ targets' = FindIngestersByState(Desc, ACTIVE)
    BY <1>9, Zenon DEF Watch, Desc
  <2>2. \A k \in targets' : k \in Members(Desc) /\ Desc.ingesters[k] = ACTIVE
    BY <2>1, Zenon DEF FindIngestersByState
  <2>3. \A k \in targets' : k \in Ids /\ (Running(k) => state[k] \notin Young)
    <3> SUFFICES ASSUME NEW k \in targets' PROVE k \in Ids /\ (Running(k) => state[k] \notin Young)
      BY Zenon
    <3>1. k \in Ids
      BY <1>t, <2>2, DescIs, Zenon DEF IsDesc
    <3>2. Running(k) => Rank[ACTIVE] <= Rank[state[k]]
      BY <2>2, <3>1, Zenon DEF LifeInv, RingInv, Behind
    <3> QED
      BY <3>1, <3>2, Ranks DEF Young
  <2>4. ACTIVE \notin Young
    BY Zenon DEF Young, ACTIVE, PENDING, JOINING
  <2> QED
    BY <1>f, <2>1, <2>2, <2>3, <2>4, Zenon DEF Fresh, FreshAt, Running
<1>10. ASSUME NEW i \in Ids, NEW d \in Data, FlushSeries(i, d) \/ NextSeries(i, d) PROVE Fresh'
  <2>1. \A k \in Ids : (Running(k)' <=> Running(k)) /\ state'[k] = state[k] /\ mem'[k] \subseteq mem[k]
    BY <1>t, <1>10 DEF FlushSeries, NextSeries, Typed, Running
  <2> QED
    BY <1>t, <1>k, <1>10, <2>1, FreshKept, Zenon DEF FlushSeries, NextSeries
<1>11. ASSUME NEW i \in Ids, SendSeries(i) \/ CloseAndRecv(i) \/ TransferFails(i) PROVE Fresh'
  <2>1. \A k \in Ids : (Running(k)' <=> Running(k)) /\ state'[k] = state[k]
    BY <1>t, <1>11, Zenon DEF SendSeries, CloseAndRecv, TransferFails, Typed, Running
  <2>2. \A k \in Ids : rcv'[k].pc = "install" => rcv[k].pc = "install"
    BY <1>t, <1>11 DEF SendSeries, CloseAndRecv, TransferFails, Typed, Handlers
  <2> QED
    BY <1>t, <1>k, <1>11, <2>1, <2>2, FreshKept, Zenon DEF SendSeries, CloseAndRecv, TransferFails
<1>12. ASSUME NEW i \in Ids, Terminate(i) \/ findTargetIngester(i) \/ SearchTimesOut(i) \/ TransferOk(i)
       PROVE  Fresh'
  <2>1. \A k \in Ids : (Running(k)' <=> Running(k)) /\ state'[k] = state[k]
    BY <1>t, <1>12, Zenon DEF Terminate, findTargetIngester, SearchTimesOut, TransferOk, Typed, Running
  <2> QED
    BY <1>t, <1>k, <1>12, <2>1, FreshKept, Zenon DEF Terminate, findTargetIngester, SearchTimesOut, TransferOk
<1>13. ASSUME NEW j \in Ids, ClaimTokensFor(j) PROVE Fresh'
  <2>1. Keeps
    BY <1>t, <1>13, ClaimedKeeps, Zenon DEF ClaimTokensFor
  <2>2. \A k \in Ids : rcv'[k].pc = "install" => rcv[k].pc = "install"
    BY <1>t, <1>13, Zenon DEF ClaimTokensFor, Typed, Handlers
  <2> QED
    BY <1>t, <1>13, <2>1, <2>2, FreshKept, Zenon DEF ClaimTokensFor, Running
<1>14. ASSUME NEW i \in Ids, unregister(i) \/ forget(i) PROVE Fresh'
  <2>1. Keeps
    BY <1>t, <1>14, RemovedKeeps, NewIsDesc, Zenon DEF unregister, forget, Desc
  <2>2. \A k \in Ids : (Running(k)' <=> Running(k)) /\ state'[k] = state[k]
    BY <1>t, <1>14, Zenon DEF unregister, forget, Typed, Running
  <2> QED
    BY <1>t, <1>14, <2>1, <2>2, FreshKept, Zenon DEF unregister, forget
<1>15. ASSUME Wipe PROVE Fresh'
  <2>1. Keeps
    BY <1>15, NewIsDesc, Zenon DEF Wipe, Desc, Keeps
  <2> QED
    BY <1>t, <1>15, <2>1, FreshKept, Zenon DEF Wipe, Running
<1>d. ASSUME NEW i \in Ids, Die(i), ring' = ring, targets' = targets,
             \A k \in Ids : rcv'[k].pc = "install" => rcv[k].pc = "install"
      PROVE  Fresh'
  <2>1. \A k \in Ids : /\ Running(k)' => Running(k) /\ state'[k] = state[k]
                       /\ mem'[k] \subseteq mem[k] /\ (Running(k)' \/ ~Running(k) \/ mem'[k] = {})
    BY <1>t, <1>d, Zenon DEF Die, Typed, Running
  <2> QED
    BY <1>t, <1>k, <1>d, <2>1, FreshKept, Zenon
<1>16. ASSUME NEW i \in Ids, Crash(i) PROVE Fresh'
  BY <1>t, <1>16, <1>d, Zenon DEF Crash, Typed, Handlers, NoHandler
<1>17. ASSUME NEW i \in Ids, DieWithoutRing(i) PROVE Fresh'
  BY <1>17, <1>d, Zenon DEF DieWithoutRing
<1>18. ASSUME NEW i \in Ids, SendEmptySeries(i) PROVE Fresh'
  <2>1. \A k \in Ids : rcv'[k].pc = "install" => rcv[k].pc = "install"
    BY <1>t, <1>18, Zenon DEF SendEmptySeries, Typed, NoHandler
  <2> QED
    BY <1>t, <1>18, <1>d, <2>1, Zenon DEF SendEmptySeries, Typed
<1>19. ASSUME NEW i \in Ids, Exit(i) PROVE Fresh'
  <2>1. \A k \in Ids : /\ Running(k)' => Running(k) /\ state'[k] = state[k]
                       /\ mem'[k] \subseteq mem[k] /\ (Running(k)' \/ ~Running(k) \/ mem'[k] = {})
    BY <1>t, <1>19, Zenon DEF Exit, Typed, Running
  <2> QED
    BY <1>t, <1>k, <1>19, <2>1, FreshKept, Zenon DEF Exit
<1>20. ASSUME UNCHANGED vars PROVE Fresh'
  BY <1>t, <1>k, <1>20, FreshKept, Zenon DEF vars, Running
<1>21. \A i \in Ids : Connect(i) \/ Refused(i) => target[i] \in Ids
  BY <1>t, Zenon DEF Typed, Connect, Refused
<1> QED
  BY <1>1, <1>2, <1>3, <1>4, <1>5, <1>6, <1>7, <1>8, <1>9, <1>10, <1>11, <1>12, <1>13, <1>14, <1>15,
     <1>16, <1>17, <1>18, <1>19, <1>20, <1>21, Zenon DEF Next, Leave, Handler

-----------------------------------------------------------------------------
(* The handler of a hand-over runs while its ingester does, in the states  *)
(* it has put it in.                                                       *)

(* A receiver that goes on keeps its process and the state it was in.      *)
LEMMA ReceivesKept ==
  ASSUME Receives,
         \A k \in Ids : \/ rcv'[k].pc \in {"none", "failed", "ok"}
                        \/ rcv'[k].pc = rcv[k].pc /\ (Handling(k) => Looping(k)' /\ state'[k] = state[k])
  PROVE  Receives'
<1> SUFFICES ASSUME NEW k \in Ids PROVE ReceivesAt(k)'
  BY Zenon DEF Receives
<1>1. ReceivesAt(k)
  BY Zenon DEF Receives
<1>2. CASE rcv'[k].pc \in {"none", "failed", "ok"}
  BY <1>2, Zenon DEF ReceivesAt, Handling
<1>3. CASE rcv'[k].pc = rcv[k].pc /\ (Handling(k) => Looping(k)' /\ state'[k] = state[k])
  BY <1>1, <1>3, Zenon DEF ReceivesAt, Handling
<1> QED
  BY <1>2, <1>3, Zenon

(* Each step keeps Receives: the state TransferChunks relies on is its     *)
(* own.                                                                    *)
LEMMA ReceivesStep == ASSUME LifeInv, [Next]_vars PROVE Receives'
<1> USE DEF local, sender, receiver, data, bounds
<1>t. Typed /\ Receives
  BY Zenon DEF LifeInv, RingInv
<1>r. \A k \in Ids : ReceivesAt(k)
  BY <1>t, Zenon DEF Receives
<1>p. \A k \in Ids : Handling(k) => Looping(k) /\ state[k] # PENDING
  BY <1>r, Zenon DEF ReceivesAt, Handling, PENDING, JOINING, ACTIVE
<1>1. ASSUME NEW i \in Ids, initRing(i) \/ autoJoin(i) \/ Shutdown(i) PROVE Receives'
  <2>1. ~Handling(i)
    BY <1>p, <1>1, Zenon DEF initRing, autoJoin, Shutdown, Looping
  <2>2. rcv' = rcv /\ \A k \in Ids : k # i => proc'[k] = proc[k] /\ state'[k] = state[k]
    BY <1>t, <1>1, ZenonT(30) DEF initRing, autoJoin, Shutdown, changeState, changeStateFails, Typed
  <2> QED
    BY <1>t, <1>p, <2>1, <2>2, ReceivesKept, Zenon DEF Looping
<1>2. ASSUME NEW i \in Ids, NEW j \in Ids, j = target[i], Connect(i) PROVE Receives'
  <2>1. /\ rcv'[j].pc = "recv" /\ state'[j] = JOINING /\ Looping(j)'
        /\ \A k \in Ids : k # j => rcv'[k] = rcv[k] /\ state'[k] = state[k] /\ (Looping(k) => Looping(k)')
    BY <1>t, <1>2, Zenon DEF Connect, changeState, Typed, Looping
  <2> QED
    BY <1>r, <2>1, Zenon DEF Receives, ReceivesAt, Handling
<1>3. ASSUME NEW i \in Ids, NEW j \in Ids, j = target[i], Refused(i) PROVE Receives'
  <2>1. /\ rcv' = rcv /\ \A k \in Ids : Looping(k) => Looping(k)'
        /\ \A k \in Ids : state'[k] = state[k] \/ state[k] = PENDING
    BY <1>t, <1>3, Zenon
       DEF Refused, changeStateFails, Allowed, Typed, Looping, PENDING, JOINING, ACTIVE, LEAVING
  <2> QED
    BY <1>t, <1>p, <2>1, ReceivesKept, Zenon
<1>4. ASSUME NEW i \in Ids, NEW j \in Ids, j = target[i], CloseAndRecv(i) PROVE Receives'
  <2>1. /\ rcv[j].pc = "recv" /\ rcv'[j].pc = "claim" /\ state' = state
        /\ \A k \in Ids : (k # j => rcv'[k] = rcv[k]) /\ (Looping(k) => Looping(k)')
    BY <1>t, <1>4, Zenon DEF CloseAndRecv, InTouch, Typed, Handlers, Looping
  <2> QED
    BY <1>r, <2>1, Zenon DEF Receives, ReceivesAt, Handling
<1>5. ASSUME NEW j \in Ids, ClaimTokensFor(j) PROVE Receives'
  <2>1. /\ rcv[j].pc = "claim" /\ rcv'[j].pc = "activate" /\ state' = state /\ proc' = proc
        /\ \A k \in Ids : k # j => rcv'[k] = rcv[k]
    BY <1>t, <1>5, Zenon DEF ClaimTokensFor, Typed, Handlers
  <2> QED
    BY <1>r, <2>1, Zenon DEF Receives, ReceivesAt, Handling, Looping
<1>6. ASSUME NEW j \in Ids, Activate(j) PROVE Receives'
  <2>1. /\ Looping(j) /\ rcv'[j].pc \in {"install", "failed"} /\ state'[j] = ACTIVE /\ proc' = proc
        /\ \A k \in Ids : k # j => rcv'[k] = rcv[k] /\ state'[k] = state[k]
    BY <1>t, <1>6 DEF Activate, changeState, changeStateFails, Typed, Handlers
  <2> QED
    BY <1>r, <2>1, Zenon DEF Receives, ReceivesAt, Handling, Looping
<1>7. ASSUME NEW j \in Ids, Install(j) PROVE Receives'
  <2>1. \A k \in Ids : rcv'[k].pc = "ok" \/ rcv'[k].pc = rcv[k].pc
    BY <1>t, <1>7, Zenon DEF Install, Typed, Handlers
  <2> QED
    BY <1>t, <1>p, <1>7, <2>1, ReceivesKept, Zenon DEF Install, Looping
<1>8. ASSUME NEW i \in Ids, SendSeries(i) \/ TransferFails(i) PROVE Receives'
  <2>1. \A k \in Ids : rcv'[k].pc = "failed" \/ rcv'[k].pc = rcv[k].pc
    BY <1>t, <1>8 DEF SendSeries, TransferFails, Typed, Handlers
  <2>2. state' = state /\ \A k \in Ids : Looping(k) => Looping(k)'
    BY <1>t, <1>8, Zenon DEF SendSeries, TransferFails, Typed, Looping
  <2> QED
    BY <1>t, <1>p, <2>1, <2>2, ReceivesKept, Zenon
<1>9. ASSUME NEW i \in Ids, Crash(i) \/ SendEmptySeries(i) \/ DieWithoutRing(i) PROVE Receives'
  <2>1. PICK j \in Ids : Die(j) /\ (rcv'[j].pc = "none" \/ (~Looping(j) /\ rcv'[j] = rcv[j]))
    <3>1. CASE Crash(i)
      BY <3>1, Zenon DEF Crash, NoHandler
    <3>2. CASE SendEmptySeries(i)
      BY <1>t, <3>2, Zenon DEF SendEmptySeries, Typed, NoHandler
    <3>3. CASE DieWithoutRing(i)
      BY <3>3, Zenon DEF DieWithoutRing, Looping
    <3> QED
      BY <1>9, <3>1, <3>2, <3>3, Zenon
  <2>2. \A k \in Ids : k # j => proc'[k] = proc[k] /\ state'[k] = state[k]
    BY <1>t, <2>1, Zenon DEF Die, Typed
  <2>3. \A k \in Ids : rcv'[k].pc \in {"none", "failed"} \/ rcv'[k].pc = rcv[k].pc
    BY <1>t, <1>9 DEF Crash, SendEmptySeries, DieWithoutRing, Typed, Handlers, NoHandler
  <2> QED
    BY <1>t, <1>p, <2>1, <2>2, <2>3, ReceivesKept, Zenon DEF Looping
<1>10. ASSUME NEW i \in Ids, Heartbeat(i) \/ forget(i) \/ (\E d \in Data : Push(i, d) \/ FlushSeries(i, d) \/ NextSeries(i, d))
       PROVE  Receives'
  BY <1>t, <1>p, <1>10, ReceivesKept, Zenon DEF Heartbeat, forget, Push, FlushSeries, NextSeries, Looping
<1>11. ASSUME NEW i \in Ids,
              \/ Terminate(i) \/ findTargetIngester(i) \/ SearchTimesOut(i)
              \/ TransferOk(i) \/ unregister(i) \/ Exit(i)
       PROVE  Receives'
  <2>1. /\ rcv' = rcv /\ state' = state
        /\ \A k \in Ids : Looping(k) => Looping(k)'
    BY <1>t, <1>11, Zenon
       DEF Terminate, findTargetIngester, SearchTimesOut, TransferOk, unregister, Exit, Typed, Looping
  <2> QED
    BY <1>t, <1>p, <2>1, ReceivesKept, Zenon
<1>12. ASSUME Watch \/ Wipe \/ UNCHANGED vars PROVE Receives'
  BY <1>t, <1>p, <1>12, ReceivesKept, Zenon DEF Watch, Wipe, vars, Looping
<1>13. \A i \in Ids : Connect(i) \/ Refused(i) \/ CloseAndRecv(i) => target[i] \in Ids
  BY <1>t, Zenon DEF Typed, Connect, Refused, CloseAndRecv
<1> QED
  BY <1>1, <1>2, <1>3, <1>4, <1>5, <1>6, <1>7, <1>8, <1>9, <1>10, <1>11, <1>12, <1>13, Zenon
     DEF Next, Leave, Handler

-----------------------------------------------------------------------------
(* With StaleWrites, only a receiver that panics starts anew.              *)

(* Each step keeps NoRestart: with stale writes nobody begins a second     *)
(* time.                                                                   *)
LEMMA NoRestartStep == ASSUME SafeRestarts, LifeInv, [Next]_vars PROVE NoRestart'
<1> SUFFICES ASSUME StaleWrites PROVE NoRestart'
  BY Zenon DEF NoRestart
<1> USE DEF local, sender, receiver, data, bounds
<1>t. Typed /\ Behind /\ Fresh /\ Receives
  BY Zenon DEF LifeInv, RingInv
<1>n. /\ \A i \in Ids : proc[i] # "off" => ring # Nil
      /\ \A i \in Ids : proc[i] = "off" => i \notin targets /\ (i \in Members(Desc) => Desc.ingesters[i] \in Young)
  BY Zenon DEF LifeInv, NoRestart
<1>k. ring' = ring => Keeps
  BY <1>t, SameKeeps, Zenon
(* All but the death of a process and the distributors' watch.             *)
<1>q. ASSUME NEW i \in Ids,
             Keeps \/ (proc'[i] # "off" /\ \E s : Sets(i, s)),
             ring' # Nil \/ (ring' = ring /\ proc' = proc),
             targets' = targets,
             \A k \in Ids : proc'[k] = "off" => proc[k] = "off"
      PROVE  NoRestart'
  <2>1. ring' = Nil => \A k \in Ids : proc'[k] = "off"
    BY <1>n, <1>q, Zenon
  <2>2. ASSUME NEW k \in Ids, proc'[k] = "off", k \in Members(Desc')
        PROVE  Desc'.ingesters[k] \in Young
    <3>1. k \in Members(Desc) /\ Desc'.ingesters[k] = Desc.ingesters[k]
      BY <1>q, <2>2, Zenon DEF Keeps, Sets
    <3> QED
      BY <1>n, <1>q, <2>2, <3>1, Zenon
  <2> QED
    BY <1>n, <1>q, <2>1, <2>2, Zenon DEF NoRestart
<1>1. ASSUME NEW i \in Ids, initRing(i) PROVE NoRestart'
  <2>1. /\ targets' = targets /\ proc'[i] # "off"
        /\ \A k \in Ids : proc'[k] = "off" => proc[k] = "off"
    BY <1>t, <1>1, Zenon DEF initRing, Typed
  <2>2. CASE i \in Members(Desc)
    <3>1. ring' = Desc
      BY <1>1, <2>2, Zenon DEF initRing
    <3>2. ring' # Nil
      BY <1>t, <3>1, DescIs, RingIsThere, Zenon
    <3>3. Keeps
      BY <3>1, <3>2, Zenon DEF Keeps, Desc
    <3> QED
      BY <1>q, <2>1, <3>2, <3>3, Zenon
  <2>3. CASE i \notin Members(Desc)
    <3>1. IsDesc(ring') /\ Sets(i, PENDING)
      BY <1>t, <1>1, <2>3, AddedSets, Zenon DEF initRing, States
    <3> QED
      BY <1>q, <2>1, <3>1, RingIsThere, Zenon
  <2> QED
    BY <2>2, <2>3, Zenon
<1>2. ASSUME NEW i \in Ids, autoJoin(i) PROVE NoRestart'
  <2>1. IsDesc(ring') /\ Sets(i, ACTIVE)
    BY <1>t, <1>2, AddedSets, Zenon DEF autoJoin, States
  <2>2. targets' = targets /\ proc' = proc /\ proc[i] # "off"
    BY <1>2, Zenon DEF autoJoin, Looping
  <2> QED
    BY <1>q, <2>1, <2>2, RingIsThere, Zenon
<1>3. ASSUME NEW i \in Ids, Heartbeat(i) PROVE NoRestart'
  <2>1. IsDesc(ring') /\ Sets(i, state[i])
    BY <1>t, <1>3, UpdateSets, Zenon DEF Heartbeat, Typed
  <2>2. targets' = targets /\ proc' = proc /\ proc[i] # "off"
    BY <1>3, Zenon DEF Heartbeat, Looping
  <2> QED
    BY <1>q, <2>1, <2>2, RingIsThere, Zenon
<1>c. ASSUME NEW i \in Ids, NEW s \in States, changeState(i, s) \/ changeStateFails(i, s), proc[i] # "off"
      PROVE  ring' # Nil /\ (Keeps \/ \E z : Sets(i, z))
  BY <1>t, <1>c, <1>k, <1>n, UpdateSets, RingIsThere, Zenon DEF changeState, changeStateFails
<1>4. ASSUME NEW i \in Ids, Shutdown(i) PROVE NoRestart'
  <2>1. /\ targets' = targets /\ proc[i] # "off" /\ proc'[i] # "off"
        /\ \A k \in Ids : proc'[k] = "off" => proc[k] = "off"
    BY <1>t, <1>4, Zenon DEF Shutdown, Typed
  <2>2. ring' # Nil /\ (Keeps \/ \E s : Sets(i, s))
    BY <1>4, <1>c, <1>k, <1>n, <2>1, Zenon DEF Shutdown, States
  <2> QED
    BY <1>q, <2>1, <2>2, Zenon
<1>5. ASSUME NEW i \in Ids, NEW j \in Ids, j = target[i], Connect(i) \/ Refused(i) PROVE NoRestart'
  <2>1. /\ targets' = targets /\ proc[i] # "off" /\ (proc[j] = "loop" => proc'[j] # "off")
        /\ \A k \in Ids : proc'[k] = "off" => proc[k] = "off"
    BY <1>t, <1>5, Zenon DEF Connect, Refused, Typed
  <2>2. CASE proc[j] = "loop" /\ (changeState(j, JOINING) \/ changeStateFails(j, JOINING))
    BY <1>c, <1>q, <2>1, <2>2, Zenon DEF States
  <2>3. CASE ring' = ring
    BY <1>k, <1>n, <1>q, <2>1, <2>3, Zenon
  <2> QED
    BY <1>5, <2>2, <2>3, Zenon DEF Connect, Refused
<1>6. ASSUME NEW j \in Ids, Activate(j) PROVE NoRestart'
  <2>1. targets' = targets /\ proc' = proc /\ proc[j] # "off"
    BY <1>6, Zenon DEF Activate, Looping
  <2>2. ring' # Nil /\ (Keeps \/ \E s : Sets(j, s))
    BY <1>6, <1>c, <2>1, Zenon DEF Activate, States
  <2> QED
    BY <1>q, <2>1, <2>2, Zenon
<1>7. ASSUME NEW j \in Ids, ClaimTokensFor(j) PROVE NoRestart'
  <2>1. targets' = targets /\ proc' = proc /\ proc[j] # "off"
    BY <1>7, Zenon DEF ClaimTokensFor, Looping
  <2>2. (ring' = Nil \/ IsDesc(ring')) /\ Keeps
    BY <1>t, <1>7, ClaimedKeeps, Zenon DEF ClaimTokensFor
  <2>3. ring' # Nil
    BY <1>t, <1>7, <1>n, <2>1, ClaimKeeps, RingIsThere, Zenon DEF ClaimTokensFor, Typed
  <2> QED
    BY <1>q, <2>1, <2>2, <2>3, Zenon
<1>8. ASSUME NEW i \in Ids, unregister(i) \/ forget(i) PROVE NoRestart'
  <2>1. IsDesc(ring') /\ Keeps
    BY <1>t, <1>8, RemovedKeeps, NewIsDesc, Zenon DEF unregister, forget, Desc
  <2>2. targets' = targets /\ \A k \in Ids : proc'[k] = "off" => proc[k] = "off"
    BY <1>t, <1>8, Zenon DEF unregister, forget, Typed
  <2> QED
    BY <1>8, <1>q, <2>1, <2>2, RingIsThere, Zenon
<1>9. ASSUME NEW i \in Ids, NEW j \in Ids, j = target[i], SendEmptySeries(i) PROVE NoRestart'
  <2>1. /\ ring' = ring /\ Desc' = Desc /\ targets' = targets /\ ring # Nil
        /\ \A k \in Ids : k # j => proc'[k] = proc[k]
    BY <1>t, <1>9, <1>n, Zenon DEF SendEmptySeries, Die, Typed, Desc
  <2>2. Running(j) /\ state[j] = JOINING
    BY <1>t, <1>9, Zenon DEF SendEmptySeries, InTouch, Receives, ReceivesAt, Handling, Looping, Running
  <2>3. j \notin targets
    BY <1>t, <2>2, Zenon DEF Fresh, FreshAt, Young
  <2>4. j \in Members(Desc) => Desc.ingesters[j] \in Young
    <3>1. j \in Members(Desc) => Desc.ingesters[j] \in States /\ Rank[Desc.ingesters[j]] <= Rank[JOINING]
      BY <1>t, <2>2, DescIs, Zenon DEF IsDesc, Behind
    <3> QED
      BY <3>1, Ranks DEF States, Young
  <2> QED
    BY <1>n, <2>1, <2>3, <2>4, Zenon DEF NoRestart
<1>10. ASSUME NEW i \in Ids, Crash(i) \/ DieWithoutRing(i) PROVE NoRestart'
  BY <1>t, <1>10, <1>n DEF SafeRestarts, Crash, DieWithoutRing, Typed
<1>11. ASSUME Wipe PROVE NoRestart'
  BY <1>t, <1>11 DEF SafeRestarts, Wipe, Typed
<1>12. ASSUME Watch PROVE NoRestart'
  <2>1. /\ ring' = ring /\ Desc' = Desc /\ proc' = proc /\ ring # Nil
        /\ targets' = FindIngestersByState(Desc, ACTIVE)
    BY <1>12, Zenon DEF Watch, Desc
  <2>2. \A k \in targets' : k \in Members(Desc) /\ Desc.ingesters[k] \notin Young
    BY <2>1, Zenon DEF FindIngestersByState, Young, ACTIVE, PENDING, JOINING
  <2> QED
    BY <1>n, <2>1, <2>2, Zenon DEF NoRestart
<1>13. ASSUME NEW i \in Ids,
              \/ Terminate(i) \/ findTargetIngester(i) \/ SearchTimesOut(i) \/ CloseAndRecv(i)
              \/ TransferOk(i) \/ TransferFails(i) \/ Exit(i)
       PROVE  NoRestart'
  <2>1. ring' = ring /\ targets' = targets /\ proc[i] # "off"
    BY <1>13, Zenon
       DEF Terminate, findTargetIngester, SearchTimesOut, CloseAndRecv, TransferOk, TransferFails, Exit
  <2>2. \A k \in Ids : proc'[k] = "off" => proc[k] = "off"
    BY <1>t, <1>13, Zenon
       DEF Terminate, findTargetIngester, SearchTimesOut, CloseAndRecv, TransferOk, TransferFails, Exit, Typed
  <2> QED
    BY <1>k, <1>n, <1>q, <2>1, <2>2, Zenon
<1>14. ASSUME NEW i \in Ids,
              \/ SendSeries(i) \/ Install(i)
              \/ \E d \in Data : Push(i, d) \/ FlushSeries(i, d) \/ NextSeries(i, d)
       PROVE  NoRestart'
  <2>1. ring' = ring /\ targets' = targets /\ proc' = proc
    BY <1>14, Zenon DEF SendSeries, Install, Push, FlushSeries, NextSeries
  <2> QED
    BY <1>k, <1>q, <2>1, Zenon
<1>15. ASSUME UNCHANGED vars PROVE NoRestart'
  BY <1>15, Zenon DEF LifeInv, NoRestart, vars, Desc
<1>16. \A i \in Ids : Connect(i) \/ Refused(i) \/ SendEmptySeries(i) => target[i] \in Ids
  BY <1>t, Zenon DEF Typed, Connect, Refused, SendEmptySeries
<1> QED
  BY <1>1, <1>2, <1>3, <1>4, <1>5, <1>6, <1>7, <1>8, <1>9, <1>10, <1>11, <1>12, <1>13, <1>14, <1>15, <1>16, Zenon
     DEF Next, Leave, Handler

-----------------------------------------------------------------------------
(* The sender and the receiver of a hand-over.                             *)

(* A step of the handler at j that takes nothing from what k has sent.     *)
Follows(j, k) ==
  \/ rcv'[j].from # k
  \/ rcv'[j].pc \in {"none", "ok", "failed"}
  \/ /\ rcv'[j].from = rcv[j].from /\ staged[j] \subseteq staged'[j]
     /\ rcv'[j].pc = rcv[j].pc \/ {rcv[j].pc, rcv'[j].pc} \subseteq {"claim", "activate", "install"}

(* A sender whose receiver goes on is undisturbed.                         *)
LEMMA SendsFrame ==
  ASSUME Typed, NEW k \in Ids, SendsAt(k),
         proc'[k] = proc[k], handed'[k] = handed[k], sent'[k] = sent[k], target'[k] = target[k],
         mem'[k] \subseteq mem[k],
         \A j \in Ids : j = target[k] => Follows(j, k)
  PROVE  SendsAt(k)'
<1>1. CASE proc[k] \in {"send", "wait"}
  <2>1. target[k] \in Ids
    BY <1>1, Zenon DEF Typed
  <2>2. PICK j \in Ids : j = target[k] /\ j = target'[k] /\ Follows(j, k)
    BY <2>1, Zenon
  <2> QED
    BY <1>1, <2>2 DEF SendsAt, InTouch, Follows
<1>2. CASE proc[k] \notin {"send", "wait"}
  BY <1>2, Zenon DEF SendsAt
<1> QED
  BY <1>1, <1>2, ZenonT(30)

(* Before and after the transfer a sender relies on nobody.                *)
LEMMA SendsQuiet ==
  ASSUME NEW k \in Ids, proc'[k] \notin {"send", "wait"},
         handed'[k] => proc'[k] \in {"unregister", "exit", "gone"},
         proc'[k] \in {"off", "loop", "drain", "find", "connect"} => sent'[k] = {}
  PROVE  SendsAt(k)'
BY Zenon DEF SendsAt

(* Each step keeps Sends: what a sender has sent, its receiver holds.      *)
LEMMA SendsStep == ASSUME LifeInv, [Next]_vars PROVE Sends'
<1> USE DEF local, sender, receiver, data, bounds
<1>t. Typed /\ Receives
  BY DEF LifeInv, RingInv
<1>s. \A k \in Ids : SendsAt(k)
  BY Zenon DEF LifeInv, Sends
<1>q. \A k \in Ids : /\ proc[k] \in {"off", "loop", "drain", "find", "connect"} => sent[k] = {} /\ ~handed[k]
                     /\ proc[k] \in {"send", "wait"} => ~handed[k]
  BY <1>s, Zenon DEF SendsAt
(* Only i's own part changes, and it is not sending.                       *)
<1>o. ASSUME NEW i \in Ids, rcv' = rcv, staged' = staged, sent' = sent, target' = target,
             \A k \in Ids : k # i => proc'[k] = proc[k] /\ handed'[k] = handed[k] /\ mem'[k] \subseteq mem[k],
             proc'[i] \notin {"send", "wait"},
             handed'[i] => proc'[i] \in {"unregister", "exit", "gone"},
             proc'[i] \in {"off", "loop", "drain", "find", "connect"} => sent[i] = {}
      PROVE  Sends'
  <2> SUFFICES ASSUME NEW k \in Ids PROVE SendsAt(k)'
    BY Zenon DEF Sends
  <2>1. CASE k = i
    BY <1>o, <2>1, SendsQuiet, Zenon
  <2>2. CASE k # i
    BY <1>t, <1>s, <1>o, <2>2, SendsFrame, Zenon DEF Follows
  <2> QED
    BY <2>1, <2>2, Zenon
<1>1. ASSUME NEW i \in Ids,
             \/ initRing(i) \/ Terminate(i) \/ Shutdown(i) \/ SearchTimesOut(i) \/ Refused(i)
             \/ TransferOk(i) \/ unregister(i)
      PROVE  Sends'
  <2>1. /\ rcv' = rcv /\ staged' = staged /\ sent' = sent /\ target' = target /\ mem' = mem
        /\ \A k \in Ids : k # i => proc'[k] = proc[k] /\ handed'[k] = handed[k]
    BY <1>t, <1>1, Zenon DEF initRing, Terminate, Shutdown, SearchTimesOut, Refused, TransferOk, unregister, Typed
  <2>2. /\ proc'[i] \notin {"send", "wait"}
        /\ handed'[i] => proc'[i] \in {"unregister", "exit", "gone"}
        /\ proc'[i] \in {"off", "loop", "drain", "find", "connect"} => sent[i] = {}
    BY <1>t, <1>q, <1>1, Zenon
       DEF initRing, Terminate, Shutdown, SearchTimesOut, Refused, TransferOk, unregister, Typed
  <2> QED
    BY <1>o, <2>1, <2>2, Zenon
<1>2. ASSUME NEW i \in Ids, Exit(i) PROVE Sends'
  <2>1. /\ rcv' = rcv /\ staged' = staged /\ sent' = sent /\ target' = target /\ proc'[i] = "gone"
        /\ \A k \in Ids : k # i => proc'[k] = proc[k] /\ handed'[k] = handed[k] /\ mem'[k] = mem[k]
    BY <1>t, <1>2, Zenon DEF Exit, Typed
  <2> QED
    BY <1>o, <2>1, Zenon
<1>3. ASSUME NEW i \in Ids, NEW d \in Data, Push(i, d) PROVE Sends'
  <2>1. /\ rcv' = rcv /\ staged' = staged /\ sent' = sent /\ target' = target
        /\ proc' = proc /\ handed' = handed /\ proc[i] = "loop"
        /\ \A k \in Ids : k # i => mem'[k] = mem[k]
    BY <1>t, <1>3, Zenon DEF Push, Typed
  <2> QED
    BY <1>o, <1>q, <2>1, Zenon
<1>4. ASSUME NEW i \in Ids, findTargetIngester(i) PROVE Sends'
  <2>1. /\ rcv' = rcv /\ staged' = staged /\ sent' = sent /\ mem' = mem /\ handed' = handed
        /\ proc'[i] = "connect" /\ sent[i] = {} /\ ~handed[i]
        /\ \A k \in Ids : k # i => proc'[k] = proc[k] /\ target'[k] = target[k]
    BY <1>t, <1>q, <1>4, Zenon DEF findTargetIngester, Typed
  <2> SUFFICES ASSUME NEW k \in Ids PROVE SendsAt(k)'
    BY DEF Sends
  <2>2. CASE k = i
    BY <2>1, <2>2, SendsQuiet, Zenon
  <2>3. CASE k # i
    BY <1>t, <1>s, <2>1, <2>3, SendsFrame, Zenon DEF Follows
  <2> QED
    BY <2>2, <2>3
(* Neither the senders' part nor what was staged changes.                  *)
<1>f. ASSUME sent' = sent, target' = target, proc' = proc, handed' = handed,
             \A k \in Ids : mem'[k] \subseteq mem[k],
             \A j, k \in Ids : Follows(j, k)
      PROVE  Sends'
  BY <1>t, <1>s, <1>f, SendsFrame, Zenon DEF Sends
<1>5. ASSUME NEW i \in Ids, autoJoin(i) \/ Heartbeat(i) \/ forget(i) \/ \E d \in Data : FlushSeries(i, d) \/ NextSeries(i, d)
      PROVE  Sends'
  <2>1. /\ sent' = sent /\ target' = target /\ proc' = proc /\ handed' = handed /\ rcv' = rcv
        /\ staged' = staged
    BY <1>5, Zenon DEF autoJoin, Heartbeat, forget, FlushSeries, NextSeries
  <2>2. \A k \in Ids : mem'[k] \subseteq mem[k]
    <3>1. CASE \E d \in Data : FlushSeries(i, d)
      BY <1>t, <3>1 DEF FlushSeries, Typed
    <3>2. CASE mem' = mem
      BY <3>2, Zenon
    <3> QED
      BY <1>5, <3>1, <3>2, Zenon DEF autoJoin, Heartbeat, forget, NextSeries
  <2> QED
    BY <1>f, <2>1, <2>2, Zenon DEF Follows
<1>6. ASSUME Watch \/ Wipe \/ UNCHANGED vars PROVE Sends'
  <2>1. /\ sent' = sent /\ target' = target /\ proc' = proc /\ handed' = handed /\ rcv' = rcv
        /\ staged' = staged /\ mem' = mem
    BY <1>6, Zenon DEF Watch, Wipe, vars
  <2> QED
    BY <1>f, <2>1, Zenon DEF Follows
<1>7. ASSUME NEW j \in Ids, ClaimTokensFor(j) \/ Activate(j) PROVE Sends'
  <2>1. sent' = sent /\ target' = target /\ proc' = proc /\ handed' = handed /\ staged' = staged /\ mem' = mem
    BY <1>7, Zenon DEF ClaimTokensFor, Activate
  <2>2. \A k \in Ids : /\ rcv'[k].from = rcv[k].from
                       /\ \/ rcv'[k].pc = rcv[k].pc \/ rcv'[k].pc = "failed"
                          \/ {rcv[k].pc, rcv'[k].pc} \subseteq {"claim", "activate", "install"}
    <3>1. CASE ClaimTokensFor(j)
      BY <1>t, <3>1, SMTT(20) DEF ClaimTokensFor, Typed, Handlers
    <3>2. CASE Activate(j)
      BY <1>t, <3>2, SMTT(20) DEF Activate, Typed, Handlers
    <3> QED
      BY <1>7, <3>1, <3>2
  <2> QED
    BY <1>f, <2>1, <2>2, Zenon DEF Follows
<1>8. ASSUME NEW j \in Ids, Install(j) PROVE Sends'
  <2>1. /\ sent' = sent /\ target' = target /\ proc' = proc /\ handed' = handed /\ rcv'[j].pc = "ok"
        /\ \A k \in Ids : k # j => mem'[k] = mem[k] /\ staged'[k] = staged[k] /\ rcv'[k] = rcv[k]
    BY <1>t, <1>8, Zenon DEF Install, Typed, Handlers
  <2>2. proc[j] \in {"loop", "drain"}
    BY <1>t, <1>8, Zenon DEF Install, Receives, ReceivesAt, Handling, Looping
  <2> SUFFICES ASSUME NEW k \in Ids PROVE SendsAt(k)'
    BY DEF Sends
  <2>3. CASE k = j
    BY <1>q, <2>1, <2>2, <2>3, SendsQuiet, Zenon
  <2>4. CASE k # j
    BY <1>t, <1>s, <2>1, <2>4, SendsFrame, Zenon DEF Follows
  <2> QED
    BY <2>3, <2>4
<1>9. ASSUME NEW i \in Ids, NEW j \in Ids, j = target[i], Connect(i) PROVE Sends'
  <2>1. /\ sent' = sent /\ target' = target /\ handed' = handed /\ mem' = mem /\ proc'[i] = "send"
        /\ rcv'[j].from = i /\ sent[i] = {} /\ ~handed[i]
        /\ \A k \in Ids : k # i => proc'[k] = proc[k]
        /\ \A k \in Ids : k # j => rcv'[k] = rcv[k] /\ staged'[k] = staged[k]
    BY <1>t, <1>q, <1>9, Zenon DEF Connect, Typed
  <2> SUFFICES ASSUME NEW k \in Ids PROVE SendsAt(k)'
    BY Zenon DEF Sends
  <2>2. CASE k = i
    BY <2>1, <2>2, Zenon DEF SendsAt
  <2>3. CASE k # i
    BY <1>t, <1>s, <2>1, <2>3, SendsFrame, Zenon DEF Follows
  <2> QED
    BY <2>2, <2>3, Zenon
<1>10. ASSUME NEW i \in Ids, NEW j \in Ids, j = target[i], SendSeries(i) PROVE Sends'
  <2>1. /\ target' = target /\ handed' = handed /\ mem' = mem /\ proc' = proc /\ proc[i] = "send"
        /\ rcv[j].from = i /\ rcv[j].pc = "recv" /\ rcv'[j].from = i
        /\ sent'[i] = sent[i] \cup {next[i]} /\ staged'[j] = staged[j] \cup {next[i]}
    BY <1>t, <1>10, Zenon DEF SendSeries, InTouch, Typed, Handlers
  <2>2. /\ \A k \in Ids : k # i => sent'[k] = sent[k]
        /\ \A k \in Ids : k # j => rcv'[k] = rcv[k] /\ staged'[k] = staged[k]
    BY <1>t, <1>10, Zenon DEF SendSeries, Typed
  <2> SUFFICES ASSUME NEW k \in Ids PROVE SendsAt(k)'
    BY DEF Sends
  <2>3. CASE k = i
    <3>1. sent[i] \subseteq staged[j] /\ ~handed[i]
      BY <1>s, <1>q, <1>10, <2>1, Zenon DEF SendsAt, InTouch
    <3>2. sent'[i] \subseteq staged'[j]
      BY <2>1, <3>1, Zenon
    <3> QED
      BY <1>10, <2>1, <2>3, <3>1, <3>2, Zenon DEF SendsAt
  <2>4. CASE k # i
    BY <1>t, <1>s, <2>1, <2>2, <2>4, SendsFrame, Zenon DEF Follows
  <2> QED
    BY <2>3, <2>4
<1>11. ASSUME NEW i \in Ids, NEW j \in Ids, j = target[i], CloseAndRecv(i) PROVE Sends'
  <2>1. /\ target' = target /\ handed' = handed /\ mem' = mem /\ sent' = sent /\ staged' = staged
        /\ proc[i] = "send" /\ proc'[i] = "wait" /\ InTouch(i) /\ mem[i] \subseteq sent[i]
        /\ rcv[j].from = i /\ rcv'[j].from = i
    BY <1>t, <1>11, Zenon DEF CloseAndRecv, InTouch, Typed, Handlers
  <2>2. \A k \in Ids : (k # i => proc'[k] = proc[k]) /\ (k # j => rcv'[k] = rcv[k])
    BY <1>t, <1>11, Zenon DEF CloseAndRecv, Typed
  <2> SUFFICES ASSUME NEW k \in Ids PROVE SendsAt(k)'
    BY DEF Sends
  <2>3. CASE k = i
    <3>1. sent[i] \subseteq staged[j] /\ ~handed[i]
      BY <1>s, <1>q, <1>11, <2>1, Zenon DEF SendsAt
    <3>2. mem[i] \subseteq staged[j]
      BY <2>1, <3>1, Zenon
    <3> QED
      BY <1>11, <2>1, <2>3, <3>1, <3>2, Zenon DEF SendsAt
  <2>4. CASE k # i
    BY <1>t, <1>s, <2>1, <2>2, <2>4, SendsFrame, Zenon DEF Follows
  <2> QED
    BY <2>3, <2>4
<1>12. ASSUME NEW i \in Ids, NEW j \in Ids, j = target[i], TransferFails(i) PROVE Sends'
  <2>1. /\ target' = target /\ handed' = handed /\ mem' = mem /\ sent' = sent /\ staged' = staged
        /\ proc'[i] = "unregister"
        /\ \A k \in Ids : (k # i => proc'[k] = proc[k]) /\ (rcv'[k] = rcv[k] \/ rcv'[k].pc = "failed")
    BY <1>t, <1>12, Zenon DEF TransferFails, Typed, Handlers
  <2> SUFFICES ASSUME NEW k \in Ids PROVE SendsAt(k)'
    BY DEF Sends
  <2>2. CASE k = i
    BY <2>1, <2>2, SendsQuiet, Zenon
  <2>3. CASE k # i
    BY <1>t, <1>s, <2>1, <2>3, SendsFrame, Zenon DEF Follows
  <2> QED
    BY <2>2, <2>3
<1>13. ASSUME NEW i \in Ids, Crash(i) \/ SendEmptySeries(i) \/ DieWithoutRing(i) PROVE Sends'
  <2>1. PICK j \in Ids : /\ Die(j) /\ rcv'[j].pc \in {"none", "ok", "failed"} /\ sent'[j] = {}
                         /\ \A k \in Ids : k # j => sent'[k] = sent[k]
    <3>1. CASE Crash(i)
      BY <1>t, <3>1, Zenon DEF Crash, NoHandler, Typed
    <3>2. CASE SendEmptySeries(i)
      <4>1. proc[target[i]] \in {"loop", "drain"} /\ target[i] \in Ids
        BY <1>t, <3>2, Zenon DEF SendEmptySeries, InTouch, Receives, ReceivesAt, Handling, Looping, Typed
      <4>2. sent[target[i]] = {}
        BY <1>q, <4>1, Zenon
      <4> QED
        BY <1>t, <3>2, <4>1, <4>2, Zenon DEF SendEmptySeries, NoHandler, Typed
    <3>3. CASE DieWithoutRing(i)
      <4>1. ~Handling(i)
        BY <1>t, <3>3, Zenon DEF DieWithoutRing, Receives, ReceivesAt, Looping
      <4> QED
        BY <1>t, <3>3, <4>1, Zenon DEF DieWithoutRing, Handling, Typed, Handlers
    <3> QED
      BY <1>13, <3>1, <3>2, <3>3, Zenon
  <2>2. /\ proc'[j] = "off" /\ ~handed'[j]
        /\ \A k \in Ids : k # j => /\ proc'[k] = proc[k] /\ handed'[k] = handed[k] /\ target'[k] = target[k]
                                   /\ mem'[k] = mem[k] /\ staged'[k] = staged[k]
    BY <1>t, <2>1, Zenon DEF Die, Typed
  <2>3. \A k \in Ids : k # j => rcv'[k] = rcv[k] \/ rcv'[k].pc \in {"none", "failed"}
    BY <1>t, <1>13 DEF Crash, SendEmptySeries, DieWithoutRing, Typed, Handlers, NoHandler
  <2> SUFFICES ASSUME NEW k \in Ids PROVE SendsAt(k)'
    BY DEF Sends
  <2>4. CASE k = j
    BY <2>1, <2>2, <2>4, SendsQuiet, Zenon
  <2>5. CASE k # j
    BY <1>t, <1>s, <2>1, <2>2, <2>3, <2>5, SendsFrame, Zenon DEF Follows
  <2> QED
    BY <2>4, <2>5, Zenon
<1>14. \A i \in Ids : Connect(i) \/ SendSeries(i) \/ CloseAndRecv(i) \/ TransferFails(i) => target[i] \in Ids
  BY <1>t, Zenon DEF Typed, Connect, SendSeries, CloseAndRecv, TransferFails
<1> QED
  BY <1>1, <1>2, <1>3, <1>4, <1>5, <1>6, <1>7, <1>8, <1>9, <1>10, <1>11, <1>12, <1>13, <1>14, Zenon
     DEF Next, Leave, Handler

-----------------------------------------------------------------------------
(* The acknowledged samples.                                               *)

(* When nobody new is done.                                                *)
NoneDone ==
  /\ \A k \in Ids : handed'[k] => Done(k)
  /\ \A j, k \in Ids : proc'[k] = "wait" /\ target'[k] = j /\ rcv'[j].from = k /\ rcv'[j].pc = "ok" =>
       proc[k] = "wait" /\ target[k] = j /\ rcv[j].from = k /\ rcv[j].pc = "ok"

(* A step in which nobody finishes a handover adds nobody to the done.     *)
LEMMA DoneBefore ==
  ASSUME Typed', NoneDone
  PROVE  \A k \in Ids : Done(k)' => Done(k)
<1> SUFFICES ASSUME NEW k \in Ids, Done(k)' PROVE Done(k)
  BY Zenon
<1>1. CASE handed'[k]
  BY <1>1, Zenon DEF NoneDone
<1>2. CASE proc'[k] = "wait" /\ rcv'[target'[k]].from = k /\ rcv'[target'[k]].pc = "ok"
  <2>1. PICK j \in Ids : j = target'[k]
    BY <1>2, Zenon DEF Typed
  <2> QED
    BY <1>2, <2>1 DEF NoneDone, Done
<1> QED
  BY <1>1, <1>2, Zenon DEF Done

(* A step that moves data to a safe place, or none, keeps Kept.            *)
LEMMA KeptFrame ==
  ASSUME Kept, Typed', NoneDone, acked' = acked, store \subseteq store', lost \subseteq lost',
         \A k \in Ids : \A d \in mem[k] : d \in mem'[k] \/ d \in store' \/ d \in lost' \/ Done(k)
  PROVE  Kept'
<1> SUFFICES ASSUME NEW d \in acked PROVE Safe(d)'
  BY Zenon DEF Kept
<1>1. Safe(d)
  BY Zenon DEF Kept
<1>2. \A k \in Ids : Holds(k, d) => Holds(k, d)' \/ d \in store' \/ d \in lost'
  BY DoneBefore, Zenon DEF Holds
<1> QED
  BY <1>1, <1>2, Zenon DEF Safe

(* Each step keeps Kept: an acknowledged sample is somewhere safe.         *)
LEMMA KeptStep == ASSUME LifeInv, [Next]_vars PROVE Kept'
<1> USE DEF local, sender, receiver, data, bounds
<1>t. Typed /\ Receives /\ Kept /\ Typed'
  BY RingStep, Zenon DEF LifeInv, RingInv
<1>s. \A k \in Ids : SendsAt(k)
  BY DEF LifeInv, Sends
<1>h. \A k \in Ids : handed[k] => Done(k)
  BY Zenon DEF Done
(* No data move, the hand-overs go on or begin.                            *)
<1>q. ASSUME mem' = mem, store' = store, acked' = acked, lost' = lost, NoneDone PROVE Kept'
  BY <1>t, <1>q, KeptFrame, Zenon
<1>1. ASSUME NEW i \in Ids,
             \/ initRing(i) \/ autoJoin(i) \/ Heartbeat(i) \/ Terminate(i) \/ SearchTimesOut(i)
             \/ Shutdown(i) \/ Refused(i) \/ unregister(i) \/ forget(i)
      PROVE  Kept'
  <2>1. /\ mem' = mem /\ store' = store /\ acked' = acked /\ lost' = lost
        /\ handed' = handed /\ rcv' = rcv /\ target' = target
    BY <1>1, Zenon DEF initRing, autoJoin, Heartbeat, Terminate, SearchTimesOut, Shutdown, Refused, unregister, forget
  <2>2. \A k \in Ids : proc'[k] = "wait" => proc[k] = "wait"
    BY <1>t, <1>1, Zenon
       DEF initRing, autoJoin, Heartbeat, Terminate, SearchTimesOut, Shutdown, Refused, unregister, forget, Typed
  <2> QED
    BY <1>h, <1>q, <2>1, <2>2, Zenon DEF NoneDone
<1>2. ASSUME NEW i \in Ids, findTargetIngester(i) PROVE Kept'
  <2>1. /\ mem' = mem /\ store' = store /\ acked' = acked /\ lost' = lost
        /\ handed' = handed /\ rcv' = rcv /\ proc'[i] = "connect"
        /\ \A k \in Ids : k # i => proc'[k] = proc[k] /\ target'[k] = target[k]
    BY <1>t, <1>2, Zenon DEF findTargetIngester, Typed
  <2> QED
    BY <1>h, <1>q, <2>1, Zenon DEF NoneDone
<1>3. ASSUME NEW i \in Ids, NEW j \in Ids, j = target[i], Connect(i) \/ CloseAndRecv(i) PROVE Kept'
  <2>1. /\ mem' = mem /\ store' = store /\ acked' = acked /\ lost' = lost
        /\ handed' = handed /\ target' = target
    BY <1>3, Zenon DEF Connect, CloseAndRecv
  <2>2. rcv'[j].pc # "ok" /\ \A k \in Ids : (k # j => rcv'[k] = rcv[k]) /\ (k # i => proc'[k] = proc[k])
    BY <1>t, <1>3 DEF Connect, CloseAndRecv, Typed, Handlers
  <2> QED
    BY <1>3, <1>h, <1>q, <2>1, <2>2, Zenon DEF NoneDone
<1>4. ASSUME NEW i \in Ids, SendSeries(i) \/ TransferFails(i) PROVE Kept'
  <2>1. /\ mem' = mem /\ store' = store /\ acked' = acked /\ lost' = lost
        /\ handed' = handed /\ target' = target
    BY <1>4, Zenon DEF SendSeries, TransferFails
  <2>2. /\ \A k \in Ids : proc'[k] = "wait" => proc[k] = "wait"
        /\ \A k \in Ids : rcv'[k].pc = "ok" => rcv[k].pc = "ok" /\ rcv'[k].from = rcv[k].from
    BY <1>t, <1>4 DEF SendSeries, TransferFails, Typed, Handlers
  <2> QED
    BY <1>h, <1>q, <2>1, <2>2, Zenon DEF NoneDone
<1>5. ASSUME NEW j \in Ids, ClaimTokensFor(j) \/ Activate(j) PROVE Kept'
  <2>1. /\ mem' = mem /\ store' = store /\ acked' = acked /\ lost' = lost
        /\ handed' = handed /\ target' = target /\ proc' = proc
    BY <1>5, Zenon DEF ClaimTokensFor, Activate
  <2>2. \A k \in Ids : rcv'[k].pc = "ok" => rcv'[k] = rcv[k]
    BY <1>t, <1>5 DEF ClaimTokensFor, Activate, Typed, Handlers
  <2> QED
    BY <1>h, <1>q, <2>1, <2>2, Zenon DEF NoneDone
<1>6. ASSUME NEW i \in Ids, TransferOk(i) PROVE Kept'
  <2>1. /\ mem' = mem /\ store' = store /\ acked' = acked /\ lost' = lost
        /\ rcv' = rcv /\ target' = target /\ Done(i)
        /\ \A k \in Ids : (k # i => handed'[k] = handed[k]) /\ (proc'[k] = "wait" => proc[k] = "wait")
    BY <1>t, <1>6, Zenon DEF TransferOk, Typed, Done
  <2> QED
    BY <1>h, <1>q, <2>1, Zenon DEF NoneDone
<1>7. ASSUME NEW i \in Ids, NEW d \in Data, Push(i, d) PROVE Kept'
  <2>1. /\ store' = store /\ acked' = acked \cup {d} /\ lost' = lost /\ proc[i] = "loop"
        /\ handed' = handed /\ target' = target /\ proc' = proc /\ rcv' = rcv
        /\ d \in mem'[i] /\ \A k \in Ids : mem[k] \subseteq mem'[k]
    BY <1>t, <1>7, Zenon DEF Push, Typed
  <2>2. \A k \in Ids : Done(k)' => Done(k)
    BY <2>1, Zenon DEF Done
  <2>3. ~Done(i)'
    BY <1>s, <2>1, <2>2, Zenon DEF SendsAt, Done
  <2>4. Safe(d)'
    BY <2>1, <2>3, Zenon DEF Safe, Holds
  <2>5. ASSUME NEW e \in acked PROVE Safe(e)'
    BY <1>t, <2>1, <2>2, Zenon DEF Kept, Safe, Holds
  <2> QED
    BY <2>1, <2>4, <2>5, Zenon DEF Kept
<1>8. ASSUME NEW i \in Ids, NEW d \in Data, FlushSeries(i, d) PROVE Kept'
  <2>1. /\ store \subseteq store' /\ acked' = acked /\ lost' = lost
        /\ handed' = handed /\ target' = target /\ proc' = proc /\ rcv' = rcv
        /\ \A k \in Ids : \A e \in mem[k] : e \in mem'[k] \/ e \in store'
    BY <1>t, <1>8, Zenon DEF FlushSeries, Typed
  <2>2. NoneDone
    BY <1>h, <2>1, Zenon DEF NoneDone
  <2> QED
    BY <1>t, <2>1, <2>2, KeptFrame, Zenon
<1>9. ASSUME NEW i \in Ids, NEW d \in Data, NextSeries(i, d) PROVE Kept'
  BY <1>9, <1>h, <1>q, Zenon DEF NextSeries, NoneDone
<1>10. ASSUME NEW j \in Ids, Install(j) PROVE Kept'
  <2>1. /\ store' = store /\ acked' = acked /\ lost' = lost
        /\ handed' = handed /\ target' = target /\ proc' = proc /\ mem'[j] = staged[j]
        /\ rcv'[j].from = rcv[j].from
        /\ \A k \in Ids : k # j => rcv'[k] = rcv[k] /\ mem'[k] = mem[k]
    BY <1>t, <1>10 DEF Install, Typed, Handlers
  <2>2. mem[j] = {} /\ proc[j] \in {"loop", "drain"} /\ ~handed[j]
    BY <1>t, <1>s, <1>10, Zenon DEF Install, LifeInv, Fresh, FreshAt, Receives, ReceivesAt, Handling, Looping, SendsAt
  <2>3. ~Done(j)'
    BY <2>1, <2>2, Zenon DEF Done
  <2>4. ASSUME NEW k \in Ids, Done(k)', ~Done(k) PROVE mem[k] \subseteq mem'[j]
    <3>1. proc[k] = "wait" /\ target[k] \in Ids /\ rcv'[target[k]].from = k /\ rcv'[target[k]].pc = "ok"
      BY <1>t, <2>1, <2>4, Zenon DEF Done, Typed
    <3>2. target[k] = j /\ rcv[j].from = k
      BY <2>1, <2>4, <3>1, Zenon DEF Done
    <3> QED
      BY <1>s, <1>10, <2>1, <3>1, <3>2 DEF SendsAt, Install
  <2>5. ASSUME NEW d \in acked, NEW k \in Ids, Holds(k, d) PROVE Safe(d)'
    <3>1. d \in mem[k] /\ ~Done(k) /\ k # j
      BY <2>2, <2>5, Zenon DEF Holds
    <3>2. CASE Done(k)'
      <4>1. d \in mem'[j]
        BY <2>4, <3>1, <3>2, Zenon
      <4> QED
        BY <2>3, <4>1, Zenon DEF Safe, Holds
    <3>3. CASE ~Done(k)'
      BY <2>1, <3>1, <3>3, Zenon DEF Safe, Holds
    <3> QED
      BY <3>2, <3>3, Zenon
  <2>6. ASSUME NEW d \in acked PROVE Safe(d)'
    <3>1. Safe(d)
      BY <1>t, Zenon DEF Kept
    <3> QED
      BY <2>1, <2>5, <3>1, Zenon DEF Safe
  <2> QED
    BY <2>1, <2>6, Zenon DEF Kept
<1>11. ASSUME NEW i \in Ids, Exit(i) PROVE Kept'
  <2>1. /\ store' = store /\ acked' = acked /\ lost' = lost
        /\ handed' = handed /\ target' = target /\ rcv' = rcv
        /\ handed[i] \/ mem[i] = {}
        /\ \A k \in Ids : k # i => mem'[k] = mem[k]
        /\ \A k \in Ids : proc'[k] = "wait" => proc[k] = "wait"
    BY <1>t, <1>11, Zenon DEF Exit, Typed
  <2>2. NoneDone
    BY <1>h, <2>1, Zenon DEF NoneDone
  <2>3. \A k \in Ids : \A e \in mem[k] : e \in mem'[k] \/ Done(k)
    BY <1>h, <2>1, Zenon
  <2> QED
    BY <1>t, <2>1, <2>2, <2>3, KeptFrame, Zenon
<1>12. ASSUME NEW i \in Ids, Crash(i) \/ SendEmptySeries(i) \/ DieWithoutRing(i) PROVE Kept'
  <2>1. PICK j \in Ids : Die(j)
    BY <1>t, <1>12, Zenon DEF Crash, SendEmptySeries, DieWithoutRing, Typed
  <2>2. /\ lost' = lost \cup mem[j] /\ proc'[j] = "off" /\ ~handed'[j]
        /\ \A k \in Ids : k # j => /\ proc'[k] = proc[k] /\ handed'[k] = handed[k] /\ target'[k] = target[k]
                                   /\ mem'[k] = mem[k]
    BY <1>t, <2>1 DEF Die, Typed
  <2>3. store' = store /\ acked' = acked
    BY <1>12, Zenon DEF Crash, SendEmptySeries, DieWithoutRing
  <2>4. \A k \in Ids : rcv'[k].pc = "ok" => rcv'[k] = rcv[k]
    BY <1>t, <1>12 DEF Crash, SendEmptySeries, DieWithoutRing, Typed, Handlers, NoHandler
  <2>5. NoneDone
    BY <1>h, <2>2, <2>4, Zenon DEF NoneDone
  <2>6. \A k \in Ids : \A e \in mem[k] : e \in mem'[k] \/ e \in lost'
    BY <2>2, Zenon
  <2> QED
    BY <1>t, <2>2, <2>3, <2>5, <2>6, KeptFrame, Zenon
<1>13. ASSUME Watch \/ Wipe \/ UNCHANGED vars PROVE Kept'
  BY <1>13, <1>h, <1>q, Zenon DEF Watch, Wipe, vars, NoneDone
<1>14. \A i \in Ids : Connect(i) \/ CloseAndRecv(i) => target[i] \in Ids
  BY <1>t, Zenon DEF Typed, Connect, CloseAndRecv
<1> QED
  BY <1>1, <1>2, <1>3, <1>4, <1>5, <1>6, <1>7, <1>8, <1>9, <1>10, <1>11, <1>12, <1>13, <1>14, Zenon
     DEF Next, Leave, Handler

-----------------------------------------------------------------------------
(* At the start nothing is acknowledged.                                   *)
LEMMA InitLife == Init => LifeInv
<1> SUFFICES ASSUME Init PROVE LifeInv
  BY Zenon
<1>1. RingInv
  BY InitRing, Zenon
<1>2. Fresh /\ Receives /\ Sends /\ Kept
  BY Zenon DEF Init, Fresh, FreshAt, Receives, ReceivesAt, Sends, SendsAt, Kept, Running, Handling, NoHandler
<1>3. NoRestart
  BY NewIsDesc, Zenon DEF Init, NoRestart, Desc
<1> QED
  BY <1>1, <1>2, <1>3, Zenon DEF LifeInv

(* The inductive invariant: every step of an ingester, of a handler, of    *)
(* Consul and of the distributors keeps it.                                *)
THEOREM LifeInvariant == ASSUME SafeRestarts PROVE Spec => []LifeInv
<1>1. LifeInv /\ [Next]_vars => LifeInv'
  <2> SUFFICES ASSUME LifeInv, [Next]_vars PROVE LifeInv'
    BY Zenon
  <2>1. RingInv'
    BY RingStep, Zenon DEF LifeInv
  <2> QED
    BY <2>1, FreshStep, ReceivesStep, SendsStep, KeptStep, NoRestartStep, Zenon DEF LifeInv
<1> QED
  BY <1>1, InitLife, PTL DEF Spec

(* NoAckedLoss: what an ingester acknowledged is in the chunk store, in    *)
(* the memory of an ingester, or was in the memory of one that crashed,    *)
(* whatever becomes of shutdowns, searches, hand-overs and flushes.        *)
THEOREM AckedIsSafe == ASSUME SafeRestarts PROVE Spec => []NoAckedLoss
<1>1. LifeInv => NoAckedLoss
  BY Zenon DEF LifeInv, Kept, Safe, Holds, NoAckedLoss
<1> QED
  BY <1>1, LifeInvariant, PTL
====
