----------------------------- MODULE RingLookup -----------------------------
(***************************************************************************)
(* The lookups on the ring (src/ring/ring.go), and a ring as the ingesters *)
(* change it, each change one successful CAS of                            *)
(* src/ingester/ingester_lifecycle.go, and what every lookup on every such *)
(* ring returns. How the changes of several ingesters interleave is the    *)
(* subject of IngesterLifecycle.                                           *)
(***************************************************************************)
EXTENDS RingDesc, SequencesExt

CONSTANTS
  NumTokens,   \* cfg.NumTokens
  MaxReplicas  \* lookups ask for 1..MaxReplicas ingesters

VARIABLE ringDesc

(* Mutant: a key that is itself a token belongs to that token.             *)
searchMutant(tokens, key) ==
  LET above == {k \in DOMAIN tokens : tokens[k].token >= key}
  IN IF above = {} THEN 1 ELSE CHOOSE k \in above : \A j \in above : k <= j

(* search: the first token above the key, or the first of all.             *)
search(tokens, key) ==
  LET above == {k \in DOMAIN tokens : tokens[k].token > key}
  IN IF above = {} THEN 1 ELSE CHOOSE k \in above : \A j \in above : k <= j

Accepts(op) == IF op = "Write" THEN {ACTIVE} ELSE {ACTIVE, LEAVING}

(* Mutant: a skipped ingester does not extend the set of replicas.         *)
visitMutant(d, op, acc, token) ==
  LET id == token.ingester
  IN IF Cardinality(acc.hosts) >= acc.n \/ id \in acc.hosts THEN acc
     ELSE IF d.ingesters[id] \in Accepts(op)
          THEN [acc EXCEPT !.hosts = @ \cup {id}, !.ingesters = Append(@, id)]
          ELSE [acc EXCEPT !.hosts = @ \cup {id}]

(* The body of getInternal's loop: one token. hosts is distinctHosts; n    *)
(* grows with every ingester that is skipped.                              *)
visit(d, op, acc, token) ==
  LET id == token.ingester
  IN IF Cardinality(acc.hosts) >= acc.n \/ id \in acc.hosts THEN acc
     ELSE IF d.ingesters[id] \in Accepts(op)
          THEN [acc EXCEPT !.hosts = @ \cup {id}, !.ingesters = Append(@, id)]
          ELSE [acc EXCEPT !.hosts = @ \cup {id}, !.n = @ + 1]

(* The tokens from the one search finds, once around the ring.             *)
From(tokens, key) ==
  LET start == search(tokens, key)
  IN SubSeq(tokens, start, Len(tokens)) \o SubSeq(tokens, 1, start - 1)

(* getInternal of a ring that is not empty.                                *)
getInternal(d, key, n, op) ==
  FoldLeft(LAMBDA acc, token : visit(d, op, acc, token),
           [n |-> n, hosts |-> {}, ingesters |-> << >>],
           From(d.tokens, key)).ingesters

Get(d, key, n, op) == ToSet(getInternal(d, key, n, op))

-----------------------------------------------------------------------------

Init == ringDesc = NewDesc

(* initRing of a new ingester. *)
initRing(id) ==
  /\ id \notin Members(ringDesc)
  /\ ringDesc' = AddIngester(ringDesc, id, << >>, PENDING)

(* autoJoin: tokens that nobody has, and ACTIVE. *)
autoJoin(id) ==
  /\ id \in FindIngestersByState(ringDesc, PENDING)
  /\ \E T \in GenerateTokens(NumTokens, TokensFor(ringDesc, id).taken) :
       ringDesc' = AddIngester(ringDesc, id, T, ACTIVE)

(* changeState and the updateConsul that follows it. *)
changeState(id, from, to) ==
  /\ id \in FindIngestersByState(ringDesc, from)
  /\ ringDesc' = WithState(ringDesc, id, to)

(* Mutant: the tokens are claimed from an ingester that still takes writes. *)
ClaimTokensForMutant(from, to) ==
  /\ from \in FindIngestersByState(ringDesc, ACTIVE)
  /\ to \in FindIngestersByState(ringDesc, JOINING)
  /\ ringDesc' = ClaimTokens(ringDesc, from, to)

(* ClaimTokensFor, when an ingester hands over to another one. *)
ClaimTokensFor(from, to) ==
  /\ from \in FindIngestersByState(ringDesc, LEAVING)
  /\ to \in FindIngestersByState(ringDesc, JOINING)
  /\ ringDesc' = ClaimTokens(ringDesc, from, to)

unregister(id) ==
  /\ id \in FindIngestersByState(ringDesc, LEAVING)
  /\ ringDesc' = RemoveIngester(ringDesc, id)

Update(id) ==
  \/ initRing(id)
  \/ autoJoin(id)
  \/ changeState(id, PENDING, JOINING)
  \/ changeState(id, JOINING, ACTIVE)
  \/ changeState(id, ACTIVE, LEAVING)
  \/ unregister(id)

Next ==
  \/ \E id \in Ids : Update(id)
  \/ \E from, to \in Ids : ClaimTokensFor(from, to)

Spec == Init /\ [][Next]_ringDesc

-----------------------------------------------------------------------------
(* How far clockwise from the key the first token of id is.                *)
Distance(d, key, id) ==
  CHOOSE k \in 0..MaxToken :
    /\ (key + 1 + k) % (MaxToken + 1) \in ToSet(TokensOf(d, id))
    /\ \A j \in 0..(k - 1) : (key + 1 + j) % (MaxToken + 1) \notin ToSet(TokensOf(d, id))

(* The reference: of the ingesters in the given states, the n nearest.     *)
Nearest(d, key, n, S) ==
  LET owners == {id \in Members(d) : TokensOf(d, id) # << >> /\ d.ingesters[id] \in S}
      nearer(id) == {o \in owners : Distance(d, key, o) < Distance(d, key, id)}
  IN {id \in owners : Cardinality(nearer(id)) < n}

(* getInternal returns the n nearest ingesters it may use, without         *)
(* repeating one, however tokens are spread and whichever are skipped, and *)
(* all of them when there are fewer than n. In particular every key of a   *)
(* batch gets equally many replicas, which DistributorPush builds on.      *)
LookupIsNearest ==
  ringDesc.tokens # << >> =>
    \A key \in TokenSpace, n \in 1..MaxReplicas, op \in {"Read", "Write"} :
      LET replicas == getInternal(ringDesc, key, n, op)
      IN /\ IsInjective(replicas)
         /\ ToSet(replicas) = Nearest(ringDesc, key, n, Accepts(op))

Writers(d, key, n) == IF d.tokens = << >> THEN {} ELSE Get(d, key, n, "Write")

(* One change of one ingester moves a key by at most one replica, and only *)
(* to or from that ingester. A hand-over of tokens, between two ingesters  *)
(* nobody writes to, moves no key.                                         *)
MovesOneReplica ==
  [][\A key \in TokenSpace, n \in 1..MaxReplicas :
       LET old == Writers(ringDesc, key, n)
           new == Writers(ringDesc', key, n)
       IN /\ Cardinality(old \ new) <= 1 /\ Cardinality(new \ old) <= 1
          /\ old = new \/ \E id \in Ids : /\ old \ new = {id} \/ new \ old = {id}
                                          /\ Update(id)]_ringDesc

-----------------------------------------------------------------------------
Quorums(S) == {Q \in SUBSET S : 2 * Cardinality(Q) > Cardinality(S)}

(* "So we increase the size of the set of replicas for the key.  This      *)
(* means we have to also increase the size of the replica set for read"    *)
(* (ring.go:173-175): while one ingester is leaving and enough others are  *)
(* active, a read quorum meets every write quorum of its key.              *)
ReadsMeetWrites ==
  /\ Cardinality(FindIngestersByState(ringDesc, ACTIVE)) >= MaxReplicas
  /\ Cardinality(FindIngestersByState(ringDesc, LEAVING)) <= 1
  => \A key \in TokenSpace :
       \A W \in Quorums(Get(ringDesc, key, MaxReplicas, "Write")),
          R \in Quorums(Get(ringDesc, key, MaxReplicas, "Read")) : W \cap R # {}
====
