------------------------------ MODULE RingDesc ------------------------------
(***************************************************************************)
(* The ring kept in Consul (src/ring/model.go). A Desc maps the registered *)
(* ingesters to their state and holds the tokens of all of them, sorted.   *)
(***************************************************************************)
EXTENDS Integers, Sequences, FiniteSets, Functions, TLC

CONSTANTS
  Ids,        \* ingester ids
  MaxToken    \* math.MaxUint32: tokens and keys are 0..MaxToken

ASSUME RingAssumption == MaxToken \in Nat /\ IsFiniteSet(Ids)

PENDING == "PENDING"
JOINING == "JOINING"
ACTIVE == "ACTIVE"
LEAVING == "LEAVING"
States == {PENDING, JOINING, ACTIVE, LEAVING}

TokenSpace == 0..MaxToken

NewDesc == [ingesters |-> [id \in {} |-> ACTIVE], tokens |-> << >>]

Members(d) == DOMAIN d.ingesters
State(d, id) == d.ingesters[id]

ByToken(a, b) == a.token < b.token

(* d.Ingesters[id] = ... *)
WithState(d, id, state) ==
  [d EXCEPT !.ingesters = [m \in Members(d) \cup {id} |->
                             IF m = id THEN state ELSE d.ingesters[m]]]

AddIngester(d, id, tokens, state) ==
  LET new == [k \in DOMAIN tokens |-> [token |-> tokens[k], ingester |-> id]]
  IN [WithState(d, id, state) EXCEPT !.tokens = SortSeq(d.tokens \o new, ByToken)]

(* Mutant: the ingester goes, its tokens stay.                             *)
RemoveIngesterMutant(d, id) ==
  [d EXCEPT !.ingesters = [m \in Members(d) \ {id} |-> d.ingesters[m]]]

RemoveIngester(d, id) ==
  [ingesters |-> [m \in Members(d) \ {id} |-> d.ingesters[m]],
   tokens |-> SelectSeq(d.tokens, LAMBDA t : t.ingester # id)]

(* ClaimTokens changes the ring and returns the claimed tokens.            *)
ClaimTokens(d, from, to) ==
  [d EXCEPT !.tokens = [k \in DOMAIN d.tokens |->
     IF d.tokens[k].ingester = from THEN [d.tokens[k] EXCEPT !.ingester = to]
     ELSE d.tokens[k]]]

FindIngestersByState(d, state) == {id \in Members(d) : d.ingesters[id] = state}

TakenTokens(d) == {d.tokens[k].token : k \in DOMAIN d.tokens}
TokensOf(d, id) ==
  LET mine == SelectSeq(d.tokens, LAMBDA t : t.ingester = id)
  IN [k \in DOMAIN mine |-> mine[k].token]

(* TokensFor returns the tokens of id, and all of the tokens.              *)
TokensFor(d, id) == [tokens |-> TokensOf(d, id), taken |-> TakenTokens(d)]

Sorted(T) == \A j, k \in DOMAIN T : j < k => T[j] <= T[k]

(* GenerateTokens(num, taken): any tokens none of which is taken. The same *)
(* one may be drawn twice; in which order they are drawn makes no          *)
(* difference, since AddIngester and autoJoin sort them.                   *)
GenerateTokens(num, taken) == {T \in [1..num -> TokenSpace \ taken] : Sorted(T)}
====
