--------------------------- MODULE ConfigService ---------------------------
(***************************************************************************)
(* The configuration service (src/configs/api/api.go, db/memory,           *)
(* db/postgres) and the client that polls it: the same loop in the ruler's *)
(* scheduler (src/ruler/scheduler.go) and in the multi-tenant Alertmanager *)
(* (src/alertmanager/multitenant.go).                                      *)
(*                                                                         *)
(* A user's configuration is one value; the service numbers the versions   *)
(* of all users with one counter, and a client asks for what is newer than *)
(* the newest it has seen.                                                 *)
(***************************************************************************)
EXTENDS Integers, FiniteSets, FiniteSetsExt, Functions

CONSTANTS
  Users,      \* user ids
  Configs,    \* the configurations users may send
  Broken,     \* those that do not parse (GetRules, GetAlertmanagerConfig)
  MaxSets,    \* bound on the calls of setConfig
  MaxErrors   \* bound on what fails: in the database, on the way to it, in a client

ASSUME ConfigAssumption ==
  /\ Broken \subseteq Configs /\ Broken # Configs
  /\ MaxSets \in Nat /\ MaxErrors \in Nat

VARIABLES
  db,            \* user -> [id, config], for the users that have one
  ids,           \* the ids given to the versions stored so far
  errors,        \* failures so far
  poller,        \* where Run is: "load", "add", "idle" or "done"
  latestConfig,  \* the id the next poll sends as "since"
  answer,        \* the configurations addNewConfigs still has to go through
  stop           \* the channel stop is closed

service == <<db, ids, errors>>
client == <<poller, latestConfig, answer, stop>>

Nothing == << >>

ConfigInit ==
  /\ db = Nothing /\ ids = {} /\ errors = 0
  /\ poller = "load"
  /\ latestConfig = 0
  /\ answer = Nothing
  /\ stop = FALSE

-----------------------------------------------------------------------------
(* The service.                                                            *)

(* POST of a configuration: nothing is validated here. PostgreSQL numbers  *)
(* the versions from 1 as they are inserted, and two that are inserted at  *)
(* once may be committed in either order. A user's version is the highest. *)
setConfig(u, c) ==
  \E n \in (1..MaxSets) \ ids :
    /\ ids' = ids \cup {n}
    /\ db' = IF u \in DOMAIN db /\ db[u].id > n THEN db
             ELSE [v \in DOMAIN db \cup {u} |-> IF v = u THEN [id |-> n, config |-> c] ELSE db[v]]
    /\ UNCHANGED <<errors, client>>

GetAllConfigs == db

GetConfigs(since) == Restrict(db, {u \in DOMAIN db : db[u].id > since})

Found(since) == IF since = 0 THEN GetAllConfigs ELSE GetConfigs(since)

(* What GET answers when the query fails (dbErr), or when its rows end     *)
(* after those of the users in read, which is not told from their end. The *)
(* err of the branch with "since" is another variable than the one that is *)
(* tested: a failure there is answered as "no configurations".             *)
getConfigs(since, dbErr, read) ==
  IF dbErr THEN [ok |-> since # 0, configs |-> Nothing]
  ELSE [ok |-> TRUE, configs |-> Restrict(Found(since), read)]

-----------------------------------------------------------------------------
(* The client.                                                             *)

(* Mutant: without new configurations the id stays as it is.               *)
GetLatestConfigIDMutant(cs) ==
  Max({cs[u].id : u \in DOMAIN cs} \cup {latestConfig})

(* The highest id of an answer; 0, which asks for everything, when there   *)
(* is none.                                                                *)
GetLatestConfigID(cs) == Max({cs[u].id : u \in DOMAIN cs} \cup {0})

(* poll, which the first load repeats until it succeeds and an update      *)
(* gives up until the next tick. The request may also fail on its way.     *)
poll ==
  /\ \/ \E dbErr \in BOOLEAN, read \in SUBSET DOMAIN Found(latestConfig) :
          LET res == getConfigs(latestConfig, dbErr, read)
              failed == dbErr \/ read # DOMAIN Found(latestConfig)
          IN /\ failed => errors < MaxErrors
             /\ dbErr => read = {}
             /\ errors' = IF failed THEN errors + 1 ELSE errors
             /\ IF res.ok
                THEN /\ latestConfig' = GetLatestConfigID(res.configs)
                     /\ answer' = res.configs
                     /\ poller' = "add"
                ELSE UNCHANGED <<latestConfig, answer, poller>>
     \/ /\ errors < MaxErrors
        /\ errors' = errors + 1
        /\ UNCHANGED <<latestConfig, answer, poller>>
  /\ UNCHANGED <<db, ids, stop>>

loadAllConfigs == poller = "load" /\ poll

(* A tick of the poller; select may prefer it to stop. *)
updateConfigs == poller = "idle" /\ poll

(* One configuration of the answer is done with.                           *)
Handled(u) == answer' = Restrict(answer, DOMAIN answer \ {u})

(* addNewConfigs returns. *)
Added ==
  /\ poller = "add" /\ answer = Nothing
  /\ poller' = "idle"
  /\ UNCHANGED <<service, latestConfig, answer, stop>>

(* Run returns and closes done. *)
PollerStops ==
  /\ poller = "idle" /\ stop
  /\ poller' = "done"
  /\ UNCHANGED <<service, latestConfig, answer, stop>>

Run == loadAllConfigs \/ updateConfigs \/ Added \/ PollerStops

ConfigTypeOK ==
  /\ DOMAIN db \subseteq Users /\ DOMAIN answer \subseteq Users
  /\ \A u \in DOMAIN db : db[u] \in [id : ids, config : Configs]
  /\ \A u \in DOMAIN answer : answer[u] \in [id : ids, config : Configs]
  /\ ids \subseteq 1..MaxSets /\ errors \in 0..MaxErrors
  /\ poller \in {"load", "add", "idle", "done"}
  /\ latestConfig \in 0..MaxSets
  /\ stop \in BOOLEAN
====
