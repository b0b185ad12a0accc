---------------------------- MODULE Alertmanagers ----------------------------
(***************************************************************************)
(* The multi-tenant Alertmanager (src/alertmanager/multitenant.go and      *)
(* alertmanager.go): one Alertmanager per user, started when the user's    *)
(* first configuration arrives and given the later ones.                   *)
(*                                                                         *)
(* Only the poller writes these maps; the HTTP handlers read alertmanagers *)
(* under its mutex. So one turn of the loop of addNewConfigs is one step.  *)
(*                                                                         *)
(* An Alertmanager registers its gossip channels with the mesh router,     *)
(* where they stay. The mesh has no other peers here, as it is deployed    *)
(* (k8s/alertmanager-dep.yaml); with the same file, the process is started *)
(* again when it dies.                                                     *)
(***************************************************************************)
EXTENDS ConfigService

CONSTANT Refused   \* configurations that parse and that ApplyConfig refuses

ASSUME AlertmanagerAssumption == Refused \subseteq Configs \ Broken

VARIABLES
  alertmanagers,  \* user -> [config: what it runs, up], for the users that have one
  cfgs,           \* user -> the last configuration recorded for it
  channels,       \* the users whose channels the mesh router knows
  am              \* "up", "stopping" or "stopped"

amVars == <<alertmanagers, cfgs, channels, am>>

AlertmanagerInit ==
  /\ alertmanagers = Nothing /\ cfgs = Nothing
  /\ channels = {}
  /\ am = "up"

Set(f, u, x) == [v \in DOMAIN f \cup {u} |-> IF v = u THEN x ELSE f[v]]

(* alertmanagers after ApplyConfig(c) of the user's Alertmanager: an error *)
(* comes before the running dispatcher is touched.                         *)
ApplyConfig(u, c) ==
  IF c \in Refused THEN alertmanagers ELSE Set(alertmanagers, u, [config |-> c, up |-> TRUE])

(* NewGossip of a channel the router knows panics: the process dies, with *)
(* everybody's Alertmanagers, and is started again, unless it was stopping.*)
DuplicateChannel ==
  /\ alertmanagers' = Nothing /\ cfgs' = Nothing /\ channels' = {}
  /\ latestConfig' = 0 /\ answer' = Nothing
  /\ IF am = "up" THEN poller' = "load" /\ UNCHANGED am
     ELSE poller' = "done" /\ am' = "stopped"
  /\ UNCHANGED errors

(* New registers a channel before anything in it can fail.                 *)
New(u) == channels' = channels \cup {u}

(* A user without an Alertmanager and without channels. New may fail; what *)
(* it has started by then, and what an Alertmanager that refuses its first *)
(* configuration has started, keeps running. Neither is recorded.          *)
StartAlertmanager(u, c) ==
  /\ New(u)
  /\ \/ /\ errors < MaxErrors
        /\ errors' = errors + 1
        /\ UNCHANGED <<alertmanagers, cfgs>>
     \/ /\ c \in Refused
        /\ UNCHANGED <<errors, alertmanagers, cfgs>>
     \/ /\ c \notin Refused
        /\ alertmanagers' = ApplyConfig(u, c)
        /\ cfgs' = Set(cfgs, u, c)
        /\ UNCHANGED errors

(* A user with one: what changed is applied, and recorded even if refused. *)
UpdateAlertmanager(u, c) ==
  /\ alertmanagers' = IF cfgs[u] # c THEN ApplyConfig(u, c) ELSE alertmanagers
  /\ cfgs' = Set(cfgs, u, c)
  /\ UNCHANGED <<errors, channels>>

(* One turn of the loop of addNewConfigs. *)
AddConfig(u) ==
  /\ poller = "add" /\ u \in DOMAIN answer
  /\ LET c == answer[u].config
         new == c \notin Broken /\ u \notin DOMAIN alertmanagers
     IN IF new /\ u \in channels THEN DuplicateChannel
        ELSE /\ Handled(u)
             /\ IF c \in Broken THEN UNCHANGED <<alertmanagers, cfgs, channels, errors>>
                ELSE IF new THEN StartAlertmanager(u, c)
                ELSE UpdateAlertmanager(u, c)
             /\ UNCHANGED <<poller, latestConfig, am>>
  /\ UNCHANGED <<db, ids, stop>>

AlertmanagerRun == Run /\ UNCHANGED amVars

(* Mutant: Stop does not wait for Run to return.                           *)
StopAllMutant ==
  /\ am = "stopping"
  /\ am' = "stopped"
  /\ alertmanagers' = [u \in DOMAIN alertmanagers |-> [alertmanagers[u] EXCEPT !.up = FALSE]]
  /\ UNCHANGED <<service, client, cfgs, channels>>

(* The end of Stop: the poller is done, every Alertmanager is stopped.     *)
StopAll ==
  /\ am = "stopping" /\ poller = "done"
  /\ am' = "stopped"
  /\ alertmanagers' = [u \in DOMAIN alertmanagers |-> [alertmanagers[u] EXCEPT !.up = FALSE]]
  /\ UNCHANGED <<service, client, cfgs, channels>>

(* Its beginning. *)
AlertmanagerStop ==
  /\ am = "up"
  /\ am' = "stopping" /\ stop' = TRUE
  /\ UNCHANGED <<service, poller, latestConfig, answer, alertmanagers, cfgs, channels>>

AlertmanagerSet(u, c) == setConfig(u, c) /\ UNCHANGED amVars
====
