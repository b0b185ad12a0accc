---------------------------- MODULE ConfigClients ----------------------------
(***************************************************************************)
(* The configuration service with one of its clients, the ruler or the     *)
(* multi-tenant Alertmanager. Clients only read from the service, so they  *)
(* do not affect each other: a behaviour has one of them, chosen at first. *)
(* The ruler's queue is also taken by itself, with callers that may do     *)
(* anything and more users than the ruler is checked with.                 *)
(***************************************************************************)
EXTENDS Ruler, Alertmanagers

CONSTANT QueueUsers   \* the users whose items the queue is given when alone

ASSUME QueueAssumption == Users \subseteq QueueUsers

VARIABLE job   \* "ruler", "alertmanager" or "queue"

vars == <<service, client, rulerVars, amVars, job>>

Init ==
  /\ job \in {"ruler", "alertmanager", "queue"}
  /\ ConfigInit /\ RulerInit /\ AlertmanagerInit
  /\ job = "ruler" \/ numWorkers = 1

(* The times a work item can have.                                         *)
Dues == (-MaxLate)..Interval

Gone == panicked \/ server = "exited"
RulerStep(A) == job = "ruler" /\ ~Gone /\ A /\ UNCHANGED <<amVars, job>>
AlertmanagerStep(A) == job = "alertmanager" /\ A /\ UNCHANGED <<rulerVars, job>>

(* The queue alone: any item at any time, the front when it is due.        *)
QueueAlone ==
  /\ \/ \E u \in QueueUsers, due \in Dues :
          q' = SQ!Enqueue(q, [user |-> u, rules |-> 0, due |-> due])
     \/ SQ!QueueLen(q) > 0 /\ SQ!Front(q).due <= 0 /\ q' = SQ!Dequeue(q)
     \/ (\A item \in Items(q.items) : item.due > -MaxLate) /\ q' = SQ!Age(q)
  /\ UNCHANGED <<service, client, wait, numWorkers, spawned, worker, server, stopping, panicked>>

QueueStep == job = "queue" /\ QueueAlone /\ UNCHANGED <<amVars, job>>

(* The ruler tells configurations apart by their ids only.                 *)
RulerConfigs == Broken \cup {CHOOSE c \in Configs : c \notin Broken}

Next ==
  \/ QueueStep
  \/ \E u \in Users, c \in RulerConfigs : RulerStep(RulerSet(u, c))
  \/ RulerStep(SchedulerRun)
  \/ \E u \in Users : RulerStep(addNewConfigs(u))
  \/ RulerStep(run)
  \/ \E w \in Workers :
       \/ RulerStep(Start(w)) \/ RulerStep(checkDone(w)) \/ RulerStep(nextWorkItem(w))
       \/ RulerStep(Evaluate(w))
  \/ RulerStep(ServerStop) \/ RulerStep(RulerStop) \/ RulerStep(Tick)
  \/ \E u \in Users, c \in Configs : AlertmanagerStep(AlertmanagerSet(u, c))
  \/ AlertmanagerStep(AlertmanagerRun)
  \/ \E u \in Users : AlertmanagerStep(AddConfig(u))
  \/ AlertmanagerStep(AlertmanagerStop) \/ AlertmanagerStep(StopAll)

(* Goroutines that can run do, and time passes. The select of Run takes    *)
(* stop in the end when that stays ready beside the ticks, and a receiver  *)
(* that waits at a channel is served in its turn. Nobody has to shut down  *)
(* or to send configurations.                                              *)
PollerRuns ==
  \/ RulerStep(SchedulerRun) \/ AlertmanagerStep(AlertmanagerRun)
  \/ \E u \in Users : RulerStep(addNewConfigs(u)) \/ AlertmanagerStep(AddConfig(u))
PollerSeesStop ==
  RulerStep(PollerStops /\ UNCHANGED rulerVars) \/ AlertmanagerStep(PollerStops /\ UNCHANGED amVars)
StopGoesOn ==
  RulerStep(server # "up" /\ ServerStop) \/ RulerStep(RulerStop) \/ AlertmanagerStep(StopAll)

Fairness ==
  /\ WF_vars(PollerRuns) /\ SF_vars(PollerSeesStop)
  /\ \A w \in Workers :
       /\ WF_vars(RulerStep(Start(w)) \/ RulerStep(checkDone(w)) \/ RulerStep(Evaluate(w)))
       /\ SF_vars(RulerStep(nextWorkItem(w)))
  /\ WF_vars(RulerStep(run)) /\ WF_vars(StopGoesOn)
  /\ WF_vars(RulerStep(Tick))

Spec == Init /\ [][Next]_vars /\ Fairness
-----------------------------------------------------------------------------
Working(u) == u \in DOMAIN db /\ db[u].config \notin Broken
Applicable(u) == Working(u) /\ db[u].config \notin Refused

Scheduled == [user : QueueUsers, rules : 0..MaxSets, due : Dues]

(* TypeOK: the variables of the service and of both clients have the       *)
(* values the code gives them.                                             *)
TypeOK ==
  /\ ConfigTypeOK
  /\ Items(q.items) \subseteq Scheduled /\ DOMAIN q.hit \subseteq QueueUsers
  /\ wait \in Dues
  /\ numWorkers \in Workers /\ spawned \in 0..numWorkers
  /\ worker \in [Workers -> [pc : {"new", "check", "wait", "eval", "terminated"},
                             item : Scheduled \cup {NoItem}, term : 0..numWorkers]]
  /\ server \in {"up", "workers", "scheduler", "stopped", "exited"}
  /\ stopping \in 0..numWorkers
  /\ panicked \in BOOLEAN
  /\ \A u \in DOMAIN alertmanagers :
       u \in DOMAIN cfgs /\ alertmanagers[u] \in [config : Configs \ Refused, up : BOOLEAN]
  /\ DOMAIN alertmanagers \subseteq channels /\ channels \subseteq Users
  /\ am \in {"up", "stopping", "stopped"}

(* ImplementsKeyedQueue: the heap and its map do what a queue of scheduled *)
(* items promises, whatever the scheduler and the workers do at once.      *)
KQ == INSTANCE KeyedQueue WITH Keys <- QueueUsers, pending <- SQ!Pending(q)
ImplementsKeyedQueue == KQ!QueueSpec

(* EveryUserEvaluated: until the scheduler is stopped, a user whose rules  *)
(* were scheduled once is on the queue or in the hands of a worker:        *)
(* replacing, taking and putting back items never loses one (scheduler.go, *)
(* addNewConfigs, workItemDone; ruler.go, worker.Run). And the rules of a  *)
(* user with a working configuration are evaluated again and again.        *)
KnownUsers == {item.user : item \in Items(q.items) \cup InHand}
EveryUserEvaluated ==
  /\ [][job = "ruler" => KnownUsers \subseteq KnownUsers' \/ panicked']_vars
  /\ \A u \in Users :
       []<>(job = "ruler" /\ server = "up" /\ Working(u) =>
              \E w \in Workers : worker[w].pc = "eval" /\ worker[w].item.user = u)

(* NewestOffered: the newest configuration of a user, when it works, comes *)
(* to the queue or to a worker again and again while it is the newest: an  *)
(* update lost in a failed request, or to a worker that puts the old item  *)
(* back over it (scheduler.go, workItemDone), is sent again, because an    *)
(* answer without configurations resets latestConfig to 0.                 *)
NewestOffered ==
  \A u \in Users :
    []<>(job = "ruler" /\ server = "up" /\ Working(u) =>
           \E item \in Items(q.items) \cup InHand : item.user = u /\ item.rules = db[u].id)

(* StopEnds: with one worker, which is the default, Server.Stop returns    *)
(* (or the process panics at its end) when there is work: a worker looks   *)
(* at done only between two items. With more, and once all of them run,    *)
(* it never returns: they all look at the done of the last (ruler.go, run),*)
(* which Stop closes after it has waited for the first.                    *)
StopEnds ==
  []<>(job = "ruler" /\ numWorkers = 1 /\ server # "up" /\ KnownUsers # {} =>
         Gone)

(* ConfigArrives: a user whose newest configuration works and is not       *)
(* refused gets an Alertmanager that runs it, again and again: in spite of *)
(* failed requests, failed starts and configurations that were broken or   *)
(* refused before, the user's own or another's. What was not started is    *)
(* tried again with the next full answer; the router knows the channels    *)
(* then, which takes the process down (mesh/router.go, NewGossip), and     *)
(* only the new process starts it. While some user has nothing but a       *)
(* refused configuration, everybody's Alertmanagers go down in this way    *)
(* time and again; between two falls every user gets the newest.           *)
ConfigArrives ==
  \A u \in Users :
    []<>(job = "alertmanager" /\ am = "up" /\ Applicable(u) =>
           u \in DOMAIN alertmanagers /\ alertmanagers[u].config = db[u].config)

(* AllStopped: the types, and what Stop leaves behind. When it has         *)
(* returned no Alertmanager that is recorded for a user runs, also when a  *)
(* poll was adding one while Stop was called; what a failed start or a     *)
(* refused first configuration left running is recorded nowhere and runs   *)
(* until the process ends. In the ruler, when Server.Stop is past the      *)
(* workers, each has terminated and closed its own channel: no worker      *)
(* evaluates rules with a notifier that was stopped (cmd/ruler/main.go     *)
(* stops the server before the ruler), none adds to the closed queue, and  *)
(* when the scheduler does, which panics (scheduler.go, Stop), it cuts no  *)
(* evaluation short.                                                       *)
AllStopped ==
  /\ TypeOK
  /\ am = "stopped" => \A u \in DOMAIN alertmanagers : ~alertmanagers[u].up
  /\ Closed => \A w \in 1..numWorkers : worker[w].pc = "terminated" /\ worker[w].term = w
====
