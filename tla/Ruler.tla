------------------------------- MODULE Ruler -------------------------------
(***************************************************************************)
(* The ruler (src/ruler): the scheduler's poller puts every user's rules   *)
(* on the scheduling queue, workers take an item when it is due, evaluate  *)
(* it and put it back one interval later, and Server.Stop ends them all.   *)
(*                                                                         *)
(* Time is counted in ticks and kept relative to now. The queue's own      *)
(* goroutine takes part in every Enqueue and Dequeue: both are meetings on *)
(* an unbuffered channel, so each is one step.                             *)
(*                                                                         *)
(* Server.run starts every worker with "go w.Run()" on the variable of its *)
(* loop. There is one such variable for the whole loop, and Run has a      *)
(* pointer to it: what a goroutine reads of "its" worker, its channels     *)
(* done and terminated, are those of the worker the loop has come to.      *)
(***************************************************************************)
EXTENDS ConfigService, Sequences

CONSTANTS
  MaxWorkers, \* bound on the number of workers
  Interval,   \* evaluationInterval, which is pollInterval too, in ticks
  MaxLate     \* bound on the ticks by which a poll or an item is late

ASSUME RulerAssumption ==
  /\ MaxWorkers \in Nat \ {0}
  /\ Interval \in Nat /\ MaxLate \in Nat /\ MaxLate < Interval

VARIABLES
  q,         \* the state of the scheduling queue
  wait,      \* ticks to the next tick of the poller
  numWorkers,\* the flag ruler.num-workers
  spawned,   \* the worker the loop of Server.run has come to
  worker,    \* goroutine -> [pc, item, term: the worker whose terminated it closes]
  server,    \* how far the shutdown is
  stopping,  \* the workers whose done is closed
  panicked   \* the process is gone

rulerVars == <<q, wait, numWorkers, spawned, worker, server, stopping, panicked>>

SQ == INSTANCE SchedulingQueue

Workers == 1..MaxWorkers
NoItem == [user |-> "none", rules |-> -1, due |-> 0]
Items(is) == {is[i] : i \in DOMAIN is}
InHand == {worker[w].item : w \in Workers} \ {NoItem}

(* NewServer refuses to have no worker.                                    *)
RulerInit ==
  /\ q = SQ!NewQueueState
  /\ wait = Interval
  /\ numWorkers \in Workers /\ spawned = 0
  /\ worker = [w \in Workers |-> [pc |-> "new", item |-> NoItem, term |-> 0]]
  /\ server = "up" /\ stopping = 0
  /\ panicked = FALSE

-----------------------------------------------------------------------------
(* The scheduler.                                                          *)

(* The channel add is closed: SchedulingQueue.Close. *)
Closed == server \in {"scheduler", "stopped", "exited"}

(* An item reaches the queue, unless that is closed: the send panics.      *)
addWorkItem(item) ==
  IF Closed THEN panicked' = TRUE /\ UNCHANGED q
  ELSE q' = SQ!Enqueue(q, item) /\ UNCHANGED panicked

(* One turn of the loop of addNewConfigs; the time of the poll is the last *)
(* tick of the poller.                                                     *)
addNewConfigs(u) ==
  /\ poller = "add" /\ u \in DOMAIN answer
  /\ Handled(u)
  /\ IF answer[u].config \in Broken THEN UNCHANGED <<q, panicked>>
     ELSE addWorkItem([user |-> u, rules |-> answer[u].id, due |-> wait - Interval])
  /\ UNCHANGED <<service, poller, latestConfig, stop, wait, numWorkers, spawned, worker, server, stopping>>

SchedulerRun ==
  /\ \/ loadAllConfigs /\ wait' = Interval
     \/ wait <= 0 /\ updateConfigs /\ wait' = wait + Interval
     \/ (Added \/ PollerStops) /\ UNCHANGED wait
  /\ UNCHANGED <<q, numWorkers, spawned, worker, server, stopping, panicked>>

(* Mutant: an item that is done with is due again from the moment it was.  *)
DeferMutant(item) == item

Defer(item) == [item EXCEPT !.due = @ + Interval]

(* The item goes back with the rules it was taken with.                    *)
workItemDone(item) == addWorkItem(Defer(item))

-----------------------------------------------------------------------------
(* The workers: Run, in the steps at which another goroutine can come      *)
(* between.                                                                *)

(* One turn of the loop of Server.run.                                     *)
run ==
  /\ spawned < numWorkers
  /\ spawned' = spawned + 1
  /\ UNCHANGED <<service, client, q, wait, numWorkers, worker, server, stopping, panicked>>

Goto(w, pc, item) == worker' = [worker EXCEPT ![w].pc = pc, ![w].item = item]

(* The goroutine runs for the first time. "defer close(w.terminated)"      *)
(* reads the channel now.                                                  *)
Start(w) ==
  /\ worker[w].pc = "new" /\ w <= spawned
  /\ worker' = [worker EXCEPT ![w].pc = "check", ![w].term = spawned]
  /\ UNCHANGED <<service, client, q, wait, numWorkers, spawned, server, stopping, panicked>>

(* Mutant: the worker that is stopped last does not see it.                *)
checkDoneMutant(w) ==
  /\ worker[w].pc = "check"
  /\ Goto(w, IF spawned < stopping THEN "terminated" ELSE "wait", NoItem)
  /\ UNCHANGED <<service, client, q, wait, numWorkers, spawned, server, stopping, panicked>>

(* The done it looks at is that of the worker the loop has come to.        *)
checkDone(w) ==
  /\ worker[w].pc = "check"
  /\ Goto(w, IF spawned <= stopping THEN "terminated" ELSE "wait", NoItem)
  /\ UNCHANGED <<service, client, q, wait, numWorkers, spawned, server, stopping, panicked>>

(* The queue hands out its front when that is due. *)
nextWorkItem(w) ==
  /\ worker[w].pc = "wait"
  /\ SQ!QueueLen(q) > 0 /\ SQ!Front(q).due <= 0
  /\ Goto(w, "eval", SQ!Front(q))
  /\ q' = SQ!Dequeue(q)
  /\ UNCHANGED <<service, client, wait, numWorkers, spawned, server, stopping, panicked>>

(* The rules are evaluated with the user's notifier, made when missing.    *)
Evaluate(w) ==
  /\ worker[w].pc = "eval"
  /\ workItemDone(worker[w].item)
  /\ Goto(w, "check", NoItem)
  /\ UNCHANGED <<service, client, wait, numWorkers, spawned, server, stopping>>

-----------------------------------------------------------------------------
(* Shutdown: Server.Stop, then Ruler.Stop, as main defers them.            *)

(* The channel terminated of a worker is closed. *)
Terminated(k) == \E w \in Workers : worker[w].pc = "terminated" /\ worker[w].term = k

(* worker.Stop of one worker after the other, then scheduler.Stop.         *)
WorkerStop ==
  /\ \/ server = "up"
     \/ server = "workers" /\ Terminated(stopping)
  /\ IF stopping < numWorkers
     THEN server' = "workers" /\ stopping' = stopping + 1 /\ UNCHANGED stop
     ELSE server' = "scheduler" /\ stop' = TRUE /\ UNCHANGED stopping

ServerStop ==
  /\ \/ WorkerStop
     \/ /\ server = "scheduler" /\ poller = "done"
        /\ server' = "stopped" /\ UNCHANGED <<stopping, stop>>
  /\ UNCHANGED <<service, poller, latestConfig, answer, q, wait, numWorkers, spawned, worker, panicked>>

(* Every notifier is stopped. *)
RulerStop ==
  /\ server = "stopped"
  /\ server' = "exited"
  /\ UNCHANGED <<service, client, q, wait, numWorkers, spawned, worker, stopping, panicked>>

-----------------------------------------------------------------------------
(* A tick of the clock. The start of the workers, the first load, and the  *)
(* hand-over of an answer take less than one; polls and evaluations are at *)
(* most MaxLate late.                                                      *)
Tick ==
  /\ poller \in {"idle", "done"}
  /\ \A w \in 1..numWorkers : worker[w].pc # "new"
  /\ wait > -MaxLate
  /\ \A item \in Items(q.items) \cup InHand : item.due > -MaxLate
  /\ wait' = wait - 1
  /\ q' = SQ!Age(q)
  /\ worker' = [w \in Workers |->
                  IF worker[w].item = NoItem THEN worker[w]
                  ELSE [worker[w] EXCEPT !.item.due = @ - 1]]
  /\ UNCHANGED <<service, client, numWorkers, spawned, server, stopping, panicked>>

RulerSet(u, c) == setConfig(u, c) /\ UNCHANGED rulerVars
====
