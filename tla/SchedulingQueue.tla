--------------------------- MODULE SchedulingQueue ---------------------------
(***************************************************************************)
(* The ruler's queue of work items (src/ruler/scheduling_queue.go): a heap *)
(* ordered by the time an item is scheduled for, and "hit", which says     *)
(* where in the heap the item of a key is. heap.Push, Pop and Fix are      *)
(* those of Go's container/heap, which moves items with Swap only.         *)
(*                                                                         *)
(* An item is a record with its "user", the key, and "due", its scheduled  *)
(* time relative to now. Positions count from 1.                           *)
(***************************************************************************)
EXTENDS Integers, Sequences, Functions

NewQueueState == [items |-> << >>, hit |-> << >>]

QueueLen(q) == Len(q.items)

Less(q, i, j) == q.items[i].due < q.items[j].due

(* hit with one key set.                                                   *)
SetHit(hit, k, i) == [j \in DOMAIN hit \cup {k} |-> IF j = k THEN i ELSE hit[j]]

Swap(q, i, j) ==
  [items |-> [q.items EXCEPT ![i] = q.items[j], ![j] = q.items[i]],
   hit |-> [q.hit EXCEPT ![q.items[i].user] = j, ![q.items[j].user] = i]]

(* container/heap: up and down from position i, down among the first n.    *)
RECURSIVE heapUp(_, _)
heapUp(q, i) ==
  IF i = 1 \/ ~Less(q, i, i \div 2) THEN q ELSE heapUp(Swap(q, i, i \div 2), i \div 2)

RECURSIVE heapDown(_, _, _)
heapDown(q, i, n) ==
  LET l == 2 * i
      least == IF l + 1 <= n /\ Less(q, l + 1, l) THEN l + 1 ELSE l
  IN IF l > n \/ ~Less(q, least, i) THEN q ELSE heapDown(Swap(q, i, least), least, n)

(* heap.Fix after items[i] has changed. *)
heapFix(q, i) ==
  LET down == heapDown(q, i, QueueLen(q)) IN IF down = q THEN heapUp(q, i) ELSE down

Push(q, x) ==
  [items |-> Append(q.items, x), hit |-> SetHit(q.hit, x.user, QueueLen(q) + 1)]

(* Pop drops the last item: heap.Pop has moved the first one there.        *)
Pop(q) ==
  LET n == QueueLen(q)
  IN [items |-> SubSeq(q.items, 1, n - 1),
      hit |-> Restrict(q.hit, DOMAIN q.hit \ {q.items[n].user})]

(* Mutant: an item that replaces another one stays where that one was.     *)
EnqueueMutant(q, op) ==
  IF op.user \in DOMAIN q.hit THEN [q EXCEPT !.items[q.hit[op.user]] = op]
  ELSE heapUp(Push(q, op), QueueLen(q) + 1)

(* queueState.Enqueue *)
Enqueue(q, op) ==
  IF op.user \in DOMAIN q.hit
  THEN heapFix([q EXCEPT !.items[q.hit[op.user]] = op], q.hit[op.user])
  ELSE heapUp(Push(q, op), QueueLen(q) + 1)

(* queueState.Dequeue *)
Dequeue(q) ==
  LET n == QueueLen(q) IN Pop(heapDown(Swap(q, 1, n), 1, n - 1))

Front(q) == q.items[1]

(* Time passes.                                                            *)
Age(q) == [q EXCEPT !.items = [i \in DOMAIN @ |-> [@[i] EXCEPT !.due = @ - 1]]]

(* The item of each key.                                                   *)
Pending(q) == [k \in DOMAIN q.hit |-> q.items[q.hit[k]]]
====
