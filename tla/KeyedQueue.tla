----------------------------- MODULE KeyedQueue -----------------------------
(***************************************************************************)
(* What a queue of scheduled items promises: at most one item per key, the *)
(* last one given for it; an item leaves no earlier than it is due, and no *)
(* item that is due earlier is passed over.                                *)
(***************************************************************************)
EXTENDS Integers, Functions

CONSTANT Keys
VARIABLE pending   \* key -> its item, for the keys that have one

QueueInit == pending = << >>

Enqueue ==
  \E k \in Keys : \E item \in {pending'[j] : j \in DOMAIN pending'} :
    pending' = [j \in DOMAIN pending \cup {k} |-> IF j = k THEN item ELSE pending[j]]

Dequeue ==
  \E k \in DOMAIN pending :
    /\ pending[k].due <= 0
    /\ \A j \in DOMAIN pending : pending[k].due <= pending[j].due
    /\ pending' = Restrict(pending, DOMAIN pending \ {k})

(* The times of the items are relative to now.                             *)
Pass == pending' = [k \in DOMAIN pending |-> [pending[k] EXCEPT !.due = @ - 1]]

QueueSpec == QueueInit /\ [][Enqueue \/ Dequeue \/ Pass]_pending
====
