------------------------------ MODULE MCIndex ------------------------------
(* ChunkIndex with two chunks to put, and chunks of every shape. A day is  *)
(* two hours, of a tick each, a table two days; every version of the       *)
(* schema has a day of its own.                                            *)
EXTENDS ChunkIndex

MCSchemaFrom == <<0, 2, 4, 6, 8, 10>>

Labelled(k, from, through, ls) ==
  [id |-> k, from |-> from, through |-> through, metric |-> "m", labels |-> ls]

(* The intervals a query may have.                                         *)
QuerySpans == {<<a, b>> \in (0..12) \X (0..12) : b - a \in {0, 3, 12}}

MCEarlier == {1}
MCFresh == {2, 3}
MCChunk ==   \* from the fourth on, chunks of up to four ticks
  1 :> Labelled(1, 11, 12, "l" :> "x") @@
  2 :> Labelled(2, 12, 12, "l" :> "x") @@ 3 :> Labelled(3, 12, 12, "l" :> "y") @@
  [k \in 4..51 |-> Labelled(k, (k \div 4) - 1, (k \div 4) - 1 + (k % 4), "l" :> "x")]

Is(k, x) == [label |-> k, equal |-> TRUE, accepts |-> {x}]
Like(k, xs) == [label |-> k, equal |-> FALSE, accepts |-> xs]
Ask(from, through, ms) == [from |-> from, through |-> through, metric |-> "m", matchers |-> ms]

MCQueries == {Ask(11, 12, {}), Ask(12, 12, {Like("l", {"x", "y"}), Is("l", "x"), Like("o", {"", "z"})})}
MCAnyQueries ==
  {Ask(s[1], s[2], ms) : s \in QuerySpans,
     ms \in {{Is("l", "x")}, {Like("l", {"x", "y"})}, {Is("o", "")}}}
====
